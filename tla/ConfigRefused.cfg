SPECIFICATION Spec
CONSTANTS
    Settings <- TwoSettings
    Extension = "extension"
    Users = "users"
    Secrets = "secrets"
    MaxChanges = 2
    MaxFaults = 0
    MaxCrashes = 0

INVARIANT RefusedLeavesNothing
