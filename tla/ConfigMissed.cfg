SPECIFICATION FairSpec
CONSTANTS
    Settings <- TwoSettings
    Extension = "extension"
    Users = "users"
    Secrets = "secrets"
    MaxChanges = 2
    MaxFaults = 0
    MaxCrashes = 0

PROPERTY HandSeen
