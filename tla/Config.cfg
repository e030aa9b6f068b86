SPECIFICATION FairSpec
CONSTANTS
    Settings <- TwoSettings
    Extension = "extension"
    Users = "users"
    Secrets = "secrets"
    MaxChanges = 3
    MaxFaults = 2
    MaxCrashes = 1
INVARIANTS FilesOK ChangesKept
PROPERTIES HandKept EditsArrive
