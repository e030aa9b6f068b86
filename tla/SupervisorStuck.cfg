SPECIFICATION FairSpec
CONSTANTS
    Kind = {"process"}
    Settings = {"good"}
    Unset = {}
    Bad = {}
    MaxRetry = 3
    Room = 2
    MaxInputs = 0
    MaxFaults = 1
PROPERTY StopAlwaysEnds
CHECK_DEADLOCK FALSE
