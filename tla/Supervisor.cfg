SPECIFICATION FairSpec
CONSTANTS
    Kind = {"builtin", "process", "inbound"}
    Settings = {"good", "other", "bad", "unset"}
    Unset = {"unset"}
    Bad = {"bad"}
    MaxRetry = 3
    Room = 2
    MaxInputs = 2
    MaxFaults = 3
INVARIANTS Driven DoorOK StatusOK
PROPERTIES StopEnds OffEnds Settles
CHECK_DEADLOCK FALSE
