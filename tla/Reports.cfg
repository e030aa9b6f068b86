SPECIFICATION FairSpec
CONSTANTS
    Ent = {1, 2}
    Events = {2}
    Nulls = FALSE
    MaxEntities = 1
    MaxPresses = 2
    Room = 1
    MaxReports = 3
    MaxOps = 1
INVARIANTS QueueOK ReportsKept NoneUncounted
PROPERTIES Delivered
CHECK_DEADLOCK FALSE
