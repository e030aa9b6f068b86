SPECIFICATION Spec
CONSTANTS
    Ent = {1, 2}
    Events = {2}
    Nulls = TRUE
    MaxEntities = 2
    MaxPresses = 2
    Room = 1
    MaxReports = 3
    MaxOps = 1
INVARIANTS PressesKept
CHECK_DEADLOCK FALSE
