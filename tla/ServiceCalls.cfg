SPECIFICATION Spec
CONSTANTS
    Task = {t1, t2, t3}
    Lock = {k1, k2, k3}
    Commands = {"toggle", "off"}
    None = None
    MaxCalls = 3
    MaxReports = 2
    MaxRecent = 2
SYMMETRY Symmetry
INVARIANTS CallsOK LeavesNothing
PROPERTIES TogglesCancel
CHECK_DEADLOCK FALSE
