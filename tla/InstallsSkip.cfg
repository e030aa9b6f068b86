SPECIFICATION Spec
CONSTANTS
    Protocol = {p1}
    Entity = {e1, e2}
    ProtocolOf <- OneProtocol
    Task = {t1, t2, t3}
    None = None
    Gone = Gone
    Unreported = Unreported
    MaxVersion = 2
    MaxInputs = 3
SYMMETRY Symmetry
PROPERTIES SkipStands
CHECK_DEADLOCK FALSE
