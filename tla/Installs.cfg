SPECIFICATION FairSpec
CONSTANTS
    Protocol = {p1}
    Entity = {e1, e2}
    ProtocolOf <- OneProtocol
    Task = {t1, t2, t3}
    None = None
    Gone = Gone
    Unreported = Unreported
    MaxVersion = 2
    MaxInputs = 2
INVARIANTS TypeOK LineOK Watched
PROPERTIES LineMoves
CHECK_DEADLOCK FALSE
