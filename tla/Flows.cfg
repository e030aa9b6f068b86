SPECIFICATION FairSpec
CONSTANTS
    Flow = {1}
    Definition <- AllKinds
    Entity = {"light"}
    Happening = {}
    Val = {"on", "off"}
    Null = Null
    State <- OnOffAway
    Zone = {0, 1}
    None = None
    MAX_STEPS = 6
    MaxInputs = 2
    MaxLate = 1
INVARIANTS FlowsOK ModeKept SomethingLeft JoinOnce TimersTrue
PROPERTY RunsEnd
CHECK_DEADLOCK FALSE
