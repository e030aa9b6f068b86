SPECIFICATION Spec
CONSTANTS
    Flow = {1}
    Definition <- JustShared
    Entity = {"light"}
    Happening = {}
    Val = {"on", "off"}
    Null = Null
    State <- OnOffAway
    Zone = {0, 1}
    None = None
    MAX_STEPS = 8
    MaxInputs = 2
    MaxLate = 1
INVARIANT SomethingLeft
CHECK_DEADLOCK FALSE
