SPECIFICATION Spec
CONSTANTS
    Flow = {1}
    Definition <- JustForked
    Entity = {"light"}
    Happening = {}
    Val = {"on", "off"}
    Null = Null
    State <- OnOffAway
    Zone = {0, 1}
    None = None
    MAX_STEPS = 8
    MaxInputs = 2
    MaxLate = 1
INVARIANT HoldReset
CHECK_DEADLOCK FALSE
