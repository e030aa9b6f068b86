SPECIFICATION Spec
CONSTANTS
    Worker = {w1}
    File = {f}
    NoVersion = NoVersion
    Nobody = Nobody
    MaxInputs = 3
    MaxStops = 1
    MaxFaults = 1
CHECK_DEADLOCK FALSE
INVARIANT NewestBack
