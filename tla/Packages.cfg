SPECIFICATION FairSpec
CONSTANTS
    Worker = {w1, w2}
    File = {f, g}
    NoVersion = NoVersion
    Nobody = Nobody
    MaxInputs = 4
    MaxStops = 2
    MaxFaults = 2
INVARIANTS PackageOK GoneStays InstalledRuns
PROPERTIES WorkEnds StoreKept
CHECK_DEADLOCK FALSE
