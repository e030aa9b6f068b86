SPECIFICATION Spec
CONSTANTS
    Writer = {w1, w2}
    Reader = {r1, r2}
    List = {l1, l2}
    None = None
    MaxEvents = 3
    MaxBatch = 2
SYMMETRY Symmetry
INVARIANTS TypeOK NeverNewer
PROPERTIES Fresh NeverBack
