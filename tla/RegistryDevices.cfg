SPECIFICATION Spec
CONSTANTS
    Absent = Absent
    d1 = d1
    d2 = d2
    d3 = d3
    d4 = d4
    i1 = i1
    i2 = i2
    i3 = i3
    e1 = e1
    e2 = e2
    e3 = e3
    v1 = v1
    v2 = v2
    Dev = {d1, d2, d3, d4}
    Id = {i1, i2, i3}
    IdOf <- SharedIds
    Ent = {}
    Val = {v1}
    Vias <- AnyVia
    Hosts <- NoEntity
    Abilities <- Everything
INVARIANTS DevicesOK ViaOK
CHECK_DEADLOCK FALSE
