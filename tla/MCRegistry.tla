----------------------------- MODULE MCRegistry -----------------------------
(* Small instances of Registry.                                             *)
EXTENDS Registry

CONSTANTS d1, d2, d3, d4, i1, i2, i3, e1, e2, e3, v1, v2

\* Every handle has an id of its own.
OwnIds == [u \in Dev |-> CASE u = d1 -> i1 [] u = d2 -> i2 [] OTHER -> i3]

\* d1 and d4 differ only in punctuation, the others have ids of their own.
SharedIds == [u \in Dev |-> CASE u = d2 -> i2 [] u = d3 -> i3 [] OTHER -> i1]

NoVias == [u \in Dev |-> {Absent}]
AnyVia == [u \in Dev |-> (Dev \ {u}) \cup {Absent}]
ThroughD1 == [u \in Dev |-> IF u = d1 THEN {Absent} ELSE {d1, Absent}]

\* Where the entities are: each in one place, or e1 on either device.
Fixed == [e \in Ent |-> IF e = e3 THEN {Absent} ELSE {d1}]
Moving == [e \in Ent |-> {d1, d2}]

NoEntity == [e \in Ent |-> {}]
Everything == {Val}
MayShrink == {Val, {v1}}
=============================================================================
