--------------------------- MODULE PackagesProofs ---------------------------
(***************************************************************************)
(* Proofs about Packages, for any workers and any number of things asked    *)
(* for, of stops and of failures: nobody touches the package of a running   *)
(* extension, what is uninstalled stays so, what is installed runs, and all *)
(* of it implements PackageStore.                                          *)
(***************************************************************************)
EXTENDS Packages, FiniteSetTheorems, WellFoundedInduction, TLAPS

\* One package at most is in place; when it can't be read, an uninstall has begun.
HomeInv ==
    /\ home # {} => home = {TheHome}
    /\ home # {} /\ ~Readable(TheHome) => leaving

\* Whoever works on the package itself has its claim, and so has all work on a known id.
ClaimInv ==
    \A w \in Worker :
        work[w].at \in Claimed \/ (work[w].at \in {"stage", "fetch"} /\ work[w].op # "url")
            => claim = w

\* While Irori is down, or starts, nobody works and nothing runs; what is to be put back is
\* there.
DownInv ==
    phase # "up" =>
        /\ \A w \in Worker : work[w].at = "idle"
        /\ ~running
        /\ \A n \in Version : <<"old", n>> \in todo => n \in DOMAIN olds

\* Versions are new when they are asked for, and each worker's is its own.
Kept == home \cup {olds[n] : n \in DOMAIN olds}
Asked == 1 .. inputs
UsedInv ==
    /\ \A p \in Kept : p.v \in Asked \cup {NoVersion}
    /\ DOMAIN olds \subseteq Asked
    /\ \A w \in Worker : work[w].at # "idle" => Stage(w) \in Asked
    /\ \A w, u \in Worker :
          w # u /\ work[w].at # "idle" /\ work[u].at # "idle" => Stage(w) # Stage(u)

\* What a worker has not put in place yet is staged, whole once it is fetched, and nowhere
\* else.
ToPlace == {"claim", "place", "aside", "replace"}
HasStaged(w) ==
    work[w].at \in ToPlace \/ (work[w].at = "stop" /\ work[w].op = "update")
StagedAt(w) ==
    /\ work[w].at = "fetch" \/ HasStaged(w) => Stage(w) \in DOMAIN stages
    /\ HasStaged(w) => stages[Stage(w)].v = Stage(w)
    /\ work[w].at \in {"stage", "fetch", "stop"} \cup ToPlace =>
          /\ \A p \in Kept : p.v # Stage(w)
          /\ work[w].at # "replace" => Stage(w) \notin DOMAIN olds
StagedInv == \A w \in Worker : StagedAt(w)

\* Where the package is at each step of an install, an update and an uninstall.
PlaceAt(w) ==
    /\ work[w].at \in {"aside", "replace", "carry", "drop"} => work[w].op = "update"
    /\ work[w].at \in {"stop", "aside"} /\ work[w].op = "update" => home # {}
    /\ work[w].at = "replace" =>
          /\ home = {} /\ ~gone /\ Stage(w) \in DOMAIN olds
          /\ ~Readable(olds[Stage(w)]) => leaving
    /\ work[w].at \in {"carry", "drop", "spawn"} => InPlace /\ ~leaving
    /\ work[w].at \in {"carry", "drop"} => Stage(w) \in DOMAIN olds
    /\ work[w].at = "drop" => olds[Stage(w)].extra \subseteq TheHome.extra
    /\ work[w].at = "olds" => home = {} /\ leaving
PlaceInv == \A w \in Worker : PlaceAt(w)

\* What is in place runs, or is being worked on, or the disk has failed.
RestInv ==
    phase = "up" /\ InPlace =>
        \/ running \/ stranded
        \/ \E w \in Worker : work[w].at \in {"aside", "carry", "drop", "spawn", "remove"}

IInv ==
    /\ TypeOK /\ HomeInv /\ ClaimInv /\ DownInv /\ UsedInv /\ StagedInv /\ PlaceInv
    /\ RestInv /\ NotMovedWhileRunning /\ GoneStays

-----------------------------------------------------------------------------
\* The one element of a set of one.
LEMMA TheOne == \A p : (CHOOSE q \in {p} : TRUE) = p
  OBVIOUS

\* What one entry less makes of a function.
LEMMA WithoutOK ==
  ASSUME NEW S, NEW f, f \in [DOMAIN f -> S], NEW x
  PROVE  /\ DOMAIN Without(f, x) = DOMAIN f \ {x}
         /\ Without(f, x) \in [DOMAIN Without(f, x) -> S]
         /\ \A z \in DOMAIN f : z # x => Without(f, x)[z] = f[z]
  BY DEF Without, Restrict

\* A set of one package, or none, is a home; the package is the one in it.
LEMMA HomeOK ==
  ASSUME NEW p \in Package
  PROVE  /\ {p} \subseteq Package /\ Cardinality({p}) <= 1
         /\ Cardinality({}) <= 1
  <1>1. Cardinality({p}) = 1 /\ Cardinality({}) = 0
    BY FS_Singleton, FS_EmptySet
  <1> QED
    BY <1>1

\* What is in place is a package.
LEMMA InHome ==
  ASSUME IInv, home # {}
  PROVE  TheHome \in Package /\ home = {TheHome} /\ TheHome \in Kept
  BY DEF IInv, HomeInv, TypeOK, Kept

\* A worker that goes from one step to another.
LEMMA Going ==
  ASSUME TypeOK, NEW w \in Worker, NEW at \in Places, Go(w, at)
  PROVE  \E x \in Doing : /\ work' = [work EXCEPT ![w] = x] /\ work'[w] = x
                          /\ x.at = at /\ x.op = work[w].op /\ x.stage = Stage(w)
                          /\ \A u \in Worker : u # w => work'[u] = work[u]
  <1> DEFINE x == [work[w] EXCEPT !.at = at]
  <1>1. work[w] \in Doing
    BY DEF TypeOK
  <1>2. x \in Doing /\ x.at = at /\ x.op = work[w].op /\ x.stage = Stage(w)
    BY <1>1 DEF Doing, Stage
  <1>3. work' = [work EXCEPT ![w] = x]
    BY DEF Go
  <1> HIDE DEF x
  <1>4. work'[w] = x /\ \A u \in Worker : u # w => work'[u] = work[u]
    BY <1>3 DEF TypeOK
  <1> QED
    BY <1>2, <1>3, <1>4

\* A worker that is done is idle, and has the claim no more.
LEMMA Finished ==
  ASSUME TypeOK, NEW w \in Worker, Done(w)
  PROVE  /\ Idle \in Doing /\ Idle.at = "idle" /\ work' = [work EXCEPT ![w] = Idle]
         /\ work'[w] = Idle /\ \A u \in Worker : u # w => work'[u] = work[u]
         /\ claim' = IF claim = w THEN Nobody ELSE claim
         /\ claim' \in Worker \cup {Nobody}
  <1>1. Idle \in Doing /\ Idle.at = "idle"
    BY PackagesAssumption DEF Idle, Doing, Places
  <1>2. work' = [work EXCEPT ![w] = Idle] /\ claim' = IF claim = w THEN Nobody ELSE claim
    BY DEF Done
  <1> QED
    BY <1>1, <1>2 DEF TypeOK

\* Whoever has claimed the package works on it alone.
LEMMA Alone ==
  ASSUME IInv, NEW w \in Worker, work[w].at \in Claimed
  PROVE  /\ claim = w /\ claim # Nobody /\ phase = "up" /\ work[w].at # "idle"
         /\ \A u \in Worker : u # w => work[u].at \notin Claimed
  <1>1. claim = w /\ work[w].at # "idle"
    BY DEF IInv, ClaimInv, Claimed
  <1>2. w # Nobody
    BY PackagesAssumption
  <1> QED
    BY <1>1, <1>2 DEF IInv, ClaimInv, DownInv

\* A step of one worker leaves the others as they are: it touches no stage but its own, no
\* version of theirs, and the package itself only if it has claimed it.
LEMMA WorkOn ==
  ASSUME IInv, NEW w \in Worker, work[w].at # "idle",
         NEW x \in Doing, work' = [work EXCEPT ![w] = x],
         x.at = "idle" \/ x.stage = Stage(w),
         \/ /\ claim' = claim
            /\ x.at \in Claimed \/ (x.at \in {"stage", "fetch"} /\ x.op # "url") => claim = w
         \/ claim = Nobody /\ claim' = w
         \/ x.at = "idle" /\ claim' = (IF claim = w THEN Nobody ELSE claim),
         phase' = phase, inputs' = inputs,
         \A p \in Kept' : p.v = NoVersion \/ p.v = Stage(w) \/ \E q \in Kept : p.v = q.v,
         DOMAIN olds' \subseteq DOMAIN olds \cup {Stage(w)},
         \A n : n # Stage(w) => /\ n \in DOMAIN stages' <=> n \in DOMAIN stages
                                /\ n \in DOMAIN stages => stages'[n] = stages[n],
         UNCHANGED <<home, olds, gone, leaving>> \/ work[w].at \in Claimed,
         StagedAt(w)', PlaceAt(w)'
  PROVE  ClaimInv' /\ DownInv' /\ UsedInv' /\ StagedInv' /\ PlaceInv'
  <1>1. /\ work'[w] = x /\ \A u \in Worker : u # w => work'[u] = work[u]
        /\ phase = "up" /\ w # Nobody
    BY PackagesAssumption DEF IInv, TypeOK, DownInv
  <1>2. ClaimInv'
    <2> DEFINE Claims(d) == d.at \in Claimed \/ (d.at \in {"stage", "fetch"} /\ d.op # "url")
    <2>1. \A u \in Worker : Claims(work[u]) => claim = u
      BY DEF IInv, ClaimInv
    <2>2. x.at = "idle" => ~Claims(x)
      BY DEF Claimed
    <2>3. \/ claim' = claim /\ (Claims(x) => claim = w)
          \/ claim = Nobody /\ claim' = w
          \/ x.at = "idle" /\ claim' = (IF claim = w THEN Nobody ELSE claim)
      OBVIOUS
    <2> HIDE DEF Claims
    <2>4. Claims(work'[w]) => claim' = w
      BY <1>1, <2>2, <2>3
    <2>5. ASSUME NEW u \in Worker, u # w, Claims(work'[u]) PROVE claim' = u
      <3>1. claim = u /\ u # Nobody
        BY <1>1, <2>1, <2>5, PackagesAssumption
      <3> QED
        BY <2>3, <2>5, <3>1
    <2>6. \A u \in Worker : Claims(work'[u]) => claim' = u
      BY <2>4, <2>5
    <2> QED
      BY <2>6 DEF Claims, ClaimInv
  <1>3. DownInv'
    BY <1>1 DEF DownInv
  <1>4. Stage(w)' = Stage(w) \/ work'[w].at = "idle"
    BY <1>1 DEF Stage
  <1>5. \A u \in Worker : u # w => Stage(u)' = Stage(u)
    BY <1>1 DEF Stage
  <1>6. Stage(w) \in Asked /\ Asked' = Asked
    BY DEF IInv, UsedInv, Asked
  <1>7. UsedInv'
    <2>1. \A p \in Kept' : p.v \in Asked \cup {NoVersion}
      BY <1>6 DEF IInv, UsedInv
    <2>2. DOMAIN olds' \subseteq Asked
      BY <1>6 DEF IInv, UsedInv
    <2>3. \A u \in Worker : work'[u].at # "idle" => Stage(u)' \in Asked
      BY <1>1, <1>4, <1>5, <1>6 DEF IInv, UsedInv
    <2>4. \A u, t \in Worker :
            u # t /\ work'[u].at # "idle" /\ work'[t].at # "idle" => Stage(u)' # Stage(t)'
      BY <1>1, <1>4, <1>5 DEF IInv, UsedInv
    <2> QED
      BY <1>6, <2>1, <2>2, <2>3, <2>4 DEF UsedInv
  <1>8. ASSUME NEW u \in Worker, u # w PROVE StagedAt(u)'
    <2>1. StagedAt(u) /\ work'[u] = work[u] /\ Stage(u)' = Stage(u)
      BY <1>1, <1>5, <1>8 DEF IInv, StagedInv
    <2>2. work[u].at # "idle" => Stage(u) # Stage(w) /\ Stage(u) # NoVersion
      <3>1. Asked \subseteq 1 .. MaxInputs
        BY PackagesAssumption DEF Asked, IInv, TypeOK
      <3> QED
        BY <1>8, <3>1, PackagesAssumption DEF IInv, UsedInv
    <2>3. work[u].at \in {"stage", "fetch", "stop"} \cup ToPlace =>
            /\ \A p \in Kept' : p.v # Stage(u)
            /\ work[u].at # "replace" => Stage(u) \notin DOMAIN olds'
      BY <2>1, <2>2 DEF StagedAt, ToPlace
    <2>4. HasStaged(u)' = HasStaged(u)
      BY <2>1 DEF HasStaged
    <2> QED
      BY <2>1, <2>2, <2>3, <2>4 DEF StagedAt, HasStaged, ToPlace
  <1>9. StagedInv'
    BY <1>8 DEF StagedInv
  <1>10. ASSUME NEW u \in Worker, u # w PROVE PlaceAt(u)'
    <2>1. PlaceAt(u) /\ work'[u] = work[u] /\ Stage(u)' = Stage(u)
      BY <1>1, <1>5, <1>10 DEF IInv, PlaceInv
    <2>2. CASE UNCHANGED <<home, olds, gone, leaving>>
      BY <2>1, <2>2 DEF PlaceAt, InPlace, TheHome
    <2>3. CASE work[w].at \in Claimed
      BY <1>10, <2>1, <2>3, Alone DEF PlaceAt, Claimed
    <2> QED
      BY <2>2, <2>3
  <1>11. PlaceInv'
    BY <1>10 DEF PlaceInv
  <1> QED
    BY <1>2, <1>3, <1>7, <1>9, <1>11

\* A step that leaves what is in place and runs as it is, up to the point where the
\* package itself is worked on, leaves what is said of it.
LEMMA Quiet ==
  ASSUME IInv, NEW w \in Worker, NEW x \in Doing, work' = [work EXCEPT ![w] = x],
         UNCHANGED <<home, olds, running, phase, gone, stranded, leaving>>,
         work[w].at \notin Claimed \ {"place", "stop"},
         x.at \notin Claimed \ {"place", "stop"}
  PROVE  HomeInv' /\ RestInv' /\ NotMovedWhileRunning' /\ GoneStays'
  <1>1. work'[w] = x /\ \A u \in Worker : u # w => work'[u] = work[u]
    BY DEF IInv, TypeOK
  <1>2. TheHome' = TheHome /\ InPlace' = InPlace
    BY DEF TheHome, InPlace
  <1>3. HomeInv' /\ GoneStays'
    BY <1>2 DEF IInv, HomeInv, GoneStays
  <1>4. RestInv'
    <2>1. ASSUME NEW u \in Worker, work[u].at \in {"aside", "carry", "drop", "spawn", "remove"}
          PROVE  work'[u].at \in {"aside", "carry", "drop", "spawn", "remove"}
      BY <1>1, <2>1 DEF Claimed
    <2> QED
      BY <1>2, <2>1 DEF IInv, RestInv
  <1>5. NotMovedWhileRunning'
    BY <1>1, <1>2 DEF IInv, NotMovedWhileRunning
  <1> QED
    BY <1>3, <1>4, <1>5

\* The failures of the disk stay within their bound.
LEMMA FaultsOK ==
  ASSUME TypeOK, Fine \/ Faulty
  PROVE  faults' \in 0 .. MaxFaults
  BY PackagesAssumption DEF TypeOK, Fine, Faulty

\* One more stage, or one less, leaves those of the others.
LEMMA StagesOK ==
  ASSUME TypeOK, NEW n \in Version,
         \/ stages' = stages
         \/ stages' = Without(stages, n)
         \/ \E y \in Package : stages' = With(stages, n, y)
  PROVE  /\ DOMAIN stages' \subseteq Version /\ stages' \in [DOMAIN stages' -> Package]
         /\ \A m : m # n => /\ m \in DOMAIN stages' <=> m \in DOMAIN stages
                            /\ m \in DOMAIN stages => stages'[m] = stages[m]
  <1>1. DOMAIN stages \subseteq Version /\ stages \in [DOMAIN stages -> Package]
    BY DEF TypeOK
  <1>2. CASE stages' = stages
    BY <1>1, <1>2
  <1>3. CASE stages' = Without(stages, n)
    <2>1. /\ DOMAIN Without(stages, n) = DOMAIN stages \ {n}
          /\ Without(stages, n) \in [DOMAIN Without(stages, n) -> Package]
          /\ \A z \in DOMAIN stages : z # n => Without(stages, n)[z] = stages[z]
      BY <1>1, WithoutOK
    <2> QED
      BY <1>1, <1>3, <2>1
  <1>4. CASE \E y \in Package : stages' = With(stages, n, y)
    <2>1. PICK y \in Package : stages' = With(stages, n, y)
      BY <1>4
    <2>2. /\ DOMAIN With(stages, n, y) = DOMAIN stages \cup {n}
          /\ With(stages, n, y) \in [DOMAIN With(stages, n, y) -> Package]
          /\ \A z \in DOMAIN stages : z # n => With(stages, n, y)[z] = stages[z]
      BY <1>1, <2>1 DEF With
    <2> QED
      BY <1>1, <2>1, <2>2
  <1> QED
    BY <1>2, <1>3, <1>4

\* A worker's stage is a version.
LEMMA StageOK ==
  ASSUME IInv, NEW w \in Worker, work[w].at # "idle"
  PROVE  Stage(w) \in Version /\ Stage(w) \in Asked /\ Stage(w) # NoVersion
  <1>1. Asked \subseteq Version
    BY PackagesAssumption DEF Asked, Version, IInv, TypeOK
  <1> QED
    BY <1>1, PackagesAssumption DEF IInv, UsedInv, Version

\* Work that is refused, at whatever step that leaves the package where it is.
LEMMA RefuseIInv ==
  ASSUME IInv, NEW w \in Worker, work[w].at # "idle", Refuse(w),
         UNCHANGED <<home, olds, running, phase, todo, inputs, stops, gone, last, leaving>>,
         work[w].at \notin Claimed \ {"place", "stop"}, UNCHANGED stranded,
         faults' \in 0 .. MaxFaults
  PROVE  IInv'
  <1>1. TypeOK
    BY DEF IInv
  <1>2. /\ Idle \in Doing /\ Idle.at = "idle" /\ work' = [work EXCEPT ![w] = Idle]
        /\ work'[w] = Idle /\ claim' = (IF claim = w THEN Nobody ELSE claim)
        /\ claim' \in Worker \cup {Nobody}
    BY <1>1, Finished DEF Refuse
  <1>3. /\ DOMAIN stages' \subseteq Version /\ stages' \in [DOMAIN stages' -> Package]
        /\ \A m : m # Stage(w) => /\ m \in DOMAIN stages' <=> m \in DOMAIN stages
                                  /\ m \in DOMAIN stages => stages'[m] = stages[m]
    BY <1>1, StageOK, StagesOK DEF Refuse
  <1>4. TypeOK'
    BY <1>1, <1>2, <1>3 DEF TypeOK
  <1>5. HomeInv' /\ RestInv' /\ NotMovedWhileRunning' /\ GoneStays'
    BY <1>2, Quiet DEF Claimed
  <1>6. StagedAt(w)' /\ PlaceAt(w)'
    BY <1>2 DEF StagedAt, HasStaged, ToPlace, PlaceAt
  <1>7. ClaimInv' /\ DownInv' /\ UsedInv' /\ StagedInv' /\ PlaceInv'
    BY <1>2, <1>3, <1>6, WorkOn DEF Kept
  <1> QED
    BY <1>4, <1>5, <1>7 DEF IInv

\* A step between two at which the package is not touched.
LEMMA QuietIInv ==
  ASSUME IInv, NEW w \in Worker, work[w].at # "idle",
         NEW x \in Doing, work' = [work EXCEPT ![w] = x], work'[w] = x,
         x.stage = Stage(w), x.op = work[w].op,
         UNCHANGED <<home, olds, running, phase, todo, inputs, stops, gone, last, leaving>>,
         UNCHANGED stranded, faults' \in 0 .. MaxFaults,
         work[w].at \notin Claimed \ {"place", "stop"},
         x.at \in {"fetch", "claim", "place", "stop"},
         \/ /\ claim' = claim
            /\ x.at \in Claimed \/ (x.at \in {"stage", "fetch"} /\ x.op # "url") => claim = w
         \/ claim = Nobody /\ claim' = w,
         \/ stages' = stages
         \/ stages' = Without(stages, Stage(w))
         \/ \E y \in Package : stages' = With(stages, Stage(w), y),
         Stage(w) \in DOMAIN stages', x.at # "fetch" => stages'[Stage(w)].v = Stage(w),
         \A p \in Kept : p.v # Stage(w), Stage(w) \notin DOMAIN olds,
         x.at = "stop" /\ x.op = "update" => home # {}
  PROVE  IInv'
  <1>1. TypeOK
    BY DEF IInv
  <1>2. /\ DOMAIN stages' \subseteq Version /\ stages' \in [DOMAIN stages' -> Package]
        /\ \A m : m # Stage(w) => /\ m \in DOMAIN stages' <=> m \in DOMAIN stages
                                  /\ m \in DOMAIN stages => stages'[m] = stages[m]
    BY <1>1, StageOK, StagesOK
  <1>3. TypeOK'
    BY <1>1, <1>2 DEF TypeOK
  <1>4. HomeInv' /\ RestInv' /\ NotMovedWhileRunning' /\ GoneStays'
    BY Quiet DEF Claimed
  <1>5. Stage(w)' = Stage(w) /\ Kept' = Kept
    BY DEF Stage, Kept
  <1>6. StagedAt(w)' /\ PlaceAt(w)'
    BY <1>5 DEF StagedAt, HasStaged, ToPlace, PlaceAt
  <1>7. ClaimInv' /\ DownInv' /\ UsedInv' /\ StagedInv' /\ PlaceInv'
    BY <1>2, <1>5, <1>6, WorkOn
  <1> QED
    BY <1>3, <1>4, <1>7 DEF IInv

\* A folder of its own to fetch into, with nothing in it.
LEMMA NewStageIInv ==
  ASSUME IInv, NEW w \in Worker, NewStage(w)
  PROVE  IInv'
  <1> DEFINE y == [v |-> NoVersion, extra |-> {}]
  <1>1. /\ TypeOK /\ work[w].at = "stage" /\ Go(w, "fetch") /\ stages' = With(stages, Stage(w), y)
        /\ UNCHANGED <<home, olds, claim, running, phase, todo, inputs, stops, faults,
                      gone, last, stranded, leaving>>
    BY DEF NewStage, At, IInv, bounds, history
  <1>2. y \in Package
    BY DEF Package
  <1> HIDE DEF y
  <1>3. PICK x \in Doing : /\ work' = [work EXCEPT ![w] = x] /\ work'[w] = x
                           /\ x.at = "fetch" /\ x.op = work[w].op /\ x.stage = Stage(w)
    <2>1. "fetch" \in Places
      BY DEF Places
    <2> QED
      BY <1>1, <2>1, Going
  <1>4. Stage(w) \in DOMAIN stages'
    <2>1. stages \in [DOMAIN stages -> Package]
      BY <1>1 DEF TypeOK
    <2>2. DOMAIN With(stages, Stage(w), y) = DOMAIN stages \cup {Stage(w)}
      BY DEF With
    <2> QED
      BY <1>1, <2>2
  <1>5. (\A p \in Kept : p.v # Stage(w)) /\ Stage(w) \notin DOMAIN olds
    BY <1>1 DEF IInv, StagedInv, StagedAt
  <1>6. claim' = claim /\ (x.op # "url" => claim = w)
    BY <1>1, <1>3 DEF IInv, ClaimInv
  <1>7. faults' \in 0 .. MaxFaults
    BY <1>1 DEF TypeOK
  <1> QED
    BY <1>1, <1>2, <1>3, <1>4, <1>5, <1>6, <1>7, QuietIInv DEF Claimed

\* The package is fetched, whole, or the worker gives up.
LEMMA FetchedIInv ==
  ASSUME IInv, NEW w \in Worker, Fetched(w)
  PROVE  IInv'
  <1>1. /\ TypeOK /\ work[w].at = "fetch"
        /\ UNCHANGED <<home, olds, running, phase, todo, inputs, stops, gone, last,
                      stranded, leaving>>
    BY DEF Fetched, At, IInv, history
  <1>2. faults' \in 0 .. MaxFaults
    BY <1>1, FaultsOK DEF Fetched
  <1>3. CASE Refuse(w)
    BY <1>1, <1>2, <1>3, RefuseIInv DEF Claimed
  <1>4. CASE /\ stages' = [stages EXCEPT ![Stage(w)].v = Stage(w)] /\ claim' = claim
             /\ Go(w, IF work[w].op = "url" THEN "claim" ELSE "place")
    <2> DEFINE at == IF work[w].op = "url" THEN "claim" ELSE "place"
               y == [stages[Stage(w)] EXCEPT !.v = Stage(w)]
    <2>1. at \in Places /\ at \in {"claim", "place"} /\ (at = "place" <=> work[w].op # "url")
      BY DEF Places
    <2>2. Go(w, at)
      BY <1>4
    <2>3. Stage(w) \in DOMAIN stages
      BY <1>1 DEF IInv, StagedInv, StagedAt
    <2>4. y \in Package /\ y.v = Stage(w) /\ stages' = [stages EXCEPT ![Stage(w)] = y]
      <3>1. stages[Stage(w)] \in Package
        BY <1>1, <2>3 DEF TypeOK
      <3>2. Stage(w) \in Version
        BY <1>1, StageOK
      <3> QED
        BY <1>4, <3>1, <3>2 DEF Package
    <2> HIDE DEF at, y
    <2>5. /\ stages' = With(stages, Stage(w), y) /\ Stage(w) \in DOMAIN stages'
          /\ stages'[Stage(w)].v = Stage(w)
      BY <1>1, <2>3, <2>4 DEF TypeOK, With
    <2>6. PICK x \in Doing : /\ work' = [work EXCEPT ![w] = x] /\ work'[w] = x
                             /\ x.at = at /\ x.op = work[w].op /\ x.stage = Stage(w)
      BY <1>1, <2>1, <2>2, Going
    <2>7. (\A p \in Kept : p.v # Stage(w)) /\ Stage(w) \notin DOMAIN olds
      BY <1>1 DEF IInv, StagedInv, StagedAt
    <2>8. x.at \in {"claim", "place"} /\ (x.at \in Claimed => claim = w)
      BY <1>1, <2>1, <2>6 DEF IInv, ClaimInv, Claimed
    <2> QED
      BY <1>1, <1>2, <1>4, <2>4, <2>5, <2>6, <2>7, <2>8, QuietIInv DEF Claimed
  <1> QED
    BY <1>3, <1>4 DEF Fetched

\* Work on a URL claims the id if nobody has it.
LEMMA ClaimIInv ==
  ASSUME IInv, NEW w \in Worker, Claim(w)
  PROVE  IInv'
  <1>1. /\ TypeOK /\ work[w].at = "claim"
        /\ UNCHANGED <<home, olds, running, phase, todo, inputs, stops, faults,
                      gone, last, stranded, leaving>>
    BY DEF Claim, At, IInv, history, bounds
  <1>2. faults' \in 0 .. MaxFaults
    BY <1>1 DEF TypeOK
  <1>3. CASE Refuse(w)
    BY <1>1, <1>2, <1>3, RefuseIInv DEF Claimed
  <1>4. CASE claim = Nobody /\ claim' = w /\ Go(w, "place") /\ stages' = stages
    <2>1. PICK x \in Doing : /\ work' = [work EXCEPT ![w] = x] /\ work'[w] = x
                             /\ x.at = "place" /\ x.op = work[w].op /\ x.stage = Stage(w)
      <3>1. "place" \in Places
        BY DEF Places
      <3> QED
        BY <1>1, <1>4, <3>1, Going
    <2>2. /\ Stage(w) \in DOMAIN stages /\ stages[Stage(w)].v = Stage(w)
          /\ (\A p \in Kept : p.v # Stage(w)) /\ Stage(w) \notin DOMAIN olds
      BY <1>1 DEF IInv, StagedInv, StagedAt, HasStaged, ToPlace
    <2> QED
      BY <1>1, <1>2, <1>4, <2>1, <2>2, QuietIInv DEF Claimed
  <1> QED
    BY <1>3, <1>4 DEF Claim

\* An update of what is there goes on to stop it.
LEMMA UpdateIInv ==
  ASSUME IInv, NEW w \in Worker, Update(w)
  PROVE  IInv'
  <1>1. /\ TypeOK /\ work[w].at = "place" /\ work[w].op = "update"
        /\ UNCHANGED <<home, olds, running, phase, todo, inputs, stops, faults,
                      gone, last, stranded, leaving>>
    BY DEF Update, At, IInv, history, bounds
  <1>2. faults' \in 0 .. MaxFaults
    BY <1>1 DEF TypeOK
  <1>3. CASE Refuse(w)
    BY <1>1, <1>2, <1>3, RefuseIInv DEF Claimed
  <1>4. CASE home # {} /\ Go(w, "stop") /\ UNCHANGED <<claim, stages>>
    <2>1. PICK x \in Doing : /\ work' = [work EXCEPT ![w] = x] /\ work'[w] = x
                             /\ x.at = "stop" /\ x.op = work[w].op /\ x.stage = Stage(w)
      <3>1. "stop" \in Places
        BY DEF Places
      <3> QED
        BY <1>1, <1>4, <3>1, Going
    <2>2. /\ Stage(w) \in DOMAIN stages /\ stages[Stage(w)].v = Stage(w)
          /\ (\A p \in Kept : p.v # Stage(w)) /\ Stage(w) \notin DOMAIN olds
      BY <1>1 DEF IInv, StagedInv, StagedAt, HasStaged, ToPlace
    <2>3. claim = w
      BY <1>1, Alone DEF Claimed
    <2> QED
      BY <1>1, <1>2, <1>4, <2>1, <2>2, <2>3, QuietIInv DEF Claimed
  <1> QED
    BY <1>3, <1>4 DEF Update

\* A version that is asked for is new, and so is work on it.
LEMMA AskIInv ==
  ASSUME IInv, NEW w \in Worker, NEW op \in {"install", "url", "update", "uninstall"},
         Ask(w, op)
  PROVE  IInv'
  <1> DEFINE x == [op |-> op, at |-> IF op = "uninstall" THEN "stop" ELSE "stage",
                   stage |-> inputs']
  <1>1. /\ TypeOK /\ phase = "up" /\ work[w].at = "idle"
        /\ inputs' = inputs + 1 /\ inputs < MaxInputs /\ work' = [work EXCEPT ![w] = x]
        /\ claim' = IF op = "url" THEN claim ELSE w
        /\ op # "url" => claim = Nobody
        /\ UNCHANGED <<home, olds, stages, running, phase, todo, stops, faults,
                      gone, last, stranded, leaving>>
    BY DEF Ask, At, disk, history, IInv
  <1>2. inputs \in 0 .. MaxInputs /\ MaxInputs \in Nat
    BY <1>1, PackagesAssumption DEF TypeOK
  <1>3. /\ inputs' \in Version /\ inputs' \in Asked' /\ Asked \subseteq Asked'
        /\ inputs' \notin Asked /\ inputs' # NoVersion /\ inputs' \in 0 .. MaxInputs
    BY <1>1, <1>2, PackagesAssumption DEF Version, Asked
  <1>4. /\ x \in Doing /\ x.at = (IF op = "uninstall" THEN "stop" ELSE "stage")
        /\ x.op = op /\ x.stage = inputs'
    BY <1>3 DEF Doing, Places
  <1> HIDE DEF x
  <1>5. /\ work'[w] = x /\ \A u \in Worker : u # w => work'[u] = work[u]
        /\ Stage(w)' = inputs' /\ \A u \in Worker : u # w => Stage(u)' = Stage(u)
    BY <1>1, <1>4 DEF TypeOK, Stage
  <1>6. TypeOK'
    BY <1>1, <1>3, <1>4, <1>5 DEF TypeOK
  <1>7. HomeInv' /\ RestInv' /\ NotMovedWhileRunning' /\ GoneStays'
    BY <1>1, <1>4, Quiet DEF Claimed
  <1>8. ClaimInv'
    BY <1>1, <1>4, <1>5, PackagesAssumption DEF IInv, ClaimInv, Claimed
  <1>9. DownInv'
    BY <1>1 DEF DownInv
  <1>10. Kept' = Kept /\ DOMAIN olds' = DOMAIN olds
    BY <1>1 DEF Kept
  <1>11. (\A p \in Kept : p.v # inputs') /\ inputs' \notin DOMAIN olds
    BY <1>3 DEF IInv, UsedInv
  <1>12. UsedInv'
    BY <1>3, <1>5, <1>10 DEF IInv, UsedInv
  <1>13. StagedInv'
    <2>1. StagedAt(w)'
      BY <1>4, <1>5, <1>10, <1>11 DEF StagedAt, HasStaged, ToPlace
    <2>2. \A u \in Worker : u # w => StagedAt(u)'
      BY <1>1, <1>5, <1>10 DEF IInv, StagedInv, StagedAt, HasStaged
    <2> QED
      BY <2>1, <2>2 DEF StagedInv
  <1>14. PlaceInv'
    <2>1. PlaceAt(w)'
      BY <1>4, <1>5 DEF PlaceAt
    <2>2. \A u \in Worker : u # w => PlaceAt(u)'
      BY <1>1, <1>5 DEF IInv, PlaceInv, PlaceAt, InPlace, TheHome
    <2> QED
      BY <2>1, <2>2 DEF PlaceInv
  <1> QED
    BY <1>6, <1>7, <1>8, <1>9, <1>12, <1>13, <1>14 DEF IInv

\* A package takes its place.
LEMMA NewHome ==
  ASSUME NEW p \in Package, home' = {p}
  PROVE  /\ home' \subseteq Package /\ Cardinality(home') <= 1 /\ home' # {}
         /\ TheHome' = p /\ home' = {TheHome'} /\ (InPlace' <=> Readable(p))
  <1>1. TheHome' = p
    BY TheOne DEF TheHome
  <1> QED
    BY <1>1, HomeOK DEF InPlace

\* Nothing in place is well typed, and nothing to start.
LEMMA NoHome ==
  ASSUME home' = {}
  PROVE  home' \subseteq Package /\ Cardinality(home') <= 1 /\ ~InPlace'
  BY FS_EmptySet DEF InPlace

\* What is left of the versions moved aside when one goes.
LEMMA FewerOlds ==
  ASSUME TypeOK, NEW n
  PROVE  /\ DOMAIN Without(olds, n) = DOMAIN olds \ {n}
         /\ Without(olds, n) \in [DOMAIN Without(olds, n) -> Package]
         /\ \A z \in DOMAIN olds : z # n => Without(olds, n)[z] = olds[z]
  <1>1. olds \in [DOMAIN olds -> Package]
    BY DEF TypeOK
  <1> QED
    BY <1>1, WithoutOK

\* The staged package is put where nothing is.
LEMMA InstallIInv ==
  ASSUME IInv, NEW w \in Worker, Install(w)
  PROVE  IInv'
  <1>1. /\ TypeOK /\ work[w].at = "place" /\ work[w].op # "update"
        /\ UNCHANGED <<olds, running, phase, todo, inputs, stops, stranded>>
    BY DEF Install, At, IInv
  <1>2. faults' \in 0 .. MaxFaults
    BY <1>1, FaultsOK DEF Install
  <1>3. CASE Refuse(w) /\ UNCHANGED <<home, gone, last, leaving>>
    BY <1>1, <1>2, <1>3, RefuseIInv DEF Claimed
  <1>4. CASE /\ ~running /\ home = {} /\ Go(w, "spawn") /\ claim' = claim
             /\ home' = {stages[Stage(w)]} /\ stages' = Without(stages, Stage(w))
             /\ gone' = FALSE /\ last' = Stage(w) /\ leaving' = FALSE
    <2>1. PICK x \in Doing : /\ work' = [work EXCEPT ![w] = x] /\ work'[w] = x
                             /\ x.at = "spawn" /\ x.op = work[w].op /\ x.stage = Stage(w)
      <3>1. "spawn" \in Places
        BY DEF Places
      <3> QED
        BY <1>1, <1>4, <3>1, Going
    <2>2. Stage(w) \in Version /\ Stage(w) # NoVersion
      BY <1>1, StageOK
    <2>3. stages[Stage(w)] \in Package /\ stages[Stage(w)].v = Stage(w)
      BY <1>1 DEF IInv, TypeOK, StagedInv, StagedAt, HasStaged, ToPlace
    <2>4. /\ home' \subseteq Package /\ Cardinality(home') <= 1 /\ home' = {TheHome'}
          /\ TheHome' = stages[Stage(w)] /\ InPlace'
      BY <1>4, <2>2, <2>3, NewHome DEF Readable
    <2>5. /\ DOMAIN stages' \subseteq Version /\ stages' \in [DOMAIN stages' -> Package]
          /\ \A m : m # Stage(w) => /\ m \in DOMAIN stages' <=> m \in DOMAIN stages
                                    /\ m \in DOMAIN stages => stages'[m] = stages[m]
      BY <1>1, <1>4, <2>2, StagesOK
    <2>6. TypeOK'
      BY <1>1, <1>2, <1>4, <2>1, <2>2, <2>4, <2>5 DEF TypeOK
    <2>7. HomeInv' /\ RestInv' /\ NotMovedWhileRunning' /\ GoneStays'
      BY <1>1, <1>4, <2>1, <2>4
         DEF HomeInv, RestInv, NotMovedWhileRunning, GoneStays, InPlace
    <2>8. StagedAt(w)' /\ PlaceAt(w)'
      BY <1>4, <2>1, <2>4 DEF StagedAt, HasStaged, ToPlace, PlaceAt
    <2>9. \A p \in Kept' : p.v = NoVersion \/ p.v = Stage(w) \/ \E q \in Kept : p.v = q.v
      BY <1>1, <1>4, <2>3 DEF Kept
    <2>10. claim = w
      BY <1>1, Alone DEF Claimed
    <2>11. ClaimInv' /\ DownInv' /\ UsedInv' /\ StagedInv' /\ PlaceInv'
      BY <1>1, <1>4, <2>1, <2>5, <2>8, <2>9, <2>10, WorkOn DEF Claimed
    <2> QED
      BY <2>6, <2>7, <2>11 DEF IInv
  <1> QED
    BY <1>3, <1>4 DEF Install

\* What is in place is started by the worker that put it there.
LEMMA SpawnIInv ==
  ASSUME IInv, NEW w \in Worker, Spawn(w)
  PROVE  IInv'
  <1>1. /\ TypeOK /\ work[w].at = "spawn" /\ Done(w) /\ stranded' = FALSE
        /\ UNCHANGED <<home, olds, stages, phase, todo, inputs, stops, faults, gone, last,
                      leaving>>
    BY DEF Spawn, At, IInv, disk, bounds
  <1>2. InPlace /\ running' = TRUE
    <2>1. InPlace
      BY <1>1 DEF IInv, PlaceInv, PlaceAt
    <2> QED
      BY <2>1 DEF Spawn, InPlace
  <1>3. /\ Idle \in Doing /\ Idle.at = "idle" /\ work' = [work EXCEPT ![w] = Idle]
        /\ work'[w] = Idle /\ \A u \in Worker : u # w => work'[u] = work[u]
        /\ claim' = (IF claim = w THEN Nobody ELSE claim) /\ claim' \in Worker \cup {Nobody}
    BY <1>1, Finished
  <1>4. TypeOK'
    BY <1>1, <1>2, <1>3 DEF TypeOK
  <1>5. TheHome' = TheHome /\ Kept' = Kept
    BY <1>1 DEF TheHome, Kept
  <1>6. HomeInv' /\ RestInv' /\ GoneStays'
    BY <1>1, <1>2, <1>5 DEF IInv, HomeInv, RestInv, GoneStays
  <1>7. NotMovedWhileRunning'
    <2>1. \A u \in Worker : work'[u].at \notin Claimed
      BY <1>1, <1>3, Alone DEF Claimed
    <2> QED
      BY <1>1, <1>2, <1>5, <2>1 DEF NotMovedWhileRunning, InPlace
  <1>8. StagedAt(w)' /\ PlaceAt(w)'
    BY <1>3 DEF StagedAt, HasStaged, ToPlace, PlaceAt
  <1>9. ClaimInv' /\ DownInv' /\ UsedInv' /\ StagedInv' /\ PlaceInv'
    BY <1>1, <1>3, <1>5, <1>8, WorkOn
  <1> QED
    BY <1>4, <1>6, <1>7, <1>9 DEF IInv

\* The extension is stopped before anything is moved.
LEMMA StopIInv ==
  ASSUME IInv, NEW w \in Worker, Stop(w)
  PROVE  IInv'
  <1> DEFINE at == IF work[w].op = "update" THEN "aside" ELSE "remove"
  <1>1. /\ TypeOK /\ work[w].at = "stop" /\ Go(w, at) /\ running' = FALSE
        /\ UNCHANGED <<home, olds, stages, claim, phase, todo, inputs, stops, faults,
                      gone, last, stranded, leaving>>
    BY DEF Stop, At, IInv, disk, bounds, history
  <1>2. PICK x \in Doing : /\ work' = [work EXCEPT ![w] = x] /\ work'[w] = x
                           /\ x.at = at /\ x.op = work[w].op /\ x.stage = Stage(w)
    <2>1. at \in Places
      BY DEF Places
    <2> QED
      BY <1>1, <2>1, Going
  <1>3. x.at \in {"aside", "remove"} /\ (x.at = "aside" <=> work[w].op = "update")
    BY <1>2
  <1> HIDE DEF at
  <1>4. claim = w
    BY <1>1, Alone DEF Claimed
  <1>5. TypeOK'
    BY <1>1, <1>2 DEF TypeOK
  <1>6. TheHome' = TheHome /\ Kept' = Kept /\ InPlace' = InPlace /\ Stage(w)' = Stage(w)
    BY <1>1, <1>2 DEF TheHome, Kept, InPlace, Stage
  <1>7. HomeInv' /\ RestInv' /\ GoneStays' /\ NotMovedWhileRunning'
    BY <1>1, <1>2, <1>3, <1>6 DEF IInv, HomeInv, RestInv, GoneStays, NotMovedWhileRunning
  <1>8. StagedAt(w)'
    BY <1>1, <1>2, <1>3, <1>6 DEF IInv, StagedInv, StagedAt, HasStaged, ToPlace
  <1>9. PlaceAt(w)'
    BY <1>1, <1>2, <1>3, <1>6 DEF IInv, PlaceInv, PlaceAt
  <1>10. ClaimInv' /\ DownInv' /\ UsedInv' /\ StagedInv' /\ PlaceInv'
    BY <1>1, <1>2, <1>4, <1>6, <1>8, <1>9, WorkOn
  <1> QED
    BY <1>5, <1>7, <1>10 DEF IInv

\* Work that fails with the package moved aside, or left where it is, and the extension
\* stopped.
LEMMA GiveUpIInv ==
  ASSUME IInv, NEW w \in Worker, work[w].at \in {"aside", "replace"}, Refuse(w),
         UNCHANGED <<home, olds, running, phase, todo, inputs, stops, gone, last, leaving>>,
         faults' \in 0 .. MaxFaults, home = {} \/ stranded' = TRUE,
         stranded' \in BOOLEAN
  PROVE  IInv'
  <1>1. TypeOK /\ work[w].at # "idle"
    BY DEF IInv
  <1>2. /\ Idle \in Doing /\ Idle.at = "idle" /\ work' = [work EXCEPT ![w] = Idle]
        /\ work'[w] = Idle /\ \A u \in Worker : u # w => work'[u] = work[u]
        /\ claim' = (IF claim = w THEN Nobody ELSE claim) /\ claim' \in Worker \cup {Nobody}
    BY <1>1, Finished DEF Refuse
  <1>3. /\ DOMAIN stages' \subseteq Version /\ stages' \in [DOMAIN stages' -> Package]
        /\ \A m : m # Stage(w) => /\ m \in DOMAIN stages' <=> m \in DOMAIN stages
                                  /\ m \in DOMAIN stages => stages'[m] = stages[m]
    BY <1>1, StageOK, StagesOK DEF Refuse
  <1>4. TypeOK'
    BY <1>1, <1>2, <1>3 DEF TypeOK
  <1>5. TheHome' = TheHome /\ Kept' = Kept /\ InPlace' = InPlace
    BY DEF TheHome, Kept, InPlace
  <1>6. ~running
    BY DEF IInv, NotMovedWhileRunning, Claimed
  <1>7. HomeInv' /\ RestInv' /\ NotMovedWhileRunning' /\ GoneStays'
    BY <1>5, <1>6 DEF IInv, HomeInv, RestInv, NotMovedWhileRunning, GoneStays, InPlace
  <1>8. StagedAt(w)' /\ PlaceAt(w)'
    BY <1>2 DEF StagedAt, HasStaged, ToPlace, PlaceAt
  <1>9. ClaimInv' /\ DownInv' /\ UsedInv' /\ StagedInv' /\ PlaceInv'
    BY <1>1, <1>2, <1>3, <1>5, <1>8, WorkOn
  <1> QED
    BY <1>4, <1>7, <1>9 DEF IInv

\* The package goes aside under the update's own number.
LEMMA AsideIInv ==
  ASSUME IInv, NEW w \in Worker, Aside(w)
  PROVE  IInv'
  <1>1. /\ TypeOK /\ work[w].at = "aside"
        /\ UNCHANGED <<running, phase, todo, inputs, stops, gone, last, leaving>>
    BY DEF Aside, At, IInv
  <1>2. faults' \in 0 .. MaxFaults
    BY <1>1, FaultsOK DEF Aside
  <1>3. CASE Refuse(w) /\ stranded' = TRUE /\ UNCHANGED <<home, olds>>
    BY <1>1, <1>2, <1>3, GiveUpIInv
  <1>4. CASE /\ Go(w, "replace") /\ UNCHANGED <<claim, stages, stranded>>
             /\ olds' = With(olds, Stage(w), TheHome) /\ home' = {}
    <2>1. PICK x \in Doing : /\ work' = [work EXCEPT ![w] = x] /\ work'[w] = x
                             /\ x.at = "replace" /\ x.op = work[w].op /\ x.stage = Stage(w)
      <3>1. "replace" \in Places
        BY DEF Places
      <3> QED
        BY <1>1, <1>4, <3>1, Going
    <2>2. /\ work[w].op = "update" /\ home # {}
          /\ Stage(w) \in DOMAIN stages /\ stages[Stage(w)].v = Stage(w)
          /\ (\A p \in Kept : p.v # Stage(w)) /\ Stage(w) \notin DOMAIN olds
      BY <1>1 DEF IInv, PlaceInv, PlaceAt, StagedInv, StagedAt, HasStaged, ToPlace
    <2>3. TheHome \in Package /\ TheHome \in Kept /\ (~Readable(TheHome) => leaving)
      BY <2>2, InHome DEF IInv, HomeInv
    <2>4. Stage(w) \in Version
      BY <1>1, StageOK
    <2>5. /\ DOMAIN olds' = DOMAIN olds \cup {Stage(w)} /\ olds' \in [DOMAIN olds' -> Package]
          /\ olds'[Stage(w)] = TheHome /\ \A z \in DOMAIN olds : olds'[z] = olds[z]
      <3>1. olds \in [DOMAIN olds -> Package]
        BY <1>1 DEF TypeOK
      <3> QED
        BY <1>4, <2>2, <2>3, <3>1 DEF With
    <2>6. claim = w /\ ~running /\ ~gone
      BY <1>1, <2>2, Alone DEF Claimed, IInv, NotMovedWhileRunning, GoneStays
    <2>7. home' \subseteq Package /\ Cardinality(home') <= 1 /\ ~InPlace'
      BY <1>4, NoHome
    <2>8. DOMAIN olds' \subseteq Version
      BY <1>1, <2>4, <2>5 DEF TypeOK
    <2>9. TypeOK'
      BY <1>1, <1>2, <1>4, <2>1, <2>5, <2>7, <2>8 DEF TypeOK
    <2>10. HomeInv' /\ RestInv' /\ NotMovedWhileRunning' /\ GoneStays'
      BY <1>1, <1>4, <2>6, <2>7 DEF HomeInv, RestInv, NotMovedWhileRunning, GoneStays
    <2>11. \A p \in Kept' : p \in Kept
      BY <1>4, <2>3, <2>5 DEF Kept
    <2>12. Stage(w)' = Stage(w)
      BY <2>1 DEF Stage
    <2>13. StagedAt(w)'
      BY <1>4, <2>1, <2>2, <2>11, <2>12 DEF StagedAt, HasStaged, ToPlace
    <2>14. PlaceAt(w)'
      BY <1>1, <1>4, <2>1, <2>2, <2>3, <2>5, <2>6, <2>12 DEF PlaceAt
    <2>15. ClaimInv' /\ DownInv' /\ UsedInv' /\ StagedInv' /\ PlaceInv'
      BY <1>1, <1>4, <2>1, <2>5, <2>6, <2>11, <2>13, <2>14, WorkOn DEF Claimed
    <2> QED
      BY <2>9, <2>10, <2>15 DEF IInv
  <1> QED
    BY <1>3, <1>4 DEF Aside

\* The new one takes its place, or the old one comes back, or neither.
LEMMA ReplaceIInv ==
  ASSUME IInv, NEW w \in Worker, Replace(w)
  PROVE  IInv'
  <1>1. /\ TypeOK /\ work[w].at = "replace"
        /\ UNCHANGED <<phase, todo, inputs, stops, stranded>>
    BY DEF Replace, At, IInv
  <1>2. faults' \in 0 .. MaxFaults
    BY <1>1, FaultsOK, PackagesAssumption DEF Replace, TypeOK
  <1>3. /\ work[w].op = "update" /\ home = {} /\ ~gone /\ Stage(w) \in DOMAIN olds
        /\ ~Readable(olds[Stage(w)]) => leaving
        /\ Stage(w) \in DOMAIN stages /\ stages[Stage(w)].v = Stage(w)
    BY <1>1 DEF IInv, PlaceInv, PlaceAt, StagedInv, StagedAt, HasStaged, ToPlace
  <1>4. Stage(w) \in Version /\ Stage(w) # NoVersion
    BY <1>1, StageOK
  <1>5. claim = w /\ ~running /\ \A u \in Worker : u # w => work[u].at \notin Claimed
    BY <1>1, Alone DEF Claimed, IInv, NotMovedWhileRunning
  <1>6. stages[Stage(w)] \in Package /\ olds[Stage(w)] \in Package
    BY <1>1, <1>3 DEF TypeOK
  <1>7. IInv'
    <2>1. stages' = Without(stages, Stage(w)) =>
            /\ DOMAIN stages' \subseteq Version /\ stages' \in [DOMAIN stages' -> Package]
            /\ \A m : m # Stage(w) => /\ m \in DOMAIN stages' <=> m \in DOMAIN stages
                                      /\ m \in DOMAIN stages => stages'[m] = stages[m]
      BY <1>1, <1>4, StagesOK
    <2>2. CASE /\ Go(w, "carry") /\ UNCHANGED <<claim, olds, running>>
               /\ home' = {stages[Stage(w)]} /\ stages' = Without(stages, Stage(w))
               /\ gone' = FALSE /\ last' = Stage(w) /\ leaving' = FALSE
      <3>1. PICK x \in Doing : /\ work' = [work EXCEPT ![w] = x] /\ work'[w] = x
                               /\ x.at = "carry" /\ x.op = work[w].op /\ x.stage = Stage(w)
        <4>1. "carry" \in Places
          BY DEF Places
        <4> QED
          BY <1>1, <2>2, <4>1, Going
      <3>2. /\ home' \subseteq Package /\ Cardinality(home') <= 1 /\ home' = {TheHome'}
            /\ TheHome' = stages[Stage(w)] /\ InPlace'
        BY <1>3, <1>4, <1>6, <2>2, NewHome DEF Readable
      <3>3. TypeOK'
        BY <1>1, <1>2, <1>4, <2>1, <2>2, <3>1, <3>2 DEF TypeOK
      <3>4. HomeInv' /\ RestInv' /\ NotMovedWhileRunning' /\ GoneStays'
        BY <1>5, <2>2, <3>1, <3>2
           DEF HomeInv, RestInv, NotMovedWhileRunning, GoneStays, InPlace
      <3>5. Stage(w)' = Stage(w)
        BY <3>1 DEF Stage
      <3>6. StagedAt(w)' /\ PlaceAt(w)'
        BY <1>3, <2>2, <3>1, <3>2, <3>5 DEF StagedAt, HasStaged, ToPlace, PlaceAt
      <3>7. \A p \in Kept' : p.v = NoVersion \/ p.v = Stage(w) \/ \E q \in Kept : p.v = q.v
        BY <1>3, <2>2 DEF Kept
      <3>8. ClaimInv' /\ DownInv' /\ UsedInv' /\ StagedInv' /\ PlaceInv'
        BY <1>1, <1>5, <2>1, <2>2, <3>1, <3>6, <3>7, WorkOn DEF Claimed
      <3> QED
        BY <3>3, <3>4, <3>8 DEF IInv
    <2>3. CASE /\ Refuse(w) /\ UNCHANGED <<gone, last, leaving>>
               /\ home' = {olds[Stage(w)]} /\ olds' = Without(olds, Stage(w))
               /\ running' = Readable(olds[Stage(w)])
      <3>1. /\ Idle \in Doing /\ Idle.at = "idle" /\ work' = [work EXCEPT ![w] = Idle]
            /\ work'[w] = Idle /\ \A u \in Worker : u # w => work'[u] = work[u]
            /\ claim' = (IF claim = w THEN Nobody ELSE claim)
            /\ claim' \in Worker \cup {Nobody} /\ stages' = Without(stages, Stage(w))
        BY <1>1, <2>3, Finished DEF Refuse
      <3>2. /\ home' \subseteq Package /\ Cardinality(home') <= 1 /\ home' = {TheHome'}
            /\ TheHome' = olds[Stage(w)] /\ (InPlace' <=> Readable(olds[Stage(w)]))
        BY <1>6, <2>3, NewHome
      <3>3. /\ DOMAIN olds' = DOMAIN olds \ {Stage(w)} /\ olds' \in [DOMAIN olds' -> Package]
            /\ \A z \in DOMAIN olds : z # Stage(w) => olds'[z] = olds[z]
        BY <1>1, <2>3, FewerOlds
      <3>4. running' \in BOOLEAN /\ (running' <=> InPlace')
        BY <2>3, <3>2 DEF Readable
      <3>5. TypeOK'
        BY <1>1, <1>2, <2>1, <2>3, <3>1, <3>2, <3>3, <3>4 DEF TypeOK
      <3>6. \A u \in Worker : work'[u].at \notin Claimed
        BY <1>5, <3>1 DEF Claimed
      <3>7. HomeInv' /\ RestInv' /\ NotMovedWhileRunning' /\ GoneStays'
        BY <1>3, <2>3, <3>2, <3>4, <3>6
           DEF HomeInv, RestInv, NotMovedWhileRunning, GoneStays, InPlace
      <3>8. StagedAt(w)' /\ PlaceAt(w)'
        BY <3>1 DEF StagedAt, HasStaged, ToPlace, PlaceAt
      <3>9. \A p \in Kept' : p \in Kept
        BY <1>3, <2>3, <3>3 DEF Kept
      <3>10. ClaimInv' /\ DownInv' /\ UsedInv' /\ StagedInv' /\ PlaceInv'
        BY <1>1, <2>1, <3>1, <3>3, <3>8, <3>9, WorkOn DEF Claimed
      <3> QED
        BY <3>5, <3>7, <3>10 DEF IInv
    <2>4. CASE Refuse(w) /\ UNCHANGED <<home, olds, running, gone, last, leaving>>
      <3>1. stranded' \in BOOLEAN
        BY <1>1 DEF TypeOK
      <3> QED
        BY <1>1, <1>2, <1>3, <2>4, <3>1, GiveUpIInv
    <2> QED
      BY <2>2, <2>3, <2>4 DEF Replace
  <1> QED
    BY <1>7

\* Moving an entry changes neither which version is which, once the new one can be read,
\* nor what there is of both together.
LEMMA CarryOK ==
  ASSUME NEW old \in Package, NEW new \in Package, NEW e \in ToCarry(old, new)
  PROVE  /\ Given(new, e) \in Package /\ Taken(old, e) \in Package
         /\ Given(new, e).v \in {old.v, new.v} /\ Taken(old, e).v \in {old.v, NoVersion}
         /\ Readable(new) => Given(new, e).v = new.v /\ Taken(old, e).v = old.v
         /\ Given(new, e).extra \cup Taken(old, e).extra = old.extra \cup new.extra
         /\ new.extra \subseteq Given(new, e).extra
  <1>1. /\ old.v \in Version \cup {NoVersion} /\ old.extra \subseteq File
        /\ new.v \in Version \cup {NoVersion} /\ new.extra \subseteq File
    BY DEF Package
  <1>2. \/ e.v = old.v /\ Readable(old) /\ ~Readable(new) /\ e.extra = {}
        \/ e.v = NoVersion /\ \E f \in old.extra \ new.extra : e.extra = {f}
    BY DEF ToCarry
  <1>3. /\ Given(new, e).v = (IF Readable(e) THEN e.v ELSE new.v)
        /\ Given(new, e).extra = new.extra \cup e.extra
        /\ Taken(old, e).v = (IF Readable(e) THEN NoVersion ELSE old.v)
        /\ Taken(old, e).extra = old.extra \ e.extra
    BY DEF Given, Taken
  <1>4. e.extra \subseteq old.extra
    BY <1>2
  <1>5. Given(new, e) \in Package /\ Taken(old, e) \in Package
    <2>1. /\ Given(new, e).v \in Version \cup {NoVersion}
          /\ Taken(old, e).v \in Version \cup {NoVersion}
      BY <1>1, <1>2, <1>3
    <2>2. Given(new, e).extra \in SUBSET File /\ Taken(old, e).extra \in SUBSET File
      BY <1>1, <1>3, <1>4
    <2> QED
      BY <2>1, <2>2 DEF Package, Given, Taken
  <1> QED
    BY <1>2, <1>3, <1>4, <1>5 DEF Readable

\* With nothing left to carry over, the new package has all of the old one.
LEMMA CarriedAll ==
  ASSUME NEW old \in Package, NEW new \in Package, ToCarry(old, new) = {}
  PROVE  old.extra \subseteq new.extra
  <1> SUFFICES ASSUME NEW f \in old.extra, f \notin new.extra PROVE FALSE
    OBVIOUS
  <1>1. [v |-> NoVersion, extra |-> {f}]
            \in [v : {NoVersion}, extra : {{g} : g \in old.extra \ new.extra}]
    OBVIOUS
  <1> QED
    BY <1>1 DEF ToCarry

\* One entry more is in the new package, and the old one has one fewer.
LEMMA CarryOverIInv ==
  ASSUME IInv, NEW w \in Worker, CarryOver(w)
  PROVE  IInv'
  <1> DEFINE n == Stage(w)
             left == ToCarry(olds[n], TheHome)
  <1>1. /\ TypeOK /\ work[w].at = "carry"
        /\ UNCHANGED <<stages, claim, running, phase, todo, inputs, stops, gone, last,
                      stranded, leaving>>
    BY DEF CarryOver, At, IInv, history
  <1>2. faults' \in 0 .. MaxFaults
    BY <1>1, FaultsOK DEF CarryOver
  <1>3. work[w].op = "update" /\ InPlace /\ ~leaving /\ n \in DOMAIN olds
    BY <1>1 DEF IInv, PlaceInv, PlaceAt
  <1>4. /\ home # {} /\ Readable(TheHome) /\ TheHome \in Package /\ home = {TheHome}
        /\ TheHome \in Kept /\ olds[n] \in Package /\ olds[n] \in Kept /\ n \in Version
    <2>1. home # {} /\ Readable(TheHome)
      BY <1>3 DEF InPlace
    <2> QED
      BY <1>1, <1>3, <2>1, InHome, StageOK DEF TypeOK, Kept
  <1>5. claim = w /\ ~running /\ ~gone
    BY <1>1, <1>4, Alone DEF Claimed, IInv, NotMovedWhileRunning, GoneStays
  <1>6. ASSUME NEW at \in {"drop", "spawn"}, Go(w, at), UNCHANGED <<home, olds>>,
               at = "drop" => left = {}
        PROVE  IInv'
    <2>1. PICK x \in Doing : /\ work' = [work EXCEPT ![w] = x] /\ work'[w] = x
                             /\ x.at = at /\ x.op = work[w].op /\ x.stage = Stage(w)
      <3>1. at \in Places
        BY DEF Places
      <3> QED
        BY <1>1, <1>6, <3>1, Going
    <2>2. TypeOK'
      BY <1>1, <1>2, <1>6, <2>1 DEF TypeOK
    <2>3. TheHome' = TheHome /\ Kept' = Kept /\ InPlace' = InPlace /\ Stage(w)' = Stage(w)
      BY <1>6, <2>1 DEF TheHome, Kept, InPlace, Stage
    <2>4. HomeInv' /\ RestInv' /\ NotMovedWhileRunning' /\ GoneStays'
      BY <1>1, <1>5, <1>6, <2>1, <2>3
         DEF IInv, HomeInv, RestInv, NotMovedWhileRunning, GoneStays
    <2>5. at = "drop" => olds[n].extra \subseteq TheHome.extra
      BY <1>4, <1>6, CarriedAll
    <2>6. StagedAt(w)' /\ PlaceAt(w)'
      BY <1>1, <1>3, <1>6, <2>1, <2>3, <2>5 DEF StagedAt, HasStaged, ToPlace, PlaceAt
    <2>7. ClaimInv' /\ DownInv' /\ UsedInv' /\ StagedInv' /\ PlaceInv'
      BY <1>1, <1>5, <1>6, <2>1, <2>3, <2>6, WorkOn
    <2> QED
      BY <2>2, <2>4, <2>7 DEF IInv
  <1>7. ASSUME NEW e \in left, work' = work, home' = {Given(TheHome, e)},
               olds' = [olds EXCEPT ![n] = Taken(@, e)]
        PROVE  IInv'
    <2> DEFINE new == Given(TheHome, e)
               old == Taken(olds[n], e)
    <2>1. /\ new \in Package /\ old \in Package /\ new.v = TheHome.v /\ Readable(new)
          /\ old.v \in {olds[n].v, NoVersion}
      BY <1>4, CarryOK DEF Readable
    <2>2. home' = {new} /\ olds' = [olds EXCEPT ![n] = old]
      BY <1>7
    <2> HIDE DEF new, old
    <2>3. /\ home' \subseteq Package /\ Cardinality(home') <= 1 /\ home' = {TheHome'}
          /\ TheHome' = new /\ InPlace' /\ home' # {}
      BY <2>1, <2>2, NewHome
    <2>4. /\ DOMAIN olds' = DOMAIN olds /\ olds' \in [DOMAIN olds' -> Package]
          /\ olds'[n] = old /\ \A z \in DOMAIN olds : z # n => olds'[z] = olds[z]
      BY <1>1, <1>3, <2>1, <2>2 DEF TypeOK
    <2>5. TypeOK'
      BY <1>1, <1>2, <1>7, <2>3, <2>4 DEF TypeOK
    <2>6. work' = [work EXCEPT ![w] = work[w]] /\ work[w] \in Doing
      BY <1>1, <1>7 DEF TypeOK
    <2>7. HomeInv' /\ RestInv' /\ NotMovedWhileRunning' /\ GoneStays'
      BY <1>1, <1>5, <1>7, <2>3
         DEF HomeInv, RestInv, NotMovedWhileRunning, GoneStays, InPlace
    <2>8. Stage(w)' = Stage(w)
      BY <1>7 DEF Stage
    <2>9. StagedAt(w)' /\ PlaceAt(w)'
      BY <1>1, <1>3, <1>7, <2>3, <2>4, <2>8 DEF StagedAt, HasStaged, ToPlace, PlaceAt
    <2>10. \A p \in Kept' : p.v = NoVersion \/ p.v = Stage(w) \/ \E q \in Kept : p.v = q.v
      BY <1>4, <2>1, <2>2, <2>4 DEF Kept
    <2>11. ClaimInv' /\ DownInv' /\ UsedInv' /\ StagedInv' /\ PlaceInv'
      BY <1>1, <1>5, <2>4, <2>6, <2>9, <2>10, WorkOn, <1>7 DEF Claimed, Stage
    <2> QED
      BY <2>5, <2>7, <2>11 DEF IInv
  <1> QED
    BY <1>6, <1>7 DEF CarryOver

\* What a deletion cut short leaves.
LEMMA BrokenOK ==
  ASSUME NEW p \in Package, NEW q \in Broken(p)
  PROVE  q \in Package /\ q.v \in {p.v, NoVersion} /\ q.extra \subseteq p.extra
  BY DEF Broken, Package

\* What is deleted of the old package has been carried over.
LEMMA DropIInv ==
  ASSUME IInv, NEW w \in Worker, Drop(w)
  PROVE  IInv'
  <1> DEFINE n == Stage(w)
  <1>1. /\ TypeOK /\ work[w].at = "drop"
        /\ UNCHANGED <<home, stages, claim, running, phase, todo, inputs, stops, gone, last,
                      stranded, leaving>>
    BY DEF Drop, At, IInv, history
  <1>2. faults' \in 0 .. MaxFaults
    BY <1>1, FaultsOK DEF Drop
  <1>3. /\ work[w].op = "update" /\ InPlace /\ ~leaving /\ n \in DOMAIN olds
        /\ olds[n].extra \subseteq TheHome.extra
    BY <1>1 DEF IInv, PlaceInv, PlaceAt
  <1>4. home # {} /\ olds[n] \in Package /\ olds[n] \in Kept
    BY <1>1, <1>3 DEF TypeOK, Kept, InPlace
  <1>5. claim = w /\ ~running /\ ~gone
    BY <1>1, <1>4, Alone DEF Claimed, IInv, NotMovedWhileRunning, GoneStays
  <1>6. TheHome' = TheHome /\ InPlace' = InPlace
    BY <1>1 DEF TheHome, InPlace
  <1>7. /\ DOMAIN olds' \subseteq DOMAIN olds /\ olds' \in [DOMAIN olds' -> Package]
        /\ \A p \in Kept' : p.v = NoVersion \/ p.v = Stage(w) \/ \E q \in Kept : p.v = q.v
        /\ n \in DOMAIN olds' => olds'[n].extra \subseteq TheHome.extra
    <2>1. CASE olds' = Without(olds, n)
      <3>1. /\ DOMAIN olds' = DOMAIN olds \ {n} /\ olds' \in [DOMAIN olds' -> Package]
            /\ \A z \in DOMAIN olds : z # n => olds'[z] = olds[z]
        BY <1>1, <2>1, FewerOlds
      <3>2. \A p \in Kept' : p \in Kept
        BY <1>1, <3>1 DEF Kept
      <3> QED
        BY <3>1, <3>2
    <2>2. CASE \E p \in Broken(olds[n]) : olds' = [olds EXCEPT ![n] = p]
      <3>1. PICK p \in Broken(olds[n]) : olds' = [olds EXCEPT ![n] = p]
        BY <2>2
      <3>2. p \in Package /\ p.v \in {olds[n].v, NoVersion} /\ p.extra \subseteq olds[n].extra
        BY <1>4, <3>1, BrokenOK
      <3>3. /\ DOMAIN olds' = DOMAIN olds /\ olds' \in [DOMAIN olds' -> Package]
            /\ olds'[n] = p /\ \A z \in DOMAIN olds : z # n => olds'[z] = olds[z]
        BY <1>1, <1>3, <3>1, <3>2 DEF TypeOK
      <3>4. \A q \in Kept' : q = p \/ q \in Kept
        BY <1>1, <3>3 DEF Kept
      <3> QED
        BY <1>3, <1>4, <3>2, <3>3, <3>4
    <2> QED
      BY <2>1, <2>2 DEF Drop
  <1>8. PICK x \in Doing : /\ work' = [work EXCEPT ![w] = x] /\ work'[w] = x
                           /\ x.op = work[w].op /\ x.stage = Stage(w)
                           /\ \/ x.at = "spawn"
                              \/ x.at = "drop" /\ n \in DOMAIN olds'
    <2>1. CASE Go(w, "spawn")
      <3>1. "spawn" \in Places
        BY DEF Places
      <3> QED
        BY <1>1, <2>1, <3>1, Going
    <2>2. CASE work' = work /\ \E p \in Broken(olds[n]) : olds' = [olds EXCEPT ![n] = p]
      <3>1. work[w] \in Doing /\ work' = [work EXCEPT ![w] = work[w]] /\ work'[w] = work[w]
        BY <1>1, <2>2 DEF TypeOK
      <3>2. DOMAIN olds' = DOMAIN olds
        BY <2>2
      <3> QED
        BY <1>1, <1>3, <3>1, <3>2 DEF Stage
    <2> QED
      BY <2>1, <2>2 DEF Drop
  <1>9. TypeOK'
    BY <1>1, <1>2, <1>7, <1>8 DEF TypeOK
  <1>10. HomeInv' /\ RestInv' /\ NotMovedWhileRunning' /\ GoneStays'
    BY <1>1, <1>5, <1>6, <1>8 DEF IInv, HomeInv, RestInv, NotMovedWhileRunning, GoneStays
  <1>11. Stage(w)' = Stage(w)
    BY <1>8 DEF Stage
  <1>12. StagedAt(w)' /\ PlaceAt(w)'
    BY <1>1, <1>3, <1>6, <1>7, <1>8, <1>11 DEF StagedAt, HasStaged, ToPlace, PlaceAt
  <1>13. ClaimInv' /\ DownInv' /\ UsedInv' /\ StagedInv' /\ PlaceInv'
    BY <1>1, <1>5, <1>7, <1>8, <1>12, WorkOn DEF Claimed
  <1> QED
    BY <1>9, <1>10, <1>13 DEF IInv

\* From here on, whatever is left in place may not be read.
LEMMA RemoveIInv ==
  ASSUME IInv, NEW w \in Worker, Remove(w)
  PROVE  IInv'
  <1>1. /\ TypeOK /\ work[w].at = "remove" /\ leaving' = TRUE
        /\ UNCHANGED <<olds, stages, running, phase, todo, inputs, stops, gone, last>>
    BY DEF Remove, At, IInv
  <1>2. faults' \in 0 .. MaxFaults
    BY <1>1, FaultsOK DEF Remove
  <1>3. claim = w /\ ~running
    BY <1>1, Alone DEF Claimed, IInv, NotMovedWhileRunning
  <1>4. /\ home' \subseteq Package /\ Cardinality(home') <= 1
        /\ home' # {} => home' = {TheHome'} /\ home # {}
        /\ \A p \in Kept' : p.v = NoVersion \/ p.v = Stage(w) \/ \E q \in Kept : p.v = q.v
    <2>1. CASE home' = {}
      BY <1>1, <2>1, NoHome DEF Kept
    <2>2. CASE home # {} /\ \E p \in Broken(TheHome) : home' = {p}
      <3>1. PICK p \in Broken(TheHome) : home' = {p}
        BY <2>2
      <3>2. TheHome \in Package /\ TheHome \in Kept
        BY <2>2, InHome
      <3>3. p \in Package /\ p.v \in {TheHome.v, NoVersion}
        BY <3>1, <3>2, BrokenOK
      <3>4. \A q \in Kept' : q = p \/ q \in Kept
        BY <1>1, <3>1 DEF Kept
      <3>5. \A q \in Kept' : q.v = NoVersion \/ q.v = Stage(w) \/ \E r \in Kept : q.v = r.v
        BY <3>2, <3>3, <3>4
      <3> QED
        BY <2>2, <3>1, <3>3, <3>5, NewHome
    <2> QED
      BY <2>1, <2>2 DEF Remove
  <1>5. PICK x \in Doing : /\ work' = [work EXCEPT ![w] = x] /\ work'[w] = x
                           /\ x.at = "idle" \/ x.stage = Stage(w)
                           /\ \/ /\ x.at \in {"remove", "olds"} /\ UNCHANGED <<claim, stranded>>
                                 /\ x.at = "olds" => home' = {}
                              \/ /\ x.at = "idle" /\ stranded' = TRUE
                                 /\ claim' = (IF claim = w THEN Nobody ELSE claim)
    <2>1. CASE Go(w, "olds") /\ home' = {} /\ UNCHANGED <<claim, stranded>>
      <3>1. "olds" \in Places
        BY DEF Places
      <3> QED
        BY <1>1, <2>1, <3>1, Going
    <2>2. CASE Done(w) /\ stranded' = TRUE
      <3>1. /\ Idle \in Doing /\ Idle.at = "idle" /\ work' = [work EXCEPT ![w] = Idle]
            /\ work'[w] = Idle /\ claim' = (IF claim = w THEN Nobody ELSE claim)
        BY <1>1, <2>2, Finished
      <3> QED
        BY <2>2, <3>1
    <2>3. CASE UNCHANGED <<work, claim, stranded>>
      <3>1. work[w] \in Doing /\ work' = [work EXCEPT ![w] = work[w]] /\ work'[w] = work[w]
        BY <1>1, <2>3 DEF TypeOK
      <3> QED
        BY <1>1, <2>3, <3>1 DEF Stage
    <2> QED
      BY <2>1, <2>2, <2>3 DEF Remove
  <1>6. claim' \in Worker \cup {Nobody} /\ stranded' \in BOOLEAN
    BY <1>1, <1>5 DEF TypeOK
  <1>7. TypeOK'
    BY <1>1, <1>2, <1>4, <1>5, <1>6 DEF TypeOK
  <1>8. HomeInv' /\ RestInv' /\ NotMovedWhileRunning' /\ GoneStays'
    BY <1>1, <1>3, <1>4, <1>5
       DEF IInv, HomeInv, RestInv, NotMovedWhileRunning, GoneStays, InPlace
  <1>9. StagedAt(w)' /\ PlaceAt(w)'
    BY <1>1, <1>5 DEF StagedAt, HasStaged, ToPlace, PlaceAt
  <1>10. ClaimInv' /\ DownInv' /\ UsedInv' /\ StagedInv' /\ PlaceInv'
    BY <1>1, <1>3, <1>4, <1>5, <1>9, WorkOn DEF Claimed
  <1> QED
    BY <1>7, <1>8, <1>10 DEF IInv

\* Once no version aside can be read, it is uninstalled.
LEMMA RemoveOldsIInv ==
  ASSUME IInv, NEW w \in Worker, RemoveOlds(w)
  PROVE  IInv'
  <1>1. /\ TypeOK /\ work[w].at = "olds"
        /\ UNCHANGED <<home, stages, running, phase, todo, inputs, stops, stranded>>
    BY DEF RemoveOlds, At, IInv
  <1>2. faults' \in 0 .. MaxFaults
    BY <1>1, FaultsOK DEF RemoveOlds
  <1>3. claim = w /\ ~running /\ home = {} /\ leaving
    BY <1>1, Alone DEF Claimed, IInv, NotMovedWhileRunning, PlaceInv, PlaceAt
  <1>4. /\ DOMAIN olds' \subseteq DOMAIN olds /\ olds' \in [DOMAIN olds' -> Package]
        /\ \A p \in Kept' : p.v = NoVersion \/ p.v = Stage(w) \/ \E q \in Kept : p.v = q.v
        /\ \/ UNCHANGED <<gone, last, leaving>> /\ ~gone
           \/ /\ \A m \in DOMAIN olds' : ~Readable(olds'[m])
              /\ gone' = TRUE /\ last' = NoVersion /\ leaving' = FALSE
    <2>1. CASE /\ \A m \in DOMAIN olds : ~Readable(olds[m])
               /\ gone' = TRUE /\ last' = NoVersion /\ leaving' = FALSE /\ olds' = olds
      <3>1. Kept' = Kept /\ olds \in [DOMAIN olds -> Package]
        BY <1>1, <2>1 DEF Kept, TypeOK
      <3> QED
        BY <2>1, <3>1
    <2>2. CASE \E m \in DOMAIN olds :
                 /\ Readable(olds[m]) /\ UNCHANGED <<gone, last, leaving>>
                 /\ \/ olds' = Without(olds, m)
                    \/ \E p \in Broken(olds[m]) : olds' = [olds EXCEPT ![m] = p]
      <3>1. PICK m \in DOMAIN olds :
              /\ Readable(olds[m]) /\ UNCHANGED <<gone, last, leaving>>
              /\ \/ olds' = Without(olds, m)
                 \/ \E p \in Broken(olds[m]) : olds' = [olds EXCEPT ![m] = p]
        BY <2>2
      <3>2. ~gone
        BY <3>1 DEF IInv, GoneStays
      <3>3. CASE olds' = Without(olds, m)
        <4>1. /\ DOMAIN olds' = DOMAIN olds \ {m} /\ olds' \in [DOMAIN olds' -> Package]
              /\ \A z \in DOMAIN olds : z # m => olds'[z] = olds[z]
          BY <1>1, <3>3, FewerOlds
        <4>2. \A p \in Kept' : p \in Kept
          BY <1>1, <4>1 DEF Kept
        <4> QED
          BY <3>1, <3>2, <4>1, <4>2
      <3>4. CASE \E p \in Broken(olds[m]) : olds' = [olds EXCEPT ![m] = p]
        <4>1. PICK p \in Broken(olds[m]) : olds' = [olds EXCEPT ![m] = p]
          BY <3>4
        <4>2. olds[m] \in Package /\ olds[m] \in Kept
          BY <1>1, <3>1 DEF TypeOK, Kept
        <4>3. p \in Package /\ p.v \in {olds[m].v, NoVersion}
          BY <4>1, <4>2, BrokenOK
        <4>4. /\ DOMAIN olds' = DOMAIN olds /\ olds' \in [DOMAIN olds' -> Package]
              /\ olds'[m] = p /\ \A z \in DOMAIN olds : z # m => olds'[z] = olds[z]
          BY <1>1, <3>1, <4>1, <4>3 DEF TypeOK
        <4>5. \A q \in Kept' : q = p \/ q \in Kept
          BY <1>1, <4>4 DEF Kept
        <4> QED
          BY <3>1, <3>2, <4>2, <4>3, <4>4, <4>5
      <3> QED
        BY <3>1, <3>3, <3>4
    <2> QED
      BY <2>1, <2>2 DEF RemoveOlds
  <1>5. PICK x \in Doing : /\ work' = [work EXCEPT ![w] = x] /\ work'[w] = x
                           /\ x.at = "idle" \/ x.stage = Stage(w)
                           /\ \/ x.at = "olds" /\ claim' = claim /\ leaving' = leaving
                              \/ /\ x.at = "idle"
                                 /\ claim' = (IF claim = w THEN Nobody ELSE claim)
    <2>1. CASE Done(w)
      <3>1. /\ Idle \in Doing /\ Idle.at = "idle" /\ work' = [work EXCEPT ![w] = Idle]
            /\ work'[w] = Idle /\ claim' = (IF claim = w THEN Nobody ELSE claim)
        BY <1>1, <2>1, Finished
      <3> QED
        BY <3>1
    <2>2. CASE UNCHANGED <<work, claim, leaving>>
      <3>1. work[w] \in Doing /\ work' = [work EXCEPT ![w] = work[w]] /\ work'[w] = work[w]
        BY <1>1, <2>2 DEF TypeOK
      <3> QED
        BY <1>1, <2>2, <3>1 DEF Stage
    <2> QED
      BY <2>1, <2>2 DEF RemoveOlds
  <1>6. TypeOK'
    BY <1>1, <1>2, <1>4, <1>5 DEF TypeOK
  <1>7. HomeInv' /\ RestInv' /\ NotMovedWhileRunning' /\ GoneStays'
    <2>1. home' = {} /\ ~running'
      BY <1>1, <1>3
    <2>2. HomeInv' /\ RestInv' /\ NotMovedWhileRunning'
      BY <2>1 DEF HomeInv, RestInv, NotMovedWhileRunning, InPlace
    <2>3. gone' => \A m \in DOMAIN olds' : ~Readable(olds'[m])
      BY <1>4
    <2> QED
      BY <2>1, <2>2, <2>3 DEF GoneStays
  <1>8. StagedAt(w)' /\ PlaceAt(w)'
    BY <1>1, <1>3, <1>5 DEF StagedAt, HasStaged, ToPlace, PlaceAt
  <1>9. ClaimInv' /\ DownInv' /\ UsedInv' /\ StagedInv' /\ PlaceInv'
    BY <1>1, <1>3, <1>4, <1>5, <1>8, WorkOn DEF Claimed
  <1> QED
    BY <1>6, <1>7, <1>9 DEF IInv

\* What a running extension fetches is its own affair: nobody works on its folder.
LEMMA FetchIInv ==
  ASSUME IInv, NEW f \in File, Fetch(f)
  PROVE  IInv'
  <1> DEFINE p == [TheHome EXCEPT !.extra = @ \cup {f}]
  <1>1. /\ TypeOK /\ running /\ home # {} /\ home' = {p}
        /\ UNCHANGED <<olds, stages, work, claim, running, phase, todo, inputs, stops, faults,
                      gone, last, stranded, leaving>>
    BY DEF Fetch, bounds, history, IInv
  <1>2. TheHome \in Package /\ TheHome \in Kept /\ Readable(TheHome)
    BY <1>1, InHome DEF IInv, NotMovedWhileRunning
  <1>3. p \in Package /\ p.v = TheHome.v /\ Readable(p)
    BY <1>2 DEF Package, Readable
  <1> HIDE DEF p
  <1>4. /\ home' \subseteq Package /\ Cardinality(home') <= 1 /\ home' = {TheHome'}
        /\ TheHome' = p /\ InPlace' /\ home' # {}
    BY <1>1, <1>3, NewHome
  <1>5. TypeOK'
    BY <1>1, <1>4 DEF TypeOK
  <1>6. \A w \in Worker : work[w].at \notin Claimed \ {"place", "stop"}
    BY <1>1 DEF IInv, NotMovedWhileRunning
  <1>7. HomeInv' /\ RestInv' /\ NotMovedWhileRunning' /\ GoneStays'
    BY <1>1, <1>3, <1>4, <1>6 DEF IInv, HomeInv, RestInv, NotMovedWhileRunning, GoneStays
  <1>8. \A q \in Kept' : q.v = p.v \/ q \in Kept
    BY <1>1, <1>4 DEF Kept
  <1>9. \A w \in Worker : Stage(w)' = Stage(w)
    BY <1>1 DEF Stage
  <1>10. ClaimInv' /\ DownInv'
    BY <1>1 DEF IInv, ClaimInv, DownInv
  <1>11. UsedInv'
    BY <1>1, <1>2, <1>3, <1>8, <1>9 DEF IInv, UsedInv, Asked
  <1>12. StagedInv'
    BY <1>1, <1>2, <1>3, <1>8, <1>9 DEF IInv, StagedInv, StagedAt, HasStaged
  <1>13. PlaceInv'
    BY <1>1, <1>4, <1>6 DEF PlaceInv, PlaceAt, Claimed
  <1> QED
    BY <1>5, <1>7, <1>10, <1>11, <1>12, <1>13 DEF IInv

\* While Irori is down or starts, there are only the packages on the disk.
LEMMA StartStep ==
  ASSUME IInv, phase # "up", phase' # "up", UNCHANGED <<work, claim, running, inputs>>,
         DOMAIN olds' \subseteq DOMAIN olds,
         \A p \in Kept' : p.v = NoVersion \/ \E q \in Kept : p.v = q.v,
         \A n \in Version : <<"old", n>> \in todo' => n \in DOMAIN olds'
  PROVE  /\ ClaimInv' /\ DownInv' /\ UsedInv' /\ StagedInv' /\ PlaceInv' /\ RestInv'
         /\ NotMovedWhileRunning'
  <1>1. (\A w \in Worker : work'[w].at = "idle") /\ ~running'
    BY DEF IInv, DownInv
  <1>2. ClaimInv' /\ StagedInv' /\ PlaceInv'
    BY <1>1 DEF ClaimInv, Claimed, StagedInv, StagedAt, HasStaged, ToPlace, PlaceInv, PlaceAt
  <1>3. UsedInv'
    BY <1>1 DEF IInv, UsedInv, Asked
  <1> QED
    BY <1>1, <1>2, <1>3 DEF DownInv, RestInv, NotMovedWhileRunning

\* Nobody works, and nothing runs.
LEMMA CrashIInv ==
  ASSUME IInv, Crash
  PROVE  IInv'
  <1>1. /\ TypeOK /\ phase' = "down" /\ stops' = stops + 1 /\ stops < MaxStops
        /\ work' = [w \in Worker |-> Idle] /\ claim' = Nobody /\ running' = FALSE /\ todo' = {}
        /\ UNCHANGED <<home, olds, stages, inputs, faults, gone, last, stranded, leaving>>
    BY DEF Crash, disk, history, IInv
  <1>2. stops' \in 0 .. MaxStops /\ Idle \in Doing /\ Idle.at = "idle"
    BY <1>1, PackagesAssumption DEF TypeOK, Idle, Doing, Places
  <1>3. TypeOK'
    BY <1>1, <1>2 DEF TypeOK
  <1>4. TheHome' = TheHome /\ Kept' = Kept /\ \A w \in Worker : work'[w].at = "idle"
    BY <1>1, <1>2 DEF TheHome, Kept
  <1>5. HomeInv' /\ GoneStays' /\ RestInv' /\ NotMovedWhileRunning' /\ DownInv'
    BY <1>1, <1>4 DEF IInv, HomeInv, GoneStays, RestInv, NotMovedWhileRunning, DownInv
  <1>6. ClaimInv' /\ StagedInv' /\ PlaceInv'
    BY <1>4 DEF ClaimInv, Claimed, StagedInv, StagedAt, HasStaged, ToPlace, PlaceInv, PlaceAt
  <1>7. UsedInv'
    BY <1>1, <1>4 DEF IInv, UsedInv, Asked
  <1> QED
    BY <1>3, <1>5, <1>6, <1>7 DEF IInv

\* All that is aside or staged is to be cleared.
LEMMA BootIInv ==
  ASSUME IInv, Boot
  PROVE  IInv'
  <1>1. /\ TypeOK /\ phase = "down" /\ phase' = "clearing"
        /\ todo' = ({"old"} \X DOMAIN olds) \cup ({"stage"} \X DOMAIN stages)
        /\ UNCHANGED <<home, olds, stages, work, claim, running, inputs, stops, faults,
                      gone, last, stranded, leaving>>
    BY DEF Boot, disk, bounds, history, IInv
  <1>2. todo' \subseteq {"old", "stage"} \X Version
    BY <1>1 DEF TypeOK
  <1>3. TypeOK'
    BY <1>1, <1>2 DEF TypeOK
  <1>4. TheHome' = TheHome /\ Kept' = Kept
    BY <1>1 DEF TheHome, Kept
  <1>5. HomeInv' /\ GoneStays'
    BY <1>1, <1>4 DEF IInv, HomeInv, GoneStays
  <1>6. \A n \in Version : <<"old", n>> \in todo' => n \in DOMAIN olds'
    BY <1>1
  <1> QED
    BY <1>1, <1>3, <1>4, <1>5, <1>6, StartStep DEF IInv

\* What was staged when Irori stopped goes.
LEMMA ClearStageIInv ==
  ASSUME IInv, NEW n \in Version, ClearStage(n)
  PROVE  IInv'
  <1>1. /\ TypeOK /\ phase = "clearing" /\ todo' = todo \ {<<"stage", n>>}
        /\ stages' = stages \/ stages' = Without(stages, n)
        /\ UNCHANGED <<home, olds, work, claim, running, phase, inputs, stops,
                      gone, last, stranded, leaving>>
    BY DEF ClearStage, history, IInv
  <1>2. faults' \in 0 .. MaxFaults
    BY <1>1, FaultsOK DEF ClearStage
  <1>3. DOMAIN stages' \subseteq Version /\ stages' \in [DOMAIN stages' -> Package]
    BY <1>1, StagesOK
  <1>4. TypeOK'
    BY <1>1, <1>2, <1>3 DEF TypeOK
  <1>5. TheHome' = TheHome /\ Kept' = Kept
    BY <1>1 DEF TheHome, Kept
  <1>6. HomeInv' /\ GoneStays'
    BY <1>1, <1>5 DEF IInv, HomeInv, GoneStays
  <1>7. \A m \in Version : <<"old", m>> \in todo' => m \in DOMAIN olds'
    BY <1>1 DEF IInv, DownInv
  <1> QED
    BY <1>1, <1>4, <1>5, <1>6, <1>7, StartStep DEF IInv

\* A version aside is put back only where nothing is.
LEMMA PutBackIInv ==
  ASSUME IInv, NEW n \in Version, PutBack(n)
  PROVE  IInv'
  <1>1. /\ TypeOK /\ phase = "clearing" /\ todo' = todo \ {<<"old", n>>}
        /\ n \in DOMAIN olds
        /\ UNCHANGED <<stages, work, claim, running, phase, inputs, stops,
                      gone, last, stranded, leaving>>
    BY DEF PutBack, history, IInv, DownInv
  <1>2. faults' \in 0 .. MaxFaults
    BY <1>1, FaultsOK DEF PutBack
  <1>3. \A m \in Version : <<"old", m>> \in todo' => m \in DOMAIN olds /\ m # n
    BY <1>1 DEF IInv, DownInv
  <1>4. CASE UNCHANGED <<home, olds>>
    <2>1. TypeOK'
      BY <1>1, <1>2, <1>4 DEF TypeOK
    <2>2. TheHome' = TheHome /\ Kept' = Kept
      BY <1>4 DEF TheHome, Kept
    <2>3. HomeInv' /\ GoneStays'
      BY <1>1, <1>4, <2>2 DEF IInv, HomeInv, GoneStays
    <2> QED
      BY <1>1, <1>3, <1>4, <2>1, <2>2, <2>3, StartStep DEF IInv
  <1>5. CASE Readable(olds[n]) /\ home' = {olds[n]} /\ olds' = Without(olds, n)
    <2>1. olds[n] \in Package /\ olds[n] \in Kept
      BY <1>1 DEF TypeOK, Kept
    <2>2. /\ home' \subseteq Package /\ Cardinality(home') <= 1 /\ home' = {TheHome'}
          /\ TheHome' = olds[n]
      BY <1>5, <2>1, NewHome
    <2>3. /\ DOMAIN olds' = DOMAIN olds \ {n} /\ olds' \in [DOMAIN olds' -> Package]
          /\ \A z \in DOMAIN olds : z # n => olds'[z] = olds[z]
      BY <1>1, <1>5, FewerOlds
    <2>4. TypeOK'
      BY <1>1, <1>2, <2>2, <2>3 DEF TypeOK
    <2>5. ~gone
      BY <1>1, <1>5 DEF IInv, GoneStays
    <2>6. HomeInv' /\ GoneStays'
      BY <1>1, <1>5, <2>2, <2>5 DEF HomeInv, GoneStays
    <2>7. \A p \in Kept' : p \in Kept
      BY <2>1, <2>2, <2>3 DEF Kept
    <2> QED
      BY <1>1, <1>3, <2>3, <2>4, <2>6, <2>7, StartStep DEF IInv
  <1> QED
    BY <1>4, <1>5 DEF PutBack

\* What is in place gets what the version aside still has.
LEMMA FinishUpdateIInv ==
  ASSUME IInv, NEW n \in Version, FinishUpdate(n)
  PROVE  IInv'
  <1> DEFINE left == ToCarry(olds[n], TheHome)
  <1>1. /\ TypeOK /\ phase = "clearing" /\ n \in DOMAIN olds /\ home # {}
        /\ todo' \subseteq todo
        /\ UNCHANGED <<stages, work, claim, running, phase, inputs, stops,
                      gone, last, stranded, leaving>>
    BY DEF FinishUpdate, history, IInv, DownInv
  <1>2. faults' \in 0 .. MaxFaults
    BY <1>1, FaultsOK DEF FinishUpdate
  <1>3. /\ TheHome \in Package /\ TheHome \in Kept /\ home = {TheHome}
        /\ olds[n] \in Package /\ olds[n] \in Kept /\ ~gone
    BY <1>1, InHome DEF IInv, TypeOK, Kept, GoneStays
  <1>4. todo' \subseteq {"old", "stage"} \X Version
        /\ \A m \in Version : <<"old", m>> \in todo' => m \in DOMAIN olds
    BY <1>1 DEF IInv, DownInv, TypeOK
  <1>5. ASSUME home' = home, DOMAIN olds' \subseteq DOMAIN olds,
               olds' \in [DOMAIN olds' -> Package],
               \A p \in Kept' : p.v = NoVersion \/ \E q \in Kept : p.v = q.v,
               \A m \in Version : <<"old", m>> \in todo' => m \in DOMAIN olds'
        PROVE  IInv'
    <2>1. TypeOK'
      BY <1>1, <1>2, <1>4, <1>5 DEF TypeOK
    <2>2. TheHome' = TheHome
      BY <1>5 DEF TheHome
    <2>3. HomeInv' /\ GoneStays'
      BY <1>1, <1>3, <1>5, <2>2 DEF IInv, HomeInv, GoneStays
    <2> QED
      BY <1>1, <1>5, <2>1, <2>3, StartStep DEF IInv
  <1>6. CASE olds' = Without(olds, n) /\ todo' = todo \ {<<"old", n>>} /\ home' = home
    <2>1. /\ DOMAIN olds' = DOMAIN olds \ {n} /\ olds' \in [DOMAIN olds' -> Package]
          /\ \A z \in DOMAIN olds : z # n => olds'[z] = olds[z]
      BY <1>1, <1>6, FewerOlds
    <2>2. \A p \in Kept' : p \in Kept
      BY <1>6, <2>1 DEF Kept
    <2> QED
      BY <1>4, <1>5, <1>6, <2>1, <2>2
  <1>7. CASE home' = home /\ \E p \in Broken(olds[n]) : olds' = [olds EXCEPT ![n] = p]
    <2>1. PICK p \in Broken(olds[n]) : olds' = [olds EXCEPT ![n] = p]
      BY <1>7
    <2>2. p \in Package /\ p.v \in {olds[n].v, NoVersion}
      BY <1>3, <2>1, BrokenOK
    <2>3. /\ DOMAIN olds' = DOMAIN olds /\ olds' \in [DOMAIN olds' -> Package]
          /\ olds'[n] = p /\ \A z \in DOMAIN olds : z # n => olds'[z] = olds[z]
      BY <1>1, <2>1, <2>2 DEF TypeOK
    <2>4. \A q \in Kept' : q = p \/ q \in Kept
      BY <1>7, <2>3 DEF Kept
    <2> QED
      BY <1>3, <1>4, <1>5, <1>7, <2>2, <2>3, <2>4
  <1>8. CASE \E e \in left : /\ home' = {Given(TheHome, e)}
                             /\ olds' = [olds EXCEPT ![n] = Taken(@, e)]
    <2>1. PICK e \in left : /\ home' = {Given(TheHome, e)}
                            /\ olds' = [olds EXCEPT ![n] = Taken(@, e)]
      BY <1>8
    <2> DEFINE new == Given(TheHome, e)
               old == Taken(olds[n], e)
    <2>2. /\ new \in Package /\ old \in Package /\ new.v \in {olds[n].v, TheHome.v}
          /\ old.v \in {olds[n].v, NoVersion} /\ (Readable(TheHome) => new.v = TheHome.v)
      BY <1>3, <2>1, CarryOK
    <2>3. home' = {new} /\ olds' = [olds EXCEPT ![n] = old]
      BY <2>1
    <2> HIDE DEF new, old
    <2>4. /\ home' \subseteq Package /\ Cardinality(home') <= 1 /\ home' = {TheHome'}
          /\ TheHome' = new
      BY <2>2, <2>3, NewHome
    <2>5. /\ DOMAIN olds' = DOMAIN olds /\ olds' \in [DOMAIN olds' -> Package]
          /\ olds'[n] = old /\ \A z \in DOMAIN olds : z # n => olds'[z] = olds[z]
      BY <1>1, <2>2, <2>3 DEF TypeOK
    <2>6. TypeOK'
      BY <1>1, <1>2, <1>4, <2>4, <2>5 DEF TypeOK
    <2>7. HomeInv' /\ GoneStays'
      BY <1>1, <1>3, <2>2, <2>4 DEF IInv, HomeInv, GoneStays, Readable
    <2>8. \A q \in Kept' : q = new \/ q = old \/ q \in Kept
      BY <2>4, <2>5 DEF Kept
    <2>9. \A q \in Kept' : q.v = NoVersion \/ \E r \in Kept : q.v = r.v
      BY <1>3, <2>2, <2>8
    <2> QED
      BY <1>1, <1>4, <2>5, <2>6, <2>7, <2>9, StartStep DEF IInv
  <1>9. CASE UNCHANGED <<home, olds>>
    <2>1. Kept' = Kept /\ olds \in [DOMAIN olds -> Package]
      BY <1>1, <1>9 DEF Kept, TypeOK
    <2> QED
      BY <1>4, <1>5, <1>9, <2>1
  <1> QED
    BY <1>6, <1>7, <1>8, <1>9 DEF FinishUpdate

\* What is in place after that runs.
LEMMA StartPackagesIInv ==
  ASSUME IInv, StartPackages
  PROVE  IInv'
  <1>1. /\ TypeOK /\ phase = "clearing" /\ phase' = "up"
        /\ stranded' = FALSE
        /\ UNCHANGED <<home, olds, stages, work, claim, todo, inputs, stops, faults,
                      gone, last, leaving>>
    BY DEF StartPackages, disk, bounds, IInv
  <1>2. running' \in BOOLEAN /\ (running' <=> InPlace)
    BY DEF StartPackages, InPlace
  <1>3. TypeOK'
    BY <1>1, <1>2 DEF TypeOK
  <1>4. TheHome' = TheHome /\ Kept' = Kept /\ InPlace' = InPlace
    BY <1>1 DEF TheHome, Kept, InPlace
  <1>5. \A w \in Worker : work'[w].at = "idle"
    BY <1>1 DEF IInv, DownInv
  <1>6. HomeInv' /\ GoneStays' /\ RestInv' /\ NotMovedWhileRunning' /\ DownInv'
    BY <1>1, <1>2, <1>4, <1>5
       DEF IInv, HomeInv, GoneStays, RestInv, NotMovedWhileRunning, DownInv, InPlace, Claimed
  <1>7. ClaimInv' /\ StagedInv' /\ PlaceInv'
    BY <1>5 DEF ClaimInv, Claimed, StagedInv, StagedAt, HasStaged, ToPlace, PlaceInv, PlaceAt
  <1>8. UsedInv'
    BY <1>1, <1>4, <1>5 DEF IInv, UsedInv, Asked
  <1> QED
    BY <1>3, <1>6, <1>7, <1>8 DEF IInv

\* Nothing is installed at first, and nobody has asked for anything.
LEMMA InitIInv == Init => IInv
  <1> SUFFICES ASSUME Init PROVE IInv
    OBVIOUS
  <1>1. Idle \in Doing /\ Idle.at = "idle" /\ \A w \in Worker : work[w].at = "idle"
    BY PackagesAssumption DEF Init, Idle, Doing, Places
  <1>2. DOMAIN olds = {} /\ DOMAIN stages = {} /\ Kept = {}
    BY DEF Init, Kept
  <1>3. olds \in [DOMAIN olds -> Package] /\ stages \in [DOMAIN stages -> Package]
    BY <1>2 DEF Init
  <1>4. Cardinality(home) <= 1
    BY FS_EmptySet DEF Init
  <1>5. TypeOK
    <2>1. work \in [Worker -> Doing] /\ claim \in Worker \cup {Nobody}
      BY <1>1 DEF Init
    <2>2. home \subseteq Package /\ DOMAIN olds \subseteq Version /\ DOMAIN stages \subseteq Version
      BY <1>2 DEF Init
    <2>3. inputs \in 0 .. MaxInputs /\ stops \in 0 .. MaxStops /\ faults \in 0 .. MaxFaults
      BY PackagesAssumption DEF Init
    <2>4. /\ phase \in {"up", "down", "clearing"} /\ todo \subseteq {"old", "stage"} \X Version
          /\ last \in Version \cup {NoVersion}
      BY DEF Init
    <2>5. running \in BOOLEAN /\ gone \in BOOLEAN /\ stranded \in BOOLEAN /\ leaving \in BOOLEAN
      BY DEF Init
    <2> QED
      BY <1>3, <1>4, <2>1, <2>2, <2>3, <2>4, <2>5 DEF TypeOK
  <1>6. HomeInv /\ ClaimInv /\ DownInv /\ NotMovedWhileRunning /\ GoneStays /\ RestInv
    BY <1>1 DEF Init, HomeInv, ClaimInv, Claimed, DownInv, NotMovedWhileRunning, GoneStays,
       RestInv, InPlace
  <1>7. UsedInv /\ StagedInv /\ PlaceInv
    BY <1>1, <1>2 DEF UsedInv, StagedInv, StagedAt, HasStaged, ToPlace, PlaceInv, PlaceAt
  <1> QED
    BY <1>5, <1>6, <1>7 DEF IInv

\* Every step, of a worker, the extension, a stop or a start.
LEMMA NextIInv == IInv /\ [Next]_vars => IInv'
  <1> SUFFICES ASSUME IInv, [Next]_vars PROVE IInv'
    OBVIOUS
  <1>1. ASSUME NEW w \in Worker, NEW op \in {"install", "url", "update", "uninstall"},
               Ask(w, op)
        PROVE  IInv'
    BY <1>1, AskIInv
  <1>2. ASSUME NEW w \in Worker, Work(w) PROVE IInv'
    BY <1>2, NewStageIInv, FetchedIInv, ClaimIInv, InstallIInv, SpawnIInv, UpdateIInv,
       StopIInv, AsideIInv, ReplaceIInv, CarryOverIInv, DropIInv, RemoveIInv, RemoveOldsIInv
       DEF Work
  <1>3. ASSUME NEW f \in File, Fetch(f) PROVE IInv'
    BY <1>3, FetchIInv
  <1>4. CASE Crash
    BY <1>4, CrashIInv
  <1>5. CASE Start
    BY <1>5, BootIInv, StartPackagesIInv, ClearStageIInv, PutBackIInv, FinishUpdateIInv
       DEF Start
  <1>6. CASE UNCHANGED vars
    <2>1. /\ UNCHANGED <<home, olds, stages, work, claim, running, phase, todo>>
          /\ UNCHANGED <<inputs, stops, faults, gone, last, stranded, leaving>>
      BY <1>6 DEF vars
    <2>2. /\ TheHome' = TheHome /\ Kept' = Kept /\ InPlace' = InPlace
          /\ \A w \in Worker : Stage(w)' = Stage(w) /\ HasStaged(w)' = HasStaged(w)
      BY <2>1 DEF TheHome, Kept, InPlace, Stage, HasStaged
    <2>3. TypeOK' /\ HomeInv' /\ ClaimInv' /\ DownInv'
      BY <2>1, <2>2 DEF IInv, TypeOK, HomeInv, ClaimInv, DownInv
    <2>4. UsedInv' /\ StagedInv'
      BY <2>1, <2>2 DEF IInv, UsedInv, Asked, StagedInv, StagedAt
    <2>5. PlaceInv' /\ RestInv' /\ NotMovedWhileRunning' /\ GoneStays'
      BY <2>1, <2>2 DEF IInv, PlaceInv, PlaceAt, RestInv, NotMovedWhileRunning, GoneStays
    <2> QED
      BY <2>3, <2>4, <2>5 DEF IInv
  <1> QED
    BY <1>1, <1>2, <1>3, <1>4, <1>5, <1>6 DEF Next

\* The inductive invariant holds in every state.
THEOREM Invariance == Spec => []IInv
  <1> QED
    BY InitIInv, NextIInv, PTL DEF Spec

\* One package at most is in place, and nobody moves, empties or deletes it while the
\* extension runs from it (claim, is_running, the wait for the supervisor).
THEOREM UntouchedWhileRunning == Spec => []PackageOK
  <1>1. IInv => PackageOK
    BY DEF IInv, PackageOK
  <1> QED
    BY Invariance, <1>1, PTL

\* Uninstalled is uninstalled, through every later failure and stop (remove_old_versions).
THEOREM Uninstalled == Spec => []GoneStays
  <1>1. IInv => GoneStays
    BY DEF IInv
  <1> QED
    BY Invariance, <1>1, PTL

\* While nothing is being done to it, what is installed runs, unless the disk failed with
\* the extension stopped (spawn_package, update_package, start_with_packages).
THEOREM WhatIsInstalledRuns == Spec => []InstalledRuns
  <1>1. IInv => InstalledRuns
    <2> SUFFICES ASSUME IInv, phase = "up", claim = Nobody, InPlace, ~running, ~stranded
                 PROVE  FALSE
      BY DEF InstalledRuns, InPlace
    <2>1. PICK w \in Worker : work[w].at \in {"aside", "carry", "drop", "spawn", "remove"}
      BY DEF IInv, RestInv
    <2>2. work[w].at \in Claimed
      BY <2>1 DEF Claimed
    <2> QED
      BY <2>1, <2>2, Alone
  <1> QED
    BY Invariance, <1>1, PTL

-----------------------------------------------------------------------------
(* That Packages implements PackageStore: every step of an install, an      *)
(* update, an uninstall or a start, failed or cut short, is a step of the   *)
(* store or none.                                                           *)

\* What the store has in place of fetched and spare.
FetchedFiles ==
    (IF InPlace THEN TheHome.extra ELSE {}) \cup UNION {olds[n].extra : n \in ReadableOlds}
Spare == VersionsAside \ {InstalledVersion}

\* What the store's state says, element by element.
View ==
    /\ \A v : v \in VersionsAside <=> \E n \in DOMAIN olds : Readable(olds[n]) /\ olds[n].v = v
    /\ \A f : f \in FetchedFiles <=>
                \/ InPlace /\ f \in TheHome.extra
                \/ \E n \in DOMAIN olds : Readable(olds[n]) /\ f \in olds[n].extra
    /\ VersionsAside \subseteq Version /\ NoVersion \notin VersionsAside
    /\ InPlace => InstalledVersion = TheHome.v
    /\ home = {} /\ VersionsAside # {} =>
          InstalledVersion = Max(VersionsAside) /\ InstalledVersion \in VersionsAside
    /\ home = {} /\ VersionsAside = {} => InstalledVersion = NoVersion
    /\ home # {} /\ ~InPlace => InstalledVersion = NoVersion
    /\ FetchedFiles \subseteq File

\* The newest of several versions is one of them.
LEMMA MaxOK ==
  ASSUME NEW S \in SUBSET Version, S # {}
  PROVE  Max(S) \in S
  <1> DEFINE R == OpToRel(<, Nat)
             D == {MaxInputs - v : v \in S}
  <1>1. IsWellFoundedOn(R, Nat) /\ \A m, n \in Nat : m < n => <<m, n>> \in R
    BY NatLessThanWellFounded DEF OpToRel
  <1>2. D \subseteq Nat /\ D # {}
    <2>1. \A v \in S : MaxInputs - v \in Nat
      BY PackagesAssumption DEF Version
    <2> QED
      BY <2>1
  <1> HIDE DEF R
  <1>3. PICK d \in D : \A e \in D : ~(<<e, d>> \in R)
    <2>1. IsWellFoundedOn(R, Nat)
      BY <1>1
    <2>2. \A T : T \subseteq Nat /\ T # {} => \E x \in T : \A y \in T : ~(<<y, x>> \in R)
      BY <2>1, WFMin
    <2> QED
      BY <1>2, <2>2
  <1>4. PICK v \in S : d = MaxInputs - v
    BY <1>3
  <1>5. ASSUME NEW u \in S PROVE v >= u
    <2>1. MaxInputs - u \in D /\ MaxInputs - u \in Nat /\ d \in Nat
      BY <1>2
    <2>2. ~(MaxInputs - u < d)
      BY <1>1, <1>3, <2>1
    <2>3. u \in Int /\ v \in Int /\ MaxInputs \in Int
      BY PackagesAssumption DEF Version
    <2> QED
      BY <1>4, <2>2, <2>3
  <1> QED
    BY <1>5 DEF Max

\* So is the view of every state the invariant allows.
LEMMA ViewOK == IInv => View
  <1> SUFFICES ASSUME IInv PROVE View
    OBVIOUS
  <1>1. \A n \in DOMAIN olds : olds[n] \in Package
    BY DEF IInv, TypeOK
  <1>2. \A v : v \in VersionsAside <=> \E n \in DOMAIN olds : Readable(olds[n]) /\ olds[n].v = v
    BY DEF VersionsAside, ReadableOlds
  <1>3. \A f : f \in FetchedFiles <=>
                 \/ InPlace /\ f \in TheHome.extra
                 \/ \E n \in DOMAIN olds : Readable(olds[n]) /\ f \in olds[n].extra
    BY DEF FetchedFiles, ReadableOlds
  <1>4. VersionsAside \subseteq Version /\ NoVersion \notin VersionsAside
    BY <1>1, <1>2, PackagesAssumption DEF Readable, Package, Version
  <1>5. ReadableOlds # {} <=> VersionsAside # {}
    BY DEF VersionsAside
  <1>6. VersionsAside # {} => Max(VersionsAside) \in VersionsAside
    BY <1>4, MaxOK
  <1>7. /\ InPlace => InstalledVersion = TheHome.v
        /\ home = {} /\ VersionsAside # {} =>
              InstalledVersion = Max(VersionsAside) /\ InstalledVersion \in VersionsAside
        /\ home = {} /\ VersionsAside = {} => InstalledVersion = NoVersion
        /\ home # {} /\ ~InPlace => InstalledVersion = NoVersion
    BY <1>5, <1>6 DEF InstalledVersion, InPlace
  <1>8. FetchedFiles \subseteq File
    <2>1. InPlace => TheHome.extra \subseteq File
      BY InHome DEF InPlace, Package
    <2> QED
      BY <1>1, <1>3, <2>1 DEF Package
  <1> QED
    BY <1>2, <1>3, <1>4, <1>7, <1>8 DEF View

\* ... and after a step too.
LEMMA ViewNext == IInv' => View'
  BY ViewOK, PTL

-----------------------------------------------------------------------------
(* The steps of the store, in terms of the view                             *)

\* Nothing the store knows of changes.
LEMMA Stutter ==
  ASSUME UNCHANGED <<home, olds, leaving>>
  PROVE  UNCHANGED Store!store
  BY DEF Store!store, InstalledVersion, InPlace, TheHome, ReadableOlds, VersionsAside

\* The versions and what was fetched stay as they are.
LEMMA StutterOK ==
  ASSUME InstalledVersion' = InstalledVersion, FetchedFiles' = FetchedFiles, Spare' = Spare,
         leaving' = leaving
  PROVE  UNCHANGED Store!store
  BY DEF Store!store, FetchedFiles, Spare

\* The extension fetches, or what was aside is carried over with more.
LEMMA StoreFetch ==
  ASSUME InstalledVersion # NoVersion, FetchedFiles \subseteq FetchedFiles',
         FetchedFiles' \subseteq File, InstalledVersion' = InstalledVersion,
         VersionsAside' = VersionsAside, leaving' = leaving
  PROVE  Store!StoreNext
  BY DEF Store!StoreNext, Store!Fetch, FetchedFiles

\* Versions aside go, and nothing else.
LEMMA StoreTidy ==
  ASSUME Spare' \subseteq Spare, InstalledVersion' = InstalledVersion,
         FetchedFiles' = FetchedFiles, leaving' = leaving
  PROVE  Store!StoreNext
  BY DEF Store!StoreNext, Store!Tidy, FetchedFiles, Spare

\* A version kept aside is in place again.
LEMMA StoreRevert ==
  ASSUME ~leaving, leaving' = leaving, InstalledVersion' \in Spare,
         Spare' = (Spare \ {InstalledVersion'}) \cup ({InstalledVersion} \ {NoVersion}),
         FetchedFiles' = FetchedFiles
  PROVE  Store!StoreNext
  BY DEF Store!StoreNext, Store!Revert, FetchedFiles, Spare

\* A new version is put in place, and an uninstall is over.
LEMMA StorePlace ==
  ASSUME NEW v \in Version, v \notin Spare \cup {InstalledVersion}, InstalledVersion' = v,
         FetchedFiles \subseteq FetchedFiles', leaving' = FALSE,
         Spare' \subseteq Spare \cup ({InstalledVersion} \ {NoVersion})
  PROVE  Store!StoreNext
  BY DEF Store!StoreNext, Store!Place, FetchedFiles, Spare

\* An uninstall goes on: what is in place or aside may be gone.
LEMMA StoreLeave ==
  ASSUME leaving', InstalledVersion' \in Spare \cup {NoVersion, InstalledVersion},
         leaving' \in BOOLEAN,
         Spare' \subseteq Spare \cup ({InstalledVersion} \ {NoVersion}),
         FetchedFiles' \subseteq File
  PROVE  Store!StoreNext
  BY DEF Store!StoreNext, Store!Leave, FetchedFiles, Spare

\* An uninstall is over, and nothing is left.
LEMMA StoreLeft ==
  ASSUME leaving, leaving' = FALSE, InstalledVersion' = NoVersion, Spare' = {},
         FetchedFiles' = {}
  PROVE  Store!StoreNext
  BY DEF Store!StoreNext, Store!Left, FetchedFiles, Spare

-----------------------------------------------------------------------------
(* The steps of Packages                                                    *)

\* Once an uninstall has begun, whatever brings no version in is a step of leaving.
LEMMA Leaving ==
  ASSUME IInv, IInv', leaving',
         \A p \in Kept' : p.v = NoVersion \/ \E q \in Kept : p.v = q.v
  PROVE  Store!StoreNext
  <1>1. View /\ View'
    BY ViewOK, ViewNext
  <1>2. \A q \in Kept : q.v = NoVersion \/ q.v \in Spare \cup {InstalledVersion}
    <2>1. ASSUME NEW q \in home PROVE q.v = NoVersion \/ q.v = InstalledVersion
      <3>1. home # {} /\ q = TheHome
        BY DEF IInv, HomeInv
      <3> QED
        BY <1>1, <3>1 DEF View, InPlace, Readable
    <2>2. ASSUME NEW n \in DOMAIN olds
          PROVE  olds[n].v = NoVersion \/ olds[n].v \in VersionsAside
      BY <1>1 DEF View, Readable
    <2> QED
      BY <2>1, <2>2 DEF Kept, Spare
  <1>3. ASSUME NEW v \in VersionsAside' \cup {InstalledVersion'}
        PROVE  v = NoVersion \/ \E p \in Kept' : p.v = v
    <2>1. CASE v \in VersionsAside'
      BY <1>1, <2>1 DEF View, Kept
    <2>2. CASE v = InstalledVersion' /\ InPlace'
      <3>1. home' # {} /\ TheHome' \in Kept'
        BY <2>2 DEF IInv, HomeInv, InPlace, Kept
      <3> QED
        BY <1>1, <2>2, <3>1 DEF View
    <2>3. CASE v = InstalledVersion' /\ ~InPlace' /\ v # NoVersion
      <3>1. v \in VersionsAside'
        BY <1>1, <2>3 DEF View
      <3> QED
        BY <2>1, <3>1
    <2> QED
      BY <2>1, <2>2, <2>3
  <1>4. \A v \in VersionsAside' \cup {InstalledVersion'} :
           v = NoVersion \/ v \in Spare \cup {InstalledVersion}
    BY <1>2, <1>3
  <1>5. NoVersion \notin Spare'
    BY <1>1 DEF View, Spare
  <1>6. FetchedFiles' \subseteq File /\ leaving' \in BOOLEAN
    BY <1>1 DEF View, IInv, TypeOK
  <1>7. InstalledVersion' \in Spare \cup {NoVersion, InstalledVersion}
    BY <1>4
  <1>8. Spare' \subseteq Spare \cup ({InstalledVersion} \ {NoVersion})
    BY <1>4, <1>5 DEF Spare
  <1> QED
    BY <1>6, <1>7, <1>8, StoreLeave

\* A new version takes its place, with nothing in it.
LEMMA NewInPlace ==
  ASSUME IInv, IInv', NEW w \in Worker, HasStaged(w), work[w].at # "idle", home = {},
         home' = {stages[Stage(w)]}, olds' = olds, leaving' = FALSE
  PROVE  Store!StoreNext
  <1> DEFINE v == Stage(w)
  <1>1. View /\ View'
    BY ViewOK, ViewNext
  <1>2. v \in Version /\ v # NoVersion
    BY StageOK
  <1>3. v \in DOMAIN stages /\ stages[v].v = v /\ \A p \in Kept : p.v # v
    BY DEF IInv, StagedInv, StagedAt, HasStaged, ToPlace
  <1>4. TheHome' = stages[v] /\ InPlace'
    <2>1. stages[v] \in Package
      BY <1>3 DEF IInv, TypeOK
    <2> QED
      BY <1>2, <1>3, <2>1, NewHome DEF Readable
  <1>5. InstalledVersion' = v
    BY <1>1, <1>3, <1>4 DEF View
  <1>6. VersionsAside' = VersionsAside /\ v \notin VersionsAside
    BY <1>1, <1>3 DEF View, Kept, VersionsAside, ReadableOlds
  <1>7. v \notin Spare \cup {InstalledVersion}
    BY <1>1, <1>2, <1>6 DEF View, Spare
  <1>8. FetchedFiles \subseteq FetchedFiles'
    BY <1>1 DEF View, InPlace
  <1>9. Spare' \subseteq Spare \cup ({InstalledVersion} \ {NoVersion})
    BY <1>1, <1>6 DEF View, Spare
  <1> QED
    BY <1>2, <1>5, <1>7, <1>8, <1>9, StorePlace

\* A version moved aside comes back in place, with nothing in it.
LEMMA BackInPlace ==
  ASSUME IInv, IInv', NEW n \in DOMAIN olds, home = {},
         Readable(olds[n]) \/ leaving, home' = {olds[n]}, olds' = Without(olds, n),
         leaving' = leaving
  PROVE  [Store!StoreNext]_(Store!store)
  <1>1. View /\ View'
    BY ViewOK, ViewNext
  <1>2. /\ DOMAIN olds' = DOMAIN olds \ {n}
        /\ \A z \in DOMAIN olds : z # n => olds'[z] = olds[z]
    BY FewerOlds DEF IInv
  <1>3. TheHome' = olds[n] /\ (InPlace' <=> Readable(olds[n]))
    BY NewHome DEF IInv, TypeOK
  <1>4. CASE leaving
    <2>1. \A p \in Kept' : p \in Kept
      BY <1>2 DEF Kept
    <2> QED
      BY <1>4, <2>1, Leaving
  <1>5. CASE ~leaving
    <2> DEFINE v == olds[n].v
    <2>1. InstalledVersion' = v /\ v # NoVersion /\ v \in VersionsAside
      BY <1>1, <1>3, <1>5 DEF View, Readable
    <2>2. InstalledVersion \in VersionsAside /\ InstalledVersion # NoVersion
      BY <1>1, <2>1 DEF View
    <2>3. \A u : u # v => (u \in VersionsAside' <=> u \in VersionsAside)
      BY <1>1, <1>2 DEF View
    <2>4. FetchedFiles' = FetchedFiles
      <3>1. \A f : f \in FetchedFiles' <=>
                     \/ f \in olds[n].extra
                     \/ \E m \in DOMAIN olds \ {n} : Readable(olds[m]) /\ f \in olds[m].extra
        BY <1>1, <1>2, <1>3, <1>5 DEF View
      <3>2. \A f : f \in FetchedFiles <=>
                     \/ f \in olds[n].extra
                     \/ \E m \in DOMAIN olds \ {n} : Readable(olds[m]) /\ f \in olds[m].extra
        BY <1>1, <1>5 DEF View, InPlace
      <3> QED
        BY <3>1, <3>2
    <2>5. Spare' = VersionsAside \ {v}
      BY <2>1, <2>3 DEF Spare
    <2>6. CASE InstalledVersion = v
      BY <2>1, <2>4, <2>5, <2>6, StutterOK DEF Spare
    <2>7. CASE InstalledVersion # v
      <3>1. InstalledVersion' \in Spare
        BY <2>1, <2>7 DEF Spare
      <3>2. Spare' = (Spare \ {InstalledVersion'}) \cup ({InstalledVersion} \ {NoVersion})
        BY <2>1, <2>2, <2>5, <2>7 DEF Spare
      <3> QED
        BY <1>5, <2>4, <3>1, <3>2, StoreRevert
    <2> QED
      BY <2>6, <2>7
  <1> QED
    BY <1>4, <1>5

\* What is left of the versions moved aside when one is deleted, whole or in part.
LEMMA OldsLess ==
  ASSUME TypeOK, NEW n \in DOMAIN olds,
         \/ olds' = Without(olds, n)
         \/ \E p \in Broken(olds[n]) : olds' = [olds EXCEPT ![n] = p]
  PROVE  /\ DOMAIN olds' \subseteq DOMAIN olds
         /\ \A m \in DOMAIN olds :
               m # n => m \in DOMAIN olds' /\ olds'[m] = olds[m]
         /\ n \in DOMAIN olds' => /\ olds'[n].v \in {olds[n].v, NoVersion}
                                  /\ olds'[n].extra \subseteq olds[n].extra
  <1>1. olds \in [DOMAIN olds -> Package] /\ olds[n] \in Package
    BY DEF TypeOK
  <1>2. CASE olds' = Without(olds, n)
    <2>1. DOMAIN olds' = DOMAIN olds \ {n} /\ \A z \in DOMAIN olds : z # n => olds'[z] = olds[z]
      BY <1>2, FewerOlds
    <2> QED
      BY <2>1
  <1>3. CASE \E p \in Broken(olds[n]) : olds' = [olds EXCEPT ![n] = p]
    <2>1. PICK p \in Broken(olds[n]) : olds' = [olds EXCEPT ![n] = p]
      BY <1>3
    <2>2. p.v \in {olds[n].v, NoVersion} /\ p.extra \subseteq olds[n].extra
      BY <1>1, <2>1, BrokenOK
    <2> QED
      BY <1>1, <2>1, <2>2
  <1> QED
    BY <1>2, <1>3

\* A version moved aside is deleted once all it had is in place.
LEMMA Tidied ==
  ASSUME IInv, IInv', NEW n \in DOMAIN olds, home # {},
         olds[n].extra \subseteq TheHome.extra,
         \/ olds' = Without(olds, n)
         \/ \E p \in Broken(olds[n]) : olds' = [olds EXCEPT ![n] = p],
         home' = home, leaving' = leaving
  PROVE  Store!StoreNext
  <1>1. View /\ View' /\ TypeOK
    BY ViewOK, ViewNext DEF IInv
  <1>2. TheHome' = TheHome /\ (InPlace' <=> InPlace)
    BY DEF TheHome, InPlace
  <1>3. /\ DOMAIN olds' \subseteq DOMAIN olds
        /\ \A m \in DOMAIN olds : m # n => m \in DOMAIN olds' /\ olds'[m] = olds[m]
        /\ n \in DOMAIN olds' => /\ olds'[n].v \in {olds[n].v, NoVersion}
                                 /\ olds'[n].extra \subseteq olds[n].extra
    BY <1>1, OldsLess
  <1>4. CASE leaving
    <2>1. \A q \in Kept' : q \in Kept \/ q.v = NoVersion \/ q.v = olds[n].v
      BY <1>3 DEF Kept
    <2>2. olds[n] \in Kept
      BY DEF Kept
    <2> QED
      BY <1>4, <2>1, <2>2, Leaving
  <1>5. CASE ~leaving
    <2>1. InPlace
      BY <1>5 DEF IInv, HomeInv, InPlace
    <2>2. InstalledVersion' = InstalledVersion
      BY <1>1, <1>2, <2>1 DEF View
    <2>3. VersionsAside' \subseteq VersionsAside
      <3>1. ASSUME NEW v \in VersionsAside' PROVE v \in VersionsAside
        <4>1. PICK m \in DOMAIN olds' : Readable(olds'[m]) /\ olds'[m].v = v
          BY <1>1 DEF View
        <4>2. m \in DOMAIN olds /\ Readable(olds[m]) /\ olds[m].v = v
          BY <1>3, <4>1 DEF Readable
        <4> QED
          BY <1>1, <4>2 DEF View
      <3> QED
        BY <3>1
    <2>4. ASSUME NEW f \in FetchedFiles' PROVE f \in FetchedFiles
      <3>1. CASE InPlace' /\ f \in TheHome'.extra
        BY <1>1, <1>2, <3>1 DEF View
      <3>2. CASE \E m \in DOMAIN olds' : Readable(olds'[m]) /\ f \in olds'[m].extra
        <4>1. PICK m \in DOMAIN olds' : Readable(olds'[m]) /\ f \in olds'[m].extra
          BY <3>2
        <4>2. m \in DOMAIN olds /\ Readable(olds[m]) /\ f \in olds[m].extra
          BY <1>3, <4>1 DEF Readable
        <4> QED
          BY <1>1, <4>2 DEF View
      <3> QED
        BY <1>1, <3>1, <3>2 DEF View
    <2>5. ASSUME NEW f \in FetchedFiles PROVE f \in FetchedFiles'
      <3>1. CASE f \in TheHome.extra
        BY <1>1, <1>2, <2>1, <3>1 DEF View
      <3>2. CASE f \notin TheHome.extra
        <4>1. PICK m \in DOMAIN olds : Readable(olds[m]) /\ f \in olds[m].extra
          BY <1>1, <3>2 DEF View
        <4>2. m # n /\ m \in DOMAIN olds' /\ olds'[m] = olds[m]
          BY <1>3, <3>2, <4>1
        <4> QED
          BY <1>1, <4>1, <4>2 DEF View
      <3> QED
        BY <3>1, <3>2
    <2>6. FetchedFiles' = FetchedFiles
      BY <2>4, <2>5
    <2>7. Spare' \subseteq Spare
      BY <2>2, <2>3 DEF Spare
    <2> QED
      BY <2>2, <2>6, <2>7, StoreTidy
  <1> QED
    BY <1>4, <1>5

\* One entry of a version moved aside goes into what took its place.
LEMMA Moved ==
  ASSUME IInv, IInv', NEW n \in DOMAIN olds, home # {},
         NEW e \in ToCarry(olds[n], TheHome), home' = {Given(TheHome, e)},
         olds' = [olds EXCEPT ![n] = Taken(@, e)], leaving' = leaving
  PROVE  Store!StoreNext
  <1> DEFINE new == Given(TheHome, e)
             old == Taken(olds[n], e)
  <1>1. View /\ View' /\ TypeOK
    BY ViewOK, ViewNext DEF IInv
  <1>2. TheHome \in Package /\ olds[n] \in Package /\ TheHome \in Kept /\ olds[n] \in Kept
    BY <1>1, InHome DEF TypeOK, Kept
  <1>3. /\ new \in Package /\ old \in Package
        /\ new.v \in {olds[n].v, TheHome.v} /\ old.v \in {olds[n].v, NoVersion}
        /\ Readable(TheHome) => new.v = TheHome.v /\ old.v = olds[n].v
        /\ new.extra \cup old.extra = olds[n].extra \cup TheHome.extra
        /\ TheHome.extra \subseteq new.extra
    BY <1>2, CarryOK
  <1>4. home' = {new} /\ olds' = [olds EXCEPT ![n] = old]
    OBVIOUS
  <1> HIDE DEF new, old
  <1>5. /\ DOMAIN olds' = DOMAIN olds /\ olds'[n] = old
        /\ \A m \in DOMAIN olds : m # n => olds'[m] = olds[m]
    BY <1>1, <1>4 DEF TypeOK
  <1>6. TheHome' = new /\ (InPlace' <=> Readable(new))
    BY <1>3, <1>4, NewHome
  <1>7. CASE leaving
    <2>1. \A q \in Kept' : q = new \/ q = old \/ q \in Kept
      BY <1>4, <1>5 DEF Kept
    <2> QED
      BY <1>2, <1>3, <1>7, <2>1, Leaving
  <1>8. CASE ~leaving
    <2>1. InPlace /\ Readable(TheHome)
      BY <1>8 DEF IInv, HomeInv, InPlace
    <2>2. /\ InPlace' /\ InstalledVersion' = InstalledVersion /\ InstalledVersion # NoVersion
      BY <1>1, <1>3, <1>6, <2>1 DEF View, Readable
    <2>3. \A m \in DOMAIN olds : olds'[m].v = olds[m].v
      BY <1>3, <1>5, <2>1
    <2>4. VersionsAside' = VersionsAside
      <3>1. \A v : v \in VersionsAside' <=> v \in VersionsAside
        BY <1>1, <1>5, <2>3 DEF View, Readable
      <3> QED
        BY <3>1
    <2>5. ASSUME NEW f \in FetchedFiles PROVE f \in FetchedFiles'
      <3>1. CASE f \in TheHome.extra
        BY <1>1, <1>3, <1>6, <2>2, <3>1 DEF View
      <3>2. CASE \E m \in DOMAIN olds : Readable(olds[m]) /\ f \in olds[m].extra
        <4>1. PICK m \in DOMAIN olds : Readable(olds[m]) /\ f \in olds[m].extra
          BY <3>2
        <4>2. f \in new.extra \/ f \in olds'[m].extra
          BY <1>3, <1>5, <4>1
        <4>3. Readable(olds'[m]) /\ m \in DOMAIN olds'
          BY <1>5, <2>3, <4>1 DEF Readable
        <4> QED
          BY <1>1, <1>6, <2>2, <4>2, <4>3 DEF View
      <3> QED
        BY <1>1, <3>1, <3>2 DEF View
    <2>6. FetchedFiles' \subseteq File
      BY <1>1 DEF View
    <2> QED
      BY <2>2, <2>4, <2>5, <2>6, StoreFetch
  <1> QED
    BY <1>7, <1>8

\* The package is moved aside: with nothing in its place, the newest of the versions aside
\* is the one to be put back, which may be another one.
LEMMA AsideStore ==
  ASSUME IInv, IInv', NEW w \in Worker, Aside(w)
  PROVE  [Store!StoreNext]_(Store!store)
  <1> DEFINE n == Stage(w)
  <1>1. View /\ View' /\ TypeOK
    BY ViewOK, ViewNext DEF IInv
  <1>2. CASE UNCHANGED <<home, olds>>
    BY <1>2, Stutter DEF Aside
  <1>3. CASE olds' = With(olds, n, TheHome) /\ home' = {}
    <2>1. leaving' = leaving /\ work[w].at = "aside" /\ work[w].op = "update"
      BY DEF Aside, At, IInv, PlaceInv, PlaceAt
    <2>2. home # {} /\ n \notin DOMAIN olds
      BY <2>1 DEF IInv, PlaceInv, PlaceAt, StagedInv, StagedAt, ToPlace
    <2>3. TheHome \in Kept /\ (~Readable(TheHome) => leaving)
      BY <2>2, InHome DEF IInv, HomeInv
    <2>4. /\ DOMAIN olds' = DOMAIN olds \cup {n} /\ olds'[n] = TheHome
          /\ \A z \in DOMAIN olds : olds'[z] = olds[z]
      BY <1>3, <2>2 DEF With
    <2>5. CASE leaving
      <3>1. \A q \in Kept' : q \in Kept
        BY <1>3, <2>3, <2>4 DEF Kept
      <3> QED
        BY <2>1, <2>5, <3>1, Leaving
    <2>6. CASE ~leaving
      <3> DEFINE v == TheHome.v
      <3>1. InPlace /\ Readable(TheHome)
        BY <2>2, <2>3, <2>6 DEF InPlace
      <3>2. InstalledVersion = v /\ v # NoVersion
        BY <1>1, <3>1 DEF View, Readable
      <3>3. \A u : u \in VersionsAside' <=> u = v \/ u \in VersionsAside
        BY <1>1, <2>2, <2>4, <3>1 DEF View
      <3>4. ~InPlace' /\ home' = {}
        BY <1>3 DEF InPlace
      <3>5. InstalledVersion' \in VersionsAside'
        BY <1>1, <3>3, <3>4 DEF View
      <3>6. FetchedFiles' = FetchedFiles
        <4>1. \A f : f \in FetchedFiles' <=> f \in FetchedFiles
          BY <1>1, <2>2, <2>4, <3>1, <3>4 DEF View
        <4> QED
          BY <4>1
      <3>7. CASE InstalledVersion' = v
        <4>1. Spare' = Spare
          BY <3>2, <3>3, <3>7 DEF Spare
        <4> QED
          BY <2>1, <3>2, <3>6, <3>7, <4>1, StutterOK
      <3>8. CASE InstalledVersion' # v
        <4>1. InstalledVersion' \in Spare
          BY <3>2, <3>3, <3>5, <3>8 DEF Spare
        <4>2. Spare' = (Spare \ {InstalledVersion'}) \cup ({InstalledVersion} \ {NoVersion})
          BY <3>2, <3>3, <3>8 DEF Spare
        <4> QED
          BY <2>1, <2>6, <3>6, <4>1, <4>2, StoreRevert
      <3> QED
        BY <3>7, <3>8
    <2> QED
      BY <2>5, <2>6
  <1> QED
    BY <1>2, <1>3 DEF Aside

\* The new version takes its place, or the old one comes back.
LEMMA ReplaceStore ==
  ASSUME IInv, IInv', NEW w \in Worker, Replace(w)
  PROVE  [Store!StoreNext]_(Store!store)
  <1>1. work[w].at = "replace"
    BY DEF Replace, At
  <1>2. /\ home = {} /\ Stage(w) \in DOMAIN olds /\ HasStaged(w)
        /\ Readable(olds[Stage(w)]) \/ leaving
    BY <1>1 DEF IInv, PlaceInv, PlaceAt, HasStaged, ToPlace
  <1>3. CASE home' = {stages[Stage(w)]} /\ olds' = olds /\ leaving' = FALSE
    BY <1>1, <1>2, <1>3, NewInPlace
  <1>4. CASE /\ home' = {olds[Stage(w)]} /\ olds' = Without(olds, Stage(w))
             /\ leaving' = leaving
    BY <1>2, <1>4, BackInPlace
  <1>5. CASE UNCHANGED <<home, olds, leaving>>
    BY <1>5, Stutter
  <1> QED
    BY <1>3, <1>4, <1>5 DEF Replace

\* An uninstall deletes the package.
LEMMA RemoveStore ==
  ASSUME IInv, IInv', NEW w \in Worker, Remove(w)
  PROVE  Store!StoreNext
  <1>1. leaving' /\ olds' = olds
    BY DEF Remove
  <1>2. \A q \in Kept' : q.v = NoVersion \/ \E r \in Kept : q.v = r.v
    <2>1. \A q \in home' : q.v = NoVersion \/ \E r \in home : q.v = r.v
      <3>1. CASE home' = {}
        BY <3>1
      <3>2. CASE home # {} /\ \E p \in Broken(TheHome) : home' = {p}
        <4>1. PICK p \in Broken(TheHome) : home' = {p}
          BY <3>2
        <4>2. TheHome \in Package /\ home = {TheHome}
          BY <3>2, InHome
        <4> QED
          BY <4>1, <4>2, BrokenOK
      <3> QED
        BY <3>1, <3>2 DEF Remove
    <2> QED
      BY <1>1, <2>1 DEF Kept
  <1> QED
    BY <1>1, <1>2, Leaving

\* ... then every version moved aside, and has left nothing.
LEMMA RemoveOldsStore ==
  ASSUME IInv, IInv', NEW w \in Worker, RemoveOlds(w)
  PROVE  Store!StoreNext
  <1>1. View /\ View' /\ TypeOK
    BY ViewOK, ViewNext DEF IInv
  <1>2. home = {} /\ leaving /\ home' = home
    BY DEF RemoveOlds, At, IInv, PlaceInv, PlaceAt
  <1>3. CASE (\A n \in DOMAIN olds : ~Readable(olds[n])) /\ leaving' = FALSE /\ olds' = olds
    <2>1. VersionsAside' = {} /\ ~InPlace' /\ home' = {}
      <3>1. \A v : v \notin VersionsAside'
        BY <1>1, <1>3 DEF View
      <3> QED
        BY <1>2, <3>1 DEF InPlace
    <2>2. InstalledVersion' = NoVersion /\ Spare' = {}
      BY <1>1, <2>1 DEF View, Spare
    <2>3. FetchedFiles' = {}
      <3>1. \A f : f \notin FetchedFiles'
        BY <1>1, <1>3, <2>1 DEF View
      <3> QED
        BY <3>1
    <2> QED
      BY <1>2, <1>3, <2>2, <2>3, StoreLeft
  <1>4. CASE leaving' = leaving /\ \E n \in DOMAIN olds :
               \/ olds' = Without(olds, n)
               \/ \E p \in Broken(olds[n]) : olds' = [olds EXCEPT ![n] = p]
    <2>1. PICK n \in DOMAIN olds :
               \/ olds' = Without(olds, n)
               \/ \E p \in Broken(olds[n]) : olds' = [olds EXCEPT ![n] = p]
      BY <1>4
    <2>2. /\ DOMAIN olds' \subseteq DOMAIN olds
          /\ \A m \in DOMAIN olds : m # n => m \in DOMAIN olds' /\ olds'[m] = olds[m]
          /\ n \in DOMAIN olds' => olds'[n].v \in {olds[n].v, NoVersion}
      BY <1>1, <2>1, OldsLess
    <2>3. \A q \in Kept' : q \in Kept \/ q.v = NoVersion \/ q.v = olds[n].v
      BY <1>2, <2>2 DEF Kept
    <2>4. olds[n] \in Kept
      BY DEF Kept
    <2> QED
      BY <1>2, <1>4, <2>3, <2>4, Leaving
  <1> QED
    BY <1>3, <1>4 DEF RemoveOlds

\* A running extension fetches something into its folder.
LEMMA FetchStore ==
  ASSUME IInv, IInv', NEW f \in File, Fetch(f)
  PROVE  Store!StoreNext
  <1> DEFINE new == [TheHome EXCEPT !.extra = @ \cup {f}]
  <1>1. View /\ View'
    BY ViewOK, ViewNext
  <1>2. /\ InPlace /\ Readable(TheHome) /\ home # {} /\ home' = {new}
        /\ olds' = olds /\ leaving' = leaving
    BY DEF Fetch, IInv, NotMovedWhileRunning, InPlace, history
  <1>3. TheHome \in Package
    BY <1>2, InHome
  <1>4. new \in Package /\ new.v = TheHome.v /\ TheHome.extra \subseteq new.extra
    BY <1>3 DEF Package
  <1> HIDE DEF new
  <1>5. TheHome' = new /\ InPlace'
    BY <1>2, <1>4, NewHome DEF Readable
  <1>6. InstalledVersion' = InstalledVersion /\ InstalledVersion # NoVersion
    BY <1>1, <1>2, <1>4, <1>5 DEF View, Readable
  <1>7. VersionsAside' = VersionsAside
    BY <1>2 DEF VersionsAside, ReadableOlds
  <1>8. FetchedFiles \subseteq FetchedFiles' /\ FetchedFiles' \subseteq File
    <2>1. \A g \in FetchedFiles : g \in FetchedFiles'
      BY <1>1, <1>2, <1>4, <1>5 DEF View
    <2> QED
      BY <1>1, <2>1 DEF View
  <1> QED
    BY <1>2, <1>6, <1>7, <1>8, StoreFetch

\* What a worker does is a step of the store, or none.
LEMMA WorkStore ==
  ASSUME IInv, IInv', NEW w \in Worker, Work(w)
  PROVE  [Store!StoreNext]_(Store!store)
  <1>1. CASE UNCHANGED <<home, olds, leaving>>
    BY <1>1, Stutter
  <1>2. CASE NewStage(w) \/ Fetched(w) \/ Claim(w) \/ Spawn(w) \/ Update(w) \/ Stop(w)
    <2>1. UNCHANGED <<home, olds, leaving>>
      BY <1>2 DEF NewStage, Fetched, Claim, Spawn, Update, Stop, disk, history
    <2> QED
      BY <1>1, <2>1
  <1>3. CASE Install(w)
    <2>1. work[w].at = "place" /\ HasStaged(w) /\ olds' = olds
      BY <1>3 DEF Install, At, HasStaged, ToPlace
    <2>2. CASE home = {} /\ home' = {stages[Stage(w)]} /\ leaving' = FALSE
      BY <2>1, <2>2, NewInPlace
    <2>3. CASE home' = home /\ leaving' = leaving
      BY <1>1, <2>1, <2>3
    <2> QED
      BY <1>3, <2>2, <2>3 DEF Install
  <1>4. CASE Aside(w)
    BY <1>4, AsideStore
  <1>5. CASE Replace(w)
    BY <1>5, ReplaceStore
  <1>6. CASE CarryOver(w)
    <2>1. Stage(w) \in DOMAIN olds /\ home # {} /\ leaving' = leaving
      BY <1>6 DEF CarryOver, At, IInv, PlaceInv, PlaceAt, InPlace, history
    <2>2. CASE \E e \in ToCarry(olds[Stage(w)], TheHome) :
                 /\ home' = {Given(TheHome, e)}
                 /\ olds' = [olds EXCEPT ![Stage(w)] = Taken(@, e)]
      BY <2>1, <2>2, Moved
    <2>3. CASE UNCHANGED <<home, olds>>
      BY <1>1, <2>1, <2>3
    <2> QED
      BY <1>6, <2>2, <2>3 DEF CarryOver
  <1>7. CASE Drop(w)
    <2>1. /\ Stage(w) \in DOMAIN olds /\ home # {}
          /\ olds[Stage(w)].extra \subseteq TheHome.extra
      BY <1>7 DEF Drop, At, IInv, PlaceInv, PlaceAt, InPlace
    <2>2. home' = home /\ leaving' = leaving
      BY <1>7 DEF Drop, history
    <2>3. \/ olds' = Without(olds, Stage(w))
          \/ \E p \in Broken(olds[Stage(w)]) : olds' = [olds EXCEPT ![Stage(w)] = p]
      BY <1>7 DEF Drop
    <2> QED
      BY <2>1, <2>2, <2>3, Tidied
  <1>8. CASE Remove(w)
    BY <1>8, RemoveStore
  <1>9. CASE RemoveOlds(w)
    BY <1>9, RemoveOldsStore
  <1> QED
    BY <1>2, <1>3, <1>4, <1>5, <1>6, <1>7, <1>8, <1>9 DEF Work

\* What a start makes of work cut short is a step of the store, or none.
LEMMA StartStore ==
  ASSUME IInv, IInv', Start
  PROVE  [Store!StoreNext]_(Store!store)
  <1>1. CASE Boot \/ StartPackages \/ \E n \in Version : ClearStage(n)
    <2>1. UNCHANGED <<home, olds, leaving>>
      BY <1>1 DEF Boot, StartPackages, ClearStage, disk, history
    <2> QED
      BY <2>1, Stutter
  <1>2. ASSUME NEW n \in Version, PutBack(n) PROVE [Store!StoreNext]_(Store!store)
    <2>1. n \in DOMAIN olds /\ leaving' = leaving
      BY <1>2 DEF PutBack, IInv, DownInv, history
    <2>2. CASE UNCHANGED <<home, olds>>
      BY <2>1, <2>2, Stutter
    <2>3. CASE Readable(olds[n]) /\ home' = {olds[n]} /\ olds' = Without(olds, n)
      <3>1. home = {}
        BY <1>2, <2>3 DEF PutBack
      <3> QED
        BY <2>1, <2>3, <3>1, BackInPlace
    <2> QED
      BY <1>2, <2>2, <2>3 DEF PutBack
  <1>3. ASSUME NEW n \in Version, FinishUpdate(n) PROVE [Store!StoreNext]_(Store!store)
    <2> DEFINE left == ToCarry(olds[n], TheHome)
    <2>1. n \in DOMAIN olds /\ home # {} /\ leaving' = leaving
      BY <1>3 DEF FinishUpdate, IInv, DownInv, history
    <2>2. CASE UNCHANGED <<home, olds>>
      BY <2>1, <2>2, Stutter
    <2>3. CASE \E e \in left : /\ home' = {Given(TheHome, e)}
                               /\ olds' = [olds EXCEPT ![n] = Taken(@, e)]
      BY <2>1, <2>3, Moved
    <2>4. CASE /\ left = {} /\ home' = home
               /\ \/ olds' = Without(olds, n)
                  \/ \E p \in Broken(olds[n]) : olds' = [olds EXCEPT ![n] = p]
      <3>1. TheHome \in Package /\ olds[n] \in Package
        BY <2>1, InHome DEF IInv, TypeOK
      <3>2. olds[n].extra \subseteq TheHome.extra
        BY <2>4, <3>1, CarriedAll
      <3> QED
        BY <2>1, <2>4, <3>2, Tidied
    <2> QED
      BY <1>3, <2>2, <2>3, <2>4 DEF FinishUpdate
  <1> QED
    BY <1>1, <1>2, <1>3 DEF Start

\* Every step is.
LEMMA NextStore == IInv /\ IInv' /\ [Next]_vars => [Store!StoreNext]_(Store!store)
  <1> SUFFICES ASSUME IInv, IInv', [Next]_vars PROVE [Store!StoreNext]_(Store!store)
    OBVIOUS
  <1>1. CASE UNCHANGED <<home, olds, leaving>>
    BY <1>1, Stutter
  <1>2. ASSUME NEW w \in Worker, NEW op \in {"install", "url", "update", "uninstall"},
               Ask(w, op)
        PROVE  UNCHANGED <<home, olds, leaving>>
    BY <1>2 DEF Ask, disk, history
  <1>3. ASSUME NEW f \in File, Fetch(f) PROVE Store!StoreNext
    BY <1>3, FetchStore
  <1>4. Crash \/ UNCHANGED vars => UNCHANGED <<home, olds, leaving>>
    BY DEF Crash, disk, history, vars
  <1> QED
    BY <1>1, <1>2, <1>3, <1>4, WorkStore, StartStore DEF Next

\* Nothing is there at first.
LEMMA InitStore == Init => Store!StoreInit
  <1> SUFFICES ASSUME Init PROVE Store!StoreInit
    OBVIOUS
  <1>1. home = {} /\ ~InPlace /\ leaving = FALSE /\ olds = <<>>
    BY DEF Init, InPlace
  <1>2. ReadableOlds = {}
    BY <1>1 DEF ReadableOlds
  <1>3. VersionsAside = {} /\ UNION {olds[n].extra : n \in ReadableOlds} = {}
    BY <1>2 DEF VersionsAside
  <1>4. InstalledVersion = NoVersion
    BY <1>1, <1>2 DEF InstalledVersion
  <1> QED
    BY <1>1, <1>3, <1>4 DEF Store!StoreInit

\* Through failures, stops and starts a package is put in place in one step, an update
\* loses nothing the extension fetched, and an older version comes back only if one was
\* kept aside (update_package, finish_update, clear_staging, remove_old_versions).
THEOREM ImplementsStore == Spec => StoreKept
  <1>1. IInv /\ IInv' /\ [Next]_vars => [Store!StoreNext]_(Store!store)
    BY NextStore
  <1> QED
    BY <1>1, InitStore, Invariance, PTL DEF Spec, StoreKept, Store!StoreSpec
=============================================================================
