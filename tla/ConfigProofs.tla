---------------------------- MODULE ConfigProofs ----------------------------
(***************************************************************************)
(* Proofs about Config, for any files of settings and any number of        *)
(* changes, failures and stops: a file taken for read was read, a change   *)
(* answered with a write error that names no file which stays changed has  *)
(* left nothing, the core shows only changes that the files kept, and no   *)
(* save writes over an edit by hand that was not read.                     *)
(***************************************************************************)
EXTENDS Config, SequenceTheorems, WellFoundedInduction, TLAPS

\* A number says nothing, or is that of a change that is over and was kept, in part at
\* least; and the number of the change that is being made.
Settled(n) == n = 0 \/ fate[n] \in {"hand", "done", "torn", "refused"}
Goes(n) == Held /\ Saves(op.job) /\ n = op.n

\* Just the change whose job holds the lock is going on.
GoingInv ==
    /\ Held /\ Saves(op.job) => op.n \in Numbers
    /\ \A n \in Numbers : fate[n] = "going" <=> Goes(n)

\* What the files and the store mean is settled or going on; what the core was told, and
\* what a job would put back, is settled.
WrittenInv ==
    /\ \A f \in Files : /\ Settled(disk[f].means) \/ Goes(disk[f].means)
                        /\ Settled(part[f].value) \/ Goes(part[f].value)
                        /\ Settled(core[f])
    /\ Held /\ op.stage # "first" => Settled(op.previous.value)

\* How far a job is with its files: those it has still to look at, then those it prepared,
\* are some of its list, and all of it only as long as none is in place.
Listed == CASE op.stage = "first" -> op.job.list
            [] op.stage = "second" -> <<Secrets>>
            [] op.stage = "restore" -> <<op.job.list[1]>>
Left == Len(op.todo) + Len(op.prepared)
ListInv ==
    Held =>
        /\ op.list = Listed
        /\ op.at \in {"look", "read"} =>
             op.stage = "first" /\ op.todo = op.list /\ op.prepared = <<>> /\ ~op.landed
        /\ op.at = "prepare" => op.todo # <<>> /\ ~op.landed
        /\ op.at = "rename" => op.todo = <<>>
        /\ ToSet(op.todo) \subseteq ToSet(op.list)
        /\ ToSet(op.prepared) \subseteq ToSet(op.list)
        /\ Left <= Len(op.list) /\ (op.landed => Left < Len(op.list))

\* Where the change going on is already: nowhere before the first of its files is in
\* place, then in that one, and no longer there once it is put back.
First == op.job.list[1]
FarInv ==
    Held /\ Saves(op.job) =>
        /\ op.stage = "first" => \A f \in Files : part[f].value # op.n
        /\ op.stage # "first" => \A f \in Files \ {First} : part[f].value # op.n
        /\ op.stage = "first" =>
             \A f \in Files : disk[f].means = op.n => op.landed /\ f \in ToSet(op.list)
        /\ op.stage = "second" /\ ~op.landed => \A f \in Files \ {First} : disk[f].means # op.n
        /\ op.stage = "restore" =>
             \A f \in Files : disk[f].means = op.n =>
                                f = First /\ First \in ToSet(op.todo) \cup ToSet(op.prepared)

\* A file that is not there, or does not parse, says nothing.
TextInv == \A f \in Files : disk[f].kind \in {"absent", "broken"} => disk[f].means = 0

\* What the store remembers of a file under the look it has, and under that of no file.
LookInv ==
    \A f \in Files \ raced :
        /\ part[f].seen = "this" => part[f].value = disk[f].means
        /\ part[f].seen = "none" => part[f].value = 0

\* A file that was not there when it was looked at, and that will be read, or be written
\* unread, is still not there.
ReadInv ==
    Held /\ op.at = "read" =>
        \A f \in Files \ raced :
            op.seen[f] = "none" /\ (f \in Writes(op.job) \/ (f \in op.changed /\ ~Unlisted(f)))
                => disk[f].kind = "absent"

\* The edits by hand that a job may write over were read.
Fresh(f) == disk[f].kind = "hand" => part[f].value = disk[f].means
FreshInv ==
    Held /\ op.at # "look" =>
        \A f \in Writes(op.job) \ raced : (op.at = "read" /\ f \in op.changed) \/ Fresh(f)

\* What a job has done with its files is as it left it.
SavedInv ==
    Held /\ op.at \in {"prepare", "rename"} =>
        \A f \in ToSet(op.list) \ raced :
            f \in ToSet(op.todo) \cup ToSet(op.prepared) \/ disk[f] = Ours(Want(f))

IInv ==
    /\ TypeOK /\ GoingInv /\ WrittenInv /\ ListInv /\ FarInv
    /\ TextInv /\ LookInv /\ ReadInv /\ FreshInv /\ SavedInv

-----------------------------------------------------------------------------
\* The next change has a number of its own, as long as one is left.
LEMMA NextNumberOK ==
  ASSUME Unmade # {}
  PROVE  NextNumber \in Numbers /\ fate[NextNumber] = "none"
  <1>1. Unmade \subseteq Nat
    BY ConfigAssumption DEF Unmade, Numbers
  <1> DEFINE R == OpToRel(<, Nat)
  <1>2. IsWellFoundedOn(R, Nat) /\ \A m, n \in Nat : m < n => <<m, n>> \in R
    BY NatLessThanWellFounded DEF OpToRel
  <1> HIDE DEF R
  <1>3. \E n \in Unmade : \A m \in Unmade : ~(<<m, n>> \in R)
    <2>1. IsWellFoundedOn(R, Nat)
      BY <1>2
    <2>2. \A T : T \subseteq Nat /\ T # {} => \E x \in T : \A y \in T : ~(<<y, x>> \in R)
      BY <2>1, WFMin
    <2> QED
      BY <1>1, <2>2
  <1>5. \E n \in Unmade : \A m \in Unmade : n <= m
    <2>1. PICK n \in Unmade : \A m \in Unmade : ~(<<m, n>> \in R)
      BY <1>3
    <2>2. ASSUME NEW m \in Unmade PROVE n <= m
      <3>1. m \in Nat /\ n \in Nat /\ ~(m < n)
        BY <1>1, <1>2, <2>1
      <3> QED
        BY <3>1
    <2> QED
      BY <2>1, <2>2
  <1>4. NextNumber \in Unmade
    BY <1>5 DEF NextNumber
  <1> QED
    BY <1>4 DEF Unmade

\* What the lock is taken for has a list of files, all of them written by a job that
\* saves; a pair's list is its first file.
LEMMA JobOK ==
  ASSUME NEW job \in Jobs
  PROVE  /\ job.list \in Seq(Files) /\ job.for \subseteq Files
         /\ job.kind \in {"watch", "read", "edit", "forget", "one", "pair"}
         /\ Saves(job) => job.list # <<>> /\ Writes(job) = ToSet(job.list) \cup job.for
         /\ ~Saves(job) => Writes(job) = {}
         /\ job.kind = "pair" =>
              /\ Len(job.list) = 1 /\ job.list[1] \in Files /\ job.list[1] \in ToSet(job.list)
              /\ Secrets \in job.for
  <1> USE DEF Saves, Writes, Files, InSettings, ToSet
  <1>1. CASE job \in [kind : {"watch", "read"}, list : {<<>>}, for : {{}}]
    <2>1. job.kind \in {"watch", "read"} /\ job.list = <<>> /\ job.for = {}
      BY <1>1
    <2> QED
      BY <2>1
  <1>2. CASE job \in [kind : {"edit", "forget"}, list : {Settings}, for : SUBSET InSettings]
    <2>1. Settings \in Seq(Files) /\ Settings # <<>>
      <3>1. Settings \in Seq({Settings[i] : i \in DOMAIN Settings}) /\ Settings # <<>>
        BY ConfigAssumption
      <3>2. \A i \in 1..Len(Settings) : Settings[i] \in Files
        BY <3>1
      <3> QED
        BY <3>1, <3>2
    <2> QED
      BY <1>2, <2>1
  <1>3. CASE job \in {[kind |-> "one", list |-> <<f>>, for |-> {f}] :
                        f \in {Extension, Users, Secrets}}
    <2>1. PICK f \in {Extension, Users, Secrets} :
                 job = [kind |-> "one", list |-> <<f>>, for |-> {f}]
      BY <1>3
    <2>2. /\ job.list = <<f>> /\ f \in Files /\ DOMAIN job.list = {1} /\ job.list \in Seq(Files)
          /\ job.list # <<>> /\ job.for = {f} /\ job.kind = "one"
      BY <2>1
    <2> QED
      BY <2>2
  <1>4. CASE job \in {[kind |-> "pair", list |-> <<f>>, for |-> {f, Secrets}] :
                        f \in {Extension, Users}}
    <2>1. PICK f \in {Extension, Users} :
                 job = [kind |-> "pair", list |-> <<f>>, for |-> {f, Secrets}]
      BY <1>4
    <2>2. /\ job.list = <<f>> /\ Len(job.list) = 1 /\ job.list[1] = f /\ f \in Files
          /\ DOMAIN job.list = {1} /\ job.list \in Seq(Files) /\ job.for = {f, Secrets}
          /\ job.kind = "pair"
      BY <2>1
    <2> QED
      BY <2>2
  <1> QED
    BY <1>1, <1>2, <1>3, <1>4 DEF Jobs

\* The lock is taken with nothing done yet, under a number no change has had.
LEMMA BeginIInv ==
  ASSUME IInv, NEW job \in Jobs, Begin(job)
  PROVE  IInv'
  <1> DEFINE m == IF Saves(job) THEN NextNumber ELSE 0
  <1>1. /\ m \in Meanings /\ (Saves(job) => m \in Numbers /\ m # 0 /\ fate[m] = "none")
        /\ ~Held /\ up /\ op' = Opened(job, m)
        /\ fate' = (IF Saves(job) THEN [fate EXCEPT ![m] = "going"] ELSE fate)
        /\ UNCHANGED <<disk, part, core, up, raced, faults, crashes>>
    BY NextNumberOK, ConfigAssumption DEF Begin, Numbers, Meanings
  <1> HIDE DEF m
  <1>2. /\ Held' /\ op'.at = "look" /\ op'.job = job /\ op'.n = m /\ op'.stage = "first"
        /\ op'.list = job.list /\ op'.todo = job.list /\ op'.prepared = <<>>
        /\ op'.landed = FALSE
    BY <1>1 DEF Opened, Held, Idle
  <1>3. TypeOK'
    <2>1. op' \in Operation
      BY <1>1, JobOK, ConfigAssumption DEF Opened, Operation, Places, NoLooks, Part, Meanings
    <2>2. fate' \in [Numbers -> Fates]
      BY <1>1 DEF IInv, TypeOK, Fates
    <2> QED
      BY <1>1, <1>2, <2>1, <2>2 DEF IInv, TypeOK
  <1>4. GoingInv'
    BY <1>1, <1>2 DEF IInv, TypeOK, GoingInv, Goes, Saves
  <1>5. WrittenInv'
    <2>1. \A n : Settled(n) => Settled(n)'
      BY <1>1 DEF IInv, TypeOK, Settled
    <2>2. \A n : ~Goes(n)
      BY <1>1 DEF Goes
    <2> QED
      BY <1>1, <1>2, <2>1, <2>2 DEF IInv, WrittenInv
  <1>6. ListInv'
    BY <1>1, <1>2, JobOK DEF ListInv, Listed, Left, ToSet
  <1>7. FarInv'
    <2>1. ASSUME Saves(job), NEW f \in Files
          PROVE  part[f].value # m /\ disk[f].means # m
      BY <1>1, <2>1 DEF IInv, WrittenInv, Settled, Goes
    <2> QED
      BY <1>1, <1>2, <2>1 DEF FarInv
  <1>8. TextInv' /\ LookInv'
    BY <1>1 DEF IInv, TextInv, LookInv
  <1>9. ReadInv' /\ FreshInv' /\ SavedInv'
    BY <1>2 DEF ReadInv, FreshInv, SavedInv
  <1> QED
    BY <1>3, <1>4, <1>5, <1>6, <1>7, <1>8, <1>9 DEF IInv

\* The look leaves out what the store has read under the look it still has.
LEMMA ReloadLookIInv == IInv /\ ReloadLook => IInv'
  <1> SUFFICES ASSUME IInv, ReloadLook PROVE IInv'
    OBVIOUS
  <1>0. Held /\ op \in Operation /\ op.at = "look"
    BY DEF IInv, TypeOK, ReloadLook
  <1>1. /\ op' \in Operation /\ op'.at = "read" /\ op'.job = op.job /\ op'.n = op.n
        /\ op'.stage = op.stage /\ op'.list = op.list /\ op'.todo = op.todo
        /\ op'.prepared = op.prepared /\ op'.landed = op.landed
        /\ op'.previous = op.previous
        /\ op'.changed = {f \in Files : ~Unchanged(f)}
        /\ op'.seen = [f \in Files |-> look(f)]
    BY <1>0 DEF ReloadLook, Operation, Places, look
  <1>2. Held' /\ UNCHANGED <<disk, part, core, up, fate, raced, faults, crashes>>
    BY <1>1 DEF ReloadLook, Held, Idle
  <1>3. TypeOK'
    BY <1>0, <1>1, <1>2 DEF IInv, TypeOK
  <1>4. GoingInv'
    BY <1>0, <1>1, <1>2 DEF IInv, GoingInv, Goes
  <1>5. WrittenInv'
    BY <1>0, <1>1, <1>2 DEF IInv, WrittenInv, Goes, Settled
  <1>6. ListInv'
    BY <1>0, <1>1, <1>2 DEF IInv, ListInv, Listed, Left
  <1>7. FarInv'
    BY <1>0, <1>1, <1>2 DEF IInv, FarInv, First
  <1>8. TextInv' /\ LookInv'
    BY <1>2 DEF IInv, TextInv, LookInv
  <1>9. ReadInv'
    <2>1. ASSUME NEW f \in Files, op'.seen[f] = "none" PROVE disk'[f].kind = "absent"
      BY <1>1, <1>2, <2>1 DEF look
    <2> QED
      BY <2>1 DEF ReadInv
  <1>10. FreshInv'
    <2>1. ASSUME NEW f \in Files \ raced, f \notin op'.changed PROVE Fresh(f)'
      BY <1>1, <1>2, <2>1 DEF IInv, LookInv, Fresh, Unchanged, look
    <2>2. Writes(op'.job) \subseteq Files
      BY <1>1, JobOK DEF Operation, Writes, ToSet
    <2> QED
      BY <1>1, <1>2, <2>1, <2>2 DEF FreshInv
  <1>11. SavedInv'
    BY <1>1 DEF SavedInv
  <1> QED
    BY <1>3, <1>4, <1>5, <1>6, <1>7, <1>8, <1>9, <1>10, <1>11 DEF IInv

\* What a reload makes of the store (reload_one, reload_extensions): meanings that are in
\* use, none of the change going on, each under its own look and, where a save follows,
\* the edits by hand read.
LEMMA ReloadedOK ==
  ASSUME IInv, Held, op.at = "read"
  PROVE  /\ Reloaded \in [Files -> Part]
         /\ \A f \in Files : Settled(Reloaded[f].value) \/ Goes(Reloaded[f].value)
         /\ Saves(op.job) => \A f \in Files : Reloaded[f].value # op.n
         /\ \A f \in Files \ (raced \ ReadAgain) :
              /\ Reloaded[f].seen = "this" => Reloaded[f].value = disk[f].means
              /\ Reloaded[f].seen = "none" => Reloaded[f].value = 0
         /\ \A f \in Writes(op.job) \ (raced \ ReadAgain) :
              disk[f].kind = "hand" => Reloaded[f].value = disk[f].means
  <1>0. /\ op \in Operation /\ disk \in [Files -> Texts] /\ part \in [Files -> Part]
        /\ op.seen \in [Files -> {"none", "this", "other"}]
        /\ op.changed \subseteq Files /\ op.job \in Jobs
        /\ op.stage = "first" /\ ~op.landed /\ Writes(op.job) \subseteq Files
    <2>1. op \in Operation /\ disk \in [Files -> Texts] /\ part \in [Files -> Part]
      BY DEF IInv, TypeOK
    <2>2. op.stage = "first" /\ ~op.landed
      BY DEF IInv, ListInv
    <2>3. /\ op.seen \in [Files -> {"none", "this", "other"}]
          /\ op.changed \subseteq Files /\ op.job \in Jobs
      BY <2>1 DEF Operation
    <2> QED
      BY <2>1, <2>2, <2>3, JobOK DEF Writes, ToSet
  <1>1. ASSUME NEW f \in Files
        PROVE  \/ Reloaded[f] = part[f] /\ (f \notin op.changed \/ ~Unlisted(f))
                    /\ (f \in op.changed => ~Reads(f))
               \/ Reloaded[f] = [value |-> 0, seen |-> "none"] /\ f \in op.changed /\ Unlisted(f)
               \/ Reloaded[f] = [value |-> disk[f].means, seen |-> op.seen[f]]
                    /\ f \in op.changed /\ Reads(f) /\ ~Unlisted(f)
    BY DEF Reloaded, EmptyParts
  <1>2. ASSUME NEW f \in Files
        PROVE  /\ Reloaded[f] \in Part
               /\ Reloaded[f].value \in {0, part[f].value, disk[f].means}
    <2>1. part[f] \in Part /\ disk[f].means \in Meanings /\ 0 \in Meanings
      BY <1>0, ConfigAssumption DEF Texts, Meanings
    <2>2. op.seen[f] \in {"none", "this", "other"}
      BY <1>0
    <2>3. \/ Reloaded[f] = part[f]
          \/ Reloaded[f] = [value |-> 0, seen |-> "none"]
          \/ Reloaded[f] = [value |-> disk[f].means, seen |-> op.seen[f]]
      BY <1>1
    <2> QED
      BY <2>1, <2>2, <2>3 DEF Part
  <1>3. Reloaded \in [Files -> Part]
    BY <1>2 DEF Reloaded
  <1>4. \A f \in Files : Settled(Reloaded[f].value) \/ Goes(Reloaded[f].value)
    BY <1>2 DEF IInv, WrittenInv, Settled
  <1>5. ASSUME Saves(op.job), NEW f \in Files PROVE Reloaded[f].value # op.n
    <2>1. op.n # 0
      BY <1>5, ConfigAssumption DEF IInv, GoingInv, Numbers
    <2> QED
      BY <1>0, <1>2, <1>5, <2>1 DEF IInv, FarInv
  <1>6. ASSUME NEW f \in Files \ (raced \ ReadAgain)
        PROVE  /\ Reloaded[f].seen = "this" => Reloaded[f].value = disk[f].means
               /\ Reloaded[f].seen = "none" => Reloaded[f].value = 0
    <2>1. CASE Reloaded[f] = part[f] /\ (f \in op.changed => ~Reads(f) /\ ~Unlisted(f))
      BY <2>1 DEF IInv, LookInv, ReadAgain
    <2>2. CASE Reloaded[f] = [value |-> disk[f].means, seen |-> op.seen[f]]
                 /\ f \in op.changed /\ ~Unlisted(f)
      <3>1. op.seen[f] = "none" => disk[f].kind = "absent"
        BY <2>2 DEF IInv, ReadInv, ReadAgain
      <3> QED
        BY <2>2, <3>1 DEF IInv, TextInv
    <2> QED
      BY <1>1, <2>1, <2>2
  <1>7. ASSUME NEW f \in Writes(op.job) \ (raced \ ReadAgain), disk[f].kind = "hand"
        PROVE  Reloaded[f].value = disk[f].means
    <2>1. f \in Files
      BY <1>0
    <2>2. f \in op.changed => Reads(f) /\ ~Unlisted(f)
      <3>1. Reads(f)
        BY <1>7 DEF Reads, Readable
      <3>2. CASE f \in op.changed /\ Unlisted(f)
        BY <1>0, <1>7, <2>1, <3>2 DEF IInv, ReadInv, ReadAgain, Unlisted
      <3> QED
        BY <3>1, <3>2
    <2>3. CASE f \notin op.changed
      <3>1. f \notin raced /\ Reloaded[f] = part[f]
        BY <1>1, <1>7, <2>1, <2>3 DEF ReadAgain
      <3>2. op.at # "look"
        OBVIOUS
      <3> QED
        BY <1>7, <2>3, <3>1, <3>2 DEF IInv, FreshInv, Fresh
    <2>4. CASE f \in op.changed
      <3>1. Reloaded[f] = [value |-> disk[f].means, seen |-> op.seen[f]]
        BY <1>1, <2>1, <2>2, <2>4
      <3> QED
        BY <3>1
    <2> QED
      BY <2>3, <2>4
  <1> QED
    BY <1>3, <1>4, <1>5, <1>6, <1>7

\* Dropping the lock with no change going on leaves nothing to account for.
LEMMA IdleIInv ==
  ASSUME op' = Idle
  PROVE  /\ ~Held' /\ ListInv' /\ FarInv' /\ ReadInv' /\ FreshInv' /\ SavedInv'
  BY DEF Held, ListInv, FarInv, ReadInv, FreshInv, SavedInv

\* A reload ends with the core told, a reader answered or an edit at its change.
LEMMA ReloadReadIInv == IInv /\ ReloadRead => IInv'
  <1> SUFFICES ASSUME IInv, ReloadRead PROVE IInv'
    OBVIOUS
  <1>0. /\ Held /\ op.at = "read" /\ op \in Operation /\ part' = Reloaded
        /\ raced' = raced \ ReadAgain /\ raced' \subseteq Files
        /\ UNCHANGED <<disk, up, fate, faults, crashes>>
    BY DEF IInv, TypeOK, ReloadRead
  <1>1. \/ op' = Idle /\ ~Saves(op.job)
        \/ Saves(op.job) /\ core' = core
             /\ op' = [op EXCEPT !.at = "prepare", !.changed = {}, !.seen = NoLooks]
    BY DEF ReloadRead, Saves
  <1>2. \A n : Settled(n)' <=> Settled(n)
    BY <1>0 DEF Settled
  <1>3. /\ core' \in [Files -> Meanings] /\ \A f \in Files : Settled(core'[f])
    <2>1. CASE core' = core
      BY <2>1 DEF IInv, TypeOK, WrittenInv
    <2>2. CASE op.job.kind = "watch" /\ Tell(Reloaded, Files)
      <3>1. ~Saves(op.job) /\ core' = [f \in Files |-> Reloaded[f].value]
        BY <2>2 DEF Saves, Tell
      <3> QED
        BY <1>0, <3>1, ReloadedOK DEF Goes, Part
    <2> QED
      BY <2>1, <2>2 DEF ReloadRead
  <1>4. TextInv' /\ LookInv'
    BY <1>0, ReloadedOK DEF IInv, TextInv, LookInv
  <1>5. CASE op' = Idle /\ ~Saves(op.job)
    <2>1. TypeOK'
      BY <1>0, <1>3, <1>5, IdleIInv, ReloadedOK DEF IInv, TypeOK
    <2>2. GoingInv'
      BY <1>0, <1>5, IdleIInv DEF IInv, GoingInv, Goes
    <2>3. WrittenInv'
      BY <1>0, <1>2, <1>3, <1>5, IdleIInv, ReloadedOK DEF IInv, WrittenInv, Goes
    <2> QED
      BY <1>4, <1>5, <2>1, <2>2, <2>3, IdleIInv DEF IInv
  <1>6. CASE /\ Saves(op.job) /\ core' = core
             /\ op' = [op EXCEPT !.at = "prepare", !.changed = {}, !.seen = NoLooks]
    <2>1. /\ op' \in Operation /\ op'.at = "prepare" /\ op'.job = op.job /\ op'.n = op.n
          /\ op'.stage = op.stage /\ op'.list = op.list /\ op'.todo = op.todo
          /\ op'.prepared = op.prepared /\ op'.landed = op.landed
          /\ op'.previous = op.previous
      BY <1>0, <1>6 DEF Operation, Places, NoLooks
    <2>2. Held'
      BY <2>1 DEF Held, Idle
    <2>3. op.list = op.job.list /\ op.todo = op.list /\ op.prepared = <<>> /\ ~op.landed
          /\ op.stage = "first"
      BY <1>0 DEF IInv, ListInv, Listed
    <2>4. TypeOK'
      BY <1>0, <1>3, <1>6, <2>1, <2>2, ReloadedOK DEF IInv, TypeOK
    <2>5. GoingInv'
      BY <1>0, <1>6, <2>1, <2>2 DEF IInv, GoingInv, Goes
    <2>6. WrittenInv'
      BY <1>0, <1>2, <1>3, <1>6, <2>1, <2>2, ReloadedOK DEF IInv, WrittenInv, Goes
    <2>7. ListInv'
      <3>1. op.job.list # <<>>
        BY <1>0, <1>6, JobOK DEF Operation
      <3> QED
        BY <1>0, <2>1, <2>2, <2>3, <3>1 DEF IInv, ListInv, Listed, Left
    <2>8. FarInv'
      BY <1>0, <1>6, <2>1, <2>2, <2>3, ReloadedOK DEF IInv, FarInv
    <2>9. ReadInv'
      BY <2>1 DEF ReadInv
    <2>10. FreshInv'
      BY <1>0, <2>1, <2>2, ReloadedOK DEF FreshInv, Fresh
    <2>11. SavedInv'
      BY <2>1, <2>3 DEF SavedInv
    <2> QED
      BY <1>4, <2>4, <2>5, <2>6, <2>7, <2>8, <2>9, <2>10, <2>11 DEF IInv
  <1> QED
    BY <1>1, <1>5, <1>6

\* The files of a list are its first one and those of the rest.
LEMMA FirstAndRest ==
  ASSUME NEW S, NEW s \in Seq(S), s # <<>>
  PROVE  /\ Head(s) \in S /\ Tail(s) \in Seq(S) /\ Len(Tail(s)) = Len(s) - 1
         /\ Len(s) = 1 <=> Tail(s) = <<>>
         /\ ToSet(s) = {Head(s)} \cup ToSet(Tail(s))
  <1>1. /\ Len(s) \in Nat /\ Len(s) > 0 /\ Head(s) = s[1] /\ s[1] \in S
        /\ Tail(s) \in Seq(S) /\ Len(Tail(s)) = Len(s) - 1
        /\ \A i \in 1..Len(Tail(s)) : Tail(s)[i] = s[i + 1]
        /\ DOMAIN Tail(s) = 1..Len(Tail(s))
    OBVIOUS
  <1>5. Len(s) = 1 <=> Tail(s) = <<>>
    <2>1. Tail(s) # <<>> => Len(Tail(s)) \in Nat \ {0}
      BY <1>1, EmptySeq
    <2>2. Tail(s) = <<>> => Len(Tail(s)) = 0
      BY EmptySeq
    <2> QED
      BY <1>1, <2>1, <2>2
  <1>2. ASSUME NEW x \in ToSet(s) PROVE x \in {Head(s)} \cup ToSet(Tail(s))
    <2>1. PICK i \in 1..Len(s) : x = s[i]
      BY <1>2 DEF ToSet
    <2>2. CASE i # 1
      <3>1. PICK j \in 1..Len(Tail(s)) : Tail(s)[j] = s[i]
        <4>1. i - 1 \in 1..Len(Tail(s)) /\ Tail(s)[i - 1] = s[i - 1 + 1] /\ i - 1 + 1 = i
          BY <1>1, <2>2
        <4> QED
          BY <4>1
      <3>2. x \in ToSet(Tail(s))
        BY <1>1, <2>1, <3>1 DEF ToSet
      <3> QED
        BY <3>2
    <2> QED
      BY <1>1, <2>1, <2>2
  <1>3. ASSUME NEW x \in ToSet(Tail(s)) PROVE x \in ToSet(s)
    <2>1. PICK i \in 1..Len(Tail(s)) : x = Tail(s)[i]
      BY <1>1, <1>3 DEF ToSet
    <2>2. i + 1 \in 1..Len(s) /\ x = s[i + 1]
      BY <1>1, <2>1
    <2> QED
      BY <1>1, <2>2 DEF ToSet
  <1>4. Head(s) \in ToSet(s)
    BY <1>1 DEF ToSet
  <1> QED
    BY <1>1, <1>2, <1>3, <1>4, <1>5

\* What was put at the end of a list is its only new file.
LEMMA OneMore ==
  ASSUME NEW S, NEW s \in Seq(S), NEW x \in S
  PROVE  /\ Append(s, x) \in Seq(S) /\ Len(Append(s, x)) = Len(s) + 1
         /\ ToSet(Append(s, x)) = ToSet(s) \cup {x}
  <1>1. /\ Append(s, x) \in Seq(S) /\ Len(Append(s, x)) = Len(s) + 1 /\ Len(s) \in Nat
        /\ \A i \in 1..Len(s) : Append(s, x)[i] = s[i]
        /\ Append(s, x)[Len(s) + 1] = x
    OBVIOUS
  <1>2. ASSUME NEW y \in ToSet(Append(s, x)) PROVE y \in ToSet(s) \cup {x}
    <2>1. PICK i \in 1..(Len(s) + 1) : y = Append(s, x)[i]
      BY <1>1, <1>2 DEF ToSet
    <2> QED
      BY <1>1, <2>1 DEF ToSet
  <1>3. ASSUME NEW y \in ToSet(s) PROVE y \in ToSet(Append(s, x))
    <2>1. PICK i \in 1..Len(s) : y = s[i]
      BY <1>3 DEF ToSet
    <2>2. i \in 1..Len(Append(s, x)) /\ Append(s, x)[i] = y
      BY <1>1, <2>1
    <2> QED
      BY <1>1, <2>2 DEF ToSet
  <1>4. x \in ToSet(Append(s, x))
    BY <1>1 DEF ToSet
  <1> QED
    BY <1>1, <1>2, <1>3, <1>4

\* A file is prepared, or found to be already what it would be.
LEMMA PrepareIInv == IInv /\ Prepare => IInv'
  <1> SUFFICES ASSUME IInv, Prepare PROVE IInv'
    OBVIOUS
  <1> DEFINE f == Head(op.todo)
  <1>0. /\ Held /\ op.at = "prepare" /\ op \in Operation /\ Saves(op.job)
        /\ op.todo \in Seq(Files) /\ op.prepared \in Seq(Files) /\ op.todo # <<>>
        /\ op.stage # "first" => op.job.kind = "pair"
        /\ UNCHANGED <<disk, part, core, up, fate, raced, faults, crashes>>
    BY DEF IInv, TypeOK, ListInv, Prepare, Operation
  <1>1. /\ f \in Files /\ Tail(op.todo) \in Seq(Files) /\ Len(Tail(op.todo)) = Len(op.todo) - 1
        /\ Len(op.todo) = 1 <=> Tail(op.todo) = <<>>
        /\ ToSet(op.todo) = {f} \cup ToSet(Tail(op.todo))
    BY <1>0, FirstAndRest
  <1>2. /\ Append(op.prepared, f) \in Seq(Files)
        /\ Len(Append(op.prepared, f)) = Len(op.prepared) + 1
        /\ ToSet(Append(op.prepared, f)) = ToSet(op.prepared) \cup {f}
    BY <1>0, <1>1, OneMore
  <1>3. /\ op' \in Operation /\ op'.job = op.job /\ op'.n = op.n /\ op'.stage = op.stage
        /\ op'.list = op.list /\ op'.landed = op.landed /\ op'.previous = op.previous
        /\ op'.todo = Tail(op.todo)
        /\ op'.at = (IF Len(op.todo) = 1 THEN "rename" ELSE "prepare")
    BY <1>0, <1>1, <1>2 DEF Prepare, Operation, Places
  <1>4. \/ disk[f] = Ours(Want(f)) /\ op'.prepared = op.prepared
        \/ op'.prepared = Append(op.prepared, f)
    BY <1>0 DEF Prepare, Operation
  <1> HIDE DEF f
  <1>5. Held'
    BY <1>3 DEF Held, Idle, Places, Operation
  <1>6. TypeOK'
    BY <1>0, <1>3, <1>5 DEF IInv, TypeOK
  <1>7. GoingInv'
    BY <1>0, <1>3, <1>5 DEF IInv, GoingInv, Goes
  <1>8. WrittenInv'
    BY <1>0, <1>3, <1>5 DEF IInv, WrittenInv, Goes, Settled
  <1>9. ListInv'
    <2> DEFINE a == Len(op.todo)
               b == Len(op.prepared)
               c == Len(op.list)
               a1 == Len(op'.todo)
               b1 == Len(op'.prepared)
    <2>1. a \in Nat /\ a > 0 /\ b \in Nat /\ c \in Nat
      BY <1>0 DEF Operation
    <2>2. a + b <= c /\ ~op.landed
      BY <1>0 DEF IInv, ListInv, Left
    <2>3. a1 = a - 1 /\ (b1 = b \/ b1 = b + 1)
      BY <1>1, <1>2, <1>3, <1>4
    <2> HIDE DEF a, b, c, a1, b1
    <2>4. /\ op'.at = "prepare" => op'.todo # <<>>
          /\ op'.at = "rename" => op'.todo = <<>>
      BY <1>1, <1>3
    <2>5. ToSet(op'.todo) \subseteq ToSet(op.list) /\ ToSet(op'.prepared) \subseteq ToSet(op.list)
      BY <1>0, <1>1, <1>2, <1>3, <1>4 DEF IInv, ListInv
    <2>6. op.list = Listed /\ Listed' = Listed
      BY <1>0, <1>3 DEF IInv, ListInv, Listed
    <2>7. Left' <= Len(op.list)
      <3>1. a1 + b1 <= c
        BY <2>1, <2>2, <2>3
      <3> QED
        BY <3>1 DEF Left, a1, b1, c
    <2>8. op'.at \in {"prepare", "rename"}
      BY <1>3
    <2> QED
      BY <1>3, <2>2, <2>4, <2>5, <2>6, <2>7, <2>8 DEF ListInv
  <1>10. FarInv'
    <2>1. op.stage = "restore" => (disk[f] = Ours(Want(f)) => disk[f].means # op.n)
      <3>1. op.stage = "restore" => Want(f) = op.previous.value
        BY DEF Want
      <3>2. op.stage = "restore" => op.previous.value # op.n
        BY <1>0, ConfigAssumption
           DEF IInv, WrittenInv, GoingInv, Settled, Goes, Numbers
      <3> QED
        BY <3>1, <3>2 DEF Ours
    <2>2. ASSUME op.stage = "restore", NEW g \in Files, disk[g].means = op.n
          PROVE  g = First /\ First \in ToSet(op'.todo) \cup ToSet(op'.prepared)
      <3>1. g = First /\ First \in ToSet(op.todo) \cup ToSet(op.prepared)
        BY <1>0, <2>2 DEF IInv, FarInv
      <3> QED
        BY <1>1, <1>2, <1>3, <1>4, <2>1, <2>2, <3>1
    <2> QED
      BY <1>0, <1>3, <2>2 DEF IInv, FarInv, First
  <1>11. TextInv' /\ LookInv'
    BY <1>0 DEF IInv, TextInv, LookInv
  <1>12. ReadInv'
    BY <1>3 DEF ReadInv
  <1>13. FreshInv'
    BY <1>0, <1>3, <1>5 DEF IInv, FreshInv, Fresh
  <1>14. SavedInv'
    <2>1. \A g : Want(g)' = Want(g)
      BY <1>0, <1>3 DEF Want
    <2>2. ASSUME NEW g \in ToSet(op.list) \ raced
          PROVE  g \in ToSet(op'.todo) \cup ToSet(op'.prepared) \/ disk[g] = Ours(Want(g))
      <3>1. g \in ToSet(op.todo) \cup ToSet(op.prepared) \/ disk[g] = Ours(Want(g))
        BY <1>0 DEF IInv, SavedInv
      <3> QED
        BY <1>1, <1>2, <1>3, <1>4, <3>1
    <2> QED
      BY <1>0, <1>3, <2>1, <2>2 DEF SavedInv
  <1> QED
    BY <1>6, <1>7, <1>8, <1>9, <1>10, <1>11, <1>12, <1>13, <1>14 DEF IInv

\* What a job writes of a file is the change it is for, or what was known before; a list
\* has only files that the job writes.
LEMMA WantOK ==
  ASSUME IInv, Held, Saves(op.job)
  PROVE  /\ op.n \in Numbers /\ op.n # 0 /\ ~Settled(op.n) /\ fate[op.n] = "going"
         /\ op.list \in Seq(Files) /\ ToSet(op.list) \subseteq Writes(op.job)
         /\ Writes(op.job) \subseteq Files
         /\ op.stage # "first" => op.previous.value # op.n
         /\ op.stage # "first" \/ op.job.kind = "pair" =>
              First \in Files /\ ToSet(<<First>>) = {First}
         /\ \A f \in Files : /\ Want(f) \in Meanings
                             /\ Settled(Want(f)) \/ Want(f) = op.n
                             /\ op.stage = "restore" => Settled(Want(f)) /\ Want(f) # op.n
  <1>1. op \in Operation /\ part \in [Files -> Part] /\ op.job \in Jobs
    BY DEF IInv, TypeOK, Operation
  <1>2. op.n \in Numbers /\ op.n # 0 /\ fate[op.n] = "going"
    BY ConfigAssumption DEF IInv, GoingInv, Goes, Numbers
  <1>3. ~Settled(op.n)
    BY <1>2 DEF Settled
  <1>4. op.stage # "first" => Settled(op.previous.value) /\ op.previous.value # op.n
    BY <1>3 DEF IInv, WrittenInv
  <1>5. op.list \in Seq(Files) /\ op.list = Listed /\ (op.stage # "first" => op.job.kind = "pair")
    BY <1>1 DEF IInv, TypeOK, ListInv, Operation
  <1>6. /\ op.job.kind = "pair" => First \in Files /\ First \in ToSet(op.job.list)
        /\ op.job.kind = "pair" => Secrets \in op.job.for
        /\ Writes(op.job) = ToSet(op.job.list) \cup op.job.for /\ Writes(op.job) \subseteq Files
    <2>1. ToSet(op.job.list) \subseteq Files
      BY <1>1, JobOK DEF ToSet
    <2> QED
      BY <1>1, <2>1, JobOK DEF First
  <1>7. \A x : ToSet(<<x>>) = {x}
    <2>1. \A x : DOMAIN <<x>> = {1} /\ <<x>>[1] = x
      OBVIOUS
    <2> QED
      BY <2>1 DEF ToSet
  <1>8. ToSet(op.list) \subseteq Writes(op.job)
    <2>1. CASE op.stage = "first"
      BY <1>5, <1>6, <2>1 DEF Listed
    <2>2. CASE op.stage = "second"
      BY <1>5, <1>6, <1>7, <2>2 DEF Listed
    <2>3. CASE op.stage = "restore"
      BY <1>5, <1>6, <1>7, <2>3 DEF Listed, First
    <2> QED
      BY <1>1, <2>1, <2>2, <2>3 DEF Operation
  <1>9. ASSUME NEW f \in Files
        PROVE  /\ Want(f) \in Meanings
               /\ Settled(Want(f)) \/ Want(f) = op.n
               /\ op.stage = "restore" => Settled(Want(f)) /\ Want(f) # op.n
    <2>1. /\ op.previous.value \in Meanings /\ op.n \in Meanings /\ part[f].value \in Meanings
          /\ Settled(part[f].value) \/ part[f].value = op.n
      BY <1>1 DEF Operation, Part, IInv, WrittenInv, Goes
    <2> QED
      BY <1>4, <2>1 DEF Want
  <1> QED
    BY <1>2, <1>3, <1>4, <1>5, <1>6, <1>7, <1>8, <1>9

\* A file renamed into place means what the job wants, and the store has it to read.
LEMMA RenameIInv == IInv /\ Rename => IInv'
  <1> SUFFICES ASSUME IInv, Rename PROVE IInv'
    OBVIOUS
  <1> DEFINE f == Head(op.prepared)
  <1>0. /\ Held /\ op.at = "rename" /\ op \in Operation /\ Saves(op.job)
        /\ op.prepared \in Seq(Files) /\ op.prepared # <<>> /\ op.todo = <<>>
        /\ op.stage # "first" => op.job.kind = "pair"
        /\ disk \in [Files -> Texts] /\ part \in [Files -> Part]
        /\ UNCHANGED <<core, up, fate, raced, faults, crashes>>
    BY DEF IInv, TypeOK, ListInv, Rename, Operation
  <1>1. /\ f \in Files /\ Tail(op.prepared) \in Seq(Files)
        /\ Len(Tail(op.prepared)) = Len(op.prepared) - 1
        /\ ToSet(op.prepared) = {f} \cup ToSet(Tail(op.prepared))
    BY <1>0, FirstAndRest
  <1>2. /\ op' \in Operation /\ op'.at = op.at /\ op'.job = op.job /\ op'.n = op.n
        /\ op'.stage = op.stage /\ op'.list = op.list /\ op'.previous = op.previous
        /\ op'.todo = op.todo /\ op'.prepared = Tail(op.prepared) /\ op'.landed = TRUE
    BY <1>0, <1>1 DEF Rename, Operation
  <1>3. /\ disk'[f] = Ours(Want(f)) /\ \A g \in Files : g # f => disk'[g] = disk[g]
        /\ part'[f].seen = Stale(part[f].seen)
        /\ \A g \in Files : part'[g].value = part[g].value /\ (g # f => part'[g] = part[g])
        /\ part' \in [Files -> Part]
    BY <1>0, <1>1 DEF Rename, Part, Stale
  <1>4. disk' \in [Files -> Texts]
    BY <1>0, <1>1, WantOK DEF Rename, Texts, Ours
  <1> HIDE DEF f
  <1>5. Held' /\ \A g \in Files : Want(g)' = Want(g)
    BY <1>0, <1>2, <1>3 DEF Held, Idle, Want
  <1>6. TypeOK'
    BY <1>0, <1>2, <1>3, <1>4, <1>5 DEF IInv, TypeOK
  <1>7. GoingInv'
    BY <1>0, <1>2, <1>5 DEF IInv, GoingInv, Goes
  <1>8. WrittenInv'
    <2>1. \A n : (Settled(n)' <=> Settled(n)) /\ (Goes(n)' <=> Goes(n))
      BY <1>0, <1>2, <1>5 DEF Settled, Goes
    <2>2. Settled(disk'[f].means) \/ Goes(disk'[f].means)
      BY <1>0, <1>1, <1>3, WantOK DEF Ours, Goes
    <2> QED
      BY <1>0, <1>2, <1>3, <1>5, <2>1, <2>2 DEF IInv, WrittenInv
  <1>9. ListInv'
    <2> DEFINE a == Len(op.todo)
               b == Len(op.prepared)
               c == Len(op.list)
               b1 == Len(op'.prepared)
    <2>1. a \in Nat /\ b \in Nat /\ c \in Nat
      BY <1>0 DEF Operation
    <2>2. a + b <= c
      BY <1>0 DEF IInv, ListInv, Left
    <2>3. b1 = b - 1
      BY <1>1, <1>2
    <2> HIDE DEF a, b, c, b1
    <2>4. Left' < Len(op.list) /\ Left' <= Len(op.list)
      <3>1. a + b1 < c /\ a + b1 <= c
        BY <2>1, <2>2, <2>3
      <3> QED
        BY <1>2, <3>1 DEF Left, a, b1, c
    <2>5. ToSet(op'.todo) \subseteq ToSet(op.list) /\ ToSet(op'.prepared) \subseteq ToSet(op.list)
      BY <1>0, <1>1, <1>2 DEF IInv, ListInv
    <2>6. op.list = Listed /\ Listed' = Listed
      BY <1>0, <1>2 DEF IInv, ListInv, Listed
    <2> QED
      BY <1>0, <1>2, <2>4, <2>5, <2>6 DEF ListInv
  <1>10. FarInv'
    <2>1. op.n # 0 /\ (op.stage = "restore" => disk'[f].means # op.n)
      BY <1>0, <1>1, <1>3, WantOK DEF Ours
    <2>2. f \in ToSet(op.list)
      BY <1>0, <1>1 DEF IInv, ListInv
    <2>3. ASSUME NEW g \in Files, disk'[g].means = op.n
          PROVE  /\ op.stage = "first" => g \in ToSet(op.list)
                 /\ op.stage = "restore" => g = First /\ First \in ToSet(op'.prepared)
      <3>1. CASE g = f
        BY <2>1, <2>2, <2>3, <3>1
      <3>2. CASE g # f
        <4>1. disk[g].means = op.n
          BY <1>3, <2>3, <3>2
        <4>2. ToSet(op.todo) = {}
          BY <1>0 DEF ToSet
        <4> QED
          BY <1>0, <1>1, <1>2, <3>2, <4>1, <4>2 DEF IInv, FarInv
      <3> QED
        BY <3>1, <3>2
    <2> QED
      BY <1>0, <1>2, <1>3, <1>5, <2>3 DEF IInv, FarInv, First
  <1>11. TextInv' /\ LookInv'
    <2>1. TextInv'
      BY <1>3 DEF IInv, TextInv, Ours
    <2>2. /\ part'[f].seen # "this" /\ part'[f].value = part[f].value
          /\ part'[f].seen = "none" => part[f].seen = "none"
      BY <1>1, <1>3 DEF Stale
    <2>3. ASSUME NEW g \in Files \ raced
          PROVE  /\ part'[g].seen = "this" => part'[g].value = disk'[g].means
                 /\ part'[g].seen = "none" => part'[g].value = 0
      <3>1. CASE g = f
        BY <2>2, <3>1 DEF IInv, LookInv
      <3>2. CASE g # f
        BY <1>3, <3>2 DEF IInv, LookInv
      <3> QED
        BY <3>1, <3>2
    <2> QED
      BY <1>0, <2>1, <2>3 DEF LookInv
  <1>12. ReadInv'
    BY <1>0, <1>2 DEF ReadInv
  <1>13. FreshInv'
    <2>1. \A g \in Files : Fresh(g) => Fresh(g)'
      BY <1>3 DEF Fresh, Ours
    <2> QED
      BY <1>0, <1>2, <1>5, <2>1, WantOK DEF IInv, FreshInv
  <1>14. SavedInv'
    <2>1. ASSUME NEW g \in ToSet(op.list) \ raced
          PROVE  g \in ToSet(op'.todo) \cup ToSet(op'.prepared) \/ disk'[g] = Ours(Want(g))
      <3>1. g \in ToSet(op.todo) \cup ToSet(op.prepared) \/ disk[g] = Ours(Want(g))
        BY <1>0 DEF IInv, SavedInv
      <3>2. g \in Files
        BY <1>0, WantOK
      <3> QED
        BY <1>1, <1>2, <1>3, <3>1, <3>2
    <2> QED
      BY <1>0, <1>2, <1>5, <2>1, WantOK DEF SavedInv
  <1> QED
    BY <1>6, <1>7, <1>8, <1>9, <1>10, <1>11, <1>12, <1>13, <1>14 DEF IInv

\* A change that is answered is settled, unless it failed, and one that failed is nowhere:
\* then dropping the lock leaves every number settled.
LEMMA ReleaseIInv ==
  ASSUME IInv, Held, Saves(op.job),
         NEW what \in {"done", "failed", "torn", "refused"}, Release(what),
         disk' \in [Files -> Texts], part' \in [Files -> Part], core' \in [Files -> Meanings],
         raced' \subseteq Files, up' = up, crashes' = crashes, faults' \in 0 .. MaxFaults,
         \A f \in Files : \A n \in {disk'[f].means, part'[f].value, core'[f]} :
            Settled(n) \/ (n = op.n /\ what # "failed"),
         TextInv', LookInv'
  PROVE  IInv'
  <1>1. /\ ~Held' /\ ListInv' /\ FarInv' /\ ReadInv' /\ FreshInv' /\ SavedInv'
    BY IdleIInv DEF Release
  <1>2. op.n \in Numbers /\ fate' = [fate EXCEPT ![op.n] = what]
    BY WantOK DEF Release
  <1>3. fate' \in [Numbers -> Fates]
    BY <1>2 DEF IInv, TypeOK, Fates
  <1>4. TypeOK'
    BY <1>1, <1>3 DEF IInv, TypeOK
  <1>5. GoingInv'
    <2>1. ASSUME NEW n \in Numbers PROVE fate'[n] # "going"
      <3>1. CASE n = op.n
        BY <1>2, <3>1 DEF IInv, TypeOK
      <3>2. CASE n # op.n
        BY <1>2, <3>2 DEF IInv, GoingInv, Goes, TypeOK
      <3> QED
        BY <3>1, <3>2
    <2> QED
      BY <1>1, <2>1 DEF GoingInv, Goes
  <1>6. WrittenInv'
    <2>1. ASSUME NEW n, Settled(n) \/ (n = op.n /\ what # "failed")
          PROVE  Settled(n)'
      <3>1. CASE n = op.n
        <4>1. what # "failed"
          BY <2>1, <3>1, WantOK
        <4> QED
          BY <1>2, <3>1, <4>1 DEF Settled, IInv, TypeOK
      <3>2. CASE n # op.n
        BY <1>2, <2>1, <3>2 DEF Settled, IInv, TypeOK
      <3> QED
        BY <3>1, <3>2
    <2> QED
      BY <1>1, <2>1 DEF WrittenInv
  <1> QED
    BY <1>1, <1>4, <1>5, <1>6 DEF IInv

\* Where a save that fails leaves the change it was for: put back, or answered (save,
\* save_extension_and_secrets, save_users_and_secrets).
LEMMA FailsIInv ==
  ASSUME IInv, Held, op.at \in {"prepare", "rename"}, op.stage # "first" => ~op.landed,
         Fails, UNCHANGED <<core, up, raced, crashes>>
  PROVE  IInv'
  <1>0. /\ op \in Operation /\ Saves(op.job) /\ (op.stage # "first" => op.job.kind = "pair")
        /\ disk \in [Files -> Texts] /\ part \in [Files -> Part]
        /\ core \in [Files -> Meanings] /\ raced \subseteq Files
        /\ faults \in 0 .. MaxFaults
    BY DEF IInv, TypeOK
  <1>1. \A f \in Files : \A n \in {disk[f].means, part[f].value} : Settled(n) \/ n = op.n
    BY DEF IInv, WrittenInv, Goes
  <1>2. \A f \in Files : Settled(core[f])
    BY DEF IInv, WrittenInv
  <1>3. ASSUME NEW k \in {1, 2}, Fault(k) PROVE faults' \in 0 .. MaxFaults
    BY <1>0, <1>3, ConfigAssumption DEF Fault
  <1>4. CASE op.stage = "first" /\ Fault(1)
             /\ Release(IF op.landed THEN "torn" ELSE "failed") /\ UNCHANGED <<disk, part>>
    <2> DEFINE what == IF op.landed THEN "torn" ELSE "failed"
    <2>1. what \in {"done", "failed", "torn"} /\ (what = "failed" => ~op.landed)
      OBVIOUS
    <2>2. Release(what)
      BY <1>4
    <2> HIDE DEF what
    <2>3. \A f \in Files : \A n \in {disk'[f].means, part'[f].value, core'[f]} :
            Settled(n) \/ (n = op.n /\ what # "failed")
      BY <1>0, <1>1, <1>2, <1>4, <2>1 DEF IInv, FarInv
    <2>4. TextInv' /\ LookInv'
      BY <1>4 DEF IInv, TextInv, LookInv
    <2> QED
      BY <1>0, <1>3, <1>4, <2>1, <2>2, <2>3, <2>4, ReleaseIInv
  <1>5. CASE op.stage = "restore" /\ Fault(1) /\ Release("torn") /\ UNCHANGED <<disk, part>>
    <2>1. \A f \in Files : \A n \in {disk'[f].means, part'[f].value, core'[f]} :
            Settled(n) \/ n = op.n
      BY <1>1, <1>2, <1>5
    <2>2. TextInv' /\ LookInv'
      BY <1>5 DEF IInv, TextInv, LookInv
    <2> QED
      BY <1>0, <1>3, <1>5, <2>1, <2>2, ReleaseIInv
  <1>6. CASE op.stage = "second" /\ RemoveAgain
    <2>1. First \in Files /\ \A f \in Files \ {First} :
            /\ part[f].value # op.n /\ disk[f].means # op.n
            /\ Settled(part[f].value) /\ Settled(disk[f].means)
      BY <1>0, <1>1, <1>6, WantOK DEF IInv, FarInv
    <2>2. \A f \in Files : /\ f = First => part'[f] = [value |-> 0, seen |-> "none"]
                           /\ f # First => part'[f] = part[f]
      BY <1>0, <1>6, <2>1 DEF RemoveAgain, EmptyParts, First
    <2>3. part' = [part EXCEPT ![First] = EmptyParts[First]]
      BY <1>6 DEF RemoveAgain, First
    <2>4. EmptyParts[First] \in Part
      BY <2>1, ConfigAssumption DEF EmptyParts, Part, Meanings
    <2>5. part' \in [Files -> Part]
      BY <1>0, <2>3, <2>4
    <2>6. CASE /\ disk' = [disk EXCEPT ![First] = Absent] /\ Release("failed") /\ Fault(1)
      <3>1. Absent \in Texts
        BY ConfigAssumption DEF Absent, Texts, Meanings
      <3>2. disk' \in [Files -> Texts]
        BY <1>0, <2>6, <3>1
      <3>3. \A f \in Files : /\ f = First => disk'[f] = Absent
                             /\ f # First => disk'[f] = disk[f]
        BY <1>0, <2>6
      <3>4. \A f \in Files : \A n \in {disk'[f].means, part'[f].value, core'[f]} : Settled(n)
        BY <1>2, <2>1, <2>2, <3>3 DEF Absent, Settled
      <3>5. TextInv' /\ LookInv'
        BY <2>2, <3>3 DEF IInv, TextInv, LookInv, Absent
      <3> QED
        BY <1>0, <1>3, <2>5, <2>6, <3>2, <3>4, <3>5, ReleaseIInv
    <2>7. CASE /\ Fault(2) /\ Release("torn") /\ disk' = disk
      <3>1. \A f \in Files : \A n \in {disk'[f].means, part'[f].value, core'[f]} :
              Settled(n) \/ n = op.n
        BY <1>1, <1>2, <2>2, <2>7 DEF Settled
      <3>2. TextInv' /\ LookInv'
        BY <2>2, <2>7 DEF IInv, TextInv, LookInv
      <3> QED
        BY <1>0, <1>3, <2>5, <2>7, <3>1, <3>2, ReleaseIInv
    <2> QED
      BY <1>6, <2>6, <2>7 DEF RemoveAgain, First
  <1>7. CASE op.stage = "second" /\ Fault(1) /\ GoOn("restore", First, op.previous)
             /\ UNCHANGED <<disk, part, fate>>
    <2>1. First \in Files /\ ToSet(<<First>>) = {First} /\ ToSet(<<>>) = {}
          /\ <<First>> \in Seq(Files) /\ Len(<<First>>) = 1 /\ Len(<<>>) = 0
      BY <1>0, <1>7, WantOK DEF ToSet
    <2>2. /\ op' \in Operation /\ op'.at = "prepare" /\ op'.job = op.job /\ op'.n = op.n
          /\ op'.stage = "restore" /\ op'.list = <<First>> /\ op'.todo = <<First>>
          /\ op'.prepared = <<>> /\ op'.landed = FALSE /\ op'.previous = op.previous
      <3> DEFINE one == <<First>>
                 none == <<>>
      <3>1. one \in Seq(Files) /\ none \in Seq(Files)
        BY <2>1
      <3>2. op' = [op EXCEPT !.at = "prepare", !.stage = "restore", !.list = one, !.todo = one,
                             !.prepared = none, !.landed = FALSE, !.previous = op.previous]
        BY <1>7 DEF GoOn
      <3> HIDE DEF one, none
      <3>3. /\ op' \in Operation /\ op'.at = "prepare" /\ op'.job = op.job /\ op'.n = op.n
            /\ op'.stage = "restore" /\ op'.list = one /\ op'.todo = one
            /\ op'.prepared = none /\ op'.landed = FALSE /\ op'.previous = op.previous
        BY <1>0, <3>1, <3>2 DEF Operation, Places
      <3> QED
        BY <3>3 DEF one, none
    <2>3. Held'
      BY <2>2 DEF Held, Idle
    <2>4. TypeOK'
      BY <1>0, <1>3, <1>7, <2>2, <2>3 DEF IInv, TypeOK
    <2>5. GoingInv'
      BY <1>7, <2>2, <2>3 DEF IInv, GoingInv, Goes
    <2>6. WrittenInv'
      BY <1>7, <2>2, <2>3 DEF IInv, WrittenInv, Goes, Settled
    <2>7. ListInv'
      <3>1. Left' = 1
        BY <2>1, <2>2 DEF Left
      <3>2. Listed' = <<First>>
        BY <2>2 DEF Listed, First
      <3> QED
        BY <2>1, <2>2, <3>1, <3>2 DEF ListInv
    <2>8. FarInv'
      BY <1>0, <1>7, <2>1, <2>2 DEF IInv, FarInv, First
    <2>9. TextInv' /\ LookInv'
      BY <1>7 DEF IInv, TextInv, LookInv
    <2>10. ReadInv' /\ SavedInv'
      BY <2>2 DEF ReadInv, SavedInv
    <2>11. FreshInv'
      BY <1>7, <2>2, <2>3 DEF IInv, FreshInv, Fresh
    <2> QED
      BY <2>4, <2>5, <2>6, <2>7, <2>8, <2>9, <2>10, <2>11 DEF IInv
  <1> QED
    BY <1>4, <1>5, <1>6, <1>7 DEF Fails, First

\* A text that could not be written beside its file, or a file not renamed into place.
LEMMA WriteOrRenameFailsIInv == IInv /\ (WriteFails \/ RenameFails) => IInv'
  <1> SUFFICES ASSUME IInv, WriteFails \/ RenameFails PROVE IInv'
    OBVIOUS
  <1>1. Held /\ op.at \in {"prepare", "rename"} /\ Fails /\ UNCHANGED <<core, up, raced, crashes>>
    BY DEF WriteFails, RenameFails
  <1>2. CASE op.at = "prepare"
    BY <1>1, <1>2, FailsIInv DEF IInv, ListInv
  <1>3. CASE op.at = "rename" /\ op.prepared # <<>>
    <2>1. op \in Operation /\ op.prepared \in Seq(Files) /\ op.todo \in Seq(Files)
      BY <1>1 DEF IInv, TypeOK, Operation
    <2>2. Len(op.prepared) \in Nat \ {0} /\ Len(op.todo) \in Nat
      BY <1>3, <2>1, EmptySeq
    <2>3. op.stage # "first" => Len(op.list) = 1
      <3>1. op.list = Listed
        BY <1>1 DEF IInv, ListInv
      <3>2. op.stage \in {"first", "second", "restore"}
        BY <2>1 DEF Operation
      <3> QED
        BY <3>1, <3>2 DEF Listed
    <2>4. op.landed => Left < Len(op.list)
      BY <1>1 DEF IInv, ListInv
    <2> DEFINE a == Len(op.todo)
               b == Len(op.prepared)
    <2>5. Left = a + b /\ a \in Nat /\ b \in Nat \ {0}
      BY <2>2 DEF Left
    <2> HIDE DEF a, b
    <2>6. ~(Left < 1)
      BY <2>5
    <2>7. op.stage # "first" => ~op.landed
      BY <2>3, <2>4, <2>6
    <2> QED
      BY <1>1, <2>7, FailsIInv
  <1> QED
    BY <1>2, <1>3 DEF WriteFails, RenameFails

\* What the store knows once the files are in place: of those of the list what was wanted.
LEMMA LandedOK ==
  ASSUME IInv, Held, op.at = "rename", op.prepared = <<>>
  PROVE  /\ Landed \in [Files -> Part]
         /\ \A f \in Files : /\ Settled(Landed[f].value) \/ Landed[f].value = op.n
                             /\ f \in ToSet(op.list) => Landed[f].value = Want(f)
                             /\ f \notin ToSet(op.list) => Landed[f] = part[f]
         /\ \A f \in Files \ (raced \ InPlace) :
              /\ f \in ToSet(op.list) => disk[f] = Ours(Want(f))
              /\ Landed[f].seen = "this" => Landed[f].value = disk[f].means
              /\ Landed[f].seen = "none" => Landed[f].value = 0
         /\ ToSet(op.todo) = {} /\ ToSet(op.prepared) = {}
  <1>0. /\ Saves(op.job) /\ part \in [Files -> Part]
        /\ ToSet(op.todo) = {} /\ ToSet(op.prepared) = {}
    BY DEF IInv, TypeOK, ListInv, ToSet
  <1>1. ASSUME NEW f \in Files, f \in ToSet(op.list)
        PROVE  /\ Landed[f] = [value |-> Want(f), seen |-> look(f)]
               /\ Landed[f].value = Want(f) /\ Landed[f].seen = look(f)
    <2> DEFINE v == Want(f)
               s == look(f)
    <2>1. Landed[f] = [value |-> v, seen |-> s]
      BY <1>1 DEF Landed
    <2> HIDE DEF v, s
    <2>2. Landed[f].value = v /\ Landed[f].seen = s
      BY <2>1
    <2> QED
      BY <2>1, <2>2 DEF v, s
  <1>2. ASSUME NEW f \in Files, f \notin ToSet(op.list) PROVE Landed[f] = part[f]
    BY <1>2 DEF Landed
  <1>3. ASSUME NEW f \in Files PROVE Landed[f] \in Part
    <2>1. Want(f) \in Meanings /\ look(f) \in {"none", "this", "other"}
      BY <1>0, WantOK DEF look
    <2>2. [value |-> Want(f), seen |-> look(f)] \in Part
      BY <2>1 DEF Part
    <2> QED
      BY <1>0, <1>1, <1>2, <2>2
  <1>4. Landed \in [Files -> Part]
    BY <1>3 DEF Landed
  <1>5. ASSUME NEW f \in Files PROVE Settled(Landed[f].value) \/ Landed[f].value = op.n
    <2>1. CASE f \in ToSet(op.list)
      <3>1. Landed[f].value = Want(f)
        BY <1>1, <2>1
      <3> QED
        BY <1>0, <3>1, WantOK
    <2>2. CASE f \notin ToSet(op.list)
      BY <1>2, <2>2 DEF IInv, WrittenInv, Goes
    <2> QED
      BY <2>1, <2>2
  <1>6. ASSUME NEW f \in Files \ (raced \ InPlace), f \in ToSet(op.list)
        PROVE  /\ disk[f] = Ours(Want(f))
               /\ Landed[f].seen = "this" /\ Landed[f].value = disk[f].means
    <2>1. disk[f] = Ours(Want(f))
      BY <1>0, <1>6 DEF IInv, SavedInv, InPlace
    <2>2. disk[f].kind = "ours" /\ disk[f].means = Want(f)
      BY <2>1 DEF Ours
    <2>3. look(f) = "this"
      BY <2>2 DEF look
    <2>4. f \in Files /\ f \in ToSet(op.list)
      BY <1>6
    <2>5. Landed[f].seen = look(f) /\ Landed[f].value = Want(f)
      BY <1>1, <2>4
    <2> QED
      BY <2>1, <2>2, <2>3, <2>5
  <1>7. ASSUME NEW f \in Files \ (raced \ InPlace), f \notin ToSet(op.list)
        PROVE  /\ Landed[f].seen = "this" => Landed[f].value = disk[f].means
               /\ Landed[f].seen = "none" => Landed[f].value = 0
    BY <1>2, <1>7 DEF InPlace, IInv, LookInv
  <1> QED
    BY <1>0, <1>1, <1>2, <1>4, <1>5, <1>6, <1>7

\* The store takes what was written, and the job has a second file or is answered.
LEMMA LandIInv == IInv /\ Land => IInv'
  <1> SUFFICES ASSUME IInv, Land PROVE IInv'
    OBVIOUS
  <1>0. /\ Held /\ op.at = "rename" /\ op.prepared = <<>> /\ op \in Operation /\ Saves(op.job)
        /\ op.stage # "first" => op.job.kind = "pair"
        /\ part' = Landed /\ raced' = raced \ InPlace /\ raced' \subseteq Files
        /\ disk \in [Files -> Texts] /\ core \in [Files -> Meanings]
        /\ faults \in 0 .. MaxFaults
        /\ UNCHANGED <<disk, up, faults, crashes>>
    BY DEF IInv, TypeOK, Land
  <1>1. TextInv' /\ LookInv'
    BY <1>0, LandedOK DEF IInv, TextInv, LookInv
  <1>2. \A f \in Files : /\ Settled(disk[f].means) \/ disk[f].means = op.n
                         /\ Settled(core[f])
    BY DEF IInv, WrittenInv, Goes
  <1>3. CASE Tell(Landed, Told(op.job)) /\ Release("done")
    <2>1. core' \in [Files -> Meanings]
      BY <1>0, <1>3, LandedOK DEF Tell, Part
    <2>2. \A f \in Files : core'[f] \in {core[f], Landed[f].value}
      BY <1>3 DEF Tell
    <2>3. \A f \in Files : \A n \in {disk'[f].means, part'[f].value, core'[f]} :
            Settled(n) \/ n = op.n
      BY <1>0, <1>2, <2>2, LandedOK
    <2> QED
      BY <1>0, <1>1, <1>3, <2>1, <2>3, LandedOK, ReleaseIInv
  <1>4. CASE Release("refused") /\ core' = core
    <2>1. \A f \in Files : \A n \in {disk'[f].means, part'[f].value, core'[f]} :
            Settled(n) \/ n = op.n
      BY <1>0, <1>2, <1>4, LandedOK
    <2> QED
      BY <1>0, <1>1, <1>4, <2>1, LandedOK, ReleaseIInv
  <1>5. CASE op.stage = "restore" /\ Release("failed") /\ core' = core
    <2>1. \A f \in Files : Settled(disk[f].means)
      BY <1>0, <1>2, <1>5, LandedOK DEF IInv, FarInv
    <2>2. \A f \in Files : Settled(Landed[f].value)
      <3>1. op.list = <<First>> /\ ToSet(op.list) = {First}
        BY <1>0, <1>5, WantOK DEF IInv, ListInv, Listed, First
      <3>2. \A f \in Files : f # First => Settled(part[f].value)
        BY <1>0, <1>5 DEF IInv, FarInv, WrittenInv, Goes
      <3> QED
        BY <1>0, <1>5, <3>1, <3>2, LandedOK, WantOK
    <2>3. \A f \in Files : \A n \in {disk'[f].means, part'[f].value, core'[f]} : Settled(n)
      BY <1>0, <1>2, <1>5, <2>1, <2>2
    <2> QED
      BY <1>0, <1>1, <1>5, <2>3, LandedOK, ReleaseIInv
  <1>6. CASE /\ op.job.kind = "pair" /\ op.stage = "first"
             /\ GoOn("second", Secrets, part[First]) /\ UNCHANGED <<core, fate>>
    <2>1. /\ First \in Files /\ ToSet(op.list) = {First} /\ op.list = <<First>>
          /\ First \in ToSet(op.list)
      <3>1. op.list = op.job.list /\ Len(op.job.list) = 1 /\ op.job.list \in Seq(Files)
        BY <1>0, <1>6, JobOK DEF IInv, ListInv, Listed, Operation
      <3>2. op.job.list = <<First>>
        BY <3>1 DEF First
      <3> QED
        BY <1>0, <1>6, <3>1, <3>2, WantOK
    <2>2. Secrets \in Files /\ part[First] \in Part
      BY <2>1 DEF Files, IInv, TypeOK
    <2>3. /\ op' \in Operation /\ op'.at = "prepare" /\ op'.job = op.job /\ op'.n = op.n
          /\ op'.stage = "second" /\ op'.list = <<Secrets>> /\ op'.todo = <<Secrets>>
          /\ op'.prepared = <<>> /\ op'.landed = FALSE /\ op'.previous = part[First]
      <3> DEFINE one == <<Secrets>>
                 none == <<>>
                 before == part[First]
      <3>1. one \in Seq(Files) /\ none \in Seq(Files) /\ before \in Part
        BY <2>2
      <3>2. op' = [op EXCEPT !.at = "prepare", !.stage = "second", !.list = one, !.todo = one,
                             !.prepared = none, !.landed = FALSE, !.previous = before]
        BY <1>6 DEF GoOn
      <3> HIDE DEF one, none, before
      <3>3. /\ op' \in Operation /\ op'.at = "prepare" /\ op'.job = op.job /\ op'.n = op.n
            /\ op'.stage = "second" /\ op'.list = one /\ op'.todo = one
            /\ op'.prepared = none /\ op'.landed = FALSE /\ op'.previous = before
        BY <1>0, <3>1, <3>2 DEF Operation, Places
      <3> QED
        BY <3>3 DEF one, none, before
    <2>4. Held' /\ Writes(op'.job) = Writes(op.job)
      BY <2>3 DEF Held, Idle
    <2>5. TypeOK'
      BY <1>0, <1>6, <2>3, <2>4, LandedOK DEF IInv, TypeOK
    <2>6. GoingInv'
      BY <1>0, <1>6, <2>3, <2>4 DEF IInv, GoingInv, Goes
    <2>7. WrittenInv'
      <3>1. Settled(part[First].value)
        BY <1>0, <1>6, <2>1 DEF IInv, FarInv, WrittenInv, Goes
      <3>2. \A n : (Settled(n)' <=> Settled(n)) /\ (Goes(n)' <=> n = op.n)
        BY <1>0, <1>6, <2>3, <2>4 DEF Settled, Goes
      <3> QED
        BY <1>0, <1>2, <1>6, <2>3, <3>1, <3>2, LandedOK DEF WrittenInv
    <2>8. ListInv'
      <3>1. /\ ToSet(<<>>) = {} /\ Len(<<Secrets>>) = 1 /\ Len(<<>>) = 0
        BY DEF ToSet
      <3>2. Left' = 1
        BY <2>3, <3>1 DEF Left
      <3>3. Listed' = <<Secrets>>
        BY <2>3 DEF Listed
      <3> QED
        BY <2>3, <3>1, <3>2, <3>3 DEF ListInv
    <2>9. FarInv'
      BY <1>0, <1>6, <2>1, <2>3, LandedOK DEF IInv, FarInv, First
    <2>10. ReadInv' /\ SavedInv'
      BY <2>3 DEF ReadInv, SavedInv
    <2>11. FreshInv'
      <3>1. ASSUME NEW f \in Writes(op.job) \ raced' PROVE Fresh(f)'
        <4>1. f \in Files
          BY <1>0, WantOK
        <4>2. CASE f \in ToSet(op.list)
          BY <1>0, <3>1, <4>1, <4>2, LandedOK DEF Fresh, Ours
        <4>3. CASE f \notin ToSet(op.list)
          <5>1. f \notin raced /\ part'[f] = part[f]
            BY <1>0, <3>1, <4>1, <4>3, LandedOK DEF InPlace
          <5> QED
            BY <1>0, <3>1, <5>1 DEF IInv, FreshInv, Fresh
        <4> QED
          BY <4>2, <4>3
      <3> QED
        BY <2>3, <2>4, <3>1 DEF FreshInv
    <2> QED
      BY <1>1, <2>5, <2>6, <2>7, <2>8, <2>9, <2>10, <2>11 DEF IInv
  <1> QED
    BY <1>3, <1>4, <1>5, <1>6 DEF Land, First

\* A person's edit has a number of its own, and is noticed: the look the store has, and
\* the one a reload took, is no longer that of the file.
LEMMA HandIInv ==
  ASSUME IInv, NEW f \in Files, Hand(f)
  PROVE  IInv'
  <1> DEFINE m == NextNumber
  <1>1. /\ m \in Numbers /\ m # 0 /\ m \in Meanings /\ fate[m] = "none"
        /\ fate' = [fate EXCEPT ![m] = "hand"]
        /\ \E text \in HandTexts(m) : disk' = [disk EXCEPT ![f] = text]
        /\ part' = [part EXCEPT ![f].seen = Stale(@)]
        /\ op' = IF Held THEN [op EXCEPT !.seen[f] = Stale(@)] ELSE op
        /\ raced' = IF InsideSave(f) \/ InsideRead(f) THEN raced \cup {f} ELSE raced
        /\ UNCHANGED <<core, up, faults, crashes>>
    <2>1. m \in Numbers /\ fate[m] = "none"
      BY NextNumberOK DEF Hand
    <2>2. m # 0 /\ m \in Meanings
      BY <2>1, ConfigAssumption DEF Numbers, Meanings
    <2>3. \E text \in HandTexts(m) : disk' = [disk EXCEPT ![f] = text]
      BY DEF Hand
    <2>4. /\ fate' = [fate EXCEPT ![m] = "hand"]
          /\ part' = [part EXCEPT ![f].seen = Stale(@)]
          /\ op' = IF Held THEN [op EXCEPT !.seen[f] = Stale(@)] ELSE op
      BY DEF Hand
    <2>5. /\ raced' = IF InsideSave(f) \/ InsideRead(f) THEN raced \cup {f} ELSE raced
          /\ UNCHANGED <<core, up, faults, crashes>>
      BY DEF Hand
    <2> QED
      BY <2>1, <2>2, <2>3, <2>4, <2>5
  <1> HIDE DEF m
  <1>2. /\ disk \in [Files -> Texts] /\ part \in [Files -> Part]
        /\ fate \in [Numbers -> Fates]
        /\ raced \subseteq Files
        /\ (Held => op \in Operation /\ op.seen \in [Files -> {"none", "this", "other"}])
    BY DEF IInv, TypeOK, Operation
  <1>3. /\ part' \in [Files -> Part] /\ raced \subseteq raced' /\ raced' \subseteq Files
        /\ \A g \in Files : part'[g].value = part[g].value /\ (g # f => part'[g] = part[g])
        /\ part'[f].seen # "this" /\ (part'[f].seen = "none" => part[f].seen = "none")
    BY <1>1, <1>2 DEF Part, Stale
  <1>4. PICK text \in HandTexts(m) : disk' = [disk EXCEPT ![f] = text]
    BY <1>1
  <1>5. /\ text \in Texts /\ text.means \in {0, m}
        /\ (text.kind \in {"absent", "broken"} => text.means = 0)
    BY <1>1, ConfigAssumption DEF HandTexts, Texts, Absent, Meanings
  <1>6. /\ disk' \in [Files -> Texts] /\ disk'[f] = text
        /\ \A g \in Files : g # f => disk'[g] = disk[g]
    BY <1>2, <1>4, <1>5
  <1>7. /\ Held' <=> Held
        /\ ~Held => op' = op
        /\ Held => /\ op' \in Operation
                   /\ op'.at = op.at /\ op'.job = op.job /\ op'.n = op.n /\ op'.list = op.list
                   /\ op'.stage = op.stage /\ op'.todo = op.todo /\ op'.prepared = op.prepared
                   /\ op'.landed = op.landed /\ op'.previous = op.previous
                   /\ op'.changed = op.changed
                   /\ \A g \in Files : g # f => op'.seen[g] = op.seen[g]
                   /\ op'.seen[f] = "none" => op.seen[f] = "none"
    <2>1. CASE ~Held
      BY <1>1, <2>1 DEF Held
    <2>2. CASE Held
      <3>1. [op.seen EXCEPT ![f] = Stale(op.seen[f])] \in [Files -> {"none", "this", "other"}]
        BY <1>2, <2>2 DEF Stale
      <3> DEFINE looks == [op.seen EXCEPT ![f] = Stale(op.seen[f])]
      <3>2. looks[f] = Stale(op.seen[f]) /\ \A g \in Files : g # f => looks[g] = op.seen[g]
        BY <1>2, <2>2
      <3>3. op' = [op EXCEPT !.seen = looks]
        BY <1>1, <2>2
      <3> HIDE DEF looks
      <3>4. looks \in [Files -> {"none", "this", "other"}]
        BY <3>1 DEF looks
      <3>5. /\ op' \in Operation /\ op'.seen = looks
            /\ op'.at = op.at /\ op'.job = op.job /\ op'.n = op.n /\ op'.list = op.list
            /\ op'.stage = op.stage /\ op'.todo = op.todo /\ op'.prepared = op.prepared
            /\ op'.landed = op.landed /\ op'.previous = op.previous
            /\ op'.changed = op.changed
        BY <1>2, <2>2, <3>3, <3>4 DEF Operation
      <3>6. Held'
        BY <1>2, <2>2, <3>5 DEF Held, Idle, Operation, Places
      <3> QED
        BY <2>2, <3>2, <3>5, <3>6 DEF Stale
    <2> QED
      BY <2>1, <2>2
  <1>8. /\ fate' \in [Numbers -> Fates]
        /\ fate'[m] = "hand" /\ \A n \in Numbers : n # m => fate'[n] = fate[n]
    BY <1>1, <1>2 DEF Fates
  <1>9. ~Settled(m) /\ \A n : Settled(n) => Settled(n)'
    BY <1>1, <1>2 DEF Settled
  <1>10. Held /\ Saves(op.job) => op.n # m /\ op.n # 0 /\ Writes(op.job) \subseteq Files
    BY <1>1, WantOK
  <1>11. TypeOK'
    BY <1>1, <1>3, <1>6, <1>7, <1>8 DEF IInv, TypeOK
  <1>12. \A n : Goes(n)' <=> Goes(n)
    BY <1>7 DEF Goes
  <1>13. GoingInv'
    BY <1>7, <1>8, <1>10, <1>12 DEF IInv, GoingInv, Goes
  <1>14. WrittenInv'
    <2>1. Settled(text.means)'
      BY <1>1, <1>5, <1>8 DEF Settled
    <2> QED
      BY <1>1, <1>3, <1>6, <1>7, <1>9, <1>12, <2>1 DEF IInv, WrittenInv
  <1>15. ListInv'
    BY <1>7 DEF IInv, ListInv, Listed, Left
  <1>16. FarInv'
    <2>1. Held /\ Saves(op.job) =>
            \A g \in Files : disk'[g].means = op.n => disk[g].means = op.n
      BY <1>5, <1>6, <1>10
    <2> QED
      BY <1>3, <1>7, <2>1 DEF IInv, FarInv, First
  <1>17. TextInv'
    BY <1>5, <1>6 DEF IInv, TextInv
  <1>18. LookInv'
    BY <1>3, <1>6 DEF IInv, LookInv
  <1>19. f \notin raced' => ~InsideSave(f) /\ ~InsideRead(f)
    BY <1>1
  <1>20. ReadInv'
    <2>1. ASSUME Held, op.at = "read", NEW g \in Files \ raced', op'.seen[g] = "none",
                 g \in Writes(op.job) \/ (g \in op.changed /\ ~Unlisted(g)')
          PROVE  disk'[g].kind = "absent"
      <3>1. op.seen[g] = "none" /\ (~Unlisted(g)' => ~Unlisted(g))
        BY <1>7, <2>1 DEF Unlisted
      <3>2. CASE g = f
        BY <1>19, <2>1, <3>1, <3>2 DEF InsideSave, InsideRead
      <3>3. CASE g # f
        BY <1>3, <1>6, <2>1, <3>1, <3>3 DEF IInv, ReadInv
      <3> QED
        BY <3>2, <3>3
    <2> QED
      BY <1>7, <2>1 DEF ReadInv
  <1>21. FreshInv'
    <2>1. ASSUME Held, op.at # "look", NEW g \in Writes(op.job) \ raced',
                 ~(op.at = "read" /\ g \in op.changed)
          PROVE  Fresh(g)'
      <3>1. g # f
        <4>1. op.at \in {"read", "prepare", "rename"}
          BY <1>2, <2>1 DEF Operation, Places
        <4> QED
          BY <1>19, <2>1, <4>1 DEF InsideSave
      <3>2. g \in Files /\ g \notin raced
        BY <1>3, <1>10, <2>1 DEF Writes
      <3> QED
        BY <1>3, <1>6, <2>1, <3>1, <3>2 DEF IInv, FreshInv, Fresh
    <2> QED
      BY <1>7, <2>1 DEF FreshInv
  <1>22. SavedInv'
    <2>1. ASSUME Held, op.at \in {"prepare", "rename"}, NEW g \in ToSet(op.list) \ raced'
          PROVE  g \in ToSet(op.todo) \cup ToSet(op.prepared) \/ disk'[g] = Ours(Want(g)')
      <3>1. Saves(op.job)
        BY <2>1 DEF IInv, TypeOK
      <3>2. g \in Writes(op.job) /\ g \in Files /\ g \notin raced
        BY <1>3, <2>1, <3>1, WantOK
      <3>3. g # f
        BY <1>19, <2>1, <3>2 DEF InsideSave
      <3>4. Want(g)' = Want(g)
        BY <1>3, <1>7, <2>1, <3>2 DEF Want
      <3> QED
        BY <1>6, <2>1, <3>2, <3>3, <3>4 DEF IInv, SavedInv
    <2> QED
      BY <1>7, <2>1 DEF SavedInv, Ours
  <1> QED
    BY <1>11, <1>13, <1>14, <1>15, <1>16, <1>17, <1>18, <1>20, <1>21, <1>22 DEF IInv

\* A process that ends forgets all it knew, and tears what it was making.
LEMMA CrashIInv == IInv /\ Crash => IInv'
  <1> SUFFICES ASSUME IInv, Crash PROVE IInv'
    OBVIOUS
  <1>1. /\ ~Held' /\ ListInv' /\ FarInv' /\ ReadInv' /\ FreshInv' /\ SavedInv'
    BY IdleIInv DEF Crash
  <1>2. /\ part' = EmptyParts /\ core' = [f \in Files |-> 0] /\ raced' = {} /\ disk' = disk
        /\ fate' = IF Held /\ Saves(op.job) THEN [fate EXCEPT ![op.n] = "torn"] ELSE fate
        /\ fate \in [Numbers -> Fates]
    BY DEF Crash, IInv, TypeOK
  <1>3. TypeOK'
    <2>1. part' \in [Files -> Part] /\ core' \in [Files -> Meanings]
      BY <1>2, ConfigAssumption DEF EmptyParts, Part, Meanings
    <2>2. crashes' \in 0 .. MaxCrashes
      BY ConfigAssumption DEF Crash, IInv, TypeOK
    <2> QED
      BY <1>1, <1>2, <2>1, <2>2 DEF IInv, TypeOK, Fates, Crash
  <1>4. \A n : (Settled(n) \/ Goes(n)) => Settled(n)'
    BY <1>2, WantOK DEF Settled, Goes
  <1>5. GoingInv'
    BY <1>1, <1>2, WantOK DEF IInv, GoingInv, Goes
  <1>6. WrittenInv'
    <2>1. Settled(0)'
      BY DEF Settled
    <2> QED
      BY <1>1, <1>2, <1>4, <2>1 DEF IInv, WrittenInv, EmptyParts
  <1>7. TextInv' /\ LookInv'
    BY <1>2 DEF IInv, TextInv, LookInv, EmptyParts
  <1> QED
    BY <1>1, <1>3, <1>5, <1>6, <1>7 DEF IInv

\* A process that starts reads every file that can be read.
LEMMA OpenIInv == IInv /\ Open => IInv'
  <1> SUFFICES ASSUME IInv, Open PROVE IInv'
    OBVIOUS
  <1>1. /\ ~Held /\ part' = Opening /\ core' = [f \in Files |-> Opening[f].value]
        /\ up' = TRUE /\ UNCHANGED <<disk, op, fate, raced, faults, crashes>>
    BY DEF Open, Tell, IInv, TypeOK
  <1>2. ~Held' /\ ListInv' /\ FarInv' /\ ReadInv' /\ FreshInv' /\ SavedInv'
    BY <1>1 DEF Held, ListInv, FarInv, ReadInv, FreshInv, SavedInv
  <1>3. ASSUME NEW f \in Files
        PROVE  /\ Opening[f] \in Part
               /\ Opening[f].value \in {0, disk[f].means}
               /\ Opening[f].seen = "this" => Opening[f].value = disk[f].means
               /\ Opening[f].seen = "none" => Opening[f].value = 0
    <2>1. disk[f] \in Texts /\ 0 \in Meanings
      BY ConfigAssumption DEF IInv, TypeOK, Meanings
    <2>2. CASE Readable(f)
      <3>1. Opening[f] = [value |-> disk[f].means, seen |-> look(f)]
        BY <2>2 DEF Opening
      <3>2. look(f) \in {"none", "this", "other"} /\ disk[f].means \in Meanings
            /\ (look(f) = "none" => disk[f].means = 0)
        BY <2>1 DEF look, Texts, IInv, TextInv
      <3> QED
        BY <3>1, <3>2 DEF Part
    <2>3. CASE ~Readable(f)
      BY <2>1, <2>3 DEF Opening, EmptyParts, Part
    <2> QED
      BY <2>2, <2>3
  <1>4. TypeOK'
    <2>1. part' \in [Files -> Part] /\ core' \in [Files -> Meanings]
      BY <1>1, <1>3 DEF Opening, Part
    <2> QED
      BY <1>1, <1>2, <2>1 DEF IInv, TypeOK
  <1>5. GoingInv'
    BY <1>1, <1>2 DEF IInv, GoingInv, Goes
  <1>6. WrittenInv'
    <2>1. \A n : (Settled(n)' <=> Settled(n)) /\ Settled(0) /\ ~Goes(n)
      BY <1>1 DEF Settled, Goes
    <2>2. \A f \in Files : Settled(disk[f].means)
      BY <2>1 DEF IInv, WrittenInv
    <2> QED
      BY <1>1, <1>2, <1>3, <2>1, <2>2 DEF WrittenInv
  <1>7. TextInv' /\ LookInv'
    BY <1>1, <1>3 DEF IInv, TextInv, LookInv
  <1> QED
    BY <1>2, <1>4, <1>5, <1>6, <1>7 DEF IInv

\* The store is new, and nothing is configured.
LEMMA InitIInv == Init => IInv
  <1> SUFFICES ASSUME Init PROVE IInv
    OBVIOUS
  <1>1. ~Held /\ 0 \in Meanings /\ 0 \in 0 .. MaxFaults /\ 0 \in 0 .. MaxCrashes
    BY ConfigAssumption DEF Init, Held, Meanings
  <1>2. /\ \A f \in Files : disk[f] = Absent /\ core[f] = 0
                           /\ part[f].value = 0 /\ part[f].seen = "none"
        /\ \A n \in Numbers : fate[n] = "none"
    BY DEF Init, EmptyParts
  <1>3. TypeOK
    <2>1. Absent \in Texts /\ [value |-> 0, seen |-> "none"] \in Part
      BY <1>1 DEF Absent, Texts, Part
    <2>2. disk \in [Files -> Texts] /\ part \in [Files -> Part] /\ core \in [Files -> Meanings]
      BY <1>1, <2>1 DEF Init, EmptyParts
    <2> QED
      BY <1>1, <2>2 DEF Init, TypeOK, Fates
  <1>4. GoingInv /\ ListInv /\ FarInv /\ ReadInv /\ FreshInv /\ SavedInv
    BY <1>1, <1>2 DEF GoingInv, Goes, ListInv, FarInv, ReadInv, FreshInv, SavedInv
  <1>5. WrittenInv /\ TextInv /\ LookInv
    BY <1>1, <1>2 DEF WrittenInv, Settled, TextInv, LookInv, Absent
  <1> QED
    BY <1>3, <1>4, <1>5 DEF IInv

\* The watch and whoever asks or edits take the lock for a job.
LEMMA JobTaken ==
  ASSUME Watch \/ Work
  PROVE  \E job \in Jobs : Begin(job)
  <1> DEFINE none(k) == [kind |-> k, list |-> <<>>, for |-> {}]
             all(k, fs) == [kind |-> k, list |-> Settings, for |-> fs]
             one(f) == [kind |-> "one", list |-> <<f>>, for |-> {f}]
             pair(f) == [kind |-> "pair", list |-> <<f>>, for |-> {f, Secrets}]
  <1>1. CASE Watch \/ ReadOnly
    <2>1. none("watch") \in Jobs /\ none("read") \in Jobs
      BY DEF Jobs
    <2> QED
      BY <1>1, <2>1 DEF Watch, ReadOnly
  <1>2. CASE Edit \/ ForgetRows
    <2>1. \A fs \in SUBSET InSettings : all("edit", fs) \in Jobs /\ all("forget", fs) \in Jobs
      BY DEF Jobs
    <2> QED
      BY <1>2, <2>1 DEF Edit, ForgetRows
  <1>3. CASE EditExtension \/ EditSecrets \/ EditExtensionWithSecrets \/ EditPeople
    <2>1. /\ one(Extension) \in Jobs /\ one(Users) \in Jobs /\ one(Secrets) \in Jobs
          /\ pair(Extension) \in Jobs /\ pair(Users) \in Jobs
      BY DEF Jobs
    <2> QED
      BY <1>3, <2>1
         DEF EditExtension, EditSecrets, EditExtensionWithSecrets, EditPeople, EditOne, EditPair
  <1> QED
    BY <1>1, <1>2, <1>3 DEF Work

\* Every step keeps the inductive invariant.
LEMMA NextIInv == IInv /\ [Next]_vars => IInv'
  <1> SUFFICES ASSUME IInv, [Next]_vars PROVE IInv'
    OBVIOUS
  <1>1. CASE Watch \/ Work
    BY <1>1, JobTaken, BeginIInv
  <1>2. CASE Step
    BY <1>2, ReloadLookIInv, ReloadReadIInv, PrepareIInv, RenameIInv, WriteOrRenameFailsIInv,
       LandIInv
       DEF Step
  <1>3. CASE Open \/ Crash
    BY <1>3, OpenIInv, CrashIInv
  <1>4. CASE \E f \in Files : Hand(f)
    BY <1>4, HandIInv
  <1>5. CASE UNCHANGED vars
    <2>1. /\ disk' = disk /\ part' = part /\ core' = core /\ op' = op /\ up' = up
          /\ fate' = fate /\ raced' = raced /\ faults' = faults /\ crashes' = crashes
      BY <1>5 DEF vars
    <2>2. TypeOK'
      BY <2>1 DEF IInv, TypeOK, Held
    <2>3. GoingInv' /\ WrittenInv'
      BY <2>1 DEF IInv, GoingInv, WrittenInv, Settled, Goes, Held
    <2>4. ListInv' /\ FarInv'
      BY <2>1 DEF IInv, ListInv, Listed, Left, FarInv, First, Held
    <2>5. TextInv' /\ LookInv'
      BY <2>1 DEF IInv, TextInv, LookInv
    <2>6. ReadInv'
      BY <2>1 DEF IInv, ReadInv, Unlisted, Held
    <2>7. FreshInv' /\ SavedInv'
      BY <2>1 DEF IInv, FreshInv, SavedInv, Fresh, Want, Held
    <2> QED
      BY <2>2, <2>3, <2>4, <2>5, <2>6, <2>7 DEF IInv
  <1> QED
    BY <1>1, <1>2, <1>3, <1>4, <1>5 DEF Next

\* The inductive invariant holds in every state.
THEOREM Invariance == Spec => []IInv
  <1> QED
    BY InitIInv, NextIInv, PTL DEF Spec

\* A file that Irori takes for read says what Irori thinks it says, but for the edits by
\* hand that no look can tell (reload_one, reload_extensions, save).
THEOREM TakenForRead == Spec => []FilesOK
  <1>1. ASSUME IInv PROVE SeenRead
    <2>1. ASSUME NEW f \in Files \ raced, Unchanged(f) PROVE part[f].value = disk[f].means
      <3>1. part[f].seen = look(f)
        BY <2>1 DEF Unchanged
      <3>2. CASE disk[f].kind = "absent"
        BY <1>1, <3>1, <3>2 DEF look, IInv, TextInv, LookInv
      <3>3. CASE disk[f].kind # "absent"
        BY <1>1, <3>1, <3>3 DEF look, IInv, LookInv
      <3> QED
        BY <3>2, <3>3
    <2> QED
      BY <2>1 DEF SeenRead
  <1>2. IInv => FilesOK
    BY <1>1 DEF IInv, FilesOK
  <1> QED
    BY Invariance, <1>2, PTL

\* A change answered with a write error that names no file which stays changed has left
\* nothing, whichever write or rename failed and whatever was put back, and the core shows
\* no change that the files did not keep (Config::edit, save, save_extension_and_secrets,
\* save_users_and_secrets).  A forget that the core refuses after its files are saved is
\* not among the first, and is among those the files kept (forget_rows).
THEOREM FailuresUndone == Spec => []ChangesKept
  <1>1. ASSUME IInv, NEW n \in Meanings, n # 0, Settled(n) \/ Goes(n)
        PROVE  fate[n] \in {"hand", "done", "torn", "refused", "going"}
    BY <1>1, WantOK DEF Settled, Goes
  <1>2. ASSUME IInv PROVE NothingLeft
    <2>1. ASSUME NEW f \in Files, NEW n \in {disk[f].means, part[f].value, core[f]} \ {0}
          PROVE  fate[n] # "failed"
      <3>1. n \in Meanings
        <4>1. disk[f] \in Texts /\ part[f] \in Part /\ core[f] \in Meanings
          BY <1>2 DEF IInv, TypeOK
        <4> QED
          BY <2>1, <4>1 DEF Texts, Part
      <3>2. Settled(n) \/ Goes(n)
        BY <1>2, <2>1 DEF IInv, WrittenInv
      <3> QED
        BY <1>1, <1>2, <2>1, <3>1, <3>2
    <2> QED
      BY <2>1 DEF NothingLeft
  <1>3. IInv => CoreKept
    BY DEF IInv, WrittenInv, Settled, CoreKept
  <1>4. IInv => ChangesKept
    BY <1>2, <1>3 DEF ChangesKept
  <1> QED
    BY Invariance, <1>4, PTL

\* Only the renames of a save, or its putting back of a file that was not there, change
\* the text of a file that is not edited by hand at that moment, and both only of a file
\* their job may write.
LEMMA OnlySavesWrite ==
  ASSUME IInv, Next, NEW f \in Files, disk'[f] # disk[f], Unmade' = Unmade
  PROVE  Held /\ op.at \in {"prepare", "rename"} /\ f \in Writes(op.job)
  <1>0. disk' # disk /\ disk \in [Files -> Texts]
    BY DEF IInv, TypeOK
  <1>1. CASE Rename
    <2>1. Held /\ op.at = "rename" /\ op.prepared # <<>> /\ Saves(op.job) /\ op \in Operation
      BY <1>1 DEF Rename, IInv, TypeOK
    <2>2. op.prepared \in Seq(Files)
      BY <2>1 DEF Operation
    <2>3. Head(op.prepared) \in ToSet(op.prepared)
      BY <2>1, <2>2, FirstAndRest
    <2>4. Head(op.prepared) \in Writes(op.job)
      BY <2>1, <2>3, WantOK DEF IInv, ListInv
    <2>5. f = Head(op.prepared)
      BY <1>0, <1>1 DEF Rename
    <2> QED
      BY <2>1, <2>4, <2>5
  <1>2. CASE WriteFails \/ RenameFails
    <2>1. Held /\ op.at \in {"prepare", "rename"} /\ Fails
      BY <1>2 DEF WriteFails, RenameFails
    <2>2. Saves(op.job) /\ RemoveAgain /\ op.stage = "second" /\ op.job.kind = "pair"
      BY <1>0, <2>1 DEF Fails, IInv, TypeOK
    <2>3. f = op.job.list[1]
      BY <1>0, <2>2 DEF RemoveAgain
    <2>4. op.job.list[1] \in Writes(op.job)
      <3>1. op.job \in Jobs
        BY <2>1 DEF IInv, TypeOK, Operation
      <3> QED
        BY <2>2, <3>1, JobOK DEF Writes
    <2> QED
      BY <2>1, <2>3, <2>4
  <1>3. ~(\E g \in Files : Hand(g))
    <2> SUFFICES ASSUME NEW g \in Files, Hand(g) PROVE FALSE
      OBVIOUS
    <2> DEFINE m == NextNumber
    <2>1. m \in Numbers /\ fate[m] = "none"
      BY NextNumberOK DEF Hand
    <2>2. fate' = [fate EXCEPT ![m] = "hand"]
      BY DEF Hand
    <2> HIDE DEF m
    <2>3. m \in Unmade /\ m \notin Unmade'
      BY <2>1, <2>2 DEF Unmade, IInv, TypeOK
    <2> QED
      BY <2>3
  <1>4. ~(Watch \/ Work)
    BY <1>0, JobTaken DEF Begin
  <1>5. ~(ReloadLook \/ ReloadRead \/ Prepare \/ Land \/ Open \/ Crash)
    BY <1>0 DEF ReloadLook, ReloadRead, Prepare, Land, Open, Crash
  <1> QED
    BY <1>1, <1>2, <1>3, <1>4, <1>5 DEF Next, Step

\* A save never writes over an edit by hand that Irori has not read, but for one made
\* inside a save of the same files (Config::edit).
THEOREM HandEditsKept == Spec => HandKept
  <1>1. ASSUME IInv, Next, NEW f \in Files \ raced, disk[f].kind = "hand",
               disk'[f] # disk[f], Unmade' = Unmade
        PROVE  part[f].value = disk[f].means
    BY <1>1, OnlySavesWrite DEF IInv, FreshInv, Fresh
  <1>2. UNCHANGED vars => disk' = disk
    BY DEF vars
  <1>3. IInv /\ [Next]_vars =>
          [\A f \in Files \ raced :
              disk[f].kind = "hand" /\ disk'[f] # disk[f] /\ Unmade' = Unmade
                => part[f].value = disk[f].means]_vars
    BY <1>1, <1>2
  <1> QED
    BY Invariance, <1>3, PTL DEF Spec, HandKept
=============================================================================
