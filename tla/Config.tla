------------------------------- MODULE Config -------------------------------
(***************************************************************************)
(* The configuration directory (irori-config's Store) and its wiring to    *)
(* the running core (irori's Config).  The store keeps, for every file,    *)
(* what it last read or wrote and what the file looked like then (size and *)
(* modification time).  Everything Irori does with the files happens under *)
(* one lock and starts by reading again whatever looks different; but a    *)
(* person with a text editor takes no lock, disks fill up, renames fail    *)
(* and the process may end between any two steps.                          *)
(*                                                                         *)
(* Every change, whether made through Irori or by hand, has a number, and  *)
(* a file that a change wrote "means" that number; 0 is a file that says   *)
(* nothing.  A text is a kind and a meaning: no file at all, one that does *)
(* not parse or cannot be read, one in Irori's own layout, or one a person *)
(* laid out in their own way.                                              *)
(***************************************************************************)
EXTENDS Naturals, Sequences, SequencesExt, FiniteSets

CONSTANTS
    Settings,      \* the files written together, in File::SETTINGS order
    Extension,     \* an extensions/<id>.toml
    Users,         \* users.toml
    Secrets,       \* secrets.toml
    MaxChanges,    \* bound: changes made through Irori and by hand
    MaxFaults,     \* bound: writes, renames and removals that fail
    MaxCrashes     \* bound: times the process ends

ASSUME ConfigAssumption ==
    /\ MaxChanges \in Nat /\ MaxFaults \in Nat /\ MaxCrashes \in Nat
    /\ Settings \in Seq({Settings[i] : i \in DOMAIN Settings}) /\ Settings # <<>>
    /\ Cardinality({Extension, Users, Secrets}) = 3
    /\ {Settings[i] : i \in DOMAIN Settings} \cap {Extension, Users, Secrets} = {}

VARIABLES
    disk,      \* the text of each file
    part,      \* Store: what each file was last known to mean, and its look
    core,      \* what the core has been told each file says
    op,        \* the task that holds the store's lock, and how far it is
    up,        \* whether the process runs
    fate,      \* how each change was answered
    raced,     \* files edited by hand inside a save or a reload, and not read since
    faults, crashes

vars == <<disk, part, core, op, up, fate, raced, faults, crashes>>

InSettings == ToSet(Settings)
Files == InSettings \cup {Extension, Users, Secrets}
OfExtensions == {Extension, Secrets}

Numbers == 1 .. MaxChanges
Meanings == 0 .. MaxChanges
Texts == [kind : {"absent", "broken", "ours", "hand"}, means : Meanings]

Absent == [kind |-> "absent", means |-> 0]
Ours(n) == [kind |-> "ours", means |-> n]

\* How a change ends: "hand", made by a person in the files; "done", answered as
\* made; "failed", answered with an error that names no file which stays changed
\* (EditError::Io); "torn", answered with one that says which files stay changed,
\* or not at all because the process ended; "refused", answered as refused by the
\* core (EditError::Refused), after its files were saved.
Fates == {"none", "going", "hand", "done", "failed", "torn", "refused"}

\* The changes made so far are the first ones; the next has this number.
Unmade == {n \in Numbers : fate[n] = "none"}
NextNumber == CHOOSE n \in Unmade : \A m \in Unmade : n <= m

-----------------------------------------------------------------------------
(* Looking at a file.  A look is "none" (no file), "this" (how the file    *)
(* looks now) or "other" (how it looked before somebody wrote it).         *)

look(f) == IF disk[f].kind = "absent" THEN "none" ELSE "this"

\* The file was written or removed since: it no longer looks like that.
Stale(seen) == IF seen = "this" THEN "other" ELSE seen

NoLooks == [f \in Files |-> "none"]

\* An extension's file that is not there is not listed, and dropped every time.
Unchanged(f) == part[f].seen = look(f) /\ ~(f = Extension /\ look(f) = "none")

Readable(f) == disk[f].kind # "broken"

\* Part: the last good meaning of a file and its look.
Part == [value : Meanings, seen : {"none", "this", "other"}]
EmptyParts == [f \in Files |-> [value |-> 0, seen |-> "none"]]

-----------------------------------------------------------------------------
(* What the lock is taken for.                                             *)

Jobs ==
    [kind : {"watch", "read"}, list : {<<>>}, for : {{}}]
      \cup [kind : {"edit", "forget"}, list : {Settings}, for : SUBSET InSettings]
      \cup {[kind |-> "one", list |-> <<f>>, for |-> {f}] :
              f \in {Extension, Users, Secrets}}
      \cup {[kind |-> "pair", list |-> <<f>>, for |-> {f, Secrets}] :
              f \in {Extension, Users}}

Saves(job) == job.kind \notin {"watch", "read"}

\* The files a job may write.
Writes(job) == IF Saves(job) THEN ToSet(job.list) \cup job.for ELSE {}

Idle == [at |-> "idle"]

Places == {"look", "read", "prepare", "rename"}

Held == op # Idle

\* Mutant: an edit changes the copy it has without re-reading the files.
OpenedMutant(job, n) ==
    [at |-> IF Saves(job) THEN "prepare" ELSE "look", job |-> job, n |-> n,
     changed |-> {}, seen |-> NoLooks, stage |-> "first", list |-> job.list,
     todo |-> job.list, prepared |-> <<>>, landed |-> FALSE,
     previous |-> [value |-> 0, seen |-> "none"]]

Opened(job, n) ==
    [at |-> "look", job |-> job, n |-> n, changed |-> {}, seen |-> NoLooks,
     stage |-> "first", list |-> job.list, todo |-> job.list, prepared |-> <<>>,
     landed |-> FALSE, previous |-> [value |-> 0, seen |-> "none"]]

\* The lock is taken: Config::edit and its kin, a reader, or the watch.
Begin(job) ==
    /\ up /\ ~Held
    /\ Saves(job) => Unmade # {}
    /\ op' = Opened(job, IF Saves(job) THEN NextNumber ELSE 0)
    /\ fate' = IF Saves(job) THEN [fate EXCEPT ![NextNumber] = "going"] ELSE fate
    /\ UNCHANGED <<disk, part, core, up, raced, faults, crashes>>

Watch == Begin([kind |-> "watch", list |-> <<>>, for |-> {}])

\* Whoever only asks what a file says; an edit that its change refuses; and a
\* forget_protocol with nothing to forget.
ReadOnly == Begin([kind |-> "read", list |-> <<>>, for |-> {}])

\* A change may be for any of the settings files, or come to nothing.
Edit == \E fs \in SUBSET InSettings :
            Begin([kind |-> "edit", list |-> Settings, for |-> fs])

ForgetRows == \E fs \in SUBSET InSettings :
                  Begin([kind |-> "forget", list |-> Settings, for |-> fs])

EditOne(f) == Begin([kind |-> "one", list |-> <<f>>, for |-> {f}])
EditPair(f) == Begin([kind |-> "pair", list |-> <<f>>, for |-> {f, Secrets}])

EditExtension == EditOne(Extension)
EditSecrets == EditOne(Secrets)
EditExtensionWithSecrets == EditPair(Extension)

\* With the same passwords as before, secrets.toml is left alone.
EditPeople == EditOne(Users) \/ EditPair(Users)

Work ==
    \/ ReadOnly \/ Edit \/ ForgetRows
    \/ EditExtension \/ EditSecrets \/ EditExtensionWithSecrets \/ EditPeople

-----------------------------------------------------------------------------
(* Reloading: the look at a file is taken before it is read.               *)

ReloadLook ==
    /\ Held /\ op.at = "look"
    /\ op' = [op EXCEPT !.at = "read",
                        !.changed = {f \in Files : ~Unchanged(f)},
                        !.seen = [f \in Files |-> look(f)]]
    /\ UNCHANGED <<disk, part, core, up, fate, raced, faults, crashes>>

\* An extension's file is found by listing their directory.
Unlisted(f) == f = Extension /\ op.seen[f] = "none"

\* A file that is not there says nothing, unless it was listed.
Reads(f) == Readable(f) /\ (f = Extension => disk[f].kind # "absent")

\* Mutant: the first file that does not parse ends the reload.
ReloadedMutant ==
    [f \in Files |->
        IF f \in op.changed /\ \A g \in op.changed : Readable(g)
        THEN [value |-> disk[f].means, seen |-> op.seen[f]]
        ELSE part[f]]

\* One file that doesn't parse keeps its last good meaning, and its look, so
\* that it is tried again; the others are read all the same.
Reloaded ==
    [f \in Files |->
        IF f \notin op.changed THEN part[f]
        ELSE IF Unlisted(f) THEN EmptyParts[f]
        ELSE IF Reads(f) THEN [value |-> disk[f].means, seen |-> op.seen[f]]
        ELSE part[f]]

\* Read with a look that was right, or one that will not be taken for right.
ReadAgain ==
    {f \in op.changed : Reads(f) \/ Unlisted(f)} \
        {f \in Files : op.seen[f] = "none" /\ disk[f].kind # "absent"}

Tell(p, fs) == core' = [f \in Files |-> IF f \in fs THEN p[f].value ELSE core[f]]

\* Mutant: an edit that its change refuses is saved all the same.
ReloadReadMutant ==
    /\ Held /\ op.at = "read"
    /\ part' = Reloaded
    /\ raced' = raced \ ReadAgain
    /\ \/ /\ op.job.kind = "watch"
          /\ Tell(Reloaded, Files)
          /\ op' = Idle
       \/ /\ op.job.kind # "watch"
          /\ op' = [op EXCEPT !.at = "prepare"]
          /\ UNCHANGED core
    /\ UNCHANGED <<disk, up, fate, faults, crashes>>

\* After reloading, the watch tells the core everything, a reader answers, and
\* an edit turns to its change.  An edit refused by the change itself has done
\* no more than a reader.
ReloadRead ==
    /\ Held /\ op.at = "read"
    /\ part' = Reloaded
    /\ raced' = raced \ ReadAgain
    /\ \/ /\ op.job.kind = "watch"
          /\ Tell(Reloaded, Files)
          /\ op' = Idle
       \/ /\ op.job.kind = "read"
          /\ op' = Idle
          /\ UNCHANGED core
       \/ /\ Saves(op.job)
          /\ op' = [op EXCEPT !.at = "prepare", !.changed = {}, !.seen = NoLooks]
          /\ UNCHANGED core
    /\ UNCHANGED <<disk, up, fate, faults, crashes>>

-----------------------------------------------------------------------------
(* Saving a list of files: first every text that differs from the disk is  *)
(* written beside its file, then all are renamed into place, then the      *)
(* store takes the new meanings and looks.                                 *)

Want(f) ==
    IF op.stage = "restore" THEN op.previous.value
    ELSE IF f \in op.job.for THEN op.n ELSE part[f].value

Release(what) ==
    /\ op' = Idle
    /\ fate' = [fate EXCEPT ![op.n] = what]

Fault(k) == faults + k <= MaxFaults /\ faults' = faults + k

\* The second half of a pair, or the putting back of its first half.
GoOn(stage, f, previous) ==
    op' = [op EXCEPT !.at = "prepare", !.stage = stage, !.list = <<f>>,
                     !.todo = <<f>>, !.prepared = <<>>, !.landed = FALSE,
                     !.previous = previous]

\* extensions/<id>.toml was not there before this change: it goes again,
\* unless removing it fails too.
RemoveAgain ==
    LET f == op.job.list[1]
    IN  \/ /\ disk' = [disk EXCEPT ![f] = Absent]
           /\ part' = [part EXCEPT ![f] = EmptyParts[f]]
           /\ Release("failed")
           /\ Fault(1)
        \/ /\ disk[f].kind # "absent"
           /\ Fault(2)
           /\ part' = [part EXCEPT ![f] = EmptyParts[f]]
           /\ Release("torn")
           /\ UNCHANGED disk

\* Mutant: the first file of a pair is not put back.
FailsMutant ==
    /\ Fault(1)
    /\ Release(IF op.landed THEN "torn" ELSE "failed")
    /\ UNCHANGED <<disk, part>>

\* A save that could not finish.  When the secrets of a pair can't be written,
\* its first file is put back before the failure is answered.
Fails ==
    \/ /\ op.stage = "first"
       /\ Fault(1)
       /\ Release(IF op.landed THEN "torn" ELSE "failed")
       /\ UNCHANGED <<disk, part>>
    \/ /\ op.stage = "second"
       /\ op.job.list[1] = Users \/ op.previous.seen # "none"
       /\ Fault(1)
       /\ GoOn("restore", op.job.list[1], op.previous)
       /\ UNCHANGED <<disk, part, fate>>
    \/ /\ op.stage = "second"
       /\ op.job.list[1] # Users /\ op.previous.seen = "none"
       /\ RemoveAgain
    \/ /\ op.stage = "restore"
       /\ Fault(1)
       /\ Release("torn")
       /\ UNCHANGED <<disk, part>>

Prepare ==
    /\ Held /\ op.at = "prepare"
    /\ LET f == Head(op.todo)
           next == [op EXCEPT !.todo = Tail(@),
                              !.at = IF Len(op.todo) = 1 THEN "rename" ELSE @]
       IN  \/ disk[f] = Ours(Want(f)) /\ op' = next
           \/ /\ disk[f] # Ours(Want(f))
              /\ op' = [next EXCEPT !.prepared = Append(@, f)]
    /\ UNCHANGED <<disk, part, core, up, fate, raced, faults, crashes>>

\* The disk is full or read-only: what was prepared is discarded.
WriteFails ==
    /\ Held /\ op.at = "prepare"
    /\ disk[Head(op.todo)] # Ours(Want(Head(op.todo)))
    /\ Fails
    /\ UNCHANGED <<core, up, raced, crashes>>

\* Mutant: each file is remembered as seen when it is renamed, before the
\* store has its meaning.
RenameMutant ==
    /\ Held /\ op.at = "rename"
    /\ op.prepared # <<>>
    /\ LET f == Head(op.prepared)
       IN  /\ disk' = [disk EXCEPT ![f] = Ours(Want(f))]
           /\ part' = [part EXCEPT ![f].seen = "this"]
    /\ op' = [op EXCEPT !.prepared = Tail(@), !.landed = TRUE]
    /\ UNCHANGED <<core, up, fate, raced, faults, crashes>>

Rename ==
    /\ Held /\ op.at = "rename"
    /\ op.prepared # <<>>
    /\ LET f == Head(op.prepared)
       IN  /\ disk' = [disk EXCEPT ![f] = Ours(Want(f))]
           /\ part' = [part EXCEPT ![f].seen = Stale(@)]
    /\ op' = [op EXCEPT !.prepared = Tail(@), !.landed = TRUE]
    /\ UNCHANGED <<core, up, fate, raced, faults, crashes>>

RenameFails ==
    /\ Held /\ op.at = "rename"
    /\ op.prepared # <<>>
    /\ Fails
    /\ UNCHANGED <<core, up, raced, crashes>>

Landed ==
    [f \in Files |->
        IF f \in ToSet(op.list) THEN [value |-> Want(f), seen |-> look(f)] ELSE part[f]]

\* Those of them that still are as they were written.
InPlace == {f \in ToSet(op.list) : disk[f] = Ours(Want(f))}

\* What the core is told once a job's files are in place.
Told(job) ==
    IF job.kind \in {"edit", "forget"} THEN InSettings ELSE job.for \cup OfExtensions

\* Mutant: the core is told after each file of a pair.
LandMutant ==
    /\ Held /\ op.at = "rename"
    /\ op.prepared = <<>>
    /\ part' = Landed
    /\ raced' = raced \ InPlace
    /\ \/ /\ op.job.kind = "pair" /\ op.stage = "first"
          /\ GoOn("second", Secrets, part[op.job.list[1]])
          /\ Tell(Landed, Told(op.job))
          /\ UNCHANGED fate
       \/ /\ op.job.kind # "pair" \/ op.stage = "second"
          /\ Tell(Landed, Told(op.job))
          /\ Release("done")
       \/ /\ op.job.kind = "forget"
          /\ Release("refused")
          /\ UNCHANGED core
       \/ /\ op.stage = "restore"
          /\ Release("failed")
          /\ UNCHANGED core
    /\ UNCHANGED <<disk, up, faults, crashes>>

\* The files are in place: the store takes their meanings and looks, and either
\* the job goes on with its second file or the core is told and the lock dropped.
Land ==
    /\ Held /\ op.at = "rename"
    /\ op.prepared = <<>>
    /\ part' = Landed
    /\ raced' = raced \ InPlace
    /\ \/ /\ op.job.kind = "pair" /\ op.stage = "first"
          /\ GoOn("second", Secrets, part[op.job.list[1]])
          /\ UNCHANGED <<core, fate>>
       \/ /\ op.job.kind # "pair" \/ op.stage = "second"
          /\ Tell(Landed, Told(op.job))
          /\ Release("done")
       \* forget_rows: the files are saved, and only then does the core say that
       \* it has no such device: its protocol removed it while the lock was waited
       \* for.  That is answered as a refusal, and the core is not told the files.
       \/ /\ op.job.kind = "forget"
          /\ Release("refused")
          /\ UNCHANGED core
       \/ /\ op.stage = "restore"
          /\ Release("failed")
          /\ UNCHANGED core
    /\ UNCHANGED <<disk, up, faults, crashes>>

-----------------------------------------------------------------------------
(* A person with a text editor, and the end of the process.                *)

\* Whether an edit of f by hand now would fall inside a save of f: after the
\* save has read f for the last time and before it looks at what it wrote.
InsideSave(f) ==
    /\ Held
    /\ f \in Writes(op.job)
    /\ \/ op.at \in {"prepare", "rename"}
       \/ op.at = "read" /\ (f \notin op.changed \/ Unlisted(f))

\* Whether it would fall between the look at a file that is not there and the
\* reading of it, which then goes by that look.
InsideRead(f) ==
    /\ Held /\ op.at = "read"
    /\ f \in op.changed /\ op.seen[f] = "none" /\ ~Unlisted(f)

HandTexts(n) ==
    {[kind |-> "hand", means |-> n], [kind |-> "broken", means |-> 0], Absent}

Hand(f) ==
    /\ Unmade # {}
    /\ \E text \in HandTexts(NextNumber) :
          /\ text # disk[f]
          /\ disk' = [disk EXCEPT ![f] = text]
    /\ fate' = [fate EXCEPT ![NextNumber] = "hand"]
    /\ part' = [part EXCEPT ![f].seen = Stale(@)]
    /\ op' = IF Held THEN [op EXCEPT !.seen[f] = Stale(@)] ELSE op
    /\ raced' = IF InsideSave(f) \/ InsideRead(f) THEN raced \cup {f} ELSE raced
    /\ UNCHANGED <<core, up, faults, crashes>>

\* The process ends, whatever it was doing.
Crash ==
    /\ up
    /\ crashes < MaxCrashes
    /\ crashes' = crashes + 1
    /\ up' = FALSE
    /\ op' = Idle
    /\ part' = EmptyParts
    /\ core' = [f \in Files |-> 0]
    /\ fate' = IF Held /\ Saves(op.job) THEN [fate EXCEPT ![op.n] = "torn"] ELSE fate
    /\ raced' = {}
    /\ UNCHANGED <<disk, faults>>

\* Store::new, its first reload and Config::open.
Opening ==
    [f \in Files |->
        IF Readable(f) THEN [value |-> disk[f].means, seen |-> look(f)]
                       ELSE EmptyParts[f]]

Open ==
    /\ ~up
    /\ up' = TRUE
    /\ part' = Opening
    /\ Tell(Opening, Files)
    /\ UNCHANGED <<disk, op, fate, raced, faults, crashes>>

-----------------------------------------------------------------------------

Init ==
    /\ disk = [f \in Files |-> Absent]
    /\ part = EmptyParts
    /\ core = [f \in Files |-> 0]
    /\ op = Idle
    /\ up = TRUE
    /\ fate = [n \in Numbers |-> "none"]
    /\ raced = {}
    /\ faults = 0 /\ crashes = 0

Step ==
    \/ ReloadLook \/ ReloadRead
    \/ Prepare \/ WriteFails \/ Rename \/ RenameFails \/ Land

Next ==
    \/ Watch \/ Work \/ Step \/ Open \/ Crash
    \/ \E f \in Files : Hand(f)

Spec == Init /\ [][Next]_vars

\* Whoever holds the lock goes on: nothing between taking and dropping it
\* waits for anybody.  The lock is handed out in the order it was asked for,
\* so the watch, which asks every two seconds, gets it again and again.
FairSpec == Spec /\ WF_vars(Step) /\ SF_vars(Watch)

-----------------------------------------------------------------------------

\* What the holder of the lock has in hand.
Operation ==
    [at : Places, job : Jobs, n : Meanings, changed : SUBSET Files,
     seen : [Files -> {"none", "this", "other"}], stage : {"first", "second", "restore"},
     list : Seq(Files), todo : Seq(Files), prepared : Seq(Files), landed : BOOLEAN,
     previous : Part]

TypeOK ==
    /\ disk \in [Files -> Texts]
    /\ part \in [Files -> Part]
    /\ core \in [Files -> Meanings]
    /\ Held => /\ op \in Operation
               /\ op.stage # "first" => op.job.kind = "pair"
               /\ op.at \in {"prepare", "rename"} => Saves(op.job)
    /\ up \in BOOLEAN
    /\ Held => up
    /\ fate \in [Numbers -> Fates]
    /\ raced \subseteq Files
    /\ faults \in 0 .. MaxFaults /\ crashes \in 0 .. MaxCrashes

\* A file that Irori takes for read says what Irori thinks it says: whatever a
\* person or a save of Irori's own wrote, and however it fell between the look
\* at a file and the reading of it, either the store has it or the next reload
\* gets it (reload_one, reload_extensions, save).  The exceptions are an edit
\* by hand made inside a save of the same file, and one that makes a file
\* between the look that did not find it and its reading, whose removal the
\* next look cannot tell from the file never having been there.
SeenRead ==
    ~Held => \A f \in Files \ raced :
                up /\ Unchanged(f) => part[f].value = disk[f].means

\* A change answered with a write error that names no file which stays changed has
\* left nothing: not in a file, not in the store, not in the core, whichever of
\* its writes or renames failed and whatever had to be put back (save,
\* save_extension_and_secrets, save_users_and_secrets).  Nothing of the kind is
\* said of the other answer that is not a success, the core's refusal of a forget:
\* RefusedLeavesNothing below says it, and the code does not keep it.
NothingLeft ==
    \A f \in Files :
        \A n \in {disk[f].means, part[f].value, core[f]} \ {0} : fate[n] # "failed"

\* The core never shows a change that was not kept, nor half of one that is
\* still being made: an extension is not started with its new settings before
\* the secrets that go with them (Config::edit, edit_extension_with_secrets).
\* Only a change torn by the end of the process or by a failed rename may show
\* in part.  A forget that the core refused is in the files whole, and shows once
\* the core is told of them.
CoreKept ==
    \A f \in Files : core[f] # 0 => fate[core[f]] \in {"hand", "done", "torn", "refused"}

\* A save never writes over an edit made by hand that parses and that Irori has
\* not read: every edit builds on what is on disk (Config::edit).  The exception is
\* an edit made inside a save of the same files.  A text that does not parse is not
\* an edit in this sense: a save that changes its file writes over it.
HandKept ==
    [][\A f \in Files \ raced :
          disk[f].kind = "hand" /\ disk'[f] # disk[f] /\ Unmade' = Unmade
            => part[f].value = disk[f].means]_vars

\* What the files say reaches the core, whoever wrote them, also while other
\* files do not parse, and whatever failed or ended on the way (Config::watch,
\* reload).
EditsArrive ==
    <>[](up => \A f \in Files \ raced : Readable(f) => core[f] = disk[f].means)

\* docs/specs/config.md says of an edit by hand and one in the page that
\* "either is visible to the other within the reload interval": an edit by
\* hand reaches the core unless the file is written again.
HandSeen ==
    \A f \in Files : \A n \in Numbers :
        disk[f] = [kind |-> "hand", means |-> n] /\ up
          ~> core[f] = n \/ disk[f].means # n \/ ~up

\* The test of Config::edit says that a refused edit "changes neither the files nor
\* the core".  It is so when the change itself refuses, but a forget that the core
\* refuses has saved its files by then (forget_rows).
RefusedLeavesNothing ==
    \A f \in Files :
        \A n \in {disk[f].means, part[f].value, core[f]} \ {0} : fate[n] # "refused"

\* What the store takes for read it has read (reload_one, reload_extensions, save),
\* and whoever holds the lock is where its job can be: only a job that saves is
\* ever in the middle of a write, and only a pair has a second one.
FilesOK == TypeOK /\ SeenRead

\* A change answered with an error that names no file which stays changed has left
\* nothing in a file, the store or the core, and the core shows no change that the
\* files did not keep (Config::edit, save, edit_extension_with_secrets).
ChangesKept == NothingLeft /\ CoreKept
=============================================================================
