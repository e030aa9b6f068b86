------------------------------ MODULE Packages ------------------------------
(***************************************************************************)
(* The package of one extension on disk (crates/irori-core, host.rs) and    *)
(* the work people ask for on it (crates/irori, server.rs): installing it   *)
(* from the catalogue or a URL, updating it, uninstalling it; and what the  *)
(* next start makes of work that a stop cut short.                          *)
(*                                                                         *)
(* Every change of the disk that can fail, or that a stop can come before   *)
(* or after, is a step.  A package is its version, told by its manifest     *)
(* (none: the manifest isn't there), and what the extension fetched into    *)
(* its folder while it ran.  Starting and stopping the extension are one    *)
(* step each: module Supervisor is about what they do.                      *)
(***************************************************************************)
EXTENDS Integers, FiniteSets, FiniteSetsExt, Functions

CONSTANTS
    Worker,         \* tasks of the server that do such work
    File,           \* what the extension may fetch for itself
    NoVersion, Nobody,
    MaxInputs,      \* bound: things asked for
    MaxStops,       \* bound: times Irori stops, at any moment
    MaxFaults       \* bound: operations on the disk that fail

ASSUME PackagesAssumption ==
    /\ MaxInputs \in Nat /\ MaxStops \in Nat /\ MaxFaults \in Nat
    /\ NoVersion \notin 1 .. MaxInputs /\ Nobody \notin Worker

Version == 1 .. MaxInputs
Package == [v : Version \cup {NoVersion}, extra : SUBSET File]

VARIABLES
    home,       \* packages_dir/<id>: a set, {} or the one package
    olds,       \* download-<n>.old: by stage, the packages updates moved aside
    stages,     \* download-<n>: by stage, the packages being fetched
    work,       \* what each worker is doing: [op, at, stage]
    claim,      \* the worker that has claimed the package
    running,    \* the extension has a supervisor
    phase,      \* Irori: "up", "down", "clearing"
    todo,       \* what clear_staging has still to look at
    inputs, stops, faults,  \* how much happened so far (bounds the model)
    gone,       \* history: the last thing done was to uninstall it
    last,       \* history: the version last put in place
    stranded,   \* history: the disk failed with the extension stopped
    leaving     \* history: an uninstall began to remove it, and nothing was put in place since

disk == <<home, olds, stages>>
bounds == <<inputs, stops, faults>>
history == <<gone, last, stranded, leaving>>
vars == <<home, olds, stages, work, claim, running, phase, todo, inputs, stops, faults,
          gone, last, stranded, leaving>>

Idle == [op |-> "none", at |-> "idle", stage |-> 0]

Init ==
    /\ home = {} /\ olds = <<>> /\ stages = <<>>
    /\ work = [w \in Worker |-> Idle] /\ claim = Nobody
    /\ running = FALSE /\ phase = "up" /\ todo = {}
    /\ inputs = 0 /\ stops = 0 /\ faults = 0
    /\ gone = FALSE /\ last = NoVersion /\ stranded = FALSE /\ leaving = FALSE

-----------------------------------------------------------------------------
(* Helpers                                                                  *)

With(f, x, y) == [z \in DOMAIN f \cup {x} |-> IF z = x THEN y ELSE f[z]]
Without(f, x) == Restrict(f, DOMAIN f \ {x})
TheHome == CHOOSE p \in home : TRUE
Readable(p) == p.v # NoVersion

\* An operation on the disk that fails.
Faulty == faults < MaxFaults /\ faults' = faults + 1
Fine == UNCHANGED faults

At(w, at) == work[w].at = at
Go(w, at) == work' = [work EXCEPT ![w].at = at]
Stage(w) == work[w].stage

\* The work is over: the worker answers, and its claim is dropped.
Done(w) ==
    /\ work' = [work EXCEPT ![w] = Idle]
    /\ claim' = IF claim = w THEN Nobody ELSE claim

\* Mutant: an error keeps the claim.
RefuseMutant(w) ==
    /\ work' = [work EXCEPT ![w] = Idle] /\ UNCHANGED claim
    /\ stages' = Without(stages, Stage(w))

\* ... with an error: what it staged is deleted.
Refuse(w) == Done(w) /\ stages' = Without(stages, Stage(w))

\* carry_over, one entry: what old has and new doesn't, the manifest included.
ToCarry(old, new) ==
    [v : IF Readable(old) /\ ~Readable(new) THEN {old.v} ELSE {}, extra : {{}}]
        \cup [v : {NoVersion}, extra : {{f} : f \in old.extra \ new.extra}]
Given(p, e) == [v |-> IF Readable(e) THEN e.v ELSE p.v, extra |-> p.extra \cup e.extra]
Taken(p, e) == [v |-> IF Readable(e) THEN NoVersion ELSE p.v, extra |-> p.extra \ e.extra]

\* remove_dir_all stopped or failing halfway: anything may be gone, the folder isn't.
Broken(p) == [v : {p.v, NoVersion}, extra : SUBSET p.extra]

-----------------------------------------------------------------------------
(* The work of the server's tasks                                           *)

\* Mutant: folders to fetch into are numbered from 0.
AskMutant(w, op) ==
    /\ phase = "up" /\ At(w, "idle") /\ inputs < MaxInputs
    /\ op # "url" => claim = Nobody
    /\ op = "install" => home = {}
    /\ inputs' = inputs + 1
    /\ work' = [work EXCEPT ![w] =
                  [op |-> op, at |-> IF op = "uninstall" THEN "stop" ELSE "stage",
                   stage |-> inputs]]
    /\ claim' = IF op = "url" THEN claim ELSE w
    /\ UNCHANGED <<disk, running, phase, todo, stops, faults, history>>

\* Work on a known id is claimed before anything else, and refused while other work has
\* the claim; so is an install of what is there. Work on a URL claims only once it is
\* fetched and its id is known.
Ask(w, op) ==
    /\ phase = "up" /\ At(w, "idle") /\ inputs < MaxInputs
    /\ op # "url" => claim = Nobody
    /\ op = "install" => home = {}
    /\ inputs' = inputs + 1
    /\ work' = [work EXCEPT ![w] =
                  [op |-> op, at |-> IF op = "uninstall" THEN "stop" ELSE "stage",
                   stage |-> inputs']]
    /\ claim' = IF op = "url" THEN claim ELSE w
    /\ UNCHANGED <<disk, running, phase, todo, stops, faults, history>>

\* new_stage: a folder of its own to fetch into.
NewStage(w) ==
    /\ At(w, "stage") /\ Go(w, "fetch")
    /\ stages' = With(stages, Stage(w), [v |-> NoVersion, extra |-> {}])
    /\ UNCHANGED <<home, olds, claim, running, phase, todo, bounds, history>>

\* The package is fetched into it, or can't be.
Fetched(w) ==
    /\ At(w, "fetch")
    /\ \/ /\ Fine /\ stages' = [stages EXCEPT ![Stage(w)].v = Stage(w)]
          /\ Go(w, IF work[w].op = "url" THEN "claim" ELSE "place") /\ UNCHANGED claim
       \/ Faulty /\ Refuse(w)
    /\ UNCHANGED <<home, olds, running, phase, todo, inputs, stops, history>>

\* install_url claims the id the fetched manifest gives itself.
Claim(w) ==
    /\ At(w, "claim")
    /\ IF claim = Nobody
       THEN claim' = w /\ Go(w, "place") /\ UNCHANGED stages
       ELSE Refuse(w)
    /\ UNCHANGED <<home, olds, running, phase, todo, bounds, history>>

\* install_package: refused if it runs or is there, else moved into place.
Install(w) ==
    /\ At(w, "place") /\ work[w].op # "update"
    /\ IF running \/ home # {}
       THEN Refuse(w) /\ Fine /\ UNCHANGED <<home, gone, last, leaving>>
       ELSE \/ /\ Fine /\ Go(w, "spawn") /\ UNCHANGED claim
               /\ home' = {stages[Stage(w)]} /\ stages' = Without(stages, Stage(w))
               /\ gone' = FALSE /\ last' = Stage(w) /\ leaving' = FALSE
            \/ Faulty /\ Refuse(w) /\ UNCHANGED <<home, gone, last, leaving>>
    /\ UNCHANGED <<olds, running, phase, todo, inputs, stops, stranded>>

\* spawn_package: what is in place is started if its manifest can be read.
Spawn(w) ==
    /\ At(w, "spawn") /\ Done(w)
    /\ running' = (home # {} /\ Readable(TheHome))
    /\ stranded' = FALSE
    /\ UNCHANGED <<disk, phase, todo, bounds, gone, last, leaving>>

\* update_package: only of what is there.
Update(w) ==
    /\ At(w, "place") /\ work[w].op = "update"
    /\ IF home = {} THEN Refuse(w) ELSE Go(w, "stop") /\ UNCHANGED <<claim, stages>>
    /\ UNCHANGED <<home, olds, running, phase, todo, bounds, history>>

\* Mutant: the extension's supervisor isn't waited for.
StopMutant(w) ==
    /\ At(w, "stop") /\ Go(w, IF work[w].op = "update" THEN "aside" ELSE "remove")
    /\ UNCHANGED <<disk, claim, running, phase, todo, bounds, history>>

\* It and uninstall stop the extension and wait for its supervisor to end; uninstall
\* then has the core forget its devices and what it stored.
Stop(w) ==
    /\ At(w, "stop") /\ running' = FALSE
    /\ Go(w, IF work[w].op = "update" THEN "aside" ELSE "remove")
    /\ UNCHANGED <<disk, claim, phase, todo, bounds, history>>

\* The old package is moved aside. If it can't be, that's the end of the update.
Aside(w) ==
    /\ At(w, "aside")
    /\ \/ /\ Fine /\ Go(w, "replace") /\ UNCHANGED <<claim, stages, stranded>>
          /\ olds' = With(olds, Stage(w), TheHome) /\ home' = {}
       \/ Faulty /\ Refuse(w) /\ stranded' = TRUE /\ UNCHANGED <<home, olds>>
    /\ UNCHANGED <<running, phase, todo, inputs, stops, gone, last, leaving>>

\* Mutant: the old one, back in place, isn't started.
ReplaceMutant(w) ==
    /\ At(w, "replace")
    /\ \/ /\ Fine /\ Go(w, "carry") /\ UNCHANGED <<claim, olds>>
          /\ home' = {stages[Stage(w)]} /\ stages' = Without(stages, Stage(w))
          /\ gone' = FALSE /\ last' = Stage(w) /\ leaving' = FALSE
       \/ /\ Faulty /\ Refuse(w) /\ UNCHANGED <<gone, last, leaving>>
          /\ home' = {olds[Stage(w)]} /\ olds' = Without(olds, Stage(w))
    /\ UNCHANGED <<running, phase, todo, inputs, stops, stranded>>

\* The new one is moved into place, or the old one back and started; if that fails too,
\* the old one stays aside for the next start.
Replace(w) ==
    /\ At(w, "replace")
    /\ \/ /\ Fine /\ Go(w, "carry") /\ UNCHANGED <<claim, olds, running>>
          /\ home' = {stages[Stage(w)]} /\ stages' = Without(stages, Stage(w))
          /\ gone' = FALSE /\ last' = Stage(w) /\ leaving' = FALSE
       \/ /\ Faulty /\ Refuse(w) /\ UNCHANGED <<gone, last, leaving>>
          /\ home' = {olds[Stage(w)]} /\ olds' = Without(olds, Stage(w))
          /\ running' = Readable(olds[Stage(w)])
       \/ /\ faults + 1 < MaxFaults /\ faults' = faults + 2
          /\ Refuse(w) /\ UNCHANGED <<home, olds, running, gone, last, leaving>>
    /\ UNCHANGED <<phase, todo, inputs, stops, stranded>>

\* Mutant: what couldn't be moved is deleted with the old package.
CarryOverMutant(w) ==
    /\ At(w, "carry")
    /\ LET left == ToCarry(olds[Stage(w)], TheHome)
       IN  \/ left = {} /\ Go(w, "drop") /\ Fine /\ UNCHANGED <<home, olds>>
           \/ \E e \in left :
                 /\ home' = {Given(TheHome, e)}
                 /\ olds' = [olds EXCEPT ![Stage(w)] = Taken(@, e)]
                 /\ Fine /\ UNCHANGED work
           \/ left # {} /\ Faulty /\ Go(w, "drop") /\ UNCHANGED <<home, olds>>
    /\ UNCHANGED <<stages, claim, running, phase, todo, inputs, stops, history>>

\* carry_over moves one entry of the old package after another; one that can't be moved
\* ends it, and the old package is kept.
CarryOver(w) ==
    /\ At(w, "carry")
    /\ LET left == ToCarry(olds[Stage(w)], TheHome)
       IN  \/ left = {} /\ Go(w, "drop") /\ Fine /\ UNCHANGED <<home, olds>>
           \/ \E e \in left :
                 /\ home' = {Given(TheHome, e)}
                 /\ olds' = [olds EXCEPT ![Stage(w)] = Taken(@, e)]
                 /\ Fine /\ UNCHANGED work
           \/ left # {} /\ Faulty /\ Go(w, "spawn") /\ UNCHANGED <<home, olds>>
    /\ UNCHANGED <<stages, claim, running, phase, todo, inputs, stops, history>>

\* The old package is deleted, entry by entry. A failure is ignored.
Drop(w) ==
    /\ At(w, "drop")
    /\ \/ Fine /\ olds' = Without(olds, Stage(w)) /\ Go(w, "spawn")
       \/ /\ \E p \in Broken(olds[Stage(w)]) : olds' = [olds EXCEPT ![Stage(w)] = p]
          /\ \/ Faulty /\ Go(w, "spawn")
             \/ Fine /\ olds' # olds /\ UNCHANGED work
    /\ UNCHANGED <<home, stages, claim, running, phase, todo, inputs, stops, history>>

\* uninstall deletes the package, entry by entry; a failure ends it.
Remove(w) ==
    /\ At(w, "remove")
    /\ \/ home' = {} /\ Go(w, "olds") /\ Fine /\ UNCHANGED <<claim, stranded>>
       \/ /\ home # {} /\ \E p \in Broken(TheHome) : home' = {p}
          /\ \/ Faulty /\ Done(w) /\ stranded' = TRUE
             \/ Fine /\ home' # home /\ UNCHANGED <<work, claim, stranded>>
    /\ leaving' = TRUE
    /\ UNCHANGED <<olds, stages, running, phase, todo, inputs, stops, gone, last>>

\* Mutant: the versions kept aside are left.
RemoveOldsMutant(w) ==
    /\ At(w, "olds") /\ Done(w) /\ gone' = TRUE /\ last' = NoVersion /\ leaving' = FALSE
    /\ UNCHANGED <<disk, running, phase, todo, bounds, stranded>>

\* remove_old_versions: and every version kept aside whose manifest says it's this one's.
RemoveOlds(w) ==
    /\ At(w, "olds")
    /\ \/ /\ \A n \in DOMAIN olds : ~Readable(olds[n])
          /\ Done(w) /\ Fine /\ gone' = TRUE /\ last' = NoVersion /\ leaving' = FALSE /\ UNCHANGED olds
       \/ \E n \in DOMAIN olds :
             /\ Readable(olds[n]) /\ UNCHANGED <<gone, last, leaving>>
             /\ \/ olds' = Without(olds, n) /\ Fine /\ UNCHANGED <<work, claim>>
                \/ \E p \in Broken(olds[n]) :
                      /\ olds' = [olds EXCEPT ![n] = p]
                      /\ Faulty /\ Done(w)
    /\ UNCHANGED <<home, stages, running, phase, todo, inputs, stops, stranded>>

\* Meanwhile the extension fetches what it needs into its own folder.
Fetch(f) ==
    /\ running /\ home # {} /\ f \notin TheHome.extra
    /\ home' = {[TheHome EXCEPT !.extra = @ \cup {f}]}
    /\ UNCHANGED <<olds, stages, work, claim, running, phase, todo, bounds, history>>

-----------------------------------------------------------------------------
(* Irori stops, at any moment, and starts                                   *)

Crash ==
    /\ phase # "down" /\ stops < MaxStops
    /\ phase' = "down" /\ stops' = stops + 1
    /\ work' = [w \in Worker |-> Idle] /\ claim' = Nobody /\ running' = FALSE
    /\ todo' = {}
    /\ UNCHANGED <<disk, inputs, faults, history>>

\* start_with_packages: first what a stop halfway left is cleared.
Boot ==
    /\ phase = "down" /\ phase' = "clearing"
    /\ todo' = ({"old"} \X DOMAIN olds) \cup ({"stage"} \X DOMAIN stages)
    /\ UNCHANGED <<disk, work, claim, running, bounds, history>>

\* clear_staging, on a package that was being fetched: deleted.
ClearStage(n) ==
    /\ phase = "clearing" /\ <<"stage", n>> \in todo
    /\ \/ Fine /\ stages' = Without(stages, n)
       \/ Faulty /\ UNCHANGED stages
    /\ todo' = todo \ {<<"stage", n>>}
    /\ UNCHANGED <<home, olds, work, claim, running, phase, inputs, stops, history>>

\* finish_update, on a package an update moved aside: left if it can't be read, put back
\* if nothing is in its place.
PutBack(n) ==
    /\ phase = "clearing" /\ <<"old", n>> \in todo
    /\ ~Readable(olds[n]) \/ home = {}
    /\ todo' = todo \ {<<"old", n>>}
    /\ \/ ~Readable(olds[n]) /\ Fine /\ UNCHANGED <<home, olds>>
       \/ Readable(olds[n]) /\ Fine /\ home' = {olds[n]} /\ olds' = Without(olds, n)
       \/ Readable(olds[n]) /\ Faulty /\ UNCHANGED <<home, olds>>
    /\ UNCHANGED <<stages, work, claim, running, phase, inputs, stops, history>>

\* ... and otherwise emptied into what took its place, then deleted; kept when something
\* couldn't be moved.
FinishUpdate(n) ==
    /\ phase = "clearing" /\ <<"old", n>> \in todo
    /\ home # {} /\ Readable(olds[n])
    /\ LET left == ToCarry(olds[n], TheHome)
       IN  \/ /\ left = {} /\ Fine /\ UNCHANGED home
               /\ olds' = Without(olds, n) /\ todo' = todo \ {<<"old", n>>}
           \/ /\ left = {} /\ Fine /\ UNCHANGED <<home, todo>>
               /\ \E p \in Broken(olds[n]) : olds' = [olds EXCEPT ![n] = p] /\ olds' # olds
           \/ /\ Fine /\ UNCHANGED todo
               /\ \E e \in left : /\ home' = {Given(TheHome, e)}
                                  /\ olds' = [olds EXCEPT ![n] = Taken(@, e)]
           \/ Faulty /\ todo' = todo \ {<<"old", n>>} /\ UNCHANGED <<home, olds>>
    /\ UNCHANGED <<stages, work, claim, running, phase, inputs, stops, history>>

\* Then what is installed is started (installed_packages, spawn_package).
StartPackages ==
    /\ phase = "clearing" /\ todo = {} /\ phase' = "up"
    /\ running' = (home # {} /\ Readable(TheHome)) /\ stranded' = FALSE
    /\ UNCHANGED <<disk, work, claim, todo, bounds, gone, last, leaving>>

-----------------------------------------------------------------------------
(* The specification                                                        *)

Work(w) ==
    \/ NewStage(w) \/ Fetched(w) \/ Claim(w) \/ Install(w) \/ Spawn(w)
    \/ Update(w) \/ Stop(w) \/ Aside(w) \/ Replace(w) \/ CarryOver(w) \/ Drop(w)
    \/ Remove(w) \/ RemoveOlds(w)

Start ==
    \/ Boot \/ StartPackages
    \/ \E n \in Version : ClearStage(n) \/ PutBack(n) \/ FinishUpdate(n)

Next ==
    \/ \E w \in Worker :
         \/ \E op \in {"install", "url", "update", "uninstall"} : Ask(w, op)
         \/ Work(w)
    \/ \E f \in File : Fetch(f)
    \/ Crash
    \/ Start

Spec == Init /\ [][Next]_vars

\* Tasks go on, and Irori is started again after it stopped (by the service manager).
FairSpec == Spec /\ WF_vars(Start) /\ \A w \in Worker : WF_vars(Work(w))

-----------------------------------------------------------------------------
(* Properties                                                               *)

Places ==
    {"idle", "stage", "fetch", "claim", "place", "spawn", "stop", "aside", "replace",
     "carry", "drop", "remove", "olds"}

\* What a worker does.
Doing ==
    [op : {"none", "install", "url", "update", "uninstall"}, at : Places,
     stage : 0 .. MaxInputs]

TypeOK ==
    /\ home \subseteq Package /\ Cardinality(home) <= 1
    /\ DOMAIN olds \subseteq Version /\ olds \in [DOMAIN olds -> Package]
    /\ DOMAIN stages \subseteq Version /\ stages \in [DOMAIN stages -> Package]
    /\ work \in [Worker -> Doing]
    /\ claim \in Worker \cup {Nobody}
    /\ running \in BOOLEAN /\ gone \in BOOLEAN /\ stranded \in BOOLEAN /\ leaving \in BOOLEAN
    /\ phase \in {"up", "down", "clearing"} /\ todo \subseteq {"old", "stage"} \X Version
    /\ inputs \in 0 .. MaxInputs /\ stops \in 0 .. MaxStops /\ faults \in 0 .. MaxFaults
    /\ last \in Version \cup {NoVersion}

Claimed == {"place", "spawn", "stop", "aside", "replace", "carry", "drop", "remove", "olds"}

\* The folder an extension runs from holds a whole package and nobody moves, empties or
\* deletes it meanwhile, whatever is asked for at the same time (claim, is_running, the
\* wait for the supervisor).
NotMovedWhileRunning ==
    running => /\ home # {} /\ Readable(TheHome)
               /\ \A w \in Worker : ~(work[w].at \in Claimed \ {"place", "stop"})

\* Uninstalled is uninstalled: through every later failure and stop, nothing of the
\* extension comes back at a start until it is installed again (remove_old_versions).
GoneStays == gone => home = {} /\ \A n \in DOMAIN olds : ~Readable(olds[n])

\* While nothing is being done to it, what is installed runs, however the last work on it
\* ended, except where the disk failed with the extension already stopped: an update that
\* couldn't move it aside, an uninstall that couldn't delete it.
InstalledRuns ==
    phase = "up" /\ claim = Nobody /\ home # {} /\ Readable(TheHome) => running \/ stranded

\* Whatever is asked for gets its answer, and the claim is free for the next.
WorkEnds == \A w \in Worker : claim = w ~> claim # w

\* While nobody uninstalls it, the version in place is the one last put there, whatever
\* stop came in between: a start puts back "the old package an update moved aside ... when
\* the new one never took its place" (clear_staging), not one replaced long before.
NewestBack ==
    phase = "up" /\ home # {} /\ Readable(TheHome) /\ ~leaving => TheHome.v = last

\* The package store this implements. With the package moved aside and nothing in its
\* place, the newest version moved aside is the one to be put back.
ReadableOlds == {n \in DOMAIN olds : Readable(olds[n])}
VersionsAside == {olds[n].v : n \in ReadableOlds}
InPlace == home # {} /\ Readable(TheHome)
InstalledVersion ==
    IF InPlace THEN TheHome.v
    ELSE IF home = {} /\ ReadableOlds # {} THEN Max(VersionsAside) ELSE NoVersion

Store == INSTANCE PackageStore WITH
    installed <- InstalledVersion,
    fetched <- (IF InPlace THEN TheHome.extra ELSE {})
                  \cup UNION {olds[n].extra : n \in ReadableOlds},
    spare <- VersionsAside \ {InstalledVersion},
    leaving <- leaving

\* Through failures, stops and starts, a package is put in place in one step, an update
\* loses nothing the extension fetched, and an older version comes back only if one was
\* kept aside because it couldn't all be carried over.
StoreKept == Store!StoreSpec

\* One package at most is in place, and nobody moves, empties or deletes it while
\* the extension runs from it (claim, is_running, the wait for the supervisor).
PackageOK == TypeOK /\ NotMovedWhileRunning
=============================================================================
