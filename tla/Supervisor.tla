----------------------------- MODULE Supervisor -----------------------------
(***************************************************************************)
(* One extension and the task that supervises it (crates/irori-core,        *)
(* host.rs): supervise and pump for one built into Irori, supervise_package *)
(* and drive for a package Irori runs as a process, and for a program that  *)
(* connects in by itself through the extension's door.                      *)
(*                                                                         *)
(* The supervisor is one task; pc says at which await it is.  Everything    *)
(* else happens meanwhile: a person changes the settings or turns the       *)
(* extension off, Irori stops it, the program hangs, dies or stops reading, *)
(* a program knocks.  A select polls its branches in the order the code     *)
(* lists them (biased), so each branch is guarded by the earlier ones not   *)
(* being ready.                                                             *)
(*                                                                         *)
(* Sleeps end when they end: a wait of the restart delay is one step.       *)
(* Waits are counted in units of first_retry.  The extension is a protocol; *)
(* what an engine adds (irori-core/engine.rs) is not here.                  *)
(***************************************************************************)
EXTENDS Integers, FiniteSetsExt

CONSTANTS
    Kind,           \* kinds of extension: among "builtin", "process", "inbound"
    Settings,       \* what its table of settings may be
    Unset,          \* those that lack a required field
    Bad,            \* those a built-in's own settings type refuses
    MaxRetry,       \* max_retry, in units of first_retry
    Room,           \* lines its pipe holds that it hasn't read
    MaxInputs,      \* bound: changes of settings and turnings off and on
    MaxFaults       \* bound: crashes, hangs and failed starts

ASSUME SupervisorAssumption ==
    /\ Kind \subseteq {"builtin", "process", "inbound"}
    /\ Unset \subseteq Settings /\ Bad \subseteq Settings
    /\ MaxRetry \in Nat \ {0} /\ Room \in Nat \ {0}
    /\ MaxInputs \in Nat /\ MaxFaults \in Nat

VARIABLES
    kind,           \* what kind of extension this is
    stop,           \* Irori told the supervisor to stop: shutdown, uninstall, update
    off,            \* a person turned the extension off
    cfg,            \* its settings as they are now
    pc,             \* where the supervisor is
    then,           \* where it goes on after delivering a line
    why,            \* how the run ended (Outcome)
    started_with,   \* the settings it last looked at
    delay,          \* the wait before the next restart
    healthy,        \* history: this run lasted healthy_after
    child,          \* the program
    pipe,           \* lines sent to the program it hasn't read
    door,           \* the door of one that connects in
    linked,         \* the core has its link: calls reach it
    available,      \* its entities are available
    status,         \* the status people see
    retry_at,       \* the wait the status promises a retry after; 0 is none
    inputs, faults  \* how much happened so far (bounds the model)

seen == <<linked, available, status, retry_at>>
outside == <<kind, stop, off, cfg, inputs, faults>>
vars == <<kind, stop, off, cfg, pc, then, why, started_with, delay, healthy, child, pipe,
          door, linked, available, status, retry_at, inputs, faults>>

Alive == {"up", "hung", "killed"}

Init ==
    /\ kind \in Kind /\ cfg \in Settings /\ off \in BOOLEAN
    /\ stop = FALSE /\ pc = "top" /\ then = "top" /\ why = "none"
    /\ started_with = cfg /\ delay = 1 /\ healthy = FALSE
    /\ child = "none" /\ pipe = 0 /\ door = "none"
    /\ linked = FALSE /\ available = FALSE /\ status = "none" /\ retry_at = 0
    /\ inputs = 0 /\ faults = 0

-----------------------------------------------------------------------------
(* The world around the supervisor                                          *)

Supervisor == <<pc, then, why, started_with, delay, healthy, linked, available, status, retry_at>>

\* A person saves other settings.
SetSettings ==
    /\ inputs < MaxInputs
    /\ cfg' \in Settings \ {cfg} /\ inputs' = inputs + 1
    /\ UNCHANGED <<Supervisor, kind, stop, off, child, pipe, door, faults>>

\* A person turns it off or on.
TurnOffOn ==
    /\ inputs < MaxInputs
    /\ off' = ~off /\ inputs' = inputs + 1
    /\ UNCHANGED <<Supervisor, kind, stop, cfg, child, pipe, door, faults>>

\* arm_stop: Irori shuts down, or removes or updates this extension.
ToldToStop ==
    /\ ~stop /\ stop' = TRUE
    /\ UNCHANGED <<Supervisor, kind, off, cfg, child, pipe, door, inputs, faults>>

\* The program ends, or hangs up: on its own, told to, or killed.
Dies ==
    /\ child \in Alive /\ child' = "dead" /\ pipe' = 0
    /\ faults' = IF child = "killed" \/ pc = "grace" THEN faults ELSE faults + 1
    /\ faults' <= MaxFaults
    /\ UNCHANGED <<Supervisor, kind, stop, off, cfg, door, inputs>>

\* The program no longer reads what it's sent, nor returns when told to.
Hangs ==
    /\ child = "up" /\ faults < MaxFaults
    /\ child' = "hung" /\ faults' = faults + 1
    /\ UNCHANGED <<Supervisor, kind, stop, off, cfg, pipe, door, inputs>>

\* The program reads a line.
Reads ==
    /\ child = "up" /\ pipe > 0 /\ pipe' = pipe - 1
    /\ UNCHANGED <<Supervisor, outside, child, door>>

\* offer: a program knocks. The link is sent while the doors are locked; a supervisor
\* that no longer listens (pc = "leave") drops it.
Offer ==
    /\ kind = "inbound" /\ door = "waiting"
    /\ IF pc = "door"
       THEN door' = "connected" /\ child' = "up" /\ pipe' = 0
       ELSE door' = "none" /\ UNCHANGED <<child, pipe>>
    /\ UNCHANGED <<Supervisor, outside>>

\* The run has lasted healthy_after.
Ages ==
    /\ pc = "running" /\ child \in Alive /\ ~healthy /\ healthy' = TRUE
    /\ UNCHANGED <<outside, pc, then, why, started_with, delay, child, pipe, door, seen>>

-----------------------------------------------------------------------------
(* The top of the loop, and the waits that go back to it                    *)

\* What a step of the loop leaves alone unless it says otherwise.
World == <<outside, child, pipe, door>>

Show(s, wait) == status' = s /\ retry_at' = wait
Gone == pc' = "gone"
GoneDisabled == Gone /\ Show("disabled", 0)

Top ==
    /\ pc = "top"
    /\ \/ off /\ pc' = "off" /\ Show("disabled", 0) /\ UNCHANGED started_with
       \/ ~off /\ stop /\ GoneDisabled /\ UNCHANGED started_with
       \/ /\ ~off /\ ~stop /\ started_with' = cfg
          /\ IF cfg \in Unset
             THEN pc' = "setup" /\ Show("needs_setup", 0)
             ELSE pc' = "start" /\ UNCHANGED <<status, retry_at>>
    /\ UNCHANGED <<World, then, why, delay, healthy, linked, available>>

Loop == <<World, then, why, started_with, healthy, linked, available>>

\* Turned off: until it's turned on again.
StayOff ==
    /\ pc = "off"
    /\ \/ stop /\ Gone /\ UNCHANGED delay
       \/ ~stop /\ ~off /\ pc' = "top" /\ delay' = 1
    /\ UNCHANGED <<Loop, status, retry_at>>

\* Mutant: a stop isn't looked for while a required field is missing.
NeedsSetupMutant ==
    /\ pc = "setup" /\ pc' = "top"
    /\ \/ cfg # started_with /\ delay' = 1
       \/ cfg = started_with /\ off /\ UNCHANGED delay
    /\ UNCHANGED <<Loop, status, retry_at>>

\* A required field is missing: until the settings change.
NeedsSetup ==
    /\ pc = "setup"
    /\ \/ stop /\ GoneDisabled /\ UNCHANGED delay
       \/ /\ ~stop /\ cfg # started_with /\ pc' = "top" /\ delay' = 1
          /\ UNCHANGED <<status, retry_at>>
       \/ /\ ~stop /\ cfg = started_with /\ off /\ pc' = "top"
          /\ UNCHANGED <<delay, status, retry_at>>
    /\ UNCHANGED Loop

\* Mutant: other settings don't end the wait.
RefusedMutant ==
    /\ pc = "refused"
    /\ \/ stop /\ GoneDisabled
       \/ ~stop /\ off /\ pc' = "top" /\ UNCHANGED <<status, retry_at>>
    /\ UNCHANGED <<Loop, delay>>

\* Mutant: being turned off doesn't end the wait.
RefusedStays ==
    /\ pc = "refused"
    /\ \/ stop /\ GoneDisabled
       \/ ~stop /\ cfg # started_with /\ pc' = "top" /\ UNCHANGED <<status, retry_at>>
    /\ UNCHANGED <<Loop, delay>>

\* A built-in refused its settings, or the process couldn't be started at all: no retry.
Refused ==
    /\ pc = "refused"
    /\ \/ /\ stop /\ Gone
          /\ IF kind = "builtin" THEN Show("disabled", 0) ELSE UNCHANGED <<status, retry_at>>
       \/ /\ ~stop /\ (cfg # started_with \/ off) /\ pc' = "top"
          /\ UNCHANGED <<status, retry_at>>
    /\ UNCHANGED <<Loop, delay>>

\* Mutant: the wait has no limit.
DoubledMutant == 2 * delay

Doubled == Min({2 * delay, MaxRetry})

\* Mutant: stopped while it waits, it leaves the promise of a retry behind.
BackoffMutant ==
    /\ pc = "backoff"
    /\ \/ stop /\ Gone /\ UNCHANGED delay
       \/ ~stop /\ cfg # started_with /\ pc' = "top" /\ delay' = 1
       \/ ~stop /\ cfg = started_with /\ pc' = "top" /\ delay' = Doubled
    /\ UNCHANGED <<Loop, status, retry_at>>

\* The extension failed: wait, then start it again.
Backoff ==
    /\ pc = "backoff"
    /\ \/ stop /\ GoneDisabled /\ UNCHANGED delay
       \/ /\ ~stop /\ cfg # started_with /\ pc' = "top" /\ delay' = 1
          /\ UNCHANGED <<status, retry_at>>
       \/ /\ ~stop /\ cfg = started_with /\ off /\ pc' = "top"
          /\ UNCHANGED <<delay, status, retry_at>>
       \/ /\ ~stop /\ cfg = started_with /\ ~off /\ pc' = "top" /\ delay' = Doubled
          /\ UNCHANGED <<status, retry_at>>
    /\ UNCHANGED Loop

\* The process couldn't be greeted: the same wait, but only a stop ends it early.
Unheard ==
    /\ pc = "unheard"
    /\ \/ stop /\ Gone /\ UNCHANGED delay
       \/ ~stop /\ pc' = "top" /\ delay' = Doubled
    /\ UNCHANGED <<Loop, status, retry_at>>

-----------------------------------------------------------------------------
(* Starting                                                                 *)

\* Says it is starting; for one that connects in, opens its door and looks at the
\* settings once more (wait_for_program).
Start ==
    /\ pc = "start"
    /\ IF kind = "inbound"
       THEN /\ pc' = "door" /\ door' = "waiting" /\ Show("waiting", 0)
            /\ started_with' = cfg
       ELSE /\ pc' = "starting" /\ Show("starting", 0)
            /\ UNCHANGED <<door, started_with>>
    /\ UNCHANGED <<outside, child, pipe, then, why, delay, healthy, linked, available>>

\* Linked, running, nothing said yet.
Begin ==
    /\ pc' = "running" /\ linked' = TRUE /\ healthy' = FALSE /\ why' = "none"
    /\ Show("running", 0)

\* Mutant: however long it ran, the wait goes on growing.
FailMutant == pc' = "backoff" /\ Show("failed", delay) /\ UNCHANGED delay

\* It failed: the wait starts over if it ran for healthy_after.
Fail == /\ delay' = IF healthy THEN 1 ELSE delay
        /\ pc' = "backoff" /\ Show("failed", delay')

\* supervise: a built-in's start works, refuses its settings, or panics.
StartBuiltin ==
    /\ pc = "starting" /\ kind = "builtin"
    /\ \/ /\ started_with \notin Bad
          /\ Begin /\ child' = "up" /\ UNCHANGED <<delay, faults>>
       \/ /\ started_with \in Bad
          /\ pc' = "refused" /\ Show("failed", 0)
          /\ UNCHANGED <<delay, child, linked, healthy, why, faults>>
       \/ /\ faults < MaxFaults /\ faults' = faults + 1
          /\ pc' = "backoff" /\ Show("failed", delay) /\ healthy' = FALSE
          /\ UNCHANGED <<delay, child, linked, why>>
    /\ UNCHANGED <<kind, stop, off, cfg, inputs, then, started_with, pipe, door, available>>

\* supervise_package: the process is started, or can't be.
Spawn ==
    /\ pc = "starting" /\ kind = "process"
    /\ \/ pc' = "hello" /\ child' = "up" /\ pipe' = 0 /\ UNCHANGED <<faults, status, retry_at>>
       \/ /\ faults < MaxFaults /\ faults' = faults + 1
          /\ pc' = "refused" /\ Show("failed", 0) /\ UNCHANGED <<child, pipe>>
    /\ UNCHANGED <<kind, stop, off, cfg, inputs, then, why, started_with, delay, healthy, door,
                   linked, available>>

\* It is told its settings.
Hello ==
    /\ pc = "hello" /\ child # "dead"
    /\ Begin /\ pipe' = pipe + 1
    /\ UNCHANGED <<outside, child, door, then, started_with, delay, available>>

\* It can't be told: it ended, or closed its end. A process is killed and waited for; a
\* program that hung up may knock again.
HelloFailed ==
    /\ pc = "hello"
    /\ \/ child = "dead" /\ UNCHANGED faults
       \/ child \in Alive /\ faults < MaxFaults /\ faults' = faults + 1
    /\ IF kind = "inbound"
       THEN pc' = "top" /\ door' = "none" /\ child' = "none" /\ UNCHANGED why
       ELSE /\ pc' = "reading" /\ why' = "unheard" /\ UNCHANGED door
            /\ child' = IF child = "dead" THEN "dead" ELSE "killed"
    /\ UNCHANGED <<kind, stop, off, cfg, inputs, pipe, then, started_with, delay, healthy, seen>>

\* wait_for_program: a stop, a turning off or other settings make the supervisor drop its
\* end of the door; a knock it heard first it goes on with.
Door ==
    /\ pc = "door"
    /\ \/ /\ stop \/ off \/ cfg # started_with
          /\ pc' = "leave" /\ why' = IF stop THEN "stopped" ELSE "again"
          /\ child' = "none"
       \/ /\ ~stop /\ ~off /\ cfg = started_with /\ door = "connected"
          /\ pc' = "hello" /\ UNCHANGED <<why, child>>
    /\ UNCHANGED <<outside, pipe, door, then, started_with, delay, healthy, seen>>

\* Mutant: stopped, it leaves its door open.
LeaveMutant ==
    /\ pc = "leave"
    /\ IF why = "stopped"
       THEN GoneDisabled /\ UNCHANGED door
       ELSE pc' = "top" /\ door' = "none" /\ UNCHANGED <<status, retry_at>>
    /\ UNCHANGED <<outside, child, pipe, then, why, started_with, delay, healthy, linked,
                   available>>

\* ... and then to take the door away, whatever it has become meanwhile (abandon).
Leave ==
    /\ pc = "leave" /\ door' = "none"
    /\ IF why = "stopped" THEN GoneDisabled ELSE pc' = "top" /\ UNCHANGED <<status, retry_at>>
    /\ UNCHANGED <<outside, child, pipe, then, why, started_with, delay, healthy, linked,
                   available>>

-----------------------------------------------------------------------------
(* Running: pump and drive                                                  *)

\* Hands the program a line; a full pipe is waited for, and nothing else is looked at.
Deliver(next) == pc' = "deliver" /\ then' = next

Delivered ==
    /\ pc = "deliver"
    /\ \/ /\ child = "dead" /\ UNCHANGED pipe
          /\ pc' = IF then = "running" THEN "unlink" ELSE then
          /\ why' = IF then = "running" THEN "ended" ELSE why
       \/ child # "dead" /\ pipe < Room /\ pipe' = pipe + 1 /\ pc' = then /\ UNCHANGED why
    /\ UNCHANGED <<outside, child, door, then, started_with, delay, healthy, seen>>

Exited == child = "dead" /\ kind # "inbound"
Quiet == ~stop /\ ~Exited /\ cfg = started_with /\ ~off

\* Mutant: other settings don't restart it.
RunningMutant ==
    /\ pc = "running"
    /\ \/ stop /\ why' = "stopped"
       \/ ~stop /\ ~Exited /\ off /\ why' = "disabled"
    /\ CASE kind = "builtin" -> pc' = "grace" /\ UNCHANGED then
         [] kind = "process" -> Deliver("grace")
         [] kind = "inbound" -> pc' = "unlink" /\ UNCHANGED then
    /\ UNCHANGED <<World, started_with, delay, healthy, seen>>

\* What ends the first loop. A program that connected in is only let go of.
Running ==
    /\ pc = "running"
    /\ \/ stop /\ why' = "stopped"
       \/ ~stop /\ ~Exited /\ cfg # started_with /\ why' = "reconfigured"
       \/ ~stop /\ ~Exited /\ cfg = started_with /\ off /\ why' = "disabled"
    /\ CASE kind = "builtin" -> pc' = "grace" /\ UNCHANGED then
         [] kind = "process" -> Deliver("grace")
         [] kind = "inbound" -> pc' = "unlink" /\ UNCHANGED then
    /\ UNCHANGED <<World, started_with, delay, healthy, seen>>

\* It ended by itself: it exited, hung up, or said what can't be read.
Ended ==
    /\ pc = "running"
    /\ \/ ~stop /\ Exited /\ UNCHANGED faults
       \/ Quiet /\ child = "dead" /\ UNCHANGED faults
       \/ /\ Quiet /\ kind # "builtin" /\ child \in Alive
          /\ faults < MaxFaults /\ faults' = faults + 1
    /\ pc' = "unlink" /\ why' = "ended"
    /\ UNCHANGED <<kind, stop, off, cfg, inputs, child, pipe, door, then, started_with, delay,
                   healthy, seen>>

\* A call or an action goes out to it.
Call ==
    /\ pc = "running" /\ kind # "builtin" /\ Quiet /\ linked
    /\ Deliver("running")
    /\ UNCHANGED <<World, why, started_with, delay, healthy, seen>>

\* It says something: its entities are available. A request is answered on the pipe.
Says ==
    /\ child = "up"
    /\ \/ pc = "running" /\ Quiet
       \/ pc = "grace"
    /\ available' = TRUE
    /\ \/ UNCHANGED <<pc, then>>
       \/ kind # "builtin" /\ Deliver(pc)
    /\ UNCHANGED <<World, why, started_with, delay, healthy, linked, status, retry_at>>

\* Told to stop: it ends, or the grace period does and it is cancelled or killed.
Grace ==
    /\ pc = "grace" /\ pc' = "unlink"
    /\ \/ child = "dead" /\ UNCHANGED <<child, pipe>>
       \/ child # "dead" /\ kind = "builtin" /\ child' = "dead" /\ UNCHANGED pipe
       \/ child # "dead" /\ kind = "process" /\ child' = "killed" /\ UNCHANGED pipe
    /\ UNCHANGED <<outside, door, then, why, started_with, delay, healthy, seen>>

\* Mutant: its entities stay as available as it left them.
UnlinkMutant ==
    /\ pc = "unlink" /\ linked' = FALSE
    /\ door' = IF door = "connected" THEN "none" ELSE door
    /\ IF kind = "builtin" THEN pc' = "outcome" /\ UNCHANGED then ELSE Deliver("kill")
    /\ UNCHANGED <<outside, child, pipe, why, started_with, delay, healthy, available, status,
                   retry_at>>

\* After the run: the links go, its entities are unavailable, and the door of one that
\* connected in is no longer taken (EndConnection). Then it's told to stop once more.
Unlink ==
    /\ pc = "unlink" /\ linked' = FALSE /\ available' = FALSE
    /\ door' = IF door = "connected" THEN "none" ELSE door
    /\ IF kind = "builtin" THEN pc' = "outcome" /\ UNCHANGED then ELSE Deliver("kill")
    /\ UNCHANGED <<outside, child, pipe, why, started_with, delay, healthy, status, retry_at>>

\* Mutant: the process is told to stop, and left to it.
KillMutant ==
    /\ pc = "kill" /\ pc' = IF kind = "process" THEN "reading" ELSE "outcome"
    /\ UNCHANGED <<World, then, why, started_with, delay, healthy, seen>>

\* start_kill.
Kill ==
    /\ pc = "kill"
    /\ IF kind = "process"
       THEN /\ pc' = "reading"
            /\ child' = IF child \in Alive THEN "killed" ELSE child
       ELSE pc' = "outcome" /\ UNCHANGED child
    /\ UNCHANGED <<outside, pipe, door, then, why, started_with, delay, healthy, seen>>

\* finish_reading: until its stderr closes, as it does when it ends, but no longer than
\* two seconds: the system may be unable to end it.
FinishReading ==
    /\ pc = "reading" /\ pc' = "outcome"
    /\ \/ child = "dead" /\ UNCHANGED faults
       \/ child # "dead" /\ faults < MaxFaults /\ faults' = faults + 1
    /\ UNCHANGED <<kind, stop, off, cfg, inputs, child, pipe, door, then, why, started_with,
                   delay, healthy, seen>>

\* What the outcome leads to.
Ending ==
    /\ pc = "outcome" /\ pipe' = 0
    /\ child' = IF kind = "process" /\ child \in Alive THEN child ELSE "none"
    /\ CASE why = "stopped" -> GoneDisabled /\ UNCHANGED delay
         [] why = "disabled" -> pc' = "top" /\ UNCHANGED <<delay, status, retry_at>>
         [] why = "reconfigured" ->
              /\ pc' = "top" /\ delay' = IF kind = "inbound" THEN delay ELSE 1
              /\ UNCHANGED <<status, retry_at>>
         [] why = "unheard" -> pc' = "unheard" /\ Show("failed", 0) /\ UNCHANGED delay
         [] why = "ended" ->
              CASE kind = "builtin" -> Fail
                [] kind = "process" -> pc' = "backoff" /\ Show("failed", delay) /\ UNCHANGED delay
                [] kind = "inbound" -> pc' = "top" /\ UNCHANGED <<delay, status, retry_at>>
    /\ UNCHANGED <<outside, door, then, why, started_with, healthy, linked, available>>

-----------------------------------------------------------------------------
(* The specification                                                        *)

Supervise ==
    \/ Top \/ StayOff \/ NeedsSetup \/ Refused \/ Backoff \/ Unheard
    \/ Start \/ StartBuiltin \/ Spawn \/ Hello \/ HelloFailed \/ Door \/ Leave
    \/ Delivered \/ Running \/ Ended \/ Grace
    \/ Unlink \/ Kill \/ FinishReading \/ Ending

Next ==
    \/ SetSettings \/ TurnOffOn \/ ToldToStop \/ Dies \/ Hangs \/ Reads \/ Offer \/ Ages
    \/ Call \/ Says
    \/ Supervise

Spec == Init /\ [][Next]_vars

\* The supervisor's task goes on when a branch it waits for is ready, sleeps end, a killed
\* process ends, and a program that reads its pipe goes on reading it. The end of the grace
\* period is polled before what the program says, so talking doesn't put it off. Nobody
\* has to change anything, and no program has to say or end anything.
FairSpec ==
    /\ Spec
    /\ WF_vars(Supervise)
    /\ SF_vars(Grace)
    /\ WF_vars(child = "killed" /\ Dies)
    /\ WF_vars(Reads)

-----------------------------------------------------------------------------
(* Properties                                                               *)

Flags ==
    /\ stop \in BOOLEAN /\ off \in BOOLEAN /\ healthy \in BOOLEAN
    /\ linked \in BOOLEAN /\ available \in BOOLEAN

Values ==
    /\ kind \in Kind /\ {cfg, started_with} \subseteq Settings
    /\ pc \in {"top", "off", "setup", "refused", "backoff", "unheard", "start", "starting",
                "hello", "door", "leave", "running", "deliver", "grace", "unlink", "kill",
                "reading", "outcome", "gone"}
    /\ then \in {"top", "running", "grace", "kill"}
    /\ why \in {"none", "stopped", "reconfigured", "disabled", "ended", "unheard", "again"}
    /\ delay \in 1 .. MaxRetry /\ retry_at \in 0 .. MaxRetry
    /\ child \in Alive \cup {"none", "dead"} /\ pipe \in 0 .. Room
    /\ door \in {"none", "waiting", "connected"}
    /\ status \in {"none", "disabled", "needs_setup", "waiting", "starting", "running", "failed"}
    /\ inputs \in 0 .. MaxInputs /\ faults \in 0 .. MaxFaults

TypeOK == Flags /\ Values

\* In the middle of a run: from the link to the program until it is taken away.
Driving ==
    \/ pc \in {"running", "grace", "unlink"}
    \/ pc = "deliver" /\ then # "kill"

\* Calls reach the extension, and its entities count as available, exactly while a
\* supervisor drives its program; whatever ended the run, they don't afterwards.
LinkLives == /\ linked <=> Driving
             /\ available => Driving

\* Between two runs, and once the supervisor is gone, no program is left but one that was
\* killed: a restart never puts a second one beside it, and an update or uninstall that
\* waited for the supervisor finds the package unused (start_kill, finish_reading, abort).
NoneLeft ==
    child \in {"up", "hung"} =>
        Driving \/ pc \in {"hello", "door", "deliver", "kill", "reading", "outcome"}

\* A program is let in only while a supervisor listens for it or drives it, and a door is
\* open only while one listens: offer, whatever it races with, leaves no door behind
\* that would refuse every later program (offer, abandon, note_disconnected).
DoorOK ==
    /\ door = "connected" => pc \in {"door", "leave", "hello"} \/ Driving
    /\ door = "waiting" => pc \in {"door", "leave"}

\* People see the truth: running only from a run's start to its outcome, a retry only
\* while the supervisor waits for that long to start it again, and no more of starting,
\* waiting or setting up once the supervisor is gone.
StatusTrue ==
    /\ status = "running" => Driving \/ pc \in {"deliver", "kill", "reading", "outcome", "top", "start"}
    /\ pc = "backoff" => status = "failed" /\ retry_at = delay
    /\ retry_at # 0 => pc \in {"backoff", "top", "start"}
    /\ pc = "gone" => status \in {"disabled", "failed"} /\ retry_at = 0

\* A built-in that ran for healthy_after and then failed is started again after
\* first_retry (supervise).
HealthyBuiltin == kind = "builtin" /\ healthy /\ pc = "backoff" => delay = 1

\* The same of every extension, as protocols.md and Timing::healthy_after say.
HealthyReset == healthy /\ pc = "backoff" => delay = 1

\* No program is greeted with settings that lack a required field, as missing_required is
\* there to see to.
SetUp == linked => started_with \notin Unset

\* The supervisor waits for room in the pipe of a program that no longer reads.
Stuck == pc = "deliver" /\ child = "hung" /\ pipe = Room

\* Told to stop, the supervisor ends, whatever it was doing, unless it is stuck on a
\* program that reads nothing (shutdown, uninstall and update_package wait for it).
StopEnds == stop ~> (pc = "gone" \/ Stuck)

\* Told to stop, the supervisor ends: within the grace period or by killing the program.
StopAlwaysEnds == stop ~> pc = "gone"

\* Turned off for good, the extension comes to rest: no program, and disabled.
OffEnds ==
    <>[](off /\ ~stop) =>
        <>[](Stuck \/ (pc = "off" /\ child \notin {"up", "hung"} /\ status = "disabled"))

\* A running program ends up with the settings as they are, however many times they
\* changed and whatever the supervisor was doing meanwhile (settings_changed).
SettingsArrive == <>[](pc = "running" => started_with = cfg)

\* Left on with settings it can use, an extension whose program stops failing runs again,
\* or waits for its program to connect. Only a process that couldn't be started at all
\* is not tried again.
Recovers ==
    <>[](~stop /\ ~off /\ cfg \notin Unset \cup Bad)
        => <>[](\/ Stuck \/ status = "running" \/ pc \in {"door", "hello"}
                \/ pc = "refused" /\ kind = "process")

\* Whatever ended a run (drive, start_kill, finish_reading, abort), the extension
\* is linked and available exactly while its program is driven, and no program is
\* left beside the next one or behind the supervisor.
Driven == TypeOK /\ LinkLives /\ NoneLeft

\* What people see of an extension is what its supervisor does with it, and one
\* built in that had run for healthy_after waits no longer than first_retry to be
\* started again (supervise).
StatusOK == StatusTrue /\ HealthyBuiltin

\* Whatever changed and failed before, the supervisor settles on the settings as
\* they are and, left on with settings it can use, on a program that runs or is
\* waited for (settings_changed, supervise).
Settles == SettingsArrive /\ Recovers
=============================================================================
