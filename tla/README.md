# TLA+ models of Irori OS

Irori OS is a home hub: a daemon (`crates/irori`) around a core (`crates/irori-core`) that
keeps the home's devices, entities and their states, sends service calls to the protocols that
talk to the devices, and tells people and automations what changed. Protocols and other
extensions are built in or run as processes of their own; flows, helpers, the recorder, backups
and the web server sit on top of the core.

This directory holds TLA+ specifications of the parts where the order of events decides whether
the hub is right, the TLC configurations that check them, and TLAPS proofs. Each definition is
translated from the source; `PROJECT.json` maps it to the lines it stands for.

To check a run: `tlc -workers 2 -config <run>.cfg <MC module>`. To check the proofs of a module:
`tlapm <module>Proofs.tla`, for the eight of the table in section 2.

## 1. The system's parts

| Part | State it keeps | Operations | What is hard |
|---|---|---|---|
| Registry and live state (`irori-core/src/home.rs`) | devices and entities with their keys, descriptions and states; found devices; settings; remembered calls and commands | describe, remove, report, availability, hold, admit, forget, remove a protocol, apply settings | long sequences of legal operations; replaying an old description against a registry that changed since |
| Update installs (`installs.rs`, `home/updates.rs`, `lib.rs`) | per protocol who installs and who waits; skipped versions; update states | install, skip, clear, report, watch, time out, forget | five kinds of task interleave; the home and the line have separate locks; events are heard after the lock that made them is released |
| Service calls (`lib.rs`) | the call lock of each entity, remembered calls and commands | take the turn, resolve, record, check, deliver, answer, abandon, clean up | futures dropped at any await; guards that undo; a map entry dropped by whoever is last |
| Reach and its cache (`reach.rs`, `people.rs`, `lib.rs`) | what each list of rooms holds, by registry revision | ask; change, count and announce | read of a counter, a mutex and a read lock in sequence, against writers that do the same backwards |
| Report queue (`irori-protocol/src/lib.rs`, `process.rs`, `host.rs`) | pending reports per entity, drop counter, wake-up | push, drain, pop, put back, offer, end | full queues, put-back against newer reports, lost wake-ups, a protocol that ends |
| Extension host (`host.rs`) | per extension a supervisor, its backoff, its link, its door, its status | start, crash, retry, stop, reconfigure, turn off and on | several reasons to stop ready together; programs that hang, or no longer read |
| Packages (`host.rs`, `server.rs`) | the folder of each package, stages and old versions beside it, who has claimed it | install, update, uninstall, clear up at start | an end of the process or a failure between any two renames |
| Extension wire (`host.rs` drive, `process.rs`) | two bounded pipes, pending replies | call, answer, operation, reply, stop | both ends waiting for room; late answers; a process that ends with lines unread |
| Flows engine (`irori-flows`) | flows, runs, tokens, holds, timers, queues | fire, step, wait, join, cancel, replace, resync | modes, joins whose branches ended some other way, queued firings when a flow changes |
| Rules (`irori-rules`) | none | evaluate, next clock moment | numeric and calendar edges |
| Recorder (`irori-recorder`) | SQLite tables, batches | record, downsample, purge, query | batches against purges |
| Configuration (`irori-config`, `crates/irori/src/config.rs`) | TOML files; what each last said and looked like | reload, edit, save together, put back, watch | files edited by hand meanwhile; a write or rename that fails half way |
| Helpers (`irori-helpers`) | timers, counters, computed values | operate, recompute, restore | computed values that depend on one another |
| Server, people, sessions (`crates/irori/src/server*`) | sessions, tokens, live connections | log in, subscribe, act | events filtered by a reach that changes |
| Backups, self-update (`crates/irori/src`) | archives, staged binaries | back up, restore, replace | interrupted half way |
| Assistant, audit, history, CLI, UI, protocol extensions, libraries | | | left aside: see section 7 |

How they interact: a protocol's operations reach the core through bounded queues and its
reports through the report queue; the host applies both to the home under the home's write
lock. Each change returns events that are published after the lock is released, and publishing
is also how the registry revision is counted and how the line of installs hears of an update.
Calls go the other way, from people, flows and the line, through the entity's call lock to the
protocol's queue. The host starts each extension with the settings the configuration gives the
core, and restarts it when they change; the server has it stop an extension before its package is
moved. The Automations extension drives the flows engine, which calls services and hears states
like anybody else.

What makes each part correct is stated as properties in its module; `PROJECT.json` lists the
hazards they are aimed at, at their lines.

## 2. Modules

| Module | Models | Instance | Proofs |
|---|---|---|---|
| `Installs` | the line of installs and every task that touches it | `MCInstalls` | `InstallsProofs` |
| `Registry` | the home under its write lock | `MCRegistry` | `RegistryProofs` |
| `ServiceCalls` | concurrent calls on one entity | `MCServiceCalls` | `ServiceCallsProofs` |
| `ReachCache` | `reach_for` against `change` and `publish` | `MCReachCache` | `ReachCacheProofs` |
| `ReportQueue` | the report queue and both loops that empty it | `MCReportQueue` | `ReportQueueProofs` |
| `Flows` | the flows engine and the loop that drives it | `MCFlows` | model-checked only |
| `Supervisor` | the supervisor of one extension, built in, packaged or inbound | `MCSupervisor` | `SupervisorProofs` |
| `Packages` | work on the package of one extension, and the next start | `MCPackages` | `PackagesProofs` |
| `PackageStore` | what `Packages` promises: one version or none, changed at once | refined by `Packages` | `PackagesProofs` |
| `Config` | the store of configuration files and what the core is told | `MCConfig` | `ConfigProofs` |

Each `MC` module EXTENDS its specification and adds the constants and symmetry sets the
configurations use. A definition whose comment begins "Mutated form of" or "Mutant" is not part of
the specification: it is the shape a plausible mistake would give the definition that follows it,
and is used to see that a property notices.

### Installs

A task (a caller, the task that sends what comes off the line, a late watcher, a report being
applied, a removal) is a record in `th` with a program counter. One action is what a task does
under one hold of the home's lock, the line's lock or the entity's call lock, or at one await.
`upd` and `skips` are the home's; `running`, `waiting` are `Installs::lines`; `watchers` counts
the sleeping `watch_install` tasks. `Publish` followed by `Heard` is `change` followed by
`publish`: the event carries the state as it was, and is heard later. Versions are `1..MaxVersion`;
an update state keeps the fields the code branches on. Attributes of an update that nothing
branches on (its progress, the wording of an error) are the choice `other` in the reports, which
decides only whether an event is published. `turn`, `sent`, `over` and `passed` are history that
no guard reads. Handing the turn on and spawning its watcher is one step: nothing can fail or be
awaited between the two in `next_install`.

### Registry

The home is one record and every operation an operator from home to home, as `hold` and `admit`
are built of the others. A device is known by its handle (`Dev`), its id by `device_id_for`
(`IdOf`), which need not be injective; an entity by its handle. `Hosts`, `Vias` and `Abilities`
say what a protocol may describe. One protocol is modelled: keys of two protocols never meet.
`reaches` follows `via_device_id` for as many hops as there are devices; `Reaches` says the same by
the sets of ids that such hops never leave, which agrees with the count as long as there is no loop
(`ViaOK`), and needs no recursion. `known` and `last` are history: what a protocol described and has
not removed, and the last value the home took from it and could still show.

### ServiceCalls

One on/off entity; each caller goes through `call` and `dispatch`, and what ends a call drops
its locals in Rust's order (delivery guard, turn, clean-up guard, reference to the lock), one
step each. A lock in the map is one of `Lock`; who refers to it is read off the callers, which is
what `Arc::strong_count` counts. A report, the removal and return of the entity, and the stop and
start of its protocol may happen between any two steps.

### ReachCache

A home is abstracted to the number of changes made to it and what a list of rooms holds to the
home it was worked out from; `counted` is the order in which the changes were counted, so the
revision is its length. Writers change, count and announce; readers load the revision, look up
under the mutex, read the home, insert.

### ReportQueue

The reports of an entity are numbered as they are pushed. `external`, set once, says which loop
empties the queue: the host's (`serve`, `drain`, `pump`) or the runner's (`pump_outgoing`,
`offer_report`, the stdout thread). `push` is two steps, as `notify_one` is called after the mutex
is released. A built-in protocol that doesn't stop within its grace period is cut off and drained
at once, while cancelling takes effect at its next await.

### Flows

`eng` is the engine (`flows`, `runs`, `ready`, `timers`, `states`, `place`), and its methods are
operators from engine to engine. One action is one operation of the engine (a change of state, an
answer, a firing by hand, a resync, a change of place, `set_flows`, a look at the clock) or one
round of `drive`. A definition is a graph with the nodes and wires of the code; a condition is the
set of values one entity may have. `home` is the home as it is and `eng.states` as the engine knows
it; a missed change sets them apart until the resync. `away` and `blind` are history for `HoldTrue`.

### Supervisor

`pc` is the await at which the supervisor's task is. A `select!` polls its branches in the order
listed, so a branch is guarded by the earlier ones not being ready. `supervise` (built in),
`supervise_package` with a process, and with a program that dials in are the three values of
`kind`; `child` is the program, `pipe` the lines it has not read, `door` the state of the door of an
inbound one. The delay is counted in units of `first_retry`, and a sleep ends when it ends.

### Packages and PackageStore

Each worker is a task of the server doing what somebody asked for; every rename, copy and removal
is a step of its own that may fail, before or after which Irori may end. A package is its version
and what the extension fetched into its folder (`extra`). `Boot` and the steps after it are
`clear_staging`. `PackageStore` has four variables and no folders: placing a version, fetching,
tidying, leaving, and putting back a version kept aside. `Store` in `Packages` gives the mapping:
what is installed is what is in the folder or, with nothing in it, the newest version moved aside.

### Config

A file's text is a kind (absent, broken, in Irori's layout, in a person's) and a meaning, the
number of the change that wrote it. `part` is `Store`'s `value` and `seen`; `seen` is "this" if it
is how the file looks now, so that modification times need no numbers. `op` is the task that holds
the lock: each of its steps reads or writes the disk once, and a person may write any file between
two of them. `fate` is how each change was answered: "done"; "failed", with a write error that names
no file which stays changed; "torn", with one that says which do ("these were already changed",
"also couldn't restore"), or not at all because the process ended; "refused", by the core, which
`forget_rows` asks only after its files are saved. An edit that its own change refuses has not begun
to save and has no number: it is a reader. `raced` marks files edited
by hand where no look can tell, and not read since: inside a save, between its last reading of the
file and its look at the result, or between a look that did not find the file and its reading.

## 3. Runs

A run checks a property under one name when its parts are one claim: `DevicesOK`, say, is the
conjunction of `TypeOK`, `KeysAgree`, `InOrFound` and `OnlyAdded`. The parts are definitions of
their own, each with its comment, and each has a mutant of its own.

Passing runs:

| Run | Shows |
|---|---|
| `installs` | Something waits only behind an install that has the turn, nothing is in a line twice (`LineOK`), whoever has the turn is watched (`Watched`), and what waits gets its turn or leaves (`LineMoves`), though the protocol may never answer and callers may walk away. |
| `registry_devices` | Reached-through chains never loop or dangle (`ViaOK`); a device is in the home or found and never both, nobody is in the home uninvited, and index and registry agree although two handles have one id (`DevicesOK`: `InOrFound`, `OnlyAdded`, `KeysAgree`). |
| `registry_entities` | Entities go and come with their device (`EntitiesOK`: `EntityHasDevice`, `FoundAgree`); no device is lost and values survive (`ComesBack`: `NothingLost`, `AsItIsNow`). |
| `reach_cache` | An entry is never newer than it claims (`NeverNewer`), an answer has all that was announced (`Fresh`), and a list is never answered older than before (`NeverBack`). |
| `service_calls` | One call at a time (`CallsOK`: `OneCall`); toggles cancel out while the device is silent (`TogglesCancel`); what never went out leaves nothing behind (`LeavesNothing`: `CausesDelivered`, `NoOrphanCommand`). |
| `reports` | Limits (`QueueOK`: `Bounded`); order, the newest value and every press that is not dropped (`ReportsKept`: `InOrder`, `NewestKept`, `PressesKept`); drops counted and last words heard (`NoneUncounted`: `DropsCounted`, `LastWords`); no lost wake-up (`Delivered`); for a built-in protocol, and for an external one whose runner puts back what doesn't fit. |
| `flows` | A flow's mode is kept (`ModeKept`) and its runs end with it (`FlowsOK`: `RunsCurrent`); no run is left with nothing to happen (`SomethingLeft`); a join sends on once (`JoinOnce`); whatever waits has its timer, a clock exactly one, and a hold counts only time in the state (`TimersTrue`: `EveryWaitTimed`, `ClocksWound`, `HoldTrue`); every run ends (`RunsEnd`). |
| `supervisor` | Calls reach an extension exactly while it is driven and no program is left behind (`Driven`: `LinkLives`, `NoneLeft`), nor a door open (`DoorOK`); people see the truth, and a healthy run resets the delay of a built-in (`StatusOK`: `StatusTrue`, `HealthyBuiltin`); a stop and a turn-off get through (`StopEnds`, `OffEnds`), and so do new settings and recovery (`Settles`: `SettingsArrive`, `Recovers`). |
| `packages` | Nobody moves the folder of a running extension (`PackageOK`: `NotMovedWhileRunning`); uninstalled stays uninstalled (`GoneStays`); what is installed runs (`InstalledRuns`); work ends (`WorkEnds`); and it all implements `PackageStore` (`StoreKept`). |
| `config` | A file taken for read was read (`FilesOK`: `SeenRead`); a change answered with a write error that names no file left nothing, and the core shows only what the files kept, and pairs together (`ChangesKept`: `NothingLeft`, `CoreKept`); an unread edit by hand is not written over (`HandKept`); what the files say reaches the core (`EditsArrive`). |

Runs that find the code and what is said of it apart; each is a finding in `PROJECT.json`:

| Run | Shows |
|---|---|
| `flows_stuck` | Two tokens come to a join over one wire, the second replaces the first, and the run never ends. `SomethingLeft` holds in `flows`, where no wire brings two. |
| `supervisor_stuck` | A program that does not read its full pipe is neither stopped nor killed. `StopEnds` excludes exactly that state (`Stuck`). |

The other configurations in this directory reproduce gaps that are described here and in the
hazards; each checks one property and ends in a counterexample:

| Configuration, module | Shows |
|---|---|
| `InstallsOverlap`, `MCInstalls` | Two installs of one protocol at a time: `change` publishes after the home's lock is released, and a late state ends a newer turn (`lib.rs:1388`; `installs.rs:5` has one sent at a time). |
| `InstallsSkip`, `MCInstalls` | An install sent after its version was skipped: `run_line` looks before it has the entity's lock (`lib.rs:1036`; `docs/specs/protocols.md:446`). |
| `RegistryLost`, `MCRegistry` | A found device reached through one that was removed is dropped when it is added (`home.rs:272`; `home.rs:888`). |
| `RegistryMoved`, `MCRegistry` | An entity described anew on a found device stays in the registry and outlives its old device (`home.rs:623`; `home.rs:243`). |
| `ReportsNulls`, `MCReportQueue` | An event without a value replaces the presses that wait (`irori-protocol/src/lib.rs:694`; `:670`). |
| `FlowsMissed`, `MCFlows` | A resync leaves the hold of a trigger counting whose entity it finds elsewhere (`engine.rs:254`; `docs/specs/flows.md:159`). |
| `PackagesBack`, `MCPackages` | A version kept because carrying over failed is put back over a newer one by the end of the process inside a later update (`host.rs:1242`; `host.rs:1181`). |
| `ConfigMissed`, `MCConfig` | An edit by hand inside a save of the same files is never read, since the save looks at all its files at the end, also the ones it did not write; the next save writes over it (`irori-config/src/lib.rs:596`; `docs/specs/config.md:811`). |
| `ConfigRefused`, `MCConfig` | A forget is answered as refused although its files are saved: the page looks for the device before it waits for the lock (`server.rs:1150`), its protocol removes it meanwhile, and `forget_rows` saves before it asks the core, which then is not told the files until the next reload (`irori/src/config.rs:186`; `config.rs:749` has a refused edit change neither the files nor the core, `config.rs:138` the two never disagree). |

`NothingLost` and `EntityHasDevice` hold in `registry_entities`, where no device is reached
through another and entities stay on the device they were described on, and fail in
`RegistryLost` and `RegistryMoved`, where exactly that is allowed: together they say on
what the properties depend. `PressesKept` is split in the same way by `ReportsNulls`, and the
exception `raced` of the `Config` properties by `ConfigMissed`. `NothingLeft` is about write errors
only: what `ConfigRefused` shows is the other answer that is not a success, and `EditsArrive` is what
holds of it, that the files still reach the core by the next reload.

Smaller gaps between the code and what is said of it that are in the models and have no run:

- A device added while its protocol is stopped goes into the home available (`Stop`, then
  `AddRow`, in `Registry`), where `docs/specs/protocols.md` 6.4 has every entity of a stopped
  protocol unavailable: `mark_unavailable` passes over what is only found.
- A report made between the recording of a command and its delivery wipes the command (`Record`,
  `Report`, `Deliver` in `ServiceCalls`), so the next toggle repeats it. `TogglesCancel` is
  therefore stated for a device that has said nothing since the recording.
- Two calls that end together each count the other's reference to the entity's lock, and it stays
  in the map (`Release`, `Release`, `DropLock`, `DropLock`). The next call finds it again.
- What an external protocol drops for want of room is never counted (`Discard` in `ReportQueue`),
  where the docs have it logged. `DropsCounted` is therefore about built-in protocols.
- The restart delay of a package is never set back after it ran well (`HealthyReset` in
  `Supervisor`), where `docs/specs/protocols.md:55` makes no difference between extensions. After
  a greeting that failed, the supervisor sleeps without heeding a turn-off or new settings, and
  the status does not say when it tries again. An inbound program may be greeted with settings
  that lack a required one (`SetUp`): they are read again after they were checked.
- An uninstall cut short between removing the folder and the old versions lets the next start put
  one back; an update whose first rename fails leaves the extension stopped (`stranded`).
- A queued firing of a trigger that has no wires becomes a run without tokens until the next
  operation of the engine.
- An edit through Irori writes over another file that does not parse (its text differs from the
  last good one), and with it what a person was typing there.
- An end of the process between two renames of one save leaves half of a change, and so do a
  rename that fails after another and a putting back that fails, which are answered with what
  stays (fate "torn").
- A settings file made between the look that does not find it and its reading (`ReloadLook`,
  `ReloadRead`), or removed inside a save that then looks at it (`Land`), is remembered as not
  there, with its meaning. Deleted, or still gone, at the next look, it is taken for read and
  keeps that meaning, where `irori-config/src/lib.rs:486` has a deleted file say that nothing is
  configured. It takes four changes to come from the first case to a file whose meaning is wrong,
  one more than the run has: the proof of `SeenRead` showed it. Such a file is in `raced` until it
  is read.

## 4. Bounds

- Installs: one protocol (lines of two protocols share nothing), two entities (one installing,
  one waiting), three tasks (two that race and one that is spawned), two versions, and two
  inputs in all: calls of people, and reports, registrations and removals
  of the protocol, in any mix. Two are enough for one update to wait behind another, which then
  only the watchers can move on. The proofs of section 6 have no bound.
- Registry: three ids are the least that can make a loop through a device that is taken out and
  put back, and a fourth handle shares the id of one of them; three entities, two on one device
  and one on none, for the properties of entities. No bound on steps: the state space
  is finite and explored completely.
- ReachCache: two writers, two readers, two lists, three changes, up to two at once: a writer can
  overtake another between counting and announcing, and a reader between loading and reading.
- ServiceCalls: three callers, so that one can hold, one wait and one clean up; two environment
  events; two remembered calls, so that the limit is met.
- ReportQueue: limits of one or two (instead of 4096, 64 and 64), so that each is met and passed,
  with three reports of a value and of an event.
- Flows: one flow at a time, given any of four definitions that between them have every mode and
  every kind of node, and replaced by another; one entity, two inputs besides the clock and the
  answers of calls, six steps of a run instead of 256, so that the limit is met.
- Supervisor: one extension of each kind (supervisors share nothing), four tables of settings (two
  good ones, one refused, one incomplete), delays up to three units, a pipe of two lines, two
  changes by people and three faults.
- Packages: two workers, two files to fetch, four things asked for, two ends of the process and
  two failures: enough for an update to find what an interrupted one left, twice.
- Config: two files saved together, an extension's file, the users and the secrets (four, one per
  extension, one and one in the code), three changes, two failures (a write, and the putting back),
  one end of the process.

`CHECK_DEADLOCK FALSE` is set where the bounds use up what the environment may do, or a system
may rest: nobody has to call, report or change anything.

## 5. Fairness

`Installs!Fairness`: a task that can go on does (the tokio runtime is multi-threaded, and every
await in these tasks has a deadline of its own), and a sleeping watcher of an install that is late
wakes. Callers, devices and removals owe nothing. `ReportQueue!Fairness`: the loop goes on, a push
that has released the mutex reaches its `notify_one`, and the host reads the pipe.

`Flows!FairSpec`: the driver's loop goes on, the clock goes on, and a call gets an answer of
either kind, as the core gives every call a timeout. `Supervisor!FairSpec`: the supervisor goes on
when a branch it waits for is ready, a killed process ends, and a program that reads goes on
reading unless it hangs. The end of the grace is strongly fair: it is polled before what the
program says, so a talking program disables it only for as long as it takes to handle one line.
`Packages!FairSpec`: work and the clearing up at start go on. `Config!FairSpec`: whoever holds the
lock goes on, for nothing is awaited under it; the watch gets the lock again and again (strong
fairness), for tokio's mutex is handed out in the order it was asked for. Nobody has to edit,
call, connect or crash.

## 6. Proofs

`ReachCacheProofs` proves for every set of writers, readers and lists and every bound:

- `TypeCorrect`: `Spec => []TypeOK`, which includes that the mutex is held exactly by the reader
  between a miss and its insertion;
- `CacheNeverNewer`: `Spec => []NeverNewer`;
- `AnswersFresh`: `Spec => Fresh`;
- `AnswersNeverBack`: `Spec => NeverBack`.

Assumed is only `ReachAssumption`: `None` is no reader and no entry, and the bounds are naturals.

None of the properties is inductive. `IInv` adds what carries them: everything a writer still has
to tell is made, and what it sends next is counted (`WriterInv`); what was announced before a
reader asked is among what its loaded revision counts, and the home it has read holds all of that
(`ReaderInv`); no entry or answer is ahead of the home, and no entry behind the last answer for
its list (`CacheInv`). One lemma per action shows that `IInv` is kept, and the two action
properties follow from `IInv` at the two steps that answer. That the revision is loaded before
the home is read is what `ReadHome` needs; that the mutex is held over both is what `Insert`
needs for `NeverBack`.

`InstallsProofs` proves for every set of protocols, entities and tasks and every bound:

- `TypeCorrect`: `Spec => []TypeOK`;
- `LineInOrder`: `Spec => []LineOK`;
- `TurnsWatched`: `Spec => []Watched`.

Assumed is only `InstallsAssumption`: every entity has a protocol, `None` is no task, entity or
turn, `Gone` is not `Unreported`, and the bounds are naturals.

`LineOK` is inductive once the types are known. `Watched` is not: it would be lost if a watcher
that has found its install late could end before the turn it found. `ThreadOK` says it cannot:
such a task is at `watchfail`, `heard` or `over`, and from `heard` it comes back to `over`, never
to its end. So the one step at which it may go (`InstallOver`) hands on the turn of its own entity
(`HandedOn`), and whoever has the turn then has it with a new watcher (`NextInLineOK`) or has kept
it and is another entity, whose late watchers stay. One lemma per action shows that `IInv` is
kept.

`ServiceCallsProofs` proves for every finite set of tasks, every set of locks and every bound:

- `OneCallAtATime`: `Spec => []CallsOK`;
- `NothingLeftBehind`: `Spec => []LeavesNothing`;
- `TogglesCancelOut`: `Spec => TogglesCancel`.

Assumed is `CallsAssumption`. That the tasks are finitely many is needed where the code counts
references: `DropLock` takes the lock out of the map when its holder is the only one that shares
it, and a set of one sharer has nobody else in it (`SharersOne`). From that follows `LockInv`:
whoever has yet to give the lock back has the one in the map. `OneCall` is then `TurnInv`, that
whoever works on a call has the turn of that lock. `ContextInv` says that a context is that of one
call and not among the recent calls before it is recorded, so that forgetting it forgets no other.
`CommandInv` relates what the home remembers of a command to the call being sent and to the last
one delivered, which is all `TogglesCancel` needs at the step that resolves a toggle.

`SupervisorProofs` proves for every set of kinds, settings and bounds:

- `ExtensionDriven`: `Spec => []Driven`;
- `DoorsClosed`: `Spec => []DoorOK`;
- `StatusShown`: `Spec => []StatusOK`.

Assumed is `SupervisorAssumption`. `IInv` adds that the end of a run has a reason and goes on where
that reason sends it, that a process is waited for only once it is dead or killed and that the pipe
is empty outside a run (`RunInv`), that only an inbound program has a door (`DoorInv`), and what
the status is while the supervisor waits to be turned on (`StatusInv`).

`ConfigProofs` proves for every non-empty list of settings files and any number of changes,
failures and ends of the process:

- `TakenForRead`: `Spec => []FilesOK`;
- `FailuresUndone`: `Spec => []ChangesKept`, where fate "failed" is a write error that names no file
  which stays changed, and neither a torn change nor a forget refused after its files were saved;
- `HandEditsKept`: `Spec => HandKept`.

Assumed is `ConfigAssumption`. `NothingLeft` and `CoreKept` are carried by where a change may be at
all: just one is going on (`GoingInv`), what files, store and core mean is settled or that one
(`WrittenInv`), a job is so far with its list (`ListInv`), and its number is in no file before the
first rename and only in the first of a pair after it (`FarInv`), so that putting that one back
undoes it. `SeenRead` and `HandKept` are carried by what a look is worth: under the look "this" a
file says what the store has, and under "none" the store has nothing (`LookInv`, `TextInv`); a file
not found by a reload that will read it is still not there (`ReadInv`); what a job may write over
was read, or will be (`FreshInv`), and what it has written is as it left it (`SavedInv`). The last
three are about the files not in `raced`, and it was by failing here that the invariant showed the
second way into `raced` (section 3).

`PackagesProofs` proves for every set of workers and files and any number of things asked for, ends
of the process and failures:

- `UntouchedWhileRunning`: `Spec => []PackageOK`;
- `Uninstalled`: `Spec => []GoneStays`;
- `WhatIsInstalledRuns`: `Spec => []InstalledRuns`;
- `ImplementsStore`: `Spec => StoreKept`, from the same invariant.

Assumed is `PackagesAssumption`. `IInv` says that whoever works on the package itself has its
claim (`ClaimInv`), that versions are new when asked for and each worker's its own (`UsedInv`),
what is staged (`StagedInv`), where the package is at each step of an install, an update and an
uninstall (`PlaceInv`), that one that can't be read is being uninstalled (`HomeInv`), that nobody
works while Irori is down (`DownInv`), and that what is in place runs, or is being worked on, or
the disk failed (`RestInv`). The refinement goes by what the store sees: the version in place or
to be put back, the versions aside and the fetched files, element by element (`View`). Each step
of `Packages` that changes these is then one of the store's: moving aside and putting back are
stutters, as the newest version aside counts as installed; moving an entry from the old package to
the new one loses nothing, being in one or the other; and once an uninstall has begun, whatever
brings no version in is a step of leaving (`Leaving`).

`ReportQueueProofs` proves for every finite set of entities, all limits and any number of reports
and operations:

- `WithinLimits`: `Spec => []QueueOK`;
- `OrderAndNewest`: `Spec => [](InOrder /\ NewestKept)`;
- `NothingMissing`: `Spec => []ReportsKept`, if `Nulls = FALSE`;
- `EveryDropTold`: `Spec => []NoneUncounted`.

Assumed is `QueueAssumption`; entities are positive numbers, as the queue is a `BTreeMap` and pops
the first. `NothingMissing` has the hypothesis under which the run `reports` checks it; without it
`PressesKept` is false (`ReportsNulls`), and `OrderAndNewest` is what holds then. `LoopInv` says
what the loop holds at each of its places. `RoomInv` counts the entity in hand with those waiting:
what is put back had its place before, so one report beyond the limits is all there can be.
`MadeInv` says that a report is of the entity it waits for and was made; `OrderInv` that from the
core back through the lines, the loop's hand and the queue each report of an entity is newer than
all before it, which is what a report put back behind or over newer ones would break. `PressInv`
and `KeptInv` follow the presses; `CountInv` says that what is lost waits no more, so that each
loss counts once. Sequences are handled through their elements and their order (`El`, `Sorted`,
`Before`), with one lemma each for a report put behind, taken off and put in front.

`RegistryProofs` proves for any devices, ids, entities, values and descriptions, two handles with
one id included:

- `OneRegistry`: `Spec => []DevicesOK`;
- `NeverInCircles`: `Spec => []ViaOK`;
- `InWithTheirDevice`: `Spec => []EntitiesOK`, if `InOnePlace`;
- `NothingForgotten`: `Spec => []NothingLost`, if `NoneThrough`;
- `AsLastReported`: `Spec => []ComesBack`, if `InOnePlace`, `NoneThrough` and `OneHandleEach`.

Assumed are `RegistryAssumption`, about what may be described, and `AbsentAssumption`, that
nothing there is taken for what is not. The hypotheses are about what protocols say, and name on
what the properties depend: `InOnePlace`, that an entity is described on devices of one id only,
or on none (without it `RegistryMoved` refutes `EntityHasDevice`); `NoneThrough`, that no device
is described as reached through another (without it `RegistryLost` refutes `NothingLost`);
`OneHandleEach`, that no two handles have one id (`admit` describes the device by one of them, and
refuses an entity that was described by the other, whose value is then gone though it was never
removed). The instance of `registry_entities` has all three; that of `registry_devices` has no
entities, and neither `NoneThrough` nor `OneHandleEach`.

The first two theorems need `Sound` and `Added`: the home is well typed, index and registry agree
(`Keys`), nothing is both in the home and found (`Apart`), what is in the home was added, and
following `via_device_id` never comes back (`Through`). The last is about paths of any length,
without counting them: that `j` is not reached from `i` means some set of ids has `i`, not `j`,
and is left by no hop, and each operation shows such a set. A device new to the home is in no such
set but its own (`FreshVia`); one described anew as reached through `v` keeps the sets without it,
and for those with it takes their union with the set that `NoLoop` found for `v`, or their
intersection (`NewVia`); removing devices only takes hops away (`FewerVia`).

`EntitiesOK` needs `Settled`: an entity is on the device it was described on (`Placed`), which is
in the home (`Housed`) or is the found one that `foundOf` names, not both (`Agreed`). `NothingLost`
needs that what is kept of a device was said of that device (`Named`): `admit` describes it from
there, and where nothing is reached through anything the home refuses none of it (`AdmittedIn`).
`ComesBack` needs both, and three facts about the last values (`Faithful`): an entity in the home
has it and it fits (`Current`), a found device keeps it for its own entities and nothing for others
(`Heard`), and of what is nowhere nothing is remembered (`Dropped`). `admit` composes five
operations; its lemmas follow it step by step, from the device that is not found any more to the
entities described and what they said being heard again. `InOnePlace` is used for `describe_entity`
and, with `OneHandleEach`, to show that `admit` takes every entity back (`AdmitFaithful`).

In every module one lemma per action or operation shows that the inductive invariant is kept, and
TLC checked it on the instances of the runs before it was proved.

Only model-checked: `FlowsOK`, `ModeKept`, `SomethingLeft`, `JoinOnce` and `TimersTrue`. The
operations of the engine are folds over the wires, branches and triggers of a definition
(`FoldLeft`), and what a fold computes for every sequence takes an induction over data, which the
provers cannot do. Also only model-checked is all liveness (`LineMoves`, `Delivered`, `RunsEnd`,
`StopEnds`, `OffEnds`, `Settles`, `WorkEnds`, `EditsArrive`), which is out of their reach.

## 7. Not modelled

- Names, icons, areas, attributes and timestamps of the registry; entity ids and their clashes.
- The five-minute window of remembered calls, the arguments of services.
- When a watcher finds an install late (two and ninety minutes): any wake-up may be the late one.
- What becomes of the lines of an external protocol when its process ends, and `offer_report` on a
  closed pipe.
- In `Flows`: the values tokens carry, step records and the simulator, checks of a definition.
- In `Supervisor`: engines (`irori-core/src/engine.rs`), log lines, `stderr`.
- In `Packages`: fetching, checking and unpacking; updates of Irori itself.
- In `Config`: `irori.toml`. Its `[recorder]` section is applied after the lock is dropped
  (`config.rs:340`), so two edits may reach the recorder in the other order; the watch corrects it
  only if it had not yet seen the later one. `home.toml` goes the way of `users.toml`. Two texts of
  one size written within a tick of the file system's clock look the same to the code, never here.
- Not yet, see the plan: pending replies on the wire, recorder, backups, sessions, helpers.
- For good: the user interface, the command line, the routes of the server, the assistant
  (a language model behind HTTP), audit and history (append and query), discovery conversion, the
  protocol extensions (their devices are the environment here), installer, lab, schemas.

## 8. Plan

1. The core, done: `Installs`, `Registry`, `ServiceCalls`, `ReachCache`, `ReportQueue`.
2. What runs on it, done: `Flows`, `Supervisor`, `Packages` with `PackageStore`, `Config`.
3. Proofs, done for all modules but `Flows`. What is worth proving of `Flows` when folds can be
   reasoned about: `JoinOnce` and `RunsCurrent`.
4. The wire: replies matched to requests and calls abandoned by their caller, composed with
   `ReportQueue`, whose `out` it refines, and with `Supervisor`, whose `pipe` it refines.
5. Recorder batches, backup retention, sessions against the live connection, helpers; cron and
   clock arithmetic against reference definitions.
