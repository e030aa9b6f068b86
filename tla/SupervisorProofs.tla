-------------------------- MODULE SupervisorProofs --------------------------
(***************************************************************************)
(* Proofs about Supervisor, for every set of kinds and settings and every  *)
(* bound: whatever ends a run of an extension, the link, the program, the  *)
(* door and the status end up as supervise, supervise_package and drive    *)
(* mean them to.  None of the properties is inductive: what carries them   *)
(* is why the run ended, where a delivery goes on, and that a process is   *)
(* waited for only once it was killed.                                     *)
(***************************************************************************)
EXTENDS Supervisor, TLAPS

\* The first loop is over.
EndingRun ==
    \/ pc \in {"grace", "unlink", "kill", "reading", "outcome"}
    \/ pc = "deliver" /\ then # "running"

\* The end of a run: it has a reason from the first loop on, a delivery goes on inside
\* the run or to the kill, the pipe is empty outside a run, and a process is read to its
\* end only once it is dead or killed.
RunInv ==
    /\ pc = "deliver" => then \in {"running", "grace", "kill"}
    /\ EndingRun => why \in {"stopped", "reconfigured", "disabled", "ended", "unheard"}
    /\ pipe # 0 => pc \in {"running", "deliver", "grace", "unlink", "kill", "reading", "outcome"}
    /\ pc = "reading" => kind = "process"
    /\ pc = "hello" => kind # "builtin"
    /\ pc \in {"reading", "outcome"} /\ kind = "process" => child \notin {"up", "hung"}

\* Only a program that connects in has a door.
DoorInv == door # "none" => kind = "inbound"

\* The status while the supervisor waits to be turned on, and after a start that failed.
StatusInv ==
    /\ pc = "off" => status = "disabled"
    /\ pc \in {"unheard", "refused"} => status = "failed"

IInv == Driven /\ DoorOK /\ StatusOK /\ RunInv /\ DoorInv /\ StatusInv

-----------------------------------------------------------------------------
\* The wait before a restart doubles up to max_retry and not beyond it.
LEMMA DoubledType ==
  ASSUME delay \in 1 .. MaxRetry
  PROVE  Doubled \in 1 .. MaxRetry
  <1>1. \E x \in {2 * delay, MaxRetry} : \A y \in {2 * delay, MaxRetry} : x <= y
    BY SupervisorAssumption
  <1> QED
    BY <1>1, SupervisorAssumption DEF Doubled, Min

\* A supervisor starts with nothing linked, running, shown or promised.
LEMMA InitIInv == Init => IInv
  <1> SUFFICES ASSUME Init PROVE IInv
    OBVIOUS
  <1>0. Flags
    BY DEF Init, Flags
  <1>1. Values
    BY SupervisorAssumption DEF Init, Values, Alive
  <1>2. LinkLives /\ NoneLeft /\ DoorOK /\ StatusOK
    BY
       DEF Init, LinkLives, NoneLeft, Driving, DoorOK, StatusOK, StatusTrue,
           HealthyBuiltin
  <1>3. RunInv /\ DoorInv /\ StatusInv
    BY DEF Init, RunInv, EndingRun, DoorInv, StatusInv
  <1> QED
    BY <1>0, <1>1, <1>2, <1>3 DEF IInv, Driven, TypeOK

\* What a person or Irori asks for is only looked at by the supervisor's own steps.
LEMMA SetSettingsIInv == IInv /\ SetSettings => IInv'
  <1> SUFFICES ASSUME IInv, SetSettings PROVE IInv'
    OBVIOUS
  <1> USE DEF IInv, Driven, TypeOK, Flags, Values, SetSettings, Supervisor
  <1>1. Values'
    BY SupervisorAssumption DEF Alive
  <1>2. Flags'
    OBVIOUS
  <1>3. LinkLives' /\ NoneLeft'
    BY DEF LinkLives, NoneLeft, Driving, Alive
  <1>4. DoorOK' /\ DoorInv'
    BY DEF DoorOK, DoorInv, Driving
  <1>5. StatusOK' /\ StatusInv'
    BY DEF StatusOK, StatusTrue, HealthyBuiltin, StatusInv, Driving
  <1>6. RunInv'
    BY DEF RunInv, EndingRun, Alive
  <1> QED
    BY <1>1, <1>2, <1>3, <1>4, <1>5, <1>6

\* Turning it off or on is only looked at there too.
LEMMA TurnOffOnIInv == IInv /\ TurnOffOn => IInv'
  <1> SUFFICES ASSUME IInv, TurnOffOn PROVE IInv'
    OBVIOUS
  <1> USE DEF IInv, Driven, TypeOK, Flags, Values, TurnOffOn, Supervisor
  <1>1. Values'
    BY SupervisorAssumption DEF Alive
  <1>2. Flags'
    OBVIOUS
  <1>3. LinkLives' /\ NoneLeft'
    BY DEF LinkLives, NoneLeft, Driving, Alive
  <1>4. DoorOK' /\ DoorInv'
    BY DEF DoorOK, DoorInv, Driving
  <1>5. StatusOK' /\ StatusInv'
    BY DEF StatusOK, StatusTrue, HealthyBuiltin, StatusInv, Driving
  <1>6. RunInv'
    BY DEF RunInv, EndingRun, Alive
  <1> QED
    BY <1>1, <1>2, <1>3, <1>4, <1>5, <1>6

\* So is being told to stop (arm_stop).
LEMMA ToldToStopIInv == IInv /\ ToldToStop => IInv'
  <1> SUFFICES ASSUME IInv, ToldToStop PROVE IInv'
    OBVIOUS
  <1> USE DEF IInv, Driven, TypeOK, Flags, Values, ToldToStop, Supervisor
  <1>1. Values'
    BY SupervisorAssumption DEF Alive
  <1>2. Flags'
    OBVIOUS
  <1>3. LinkLives' /\ NoneLeft'
    BY DEF LinkLives, NoneLeft, Driving, Alive
  <1>4. DoorOK' /\ DoorInv'
    BY DEF DoorOK, DoorInv, Driving
  <1>5. StatusOK' /\ StatusInv'
    BY DEF StatusOK, StatusTrue, HealthyBuiltin, StatusInv, Driving
  <1>6. RunInv'
    BY DEF RunInv, EndingRun, Alive
  <1> QED
    BY <1>1, <1>2, <1>3, <1>4, <1>5, <1>6

\* The program may die, hang or read at any time: no place of the supervisor relies on it.
LEMMA DiesIInv == IInv /\ Dies => IInv'
  <1> SUFFICES ASSUME IInv, Dies PROVE IInv'
    OBVIOUS
  <1> USE DEF IInv, Driven, TypeOK, Flags, Values, Dies, Alive, Supervisor
  <1>1. Values'
    BY SupervisorAssumption
  <1>2. Flags'
    OBVIOUS
  <1>3. LinkLives' /\ NoneLeft'
    BY DEF LinkLives, NoneLeft, Driving
  <1>4. DoorOK' /\ DoorInv'
    BY DEF DoorOK, DoorInv, Driving
  <1>5. StatusOK' /\ StatusInv'
    BY DEF StatusOK, StatusTrue, HealthyBuiltin, StatusInv, Driving
  <1>6. RunInv'
    BY DEF RunInv, EndingRun
  <1> QED
    BY <1>1, <1>2, <1>3, <1>4, <1>5, <1>6

\* A program that hangs is still the one that is driven, or is still there to be
\* ended.
LEMMA HangsIInv == IInv /\ Hangs => IInv'
  <1> SUFFICES ASSUME IInv, Hangs PROVE IInv'
    OBVIOUS
  <1> USE DEF IInv, Driven, TypeOK, Flags, Values, Hangs, Supervisor
  <1>1. Values'
    BY SupervisorAssumption DEF Alive
  <1>2. Flags'
    OBVIOUS
  <1>3. LinkLives' /\ NoneLeft'
    BY DEF LinkLives, NoneLeft, Driving, Alive
  <1>4. DoorOK' /\ DoorInv'
    BY DEF DoorOK, DoorInv, Driving
  <1>5. StatusOK' /\ StatusInv'
    BY DEF StatusOK, StatusTrue, HealthyBuiltin, StatusInv, Driving
  <1>6. RunInv'
    BY DEF RunInv, EndingRun, Alive
  <1> QED
    BY <1>1, <1>2, <1>3, <1>4, <1>5, <1>6

\* A program that reads makes room in its pipe, which bears on nothing but the next
\* line.
LEMMA ReadsIInv == IInv /\ Reads => IInv'
  <1> SUFFICES ASSUME IInv, Reads PROVE IInv'
    OBVIOUS
  <1> USE DEF IInv, Driven, TypeOK, Flags, Values, Reads, Supervisor, outside
  <1>1. Values'
    BY SupervisorAssumption DEF Alive
  <1>2. Flags'
    OBVIOUS
  <1>3. LinkLives' /\ NoneLeft'
    BY DEF LinkLives, NoneLeft, Driving, Alive
  <1>4. DoorOK' /\ DoorInv'
    BY DEF DoorOK, DoorInv, Driving
  <1>5. StatusOK' /\ StatusInv'
    BY DEF StatusOK, StatusTrue, HealthyBuiltin, StatusInv, Driving
  <1>6. RunInv'
    BY DEF RunInv, EndingRun, Alive
  <1> QED
    BY <1>1, <1>2, <1>3, <1>4, <1>5, <1>6

\* offer lets a program in only while the supervisor is at the door.
LEMMA OfferIInv == IInv /\ Offer => IInv'
  <1> SUFFICES ASSUME IInv, Offer PROVE IInv'
    OBVIOUS
  <1> USE DEF IInv, Driven, TypeOK, Flags, Values, Offer, Supervisor, outside
  <1>1. Values'
    BY SupervisorAssumption DEF Alive
  <1>2. Flags'
    OBVIOUS
  <1>3. LinkLives' /\ NoneLeft'
    BY DEF LinkLives, NoneLeft, Driving, Alive
  <1>4. DoorOK' /\ DoorInv'
    BY DEF DoorOK, DoorInv, Driving
  <1>5. StatusOK' /\ StatusInv'
    BY DEF StatusOK, StatusTrue, HealthyBuiltin, StatusInv, Driving
  <1>6. RunInv'
    BY DEF RunInv, EndingRun, Alive
  <1> QED
    BY <1>1, <1>2, <1>3, <1>4, <1>5, <1>6

\* Running long enough changes only what the next failure will wait for.
LEMMA AgesIInv == IInv /\ Ages => IInv'
  <1> SUFFICES ASSUME IInv, Ages PROVE IInv'
    OBVIOUS
  <1> USE DEF IInv, Driven, TypeOK, Flags, Values, Ages, Alive, outside, seen
  <1>1. Values'
    BY SupervisorAssumption
  <1>2. Flags'
    OBVIOUS
  <1>3. LinkLives' /\ NoneLeft'
    BY DEF LinkLives, NoneLeft, Driving
  <1>4. DoorOK' /\ DoorInv'
    BY DEF DoorOK, DoorInv, Driving
  <1>5. StatusOK' /\ StatusInv'
    BY DEF StatusOK, StatusTrue, HealthyBuiltin, StatusInv, Driving
  <1>6. RunInv'
    BY DEF RunInv, EndingRun
  <1> QED
    BY <1>1, <1>2, <1>3, <1>4, <1>5, <1>6

\* The top of the loop shows a status of its own before it goes anywhere but to a start.
LEMMA TopIInv == IInv /\ Top => IInv'
  <1> SUFFICES ASSUME IInv, Top PROVE IInv'
    OBVIOUS
  <1> USE DEF IInv, Driven, TypeOK, Flags, Values, Top, Show, GoneDisabled, Gone, World,
              outside
  <1>1. Values'
    BY SupervisorAssumption DEF Alive
  <1>2. Flags'
    OBVIOUS
  <1>3. LinkLives' /\ NoneLeft'
    BY DEF LinkLives, NoneLeft, Driving, Alive
  <1>4. DoorOK' /\ DoorInv'
    BY DEF DoorOK, DoorInv, Driving
  <1>5. StatusOK' /\ StatusInv'
    BY DEF StatusOK, StatusTrue, HealthyBuiltin, StatusInv, Driving
  <1>6. RunInv'
    BY DEF RunInv, EndingRun, Alive
  <1> QED
    BY <1>1, <1>2, <1>3, <1>4, <1>5, <1>6

\* The waits that go back to the top: each shows what its status has to be when it
\* is left for good.
LEMMA StayOffIInv == IInv /\ StayOff => IInv'
  <1> SUFFICES ASSUME IInv, StayOff PROVE IInv'
    OBVIOUS
  <1> USE DEF IInv, Driven, TypeOK, Flags, Values, StayOff, Gone, Loop, World, outside
  <1>1. Values'
    BY SupervisorAssumption DEF Alive
  <1>2. Flags'
    OBVIOUS
  <1>3. LinkLives' /\ NoneLeft'
    BY DEF LinkLives, NoneLeft, Driving, Alive
  <1>4. DoorOK' /\ DoorInv'
    BY DEF DoorOK, DoorInv, Driving
  <1>5. StatusOK' /\ StatusInv'
    BY DEF StatusOK, StatusTrue, HealthyBuiltin, StatusInv, Driving
  <1>6. RunInv'
    BY DEF RunInv, EndingRun, Alive
  <1> QED
    BY <1>1, <1>2, <1>3, <1>4, <1>5, <1>6

\* Waiting for a required field ends with the status of the top, or "disabled" for
\* good.
LEMMA NeedsSetupIInv == IInv /\ NeedsSetup => IInv'
  <1> SUFFICES ASSUME IInv, NeedsSetup PROVE IInv'
    OBVIOUS
  <1> USE DEF IInv, Driven, TypeOK, Flags, Values, NeedsSetup, GoneDisabled, Gone, Show,
              Loop, World, outside
  <1>1. Values'
    BY SupervisorAssumption DEF Alive
  <1>2. Flags'
    OBVIOUS
  <1>3. LinkLives' /\ NoneLeft'
    BY DEF LinkLives, NoneLeft, Driving, Alive
  <1>4. DoorOK' /\ DoorInv'
    BY DEF DoorOK, DoorInv, Driving
  <1>5. StatusOK' /\ StatusInv'
    BY DEF StatusOK, StatusTrue, HealthyBuiltin, StatusInv, Driving
  <1>6. RunInv'
    BY DEF RunInv, EndingRun, Alive
  <1> QED
    BY <1>1, <1>2, <1>3, <1>4, <1>5, <1>6

\* A refused start is given up the same way, or tried again with other settings.
LEMMA RefusedIInv == IInv /\ Refused => IInv'
  <1> SUFFICES ASSUME IInv, Refused PROVE IInv'
    OBVIOUS
  <1> USE DEF IInv, Driven, TypeOK, Flags, Values, Refused, Gone, Show, Loop, World,
              outside
  <1>1. Values'
    BY SupervisorAssumption DEF Alive
  <1>2. Flags'
    OBVIOUS
  <1>3. LinkLives' /\ NoneLeft'
    BY DEF LinkLives, NoneLeft, Driving, Alive
  <1>4. DoorOK' /\ DoorInv'
    BY DEF DoorOK, DoorInv, Driving
  <1>5. StatusOK' /\ StatusInv'
    BY DEF StatusOK, StatusTrue, HealthyBuiltin, StatusInv, Driving
  <1>6. RunInv'
    BY DEF RunInv, EndingRun, Alive
  <1> QED
    BY <1>1, <1>2, <1>3, <1>4, <1>5, <1>6

\* The wait before a restart keeps its promise of one until it is over, or takes it
\* back.
LEMMA BackoffIInv == IInv /\ Backoff => IInv'
  <1> SUFFICES ASSUME IInv, Backoff PROVE IInv'
    OBVIOUS
  <1> USE DEF IInv, Driven, TypeOK, Flags, Values, Backoff, GoneDisabled, Gone, Show,
              Loop, World, outside
  <1>1. Values'
    BY SupervisorAssumption, DoubledType DEF Alive
  <1>2. Flags'
    OBVIOUS
  <1>3. LinkLives' /\ NoneLeft'
    BY DEF LinkLives, NoneLeft, Driving, Alive
  <1>4. DoorOK' /\ DoorInv'
    BY DEF DoorOK, DoorInv, Driving
  <1>5. StatusOK' /\ StatusInv'
    BY DEF StatusOK, StatusTrue, HealthyBuiltin, StatusInv, Driving
  <1>6. RunInv'
    BY DEF RunInv, EndingRun, Alive
  <1> QED
    BY <1>1, <1>2, <1>3, <1>4, <1>5, <1>6

\* So does the wait after a process that could not be greeted, which has no program
\* left.
LEMMA UnheardIInv == IInv /\ Unheard => IInv'
  <1> SUFFICES ASSUME IInv, Unheard PROVE IInv'
    OBVIOUS
  <1> USE DEF IInv, Driven, TypeOK, Flags, Values, Unheard, Gone, Loop, World, outside
  <1>1. Values'
    BY SupervisorAssumption, DoubledType DEF Alive
  <1>2. Flags'
    OBVIOUS
  <1>3. LinkLives' /\ NoneLeft'
    BY DEF LinkLives, NoneLeft, Driving, Alive
  <1>4. DoorOK' /\ DoorInv'
    BY DEF DoorOK, DoorInv, Driving
  <1>5. StatusOK' /\ StatusInv'
    BY DEF StatusOK, StatusTrue, HealthyBuiltin, StatusInv, Driving
  <1>6. RunInv'
    BY DEF RunInv, EndingRun, Alive
  <1> QED
    BY <1>1, <1>2, <1>3, <1>4, <1>5, <1>6

\* Starting takes back any promise of a retry, and only one that connects in gets a door.
LEMMA StartIInv == IInv /\ Start => IInv'
  <1> SUFFICES ASSUME IInv, Start PROVE IInv'
    OBVIOUS
  <1> USE DEF IInv, Driven, TypeOK, Flags, Values, Start, Show, outside
  <1>1. Values'
    BY SupervisorAssumption DEF Alive
  <1>2. Flags'
    OBVIOUS
  <1>3. LinkLives' /\ NoneLeft'
    BY DEF LinkLives, NoneLeft, Driving, Alive
  <1>4. DoorOK' /\ DoorInv'
    BY DEF DoorOK, DoorInv, Driving
  <1>5. StatusOK' /\ StatusInv'
    BY DEF StatusOK, StatusTrue, HealthyBuiltin, StatusInv, Driving
  <1>6. RunInv'
    BY DEF RunInv, EndingRun, Alive
  <1> QED
    BY <1>1, <1>2, <1>3, <1>4, <1>5, <1>6

\* A built-in is linked with its program; one that panicked has not run long.
LEMMA StartBuiltinIInv == IInv /\ StartBuiltin => IInv'
  <1> SUFFICES ASSUME IInv, StartBuiltin PROVE IInv'
    OBVIOUS
  <1> USE DEF IInv, Driven, TypeOK, Flags, Values, StartBuiltin, Begin, Show
  <1>1. Values'
    BY SupervisorAssumption DEF Alive
  <1>2. Flags'
    BY SupervisorAssumption
  <1>3. LinkLives' /\ NoneLeft'
    BY SupervisorAssumption DEF LinkLives, NoneLeft, Driving, Alive
  <1>4. DoorOK' /\ DoorInv'
    BY SupervisorAssumption DEF DoorOK, DoorInv, Driving
  <1>5. StatusOK' /\ StatusInv'
    BY SupervisorAssumption DEF StatusOK, StatusTrue, HealthyBuiltin, StatusInv, Driving
  <1>6. RunInv'
    BY SupervisorAssumption DEF RunInv, EndingRun, Alive
  <1> QED
    BY <1>1, <1>2, <1>3, <1>4, <1>5, <1>6

\* A process starts with an empty pipe, so that its greeting fits.
LEMMA SpawnIInv == IInv /\ Spawn => IInv'
  <1> SUFFICES ASSUME IInv, Spawn PROVE IInv'
    OBVIOUS
  <1> USE DEF IInv, Driven, TypeOK, Flags, Values, Spawn, Show
  <1>1. Values'
    BY SupervisorAssumption DEF Alive
  <1>2. Flags'
    BY SupervisorAssumption
  <1>3. LinkLives' /\ NoneLeft'
    BY SupervisorAssumption
       DEF LinkLives, NoneLeft, Driving, Alive, RunInv, EndingRun, DoorInv
  <1>4. DoorOK' /\ DoorInv'
    BY SupervisorAssumption DEF DoorOK, DoorInv, Driving, RunInv, EndingRun
  <1>5. StatusOK' /\ StatusInv'
    BY SupervisorAssumption
       DEF StatusOK, StatusTrue, HealthyBuiltin, StatusInv, Driving, RunInv, EndingRun
  <1>6. RunInv'
    BY SupervisorAssumption DEF RunInv, EndingRun, Alive
  <1> QED
    BY <1>1, <1>2, <1>3, <1>4, <1>5, <1>6

\* From here the program is driven: linked, and shown as running.
LEMMA HelloIInv == IInv /\ Hello => IInv'
  <1> SUFFICES ASSUME IInv, Hello PROVE IInv'
    OBVIOUS
  <1> USE DEF IInv, Driven, TypeOK, Flags, Values, Hello, Begin, Show, outside
  <1>1. Values'
    BY SupervisorAssumption DEF RunInv, EndingRun, Alive
  <1>2. Flags'
    OBVIOUS
  <1>3. LinkLives' /\ NoneLeft'
    BY DEF LinkLives, NoneLeft, Driving, Alive, RunInv, EndingRun
  <1>4. DoorOK' /\ DoorInv'
    BY DEF DoorOK, DoorInv, Driving, RunInv, EndingRun, LinkLives
  <1>5. StatusOK' /\ StatusInv'
    BY DEF StatusOK, StatusTrue, HealthyBuiltin, StatusInv, Driving, RunInv, EndingRun
  <1>6. RunInv'
    BY DEF RunInv, EndingRun, Alive
  <1> QED
    BY <1>1, <1>2, <1>3, <1>4, <1>5, <1>6

\* A process that can't be greeted is killed before it is waited for, and one that
\* hung up loses its door.
LEMMA HelloFailedIInv == IInv /\ HelloFailed => IInv'
  <1> SUFFICES ASSUME IInv, HelloFailed PROVE IInv'
    OBVIOUS
  <1> USE DEF IInv, Driven, TypeOK, Flags, Values, HelloFailed, Alive, seen
  <1>1. Values'
    BY SupervisorAssumption
  <1>2. Flags'
    BY SupervisorAssumption
  <1>3. LinkLives' /\ NoneLeft'
    BY SupervisorAssumption DEF LinkLives, NoneLeft, Driving, RunInv, EndingRun, DoorInv
  <1>4. DoorOK' /\ DoorInv'
    BY SupervisorAssumption DEF DoorOK, DoorInv, Driving, RunInv, EndingRun, LinkLives
  <1>5. StatusOK' /\ StatusInv'
    BY SupervisorAssumption
       DEF StatusOK, StatusTrue, HealthyBuiltin, StatusInv, Driving, RunInv, EndingRun
  <1>6. RunInv'
    BY SupervisorAssumption DEF RunInv, EndingRun
  <1> QED
    BY <1>1, <1>2, <1>3, <1>4, <1>5, <1>6

\* The supervisor goes on only with a program it heard; a link it drops ends the
\* program's.
LEMMA DoorIInv == IInv /\ Door => IInv'
  <1> SUFFICES ASSUME IInv, Door PROVE IInv'
    OBVIOUS
  <1> USE DEF IInv, Driven, TypeOK, Flags, Values, Door, outside, seen
  <1>1. Values'
    BY SupervisorAssumption DEF Alive
  <1>2. Flags'
    OBVIOUS
  <1>3. LinkLives' /\ NoneLeft'
    BY DEF LinkLives, NoneLeft, Driving, Alive
  <1>4. DoorOK' /\ DoorInv'
    BY DEF DoorOK, DoorInv, Driving
  <1>5. StatusOK' /\ StatusInv'
    BY DEF StatusOK, StatusTrue, HealthyBuiltin, StatusInv, Driving
  <1>6. RunInv'
    BY DEF RunInv, EndingRun, Alive, DoorInv
  <1> QED
    BY <1>1, <1>2, <1>3, <1>4, <1>5, <1>6

\* abandon takes the door away whatever it has become.
LEMMA LeaveIInv == IInv /\ Leave => IInv'
  <1> SUFFICES ASSUME IInv, Leave PROVE IInv'
    OBVIOUS
  <1> USE DEF IInv, Driven, TypeOK, Flags, Values, Leave, GoneDisabled, Gone, Show,
              outside
  <1>1. Values'
    BY SupervisorAssumption DEF Alive
  <1>2. Flags'
    OBVIOUS
  <1>3. LinkLives' /\ NoneLeft'
    BY DEF LinkLives, NoneLeft, Driving, Alive
  <1>4. DoorOK' /\ DoorInv'
    BY DEF DoorOK, DoorInv, Driving
  <1>5. StatusOK' /\ StatusInv'
    BY DEF StatusOK, StatusTrue, HealthyBuiltin, StatusInv, Driving
  <1>6. RunInv'
    BY DEF RunInv, EndingRun, Alive
  <1> QED
    BY <1>1, <1>2, <1>3, <1>4, <1>5, <1>6

\* Once a line is delivered, or can't be, the supervisor is where it meant to go on,
\* or the run is over.
LEMMA DeliveredIInv == IInv /\ Delivered => IInv'
  <1> SUFFICES ASSUME IInv, Delivered PROVE IInv'
    OBVIOUS
  <1> USE DEF IInv, Driven, TypeOK, Flags, Values, Delivered, outside, seen
  <1>1. Values'
    BY SupervisorAssumption DEF RunInv, EndingRun, Alive
  <1>2. Flags'
    OBVIOUS
  <1>3. LinkLives' /\ NoneLeft'
    BY DEF LinkLives, NoneLeft, Driving, Alive, RunInv, EndingRun
  <1>4. DoorOK' /\ DoorInv'
    BY DEF DoorOK, DoorInv, Driving, RunInv, EndingRun
  <1>5. StatusOK' /\ StatusInv'
    BY DEF StatusOK, StatusTrue, HealthyBuiltin, StatusInv, Driving, RunInv, EndingRun
  <1>6. RunInv'
    BY DEF RunInv, EndingRun, Alive
  <1> QED
    BY <1>1, <1>2, <1>3, <1>4, <1>5, <1>6

\* The end of the first loop always has a reason, and drives on until the unlink.
LEMMA RunningIInv == IInv /\ Running => IInv'
  <1> SUFFICES ASSUME IInv, Running PROVE IInv'
    OBVIOUS
  <1> USE DEF IInv, Driven, TypeOK, Flags, Values, Running, Exited, Deliver, World,
              outside, seen
  <1>1. Values'
    BY SupervisorAssumption DEF Alive
  <1>2. Flags'
    BY SupervisorAssumption
  <1>3. LinkLives' /\ NoneLeft'
    BY SupervisorAssumption DEF LinkLives, NoneLeft, Driving, Alive
  <1>4. DoorOK' /\ DoorInv'
    BY SupervisorAssumption DEF DoorOK, DoorInv, Driving
  <1>5. StatusOK' /\ StatusInv'
    BY SupervisorAssumption DEF StatusOK, StatusTrue, HealthyBuiltin, StatusInv, Driving
  <1>6. RunInv'
    BY SupervisorAssumption DEF RunInv, EndingRun, Alive
  <1> QED
    BY <1>1, <1>2, <1>3, <1>4, <1>5, <1>6

\* A run that ends by itself is driven until the unlink, and has its reason.
LEMMA EndedIInv == IInv /\ Ended => IInv'
  <1> SUFFICES ASSUME IInv, Ended PROVE IInv'
    OBVIOUS
  <1> USE DEF IInv, Driven, TypeOK, Flags, Values, Ended, Exited, Quiet, Alive, seen
  <1>1. Values'
    BY SupervisorAssumption
  <1>2. Flags'
    OBVIOUS
  <1>3. LinkLives' /\ NoneLeft'
    BY DEF LinkLives, NoneLeft, Driving
  <1>4. DoorOK' /\ DoorInv'
    BY DEF DoorOK, DoorInv, Driving
  <1>5. StatusOK' /\ StatusInv'
    BY DEF StatusOK, StatusTrue, HealthyBuiltin, StatusInv, Driving
  <1>6. RunInv'
    BY DEF RunInv, EndingRun
  <1> QED
    BY <1>1, <1>2, <1>3, <1>4, <1>5, <1>6

\* A line goes out only in the middle of a run.
LEMMA CallIInv == IInv /\ Call => IInv'
  <1> SUFFICES ASSUME IInv, Call PROVE IInv'
    OBVIOUS
  <1> USE DEF IInv, Driven, TypeOK, Flags, Values, Call, Quiet, Exited, Deliver, World,
              outside, seen
  <1>1. Values'
    BY SupervisorAssumption DEF Alive
  <1>2. Flags'
    OBVIOUS
  <1>3. LinkLives' /\ NoneLeft'
    BY DEF LinkLives, NoneLeft, Driving, Alive
  <1>4. DoorOK' /\ DoorInv'
    BY DEF DoorOK, DoorInv, Driving
  <1>5. StatusOK' /\ StatusInv'
    BY DEF StatusOK, StatusTrue, HealthyBuiltin, StatusInv, Driving
  <1>6. RunInv'
    BY DEF RunInv, EndingRun, Alive
  <1> QED
    BY <1>1, <1>2, <1>3, <1>4, <1>5, <1>6

\* Only a driven program's words make its entities available.
LEMMA SaysIInv == IInv /\ Says => IInv'
  <1> SUFFICES ASSUME IInv, Says PROVE IInv'
    OBVIOUS
  <1> USE DEF IInv, Driven, TypeOK, Flags, Values, Says, Quiet, Exited, Deliver, World,
              outside
  <1>1. Values'
    BY SupervisorAssumption DEF Alive
  <1>2. Flags'
    OBVIOUS
  <1>3. LinkLives' /\ NoneLeft'
    BY DEF LinkLives, NoneLeft, Driving, Alive
  <1>4. DoorOK' /\ DoorInv'
    BY DEF DoorOK, DoorInv, Driving
  <1>5. StatusOK' /\ StatusInv'
    BY DEF StatusOK, StatusTrue, HealthyBuiltin, StatusInv, Driving
  <1>6. RunInv'
    BY DEF RunInv, EndingRun, Alive
  <1> QED
    BY <1>1, <1>2, <1>3, <1>4, <1>5, <1>6

\* The grace period ends with the program dead or killed.
LEMMA GraceIInv == IInv /\ Grace => IInv'
  <1> SUFFICES ASSUME IInv, Grace PROVE IInv'
    OBVIOUS
  <1> USE DEF IInv, Driven, TypeOK, Flags, Values, Grace, outside, seen
  <1>1. Values'
    BY SupervisorAssumption DEF Alive
  <1>2. Flags'
    BY SupervisorAssumption
  <1>3. LinkLives' /\ NoneLeft'
    BY SupervisorAssumption DEF LinkLives, NoneLeft, Driving, Alive
  <1>4. DoorOK' /\ DoorInv'
    BY SupervisorAssumption DEF DoorOK, DoorInv, Driving
  <1>5. StatusOK' /\ StatusInv'
    BY SupervisorAssumption DEF StatusOK, StatusTrue, HealthyBuiltin, StatusInv, Driving
  <1>6. RunInv'
    BY SupervisorAssumption DEF RunInv, EndingRun, Alive
  <1> QED
    BY <1>1, <1>2, <1>3, <1>4, <1>5, <1>6

\* After the run nothing is linked or available, and a connected door is given up.
LEMMA UnlinkIInv == IInv /\ Unlink => IInv'
  <1> SUFFICES ASSUME IInv, Unlink PROVE IInv'
    OBVIOUS
  <1> USE DEF IInv, Driven, TypeOK, Flags, Values, Unlink, Deliver, outside
  <1>1. Values'
    BY SupervisorAssumption DEF Alive
  <1>2. Flags'
    BY SupervisorAssumption
  <1>3. LinkLives' /\ NoneLeft'
    BY SupervisorAssumption DEF LinkLives, NoneLeft, Driving, Alive, RunInv, EndingRun
  <1>4. DoorOK' /\ DoorInv'
    BY SupervisorAssumption DEF DoorOK, DoorInv, Driving, RunInv, EndingRun, LinkLives
  <1>5. StatusOK' /\ StatusInv'
    BY SupervisorAssumption
       DEF StatusOK, StatusTrue, HealthyBuiltin, StatusInv, Driving, RunInv, EndingRun
  <1>6. RunInv'
    BY SupervisorAssumption DEF RunInv, EndingRun, Alive
  <1> QED
    BY <1>1, <1>2, <1>3, <1>4, <1>5, <1>6

\* A process is killed before it is waited for.
LEMMA KillIInv == IInv /\ Kill => IInv'
  <1> SUFFICES ASSUME IInv, Kill PROVE IInv'
    OBVIOUS
  <1> USE DEF IInv, Driven, TypeOK, Flags, Values, Kill, Alive, outside, seen
  <1>1. Values'
    BY SupervisorAssumption
  <1>2. Flags'
    OBVIOUS
  <1>3. LinkLives' /\ NoneLeft'
    BY DEF LinkLives, NoneLeft, Driving, RunInv, EndingRun
  <1>4. DoorOK' /\ DoorInv'
    BY DEF DoorOK, DoorInv, Driving, RunInv, EndingRun
  <1>5. StatusOK' /\ StatusInv'
    BY DEF StatusOK, StatusTrue, HealthyBuiltin, StatusInv, Driving, RunInv, EndingRun
  <1>6. RunInv'
    BY DEF RunInv, EndingRun
  <1> QED
    BY <1>1, <1>2, <1>3, <1>4, <1>5, <1>6

\* The end of a process's stderr, or of the wait for it, leads to the outcome with
\* the program dead or killed.
LEMMA FinishReadingIInv == IInv /\ FinishReading => IInv'
  <1> SUFFICES ASSUME IInv, FinishReading PROVE IInv'
    OBVIOUS
  <1> USE DEF IInv, Driven, TypeOK, Flags, Values, FinishReading, seen
  <1>1. Values'
    BY SupervisorAssumption DEF Alive
  <1>2. Flags'
    OBVIOUS
  <1>3. LinkLives' /\ NoneLeft'
    BY DEF LinkLives, NoneLeft, Driving, Alive, RunInv, EndingRun
  <1>4. DoorOK' /\ DoorInv'
    BY DEF DoorOK, DoorInv, Driving, RunInv, EndingRun
  <1>5. StatusOK' /\ StatusInv'
    BY DEF StatusOK, StatusTrue, HealthyBuiltin, StatusInv, Driving, RunInv, EndingRun
  <1>6. RunInv'
    BY DEF RunInv, EndingRun, Alive
  <1> QED
    BY <1>1, <1>2, <1>3, <1>4, <1>5, <1>6

\* What is left of a process was killed; every other program is let go of, and each
\* outcome shows its status.
LEMMA EndingIInv == IInv /\ Ending => IInv'
  <1> SUFFICES ASSUME IInv, Ending PROVE IInv'
    OBVIOUS
  <1> USE DEF IInv, Driven, TypeOK, Flags, Values, Ending, Alive, GoneDisabled, Gone,
              Show, Fail, outside
  <1>0. /\ why \in {"stopped", "reconfigured", "disabled", "ended", "unheard"}
        /\ kind \in {"builtin", "process", "inbound"}
    BY SupervisorAssumption DEF RunInv, EndingRun
  <1>1. Values'
    <2>0. delay' \in {delay, 1} /\ retry_at' \in {retry_at, 0, delay, 1}
      <3>1. CASE why = "ended" /\ kind = "builtin"
        BY <3>1
      <3>2. CASE why = "ended" /\ kind # "builtin"
        BY <1>0, <3>2
      <3>3. CASE why # "ended"
        BY <1>0, <3>3
      <3> QED
        BY <3>1, <3>2, <3>3
    <2>1. delay' \in 1 .. MaxRetry /\ retry_at' \in 0 .. MaxRetry
      BY <2>0, SupervisorAssumption
    <2>2. /\ pc' \in {"gone", "top", "unheard", "backoff"}
          /\ status' \in {status, "disabled", "failed"}
      BY <1>0
    <2>3. child' \in Alive \cup {"none", "dead"} /\ pipe' \in 0 .. Room
      BY SupervisorAssumption
    <2> QED
      BY <2>1, <2>2, <2>3
  <1>2. Flags'
    BY SupervisorAssumption
  <1>3. LinkLives' /\ NoneLeft'
    BY SupervisorAssumption DEF LinkLives, NoneLeft, Driving, RunInv, EndingRun
  <1>4. DoorOK' /\ DoorInv'
    BY SupervisorAssumption DEF DoorOK, DoorInv, Driving, RunInv, EndingRun
  <1>5. StatusOK' /\ StatusInv'
    BY SupervisorAssumption
       DEF StatusOK, StatusTrue, HealthyBuiltin, StatusInv, Driving, RunInv, EndingRun,
           LinkLives
  <1>6. RunInv'
    BY SupervisorAssumption DEF RunInv, EndingRun
  <1> QED
    BY <1>1, <1>2, <1>3, <1>4, <1>5, <1>6

-----------------------------------------------------------------------------
\* Every step of the supervisor, of the program and of people keeps the invariant.
LEMMA NextIInv == IInv /\ [Next]_vars => IInv'
  <1>1. IInv /\ UNCHANGED vars => IInv'
    BY
       DEF vars, IInv, Driven, TypeOK, Flags, Values, LinkLives, NoneLeft, Driving,
           DoorOK, StatusOK,
           StatusTrue, HealthyBuiltin, RunInv, EndingRun, DoorInv, StatusInv
  <1> QED
    BY <1>1, SetSettingsIInv, TurnOffOnIInv, ToldToStopIInv, DiesIInv, HangsIInv,
       ReadsIInv,
       OfferIInv, AgesIInv, TopIInv, StayOffIInv, NeedsSetupIInv, RefusedIInv,
       BackoffIInv, UnheardIInv, StartIInv, StartBuiltinIInv, SpawnIInv, HelloIInv,
       HelloFailedIInv, DoorIInv, LeaveIInv, DeliveredIInv, RunningIInv, EndedIInv,
       CallIInv, SaysIInv, GraceIInv, UnlinkIInv, KillIInv, FinishReadingIInv,
       EndingIInv
       DEF Next, Supervise

\* The inductive invariant holds in every state the supervisor can reach.
THEOREM Invariance == Spec => []IInv
  <1> QED
    BY InitIInv, NextIInv, PTL DEF Spec

\* Whatever ends a run (drive, start_kill, finish_reading), the extension is linked and
\* available exactly while its program is driven, and no program is left beside the next.
THEOREM ExtensionDriven == Spec => []Driven
  <1>1. IInv => Driven
    BY DEF IInv
  <1> QED
    BY Invariance, <1>1, PTL

\* No door stays open, or taken, without a supervisor that listens at it or drives the
\* program that came through it (offer, abandon, note_disconnected).
THEOREM DoorsClosed == Spec => []DoorOK
  <1>1. IInv => DoorOK
    BY DEF IInv
  <1> QED
    BY Invariance, <1>1, PTL

\* The status people see is what the supervisor does, and a built-in that had run well is
\* started again after first_retry (supervise, set_status).
THEOREM StatusShown == Spec => []StatusOK
  <1>1. IInv => StatusOK
    BY DEF IInv
  <1> QED
    BY Invariance, <1>1, PTL
=============================================================================
