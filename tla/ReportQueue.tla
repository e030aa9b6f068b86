---------------------------- MODULE ReportQueue ----------------------------
(***************************************************************************)
(* State reports on their way from a protocol to the core: ReportQueue of  *)
(* crates/irori-protocol/src/lib.rs, and the two loops that empty it: the  *)
(* host's own for a built-in protocol (serve, drain and pump of            *)
(* irori-core/src/host.rs), and the runner's of one in a process of its    *)
(* own (pump_outgoing of irori-protocol/src/process.rs), whose lines then  *)
(* go to the host through a bounded queue and a pipe.                      *)
(*                                                                         *)
(* Any task of the protocol may push; each action is what one task does    *)
(* under one hold of the queue's mutex, or one call on the other queue.    *)
(* The reports of an entity are numbered in the order they are pushed.     *)
(***************************************************************************)
EXTENDS Naturals, Sequences, FiniteSets

CONSTANTS
    Ent,          \* unique ids with something to report, in BTreeMap order
    Events,       \* those of them that are events: a value of theirs is a press
    Nulls,        \* an event may also be reported to have no value
    MaxEntities,  \* MAX_PENDING_ENTITIES
    MaxPresses,   \* MAX_PENDING_OCCURRENCES
    Room,         \* STDOUT_QUEUE
    MaxReports,   \* bound: reports pushed for each entity
    MaxOps        \* bound: operations that need an answer

ASSUME QueueAssumption ==
    /\ Ent \subseteq Nat \ {0} /\ IsFiniteSet(Ent)
    /\ Events \subseteq Ent
    /\ Nulls \in BOOLEAN
    /\ MaxEntities \in Nat \ {0} /\ MaxPresses \in Nat \ {0} /\ Room \in Nat \ {0}
    /\ MaxReports \in Nat /\ MaxOps \in Nat

VARIABLES
    external,   \* the protocol runs in a process of its own; never changes
    pending,    \* ReportQueue.pending; <<>> where there is no entry
    dropped,    \* ReportQueue.dropped
    permit,     \* ReportQueue.ready: a wake-up nobody has used yet
    waking,     \* pushes that have not called notify_one yet
    pushed,     \* per entity, how many reports it has made
    task,       \* the protocol's task: up, ended, or cut off and not stopped yet
    ops,        \* operations waiting for the loop
    made,       \* operations made so far
    pc,         \* where the loop is
    hand,       \* what the loop has taken out of the queue
    out,        \* lines on their way to the host
    received,   \* history: per entity, the reports the core applied
    lost,       \* history: per entity, the reports dropped for want of room
    counted     \* what dropped has told the core

queue == <<pending, dropped>>
env == <<external, pushed, task, made>>
vars == <<external, pending, dropped, permit, waking, pushed, task, ops, made, pc,
          hand, out, received, lost, counted>>

-----------------------------------------------------------------------------
Report == [e : Ent, n : 1..MaxReports, press : BOOLEAN]

\* A line on its way to the host that is an operation, not a report.
OpLine == [e |-> 0, n |-> 0, press |-> FALSE]

Waiting == {e \in Ent : pending[e] # <<>>}

First == CHOOSE e \in Waiting : \A d \in Waiting : e <= d

\* StateReport::is_occurrence.
IsOccurrence(r) == r.press

\* Mutated form of Squeezed: nothing makes room.
Unsqueezed(s) == s

\* A press of e that doesn't fit takes the place of the oldest.
Squeezed(s) == IF Len(s) >= MaxPresses THEN Tail(s) ELSE s

\* What waits for an entity once r does: a press comes after the others, a
\* value replaces everything.
Queued(s, r) == IF IsOccurrence(r) THEN Append(Squeezed(s), r) ELSE <<r>>

\* Whom a push costs its place: itself, or the oldest press.
Refused(r) == Cardinality(Waiting) >= MaxEntities /\ r.e \notin Waiting
Displaced(r) ==
    IF Refused(r) THEN {r}
    ELSE IF IsOccurrence(r) /\ Len(pending[r.e]) >= MaxPresses THEN {Head(pending[r.e])}
    ELSE {}

\* push, under the mutex.
Push(e, press) ==
    LET r == [e |-> e, n |-> pushed[e] + 1, press |-> press] IN
    /\ task # "ended"
    /\ pushed[e] < MaxReports
    /\ pushed' = [pushed EXCEPT ![e] = @ + 1]
    /\ pending' = IF Refused(r) THEN pending ELSE [pending EXCEPT ![e] = Queued(@, r)]
    /\ dropped' = dropped + Cardinality(Displaced(r))
    /\ lost' = [lost EXCEPT ![e] = @ \cup Displaced(r)]
    /\ waking' = waking + 1
    /\ UNCHANGED <<external, permit, task, ops, made, pc, hand, out, received, counted>>

\* Mutated form of Wake: nobody is told.
WakeNobody ==
    /\ waking > 0
    /\ waking' = waking - 1
    /\ UNCHANGED <<queue, permit, env, ops, pc, hand, out, received, lost, counted>>

\* push: notify_one, "for drops too".
Wake ==
    /\ waking > 0
    /\ waking' = waking - 1
    /\ permit' = TRUE
    /\ UNCHANGED <<queue, env, ops, pc, hand, out, received, lost, counted>>

\* Any operation of the protocol other than a report.
Ask ==
    /\ task = "up"
    /\ made < MaxOps
    /\ made' = made + 1
    /\ ops' = ops + 1
    /\ UNCHANGED <<external, queue, permit, waking, pushed, task, pc, hand, out, received, lost, counted>>

\* The protocol's run returns.  What becomes of the lines of an external one
\* with its process is the operating system's affair.
End ==
    /\ task = "up"
    /\ ~external
    /\ task' = "ended"
    /\ UNCHANGED <<external, queue, permit, waking, pushed, ops, made, pc, hand, out, received, lost, counted>>

-----------------------------------------------------------------------------
(* Reports::ready, in either loop's select. *)

Ready == Waiting # {} \/ dropped > 0

\* Looked at first, so that a wake-up from before is not needed.
Look ==
    /\ pc = "select"
    /\ external => ops = 0
    /\ task = "up"
    /\ pc' = IF Ready THEN (IF external THEN "discard" ELSE "drain") ELSE "wait"
    /\ UNCHANGED <<queue, permit, waking, env, ops, hand, out, received, lost, counted>>

\* notified().await.
Woken ==
    /\ pc = "wait"
    /\ permit
    /\ permit' = FALSE
    /\ pc' = "select"
    /\ UNCHANGED <<queue, waking, env, ops, hand, out, received, lost, counted>>

-----------------------------------------------------------------------------
(* The host's loop. *)

\* serve: apply_op, which the select may take at any time.
ServeOp ==
    /\ ~external
    /\ pc \in {"select", "wait"}
    /\ task = "up"
    /\ ops > 0
    /\ ops' = ops - 1
    /\ pc' = "select"
    /\ UNCHANGED <<queue, permit, waking, env, hand, out, received, lost, counted>>

\* Mutated form of SeeEnd: nothing is drained.
SeeEndAtOnce ==
    /\ ~external
    /\ pc \in {"select", "wait"}
    /\ task = "ended"
    /\ ops' = 0
    /\ pc' = "ended"
    /\ UNCHANGED <<queue, permit, waking, env, hand, out, received, lost, counted>>

\* pump: the task has ended; drain applies what operations are left.
SeeEnd ==
    /\ ~external
    /\ pc \in {"select", "wait"}
    /\ task = "ended"
    /\ ops' = 0
    /\ pc' = "last"
    /\ UNCHANGED <<queue, permit, waking, env, hand, out, received, lost, counted>>

\* pump: told to stop, it hasn't within the grace period.  It is cancelled, which
\* takes effect at its next await, and drained at once.
CutOff ==
    /\ ~external
    /\ pc \in {"select", "wait"}
    /\ task = "up"
    /\ task' = "cut"
    /\ ops' = 0
    /\ pc' = "last"
    /\ UNCHANGED <<external, queue, permit, waking, pushed, made, hand, out, received, lost, counted>>

\* Mutated form of Drain: one report of each entity.
DrainOne ==
    /\ pc \in {"drain", "last"}
    /\ hand' = [e \in Ent |-> IF e \in Waiting THEN <<Head(pending[e])>> ELSE <<>>]
    /\ pending' = [e \in Ent |-> <<>>]
    /\ pc' = IF pc = "drain" THEN "apply" ELSE "applylast"
    /\ UNCHANGED <<dropped, permit, waking, env, ops, out, received, lost, counted>>

\* Reports::drain.
Drain ==
    /\ pc \in {"drain", "last"}
    /\ hand' = pending
    /\ pending' = [e \in Ent |-> <<>>]
    /\ pc' = IF pc = "drain" THEN "apply" ELSE "applylast"
    /\ UNCHANGED <<dropped, permit, waking, env, ops, out, received, lost, counted>>

\* Mutated form of Apply: the count is taken and not passed on.
ApplyUncounted ==
    /\ pc \in {"apply", "applylast"}
    /\ dropped' = 0
    /\ received' = [e \in Ent |-> received[e] \o hand[e]]
    /\ hand' = [e \in Ent |-> <<>>]
    /\ pc' = IF pc = "apply" THEN "select" ELSE "ended"
    /\ UNCHANGED <<pending, permit, waking, env, ops, out, lost, counted>>

\* take_dropped, then apply_reports.
Apply ==
    /\ pc \in {"apply", "applylast"}
    /\ dropped' = 0
    /\ counted' = counted + dropped
    /\ received' = [e \in Ent |-> received[e] \o hand[e]]
    /\ hand' = [e \in Ent |-> <<>>]
    /\ pc' = IF pc = "apply" THEN "select" ELSE "ended"
    /\ UNCHANGED <<pending, permit, waking, env, ops, out, lost>>

-----------------------------------------------------------------------------
(* The runner's loop, pump_outgoing. *)

\* An operation goes first, wherever the loop selects.
TakeOp ==
    /\ external
    /\ pc \in {"select", "wait", "full"}
    /\ ops > 0
    /\ ops' = ops - 1
    /\ pc' = "sendop"
    /\ UNCHANGED <<queue, permit, waking, env, hand, out, received, lost, counted>>

\* Mutated form of SendOp: it doesn't wait for room.
SendOpAnyway ==
    /\ pc = "sendop"
    /\ out' = Append(out, OpLine)
    /\ pc' = "select"
    /\ UNCHANGED <<queue, permit, waking, env, ops, hand, received, lost, counted>>

\* send_line, once there is room.
SendOp ==
    /\ pc = "sendop"
    /\ Len(out) < Room
    /\ out' = Append(out, OpLine)
    /\ pc' = "select"
    /\ UNCHANGED <<queue, permit, waking, env, ops, hand, received, lost, counted>>

\* "The external host never sees that counter".
Discard ==
    /\ pc = "discard"
    /\ dropped' = 0
    /\ pc' = "pop"
    /\ UNCHANGED <<pending, permit, waking, env, ops, hand, out, received, lost, counted>>

\* Reports::pop.
Pop ==
    /\ pc = "pop"
    /\ IF Waiting = {}
       THEN pc' = "select" /\ UNCHANGED <<pending, hand>>
       ELSE /\ hand' = [hand EXCEPT ![First] = <<Head(pending[First])>>]
            /\ pending' = [pending EXCEPT ![First] = Tail(@)]
            /\ pc' = "offer"
    /\ UNCHANGED <<dropped, permit, waking, env, ops, out, received, lost, counted>>

\* The entity the loop has a report of in hand.
Held == CHOOSE e \in Ent : hand[e] # <<>>

\* offer_report: try_send.
Offer ==
    /\ pc = "offer"
    /\ IF Len(out) < Room
       THEN /\ out' = Append(out, Head(hand[Held]))
            /\ hand' = [hand EXCEPT ![Held] = <<>>]
            /\ pc' = "pop"
       ELSE pc' = "restore" /\ UNCHANGED <<out, hand>>
    /\ UNCHANGED <<queue, permit, waking, env, ops, received, lost, counted>>

\* Mutated form of PutBack: it goes behind what came meanwhile.
PutBehind(s, r) == Append(s, r)

\* Mutated form of PutBack: a value goes back over a newer one.
PutOver(s, r) == IF IsOccurrence(r) THEN <<r>> \o s ELSE <<r>>

\* A press goes back ahead of the others, a value only where nothing waits.
PutBack(s, r) ==
    IF IsOccurrence(r) THEN <<r>> \o s ELSE IF s = <<>> THEN <<r>> ELSE s

\* offer_report: restore_if_absent.
Restore ==
    /\ pc = "restore"
    /\ pending' = [pending EXCEPT ![Held] = PutBack(@, Head(hand[Held]))]
    /\ hand' = [hand EXCEPT ![Held] = <<>>]
    /\ pc' = "full"
    /\ UNCHANGED <<dropped, permit, waking, env, ops, out, received, lost, counted>>

\* There is room again, for whatever is pending now.
Reserve ==
    /\ pc = "full"
    /\ ops = 0
    /\ Len(out) < Room
    /\ pc' = "select"
    /\ UNCHANGED <<queue, permit, waking, env, ops, hand, out, received, lost, counted>>

\* The stdout thread and the pipe; the host applies a report as it reads it.
Write ==
    /\ out # <<>>
    /\ out' = Tail(out)
    /\ received' = IF Head(out) = OpLine THEN received
                   ELSE [received EXCEPT ![Head(out).e] = Append(@, Head(out))]
    /\ UNCHANGED <<queue, permit, waking, env, ops, pc, hand, lost, counted>>

-----------------------------------------------------------------------------
Init ==
    /\ external \in BOOLEAN
    /\ pending = [e \in Ent |-> <<>>]
    /\ dropped = 0
    /\ permit = FALSE
    /\ waking = 0
    /\ pushed = [e \in Ent |-> 0]
    /\ task = "up"
    /\ ops = 0
    /\ made = 0
    /\ pc = "select"
    /\ hand = [e \in Ent |-> <<>>]
    /\ out = <<>>
    /\ received = [e \in Ent |-> <<>>]
    /\ lost = [e \in Ent |-> {}]
    /\ counted = 0

Loop ==
    \/ Look \/ Woken \/ ServeOp \/ SeeEnd \/ Drain \/ Apply
    \/ TakeOp \/ SendOp \/ Discard \/ Pop \/ Offer \/ Restore \/ Reserve

Next ==
    \/ \E e \in Ent, press \in BOOLEAN :
        /\ press => e \in Events
        /\ ~press => e \notin Events \/ Nulls
        /\ Push(e, press)
    \/ Wake \/ Ask \/ End \/ CutOff \/ Loop \/ Write

Spec == Init /\ [][Next]_vars

\* The runtime runs the loop whenever it can go on, a push gets to its
\* notify_one, and the host reads the pipe.
Fairness == WF_vars(Loop) /\ WF_vars(Wake) /\ WF_vars(Write)

FairSpec == Spec /\ Fairness

-----------------------------------------------------------------------------
PC == {"select", "wait", "drain", "apply", "last", "applylast", "ended",
       "sendop", "discard", "pop", "offer", "restore", "full"}

\* Type correctness of the queues and the loop.
TypeOK ==
    /\ external \in BOOLEAN
    /\ pending \in [Ent -> Seq(Report)]
    /\ dropped \in Nat /\ counted \in Nat
    /\ permit \in BOOLEAN /\ task \in {"up", "ended", "cut"}
    /\ waking \in Nat
    /\ pushed \in [Ent -> 0..MaxReports]
    /\ ops \in 0..MaxOps /\ made \in 0..MaxOps
    /\ pc \in PC
    /\ hand \in [Ent -> Seq(Report)]
    /\ out \in Seq(Report \cup {OpLine}) /\ Len(out) <= Room
    /\ received \in [Ent -> Seq(Report)]
    /\ lost \in [Ent -> SUBSET Report]

\* MAX_PENDING_ENTITIES and MAX_PENDING_OCCURRENCES "bound the core's memory":
\* never more than one report beyond them waits, the one the runner puts back
\* without looking (restore_if_absent), and none beyond them for a built-in.
Bounded ==
    LET more == IF external THEN 1 ELSE 0 IN
    /\ Cardinality(Waiting) <= MaxEntities + more
    /\ \A e \in Ent : Len(pending[e]) <= MaxPresses + more

\* The reports of e still on their way to the core.
OnTheWay(e) ==
    {pending[e][i] : i \in DOMAIN pending[e]} \cup {hand[e][i] : i \in DOMAIN hand[e]}
        \cup {r \in {out[i] : i \in DOMAIN out} : r.e = e}

Received(e) == {received[e][i] : i \in DOMAIN received[e]}

\* The core hears an entity in the order it spoke, and nothing twice, whatever
\* is popped, put back and replaced meanwhile.
InOrder ==
    \A e \in Ent : \A i, j \in DOMAIN received[e] :
        i < j => received[e][i].n < received[e][j].n

\* "Only the latest matters": the newest report of an entity is on its way or
\* has arrived, unless there was no room for it.
NewestKept ==
    \A e \in Ent : pushed[e] > 0 =>
        \E r \in OnTheWay(e) \cup Received(e) \cup lost[e] : r.n = pushed[e]

\* "Each one counts, so none may stand in for another" (StateReport): no press
\* goes missing but those dropped for want of room.
PressesKept ==
    \A e \in Events : \A n \in 1..pushed[e] :
        \E r \in OnTheWay(e) \cup Received(e) \cup lost[e] : r.n = n

\* "Further ones are dropped and logged" (docs/specs/protocols.md 3): the core
\* has been told of every report a built-in protocol dropped, or is about to be.
\* Those an external one dropped it is never told of (Discard).
DropsCounted ==
    ~external =>
        Cardinality(UNION {lost[e] : e \in Ent}) = dropped + counted

\* "Whatever it said on its way out still counts": when a protocol has ended by
\* itself, in the grace period or before, nothing it said is left behind.
LastWords ==
    pc = "ended" /\ task = "ended" => dropped = 0 /\ \A e \in Ent : OnTheWay(e) = {}

\* No wake-up is lost: what waits for the core is taken, without another report
\* having to come and wake it, unless the protocol is cut off.
Delivered ==
    \A e \in Ent : pending[e] # <<>> ~> pending[e] = <<>> \/ task = "cut"

\* The reports that wait for the core stay within the limits of push, squeezed
\* and put back, and the queue to the host within its room, however the two are
\* interleaved.
QueueOK == TypeOK /\ Bounded

\* What is not dropped for want of room gets there as it was said, whatever is
\* popped, put back and replaced meanwhile (push, pop, restore_if_absent): in
\* order, the newest of each entity, and every press of an event.
ReportsKept == InOrder /\ NewestKept /\ PressesKept

\* No report of a built-in goes without trace: the core is told how many were
\* dropped, and what a protocol said before it ended by itself, drops included,
\* is read before its run is over.
NoneUncounted == DropsCounted /\ LastWords
=============================================================================
