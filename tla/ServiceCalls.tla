---------------------------- MODULE ServiceCalls ----------------------------
(***************************************************************************)
(* Service calls on one on/off entity of one protocol: Core::call and      *)
(* dispatch of crates/irori-core/src/lib.rs, with the entity's call lock   *)
(* and its clean-up (ReleaseWhenIdle), the guard of a call not delivered   *)
(* yet (Delivery), and what home.rs keeps for them: the value the entity   *)
(* was last told to have (commanded) and the calls a report may name as    *)
(* its cause (recent_calls).  Calls on different entities share only the   *)
(* latter.                                                                 *)
(*                                                                         *)
(* Each action is what a caller does under one hold of a lock or at one    *)
(* await; a caller may drop its future at any await (Abandon).  What ends  *)
(* a call drops its locals in the order Rust does: the delivery guard, the *)
(* turn, the clean-up guard, the reference to the lock.                    *)
(***************************************************************************)
EXTENDS Naturals, Sequences, FiniteSets

CONSTANTS
    Task,        \* callers
    Lock,        \* call locks: every entry of Core.busy is one nobody has
    Commands,    \* what is asked for: toggle, on, off
    None,
    MaxCalls,    \* bound: calls made in all; a call's number is its context
    MaxReports,  \* bound: reports, (un)registrations and (un)links
    MaxRecent    \* MAX_RECENT_CALLS

ASSUME CallsAssumption ==
    /\ IsFiniteSet(Task)
    /\ None \notin Lock \cup Task
    /\ None \notin {"on", "off"}
    /\ Commands \subseteq {"toggle", "on", "off"}
    /\ MaxCalls \in Nat
    /\ MaxReports \in Nat
    /\ MaxRecent \in Nat \ {0}

VARIABLES
    registered,  \* the entity is in the registry
    value,       \* its state, as last reported
    commanded,   \* Home.commanded
    recent,      \* Home.recent_calls of the protocol
    linked,      \* Core.links has the protocol
    busy,        \* Core.busy: the entity's lock in the map
    turn,        \* per lock: who holds it
    th,          \* the callers
    calls, events,   \* what is used up of the two bounds
    told,        \* history: the value last delivered, until the device reports
                 \* or a call comes to nothing
    delivered,   \* history: the calls delivered
    fresh        \* history: no report since the last call was recorded

entity == <<registered, value, linked>>
lock == <<busy, turn>>
hist == <<told, delivered, fresh>>
vars == <<registered, value, commanded, recent, linked, busy, turn, th,
          calls, events, told, delivered, fresh>>

-----------------------------------------------------------------------------
OnOff == {"on", "off"}

Idle == [pc |-> "idle", cmd |-> "toggle", want |-> "on", lock |-> None, ctx |-> 0]

Goto(t, pc) == th' = [th EXCEPT ![t].pc = pc]

\* Who has a reference to lock k, the map apart.
Sharers(k) == {t \in Task : th[t].lock = k}

\* on_off_toggle of what it was last told, else of what it last said.
Current == IF commanded # None THEN commanded ELSE value
Toggled(v) == IF v = "on" THEN "off" ELSE "on"

-----------------------------------------------------------------------------
(* Core::call: the entity's turn. *)

\* The lock in the map, or a new one put there.
Enter(t, cmd) ==
    /\ th[t].pc = "idle"
    /\ calls < MaxCalls
    /\ calls' = calls + 1
    /\ \E k \in Lock :
        /\ IF busy # None THEN k = busy ELSE Sharers(k) = {}
        /\ busy' = k
        /\ th' = [th EXCEPT ![t] = [pc |-> "wait", cmd |-> cmd, want |-> "on",
                                    lock |-> k, ctx |-> calls + 1]]
    /\ UNCHANGED <<entity, commanded, recent, turn, events, hist>>

TakeTurn(t) ==
    /\ th[t].pc = "wait"
    /\ turn[th[t].lock] = None
    /\ turn' = [turn EXCEPT ![th[t].lock] = t]
    /\ Goto(t, "resolve")
    /\ UNCHANGED <<entity, commanded, recent, busy, calls, events, hist>>

\* The deadline passes, or the caller gives up, while it waits for its turn.
GiveUpTurn(t) ==
    /\ th[t].pc = "wait"
    /\ Goto(t, "idle?")
    /\ UNCHANGED <<entity, commanded, recent, lock, calls, events, hist>>

\* Home::resolve.
Resolve(t) ==
    /\ th[t].pc = "resolve"
    /\ IF registered
       THEN th' = [th EXCEPT ![t].pc = "record",
                             ![t].want = IF th[t].cmd = "toggle" THEN Toggled(Current)
                                         ELSE th[t].cmd]
       ELSE Goto(t, "unlock")
    /\ UNCHANGED <<entity, commanded, recent, lock, calls, events, hist>>

-----------------------------------------------------------------------------
(* Core::dispatch. *)

\* Mutated form of Recorded: nothing makes room.
RecordedOnTop(c) == Append(recent, c)

\* record_call: the oldest makes room.  (That it also lets go of calls older
\* than CALL_WINDOW is left out: no five minutes pass.)
Recorded(c) ==
    Append(IF Len(recent) = MaxRecent THEN Tail(recent) ELSE recent, c)

\* Both recorded before sending; a protocol that isn't running gets nothing.
Record(t) ==
    /\ th[t].pc = "record"
    /\ IF linked
       THEN /\ recent' = Recorded(th[t].ctx)
            /\ commanded' = th[t].want
            /\ fresh' = TRUE
            /\ Goto(t, "check")
       ELSE Goto(t, "unlock") /\ UNCHANGED <<recent, commanded, fresh>>
    /\ UNCHANGED <<entity, lock, calls, events, told, delivered>>

\* Mutated form of Undelivered: there is no guard.
Unguarded(t) ==
    /\ told' = None
    /\ Goto(t, "unlock")
    /\ UNCHANGED <<recent, commanded, delivered, fresh>>

\* forget_call: a call is among them once at most (record_call gets a new context
\* each time).
Forgotten(c) ==
    IF \E i \in DOMAIN recent : recent[i] = c
    THEN LET k == CHOOSE i \in DOMAIN recent : recent[i] = c
         IN [i \in 1..(Len(recent) - 1) |-> IF i < k THEN recent[i] ELSE recent[i + 1]]
    ELSE recent

\* Delivery::drop of a call that was not delivered: forget_call.
Undelivered(t) ==
    /\ recent' = Forgotten(th[t].ctx)
    /\ commanded' = None
    /\ told' = None
    /\ Goto(t, "unlock")
    /\ UNCHANGED <<delivered, fresh>>

\* still_dispatchable.
Check(t) ==
    /\ th[t].pc = "check"
    /\ \/ registered /\ Goto(t, "send") /\ UNCHANGED <<recent, commanded, hist>>
       \/ ~registered /\ Undelivered(t)
    /\ UNCHANGED <<entity, lock, calls, events>>

\* The protocol has it.
Deliver(t) ==
    /\ th[t].pc = "send"
    /\ linked
    /\ told' = th[t].want
    /\ delivered' = delivered \cup {th[t].ctx}
    /\ Goto(t, "answer")
    /\ UNCHANGED <<entity, commanded, recent, lock, calls, events, fresh>>

\* The queue stays full until the deadline, the protocol is gone, or the caller
\* drops the future mid-send.
SendFails(t) ==
    /\ th[t].pc = "send"
    /\ Undelivered(t)
    /\ UNCHANGED <<entity, lock, calls, events>>

AnswerOk(t) ==
    /\ th[t].pc = "answer"
    /\ Goto(t, "unlock")
    /\ UNCHANGED <<entity, commanded, recent, lock, calls, events, hist>>

\* An error, a dropped call or no answer in time.
AnswerFails(t) ==
    /\ th[t].pc = "answer"
    /\ commanded' = None
    /\ told' = None
    /\ Goto(t, "unlock")
    /\ UNCHANGED <<entity, recent, lock, calls, events, delivered, fresh>>

\* Mutated form of Abandon: what it told the entity is forgotten with it.
AbandonForgets(t) ==
    /\ th[t].pc = "answer"
    /\ commanded' = None
    /\ Goto(t, "unlock")
    /\ UNCHANGED <<entity, recent, lock, calls, events, hist>>

\* The caller drops the future after delivery: the protocol has the call.
Abandon(t) ==
    /\ th[t].pc = "answer"
    /\ Goto(t, "unlock")
    /\ UNCHANGED <<entity, commanded, recent, lock, calls, events, hist>>

-----------------------------------------------------------------------------
(* The end of a call. *)

\* The turn's guard.
Unlock(t) ==
    /\ th[t].pc = "unlock"
    /\ turn' = [turn EXCEPT ![th[t].lock] = None]
    /\ Goto(t, "idle?")
    /\ UNCHANGED <<entity, commanded, recent, busy, calls, events, hist>>

\* Mutated form of OnlyMine: the map's copy goes whoever else waits.
AnyOnes(k) == TRUE

\* strong_count <= 2: the map's copy and this call's.
OnlyMine(k) == Cardinality(Sharers(k)) <= 1

\* ReleaseWhenIdle::drop, under the map's lock.
Release(t) ==
    /\ th[t].pc = "idle?"
    /\ busy' = IF busy # None /\ OnlyMine(busy) THEN None ELSE busy
    /\ Goto(t, "left")
    /\ UNCHANGED <<entity, commanded, recent, turn, calls, events, hist>>

\* The reference itself, last.
DropLock(t) ==
    /\ th[t].pc = "left"
    /\ th' = [th EXCEPT ![t] = Idle]
    /\ UNCHANGED <<entity, commanded, recent, lock, calls, events, hist>>

-----------------------------------------------------------------------------
(* The protocol: what it reports, and its coming and going. *)

\* report_state: the device has spoken.
Report(v) ==
    /\ events < MaxReports
    /\ registered
    /\ events' = events + 1
    /\ value' = v
    /\ commanded' = None
    /\ told' = None
    /\ fresh' = FALSE
    /\ UNCHANGED <<registered, recent, linked, lock, th, calls, delivered>>

\* remove_entity, or describe_entity of one that is not there.
Register ==
    /\ events < MaxReports
    /\ events' = events + 1
    /\ registered' = ~registered
    /\ value' = None
    /\ IF registered THEN commanded' = None /\ told' = None /\ fresh' = FALSE
                     ELSE UNCHANGED <<commanded, told, fresh>>
    /\ UNCHANGED <<recent, linked, lock, th, calls, delivered>>

\* link and unlink: it starts and stops.
Link ==
    /\ events < MaxReports
    /\ events' = events + 1
    /\ linked' = ~linked
    /\ UNCHANGED <<registered, value, commanded, recent, lock, th, calls, hist>>

-----------------------------------------------------------------------------
\* Just described: nothing reported yet.
Init ==
    /\ registered = TRUE
    /\ value = None
    /\ commanded = None
    /\ recent = <<>>
    /\ linked = TRUE
    /\ busy = None
    /\ turn = [k \in Lock |-> None]
    /\ th = [t \in Task |-> Idle]
    /\ calls = 0
    /\ events = 0
    /\ told = None
    /\ delivered = {}
    /\ fresh = FALSE

Next ==
    \/ \E t \in Task :
        \/ \E cmd \in Commands : Enter(t, cmd)
        \/ TakeTurn(t) \/ GiveUpTurn(t) \/ Resolve(t) \/ Record(t) \/ Check(t)
        \/ Deliver(t) \/ SendFails(t) \/ AnswerOk(t) \/ AnswerFails(t) \/ Abandon(t)
        \/ Unlock(t) \/ Release(t) \/ DropLock(t)
    \/ \E v \in OnOff : Report(v)
    \/ Register \/ Link

Spec == Init /\ [][Next]_vars

-----------------------------------------------------------------------------
Busy == {"resolve", "record", "check", "send", "answer", "unlock"}

\* Type correctness of the home's part, the locks and the callers.
Flags == registered \in BOOLEAN /\ linked \in BOOLEAN /\ fresh \in BOOLEAN

Caller ==
    [pc : Busy \cup {"idle", "wait", "idle?", "left"}, cmd : OnOff \cup {"toggle"},
     want : OnOff, lock : Lock \cup {None}, ctx : 0..MaxCalls]

Values ==
    /\ value \in OnOff \cup {None}
    /\ commanded \in OnOff \cup {None}
    /\ recent \in Seq(1..MaxCalls) /\ Len(recent) <= MaxRecent
    /\ busy \in Lock \cup {None}
    /\ turn \in [Lock -> Task \cup {None}]
    /\ th \in [Task -> Caller]
    /\ calls \in 0..MaxCalls /\ events \in 0..MaxReports
    /\ told \in OnOff \cup {None}
    /\ delivered \subseteq 1..MaxCalls

TypeOK == Flags /\ Values

\* A step in which t resolves a toggle.
Toggles(t) ==
    th[t].pc = "resolve" /\ th'[t].pc = "record" /\ th[t].cmd = "toggle"

\* "One call at a time per entity": two calls are never both between their turn
\* and its end, although the lock they wait for leaves the map with whoever
\* finds itself the last to need it.
OneCall ==
    \A s, t \in Task : th[s].pc \in Busy /\ th[t].pc \in Busy => s = t

\* "Two toggles in a row don't both see the old value while the first is still in
\* flight" (Home.commanded): the next toggle undoes the last command, whoever
\* gave it and also when they have walked away, as long as the device has said
\* nothing since the core recorded that command.  (A report that comes between
\* the recording and the delivery is taken for the answer to it.)
TogglesCancel ==
    [][\A t \in Task : Toggles(t) /\ told # None /\ fresh
            => th'[t].want = Toggled(told)]_vars

\* "Delivered to this protocol" (docs/specs/protocols.md 8): what a report may
\* name as its cause was delivered, or is on its way; a call that never went
\* out leaves nothing behind.
CausesDelivered ==
    \A i \in DOMAIN recent :
        \/ recent[i] \in delivered
        \/ \E t \in Task : th[t].pc \in {"check", "send"} /\ th[t].ctx = recent[i]

\* Nothing is remembered for an entity that is gone, once the call that was
\* being prepared has noticed.
NoOrphanCommand ==
    commanded # None /\ ~registered => \E t \in Task : th[t].pc = "check"

\* One call at a time per entity (call_lock, dispatch_call), and no more recent
\* calls are remembered than MaxRecent (record_call).
CallsOK == TypeOK /\ OneCall

\* A call that never went out leaves nothing behind that a later report or toggle
\* could be put down to: no cause that was not delivered (recent_calls) and no
\* command for an entity that is gone (commanded).
LeavesNothing == CausesDelivered /\ NoOrphanCommand
=============================================================================
