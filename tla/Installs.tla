------------------------------ MODULE Installs ------------------------------
(***************************************************************************)
(* Installing updates one at a time per protocol: the line of              *)
(* crates/irori-core/src/installs.rs, the update state it is driven by     *)
(* (home/updates.rs) and the tasks of lib.rs that share both: the service  *)
(* calls of people, the protocol's reports, the watcher of each turn and   *)
(* the task that sends what comes off the line.                            *)
(*                                                                         *)
(* A task is a thread record in th.  Each action is what one task does     *)
(* under one hold of a lock (the home's, the line's, the entity's call     *)
(* lock) or at one await, and tasks interleave between actions, as on the  *)
(* multi-threaded runtime of the daemon (crates/irori/src/main.rs).        *)
(***************************************************************************)
EXTENDS Naturals, Sequences, FiniteSets

CONSTANTS
    Protocol, Entity,   \* protocols, and the update entities of the home
    ProtocolOf,         \* [Entity -> Protocol]
    Task,               \* thread ids
    None,               \* no entity, no task, nothing installing
    Gone, Unreported,   \* not in the registry; registered, its state None
    MaxVersion,         \* versions are 1..MaxVersion, 0 is "none"
    MaxInputs           \* bound: calls of people, and reports, (un)registrations
                        \* and removals of protocols, in all

ASSUME InstallsAssumption ==
    /\ ProtocolOf \in [Entity -> Protocol]
    /\ None \notin Task \cup Entity
    /\ None \notin [e : Entity, before : Nat, started : BOOLEAN]
    /\ Gone # Unreported
    /\ MaxVersion \in Nat \ {0}
    /\ MaxInputs \in Nat

VARIABLES
    upd,       \* Home.states of the update entities
    skips,     \* Home.skipped: the version passed over, 0 when none
    running,   \* Line.running of each protocol
    waiting,   \* Line.waiting of each protocol
    watchers,  \* how many watch_install tasks sleep on each entity
    busy,      \* Core.busy: who holds each entity's call lock
    th,        \* the other live tasks
    inputs,    \* what is used up of that bound
    turn,      \* history: how many turns each entity has been given
    sent,      \* history: the turn its last install was sent in
    over,      \* history: the last of its turns that came to its own end
    passed     \* history: a person's last accepted word on it was "skip"

home == <<upd, skips>>
line == <<running, waiting, watchers>>
hist == <<turn, sent, over, passed>>
vars == <<upd, skips, running, waiting, watchers, busy, th,
          inputs, turn, sent, over, passed>>

-----------------------------------------------------------------------------
Version == 1..MaxVersion

\* UpdateState, without the fields nothing here looks at.
UpdateState ==
    [installed : Version, latest : Version, available : BOOLEAN,
     inProgress : BOOLEAN, error : BOOLEAN, skipped : BOOLEAN]

HasState(s) == s \notin {Gone, Unreported}

Running ==
    [e : Entity, before : 0..MaxVersion, started : BOOLEAN]

Thread(op, pc, e, n) ==
    [op |-> op, pc |-> pc, ret |-> "done", e |-> e, turn |-> n,
     before |-> 0, ev |-> Gone, evturn |-> 0]

Idle == Thread("none", "idle", None, 0)

Installed(s) == IF HasState(s) THEN s.installed ELSE 0

IsRunning(e) ==
    LET r == running[ProtocolOf[e]] IN r # None /\ r.e = e

IsWaiting(e) ==
    \E i \in DOMAIN waiting[ProtocolOf[e]] : waiting[ProtocolOf[e]][i] = e

NewTurn(e) ==
    [e |-> e, before |-> Installed(upd[e]), started |-> FALSE]

\* Task t goes on as r.
Goto(t, r) == th' = [th EXCEPT ![t] = r]

Release(t) == busy' = [e \in Entity |-> IF busy[e] = t THEN None ELSE busy[e]]

Finish(t) == Goto(t, Idle) /\ Release(t)

\* Task r, back from what it called.
Back(r) == IF r.ret = "done" THEN Idle
           ELSE [r EXCEPT !.pc = r.ret, !.ret = "done", !.ev = Gone, !.evturn = 0]

Return(t) == IF th[t].ret = "done" THEN Finish(t)
             ELSE Goto(t, Back(th[t])) /\ UNCHANGED busy

\* What a publish of the new state does next: nothing changed means nothing is
\* published.
Publish(t, r, changed, new, ret) ==
    IF changed
    THEN Goto(t, [r EXCEPT !.pc = "heard", !.ret = ret, !.ev = new,
                           !.evturn = turn[r.e]]) /\ UNCHANGED busy
    ELSE IF ret = "done" THEN Finish(t)
    ELSE Goto(t, [r EXCEPT !.pc = ret]) /\ UNCHANGED busy

\* A state that changed: here, or in what is left out of UpdateState (the
\* progress, the wording of an error).
Differs(old, new, other) == new # old \/ (other /\ HasState(new))

-----------------------------------------------------------------------------
(* home/updates.rs *)

\* fold: what the device said, with the skip and the last error worked in.
\* 'told' is the protocol's own last_error.
Fold(old, said, told, skip) ==
    LET kept == skip # 0 /\ said.latest = skip
        carried ==
            /\ HasState(old)
            /\ ~told
            /\ old.installed = said.installed
            /\ \/ old.inProgress /\ said.installed # said.latest
               \/ old.error
    IN [said EXCEPT !.skipped = kept,
                    !.available = @ /\ ~kept,
                    !.error = ~said.inProgress /\ (told \/ carried)]

FoldSkip(said, skip) == IF said.latest = skip THEN skip ELSE 0

Began(s) == IF HasState(s) THEN [s EXCEPT !.error = FALSE] ELSE s

Failed(s) ==
    IF HasState(s) THEN [s EXCEPT !.error = TRUE, !.inProgress = FALSE] ELSE s

-----------------------------------------------------------------------------
(* Core::call_service on an update entity: install, skip, clear_skipped.    *)

CallService(t, e, op) ==
    /\ th[t].pc = "idle"
    /\ inputs < MaxInputs
    /\ inputs' = inputs + 1
    /\ Goto(t, Thread(op, "lock", e, 0))
    /\ UNCHANGED <<home, line, busy, hist>>

\* The entity's turn in Core.busy.
Lock(t) ==
    /\ th[t].pc = "lock"
    /\ busy[th[t].e] = None
    /\ busy' = [busy EXCEPT ![th[t].e] = t]
    /\ Goto(t, [th[t] EXCEPT !.pc = "resolve"])
    /\ UNCHANGED <<home, line, inputs, hist>>

\* The deadline passes while it waits for the entity: CallError::Timeout.
LockTimeout(t) ==
    /\ th[t].pc = "lock"
    /\ Goto(t, IF th[t].op = "line" THEN [th[t] EXCEPT !.pc = "linefail"] ELSE Idle)
    /\ UNCHANGED <<home, line, busy, inputs, hist>>

\* The caller drops the future at an await; the line's own task never does.
Abandon(t) ==
    /\ th[t].pc \in {"lock", "send", "answer"}
    /\ th[t].op # "line"
    /\ Finish(t)
    /\ UNCHANGED <<home, line, inputs, hist>>

\* Turn n of e came to its end, as far as anyone who watches it can tell.
Ended(e, n) == over' = [over EXCEPT ![e] = IF n > @ THEN n ELSE @]

\* A call that ends in an error: the caller of an install hands its turn on,
\* the line's task says why on the entity first.
CallFailed(t) ==
    /\ IF th[t].op = "line"
       THEN Goto(t, [th[t] EXCEPT !.pc = "linefail"]) /\ Release(t)
       ELSE Goto(t, [th[t] EXCEPT !.pc = "over"]) /\ UNCHANGED busy
    /\ Ended(th[t].e, th[t].turn)
    /\ UNCHANGED <<turn, sent, passed>>

\* Home::resolve, and which of the three services it is.
Resolve(t) ==
    /\ th[t].pc = "resolve"
    /\ IF upd[th[t].e] = Gone
       THEN IF th[t].op = "line" THEN CallFailed(t)
                                 ELSE Finish(t) /\ UNCHANGED hist
       ELSE /\ Goto(t, [th[t] EXCEPT !.pc = IF th[t].op = "line" THEN "begin"
                                            ELSE th[t].op])
            /\ UNCHANGED <<busy, hist>>
    /\ UNCHANGED <<home, line, inputs>>

\* take_turn, under the home's lock: refused while it is installing or when it
\* says there is nothing to install.
TakeTurn(t) ==
    LET s == upd[th[t].e] IN
    /\ th[t].pc = "install"
    /\ IF HasState(s) /\ (s.inProgress \/ ~s.available)
       THEN Finish(t)
       ELSE /\ Goto(t, [th[t] EXCEPT !.pc = "ask", !.before = Installed(s)])
            /\ UNCHANGED busy
    /\ UNCHANGED <<home, line, inputs, hist>>

\* Mutated form of WatchInstall: nobody watches.
WatchNobody(e) == UNCHANGED watchers

\* watch_install: one more task sleeps on e.
WatchInstall(e) == watchers' = [watchers EXCEPT ![e] = @ + 1]

\* Installs::ask, under the line's lock, and watch_install for who may go.
Ask(t) ==
    LET e == th[t].e
        p == ProtocolOf[e]
    IN
    /\ th[t].pc = "ask"
    /\ passed' = [passed EXCEPT ![e] = FALSE]
    /\ \/ /\ running[p] # None \/ IsWaiting(e)
          /\ waiting' = IF IsRunning(e) \/ IsWaiting(e) THEN waiting
                        ELSE [waiting EXCEPT ![p] = Append(@, e)]
          /\ Finish(t)
          /\ UNCHANGED <<running, watchers, turn>>
       \/ /\ running[p] = None
          /\ ~IsWaiting(e)
          /\ running' = [running EXCEPT ![p] =
                            [NewTurn(e) EXCEPT !.before = th[t].before]]
          /\ WatchInstall(e)
          /\ turn' = [turn EXCEPT ![e] = @ + 1]
          /\ Goto(t, [th[t] EXCEPT !.pc = "begin", !.turn = turn[e] + 1])
          /\ UNCHANGED <<waiting, busy>>
    /\ UNCHANGED <<home, inputs, sent, over>>

\* begin_update: what went wrong last time is over.
BeginUpdate(t) ==
    LET e == th[t].e IN
    /\ th[t].pc = "begin"
    /\ upd' = [upd EXCEPT ![e] = Began(@)]
    /\ Publish(t, th[t], upd[e] # Began(upd[e]), Began(upd[e]), "send")
    /\ UNCHANGED <<skips, line, inputs, hist>>

\* dispatch: sent to the protocol, unless it isn't running, its queue stays
\* full, or the entity is gone by now.
Send(t) ==
    LET e == th[t].e IN
    /\ th[t].pc = "send"
    /\ \/ /\ upd[e] # Gone
          /\ sent' = [sent EXCEPT ![e] = th[t].turn]
          /\ Goto(t, [th[t] EXCEPT !.pc = "answer"])
          /\ UNCHANGED <<busy, turn, over, passed>>
       \/ CallFailed(t)
    /\ UNCHANGED <<home, line, inputs>>

\* The protocol's answer, or none in time.
Answer(t) ==
    /\ th[t].pc = "answer"
    /\ \/ Finish(t) /\ UNCHANGED hist
       \/ CallFailed(t)
    /\ UNCHANGED <<home, line, inputs>>

\* skip_update.
Skip(t) ==
    LET e == th[t].e
        s == upd[e]
        new == [s EXCEPT !.skipped = TRUE, !.available = FALSE]
    IN
    /\ th[t].pc = "skip"
    /\ IF HasState(s) /\ ~s.inProgress /\ s.available
       THEN /\ upd' = [upd EXCEPT ![e] = new]
            /\ skips' = [skips EXCEPT ![e] = s.latest]
            /\ passed' = [passed EXCEPT ![e] = TRUE]
            /\ Goto(t, [th[t] EXCEPT !.pc = "leave", !.ev = new, !.evturn = turn[e]])
            /\ UNCHANGED busy
       ELSE Finish(t) /\ UNCHANGED <<home, passed>>
    /\ UNCHANGED <<line, inputs, turn, sent, over>>

\* VecDeque::retain: an entity is in a line once at most (LineOK).
Without(s, e) ==
    IF \E i \in DOMAIN s : s[i] = e
    THEN LET k == CHOOSE i \in DOMAIN s : s[i] = e
         IN [i \in 1..(Len(s) - 1) |-> IF i < k THEN s[i] ELSE s[i + 1]]
    ELSE s

\* Installs::leave, then the publish.
Leave(t) ==
    LET e == th[t].e IN
    /\ th[t].pc = "leave"
    /\ waiting' = [p \in Protocol |-> Without(waiting[p], e)]
    /\ Goto(t, [th[t] EXCEPT !.pc = "heard"])
    /\ UNCHANGED <<home, running, watchers, busy, inputs, hist>>

\* clear_skipped_update.
ClearSkipped(t) ==
    LET e == th[t].e
        s == upd[e]
        new == IF HasState(s)
               THEN [s EXCEPT !.skipped = FALSE, !.available = s.installed # s.latest]
               ELSE s
    IN
    /\ th[t].pc = "clear"
    /\ upd' = [upd EXCEPT ![e] = new]
    /\ skips' = [skips EXCEPT ![e] = 0]
    /\ passed' = [passed EXCEPT ![e] = FALSE]
    /\ Publish(t, th[t], s # new, new, "done")
    /\ UNCHANGED <<line, inputs, turn, sent, over>>

-----------------------------------------------------------------------------
(* The line. *)

\* Installs::heard, from publish: a state says its install goes on or is over.
Heard(t) ==
    LET e == th[t].e
        p == ProtocolOf[e]
        s == th[t].ev
        r == running[p]
        ended == r.started \/ s.installed # r.before \/ s.error
    IN
    /\ th[t].pc = "heard"
    /\ \/ /\ IsRunning(e) /\ HasState(s) /\ s.inProgress
          /\ running' = [running EXCEPT ![p].started = TRUE]
          /\ Return(t)
          /\ UNCHANGED over
       \/ /\ IsRunning(e) /\ HasState(s) /\ ~s.inProgress /\ ended
          /\ Goto(t, [th[t] EXCEPT !.pc = "over"])
          /\ Ended(e, th[t].evturn)
          /\ UNCHANGED <<running, busy>>
       \/ /\ IsRunning(e) /\ HasState(s) => ~s.inProgress /\ ~ended
          /\ Return(t)
          /\ UNCHANGED <<running, over>>
    /\ UNCHANGED <<home, waiting, watchers, inputs, turn, sent, passed>>

\* Mutated form of NextInLine: the turn ends and nobody is given the next.
NextStalls(e) ==
    /\ running' = IF IsRunning(e) THEN [running EXCEPT ![ProtocolOf[e]] = None] ELSE running
    /\ UNCHANGED <<waiting, watchers, turn>>

\* Installs::next for the turn of e: whoever waited longest runs now, and a
\* watcher is on it.  Nothing happens when e isn't the one installing.
NextInLine(e) ==
    LET p == ProtocolOf[e]
        w == waiting[p]
    IN
    IF IsRunning(e) /\ w # <<>>
    THEN /\ running' = [running EXCEPT ![p] = NewTurn(Head(w))]
         /\ waiting' = [waiting EXCEPT ![p] = Tail(@)]
         /\ WatchInstall(Head(w))
         /\ turn' = [turn EXCEPT ![Head(w)] = @ + 1]
    ELSE /\ running' = IF IsRunning(e) THEN [running EXCEPT ![p] = None] ELSE running
         /\ UNCHANGED <<waiting, watchers, turn>>

\* The entity NextInLine hands the turn to.
Follows(e) ==
    IF IsRunning(e) /\ waiting[ProtocolOf[e]] # <<>>
    THEN Head(waiting[ProtocolOf[e]]) ELSE None

\* install_over: the next in line is sent by a task of its own (in the slot of
\* the one that spawns it, when that has nothing left to do).
InstallOver(t) ==
    LET e == th[t].e
        n == Follows(e)
        sender == Thread("line", "check", n, turn[n] + 1)
    IN
    /\ th[t].pc = "over"
    /\ NextInLine(e)
    /\ \/ n = None /\ Return(t)
       \/ /\ n # None
          /\ th[t].ret = "done"
          /\ Goto(t, sender)
          /\ Release(t)
       \/ /\ n # None
          /\ th[t].ret # "done"
          /\ \E s \in Task :
                /\ th[s].pc = "idle"
                /\ th' = [th EXCEPT ![t] = Back(th[t]), ![s] = sender]
          /\ UNCHANGED busy
    /\ UNCHANGED <<home, inputs, sent, over, passed>>

\* run_line, top of the loop: skipped or installed some other way meanwhile?
LineCheck(t) ==
    LET s == upd[th[t].e] IN
    /\ th[t].pc = "check"
    /\ Goto(t, [th[t] EXCEPT !.pc = IF HasState(s) /\ ~s.available
                                    THEN "linenext" ELSE "lock"])
    /\ UNCHANGED <<home, line, busy, inputs, hist>>

\* run_line: it couldn't be sent, which its entity says.
LineFail(t) ==
    LET e == th[t].e IN
    /\ th[t].pc = "linefail"
    /\ upd' = [upd EXCEPT ![e] = Failed(@)]
    /\ \E other \in BOOLEAN :
        Publish(t, th[t], Differs(upd[e], Failed(upd[e]), other), Failed(upd[e]), "linenext")
    /\ UNCHANGED <<skips, line, inputs, hist>>

\* run_line: on to the next in line, if it was still this one's turn.
LineNext(t) ==
    LET e == th[t].e
        n == Follows(e)
    IN
    /\ th[t].pc = "linenext"
    /\ NextInLine(e)
    /\ Goto(t, IF n = None THEN Idle ELSE Thread("line", "check", n, turn[n] + 1))
    /\ UNCHANGED <<home, busy, inputs, sent, over, passed>>

-----------------------------------------------------------------------------
(* The tasks watch_install started. *)

\* Mutated form of Sleeping: a watcher that has ended wakes again.
Waking(e) == TRUE

Sleeping(e) == watchers[e] > 0

\* A watcher wakes to find that e isn't installing any more.
WatchOver(e) ==
    /\ Sleeping(e)
    /\ ~IsRunning(e)
    /\ watchers' = [watchers EXCEPT ![e] = @ - 1]
    /\ UNCHANGED <<home, running, waiting, busy, th, inputs, hist>>

\* A watcher wakes to find that e has said nothing for as long as it is given
\* (how long that is depends on started; any wake-up may be the late one): it
\* failed.
WatchOverdue(t, e) ==
    /\ th[t].pc = "idle"
    /\ Sleeping(e)
    /\ IsRunning(e)
    /\ watchers' = [watchers EXCEPT ![e] = @ - 1]
    /\ Goto(t, Thread("watch", "watchfail", e, turn[e]))
    /\ Ended(e, turn[e])
    /\ UNCHANGED <<home, running, waiting, busy, inputs, turn, sent, passed>>

\* fail_update, whose publish may itself end the turn; install_over follows.
WatchFail(t) ==
    LET e == th[t].e IN
    /\ th[t].pc = "watchfail"
    /\ upd' = [upd EXCEPT ![e] = Failed(@)]
    /\ \E other \in BOOLEAN :
        Publish(t, th[t], Differs(upd[e], Failed(upd[e]), other), Failed(upd[e]), "over")
    /\ UNCHANGED <<skips, line, inputs, hist>>

-----------------------------------------------------------------------------
(* What a protocol says, and its going away. *)

\* What a device may say of its update; clean() has dropped the rest.
Said == {s \in UpdateState :
            /\ s.installed <= s.latest
            /\ s.available = (s.installed # s.latest)
            /\ ~s.error /\ ~s.skipped}

\* report_state.  A protocol's reports are applied one at a time.
Report(t, e, said, told) ==
    LET new == Fold(upd[e], said, told, skips[e]) IN
    /\ th[t].pc = "idle"
    /\ \A s \in Task : th[s].op = "report" => ProtocolOf[th[s].e] # ProtocolOf[e]
    /\ upd[e] # Gone
    /\ inputs < MaxInputs
    /\ inputs' = inputs + 1
    /\ upd' = [upd EXCEPT ![e] = new]
    /\ skips' = [skips EXCEPT ![e] = FoldSkip(said, @)]
    /\ passed' = [passed EXCEPT ![e] = @ /\ said.latest = skips[e]]
    /\ \E other \in BOOLEAN :
        Publish(t, Thread("report", "done", e, 0), Differs(upd[e], new, other), new, "done")
    /\ UNCHANGED <<line, turn, sent, over>>

\* A report that names a call the core doesn't know is refused, but only after
\* fold_update has let go of a skip that is out of date.
RefusedReport(e, said) ==
    /\ upd[e] # Gone
    /\ inputs < MaxInputs
    /\ inputs' = inputs + 1
    /\ skips' = [skips EXCEPT ![e] = FoldSkip(said, @)]
    /\ UNCHANGED <<upd, line, busy, th, hist>>

\* The entity is described, or removed: no state to hear of.
Register(e) ==
    /\ inputs < MaxInputs
    /\ inputs' = inputs + 1
    /\ upd' = [upd EXCEPT ![e] = IF @ = Gone THEN Unreported ELSE Gone]
    /\ UNCHANGED <<skips, line, busy, th, hist>>

\* remove_protocol: its entities, and then its line.
RemoveProtocol(t, e) ==
    /\ th[t].pc = "idle"
    /\ inputs < MaxInputs
    /\ inputs' = inputs + 1
    /\ upd' = [d \in Entity |-> IF ProtocolOf[d] = ProtocolOf[e] THEN Gone ELSE upd[d]]
    /\ Goto(t, Thread("remove", "forget", e, 0))
    /\ UNCHANGED <<skips, line, busy, hist>>

Forget(t) ==
    LET p == ProtocolOf[th[t].e] IN
    /\ th[t].pc = "forget"
    /\ running' = [running EXCEPT ![p] = None]
    /\ waiting' = [waiting EXCEPT ![p] = <<>>]
    /\ over' = [e \in Entity |-> IF ProtocolOf[e] = p THEN turn[e] ELSE over[e]]
    /\ Goto(t, Idle)
    /\ UNCHANGED <<home, watchers, busy, inputs, turn, sent, passed>>

-----------------------------------------------------------------------------
\* An update on offer for every device, and nothing asked yet.
Init ==
    /\ upd = [e \in Entity |->
                [installed |-> 1, latest |-> MaxVersion, available |-> MaxVersion # 1,
                 inProgress |-> FALSE, error |-> FALSE, skipped |-> FALSE]]
    /\ skips = [e \in Entity |-> 0]
    /\ running = [p \in Protocol |-> None]
    /\ waiting = [p \in Protocol |-> <<>>]
    /\ watchers = [e \in Entity |-> 0]
    /\ busy = [e \in Entity |-> None]
    /\ th = [t \in Task |-> Idle]
    /\ inputs = 0
    /\ turn = [e \in Entity |-> 0]
    /\ sent = [e \in Entity |-> 0]
    /\ over = [e \in Entity |-> 0]
    /\ passed = [e \in Entity |-> FALSE]

\* What a task does once it is under way, without the choices of its caller.
Step(t) ==
    \/ Lock(t) \/ Resolve(t) \/ TakeTurn(t) \/ Ask(t) \/ BeginUpdate(t)
    \/ Send(t) \/ Answer(t) \/ Skip(t) \/ Leave(t) \/ ClearSkipped(t)
    \/ Heard(t) \/ InstallOver(t) \/ LineCheck(t) \/ LineFail(t) \/ LineNext(t)
    \/ WatchFail(t) \/ Forget(t)

Next ==
    \/ \E t \in Task :
        \/ Step(t) \/ LockTimeout(t) \/ Abandon(t)
        \/ \E e \in Entity :
            \/ \E op \in {"install", "skip", "clear"} : CallService(t, e, op)
            \/ WatchOverdue(t, e)
            \/ \E said \in Said, told \in BOOLEAN : Report(t, e, said, told)
            \/ RemoveProtocol(t, e)
    \/ \E e \in Entity :
        \/ WatchOver(e) \/ Register(e)
        \/ \E said \in Said : RefusedReport(e, said)

Spec == Init /\ [][Next]_vars

\* The runtime runs every task that can run, sleeping watchers included, and
\* time passes.  Callers, reports and removals owe nothing.
Fairness ==
    /\ \A t \in Task : WF_vars(Step(t))
    /\ \A e \in Entity : WF_vars(\E t \in Task : WatchOverdue(t, e))

FairSpec == Spec /\ Fairness

-----------------------------------------------------------------------------
PC == {"idle", "lock", "resolve", "install", "skip", "clear", "ask", "begin",
       "send", "answer", "leave", "heard", "over", "check", "linefail",
       "linenext", "watchfail", "forget", "done"}
Op == {"none", "install", "skip", "clear", "line", "watch", "report", "remove"}

State == UpdateState \cup {Gone, Unreported}

ThreadState ==
    [op : Op, pc : PC, ret : PC, e : Entity \cup {None}, turn : Nat,
     before : 0..MaxVersion, ev : State, evturn : Nat]

\* Type correctness of the home's update states, the lines and the tasks.
TypeOK ==
    /\ upd \in [Entity -> State]
    /\ skips \in [Entity -> 0..MaxVersion]
    /\ running \in [Protocol -> Running \cup {None}]
    /\ waiting \in [Protocol -> Seq(Entity)]
    /\ watchers \in [Entity -> Nat]
    /\ busy \in [Entity -> Task \cup {None}]
    /\ th \in [Task -> ThreadState]
    /\ \A t \in Task : th[t].pc # "idle" => th[t].e \in Entity
    /\ inputs \in 0..MaxInputs
    /\ turn \in [Entity -> Nat]
    /\ sent \in [Entity -> Nat] /\ over \in [Entity -> Nat]
    /\ passed \in [Entity -> BOOLEAN]

\* A line never stalls or doubles: something waits only behind an install that
\* has the turn, everything in a line is the protocol's own, and no entity is
\* in it twice (Installs::ask, next, leave and forget together).
LineOK ==
    \A p \in Protocol :
        /\ running[p] = None => waiting[p] = <<>>
        /\ running[p] # None => ProtocolOf[running[p].e] = p
        /\ \A i \in DOMAIN waiting[p] :
            /\ ProtocolOf[waiting[p][i]] = p
            /\ running[p].e # waiting[p][i]
            /\ \A j \in DOMAIN waiting[p] : waiting[p][i] = waiting[p][j] => i = j

\* Whoever has the turn is watched "from the moment it has the turn"
\* (take_turn), whatever becomes of the call: a watcher sleeps on it, or one
\* has found it late and is about to end its turn.
Watched ==
    \A p \in Protocol : running[p] # None =>
        \/ watchers[running[p].e] > 0
        \/ \E t \in Task : th[t].op = "watch" /\ th[t].e = running[p].e

\* "The core sends a protocol one update.install at a time": two installs of a
\* protocol are never both sent and not ended, where an install ends by what
\* happens in its own turn (its call's error, a state it reported since, its
\* watcher's verdict) or with its protocol.
OneAtATime ==
    \A d, e \in Entity :
        sent[d] > over[d] /\ sent[e] > over[e] /\ ProtocolOf[d] = ProtocolOf[e] => d = e

\* A person's skip is not overtaken by the install they asked for before it:
\* nothing is sent while the last accepted word about the update is "skip".
SkipStands ==
    [][\A e \in Entity : sent'[e] # sent[e] => ~passed[e]]_vars

\* "The line must still move": whatever waits gets its turn or leaves the line.
LineMoves ==
    \A e \in Entity : IsWaiting(e) ~> ~IsWaiting(e)
=============================================================================
