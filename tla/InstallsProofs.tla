--------------------------- MODULE InstallsProofs ---------------------------
(***************************************************************************)
(* Proofs about Installs, for any protocols, entities, tasks and bounds.   *)
(* The argument: a turn is given only together with a watcher (WatchInstall *)
(* in Ask and NextInLine), a watcher goes away only when its entity has no *)
(* turn, and one that found it late keeps its task until InstallOver has   *)
(* ended the turn it found.                                                *)
(***************************************************************************)
EXTENDS Installs, SequenceTheorems, TLAPS

\* Where a task may come back to.
Ret == {"done", "send", "over", "linenext"}

\* What is known of a task, beyond its type: what the line sends is its own
\* op, only calls wait for the entity, and a watcher that has found its install
\* late stays with it until the turn is over.
ThreadOK(r) ==
    /\ r \in ThreadState
    /\ r.pc # "idle" => r.e \in Entity
    /\ r.ret \in Ret
    /\ r.pc = "check" => r.op = "line"
    /\ r.pc \in {"lock", "resolve"} => r.op \in {"install", "skip", "clear", "line"}
    /\ r.op = "watch" =>
        /\ r.pc \in {"watchfail", "heard", "over"}
        /\ r.ret \in {"done", "over"}
        /\ r.pc = "heard" => r.ret = "over"

ThreadsOK ==
    /\ th \in [Task -> ThreadState]
    /\ \A t \in Task : ThreadOK(th[t])

\* The types of everything that is not a task.
DataOK ==
    /\ upd \in [Entity -> State]
    /\ skips \in [Entity -> 0..MaxVersion]
    /\ running \in [Protocol -> Running \cup {None}]
    /\ waiting \in [Protocol -> Seq(Entity)]
    /\ watchers \in [Entity -> Nat]
    /\ busy \in [Entity -> Task \cup {None}]
    /\ inputs \in 0..MaxInputs
    /\ turn \in [Entity -> Nat]
    /\ sent \in [Entity -> Nat] /\ over \in [Entity -> Nat]
    /\ passed \in [Entity -> BOOLEAN]

IInv == DataOK /\ ThreadsOK /\ LineOK /\ Watched

\* Task r goes on as q: a late watcher stays the late watcher of its entity.
Follow(r, q) == r.op = "watch" => q.op = "watch" /\ q.e = r.e

\* No late watcher is lost by the step.
KeepsWatch ==
    \A s \in Task : th[s].op = "watch" => th'[s].op = "watch" /\ th'[s].e = th[s].e

-----------------------------------------------------------------------------
(* Tasks. *)

\* A task with nothing to do is as it should be.
LEMMA IdleOK == ThreadOK(Idle) /\ Idle.op # "watch"
  BY InstallsAssumption DEF ThreadOK, ThreadState, Idle, Thread, State, PC, Op, Ret

\* So is one that is just given something to do (the record Thread makes).
LEMMA ThreadMade ==
  ASSUME NEW op \in Op, NEW pc \in PC, NEW e \in Entity, NEW n \in Nat,
         pc = "check" => op = "line",
         pc \in {"lock", "resolve"} => op \in {"install", "skip", "clear", "line"},
         op = "watch" => pc \in {"watchfail", "over"}
  PROVE  ThreadOK(Thread(op, pc, e, n)) /\ Thread(op, pc, e, n).op = op
           /\ Thread(op, pc, e, n).e = e
  BY InstallsAssumption DEF ThreadOK, ThreadState, Thread, State, PC, Op, Ret

\* One task's step keeps them all, and every late watcher, if it does for that
\* one (Goto).
LEMMA GotoOK ==
  ASSUME ThreadsOK, NEW t \in Task, NEW r, ThreadOK(r), Goto(t, r)
  PROVE  /\ ThreadsOK'
         /\ Follow(th[t], r) => KeepsWatch
  <1>1. r \in ThreadState
    BY DEF ThreadOK
  <1>2. th' \in [Task -> ThreadState]
    BY <1>1 DEF Goto, ThreadsOK
  <1>3. \A s \in Task : th'[s] = IF s = t THEN r ELSE th[s]
    BY DEF Goto, ThreadsOK
  <1>4. \A s \in Task : ThreadOK(th'[s])
    BY <1>3 DEF ThreadsOK
  <1> QED
    BY <1>2, <1>3, <1>4 DEF ThreadsOK, Follow, KeepsWatch, ThreadOK

\* What comes back from a call is as it should be (Back).
LEMMA BackOK ==
  ASSUME NEW r, ThreadOK(r), r.pc \in {"heard", "over"}
  PROVE  /\ ThreadOK(Back(r))
         /\ r.ret # "done" => Follow(r, Back(r))
  <1>1. CASE r.ret = "done"
    BY <1>1, IdleOK DEF Back
  <1>2. CASE r.ret # "done"
    <2> DEFINE q == [r EXCEPT !.pc = r.ret, !.ret = "done", !.ev = Gone, !.evturn = 0]
    <2>1. Back(r) = q
      BY <1>2 DEF Back
    <2>2. q \in ThreadState
      BY DEF ThreadOK, ThreadState, State, PC, Ret
    <2>3. /\ q.pc = r.ret /\ q.ret = "done" /\ q.op = r.op /\ q.e = r.e
      BY DEF ThreadOK, ThreadState
    <2> QED
      BY <1>2, <2>1, <2>2, <2>3 DEF ThreadOK, Ret, Follow
  <1> QED
    BY <1>1, <1>2

\* Finish leaves the call locks well typed.
LEMMA ReleaseOK ==
  ASSUME busy \in [Entity -> Task \cup {None}], NEW t \in Task, Release(t)
  PROVE  busy' \in [Entity -> Task \cup {None}]
  BY DEF Release

\* A task that ends lets go of its lock, and was no late watcher (Finish).
LEMMA FinishOK ==
  ASSUME ThreadsOK, DataOK, NEW t \in Task, Finish(t)
  PROVE  /\ ThreadsOK' /\ busy' \in [Entity -> Task \cup {None}]
         /\ th[t].op # "watch" => KeepsWatch
  <1>1. Goto(t, Idle) /\ Release(t)
    BY DEF Finish
  <1>2. th[t].op # "watch" => Follow(th[t], Idle)
    BY DEF Follow
  <1> QED
    BY <1>1, <1>2, IdleOK, GotoOK, ReleaseOK DEF DataOK

\* A task that returns (Return).
LEMMA ReturnOK ==
  ASSUME ThreadsOK, DataOK, NEW t \in Task, th[t].pc \in {"heard", "over"}, Return(t)
  PROVE  /\ ThreadsOK' /\ busy' \in [Entity -> Task \cup {None}]
         /\ (th[t].op = "watch" => th[t].ret # "done") => KeepsWatch
  <1>0. ThreadOK(th[t])
    BY DEF ThreadsOK
  <1>1. CASE th[t].ret = "done"
    <2>1. Finish(t)
      BY <1>1 DEF Return
    <2> QED
      BY <1>1, <2>1, FinishOK
  <1>2. CASE th[t].ret # "done"
    <2>1. Goto(t, Back(th[t])) /\ UNCHANGED busy
      BY <1>2 DEF Return
    <2>2. ThreadOK(Back(th[t])) /\ Follow(th[t], Back(th[t]))
      BY <1>0, <1>2, BackOK
    <2> QED
      BY <2>1, <2>2, GotoOK DEF DataOK
  <1> QED
    BY <1>1, <1>2

\* A task that publishes, or has nothing to publish (Publish).
LEMMA PublishOK ==
  ASSUME ThreadsOK, DataOK, NEW t \in Task, NEW r, r \in ThreadState,
         r.e \in Entity, r.ret \in Ret, NEW changed, NEW new \in State, NEW ret \in Ret,
         r.op = "watch" => ret = "over" /\ r.ret \in {"done", "over"},
         Follow(th[t], r), Publish(t, r, changed, new, ret)
  PROVE  ThreadsOK' /\ busy' \in [Entity -> Task \cup {None}] /\ KeepsWatch
  <1>1. CASE changed
    <2> DEFINE q == [r EXCEPT !.pc = "heard", !.ret = ret, !.ev = new, !.evturn = turn[r.e]]
    <2>1. Goto(t, q) /\ UNCHANGED busy
      BY <1>1 DEF Publish
    <2>2. turn[r.e] \in Nat
      BY DEF DataOK
    <2>3. q \in ThreadState
      BY <2>2 DEF ThreadState, PC, Ret
    <2>4. q.pc = "heard" /\ q.ret = ret /\ q.op = r.op /\ q.e = r.e
      BY DEF ThreadState
    <2>5. ThreadOK(q) /\ Follow(th[t], q)
      BY <2>3, <2>4 DEF ThreadOK, Follow
    <2> QED
      BY <2>1, <2>5, GotoOK DEF DataOK
  <1>2. CASE ~changed /\ ret = "done"
    <2>1. Finish(t)
      BY <1>2 DEF Publish
    <2>2. th[t].op # "watch"
      BY <1>2 DEF Follow
    <2> QED
      BY <2>1, <2>2, FinishOK
  <1>3. CASE ~changed /\ ret # "done"
    <2> DEFINE q == [r EXCEPT !.pc = ret]
    <2>1. Goto(t, q) /\ UNCHANGED busy
      BY <1>3 DEF Publish
    <2>3. q \in ThreadState
      BY DEF ThreadState, PC, Ret
    <2>4. q.pc = ret /\ q.ret = r.ret /\ q.op = r.op /\ q.e = r.e
      BY DEF ThreadState
    <2>5. ThreadOK(q) /\ Follow(th[t], q)
      BY <1>3, <2>3, <2>4 DEF ThreadOK, Follow, Ret
    <2> QED
      BY <2>1, <2>5, GotoOK DEF DataOK
  <1> QED
    BY <1>1, <1>2, <1>3

-----------------------------------------------------------------------------
(* The line. *)

\* LineOK of one protocol.
LineAt(p, r, w) ==
    /\ r = None => w = <<>>
    /\ r # None => ProtocolOf[r.e] = p
    /\ \A i \in DOMAIN w :
        /\ ProtocolOf[w[i]] = p
        /\ r.e # w[i]
        /\ \A j \in DOMAIN w : w[i] = w[j] => i = j

\* A step that keeps each protocol's line in order keeps LineOK.
LEMMA LineParts ==
  /\ LineOK => \A p \in Protocol : LineAt(p, running[p], waiting[p])
  /\ LineOK => \A P \in SUBSET Protocol :
        /\ \A q \in P : LineAt(q, running'[q], waiting'[q])
        /\ \A q \in Protocol \ P : running'[q] = running[q] /\ waiting'[q] = waiting[q]
        => LineOK'
  BY DEF LineOK, LineAt

\* Adding one to a counter of an entity (WatchInstall, a turn).
LEMMA CountUp ==
  ASSUME NEW f \in [Entity -> Nat], NEW n \in Entity,
         NEW g, g = [f EXCEPT ![n] = @ + 1]
  PROVE  g \in [Entity -> Nat] /\ g[n] > 0 /\ \A d \in Entity : g[d] >= f[d]
  OBVIOUS

\* Steps that leave the line alone keep what is true of it.
LEMMA LineSame ==
  ASSUME LineOK, UNCHANGED <<running, waiting>>
  PROVE  LineOK'
  BY DEF LineOK

\* Steps that leave the turns, the watchers and the late ones alone keep the
\* turns watched.
LEMMA WatchedSame ==
  ASSUME Watched, KeepsWatch, UNCHANGED <<running, watchers>>
  PROVE  Watched'
  BY DEF Watched, KeepsWatch

\* The version of a state, 0 when there is none (Installed).
LEMMA InstalledOK ==
  ASSUME DataOK, NEW e \in Entity
  PROVE  Installed(upd[e]) \in 0..MaxVersion
  <1>1. upd[e] \in State
    BY DEF DataOK
  <1> QED
    BY <1>1, InstallsAssumption DEF Installed, HasState, State, UpdateState, Version

\* The state a new turn begins with (NewTurn).
LEMMA NewTurnOK ==
  ASSUME DataOK, NEW e \in Entity
  PROVE  NewTurn(e) \in Running /\ NewTurn(e) # None /\ NewTurn(e).e = e
  <1>1. Installed(upd[e]) \in 0..MaxVersion
    BY InstalledOK
  <1>2. NewTurn(e) \in [e : Entity, before : Nat, started : BOOLEAN]
    BY <1>1 DEF NewTurn
  <1> QED
    BY <1>1, <1>2, InstallsAssumption DEF NewTurn, Running

\* What stays when e leaves (Without): each place holds what some place held,
\* no two the same one.
LEMMA WithoutOK ==
  ASSUME NEW s \in Seq(Entity), NEW e \in Entity
  PROVE  /\ Without(s, e) \in Seq(Entity)
         /\ s = <<>> => Without(s, e) = <<>>
         /\ \A i \in DOMAIN Without(s, e) : \E k \in DOMAIN s : Without(s, e)[i] = s[k]
         /\ (\A i, j \in DOMAIN s : s[i] = s[j] => i = j) =>
              \A i, j \in DOMAIN Without(s, e) : Without(s, e)[i] = Without(s, e)[j] => i = j
  <1>1. CASE \E i \in DOMAIN s : s[i] = e
    <2> DEFINE k == CHOOSE i \in DOMAIN s : s[i] = e
               w == [i \in 1..(Len(s) - 1) |-> IF i < k THEN s[i] ELSE s[i + 1]]
    <2>1. k \in DOMAIN s
      BY <1>1
    <2>2. Without(s, e) = w
      BY <1>1 DEF Without
    <2>3. Len(s) \in Nat /\ Len(s) >= 1 /\ DOMAIN s = 1..Len(s)
      BY <2>1
    <2> HIDE DEF k
    <2>4. \A i \in 1..(Len(s) - 1) : w[i] \in Entity
      BY <2>3
    <2>5. w \in Seq(Entity) /\ DOMAIN w = 1..(Len(s) - 1)
      <3>1. Len(s) - 1 \in Nat
        BY <2>3
      <3>2. w \in [1..(Len(s) - 1) -> Entity]
        BY <2>4
      <3> QED
        BY <3>1, <3>2
    <2>6. \A i \in DOMAIN w : \E m \in DOMAIN s : w[i] = s[m]
      BY <2>3, <2>5
    <2>7. ASSUME \A i, j \in DOMAIN s : s[i] = s[j] => i = j,
                 NEW i \in DOMAIN w, NEW j \in DOMAIN w, w[i] = w[j]
          PROVE  i = j
      <3>1. k \in Nat /\ i \in Nat /\ j \in Nat
        BY <2>1, <2>3, <2>5
      <3>2. w[i] = (IF i < k THEN s[i] ELSE s[i + 1]) /\ w[j] = (IF j < k THEN s[j] ELSE s[j + 1])
        BY <2>5
      <3> QED
        BY <2>1, <2>3, <2>5, <2>7, <3>1, <3>2
    <2> QED
      BY <2>1, <2>2, <2>5, <2>6, <2>7
  <1>2. CASE ~(\E i \in DOMAIN s : s[i] = e)
    BY <1>2 DEF Without
  <1> QED
    BY <1>1, <1>2

\* Handing the turn on (NextInLine): the line stays as it should be, and whoever
\* has a turn that e didn't have is watched.
LEMMA NextInLineOK ==
  ASSUME DataOK, LineOK, NEW e \in Entity, NextInLine(e)
  PROVE  /\ running' \in [Protocol -> Running \cup {None}]
         /\ waiting' \in [Protocol -> Seq(Entity)]
         /\ watchers' \in [Entity -> Nat]
         /\ turn' \in [Entity -> Nat]
         /\ LineOK'
         /\ \A d \in Entity : watchers'[d] >= watchers[d]
         /\ \A p \in Protocol : running'[p] # None =>
                \/ watchers'[running'[p].e] > 0
                \/ running'[p] = running[p] /\ running[p].e # e
  <1> DEFINE p == ProtocolOf[e]
             w == waiting[p]
  <1>0. p \in Protocol /\ w \in Seq(Entity)
    BY InstallsAssumption DEF DataOK
  <1>a. \A q \in Protocol : running[q] # None /\ running[q].e = e => q = p
    BY DEF LineOK
  <1>1. CASE IsRunning(e) /\ w # <<>>
    <2> DEFINE n == Head(w)
    <2>1. /\ running' = [running EXCEPT ![p] = NewTurn(n)]
          /\ waiting' = [waiting EXCEPT ![p] = Tail(w)]
          /\ watchers' = [watchers EXCEPT ![n] = @ + 1]
          /\ turn' = [turn EXCEPT ![n] = @ + 1]
      BY <1>1 DEF NextInLine, WatchInstall
    <2>2. n \in Entity /\ Tail(w) \in Seq(Entity) /\ n = w[1] /\ 1 \in DOMAIN w
      BY <1>0, <1>1
    <2>3. /\ \A i \in DOMAIN Tail(w) : i + 1 \in DOMAIN w /\ Tail(w)[i] = w[i + 1]
          /\ DOMAIN Tail(w) \subseteq Nat
      BY <1>0, <1>1
    <2>4. NewTurn(n) \in Running /\ NewTurn(n) # None /\ NewTurn(n).e = n
      BY <2>2, NewTurnOK
    <2> HIDE DEF n, w
    <2>5. /\ running' \in [Protocol -> Running \cup {None}]
          /\ waiting' \in [Protocol -> Seq(Entity)]
      BY <2>1, <2>2, <2>4 DEF DataOK
    <2>6. /\ watchers' \in [Entity -> Nat]
          /\ \A d \in Entity : watchers'[d] >= watchers[d]
          /\ watchers'[n] > 0
      BY <2>1, <2>2, CountUp DEF DataOK
    <2>66. turn' \in [Entity -> Nat]
      BY <2>1, <2>2, CountUp DEF DataOK
    <2>7. /\ running'[p] = NewTurn(n) /\ waiting'[p] = Tail(w)
          /\ \A q \in Protocol \ {p} : running'[q] = running[q] /\ waiting'[q] = waiting[q]
      BY <1>0, <2>1 DEF DataOK
    <2>8. /\ ProtocolOf[n] = p
          /\ \A i \in DOMAIN Tail(w) :
                /\ ProtocolOf[Tail(w)[i]] = p
                /\ n # Tail(w)[i]
                /\ \A j \in DOMAIN Tail(w) : Tail(w)[i] = Tail(w)[j] => i = j
      <3>1. \A i \in DOMAIN w : ProtocolOf[w[i]] = p
        BY <1>0 DEF LineOK, w
      <3>2. \A i, j \in DOMAIN w : w[i] = w[j] => i = j
        BY <1>0 DEF LineOK, w
      <3>3. ASSUME NEW i \in DOMAIN Tail(w) PROVE i + 1 # 1
        BY <2>3
      <3>4. ASSUME NEW i \in DOMAIN Tail(w), NEW j \in DOMAIN Tail(w), i + 1 = j + 1 PROVE i = j
        BY <2>3, <3>4
      <3> QED
        BY <2>2, <2>3, <3>1, <3>2, <3>3, <3>4
    <2>9. LineOK'
      <3>1. LineAt(p, NewTurn(n), Tail(w))
        BY <2>4, <2>8 DEF LineAt
      <3> QED
        BY <2>7, <3>1, LineParts
    <2>10. ASSUME NEW q \in Protocol, running'[q] # None
           PROVE  \/ watchers'[running'[q].e] > 0
                  \/ running'[q] = running[q] /\ running[q].e # e
      BY <1>a, <2>4, <2>6, <2>7, <2>10
    <2> QED
      BY <2>5, <2>6, <2>66, <2>9, <2>10
  <1>2. CASE ~(IsRunning(e) /\ w # <<>>)
    <2>1. /\ running' = IF IsRunning(e) THEN [running EXCEPT ![p] = None] ELSE running
          /\ UNCHANGED <<waiting, watchers, turn>>
      BY <1>2 DEF NextInLine
    <2>2. running' \in [Protocol -> Running \cup {None}]
      BY <2>1 DEF DataOK
    <2>3. LineOK'
      <3>1. CASE IsRunning(e)
        <4>1. w = <<>>
          BY <1>2, <3>1
        <4>2. LineAt(p, None, <<>>)
          BY DEF LineAt
        <4>3. running'[p] = None /\ waiting'[p] = <<>>
          BY <1>0, <2>1, <3>1, <4>1 DEF DataOK
        <4>4. \A q \in Protocol \ {p} : running'[q] = running[q] /\ waiting'[q] = waiting[q]
          BY <2>1, <3>1 DEF DataOK
        <4> QED
          BY <4>2, <4>3, <4>4, LineParts
      <3>2. CASE ~IsRunning(e)
        BY <2>1, <3>2, LineSame
      <3> QED
        BY <3>1, <3>2
    <2>4. \A d \in Entity : watchers'[d] >= watchers[d]
      BY <2>1 DEF DataOK
    <2>5. ASSUME NEW q \in Protocol, running'[q] # None
          PROVE  running'[q] = running[q] /\ running[q].e # e
      BY <1>0, <1>a, <2>1, <2>5 DEF DataOK, IsRunning
    <2> QED
      BY <2>1, <2>2, <2>3, <2>4, <2>5 DEF DataOK
  <1> QED
    BY <1>1, <1>2

-----------------------------------------------------------------------------
(* The steps that leave the line alone. *)

\* They keep the invariant when they keep the types and the late watchers.
LEMMA LineKept ==
  ASSUME IInv, DataOK', ThreadsOK', KeepsWatch, UNCHANGED line
  PROVE  IInv'
  BY LineSame, WatchedSame DEF IInv, line

\* A call or a task of the line goes on to another of its steps.
LEMMA PcOK ==
  ASSUME NEW r, ThreadOK(r), r.e \in Entity, r.op # "watch", NEW pc \in PC,
         pc = "check" => r.op = "line",
         pc \in {"lock", "resolve"} => r.op \in {"install", "skip", "clear", "line"}
  PROVE  ThreadOK([r EXCEPT !.pc = pc]) /\ Follow(r, [r EXCEPT !.pc = pc])
  <1> DEFINE q == [r EXCEPT !.pc = pc]
  <1>1. q \in ThreadState
    BY DEF ThreadOK, ThreadState
  <1>2. q.pc = pc /\ q.ret = r.ret /\ q.op = r.op /\ q.e = r.e
    BY DEF ThreadOK, ThreadState
  <1> QED
    BY <1>1, <1>2 DEF ThreadOK, Follow

\* The end of a turn is a number (Ended).
LEMMA EndedOK ==
  ASSUME over \in [Entity -> Nat], NEW e \in Entity, NEW n \in Nat, Ended(e, n)
  PROVE  over' \in [Entity -> Nat]
  BY DEF Ended

\* A call that ends in an error (CallFailed).
LEMMA CallFailedOK ==
  ASSUME ThreadsOK, DataOK, NEW t \in Task, th[t].e \in Entity, th[t].op # "watch",
         CallFailed(t)
  PROVE  /\ ThreadsOK' /\ busy' \in [Entity -> Task \cup {None}] /\ KeepsWatch
         /\ over' \in [Entity -> Nat] /\ UNCHANGED <<turn, sent, passed>>
  <1>0. ThreadOK(th[t])
    BY DEF ThreadsOK
  <1>1. /\ over' \in [Entity -> Nat]
        /\ UNCHANGED <<turn, sent, passed>>
    <2>1. th[t].turn \in Nat
      BY <1>0 DEF ThreadOK, ThreadState
    <2> QED
      BY <2>1, EndedOK DEF CallFailed, DataOK
  <1>2. CASE th[t].op = "line"
    <2>1. Goto(t, [th[t] EXCEPT !.pc = "linefail"]) /\ Release(t)
      BY <1>2 DEF CallFailed
    <2>2. ThreadOK([th[t] EXCEPT !.pc = "linefail"])
            /\ Follow(th[t], [th[t] EXCEPT !.pc = "linefail"])
      BY <1>0, PcOK DEF PC
    <2> QED
      BY <1>1, <2>1, <2>2, GotoOK, ReleaseOK DEF DataOK
  <1>3. CASE th[t].op # "line"
    <2>1. Goto(t, [th[t] EXCEPT !.pc = "over"]) /\ UNCHANGED busy
      BY <1>3 DEF CallFailed
    <2>2. ThreadOK([th[t] EXCEPT !.pc = "over"])
            /\ Follow(th[t], [th[t] EXCEPT !.pc = "over"])
      BY <1>0, PcOK DEF PC
    <2> QED
      BY <1>1, <2>1, <2>2, GotoOK DEF DataOK
  <1> QED
    BY <1>2, <1>3

\* What is known of a task that is anywhere but with a late watcher's steps.
LEMMA NotWatching ==
  ASSUME IInv, NEW t \in Task, th[t].pc \notin {"idle", "watchfail", "heard", "over"}
  PROVE  ThreadOK(th[t]) /\ th[t].e \in Entity /\ th[t].op # "watch"
  BY DEF IInv, ThreadsOK, ThreadOK

\* CallService: a person calls.
LEMMA CallServiceOK ==
  ASSUME IInv, NEW t \in Task, NEW e \in Entity, NEW op \in {"install", "skip", "clear"},
         CallService(t, e, op)
  PROVE  IInv'
  <1>1. ThreadOK(Thread(op, "lock", e, 0))
    BY ThreadMade DEF Op, PC
  <1>2. th[t].op # "watch"
    BY DEF IInv, ThreadsOK, ThreadOK, CallService
  <1>3. ThreadsOK' /\ KeepsWatch
    BY <1>1, <1>2, GotoOK DEF IInv, CallService, Follow
  <1>4. DataOK'
    BY InstallsAssumption DEF IInv, DataOK, CallService, home, line, hist
  <1> QED
    BY <1>3, <1>4, LineKept DEF CallService

\* Lock: a call gets the entity's turn in Core.busy.
LEMMA LockOK ==
  ASSUME IInv, NEW t \in Task, Lock(t)
  PROVE  IInv'
  <1>1. ThreadOK(th[t]) /\ th[t].e \in Entity /\ th[t].op # "watch"
    BY NotWatching DEF Lock
  <1>2. th[t].op \in {"install", "skip", "clear", "line"}
    BY <1>1 DEF ThreadOK, Lock
  <1>3. ThreadsOK' /\ KeepsWatch
    BY <1>1, <1>2, PcOK, GotoOK DEF IInv, Lock, PC
  <1>4. DataOK'
    BY <1>1 DEF IInv, DataOK, Lock, home, line, hist
  <1> QED
    BY <1>3, <1>4, LineKept DEF Lock

\* LockTimeout: a call gives up waiting.
LEMMA LockTimeoutOK ==
  ASSUME IInv, NEW t \in Task, LockTimeout(t)
  PROVE  IInv'
  <1>1. ThreadOK(th[t]) /\ th[t].e \in Entity /\ th[t].op # "watch"
    BY NotWatching DEF LockTimeout
  <1>2. ThreadOK([th[t] EXCEPT !.pc = "linefail"])
          /\ Follow(th[t], [th[t] EXCEPT !.pc = "linefail"])
    BY <1>1, PcOK DEF PC
  <1>3. Follow(th[t], Idle)
    BY <1>1 DEF Follow
  <1>4. ThreadsOK' /\ KeepsWatch
    <2>1. CASE th[t].op = "line"
      BY <1>2, <2>1, GotoOK DEF IInv, LockTimeout
    <2>2. CASE th[t].op # "line"
      BY <1>3, <2>2, IdleOK, GotoOK DEF IInv, LockTimeout
    <2> QED
      BY <2>1, <2>2
  <1>5. DataOK'
    BY DEF IInv, DataOK, LockTimeout, home, line, hist
  <1> QED
    BY <1>4, <1>5, LineKept DEF LockTimeout

\* Abandon: a caller goes away.
LEMMA AbandonOK ==
  ASSUME IInv, NEW t \in Task, Abandon(t)
  PROVE  IInv'
  <1>1. ThreadOK(th[t]) /\ th[t].e \in Entity /\ th[t].op # "watch"
    BY NotWatching DEF Abandon
  <1>2. ThreadsOK' /\ KeepsWatch /\ busy' \in [Entity -> Task \cup {None}]
    BY <1>1, FinishOK DEF IInv, Abandon
  <1>3. DataOK'
    BY <1>2 DEF IInv, DataOK, Abandon, home, line, hist
  <1> QED
    BY <1>2, <1>3, LineKept DEF Abandon

\* Resolve: the entity is gone, or it is one of three services.
LEMMA ResolveOK ==
  ASSUME IInv, NEW t \in Task, Resolve(t)
  PROVE  IInv'
  <1>1. ThreadOK(th[t]) /\ th[t].e \in Entity /\ th[t].op # "watch"
    BY NotWatching DEF Resolve
  <1>2. th[t].op \in {"install", "skip", "clear", "line"}
    BY <1>1 DEF ThreadOK, Resolve
  <1>3. /\ ThreadsOK' /\ KeepsWatch
        /\ busy' \in [Entity -> Task \cup {None}]
        /\ over' \in [Entity -> Nat] /\ UNCHANGED <<turn, sent, passed>>
    <2>1. CASE CallFailed(t)
      BY <1>1, <2>1, CallFailedOK DEF IInv
    <2>2. CASE Finish(t) /\ UNCHANGED hist
      BY <1>1, <2>2, FinishOK DEF IInv, DataOK, hist
    <2>3. CASE UNCHANGED <<busy, hist>> /\ Goto(t, [th[t] EXCEPT !.pc =
                                IF th[t].op = "line" THEN "begin" ELSE th[t].op])
      <3> DEFINE pc == IF th[t].op = "line" THEN "begin" ELSE th[t].op
      <3>1. pc \in {"begin", "install", "skip", "clear"}
        BY <1>2
      <3> HIDE DEF pc
      <3>2. ThreadOK([th[t] EXCEPT !.pc = pc]) /\ Follow(th[t], [th[t] EXCEPT !.pc = pc])
        BY <1>1, <3>1, PcOK DEF PC
      <3> QED
        BY <2>3, <3>2, GotoOK DEF IInv, DataOK, hist, pc
    <2> QED
      BY <2>1, <2>2, <2>3 DEF Resolve
  <1>4. DataOK'
    BY <1>3 DEF IInv, DataOK, Resolve, home, line
  <1> QED
    BY <1>3, <1>4, LineKept DEF Resolve

\* Send: the install goes out, or the call fails.
LEMMA SendOK ==
  ASSUME IInv, NEW t \in Task, Send(t)
  PROVE  IInv'
  <1>1. ThreadOK(th[t]) /\ th[t].e \in Entity /\ th[t].op # "watch"
    BY NotWatching DEF Send
  <1>2. /\ ThreadsOK' /\ KeepsWatch
        /\ busy' \in [Entity -> Task \cup {None}]
        /\ over' \in [Entity -> Nat] /\ sent' \in [Entity -> Nat]
        /\ UNCHANGED <<turn, passed>>
    <2>1. CASE CallFailed(t)
      BY <1>1, <2>1, CallFailedOK DEF IInv, DataOK
    <2>2. CASE /\ sent' = [sent EXCEPT ![th[t].e] = th[t].turn]
               /\ Goto(t, [th[t] EXCEPT !.pc = "answer"])
               /\ UNCHANGED <<busy, turn, over, passed>>
      <3>1. th[t].turn \in Nat
        BY <1>1 DEF ThreadOK, ThreadState
      <3>2. ThreadsOK' /\ KeepsWatch
        BY <1>1, <2>2, PcOK, GotoOK DEF IInv, PC
      <3>3. sent' \in [Entity -> Nat]
        BY <1>1, <2>2, <3>1 DEF IInv, DataOK
      <3> QED
        BY <2>2, <3>2, <3>3 DEF IInv, DataOK
    <2> QED
      BY <2>1, <2>2 DEF Send
  <1>3. DataOK'
    BY <1>2 DEF IInv, DataOK, Send, home, line
  <1> QED
    BY <1>2, <1>3, LineKept DEF Send

\* Answer: what the protocol says of the call, or nothing in time.
LEMMA AnswerOK ==
  ASSUME IInv, NEW t \in Task, Answer(t)
  PROVE  IInv'
  <1>1. ThreadOK(th[t]) /\ th[t].e \in Entity /\ th[t].op # "watch"
    BY NotWatching DEF Answer
  <1>2. /\ ThreadsOK' /\ KeepsWatch
        /\ busy' \in [Entity -> Task \cup {None}]
        /\ over' \in [Entity -> Nat] /\ UNCHANGED <<turn, sent, passed>>
    <2>1. CASE CallFailed(t)
      BY <1>1, <2>1, CallFailedOK DEF IInv
    <2>2. CASE Finish(t) /\ UNCHANGED hist
      BY <1>1, <2>2, FinishOK DEF IInv, DataOK, hist
    <2> QED
      BY <2>1, <2>2 DEF Answer
  <1>3. DataOK'
    BY <1>2 DEF IInv, DataOK, Answer, home, line
  <1> QED
    BY <1>2, <1>3, LineKept DEF Answer

\* TakeTurn: refused, or on to ask for the line.
LEMMA TakeTurnOK ==
  ASSUME IInv, NEW t \in Task, TakeTurn(t)
  PROVE  IInv'
  <1>1. ThreadOK(th[t]) /\ th[t].e \in Entity /\ th[t].op # "watch"
    BY NotWatching DEF TakeTurn
  <1> DEFINE q == [th[t] EXCEPT !.pc = "ask", !.before = Installed(upd[th[t].e])]
  <1>2. Installed(upd[th[t].e]) \in 0..MaxVersion
    BY <1>1, InstalledOK DEF IInv
  <1>3. /\ ThreadsOK' /\ KeepsWatch
        /\ busy' \in [Entity -> Task \cup {None}]
    <2>1. CASE Finish(t)
      BY <1>1, <2>1, FinishOK DEF IInv
    <2>2. CASE Goto(t, q) /\ UNCHANGED busy
      <3>1. q \in ThreadState
        BY <1>1, <1>2 DEF ThreadOK, ThreadState, PC
      <3>2. q.pc = "ask" /\ q.ret = th[t].ret /\ q.op = th[t].op /\ q.e = th[t].e
        BY <1>1 DEF ThreadOK, ThreadState
      <3> HIDE DEF q
      <3>3. ThreadOK(q) /\ Follow(th[t], q)
        BY <1>1, <3>1, <3>2 DEF ThreadOK, Follow
      <3> QED
        BY <2>2, <3>3, GotoOK DEF IInv, DataOK
    <2> QED
      BY <2>1, <2>2 DEF TakeTurn
  <1>4. DataOK'
    BY <1>3 DEF IInv, DataOK, TakeTurn, home, line, hist
  <1> QED
    BY <1>3, <1>4, LineKept DEF TakeTurn

\* LineCheck: the line's task looks whether there is anything left to install.
LEMMA LineCheckOK ==
  ASSUME IInv, NEW t \in Task, LineCheck(t)
  PROVE  IInv'
  <1>1. ThreadOK(th[t]) /\ th[t].e \in Entity /\ th[t].op # "watch"
    BY NotWatching DEF LineCheck
  <1>2. th[t].op = "line"
    BY <1>1 DEF ThreadOK, LineCheck
  <1>3. PICK pc \in {"linenext", "lock"} : Goto(t, [th[t] EXCEPT !.pc = pc])
    BY DEF LineCheck
  <1>4. ThreadOK([th[t] EXCEPT !.pc = pc]) /\ Follow(th[t], [th[t] EXCEPT !.pc = pc])
    BY <1>1, <1>2, PcOK DEF PC
  <1>5. ThreadsOK' /\ KeepsWatch
    BY <1>3, <1>4, GotoOK DEF IInv
  <1>6. DataOK'
    BY DEF IInv, DataOK, LineCheck, home, line, hist
  <1> QED
    BY <1>5, <1>6, LineKept DEF LineCheck

-----------------------------------------------------------------------------
(* The steps that change an update's state. *)

\* A state that is one is a record (HasState).
LEMMA StateIs ==
  ASSUME NEW s \in State
  PROVE  /\ HasState(s) => s \in UpdateState
         /\ Gone \in State /\ Unreported \in State
  BY DEF State, HasState

\* begin_update leaves a state, or none (Began).
LEMMA BeganOK ==
  ASSUME NEW s \in State
  PROVE  Began(s) \in State
  <1>1. CASE HasState(s)
    <2>1. [s EXCEPT !.error = FALSE] \in UpdateState
      BY <1>1, StateIs DEF UpdateState
    <2> QED
      BY <1>1, <2>1 DEF Began, State
  <1>2. CASE ~HasState(s)
    BY <1>2 DEF Began
  <1> QED
    BY <1>1, <1>2

\* So does fail_update (Failed).
LEMMA FailedOK ==
  ASSUME NEW s \in State
  PROVE  Failed(s) \in State
  <1>1. CASE HasState(s)
    <2>1. [s EXCEPT !.error = TRUE, !.inProgress = FALSE] \in UpdateState
      BY <1>1, StateIs DEF UpdateState
    <2> QED
      BY <1>1, <2>1 DEF Failed, State
  <1>2. CASE ~HasState(s)
    BY <1>2 DEF Failed
  <1> QED
    BY <1>1, <1>2

\* And what is folded into a report is a state (Fold).
LEMMA FoldOK ==
  ASSUME NEW old, NEW said \in UpdateState, NEW told \in BOOLEAN, NEW skip
  PROVE  Fold(old, said, told, skip) \in State
  <1> DEFINE kept == skip # 0 /\ said.latest = skip
             carried ==
                 /\ HasState(old)
                 /\ ~told
                 /\ old.installed = said.installed
                 /\ \/ old.inProgress /\ said.installed # said.latest
                    \/ old.error
             err == ~said.inProgress /\ (told \/ carried)
             avail == said.available /\ ~kept
  <1>1. kept \in BOOLEAN /\ err \in BOOLEAN /\ avail \in BOOLEAN
    OBVIOUS
  <1>2. Fold(old, said, told, skip) =
          [said EXCEPT !.skipped = kept, !.available = avail, !.error = err]
    BY Zenon DEF Fold
  <1> HIDE DEF kept, err, avail
  <1>3. [said EXCEPT !.skipped = kept, !.available = avail, !.error = err] \in UpdateState
    BY <1>1 DEF UpdateState
  <1> QED
    BY <1>2, <1>3 DEF State

\* One entity's state changes and its task publishes: BeginUpdate, LineFail and
\* WatchFail.
LEMMA PublishStep ==
  ASSUME IInv, NEW t \in Task, th[t].e \in Entity, NEW new \in State, NEW changed,
         NEW ret \in Ret, th[t].op = "watch" => ret = "over",
         upd' = [upd EXCEPT ![th[t].e] = new],
         Publish(t, th[t], changed, new, ret),
         UNCHANGED <<skips, line, inputs, hist>>
  PROVE  IInv'
  <1>1. ThreadOK(th[t])
    BY DEF IInv, ThreadsOK
  <1>2. Follow(th[t], th[t])
    BY DEF Follow
  <1>3. ThreadsOK' /\ busy' \in [Entity -> Task \cup {None}] /\ KeepsWatch
    BY <1>1, <1>2, PublishOK DEF IInv, ThreadOK
  <1>4. upd' \in [Entity -> State]
    BY DEF IInv, DataOK
  <1>5. DataOK'
    BY <1>3, <1>4 DEF IInv, DataOK, line, hist
  <1> QED
    BY <1>3, <1>5, LineKept

\* BeginUpdate: what went wrong last time is over.
LEMMA BeginUpdateOK ==
  ASSUME IInv, NEW t \in Task, BeginUpdate(t)
  PROVE  IInv'
  <1>1. ThreadOK(th[t]) /\ th[t].e \in Entity /\ th[t].op # "watch"
    BY NotWatching DEF BeginUpdate
  <1>2. upd[th[t].e] \in State /\ Began(upd[th[t].e]) \in State
    BY <1>1, BeganOK DEF IInv, DataOK
  <1>3. upd' = [upd EXCEPT ![th[t].e] = Began(upd[th[t].e])]
    BY <1>1 DEF BeginUpdate, IInv, DataOK
  <1>4. Publish(t, th[t], upd[th[t].e] # Began(upd[th[t].e]), Began(upd[th[t].e]), "send")
    BY DEF BeginUpdate
  <1> QED
    BY <1>1, <1>2, <1>3, <1>4, PublishStep DEF BeginUpdate, Ret

\* LineFail: the line's task says why an install couldn't be sent.
LEMMA LineFailOK ==
  ASSUME IInv, NEW t \in Task, LineFail(t)
  PROVE  IInv'
  <1>1. ThreadOK(th[t]) /\ th[t].e \in Entity /\ th[t].op # "watch"
    BY NotWatching DEF LineFail
  <1>2. upd[th[t].e] \in State /\ Failed(upd[th[t].e]) \in State
    BY <1>1, FailedOK DEF IInv, DataOK
  <1>3. upd' = [upd EXCEPT ![th[t].e] = Failed(upd[th[t].e])]
    BY <1>1 DEF LineFail, IInv, DataOK
  <1>4. PICK other \in BOOLEAN :
          Publish(t, th[t], Differs(upd[th[t].e], Failed(upd[th[t].e]), other),
                  Failed(upd[th[t].e]), "linenext")
    BY DEF LineFail
  <1> QED
    BY <1>1, <1>2, <1>3, <1>4, PublishStep DEF LineFail, Ret

\* WatchFail: the watcher says that the install never ended.
LEMMA WatchFailOK ==
  ASSUME IInv, NEW t \in Task, WatchFail(t)
  PROVE  IInv'
  <1>1. th[t].e \in Entity
    BY DEF IInv, ThreadsOK, ThreadOK, WatchFail
  <1>2. upd[th[t].e] \in State /\ Failed(upd[th[t].e]) \in State
    BY <1>1, FailedOK DEF IInv, DataOK
  <1>3. upd' = [upd EXCEPT ![th[t].e] = Failed(upd[th[t].e])]
    BY <1>1 DEF WatchFail, IInv, DataOK
  <1>4. PICK other \in BOOLEAN :
          Publish(t, th[t], Differs(upd[th[t].e], Failed(upd[th[t].e]), other),
                  Failed(upd[th[t].e]), "over")
    BY DEF WatchFail
  <1> QED
    BY <1>1, <1>2, <1>3, <1>4, PublishStep DEF WatchFail, Ret

\* Skip: a person passes over the version on offer.
LEMMA SkipOK ==
  ASSUME IInv, NEW t \in Task, Skip(t)
  PROVE  IInv'
  <1> DEFINE e == th[t].e
             s == upd[e]
             new == [s EXCEPT !.skipped = TRUE, !.available = FALSE]
  <1>1. ThreadOK(th[t]) /\ e \in Entity /\ th[t].op # "watch"
    BY NotWatching DEF Skip
  <1>2. s \in State
    BY <1>1 DEF IInv, DataOK
  <1>3. CASE HasState(s) /\ ~s.inProgress /\ s.available
    <2>1. s \in UpdateState
      BY <1>2, <1>3, StateIs
    <2>2. new \in UpdateState /\ s.latest \in 0..MaxVersion
      <3>1. new \in UpdateState
        BY <2>1 DEF UpdateState
      <3>2. s.latest \in Version
        BY <2>1 DEF UpdateState
      <3> QED
        BY <3>1, <3>2 DEF Version
    <2> DEFINE q == [th[t] EXCEPT !.pc = "leave", !.ev = new, !.evturn = turn[e]]
    <2>3. /\ upd' = [upd EXCEPT ![e] = new]
          /\ skips' = [skips EXCEPT ![e] = s.latest]
          /\ passed' = [passed EXCEPT ![e] = TRUE]
          /\ Goto(t, q)
          /\ UNCHANGED busy
      BY <1>3 DEF Skip
    <2>4. new \in State
      BY <2>2 DEF State
    <2> HIDE DEF new
    <2>5. turn[e] \in Nat
      BY <1>1 DEF IInv, DataOK
    <2>6. q \in ThreadState
      BY <1>1, <2>4, <2>5 DEF ThreadOK, ThreadState, PC
    <2>7. q.pc = "leave" /\ q.ret = th[t].ret /\ q.op = th[t].op /\ q.e = th[t].e
      BY <1>1 DEF ThreadOK, ThreadState
    <2> HIDE DEF q
    <2>8. ThreadOK(q) /\ Follow(th[t], q)
      BY <1>1, <2>6, <2>7 DEF ThreadOK, Follow
    <2>9. ThreadsOK' /\ KeepsWatch
      BY <2>3, <2>8, GotoOK DEF IInv
    <2>10. upd' \in [Entity -> State] /\ skips' \in [Entity -> 0..MaxVersion]
            /\ passed' \in [Entity -> BOOLEAN]
      BY <1>1, <2>2, <2>3, <2>4 DEF IInv, DataOK
    <2>11. DataOK'
      BY <2>3, <2>10 DEF IInv, DataOK, Skip, line
    <2> QED
      BY <2>9, <2>11, LineKept DEF Skip
  <1>4. CASE ~(HasState(s) /\ ~s.inProgress /\ s.available)
    <2>1. Finish(t) /\ UNCHANGED <<home, passed>>
      BY <1>4 DEF Skip
    <2>2. ThreadsOK' /\ KeepsWatch /\ busy' \in [Entity -> Task \cup {None}]
      BY <1>1, <2>1, FinishOK DEF IInv
    <2>3. DataOK'
      BY <2>1, <2>2 DEF IInv, DataOK, Skip, home, line
    <2> QED
      BY <2>2, <2>3, LineKept DEF Skip
  <1> QED
    BY <1>3, <1>4

\* ClearSkipped: a person wants to hear of it again.
LEMMA ClearSkippedOK ==
  ASSUME IInv, NEW t \in Task, ClearSkipped(t)
  PROVE  IInv'
  <1> DEFINE e == th[t].e
             s == upd[e]
             new == IF HasState(s)
                    THEN [s EXCEPT !.skipped = FALSE, !.available = s.installed # s.latest]
                    ELSE s
  <1>1. ThreadOK(th[t]) /\ e \in Entity /\ th[t].op # "watch"
    BY NotWatching DEF ClearSkipped
  <1>2. s \in State
    BY <1>1 DEF IInv, DataOK
  <1>3. new \in State
    <2> DEFINE avail == s.installed # s.latest
    <2>1. avail \in BOOLEAN
      OBVIOUS
    <2> HIDE DEF avail
    <2>2. CASE HasState(s)
      <3>1. [s EXCEPT !.skipped = FALSE, !.available = avail] \in UpdateState
        BY <1>2, <2>1, <2>2, StateIs DEF UpdateState
      <3> QED
        BY <2>2, <3>1 DEF State, avail
    <2>3. CASE ~HasState(s)
      BY <1>2, <2>3
    <2> QED
      BY <2>2, <2>3
  <1>4. /\ upd' = [upd EXCEPT ![e] = new]
        /\ skips' = [skips EXCEPT ![e] = 0]
        /\ passed' = [passed EXCEPT ![e] = FALSE]
        /\ Publish(t, th[t], s # new, new, "done")
        /\ UNCHANGED <<line, inputs, turn, sent, over>>
    BY DEF ClearSkipped
  <1> HIDE DEF new
  <1>5. ThreadsOK' /\ busy' \in [Entity -> Task \cup {None}] /\ KeepsWatch
    <2>1. Follow(th[t], th[t])
      BY DEF Follow
    <2> QED
      BY <1>1, <1>3, <1>4, <2>1, PublishOK DEF IInv, ThreadOK, Ret
  <1>6. upd' \in [Entity -> State] /\ skips' \in [Entity -> 0..MaxVersion]
          /\ passed' \in [Entity -> BOOLEAN]
    BY <1>1, <1>3, <1>4, InstallsAssumption DEF IInv, DataOK
  <1>7. DataOK'
    BY <1>4, <1>5, <1>6 DEF IInv, DataOK, line
  <1> QED
    BY <1>4, <1>5, <1>7, LineKept

\* What a report leaves of a skip is a version or none (FoldSkip).
LEMMA FoldSkipOK ==
  ASSUME NEW said, NEW skip \in 0..MaxVersion
  PROVE  FoldSkip(said, skip) \in 0..MaxVersion
  BY InstallsAssumption DEF FoldSkip

\* Report: the protocol says what the update's state is.
LEMMA ReportOK ==
  ASSUME IInv, NEW t \in Task, NEW e \in Entity, NEW said \in Said, NEW told \in BOOLEAN,
         Report(t, e, said, told)
  PROVE  IInv'
  <1> DEFINE new == Fold(upd[e], said, told, skips[e])
             r == Thread("report", "done", e, 0)
  <1>1. new \in State
    BY FoldOK DEF Said
  <1>2. /\ inputs < MaxInputs
        /\ inputs' = inputs + 1
        /\ upd' = [upd EXCEPT ![e] = new]
        /\ skips' = [skips EXCEPT ![e] = FoldSkip(said, skips[e])]
        /\ UNCHANGED <<line, turn, sent, over>>
    BY DEF Report, IInv, DataOK
  <1>3. PICK other \in BOOLEAN : Publish(t, r, Differs(upd[e], new, other), new, "done")
    BY DEF Report
  <1>4. passed' \in [Entity -> BOOLEAN]
    BY DEF Report, IInv, DataOK
  <1>5. th[t].op # "watch"
    BY DEF Report, IInv, ThreadsOK, ThreadOK
  <1>6. r \in ThreadState /\ r.e = e /\ r.ret = "done" /\ r.op = "report"
    BY InstallsAssumption DEF Thread, ThreadState, Op, PC, State
  <1>7. Follow(th[t], r)
    BY <1>5 DEF Follow
  <1> HIDE DEF new, r
  <1>8. ThreadsOK' /\ busy' \in [Entity -> Task \cup {None}] /\ KeepsWatch
    BY <1>1, <1>3, <1>6, <1>7, PublishOK DEF IInv, Ret
  <1>9. upd' \in [Entity -> State] /\ skips' \in [Entity -> 0..MaxVersion]
    <2>1. FoldSkip(said, skips[e]) \in 0..MaxVersion
      BY FoldSkipOK DEF IInv, DataOK
    <2> QED
      BY <1>1, <1>2, <2>1 DEF IInv, DataOK
  <1>10. inputs' \in 0..MaxInputs
    BY <1>2, InstallsAssumption DEF IInv, DataOK
  <1>11. DataOK'
    BY <1>2, <1>4, <1>8, <1>9, <1>10 DEF IInv, DataOK, line
  <1> QED
    BY <1>2, <1>8, <1>11, LineKept

\* Steps that touch no task keep every late watcher.
LEMMA TasksSame ==
  ASSUME ThreadsOK, UNCHANGED th
  PROVE  ThreadsOK' /\ KeepsWatch
  BY DEF ThreadsOK, KeepsWatch

\* RefusedReport: only the skip may change.
LEMMA RefusedReportOK ==
  ASSUME IInv, NEW e \in Entity, NEW said \in Said, RefusedReport(e, said)
  PROVE  IInv'
  <1>1. ThreadsOK' /\ KeepsWatch
    BY TasksSame DEF IInv, RefusedReport
  <1>2. FoldSkip(said, skips[e]) \in 0..MaxVersion
    BY FoldSkipOK DEF IInv, DataOK
  <1>3. skips' \in [Entity -> 0..MaxVersion]
    BY <1>2 DEF IInv, DataOK, RefusedReport
  <1>4. inputs' \in 0..MaxInputs
    BY InstallsAssumption DEF IInv, DataOK, RefusedReport
  <1>5. DataOK'
    BY <1>3, <1>4 DEF IInv, DataOK, RefusedReport, line, hist
  <1> QED
    BY <1>1, <1>5, LineKept DEF RefusedReport

\* Register: an entity comes or goes.
LEMMA RegisterOK ==
  ASSUME IInv, NEW e \in Entity, Register(e)
  PROVE  IInv'
  <1>1. ThreadsOK' /\ KeepsWatch
    BY TasksSame DEF IInv, Register
  <1>2. upd' \in [Entity -> State]
    BY DEF IInv, DataOK, Register, State
  <1>4. inputs' \in 0..MaxInputs
    BY InstallsAssumption DEF IInv, DataOK, Register
  <1>5. DataOK'
    BY <1>2, <1>4 DEF IInv, DataOK, Register, line, hist
  <1> QED
    BY <1>1, <1>5, LineKept DEF Register

\* RemoveProtocol: its entities go, and a task is on its way to its line.
LEMMA RemoveProtocolOK ==
  ASSUME IInv, NEW t \in Task, NEW e \in Entity, RemoveProtocol(t, e)
  PROVE  IInv'
  <1>1. ThreadOK(Thread("remove", "forget", e, 0))
    BY ThreadMade DEF Op, PC
  <1>2. th[t].op # "watch"
    BY DEF IInv, ThreadsOK, ThreadOK, RemoveProtocol
  <1>3. ThreadsOK' /\ KeepsWatch
    BY <1>1, <1>2, GotoOK DEF IInv, RemoveProtocol, Follow
  <1>4. upd' \in [Entity -> State]
    BY DEF IInv, DataOK, RemoveProtocol, State
  <1>5. inputs' \in 0..MaxInputs
    BY InstallsAssumption DEF IInv, DataOK, RemoveProtocol
  <1>6. DataOK'
    BY <1>4, <1>5 DEF IInv, DataOK, RemoveProtocol, line, hist
  <1> QED
    BY <1>3, <1>6, LineKept DEF RemoveProtocol

-----------------------------------------------------------------------------
(* The steps that change the line. *)

\* Turns only of entities of the protocol itself (LineOK), so IsRunning is who
\* has a turn.
LEMMA WhoRuns ==
  ASSUME IInv, NEW p \in Protocol, running[p] # None
  PROVE  /\ running[p] \in Running /\ running[p].e \in Entity
         /\ ProtocolOf[running[p].e] = p
         /\ IsRunning(running[p].e)
  BY DEF IInv, DataOK, LineOK, Running, IsRunning

\* Ask, when someone else is at it: e waits, or does already.
LEMMA AskWaits ==
  ASSUME IInv, NEW e \in Entity,
         running[ProtocolOf[e]] # None \/ IsWaiting(e),
         waiting' = IF IsRunning(e) \/ IsWaiting(e) THEN waiting
                    ELSE [waiting EXCEPT ![ProtocolOf[e]] = Append(@, e)],
         UNCHANGED running
  PROVE  waiting' \in [Protocol -> Seq(Entity)] /\ LineOK'
  <1> DEFINE p == ProtocolOf[e]
             w == waiting[p]
             a == Append(w, e)
  <1>0. p \in Protocol /\ w \in Seq(Entity)
    BY InstallsAssumption DEF IInv, DataOK
  <1>1. CASE IsRunning(e) \/ IsWaiting(e)
    BY <1>1, LineSame DEF IInv, DataOK
  <1>2. CASE ~(IsRunning(e) \/ IsWaiting(e))
    <2>1. waiting' = [waiting EXCEPT ![p] = a] /\ running[p] # None
      BY <1>2
    <2>2. /\ a \in Seq(Entity) /\ DOMAIN a = 1..(Len(w) + 1) /\ DOMAIN w = 1..Len(w)
          /\ Len(w) \in Nat
          /\ \A i \in DOMAIN w : a[i] = w[i]
          /\ a[Len(w) + 1] = e
      BY <1>0
    <2>3. LineAt(p, running[p], w)
      BY <1>0, LineParts DEF IInv
    <2>4. running[p].e # e /\ \A i \in DOMAIN w : w[i] # e
      BY <1>2, <2>1 DEF IsRunning, IsWaiting
    <2>5. \A i \in DOMAIN a : i \in DOMAIN w \/ i = Len(w) + 1
      BY <2>2
    <2> HIDE DEF a, w
    <2>6. LineAt(p, running[p], a)
      <3>1. ASSUME NEW i \in DOMAIN a
            PROVE  /\ ProtocolOf[a[i]] = p
                   /\ running[p].e # a[i]
                   /\ \A j \in DOMAIN a : a[i] = a[j] => i = j
        BY <2>2, <2>3, <2>4, <2>5 DEF LineAt
      <3> QED
        BY <2>1, <2>3, <3>1 DEF LineAt
    <2>7. /\ waiting' \in [Protocol -> Seq(Entity)]
          /\ waiting'[p] = a
          /\ \A q \in Protocol \ {p} : waiting'[q] = waiting[q]
      BY <1>0, <2>1, <2>2 DEF IInv, DataOK
    <2> QED
      BY <2>6, <2>7, LineParts DEF IInv
  <1> QED
    BY <1>1, <1>2

\* Ask: a call waits in line, or has the turn and a watcher on it.
LEMMA AskOK ==
  ASSUME IInv, NEW t \in Task, Ask(t)
  PROVE  IInv'
  <1> DEFINE e == th[t].e
             p == ProtocolOf[e]
  <1>1. ThreadOK(th[t]) /\ e \in Entity /\ th[t].op # "watch"
    BY NotWatching DEF Ask
  <1>2. p \in Protocol
    BY <1>1, InstallsAssumption
  <1>3. passed' \in [Entity -> BOOLEAN] /\ UNCHANGED <<home, inputs, sent, over>>
    BY DEF Ask, IInv, DataOK
  <1>4. CASE /\ running[p] # None \/ IsWaiting(e)
             /\ waiting' = IF IsRunning(e) \/ IsWaiting(e) THEN waiting
                           ELSE [waiting EXCEPT ![p] = Append(@, e)]
             /\ Finish(t)
             /\ UNCHANGED <<running, watchers, turn>>
    <2>1. waiting' \in [Protocol -> Seq(Entity)] /\ LineOK'
      BY <1>1, <1>4, AskWaits
    <2>2. ThreadsOK' /\ KeepsWatch /\ busy' \in [Entity -> Task \cup {None}]
      BY <1>1, <1>4, FinishOK DEF IInv
    <2>3. DataOK'
      BY <1>3, <1>4, <2>1, <2>2 DEF IInv, DataOK, home
    <2>4. Watched'
      BY <1>4, <2>2, WatchedSame DEF IInv
    <2> QED
      BY <2>1, <2>2, <2>3, <2>4 DEF IInv
  <1>5. CASE /\ running[p] = None
             /\ ~IsWaiting(e)
             /\ running' = [running EXCEPT ![p] =
                                [NewTurn(e) EXCEPT !.before = th[t].before]]
             /\ WatchInstall(e)
             /\ turn' = [turn EXCEPT ![e] = @ + 1]
             /\ Goto(t, [th[t] EXCEPT !.pc = "begin", !.turn = turn[e] + 1])
             /\ UNCHANGED <<waiting, busy>>
    <2> DEFINE r == [NewTurn(e) EXCEPT !.before = th[t].before]
               q == [th[t] EXCEPT !.pc = "begin", !.turn = turn[e] + 1]
    <2>1. r \in Running /\ r # None /\ r.e = e
      <3>1. NewTurn(e) \in Running /\ NewTurn(e).e = e
        BY <1>1, NewTurnOK DEF IInv
      <3>2. th[t].before \in 0..MaxVersion
        BY <1>1 DEF ThreadOK, ThreadState
      <3>3. r \in Running /\ r.e = e
        BY <3>1, <3>2 DEF Running
      <3>4. r \in [e : Entity, before : Nat, started : BOOLEAN]
        BY <3>3 DEF Running
      <3> QED
        BY <3>3, <3>4, InstallsAssumption
    <2>2. turn[e] \in Nat /\ turn[e] + 1 \in Nat
      BY <1>1 DEF IInv, DataOK
    <2>3. q \in ThreadState
      BY <1>1, <2>2 DEF ThreadOK, ThreadState, PC
    <2>4. q.pc = "begin" /\ q.ret = th[t].ret /\ q.op = th[t].op /\ q.e = e
      BY <1>1 DEF ThreadOK, ThreadState
    <2>5. running' = [running EXCEPT ![p] = r] /\ Goto(t, q)
      BY <1>5
    <2> HIDE DEF q, r
    <2>6. ThreadOK(q) /\ Follow(th[t], q)
      BY <1>1, <2>3, <2>4 DEF ThreadOK, Follow
    <2>7. ThreadsOK' /\ KeepsWatch
      BY <2>5, <2>6, GotoOK DEF IInv
    <2>8. /\ watchers' \in [Entity -> Nat] /\ watchers'[e] > 0
          /\ \A d \in Entity : watchers'[d] >= watchers[d]
      BY <1>1, <1>5, CountUp DEF IInv, DataOK, WatchInstall
    <2>9. turn' \in [Entity -> Nat]
      BY <1>1, <1>5, CountUp DEF IInv, DataOK
    <2>10. /\ running' \in [Protocol -> Running \cup {None}]
           /\ running'[p] = r
           /\ \A d \in Protocol \ {p} : running'[d] = running[d]
      BY <1>2, <2>1, <2>5 DEF IInv, DataOK
    <2>11. DataOK'
      BY <1>3, <1>5, <2>8, <2>9, <2>10 DEF IInv, DataOK, home
    <2>12. LineOK'
      <3>1. waiting[p] = <<>>
        BY <1>2, <1>5 DEF IInv, LineOK
      <3>2. LineAt(p, r, <<>>)
        BY <2>1 DEF LineAt
      <3> QED
        BY <1>2, <1>5, <2>10, <3>1, <3>2, LineParts DEF IInv
    <2>13. Watched'
      <3> SUFFICES ASSUME NEW d \in Protocol, running'[d] # None
                   PROVE  \/ watchers'[running'[d].e] > 0
                          \/ \E s \in Task : th'[s].op = "watch" /\ th'[s].e = running'[d].e
        BY DEF Watched
      <3>1. CASE d = p
        BY <2>1, <2>8, <2>10, <3>1
      <3>2. CASE d # p
        <4>1. running'[d] = running[d] /\ running[d].e \in Entity
          BY <2>10, <3>2, WhoRuns
        <4>2. CASE watchers[running[d].e] > 0
          BY <2>8, <4>1, <4>2 DEF IInv, DataOK
        <4>3. CASE ~(watchers[running[d].e] > 0)
          BY <2>7, <4>1, <4>3 DEF IInv, Watched, KeepsWatch
        <4> QED
          BY <4>2, <4>3
      <3> QED
        BY <3>1, <3>2
    <2> QED
      BY <2>7, <2>11, <2>12, <2>13 DEF IInv
  <1> QED
    BY <1>4, <1>5 DEF Ask

\* Leave: a skipped update is taken out of the line.
LEMMA LeaveOK ==
  ASSUME IInv, NEW t \in Task, Leave(t)
  PROVE  IInv'
  <1> DEFINE e == th[t].e
  <1>1. ThreadOK(th[t]) /\ e \in Entity /\ th[t].op # "watch"
    BY NotWatching DEF Leave
  <1>2. ThreadsOK' /\ KeepsWatch
    BY <1>1, PcOK, GotoOK DEF IInv, Leave, PC
  <1>3. \A p \in Protocol : waiting'[p] = Without(waiting[p], e) /\ waiting[p] \in Seq(Entity)
    BY DEF Leave, IInv, DataOK
  <1>4. waiting' \in [Protocol -> Seq(Entity)]
    BY <1>1, <1>3, WithoutOK DEF Leave
  <1>5. LineOK'
    <2> SUFFICES ASSUME NEW p \in Protocol
                 PROVE  LineAt(p, running[p], waiting'[p])
      BY DEF Leave, LineOK, LineAt
    <2> DEFINE w == waiting[p]
               v == Without(w, e)
    <2>1. LineAt(p, running[p], w)
      BY LineParts DEF IInv
    <2>2. /\ w = <<>> => v = <<>>
          /\ \A i \in DOMAIN v : \E k \in DOMAIN w : v[i] = w[k]
          /\ (\A i, j \in DOMAIN w : w[i] = w[j] => i = j) =>
                \A i, j \in DOMAIN v : v[i] = v[j] => i = j
      BY <1>1, <1>3, WithoutOK
    <2>3. waiting'[p] = v
      BY <1>3
    <2> HIDE DEF v, w
    <2>4. LineAt(p, running[p], v)
      <3>1. \A i, j \in DOMAIN v : v[i] = v[j] => i = j
        BY <2>1, <2>2 DEF LineAt
      <3>2. ASSUME NEW i \in DOMAIN v
            PROVE  ProtocolOf[v[i]] = p /\ running[p].e # v[i]
        <4>1. PICK k \in DOMAIN w : v[i] = w[k]
          BY <2>2
        <4> QED
          BY <2>1, <4>1 DEF LineAt
      <3> QED
        BY <2>1, <2>2, <3>1, <3>2 DEF LineAt
    <2> QED
      BY <2>3, <2>4
  <1>6. Watched'
    BY <1>2, WatchedSame DEF IInv, Leave
  <1>7. DataOK'
    BY <1>4 DEF IInv, DataOK, Leave, home, hist
  <1> QED
    BY <1>2, <1>5, <1>6, <1>7 DEF IInv

\* Heard: a state says the install has begun, or is over, or neither.
LEMMA HeardOK ==
  ASSUME IInv, NEW t \in Task, Heard(t)
  PROVE  IInv'
  <1> DEFINE e == th[t].e
             p == ProtocolOf[e]
             r == running[p]
  <1>1. ThreadOK(th[t]) /\ e \in Entity /\ th[t].pc = "heard"
    BY DEF IInv, ThreadsOK, ThreadOK, Heard
  <1>2. p \in Protocol
    BY <1>1, InstallsAssumption
  <1>3. th[t].op = "watch" => th[t].ret # "done"
    BY <1>1 DEF ThreadOK
  <1>4. UNCHANGED <<home, waiting, watchers, inputs, turn, sent, passed>>
    BY DEF Heard
  <1>5. CASE /\ IsRunning(e)
             /\ running' = [running EXCEPT ![p].started = TRUE]
             /\ Return(t)
             /\ UNCHANGED over
    <2> DEFINE s == [r EXCEPT !.started = TRUE]
    <2>1. ThreadsOK' /\ KeepsWatch /\ busy' \in [Entity -> Task \cup {None}]
      BY <1>1, <1>3, <1>5, ReturnOK DEF IInv
    <2>2. r # None /\ r \in Running
      BY <1>2, <1>5 DEF IsRunning, IInv, DataOK
    <2>3. s \in Running /\ s.e = r.e
      BY <2>2 DEF Running
    <2>4. s # None
      <3>1. s \in [e : Entity, before : Nat, started : BOOLEAN]
        BY <2>3 DEF Running
      <3> QED
        BY <3>1, InstallsAssumption
    <2>5. running' = [running EXCEPT ![p] = s]
      BY <1>2, <1>5 DEF IInv, DataOK
    <2> HIDE DEF s
    <2>6. /\ running' \in [Protocol -> Running \cup {None}]
          /\ running'[p] = s
          /\ \A q \in Protocol \ {p} : running'[q] = running[q]
      BY <1>2, <2>3, <2>5 DEF IInv, DataOK
    <2>7. DataOK'
      BY <1>4, <1>5, <2>1, <2>6 DEF IInv, DataOK, home
    <2>8. \A q \in Protocol : /\ running'[q] # None <=> running[q] # None
                              /\ running'[q].e = running[q].e
      BY <2>2, <2>3, <2>4, <2>6
    <2>9. LineOK'
      BY <1>4, <2>8 DEF IInv, LineOK
    <2>10. Watched'
      BY <1>4, <2>1, <2>8 DEF IInv, Watched, KeepsWatch
    <2> QED
      BY <2>1, <2>7, <2>9, <2>10 DEF IInv
  <1>6. CASE /\ Goto(t, [th[t] EXCEPT !.pc = "over"])
             /\ Ended(e, th[t].evturn)
             /\ UNCHANGED <<running, busy>>
    <2> DEFINE q == [th[t] EXCEPT !.pc = "over"]
    <2>1. q \in ThreadState
      BY <1>1 DEF ThreadOK, ThreadState, PC
    <2>2. q.pc = "over" /\ q.ret = th[t].ret /\ q.op = th[t].op /\ q.e = e
      BY <1>1 DEF ThreadOK, ThreadState
    <2> HIDE DEF q
    <2>3. ThreadOK(q) /\ Follow(th[t], q)
      BY <1>1, <2>1, <2>2 DEF ThreadOK, Follow
    <2>4. ThreadsOK' /\ KeepsWatch
      BY <1>6, <2>3, GotoOK DEF IInv, q
    <2>5. over' \in [Entity -> Nat]
      BY <1>1, <1>6, EndedOK DEF IInv, DataOK, ThreadOK, ThreadState
    <2>6. DataOK'
      BY <1>4, <1>6, <2>5 DEF IInv, DataOK, home
    <2> QED
      BY <1>4, <1>6, <2>4, <2>6, LineKept DEF line
  <1>7. CASE Return(t) /\ UNCHANGED <<running, over>>
    <2>1. ThreadsOK' /\ KeepsWatch /\ busy' \in [Entity -> Task \cup {None}]
      BY <1>1, <1>3, <1>7, ReturnOK DEF IInv
    <2>2. DataOK'
      BY <1>4, <1>7, <2>1 DEF IInv, DataOK, home
    <2> QED
      BY <1>4, <1>7, <2>1, <2>2, LineKept DEF line
  <1> QED
    BY <1>5, <1>6, <1>7 DEF Heard

\* Every late watcher of an entity but e stays.
KeepsOthers(e) ==
    \A s \in Task : th[s].op = "watch" /\ th[s].e # e =>
                        th'[s].op = "watch" /\ th'[s].e = th[s].e

\* A turn handed on leaves every turn watched (NextInLine): e's late watcher is
\* no longer needed.
LEMMA HandedOn ==
  ASSUME IInv, NEW e \in Entity, NextInLine(e), KeepsOthers(e)
  PROVE  Watched'
  <1> SUFFICES ASSUME NEW p \in Protocol, running'[p] # None
               PROVE  \/ watchers'[running'[p].e] > 0
                      \/ \E s \in Task : th'[s].op = "watch" /\ th'[s].e = running'[p].e
    BY DEF Watched
  <1>1. \/ watchers'[running'[p].e] > 0
        \/ running'[p] = running[p] /\ running[p].e # e
    BY NextInLineOK DEF IInv
  <1>2. CASE running'[p] = running[p] /\ running[p].e # e
    <2>1. running[p].e \in Entity
      BY <1>2, WhoRuns
    <2>2. watchers' \in [Entity -> Nat] /\ \A d \in Entity : watchers'[d] >= watchers[d]
      BY NextInLineOK DEF IInv
    <2>3. CASE watchers[running[p].e] > 0
      BY <1>2, <2>1, <2>2, <2>3 DEF IInv, DataOK
    <2>4. CASE ~(watchers[running[p].e] > 0)
      <3>1. PICK s \in Task : th[s].op = "watch" /\ th[s].e = running[p].e
        BY <1>2, <2>4 DEF IInv, Watched
      <3> QED
        BY <1>2, <3>1 DEF KeepsOthers
    <2> QED
      BY <2>3, <2>4
  <1> QED
    BY <1>1, <1>2

\* Who is next is an entity, or nobody (Follows), and the task that is to send
\* its install is as it should be.
LEMMA SenderOK ==
  ASSUME IInv, NEW e \in Entity, NEW n, n = Follows(e), n # None
  PROVE  ThreadOK(Thread("line", "check", n, turn[n] + 1))
  <1>1. n \in Entity
    <2>1. waiting[ProtocolOf[e]] \in Seq(Entity)
      BY InstallsAssumption DEF IInv, DataOK
    <2> QED
      BY <2>1 DEF Follows
  <1> DEFINE m == turn[n] + 1
  <1>2. m \in Nat
    BY <1>1 DEF IInv, DataOK
  <1> HIDE DEF m
  <1>3. ThreadOK(Thread("line", "check", n, m))
    BY <1>1, <1>2, ThreadMade DEF Op, PC
  <1> QED
    BY <1>3 DEF m

\* InstallOver: the turn is handed on, and a task of its own sends the next.
LEMMA InstallOverOK ==
  ASSUME IInv, NEW t \in Task, InstallOver(t)
  PROVE  IInv'
  <1> DEFINE e == th[t].e
             n == Follows(e)
             sender == Thread("line", "check", n, turn[n] + 1)
  <1>1. ThreadOK(th[t]) /\ e \in Entity /\ th[t].pc = "over"
    BY DEF IInv, ThreadsOK, ThreadOK, InstallOver
  <1>2. NextInLine(e) /\ UNCHANGED <<home, inputs, sent, over, passed>>
    BY DEF InstallOver
  <1>3. n # None => ThreadOK(sender)
    BY <1>1, SenderOK
  <1>4. /\ ThreadsOK' /\ busy' \in [Entity -> Task \cup {None}]
        /\ KeepsOthers(e)
    <2>1. CASE n = None /\ Return(t)
      <3>1. ThreadsOK' /\ busy' \in [Entity -> Task \cup {None}]
        BY <1>1, <2>1, ReturnOK DEF IInv
      <3>2. \A s \in Task \ {t} : th'[s] = th[s]
        BY <2>1 DEF Return, Finish, Goto, IInv, ThreadsOK
      <3> QED
        BY <3>1, <3>2 DEF KeepsOthers
    <2>2. CASE n # None /\ Goto(t, sender) /\ Release(t)
      <3>1. ThreadsOK' /\ busy' \in [Entity -> Task \cup {None}]
        BY <1>3, <2>2, GotoOK, ReleaseOK DEF IInv, DataOK
      <3>2. \A s \in Task \ {t} : th'[s] = th[s]
        BY <2>2 DEF Goto, IInv, ThreadsOK
      <3> QED
        BY <3>1, <3>2 DEF KeepsOthers
    <2>3. CASE /\ n # None
               /\ \E s \in Task :
                    /\ th[s].pc = "idle"
                    /\ th' = [th EXCEPT ![t] = Back(th[t]), ![s] = sender]
               /\ UNCHANGED busy
      <3>1. PICK s \in Task : /\ th[s].pc = "idle"
                              /\ th' = [th EXCEPT ![t] = Back(th[t]), ![s] = sender]
        BY <2>3
      <3>2. ThreadOK(Back(th[t])) /\ ThreadOK(sender)
        BY <1>1, <1>3, <2>3, BackOK
      <3>3. th[s].op # "watch" /\ s # t
        BY <1>1, <3>1 DEF IInv, ThreadsOK, ThreadOK
      <3> HIDE DEF sender
      <3>4. \A d \in Task : th'[d] = IF d = s THEN sender
                                     ELSE IF d = t THEN Back(th[t]) ELSE th[d]
        BY <3>1 DEF IInv, ThreadsOK
      <3>5. ThreadsOK'
        <4>1. sender \in ThreadState /\ Back(th[t]) \in ThreadState
          BY <3>2 DEF ThreadOK
        <4>2. th' \in [Task -> ThreadState]
          BY <3>1, <4>1 DEF IInv, ThreadsOK
        <4>3. \A d \in Task : ThreadOK(th'[d])
          BY <3>2, <3>4 DEF IInv, ThreadsOK
        <4> QED
          BY <4>2, <4>3 DEF ThreadsOK
      <3>6. KeepsOthers(e)
        BY <3>3, <3>4 DEF KeepsOthers
      <3> QED
        BY <2>3, <3>5, <3>6 DEF IInv, DataOK
    <2> QED
      BY <2>1, <2>2, <2>3 DEF InstallOver
  <1>5. Watched'
    BY <1>1, <1>2, <1>4, HandedOn
  <1>6. /\ running' \in [Protocol -> Running \cup {None}]
        /\ waiting' \in [Protocol -> Seq(Entity)]
        /\ watchers' \in [Entity -> Nat]
        /\ turn' \in [Entity -> Nat]
        /\ LineOK'
    BY <1>1, <1>2, NextInLineOK DEF IInv
  <1>7. DataOK'
    BY <1>2, <1>4, <1>6 DEF IInv, DataOK, home
  <1> QED
    BY <1>4, <1>5, <1>6, <1>7 DEF IInv

\* LineNext: the line's task goes on to the next in line.
LEMMA LineNextOK ==
  ASSUME IInv, NEW t \in Task, LineNext(t)
  PROVE  IInv'
  <1> DEFINE e == th[t].e
             n == Follows(e)
             r == IF n = None THEN Idle ELSE Thread("line", "check", n, turn[n] + 1)
  <1>1. ThreadOK(th[t]) /\ e \in Entity /\ th[t].op # "watch"
    BY NotWatching DEF LineNext
  <1>2. NextInLine(e) /\ Goto(t, r) /\ UNCHANGED <<home, busy, inputs, sent, over, passed>>
    BY DEF LineNext
  <1>3. ThreadOK(r)
    BY <1>1, SenderOK, IdleOK
  <1>4. ThreadsOK'
    BY <1>2, <1>3, GotoOK DEF IInv
  <1>5. KeepsOthers(e)
    <2>1. \A s \in Task \ {t} : th'[s] = th[s]
      BY <1>2 DEF Goto, IInv, ThreadsOK
    <2> QED
      BY <1>1, <2>1 DEF KeepsOthers
  <1>6. Watched'
    BY <1>1, <1>2, <1>5, HandedOn
  <1>7. /\ running' \in [Protocol -> Running \cup {None}]
        /\ waiting' \in [Protocol -> Seq(Entity)]
        /\ watchers' \in [Entity -> Nat]
        /\ turn' \in [Entity -> Nat]
        /\ LineOK'
    BY <1>1, <1>2, NextInLineOK DEF IInv
  <1>8. DataOK'
    BY <1>2, <1>7 DEF IInv, DataOK, home
  <1> QED
    BY <1>4, <1>6, <1>7, <1>8 DEF IInv

\* Forget: the protocol's line is gone.
LEMMA ForgetOK ==
  ASSUME IInv, NEW t \in Task, Forget(t)
  PROVE  IInv'
  <1> DEFINE p == ProtocolOf[th[t].e]
  <1>1. ThreadOK(th[t]) /\ th[t].e \in Entity /\ th[t].op # "watch"
    BY NotWatching DEF Forget
  <1>2. p \in Protocol
    BY <1>1, InstallsAssumption
  <1>3. ThreadsOK' /\ KeepsWatch
    BY <1>1, IdleOK, GotoOK DEF IInv, Forget, Follow
  <1>4. /\ running' \in [Protocol -> Running \cup {None}]
        /\ waiting' \in [Protocol -> Seq(Entity)]
        /\ running'[p] = None /\ waiting'[p] = <<>>
        /\ \A q \in Protocol \ {p} : running'[q] = running[q] /\ waiting'[q] = waiting[q]
    BY <1>2 DEF Forget, IInv, DataOK
  <1>5. over' \in [Entity -> Nat]
    BY DEF Forget, IInv, DataOK
  <1>6. DataOK'
    BY <1>4, <1>5 DEF IInv, DataOK, Forget, home
  <1>7. LineOK'
    <2>1. LineAt(p, None, <<>>)
      BY DEF LineAt
    <2> QED
      BY <1>2, <1>4, <2>1, LineParts DEF IInv
  <1>8. Watched'
    BY <1>3, <1>4 DEF IInv, Watched, KeepsWatch, Forget
  <1> QED
    BY <1>3, <1>6, <1>7, <1>8 DEF IInv

\* WatchOver: a watcher of an entity that has no turn goes.
LEMMA WatchOverOK ==
  ASSUME IInv, NEW e \in Entity, WatchOver(e)
  PROVE  IInv'
  <1>1. ThreadsOK' /\ KeepsWatch
    BY TasksSame DEF IInv, WatchOver
  <1>2. /\ watchers' \in [Entity -> Nat]
        /\ \A d \in Entity \ {e} : watchers'[d] = watchers[d]
    BY DEF IInv, DataOK, WatchOver, Sleeping
  <1>3. DataOK'
    BY <1>2 DEF IInv, DataOK, WatchOver, home, hist
  <1>4. LineOK'
    BY LineSame DEF IInv, WatchOver
  <1>5. ASSUME NEW p \in Protocol, running[p] # None
        PROVE  running[p].e \in Entity \ {e}
    BY <1>5, WhoRuns DEF WatchOver
  <1>6. Watched'
    BY <1>2, <1>5 DEF IInv, Watched, WatchOver
  <1> QED
    BY <1>1, <1>3, <1>4, <1>6 DEF IInv

\* WatchOverdue: a watcher finds its install late.
LEMMA WatchOverdueOK ==
  ASSUME IInv, NEW t \in Task, NEW e \in Entity, WatchOverdue(t, e)
  PROVE  IInv'
  <1> DEFINE r == Thread("watch", "watchfail", e, turn[e])
  <1>1. turn[e] \in Nat
    BY DEF IInv, DataOK
  <1>2. ThreadOK(r) /\ r.op = "watch" /\ r.e = e
    BY <1>1, ThreadMade DEF Op, PC
  <1>3. Goto(t, r)
    BY DEF WatchOverdue
  <1> HIDE DEF r
  <1>4. th[t].op # "watch"
    BY DEF IInv, ThreadsOK, ThreadOK, WatchOverdue
  <1>5. ThreadsOK' /\ KeepsWatch
    BY <1>2, <1>3, <1>4, GotoOK DEF IInv, Follow
  <1>6. th'[t] = r
    BY <1>3 DEF Goto, IInv, ThreadsOK
  <1>7. /\ watchers' \in [Entity -> Nat]
        /\ \A d \in Entity \ {e} : watchers'[d] = watchers[d]
    BY DEF IInv, DataOK, WatchOverdue, Sleeping
  <1>8. over' \in [Entity -> Nat]
    BY <1>1, EndedOK DEF IInv, DataOK, WatchOverdue
  <1>9. DataOK'
    BY <1>7, <1>8 DEF IInv, DataOK, WatchOverdue, home
  <1>10. LineOK'
    BY LineSame DEF IInv, WatchOverdue
  <1>11. Watched'
    <2> SUFFICES ASSUME NEW p \in Protocol, running[p] # None
                 PROVE  \/ watchers'[running[p].e] > 0
                        \/ \E s \in Task : th'[s].op = "watch" /\ th'[s].e = running[p].e
      BY DEF Watched, WatchOverdue
    <2>1. CASE running[p].e = e
      BY <1>2, <1>6, <2>1
    <2>2. CASE running[p].e # e
      BY <1>5, <1>7, <2>2, WhoRuns DEF IInv, Watched, KeepsWatch
    <2> QED
      BY <2>1, <2>2
  <1> QED
    BY <1>5, <1>9, <1>10, <1>11 DEF IInv

-----------------------------------------------------------------------------
(* The theorems. *)

\* It holds at the start.
LEMMA InitOK == Init => IInv
  <1> SUFFICES ASSUME Init PROVE IInv
    OBVIOUS
  <1>1. DataOK
    <2> DEFINE s == [installed |-> 1, latest |-> MaxVersion, available |-> MaxVersion # 1,
                     inProgress |-> FALSE, error |-> FALSE, skipped |-> FALSE]
    <2>1. 1 \in Version /\ MaxVersion \in Version
      BY InstallsAssumption DEF Version
    <2>2. (MaxVersion # 1) \in BOOLEAN
      OBVIOUS
    <2>3. s \in UpdateState
      BY <2>1, <2>2, Zenon DEF UpdateState
    <2> HIDE DEF s
    <2>4. upd = [e \in Entity |-> s]
      BY DEF Init, s
    <2>5. upd \in [Entity -> State]
      BY <2>3, <2>4 DEF State
    <2>6. /\ skips \in [Entity -> 0..MaxVersion]
          /\ inputs \in 0..MaxInputs
      BY InstallsAssumption DEF Init
    <2>7. /\ running \in [Protocol -> Running \cup {None}]
          /\ busy \in [Entity -> Task \cup {None}]
          /\ passed \in [Entity -> BOOLEAN]
      BY DEF Init
    <2>8. waiting \in [Protocol -> Seq(Entity)]
      BY DEF Init
    <2>9. /\ watchers \in [Entity -> Nat] /\ turn \in [Entity -> Nat]
          /\ sent \in [Entity -> Nat] /\ over \in [Entity -> Nat]
      BY DEF Init
    <2> QED
      BY <2>5, <2>6, <2>7, <2>8, <2>9 DEF DataOK
  <1>2. ThreadsOK
    <2>1. Idle \in ThreadState
      BY IdleOK DEF ThreadOK
    <2> QED
      BY <2>1, IdleOK DEF Init, ThreadsOK
  <1>3. LineOK
    BY DEF Init, LineOK
  <1>4. Watched
    BY DEF Init, Watched
  <1> QED
    BY <1>1, <1>2, <1>3, <1>4 DEF IInv

\* Every step of a task, of a person or of a protocol keeps it.
LEMMA NextOK == IInv /\ [Next]_vars => IInv'
  <1> SUFFICES ASSUME IInv, [Next]_vars PROVE IInv'
    OBVIOUS
  <1>1. ASSUME NEW t \in Task, Step(t) PROVE IInv'
    BY <1>1, LockOK, ResolveOK, TakeTurnOK, AskOK, BeginUpdateOK, SendOK, AnswerOK,
       SkipOK, LeaveOK, ClearSkippedOK, HeardOK, InstallOverOK, LineCheckOK,
       LineFailOK, LineNextOK, WatchFailOK, ForgetOK DEF Step
  <1>2. ASSUME NEW t \in Task, LockTimeout(t) \/ Abandon(t) PROVE IInv'
    BY <1>2, LockTimeoutOK, AbandonOK
  <1>3. ASSUME NEW t \in Task, NEW e \in Entity,
               \/ \E op \in {"install", "skip", "clear"} : CallService(t, e, op)
               \/ WatchOverdue(t, e)
               \/ \E said \in Said, told \in BOOLEAN : Report(t, e, said, told)
               \/ RemoveProtocol(t, e)
        PROVE  IInv'
    BY <1>3, CallServiceOK, WatchOverdueOK, ReportOK, RemoveProtocolOK
  <1>4. ASSUME NEW e \in Entity,
               \/ WatchOver(e) \/ Register(e)
               \/ \E said \in Said : RefusedReport(e, said)
        PROVE  IInv'
    BY <1>4, WatchOverOK, RegisterOK, RefusedReportOK
  <1>5. CASE UNCHANGED vars
    <2>1. UNCHANGED line /\ UNCHANGED th
      BY <1>5 DEF vars, line
    <2>2. ThreadsOK' /\ KeepsWatch
      BY <2>1, TasksSame DEF IInv
    <2>3. DataOK'
      BY <1>5 DEF IInv, DataOK, vars
    <2> QED
      BY <2>1, <2>2, <2>3, LineKept
  <1> QED
    BY <1>1, <1>2, <1>3, <1>4, <1>5 DEF Next

\* The inductive invariant holds throughout.
LEMMA Invariant == Spec => []IInv
  BY InitOK, NextOK, PTL DEF Spec

\* Update states, lines, tasks and their histories keep their types, however
\* calls, reports, watchers and removals interleave.
THEOREM TypeCorrect == Spec => []TypeOK
  <1>1. IInv => TypeOK
    BY DEF IInv, DataOK, ThreadsOK, ThreadOK, TypeOK
  <1> QED
    BY <1>1, Invariant, PTL

\* A line never stalls or doubles (Installs::ask, next, leave and forget): for any
\* number of protocols, entities and tasks, nothing waits without an install that
\* has the turn, and nothing is in a line twice.
THEOREM LineInOrder == Spec => []LineOK
  <1>1. IInv => LineOK
    BY DEF IInv
  <1> QED
    BY <1>1, Invariant, PTL

\* Whoever has the turn is watched from the moment it has it (take_turn, run_line
\* and watch_install), so no protocol's line depends on its answering.
THEOREM TurnsWatched == Spec => []Watched
  <1>1. IInv => Watched
    BY DEF IInv
  <1> QED
    BY <1>1, Invariant, PTL

=============================================================================
