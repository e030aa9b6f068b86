------------------------- MODULE ReportQueueProofs -------------------------
(***************************************************************************)
(* Proofs about ReportQueue, for any entities, limits and number of         *)
(* reports and operations: the queues stay within their limits, what isn't  *)
(* dropped for want of room gets to the core in the order it was said, and  *)
(* what is dropped is counted.                                              *)
(***************************************************************************)
EXTENDS ReportQueue, FiniteSetTheorems, WellFoundedInduction, TLAPS

Line == Report \cup {OpLine}

\* What is in a queue, and that it is in the order it was said, entity by entity.
El(s) == {s[i] : i \in DOMAIN s}
Sorted(s) ==
    \A i, j \in DOMAIN s : i < j /\ s[i].e = s[j].e /\ s[i].e # 0 => s[i].n < s[j].n
Before(S, T) == \A r \in S, q \in T : r.e = q.e /\ r.e # 0 => r.n < q.n

\* Where the loop of either kind may be, and what it then holds: all it took or one
\* report.  Once what is left is drained nothing waits, unless a task cut off goes on.
Hands == {e \in Ent : hand[e] # <<>>}
LoopInv ==
    /\ external => task = "up" /\ pc \in {"select", "wait", "discard", "sendop", "pop",
                                          "offer", "restore", "full"}
    /\ ~external => out = <<>> /\ pc \in {"select", "wait", "drain", "apply", "last",
                                          "applylast", "ended"}
    /\ pc \notin {"apply", "applylast", "offer", "restore"} => Hands = {}
    /\ pc \in {"offer", "restore"} => \E e \in Ent : Hands = {e} /\ Len(hand[e]) = 1
    /\ pc \in {"last", "applylast", "ended"} => task # "up"
    /\ task = "ended" /\ pc \in {"applylast", "ended"} => Waiting = {}
    /\ task = "ended" /\ pc = "ended" => dropped = 0
    /\ ops <= made

\* What is put back had its place before.
RoomInv ==
    /\ ~external => /\ Cardinality(Waiting) <= MaxEntities
                    /\ \A e \in Ent : Len(pending[e]) <= MaxPresses
    /\ external => /\ Cardinality(Waiting \cup Hands) <= MaxEntities + 1
                   /\ \A e \in Ent : Len(pending[e]) + Len(hand[e]) <= MaxPresses + 1

\* Every report is of the entity it waits for, and one its task has made.
MadeInv ==
    /\ \A e \in Ent :
          \A r \in El(pending[e]) \cup El(hand[e]) \cup El(received[e]) \cup lost[e] :
              r.e = e /\ r.n <= pushed[e]
    /\ \A r \in El(out) : r.e # 0 => r.n <= pushed[r.e]

\* From the core back to the queue, every report is newer than the ones before it.
OrderAt(e) ==
    /\ Sorted(pending[e]) /\ Sorted(hand[e]) /\ Sorted(received[e])
    /\ Before(El(received[e]), El(out)) /\ Before(El(received[e]), El(hand[e]))
    /\ Before(El(received[e]), El(pending[e]))
    /\ Before(El(out), El(hand[e])) /\ Before(El(out), El(pending[e]))
    /\ Before(El(hand[e]), El(pending[e]))
OrderInv == Sorted(out) /\ \A e \in Ent : OrderAt(e)

\* Without nulls an event reports presses only, and everything else values only.
PressInv ==
    ~Nulls => \A e \in Ent : \A r \in El(pending[e]) \cup El(hand[e]) : r.press <=> e \in Events
KeptInv == NewestKept /\ (~Nulls => PressesKept)

\* What is lost waits no more, so that each loss counts once.
AllLost == UNION {lost[e] : e \in Ent}
CountInv ==
    /\ IsFiniteSet(AllLost)
    /\ ~external => \A e \in Ent : El(pending[e]) \cap lost[e] = {}
    /\ DropsCounted

IInv ==
    /\ TypeOK /\ LoopInv /\ RoomInv /\ MadeInv /\ OrderInv /\ PressInv /\ KeptInv /\ CountInv

-----------------------------------------------------------------------------
(* Queues                                                                   *)

\* A report behind the others.
LEMMA AppendOK ==
  ASSUME NEW S, NEW s \in Seq(S), NEW r \in S
  PROVE  /\ Append(s, r) \in Seq(S) /\ Len(Append(s, r)) = Len(s) + 1
         /\ Append(s, r) # <<>> /\ El(Append(s, r)) = El(s) \cup {r}
         /\ Sorted(s) /\ Before(El(s), {r}) => Sorted(Append(s, r))
  <1> DEFINE t == Append(s, r)
  <1>1. /\ t \in Seq(S) /\ Len(t) = Len(s) + 1 /\ DOMAIN t = 1 .. Len(s) + 1
        /\ DOMAIN s = 1 .. Len(s) /\ Len(s) \in Nat /\ t[Len(s) + 1] = r
        /\ \A i \in 1 .. Len(s) : t[i] = s[i]
    OBVIOUS
  <1> HIDE DEF t
  <1>2. t # <<>>
    BY <1>1
  <1>3. El(t) = El(s) \cup {r}
    <2>1. \A i \in DOMAIN t : t[i] \in El(s) \cup {r}
      BY <1>1 DEF El
    <2>2. \A i \in DOMAIN s : s[i] \in El(t)
      BY <1>1 DEF El
    <2>3. r \in El(t)
      BY <1>1 DEF El
    <2> QED
      BY <2>1, <2>2, <2>3 DEF El
  <1>4. ASSUME Sorted(s), Before(El(s), {r}) PROVE Sorted(t)
    <2> SUFFICES ASSUME NEW i \in DOMAIN t, NEW j \in DOMAIN t, i < j, t[i].e = t[j].e,
                        t[i].e # 0
                 PROVE  t[i].n < t[j].n
      BY DEF Sorted
    <2>1. i \in DOMAIN s /\ t[i] = s[i]
      BY <1>1
    <2>2. CASE j = Len(s) + 1
      BY <1>1, <1>4, <2>1, <2>2 DEF Before, El
    <2>3. CASE j # Len(s) + 1
      BY <1>1, <1>4, <2>1, <2>3 DEF Sorted
    <2> QED
      BY <2>2, <2>3
  <1> QED
    BY <1>1, <1>2, <1>3, <1>4 DEF t

\* The queue without its first.
LEMMA TailOK ==
  ASSUME NEW S, NEW s \in Seq(S), s # <<>>
  PROVE  /\ Tail(s) \in Seq(S) /\ Len(Tail(s)) = Len(s) - 1 /\ Head(s) \in S
         /\ El(s) = El(Tail(s)) \cup {Head(s)} /\ Head(s) \in El(s) /\ Len(s) >= 1
         /\ Sorted(s) => Sorted(Tail(s)) /\ Before({Head(s)}, El(Tail(s)))
  <1> DEFINE t == Tail(s)
  <1>1. /\ t \in Seq(S) /\ Len(t) = Len(s) - 1 /\ DOMAIN t = 1 .. Len(s) - 1
        /\ DOMAIN s = 1 .. Len(s) /\ Len(s) \in Nat /\ Len(s) >= 1 /\ Head(s) = s[1]
        /\ \A i \in 1 .. Len(s) - 1 : t[i] = s[i + 1]
    OBVIOUS
  <1> HIDE DEF t
  <1>2. Head(s) \in S /\ Head(s) \in El(s)
    BY <1>1 DEF El
  <1>3. El(s) = El(t) \cup {Head(s)}
    <2>1. ASSUME NEW i \in DOMAIN s PROVE s[i] \in El(t) \cup {Head(s)}
      <3>1. CASE i = 1
        BY <1>1, <3>1
      <3>2. CASE i # 1
        <4>1. i - 1 \in DOMAIN t /\ t[i - 1] = s[i]
          BY <1>1, <3>2
        <4> QED
          BY <4>1 DEF El
      <3> QED
        BY <3>1, <3>2
    <2>2. \A i \in DOMAIN t : i + 1 \in DOMAIN s /\ t[i] = s[i + 1]
      BY <1>1
    <2> QED
      BY <1>2, <2>1, <2>2 DEF El
  <1>4. ASSUME Sorted(s) PROVE Sorted(t) /\ Before({Head(s)}, El(t))
    <2>1. \A i \in DOMAIN t : i + 1 \in DOMAIN s /\ t[i] = s[i + 1] /\ i \in Nat /\ 1 < i + 1
      BY <1>1
    <2>2. \A i, j \in DOMAIN t : i < j => i + 1 < j + 1
      BY <2>1
    <2>3. Sorted(t)
      BY <1>4, <2>1, <2>2 DEF Sorted
    <2>4. Before({Head(s)}, El(t))
      BY <1>1, <1>4, <2>1 DEF Sorted, Before, El
    <2> QED
      BY <2>3, <2>4
  <1> QED
    BY <1>1, <1>2, <1>3, <1>4 DEF t

\* One queue behind another.
LEMMA JoinOK ==
  ASSUME NEW S, NEW s \in Seq(S), NEW t \in Seq(S)
  PROVE  /\ s \o t \in Seq(S) /\ Len(s \o t) = Len(s) + Len(t)
         /\ El(s \o t) = El(s) \cup El(t)
         /\ Sorted(s) /\ Sorted(t) /\ Before(El(s), El(t)) => Sorted(s \o t)
  <1> DEFINE u == s \o t
  <1>1. /\ u \in Seq(S) /\ Len(u) = Len(s) + Len(t) /\ DOMAIN u = 1 .. Len(s) + Len(t)
        /\ DOMAIN s = 1 .. Len(s) /\ Len(s) \in Nat /\ DOMAIN t = 1 .. Len(t) /\ Len(t) \in Nat
        /\ \A i \in 1 .. Len(s) + Len(t) : u[i] = IF i <= Len(s) THEN s[i] ELSE t[i - Len(s)]
    OBVIOUS
  <1> HIDE DEF u
  <1>2. El(u) = El(s) \cup El(t)
    <2>1. ASSUME NEW i \in DOMAIN u PROVE u[i] \in El(s) \cup El(t)
      <3>1. CASE i <= Len(s)
        <4>1. i \in DOMAIN s /\ u[i] = s[i]
          BY <1>1, <3>1
        <4> QED
          BY <4>1 DEF El
      <3>2. CASE ~(i <= Len(s))
        <4>1. i - Len(s) \in DOMAIN t /\ u[i] = t[i - Len(s)]
          BY <1>1, <3>2
        <4> QED
          BY <4>1 DEF El
      <3> QED
        BY <3>1, <3>2
    <2>2. \A i \in DOMAIN s : i \in DOMAIN u /\ u[i] = s[i]
      BY <1>1
    <2>3. \A i \in DOMAIN t : i + Len(s) \in DOMAIN u /\ u[i + Len(s)] = t[i]
      BY <1>1
    <2>4. El(s) \subseteq El(u) /\ El(t) \subseteq El(u)
      BY <2>2, <2>3 DEF El
    <2> QED
      BY <2>1, <2>4 DEF El
  <1>3. ASSUME Sorted(s), Sorted(t), Before(El(s), El(t)) PROVE Sorted(u)
    <2> SUFFICES ASSUME NEW i \in DOMAIN u, NEW j \in DOMAIN u, i < j, u[i].e = u[j].e,
                        u[i].e # 0
                 PROVE  u[i].n < u[j].n
      BY DEF Sorted
    <2>1. CASE j <= Len(s)
      <3>1. i \in DOMAIN s /\ j \in DOMAIN s /\ u[i] = s[i] /\ u[j] = s[j]
        BY <1>1, <2>1
      <3> QED
        BY <1>3, <3>1 DEF Sorted
    <2>2. CASE i > Len(s)
      <3>1. /\ i - Len(s) \in DOMAIN t /\ j - Len(s) \in DOMAIN t /\ i - Len(s) < j - Len(s)
            /\ u[i] = t[i - Len(s)] /\ u[j] = t[j - Len(s)]
        BY <1>1, <2>2
      <3> QED
        BY <1>3, <3>1 DEF Sorted
    <2>3. CASE i <= Len(s) /\ j > Len(s)
      <3>1. /\ i \in DOMAIN s /\ j - Len(s) \in DOMAIN t
            /\ u[i] = s[i] /\ u[j] = t[j - Len(s)]
        BY <1>1, <2>3
      <3> QED
        BY <1>3, <3>1 DEF Before, El
    <2> QED
      BY <1>1, <2>1, <2>2, <2>3
  <1> QED
    BY <1>1, <1>2, <1>3 DEF u

\* A queue of one, and of none.
LEMMA OneOK ==
  ASSUME NEW S, NEW r \in S
  PROVE  /\ <<r>> \in Seq(S) /\ Len(<<r>>) = 1 /\ El(<<r>>) = {r} /\ Sorted(<<r>>)
         /\ <<r>> # <<>> /\ Head(<<r>>) = r
         /\ <<>> \in Seq(S) /\ Len(<<>>) = 0 /\ El(<<>>) = {} /\ Sorted(<<>>)
  <1>1. DOMAIN <<r>> = {1} /\ <<r>>[1] = r /\ DOMAIN <<>> = {}
    OBVIOUS
  <1>2. Sorted(<<r>>) /\ Sorted(<<>>)
    BY <1>1 DEF Sorted
  <1> QED
    BY <1>1, <1>2 DEF El

\* A queue with one report in it has nothing else.
LEMMA LengthOne ==
  ASSUME NEW S, NEW s \in Seq(S), Len(s) = 1
  PROVE  Head(s) \in S /\ El(s) = {Head(s)} /\ s # <<>>
  <1>1. DOMAIN s = {1} /\ Head(s) = s[1] /\ s[1] \in S /\ s # <<>>
    OBVIOUS
  <1> QED
    BY <1>1 DEF El

\* A queue is empty when nothing is in it.
LEMMA EmptyOK ==
  ASSUME NEW S, NEW s \in Seq(S)
  PROVE  s = <<>> <=> El(s) = {}
  <1>1. DOMAIN s = 1 .. Len(s) /\ Len(s) \in Nat
    OBVIOUS
  <1>2. s # <<>> => 1 \in DOMAIN s
    BY <1>1
  <1>3. DOMAIN <<>> = {}
    OBVIOUS
  <1> QED
    BY <1>2, <1>3 DEF El

-----------------------------------------------------------------------------
(* What the actions have in common                                          *)

\* Everything e has reported that is somewhere.
Seen(e) ==
    El(pending[e]) \cup El(hand[e]) \cup {r \in El(out) : r.e = e} \cup El(received[e]) \cup lost[e]

\* It is what the properties speak of.
LEMMA SeenIs == \A e : OnTheWay(e) \cup Received(e) \cup lost[e] = Seen(e)
  BY DEF OnTheWay, Received, Seen, El

\* ... and after a step.
LEMMA SeenNext == (\A e : OnTheWay(e) \cup Received(e) \cup lost[e] = Seen(e))'
  BY SeenIs, PTL

\* What a step loses nothing of stays kept, but for a value that isn't the newest.
LEMMA StillKept ==
  ASSUME KeptInv, pushed' = pushed,
         \A e \in Ent : \A x \in Seen(e) :
             x \in Seen(e)' \/ (x.n # pushed[e] /\ (~Nulls => e \notin Events))
  PROVE  KeptInv'
  <1>1. NewestKept'
    <2> SUFFICES ASSUME NEW e \in Ent, pushed'[e] > 0
                 PROVE  \E r \in Seen(e)' : r.n = pushed'[e]
      BY SeenNext DEF NewestKept
    <2>1. \E r \in Seen(e) : r.n = pushed[e]
      BY SeenIs DEF KeptInv, NewestKept
    <2> QED
      BY <2>1
  <1>2. ASSUME ~Nulls PROVE PressesKept'
    <2>1. \A e \in Events : \A n \in 1 .. pushed[e] : \E r \in Seen(e) : r.n = n
      BY <1>2, SeenIs DEF KeptInv, PressesKept
    <2>2. Events \subseteq Ent
      BY QueueAssumption
    <2>3. \A e \in Events : \A n \in 1 .. pushed'[e] : \E r \in Seen(e)' : r.n = n
      BY <1>2, <2>1, <2>2
    <2> QED
      BY <2>3, SeenNext DEF PressesKept
  <1> QED
    BY <1>1, <1>2 DEF KeptInv

\* Only where the loop is and what it waits for changes.
LEMMA DataSame ==
  ASSUME IInv,
         UNCHANGED <<external, pending, pushed, hand, out, received, lost>>,
         external \/ UNCHANGED <<dropped, counted>>
  PROVE  RoomInv' /\ MadeInv' /\ OrderInv' /\ PressInv' /\ KeptInv' /\ CountInv'
  <1>1. Waiting' = Waiting /\ Hands' = Hands /\ AllLost' = AllLost
    BY DEF Waiting, Hands, AllLost
  <1>2. RoomInv'
    BY <1>1 DEF IInv, RoomInv
  <1>3. MadeInv' /\ PressInv'
    BY DEF IInv, MadeInv, PressInv
  <1>4. OrderInv'
    BY DEF IInv, OrderInv, OrderAt
  <1>5. KeptInv'
    <2>1. \A e \in Ent : Seen(e) \subseteq Seen(e)'
      BY DEF Seen
    <2> QED
      BY <2>1, StillKept DEF IInv
  <1>6. CountInv'
    BY <1>1 DEF IInv, CountInv, DropsCounted
  <1> QED
    BY <1>2, <1>3, <1>4, <1>5, <1>6

\* The types of what waits, one by one.
LEMMA Types ==
  ASSUME TypeOK, NEW e \in Ent
  PROVE  /\ pending[e] \in Seq(Report) /\ hand[e] \in Seq(Report)
         /\ received[e] \in Seq(Report) /\ lost[e] \subseteq Report /\ out \in Seq(Line)
         /\ pushed[e] \in 0 .. MaxReports /\ pushed[e] \in Nat
         /\ e \in Nat /\ e # 0 /\ OpLine \in Line /\ OpLine.e = 0
         /\ Report \subseteq Line /\ OpLine \notin Report
  <1>1. e \in Nat /\ e # 0
    BY QueueAssumption
  <1>2. OpLine.e = 0 /\ \A r \in Report : r.e # 0
    BY QueueAssumption DEF OpLine, Report
  <1> QED
    BY <1>1, <1>2, QueueAssumption DEF TypeOK, Line

\* What a report is made of.
LEMMA ReportTypes ==
  \A r \in Report : r.e \in Ent /\ r.e # 0 /\ r.n \in Nat /\ r.n \in 1 .. MaxReports
  BY QueueAssumption DEF Report

-----------------------------------------------------------------------------
(* One lemma per action                                                     *)

\* Tasks are woken, ask and end, and the loop goes on, and no report moves.
LEMMA QuietIInv ==
  ASSUME IInv, Wake \/ Ask \/ End \/ Look \/ Woken \/ ServeOp \/ SeeEnd \/ CutOff \/ TakeOp
               \/ Reserve
  PROVE  IInv'
  <1>1. UNCHANGED <<external, pending, pushed, hand, out, received, lost, dropped, counted>>
    BY DEF Wake, Ask, End, Look, Woken, ServeOp, SeeEnd, CutOff, TakeOp, Reserve, queue, env
  <1>2. TypeOK
    BY DEF IInv
  <1>3. waking' \in Nat /\ permit' \in BOOLEAN /\ task' \in {"up", "ended", "cut"}
    <2>1. waking' = waking \/ (waking > 0 /\ waking' = waking - 1)
      BY DEF Wake, Ask, End, Look, Woken, ServeOp,
       SeeEnd, CutOff, TakeOp, Reserve, queue, env
    <2>2. permit' = permit \/ permit' = TRUE \/ permit' = FALSE
      BY DEF Wake, Ask, End, Look, Woken, ServeOp,
       SeeEnd, CutOff, TakeOp, Reserve, queue, env
    <2>3. task' = task \/ task' = "ended" \/ task' = "cut"
      BY DEF Wake, Ask, End, Look, Woken, ServeOp,
       SeeEnd, CutOff, TakeOp, Reserve, queue, env
    <2>4. waking' \in Nat
      BY <1>2, <2>1 DEF TypeOK
    <2> QED
      BY <1>2, <2>2, <2>3, <2>4 DEF TypeOK
  <1>4. ops' \in 0 .. MaxOps /\ made' \in 0 .. MaxOps /\ ops' <= made'
    <2>1. \/ ops' = ops /\ made' = made
          \/ made < MaxOps /\ ops' = ops + 1 /\ made' = made + 1
          \/ ops > 0 /\ ops' = ops - 1 /\ made' = made
          \/ ops' = 0 /\ made' = made
      BY DEF Wake, Ask, End, Look, Woken, ServeOp,
       SeeEnd, CutOff, TakeOp, Reserve, queue, env
    <2>2. ops \in 0 .. MaxOps /\ made \in 0 .. MaxOps /\ ops <= made /\ MaxOps \in Nat
      BY <1>2, QueueAssumption DEF TypeOK, IInv, LoopInv
    <2> QED
      BY <2>1, <2>2
  <1>5. pc' \in PC
    BY <1>2 DEF TypeOK, PC, Wake, Ask, End, Look, Woken, ServeOp,
       SeeEnd, CutOff, TakeOp, Reserve, queue, env
  <1>6. TypeOK'
    BY <1>1, <1>2, <1>3, <1>4, <1>5 DEF TypeOK
  <1>7. LoopInv'
    <2>1. Waiting' = Waiting /\ Hands' = Hands
      BY <1>1 DEF Waiting, Hands
    <2>2. CASE Wake \/ Ask
      BY <1>1, <1>4, <2>1, <2>2 DEF Wake, Ask, queue, env, IInv, LoopInv
    <2>3. CASE End
      BY <1>1, <1>4, <2>1, <2>3 DEF End, IInv, LoopInv
    <2>4. CASE Look
      BY <1>1, <1>4, <2>1, <2>4 DEF Look, env, IInv, LoopInv
    <2>5. CASE Woken \/ ServeOp
      BY <1>1, <1>4, <2>1, <2>5 DEF Woken, ServeOp, env, IInv, LoopInv
    <2>6. CASE SeeEnd \/ CutOff
      BY <1>1, <1>4, <2>1, <2>6 DEF SeeEnd, CutOff, env, IInv, LoopInv
    <2>7. CASE TakeOp \/ Reserve
      BY <1>1, <1>4, <2>1, <2>7 DEF TakeOp, Reserve, env, IInv, LoopInv
    <2> QED
      BY <2>2, <2>3, <2>4, <2>5, <2>6, <2>7
  <1> QED
    BY <1>1, <1>6, <1>7, DataSame DEF IInv

\* The runner forgets how many were dropped.
LEMMA DiscardIInv ==
  ASSUME IInv, Discard
  PROVE  IInv'
  <1>1. /\ pc = "discard" /\ pc' = "pop" /\ dropped' = 0
        /\ UNCHANGED <<external, pending, permit, waking, pushed, task, made, ops, hand, out,
                      received, lost, counted>>
    BY DEF Discard, env
  <1>2. external
    BY <1>1 DEF IInv, LoopInv
  <1>3. TypeOK'
    BY <1>1 DEF IInv, TypeOK, PC
  <1>4. LoopInv'
    <2>1. Waiting' = Waiting /\ Hands' = Hands
      BY <1>1 DEF Waiting, Hands
    <2> QED
      BY <1>1, <1>2, <2>1 DEF IInv, LoopInv
  <1> QED
    BY <1>1, <1>2, <1>3, <1>4, DataSame DEF IInv

\* An operation's line goes past every report.
LEMMA SendOpIInv ==
  ASSUME IInv, SendOp
  PROVE  IInv'
  <1>1. /\ pc = "sendop" /\ pc' = "select" /\ out' = Append(out, OpLine) /\ Len(out) < Room
        /\ UNCHANGED <<external, pending, dropped, permit, waking, pushed, task, made, ops,
                      hand, received, lost, counted>>
    BY DEF SendOp, queue, env
  <1>2. external /\ TypeOK
    BY <1>1 DEF IInv, LoopInv
  <1>3. out \in Seq(Line) /\ OpLine \in Line /\ OpLine.e = 0
    BY <1>2 DEF TypeOK, Line, OpLine
  <1>4. /\ out' \in Seq(Line) /\ Len(out') = Len(out) + 1 /\ El(out') = El(out) \cup {OpLine}
        /\ Sorted(out) /\ Before(El(out), {OpLine}) => Sorted(out')
    BY <1>1, <1>3, AppendOK
  <1>5. TypeOK'
    <2>1. Len(out') <= Room
      BY <1>1, <1>3, <1>4, QueueAssumption
    <2> QED
      BY <1>1, <1>2, <1>4, <2>1 DEF TypeOK, PC, Line
  <1>6. Waiting' = Waiting /\ Hands' = Hands /\ AllLost' = AllLost
    BY <1>1 DEF Waiting, Hands, AllLost
  <1>7. LoopInv' /\ RoomInv'
    BY <1>1, <1>2, <1>6 DEF IInv, LoopInv, RoomInv
  <1>8. MadeInv' /\ PressInv'
    BY <1>1, <1>3, <1>4 DEF IInv, MadeInv, PressInv
  <1>9. OrderInv'
    <2>1. Sorted(out')
      BY <1>3, <1>4 DEF IInv, OrderInv, Before
    <2>2. ASSUME NEW e \in Ent PROVE OrderAt(e)'
      <3>1. OrderAt(e)
        BY DEF IInv, OrderInv
      <3> QED
        BY <1>1, <1>3, <1>4, <3>1 DEF OrderAt, Before
    <2> QED
      BY <2>1, <2>2 DEF OrderInv
  <1>10. KeptInv'
    <2>1. \A e \in Ent : Seen(e) \subseteq Seen(e)'
      BY <1>1, <1>4 DEF Seen
    <2> QED
      BY <1>1, <2>1, StillKept DEF IInv
  <1>11. CountInv'
    BY <1>1, <1>2, <1>6 DEF IInv, CountInv, DropsCounted
  <1> QED
    BY <1>5, <1>7, <1>8, <1>9, <1>10, <1>11 DEF IInv

\* All that waits is taken.
LEMMA DrainIInv ==
  ASSUME IInv, Drain
  PROVE  IInv'
  <1>1. /\ pc \in {"drain", "last"} /\ hand' = pending /\ pending' = [e \in Ent |-> <<>>]
        /\ pc' = IF pc = "drain" THEN "apply" ELSE "applylast"
        /\ UNCHANGED <<external, dropped, permit, waking, pushed, task, made, ops, out,
                      received, lost, counted>>
    BY DEF Drain, env
  <1>2. ~external /\ TypeOK /\ Hands = {}
    BY <1>1 DEF IInv, LoopInv
  <1>3. /\ <<>> \in Seq(Report) /\ Len(<<>>) = 0 /\ El(<<>>) = {} /\ Sorted(<<>>)
    <2>1. DOMAIN <<>> = {} /\ <<>> \in Seq(Report) /\ Len(<<>>) = 0
      OBVIOUS
    <2> QED
      BY <2>1 DEF El, Sorted
  <1>4. \A e \in Ent : pending'[e] = <<>> /\ hand[e] = <<>>
    BY <1>1, <1>2 DEF Hands
  <1>5. TypeOK'
    BY <1>1, <1>2, <1>3 DEF TypeOK, PC
  <1>6. Waiting' = {} /\ AllLost' = AllLost
    BY <1>1, <1>4 DEF Waiting, AllLost
  <1>7. LoopInv'
    BY <1>1, <1>2, <1>6 DEF IInv, LoopInv
  <1>8. RoomInv'
    <2>1. Cardinality({}) = 0
      BY FS_EmptySet
    <2> QED
      BY <1>1, <1>2, <1>3, <1>4, <1>6, <2>1, QueueAssumption DEF RoomInv
  <1>9. MadeInv' /\ PressInv'
    BY <1>1, <1>3, <1>4 DEF IInv, MadeInv, PressInv
  <1>10. OrderInv'
    <2>1. ASSUME NEW e \in Ent PROVE OrderAt(e)'
      <3>1. OrderAt(e)
        BY DEF IInv, OrderInv
      <3> QED
        BY <1>1, <1>3, <1>4, <3>1 DEF OrderAt, Before
    <2> QED
      BY <1>1, <2>1 DEF IInv, OrderInv
  <1>11. KeptInv'
    <2>1. \A e \in Ent : Seen(e) \subseteq Seen(e)'
      BY <1>1, <1>3, <1>4 DEF Seen
    <2> QED
      BY <1>1, <2>1, StillKept DEF IInv
  <1>12. CountInv'
    BY <1>1, <1>3, <1>4, <1>6 DEF IInv, CountInv, DropsCounted
  <1> QED
    BY <1>5, <1>7, <1>8, <1>9, <1>10, <1>11, <1>12 DEF IInv

\* ... and applied, with the count of what is missing.
LEMMA ApplyIInv ==
  ASSUME IInv, Apply
  PROVE  IInv'
  <1>1. /\ pc \in {"apply", "applylast"} /\ hand' = [e \in Ent |-> <<>>]
        /\ received' = [e \in Ent |-> received[e] \o hand[e]]
        /\ dropped' = 0 /\ counted' = counted + dropped
        /\ pc' = IF pc = "apply" THEN "select" ELSE "ended"
        /\ UNCHANGED <<external, pending, permit, waking, pushed, task, made, ops, out, lost>>
    BY DEF Apply, env
  <1>2. ~external /\ TypeOK /\ out = <<>>
    BY <1>1 DEF IInv, LoopInv
  <1>3. /\ <<>> \in Seq(Report) /\ Len(<<>>) = 0 /\ El(<<>>) = {} /\ Sorted(<<>>)
    <2>1. DOMAIN <<>> = {} /\ <<>> \in Seq(Report) /\ Len(<<>>) = 0
      OBVIOUS
    <2> QED
      BY <2>1 DEF El, Sorted
  <1>4. ASSUME NEW e \in Ent
        PROVE  /\ hand'[e] = <<>> /\ received'[e] \in Seq(Report)
               /\ El(received'[e]) = El(received[e]) \cup El(hand[e])
               /\ Sorted(received'[e])
    <2>1. OrderAt(e)
      BY DEF IInv, OrderInv
    <2>2. received'[e] = received[e] \o hand[e] /\ hand'[e] = <<>>
      BY <1>1
    <2>3. received[e] \in Seq(Report) /\ hand[e] \in Seq(Report)
      BY <1>2, Types
    <2> QED
      BY <2>1, <2>2, <2>3, JoinOK DEF OrderAt
  <1>5. UNCHANGED <<external, pending, pushed, out, lost>>
    BY <1>1
  <1>6. TypeOK'
    <2>1. counted' \in Nat /\ dropped' \in Nat
      BY <1>1, <1>2 DEF TypeOK
    <2>2. hand' \in [Ent -> Seq(Report)] /\ received' \in [Ent -> Seq(Report)]
      BY <1>1, <1>3, <1>4
    <2>3. pc' \in PC
      BY <1>1 DEF PC
    <2> QED
      BY <1>1, <1>2, <2>1, <2>2, <2>3 DEF TypeOK
  <1>7. Waiting' = Waiting /\ Hands' = {} /\ AllLost' = AllLost
    BY <1>1, <1>4 DEF Waiting, Hands, AllLost
  <1>8. LoopInv' /\ RoomInv'
    BY <1>1, <1>2, <1>7 DEF IInv, LoopInv, RoomInv
  <1>9. MadeInv' /\ PressInv'
    <2>1. \A e \in Ent : El(hand'[e]) = {}
      BY <1>3, <1>4
    <2>2. MadeInv'
      BY <1>4, <1>5, <2>1 DEF IInv, MadeInv
    <2>3. PressInv'
      BY <1>5, <2>1 DEF IInv, PressInv
    <2> QED
      BY <2>2, <2>3
  <1>10. OrderInv'
    <2>1. ASSUME NEW e \in Ent PROVE OrderAt(e)'
      <3>1. OrderAt(e)
        BY DEF IInv, OrderInv
      <3> QED
        BY <1>1, <1>2, <1>3, <1>4, <3>1 DEF OrderAt, Before
    <2> QED
      BY <1>1, <2>1 DEF IInv, OrderInv
  <1>11. KeptInv'
    <2>1. \A e \in Ent : Seen(e) \subseteq Seen(e)'
      BY <1>4, <1>5 DEF Seen
    <2> QED
      BY <1>5, <2>1, StillKept DEF IInv
  <1>12. CountInv'
    <2>1. dropped' + counted' = dropped + counted
      BY <1>1, <1>2 DEF TypeOK
    <2> QED
      BY <1>1, <1>7, <2>1 DEF IInv, CountInv, DropsCounted, AllLost
  <1> QED
    BY <1>6, <1>8, <1>9, <1>10, <1>11, <1>12 DEF IInv

\* The first of what waits is one of them.
LEMMA FirstOK ==
  ASSUME Waiting # {}
  PROVE  First \in Waiting
  <1> DEFINE R == OpToRel(<, Nat)
  <1>1. IsWellFoundedOn(R, Nat) /\ \A m, n \in Nat : m < n => <<m, n>> \in R
    BY NatLessThanWellFounded DEF OpToRel
  <1> HIDE DEF R
  <1>2. Waiting \subseteq Nat
    BY QueueAssumption DEF Waiting
  <1>3. PICK e \in Waiting : \A d \in Waiting : ~(<<d, e>> \in R)
    <2>1. IsWellFoundedOn(R, Nat)
      BY <1>1
    <2>2. \A T : T \subseteq Nat /\ T # {} => \E x \in T : \A y \in T : ~(<<y, x>> \in R)
      BY <2>1, WFMin
    <2> QED
      BY <1>2, <2>2
  <1>4. ASSUME NEW d \in Waiting PROVE e <= d
    <2>1. d \in Nat /\ e \in Nat /\ ~(d < e)
      BY <1>1, <1>2, <1>3
    <2> QED
      BY <2>1
  <1> QED
    BY <1>4 DEF First

\* What the runner's loop has in hand.
LEMMA HeldOK ==
  ASSUME IInv, pc \in {"offer", "restore"}
  PROVE  /\ external /\ TypeOK /\ Held \in Ent /\ Hands = {Held} /\ Len(hand[Held]) = 1
         /\ Head(hand[Held]) \in Report /\ El(hand[Held]) = {Head(hand[Held])}
         /\ Head(hand[Held]).e = Held
         /\ \A d \in Ent : d # Held => hand[d] = <<>>
  <1>1. PICK e \in Ent : Hands = {e} /\ Len(hand[e]) = 1
    BY DEF IInv, LoopInv
  <1>2. Held = e
    BY <1>1 DEF Held, Hands
  <1>3. external /\ TypeOK
    BY DEF IInv, LoopInv
  <1>4. Head(hand[Held]) \in Report /\ El(hand[Held]) = {Head(hand[Held])}
    BY <1>1, <1>2, <1>3, Types, LengthOne
  <1>5. Head(hand[Held]).e = Held
    BY <1>1, <1>2, <1>4 DEF IInv, MadeInv
  <1> QED
    BY <1>1, <1>2, <1>3, <1>4, <1>5 DEF Hands

\* The first report of the first entity is taken.
LEMMA PopIInv ==
  ASSUME IInv, Pop
  PROVE  IInv'
  <1>1. /\ pc = "pop"
        /\ UNCHANGED <<external, dropped, permit, waking, pushed, task, made, ops, out,
                      received, lost, counted>>
    BY DEF Pop, env
  <1>2. external /\ TypeOK /\ Hands = {}
    BY <1>1 DEF IInv, LoopInv
  <1>3. CASE pc' = "select" /\ UNCHANGED <<pending, hand>>
    <2>1. TypeOK'
      BY <1>1, <1>2, <1>3 DEF TypeOK, PC
    <2>2. Waiting' = Waiting /\ Hands' = Hands
      BY <1>3 DEF Waiting, Hands
    <2>3. LoopInv'
      BY <1>1, <1>2, <1>3, <2>2 DEF IInv, LoopInv
    <2> QED
      BY <1>1, <1>3, <2>1, <2>3, DataSame DEF IInv
  <1>4. CASE /\ Waiting # {} /\ pc' = "offer"
             /\ hand' = [hand EXCEPT ![First] = <<Head(pending[First])>>]
             /\ pending' = [pending EXCEPT ![First] = Tail(@)]
    <2>1. PICK f \in Ent : f = First /\ pending[f] # <<>> /\ f \in Waiting
      BY <1>4, FirstOK DEF Waiting
    <2> DEFINE r == Head(pending[f])
    <2>2. /\ Tail(pending[f]) \in Seq(Report) /\ Len(Tail(pending[f])) = Len(pending[f]) - 1
          /\ r \in Report /\ El(pending[f]) = El(Tail(pending[f])) \cup {r}
          /\ Len(pending[f]) \in Nat /\ Len(pending[f]) >= 1
          /\ Sorted(pending[f]) =>
                Sorted(Tail(pending[f])) /\ Before({r}, El(Tail(pending[f])))
      <3>1. pending[f] \in Seq(Report)
        BY <1>2, <2>1, Types
      <3>2. Len(pending[f]) \in Nat
        BY <3>1
      <3> QED
        BY <2>1, <3>1, <3>2, TailOK
    <2>3. /\ <<r>> \in Seq(Report) /\ Len(<<r>>) = 1 /\ El(<<r>>) = {r} /\ Sorted(<<r>>)
          /\ <<r>> # <<>> /\ El(<<>>) = {} /\ Len(<<>>) = 0
      BY <2>2, OneOK
    <2>4. /\ hand'[f] = <<r>> /\ pending'[f] = Tail(pending[f])
          /\ \A d \in Ent : d # f => hand'[d] = hand[d] /\ pending'[d] = pending[d]
          /\ \A d \in Ent : hand[d] = <<>>
      BY <1>2, <1>4, <2>1 DEF TypeOK, Hands
    <2>5. TypeOK'
      <3>1. hand' \in [Ent -> Seq(Report)] /\ pending' \in [Ent -> Seq(Report)]
        BY <1>2, <1>4, <2>1, <2>2, <2>3 DEF TypeOK
      <3>2. pc' \in PC
        BY <1>4 DEF PC
      <3> QED
        BY <1>1, <1>2, <3>1, <3>2 DEF TypeOK
    <2>6. Hands' = {f} /\ Waiting' \cup Hands' = Waiting \cup Hands /\ AllLost' = AllLost
      <3>1. Hands' = {f}
        BY <2>1, <2>3, <2>4 DEF Hands
      <3>2. \A d \in Ent : d # f => (d \in Waiting' <=> d \in Waiting)
        BY <2>4 DEF Waiting
      <3>3. Waiting' \subseteq Ent /\ Waiting \subseteq Ent
        BY DEF Waiting
      <3> QED
        BY <1>1, <1>2, <2>1, <3>1, <3>2, <3>3 DEF AllLost
    <2>7. LoopInv'
      BY <1>1, <1>2, <1>4, <2>1, <2>3, <2>4, <2>6 DEF IInv, LoopInv
    <2>8. RoomInv'
      <3>1. \A e \in Ent : Len(pending'[e]) + Len(hand'[e]) = Len(pending[e]) + Len(hand[e])
        <4> SUFFICES ASSUME NEW e \in Ent
                     PROVE  Len(pending'[e]) + Len(hand'[e]) = Len(pending[e]) + Len(hand[e])
          OBVIOUS
        <4>1. CASE e = f
          <5>1. /\ Len(pending'[e]) = Len(pending[f]) - 1 /\ Len(hand'[e]) = 1
                /\ Len(hand[e]) = 0 /\ Len(pending[f]) \in Nat
            BY <2>1, <2>2, <2>3, <2>4, <4>1
          <5> QED
            BY <4>1, <5>1
        <4>2. CASE e # f
          BY <2>4, <4>2
        <4> QED
          BY <4>1, <4>2
      <3> QED
        BY <1>1, <1>2, <2>6, <3>1 DEF IInv, RoomInv
    <2>9. /\ El(pending'[f]) \subseteq El(pending[f]) /\ El(hand'[f]) = {r}
          /\ r \in El(pending[f])
      BY <2>2, <2>3, <2>4
    <2>10. /\ \A d \in Ent : d # f => El(hand'[d]) = El(hand[d]) /\ El(pending'[d]) = El(pending[d])
           /\ El(hand[f]) = {}
      BY <2>1, <2>3, <2>4
    <2>11. UNCHANGED <<pushed, received, lost, out, external>>
      BY <1>1
    <2>12. MadeInv' /\ PressInv'
      BY <2>1, <2>9, <2>10, <2>11 DEF IInv, MadeInv, PressInv
    <2>13. OrderInv'
      <3>1. ASSUME NEW e \in Ent, e # f PROVE OrderAt(e)'
        BY <2>4, <2>11, <3>1 DEF IInv, OrderInv, OrderAt
      <3>2. OrderAt(f)'
        <4>1. OrderAt(f)
          BY <2>1 DEF IInv, OrderInv
        <4>2. Sorted(pending'[f]) /\ Sorted(hand'[f]) /\ Sorted(received'[f])
          BY <2>2, <2>3, <2>4, <2>11, <4>1 DEF OrderAt
        <4>3. Before(El(hand'[f]), El(pending'[f]))
          BY <2>2, <2>4, <2>9, <4>1 DEF OrderAt
        <4>4. /\ Before(El(received'[f]), El(out')) /\ Before(El(received'[f]), El(hand'[f]))
              /\ Before(El(received'[f]), El(pending'[f]))
          BY <2>9, <2>11, <4>1 DEF OrderAt, Before
        <4>5. Before(El(out'), El(hand'[f])) /\ Before(El(out'), El(pending'[f]))
          BY <2>9, <2>11, <4>1 DEF OrderAt, Before
        <4> QED
          BY <4>2, <4>3, <4>4, <4>5 DEF OrderAt
      <3>3. \A e \in Ent : OrderAt(e)'
        BY <3>1, <3>2
      <3>4. Sorted(out')
        BY <2>11 DEF IInv, OrderInv
      <3> QED
        BY <3>3, <3>4 DEF OrderInv
    <2>14. KeptInv'
      <3>1. \A e \in Ent :
               El(pending[e]) \cup El(hand[e]) \subseteq El(pending'[e]) \cup El(hand'[e])
        BY <2>2, <2>4, <2>9, <2>10
      <3>2. \A e \in Ent : Seen(e) \subseteq Seen(e)'
        BY <2>11, <3>1 DEF Seen
      <3> QED
        BY <2>11, <3>2, StillKept DEF IInv
    <2>15. CountInv'
      BY <1>1, <1>2, <2>6 DEF IInv, CountInv, DropsCounted
    <2> QED
      BY <2>5, <2>7, <2>8, <2>12, <2>13, <2>14, <2>15 DEF IInv
  <1> QED
    BY <1>3, <1>4 DEF Pop

\* The report in hand becomes a line, if there is room.
LEMMA OfferIInv ==
  ASSUME IInv, Offer
  PROVE  IInv'
  <1>1. /\ pc = "offer"
        /\ UNCHANGED <<external, pending, dropped, permit, waking, pushed, task, made, ops,
                      received, lost, counted>>
    BY DEF Offer, queue, env
  <1> DEFINE h == Held
             r == Head(hand[h])
  <1>2. /\ external /\ TypeOK /\ h \in Ent /\ Hands = {h} /\ Len(hand[h]) = 1
        /\ r \in Report /\ El(hand[h]) = {r} /\ r.e = h
        /\ \A d \in Ent : d # h => hand[d] = <<>>
    BY <1>1, HeldOK
  <1>3. CASE pc' = "restore" /\ UNCHANGED <<out, hand>>
    <2>1. TypeOK'
      BY <1>1, <1>2, <1>3 DEF TypeOK, PC
    <2>2. Waiting' = Waiting /\ Hands' = Hands
      BY <1>1, <1>3 DEF Waiting, Hands
    <2>3. LoopInv'
      BY <1>1, <1>2, <1>3, <2>2 DEF IInv, LoopInv
    <2> QED
      BY <1>1, <1>3, <2>1, <2>3, DataSame DEF IInv
  <1>4. CASE /\ Len(out) < Room /\ out' = Append(out, r) /\ pc' = "pop"
             /\ hand' = [hand EXCEPT ![h] = <<>>]
    <2>1. out \in Seq(Line) /\ r \in Line
      BY <1>2, Types DEF Line
    <2>2. /\ out' \in Seq(Line) /\ Len(out') = Len(out) + 1 /\ El(out') = El(out) \cup {r}
          /\ Sorted(out) /\ Before(El(out), {r}) => Sorted(out')
      BY <1>4, <2>1, AppendOK
    <2>3. \A d \in Ent : hand'[d] = <<>>
      BY <1>2, <1>4 DEF TypeOK
    <2>4. <<>> \in Seq(Report) /\ El(<<>>) = {} /\ Len(<<>>) = 0 /\ Sorted(<<>>)
      BY <1>2, OneOK
    <2>5. TypeOK'
      <3>1. hand' \in [Ent -> Seq(Report)]
        BY <1>2, <1>4, <2>4 DEF TypeOK
      <3>2. pc' \in PC
        BY <1>4 DEF PC
      <3>3. Len(out') <= Room
        BY <1>4, <2>1, <2>2, QueueAssumption
      <3> QED
        BY <1>1, <1>2, <2>2, <3>1, <3>2, <3>3 DEF TypeOK, Line
    <2>6. Hands' = {} /\ Waiting' = Waiting /\ AllLost' = AllLost
      BY <1>1, <2>3 DEF Hands, Waiting, AllLost
    <2>7. LoopInv'
      BY <1>1, <1>2, <1>4, <2>6 DEF IInv, LoopInv
    <2>8. RoomInv'
      <3>1. Cardinality(Waiting') <= Cardinality(Waiting \cup Hands)
        <4>1. IsFiniteSet(Waiting \cup Hands)
          BY QueueAssumption, FS_Subset DEF Waiting, Hands
        <4> QED
          BY <2>6, <4>1, FS_Subset
      <3>2. /\ Cardinality(Waiting \cup Hands) \in Nat /\ Cardinality(Waiting') \in Nat
        <4>1. IsFiniteSet(Waiting \cup Hands) /\ IsFiniteSet(Waiting')
          BY <2>6, QueueAssumption, FS_Subset DEF Waiting, Hands
        <4> QED
          BY <4>1, FS_CardinalityType
      <3>3. \A e \in Ent : Len(pending[e]) \in Nat /\ Len(hand[e]) \in Nat
        BY <1>2 DEF TypeOK
      <3>4. \A e \in Ent : Len(pending'[e]) + Len(hand'[e]) <= MaxPresses + 1
        <4>1. \A e \in Ent : Len(pending[e]) + Len(hand[e]) <= MaxPresses + 1
          BY <1>2 DEF IInv, RoomInv
        <4>2. \A e \in Ent : pending'[e] = pending[e] /\ Len(hand'[e]) = 0
          BY <1>1, <2>3, <2>4
        <4> SUFFICES ASSUME NEW e \in Ent
                     PROVE  Len(pending'[e]) + Len(hand'[e]) <= MaxPresses + 1
          OBVIOUS
        <4>3. /\ Len(pending'[e]) = Len(pending[e]) /\ Len(hand'[e]) = 0
          BY <4>2
        <4>4. \A a, b, m \in Nat : a + b <= m + 1 => a + 0 <= m + 1
          OBVIOUS
        <4>5. Len(pending[e]) + Len(hand[e]) <= MaxPresses + 1 /\ MaxPresses \in Nat
          BY <4>1, QueueAssumption
        <4> QED
          BY <3>3, <4>3, <4>4, <4>5
      <3>5. Cardinality(Waiting') <= MaxEntities + 1
        <4>1. Cardinality(Waiting \cup Hands) <= MaxEntities + 1
          BY <1>2 DEF IInv, RoomInv
        <4> QED
          BY <3>1, <3>2, <4>1, QueueAssumption
      <3>6. Waiting' \cup Hands' = Waiting' /\ external'
        BY <1>1, <1>2, <2>6
      <3> QED
        BY <3>4, <3>5, <3>6 DEF RoomInv
    <2>9. /\ UNCHANGED <<pushed, received, lost, pending, external>>
          /\ \A d \in Ent : El(hand'[d]) = {}
      BY <1>1, <2>3, <2>4
    <2>10. MadeInv' /\ PressInv'
      <3>1. r.n <= pushed[r.e]
        BY <1>2 DEF IInv, MadeInv
      <3> QED
        BY <2>2, <2>9, <3>1 DEF IInv, MadeInv, PressInv
    <2>11. OrderInv'
      <3>1. OrderAt(h)
        BY <1>2 DEF IInv, OrderInv
      <3>2. Sorted(out')
        BY <1>2, <2>2, <3>1 DEF IInv, OrderInv, OrderAt
      <3>3. ASSUME NEW e \in Ent PROVE OrderAt(e)'
        <4>1. OrderAt(e)
          BY DEF IInv, OrderInv
        <4>2. ASSUME e # h PROVE Before(El(received[e]), {r}) /\ Before({r}, El(pending[e]))
          BY <1>2, <4>2 DEF IInv, MadeInv, Before
        <4>3. Before(El(received[e]), {r}) /\ Before({r}, El(pending[e]))
          BY <1>2, <3>1, <4>2 DEF OrderAt
        <4> QED
          BY <2>2, <2>3, <2>4, <2>9, <4>1, <4>3 DEF OrderAt, Before
      <3> QED
        BY <3>2, <3>3 DEF OrderInv
    <2>12. KeptInv'
      <3>1. \A e \in Ent : El(hand[e]) \subseteq {q \in El(out') : q.e = e}
        BY <1>2, <2>2, <2>4
      <3>2. \A e \in Ent : Seen(e) \subseteq Seen(e)'
        BY <2>2, <2>9, <3>1 DEF Seen
      <3> QED
        BY <2>9, <3>2, StillKept DEF IInv
    <2>13. CountInv'
      BY <1>1, <1>2, <2>6 DEF IInv, CountInv, DropsCounted
    <2> QED
      BY <2>5, <2>7, <2>8, <2>10, <2>11, <2>12, <2>13 DEF IInv
  <1> QED
    BY <1>3, <1>4 DEF Offer

\* A report put back: a press ahead of the others, a value where nothing waits.
LEMMA PutBackOK ==
  ASSUME NEW s \in Seq(Report), NEW r \in Report
  PROVE  /\ PutBack(s, r) \in Seq(Report) /\ PutBack(s, r) # <<>>
         /\ Len(PutBack(s, r)) <= Len(s) + 1
         /\ El(s) \subseteq El(PutBack(s, r)) /\ El(PutBack(s, r)) \subseteq El(s) \cup {r}
         /\ r \in El(PutBack(s, r)) \/ (~r.press /\ El(s) # {})
         /\ Sorted(s) /\ Before({r}, El(s)) => Sorted(PutBack(s, r))
  <1>1. PICK o \in Seq(Report) : /\ o = <<r>> /\ Len(o) = 1 /\ El(o) = {r} /\ Sorted(o)
                                /\ o # <<>>
    BY OneOK
  <1>2. Len(s) \in Nat
    OBVIOUS
  <1>3. CASE r.press
    <2> DEFINE t == o \o s
    <2>1. /\ t \in Seq(Report) /\ Len(t) = 1 + Len(s) /\ El(t) = {r} \cup El(s)
          /\ Sorted(s) /\ Before({r}, El(s)) => Sorted(t)
      <3>1. /\ t \in Seq(Report) /\ Len(t) = Len(o) + Len(s) /\ El(t) = El(o) \cup El(s)
            /\ Sorted(o) /\ Sorted(s) /\ Before(El(o), El(s)) => Sorted(t)
        BY JoinOK
      <3> QED
        BY <1>1, <3>1
    <2>2. PutBack(s, r) = t
      BY <1>1, <1>3 DEF PutBack, IsOccurrence
    <2> HIDE DEF t
    <2>3. t # <<>>
      BY <2>1, EmptyOK
    <2> QED
      BY <1>2, <2>1, <2>2, <2>3
  <1>4. CASE ~r.press /\ s = <<>>
    <2>1. PutBack(s, r) = o
      BY <1>1, <1>4 DEF PutBack, IsOccurrence
    <2>2. El(s) = {} /\ Len(o) <= Len(s) + 1
      <3>1. El(s) = {}
        BY <1>4, EmptyOK
      <3>2. Len(o) = 1 /\ 1 <= Len(s) + 1
        BY <1>1, <1>2
      <3> QED
        BY <3>1, <3>2
    <2> QED
      BY <1>1, <2>1, <2>2
  <1>5. CASE ~r.press /\ s # <<>>
    <2>1. PutBack(s, r) = s
      BY <1>5 DEF PutBack, IsOccurrence
    <2> QED
      BY <1>2, <1>5, <2>1, EmptyOK
  <1> QED
    BY <1>3, <1>4, <1>5

\* There is no room: the report in hand goes back.
LEMMA RestoreIInv ==
  ASSUME IInv, Restore
  PROVE  IInv'
  <1>1. /\ pc = "restore" /\ pc' = "full"
        /\ UNCHANGED <<external, dropped, permit, waking, pushed, task, made, ops, out,
                      received, lost, counted>>
    BY DEF Restore, env
  <1>2. PICK h \in Ent : h = Held
    BY <1>1, HeldOK
  <1>3. PICK r \in Report : r = Head(hand[h])
    BY <1>1, <1>2, HeldOK
  <1>4. /\ external /\ TypeOK /\ Hands = {h} /\ Len(hand[h]) = 1 /\ El(hand[h]) = {r} /\ r.e = h
        /\ \A d \in Ent : d # h => hand[d] = <<>>
    BY <1>1, <1>2, <1>3, HeldOK
  <1>5. PICK t : t = PutBack(pending[h], r)
    OBVIOUS
  <1>6. /\ t \in Seq(Report) /\ t # <<>> /\ Len(t) <= Len(pending[h]) + 1
        /\ El(pending[h]) \subseteq El(t) /\ El(t) \subseteq El(pending[h]) \cup {r}
        /\ r \in El(t) \/ (~r.press /\ El(pending[h]) # {})
        /\ Sorted(pending[h]) /\ Before({r}, El(pending[h])) => Sorted(t)
    <2>1. pending[h] \in Seq(Report)
      BY <1>4, Types
    <2> QED
      BY <1>5, <2>1, PutBackOK
  <1>7. /\ pending' = [pending EXCEPT ![h] = t] /\ hand' = [hand EXCEPT ![h] = <<>>]
    BY <1>2, <1>3, <1>5 DEF Restore
  <1>8. <<>> \in Seq(Report) /\ El(<<>>) = {} /\ Len(<<>>) = 0 /\ Sorted(<<>>)
    BY OneOK
  <1>9. /\ pending'[h] = t /\ \A d \in Ent : d # h => pending'[d] = pending[d]
        /\ \A d \in Ent : hand'[d] = <<>>
    BY <1>4, <1>7 DEF TypeOK
  <1>10. TypeOK'
    <2>1. hand' \in [Ent -> Seq(Report)] /\ pending' \in [Ent -> Seq(Report)] /\ pc' \in PC
      BY <1>1, <1>4, <1>6, <1>7, <1>8 DEF TypeOK, PC
    <2> QED
      BY <1>1, <1>4, <2>1 DEF TypeOK
  <1>11. Hands' = {} /\ Waiting' = Waiting \cup Hands /\ AllLost' = AllLost
    <2>1. Hands' = {} /\ AllLost' = AllLost
      BY <1>1, <1>9 DEF Hands, AllLost
    <2>2. Waiting' = Waiting \cup {h}
      BY <1>6, <1>9 DEF Waiting
    <2> QED
      BY <1>4, <2>1, <2>2
  <1>12. LoopInv'
    BY <1>1, <1>4, <1>11 DEF IInv, LoopInv
  <1>13. RoomInv'
    <2> SUFFICES ASSUME NEW e \in Ent PROVE Len(pending'[e]) + Len(hand'[e]) <= MaxPresses + 1
      BY <1>1, <1>4, <1>11 DEF IInv, RoomInv
    <2>1. Len(pending[e]) + Len(hand[e]) <= MaxPresses + 1
      BY <1>4 DEF IInv, RoomInv
    <2>2. Len(pending[e]) \in Nat /\ Len(hand[e]) \in Nat /\ Len(t) \in Nat /\ MaxPresses \in Nat
      BY <1>4, <1>6, QueueAssumption DEF TypeOK
    <2>3. CASE e = h
      <3>1. Len(pending'[e]) = Len(t) /\ Len(hand'[e]) = 0 /\ Len(hand[e]) = 1
        BY <1>4, <1>8, <1>9, <2>3
      <3>2. Len(t) <= Len(pending[e]) + 1
        BY <1>6, <2>3
      <3>3. \A a, b, m \in Nat : a <= b + 1 /\ b + 1 <= m + 1 => a + 0 <= m + 1
        OBVIOUS
      <3>4. Len(pending[e]) + 1 <= MaxPresses + 1
        BY <2>1, <3>1
      <3> QED
        BY <2>2, <3>1, <3>2, <3>3, <3>4
    <2>4. CASE e # h
      <3>1. Len(pending'[e]) = Len(pending[e]) /\ hand'[e] = hand[e]
        BY <1>4, <1>9, <2>4
      <3> QED
        BY <2>1, <3>1
    <2> QED
      BY <2>3, <2>4
  <1>14. /\ UNCHANGED <<pushed, received, lost, out, external>>
         /\ \A d \in Ent : El(hand'[d]) = {}
    BY <1>1, <1>8, <1>9
  <1>15. MadeInv' /\ PressInv'
    <2>1. \A d \in Ent : El(pending'[d]) \subseteq El(pending[d]) \cup El(hand[d])
      BY <1>4, <1>6, <1>9
    <2>2. MadeInv'
      BY <1>14, <2>1 DEF IInv, MadeInv
    <2>3. PressInv'
      BY <1>14, <2>1 DEF IInv, PressInv
    <2> QED
      BY <2>2, <2>3
  <1>16. OrderInv'
    <2>1. Sorted(out')
      BY <1>14 DEF IInv, OrderInv
    <2>2. ASSUME NEW e \in Ent, e # h PROVE OrderAt(e)'
      <3>1. OrderAt(e) /\ hand'[e] = hand[e] /\ pending'[e] = pending[e]
        BY <1>4, <1>9, <2>2 DEF IInv, OrderInv
      <3> QED
        BY <1>14, <3>1 DEF OrderAt
    <2>3. OrderAt(h)'
      <3>1. OrderAt(h)
        BY DEF IInv, OrderInv
      <3>2. Sorted(pending'[h]) /\ Sorted(hand'[h]) /\ Sorted(received'[h])
        BY <1>4, <1>6, <1>8, <1>9, <1>14, <3>1 DEF OrderAt
      <3>3. /\ Before(El(received'[h]), El(out')) /\ Before(El(received'[h]), El(hand'[h]))
            /\ Before(El(out'), El(hand'[h])) /\ Before(El(hand'[h]), El(pending'[h]))
        BY <1>14, <3>1 DEF OrderAt, Before
      <3>4. Before(El(received'[h]), El(pending'[h])) /\ Before(El(out'), El(pending'[h]))
        BY <1>4, <1>6, <1>9, <1>14, <3>1 DEF OrderAt, Before
      <3> QED
        BY <3>2, <3>3, <3>4 DEF OrderAt
    <2>4. \A e \in Ent : OrderAt(e)'
      BY <2>2, <2>3
    <2> QED
      BY <2>1, <2>4 DEF OrderInv
  <1>17. KeptInv'
    <2>1. ASSUME NEW e \in Ent, NEW x \in Seen(e), x \notin Seen(e)'
          PROVE  x.n # pushed[e] /\ (~Nulls => e \notin Events)
      <3>1. e = h /\ x = r /\ r \notin El(t)
        BY <1>4, <1>6, <1>8, <1>9, <1>14, <2>1 DEF Seen
      <3>2. ~r.press /\ \E q \in El(pending[h]) : TRUE
        BY <1>6, <3>1
      <3>3. PICK q \in El(pending[h]) : TRUE
        BY <3>2
      <3>4. r.n < q.n /\ q.n <= pushed[h]
        <4>1. q.e = h /\ q.n <= pushed[h] /\ h # 0
          BY <1>4, <3>3, Types DEF IInv, MadeInv
        <4>2. Before({r}, El(pending[h]))
          BY <1>4 DEF IInv, OrderInv, OrderAt
        <4> QED
          BY <1>4, <3>3, <4>1, <4>2 DEF Before
      <3>5. r.n \in Nat /\ q.n \in Nat /\ pushed[h] \in Nat
        <4>1. pending[h] \in Seq(Report) /\ pushed[h] \in Nat
          BY <1>4, Types
        <4>2. q \in Report
          BY <3>3, <4>1 DEF El
        <4> QED
          BY <4>1, <4>2, ReportTypes
      <3>6. ~Nulls => h \notin Events
        BY <1>4, <3>2 DEF IInv, PressInv
      <3> QED
        BY <3>1, <3>4, <3>5, <3>6
    <2> QED
      BY <1>14, <2>1, StillKept DEF IInv
  <1>18. CountInv'
    BY <1>1, <1>4, <1>11 DEF IInv, CountInv, DropsCounted
  <1> QED
    BY <1>10, <1>12, <1>13, <1>15, <1>16, <1>17, <1>18 DEF IInv

\* The host reads a line.
LEMMA WriteIInv ==
  ASSUME IInv, Write
  PROVE  IInv'
  <1>1. /\ out # <<>> /\ out' = Tail(out)
        /\ UNCHANGED <<external, pending, dropped, permit, waking, pushed, task, made, ops,
                      pc, hand, lost, counted>>
    BY DEF Write, queue, env
  <1>2. external /\ TypeOK
    BY <1>1 DEF IInv, LoopInv
  <1>3. out \in Seq(Line) /\ Len(out) \in Nat
    BY <1>2 DEF TypeOK, Line
  <1>4. PICK l \in Line : l = Head(out)
    BY <1>1, <1>3, TailOK
  <1>5. /\ out' \in Seq(Line) /\ Len(out') = Len(out) - 1 /\ El(out) = El(out') \cup {l}
        /\ Sorted(out) => Sorted(out') /\ Before({l}, El(out'))
    BY <1>1, <1>3, <1>4, TailOK
  <1>6. Waiting' = Waiting /\ Hands' = Hands /\ AllLost' = AllLost
    BY <1>1 DEF Waiting, Hands, AllLost
  <1>7. LoopInv' /\ RoomInv'
    BY <1>1, <1>2, <1>6 DEF IInv, LoopInv, RoomInv
  <1>8. CountInv'
    BY <1>1, <1>2, <1>6 DEF IInv, CountInv, DropsCounted
  <1>9. PressInv'
    BY <1>1 DEF IInv, PressInv
  <1>10. Len(out') <= Room
    <2>1. Len(out) <= Room /\ Room \in Nat
      BY <1>2, QueueAssumption DEF TypeOK
    <2> QED
      BY <1>3, <1>5, <2>1
  <1>11. Sorted(out') /\ Before({l}, El(out'))
    BY <1>5 DEF IInv, OrderInv
  <1>12. CASE l = OpLine /\ received' = received
    <2>1. TypeOK'
      BY <1>1, <1>2, <1>5, <1>10, <1>12 DEF TypeOK, Line
    <2>2. MadeInv'
      BY <1>1, <1>5, <1>12 DEF IInv, MadeInv
    <2>3. OrderInv'
      <3>1. ASSUME NEW e \in Ent PROVE OrderAt(e)'
        <4>1. OrderAt(e)
          BY DEF IInv, OrderInv
        <4> QED
          BY <1>1, <1>5, <1>12, <4>1 DEF OrderAt, Before
      <3> QED
        BY <1>11, <3>1 DEF OrderInv
    <2>4. KeptInv'
      <3>1. \A e \in Ent : Seen(e) \subseteq Seen(e)'
        BY <1>1, <1>2, <1>5, <1>12, Types DEF Seen
      <3> QED
        BY <1>1, <3>1, StillKept DEF IInv
    <2> QED
      BY <1>7, <1>8, <1>9, <2>1, <2>2, <2>3, <2>4 DEF IInv
  <1>13. CASE l # OpLine /\ received' = [received EXCEPT ![l.e] = Append(@, l)]
    <2>1. l \in Report
      BY <1>4, <1>13 DEF Line
    <2>2. PICK d \in Ent : d = l.e
      BY <2>1, ReportTypes
    <2>3. PICK t : t = Append(received[d], l)
      OBVIOUS
    <2>4. OrderAt(d)
      BY DEF IInv, OrderInv
    <2>5. t \in Seq(Report) /\ El(t) = El(received[d]) \cup {l} /\ Sorted(t)
      <3>1. received[d] \in Seq(Report)
        BY <1>2, Types
      <3>2. Sorted(received[d]) /\ Before(El(received[d]), {l})
        BY <1>5, <2>4 DEF OrderAt, Before
      <3> QED
        BY <2>1, <2>3, <3>1, <3>2, AppendOK
    <2>6. received' = [received EXCEPT ![d] = t]
      BY <1>13, <2>2, <2>3
    <2>7. received'[d] = t /\ \A e \in Ent : e # d => received'[e] = received[e]
      BY <1>2, <2>6 DEF TypeOK
    <2>8. TypeOK'
      <3>1. received' \in [Ent -> Seq(Report)]
        BY <1>2, <2>5, <2>6 DEF TypeOK
      <3> QED
        BY <1>1, <1>2, <1>5, <1>10, <3>1 DEF TypeOK, Line
    <2>9. MadeInv'
      <3>1. l.n <= pushed[d]
        BY <1>5, <2>1, <2>2, ReportTypes DEF IInv, MadeInv
      <3>2. \A e \in Ent : \A r \in El(received'[e]) : r.e = e /\ r.n <= pushed'[e]
        BY <1>1, <2>2, <2>5, <2>7, <3>1 DEF IInv, MadeInv
      <3> QED
        BY <1>1, <1>5, <3>2 DEF IInv, MadeInv
    <2>10. OrderInv'
      <3>1. ASSUME NEW e \in Ent, e # d PROVE OrderAt(e)'
        <4>1. OrderAt(e) /\ received'[e] = received[e]
          BY <2>7, <3>1 DEF IInv, OrderInv
        <4> QED
          BY <1>1, <1>5, <4>1 DEF OrderAt, Before
      <3>2. OrderAt(d)'
        <4>1. Sorted(pending'[d]) /\ Sorted(hand'[d]) /\ Sorted(received'[d])
          BY <1>1, <2>4, <2>5, <2>7 DEF OrderAt
        <4>2. Before(El(received'[d]), El(out'))
          BY <1>5, <1>11, <2>4, <2>5, <2>7 DEF OrderAt, Before
        <4>3. /\ Before(El(received'[d]), El(hand'[d]))
              /\ Before(El(received'[d]), El(pending'[d]))
          BY <1>1, <1>5, <2>4, <2>5, <2>7 DEF OrderAt, Before
        <4>4. /\ Before(El(out'), El(hand'[d])) /\ Before(El(out'), El(pending'[d]))
              /\ Before(El(hand'[d]), El(pending'[d]))
          BY <1>1, <1>5, <2>4 DEF OrderAt, Before
        <4> QED
          BY <4>1, <4>2, <4>3, <4>4 DEF OrderAt
      <3>3. \A e \in Ent : OrderAt(e)'
        BY <3>1, <3>2
      <3> QED
        BY <1>11, <3>3 DEF OrderInv
    <2>11. KeptInv'
      <3>1. \A e \in Ent : El(received[e]) \subseteq El(received'[e])
        BY <2>5, <2>7
      <3>2. \A e \in Ent : \A r \in El(out) : r.e = e => r \in El(out') \/ r \in El(received'[e])
        BY <1>5, <2>2, <2>5, <2>7
      <3>3. \A e \in Ent : Seen(e) \subseteq Seen(e)'
        BY <1>1, <3>1, <3>2 DEF Seen
      <3> QED
        BY <1>1, <3>3, StillKept DEF IInv
    <2> QED
      BY <1>7, <1>8, <1>9, <2>8, <2>9, <2>10, <2>11 DEF IInv
  <1>14. received' = IF l = OpLine THEN received
                     ELSE [received EXCEPT ![l.e] = Append(@, l)]
    BY <1>4 DEF Write
  <1> QED
    BY <1>12, <1>13, <1>14

\* What a push makes of what waits, and whom it costs its place.
LEMMA QueuedOK ==
  ASSUME IInv, NEW e \in Ent, NEW r \in Report, r.e = e, r.n = pushed[e] + 1,
         NEW D, D = Displaced(r), NEW t,
         t = IF Refused(r) THEN pending[e] ELSE Queued(pending[e], r)
  PROVE  /\ t \in Seq(Report) /\ Sorted(t) /\ El(t) \subseteq El(pending[e]) \cup {r}
         /\ D \subseteq El(pending[e]) \cup {r} /\ D \cap El(t) = {} /\ r \in El(t) \cup D
         /\ D = {} \/ \E x \in Report : D = {x}
         /\ r.press => El(pending[e]) \subseteq El(t) \cup D
         /\ Len(t) <= MaxPresses \/ Len(t) <= Len(pending[e])
         /\ IF Refused(r) THEN t = pending[e] ELSE t # <<>>
  <1> DEFINE s == pending[e]
  <1>1. TypeOK /\ s \in Seq(Report) /\ Len(s) \in Nat /\ pushed[e] \in Nat
    BY Types DEF IInv
  <1>2. MaxPresses \in Nat /\ MaxPresses >= 1
    BY QueueAssumption
  <1>3. Sorted(s) /\ \A q \in El(s) : q.e = e /\ q.n <= pushed[e] /\ q \in Report /\ q.n \in Nat
    <2>1. \A q \in El(s) : q \in Report
      BY <1>1 DEF El
    <2>2. Sorted(s) /\ \A q \in El(s) : q.e = e /\ q.n <= pushed[e]
      BY DEF IInv, OrderInv, OrderAt, MadeInv
    <2> QED
      BY <2>1, <2>2, ReportTypes
  <1>4. r \notin El(s) /\ Before(El(s), {r})
    <2>1. \A q \in El(s) : q.n < r.n
      BY <1>1, <1>3
    <2> QED
      BY <1>1, <1>3, <2>1 DEF Before
  <1>5. CASE Refused(r)
    <2>1. D = {r} /\ t = s
      BY <1>5 DEF Displaced
    <2> QED
      BY <1>1, <1>3, <1>4, <1>5, <2>1
  <1>6. CASE ~Refused(r) /\ ~r.press
    <2>1. D = {} /\ t = <<r>>
      BY <1>6 DEF Displaced, Queued, IsOccurrence
    <2>2. /\ t \in Seq(Report) /\ Len(t) = 1 /\ El(t) = {r} /\ Sorted(t) /\ t # <<>>
      <3>1. PICK o : o = <<r>>
        OBVIOUS
      <3>2. /\ o \in Seq(Report) /\ Len(o) = 1 /\ El(o) = {r} /\ Sorted(o) /\ o # <<>>
        BY <3>1, OneOK
      <3>3. t = o
        BY <2>1, <3>1
      <3> QED
        BY <3>2, <3>3
    <2> QED
      BY <1>2, <1>6, <2>1, <2>2
  <1>7. CASE ~Refused(r) /\ r.press /\ Len(s) < MaxPresses
    <2>1. ~(Len(s) >= MaxPresses)
      BY <1>1, <1>2, <1>7
    <2>2. D = {} /\ t = Append(s, r)
      BY <1>7, <2>1 DEF Displaced, Queued, Squeezed, IsOccurrence
    <2>3. /\ t \in Seq(Report) /\ Len(t) = Len(s) + 1 /\ El(t) = El(s) \cup {r} /\ t # <<>>
          /\ Sorted(t)
      <3>1. PICK o : o = Append(s, r)
        OBVIOUS
      <3>2. /\ o \in Seq(Report) /\ Len(o) = Len(s) + 1 /\ El(o) = El(s) \cup {r}
            /\ o # <<>> /\ Sorted(o)
        BY <1>1, <1>3, <1>4, <3>1, AppendOK
      <3>3. t = o
        BY <2>2, <3>1
      <3> QED
        BY <3>2, <3>3
    <2>4. Len(t) <= MaxPresses
      BY <1>1, <1>2, <1>7, <2>3
    <2> QED
      BY <1>7, <2>2, <2>3, <2>4
  <1>8. CASE ~Refused(r) /\ r.press /\ Len(s) >= MaxPresses
    <2> DEFINE u == Tail(s)
               x == Head(s)
    <2>1. D = {x} /\ t = Append(u, r)
      BY <1>8 DEF Displaced, Queued, Squeezed, IsOccurrence
    <2>2. s # <<>>
      <3>1. Len(s) # 0
        BY <1>1, <1>2, <1>8
      <3>2. Len(<<>>) = 0
        OBVIOUS
      <3> QED
        BY <3>1, <3>2
    <2>3. /\ u \in Seq(Report) /\ Len(u) = Len(s) - 1 /\ x \in Report
          /\ El(s) = El(u) \cup {x} /\ x \in El(s) /\ Sorted(u) /\ Before({x}, El(u))
      BY <1>1, <1>3, <2>2, TailOK
    <2>4. x \notin El(u)
      <3>1. x.e = e /\ x.n \in Nat /\ e # 0
        BY <1>1, <1>3, <2>3, Types
      <3>2. x.e = x.e /\ x.e # 0 /\ ~(x.n < x.n)
        BY <3>1
      <3> QED
        BY <2>3, <3>2 DEF Before
    <2> HIDE DEF u, x
    <2>5. /\ t \in Seq(Report) /\ Len(t) = Len(u) + 1 /\ El(t) = El(u) \cup {r} /\ t # <<>>
          /\ Sorted(t)
      <3>1. Before(El(u), {r})
        BY <1>4, <2>3 DEF Before
      <3>2. PICK o : o = Append(u, r)
        OBVIOUS
      <3>3. /\ o \in Seq(Report) /\ Len(o) = Len(u) + 1 /\ El(o) = El(u) \cup {r}
            /\ o # <<>> /\ Sorted(o)
        BY <2>3, <3>1, <3>2, AppendOK
      <3>4. t = o
        BY <2>1, <3>2
      <3> QED
        BY <3>3, <3>4
    <2>6. Len(t) <= Len(s)
      BY <1>1, <2>3, <2>5
    <2>7. x # r
      BY <1>4, <2>3
    <2> QED
      BY <1>8, <2>1, <2>3, <2>4, <2>5, <2>6, <2>7
  <1> QED
    BY <1>1, <1>2, <1>5, <1>6, <1>7, <1>8

\* Where there is room for one more entity, there is room for it and one in hand.
LEMMA RoomLeft ==
  ASSUME IInv, NEW e \in Ent, NEW W \in SUBSET Ent,
         W = Waiting \/ (W = Waiting \cup {e} /\ Cardinality(Waiting) < MaxEntities)
                     \/ (W = Waiting \cup {e} /\ e \in Waiting)
  PROVE  /\ ~external => Cardinality(W) <= MaxEntities
         /\ external => Cardinality(W \cup Hands) <= MaxEntities + 1
  <1>1. Waiting \subseteq Ent /\ IsFiniteSet(Waiting) /\ Cardinality(Waiting) \in Nat
    <2>1. Waiting \subseteq Ent
      BY DEF Waiting
    <2> QED
      BY <2>1, QueueAssumption, FS_Subset, FS_CardinalityType
  <1>2. MaxEntities \in Nat
    BY QueueAssumption
  <1>3. CASE W = Waiting
    BY <1>3 DEF IInv, RoomInv
  <1>4. CASE W = Waiting \cup {e} /\ e \notin Waiting /\ Cardinality(Waiting) < MaxEntities
    <2>1. Cardinality(W) = Cardinality(Waiting) + 1 /\ IsFiniteSet(W)
      BY <1>1, <1>4, FS_AddElement
    <2>2. Cardinality(W) \in Nat /\ Cardinality(W) <= MaxEntities
      BY <1>1, <1>2, <1>4, <2>1
    <2>3. ASSUME external PROVE Cardinality(W \cup Hands) <= MaxEntities + 1
      <3>1. Hands = {} \/ \E d \in Ent : Hands = {d}
        BY <2>3 DEF IInv, LoopInv
      <3>2. CASE Hands = {}
        <4>1. W \cup Hands = W
          BY <3>2
        <4>2. Cardinality(W) <= MaxEntities + 1
          BY <1>2, <2>2
        <4> QED
          BY <4>1, <4>2
      <3>3. CASE \E d \in Ent : Hands = {d}
        <4>1. PICK d \in Ent : Hands = {d}
          BY <3>3
        <4>2. \/ Cardinality(W \cup {d}) = Cardinality(W) + 1
              \/ Cardinality(W \cup {d}) = Cardinality(W)
          <5>1. CASE d \in W
            <6>1. W \cup {d} = W
              BY <5>1
            <6> QED
              BY <6>1
          <5>2. CASE d \notin W
            BY <2>1, <5>2, FS_AddElement
          <5> QED
            BY <5>1, <5>2
        <4> QED
          BY <1>2, <2>2, <4>1, <4>2
      <3> QED
        BY <3>1, <3>2, <3>3
    <2> QED
      BY <2>2, <2>3
  <1>5. CASE W = Waiting \cup {e} /\ e \in Waiting
    <2>1. W = Waiting
      BY <1>5
    <2> QED
      BY <1>3, <2>1
  <1> QED
    BY <1>3, <1>4, <1>5

\* A task reports.
LEMMA PushIInv ==
  ASSUME IInv, NEW e \in Ent, NEW press \in BOOLEAN, press => e \in Events,
         ~press => e \notin Events \/ Nulls, Push(e, press)
  PROVE  IInv'
  <1>1. TypeOK /\ pushed[e] < MaxReports /\ pushed[e] \in Nat /\ MaxReports \in Nat
    BY Types, QueueAssumption DEF IInv, Push
  <1>2. PICK r \in Report : r = [e |-> e, n |-> pushed[e] + 1, press |-> press]
    <2>1. pushed[e] + 1 \in 1 .. MaxReports
      BY <1>1
    <2> QED
      BY <2>1 DEF Report
  <1>3. r.e = e /\ r.n = pushed[e] + 1 /\ r.press = press
    BY <1>2
  <1>4. PICK D : D = Displaced(r)
    OBVIOUS
  <1>5. PICK t : t = IF Refused(r) THEN pending[e] ELSE Queued(pending[e], r)
    OBVIOUS
  <1>6. /\ t \in Seq(Report) /\ Sorted(t) /\ El(t) \subseteq El(pending[e]) \cup {r}
        /\ D \subseteq El(pending[e]) \cup {r} /\ D \cap El(t) = {} /\ r \in El(t) \cup D
        /\ D = {} \/ \E x \in Report : D = {x}
        /\ r.press => El(pending[e]) \subseteq El(t) \cup D
        /\ Len(t) <= MaxPresses \/ Len(t) <= Len(pending[e])
        /\ IF Refused(r) THEN t = pending[e] ELSE t # <<>>
    BY <1>3, <1>4, <1>5, QueuedOK
  <1>7. /\ pushed' = [pushed EXCEPT ![e] = pushed[e] + 1] /\ waking' = waking + 1
        /\ dropped' = dropped + Cardinality(D) /\ lost' = [lost EXCEPT ![e] = @ \cup D]
        /\ task # "ended"
        /\ UNCHANGED <<external, permit, task, ops, made, pc, hand, out, received, counted>>
    BY <1>2, <1>4 DEF Push
  <1>8. pending' = [pending EXCEPT ![e] = t]
    <2>1. pending' = IF Refused(r) THEN pending ELSE [pending EXCEPT ![e] = Queued(@, r)]
      BY <1>2, <1>3 DEF Push
    <2>2. CASE Refused(r)
      <3>1. pending \in [Ent -> Seq(Report)]
        BY <1>1 DEF TypeOK
      <3> QED
        BY <1>5, <2>1, <2>2, <3>1
    <2>3. CASE ~Refused(r)
      BY <1>5, <2>1, <2>3
    <2> QED
      BY <2>2, <2>3
  <1>9. /\ pending'[e] = t /\ pushed'[e] = pushed[e] + 1 /\ lost'[e] = lost[e] \cup D
        /\ \A d \in Ent : d # e => /\ pending'[d] = pending[d] /\ pushed'[d] = pushed[d]
                                   /\ lost'[d] = lost[d]
    BY <1>1, <1>7, <1>8 DEF TypeOK
  <1>10. /\ El(pending[e]) \subseteq Report /\ D \subseteq Report
         /\ \A d \in Ent : pushed[d] \in Nat
    <2>1. pending[e] \in Seq(Report) /\ \A d \in Ent : pushed[d] \in Nat
      BY <1>1, Types
    <2>2. El(pending[e]) \subseteq Report
      BY <2>1 DEF El
    <2> QED
      BY <1>6, <2>1, <2>2
  <1>11. /\ IsFiniteSet(D) /\ Cardinality(D) \in Nat /\ (D = {} => Cardinality(D) = 0)
         /\ \A x : D = {x} => Cardinality(D) = 1
    <2>1. CASE D = {}
      <3>1. IsFiniteSet({}) /\ Cardinality({}) = 0
        BY FS_EmptySet
      <3> QED
        BY <2>1, <3>1
    <2>2. CASE \E x \in Report : D = {x}
      <3>1. PICK x \in Report : D = {x}
        BY <2>2
      <3>2. IsFiniteSet({x}) /\ Cardinality({x}) = 1
        BY FS_Singleton
      <3> QED
        BY <3>1, <3>2
    <2> QED
      BY <1>6, <2>1, <2>2
  <1>12. TypeOK'
    <2>1. /\ pending' \in [Ent -> Seq(Report)]
      BY <1>1, <1>6, <1>8 DEF TypeOK
    <2>2. pushed' \in [Ent -> 0 .. MaxReports]
      <3>1. pushed[e] + 1 \in 0 .. MaxReports
        BY <1>1
      <3> QED
        BY <1>1, <1>7, <3>1 DEF TypeOK
    <2>3. lost' \in [Ent -> SUBSET Report]
      BY <1>1, <1>7, <1>10 DEF TypeOK
    <2>4. waking' \in Nat /\ dropped' \in Nat
      BY <1>1, <1>7, <1>11 DEF TypeOK
    <2> QED
      BY <1>1, <1>7, <2>1, <2>2, <2>3, <2>4 DEF TypeOK
  <1>13. Hands' = Hands
    BY <1>7 DEF Hands
  <1>14. LoopInv'
    BY <1>7, <1>13 DEF IInv, LoopInv
  <1>15. RoomInv'
    <2>1. \/ Waiting' = Waiting
          \/ Waiting' = Waiting \cup {e} /\ Cardinality(Waiting) < MaxEntities
          \/ Waiting' = Waiting \cup {e} /\ e \in Waiting
      <3>1. CASE Refused(r)
        BY <1>6, <1>9, <3>1 DEF Waiting
      <3>2. CASE ~Refused(r)
        <4>1. Waiting' = Waiting \cup {e}
          BY <1>6, <1>9, <3>2 DEF Waiting
        <4>2. ~(Cardinality(Waiting) >= MaxEntities) \/ e \in Waiting
          BY <1>3, <3>2 DEF Refused
        <4>3. Cardinality(Waiting) \in Nat /\ MaxEntities \in Nat
          <5>1. IsFiniteSet(Waiting)
            BY QueueAssumption, FS_Subset DEF Waiting
          <5> QED
            BY <5>1, QueueAssumption, FS_CardinalityType
        <4> QED
          BY <4>1, <4>2, <4>3
      <3> QED
        BY <3>1, <3>2
    <2>2. /\ ~external => Cardinality(Waiting') <= MaxEntities
          /\ external => Cardinality(Waiting' \cup Hands) <= MaxEntities + 1
      <3>1. PICK W : W = Waiting'
        OBVIOUS
      <3>2. W \subseteq Ent
        BY <3>1 DEF Waiting
      <3> QED
        BY <2>1, <3>1, <3>2, RoomLeft
    <2>3. ASSUME NEW d \in Ent
          PROVE  /\ ~external => Len(pending'[d]) <= MaxPresses
                 /\ external => Len(pending'[d]) + Len(hand[d]) <= MaxPresses + 1
      <3>1. CASE d # e
        BY <1>9, <3>1 DEF IInv, RoomInv
      <3>2. CASE d = e
        <4>1. /\ Len(t) \in Nat /\ Len(pending[e]) \in Nat /\ Len(hand[e]) \in Nat
              /\ MaxPresses \in Nat
          BY <1>1, <1>6, QueueAssumption DEF TypeOK
        <4>2. Len(t) <= MaxPresses \/ Len(t) <= Len(pending[e])
          BY <1>6
        <4>3. ASSUME ~external PROVE Len(t) <= MaxPresses
          <5>1. Len(pending[e]) <= MaxPresses
            BY <4>3 DEF IInv, RoomInv
          <5> QED
            BY <4>1, <4>2, <5>1
        <4>4. ASSUME external PROVE Len(t) + Len(hand[e]) <= MaxPresses + 1
          <5>1. Len(pending[e]) + Len(hand[e]) <= MaxPresses + 1
            BY <4>4 DEF IInv, RoomInv
          <5>2. Len(hand[e]) <= 1
            <6>1. Hands = {} \/ \E f \in Ent : Hands = {f} /\ Len(hand[f]) = 1
              BY <4>4 DEF IInv, LoopInv
            <6>2. hand[e] = <<>> \/ Len(hand[e]) = 1
              BY <6>1 DEF Hands
            <6>3. Len(<<>>) = 0
              OBVIOUS
            <6>4. Len(hand[e]) = 0 \/ Len(hand[e]) = 1
              BY <6>2, <6>3
            <6>5. \A a : a = 0 \/ a = 1 => a <= 1
              OBVIOUS
            <6> QED
              BY <6>4, <6>5
          <5>3. \A a, b, c, m \in Nat :
                   (a <= m \/ a <= b) /\ b + c <= m + 1 /\ c <= 1 => a + c <= m + 1
            OBVIOUS
          <5> QED
            BY <4>1, <4>2, <5>1, <5>2, <5>3
        <4> QED
          BY <1>9, <3>2, <4>3, <4>4
      <3> QED
        BY <3>1, <3>2
    <2> QED
      BY <1>7, <1>13, <2>2, <2>3 DEF RoomInv
  <1>16. \A d \in Ent : pushed[d] <= pushed'[d]
    BY <1>1, <1>9, <1>10
  <1>17. MadeInv'
    <2>1. ASSUME NEW d \in Ent,
                 NEW q \in El(pending'[d]) \cup El(hand[d]) \cup El(received[d]) \cup lost'[d]
          PROVE  q.e = d /\ q.n <= pushed'[d]
      <3>1. \/ q \in El(pending[d]) \cup El(hand[d]) \cup El(received[d]) \cup lost[d]
            \/ d = e /\ q = r
        BY <1>6, <1>9
      <3>2. CASE d = e /\ q = r
        BY <1>1, <1>3, <1>9, <3>2
      <3>3. CASE q \in El(pending[d]) \cup El(hand[d]) \cup El(received[d]) \cup lost[d]
        <4>1. q.e = d /\ q.n <= pushed[d]
          BY <3>3 DEF IInv, MadeInv
        <4>2. q \in Report
          BY <1>1, <3>3, Types DEF El
        <4>3. q.n \in Nat /\ pushed'[d] \in Nat /\ pushed[d] \in Nat
          BY <1>1, <1>9, <1>10, <4>2, ReportTypes
        <4> QED
          BY <1>16, <4>1, <4>3
      <3> QED
        BY <3>1, <3>2, <3>3
    <2>2. ASSUME NEW q \in El(out), q.e # 0 PROVE q.n <= pushed'[q.e]
      <3>1. q \in Line /\ q # OpLine
        BY <1>1, <2>2, Types DEF El, OpLine, TypeOK, Line
      <3>2. q \in Report /\ q.e \in Ent /\ q.n \in Nat
        BY <3>1, ReportTypes DEF Line
      <3>3. q.n <= pushed[q.e] /\ pushed'[q.e] \in Nat /\ pushed[q.e] \in Nat
        BY <1>1, <1>9, <1>10, <2>2, <3>2 DEF IInv, MadeInv
      <3> QED
        BY <1>16, <3>2, <3>3
    <2> QED
      BY <1>7, <2>1, <2>2 DEF MadeInv
  <1>18. PressInv'
    <2>1. ~Nulls => (r.press <=> e \in Events)
      BY <1>3
    <2> QED
      BY <1>6, <1>7, <1>9, <2>1 DEF IInv, PressInv
  <1>19. OrderInv'
    <2>1. Sorted(out')
      BY <1>7 DEF IInv, OrderInv
    <2>2. ASSUME NEW d \in Ent, d # e PROVE OrderAt(d)'
      <3>1. OrderAt(d) /\ pending'[d] = pending[d]
        BY <1>9, <2>2 DEF IInv, OrderInv
      <3> QED
        BY <1>7, <3>1 DEF OrderAt
    <2>3. OrderAt(e)'
      <3>1. OrderAt(e)
        BY DEF IInv, OrderInv
      <3>2. ASSUME NEW q \in El(received[e]) \cup El(hand[e]) \cup El(out), q.e = r.e
            PROVE  q.n < r.n
        <4>1. q.e = e /\ e # 0
          BY <1>1, <1>3, <3>2, Types
        <4>2. q.n <= pushed[e]
          BY <4>1 DEF IInv, MadeInv
        <4>3. q \in Line /\ q # OpLine
          BY <1>1, <3>2, <4>1, Types DEF El, OpLine, Line
        <4>4. q.n \in Nat
          BY <4>3, ReportTypes DEF Line
        <4> QED
          BY <1>1, <1>3, <4>2, <4>4
      <3>3. /\ Before(El(received'[e]), El(pending'[e])) /\ Before(El(out'), El(pending'[e]))
            /\ Before(El(hand'[e]), El(pending'[e]))
        BY <1>6, <1>7, <1>9, <3>1, <3>2 DEF OrderAt, Before
      <3>4. Sorted(pending'[e])
        BY <1>6, <1>9
      <3> QED
        BY <1>7, <3>1, <3>3, <3>4 DEF OrderAt
    <2>4. \A d \in Ent : OrderAt(d)'
      BY <2>2, <2>3
    <2> QED
      BY <2>1, <2>4 DEF OrderInv
  <1>20. KeptInv'
    <2>1. \A d \in Ent : d # e => Seen(d) \subseteq Seen(d)'
      BY <1>7, <1>9 DEF Seen
    <2>2. r \in Seen(e)'
      BY <1>6, <1>9 DEF Seen
    <2>3. press => Seen(e) \subseteq Seen(e)'
      BY <1>3, <1>6, <1>7, <1>9 DEF Seen
    <2>4. NewestKept'
      <3> SUFFICES ASSUME NEW d \in Ent, pushed'[d] > 0
                   PROVE  \E q \in Seen(d)' : q.n = pushed'[d]
        BY SeenNext DEF NewestKept
      <3>1. CASE d = e
        BY <1>3, <1>9, <2>2, <3>1
      <3>2. CASE d # e
        <4>1. pushed'[d] = pushed[d]
          BY <1>9, <3>2
        <4>2. \E q \in Seen(d) : q.n = pushed[d]
          BY <4>1, SeenIs DEF IInv, KeptInv, NewestKept
        <4> QED
          BY <2>1, <3>2, <4>1, <4>2
      <3> QED
        BY <3>1, <3>2
    <2>5. ASSUME ~Nulls PROVE PressesKept'
      <3>1. \A d \in Events : \A n \in 1 .. pushed[d] : \E q \in Seen(d) : q.n = n
        BY <2>5, SeenIs DEF IInv, KeptInv, PressesKept
      <3>2. ASSUME NEW d \in Events, NEW n \in 1 .. pushed'[d]
            PROVE  \E q \in Seen(d)' : q.n = n
        <4>1. d \in Ent
          BY QueueAssumption
        <4>2. CASE d # e
          <5>1. n \in 1 .. pushed[d]
            BY <1>9, <4>1, <4>2
          <5>2. \E q \in Seen(d) : q.n = n
            BY <3>1, <5>1
          <5> QED
            BY <2>1, <4>1, <4>2, <5>2
        <4>3. CASE d = e
          <5>1. press
            BY <2>5, <4>3
          <5>2. n = r.n \/ n \in 1 .. pushed[e]
            BY <1>1, <1>3, <1>9, <4>3
          <5>3. n \in 1 .. pushed[e] => \E q \in Seen(e) : q.n = n
            BY <3>1, <4>3
          <5> QED
            BY <2>2, <2>3, <4>3, <5>1, <5>2, <5>3
        <4> QED
          BY <4>2, <4>3
      <3> QED
        BY <3>2, SeenNext DEF PressesKept
    <2> QED
      BY <2>4, <2>5 DEF KeptInv
  <1>21. CountInv'
    <2>1. AllLost' = AllLost \cup D
      BY <1>9 DEF AllLost
    <2>2. IsFiniteSet(AllLost) /\ (~external => DropsCounted)
      BY DEF IInv, CountInv
    <2>3. ASSUME ~external PROVE D \cap AllLost = {}
      <3>1. ASSUME NEW x \in D, NEW d \in Ent, x \in lost[d] PROVE FALSE
        <4>1. x.e = d /\ x.n <= pushed[d] /\ x \in Report /\ x.n \in Nat
          BY <1>10, <3>1, ReportTypes DEF IInv, MadeInv
        <4>2. x.e = e
          BY <1>3, <1>6, <3>1 DEF IInv, MadeInv
        <4>3. x # r
          BY <1>1, <1>3, <4>1, <4>2
        <4>4. x \in El(pending[e])
          BY <1>6, <3>1, <4>3
        <4> QED
          BY <2>3, <3>1, <4>1, <4>2, <4>4 DEF IInv, CountInv
      <3> QED
        BY <3>1 DEF AllLost
    <2>4. IsFiniteSet(AllLost')
      BY <1>11, <2>1, <2>2, FS_Union
    <2>5. ASSUME ~external PROVE DropsCounted'
      <3>1. Cardinality(AllLost) = dropped + counted /\ dropped \in Nat /\ counted \in Nat
        BY <1>1, <2>2, <2>5 DEF DropsCounted, AllLost, TypeOK
      <3>2. Cardinality(AllLost') = Cardinality(AllLost) + Cardinality(D)
        <4>1. CASE D = {}
          <5>1. AllLost' = AllLost
            BY <2>1, <4>1
          <5> QED
            BY <1>11, <3>1, <4>1, <5>1
        <4>2. CASE D # {}
          <5>1. PICK x \in Report : D = {x}
            BY <1>6, <4>2
          <5>2. x \notin AllLost
            BY <2>3, <2>5, <5>1
          <5>3. Cardinality(AllLost \cup {x}) = Cardinality(AllLost) + 1
            BY <2>2, <5>2, FS_AddElement
          <5> QED
            BY <1>11, <2>1, <5>1, <5>3
        <4> QED
          BY <4>1, <4>2
      <3>3. Cardinality(AllLost') = dropped' + counted'
        BY <1>7, <1>11, <3>1, <3>2
      <3> QED
        BY <3>3 DEF DropsCounted, AllLost
    <2>6. ASSUME ~external, NEW d \in Ent PROVE El(pending'[d]) \cap lost'[d] = {}
      <3>1. El(pending[d]) \cap lost[d] = {}
        BY <2>6 DEF IInv, CountInv
      <3>2. CASE d = e
        <4>1. r \notin lost[e]
          BY <1>1, <1>3 DEF IInv, MadeInv
        <4> QED
          BY <1>6, <1>9, <3>1, <3>2, <4>1
      <3>3. CASE d # e
        BY <1>9, <3>1, <3>3
      <3> QED
        BY <3>2, <3>3
    <2>7. external => DropsCounted'
      BY <1>7 DEF DropsCounted
    <2> QED
      BY <1>7, <2>4, <2>5, <2>6, <2>7 DEF CountInv
  <1> QED
    BY <1>12, <1>14, <1>15, <1>17, <1>18, <1>19, <1>20, <1>21 DEF IInv

-----------------------------------------------------------------------------
(* The invariant, and what follows                                          *)

\* At first nothing is reported, and nothing waits.
LEMMA InitIInv == Init => IInv
  <1> SUFFICES ASSUME Init PROVE IInv
    OBVIOUS
  <1>1. \A e \in Ent : /\ pending[e] = <<>> /\ hand[e] = <<>> /\ received[e] = <<>>
                       /\ lost[e] = {} /\ pushed[e] = 0
    BY DEF Init
  <1>2. El(<<>>) = {} /\ Sorted(<<>>) /\ <<>> \in Seq(Report) /\ <<>> \in Seq(Line) /\ Len(<<>>) = 0
    BY OneOK DEF El, Sorted
  <1>3. Waiting = {} /\ Hands = {} /\ AllLost = {} /\ UNION {lost[e] : e \in Ent} = {}
    BY <1>1 DEF Waiting, Hands, AllLost
  <1>4. IsFiniteSet({}) /\ Cardinality({}) = 0
    BY FS_EmptySet
  <1>5. TypeOK
    <2>1. /\ MaxEntities \in Nat /\ MaxPresses \in Nat /\ Room \in Nat
          /\ MaxReports \in Nat /\ MaxOps \in Nat
      BY QueueAssumption
    <2>2. pushed \in [Ent -> 0 .. MaxReports] /\ ops \in 0 .. MaxOps /\ made \in 0 .. MaxOps
      BY <2>1 DEF Init
    <2>3. out \in Seq(Report \cup {OpLine}) /\ Len(out) <= Room
      BY <1>2, <2>1 DEF Init, Line
    <2> QED
      BY <1>2, <2>2, <2>3 DEF Init, TypeOK, PC
  <1>6. LoopInv
    BY <1>3 DEF Init, LoopInv
  <1>7. RoomInv
    <2>1. MaxEntities \in Nat /\ MaxPresses \in Nat
      BY QueueAssumption
    <2>2. Waiting \cup Hands = {}
      BY <1>3
    <2>3. 0 <= MaxEntities /\ 0 <= MaxEntities + 1 /\ 0 <= MaxPresses /\ 0 + 0 <= MaxPresses + 1
      BY <2>1
    <2> QED
      BY <1>1, <1>2, <1>3, <1>4, <2>2, <2>3 DEF RoomInv
  <1>8. MadeInv /\ PressInv
    BY <1>1, <1>2 DEF Init, MadeInv, PressInv
  <1>9. OrderInv
    BY <1>1, <1>2 DEF Init, OrderInv, OrderAt, Before
  <1>10. KeptInv
    <2>1. NewestKept
      BY <1>1 DEF NewestKept
    <2>2. PressesKept
      <3>1. \A e \in Events : 1 .. pushed[e] = {}
        BY <1>1, QueueAssumption
      <3> QED
        BY <3>1 DEF PressesKept
    <2> QED
      BY <2>1, <2>2 DEF KeptInv
  <1>11. CountInv
    <2>1. dropped + counted = 0
      BY DEF Init
    <2>2. DropsCounted
      BY <1>3, <1>4, <2>1 DEF DropsCounted
    <2> QED
      BY <1>1, <1>2, <1>3, <1>4, <2>2 DEF CountInv
  <1> QED
    BY <1>5, <1>6, <1>7, <1>8, <1>9, <1>10, <1>11 DEF IInv

\* Every step, of a task, of a loop or of the pipe.
LEMMA NextIInv == IInv /\ [Next]_vars => IInv'
  <1> SUFFICES ASSUME IInv, [Next]_vars PROVE IInv'
    OBVIOUS
  <1>1. CASE \E e \in Ent, press \in BOOLEAN :
               /\ press => e \in Events
               /\ ~press => e \notin Events \/ Nulls
               /\ Push(e, press)
    BY <1>1, PushIInv
  <1>2. CASE Wake \/ Ask \/ End \/ CutOff \/ Look \/ Woken \/ ServeOp \/ SeeEnd \/ TakeOp \/ Reserve
    BY <1>2, QuietIInv
  <1>3. CASE Drain \/ Apply
    BY <1>3, DrainIInv, ApplyIInv
  <1>4. CASE SendOp \/ Discard
    BY <1>4, SendOpIInv, DiscardIInv
  <1>5. CASE Pop \/ Offer \/ Restore
    BY <1>5, PopIInv, OfferIInv, RestoreIInv
  <1>6. CASE Write
    BY <1>6, WriteIInv
  <1>7. CASE UNCHANGED vars
    <2>1. /\ Waiting' = Waiting /\ Hands' = Hands
          /\ UNCHANGED <<external, pending, pushed, hand, out, received, lost, dropped, counted>>
      BY <1>7 DEF vars, Waiting, Hands
    <2>2. TypeOK' /\ LoopInv'
      BY <1>7, <2>1 DEF vars, IInv, TypeOK, LoopInv
    <2> QED
      BY <2>1, <2>2, DataSame DEF IInv
  <1> QED
    BY <1>1, <1>2, <1>3, <1>4, <1>5, <1>6, <1>7 DEF Next, Loop

\* The conjuncts of IInv hold of every behaviour.
THEOREM Invariance == Spec => []IInv
  BY InitIInv, NextIInv, PTL DEF Spec

\* However pushes, the report put back and the loop are interleaved, what waits
\* stays within MAX_PENDING_ENTITIES and MAX_PENDING_OCCURRENCES, but for the one
\* report restore_if_absent puts back unseen, and the lines within STDOUT_QUEUE.
THEOREM WithinLimits == Spec => []QueueOK
  <1>1. IInv => QueueOK
    <2> SUFFICES ASSUME IInv PROVE QueueOK
      OBVIOUS
    <2>1. TypeOK
      BY DEF IInv
    <2>2. /\ MaxEntities \in Nat /\ MaxPresses \in Nat
          /\ \A e \in Ent : Len(pending[e]) \in Nat /\ Len(hand[e]) \in Nat
      BY <2>1, QueueAssumption DEF TypeOK
    <2>3. ASSUME ~external PROVE Bounded
      <3>1. MaxEntities + 0 = MaxEntities /\ MaxPresses + 0 = MaxPresses
        BY <2>2
      <3>2. /\ Cardinality(Waiting) <= MaxEntities
            /\ \A e \in Ent : Len(pending[e]) <= MaxPresses
        BY <2>3 DEF IInv, RoomInv
      <3> QED
        BY <2>3, <3>1, <3>2 DEF Bounded
    <2>4. ASSUME external PROVE Bounded
      <3> DEFINE S == Waiting \cup Hands
      <3>1. IsFiniteSet(S) /\ Waiting \subseteq S
        BY QueueAssumption, FS_Subset DEF Waiting, Hands
      <3>2. IsFiniteSet(Waiting) /\ Cardinality(Waiting) <= Cardinality(S)
        BY <3>1, FS_Subset
      <3>3. Cardinality(Waiting) \in Nat /\ Cardinality(S) \in Nat
        BY <3>1, <3>2, FS_CardinalityType
      <3>4. Cardinality(S) <= MaxEntities + 1
        BY <2>4 DEF IInv, RoomInv
      <3> HIDE DEF S
      <3>5. Cardinality(Waiting) <= MaxEntities + 1
        BY <2>2, <3>2, <3>3, <3>4
      <3>6. \A e \in Ent : Len(pending[e]) + Len(hand[e]) <= MaxPresses + 1
        BY <2>4 DEF IInv, RoomInv
      <3>7. \A e \in Ent : Len(pending[e]) <= MaxPresses + 1
        <4>1. \A a, b, m \in Nat : a + b <= m + 1 => a <= m + 1
          OBVIOUS
        <4> QED
          BY <2>2, <3>6, <4>1
      <3> QED
        BY <2>4, <3>5, <3>7 DEF Bounded
    <2> QED
      BY <2>1, <2>3, <2>4 DEF QueueOK
  <1> QED
    BY <1>1, Invariance, PTL

\* What the core has heard of an entity is in the order it was said, and the
\* newest report is on its way or there, unless there was no room for it: of any
\* entity, also of an event that is reported to have no value.
THEOREM OrderAndNewest == Spec => [](InOrder /\ NewestKept)
  <1>1. IInv => InOrder /\ NewestKept
    <2> SUFFICES ASSUME IInv PROVE InOrder /\ NewestKept
      OBVIOUS
    <2>1. ASSUME NEW e \in Ent, NEW i \in DOMAIN received[e], NEW j \in DOMAIN received[e], i < j
          PROVE  received[e][i].n < received[e][j].n
      <3>1. received[e][i] \in El(received[e]) /\ received[e][j] \in El(received[e])
        BY DEF El
      <3>2. received[e][i].e = e /\ received[e][j].e = e /\ e # 0
        BY <3>1, Types DEF IInv, MadeInv
      <3>3. Sorted(received[e])
        BY DEF IInv, OrderInv, OrderAt
      <3> QED
        BY <2>1, <3>2, <3>3 DEF Sorted
    <2> QED
      BY <2>1 DEF InOrder, IInv, KeptInv
  <1> QED
    BY <1>1, Invariance, PTL

\* "Each one counts": when an event is never reported to have no value, no press
\* goes missing either, whatever is popped, put back and squeezed out meanwhile.
THEOREM NothingMissing == ASSUME Nulls = FALSE PROVE Spec => []ReportsKept
  <1>1. IInv => PressesKept
    BY DEF IInv, KeptInv
  <1>2. [](InOrder /\ NewestKept) /\ []PressesKept => []ReportsKept
    <2>1. InOrder /\ NewestKept /\ PressesKept => ReportsKept
      BY DEF ReportsKept
    <2> QED
      BY <2>1, PTL
  <1> QED
    BY <1>1, <1>2, Invariance, OrderAndNewest, PTL

\* The core is told of every report of a built-in that is dropped, each once, and
\* when a protocol has ended by itself nothing it said is left behind.
THEOREM EveryDropTold == Spec => []NoneUncounted
  <1>1. IInv => NoneUncounted
    <2> SUFFICES ASSUME IInv PROVE NoneUncounted
      OBVIOUS
    <2>1. DropsCounted
      BY DEF IInv, CountInv
    <2>2. ASSUME pc = "ended", task = "ended"
          PROVE  dropped = 0 /\ \A e \in Ent : OnTheWay(e) = {}
      <3>1. /\ ~external /\ out = <<>> /\ dropped = 0 /\ Waiting = {} /\ Hands = {}
        BY <2>2 DEF IInv, LoopInv
      <3>2. \A e \in Ent : pending[e] = <<>> /\ hand[e] = <<>>
        BY <3>1 DEF Waiting, Hands
      <3>3. DOMAIN <<>> = {}
        OBVIOUS
      <3> QED
        BY <3>1, <3>2, <3>3 DEF OnTheWay
    <2> QED
      BY <2>1, <2>2 DEF NoneUncounted, LastWords
  <1> QED
    BY <1>1, Invariance, PTL
=============================================================================
