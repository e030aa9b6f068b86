------------------------- MODULE ServiceCallsProofs -------------------------
(***************************************************************************)
(* Proofs about ServiceCalls, for any callers, locks and bounds: one call  *)
(* at a time although the lock leaves the map, nothing left behind by a    *)
(* call that never went out, and toggles that cancel out.                  *)
(***************************************************************************)
EXTENDS ServiceCalls, FiniteSetTheorems, SequenceTheorems, TLAPS

\* Everyone who has yet to give back the lock has the one in the map.
Needs(t) == th[t].pc \in Busy \cup {"wait", "idle?"}
LockInv ==
    \A t \in Task :
        /\ th[t].pc # "idle" => th[t].lock # None
        /\ Needs(t) => th[t].lock = busy

\* Whoever is at work on a call has the turn of that lock.
TurnInv == \A t \in Task : th[t].pc \in Busy => turn[th[t].lock] = t

\* A context is that of one call, and among the recent calls once, not before the call
\* is recorded.
ContextInv ==
    /\ \A t \in Task : th[t].pc # "idle" => th[t].ctx \in 1..calls
    /\ \A s, t \in Task : th[s].pc # "idle" /\ th[t].pc # "idle" /\ th[s].ctx = th[t].ctx => s = t
    /\ \A i \in DOMAIN recent : recent[i] <= calls
    /\ \A i, j \in DOMAIN recent : recent[i] = recent[j] => i = j
    /\ \A t \in Task : th[t].pc \in {"wait", "resolve", "record"} =>
         \A i \in DOMAIN recent : recent[i] # th[t].ctx

\* What the home remembers of a command is what the call being sent wants, or what the
\* last delivered one wanted, as long as nothing was reported since.
OnItsWay(t) == th[t].pc \in {"check", "send"}
CommandInv ==
    fresh =>
        /\ \A t \in Task : OnItsWay(t) => commanded = th[t].want
        /\ told # None => commanded = told \/ \E t \in Task : OnItsWay(t)

IInv == TypeOK /\ LockInv /\ TurnInv /\ ContextInv /\ LeavesNothing /\ CommandInv

-----------------------------------------------------------------------------
\* A step of a call to its next await changes that call's place and nothing else.
LEMMA GotoOK ==
  ASSUME th \in [Task -> Caller], NEW t \in Task, NEW p, Goto(t, p),
         p \in Busy \cup {"idle", "wait", "idle?", "left"}
  PROVE  /\ th' \in [Task -> Caller]
         /\ th'[t].pc = p /\ th'[t].lock = th[t].lock /\ th'[t].ctx = th[t].ctx
         /\ th'[t].want = th[t].want
         /\ \A s \in Task : s # t => th'[s] = th[s]
  <1>1. th' = [th EXCEPT ![t] = [th[t] EXCEPT !.pc = p]]
    BY DEF Goto
  <1>2. [th[t] EXCEPT !.pc = p] \in Caller
    BY DEF Caller
  <1> QED
    BY <1>1, <1>2 DEF Caller

\* What is recorded of a call (record_call): the recent ones, the oldest of them perhaps
\* gone, and the call.
LEMMA RecordedOK ==
  ASSUME NEW c \in 1..MaxCalls, recent \in Seq(1..MaxCalls), Len(recent) <= MaxRecent
  PROVE  /\ Recorded(c) \in Seq(1..MaxCalls) /\ Len(Recorded(c)) <= MaxRecent
         /\ \A i \in DOMAIN Recorded(c) :
              Recorded(c)[i] = c \/ \E k \in DOMAIN recent : Recorded(c)[i] = recent[k]
         /\ (\A i \in DOMAIN recent : recent[i] # c)
              /\ (\A i, j \in DOMAIN recent : recent[i] = recent[j] => i = j) =>
              \A i, j \in DOMAIN Recorded(c) : Recorded(c)[i] = Recorded(c)[j] => i = j
  <1> DEFINE kept == IF Len(recent) = MaxRecent THEN Tail(recent) ELSE recent
             d == IF Len(recent) = MaxRecent THEN 1 ELSE 0
  <1>1. /\ d \in {0, 1} /\ Len(recent) \in Nat /\ MaxRecent \in Nat /\ MaxRecent > 0
        /\ d <= Len(recent)
    BY CallsAssumption
  <1>2. /\ kept \in Seq(1..MaxCalls) /\ Len(kept) = Len(recent) - d /\ Len(kept) < MaxRecent
        /\ \A i \in 1..Len(kept) : kept[i] = recent[i + d]
    <2>1. CASE Len(recent) = MaxRecent
      <3>1. recent # <<>> /\ kept = Tail(recent) /\ d = 1
        BY <1>1, <2>1
      <3>2. /\ Tail(recent) \in Seq(1..MaxCalls) /\ Len(Tail(recent)) = Len(recent) - 1
            /\ \A i \in 1..Len(Tail(recent)) : Tail(recent)[i] = recent[i + 1]
        BY <3>1
      <3> QED
        BY <1>1, <2>1, <3>1, <3>2
    <2>2. CASE Len(recent) # MaxRecent
      <3>1. kept = recent /\ d = 0 /\ Len(recent) < MaxRecent
        BY <1>1, <2>2
      <3> QED
        BY <1>1, <3>1
    <2> QED
      BY <2>1, <2>2
  <1>3. Recorded(c) = Append(kept, c)
    BY DEF Recorded
  <1> HIDE DEF kept, d
  <1>4. /\ Recorded(c) \in Seq(1..MaxCalls) /\ Len(Recorded(c)) = Len(kept) + 1
        /\ \A i \in 1..Len(kept) : Recorded(c)[i] = recent[i + d]
        /\ Recorded(c)[Len(kept) + 1] = c
        /\ Len(kept) \in Nat
    BY <1>2, <1>3
  <1>5. DOMAIN Recorded(c) = 1..(Len(kept) + 1) /\ DOMAIN recent = 1..(Len(kept) + d)
    BY <1>1, <1>2, <1>4
  <1>6. Len(Recorded(c)) <= MaxRecent
    BY <1>1, <1>2, <1>4
  <1>7. \A i \in 1..Len(kept) : i + d \in DOMAIN recent
    BY <1>1, <1>4, <1>5
  <1>8. ASSUME NEW i \in DOMAIN Recorded(c)
        PROVE  i \in 1..Len(kept) \/ i = Len(kept) + 1
    BY <1>4, <1>5
  <1>9. ASSUME \A i \in DOMAIN recent : recent[i] # c,
               \A i, j \in DOMAIN recent : recent[i] = recent[j] => i = j,
               NEW i \in DOMAIN Recorded(c), NEW j \in DOMAIN Recorded(c),
               Recorded(c)[i] = Recorded(c)[j]
        PROVE  i = j
    <2>1. i \in Nat /\ j \in Nat
      BY <1>5, <1>4
    <2>2. CASE i = Len(kept) + 1 \/ j = Len(kept) + 1
      BY <1>4, <1>7, <1>8, <1>9, <2>2
    <2>3. CASE i \in 1..Len(kept) /\ j \in 1..Len(kept)
      <3>1. i + d = j + d
        BY <1>4, <1>7, <1>9, <2>3
      <3> QED
        BY <1>1, <2>1, <3>1
    <2> QED
      BY <1>8, <2>2, <2>3
  <1> QED
    BY <1>4, <1>6, <1>7, <1>8, <1>9

\* Every context record_call has kept is one a call may have.
LEMMA RecentElement ==
  ASSUME recent \in Seq(1..MaxCalls)
  PROVE  \A i \in DOMAIN recent : recent[i] \in 1..MaxCalls
  <1>1. ASSUME NEW i \in 1..Len(recent) PROVE recent[i] \in 1..MaxCalls
    BY ElementOfSeq
  <1> QED
    BY <1>1

\* What is left when a call is forgotten (forget_call): the others, each once.
LEMMA ForgottenOK ==
  ASSUME NEW c, recent \in Seq(1..MaxCalls), Len(recent) <= MaxRecent,
         \A i, j \in DOMAIN recent : recent[i] = recent[j] => i = j
  PROVE  /\ Forgotten(c) \in Seq(1..MaxCalls) /\ Len(Forgotten(c)) <= MaxRecent
         /\ \A i \in DOMAIN Forgotten(c) :
              Forgotten(c)[i] # c /\ \E k \in DOMAIN recent : Forgotten(c)[i] = recent[k]
         /\ \A i, j \in DOMAIN Forgotten(c) : Forgotten(c)[i] = Forgotten(c)[j] => i = j
  <1>0. \A m \in DOMAIN recent : recent[m] \in 1..MaxCalls
    BY RecentElement
  <1>1. CASE \E i \in DOMAIN recent : recent[i] = c
    <2> DEFINE k == CHOOSE i \in DOMAIN recent : recent[i] = c
               n == Len(recent) - 1
               w == [i \in 1..n |-> IF i < k THEN recent[i] ELSE recent[i + 1]]
    <2>1. k \in DOMAIN recent /\ recent[k] = c
      BY <1>1
    <2>2. Forgotten(c) = w
      BY <1>1 DEF Forgotten
    <2>3. /\ Len(recent) \in Nat /\ DOMAIN recent = 1..Len(recent) /\ k \in Nat /\ k >= 1
          /\ n \in Nat /\ Len(recent) = n + 1 /\ k <= n + 1
      BY <2>1
    <2> HIDE DEF k, n
    <2>4. \A i \in 1..n : w[i] = (IF i < k THEN recent[i] ELSE recent[i + 1]) /\ i \in Nat
      BY <2>3
    <2>5. ASSUME NEW i \in 1..n
          PROVE  \E m \in DOMAIN recent : /\ m # k /\ w[i] = recent[m]
                                          /\ m = IF i < k THEN i ELSE i + 1
      <3>1. CASE i < k
        BY <2>3, <2>4, <3>1
      <3>2. CASE ~(i < k)
        <4>1. i + 1 \in DOMAIN recent /\ i + 1 # k
          BY <2>3, <2>4, <3>2
        <4> QED
          BY <2>4, <3>2, <4>1
      <3> QED
        BY <3>1, <3>2
    <2>6. \A i \in 1..n : w[i] \in 1..MaxCalls /\ w[i] # c
      <3> HIDE DEF w
      <3>1. TAKE i \in 1..n
      <3>2. PICK m \in DOMAIN recent : m # k /\ w[i] = recent[m]
        BY <2>5
      <3>3. recent[m] # recent[k]
        BY <2>1, <3>2
      <3>4. recent[m] \in 1..MaxCalls
        BY <1>0
      <3> QED
        BY <2>1, <3>2, <3>3, <3>4
    <2>7. w \in Seq(1..MaxCalls) /\ DOMAIN w = 1..n /\ Len(w) = n
      <3>1. w \in [1..n -> 1..MaxCalls]
        BY <2>6
      <3> QED
        BY <2>3, <3>1
    <2>8. ASSUME NEW i \in 1..n, NEW j \in 1..n, w[i] = w[j]
          PROVE  i = j
      <3>1. (IF i < k THEN i ELSE i + 1) = (IF j < k THEN j ELSE j + 1)
        BY <2>5, <2>8
      <3> QED
        BY <2>3, <2>4, <3>1
    <2>9. n <= MaxRecent
      BY <2>3, CallsAssumption
    <2> HIDE DEF w
    <2> QED
      BY <2>2, <2>5, <2>6, <2>7, <2>8, <2>9
  <1>2. CASE ~ \E i \in DOMAIN recent : recent[i] = c
    BY <1>2 DEF Forgotten
  <1> QED
    BY <1>1, <1>2

\* Two callers at work would have the same lock's turn, the one of the map's.
LEMMA OneCallOK == IInv => OneCall
  BY DEF IInv, LockInv, TurnInv, Needs, OneCall

\* What strong_count says: whoever finds no more than one reference finds its own.
LEMMA SharersOne ==
  ASSUME NEW k, NEW t \in Sharers(k), OnlyMine(k)
  PROVE  Sharers(k) = {t}
  <1>1. IsFiniteSet(Sharers(k))
    <2>1. Sharers(k) \subseteq Task
      BY DEF Sharers
    <2> QED
      BY <2>1, CallsAssumption, FS_Subset
  <1>2. ASSUME NEW s \in Sharers(k), s # t
        PROVE  FALSE
    <2>1. Cardinality({s, t}) = 2
      <3>1. IsFiniteSet({t}) /\ Cardinality({t}) = 1
        BY FS_Singleton
      <3>2. Cardinality({t} \cup {s}) = 2
        BY <1>2, <3>1, FS_AddElement
      <3>3. {t} \cup {s} = {s, t}
        OBVIOUS
      <3> QED
        BY <3>2, <3>3
    <2>2. {s, t} \subseteq Sharers(k)
      BY <1>2
    <2>3. Cardinality({s, t}) <= Cardinality(Sharers(k))
      BY <1>1, <2>2, FS_Subset
    <2>4. Cardinality(Sharers(k)) \in Nat
      BY <1>1, FS_CardinalityType
    <2> QED
      BY <2>1, <2>3, <2>4 DEF OnlyMine
  <1> QED
    BY <1>2

\* The turn is taken only when nobody has it.
LEMMA TakeTurnIInv ==
  ASSUME IInv, NEW t \in Task, TakeTurn(t)
  PROVE  IInv'
  <1>0. /\ th' \in [Task -> Caller] /\ th'[t].pc = "resolve"
        /\ th'[t].lock = th[t].lock /\ th'[t].ctx = th[t].ctx /\ th'[t].want = th[t].want
        /\ \A s \in Task : s # t => th'[s] = th[s]
    <2>1. Goto(t, "resolve")
      BY DEF TakeTurn
    <2> QED
      BY <2>1, GotoOK DEF IInv, TypeOK, Values, Busy
  <1>1. Flags'
    BY <1>0 DEF TakeTurn, lock, entity, hist, IInv, TypeOK, Flags
  <1>2. Values'
    BY <1>0, CallsAssumption DEF TakeTurn, lock, entity, hist, IInv, TypeOK, Values
  <1>3. LockInv'
    BY <1>0 DEF TakeTurn, lock, entity, hist, IInv, LockInv, Needs, Busy
  <1>4. TurnInv'
    BY <1>0, CallsAssumption
       DEF TakeTurn, lock, entity, hist, IInv, TypeOK, Values, TurnInv, LockInv, Needs,
           Busy
  <1>5. ContextInv'
    BY <1>0 DEF TakeTurn, lock, entity, hist, IInv, ContextInv
  <1>6. LeavesNothing'
    BY <1>0
       DEF TakeTurn, lock, entity, hist, IInv, LeavesNothing, CausesDelivered,
           NoOrphanCommand
  <1>7. CommandInv'
    BY <1>0
       DEF TakeTurn, lock, entity, hist, IInv, CommandInv, OnItsWay, LockInv, TurnInv,
           Needs, Busy
  <1> QED
    BY <1>1, <1>2, <1>3, <1>4, <1>5, <1>6, <1>7 DEF IInv, TypeOK

\* Who gives up waiting still holds the lock.
LEMMA GiveUpTurnIInv ==
  ASSUME IInv, NEW t \in Task, GiveUpTurn(t)
  PROVE  IInv'
  <1>0. /\ th' \in [Task -> Caller] /\ th'[t].pc = "idle?"
        /\ th'[t].lock = th[t].lock /\ th'[t].ctx = th[t].ctx /\ th'[t].want = th[t].want
        /\ \A s \in Task : s # t => th'[s] = th[s]
    <2>1. Goto(t, "idle?")
      BY DEF GiveUpTurn
    <2> QED
      BY <2>1, GotoOK DEF IInv, TypeOK, Values, Busy
  <1>1. Flags'
    BY <1>0 DEF GiveUpTurn, entity, lock, hist, IInv, TypeOK, Flags
  <1>2. Values'
    BY <1>0, CallsAssumption DEF GiveUpTurn, entity, lock, hist, IInv, TypeOK, Values
  <1>3. LockInv'
    BY <1>0 DEF GiveUpTurn, entity, lock, hist, IInv, LockInv, Needs, Busy
  <1>4. TurnInv'
    BY <1>0, CallsAssumption
       DEF GiveUpTurn, entity, lock, hist, IInv, TypeOK, Values, TurnInv, LockInv, Needs,
           Busy
  <1>5. ContextInv'
    BY <1>0 DEF GiveUpTurn, entity, lock, hist, IInv, ContextInv
  <1>6. LeavesNothing'
    BY <1>0
       DEF GiveUpTurn, entity, lock, hist, IInv, LeavesNothing, CausesDelivered,
           NoOrphanCommand
  <1>7. CommandInv'
    BY <1>0
       DEF GiveUpTurn, entity, lock, hist, IInv, CommandInv, OnItsWay, LockInv, TurnInv,
           Needs, Busy
  <1> QED
    BY <1>1, <1>2, <1>3, <1>4, <1>5, <1>6, <1>7 DEF IInv, TypeOK

\* A delivered call is one a report may name, and what it wants is what was last told.
LEMMA DeliverIInv ==
  ASSUME IInv, NEW t \in Task, Deliver(t)
  PROVE  IInv'
  <1>0. /\ th' \in [Task -> Caller] /\ th'[t].pc = "answer"
        /\ th'[t].lock = th[t].lock /\ th'[t].ctx = th[t].ctx /\ th'[t].want = th[t].want
        /\ \A s \in Task : s # t => th'[s] = th[s]
    <2>1. Goto(t, "answer")
      BY DEF Deliver
    <2> QED
      BY <2>1, GotoOK DEF IInv, TypeOK, Values, Busy
  <1>1. Flags'
    BY <1>0 DEF Deliver, entity, lock, IInv, TypeOK, Flags
  <1>2. Values'
    <2>1. th[t].ctx \in 1..MaxCalls
      <3>1. th[t].ctx \in 1..calls /\ calls \in 0..MaxCalls /\ MaxCalls \in Nat
        BY CallsAssumption DEF Deliver, IInv, ContextInv, TypeOK, Values
      <3> QED
        BY <3>1
    <2>2. th[t].want \in OnOff
      BY DEF IInv, TypeOK, Values, Caller
    <2>3. told' \in OnOff \cup {None} /\ delivered' \subseteq 1..MaxCalls
      BY <2>1, <2>2 DEF Deliver, IInv, TypeOK, Values
    <2> QED
      BY <1>0, <2>3 DEF Deliver, entity, lock, IInv, TypeOK, Values
  <1>3. LockInv'
    BY <1>0 DEF Deliver, entity, lock, IInv, LockInv, Needs, Busy
  <1>4. TurnInv'
    BY <1>0, CallsAssumption
       DEF Deliver, entity, lock, IInv, TypeOK, Values, TurnInv, LockInv, Needs, Busy
  <1>5. ContextInv'
    BY <1>0 DEF Deliver, entity, lock, IInv, ContextInv
  <1>6. LeavesNothing'
    BY <1>0
       DEF Deliver, entity, lock, IInv, LeavesNothing, CausesDelivered, NoOrphanCommand
  <1>7. CommandInv'
    BY <1>0
       DEF Deliver, entity, lock, IInv, CommandInv, OnItsWay, LockInv, TurnInv, Needs,
           Busy
  <1> QED
    BY <1>1, <1>2, <1>3, <1>4, <1>5, <1>6, <1>7 DEF IInv, TypeOK

\* An answer, or none, ends the work and leaves the cause.
LEMMA AnswerOkIInv ==
  ASSUME IInv, NEW t \in Task, AnswerOk(t)
  PROVE  IInv'
  <1>0. /\ th' \in [Task -> Caller] /\ th'[t].pc = "unlock"
        /\ th'[t].lock = th[t].lock /\ th'[t].ctx = th[t].ctx /\ th'[t].want = th[t].want
        /\ \A s \in Task : s # t => th'[s] = th[s]
    <2>1. Goto(t, "unlock")
      BY DEF AnswerOk
    <2> QED
      BY <2>1, GotoOK DEF IInv, TypeOK, Values, Busy
  <1>1. Flags'
    BY <1>0 DEF AnswerOk, entity, lock, hist, IInv, TypeOK, Flags
  <1>2. Values'
    BY <1>0, CallsAssumption DEF AnswerOk, entity, lock, hist, IInv, TypeOK, Values
  <1>3. LockInv'
    BY <1>0 DEF AnswerOk, entity, lock, hist, IInv, LockInv, Needs, Busy
  <1>4. TurnInv'
    BY <1>0, CallsAssumption
       DEF AnswerOk, entity, lock, hist, IInv, TypeOK, Values, TurnInv, LockInv, Needs,
           Busy
  <1>5. ContextInv'
    BY <1>0 DEF AnswerOk, entity, lock, hist, IInv, ContextInv
  <1>6. LeavesNothing'
    BY <1>0
       DEF AnswerOk, entity, lock, hist, IInv, LeavesNothing, CausesDelivered,
           NoOrphanCommand
  <1>7. CommandInv'
    BY <1>0
       DEF AnswerOk, entity, lock, hist, IInv, CommandInv, OnItsWay, LockInv, TurnInv,
           Needs, Busy
  <1> QED
    BY <1>1, <1>2, <1>3, <1>4, <1>5, <1>6, <1>7 DEF IInv, TypeOK

\* A call that failed takes back its command (Core::dispatch), so nothing is left to
\* be told.
LEMMA AnswerFailsIInv ==
  ASSUME IInv, NEW t \in Task, AnswerFails(t)
  PROVE  IInv'
  <1>0. /\ th' \in [Task -> Caller] /\ th'[t].pc = "unlock"
        /\ th'[t].lock = th[t].lock /\ th'[t].ctx = th[t].ctx /\ th'[t].want = th[t].want
        /\ \A s \in Task : s # t => th'[s] = th[s]
    <2>1. Goto(t, "unlock")
      BY DEF AnswerFails
    <2> QED
      BY <2>1, GotoOK DEF IInv, TypeOK, Values, Busy
  <1>1. Flags'
    BY <1>0 DEF AnswerFails, entity, lock, IInv, TypeOK, Flags
  <1>2. Values'
    BY <1>0, CallsAssumption DEF AnswerFails, entity, lock, IInv, TypeOK, Values
  <1>3. LockInv'
    BY <1>0 DEF AnswerFails, entity, lock, IInv, LockInv, Needs, Busy
  <1>4. TurnInv'
    BY <1>0, CallsAssumption
       DEF AnswerFails, entity, lock, IInv, TypeOK, Values, TurnInv, LockInv, Needs, Busy
  <1>5. ContextInv'
    BY <1>0 DEF AnswerFails, entity, lock, IInv, ContextInv
  <1>6. LeavesNothing'
    BY <1>0
       DEF AnswerFails, entity, lock, IInv, LeavesNothing, CausesDelivered,
           NoOrphanCommand
  <1>7. CommandInv'
    BY <1>0
       DEF AnswerFails, entity, lock, IInv, CommandInv, OnItsWay, LockInv, TurnInv, Needs,
           Busy
  <1> QED
    BY <1>1, <1>2, <1>3, <1>4, <1>5, <1>6, <1>7 DEF IInv, TypeOK

\* A caller that goes away after delivery leaves the cause, of a call that was
\* delivered.
LEMMA AbandonIInv ==
  ASSUME IInv, NEW t \in Task, Abandon(t)
  PROVE  IInv'
  <1>0. /\ th' \in [Task -> Caller] /\ th'[t].pc = "unlock"
        /\ th'[t].lock = th[t].lock /\ th'[t].ctx = th[t].ctx /\ th'[t].want = th[t].want
        /\ \A s \in Task : s # t => th'[s] = th[s]
    <2>1. Goto(t, "unlock")
      BY DEF Abandon
    <2> QED
      BY <2>1, GotoOK DEF IInv, TypeOK, Values, Busy
  <1>1. Flags'
    BY <1>0 DEF Abandon, entity, lock, hist, IInv, TypeOK, Flags
  <1>2. Values'
    BY <1>0, CallsAssumption DEF Abandon, entity, lock, hist, IInv, TypeOK, Values
  <1>3. LockInv'
    BY <1>0 DEF Abandon, entity, lock, hist, IInv, LockInv, Needs, Busy
  <1>4. TurnInv'
    BY <1>0, CallsAssumption
       DEF Abandon, entity, lock, hist, IInv, TypeOK, Values, TurnInv, LockInv, Needs,
           Busy
  <1>5. ContextInv'
    BY <1>0 DEF Abandon, entity, lock, hist, IInv, ContextInv
  <1>6. LeavesNothing'
    BY <1>0
       DEF Abandon, entity, lock, hist, IInv, LeavesNothing, CausesDelivered,
           NoOrphanCommand
  <1>7. CommandInv'
    BY <1>0
       DEF Abandon, entity, lock, hist, IInv, CommandInv, OnItsWay, LockInv, TurnInv,
           Needs, Busy
  <1> QED
    BY <1>1, <1>2, <1>3, <1>4, <1>5, <1>6, <1>7 DEF IInv, TypeOK

\* The turn is given back by whoever has it.
LEMMA UnlockIInv ==
  ASSUME IInv, NEW t \in Task, Unlock(t)
  PROVE  IInv'
  <1>0. /\ th' \in [Task -> Caller] /\ th'[t].pc = "idle?"
        /\ th'[t].lock = th[t].lock /\ th'[t].ctx = th[t].ctx /\ th'[t].want = th[t].want
        /\ \A s \in Task : s # t => th'[s] = th[s]
    <2>1. Goto(t, "idle?")
      BY DEF Unlock
    <2> QED
      BY <2>1, GotoOK DEF IInv, TypeOK, Values, Busy
  <1>1. Flags'
    BY <1>0 DEF Unlock, lock, entity, hist, IInv, TypeOK, Flags
  <1>2. Values'
    BY <1>0, CallsAssumption DEF Unlock, lock, entity, hist, IInv, TypeOK, Values
  <1>3. LockInv'
    BY <1>0 DEF Unlock, lock, entity, hist, IInv, LockInv, Needs, Busy
  <1>4. TurnInv'
    BY <1>0, CallsAssumption
       DEF Unlock, lock, entity, hist, IInv, TypeOK, Values, TurnInv, LockInv, Needs, Busy
  <1>5. ContextInv'
    BY <1>0 DEF Unlock, lock, entity, hist, IInv, ContextInv
  <1>6. LeavesNothing'
    BY <1>0
       DEF Unlock, lock, entity, hist, IInv, LeavesNothing, CausesDelivered,
           NoOrphanCommand
  <1>7. CommandInv'
    BY <1>0
       DEF Unlock, lock, entity, hist, IInv, CommandInv, OnItsWay, LockInv, TurnInv,
           Needs, Busy
  <1> QED
    BY <1>1, <1>2, <1>3, <1>4, <1>5, <1>6, <1>7 DEF IInv, TypeOK

\* The lock leaves the map only when nobody else refers to it.
LEMMA ReleaseIInv ==
  ASSUME IInv, NEW t \in Task, Release(t)
  PROVE  IInv'
  <1>0. /\ th' \in [Task -> Caller] /\ th'[t].pc = "left"
        /\ th'[t].lock = th[t].lock /\ th'[t].ctx = th[t].ctx /\ th'[t].want = th[t].want
        /\ \A s \in Task : s # t => th'[s] = th[s]
    <2>1. Goto(t, "left")
      BY DEF Release
    <2> QED
      BY <2>1, GotoOK DEF IInv, TypeOK, Values, Busy
  <1>1. Flags'
    BY <1>0 DEF Release, entity, hist, IInv, TypeOK, Flags
  <1>2. Values'
    BY <1>0, CallsAssumption DEF Release, entity, hist, IInv, TypeOK, Values
  <1>3. LockInv'
    <2>1. th[t].lock = busy /\ t \in Sharers(busy)
      BY DEF Release, IInv, LockInv, Needs, Sharers
    <2>2. ASSUME OnlyMine(busy), NEW s \in Task, s # t
          PROVE  ~Needs(s)
      <3>1. Sharers(busy) = {t}
        BY <2>1, <2>2, SharersOne
      <3> QED
        BY <2>2, <3>1 DEF IInv, LockInv, Sharers
    <2>3. CASE busy # None /\ OnlyMine(busy)
      BY <1>0, <2>2, <2>3 DEF Release, IInv, LockInv, Needs, Busy
    <2>4. CASE ~(busy # None /\ OnlyMine(busy))
      <3>1. busy' = busy
        BY <2>4 DEF Release
      <3> QED
        BY <1>0, <3>1 DEF Release, IInv, LockInv, Needs, Busy
    <2> QED
      BY <2>3, <2>4
  <1>4. TurnInv'
    BY <1>0, CallsAssumption
       DEF Release, entity, hist, IInv, TypeOK, Values, TurnInv, LockInv, Needs, Busy
  <1>5. ContextInv'
    BY <1>0 DEF Release, entity, hist, IInv, ContextInv
  <1>6. LeavesNothing'
    BY <1>0
       DEF Release, entity, hist, IInv, LeavesNothing, CausesDelivered, NoOrphanCommand
  <1>7. CommandInv'
    BY <1>0
       DEF Release, entity, hist, IInv, CommandInv, OnItsWay, LockInv, TurnInv, Needs,
           Busy
  <1> QED
    BY <1>1, <1>2, <1>3, <1>4, <1>5, <1>6, <1>7 DEF IInv, TypeOK

\* A call that could not be sent is forgotten.
LEMMA UndeliveredIInv ==
  ASSUME IInv, NEW t \in Task, OnItsWay(t), Undelivered(t),
         UNCHANGED <<entity, lock, calls, events>>
  PROVE  IInv'
  <1>0. /\ th' \in [Task -> Caller] /\ th'[t].pc = "unlock"
        /\ th'[t].lock = th[t].lock /\ th'[t].ctx = th[t].ctx /\ th'[t].want = th[t].want
        /\ \A s \in Task : s # t => th'[s] = th[s]
    <2>1. Goto(t, "unlock")
      BY DEF Undelivered
    <2> QED
      BY <2>1, GotoOK DEF IInv, TypeOK, Values, Busy
  <1>a. /\ recent' = Forgotten(th[t].ctx) /\ commanded' = None /\ told' = None
        /\ UNCHANGED <<entity, lock, calls, events, delivered, fresh>>
    BY DEF Undelivered
  <1>b. /\ recent' \in Seq(1..MaxCalls) /\ Len(recent') <= MaxRecent
        /\ \A i \in DOMAIN recent' :
             recent'[i] # th[t].ctx /\ \E k \in DOMAIN recent : recent'[i] = recent[k]
        /\ \A i, j \in DOMAIN recent' : recent'[i] = recent'[j] => i = j
    BY <1>a, ForgottenOK DEF IInv, TypeOK, Values, ContextInv
  <1>1. Flags'
    BY <1>a DEF entity, IInv, TypeOK, Flags
  <1>2. Values'
    BY <1>0, <1>a, <1>b, CallsAssumption DEF entity, lock, IInv, TypeOK, Values
  <1>3. LockInv'
    BY <1>0, <1>a DEF OnItsWay, lock, IInv, LockInv, Needs, Busy
  <1>4. TurnInv'
    BY <1>0, <1>a DEF OnItsWay, lock, IInv, TurnInv, Busy
  <1>5. ContextInv'
    <2>1. \A i \in DOMAIN recent' : recent'[i] <= calls
      BY <1>b DEF IInv, ContextInv
    <2>2. \A s \in Task : th'[s].pc \in {"wait", "resolve", "record"} =>
            \A i \in DOMAIN recent' : recent'[i] # th'[s].ctx
      BY <1>0, <1>b DEF IInv, ContextInv
    <2> QED
      BY <1>0, <1>a, <1>b, <2>1, <2>2 DEF OnItsWay, IInv, ContextInv
  <1>6. LeavesNothing'
    <2>1. ASSUME NEW i \in DOMAIN recent'
          PROVE  \/ recent'[i] \in delivered
                 \/ \E s \in Task : OnItsWay(s)' /\ th'[s].ctx = recent'[i]
      <3>1. PICK k \in DOMAIN recent : recent'[i] = recent[k]
        BY <1>b
      <3>2. CASE \E s \in Task : th[s].pc \in {"check", "send"} /\ th[s].ctx = recent[k]
        BY <1>0, <1>b, <3>1, <3>2 DEF OnItsWay
      <3> QED
        BY <3>1, <3>2 DEF IInv, LeavesNothing, CausesDelivered
    <2> QED
      BY <1>a, <2>1 DEF LeavesNothing, CausesDelivered, NoOrphanCommand, OnItsWay
  <1>7. CommandInv'
    <2>1. \A s \in Task : OnItsWay(s) => s = t
      BY OneCallOK DEF OnItsWay, OneCall, Busy
    <2> QED
      BY <1>0, <1>a, <2>1 DEF CommandInv, OnItsWay
  <1> QED
    BY <1>1, <1>2, <1>3, <1>4, <1>5, <1>6, <1>7 DEF IInv, TypeOK

\* A new call gets the lock of the map, or puts one there that nobody refers to, and a
\* context no call has had.
LEMMA EnterIInv ==
  ASSUME IInv, NEW t \in Task, NEW cmd \in Commands, Enter(t, cmd)
  PROVE  IInv'
  <1>0. PICK k \in Lock :
            /\ IF busy # None THEN k = busy ELSE Sharers(k) = {}
            /\ busy' = k
            /\ th' = [th EXCEPT ![t] = [pc |-> "wait", cmd |-> cmd, want |-> "on",
                                        lock |-> k, ctx |-> calls + 1]]
    BY DEF Enter
  <1>a. /\ calls \in Nat /\ calls + 1 \in 1..MaxCalls /\ calls' = calls + 1 /\ MaxCalls \in Nat
        /\ UNCHANGED <<entity, commanded, recent, turn, events, hist>>
    BY CallsAssumption DEF Enter, IInv, TypeOK, Values
  <1>b. [pc |-> "wait", cmd |-> cmd, want |-> "on", lock |-> k, ctx |-> calls + 1] \in Caller
    BY <1>a, CallsAssumption DEF Caller, OnOff
  <1>c. /\ th' \in [Task -> Caller]
        /\ th'[t].pc = "wait" /\ th'[t].lock = k /\ th'[t].ctx = calls + 1
        /\ \A s \in Task : s # t => th'[s] = th[s]
    BY <1>0, <1>b DEF IInv, TypeOK, Values
  <1>1. Flags'
    BY <1>a DEF entity, hist, IInv, TypeOK, Flags
  <1>2. Values'
    <2>1. calls' \in 0..MaxCalls
      BY <1>a
    <2> QED
      BY <1>0, <1>a, <1>c, <2>1 DEF entity, hist, IInv, TypeOK, Values
  <1>3. LockInv'
    <2>1. ASSUME NEW s \in Task, s # t, Needs(s)
          PROVE  busy = k
      BY <1>0, <2>1 DEF IInv, LockInv, Needs, Busy
    <2> QED
      BY <1>0, <1>c, <2>1, CallsAssumption DEF IInv, LockInv, Needs, Busy
  <1>4. TurnInv'
    BY <1>a, <1>c DEF IInv, TurnInv, Busy
  <1>5. ContextInv'
    <2>1. \A i \in DOMAIN recent : recent[i] <= calls /\ recent[i] \in 1..MaxCalls
      BY RecentElement DEF IInv, ContextInv, TypeOK, Values
    <2>2. \A s \in Task : th'[s].pc # "idle" => th'[s].ctx \in 1..calls'
      BY <1>a, <1>c DEF IInv, ContextInv
    <2>3. \A s, u \in Task : th'[s].pc # "idle" /\ th'[u].pc # "idle" /\ th'[s].ctx = th'[u].ctx
            => s = u
      BY <1>a, <1>c DEF IInv, ContextInv
    <2>4. \A s \in Task : th'[s].pc \in {"wait", "resolve", "record"} =>
            \A i \in DOMAIN recent : recent[i] # th'[s].ctx
      BY <1>a, <1>c, <2>1 DEF IInv, ContextInv
    <2> QED
      BY <1>a, <2>1, <2>2, <2>3, <2>4 DEF IInv, ContextInv
  <1>6. LeavesNothing'
    BY <1>a, <1>c
       DEF Enter, entity, hist, IInv, LeavesNothing, CausesDelivered, NoOrphanCommand
  <1>7. CommandInv'
    BY <1>a, <1>c DEF Enter, hist, IInv, CommandInv, OnItsWay
  <1> QED
    BY <1>1, <1>2, <1>3, <1>4, <1>5, <1>6, <1>7 DEF IInv, TypeOK

\* What was recorded is on its way, or forgotten because the entity is gone.
LEMMA CheckIInv ==
  ASSUME IInv, NEW t \in Task, Check(t)
  PROVE  IInv'
  <1>1. CASE registered /\ Goto(t, "send") /\ UNCHANGED <<recent, commanded, hist>>
    <2>0. /\ th' \in [Task -> Caller] /\ th'[t].pc = "send"
          /\ th'[t].lock = th[t].lock /\ th'[t].ctx = th[t].ctx /\ th'[t].want = th[t].want
          /\ \A s \in Task : s # t => th'[s] = th[s]
      BY <1>1, GotoOK DEF IInv, TypeOK, Values, Busy
    <2>1. Flags' /\ Values'
      BY <1>1, <2>0 DEF Check, entity, lock, hist, IInv, TypeOK, Flags, Values
    <2>2. LockInv' /\ TurnInv'
      BY <1>1, <2>0 DEF Check, lock, IInv, LockInv, TurnInv, Needs, Busy
    <2>3. ContextInv'
      BY <1>1, <2>0 DEF Check, IInv, ContextInv
    <2>4. LeavesNothing'
      BY <1>1, <2>0
         DEF Check, entity, hist, IInv, LeavesNothing, CausesDelivered, NoOrphanCommand
    <2>5. CommandInv'
      BY <1>1, <2>0 DEF Check, hist, IInv, CommandInv, OnItsWay
    <2> QED
      BY <2>1, <2>2, <2>3, <2>4, <2>5 DEF IInv, TypeOK
  <1>2. CASE ~registered /\ Undelivered(t)
    BY <1>2, UndeliveredIInv DEF Check, OnItsWay
  <1> QED
    BY <1>1, <1>2 DEF Check

\* record_call and the command, before anything is sent.
LEMMA RecordIInv ==
  ASSUME IInv, NEW t \in Task, Record(t)
  PROVE  IInv'
  <1>1. CASE ~linked
    <2>0. /\ th' \in [Task -> Caller] /\ th'[t].pc = "unlock"
          /\ th'[t].lock = th[t].lock /\ th'[t].ctx = th[t].ctx /\ th'[t].want = th[t].want
          /\ \A s \in Task : s # t => th'[s] = th[s]
      BY <1>1, GotoOK DEF Record, IInv, TypeOK, Values, Busy
    <2>a. UNCHANGED <<entity, lock, calls, events, told, delivered, recent, commanded, fresh>>
      BY <1>1 DEF Record
    <2>1. Flags' /\ Values'
      BY <2>0, <2>a DEF entity, lock, IInv, TypeOK, Flags, Values
    <2>2. LockInv' /\ TurnInv'
      BY <2>0, <2>a DEF Record, lock, IInv, LockInv, TurnInv, Needs, Busy
    <2>3. ContextInv'
      BY <2>0, <2>a DEF Record, IInv, ContextInv
    <2>4. LeavesNothing'
      BY <2>0, <2>a
         DEF Record, entity, IInv, LeavesNothing, CausesDelivered, NoOrphanCommand
    <2>5. CommandInv'
      BY <2>0, <2>a DEF Record, IInv, CommandInv, OnItsWay
    <2> QED
      BY <2>1, <2>2, <2>3, <2>4, <2>5 DEF IInv, TypeOK
  <1>2. CASE linked
    <2>0. /\ th' \in [Task -> Caller] /\ th'[t].pc = "check"
          /\ th'[t].lock = th[t].lock /\ th'[t].ctx = th[t].ctx /\ th'[t].want = th[t].want
          /\ \A s \in Task : s # t => th'[s] = th[s]
      BY <1>2, GotoOK DEF Record, IInv, TypeOK, Values, Busy
    <2>a. /\ recent' = Recorded(th[t].ctx) /\ commanded' = th[t].want /\ fresh' = TRUE
          /\ UNCHANGED <<entity, lock, calls, events, told, delivered>>
      BY <1>2 DEF Record
    <2>b. th[t].ctx \in 1..MaxCalls /\ th[t].ctx \in 1..calls /\ th[t].want \in OnOff
      <3>1. th[t].ctx \in 1..calls /\ calls \in 0..MaxCalls /\ MaxCalls \in Nat
        BY CallsAssumption DEF Record, IInv, ContextInv, TypeOK, Values
      <3>2. th[t].want \in OnOff
        BY DEF IInv, TypeOK, Values, Caller
      <3> QED
        BY <3>1, <3>2
    <2>c. \A i \in DOMAIN recent : recent[i] # th[t].ctx
      BY DEF Record, IInv, ContextInv
    <2>d. /\ recent' \in Seq(1..MaxCalls) /\ Len(recent') <= MaxRecent
          /\ \A i \in DOMAIN recent' :
               recent'[i] = th[t].ctx \/ \E k \in DOMAIN recent : recent'[i] = recent[k]
          /\ \A i, j \in DOMAIN recent' : recent'[i] = recent'[j] => i = j
      <3>1. recent \in Seq(1..MaxCalls) /\ Len(recent) <= MaxRecent
        BY DEF IInv, TypeOK, Values
      <3>2. \A i, j \in DOMAIN recent : recent[i] = recent[j] => i = j
        BY DEF IInv, ContextInv
      <3> DEFINE c == th[t].ctx
      <3>3. c \in 1..MaxCalls /\ recent' = Recorded(c) /\ \A i \in DOMAIN recent : recent[i] # c
        BY <2>a, <2>b, <2>c
      <3> HIDE DEF c
      <3>4. /\ Recorded(c) \in Seq(1..MaxCalls) /\ Len(Recorded(c)) <= MaxRecent
            /\ \A i \in DOMAIN Recorded(c) :
                 Recorded(c)[i] = c \/ \E k \in DOMAIN recent : Recorded(c)[i] = recent[k]
            /\ \A i, j \in DOMAIN Recorded(c) : Recorded(c)[i] = Recorded(c)[j] => i = j
        BY <3>1, <3>2, <3>3, RecordedOK
      <3> QED
        BY <3>3, <3>4 DEF c
    <2>1. Flags' /\ Values'
      BY <2>0, <2>a, <2>b, <2>d DEF entity, lock, IInv, TypeOK, Flags, Values
    <2>2. LockInv' /\ TurnInv'
      BY <2>0, <2>a DEF Record, lock, IInv, LockInv, TurnInv, Needs, Busy
    <2>3. ContextInv'
      <3>1. \A i \in DOMAIN recent' : recent'[i] <= calls
        BY <2>b, <2>d DEF IInv, ContextInv
      <3>2. \A s \in Task : th'[s].pc \in {"wait", "resolve", "record"} =>
              \A i \in DOMAIN recent' : recent'[i] # th'[s].ctx
        BY <2>0, <2>d DEF Record, IInv, ContextInv
      <3> QED
        BY <2>0, <2>a, <2>d, <3>1, <3>2 DEF Record, IInv, ContextInv
    <2>4. LeavesNothing'
      <3>1. ASSUME NEW i \in DOMAIN recent'
            PROVE  \/ recent'[i] \in delivered
                   \/ \E s \in Task : th'[s].pc \in {"check", "send"} /\ th'[s].ctx = recent'[i]
        <4>1. CASE recent'[i] = th[t].ctx
          BY <2>0, <4>1
        <4>2. CASE recent'[i] # th[t].ctx
          <5>1. PICK k \in DOMAIN recent : recent'[i] = recent[k]
            BY <2>d, <4>2
          <5>2. CASE \E s \in Task : th[s].pc \in {"check", "send"} /\ th[s].ctx = recent[k]
            BY <2>0, <5>1, <5>2
          <5> QED
            BY <5>1, <5>2 DEF IInv, LeavesNothing, CausesDelivered
        <4> QED
          BY <4>1, <4>2
      <3> QED
        BY <2>0, <2>a, <3>1 DEF LeavesNothing, CausesDelivered, NoOrphanCommand
    <2>5. CommandInv'
      <3>1. \A s \in Task : OnItsWay(s)' => s = t
        <4>1. \A s \in Task : OnItsWay(s) => s = t
          BY OneCallOK DEF OnItsWay, Record, OneCall, Busy
        <4> QED
          BY <2>0, <4>1 DEF OnItsWay
      <3>2. OnItsWay(t)'
        BY <2>0 DEF OnItsWay
      <3> QED
        BY <2>0, <2>a, <3>1, <3>2 DEF CommandInv
    <2> QED
      BY <2>1, <2>2, <2>3, <2>4, <2>5 DEF IInv, TypeOK
  <1> QED
    BY <1>1, <1>2

\* Home::resolve only reads, and sets what this call wants.
LEMMA ResolveIInv ==
  ASSUME IInv, NEW t \in Task, Resolve(t)
  PROVE  IInv'
  <1>0. /\ th' \in [Task -> Caller] /\ th'[t].pc \in {"record", "unlock"}
        /\ th'[t].lock = th[t].lock /\ th'[t].ctx = th[t].ctx
        /\ \A s \in Task : s # t => th'[s] = th[s]
    <2>1. CASE ~registered
      BY <2>1, GotoOK DEF Resolve, IInv, TypeOK, Values, Busy
    <2>2. CASE registered
      <3> DEFINE w == IF th[t].cmd = "toggle" THEN Toggled(Current) ELSE th[t].cmd
      <3>1. th' = [th EXCEPT ![t] = [th[t] EXCEPT !.pc = "record", !.want = w]]
        BY <2>2 DEF Resolve
      <3>2. w \in OnOff
        BY DEF IInv, TypeOK, Values, Caller, Toggled, OnOff
      <3> HIDE DEF w
      <3>3. [th[t] EXCEPT !.pc = "record", !.want = w] \in Caller
        BY <3>2 DEF IInv, TypeOK, Values, Caller, Busy
      <3> QED
        BY <3>1, <3>2, <3>3 DEF IInv, TypeOK, Values, Caller
    <2> QED
      BY <2>1, <2>2
  <1>1. Flags'
    BY <1>0 DEF Resolve, entity, lock, hist, IInv, TypeOK, Flags
  <1>2. Values'
    BY <1>0, CallsAssumption DEF Resolve, entity, lock, hist, IInv, TypeOK, Values
  <1>3. LockInv'
    BY <1>0 DEF Resolve, entity, lock, hist, IInv, LockInv, Needs, Busy
  <1>4. TurnInv'
    BY <1>0, CallsAssumption
       DEF Resolve, entity, lock, hist, IInv, TypeOK, Values, TurnInv, LockInv, Needs,
           Busy
  <1>5. ContextInv'
    BY <1>0 DEF Resolve, entity, lock, hist, IInv, ContextInv
  <1>6. LeavesNothing'
    BY <1>0
       DEF Resolve, entity, lock, hist, IInv, LeavesNothing, CausesDelivered,
           NoOrphanCommand
  <1>7. CommandInv'
    BY <1>0
       DEF Resolve, entity, lock, hist, IInv, CommandInv, OnItsWay, LockInv, TurnInv,
           Needs, Busy
  <1> QED
    BY <1>1, <1>2, <1>3, <1>4, <1>5, <1>6, <1>7 DEF IInv, TypeOK

\* The reference itself goes last.
LEMMA DropLockIInv ==
  ASSUME IInv, NEW t \in Task, DropLock(t)
  PROVE  IInv'
  <1>0. /\ th' \in [Task -> Caller] /\ th'[t].pc = "idle" /\ th'[t].lock = None
        /\ \A s \in Task : s # t => th'[s] = th[s]
    <2>1. Idle \in Caller /\ Idle.pc = "idle" /\ Idle.lock = None
      BY CallsAssumption DEF Idle, Caller, OnOff
    <2> QED
      BY <2>1 DEF DropLock, IInv, TypeOK, Values
  <1>1. Flags'
    BY <1>0 DEF DropLock, lock, entity, hist, IInv, TypeOK, Flags
  <1>2. Values'
    BY <1>0, CallsAssumption DEF DropLock, lock, entity, hist, IInv, TypeOK, Values
  <1>3. LockInv'
    BY <1>0 DEF DropLock, lock, entity, hist, IInv, LockInv, Needs, Busy
  <1>4. TurnInv'
    BY <1>0, CallsAssumption
       DEF DropLock, lock, entity, hist, IInv, TypeOK, Values, TurnInv, LockInv, Needs,
           Busy
  <1>5. ContextInv'
    BY <1>0 DEF DropLock, lock, entity, hist, IInv, ContextInv
  <1>6. LeavesNothing'
    BY <1>0
       DEF DropLock, lock, entity, hist, IInv, LeavesNothing, CausesDelivered,
           NoOrphanCommand
  <1>7. CommandInv'
    BY <1>0
       DEF DropLock, lock, entity, hist, IInv, CommandInv, OnItsWay, LockInv, TurnInv,
           Needs, Busy
  <1> QED
    BY <1>1, <1>2, <1>3, <1>4, <1>5, <1>6, <1>7 DEF IInv, TypeOK

\* A report takes back what was commanded, and says so.
LEMMA ReportIInv ==
  ASSUME IInv, NEW v \in OnOff, Report(v)
  PROVE  IInv'
  <1>1. Flags'
    BY DEF Report, lock, IInv, TypeOK, Flags
  <1>2. Values'
    BY CallsAssumption DEF Report, lock, IInv, TypeOK, Values
  <1>3. LockInv'
    BY DEF Report, lock, IInv, LockInv, Needs, Busy
  <1>4. TurnInv'
    BY CallsAssumption
       DEF Report, lock, IInv, TypeOK, Values, TurnInv, LockInv, Needs, Busy
  <1>5. ContextInv'
    BY DEF Report, lock, IInv, ContextInv
  <1>6. LeavesNothing'
    BY DEF Report, lock, IInv, LeavesNothing, CausesDelivered, NoOrphanCommand
  <1>7. CommandInv'
    BY DEF Report, lock, IInv, CommandInv, OnItsWay, LockInv, TurnInv, Needs, Busy
  <1> QED
    BY <1>1, <1>2, <1>3, <1>4, <1>5, <1>6, <1>7 DEF IInv, TypeOK

\* So does the removal of the entity.
LEMMA RegisterIInv ==
  ASSUME IInv, Register
  PROVE  IInv'
  <1>1. Flags'
    BY DEF Register, lock, IInv, TypeOK, Flags
  <1>2. Values'
    BY CallsAssumption DEF Register, lock, IInv, TypeOK, Values
  <1>3. LockInv'
    BY DEF Register, lock, IInv, LockInv, Needs, Busy
  <1>4. TurnInv'
    BY CallsAssumption
       DEF Register, lock, IInv, TypeOK, Values, TurnInv, LockInv, Needs, Busy
  <1>5. ContextInv'
    BY DEF Register, lock, IInv, ContextInv
  <1>6. LeavesNothing'
    BY DEF Register, lock, IInv, LeavesNothing, CausesDelivered, NoOrphanCommand
  <1>7. CommandInv'
    BY DEF Register, lock, IInv, CommandInv, OnItsWay, LockInv, TurnInv, Needs, Busy
  <1> QED
    BY <1>1, <1>2, <1>3, <1>4, <1>5, <1>6, <1>7 DEF IInv, TypeOK

\* The protocol may stop and start at any time.
LEMMA LinkIInv ==
  ASSUME IInv, Link
  PROVE  IInv'
  <1>1. Flags'
    BY DEF Link, lock, hist, IInv, TypeOK, Flags
  <1>2. Values'
    BY CallsAssumption DEF Link, lock, hist, IInv, TypeOK, Values
  <1>3. LockInv'
    BY DEF Link, lock, hist, IInv, LockInv, Needs, Busy
  <1>4. TurnInv'
    BY CallsAssumption
       DEF Link, lock, hist, IInv, TypeOK, Values, TurnInv, LockInv, Needs, Busy
  <1>5. ContextInv'
    BY DEF Link, lock, hist, IInv, ContextInv
  <1>6. LeavesNothing'
    BY DEF Link, lock, hist, IInv, LeavesNothing, CausesDelivered, NoOrphanCommand
  <1>7. CommandInv'
    BY DEF Link, lock, hist, IInv, CommandInv, OnItsWay, LockInv, TurnInv, Needs, Busy
  <1> QED
    BY <1>1, <1>2, <1>3, <1>4, <1>5, <1>6, <1>7 DEF IInv, TypeOK

\* A call the protocol's queue did not take in time is forgotten like any undelivered
\* one.
LEMMA SendFailsIInv ==
  ASSUME IInv, NEW t \in Task, SendFails(t)
  PROVE  IInv'
  BY UndeliveredIInv DEF SendFails, OnItsWay

-----------------------------------------------------------------------------
\* Before the first call nobody waits, and nothing is remembered.
LEMMA InitIInv == Init => IInv
  <1> SUFFICES ASSUME Init PROVE IInv
    OBVIOUS
  <1>0. th \in [Task -> Caller] /\ \A t \in Task : th[t].pc = "idle" /\ th[t].lock = None
    <2>1. Idle \in Caller /\ Idle.pc = "idle" /\ Idle.lock = None
      BY CallsAssumption DEF Idle, Caller, OnOff
    <2> QED
      BY <2>1 DEF Init
  <1>1. Flags
    BY DEF Init, Flags
  <1>2. Values
    <2>1. recent \in Seq(1..MaxCalls) /\ Len(recent) <= MaxRecent
      BY CallsAssumption DEF Init
    <2> QED
      BY <1>0, <2>1, CallsAssumption DEF Init, Values
  <1>3. LockInv /\ TurnInv /\ ContextInv /\ LeavesNothing /\ CommandInv
    BY <1>0 DEF Init, LockInv, TurnInv, ContextInv, LeavesNothing, CausesDelivered,
                NoOrphanCommand, CommandInv, Needs, Busy, OnItsWay
  <1> QED
    BY <1>1, <1>2, <1>3 DEF IInv, TypeOK

\* Every step of a caller, of the device and of the protocol keeps the invariant.
LEMMA NextIInv == IInv /\ [Next]_vars => IInv'
  <1> SUFFICES ASSUME IInv, [Next]_vars PROVE IInv'
    OBVIOUS
  <1>1. CASE UNCHANGED vars
    BY <1>1
       DEF vars, IInv, TypeOK, Flags, Values, LockInv, TurnInv, ContextInv, LeavesNothing,
                CausesDelivered, NoOrphanCommand, CommandInv, Needs, OnItsWay
  <1>2. ASSUME NEW t \in Task, NEW cmd \in Commands, Enter(t, cmd)
        PROVE  IInv'
    BY <1>2, EnterIInv
  <1>3. ASSUME NEW t \in Task,
               \/ TakeTurn(t) \/ GiveUpTurn(t) \/ Resolve(t) \/ Record(t) \/ Check(t)
               \/ Deliver(t) \/ SendFails(t) \/ AnswerOk(t) \/ AnswerFails(t) \/ Abandon(t)
               \/ Unlock(t) \/ Release(t) \/ DropLock(t)
        PROVE  IInv'
    BY <1>3, TakeTurnIInv, GiveUpTurnIInv, ResolveIInv, RecordIInv, CheckIInv,
       DeliverIInv,
       SendFailsIInv, AnswerOkIInv, AnswerFailsIInv, AbandonIInv, UnlockIInv, ReleaseIInv,
       DropLockIInv
  <1>4. ASSUME NEW v \in OnOff, Report(v)
        PROVE  IInv'
    BY <1>4, ReportIInv
  <1>5. CASE Register \/ Link
    BY <1>5, RegisterIInv, LinkIInv
  <1> QED
    BY <1>1, <1>2, <1>3, <1>4, <1>5 DEF Next

\* The inductive invariant holds in every state.
THEOREM Invariance == Spec => []IInv
  <1> QED
    BY InitIInv, NextIInv, PTL DEF Spec

\* One call at a time per entity, although the lock leaves the map with whoever finds
\* itself the last to need it (call_lock, ReleaseWhenIdle), within the limits.
THEOREM OneCallAtATime == Spec => []CallsOK
  <1>1. IInv => CallsOK
    BY OneCallOK DEF IInv, CallsOK
  <1> QED
    BY Invariance, <1>1, PTL

\* A call that never went out leaves no cause and no command behind (Delivery).
THEOREM NothingLeftBehind == Spec => []LeavesNothing
  <1>1. IInv => LeavesNothing
    BY DEF IInv
  <1> QED
    BY Invariance, <1>1, PTL

\* Only the resolving of t itself sends t from "resolve" to "record".
LEMMA OnlyResolves ==
  ASSUME IInv, Next, NEW t \in Task, Toggles(t)
  PROVE  Resolve(t)
  <1>1. th' # th
    BY DEF Toggles
  <1>2. ASSUME NEW s \in Task, NEW p, Goto(s, p), p # "record"
        PROVE  FALSE
    BY <1>2 DEF Goto, Toggles, IInv, TypeOK, Values, Caller
  <1>3. ASSUME NEW s \in Task, Resolve(s)
        PROVE  s = t
    BY <1>3 DEF Resolve, Goto, Toggles, IInv, TypeOK, Values, Caller
  <1>4. ASSUME NEW s \in Task, NEW cmd \in Commands, Enter(s, cmd)
        PROVE  FALSE
    BY <1>4 DEF Enter, Toggles, IInv, TypeOK, Values, Caller
  <1>5. ASSUME NEW s \in Task, DropLock(s)
        PROVE  FALSE
    BY <1>5 DEF DropLock, Idle, Toggles, IInv, TypeOK, Values, Caller
  <1>6. ASSUME NEW s \in Task,
               \/ TakeTurn(s) \/ GiveUpTurn(s) \/ Record(s) \/ Check(s)
               \/ Deliver(s) \/ SendFails(s) \/ AnswerOk(s) \/ AnswerFails(s) \/ Abandon(s)
               \/ Unlock(s) \/ Release(s)
        PROVE  FALSE
    <2>1. CASE TakeTurn(s)
      BY <2>1 DEF TakeTurn, Goto, Toggles, IInv, TypeOK, Values, Caller
    <2>2. CASE ~TakeTurn(s)
      BY <1>2, <1>6, <2>2
         DEF GiveUpTurn, Record, Check, Deliver, SendFails, Undelivered, AnswerOk,
         AnswerFails, Abandon, Unlock, Release
    <2> QED
      BY <2>1, <2>2
  <1>7. ASSUME NEW v \in OnOff, Report(v)
        PROVE  FALSE
    BY <1>1, <1>7 DEF Report
  <1>8. CASE Register \/ Link
    BY <1>1, <1>8 DEF Register, Link
  <1> QED
    BY <1>3, <1>4, <1>5, <1>6, <1>7, <1>8 DEF Next

\* Two toggles in a row don't both see the old value: the one that is resolved undoes what
\* the last delivered call told the entity, as long as it has said nothing since
\* (Home.commanded).
THEOREM TogglesCancelOut == Spec => TogglesCancel
  <1>1. ASSUME IInv, Next, NEW t \in Task, Toggles(t), told # None, fresh
        PROVE  th'[t].want = Toggled(told)
    <2>1. Resolve(t)
      BY <1>1, OnlyResolves
    <2>2. ~ \E s \in Task : OnItsWay(s)
      BY <1>1, OneCallOK DEF Toggles, OneCall, OnItsWay, Busy
    <2>3. Current = told
      BY <1>1, <2>2 DEF IInv, CommandInv, Current
    <2> QED
      BY <1>1, <2>1, <2>3 DEF Resolve, Goto, Toggles, IInv, TypeOK, Values, Caller
  <1>2. ASSUME NEW t \in Task, Toggles(t), UNCHANGED vars
        PROVE  FALSE
    BY <1>2 DEF Toggles, vars
  <1>3. IInv /\ [Next]_vars =>
          [\A t \in Task : Toggles(t) /\ told # None /\ fresh => th'[t].want = Toggled(told)]_vars
    BY <1>1, <1>2
  <1> QED
    BY Invariance, <1>3, PTL DEF Spec, TogglesCancel
=============================================================================
