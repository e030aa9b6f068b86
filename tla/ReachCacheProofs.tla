-------------------------- MODULE ReachCacheProofs --------------------------
(***************************************************************************)
(* Proofs about ReachCache, for any writers, readers, lists of rooms and   *)
(* bounds.  The argument: what is counted has been made, what is announced *)
(* has been counted, and a reader loads the revision before it reads the   *)
(* home, so an answer kept under a revision has every change counted by    *)
(* then; the mutex keeps the answers for a list in the order of the homes  *)
(* they were worked out from.                                              *)
(***************************************************************************)
EXTENDS ReachCache, TLAPS

\* Change c is among the first n counted.
CountedBy(c, n) == \E i \in 1..n : counted[i] = c

\* The tasks that publish: what they have to tell is made, and the event they
\* send next is counted.
WriterInv ==
    /\ \A w \in Writer : \A i \in 1..Len(todo[w]) : todo[w][i] <= home
    /\ \A w \in Writer : told[w] =>
        todo[w] # <<>> /\ CountedBy(Head(todo[w]), Len(counted))
    /\ \A i \in 1..Len(counted) : counted[i] <= home
    /\ \A c \in announced : CountedBy(c, Len(counted))

\* What was announced before a reader asked is counted by the revision it has
\* loaded, and what it has read of the home has all that revision counts.
ReaderInv ==
    \A r \in Reader :
        /\ rd[r].pc = "load" => before[r] \subseteq announced
        /\ rd[r].pc \in {"lookup", "read", "insert"} =>
            /\ rd[r].at <= Len(counted)
            /\ \A c \in before[r] : CountedBy(c, rd[r].at)
        /\ rd[r].pc = "insert" =>
            /\ rd[r].held <= home
            /\ \A i \in 1..rd[r].at : counted[i] <= rd[r].held
            /\ given[rd[r].list] <= rd[r].held

\* The entries, and the last answers given, against the home.
CacheInv ==
    \A l \in List :
        /\ given[l] <= home
        /\ cache[l] # None =>
            /\ cache[l].at <= Len(counted)
            /\ cache[l].held <= home
            /\ given[l] <= cache[l].held

IInv == TypeOK /\ WriterInv /\ ReaderInv /\ CacheInv /\ NeverNewer

-----------------------------------------------------------------------------
\* Before anything happened no cache entry, writer or reader can be behind or
\* ahead of the home (Core::new and an empty ReachCache).
LEMMA InitIInv == Init => IInv
  <1> SUFFICES ASSUME Init PROVE IInv
    OBVIOUS
  <1>0. rd \in [Reader -> ReaderState] /\ \A r \in Reader : rd[r].pc = "idle"
    <2>1. ASSUME NEW l \in List
          PROVE  Question("idle", l) \in ReaderState /\ Question("idle", l).pc = "idle"
      BY DEF Question, ReaderState
    <2> QED
      BY <2>1 DEF Init
  <1>1. TypeOK
    <2>1. counted \in Seq(Event) /\ todo \in [Writer -> Seq(Event)]
      BY DEF Init
    <2> QED
      BY <1>0, <2>1, ReachAssumption DEF Init, TypeOK
  <1>2. WriterInv /\ ReaderInv /\ CacheInv /\ NeverNewer
    BY <1>0 DEF Init, WriterInv, ReaderInv, CacheInv, NeverNewer, CountedBy
  <1> QED
    BY <1>1, <1>2 DEF IInv

\* The change of one writer only makes the home later.
LEMMA ChangeIInv ==
  ASSUME IInv, NEW w \in Writer, Change(w)
  PROVE  IInv'
  <1>0. PICK k \in 1..MaxBatch :
            /\ home + k <= MaxEvents
            /\ home' = home + k
            /\ todo' = [todo EXCEPT ![w] = [i \in 1..k |-> home + i]]
    BY DEF Change
  <1>1. /\ k \in Nat \ {0} /\ home \in Nat /\ home' \in Nat /\ home <= home'
        /\ MaxEvents \in Nat
    BY <1>0, ReachAssumption DEF IInv, TypeOK
  <1>2. UNCHANGED <<counted, announced, told, holder, cache, rd, given, before>> /\ todo[w] = <<>>
    BY DEF Change
  <1> DEFINE new == [i \in 1..k |-> home + i]
  <1>3. new \in Seq(Event) /\ Len(new) = k /\ \A i \in 1..k : new[i] <= home'
    BY <1>0, <1>1 DEF Event
  <1> HIDE DEF new
  <1>4. TypeOK'
    BY <1>0, <1>1, <1>2, <1>3 DEF IInv, TypeOK, new
  <1>5. todo' = [todo EXCEPT ![w] = new]
    BY <1>0 DEF new
  <1>6. WriterInv'
    <2>1. \A v \in Writer : \A i \in 1..Len(todo'[v]) : todo'[v][i] <= home'
      BY <1>1, <1>3, <1>5 DEF IInv, TypeOK, WriterInv, Event
    <2>2. \A v \in Writer : told[v] => v # w
      BY <1>2 DEF IInv, WriterInv
    <2>3. \A i \in 1..Len(counted) : counted[i] <= home'
      BY <1>1 DEF IInv, TypeOK, WriterInv, Event
    <2> QED
      BY <1>2, <1>5, <2>1, <2>2, <2>3 DEF IInv, TypeOK, WriterInv, CountedBy
  <1>7. ReaderInv' /\ CacheInv' /\ NeverNewer'
    BY <1>1, <1>2 DEF IInv, TypeOK, ReaderState, Entry, ReaderInv, CacheInv, NeverNewer, CountedBy
  <1> QED
    BY <1>4, <1>6, <1>7 DEF IInv

\* Counting makes every entry and every loaded revision older, and leaves what
\* they count as it was.
LEMMA CountIInv ==
  ASSUME IInv, NEW w \in Writer, Count(w)
  PROVE  IInv'
  <1> DEFINE c == Head(todo[w])
  <1>1. /\ counted \in Seq(Event) /\ todo[w] \in Seq(Event) /\ todo[w] # <<>>
        /\ Len(todo[w]) >= 1 /\ c = todo[w][1] /\ c \in Event /\ c <= home /\ home \in Nat
    BY DEF IInv, TypeOK, WriterInv, Count
  <1>2. /\ counted' = Append(counted, c)
        /\ told' = [told EXCEPT ![w] = TRUE]
        /\ UNCHANGED <<home, announced, todo, holder, cache, rd, given, before>>
    BY DEF Count
  <1> HIDE DEF c
  <1>3. /\ counted' \in Seq(Event)
        /\ Len(counted) \in Nat
        /\ Len(counted') = Len(counted) + 1
        /\ counted'[Len(counted')] = c
        /\ \A i \in 1..Len(counted) : counted'[i] = counted[i]
    BY <1>1, <1>2
  <1>4. \A d, n : n \in 0..Len(counted) /\ CountedBy(d, n) => CountedBy(d, n)'
    BY <1>3 DEF CountedBy
  <1>5. \A d : CountedBy(d, Len(counted)) => CountedBy(d, Len(counted))'
    BY <1>3 DEF CountedBy
  <1>6. TypeOK'
    BY <1>2, <1>3 DEF IInv, TypeOK
  <1>7. WriterInv'
    <2>1. \E i \in 1..Len(counted') : counted'[i] = c
      BY <1>3
    <2>2. \A v \in Writer : told'[v] =>
            todo'[v] # <<>> /\ CountedBy(Head(todo[v]), Len(counted))'
      BY <1>1, <1>2, <1>5, <2>1 DEF IInv, TypeOK, WriterInv, CountedBy, c
    <2>3. \A i \in 1..Len(counted') : counted'[i] <= home'
      BY <1>1, <1>2, <1>3 DEF IInv, WriterInv
    <2>4. \A d \in announced' : CountedBy(d, Len(counted))'
      BY <1>2, <1>5 DEF IInv, WriterInv
    <2> QED
      BY <1>2, <2>2, <2>3, <2>4 DEF IInv, WriterInv, CountedBy
  <1>8. ReaderInv'
    <2> SUFFICES ASSUME NEW r \in Reader
                 PROVE  /\ rd[r].pc = "load" => before[r] \subseteq announced
                        /\ rd[r].pc \in {"lookup", "read", "insert"} =>
                            /\ rd[r].at <= Len(counted')
                            /\ \A d \in before[r] : CountedBy(d, rd[r].at)'
                        /\ rd[r].pc = "insert" =>
                            /\ rd[r].held <= home
                            /\ \A i \in 1..rd[r].at : counted'[i] <= rd[r].held
                            /\ given[rd[r].list] <= rd[r].held
      BY <1>2 DEF ReaderInv, CountedBy
    <2>1. rd[r].at \in Nat
      BY DEF IInv, TypeOK, ReaderState
    <2>2. rd'[r].at = rd[r].at
      BY <1>2
    <2> QED
      BY <1>3, <1>4, <2>1, <2>2 DEF IInv, ReaderInv, CountedBy
  <1>9. CacheInv' /\ NeverNewer'
    <2> SUFFICES ASSUME NEW l \in List, cache[l] # None
                 PROVE  /\ cache[l].at <= Len(counted')
                        /\ \A i \in 1..cache[l].at : counted'[i] <= cache[l].held
      BY <1>2 DEF IInv, CacheInv, NeverNewer
    <2>1. cache[l].at \in Nat
      BY DEF IInv, TypeOK, Entry
    <2> QED
      BY <1>3, <2>1 DEF IInv, CacheInv, NeverNewer
  <1> QED
    BY <1>6, <1>7, <1>8, <1>9 DEF IInv

\* Only what is counted is announced.
LEMMA SendEventIInv ==
  ASSUME IInv, NEW w \in Writer, SendEvent(w)
  PROVE  IInv'
  <1> DEFINE c == Head(todo[w])
  <1>1. /\ todo[w] \in Seq(Event) /\ todo[w] # <<>>
        /\ Tail(todo[w]) \in Seq(Event)
        /\ c \in Event
        /\ CountedBy(c, Len(counted))
        /\ Len(Tail(todo[w])) = Len(todo[w]) - 1
        /\ \A i \in 1..Len(Tail(todo[w])) :
            i + 1 \in 1..Len(todo[w]) /\ Tail(todo[w])[i] = todo[w][i + 1]
    BY DEF IInv, TypeOK, WriterInv, SendEvent
  <1>2. /\ announced' = announced \cup {c}
        /\ todo' = [todo EXCEPT ![w] = Tail(todo[w])]
        /\ told' = [told EXCEPT ![w] = FALSE]
        /\ UNCHANGED <<home, counted, holder, cache, rd, given, before>>
    BY DEF SendEvent
  <1> HIDE DEF c
  <1>3. TypeOK'
    BY <1>1, <1>2 DEF IInv, TypeOK
  <1>4. WriterInv'
    <2>1. \A v \in Writer : \A i \in 1..Len(todo'[v]) : todo'[v][i] <= home'
      BY <1>1, <1>2 DEF IInv, TypeOK, WriterInv
    <2>2. \A v \in Writer : told'[v] => v # w /\ told[v] /\ todo'[v] = todo[v]
      BY <1>2 DEF IInv, TypeOK
    <2> QED
      BY <1>1, <1>2, <2>1, <2>2 DEF IInv, WriterInv, CountedBy
  <1>5. ReaderInv' /\ CacheInv' /\ NeverNewer'
    BY <1>2 DEF IInv, ReaderInv, CacheInv, NeverNewer, CountedBy
  <1> QED
    BY <1>3, <1>4, <1>5 DEF IInv

\* Asking, the reader has heard what is announced by now.
LEMMA AskIInv ==
  ASSUME IInv, NEW r \in Reader, NEW l \in List, Ask(r, l)
  PROVE  IInv'
  <1>1. /\ rd' = [rd EXCEPT ![r] = Question("load", l)]
        /\ before' = [before EXCEPT ![r] = announced]
        /\ UNCHANGED <<home, counted, announced, todo, told, holder, cache, given>>
    BY DEF Ask, wvars
  <1>2. Question("load", l) \in ReaderState /\ Question("load", l).pc = "load"
    BY DEF Question, ReaderState
  <1>3. rd[r].pc = "idle"
    BY DEF Ask
  <1>4. TypeOK'
    BY <1>1, <1>2, <1>3 DEF IInv, TypeOK
  <1>5. ReaderInv'
    BY <1>1, <1>2 DEF IInv, TypeOK, ReaderInv, CountedBy
  <1>6. WriterInv' /\ CacheInv' /\ NeverNewer'
    BY <1>1 DEF IInv, WriterInv, CacheInv, NeverNewer, CountedBy
  <1> QED
    BY <1>4, <1>5, <1>6 DEF IInv

\* The revision it loads counts all it has heard.
LEMMA LoadIInv ==
  ASSUME IInv, NEW r \in Reader, Load(r)
  PROVE  IInv'
  <1>1. /\ rd[r].pc = "load"
        /\ rd' = [rd EXCEPT ![r] = [rd[r] EXCEPT !.pc = "lookup", !.at = Len(counted)]]
        /\ UNCHANGED <<home, counted, announced, todo, told, holder, cache, given, before>>
    BY DEF Load, wvars, Revision
  <1>2. Len(counted) \in Nat /\ rd[r] \in ReaderState
    BY DEF IInv, TypeOK
  <1>3. /\ rd'[r] \in ReaderState /\ rd'[r].pc = "lookup" /\ rd'[r].at = Len(counted)
        /\ \A s \in Reader : s # r => rd'[s] = rd[s]
    BY <1>1, <1>2 DEF IInv, TypeOK, ReaderState
  <1>4. TypeOK'
    BY <1>1, <1>3 DEF IInv, TypeOK
  <1>5. ReaderInv'
    <2>1. \A c \in before[r] : CountedBy(c, Len(counted))
      BY <1>1 DEF IInv, ReaderInv, WriterInv
    <2> QED
      BY <1>1, <1>2, <1>3, <2>1 DEF IInv, ReaderInv, CountedBy
  <1>6. WriterInv' /\ CacheInv' /\ NeverNewer'
    BY <1>1 DEF IInv, WriterInv, CacheInv, NeverNewer, CountedBy
  <1> QED
    BY <1>4, <1>5, <1>6 DEF IInv

\* Where a reader goes idle with an answer that has all it was asked to have.
\* (Stated apart because a hit and an insertion answer alike.)
LEMMA AnswerFacts ==
  ASSUME IInv, NEW r \in Reader, NEW h \in Nat, Answer(r, h)
  PROVE  /\ rd' \in [Reader -> ReaderState]
         /\ rd'[r].pc = "idle" /\ rd'[r].held = h
         /\ \A s \in Reader : s # r => rd'[s] = rd[s]
         /\ rd[r].list \in List
         /\ given' \in [List -> Nat]
         /\ given'[rd[r].list] = h
         /\ \A l \in List : l # rd[r].list => given'[l] = given[l]
  BY DEF IInv, TypeOK, ReaderState, Answer

\* A hit: the entry is of the revision loaded, so it has all that counts.
LEMMA HitIInv ==
  ASSUME IInv, NEW r \in Reader, rd[r].pc = "lookup", holder = None,
         cache[rd[r].list] # None, cache[rd[r].list].at = rd[r].at,
         Answer(r, cache[rd[r].list].held),
         UNCHANGED <<home, counted, announced, todo, told, holder, cache, before>>
  PROVE  /\ IInv'
         /\ \A c \in before[r] : c <= rd'[r].held
         /\ \A l \in List : given[l] <= given'[l]
  <1> DEFINE l0 == rd[r].list
             h == cache[l0].held
  <1>1. l0 \in List /\ cache[l0] \in Entry /\ h \in Nat
    BY DEF IInv, TypeOK, ReaderState, Entry
  <1>2. /\ rd' \in [Reader -> ReaderState]
        /\ rd'[r].pc = "idle" /\ rd'[r].held = h
        /\ \A s \in Reader : s # r => rd'[s] = rd[s]
        /\ given' \in [List -> Nat]
        /\ given'[l0] = h
        /\ \A l \in List : l # l0 => given'[l] = given[l]
    BY <1>1, AnswerFacts
  <1>3. given[l0] <= h /\ h <= home
    BY <1>1 DEF IInv, CacheInv
  <1>4. \A l \in List : given[l] <= given'[l]
    <2>1. \A l \in List : given[l] \in Nat
      BY DEF IInv, TypeOK
    <2> QED
      BY <1>2, <1>3, <2>1
  <1>5. \A c \in before[r] : c <= h
    BY <1>1 DEF IInv, ReaderInv, NeverNewer, CountedBy
  <1>6. \A s \in Reader : rd[s].pc \notin {"read", "insert"}
    BY ReachAssumption DEF IInv, TypeOK
  <1>7. TypeOK'
    BY <1>2, <1>6, ReachAssumption DEF IInv, TypeOK
  <1>8. ReaderInv'
    BY <1>2, <1>6 DEF IInv, ReaderInv, CountedBy
  <1>9. CacheInv'
    BY <1>1, <1>2, <1>3 DEF IInv, CacheInv
  <1>10. WriterInv' /\ NeverNewer'
    BY DEF IInv, WriterInv, NeverNewer, CountedBy
  <1> QED
    BY <1>2, <1>4, <1>5, <1>7, <1>8, <1>9, <1>10 DEF IInv

\* A miss: the reader has the mutex from here on.
LEMMA MissIInv ==
  ASSUME IInv, NEW r \in Reader, rd[r].pc = "lookup", holder = None,
         rd' = [rd EXCEPT ![r] = [@ EXCEPT !.pc = "read"]], holder' = r,
         UNCHANGED <<home, counted, announced, todo, told, cache, given, before>>
  PROVE  IInv'
  <1>1. /\ rd' \in [Reader -> ReaderState]
        /\ rd'[r].pc = "read" /\ rd'[r].at = rd[r].at
        /\ \A s \in Reader : s # r => rd'[s] = rd[s]
    BY DEF IInv, TypeOK, ReaderState
  <1>2. TypeOK'
    BY <1>1, ReachAssumption DEF IInv, TypeOK
  <1>3. ReaderInv'
    BY <1>1 DEF IInv, ReaderInv, CountedBy
  <1>4. WriterInv' /\ CacheInv' /\ NeverNewer'
    BY DEF IInv, WriterInv, CacheInv, NeverNewer, CountedBy
  <1> QED
    BY <1>2, <1>3, <1>4 DEF IInv

\* The home it reads has every change counted by the revision it loaded.
LEMMA ReadHomeIInv ==
  ASSUME IInv, NEW r \in Reader, ReadHome(r)
  PROVE  IInv'
  <1>1. /\ rd[r].pc = "read"
        /\ rd' = [rd EXCEPT ![r] = [rd[r] EXCEPT !.pc = "insert", !.held = home]]
        /\ UNCHANGED <<home, counted, announced, todo, told, holder, cache, given, before>>
    BY DEF ReadHome, wvars
  <1>2. /\ rd' \in [Reader -> ReaderState]
        /\ rd'[r].pc = "insert" /\ rd'[r].at = rd[r].at /\ rd'[r].list = rd[r].list
        /\ rd'[r].held = home
        /\ rd[r].at \in Nat /\ rd[r].list \in List /\ home \in Nat
        /\ \A s \in Reader : s # r => rd'[s] = rd[s]
    <2>1. home \in Nat /\ rd[r] \in ReaderState
      BY ReachAssumption DEF IInv, TypeOK
    <2>2. [rd[r] EXCEPT !.pc = "insert", !.held = home] \in ReaderState
      BY <2>1 DEF ReaderState
    <2> QED
      BY <1>1, <2>1, <2>2 DEF IInv, TypeOK, ReaderState
  <1>3. TypeOK'
    BY <1>1, <1>2 DEF IInv, TypeOK
  <1>4. ReaderInv'
    <2>1. /\ rd[r].at <= Len(counted) /\ Len(counted) \in Nat
          /\ \A c \in before[r] : CountedBy(c, rd[r].at)
      BY <1>1 DEF IInv, TypeOK, ReaderInv
    <2>2. \A i \in 1..rd[r].at : counted[i] <= home
      BY <1>2, <2>1 DEF IInv, WriterInv
    <2>3. given[rd[r].list] <= home
      BY <1>2 DEF IInv, CacheInv
    <2> QED
      BY <1>1, <1>2, <2>1, <2>2, <2>3 DEF IInv, ReaderInv, CountedBy
  <1>5. WriterInv' /\ CacheInv' /\ NeverNewer'
    BY <1>1 DEF IInv, WriterInv, CacheInv, NeverNewer, CountedBy
  <1> QED
    BY <1>3, <1>4, <1>5 DEF IInv

\* An insertion: the new entry is as good as what it was worked out from, and
\* what stays of the others was good before.
LEMMA InsertIInv ==
  ASSUME IInv, NEW r \in Reader, Insert(r)
  PROVE  /\ IInv'
         /\ \A c \in before[r] : c <= rd'[r].held
         /\ \A l \in List : given[l] <= given'[l]
  <1> DEFINE l0 == rd[r].list
             h == rd[r].held
             a == rd[r].at
  <1>1. /\ rd[r].pc = "insert" /\ Answer(r, h)
        /\ holder' = None
        /\ cache' = [l \in List |->
                        IF l = l0 THEN [at |-> a, held |-> h]
                        ELSE IF cache[l] # None /\ cache[l].at = a THEN cache[l]
                        ELSE None]
        /\ UNCHANGED <<home, counted, announced, todo, told, before>>
    BY DEF Insert, wvars
  <1>2. l0 \in List /\ h \in Nat /\ a \in Nat /\ holder = r
    BY <1>1 DEF IInv, TypeOK, ReaderState
  <1>3. /\ a <= Len(counted) /\ h <= home /\ given[l0] <= h
        /\ \A c \in before[r] : CountedBy(c, a)
        /\ \A i \in 1..a : counted[i] <= h
    BY <1>1 DEF IInv, ReaderInv
  <1>4. /\ rd' \in [Reader -> ReaderState]
        /\ rd'[r].pc = "idle" /\ rd'[r].held = h
        /\ \A s \in Reader : s # r => rd'[s] = rd[s]
        /\ given' \in [List -> Nat]
        /\ given'[l0] = h
        /\ \A l \in List : l # l0 => given'[l] = given[l]
    BY <1>1, <1>2, AnswerFacts
  <1>5. \A s \in Reader : s # r => rd[s].pc \notin {"read", "insert"}
    BY <1>2 DEF IInv, TypeOK
  <1>6. /\ cache'[l0] = [at |-> a, held |-> h]
        /\ \A l \in List : l # l0 => cache'[l] \in {cache[l], None}
        /\ cache' \in [List -> Entry \cup {None}]
    BY <1>1, <1>2 DEF IInv, TypeOK, Entry
  <1>7. \A l \in List : given[l] <= given'[l]
    <2>1. \A l \in List : given[l] \in Nat
      BY DEF IInv, TypeOK
    <2> QED
      BY <1>3, <1>4, <2>1
  <1>8. \A c \in before[r] : c <= h
    BY <1>3 DEF CountedBy
  <1>9. TypeOK'
    BY <1>1, <1>4, <1>5, <1>6, ReachAssumption DEF IInv, TypeOK
  <1>10. ReaderInv'
    BY <1>1, <1>4, <1>5 DEF IInv, ReaderInv, CountedBy
  <1>11. CacheInv' /\ NeverNewer'
    <2> SUFFICES ASSUME NEW l \in List
                 PROVE  /\ given'[l] <= home
                        /\ cache'[l] # None =>
                            /\ cache'[l].at <= Len(counted)
                            /\ cache'[l].held <= home
                            /\ given'[l] <= cache'[l].held
                            /\ \A i \in 1..cache'[l].at : counted[i] <= cache'[l].held
      BY <1>1 DEF CacheInv, NeverNewer
    <2>1. CASE l = l0
      BY <1>2, <1>3, <1>4, <1>6, <2>1
    <2>2. CASE l # l0
      BY <1>4, <1>6, <2>2 DEF IInv, CacheInv, NeverNewer
    <2> QED
      BY <2>1, <2>2
  <1>12. WriterInv'
    BY <1>1 DEF IInv, WriterInv, CountedBy
  <1> QED
    BY <1>4, <1>7, <1>8, <1>9, <1>10, <1>11, <1>12 DEF IInv

-----------------------------------------------------------------------------
\* What a step does to the answers: the two action properties, one step each.
StepFresh ==
    \A r \in Reader : rd[r].pc \in {"lookup", "insert"} /\ rd'[r].pc = "idle"
            => \A c \in before[r] : c <= rd'[r].held

StepNeverBack == \A l \in List : given[l] <= given'[l]

\* Every step keeps the inductive invariant, and answers well.
LEMMA NextIInv ==
  ASSUME IInv, [Next]_vars
  PROVE  IInv' /\ StepFresh /\ StepNeverBack
  <1>0. \A l \in List : given[l] \in Nat
    BY DEF IInv, TypeOK
  <1>1. CASE UNCHANGED vars
    <2>1. IInv'
      BY <1>1 DEF vars, IInv, TypeOK, WriterInv, ReaderInv, CacheInv, NeverNewer, CountedBy
    <2> QED
      BY <1>0, <1>1, <2>1 DEF vars, StepFresh, StepNeverBack
  <1>2. ASSUME NEW w \in Writer, Change(w) \/ Count(w) \/ SendEvent(w)
        PROVE  IInv' /\ StepFresh /\ StepNeverBack
    <2>1. IInv'
      BY <1>2, ChangeIInv, CountIInv, SendEventIInv
    <2>2. UNCHANGED <<rd, given>>
      BY <1>2 DEF Change, Count, SendEvent
    <2> QED
      BY <1>0, <2>1, <2>2 DEF StepFresh, StepNeverBack
  <1>3. ASSUME NEW r \in Reader, NEW l \in List, Ask(r, l)
        PROVE  IInv' /\ StepFresh /\ StepNeverBack
    <2>1. IInv'
      BY <1>3, AskIInv
    <2>2. /\ UNCHANGED given /\ rd'[r].pc = "load"
          /\ \A s \in Reader : s # r => rd'[s] = rd[s]
      BY <1>3 DEF Ask, Question, IInv, TypeOK
    <2> QED
      BY <1>0, <2>1, <2>2 DEF StepFresh, StepNeverBack
  <1>4. ASSUME NEW r \in Reader, Load(r) \/ ReadHome(r)
        PROVE  IInv' /\ StepFresh /\ StepNeverBack
    <2>1. IInv'
      BY <1>4, LoadIInv, ReadHomeIInv
    <2>2. /\ UNCHANGED given /\ rd'[r].pc \in {"lookup", "insert"}
          /\ \A s \in Reader : s # r => rd'[s] = rd[s]
      <3>1. rd[r] \in ReaderState /\ rd \in [Reader -> ReaderState]
        BY DEF IInv, TypeOK
      <3>2. CASE Load(r)
        BY <3>1, <3>2 DEF Load, ReaderState
      <3>3. CASE ReadHome(r)
        BY <3>1, <3>3 DEF ReadHome, ReaderState
      <3> QED
        BY <1>4, <3>2, <3>3
    <2> QED
      BY <1>0, <2>1, <2>2 DEF StepFresh, StepNeverBack
  <1>5. ASSUME NEW r \in Reader, LookUp(r)
        PROVE  IInv' /\ StepFresh /\ StepNeverBack
    <2> DEFINE entry == cache[rd[r].list]
    <2>1. /\ rd[r].pc = "lookup" /\ holder = None
          /\ UNCHANGED <<home, counted, announced, todo, told, cache, before>>
      BY <1>5 DEF LookUp, wvars
    <2>2. CASE /\ entry # None /\ entry.at = rd[r].at
               /\ Answer(r, entry.held) /\ UNCHANGED holder
      <3>1. /\ IInv' /\ StepNeverBack
            /\ \A c \in before[r] : c <= rd'[r].held
        BY <2>1, <2>2, HitIInv DEF StepNeverBack
      <3>2. \A s \in Reader : s # r => rd'[s] = rd[s]
        BY <2>2 DEF Answer, IInv, TypeOK
      <3> QED
        BY <3>1, <3>2 DEF StepFresh
    <2>3. CASE /\ rd' = [rd EXCEPT ![r] = [@ EXCEPT !.pc = "read"]]
               /\ holder' = r /\ UNCHANGED given
      <3>1. IInv'
        BY <2>1, <2>3, MissIInv
      <3>2. rd'[r].pc = "read" /\ \A s \in Reader : s # r => rd'[s] = rd[s]
        BY <2>3 DEF IInv, TypeOK, ReaderState
      <3> QED
        BY <1>0, <2>3, <3>1, <3>2 DEF StepFresh, StepNeverBack
    <2> QED
      BY <1>5, <2>2, <2>3 DEF LookUp
  <1>6. ASSUME NEW r \in Reader, Insert(r)
        PROVE  IInv' /\ StepFresh /\ StepNeverBack
    <2>1. /\ IInv' /\ StepNeverBack
          /\ \A c \in before[r] : c <= rd'[r].held
      BY <1>6, InsertIInv DEF StepNeverBack
    <2>2. \A s \in Reader : s # r => rd'[s] = rd[s]
      BY <1>6 DEF Insert, Answer, IInv, TypeOK
    <2> QED
      BY <2>1, <2>2 DEF StepFresh
  <1> QED
    BY <1>1, <1>2, <1>3, <1>4, <1>5, <1>6 DEF Next

\* The inductive invariant holds of every behaviour.
THEOREM Inductive == Spec => []IInv
  <1>1. IInv /\ [Next]_vars => IInv'
    BY NextIInv
  <1> QED
    BY InitIInv, <1>1, PTL DEF Spec

\* Type correctness and the discipline of the reaches mutex.
THEOREM TypeCorrect == Spec => []TypeOK
  <1>1. IInv => TypeOK
    BY DEF IInv
  <1> QED
    BY Inductive, <1>1, PTL

\* An entry of the cache never looks newer than the home it was worked out
\* from: reach_for's "asked again, never newer".
THEOREM CacheNeverNewer == Spec => []NeverNewer
  <1>1. IInv => NeverNewer
    BY DEF IInv
  <1> QED
    BY Inductive, <1>1, PTL

\* Whoever hears of a change and asks gets an answer that includes it
\* (registry_revision's promise), for any number of writers and readers.
THEOREM AnswersFresh == Spec => Fresh
  <1>1. IInv /\ [Next]_vars => [StepFresh]_vars
    BY NextIInv
  <1>2. Fresh <=> [][StepFresh]_vars
    BY PTL DEF Fresh, StepFresh
  <1> QED
    BY Inductive, <1>1, <1>2, PTL DEF Spec

\* The answers for one list of rooms never go back in time, however many tasks
\* ask reach_for at once.
THEOREM AnswersNeverBack == Spec => NeverBack
  <1>1. IInv /\ [Next]_vars => [StepNeverBack]_vars
    BY NextIInv
  <1>2. NeverBack <=> [][StepNeverBack]_vars
    BY PTL DEF NeverBack, StepNeverBack
  <1> QED
    BY Inductive, <1>1, <1>2, PTL DEF Spec
=============================================================================
