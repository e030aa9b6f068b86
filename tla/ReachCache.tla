----------------------------- MODULE ReachCache -----------------------------
(***************************************************************************)
(* What each person's rooms hold, worked out once per list of rooms and    *)
(* revision of the registry: Core::reach_for, registry_revision and the    *)
(* reaches cache of crates/irori-core/src/lib.rs, against the tasks that   *)
(* change the home and publish what they changed.                          *)
(*                                                                         *)
(* A home is abstracted to how many registry changes have been made to it, *)
(* and what a list of rooms holds to the home it was worked out from.  The *)
(* changes are numbered in the order they are made; one hold of the home's *)
(* write lock may make several, each with an event of its own.             *)
(***************************************************************************)
EXTENDS Naturals, Sequences

CONSTANTS
    Writer,      \* tasks that change the home
    Reader,      \* tasks that ask what a list of rooms holds
    List,        \* lists of rooms, sorted and without doubles
    None,        \* no reader, no entry
    MaxEvents,   \* bound: registry events in all
    MaxBatch     \* most events one change to the home causes

ASSUME ReachAssumption ==
    /\ None \notin Reader
    /\ None \notin [at : Nat, held : Nat]
    /\ MaxEvents \in Nat
    /\ MaxBatch \in Nat

VARIABLES
    home,       \* Core.home: how many changes have been made to it
    counted,    \* the changes in the order they were counted: the
                \* registry_revision is how many there are
    announced,  \* the changes whose event has been sent
    todo,       \* per writer: the events of its change still to publish
    told,       \* per writer: it has counted the first of them
    holder,     \* the reader that has the reaches mutex
    cache,      \* the reaches: per list, an entry or None
    rd,         \* the readers
    given,      \* history: the last answer given for each list
    before      \* history: per reader, what was announced before it asked

wvars == <<todo, told, announced>>
vars == <<home, counted, announced, todo, told, holder, cache, rd, given, before>>

-----------------------------------------------------------------------------
Revision == Len(counted)

Event == 1..MaxEvents

Entry == [at : Nat, held : Nat]

Question(pc, l) == [pc |-> pc, list |-> l, at |-> 0, held |-> 0]

-----------------------------------------------------------------------------
(* Core::change and Core::publish. *)

\* The change, under the home's write lock.
Change(w) ==
    /\ todo[w] = <<>>
    /\ \E k \in 1..MaxBatch :
        /\ home + k <= MaxEvents
        /\ home' = home + k
        /\ todo' = [todo EXCEPT ![w] = [i \in 1..k |-> home + i]]
    /\ UNCHANGED <<counted, announced, told, holder, cache, rd, given, before>>

\* publish: the revision is counted up before the event goes out.
Count(w) ==
    /\ todo[w] # <<>>
    /\ ~told[w]
    /\ counted' = Append(counted, Head(todo[w]))
    /\ told' = [told EXCEPT ![w] = TRUE]
    /\ UNCHANGED <<home, announced, todo, holder, cache, rd, given, before>>

\* Mutated form of SendEvent: the event goes out without waiting for the count.
SendEarly(w) ==
    /\ todo[w] # <<>>
    /\ announced' = announced \cup {Head(todo[w])}
    /\ IF told[w]
       THEN todo' = [todo EXCEPT ![w] = Tail(@)] /\ told' = [told EXCEPT ![w] = FALSE]
       ELSE UNCHANGED <<todo, told>>
    /\ UNCHANGED <<home, counted, holder, cache, rd, given, before>>

\* publish: the event is sent to whoever listens.
SendEvent(w) ==
    /\ todo[w] # <<>>
    /\ told[w]
    /\ announced' = announced \cup {Head(todo[w])}
    /\ todo' = [todo EXCEPT ![w] = Tail(@)]
    /\ told' = [told EXCEPT ![w] = FALSE]
    /\ UNCHANGED <<home, counted, holder, cache, rd, given, before>>

-----------------------------------------------------------------------------
(* Core::reach_for. *)

\* Somebody asks, having heard what was announced.
Ask(r, l) ==
    /\ rd[r].pc = "idle"
    /\ rd' = [rd EXCEPT ![r] = Question("load", l)]
    /\ before' = [before EXCEPT ![r] = announced]
    /\ UNCHANGED <<home, counted, wvars, holder, cache, given>>

\* "The revision first".
Load(r) ==
    /\ rd[r].pc = "load"
    /\ rd' = [rd EXCEPT ![r] = [@ EXCEPT !.pc = "lookup", !.at = Revision]]
    /\ UNCHANGED <<home, counted, wvars, holder, cache, given, before>>

\* The answer to r's question, which ends it.
Answer(r, held) ==
    /\ rd' = [rd EXCEPT ![r] = [@ EXCEPT !.pc = "idle", !.held = held]]
    /\ given' = [given EXCEPT ![rd[r].list] = held]

\* Mutated form of LookUp: a miss lets the mutex go while it is worked out.
LookUpUnlocked(r) ==
    LET entry == cache[rd[r].list] IN
    /\ rd[r].pc = "lookup"
    /\ holder = None
    /\ \/ /\ entry # None /\ entry.at = rd[r].at
          /\ Answer(r, entry.held)
       \/ /\ ~(entry # None /\ entry.at = rd[r].at)
          /\ rd' = [rd EXCEPT ![r] = [@ EXCEPT !.pc = "read"]]
          /\ UNCHANGED given
    /\ UNCHANGED <<home, counted, wvars, holder, cache, before>>

\* Mutated form of LookUp: a hit is answered with the mutex still held.
LookUpKeepsLock(r) ==
    LET entry == cache[rd[r].list] IN
    /\ rd[r].pc = "lookup"
    /\ holder = None
    /\ holder' = r
    /\ \/ /\ entry # None /\ entry.at = rd[r].at
          /\ Answer(r, entry.held)
       \/ /\ ~(entry # None /\ entry.at = rd[r].at)
          /\ rd' = [rd EXCEPT ![r] = [@ EXCEPT !.pc = "read"]]
          /\ UNCHANGED given
    /\ UNCHANGED <<home, counted, wvars, cache, before>>

\* Under the mutex: an entry of the revision loaded answers at once.
LookUp(r) ==
    LET entry == cache[rd[r].list] IN
    /\ rd[r].pc = "lookup"
    /\ holder = None
    /\ \/ /\ entry # None /\ entry.at = rd[r].at
          /\ Answer(r, entry.held)
          /\ UNCHANGED holder
       \/ /\ ~(entry # None /\ entry.at = rd[r].at)
          /\ rd' = [rd EXCEPT ![r] = [@ EXCEPT !.pc = "read"]]
          /\ holder' = r
          /\ UNCHANGED given
    /\ UNCHANGED <<home, counted, wvars, cache, before>>

\* Rooms::of, under the home's read lock as well.
ReadHome(r) ==
    /\ rd[r].pc = "read"
    /\ rd' = [rd EXCEPT ![r] = [@ EXCEPT !.pc = "insert", !.held = home]]
    /\ UNCHANGED <<home, counted, wvars, holder, cache, given, before>>

\* Mutated form of Insert: stamped with the revision as it is by now.
InsertStampedNow(r) ==
    /\ rd[r].pc = "insert"
    /\ cache' = [l \in List |->
                    IF l = rd[r].list THEN [at |-> Revision, held |-> rd[r].held]
                    ELSE IF cache[l] # None /\ cache[l].at = Revision THEN cache[l]
                    ELSE None]
    /\ holder' = None
    /\ Answer(r, rd[r].held)
    /\ UNCHANGED <<home, counted, wvars, before>>

\* What is of another revision is dropped, the new entry kept, and the mutex
\* let go.
Insert(r) ==
    /\ rd[r].pc = "insert"
    /\ cache' = [l \in List |->
                    IF l = rd[r].list THEN [at |-> rd[r].at, held |-> rd[r].held]
                    ELSE IF cache[l] # None /\ cache[l].at = rd[r].at THEN cache[l]
                    ELSE None]
    /\ holder' = None
    /\ Answer(r, rd[r].held)
    /\ UNCHANGED <<home, counted, wvars, before>>

-----------------------------------------------------------------------------
Init ==
    /\ home = 0
    /\ counted = <<>>
    /\ announced = {}
    /\ todo = [w \in Writer |-> <<>>]
    /\ told = [w \in Writer |-> FALSE]
    /\ holder = None
    /\ cache = [l \in List |-> None]
    /\ rd \in [Reader -> {Question("idle", l) : l \in List}]
    /\ given = [l \in List |-> 0]
    /\ before = [r \in Reader |-> {}]

Next ==
    \/ \E w \in Writer : Change(w) \/ Count(w) \/ SendEvent(w)
    \/ \E r \in Reader :
        \/ \E l \in List : Ask(r, l)
        \/ Load(r) \/ LookUp(r) \/ ReadHome(r) \/ Insert(r)

Spec == Init /\ [][Next]_vars

-----------------------------------------------------------------------------
ReaderState ==
    [pc : {"idle", "load", "lookup", "read", "insert"}, list : List,
     at : Nat, held : Nat]

\* Type correctness, and the mutex: a reader past its lookup is the one that
\* has it, and whoever has it is past its lookup.
TypeOK ==
    /\ home \in 0..MaxEvents
    /\ counted \in Seq(Event)
    /\ announced \in SUBSET Event
    /\ todo \in [Writer -> Seq(Event)]
    /\ told \in [Writer -> BOOLEAN]
    /\ holder \in Reader \cup {None}
    /\ cache \in [List -> Entry \cup {None}]
    /\ rd \in [Reader -> ReaderState]
    /\ \A r \in Reader : rd[r].pc \in {"read", "insert"} <=> holder = r
    /\ given \in [List -> Nat]
    /\ before \in [Reader -> SUBSET Event]

\* "Never newer": an entry was worked out from a home with every change that
\* was counted by the revision it is kept under (reach_for loads the revision
\* before it reads the home).
NeverNewer ==
    \A l \in List : cache[l] # None =>
        \A i \in 1..cache[l].at : counted[i] <= cache[l].held

\* "Whoever hears it and asks gets an answer that includes it": the answer of
\* reach_for includes every change announced before it was asked.
Fresh ==
    [][\A r \in Reader : rd[r].pc \in {"lookup", "insert"} /\ rd'[r].pc = "idle"
            => \A c \in before[r] : c <= rd'[r].held]_vars

\* What a list of rooms holds never goes back in time: each answer for it is
\* worked out from at least the changes of the answer before, however the
\* readers race (the mutex is held while an answer is worked out).
NeverBack ==
    [][\A l \in List : given[l] <= given'[l]]_vars
=============================================================================
