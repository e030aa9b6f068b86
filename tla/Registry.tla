------------------------------ MODULE Registry ------------------------------
(***************************************************************************)
(* The registry and live state of the home, crates/irori-core/src/home.rs: *)
(* the devices and entities in the home, the devices a protocol has found  *)
(* that nobody added, and the moves between the two.                       *)
(*                                                                         *)
(* Every operation runs under the home's write lock, so each is one        *)
(* action; the operators take the home as a record and return the home     *)
(* they leave, because the code composes them (hold removes, admit         *)
(* describes and reports).  An operation the code refuses leaves the home  *)
(* as it is.  One protocol: keys of two protocols never meet.              *)
(***************************************************************************)
CONSTANTS
    Dev, Ent,    \* unique ids a protocol gives its devices and its entities
    Id, IdOf,    \* device ids, and device_id_for in [Dev -> Id]
    Val,         \* values a device may report
    Vias,        \* [Dev -> SUBSET (Dev \cup {Absent})], what it is described as reached through
    Hosts,       \* [Ent -> SUBSET (Dev \cup {Absent})], the devices it is described on
    Abilities,   \* subset of SUBSET Val: the values an entity's capabilities fit
    Absent       \* not there: None, a key that is missing, no value yet

ASSUME RegistryAssumption ==
    /\ IdOf \in [Dev -> Id]
    /\ Vias \in [Dev -> SUBSET (Dev \cup {Absent})]
    /\ \A u \in Dev : u \notin Vias[u]
    /\ Hosts \in [Ent -> SUBSET (Dev \cup {Absent})]
    /\ Abilities \subseteq SUBSET Val
    /\ Absent \notin Dev \cup Id \cup Val

VARIABLES
    home,      \* Home
    running,   \* the protocol is up: its operations reach the home
    known,     \* history: devices it described and has not removed since
    last       \* history: the last value it reported and the home took

vars == <<home, running, known, last>>

-----------------------------------------------------------------------------
\* DeviceDescription and EntityDescription, as a protocol says them.
DeviceDescription == {d \in [u : Dev, via : Dev \cup {Absent}] : d.via \in Vias[d.u]}
EntityDescription == [on : Dev \cup {Absent}, fits : Abilities]

\* device_keys, devices with device_descriptions, entities with their keys,
\* descriptions and states (each pair is inserted and removed together), found,
\* found_entities, and the devices.toml entries among the settings.
Empty ==
    [keys   |-> [u \in Dev |-> Absent],
     device |-> [i \in Id |-> Absent],
     entity |-> [e \in Ent |-> Absent],
     found  |-> [i \in Id |-> Absent],
     foundOf |-> [e \in Ent |-> Absent],
     added  |-> {}]

InHome(h, i) == h.device[i] # Absent
IsFound(h, i) == h.found[i] # Absent

\* is_held, with ask_before_adding as it always is outside tests.
IsHeld(h, i) == i \notin h.added

\* Mutated form of GoesToFound: only what is found already stays out.
StillFound(h, i) == IsFound(h, i)
\* Mutated form of GoesToFound: only what nobody added stays out.
Unasked(h, i) == IsHeld(h, i)

\* describe_device keeps it among what is found.
GoesToFound(h, i) == IsHeld(h, i) \/ IsFound(h, i)

\* Ids that following via_device_id never leaves.
Closed(h, S) ==
    \A j \in S : InHome(h, j) /\ h.device[j].via # Absent => h.device[j].via \in S

\* reaches: following via_device_id from one device meets the other.  The hops
\* the code counts are enough, as long as there is no loop (ViaOK).
Reaches(h, from, target) == \A S \in SUBSET Id : from \in S /\ Closed(h, S) => target \in S

-----------------------------------------------------------------------------
(* describe_device *)

FoundAs(d) ==
    [said |-> d, ents |-> [e \in Ent |-> Absent],
     reports |-> [e \in Ent |-> Absent], up |-> TRUE]

\* Reached through a device that is only found counts as reached directly.
ViaOf(h, d) == IF d.via # Absent /\ ~IsFound(h, IdOf[d.via]) THEN d.via ELSE Absent

\* Mutated form of ViaId: the handle is kept for the id.
ViaHandle(h, d) == ViaOf(h, d)

\* device_keys of what it is reached through.
ViaId(h, d) == IF ViaOf(h, d) = Absent THEN Absent ELSE h.keys[ViaOf(h, d)]

\* What describe_device refuses: a via it doesn't know, a loop, an id that
\* another handle has.
ViaKnown(h, d) == ViaOf(h, d) # Absent => ViaId(h, d) # Absent
NoLoop(h, d) == ViaId(h, d) # Absent => ~Reaches(h, ViaId(h, d), IdOf[d.u])

\* Mutated form of DeviceAccepted: loops are not looked for.
AcceptedLooping(h, d) ==
    \/ GoesToFound(h, IdOf[d.u])
    \/ ViaKnown(h, d) /\ (h.keys[d.u] = Absent => ~InHome(h, IdOf[d.u]))
\* Mutated form of DeviceAccepted: an id another handle has is taken over.
AcceptedTwice(h, d) ==
    \/ GoesToFound(h, IdOf[d.u])
    \/ ViaKnown(h, d) /\ (h.keys[d.u] # Absent => NoLoop(h, d))

DeviceAccepted(h, d) ==
    \/ GoesToFound(h, IdOf[d.u])
    \/ /\ ViaKnown(h, d)
       /\ IF h.keys[d.u] # Absent THEN NoLoop(h, d) ELSE ~InHome(h, IdOf[d.u])

DescribeDevice(h, d) ==
    LET i == IdOf[d.u]
    IN IF ~DeviceAccepted(h, d) THEN h
       ELSE IF GoesToFound(h, i)
       THEN [h EXCEPT !.found[i] = IF @ = Absent THEN FoundAs(d) ELSE [@ EXCEPT !.said = d]]
       ELSE [h EXCEPT !.keys[d.u] = i,
                      !.device[i] = [u |-> d.u, said |-> d, via |-> ViaId(h, d)]]

-----------------------------------------------------------------------------
(* describe_entity *)

EntityAccepted(h, e, d) ==
    d.on # Absent => IsFound(h, IdOf[d.on]) \/ h.keys[d.on] # Absent

\* A value that no longer fits is forgotten; being described is being in touch.
DescribeEntity(h, e, d) ==
    LET i == IF d.on = Absent THEN Absent ELSE IdOf[d.on]
        old == h.entity[e]
    IN IF ~EntityAccepted(h, e, d) THEN h
       ELSE IF i # Absent /\ IsFound(h, i)
       THEN [h EXCEPT !.foundOf[e] = i, !.found[i].ents[e] = d]
       ELSE [h EXCEPT !.entity[e] =
                [dev |-> IF i = Absent THEN Absent ELSE h.keys[d.on],
                 said |-> d,
                 val |-> IF old # Absent /\ old.val \in d.fits THEN old.val ELSE Absent,
                 up |-> TRUE]]

-----------------------------------------------------------------------------
(* remove_entity, remove_device *)

\* A found device without some of its entities.
FoundWithout(f, es) ==
    [f EXCEPT !.ents = [e \in Ent |-> IF e \in es THEN Absent ELSE f.ents[e]],
              !.reports = [e \in Ent |-> IF e \in es THEN Absent ELSE f.reports[e]]]

RemoveEntity(h, e) ==
    LET i == h.foundOf[e] IN
    IF i # Absent
    THEN [h EXCEPT !.foundOf[e] = Absent,
                   !.found = IF ~IsFound(h, i) THEN h.found
                             ELSE [h.found EXCEPT ![i] = FoundWithout(h.found[i], {e})]]
    ELSE [h EXCEPT !.entity[e] = Absent]

EntitiesOf(h, i) == {e \in Ent : h.entity[e] # Absent /\ h.entity[e].dev = i}

\* Not found any more, nor what belongs to it.
Unfound(h, i) ==
    [h EXCEPT !.found[i] = Absent,
              !.foundOf = [e \in Ent |-> IF h.found[i].ents[e] # Absent
                                         THEN Absent ELSE h.foundOf[e]]]

\* Each entity of the device goes the way remove_entity takes it.
RemoveDevice(h, u) ==
    LET i == h.keys[u]
        owned == EntitiesOf(h, i)
        mislaid(j) == {e \in owned : h.foundOf[e] = j}
    IN IF IsFound(h, IdOf[u]) THEN Unfound(h, IdOf[u])
       ELSE IF i = Absent THEN h
       ELSE [h EXCEPT
                !.keys[u] = Absent,
                !.entity = [e \in Ent |-> IF e \in owned /\ h.foundOf[e] = Absent
                                          THEN Absent ELSE h.entity[e]],
                !.foundOf = [e \in Ent |-> IF e \in owned THEN Absent ELSE h.foundOf[e]],
                !.found = [j \in Id |->
                    IF IsFound(h, j) THEN FoundWithout(h.found[j], mislaid(j)) ELSE Absent],
                !.device = [j \in Id |->
                    IF j = i THEN Absent
                    ELSE IF InHome(h, j) /\ h.device[j].via = i
                    THEN [h.device[j] EXCEPT !.via = Absent]
                    ELSE h.device[j]]]

-----------------------------------------------------------------------------
(* report_state, set_availability, mark_unavailable *)

ReportAccepted(h, e, v) ==
    \/ h.foundOf[e] # Absent
    \/ h.entity[e] # Absent /\ (v = Absent \/ v \in h.entity[e].said.fits)

ReportState(h, e, v) ==
    LET i == h.foundOf[e] IN
    IF ~ReportAccepted(h, e, v) THEN h
    ELSE IF i # Absent
    THEN [h EXCEPT !.found = IF IsFound(h, i)
                             THEN [@ EXCEPT ![i].reports[e] = [val |-> v]] ELSE @]
    ELSE [h EXCEPT !.entity[e].val = v]

SetAvailabilityOf(h, es, up) ==
    [h EXCEPT !.entity = [e \in Ent |-> IF e \in es /\ @[e] # Absent
                                        THEN [@[e] EXCEPT !.up = up] ELSE @[e]]]

SetDeviceAvailability(h, u, up) ==
    IF IsFound(h, IdOf[u]) THEN [h EXCEPT !.found[IdOf[u]].up = up]
    ELSE IF h.keys[u] = Absent THEN h
    ELSE SetAvailabilityOf(h, EntitiesOf(h, h.keys[u]), up)

\* set_availability of one entity: what belongs to a found device is ignored.
SetEntityAvailability(h, e, up) ==
    IF h.foundOf[e] # Absent THEN h ELSE SetAvailabilityOf(h, {e}, up)

MarkUnavailable(h) == SetAvailabilityOf(h, Ent, FALSE)

-----------------------------------------------------------------------------
(* hold and admit *)

FoundFrom(h, i) ==
    LET owned == EntitiesOf(h, i) IN
    [said |-> h.device[i].said,
     ents |-> [e \in Ent |-> IF e \in owned THEN h.entity[e].said ELSE Absent],
     reports |-> [e \in Ent |-> IF e \in owned THEN [val |-> h.entity[e].val] ELSE Absent],
     up |-> \A e \in owned : h.entity[e].up]

\* found_entities of the entities h has on i.
Marked(g, h, i) == [e \in Ent |-> IF e \in EntitiesOf(h, i) THEN i ELSE g.foundOf[e]]

\* Mutated form of Hold: nothing is kept.
HoldForgets(h, i) == RemoveDevice(h, h.device[i].u)
\* Mutated form of Hold: recorded as found first, then removed.
HoldMarksFirst(h, i) ==
    LET gone == RemoveDevice([h EXCEPT !.foundOf = Marked(h, h, i)], h.device[i].u)
    IN [gone EXCEPT !.found[i] = FoundFrom(h, i), !.foundOf = Marked(gone, h, i)]

\* Taken out of the home, keeping what its protocol said: removed first, then
\* recorded as found.
Hold(h, i) ==
    LET gone == RemoveDevice(h, h.device[i].u)
    IN [gone EXCEPT !.found[i] = FoundFrom(h, i), !.foundOf = Marked(gone, h, i)]

\* The entities of f described as they last were.
DescribeAll(h, f) ==
    [h EXCEPT !.entity = [e \in Ent |->
        IF f.ents[e] = Absent THEN @[e] ELSE DescribeEntity(h, e, f.ents[e]).entity[e]]]

\* Mutated form of Replay: what was said is not said again.
ReplayNothing(h, f) == h

\* What the entities of f last said, said again.
Replay(h, f) ==
    [h EXCEPT !.entity = [e \in Ent |->
        IF f.reports[e] = Absent THEN @[e] ELSE ReportState(h, e, f.reports[e].val).entity[e]]]

\* Put in the home as last described: the device, its entities, what they last
\* said, and whether it can be reached.  A step that is refused is passed over.
\* With the device in the home its entities are not found ones any more, so
\* they don't touch one another and their order makes no difference.
Admit(h, i) ==
    LET f == h.found[i]
        in == DescribeDevice(Unfound(h, i), f.said)
        reported == Replay(DescribeAll(in, f), f)
    IN IF f.up THEN reported ELSE SetDeviceAvailability(reported, f.said.u, FALSE)

-----------------------------------------------------------------------------
(* The operations.  A protocol's arrive while it is running. *)

\* A value an entity in the home can no longer have is forgotten for good.
Fitting(h) ==
    [e \in Ent |-> IF h.entity[e] # Absent /\ last[e] \notin h.entity[e].said.fits
                   THEN Absent ELSE last[e]]

Describe(d) ==
    /\ running
    /\ DeviceAccepted(home, d)
    /\ home' = DescribeDevice(home, d)
    /\ known' = known \cup {d.u}
    /\ UNCHANGED <<running, last>>

DescribeOn(e, d) ==
    /\ running
    /\ EntityAccepted(home, e, d)
    /\ home' = DescribeEntity(home, e, d)
    /\ last' = Fitting(home')
    /\ UNCHANGED <<running, known>>

Remove(e) ==
    /\ running
    /\ home.foundOf[e] # Absent \/ home.entity[e] # Absent
    /\ home' = RemoveEntity(home, e)
    /\ last' = [last EXCEPT ![e] = Absent]
    /\ UNCHANGED <<running, known>>

\* Whose value the home still keeps somewhere.
Kept(h) ==
    {e \in Ent : h.entity[e] # Absent \/ \E i \in Id : IsFound(h, i) /\ h.found[i].ents[e] # Absent}

Forgetting(h) == [e \in Ent |-> IF e \in Kept(h) THEN last[e] ELSE Absent]

Retire(u) ==
    /\ running
    /\ IsFound(home, IdOf[u]) \/ home.keys[u] # Absent
    /\ home' = RemoveDevice(home, u)
    /\ known' = known \ {v \in Dev : IdOf[v] = IdOf[u]}
    /\ last' = Forgetting(home')
    /\ UNCHANGED running

Report(e, v) ==
    /\ running
    /\ ReportAccepted(home, e, v)
    /\ home' = ReportState(home, e, v)
    /\ last' = [last EXCEPT ![e] = v]
    /\ UNCHANGED <<running, known>>

SetAvailability(up) ==
    /\ running
    /\ \/ \E u \in Dev : home' = SetDeviceAvailability(home, u, up)
       \/ \E e \in Ent : home' = SetEntityAvailability(home, e, up)
    /\ UNCHANGED <<running, known, last>>

Stop ==
    /\ running
    /\ running' = FALSE
    /\ home' = MarkUnavailable(home)
    /\ UNCHANGED <<known, last>>

Start ==
    /\ ~running
    /\ running' = TRUE
    /\ UNCHANGED <<home, known, last>>

\* remove_protocol, once uninstalling has stopped it.  Its devices go one by
\* one; none is both in the home and found, so all of them go at once here.
RemoveProtocol ==
    /\ ~running
    /\ home' = [home EXCEPT
                  !.keys = [u \in Dev |-> Absent],
                  !.entity = [e \in Ent |->
                      IF /\ \E i \in Id : InHome(home, i) /\ e \in EntitiesOf(home, i)
                         /\ home.foundOf[e] = Absent
                      THEN Absent ELSE home.entity[e]],
                  !.foundOf = [e \in Ent |-> Absent],
                  !.found = [i \in Id |-> Absent],
                  !.device = [i \in Id |-> Absent]]
    /\ known' = {}
    /\ last' = Forgetting(home')
    /\ UNCHANGED running

\* apply_settings with a row for device i that was not there, and without one
\* that was.  Several rows changed at once come to the same as one after the
\* other: what leaves is taken out first, then what joins is put in.
AddRow(i) ==
    /\ IsHeld(home, i)
    /\ LET h == [home EXCEPT !.added = @ \cup {i}]
       IN home' = IF IsFound(h, i) THEN Admit(h, i) ELSE h
    /\ last' = Fitting(home')
    /\ UNCHANGED <<running, known>>

DropRow(i) ==
    /\ i \in home.added
    /\ LET h == [home EXCEPT !.added = @ \ {i}]
       IN home' = IF InHome(h, i) THEN Hold(h, i) ELSE h
    /\ UNCHANGED <<running, known, last>>

\* forget_device.
Forget(i) ==
    /\ InHome(home, i)
    /\ home' = Hold(home, i)
    /\ UNCHANGED <<running, known, last>>

Init ==
    /\ home = Empty
    /\ running = TRUE
    /\ known = {}
    /\ last = [e \in Ent |-> Absent]

Next ==
    \/ \E d \in DeviceDescription : Describe(d)
    \/ \E e \in Ent, d \in EntityDescription : d.on \in Hosts[e] /\ DescribeOn(e, d)
    \/ \E e \in Ent : Remove(e) \/ \E v \in Val \cup {Absent} : Report(e, v)
    \/ \E u \in Dev : Retire(u)
    \/ \E up \in BOOLEAN : SetAvailability(up)
    \/ \E i \in Id : AddRow(i) \/ DropRow(i) \/ Forget(i)
    \/ Stop \/ Start \/ RemoveProtocol

Spec == Init /\ [][Next]_vars

-----------------------------------------------------------------------------
DeviceEntry == [u : Dev, via : Id \cup {Absent}, said : DeviceDescription]
EntityEntry ==
    [dev : Id \cup {Absent}, said : EntityDescription, val : Val \cup {Absent}, up : BOOLEAN]
FoundEntry ==
    [said : DeviceDescription, ents : [Ent -> EntityDescription \cup {Absent}],
     reports : [Ent -> [val : Val \cup {Absent}] \cup {Absent}], up : BOOLEAN]

Home ==
    [keys : [Dev -> Id \cup {Absent}],
     device : [Id -> DeviceEntry \cup {Absent}],
     entity : [Ent -> EntityEntry \cup {Absent}],
     found : [Id -> FoundEntry \cup {Absent}],
     foundOf : [Ent -> Id \cup {Absent}],
     added : SUBSET Id]

ASSUME AbsentAssumption ==
    Absent \notin DeviceEntry \cup EntityEntry \cup FoundEntry
                      \cup EntityDescription \cup [val : Val \cup {Absent}]

\* Type correctness of the home and of the history.
TypeOK ==
    /\ home \in Home
    /\ running \in BOOLEAN
    /\ known \subseteq Dev
    /\ last \in [Ent -> Val \cup {Absent}]

\* "keys and devices agree" (the expect in describe_device): the index by
\* handle and the registry name the same devices, whatever the order of
\* describing, holding, admitting and removing.
KeysAgree ==
    /\ \A u \in Dev : home.keys[u] # Absent =>
        home.keys[u] = IdOf[u] /\ InHome(home, IdOf[u]) /\ home.device[IdOf[u]].u = u
    /\ \A i \in Id : InHome(home, i) => home.keys[home.device[i].u] = i

\* A device is in the home or found, never both, so "+ Add device" never
\* offers what is already there and nothing found can be switched.
InOrFound == \A i \in Id : ~(InHome(home, i) /\ IsFound(home, i))

\* What a device is reached through is in the home, and following it never
\* comes back: every step of hold, admit, remove_device and describe_device
\* keeps reaches() honest.
ViaOK ==
    \A i \in Id : InHome(home, i) /\ home.device[i].via # Absent =>
        /\ InHome(home, home.device[i].via)
        /\ ~Reaches(home, home.device[i].via, i)

\* "A device joins the home only when a person adds it" (docs/specs/config.md
\* 3.2): what is in the home has a row in devices.toml.
OnlyAdded == \A i \in Id : InHome(home, i) => i \in home.added

\* An entity of a device has that device in the home: what the expect in
\* name_for_entity and the index in apply_settings rely on.
EntityHasDevice ==
    \A e \in Ent : home.entity[e] # Absent /\ home.entity[e].dev # Absent =>
        InHome(home, home.entity[e].dev)

\* What arrives for an entity of a found device is recognised as such, and
\* only that: found_entities and the found devices' entities agree, and such
\* an entity is not in the home at the same time.
FoundAgree ==
    \A e \in Ent :
        /\ \A i \in Id : (home.foundOf[e] = i) <=>
                            (IsFound(home, i) /\ home.found[i].ents[e] # Absent)
        /\ home.foundOf[e] # Absent => home.entity[e] = Absent

\* "Nothing is removed unless the protocol removes it" (docs/specs/protocols.md
\* 3): a device it described and did not remove is in the home or found.
NothingLost == \A u \in known : InHome(home, IdOf[u]) \/ IsFound(home, IdOf[u])

\* "Adding the device puts it in as it is now": an entity in the home has the
\* value its protocol last reported and the home took, through any number of
\* times its device was taken out and put back.
AsItIsNow ==
    \A e \in Ent : home.entity[e] # Absent =>
        home.entity[e].val = last[e]

\* The devices of the home through any order of describing, adding, taking out,
\* forgetting and removing (describe_device, admit, hold, remove_device): the
\* index by handle agrees with the registry, a device is in the home or found
\* and never both, and none is in the home that nobody added.
DevicesOK == TypeOK /\ KeysAgree /\ InOrFound /\ OnlyAdded

\* Entities go in and out of the home with their device (admit, hold): none is
\* in the home without its device, and what arrives for one of a found device is
\* recognised as such.
EntitiesOK == EntityHasDevice /\ FoundAgree

\* A device its protocol has not removed stays known however often it is taken
\* out and put back, and what was reported meanwhile is not lost: it comes back
\* as it is now (hold, admit and the replay of what was held).
ComesBack == NothingLost /\ AsItIsNow
=============================================================================
