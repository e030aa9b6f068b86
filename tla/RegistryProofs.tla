--------------------------- MODULE RegistryProofs ---------------------------
(***************************************************************************)
(* Proofs about Registry, for any devices, entities, ids and values: the   *)
(* devices and what they are reached through; where entities stay in one   *)
(* place, that they are with their device; where no device is reached      *)
(* through another, that no device is lost; where both hold, that nothing  *)
(* last reported is either.  The operations are functions from home to     *)
(* home that the code composes, so the invariants are predicates of any    *)
(* home, and each operation has a lemma that says what it leaves of it     *)
(* (its name in Is) and one per invariant that it keeps it.                *)
(***************************************************************************)
EXTENDS Registry, TLAPS

\* The invariants about devices, of any home: the operations are composed.
Keys(h) ==
    /\ \A u \in Dev : h.keys[u] # Absent =>
        h.keys[u] = IdOf[u] /\ InHome(h, IdOf[u]) /\ h.device[IdOf[u]].u = u
    /\ \A i \in Id : InHome(h, i) => h.keys[h.device[i].u] = i
Apart(h) == \A i \in Id : ~(InHome(h, i) /\ IsFound(h, i))
Through(h) ==
    \A i \in Id : InHome(h, i) /\ h.device[i].via # Absent =>
        InHome(h, h.device[i].via) /\ ~Reaches(h, h.device[i].via, i)
Added(h) == \A i \in Id : InHome(h, i) => i \in h.added
Sound(h) == h \in Home /\ Keys(h) /\ Apart(h) /\ Through(h)

\* The devices of two homes are the same, and nothing more is found.
SameDevices(h, g) ==
    /\ g.keys = h.keys /\ g.device = h.device /\ g.added = h.added
    /\ \A i \in Id : IsFound(g, i) => IsFound(h, i)

-----------------------------------------------------------------------------
(* What a home is made of *)

\* The parts of a home.
LEMMA HomeOK ==
  ASSUME NEW h \in Home
  PROVE  /\ h.keys \in [Dev -> Id \cup {Absent}]
         /\ h.device \in [Id -> DeviceEntry \cup {Absent}]
         /\ h.entity \in [Ent -> EntityEntry \cup {Absent}]
         /\ h.found \in [Id -> FoundEntry \cup {Absent}]
         /\ h.foundOf \in [Ent -> Id \cup {Absent}]
         /\ h.added \in SUBSET Id
  BY DEF Home

\* What a device in the home and a found one are.
LEMMA EntryOK ==
  ASSUME NEW h \in Home
  PROVE  /\ \A i \in Id : InHome(h, i) =>
              /\ h.device[i] \in DeviceEntry
              /\ h.device[i].u \in Dev
              /\ h.device[i].via \in Id \cup {Absent}
              /\ h.device[i].said \in DeviceDescription
         /\ \A i \in Id : IsFound(h, i) =>
              /\ h.found[i] \in FoundEntry
              /\ h.found[i].said \in DeviceDescription
              /\ h.found[i].ents \in [Ent -> EntityDescription \cup {Absent}]
              /\ h.found[i].reports \in [Ent -> [val : Val \cup {Absent}] \cup {Absent}]
              /\ h.found[i].up \in BOOLEAN
         /\ \A e \in Ent : h.entity[e] # Absent =>
              /\ h.entity[e] \in EntityEntry
              /\ h.entity[e].dev \in Id \cup {Absent}
              /\ h.entity[e].said \in EntityDescription
              /\ h.entity[e].val \in Val \cup {Absent}
              /\ h.entity[e].up \in BOOLEAN
  <1>1. \A i \in Id : InHome(h, i) => h.device[i] \in DeviceEntry
    BY HomeOK DEF InHome
  <1>2. \A i \in Id : IsFound(h, i) => h.found[i] \in FoundEntry
    BY HomeOK DEF IsFound
  <1>3. \A e \in Ent : h.entity[e] # Absent => h.entity[e] \in EntityEntry
    BY HomeOK
  <1>4. \A i \in Id : InHome(h, i) =>
              /\ h.device[i].u \in Dev
              /\ h.device[i].via \in Id \cup {Absent}
              /\ h.device[i].said \in DeviceDescription
    BY <1>1 DEF DeviceEntry
  <1>5. \A i \in Id : IsFound(h, i) =>
              /\ h.found[i].said \in DeviceDescription
              /\ h.found[i].ents \in [Ent -> EntityDescription \cup {Absent}]
              /\ h.found[i].reports \in [Ent -> [val : Val \cup {Absent}] \cup {Absent}]
              /\ h.found[i].up \in BOOLEAN
    BY <1>2 DEF FoundEntry
  <1>6. \A e \in Ent : h.entity[e] # Absent =>
              /\ h.entity[e].dev \in Id \cup {Absent}
              /\ h.entity[e].said \in EntityDescription
              /\ h.entity[e].val \in Val \cup {Absent}
              /\ h.entity[e].up \in BOOLEAN
    BY <1>3 DEF EntityEntry
  <1> QED
    BY <1>1, <1>2, <1>3, <1>4, <1>5, <1>6

\* What a description says.
LEMMA SaidOK ==
  /\ \A d \in DeviceDescription : d.u \in Dev /\ d.via \in Dev \cup {Absent} /\ IdOf[d.u] \in Id
  /\ \A d \in EntityDescription : d.on \in Dev \cup {Absent} /\ d.fits \in SUBSET Val
  /\ \A u \in Dev : IdOf[u] \in Id /\ u # Absent /\ IdOf[u] # Absent
  /\ \A i \in Id : i # Absent
  BY RegistryAssumption DEF DeviceDescription, EntityDescription

\* An entity in the home.
LEMMA EntityEntryOK ==
  ASSUME NEW p \in Id \cup {Absent}, NEW d \in EntityDescription, NEW v \in Val \cup {Absent},
         NEW b \in BOOLEAN
  PROVE  [dev |-> p, said |-> d, val |-> v, up |-> b] \in EntityEntry
  BY DEF EntityEntry

-----------------------------------------------------------------------------
(* Devices reached through others *)

\* A device new to the home leads nowhere: what is in the home leads to itself.
LEMMA FreshVia ==
  ASSUME NEW h \in Home, Through(h), NEW i \in Id, ~InHome(h, i), NEW v \in Id, InHome(h, v)
  PROVE  ~Reaches(h, v, i)
  <1> DEFINE S == {j \in Id : InHome(h, j)}
  <1>1. Closed(h, S)
    BY EntryOK DEF Closed, Through
  <1>2. S \in SUBSET Id /\ v \in S /\ i \notin S
    OBVIOUS
  <1> QED
    BY <1>1, <1>2 DEF Reaches

\* A device put in the home, or described anew, as reached through another that
\* does not lead back to it.
LEMMA NewVia ==
  ASSUME NEW h \in Home, Through(h), NEW g \in Home, NEW i \in Id, NEW r \in DeviceEntry,
         g.device = [h.device EXCEPT ![i] = r],
         r.via # Absent => InHome(h, r.via) /\ ~Reaches(h, r.via, i)
  PROVE  Through(g)
  <1>0. r.via \in Id \cup {Absent} /\ r # Absent
    BY AbsentAssumption DEF DeviceEntry
  <1>1. g.device[i] = r /\ (\A k \in Id : k # i => g.device[k] = h.device[k])
    BY HomeOK
  <1>2. \A k \in Id : InHome(h, k) => InHome(g, k)
    BY <1>0, <1>1 DEF InHome
  <1>3. \A S \in SUBSET Id : Closed(h, S) /\ i \notin S => Closed(g, S)
    BY <1>1 DEF Closed, InHome
  <1> SUFFICES ASSUME NEW k \in Id, InHome(g, k), g.device[k].via # Absent
               PROVE  /\ InHome(g, g.device[k].via)
                      /\ \E T \in SUBSET Id : g.device[k].via \in T /\ Closed(g, T) /\ k \notin T
    BY DEF Through, Reaches
  <1>4. CASE k = i
    <2>1. PICK S \in SUBSET Id : r.via \in S /\ Closed(h, S) /\ i \notin S
      BY <1>1, <1>4 DEF Reaches
    <2> QED
      BY <1>0, <1>1, <1>2, <1>3, <1>4, <2>1
  <1>5. CASE k # i
    <2> DEFINE w == h.device[k].via
    <2>1. InHome(h, k) /\ w # Absent /\ g.device[k].via = w /\ w \in Id
      BY <1>1, <1>5, EntryOK DEF InHome
    <2>2. InHome(h, w) /\ ~Reaches(h, w, k)
      BY <2>1 DEF Through
    <2>3. PICK S \in SUBSET Id : w \in S /\ Closed(h, S) /\ k \notin S
      BY <2>2 DEF Reaches
    <2>4. InHome(g, w)
      BY <2>1, <2>2, <1>2
    <2>5. CASE i \notin S
      BY <2>1, <2>3, <2>4, <2>5, <1>3
    <2>6. CASE i \in S /\ r.via = Absent
      <3>1. Closed(g, S)
        BY <2>3, <2>6, <1>1 DEF Closed, InHome
      <3> QED
        BY <2>1, <2>3, <2>4, <3>1
    <2>7. CASE i \in S /\ r.via # Absent
      <3>1. PICK V \in SUBSET Id : r.via \in V /\ Closed(h, V) /\ i \notin V
        BY <2>7 DEF Reaches
      <3>2. CASE k \in V
        <4>1. Closed(h, S \cap V)
          BY <2>3, <3>1 DEF Closed
        <4>2. w \in V
          BY <2>1, <3>1, <3>2 DEF Closed
        <4>3. Closed(g, S \cap V)
          BY <4>1, <3>1, <1>3
        <4> QED
          BY <2>1, <2>3, <2>4, <4>2, <4>3
      <3>3. CASE k \notin V
        <4>1. Closed(g, S \cup V)
          BY <2>3, <3>1, <1>1 DEF Closed, InHome
        <4> QED
          BY <2>1, <2>3, <2>4, <3>3, <4>1
      <3> QED
        BY <3>2, <3>3
    <2> QED
      BY <2>5, <2>6, <2>7
  <1> QED
    BY <1>4, <1>5

\* Devices leave the home, and those reached through them are reached directly.
LEMMA FewerVia ==
  ASSUME NEW h \in Home, Through(h), NEW g \in Home,
         \A j \in Id : InHome(g, j) =>
            /\ InHome(h, j)
            /\ g.device[j].via # Absent =>
                  g.device[j].via = h.device[j].via /\ InHome(g, h.device[j].via)
  PROVE  Through(g)
  <1>1. \A S \in SUBSET Id : Closed(h, S) => Closed(g, S)
    BY DEF Closed
  <1>2. ASSUME NEW k \in Id, InHome(g, k), g.device[k].via # Absent
        PROVE  InHome(g, g.device[k].via) /\ ~Reaches(g, g.device[k].via, k)
    <2>1. /\ InHome(h, k) /\ g.device[k].via = h.device[k].via /\ h.device[k].via # Absent
          /\ InHome(g, g.device[k].via)
      BY <1>2
    <2>2. PICK S \in SUBSET Id : h.device[k].via \in S /\ Closed(h, S) /\ k \notin S
      BY <2>1 DEF Through, Reaches
    <2> QED
      BY <1>1, <2>1, <2>2 DEF Reaches
  <1> QED
    BY <1>2 DEF Through

\* Devices that stay as they are stay sound.
LEMMA SameSound ==
  ASSUME NEW h, Sound(h), NEW g \in Home, SameDevices(h, g)
  PROVE  Sound(g) /\ (Added(h) => Added(g))
  <1>1. g.keys = h.keys /\ g.device = h.device /\ g.added = h.added
    BY DEF SameDevices
  <1>2. \A i : InHome(g, i) <=> InHome(h, i)
    BY <1>1 DEF InHome
  <1>3. Keys(g)
    BY <1>1, <1>2 DEF Keys, Sound
  <1>4. Apart(g)
    BY <1>2 DEF Apart, Sound, SameDevices
  <1>5. Through(g)
    <2>1. \A S : Closed(g, S) <=> Closed(h, S)
      BY <1>1, <1>2 DEF Closed
    <2> QED
      BY <2>1, <1>1, <1>2 DEF Through, Reaches, Sound
  <1>6. Added(h) => Added(g)
    BY <1>1, <1>2 DEF Added
  <1> QED
    BY <1>3, <1>4, <1>5, <1>6 DEF Sound
-----------------------------------------------------------------------------
(* What each operation leaves of the devices *)

\* describe_device.
LEMMA DescribeDeviceOK ==
  ASSUME NEW h, Sound(h), Added(h), NEW d \in DeviceDescription
  PROVE  Sound(DescribeDevice(h, d)) /\ Added(DescribeDevice(h, d))
  <1> DEFINE i == IdOf[d.u]
  <1>0. d.u \in Dev /\ d.via \in Dev \cup {Absent} /\ i \in Id /\ h \in Home
    BY SaidOK DEF Sound
  <1> PICK g : g = DescribeDevice(h, d)
    OBVIOUS
  <1>1. CASE ~DeviceAccepted(h, d)
    BY <1>1 DEF DescribeDevice
  <1>2. CASE DeviceAccepted(h, d) /\ GoesToFound(h, i)
    <2> PICK f : f = IF h.found[i] = Absent THEN FoundAs(d) ELSE [h.found[i] EXCEPT !.said = d]
      OBVIOUS
    <2>1. f \in FoundEntry
      <3>1. FoundAs(d) \in FoundEntry
        BY DEF FoundAs, FoundEntry
      <3>2. h.found[i] # Absent => [h.found[i] EXCEPT !.said = d] \in FoundEntry
        BY <1>0, EntryOK DEF FoundEntry, IsFound
      <3> QED
        BY <3>1, <3>2
    <2>2. g = [h EXCEPT !.found[i] = f]
      BY <1>2 DEF DescribeDevice
    <2>3. g \in Home
      BY <1>0, <2>1, <2>2 DEF Home
    <2>4. /\ g.keys = h.keys /\ g.device = h.device /\ g.added = h.added
          /\ g.found = [h.found EXCEPT ![i] = f]
      BY <1>0, <2>2 DEF Home
    <2>5. ~InHome(h, i)
      BY <1>0, <1>2 DEF GoesToFound, IsHeld, Added, Sound, Apart
    <2>6. Keys(g) /\ Added(g)
      BY <2>4 DEF Keys, Sound, Added, InHome
    <2>7. Through(g)
      <3>1. \A S : Closed(g, S) <=> Closed(h, S)
        BY <2>4 DEF Closed, InHome
      <3> QED
        BY <2>4, <3>1 DEF Through, Reaches, Sound, InHome
    <2>8. Apart(g)
      BY <1>0, <2>4, <2>5, HomeOK DEF Apart, Sound, InHome, IsFound
    <2> QED
      BY <2>3, <2>6, <2>7, <2>8 DEF Sound
  <1>3. CASE DeviceAccepted(h, d) /\ ~GoesToFound(h, i)
    <2> PICK v : v = ViaId(h, d)
      OBVIOUS
    <2> PICK r : r = [u |-> d.u, said |-> d, via |-> v]
      OBVIOUS
    <2>1. v # Absent => v \in Id /\ InHome(h, v)
      BY <1>0, HomeOK, SaidOK DEF ViaId, ViaOf, Sound, Keys
    <2>2. ViaKnown(h, d) /\ (IF h.keys[d.u] # Absent THEN NoLoop(h, d) ELSE ~InHome(h, i))
      BY <1>3 DEF DeviceAccepted
    <2>3. r \in DeviceEntry /\ r.via = v /\ r.u = d.u /\ r # Absent
      BY <1>0, <2>1, AbsentAssumption DEF DeviceEntry
    <2>4. v # Absent => InHome(h, v) /\ ~Reaches(h, v, i)
      <3>1. CASE h.keys[d.u] # Absent
        BY <2>1, <2>2, <3>1 DEF NoLoop
      <3>2. CASE h.keys[d.u] = Absent
        BY <1>0, <2>1, <2>2, <3>2, FreshVia DEF Sound
      <3> QED
        BY <3>1, <3>2
    <2>5. g = [h EXCEPT !.keys[d.u] = i, !.device[i] = r]
      BY <1>3 DEF DescribeDevice
    <2>6. g \in Home
      <3>1. /\ [h.keys EXCEPT ![d.u] = i] \in [Dev -> Id \cup {Absent}]
            /\ [h.device EXCEPT ![i] = r] \in [Id -> DeviceEntry \cup {Absent}]
        BY <1>0, <2>3, HomeOK
      <3>2. g = [h EXCEPT !.keys = [h.keys EXCEPT ![d.u] = i],
                          !.device = [h.device EXCEPT ![i] = r]]
        BY <2>5
      <3> QED
        BY <1>0, <3>1, <3>2 DEF Home
    <2>7. /\ g.keys = [h.keys EXCEPT ![d.u] = i] /\ g.device = [h.device EXCEPT ![i] = r]
          /\ g.added = h.added /\ g.found = h.found
      BY <1>0, <2>5 DEF Home
    <2>8. Through(g)
      BY <1>0, <2>3, <2>4, <2>6, <2>7, NewVia DEF Sound
    <2>9. i \in h.added /\ ~IsFound(h, i)
      BY <1>3 DEF GoesToFound, IsHeld
    <2>10. /\ g.device[i] = r /\ (\A j \in Id : j # i => g.device[j] = h.device[j])
           /\ g.keys[d.u] = i /\ (\A u \in Dev : u # d.u => g.keys[u] = h.keys[u])
      BY <1>0, <2>7, HomeOK
    <2>11. Added(g) /\ Apart(g)
      BY <2>7, <2>9, <2>10 DEF Added, Apart, Sound, InHome, IsFound
    <2>12. InHome(h, i) => h.device[i].u = d.u
      BY <1>0, <2>2 DEF Sound, Keys
    <2>13. Keys(g)
      <3>1. ASSUME NEW u \in Dev, g.keys[u] # Absent
            PROVE  g.keys[u] = IdOf[u] /\ InHome(g, IdOf[u]) /\ g.device[IdOf[u]].u = u
        <4>1. CASE u = d.u
          BY <2>3, <2>10, <4>1 DEF InHome
        <4>2. CASE u # d.u
          <5>1. h.keys[u] = IdOf[u] /\ InHome(h, IdOf[u]) /\ h.device[IdOf[u]].u = u
            BY <2>10, <3>1, <4>2 DEF Sound, Keys
          <5>2. IdOf[u] # i
            BY <2>12, <4>2, <5>1
          <5> QED
            BY <2>10, <4>2, <5>1, <5>2, SaidOK DEF InHome
        <4> QED
          BY <4>1, <4>2
      <3>2. ASSUME NEW j \in Id, InHome(g, j)
            PROVE  g.keys[g.device[j].u] = j
        <4>1. CASE j = i
          BY <2>3, <2>10, <4>1
        <4>2. CASE j # i
          <5>1. InHome(h, j) /\ g.device[j] = h.device[j] /\ h.keys[h.device[j].u] = j
            BY <2>10, <3>2, <4>2 DEF InHome, Sound, Keys
          <5>2. h.device[j].u \in Dev
            BY <1>0, <5>1, EntryOK
          <5>3. h.device[j].u # d.u
            BY <1>0, <4>2, <5>1, SaidOK DEF Sound, Keys
          <5> QED
            BY <2>10, <5>1, <5>2, <5>3
        <4> QED
          BY <4>1, <4>2
      <3> QED
        BY <3>1, <3>2 DEF Keys
    <2> QED
      BY <2>6, <2>8, <2>11, <2>13 DEF Sound
  <1> QED
    BY <1>1, <1>2, <1>3

\* Where a description puts an entity.
PlaceOf(x) == IF x = Absent THEN Absent ELSE IdOf[x]

\* One found device is another than it was.
WithFound(h, i, f) == [h EXCEPT !.found = [h.found EXCEPT ![i] = f]]

\* It is found still, and nothing else has changed.
LEMMA FoundChange ==
  ASSUME NEW h \in Home, NEW i \in Id, IsFound(h, i), NEW f \in FoundEntry,
         NEW g, g = WithFound(h, i, f)
  PROVE  /\ g \in Home /\ SameDevices(h, g)
         /\ g.entity = h.entity /\ g.foundOf = h.foundOf /\ g.found[i] = f /\ f # Absent
         /\ \A j \in Id : j # i => g.found[j] = h.found[j]
  <1>1. g.found = [h.found EXCEPT ![i] = f]
    BY DEF Home, WithFound
  <1>2. g \in Home
    <2>1. [h.found EXCEPT ![i] = f] \in [Id -> FoundEntry \cup {Absent}]
      BY HomeOK
    <2> QED
      BY <2>1 DEF Home, WithFound
  <1>3. /\ g.keys = h.keys /\ g.device = h.device /\ g.added = h.added
        /\ g.entity = h.entity /\ g.foundOf = h.foundOf
    BY DEF Home, WithFound
  <1>4. g.found[i] = f /\ (\A j \in Id : j # i => g.found[j] = h.found[j])
    BY <1>1, HomeOK
  <1> QED
    BY <1>2, <1>3, <1>4, AbsentAssumption DEF SameDevices, IsFound

\* What describe_entity leaves: nothing changed, an entity of a found device, or
\* one in the home.
LEMMA DescribeEntityIs ==
  ASSUME NEW h, Sound(h), NEW e \in Ent, NEW d \in EntityDescription,
         NEW g, g = DescribeEntity(h, e, d)
  PROVE  /\ g \in Home /\ SameDevices(h, g)
         /\ \/ ~EntityAccepted(h, e, d) /\ g = h
            \/ /\ d.on # Absent /\ IsFound(h, IdOf[d.on])
               /\ g.entity = h.entity /\ g.foundOf = [h.foundOf EXCEPT ![e] = IdOf[d.on]]
               /\ g.found[IdOf[d.on]] = [h.found[IdOf[d.on]] EXCEPT !.ents = [@ EXCEPT ![e] = d]]
               /\ \A j \in Id : j # IdOf[d.on] => g.found[j] = h.found[j]
            \/ /\ d.on # Absent => InHome(h, IdOf[d.on]) /\ ~IsFound(h, IdOf[d.on])
               /\ g.found = h.found /\ g.foundOf = h.foundOf
               /\ \A x \in Ent : x # e => g.entity[x] = h.entity[x]
               /\ g.entity[e] # Absent
               /\ g.entity[e].dev = PlaceOf(d.on) /\ g.entity[e].said = d
               /\ g.entity[e].val = IF h.entity[e] # Absent /\ h.entity[e].val \in d.fits
                                    THEN h.entity[e].val ELSE Absent
  <1>0. h \in Home /\ d.on \in Dev \cup {Absent}
    BY SaidOK DEF Sound
  <1>1. CASE ~EntityAccepted(h, e, d)
    BY <1>0, <1>1 DEF DescribeEntity, SameDevices
  <1>2. CASE EntityAccepted(h, e, d) /\ d.on # Absent /\ IsFound(h, IdOf[d.on])
    <2> DEFINE i == IdOf[d.on]
               f == [h.found[i] EXCEPT !.ents = [@ EXCEPT ![e] = d]]
               k == [h EXCEPT !.foundOf = [@ EXCEPT ![e] = i]]
    <2>1. i \in Id /\ IsFound(h, i) /\ i # Absent
      BY <1>0, <1>2, SaidOK
    <2>2. f \in FoundEntry
      <3>1. [h.found[i].ents EXCEPT ![e] = d] \in [Ent -> EntityDescription \cup {Absent}]
        BY <1>0, <2>1, EntryOK
      <3> QED
        BY <1>0, <2>1, <3>1, EntryOK DEF FoundEntry
    <2>3. k \in Home /\ k.foundOf = [h.foundOf EXCEPT ![e] = i] /\ k.found = h.found
          /\ k.keys = h.keys /\ k.device = h.device /\ k.added = h.added /\ k.entity = h.entity
      BY <1>0, <2>1 DEF Home
    <2>4. g = WithFound(k, i, f)
      BY <1>2, <2>1, <2>3 DEF DescribeEntity, WithFound
    <2> HIDE DEF i, f, k
    <2>5. /\ g \in Home /\ SameDevices(k, g)
          /\ g.entity = k.entity /\ g.foundOf = k.foundOf /\ g.found[i] = f
          /\ \A j \in Id : j # i => g.found[j] = k.found[j]
      <3>1. k \in Home /\ IsFound(k, i)
        BY <2>1, <2>3 DEF IsFound
      <3> QED
        BY <2>1, <2>2, <2>4, <3>1, FoundChange
    <2>6. SameDevices(h, g)
      BY <2>3, <2>5 DEF SameDevices, IsFound
    <2> QED
      BY <1>2, <2>3, <2>5, <2>6 DEF i, f
  <1>3. CASE EntityAccepted(h, e, d) /\ (d.on # Absent => ~IsFound(h, IdOf[d.on]))
    <2> DEFINE v == IF h.entity[e] # Absent /\ h.entity[e].val \in d.fits
                    THEN h.entity[e].val ELSE Absent
               p == IF d.on = Absent THEN Absent ELSE h.keys[d.on]
               n == [dev |-> p, said |-> d, val |-> v, up |-> TRUE]
    <2>1. d.on # Absent => h.keys[d.on] = IdOf[d.on] /\ InHome(h, IdOf[d.on])
      BY <1>0, <1>3 DEF EntityAccepted, Sound, Keys
    <2>2. p = PlaceOf(d.on) /\ p \in Id \cup {Absent}
      BY <1>0, <2>1, SaidOK DEF PlaceOf
    <2>3. v \in Val \cup {Absent}
      BY <1>0, EntryOK
    <2>5. g = [h EXCEPT !.entity = [h.entity EXCEPT ![e] = n]]
      BY <1>0, <1>3, SaidOK DEF DescribeEntity
    <2>10. n.dev = p /\ n.said = d /\ n.val = v
      OBVIOUS
    <2> HIDE DEF v, p
    <2>4. n \in EntityEntry /\ n # Absent
      <3>1. TRUE \in BOOLEAN
        OBVIOUS
      <3>2. n \in EntityEntry
        BY <2>2, <2>3, <3>1, EntityEntryOK
      <3> QED
        BY <3>2, AbsentAssumption
    <2> HIDE DEF n
    <2>6. [h.entity EXCEPT ![e] = n] \in [Ent -> EntityEntry \cup {Absent}]
      BY <1>0, <2>4, HomeOK
    <2>7. g \in Home /\ g.entity = [h.entity EXCEPT ![e] = n]
          /\ g.keys = h.keys /\ g.device = h.device /\ g.added = h.added
          /\ g.found = h.found /\ g.foundOf = h.foundOf
      BY <1>0, <2>5, <2>6 DEF Home
    <2>8. g.entity[e] = n /\ (\A x \in Ent : x # e => g.entity[x] = h.entity[x])
      BY <1>0, <2>7, HomeOK
    <2>9. SameDevices(h, g)
      BY <2>7 DEF SameDevices, IsFound
    <2> QED
      BY <1>3, <2>1, <2>2, <2>4, <2>7, <2>8, <2>9, <2>10 DEF v
  <1> QED
    BY <1>1, <1>2, <1>3

\* The found devices and what is theirs are the same, but for being in touch.
SameHeld(h, g) ==
    /\ g.foundOf = h.foundOf
    /\ \A i \in Id :
        /\ IsFound(g, i) <=> IsFound(h, i)
        /\ IsFound(h, i) => /\ g.found[i].said = h.found[i].said
                            /\ g.found[i].ents = h.found[i].ents
                            /\ g.found[i].reports = h.found[i].reports
\* The entities in the home are the same, but for being in touch.
SameEntities(h, g) ==
    \A e \in Ent :
        /\ g.entity[e] = Absent <=> h.entity[e] = Absent
        /\ h.entity[e] # Absent => /\ g.entity[e].dev = h.entity[e].dev
                                   /\ g.entity[e].said = h.entity[e].said
                                   /\ g.entity[e].val = h.entity[e].val

\* A found device without some of its entities.
LEMMA FoundWithoutOK ==
  ASSUME NEW f \in FoundEntry, NEW es, NEW o, o = FoundWithout(f, es)
  PROVE  /\ o \in FoundEntry /\ o.said = f.said
         /\ \A e \in Ent : o.ents[e] = IF e \in es THEN Absent ELSE f.ents[e]
         /\ \A e \in Ent : o.reports[e] = IF e \in es THEN Absent ELSE f.reports[e]
  <1> DEFINE en == [e \in Ent |-> IF e \in es THEN Absent ELSE f.ents[e]]
             re == [e \in Ent |-> IF e \in es THEN Absent ELSE f.reports[e]]
  <1>1. /\ f.ents \in [Ent -> EntityDescription \cup {Absent}]
        /\ f.reports \in [Ent -> [val : Val \cup {Absent}] \cup {Absent}]
    BY DEF FoundEntry
  <1>2. en \in [Ent -> EntityDescription \cup {Absent}]
    BY <1>1
  <1>3. re \in [Ent -> [val : Val \cup {Absent}] \cup {Absent}]
    BY <1>1
  <1>4. /\ \A e \in Ent : en[e] = IF e \in es THEN Absent ELSE f.ents[e]
        /\ \A e \in Ent : re[e] = IF e \in es THEN Absent ELSE f.reports[e]
    OBVIOUS
  <1>5. o = [f EXCEPT !.ents = en, !.reports = re]
    BY DEF FoundWithout
  <1> HIDE DEF en, re
  <1> DEFINE m == [f EXCEPT !.ents = en]
  <1>6. m \in FoundEntry /\ m.ents = en /\ m.said = f.said
    BY <1>2 DEF FoundEntry
  <1>7. o = [m EXCEPT !.reports = re]
    BY <1>5
  <1> HIDE DEF m
  <1>8. o \in FoundEntry /\ o.reports = re /\ o.ents = en /\ o.said = f.said
    BY <1>3, <1>6, <1>7 DEF FoundEntry
  <1> QED
    BY <1>4, <1>8

\* remove_entity: it is taken from the found device that has it, or from the home.
LEMMA RemoveEntityIs ==
  ASSUME NEW h \in Home, NEW e \in Ent, NEW g, g = RemoveEntity(h, e)
  PROVE  /\ g \in Home /\ SameDevices(h, g)
         /\ \/ /\ h.foundOf[e] # Absent /\ g.entity = h.entity
               /\ g.foundOf = [h.foundOf EXCEPT ![e] = Absent]
               /\ \A j \in Id : j # h.foundOf[e] => g.found[j] = h.found[j]
               /\ IsFound(h, h.foundOf[e]) =>
                    /\ g.found[h.foundOf[e]] = FoundWithout(h.found[h.foundOf[e]], {e})
                    /\ IsFound(g, h.foundOf[e])
               /\ ~IsFound(h, h.foundOf[e]) => g.found = h.found
            \/ /\ h.foundOf[e] = Absent /\ g.foundOf = h.foundOf /\ g.found = h.found
               /\ g.entity = [h.entity EXCEPT ![e] = Absent]
  <1> DEFINE i == h.foundOf[e]
             f == FoundWithout(h.found[i], {e})
             k == [h EXCEPT !.foundOf = [@ EXCEPT ![e] = Absent]]
  <1>0. i \in Id \cup {Absent}
    BY HomeOK
  <1>1. CASE i = Absent
    <2>1. g = [h EXCEPT !.entity = [@ EXCEPT ![e] = Absent]]
      BY <1>1 DEF RemoveEntity
    <2>2. [h.entity EXCEPT ![e] = Absent] \in [Ent -> EntityEntry \cup {Absent}]
      BY HomeOK
    <2>3. g \in Home /\ g.entity = [h.entity EXCEPT ![e] = Absent]
          /\ g.keys = h.keys /\ g.device = h.device /\ g.added = h.added
          /\ g.found = h.found /\ g.foundOf = h.foundOf
      BY <2>1, <2>2 DEF Home
    <2> QED
      BY <1>1, <2>3 DEF SameDevices, IsFound
  <1>2. CASE i # Absent
    <2>1. [h.foundOf EXCEPT ![e] = Absent] \in [Ent -> Id \cup {Absent}]
      BY HomeOK
    <2>2. k \in Home /\ k.foundOf = [h.foundOf EXCEPT ![e] = Absent] /\ k.found = h.found
          /\ k.keys = h.keys /\ k.device = h.device /\ k.added = h.added /\ k.entity = h.entity
      BY <2>1 DEF Home
    <2>3. CASE ~IsFound(h, i)
      <3>1. g = k
        BY <1>2, <2>2, <2>3 DEF RemoveEntity, Home
      <3> QED
        BY <1>2, <2>2, <2>3, <3>1 DEF SameDevices, IsFound
    <2>4. CASE IsFound(h, i)
      <3>1. g = WithFound(k, i, f)
        BY <1>2, <2>2, <2>4 DEF RemoveEntity, WithFound
      <3>2. f \in FoundEntry
        <4>1. h.found[i] \in FoundEntry
          BY <1>0, <1>2, <2>4, EntryOK
        <4> QED
          BY <4>1, FoundWithoutOK
      <3> HIDE DEF f, k
      <3>3. i \in Id /\ k \in Home /\ IsFound(k, i)
        BY <1>0, <1>2, <2>2, <2>4 DEF IsFound
      <3>4. /\ g \in Home /\ SameDevices(k, g)
            /\ g.entity = k.entity /\ g.foundOf = k.foundOf /\ g.found[i] = f /\ f # Absent
            /\ \A j \in Id : j # i => g.found[j] = k.found[j]
        BY <3>1, <3>2, <3>3, FoundChange
      <3>5. SameDevices(h, g)
        BY <2>2, <3>4 DEF SameDevices, IsFound
      <3> QED
        BY <1>2, <2>2, <2>4, <3>4, <3>5 DEF f, IsFound
    <2> QED
      BY <2>3, <2>4
  <1> QED
    BY <1>1, <1>2

\* A found device told a report of an entity, an entity with a value.
Reported(f, e, v) == [f EXCEPT !.reports = [@ EXCEPT ![e] = [val |-> v]]]
Valued(n, v) == [n EXCEPT !.val = v]

\* It is a found device still, and told nothing else.
LEMMA ReportedOK ==
  ASSUME NEW f \in FoundEntry, NEW e \in Ent, NEW v \in Val \cup {Absent},
         NEW o, o = Reported(f, e, v)
  PROVE  /\ o \in FoundEntry /\ o.said = f.said /\ o.ents = f.ents
         /\ o.reports[e] # Absent /\ o.reports[e].val = v
         /\ \A x \in Ent : x # e => o.reports[x] = f.reports[x]
  <1> DEFINE re == [f.reports EXCEPT ![e] = [val |-> v]]
  <1>1. f.reports \in [Ent -> [val : Val \cup {Absent}] \cup {Absent}]
    BY DEF FoundEntry
  <1>2. /\ re \in [Ent -> [val : Val \cup {Absent}] \cup {Absent}]
        /\ re[e] # Absent /\ re[e].val = v
        /\ \A x \in Ent : x # e => re[x] = f.reports[x]
    <2>1. [val |-> v] \in [val : Val \cup {Absent}] /\ [val |-> v].val = v
      OBVIOUS
    <2> QED
      BY <1>1, <2>1, AbsentAssumption
  <1>3. o = [f EXCEPT !.reports = re]
    BY DEF Reported
  <1> HIDE DEF re
  <1>4. o \in FoundEntry /\ o.said = f.said /\ o.ents = f.ents /\ o.reports = re
    BY <1>2, <1>3 DEF FoundEntry
  <1> QED
    BY <1>2, <1>4

\* It is the entity it was.
LEMMA ValuedOK ==
  ASSUME NEW n \in EntityEntry, NEW v \in Val \cup {Absent}, NEW m, m = Valued(n, v)
  PROVE  m \in EntityEntry /\ m.dev = n.dev /\ m.said = n.said /\ m.val = v
  BY DEF EntityEntry, Valued

\* report_state: refused, kept for a found device, or taken by the home.
LEMMA ReportStateIs ==
  ASSUME NEW h \in Home, NEW e \in Ent, NEW v \in Val \cup {Absent},
         NEW g, g = ReportState(h, e, v)
  PROVE  /\ g \in Home /\ SameDevices(h, g) /\ g.foundOf = h.foundOf
         /\ \/ ~ReportAccepted(h, e, v) /\ g = h
            \/ /\ h.foundOf[e] # Absent /\ g.entity = h.entity
               /\ \A j \in Id : j # h.foundOf[e] => g.found[j] = h.found[j]
               /\ IsFound(h, h.foundOf[e]) =>
                    /\ g.found[h.foundOf[e]] = Reported(h.found[h.foundOf[e]], e, v)
                    /\ IsFound(g, h.foundOf[e])
               /\ ~IsFound(h, h.foundOf[e]) => g.found = h.found
            \/ /\ h.foundOf[e] = Absent /\ g.found = h.found /\ h.entity[e] # Absent
               /\ v \in h.entity[e].said.fits \cup {Absent}
               /\ \A x \in Ent : x # e => g.entity[x] = h.entity[x]
               /\ g.entity[e] = Valued(h.entity[e], v) /\ g.entity[e] # Absent
  <1> DEFINE i == h.foundOf[e]
             f == Reported(h.found[i], e, v)
             n == Valued(h.entity[e], v)
  <1>0. i \in Id \cup {Absent}
    BY HomeOK
  <1>1. CASE ~ReportAccepted(h, e, v)
    BY <1>1 DEF ReportState, SameDevices
  <1>2. CASE ReportAccepted(h, e, v) /\ i = Absent
    <2>1. g = [h EXCEPT !.entity = [@ EXCEPT ![e] = n]]
      BY <1>2, HomeOK DEF ReportState, Valued
    <2>2. h.entity[e] # Absent /\ v \in h.entity[e].said.fits \cup {Absent}
      BY <1>2 DEF ReportAccepted
    <2>3. n \in EntityEntry
      <3>1. h.entity[e] \in EntityEntry
        BY <2>2, EntryOK
      <3> QED
        BY <3>1, ValuedOK
    <2> HIDE DEF n
    <2>4. [h.entity EXCEPT ![e] = n] \in [Ent -> EntityEntry \cup {Absent}]
      BY <2>3, HomeOK
    <2>5. g \in Home /\ g.entity = [h.entity EXCEPT ![e] = n]
          /\ g.keys = h.keys /\ g.device = h.device /\ g.added = h.added
          /\ g.found = h.found /\ g.foundOf = h.foundOf
      BY <2>1, <2>4 DEF Home
    <2>6. g.entity[e] = n /\ n # Absent /\ (\A x \in Ent : x # e => g.entity[x] = h.entity[x])
      BY <2>3, <2>5, HomeOK, AbsentAssumption
    <2>7. SameDevices(h, g)
      BY <2>5 DEF SameDevices, IsFound
    <2> QED
      BY <1>2, <2>2, <2>5, <2>6, <2>7 DEF n
  <1>3. CASE ReportAccepted(h, e, v) /\ i # Absent
    <2>1. CASE ~IsFound(h, i)
      <3>1. g = h
        BY <1>3, <2>1 DEF ReportState, Home
      <3> QED
        BY <1>3, <2>1, <3>1 DEF SameDevices
    <2>2. CASE IsFound(h, i)
      <3>1. g = WithFound(h, i, f)
        BY <1>3, <2>2 DEF ReportState, WithFound, Reported
      <3>2. f \in FoundEntry
        <4>1. h.found[i] \in FoundEntry
          BY <1>0, <1>3, <2>2, EntryOK
        <4> QED
          BY <4>1, ReportedOK
      <3> HIDE DEF f
      <3>3. i \in Id
        BY <1>0, <1>3
      <3>4. /\ g \in Home /\ SameDevices(h, g)
            /\ g.entity = h.entity /\ g.foundOf = h.foundOf /\ g.found[i] = f /\ f # Absent
            /\ \A j \in Id : j # i => g.found[j] = h.found[j]
        BY <2>2, <3>1, <3>2, <3>3, FoundChange
      <3> QED
        BY <1>3, <2>2, <3>4 DEF f, IsFound
    <2> QED
      BY <2>1, <2>2
  <1> QED
    BY <1>1, <1>2, <1>3

\* set_availability_of: only whether entities are in touch changes.
LEMMA AvailabilityOfIs ==
  ASSUME NEW h \in Home, NEW es, NEW up \in BOOLEAN, NEW g, g = SetAvailabilityOf(h, es, up)
  PROVE  g \in Home /\ SameDevices(h, g) /\ SameHeld(h, g) /\ SameEntities(h, g)
  <1> DEFINE ent == [e \in Ent |-> IF e \in es /\ h.entity[e] # Absent
                                   THEN [h.entity[e] EXCEPT !.up = up] ELSE h.entity[e]]
  <1>1. g = [h EXCEPT !.entity = ent]
    BY DEF SetAvailabilityOf
  <1>2. ASSUME NEW e \in Ent
        PROVE  /\ ent[e] \in EntityEntry \cup {Absent}
               /\ ent[e] = Absent <=> h.entity[e] = Absent
               /\ h.entity[e] # Absent => /\ ent[e].dev = h.entity[e].dev
                                          /\ ent[e].said = h.entity[e].said
                                          /\ ent[e].val = h.entity[e].val
    <2>1. CASE e \in es /\ h.entity[e] # Absent
      <3> DEFINE n == [h.entity[e] EXCEPT !.up = up]
      <3>1. n \in EntityEntry
        BY <2>1, EntryOK DEF EntityEntry
      <3>2. n.dev = h.entity[e].dev /\ n.said = h.entity[e].said /\ n.val = h.entity[e].val
        BY <2>1, EntryOK DEF EntityEntry
      <3>3. ent[e] = n
        BY <2>1
      <3> HIDE DEF n, ent
      <3> QED
        BY <2>1, <3>1, <3>2, <3>3, AbsentAssumption
    <2>2. CASE ~(e \in es /\ h.entity[e] # Absent)
      <3>1. ent[e] = h.entity[e]
        BY <2>2
      <3> HIDE DEF ent
      <3> QED
        BY <3>1, HomeOK
    <2> QED
      BY <2>1, <2>2
  <1>3. ent = [e \in Ent |-> ent[e]]
    OBVIOUS
  <1> HIDE DEF ent
  <1>4. ent \in [Ent -> EntityEntry \cup {Absent}]
    BY <1>2, <1>3
  <1>5. g \in Home /\ g.entity = ent
        /\ g.keys = h.keys /\ g.device = h.device /\ g.added = h.added
        /\ g.found = h.found /\ g.foundOf = h.foundOf
    BY <1>1, <1>4 DEF Home
  <1>6. SameEntities(h, g)
    BY <1>2, <1>5 DEF SameEntities
  <1> QED
    BY <1>5, <1>6 DEF SameDevices, SameHeld, IsFound

\* set_availability of a device.
LEMMA DeviceAvailabilityIs ==
  ASSUME NEW h \in Home, NEW u \in Dev, NEW up \in BOOLEAN,
         NEW g, g = SetDeviceAvailability(h, u, up)
  PROVE  g \in Home /\ SameDevices(h, g) /\ SameHeld(h, g) /\ SameEntities(h, g)
  <1> DEFINE i == IdOf[u]
             f == [h.found[i] EXCEPT !.up = up]
  <1>0. i \in Id
    BY SaidOK
  <1>1. CASE IsFound(h, i)
    <2>1. g = WithFound(h, i, f)
      BY <1>1 DEF SetDeviceAvailability, WithFound
    <2>2. f \in FoundEntry
      BY <1>0, <1>1, EntryOK DEF FoundEntry
    <2>3. f.said = h.found[i].said /\ f.ents = h.found[i].ents /\ f.reports = h.found[i].reports
      BY <1>0, <1>1, EntryOK DEF FoundEntry
    <2> HIDE DEF f
    <2>4. /\ g \in Home /\ SameDevices(h, g)
          /\ g.entity = h.entity /\ g.foundOf = h.foundOf /\ g.found[i] = f /\ f # Absent
          /\ \A j \in Id : j # i => g.found[j] = h.found[j]
      BY <1>0, <1>1, <2>1, <2>2, FoundChange
    <2> QED
      BY <1>0, <1>1, <2>3, <2>4 DEF SameHeld, SameEntities, IsFound
  <1>2. CASE ~IsFound(h, i) /\ h.keys[u] = Absent
    BY <1>2 DEF SetDeviceAvailability, SameDevices, SameHeld, SameEntities
  <1>3. CASE ~IsFound(h, i) /\ h.keys[u] # Absent
    BY <1>3, AvailabilityOfIs DEF SetDeviceAvailability
  <1> QED
    BY <1>1, <1>2, <1>3

\* set_availability of an entity.
LEMMA EntityAvailabilityIs ==
  ASSUME NEW h \in Home, NEW e \in Ent, NEW up \in BOOLEAN,
         NEW g, g = SetEntityAvailability(h, e, up)
  PROVE  g \in Home /\ SameDevices(h, g) /\ SameHeld(h, g) /\ SameEntities(h, g)
  <1>1. CASE h.foundOf[e] # Absent
    BY <1>1 DEF SetEntityAvailability, SameDevices, SameHeld, SameEntities
  <1>2. CASE h.foundOf[e] = Absent
    BY <1>2, AvailabilityOfIs DEF SetEntityAvailability
  <1> QED
    BY <1>1, <1>2

\* mark_unavailable.
LEMMA MarkUnavailableIs ==
  ASSUME NEW h \in Home, NEW g, g = MarkUnavailable(h)
  PROVE  g \in Home /\ SameDevices(h, g) /\ SameHeld(h, g) /\ SameEntities(h, g)
  BY AvailabilityOfIs DEF MarkUnavailable

\* A home of other parts.
HomeWith(h, ks, dv, en, fd, fo) ==
    [h EXCEPT !.keys = ks, !.entity = en, !.foundOf = fo, !.found = fd, !.device = dv]

\* It is a home with those parts.
LEMMA HomeWithOK ==
  ASSUME NEW h \in Home, NEW ks \in [Dev -> Id \cup {Absent}],
         NEW dv \in [Id -> DeviceEntry \cup {Absent}],
         NEW en \in [Ent -> EntityEntry \cup {Absent}],
         NEW fd \in [Id -> FoundEntry \cup {Absent}], NEW fo \in [Ent -> Id \cup {Absent}],
         NEW g, g = HomeWith(h, ks, dv, en, fd, fo)
  PROVE  /\ g \in Home /\ g.keys = ks /\ g.device = dv /\ g.entity = en
         /\ g.found = fd /\ g.foundOf = fo /\ g.added = h.added
  <1>1. /\ g.keys = ks /\ g.device = dv /\ g.entity = en
        /\ g.found = fd /\ g.foundOf = fo /\ g.added = h.added
    BY DEF HomeWith, Home
  <1>2. g = [keys |-> ks, device |-> dv, entity |-> en, found |-> fd, foundOf |-> fo,
             added |-> h.added]
    BY DEF HomeWith, Home
  <1>3. g \in Home
    BY <1>2, HomeOK DEF Home
  <1> QED
    BY <1>1, <1>3

\* No entity is in the home and of a found device.
Unmixed(h) == \A e \in Ent : h.foundOf[e] # Absent => h.entity[e] = Absent

\* A found device goes with its entities.
LEMMA UnfoundIs ==
  ASSUME NEW h \in Home, NEW i \in Id, IsFound(h, i), NEW g, g = Unfound(h, i)
  PROVE  /\ g \in Home /\ SameDevices(h, g) /\ g.entity = h.entity
         /\ ~IsFound(g, i) /\ \A j \in Id : j # i => g.found[j] = h.found[j]
         /\ \A e \in Ent : g.foundOf[e] = IF h.found[i].ents[e] # Absent
                                          THEN Absent ELSE h.foundOf[e]
  <1> DEFINE fd == [h.found EXCEPT ![i] = Absent]
             fo == [e \in Ent |-> IF h.found[i].ents[e] # Absent THEN Absent ELSE h.foundOf[e]]
  <1>1. g = [h EXCEPT !.found = fd, !.foundOf = fo]
    BY DEF Unfound
  <1>2. fd \in [Id -> FoundEntry \cup {Absent}]
    BY HomeOK
  <1>3. fo \in [Ent -> Id \cup {Absent}]
    BY HomeOK
  <1>4. /\ fd[i] = Absent /\ \A j \in Id : j # i => fd[j] = h.found[j]
        /\ \A e \in Ent : fo[e] = IF h.found[i].ents[e] # Absent THEN Absent ELSE h.foundOf[e]
    BY HomeOK
  <1> HIDE DEF fd, fo
  <1>5. g = HomeWith(h, h.keys, h.device, h.entity, fd, fo)
    BY <1>1 DEF HomeWith, Home
  <1>6. /\ g \in Home /\ g.keys = h.keys /\ g.device = h.device /\ g.entity = h.entity
        /\ g.found = fd /\ g.foundOf = fo /\ g.added = h.added
    BY <1>2, <1>3, <1>5, HomeOK, HomeWithOK
  <1>7. SameDevices(h, g)
    BY <1>4, <1>6 DEF SameDevices, IsFound
  <1> QED
    BY <1>4, <1>6, <1>7 DEF IsFound

\* remove_device: a found device goes with its entities, one in the home with
\* its entities and from what was reached through it.
LEMMA RemoveDeviceIs ==
  ASSUME NEW h, Sound(h), NEW u \in Dev, NEW g, g = RemoveDevice(h, u)
  PROVE  /\ Sound(g) /\ g.added = h.added
         /\ \/ /\ IsFound(h, IdOf[u]) /\ SameDevices(h, g) /\ g.entity = h.entity
               /\ ~IsFound(g, IdOf[u])
               /\ \A j \in Id : j # IdOf[u] => g.found[j] = h.found[j]
               /\ \A e \in Ent : g.foundOf[e] = IF h.found[IdOf[u]].ents[e] # Absent
                                                THEN Absent ELSE h.foundOf[e]
            \/ ~IsFound(h, IdOf[u]) /\ h.keys[u] = Absent /\ g = h
            \/ /\ ~IsFound(h, IdOf[u]) /\ h.keys[u] = IdOf[u] /\ ~InHome(g, IdOf[u])
               /\ \A j \in Id : j # IdOf[u] => (InHome(g, j) <=> InHome(h, j))
               /\ \A j \in Id : InHome(g, j) =>
                    g.device[j].u = h.device[j].u /\ g.device[j].said = h.device[j].said
               /\ \A j \in Id : IsFound(g, j) <=> IsFound(h, j)
               /\ \A j \in Id : IsFound(h, j) => g.found[j].said = h.found[j].said
               /\ Unmixed(h) =>
                    /\ SameHeld(h, g)
                    /\ \A e \in Ent : g.entity[e] = IF e \in EntitiesOf(h, IdOf[u])
                                                    THEN Absent ELSE h.entity[e]
  <1> DEFINE i == IdOf[u]
  <1>0. i \in Id /\ h \in Home /\ i # Absent
    BY SaidOK DEF Sound
  <1>1. CASE IsFound(h, i)
    <2>1. g = Unfound(h, i)
      BY <1>1 DEF RemoveDevice
    <2>2. /\ g \in Home /\ SameDevices(h, g) /\ g.entity = h.entity
          /\ ~IsFound(g, i) /\ \A j \in Id : j # i => g.found[j] = h.found[j]
          /\ \A e \in Ent : g.foundOf[e] = IF h.found[i].ents[e] # Absent
                                           THEN Absent ELSE h.foundOf[e]
      BY <1>0, <1>1, <2>1, UnfoundIs
    <2>3. Sound(g) /\ g.added = h.added
      BY <2>2, SameSound DEF SameDevices
    <2> QED
      BY <1>1, <2>2, <2>3
  <1>2. CASE ~IsFound(h, i) /\ h.keys[u] = Absent
    BY <1>2 DEF RemoveDevice
  <1>3. CASE ~IsFound(h, i) /\ h.keys[u] # Absent
    <2> DEFINE owned == EntitiesOf(h, i)
               ks == [h.keys EXCEPT ![u] = Absent]
               en == [e \in Ent |-> IF e \in owned /\ h.foundOf[e] = Absent
                                    THEN Absent ELSE h.entity[e]]
               fo == [e \in Ent |-> IF e \in owned THEN Absent ELSE h.foundOf[e]]
               mislaid(j) == {e \in owned : h.foundOf[e] = j}
               fd == [j \in Id |->
                        IF IsFound(h, j) THEN FoundWithout(h.found[j], mislaid(j)) ELSE Absent]
               dv == [j \in Id |->
                        IF j = i THEN Absent
                        ELSE IF InHome(h, j) /\ h.device[j].via = i
                        THEN [h.device[j] EXCEPT !.via = Absent]
                        ELSE h.device[j]]
    <2>0. h.keys[u] = i /\ InHome(h, i) /\ h.device[i].u = u
      BY <1>3 DEF Sound, Keys
    <2>1. g = HomeWith(h, ks, dv, en, fd, fo)
      BY <1>3, <2>0 DEF RemoveDevice, HomeWith
    <2>2. ks \in [Dev -> Id \cup {Absent}] /\ ks[u] = Absent
          /\ \A x \in Dev : x # u => ks[x] = h.keys[x]
      BY <1>0, HomeOK
    <2>3. en \in [Ent -> EntityEntry \cup {Absent}]
      BY <1>0, HomeOK
    <2>4. fo \in [Ent -> Id \cup {Absent}]
      BY <1>0, HomeOK
    <2>5. ASSUME NEW j \in Id
          PROVE  /\ fd[j] \in FoundEntry \cup {Absent}
                 /\ fd[j] # Absent <=> IsFound(h, j)
                 /\ IsFound(h, j) => fd[j] = FoundWithout(h.found[j], mislaid(j))
      <3>1. CASE IsFound(h, j)
        <4>1. h.found[j] \in FoundEntry
          BY <1>0, <3>1, EntryOK
        <4>2. fd[j] = FoundWithout(h.found[j], mislaid(j))
          BY <3>1
        <4> HIDE DEF fd, mislaid
        <4> QED
          BY <3>1, <4>1, <4>2, FoundWithoutOK, AbsentAssumption
      <3>2. CASE ~IsFound(h, j)
        BY <3>2
      <3> QED
        BY <3>1, <3>2
    <2>6. ASSUME NEW j \in Id
          PROVE  /\ dv[j] \in DeviceEntry \cup {Absent}
                 /\ dv[j] # Absent <=> (j # i /\ InHome(h, j))
                 /\ dv[j] # Absent =>
                      /\ dv[j].u = h.device[j].u /\ dv[j].said = h.device[j].said
                      /\ dv[j].via # Absent => dv[j].via = h.device[j].via /\ dv[j].via # i
      <3>1. CASE j = i \/ ~InHome(h, j)
        BY <3>1 DEF InHome
      <3>2. CASE j # i /\ InHome(h, j) /\ h.device[j].via # i
        <4>1. dv[j] = h.device[j]
          BY <3>2
        <4> HIDE DEF dv
        <4> QED
          BY <1>0, <3>2, <4>1, EntryOK DEF InHome
      <3>3. CASE j # i /\ InHome(h, j) /\ h.device[j].via = i
        <4> DEFINE r == [h.device[j] EXCEPT !.via = Absent]
        <4>1. h.device[j] \in DeviceEntry
          BY <1>0, <3>3, EntryOK
        <4>2. /\ r \in DeviceEntry /\ r.via = Absent
              /\ r.u = h.device[j].u /\ r.said = h.device[j].said
          BY <4>1 DEF DeviceEntry
        <4>3. dv[j] = r
          BY <3>3
        <4> HIDE DEF dv, r
        <4> QED
          BY <3>3, <4>2, <4>3, AbsentAssumption
      <3> QED
        BY <3>1, <3>2, <3>3
    <2>7. fd = [j \in Id |-> fd[j]] /\ dv = [j \in Id |-> dv[j]]
      OBVIOUS
    <2>8. \A e \in Ent : en[e] = IF e \in owned /\ h.foundOf[e] = Absent
                                 THEN Absent ELSE h.entity[e]
      OBVIOUS
    <2>9. \A e \in Ent : fo[e] = IF e \in owned THEN Absent ELSE h.foundOf[e]
      OBVIOUS
    <2>10. \A j : \A e : e \in mislaid(j) <=> e \in owned /\ h.foundOf[e] = j
      OBVIOUS
    <2> HIDE DEF ks, en, fo, fd, dv, mislaid, owned
    <2>11. fd \in [Id -> FoundEntry \cup {Absent}] /\ dv \in [Id -> DeviceEntry \cup {Absent}]
      BY <2>5, <2>6, <2>7
    <2>12. /\ g \in Home /\ g.keys = ks /\ g.device = dv /\ g.entity = en
           /\ g.found = fd /\ g.foundOf = fo /\ g.added = h.added
      BY <1>0, <2>1, <2>2, <2>3, <2>4, <2>11, HomeWithOK
    <2>13. \A j \in Id : /\ InHome(g, j) <=> (j # i /\ InHome(h, j))
                         /\ IsFound(g, j) <=> IsFound(h, j)
      BY <2>5, <2>6, <2>12 DEF InHome, IsFound
    <2>14. Through(g)
      <3>1. ASSUME NEW j \in Id, InHome(g, j), g.device[j].via # Absent
            PROVE  g.device[j].via = h.device[j].via /\ InHome(g, h.device[j].via)
        <4>1. InHome(h, j) /\ dv[j] # Absent
          BY <2>12, <2>13, <3>1 DEF InHome
        <4>2. g.device[j].via = h.device[j].via /\ h.device[j].via # i /\ h.device[j].via # Absent
          BY <2>6, <2>12, <3>1, <4>1
        <4>3. InHome(h, h.device[j].via) /\ h.device[j].via \in Id
          BY <1>0, <4>1, <4>2, EntryOK DEF Sound, Through
        <4> QED
          BY <2>13, <4>2, <4>3
      <3> QED
        BY <1>0, <2>12, <2>13, <3>1, FewerVia DEF Sound
    <2>15. Apart(g)
      BY <2>13 DEF Apart, Sound
    <2>16. Keys(g)
      <3>1. ASSUME NEW x \in Dev, g.keys[x] # Absent
            PROVE  g.keys[x] = IdOf[x] /\ InHome(g, IdOf[x]) /\ g.device[IdOf[x]].u = x
        <4>1. x # u /\ g.keys[x] = h.keys[x]
          BY <2>2, <2>12, <3>1
        <4>2. h.keys[x] = IdOf[x] /\ InHome(h, IdOf[x]) /\ h.device[IdOf[x]].u = x
          BY <3>1, <4>1 DEF Sound, Keys
        <4>3. IdOf[x] # i /\ IdOf[x] \in Id
          BY <2>0, <4>1, <4>2, SaidOK
        <4> QED
          BY <2>6, <2>12, <2>13, <4>1, <4>2, <4>3 DEF InHome
      <3>2. ASSUME NEW j \in Id, InHome(g, j)
            PROVE  g.keys[g.device[j].u] = j
        <4>1. j # i /\ InHome(h, j) /\ g.device[j].u = h.device[j].u
          BY <2>6, <2>12, <2>13, <3>2 DEF InHome
        <4>2. h.keys[h.device[j].u] = j /\ h.device[j].u \in Dev
          BY <1>0, <4>1, EntryOK DEF Sound, Keys
        <4>3. h.device[j].u # u
          BY <2>0, <4>1, <4>2
        <4> QED
          BY <2>2, <2>12, <4>1, <4>2, <4>3
      <3> QED
        BY <3>1, <3>2 DEF Keys
    <2>17. \A j \in Id : InHome(g, j) =>
              g.device[j].u = h.device[j].u /\ g.device[j].said = h.device[j].said
      BY <2>6, <2>12 DEF InHome
    <2>18. ASSUME Unmixed(h)
           PROVE  /\ SameHeld(h, g)
                  /\ \A e \in Ent : g.entity[e] = IF e \in EntitiesOf(h, i)
                                                  THEN Absent ELSE h.entity[e]
      <3>1. \A e \in Ent : e \in owned => h.foundOf[e] = Absent
        BY <2>18 DEF Unmixed, EntitiesOf, owned
      <3>2. \A e \in Ent : g.entity[e] = IF e \in EntitiesOf(h, i) THEN Absent ELSE h.entity[e]
        BY <2>8, <2>12, <3>1 DEF owned
      <3>3. g.foundOf = h.foundOf
        <4>1. \A e \in Ent : fo[e] = h.foundOf[e]
          BY <2>9, <3>1
        <4> QED
          BY <1>0, <2>4, <2>12, <4>1, HomeOK
      <3>4. ASSUME NEW j \in Id, IsFound(h, j)
            PROVE  /\ g.found[j].said = h.found[j].said
                   /\ g.found[j].ents = h.found[j].ents
                   /\ g.found[j].reports = h.found[j].reports
        <4>1. \A e \in Ent : e \notin mislaid(j)
          BY <2>10, <3>1, SaidOK
        <4>2. h.found[j] \in FoundEntry /\ g.found[j] = FoundWithout(h.found[j], mislaid(j))
          BY <1>0, <2>5, <2>12, <3>4, EntryOK
        <4>3. /\ g.found[j] \in FoundEntry /\ g.found[j].said = h.found[j].said
              /\ \A e \in Ent : g.found[j].ents[e] = h.found[j].ents[e]
              /\ \A e \in Ent : g.found[j].reports[e] = h.found[j].reports[e]
          BY <4>1, <4>2, FoundWithoutOK
        <4>4. \A f \in FoundEntry :
                 /\ f.ents \in [Ent -> EntityDescription \cup {Absent}]
                 /\ f.reports \in [Ent -> [val : Val \cup {Absent}] \cup {Absent}]
          BY DEF FoundEntry
        <4> QED
          BY <4>2, <4>3, <4>4
      <3> QED
        BY <2>13, <3>2, <3>3, <3>4 DEF SameHeld
    <2>19. Sound(g) /\ g.added = h.added
      BY <2>12, <2>14, <2>15, <2>16 DEF Sound
    <2>20. /\ ~InHome(g, i)
           /\ \A j \in Id : j # i => (InHome(g, j) <=> InHome(h, j))
           /\ \A j \in Id : IsFound(g, j) <=> IsFound(h, j)
      BY <1>0, <2>13
    <2>21. ASSUME NEW j \in Id, IsFound(h, j)
           PROVE  g.found[j].said = h.found[j].said
      <3>1. h.found[j] \in FoundEntry /\ g.found[j] = FoundWithout(h.found[j], mislaid(j))
        BY <1>0, <2>5, <2>12, <2>21, EntryOK
      <3> QED
        BY <3>1, FoundWithoutOK
    <2> QED
      BY <1>3, <2>0, <2>17, <2>18, <2>19, <2>20, <2>21
  <1> QED
    BY <1>1, <1>2, <1>3

\* What is kept of a device that is taken out.
LEMMA FoundFromOK ==
  ASSUME NEW h \in Home, NEW i \in Id, InHome(h, i), NEW f, f = FoundFrom(h, i)
  PROVE  /\ f \in FoundEntry /\ f # Absent /\ f.said = h.device[i].said
         /\ \A e \in Ent : f.ents[e] = IF e \in EntitiesOf(h, i) THEN h.entity[e].said ELSE Absent
         /\ \A e \in Ent : IF e \in EntitiesOf(h, i)
                          THEN f.reports[e] # Absent /\ f.reports[e].val = h.entity[e].val
                          ELSE f.reports[e] = Absent
  <1> DEFINE owned == EntitiesOf(h, i)
             d == h.device[i].said
             en == [e \in Ent |-> IF e \in owned THEN h.entity[e].said ELSE Absent]
             re == [e \in Ent |-> IF e \in owned THEN [val |-> h.entity[e].val] ELSE Absent]
             up == \A e \in owned : h.entity[e].up
  <1>1. f = [said |-> d, ents |-> en, reports |-> re, up |-> up]
    BY DEF FoundFrom
  <1>2. d \in DeviceDescription
    BY EntryOK
  <1>3. \A e \in owned : e \in Ent /\ h.entity[e].said \in EntityDescription
                         /\ h.entity[e].val \in Val \cup {Absent}
    BY EntryOK DEF EntitiesOf
  <1>4. en \in [Ent -> EntityDescription \cup {Absent}]
    BY <1>3
  <1>5. re \in [Ent -> [val : Val \cup {Absent}] \cup {Absent}]
    BY <1>3
  <1>6. up \in BOOLEAN
    OBVIOUS
  <1>7. /\ \A e \in Ent : en[e] = IF e \in EntitiesOf(h, i) THEN h.entity[e].said ELSE Absent
        /\ \A e \in Ent : IF e \in EntitiesOf(h, i)
                         THEN re[e] # Absent /\ re[e].val = h.entity[e].val
                         ELSE re[e] = Absent
    <2>1. \A e \in owned : [val |-> h.entity[e].val] \in [val : Val \cup {Absent}]
      BY <1>3
    <2> QED
      BY <2>1, AbsentAssumption
  <1> HIDE DEF owned, d, en, re, up
  <1>8. f \in FoundEntry
    BY <1>1, <1>2, <1>4, <1>5, <1>6 DEF FoundEntry
  <1>9. f.said = d /\ f.ents = en /\ f.reports = re
    BY <1>1
  <1> QED
    BY <1>7, <1>8, <1>9, AbsentAssumption DEF d

\* hold: the device leaves the home and is found, with its entities.
LEMMA HoldIs ==
  ASSUME NEW h, Sound(h), NEW i \in Id, InHome(h, i), NEW g, g = Hold(h, i)
  PROVE  /\ Sound(g) /\ g.added = h.added /\ ~InHome(g, i)
         /\ \A j \in Id : j # i => (InHome(g, j) <=> InHome(h, j))
         /\ \A j \in Id : InHome(g, j) =>
              g.device[j].u = h.device[j].u /\ g.device[j].said = h.device[j].said
         /\ \A j \in Id : IsFound(g, j) <=> (j = i \/ IsFound(h, j))
         /\ g.found[i] = FoundFrom(h, i)
         /\ \A j \in Id : j # i /\ IsFound(h, j) => g.found[j].said = h.found[j].said
         /\ Unmixed(h) =>
              /\ \A j \in Id : j # i /\ IsFound(h, j) =>
                   /\ g.found[j].said = h.found[j].said
                   /\ g.found[j].ents = h.found[j].ents
                   /\ g.found[j].reports = h.found[j].reports
              /\ \A e \in Ent : /\ g.foundOf[e] = IF e \in EntitiesOf(h, i)
                                                  THEN i ELSE h.foundOf[e]
                                /\ g.entity[e] = IF e \in EntitiesOf(h, i)
                                                 THEN Absent ELSE h.entity[e]
  <1> DEFINE u == h.device[i].u
             gone == RemoveDevice(h, u)
             f == FoundFrom(h, i)
             fd == [gone.found EXCEPT ![i] = f]
             fo == Marked(gone, h, i)
  <1>0. h \in Home /\ u \in Dev /\ h.keys[u] = i /\ IdOf[u] = i /\ ~IsFound(h, i) /\ i # Absent
    BY EntryOK, SaidOK DEF Sound, Keys, Apart
  <1>1. /\ Sound(gone) /\ gone.added = h.added /\ ~InHome(gone, i)
        /\ \A j \in Id : j # i => (InHome(gone, j) <=> InHome(h, j))
        /\ \A j \in Id : InHome(gone, j) =>
             gone.device[j].u = h.device[j].u /\ gone.device[j].said = h.device[j].said
        /\ \A j \in Id : IsFound(gone, j) <=> IsFound(h, j)
        /\ \A j \in Id : IsFound(h, j) => gone.found[j].said = h.found[j].said
        /\ Unmixed(h) =>
             /\ SameHeld(h, gone)
             /\ \A e \in Ent : gone.entity[e] = IF e \in EntitiesOf(h, i)
                                                THEN Absent ELSE h.entity[e]
    BY <1>0, RemoveDeviceIs
  <1>2. f \in FoundEntry /\ f # Absent
    BY <1>0, FoundFromOK
  <1>3. g = [gone EXCEPT !.found = fd, !.foundOf = fo]
    BY DEF Hold
  <1> HIDE DEF gone, f
  <1>4. gone \in Home
    BY <1>1 DEF Sound
  <1>5. fd \in [Id -> FoundEntry \cup {Absent}] /\ fd[i] = f
        /\ \A j \in Id : j # i => fd[j] = gone.found[j]
    BY <1>2, <1>4, HomeOK
  <1>6. fo \in [Ent -> Id \cup {Absent}]
        /\ \A e \in Ent : fo[e] = IF e \in EntitiesOf(h, i) THEN i ELSE gone.foundOf[e]
    BY <1>4, HomeOK DEF Marked
  <1> HIDE DEF fd, fo, u
  <1>7. g = HomeWith(gone, gone.keys, gone.device, gone.entity, fd, fo)
    BY <1>3, <1>4 DEF HomeWith, Home
  <1>8. /\ g \in Home /\ g.keys = gone.keys /\ g.device = gone.device /\ g.entity = gone.entity
        /\ g.found = fd /\ g.foundOf = fo /\ g.added = gone.added
    BY <1>4, <1>5, <1>6, <1>7, HomeOK, HomeWithOK
  <1>9. \A j : InHome(g, j) <=> InHome(gone, j)
    BY <1>8 DEF InHome
  <1>10. \A j \in Id : IsFound(g, j) <=> (j = i \/ IsFound(h, j))
    BY <1>1, <1>2, <1>5, <1>8 DEF IsFound
  <1>11. Sound(g)
    <2>1. Keys(g)
      BY <1>1, <1>8, <1>9 DEF Keys, Sound
    <2>2. Apart(g)
      BY <1>1, <1>9, <1>10 DEF Apart, Sound
    <2>3. Through(g)
      <3>1. \A S : Closed(g, S) <=> Closed(gone, S)
        BY <1>8, <1>9 DEF Closed
      <3> QED
        BY <3>1, <1>1, <1>8, <1>9 DEF Through, Reaches, Sound
    <2> QED
      BY <1>8, <2>1, <2>2, <2>3 DEF Sound
  <1>12. ASSUME Unmixed(h)
         PROVE  /\ \A j \in Id : j # i /\ IsFound(h, j) =>
                     /\ g.found[j].said = h.found[j].said
                     /\ g.found[j].ents = h.found[j].ents
                     /\ g.found[j].reports = h.found[j].reports
                /\ \A e \in Ent : /\ g.foundOf[e] = IF e \in EntitiesOf(h, i)
                                                    THEN i ELSE h.foundOf[e]
                                  /\ g.entity[e] = IF e \in EntitiesOf(h, i)
                                                   THEN Absent ELSE h.entity[e]
    <2>1. \A j \in Id : j # i /\ IsFound(h, j) =>
                     /\ g.found[j].said = h.found[j].said
                     /\ g.found[j].ents = h.found[j].ents
                     /\ g.found[j].reports = h.found[j].reports
      BY <1>1, <1>5, <1>8, <1>12 DEF SameHeld
    <2>2. gone.foundOf = h.foundOf
      BY <1>1, <1>12 DEF SameHeld
    <2>3. \A e \in Ent : g.foundOf[e] = IF e \in EntitiesOf(h, i) THEN i ELSE h.foundOf[e]
      BY <1>6, <1>8, <2>2
    <2>4. \A e \in Ent : g.entity[e] = IF e \in EntitiesOf(h, i) THEN Absent ELSE h.entity[e]
      BY <1>1, <1>8, <1>12
    <2> QED
      BY <2>1, <2>3, <2>4
  <1>13. /\ g.added = h.added /\ ~InHome(g, i) /\ g.found[i] = FoundFrom(h, i)
         /\ \A j \in Id : j # i => (InHome(g, j) <=> InHome(h, j))
         /\ \A j \in Id : InHome(g, j) =>
              g.device[j].u = h.device[j].u /\ g.device[j].said = h.device[j].said
    BY <1>1, <1>5, <1>8, <1>9 DEF f
  <1>14. \A j \in Id : j # i /\ IsFound(h, j) => g.found[j].said = h.found[j].said
    BY <1>1, <1>5, <1>8
  <1> QED
    BY <1>10, <1>11, <1>12, <1>13, <1>14

\* Only entities in the home are others than they were.
LEMMA EntitiesAre ==
  ASSUME NEW h \in Home, NEW en \in [Ent -> EntityEntry \cup {Absent}],
         NEW g, g = [h EXCEPT !.entity = en]
  PROVE  /\ g \in Home /\ SameDevices(h, g) /\ g.entity = en
         /\ g.found = h.found /\ g.foundOf = h.foundOf
  <1>1. /\ g \in Home /\ g.keys = h.keys /\ g.device = h.device /\ g.entity = en
        /\ g.found = h.found /\ g.foundOf = h.foundOf /\ g.added = h.added
    BY DEF Home
  <1> QED
    BY <1>1 DEF SameDevices, IsFound

\* The entities of a device described again.
LEMMA DescribeAllIs ==
  ASSUME NEW h, Sound(h), NEW f \in FoundEntry, NEW g, g = DescribeAll(h, f)
  PROVE  /\ g \in Home /\ SameDevices(h, g) /\ g.found = h.found /\ g.foundOf = h.foundOf
         /\ \A e \in Ent :
              g.entity[e] = IF f.ents[e] = Absent THEN h.entity[e]
                            ELSE DescribeEntity(h, e, f.ents[e]).entity[e]
  <1> DEFINE en == [e \in Ent |-> IF f.ents[e] = Absent THEN h.entity[e]
                                  ELSE DescribeEntity(h, e, f.ents[e]).entity[e]]
  <1>0. h \in Home /\ f.ents \in [Ent -> EntityDescription \cup {Absent}]
    BY DEF Sound, FoundEntry
  <1>1. g = [h EXCEPT !.entity = en]
    BY DEF DescribeAll
  <1>2. ASSUME NEW e \in Ent
        PROVE  en[e] \in EntityEntry \cup {Absent}
    <2>1. CASE f.ents[e] = Absent
      BY <1>0, <2>1, HomeOK
    <2>2. CASE f.ents[e] # Absent
      <3>1. f.ents[e] \in EntityDescription
        BY <1>0, <2>2
      <3>2. PICK k : k = DescribeEntity(h, e, f.ents[e])
        OBVIOUS
      <3>3. k \in Home
        BY <3>1, <3>2, DescribeEntityIs
      <3>4. en[e] = k.entity[e]
        BY <2>2, <3>2
      <3> QED
        BY <3>3, <3>4, HomeOK
    <2> QED
      BY <2>1, <2>2
  <1>3. /\ en = [e \in Ent |-> en[e]]
        /\ \A e \in Ent : en[e] = IF f.ents[e] = Absent THEN h.entity[e]
                                  ELSE DescribeEntity(h, e, f.ents[e]).entity[e]
    OBVIOUS
  <1> HIDE DEF en
  <1>4. en \in [Ent -> EntityEntry \cup {Absent}]
    BY <1>2, <1>3
  <1> QED
    BY <1>0, <1>1, <1>3, <1>4, EntitiesAre

\* What they last said, reported again.
LEMMA ReplayIs ==
  ASSUME NEW h \in Home, NEW f \in FoundEntry, NEW g, g = Replay(h, f)
  PROVE  /\ g \in Home /\ SameDevices(h, g) /\ g.found = h.found /\ g.foundOf = h.foundOf
         /\ \A e \in Ent :
              g.entity[e] = IF f.reports[e] = Absent THEN h.entity[e]
                            ELSE ReportState(h, e, f.reports[e].val).entity[e]
  <1> DEFINE en == [e \in Ent |-> IF f.reports[e] = Absent THEN h.entity[e]
                                  ELSE ReportState(h, e, f.reports[e].val).entity[e]]
  <1>0. f.reports \in [Ent -> [val : Val \cup {Absent}] \cup {Absent}]
    BY DEF FoundEntry
  <1>1. g = [h EXCEPT !.entity = en]
    BY DEF Replay
  <1>2. ASSUME NEW e \in Ent
        PROVE  en[e] \in EntityEntry \cup {Absent}
    <2>1. CASE f.reports[e] = Absent
      BY <2>1, HomeOK
    <2>2. CASE f.reports[e] # Absent
      <3>1. f.reports[e].val \in Val \cup {Absent}
        BY <1>0, <2>2
      <3>2. PICK k : k = ReportState(h, e, f.reports[e].val)
        OBVIOUS
      <3>3. k \in Home
        BY <3>1, <3>2, ReportStateIs
      <3>4. en[e] = k.entity[e]
        BY <2>2, <3>2
      <3> QED
        BY <3>3, <3>4, HomeOK
    <2> QED
      BY <2>1, <2>2
  <1>3. /\ en = [e \in Ent |-> en[e]]
        /\ \A e \in Ent : en[e] = IF f.reports[e] = Absent THEN h.entity[e]
                                  ELSE ReportState(h, e, f.reports[e].val).entity[e]
    OBVIOUS
  <1> HIDE DEF en
  <1>4. en \in [Ent -> EntityEntry \cup {Absent}]
    BY <1>2, <1>3
  <1> QED
    BY <1>1, <1>3, <1>4, EntitiesAre

\* admit, step by step.
LEMMA AdmitIs ==
  ASSUME NEW h, Sound(h), Added(h), NEW i \in Id, IsFound(h, i),
         NEW un, un = Unfound(h, i), NEW in, in = DescribeDevice(un, h.found[i].said),
         NEW de, de = DescribeAll(in, h.found[i]), NEW re, re = Replay(de, h.found[i]),
         NEW g, g = Admit(h, i)
  PROVE  /\ Sound(un) /\ Sound(in) /\ Sound(de) /\ Sound(re) /\ Sound(g)
         /\ Added(un) /\ Added(g)
         /\ SameDevices(re, g) /\ SameHeld(re, g) /\ SameEntities(re, g)
  <1> DEFINE f == h.found[i]
  <1>0. h \in Home /\ f \in FoundEntry /\ f.said \in DeviceDescription
    BY EntryOK DEF Sound
  <1>1. Sound(un) /\ Added(un)
    BY <1>0, UnfoundIs, SameSound
  <1>2. Sound(in) /\ Added(in)
    BY <1>0, <1>1, DescribeDeviceOK
  <1>3. Sound(de) /\ Added(de)
    BY <1>0, <1>2, DescribeAllIs, SameSound
  <1>4. Sound(re) /\ Added(re)
    <2>1. re \in Home /\ SameDevices(de, re)
      BY <1>0, <1>3, ReplayIs DEF Sound
    <2> QED
      BY <1>3, <2>1, SameSound
  <1>5. g = IF f.up THEN re ELSE SetDeviceAvailability(re, f.said.u, FALSE)
    BY DEF Admit
  <1>6. g \in Home /\ SameDevices(re, g) /\ SameHeld(re, g) /\ SameEntities(re, g)
    <2>1. CASE f.up
      BY <1>4, <1>5, <2>1 DEF SameDevices, SameHeld, SameEntities, Sound
    <2>2. CASE ~f.up
      <3>1. f.said.u \in Dev /\ FALSE \in BOOLEAN /\ re \in Home
        BY <1>0, <1>4, SaidOK DEF Sound
      <3>2. g = SetDeviceAvailability(re, f.said.u, FALSE)
        BY <1>5, <2>2
      <3> QED
        BY <3>1, <3>2, DeviceAvailabilityIs
    <2> QED
      BY <2>1, <2>2
  <1>7. Sound(g) /\ Added(g)
    BY <1>4, <1>6, SameSound
  <1> QED
    BY <1>1, <1>2, <1>3, <1>4, <1>6, <1>7

\* What the history keeps is a value or nothing.
LEMMA LastOK ==
  ASSUME NEW l \in [Ent -> Val \cup {Absent}], NEW h
  PROVE  /\ [e \in Ent |-> IF h.entity[e] # Absent /\ l[e] \notin h.entity[e].said.fits
                           THEN Absent ELSE l[e]] \in [Ent -> Val \cup {Absent}]
         /\ [e \in Ent |-> IF e \in Kept(h) THEN l[e] ELSE Absent] \in [Ent -> Val \cup {Absent}]
  OBVIOUS

\* remove_protocol leaves no device, and no entity of one.
LEMMA ProtocolGone ==
  ASSUME NEW h, Sound(h), NEW g,
         g = HomeWith(h, [u \in Dev |-> Absent], [i \in Id |-> Absent],
                      [e \in Ent |->
                          IF /\ \E i \in Id : InHome(h, i) /\ e \in EntitiesOf(h, i)
                             /\ h.foundOf[e] = Absent
                          THEN Absent ELSE h.entity[e]],
                      [i \in Id |-> Absent], [e \in Ent |-> Absent])
  PROVE  /\ Sound(g) /\ Added(g)
         /\ \A i \in Id : ~InHome(g, i) /\ ~IsFound(g, i)
         /\ \A e \in Ent :
              /\ g.foundOf[e] = Absent
              /\ g.entity[e] = IF /\ \E i \in Id : InHome(h, i) /\ e \in EntitiesOf(h, i)
                                  /\ h.foundOf[e] = Absent
                               THEN Absent ELSE h.entity[e]
  <1> DEFINE ks == [u \in Dev |-> Absent]
             dv == [i \in Id |-> Absent]
             fo == [e \in Ent |-> Absent]
             Owned(e) == \E i \in Id : InHome(h, i) /\ e \in EntitiesOf(h, i)
             en == [e \in Ent |-> IF Owned(e) /\ h.foundOf[e] = Absent THEN Absent ELSE h.entity[e]]
  <1>0. h \in Home
    BY DEF Sound
  <1>1. /\ ks \in [Dev -> Id \cup {Absent}] /\ dv \in [Id -> DeviceEntry \cup {Absent}]
        /\ dv \in [Id -> FoundEntry \cup {Absent}] /\ fo \in [Ent -> Id \cup {Absent}]
    OBVIOUS
  <1>2. en \in [Ent -> EntityEntry \cup {Absent}]
    <2> HIDE DEF Owned
    <2> QED
      BY <1>0, HomeOK
  <1>3. /\ \A u \in Dev : ks[u] = Absent
        /\ \A i \in Id : dv[i] = Absent
        /\ \A e \in Ent : fo[e] = Absent
        /\ \A e \in Ent : en[e] = IF Owned(e) /\ h.foundOf[e] = Absent
                                  THEN Absent ELSE h.entity[e]
    OBVIOUS
  <1>4. g = HomeWith(h, ks, dv, en, dv, fo)
    OBVIOUS
  <1> HIDE DEF ks, dv, fo, en
  <1>5. /\ g \in Home /\ g.keys = ks /\ g.device = dv /\ g.entity = en
        /\ g.found = dv /\ g.foundOf = fo
    BY <1>0, <1>1, <1>2, <1>4, HomeWithOK
  <1>6. Sound(g) /\ Added(g)
    BY <1>3, <1>5 DEF Sound, Keys, Apart, Through, Added, InHome
  <1> QED
    BY <1>3, <1>5, <1>6 DEF InHome, IsFound

\* A home with other rows in devices.toml.
WithRows(h, s) == [h EXCEPT !.added = s]

\* A row of devices.toml more or less leaves the home as it is.
LEMMA RowIs ==
  ASSUME NEW h, Sound(h), NEW s \in SUBSET Id, NEW g, g = WithRows(h, s)
  PROVE  /\ Sound(g) /\ g.added = s /\ g.keys = h.keys /\ g.device = h.device
         /\ g.entity = h.entity /\ g.found = h.found /\ g.foundOf = h.foundOf
         /\ Added(h) /\ h.added \subseteq s => Added(g)
  <1>1. /\ g \in Home /\ g.added = s /\ g.keys = h.keys /\ g.device = h.device
        /\ g.entity = h.entity /\ g.found = h.found /\ g.foundOf = h.foundOf
    BY DEF Home, Sound, WithRows
  <1>2. \A S : Closed(g, S) <=> Closed(h, S)
    BY <1>1 DEF Closed, InHome
  <1>3. Keys(g) /\ Apart(g)
    BY <1>1 DEF Sound, Keys, Apart, InHome, IsFound
  <1>4. Through(g)
    BY <1>1, <1>2 DEF Sound, Through, Reaches, InHome
  <1> QED
    BY <1>1, <1>3, <1>4 DEF Sound, Added, InHome

-----------------------------------------------------------------------------
(* The devices, whatever the entities *)

\* The inductive invariant about the devices.
DInv ==
    /\ Sound(home) /\ Added(home)
    /\ running \in BOOLEAN /\ known \subseteq Dev
    /\ last \in [Ent -> Val \cup {Absent}]

\* Nothing is there at first.
LEMMA InitDInv == Init => DInv
  <1> SUFFICES ASSUME Init
               PROVE  DInv
    OBVIOUS
  <1>1. Empty \in Home
    BY DEF Empty, Home
  <1>2. /\ \A u \in Dev : home.keys[u] = Absent
        /\ \A i \in Id : ~InHome(home, i)
    BY DEF Init, Empty, InHome
  <1>3. Sound(home) /\ Added(home)
    BY <1>1, <1>2 DEF Init, Sound, Keys, Apart, Through, Added
  <1> QED
    BY <1>3 DEF Init, DInv

\* An operation that leaves the devices as they are.
LEMMA SameDInv ==
  ASSUME DInv, home' \in Home, SameDevices(home, home')
  PROVE  Sound(home') /\ Added(home')
  BY SameSound DEF DInv

\* Every step keeps it.
LEMMA NextDInv == DInv /\ [Next]_vars => DInv'
  <1> SUFFICES ASSUME DInv, [Next]_vars
               PROVE  /\ Sound(home') /\ Added(home')
                      /\ running' \in BOOLEAN /\ known' \subseteq Dev
                      /\ last' \in [Ent -> Val \cup {Absent}]
    BY DEF DInv
  <1>0. /\ Sound(home) /\ Added(home) /\ home \in Home
        /\ running \in BOOLEAN /\ known \subseteq Dev
        /\ last \in [Ent -> Val \cup {Absent}]
    BY DEF DInv, Sound
  <1>1. ASSUME NEW d \in DeviceDescription, Describe(d)
        PROVE  /\ Sound(home') /\ Added(home')
               /\ running' \in BOOLEAN /\ known' \subseteq Dev
               /\ last' \in [Ent -> Val \cup {Absent}]
    BY <1>0, <1>1, SaidOK, DescribeDeviceOK DEF Describe
  <1>2. ASSUME NEW e \in Ent, NEW d \in EntityDescription, DescribeOn(e, d)
        PROVE  /\ Sound(home') /\ Added(home')
               /\ running' \in BOOLEAN /\ known' \subseteq Dev
               /\ last' \in [Ent -> Val \cup {Absent}]
    <2>1. home' \in Home /\ SameDevices(home, home')
      BY <1>0, <1>2, DescribeEntityIs DEF DescribeOn
    <2> QED
      BY <1>0, <1>2, <2>1, SameDInv, LastOK DEF DescribeOn, Fitting
  <1>3. ASSUME NEW e \in Ent, Remove(e)
        PROVE  /\ Sound(home') /\ Added(home')
               /\ running' \in BOOLEAN /\ known' \subseteq Dev
               /\ last' \in [Ent -> Val \cup {Absent}]
    <2>1. home' \in Home /\ SameDevices(home, home')
      BY <1>0, <1>3, RemoveEntityIs DEF Remove
    <2> QED
      BY <1>0, <1>3, <2>1, SameDInv DEF Remove
  <1>4. ASSUME NEW e \in Ent, NEW v \in Val \cup {Absent}, Report(e, v)
        PROVE  /\ Sound(home') /\ Added(home')
               /\ running' \in BOOLEAN /\ known' \subseteq Dev
               /\ last' \in [Ent -> Val \cup {Absent}]
    <2>1. home' \in Home /\ SameDevices(home, home')
      BY <1>0, <1>4, ReportStateIs DEF Report
    <2> QED
      BY <1>0, <1>4, <2>1, SameDInv DEF Report
  <1>5. ASSUME NEW u \in Dev, Retire(u)
        PROVE  /\ Sound(home') /\ Added(home')
               /\ running' \in BOOLEAN /\ known' \subseteq Dev
               /\ last' \in [Ent -> Val \cup {Absent}]
    <2>1. Sound(home') /\ home'.added = home.added
          /\ \A j \in Id : InHome(home', j) => InHome(home, j)
      <3> PICK g : g = RemoveDevice(home, u)
        OBVIOUS
      <3>1. Sound(g) /\ g.added = home.added /\ \A j \in Id : InHome(g, j) => InHome(home, j)
        BY <1>0, RemoveDeviceIs, SaidOK DEF SameDevices, InHome
      <3> QED
        BY <1>5, <3>1 DEF Retire
    <2>2. Added(home')
      BY <1>0, <2>1 DEF Added
    <2> QED
      BY <1>0, <1>5, <2>1, <2>2, LastOK DEF Retire, Forgetting
  <1>6. ASSUME NEW up \in BOOLEAN, SetAvailability(up)
        PROVE  /\ Sound(home') /\ Added(home')
               /\ running' \in BOOLEAN /\ known' \subseteq Dev
               /\ last' \in [Ent -> Val \cup {Absent}]
    <2>1. home' \in Home /\ SameDevices(home, home')
      BY <1>0, <1>6, DeviceAvailabilityIs, EntityAvailabilityIs DEF SetAvailability
    <2> QED
      BY <1>0, <1>6, <2>1, SameDInv DEF SetAvailability
  <1>7. ASSUME NEW i \in Id, AddRow(i)
        PROVE  /\ Sound(home') /\ Added(home')
               /\ running' \in BOOLEAN /\ known' \subseteq Dev
               /\ last' \in [Ent -> Val \cup {Absent}]
    <2> PICK s : s = home.added \cup {i}
      OBVIOUS
    <2> PICK h : h = WithRows(home, s)
      OBVIOUS
    <2>1. Sound(h) /\ Added(h)
      <3>1. s \in SUBSET Id /\ home.added \subseteq s
        BY <1>0, HomeOK
      <3> QED
        BY <1>0, <3>1, RowIs
    <2>2. home' = IF IsFound(h, i) THEN Admit(h, i) ELSE h
      BY <1>7 DEF AddRow, WithRows
    <2>3. Sound(home') /\ Added(home')
      BY <2>1, <2>2, AdmitIs
    <2> QED
      BY <1>0, <1>7, <2>3, LastOK DEF AddRow, Fitting
  <1>8. ASSUME NEW i \in Id, DropRow(i)
        PROVE  /\ Sound(home') /\ Added(home')
               /\ running' \in BOOLEAN /\ known' \subseteq Dev
               /\ last' \in [Ent -> Val \cup {Absent}]
    <2> PICK s : s = home.added \ {i}
      OBVIOUS
    <2> PICK h : h = WithRows(home, s)
      OBVIOUS
    <2>1. Sound(h) /\ h.added = s /\ h.device = home.device
      <3>1. s \in SUBSET Id
        BY <1>0, HomeOK
      <3> QED
        BY <1>0, <3>1, RowIs
    <2>2. home' = IF InHome(h, i) THEN Hold(h, i) ELSE h
      BY <1>8 DEF DropRow, WithRows
    <2>3. Sound(home') /\ home'.added = home.added \ {i}
          /\ \A j \in Id : InHome(home', j) => InHome(home, j) /\ j # i
      <3>1. \A j : InHome(h, j) <=> InHome(home, j)
        BY <2>1 DEF InHome
      <3>2. CASE InHome(h, i)
        <4> PICK g : g = Hold(h, i)
          OBVIOUS
        <4>1. /\ Sound(g) /\ g.added = h.added /\ ~InHome(g, i)
              /\ \A j \in Id : j # i => (InHome(g, j) <=> InHome(h, j))
          BY <2>1, <3>2, HoldIs
        <4> QED
          BY <2>1, <2>2, <3>1, <3>2, <4>1
      <3>3. CASE ~InHome(h, i)
        BY <2>1, <2>2, <3>1, <3>3
      <3> QED
        BY <3>2, <3>3
    <2>4. Added(home')
      BY <1>0, <2>3 DEF Added
    <2> QED
      BY <1>0, <1>8, <2>3, <2>4 DEF DropRow
  <1>9. ASSUME NEW i \in Id, Forget(i)
        PROVE  /\ Sound(home') /\ Added(home')
               /\ running' \in BOOLEAN /\ known' \subseteq Dev
               /\ last' \in [Ent -> Val \cup {Absent}]
    <2>1. Sound(home') /\ home'.added = home.added
          /\ \A j \in Id : InHome(home', j) => InHome(home, j)
      BY <1>0, <1>9, HoldIs DEF Forget
    <2>2. Added(home')
      BY <1>0, <2>1 DEF Added
    <2> QED
      BY <1>0, <1>9, <2>1, <2>2 DEF Forget
  <1>10. CASE Stop
    <2>1. home' \in Home /\ SameDevices(home, home')
      BY <1>0, <1>10, MarkUnavailableIs DEF Stop
    <2> QED
      BY <1>0, <1>10, <2>1, SameDInv DEF Stop
  <1>11. CASE Start
    BY <1>0, <1>11 DEF Start
  <1>12. CASE RemoveProtocol
    <2>1. Sound(home') /\ Added(home')
      <3> PICK g :
            g = HomeWith(home, [u \in Dev |-> Absent], [i \in Id |-> Absent],
                         [e \in Ent |->
                             IF /\ \E i \in Id : InHome(home, i) /\ e \in EntitiesOf(home, i)
                                /\ home.foundOf[e] = Absent
                             THEN Absent ELSE home.entity[e]],
                         [i \in Id |-> Absent], [e \in Ent |-> Absent])
        OBVIOUS
      <3>1. home' = g
        BY <1>12 DEF RemoveProtocol, HomeWith
      <3>2. Sound(g) /\ Added(g)
        BY <1>0, ProtocolGone
      <3> QED
        BY <3>1, <3>2
    <2> QED
      BY <1>0, <1>12, <2>1, LastOK DEF RemoveProtocol, Forgetting
  <1>13. CASE UNCHANGED vars
    BY <1>0, <1>13 DEF vars
  <1> QED
    BY <1>1, <1>2, <1>3, <1>4, <1>5, <1>6, <1>7, <1>8, <1>9, <1>10, <1>11, <1>12, <1>13 DEF Next

\* The inductive invariant says what the properties say.
LEMMA DInvMeans == DInv => DevicesOK /\ ViaOK
  BY DEF DInv, Sound, Keys, Apart, Through, Added,
         DevicesOK, TypeOK, KeysAgree, InOrFound, OnlyAdded, ViaOK

\* It holds in every behaviour.
LEMMA Devices == Spec => []DInv
  BY InitDInv, NextDInv, PTL DEF Spec

\* Through any order of describing, adding, taking out, forgetting and removing
\* (describe_device, admit, hold, remove_device), for any devices and ids, two
\* handles with one id included: device_keys and the registry agree, a device is
\* in the home or found and never both, and none is in it that nobody added.
THEOREM OneRegistry == Spec => []DevicesOK
  BY Devices, DInvMeans, PTL

\* What a device of the home is reached through is in the home, and following
\* via_device_id never comes back, however devices are reached through one
\* another: reaches, and remove_device on the way out, see to it.
THEOREM NeverInCircles == Spec => []ViaOK
  BY Devices, DInvMeans, PTL

-----------------------------------------------------------------------------
(* The entities and their devices *)

\* An entity is described in one place only: on the devices of one id, or on
\* none.  One that moves from device to device can be left without (EntitiesOK
\* fails then).
InOnePlace == \A e \in Ent : \A x, y \in Hosts[e] : PlaceOf(x) = PlaceOf(y)

\* An entity is where it was described.
Placed(h) ==
    \A e \in Ent :
        /\ h.entity[e] # Absent =>
            h.entity[e].said.on \in Hosts[e] /\ h.entity[e].dev = PlaceOf(h.entity[e].said.on)
        /\ \A i \in Id : IsFound(h, i) /\ h.found[i].ents[e] # Absent =>
            h.found[i].ents[e].on \in Hosts[e] /\ i = PlaceOf(h.found[i].ents[e].on)
Housed(h) ==
    \A e \in Ent : h.entity[e] # Absent /\ h.entity[e].dev # Absent => InHome(h, h.entity[e].dev)
Agreed(h) ==
    \A e \in Ent :
        /\ \A i \in Id : (h.foundOf[e] = i) <=> (IsFound(h, i) /\ h.found[i].ents[e] # Absent)
        /\ h.foundOf[e] # Absent => h.entity[e] = Absent
Settled(h) == Placed(h) /\ Housed(h) /\ Agreed(h)

\* No entity is in the home and of a found device.
LEMMA SettledUnmixed ==
  ASSUME NEW h, Settled(h)
  PROVE  Unmixed(h)
  BY DEF Settled, Agreed, Unmixed

\* What describe_device leaves of the devices and of what is found.
LEMMA DescribeDeviceIs ==
  ASSUME NEW h, Sound(h), Added(h), NEW d \in DeviceDescription, NEW g, g = DescribeDevice(h, d)
  PROVE  /\ g.entity = h.entity /\ g.foundOf = h.foundOf
         /\ \A j \in Id : InHome(h, j) => InHome(g, j)
         /\ \A j \in Id : j # IdOf[d.u] => g.found[j] = h.found[j] /\ g.device[j] = h.device[j]
         /\ \/ ~DeviceAccepted(h, d) /\ g = h
            \/ /\ GoesToFound(h, IdOf[d.u]) /\ g.device = h.device /\ IsFound(g, IdOf[d.u])
               /\ g.found[IdOf[d.u]].said = d
               /\ IsFound(h, IdOf[d.u]) =>
                    /\ g.found[IdOf[d.u]].ents = h.found[IdOf[d.u]].ents
                    /\ g.found[IdOf[d.u]].reports = h.found[IdOf[d.u]].reports
               /\ ~IsFound(h, IdOf[d.u]) =>
                    \A e \in Ent : /\ g.found[IdOf[d.u]].ents[e] = Absent
                                   /\ g.found[IdOf[d.u]].reports[e] = Absent
            \/ /\ ~GoesToFound(h, IdOf[d.u]) /\ g.found = h.found
               /\ InHome(g, IdOf[d.u]) /\ g.keys[d.u] = IdOf[d.u]
               /\ g.device[IdOf[d.u]].u = d.u /\ g.device[IdOf[d.u]].said = d
  <1> DEFINE i == IdOf[d.u]
  <1>0. d.u \in Dev /\ i \in Id /\ h \in Home
    BY SaidOK DEF Sound
  <1>1. CASE ~DeviceAccepted(h, d)
    BY <1>1 DEF DescribeDevice
  <1>2. CASE DeviceAccepted(h, d) /\ GoesToFound(h, i)
    <2> DEFINE f == IF h.found[i] = Absent THEN FoundAs(d) ELSE [h.found[i] EXCEPT !.said = d]
    <2>1. /\ f.said = d /\ f \in FoundEntry
          /\ IsFound(h, i) => f.ents = h.found[i].ents /\ f.reports = h.found[i].reports
          /\ ~IsFound(h, i) => \A e \in Ent : f.ents[e] = Absent /\ f.reports[e] = Absent
      <3>1. CASE IsFound(h, i)
        <4>1. f = [h.found[i] EXCEPT !.said = d] /\ h.found[i] \in FoundEntry
          BY <1>0, <3>1, EntryOK DEF IsFound
        <4> HIDE DEF f
        <4> QED
          BY <3>1, <4>1 DEF FoundEntry
      <3>2. CASE ~IsFound(h, i)
        <4>1. f = FoundAs(d)
          BY <3>2 DEF IsFound
        <4>2. FoundAs(d) \in FoundEntry
          BY DEF FoundAs, FoundEntry
        <4> HIDE DEF f
        <4> QED
          BY <3>2, <4>1, <4>2 DEF FoundAs
      <3> QED
        BY <3>1, <3>2
    <2>2. g = [h EXCEPT !.found[i] = f]
      BY <1>2 DEF DescribeDevice
    <2> HIDE DEF f
    <2>3. /\ g.entity = h.entity /\ g.foundOf = h.foundOf /\ g.device = h.device
          /\ g.found = [h.found EXCEPT ![i] = f]
      BY <1>0, <2>2 DEF Home
    <2>4. g.found[i] = f /\ \A j \in Id : j # i => g.found[j] = h.found[j]
      BY <1>0, <2>3, HomeOK
    <2> QED
      BY <1>2, <2>1, <2>3, <2>4, AbsentAssumption DEF IsFound, InHome
  <1>3. CASE DeviceAccepted(h, d) /\ ~GoesToFound(h, i)
    <2> PICK r : r = [u |-> d.u, said |-> d, via |-> ViaId(h, d)]
      OBVIOUS
    <2>1. g = [h EXCEPT !.keys[d.u] = i, !.device[i] = r]
      BY <1>3 DEF DescribeDevice
    <2>2. /\ g.keys = [h.keys EXCEPT ![d.u] = i] /\ g.device = [h.device EXCEPT ![i] = r]
          /\ g.entity = h.entity /\ g.found = h.found /\ g.foundOf = h.foundOf
      BY <1>0, <2>1 DEF Home
    <2>3. /\ g.device[i] = r /\ (\A j \in Id : j # i => g.device[j] = h.device[j])
          /\ g.keys[d.u] = i
      BY <1>0, <2>2, HomeOK
    <2>4. InHome(g, i)
      <3>1. Sound(g)
        BY DescribeDeviceOK
      <3> QED
        BY <1>0, <2>3, <3>1, SaidOK DEF Sound, Keys
    <2>5. \A j \in Id : InHome(h, j) => InHome(g, j)
      BY <2>3, <2>4 DEF InHome
    <2> QED
      BY <1>3, <2>2, <2>3, <2>4, <2>5
  <1> QED
    BY <1>1, <1>2, <1>3

\* The entities stay settled when only whether they are in touch changes.
LEMMA SettledSame ==
  ASSUME NEW h, Settled(h), NEW g \in Home, SameDevices(h, g), SameHeld(h, g), SameEntities(h, g)
  PROVE  Settled(g)
  <1>1. Placed(g)
    BY DEF Settled, Placed, SameHeld, SameEntities
  <1>2. Housed(g)
    BY DEF Settled, Housed, SameEntities, SameDevices, InHome
  <1>3. Agreed(g)
    BY DEF Settled, Agreed, SameHeld, SameEntities
  <1> QED
    BY <1>1, <1>2, <1>3 DEF Settled

\* describe_device leaves the entities where they are.
LEMMA DescribeDeviceSettled ==
  ASSUME NEW h, Sound(h), Added(h), Settled(h), NEW d \in DeviceDescription,
         NEW g, g = DescribeDevice(h, d)
  PROVE  Settled(g)
  <1> DEFINE i == IdOf[d.u]
  <1>1. /\ g.entity = h.entity /\ g.foundOf = h.foundOf
        /\ \A j \in Id : InHome(h, j) => InHome(g, j)
        /\ \A j \in Id : j # i => g.found[j] = h.found[j]
        /\ \/ g.found = h.found
           \/ /\ IsFound(g, i)
              /\ IsFound(h, i) => g.found[i].ents = h.found[i].ents
              /\ ~IsFound(h, i) => \A e \in Ent : g.found[i].ents[e] = Absent
    BY DescribeDeviceIs
  <1>2. h \in Home
    BY DEF Sound
  <1>3. Housed(g)
    BY <1>1, <1>2, EntryOK DEF Housed, Settled
  <1>4. \A j \in Id, e \in Ent :
           (IsFound(g, j) /\ g.found[j].ents[e] # Absent)
              <=> (IsFound(h, j) /\ h.found[j].ents[e] # Absent)
    BY <1>1 DEF IsFound
  <1>5. \A j \in Id, e \in Ent : IsFound(h, j) => g.found[j].ents[e] = h.found[j].ents[e]
    BY <1>1 DEF IsFound
  <1>6. Placed(g)
    BY <1>1, <1>4, <1>5 DEF Placed, Settled
  <1>7. Agreed(g)
    BY <1>1, <1>4 DEF Agreed, Settled
  <1> QED
    BY <1>3, <1>6, <1>7 DEF Settled

\* describe_entity.
LEMMA DescribeEntitySettled ==
  ASSUME InOnePlace, NEW h, Sound(h), Settled(h), NEW e \in Ent, NEW d \in EntityDescription,
         d.on \in Hosts[e], NEW g, g = DescribeEntity(h, e, d)
  PROVE  Settled(g)
  <1>0. /\ h \in Home /\ g \in Home /\ SameDevices(h, g) /\ d.on \in Dev \cup {Absent}
        /\ d # Absent
    BY DescribeEntityIs, SaidOK, AbsentAssumption DEF Sound
  <1>1. CASE g = h
    BY <1>1
  <1>2. CASE /\ d.on # Absent /\ IsFound(h, IdOf[d.on])
             /\ g.entity = h.entity /\ g.foundOf = [h.foundOf EXCEPT ![e] = IdOf[d.on]]
             /\ g.found[IdOf[d.on]] = [h.found[IdOf[d.on]] EXCEPT !.ents = [@ EXCEPT ![e] = d]]
             /\ \A j \in Id : j # IdOf[d.on] => g.found[j] = h.found[j]
    <2> DEFINE i == IdOf[d.on]
    <2>1. i \in Id /\ i = PlaceOf(d.on) /\ i # Absent
      BY <1>0, <1>2, SaidOK DEF PlaceOf
    <2>2. /\ \A j \in Id : IsFound(g, j) => IsFound(h, j)
          /\ \A j \in Id : j # i => g.found[j] = h.found[j]
          /\ g.found[i].ents = [h.found[i].ents EXCEPT ![e] = d]
      <3>1. h.found[i] \in FoundEntry
        BY <1>0, <1>2, <2>1, EntryOK
      <3> QED
        BY <1>0, <1>2, <3>1 DEF SameDevices, FoundEntry
    <2>3. IsFound(g, i)
      <3>1. /\ h.found[i] \in FoundEntry
            /\ h.found[i].ents \in [Ent -> EntityDescription \cup {Absent}]
        BY <1>0, <1>2, <2>1, EntryOK
      <3>2. g.found[i] \in FoundEntry
        <4>1. [h.found[i].ents EXCEPT ![e] = d] \in [Ent -> EntityDescription \cup {Absent}]
          BY <3>1
        <4> QED
          BY <1>2, <3>1, <4>1 DEF FoundEntry
      <3> QED
        BY <3>2, AbsentAssumption DEF IsFound
    <2>4. /\ g.found[i].ents[e] = d
          /\ \A x \in Ent : x # e => g.found[i].ents[x] = h.found[i].ents[x]
      BY <1>0, <1>2, <2>1, <2>2, EntryOK
    <2>5. /\ g.foundOf[e] = i
          /\ \A x \in Ent : x # e => g.foundOf[x] = h.foundOf[x]
      BY <1>0, <1>2, <2>1, HomeOK
    <2>6. \A j \in Id : IsFound(h, j) /\ h.found[j].ents[e] # Absent => j = i
      BY <2>1 DEF InOnePlace, Settled, Placed
    <2>7. h.entity[e] = Absent
      <3>1. SUFFICES ASSUME h.entity[e] # Absent
                     PROVE  FALSE
        OBVIOUS
      <3>2. h.entity[e].dev = i
        BY <2>1, <3>1 DEF InOnePlace, Settled, Placed
      <3>3. InHome(h, i)
        BY <2>1, <3>1, <3>2 DEF Settled, Housed
      <3> QED
        BY <1>2, <2>1, <3>3 DEF Sound, Apart
    <2>8. \A j \in Id : IsFound(g, j) <=> IsFound(h, j)
      BY <1>2, <2>2, <2>3 DEF IsFound
    <2>9. Placed(g)
      <3>1. ASSUME NEW x \in Ent, g.entity[x] # Absent
            PROVE  g.entity[x].said.on \in Hosts[x]
                   /\ g.entity[x].dev = PlaceOf(g.entity[x].said.on)
        BY <1>2, <3>1 DEF Settled, Placed
      <3>2. ASSUME NEW x \in Ent, NEW j \in Id, IsFound(g, j), g.found[j].ents[x] # Absent
            PROVE  g.found[j].ents[x].on \in Hosts[x] /\ j = PlaceOf(g.found[j].ents[x].on)
        <4>1. CASE x = e /\ j = i
          BY <2>1, <2>4, <4>1
        <4>2. CASE ~(x = e /\ j = i)
          <5>1. g.found[j].ents[x] = h.found[j].ents[x] /\ IsFound(h, j)
            BY <2>2, <2>4, <3>2, <4>2
          <5> QED
            BY <3>2, <5>1 DEF Settled, Placed
        <4> QED
          BY <4>1, <4>2
      <3> QED
        BY <3>1, <3>2 DEF Placed
    <2>10. Agreed(g)
      <3>1. ASSUME NEW x \in Ent, NEW j \in Id
            PROVE  (g.foundOf[x] = j) <=> (IsFound(g, j) /\ g.found[j].ents[x] # Absent)
        <4>1. CASE x = e /\ j = i
          BY <1>0, <2>3, <2>4, <2>5, <4>1
        <4>2. CASE x = e /\ j # i
          BY <2>2, <2>5, <2>6, <2>8, <4>2
        <4>3. CASE x # e
          <5>1. g.found[j].ents[x] = h.found[j].ents[x]
            BY <2>2, <2>4, <4>3
          <5> QED
            BY <2>5, <2>8, <4>3, <5>1 DEF Settled, Agreed
        <4> QED
          BY <4>1, <4>2, <4>3
      <3>2. \A x \in Ent : g.foundOf[x] # Absent => g.entity[x] = Absent
        BY <1>2, <2>5, <2>7 DEF Settled, Agreed
      <3> QED
        BY <3>1, <3>2 DEF Agreed
    <2>11. Housed(g)
      BY <1>0, <1>2 DEF Settled, Housed, SameDevices, InHome
    <2> QED
      BY <2>9, <2>10, <2>11 DEF Settled
  <1>3. CASE /\ d.on # Absent => InHome(h, IdOf[d.on]) /\ ~IsFound(h, IdOf[d.on])
             /\ g.found = h.found /\ g.foundOf = h.foundOf
             /\ \A x \in Ent : x # e => g.entity[x] = h.entity[x]
             /\ g.entity[e] # Absent
             /\ g.entity[e].dev = PlaceOf(d.on) /\ g.entity[e].said = d
    <2>1. h.foundOf[e] = Absent
      <3>1. SUFFICES ASSUME h.foundOf[e] # Absent
                     PROVE  FALSE
        OBVIOUS
      <3>2. PICK j \in Id : j = h.foundOf[e]
        BY <1>0, <3>1, HomeOK
      <3>3. IsFound(h, j) /\ h.found[j].ents[e] # Absent
        BY <3>2 DEF Settled, Agreed
      <3>4. j = PlaceOf(d.on)
        BY <3>3 DEF Settled, Placed, InOnePlace
      <3> QED
        BY <1>3, <3>3, <3>4, SaidOK DEF PlaceOf
    <2>2. Placed(g)
      BY <1>3 DEF Settled, Placed, IsFound
    <2>3. Agreed(g)
      BY <1>3, <2>1 DEF Settled, Agreed, IsFound
    <2>4. Housed(g)
      <3>1. \A j : InHome(g, j) <=> InHome(h, j)
        BY <1>0 DEF SameDevices, InHome
      <3> QED
        BY <1>3, <3>1 DEF Settled, Housed, PlaceOf
    <2> QED
      BY <2>2, <2>3, <2>4 DEF Settled
  <1> QED
    BY <1>1, <1>2, <1>3, DescribeEntityIs

\* Entities where they were, whatever their values.
LEMMA SettledThere ==
  ASSUME NEW h, Settled(h), NEW g, SameDevices(h, g), g.foundOf = h.foundOf,
         \A j \in Id : /\ IsFound(g, j) <=> IsFound(h, j)
                       /\ IsFound(h, j) => g.found[j].ents = h.found[j].ents,
         \A e \in Ent : /\ g.entity[e] = Absent <=> h.entity[e] = Absent
                        /\ h.entity[e] # Absent => /\ g.entity[e].dev = h.entity[e].dev
                                                   /\ g.entity[e].said = h.entity[e].said
  PROVE  Settled(g)
  <1>1. Placed(g)
    BY DEF Settled, Placed
  <1>2. Housed(g)
    BY DEF Settled, Housed, SameDevices, InHome
  <1>3. Agreed(g)
    BY DEF Settled, Agreed
  <1> QED
    BY <1>1, <1>2, <1>3 DEF Settled

\* report_state.
LEMMA ReportStateSettled ==
  ASSUME NEW h \in Home, Settled(h), NEW e \in Ent, NEW v \in Val \cup {Absent},
         NEW g, g = ReportState(h, e, v)
  PROVE  Settled(g)
  <1>0. g \in Home /\ SameDevices(h, g) /\ g.foundOf = h.foundOf
    BY ReportStateIs
  <1>1. CASE g = h
    BY <1>1
  <1>2. CASE /\ h.foundOf[e] # Absent /\ g.entity = h.entity
             /\ \A j \in Id : j # h.foundOf[e] => g.found[j] = h.found[j]
             /\ IsFound(h, h.foundOf[e]) =>
                    /\ g.found[h.foundOf[e]] = Reported(h.found[h.foundOf[e]], e, v)
                    /\ IsFound(g, h.foundOf[e])
    <2> DEFINE i == h.foundOf[e]
    <2>1. i \in Id /\ IsFound(h, i) /\ h.found[i] \in FoundEntry
      BY <1>2, HomeOK, EntryOK DEF Settled, Agreed
    <2>2. g.found[i].ents = h.found[i].ents
      <3>1. g.found[i] = Reported(h.found[i], e, v)
        BY <1>2, <2>1
      <3> HIDE DEF i
      <3> QED
        BY <2>1, <3>1, ReportedOK
    <2>3. \A j \in Id : /\ IsFound(g, j) <=> IsFound(h, j)
                        /\ IsFound(h, j) => g.found[j].ents = h.found[j].ents
      BY <1>2, <2>1, <2>2 DEF IsFound
    <2> QED
      BY <1>0, <1>2, <2>3, SettledThere
  <1>3. CASE /\ g.found = h.found /\ h.entity[e] # Absent
             /\ \A x \in Ent : x # e => g.entity[x] = h.entity[x]
             /\ g.entity[e] = Valued(h.entity[e], v) /\ g.entity[e] # Absent
    <2>1. h.entity[e] \in EntityEntry
      BY <1>3, EntryOK
    <2>2. g.entity[e].dev = h.entity[e].dev /\ g.entity[e].said = h.entity[e].said
      BY <1>3, <2>1, ValuedOK
    <2>3. \A x \in Ent : /\ g.entity[x] = Absent <=> h.entity[x] = Absent
                         /\ g.entity[x].dev = h.entity[x].dev
                         /\ g.entity[x].said = h.entity[x].said
      BY <1>3, <2>2
    <2> QED
      BY <1>0, <1>3, <2>3, SettledThere DEF IsFound
  <1> QED
    BY <1>1, <1>2, <1>3, ReportStateIs

\* remove_entity.
LEMMA RemoveEntitySettled ==
  ASSUME NEW h \in Home, Settled(h), NEW e \in Ent, NEW g, g = RemoveEntity(h, e)
  PROVE  /\ Settled(g) /\ g.entity[e] = Absent /\ g.foundOf[e] = Absent
         /\ \A x \in Ent : x # e => g.entity[x] = h.entity[x] /\ g.foundOf[x] = h.foundOf[x]
         /\ \A j \in Id : IsFound(g, j) <=> IsFound(h, j)
         /\ \A j \in Id : IsFound(h, j) =>
              /\ g.found[j].said = h.found[j].said
              /\ \A x \in Ent : x # e => /\ g.found[j].ents[x] = h.found[j].ents[x]
                                         /\ g.found[j].reports[x] = h.found[j].reports[x]
              /\ g.found[j].ents[e] = Absent
              /\ h.found[j].ents[e] # Absent \/ h.found[j].reports[e] = Absent =>
                    g.found[j].reports[e] = Absent
  <1>0. g \in Home /\ SameDevices(h, g)
    BY RemoveEntityIs
  <1>1. \A j : InHome(g, j) <=> InHome(h, j)
    BY <1>0 DEF SameDevices, InHome
  <1>2. CASE /\ h.foundOf[e] # Absent /\ g.entity = h.entity
             /\ g.foundOf = [h.foundOf EXCEPT ![e] = Absent]
             /\ \A j \in Id : j # h.foundOf[e] => g.found[j] = h.found[j]
             /\ IsFound(h, h.foundOf[e]) =>
                    /\ g.found[h.foundOf[e]] = FoundWithout(h.found[h.foundOf[e]], {e})
                    /\ IsFound(g, h.foundOf[e])
             /\ ~IsFound(h, h.foundOf[e]) => g.found = h.found
    <2> DEFINE i == h.foundOf[e]
    <2>1. i \in Id /\ IsFound(h, i) /\ h.found[i] \in FoundEntry /\ h.entity[e] = Absent
      BY <1>2, HomeOK, EntryOK DEF Settled, Agreed
    <2>2. /\ g.found[i].said = h.found[i].said
          /\ \A x \in Ent : x # e => /\ g.found[i].ents[x] = h.found[i].ents[x]
                                     /\ g.found[i].reports[x] = h.found[i].reports[x]
          /\ g.found[i].ents[e] = Absent /\ g.found[i].reports[e] = Absent
      BY <1>2, <2>1, FoundWithoutOK
    <2>3. \A j \in Id : IsFound(g, j) <=> IsFound(h, j)
      BY <1>2, <2>1 DEF IsFound
    <2>4. \A j \in Id : IsFound(h, j) /\ h.found[j].ents[e] # Absent => j = i
      BY <2>1 DEF Settled, Agreed
    <2>5. g.foundOf[e] = Absent /\ \A x \in Ent : x # e => g.foundOf[x] = h.foundOf[x]
      BY <1>2, HomeOK
    <2>6. \A j \in Id : IsFound(h, j) =>
              /\ g.found[j].said = h.found[j].said
              /\ \A x \in Ent : x # e => /\ g.found[j].ents[x] = h.found[j].ents[x]
                                         /\ g.found[j].reports[x] = h.found[j].reports[x]
              /\ g.found[j].ents[e] = Absent
              /\ h.found[j].ents[e] # Absent \/ h.found[j].reports[e] = Absent =>
                    g.found[j].reports[e] = Absent
      BY <1>2, <2>1, <2>2, <2>4
    <2>7. Placed(g)
      BY <1>2, <2>3, <2>6 DEF Settled, Placed
    <2>8. Housed(g)
      BY <1>1, <1>2 DEF Settled, Housed
    <2>9. Agreed(g)
      <3>1. \A x \in Ent, j \in Id :
               (g.foundOf[x] = j) <=> (IsFound(g, j) /\ g.found[j].ents[x] # Absent)
        BY <2>3, <2>5, <2>6, SaidOK DEF Settled, Agreed
      <3>2. \A x \in Ent : g.foundOf[x] # Absent => g.entity[x] = Absent
        BY <1>2, <2>5 DEF Settled, Agreed
      <3> QED
        BY <3>1, <3>2 DEF Agreed
    <2> QED
      BY <1>2, <2>1, <2>3, <2>5, <2>6, <2>7, <2>8, <2>9 DEF Settled
  <1>3. CASE /\ h.foundOf[e] = Absent /\ g.foundOf = h.foundOf /\ g.found = h.found
             /\ g.entity = [h.entity EXCEPT ![e] = Absent]
    <2>1. g.entity[e] = Absent /\ \A x \in Ent : x # e => g.entity[x] = h.entity[x]
      BY <1>3, HomeOK
    <2>2. Placed(g)
      BY <1>3, <2>1 DEF Settled, Placed, IsFound
    <2>3. Housed(g)
      BY <1>1, <2>1 DEF Settled, Housed
    <2>4. Agreed(g)
      BY <1>3, <2>1 DEF Settled, Agreed, IsFound
    <2>5. \A j \in Id : IsFound(h, j) => h.found[j].ents[e] = Absent
      BY <1>3, SaidOK DEF Settled, Agreed
    <2> QED
      BY <1>3, <2>1, <2>2, <2>3, <2>4, <2>5 DEF Settled, IsFound
  <1> QED
    BY <1>2, <1>3, RemoveEntityIs

\* A device goes with its entities.
LEMMA UnfoundSettled ==
  ASSUME NEW h \in Home, Settled(h), NEW i \in Id, IsFound(h, i), NEW g, g = Unfound(h, i)
  PROVE  /\ Settled(g)
         /\ \A e \in Ent : h.found[i].ents[e] # Absent =>
              g.foundOf[e] = Absent /\ g.entity[e] = Absent
  <1>0. /\ g \in Home /\ SameDevices(h, g) /\ g.entity = h.entity
        /\ ~IsFound(g, i) /\ \A j \in Id : j # i => g.found[j] = h.found[j]
        /\ \A e \in Ent : g.foundOf[e] = IF h.found[i].ents[e] # Absent
                                         THEN Absent ELSE h.foundOf[e]
    BY UnfoundIs
  <1>1. \A j \in Id : IsFound(g, j) <=> j # i /\ IsFound(h, j)
    BY <1>0 DEF IsFound
  <1>2. Placed(g)
    BY <1>0, <1>1 DEF Settled, Placed
  <1>3. Housed(g)
    BY <1>0 DEF Settled, Housed, SameDevices, InHome
  <1>4. Agreed(g)
    <2>1. ASSUME NEW e \in Ent, NEW j \in Id
          PROVE  (g.foundOf[e] = j) <=> (IsFound(g, j) /\ g.found[j].ents[e] # Absent)
      <3>1. CASE h.found[i].ents[e] # Absent
        <4>1. h.foundOf[e] = i
          BY <3>1 DEF Settled, Agreed
        <4>2. g.foundOf[e] = Absent
          BY <1>0, <3>1
        <4> QED
          BY <1>0, <1>1, <4>1, <4>2, SaidOK DEF Settled, Agreed
      <3>2. CASE h.found[i].ents[e] = Absent
        <4>1. g.foundOf[e] = h.foundOf[e] /\ h.foundOf[e] # i
          BY <1>0, <3>2 DEF Settled, Agreed
        <4> QED
          BY <1>0, <1>1, <4>1 DEF Settled, Agreed
      <3> QED
        BY <3>1, <3>2
    <2>2. \A e \in Ent : g.foundOf[e] # Absent => g.entity[e] = Absent
      BY <1>0 DEF Settled, Agreed
    <2> QED
      BY <2>1, <2>2 DEF Agreed
  <1>5. \A e \in Ent : h.found[i].ents[e] # Absent =>
              g.foundOf[e] = Absent /\ g.entity[e] = Absent
    BY <1>0, SaidOK DEF Settled, Agreed
  <1> QED
    BY <1>2, <1>3, <1>4, <1>5 DEF Settled

\* remove_device.
LEMMA RemoveDeviceSettled ==
  ASSUME NEW h, Sound(h), Settled(h), NEW u \in Dev, NEW g, g = RemoveDevice(h, u)
  PROVE  Settled(g)
  <1> DEFINE i == IdOf[u]
  <1>0. h \in Home /\ Unmixed(h) /\ i \in Id
    BY SettledUnmixed, SaidOK DEF Sound
  <1>1. CASE IsFound(h, i)
    BY <1>0, <1>1, UnfoundSettled DEF RemoveDevice
  <1>2. CASE ~IsFound(h, i) /\ h.keys[u] = Absent
    BY <1>2 DEF RemoveDevice
  <1>3. CASE ~IsFound(h, i) /\ h.keys[u] # Absent
    <2>1. /\ \A j \in Id : j # i => (InHome(g, j) <=> InHome(h, j))
          /\ SameHeld(h, g)
          /\ \A e \in Ent : g.entity[e] = IF e \in EntitiesOf(h, i) THEN Absent ELSE h.entity[e]
      BY <1>0, <1>3, RemoveDeviceIs
    <2>2. Placed(g)
      BY <2>1 DEF Settled, Placed, SameHeld
    <2>3. Agreed(g)
      BY <2>1 DEF Settled, Agreed, SameHeld
    <2>4. Housed(g)
      <3>1. ASSUME NEW e \in Ent, g.entity[e] # Absent, g.entity[e].dev # Absent
            PROVE  InHome(g, g.entity[e].dev)
        <4>1. g.entity[e] = h.entity[e] /\ e \notin EntitiesOf(h, i)
          BY <2>1, <3>1
        <4>2. InHome(h, h.entity[e].dev) /\ h.entity[e].dev \in Id /\ h.entity[e].dev # i
          BY <1>0, <3>1, <4>1, EntryOK DEF Settled, Housed, EntitiesOf
        <4> QED
          BY <2>1, <4>1, <4>2
      <3> QED
        BY <3>1 DEF Housed
    <2> QED
      BY <2>2, <2>3, <2>4 DEF Settled
  <1> QED
    BY <1>1, <1>2, <1>3

\* hold.
LEMMA HoldSettled ==
  ASSUME NEW h, Sound(h), Settled(h), NEW i \in Id, InHome(h, i), NEW g, g = Hold(h, i)
  PROVE  Settled(g)
  <1>0. /\ h \in Home /\ Unmixed(h) /\ ~IsFound(h, i) /\ i # Absent
    BY SettledUnmixed, SaidOK DEF Sound, Apart
  <1>1. /\ \A j \in Id : j # i => (InHome(g, j) <=> InHome(h, j))
        /\ \A j \in Id : IsFound(g, j) <=> (j = i \/ IsFound(h, j))
        /\ g.found[i] = FoundFrom(h, i)
        /\ \A j \in Id : j # i /\ IsFound(h, j) => g.found[j].ents = h.found[j].ents
        /\ \A e \in Ent : /\ g.foundOf[e] = IF e \in EntitiesOf(h, i) THEN i ELSE h.foundOf[e]
                          /\ g.entity[e] = IF e \in EntitiesOf(h, i) THEN Absent ELSE h.entity[e]
    BY <1>0, HoldIs
  <1>2. \A e \in Ent : g.found[i].ents[e] = IF e \in EntitiesOf(h, i)
                                            THEN h.entity[e].said ELSE Absent
    BY <1>0, <1>1, FoundFromOK
  <1>3. \A e \in EntitiesOf(h, i) : /\ h.entity[e] # Absent /\ h.entity[e].dev = i
                                    /\ h.entity[e].said # Absent /\ h.foundOf[e] = Absent
                                    /\ h.entity[e].said.on \in Hosts[e]
                                    /\ i = PlaceOf(h.entity[e].said.on)
    <2>1. ASSUME NEW e \in Ent, h.entity[e] # Absent, h.entity[e].dev = i
          PROVE  /\ h.entity[e].said # Absent /\ h.foundOf[e] = Absent
                 /\ h.entity[e].said.on \in Hosts[e]
                 /\ i = PlaceOf(h.entity[e].said.on)
      BY <1>0, <2>1, EntryOK, AbsentAssumption DEF Settled, Placed, Agreed
    <2> QED
      BY <2>1 DEF EntitiesOf
  <1>4. Placed(g)
    <2>1. \A e \in Ent : g.entity[e] # Absent =>
            g.entity[e].said.on \in Hosts[e] /\ g.entity[e].dev = PlaceOf(g.entity[e].said.on)
      BY <1>1 DEF Settled, Placed
    <2>2. ASSUME NEW e \in Ent, NEW j \in Id, IsFound(g, j), g.found[j].ents[e] # Absent
          PROVE  g.found[j].ents[e].on \in Hosts[e] /\ j = PlaceOf(g.found[j].ents[e].on)
      <3>1. CASE j = i
        BY <1>2, <1>3, <2>2, <3>1
      <3>2. CASE j # i
        BY <1>1, <2>2, <3>2 DEF Settled, Placed
      <3> QED
        BY <3>1, <3>2
    <2> QED
      BY <2>1, <2>2 DEF Placed
  <1>5. Housed(g)
    <2>1. ASSUME NEW e \in Ent, g.entity[e] # Absent, g.entity[e].dev # Absent
          PROVE  InHome(g, g.entity[e].dev)
      <3>1. g.entity[e] = h.entity[e] /\ e \notin EntitiesOf(h, i)
        BY <1>1, <2>1
      <3>2. InHome(h, h.entity[e].dev) /\ h.entity[e].dev \in Id /\ h.entity[e].dev # i
        BY <1>0, <2>1, <3>1, EntryOK DEF Settled, Housed, EntitiesOf
      <3> QED
        BY <1>1, <3>1, <3>2
    <2> QED
      BY <2>1 DEF Housed
  <1>6. Agreed(g)
    <2>1. ASSUME NEW e \in Ent, NEW j \in Id
          PROVE  (g.foundOf[e] = j) <=> (IsFound(g, j) /\ g.found[j].ents[e] # Absent)
      <3>1. CASE j = i
        <4>1. e \notin EntitiesOf(h, i) => h.foundOf[e] # i
          BY <1>0 DEF Settled, Agreed
        <4> QED
          BY <1>1, <1>2, <1>3, <3>1, <4>1
      <3>2. CASE j # i /\ e \in EntitiesOf(h, i)
        <4>1. h.foundOf[e] # j
          BY <1>3, <3>2, SaidOK
        <4> QED
          BY <1>1, <3>2, <4>1 DEF Settled, Agreed
      <3>3. CASE j # i /\ e \notin EntitiesOf(h, i)
        BY <1>1, <3>3 DEF Settled, Agreed
      <3> QED
        BY <3>1, <3>2, <3>3
    <2>2. \A e \in Ent : g.foundOf[e] # Absent => g.entity[e] = Absent
      BY <1>1 DEF Settled, Agreed
    <2> QED
      BY <2>1, <2>2 DEF Agreed
  <1> QED
    BY <1>4, <1>5, <1>6 DEF Settled

\* The entities of a device described again, where they were described before.
LEMMA DescribeAllSettled ==
  ASSUME InOnePlace, NEW h, Sound(h), Settled(h), NEW f \in FoundEntry,
         \A e \in Ent : f.ents[e] # Absent => f.ents[e].on \in Hosts[e] /\ h.foundOf[e] = Absent,
         NEW g, g = DescribeAll(h, f)
  PROVE  Settled(g)
  <1>0. /\ g \in Home /\ SameDevices(h, g) /\ g.found = h.found /\ g.foundOf = h.foundOf
        /\ \A e \in Ent : f.ents[e] = Absent => g.entity[e] = h.entity[e]
        /\ f.ents \in [Ent -> EntityDescription \cup {Absent}]
    BY DescribeAllIs DEF FoundEntry
  <1>1. ASSUME NEW e \in Ent, f.ents[e] # Absent
        PROVE  /\ g.entity[e] # Absent =>
                    /\ g.entity[e].said.on \in Hosts[e]
                    /\ g.entity[e].dev = PlaceOf(g.entity[e].said.on)
                    /\ g.entity[e].dev # Absent => InHome(h, g.entity[e].dev)
    <2> PICK k : k = DescribeEntity(h, e, f.ents[e])
      OBVIOUS
    <2>1. f.ents[e] \in EntityDescription
      BY <1>0, <1>1
    <2>2. Settled(k) /\ SameDevices(h, k)
      BY <1>1, <2>1, DescribeEntitySettled, DescribeEntityIs
    <2>3. g.entity[e] = k.entity[e]
      BY <1>1, DescribeAllIs
    <2> QED
      BY <2>2, <2>3 DEF Settled, Placed, Housed, SameDevices, InHome
  <1>2. Placed(g)
    BY <1>0, <1>1 DEF Settled, Placed, IsFound
  <1>3. Housed(g)
    <2>1. \A j : InHome(g, j) <=> InHome(h, j)
      BY <1>0 DEF SameDevices, InHome
    <2> QED
      BY <1>0, <1>1, <2>1 DEF Settled, Housed
  <1>4. Agreed(g)
    BY <1>0 DEF Settled, Agreed, IsFound
  <1> QED
    BY <1>2, <1>3, <1>4 DEF Settled

\* What an entity is after a report, whether it was taken or not.
LEMMA ReportLeaves ==
  ASSUME NEW h \in Home, NEW e \in Ent, NEW v \in Val \cup {Absent}, NEW g, g = ReportState(h, e, v)
  PROVE  /\ g.entity[e] = Absent <=> h.entity[e] = Absent
         /\ h.entity[e] # Absent => /\ g.entity[e].dev = h.entity[e].dev
                                    /\ g.entity[e].said = h.entity[e].said
  <1>1. CASE g.entity = h.entity
    BY <1>1
  <1>2. CASE /\ h.entity[e] # Absent
             /\ g.entity[e] = Valued(h.entity[e], v) /\ g.entity[e] # Absent
    <2>1. h.entity[e] \in EntityEntry
      BY <1>2, EntryOK
    <2> QED
      BY <1>2, <2>1, ValuedOK
  <1> QED
    BY <1>1, <1>2, ReportStateIs

\* What they last said, reported again.
LEMMA ReplaySettled ==
  ASSUME NEW h \in Home, Settled(h), NEW f \in FoundEntry, NEW g, g = Replay(h, f)
  PROVE  Settled(g)
  <1>0. /\ SameDevices(h, g) /\ g.found = h.found /\ g.foundOf = h.foundOf
        /\ f.reports \in [Ent -> [val : Val \cup {Absent}] \cup {Absent}]
    BY ReplayIs DEF FoundEntry
  <1>1. ASSUME NEW e \in Ent
        PROVE  /\ g.entity[e] = Absent <=> h.entity[e] = Absent
               /\ h.entity[e] # Absent => /\ g.entity[e].dev = h.entity[e].dev
                                          /\ g.entity[e].said = h.entity[e].said
    <2>1. CASE f.reports[e] = Absent
      BY <2>1, ReplayIs
    <2>2. CASE f.reports[e] # Absent
      <3> PICK v : v = f.reports[e].val
        OBVIOUS
      <3>1. v \in Val \cup {Absent}
        BY <1>0, <2>2
      <3> PICK k : k = ReportState(h, e, v)
        OBVIOUS
      <3>2. g.entity[e] = k.entity[e]
        BY <2>2, ReplayIs
      <3> QED
        BY <3>1, <3>2, ReportLeaves
    <2> QED
      BY <2>1, <2>2
  <1> QED
    BY <1>0, <1>1, SettledThere DEF IsFound

\* admit.
LEMMA AdmitSettled ==
  ASSUME InOnePlace, NEW h, Sound(h), Added(h), Settled(h), NEW i \in Id, IsFound(h, i),
         NEW g, g = Admit(h, i)
  PROVE  Settled(g)
  <1> PICK f : f = h.found[i]
    OBVIOUS
  <1> PICK un : un = Unfound(h, i)
    OBVIOUS
  <1> PICK in : in = DescribeDevice(un, f.said)
    OBVIOUS
  <1> PICK de : de = DescribeAll(in, f)
    OBVIOUS
  <1> PICK re : re = Replay(de, f)
    OBVIOUS
  <1>0. h \in Home /\ f \in FoundEntry /\ f.said \in DeviceDescription
    BY EntryOK DEF Sound
  <1>1. /\ Sound(un) /\ Sound(in) /\ Sound(de) /\ Sound(re) /\ Sound(g) /\ Added(un)
        /\ SameDevices(re, g) /\ SameHeld(re, g) /\ SameEntities(re, g)
    BY AdmitIs
  <1>2. Settled(un) /\ \A e \in Ent : f.ents[e] # Absent => un.foundOf[e] = Absent
    BY <1>0, UnfoundSettled
  <1>3. Settled(in) /\ in.foundOf = un.foundOf
    BY <1>0, <1>1, <1>2, DescribeDeviceSettled, DescribeDeviceIs
  <1>4. Settled(de)
    <2>1. \A e \in Ent : f.ents[e] # Absent => f.ents[e].on \in Hosts[e] /\ in.foundOf[e] = Absent
      BY <1>2, <1>3 DEF Settled, Placed
    <2> QED
      BY <1>0, <1>1, <1>3, <2>1, DescribeAllSettled
  <1>5. Settled(re)
    <2>1. de \in Home
      BY <1>1 DEF Sound
    <2> QED
      BY <1>0, <1>4, <2>1, ReplaySettled
  <1> QED
    BY <1>1, <1>5, SettledSame DEF Sound

\* remove_protocol.
LEMMA ProtocolGoneSettled ==
  ASSUME NEW h, Sound(h), Settled(h), NEW g,
         \A i \in Id : ~InHome(g, i) /\ ~IsFound(g, i),
         \A e \in Ent :
              /\ g.foundOf[e] = Absent
              /\ g.entity[e] = IF /\ \E i \in Id : InHome(h, i) /\ e \in EntitiesOf(h, i)
                                  /\ h.foundOf[e] = Absent
                               THEN Absent ELSE h.entity[e]
  PROVE  Settled(g)
  <1>1. \A e \in Ent : g.entity[e] = Absent \/ g.entity[e] = h.entity[e]
    OBVIOUS
  <1>2. Placed(g)
    BY <1>1 DEF Settled, Placed
  <1>3. Agreed(g)
    BY SaidOK DEF Agreed
  <1>4. ASSUME NEW e \in Ent, g.entity[e] # Absent, g.entity[e].dev # Absent
        PROVE  FALSE
    <2>1. h.entity[e] # Absent /\ h.entity[e].dev # Absent /\ h.foundOf[e] = Absent
      BY <1>1, <1>4 DEF Settled, Agreed
    <2>2. h.entity[e].dev \in Id /\ InHome(h, h.entity[e].dev)
      BY <2>1, EntryOK DEF Settled, Housed, Sound
    <2>3. e \in EntitiesOf(h, h.entity[e].dev)
      BY <2>1 DEF EntitiesOf
    <2> QED
      BY <1>4, <2>1, <2>2, <2>3
  <1>5. Housed(g)
    BY <1>4 DEF Housed
  <1> QED
    BY <1>2, <1>3, <1>5 DEF Settled

\* A row of devices.toml more or less.
LEMMA RowSettled ==
  ASSUME NEW h, Sound(h), Settled(h), NEW s \in SUBSET Id, NEW g, g = WithRows(h, s)
  PROVE  Settled(g)
  <1>1. /\ g.device = h.device
        /\ g.entity = h.entity /\ g.found = h.found /\ g.foundOf = h.foundOf
    BY RowIs
  <1> QED
    BY <1>1 DEF Settled, Placed, Housed, Agreed, InHome, IsFound

\* Every step leaves the entities settled.
LEMMA NextSettled == InOnePlace /\ DInv /\ Settled(home) /\ [Next]_vars => Settled(home')
  <1> SUFFICES ASSUME InOnePlace, DInv, Settled(home), [Next]_vars
               PROVE  Settled(home')
    OBVIOUS
  <1>0. Sound(home) /\ Added(home) /\ home \in Home
    BY DEF DInv, Sound
  <1>1. ASSUME NEW d \in DeviceDescription, Describe(d)
        PROVE  Settled(home')
    BY <1>0, <1>1, DescribeDeviceSettled DEF Describe
  <1>2. ASSUME NEW e \in Ent, NEW d \in EntityDescription, d.on \in Hosts[e], DescribeOn(e, d)
        PROVE  Settled(home')
    BY <1>0, <1>2, DescribeEntitySettled DEF DescribeOn
  <1>3. ASSUME NEW e \in Ent, Remove(e)
        PROVE  Settled(home')
    BY <1>0, <1>3, RemoveEntitySettled DEF Remove
  <1>4. ASSUME NEW e \in Ent, NEW v \in Val \cup {Absent}, Report(e, v)
        PROVE  Settled(home')
    BY <1>0, <1>4, ReportStateSettled DEF Report
  <1>5. ASSUME NEW u \in Dev, Retire(u)
        PROVE  Settled(home')
    BY <1>0, <1>5, RemoveDeviceSettled DEF Retire
  <1>6. ASSUME NEW up \in BOOLEAN, SetAvailability(up)
        PROVE  Settled(home')
    BY <1>0, <1>6, DeviceAvailabilityIs, EntityAvailabilityIs, SettledSame DEF SetAvailability
  <1>7. ASSUME NEW i \in Id, AddRow(i)
        PROVE  Settled(home')
    <2> PICK s : s = home.added \cup {i}
      OBVIOUS
    <2> PICK h : h = WithRows(home, s)
      OBVIOUS
    <2>1. Sound(h) /\ Added(h) /\ Settled(h)
      <3>1. s \in SUBSET Id /\ home.added \subseteq s
        BY <1>0, HomeOK
      <3> QED
        BY <1>0, <3>1, RowIs, RowSettled
    <2>2. home' = IF IsFound(h, i) THEN Admit(h, i) ELSE h
      BY <1>7 DEF AddRow, WithRows
    <2> QED
      BY <2>1, <2>2, AdmitSettled
  <1>8. ASSUME NEW i \in Id, DropRow(i)
        PROVE  Settled(home')
    <2> PICK s : s = home.added \ {i}
      OBVIOUS
    <2> PICK h : h = WithRows(home, s)
      OBVIOUS
    <2>1. Sound(h) /\ Settled(h)
      <3>1. s \in SUBSET Id
        BY <1>0, HomeOK
      <3> QED
        BY <1>0, <3>1, RowIs, RowSettled
    <2>2. home' = IF InHome(h, i) THEN Hold(h, i) ELSE h
      BY <1>8 DEF DropRow, WithRows
    <2> QED
      BY <2>1, <2>2, HoldSettled
  <1>9. ASSUME NEW i \in Id, Forget(i)
        PROVE  Settled(home')
    BY <1>0, <1>9, HoldSettled DEF Forget
  <1>10. CASE Stop
    BY <1>0, <1>10, MarkUnavailableIs, SettledSame DEF Stop
  <1>11. CASE Start
    BY <1>11 DEF Start
  <1>12. CASE RemoveProtocol
    <2> PICK g :
          g = HomeWith(home, [u \in Dev |-> Absent], [i \in Id |-> Absent],
                       [e \in Ent |->
                           IF /\ \E i \in Id : InHome(home, i) /\ e \in EntitiesOf(home, i)
                              /\ home.foundOf[e] = Absent
                           THEN Absent ELSE home.entity[e]],
                       [i \in Id |-> Absent], [e \in Ent |-> Absent])
      OBVIOUS
    <2>1. home' = g
      BY <1>12 DEF RemoveProtocol, HomeWith
    <2>2. /\ \A i \in Id : ~InHome(g, i) /\ ~IsFound(g, i)
          /\ \A e \in Ent :
              /\ g.foundOf[e] = Absent
              /\ g.entity[e] = IF /\ \E i \in Id : InHome(home, i) /\ e \in EntitiesOf(home, i)
                                  /\ home.foundOf[e] = Absent
                               THEN Absent ELSE home.entity[e]
      BY <1>0, ProtocolGone
    <2>3. Settled(g)
      BY <1>0, <2>2, ProtocolGoneSettled
    <2> QED
      BY <2>1, <2>3
  <1>13. CASE UNCHANGED vars
    BY <1>13 DEF vars
  <1> QED
    BY <1>1, <1>2, <1>3, <1>4, <1>5, <1>6, <1>7, <1>8, <1>9, <1>10, <1>11, <1>12, <1>13 DEF Next

\* Settled in every behaviour, when entities stay in one place.
EInv == DInv /\ Settled(home)

\* No entity is described at first.
LEMMA InitEInv == Init => EInv
  <1> SUFFICES ASSUME Init
               PROVE  Settled(home)
    BY InitDInv DEF EInv
  <1>1. /\ \A e \in Ent : home.entity[e] = Absent /\ home.foundOf[e] = Absent
        /\ \A i \in Id : ~IsFound(home, i)
    BY DEF Init, Empty, IsFound
  <1> QED
    BY <1>1, SaidOK DEF Settled, Placed, Housed, Agreed

\* Every step keeps it.
LEMMA NextEInv == InOnePlace /\ EInv /\ [Next]_vars => EInv'
  <1> SUFFICES ASSUME InOnePlace, EInv, [Next]_vars
               PROVE  DInv' /\ Settled(home')
    BY DEF EInv
  <1> QED
    BY NextDInv, NextSettled DEF EInv

\* It says what the property says.
LEMMA EInvMeans == EInv => EntitiesOK
  BY DEF EInv, Settled, Housed, Agreed, EntitiesOK, EntityHasDevice, FoundAgree

\* When no entity moves from device to device: none is ever in the home without
\* its device, and what arrives for one of a found device is recognised as such,
\* in any order of admit, hold, describing, reporting and removing.
THEOREM InWithTheirDevice == InOnePlace => (Spec => []EntitiesOK)
  <1> SUFFICES ASSUME InOnePlace
               PROVE  Spec => []EntitiesOK
    OBVIOUS
  <1>1. EInv /\ [Next]_vars => EInv'
    BY NextEInv
  <1> QED
    BY InitEInv, <1>1, EInvMeans, PTL DEF Spec

-----------------------------------------------------------------------------
(* What comes back *)

\* No device is described as reached through another, and every handle has an
\* id of its own.  A device reached through one that is not in the home is not
\* admitted, nor is an entity described by another handle of the id (ComesBack
\* fails then).
NoneThrough == \A u \in Dev : Vias[u] \subseteq {Absent}
OneHandleEach == \A u, v \in Dev : IdOf[u] = IdOf[v] => u = v

\* What is kept of a device is what was said of that device.
Named(h) ==
    /\ \A i \in Id : IsFound(h, i) => IdOf[h.found[i].said.u] = i
    /\ \A i \in Id : InHome(h, i) => IdOf[h.device[i].said.u] = i

\* The devices of some handles are in the home or found.
There(h, us) == \A u \in us : InHome(h, IdOf[u]) \/ IsFound(h, IdOf[u])

\* The last values l reported, and what a home has of them: an entity in the
\* home has its value, which fits; a found device keeps a report of its own
\* entities only, the last one; nothing is remembered of what is nowhere.
Current(h, l) ==
    \A e \in Ent : h.entity[e] # Absent =>
        h.entity[e].val = l[e] /\ (l[e] = Absent \/ l[e] \in h.entity[e].said.fits)
Heard(f, l) ==
    \A e \in Ent :
        /\ f.ents[e] = Absent => f.reports[e] = Absent
        /\ f.ents[e] # Absent => l[e] = IF f.reports[e] = Absent THEN Absent ELSE f.reports[e].val
AllHeard(h, l) == \A i \in Id : IsFound(h, i) => Heard(h.found[i], l)
Dropped(h, l) == \A e \in Ent : h.entity[e] = Absent /\ h.foundOf[e] = Absent => l[e] = Absent
Faithful(h, l) == Current(h, l) /\ AllHeard(h, l) /\ Dropped(h, l)

\* The history without the values that do not fit, and without what is nowhere.
FittingOf(h, l) ==
    [e \in Ent |-> IF h.entity[e] # Absent /\ l[e] \notin h.entity[e].said.fits
                   THEN Absent ELSE l[e]]
ForgettingOf(h, l) == [e \in Ent |-> IF e \in Kept(h) THEN l[e] ELSE Absent]

\* Devices that leave, and what stays as it was said.
LEMMA NamedFewer ==
  ASSUME NEW h, Named(h), NEW g,
         \A j \in Id : IsFound(g, j) => IsFound(h, j) /\ g.found[j].said = h.found[j].said,
         \A j \in Id : InHome(g, j) => InHome(h, j) /\ g.device[j].said = h.device[j].said
  PROVE  Named(g)
  BY DEF Named

\* describe_device, of what was said.
LEMMA DescribeDeviceNamed ==
  ASSUME NEW h, Sound(h), Added(h), Named(h), NEW d \in DeviceDescription,
         NEW g, g = DescribeDevice(h, d)
  PROVE  Named(g) /\ \A j \in Id : IsFound(h, j) => IsFound(g, j)
  <1> DEFINE i == IdOf[d.u]
  <1>0. i \in Id
    BY SaidOK
  <1>1. \A j \in Id : j # i => g.found[j] = h.found[j] /\ g.device[j] = h.device[j]
    BY DescribeDeviceIs
  <1>2. \/ g = h
        \/ g.device = h.device /\ IsFound(g, i) /\ g.found[i].said = d
        \/ g.found = h.found /\ InHome(g, i) /\ g.device[i].said = d
    BY DescribeDeviceIs
  <1> QED
    BY <1>0, <1>1, <1>2 DEF Named, IsFound, InHome

\* What the home still keeps the value of.
LEMMA KeptIs ==
  ASSUME NEW g \in Home, Settled(g), NEW e \in Ent
  PROVE  e \in Kept(g) <=> g.entity[e] # Absent \/ g.foundOf[e] # Absent
  <1>1. e \in Kept(g) <=>
          \/ g.entity[e] # Absent
          \/ \E i \in Id : IsFound(g, i) /\ g.found[i].ents[e] # Absent
    BY DEF Kept
  <1>2. g.foundOf[e] \in Id \cup {Absent}
    BY HomeOK
  <1>3. \A i \in Id : (g.foundOf[e] = i) <=> (IsFound(g, i) /\ g.found[i].ents[e] # Absent)
    BY DEF Settled, Agreed
  <1> QED
    BY <1>1, <1>2, <1>3, SaidOK

\* Only whether things are in touch changes.
LEMMA FaithfulSame ==
  ASSUME NEW h, NEW l, Faithful(h, l), NEW g, SameHeld(h, g), SameEntities(h, g)
  PROVE  Faithful(g, l)
  <1>1. Current(g, l)
    BY DEF Faithful, Current, SameEntities
  <1>2. AllHeard(g, l)
    BY DEF Faithful, AllHeard, Heard, SameHeld
  <1>3. Dropped(g, l)
    BY DEF Faithful, Dropped, SameHeld, SameEntities
  <1> QED
    BY <1>1, <1>2, <1>3 DEF Faithful

\* What is gone is forgotten, and nothing else.
LEMMA FaithfulFewer ==
  ASSUME NEW h, NEW l, Faithful(h, l), NEW g \in Home, Settled(g),
         \A e \in Ent : g.entity[e] = Absent \/ g.entity[e] = h.entity[e],
         \A j \in Id : IsFound(g, j) => /\ IsFound(h, j)
                                        /\ g.found[j].ents = h.found[j].ents
                                        /\ g.found[j].reports = h.found[j].reports
  PROVE  Faithful(g, ForgettingOf(g, l))
  <1> PICK m : m = ForgettingOf(g, l)
    OBVIOUS
  <1>1. \A e \in Ent : m[e] = IF g.entity[e] # Absent \/ g.foundOf[e] # Absent
                              THEN l[e] ELSE Absent
    BY KeptIs DEF ForgettingOf
  <1>2. Current(g, m)
    BY <1>1 DEF Faithful, Current
  <1>3. \A j \in Id, e \in Ent :
           IsFound(g, j) /\ g.found[j].ents[e] # Absent => g.foundOf[e] # Absent
    BY SaidOK DEF Settled, Agreed
  <1>4. AllHeard(g, m)
    BY <1>1, <1>3 DEF Faithful, AllHeard, Heard
  <1>5. Dropped(g, m)
    BY <1>1 DEF Dropped
  <1> QED
    BY <1>2, <1>4, <1>5 DEF Faithful

\* What fits stays in the history.
LEMMA FittingKeeps ==
  ASSUME NEW h, NEW l, Faithful(h, l), NEW g, NEW e \in Ent,
         \/ g.entity[e] = h.entity[e]
         \/ g.entity[e] = Absent
  PROVE  FittingOf(g, l)[e] = l[e]
  BY DEF FittingOf, Faithful, Current

\* describe_device.
LEMMA DescribeDeviceFaithful ==
  ASSUME NEW h, Sound(h), Added(h), NEW l, Faithful(h, l), NEW d \in DeviceDescription,
         NEW g, g = DescribeDevice(h, d)
  PROVE  Faithful(g, l)
  <1> DEFINE i == IdOf[d.u]
  <1>0. i \in Id
    BY SaidOK
  <1>1. /\ g.entity = h.entity /\ g.foundOf = h.foundOf
        /\ \A j \in Id : j # i => g.found[j] = h.found[j]
        /\ \/ g.found = h.found
           \/ /\ IsFound(h, i) => /\ g.found[i].ents = h.found[i].ents
                                  /\ g.found[i].reports = h.found[i].reports
              /\ ~IsFound(h, i) => \A e \in Ent : /\ g.found[i].ents[e] = Absent
                                                  /\ g.found[i].reports[e] = Absent
    BY DescribeDeviceIs
  <1>2. Current(g, l) /\ Dropped(g, l)
    BY <1>1 DEF Faithful, Current, Dropped
  <1>3. ASSUME NEW j \in Id, IsFound(g, j)
        PROVE  Heard(g.found[j], l)
    <2>1. CASE g.found[j] = h.found[j]
      BY <1>3, <2>1 DEF Faithful, AllHeard, IsFound
    <2>2. CASE /\ j = i /\ IsFound(h, i)
               /\ g.found[i].ents = h.found[i].ents /\ g.found[i].reports = h.found[i].reports
      BY <1>0, <2>2 DEF Faithful, AllHeard, Heard
    <2>3. CASE j = i /\ \A e \in Ent : g.found[i].ents[e] = Absent /\ g.found[i].reports[e] = Absent
      BY <2>3 DEF Heard
    <2> QED
      BY <1>0, <1>1, <2>1, <2>2, <2>3
  <1> QED
    BY <1>2, <1>3 DEF Faithful, AllHeard

\* report_state, when it is taken.
LEMMA ReportStateFaithful ==
  ASSUME NEW h \in Home, Settled(h), NEW l \in [Ent -> Val \cup {Absent}], Faithful(h, l),
         NEW e \in Ent, NEW v \in Val \cup {Absent}, ReportAccepted(h, e, v),
         NEW g, g = ReportState(h, e, v)
  PROVE  Faithful(g, [l EXCEPT ![e] = v])
  <1> PICK m : m = [l EXCEPT ![e] = v]
    OBVIOUS
  <1>0. m[e] = v /\ \A x \in Ent : x # e => m[x] = l[x]
    OBVIOUS
  <1>1. CASE /\ h.foundOf[e] # Absent /\ g.entity = h.entity /\ g.foundOf = h.foundOf
             /\ \A j \in Id : j # h.foundOf[e] => g.found[j] = h.found[j]
             /\ IsFound(h, h.foundOf[e]) =>
                  g.found[h.foundOf[e]] = Reported(h.found[h.foundOf[e]], e, v)
    <2> PICK i \in Id : i = h.foundOf[e]
      BY <1>1, HomeOK
    <2>1. IsFound(h, i) /\ h.found[i].ents[e] # Absent /\ h.entity[e] = Absent
      BY <1>1 DEF Settled, Agreed
    <2>2. h.found[i] \in FoundEntry
      BY <2>1, EntryOK
    <2> PICK o : o = Reported(h.found[i], e, v)
      OBVIOUS
    <2>3. /\ o.ents = h.found[i].ents /\ o.reports[e] # Absent /\ o.reports[e].val = v
          /\ \A x \in Ent : x # e => o.reports[x] = h.found[i].reports[x]
      BY <2>2, ReportedOK
    <2>4. g.found[i] = o
      BY <1>1, <2>1
    <2>5. Heard(o, m)
      <3>1. Heard(h.found[i], l)
        BY <2>1 DEF Faithful, AllHeard
      <3>2. ASSUME NEW x \in Ent
            PROVE  /\ o.ents[x] = Absent => o.reports[x] = Absent
                   /\ o.ents[x] # Absent =>
                        m[x] = IF o.reports[x] = Absent THEN Absent ELSE o.reports[x].val
        <4>1. CASE x = e
          BY <1>0, <2>1, <2>3, <4>1
        <4>2. CASE x # e
          BY <1>0, <2>3, <3>1, <4>2 DEF Heard
        <4> QED
          BY <4>1, <4>2
      <3> QED
        BY <3>2 DEF Heard
    <2>6. ASSUME NEW j \in Id, IsFound(g, j), j # i
          PROVE  Heard(g.found[j], m)
      <3>1. g.found[j] = h.found[j] /\ IsFound(h, j)
        BY <1>1, <2>6 DEF IsFound
      <3>2. Heard(h.found[j], l)
        BY <3>1 DEF Faithful, AllHeard
      <3>3. h.found[j].ents[e] = Absent
        BY <2>6, <3>1 DEF Settled, Agreed
      <3> QED
        BY <1>0, <3>1, <3>2, <3>3 DEF Heard
    <2>7. AllHeard(g, m)
      BY <2>4, <2>5, <2>6 DEF AllHeard
    <2>8. Current(g, m)
      BY <1>0, <1>1, <2>1 DEF Faithful, Current
    <2>9. Dropped(g, m)
      BY <1>0, <1>1 DEF Faithful, Dropped
    <2> QED
      BY <2>7, <2>8, <2>9 DEF Faithful
  <1>2. CASE /\ h.foundOf[e] = Absent /\ g.found = h.found /\ g.foundOf = h.foundOf
             /\ h.entity[e] # Absent
             /\ v \in h.entity[e].said.fits \cup {Absent}
             /\ \A x \in Ent : x # e => g.entity[x] = h.entity[x]
             /\ g.entity[e] = Valued(h.entity[e], v) /\ g.entity[e] # Absent
    <2>1. h.entity[e] \in EntityEntry
      BY <1>2, EntryOK
    <2>2. g.entity[e].said = h.entity[e].said /\ g.entity[e].val = v
      BY <1>2, <2>1, ValuedOK
    <2>3. Current(g, m)
      <3>1. ASSUME NEW x \in Ent, g.entity[x] # Absent
            PROVE  g.entity[x].val = m[x] /\ (m[x] = Absent \/ m[x] \in g.entity[x].said.fits)
        <4>1. CASE x = e
          BY <1>0, <1>2, <2>2, <4>1
        <4>2. CASE x # e
          BY <1>0, <1>2, <3>1, <4>2 DEF Faithful, Current
        <4> QED
          BY <4>1, <4>2
      <3> QED
        BY <3>1 DEF Current
    <2>4. ASSUME NEW j \in Id, IsFound(g, j)
          PROVE  Heard(g.found[j], m)
      <3>1. Heard(h.found[j], l) /\ g.found[j] = h.found[j]
        BY <1>2, <2>4 DEF Faithful, AllHeard, IsFound
      <3>2. h.found[j].ents[e] = Absent
        BY <1>2, <2>4, SaidOK DEF Settled, Agreed, IsFound
      <3> QED
        BY <1>0, <3>1, <3>2 DEF Heard
    <2>5. Dropped(g, m)
      BY <1>0, <1>2 DEF Faithful, Dropped
    <2> QED
      BY <2>3, <2>4, <2>5 DEF Faithful, AllHeard
  <1> QED
    BY <1>1, <1>2, ReportStateIs

\* remove_entity.
LEMMA RemoveEntityFaithful ==
  ASSUME NEW h \in Home, Settled(h), NEW l \in [Ent -> Val \cup {Absent}], Faithful(h, l),
         NEW e \in Ent, NEW g, g = RemoveEntity(h, e)
  PROVE  Faithful(g, [l EXCEPT ![e] = Absent])
  <1> PICK m : m = [l EXCEPT ![e] = Absent]
    OBVIOUS
  <1>0. m[e] = Absent /\ \A x \in Ent : x # e => m[x] = l[x]
    OBVIOUS
  <1>1. /\ g.entity[e] = Absent /\ g.foundOf[e] = Absent
        /\ \A x \in Ent : x # e => g.entity[x] = h.entity[x] /\ g.foundOf[x] = h.foundOf[x]
    BY RemoveEntitySettled
  <1>2. Current(g, m) /\ Dropped(g, m)
    BY <1>0, <1>1 DEF Faithful, Current, Dropped
  <1>3. ASSUME NEW j \in Id, IsFound(g, j)
        PROVE  Heard(g.found[j], m)
    <2>1. IsFound(h, j)
      BY <1>3, RemoveEntitySettled
    <2>2. Heard(h.found[j], l)
      BY <2>1 DEF Faithful, AllHeard
    <2>3. /\ \A x \in Ent : x # e => /\ g.found[j].ents[x] = h.found[j].ents[x]
                                     /\ g.found[j].reports[x] = h.found[j].reports[x]
          /\ g.found[j].ents[e] = Absent
          /\ h.found[j].ents[e] # Absent \/ h.found[j].reports[e] = Absent =>
                g.found[j].reports[e] = Absent
      BY <2>1, RemoveEntitySettled
    <2> QED
      BY <1>0, <2>2, <2>3 DEF Heard
  <1> QED
    BY <1>2, <1>3 DEF Faithful, AllHeard

\* describe_entity.
LEMMA DescribeEntityFaithful ==
  ASSUME InOnePlace, NEW h, Sound(h), Settled(h),
         NEW l \in [Ent -> Val \cup {Absent}], Faithful(h, l),
         NEW e \in Ent, NEW d \in EntityDescription, d.on \in Hosts[e],
         NEW g, g = DescribeEntity(h, e, d)
  PROVE  Faithful(g, FittingOf(g, l))
  <1> PICK m : m = FittingOf(g, l)
    OBVIOUS
  <1>0. /\ h \in Home /\ g \in Home /\ SameDevices(h, g) /\ Settled(g)
        /\ d.on \in Dev \cup {Absent} /\ d # Absent
    BY DescribeEntityIs, DescribeEntitySettled, SaidOK, AbsentAssumption DEF Sound
  <1>1. CASE g = h
    <2>1. \A x \in Ent : m[x] = l[x]
      BY <1>1, FittingKeeps
    <2>2. Faithful(h, m)
      BY <2>1 DEF Faithful, Current, AllHeard, Heard, Dropped
    <2> QED
      BY <1>1, <2>2
  <1>2. CASE /\ d.on # Absent /\ IsFound(h, IdOf[d.on])
             /\ g.entity = h.entity /\ g.foundOf = [h.foundOf EXCEPT ![e] = IdOf[d.on]]
             /\ g.found[IdOf[d.on]] = [h.found[IdOf[d.on]] EXCEPT !.ents = [@ EXCEPT ![e] = d]]
             /\ \A j \in Id : j # IdOf[d.on] => g.found[j] = h.found[j]
    <2> DEFINE i == IdOf[d.on]
    <2>0. i \in Id /\ i = PlaceOf(d.on) /\ i # Absent
      BY <1>0, <1>2, SaidOK DEF PlaceOf
    <2>1. \A x \in Ent : m[x] = l[x]
      BY <1>2, FittingKeeps
    <2>2. /\ g.found[i].reports = h.found[i].reports /\ g.found[i].ents[e] = d
          /\ \A x \in Ent : x # e => g.found[i].ents[x] = h.found[i].ents[x]
      <3>1. /\ h.found[i] \in FoundEntry
            /\ h.found[i].ents \in [Ent -> EntityDescription \cup {Absent}]
        BY <1>0, <1>2, <2>0, EntryOK
      <3>2. /\ g.found[i].reports = h.found[i].reports
            /\ g.found[i].ents = [h.found[i].ents EXCEPT ![e] = d]
        BY <1>2, <3>1 DEF FoundEntry
      <3> QED
        BY <3>1, <3>2
    <2>5. g.foundOf[e] = i /\ \A x \in Ent : x # e => g.foundOf[x] = h.foundOf[x]
      BY <1>0, <1>2, <2>0, HomeOK
    <2>6. h.entity[e] = Absent
      BY <1>0, <1>2, <2>0, <2>5 DEF Settled, Agreed
    <2>7. h.found[i].ents[e] = Absent => h.found[i].reports[e] = Absent /\ l[e] = Absent
      <3>1. SUFFICES ASSUME h.found[i].ents[e] = Absent
                     PROVE  h.found[i].reports[e] = Absent /\ l[e] = Absent
        OBVIOUS
      <3>2. \A j \in Id : ~(IsFound(h, j) /\ h.found[j].ents[e] # Absent)
        BY <2>0, <3>1 DEF InOnePlace, Settled, Placed
      <3>3. h.foundOf[e] = Absent
        BY <1>0, <3>2, HomeOK DEF Settled, Agreed
      <3>4. l[e] = Absent
        BY <2>6, <3>3 DEF Faithful, Dropped
      <3>5. Heard(h.found[i], l)
        BY <1>2, <2>0 DEF Faithful, AllHeard
      <3> QED
        BY <3>1, <3>4, <3>5 DEF Heard
    <2>8. Heard(g.found[i], m)
      <3>1. Heard(h.found[i], l)
        BY <1>2, <2>0 DEF Faithful, AllHeard
      <3>2. ASSUME NEW x \in Ent
            PROVE  /\ g.found[i].ents[x] = Absent => g.found[i].reports[x] = Absent
                   /\ g.found[i].ents[x] # Absent =>
                        m[x] = IF g.found[i].reports[x] = Absent THEN Absent
                               ELSE g.found[i].reports[x].val
        <4>1. CASE x = e
          BY <1>0, <2>1, <2>2, <2>7, <3>1, <4>1 DEF Heard
        <4>2. CASE x # e
          BY <2>1, <2>2, <3>1, <4>2 DEF Heard
        <4> QED
          BY <4>1, <4>2
      <3> QED
        BY <3>2 DEF Heard
    <2>9. ASSUME NEW j \in Id, IsFound(g, j), j # i
          PROVE  Heard(g.found[j], m)
      <3>1. Heard(h.found[j], l) /\ g.found[j] = h.found[j]
        BY <1>2, <2>9 DEF Faithful, AllHeard, IsFound
      <3> QED
        BY <2>1, <3>1 DEF Heard
    <2>10. AllHeard(g, m)
      BY <2>8, <2>9 DEF AllHeard
    <2>11. Current(g, m)
      BY <1>2, <2>1 DEF Faithful, Current
    <2>12. Dropped(g, m)
      BY <1>2, <2>0, <2>1, <2>5 DEF Faithful, Dropped
    <2> QED
      BY <2>10, <2>11, <2>12 DEF Faithful
  <1>3. CASE /\ g.found = h.found /\ g.foundOf = h.foundOf
             /\ \A x \in Ent : x # e => g.entity[x] = h.entity[x]
             /\ g.entity[e] # Absent /\ g.entity[e].said = d
             /\ g.entity[e].val = IF h.entity[e] # Absent /\ h.entity[e].val \in d.fits
                                  THEN h.entity[e].val ELSE Absent
    <2>1. \A x \in Ent : x # e => m[x] = l[x]
      BY <1>3, FittingKeeps
    <2>2. m[e] = IF l[e] \notin d.fits THEN Absent ELSE l[e]
      BY <1>3 DEF FittingOf
    <2>3. h.foundOf[e] = Absent
      BY <1>0, <1>3 DEF Settled, Agreed
    <2>5. g.entity[e].val = m[e] /\ (m[e] = Absent \/ m[e] \in d.fits)
      <3>1. CASE h.entity[e] = Absent
        BY <1>3, <2>2, <2>3, <3>1 DEF Faithful, Dropped
      <3>2. CASE h.entity[e] # Absent
        BY <1>3, <2>2, <3>2 DEF Faithful, Current
      <3> QED
        BY <3>1, <3>2
    <2>6. Current(g, m)
      <3>1. ASSUME NEW x \in Ent, g.entity[x] # Absent, x # e
            PROVE  g.entity[x].val = m[x] /\ (m[x] = Absent \/ m[x] \in g.entity[x].said.fits)
        BY <1>3, <2>1, <3>1 DEF Faithful, Current
      <3> QED
        BY <1>3, <2>5, <3>1 DEF Current
    <2>7. ASSUME NEW j \in Id, IsFound(g, j)
          PROVE  Heard(g.found[j], m)
      <3>1. Heard(h.found[j], l) /\ g.found[j] = h.found[j] /\ IsFound(h, j)
        BY <1>3, <2>7 DEF Faithful, AllHeard, IsFound
      <3>2. h.found[j].ents[e] = Absent
        BY <2>3, <3>1, SaidOK DEF Settled, Agreed
      <3> QED
        BY <2>1, <3>1, <3>2 DEF Heard
    <2>8. Dropped(g, m)
      BY <1>3, <2>1 DEF Faithful, Dropped
    <2> QED
      BY <2>6, <2>7, <2>8 DEF Faithful, AllHeard
  <1> QED
    BY <1>1, <1>2, <1>3, DescribeEntityIs

\* remove_device, of what was said: nothing leaves but the device.
LEMMA RemoveDeviceNamed ==
  ASSUME NEW h, Sound(h), Named(h), NEW u \in Dev, NEW g, g = RemoveDevice(h, u)
  PROVE  /\ Named(g)
         /\ \A j \in Id : j # IdOf[u] => /\ InHome(h, j) => InHome(g, j)
                                         /\ IsFound(h, j) => IsFound(g, j)
  <1> DEFINE i == IdOf[u]
  <1>0. i \in Id /\ h \in Home
    BY SaidOK DEF Sound
  <1>1. /\ \A j \in Id : InHome(g, j) => InHome(h, j) /\ g.device[j].said = h.device[j].said
        /\ \A j \in Id : IsFound(g, j) => IsFound(h, j) /\ g.found[j].said = h.found[j].said
        /\ \A j \in Id : j # i => (InHome(h, j) => InHome(g, j)) /\ (IsFound(h, j) => IsFound(g, j))
    <2>1. CASE /\ IsFound(h, i) /\ SameDevices(h, g) /\ ~IsFound(g, i)
               /\ \A j \in Id : j # i => g.found[j] = h.found[j]
      BY <2>1 DEF SameDevices, InHome, IsFound
    <2>2. CASE g = h
      BY <2>2
    <2>3. CASE /\ ~InHome(g, i)
               /\ \A j \in Id : j # i => (InHome(g, j) <=> InHome(h, j))
               /\ \A j \in Id : InHome(g, j) =>
                    g.device[j].u = h.device[j].u /\ g.device[j].said = h.device[j].said
               /\ \A j \in Id : IsFound(g, j) <=> IsFound(h, j)
               /\ \A j \in Id : IsFound(h, j) => g.found[j].said = h.found[j].said
      BY <2>3
    <2> QED
      BY <1>0, <2>1, <2>2, <2>3, RemoveDeviceIs
  <1>2. Named(g)
    BY <1>1, NamedFewer
  <1> QED
    BY <1>1, <1>2

\* remove_device, of the values.
LEMMA RemoveDeviceFaithful ==
  ASSUME NEW h, Sound(h), Settled(h), NEW u \in Dev, NEW g, g = RemoveDevice(h, u),
         NEW l, Faithful(h, l)
  PROVE  Faithful(g, ForgettingOf(g, l))
  <1> DEFINE i == IdOf[u]
  <1>0. /\ i \in Id /\ g \in Home /\ Settled(g) /\ Unmixed(h)
    BY SaidOK, SettledUnmixed, RemoveDeviceSettled, RemoveDeviceIs DEF Sound
  <1>1. /\ \A e \in Ent : g.entity[e] = Absent \/ g.entity[e] = h.entity[e]
        /\ \A j \in Id : IsFound(g, j) => /\ IsFound(h, j)
                                          /\ g.found[j].ents = h.found[j].ents
                                          /\ g.found[j].reports = h.found[j].reports
    <2>1. CASE /\ IsFound(h, i) /\ SameDevices(h, g) /\ g.entity = h.entity /\ ~IsFound(g, i)
               /\ \A j \in Id : j # i => g.found[j] = h.found[j]
      BY <2>1 DEF SameDevices, IsFound
    <2>2. CASE g = h
      BY <2>2
    <2>3. CASE /\ \A j \in Id : IsFound(g, j) <=> IsFound(h, j)
               /\ SameHeld(h, g)
               /\ \A e \in Ent : g.entity[e] = IF e \in EntitiesOf(h, i)
                                               THEN Absent ELSE h.entity[e]
      BY <2>3 DEF SameHeld
    <2> QED
      BY <1>0, <2>1, <2>2, <2>3, RemoveDeviceIs
  <1> QED
    BY <1>0, <1>1, FaithfulFewer

\* hold, of what was said: the device is found instead.
LEMMA HoldNamed ==
  ASSUME NEW h, Sound(h), Named(h), NEW i \in Id, InHome(h, i), NEW g, g = Hold(h, i)
  PROVE  /\ Named(g)
         /\ \A j \in Id : InHome(h, j) \/ IsFound(h, j) => InHome(g, j) \/ IsFound(g, j)
  <1>0. h \in Home /\ ~InHome(g, i)
    BY HoldIs DEF Sound
  <1>1. /\ \A j \in Id : j # i => (InHome(g, j) <=> InHome(h, j))
        /\ \A j \in Id : InHome(g, j) => g.device[j].said = h.device[j].said
        /\ \A j \in Id : IsFound(g, j) <=> (j = i \/ IsFound(h, j))
        /\ g.found[i] = FoundFrom(h, i)
        /\ \A j \in Id : j # i /\ IsFound(h, j) => g.found[j].said = h.found[j].said
    BY HoldIs
  <1> PICK f : f = FoundFrom(h, i)
    OBVIOUS
  <1>2. f.said = h.device[i].said
    BY <1>0, FoundFromOK
  <1>3. Named(g)
    BY <1>0, <1>1, <1>2 DEF Named
  <1> QED
    BY <1>1, <1>3

\* hold, of the values: what is found keeps the last report of each entity.
LEMMA HoldFaithful ==
  ASSUME NEW h, Sound(h), Settled(h), NEW i \in Id, InHome(h, i), NEW g, g = Hold(h, i),
         NEW l, Faithful(h, l)
  PROVE  Faithful(g, l)
  <1>0. h \in Home /\ Unmixed(h) /\ i # Absent
    BY SettledUnmixed, SaidOK DEF Sound
  <1>1. /\ \A j \in Id : IsFound(g, j) <=> (j = i \/ IsFound(h, j))
        /\ g.found[i] = FoundFrom(h, i)
        /\ \A j \in Id : j # i /\ IsFound(h, j) =>
             /\ g.found[j].ents = h.found[j].ents
             /\ g.found[j].reports = h.found[j].reports
        /\ \A e \in Ent : /\ g.foundOf[e] = IF e \in EntitiesOf(h, i) THEN i ELSE h.foundOf[e]
                          /\ g.entity[e] = IF e \in EntitiesOf(h, i) THEN Absent ELSE h.entity[e]
    BY <1>0, HoldIs
  <1> PICK f : f = FoundFrom(h, i)
    OBVIOUS
  <1>2. /\ \A e \in Ent : f.ents[e] = IF e \in EntitiesOf(h, i) THEN h.entity[e].said ELSE Absent
        /\ \A e \in Ent : IF e \in EntitiesOf(h, i)
                          THEN f.reports[e] # Absent /\ f.reports[e].val = h.entity[e].val
                          ELSE f.reports[e] = Absent
    BY <1>0, FoundFromOK
  <1>3. Heard(f, l)
    <2>1. \A e \in Ent : h.entity[e] # Absent =>
              h.entity[e].val = l[e] /\ h.entity[e].said # Absent
      BY <1>0, EntryOK, AbsentAssumption DEF Faithful, Current
    <2>2. \A e \in EntitiesOf(h, i) : h.entity[e].val = l[e] /\ h.entity[e].said # Absent
      BY <2>1 DEF EntitiesOf
    <2> QED
      BY <1>2, <2>2 DEF Heard
  <1>4. ASSUME NEW j \in Id, IsFound(g, j), j # i
        PROVE  Heard(g.found[j], l)
    BY <1>1, <1>4 DEF Faithful, AllHeard, Heard
  <1>5. AllHeard(g, l)
    BY <1>1, <1>3, <1>4 DEF AllHeard
  <1>6. Current(g, l)
    BY <1>1 DEF Faithful, Current
  <1>7. Dropped(g, l)
    BY <1>0, <1>1 DEF Faithful, Dropped
  <1> QED
    BY <1>5, <1>6, <1>7 DEF Faithful

\* A device that is admitted is described in the home, with nothing refused.
LEMMA AdmittedIn ==
  ASSUME NoneThrough, NEW h, Sound(h), Added(h), NEW d \in DeviceDescription,
         IdOf[d.u] \in h.added, ~IsFound(h, IdOf[d.u]), ~InHome(h, IdOf[d.u]),
         NEW g, g = DescribeDevice(h, d)
  PROVE  /\ InHome(g, IdOf[d.u]) /\ g.keys[d.u] = IdOf[d.u]
         /\ g.found = h.found /\ g.device[IdOf[d.u]].said = d
         /\ \A j \in Id : j # IdOf[d.u] => g.device[j] = h.device[j]
  <1> DEFINE i == IdOf[d.u]
  <1>0. d.u \in Dev /\ i \in Id /\ d.via \in Vias[d.u] /\ d.via = Absent
    <2>1. d.u \in Dev /\ i \in Id
      BY SaidOK
    <2>2. d.via \in Vias[d.u]
      BY DEF DeviceDescription
    <2> QED
      BY <2>1, <2>2 DEF NoneThrough
  <1>1. ~GoesToFound(h, i)
    BY DEF GoesToFound, IsHeld
  <1>2. DeviceAccepted(h, d)
    <2>1. ViaId(h, d) = Absent /\ ViaOf(h, d) = Absent
      BY <1>0 DEF ViaId, ViaOf
    <2> QED
      BY <2>1 DEF DeviceAccepted, ViaKnown, NoLoop
  <1> QED
    BY <1>0, <1>1, <1>2, DescribeDeviceIs

\* admit, of the devices: the device is in the home again.
LEMMA AdmitNamed ==
  ASSUME NoneThrough, NEW h, Sound(h), Added(h), Named(h),
         NEW i \in Id, IsFound(h, i), i \in h.added, NEW g, g = Admit(h, i)
  PROVE  /\ Named(g)
         /\ \A j \in Id : InHome(h, j) \/ IsFound(h, j) => InHome(g, j) \/ IsFound(g, j)
  <1> PICK f : f = h.found[i]
    OBVIOUS
  <1> PICK un : un = Unfound(h, i)
    OBVIOUS
  <1> PICK in : in = DescribeDevice(un, f.said)
    OBVIOUS
  <1> PICK de : de = DescribeAll(in, f)
    OBVIOUS
  <1> PICK re : re = Replay(de, f)
    OBVIOUS
  <1>0. /\ h \in Home /\ f \in FoundEntry /\ f.said \in DeviceDescription /\ IdOf[f.said.u] = i
        /\ ~InHome(h, i)
    BY EntryOK DEF Sound, Named, Apart
  <1>1. /\ Sound(un) /\ Sound(in) /\ Sound(de) /\ Added(un)
        /\ SameDevices(re, g) /\ SameHeld(re, g)
    BY AdmitIs
  <1>2. /\ SameDevices(h, un) /\ ~IsFound(un, i)
        /\ \A j \in Id : j # i => un.found[j] = h.found[j]
    BY <1>0, UnfoundIs
  <1>3. /\ InHome(in, i) /\ in.found = un.found /\ in.device[i].said = f.said
        /\ \A j \in Id : j # i => in.device[j] = h.device[j]
    BY <1>0, <1>1, <1>2, AdmittedIn DEF SameDevices, InHome
  <1>4. SameDevices(in, de) /\ de.found = in.found /\ SameDevices(de, re) /\ re.found = de.found
    BY <1>0, <1>1, DescribeAllIs, ReplayIs DEF Sound
  <1>5. g.device = in.device
    BY <1>1, <1>4 DEF SameDevices
  <1>6. \A j \in Id : /\ IsFound(g, j) <=> IsFound(un, j)
                      /\ IsFound(un, j) => g.found[j].said = un.found[j].said
    BY <1>1, <1>3, <1>4 DEF SameHeld, IsFound
  <1>7. Named(g)
    <2>1. ASSUME NEW j \in Id, IsFound(g, j)
          PROVE  IdOf[g.found[j].said.u] = j
      <3>1. j # i /\ IsFound(h, j) /\ g.found[j].said = h.found[j].said
        BY <1>2, <1>6, <2>1 DEF IsFound
      <3> QED
        BY <3>1 DEF Named
    <2>2. ASSUME NEW j \in Id, InHome(g, j)
          PROVE  IdOf[g.device[j].said.u] = j
      <3>1. CASE j = i
        BY <1>0, <1>3, <1>5, <3>1
      <3>2. CASE j # i
        BY <1>3, <1>5, <2>2, <3>2 DEF Named, InHome
      <3> QED
        BY <3>1, <3>2
    <2> QED
      BY <2>1, <2>2 DEF Named
  <1>8. \A j \in Id : InHome(h, j) \/ IsFound(h, j) => InHome(g, j) \/ IsFound(g, j)
    BY <1>2, <1>3, <1>5, <1>6 DEF InHome, IsFound
  <1> QED
    BY <1>7, <1>8

\* What is heard of an entity again, as it was described again.
LEMMA ReplayedIs ==
  ASSUME NEW h \in Home, NEW f \in FoundEntry, NEW e \in Ent, h.foundOf[e] = Absent,
         h.entity[e] # Absent, h.entity[e].val = Absent, NEW g, g = Replay(h, f)
  PROVE  /\ g.entity[e] # Absent /\ g.entity[e].said = h.entity[e].said
         /\ f.reports[e] = Absent => g.entity[e].val = Absent
         /\ f.reports[e] # Absent =>
              g.entity[e].val = IF f.reports[e].val \in h.entity[e].said.fits
                                THEN f.reports[e].val ELSE Absent
  <1>0. /\ f.reports \in [Ent -> [val : Val \cup {Absent}] \cup {Absent}]
    BY DEF FoundEntry
  <1>1. CASE f.reports[e] = Absent
    BY <1>1, ReplayIs
  <1>2. CASE f.reports[e] # Absent
    <2> PICK v : v = f.reports[e].val
      OBVIOUS
    <2>1. v \in Val \cup {Absent}
      BY <1>0, <1>2
    <2> PICK k : k = ReportState(h, e, v)
      OBVIOUS
    <2>2. g.entity[e] = k.entity[e]
      BY <1>2, ReplayIs
    <2>3. h.entity[e] \in EntityEntry
      BY EntryOK
    <2>4. CASE ReportAccepted(h, e, v)
      <3>1. /\ v \in h.entity[e].said.fits \cup {Absent}
            /\ k.entity[e] = Valued(h.entity[e], v) /\ k.entity[e] # Absent
        BY <2>1, <2>4, ReportStateIs
      <3>2. k.entity[e].said = h.entity[e].said /\ k.entity[e].val = v
        BY <2>1, <2>3, <3>1, ValuedOK
      <3> QED
        BY <1>2, <2>2, <3>1, <3>2
    <2>5. CASE ~ReportAccepted(h, e, v)
      <3>1. k = h /\ v \notin h.entity[e].said.fits
        BY <2>5 DEF ReportState, ReportAccepted
      <3> QED
        BY <1>2, <2>2, <3>1
    <2> QED
      BY <2>4, <2>5
  <1> QED
    BY <1>1, <1>2

\* An entity described where nothing is found is in the home.
LEMMA DescribedIn ==
  ASSUME NEW h, Sound(h), NEW e \in Ent, NEW d \in EntityDescription, EntityAccepted(h, e, d),
         d.on # Absent, ~IsFound(h, IdOf[d.on]), NEW g, g = DescribeEntity(h, e, d)
  PROVE  /\ g.entity[e] # Absent /\ g.entity[e].said = d
         /\ g.entity[e].val = IF h.entity[e] # Absent /\ h.entity[e].val \in d.fits
                              THEN h.entity[e].val ELSE Absent
  <1>1. CASE ~EntityAccepted(h, e, d) /\ g = h
    BY <1>1
  <1>2. CASE /\ d.on # Absent /\ IsFound(h, IdOf[d.on])
             /\ g.entity = h.entity /\ g.foundOf = [h.foundOf EXCEPT ![e] = IdOf[d.on]]
             /\ g.found[IdOf[d.on]] = [h.found[IdOf[d.on]] EXCEPT !.ents = [@ EXCEPT ![e] = d]]
             /\ \A j \in Id : j # IdOf[d.on] => g.found[j] = h.found[j]
    BY <1>2
  <1>3. CASE /\ g.entity[e] # Absent /\ g.entity[e].said = d
             /\ g.entity[e].val = IF h.entity[e] # Absent /\ h.entity[e].val \in d.fits
                                  THEN h.entity[e].val ELSE Absent
    BY <1>3
  <1> QED
    BY <1>1, <1>2, <1>3, DescribeEntityIs

\* admit, of the values: each entity has the value last reported, unless it does
\* not fit any more.
LEMMA AdmitFaithful ==
  ASSUME InOnePlace, NoneThrough, OneHandleEach,
         NEW h, Sound(h), Added(h), Settled(h), Named(h),
         NEW l \in [Ent -> Val \cup {Absent}], Faithful(h, l),
         NEW i \in Id, IsFound(h, i), i \in h.added, NEW g, g = Admit(h, i)
  PROVE  Faithful(g, FittingOf(g, l))
  <1> PICK f : f = h.found[i]
    OBVIOUS
  <1> PICK un : un = Unfound(h, i)
    OBVIOUS
  <1> PICK in : in = DescribeDevice(un, f.said)
    OBVIOUS
  <1> PICK de : de = DescribeAll(in, f)
    OBVIOUS
  <1> PICK re : re = Replay(de, f)
    OBVIOUS
  <1> PICK m : m = FittingOf(g, l)
    OBVIOUS
  <1>0. /\ h \in Home /\ f \in FoundEntry /\ f.said \in DeviceDescription /\ IdOf[f.said.u] = i
        /\ f.said.u \in Dev /\ i # Absent /\ ~InHome(h, i)
        /\ f.ents \in [Ent -> EntityDescription \cup {Absent}] /\ Heard(f, l)
    BY EntryOK, SaidOK DEF Sound, Named, Apart, Faithful, AllHeard
  <1>1. /\ Sound(un) /\ Sound(in) /\ Sound(de) /\ Added(un)
        /\ SameHeld(re, g) /\ SameEntities(re, g)
    BY AdmitIs
  <1>2. /\ SameDevices(h, un) /\ ~IsFound(un, i) /\ un.entity = h.entity
        /\ \A j \in Id : j # i => un.found[j] = h.found[j]
        /\ \A e \in Ent : un.foundOf[e] = IF f.ents[e] # Absent THEN Absent ELSE h.foundOf[e]
    BY <1>0, UnfoundIs
  <1>3. /\ InHome(in, i) /\ in.keys[f.said.u] = i /\ in.found = un.found
        /\ in.entity = h.entity /\ in.foundOf = un.foundOf
    <2>1. InHome(in, i) /\ in.keys[f.said.u] = i /\ in.found = un.found
      BY <1>0, <1>1, <1>2, AdmittedIn DEF SameDevices, InHome
    <2> QED
      BY <1>0, <1>1, <1>2, <2>1, DescribeDeviceIs
  <1>4. /\ de \in Home /\ de.found = in.found /\ de.foundOf = in.foundOf
        /\ re.found = de.found /\ re.foundOf = de.foundOf
    BY <1>0, <1>1, DescribeAllIs, ReplayIs DEF Sound
  <1>5. ASSUME NEW e \in Ent, f.ents[e] # Absent
        PROVE  /\ re.entity[e] # Absent
               /\ re.entity[e].val = IF l[e] \in re.entity[e].said.fits THEN l[e] ELSE Absent
               /\ h.foundOf[e] = i
    <2> PICK d \in EntityDescription : d = f.ents[e]
      BY <1>0, <1>5
    <2> PICK k : k = DescribeEntity(in, e, d)
      OBVIOUS
    <2>1. h.foundOf[e] = i /\ h.entity[e] = Absent
      BY <1>0, <1>5 DEF Settled, Agreed
    <2>2. d.on \in Dev /\ d.on = f.said.u
      <3>1. i = PlaceOf(d.on) /\ d.on \in Dev \cup {Absent}
        BY <1>5, SaidOK DEF Settled, Placed
      <3>2. d.on \in Dev /\ IdOf[d.on] = i
        BY <1>0, <3>1 DEF PlaceOf
      <3> QED
        BY <1>0, <3>2 DEF OneHandleEach
    <2>3. ~IsFound(in, i) /\ d.on # Absent /\ IdOf[d.on] = i
      BY <1>0, <1>2, <1>3, <2>2, SaidOK DEF IsFound
    <2>4. EntityAccepted(in, e, d)
      BY <1>0, <1>3, <2>2 DEF EntityAccepted
    <2>5. k.entity[e] # Absent /\ k.entity[e].said = d /\ k.entity[e].val = Absent
      <3>1. in.entity[e] = Absent
        BY <1>3, <2>1
      <3>2. /\ k.entity[e] # Absent /\ k.entity[e].said = d
            /\ k.entity[e].val = IF in.entity[e] # Absent /\ in.entity[e].val \in d.fits
                                 THEN in.entity[e].val ELSE Absent
        BY <1>1, <2>3, <2>4, DescribedIn
      <3> QED
        BY <3>1, <3>2
    <2>6. de.entity[e] = k.entity[e]
      BY <1>0, <1>1, <1>5, DescribeAllIs
    <2>7. de.foundOf[e] = Absent
      BY <1>2, <1>3, <1>4, <1>5
    <2>8. /\ re.entity[e] # Absent /\ re.entity[e].said = d
          /\ f.reports[e] = Absent => re.entity[e].val = Absent
          /\ f.reports[e] # Absent =>
               re.entity[e].val = IF f.reports[e].val \in d.fits
                                  THEN f.reports[e].val ELSE Absent
      <3>1. de.entity[e] # Absent /\ de.entity[e].said = d /\ de.entity[e].val = Absent
        BY <2>5, <2>6
      <3>2. /\ re.entity[e] # Absent /\ re.entity[e].said = de.entity[e].said
            /\ f.reports[e] = Absent => re.entity[e].val = Absent
            /\ f.reports[e] # Absent =>
                 re.entity[e].val = IF f.reports[e].val \in de.entity[e].said.fits
                                   THEN f.reports[e].val ELSE Absent
        BY <1>0, <1>4, <2>7, <3>1, ReplayedIs
      <3> QED
        BY <3>1, <3>2
    <2>9. l[e] = IF f.reports[e] = Absent THEN Absent ELSE f.reports[e].val
      BY <1>0, <1>5 DEF Heard
    <2> QED
      BY <2>1, <2>8, <2>9
  <1>6. ASSUME NEW e \in Ent, f.ents[e] = Absent
        PROVE  re.entity[e] = h.entity[e] /\ re.foundOf[e] = h.foundOf[e]
    <2>1. f.reports[e] = Absent
      BY <1>0, <1>6 DEF Heard
    <2>2. re.entity[e] = de.entity[e] /\ de.entity[e] = in.entity[e]
      BY <1>0, <1>1, <1>4, <1>6, <2>1, DescribeAllIs, ReplayIs
    <2> QED
      BY <1>2, <1>3, <1>4, <1>6, <2>2
  <1>7. \A e \in Ent : /\ g.entity[e] = Absent <=> re.entity[e] = Absent
                       /\ re.entity[e] # Absent => /\ g.entity[e].said = re.entity[e].said
                                                   /\ g.entity[e].val = re.entity[e].val
                       /\ g.foundOf[e] = re.foundOf[e]
    BY <1>1 DEF SameEntities, SameHeld
  <1>8. \A e \in Ent : m[e] = IF g.entity[e] # Absent /\ l[e] \notin g.entity[e].said.fits
                              THEN Absent ELSE l[e]
    BY DEF FittingOf
  <1>9. ASSUME NEW e \in Ent, f.ents[e] = Absent
        PROVE  m[e] = l[e]
    BY <1>6, <1>7, <1>8, <1>9 DEF Faithful, Current
  <1>10. Current(g, m)
    <2>1. ASSUME NEW e \in Ent, g.entity[e] # Absent
          PROVE  g.entity[e].val = m[e] /\ (m[e] = Absent \/ m[e] \in g.entity[e].said.fits)
      <3>1. CASE f.ents[e] = Absent
        BY <1>6, <1>7, <1>9, <2>1, <3>1 DEF Faithful, Current
      <3>2. CASE f.ents[e] # Absent
        BY <1>5, <1>7, <1>8, <2>1, <3>2
      <3> QED
        BY <3>1, <3>2
    <2> QED
      BY <2>1 DEF Current
  <1>11. Dropped(g, m)
    BY <1>5, <1>6, <1>7, <1>9 DEF Faithful, Dropped
  <1>12. ASSUME NEW j \in Id, IsFound(g, j)
         PROVE  Heard(g.found[j], m)
    <2>1. /\ IsFound(un, j) /\ g.found[j].ents = un.found[j].ents
          /\ g.found[j].reports = un.found[j].reports
      BY <1>1, <1>3, <1>4, <1>12 DEF SameHeld, IsFound
    <2>2. j # i /\ IsFound(h, j) /\ un.found[j] = h.found[j]
      BY <1>2, <2>1 DEF IsFound
    <2>3. Heard(h.found[j], l)
      BY <2>2 DEF Faithful, AllHeard
    <2>4. \A e \in Ent : h.found[j].ents[e] # Absent => f.ents[e] = Absent
      <3>1. ASSUME NEW e \in Ent, h.found[j].ents[e] # Absent
            PROVE  f.ents[e] = Absent
        <4>1. h.foundOf[e] = j
          BY <2>2, <3>1 DEF Settled, Agreed
        <4> QED
          BY <1>5, <2>2, <4>1
      <3> QED
        BY <3>1
    <2> QED
      BY <1>9, <2>1, <2>2, <2>3, <2>4 DEF Heard
  <1> QED
    BY <1>10, <1>11, <1>12 DEF Faithful, AllHeard

\* Devices that are in the home or found are so still.
LEMMA StillThere ==
  ASSUME NEW h, NEW g, NEW us \in SUBSET Dev, There(h, us),
         \A j \in Id : InHome(h, j) \/ IsFound(h, j) => InHome(g, j) \/ IsFound(g, j)
  PROVE  There(g, us)
  BY SaidOK DEF There

\* A row of devices.toml more or less changes nothing of what was said.
LEMMA RowNamed ==
  ASSUME NEW h, Sound(h), Named(h), NEW s \in SUBSET Id, NEW g, g = WithRows(h, s)
  PROVE  /\ Named(g)
         /\ \A j \in Id : InHome(h, j) \/ IsFound(h, j) => InHome(g, j) \/ IsFound(g, j)
  <1>1. g.device = h.device /\ g.found = h.found
    BY RowIs
  <1> QED
    BY <1>1 DEF Named, InHome, IsFound

\* A row more or less changes nothing of the values either.
LEMMA RowFaithful ==
  ASSUME NEW h, Sound(h), NEW s \in SUBSET Id, NEW g, g = WithRows(h, s), NEW l, Faithful(h, l)
  PROVE  Faithful(g, l)
  <1>1. g.entity = h.entity /\ g.found = h.found /\ g.foundOf = h.foundOf
    BY RowIs
  <1> QED
    BY <1>1 DEF Faithful, Current, AllHeard, Dropped, IsFound

\* Operations that leave the devices and what was said of them as they are.
LEMMA SameNamed ==
  ASSUME NEW h, Named(h), NEW g, SameDevices(h, g),
         \A j \in Id : IsFound(h, j) => IsFound(g, j) /\ g.found[j].said = h.found[j].said
  PROVE  /\ Named(g)
         /\ \A j \in Id : InHome(h, j) \/ IsFound(h, j) => InHome(g, j) \/ IsFound(g, j)
  <1>1. \A j : InHome(g, j) <=> InHome(h, j)
    BY DEF SameDevices, InHome
  <1>2. \A j \in Id : IsFound(g, j) => IsFound(h, j) /\ g.found[j].said = h.found[j].said
    BY DEF SameDevices
  <1>3. g.device = h.device
    BY DEF SameDevices
  <1>4. Named(g)
    BY <1>1, <1>2, <1>3, NamedFewer
  <1> QED
    BY <1>1, <1>4

\* describe_entity leaves the devices as they are, and what was said of them.
LEMMA DescribeEntityNamed ==
  ASSUME NEW h, Sound(h), Named(h), NEW e \in Ent, NEW d \in EntityDescription,
         NEW g, g = DescribeEntity(h, e, d)
  PROVE  /\ Named(g)
         /\ \A j \in Id : InHome(h, j) \/ IsFound(h, j) => InHome(g, j) \/ IsFound(g, j)
  <1>1. h \in Home /\ SameDevices(h, g)
    BY DescribeEntityIs DEF Sound
  <1>2. CASE g = h
    BY <1>2
  <1>3. CASE /\ d.on # Absent /\ IsFound(h, IdOf[d.on])
             /\ g.entity = h.entity /\ g.foundOf = [h.foundOf EXCEPT ![e] = IdOf[d.on]]
             /\ g.found[IdOf[d.on]] = [h.found[IdOf[d.on]] EXCEPT !.ents = [@ EXCEPT ![e] = d]]
             /\ \A j \in Id : j # IdOf[d.on] => g.found[j] = h.found[j]
    <2>1. ASSUME NEW j \in Id, IsFound(h, j), j = IdOf[d.on]
          PROVE  IsFound(g, j) /\ g.found[j].said = h.found[j].said
      <3>1. h.found[j] \in FoundEntry
        BY <1>1, <2>1, EntryOK
      <3>2. g.found[j] \in FoundEntry /\ g.found[j].said = h.found[j].said
        <4>1. [h.found[j].ents EXCEPT ![e] = d] \in [Ent -> EntityDescription \cup {Absent}]
          BY <3>1 DEF FoundEntry
        <4> QED
          BY <1>3, <2>1, <3>1, <4>1 DEF FoundEntry
      <3> QED
        BY <3>2, AbsentAssumption DEF IsFound
    <2>2. \A j \in Id : IsFound(h, j) => IsFound(g, j) /\ g.found[j].said = h.found[j].said
      BY <1>3, <2>1 DEF IsFound
    <2> QED
      BY <1>1, <2>2, SameNamed
  <1>4. CASE /\ d.on # Absent => InHome(h, IdOf[d.on]) /\ ~IsFound(h, IdOf[d.on])
             /\ g.found = h.found /\ g.foundOf = h.foundOf
    <2>1. \A j \in Id : IsFound(h, j) => IsFound(g, j) /\ g.found[j].said = h.found[j].said
      BY <1>4 DEF IsFound
    <2> QED
      BY <1>1, <2>1, SameNamed
  <1> QED
    BY <1>2, <1>3, <1>4, DescribeEntityIs

\* report_state leaves the devices as they are, and what was said of them.
LEMMA ReportStateNamed ==
  ASSUME NEW h, Sound(h), Named(h), NEW e \in Ent, NEW v \in Val \cup {Absent},
         NEW g, g = ReportState(h, e, v)
  PROVE  /\ Named(g)
         /\ \A j \in Id : InHome(h, j) \/ IsFound(h, j) => InHome(g, j) \/ IsFound(g, j)
  <1>1. h \in Home /\ SameDevices(h, g)
    BY ReportStateIs DEF Sound
  <1>2. \A j \in Id : IsFound(h, j) => IsFound(g, j) /\ g.found[j].said = h.found[j].said
    <2>1. CASE g.found = h.found
      BY <2>1 DEF IsFound
    <2>2. CASE /\ \A j \in Id : j # h.foundOf[e] => g.found[j] = h.found[j]
               /\ IsFound(h, h.foundOf[e]) =>
                    /\ g.found[h.foundOf[e]] = Reported(h.found[h.foundOf[e]], e, v)
                    /\ IsFound(g, h.foundOf[e])
      <3>1. ASSUME NEW j \in Id, IsFound(h, j), j = h.foundOf[e]
            PROVE  IsFound(g, j) /\ g.found[j].said = h.found[j].said
        BY <1>1, <2>2, <3>1, EntryOK, ReportedOK
      <3> QED
        BY <2>2, <3>1 DEF IsFound
    <2> QED
      BY <1>1, <2>1, <2>2, ReportStateIs
  <1> QED
    BY <1>1, <1>2, SameNamed

\* remove_entity leaves the devices as they are, and what was said of them.
LEMMA RemoveEntityNamed ==
  ASSUME NEW h, Sound(h), Named(h), NEW e \in Ent, NEW g, g = RemoveEntity(h, e)
  PROVE  /\ Named(g)
         /\ \A j \in Id : InHome(h, j) \/ IsFound(h, j) => InHome(g, j) \/ IsFound(g, j)
  <1>1. h \in Home /\ SameDevices(h, g)
    BY RemoveEntityIs DEF Sound
  <1>2. \A j \in Id : IsFound(h, j) => IsFound(g, j) /\ g.found[j].said = h.found[j].said
    <2>1. CASE /\ h.foundOf[e] = Absent /\ g.foundOf = h.foundOf /\ g.found = h.found
               /\ g.entity = [h.entity EXCEPT ![e] = Absent]
      BY <2>1 DEF IsFound
    <2>2. CASE /\ h.foundOf[e] # Absent /\ g.entity = h.entity
               /\ g.foundOf = [h.foundOf EXCEPT ![e] = Absent]
               /\ \A j \in Id : j # h.foundOf[e] => g.found[j] = h.found[j]
               /\ IsFound(h, h.foundOf[e]) =>
                    /\ g.found[h.foundOf[e]] = FoundWithout(h.found[h.foundOf[e]], {e})
                    /\ IsFound(g, h.foundOf[e])
               /\ ~IsFound(h, h.foundOf[e]) => g.found = h.found
      <3>1. ASSUME NEW j \in Id, IsFound(h, j), j = h.foundOf[e]
            PROVE  IsFound(g, j) /\ g.found[j].said = h.found[j].said
        BY <1>1, <2>2, <3>1, EntryOK, FoundWithoutOK
      <3> QED
        BY <2>2, <3>1 DEF IsFound
    <2> QED
      BY <1>1, <2>1, <2>2, RemoveEntityIs
  <1> QED
    BY <1>1, <1>2, SameNamed

\* Every step keeps the devices that were described and not removed.
LEMMA NextNamed ==
  ASSUME NoneThrough, DInv, Named(home), There(home, known), [Next]_vars
  PROVE  Named(home') /\ There(home', known')
  <1> DEFINE Stay(h, g) ==
        \A j \in Id : InHome(h, j) \/ IsFound(h, j) => InHome(g, j) \/ IsFound(g, j)
  <1>0. /\ Sound(home) /\ Added(home) /\ home \in Home /\ known \in SUBSET Dev
    BY DEF DInv, Sound
  <1>a. ASSUME known' \in SUBSET known, Stay(home, home')
        PROVE  There(home', known')
    BY <1>0, <1>a, StillThere DEF There
  <1>b. ASSUME known' = known, SameDevices(home, home'), SameHeld(home, home')
        PROVE  Named(home') /\ There(home', known')
    <2>1. \A j \in Id : IsFound(home, j) =>
                          IsFound(home', j) /\ home'.found[j].said = home.found[j].said
      BY <1>b DEF SameHeld
    <2>2. Named(home') /\ Stay(home, home')
      BY <1>b, <2>1, SameNamed
    <2> QED
      BY <1>a, <1>b, <2>2
  <1>1. ASSUME NEW d \in DeviceDescription, Describe(d)
        PROVE  Named(home') /\ There(home', known')
    <2> DEFINE i == IdOf[d.u]
    <2>1. DeviceAccepted(home, d) /\ home' = DescribeDevice(home, d) /\ known' = known \cup {d.u}
      BY <1>1 DEF Describe
    <2>2. Named(home') /\ \A j \in Id : IsFound(home, j) => IsFound(home', j)
      BY <1>0, <2>1, DescribeDeviceNamed
    <2>3. \A j \in Id : InHome(home, j) => InHome(home', j)
      BY <1>0, <2>1, DescribeDeviceIs
    <2>4. InHome(home', i) \/ IsFound(home', i)
      <3>1. CASE GoesToFound(home, i) /\ IsFound(home', i)
        BY <3>1
      <3>2. CASE InHome(home', i)
        BY <3>2
      <3> QED
        BY <1>0, <2>1, <3>1, <3>2, DescribeDeviceIs
    <2>5. There(home', known)
      BY <1>0, <2>2, <2>3, StillThere
    <2> QED
      BY <2>1, <2>2, <2>4, <2>5 DEF There
  <1>2. ASSUME NEW e \in Ent, NEW d \in EntityDescription, DescribeOn(e, d)
        PROVE  Named(home') /\ There(home', known')
    <2>1. home' = DescribeEntity(home, e, d) /\ known' = known
      BY <1>2 DEF DescribeOn
    <2>2. Named(home') /\ Stay(home, home')
      BY <1>0, <2>1, DescribeEntityNamed
    <2> QED
      BY <1>a, <2>1, <2>2
  <1>3. ASSUME NEW e \in Ent, Remove(e)
        PROVE  Named(home') /\ There(home', known')
    <2>1. home' = RemoveEntity(home, e) /\ known' = known
      BY <1>3 DEF Remove
    <2>2. Named(home') /\ Stay(home, home')
      BY <1>0, <2>1, RemoveEntityNamed
    <2> QED
      BY <1>a, <2>1, <2>2
  <1>4. ASSUME NEW e \in Ent, NEW v \in Val \cup {Absent}, Report(e, v)
        PROVE  Named(home') /\ There(home', known')
    <2>1. home' = ReportState(home, e, v) /\ known' = known
      BY <1>4 DEF Report
    <2>2. Named(home') /\ Stay(home, home')
      BY <1>0, <2>1, ReportStateNamed
    <2> QED
      BY <1>a, <2>1, <2>2
  <1>5. ASSUME NEW u \in Dev, Retire(u)
        PROVE  Named(home') /\ There(home', known')
    <2>1. home' = RemoveDevice(home, u) /\ known' = known \ {v \in Dev : IdOf[v] = IdOf[u]}
      BY <1>5 DEF Retire
    <2>2. /\ Named(home')
          /\ \A j \in Id : j # IdOf[u] => /\ InHome(home, j) => InHome(home', j)
                                          /\ IsFound(home, j) => IsFound(home', j)
      BY <1>0, <2>1, RemoveDeviceNamed
    <2> QED
      BY <1>0, <2>1, <2>2, SaidOK DEF There
  <1>6. ASSUME NEW up \in BOOLEAN, SetAvailability(up)
        PROVE  Named(home') /\ There(home', known')
    <2>1. known' = known /\ SameDevices(home, home') /\ SameHeld(home, home')
      BY <1>0, <1>6, DeviceAvailabilityIs, EntityAvailabilityIs DEF SetAvailability
    <2> QED
      BY <1>b, <2>1
  <1>7. ASSUME NEW i \in Id, AddRow(i)
        PROVE  Named(home') /\ There(home', known')
    <2> PICK s : s = home.added \cup {i}
      OBVIOUS
    <2> PICK h : h = WithRows(home, s)
      OBVIOUS
    <2>1. Sound(h) /\ Added(h) /\ Named(h) /\ i \in h.added /\ Stay(home, h)
      <3>1. s \in SUBSET Id /\ home.added \subseteq s
        BY <1>0, HomeOK
      <3>2. Sound(h) /\ Added(h) /\ h.added = s
        BY <1>0, <3>1, RowIs
      <3>3. Named(h) /\ Stay(home, h)
        BY <1>0, <3>1, RowNamed
      <3> QED
        BY <3>2, <3>3
    <2>2. home' = (IF IsFound(h, i) THEN Admit(h, i) ELSE h) /\ known' = known
      BY <1>7 DEF AddRow, WithRows
    <2>3. CASE IsFound(h, i)
      <3>1. Named(home') /\ Stay(h, home')
        BY <2>1, <2>2, <2>3, AdmitNamed
      <3> QED
        BY <1>a, <2>1, <2>2, <3>1
    <2>4. CASE ~IsFound(h, i)
      BY <1>a, <2>1, <2>2, <2>4
    <2> QED
      BY <2>3, <2>4
  <1>8. ASSUME NEW i \in Id, DropRow(i)
        PROVE  Named(home') /\ There(home', known')
    <2> PICK s : s = home.added \ {i}
      OBVIOUS
    <2> PICK h : h = WithRows(home, s)
      OBVIOUS
    <2>1. Sound(h) /\ Named(h) /\ Stay(home, h)
      <3>1. s \in SUBSET Id
        BY <1>0, HomeOK
      <3> QED
        BY <1>0, <3>1, RowIs, RowNamed
    <2>2. home' = (IF InHome(h, i) THEN Hold(h, i) ELSE h) /\ known' = known
      BY <1>8 DEF DropRow, WithRows
    <2>3. CASE InHome(h, i)
      <3>1. Named(home') /\ Stay(h, home')
        BY <2>1, <2>2, <2>3, HoldNamed
      <3> QED
        BY <1>a, <2>1, <2>2, <3>1
    <2>4. CASE ~InHome(h, i)
      BY <1>a, <2>1, <2>2, <2>4
    <2> QED
      BY <2>3, <2>4
  <1>9. ASSUME NEW i \in Id, Forget(i)
        PROVE  Named(home') /\ There(home', known')
    <2>1. InHome(home, i) /\ home' = Hold(home, i) /\ known' = known
      BY <1>9 DEF Forget
    <2>2. Named(home') /\ Stay(home, home')
      BY <1>0, <2>1, HoldNamed
    <2> QED
      BY <1>a, <2>1, <2>2
  <1>10. CASE Stop
    <2>1. known' = known /\ SameDevices(home, home') /\ SameHeld(home, home')
      BY <1>0, <1>10, MarkUnavailableIs DEF Stop
    <2> QED
      BY <1>b, <2>1
  <1>11. CASE Start
    BY <1>11 DEF Start
  <1>12. CASE RemoveProtocol
    <2>1. known' = {} /\ \A i \in Id : ~InHome(home', i) /\ ~IsFound(home', i)
      BY <1>12 DEF RemoveProtocol, InHome, IsFound, Sound, Home
    <2> QED
      BY <2>1 DEF Named, There
  <1>13. CASE UNCHANGED vars
    BY <1>13 DEF vars
  <1> QED
    BY <1>1, <1>2, <1>3, <1>4, <1>5, <1>6, <1>7, <1>8, <1>9, <1>10, <1>11, <1>12, <1>13 DEF Next

\* Every step keeps the history of what was reported and what the home has of it.
LEMMA NextFaithful ==
  ASSUME InOnePlace, NoneThrough, OneHandleEach, EInv, Named(home), Faithful(home, last),
         EInv', [Next]_vars
  PROVE  Faithful(home', last')
  <1>0. /\ Sound(home) /\ Added(home) /\ Settled(home) /\ home \in Home
        /\ last \in [Ent -> Val \cup {Absent}]
        /\ home' \in Home /\ Settled(home')
    BY DEF EInv, DInv, Sound
  <1>1. ASSUME NEW d \in DeviceDescription, Describe(d)
        PROVE  Faithful(home', last')
    BY <1>0, <1>1, DescribeDeviceFaithful DEF Describe
  <1>2. ASSUME NEW e \in Ent, NEW d \in EntityDescription, d.on \in Hosts[e], DescribeOn(e, d)
        PROVE  Faithful(home', last')
    <2>1. home' = DescribeEntity(home, e, d) /\ last' = FittingOf(home', last)
      BY <1>2 DEF DescribeOn, Fitting, FittingOf
    <2> QED
      BY <1>0, <1>2, <2>1, DescribeEntityFaithful
  <1>3. ASSUME NEW e \in Ent, Remove(e)
        PROVE  Faithful(home', last')
    BY <1>0, <1>3, RemoveEntityFaithful DEF Remove
  <1>4. ASSUME NEW e \in Ent, NEW v \in Val \cup {Absent}, Report(e, v)
        PROVE  Faithful(home', last')
    BY <1>0, <1>4, ReportStateFaithful DEF Report
  <1>5. ASSUME NEW u \in Dev, Retire(u)
        PROVE  Faithful(home', last')
    <2>1. home' = RemoveDevice(home, u) /\ last' = ForgettingOf(home', last)
      BY <1>5 DEF Retire, Forgetting, ForgettingOf
    <2> QED
      BY <1>0, <2>1, RemoveDeviceFaithful
  <1>6. ASSUME NEW up \in BOOLEAN, SetAvailability(up)
        PROVE  Faithful(home', last')
    <2>1. last' = last /\ SameHeld(home, home') /\ SameEntities(home, home')
      BY <1>0, <1>6, DeviceAvailabilityIs, EntityAvailabilityIs DEF SetAvailability
    <2> QED
      BY <2>1, FaithfulSame
  <1>7. ASSUME NEW i \in Id, AddRow(i)
        PROVE  Faithful(home', last')
    <2> PICK s : s = home.added \cup {i}
      OBVIOUS
    <2> PICK h : h = WithRows(home, s)
      OBVIOUS
    <2>1. /\ Sound(h) /\ Added(h) /\ Settled(h) /\ Named(h) /\ i \in h.added
          /\ Faithful(h, last) /\ h.entity = home.entity
      <3>1. s \in SUBSET Id /\ home.added \subseteq s
        BY <1>0, HomeOK
      <3>2. Sound(h) /\ Added(h) /\ h.added = s /\ h.entity = home.entity
        BY <1>0, <3>1, RowIs
      <3>3. Settled(h)
        BY <1>0, <3>1, RowSettled
      <3>4. Named(h) /\ Faithful(h, last)
        BY <1>0, <3>1, RowNamed, RowFaithful
      <3> QED
        BY <3>2, <3>3, <3>4
    <2>2. /\ home' = (IF IsFound(h, i) THEN Admit(h, i) ELSE h)
          /\ last' = FittingOf(home', last)
      BY <1>7 DEF AddRow, WithRows, Fitting, FittingOf
    <2>3. CASE IsFound(h, i)
      BY <1>0, <2>1, <2>2, <2>3, AdmitFaithful
    <2>4. CASE ~IsFound(h, i)
      <3>1. \A e \in Ent : last'[e] = last[e]
        BY <2>1, <2>2, <2>4, FittingKeeps
      <3> QED
        BY <2>1, <2>2, <2>4, <3>1 DEF Faithful, Current, AllHeard, Heard, Dropped
    <2> QED
      BY <2>3, <2>4
  <1>8. ASSUME NEW i \in Id, DropRow(i)
        PROVE  Faithful(home', last')
    <2> PICK s : s = home.added \ {i}
      OBVIOUS
    <2> PICK h : h = WithRows(home, s)
      OBVIOUS
    <2>1. Sound(h) /\ Settled(h) /\ Faithful(h, last)
      <3>1. s \in SUBSET Id
        BY <1>0, HomeOK
      <3> QED
        BY <1>0, <3>1, RowIs, RowSettled, RowFaithful
    <2>2. home' = (IF InHome(h, i) THEN Hold(h, i) ELSE h) /\ last' = last
      BY <1>8 DEF DropRow, WithRows
    <2> QED
      BY <2>1, <2>2, HoldFaithful
  <1>9. ASSUME NEW i \in Id, Forget(i)
        PROVE  Faithful(home', last')
    BY <1>0, <1>9, HoldFaithful DEF Forget
  <1>10. CASE Stop
    <2>1. last' = last /\ SameHeld(home, home') /\ SameEntities(home, home')
      BY <1>0, <1>10, MarkUnavailableIs DEF Stop
    <2> QED
      BY <2>1, FaithfulSame
  <1>11. CASE Start
    BY <1>11 DEF Start
  <1>12. CASE RemoveProtocol
    <2>1. /\ \A i \in Id : ~IsFound(home', i)
          /\ \A e \in Ent : home'.entity[e] = Absent \/ home'.entity[e] = home.entity[e]
          /\ last' = ForgettingOf(home', last)
      <3> PICK g :
            g = HomeWith(home, [u \in Dev |-> Absent], [i \in Id |-> Absent],
                         [e \in Ent |->
                             IF /\ \E i \in Id : InHome(home, i) /\ e \in EntitiesOf(home, i)
                                /\ home.foundOf[e] = Absent
                             THEN Absent ELSE home.entity[e]],
                         [i \in Id |-> Absent], [e \in Ent |-> Absent])
        OBVIOUS
      <3>1. home' = g
        BY <1>12 DEF RemoveProtocol, HomeWith
      <3>2. last' = ForgettingOf(home', last)
        BY <1>12 DEF RemoveProtocol, Forgetting, ForgettingOf
      <3>3. /\ \A i \in Id : ~InHome(g, i) /\ ~IsFound(g, i)
            /\ \A e \in Ent :
                 g.entity[e] = IF /\ \E i \in Id : InHome(home, i) /\ e \in EntitiesOf(home, i)
                                  /\ home.foundOf[e] = Absent
                               THEN Absent ELSE home.entity[e]
        BY <1>0, ProtocolGone
      <3> QED
        BY <3>1, <3>2, <3>3
    <2> QED
      BY <1>0, <2>1, FaithfulFewer
  <1>13. CASE UNCHANGED vars
    BY <1>13 DEF vars
  <1> QED
    BY <1>1, <1>2, <1>3, <1>4, <1>5, <1>6, <1>7, <1>8, <1>9, <1>10, <1>11, <1>12, <1>13 DEF Next

\* The inductive invariant of what comes back: of the devices, and of the values.
NInv == DInv /\ Named(home) /\ There(home, known)
CInv == NInv /\ Settled(home) /\ Faithful(home, last)

\* Nothing was described at first, nor reported.
LEMMA InitCInv == Init => CInv
  <1> SUFFICES ASSUME Init
               PROVE  Named(home) /\ There(home, known) /\ Faithful(home, last)
    BY InitEInv DEF EInv, NInv, CInv
  <1>1. /\ \A e \in Ent : home.entity[e] = Absent /\ last[e] = Absent
        /\ \A i \in Id : ~IsFound(home, i) /\ ~InHome(home, i)
        /\ known = {}
    BY DEF Init, Empty, IsFound, InHome
  <1> QED
    BY <1>1 DEF Named, There, Faithful, Current, AllHeard, Dropped

\* It says what the property says.
LEMMA CInvMeans == (NInv => NothingLost) /\ (CInv => ComesBack)
  BY DEF NInv, CInv, There, Faithful, Current, NothingLost, AsItIsNow, ComesBack

\* When no device is reached through another: a device its protocol described and
\* did not remove is in the home or found, through any order of hold and admit,
\* two handles with one id and entities that move between devices included.
THEOREM NothingForgotten == NoneThrough => (Spec => []NothingLost)
  <1> SUFFICES ASSUME NoneThrough
               PROVE  Spec => []NothingLost
    OBVIOUS
  <1>1. NInv /\ [Next]_vars => NInv'
    BY NextDInv, NextNamed DEF NInv
  <1>2. Init => NInv
    BY InitCInv DEF CInv
  <1>3. NInv => NothingLost
    BY CInvMeans
  <1> QED
    BY <1>1, <1>2, <1>3, PTL DEF Spec

\* When moreover entities stay in one place and every handle has an id of its
\* own: an entity in the home has the value its protocol last reported and the
\* home took, however often its device was taken out and put back in between
\* (hold, report_state, admit).
THEOREM AsLastReported ==
  InOnePlace /\ NoneThrough /\ OneHandleEach => (Spec => []ComesBack)
  <1> SUFFICES ASSUME InOnePlace, NoneThrough, OneHandleEach
               PROVE  Spec => []ComesBack
    OBVIOUS
  <1>1. CInv /\ [Next]_vars => CInv'
    BY NextEInv, NextNamed, NextFaithful DEF EInv, NInv, CInv
  <1> QED
    BY InitCInv, <1>1, CInvMeans, PTL DEF Spec
=============================================================================
