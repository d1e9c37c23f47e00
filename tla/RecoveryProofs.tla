----------------------------- MODULE RecoveryProofs -----------------------------
(***************************************************************************)
(* Proofs about Recovery and the DiscoveryIndexer it extends, for every    *)
(* number of slots, messages, quilts, events and restarts, and every page  *)
(* limit.  The listener never waits for an inspection; that nothing goes   *)
(* missing silently rests on what it has recorded behind its stream, and   *)
(* that a recovery is complete on what lies behind the reader's cursor.    *)
(***************************************************************************)
EXTENDS Recovery, TLAPS, FiniteSetTheorems, SequenceTheorems

(* Between the last checkpoint processed and the one the stream delivers   *)
(* next there is nothing that was not lost.                                *)
PassedAreLost ==
    stream # NotConnected =>
        \A i \in DOMAIN events :
            lastCheckpoint < Checkpoint(i) /\ Checkpoint(i) < stream => i \in lost

IndexerInv ==
    /\ TypeOK
    /\ PassedAreLost
    /\ StoreIsLatest

(* What is archived has an order; the order of a message never changes     *)
(* once it has one.                                                        *)
ArchivedHaveOrder ==
    \A q \in DOMAIN archive : \A m \in Messages :
        archive[q][m] # "absent" => orders[m] > 0

(* What is behind the cursor and active was recovered, or is known to be   *)
(* missed, or shares its order.                                            *)
BehindCursor ==
    \A m \in Messages :
        patches[m] # NoPatch /\ IsActive(m) /\ orders[m] <= cursor =>
            m \in recovered \cup missed \/ Tied(m)

ReaderInv ==
    /\ TypeOK
    /\ ArchivedHaveOrder
    /\ BehindCursor
    /\ RecoveryIsComplete

-----------------------------------------------------------------------------
(* Lemmas about the operators *)

(* What appending does to a sequence. *)
LEMMA Appended ==
    ASSUME NEW S, NEW s \in Seq(S), NEW x \in S
    PROVE  /\ Append(s, x) \in Seq(S)
           /\ Len(Append(s, x)) = Len(s) + 1
           /\ DOMAIN Append(s, x) = DOMAIN s \cup {Len(s) + 1}
           /\ \A i \in DOMAIN s : Append(s, x)[i] = s[i]
           /\ Append(s, x)[Len(s) + 1] = x
BY AppendProperties

(* The inspections under way are finitely many. *)
LEMMA InspectionsFinite ==
    ASSUME TypeOK
    PROVE  /\ IsFiniteSet(inspections)
           /\ InspectionsUnderWay \in Nat
<1>1. DOMAIN events = 1..Len(events) /\ Len(events) \in Nat /\ Slots \in Nat
  BY IndexerAssumption DEF TypeOK
<1>2. IsFiniteSet(DOMAIN events) /\ IsFiniteSet(1..Slots)
  BY <1>1, FS_Interval
<1>3. IsFiniteSet((DOMAIN events) \X (1..Slots))
  BY <1>2, FS_Product
<1>4. IsFiniteSet(inspections)
  BY <1>3, FS_Subset DEF TypeOK
<1> QED
  BY <1>4, FS_CardinalityType DEF InspectionsUnderWay

(* As long as not every slot is taken, an inspection of an event finds a   *)
(* number that is not in use.                                              *)
LEMMA FreshExists ==
    ASSUME TypeOK, InspectionsUnderWay < Slots, NEW i
    PROVE  /\ Fresh(i) \in 1..Slots
           /\ <<i, Fresh(i)>> \notin inspections
<1> DEFINE f == [k \in 1..Slots |-> <<i, k>>]
           T == {t \in inspections : \E k \in 1..Slots : t = <<i, k>>}
<1>1. ASSUME \A k \in 1..Slots : <<i, k>> \in inspections
      PROVE  FALSE
  <2>1. IsFiniteSet(T) /\ Cardinality(T) <= InspectionsUnderWay
    BY InspectionsFinite, FS_Subset DEF InspectionsUnderWay
  <2>2. f \in Injection(1..Slots, T)
    <3>1. f \in [1..Slots -> T]
      BY <1>1
    <3>2. \A a, b \in 1..Slots : f[a] = f[b] => a = b
      OBVIOUS
    <3> QED
      BY <3>1, <3>2 DEF Injection, IsInjective
  <2>3. Cardinality(1..Slots) <= Cardinality(T)
    BY <2>1, <2>2, FS_Injection
  <2>4. Cardinality(1..Slots) = Slots
    BY FS_Interval, IndexerAssumption
  <2>5. Cardinality(T) \in Nat
    BY <2>1, FS_CardinalityType
  <2> QED
    BY <2>1, <2>3, <2>4, <2>5, InspectionsFinite, IndexerAssumption
<1>2. PICK k \in 1..Slots : <<i, k>> \notin inspections
  BY <1>1
<1> QED
  BY <1>2 DEF Fresh

(* A checkpoint starts no more inspections than there are slots free.      *)
LEMMA StartedFitsSlots ==
    ASSUME TypeOK, NEW c
    PROVE  /\ IsFiniteSet(Started(c))
           /\ Cardinality(Started(c)) + InspectionsUnderWay <= Slots
<1> DEFINE Before(i) == {j \in EventsOf(c) : j < i}
           room == Slots - InspectionsUnderWay
           f == [i \in Started(c) |-> Cardinality(Before(i))]
<1>1. IsFiniteSet(EventsOf(c)) /\ EventsOf(c) \subseteq DOMAIN events
  <2>1. DOMAIN events = 1..Len(events) /\ Len(events) \in Nat
    BY DEF TypeOK
  <2>2. IsFiniteSet(DOMAIN events)
    BY <2>1, FS_Interval
  <2> QED
    BY <2>2, FS_Subset DEF EventsOf
<1>2. InspectionsUnderWay \in Nat /\ Slots \in Nat /\ InspectionsUnderWay <= Slots
  BY InspectionsFinite, IndexerAssumption DEF TypeOK
<1>3. \A i \in EventsOf(c) : i \in Nat
  BY <1>1 DEF TypeOK
<1>4. \A i \in EventsOf(c) :
          IsFiniteSet(Before(i)) /\ Cardinality(Before(i)) \in Nat
  BY <1>1, FS_Subset, FS_CardinalityType
<1>5. \A i, j \in EventsOf(c) :
          i < j => Cardinality(Before(i)) < Cardinality(Before(j))
  <2> SUFFICES ASSUME NEW i \in EventsOf(c), NEW j \in EventsOf(c), i < j
               PROVE  Cardinality(Before(i)) < Cardinality(Before(j))
    OBVIOUS
  <2>1. Before(i) \cup {i} \subseteq Before(j)
    BY <1>3
  <2>2. i \notin Before(i)
    BY <1>3
  <2>3. Cardinality(Before(i) \cup {i}) = Cardinality(Before(i)) + 1
    BY <1>4, <2>2, FS_AddElement
  <2>4. Cardinality(Before(i) \cup {i}) <= Cardinality(Before(j))
    BY <1>4, <2>1, FS_Subset
  <2> QED
    BY <1>4, <2>3, <2>4
<1>6. IsFiniteSet(Started(c)) /\ Started(c) \subseteq EventsOf(c)
  BY <1>1, FS_Subset DEF Started
<1>7. \A i \in Started(c) : Cardinality(Before(i)) \in 0..(room - 1)
  BY <1>2, <1>4 DEF Started
<1>8. f \in Injection(Started(c), 0..(room - 1))
  <2>1. f \in [Started(c) -> 0..(room - 1)]
    BY <1>7
  <2>2. \A i, j \in Started(c) : f[i] = f[j] => i = j
    <3> SUFFICES ASSUME NEW i \in Started(c), NEW j \in Started(c), f[i] = f[j]
                 PROVE  i = j
      OBVIOUS
    <3>1. Cardinality(Before(i)) = Cardinality(Before(j))
      OBVIOUS
    <3>2. ~(i < j) /\ ~(j < i)
      BY <1>4, <1>5, <1>6, <3>1
    <3> QED
      BY <1>3, <1>6, <3>2
  <2> QED
    BY <2>1, <2>2 DEF Injection, IsInjective
<1>9. IsFiniteSet(0..(room - 1)) /\ Cardinality(0..(room - 1)) = room
  BY <1>2, FS_Interval
<1>10. Cardinality(Started(c)) <= room
  BY <1>8, <1>9, FS_Injection
<1>11. Cardinality(Started(c)) \in Nat
  BY <1>6, FS_CardinalityType
<1> QED
  BY <1>2, <1>6, <1>10, <1>11

(* The events of so many quilts and checkpoints, as TypeOK has them. *)
Events(quilts, last) == [quilt : 1..quilts, checkpoint : 1..(last + 1)]

LEMMA EventsWiden ==
    ASSUME NEW q \in Nat, NEW q2 \in Nat, q <= q2,
           NEW c \in Nat, NEW c2 \in Nat, c <= c2,
           NEW e \in Seq(Events(q, c))
    PROVE  e \in Seq(Events(q2, c2))
<1>1. Events(q, c) \subseteq Events(q2, c2)
  BY DEF Events
<1> QED
  BY <1>1, SeqMonotonic

(* The archive and the events only grow: what they say of an event stays,  *)
(* an order once given stays, and a message whose patch is archived by the *)
(* step has an order.                                                      *)
LEMMA ArchiveGrows ==
    ASSUME TypeOK, ArchiveNext
    PROVE  /\ archive' \in Seq([Messages -> PatchStates])
           /\ orders' \in [Messages -> 0..MaxOrder]
           /\ events' \in Seq(Events(Len(archive'), sealed'))
           /\ sealed' \in Nat /\ sealed' >= sealed
           /\ DOMAIN archive \subseteq DOMAIN archive'
           /\ DOMAIN events \subseteq DOMAIN events'
           /\ \A q \in DOMAIN archive : archive'[q] = archive[q]
           /\ \A i \in DOMAIN events : events'[i] = events[i]
           /\ \A i \in DOMAIN events' \ DOMAIN events :
                  events'[i].checkpoint = sealed + 1
           /\ \A m \in Messages : orders[m] > 0 => orders'[m] = orders[m]
           /\ \A q \in DOMAIN archive' \ DOMAIN archive : \A m \in Messages :
                  archive'[q][m] # "absent" => orders'[m] > 0
           /\ UNCHANGED indexerVars
<1>1. /\ archive \in Seq([Messages -> PatchStates])
      /\ orders \in [Messages -> 0..MaxOrder]
      /\ events \in Seq(Events(Len(archive), sealed))
      /\ sealed \in Nat
      /\ Len(archive) \in Nat
  BY DEF TypeOK, Events
<1>2. ASSUME NEW quilt \in [Messages -> PatchStates], StoreQuilt(quilt)
      PROVE  /\ archive' \in Seq([Messages -> PatchStates])
             /\ Len(archive') = Len(archive) + 1
             /\ DOMAIN archive \subseteq DOMAIN archive'
             /\ \A q \in DOMAIN archive : archive'[q] = archive[q]
             /\ \A q \in DOMAIN archive' \ DOMAIN archive : archive'[q] = quilt
             /\ orders' \in [Messages -> 0..MaxOrder]
             /\ \A m \in Messages : orders[m] > 0 => orders'[m] = orders[m]
             /\ \A m \in Messages : quilt[m] # "absent" => orders'[m] > 0
             /\ UNCHANGED indexerVars
  <2>1. archive' = Append(archive, quilt) /\ UNCHANGED indexerVars
    BY <1>2 DEF StoreQuilt
  <2>2. /\ orders' \in [Messages -> 0..MaxOrder]
        /\ \A m \in Messages :
               IF orders[m] = 0 /\ quilt[m] # "absent" THEN orders'[m] > 0
               ELSE orders'[m] = orders[m]
    BY <1>2 DEF StoreQuilt
  <2>3. \A m \in Messages : orders[m] \in Nat
    BY <1>1, IndexerAssumption
  <2> QED
    BY <1>1, <2>1, <2>2, <2>3, Appended
<1>3. ASSUME NEW q \in 1..Len(archive'), Certify(q),
             Len(archive') \in Nat, Len(archive') >= Len(archive)
      PROVE  /\ events' \in Seq(Events(Len(archive'), sealed'))
             /\ sealed' = sealed
             /\ DOMAIN events \subseteq DOMAIN events'
             /\ \A i \in DOMAIN events : events'[i] = events[i]
             /\ \A i \in DOMAIN events' \ DOMAIN events :
                    events'[i].checkpoint = sealed + 1
  <2> DEFINE e == [quilt |-> q, checkpoint |-> sealed + 1]
  <2>1. events' = Append(events, e) /\ sealed' = sealed
    BY <1>3 DEF Certify
  <2>2. e \in Events(Len(archive'), sealed) /\ e.checkpoint = sealed + 1
    BY <1>1 DEF Events
  <2>3. events \in Seq(Events(Len(archive'), sealed))
    BY <1>1, <1>3, EventsWiden
  <2> HIDE DEF e
  <2>4. events' \in Seq(Events(Len(archive'), sealed))
    BY <2>1, <2>2, <2>3, Appended
  <2>5. /\ DOMAIN events \subseteq DOMAIN events'
        /\ \A i \in DOMAIN events : events'[i] = events[i]
        /\ \A i \in DOMAIN events' \ DOMAIN events : events'[i] = e
    BY <2>1, <2>2, <2>3, Appended
  <2> QED
    BY <2>1, <2>2, <2>4, <2>5
<1>4. CASE \E quilt \in [Messages -> PatchStates] : StoreQuilt(quilt)
  <2> PICK quilt \in [Messages -> PatchStates] : StoreQuilt(quilt)
    BY <1>4
  <2>1. /\ archive' \in Seq([Messages -> PatchStates])
        /\ Len(archive') = Len(archive) + 1
        /\ DOMAIN archive \subseteq DOMAIN archive'
        /\ \A q \in DOMAIN archive : archive'[q] = archive[q]
        /\ \A q \in DOMAIN archive' \ DOMAIN archive : archive'[q] = quilt
        /\ orders' \in [Messages -> 0..MaxOrder]
        /\ \A m \in Messages : orders[m] > 0 => orders'[m] = orders[m]
        /\ \A m \in Messages : quilt[m] # "absent" => orders'[m] > 0
        /\ UNCHANGED indexerVars
    BY <1>2
  <2>2. Certify(Len(archive) + 1)
    BY DEF StoreQuilt
  <2>3. /\ Len(archive') \in Nat /\ Len(archive') >= Len(archive)
        /\ Len(archive) + 1 \in 1..Len(archive')
    BY <1>1, <2>1
  <2>4. /\ events' \in Seq(Events(Len(archive'), sealed'))
        /\ sealed' = sealed
        /\ DOMAIN events \subseteq DOMAIN events'
        /\ \A i \in DOMAIN events : events'[i] = events[i]
        /\ \A i \in DOMAIN events' \ DOMAIN events :
               events'[i].checkpoint = sealed + 1
    BY <1>3, <2>2, <2>3
  <2> QED
    BY <1>1, <2>1, <2>4
<1>5. CASE \E q \in DOMAIN archive : ExtendQuilt(q)
  <2> PICK q \in DOMAIN archive : ExtendQuilt(q)
    BY <1>5
  <2>1. Certify(q) /\ UNCHANGED <<archive, orders, indexerVars>>
    BY DEF ExtendQuilt
  <2>2. /\ Len(archive') \in Nat /\ Len(archive') >= Len(archive)
        /\ q \in 1..Len(archive')
    BY <1>1, <2>1
  <2>3. /\ events' \in Seq(Events(Len(archive'), sealed'))
        /\ sealed' = sealed
        /\ DOMAIN events \subseteq DOMAIN events'
        /\ \A i \in DOMAIN events : events'[i] = events[i]
        /\ \A i \in DOMAIN events' \ DOMAIN events :
               events'[i].checkpoint = sealed + 1
    BY <1>3, <2>1, <2>2
  <2> QED
    BY <1>1, <2>1, <2>3
<1>6. CASE SealCheckpoint
  <2>1. sealed' = sealed + 1 /\ UNCHANGED <<archive, orders, events, indexerVars>>
    BY <1>6 DEF SealCheckpoint
  <2>2. events' \in Seq(Events(Len(archive'), sealed'))
    BY <1>1, <2>1, EventsWiden
  <2> QED
    BY <1>1, <2>1, <2>2
<1> QED
  BY <1>4, <1>5, <1>6 DEF ArchiveNext

(* What an event refers to. *)
LEMMA EventTypes ==
    ASSUME TypeOK
    PROVE  /\ DOMAIN events \subseteq Nat \ {0}
           /\ \A i \in DOMAIN events :
                  /\ events[i].quilt \in DOMAIN archive
                  /\ Checkpoint(i) = events[i].checkpoint
                  /\ Checkpoint(i) \in 1..(sealed + 1)
           /\ \A m \in Messages : Checkpoint(patches[m]) \in 0..(sealed + 1)
           /\ Checkpoint(NoPatch) = 0
<1>1. /\ DOMAIN archive = 1..Len(archive) /\ DOMAIN events = 1..Len(events)
      /\ Len(archive) \in Nat /\ Len(events) \in Nat
      /\ \A i \in DOMAIN events :
             events[i] \in [quilt : 1..Len(archive), checkpoint : 1..(sealed + 1)]
      /\ sealed \in Nat
  <2>1. /\ archive \in Seq([Messages -> PatchStates])
        /\ events \in Seq([quilt : 1..Len(archive), checkpoint : 1..(sealed + 1)])
        /\ sealed \in Nat
    BY DEF TypeOK
  <2> QED
    BY <2>1, LenProperties, ElementOfSeq
<1>2. \A i \in DOMAIN events :
          /\ events[i].quilt \in DOMAIN archive
          /\ events[i].checkpoint \in 1..(sealed + 1)
  BY <1>1
<1>3. \A i \in DOMAIN events : Checkpoint(i) = events[i].checkpoint
  BY <1>1 DEF Checkpoint, NoPatch
<1>4. \A m \in Messages : patches[m] = NoPatch \/ patches[m] \in DOMAIN events
  BY DEF TypeOK
<1> QED
  BY <1>1, <1>2, <1>3, <1>4 DEF Checkpoint, NoPatch

(* No later upload or certification changes what an event is about. *)
LEMMA ArchiveKeepsEvents ==
    ASSUME TypeOK, ArchiveNext
    PROVE  /\ \A i \in DOMAIN events :
                  /\ i \in DOMAIN events'
                  /\ Quilt(i)' = Quilt(i)
                  /\ PatchesIn(i)' = PatchesIn(i)
           /\ \A i \in DOMAIN events \cup {NoPatch} :
                  Checkpoint(i)' = Checkpoint(i)
           /\ \A i \in DOMAIN events' \ DOMAIN events :
                  Checkpoint(i)' = sealed + 1
<1>1. \A i \in DOMAIN events :
          i \in DOMAIN events' /\ events'[i] = events[i] /\ Quilt(i)' = Quilt(i)
  BY ArchiveGrows, EventTypes DEF Quilt
<1>2. \A i \in DOMAIN events : PatchesIn(i)' = PatchesIn(i)
  BY <1>1 DEF PatchesIn
<1>3. \A i \in DOMAIN events \cup {NoPatch} : Checkpoint(i)' = Checkpoint(i)
  BY <1>1 DEF Checkpoint
<1>4. \A i \in DOMAIN events' \ DOMAIN events : Checkpoint(i)' = sealed + 1
  <2>1. DOMAIN events' = 1..Len(events')
    BY ArchiveGrows
  <2> QED
    BY <2>1, ArchiveGrows DEF Checkpoint, NoPatch
<1> QED
  BY <1>1, <1>2, <1>3, <1>4

(* addDiscovery never replaces a patch by an earlier one, and leaves no    *)
(* earlier one for a message it was given.                                 *)
LEMMA DiscoveryAdvances ==
    ASSUME TypeOK, NEW i \in DOMAIN events, NEW found \in SUBSET PatchesIn(i)
    PROVE  /\ AddDiscovery(i, found) \in [Messages -> {NoPatch} \cup DOMAIN events]
           /\ \A m \in Messages :
                  /\ Checkpoint(AddDiscovery(i, found)[m]) >= Checkpoint(patches[m])
                  /\ m \in found =>
                         Checkpoint(AddDiscovery(i, found)[m]) >= Checkpoint(i)
                  /\ \/ AddDiscovery(i, found)[m] = patches[m]
                     \/ AddDiscovery(i, found)[m] = i /\ m \in found
<1>1. Checkpoint(i) \in Int /\ \A m \in Messages : Checkpoint(patches[m]) \in Int
  BY EventTypes DEF TypeOK
<1>2. \A m \in Messages :
          AddDiscovery(i, found)[m] =
              IF m \in found /\ Checkpoint(i) > Checkpoint(patches[m]) THEN i
              ELSE patches[m]
  BY DEF AddDiscovery
<1>3. AddDiscovery(i, found) \in [Messages -> {NoPatch} \cup DOMAIN events]
  BY DEF AddDiscovery, TypeOK
<1> QED
  BY <1>1, <1>2, <1>3

-----------------------------------------------------------------------------
(* Types *)

LEMMA InitTypes == Init => TypeOK /\ DOMAIN archive = {} /\ DOMAIN events = {}
<1> SUFFICES ASSUME Init PROVE TypeOK /\ DOMAIN archive = {} /\ DOMAIN events = {}
  OBVIOUS
<1>1. /\ archive = <<>> /\ events = <<>> /\ sealed = 0 /\ stream = 0
      /\ inspections = {} /\ lastCheckpoint = 0 /\ restarts = 0 /\ lost = {}
      /\ orders = [m \in Messages |-> 0] /\ patches = [m \in Messages |-> NoPatch]
      /\ cursor = 0 /\ hasNext = TRUE /\ recovered = {} /\ missed = {}
  BY DEF Init, IndexerInit, NotConnected
<1>2. InspectionsUnderWay = 0
  BY <1>1, FS_EmptySet DEF InspectionsUnderWay
<1> QED
  BY <1>1, <1>2, IndexerAssumption DEF TypeOK

LEMMA ArchiveTypes == TypeOK /\ ArchiveNext /\ UNCHANGED readerVars => TypeOK'
<1> SUFFICES ASSUME TypeOK, ArchiveNext, UNCHANGED readerVars PROVE TypeOK'
  OBVIOUS
<1>1. /\ UNCHANGED <<stream, inspections, lastCheckpoint, patches, restarts, lost>>
      /\ UNCHANGED <<cursor, hasNext, recovered, missed>>
      /\ InspectionsUnderWay' = InspectionsUnderWay
  BY ArchiveGrows DEF indexerVars, readerVars, InspectionsUnderWay
<1>2. /\ archive' \in Seq([Messages -> PatchStates])
      /\ orders' \in [Messages -> 0..MaxOrder]
      /\ events' \in Seq([quilt : 1..Len(archive'), checkpoint : 1..(sealed' + 1)])
      /\ sealed' \in Nat /\ sealed' >= sealed
  BY ArchiveGrows DEF Events
<1>3. stream' \in 0..(sealed' + 1) /\ lastCheckpoint' \in 0..sealed'
  <2>1. sealed \in Nat /\ stream \in 0..(sealed + 1) /\ lastCheckpoint \in 0..sealed
    BY DEF TypeOK
  <2>2. stream' = stream /\ lastCheckpoint' = lastCheckpoint
    BY <1>1
  <2>3. sealed' \in Nat /\ sealed' >= sealed
    BY <1>2
  <2>4. \A a, b \in Nat : \A c \in 0..(a + 1), d \in 0..a :
            b >= a => c \in 0..(b + 1) /\ d \in 0..b
    OBVIOUS
  <2>5. stream \in 0..(sealed' + 1) /\ lastCheckpoint \in 0..sealed'
    BY <2>1, <2>3, <2>4
  <2> QED
    BY <2>2, <2>5
<1>4. /\ inspections' \subseteq (DOMAIN events') \X (1..Slots)
      /\ patches' \in [Messages -> {NoPatch} \cup DOMAIN events']
      /\ lost' \subseteq DOMAIN events'
  BY <1>1, ArchiveGrows DEF TypeOK
<1>5. \A m \in Messages : patches'[m] # NoPatch => m \in PatchesIn(patches[m])'
  BY <1>1, ArchiveKeepsEvents DEF TypeOK
<1> QED
  BY <1>1, <1>2, <1>3, <1>4, <1>5 DEF TypeOK

(* DeliverCheckpoint takes no more slots than there are free, each with an *)
(* inspection of its own.                                                  *)
LEMMA DeliverTypes ==
    ASSUME TypeOK, DeliverCheckpoint
    PROVE  /\ inspections' \subseteq (DOMAIN events) \X (1..Slots)
           /\ InspectionsUnderWay' <= Slots
           /\ \A i \in Started(stream) : IsInspected(i)'
<1> DEFINE new == {<<i, Fresh(i)>> : i \in Started(stream)}
           f == [t \in new |-> t[1]]
<1>1. inspections' = inspections \cup new
  BY DEF DeliverCheckpoint
<1>2. Started(stream) \subseteq DOMAIN events
  BY DEF Started, EventsOf
<1>3. \A i \in Started(stream) : /\ Fresh(i) \in 1..Slots
                                 /\ <<i, Fresh(i)>> \notin inspections
  <2> SUFFICES ASSUME NEW i \in Started(stream)
               PROVE  InspectionsUnderWay < Slots
    BY FreshExists
  <2> DEFINE before == {j \in EventsOf(stream) : j < i}
  <2>1. before \subseteq DOMAIN events
    BY DEF EventsOf
  <2>2. IsFiniteSet(DOMAIN events)
    BY FS_Interval DEF TypeOK
  <2>3. Cardinality(before) \in Nat
    BY <2>1, <2>2, FS_Subset, FS_CardinalityType
  <2>4. Cardinality(before) + InspectionsUnderWay < Slots
    BY DEF Started
  <2> QED
    BY <2>3, <2>4, InspectionsFinite, IndexerAssumption
<1>4. f \in Injection(new, Started(stream))
  <2>1. f \in [new -> Started(stream)]
    OBVIOUS
  <2>2. \A a, b \in new : f[a] = f[b] => a = b
    OBVIOUS
  <2> QED
    BY <2>1, <2>2 DEF Injection, IsInjective
<1>5. /\ IsFiniteSet(new) /\ Cardinality(new) <= Cardinality(Started(stream))
      /\ Cardinality(new) \in Nat /\ Cardinality(Started(stream)) \in Nat
  BY <1>4, StartedFitsSlots, FS_Injection, FS_CardinalityType
<1>6. inspections \cap new = {}
  BY <1>3
<1>7. Cardinality(inspections \cup new) =
          Cardinality(inspections) + Cardinality(new)
  <2>1. IsFiniteSet(inspections) /\ Cardinality(inspections) \in Nat
    BY InspectionsFinite, FS_CardinalityType
  <2>2. Cardinality(inspections \cup new) =
            Cardinality(inspections) + Cardinality(new)
                - Cardinality(inspections \cap new)
    BY <1>5, <2>1, FS_Union
  <2>3. Cardinality(inspections \cap new) = 0
    BY <1>6, FS_EmptySet
  <2> QED
    BY <1>5, <2>1, <2>2, <2>3
<1>8. InspectionsUnderWay' <= Slots
  BY <1>1, <1>5, <1>7, StartedFitsSlots, InspectionsFinite, IndexerAssumption
     DEF InspectionsUnderWay
<1>9. inspections' \subseteq (DOMAIN events) \X (1..Slots)
  BY <1>1, <1>2, <1>3 DEF TypeOK
<1>10. \A i \in Started(stream) : IsInspected(i)'
  BY <1>1, <1>3 DEF IsInspected
<1> QED
  BY <1>8, <1>9, <1>10

LEMMA ListenerTypes == TypeOK /\ ListenerNext /\ UNCHANGED readerVars => TypeOK'
<1> SUFFICES ASSUME TypeOK, ListenerNext, UNCHANGED readerVars PROVE TypeOK'
  OBVIOUS
<1> USE DEF readerVars
<1>1. \A i : PatchesIn(i)' = PatchesIn(i) /\ UNCHANGED chainVars
  BY DEF ListenerNext, Connect, Disconnect, DeliverCheckpoint, SkipCheckpoint,
         Restart, chainVars,
         PatchesIn, Quilt
<1>2. UNCHANGED <<archive, orders, events, sealed>> /\ sealed \in Nat
  BY <1>1 DEF chainVars, TypeOK
<1>3. CASE \E c \in 1..(sealed + 1) : Connect(c)
  <2>1. /\ UNCHANGED <<inspections, lastCheckpoint, patches, restarts>>
        /\ stream' \in 0..(sealed + 1)
        /\ lost' \subseteq DOMAIN events
    BY <1>2, <1>3 DEF Connect, TypeOK
  <2>2. InspectionsUnderWay' = InspectionsUnderWay
    BY <2>1 DEF InspectionsUnderWay
  <2> QED
    BY <1>1, <1>2, <2>1, <2>2 DEF TypeOK
<1>4. CASE Disconnect
  <2>1. /\ UNCHANGED <<inspections, lastCheckpoint, patches, restarts, lost>>
        /\ stream' \in 0..(sealed + 1)
    BY <1>2, <1>4 DEF Disconnect, NotConnected
  <2>2. InspectionsUnderWay' = InspectionsUnderWay
    BY <2>1 DEF InspectionsUnderWay
  <2> QED
    BY <1>1, <1>2, <2>1, <2>2 DEF TypeOK
<1>5. CASE DeliverCheckpoint
  <2>1. /\ UNCHANGED <<patches, restarts>>
        /\ stream' \in 0..(sealed + 1) /\ lastCheckpoint' \in 0..sealed
        /\ lost' \subseteq DOMAIN events
    BY <1>2, <1>5 DEF DeliverCheckpoint, TypeOK, EventsOf
  <2> QED
    BY <1>1, <1>2, <1>5, <2>1, DeliverTypes DEF TypeOK
<1>6. CASE Restart
  <2>1. /\ stream' = 0 /\ inspections' = {} /\ lastCheckpoint' = 0
        /\ patches' = [m \in Messages |-> NoPatch] /\ lost' = lost
        /\ restarts' \in 0..MaxRestarts
    BY <1>6, IndexerAssumption DEF Restart, NotConnected, TypeOK
  <2>2. InspectionsUnderWay' <= Slots
    BY <2>1, FS_EmptySet, IndexerAssumption DEF InspectionsUnderWay
  <2>3. stream' \in 0..(sealed + 1) /\ lastCheckpoint' \in 0..sealed
    BY <1>2, <2>1
  <2> QED
    BY <1>1, <1>2, <2>1, <2>2, <2>3 DEF TypeOK
<1>7. CASE SkipCheckpoint
  <2>1. /\ UNCHANGED <<inspections, lastCheckpoint, patches, restarts>>
        /\ stream' \in 0..(sealed + 1)
        /\ lost' \subseteq DOMAIN events
    BY <1>2, <1>7 DEF SkipCheckpoint, TypeOK, EventsOf
  <2>2. InspectionsUnderWay' = InspectionsUnderWay
    BY <2>1 DEF InspectionsUnderWay
  <2> QED
    BY <1>1, <1>2, <2>1, <2>2 DEF TypeOK
<1> QED
  BY <1>3, <1>4, <1>5, <1>6, <1>7 DEF ListenerNext

LEMMA InspectTypes ==
    ASSUME TypeOK, NEW i \in DOMAIN events, NEW k \in 1..Slots,
           NEW found \in SUBSET PatchesIn(i), Inspect(i, k, found)
    PROVE  TypeOK'
<1>1. /\ UNCHANGED <<chainVars, stream, lastCheckpoint, restarts>>
      /\ UNCHANGED <<cursor, hasNext, recovered>>
      /\ inspections' = inspections \ {<<i, k>>}
      /\ patches' = AddDiscovery(i, found)
      /\ lost' \subseteq lost \cup {i}
      /\ missed' \subseteq missed \cup found
  BY DEF Inspect, EndInspection
<1>2. UNCHANGED <<archive, orders, events, sealed>>
  BY <1>1 DEF chainVars
<1>3. \A j : PatchesIn(j)' = PatchesIn(j)
  BY <1>2 DEF PatchesIn, Quilt
<1>4. InspectionsUnderWay' <= Slots
  <2>1. inspections' \in SUBSET inspections
    BY <1>1
  <2>2. Cardinality(inspections') <= Cardinality(inspections)
    BY <2>1, InspectionsFinite, FS_Subset
  <2>3. Cardinality(inspections') \in Nat /\ Cardinality(inspections) \in Nat
    BY <2>1, InspectionsFinite, FS_Subset, FS_CardinalityType
  <2>4. Cardinality(inspections) <= Slots
    BY DEF TypeOK, InspectionsUnderWay
  <2> QED
    BY <2>2, <2>3, <2>4, IndexerAssumption DEF InspectionsUnderWay
<1>5. \A m \in Messages : patches'[m] # NoPatch => m \in PatchesIn(patches'[m])
  <2> SUFFICES ASSUME NEW m \in Messages, patches'[m] # NoPatch
               PROVE  m \in PatchesIn(patches'[m])
    OBVIOUS
  <2>1. patches[m] # NoPatch => m \in PatchesIn(patches[m])
    BY DEF TypeOK
  <2>2. patches'[m] = patches[m] \/ (patches'[m] = i /\ m \in found)
    BY <1>1, DiscoveryAdvances
  <2> QED
    BY <2>1, <2>2
<1>6. found \subseteq Messages
  BY DEF PatchesIn
<1> QED
  BY <1>1, <1>2, <1>3, <1>4, <1>5, <1>6, DiscoveryAdvances DEF TypeOK

LEMMA RecoverTypes ==
    ASSUME TypeOK, NEW page \in SUBSET Messages, NEW read \in SUBSET page,
           Recover(page, read)
    PROVE  TypeOK'
<1>1. /\ UNCHANGED <<archive, orders, events, sealed>>
      /\ UNCHANGED <<stream, inspections, lastCheckpoint, patches, restarts, lost>>
      /\ recovered' \subseteq recovered \cup page
      /\ missed' \subseteq missed \cup page
      /\ hasNext' \in BOOLEAN
  BY DEF Recover, chainVars, indexerVars, HasMore
<1>2. cursor' = cursor \/ \E last \in read : cursor' = orders[last]
  BY DEF Recover
<1>3. cursor' \in 0..MaxOrder
  BY <1>2 DEF TypeOK
<1>4. \A i : PatchesIn(i)' = PatchesIn(i)
  BY <1>1 DEF PatchesIn, Quilt
<1>5. InspectionsUnderWay' = InspectionsUnderWay
  BY <1>1 DEF InspectionsUnderWay
<1> QED
  BY <1>1, <1>3, <1>4, <1>5 DEF TypeOK

LEMMA StutterTypes == TypeOK /\ UNCHANGED vars => TypeOK'
<1> SUFFICES ASSUME TypeOK, UNCHANGED vars PROVE TypeOK'
  OBVIOUS
<1>1. /\ UNCHANGED <<archive, orders, events, sealed>>
      /\ UNCHANGED <<stream, inspections, lastCheckpoint, patches, restarts, lost>>
      /\ UNCHANGED readerVars
  BY DEF vars, chainVars, indexerVars
<1>2. \A i : PatchesIn(i)' = PatchesIn(i)
  BY <1>1 DEF PatchesIn, Quilt
<1>3. InspectionsUnderWay' = InspectionsUnderWay
  BY <1>1 DEF InspectionsUnderWay
<1> QED
  BY <1>1, <1>2, <1>3 DEF TypeOK, readerVars

LEMMA NextTypes == TypeOK /\ [Next]_vars => TypeOK'
BY ArchiveTypes, ListenerTypes, InspectTypes, RecoverTypes, StutterTypes
   DEF Next, ReaderNext

(* Types: for every number of slots there are never more inspections under *)
(* way than slots, each of them of an event of its own or told apart by    *)
(* its number, and the store keeps for a message a patch of that message   *)
(* (checkpoint-listener.ts, discovery-store.ts).                           *)
THEOREM TypesHold == Spec => []TypeOK
<1>1. Init => TypeOK
  BY InitTypes
<1> QED
  BY <1>1, NextTypes, PTL DEF Spec

-----------------------------------------------------------------------------
(* The store *)

LEMMA InitStore == Init => PassedAreLost /\ StoreIsLatest
BY InitTypes DEF Init, IndexerInit, PassedAreLost, StoreIsLatest

LEMMA ArchiveStore ==
    ASSUME IndexerInv, ArchiveNext
    PROVE  PassedAreLost' /\ StoreIsLatest'
<1>1. TypeOK /\ PassedAreLost /\ StoreIsLatest
  BY DEF IndexerInv
<1>2. /\ stream' = stream /\ inspections' = inspections
      /\ lastCheckpoint' = lastCheckpoint /\ patches' = patches /\ lost' = lost
  BY <1>1, ArchiveGrows DEF indexerVars
<1>3. sealed \in Nat /\ lastCheckpoint \in 0..sealed /\ stream \in 0..(sealed + 1)
  BY <1>1 DEF TypeOK
<1>4. /\ \A i \in DOMAIN events :
             /\ i \in DOMAIN events'
             /\ Checkpoint(i)' = Checkpoint(i)
             /\ PatchesIn(i)' = PatchesIn(i)
             /\ IsInspected(i)' = IsInspected(i)
      /\ \A i \in DOMAIN events' \ DOMAIN events :
             Checkpoint(i)' > lastCheckpoint /\ Checkpoint(i)' >= stream
      /\ \A m \in Messages : Checkpoint(patches[m])' = Checkpoint(patches[m])
  <2>1. \A m \in Messages : patches[m] \in DOMAIN events \cup {NoPatch}
    BY <1>1 DEF TypeOK
  <2> QED
    BY <1>1, <1>2, <1>3, <2>1, ArchiveKeepsEvents DEF IsInspected
<1>5. \A i \in DOMAIN events' : Checkpoint(i)' \in Int
  BY <1>1, <1>3, <1>4, ArchiveKeepsEvents, EventTypes
<1>6. PassedAreLost'
  <2> SUFFICES ASSUME stream' # NotConnected, NEW i \in DOMAIN events',
                      lastCheckpoint' < Checkpoint(i)', Checkpoint(i)' < stream'
               PROVE  i \in lost'
    BY DEF PassedAreLost
  <2>1. i \in DOMAIN events
    BY <1>2, <1>3, <1>4, <1>5
  <2> QED
    BY <1>1, <1>2, <1>4, <2>1 DEF PassedAreLost
<1>7. StoreIsLatest'
  <2> SUFFICES ASSUME NEW i \in DOMAIN events' \ lost',
                      Checkpoint(i)' <= lastCheckpoint', ~IsInspected(i)',
                      NEW m \in PatchesIn(i)'
               PROVE  Checkpoint(patches[m])' >= Checkpoint(i)'
    BY DEF StoreIsLatest
  <2>1. i \in DOMAIN events
    BY <1>2, <1>3, <1>4, <1>5
  <2>2. m \in PatchesIn(i) /\ m \in Messages /\ Checkpoint(patches[m]) >= Checkpoint(i)
    BY <1>1, <1>2, <1>4, <2>1 DEF StoreIsLatest, PatchesIn
  <2> QED
    BY <1>4, <2>1, <2>2
<1> QED
  BY <1>6, <1>7

LEMMA ListenerStore ==
    ASSUME IndexerInv, ListenerNext
    PROVE  PassedAreLost' /\ StoreIsLatest'
<1>1. TypeOK /\ PassedAreLost /\ StoreIsLatest
  BY DEF IndexerInv
<1>2. \A i : Checkpoint(i)' = Checkpoint(i) /\ PatchesIn(i)' = PatchesIn(i)
      /\ events' = events
  BY DEF ListenerNext, Connect, Disconnect, DeliverCheckpoint, SkipCheckpoint,
         Restart, chainVars,
         PatchesIn, Quilt, Checkpoint
<1>3. sealed \in Nat /\ lastCheckpoint \in 0..sealed /\ stream \in 0..(sealed + 1)
  BY <1>1 DEF TypeOK
<1>4. /\ \A i \in DOMAIN events : Checkpoint(i) \in 1..(sealed + 1)
      /\ \A i \in DOMAIN events : PatchesIn(i) \subseteq Messages
  BY <1>1, EventTypes DEF PatchesIn
<1>5. CASE \E c \in 1..(sealed + 1) : Connect(c)
  <2>1. PICK c \in 1..(sealed + 1) :
            /\ stream' = c /\ UNCHANGED <<inspections, lastCheckpoint, patches>>
            /\ lost' = lost \cup {i \in DOMAIN events :
                   lastCheckpoint < Checkpoint(i) /\ Checkpoint(i) < c}
    BY <1>5 DEF Connect
  <2>2. PassedAreLost'
    BY <1>2, <2>1 DEF PassedAreLost
  <2>3. StoreIsLatest'
    BY <1>1, <1>2, <1>4, <2>1 DEF StoreIsLatest, IsInspected
  <2> QED
    BY <2>2, <2>3
<1>6. CASE Disconnect
  <2>1. /\ stream' = NotConnected
        /\ UNCHANGED <<inspections, lastCheckpoint, patches, lost>>
    BY <1>6 DEF Disconnect
  <2> QED
    BY <1>1, <1>2, <1>4, <2>1 DEF PassedAreLost, StoreIsLatest, IsInspected
<1>7. CASE DeliverCheckpoint
  <2>1. /\ stream \in 1..sealed /\ stream' = stream + 1 /\ lastCheckpoint' = stream
        /\ lost' = lost \cup (EventsOf(stream) \ Started(stream))
        /\ patches' = patches
        /\ inspections \subseteq inspections'
    BY <1>7 DEF DeliverCheckpoint
  <2>2. \A i \in Started(stream) : IsInspected(i)'
    BY <1>1, <1>7, DeliverTypes
  <2>3. PassedAreLost'
    BY <1>2, <1>3, <1>4, <2>1 DEF PassedAreLost
  <2>4. StoreIsLatest'
    <3> SUFFICES ASSUME NEW i \in DOMAIN events \ lost',
                        Checkpoint(i) <= stream, ~IsInspected(i)',
                        NEW m \in PatchesIn(i)
                 PROVE  Checkpoint(patches[m]) >= Checkpoint(i)
      BY <1>2, <1>4, <2>1 DEF StoreIsLatest
    <3>1. i \notin lost /\ ~IsInspected(i)
      BY <2>1 DEF IsInspected
    <3>2. Checkpoint(i) # stream
      BY <2>1, <2>2 DEF EventsOf
    <3>3. Checkpoint(i) < stream
      BY <1>3, <1>4, <3>2
    <3>4. Checkpoint(i) <= lastCheckpoint
      BY <1>1, <1>3, <1>4, <2>1, <3>1, <3>3 DEF PassedAreLost, NotConnected
    <3> QED
      BY <1>1, <3>1, <3>4 DEF StoreIsLatest
  <2> QED
    BY <2>3, <2>4
<1>8. CASE Restart
  <2>1. stream' = NotConnected /\ lastCheckpoint' = 0
    BY <1>8 DEF Restart
  <2> QED
    BY <1>2, <1>4, <2>1 DEF PassedAreLost, StoreIsLatest
<1>9. CASE SkipCheckpoint
  <2>1. /\ stream \in 1..sealed /\ stream' = stream + 1
        /\ lost' = lost \cup EventsOf(stream)
        /\ UNCHANGED <<inspections, lastCheckpoint, patches>>
    BY <1>9 DEF SkipCheckpoint
  <2>2. PassedAreLost'
    BY <1>1, <1>2, <1>3, <1>4, <2>1 DEF PassedAreLost, EventsOf, NotConnected
  <2>3. StoreIsLatest'
    BY <1>1, <1>2, <1>4, <2>1 DEF StoreIsLatest, IsInspected
  <2> QED
    BY <2>2, <2>3
<1> QED
  BY <1>5, <1>6, <1>7, <1>8, <1>9 DEF ListenerNext

LEMMA InspectStore ==
    ASSUME IndexerInv, NEW i \in DOMAIN events, NEW k \in 1..Slots,
           NEW found \in SUBSET PatchesIn(i), Inspect(i, k, found)
    PROVE  PassedAreLost' /\ StoreIsLatest'
<1>1. TypeOK /\ PassedAreLost /\ StoreIsLatest
  BY DEF IndexerInv
<1>2. /\ UNCHANGED <<archive, events, stream, lastCheckpoint>>
      /\ inspections' = inspections \ {<<i, k>>}
      /\ patches' = AddDiscovery(i, found)
      /\ lost' = IF found = PatchesIn(i) THEN lost ELSE lost \cup {i}
  BY DEF Inspect, EndInspection, chainVars
<1>3. \A j : Checkpoint(j)' = Checkpoint(j) /\ PatchesIn(j)' = PatchesIn(j)
  BY <1>2 DEF PatchesIn, Quilt, Checkpoint
<1>4. PassedAreLost'
  BY <1>1, <1>2, <1>3 DEF PassedAreLost
<1>5. StoreIsLatest'
  <2> SUFFICES ASSUME NEW j \in DOMAIN events \ lost',
                      Checkpoint(j) <= lastCheckpoint, ~IsInspected(j)',
                      NEW m \in PatchesIn(j)
               PROVE  Checkpoint(patches'[m]) >= Checkpoint(j)
    BY <1>2, <1>3 DEF StoreIsLatest
  <2>1. m \in Messages
    BY DEF PatchesIn
  <2>2. /\ Checkpoint(patches'[m]) >= Checkpoint(patches[m])
        /\ m \in found => Checkpoint(patches'[m]) >= Checkpoint(i)
        /\ patches' \in [Messages -> {NoPatch} \cup DOMAIN events]
    BY <1>1, <1>2, <2>1, DiscoveryAdvances
  <2>3. /\ Checkpoint(j) \in Int /\ Checkpoint(patches[m]) \in Int
        /\ Checkpoint(patches'[m]) \in Int
    <3>1. \A e \in DOMAIN events \cup {NoPatch} : Checkpoint(e) \in Int
      <4>1. sealed \in Nat
        BY <1>1 DEF TypeOK
      <4> QED
        BY <1>1, <4>1, EventTypes
    <3>2. /\ j \in DOMAIN events
          /\ patches[m] \in DOMAIN events \cup {NoPatch}
          /\ patches'[m] \in DOMAIN events \cup {NoPatch}
      BY <1>1, <2>1, <2>2 DEF TypeOK
    <3> QED
      BY <3>1, <3>2
  <2>4. CASE j = i
    <3>1. found = PatchesIn(i)
      BY <1>2, <2>4
    <3> QED
      BY <2>2, <2>4, <3>1
  <2>5. CASE j # i
    <3>1. ~IsInspected(j) /\ j \notin lost
      BY <1>2, <2>5 DEF IsInspected
    <3>2. Checkpoint(patches[m]) >= Checkpoint(j)
      BY <1>1, <3>1 DEF StoreIsLatest
    <3> QED
      BY <2>2, <2>3, <3>2
  <2> QED
    BY <2>4, <2>5
<1> QED
  BY <1>4, <1>5

LEMMA ReaderStore ==
    ASSUME IndexerInv, UNCHANGED <<chainVars, indexerVars>>
    PROVE  PassedAreLost' /\ StoreIsLatest'
<1>1. /\ UNCHANGED <<archive, events>>
      /\ UNCHANGED <<stream, inspections, lastCheckpoint, patches, lost>>
  BY DEF chainVars, indexerVars
<1>2. \A i : /\ Checkpoint(i)' = Checkpoint(i) /\ PatchesIn(i)' = PatchesIn(i)
             /\ IsInspected(i)' = IsInspected(i)
  BY <1>1 DEF PatchesIn, Quilt, Checkpoint, IsInspected
<1>3. \A m : Checkpoint(patches[m])' = Checkpoint(patches[m])
  BY <1>1 DEF Checkpoint
<1> QED
  BY <1>1, <1>2, <1>3 DEF IndexerInv, PassedAreLost, StoreIsLatest

LEMMA NextStore == IndexerInv /\ [Next]_vars => IndexerInv'
<1> SUFFICES ASSUME IndexerInv, [Next]_vars PROVE IndexerInv'
  OBVIOUS
<1>1. TypeOK'
  BY NextTypes DEF IndexerInv
<1>2. CASE ReaderNext \/ UNCHANGED vars
  <2>1. UNCHANGED <<chainVars, indexerVars>>
    BY <1>2 DEF ReaderNext, Recover, vars
  <2> QED
    BY <1>1, <2>1, ReaderStore DEF IndexerInv
<1>3. CASE ArchiveNext
  BY <1>1, <1>3, ArchiveStore DEF IndexerInv
<1>4. CASE ListenerNext
  BY <1>1, <1>4, ListenerStore DEF IndexerInv
<1>5. CASE \E i \in DOMAIN events, k \in 1..Slots :
               \E found \in SUBSET PatchesIn(i) : Inspect(i, k, found)
  BY <1>1, <1>5, InspectStore DEF IndexerInv
<1> QED
  BY <1>2, <1>3, <1>4, <1>5 DEF Next

(* The store is up to date for every event up to the last checkpoint that  *)
(* was not lost and is not being inspected, in whatever order inspections  *)
(* end, streams break and the indexer restarts (discovery-store.ts keeps   *)
(* the higher checkpoint; the listener never goes back).                   *)
THEOREM StoreStaysLatest == Spec => []StoreIsLatest
<1>1. Init => IndexerInv
  BY InitTypes, InitStore DEF IndexerInv
<1>2. IndexerInv => StoreIsLatest
  BY DEF IndexerInv
<1> QED
  BY <1>1, <1>2, NextStore, PTL DEF Spec

-----------------------------------------------------------------------------
(* The reader *)

(* A message the indexer knows of has an order, which nothing changes. *)
LEMMA KnownHaveOrder ==
    ASSUME TypeOK, ArchivedHaveOrder, NEW m \in Messages, patches[m] # NoPatch
    PROVE  orders[m] > 0
<1>1. patches[m] \in DOMAIN events /\ m \in PatchesIn(patches[m])
  BY DEF TypeOK
<1>2. events[patches[m]].quilt \in DOMAIN archive
  BY <1>1, EventTypes
<1> QED
  BY <1>1, <1>2 DEF ArchivedHaveOrder, PatchesIn, Quilt

LEMMA InitReader == Init => ReaderInv
<1> SUFFICES ASSUME Init PROVE ReaderInv
  OBVIOUS
<1>1. TypeOK /\ DOMAIN archive = {}
  BY InitTypes
<1>2. patches = [m \in Messages |-> NoPatch]
  BY DEF Init, IndexerInit
<1> QED
  BY <1>1, <1>2 DEF ReaderInv, ArchivedHaveOrder, BehindCursor, RecoveryIsComplete

(* What an upload leaves the reader: the messages known, their patches,    *)
(* orders and ties.                                                        *)
LEMMA ArchiveReader ==
    ASSUME ReaderInv, ArchiveNext, UNCHANGED readerVars
    PROVE  ArchivedHaveOrder' /\ BehindCursor' /\ RecoveryIsComplete'
<1>1. TypeOK /\ ArchivedHaveOrder /\ BehindCursor /\ RecoveryIsComplete
  BY DEF ReaderInv
<1>2. patches' = patches /\ UNCHANGED <<cursor, hasNext, recovered, missed>>
  BY <1>1, ArchiveGrows DEF indexerVars, readerVars
<1>3. ArchivedHaveOrder'
  <2> SUFFICES ASSUME NEW q \in DOMAIN archive', NEW m \in Messages,
                      archive'[q][m] # "absent"
               PROVE  orders'[m] > 0
    BY DEF ArchivedHaveOrder
  <2>1. CASE q \in DOMAIN archive
    <3>1. orders[m] > 0
      BY <1>1, <2>1, ArchiveGrows DEF ArchivedHaveOrder
    <3> QED
      BY <1>1, <3>1, ArchiveGrows
  <2>2. CASE q \notin DOMAIN archive
    BY <1>1, <2>2, ArchiveGrows
  <2> QED
    BY <2>1, <2>2
<1>4. ASSUME NEW m \in Messages, patches[m] # NoPatch
      PROVE  /\ IsActive(m)' = IsActive(m)
             /\ orders'[m] = orders[m]
             /\ Tied(m) => Tied(m)'
  <2>1. orders[m] > 0
    BY <1>1, <1>4, KnownHaveOrder
  <2>2. \A n \in Messages : orders[n] = orders[m] => orders'[n] = orders'[m]
    BY <1>1, <2>1, ArchiveGrows
  <2>3. patches[m] \in DOMAIN events
    BY <1>1, <1>4 DEF TypeOK
  <2>4. Quilt(patches[m])' = Quilt(patches[m])
    BY <1>1, <1>2, <2>3, ArchiveKeepsEvents
  <2> QED
    BY <1>1, <2>1, <2>2, <2>4, ArchiveGrows DEF Tied, IsActive
<1> QED
  BY <1>1, <1>2, <1>3, <1>4 DEF BehindCursor, RecoveryIsComplete

LEMMA ListenerReader ==
    ASSUME ReaderInv, ListenerNext \/ UNCHANGED indexerVars,
           UNCHANGED <<chainVars, readerVars>>
    PROVE  ArchivedHaveOrder' /\ BehindCursor' /\ RecoveryIsComplete'
<1>1. /\ UNCHANGED <<archive, orders, events>>
      /\ UNCHANGED <<cursor, hasNext, recovered, missed>>
  BY DEF chainVars, readerVars
<1>2. patches' = patches \/ patches' = [m \in Messages |-> NoPatch]
  BY DEF ListenerNext, Connect, Disconnect, DeliverCheckpoint, SkipCheckpoint,
         Restart, indexerVars
<1>3. /\ ArchivedHaveOrder' = ArchivedHaveOrder
      /\ \A m : Tied(m)' = Tied(m)
  BY <1>1 DEF ArchivedHaveOrder, Tied
<1>4. CASE patches' = patches
  <2>1. \A m : IsActive(m)' = IsActive(m)
    BY <1>1, <1>4 DEF IsActive, Quilt
  <2> QED
    BY <1>1, <1>3, <1>4, <2>1 DEF ReaderInv, BehindCursor, RecoveryIsComplete
<1>5. CASE patches' = [m \in Messages |-> NoPatch]
  BY <1>1, <1>3, <1>5 DEF ReaderInv, BehindCursor, RecoveryIsComplete
<1> QED
  BY <1>2, <1>4, <1>5

(* What an inspection finds behind the reader is missed. *)
LEMMA InspectReader ==
    ASSUME ReaderInv, NEW i \in DOMAIN events, NEW k \in 1..Slots,
           NEW found \in SUBSET PatchesIn(i), Inspect(i, k, found)
    PROVE  ArchivedHaveOrder' /\ BehindCursor' /\ RecoveryIsComplete'
<1>1. TypeOK /\ ArchivedHaveOrder /\ BehindCursor /\ RecoveryIsComplete
  BY DEF ReaderInv
<1>2. /\ UNCHANGED <<archive, orders, events, cursor, hasNext, recovered>>
      /\ patches' = AddDiscovery(i, found)
      /\ missed' = missed \cup
             {m \in found \ recovered : orders[m] <= cursor \/ ~hasNext}
  BY DEF Inspect, EndInspection, chainVars
<1>3. /\ ArchivedHaveOrder' = ArchivedHaveOrder
      /\ \A m : Tied(m)' = Tied(m)
  BY <1>2 DEF ArchivedHaveOrder, Tied
<1>4. \A m \in Messages \ found : /\ patches'[m] = patches[m]
                                  /\ IsActive(m)' = IsActive(m)
  BY <1>1, <1>2, DiscoveryAdvances DEF IsActive, Quilt
<1>5. BehindCursor'
  BY <1>1, <1>2, <1>3, <1>4 DEF BehindCursor
<1>6. RecoveryIsComplete'
  BY <1>1, <1>2, <1>3, <1>4 DEF RecoveryIsComplete
<1> QED
  BY <1>1, <1>3, <1>5, <1>6

(* A page holds every message up to its last one but those of its order,   *)
(* and the last page all that are left.                                    *)
LEMMA RecoverReader ==
    ASSUME ReaderInv, NEW page \in SUBSET Messages, NEW read \in SUBSET page,
           Recover(page, read)
    PROVE  ArchivedHaveOrder' /\ BehindCursor' /\ RecoveryIsComplete'
<1>1. TypeOK /\ ArchivedHaveOrder /\ BehindCursor /\ RecoveryIsComplete
  BY DEF ReaderInv
<1>2. /\ UNCHANGED <<archive, orders, events, patches>>
      /\ recovered' = recovered \cup read
      /\ missed' = (missed \cup {m \in page : IsActive(m)}) \ recovered'
      /\ hasNext' = (After(cursor) # page)
      /\ page \subseteq After(cursor)
      /\ \A m \in page, other \in After(cursor) \ page : orders[m] <= orders[other]
  BY DEF Recover, IsPage, HasMore, chainVars, indexerVars
<1>3. cursor' = cursor \/ \E last \in read : cursor' = orders[last]
  BY DEF Recover
<1>4. /\ ArchivedHaveOrder' = ArchivedHaveOrder
      /\ \A m : Tied(m)' = Tied(m) /\ IsActive(m)' = IsActive(m)
  BY <1>2 DEF ArchivedHaveOrder, Tied, IsActive, Quilt
<1>5. cursor \in Nat /\ \A m \in Messages : orders[m] \in Nat
  BY <1>1, IndexerAssumption DEF TypeOK
<1>6. \A m \in page : IsActive(m) => m \in recovered' \cup missed'
  BY <1>2
<1>7. \A m \in Messages : patches[m] # NoPatch /\ IsActive(m) /\ orders[m] <= cursor =>
                             m \in recovered' \cup missed' \/ Tied(m)
  BY <1>1, <1>2 DEF BehindCursor
<1>8. \A m \in Messages : patches[m] # NoPatch /\ ~(orders[m] <= cursor) =>
                             m \in After(cursor)
  BY <1>5 DEF After
<1>9. BehindCursor'
  <2> SUFFICES ASSUME NEW m \in Messages, patches[m] # NoPatch, IsActive(m),
                      orders[m] <= cursor', m \in After(cursor) \ page
               PROVE  Tied(m)
    BY <1>2, <1>4, <1>6, <1>7, <1>8 DEF BehindCursor
  <2>1. PICK last \in read : cursor' = orders[last]
    BY <1>3, <1>5 DEF After
  <2>2. last # m /\ last \in Messages /\ orders[last] <= orders[m]
    BY <1>2, <2>1
  <2>3. orders[last] = orders[m]
    BY <1>5, <2>1, <2>2
  <2> QED
    BY <2>2, <2>3 DEF Tied
<1>10. RecoveryIsComplete'
  BY <1>2, <1>4, <1>6, <1>7, <1>8 DEF RecoveryIsComplete
<1> QED
  BY <1>1, <1>4, <1>9, <1>10

LEMMA NextReader == ReaderInv /\ [Next]_vars => ReaderInv'
<1> SUFFICES ASSUME ReaderInv, [Next]_vars PROVE ReaderInv'
  OBVIOUS
<1>1. TypeOK'
  BY NextTypes DEF ReaderInv
<1>2. CASE ReaderNext
  BY <1>1, <1>2, RecoverReader DEF ReaderNext, ReaderInv
<1>3. CASE ArchiveNext /\ UNCHANGED readerVars
  BY <1>1, <1>3, ArchiveReader DEF ReaderInv
<1>4. CASE ListenerNext /\ UNCHANGED readerVars
  <2>1. UNCHANGED chainVars
    BY <1>4 DEF ListenerNext, Connect, Disconnect, DeliverCheckpoint, SkipCheckpoint,
         Restart
  <2> QED
    BY <1>1, <1>4, <2>1, ListenerReader DEF ReaderInv
<1>5. CASE \E i \in DOMAIN events, k \in 1..Slots :
               \E found \in SUBSET PatchesIn(i) : Inspect(i, k, found)
  BY <1>1, <1>5, InspectReader DEF ReaderInv
<1>6. CASE UNCHANGED vars
  BY <1>1, <1>6, ListenerReader DEF ReaderInv, vars
<1> QED
  BY <1>2, <1>3, <1>4, <1>5, <1>6 DEF Next

(* A recovery that has ended has every active message the indexer knows,   *)
(* save those that could not be read, were discovered behind the reader or *)
(* share their order with another one, while the indexer goes on, loses    *)
(* its stream or restarts between the pages (walrus-recovery-transport.ts, *)
(* DiscoveryStore.getByGroup).                                             *)
THEOREM RecoveryCompletes == Spec => []RecoveryIsComplete
<1>1. ReaderInv => RecoveryIsComplete
  BY DEF ReaderInv
<1> QED
  BY <1>1, InitReader, NextReader, PTL DEF Spec
=============================================================================
