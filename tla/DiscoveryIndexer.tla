--------------------------- MODULE DiscoveryIndexer ---------------------------
(***************************************************************************)
(* The Walrus discovery indexer (walrus-discovery-indexer/src): a loop over *)
(* the stream of checkpoints starts an inspection for every BlobCertified  *)
(* event, at most Slots of them at a time and without waiting for any; the *)
(* inspections end in whatever order Walrus answers, and put what they     *)
(* found in a store in memory.                                             *)
(*                                                                         *)
(* One group.  A quilt holds a version of some of its messages; one that   *)
(* holds none stands for the blobs of everybody else, which take a slot    *)
(* just the same.  Quilts are numbered in the order of upload, so that the *)
(* later quilt has the later version.                                      *)
(*                                                                         *)
(* With a publisher's address configured, the events of other senders are  *)
(* passed over before they take a slot (lines 46-50 of                     *)
(* checkpoint-listener.ts): the events here are then the publisher's.      *)
(***************************************************************************)
EXTENDS Integers, Sequences, FiniteSets

CONSTANTS
    Messages,        \* messages of the group
    Slots,           \* MAX_CONCURRENT_INSPECTIONS
    MaxOrder,        \* bound: orders of messages
    MaxQuilts,       \* bound: quilts archived
    MaxEvents,       \* bound: BlobCertified events
    MaxRestarts      \* bound: restarts of the indexer

ASSUME IndexerAssumption ==
    /\ Slots \in Nat \ {0}
    /\ MaxOrder \in Nat
    /\ MaxQuilts \in Nat
    /\ MaxEvents \in Nat
    /\ MaxRestarts \in Nat

VARIABLES
    archive,         \* the quilts on Walrus: the state each gives each message
    orders,          \* the order the relayer gave each archived message, or 0
    events,          \* BlobCertified events, with the checkpoint of each
    sealed,          \* the latest checkpoint no event can join any more
    stream,          \* the checkpoint the stream delivers next, or NotConnected
    inspections,     \* the inspections under way: an event and a number
    lastCheckpoint,  \* the last checkpoint processed
    patches,         \* the patch stored for each message: its event, or NoPatch
    restarts,        \* restarts so far
    lost             \* history: events that were passed over, dropped, or
                     \* whose inspection failed for some patch

chainVars == <<archive, orders, events, sealed>>
indexerVars == <<stream, inspections, lastCheckpoint, patches, restarts, lost>>

-----------------------------------------------------------------------------

NotConnected == 0

NoPatch == 0

PatchStates == {"absent", "active", "deleted"}

Checkpoint(i) == IF i = NoPatch THEN 0 ELSE events[i].checkpoint

Quilt(i) == archive[events[i].quilt]

(* The messages a quilt has a patch of. *)
PatchesIn(i) == {m \in Messages : Quilt(i)[m] # "absent"}

EventsOf(c) == {i \in DOMAIN events : Checkpoint(i) = c}

(* inFlight in the code is the size of this set: after a reconnection an   *)
(* event may be inspected twice at a time, so that the inspections of one  *)
(* event are told apart by a number.                                       *)
InspectionsUnderWay == Cardinality(inspections)

IsInspected(i) == \E k \in 1..Slots : <<i, k>> \in inspections

Fresh(i) == CHOOSE k \in 1..Slots : <<i, k>> \notin inspections

-----------------------------------------------------------------------------
(* Walrus and Sui *)

Certify(q) ==
    /\ Len(events) < MaxEvents
    /\ events' = Append(events, [quilt |-> q, checkpoint |-> sealed + 1])
    /\ UNCHANGED sealed

(* The relayer archives a batch; a message keeps the order it had, which   *)
(* after a restart of the relayer may be the order of another one.         *)
StoreQuilt(quilt) ==
    /\ Len(archive) < MaxQuilts
    /\ archive' = Append(archive, quilt)
    /\ \E o \in [Messages -> 0..MaxOrder] :
           /\ \A m \in Messages :
                  IF orders[m] = 0 /\ quilt[m] # "absent" THEN o[m] > 0
                  ELSE o[m] = orders[m]
           /\ orders' = o
    /\ Certify(Len(archive) + 1)
    /\ UNCHANGED indexerVars

(* The lifetime of a blob is extended: certified again, in another event   *)
(* of the same type (is_extension), which parseWalrusEvent takes like the  *)
(* first.                                                                  *)
ExtendQuilt(q) ==
    /\ Certify(q)
    /\ UNCHANGED <<archive, orders, indexerVars>>

SealCheckpoint ==
    /\ EventsOf(sealed + 1) # {}
    /\ sealed' = sealed + 1
    /\ UNCHANGED <<archive, orders, events, indexerVars>>

-----------------------------------------------------------------------------
(* The listener *)

(* The stream starts at the checkpoint the fullnode is at: it may lag, and *)
(* whatever passed while nobody listened is not asked for.                 *)
Connect(c) ==
    /\ stream = NotConnected
    /\ stream' = c
    /\ lost' = lost \cup
           {i \in DOMAIN events : lastCheckpoint < Checkpoint(i) /\ Checkpoint(i) < c}
    /\ UNCHANGED <<chainVars, inspections, lastCheckpoint, patches, restarts>>

Disconnect ==
    /\ stream # NotConnected
    /\ stream' = NotConnected
    /\ UNCHANGED <<chainVars, inspections, lastCheckpoint, patches, restarts, lost>>

(* The events of a checkpoint are taken in their order for as long as      *)
(* fewer than Slots inspections are under way.  Mutant: always.            *)
StartedAll(c) == EventsOf(c)

Started(c) ==
    {i \in EventsOf(c) :
        Cardinality({j \in EventsOf(c) : j < i}) + InspectionsUnderWay < Slots}

DeliverCheckpoint ==
    /\ stream \in 1..sealed
    /\ inspections' = inspections \cup {<<i, Fresh(i)>> : i \in Started(stream)}
    /\ lost' = lost \cup (EventsOf(stream) \ Started(stream))
    /\ lastCheckpoint' = stream
    /\ stream' = stream + 1
    /\ UNCHANGED <<chainVars, patches, restarts>>

(* A response without a checkpoint moves the stream on and nothing else.   *)
SkipCheckpoint ==
    /\ stream \in 1..sealed
    /\ lost' = lost \cup EventsOf(stream)
    /\ stream' = stream + 1
    /\ UNCHANGED <<chainVars, inspections, lastCheckpoint, patches, restarts>>

(* addDiscovery: of the patches of a message, the one with the higher      *)
(* checkpoint is kept.  Mutant: the one that was inspected last.           *)
AddDiscoveryAlways(i, found) ==
    [m \in Messages |-> IF m \in found THEN i ELSE patches[m]]

AddDiscovery(i, found) ==
    [m \in Messages |->
        IF m \in found /\ Checkpoint(i) > Checkpoint(patches[m]) THEN i
        ELSE patches[m]]

(* inspectBlob ends: with the patches whose tags could be read, or with    *)
(* none when Walrus does not give the blob.  (Inspections of one event are *)
(* alike: the one with the higher number may stand for either.)            *)
EndInspection(i, k, found) ==
    /\ <<i, k>> \in inspections /\ <<i, k + 1>> \notin inspections
    /\ found \subseteq PatchesIn(i)
    /\ inspections' = inspections \ {<<i, k>>}
    /\ patches' = AddDiscovery(i, found)
    /\ lost' = IF found = PatchesIn(i) THEN lost ELSE lost \cup {i}
    /\ UNCHANGED <<chainVars, stream, lastCheckpoint, restarts>>

(* Everything is in memory. *)
Restart ==
    /\ restarts < MaxRestarts
    /\ restarts' = restarts + 1
    /\ stream' = NotConnected
    /\ inspections' = {}
    /\ lastCheckpoint' = 0
    /\ patches' = [m \in Messages |-> NoPatch]
    /\ UNCHANGED <<chainVars, lost>>

-----------------------------------------------------------------------------

IndexerInit ==
    /\ archive = <<>>
    /\ orders = [m \in Messages |-> 0]
    /\ events = <<>>
    /\ sealed = 0
    /\ stream = NotConnected
    /\ inspections = {}
    /\ lastCheckpoint = 0
    /\ patches = [m \in Messages |-> NoPatch]
    /\ restarts = 0
    /\ lost = {}

ArchiveNext ==
    \/ \E quilt \in [Messages -> PatchStates] : StoreQuilt(quilt)
    \/ \E q \in DOMAIN archive : ExtendQuilt(q)
    \/ SealCheckpoint

ListenerNext ==
    \/ \E c \in 1..(sealed + 1) : Connect(c)
    \/ Disconnect
    \/ DeliverCheckpoint
    \/ SkipCheckpoint
    \/ Restart
=============================================================================
