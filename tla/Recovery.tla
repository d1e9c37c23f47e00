------------------------------- MODULE Recovery -------------------------------
(***************************************************************************)
(* Recovering the messages of a group (recoverMessages of client.ts over   *)
(* the walrus-recovery-transport.ts example) from the discovery indexer:   *)
(* a reader asks for one page after another, each after the last message   *)
(* it was given, while the indexer goes on discovering.  Whatever the      *)
(* indexer says, the contents of a patch never change, so that a page and  *)
(* the fetches of its patches are one step.                                *)
(***************************************************************************)
EXTENDS DiscoveryIndexer

CONSTANT PageLimit   \* the limit of a page

ASSUME RecoveryAssumption == PageLimit \in Nat \ {0}

VARIABLES
    cursor,     \* the order of the last message the reader was given, or 0
    hasNext,    \* the last page said that there is more
    recovered,  \* messages recovered
    missed      \* history: messages not recovered whose active patch could not
                \* be read when it was listed, or was discovered behind the
                \* reader

readerVars == <<cursor, hasNext, recovered, missed>>
vars == <<chainVars, indexerVars, readerVars>>

-----------------------------------------------------------------------------

(* getByGroup: the patches after an order, the lowest of them first; those *)
(* of one order are in the order of their discovery, whichever that was.   *)
After(o) == {m \in Messages : patches[m] # NoPatch /\ orders[m] > o}

IsPage(page, o) ==
    /\ page \subseteq After(o)
    /\ \A m \in page, other \in After(o) \ page : orders[m] <= orders[other]
    /\ \/ Cardinality(page) = PageLimit
       \/ Cardinality(page) < PageLimit /\ page = After(o)

IsActive(m) == Quilt(patches[m])[m] = "active"

(* hasMore, which the transport hands on.  Mutant: it is taken from the    *)
(* patches left after the deleted ones.                                    *)
HasMoreIfFull(page, o) == Cardinality({m \in page : IsActive(m)}) = PageLimit

HasMore(page, o) == After(o) # page

(* recoverMessages: deleted patches are left out, and of the others those  *)
(* that cannot be fetched or decrypted.                                    *)
Recover(page, read) ==
    /\ hasNext
    /\ IsPage(page, cursor)
    /\ read \subseteq {m \in page : IsActive(m)}
    /\ recovered' = recovered \cup read
    /\ missed' = (missed \cup {m \in page : IsActive(m)}) \ recovered'
    /\ hasNext' = HasMore(page, cursor)
    /\ \/ read = {} /\ UNCHANGED cursor
       \/ \E last \in read :
              /\ \A m \in read : orders[m] <= orders[last]
              /\ cursor' = orders[last]
    /\ UNCHANGED <<chainVars, indexerVars>>

(* An inspection ends beside a reader that has passed some of its orders.  *)
Inspect(i, k, found) ==
    /\ EndInspection(i, k, found)
    /\ missed' = missed \cup
           {m \in found \ recovered : orders[m] <= cursor \/ ~hasNext}
    /\ UNCHANGED <<cursor, hasNext, recovered>>

-----------------------------------------------------------------------------

Init ==
    /\ IndexerInit
    /\ cursor = 0
    /\ hasNext = TRUE
    /\ recovered = {}
    /\ missed = {}

ReaderNext ==
    \E page \in SUBSET Messages : \E read \in SUBSET page : Recover(page, read)

Next ==
    \/ ReaderNext
    \/ ArchiveNext /\ UNCHANGED readerVars
    \/ ListenerNext /\ UNCHANGED readerVars
    \/ \E i \in DOMAIN events, k \in 1..Slots :
           \E found \in SUBSET PatchesIn(i) : Inspect(i, k, found)

Spec == Init /\ [][Next]_vars

-----------------------------------------------------------------------------
(* Properties *)

(* Types; there are never more inspections under way than slots, and what  *)
(* is stored for a message is a patch of that message.                     *)
TypeOK ==
    /\ archive \in Seq([Messages -> PatchStates])
    /\ orders \in [Messages -> 0..MaxOrder]
    /\ events \in Seq([quilt : 1..Len(archive), checkpoint : 1..(sealed + 1)])
    /\ sealed \in Nat
    /\ stream \in 0..(sealed + 1)
    /\ inspections \subseteq (DOMAIN events) \X (1..Slots)
    /\ InspectionsUnderWay <= Slots
    /\ lastCheckpoint \in 0..sealed
    /\ patches \in [Messages -> {NoPatch} \cup DOMAIN events]
    /\ \A m \in Messages : patches[m] # NoPatch => m \in PatchesIn(patches[m])
    /\ restarts \in 0..MaxRestarts
    /\ lost \subseteq DOMAIN events
    /\ hasNext \in BOOLEAN
    /\ cursor \in 0..MaxOrder
    /\ recovered \cup missed \subseteq Messages

(* Of every event up to the last checkpoint that was not lost on the way   *)
(* and is not being inspected, the store has the patches or later ones, in *)
(* whatever order the inspections ended: what the indexer misses is        *)
(* exactly what it passed over, dropped or failed to inspect.              *)
StoreIsLatest ==
    \A i \in DOMAIN events \ lost :
        Checkpoint(i) <= lastCheckpoint /\ ~IsInspected(i) =>
            \A m \in PatchesIn(i) : Checkpoint(patches[m]) >= Checkpoint(i)

(* A reader that has reached the end has every active message the indexer  *)
(* knows, save those it could not read, those discovered behind it, and    *)
(* those that share their order with another one, of which a page may end  *)
(* between the two.                                                        *)
Tied(m) == \E n \in Messages \ {m} : orders[n] = orders[m]

RecoveryIsComplete ==
    ~hasNext =>
        \A m \in Messages :
            patches[m] # NoPatch /\ IsActive(m) =>
                m \in recovered \cup missed \/ Tied(m)
=============================================================================
