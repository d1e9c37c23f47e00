------------------------------ MODULE WalrusSync ------------------------------
(***************************************************************************)
(* The background worker of relayer/src/services/walrus_sync.rs, running   *)
(* beside the HTTP handlers on the same storage, and the Walrus archive it *)
(* writes to.  The worker holds no lock between reading a batch, uploading *)
(* it and marking its messages one by one, so the handlers' steps fall     *)
(* between all of these.                                                   *)
(***************************************************************************)
EXTENDS MessageHandlers

CONSTANTS
    BatchSize,  \* walrus_sync_batch_size, capped at 666 by the code
    Threshold   \* walrus_sync_message_threshold (0: the timer only)

ASSUME SyncAssumption == BatchSize \in Nat \ {0} /\ Threshold \in Nat

VARIABLES
    stage,          \* where the worker is: "wait", "fetch", "upload" or "mark"
    workflow,       \* the status the current workflow archives
    batch,          \* the snapshots it read, by id
    unmarked,       \* ids the publisher returned a patch for, not marked yet
    message_count,  \* notifications received since the last cycle
    archive,        \* every patch stored on Walrus
    overtaken,      \* history: marked although written since their snapshot
    unseen          \* history: messages stored since SYNC_PENDING was fetched

workerVars == <<stage, workflow, batch, unmarked, message_count>>
vars == <<handlerVars, workerVars, archive, overtaken, unseen>>

-----------------------------------------------------------------------------

Target(status) ==
    CASE status = "SyncPending"   -> "Synced"
      [] status = "UpdatePending" -> "Updated"
      [] status = "DeletePending" -> "Deleted"

Patch ==
    [id: Ids, group_id: Groups, order: Nat, revision: Nat,
     sync_status: TerminalStatus, updated_at: Nat]

(* The snapshot, serialized with the status it is about to get. *)
PatchOf(id) ==
    [id |-> id, group_id |-> batch[id].group_id, order |-> batch[id].order,
     revision |-> batch[id].revision, sync_status |-> Target(workflow),
     updated_at |-> batch[id].updated_at]

Patches == {PatchOf(id) : id \in DOMAIN batch}

PatchesOf(id) == {p \in archive : p.id = id}

ArchivedIds == {p.id : p \in archive}

NoBatch == [id \in {} |-> 0]

(* "Readers group patches by message_id, take the latest updated_at." *)
IsLatest(p) == \A q \in PatchesOf(p.id) : q.updated_at <= p.updated_at

-----------------------------------------------------------------------------

(* run: the timer fires. *)
TimerTick ==
    /\ stage = "wait"
    /\ stage' = "fetch"
    /\ UNCHANGED <<handlerVars, workflow, batch, unmarked, message_count,
                   archive, overtaken, unseen>>

(* run: a notification is received; at the threshold it starts a cycle. *)
ReachesThreshold == Threshold # 0 /\ message_count + 1 >= Threshold

ReceiveNotification ==
    /\ stage = "wait"
    /\ notifications > 0
    /\ notifications' = notifications - 1
    /\ message_count' = message_count + 1
    /\ stage' = IF ReachesThreshold THEN "fetch" ELSE "wait"
    /\ UNCHANGED <<storageVars, creating, modifying, notifying, restarts,
                   workflow, batch, unmarked, archive, overtaken, unseen>>

(* The end of sync_messages, successful or not: the next workflow, or the  *)
(* end of the cycle.  Mutant: the third workflow is forgotten.             *)
NextWorkflowWithoutDeletions ==
    /\ batch' = NoBatch
    /\ unmarked' = {}
    /\ IF workflow = "SyncPending"
       THEN /\ workflow' = "UpdatePending"
            /\ stage' = "fetch"
            /\ UNCHANGED message_count
       ELSE /\ workflow' = "SyncPending"
            /\ stage' = "wait"
            /\ message_count' = 0

NextWorkflow ==
    /\ batch' = NoBatch
    /\ unmarked' = {}
    /\ CASE workflow = "SyncPending"   -> /\ workflow' = "UpdatePending"
                                          /\ stage' = "fetch"
                                          /\ UNCHANGED message_count
         [] workflow = "UpdatePending" -> /\ workflow' = "DeletePending"
                                          /\ stage' = "fetch"
                                          /\ UNCHANGED message_count
         [] workflow = "DeletePending" -> /\ workflow' = "SyncPending"
                                          /\ stage' = "wait"
                                          /\ message_count' = 0

(* sync_messages, step 1: at most BatchSize messages, in no given order. *)
IsBatch(ids) ==
    /\ ids \subseteq ByStatus(workflow)
    /\ Cardinality(ids) <= BatchSize
    /\ Cardinality(ids) = BatchSize \/ ids = ByStatus(workflow)

Fetch ==
    /\ stage = "fetch"
    /\ unseen' = IF workflow = "SyncPending" THEN 0 ELSE unseen
    /\ \E ids \in SUBSET DOMAIN messages :
           /\ IsBatch(ids)
           /\ IF ids = {}
              THEN NextWorkflow
              ELSE /\ batch' = [id \in ids |-> messages[id]]
                   /\ stage' = "upload"
                   /\ UNCHANGED <<workflow, unmarked, message_count>>
    /\ UNCHANGED <<handlerVars, archive, overtaken>>

(* Steps 2 and 3: the quilt is stored, and the response names a patch for  *)
(* the identifiers in acknowledged.                                        *)
StoreQuilt(acknowledged) ==
    /\ stage = "upload"
    /\ archive' = archive \cup Patches
    /\ unmarked' = acknowledged
    /\ stage' = "mark"
    /\ UNCHANGED <<handlerVars, workflow, batch, message_count, overtaken,
                   unseen>>

(* store_quilt fails: before the quilt is stored, or by losing the         *)
(* response after it.  Mutant: the batch is marked all the same.           *)
StoreQuiltFailsUnnoticed ==
    /\ stage = "upload"
    /\ archive' \in {archive, archive \cup Patches}
    /\ unmarked' = DOMAIN batch
    /\ stage' = "mark"
    /\ UNCHANGED <<handlerVars, workflow, batch, message_count, overtaken,
                   unseen>>

StoreQuiltFails ==
    /\ stage = "upload"
    /\ archive' \in {archive, archive \cup Patches}
    /\ NextWorkflow
    /\ UNCHANGED <<handlerVars, overtaken, unseen>>

(* Step 4, one message: update_sync_status overwrites the status whatever  *)
(* the message has become.                                                 *)
WrittenSince(id) == messages[id].updated_at # batch[id].updated_at

Mark(id) ==
    /\ stage = "mark"
    /\ id \in unmarked
    /\ UpdateSyncStatus(id, Target(workflow), batch[id].updated_at)
    /\ unmarked' = unmarked \ {id}
    /\ overtaken' = IF WrittenSince(id) THEN overtaken \cup {id} ELSE overtaken
    /\ UNCHANGED <<group_orders, nonces, creating, modifying, notifying,
                   notifications, restarts, stage, workflow, batch,
                   message_count, archive, unseen>>

EndWorkflow ==
    /\ stage = "mark"
    /\ unmarked = {}
    /\ NextWorkflow
    /\ UNCHANGED <<handlerVars, archive, overtaken, unseen>>

WorkerNext ==
    \/ TimerTick
    \/ ReceiveNotification
    \/ Fetch
    \/ \E ids \in SUBSET DOMAIN batch : StoreQuilt(ids)
    \/ StoreQuiltFails
    \/ \E id \in Ids : Mark(id)
    \/ EndWorkflow

(* A request handler moves; a fresh id is not one that was archived before *)
(* a restart either.  The history follows: a stored message is unseen, and *)
(* a written one is pending again.                                         *)
HandlerStep ==
    /\ HandlerNext(FreshIds \ ArchivedIds)
    /\ unseen' = unseen + Cardinality(DOMAIN messages' \ DOMAIN messages)
    /\ overtaken' = {id \in overtaken : messages'[id] = messages[id]}
    /\ UNCHANGED <<workerVars, archive>>

(* The process restarts; only Walrus keeps what it has. *)
Restart ==
    /\ LoseHandlerState
    /\ stage' = "wait"
    /\ workflow' = "SyncPending"
    /\ batch' = NoBatch
    /\ unmarked' = {}
    /\ message_count' = 0
    /\ overtaken' = {}
    /\ unseen' = 0
    /\ UNCHANGED archive

SyncInit ==
    /\ Init
    /\ stage = "wait"
    /\ workflow = "SyncPending"
    /\ batch = NoBatch
    /\ unmarked = {}
    /\ message_count = 0
    /\ archive = {}
    /\ overtaken = {}
    /\ unseen = 0

SyncNext == WorkerNext \/ HandlerStep \/ Restart

SyncSpec == SyncInit /\ [][SyncNext]_vars

(* The timer always fires again, the worker keeps running, and a publisher *)
(* that is tried again and again stores a whole quilt and says so now and  *)
(* then.  Nothing is assumed of the clients.                               *)
SyncFairness ==
    /\ WF_vars(TimerTick)
    /\ WF_vars(Fetch)
    /\ SF_vars(StoreQuilt(DOMAIN batch))
    /\ WF_vars(\E id \in Ids : Mark(id))
    /\ WF_vars(EndWorkflow)

FairSyncSpec == SyncSpec /\ SyncFairness

-----------------------------------------------------------------------------
(* Properties *)

(* A message keeps its group, sender and order, and its writes are         *)
(* counted; a state with the same count is the same state.                 *)
IsEarlier(former, m) ==
    /\ former.group_id = m.group_id
    /\ former.sender = m.sender
    /\ former.order = m.order
    /\ former.revision <= m.revision
    /\ former.updated_at <= m.updated_at
    /\ former.updated_at = m.updated_at => former = m

BatchIsEarlier == \A id \in DOMAIN batch : IsEarlier(batch[id], messages[id])

(* The worker's variables have their types; and what it holds of a message *)
(* is an earlier state of that message, or still the present one, whatever *)
(* the handlers write between the fetch, the upload and the marks.         *)
SyncTypeOK ==
    /\ TypeOK
    /\ stage \in {"wait", "fetch", "upload", "mark"}
    /\ workflow \in PendingStatus
    /\ DOMAIN batch \subseteq DOMAIN messages
    /\ \A id \in DOMAIN batch : batch[id] \in Message
    /\ BatchIsEarlier
    /\ unmarked \subseteq DOMAIN batch
    /\ message_count \in Nat
    /\ archive \subseteq Patch
    /\ overtaken \subseteq DOMAIN messages
    /\ unseen \in Nat

(* A message in a terminal status points at a patch that is on Walrus and  *)
(* is the latest of its patches, whatever uploads failed or lost their     *)
(* response on the way ("quilt_patch_id becomes non-null no later than the *)
(* SYNCED / UPDATED transition", 02_relayer.md).                           *)
TerminalHasLatestPatch ==
    \A id \in DOMAIN messages :
        messages[id].sync_status \in TerminalStatus =>
            \E p \in PatchesOf(id) :
                /\ p.updated_at = messages[id].quilt_patch_id
                /\ IsLatest(p)

(* The archive tells the truth about every message in a terminal status    *)
(* that was not written between its snapshot and its mark: the latest      *)
(* patch has its content and its deletion.                                 *)
ArchivedAs(id) ==
    \E p \in PatchesOf(id) :
        /\ IsLatest(p)
        /\ p.revision = messages[id].revision
        /\ p.sync_status = messages[id].sync_status

ArchiveFaithful ==
    \A id \in DOMAIN messages \ overtaken :
        messages[id].sync_status \in TerminalStatus => ArchivedAs(id)

(* Patches of a message reach Walrus in the order of their updated_at, so  *)
(* that readers may take the latest: a failed or half acknowledged upload  *)
(* is never repeated behind a newer one.                                   *)
UploadsInOrder ==
    [][\A p \in archive' \ archive : \A q \in PatchesOf(p.id) :
           q.updated_at < p.updated_at]_vars

(* The threshold is not outrun: while the worker waits, every message      *)
(* stored since it last looked is counted, or its notification is on the   *)
(* way, and the count is below the threshold.                              *)
ThresholdCounts ==
    /\ unseen <= message_count + notifications + notifying
           \/ stage # "wait"
    /\ stage = "wait" /\ Threshold # 0 => message_count < Threshold

(* Whatever a client writes reaches a terminal status, or is forgotten in  *)
(* a restart of the process.                                               *)
EventuallyTerminal ==
    \A id \in Ids :
        id \in ByStatus("SyncPending") \cup ByStatus("UpdatePending")
                   \cup ByStatus("DeletePending")
            ~> \/ id \in DOMAIN messages
                    /\ messages[id].sync_status \in TerminalStatus
               \/ id \notin DOMAIN messages

(* "Soft-deletes a message ... so that other readers know the message was  *)
(* intentionally deleted" (relayer/README.md): the worker never turns a    *)
(* deleted message back into a visible one.                                *)
WorkerKeepsDeletions ==
    [][WorkerNext => \A id \in DOMAIN messages :
           IsDeleted(messages[id]) => IsDeleted(messages'[id])]_vars
=============================================================================
