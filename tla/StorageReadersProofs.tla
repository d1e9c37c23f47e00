-------------------------- MODULE StorageReadersProofs --------------------------
(***************************************************************************)
(* Proofs about the two readers of the relayer's storage, which each act   *)
(* on what they read while the handlers go on: the sync worker             *)
(* (WalrusSync) and a subscriber (Subscription).  Both rest on the         *)
(* handlers' invariant.                                                    *)
(*                                                                         *)
(* WalrusSync, for every batch size, threshold and number of requests in   *)
(* flight.  The worker marks messages long after it read them; what makes  *)
(* that safe is the invariant ArchiveBehind: updated_at orders the states  *)
(* of a message, the patches of a message are older than what is stored,   *)
(* and one as old as what is stored is its exact copy.                     *)
(***************************************************************************)
EXTENDS WalrusSync, Subscription, MessageHandlersProofs, FiniteSetTheorems


(* The patch a snapshot of a message is serialized as. *)
PatchFor(id, m, status) ==
    [id |-> id, group_id |-> m.group_id, order |-> m.order,
     revision |-> m.revision, sync_status |-> Target(status),
     updated_at |-> m.updated_at]

(* A POST that has not stored has no patches: its id was never archived. *)
ArchivedAreNotCreated == \A r \in creating : r.id \notin ArchivedIds

(* No patch is newer than its message; one as new is its copy, and the     *)
(* message has not been marked since.                                      *)
ArchiveBehind ==
    \A p \in archive :
        p.id \in DOMAIN messages =>
            /\ p.updated_at <= messages[p.id].updated_at
            /\ p.updated_at = messages[p.id].updated_at =>
                   /\ messages[p.id].sync_status \in PendingStatus
                   /\ p = PatchFor(p.id, messages[p.id],
                                   messages[p.id].sync_status)

(* A snapshot is the message it was read from, or the message is newer. *)
BatchBehind ==
    \A id \in DOMAIN batch :
        /\ batch[id].sync_status = workflow
        /\ batch[id].updated_at <= messages[id].updated_at
        /\ batch[id].updated_at = messages[id].updated_at
               => batch[id] = messages[id]

(* No patch of a message in the batch is newer than its snapshot. *)
BatchIsLatest ==
    \A p \in archive :
        p.id \in DOMAIN batch =>
            /\ p.updated_at <= batch[p.id].updated_at
            /\ p.updated_at = batch[p.id].updated_at => p = PatchOf(p.id)

(* What is uploaded is pending until it is marked, and only what was       *)
(* uploaded is marked.                                                     *)
BatchStages ==
    /\ stage = "upload" =>
           \A id \in DOMAIN batch : messages[id].sync_status \in PendingStatus
    /\ stage = "mark" => Patches \subseteq archive
    /\ stage \in {"wait", "fetch"} => DOMAIN batch = {}

(* Between the fetch of the new messages and the next wait, what was       *)
(* stored since is still to be notified.                                   *)
UnseenNotified ==
    /\ stage = "wait" => workflow = "SyncPending"
    /\ stage # "wait" /\ (stage = "fetch" => workflow # "SyncPending")
           => unseen <= notifications + notifying

SyncInv ==
    /\ HandlersInv
    /\ IdsReserved
    /\ SyncTypeOK
    /\ ArchivedAreNotCreated
    /\ ArchiveBehind
    /\ BatchBehind
    /\ BatchIsLatest
    /\ BatchStages
    /\ UnseenNotified
    /\ TerminalHasLatestPatch
    /\ ArchiveFaithful
    /\ ThresholdCounts

-----------------------------------------------------------------------------

LEMMA TargetType ==
  ASSUME NEW s \in PendingStatus
  PROVE  Target(s) \in TerminalStatus
  BY DEF PendingStatus, TerminalStatus, Target

LEMMA StatusesDiffer == PendingStatus \cap TerminalStatus = {}
  BY DEF PendingStatus, TerminalStatus

LEMMA PatchOfIsPatchFor ==
  ASSUME NEW id
  PROVE  PatchOf(id) = PatchFor(id, batch[id], workflow)
  BY DEF PatchOf, PatchFor

LEMMA PatchForType ==
  ASSUME NEW id \in Ids, NEW m \in Message, NEW s \in PendingStatus
  PROVE  PatchFor(id, m, s) \in Patch
  BY TargetType DEF PatchFor, Patch, Message

LEMMA MessagesTyped ==
  ASSUME HandlersInv
  PROVE  \A i \in DOMAIN messages :
             /\ i \in Ids
             /\ messages[i] \in Message
             /\ messages[i].updated_at \in Nat
             /\ messages[i].sync_status \in SyncStatus
  BY DEF HandlersInv, TypeOK, StorageTypeOK, Message

(* A former state of a message is one of what it is written to. *)
LEMMA EarlierStays ==
  ASSUME NEW former \in Message, NEW m \in Message, NEW w \in Message,
         IsEarlier(former, m), w.group_id = m.group_id, w.sender = m.sender,
         w.order = m.order, w.revision >= m.revision, w.updated_at > m.updated_at
  PROVE  IsEarlier(former, w)
<1>1. /\ former.updated_at \in Nat /\ m.updated_at \in Nat /\ w.updated_at \in Nat
      /\ former.revision \in Nat /\ m.revision \in Nat /\ w.revision \in Nat
  BY DEF Message
<1> QED  BY <1>1 DEF IsEarlier

LEMMA EarlierItself ==
  ASSUME NEW m \in Message
  PROVE  IsEarlier(m, m)
<1>1. m.updated_at \in Nat /\ m.revision \in Nat  BY DEF Message
<1> QED  BY <1>1 DEF IsEarlier

LEMMA SyncInitInv == SyncInit => SyncInv
<1> SUFFICES ASSUME SyncInit
             PROVE  SyncInv
  OBVIOUS
<1>1. HandlersInv
  BY InitInv DEF SyncInit
<1>2. DOMAIN batch = {} /\ DOMAIN messages = {} /\ creating = {}
  BY DEF SyncInit, NoBatch, Init, StorageInit
<1>3. /\ notifying = 0 /\ notifications = 0 /\ unseen = 0 /\ message_count = 0
      /\ archive = {} /\ stage = "wait" /\ workflow = "SyncPending"
      /\ unmarked = {} /\ overtaken = {}
  BY DEF SyncInit, Init
<1>4. SyncTypeOK
  BY <1>1, <1>2, <1>3 DEF SyncTypeOK, HandlersInv, PendingStatus, BatchIsEarlier
<1>5. ThresholdCounts /\ UnseenNotified
  BY <1>3, SyncAssumption DEF ThresholdCounts, UnseenNotified
<1>6. QED
  BY <1>1, <1>2, <1>3, <1>4, <1>5
     DEF SyncInv, IdsReserved, ArchivedAreNotCreated, ArchiveBehind,
         BatchBehind, BatchIsLatest, BatchStages, TerminalHasLatestPatch,
         ArchiveFaithful

-----------------------------------------------------------------------------
(* The worker's steps *)

LEMMA TimerTickInv ==
  ASSUME SyncInv, TimerTick
  PROVE  SyncInv'
<1>1. /\ stage = "wait" /\ stage' = "fetch"
      /\ UNCHANGED handlerVars
      /\ UNCHANGED <<workflow, batch, unmarked, message_count, archive,
                     overtaken, unseen>>
  BY DEF TimerTick
<1>2. HandlersInv'
  BY <1>1, HandlerStutterInv DEF SyncInv
<1>3. UNCHANGED <<messages, creating, notifying, notifications>>
  BY <1>1 DEF handlerVars, storageVars
<1>4. SyncTypeOK'
  BY <1>1, <1>2, <1>3 DEF SyncInv, SyncTypeOK, HandlersInv, BatchIsEarlier
<1>5. UnseenNotified' /\ ThresholdCounts'
  BY <1>1 DEF SyncInv, UnseenNotified, ThresholdCounts
<1>6. ArchivedAreNotCreated' /\ ArchiveBehind' /\ BatchBehind'
  BY <1>1, <1>3 DEF SyncInv, ArchivedAreNotCreated, ArchivedIds,
                    ArchiveBehind, BatchBehind
<1>7. BatchIsLatest' /\ BatchStages' /\ IdsReserved'
  BY <1>1, <1>3 DEF SyncInv, BatchIsLatest, PatchOf, BatchStages, IdsReserved
<1>8. TerminalHasLatestPatch' /\ ArchiveFaithful'
  BY <1>1, <1>3 DEF SyncInv, TerminalHasLatestPatch, ArchiveFaithful,
                    ArchivedAs, IsLatest, PatchesOf
<1>9. QED
  BY <1>2, <1>4, <1>5, <1>6, <1>7, <1>8 DEF SyncInv

LEMMA ReceiveNotificationInv ==
  ASSUME SyncInv, ReceiveNotification
  PROVE  SyncInv'
<1>1. /\ stage = "wait" /\ notifications > 0
      /\ notifications' = notifications - 1
      /\ message_count' = message_count + 1
      /\ stage' = IF ReachesThreshold THEN "fetch" ELSE "wait"
      /\ UNCHANGED storageVars
      /\ UNCHANGED <<creating, modifying, notifying, restarts, workflow,
                     batch, unmarked, archive, overtaken, unseen>>
  BY DEF ReceiveNotification
<1>2. /\ notifications \in Nat /\ notifying \in Nat /\ unseen \in Nat
      /\ message_count \in Nat
  BY DEF SyncInv, HandlersInv, TypeOK, SyncTypeOK
<1>3. UNCHANGED <<messages, group_orders, nonces>>
  BY <1>1 DEF storageVars
<1>4. HandlersInv'
  BY <1>1, <1>2, <1>3
     DEF SyncInv, HandlersInv, TypeOK, StorageTypeOK, OrdersUnique,
         OrdersReserved, NoncesExact, ChecksStillHold
<1>5. SyncTypeOK'
  BY <1>1, <1>2, <1>3, <1>4 DEF SyncInv, SyncTypeOK, HandlersInv, BatchIsEarlier
<1>6. UnseenNotified'
  BY <1>1 DEF SyncInv, UnseenNotified
<1>7. ThresholdCounts'
  BY <1>1, <1>2, SyncAssumption
     DEF SyncInv, ThresholdCounts, ReachesThreshold
<1>8. ArchivedAreNotCreated' /\ ArchiveBehind' /\ BatchBehind'
  BY <1>1, <1>3 DEF SyncInv, ArchivedAreNotCreated, ArchivedIds,
                    ArchiveBehind, BatchBehind
<1>9. BatchIsLatest' /\ BatchStages' /\ IdsReserved'
  BY <1>1, <1>3 DEF SyncInv, BatchIsLatest, PatchOf, BatchStages, IdsReserved
<1>10. TerminalHasLatestPatch' /\ ArchiveFaithful'
  BY <1>1, <1>3 DEF SyncInv, TerminalHasLatestPatch, ArchiveFaithful,
                    ArchivedAs, IsLatest, PatchesOf
<1>11. QED
  BY <1>4, <1>5, <1>6, <1>7, <1>8, <1>9, <1>10 DEF SyncInv

(* The end of a workflow, however it ends: it drops the batch and leaves   *)
(* the storage alone.                                                      *)
LEMMA NextWorkflowInv ==
  ASSUME SyncInv, NextWorkflow, UNCHANGED handlerVars,
         unseen' \in Nat,
         unseen' <= notifications + notifying,
         archive' \subseteq Patch,
         ArchivedAreNotCreated', ArchiveBehind', TerminalHasLatestPatch',
         ArchiveFaithful',
         overtaken' = overtaken
  PROVE  SyncInv'
<1>1. HandlersInv' /\ IdsReserved'
  BY HandlerStutterInv DEF SyncInv, IdsReserved, handlerVars, storageVars
<1>2. UNCHANGED <<messages, notifying, notifications>>
  BY DEF handlerVars, storageVars
<1>3. /\ batch' = NoBatch /\ DOMAIN batch' = {} /\ unmarked' = {}
      /\ workflow' \in PendingStatus
      /\ \/ /\ stage' = "fetch" /\ message_count' = message_count
            /\ workflow' # "SyncPending"
         \/ stage' = "wait" /\ message_count' = 0 /\ workflow' = "SyncPending"
  BY DEF NextWorkflow, NoBatch, SyncInv, SyncTypeOK, PendingStatus
<1>4. SyncTypeOK'
  BY <1>1, <1>2, <1>3 DEF SyncInv, SyncTypeOK, HandlersInv, BatchIsEarlier
<1>5. UnseenNotified'
  BY <1>2, <1>3 DEF UnseenNotified
<1>6. ThresholdCounts'
  <2>1. /\ notifying \in Nat /\ notifications \in Nat /\ unseen' \in Nat
    BY DEF SyncInv, HandlersInv, TypeOK
  <2>2. QED
    BY <1>2, <1>3, <2>1, SyncAssumption DEF ThresholdCounts
<1>7. BatchBehind' /\ BatchIsLatest' /\ BatchStages'
  BY <1>3 DEF BatchBehind, BatchIsLatest, BatchStages, Patches
<1>8. QED
  BY <1>1, <1>4, <1>5, <1>6, <1>7 DEF SyncInv

(* The archive and the storage stand still. *)
LEMMA ArchiveStands ==
  ASSUME SyncInv, UNCHANGED handlerVars, UNCHANGED <<archive, overtaken>>
  PROVE  /\ ArchivedAreNotCreated' /\ ArchiveBehind'
         /\ TerminalHasLatestPatch' /\ ArchiveFaithful'
  BY DEF SyncInv, ArchivedAreNotCreated, ArchivedIds, ArchiveBehind,
         TerminalHasLatestPatch, ArchiveFaithful, ArchivedAs, IsLatest,
         PatchesOf, handlerVars, storageVars

LEMMA FetchInv ==
  ASSUME SyncInv, Fetch
  PROVE  SyncInv'
<1>1. PICK ids \in SUBSET DOMAIN messages :
          /\ IsBatch(ids)
          /\ IF ids = {}
             THEN NextWorkflow
             ELSE /\ batch' = [id \in ids |-> messages[id]]
                  /\ stage' = "upload"
                  /\ UNCHANGED <<workflow, unmarked, message_count>>
  BY DEF Fetch
<1>2. /\ stage = "fetch"
      /\ unseen' = IF workflow = "SyncPending" THEN 0 ELSE unseen
      /\ UNCHANGED handlerVars
      /\ archive' = archive /\ overtaken' = overtaken
  BY DEF Fetch
<1>3. unseen' \in Nat /\ unseen' <= notifications + notifying
  <2>1. notifications \in Nat /\ notifying \in Nat /\ unseen \in Nat
    BY DEF SyncInv, HandlersInv, TypeOK, SyncTypeOK
  <2>2. QED
    BY <1>2, <2>1 DEF SyncInv, UnseenNotified
<1>4. /\ ArchivedAreNotCreated' /\ ArchiveBehind' /\ TerminalHasLatestPatch'
      /\ ArchiveFaithful'
  BY <1>2, ArchiveStands
<1>5. CASE ids = {}
  BY <1>1, <1>2, <1>3, <1>4, <1>5, NextWorkflowInv DEF SyncInv, SyncTypeOK
<1>6. CASE ids # {}
  <2>1. /\ DOMAIN batch' = ids
        /\ \A id \in ids : batch'[id] = messages[id]
        /\ stage' = "upload"
        /\ UNCHANGED <<workflow, unmarked, message_count>>
    BY <1>1, <1>6
  <2>2. UNCHANGED <<messages, creating, notifying, notifications>>
    BY <1>2 DEF handlerVars, storageVars
  <2>3. \A id \in ids : messages[id].sync_status = workflow
    BY <1>1 DEF IsBatch, ByStatus
  <2>4. workflow \in PendingStatus
    BY DEF SyncInv, SyncTypeOK
  <2>5. \A id \in ids : /\ messages[id] \in Message
                        /\ messages[id].updated_at \in Nat
    BY MessagesTyped DEF SyncInv
  <2>6. HandlersInv' /\ IdsReserved'
    BY <1>2, HandlerStutterInv
       DEF SyncInv, IdsReserved, handlerVars, storageVars
  <2>7. unmarked = {}
    BY <1>2 DEF SyncInv, SyncTypeOK, BatchStages
  <2>8. SyncTypeOK'
    <3>1. BatchIsEarlier'
      BY <2>1, <2>2, <2>5, EarlierItself DEF BatchIsEarlier
    <3>2. QED
      BY <1>2, <1>3, <2>1, <2>2, <2>5, <2>6, <2>7, <3>1
         DEF SyncInv, SyncTypeOK, HandlersInv
  <2>9. BatchBehind'
    BY <2>1, <2>2, <2>3, <2>5 DEF BatchBehind
  <2>10. BatchIsLatest'
    <3> SUFFICES ASSUME NEW p \in archive, p.id \in ids
                 PROVE  /\ p.updated_at <= messages[p.id].updated_at
                        /\ p.updated_at = messages[p.id].updated_at
                               => p = PatchFor(p.id, messages[p.id], workflow)
      BY <1>2, <2>1 DEF BatchIsLatest, PatchOf, PatchFor
    <3>1. QED
      BY <2>3 DEF SyncInv, ArchiveBehind
  <2>11. BatchStages'
    BY <2>1, <2>2, <2>3, <2>4 DEF BatchStages
  <2>12. UnseenNotified' /\ ThresholdCounts'
    BY <1>3, <2>1, <2>2 DEF UnseenNotified, ThresholdCounts
  <2>13. QED
    BY <1>4, <2>6, <2>8, <2>9, <2>10, <2>11, <2>12 DEF SyncInv
<1>7. QED
  BY <1>5, <1>6

(* The quilt is stored while its messages are pending: the patches of      *)
(* messages in a terminal status stay as they are.                         *)
LEMMA QuiltStored ==
  ASSUME SyncInv, stage = "upload", UNCHANGED handlerVars,
         overtaken' = overtaken, archive' = archive \cup Patches
  PROVE  /\ ArchivedAreNotCreated' /\ ArchiveBehind'
         /\ TerminalHasLatestPatch' /\ ArchiveFaithful'
         /\ archive' \subseteq Patch
<1>1. UNCHANGED <<messages, creating>>
  BY DEF handlerVars, storageVars
<1>2. \A id \in DOMAIN batch :
          /\ id \in DOMAIN messages /\ id \in Ids
          /\ batch[id] \in Message
          /\ batch[id].updated_at \in Nat
          /\ messages[id].updated_at \in Nat
          /\ messages[id].sync_status \in PendingStatus
  BY MessagesTyped DEF SyncInv, SyncTypeOK, BatchStages, Message
<1>3. workflow \in PendingStatus
  BY DEF SyncInv, SyncTypeOK
<1>4. \A p \in Patches : /\ p.id \in DOMAIN batch
                         /\ p = PatchFor(p.id, batch[p.id], workflow)
                         /\ p.updated_at = batch[p.id].updated_at
  BY DEF Patches, PatchOf, PatchFor
<1>5. archive' \subseteq Patch
  <2>1. \A p \in Patches : p \in Patch
    BY <1>2, <1>3, <1>4, PatchForType
  <2>2. QED
    BY <2>1 DEF SyncInv, SyncTypeOK
<1>6. ArchivedAreNotCreated'
  BY <1>1, <1>2, <1>4
     DEF SyncInv, ArchivedAreNotCreated, ArchivedIds, IdsReserved
<1>7. ArchiveBehind'
  <2> SUFFICES ASSUME NEW p \in Patches
               PROVE  /\ p.updated_at <= messages[p.id].updated_at
                      /\ p.updated_at = messages[p.id].updated_at =>
                             /\ messages[p.id].sync_status \in PendingStatus
                             /\ p = PatchFor(p.id, messages[p.id],
                                             messages[p.id].sync_status)
    BY <1>1 DEF SyncInv, ArchiveBehind
  <2>1. QED
    BY <1>2, <1>4 DEF SyncInv, BatchBehind
<1>8. \A id \in DOMAIN messages :
          messages[id].sync_status \in TerminalStatus
              => PatchesOf(id)' = PatchesOf(id)
  BY <1>2, <1>4, StatusesDiffer DEF PatchesOf
<1>9. TerminalHasLatestPatch'
  <2> SUFFICES ASSUME NEW id \in DOMAIN messages,
                      messages[id].sync_status \in TerminalStatus
               PROVE  \E p \in PatchesOf(id) :
                          /\ p.updated_at = messages[id].quilt_patch_id
                          /\ IsLatest(p)'
    BY <1>1, <1>8 DEF TerminalHasLatestPatch
  <2>1. PICK p \in PatchesOf(id) :
            /\ p.updated_at = messages[id].quilt_patch_id
            /\ IsLatest(p)
    BY DEF SyncInv, TerminalHasLatestPatch
  <2>2. p.id = id
    BY DEF PatchesOf
  <2>3. IsLatest(p)'
    BY <1>8, <2>1, <2>2 DEF IsLatest
  <2>4. QED
    BY <2>1, <2>3
<1>10. ArchiveFaithful'
  <2> SUFFICES ASSUME NEW id \in DOMAIN messages \ overtaken,
                      messages[id].sync_status \in TerminalStatus
               PROVE  \E p \in PatchesOf(id) :
                          /\ IsLatest(p)'
                          /\ p.revision = messages[id].revision
                          /\ p.sync_status = messages[id].sync_status
    BY <1>1, <1>8 DEF ArchiveFaithful, ArchivedAs
  <2>1. PICK p \in PatchesOf(id) :
            /\ IsLatest(p)
            /\ p.revision = messages[id].revision
            /\ p.sync_status = messages[id].sync_status
    BY DEF SyncInv, ArchiveFaithful, ArchivedAs
  <2>2. p.id = id
    BY DEF PatchesOf
  <2>3. IsLatest(p)'
    BY <1>8, <2>1, <2>2 DEF IsLatest
  <2>4. QED
    BY <2>1, <2>3
<1>11. QED
  BY <1>5, <1>6, <1>7, <1>9, <1>10

LEMMA StoreQuiltInv ==
  ASSUME SyncInv, NEW ids \in SUBSET DOMAIN batch, StoreQuilt(ids)
  PROVE  SyncInv'
<1>1. /\ stage = "upload" /\ stage' = "mark" /\ unmarked' = ids
      /\ archive' = archive \cup Patches
      /\ UNCHANGED handlerVars
      /\ UNCHANGED <<workflow, batch, message_count, overtaken, unseen>>
  BY DEF StoreQuilt
<1>2. /\ ArchivedAreNotCreated' /\ ArchiveBehind' /\ TerminalHasLatestPatch'
      /\ ArchiveFaithful' /\ archive' \subseteq Patch
  BY <1>1, QuiltStored
<1>3. UNCHANGED <<messages, creating, notifying, notifications>>
  BY <1>1 DEF handlerVars, storageVars
<1>4. HandlersInv' /\ IdsReserved'
  BY <1>1, HandlerStutterInv DEF SyncInv, IdsReserved, handlerVars, storageVars
<1>5. SyncTypeOK'
  BY <1>1, <1>2, <1>3, <1>4 DEF SyncInv, SyncTypeOK, HandlersInv, BatchIsEarlier
<1>6. BatchBehind'
  BY <1>1, <1>3 DEF SyncInv, BatchBehind
<1>7. BatchIsLatest'
  <2>1. \A p \in Patches : p = PatchOf(p.id)
                           /\ p.updated_at = batch[p.id].updated_at
                           /\ p.id \in DOMAIN batch
    BY DEF Patches, PatchOf
  <2>2. \A id \in DOMAIN batch : batch[id].updated_at \in Nat
    BY DEF SyncInv, SyncTypeOK, Message
  <2>3. \A id : PatchOf(id)' = PatchOf(id)
    BY <1>1 DEF PatchOf
  <2>4. \A p \in archive : p.id \in DOMAIN batch =>
            /\ p.updated_at <= batch[p.id].updated_at
            /\ p.updated_at = batch[p.id].updated_at => p = PatchOf(p.id)
    BY DEF SyncInv, BatchIsLatest
  <2> SUFFICES ASSUME NEW p \in archive \cup Patches, p.id \in DOMAIN batch
               PROVE  /\ p.updated_at <= batch[p.id].updated_at
                      /\ p.updated_at = batch[p.id].updated_at
                             => p = PatchOf(p.id)
    BY <1>1, <2>3 DEF BatchIsLatest
  <2>5. QED
    BY <2>1, <2>2, <2>4
<1>8. BatchStages'
  <2>1. Patches' = Patches
    BY <1>1 DEF Patches, PatchOf
  <2>2. QED
    BY <1>1, <2>1 DEF BatchStages
<1>9. UnseenNotified' /\ ThresholdCounts'
  BY <1>1, <1>3 DEF SyncInv, UnseenNotified, ThresholdCounts
<1>10. QED
  BY <1>2, <1>4, <1>5, <1>6, <1>7, <1>8, <1>9 DEF SyncInv

LEMMA StoreQuiltFailsInv ==
  ASSUME SyncInv, StoreQuiltFails
  PROVE  SyncInv'
<1>1. /\ stage = "upload" /\ NextWorkflow
      /\ archive' \in {archive, archive \cup Patches}
      /\ UNCHANGED handlerVars
      /\ overtaken' = overtaken /\ unseen' = unseen
  BY DEF StoreQuiltFails
<1>2. unseen \in Nat /\ unseen <= notifications + notifying
  BY <1>1 DEF SyncInv, SyncTypeOK, UnseenNotified
<1>3. /\ ArchivedAreNotCreated' /\ ArchiveBehind' /\ TerminalHasLatestPatch'
      /\ ArchiveFaithful' /\ archive' \subseteq Patch
  <2>1. CASE archive' = archive
    BY <1>1, <2>1, ArchiveStands DEF SyncInv, SyncTypeOK
  <2>2. CASE archive' = archive \cup Patches
    BY <1>1, <2>2, QuiltStored
  <2>3. QED
    BY <1>1, <2>1, <2>2
<1>4. QED
  BY <1>1, <1>2, <1>3, NextWorkflowInv

LEMMA EndWorkflowInv ==
  ASSUME SyncInv, EndWorkflow
  PROVE  SyncInv'
<1>1. /\ stage = "mark" /\ NextWorkflow
      /\ UNCHANGED handlerVars
      /\ archive' = archive /\ overtaken' = overtaken /\ unseen' = unseen
  BY DEF EndWorkflow
<1>2. unseen \in Nat /\ unseen <= notifications + notifying
  BY <1>1 DEF SyncInv, SyncTypeOK, UnseenNotified
<1>3. /\ ArchivedAreNotCreated' /\ ArchiveBehind' /\ TerminalHasLatestPatch'
      /\ ArchiveFaithful' /\ archive' \subseteq Patch
  BY <1>1, ArchiveStands DEF SyncInv, SyncTypeOK
<1>4. QED
  BY <1>1, <1>2, <1>3, NextWorkflowInv

(* What marking does to the message. *)
LEMMA MarkShape ==
  ASSUME SyncInv, NEW x \in Ids, Mark(x)
  PROVE  /\ x \in unmarked /\ x \in DOMAIN batch /\ x \in DOMAIN messages
         /\ DOMAIN messages' = DOMAIN messages
         /\ messages' = [i \in DOMAIN messages' |-> messages'[i]]
         /\ \A i \in DOMAIN messages : i # x => messages'[i] = messages[i]
         /\ messages'[x] \in Message
         /\ messages'[x].group_id = messages[x].group_id
         /\ messages'[x].sender = messages[x].sender
         /\ messages'[x].order = messages[x].order
         /\ messages'[x].nonce = messages[x].nonce
         /\ messages'[x].revision = messages[x].revision
         /\ messages'[x].sync_status = Target(workflow)
         /\ messages'[x].updated_at = messages[x].updated_at + 1
         /\ messages'[x].quilt_patch_id = batch[x].updated_at
<1>1. x \in unmarked /\ x \in DOMAIN batch /\ x \in DOMAIN messages
  BY DEF Mark, SyncInv, SyncTypeOK
<1>2. messages[x] \in Message /\ batch[x].updated_at \in Nat
  BY <1>1, MessagesTyped DEF SyncInv, SyncTypeOK, Message
<1>3. Target(workflow) \in TerminalStatus
  BY TargetType DEF SyncInv, SyncTypeOK
<1> DEFINE marked == [messages[x] EXCEPT
                          !.sync_status = Target(workflow),
                          !.updated_at = messages[x].updated_at + 1,
                          !.quilt_patch_id = batch[x].updated_at]
<1>4. messages' = [messages EXCEPT ![x] = marked]
  BY DEF Mark, UpdateSyncStatus
<1>5. marked \in Message
  <2>1. /\ Target(workflow) \in SyncStatus
        /\ messages[x].updated_at + 1 \in Nat
    BY <1>2, <1>3 DEF SyncStatus, Message
  <2>2. \A s \in SyncStatus, k \in Nat, q \in Nat :
            [messages[x] EXCEPT !.sync_status = s, !.updated_at = k,
                                !.quilt_patch_id = q] \in Message
    BY <1>2, Zenon DEF Message
  <2>3. QED
    BY <1>2, <2>1, <2>2
<1>6. /\ marked.group_id = messages[x].group_id
      /\ marked.sender = messages[x].sender
      /\ marked.order = messages[x].order
      /\ marked.nonce = messages[x].nonce
      /\ marked.revision = messages[x].revision
      /\ marked.sync_status = Target(workflow)
      /\ marked.updated_at = messages[x].updated_at + 1
      /\ marked.quilt_patch_id = batch[x].updated_at
  BY <1>2 DEF Message
<1> HIDE DEF marked
<1>7. /\ DOMAIN messages' = DOMAIN messages
      /\ messages' = [i \in DOMAIN messages' |-> messages'[i]]
      /\ \A i \in DOMAIN messages : i # x => messages'[i] = messages[i]
      /\ messages'[x] = marked
  BY <1>1, <1>4
<1>8. QED
  BY <1>1, <1>5, <1>6, <1>7

LEMMA MarkHandlersInv ==
  ASSUME SyncInv, NEW x \in Ids, Mark(x)
  PROVE  HandlersInv'
<1>1. UNCHANGED <<group_orders, nonces, creating, modifying, notifying,
                  notifications, restarts>>
  BY DEF Mark
<1>2. /\ DOMAIN messages' = DOMAIN messages
      /\ messages' = [i \in DOMAIN messages' |-> messages'[i]]
      /\ \A i \in DOMAIN messages :
             /\ messages'[i] \in Message
             /\ messages'[i].group_id = messages[i].group_id
             /\ messages'[i].sender = messages[i].sender
             /\ messages'[i].order = messages[i].order
             /\ messages'[i].nonce = messages[i].nonce
  BY MarkShape, MessagesTyped DEF SyncInv
<1>3. TypeOK'
  BY <1>1, <1>2 DEF SyncInv, HandlersInv, TypeOK, StorageTypeOK
<1>4. OrdersUnique' /\ OrdersReserved'
  BY <1>1, <1>2 DEF SyncInv, HandlersInv, OrdersUnique, OrdersReserved
<1>5. NoncesExact'
  <2>1. nonces' = {messages'[i].nonce : i \in DOMAIN messages'}
    BY <1>1, <1>2 DEF SyncInv, HandlersInv, NoncesExact
  <2>2. QED
    BY <1>2, <2>1 DEF SyncInv, HandlersInv, NoncesExact
<1>6. ChecksStillHold'
  BY <1>1, <1>2 DEF SyncInv, HandlersInv, ChecksStillHold
<1>7. QED
  BY <1>3, <1>4, <1>5, <1>6 DEF HandlersInv

LEMMA MarkInv ==
  ASSUME SyncInv, NEW x \in Ids, Mark(x)
  PROVE  SyncInv'
<1>1. /\ stage = "mark"
      /\ unmarked' = unmarked \ {x}
      /\ overtaken' = IF WrittenSince(x) THEN overtaken \cup {x} ELSE overtaken
      /\ UNCHANGED <<creating, notifying, notifications>>
      /\ UNCHANGED <<stage, workflow, batch, message_count, archive, unseen>>
  BY DEF Mark
<1>2. HandlersInv'
  BY MarkHandlersInv
<1>3. /\ x \in DOMAIN batch /\ x \in DOMAIN messages
      /\ DOMAIN messages' = DOMAIN messages
      /\ \A i \in DOMAIN messages : i # x => messages'[i] = messages[i]
      /\ messages'[x].revision = messages[x].revision
      /\ messages'[x].sync_status = Target(workflow)
      /\ messages'[x].updated_at = messages[x].updated_at + 1
      /\ messages'[x].quilt_patch_id = batch[x].updated_at
  BY MarkShape
<1>4. /\ \A i \in DOMAIN messages : messages[i].updated_at \in Nat
      /\ \A i \in DOMAIN batch : batch[i].updated_at \in Nat
      /\ \A p \in archive : p.updated_at \in Nat
  BY MessagesTyped DEF SyncInv, SyncTypeOK, Message, Patch
<1>5. SyncTypeOK' /\ IdsReserved' /\ ArchivedAreNotCreated'
  <2>1. overtaken' \subseteq DOMAIN messages'
    BY <1>1, <1>3 DEF SyncInv, SyncTypeOK
  <2>2. BatchIsEarlier'
    <3>1. IsEarlier(batch[x], messages'[x])
      <4>1. /\ batch[x] \in Message /\ messages[x] \in Message
            /\ messages'[x] \in Message /\ IsEarlier(batch[x], messages[x])
        BY <1>3, MarkShape, MessagesTyped DEF SyncInv, SyncTypeOK, BatchIsEarlier
      <4>2. /\ messages'[x].group_id = messages[x].group_id
            /\ messages'[x].sender = messages[x].sender
            /\ messages'[x].order = messages[x].order
            /\ messages'[x].revision >= messages[x].revision
            /\ messages'[x].updated_at > messages[x].updated_at
        BY <1>3, <1>4, <4>1, MarkShape DEF Message
      <4>3. QED
        BY <4>1, <4>2, EarlierStays
    <3>2. QED
      BY <1>1, <1>3, <3>1 DEF SyncInv, SyncTypeOK, BatchIsEarlier
  <2>3. QED
    BY <1>1, <1>2, <1>3, <2>1, <2>2
       DEF SyncInv, SyncTypeOK, HandlersInv, IdsReserved,
           ArchivedAreNotCreated, ArchivedIds
<1>6. ArchiveBehind'
  BY <1>1, <1>3, <1>4 DEF SyncInv, ArchiveBehind
<1>7. BatchBehind'
  <2>1. \A id \in DOMAIN batch : id \in DOMAIN messages
    BY DEF SyncInv, SyncTypeOK
  <2>2. QED
    BY <1>1, <1>3, <1>4, <2>1 DEF SyncInv, BatchBehind
<1>8. BatchIsLatest' /\ BatchStages' /\ UnseenNotified' /\ ThresholdCounts'
  <2>1. Patches' = Patches /\ \A id : PatchOf(id)' = PatchOf(id)
    BY <1>1 DEF Patches, PatchOf
  <2>2. QED
    BY <1>1, <2>1 DEF SyncInv, BatchIsLatest, BatchStages, UnseenNotified,
                      ThresholdCounts
<1>9. \A id : PatchesOf(id)' = PatchesOf(id)
  BY <1>1 DEF PatchesOf
<1>10. \A p : IsLatest(p)' = IsLatest(p)
  BY <1>1 DEF IsLatest, PatchesOf
<1> DEFINE px == PatchOf(x)
<1>11. /\ px \in PatchesOf(x) /\ px.updated_at = batch[x].updated_at
       /\ px.revision = batch[x].revision
       /\ px.sync_status = Target(workflow)
       /\ px.id = x
  BY <1>1, <1>3 DEF SyncInv, BatchStages, Patches, PatchOf, PatchesOf
<1>12. IsLatest(px)
  BY <1>3, <1>11 DEF SyncInv, BatchIsLatest, IsLatest, PatchesOf
<1> HIDE DEF px
<1>13. TerminalHasLatestPatch'
  <2> SUFFICES ASSUME NEW id \in DOMAIN messages,
                      messages'[id].sync_status \in TerminalStatus
               PROVE  \E p \in PatchesOf(id) :
                          /\ p.updated_at = messages'[id].quilt_patch_id
                          /\ IsLatest(p)
    BY <1>3, <1>9, <1>10 DEF TerminalHasLatestPatch
  <2>1. CASE id = x
    BY <1>3, <1>11, <1>12, <2>1
  <2>2. CASE id # x
    BY <1>3, <2>2 DEF SyncInv, TerminalHasLatestPatch
  <2>3. QED
    BY <2>1, <2>2
<1>14. ArchiveFaithful'
  <2> SUFFICES ASSUME NEW id \in DOMAIN messages \ overtaken',
                      messages'[id].sync_status \in TerminalStatus
               PROVE  \E p \in PatchesOf(id) :
                          /\ IsLatest(p)
                          /\ p.revision = messages'[id].revision
                          /\ p.sync_status = messages'[id].sync_status
    BY <1>3, <1>9, <1>10 DEF ArchiveFaithful, ArchivedAs
  <2>1. CASE id = x
    <3>1. ~WrittenSince(x)
      BY <1>1, <2>1
    <3>2. batch[x] = messages[x]
      BY <1>3, <3>1 DEF WrittenSince, SyncInv, BatchBehind
    <3>3. QED
      BY <1>3, <1>11, <1>12, <2>1, <3>2
  <2>2. CASE id # x
    <3>1. id \notin overtaken
      BY <1>1
    <3>2. QED
      BY <1>3, <2>2, <3>1 DEF SyncInv, ArchiveFaithful, ArchivedAs
  <2>3. QED
    BY <2>1, <2>2
<1>15. QED
  BY <1>2, <1>5, <1>6, <1>7, <1>8, <1>13, <1>14 DEF SyncInv

-----------------------------------------------------------------------------
(* The handlers' steps, between any two of the worker's *)

(* A message is written, or none is: what was archived of it gets older. *)
LEMMA HandlerKeepsSyncInv ==
  ASSUME SyncInv, HandlerStep, HandlersInv', IdsReserved', KeepsMessages,
         TakesId(FreshIds \ ArchivedIds)
  PROVE  SyncInv'
<1>1. /\ UNCHANGED <<stage, workflow, batch, unmarked, message_count>>
      /\ archive' = archive
      /\ overtaken' = {id \in overtaken : messages'[id] = messages[id]}
      /\ unseen' = unseen + Cardinality(DOMAIN messages' \ DOMAIN messages)
  BY DEF HandlerStep, workerVars
<1>2. /\ DOMAIN messages' = DOMAIN messages
      /\ \A i \in DOMAIN messages :
             \/ messages'[i] = messages[i]
             \/ /\ messages'[i].sync_status \in PendingStatus
                /\ messages'[i].updated_at = messages[i].updated_at + 1
  BY DEF KeepsMessages, WrittenAs
<1>3. /\ \A i \in DOMAIN messages : messages[i].updated_at \in Nat
      /\ \A i \in DOMAIN batch : batch[i].updated_at \in Nat
      /\ \A p \in archive : p.updated_at \in Nat
      /\ \A i \in DOMAIN batch : i \in DOMAIN messages
  BY MessagesTyped DEF SyncInv, SyncTypeOK, Message, Patch
<1>4. unseen' = unseen
  <2>1. DOMAIN messages' \ DOMAIN messages = {}
    BY <1>2
  <2>2. Cardinality(DOMAIN messages' \ DOMAIN messages) = 0
    BY <2>1, FS_EmptySet
  <2>3. QED
    BY <1>1, <2>2 DEF SyncInv, SyncTypeOK
<1>5. SyncTypeOK'
  <2>1. ASSUME NEW id \in DOMAIN batch
        PROVE  IsEarlier(batch[id], messages'[id])
    <3>1. /\ batch[id] \in Message /\ messages[id] \in Message
          /\ IsEarlier(batch[id], messages[id])
          /\ messages'[id] = messages[id] \/ WrittenAs(messages[id], messages'[id])
      BY <1>3, MessagesTyped DEF SyncInv, SyncTypeOK, BatchIsEarlier, KeepsMessages
    <3>2. CASE WrittenAs(messages[id], messages'[id])
      <4>1. messages'[id].updated_at > messages[id].updated_at
        BY <1>3, <3>2 DEF WrittenAs
      <4>2. QED
        BY <3>1, <3>2, <4>1, EarlierStays DEF WrittenAs
    <3>3. QED
      BY <3>1, <3>2
  <2>2. BatchIsEarlier'
    BY <1>1, <2>1 DEF BatchIsEarlier
  <2>3. QED
    BY <1>1, <1>2, <1>4, <2>2 DEF SyncInv, SyncTypeOK, HandlersInv
<1>6. ArchivedAreNotCreated'
  BY <1>1 DEF SyncInv, ArchivedAreNotCreated, ArchivedIds, TakesId
<1>7. ArchiveBehind' /\ BatchBehind'
  BY <1>1, <1>2, <1>3 DEF SyncInv, ArchiveBehind, BatchBehind
<1>8. BatchIsLatest' /\ BatchStages'
  <2>1. Patches' = Patches /\ \A id : PatchOf(id)' = PatchOf(id)
    BY <1>1 DEF Patches, PatchOf
  <2>2. QED
    BY <1>1, <1>2, <1>3, <2>1 DEF SyncInv, BatchIsLatest, BatchStages
<1>9. UnseenNotified' /\ ThresholdCounts'
  <2>1. /\ notifying \in Nat /\ notifications \in Nat /\ message_count \in Nat
        /\ notifying' \in Nat /\ notifications' \in Nat
    BY DEF SyncInv, SyncTypeOK, HandlersInv, TypeOK
  <2>2. unseen \in Nat
    BY DEF SyncInv, SyncTypeOK
  <2>3. \/ UNCHANGED <<notifying, notifications>>
        \/ notifying' = notifying - 1 /\ notifications' = notifications + 1
    BY DEF KeepsMessages
  <2>4. /\ notifications' + notifying' = notifications + notifying
        /\ message_count + notifications' + notifying'
               = message_count + notifications + notifying
    <3>1. CASE UNCHANGED <<notifying, notifications>>
      BY <3>1
    <3>2. CASE notifying' = notifying - 1 /\ notifications' = notifications + 1
      BY <2>1, <3>2
    <3>3. QED
      BY <2>3, <3>1, <3>2
  <2>5. UnseenNotified'
    <3>1. UNCHANGED <<stage, workflow, unseen>>
      BY <1>1, <1>4
    <3>2. notifications' + notifying' = notifications + notifying
      BY <2>4
    <3>3. QED
      BY <3>1, <3>2 DEF SyncInv, UnseenNotified
  <2>6. ThresholdCounts'
    BY <1>1, <1>4, <2>4 DEF SyncInv, ThresholdCounts
  <2>7. QED
    BY <2>5, <2>6
<1>10. /\ \A id : PatchesOf(id)' = PatchesOf(id)
       /\ \A p : IsLatest(p)' = IsLatest(p)
  BY <1>1 DEF IsLatest, PatchesOf
<1>11. TerminalHasLatestPatch'
  BY <1>2, <1>10, StatusesDiffer DEF SyncInv, TerminalHasLatestPatch
<1>12. ArchiveFaithful'
  <2> SUFFICES ASSUME NEW id \in DOMAIN messages \ overtaken',
                      messages'[id].sync_status \in TerminalStatus
               PROVE  \E p \in PatchesOf(id) :
                          /\ IsLatest(p)
                          /\ p.revision = messages'[id].revision
                          /\ p.sync_status = messages'[id].sync_status
    BY <1>2, <1>10 DEF ArchiveFaithful, ArchivedAs
  <2>1. messages'[id] = messages[id]
    BY <1>2, StatusesDiffer
  <2>2. id \notin overtaken
    BY <1>1, <2>1
  <2>3. QED
    BY <2>1, <2>2 DEF SyncInv, ArchiveFaithful, ArchivedAs
<1>13. QED
  BY <1>5, <1>6, <1>7, <1>8, <1>9, <1>11, <1>12 DEF SyncInv

(* A message is stored: it has no patch, and a notification is on the way. *)
LEMMA HandlerStoresSyncInv ==
  ASSUME SyncInv, HandlerStep, HandlersInv', IdsReserved',
         NEW r \in creating, Stores(r)
  PROVE  SyncInv'
<1>1. /\ UNCHANGED <<stage, workflow, batch, unmarked, message_count>>
      /\ archive' = archive
      /\ overtaken' = {id \in overtaken : messages'[id] = messages[id]}
      /\ unseen' = unseen + Cardinality(DOMAIN messages' \ DOMAIN messages)
  BY DEF HandlerStep, workerVars
<1>2. /\ r.id \notin DOMAIN messages
      /\ DOMAIN messages' = DOMAIN messages \cup {r.id}
      /\ \A i \in DOMAIN messages : messages'[i] = messages[i]
      /\ messages'[r.id].sync_status \in PendingStatus
      /\ creating' = creating \ {r}
      /\ notifying' = notifying + 1 /\ notifications' = notifications
  BY DEF Stores, NewMessage, PendingStatus
<1>3. r.id \notin ArchivedIds
  BY DEF SyncInv, ArchivedAreNotCreated
<1>4. \A p \in archive : p.id # r.id
  BY <1>3 DEF ArchivedIds
<1>5. unseen' = unseen + 1
  <2>1. DOMAIN messages' \ DOMAIN messages = {r.id}
    BY <1>2
  <2>2. Cardinality(DOMAIN messages' \ DOMAIN messages) = 1
    BY <2>1, FS_Singleton
  <2>3. QED
    BY <1>1, <2>2
<1>6. \A i \in DOMAIN batch : i \in DOMAIN messages
  BY DEF SyncInv, SyncTypeOK
<1>7. SyncTypeOK'
  BY <1>1, <1>2, <1>5, <1>6 DEF SyncInv, SyncTypeOK, HandlersInv, BatchIsEarlier
<1>8. ArchivedAreNotCreated'
  BY <1>1, <1>2 DEF SyncInv, ArchivedAreNotCreated, ArchivedIds
<1>9. ArchiveBehind' /\ BatchBehind'
  BY <1>1, <1>2, <1>4, <1>6 DEF SyncInv, ArchiveBehind, BatchBehind
<1>10. BatchIsLatest' /\ BatchStages'
  <2>1. Patches' = Patches /\ \A id : PatchOf(id)' = PatchOf(id)
    BY <1>1 DEF Patches, PatchOf
  <2>2. QED
    BY <1>1, <1>2, <1>6, <2>1 DEF SyncInv, BatchIsLatest, BatchStages
<1>11. UnseenNotified' /\ ThresholdCounts'
  <2>1. /\ notifying \in Nat /\ notifications \in Nat /\ message_count \in Nat
        /\ notifying' \in Nat /\ notifications' \in Nat
    BY DEF SyncInv, SyncTypeOK, HandlersInv, TypeOK
  <2>2. unseen \in Nat
    BY DEF SyncInv, SyncTypeOK
  <2>3. QED
    BY <1>1, <1>2, <1>5, <2>1, <2>2 DEF SyncInv, UnseenNotified, ThresholdCounts
<1>12. /\ \A id : PatchesOf(id)' = PatchesOf(id)
       /\ \A p : IsLatest(p)' = IsLatest(p)
  BY <1>1 DEF IsLatest, PatchesOf
<1>13. TerminalHasLatestPatch'
  BY <1>2, <1>12, StatusesDiffer DEF SyncInv, TerminalHasLatestPatch
<1>14. ArchiveFaithful'
  <2> SUFFICES ASSUME NEW id \in DOMAIN messages' \ overtaken',
                      messages'[id].sync_status \in TerminalStatus
               PROVE  \E p \in PatchesOf(id) :
                          /\ IsLatest(p)
                          /\ p.revision = messages'[id].revision
                          /\ p.sync_status = messages'[id].sync_status
    BY <1>12 DEF ArchiveFaithful, ArchivedAs
  <2>1. id \in DOMAIN messages /\ messages'[id] = messages[id]
    BY <1>2, StatusesDiffer
  <2>2. id \notin overtaken
    BY <1>1, <2>1
  <2>3. QED
    BY <2>1, <2>2 DEF SyncInv, ArchiveFaithful, ArchivedAs
<1>15. QED
  BY <1>7, <1>8, <1>9, <1>10, <1>11, <1>13, <1>14 DEF SyncInv

LEMMA HandlerStepSyncInv ==
  ASSUME SyncInv, HandlerStep
  PROVE  SyncInv'
<1>1. /\ HandlerNext(FreshIds \ ArchivedIds)
      /\ FreshIds \ ArchivedIds \subseteq FreshIds
      /\ FreshIds \subseteq Ids
  BY DEF HandlerStep, FreshIds
<1>2. HandlerNext(Ids)
  BY <1>1 DEF HandlerNext, PostMessage
<1>3. HandlersInv'
  BY <1>2, HandlerNextInv DEF SyncInv
<1>4. IdsReserved'
  BY <1>1, HandlerStepReservesIds DEF SyncInv
<1>5. \/ KeepsMessages /\ TakesId(FreshIds \ ArchivedIds)
      \/ \E r \in creating : Stores(r)
  BY <1>1, HandlerStepShape DEF SyncInv
<1>6. QED
  BY <1>3, <1>4, <1>5, HandlerKeepsSyncInv, HandlerStoresSyncInv

(* After a restart there is nothing but the archive. *)
LEMMA SyncRestartInv ==
  ASSUME SyncInv, Restart
  PROVE  SyncInv'
<1>1. HandlersInv'
  BY RestartInv DEF SyncInv, Restart
<1>2. DOMAIN messages' = {} /\ creating' = {} /\ notifying' = 0
      /\ notifications' = 0
  BY DEF Restart, LoseHandlerState
<1>3. /\ stage' = "wait" /\ workflow' = "SyncPending" /\ DOMAIN batch' = {}
      /\ unmarked' = {} /\ message_count' = 0 /\ overtaken' = {}
      /\ unseen' = 0 /\ archive' = archive
  BY DEF Restart, NoBatch
<1>4. SyncTypeOK'
  BY <1>1, <1>3
  DEF SyncInv, SyncTypeOK, HandlersInv, PendingStatus, BatchIsEarlier
<1>5. ThresholdCounts' /\ UnseenNotified'
  BY <1>2, <1>3, SyncAssumption DEF ThresholdCounts, UnseenNotified
<1>6. QED
  BY <1>1, <1>2, <1>3, <1>4, <1>5
     DEF SyncInv, IdsReserved, ArchivedAreNotCreated, ArchiveBehind,
         BatchBehind, BatchIsLatest, BatchStages, TerminalHasLatestPatch,
         ArchiveFaithful

LEMMA SyncStutterInv ==
  ASSUME SyncInv, UNCHANGED vars
  PROVE  SyncInv'
<1>1. UNCHANGED handlerVars
      /\ UNCHANGED <<stage, workflow, batch, unmarked, message_count,
                     archive, overtaken, unseen>>
  BY DEF vars, workerVars
<1>2. HandlersInv'
  BY <1>1, HandlerStutterInv DEF SyncInv
<1>3. UNCHANGED <<messages, creating, notifying, notifications>>
  BY <1>1 DEF handlerVars, storageVars
<1>4. /\ SyncTypeOK' /\ UnseenNotified' /\ ThresholdCounts' /\ IdsReserved'
      /\ BatchBehind'
  BY <1>1, <1>2, <1>3
     DEF SyncInv, SyncTypeOK, HandlersInv, UnseenNotified, ThresholdCounts,
         IdsReserved, BatchBehind, BatchIsEarlier
<1>5. BatchIsLatest' /\ BatchStages'
  BY <1>1, <1>3 DEF SyncInv, BatchIsLatest, PatchOf, BatchStages, Patches
<1>6. QED
  BY <1>1, <1>2, <1>4, <1>5, ArchiveStands DEF SyncInv

-----------------------------------------------------------------------------

LEMMA SyncNextInv ==
  ASSUME SyncInv, [SyncNext]_vars
  PROVE  SyncInv'
<1>1. CASE WorkerNext
  BY <1>1, TimerTickInv, ReceiveNotificationInv, FetchInv, StoreQuiltInv,
     StoreQuiltFailsInv, MarkInv, EndWorkflowInv DEF WorkerNext
<1>2. QED
  BY <1>1, HandlerStepSyncInv, SyncRestartInv, SyncStutterInv DEF SyncNext

(* The inductive invariant of the worker beside the handlers. *)
THEOREM SyncInvariant == SyncSpec => []SyncInv
<1>1. SyncInit => SyncInv
  BY SyncInitInv
<1>2. SyncInv /\ [SyncNext]_vars => SyncInv'
  BY SyncNextInv
<1>3. QED
  BY <1>1, <1>2, PTL DEF SyncSpec

(* The worker's state is well typed, and it only holds stored messages.    *)
THEOREM SyncTypesCorrect == SyncSpec => []SyncTypeOK
  BY SyncInvariant, PTL DEF SyncInv

(* A status of Synced, Updated or Deleted in memory.rs is only ever set on *)
(* a message whose newest patch on Walrus is the one it points at.         *)
THEOREM TerminalMessagesArchived == SyncSpec => []TerminalHasLatestPatch
  BY SyncInvariant, PTL DEF SyncInv

(* What sync_messages marks without a write in between is on Walrus with   *)
(* its content and its deletion.                                           *)
THEOREM ArchiveIsFaithful == SyncSpec => []ArchiveFaithful
  BY SyncInvariant, PTL DEF SyncInv

(* The worker's count of new messages is never behind the storage by more  *)
(* than the notifications under way, and a full count starts a cycle.      *)
THEOREM ThresholdIsCounted == SyncSpec => []ThresholdCounts
  BY SyncInvariant, PTL DEF SyncInv

(* A patch is new on Walrus only if it is newer than every other patch of  *)
(* its message: repeating an upload repeats the patches it stored.         *)
LEMMA UploadInOrder ==
  ASSUME SyncInv, [SyncNext]_vars,
         NEW p \in archive' \ archive, NEW q \in PatchesOf(p.id)
  PROVE  q.updated_at < p.updated_at
<1>1. /\ p \in Patches
  <2>1. CASE WorkerNext
    BY <2>1 DEF WorkerNext, TimerTick, ReceiveNotification, Fetch,
                StoreQuilt, StoreQuiltFails, Mark, EndWorkflow
  <2>2. QED
    BY <2>1 DEF SyncNext, HandlerStep, Restart, vars
<1>2. PICK id \in DOMAIN batch : p = PatchOf(id)
  BY <1>1 DEF Patches
<1>3. p.id = id /\ p.updated_at = batch[id].updated_at
  BY <1>2 DEF PatchOf
<1>4. q \in archive /\ q.id = id
  BY <1>3 DEF PatchesOf
<1>5. q # p
  BY <1>4
<1>6. /\ q.updated_at <= batch[id].updated_at
      /\ q.updated_at # batch[id].updated_at
  BY <1>2, <1>4, <1>5 DEF SyncInv, BatchIsLatest
<1>7. q.updated_at \in Nat /\ batch[id].updated_at \in Nat
  BY <1>4 DEF SyncInv, SyncTypeOK, Patch, Message
<1>8. QED
  BY <1>3, <1>6, <1>7

(* Readers may take the patch with the latest updated_at, although uploads *)
(* fail, lose their response and are repeated.                             *)
THEOREM UploadsAreInOrder == SyncSpec => UploadsInOrder
<1>1. SyncInv /\ [SyncNext]_vars
          => [\A p \in archive' \ archive : \A q \in PatchesOf(p.id) :
                  q.updated_at < p.updated_at]_vars
  BY UploadInOrder
<1>2. QED
  BY <1>1, SyncInvariant, PTL DEF SyncSpec, UploadsInOrder

-----------------------------------------------------------------------------
(***************************************************************************)
(* Subscription, for every storage, page size and number of requests in    *)
(* flight.  That the order of delivery is right depends on the handlers'   *)
(* invariant (OrdersUnique makes the cursor a position) and on             *)
(* PageIsExact: a page holds every message up to its last one, whatever    *)
(* was stored since it was fetched, except those that came late.           *)
(***************************************************************************)


(* Ids that are known to the subscriber are not drawn again. *)
KnownAreNotCreated == \A r \in creating : r.id \notin KnownIds

(* highest bounds every order that was ever stored, fetched or received. *)
HighestBounds ==
    /\ cursor <= highest
    /\ \A id \in DOMAIN page : page[id] <= highest
    /\ \A id \in InGroup(messages) : messages[id].order <= highest

(* A page has distinct orders, those of the messages still stored, and     *)
(* misses no message between its own but those that came late.             *)
PageIsExact ==
    /\ \A i, j \in DOMAIN page : page[i] = page[j] => i = j
    /\ \A id \in DOMAIN page \cap InGroup(messages) :
           page[id] = messages[id].order
    /\ \A id \in DOMAIN page \cap DOMAIN messages :
           messages[id].group_id = Group
    /\ \A i \in InGroup(messages), p \in DOMAIN page :
           messages[i].order <= page[p]
               => i \in delivered \cup late \cup DOMAIN page

(* What was delivered and is still stored lies behind the cursor. *)
DeliveredBehind ==
    \A id \in delivered \cap DOMAIN messages : messages[id].order <= cursor

SubscriptionInv ==
    /\ HandlersInv
    /\ IdsReserved
    /\ SubscriptionTypeOK
    /\ IsFiniteSet(DOMAIN page)
    /\ KnownAreNotCreated
    /\ HighestBounds
    /\ PageIsExact
    /\ DeliveredBehind
    /\ PageIsAhead
    /\ SkipsOnlyLate

LEMMA GroupOrders ==
  ASSUME HandlersInv
  PROVE  /\ \A i \in DOMAIN messages : messages[i].order \in Nat \ {0}
         /\ \A i, j \in InGroup(messages) :
                messages[i].order = messages[j].order => i = j
         /\ InGroup(messages) \subseteq Ids
<1>1. \A i \in DOMAIN messages : /\ messages[i].group_id \in Groups
                                 /\ messages[i].order \in Nat
  BY DEF HandlersInv, TypeOK, StorageTypeOK, Message
<1>2. \A g \in Groups : group_orders[g] \in Nat
  BY DEF HandlersInv, TypeOK, StorageTypeOK
<1>3. \A i \in DOMAIN messages : messages[i].order # 0
  BY <1>1, <1>2 DEF HandlersInv, OrdersReserved
<1>4. QED
  BY <1>1, <1>3
     DEF HandlersInv, OrdersUnique, InGroup, TypeOK, StorageTypeOK

LEMMA SubscriptionInitInv == SubscriptionInit => SubscriptionInv
<1> SUFFICES ASSUME SubscriptionInit
             PROVE  SubscriptionInv
  OBVIOUS
<1>1. HandlersInv
  BY InitInv DEF SubscriptionInit
<1>2. DOMAIN page = {} /\ DOMAIN messages = {} /\ creating = {}
  BY DEF SubscriptionInit, NoPage, Init, StorageInit
<1>3. IsFiniteSet(DOMAIN page) /\ Cardinality(DOMAIN page) = 0
  BY <1>2, FS_EmptySet
<1>4. QED
  BY <1>1, <1>2, <1>3, SubscriptionAssumption
     DEF SubscriptionInit, SubscriptionInv, IdsReserved, SubscriptionTypeOK,
         HandlersInv, KnownAreNotCreated, HighestBounds, PageIsExact,
         DeliveredBehind, PageIsAhead, SkipsOnlyLate, InGroup

-----------------------------------------------------------------------------

(* A page is fetched. *)
LEMMA PollInv ==
  ASSUME SubscriptionInv, Poll
  PROVE  SubscriptionInv'
<1> USE DEF SubscriptionInv
<1>1. PICK ids \in SUBSET InGroup(messages) \ {{}} :
          /\ IsPage(ids, cursor)
          /\ page' = [id \in ids |-> messages[id].order]
  BY DEF Poll
<1>2. UNCHANGED <<handlerVars, cursor, delivered, historyVars>>
  BY DEF Poll
<1>3. HandlersInv' /\ IdsReserved'
  BY <1>2, HandlerStutterInv DEF handlerVars, storageVars, IdsReserved
<1>4. DOMAIN page' = ids /\ \A id \in ids : page'[id] = messages[id].order
  BY <1>1
<1>5. \A id \in ids : /\ id \in InGroup(messages) /\ id \in Ids
                      /\ messages[id].order \in Nat
                      /\ messages[id].order > cursor
  BY <1>1, GroupOrders DEF IsPage, After, InGroup
<1>6. IsFiniteSet(ids) /\ Cardinality(ids) <= PageLimit
  <2>1. IsFiniteSet(ids)
    BY <1>5, SubscriptionAssumption, FS_Subset
  <2>2. Cardinality(ids) \in Nat
    BY <2>1, FS_CardinalityType
  <2>3. QED
    BY <1>1, <2>1, <2>2, SubscriptionAssumption DEF IsPage
<1>7. SubscriptionTypeOK'
  BY <1>2, <1>3, <1>4, <1>5, <1>6
     DEF SubscriptionTypeOK, HandlersInv, historyVars
<1>8. KnownAreNotCreated'
  BY <1>2, <1>4, <1>5
     DEF KnownAreNotCreated, KnownIds, IdsReserved, InGroup, handlerVars,
         storageVars, historyVars
<1>9. HighestBounds'
  BY <1>2, <1>4, <1>5 DEF HighestBounds, InGroup, handlerVars, storageVars,
                          historyVars
<1>10. PageIsExact'
  <2>1. \A i \in InGroup(messages), p \in ids :
            messages[i].order <= messages[p].order
                => i \in delivered \cup late \cup ids
    <3> SUFFICES ASSUME NEW i \in InGroup(messages), NEW p \in ids,
                        messages[i].order <= messages[p].order,
                        i \notin ids
                 PROVE  i \in delivered \cup late
      OBVIOUS
    <3>1. messages[i].order \in Nat /\ messages[p].order \in Nat
      BY <1>5, GroupOrders DEF InGroup
    <3>2. i \notin After(cursor)
      BY <1>1, <3>1 DEF IsPage
    <3>3. cursor \in Nat
      BY DEF SubscriptionTypeOK
    <3>4. messages[i].order <= cursor
      BY <3>1, <3>2, <3>3 DEF After
    <3>5. QED
      BY <3>4 DEF SkipsOnlyLate
  <2>2. InGroup(messages)' = InGroup(messages) /\ messages' = messages
        /\ delivered' = delivered /\ late' = late
    BY <1>2 DEF InGroup, handlerVars, storageVars, historyVars
  <2>3. \A i, j \in ids : messages[i].order = messages[j].order => i = j
    BY <1>5, GroupOrders
  <2>4. QED
    BY <1>4, <1>5, <2>1, <2>2, <2>3 DEF PageIsExact, InGroup
<1>11. DeliveredBehind' /\ SkipsOnlyLate'
  BY <1>2 DEF DeliveredBehind, SkipsOnlyLate, InGroup, handlerVars,
              storageVars, historyVars
<1>12. PageIsAhead'
  <2>1. cursor \in Nat
    BY DEF SubscriptionTypeOK
  <2>2. \A id \in ids : id \notin delivered
    BY <1>5, <2>1 DEF DeliveredBehind, InGroup
  <2>3. QED
    BY <1>2, <1>4, <1>5, <2>2 DEF PageIsAhead
<1>13. QED
  BY <1>3, <1>4, <1>6, <1>7, <1>8, <1>9, <1>10, <1>11, <1>12

(* The next message of the page is yielded. *)
LEMMA YieldInv ==
  ASSUME SubscriptionInv, NEW x \in Ids, Yield(x)
  PROVE  SubscriptionInv'
<1> USE DEF SubscriptionInv
<1>1. /\ x \in DOMAIN page
      /\ \A other \in DOMAIN page : page[x] <= page[other]
      /\ delivered' = delivered \cup {x}
      /\ cursor' = page[x]
      /\ DOMAIN page' = DOMAIN page \ {x}
      /\ \A i \in DOMAIN page' : page'[i] = page[i]
  BY DEF Yield
<1>2. UNCHANGED <<handlerVars, historyVars>>
  BY DEF Yield
<1>3. HandlersInv' /\ IdsReserved'
  BY <1>2, HandlerStutterInv DEF handlerVars, storageVars, IdsReserved
<1>4. /\ InGroup(messages)' = InGroup(messages) /\ messages' = messages
      /\ late' = late /\ highest' = highest /\ creating' = creating
  BY <1>2 DEF InGroup, handlerVars, storageVars, historyVars
<1>5. \A id \in DOMAIN page : page[id] \in Nat
  BY DEF SubscriptionTypeOK
<1>6. cursor \in Nat /\ cursor < page[x]
  BY <1>1, <1>5 DEF SubscriptionTypeOK, PageIsAhead
<1>7. \A i \in DOMAIN messages : messages[i].order \in Nat
  BY GroupOrders
<1>8. /\ IsFiniteSet(DOMAIN page')
      /\ Cardinality(DOMAIN page') <= PageLimit
  <2>1. /\ IsFiniteSet(DOMAIN page \ {x})
        /\ Cardinality(DOMAIN page \ {x}) = Cardinality(DOMAIN page) - 1
    BY <1>1, FS_RemoveElement
  <2>2. Cardinality(DOMAIN page) \in Nat
    BY FS_CardinalityType
  <2>3. Cardinality(DOMAIN page) <= PageLimit /\ PageLimit \in Nat
    BY SubscriptionAssumption DEF SubscriptionTypeOK
  <2>4. QED
    BY <1>1, <2>1, <2>2, <2>3
<1>9. SubscriptionTypeOK'
  BY <1>1, <1>3, <1>4, <1>5, <1>8 DEF SubscriptionTypeOK, HandlersInv
<1>10. KnownAreNotCreated'
  BY <1>1, <1>4 DEF KnownAreNotCreated, KnownIds
<1>11. HighestBounds'
  BY <1>1, <1>4 DEF HighestBounds
<1>12. PageIsExact'
  BY <1>1, <1>4 DEF PageIsExact
<1>13. DeliveredBehind'
  <2>1. \A id \in delivered \cap DOMAIN messages : messages[id].order <= page[x]
    BY <1>1, <1>5, <1>6, <1>7 DEF DeliveredBehind
  <2>2. x \in DOMAIN messages => messages[x].order <= page[x]
    BY <1>1, <1>5 DEF PageIsExact, InGroup
  <2>3. QED
    BY <1>1, <1>4, <2>1, <2>2 DEF DeliveredBehind
<1>14. PageIsAhead'
  BY <1>1, <1>5 DEF PageIsAhead, PageIsExact
<1>15. SkipsOnlyLate'
  <2> SUFFICES ASSUME NEW i \in InGroup(messages),
                      messages[i].order <= page[x]
               PROVE  i \in delivered \cup {x} \cup late
    BY <1>1, <1>4 DEF SkipsOnlyLate
  <2>1. CASE i \in DOMAIN page
    <3>1. page[i] = messages[i].order
      BY <2>1 DEF PageIsExact
    <3>2. page[i] = page[x]
      BY <1>1, <1>5, <2>1, <3>1
    <3>3. QED
      BY <1>1, <2>1, <3>2 DEF PageIsExact
  <2>2. QED
    BY <1>1, <2>1 DEF PageIsExact
<1>16. QED
  BY <1>3, <1>8, <1>9, <1>10, <1>11, <1>12, <1>13, <1>14, <1>15

(* The rest of a page is given up. *)
LEMMA ResubscribeInv ==
  ASSUME SubscriptionInv, Resubscribe
  PROVE  SubscriptionInv'
<1> USE DEF SubscriptionInv
<1>1. DOMAIN page' = {}
  BY DEF Resubscribe, NoPage
<1>2. UNCHANGED <<handlerVars, cursor, delivered, historyVars>>
  BY DEF Resubscribe
<1>3. HandlersInv' /\ IdsReserved'
  BY <1>2, HandlerStutterInv DEF handlerVars, storageVars, IdsReserved
<1>4. IsFiniteSet(DOMAIN page') /\ Cardinality(DOMAIN page') = 0
  BY <1>1, FS_EmptySet
<1>5. QED
  BY <1>1, <1>2, <1>3, <1>4, SubscriptionAssumption
     DEF HandlersInv, SubscriptionTypeOK, KnownAreNotCreated, KnownIds,
         HighestBounds, PageIsExact, DeliveredBehind, PageIsAhead,
         SkipsOnlyLate, InGroup, handlerVars, storageVars, historyVars

-----------------------------------------------------------------------------

(* A handler moves without storing a new message. *)
LEMMA HandlerKeepsInv ==
  ASSUME SubscriptionInv, HandlersMove, HandlersInv', IdsReserved',
         KeepsMessages, TakesId(FreshIds \ KnownIds)
  PROVE  SubscriptionInv'
<1> USE DEF SubscriptionInv
<1>1. /\ DOMAIN messages' = DOMAIN messages
      /\ \A i \in DOMAIN messages :
             /\ messages'[i].group_id = messages[i].group_id
             /\ messages'[i].order = messages[i].order
  BY DEF KeepsMessages, WrittenAs
<1>2. InGroup(messages') = InGroup(messages)
  BY <1>1 DEF InGroup
<1>3. late' = late /\ highest' = highest
  BY <1>1, <1>2 DEF HandlersMove, Stored, InGroup
<1>4. UNCHANGED <<cursor, page, delivered>>
  BY DEF HandlersMove, subscriberVars
<1>5. SubscriptionTypeOK' /\ IsFiniteSet(DOMAIN page')
  BY <1>3, <1>4 DEF SubscriptionTypeOK, HandlersInv
<1>6. KnownAreNotCreated'
  BY <1>3, <1>4 DEF KnownAreNotCreated, KnownIds, TakesId
<1>7. /\ HighestBounds' /\ PageIsExact' /\ DeliveredBehind' /\ PageIsAhead'
      /\ SkipsOnlyLate'
  BY <1>1, <1>2, <1>3, <1>4
     DEF HighestBounds, PageIsExact, DeliveredBehind, PageIsAhead,
         SkipsOnlyLate, InGroup
<1>8. QED
  BY <1>5, <1>6, <1>7

(* A handler stores a message: behind what was stored before, and then it  *)
(* is late, or ahead of everything.                                        *)
LEMMA HandlerStoresInv ==
  ASSUME SubscriptionInv, HandlersMove, HandlersInv', IdsReserved',
         NEW r \in creating, Stores(r)
  PROVE  SubscriptionInv'
<1> USE DEF SubscriptionInv
<1> DEFINE new == r.group_id = Group
<1>1. /\ r \in CreateRequest /\ r.order \in Nat /\ r.id \in Ids
      /\ highest \in Nat
  BY DEF HandlersInv, TypeOK, CreateRequest, SubscriptionTypeOK
<1>2. /\ messages'[r.id].group_id = r.group_id
      /\ messages'[r.id].order = r.order
      /\ r.id \notin DOMAIN messages
      /\ DOMAIN messages' = DOMAIN messages \cup {r.id}
      /\ \A i \in DOMAIN messages : messages'[i] = messages[i]
  BY DEF Stores, NewMessage
<1>3. UNCHANGED <<cursor, page, delivered>>
  BY DEF HandlersMove, subscriberVars
<1>4. r.id \notin delivered \cup late \cup DOMAIN page
  BY DEF KnownAreNotCreated, KnownIds
<1>5. Stored = IF new THEN {r.id} ELSE {}
  BY <1>2 DEF Stored, InGroup
<1>6. InGroup(messages') = InGroup(messages) \cup Stored
  BY <1>2 DEF Stored, InGroup
<1>7. \/ /\ ~new /\ late' = late /\ highest' = highest
      \/ /\ new /\ r.order <= highest /\ late' = late \cup {r.id}
         /\ highest' = highest
      \/ /\ new /\ r.order > highest /\ late' = late /\ highest' = r.order
  <2>1. late' = late \cup {id \in Stored : messages'[id].order <= highest}
    BY DEF HandlersMove
  <2>2. highest' =
           IF \E id \in Stored : messages'[id].order > highest
           THEN messages'[CHOOSE id \in Stored : messages'[id].order > highest]
                    .order
           ELSE highest
    BY DEF HandlersMove
  <2>3. CASE ~new
    BY <1>5, <2>1, <2>2, <2>3
  <2>4. CASE new /\ r.order <= highest
    BY <1>1, <1>2, <1>5, <2>1, <2>2, <2>4
  <2>5. CASE new /\ r.order > highest
    <3>1. Stored = {r.id} /\ messages'[r.id].order > highest
      BY <1>2, <1>5, <2>5
    <3>2. (CHOOSE id \in Stored : messages'[id].order > highest) = r.id
      BY <3>1
    <3>3. highest' = r.order
      BY <1>2, <2>2, <3>1, <3>2
    <3>4. late' = late
      BY <1>1, <1>2, <2>1, <2>5, <3>1
    <3>5. QED
      BY <2>5, <3>3, <3>4
  <2>6. QED
    BY <1>1, <2>3, <2>4, <2>5
<1>8. /\ highest' \in Nat /\ highest <= highest'
      /\ late \subseteq late' /\ late' \subseteq late \cup {r.id}
      /\ new => r.order <= highest'
      /\ new => r.id \in late' \/ r.order > highest
  BY <1>1, <1>7
<1> HIDE DEF new
<1>9. /\ cursor \in Nat /\ \A id \in DOMAIN page : page[id] \in Nat
      /\ \A id \in DOMAIN messages : messages[id].order \in Nat
  BY GroupOrders DEF SubscriptionTypeOK
<1>10. SubscriptionTypeOK' /\ IsFiniteSet(DOMAIN page')
  BY <1>1, <1>3, <1>8 DEF SubscriptionTypeOK, HandlersInv
<1>11. KnownAreNotCreated'
  <2>1. creating' = creating \ {r}
    BY DEF Stores
  <2>2. \A s \in creating' : s.id # r.id
    BY <2>1 DEF IdsReserved
  <2>3. QED
    BY <1>3, <1>8, <2>1, <2>2 DEF KnownAreNotCreated, KnownIds
<1>12. HighestBounds'
  BY <1>1, <1>2, <1>3, <1>5, <1>6, <1>8, <1>9 DEF HighestBounds, InGroup
<1>13. PageIsExact'
  <2>1. \A i \in InGroup(messages'), p \in DOMAIN page :
            messages'[i].order <= page[p]
                => i \in delivered \cup late' \cup DOMAIN page
    <3> SUFFICES ASSUME NEW i \in InGroup(messages'), NEW p \in DOMAIN page,
                        messages'[i].order <= page[p]
                 PROVE  i \in delivered \cup late' \cup DOMAIN page
      OBVIOUS
    <3>1. CASE i \in InGroup(messages)
      BY <1>2, <1>8, <3>1 DEF PageIsExact, InGroup
    <3>2. CASE i = r.id /\ new
      <4>1. r.order <= highest
        BY <1>1, <1>2, <1>9, <3>2 DEF HighestBounds
      <4>2. QED
        BY <1>1, <1>8, <3>2, <4>1
    <3>3. QED
      BY <1>5, <1>6, <3>1, <3>2
  <2>2. DOMAIN page \cap DOMAIN messages' = DOMAIN page \cap DOMAIN messages
    BY <1>2, <1>4
  <2>3. QED
    BY <1>2, <1>3, <2>1, <2>2 DEF PageIsExact, InGroup
<1>14. DeliveredBehind'
  BY <1>2, <1>3, <1>4 DEF DeliveredBehind
<1>15. PageIsAhead'
  BY <1>3 DEF PageIsAhead
<1>16. SkipsOnlyLate'
  <2> SUFFICES ASSUME NEW i \in InGroup(messages'),
                      messages'[i].order <= cursor
               PROVE  i \in delivered \cup late'
    BY <1>3 DEF SkipsOnlyLate
  <2>1. CASE i \in InGroup(messages)
    BY <1>2, <1>8, <2>1 DEF SkipsOnlyLate, InGroup
  <2>2. CASE i = r.id /\ new
    <3>1. r.order <= highest
      BY <1>1, <1>2, <1>9, <2>2 DEF HighestBounds
    <3>2. QED
      BY <1>1, <1>8, <2>2, <3>1
  <2>3. QED
    BY <1>5, <1>6, <2>1, <2>2
<1>17. QED
  BY <1>10, <1>11, <1>12, <1>13, <1>14, <1>15, <1>16

LEMMA HandlerStepInv ==
  ASSUME SubscriptionInv, HandlersMove
  PROVE  SubscriptionInv'
<1>1. /\ HandlerNext(FreshIds \ KnownIds)
      /\ FreshIds \ KnownIds \subseteq FreshIds
      /\ FreshIds \subseteq Ids
  BY DEF HandlersMove, FreshIds
<1>2. HandlerNext(Ids)
  BY <1>1 DEF HandlerNext, PostMessage
<1>3. HandlersInv'
  BY <1>2, HandlerNextInv DEF SubscriptionInv
<1>4. IdsReserved'
  BY <1>1, HandlerStepReservesIds DEF SubscriptionInv
<1>5. \/ KeepsMessages /\ TakesId(FreshIds \ KnownIds)
      \/ \E r \in creating : Stores(r)
  BY <1>1, HandlerStepShape DEF SubscriptionInv
<1>6. QED
  BY <1>3, <1>4, <1>5, HandlerKeepsInv, HandlerStoresInv

(* The relayer forgets everything; the subscriber keeps what it has. *)
LEMMA SubscriptionRestartInv ==
  ASSUME SubscriptionInv, RelayerRestart
  PROVE  SubscriptionInv'
<1>1. HandlersInv'
  BY RestartInv DEF SubscriptionInv, RelayerRestart
<1>2. DOMAIN messages' = {} /\ creating' = {}
  BY DEF RelayerRestart, LoseHandlerState
<1>3. UNCHANGED <<cursor, page, delivered, highest, late>>
  BY DEF RelayerRestart, subscriberVars, historyVars
<1>4. QED
  BY <1>1, <1>2, <1>3
     DEF SubscriptionInv, IdsReserved, SubscriptionTypeOK, HandlersInv,
         KnownAreNotCreated, HighestBounds, PageIsExact, DeliveredBehind,
         PageIsAhead, SkipsOnlyLate, InGroup

LEMMA SubscriptionStutterInv ==
  ASSUME SubscriptionInv, UNCHANGED subscriptionVars
  PROVE  SubscriptionInv'
<1>1. HandlersInv'
  BY HandlerStutterInv DEF SubscriptionInv, subscriptionVars
<1>2. UNCHANGED <<cursor, page, delivered, highest, late, messages, creating>>
  BY DEF subscriptionVars, subscriberVars, historyVars, handlerVars, storageVars
<1>3. QED
  BY <1>1, <1>2
     DEF SubscriptionInv, IdsReserved, SubscriptionTypeOK, HandlersInv,
         KnownAreNotCreated, KnownIds, HighestBounds, PageIsExact,
         DeliveredBehind, PageIsAhead, SkipsOnlyLate, InGroup

-----------------------------------------------------------------------------

THEOREM SubscriptionInvariant == SubscriptionSpec => []SubscriptionInv
<1>1. SubscriptionInit => SubscriptionInv
  BY SubscriptionInitInv
<1>2. SubscriptionInv /\ [SubscriptionNext]_subscriptionVars => SubscriptionInv'
  BY PollInv, YieldInv, ResubscribeInv, HandlerStepInv,
     SubscriptionRestartInv, SubscriptionStutterInv
     DEF SubscriptionNext, SubscriberNext
<1>3. QED
  BY <1>1, <1>2, PTL DEF SubscriptionSpec

(* The subscriber's state is well typed, and no page exceeds its limit. *)
THEOREM SubscriptionTypesCorrect == SubscriptionSpec => []SubscriptionTypeOK
  BY SubscriptionInvariant, PTL DEF SubscriptionInv

(* subscribe yields in ascending order and yields no message twice.        *)
THEOREM PagesStayAhead == SubscriptionSpec => []PageIsAhead
  BY SubscriptionInvariant, PTL DEF SubscriptionInv

(* A subscriber of any page size misses a stored message only when it was  *)
(* stored behind a higher order.                                           *)
THEOREM OnlyLateMessagesAreSkipped == SubscriptionSpec => []SkipsOnlyLate
  BY SubscriptionInvariant, PTL DEF SubscriptionInv
=============================================================================
