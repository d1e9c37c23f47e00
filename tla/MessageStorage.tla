---------------------------- MODULE MessageStorage ----------------------------
(***************************************************************************)
(* The relayer's in-memory message storage: InMemoryStorage of             *)
(* relayer/src/storage/memory.rs and the Message of                        *)
(* relayer/src/models/message.rs.                                          *)
(*                                                                         *)
(* The storage keeps three maps, each behind a lock of its own.  Every     *)
(* operator below is what one critical section does; the operations that   *)
(* take two locks one after the other (create_message) are split into two  *)
(* steps by the module that calls them, MessageHandlers.                   *)
(*                                                                         *)
(* Ciphertext, key version, attachments, signature and public key are      *)
(* always replaced together, so they are one revision number.  A           *)
(* timestamp only matters relative to the others of the same message, so   *)
(* updated_at counts the writes to the message, and the patch id of a      *)
(* quilt is the updated_at of the snapshot that was uploaded in it.        *)
(***************************************************************************)
EXTENDS Integers, FiniteSets

CONSTANTS
    Ids,        \* message ids (UUID v4)
    Groups,     \* group ids
    Addresses,  \* wallet addresses
    Nonces      \* AES-GCM nonces

VARIABLES
    messages,      \* every stored message, by id
    group_orders,  \* the last order handed out in each group (0: none yet)
    nonces         \* the nonces of the stored messages

storageVars == <<messages, group_orders, nonces>>

-----------------------------------------------------------------------------

PendingStatus  == {"SyncPending", "UpdatePending", "DeletePending"}
TerminalStatus == {"Synced", "Updated", "Deleted"}
SyncStatus     == PendingStatus \cup TerminalStatus

CreatedAt == 1   \* the created_at of every message, and its first updated_at
NoPatch   == 0   \* quilt_patch_id: None

Message ==
    [group_id: Groups, sender: Addresses, order: Nat, nonce: Nonces,
     revision: Nat, sync_status: SyncStatus, updated_at: Nat,
     quilt_patch_id: Nat]

(* What GET /messages reports of a message. *)
IsDeleted(m) == m.sync_status \in {"DeletePending", "Deleted"}
IsEdited(m)  == m.updated_at # CreatedAt

(* Message::new followed by set_order. *)
NewMessage(r) ==
    [group_id |-> r.group_id, sender |-> r.sender, order |-> r.order,
     nonce |-> r.nonce, revision |-> 0, sync_status |-> "SyncPending",
     updated_at |-> CreatedAt, quilt_patch_id |-> NoPatch]

(* Message::update_content.  Mutant: the write leaves updated_at alone. *)
UpdateContentKeepingTime(m, n) ==
    [m EXCEPT !.nonce = n, !.revision = @ + 1,
              !.sync_status = "UpdatePending"]

UpdateContent(m, n) ==
    [m EXCEPT !.nonce = n, !.revision = @ + 1,
              !.sync_status = "UpdatePending", !.updated_at = @ + 1]

(* Message::mark_for_deletion. *)
MarkForDeletion(m) ==
    [m EXCEPT !.sync_status = "DeletePending", !.updated_at = @ + 1]

-----------------------------------------------------------------------------

(* HashMap::insert. *)
Put(map, k, v) == [x \in DOMAIN map \cup {k} |-> IF x = k THEN v ELSE map[x]]

(* next_order: one past the last order of the group, under its own lock.   *)
(* Mutant: the counter is read but never advanced.                         *)
TakeOrderWithoutAdvancing(g) == UNCHANGED group_orders

NextOrder(g) == group_orders[g] + 1

TakeOrder(g) == group_orders' = [group_orders EXCEPT ![g] = NextOrder(g)]

(* create_message, second half: under messages and nonces.                 *)
(* Mutant: the nonce is not looked up.                                     *)
IdConflictsOnly(r) == r.id \in DOMAIN messages

IdConflicts(r) == r.id \in DOMAIN messages \/ r.nonce \in nonces

CreateMessage(r) ==
    /\ messages' = Put(messages, r.id, NewMessage(r))
    /\ nonces' = nonces \cup {r.nonce}

(* update_message: the nonce must be the message's own or a new one.       *)
(* Mutant: the old nonce is never released.                                *)
NonceConflicts(id, n) == messages[id].nonce # n /\ n \in nonces

ReplaceNonceKeepingOld(id, n) == nonces' = nonces \cup {n}

ReplaceNonce(id, n) == nonces' = (nonces \ {messages[id].nonce}) \cup {n}

UpdateMessage(id, n) ==
    /\ messages' = [messages EXCEPT ![id] = UpdateContent(@, n)]
    /\ ReplaceNonce(id, n)

(* delete_message: a soft delete; message and nonce stay. *)
DeleteMessage(id) ==
    messages' = [messages EXCEPT ![id] = MarkForDeletion(@)]

(* update_sync_status: whatever the current status is.                     *)
(* Mutant: the patch id of the upload is not recorded.                     *)
UpdateSyncStatusWithoutPatch(id, status, patch) ==
    messages' = [messages EXCEPT ![id].sync_status = status,
                                 ![id].updated_at = @ + 1]

UpdateSyncStatus(id, status, patch) ==
    messages' = [messages EXCEPT ![id].sync_status = status,
                                 ![id].updated_at = @ + 1,
                                 ![id].quilt_patch_id = patch]

(* get_messages_by_sync_status, before the limit is applied. *)
ByStatus(status) ==
    {id \in DOMAIN messages : messages[id].sync_status = status}

-----------------------------------------------------------------------------

StorageInit ==
    /\ messages = [id \in {} |-> 0]
    /\ group_orders = [g \in Groups |-> 0]
    /\ nonces = {}

StorageTypeOK ==
    /\ DOMAIN messages \subseteq Ids
    /\ \A id \in DOMAIN messages : messages[id] \in Message
    /\ messages = [id \in DOMAIN messages |-> messages[id]]
    /\ group_orders \in [Groups -> Nat]
    /\ nonces \subseteq Nonces
=============================================================================
