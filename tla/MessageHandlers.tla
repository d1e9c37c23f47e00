---------------------------- MODULE MessageHandlers ----------------------------
(***************************************************************************)
(* The HTTP handlers of relayer/src/handlers/messages/handlers.rs over the *)
(* storage.  Requests are served by concurrent tasks, so every handler is  *)
(* cut where it lets others in: between taking an order and storing the    *)
(* message (two locks), between the ownership check and the write it       *)
(* guards (two storage calls), and between storing a message and notifying *)
(* the Walrus worker.                                                      *)
(*                                                                         *)
(* A request is modelled from the moment its validation succeeded: one     *)
(* refused for its encoding, its signature or its nonce length changes     *)
(* nothing.  auth is the (address, group) pair that the authentication     *)
(* middleware verified.                                                    *)
(***************************************************************************)
EXTENDS MessageStorage

CONSTANTS
    MaxOrder,     \* bound: orders handed out in a group
    MaxUpdates,   \* bound: writes to a message that still accepts requests
    MaxInFlight,  \* bound: requests being served at the same time
    MaxRestarts   \* bound: restarts of the process

ASSUME BoundsAssumption ==
    /\ MaxOrder \in Nat
    /\ MaxUpdates \in Nat
    /\ MaxInFlight \in Nat
    /\ MaxRestarts \in Nat

VARIABLES
    creating,       \* POSTs that hold an order and have not stored yet
    modifying,      \* PUTs and DELETEs past their ownership check
    notifying,      \* how many POSTs have stored and not notified yet
    notifications,  \* messages in the unbounded channel to the Walrus worker
    restarts        \* restarts so far

handlerVars == <<storageVars, creating, modifying, notifying, notifications,
                 restarts>>

-----------------------------------------------------------------------------

CreateRequest ==
    [id: Ids, group_id: Groups, sender: Addresses, nonce: Nonces, order: Nat]

ModifyRequest ==
    [op: {"PUT"}, id: Ids, group_id: Groups, sender: Addresses, nonce: Nonces]
    \cup [op: {"DELETE"}, id: Ids, group_id: Groups, sender: Addresses]

HasRoom == Cardinality(creating) + Cardinality(modifying) < MaxInFlight

(* Uuid::new_v4 never repeats an id that is in use. *)
FreshIds == {id \in Ids \ DOMAIN messages : \A r \in creating : r.id # id}

(* create_message up to next_order. *)
BeginCreate(id, auth, n) ==
    /\ HasRoom
    /\ NextOrder(auth.group_id) <= MaxOrder
    /\ TakeOrder(auth.group_id)
    /\ creating' = creating \cup
           {[id |-> id, group_id |-> auth.group_id, sender |-> auth.sender,
             nonce |-> n, order |-> NextOrder(auth.group_id)]}
    /\ UNCHANGED <<messages, nonces, modifying, notifying, notifications,
                   restarts>>

(* create_message from the messages lock on: refused with 409, the order   *)
(* that was taken is never used; or stored.                                *)
RefuseCreate(r) ==
    /\ IdConflicts(r)
    /\ creating' = creating \ {r}
    /\ UNCHANGED <<storageVars, modifying, notifying, notifications, restarts>>

(* Mutant: the worker is never told. *)
StoreCreateSilently(r) ==
    /\ ~IdConflicts(r)
    /\ CreateMessage(r)
    /\ creating' = creating \ {r}
    /\ UNCHANGED <<group_orders, modifying, notifying, notifications, restarts>>

StoreCreate(r) ==
    /\ ~IdConflicts(r)
    /\ CreateMessage(r)
    /\ creating' = creating \ {r}
    /\ notifying' = notifying + 1
    /\ UNCHANGED <<group_orders, modifying, notifications, restarts>>

(* sync_notifier.send, the last step of a successful POST.                 *)
(* Mutant: sent by requests that stored nothing too.                       *)
NotifyAlways ==
    /\ notifying' = notifying - 1
    /\ notifications' = notifications + 1
    /\ notifications < MaxOrder
    /\ UNCHANGED <<storageVars, creating, modifying, restarts>>

NotifySync ==
    /\ notifying > 0
    /\ notifying' = notifying - 1
    /\ notifications' = notifications + 1
    /\ UNCHANGED <<storageVars, creating, modifying, restarts>>

(* The checks update_message and delete_message make on the message they   *)
(* read first.  Mutant: the sender is not compared.                        *)
MayModifyAnyones(auth, id) ==
    /\ id \in DOMAIN messages
    /\ messages[id].group_id = auth.group_id

MayModify(auth, id) ==
    /\ id \in DOMAIN messages
    /\ messages[id].group_id = auth.group_id
    /\ messages[id].sender = auth.sender

BeginModify(id, auth, request) ==
    /\ HasRoom
    /\ MayModify(auth, id)
    /\ messages[id].updated_at < MaxUpdates
    /\ modifying' = modifying \cup {request}
    /\ UNCHANGED <<storageVars, creating, notifying, notifications, restarts>>

BeginUpdate(id, auth, n) ==
    BeginModify(id, auth, [op |-> "PUT", id |-> id, nonce |-> n,
                           group_id |-> auth.group_id, sender |-> auth.sender])

BeginDelete(id, auth) ==
    BeginModify(id, auth, [op |-> "DELETE", id |-> id,
                           group_id |-> auth.group_id, sender |-> auth.sender])

(* storage.update_message: refused with 409, or applied to whatever the    *)
(* message has become since it was checked.                                *)
RefuseUpdate(r) ==
    /\ r.op = "PUT"
    /\ NonceConflicts(r.id, r.nonce)
    /\ modifying' = modifying \ {r}
    /\ UNCHANGED <<storageVars, creating, notifying, notifications, restarts>>

StoreUpdate(r) ==
    /\ r.op = "PUT"
    /\ ~NonceConflicts(r.id, r.nonce)
    /\ UpdateMessage(r.id, r.nonce)
    /\ modifying' = modifying \ {r}
    /\ UNCHANGED <<group_orders, creating, notifying, notifications, restarts>>

StoreDelete(r) ==
    /\ r.op = "DELETE"
    /\ DeleteMessage(r.id)
    /\ modifying' = modifying \ {r}
    /\ UNCHANGED <<group_orders, nonces, creating, notifying, notifications,
                   restarts>>

(* The process restarts: everything it kept in memory is gone. *)
LoseHandlerState ==
    /\ restarts < MaxRestarts
    /\ restarts' = restarts + 1
    /\ messages' = [id \in {} |-> 0]
    /\ group_orders' = [g \in Groups |-> 0]
    /\ nonces' = {}
    /\ creating' = {}
    /\ modifying' = {}
    /\ notifying' = 0
    /\ notifications' = 0

Auth == [sender: Addresses, group_id: Groups]

PostMessage(fresh) ==
    \E id \in fresh, auth \in Auth, n \in Nonces : BeginCreate(id, auth, n)

FinishCreate == \E r \in creating : RefuseCreate(r) \/ StoreCreate(r)

ModifyMessage ==
    \E id \in Ids, auth \in Auth :
        \/ \E n \in Nonces : BeginUpdate(id, auth, n)
        \/ BeginDelete(id, auth)

FinishModify ==
    \E r \in modifying : RefuseUpdate(r) \/ StoreUpdate(r) \/ StoreDelete(r)

HandlerNext(fresh) ==
    \/ PostMessage(fresh)
    \/ FinishCreate
    \/ NotifySync
    \/ ModifyMessage
    \/ FinishModify

Init ==
    /\ StorageInit
    /\ creating = {}
    /\ modifying = {}
    /\ notifying = 0
    /\ notifications = 0
    /\ restarts = 0

Next == HandlerNext(FreshIds) \/ LoseHandlerState

Spec == Init /\ [][Next]_handlerVars

-----------------------------------------------------------------------------
(* Properties *)

(* The storage and every request in flight have their types, and no        *)
(* counter runs away.                                                      *)
TypeOK ==
    /\ StorageTypeOK
    /\ creating \subseteq CreateRequest
    /\ modifying \subseteq ModifyRequest
    /\ notifying \in Nat
    /\ notifications \in Nat
    /\ restarts \in 0..MaxRestarts

(* No two messages of a group have the same order, however many POSTs are  *)
(* between next_order and the insert (memory.rs create_message): the       *)
(* cursor of every reader depends on it.                                   *)
OrdersUnique ==
    \A i, j \in DOMAIN messages :
        /\ messages[i].group_id = messages[j].group_id
        /\ messages[i].order = messages[j].order
        => i = j

(* An order belongs to one POST from next_order on: no other POST, no      *)
(* stored message and no later order of the counter repeats it, also when  *)
(* the POST that took it is refused in the end.                            *)
OrdersReserved ==
    /\ \A id \in DOMAIN messages :
           messages[id].order \in 1..group_orders[messages[id].group_id]
    /\ \A r \in creating :
           /\ r.order \in 1..group_orders[r.group_id]
           /\ \A s \in creating :
                  r.group_id = s.group_id /\ r.order = s.order => r = s
           /\ \A id \in DOMAIN messages :
                  r.group_id = messages[id].group_id
                      => r.order # messages[id].order

(* The nonce set that rejects duplicates is exactly the nonces of the      *)
(* stored messages, and no two messages share one: POSTs and PUTs that     *)
(* race for a nonce leave neither a hole nor a leftover in it.             *)
NoncesExact ==
    /\ nonces = {messages[id].nonce : id \in DOMAIN messages}
    /\ \A i, j \in DOMAIN messages :
           messages[i].nonce = messages[j].nonce => i = j

(* What update_message and delete_message checked on the message they read *)
(* is still true of the message they are about to write, a second storage  *)
(* call later: it exists, in the authorized group, and is the caller's.    *)
ChecksStillHold ==
    \A r \in modifying :
        /\ r.id \in DOMAIN messages
        /\ messages[r.id].group_id = r.group_id
        /\ messages[r.id].sender = r.sender

(* The detailed handlers implement the board of posts.                     *)
PostOf(m) ==
    [group_id |-> m.group_id, sender |-> m.sender, order |-> m.order,
     nonce |-> m.nonce, revision |-> m.revision, deleted |-> IsDeleted(m)]

boardOf == [id \in DOMAIN messages |-> PostOf(messages[id])]

Board == INSTANCE MessageBoard WITH board <- boardOf

ImplementsBoard == Board!Spec
=============================================================================
