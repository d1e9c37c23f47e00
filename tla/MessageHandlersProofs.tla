------------------------- MODULE MessageHandlersProofs -------------------------
(***************************************************************************)
(* Proofs about MessageHandlers: its invariants, for every number of       *)
(* messages, groups, addresses, nonces, concurrent requests and restarts.  *)
(*                                                                         *)
(* OrdersUnique is not inductive: it is OrdersReserved, which also counts  *)
(* the orders held by requests that have not stored yet, that makes the    *)
(* insert safe.  The lemmas about the steps of a handler take any id as    *)
(* fresh, so they hold in the modules that restrict the choice further.    *)
(***************************************************************************)
EXTENDS MessageHandlers, TLAPS

(* The inductive invariant of the handlers. *)
HandlersInv ==
    /\ TypeOK
    /\ OrdersUnique
    /\ OrdersReserved
    /\ NoncesExact
    /\ ChecksStillHold

(* The handlers' actions do not depend on how a fresh id is drawn. *)
LEMMA FreshIdsAreIds == HandlerNext(FreshIds) => HandlerNext(Ids)
  BY DEF HandlerNext, PostMessage, FreshIds

(* A new message, an edited and a deleted one have the type of messages. *)
LEMMA NewMessageType ==
  ASSUME NEW r \in CreateRequest
  PROVE  NewMessage(r) \in Message
  BY DEF CreateRequest, NewMessage, Message, SyncStatus, PendingStatus,
         CreatedAt, NoPatch

LEMMA UpdateContentType ==
  ASSUME NEW m \in Message, NEW n \in Nonces
  PROVE  /\ UpdateContent(m, n) \in Message
         /\ UpdateContent(m, n).nonce = n
         /\ UpdateContent(m, n).group_id = m.group_id
         /\ UpdateContent(m, n).sender = m.sender
         /\ UpdateContent(m, n).order = m.order
<1>1. /\ "UpdatePending" \in SyncStatus
      /\ m.revision + 1 \in Nat
      /\ m.updated_at + 1 \in Nat
  BY DEF Message, SyncStatus, PendingStatus
<1>2. \A s \in SyncStatus, k \in Nat, t \in Nat :
          [m EXCEPT !.nonce = n, !.revision = k, !.sync_status = s,
                    !.updated_at = t] \in Message
  BY Zenon DEF Message
<1>3. UpdateContent(m, n) \in Message
  BY <1>1, <1>2 DEF UpdateContent
<1>4. /\ UpdateContent(m, n).nonce = n
      /\ UpdateContent(m, n).group_id = m.group_id
      /\ UpdateContent(m, n).sender = m.sender
      /\ UpdateContent(m, n).order = m.order
  BY DEF UpdateContent, Message
<1>5. QED
  BY <1>3, <1>4

LEMMA MarkForDeletionType ==
  ASSUME NEW m \in Message
  PROVE  /\ MarkForDeletion(m) \in Message
         /\ MarkForDeletion(m).nonce = m.nonce
         /\ MarkForDeletion(m).group_id = m.group_id
         /\ MarkForDeletion(m).sender = m.sender
         /\ MarkForDeletion(m).order = m.order
<1>1. "DeletePending" \in SyncStatus /\ m.updated_at + 1 \in Nat
  BY DEF Message, SyncStatus, PendingStatus
<1>2. \A s \in SyncStatus, t \in Nat :
          [m EXCEPT !.sync_status = s, !.updated_at = t] \in Message
  BY Zenon DEF Message
<1>3. MarkForDeletion(m) \in Message
  BY <1>1, <1>2 DEF MarkForDeletion
<1>4. /\ MarkForDeletion(m).nonce = m.nonce
      /\ MarkForDeletion(m).group_id = m.group_id
      /\ MarkForDeletion(m).sender = m.sender
      /\ MarkForDeletion(m).order = m.order
  BY DEF MarkForDeletion, Message
<1>5. QED
  BY <1>3, <1>4

-----------------------------------------------------------------------------

(* Every invariant holds of the empty storage a relayer starts with. *)
LEMMA InitInv == Init => HandlersInv
  BY BoundsAssumption
  DEF Init, HandlersInv, TypeOK, OrdersUnique, OrdersReserved, NoncesExact,
      ChecksStillHold, StorageInit, StorageTypeOK, CreateRequest,
      ModifyRequest

(* A restart leads back to the empty storage. *)
LEMMA RestartInv == HandlersInv /\ LoseHandlerState => HandlersInv'
  BY BoundsAssumption
  DEF LoseHandlerState, HandlersInv, TypeOK, OrdersUnique, OrdersReserved,
      NoncesExact, ChecksStillHold, StorageTypeOK

(* The first half of create_message reserves an order nobody has. *)
LEMMA BeginCreateInv ==
  ASSUME HandlersInv,
         NEW id \in Ids, NEW auth \in Auth, NEW n \in Nonces,
         BeginCreate(id, auth, n)
  PROVE  HandlersInv'
<1> DEFINE g == auth.group_id
           r == [id |-> id, group_id |-> g, sender |-> auth.sender,
                 nonce |-> n, order |-> group_orders[g] + 1]
<1> USE DEF HandlersInv
<1>1. g \in Groups /\ auth.sender \in Addresses
  BY DEF Auth
<1>2. group_orders[g] \in Nat
  BY <1>1 DEF TypeOK, StorageTypeOK
<1>3. group_orders' = [group_orders EXCEPT ![g] = group_orders[g] + 1]
  BY DEF BeginCreate, TakeOrder, NextOrder
<1>4. creating' = creating \cup {r}
  BY DEF BeginCreate, NextOrder
<1>5. /\ messages' = messages /\ nonces' = nonces /\ modifying' = modifying
      /\ UNCHANGED <<notifying, notifications, restarts>>
  BY DEF BeginCreate
<1>6. r \in CreateRequest
  BY <1>1, <1>2 DEF CreateRequest
<1>7. TypeOK'
  BY <1>1, <1>2, <1>3, <1>4, <1>5, <1>6 DEF TypeOK, StorageTypeOK
<1>8. OrdersUnique' /\ NoncesExact' /\ ChecksStillHold'
  BY <1>5 DEF OrdersUnique, NoncesExact, ChecksStillHold
<1>9. \A h \in Groups : /\ group_orders'[h] \in Nat
                        /\ group_orders[h] \in Nat
                        /\ group_orders[h] <= group_orders'[h]
                        /\ h = g => group_orders'[h] = group_orders[h] + 1
  BY <1>1, <1>3 DEF TypeOK, StorageTypeOK
<1>10. \A i \in DOMAIN messages :
           /\ messages[i].group_id \in Groups
           /\ messages[i].order \in Nat
           /\ messages[i].order \in 1..group_orders[messages[i].group_id]
  BY DEF TypeOK, StorageTypeOK, Message, OrdersReserved
<1>11. \A s \in creating : /\ s.group_id \in Groups
                           /\ s.order \in Nat
                           /\ s.order \in 1..group_orders[s.group_id]
  BY DEF TypeOK, CreateRequest, OrdersReserved
<1>12. OrdersReserved'
  <2>1. \A i \in DOMAIN messages' :
            messages'[i].order \in 1..group_orders'[messages'[i].group_id]
    BY <1>5, <1>9, <1>10
  <2>2. \A s \in creating' : s.order \in 1..group_orders'[s.group_id]
    BY <1>1, <1>2, <1>4, <1>9, <1>11
  <2>3. \A s, t \in creating' :
            s.group_id = t.group_id /\ s.order = t.order => s = t
    BY <1>1, <1>2, <1>4, <1>11 DEF OrdersReserved
  <2>4. \A s \in creating' : \A i \in DOMAIN messages' :
            s.group_id = messages'[i].group_id => s.order # messages'[i].order
    BY <1>1, <1>2, <1>4, <1>5, <1>10 DEF OrdersReserved
  <2>5. QED
    BY <2>1, <2>2, <2>3, <2>4 DEF OrdersReserved
<1>13. QED
  BY <1>7, <1>8, <1>12

(* The second half, refused: the order is lost. *)
LEMMA RefuseCreateInv ==
  ASSUME HandlersInv, NEW r \in creating, RefuseCreate(r)
  PROVE  HandlersInv'
<1>1. creating' \subseteq creating /\ UNCHANGED <<storageVars, modifying,
                                       notifying, notifications, restarts>>
  BY DEF RefuseCreate
<1>2. TypeOK' /\ OrdersUnique' /\ NoncesExact' /\ ChecksStillHold'
  BY <1>1 DEF HandlersInv, TypeOK, StorageTypeOK, OrdersUnique, NoncesExact,
              ChecksStillHold, storageVars
<1>3. OrdersReserved'
  BY <1>1 DEF HandlersInv, OrdersReserved, storageVars
<1>4. QED
  BY <1>2, <1>3 DEF HandlersInv

(* The second half, stored: the reserved order becomes the message's. *)
LEMMA StoreCreateInv ==
  ASSUME HandlersInv, NEW r \in creating, StoreCreate(r)
  PROVE  HandlersInv'
<1> DEFINE m == NewMessage(r)
<1> USE DEF HandlersInv
<1>1. r \in CreateRequest
  BY DEF TypeOK
<1>2. m \in Message /\ r.id \in Ids /\ r.nonce \in Nonces
  BY <1>1, NewMessageType DEF CreateRequest
<1>3. m.group_id = r.group_id /\ m.order = r.order /\ m.nonce = r.nonce
  BY DEF NewMessage
<1>4. messages' = Put(messages, r.id, m) /\ nonces' = nonces \cup {r.nonce}
  BY DEF StoreCreate, CreateMessage
<1>5. r.id \notin DOMAIN messages /\ r.nonce \notin nonces
  BY DEF StoreCreate, IdConflicts
<1>6. /\ DOMAIN messages' = DOMAIN messages \cup {r.id}
      /\ messages'[r.id] = m
      /\ \A i \in DOMAIN messages : messages'[i] = messages[i]
      /\ \A i \in DOMAIN messages' : messages'[i] \in Message
  <2> HIDE DEF m
  <2>1. \A i \in DOMAIN messages : messages[i] \in Message
    BY DEF TypeOK, StorageTypeOK
  <2>2. QED
    BY <1>2, <1>4, <1>5, <2>1 DEF Put
<1>7. /\ creating' = creating \ {r}
      /\ notifying' = notifying + 1
      /\ UNCHANGED <<group_orders, modifying, notifications, restarts>>
  BY DEF StoreCreate
<1>8. TypeOK'
  <2>1. messages' = [i \in DOMAIN messages' |-> messages'[i]]
    BY <1>4 DEF Put
  <2>2. StorageTypeOK'
    BY <1>2, <1>4, <1>6, <1>7, <2>1 DEF TypeOK, StorageTypeOK
  <2>3. QED
    BY <1>7, <2>2 DEF TypeOK
<1>9. OrdersUnique'
  BY <1>3, <1>6 DEF OrdersUnique, OrdersReserved
<1>10. OrdersReserved'
  BY <1>3, <1>6, <1>7 DEF OrdersReserved
<1>11. NoncesExact'
  <2>1. nonces' = {messages'[i].nonce : i \in DOMAIN messages'}
    BY <1>3, <1>4, <1>6 DEF NoncesExact
  <2>2. \A i \in DOMAIN messages : messages[i].nonce # r.nonce
    BY <1>5 DEF NoncesExact
  <2>3. QED
    BY <1>3, <1>6, <2>1, <2>2 DEF NoncesExact
<1>12. ChecksStillHold'
  BY <1>6, <1>7 DEF ChecksStillHold
<1>13. QED
  BY <1>8, <1>9, <1>10, <1>11, <1>12

(* The notification touches nothing but its counters. *)
LEMMA NotifySyncInv == HandlersInv /\ NotifySync => HandlersInv'
  BY DEF HandlersInv, NotifySync, TypeOK, StorageTypeOK, OrdersUnique,
         OrdersReserved, NoncesExact, ChecksStillHold, storageVars

(* The checks of a PUT or a DELETE admit only the sender's requests. *)
LEMMA BeginModifyInv ==
  ASSUME HandlersInv,
         NEW id \in Ids, NEW auth \in Auth, NEW request \in ModifyRequest,
         request.id = id, request.group_id = auth.group_id,
         request.sender = auth.sender,
         BeginModify(id, auth, request)
  PROVE  HandlersInv'
<1>1. /\ modifying' = modifying \cup {request}
      /\ UNCHANGED <<storageVars, creating, notifying, notifications, restarts>>
  BY DEF BeginModify
<1>2. TypeOK' /\ OrdersUnique' /\ OrdersReserved' /\ NoncesExact'
  BY <1>1 DEF HandlersInv, TypeOK, StorageTypeOK, OrdersUnique,
              OrdersReserved, NoncesExact, storageVars
<1>3. ChecksStillHold'
  BY <1>1 DEF HandlersInv, ChecksStillHold, BeginModify, MayModify, storageVars
<1>4. QED
  BY <1>2, <1>3 DEF HandlersInv

(* A PUT is refused: nothing but the request is gone. *)
LEMMA RefuseUpdateInv ==
  ASSUME HandlersInv, NEW r \in modifying, RefuseUpdate(r)
  PROVE  HandlersInv'
  BY DEF HandlersInv, RefuseUpdate, TypeOK, StorageTypeOK, OrdersUnique,
         OrdersReserved, NoncesExact, ChecksStillHold, storageVars

(* A PUT is applied: the nonce set follows the message. *)
LEMMA StoreUpdateInv ==
  ASSUME HandlersInv, NEW r \in modifying, StoreUpdate(r)
  PROVE  HandlersInv'
<1> USE DEF HandlersInv
<1>1. r.id \in DOMAIN messages
  BY DEF ChecksStillHold
<1>2. r.nonce \in Nonces
  BY DEF TypeOK, ModifyRequest, StoreUpdate
<1>3. messages[r.id] \in Message
  BY <1>1 DEF TypeOK, StorageTypeOK
<1>4. /\ messages' = [messages EXCEPT ![r.id] =
                                      UpdateContent(messages[r.id], r.nonce)]
      /\ nonces' = (nonces \ {messages[r.id].nonce}) \cup {r.nonce}
  BY DEF StoreUpdate, UpdateMessage, ReplaceNonce
<1>5. /\ DOMAIN messages' = DOMAIN messages
      /\ messages'[r.id] = UpdateContent(messages[r.id], r.nonce)
      /\ \A i \in DOMAIN messages : i # r.id => messages'[i] = messages[i]
  BY <1>1, <1>4 DEF TypeOK, StorageTypeOK
<1>6. \A i \in DOMAIN messages :
          /\ messages'[i] \in Message
          /\ messages'[i].group_id = messages[i].group_id
          /\ messages'[i].sender = messages[i].sender
          /\ messages'[i].order = messages[i].order
  BY <1>2, <1>3, <1>5, UpdateContentType DEF TypeOK, StorageTypeOK
<1>7. messages'[r.id].nonce = r.nonce
  BY <1>2, <1>3, <1>5, UpdateContentType
<1>8. /\ modifying' \subseteq modifying
      /\ UNCHANGED <<group_orders, creating, notifying, notifications,
                     restarts>>
  BY DEF StoreUpdate
<1>9. TypeOK'
  <2>1. messages' = [i \in DOMAIN messages' |-> messages'[i]]
    BY <1>4
  <2>2. nonces' \subseteq Nonces
    BY <1>2, <1>4 DEF TypeOK, StorageTypeOK
  <2>3. QED
    BY <1>5, <1>6, <1>8, <2>1, <2>2 DEF TypeOK, StorageTypeOK
<1>10. OrdersUnique'
  BY <1>5, <1>6 DEF OrdersUnique
<1>11. OrdersReserved'
  BY <1>5, <1>6, <1>8 DEF OrdersReserved
<1>12. NoncesExact'
  <2>1. r.nonce = messages[r.id].nonce \/ r.nonce \notin nonces
    BY DEF StoreUpdate, NonceConflicts
  <2>2. \A i \in DOMAIN messages : i # r.id =>
            /\ messages[i].nonce # messages[r.id].nonce
            /\ messages[i].nonce \in nonces
            /\ messages[i].nonce # r.nonce
    BY <1>1, <2>1 DEF NoncesExact
  <2>3. nonces' = {messages'[i].nonce : i \in DOMAIN messages'}
    BY <1>1, <1>4, <1>5, <1>7, <2>2 DEF NoncesExact
  <2>4. QED
    BY <1>5, <1>7, <2>2, <2>3 DEF NoncesExact
<1>13. ChecksStillHold'
  BY <1>5, <1>6, <1>8 DEF ChecksStillHold
<1>14. QED
  BY <1>9, <1>10, <1>11, <1>12, <1>13

(* A DELETE is applied: the message stays, with its order and its nonce. *)
LEMMA StoreDeleteInv ==
  ASSUME HandlersInv, NEW r \in modifying, StoreDelete(r)
  PROVE  HandlersInv'
<1> USE DEF HandlersInv
<1>1. r.id \in DOMAIN messages
  BY DEF ChecksStillHold
<1>2. messages' = [messages EXCEPT ![r.id] = MarkForDeletion(messages[r.id])]
  BY DEF StoreDelete, DeleteMessage
<1>3. DOMAIN messages' = DOMAIN messages
  BY <1>2
<1>4. \A i \in DOMAIN messages :
          /\ messages'[i] \in Message
          /\ messages'[i].nonce = messages[i].nonce
          /\ messages'[i].group_id = messages[i].group_id
          /\ messages'[i].sender = messages[i].sender
          /\ messages'[i].order = messages[i].order
  BY <1>1, <1>2, MarkForDeletionType DEF TypeOK, StorageTypeOK
<1>5. /\ modifying' \subseteq modifying
      /\ UNCHANGED <<group_orders, nonces, creating, notifying,
                     notifications, restarts>>
  BY DEF StoreDelete
<1>6. TypeOK'
  <2>1. messages' = [i \in DOMAIN messages' |-> messages'[i]]
    BY <1>2
  <2>2. QED
    BY <1>3, <1>4, <1>5, <2>1 DEF TypeOK, StorageTypeOK
<1>7. OrdersUnique' /\ OrdersReserved'
  BY <1>3, <1>4, <1>5 DEF OrdersUnique, OrdersReserved
<1>8. NoncesExact'
  BY <1>3, <1>4, <1>5 DEF NoncesExact
<1>9. ChecksStillHold'
  BY <1>3, <1>4, <1>5 DEF ChecksStillHold
<1>10. QED
  BY <1>6, <1>7, <1>8, <1>9

-----------------------------------------------------------------------------

(* Every step of a handler, whatever ids are fresh, keeps the invariant. *)
LEMMA HandlerNextInv == HandlersInv /\ HandlerNext(Ids) => HandlersInv'
<1> SUFFICES ASSUME HandlersInv, HandlerNext(Ids)
             PROVE  HandlersInv'
  OBVIOUS
<1>1. CASE PostMessage(Ids)
  BY <1>1, BeginCreateInv DEF PostMessage
<1>2. CASE FinishCreate
  BY <1>2, RefuseCreateInv, StoreCreateInv DEF FinishCreate
<1>3. CASE NotifySync
  BY <1>3, NotifySyncInv
<1>4. CASE ModifyMessage
  <2>1. PICK id \in Ids, auth \in Auth :
            (\E n \in Nonces : BeginUpdate(id, auth, n))
                \/ BeginDelete(id, auth)
    BY <1>4 DEF ModifyMessage
  <2>2. ASSUME NEW n \in Nonces, BeginUpdate(id, auth, n)
        PROVE  HandlersInv'
    BY <2>2, BeginModifyInv DEF BeginUpdate, ModifyRequest, Auth
  <2>3. ASSUME BeginDelete(id, auth)
        PROVE  HandlersInv'
    BY <2>3, BeginModifyInv DEF BeginDelete, ModifyRequest, Auth
  <2>4. QED
    BY <2>1, <2>2, <2>3
<1>5. CASE FinishModify
  BY <1>5, RefuseUpdateInv, StoreUpdateInv, StoreDeleteInv DEF FinishModify
<1>6. QED
  BY <1>1, <1>2, <1>3, <1>4, <1>5 DEF HandlerNext

(* A step that moves none of the handlers' variables keeps it too. *)
LEMMA HandlerStutterInv == HandlersInv /\ UNCHANGED handlerVars => HandlersInv'
  BY DEF HandlersInv, TypeOK, StorageTypeOK, OrdersUnique, OrdersReserved,
         NoncesExact, ChecksStillHold, handlerVars, storageVars

(* The inductive invariant holds in every reachable state of the handlers. *)
THEOREM HandlersInvariant == Spec => []HandlersInv
<1>1. Init => HandlersInv
  BY InitInv
<1>2. HandlersInv /\ [Next]_handlerVars => HandlersInv'
  BY FreshIdsAreIds, HandlerNextInv, RestartInv, HandlerStutterInv DEF Next
<1>3. QED
  BY <1>1, <1>2, PTL DEF Spec

(* The storage and the requests in flight always have their types.         *)
THEOREM TypesCorrect == Spec => []TypeOK
  BY HandlersInvariant, PTL DEF HandlersInv

(* next_order and the insert, under different locks, never give two        *)
(* messages of a group one order.                                          *)
THEOREM OrdersAreUnique == Spec => []OrdersUnique
  BY HandlersInvariant, PTL DEF HandlersInv

(* What a request in flight took from next_order is taken from nobody      *)
(* else: no other request holds it and no stored message has it.           *)
THEOREM OrdersAreReserved == Spec => []OrdersReserved
  BY HandlersInvariant, PTL DEF HandlersInv

(* The duplicate check of memory.rs sees every nonce in use and no other.  *)
THEOREM NoncesAreExact == Spec => []NoncesExact
  BY HandlersInvariant, PTL DEF HandlersInv

(* The ownership checks of update_message and delete_message cannot go     *)
(* stale before the write they guard.                                      *)
THEOREM ChecksHoldAtWrite == Spec => []ChecksStillHold
  BY HandlersInvariant, PTL DEF HandlersInv
-----------------------------------------------------------------------------
(* What a handler's step does to the messages, for the modules that watch  *)
(* them: nothing, one write to one of them, or one new message.            *)

WrittenAs(m, w) ==
    /\ w \in Message
    /\ w.group_id = m.group_id /\ w.sender = m.sender
    /\ w.order = m.order /\ w.revision >= m.revision
    /\ w.sync_status \in PendingStatus
    /\ w.updated_at = m.updated_at + 1

KeepsMessages ==
    /\ DOMAIN messages' = DOMAIN messages
    /\ \A i \in DOMAIN messages :
           messages'[i] = messages[i] \/ WrittenAs(messages[i], messages'[i])
    /\ \/ UNCHANGED <<notifying, notifications>>
       \/ notifying' = notifying - 1 /\ notifications' = notifications + 1

TakesId(fresh) ==
    \/ creating' \subseteq creating
    \/ \E r \in CreateRequest :
           r.id \in fresh /\ creating' = creating \cup {r}

Stores(r) ==
    /\ r.id \notin DOMAIN messages
    /\ DOMAIN messages' = DOMAIN messages \cup {r.id}
    /\ \A i \in DOMAIN messages : messages'[i] = messages[i]
    /\ messages'[r.id] = NewMessage(r)
    /\ creating' = creating \ {r}
    /\ notifying' = notifying + 1 /\ notifications' = notifications

(* The ids of the POSTs that have not stored yet are theirs alone. *)
IdsReserved ==
    \A r \in creating :
        /\ r.id \notin DOMAIN messages
        /\ \A s \in creating : r.id = s.id => r = s

LEMMA UpdateContentWrites ==
  ASSUME NEW m \in Message, NEW n \in Nonces
  PROVE  WrittenAs(m, UpdateContent(m, n))
<1>1. /\ UpdateContent(m, n).sync_status = "UpdatePending"
      /\ UpdateContent(m, n).updated_at = m.updated_at + 1
      /\ UpdateContent(m, n).sender = m.sender
      /\ UpdateContent(m, n).revision >= m.revision
  BY DEF UpdateContent, Message
<1>2. QED
  BY <1>1, UpdateContentType DEF WrittenAs, PendingStatus

LEMMA MarkForDeletionWrites ==
  ASSUME NEW m \in Message
  PROVE  WrittenAs(m, MarkForDeletion(m))
<1>1. /\ MarkForDeletion(m).sync_status = "DeletePending"
      /\ MarkForDeletion(m).updated_at = m.updated_at + 1
      /\ MarkForDeletion(m).sender = m.sender
      /\ MarkForDeletion(m).revision >= m.revision
  BY DEF MarkForDeletion, Message
<1>2. QED
  BY <1>1, MarkForDeletionType DEF WrittenAs, PendingStatus

LEMMA HandlerStepShape ==
  ASSUME HandlersInv, NEW fresh, fresh \subseteq Ids, HandlerNext(fresh)
  PROVE  (KeepsMessages /\ TakesId(fresh)) \/ (\E r \in creating : Stores(r))
<1> USE DEF HandlersInv
<1>0. notifying \in Nat /\ notifications \in Nat
  BY DEF TypeOK
<1>1. CASE PostMessage(fresh)
  <2>1. PICK id \in fresh, auth \in Auth, n \in Nonces :
            BeginCreate(id, auth, n)
    BY <1>1 DEF PostMessage
  <2> DEFINE r == [id |-> id, group_id |-> auth.group_id,
                   sender |-> auth.sender, nonce |-> n,
                   order |-> group_orders[auth.group_id] + 1]
  <2>2. auth.group_id \in Groups /\ auth.sender \in Addresses
    BY DEF Auth
  <2>3. r \in CreateRequest
    BY <2>2 DEF CreateRequest, TypeOK, StorageTypeOK
  <2>4. creating' = creating \cup {r}
    BY <2>1 DEF BeginCreate, NextOrder
  <2>5. KeepsMessages
    BY <2>1 DEF BeginCreate, KeepsMessages
  <2>6. QED
    BY <2>3, <2>4, <2>5 DEF TakesId
<1>2. CASE FinishCreate
  <2>1. PICK r \in creating : RefuseCreate(r) \/ StoreCreate(r)
    BY <1>2 DEF FinishCreate
  <2>2. CASE RefuseCreate(r)
    BY <2>2 DEF RefuseCreate, KeepsMessages, TakesId, storageVars
  <2>3. CASE StoreCreate(r)
    <3>1. /\ messages' = Put(messages, r.id, NewMessage(r))
          /\ r.id \notin DOMAIN messages
      BY <2>3 DEF StoreCreate, CreateMessage, IdConflicts
    <3>2. /\ DOMAIN messages' = DOMAIN messages \cup {r.id}
          /\ \A i \in DOMAIN messages : messages'[i] = messages[i]
          /\ messages'[r.id] = NewMessage(r)
      BY <3>1, Zenon DEF Put
    <3>3. /\ creating' = creating \ {r}
          /\ notifying' = notifying + 1 /\ notifications' = notifications
      BY <1>0, <2>3 DEF StoreCreate
    <3>4. QED
      BY <3>1, <3>2, <3>3 DEF Stores
  <2>4. QED
    BY <2>1, <2>2, <2>3
<1>3. CASE NotifySync
  BY <1>0, <1>3 DEF NotifySync, KeepsMessages, TakesId, storageVars
<1>4. CASE ModifyMessage
  BY <1>4 DEF ModifyMessage, BeginUpdate, BeginDelete, BeginModify,
              KeepsMessages, TakesId, storageVars
<1>5. CASE FinishModify
  <2>1. PICK r \in modifying :
            RefuseUpdate(r) \/ StoreUpdate(r) \/ StoreDelete(r)
    BY <1>5 DEF FinishModify
  <2>2. CASE RefuseUpdate(r)
    BY <2>2 DEF RefuseUpdate, KeepsMessages, TakesId, storageVars
  <2>3. r.id \in DOMAIN messages /\ messages[r.id] \in Message
    BY DEF ChecksStillHold, TypeOK, StorageTypeOK
  <2>4. CASE StoreUpdate(r)
    <3>1. r.nonce \in Nonces
      BY <2>4 DEF TypeOK, ModifyRequest, StoreUpdate
    <3>2. messages' = [messages EXCEPT ![r.id] =
                                      UpdateContent(messages[r.id], r.nonce)]
      BY <2>4 DEF StoreUpdate, UpdateMessage
    <3>3. WrittenAs(messages[r.id], UpdateContent(messages[r.id], r.nonce))
      BY <2>3, <3>1, UpdateContentWrites
    <3>4. QED
      BY <2>3, <2>4, <3>2, <3>3 DEF StoreUpdate, KeepsMessages, TakesId
  <2>5. CASE StoreDelete(r)
    <3>1. messages' = [messages EXCEPT ![r.id] =
                                      MarkForDeletion(messages[r.id])]
      BY <2>5 DEF StoreDelete, DeleteMessage
    <3>2. WrittenAs(messages[r.id], MarkForDeletion(messages[r.id]))
      BY <2>3, MarkForDeletionWrites
    <3>3. QED
      BY <2>3, <2>5, <3>1, <3>2 DEF StoreDelete, KeepsMessages, TakesId
  <2>6. QED
    BY <2>1, <2>2, <2>4, <2>5
<1>6. QED
  BY <1>1, <1>2, <1>3, <1>4, <1>5 DEF HandlerNext

LEMMA HandlerStepReservesIds ==
  ASSUME HandlersInv, IdsReserved, NEW fresh, fresh \subseteq FreshIds,
         HandlerNext(fresh)
  PROVE  IdsReserved'
<1>1. fresh \subseteq Ids
  BY DEF FreshIds
<1>2. CASE KeepsMessages /\ TakesId(fresh)
  <2>1. CASE creating' \subseteq creating
    BY <1>2, <2>1 DEF KeepsMessages, IdsReserved
  <2>2. ASSUME NEW r \in CreateRequest, r.id \in fresh,
               creating' = creating \cup {r}
        PROVE  IdsReserved'
    BY <1>2, <2>2 DEF KeepsMessages, IdsReserved, FreshIds
  <2>3. QED
    BY <1>2, <2>1, <2>2 DEF TakesId
<1>3. ASSUME NEW r \in creating, Stores(r)
      PROVE  IdsReserved'
  BY <1>3 DEF Stores, IdsReserved
<1>4. QED
  BY <1>1, <1>2, <1>3, HandlerStepShape


-----------------------------------------------------------------------------
(* The handlers implement the board of posts: only the three steps that    *)
(* write messages move the board, and each does what one action of the     *)
(* board does; the steps between the locks are invisible.                  *)

(* A step that leaves the messages alone leaves the board alone. *)
LEMMA SameMessagesSameBoard ==
  ASSUME UNCHANGED messages
  PROVE  UNCHANGED boardOf
  BY DEF boardOf, PostOf, IsDeleted

(* What the board shows of one message. *)
LEMMA BoardOf ==
  /\ DOMAIN boardOf = DOMAIN messages
  /\ \A i \in DOMAIN messages : boardOf[i] = PostOf(messages[i])
  BY DEF boardOf

(* A deleted and an edited post, field by field. *)
LEMMA DeletedPost ==
  ASSUME NEW m
  PROVE  [PostOf(m) EXCEPT !.deleted = TRUE] =
         [group_id |-> m.group_id, sender |-> m.sender, order |-> m.order,
          nonce |-> m.nonce, revision |-> m.revision, deleted |-> TRUE]
<1>1. PICK d, e : d = IsDeleted(m) /\ e = TRUE
  OBVIOUS
<1> DEFINE q == [group_id |-> m.group_id, sender |-> m.sender,
                 order |-> m.order, nonce |-> m.nonce,
                 revision |-> m.revision, deleted |-> d]
<1>2. PostOf(m) = q
  BY <1>1, Zenon DEF PostOf
<1>3. [q EXCEPT !.deleted = e] =
          [group_id |-> m.group_id, sender |-> m.sender, order |-> m.order,
           nonce |-> m.nonce, revision |-> m.revision, deleted |-> e]
  BY SMT
<1> HIDE DEF q
<1>4. QED
  BY <1>1, <1>2, <1>3, Zenon

LEMMA EditedPost ==
  ASSUME NEW m, NEW n
  PROVE  [PostOf(m) EXCEPT !.nonce = n, !.revision = @ + 1,
                           !.deleted = FALSE] =
         [group_id |-> m.group_id, sender |-> m.sender, order |-> m.order,
          nonce |-> n, revision |-> m.revision + 1, deleted |-> FALSE]
<1>1. PICK d, e : d = IsDeleted(m) /\ e = FALSE
  OBVIOUS
<1> DEFINE q == [group_id |-> m.group_id, sender |-> m.sender,
                 order |-> m.order, nonce |-> m.nonce,
                 revision |-> m.revision, deleted |-> d]
           t == [group_id |-> m.group_id, sender |-> m.sender,
                 order |-> m.order, nonce |-> n,
                 revision |-> m.revision, deleted |-> d]
           u == [group_id |-> m.group_id, sender |-> m.sender,
                 order |-> m.order, nonce |-> n,
                 revision |-> m.revision + 1, deleted |-> d]
<1>2. PostOf(m) = q
  BY <1>1, Zenon DEF PostOf
<1>3. q.revision = m.revision
  OBVIOUS
<1>4. [q EXCEPT !.nonce = n] = t
  BY SMT
<1>5. [t EXCEPT !.revision = m.revision + 1] = u
  BY SMT
<1>6. [u EXCEPT !.deleted = e] =
          [group_id |-> m.group_id, sender |-> m.sender, order |-> m.order,
           nonce |-> n, revision |-> m.revision + 1, deleted |-> e]
  BY SMT
<1> HIDE DEF q, t, u
<1>7. [q EXCEPT !.nonce = n, !.revision = @ + 1, !.deleted = e] =
          [[[q EXCEPT !.nonce = n] EXCEPT !.revision = m.revision + 1]
              EXCEPT !.deleted = e]
  BY <1>3, Zenon
<1>8. [q EXCEPT !.nonce = n, !.revision = @ + 1, !.deleted = e] =
          [group_id |-> m.group_id, sender |-> m.sender, order |-> m.order,
           nonce |-> n, revision |-> m.revision + 1, deleted |-> e]
  BY <1>4, <1>5, <1>6, <1>7, Zenon
<1>9. QED
  BY <1>1, <1>2, <1>8, Zenon

(* The board of no messages is empty. *)
LEMMA EmptyBoardOf ==
  ASSUME messages = [id \in {} |-> 0]
  PROVE  boardOf = Board!EmptyBoard
<1>1. DOMAIN messages = {}
  OBVIOUS
<1>2. boardOf = [id \in {} |-> PostOf(messages[id])]
  BY <1>1 DEF boardOf
<1>3. QED
  BY <1>2 DEF Board!EmptyBoard

(* The insert of create_message publishes a post at a free position.       *)
LEMMA StoreCreatePublishes ==
  ASSUME HandlersInv, NEW r \in creating, StoreCreate(r)
  PROVE  Board!Publish(r.id)
<1> DEFINE m == NewMessage(r)
<1> USE DEF HandlersInv
<1>1. r \in CreateRequest
  BY DEF TypeOK
<1>2. /\ m.group_id = r.group_id /\ m.order = r.order /\ m.nonce = r.nonce
      /\ m.sender = r.sender /\ m.revision = 0
      /\ m.sync_status = "SyncPending"
  BY DEF NewMessage
<1>3. r.id \notin DOMAIN messages /\ r.nonce \notin nonces
  BY DEF StoreCreate, IdConflicts
<1>4. /\ DOMAIN messages' = DOMAIN messages \cup {r.id}
      /\ messages'[r.id] = m
      /\ \A i \in DOMAIN messages : messages'[i] = messages[i]
  <2> HIDE DEF m
  <2>1. messages' = Put(messages, r.id, NewMessage(r))
    BY DEF StoreCreate, CreateMessage
  <2>2. QED
    BY <1>3, <2>1 DEF Put, m
<1>5. /\ DOMAIN boardOf' = DOMAIN boardOf \cup {r.id}
      /\ boardOf'[r.id] = PostOf(m)
      /\ \A i \in DOMAIN boardOf : boardOf'[i] = boardOf[i]
  <2> HIDE DEF m
  <2>1. boardOf' = [i \in DOMAIN messages' |-> PostOf(messages'[i])]
    BY DEF boardOf, PostOf, IsDeleted
  <2>2. QED
    BY <1>3, <1>4, <2>1, BoardOf
<1>6. PostOf(m) = [group_id |-> r.group_id, sender |-> r.sender,
                   order |-> r.order, nonce |-> r.nonce, revision |-> 0,
                   deleted |-> FALSE]
  <2> HIDE DEF m
  <2>1. ~IsDeleted(m)
    BY <1>2 DEF IsDeleted
  <2>2. IsDeleted(m) = FALSE
    BY <2>1, SMT DEF IsDeleted
  <2>3. QED
    BY <1>2, <2>2, Zenon DEF PostOf
<1>7. r.order \in Nat \ {0}
  BY <1>1 DEF OrdersReserved, CreateRequest
<1>8. PostOf(m) \in Board!Post
  BY <1>1, <1>6, <1>7 DEF Board!Post, CreateRequest
<1>9. r.order \notin Board!Positions(r.group_id)
  BY BoardOf DEF Board!Positions, PostOf, OrdersReserved
<1>10. Board!NonceIsFree(r.nonce, r.id)
  BY <1>3, BoardOf DEF Board!NonceIsFree, PostOf, NoncesExact
<1>11. QED
  BY <1>3, <1>5, <1>6, <1>8, <1>9, <1>10, BoardOf DEF Board!Publish

(* A PUT edits the post with a nonce no other post has. *)
LEMMA StoreUpdateEdits ==
  ASSUME HandlersInv, NEW r \in modifying, StoreUpdate(r)
  PROVE  /\ r.id \in DOMAIN boardOf
         /\ r.nonce \in Nonces
         /\ Board!Edit(r.id, r.nonce)
<1> DEFINE m == messages[r.id]
<1> USE DEF HandlersInv
<1>1. r.id \in DOMAIN messages
  BY DEF ChecksStillHold
<1>2. r.nonce \in Nonces
  BY DEF TypeOK, ModifyRequest, StoreUpdate
<1>3. m \in Message
  BY <1>1 DEF TypeOK, StorageTypeOK
<1>4. messages' = [messages EXCEPT ![r.id] = UpdateContent(m, r.nonce)]
  BY DEF StoreUpdate, UpdateMessage
<1>5. PostOf(UpdateContent(m, r.nonce)) =
          [PostOf(m) EXCEPT !.nonce = r.nonce, !.revision = @ + 1,
                            !.deleted = FALSE]
  <2>1. /\ UpdateContent(m, r.nonce).revision = m.revision + 1
        /\ UpdateContent(m, r.nonce).sync_status = "UpdatePending"
    BY <1>3 DEF UpdateContent, Message
  <2> DEFINE u == UpdateContent(m, r.nonce)
  <2>2. /\ u.group_id = m.group_id /\ u.sender = m.sender
        /\ u.order = m.order /\ u.nonce = r.nonce
    BY <1>2, <1>3, UpdateContentType
  <2>3. ~IsDeleted(u)
    BY <2>1 DEF IsDeleted
  <2>4. IsDeleted(u) = FALSE
    BY <2>3, SMT DEF IsDeleted
  <2> HIDE DEF u
  <2>5. PostOf(u) = [group_id |-> m.group_id, sender |-> m.sender,
                     order |-> m.order, nonce |-> r.nonce,
                     revision |-> m.revision + 1, deleted |-> FALSE]
    BY <2>1, <2>2, <2>4, Zenon DEF PostOf, u
  <2>6. [PostOf(m) EXCEPT !.nonce = r.nonce, !.revision = @ + 1,
                          !.deleted = FALSE] =
            [group_id |-> m.group_id, sender |-> m.sender,
             order |-> m.order, nonce |-> r.nonce,
             revision |-> m.revision + 1, deleted |-> FALSE]
    BY EditedPost
  <2>7. QED
    BY <2>5, <2>6 DEF u
<1>6. boardOf' = [boardOf EXCEPT ![r.id] = PostOf(UpdateContent(m, r.nonce))]
  <2>1. boardOf' = [i \in DOMAIN messages' |-> PostOf(messages'[i])]
    BY DEF boardOf, PostOf, IsDeleted
  <2>2. QED
    BY <1>1, <1>4, <2>1 DEF boardOf
<1>7. Board!NonceIsFree(r.nonce, r.id)
  <2>1. r.nonce = m.nonce \/ r.nonce \notin nonces
    BY DEF StoreUpdate, NonceConflicts
  <2>2. \A i \in DOMAIN messages \ {r.id} : messages[i].nonce # r.nonce
    BY <1>1, <2>1 DEF NoncesExact
  <2>3. QED
    BY <2>2, BoardOf DEF Board!NonceIsFree, PostOf
<1>8. boardOf[r.id] = PostOf(m)
  BY <1>1, BoardOf
<1>9. boardOf' = [boardOf EXCEPT ![r.id].nonce = r.nonce,
                                 ![r.id].revision = @ + 1,
                                 ![r.id].deleted = FALSE]
  BY <1>1, <1>5, <1>6, <1>8, BoardOf
<1>10. QED
  BY <1>1, <1>2, <1>7, <1>9, BoardOf DEF Board!Edit

(* A DELETE deletes the post, and nothing else of it. *)
LEMMA StoreDeleteDeletes ==
  ASSUME HandlersInv, NEW r \in modifying, StoreDelete(r)
  PROVE  r.id \in DOMAIN boardOf /\ Board!Delete(r.id)
<1> DEFINE m == messages[r.id]
<1>1. r.id \in DOMAIN messages
  BY DEF HandlersInv, ChecksStillHold
<1>2. m \in Message
  BY <1>1 DEF HandlersInv, TypeOK, StorageTypeOK
<1>3. messages' = [messages EXCEPT ![r.id] = MarkForDeletion(m)]
  BY DEF StoreDelete, DeleteMessage
<1>4. PostOf(MarkForDeletion(m)) = [PostOf(m) EXCEPT !.deleted = TRUE]
  <2>1. /\ MarkForDeletion(m).revision = m.revision
        /\ MarkForDeletion(m).sync_status = "DeletePending"
    BY <1>2 DEF MarkForDeletion, Message
  <2> DEFINE d == MarkForDeletion(m)
  <2>2. /\ d.group_id = m.group_id /\ d.sender = m.sender
        /\ d.order = m.order /\ d.nonce = m.nonce
    BY <1>2, MarkForDeletionType
  <2>3. IsDeleted(d)
    BY <2>1 DEF IsDeleted
  <2>4. IsDeleted(d) = TRUE
    BY <2>3, Zenon DEF IsDeleted
  <2> HIDE DEF d
  <2>5. PostOf(d) = [group_id |-> m.group_id, sender |-> m.sender,
                     order |-> m.order, nonce |-> m.nonce,
                     revision |-> m.revision, deleted |-> TRUE]
    BY <2>1, <2>2, <2>4, Zenon DEF PostOf, d
  <2>6. [PostOf(m) EXCEPT !.deleted = TRUE] =
            [group_id |-> m.group_id, sender |-> m.sender,
             order |-> m.order, nonce |-> m.nonce,
             revision |-> m.revision, deleted |-> TRUE]
    BY DeletedPost
  <2>7. QED
    BY <2>5, <2>6 DEF d
<1>5. boardOf' = [boardOf EXCEPT ![r.id] = PostOf(MarkForDeletion(m))]
  <2>1. boardOf' = [i \in DOMAIN messages' |-> PostOf(messages'[i])]
    BY DEF boardOf, PostOf, IsDeleted
  <2>2. QED
    BY <1>1, <1>3, <2>1 DEF boardOf
<1>6. boardOf[r.id] = PostOf(m)
  BY <1>1, BoardOf
<1>7. QED
  BY <1>1, <1>4, <1>5, <1>6, BoardOf DEF Board!Delete

-----------------------------------------------------------------------------

(* A step of a handler is a step of the board or invisible on it. *)
LEMMA HandlerNextOnBoard ==
  ASSUME HandlersInv, HandlerNext(Ids)
  PROVE  [Board!Next]_boardOf
<1>1. CASE PostMessage(Ids)
  BY <1>1, SameMessagesSameBoard DEF PostMessage, BeginCreate
<1>2. CASE FinishCreate
  <2>1. PICK r \in creating : RefuseCreate(r) \/ StoreCreate(r)
    BY <1>2 DEF FinishCreate
  <2>2. CASE RefuseCreate(r)
    BY <2>2, SameMessagesSameBoard DEF RefuseCreate, storageVars
  <2>3. CASE StoreCreate(r)
    <3>1. r.id \in Ids
      BY DEF HandlersInv, TypeOK, CreateRequest
    <3>2. QED
      BY <2>3, <3>1, StoreCreatePublishes DEF Board!Next
  <2>4. QED
    BY <2>1, <2>2, <2>3
<1>3. CASE NotifySync
  BY <1>3, SameMessagesSameBoard DEF NotifySync, storageVars
<1>4. CASE ModifyMessage
  BY <1>4, SameMessagesSameBoard
  DEF ModifyMessage, BeginUpdate, BeginDelete, BeginModify, storageVars
<1>5. CASE FinishModify
  <2>1. PICK r \in modifying :
            RefuseUpdate(r) \/ StoreUpdate(r) \/ StoreDelete(r)
    BY <1>5 DEF FinishModify
  <2>2. CASE RefuseUpdate(r)
    BY <2>2, SameMessagesSameBoard DEF RefuseUpdate, storageVars
  <2>3. CASE StoreUpdate(r)
    BY <2>3, StoreUpdateEdits DEF Board!Next
  <2>4. CASE StoreDelete(r)
    BY <2>4, StoreDeleteDeletes DEF Board!Next
  <2>5. QED
    BY <2>1, <2>2, <2>3, <2>4
<1>6. QED
  BY <1>1, <1>2, <1>3, <1>4, <1>5 DEF HandlerNext

(* A restart wipes the board. *)
LEMMA RestartOnBoard ==
  ASSUME LoseHandlerState
  PROVE  [Board!Next]_boardOf
<1>1. messages' = [id \in {} |-> 0]
  BY DEF LoseHandlerState
<1>2. DOMAIN messages' = {}
  BY <1>1
<1>3. boardOf' = [id \in {} |-> PostOf(messages'[id])]
  BY <1>2 DEF boardOf, PostOf, IsDeleted
<1>4. boardOf' = Board!EmptyBoard
  BY <1>3 DEF Board!EmptyBoard
<1>5. QED
  BY <1>4 DEF Board!Next, Board!Wipe

(* The storage under concurrent requests is a board of posts: posts appear *)
(* in one step at free positions with free nonces, are edited or deleted   *)
(* one at a time, and disappear only in a restart.                         *)
THEOREM HandlersImplementBoard == Spec => ImplementsBoard
<1>1. Init => Board!Init
  BY EmptyBoardOf DEF Init, StorageInit, Board!Init
<1>2. HandlersInv /\ [Next]_handlerVars => [Board!Next]_boardOf
  <2> SUFFICES ASSUME HandlersInv, [Next]_handlerVars
               PROVE  [Board!Next]_boardOf
    OBVIOUS
  <2>1. CASE HandlerNext(FreshIds)
    BY <2>1, FreshIdsAreIds, HandlerNextOnBoard
  <2>2. CASE LoseHandlerState
    BY <2>2, RestartOnBoard
  <2>3. CASE UNCHANGED handlerVars
    BY <2>3, SameMessagesSameBoard DEF handlerVars, storageVars
  <2>4. QED
    BY <2>1, <2>2, <2>3 DEF Next
<1>3. QED
  BY <1>1, <1>2, HandlersInvariant, PTL DEF Spec, ImplementsBoard, Board!Spec
=============================================================================
