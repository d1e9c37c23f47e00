# A verification development of sui-stack-messaging

TLA+ modules, TLC configurations and TLAPS proofs kept beside the code of
sui-stack-messaging: encrypted group messaging whose groups and keys live on
Sui, whose messages live in a relayer, and whose archive lives on Walrus.
Paths in this document are relative to the repository's root.

Contents: [inventory](#inventory), [modules](#modules),
[runs](#runs-and-what-they-show), [proofs](#proofs),
[abstractions](#abstractions), [findings](#where-code-and-documents-disagree),
[not modelled](#not-modelled).

## Inventory

How the parts interact: the SDK client encrypts a message with a key of the
group (chain, Seal, key cache), uploads its attachments (storage adapter) and
sends it to the relayer (transport). The relayer checks the signature and asks
its cache of on-chain permissions, fed by the checkpoint stream, whether the
sender may; a handler stores the message and notifies the Walrus worker, which
archives it. Readers poll the relayer; when it has lost its memory they recover
from the archive through the discovery indexer, which watches the same chain.

| Component | State | Operations | What is hard | What makes it correct |
|---|---|---|---|---|
| Relayer message storage (`relayer/src/storage/memory.rs`, `models/message.rs`) | three maps, each under a lock of its own: messages, order counters, nonces | create, update, delete, update_sync_status, listings | create takes an order under one lock and inserts under others | orders of a group unique, nonces exactly those in use |
| Relayer handlers (`handlers/messages/`) | none between requests | POST, PUT, DELETE, GET | each is two or three storage calls with other requests in between; a restart forgets everything | the checks of PUT and DELETE still hold at the write; the whole is an atomic board |
| Authentication middleware (`auth/`) | none | verify signature and timestamp, look up permission | the permission is read once, before the handler runs | who may do what, as the cache says |
| Walrus sync worker (`services/walrus_sync.rs`, `walrus/`) | message_count; a batch read from the storage | timer or notification, then three workflows: fetch, upload, mark | no lock from the fetch to the mark; the publisher fails, answers in part or not at all | terminal messages point at their latest patch; nothing pending is forgotten |
| Membership sync and cache (`services/membership_sync.rs`, `auth/membership.rs`) | last_cursor; permissions by group and member | connect, checkpoint, apply event, reconnect | checkpoints that pass while disconnected, or come twice | the cache equals the chain at the event reached |
| SDK transport (`relayer/http-transport.ts`) | cached header auth; the cursor of each subscription | fetch, send, edit, delete, subscribe, disconnect | pages read while the relayer stores out of order; aborts | nothing twice, nothing backwards, everything in the end |
| Envelope encryption, DEK cache (`encryption/envelope-encryption.ts`, `dek-manager.ts`, `ttl-map.ts`) | DEKs by group and version, with an expiry | generate for a group or rotation, resolve, encrypt, decrypt | the cache is warmed before the transaction is signed; rotations of several admins overtake each other | every client uses the DEK the chain has for a version |
| Session keys (`encryption/session-key-manager.ts`) | the current session key, the refresh under way | get, refresh, create | callers share one creation that waits for a wallet; a key ages from before it is signed | a key that outlives the request, one prompt |
| Messaging client (`client.ts`) | the subscriptions' abort controllers | send, get, edit, delete, subscribe, recover, group transactions | text, files and upload are separate steps | what is sent can be read by the members |
| Attachments (`attachments/`, `storage/`) | none; files in the storage | upload, resolve, delete entries | partial failure, stale lists, rotations in between | the message never names a file that is gone |
| Transactions and views (`call.ts`, `transactions.ts`, `view.ts`) | a cache of object ids | build transactions, read objects | what is read early is used late | as the contract and the keys |
| Derivation and encodings (`derive.ts`, `bcs.ts`, ...) | none | pure functions | - | not modelled |
| Move package (`move/packages/sui_stack_messaging`) | EncryptionHistory, permissions, metadata, paused | create, rotate, leave, archive, seal_approve_reader, metadata, SuiNS | transactions built early and executed late | every key in the history can be opened by a reader |
| Move example apps (`move/packages/example_app`) | paid joins, subscriptions | join, subscribe, approve | payments and expiry | whoever paid is in |
| Discovery indexer (`walrus-discovery-indexer/src`) | discoveries by group; lastCheckpoint | listen, inspect, answer | ten inspections at most, drops, no resume | what is discovered is served once, in order |
| Recovery transport (`ts-sdks/.../examples/recovery-transport`) | none | list patches, fetch, deduplicate by version | patches out of order, blobs gone | the latest version of each message |
| Chat: messages (`hooks/useMessages.ts`, `ChatArea`, `MessageInput`, `MessageBubble`) | one list, cursors of the subscription and of paging | load, subscribe, page, send optimistically, edit, delete, switch groups | every answer writes to the one list, whenever it comes | each message once, in order, of the group shown, as the relayer has it |
| Chat: groups (`hooks/useGroupDiscovery.ts`, `lib/group-store.ts`, `CreateGroupModal`, `App`) | the list in localStorage, the list shown | discover, create, leave, switch accounts | discoveries read two counts and write back beside other writers | exactly the account's groups |
| Chat: administration (`AdminPanel`, `hooks/usePermissions.ts`, `lib/dapp-kit.ts`) | members and rights as last read, marks of changes under way | add, remove, remove and rotate, toggle a permission, archive | the panel acts on what it read long ago, several admins at once | a group keeps an admin; one's own changes, once waited for, are seen |
| Chat: wallet and clients (`lib/queued-signer.ts`, `contexts/`) | a chain of signatures | sign | one wallet for session keys, headers and bodies | one prompt at a time, every call ends |
| Generated bindings, `publish/` scripts | none | - | - | not modelled: generated code and one-off I/O |

`PROJECT.json` lists the same components with what is modelled, and under
"hazards" each place where a test would hardly reach, with the properties
aimed at it.

## Modules

| Module | Models | State and actions |
|---|---|---|
| `MessageStorage` | `memory.rs`, `models/message.rs` | the three maps as `messages`, `group_orders`, `nonces`; one operator for each section under a lock, so that composing modules decide what runs between two sections |
| `MessageHandlers` | `handlers.rs` over the storage | extends `MessageStorage`; `BeginCreate` / `StoreCreate` / `RefuseCreate` / `NotifySync` and `BeginUpdate` / `StoreUpdate` / `RefuseUpdate`, `BeginDelete` / `StoreDelete`: every point where another request may run separates two actions. Refines `MessageBoard` |
| `MessageBoard` | what the relayer promises | an atomic board: posts appear once, their order, group and sender never change, and an edit or a deletion changes one post (whose it may be is `ChecksStillHold`) |
| `WalrusSync` | `walrus_sync.rs`, `walrus/client.rs` | extends `MessageHandlers`, so that handlers run between any two steps of the worker: `TimerTick`, `ReceiveNotification`, `Fetch`, `StoreQuilt`, `StoreQuiltFails`, `Mark`, `EndWorkflow`, `Restart` |
| `Subscription` | `subscribe` of `http-transport.ts` | extends `MessageHandlers`: `Poll`, `Yield` one by one, `Resubscribe` with the last order seen, `RelayerRestart` |
| `MembershipSync` | `membership_sync.rs`, `event_parser.rs`, `membership.rs` | the chain as a ledger of events sealed into checkpoints; `Connect`, `Disconnect`, `SkipCheckpoint`, `PassCheckpoint` (a response without its checkpoint), `StartCheckpoint`, `ApplyEvent`, `DropEvent` (one that does not parse), `EndCheckpoint`, `Restart` |
| `GroupKeys` | `encryption_history.move`, `messaging.move`, `seal_policies.move` and the DEK caches of the clients | `BuildCreation`, `BuildRotation` put a DEK in the cache and a transaction in flight; `CreateGroup`, `RotateEncryptionKey` execute it, `GiveUp` loses it; `Send`, `Receive`, `Expire` use the cache; `Leave`, `ArchiveGroup`, `GrantPermission` change who may |
| `Attachments` | send and edit with files (`client.ts`, `attachments-manager.ts`) | one message, several devices of its sender: `BeginSend`, `BeginEdit`, `BeginTextEdit`, `Upload`, `Describe`, `Write`, `Fail`, `Load`, and beside them `DeleteEntry` and `Rotate` |
| `DiscoveryIndexer` | `walrus-discovery-indexer/src` | the archive and its `BlobCertified` events, sealed into checkpoints; `Connect`, checkpoints that start inspections up to `Slots` (the set `inspections`; one event may be inspected twice at a time), drops, `SkipCheckpoint` (a response without its checkpoint), `EndInspection` in any order and in part, `Restart` |
| `Recovery` | `recoverMessages` over the recovery transport | extends `DiscoveryIndexer`, so that the indexer goes on between two pages: `Recover` is one page with whatever of it can be read |
| `UseMessages` | the message list of the chat application | `requests` are calls not answered yet: the load, older pages, sends, edits and deletes each have a call and an answer; the subscription polls beside them and merges one message at a time into the list, which is sorted as a whole; `RefusePoll` ends it; `OpenGroup` switches. The relayer takes an order (`TakeOrder`) and stores the message later (`StoreMessage`). Extends `Selections` |
| `SignedCalls` | session keys, signed headers and bodies, the signature queue | `caller` is what each call waits for: a key, a signature, Seal or the relayer; `ShowPrompt`, `Approve` and `Reject` are the wallet and its user; `Tick` lets everything age |
| `GroupDiscovery` | how the application knows the user's groups | `events` on chain; discoveries go through `reading`, where each of the two readings (`ReadAdded`, `ReadRemoved`) may be any part of the events there are, and `merging`; creations, leaves, account switches and reloads beside them; what a discovery adds comes in any order. Extends `Selections` |
| `Selections` | `filter`, `sort` and the iteration of a `Set` | `Arrangements` of a set, the `Selected` entries of a list: sets of sequences, of one where the order is determined |
| `GroupAdmin` | the admin panel, the permissions hook, the contract's checks | `tasks` are handlers between their awaits: signing, waiting for the index, listing; `chain` and `node` are what is true and what is read; other users' transactions come at any moment |
| `...Proofs` | - | theorems and proofs, about the module of that name or those its first comment names |
| `MC...` | - | each instance: symmetry sets only, the constants are in the `.cfg` files |

Composition: `MessageStorage` is under `MessageHandlers`, which is under
`WalrusSync` and `Subscription`; `MessageHandlers` implements `MessageBoard`,
and `UseMessages` takes the relayer as that board, but for a create, which it
splits as `MessageStorage` does. `DiscoveryIndexer` is under
`Recovery`. `ChatProofs`, `KeysAndFilesProofs` and `StorageReadersProofs` each
hold the proofs of two modules. What one module shows another relies on: `DiscoveryIndexer` takes
the later quilt to have the later version (`UploadsInOrder`), and `GroupAdmin`
leaves keys to `GroupKeys`.

An operator whose name says how it is wrong (`...KeepingOld`, `...BySize`,
`KnownAny`) is a mutated form of the definition it stands before, called
"Mutant" in its comment. No specification uses one; putting it in the place of
the right definition must break a property, which shows that the property
looks at the code.

## Runs and what they show

Passing runs:

| Run | Instance | Shows |
|---|---|---|
| `handlers` | 2 messages, 2 groups, 2 senders, 3 nonces, 2 orders, 3 updates, 2 requests in flight, 1 restart | `OrdersUnique`, `NoncesExact`, `ChecksStillHold`, and `ImplementsBoard`: the split locks implement the atomic board |
| `walrus` | 2 messages, 2 updates, 1 request in flight beside the worker, 1 restart, batches of 2, threshold 2 | `TerminalHasLatestPatch`, `ArchiveFaithful`, `UploadsInOrder`, `ThresholdCounts`, `EventuallyTerminal` |
| `subscription` | 3 messages of one group, pages of 2, 2 requests in flight, 1 restart, resubscriptions at any time | `PageIsAhead`, `SkipsOnlyLate`, `EventuallyDelivered` |
| `membership` | 2 members, one permission the relayer knows and one it does not, 4 events, 2 checkpoints, 1 restart, reconnects at any time, responses without cursor or checkpoint, events that do not parse | `CacheFollowsChain` for members none of whose events was missed |
| `keys` | 2 clients, 3 versions, 3 DEKs, 1 grant, 2 messages | `KeysCanBeOpened`, `UnstrayedAgree` |
| `attachments` | 2 devices, 2 files, 1 rotation, 3 writes, each version read anew from a fullnode that may lag | `NothingDangling`, `ShownFilesOpen` |
| `recovery` | 2 messages, 2 quilts, 2 certifications, 2 slots, 1 restart, pages of 1 | `StoreIsLatest`: the store lacks exactly what was passed over, dropped or not inspected; `RecoveryIsComplete`: a recovery that has ended lacks exactly what could not be read or came behind it |
| `chat` | 2 messages, 2 groups, pages of 1, 3 groups opened, 2 calls under way, messages stored out of order, a subscription that may be refused | `OnlyThisGroup`, `NothingPassedOver`, `ShownOnceInOrder`, `OwnMessagesAgree` |
| `sessions` | 2 calls at a time, 1 group, keys of 3 with a buffer of 1, headers of 3 with a headroom of 1, 4 ticks | `KeysOutliveRequests`, `HeadersAccepted`, `EveryCallEnds` |
| `groups` | 2 accounts, 2 groups, 2 discoveries that may read less than there is, 3 membership events, 2 entries stored | `DiscoveryIsRight`; `GroupsTypeOK`: no group is listed twice before writers overlap |
| `admin` | 2 users, 2 groups, 2 changes executed, 1 more visit, 2 handlers under way | `AdminRemains`, `OwnChangesShown` |

Several properties have an exception in their statement (`unless ...`, `late`,
`overtaken`, `disturbed`, `Tied`). Each exception names a circumstance in which
the code really does otherwise; it is recorded by a history variable at the
step where it happens, and [below](#where-code-and-documents-disagree) it is
said what happens then.

Each bound is the least with which the interesting cases happen, or one more.
Two requests in flight are enough for every race the storage can have: an
operation has at most one point between its two locks, and a race is between
two operations; a third changes no more than a second one that runs twice,
which the bounds allow. Two groups show that orders are counted per group while
nonces are not. The restart bound of 1 puts a restart before, between and after
everything else. Three messages and pages of two give a full page, a page that
is not full and a message stored behind the cursor. Three versions let two
rotations from the same version overtake each other and a third follow. One
rotation lets a message mix the versions of a text, a kept attachment and a new
one, and a lagging answer fall between two that do not lag. Two quilts and two events of them are a first and a second version of a
message, inspected in either order, or one blob certified twice; pages of one
put a page boundary between any two messages. Three groups opened let a late
answer meet another group and the same one opened again. A clock of 4 passes the
end of every key and header. Two discoveries with three events are a
discovery that reads one count before and one after a change, beside another that
writes, and a member that is added, removed and added again; two entries are a
group listed beside another, or twice.
Two changes let two administrators remove each other. `CHECK_DEADLOCK FALSE` is
set because every bounded instance really ends: the bounds on orders, events,
versions or writes are used up.

Fairness. `walrus` assumes weak fairness of the worker's own steps: it is
a task of its own whose `select!` loop always goes on, and its timer fires
again and again. The handlers have none: nobody has to send requests. Of the
publisher it assumes strong fairness only: an upload that is tried again and
again succeeds some time. `subscription` assumes strong fairness of the
subscriber's poll and of its yields, and nothing of handlers, restarts and
aborts: the `while` loop of `subscribe` always polls again, and an application
that aborts and resubscribes every time before the first answer is excluded,
since such a subscriber is promised nothing. `sessions` assumes that a promise
chain goes on to the next signature, that the user answers a prompt one way or
the other, and that Seal and the relayer answer or fail; a prompt left open for
ever blocks everything behind it, which is the price of the queue.

`walrus_deletes` is a violation; see [below](#where-code-and-documents-disagree).

## Proofs

TLAPS checks these for every value of the constants (any number of messages,
groups, senders and requests in flight), under the assumptions the modules name.

| Module | Theorems | Assumes |
|---|---|---|
| `MessageHandlersProofs` | `TypesCorrect`, `OrdersAreUnique`, `OrdersAreReserved`, `NoncesAreExact`, `ChecksHoldAtWrite`, and `HandlersImplementBoard`: `Spec` implements `MessageBoard` | `BoundsAssumption` |
| `StorageReadersProofs` | of `WalrusSync`: `SyncTypesCorrect`, `TerminalMessagesArchived`, `ArchiveIsFaithful`, `ThresholdIsCounted`, `UploadsAreInOrder`; of `Subscription`: `SubscriptionTypesCorrect`, `PagesStayAhead`, `OnlyLateMessagesAreSkipped` | `SyncAssumption`, `SubscriptionAssumption` and the above |
| `MembershipSyncProofs` | `MembershipTypesCorrect`, `CacheAlwaysFollows` | `MembershipAssumption` |
| `KeysAndFilesProofs` | of `GroupKeys`: `KeyTypesCorrect`, `KeysOpen`, `UnstrayedClientsAgree`; of `Attachments`: `AttachmentTypesCorrect`, `NoFileDangles`, `ShownFilesAlwaysOpen` | `KeysAssumption`, `AttachmentsAssumption` |
| `RecoveryProofs` | `TypesHold`, `StoreStaysLatest`, `RecoveryCompletes` | `IndexerAssumption`, `RecoveryAssumption` |
| `ChatProofs` | of `UseMessages`: `ListTypesHold`, `OnlyThisGroupIsShown`, `NothingIsPassedOver`, `EachIsShownOnceInOrder`, `OwnMessagesAgreeAlways`; of `GroupDiscovery`: `GroupTypesHold`, `DiscoveryStaysRight` | `ChatAssumption`, `DiscoveryAssumption` |
| `SignedCallsProofs` | `CallsTypesCorrect`, `KeysDoOutliveRequests`, `CachedHeadersAccepted` | `CallsAssumption` |
| `GroupAdminProofs` | `AdminTypesHold`, `AdminAlwaysRemains`, `OwnChangesAreShown` | `AdminAssumption` |

The assumptions are ranges of limits and bounds, that names are told apart (`Me`
is a user, the recovery ceremony is no caller), and, of sets, that a subscriber or
a chat meets finitely many messages in all (`Ids`).

Each proof is an inductive invariant, one lemma for each action or kind of
action, and a last step that puts them together.

* Handlers. `OrdersUnique` is not inductive: between the two locks of
  `create_message` an order belongs to a request and to no message. The
  invariant adds `OrdersReserved`: the orders held by requests in flight and by
  stored messages are all different and not above the counter. `NoncesExact`
  needs only that the check and the insert are under one lock; that is why it
  survives what happens between the first lock and the second.
  `ChecksStillHold` rests on a message's sender and group never changing.
* Board. The board is the stored messages; a step that stores, edits or deletes
  maps to the board's step, a step that only takes an order, fails or notifies
  maps to a stutter. The side condition of the board's post, that the order is
  new, is `OrdersReserved` again.
* Keys. `KeysCanBeOpened` is inductive with the fact that nothing is sealed for
  more than the next version. `UnstrayedAgree` needs that a cached DEK which is
  not on chain yet belongs to a transaction that is still under way
  (`Awaited`), and that a transaction already overtaken is counted as astray
  (`OvertakenStray`): then the key the chain appends is the very DEK those
  clients have cached.
* Attachments. `NothingDangling` needs `Private`, that nobody else knows a file
  before it is attached, and `KeptFiles`, that an edit keeps none of the files
  it removes. `ShownFilesOpen` needs `HeldOpen`, that a device only holds
  attachments of messages that resolved, and `InOrder`, that a file is never
  encrypted with an earlier version than its text unless a fullnode that lagged
  gave it (`regressed`).
* Worker. `SyncInv` extends the handlers' invariant, whose steps are those of
  the storage: `HandlerStepShape` says once what a handler can do to a message
  (store a new one, write a newer `updated_at`), and the worker's invariant is
  shown against that shape. The worker marks messages long after it read them;
  what makes that safe is `ArchiveBehind`: no patch is newer than its message,
  and one as new is its copy and not yet marked. `BatchBehind` and
  `BatchIsLatest` carry the same through the upload; that a snapshot in the batch
  is an earlier state of its message, or the present one, is part of `SyncTypeOK`
  (`BatchIsEarlier`). `ThresholdCounts` needs
  `UnseenNotified` while the worker is not waiting.
* Subscription. The cursor is a position only because orders are unique
  (`HandlersInv`). A message stored while a page is half yielded is either above
  the page or late: `PageIsExact` says that a page lacks no stored message below
  its last one except late ones, `HighestBounds` that late is decided against
  every order that was ever seen, and `DeliveredBehind` that nothing comes again.
* Membership. `CacheFollowsChain` needs the place in the stream
  (`PlaceInStream`) and that the chain changes a member only by an event about it:
  `LedgerFollows` says so of one event, `LedgerAgrees` of any stretch of events.
  The position may then jump, forward or (after a response without its cursor)
  back, if those named in between are recorded as missed (`JumpKeepsCache`), and
  the cache's own fold of the events is the chain's (`ApplyFollows`).
* Signed calls. `QueueInv` ties the queue to its waiters: the wallet shows the
  head only, and a call is in the queue once exactly while it waits for a
  signature. `InTime` carries the age of a key from the moment it was handed
  out. `HeadersAccepted` follows from the types and the step alone: the cache
  counts from the end of the signature, the relayer from before it, and the
  headroom is what may lie between.
* Administration. Nothing the panel shows can be relied on. `AdminRemains` needs
  only `TasksSafe`, that no change under way takes anything from the user itself,
  and that the contract looks at the caller's permissions at the moment of
  execution: whoever takes the last other administrator's rights is one.
  `OwnChangesShown` needs that a mark is set only while a task is under way that
  clears it (`MarksOwned`); that what is shown, or the answer about to replace
  it, is as recent as the user's own last change (`RightsFresh`, `MembersFresh`);
  and that the fullnode never goes behind a change it was once waited for
  (`NodeFollows`). A check that failed leaves no rights at all (`NoRights`).
* Recovery. `StoreIsLatest` needs `PassedAreLost`: between the last checkpoint
  processed and the next of the stream nothing lies that was not recorded as
  lost. Inspections are never more than the slots because each that starts has a
  number of its own below the limit. `RecoveryIsComplete` is inductive with
  `BehindCursor` (what is active behind the reader's cursor was recovered, is
  known to be missed or shares its order) and with `ArchivedHaveOrder`: an order
  that was given once does not change under the reader.
* Chat, messages. `NothingPassedOver` rests on pages being exact (`IsExact`: a
  page lacks nothing of its group between where it begins and where it ends but
  late messages) and on `seen`, the highest order this visit has been given: a
  message stored at or below it is `late`, every other one lies beyond every
  page and cursor. `ShownOnceInOrder` needs that a group's first page of messages
  that are not late never changes once the group has more than a page
  (`FirstPage`, `IsFull`), that the list then begins with a message of the
  relayer's (`StartsHere`), and that an older page asked for below it brings nothing that is
  shown (`Reached`). `OwnMessagesAgree` needs `IsSettled`: what is shown agrees
  with the relayer or an answer is on its way that will make it agree, and an
  edit is never on its way to a message whose deletion is known (`IsTimely`).
* Chat, groups. `DiscoveryIsRight` is inductive with `SteadyInv`: for a group all
  of whose events about the account a run has read, what it counted is still who is
  a member and what it found stored is still stored, until an event or a writer of
  that entry takes the group out of `steady`; when the run writes, `steady` becomes
  `settled`. `AloneInv` says that as long as no two writers of localStorage have
  overlapped, a discovery is alone, nothing is being created beside it, and a
  group being created is not listed; from this no group is listed twice. A group
  with no events has no members (`AddedExists`), so a new group is in no list;
  and the counts of one member and group differ by at most one (`CountAppended`).

Only model-checked: all liveness (`EventuallyTerminal`, `EventuallyDelivered`,
`EveryCallEnds`; fairness and ENABLED are out of the prover's reach). Every
invariant and the one refinement that a passing run checks is stated by a
theorem. Lists that the application filters, sorts and folds are modelled as
sets of sequences (`Selections`) or with sorted, filtered positions, so that what
they keep follows from facts about bijections and no induction over data is
needed. No module uses recursion.

## Abstractions

* A message's text, ciphertext and signature are left out, its `revision`
  counts the edits. Timestamps are counts of writes: two writes never have the
  same time.
* Requests are values: two identical requests in flight at once are one. A
  request that fails validation, authentication or the permission check changes
  nothing and is not a step. `Uuid::new_v4` never repeats an id.
* Reads (GET, the indexer's API) change no state; they are modelled where a
  reader keeps something of them (`Poll`, `Load`, `Receive`).
* In `WalrusSync` a `quilt_patch_id` is the snapshot's `updated_at`: enough to
  tell patches of one message apart.
* In `MembershipSync` one member stands for a pair of group and address; the
  chain is the external contract's events, the fullnode any position of the
  stream that is not ahead of the chain. Any response may lack its cursor or its
  checkpoint, and any event may not parse.
* In `GroupKeys` one group; a DEK is a number. An entry of the history never
  changes, so fetching one is a step. A paused group refuses the Groups SDK's
  changes, as `messaging.move` relies on. The version a client reads may be any
  that exists: that covers a lagging fullnode and time passing.
* In `DiscoveryIndexer` one group; a quilt without patches of it stands for
  everybody else's blobs, which take a slot as well. Where a publisher's address
  is configured (`checkpoint-listener.ts:46`), other senders' events never take
  one: the events of the model are then the publisher's. In `Recovery` a page and the
  fetches of its patches are one step, since a patch never changes.
* In `UseMessages` an order drawn for a message that may not be stored yet is in
  `taken`; others' edits and deletes are left out, since nothing asks
  again for a message that has been shown; the user may send, edit and delete.
* In `SignedCalls` time is a count of ticks, and keys and headers are the times
  they were stamped and delivered. Session keys are of tier 1.
* In `GroupDiscovery` a group is its uuid; all pages of one kind of events are one
  reading, which may be any part of the events there are by its end: the indexer
  lags, an entry without contents is skipped, and an answer without data ends the
  reading. A transaction that is executed may still be reported as failed.
* In `GroupAdmin` the seven permission queries of the hook are one reading, and
  so is the list of members; the panel is taken to be open; there is one fullnode
  that never goes back; archiving reads nothing back. Renaming and rotating
  without a removal change neither members nor rights and are left out.
* In `Attachments` one message; a key version stands for its DEK. Deleting the
  message is left out, since it touches no storage.
* Confidentiality is not a subject of these models: they are about what the
  parts agree on.

## Where code and documents disagree

With a run: `walrus_deletes`. A DELETE between the worker's snapshot and its
mark is overwritten by the mark (`walrus_sync.rs`): the message is visible again
and no tombstone is archived, although the DELETE was answered with success.

Met while modelling; the first of each group are what the exceptions in the
checked properties are about.

Relayer:

* Two overlapping POSTs can be stored in the reverse of their orders
  (`memory.rs`), and a subscriber's cursor passes the late one
  (`SkipsOnlyLate`, and `NothingPassedOver` in the chat application).
* Checkpoints that pass during a reconnect are not asked for, a response without
  its checkpoint advances the cursor all the same (`membership_sync.rs`), and an
  event that does not parse is dropped (`event_parser.rs`). A revocation in one of
  them is not enforced, however many later checkpoints are processed, until the
  member is added or removed again (`CacheFollowsChain`);
  `04_threat_model.md:108` bounds the latency "by checkpoint cadence".
* `handlers.rs` lets the sender PUT a message it has deleted, which makes it
  visible again; `02_relayer.md:141` draws DELETE_PENDING to DELETED as the
  only way on.
* `update_sync_status` writes `updated_at`, so every archived message counts as
  edited (`response.rs:54`); `Examples.md:51` shows an "(edited)" mark by it.
* `storage/adapter.rs:107` says the most recent messages are returned without
  a cursor; `memory.rs` returns the oldest.
* `relayer/README.md:466` and `Relayer.md:141` give `REQUEST_TTL_SECONDS` as
  300; `config.rs` defaults to 900.

SDK and Move:

* The DEK of a rotation that was refused or overtaken stays in the cache of the
  client that generated it (`envelope-encryption.ts`; `UnstrayedAgree`).
* Attachments can be encrypted under another key version than their message
  (`client.ts`, `attachments-manager.ts`; `ShownFilesOpen`). When the fullnode
  that answers `getCurrentKeyVersion` for a file lags behind the one that
  answered for the text, the message resolves and its file does not open
  (`regressed`).
* `editMessage` says that omitted attachments are left unchanged
  (`client.ts:405`), `http-transport.ts:348` sends an empty list, which the
  relayer stores (`BeginTextEdit`).
* `walrus-http-storage-adapter.ts` finds patch ids by name: two files of one
  name in one upload get one id.
* `session-key-manager.ts:51` says "a valid, non-expired session key"; a key that
  was long with the wallet may arrive within its buffer or expired
  (`KeysOutliveRequests`). Likewise a header's timestamp is taken before it is
  signed and its place in the cache after (`HeadersAccepted`).
* A poll answered with a client error ends the subscription
  (`http-transport.ts:395`); `useMessages.ts:154` logs it, and nothing subscribes
  again until a group is opened (`RefusePoll`); `chat-app/README.md:22` says that
  new messages appear automatically.
* `#cachedHeaderAuth` does not share a signature under way: two GETs sign twice.
  A request started after `disconnect` still prompts the wallet.
* A request that waits in the queue while the account is switched is sent with
  the address of one account and the signature of another.
* `call.ts:267` and `group_leaver.move:76` say that the *last* administrator
  may not leave; `messaging.move:301` refuses every administrator.
* `client.ts:882` and `:898` require `ExtensionPermissionsAdmin`, `call.ts:351`
  `SuiNsAdmin`.

Recovery:

* A blob is certified again when its lifetime is extended (the event's
  `is_extension` is parsed and not looked at), and the store keeps the patch of
  the higher checkpoint: an older version certified again replaces a newer one,
  or the tombstone of a deleted message, which is then recovered
  (`StoreIsLatest` is about checkpoints, not versions). A blob dropped at the cap
  of ten is never inspected; `ArchiveRecovery.md:119` says "On restart, it
  re-processes checkpoints", while the stream starts at its head.
* A page of deleted patches only gives the reader no message to continue from:
  it asks for the same page for ever. Of two messages of one order (after a
  restart of the relayer) a page may end between the two (`RecoveryIsComplete`).

Chat application:

* `useMessages.ts:216` says the subscription replaces the optimistic entry; when
  the load or the subscription delivers first, the optimistic entry replaces the
  real message and stays, and it goes into whichever group is shown by then
  (`ShownOnceInOrder`, `OnlyThisGroup`). Line 7 says that incoming messages are
  deduplicated; `loadMore` prepends a page as it is. Line 54 says edits and
  deletes are handled; the subscription never delivers a message again.
* `MessageInput` can send twice while files are being read.
* `ChatArea.tsx:135` passes a uuid to `removeStoredGroup`, which is documented to
  take one (`group-store.ts:35`) and compares it with group ids: the group one
  has left stays listed (`EndLeave`). `group-store.ts:28` says that adding
  deduplicates; it does not. An aborted discovery that is past its last
  check still writes, and one that asked before a creation removes the new group.
  An answer without data ends a reading of events quietly
  (`useGroupDiscovery.ts:87`): groups are dropped from the list, or come back to
  it, for which events were not read (`DiscoveryIsRight` is about the others).
* `AdminPanel` and `ChatView` have no `key`: members, rights and handlers under
  way survive a switch of the group, a late list of the former group fills the
  panel of the next, and one mark serves all removals (and one all toggles),
  cleared by whichever ends first (`OwnChangesShown`). `ChatArea` passes neither
  `onGroupRenamed` nor `onGroupArchived`.
* `messaging.move:283` documents that the last human administrator may remove
  itself. No panel offers it; `AdminRemains` is about changes made from panels.

## Not modelled

* Generated contract bindings, publishing scripts and the configuration of the
  development stack: generated code and one-off I/O.
* Derivation of ids, encodings, hashes, signature schemes and header parsing:
  pure functions whose correctness is about bytes.
* Metadata and SuiNS reverse lookups of a group, package versions: they touch no
  key, permission or message.
* The Move example applications: a payment rule and a Seal policy of their own,
  which show how the package is used and are no part of it.
* The mapping of names to patch ids in the Walrus adapter, batches of several
  files, and the wire format and error classes of the transport.
* Rendering.

What would add most next: action properties of the chat's list (what one step may
never take from the screen), and the example applications.
