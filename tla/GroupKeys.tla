------------------------------- MODULE GroupKeys -------------------------------
(***************************************************************************)
(* The keys of one group: the EncryptionHistory on chain                   *)
(* (move/.../encryption_history.move, rotated by messaging.move, approved  *)
(* by seal_policies.move) and the DEK cache of every client's              *)
(* EnvelopeEncryption (encryption/envelope-encryption.ts).                 *)
(*                                                                         *)
(* A client generates a DEK for the version it expects to come next and    *)
(* puts it in its cache at once; the transaction that carries it to the    *)
(* chain is signed and executed later, refused, or overtaken by another.   *)
(* The chain stores it under whatever version is next by then.             *)
(*                                                                         *)
(* A version a client reads from the chain may be old when it is used:     *)
(* other transactions run meanwhile, and a fullnode may lag.  An entry of  *)
(* the history never changes, so a fetch of one is a single step.          *)
(***************************************************************************)
EXTENDS Integers, Sequences, FiniteSets

CONSTANTS
    Clients,      \* SDK clients, each with its own address and cache
    MaxVersions,  \* bound: key versions on chain
    MaxDeks,      \* bound: DEKs generated
    MaxGrants,    \* bound: permissions granted
    MaxSent       \* bound: different messages sent

ASSUME KeysAssumption ==
    /\ MaxVersions \in Nat
    /\ MaxDeks \in Nat
    /\ MaxGrants \in Nat
    /\ MaxSent \in Nat

VARIABLES
    history,       \* encrypted_keys: each DEK with the version it is sealed for
    permissions,   \* permissions in the group, by client
    paused,        \* the group is archived
    transactions,  \* built, neither executed nor given up
    cache,         \* the DEKs each client has cached, by version
    sent,          \* messages sent: sender, key version and DEK used
    generated,     \* DEKs generated so far: a DEK is its number
    grants,        \* permissions granted so far
    strayed        \* history: clients a DEK of which did not become the key
                   \* of the version it was generated for

chainVars == <<history, permissions, paused>>
clientVars == <<transactions, cache, sent, generated>>
vars == <<chainVars, clientVars, grants, strayed>>

-----------------------------------------------------------------------------

Permissions ==
    {"MessagingReader", "EncryptionKeyRotator", "PermissionsAdmin"}

(* The identity a DEK is sealed to: the group, here the only one, and a    *)
(* version.                                                                *)
Identities == 0..MaxVersions

Key == [dek: 1..MaxDeks, identity: Identities]

Transaction ==
    [kind: {"create_group", "rotate_encryption_key"}, client: Clients,
     dek: 1..MaxDeks, identity: Identities, members: SUBSET Clients]

Message == [sender: Clients, version: 0..MaxVersions, dek: 1..MaxDeks]

(* The versions on chain, and the entry of one of them. *)
Versions == 0..(Len(history) - 1)

EncryptedKey(v) == history[v + 1]

Has(c, p) == p \in permissions[c]

IsMember(c) == permissions[c] # {}

-----------------------------------------------------------------------------
(* The client *)

(* #putDEK: an entry that is there already stays.                          *)
Cached(c, v, dek) ==
    [cache EXCEPT ![c] =
        [w \in DOMAIN @ \cup {v} |-> IF w \in DOMAIN @ THEN @[w] ELSE dek]]

(* #generateDEK: a new DEK, sealed for version v, that warms the cache.    *)
GenerateDEK(kind, c, v, ms) ==
    /\ generated < MaxDeks
    /\ generated' = generated + 1
    /\ transactions' = transactions \cup
           {[kind |-> kind, client |-> c, dek |-> generated + 1,
             identity |-> v, members |-> ms]}
    /\ cache' = Cached(c, v, generated + 1)
    /\ strayed' = IF v \in Versions THEN strayed \cup {c} ELSE strayed
    /\ UNCHANGED <<chainVars, sent, grants>>

GenerateGroupDEK(c, ms) == GenerateDEK("create_group", c, 0, ms)

(* The version after the current one, as some fullnode has it.  Mutant:    *)
(* the size of the history is taken for its last version.                  *)
GenerateRotationDEKBySize(c, ms) ==
    \E size \in 1..Len(history) :
        GenerateDEK("rotate_encryption_key", c, size + 1, ms)

GenerateRotationDEK(c, ms) ==
    \E size \in 1..Len(history) :
        GenerateDEK("rotate_encryption_key", c, size, ms)

(* createGroup, createAndShareGroup with a given uuid. *)
BuildCreation(c, ms) == GenerateGroupDEK(c, ms)

(* rotateEncryptionKey, and removeMembersAndRotateKey when there are       *)
(* members to remove.                                                      *)
BuildRotation(c, ms) == c \notin ms /\ GenerateRotationDEK(c, ms)

(* The wallet refuses, the network fails or the chain aborts. *)
GiveUp(t) ==
    /\ t \in transactions
    /\ transactions' = transactions \ {t}
    /\ strayed' = strayed \cup {t.client}
    /\ UNCHANGED <<chainVars, cache, sent, generated, grants>>

(* seal_approve_reader, with validate_identity. *)
SealApproves(c, v) ==
    /\ Has(c, "MessagingReader")
    /\ EncryptedKey(v).identity \in Versions

(* #resolveDEK: from the cache, or fetched and opened by Seal.  Mutant:    *)
(* the key fetched is the latest one.                                      *)
FetchLatestDEK(v) == EncryptedKey(Len(history) - 1).dek

FetchDEK(v) == EncryptedKey(v).dek

CanResolve(c, v) == v \in DOMAIN cache[c] \/ SealApproves(c, v)

ResolvedDEK(c, v) ==
    IF v \in DOMAIN cache[c] THEN cache[c][v] ELSE FetchDEK(v)

(* sendMessage, editMessage: encrypt with the version read from the chain. *)
Send(c, v) ==
    /\ Cardinality(sent) < MaxSent
    /\ CanResolve(c, v)
    /\ cache' = Cached(c, v, ResolvedDEK(c, v))
    /\ sent' = sent \cup
           {[sender |-> c, version |-> v, dek |-> ResolvedDEK(c, v)]}
    /\ UNCHANGED <<chainVars, transactions, generated, grants, strayed>>

(* getMessages, getMessage, recoverMessages: what a message of version v   *)
(* leaves behind, whether it can be decrypted or not.                      *)
Receive(c, v) ==
    /\ v \notin DOMAIN cache[c]
    /\ CanResolve(c, v)
    /\ cache' = Cached(c, v, ResolvedDEK(c, v))
    /\ UNCHANGED <<chainVars, transactions, sent, generated, grants, strayed>>

(* TtlMap: an entry expires; clearCache removes them too. *)
Expire(c, v) ==
    /\ v \in DOMAIN cache[c]
    /\ cache' = [cache EXCEPT ![c] = [w \in DOMAIN @ \ {v} |-> @[w]]]
    /\ UNCHANGED <<chainVars, transactions, sent, generated, grants, strayed>>

-----------------------------------------------------------------------------
(* The chain *)

(* push_back: the DEKs of the others that wait for this version will not   *)
(* be its key.                                                             *)
PushKey(t) ==
    /\ Len(history) < MaxVersions
    /\ history' = Append(history, [dek |-> t.dek, identity |-> t.identity])
    /\ transactions' = transactions \ {t}
    /\ strayed' = strayed \cup
           {u.client : u \in {u \in transactions \ {t} :
                                  u.identity = Len(history)}}
    /\ UNCHANGED <<cache, sent, generated, grants>>

(* create_group: the uuid is not taken. *)
CreateGroup(t) ==
    /\ t \in transactions
    /\ t.kind = "create_group"
    /\ history = <<>>
    /\ permissions' =
           [c \in Clients |->
               IF c = t.client THEN Permissions
               ELSE IF c \in t.members THEN {"MessagingReader"} ELSE {}]
    /\ PushKey(t)
    /\ UNCHANGED paused

(* rotate_encryption_key, after remove_member for each of the members, in  *)
(* one transaction.                                                        *)
RotateEncryptionKey(t) ==
    /\ t \in transactions
    /\ t.kind = "rotate_encryption_key"
    /\ ~paused
    /\ Has(t.client, "EncryptionKeyRotator")
    /\ t.members # {} => Has(t.client, "PermissionsAdmin")
    /\ \A m \in t.members : IsMember(m)
    /\ permissions' =
           [c \in Clients |-> IF c \in t.members THEN {} ELSE permissions[c]]
    /\ PushKey(t)
    /\ UNCHANGED paused

(* leave. *)
Leave(c) ==
    /\ ~paused
    /\ IsMember(c)
    /\ ~Has(c, "PermissionsAdmin")
    /\ permissions' = [permissions EXCEPT ![c] = {}]
    /\ UNCHANGED <<history, paused, clientVars, grants, strayed>>

(* archive_group: pause, and the cap that could unpause is burnt. *)
ArchiveGroup(c) ==
    /\ ~paused
    /\ Has(c, "PermissionsAdmin")
    /\ paused' = TRUE
    /\ UNCHANGED <<history, permissions, clientVars, grants, strayed>>

(* grant_permission of the Groups SDK, by an admin. *)
GrantPermission(c, p) ==
    /\ grants < MaxGrants
    /\ ~paused
    /\ \E admin \in Clients : Has(admin, "PermissionsAdmin")
    /\ ~Has(c, p)
    /\ grants' = grants + 1
    /\ permissions' = [permissions EXCEPT ![c] = @ \cup {p}]
    /\ UNCHANGED <<history, paused, clientVars, strayed>>

-----------------------------------------------------------------------------

Init ==
    /\ history = <<>>
    /\ permissions = [c \in Clients |-> {}]
    /\ paused = FALSE
    /\ transactions = {}
    /\ cache = [c \in Clients |-> [v \in {} |-> 0]]
    /\ sent = {}
    /\ generated = 0
    /\ grants = 0
    /\ strayed = {}

ClientNext ==
    \/ \E c \in Clients, ms \in SUBSET Clients :
           BuildCreation(c, ms) \/ BuildRotation(c, ms)
    \/ \E t \in transactions : GiveUp(t)
    \/ \E c \in Clients, v \in Versions :
           Send(c, v) \/ Receive(c, v)
    \/ \E c \in Clients, v \in 0..MaxVersions : Expire(c, v)

ChainNext ==
    \/ \E t \in transactions : CreateGroup(t) \/ RotateEncryptionKey(t)
    \/ \E c \in Clients : Leave(c) \/ ArchiveGroup(c)
    \/ \E c \in Clients, p \in Permissions : GrantPermission(c, p)

Next == ClientNext \/ ChainNext

Spec == Init /\ [][Next]_vars

-----------------------------------------------------------------------------
(* Properties *)

(* The chain, the caches and the transactions under way have their types;  *)
(* nothing is ever prepared for a version further ahead than the next one. *)
TypeOK ==
    /\ history \in Seq(Key)
    /\ permissions \in [Clients -> SUBSET Permissions]
    /\ paused \in BOOLEAN
    /\ transactions \subseteq Transaction
    /\ \A t \in transactions : t.identity <= Len(history)
    /\ \A c \in Clients :
           /\ DOMAIN cache[c] \subseteq 0..Len(history)
           /\ \A v \in DOMAIN cache[c] : cache[c][v] \in 1..MaxDeks
    /\ DOMAIN cache = Clients
    /\ sent \subseteq Message
    /\ generated \in 0..MaxDeks
    /\ grants \in 0..MaxGrants
    /\ strayed \subseteq Clients

(* Seal opens every key on chain to a reader, whatever rotations overtook  *)
(* each other: validate_identity refuses a version that does not exist yet, *)
(* and a key is never stored before the version it is sealed for.          *)
KeysCanBeOpened ==
    \A v \in Versions : EncryptedKey(v).identity <= v

(* As long as no DEK of a client went astray, everything in its cache that *)
(* is a version of the chain is the chain's key, so that it encrypts with  *)
(* and decrypts with what every reader has.                                *)
UnstrayedAgree ==
    /\ \A c \in Clients \ strayed : \A v \in DOMAIN cache[c] :
           v \in Versions => cache[c][v] = EncryptedKey(v).dek
    /\ \A m \in sent :
           m.sender \notin strayed => m.dek = EncryptedKey(m.version).dek
=============================================================================
