--------------------------- MODULE KeysAndFilesProofs ---------------------------
(***************************************************************************)
(* Proofs about what the SDK encrypts with the keys of a group.            *)
(*                                                                         *)
(* GroupKeys: types, the keys Seal can open, and the DEKs of clients none  *)
(* of whose DEKs went astray.                                              *)
(*                                                                         *)
(* Attachments: types, no file of a message gone before two edits overlap, *)
(* and files that open when their message is shown, for any number of      *)
(* devices, files, rotations and writes.                                   *)
(***************************************************************************)
EXTENDS GroupKeys, Attachments, FiniteSetTheorems, TLAPS

(*************************************************************************)
(*                               GroupKeys                               *)
(*************************************************************************)

(* The bound on versions, which the types of what refers to them need. *)
TypeInv ==
    /\ TypeOK
    /\ Len(history) <= MaxVersions

-----------------------------------------------------------------------------
(* Lemmas about the operators *)

(* What appending a key does to the history. *)
LEMMA AppendKey ==
    ASSUME NEW h \in Seq(Key), NEW k \in Key
    PROVE  /\ Append(h, k) \in Seq(Key)
           /\ Len(Append(h, k)) = Len(h) + 1
           /\ \A i \in 1..Len(h) : Append(h, k)[i] = h[i]
           /\ Append(h, k)[Len(h) + 1] = k
OBVIOUS

(* #putDEK changes one client's cache, adds one version at most and never  *)
(* replaces an entry.                                                      *)
LEMMA CachedEntries ==
    ASSUME DOMAIN cache = Clients, NEW c \in Clients, NEW v, NEW dek
    PROVE  /\ DOMAIN Cached(c, v, dek) = Clients
           /\ \A d \in Clients \ {c} : Cached(c, v, dek)[d] = cache[d]
           /\ DOMAIN Cached(c, v, dek)[c] = DOMAIN cache[c] \cup {v}
           /\ \A w \in DOMAIN cache[c] :
                  Cached(c, v, dek)[c][w] = cache[c][w]
           /\ v \notin DOMAIN cache[c] => Cached(c, v, dek)[c][v] = dek
BY DEF Cached

(* A version of the chain has an entry, which is a key. *)
LEMMA EntryIsKey ==
    ASSUME TypeInv, NEW v \in Versions
    PROVE  /\ v \in 0..MaxVersions
           /\ v \in 0..Len(history)
           /\ EncryptedKey(v) \in Key
           /\ EncryptedKey(v).dek \in 1..MaxDeks
<1>1. Len(history) \in Nat /\ history \in Seq(Key) /\ Len(history) <= MaxVersions
  BY DEF TypeInv, TypeOK
<1>2. v + 1 \in 1..Len(history) /\ v \in 0..MaxVersions /\ v \in 0..Len(history)
  BY <1>1, KeysAssumption DEF Versions
<1>3. EncryptedKey(v) \in Key
  BY <1>1, <1>2 DEF EncryptedKey
<1>. QED BY <1>2, <1>3 DEF Key, Identities

(* A resolved DEK is a DEK. *)
LEMMA ResolvedIsDEK ==
    ASSUME TypeInv, NEW c \in Clients, NEW v \in Versions
    PROVE  ResolvedDEK(c, v) \in 1..MaxDeks
BY EntryIsKey DEF ResolvedDEK, FetchDEK, TypeInv, TypeOK

-----------------------------------------------------------------------------
(* Types *)

(* The steps of the clients keep the types. *)
LEMMA GenerateKeepsTypes ==
    ASSUME TypeInv, KeysAssumption,
           NEW kind \in {"create_group", "rotate_encryption_key"},
           NEW c \in Clients, NEW v \in 0..Len(history),
           NEW ms \in SUBSET Clients, GenerateDEK(kind, c, v, ms)
    PROVE  TypeInv'
<1>. DEFINE t == [kind |-> kind, client |-> c, dek |-> generated + 1,
                  identity |-> v, members |-> ms]
<1>0. /\ history \in Seq(Key) /\ Len(history) \in Nat
      /\ Len(history) <= MaxVersions /\ generated \in 0..MaxDeks
      /\ generated + 1 \in 1..MaxDeks /\ generated < MaxDeks
      /\ v \in 0..MaxVersions /\ MaxDeks \in Nat
  BY DEF TypeInv, TypeOK, GenerateDEK, KeysAssumption
<1>1. history' = history /\ generated' = generated + 1
      /\ transactions' = transactions \cup {t}
      /\ cache' = Cached(c, v, generated + 1)
      /\ permissions' = permissions /\ paused' = paused
      /\ sent' = sent /\ grants' = grants
      /\ strayed' \subseteq strayed \cup {c}
  BY DEF GenerateDEK, chainVars
<1>2. t \in Transaction /\ t.identity = v
  BY <1>0 DEF Transaction, Identities
<1>3. transactions' \subseteq Transaction
      /\ \A u \in transactions' : u.identity <= Len(history')
  <2>. HIDE DEF t
  <2>. QED BY <1>0, <1>1, <1>2 DEF TypeInv, TypeOK
<1>4. /\ DOMAIN cache' = Clients
      /\ \A d \in Clients :
             /\ DOMAIN cache'[d] \subseteq 0..Len(history')
             /\ \A w \in DOMAIN cache'[d] : cache'[d][w] \in 1..MaxDeks
  <2>1. DOMAIN cache = Clients /\ \A d \in Clients :
             /\ DOMAIN cache[d] \subseteq 0..Len(history)
             /\ \A w \in DOMAIN cache[d] : cache[d][w] \in 1..MaxDeks
    BY DEF TypeInv, TypeOK
  <2>2. DOMAIN cache' = Clients
    BY <1>1, <2>1, CachedEntries
  <2>3. ASSUME NEW d \in Clients
        PROVE  /\ DOMAIN cache'[d] \subseteq 0..Len(history')
               /\ \A w \in DOMAIN cache'[d] : cache'[d][w] \in 1..MaxDeks
    <3>1. CASE d = c
      BY <3>1, <1>0, <1>1, <2>1, CachedEntries
    <3>2. CASE d # c
      BY <3>2, <1>1, <2>1, CachedEntries
    <3>. QED BY <3>1, <3>2
  <2>. QED BY <2>2, <2>3
<1>. QED
  BY <1>0, <1>1, <1>3, <1>4 DEF TypeInv, TypeOK

LEMMA UseKeepsTypes ==
    ASSUME TypeInv, KeysAssumption, NEW c \in Clients, NEW v \in Versions,
           cache' = Cached(c, v, ResolvedDEK(c, v)),
           UNCHANGED <<history, permissions, paused, transactions, generated,
                       grants, strayed>>,
           sent' \subseteq Message
    PROVE  TypeInv'
<1>0. DOMAIN cache = Clients /\ \A d \in Clients :
             /\ DOMAIN cache[d] \subseteq 0..Len(history)
             /\ \A w \in DOMAIN cache[d] : cache[d][w] \in 1..MaxDeks
  BY DEF TypeInv, TypeOK
<1>1. v \in 0..Len(history) /\ ResolvedDEK(c, v) \in 1..MaxDeks
  BY EntryIsKey, ResolvedIsDEK
<1>2. DOMAIN cache' = Clients
  BY <1>0, CachedEntries
<1>3. ASSUME NEW d \in Clients
      PROVE  /\ DOMAIN cache'[d] \subseteq 0..Len(history)
             /\ \A w \in DOMAIN cache'[d] : cache'[d][w] \in 1..MaxDeks
  <2>1. CASE d = c
    BY <2>1, <1>0, <1>1, CachedEntries
  <2>2. CASE d # c
    BY <2>2, <1>0, CachedEntries
  <2>. QED BY <2>1, <2>2
<1>. QED
  BY <1>2, <1>3 DEF TypeInv, TypeOK

(* The execution of a transaction keeps the types. *)
LEMMA PushKeepsTypes ==
    ASSUME TypeInv, KeysAssumption, NEW t \in transactions, PushKey(t),
           permissions' \in [Clients -> SUBSET Permissions], paused' = paused
    PROVE  TypeInv'
<1>. DEFINE k == [dek |-> t.dek, identity |-> t.identity]
<1>0. /\ history \in Seq(Key) /\ Len(history) \in Nat
      /\ Len(history) < MaxVersions /\ MaxVersions \in Nat
      /\ t \in Transaction /\ t.dek \in 1..MaxDeks /\ t.client \in Clients
      /\ t.identity \in 0..MaxVersions
      /\ transactions \subseteq Transaction
      /\ \A u \in transactions : u.client \in Clients
      /\ \A u \in transactions : u.identity <= Len(history)
      /\ \A u \in transactions : u.identity \in 0..MaxVersions
  BY DEF TypeInv, TypeOK, PushKey, KeysAssumption, Transaction, Identities
<1>1. k \in Key
  BY <1>0 DEF Key, Identities
<1>2. history' = Append(history, k) /\ transactions' = transactions \ {t}
      /\ cache' = cache /\ sent' = sent /\ generated' = generated
      /\ grants' = grants
  BY DEF PushKey
<1>3. history' \in Seq(Key) /\ Len(history') = Len(history) + 1
  <2>. HIDE DEF k
  <2>. QED BY <1>0, <1>1, <1>2, AppendKey
<1>4. strayed' \subseteq Clients
  BY <1>0 DEF PushKey, TypeInv, TypeOK
<1>5. \A u \in transactions' : u.identity <= Len(history')
  BY <1>0, <1>2, <1>3
<1>6. \A c \in Clients :
         /\ DOMAIN cache'[c] \subseteq 0..Len(history')
         /\ \A v \in DOMAIN cache'[c] : cache'[c][v] \in 1..MaxDeks
  BY <1>0, <1>2, <1>3 DEF TypeInv, TypeOK
<1>. QED
  BY <1>0, <1>2, <1>3, <1>4, <1>5, <1>6 DEF TypeInv, TypeOK

(* Every step keeps the types. *)
LEMMA StepKeepsTypes == TypeInv /\ KeysAssumption /\ [Next]_vars => TypeInv'
<1>. SUFFICES ASSUME TypeInv, KeysAssumption, [Next]_vars  PROVE TypeInv'
  OBVIOUS
<1>0. /\ history \in Seq(Key) /\ Len(history) \in Nat
      /\ permissions \in [Clients -> SUBSET Permissions]
      /\ transactions \subseteq Transaction
  BY DEF TypeInv, TypeOK
<1>1. ASSUME NEW c \in Clients, NEW ms \in SUBSET Clients,
             BuildCreation(c, ms) \/ BuildRotation(c, ms)
      PROVE  TypeInv'
  <2>1. CASE BuildCreation(c, ms)
    BY <2>1, <1>0, GenerateKeepsTypes DEF BuildCreation, GenerateGroupDEK
  <2>2. CASE BuildRotation(c, ms)
    <3>1. PICK size \in 1..Len(history) :
              GenerateDEK("rotate_encryption_key", c, size, ms)
      BY <2>2 DEF BuildRotation, GenerateRotationDEK
    <3>. QED BY <3>1, <1>0, GenerateKeepsTypes
  <2>. QED BY <1>1, <2>1, <2>2
<1>2. ASSUME NEW t \in transactions, GiveUp(t)  PROVE TypeInv'
  <2>1. t.client \in Clients
    BY <1>0 DEF Transaction, Identities
  <2>. QED BY <1>2, <2>1 DEF GiveUp, chainVars, TypeInv, TypeOK
<1>3. ASSUME NEW c \in Clients, NEW v \in Versions, Send(c, v)  PROVE TypeInv'
  <2>1. [sender |-> c, version |-> v, dek |-> ResolvedDEK(c, v)] \in Message
    BY EntryIsKey, ResolvedIsDEK DEF Message
  <2>2. sent' \subseteq Message
    BY <1>3, <2>1 DEF Send, TypeInv, TypeOK
  <2>. QED BY <1>3, <2>2, UseKeepsTypes DEF Send, chainVars
<1>4. ASSUME NEW c \in Clients, NEW v \in Versions, Receive(c, v)
      PROVE  TypeInv'
  BY <1>4, UseKeepsTypes DEF Receive, chainVars, TypeInv, TypeOK
<1>5. ASSUME NEW c \in Clients, NEW v \in 0..MaxVersions, Expire(c, v)
      PROVE  TypeInv'
  BY <1>5 DEF Expire, chainVars, TypeInv, TypeOK
<1>6. ASSUME NEW t \in transactions, CreateGroup(t) \/ RotateEncryptionKey(t)
      PROVE  TypeInv'
  <2>1. permissions' \in [Clients -> SUBSET Permissions] /\ paused' = paused
    BY <1>0, <1>6 DEF CreateGroup, RotateEncryptionKey, Permissions
  <2>. QED
    BY <1>6, <2>1, PushKeepsTypes DEF CreateGroup, RotateEncryptionKey
<1>7. ASSUME NEW c \in Clients, Leave(c) \/ ArchiveGroup(c)  PROVE TypeInv'
  <2>1. permissions' \in [Clients -> SUBSET Permissions] /\ paused' \in BOOLEAN
    BY <1>0, <1>7 DEF Leave, ArchiveGroup, TypeInv, TypeOK
  <2>. QED
    BY <1>7, <2>1 DEF Leave, ArchiveGroup, clientVars, TypeInv, TypeOK
<1>8. ASSUME NEW c \in Clients, NEW p \in Permissions, GrantPermission(c, p)
      PROVE  TypeInv'
  <2>1. permissions' \in [Clients -> SUBSET Permissions]
    BY <1>0, <1>8 DEF GrantPermission
  <2>2. grants' \in 0..MaxGrants
    BY <1>8 DEF GrantPermission, TypeInv, TypeOK, KeysAssumption
  <2>. QED
    BY <1>8, <2>1, <2>2 DEF GrantPermission, clientVars, TypeInv, TypeOK
<1>9. CASE UNCHANGED vars
  BY <1>9 DEF vars, chainVars, clientVars, TypeInv, TypeOK
<1>. QED
  BY <1>1, <1>2, <1>3, <1>4, <1>5, <1>6, <1>7, <1>8, <1>9
     DEF Next, ClientNext, ChainNext

LEMMA InitTypes == KeysAssumption /\ Init => TypeInv
<1>. SUFFICES ASSUME KeysAssumption, Init  PROVE TypeInv
  OBVIOUS
<1>1. history \in Seq(Key) /\ Len(history) = 0
  BY DEF Init
<1>2. 0 \in 0..MaxDeks /\ 0 \in 0..MaxGrants /\ 0 <= MaxVersions
  BY DEF KeysAssumption
<1>3. \A c \in Clients : DOMAIN cache[c] = {}
  BY DEF Init
<1>4. DOMAIN cache = Clients
  BY DEF Init
<1>. QED
  BY <1>1, <1>2, <1>3, <1>4 DEF Init, TypeInv, TypeOK

(* TypeOK holds in every reachable state: no client prepares a key further *)
(* ahead than the next version, whatever other rotations do meanwhile.     *)
THEOREM KeyTypesCorrect == Spec => []TypeOK
<1>1. Init => TypeInv
  BY KeysAssumption, InitTypes
<1>2. TypeInv /\ [Next]_vars => TypeInv'
  BY KeysAssumption, StepKeepsTypes
<1>3. TypeInv => TypeOK
  BY DEF TypeInv
<1>. QED BY <1>1, <1>2, <1>3, PTL DEF Spec

-----------------------------------------------------------------------------
(* How the history changes *)

(* A step leaves the history as it is, or executes one transaction.        *)
LEMMA HistorySteps ==
    ASSUME [Next]_vars
    PROVE  \/ history' = history
           \/ \E t \in transactions : PushKey(t)
BY DEF Next, ClientNext, ChainNext, BuildCreation, BuildRotation,
       GenerateGroupDEK, GenerateRotationDEK, GenerateDEK,
       GiveUp, Send, Receive, Expire, CreateGroup, RotateEncryptionKey, Leave,
       ArchiveGroup, GrantPermission, vars, chainVars

(* An executed transaction adds one entry and changes none.                *)
LEMMA PushedEntries ==
    ASSUME TypeInv, NEW t \in transactions, PushKey(t)
    PROVE  /\ Len(history) \in Nat /\ Len(history') = Len(history) + 1
           /\ Versions' = Versions \cup {Len(history)}
           /\ \A v \in Versions : EncryptedKey(v)' = EncryptedKey(v)
           /\ \A v \in {Len(history)} : EncryptedKey(v)' =
                  [dek |-> t.dek, identity |-> t.identity]
<1>. DEFINE k == [dek |-> t.dek, identity |-> t.identity]
<1>1. /\ history \in Seq(Key) /\ Len(history) \in Nat /\ t \in Transaction
      /\ history' = Append(history, k)
  BY DEF TypeInv, TypeOK, PushKey
<1>2. k \in Key
  BY <1>1 DEF Transaction, Key, Identities
<1>. HIDE DEF k
<1>3. /\ Len(history') = Len(history) + 1
      /\ \A i \in 1..Len(history) : history'[i] = history[i]
      /\ history'[Len(history) + 1] = k
  BY <1>1, <1>2, AppendKey
<1>4. Versions' = Versions \cup {Len(history)}
  BY <1>1, <1>3 DEF Versions
<1>5. \A v \in Versions : EncryptedKey(v)' = EncryptedKey(v)
  BY <1>1, <1>3 DEF Versions, EncryptedKey
<1>6. \A v \in {Len(history)} : EncryptedKey(v)' = k
  BY <1>1, <1>3 DEF EncryptedKey
<1>. QED BY <1>1, <1>3, <1>4, <1>5, <1>6 DEF k

(* Seal opens every key on chain: no entry is sealed for a version later   *)
(* than its own, in whatever order the rotations were executed.            *)
THEOREM KeysOpen == Spec => []KeysCanBeOpened
<1>1. Init => TypeInv /\ KeysCanBeOpened
  BY KeysAssumption, InitTypes DEF Init, KeysCanBeOpened, Versions
<1>2. TypeInv /\ KeysCanBeOpened /\ [Next]_vars => TypeInv' /\ KeysCanBeOpened'
  <2>. SUFFICES ASSUME TypeInv, KeysCanBeOpened, [Next]_vars
                PROVE  KeysCanBeOpened'
    BY KeysAssumption, StepKeepsTypes
  <2>1. CASE history' = history
    BY <2>1 DEF KeysCanBeOpened, Versions, EncryptedKey
  <2>2. ASSUME NEW t \in transactions, PushKey(t)  PROVE KeysCanBeOpened'
    <3>1. t.identity <= Len(history)
      BY DEF TypeInv, TypeOK
    <3>2. ASSUME NEW v \in Versions'  PROVE EncryptedKey(v)'.identity <= v
      <4>1. CASE v \in Versions
        BY <4>1, <2>2, PushedEntries DEF KeysCanBeOpened
      <4>2. CASE v = Len(history)
        <5>1. EncryptedKey(v)' = [dek |-> t.dek, identity |-> t.identity]
          BY <2>2, <4>2, PushedEntries
        <5>. QED BY <4>2, <5>1, <3>1
      <4>. QED BY <4>1, <4>2, <2>2, <3>2, PushedEntries
    <3>. QED BY <3>2 DEF KeysCanBeOpened
  <2>. QED BY <2>1, <2>2, HistorySteps
<1>. QED BY <1>1, <1>2, PTL DEF Spec

-----------------------------------------------------------------------------
(* Agreement *)

(* A cached DEK that is not a key on chain yet waits for a transaction.    *)
Awaited ==
    \A c \in Clients \ strayed : \A v \in DOMAIN cache[c] :
        v \notin Versions =>
            \E t \in transactions :
                t.client = c /\ t.identity = v /\ t.dek = cache[c][v]

(* A transaction that has been overtaken is known to be astray.            *)
OvertakenStray ==
    \A t \in transactions : t.identity \in Versions => t.client \in strayed

SentVersions == \A m \in sent : m.version \in Versions

(* UnstrayedAgree alone is not inductive: the next key on chain has to be  *)
(* the one that those who wait for it have cached.                         *)
AgreeInv ==
    /\ TypeInv
    /\ UnstrayedAgree
    /\ Awaited
    /\ OvertakenStray
    /\ SentVersions

(* The clients' steps that generate a DEK.                                 *)
LEMMA GenerateKeepsAgreement ==
    ASSUME AgreeInv, NEW kind, NEW c \in Clients, NEW v \in 0..Len(history),
           NEW ms, GenerateDEK(kind, c, v, ms)
    PROVE  UnstrayedAgree' /\ Awaited' /\ OvertakenStray' /\ SentVersions'
<1>. DEFINE t == [kind |-> kind, client |-> c, dek |-> generated + 1,
                  identity |-> v, members |-> ms]
<1>1. /\ history' = history /\ sent' = sent
      /\ transactions' = transactions \cup {t}
      /\ cache' = Cached(c, v, generated + 1)
      /\ strayed' = IF v \in Versions THEN strayed \cup {c} ELSE strayed
      /\ Versions' = Versions
      /\ \A w : EncryptedKey(w)' = EncryptedKey(w)
  BY DEF GenerateDEK, chainVars, Versions, EncryptedKey
<1>2. t.client = c /\ t.identity = v /\ t.dek = generated + 1
  OBVIOUS
<1>3. DOMAIN cache = Clients
  BY DEF AgreeInv, TypeInv, TypeOK
<1>. HIDE DEF t
<1>4. /\ \A d \in Clients \ {c} : cache'[d] = cache[d]
      /\ DOMAIN cache'[c] = DOMAIN cache[c] \cup {v}
      /\ \A w \in DOMAIN cache[c] : cache'[c][w] = cache[c][w]
      /\ v \notin DOMAIN cache[c] => cache'[c][v] = generated + 1
  BY <1>1, <1>3, CachedEntries
<1>5. UnstrayedAgree'
  <2>1. ASSUME NEW d \in Clients \ strayed', NEW w \in DOMAIN cache'[d],
               w \in Versions
        PROVE  cache'[d][w] = EncryptedKey(w).dek
    <3>1. d \notin strayed /\ (d = c => w # v)
      BY <1>1, <2>1
    <3>2. w \in DOMAIN cache[d] /\ cache'[d][w] = cache[d][w]
      BY <1>4, <2>1, <3>1
    <3>. QED BY <3>1, <3>2, <2>1 DEF AgreeInv, UnstrayedAgree
  <2>2. ASSUME NEW m \in sent', m.sender \notin strayed'
        PROVE  m.dek = EncryptedKey(m.version).dek
    BY <1>1, <2>2 DEF AgreeInv, UnstrayedAgree
  <2>. QED BY <1>1, <2>1, <2>2 DEF UnstrayedAgree
<1>6. Awaited'
  <2>. SUFFICES ASSUME NEW d \in Clients \ strayed', NEW w \in DOMAIN cache'[d],
                       w \notin Versions
                PROVE  \E u \in transactions' :
                           /\ u.client = d /\ u.identity = w
                           /\ u.dek = cache'[d][w]
    BY <1>1 DEF Awaited
  <2>1. d \notin strayed
    BY <1>1
  <2>2. CASE w \in DOMAIN cache[d]
    <3>1. cache'[d][w] = cache[d][w]
      BY <1>4, <2>2
    <3>. QED BY <1>1, <2>1, <2>2, <3>1 DEF AgreeInv, Awaited
  <2>3. CASE w \notin DOMAIN cache[d]
    <3>1. d = c /\ w = v
      BY <1>4, <2>3
    <3>2. cache'[d][w] = generated + 1
      BY <1>4, <2>3, <3>1
    <3>. QED BY <1>1, <1>2, <3>1, <3>2
  <2>. QED BY <2>2, <2>3
<1>7. OvertakenStray'
  BY <1>1, <1>2 DEF AgreeInv, OvertakenStray
<1>8. SentVersions'
  BY <1>1 DEF AgreeInv, SentVersions
<1>. QED BY <1>5, <1>6, <1>7, <1>8

(* The clients' steps that use a DEK.                                      *)
LEMMA UseKeepsAgreement ==
    ASSUME AgreeInv, NEW c \in Clients, NEW v \in Versions,
           cache' = Cached(c, v, ResolvedDEK(c, v)),
           UNCHANGED <<history, transactions, strayed>>,
           sent' \in {sent, sent \cup
               {[sender |-> c, version |-> v, dek |-> ResolvedDEK(c, v)]}}
    PROVE  UnstrayedAgree' /\ Awaited' /\ OvertakenStray' /\ SentVersions'
<1>. DEFINE new == [sender |-> c, version |-> v, dek |-> ResolvedDEK(c, v)]
<1>1. Versions' = Versions /\ (\A w : EncryptedKey(w)' = EncryptedKey(w))
  BY DEF Versions, EncryptedKey
<1>2. DOMAIN cache = Clients
  BY DEF AgreeInv, TypeInv, TypeOK
<1>3. /\ \A d \in Clients \ {c} : cache'[d] = cache[d]
      /\ DOMAIN cache'[c] = DOMAIN cache[c] \cup {v}
      /\ \A w \in DOMAIN cache[c] : cache'[c][w] = cache[c][w]
      /\ v \notin DOMAIN cache[c] => cache'[c][v] = ResolvedDEK(c, v)
  BY <1>2, CachedEntries
<1>4. c \notin strayed => ResolvedDEK(c, v) = EncryptedKey(v).dek
  BY DEF ResolvedDEK, FetchDEK, AgreeInv, UnstrayedAgree
<1>5. new.sender = c /\ new.version = v /\ new.dek = ResolvedDEK(c, v)
      /\ sent' \subseteq sent \cup {new}
  OBVIOUS
<1>. HIDE DEF new
<1>6. UnstrayedAgree'
  <2>1. ASSUME NEW d \in Clients \ strayed, NEW w \in DOMAIN cache'[d],
               w \in Versions
        PROVE  cache'[d][w] = EncryptedKey(w).dek
    <3>1. CASE w \in DOMAIN cache[d]
      BY <1>3, <2>1, <3>1 DEF AgreeInv, UnstrayedAgree
    <3>2. CASE w \notin DOMAIN cache[d]
      BY <1>3, <1>4, <2>1, <3>2
    <3>. QED BY <3>1, <3>2
  <2>2. ASSUME NEW m \in sent', m.sender \notin strayed
        PROVE  m.dek = EncryptedKey(m.version).dek
    BY <1>4, <1>5, <2>2 DEF AgreeInv, UnstrayedAgree
  <2>. QED BY <1>1, <2>1, <2>2 DEF UnstrayedAgree
<1>7. Awaited'
  <2>. SUFFICES ASSUME NEW d \in Clients \ strayed, NEW w \in DOMAIN cache'[d],
                       w \notin Versions
                PROVE  \E u \in transactions :
                           /\ u.client = d /\ u.identity = w
                           /\ u.dek = cache'[d][w]
    BY <1>1 DEF Awaited
  <2>1. w \in DOMAIN cache[d] /\ cache'[d][w] = cache[d][w]
    BY <1>3
  <2>. QED BY <2>1 DEF AgreeInv, Awaited
<1>8. OvertakenStray'
  BY <1>1 DEF AgreeInv, OvertakenStray
<1>9. SentVersions'
  BY <1>1, <1>5 DEF AgreeInv, SentVersions
<1>. QED BY <1>6, <1>7, <1>8, <1>9

(* The execution of a transaction: those who wait for the version it takes *)
(* are its own client, with this very DEK, or go astray.                   *)
LEMMA PushKeepsAgreement ==
    ASSUME AgreeInv, NEW t \in transactions, PushKey(t)
    PROVE  UnstrayedAgree' /\ Awaited' /\ OvertakenStray' /\ SentVersions'
<1>. DEFINE n == Len(history)
<1>0. TypeInv /\ UnstrayedAgree /\ Awaited /\ OvertakenStray /\ SentVersions
  BY DEF AgreeInv
<1>1. /\ n \in Nat /\ Versions' = Versions \cup {n} /\ n \notin Versions
      /\ \A v \in Versions : EncryptedKey(v)' = EncryptedKey(v)
      /\ \A v \in {n} : EncryptedKey(v)'.dek = t.dek
  BY <1>0, PushedEntries DEF Versions
<1>2. /\ cache' = cache /\ sent' = sent
      /\ transactions' = transactions \ {t}
      /\ strayed \subseteq strayed'
      /\ \A u \in transactions \ {t} :
             u.identity = n => u.client \in strayed'
  BY DEF PushKey
<1>3. \A c \in Clients : \A v \in DOMAIN cache[c] : v \in Versions \cup {n}
  BY <1>0 DEF TypeInv, TypeOK, Versions
<1>. HIDE DEF n
<1>4. UnstrayedAgree'
  <2>1. ASSUME NEW c \in Clients \ strayed', NEW v \in DOMAIN cache[c]
        PROVE  cache[c][v] = EncryptedKey(v)'.dek
    <3>1. c \notin strayed
      BY <1>2
    <3>2. CASE v \in Versions
      BY <1>0, <1>1, <3>1, <3>2 DEF UnstrayedAgree
    <3>3. CASE v = n
      <4>1. PICK u \in transactions :
                u.client = c /\ u.identity = n /\ u.dek = cache[c][n]
        BY <1>0, <1>1, <3>1, <3>3 DEF Awaited
      <4>2. u = t
        BY <1>2, <4>1
      <4>. QED BY <1>1, <3>3, <4>1, <4>2
    <3>. QED BY <1>3, <3>2, <3>3
  <2>2. ASSUME NEW m \in sent, m.sender \notin strayed'
        PROVE  m.dek = EncryptedKey(m.version)'.dek
    <3>1. m.version \in Versions /\ m.dek = EncryptedKey(m.version).dek
      BY <1>0, <1>2, <2>2 DEF UnstrayedAgree, SentVersions
    <3>. QED BY <1>1, <3>1
  <2>. QED BY <1>2, <2>1, <2>2 DEF UnstrayedAgree
<1>5. Awaited'
  BY <1>1, <1>2, <1>3 DEF Awaited
<1>6. OvertakenStray'
  BY <1>0, <1>1, <1>2 DEF OvertakenStray
<1>7. SentVersions'
  BY <1>0, <1>1, <1>2 DEF SentVersions
<1>. QED BY <1>4, <1>5, <1>6, <1>7

(* As long as no DEK of a client went astray, the client caches and uses   *)
(* the keys of the chain, for any number of clients and rotations.         *)
THEOREM UnstrayedClientsAgree == Spec => []UnstrayedAgree
<1>1. Init => AgreeInv
  <2>. SUFFICES ASSUME Init  PROVE AgreeInv
    OBVIOUS
  <2>1. TypeInv
    BY KeysAssumption, InitTypes
  <2>2. sent = {} /\ transactions = {} /\ \A c \in Clients : DOMAIN cache[c] = {}
    BY DEF Init
  <2>. QED
    BY <2>1, <2>2
       DEF AgreeInv, UnstrayedAgree, Awaited, OvertakenStray, SentVersions
<1>2. AgreeInv /\ [Next]_vars => AgreeInv'
  <2>. SUFFICES ASSUME AgreeInv, [Next]_vars
                PROVE  UnstrayedAgree' /\ Awaited' /\ OvertakenStray'
                           /\ SentVersions'
    BY KeysAssumption, StepKeepsTypes DEF AgreeInv
  <2>0. Len(history) \in Nat /\ DOMAIN cache = Clients
    BY DEF AgreeInv, TypeInv, TypeOK
  <2>1. ASSUME NEW c \in Clients, NEW ms \in SUBSET Clients,
               BuildCreation(c, ms) \/ BuildRotation(c, ms)
        PROVE  UnstrayedAgree' /\ Awaited' /\ OvertakenStray' /\ SentVersions'
    <3>1. CASE BuildCreation(c, ms)
      BY <3>1, <2>0, GenerateKeepsAgreement DEF BuildCreation, GenerateGroupDEK
    <3>2. CASE BuildRotation(c, ms)
      <4>1. PICK size \in 1..Len(history) :
                GenerateDEK("rotate_encryption_key", c, size, ms)
        BY <3>2 DEF BuildRotation, GenerateRotationDEK
      <4>. QED BY <4>1, <2>0, GenerateKeepsAgreement
    <3>. QED BY <2>1, <3>1, <3>2
  <2>2. ASSUME NEW t \in transactions, GiveUp(t)
        PROVE  UnstrayedAgree' /\ Awaited' /\ OvertakenStray' /\ SentVersions'
    BY <2>2 DEF GiveUp, chainVars, AgreeInv, UnstrayedAgree, Awaited,
               OvertakenStray, SentVersions, Versions, EncryptedKey
  <2>3. ASSUME NEW c \in Clients, NEW v \in Versions,
               Send(c, v) \/ Receive(c, v)
        PROVE  UnstrayedAgree' /\ Awaited' /\ OvertakenStray' /\ SentVersions'
    BY <2>3, UseKeepsAgreement DEF Send, Receive, chainVars
  <2>4. ASSUME NEW c \in Clients, NEW v \in 0..MaxVersions, Expire(c, v)
        PROVE  UnstrayedAgree' /\ Awaited' /\ OvertakenStray' /\ SentVersions'
    <3>1. \A d \in Clients : \A w \in DOMAIN cache'[d] :
              w \in DOMAIN cache[d] /\ cache'[d][w] = cache[d][w]
      BY <2>0, <2>4 DEF Expire
    <3>2. UNCHANGED <<history, transactions, sent, strayed>>
      BY <2>4 DEF Expire, chainVars
    <3>. QED
      BY <3>1, <3>2 DEF AgreeInv, UnstrayedAgree, Awaited, OvertakenStray,
                        SentVersions, Versions, EncryptedKey
  <2>5. ASSUME NEW t \in transactions, CreateGroup(t) \/ RotateEncryptionKey(t)
        PROVE  UnstrayedAgree' /\ Awaited' /\ OvertakenStray' /\ SentVersions'
    BY <2>5, PushKeepsAgreement DEF CreateGroup, RotateEncryptionKey
  <2>6. ASSUME UNCHANGED <<history, clientVars, strayed>>
        PROVE  UnstrayedAgree' /\ Awaited' /\ OvertakenStray' /\ SentVersions'
    BY <2>6 DEF clientVars, AgreeInv, UnstrayedAgree, Awaited, OvertakenStray,
                SentVersions, Versions, EncryptedKey
  <2>7. ASSUME NEW c \in Clients, Leave(c) \/ ArchiveGroup(c)
        PROVE  UNCHANGED <<history, clientVars, strayed>>
    BY <2>7 DEF Leave, ArchiveGroup
  <2>8. ASSUME NEW c \in Clients, NEW p \in Permissions, GrantPermission(c, p)
        PROVE  UNCHANGED <<history, clientVars, strayed>>
    BY <2>8 DEF GrantPermission
  <2>9. CASE UNCHANGED vars
    BY <2>6, <2>9 DEF vars, chainVars
  <2>. QED
    BY <2>1, <2>2, <2>3, <2>4, <2>5, <2>6, <2>7, <2>8, <2>9
       DEF Next, ClientNext, ChainNext
<1>3. AgreeInv => UnstrayedAgree
  BY DEF AgreeInv
<1>. QED BY <1>1, <1>2, <1>3, PTL DEF Spec

(*************************************************************************)
(*                              Attachments                              *)
(*************************************************************************)

(* What is known of one operation: its type, ids that have been uploaded,  *)
(* and how far it has come with its file.                                  *)
OperationOK(o) ==
    /\ o \in Operation
    /\ StorageIds(o.current) \subseteq 1..uploads
    /\ StorageIds(o.kept) \subseteq 1..uploads
    /\ o.stage = "encrypt" => o.uploaded = {}
    /\ o.stage = "describe" =>
           o.files = 1 /\ Cardinality(o.uploaded) = 1
    /\ o.stage = "write" => Cardinality(o.uploaded) = o.files

(* AttachmentsTypeOK, and every storage id named anywhere is of a file     *)
(* that has been uploaded.                                                 *)
AttachmentsTypeInv ==
    /\ version \in 0..MaxRotations
    /\ writes \in 0..MaxWrites
    /\ uploads \in 0..MaxFiles
    /\ message.version \in 0..version
    /\ message.attachments \subseteq Attachment
    /\ StorageIds(message.attachments) \subseteq 1..uploads
    /\ DOMAIN storage \subseteq 1..uploads
    /\ \A f \in DOMAIN storage : storage[f] \in 0..version
    /\ DOMAIN held = Devices
    /\ \A d \in Devices :
           held[d] \subseteq Attachment /\ StorageIds(held[d]) \subseteq 1..uploads
    /\ DOMAIN operation = Devices
    /\ \A d \in Devices : OperationOK(operation[d])
    /\ deleting \subseteq 1..uploads
    /\ overlapped \in BOOLEAN
    /\ regressed \subseteq 1..uploads

LEMMA TypeInvImplies == AttachmentsTypeInv => AttachmentsTypeOK
BY DEF AttachmentsTypeInv, AttachmentsTypeOK, OperationOK

-----------------------------------------------------------------------------
(* What the steps do to the operations *)

(* An operation stays right while versions and uploads grow. *)
LEMMA OperationStays ==
    ASSUME AttachmentsTypeInv, NEW o, OperationOK(o),
           version' \in Nat, version <= version',
           uploads' \in Nat, uploads <= uploads'
    PROVE  OperationOK(o)'
BY DEF AttachmentsTypeInv, OperationOK, Operation

(* The fields of an operation. *)
LEMMA OperationFields ==
    ASSUME NEW o \in Operation
    PROVE  /\ o.stage \in {"idle", "encrypt", "describe", "write"}
           /\ o.version \in 0..version
           /\ o.current \in SUBSET Attachment
           /\ o.kept \in SUBSET Attachment
           /\ o.remove \in SUBSET (1..uploads)
           /\ o.files \in {0, 1}
           /\ o.uploaded \in SUBSET (1..uploads)
BY DEF Operation

(* One operation changes, the others stay. *)
Others(d) == \A e \in Devices \ {d} : operation'[e] = operation[e]

(* What begins: the attachments kept are among those held, and none of     *)
(* them is to be removed.                                                  *)
Begun(d) ==
    /\ operation[d].stage = "idle"
    /\ DOMAIN operation' = Devices
    /\ Others(d)
    /\ operation'[d].stage = "encrypt"
    /\ operation'[d].version \in 0..version
    /\ operation'[d].current \subseteq held[d]
    /\ operation'[d].kept \subseteq operation'[d].current
    /\ operation'[d].remove \subseteq StorageIds(held[d])
    /\ \A a \in operation'[d].kept : a.storageId \notin operation'[d].remove
    /\ operation'[d].uploaded = {}
    /\ OperationOK(operation[d])'
    /\ UNCHANGED <<version, message, writes, storage, uploads, held, deleting,
                   overlapped, regressed>>

LEMMA BeginIsBegun ==
    ASSUME AttachmentsTypeInv, NEW d \in Devices, NEW v \in 0..version,
           NEW current \in SUBSET held[d],
           NEW kept \in SUBSET current, NEW remove \in SUBSET StorageIds(held[d]),
           \A a \in kept : a.storageId \notin remove,
           NEW files \in {0, 1}, Begin(d, v, current, kept, remove, files)
    PROVE  Begun(d)
<1>. DEFINE o == [stage |-> "encrypt", version |-> v,
                  current |-> current, kept |-> kept, remove |-> remove,
                  files |-> files, uploaded |-> {}]
<1>1. /\ v \in 0..version /\ current \subseteq Attachment
      /\ kept \subseteq Attachment /\ remove \subseteq 1..uploads
      /\ StorageIds(current) \subseteq 1..uploads
      /\ StorageIds(kept) \subseteq 1..uploads
      /\ DOMAIN operation = Devices
  BY AttachmentsAssumption DEF AttachmentsTypeInv, StorageIds
<1>2. o \in Operation
  BY <1>1 DEF Operation
<1>3. /\ operation[d].stage = "idle"
      /\ operation' = [operation EXCEPT ![d] = o]
      /\ UNCHANGED <<version, message, writes, storage, uploads, held,
                     deleting, overlapped, regressed>>
  BY DEF Begin
<1>4. OperationOK(o)
  BY <1>1, <1>2 DEF OperationOK
<1>5. /\ o.stage = "encrypt" /\ o.version = v /\ o.current = current
      /\ o.kept = kept /\ o.remove = remove /\ o.uploaded = {}
  OBVIOUS
<1>. HIDE DEF o
<1>6. operation'[d] = o /\ Others(d) /\ DOMAIN operation' = Devices
  BY <1>1, <1>3 DEF Others
<1>7. OperationOK(operation[d])'
  BY <1>3, <1>4, <1>6 DEF OperationOK, Operation
<1>. QED BY <1>3, <1>5, <1>6, <1>7 DEF Begun

(* The three ways to begin. *)
LEMMA Beginning ==
    ASSUME AttachmentsTypeInv, NEW d \in Devices,
           \/ \E v \in 0..version, files \in {0, 1} :
                  \/ BeginSend(d, v, files)
                  \/ \E remove \in SUBSET StorageIds(held[d]) :
                         BeginEdit(d, v, remove, files)
           \/ \E v \in 0..version : BeginTextEdit(d, v)
    PROVE  Begun(d)
<1>1. ASSUME NEW v \in 0..version, NEW files \in {0, 1}, BeginSend(d, v, files)
      PROVE  Begun(d)
  BY <1>1, BeginIsBegun DEF BeginSend
<1>2. ASSUME NEW v \in 0..version, NEW files \in {0, 1},
             NEW remove \in SUBSET StorageIds(held[d]), BeginEdit(d, v, remove, files)
      PROVE  Begun(d)
  <2>. DEFINE kept == {a \in held[d] : a.storageId \notin remove}
  <2>1. kept \in SUBSET held[d] /\ \A a \in kept : a.storageId \notin remove
    OBVIOUS
  <2>2. Begin(d, v, held[d], kept, remove, files)
    BY <1>2 DEF BeginEdit
  <2>. HIDE DEF kept
  <2>. QED BY <2>1, <2>2, BeginIsBegun
<1>3. ASSUME NEW v \in 0..version, BeginTextEdit(d, v)  PROVE Begun(d)
  BY <1>3, BeginIsBegun DEF BeginTextEdit
<1>. QED BY <1>1, <1>2, <1>3

(* Upload moves on to the metadata with a new file. *)
LEMMA UploadEffect ==
    ASSUME AttachmentsTypeInv, NEW d \in Devices, NEW v \in 0..version,
           Upload(d, v)
    PROVE  /\ DOMAIN operation' = Devices /\ Others(d)
           /\ operation'[d].version = operation[d].version
           /\ operation'[d].current = operation[d].current
           /\ operation'[d].kept = operation[d].kept
           /\ operation'[d].remove = operation[d].remove
           /\ operation'[d].uploaded = {uploads + 1}
           /\ OperationOK(operation[d])'
           /\ uploads' = uploads + 1 /\ uploads + 1 \in 1..MaxFiles
           /\ DOMAIN storage' = DOMAIN storage \cup {uploads + 1}
           /\ storage'[uploads + 1] = v
           /\ \A f \in DOMAIN storage : storage'[f] = storage[f]
           /\ regressed' = regressed \cup
                  {f \in {uploads + 1} : v < operation[d].version}
           /\ UNCHANGED <<version, message, writes, held, deleting, overlapped>>
<1>. DEFINE o == [stage |-> "describe", version |-> operation[d].version,
                  current |-> operation[d].current,
                  kept |-> operation[d].kept,
                  remove |-> operation[d].remove,
                  files |-> operation[d].files, uploaded |-> {uploads + 1}]
<1>1. /\ DOMAIN operation = Devices /\ operation[d] \in Operation
      /\ StorageIds(operation[d].current) \subseteq 1..uploads
      /\ StorageIds(operation[d].kept) \subseteq 1..uploads
      /\ uploads \in Nat /\ DOMAIN storage \subseteq 1..uploads
  BY DEF AttachmentsTypeInv, OperationOK
<1>2. /\ UNCHANGED <<version, message, writes, held, deleting, overlapped>>
      /\ operation[d].files = 1
      /\ uploads' = uploads + 1 /\ uploads + 1 \in 1..MaxFiles
      /\ DOMAIN storage' = DOMAIN storage \cup {uploads + 1}
      /\ storage'[uploads + 1] = v
      /\ \A f \in DOMAIN storage : storage'[f] = storage[f]
      /\ regressed' = regressed \cup
             {f \in {uploads + 1} : v < operation[d].version}
  BY <1>1, AttachmentsAssumption DEF Upload, StorageWith
<1>3. operation' = [operation EXCEPT ![d].stage = "describe",
                                     ![d].uploaded = {uploads + 1}]
  BY DEF Upload, StorageWith
<1>4. Others(d) /\ DOMAIN operation' = Devices /\ operation'[d] = o
  BY <1>1, <1>3 DEF Others, Operation
<1>5. o \in Operation'
  BY <1>1, <1>2 DEF Operation
<1>6. Cardinality({uploads + 1}) = 1
  BY FS_Singleton
<1>7. OperationOK(operation[d])'
  <2>1. /\ operation'[d].stage = "describe" /\ operation'[d].files = 1
        /\ operation'[d].current = operation[d].current
        /\ operation'[d].kept = operation[d].kept
        /\ operation'[d].uploaded = {uploads + 1}
    BY <1>2, <1>4
  <2>2. operation'[d] \in Operation'
    BY <1>4, <1>5
  <2>3. /\ StorageIds(operation'[d].current) \subseteq 1..uploads'
        /\ StorageIds(operation'[d].kept) \subseteq 1..uploads'
    BY <1>1, <1>2, <2>1
  <2>. HIDE DEF o
  <2>. QED BY <1>6, <2>1, <2>2, <2>3 DEF OperationOK, StorageIds
<1>. QED BY <1>2, <1>4, <1>7

(* Describe adds the attachments of the uploaded file. *)
LEMMA DescribeEffect ==
    ASSUME AttachmentsTypeInv, NEW d \in Devices, NEW v \in 0..version,
           Describe(d, v)
    PROVE  /\ DOMAIN operation' = Devices /\ Others(d)
           /\ operation'[d].version = operation[d].version
           /\ operation'[d].current = operation[d].current
           /\ operation'[d].kept = operation[d].kept \cup
                  {[storageId |-> f, metadata |-> v] :
                      f \in operation[d].uploaded}
           /\ operation'[d].remove = operation[d].remove
           /\ operation'[d].uploaded = operation[d].uploaded
           /\ OperationOK(operation[d])'
           /\ regressed' = regressed \cup
                  {f \in operation[d].uploaded : v < storage[f]}
           /\ UNCHANGED <<version, message, writes, storage, uploads, held,
                          deleting, overlapped>>
<1>. DEFINE new == {[storageId |-> f, metadata |-> v] :
                        f \in operation[d].uploaded}
            o == [stage |-> "write", version |-> operation[d].version,
                  current |-> operation[d].current,
                  kept |-> operation[d].kept \cup new,
                  remove |-> operation[d].remove,
                  files |-> operation[d].files,
                  uploaded |-> operation[d].uploaded]
<1>1. /\ DOMAIN operation = Devices /\ OperationOK(operation[d])
      /\ version \in 0..MaxRotations /\ uploads \in 0..MaxFiles
  BY DEF AttachmentsTypeInv
<1>2. /\ UNCHANGED <<version, message, writes, storage, uploads, held,
                     deleting, overlapped>>
      /\ operation[d].stage = "describe"
      /\ regressed' = regressed \cup {f \in operation[d].uploaded : v < storage[f]}
      /\ operation' = [operation EXCEPT ![d].stage = "write",
                                        ![d].kept = @ \cup new]
  BY DEF Describe
<1>3. Others(d) /\ DOMAIN operation' = Devices /\ operation'[d] = o
  <2>. HIDE DEF new
  <2>. QED BY <1>1, <1>2 DEF Others, Operation, OperationOK
<1>4. new \subseteq Attachment /\ StorageIds(new) \subseteq 1..uploads
  <2>1. operation[d].uploaded \subseteq 1..uploads
    BY <1>1, OperationFields DEF OperationOK
  <2>2. ASSUME NEW f \in operation[d].uploaded
        PROVE  [storageId |-> f, metadata |-> v] \in Attachment
    BY <1>1, <2>1, AttachmentsAssumption DEF Attachment, Files
  <2>3. \A a \in new : a.storageId \in operation[d].uploaded
    OBVIOUS
  <2>. QED BY <2>1, <2>2, <2>3 DEF StorageIds
<1>5. o \in Operation
  <2>. HIDE DEF new
  <2>. QED BY <1>1, <1>4 DEF Operation, OperationOK
<1>6. StorageIds(operation[d].kept \cup new) \subseteq 1..uploads
  <2>. HIDE DEF new
  <2>. QED BY <1>1, <1>4 DEF StorageIds, OperationOK
<1>7. OperationOK(o)
  <2>. HIDE DEF new
  <2>. QED BY <1>1, <1>2, <1>5, <1>6 DEF OperationOK
<1>8. OperationOK(operation[d])'
  <2>. HIDE DEF o, new
  <2>. QED BY <1>2, <1>3, <1>7 DEF OperationOK, Operation
<1>. QED BY <1>2, <1>3, <1>8

(* SkipUpload only moves on. *)
LEMMA SkipEffect ==
    ASSUME AttachmentsTypeInv, NEW d \in Devices, SkipUpload(d)
    PROVE  /\ DOMAIN operation' = Devices /\ Others(d)
           /\ operation'[d].version = operation[d].version
           /\ operation'[d].current = operation[d].current
           /\ operation'[d].kept = operation[d].kept
           /\ operation'[d].remove = operation[d].remove
           /\ operation'[d].uploaded = operation[d].uploaded
           /\ OperationOK(operation[d])'
           /\ UNCHANGED <<version, message, writes, storage, uploads, held,
                          deleting, overlapped, regressed>>
<1>. DEFINE o == [operation[d] EXCEPT !.stage = "write"]
<1>1. /\ DOMAIN operation = Devices /\ OperationOK(operation[d])
  BY DEF AttachmentsTypeInv
<1>2. /\ UNCHANGED <<version, message, writes, storage, uploads, held,
                     deleting, overlapped, regressed>>
      /\ operation[d].stage = "encrypt" /\ operation[d].files = 0
      /\ operation' = [operation EXCEPT ![d].stage = "write"]
  BY DEF SkipUpload
<1>3. Others(d) /\ DOMAIN operation' = Devices /\ operation'[d] = o
  BY <1>1, <1>2 DEF Others
<1>4. /\ o \in Operation /\ o.stage = "write"
      /\ o.version = operation[d].version /\ o.current = operation[d].current
      /\ o.kept = operation[d].kept /\ o.remove = operation[d].remove
      /\ o.uploaded = operation[d].uploaded /\ o.files = operation[d].files
  BY <1>1 DEF OperationOK, Operation
<1>5. Cardinality({}) = 0
  BY FS_EmptySet
<1>6. OperationOK(o)
  <2>. HIDE DEF o
  <2>. QED BY <1>1, <1>2, <1>4, <1>5 DEF OperationOK
<1>7. OperationOK(operation[d])'
  <2>. HIDE DEF o
  <2>. QED BY <1>2, <1>3, <1>6 DEF OperationOK, Operation
<1>. QED
  <2>. HIDE DEF o
  <2>. QED BY <1>2, <1>3, <1>4, <1>7

(* Write and Fail end an operation. *)
LEMMA IdleOK ==
    ASSUME AttachmentsTypeInv
    PROVE  /\ OperationOK(Idle)
           /\ Idle.current = {} /\ Idle.kept = {} /\ Idle.remove = {}
           /\ Idle.uploaded = {}
<1>1. version \in Nat /\ 0 \in 0..version
  BY AttachmentsAssumption DEF AttachmentsTypeInv
<1>2. Idle \in Operation
  BY <1>1 DEF Idle, Operation
<1>. QED BY <1>2 DEF Idle, OperationOK, StorageIds

LEMMA EndEffect ==
    ASSUME AttachmentsTypeInv, NEW d \in Devices,
           operation' = [operation EXCEPT ![d] = Idle],
           version' = version, uploads' = uploads
    PROVE  /\ DOMAIN operation' = Devices /\ Others(d)
           /\ operation'[d] = Idle
           /\ OperationOK(operation[d])'
<1>1. /\ DOMAIN operation' = Devices /\ Others(d) /\ operation'[d] = Idle
  BY DEF AttachmentsTypeInv, Others
<1>2. OperationOK(Idle)
  BY IdleOK
<1>3. OperationOK(operation[d])'
  BY <1>1, <1>2 DEF OperationOK, Operation
<1>. QED BY <1>1, <1>3

-----------------------------------------------------------------------------
(* Types *)

(* When one operation changes, all of them keep their types. *)
LEMMA OperationsOK ==
    ASSUME AttachmentsTypeInv, NEW d \in Devices, Others(d), OperationOK(operation[d])',
           version' \in Nat, version <= version',
           uploads' \in Nat, uploads <= uploads'
    PROVE  \A e \in Devices : OperationOK(operation[e])'
<1>. SUFFICES ASSUME NEW e \in Devices  PROVE OperationOK(operation[e])'
  OBVIOUS
<1>1. CASE e = d
  BY <1>1
<1>2. CASE e # d
  <2>1. operation'[e] = operation[e] /\ OperationOK(operation[e])
    BY <1>2 DEF Others, AttachmentsTypeInv
  <2>2. OperationOK(operation[e])'
    BY <2>1 DEF OperationOK, Operation, AttachmentsTypeInv
  <2>. QED BY <2>2
<1>. QED BY <1>1, <1>2

LEMMA StepKeepsAttachmentTypes == AttachmentsTypeInv /\ [AttachmentsNext]_attachmentsVars => AttachmentsTypeInv'
<1>. SUFFICES ASSUME AttachmentsTypeInv, [AttachmentsNext]_attachmentsVars  PROVE AttachmentsTypeInv'
  OBVIOUS
<1>0. /\ version \in Nat /\ uploads \in Nat /\ writes \in Nat
      /\ version \in 0..MaxRotations /\ uploads \in 0..MaxFiles
      /\ MaxRotations \in Nat /\ MaxFiles \in Nat /\ MaxWrites \in Nat
  BY AttachmentsAssumption DEF AttachmentsTypeInv
<1>1. ASSUME NEW d \in Devices, Begun(d)  PROVE AttachmentsTypeInv'
  BY <1>0, <1>1, OperationsOK DEF Begun, AttachmentsTypeInv
<1>2. ASSUME NEW d \in Devices, NEW v \in 0..version, Upload(d, v)  PROVE AttachmentsTypeInv'
  <2>1. \A f \in DOMAIN storage' : storage'[f] \in 0..version'
    BY <1>0, <1>2, UploadEffect DEF AttachmentsTypeInv
  <2>2. \A e \in Devices : OperationOK(operation[e])'
    BY <1>0, <1>2, UploadEffect, OperationsOK
  <2>3. 1..uploads \subseteq 1..uploads' /\ uploads' \in 0..MaxFiles
        /\ uploads + 1 \in 1..uploads'
    BY <1>0, <1>2, UploadEffect
  <2>4. DOMAIN storage' \subseteq 1..uploads'
    BY <1>2, <2>3, UploadEffect DEF AttachmentsTypeInv
  <2>5. /\ DOMAIN operation' = Devices
        /\ UNCHANGED <<version, message, writes, held, deleting, overlapped>>
    BY <1>2, UploadEffect
  <2>6. regressed' \subseteq 1..uploads'
    BY <1>2, <2>3, UploadEffect DEF AttachmentsTypeInv
  <2>. QED BY <1>0, <2>1, <2>2, <2>3, <2>4, <2>5, <2>6 DEF AttachmentsTypeInv
<1>3. ASSUME NEW d \in Devices, NEW v \in 0..version, Describe(d, v)  PROVE AttachmentsTypeInv'
  <2>1. \A e \in Devices : OperationOK(operation[e])'
    BY <1>0, <1>3, DescribeEffect, OperationsOK
  <2>2. operation[d].uploaded \subseteq 1..uploads
    BY OperationFields DEF AttachmentsTypeInv, OperationOK
  <2>3. regressed' \subseteq 1..uploads
    BY <1>3, <2>2, DescribeEffect DEF AttachmentsTypeInv
  <2>. QED BY <1>3, <2>1, <2>3, DescribeEffect DEF AttachmentsTypeInv
<1>4. ASSUME NEW d \in Devices, SkipUpload(d)  PROVE AttachmentsTypeInv'
  <2>1. \A e \in Devices : OperationOK(operation[e])'
    BY <1>0, <1>4, SkipEffect, OperationsOK
  <2>. QED BY <1>4, <2>1, SkipEffect DEF AttachmentsTypeInv
<1>5. ASSUME NEW d \in Devices, Write(d)  PROVE AttachmentsTypeInv'
  <2>1. /\ UNCHANGED <<version, storage, uploads, held, regressed>>
        /\ operation' = [operation EXCEPT ![d] = Idle]
    BY <1>5 DEF Write
  <2>2. /\ OperationOK(operation[d])
        /\ operation[d].version \in 0..version
        /\ operation[d].kept \subseteq Attachment
        /\ operation[d].remove \subseteq 1..uploads
    BY OperationFields DEF AttachmentsTypeInv, OperationOK
  <2>3. /\ message'.version \in 0..version
        /\ message'.attachments \subseteq Attachment
        /\ StorageIds(message'.attachments) \subseteq 1..uploads
    BY <1>5, <2>2 DEF Write, Stored, OperationOK
  <2>4. deleting' \subseteq 1..uploads /\ writes' \in 0..MaxWrites
    BY <1>0, <1>5, <2>2 DEF Write, Stored, AttachmentsTypeInv
  <2>5. overlapped' \in BOOLEAN
    BY <1>5 DEF Write, Stored, AttachmentsTypeInv
  <2>6. \A e \in Devices : OperationOK(operation[e])'
    <3>1. Others(d) /\ OperationOK(operation[d])'
      BY <2>1, EndEffect
    <3>2. version' = version /\ uploads' = uploads
      BY <2>1
    <3>. QED BY <1>0, <3>1, <3>2, OperationsOK
  <2>7. DOMAIN operation' = Devices
    BY <2>1, EndEffect
  <2>8. StorageIds(message.attachments)' \subseteq 1..uploads
    BY <2>3 DEF StorageIds
  <2>. QED
    BY <2>1, <2>3, <2>4, <2>5, <2>6, <2>7, <2>8 DEF AttachmentsTypeInv
<1>6. ASSUME NEW d \in Devices, Fail(d)  PROVE AttachmentsTypeInv'
  <2>1. /\ UNCHANGED <<version, message, writes, storage, uploads, held,
                       deleting, overlapped, regressed>>
        /\ operation' = [operation EXCEPT ![d] = Idle]
    BY <1>6 DEF Fail
  <2>2. \A e \in Devices : OperationOK(operation[e])'
    <3>1. Others(d) /\ OperationOK(operation[d])'
      BY <2>1, EndEffect
    <3>2. version' = version /\ uploads' = uploads
      BY <2>1
    <3>. QED BY <1>0, <3>1, <3>2, OperationsOK
  <2>. QED BY <2>1, <2>2, EndEffect DEF AttachmentsTypeInv
<1>7. ASSUME NEW d \in Devices, Load(d)  PROVE AttachmentsTypeInv'
  BY <1>7 DEF Load, AttachmentsTypeInv, OperationOK, Operation
<1>8. ASSUME NEW f \in deleting, DeleteEntry(f)  PROVE AttachmentsTypeInv'
  BY <1>8 DEF DeleteEntry, AttachmentsTypeInv, OperationOK, Operation
<1>9. CASE Rotate
  <2>1. /\ version' = version + 1 /\ version' \in 0..MaxRotations
        /\ UNCHANGED <<message, writes, storage, uploads, held, operation,
                       deleting, overlapped, regressed>>
    BY <1>0, <1>9 DEF Rotate
  <2>2. \A d \in Devices : OperationOK(operation[d])'
    BY <1>0, <2>1 DEF AttachmentsTypeInv, OperationOK, Operation
  <2>. QED BY <1>0, <2>1, <2>2 DEF AttachmentsTypeInv
<1>10. CASE UNCHANGED attachmentsVars
  BY <1>10 DEF attachmentsVars, AttachmentsTypeInv, OperationOK, Operation
<1>. QED
  BY <1>1, <1>2, <1>3, <1>4, <1>5, <1>6, <1>7, <1>8, <1>9, <1>10, Beginning
     DEF AttachmentsNext, DeviceNext

LEMMA InitAttachmentTypes == AttachmentsInit => AttachmentsTypeInv
<1>. SUFFICES ASSUME AttachmentsInit  PROVE AttachmentsTypeInv
  OBVIOUS
<1>1. /\ version = 0 /\ writes = 0 /\ uploads = 0 /\ overlapped = FALSE
      /\ message = [version |-> 0, attachments |-> {}]
      /\ DOMAIN storage = {} /\ DOMAIN held = Devices
      /\ \A d \in Devices : held[d] = {} /\ operation[d] = Idle
      /\ DOMAIN operation = Devices /\ deleting = {} /\ regressed = {}
  BY DEF AttachmentsInit
<1>2. Idle \in Operation
  BY <1>1 DEF Idle, Operation
<1>3. OperationOK(Idle)
  BY <1>2 DEF OperationOK, Idle, StorageIds
<1>4. StorageIds({}) = {}
  BY DEF StorageIds
<1>5. message.version = 0 /\ message.attachments = {}
  BY <1>1
<1>6. \A d \in Devices : /\ OperationOK(operation[d])
                         /\ StorageIds(held[d]) = {} /\ held[d] = {}
  BY <1>1, <1>3, <1>4
<1>7. /\ StorageIds(message.attachments) = {}
      /\ 0 \in 0..MaxRotations /\ 0 \in 0..MaxWrites /\ 0 \in 0..MaxFiles
      /\ 0 \in 0..version
  BY <1>1, <1>4, <1>5, AttachmentsAssumption
<1>. QED
  BY <1>1, <1>5, <1>6, <1>7 DEF AttachmentsTypeInv

(* The types hold in every reachable state. *)
THEOREM AttachmentTypesCorrect == AttachmentsSpec => []AttachmentsTypeOK
  BY InitAttachmentTypes, StepKeepsAttachmentTypes, TypeInvImplies, PTL DEF AttachmentsSpec

-----------------------------------------------------------------------------
(* No file of the message is gone *)

(* A file an operation has uploaded is stored and nobody else knows it.    *)
Private ==
    \A d \in Devices : \A f \in operation[d].uploaded :
        /\ f \in DOMAIN storage
        /\ f \notin deleting
        /\ f \notin StorageIds(message.attachments)
        /\ \A e \in Devices :
               /\ f \notin StorageIds(held[e])
               /\ f \notin operation[e].remove
               /\ f \notin StorageIds(operation[e].current)
               /\ e # d => /\ f \notin StorageIds(operation[e].kept)
                           /\ f \notin operation[e].uploaded

(* What an operation will write: attachments it does not remove, and its   *)
(* own file.                                                               *)
KeptFiles ==
    \A d \in Devices : \A f \in StorageIds(operation[d].kept) :
        \/ f \in operation[d].uploaded
        \/ /\ f \in StorageIds(operation[d].current)
           /\ f \notin operation[d].remove

(* Without overlap the files of the message are stored and stay.           *)
FilesSafe ==
    ~overlapped =>
        \A f \in StorageIds(message.attachments) :
            f \in DOMAIN storage /\ f \notin deleting

FilesInv == AttachmentsTypeInv /\ Private /\ KeptFiles /\ FilesSafe

(* An operation that ends, its attachments written or not, leaves the      *)
(* files of the others private.                                            *)
LEMMA EndingKeepsPrivate ==
    ASSUME AttachmentsTypeInv, Private, NEW d \in Devices,
           operation' = [operation EXCEPT ![d] = Idle],
           UNCHANGED <<version, storage, uploads, held>>,
           deleting' \subseteq deleting \cup operation[d].remove,
           StorageIds(message.attachments)' \in
               {StorageIds(message.attachments), StorageIds(operation[d].kept)}
    PROVE  Private'
<1>1. /\ \A e \in Devices \ {d} : operation'[e] = operation[e]
      /\ operation'[d].uploaded = {} /\ operation'[d].current = {}
      /\ operation'[d].remove = {} /\ operation'[d].kept = {}
  BY EndEffect, IdleOK DEF Others
<1>2. StorageIds({}) = {}
  BY DEF StorageIds
<1>3. ASSUME NEW e \in Devices \ {d}, NEW f \in operation[e].uploaded
      PROVE  /\ f \in DOMAIN storage
             /\ f \notin deleting'
             /\ f \notin StorageIds(message.attachments)'
             /\ \A c \in Devices :
                    /\ f \notin StorageIds(held[c])
                    /\ f \notin operation'[c].remove
                    /\ f \notin StorageIds(operation'[c].current)
                    /\ c # e => /\ f \notin StorageIds(operation'[c].kept)
                                /\ f \notin operation'[c].uploaded
  <2>1. /\ f \in DOMAIN storage /\ f \notin deleting
        /\ f \notin operation[d].remove
    BY DEF Private
  <2>2. /\ f \notin StorageIds(message.attachments)
        /\ f \notin StorageIds(operation[d].kept)
    BY DEF Private
  <2>3. ASSUME NEW c \in Devices \ {d}
        PROVE  /\ f \notin StorageIds(held[c])
               /\ f \notin operation[c].remove
               /\ f \notin StorageIds(operation[c].current)
               /\ c # e => /\ f \notin StorageIds(operation[c].kept)
                           /\ f \notin operation[c].uploaded
    BY DEF Private
  <2>4. f \notin StorageIds(held[d])
    BY DEF Private
  <2>. QED BY <1>1, <1>2, <2>1, <2>2, <2>3, <2>4
<1>4. \A e \in Devices : \A f \in operation'[e].uploaded :
          e \in Devices \ {d} /\ f \in operation[e].uploaded
  BY <1>1
<1>. QED BY <1>3, <1>4 DEF Private

LEMMA StepKeepsFiles == FilesInv /\ [AttachmentsNext]_attachmentsVars => FilesInv'
<1>. SUFFICES ASSUME FilesInv, [AttachmentsNext]_attachmentsVars
              PROVE  Private' /\ KeptFiles' /\ FilesSafe'
  BY StepKeepsAttachmentTypes DEF FilesInv
<1>0. AttachmentsTypeInv /\ Private /\ KeptFiles /\ FilesSafe
  BY DEF FilesInv
<1>a. ASSUME UNCHANGED <<message, storage, deleting, overlapped>>
      PROVE  FilesSafe'
  BY <1>0, <1>a DEF FilesSafe
<1>1. ASSUME NEW d \in Devices, Begun(d)
      PROVE  Private' /\ KeptFiles' /\ FilesSafe'
  <2>1. /\ UNCHANGED <<version, message, storage, uploads, held, deleting,
                       overlapped>>
        /\ \A e \in Devices \ {d} : operation'[e] = operation[e]
        /\ operation'[d].uploaded = {}
        /\ StorageIds(operation'[d].kept) \subseteq
               StorageIds(operation'[d].current)
        /\ StorageIds(operation'[d].current) \subseteq StorageIds(held[d])
        /\ operation'[d].remove \subseteq StorageIds(held[d])
        /\ \A f \in StorageIds(operation'[d].kept) :
               f \notin operation'[d].remove
    BY <1>1 DEF Begun, Others, StorageIds
  <2>2. Private'
    BY <1>0, <2>1 DEF Private
  <2>3. KeptFiles'
    BY <1>0, <2>1 DEF KeptFiles
  <2>. QED BY <1>a, <2>1, <2>2, <2>3
<1>2. ASSUME NEW d \in Devices, NEW v \in 0..version, Upload(d, v)
      PROVE  Private' /\ KeptFiles' /\ FilesSafe'
  <2>1. /\ UNCHANGED <<message, held, deleting, overlapped>>
        /\ \A e \in Devices \ {d} : operation'[e] = operation[e]
        /\ operation'[d].uploaded = {uploads + 1}
        /\ operation'[d].kept = operation[d].kept
        /\ operation'[d].current = operation[d].current
        /\ operation'[d].remove = operation[d].remove
        /\ DOMAIN storage' = DOMAIN storage \cup {uploads + 1}
    BY <1>0, <1>2, UploadEffect DEF Others
  <2>2. operation[d].uploaded = {}
    BY <1>0, <1>2 DEF Upload, StorageWith, AttachmentsTypeInv, OperationOK
  <2>3. /\ uploads + 1 \notin deleting
        /\ uploads + 1 \notin StorageIds(message.attachments)
        /\ \A e \in Devices :
               /\ uploads + 1 \notin StorageIds(held[e])
               /\ uploads + 1 \notin operation[e].remove
               /\ uploads + 1 \notin StorageIds(operation[e].current)
               /\ uploads + 1 \notin StorageIds(operation[e].kept)
               /\ uploads + 1 \notin operation[e].uploaded
    <3>1. uploads \in Nat /\ uploads + 1 \notin 1..uploads
      BY <1>0 DEF AttachmentsTypeInv
    <3>2. ASSUME NEW e \in Devices
          PROVE  /\ operation[e].remove \subseteq 1..uploads
                 /\ operation[e].uploaded \subseteq 1..uploads
                 /\ StorageIds(operation[e].current) \subseteq 1..uploads
                 /\ StorageIds(operation[e].kept) \subseteq 1..uploads
      BY <1>0, OperationFields DEF AttachmentsTypeInv, OperationOK
    <3>. QED BY <1>0, <3>1, <3>2 DEF AttachmentsTypeInv
  <2>4. Private'
    BY <1>0, <2>1, <2>2, <2>3 DEF Private
  <2>5. KeptFiles'
    BY <1>0, <2>1, <2>2 DEF KeptFiles
  <2>6. FilesSafe'
    BY <1>0, <2>1 DEF FilesSafe
  <2>. QED BY <2>4, <2>5, <2>6
<1>3. ASSUME NEW d \in Devices, NEW v \in 0..version, Describe(d, v)
      PROVE  Private' /\ KeptFiles' /\ FilesSafe'
  <2>1. /\ UNCHANGED <<message, storage, held, deleting, overlapped>>
        /\ \A e \in Devices \ {d} : operation'[e] = operation[e]
        /\ operation'[d].uploaded = operation[d].uploaded
        /\ operation'[d].current = operation[d].current
        /\ operation'[d].remove = operation[d].remove
        /\ operation'[d].kept = operation[d].kept \cup
               {[storageId |-> f, metadata |-> v] :
                   f \in operation[d].uploaded}
    BY <1>0, <1>3, DescribeEffect DEF Others
  <2>2. \A f \in StorageIds(operation'[d].kept) :
            f \in StorageIds(operation[d].kept) \/ f \in operation[d].uploaded
    BY <2>1 DEF StorageIds
  <2>3. Private'
    BY <1>0, <2>1, <2>2 DEF Private
  <2>4. KeptFiles'
    BY <1>0, <2>1, <2>2 DEF KeptFiles
  <2>. QED BY <1>a, <2>1, <2>3, <2>4
<1>4. ASSUME NEW d \in Devices, SkipUpload(d)
      PROVE  Private' /\ KeptFiles' /\ FilesSafe'
  <2>1. /\ UNCHANGED <<message, storage, held, deleting, overlapped>>
        /\ \A e \in Devices : /\ operation'[e].uploaded = operation[e].uploaded
                              /\ operation'[e].current = operation[e].current
                              /\ operation'[e].remove = operation[e].remove
                              /\ operation'[e].kept = operation[e].kept
    BY <1>0, <1>4, SkipEffect DEF Others
  <2>. QED BY <1>0, <1>a, <2>1 DEF Private, KeptFiles
<1>5. ASSUME NEW d \in Devices, Write(d)
      PROVE  Private' /\ KeptFiles' /\ FilesSafe'
  <2>1. /\ UNCHANGED <<version, storage, uploads, held>>
        /\ operation' = [operation EXCEPT ![d] = Idle]
        /\ message'.attachments = operation[d].kept
        /\ deleting' \subseteq deleting \cup operation[d].remove
        /\ overlapped' =
               (overlapped \/ message.attachments # operation[d].current)
    BY <1>5 DEF Write, Stored
  <2>2. /\ \A e \in Devices \ {d} : operation'[e] = operation[e]
        /\ operation'[d].uploaded = {} /\ operation'[d].current = {}
        /\ operation'[d].remove = {} /\ operation'[d].kept = {}
    BY <1>0, <2>1, EndEffect, IdleOK DEF Others
  <2>3. StorageIds({}) = {}
    BY DEF StorageIds
  <2>4. StorageIds(message.attachments)' = StorageIds(operation[d].kept)
    BY <2>1 DEF StorageIds
  <2>5. Private'
    BY <1>0, <2>1, <2>4, EndingKeepsPrivate
  <2>6. KeptFiles'
    BY <1>0, <2>2, <2>3 DEF KeptFiles
  <2>7. FilesSafe'
    <3>. SUFFICES ASSUME ~overlapped', NEW f \in StorageIds(operation[d].kept)
                  PROVE  f \in DOMAIN storage /\ f \notin deleting'
      BY <2>1, <2>4 DEF FilesSafe
    <3>1. CASE f \in operation[d].uploaded
      BY <1>0, <2>1, <3>1 DEF Private
    <3>2. CASE /\ f \in StorageIds(operation[d].current)
               /\ f \notin operation[d].remove
      BY <1>0, <2>1, <3>2 DEF FilesSafe
    <3>. QED BY <1>0, <3>1, <3>2 DEF KeptFiles
  <2>. QED BY <2>5, <2>6, <2>7
<1>6. ASSUME NEW d \in Devices, Fail(d)
      PROVE  Private' /\ KeptFiles' /\ FilesSafe'
  <2>1. /\ UNCHANGED <<version, message, storage, uploads, held, deleting,
                       overlapped>>
        /\ operation' = [operation EXCEPT ![d] = Idle]
    BY <1>6 DEF Fail
  <2>2. /\ \A e \in Devices \ {d} : operation'[e] = operation[e]
        /\ operation'[d].uploaded = {} /\ operation'[d].current = {}
        /\ operation'[d].remove = {} /\ operation'[d].kept = {}
    BY <1>0, <2>1, EndEffect, IdleOK DEF Others
  <2>3. StorageIds({}) = {}
    BY DEF StorageIds
  <2>4. Private'
    BY <1>0, <2>1, EndingKeepsPrivate
  <2>5. KeptFiles'
    BY <1>0, <2>2, <2>3 DEF KeptFiles
  <2>. QED BY <1>a, <2>1, <2>4, <2>5
<1>7. ASSUME NEW d \in Devices, Load(d)
      PROVE  Private' /\ KeptFiles' /\ FilesSafe'
  <2>1. /\ UNCHANGED <<message, storage, operation, deleting, overlapped>>
        /\ \A e \in Devices : held'[e] \in {held[e], message.attachments}
    BY <1>0, <1>7 DEF Load, AttachmentsTypeInv
  <2>2. Private'
    BY <1>0, <2>1 DEF Private
  <2>3. KeptFiles'
    BY <1>0, <2>1 DEF KeptFiles
  <2>. QED BY <1>a, <2>1, <2>2, <2>3
<1>8. ASSUME NEW f \in deleting, DeleteEntry(f)
      PROVE  Private' /\ KeptFiles' /\ FilesSafe'
  <2>1. /\ UNCHANGED <<message, held, operation, overlapped>>
        /\ deleting' = deleting \ {f}
        /\ DOMAIN storage \ {f} \subseteq DOMAIN storage'
    BY <1>8 DEF DeleteEntry
  <2>2. Private'
    BY <1>0, <2>1 DEF Private
  <2>3. KeptFiles'
    BY <1>0, <2>1 DEF KeptFiles
  <2>4. FilesSafe'
    BY <1>0, <2>1 DEF FilesSafe
  <2>. QED BY <2>2, <2>3, <2>4
<1>9. CASE Rotate \/ UNCHANGED attachmentsVars
  <2>1. UNCHANGED <<message, storage, held, operation, deleting, overlapped>>
    BY <1>9 DEF Rotate, attachmentsVars
  <2>. QED BY <1>0, <1>a, <2>1 DEF Private, KeptFiles
<1>. QED
  BY <1>0, <1>1, <1>2, <1>3, <1>4, <1>5, <1>6, <1>7, <1>8, <1>9, Beginning
     DEF AttachmentsNext, DeviceNext

(* Until two edits overlap, no file of the message is ever gone, whichever *)
(* calls of however many devices fail or go unanswered.                    *)
THEOREM NoFileDangles == AttachmentsSpec => []NothingDangling
<1>1. AttachmentsInit => FilesInv
  <2>. SUFFICES ASSUME AttachmentsInit  PROVE FilesInv
    OBVIOUS
  <2>1. /\ message.attachments = {} /\ \A d \in Devices : operation[d] = Idle
    BY DEF AttachmentsInit
  <2>2. Idle.uploaded = {} /\ Idle.kept = {} /\ StorageIds({}) = {}
    BY DEF Idle, StorageIds
  <2>. QED
    BY <2>1, <2>2, InitAttachmentTypes DEF FilesInv, Private, KeptFiles, FilesSafe
<1>2. FilesInv => NothingDangling
  BY DEF FilesInv, FilesSafe, NothingDangling
<1>. QED BY <1>1, <1>2, StepKeepsFiles, PTL DEF AttachmentsSpec

-----------------------------------------------------------------------------
(* Files of a message that is shown can be opened *)

(* A device holds attachments of messages it could decrypt: a file and its *)
(* metadata have one version, unless a fullnode that lagged gave the file  *)
(* an older one.                                                           *)
HeldOpen ==
    \A d \in Devices : \A a \in held[d] :
        a.storageId \in DOMAIN storage \ regressed =>
            storage[a.storageId] = a.metadata

(* Attachments m of key version v, of which those that have that version   *)
(* have a file that has it too.                                            *)
Opens(attachments, v) ==
    \A a \in attachments :
        a.metadata = v /\ a.storageId \in DOMAIN storage \ regressed =>
            storage[a.storageId] = v

KeptOpen == \A d \in Devices : Opens(operation[d].kept, operation[d].version)

MessageOpen == Opens(message.attachments, message.version)

(* A file is encrypted after its message's text, and what a fullnode that  *)
(* lags answers is recorded.                                               *)
InOrder ==
    \A d \in Devices : \A f \in operation[d].uploaded :
        f \in DOMAIN storage \ regressed => operation[d].version <= storage[f]

OpenInv == AttachmentsTypeInv /\ HeldOpen /\ KeptOpen /\ MessageOpen /\ InOrder

LEMMA StepKeepsOpen == OpenInv /\ [AttachmentsNext]_attachmentsVars => OpenInv'
<1>. SUFFICES ASSUME OpenInv, [AttachmentsNext]_attachmentsVars
              PROVE  HeldOpen' /\ KeptOpen' /\ MessageOpen' /\ InOrder'
  BY StepKeepsAttachmentTypes DEF OpenInv
<1>0. AttachmentsTypeInv /\ HeldOpen /\ KeptOpen /\ MessageOpen /\ InOrder
  BY DEF OpenInv
<1>1. ASSUME NEW d \in Devices, Begun(d)
      PROVE  HeldOpen' /\ KeptOpen' /\ MessageOpen' /\ InOrder'
  <2>1. /\ UNCHANGED <<message, storage, held, regressed>>
        /\ \A e \in Devices \ {d} : operation'[e] = operation[e]
        /\ operation'[d].uploaded = {}
        /\ operation'[d].kept \subseteq held[d]
    BY <1>1 DEF Begun, Others
  <2>2. KeptOpen'
    BY <1>0, <2>1 DEF KeptOpen, HeldOpen, Opens
  <2>. QED
    BY <1>0, <2>1, <2>2 DEF HeldOpen, MessageOpen, InOrder, Opens
<1>2. ASSUME NEW d \in Devices, NEW v \in 0..version, Upload(d, v)
      PROVE  HeldOpen' /\ KeptOpen' /\ MessageOpen' /\ InOrder'
  <2>1. /\ UNCHANGED <<message, held>>
        /\ \A e \in Devices \ {d} : operation'[e] = operation[e]
        /\ operation'[d].version = operation[d].version
        /\ operation'[d].kept = operation[d].kept
        /\ operation'[d].uploaded = {uploads + 1}
        /\ DOMAIN storage' = DOMAIN storage \cup {uploads + 1}
        /\ storage'[uploads + 1] = v
        /\ \A f \in DOMAIN storage : storage'[f] = storage[f]
        /\ regressed' = regressed \cup
               {f \in {uploads + 1} : v < operation[d].version}
    BY <1>0, <1>2, UploadEffect DEF Others
  <2>2. /\ uploads \in Nat /\ uploads + 1 \notin 1..uploads
        /\ DOMAIN storage \subseteq 1..uploads
    BY <1>0 DEF AttachmentsTypeInv
  <2>3. /\ \A a \in message.attachments : a.storageId # uploads + 1
        /\ \A e \in Devices : /\ \A a \in held[e] : a.storageId # uploads + 1
                              /\ \A a \in operation[e].kept :
                                     a.storageId # uploads + 1
                              /\ uploads + 1 \notin operation[e].uploaded
    BY <1>0, <2>2, OperationFields DEF AttachmentsTypeInv, OperationOK, StorageIds
  <2>4. operation[d].version \in Nat /\ v \in Nat
    BY <1>0, OperationFields DEF AttachmentsTypeInv, OperationOK
  <2>5. HeldOpen'
    BY <1>0, <2>1, <2>3 DEF HeldOpen
  <2>6. KeptOpen'
    <3>1. \A e \in Devices : /\ operation'[e].version = operation[e].version
                             /\ operation'[e].kept = operation[e].kept
      BY <2>1
    <3>2. \A e \in Devices : \A a \in operation[e].kept :
              a.storageId \in DOMAIN storage' \ regressed' =>
                  /\ a.storageId \in DOMAIN storage \ regressed
                  /\ storage'[a.storageId] = storage[a.storageId]
      BY <2>1, <2>3
    <3>. QED BY <1>0, <3>1, <3>2 DEF KeptOpen, Opens
  <2>7. MessageOpen'
    BY <1>0, <2>1, <2>3 DEF MessageOpen, Opens
  <2>8. InOrder'
    <3>. SUFFICES ASSUME NEW e \in Devices, NEW f \in operation'[e].uploaded,
                         f \in DOMAIN storage' \ regressed'
                  PROVE  operation'[e].version <= storage'[f]
      BY DEF InOrder
    <3>1. CASE e = d
      <4>1. f = uploads + 1
        BY <2>1, <3>1
      <4>. QED BY <2>1, <2>4, <3>1, <4>1
    <3>2. CASE e # d
      <4>1. operation'[e] = operation[e] /\ f \in operation[e].uploaded
        BY <2>1, <3>2
      <4>2. f # uploads + 1
        BY <2>3, <4>1
      <4>3. f \in DOMAIN storage \ regressed /\ storage'[f] = storage[f]
        BY <2>1, <4>2
      <4>. QED BY <1>0, <4>1, <4>3 DEF InOrder
    <3>. QED BY <3>1, <3>2
  <2>. QED BY <2>5, <2>6, <2>7, <2>8
<1>3. ASSUME NEW d \in Devices, NEW v \in 0..version, Describe(d, v)
      PROVE  HeldOpen' /\ KeptOpen' /\ MessageOpen' /\ InOrder'
  <2>1. /\ UNCHANGED <<message, storage, held>>
        /\ \A e \in Devices \ {d} : operation'[e] = operation[e]
        /\ operation'[d].version = operation[d].version
        /\ operation'[d].uploaded = operation[d].uploaded
        /\ operation'[d].kept = operation[d].kept \cup
               {[storageId |-> f, metadata |-> v] :
                   f \in operation[d].uploaded}
        /\ regressed' = regressed \cup {f \in operation[d].uploaded : v < storage[f]}
    BY <1>0, <1>3, DescribeEffect DEF Others
  <2>2. ASSUME NEW a \in operation'[d].kept, a.metadata = operation[d].version,
               a.storageId \in DOMAIN storage \ regressed'
        PROVE  storage[a.storageId] = operation[d].version
    <3>1. CASE a \in operation[d].kept
      BY <1>0, <2>1, <2>2, <3>1 DEF KeptOpen, Opens
    <3>2. ASSUME NEW f \in operation[d].uploaded,
                 a = [storageId |-> f, metadata |-> v]
          PROVE  storage[a.storageId] = operation[d].version
      <4>1. a.storageId = f /\ a.metadata = v
        BY <3>2
      <4>2. operation[d].version <= storage[f] /\ ~(v < storage[f])
        BY <1>0, <2>1, <2>2, <3>2, <4>1 DEF InOrder
      <4>3. /\ storage[f] \in Nat /\ v \in Nat
        BY <1>0, <2>2, <4>1 DEF AttachmentsTypeInv
      <4>. QED BY <2>2, <4>1, <4>2, <4>3
    <3>. QED BY <2>1, <2>2, <3>1, <3>2
  <2>3. KeptOpen'
    BY <1>0, <2>1, <2>2 DEF KeptOpen, Opens
  <2>. QED
    BY <1>0, <2>1, <2>3 DEF HeldOpen, MessageOpen, InOrder, Opens
<1>4. ASSUME NEW d \in Devices, SkipUpload(d)
      PROVE  HeldOpen' /\ KeptOpen' /\ MessageOpen' /\ InOrder'
  <2>1. /\ UNCHANGED <<message, storage, held, regressed>>
        /\ \A e \in Devices : /\ operation'[e].uploaded = operation[e].uploaded
                              /\ operation'[e].version = operation[e].version
                              /\ operation'[e].kept = operation[e].kept
    BY <1>0, <1>4, SkipEffect DEF Others
  <2>. QED
    BY <1>0, <2>1 DEF HeldOpen, KeptOpen, MessageOpen, InOrder, Opens
<1>5. ASSUME NEW d \in Devices, Write(d) \/ Fail(d)
      PROVE  HeldOpen' /\ KeptOpen' /\ MessageOpen' /\ InOrder'
  <2>1. /\ UNCHANGED <<version, storage, uploads, held, regressed>>
        /\ operation' = [operation EXCEPT ![d] = Idle]
        /\ \/ message' = message
           \/ message' = [version |-> operation[d].version,
                          attachments |-> operation[d].kept]
    BY <1>5 DEF Write, Stored, Fail
  <2>2. /\ \A e \in Devices \ {d} : operation'[e] = operation[e]
        /\ operation'[d].uploaded = {} /\ operation'[d].kept = {}
    BY <1>0, <2>1, EndEffect, IdleOK DEF Others
  <2>3. KeptOpen' /\ InOrder'
    BY <1>0, <2>1, <2>2 DEF KeptOpen, InOrder, Opens
  <2>4. MessageOpen'
    BY <1>0, <2>1 DEF MessageOpen, KeptOpen, Opens
  <2>. QED BY <1>0, <2>1, <2>3, <2>4 DEF HeldOpen
<1>6. ASSUME NEW d \in Devices, Load(d)
      PROVE  HeldOpen' /\ KeptOpen' /\ MessageOpen' /\ InOrder'
  <2>1. /\ UNCHANGED <<message, storage, operation, regressed>>
        /\ \A e \in Devices : held'[e] \in {held[e], message.attachments}
        /\ \A a \in message.attachments : a.metadata = message.version
    BY <1>0, <1>6 DEF Load, AttachmentsTypeInv, Resolves
  <2>2. HeldOpen'
    BY <1>0, <2>1 DEF HeldOpen, MessageOpen, Opens
  <2>. QED
    BY <1>0, <2>1, <2>2 DEF KeptOpen, MessageOpen, InOrder, Opens
<1>7. ASSUME NEW f \in deleting, DeleteEntry(f)
      PROVE  HeldOpen' /\ KeptOpen' /\ MessageOpen' /\ InOrder'
  <2>1. /\ UNCHANGED <<message, held, operation, regressed>>
        /\ DOMAIN storage' \subseteq DOMAIN storage
        /\ \A g \in DOMAIN storage' : storage'[g] = storage[g]
    BY <1>7 DEF DeleteEntry
  <2>. QED
    BY <1>0, <2>1 DEF HeldOpen, KeptOpen, MessageOpen, InOrder, Opens
<1>8. CASE Rotate \/ UNCHANGED attachmentsVars
  <2>1. UNCHANGED <<message, storage, held, operation, regressed>>
    BY <1>8 DEF Rotate, attachmentsVars
  <2>. QED
    BY <1>0, <2>1 DEF HeldOpen, KeptOpen, MessageOpen, InOrder, Opens
<1>. QED
  BY <1>0, <1>1, <1>2, <1>3, <1>4, <1>5, <1>6, <1>7, <1>8, Beginning
     DEF AttachmentsNext, DeviceNext

(* A message that is shown has files that open, whatever rotations came    *)
(* between the steps of its sending and of its edits, and whatever the     *)
(* fullnodes that were asked knew of them, except the files for which one  *)
(* answered an older version than another one before in the same upload.   *)
THEOREM ShownFilesAlwaysOpen == AttachmentsSpec => []ShownFilesOpen
<1>1. AttachmentsInit => OpenInv
  <2>. SUFFICES ASSUME AttachmentsInit  PROVE OpenInv
    OBVIOUS
  <2>1. /\ message.attachments = {}
        /\ \A d \in Devices : operation[d] = Idle /\ held[d] = {}
    BY DEF AttachmentsInit
  <2>2. Idle.uploaded = {} /\ Idle.kept = {}
    BY DEF Idle
  <2>. QED
    BY <2>1, <2>2, InitAttachmentTypes
       DEF OpenInv, HeldOpen, KeptOpen, MessageOpen, InOrder, Opens
<1>2. OpenInv => ShownFilesOpen
  BY DEF OpenInv, MessageOpen, Opens, Resolves, ShownFilesOpen, DataOpens,
         Download
<1>. QED BY <1>1, <1>2, StepKeepsOpen, PTL DEF AttachmentsSpec

=============================================================================
