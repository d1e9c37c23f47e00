---------------------------- MODULE SignedCallsProofs ----------------------------
(***************************************************************************)
(* Proofs about SignedCalls, for any number of calls and groups and for    *)
(* every time to live, buffer and headroom.  The queue is what holds the   *)
(* three kinds of signatures together: QueueInv says that the wallet shows *)
(* its head only, and that whoever waits for a signature is in it once.    *)
(***************************************************************************)
EXTENDS SignedCalls, TLAPS, FiniteSetTheorems, SequenceTheorems

SomeKey == {<<k>> : k \in Keys}
SomeAuth == {<<a>> : a \in Auths}

CallType ==
    [at: {"idle", "key", "headers", "body", "seal", "request"},
     group: Groups \cup {NoGroup}, stamp: Times, key: {<<>>} \cup SomeKey]

TypesInv ==
    /\ now \in Times
    /\ created \in Times
    /\ refresh \in {"none", "creating", "signing"}
    /\ chain \in Seq(Jobs)
    /\ sessionKey \in {<<>>} \cup SomeKey
    /\ headers \in [Groups -> {<<>>} \cup SomeAuth]
    /\ disconnected \in BOOLEAN
    /\ caller \in [Callers -> CallType]
    /\ \A c \in Callers : caller[c].at = "headers" => caller[c].group \in Groups

(* The calls that wait for a signature are those in the queue. *)
QueueInv ==
    /\ IsInjective(chain)
    /\ \A c \in Callers :
           c \in Range(chain) <=> caller[c].at \in {"headers", "body"}
    /\ Ceremony \in Range(chain) <=> refresh = "signing"
    /\ \A job \in prompts : chain # <<>> /\ job = Head(chain)

(* Somebody waits for a session key exactly while one is made. *)
RefreshInv == refresh # "none" <=> \E c \in Callers : caller[c].at = "key"

DisconnectedInv ==
    disconnected => \A c \in Callers : caller[c].at # "request"

(* A call went to Seal with a key that outlives the buffer, or that came   *)
(* too late from the wallet to do so.                                      *)
InTime(call) ==
    /\ call.key \in SomeKey
    /\ \/ call.stamp + Buffer < ExpiresAt(call.key[1])
       \/ call.key[1].certified + Buffer >= ExpiresAt(call.key[1])

KeysInv == \A c \in Callers : caller[c].at = "seal" => InTime(caller[c])

CallsInv == TypesInv /\ QueueInv /\ RefreshInv /\ DisconnectedInv /\ KeysInv

-----------------------------------------------------------------------------
(* The queue *)

LEMMA InRange ==
  ASSUME NEW S, NEW s \in Seq(S)
  PROVE  /\ Range(s) \subseteq S
         /\ \A x : x \in Range(s) <=> \E i \in 1..Len(s) : s[i] = x
  BY DEF Range

LEMMA AppendToQueue ==
  ASSUME NEW S, NEW s \in Seq(S), NEW e \in S, IsInjective(s), e \notin Range(s)
  PROVE  /\ Append(s, e) \in Seq(S)
         /\ IsInjective(Append(s, e))
         /\ Range(Append(s, e)) = Range(s) \cup {e}
         /\ s # <<>> => Head(Append(s, e)) = Head(s)
         /\ Append(s, e) # <<>>
<1> DEFINE t == Append(s, e)
<1>1. /\ t \in Seq(S) /\ t # <<>>
      /\ Len(t) = Len(s) + 1
      /\ \A i \in 1..Len(s) : t[i] = s[i]
      /\ t[Len(s) + 1] = e
  BY AppendProperties
<1>2. Len(s) \in Nat /\ DOMAIN s = 1..Len(s) /\ DOMAIN t = 1..(Len(s) + 1)
  BY <1>1
<1>3. \A i \in 1..(Len(s) + 1) : i \in 1..Len(s) \/ i = Len(s) + 1
  BY <1>2
<1>4. 1..Len(s) \subseteq 1..(Len(s) + 1) /\ Len(s) + 1 \in 1..(Len(s) + 1)
  BY <1>2
<1>5. \A i \in 1..Len(s) : s[i] # e
  BY <1>2 DEF Range
<1> HIDE DEF t
<1>6. IsInjective(t)
  <2> SUFFICES ASSUME NEW i \in DOMAIN t, NEW j \in DOMAIN t, t[i] = t[j]
               PROVE  i = j
    BY DEF IsInjective
  <2>1. CASE i \in 1..Len(s) /\ j \in 1..Len(s)
    BY <1>1, <1>2, <2>1 DEF IsInjective
  <2>2. CASE i = Len(s) + 1 \/ j = Len(s) + 1
    BY <1>1, <1>2, <1>3, <1>5, <2>2
  <2>3. QED
    BY <1>2, <1>3, <2>1, <2>2
<1>7. Range(t) = Range(s) \cup {e}
  <2>1. \A x \in Range(t) : x \in Range(s) \cup {e}
    BY <1>1, <1>2, <1>3 DEF Range
  <2>2. \A x \in Range(s) \cup {e} : x \in Range(t)
    BY <1>1, <1>2, <1>4 DEF Range
  <2>3. QED
    BY <2>1, <2>2
<1>8. s # <<>> => Head(t) = Head(s)
  BY HeadTailAppend DEF t
<1>9. QED
  BY <1>1, <1>6, <1>7, <1>8 DEF t

LEMMA TailOfQueue ==
  ASSUME NEW S, NEW s \in Seq(S), s # <<>>, IsInjective(s)
  PROVE  /\ Tail(s) \in Seq(S)
         /\ IsInjective(Tail(s))
         /\ Range(Tail(s)) = Range(s) \ {Head(s)}
         /\ Head(s) \in Range(s)
<1> DEFINE t == Tail(s)
<1>1. /\ t \in Seq(S) /\ Len(t) = Len(s) - 1
      /\ \A i \in 1..Len(t) : t[i] = s[i + 1]
      /\ Head(s) = s[1]
  BY HeadTailProperties
<1>2. /\ Len(s) \in Nat \ {0} /\ DOMAIN s = 1..Len(s)
      /\ DOMAIN t = 1..(Len(s) - 1)
  BY <1>1
<1>3. \A i \in 1..(Len(s) - 1) : i + 1 \in 1..Len(s) /\ i + 1 # 1
  BY <1>2
<1>4. \A i \in 1..Len(s) : i # 1 => i - 1 \in 1..(Len(s) - 1) /\ (i - 1) + 1 = i
  BY <1>2
<1>5. \A i \in DOMAIN t : t[i] = s[i + 1]
  BY <1>1, <1>2
<1>6. 1 \in 1..Len(s)
  BY <1>2
<1> HIDE DEF t
<1>7. IsInjective(t)
  <2> SUFFICES ASSUME NEW i \in DOMAIN t, NEW j \in DOMAIN t, t[i] = t[j]
               PROVE  i = j
    BY DEF IsInjective
  <2>1. i + 1 = j + 1
    BY <1>2, <1>3, <1>5 DEF IsInjective
  <2>2. QED
    BY <1>2, <2>1
<1>8. Range(t) = Range(s) \ {Head(s)}
  <2>1. ASSUME NEW x \in Range(t)
        PROVE  x \in Range(s) \ {Head(s)}
    <3>1. PICK i \in DOMAIN t : t[i] = x
      BY DEF Range
    <3>2. i + 1 \in DOMAIN s /\ s[i + 1] = x /\ i + 1 # 1
      BY <1>2, <1>3, <1>5, <3>1
    <3>3. x # s[1]
      BY <1>2, <1>6, <3>2 DEF IsInjective
    <3>4. QED
      BY <1>1, <3>2, <3>3 DEF Range
  <2>2. ASSUME NEW x \in Range(s) \ {Head(s)}
        PROVE  x \in Range(t)
    <3>1. PICK i \in DOMAIN s : s[i] = x
      BY DEF Range
    <3>2. i # 1
      BY <1>1, <3>1
    <3>3. i - 1 \in DOMAIN t /\ t[i - 1] = x
      BY <1>2, <1>4, <1>5, <3>1, <3>2
    <3>4. QED
      BY <3>3 DEF Range
  <2>3. QED
    BY <2>1, <2>2
<1>9. Head(s) \in Range(s)
  BY <1>1, <1>2, <1>6 DEF Range
<1>10. QED
  BY <1>1, <1>7, <1>8, <1>9 DEF t

-----------------------------------------------------------------------------
(* The steps *)

LEMMA CallTypes ==
  ASSUME TypesInv,
         NEW at \in {"idle", "key", "headers", "body", "seal", "request"},
         NEW g \in Groups \cup {NoGroup}, NEW t \in Times,
         NEW key \in SomeKey
  PROVE  /\ Call(at, g, t) \in CallType
         /\ Call(at, g, t).at = at
         /\ Call(at, g, t).group = g
         /\ Call(at, g, t).stamp = t
         /\ SealCall(key) \in CallType
         /\ SealCall(key).at = "seal"
         /\ SealCall(key).key = key
         /\ SealCall(key).stamp = now
  BY DEF CallType, Call, SealCall, TypesInv

LEMMA IdleType == Idle \in CallType /\ Idle.at = "idle"
<1>1. 0 \in Times
  BY CallsAssumption DEF Times
<1>2. QED
  BY <1>1 DEF Idle, Call, CallType

LEMMA InitCalls == Init => CallsInv
<1> SUFFICES ASSUME Init
             PROVE  CallsInv
  OBVIOUS
<1>1. 0 \in Times
  BY CallsAssumption DEF Times
<1>2. \A c \in Callers : caller[c].at = "idle"
  BY IdleType DEF Init
<1>3. TypesInv
  <2>1. <<>> \in Seq(Jobs)
    BY EmptySeq
  <2>2. QED
    BY <1>1, <1>2, <2>1, IdleType DEF Init, TypesInv
<1>4. QueueInv
  <2>1. DOMAIN chain = {}
    BY DEF Init
  <2>2. Range(chain) = {} /\ IsInjective(chain)
    BY <2>1 DEF Range, IsInjective
  <2>3. QED
    BY <1>2, <2>2 DEF Init, QueueInv
<1>5. QED
  BY <1>2, <1>3, <1>4 DEF CallsInv, RefreshInv, DisconnectedInv, KeysInv, Init

(* One call moves on. *)
LEMMA BecomesTypes ==
  ASSUME TypesInv, NEW c \in Callers, NEW call \in CallType, Becomes(c, call),
         call.at = "headers" => call.group \in Groups
  PROVE  /\ caller' \in [Callers -> CallType]
         /\ caller'[c] = call
         /\ \A d \in Callers : d # c => caller'[d] = caller[d]
         /\ \A d \in Callers :
                caller'[d].at = "headers" => caller'[d].group \in Groups
<1>1. /\ caller' \in [Callers -> CallType]
      /\ caller'[c] = call
      /\ \A d \in Callers : d # c => caller'[d] = caller[d]
  BY DEF Becomes, TypesInv
<1>2. QED
  BY <1>1 DEF TypesInv

(* The queue stands still, and so does who waits for it. *)
LEMMA QueueStands ==
  ASSUME QueueInv, UNCHANGED <<chain, prompts, refresh>>,
         \A c \in Callers : caller'[c].at \in {"headers", "body"}
                                <=> caller[c].at \in {"headers", "body"}
  PROVE  QueueInv'
  BY DEF QueueInv

LEMMA GetSessionKeyInv ==
  ASSUME CallsInv, NEW c \in Callers, GetSessionKey(c)
  PROVE  CallsInv'
<1> USE DEF CallsInv
<1>1. /\ caller[c].at = "idle"
      /\ UNCHANGED <<now, chain, prompts, sessionKey, created, headers,
                     disconnected>>
  BY IdleType DEF GetSessionKey, walletVars, transportVars
<1>2. now \in Times /\ NoGroup \in Groups \cup {NoGroup}
  BY DEF TypesInv
<1>3. CASE sessionKey # <<>> /\ ~NeedsRefresh(sessionKey[1])
  <2>1. Becomes(c, SealCall(sessionKey)) /\ refresh' = refresh
    BY <1>3 DEF GetSessionKey
  <2>2. sessionKey \in SomeKey
    BY <1>3 DEF TypesInv
  <2>3. /\ SealCall(sessionKey) \in CallType
        /\ SealCall(sessionKey).at = "seal"
        /\ SealCall(sessionKey).key = sessionKey
        /\ SealCall(sessionKey).stamp = now
    BY <1>2, <2>2, CallTypes
  <2>4. /\ caller' \in [Callers -> CallType]
        /\ caller'[c] = SealCall(sessionKey)
        /\ \A d \in Callers : d # c => caller'[d] = caller[d]
        /\ \A d \in Callers :
               caller'[d].at = "headers" => caller'[d].group \in Groups
    BY <2>1, <2>3, BecomesTypes
  <2>5. InTime(SealCall(sessionKey))
    <3>1. sessionKey[1].created \in Nat /\ now \in Nat
      BY <1>2, <2>2 DEF SomeKey, Keys, Times
    <3>2. now + Buffer < ExpiresAt(sessionKey[1])
      BY <1>3, <3>1, CallsAssumption DEF NeedsRefresh, ExpiresAt
    <3>3. QED
      BY <2>2, <2>3, <3>2 DEF InTime
  <2>6. TypesInv'
    BY <1>1, <2>1, <2>4 DEF TypesInv
  <2>7. QueueInv'
    BY <1>1, <2>1, <2>3, <2>4, QueueStands
  <2>8. RefreshInv' /\ DisconnectedInv'
    BY <1>1, <2>1, <2>3, <2>4 DEF RefreshInv, DisconnectedInv
  <2>9. KeysInv'
    BY <2>4, <2>5 DEF KeysInv, InTime, ExpiresAt
  <2>10. QED
    BY <2>6, <2>7, <2>8, <2>9
<1>4. CASE ~(sessionKey # <<>> /\ ~NeedsRefresh(sessionKey[1]))
  <2> DEFINE call == Call("key", NoGroup, now)
  <2>1. /\ Becomes(c, call)
        /\ refresh' = IF refresh = "none" THEN "creating" ELSE refresh
    BY <1>4 DEF GetSessionKey
  <2>2. call \in CallType /\ call.at = "key"
    BY <1>2 DEF Call, CallType
  <2> HIDE DEF call
  <2>3. /\ caller' \in [Callers -> CallType]
        /\ caller'[c] = call
        /\ \A d \in Callers : d # c => caller'[d] = caller[d]
        /\ \A d \in Callers :
               caller'[d].at = "headers" => caller'[d].group \in Groups
    BY <2>1, <2>2, BecomesTypes
  <2>4. /\ refresh' \in {"none", "creating", "signing"}
        /\ refresh' # "none"
        /\ refresh' = "signing" <=> refresh = "signing"
    BY <2>1 DEF TypesInv
  <2>5. TypesInv'
    BY <1>1, <2>3, <2>4 DEF TypesInv
  <2>6. QueueInv'
    BY <1>1, <2>2, <2>3, <2>4 DEF QueueInv
  <2>7. RefreshInv' /\ DisconnectedInv' /\ KeysInv'
    BY <1>1, <2>2, <2>3, <2>4
       DEF RefreshInv, DisconnectedInv, KeysInv, InTime, ExpiresAt
  <2>8. QED
    BY <2>5, <2>6, <2>7
<1>5. QED
  BY <1>3, <1>4

LEMMA CreateKeyInv ==
  ASSUME CallsInv, CreateKey
  PROVE  CallsInv'
<1> USE DEF CallsInv
<1>1. /\ refresh = "creating" /\ refresh' = "signing" /\ created' = now
      /\ chain' = Append(chain, Ceremony)
      /\ UNCHANGED <<now, prompts, sessionKey, headers, disconnected, caller>>
  BY DEF CreateKey, Enqueue, transportVars
<1>2. Ceremony \in Jobs /\ Ceremony \notin Range(chain) /\ chain \in Seq(Jobs)
  BY <1>1 DEF Jobs, QueueInv, TypesInv
<1>3. /\ chain' \in Seq(Jobs) /\ IsInjective(chain)'
      /\ Range(chain)' = Range(chain) \cup {Ceremony}
      /\ chain # <<>> => Head(chain)' = Head(chain)
      /\ chain' # <<>>
  BY <1>1, <1>2, AppendToQueue DEF QueueInv
<1>4. TypesInv'
  BY <1>1, <1>3 DEF TypesInv
<1>5. QueueInv'
  BY <1>1, <1>3, CallsAssumption DEF QueueInv
<1>6. RefreshInv' /\ DisconnectedInv' /\ KeysInv'
  BY <1>1 DEF RefreshInv, DisconnectedInv, KeysInv, InTime, ExpiresAt
<1>7. QED
  BY <1>4, <1>5, <1>6

(* The callers that wait for the key all get the same answer. *)
LEMMA ResolvedTypes ==
  ASSUME TypesInv, NEW call \in CallType, Resolved(call),
         call.at \in {"idle", "seal"}
  PROVE  /\ caller' \in [Callers -> CallType]
         /\ \A d \in Callers :
                IF caller[d].at = "key"
                THEN caller'[d] = call
                ELSE caller'[d] = caller[d]
         /\ \A d \in Callers :
                /\ caller'[d].at # "key"
                /\ caller'[d].at = "headers" => caller'[d].group \in Groups
                /\ caller'[d].at \in {"headers", "body"}
                       <=> caller[d].at \in {"headers", "body"}
                /\ caller'[d].at = "request" => caller[d].at = "request"
<1>1. /\ caller' \in [Callers -> CallType]
      /\ \A d \in Callers :
             IF caller[d].at = "key"
             THEN caller'[d] = call
             ELSE caller'[d] = caller[d]
  BY DEF Resolved, TypesInv
<1>2. QED
  BY <1>1 DEF TypesInv

LEMMA CreateKeyFailsInv ==
  ASSUME CallsInv, CreateKeyFails
  PROVE  CallsInv'
<1> USE DEF CallsInv
<1>1. /\ refresh = "creating" /\ refresh' = "none" /\ Resolved(Idle)
      /\ UNCHANGED <<now, chain, prompts, sessionKey, created, headers,
                     disconnected>>
  BY DEF CreateKeyFails, FailCeremony, walletVars, transportVars
<1>2. /\ caller' \in [Callers -> CallType]
      /\ \A d \in Callers :
             IF caller[d].at = "key"
             THEN caller'[d] = Idle
             ELSE caller'[d] = caller[d]
      /\ \A d \in Callers :
             /\ caller'[d].at # "key"
             /\ caller'[d].at = "headers" => caller'[d].group \in Groups
             /\ caller'[d].at \in {"headers", "body"}
                    <=> caller[d].at \in {"headers", "body"}
             /\ caller'[d].at = "request" => caller[d].at = "request"
  BY <1>1, IdleType, ResolvedTypes
<1>3. TypesInv'
  BY <1>1, <1>2 DEF TypesInv
<1>4. QueueInv'
  BY <1>1, <1>2 DEF QueueInv
<1>5. RefreshInv' /\ DisconnectedInv' /\ KeysInv'
  BY <1>1, <1>2, IdleType
     DEF RefreshInv, DisconnectedInv, KeysInv, InTime, ExpiresAt
<1>6. QED
  BY <1>3, <1>4, <1>5

(* An answer of Seal or of the relayer. *)
LEMMA AnswerInv ==
  ASSUME CallsInv, NEW c \in Callers, AnswerSeal(c) \/ AnswerRequest(c)
  PROVE  CallsInv'
<1> USE DEF CallsInv
<1>1. /\ caller[c].at \in {"seal", "request"}
      /\ Becomes(c, Idle)
      /\ UNCHANGED <<now, chain, prompts, sessionKey, refresh, created,
                     headers, disconnected>>
  BY DEF AnswerSeal, AnswerRequest, walletVars, managerVars, transportVars
<1>2. /\ caller' \in [Callers -> CallType]
      /\ caller'[c] = Idle
      /\ \A d \in Callers : d # c => caller'[d] = caller[d]
      /\ \A d \in Callers :
             caller'[d].at = "headers" => caller'[d].group \in Groups
  BY <1>1, IdleType, BecomesTypes
<1>3. TypesInv'
  BY <1>1, <1>2 DEF TypesInv
<1>4. QueueInv'
  BY <1>1, <1>2, IdleType, QueueStands
<1>5. RefreshInv' /\ DisconnectedInv' /\ KeysInv'
  BY <1>1, <1>2, IdleType
     DEF RefreshInv, DisconnectedInv, KeysInv, InTime, ExpiresAt
<1>6. QED
  BY <1>3, <1>4, <1>5

(* A request is sent, unless the transport is disconnected. *)
LEMMA RequestTypes ==
  ASSUME TypesInv, NEW g \in Groups \cup {NoGroup}, NEW t \in Times
  PROVE  /\ Request(g, t) \in CallType
         /\ Request(g, t).at \in {"idle", "request"}
         /\ Request(g, t).at = "request" =>
                /\ ~disconnected
                /\ Request(g, t).group = g
                /\ Request(g, t).stamp = t
<1>1. /\ Call("request", g, t) \in CallType
      /\ Call("request", g, t).at = "request"
      /\ Call("request", g, t).group = g
      /\ Call("request", g, t).stamp = t
  BY DEF Call, CallType
<1>2. QED
  BY <1>1, IdleType DEF Request

(* A call asks for a signature. *)
LEMMA EnqueuedInv ==
  ASSUME CallsInv, NEW c \in Callers, caller[c].at = "idle",
         NEW call \in CallType, call.at \in {"headers", "body"},
         call.at = "headers" => call.group \in Groups,
         Becomes(c, call), Enqueue(c),
         UNCHANGED <<now, prompts, managerVars, transportVars>>
  PROVE  CallsInv'
<1> USE DEF CallsInv
<1>1. /\ chain' = Append(chain, c)
      /\ UNCHANGED <<now, prompts, sessionKey, refresh, created, headers,
                     disconnected>>
  BY DEF Enqueue, managerVars, transportVars
<1>2. c \in Jobs /\ c \notin Range(chain) /\ chain \in Seq(Jobs)
  BY DEF Jobs, QueueInv, TypesInv
<1>3. /\ chain' \in Seq(Jobs) /\ IsInjective(chain)'
      /\ Range(chain)' = Range(chain) \cup {c}
      /\ chain # <<>> => Head(chain)' = Head(chain)
      /\ chain' # <<>>
  BY <1>1, <1>2, AppendToQueue DEF QueueInv
<1>4. /\ caller' \in [Callers -> CallType]
      /\ caller'[c] = call
      /\ \A d \in Callers : d # c => caller'[d] = caller[d]
      /\ \A d \in Callers :
             caller'[d].at = "headers" => caller'[d].group \in Groups
  BY BecomesTypes
<1>5. TypesInv'
  BY <1>1, <1>3, <1>4 DEF TypesInv
<1>6. QueueInv'
  BY <1>1, <1>3, <1>4, CallsAssumption DEF QueueInv
<1>7. RefreshInv' /\ DisconnectedInv' /\ KeysInv'
  BY <1>1, <1>4 DEF RefreshInv, DisconnectedInv, KeysInv, InTime, ExpiresAt
<1>8. QED
  BY <1>5, <1>6, <1>7

LEMMA BodyCallInv ==
  ASSUME CallsInv, NEW c \in Callers, BodyCall(c)
  PROVE  CallsInv'
<1> DEFINE call == Call("body", NoGroup, now)
<1>1. call \in CallType /\ call.at = "body"
  BY DEF CallsInv, TypesInv, Call, CallType
<1>2. caller[c].at = "idle"
  BY IdleType DEF BodyCall
<1>3. Becomes(c, call) /\ Enqueue(c)
      /\ UNCHANGED <<now, prompts, managerVars, transportVars>>
  BY DEF BodyCall
<1> HIDE DEF call
<1>4. QED
  BY <1>1, <1>2, <1>3, EnqueuedInv

LEMMA HeaderCallInv ==
  ASSUME CallsInv, NEW c \in Callers, NEW g \in Groups, HeaderCall(c, g)
  PROVE  CallsInv'
<1>1. /\ caller[c].at = "idle"
      /\ UNCHANGED <<now, prompts, managerVars, transportVars>>
  BY IdleType DEF HeaderCall, SignHeaders
<1>2. CASE IsCached(g)
  <2> DEFINE call == Request(g, headers[g][1].stamp)
  <2>1. Becomes(c, call) /\ chain' = chain
    BY <1>2 DEF HeaderCall
  <2>2. headers[g][1].stamp \in Times
    BY <1>2 DEF IsCached, CallsInv, TypesInv, SomeAuth, Auths
  <2>3. /\ call \in CallType /\ call.at \in {"idle", "request"}
        /\ call.at = "request" => ~disconnected
    BY <2>2, RequestTypes DEF CallsInv
  <2> HIDE DEF call
  <2>4. /\ caller' \in [Callers -> CallType]
        /\ caller'[c] = call
        /\ \A d \in Callers : d # c => caller'[d] = caller[d]
        /\ \A d \in Callers :
               caller'[d].at = "headers" => caller'[d].group \in Groups
    BY <2>1, <2>3, BecomesTypes DEF CallsInv
  <2>5. UNCHANGED <<sessionKey, refresh, created, headers, disconnected>>
    BY <1>1 DEF managerVars, transportVars
  <2>6. TypesInv'
    BY <1>1, <2>1, <2>4, <2>5 DEF CallsInv, TypesInv
  <2>7. QueueInv'
    BY <1>1, <2>1, <2>3, <2>4, <2>5, QueueStands DEF CallsInv
  <2>8. RefreshInv' /\ DisconnectedInv' /\ KeysInv'
    BY <1>1, <2>3, <2>4, <2>5
       DEF CallsInv, RefreshInv, DisconnectedInv, KeysInv, InTime, ExpiresAt
  <2>9. QED
    BY <2>6, <2>7, <2>8 DEF CallsInv
<1>3. CASE ~IsCached(g)
  <2> DEFINE call == Call("headers", g, now)
  <2>1. Becomes(c, call) /\ Enqueue(c)
    BY <1>3 DEF HeaderCall, SignHeaders
  <2>2. call \in CallType /\ call.at = "headers" /\ call.group \in Groups
    BY DEF CallsInv, TypesInv, Call, CallType
  <2> HIDE DEF call
  <2>3. QED
    BY <1>1, <2>1, <2>2, EnqueuedInv
<1>4. QED
  BY <1>2, <1>3

LEMMA DisconnectInv ==
  ASSUME CallsInv, Disconnect
  PROVE  CallsInv'
<1>1. /\ disconnected' = TRUE
      /\ headers' = [g \in Groups |-> <<>>]
      /\ UNCHANGED <<now, chain, prompts, sessionKey, refresh, created>>
  BY DEF Disconnect, walletVars, managerVars
<1>2. caller' = [c \in Callers |->
                    IF caller[c].at = "request" THEN Idle ELSE caller[c]]
  BY DEF Disconnect
<1>3. /\ caller' \in [Callers -> CallType]
      /\ \A d \in Callers : IF caller[d].at = "request"
                            THEN caller'[d] = Idle
                            ELSE caller'[d] = caller[d]
  BY <1>2, IdleType DEF CallsInv, TypesInv
<1>4. TypesInv'
  BY <1>1, <1>3, IdleType DEF CallsInv, TypesInv
<1>5. QueueInv'
  BY <1>1, <1>3, IdleType, QueueStands DEF CallsInv
<1>6. RefreshInv' /\ DisconnectedInv' /\ KeysInv'
  BY <1>1, <1>3, IdleType
     DEF CallsInv, RefreshInv, DisconnectedInv, KeysInv, InTime, ExpiresAt
<1>7. QED
  BY <1>4, <1>5, <1>6 DEF CallsInv

LEMMA ShowPromptInv ==
  ASSUME CallsInv, ShowPrompt
  PROVE  CallsInv'
<1>1. PICK job \in Range(chain) \ prompts :
          job = Head(chain) /\ prompts' = prompts \cup {job}
  BY DEF ShowPrompt, Runs
<1>2. UNCHANGED <<now, chain, sessionKey, refresh, created, headers,
                  disconnected, caller>>
  BY DEF ShowPrompt, managerVars, transportVars
<1>3. chain # <<>>
  BY <1>1 DEF Range
<1>4. QueueInv'
  BY <1>1, <1>2, <1>3 DEF CallsInv, QueueInv
<1>5. QED
  BY <1>2, <1>4 DEF CallsInv, TypesInv, RefreshInv, DisconnectedInv, KeysInv,
                    InTime, ExpiresAt

LEMMA TickInv ==
  ASSUME CallsInv, Tick
  PROVE  CallsInv'
<1>1. /\ now' \in Times
      /\ UNCHANGED <<chain, prompts, sessionKey, refresh, created, headers,
                     disconnected, caller>>
  BY CallsAssumption
     DEF Tick, walletVars, managerVars, transportVars, CallsInv, TypesInv,
         Times
<1>2. QED
  BY <1>1 DEF CallsInv, TypesInv, QueueInv, RefreshInv, DisconnectedInv,
              KeysInv, InTime, ExpiresAt

(* The signature at the head of the queue is settled. *)
LEMMA Settled ==
  ASSUME CallsInv, NEW job \in prompts, Settle(job)
  PROVE  /\ prompts' = {}
         /\ chain' \in Seq(Jobs) /\ IsInjective(chain)'
         /\ Range(chain)' = Range(chain) \ {job}
         /\ job \in Range(chain) /\ job \in Jobs
<1>1. /\ chain # <<>> /\ job = Head(chain)
      /\ prompts' = prompts \ {job} /\ chain' = Tail(chain)
      /\ chain \in Seq(Jobs) /\ IsInjective(chain)
      /\ \A j \in prompts : j = Head(chain)
  BY DEF CallsInv, QueueInv, TypesInv, Settle
<1>2. /\ Tail(chain) \in Seq(Jobs) /\ IsInjective(Tail(chain))
      /\ Range(Tail(chain)) = Range(chain) \ {job}
      /\ job \in Range(chain)
  BY <1>1, TailOfQueue
<1>3. job \in Jobs
  BY <1>1, <1>2, InRange
<1>4. QED
  BY <1>1, <1>2, <1>3

(* The wallet signed for a call: its request leaves. *)
LEMMA SignedInv ==
  ASSUME CallsInv, NEW c \in prompts, c # Ceremony, Settle(c),
         NEW call \in CallType, call.at \in {"idle", "request"},
         call.at = "request" => ~disconnected,
         Becomes(c, call),
         headers' \in [Groups -> {<<>>} \cup SomeAuth],
         UNCHANGED <<now, managerVars, disconnected>>
  PROVE  CallsInv'
<1>1. /\ prompts' = {}
      /\ chain' \in Seq(Jobs) /\ IsInjective(chain)'
      /\ Range(chain)' = Range(chain) \ {c}
      /\ c \in Range(chain) /\ c \in Callers
  BY Settled DEF Jobs
<1>2. caller[c].at \in {"headers", "body"}
  BY <1>1 DEF CallsInv, QueueInv
<1>3. /\ caller' \in [Callers -> CallType]
      /\ caller'[c] = call
      /\ \A d \in Callers : d # c => caller'[d] = caller[d]
      /\ \A d \in Callers :
             caller'[d].at = "headers" => caller'[d].group \in Groups
  BY <1>1, BecomesTypes DEF CallsInv
<1>4. UNCHANGED <<sessionKey, refresh, created>>
  BY DEF managerVars
<1>5. TypesInv'
  BY <1>1, <1>3, <1>4 DEF CallsInv, TypesInv
<1>6. QueueInv'
  BY <1>1, <1>3, <1>4, CallsAssumption DEF CallsInv, QueueInv
<1>7. RefreshInv' /\ DisconnectedInv' /\ KeysInv'
  BY <1>1, <1>2, <1>3, <1>4
     DEF CallsInv, RefreshInv, DisconnectedInv, KeysInv, InTime, ExpiresAt
<1>8. QED
  BY <1>5, <1>6, <1>7 DEF CallsInv

(* The ceremony ends, one way or the other: nobody waits for the key now. *)
LEMMA CeremonyEndsInv ==
  ASSUME CallsInv, Ceremony \in prompts, Settle(Ceremony),
         NEW call \in CallType, Resolved(call),
         call.at \in {"idle", "seal"},
         call.at = "seal" => InTime(call),
         sessionKey' \in {<<>>} \cup SomeKey, refresh' = "none",
         UNCHANGED <<now, created, transportVars>>
  PROVE  CallsInv'
<1>1. /\ prompts' = {}
      /\ chain' \in Seq(Jobs) /\ IsInjective(chain)'
      /\ Range(chain)' = Range(chain) \ {Ceremony}
  BY Settled
<1>2. UNCHANGED <<headers, disconnected>>
  BY DEF transportVars
<1>3. /\ caller' \in [Callers -> CallType]
      /\ \A d \in Callers :
             IF caller[d].at = "key"
             THEN caller'[d] = call
             ELSE caller'[d] = caller[d]
      /\ \A d \in Callers :
             /\ caller'[d].at # "key"
             /\ caller'[d].at = "headers" => caller'[d].group \in Groups
             /\ caller'[d].at \in {"headers", "body"}
                    <=> caller[d].at \in {"headers", "body"}
             /\ caller'[d].at = "request" => caller[d].at = "request"
  BY ResolvedTypes DEF CallsInv
<1>4. TypesInv'
  BY <1>1, <1>2, <1>3 DEF CallsInv, TypesInv
<1>5. QueueInv'
  BY <1>1, <1>3, CallsAssumption DEF CallsInv, QueueInv
<1>6. RefreshInv' /\ DisconnectedInv'
  BY <1>2, <1>3 DEF CallsInv, RefreshInv, DisconnectedInv
<1>7. KeysInv'
  BY <1>3 DEF CallsInv, KeysInv, InTime, ExpiresAt
<1>8. QED
  BY <1>4, <1>5, <1>6, <1>7 DEF CallsInv

LEMMA ApproveInv ==
  ASSUME CallsInv, Approve
  PROVE  CallsInv'
<1>1. PICK job \in prompts :
          /\ Settle(job)
          /\ IF job = Ceremony
             THEN EndCeremony /\ UNCHANGED transportVars
             ELSE EndHeaders(job) \/ EndBody(job)
  BY DEF Approve
<1>2. now' = now /\ now \in Times /\ created \in Times
  BY DEF Approve, CallsInv, TypesInv
<1>3. CASE job = Ceremony
  <2> DEFINE key == [created |-> created, certified |-> now]
             call == SealCall(<<key>>)
  <2>1. /\ sessionKey' = <<key>> /\ refresh' = "none"
        /\ Resolved(call)
        /\ UNCHANGED <<created, transportVars>>
    BY <1>1, <1>3 DEF EndCeremony
  <2>2. key \in Keys /\ <<key>> \in SomeKey
    BY <1>2 DEF Keys, SomeKey
  <2>3. /\ call \in CallType /\ call.at = "seal" /\ call.key = <<key>>
        /\ call.stamp = now
    BY <1>2, <2>2, CallTypes DEF CallsInv
  <2>4. InTime(call)
    <3>1. /\ call.key[1].certified = now /\ call.key[1].created = created
          /\ call.key \in SomeKey
      BY <2>2, <2>3
    <3>2. now \in Nat /\ created \in Nat
      BY <1>2 DEF Times
    <3> HIDE DEF call, key
    <3>3. QED
      BY <2>3, <3>1, <3>2, CallsAssumption DEF InTime, ExpiresAt
  <2> HIDE DEF call, key
  <2>5. QED
    BY <1>1, <1>2, <1>3, <2>1, <2>2, <2>3, <2>4, CeremonyEndsInv
<1>4. CASE job # Ceremony /\ EndHeaders(job)
  <2>1. job \in Callers
    BY <1>1, <1>4, Settled DEF Jobs
  <2> DEFINE g == caller[job].group
             stamp == caller[job].stamp
             call == Request(g, stamp)
  <2>2. g \in Groups /\ stamp \in Times
    BY <1>4, <2>1 DEF EndHeaders, CallsInv, TypesInv, CallType
  <2>3. /\ call \in CallType /\ call.at \in {"idle", "request"}
        /\ call.at = "request" => ~disconnected
    BY <2>2, RequestTypes DEF CallsInv
  <2>4. headers' = [headers EXCEPT ![g] =
                       <<[stamp |-> stamp, createdAt |-> now]>>]
        /\ Becomes(job, call)
        /\ UNCHANGED <<managerVars, disconnected>>
    BY <1>4 DEF EndHeaders
  <2>5. <<[stamp |-> stamp, createdAt |-> now]>> \in SomeAuth
    BY <1>2, <2>2 DEF SomeAuth, Auths
  <2> HIDE DEF g, stamp, call
  <2>6. headers' \in [Groups -> {<<>>} \cup SomeAuth]
    BY <2>2, <2>4, <2>5 DEF CallsInv, TypesInv
  <2>7. QED
    BY <1>1, <1>2, <1>4, <2>3, <2>4, <2>6, SignedInv
<1>5. CASE job # Ceremony /\ EndBody(job)
  <2>1. job \in Callers
    BY <1>1, <1>5, Settled DEF Jobs
  <2> DEFINE call == Request(NoGroup, caller[job].stamp)
  <2>2. caller[job].stamp \in Times
    BY <2>1 DEF CallsInv, TypesInv, CallType
  <2>3. /\ call \in CallType /\ call.at \in {"idle", "request"}
        /\ call.at = "request" => ~disconnected
    BY <2>2, RequestTypes DEF CallsInv
  <2>4. /\ Becomes(job, call)
        /\ UNCHANGED <<managerVars, headers, disconnected>>
    BY <1>5 DEF EndBody, transportVars
  <2> HIDE DEF call
  <2>5. headers' \in [Groups -> {<<>>} \cup SomeAuth]
    BY <2>4 DEF CallsInv, TypesInv
  <2>6. QED
    BY <1>1, <1>2, <1>5, <2>3, <2>4, <2>5, SignedInv
<1>6. QED
  BY <1>1, <1>3, <1>4, <1>5

LEMMA RejectInv ==
  ASSUME CallsInv, Reject
  PROVE  CallsInv'
<1>1. PICK job \in prompts :
          /\ Settle(job)
          /\ IF job = Ceremony
             THEN FailCeremony
             ELSE Becomes(job, Idle) /\ UNCHANGED managerVars
  BY DEF Reject
<1>2. UNCHANGED <<now, headers, disconnected>> /\ UNCHANGED transportVars
  BY DEF Reject, transportVars
<1>3. CASE job = Ceremony
  <2>1. /\ sessionKey' = sessionKey /\ refresh' = "none" /\ Resolved(Idle)
        /\ created' = created
    BY <1>1, <1>3 DEF FailCeremony
  <2>2. sessionKey' \in {<<>>} \cup SomeKey
    BY <2>1 DEF CallsInv, TypesInv
  <2>3. QED
    BY <1>1, <1>2, <1>3, <2>1, <2>2, IdleType, CeremonyEndsInv
<1>4. CASE job # Ceremony
  <2>1. Becomes(job, Idle) /\ UNCHANGED managerVars
    BY <1>1, <1>4
  <2>2. headers' \in [Groups -> {<<>>} \cup SomeAuth]
    BY <1>2 DEF CallsInv, TypesInv
  <2>3. QED
    BY <1>1, <1>2, <1>4, <2>1, <2>2, IdleType, SignedInv
<1>5. QED
  BY <1>3, <1>4

LEMMA StutterCalls ==
  ASSUME CallsInv, UNCHANGED vars
  PROVE  CallsInv'
<1>1. UNCHANGED <<now, chain, prompts, sessionKey, refresh, created, headers,
                  disconnected, caller>>
  BY DEF vars, walletVars, managerVars, transportVars
<1>2. QED
  BY <1>1 DEF CallsInv, TypesInv, QueueInv, RefreshInv, DisconnectedInv,
              KeysInv, InTime, ExpiresAt

LEMMA NextCalls ==
  ASSUME CallsInv, [Next]_vars
  PROVE  CallsInv'
<1>1. CASE CallNext
  BY <1>1, GetSessionKeyInv, HeaderCallInv, BodyCallInv, AnswerInv DEF CallNext
<1>2. QED
  BY <1>1, CreateKeyInv, CreateKeyFailsInv, ShowPromptInv, ApproveInv,
     RejectInv, DisconnectInv, TickInv, StutterCalls DEF Next

-----------------------------------------------------------------------------

(* The inductive invariant of the calls, their keys and their queue. *)
THEOREM CallsInvariant == Spec => []CallsInv
<1>1. Init => CallsInv
  BY InitCalls
<1>2. CallsInv /\ [Next]_vars => CallsInv'
  BY NextCalls
<1>3. QED
  BY <1>1, <1>2, PTL DEF Spec

LEMMA CallsTyped ==
  ASSUME CallsInv
  PROVE  TypeOK
<1> USE DEF CallsInv
<1>1. prompts \subseteq Range(chain)
  <2>1. chain # <<>> => Head(chain) \in Range(chain)
    BY TailOfQueue DEF TypesInv, QueueInv
  <2>2. QED
    BY <2>1 DEF QueueInv
<1>2. Cardinality(prompts) <= 1
  <2>1. prompts \subseteq {Head(chain)}
    BY DEF QueueInv
  <2>2. /\ IsFiniteSet({Head(chain)}) /\ Cardinality({Head(chain)}) = 1
    BY FS_Singleton
  <2>3. Cardinality(prompts) <= Cardinality({Head(chain)})
    BY <2>1, <2>2, FS_Subset
  <2>4. QED
    BY <2>2, <2>3
<1>3. /\ sessionKey = <<>> \/ sessionKey[1] \in Keys
      /\ \A g \in Groups : headers[g] = <<>> \/ headers[g][1] \in Auths
  BY DEF TypesInv, SomeKey, SomeAuth
<1>4. (refresh = "signing") = (Ceremony \in Range(chain))
  BY DEF QueueInv
<1>5. (refresh # "none") = (Waiting("key") # {})
  BY DEF RefreshInv, Waiting
<1>6. Waiting("headers") \cup Waiting("body") = Range(chain) \ {Ceremony}
  <2>1. Range(chain) \subseteq Jobs
    BY InRange DEF TypesInv
  <2>2. QED
    BY <2>1, CallsAssumption DEF QueueInv, Waiting, Jobs
<1>7. disconnected => Waiting("request") = {}
  BY DEF DisconnectedInv, Waiting
<1>8. QED
  BY <1>1, <1>2, <1>3, <1>4, <1>5, <1>6, <1>7 DEF TypesInv, QueueInv, TypeOK

(* One signature in flight, whatever asks for it; nobody waits for a key   *)
(* that is not being made; a disconnected transport sends nothing.         *)
THEOREM CallsTypesCorrect == Spec => []TypeOK
<1>1. CallsInv => TypeOK
  BY CallsTyped
<1>2. QED
  BY <1>1, CallsInvariant, PTL

(* A key of getSessionKey does not expire under a request that is shorter  *)
(* than the refresh buffer, for every ttl and buffer.                      *)
THEOREM KeysDoOutliveRequests == Spec => []KeysOutliveRequests
<1>1. ASSUME CallsInv
      PROVE  KeysOutliveRequests
  <2> SUFFICES ASSUME NEW c \in Callers, caller[c].at = "seal",
                      now - caller[c].stamp <= Buffer
               PROVE  \/ now < ExpiresAt(caller[c].key[1])
                      \/ caller[c].key[1].certified + Buffer
                             >= ExpiresAt(caller[c].key[1])
    BY DEF KeysOutliveRequests, Waiting
  <2>1. InTime(caller[c])
    BY <1>1 DEF CallsInv, KeysInv
  <2>2. now \in Nat /\ caller[c].stamp \in Nat
    BY <1>1 DEF CallsInv, TypesInv, CallType, Times
  <2>3. caller[c].key[1].created \in Nat
    BY <2>1 DEF InTime, SomeKey, Keys, Times
  <2>4. QED
    BY <2>1, <2>2, <2>3, CallsAssumption DEF InTime, ExpiresAt
<1>2. QED
  BY <1>1, CallsInvariant, PTL

(* Only the cache lets an idle call send a request at once. *)
LEMMA CachedHeaders ==
  ASSUME CallsInv, [Next]_vars, NEW c \in Callers,
         caller[c].at = "idle", caller'[c].at = "request"
  PROVE  \E g \in Groups : /\ IsCached(g) /\ caller'[c].group = g
<1> USE DEF CallsInv
<1>1. ASSUME NEW d \in Callers, NEW g \in Groups, HeaderCall(d, g)
      PROVE  \E h \in Groups : IsCached(h) /\ caller'[c].group = h
  <2>1. CASE IsCached(g)
    <3>1. Becomes(d, Request(g, headers[g][1].stamp))
      BY <1>1, <2>1 DEF HeaderCall
    <3>2. headers[g][1].stamp \in Times
      BY <2>1 DEF IsCached, TypesInv, SomeAuth, Auths
    <3>3. c = d /\ caller'[c] = Request(g, headers[g][1].stamp)
      BY <3>1 DEF Becomes, TypesInv
    <3>4. caller'[c].group = g
      BY <3>2, <3>3, RequestTypes
    <3>5. QED
      BY <2>1, <3>4
  <2>2. CASE ~IsCached(g)
    <3>1. Becomes(d, Call("headers", g, now))
      BY <1>1, <2>2 DEF HeaderCall, SignHeaders
    <3>2. QED
      BY <3>1 DEF Becomes, TypesInv, Call
  <2>3. QED
    BY <2>1, <2>2
<1>2. ASSUME NEW d \in Callers, GetSessionKey(d)
      PROVE  FALSE
  <2>1. \/ sessionKey # <<>> /\ Becomes(d, SealCall(sessionKey))
        \/ Becomes(d, Call("key", NoGroup, now))
    BY <1>2 DEF GetSessionKey
  <2>2. CASE sessionKey # <<>> /\ Becomes(d, SealCall(sessionKey))
    BY <2>2 DEF Becomes, TypesInv, SealCall, Call
  <2>3. CASE Becomes(d, Call("key", NoGroup, now))
    BY <2>3 DEF Becomes, TypesInv, Call
  <2>4. QED
    BY <2>1, <2>2, <2>3
<1>3. ASSUME NEW d \in Callers, BodyCall(d)
      PROVE  FALSE
  BY <1>3 DEF BodyCall, Becomes, TypesInv, Call
<1>4. ASSUME NEW d \in Callers, AnswerSeal(d) \/ AnswerRequest(d)
      PROVE  FALSE
  BY <1>4, IdleType DEF AnswerSeal, AnswerRequest, Becomes, TypesInv
<1>5. ASSUME CreateKeyFails
      PROVE  FALSE
  BY <1>5, IdleType DEF CreateKeyFails, FailCeremony, Resolved
<1>6. ASSUME Approve
      PROVE  FALSE
  <2>1. PICK job \in prompts :
            /\ Settle(job)
            /\ IF job = Ceremony
               THEN EndCeremony
               ELSE EndHeaders(job) \/ EndBody(job)
    BY <1>6 DEF Approve
  <2>2. CASE job = Ceremony
    BY <2>1, <2>2 DEF EndCeremony, Resolved, SealCall, Call
  <2>3. CASE job # Ceremony
    <3>1. PICK call : Becomes(job, call)
      BY <2>1, <2>3 DEF EndHeaders, EndBody
    <3>2. caller[job].at \in {"headers", "body"}
      BY <2>1, <2>3 DEF EndHeaders, EndBody
    <3>3. QED
      BY <3>1, <3>2 DEF Becomes, TypesInv
  <2>4. QED
    BY <2>2, <2>3
<1>7. ASSUME Reject
      PROVE  FALSE
  BY <1>7, IdleType DEF Reject, FailCeremony, Resolved, Becomes, TypesInv
<1>8. ASSUME Disconnect
      PROVE  FALSE
  BY <1>8 DEF Disconnect
<1>9. CASE CallNext
  BY <1>1, <1>2, <1>3, <1>4, <1>9 DEF CallNext
<1>10. CASE CreateKey \/ ShowPrompt \/ Tick \/ UNCHANGED vars
  BY <1>10 DEF CreateKey, ShowPrompt, Tick, vars
<1>11. QED
  BY <1>5, <1>6, <1>7, <1>8, <1>9, <1>10 DEF Next

(* Headers that #cachedHeaderAuth reuses are young enough for the relayer, *)
(* for every time to live and headroom.                                    *)
THEOREM CachedHeadersAccepted == Spec => HeadersAccepted
<1>1. ASSUME CallsInv, [Next]_vars, NEW c \in Callers,
             caller'[c].at = "request", caller[c].at = "idle"
      PROVE  LET auth == headers[caller'[c].group][1]
             IN  \/ now - auth.stamp < ServerTtl
                 \/ auth.createdAt - auth.stamp > Headroom
  <2>1. PICK g \in Groups : IsCached(g) /\ caller'[c].group = g
    BY <1>1, CachedHeaders
  <2>2. headers[g][1] \in Auths
    BY <1>1, <2>1 DEF IsCached, CallsInv, TypesInv, SomeAuth
  <2> DEFINE a == headers[g][1]
  <2>3. /\ a.stamp \in Nat /\ a.createdAt \in Nat /\ now \in Nat
        /\ now - a.createdAt < ServerTtl - Headroom
    BY <1>1, <2>1, <2>2 DEF IsCached, Auths, Times, CallsInv, TypesInv
  <2> HIDE DEF a
  <2>4. now - a.stamp < ServerTtl \/ a.createdAt - a.stamp > Headroom
    BY <2>3, CallsAssumption
  <2>5. QED
    BY <2>1, <2>4 DEF a
<1>2. CallsInv /\ [Next]_vars =>
          [\A c \in Callers :
              (caller'[c].at = "request" /\ caller[c].at = "idle") =>
                  LET auth == headers[caller'[c].group][1]
                  IN  \/ now - auth.stamp < ServerTtl
                      \/ auth.createdAt - auth.stamp > Headroom]_vars
  BY <1>1
<1>3. QED
  BY <1>2, CallsInvariant, PTL DEF Spec, HeadersAccepted
=============================================================================
