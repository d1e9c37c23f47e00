------------------------------ MODULE SignedCalls ------------------------------
(***************************************************************************)
(* The calls of one client that need a signature of the user's wallet: the *)
(* Seal session key (session-key-manager.ts), the signed headers and       *)
(* bodies of relayer requests (http-transport.ts), and the queue through   *)
(* which the chat application signs (queued-signer.ts).  A signature takes *)
(* as long as the user takes to answer the prompt, while keys and headers  *)
(* age from the moment before it was asked for.                            *)
(*                                                                         *)
(* Session keys are of tier 1 (a signer), as the application configures    *)
(* them; those of tier 2 take the same steps if their callback asks the    *)
(* same wallet.  Times are in units of the clock; creation times and       *)
(* timestamps are read when the code reads them.                           *)
(***************************************************************************)
EXTENDS Integers, Sequences, FiniteSets, Functions

CONSTANTS
    Callers,     \* calls that may be under way at a time
    Groups,
    KeyTtl,      \* ttlMin
    Buffer,      \* refreshBufferMs
    ServerTtl,   \* REQUEST_TTL_SECONDS, headerAuthTtlMs
    Headroom,    \* what the header cache leaves of it
    MaxTime      \* bound: the clock stops

(* The signature of the session key's ceremony, in the queue. *)
Ceremony == "ceremony"

ASSUME CallsAssumption ==
    /\ Ceremony \notin Callers
    /\ KeyTtl \in Nat /\ Buffer \in Nat /\ Buffer < KeyTtl
    /\ ServerTtl \in Nat /\ Headroom \in Nat /\ Headroom <= ServerTtl
    /\ MaxTime \in Nat

VARIABLES
    now,
    chain,         \* #chain: signatures asked for and not settled
    prompts,       \* those of them that the wallet shows
    sessionKey,    \* #sessionKey (<<>>: null)
    refresh,       \* #refreshPromise: "none", "creating" or "signing"
    created,       \* creation time of the key that is being certified
    headers,       \* #headerAuthCache
    disconnected,  \* #disconnected
    caller         \* what each call waits for

managerVars == <<sessionKey, refresh, created>>
walletVars == <<chain, prompts>>
transportVars == <<headers, disconnected>>
vars == <<now, walletVars, managerVars, transportVars, caller>>

-----------------------------------------------------------------------------

NoGroup == "none"

Jobs == Callers \cup {Ceremony}

Times == 0..MaxTime

Keys == [created : Times, certified : Times]

Auths == [stamp : Times, createdAt : Times]

(* What a call waits for: a key, the wallet, or an answer of Seal (with a  *)
(* key) or the relayer (with an auth).                                     *)
Call(at, group, stamp) == [at |-> at, group |-> group, stamp |-> stamp, key |-> <<>>]

SealCall(key) == [Call("seal", NoGroup, now) EXCEPT !.key = key]

Idle == Call("idle", NoGroup, 0)

Becomes(c, call) == caller' = [caller EXCEPT ![c] = call]

Waiting(at) == {c \in Callers : caller[c].at = at}

-----------------------------------------------------------------------------
(* The queued signer.  Mutant: a signature asked for while another is      *)
(* pending is lost, as the wallets that refuse a second one lose it.       *)
EnqueueIfFree(job) == chain' = IF chain = <<>> THEN <<job>> ELSE chain

Enqueue(job) == chain' = Append(chain, job)

(* A job runs when the one before it has settled, one way or the other: it *)
(* is the head of the chain until it settles.                              *)
Runs(job) == job = Head(chain)

ShowPrompt ==
    /\ \E job \in Range(chain) \ prompts :
           Runs(job) /\ prompts' = prompts \cup {job}
    /\ UNCHANGED <<now, chain, managerVars, transportVars, caller>>

Settle(job) ==
    /\ job \in prompts
    /\ prompts' = prompts \ {job}
    /\ chain' = Tail(chain)

-----------------------------------------------------------------------------
(* The session key manager *)

ExpiresAt(key) == key.created + KeyTtl

(* #needsRefresh.  Mutant: only when the key has expired. *)
NeedsRefreshWhenExpired(key) == now >= ExpiresAt(key)

NeedsRefresh(key) == now >= ExpiresAt(key) \/ now + Buffer >= ExpiresAt(key)

(* getSessionKey: the key in hand, the creation under way, or a new one.   *)
(* With a key, the call goes on to Seal.                                   *)
GetSessionKey(c) ==
    /\ caller[c] = Idle
    /\ IF sessionKey # <<>> /\ ~NeedsRefresh(sessionKey[1])
       THEN Becomes(c, SealCall(sessionKey)) /\ UNCHANGED refresh
       ELSE /\ Becomes(c, Call("key", NoGroup, now))
            /\ refresh' = IF refresh = "none" THEN "creating" ELSE refresh
    /\ UNCHANGED <<now, walletVars, sessionKey, created, transportVars>>

(* SessionKey.create has asked the chain for the package: the key is       *)
(* created, and getCertificate asks for its signature.                     *)
CreateKey ==
    /\ refresh = "creating"
    /\ refresh' = "signing"
    /\ created' = now
    /\ Enqueue(Ceremony)
    /\ UNCHANGED <<now, prompts, sessionKey, transportVars, caller>>

(* Every caller that waits for the promise gets its result. *)
Resolved(call) ==
    caller' = [c \in Callers |-> IF caller[c].at = "key" THEN call ELSE caller[c]]

(* #create throws: the promise is forgotten. *)
FailCeremony ==
    /\ refresh' = "none"
    /\ Resolved(Idle)
    /\ UNCHANGED <<sessionKey, created>>

CreateKeyFails ==
    /\ refresh = "creating"
    /\ FailCeremony
    /\ UNCHANGED <<now, walletVars, transportVars>>

EndCeremony ==
    /\ sessionKey' = <<[created |-> created, certified |-> now]>>
    /\ refresh' = "none"
    /\ Resolved(SealCall(sessionKey'))
    /\ UNCHANGED created

(* Seal answers, or the request fails. *)
AnswerSeal(c) ==
    /\ caller[c].at = "seal"
    /\ Becomes(c, Idle)
    /\ UNCHANGED <<now, walletVars, managerVars, transportVars>>

-----------------------------------------------------------------------------
(* The transport *)

(* #request: a disconnected transport sends nothing.  Mutant: it does. *)
RequestAnyway(group, stamp) == Call("request", group, stamp)

Request(group, stamp) ==
    IF disconnected THEN Idle ELSE Call("request", group, stamp)

(* #cachedHeaderAuth.  Mutant: for as long as the relayer takes them. *)
IsCachedToTheEnd(g) == headers[g] # <<>> /\ now - headers[g][1].createdAt < ServerTtl

IsCached(g) ==
    headers[g] # <<>> /\ now - headers[g][1].createdAt < ServerTtl - Headroom

(* createHeaderAuth: the timestamp is read before the wallet is asked. *)
SignHeaders(c, g) == Becomes(c, Call("headers", g, now)) /\ Enqueue(c)

(* fetchMessages, fetchMessage, deleteMessage: the headers of a group are  *)
(* signed once.  Concurrent calls are not coalesced.                       *)
HeaderCall(c, g) ==
    /\ caller[c] = Idle
    /\ IF IsCached(g)
       THEN Becomes(c, Request(g, headers[g][1].stamp)) /\ UNCHANGED chain
       ELSE SignHeaders(c, g)
    /\ UNCHANGED <<now, prompts, managerVars, transportVars>>

(* sendMessage, updateMessage: every body is signed. *)
BodyCall(c) ==
    /\ caller[c] = Idle
    /\ Becomes(c, Call("body", NoGroup, now))
    /\ Enqueue(c)
    /\ UNCHANGED <<now, prompts, managerVars, transportVars>>

EndHeaders(c) ==
    LET g == caller[c].group
    IN  /\ caller[c].at = "headers"
        /\ headers' = [headers EXCEPT ![g] =
                          <<[stamp |-> caller[c].stamp, createdAt |-> now]>>]
        /\ Becomes(c, Request(g, caller[c].stamp))
        /\ UNCHANGED <<managerVars, disconnected>>

EndBody(c) ==
    /\ caller[c].at = "body"
    /\ Becomes(c, Request(NoGroup, caller[c].stamp))
    /\ UNCHANGED <<managerVars, transportVars>>

(* The relayer answers, with an error too, or the request times out. *)
AnswerRequest(c) ==
    /\ caller[c].at = "request"
    /\ Becomes(c, Idle)
    /\ UNCHANGED <<now, walletVars, managerVars, transportVars>>

(* disconnect aborts the requests; signatures asked for stay asked for. *)
Disconnect ==
    /\ ~disconnected
    /\ disconnected' = TRUE
    /\ headers' = [g \in Groups |-> <<>>]
    /\ caller' = [c \in Callers |->
                     IF caller[c].at = "request" THEN Idle ELSE caller[c]]
    /\ UNCHANGED <<now, walletVars, managerVars>>

-----------------------------------------------------------------------------
(* The wallet and the clock *)

Approve ==
    /\ \E job \in prompts :
           /\ Settle(job)
           /\ IF job = Ceremony
              THEN EndCeremony /\ UNCHANGED transportVars
              ELSE EndHeaders(job) \/ EndBody(job)
    /\ UNCHANGED now

(* The user refuses, or the wallet fails. *)
Reject ==
    /\ \E job \in prompts :
           /\ Settle(job)
           /\ IF job = Ceremony
              THEN FailCeremony
              ELSE Becomes(job, Idle) /\ UNCHANGED managerVars
    /\ UNCHANGED <<now, transportVars>>

Tick ==
    /\ now < MaxTime
    /\ now' = now + 1
    /\ UNCHANGED <<walletVars, managerVars, transportVars, caller>>

-----------------------------------------------------------------------------

Init ==
    /\ now = 0
    /\ chain = <<>>
    /\ prompts = {}
    /\ sessionKey = <<>>
    /\ refresh = "none"
    /\ created = 0
    /\ headers = [g \in Groups |-> <<>>]
    /\ disconnected = FALSE
    /\ caller = [c \in Callers |-> Idle]

CallNext ==
    \E c \in Callers :
        \/ GetSessionKey(c)
        \/ \E g \in Groups : HeaderCall(c, g)
        \/ BodyCall(c)
        \/ AnswerSeal(c)
        \/ AnswerRequest(c)

Next ==
    \/ CallNext
    \/ CreateKey
    \/ CreateKeyFails
    \/ ShowPrompt
    \/ Approve
    \/ Reject
    \/ Disconnect
    \/ Tick

Spec == Init /\ [][Next]_vars

(* The microtask queue runs the next job of the chain; the user answers a  *)
(* prompt; the chain, Seal and the relayer answer or the call times out.   *)
FairSpec ==
    /\ Spec
    /\ WF_vars(CreateKey \/ CreateKeyFails)
    /\ WF_vars(ShowPrompt)
    /\ WF_vars(Approve \/ Reject)
    /\ \A c \in Callers : WF_vars(AnswerSeal(c)) /\ WF_vars(AnswerRequest(c))

-----------------------------------------------------------------------------
(* Properties *)

(* Types; nobody waits for a promise that nothing settles any more; a      *)
(* disconnected transport has no request under way; "chaining here keeps   *)
(* at most one sign in flight" (queued-signer.ts), of session keys,        *)
(* headers and bodies together, and rejected ones too; and however many    *)
(* calls wait for a session key, the user signs one.                       *)
TypeOK ==
    /\ now \in Times /\ created \in Times
    /\ chain \in Seq(Jobs)
    /\ prompts \subseteq Range(chain)
    /\ sessionKey = <<>> \/ sessionKey[1] \in Keys
    /\ \A g \in Groups : headers[g] = <<>> \/ headers[g][1] \in Auths
    /\ (refresh = "signing") = (Ceremony \in Range(chain))
    /\ (refresh # "none") = (Waiting("key") # {})
    /\ Waiting("headers") \cup Waiting("body") = Range(chain) \ {Ceremony}
    /\ disconnected => Waiting("request") = {}
    /\ Cardinality(prompts) <= 1
    /\ IsInjective(chain)

(* The session key of a Seal request that takes no more than the refresh   *)
(* buffer does not expire under it, unless the key had come so late from   *)
(* the wallet that it was within the buffer already.                       *)
KeysOutliveRequests ==
    \A c \in Waiting("seal") :
        LET key == caller[c].key[1]
        IN  now - caller[c].stamp <= Buffer =>
                \/ now < ExpiresAt(key)
                \/ key.certified + Buffer >= ExpiresAt(key)

(* A request that leaves with cached headers is still taken by the relayer *)
(* at its next reading of the clock, unless the wallet took longer than    *)
(* the headroom to sign them.                                              *)
HeadersAccepted ==
    [][\A c \in Callers :
           (caller'[c].at = "request" /\ caller[c].at = "idle") =>
               LET auth == headers[caller'[c].group][1]
               IN  \/ now - auth.stamp < ServerTtl
                   \/ auth.createdAt - auth.stamp > Headroom]_vars

(* Every call ends, however the calls and their signatures interleave. *)
EveryCallEnds ==
    \A c \in Callers : caller[c].at # "idle" ~> caller[c].at = "idle"
=============================================================================
