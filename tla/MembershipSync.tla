---------------------------- MODULE MembershipSync ----------------------------
(***************************************************************************)
(* The relayer's permission cache: MembershipSyncService of                *)
(* relayer/src/services/membership_sync.rs, which follows the Groups       *)
(* events of the Sui checkpoint stream, and the InMemoryMembershipStore of *)
(* relayer/src/auth/membership.rs, which the auth middleware reads.        *)
(*                                                                         *)
(* The chain and the fullnode are outside: the chain appends events and    *)
(* seals them into checkpoints, and a subscription starts wherever the     *)
(* fullnode that answers it is, since the request names no start cursor.   *)
(* A response may come without its cursor or without its checkpoint, and   *)
(* an event may not parse; the service goes on, and what it then does not  *)
(* know is what the history variable missed is about.                      *)
(* A (group, address) pair is one member here: the store keeps a map of    *)
(* maps and treats every pair on its own.                                  *)
(***************************************************************************)
EXTENDS Integers, Sequences

CONSTANTS
    Members,           \* (group, address) pairs
    Permissions,       \* MessagingPermission: the ones the relayer knows
    OtherPermissions,  \* permissions of the Groups SDK it does not know
    MaxEvents,         \* bound: events on the chain
    MaxCheckpoints,    \* bound: checkpoints sealed
    MaxRestarts        \* bound: restarts of the relayer

ASSUME MembershipAssumption ==
    /\ Permissions \cap OtherPermissions = {}
    /\ MaxEvents \in Nat
    /\ MaxCheckpoints \in Nat
    /\ MaxRestarts \in Nat

VARIABLES
    ledger,       \* every event, with the members on chain after it
    sealed,       \* checkpoint k ends with event sealed[k]
    members,      \* the cache: known permissions, by member
    last_cursor,  \* the cursor of the last response processed, or NoCursor
    stream,       \* the next checkpoint of the stream (0: not connected)
    processing,   \* the checkpoint being processed (0: none)
    cursor,       \* the cursor it came with
    applied,      \* the last event applied or dropped while processing
    missed,       \* history: members with an event that was not applied since
                  \* they were last added or removed
    restarts      \* restarts so far

chainVars == <<ledger, sealed>>
serviceVars == <<members, last_cursor, stream, processing, cursor, applied>>
vars == <<chainVars, serviceVars, missed, restarts>>

-----------------------------------------------------------------------------

All == Permissions \cup OtherPermissions

Event ==
    [kind: {"MemberAdded", "MemberRemoved"}, member: Members]
    \cup [kind: {"PermissionsGranted", "PermissionsRevoked"},
          member: Members, permissions: SUBSET All]

Nobody == [m \in {} |-> {}]

(* The members on chain after the first i events. *)
OnChain(i) == IF i = 0 THEN Nobody ELSE ledger[i].members

Current == OnChain(Len(ledger))

With(map, m, perms) ==
    [x \in DOMAIN map \cup {m} |-> IF x = m THEN perms ELSE map[x]]

Without(map, m) == [x \in DOMAIN map \ {m} |-> map[x]]

-----------------------------------------------------------------------------
(* The chain *)

Emit(event, after) ==
    /\ Len(ledger) < MaxEvents
    /\ ledger' = Append(ledger, [event |-> event, members |-> after])
    /\ UNCHANGED <<sealed, serviceVars, missed, restarts>>

Add(m) ==
    /\ m \notin DOMAIN Current
    /\ Emit([kind |-> "MemberAdded", member |-> m], With(Current, m, {}))

Remove(m) ==
    /\ m \in DOMAIN Current
    /\ Emit([kind |-> "MemberRemoved", member |-> m], Without(Current, m))

Grant(m, perms) ==
    /\ m \in DOMAIN Current
    /\ Emit([kind |-> "PermissionsGranted", member |-> m,
             permissions |-> perms],
            With(Current, m, Current[m] \cup perms))

Revoke(m, perms) ==
    /\ m \in DOMAIN Current
    /\ Emit([kind |-> "PermissionsRevoked", member |-> m,
             permissions |-> perms],
            With(Current, m, Current[m] \ perms))

Seal ==
    /\ Len(sealed) < MaxCheckpoints
    /\ sealed' = Append(sealed, Len(ledger))
    /\ UNCHANGED <<ledger, serviceVars, missed, restarts>>

-----------------------------------------------------------------------------
(* The service *)

NoCursor == -1

(* The event up to which a cursor says the chain has been followed. *)
EndOf(c) == IF c < 1 THEN 0 ELSE sealed[c]

FirstEvent(k) == EndOf(k - 1)

(* Those with an event after event i, up to event j. *)
Named(i, j) == {ledger[k].event.member : k \in (i + 1)..j}

(* run_subscription connects. *)
Connect ==
    /\ stream = 0
    /\ stream' \in 1..(Len(sealed) + 1)
    /\ UNCHANGED <<chainVars, members, last_cursor, processing, cursor, applied,
                   missed, restarts>>

(* The stream ends or fails.  A checkpoint is processed without an await,  *)
(* so never in the middle of one.                                          *)
Disconnect ==
    /\ stream # 0
    /\ processing = 0
    /\ stream' = 0
    /\ UNCHANGED <<chainVars, members, last_cursor, processing, cursor, applied,
                   missed, restarts>>

(* The stream delivers a response.  Its cursor is the checkpoint's number, *)
(* or is missing and read as 0.                                            *)
Deliver(c) ==
    /\ processing = 0
    /\ stream \in 1..Len(sealed)
    /\ c \in {stream, 0}
    /\ stream' = stream + 1

(* One that is not after last_cursor is skipped. *)
SkipCheckpoint(c) ==
    /\ Deliver(c)
    /\ c <= last_cursor
    /\ UNCHANGED <<chainVars, members, last_cursor, processing, cursor, applied,
                   missed, restarts>>

(* Without a checkpoint in it, it only moves last_cursor. *)
PassCheckpoint(c) ==
    /\ Deliver(c)
    /\ c > last_cursor
    /\ last_cursor' = c
    /\ missed' = missed \cup Named(EndOf(last_cursor), EndOf(c))
    /\ UNCHANGED <<chainVars, members, processing, cursor, applied, restarts>>

(* Mutant: the cursor is not compared. *)
StartAnyCheckpoint(c) ==
    /\ Deliver(c)
    /\ processing' = stream
    /\ cursor' = c
    /\ applied' = FirstEvent(stream)
    /\ missed' = missed \cup Named(EndOf(last_cursor), FirstEvent(stream))
    /\ UNCHANGED <<chainVars, members, last_cursor, restarts>>

(* Its checkpoint is processed, whatever lies between the two. *)
StartCheckpoint(c) ==
    /\ Deliver(c)
    /\ c > last_cursor
    /\ processing' = stream
    /\ cursor' = c
    /\ applied' = FirstEvent(stream)
    /\ missed' = missed \cup Named(EndOf(last_cursor), FirstEvent(stream))
    /\ UNCHANGED <<chainVars, members, last_cursor, restarts>>

(* The event parser keeps the permissions it knows.  Mutant: all of them. *)
KnownAny(perms) == perms

Known(perms) == perms \cap Permissions

(* apply_event on the store.  add_member forgets what it knew of the       *)
(* member; grant_permissions and revoke_permissions refuse a member they   *)
(* do not know, and the event is lost.                                       *)
Apply(event) ==
    LET m == event.member IN
    CASE event.kind = "MemberAdded"   -> With(members, m, {})
      [] event.kind = "MemberRemoved" -> Without(members, m)
      [] event.kind = "PermissionsGranted" ->
             IF m \in DOMAIN members
             THEN With(members, m, members[m] \cup Known(event.permissions))
             ELSE members
      [] event.kind = "PermissionsRevoked" ->
             IF m \in DOMAIN members
             THEN With(members, m, members[m] \ Known(event.permissions))
             ELSE members

(* Adding and removing a member do not depend on what was known of it. *)
Renews(event) == event.kind \in {"MemberAdded", "MemberRemoved"}

(* process_checkpoint applies the events one by one, each under the lock:  *)
(* the middleware may read the cache between any two.                      *)
HasEvent ==
    /\ processing # 0
    /\ applied < sealed[processing]
    /\ applied' = applied + 1

ApplyEvent ==
    LET event == ledger[applied + 1].event
    IN  /\ HasEvent
        /\ members' = Apply(event)
        /\ missed' = missed \ {m \in {event.member} : Renews(event)}
        /\ UNCHANGED <<chainVars, last_cursor, stream, processing, cursor, restarts>>

(* parse_sui_event makes nothing of the event. *)
DropEvent ==
    /\ HasEvent
    /\ missed' = missed \cup {ledger[applied + 1].event.member}
    /\ UNCHANGED <<chainVars, members, last_cursor, stream, processing, cursor,
                   restarts>>

(* A checkpoint that came without its cursor counts as checkpoint 0. *)
EndCheckpoint ==
    /\ processing # 0
    /\ applied = sealed[processing]
    /\ last_cursor' = cursor
    /\ missed' = missed \cup Named(EndOf(cursor), sealed[processing])
    /\ processing' = 0
    /\ UNCHANGED <<chainVars, members, stream, cursor, applied, restarts>>

(* The relayer restarts with an empty cache and no cursor. *)
Restart ==
    /\ restarts < MaxRestarts
    /\ restarts' = restarts + 1
    /\ members' = Nobody
    /\ last_cursor' = NoCursor
    /\ stream' = 0
    /\ processing' = 0
    /\ cursor' = 0
    /\ applied' = 0
    /\ missed' = {}
    /\ UNCHANGED chainVars

-----------------------------------------------------------------------------

Init ==
    /\ ledger = <<>>
    /\ sealed = <<>>
    /\ members = Nobody
    /\ last_cursor = NoCursor
    /\ stream = 0
    /\ processing = 0
    /\ cursor = 0
    /\ applied = 0
    /\ missed = {}
    /\ restarts = 0

ChainNext ==
    \/ \E m \in Members : Add(m) \/ Remove(m)
    \/ \E m \in Members, perms \in SUBSET All \ {{}} :
           Grant(m, perms) \/ Revoke(m, perms)
    \/ Seal

ServiceNext ==
    \/ Connect
    \/ Disconnect
    \/ \E c \in 0..Len(sealed) :
           SkipCheckpoint(c) \/ PassCheckpoint(c) \/ StartCheckpoint(c)
    \/ ApplyEvent
    \/ DropEvent
    \/ EndCheckpoint
    \/ Restart

Next == ChainNext \/ ServiceNext

Spec == Init /\ [][Next]_vars

-----------------------------------------------------------------------------
(* Properties *)

(* The event the service has reached: while it processes a checkpoint the  *)
(* last one applied or dropped, else where its cursor says it is.          *)
Position == IF processing # 0 THEN applied ELSE EndOf(last_cursor)

(* What the cache knows of a member is what the chain said after event i.  *)
AgreesAt(m, i) ==
    /\ m \in DOMAIN members <=> m \in DOMAIN OnChain(i)
    /\ m \in DOMAIN members => members[m] = Known(OnChain(i)[m])

(* The chain, the cache and the service's cursors have their types. *)
Map(perms) == UNION {[S -> SUBSET perms] : S \in SUBSET Members}

TypeOK ==
    /\ ledger \in Seq([event: Event, members: Map(All)])
    /\ sealed \in Seq(0..Len(ledger))
    /\ members \in Map(Permissions)
    /\ last_cursor \in NoCursor..Len(sealed)
    /\ stream \in 0..(Len(sealed) + 1)
    /\ processing \in 0..Len(sealed)
    /\ cursor \in 0..Len(sealed)
    /\ applied \in 0..Len(ledger)
    /\ missed \subseteq Members
    /\ restarts \in 0..MaxRestarts

(* What the middleware reads of a member is exactly what the chain said at *)
(* the event the service has reached, also in the middle of a checkpoint,  *)
(* after reconnecting and when a fullnode that lags behind delivers        *)
(* checkpoints again; unless an event about that member was not applied:   *)
(* it lay in a checkpoint that was jumped over (while not connected, before*)
(* the start, or in a response without its checkpoint or cursor) or did    *)
(* not parse, and the member was neither added nor removed since.          *)
CacheFollowsChain == \A m \in Members \ missed : AgreesAt(m, Position)
=============================================================================
