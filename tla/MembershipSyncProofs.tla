------------------------- MODULE MembershipSyncProofs -------------------------
(***************************************************************************)
(* The permission cache follows the chain: types, and CacheFollowsChain,   *)
(* for any number of members, permissions, events and checkpoints.         *)
(*                                                                         *)
(* The invariant is inductive together with LedgerAgrees, that the chain   *)
(* changes a member only by an event about it: a member not named between  *)
(* two events is the same after both, so that the service may pass over    *)
(* what lies between them.  PlaceInStream says where in the stream it is.  *)
(***************************************************************************)
EXTENDS MembershipSync, TLAPS

(* What an event makes of the members on chain. *)
Outcome(map, event) ==
    LET m == event.member IN
    CASE event.kind = "MemberAdded"   -> With(map, m, {})
      [] event.kind = "MemberRemoved" -> Without(map, m)
      [] event.kind = "PermissionsGranted" ->
             With(map, m, map[m] \cup event.permissions)
      [] event.kind = "PermissionsRevoked" ->
             With(map, m, map[m] \ event.permissions)

AboutMember(map, event) ==
    event.kind \in {"PermissionsGranted", "PermissionsRevoked"} =>
        event.member \in DOMAIN map

LedgerFollows ==
    \A i \in 1..Len(ledger) :
        /\ ledger[i].members = Outcome(OnChain(i - 1), ledger[i].event)
        /\ AboutMember(OnChain(i - 1), ledger[i].event)

(* A member is the same after two events. *)
SameAt(m, i, j) ==
    /\ m \in DOMAIN OnChain(i) <=> m \in DOMAIN OnChain(j)
    /\ m \in DOMAIN OnChain(i) => OnChain(i)[m] = OnChain(j)[m]

LedgerAgrees ==
    \A j \in 0..Len(ledger) : \A i \in 0..j :
        \A m \in Members \ Named(i, j) : SameAt(m, i, j)

SealedAscend ==
    \A j, k \in 1..Len(sealed) : j <= k => sealed[j] <= sealed[k]

PlaceInStream ==
    processing # 0 =>
        /\ cursor \in {0, processing}
        /\ FirstEvent(processing) <= applied
        /\ applied <= sealed[processing]

Inv ==
    /\ TypeOK
    /\ LedgerFollows
    /\ LedgerAgrees
    /\ SealedAscend
    /\ PlaceInStream
    /\ CacheFollowsChain

-----------------------------------------------------------------------------
(* Maps *)

(* A map is a function from some members to permissions. *)
LEMMA MapFacts ==
    ASSUME NEW perms, NEW map
    PROVE  map \in Map(perms) <=>
               /\ DOMAIN map \subseteq Members
               /\ map = [m \in DOMAIN map |-> map[m]]
               /\ \A m \in DOMAIN map : map[m] \subseteq perms
<1>1. ASSUME map \in Map(perms)
      PROVE  /\ DOMAIN map \subseteq Members
             /\ map = [m \in DOMAIN map |-> map[m]]
             /\ \A m \in DOMAIN map : map[m] \subseteq perms
    <2>1. PICK S \in SUBSET Members : map \in [S -> SUBSET perms]
        BY <1>1 DEF Map
    <2> QED BY <2>1
<1>2. ASSUME /\ DOMAIN map \subseteq Members
             /\ map = [m \in DOMAIN map |-> map[m]]
             /\ \A m \in DOMAIN map : map[m] \subseteq perms
      PROVE  map \in Map(perms)
    <2>1. map \in [DOMAIN map -> SUBSET perms]
        BY <1>2
    <2> QED BY <1>2, <2>1 DEF Map
<1> QED BY <1>1, <1>2

LEMMA NobodyIsMap == ASSUME NEW perms PROVE Nobody \in Map(perms)
<1>1. Nobody \in [{} -> SUBSET perms]
    BY DEF Nobody
<1> QED BY <1>1 DEF Map

LEMMA WithIsMap ==
    ASSUME NEW perms, NEW map \in Map(perms), NEW m \in Members,
           NEW p \in SUBSET perms
    PROVE  With(map, m, p) \in Map(perms)
<1>1. PICK S \in SUBSET Members : map \in [S -> SUBSET perms]
    BY DEF Map
<1>2. With(map, m, p) \in [S \cup {m} -> SUBSET perms]
    BY <1>1 DEF With
<1>3. S \cup {m} \in SUBSET Members
    OBVIOUS
<1> QED BY <1>2, <1>3 DEF Map

LEMMA WithoutIsMap ==
    ASSUME NEW perms, NEW map \in Map(perms), NEW m
    PROVE  Without(map, m) \in Map(perms)
<1>1. PICK S \in SUBSET Members : map \in [S -> SUBSET perms]
    BY DEF Map
<1>2. Without(map, m) \in [S \ {m} -> SUBSET perms]
    BY <1>1 DEF Without
<1>3. S \ {m} \in SUBSET Members
    OBVIOUS
<1> QED BY <1>2, <1>3 DEF Map

(* Applying an event gives what is known of a member after it, if what was *)
(* known before was right or does not matter, and leaves the others alone. *)
LEMMA ApplyFollows ==
    ASSUME NEW i \in Nat, NEW event \in Event, NEW m \in Members,
           OnChain(i + 1) = Outcome(OnChain(i), event),
           AboutMember(OnChain(i), event),
           AgreesAt(m, i) \/ (m = event.member /\ Renews(event))
    PROVE  /\ m \in DOMAIN Apply(event) <=> m \in DOMAIN OnChain(i + 1)
           /\ m \in DOMAIN Apply(event) => Apply(event)[m] = Known(OnChain(i + 1)[m])
<1> DEFINE before == OnChain(i)
           after == Outcome(before, event)
<1>1. OnChain(i + 1) = after
    OBVIOUS
<1>2. event.kind \in {"MemberAdded", "MemberRemoved", "PermissionsGranted",
                      "PermissionsRevoked"}
    BY DEF Event
<1>3. AgreesAt(m, i) =>
          /\ m \in DOMAIN members <=> m \in DOMAIN before
          /\ m \in DOMAIN members => members[m] = Known(before[m])
    BY DEF AgreesAt
<1>4. SUFFICES /\ m \in DOMAIN Apply(event) <=> m \in DOMAIN after
               /\ m \in DOMAIN Apply(event) => Apply(event)[m] = Known(after[m])
    BY <1>1
<1> HIDE DEF before
<1>5. CASE event.kind = "MemberAdded"
    <2>1. Apply(event) = With(members, event.member, {})
        BY <1>5 DEF Apply
    <2>2. after = With(before, event.member, {})
        BY <1>5 DEF Outcome
    <2>3. CASE m = event.member
        BY <2>1, <2>2, <2>3 DEF With, Known
    <2>4. CASE m # event.member
        BY <1>3, <2>1, <2>2, <2>4 DEF With
    <2> QED BY <2>3, <2>4
<1>6. CASE event.kind = "MemberRemoved"
    <2>1. Apply(event) = Without(members, event.member)
        BY <1>6 DEF Apply
    <2>2. after = Without(before, event.member)
        BY <1>6 DEF Outcome
    <2> QED BY <1>3, <2>1, <2>2 DEF Without
<1>7. CASE event.kind = "PermissionsGranted"
    <2>1. Apply(event) = IF event.member \in DOMAIN members
                         THEN With(members, event.member,
                                   members[event.member] \cup Known(event.permissions))
                         ELSE members
        BY <1>7 DEF Apply
    <2>2. after = With(before, event.member,
                       before[event.member] \cup event.permissions)
        BY <1>7 DEF Outcome
    <2>3. event.member \in DOMAIN before /\ AgreesAt(m, i)
        BY <1>7 DEF AboutMember, Renews, before
    <2>4. CASE m = event.member
        <3>1. m \in DOMAIN members /\ members[m] = Known(before[m])
            BY <1>3, <2>3, <2>4
        <3>2. Known(before[m] \cup event.permissions)
                  = members[m] \cup Known(event.permissions)
            BY <3>1 DEF Known
        <3> QED BY <2>1, <2>2, <2>4, <3>1, <3>2 DEF With
    <2>5. CASE m # event.member
        BY <1>3, <2>1, <2>2, <2>3, <2>5 DEF With
    <2> QED BY <2>4, <2>5
<1>8. CASE event.kind = "PermissionsRevoked"
    <2>1. Apply(event) = IF event.member \in DOMAIN members
                         THEN With(members, event.member,
                                   members[event.member] \ Known(event.permissions))
                         ELSE members
        BY <1>8 DEF Apply
    <2>2. after = With(before, event.member,
                       before[event.member] \ event.permissions)
        BY <1>8 DEF Outcome
    <2>3. event.member \in DOMAIN before /\ AgreesAt(m, i)
        BY <1>8 DEF AboutMember, Renews, before
    <2>4. CASE m = event.member
        <3>1. m \in DOMAIN members /\ members[m] = Known(before[m])
            BY <1>3, <2>3, <2>4
        <3>2. Known(before[m] \ event.permissions)
                  = members[m] \ Known(event.permissions)
            BY <3>1 DEF Known
        <3> QED BY <2>1, <2>2, <2>4, <3>1, <3>2 DEF With
    <2>5. CASE m # event.member
        BY <1>3, <2>1, <2>2, <2>3, <2>5 DEF With
    <2> QED BY <2>4, <2>5
<1> QED BY <1>2, <1>5, <1>6, <1>7, <1>8

(* An event keeps the cache a map of permissions the relayer knows. *)
LEMMA ApplyIsMap ==
    ASSUME members \in Map(Permissions), NEW event \in Event
    PROVE  Apply(event) \in Map(Permissions)
<1> DEFINE m == event.member
<1>1. m \in Members
    BY DEF Event
<1>2. \A x \in DOMAIN members : members[x] \subseteq Permissions
    BY MapFacts
<1>3. \A p : Known(p) \subseteq Permissions
    BY DEF Known
<1>4. event.kind \in {"MemberAdded", "MemberRemoved", "PermissionsGranted",
                      "PermissionsRevoked"}
    BY DEF Event
<1>5. CASE event.kind = "MemberAdded"
    BY <1>5, <1>1, WithIsMap DEF Apply
<1>6. CASE event.kind = "MemberRemoved"
    BY <1>6, WithoutIsMap DEF Apply
<1>7. CASE event.kind = "PermissionsGranted" /\ m \in DOMAIN members
    <2>1. Apply(event) = With(members, m, members[m] \cup Known(event.permissions))
        BY <1>7 DEF Apply
    <2>2. members[m] \cup Known(event.permissions) \in SUBSET Permissions
        BY <1>2, <1>3, <1>7
    <2> QED BY <2>1, <2>2, <1>1, WithIsMap
<1>8. CASE event.kind = "PermissionsRevoked" /\ m \in DOMAIN members
    <2>1. Apply(event) = With(members, m, members[m] \ Known(event.permissions))
        BY <1>8 DEF Apply
    <2>2. members[m] \ Known(event.permissions) \in SUBSET Permissions
        BY <1>2, <1>8
    <2> QED BY <2>1, <2>2, <1>1, WithIsMap
<1>9. CASE /\ event.kind \in {"PermissionsGranted", "PermissionsRevoked"}
           /\ m \notin DOMAIN members
    <2>1. Apply(event) = members
        BY <1>9 DEF Apply
    <2> QED BY <2>1
<1> QED BY <1>4, <1>5, <1>6, <1>7, <1>8, <1>9

-----------------------------------------------------------------------------
(* The chain *)

LEMMA ElementOfSeq ==
    ASSUME NEW S, NEW s \in Seq(S), NEW i \in 1..Len(s)
    PROVE  s[i] \in S
OBVIOUS

LEMMA LedgerEntry ==
    ASSUME TypeOK, NEW i \in 1..Len(ledger)
    PROVE  ledger[i] \in [event: Event, members: Map(All)]
<1>1. ledger \in Seq([event: Event, members: Map(All)])
    BY DEF TypeOK
<1> QED BY <1>1, ElementOfSeq

LEMMA NamedAreMembers ==
    ASSUME TypeOK, NEW i \in 0..Len(ledger), NEW j \in 0..Len(ledger)
    PROVE  Named(i, j) \subseteq Members
<1> SUFFICES ASSUME NEW k \in (i + 1)..j
             PROVE  ledger[k].event.member \in Members
    BY DEF Named
<1>1. k \in 1..Len(ledger)
    BY DEF TypeOK
<1>2. ledger[k].event \in Event
    BY <1>1, LedgerEntry
<1> QED BY <1>2 DEF Event

LEMMA LedgerStays ==
    ASSUME LedgerFollows, LedgerAgrees, ledger' = ledger
    PROVE  LedgerFollows' /\ LedgerAgrees'
<1>1. LedgerFollows'
    <2> SUFFICES ASSUME NEW i \in 1..Len(ledger')
                 PROVE  /\ ledger'[i].members = Outcome(OnChain(i - 1)', ledger'[i].event)
                        /\ AboutMember(OnChain(i - 1)', ledger'[i].event)
        BY DEF LedgerFollows, Outcome, AboutMember, With, Without
    <2>1. OnChain(i - 1)' = OnChain(i - 1)
        BY DEF OnChain
    <2> QED BY <2>1 DEF LedgerFollows
<1>2. LedgerAgrees'
    BY DEF LedgerAgrees, SameAt, Named, OnChain
<1> QED BY <1>1, <1>2

LEMMA OnChainIsMap ==
    ASSUME TypeOK, NEW i \in 0..Len(ledger)
    PROVE  OnChain(i) \in Map(All)
<1>1. CASE i = 0
    BY <1>1, NobodyIsMap DEF OnChain
<1>2. CASE i # 0
    <2>1. i \in 1..Len(ledger)
        BY <1>2
    <2>2. ledger[i] \in [event: Event, members: Map(All)]
        BY <2>1, LedgerEntry
    <2>3. ledger[i].members \in Map(All)
        BY <2>2
    <2> QED BY <2>3, <1>2 DEF OnChain
<1> QED BY <1>1, <1>2

(* An event changes nobody but the member it is about. *)
LEMMA OutcomeElsewhere ==
    ASSUME NEW map, NEW event \in Event, NEW m, m # event.member,
           AboutMember(map, event)
    PROVE  /\ m \in DOMAIN map <=> m \in DOMAIN Outcome(map, event)
           /\ m \in DOMAIN map => map[m] = Outcome(map, event)[m]
<1>1. event.kind \in {"MemberAdded", "MemberRemoved", "PermissionsGranted",
                      "PermissionsRevoked"}
    BY DEF Event
<1>2. CASE event.kind = "MemberAdded"
    BY <1>2 DEF Outcome, With
<1>3. CASE event.kind = "MemberRemoved"
    BY <1>3 DEF Outcome, Without
<1>4. CASE event.kind = "PermissionsGranted"
    BY <1>4 DEF Outcome, With
<1>5. CASE event.kind = "PermissionsRevoked"
    BY <1>5 DEF Outcome, With
<1> QED BY <1>1, <1>2, <1>3, <1>4, <1>5

(* Where the chain says the same of a member, the cache agrees with both.  *)
LEMMA SameAgrees ==
    ASSUME LedgerAgrees, NEW i \in 0..Len(ledger), NEW j \in 0..Len(ledger),
           i <= j, NEW m \in Members \ Named(i, j)
    PROVE  AgreesAt(m, i) <=> AgreesAt(m, j)
<1>1. i \in 0..j
    OBVIOUS
<1>2. SameAt(m, i, j)
    BY <1>1 DEF LedgerAgrees
<1> QED BY <1>2 DEF SameAt, AgreesAt

LEMMA PositionOnLedger ==
    ASSUME TypeOK
    PROVE  /\ Position \in 0..Len(ledger)
           /\ \A c \in NoCursor..Len(sealed) : EndOf(c) \in 0..Len(ledger)
<1>1. Len(ledger) \in Nat /\ Len(sealed) \in Nat
    BY DEF TypeOK
<1>2. \A k \in 1..Len(sealed) : sealed[k] \in 0..Len(ledger)
    BY DEF TypeOK
<1>3. \A c \in NoCursor..Len(sealed) : EndOf(c) \in 0..Len(ledger)
    BY <1>1, <1>2 DEF EndOf, NoCursor
<1> QED BY <1>1, <1>3 DEF Position, TypeOK

(* Everything but the ledger stays, and the new event has its outcome. *)
LEMMA EmitKeepsInv ==
    ASSUME Inv, NEW event \in Event,
           Emit(event, Outcome(Current, event)),
           Outcome(Current, event) \in Map(All), AboutMember(Current, event)
    PROVE  Inv'
<1> DEFINE after == Outcome(Current, event)
<1> USE DEF Inv
<1>1. ledger \in Seq([event: Event, members: Map(All)])
    BY DEF TypeOK
<1>2. ledger' = Append(ledger, [event |-> event, members |-> after])
    BY DEF Emit
<1>3. [event |-> event, members |-> after] \in [event: Event, members: Map(All)]
    OBVIOUS
<1>4. ledger' \in Seq([event: Event, members: Map(All)])
    BY <1>1, <1>2, <1>3
<1>5. Len(ledger') = Len(ledger) + 1 /\ Len(ledger) \in Nat
    BY <1>1, <1>2
<1>6. \A i \in 1..Len(ledger) : ledger'[i] = ledger[i]
    BY <1>1, <1>2
<1>7. ledger'[Len(ledger) + 1] = [event |-> event, members |-> after]
    BY <1>1, <1>2
<1>8. \A i \in 0..Len(ledger) : OnChain(i)' = OnChain(i)
    BY <1>6 DEF OnChain
<1>9. UNCHANGED <<sealed, members, last_cursor, stream, processing, cursor,
                  applied, missed, restarts>>
    BY DEF Emit, serviceVars
<1>10. TypeOK'
    <2>1. sealed \in Seq(0..Len(ledger))
        BY DEF TypeOK
    <2>2. sealed' \in Seq(0..Len(ledger'))
        BY <2>1, <1>5, <1>9
    <2> QED BY <1>4, <1>5, <1>9, <2>2 DEF TypeOK
<1>11. LedgerFollows'
    <2> SUFFICES ASSUME NEW i \in 1..Len(ledger')
                 PROVE  /\ ledger'[i].members = Outcome(OnChain(i - 1)', ledger'[i].event)
                        /\ AboutMember(OnChain(i - 1)', ledger'[i].event)
        BY DEF LedgerFollows, Outcome, AboutMember, With, Without
    <2>1. CASE i \in 1..Len(ledger)
        <3>1. ledger'[i] = ledger[i] /\ OnChain(i - 1)' = OnChain(i - 1)
            BY <2>1, <1>5, <1>6, <1>8
        <3> QED BY <3>1, <2>1 DEF LedgerFollows
    <2>2. CASE i = Len(ledger) + 1
        <3>1. OnChain(i - 1)' = Current
            BY <2>2, <1>5, <1>8 DEF Current
        <3>2. ledger'[i].event = event /\ ledger'[i].members = after
            BY <2>2, <1>7
        <3> QED BY <3>1, <3>2
    <2> QED BY <2>1, <2>2, <1>5
<1>12. SealedAscend'
    BY <1>9 DEF SealedAscend
<1>13. PlaceInStream'
    BY <1>9 DEF PlaceInStream, FirstEvent, EndOf
<1>14. CacheFollowsChain'
    <2>1. Position' = Position
        BY <1>9 DEF Position, EndOf
    <2>2. Position \in 0..Len(ledger)
        BY PositionOnLedger
    <2>3. OnChain(Position)' = OnChain(Position)
        BY <2>1, <2>2, <1>8
    <2> QED BY <2>1, <2>3, <1>9 DEF CacheFollowsChain, AgreesAt
<1>15. LedgerAgrees'
    <2> SUFFICES ASSUME NEW j \in 0..Len(ledger'), NEW i \in 0..j,
                        NEW m \in Members \ Named(i, j)'
                 PROVE  SameAt(m, i, j)'
        BY DEF LedgerAgrees
    <2>1. CASE j \in 0..Len(ledger)
        <3>1. Named(i, j)' = Named(i, j)
            BY <2>1, <1>5, <1>6 DEF Named
        <3>2. OnChain(i)' = OnChain(i) /\ OnChain(j)' = OnChain(j)
            BY <2>1, <1>5, <1>8
        <3>3. SameAt(m, i, j)
            BY <2>1, <3>1 DEF LedgerAgrees
        <3> QED BY <3>2, <3>3 DEF SameAt
    <2>2. CASE j = Len(ledger) + 1 /\ i = j
        BY <2>2 DEF SameAt
    <2>3. CASE j = Len(ledger) + 1 /\ i \in 0..Len(ledger)
        <3>1. ledger'[Len(ledger) + 1].event = event
            BY <1>7
        <3>2. /\ m # event.member
              /\ m \in Members \ Named(i, Len(ledger))
            <4>1. Len(ledger) + 1 \in (i + 1)..j
                BY <2>3, <1>5
            <4>2. m # event.member
                BY <3>1, <4>1 DEF Named
            <4>3. \A k \in (i + 1)..Len(ledger) :
                      k \in (i + 1)..j /\ ledger'[k] = ledger[k]
                BY <2>3, <1>5, <1>6
            <4> QED BY <4>2, <4>3 DEF Named
        <3>3. SameAt(m, i, Len(ledger))
            BY <2>3, <3>2, <1>5 DEF LedgerAgrees
        <3>4. OnChain(j)' = after
            BY <2>3, <1>5, <1>7 DEF OnChain
        <3>5. OnChain(i)' = OnChain(i)
            BY <2>3, <1>8
        <3>6. /\ m \in DOMAIN Current <=> m \in DOMAIN after
              /\ m \in DOMAIN Current => Current[m] = after[m]
            BY <3>2, OutcomeElsewhere
        <3> HIDE DEF after
        <3> QED BY <3>3, <3>4, <3>5, <3>6 DEF SameAt, Current
    <2> QED BY <2>1, <2>2, <2>3, <1>5
<1> QED BY <1>10, <1>11, <1>12, <1>13, <1>14, <1>15

LEMMA ChainKeepsInv == ASSUME Inv, ChainNext PROVE Inv'
<1> USE DEF Inv
<1>1. Current \in Map(All)
    <2>1. Len(ledger) \in 0..Len(ledger)
        BY DEF TypeOK
    <2> QED BY <2>1, OnChainIsMap DEF Current
<1>2. \A x \in DOMAIN Current : Current[x] \subseteq All
    BY <1>1, MapFacts
<1>3. ASSUME NEW m \in Members, Add(m) PROVE Inv'
    <2> DEFINE e == [kind |-> "MemberAdded", member |-> m]
    <2>1. e \in Event
        BY DEF Event
    <2>2. Outcome(Current, e) = With(Current, m, {})
        BY DEF Outcome
    <2>3. With(Current, m, {}) \in Map(All)
        BY <1>1, WithIsMap
    <2>4. AboutMember(Current, e)
        BY DEF AboutMember
    <2>5. Emit(e, With(Current, m, {}))
        BY <1>3 DEF Add
    <2> HIDE DEF e
    <2> QED BY <2>1, <2>2, <2>3, <2>4, <2>5, EmitKeepsInv
<1>4. ASSUME NEW m \in Members, Remove(m) PROVE Inv'
    <2> DEFINE e == [kind |-> "MemberRemoved", member |-> m]
    <2>1. e \in Event
        BY DEF Event
    <2>2. Outcome(Current, e) = Without(Current, m)
        BY DEF Outcome
    <2>3. Without(Current, m) \in Map(All)
        BY <1>1, WithoutIsMap
    <2>4. AboutMember(Current, e)
        BY DEF AboutMember
    <2>5. Emit(e, Without(Current, m))
        BY <1>4 DEF Remove
    <2> HIDE DEF e
    <2> QED BY <2>1, <2>2, <2>3, <2>4, <2>5, EmitKeepsInv
<1>5. ASSUME NEW m \in Members, NEW perms \in SUBSET All, Grant(m, perms)
      PROVE  Inv'
    <2> DEFINE e == [kind |-> "PermissionsGranted", member |-> m,
                     permissions |-> perms]
    <2>1. e \in Event
        BY DEF Event
    <2>2. Outcome(Current, e) = With(Current, m, Current[m] \cup perms)
        BY DEF Outcome
    <2>3. m \in DOMAIN Current
        BY <1>5 DEF Grant
    <2>4. Current[m] \cup perms \in SUBSET All
        BY <1>2, <2>3
    <2>5. With(Current, m, Current[m] \cup perms) \in Map(All)
        BY <1>1, <2>4, WithIsMap
    <2>6. AboutMember(Current, e)
        BY <2>3 DEF AboutMember
    <2>7. Emit(e, With(Current, m, Current[m] \cup perms))
        BY <1>5 DEF Grant
    <2> HIDE DEF e
    <2> QED BY <2>1, <2>2, <2>5, <2>6, <2>7, EmitKeepsInv
<1>6. ASSUME NEW m \in Members, NEW perms \in SUBSET All, Revoke(m, perms)
      PROVE  Inv'
    <2> DEFINE e == [kind |-> "PermissionsRevoked", member |-> m,
                     permissions |-> perms]
    <2>1. e \in Event
        BY DEF Event
    <2>2. Outcome(Current, e) = With(Current, m, Current[m] \ perms)
        BY DEF Outcome
    <2>3. m \in DOMAIN Current
        BY <1>6 DEF Revoke
    <2>4. Current[m] \ perms \in SUBSET All
        BY <1>2, <2>3
    <2>5. With(Current, m, Current[m] \ perms) \in Map(All)
        BY <1>1, <2>4, WithIsMap
    <2>6. AboutMember(Current, e)
        BY <2>3 DEF AboutMember
    <2>7. Emit(e, With(Current, m, Current[m] \ perms))
        BY <1>6 DEF Revoke
    <2> HIDE DEF e
    <2> QED BY <2>1, <2>2, <2>5, <2>6, <2>7, EmitKeepsInv
<1>7. ASSUME Seal PROVE Inv'
    <2>1. sealed \in Seq(0..Len(ledger)) /\ Len(ledger) \in Nat
        BY DEF TypeOK
    <2>2. sealed' = Append(sealed, Len(ledger))
        BY <1>7 DEF Seal
    <2>3. UNCHANGED <<ledger, members, last_cursor, stream, processing, cursor,
                      applied, missed, restarts>>
        BY <1>7 DEF Seal, serviceVars
    <2>4. sealed' \in Seq(0..Len(ledger))
        BY <2>1, <2>2
    <2>5. Len(sealed') = Len(sealed) + 1 /\ Len(sealed) \in Nat
        BY <2>1, <2>2
    <2>6. \A k \in 1..Len(sealed) : sealed'[k] = sealed[k] /\ sealed[k] \in 0..Len(ledger)
        BY <2>1, <2>2
    <2>7. sealed'[Len(sealed) + 1] = Len(ledger)
        BY <2>1, <2>2
    <2>8. TypeOK'
        BY <2>3, <2>4, <2>5 DEF TypeOK
    <2>9. LedgerFollows' /\ LedgerAgrees'
        BY <2>3, LedgerStays
    <2>10. SealedAscend'
        <3> SUFFICES ASSUME NEW j \in 1..Len(sealed'), NEW k \in 1..Len(sealed'), j <= k
                     PROVE  sealed'[j] <= sealed'[k]
            BY DEF SealedAscend
        <3>1. CASE k \in 1..Len(sealed)
            BY <3>1, <2>5, <2>6 DEF SealedAscend
        <3>2. CASE k = Len(sealed) + 1 /\ j \in 1..Len(sealed)
            BY <3>2, <2>1, <2>6, <2>7
        <3>3. CASE k = Len(sealed) + 1 /\ j = k
            BY <3>3, <2>1, <2>7
        <3> QED BY <3>1, <3>2, <3>3, <2>5
    <2>11. PlaceInStream'
        <3>1. processing \in 0..Len(sealed)
            BY DEF TypeOK
        <3>2. processing # 0 => /\ sealed'[processing] = sealed[processing]
                                /\ FirstEvent(processing)' = FirstEvent(processing)
            BY <3>1, <2>5, <2>6, <2>3 DEF FirstEvent, EndOf
        <3> QED BY <3>2, <2>3 DEF PlaceInStream
    <2>12. CacheFollowsChain'
        <3>1. last_cursor \in NoCursor..Len(sealed)
            BY DEF TypeOK
        <3>2. Position' = Position
            BY <3>1, <2>3, <2>5, <2>6 DEF Position, EndOf, NoCursor
        <3>3. OnChain(Position)' = OnChain(Position)
            BY <3>2, <2>3 DEF OnChain
        <3> QED BY <3>2, <3>3, <2>3 DEF CacheFollowsChain, AgreesAt
    <2> QED BY <2>8, <2>9, <2>10, <2>11, <2>12
<1> QED BY <1>3, <1>4, <1>5, <1>6, <1>7 DEF ChainNext

-----------------------------------------------------------------------------
(* The service *)

(* The position moves forward over events of members that are recorded, or *)
(* back to the start of them.                                              *)
LEMMA JumpKeepsCache ==
    ASSUME Inv, UNCHANGED <<ledger, members>>,
           NEW i \in 0..Len(ledger), NEW j \in 0..Len(ledger), i <= j,
           Position \in {i, j}, Position' \in {i, j},
           missed' = missed \cup Named(i, j)
    PROVE  CacheFollowsChain'
<1> SUFFICES ASSUME NEW m \in Members \ missed'
             PROVE  AgreesAt(m, Position)'
    BY DEF CacheFollowsChain
<1>1. AgreesAt(m, Position) /\ m \notin Named(i, j)
    BY DEF Inv, CacheFollowsChain
<1>2. AgreesAt(m, i) <=> AgreesAt(m, j)
    BY <1>1, SameAgrees DEF Inv
<1>3. AgreesAt(m, Position')
    BY <1>1, <1>2
<1> QED BY <1>3 DEF AgreesAt, OnChain

LEMMA ServiceKeepsInv == ASSUME Inv, ServiceNext PROVE Inv'
<1> USE DEF Inv
<1>1. Len(sealed) \in Nat /\ Len(ledger) \in Nat
    BY DEF TypeOK
<1>2. \A k \in 1..Len(sealed) : sealed[k] \in 0..Len(ledger)
    BY DEF TypeOK
<1>3. Nobody \in Map(Permissions)
    BY NobodyIsMap
<1>4. ASSUME UNCHANGED chainVars
      PROVE  LedgerFollows' /\ LedgerAgrees' /\ SealedAscend'
    BY <1>4, LedgerStays DEF chainVars, SealedAscend
<1>5. ASSUME UNCHANGED chainVars, members' = members, Position' = Position,
             missed' = missed
      PROVE  CacheFollowsChain'
    BY <1>5 DEF CacheFollowsChain, AgreesAt, OnChain, chainVars
<1>6. CASE Connect
    <2>1. TypeOK' /\ PlaceInStream'
        BY <1>6, <1>1 DEF Connect, TypeOK, PlaceInStream, chainVars, FirstEvent, EndOf
    <2>2. CacheFollowsChain'
        BY <1>6, <1>5 DEF Connect, Position, EndOf, chainVars
    <2> QED BY <2>1, <2>2, <1>4, <1>6 DEF Connect
<1>7. CASE Disconnect
    <2>1. TypeOK' /\ PlaceInStream'
        BY <1>7, <1>1 DEF Disconnect, TypeOK, PlaceInStream, chainVars
    <2>2. CacheFollowsChain'
        BY <1>7, <1>5 DEF Disconnect, Position, EndOf, chainVars
    <2> QED BY <2>1, <2>2, <1>4, <1>7 DEF Disconnect
<1>8. ASSUME NEW c \in 0..Len(sealed), SkipCheckpoint(c) PROVE Inv'
    <2>1. TypeOK' /\ PlaceInStream'
        BY <1>8, <1>1 DEF SkipCheckpoint, Deliver, TypeOK, PlaceInStream, chainVars
    <2>2. CacheFollowsChain'
        BY <1>8, <1>5 DEF SkipCheckpoint, Position, EndOf, chainVars
    <2> QED BY <2>1, <2>2, <1>4, <1>8 DEF SkipCheckpoint
<1>9. ASSUME NEW c \in 0..Len(sealed), PassCheckpoint(c) PROVE Inv'
    <2>1. /\ processing = 0 /\ stream \in 1..Len(sealed) /\ c > last_cursor
          /\ stream' = stream + 1 /\ last_cursor' = c
          /\ missed' = missed \cup Named(EndOf(last_cursor), EndOf(c))
          /\ UNCHANGED <<ledger, sealed, members, processing, cursor, applied,
                         restarts>>
        BY <1>9 DEF PassCheckpoint, Deliver, chainVars
    <2>2. missed' \subseteq Members
        BY <2>1, NamedAreMembers, PositionOnLedger DEF TypeOK, NoCursor
    <2>3. TypeOK'
        BY <2>1, <2>2, <1>1 DEF TypeOK, NoCursor
    <2>4. PlaceInStream'
        BY <2>1 DEF PlaceInStream
    <2>5. CacheFollowsChain'
        <3>1. /\ EndOf(last_cursor) \in 0..Len(ledger) /\ EndOf(c) \in 0..Len(ledger)
            BY <1>1, PositionOnLedger DEF TypeOK, NoCursor
        <3>2. EndOf(last_cursor) <= EndOf(c)
            BY <2>1, <3>1, <1>1 DEF EndOf, SealedAscend, TypeOK, NoCursor
        <3>3. Position = EndOf(last_cursor) /\ Position' = EndOf(c)
            BY <2>1 DEF Position, EndOf
        <3> QED BY <2>1, <3>1, <3>2, <3>3, JumpKeepsCache
    <2> QED BY <2>1, <2>3, <2>4, <2>5, <1>4 DEF chainVars
<1>10. ASSUME NEW c \in 0..Len(sealed), StartCheckpoint(c) PROVE Inv'
    <2>1. /\ processing = 0 /\ stream \in 1..Len(sealed)
          /\ c > last_cursor /\ c \in {stream, 0}
          /\ processing' = stream /\ cursor' = c
          /\ applied' = FirstEvent(stream)
          /\ stream' = stream + 1
          /\ missed' = missed \cup Named(EndOf(last_cursor), FirstEvent(stream))
          /\ UNCHANGED <<ledger, sealed, members, last_cursor, restarts>>
        BY <1>10 DEF StartCheckpoint, Deliver, chainVars
    <2>2. /\ last_cursor \in NoCursor..Len(sealed)
          /\ stream - 1 \in 0..Len(sealed)
          /\ last_cursor <= stream - 1
        BY <2>1, <1>1 DEF TypeOK, NoCursor
    <2>3. /\ FirstEvent(stream) \in 0..Len(ledger)
          /\ EndOf(last_cursor) \in 0..Len(ledger)
        BY <2>2, PositionOnLedger DEF FirstEvent, NoCursor
    <2>4. FirstEvent(stream) <= sealed[stream]
        BY <2>1, <1>1, <1>2 DEF FirstEvent, EndOf, SealedAscend
    <2>5. EndOf(last_cursor) <= FirstEvent(stream)
        BY <2>2, <2>3, <1>1 DEF FirstEvent, EndOf, SealedAscend, NoCursor
    <2>6. missed' \subseteq Members
        BY <2>1, <2>3, NamedAreMembers DEF TypeOK
    <2>7. TypeOK'
        BY <2>1, <2>3, <2>6, <1>1 DEF TypeOK
    <2>8. PlaceInStream'
        BY <2>1, <2>3, <2>4 DEF PlaceInStream, FirstEvent, EndOf
    <2>9. CacheFollowsChain'
        <3>1. Position = EndOf(last_cursor) /\ Position' = FirstEvent(stream)
            BY <2>1 DEF Position
        <3> QED BY <2>1, <2>3, <2>5, <3>1, JumpKeepsCache
    <2> QED BY <2>1, <2>7, <2>8, <2>9, <1>4 DEF chainVars
<1>11. ASSUME HasEvent, UNCHANGED <<chainVars, last_cursor, stream, processing, cursor,
                                   restarts>>
       PROVE  /\ processing \in 1..Len(sealed) /\ applied \in 0..Len(ledger)
              /\ applied + 1 \in 1..Len(ledger)
              /\ ledger[applied + 1].event \in Event
              /\ applied' \in 0..Len(ledger')
              /\ Position = applied /\ Position' = applied + 1
              /\ PlaceInStream'
    <2>1. processing # 0 /\ applied < sealed[processing] /\ applied' = applied + 1
        BY <1>11 DEF HasEvent
    <2>2. processing \in 1..Len(sealed) /\ applied \in 0..Len(ledger)
        BY <2>1, <1>1 DEF TypeOK
    <2>3. applied + 1 \in 1..Len(ledger)
        BY <2>1, <2>2, <1>1, <1>2
    <2>4. ledger[applied + 1].event \in Event
        BY <2>3, LedgerEntry
    <2>5. PlaceInStream'
        <3>1. FirstEvent(processing)' = FirstEvent(processing)
            BY <1>11 DEF FirstEvent, EndOf, chainVars
        <3>2. FirstEvent(processing) \in Nat
            <4>1. processing - 1 \in NoCursor..Len(sealed)
                BY <2>2, <1>1 DEF NoCursor
            <4> QED BY <4>1, PositionOnLedger DEF FirstEvent
        <3>3. sealed[processing] \in Nat
            BY <2>2, <1>2
        <3> QED BY <1>11, <2>1, <2>2, <3>1, <3>2, <3>3 DEF PlaceInStream, chainVars
    <2> QED BY <1>11, <2>1, <2>2, <2>3, <2>4, <2>5, <1>1 DEF Position, chainVars
<1>12. CASE ApplyEvent
    <2> DEFINE event == ledger[applied + 1].event
    <2>1. /\ HasEvent
          /\ members' = Apply(event)
          /\ missed' = missed \ {m \in {event.member} : Renews(event)}
          /\ UNCHANGED <<chainVars, last_cursor, stream, processing, cursor, restarts>>
        BY <1>12 DEF ApplyEvent
    <2>2. /\ applied \in 0..Len(ledger) /\ applied + 1 \in 1..Len(ledger)
          /\ event \in Event
          /\ Position = applied /\ Position' = applied + 1
          /\ PlaceInStream' /\ applied' \in 0..Len(ledger')
        BY <2>1, <1>11
    <2>3. /\ OnChain(applied + 1) = Outcome(OnChain(applied), event)
          /\ AboutMember(OnChain(applied), event)
        <3>1. (applied + 1) - 1 = applied
            BY <2>2
        <3>2. OnChain(applied + 1) = ledger[applied + 1].members
            BY <2>2 DEF OnChain
        <3> QED BY <3>1, <3>2, <2>2 DEF LedgerFollows
    <2> HIDE DEF event
    <2>4. members' \in Map(Permissions)
        BY <2>1, <2>2, ApplyIsMap DEF TypeOK
    <2>5. TypeOK'
        BY <2>1, <2>2, <2>4 DEF TypeOK, chainVars
    <2>6. CacheFollowsChain'
        <3> SUFFICES ASSUME NEW m \in Members \ missed'
                     PROVE  AgreesAt(m, Position)'
            BY DEF CacheFollowsChain
        <3>1. AgreesAt(m, applied) \/ (m = event.member /\ Renews(event))
            BY <2>1, <2>2 DEF CacheFollowsChain
        <3>2. ledger' = ledger /\ applied \in Nat
            BY <2>1, <2>2 DEF chainVars
        <3>3. m \in Members
            OBVIOUS
        <3>4. /\ m \in DOMAIN members' <=> m \in DOMAIN OnChain(applied + 1)
              /\ m \in DOMAIN members' => members'[m] = Known(OnChain(applied + 1)[m])
            BY <2>1, <2>2, <2>3, <3>1, <3>2, <3>3, ApplyFollows
        <3>5. OnChain(Position)' = OnChain(applied + 1)
            BY <2>2, <3>2 DEF OnChain
        <3> QED BY <3>4, <3>5 DEF AgreesAt
    <2> QED BY <2>1, <2>2, <2>5, <2>6, <1>4
<1>13. CASE DropEvent
    <2>1. /\ HasEvent
          /\ missed' = missed \cup {ledger[applied + 1].event.member}
          /\ UNCHANGED <<chainVars, members, last_cursor, stream, processing, cursor,
                         restarts>>
        BY <1>13 DEF DropEvent
    <2>2. /\ applied \in 0..Len(ledger) /\ applied + 1 \in 1..Len(ledger)
          /\ ledger[applied + 1].event \in Event
          /\ Position = applied /\ Position' = applied + 1
          /\ PlaceInStream' /\ applied' \in 0..Len(ledger')
        BY <2>1, <1>11
    <2>3. Named(applied, applied + 1) = {ledger[applied + 1].event.member}
        BY <2>2 DEF Named
    <2>4. ledger[applied + 1].event.member \in Members
        BY <2>2 DEF Event
    <2>5. TypeOK'
        BY <2>1, <2>2, <2>4 DEF TypeOK, chainVars
    <2>6. CacheFollowsChain'
        <3>1. /\ applied + 1 \in 0..Len(ledger) /\ applied <= applied + 1
              /\ UNCHANGED <<ledger, members>>
              /\ missed' = missed \cup Named(applied, applied + 1)
            BY <2>1, <2>2, <2>3 DEF chainVars
        <3> QED BY <2>2, <3>1, JumpKeepsCache
    <2> QED BY <2>1, <2>2, <2>5, <2>6, <1>4
<1>14. CASE EndCheckpoint
    <2>1. /\ processing # 0
          /\ applied = sealed[processing]
          /\ last_cursor' = cursor
          /\ missed' = missed \cup Named(EndOf(cursor), sealed[processing])
          /\ processing' = 0
          /\ UNCHANGED <<ledger, sealed, members, stream, cursor, applied, restarts>>
        BY <1>14 DEF EndCheckpoint, chainVars
    <2>2. /\ processing \in 1..Len(sealed) /\ cursor \in {0, processing}
          /\ cursor \in 0..Len(sealed) /\ applied \in 0..Len(ledger)
        BY <2>1, <1>1 DEF TypeOK, PlaceInStream
    <2>3. EndOf(cursor) \in 0..Len(ledger) /\ EndOf(cursor) <= applied
        BY <2>1, <2>2, <1>1, <1>2 DEF EndOf
    <2>4. missed' \subseteq Members
        BY <2>1, <2>2, <2>3, NamedAreMembers DEF TypeOK
    <2>5. TypeOK' /\ PlaceInStream'
        BY <2>1, <2>2, <2>4, <1>1 DEF TypeOK, PlaceInStream, NoCursor
    <2>6. CacheFollowsChain'
        <3>1. Position = applied /\ Position' = EndOf(cursor)
            BY <2>1 DEF Position, EndOf
        <3> QED BY <2>1, <2>2, <2>3, <3>1, JumpKeepsCache
    <2> QED BY <2>1, <2>5, <2>6, <1>4 DEF chainVars
<1>15. CASE Restart
    <2>1. TypeOK' /\ PlaceInStream'
        BY <1>15, <1>1, <1>3, MembershipAssumption
            DEF Restart, TypeOK, PlaceInStream, chainVars, NoCursor
    <2>2. CacheFollowsChain'
        <3>1. Position' = 0 /\ members' = Nobody
            BY <1>15 DEF Restart, Position, EndOf, NoCursor
        <3>2. OnChain(Position)' = Nobody
            BY <3>1 DEF OnChain
        <3> QED BY <3>1, <3>2 DEF CacheFollowsChain, AgreesAt, Nobody
    <2> QED BY <2>1, <2>2, <1>4, <1>15 DEF Restart
<1> QED
    BY <1>6, <1>7, <1>8, <1>9, <1>10, <1>12, <1>13, <1>14, <1>15 DEF ServiceNext

LEMMA InitInv == Init => Inv
<1> SUFFICES ASSUME Init PROVE Inv
    OBVIOUS
<1>1. Nobody \in Map(Permissions)
    BY NobodyIsMap
<1>2. TypeOK
    BY <1>1, MembershipAssumption DEF Init, TypeOK, NoCursor
<1>3. LedgerFollows /\ SealedAscend /\ PlaceInStream
    BY DEF Init, LedgerFollows, SealedAscend, PlaceInStream
<1>4. LedgerAgrees
    BY DEF Init, LedgerAgrees, SameAt, OnChain
<1>5. CacheFollowsChain
    <2>1. OnChain(Position) = Nobody
        BY DEF Init, Position, EndOf, OnChain, NoCursor
    <2> QED BY <2>1 DEF Init, CacheFollowsChain, AgreesAt, Nobody
<1> QED BY <1>2, <1>3, <1>4, <1>5 DEF Inv

LEMMA StutterKeepsInv == ASSUME Inv, UNCHANGED vars PROVE Inv'
<1> USE DEF Inv
<1>1. UNCHANGED <<ledger, sealed, members, last_cursor, stream, processing,
                  cursor, applied, missed, restarts>>
    BY DEF vars, chainVars, serviceVars
<1>2. LedgerFollows' /\ LedgerAgrees'
    BY <1>1, LedgerStays
<1>3. TypeOK' /\ SealedAscend' /\ PlaceInStream'
    BY <1>1 DEF TypeOK, SealedAscend, PlaceInStream, FirstEvent, EndOf
<1>4. CacheFollowsChain'
    BY <1>1 DEF CacheFollowsChain, AgreesAt, OnChain, Position, EndOf
<1> QED BY <1>2, <1>3, <1>4

LEMMA AlwaysInv == Spec => []Inv
<1>1. Inv /\ [Next]_vars => Inv'
    BY ChainKeepsInv, ServiceKeepsInv, StutterKeepsInv DEF Next
<1> QED BY <1>1, InitInv, PTL DEF Spec

(* The chain, the cache and the cursors of run_subscription have their     *)
(* types in every reachable state.                                         *)
THEOREM MembershipTypesCorrect == Spec => []TypeOK
<1>1. Inv => TypeOK
    BY DEF Inv
<1> QED BY <1>1, AlwaysInv, PTL

(* What the auth middleware reads of a member is what the chain said at    *)
(* the event apply_event has reached, for every history of events,         *)
(* reconnects and restarts, unless an event about that member lay in what  *)
(* was jumped over or did not parse, and the member was neither added nor  *)
(* removed since.                                                          *)
THEOREM CacheAlwaysFollows == Spec => []CacheFollowsChain
<1>1. Inv => CacheFollowsChain
    BY DEF Inv
<1> QED BY <1>1, AlwaysInv, PTL
=============================================================================
