------------------------------- MODULE ChatProofs -------------------------------
(***************************************************************************)
(* Proofs about the two lists of the chat application.                     *)
(*                                                                         *)
(* UseMessages: types and the group of what is shown; no message passed    *)
(* over; each shown once and in order; and own messages as the relayer has *)
(* them, for any number of messages, groups, visits and requests and any   *)
(* page limit.                                                             *)
(*                                                                         *)
(* GroupDiscovery: types, with each group listed once before discoveries   *)
(* overlap, and the groups a discovery decides that has read every event   *)
(* about them, for any number of accounts, groups, runs and events.        *)
(***************************************************************************)
EXTENDS UseMessages, GroupDiscovery, FiniteSetTheorems, TLAPS

(*************************************************************************)
(*                              Selections                               *)
(*************************************************************************)

(* An arrangement is a bijection: it has as many places as elements. *)
LEMMA ArrangementIsBijection ==
  ASSUME NEW S, IsFiniteSet(S), NEW a \in Arrangements(S)
  PROVE  /\ Cardinality(S) \in Nat
         /\ a \in [1..Cardinality(S) -> S]
         /\ \A x \in S : \E i \in 1..Cardinality(S) : a[i] = x
         /\ \A i, j \in 1..Cardinality(S) : a[i] = a[j] => i = j
<1> DEFINE n == Cardinality(S)
<1>1. n \in Nat  BY FS_CardinalityType
<1>2. a \in [1..n -> S] /\ S \subseteq {a[i] : i \in DOMAIN a}
  BY DEF Arrangements
<1>3. \A x \in S : \E i \in 1..n : a[i] = x  BY <1>2
<1>4. a \in Surjection(1..n, S)  BY <1>2, <1>3 DEF Surjection
<1>5. IsFiniteSet(1..n) /\ Cardinality(1..n) = n  BY <1>1, FS_Interval
<1>6. a \in Injection(1..n, S)
  BY <1>4, <1>5, FS_SurjSameCardinalityImpliesInj
<1>7. \A i, j \in 1..n : a[i] = a[j] => i = j  BY <1>6 DEF Injection, IsInjective
<1> QED  BY <1>1, <1>2, <1>3, <1>7

(* Selecting keeps the entries at the places, in their order. *)
LEMMA SelectedShape ==
  ASSUME NEW T, NEW entries \in Seq(T), NEW places \in SUBSET DOMAIN entries,
         NEW selected \in Selected(entries, places)
  PROVE  /\ selected \in Seq(T)
         /\ \A k \in places : \E i \in DOMAIN selected : selected[i] = entries[k]
         /\ \E a \in [DOMAIN selected -> places] :
               /\ \A i \in DOMAIN selected : selected[i] = entries[a[i]]
               /\ \A i, j \in DOMAIN selected : i < j => a[i] < a[j]
<1> DEFINE n == Cardinality(places)
<1>1. IsFiniteSet(places)
  <2>1. Len(entries) \in Nat /\ DOMAIN entries = 1..Len(entries)  OBVIOUS
  <2>2. IsFiniteSet(1..Len(entries))  BY <2>1, FS_Interval
  <2> QED  BY <2>1, <2>2, FS_Subset
<1>2. PICK a \in Arrangements(places) :
        /\ selected = [i \in DOMAIN a |-> entries[a[i]]]
        /\ \A i, j \in DOMAIN a : i < j => a[i] < a[j]
  BY DEF Selected
<1>3. /\ n \in Nat /\ a \in [1..n -> places]
      /\ \A x \in places : \E i \in 1..n : a[i] = x
  BY <1>1, ArrangementIsBijection
<1> HIDE DEF n
<1>4. selected = [i \in 1..n |-> entries[a[i]]]  BY <1>2, <1>3
<1>5. selected \in Seq(T) /\ DOMAIN selected = 1..n
  <2>1. \A i \in 1..n : entries[a[i]] \in T  BY <1>3
  <2> QED  BY <2>1, <1>3, <1>4
<1>6. a \in [DOMAIN selected -> places]  BY <1>3, <1>5
<1>7. \A i \in DOMAIN selected : selected[i] = entries[a[i]]  BY <1>4, <1>5
<1>8. \A i, j \in DOMAIN selected : i < j => a[i] < a[j]  BY <1>2, <1>3, <1>5
<1>9. \A k \in places : \E i \in DOMAIN selected : selected[i] = entries[k]
  BY <1>3, <1>4, <1>5
<1> QED  BY <1>5, <1>6, <1>7, <1>8, <1>9

(*************************************************************************)
(*                              UseMessages                              *)
(*************************************************************************)

Changes == {"edit", "delete"}
Kinds == {"load", "more", "send"} \cup Changes

Entries == [id : Stored, group : Groups, order : Nat, content : Contents,
            real : BOOLEAN]

Orders == [group : Groups, order : Nat \ {0}, own : BOOLEAN]

BoardInv ==
    /\ DOMAIN taken \subseteq Ids
    /\ taken \in [DOMAIN taken -> Orders]
    /\ orders \in [Groups -> Nat]
    /\ \A id \in DOMAIN taken : taken[id].order <= orders[taken[id].group]
    /\ \A id, other \in DOMAIN taken :
           taken[id].group = taken[other].group
             /\ taken[id].order = taken[other].order => id = other
    /\ Stored \subseteq DOMAIN taken
    /\ relayer \in [Stored -> [group : Groups, order : Nat \ {0},
                               content : Contents, own : BOOLEAN]]
    /\ \A id \in Stored : relayer[id].group = taken[id].group
                          /\ relayer[id].order = taken[id].order

(* A page carries messages of its group as the relayer has them, but for   *)
(* their content, in ascending order.                                      *)
IsPage(page, g) ==
    /\ page \in Seq(Entries)
    /\ \A i \in DOMAIN page :
           /\ page[i].real /\ page[i].group = g
           /\ relayer[page[i].id].group = g
           /\ relayer[page[i].id].order = page[i].order
    /\ \A i, j \in DOMAIN page : i < j => page[i].order < page[j].order

IsRequest(r) ==
    /\ r \in [kind : Kinds, id : Ids \cup {NoId}, group : Groups,
              visit : 1..visit, before : Nat, answered : BOOLEAN,
              page : Seq(Entries), hasNext : BOOLEAN]
    /\ IsPage(r.page, r.group)
    /\ r.kind \notin {"load", "more"} \/ ~r.answered => r.page = <<>>
    /\ Current(r) => r.group = uuid
    /\ r.kind = "load" /\ Current(r) => loading
    /\ r.kind = "more" /\ Current(r) => ~loading
    /\ r.kind = "send" => r.id \in Ids /\ (r.answered <=> r.id \in Stored)
    /\ r.kind \in Changes => r.id \in Stored

RequestsInv ==
    /\ IsFiniteSet(requests) /\ Cardinality(requests) <= MaxRequests
    /\ \A r \in requests : IsRequest(r)
    /\ \A r, q \in requests :
           /\ r.kind = "load" /\ q.kind = "load" /\ r.visit = q.visit => r = q
           /\ r.kind = "send" /\ q.kind = "send" /\ r.id = q.id => r = q

(* An entry that came from the relayer is of the group shown. *)
IsGenuine(entry) == entry.real =>
    /\ entry.group = uuid
    /\ relayer[entry.id].group = uuid
    /\ relayer[entry.id].order = entry.order

ListInv ==
    /\ list \in Seq(Entries)
    /\ \A i \in DOMAIN list : IsGenuine(list[i])
    /\ lastOrder \in Nat
    /\ list # <<>> => lastOrder = list[Len(list)].order

SubscriptionInv ==
    /\ loading \in BOOLEAN
    /\ Open => ~loading
    /\ Open =>
           /\ subscription = <<[cursor |-> subscription[1].cursor,
                                page |-> subscription[1].page]>>
           /\ subscription[1].cursor \in Nat
           /\ IsPage(subscription[1].page, uuid)
           /\ \A i \in DOMAIN subscription[1].page :
                  subscription[1].page[i].order > subscription[1].cursor

TypeInv ==
    /\ BoardInv
    /\ RequestsInv
    /\ ListInv
    /\ SubscriptionInv
    /\ uuid \in Groups
    /\ visit \in 1..MaxVisits
    /\ hasMore \in BOOLEAN
    /\ undecrypted \cup raced \subseteq Ids

ReadInv == seen \in Nat /\ late \subseteq Ids

(* The messages that were not stored behind what this visit had been given. *)
Early == InGroup(uuid) \ late

(* Nothing of these lies above the bound and within the page without being *)
(* in it.                                                                  *)
IsExact(page, bound) ==
    \A id \in Early : relayer[id].order > bound =>
        InPage(id, page) \/ \A i \in DOMAIN page : page[i].order < relayer[id].order

IsSeen(page) == \A i \in DOMAIN page : page[i].order <= seen

CoverInv ==
    /\ \A r \in requests : r.kind = "load" /\ r.answered /\ Current(r) =>
           IsExact(r.page, 0) /\ IsSeen(r.page)
    /\ Open => /\ IsExact(subscription[1].page, subscription[1].cursor)
               /\ IsSeen(subscription[1].page)
    /\ Open /\ "blind" \notin disturbed => subscription[1].cursor <= seen
    /\ loading /\ disturbed = {} => list = <<>> /\ lastOrder = 0

(* The lowest of the messages that are not late: the page that was loaded. *)
FirstPage == Lowest(Early)

IsSteady == disturbed \cap {"stale", "overwritten"} = {}

(* The list begins with a message of the relayer's, the lowest of all. *)
Begins(entries) ==
    /\ entries # <<>> /\ entries[1].real
    /\ \A i \in DOMAIN entries : entries[1].order <= entries[i].order

StartsHere ==
    /\ Begins(list)
    /\ Open => list[1].order <= subscription[1].cursor

(* An older page holds nothing below the bound that would decrypt, but     *)
(* late messages.                                                          *)
Reached(bound) ==
    \A id \in FirstPage : relayer[id].order >= bound \/ id \in undecrypted

CanPage == hasMore \/ \E r \in requests : r.kind = "more" /\ Current(r)

(* New messages come behind a page that is full, unless they are late. *)
IsFull == Cardinality({id \in Early : relayer[id].order <= seen}) >= PageLimit

IsOrderly(r) == r.answered /\ Current(r) =>
    /\ r.kind = "load" /\ r.hasNext =>
           IsFull /\ \A id \in FirstPage : InPage(id, r.page)
    /\ r.kind = "more" /\ IsSteady => \A i \in DOMAIN r.page :
           r.page[i].id \in FirstPage \cup late /\ r.page[i].order < r.before

OrderInv ==
    /\ \A r \in requests : IsOrderly(r)
    /\ IsSteady /\ CanPage =>
           /\ loading = FALSE
           /\ IsFull
           /\ \/ FirstPage \subseteq undecrypted
              \/ StartsHere /\ Reached(list[1].order)
    /\ "sent" \notin disturbed => \A i \in DOMAIN list : list[i].real

Target(kind) == IF kind = "edit" THEN "edited" ELSE "deleted"

(* The relayer has changed the message and the client does not know yet. *)
IsChanging(r, id) == r.kind \in Changes /\ r.answered /\ r.id = id

Agrees(entry) == entry.id \notin raced => entry.content = relayer[entry.id].content

AllAgree(page) == \A i \in DOMAIN page : Agrees(page[i])

(* What is shown agrees, or is about to be changed the way the relayer has *)
(* changed it: a message that is shown deleted stays so.                   *)
IsSettled(entry) == entry.real =>
    \/ Agrees(entry)
    \/ \E r \in requests : IsChanging(r, entry.id)
          /\ (r.kind = "edit" => entry.content # "deleted")

(* An edit is not on its way to a message whose deletion the client knows. *)
IsTimely(r) == r.kind = "edit" /\ ~r.answered /\ r.id \notin raced =>
    \/ relayer[r.id].content # "deleted"
    \/ \E q \in requests : IsChanging(q, r.id)

HasTarget(r) == IsChanging(r, r.id) /\ r.id \notin raced =>
    relayer[r.id].content = Target(r.kind)

ContentInv ==
    /\ \A r \in requests : AllAgree(r.page) /\ HasTarget(r) /\ IsTimely(r)
    /\ Open => AllAgree(subscription[1].page)
    /\ \A i \in DOMAIN list : IsSettled(list[i])
-----------------------------------------------------------------------------
(* Lists that are sorted, decrypted and merged *)

(* Each place of the sorted list and the place it comes from.  Entries of   *)
(* the same order stay in theirs.                                           *)
SortsBy(a, entries, sorted) ==
    /\ a \in [DOMAIN entries -> DOMAIN entries]
    /\ DOMAIN sorted = DOMAIN entries
    /\ \A i \in DOMAIN entries : sorted[i] = entries[a[i]]
    /\ \A k \in DOMAIN entries : \E i \in DOMAIN entries : a[i] = k
    /\ \A i, j \in DOMAIN entries : a[i] = a[j] => i = j
    /\ \A i, j \in DOMAIN entries : i < j =>
          \/ entries[a[i]].order < entries[a[j]].order
          \/ entries[a[i]].order = entries[a[j]].order /\ a[i] < a[j]

LEMMA SortedPermutes ==
  ASSUME NEW T, NEW entries \in Seq(T), NEW sorted \in Sorted(entries)
  PROVE  /\ sorted \in Seq(T) /\ Len(sorted) = Len(entries)
         /\ \E a : SortsBy(a, entries, sorted)
<1> DEFINE n == Len(entries)
<1>1. n \in Nat /\ DOMAIN entries = 1..n  OBVIOUS
<1>2. IsFiniteSet(1..n) /\ Cardinality(1..n) = n  BY <1>1, FS_Interval
<1>3. PICK a \in Arrangements(DOMAIN entries) :
        /\ sorted = [i \in DOMAIN a |-> entries[a[i]]]
        /\ \A i, j \in DOMAIN a : i < j =>
              \/ entries[a[i]].order < entries[a[j]].order
              \/ entries[a[i]].order = entries[a[j]].order /\ a[i] < a[j]
  BY DEF Sorted
<1>4. /\ a \in [1..n -> 1..n]
      /\ \A x \in 1..n : \E i \in 1..n : a[i] = x
      /\ \A i, j \in 1..n : a[i] = a[j] => i = j
  <2>1. a \in Arrangements(1..n)  BY <1>1, <1>3
  <2> HIDE DEF n
  <2>2. /\ a \in [1..Cardinality(1..n) -> 1..n]
        /\ \A x \in 1..n : \E i \in 1..Cardinality(1..n) : a[i] = x
        /\ \A i, j \in 1..Cardinality(1..n) : a[i] = a[j] => i = j
    BY <2>1, <1>2, ArrangementIsBijection
  <2> QED  BY <1>2, <2>2
<1>5. sorted = [i \in 1..n |-> entries[a[i]]]  BY <1>3, <1>4
<1>6. sorted \in Seq(T) /\ Len(sorted) = n
  <2>1. n \in Nat /\ \A j \in 1..n : entries[j] \in T  BY <1>1
  <2> HIDE DEF n
  <2>2. \A i \in 1..n : entries[a[i]] \in T  BY <2>1, <1>4
  <2>3. sorted \in Seq(T)  BY <2>1, <2>2, <1>5
  <2> QED  BY <2>1, <2>3, <1>5
<1>7. \A i \in DOMAIN entries : sorted[i] = entries[a[i]]  BY <1>1, <1>5
<1>8. DOMAIN a = DOMAIN entries  BY <1>1, <1>4
<1>9. /\ \A k \in DOMAIN entries : \E i \in DOMAIN entries : a[i] = k
      /\ \A i, j \in DOMAIN entries : a[i] = a[j] => i = j
      /\ a \in [DOMAIN entries -> DOMAIN entries]
  BY <1>1, <1>4
<1>10. SortsBy(a, entries, sorted)  BY <1>1, <1>3, <1>6, <1>7, <1>8, <1>9 DEF SortsBy
<1> QED  BY <1>6, <1>10

(* Decrypting keeps the entries that did not fail, in their order. *)
LEMMA DecryptedSelects ==
  ASSUME NEW T, NEW page \in Seq(T), NEW failed, NEW shown \in Decrypted(page, failed)
  PROVE  /\ shown \in Seq(T)
         /\ \A k \in DOMAIN page : page[k].id \notin failed =>
               \E i \in DOMAIN shown : shown[i] = page[k]
         /\ \E a \in [DOMAIN shown -> DOMAIN page] :
               /\ \A i \in DOMAIN shown :
                     shown[i] = page[a[i]] /\ page[a[i]].id \notin failed
               /\ \A i, j \in DOMAIN shown : i < j => a[i] < a[j]
<1> DEFINE places == {i \in DOMAIN page : page[i].id \notin failed}
<1>1. shown \in Selected(page, places)  BY DEF Decrypted
<1>2. /\ shown \in Seq(T)
      /\ \A k \in places : \E i \in DOMAIN shown : shown[i] = page[k]
      /\ \E a \in [DOMAIN shown -> places] :
            /\ \A i \in DOMAIN shown : shown[i] = page[a[i]]
            /\ \A i, j \in DOMAIN shown : i < j => a[i] < a[j]
  <2>1. places \in SUBSET DOMAIN page  OBVIOUS
  <2> HIDE DEF places
  <2> QED  BY <1>1, <2>1, SelectedShape
<1>3. PICK a \in [DOMAIN shown -> places] :
        /\ \A i \in DOMAIN shown : shown[i] = page[a[i]]
        /\ \A i, j \in DOMAIN shown : i < j => a[i] < a[j]
  BY <1>2
<1>4. /\ a \in [DOMAIN shown -> DOMAIN page]
      /\ \A i \in DOMAIN shown : page[a[i]].id \notin failed
  BY <1>3
<1> QED  BY <1>2, <1>3, <1>4

(* A message that is shown is replaced at one place at most. *)
LEMMA MergedInPlace ==
  ASSUME NEW T, list \in Seq(T), NEW entry \in T, entry.id \in ShownIds,
         NEW merged \in MergeMessage(entry)
  PROVE  /\ merged \in Seq(T) /\ Len(merged) = Len(list)
         /\ \A i \in DOMAIN list :
               merged[i] = list[i] \/ (merged[i] = entry /\ IsFirst(i, entry.id))
         /\ \A i, j \in DOMAIN list : IsFirst(i, entry.id) /\ IsFirst(j, entry.id) => i = j
<1>1. merged = [i \in DOMAIN list |-> IF IsFirst(i, entry.id) THEN entry ELSE list[i]]
  BY DEF MergeMessage
<1>2. Len(list) \in Nat /\ DOMAIN list = 1..Len(list)  OBVIOUS
<1>3. merged \in Seq(T) /\ Len(merged) = Len(list)  BY <1>1, <1>2
<1>4. \A i \in DOMAIN list :
        merged[i] = list[i] \/ (merged[i] = entry /\ IsFirst(i, entry.id))
  BY <1>1
<1>5. \A i, j \in DOMAIN list : IsFirst(i, entry.id) /\ IsFirst(j, entry.id) => i = j
  BY <1>2 DEF IsFirst
<1> QED  BY <1>3, <1>4, <1>5

(* A message that is not shown is appended, and the list sorted. *)
LEMMA MergedAsNew ==
  ASSUME NEW T, list \in Seq(T), NEW entry \in T, entry.id \notin ShownIds,
         NEW merged \in MergeMessage(entry)
  PROVE  LET all == Append(list, entry)
         IN  /\ all \in Seq(T) /\ Len(all) = Len(list) + 1
             /\ all[Len(list) + 1] = entry
             /\ \A k \in DOMAIN list : all[k] = list[k]
             /\ merged \in Seq(T) /\ Len(merged) = Len(list) + 1
             /\ \E a : SortsBy(a, all, merged)
<1> DEFINE all == Append(list, entry)
<1>1. merged \in Sorted(all)  BY DEF MergeMessage
<1>2. /\ all \in Seq(T) /\ Len(all) = Len(list) + 1
      /\ all[Len(list) + 1] = entry /\ \A k \in DOMAIN list : all[k] = list[k]
  OBVIOUS
<1> HIDE DEF all
<1>3. /\ merged \in Seq(T) /\ Len(merged) = Len(list) + 1
      /\ \E a : SortsBy(a, all, merged)
  BY <1>1, <1>2, SortedPermutes
<1> QED  BY <1>2, <1>3 DEF all

(* Whatever is merged, the list has what it had, the entry, and nothing    *)
(* else.                                                                   *)
LEMMA MergedShape ==
  ASSUME NEW T, list \in Seq(T), NEW entry \in T, NEW merged \in MergeMessage(entry)
  PROVE  /\ merged \in Seq(T) /\ merged # <<>>
         /\ \A i \in DOMAIN merged :
               merged[i] = entry \/ \E k \in DOMAIN list : merged[i] = list[k]
         /\ \A id \in ShownIds \cup {entry.id} :
               \E i \in DOMAIN merged : merged[i].id = id
<1>1. CASE entry.id \in ShownIds
  <2>1. /\ merged \in Seq(T) /\ Len(merged) = Len(list)
        /\ \A i \in DOMAIN list :
              merged[i] = list[i] \/ (merged[i] = entry /\ IsFirst(i, entry.id))
    BY <1>1, MergedInPlace
  <2>2. DOMAIN merged = DOMAIN list  BY <2>1
  <2>3. \A i \in DOMAIN list : merged[i].id = list[i].id  BY <2>1 DEF IsFirst
  <2>4. DOMAIN list # {}  BY <1>1 DEF ShownIds
  <2>5. merged # <<>>  BY <2>1, <2>4
  <2> QED  BY <1>1, <2>1, <2>2, <2>3, <2>5 DEF ShownIds
<1>2. CASE entry.id \notin ShownIds
  <2> DEFINE n == Len(list) + 1
             all == Append(list, entry)
  <2>0. /\ all \in Seq(T) /\ Len(all) = n
        /\ all[n] = entry /\ \A k \in DOMAIN list : all[k] = list[k]
        /\ merged \in Seq(T) /\ Len(merged) = n
        /\ \E a : SortsBy(a, all, merged)
    BY <1>2, MergedAsNew
  <2> HIDE DEF all
  <2>1. PICK a : SortsBy(a, all, merged)  BY <2>0
  <2>2. n \in Nat \ {0} /\ DOMAIN list = 1..(n - 1) /\ DOMAIN merged = 1..n
          /\ DOMAIN all = 1..n
    BY <2>0
  <2>3. \A k \in 1..n : \E i \in DOMAIN merged : merged[i] = all[k]
    BY <2>1, <2>2 DEF SortsBy
  <2>4. \A i \in DOMAIN merged : \E k \in 1..n : merged[i] = all[k]
    BY <2>1, <2>2 DEF SortsBy
  <2>5. all[n] = entry /\ \A k \in DOMAIN list : all[k] = list[k] /\ k \in 1..n
    BY <2>0, <2>2
  <2>6. \A k \in 1..n : k = n \/ k \in DOMAIN list  BY <2>2
  <2>7. merged # <<>>  BY <2>0, <2>2
  <2> HIDE DEF n
  <2>8. \A i \in DOMAIN merged :
          merged[i] = entry \/ \E k \in DOMAIN list : merged[i] = list[k]
    BY <2>4, <2>5, <2>6
  <2>9. \A id \in ShownIds \cup {entry.id} :
          \E i \in DOMAIN merged : merged[i].id = id
    <3>1. \E i \in DOMAIN merged : merged[i] = entry  BY <2>2, <2>3, <2>5
    <3>2. \A k \in DOMAIN list : \E i \in DOMAIN merged : merged[i] = list[k]
      BY <2>3, <2>5
    <3> QED  BY <3>1, <3>2 DEF ShownIds
  <2> QED  BY <2>0, <2>7, <2>8, <2>9
<1> QED  BY <1>1, <1>2

-----------------------------------------------------------------------------
(* The relayer *)

LEMMA GroupsAreFinite ==
  ASSUME BoardInv
  PROVE  /\ IsFiniteSet(Stored)
         /\ \A g : IsFiniteSet(InGroup(g)) /\ Cardinality(InGroup(g)) \in Nat
<1>1. IsFiniteSet(Stored)  BY ChatAssumption, FS_Subset DEF BoardInv, ChatAssumption
<1>2. ASSUME NEW g PROVE IsFiniteSet(InGroup(g)) /\ Cardinality(InGroup(g)) \in Nat
  <2>1. InGroup(g) \in SUBSET Stored  BY DEF InGroup
  <2>2. IsFiniteSet(InGroup(g))  BY <1>1, <2>1, FS_Subset
  <2> QED  BY <2>2, FS_CardinalityType
<1> QED  BY <1>1, <1>2

(* Whatever happens to the relayer, a message keeps its group and order. *)
Grows ==
    /\ Stored \subseteq Stored'
    /\ \A id \in Stored :
           /\ relayer'[id].group = relayer[id].group
           /\ relayer'[id].order = relayer[id].order

(* An order is given out. *)
LEMMA TakeShape ==
  ASSUME BoardInv, NEW id \in Ids \ DOMAIN taken, NEW g \in Groups, NEW own \in BOOLEAN,
         TakeOrder(id, g, own)
  PROVE  BoardInv' /\ Grows /\ UNCHANGED <<relayer, viewVars, requests, historyVars>>
<1> DEFINE x == [group |-> g, order |-> orders[g] + 1, own |-> own]
<1>1. /\ orders' = [orders EXCEPT ![g] = @ + 1]
      /\ taken' = [i \in DOMAIN taken \cup {id} |-> IF i = id THEN x ELSE taken[i]]
      /\ UNCHANGED <<relayer, viewVars, requests, historyVars>>
  BY DEF TakeOrder
<1>2. orders \in [Groups -> Nat] /\ orders[g] \in Nat  BY DEF BoardInv
<1>3. /\ orders' \in [Groups -> Nat] /\ orders'[g] = orders[g] + 1
      /\ \A h \in Groups : orders[h] <= orders'[h]
  BY <1>1, <1>2
<1>4. x \in Orders /\ x.group = g /\ x.order = orders[g] + 1  BY <1>2 DEF Orders
<1> HIDE DEF x
<1>5. /\ DOMAIN taken' = DOMAIN taken \cup {id} /\ taken'[id] = x
      /\ \A i \in DOMAIN taken : taken'[i] = taken[i]
  BY <1>1
<1>6. \A i \in DOMAIN taken : taken[i] \in Orders  BY DEF BoardInv
<1>7. taken' \in [DOMAIN taken' -> Orders]  BY <1>1, <1>4, <1>5, <1>6
<1>8. \A i \in DOMAIN taken :
        /\ taken[i].group \in Groups /\ taken[i].order \in Nat
        /\ taken[i].order <= orders[taken[i].group]
  BY <1>6 DEF Orders, BoardInv
<1>9. \A i \in DOMAIN taken' : taken'[i].order <= orders'[taken'[i].group]
  <2>1. ASSUME NEW i \in DOMAIN taken PROVE taken[i].order <= orders'[taken[i].group]
    <3>1. /\ orders[taken[i].group] \in Nat /\ orders'[taken[i].group] \in Nat
          /\ orders[taken[i].group] <= orders'[taken[i].group]
      BY <1>2, <1>3, <1>8
    <3> QED  BY <1>8, <3>1
  <2>2. x.order <= orders'[x.group]  BY <1>2, <1>3, <1>4
  <2> QED  BY <1>5, <2>1, <2>2
<1>10. \A i, j \in DOMAIN taken' :
         taken'[i].group = taken'[j].group /\ taken'[i].order = taken'[j].order => i = j
  <2>1. \A i \in DOMAIN taken : taken[i].group = g => taken[i].order # x.order
    BY <1>2, <1>4, <1>8
  <2>2. \A i, j \in DOMAIN taken :
          taken[i].group = taken[j].group /\ taken[i].order = taken[j].order => i = j
    BY DEF BoardInv
  <2> QED  BY <1>4, <1>5, <2>1, <2>2
<1>11. Stored' = Stored /\ Grows  BY <1>1 DEF Stored, Grows
<1>12. DOMAIN taken' \subseteq Ids /\ Stored' \subseteq DOMAIN taken'
  BY <1>5, <1>11 DEF BoardInv
<1>13. \A i \in Stored : relayer[i].group = taken'[i].group
                        /\ relayer[i].order = taken'[i].order
  BY <1>5 DEF BoardInv
<1>14. relayer' \in [Stored' -> [group : Groups, order : Nat \ {0},
                                content : Contents, own : BOOLEAN]]
  BY <1>1, <1>11 DEF BoardInv
<1>15. BoardInv'
  BY <1>1, <1>3, <1>7, <1>9, <1>10, <1>11, <1>12, <1>13, <1>14 DEF BoardInv
<1> QED  BY <1>1, <1>11, <1>15

(* A message is stored with the order it was given. *)
LEMMA StoreShape ==
  ASSUME BoardInv, NEW id, StoreMessage(id)
  PROVE  /\ BoardInv' /\ Grows /\ id \in Ids \ Stored /\ Stored' = Stored \cup {id}
         /\ \A i \in Stored : relayer'[i] = relayer[i]
         /\ relayer'[id] = [group |-> taken[id].group, order |-> taken[id].order,
                            content |-> "first", own |-> taken[id].own]
         /\ \A h : InGroup(h)' =
                IF h = taken[id].group THEN InGroup(h) \cup {id} ELSE InGroup(h)
<1> DEFINE x == [group |-> taken[id].group, order |-> taken[id].order,
                 content |-> "first", own |-> taken[id].own]
<1>1. /\ id \in DOMAIN taken \ Stored
      /\ relayer' = [i \in Stored \cup {id} |-> IF i = id THEN x ELSE relayer[i]]
      /\ taken' = taken /\ orders' = orders
  BY DEF StoreMessage
<1>2. taken[id] \in Orders  BY <1>1 DEF BoardInv
<1>3. x \in [group : Groups, order : Nat \ {0}, content : Contents, own : BOOLEAN]
  BY <1>2 DEF Orders, Contents
<1>4. x.group = taken[id].group /\ x.order = taken[id].order  OBVIOUS
<1> HIDE DEF x
<1>5. /\ Stored' = Stored \cup {id} /\ relayer'[id] = x
      /\ \A i \in Stored : relayer'[i] = relayer[i]
  BY <1>1 DEF Stored
<1>6. Grows  BY <1>5 DEF Grows
<1>7. \A h : InGroup(h)' =
        IF h = taken[id].group THEN InGroup(h) \cup {id} ELSE InGroup(h)
  BY <1>4, <1>5 DEF InGroup
<1>8. relayer' \in [Stored' -> [group : Groups, order : Nat \ {0},
                               content : Contents, own : BOOLEAN]]
  BY <1>1, <1>3, <1>5 DEF BoardInv
<1>9. \A i \in Stored' : relayer'[i].group = taken[i].group
                        /\ relayer'[i].order = taken[i].order
  BY <1>4, <1>5 DEF BoardInv
<1>10. BoardInv'  BY <1>1, <1>5, <1>8, <1>9 DEF BoardInv
<1> QED  BY <1>1, <1>5, <1>6, <1>7, <1>10 DEF x, BoardInv

(* Orders identify the messages of a group. *)
LEMMA OrdersDiffer ==
  ASSUME BoardInv, NEW g, NEW i \in InGroup(g), NEW j \in InGroup(g),
         relayer[i].order = relayer[j].order
  PROVE  i = j
BY DEF BoardInv, InGroup

LEMMA ChangeShape ==
  ASSUME BoardInv, NEW id \in Stored, NEW content \in Contents,
         relayer' = [relayer EXCEPT ![id].content = content],
         UNCHANGED <<taken, orders>>
  PROVE  /\ BoardInv' /\ Grows /\ Stored' = Stored
         /\ \A g : InGroup(g)' = InGroup(g)
         /\ relayer'[id].content = content
         /\ \A i \in Stored \ {id} : relayer'[i] = relayer[i]
<1>1. Stored' = Stored  BY DEF Stored
<1>2. \A i \in Stored : relayer'[i] = IF i = id THEN [relayer[i] EXCEPT !.content = content]
                                     ELSE relayer[i]
  BY DEF Stored
<1>3. \A i \in Stored :
        /\ relayer'[i].group = relayer[i].group /\ relayer'[i].order = relayer[i].order
        /\ relayer'[i] \in [group : Groups, order : Nat \ {0}, content : Contents,
                             own : BOOLEAN]
  <2> SUFFICES ASSUME NEW i \in Stored
               PROVE  /\ relayer'[i].group = relayer[i].group
                      /\ relayer'[i].order = relayer[i].order
                      /\ relayer'[i] \in [group : Groups, order : Nat \ {0},
                                           content : Contents, own : BOOLEAN]
    OBVIOUS
  <2>1. relayer[i] \in [group : Groups, order : Nat \ {0}, content : Contents, own : BOOLEAN]
    BY DEF BoardInv
  <2> QED  BY <1>2, <2>1
<1>4. Grows  BY <1>1, <1>3 DEF Grows
<1>5. \A g : InGroup(g)' = InGroup(g)  BY <1>1, <1>3 DEF InGroup
<1>6. relayer'[id].content = content
  <2>1. relayer[id] \in [group : Groups, order : Nat \ {0}, content : Contents, own : BOOLEAN]
    BY DEF BoardInv
  <2> QED  BY <1>2, <2>1
<1>7. relayer' \in [Stored' -> [group : Groups, order : Nat \ {0}, content : Contents,
                               own : BOOLEAN]]
  <2>1. relayer' = [i \in Stored |-> relayer'[i]]  BY DEF Stored
  <2> QED  BY <1>1, <1>3, <2>1
<1>8. BoardInv'
  <2>1. \A i \in Stored' : relayer'[i].group = taken[i].group
                          /\ relayer'[i].order = taken[i].order
    BY <1>1, <1>3 DEF BoardInv
  <2> QED  BY <1>1, <1>7, <2>1 DEF BoardInv
<1> QED  BY <1>1, <1>2, <1>4, <1>5, <1>6, <1>8

-----------------------------------------------------------------------------
(* Pages *)

LEMMA PagesKeep ==
  ASSUME NEW page, NEW g, IsPage(page, g), Grows
  PROVE  IsPage(page, g)'
<1>1. Entries \subseteq Entries'  BY DEF Entries, Grows
<1>2. page \in Seq(Entries')  BY <1>1 DEF IsPage
<1>0. \A i \in DOMAIN page : page[i] \in Entries  BY DEF IsPage
<1>3. \A i \in DOMAIN page : page[i].id \in Stored  BY <1>0 DEF Entries
<1> QED  BY <1>2, <1>3 DEF IsPage, Grows

LEMMA NoPage == ASSUME NEW g PROVE IsPage(<<>>, g)
BY DEF IsPage

LEMMA NoPageNext == ASSUME NEW g PROVE IsPage(<<>>, g)'
BY DEF IsPage

(* What a page leaves out comes after all of it. *)
LEMMA LowestBelow ==
  ASSUME BoardInv, NEW g, NEW ids \in SUBSET InGroup(g),
         NEW l \in Lowest(ids), NEW id \in ids \ Lowest(ids)
  PROVE  relayer[l].order < relayer[id].order
<1> DEFINE Below(x) == {i \in ids : relayer[i].order < relayer[x].order}
<1>1. IsFiniteSet(ids)  BY GroupsAreFinite, FS_Subset
<1>2. ids \subseteq Stored /\ \A i \in Stored : relayer[i].order \in Nat
  BY DEF InGroup, BoardInv
<1>3. SUFFICES ASSUME relayer[id].order <= relayer[l].order PROVE FALSE
  BY <1>2 DEF Lowest
<1>4. Below(id) \subseteq Below(l)  BY <1>2, <1>3 DEF Lowest
<1>5. IsFiniteSet(Below(l)) /\ IsFiniteSet(Below(id))  BY <1>1, FS_Subset
<1>6. /\ Cardinality(Below(id)) <= Cardinality(Below(l))
      /\ Cardinality(Below(id)) \in Nat /\ Cardinality(Below(l)) \in Nat
  BY <1>4, <1>5, FS_Subset, FS_CardinalityType
<1>7. Cardinality(Below(l)) < PageLimit /\ PageLimit \in Nat
  BY ChatAssumption DEF Lowest, ChatAssumption
<1>8. Cardinality(Below(id)) < PageLimit  BY <1>6, <1>7
<1> QED  BY <1>8 DEF Lowest

(* Of the page of all messages below some order, those of a part of the    *)
(* group that all share are in that part's first page.                     *)
LEMMA LowestOfLower ==
  ASSUME BoardInv, NEW g, NEW ids \in SUBSET InGroup(g), NEW part \in SUBSET InGroup(g),
         \A i \in ids, j \in InGroup(g) : relayer[j].order < relayer[i].order => j \in ids
  PROVE  Lowest(ids) \cap part \subseteq Lowest(part)
<1> SUFFICES ASSUME NEW id \in Lowest(ids), id \in part PROVE id \in Lowest(part)
  OBVIOUS
<1> DEFINE all == {i \in ids : relayer[i].order < relayer[id].order}
           below == {i \in part : relayer[i].order < relayer[id].order}
<1>1. id \in ids /\ Cardinality(all) < PageLimit  BY DEF Lowest
<1>2. below \in SUBSET all  BY <1>1
<1>3. IsFiniteSet(all)
  <2>1. all \in SUBSET InGroup(g)  OBVIOUS
  <2> QED  BY <2>1, GroupsAreFinite, FS_Subset
<1> HIDE DEF all, below
<1>4. /\ Cardinality(below) <= Cardinality(all)
      /\ Cardinality(below) \in Nat /\ Cardinality(all) \in Nat
  BY <1>2, <1>3, FS_Subset, FS_CardinalityType
<1>5. Cardinality(below) < PageLimit
  BY <1>1, <1>4, ChatAssumption DEF ChatAssumption
<1> QED  BY <1>5 DEF Lowest, below

(* A page of enough messages is full. *)
LEMMA LowestFills ==
  ASSUME BoardInv, NEW g, NEW ids \in SUBSET InGroup(g), Cardinality(ids) > PageLimit
  PROVE  Cardinality(Lowest(ids)) >= PageLimit
<1> DEFINE rest == ids \ Lowest(ids)
           Below(x) == {i \in ids : relayer[i].order < relayer[x].order}
           T == {relayer[i].order : i \in rest}
<1>1. IsFiniteSet(ids)  BY GroupsAreFinite, FS_Subset
<1>2. ids \subseteq Stored /\ \A i \in Stored : relayer[i].order \in Nat
  BY DEF InGroup, BoardInv
<1>3. Lowest(ids) \subseteq ids /\ IsFiniteSet(Lowest(ids))
  <2>1. Lowest(ids) \in SUBSET ids  BY DEF Lowest
  <2> QED  BY <1>1, <2>1, FS_Subset
<1>4. /\ Cardinality(Lowest(ids)) \in Nat /\ Cardinality(ids) \in Nat
      /\ PageLimit \in Nat
  BY <1>1, <1>3, FS_CardinalityType, ChatAssumption DEF ChatAssumption
<1>5. SUFFICES ASSUME Cardinality(Lowest(ids)) < PageLimit PROVE FALSE
  BY <1>4
<1>6. rest # {}
  <2>1. Lowest(ids) # ids  BY <1>4, <1>5
  <2> QED  BY <1>3, <2>1
<1>7. T \subseteq Nat /\ T # {}  BY <1>2, <1>6
<1>8. PICK m \in T : \A k \in T : ~(k < m)
  <2> HIDE DEF T
  <2>1. PICK m \in T : \A k \in T : <<k, m>> \notin OpToRel(<, Nat)
    BY <1>7, WFMin, NatLessThanWellFounded, Zenon
  <2>2. \A k \in T : ~(k < m)  BY <1>7, <2>1, Zenon DEF OpToRel
  <2> QED  BY <2>2
<1>9. PICK x \in rest : m = relayer[x].order  OBVIOUS
<1>10. Below(x) \in SUBSET Lowest(ids)
  <2> SUFFICES ASSUME NEW i \in Below(x), i \notin Lowest(ids) PROVE FALSE
    OBVIOUS
  <2>1. i \in rest /\ relayer[i].order < m  BY <1>9
  <2> QED  BY <1>8, <2>1
<1>11. x \in ids /\ x \notin Lowest(ids)  OBVIOUS
<1> HIDE DEF Below
<1>12. /\ Cardinality(Below(x)) <= Cardinality(Lowest(ids))
       /\ Cardinality(Below(x)) \in Nat
  BY <1>3, <1>10, FS_Subset, FS_CardinalityType
<1>13. Cardinality(Below(x)) < PageLimit  BY <1>4, <1>5, <1>12
<1> QED  BY <1>11, <1>13 DEF Lowest, Below

LEMMA PageShape ==
  ASSUME BoardInv, NEW g \in Groups, NEW ids \in SUBSET InGroup(g),
         NEW page \in Pages(ids)
  PROVE  /\ IsPage(page, g)
         /\ \A id : InPage(id, page) <=> id \in Lowest(ids)
         /\ \A i \in DOMAIN page : page[i].content = relayer[page[i].id].content
<1> DEFINE S == Lowest(ids)
           n == Cardinality(S)
<1>1. S \subseteq ids /\ ids \subseteq Stored /\ \A id \in ids : relayer[id].group = g
  BY DEF Lowest, InGroup
<1>2. IsFiniteSet(S)  BY <1>1, GroupsAreFinite, FS_Subset
<1>3. PICK a \in Arrangements(S) :
        /\ page = [i \in DOMAIN a |-> Entry(a[i])]
        /\ \A i, j \in DOMAIN a : i < j => relayer[a[i]].order < relayer[a[j]].order
  BY DEF Pages
<1>4. /\ n \in Nat /\ a \in [1..n -> S]
      /\ \A x \in S : \E i \in 1..n : a[i] = x
  <2> HIDE DEF S
  <2> QED  BY <1>2, <1>3, ArrangementIsBijection
<1>5. DOMAIN a = 1..n /\ page = [i \in 1..n |-> Entry(a[i])]
  BY <1>3, <1>4
<1> HIDE DEF n, S
<1>6. ASSUME NEW i \in 1..n
      PROVE  /\ page[i] \in Entries /\ page[i].id = a[i] /\ a[i] \in S
             /\ page[i].real /\ page[i].group = g
             /\ page[i].order = relayer[a[i]].order
             /\ page[i].content = relayer[a[i]].content
  <2>1. a[i] \in S /\ a[i] \in Stored /\ relayer[a[i]].group = g
    BY <1>1, <1>4
  <2>2. relayer[a[i]] \in [group : Groups, order : Nat \ {0}, content : Contents, own : BOOLEAN]
    BY <2>1 DEF BoardInv
  <2>3. page[i] = Entry(a[i])  BY <1>5
  <2> QED  BY <2>1, <2>2, <2>3 DEF Entry, Entries
<1>7. page \in Seq(Entries) /\ DOMAIN page = 1..n  BY <1>4, <1>5, <1>6
<1>8. \A i, j \in DOMAIN page : i < j => page[i].order < page[j].order
  BY <1>3, <1>5, <1>6, <1>7
<1>9. IsPage(page, g)
  BY <1>1, <1>6, <1>7, <1>8 DEF IsPage
<1>10. \A id : InPage(id, page) <=> id \in S
  BY <1>4, <1>6, <1>7 DEF InPage
<1>11. \A i \in DOMAIN page : page[i].content = relayer[page[i].id].content
  BY <1>6, <1>7
<1> QED  BY <1>9, <1>10, <1>11 DEF S

(* A page leaves no gap above the bound it was asked with. *)
LEMMA PageIsExact ==
  ASSUME BoardInv, uuid \in Groups, NEW bound \in Nat,
         NEW page \in Pages({id \in InGroup(uuid) : relayer[id].order > bound})
  PROVE  IsExact(page, bound)
<1> DEFINE ids == {id \in InGroup(uuid) : relayer[id].order > bound}
<1>1. /\ IsPage(page, uuid)
      /\ \A id : InPage(id, page) <=> id \in Lowest(ids)
  BY PageShape
<1>2. SUFFICES ASSUME NEW id \in ids, ~InPage(id, page), NEW i \in DOMAIN page
               PROVE  page[i].order < relayer[id].order
  BY DEF IsExact, Early
<1>3. page[i].id \in Lowest(ids)  BY <1>1 DEF InPage
<1>4. id \in ids \ Lowest(ids)  BY <1>1, <1>2
<1>5. relayer[page[i].id].order < relayer[id].order
  <2> HIDE DEF ids
  <2>1. ids \in SUBSET InGroup(uuid)  BY DEF ids
  <2> QED  BY <1>3, <1>4, <2>1, LowestBelow
<1> QED  BY <1>1, <1>5 DEF IsPage

-----------------------------------------------------------------------------
(* Types *)

LEMMA RequestsBound ==
  ASSUME RequestsInv
  PROVE  /\ \A r \in requests :
               /\ IsFiniteSet(requests \ {r})
               /\ Cardinality(requests \ {r}) <= MaxRequests
         /\ \A r \in requests : \A x :
               /\ IsFiniteSet((requests \ {r}) \cup {x})
               /\ Cardinality((requests \ {r}) \cup {x}) <= MaxRequests
         /\ \A x : Cardinality(requests) < MaxRequests =>
               /\ IsFiniteSet(requests \cup {x})
               /\ Cardinality(requests \cup {x}) <= MaxRequests
<1>1. /\ IsFiniteSet(requests) /\ Cardinality(requests) \in Nat
      /\ Cardinality(requests) <= MaxRequests /\ MaxRequests \in Nat
  BY ChatAssumption, FS_CardinalityType DEF RequestsInv, ChatAssumption
<1>2. ASSUME NEW r \in requests, NEW x
      PROVE  /\ IsFiniteSet(requests \ {r})
             /\ Cardinality(requests \ {r}) <= MaxRequests
             /\ IsFiniteSet((requests \ {r}) \cup {x})
             /\ Cardinality((requests \ {r}) \cup {x}) <= MaxRequests
  <2>1. IsFiniteSet(requests \ {r}) /\ Cardinality(requests \ {r}) = Cardinality(requests) - 1
    BY <1>1, FS_RemoveElement
  <2>2. /\ IsFiniteSet((requests \ {r}) \cup {x})
        /\ Cardinality((requests \ {r}) \cup {x}) =
             IF x \in requests \ {r} THEN Cardinality(requests \ {r})
             ELSE Cardinality(requests \ {r}) + 1
    BY <2>1, FS_AddElement
  <2> QED  BY <1>1, <2>1, <2>2
<1>3. ASSUME NEW x, Cardinality(requests) < MaxRequests
      PROVE  /\ IsFiniteSet(requests \cup {x})
             /\ Cardinality(requests \cup {x}) <= MaxRequests
  <2>1. /\ IsFiniteSet(requests \cup {x})
        /\ Cardinality(requests \cup {x}) =
             IF x \in requests THEN Cardinality(requests) ELSE Cardinality(requests) + 1
    BY <1>1, FS_AddElement
  <2> QED  BY <1>1, <1>3, <2>1
<1> QED  BY <1>2, <1>3

(* What a request has and no step takes from it while the relayer grows    *)
(* and the view stays, or changes as the steps of the view do.             *)
LEMMA RequestsKeep ==
  ASSUME TypeInv, NEW r \in requests, Grows,
         r.kind = "send" /\ ~r.answered => r.id \notin Stored',
         \/ /\ uuid' = uuid /\ visit' = visit
            /\ loading' = loading \/ (~loading' /\ ~(r.kind = "load" /\ Current(r)))
         \/ visit' = visit + 1
  PROVE  IsRequest(r)'
<1>1. IsRequest(r)  BY DEF TypeInv, RequestsInv
<1>2. visit \in Nat \ {0} /\ r.visit \in 1..visit  BY <1>1, ChatAssumption DEF TypeInv, IsRequest, ChatAssumption
<1>3. r.visit \in 1..visit'  BY <1>2
<1>4. Entries \subseteq Entries'  BY DEF Entries, Grows
<1>5. r.page \in Seq(Entries')  BY <1>1, <1>4 DEF IsRequest
<1>6. r \in [kind : Kinds, id : Ids \cup {NoId}, group : Groups,
              visit : 1..visit', before : Nat, answered : BOOLEAN,
              page : Seq(Entries'), hasNext : BOOLEAN]
  BY <1>1, <1>3, <1>5 DEF IsRequest
<1>7. IsPage(r.page, r.group)'  BY <1>1, PagesKeep DEF IsRequest
<1>8. Current(r)' => visit' = visit /\ Current(r)
  BY <1>2 DEF Current
<1>9. /\ Current(r)' => r.group = uuid'
      /\ r.kind = "load" /\ Current(r)' => loading'
      /\ r.kind = "more" /\ Current(r)' => ~loading'
  BY <1>1, <1>2, <1>8 DEF IsRequest
<1>10. /\ r.kind = "send" => r.id \in Ids /\ (r.answered <=> r.id \in Stored')
       /\ r.kind \in Changes => r.id \in Stored'
  BY <1>1 DEF IsRequest, Grows
<1>12. r.kind \notin {"load", "more"} \/ ~r.answered => r.page = <<>>
  BY <1>1 DEF IsRequest
<1> QED  BY <1>6, <1>7, <1>9, <1>10, <1>12 DEF IsRequest

LEMMA ListKeeps ==
  ASSUME TypeInv, Grows, UNCHANGED <<uuid, list, lastOrder>>
  PROVE  ListInv'
<1>1. Entries \subseteq Entries'  BY DEF Entries, Grows
<1>2. list \in Seq(Entries)  BY DEF TypeInv, ListInv
<1>3. \A i \in DOMAIN list : list[i] \in Entries  BY <1>2
<1>4. \A i \in DOMAIN list : list[i].id \in Stored  BY <1>3 DEF Entries
<1> QED  BY <1>1, <1>2, <1>4 DEF TypeInv, ListInv, Grows, IsGenuine

LEMMA SubscriptionKeeps ==
  ASSUME TypeInv, Grows, UNCHANGED <<uuid, loading, subscription>>
  PROVE  SubscriptionInv'
<1>1. Open' = Open  BY DEF Open
<1>2. CASE ~Open  BY <1>1, <1>2 DEF TypeInv, SubscriptionInv
<1>3. CASE Open
  <2>1. IsPage(subscription[1].page, uuid)  BY <1>3 DEF TypeInv, SubscriptionInv
  <2>2. PICK p, g : p = subscription[1].page /\ g = uuid  OBVIOUS
  <2>3. IsPage(p, g)'  BY <2>1, <2>2, PagesKeep
  <2>4. IsPage(subscription[1].page, uuid)'  BY <2>2, <2>3 DEF IsPage
  <2> QED  BY <1>1, <1>3, <2>4 DEF TypeInv, SubscriptionInv
<1> QED  BY <1>2, <1>3

(* The relayer stays as it is. *)
LEMMA SameBoard ==
  ASSUME TypeInv, UNCHANGED boardVars
  PROVE  /\ Grows /\ Stored' = Stored /\ BoardInv' /\ relayer' = relayer
         /\ \A g : InGroup(g)' = InGroup(g)
<1>1. relayer' = relayer /\ taken' = taken /\ orders' = orders  BY DEF boardVars
<1>2. Stored' = Stored /\ Grows  BY <1>1 DEF Stored, Grows
<1>3. \A g : InGroup(g)' = InGroup(g)  BY <1>1, <1>2 DEF InGroup
<1>4. BoardInv'  BY <1>1, <1>2 DEF TypeInv, BoardInv
<1> QED  BY <1>1, <1>2, <1>3, <1>4

(* A request is answered and done. *)
LEMMA DoneKeeps ==
  ASSUME TypeInv, NEW r \in requests, Done(r), UNCHANGED <<boardVars, uuid, visit>>,
         \A q \in requests \ {r} :
             loading' = loading \/ (~loading' /\ ~(q.kind = "load" /\ Current(q)))
  PROVE  RequestsInv'
<1>1. requests' = requests \ {r}  BY DEF Done
<1>2. IsFiniteSet(requests') /\ Cardinality(requests') <= MaxRequests
  BY <1>1, RequestsBound DEF TypeInv
<1>3. ASSUME NEW q \in requests' PROVE IsRequest(q)'
  <2>1. q \in requests \ {r}  BY <1>1
  <2>2. q.kind = "send" /\ ~q.answered => q.id \notin Stored'
    BY <2>1, SameBoard DEF TypeInv, RequestsInv, IsRequest
  <2> QED  BY <2>1, <2>2, SameBoard, RequestsKeep
<1>4. \A q, p \in requests' :
        /\ q.kind = "load" /\ p.kind = "load" /\ q.visit = p.visit => q = p
        /\ q.kind = "send" /\ p.kind = "send" /\ q.id = p.id => q = p
  BY <1>1 DEF TypeInv, RequestsInv
<1> QED  BY <1>2, <1>3, <1>4 DEF RequestsInv

(* The list is set. *)
LEMMA SetKeeps ==
  ASSUME TypeInv, UNCHANGED <<boardVars, uuid>>, NEW entries \in Seq(Entries),
         \A i \in DOMAIN entries : IsGenuine(entries[i]), SetMessages(entries)
  PROVE  ListInv'
<1>1. list' = entries /\ lastOrder' = LastOrder(entries)  BY DEF SetMessages
<1>2. Entries' = Entries /\ Grows  BY SameBoard DEF Entries
<1>3. LastOrder(entries) \in Nat
  <2>1. CASE entries = <<>>  BY <2>1 DEF LastOrder, TypeInv, ListInv
  <2>2. CASE entries # <<>>
    <3>1. Len(entries) \in DOMAIN entries  BY <2>2
    <3>2. entries[Len(entries)] \in Entries  BY <3>1
    <3> QED  BY <2>2, <3>2 DEF LastOrder, Entries
  <2> QED  BY <2>1, <2>2
<1>4. entries # <<>> => LastOrder(entries) = entries[Len(entries)].order
  BY DEF LastOrder
<1>5. \A i \in DOMAIN list' : IsGenuine(list[i])'
  <2>1. relayer' = relayer /\ uuid' = uuid  BY SameBoard
  <2> QED  BY <1>1, <2>1 DEF IsGenuine
<1> QED  BY <1>1, <1>2, <1>3, <1>4, <1>5 DEF ListInv

LEMMA PageEntries ==
  ASSUME NEW page, IsPage(page, uuid)
  PROVE  \A i \in DOMAIN page : page[i] \in Entries /\ page[i].real /\ IsGenuine(page[i])
BY DEF IsPage, IsGenuine

LEMMA DecryptedEntries ==
  ASSUME NEW page, NEW g, IsPage(page, g), NEW failed, NEW shown \in Decrypted(page, failed)
  PROVE  IsPage(shown, g)
<1>1. page \in Seq(Entries)  BY DEF IsPage
<1>2. shown \in Seq(Entries)  BY <1>1, DecryptedSelects
<1>3. PICK a \in [DOMAIN shown -> DOMAIN page] :
        /\ \A i \in DOMAIN shown : shown[i] = page[a[i]]
        /\ \A i, j \in DOMAIN shown : i < j => a[i] < a[j]
  BY <1>1, DecryptedSelects
<1>4. \A i \in DOMAIN shown :
        /\ shown[i].real /\ shown[i].group = g
        /\ relayer[shown[i].id].group = g
        /\ relayer[shown[i].id].order = shown[i].order
  BY <1>3 DEF IsPage
<1>5. \A i, j \in DOMAIN shown : i < j => shown[i].order < shown[j].order
  BY <1>3 DEF IsPage
<1> QED  BY <1>2, <1>4, <1>5 DEF IsPage

LEMMA MergeKeeps ==
  ASSUME TypeInv, UNCHANGED <<boardVars, uuid>>, NEW entry \in Entries, IsGenuine(entry),
         NEW merged \in MergeMessage(entry), SetMessages(merged)
  PROVE  ListInv'
<1>1. list \in Seq(Entries) /\ \A i \in DOMAIN list : IsGenuine(list[i])
  BY DEF TypeInv, ListInv
<1>2. /\ merged \in Seq(Entries)
      /\ \A i \in DOMAIN merged :
            merged[i] = entry \/ \E k \in DOMAIN list : merged[i] = list[k]
  BY <1>1, MergedShape
<1>3. \A i \in DOMAIN merged : IsGenuine(merged[i])  BY <1>1, <1>2
<1> QED  BY <1>2, <1>3, SetKeeps

(* A call is made. *)
LEMMA TypesAsk ==
  ASSUME TypeInv, UNCHANGED <<boardVars, viewVars, historyVars>>,
         NEW kind \in Kinds \ {"load"}, NEW id \in Ids \cup {NoId}, NEW before \in Nat,
         Ask(kind, id, before),
         kind = "more" => ~loading,
         kind = "send" => id \in Ids \ Stored /\ \A r \in requests : r.id # id,
         kind \in Changes => id \in Stored
  PROVE  TypeInv'
<1>0. PICK x : x = Request(kind, id, before)  OBVIOUS
<1> USE DEF viewVars, historyVars
<1>1. Cardinality(requests) < MaxRequests /\ requests' = requests \cup {x}
  BY <1>0 DEF Ask
<1>2. BoardInv' /\ ListInv' /\ SubscriptionInv'
  BY SameBoard, ListKeeps, SubscriptionKeeps
<1>3. IsFiniteSet(requests') /\ Cardinality(requests') <= MaxRequests
  BY <1>1, RequestsBound DEF TypeInv
<1>4. ASSUME NEW q \in requests PROVE IsRequest(q)'
  <2>1. q.kind = "send" /\ ~q.answered => q.id \notin Stored'
    BY SameBoard DEF TypeInv, RequestsInv, IsRequest
  <2> QED  BY <2>1, SameBoard, RequestsKeep
<1>5. IsRequest(x)'
  <2>1. /\ visit' \in 1..visit' /\ uuid \in Groups
    BY ChatAssumption DEF TypeInv, ChatAssumption
  <2>2. x = [kind |-> kind, id |-> id, group |-> uuid, visit |-> visit',
             before |-> before, answered |-> FALSE, page |-> <<>>, hasNext |-> FALSE]
    BY <1>0 DEF Request
  <2>3. <<>> \in Seq(Entries')  OBVIOUS
  <2>4. x \in [kind : Kinds, id : Ids \cup {NoId}, group : Groups,
              visit : 1..visit', before : Nat, answered : BOOLEAN,
              page : Seq(Entries'), hasNext : BOOLEAN]
    BY <2>1, <2>2, <2>3
  <2>5. IsPage(<<>>, uuid)'  BY DEF IsPage
  <2>6. Stored' = Stored  BY SameBoard
  <2>7. uuid' = uuid /\ loading' = loading  OBVIOUS
  <2> QED  BY <2>2, <2>4, <2>5, <2>6, <2>7 DEF IsRequest, Current, IsPage
<1>6. \A q, p \in requests' :
        /\ q.kind = "load" /\ p.kind = "load" /\ q.visit = p.visit => q = p
        /\ q.kind = "send" /\ p.kind = "send" /\ q.id = p.id => q = p
  <2>1. x.kind = kind /\ x.id = id  BY <1>0 DEF Request
  <2> QED  BY <1>1, <2>1 DEF TypeInv, RequestsInv
<1>7. RequestsInv'
  <2>1. \A q \in requests' : IsRequest(q)'  BY <1>1, <1>4, <1>5
  <2> QED  BY <1>3, <1>6, <2>1 DEF RequestsInv
<1> QED  BY <1>2, <1>7 DEF TypeInv

(* The relayer answers a request. *)
LEMMA AnsweredKeeps ==
  ASSUME TypeInv, Grows, UNCHANGED viewVars,
         NEW r \in requests, NEW page, NEW hasNext \in BOOLEAN, Answered(r, page, hasNext),
         IsPage(page, r.group)',
         r.kind \notin {"load", "more"} => page = <<>>,
         r.kind = "send" => r.id \in Stored',
         \A q \in requests \ {r} : q.kind = "send" /\ ~q.answered => q.id \notin Stored'
  PROVE  RequestsInv'
<1> USE DEF viewVars
<1>1. PICK x : x = [r EXCEPT !.answered = TRUE, !.page = page, !.hasNext = hasNext]
  OBVIOUS
<1>2. requests' = (requests \ {r}) \cup {x}  BY <1>1 DEF Answered
<1>3. IsFiniteSet(requests') /\ Cardinality(requests') <= MaxRequests
  BY <1>2, RequestsBound DEF TypeInv
<1>4. \A q \in requests \ {r} : IsRequest(q)'  BY RequestsKeep
<1>5. IsRequest(r)  BY DEF TypeInv, RequestsInv
<1>6. /\ x.kind = r.kind /\ x.id = r.id /\ x.group = r.group /\ x.visit = r.visit
      /\ x.before = r.before /\ x.answered = TRUE /\ x.page = page /\ x.hasNext = hasNext
  BY <1>1, <1>5 DEF IsRequest
<1>7. IsRequest(x)'
  <2>1. page \in Seq(Entries')  BY DEF IsPage
  <2>2. x \in [kind : Kinds, id : Ids \cup {NoId}, group : Groups,
              visit : 1..visit', before : Nat, answered : BOOLEAN,
              page : Seq(Entries'), hasNext : BOOLEAN]
    BY <1>1, <1>5, <2>1 DEF IsRequest
  <2>3. IsPage(x.page, x.group)'  BY <1>6 DEF IsPage
  <2>4. x.kind \in Changes => x.id \in Stored'  BY <1>5, <1>6 DEF IsRequest, Grows
  <2> QED  BY <1>5, <1>6, <2>2, <2>3, <2>4 DEF IsRequest, Current
<1>8. \A q, p \in requests' :
        /\ q.kind = "load" /\ p.kind = "load" /\ q.visit = p.visit => q = p
        /\ q.kind = "send" /\ p.kind = "send" /\ q.id = p.id => q = p
  BY <1>2, <1>6 DEF TypeInv, RequestsInv
<1> QED  BY <1>2, <1>3, <1>4, <1>7, <1>8 DEF RequestsInv

LEMMA TypesAnswerPage ==
  ASSUME TypeInv, NEW r \in requests, Answer(r), AnswerPage(r)
  PROVE  TypeInv'
<1> DEFINE ids == {id \in InGroup(r.group) : r.kind = "load" \/ relayer[id].order < r.before}
<1>1. PICK page \in Pages(ids) : Answered(r, page, Cardinality(ids) > PageLimit)
  BY DEF AnswerPage
<1>2. UNCHANGED <<boardVars, viewVars, undecrypted, disturbed, raced>>
  BY DEF Answer, AnswerPage, boardVars
<1>3. BoardInv' /\ ListInv' /\ SubscriptionInv'
  BY <1>2, SameBoard, ListKeeps, SubscriptionKeeps DEF viewVars
<1>4. r.group \in Groups /\ BoardInv  BY DEF TypeInv, RequestsInv, IsRequest
<1>5. IsPage(page, r.group)
  <2>1. ids \in SUBSET InGroup(r.group)  OBVIOUS
  <2> HIDE DEF ids
  <2> QED  BY <1>1, <1>4, <2>1, PageShape
<1>6. IsPage(page, r.group)'  BY <1>2, <1>5, SameBoard, PagesKeep
<1>8. \A q \in requests \ {r} : q.kind = "send" /\ ~q.answered => q.id \notin Stored'
  BY <1>2, SameBoard DEF TypeInv, RequestsInv, IsRequest
<1>9. r.kind \in {"load", "more"}  BY DEF AnswerPage
<1>10. RequestsInv'
  <2> HIDE DEF ids
  <2>1. (Cardinality(ids) > PageLimit) \in BOOLEAN  OBVIOUS
  <2> QED  BY <1>1, <1>2, <1>6, <1>8, <1>9, <2>1, SameBoard, AnsweredKeeps
<1> QED  BY <1>2, <1>3, <1>10 DEF TypeInv, viewVars

(* An order is given out, for another member or a call of this client. *)
LEMMA TypesTakeOrder ==
  ASSUME TypeInv, NEW id \in Ids \ DOMAIN taken, NEW g \in Groups, NEW own \in BOOLEAN,
         TakeOrder(id, g, own)
  PROVE  TypeInv'
<1>1. /\ BoardInv' /\ Grows /\ UNCHANGED <<relayer, viewVars, requests, historyVars>>
  BY TakeShape DEF TypeInv
<1>2. ListInv' /\ SubscriptionInv'  BY <1>1, ListKeeps, SubscriptionKeeps DEF viewVars
<1>3. Stored' = Stored  BY <1>1 DEF Stored
<1>4. \A q \in requests : IsRequest(q)'
  BY <1>1, <1>3, RequestsKeep DEF viewVars, TypeInv, RequestsInv, IsRequest
<1>5. RequestsInv'  BY <1>1, <1>4 DEF TypeInv, RequestsInv
<1> QED  BY <1>1, <1>2, <1>5 DEF TypeInv, viewVars, historyVars

LEMMA TypesReceive ==
  ASSUME TypeInv, NEW id \in Ids, NEW g \in Groups, Receive(id, g)
  PROVE  TypeInv'
BY TypesTakeOrder DEF Receive, IsUnused

LEMMA TypesReceiveSend ==
  ASSUME TypeInv, NEW r \in requests, ReceiveSend(r)
  PROVE  TypeInv'
<1>1. r.kind = "send" /\ r.id \notin DOMAIN taken /\ TakeOrder(r.id, r.group, TRUE)
  BY DEF ReceiveSend
<1>2. r.id \in Ids /\ r.group \in Groups  BY <1>1 DEF TypeInv, RequestsInv, IsRequest
<1> QED  BY <1>1, <1>2, TypesTakeOrder

(* A message is stored, and the call that waits for it is answered. *)
StoredAnswer(r, id) == [r EXCEPT !.answered = @ \/ (r.kind = "send" /\ r.id = id)]

LEMMA StoredAnswerShape ==
  ASSUME TypeInv, NEW r \in requests, NEW id, StoreMessage(id), NEW x, x = StoredAnswer(r, id)
  PROVE  /\ x.kind = r.kind /\ x.id = r.id /\ x.group = r.group /\ x.visit = r.visit
         /\ x.before = r.before /\ x.page = r.page /\ x.hasNext = r.hasNext
         /\ x.answered = (r.answered \/ (r.kind = "send" /\ r.id = id))
         /\ r.kind # "send" => x = r
         /\ r.kind = "send" => x.page = <<>>
         /\ IsRequest(x)'
<1>1. IsRequest(r)  BY DEF TypeInv, RequestsInv
<1>2. r \in [kind : Kinds, id : Ids \cup {NoId}, group : Groups,
              visit : 1..visit, before : Nat, answered : BOOLEAN,
              page : Seq(Entries), hasNext : BOOLEAN]
  BY <1>1 DEF IsRequest
<1>3. /\ x.kind = r.kind /\ x.id = r.id /\ x.group = r.group /\ x.visit = r.visit
      /\ x.before = r.before /\ x.page = r.page /\ x.hasNext = r.hasNext
      /\ x.answered = (r.answered \/ (r.kind = "send" /\ r.id = id))
  BY <1>2 DEF StoredAnswer
<1>4. r.kind # "send" => x = r
  <2>1. r.kind # "send" => x = [r EXCEPT !.answered = r.answered]
    BY <1>2 DEF StoredAnswer
  <2> QED  BY <1>2, <2>1
<1>5. BoardInv /\ UNCHANGED viewVars  BY DEF TypeInv, StoreMessage
<1>6. Grows /\ Stored' = Stored \cup {id}  BY <1>5, StoreShape
<1>7. CASE r.kind # "send"
  <2>1. IsRequest(r)'  BY <1>5, <1>6, <1>7, RequestsKeep DEF viewVars
  <2> QED  BY <1>1, <1>3, <1>4, <1>7, <2>1
<1>8. CASE r.kind = "send"
  <2>1. r.page = <<>> /\ x.page = <<>>  BY <1>1, <1>3, <1>8 DEF IsRequest
  <2>2. <<>> \in Seq(Entries')  OBVIOUS
  <2>3. x.answered \in BOOLEAN  BY <1>2, <1>3
  <2>4. x \in [kind : Kinds, id : Ids \cup {NoId}, group : Groups,
               visit : 1..visit', before : Nat, answered : BOOLEAN,
               page : Seq(Entries'), hasNext : BOOLEAN]
    <3>1. x = [kind |-> r.kind, id |-> r.id, group |-> r.group, visit |-> r.visit,
               before |-> r.before, answered |-> x.answered, page |-> r.page,
               hasNext |-> r.hasNext]
      BY <1>2 DEF StoredAnswer
    <3> QED  BY <1>2, <1>5, <2>1, <2>2, <2>3, <3>1 DEF viewVars
  <2>5. IsPage(x.page, x.group)'  BY <2>1 DEF IsPage
  <2>6. x.answered <=> x.id \in Stored'  BY <1>1, <1>3, <1>6, <1>8 DEF IsRequest
  <2>7. uuid' = uuid /\ visit' = visit  BY <1>5 DEF viewVars
  <2>8. IsRequest(x)'
    BY <1>1, <1>3, <1>8, <2>1, <2>4, <2>5, <2>6, <2>7 DEF IsRequest, Current, Changes
  <2> QED  BY <1>3, <1>8, <2>1, <2>8
<1> QED  BY <1>7, <1>8

LEMMA TypesStore ==
  ASSUME TypeInv, NEW id, StoreMessage(id)
  PROVE  TypeInv'
<1>1. /\ requests' = {StoredAnswer(r, id) : r \in requests}
      /\ UNCHANGED <<viewVars, undecrypted, raced>>
  BY DEF StoreMessage, StoredAnswer
<1>2. BoardInv' /\ Grows  BY StoreShape DEF TypeInv
<1>3. ListInv' /\ SubscriptionInv'
  BY <1>1, <1>2, ListKeeps, SubscriptionKeeps DEF viewVars
<1>4. \A x \in requests' : \E r \in requests :
        /\ x = StoredAnswer(r, id) /\ IsRequest(x)'
        /\ x.kind = r.kind /\ x.id = r.id /\ x.visit = r.visit
  BY <1>1, StoredAnswerShape
<1>5. IsFiniteSet(requests') /\ Cardinality(requests') <= MaxRequests
  <2>1. /\ IsFiniteSet(requests) /\ Cardinality(requests) \in Nat
        /\ Cardinality(requests) <= MaxRequests /\ MaxRequests \in Nat
    BY ChatAssumption, FS_CardinalityType DEF TypeInv, RequestsInv, ChatAssumption
  <2> DEFINE f == [r \in requests |-> StoredAnswer(r, id)]
  <2>2. f \in Surjection(requests, requests')
    BY <1>1 DEF Surjection
  <2> HIDE DEF f
  <2>3. IsFiniteSet(requests') /\ Cardinality(requests') <= Cardinality(requests)
    BY <2>1, <2>2, FS_Surjection
  <2>4. Cardinality(requests') \in Nat  BY <2>3, FS_CardinalityType
  <2> QED  BY <2>1, <2>3, <2>4
<1>6. \A x, y \in requests' :
        /\ x.kind = "load" /\ y.kind = "load" /\ x.visit = y.visit => x = y
        /\ x.kind = "send" /\ y.kind = "send" /\ x.id = y.id => x = y
  <2> TAKE x, y \in requests'
  <2>1. PICK r \in requests : /\ x = StoredAnswer(r, id)
                            /\ x.kind = r.kind /\ x.id = r.id /\ x.visit = r.visit
    BY <1>4
  <2>2. PICK q \in requests : /\ y = StoredAnswer(q, id)
                            /\ y.kind = q.kind /\ y.id = q.id /\ y.visit = q.visit
    BY <1>4
  <2> QED  BY <2>1, <2>2 DEF TypeInv, RequestsInv
<1>7. RequestsInv'
  <2>1. \A x \in requests' : IsRequest(x)'  BY <1>4
  <2> QED  BY <1>5, <1>6, <2>1 DEF RequestsInv
<1> QED  BY <1>1, <1>2, <1>3, <1>7 DEF TypeInv, viewVars

LEMMA TypesAnswerChange ==
  ASSUME TypeInv, NEW r \in requests, Answer(r), AnswerChange(r)
  PROVE  TypeInv'
<1> DEFINE content == IF r.kind = "edit" THEN "edited" ELSE "deleted"
<1>1. /\ r.kind \in Changes
      /\ relayer' = [relayer EXCEPT ![r.id].content = content]
      /\ Answered(r, <<>>, FALSE)
      /\ raced' \subseteq raced \cup {r.id}
      /\ UNCHANGED <<taken, orders, viewVars, undecrypted, disturbed>>
  BY DEF Answer, AnswerChange, Changes, Raced
<1>2. content \in Contents  BY DEF Contents
<1>3. r.id \in Stored /\ BoardInv  BY <1>1 DEF TypeInv, RequestsInv, IsRequest
<1> HIDE DEF content
<1>4. /\ BoardInv' /\ Grows /\ Stored' = Stored
      /\ \A g : InGroup(g)' = InGroup(g)
  BY <1>1, <1>2, <1>3, ChangeShape
<1>6. ListInv' /\ SubscriptionInv'
  BY <1>1, <1>4, ListKeeps, SubscriptionKeeps DEF viewVars
<1>7. \A q \in requests \ {r} : q.kind = "send" /\ ~q.answered => q.id \notin Stored'
  BY <1>4 DEF TypeInv, RequestsInv, IsRequest
<1>8. RequestsInv'
  <2>1. r.kind \notin {"load", "more", "send"}  BY <1>1 DEF Changes
  <2> QED  BY <1>1, <1>4, <1>7, <2>1, NoPageNext, AnsweredKeeps
<1>9. undecrypted' \cup raced' \subseteq Ids
  BY <1>1, <1>3 DEF TypeInv, BoardInv
<1> QED  BY <1>1, <1>4, <1>6, <1>8, <1>9 DEF TypeInv, viewVars

(* A request ends without a trace in the view. *)
LEMMA TypesDoneUnseen ==
  ASSUME TypeInv, NEW r \in requests, Done(r),
         UNCHANGED <<boardVars, viewVars, undecrypted>>, raced' \subseteq Ids
  PROVE  TypeInv'
<1>1. BoardInv' /\ ListInv' /\ SubscriptionInv'
  BY SameBoard, ListKeeps, SubscriptionKeeps DEF viewVars
<1>2. RequestsInv'  BY DoneKeeps DEF viewVars
<1> QED  BY <1>1, <1>2 DEF TypeInv, viewVars

(* The load has ended, one way or the other, and the subscription starts. *)
LEMMA TypesEndLoading ==
  ASSUME TypeInv, NEW r \in requests, r.kind = "load", Current(r), Done(r), ListInv',
         NEW loaded, EndLoading(loaded, lastOrder'), UNCHANGED <<boardVars, uuid, visit, raced>>,
         hasMore' \in BOOLEAN, undecrypted' \subseteq Ids
  PROVE  TypeInv'
<1>1. BoardInv'  BY SameBoard
<1>2. loading' = FALSE /\ subscription' = <<[cursor |-> lastOrder', page |-> <<>>]>>
  BY DEF EndLoading, Subscribed
<1>3. \A q \in requests \ {r} : ~(q.kind = "load" /\ Current(q))
  BY DEF TypeInv, RequestsInv, Current
<1>4. RequestsInv'  BY <1>2, <1>3, DoneKeeps
<1>5. SubscriptionInv'
  <2>1. lastOrder' \in Nat  BY DEF ListInv
  <2>2. IsPage(<<>>, uuid)'  BY DEF IsPage
  <2>3. /\ Open' /\ subscription'[1].cursor = lastOrder' /\ subscription'[1].page = <<>>
        /\ subscription' = <<[cursor |-> subscription'[1].cursor,
                              page |-> subscription'[1].page]>>
    BY <1>2 DEF Open
  <2>4. IsPage(subscription[1].page, uuid)'
    BY <2>3 DEF IsPage
  <2>5. \A i \in DOMAIN subscription'[1].page :
          subscription'[1].page[i].order > subscription'[1].cursor
    BY <2>3
  <2> QED  BY <1>2, <2>1, <2>3, <2>4, <2>5 DEF SubscriptionInv
<1> QED  BY <1>1, <1>4, <1>5 DEF TypeInv

(* The ids of an answered page. *)
LEMMA PageIds ==
  ASSUME TypeInv, NEW page, NEW g, IsPage(page, g),
         NEW failed \in SUBSET {page[i].id : i \in DOMAIN page}
  PROVE  failed \subseteq Stored /\ failed \subseteq Ids
<1>1. \A i \in DOMAIN page : page[i] \in Entries  BY DEF IsPage
<1>2. failed \subseteq Stored  BY <1>1 DEF Entries
<1> QED  BY <1>2 DEF TypeInv, BoardInv

LEMMA TypesResolveLoad ==
  ASSUME TypeInv, NEW r \in requests,
         NEW failed \in SUBSET {r.page[i].id : i \in DOMAIN r.page}, ResolveLoad(r, failed)
  PROVE  TypeInv'
<1>1. IsRequest(r)  BY DEF TypeInv, RequestsInv
<1>2. CASE Current(r)
  <2>1. PICK shown \in Decrypted(r.page, failed) : SetMessages(shown)
    BY <1>2 DEF ResolveLoad, IsWanted
  <2>2. /\ r.kind = "load" /\ Done(r) /\ UNCHANGED <<boardVars, uuid, visit, raced>>
        /\ hasMore' = r.hasNext /\ undecrypted' = undecrypted \cup failed
        /\ EndLoading(list', lastOrder')
    BY <1>2 DEF ResolveLoad, IsWanted
  <2>3. r.group = uuid /\ IsPage(r.page, r.group)  BY <1>1, <1>2 DEF IsRequest
  <2>4. IsPage(shown, uuid)  BY <2>3, DecryptedEntries
  <2>5. shown \in Seq(Entries) /\ \A i \in DOMAIN shown : IsGenuine(shown[i])
    BY <2>4, PageEntries DEF IsPage
  <2>6. ListInv'  BY <2>1, <2>2, <2>5, SetKeeps
  <2>7. undecrypted' \subseteq Ids  BY <2>2, <2>3, PageIds DEF TypeInv
  <2>8. hasMore' \in BOOLEAN  BY <1>1, <2>2 DEF IsRequest
  <2>9. PICK loaded : loaded = list' /\ EndLoading(loaded, lastOrder')
    BY <2>2
  <2> QED  BY <1>2, <2>2, <2>6, <2>7, <2>8, <2>9, TypesEndLoading
<1>3. CASE ~Current(r)
  BY <1>3, TypesDoneUnseen DEF ResolveLoad, IsWanted, TypeInv
<1> QED  BY <1>2, <1>3

LEMMA TypesFailLoad ==
  ASSUME TypeInv, NEW r \in requests, FailLoad(r)
  PROVE  TypeInv'
<1>1. CASE Current(r)
  <2>1. /\ r.kind = "load" /\ Done(r)
        /\ UNCHANGED <<boardVars, uuid, visit, raced, list, hasMore, lastOrder, undecrypted>>
        /\ EndLoading(<<>>, lastOrder)
    BY <1>1 DEF FailLoad
  <2>2. ListInv'  BY <2>1, SameBoard, ListKeeps
  <2>3. EndLoading(<<>>, lastOrder')  BY <2>1 DEF EndLoading
  <2>4. undecrypted' \subseteq Ids /\ hasMore' \in BOOLEAN  BY <2>1 DEF TypeInv
  <2> QED  BY <1>1, <2>1, <2>2, <2>3, <2>4, TypesEndLoading
<1>2. CASE ~Current(r)
  BY <1>2, TypesDoneUnseen DEF FailLoad, TypeInv
<1> QED  BY <1>1, <1>2

(* A request ends and the list is set. *)
LEMMA TypesDoneSeen ==
  ASSUME TypeInv, NEW r \in requests, Done(r), ListInv',
         UNCHANGED <<boardVars, uuid, visit, loading, subscription>>,
         hasMore' \in BOOLEAN, undecrypted' \cup raced' \subseteq Ids
  PROVE  TypeInv'
<1>1. BoardInv' /\ SubscriptionInv'  BY SameBoard, SubscriptionKeeps
<1>2. RequestsInv'  BY DoneKeeps
<1> QED  BY <1>1, <1>2 DEF TypeInv

LEMMA TypesResolveMore ==
  ASSUME TypeInv, NEW r \in requests,
         NEW failed \in SUBSET {r.page[i].id : i \in DOMAIN r.page}, ResolveMore(r, failed)
  PROVE  TypeInv'
<1>1. IsRequest(r)  BY DEF TypeInv, RequestsInv
<1>2. CASE r.group = uuid
  <2>1. PICK shown \in Decrypted(r.page, failed) : SetMessages(shown \o list)
    BY <1>2 DEF ResolveMore, WithOlder
  <2>2. /\ Done(r) /\ UNCHANGED <<boardVars, uuid, visit, loading, subscription, raced>>
        /\ hasMore' = r.hasNext /\ undecrypted' = undecrypted \cup failed
    BY <1>2 DEF ResolveMore
  <2>3. IsPage(r.page, uuid)  BY <1>1, <1>2 DEF IsRequest
  <2>4. IsPage(shown, uuid)  BY <2>3, DecryptedEntries
  <2>5. /\ shown \in Seq(Entries) /\ \A i \in DOMAIN shown : IsGenuine(shown[i])
        /\ list \in Seq(Entries) /\ \A i \in DOMAIN list : IsGenuine(list[i])
    BY <2>4, PageEntries DEF IsPage, TypeInv, ListInv
  <2>6. /\ shown \o list \in Seq(Entries)
        /\ \A i \in DOMAIN (shown \o list) : IsGenuine((shown \o list)[i])
    <3>1. \A i \in DOMAIN (shown \o list) :
            \/ i \in DOMAIN shown /\ (shown \o list)[i] = shown[i]
            \/ i - Len(shown) \in DOMAIN list /\ (shown \o list)[i] = list[i - Len(shown)]
      BY <2>5
    <3>2. \A i \in DOMAIN (shown \o list) :
            \/ \E k \in DOMAIN shown : (shown \o list)[i] = shown[k]
            \/ \E k \in DOMAIN list : (shown \o list)[i] = list[k]
      BY <3>1
    <3>3. \A i \in DOMAIN (shown \o list) : IsGenuine((shown \o list)[i])
      BY <2>5, <3>2
    <3> QED  BY <2>5, <3>3
  <2>7. ListInv'  BY <2>1, <2>2, <2>6, SetKeeps
  <2>8. undecrypted' \cup raced' \subseteq Ids  BY <2>2, <2>3, PageIds DEF TypeInv
  <2>9. hasMore' \in BOOLEAN  BY <1>1, <2>2 DEF IsRequest
  <2> QED  BY <2>2, <2>7, <2>8, <2>9, TypesDoneSeen
<1>3. CASE r.group # uuid
  BY <1>3, TypesDoneUnseen DEF ResolveMore, TypeInv
<1> QED  BY <1>2, <1>3

LEMMA OptimisticEntry ==
  ASSUME TypeInv, NEW r \in requests, r.kind = "send", r.answered
  PROVE  Optimistic(r) \in Entries /\ IsGenuine(Optimistic(r)) /\ r.id \in Stored
<1>1. IsRequest(r) /\ lastOrder \in Nat  BY DEF TypeInv, RequestsInv, ListInv
<1>2. r.id \in Stored /\ r.group \in Groups  BY <1>1 DEF IsRequest
<1> QED  BY <1>1, <1>2 DEF Optimistic, Entries, IsGenuine, Contents

LEMMA TypesResolveSend ==
  ASSUME TypeInv, NEW r \in requests, ResolveSend(r)
  PROVE  TypeInv'
<1>1. PICK merged \in MergeMessage(Optimistic(r)) : SetMessages(merged)
  BY DEF ResolveSend
<1>2. /\ r.kind = "send" /\ r.answered /\ Done(r)
      /\ UNCHANGED <<boardVars, uuid, visit, loading, hasMore, subscription,
                     undecrypted, raced>>
  BY DEF ResolveSend
<1>3. ListInv'  BY <1>1, <1>2, OptimisticEntry, MergeKeeps
<1> QED  BY <1>2, <1>3, TypesDoneSeen DEF TypeInv

(* An optimistic edit or delete changes the content of entries only. *)
LEMMA ChangedEntries ==
  ASSUME TypeInv, NEW r \in requests, NEW entries,
         entries = [i \in DOMAIN list |-> Changed(list[i], r)]
  PROVE  /\ entries \in Seq(Entries) /\ Len(entries) = Len(list)
         /\ \A i \in DOMAIN list :
               /\ entries[i].id = list[i].id /\ entries[i].group = list[i].group
               /\ entries[i].order = list[i].order /\ entries[i].real = list[i].real
               /\ IsGenuine(entries[i])
<1>1. list \in Seq(Entries) /\ \A i \in DOMAIN list : IsGenuine(list[i])
  BY DEF TypeInv, ListInv
<1>2. ASSUME NEW i \in DOMAIN list
      PROVE  /\ entries[i] \in Entries
             /\ entries[i].id = list[i].id /\ entries[i].group = list[i].group
             /\ entries[i].order = list[i].order /\ entries[i].real = list[i].real
  <2>1. list[i] \in Entries  BY <1>1
  <2>2. entries[i] = Changed(list[i], r)  OBVIOUS
  <2>3. \/ entries[i] = list[i]
        \/ entries[i] = [list[i] EXCEPT !.content = "deleted"]
        \/ entries[i] = [list[i] EXCEPT !.content = "edited"]
    BY <2>2 DEF Changed
  <2> QED  BY <2>1, <2>3 DEF Entries, Contents
<1>3. Len(list) \in Nat /\ DOMAIN list = 1..Len(list)  BY <1>1
<1>4. entries \in Seq(Entries) /\ Len(entries) = Len(list)  BY <1>2, <1>3
<1>5. \A i \in DOMAIN list : IsGenuine(entries[i])  BY <1>1, <1>2 DEF IsGenuine
<1> QED  BY <1>2, <1>4, <1>5

LEMMA TypesResolveChange ==
  ASSUME TypeInv, NEW r \in requests, ResolveChange(r)
  PROVE  TypeInv'
<1>1. PICK entries : entries = [i \in DOMAIN list |-> Changed(list[i], r)]
  OBVIOUS
<1>2. /\ r.kind \in Changes /\ Done(r) /\ SetMessages(entries)
      /\ UNCHANGED <<boardVars, uuid, visit, loading, hasMore, subscription, undecrypted>>
      /\ raced' \subseteq raced \cup {r.id}
  BY <1>1 DEF ResolveChange, Changes, Raced
<1>3. /\ entries \in Seq(Entries) /\ Len(entries) = Len(list)
      /\ \A i \in DOMAIN list : IsGenuine(entries[i])
  BY <1>1, ChangedEntries
<1>4. DOMAIN entries = DOMAIN list  BY <1>1
<1>5. ListInv'  BY <1>2, <1>3, <1>4, SetKeeps
<1>6. r.id \in Ids  BY <1>2 DEF TypeInv, RequestsInv, IsRequest, BoardInv
<1> QED  BY <1>2, <1>5, <1>6, TypesDoneSeen DEF TypeInv

LEMMA TypesFailOther ==
  ASSUME TypeInv, NEW r \in requests, FailOther(r)
  PROVE  TypeInv'
<1>1. /\ Done(r) /\ UNCHANGED <<boardVars, viewVars, undecrypted>>
      /\ raced' = raced \/ (r.kind \in Changes /\ raced' = raced \cup {r.id})
  BY DEF FailOther, Raced, Changes
<1>2. r.kind \in Changes => r.id \in Ids
  BY DEF TypeInv, RequestsInv, IsRequest, BoardInv
<1>3. raced' \subseteq Ids  BY <1>1, <1>2 DEF TypeInv
<1> QED  BY <1>1, <1>3, TypesDoneUnseen

(* The rest of a page is a page, beyond its first entry. *)
LEMMA PageTail ==
  ASSUME NEW page, NEW g, IsPage(page, g), page # <<>>
  PROVE  /\ Head(page) = page[1] /\ 1 \in DOMAIN page
         /\ Head(page) \in Entries
         /\ IsPage(Tail(page), g)
         /\ \A i \in DOMAIN Tail(page) :
               /\ i + 1 \in DOMAIN page /\ Tail(page)[i] = page[i + 1]
               /\ Tail(page)[i].order > Head(page).order
         /\ \A i \in DOMAIN page : i # 1 =>
               i - 1 \in DOMAIN Tail(page) /\ Tail(page)[i - 1] = page[i]
<1>1. page \in Seq(Entries)  BY DEF IsPage
<1>2. /\ Head(page) = page[1] /\ 1 \in DOMAIN page /\ Head(page) \in Entries
      /\ Tail(page) \in Seq(Entries)
      /\ \A i \in DOMAIN Tail(page) :
            i + 1 \in DOMAIN page /\ i \in Nat /\ i >= 1 /\ Tail(page)[i] = page[i + 1]
      /\ \A i \in DOMAIN page : i # 1 =>
            i - 1 \in DOMAIN Tail(page) /\ Tail(page)[i - 1] = page[i]
  BY <1>1
<1>0. \A i \in DOMAIN page : page[i] \in Entries  BY <1>1
<1>3. \A i \in DOMAIN page : page[i].order \in Nat  BY <1>0 DEF Entries
<1>4. \A i, j \in DOMAIN Tail(page) : i < j => Tail(page)[i].order < Tail(page)[j].order
  BY <1>2 DEF IsPage
<1>5. \A i \in DOMAIN Tail(page) : Tail(page)[i].order > Head(page).order
  <2>1. \A i \in DOMAIN Tail(page) : page[1].order < page[i + 1].order
    BY <1>2 DEF IsPage
  <2> QED  BY <1>2, <1>3, <2>1
<1>6. IsPage(Tail(page), g)  BY <1>2, <1>4 DEF IsPage
<1> QED  BY <1>2, <1>5, <1>6

(* The subscription moves on, within its group. *)
LEMMA TypesSubscription ==
  ASSUME TypeInv, UNCHANGED <<boardVars, uuid, visit, loading, hasMore, requests, raced>>,
         Open, ListInv', undecrypted' \subseteq Ids,
         NEW cursor \in Nat, NEW page, IsPage(page, uuid),
         \A i \in DOMAIN page : page[i].order > cursor,
         subscription' = <<[cursor |-> cursor, page |-> page]>>
  PROVE  TypeInv'
<1>1. BoardInv'  BY SameBoard
<1>2. RequestsInv'
  <2>1. \A q \in requests : IsRequest(q)'
    BY SameBoard, RequestsKeep DEF TypeInv, RequestsInv, IsRequest
  <2> QED  BY <2>1 DEF TypeInv, RequestsInv
<1>3. SubscriptionInv'
  <2>1. IsPage(page, uuid)'
    <3>1. PICK g : g = uuid  OBVIOUS
    <3>2. IsPage(page, g)'  BY <3>1, SameBoard, PagesKeep
    <3> QED  BY <3>1, <3>2 DEF IsPage
  <2>2. /\ Open' /\ subscription'[1].cursor = cursor /\ subscription'[1].page = page
        /\ subscription' = <<[cursor |-> subscription'[1].cursor,
                              page |-> subscription'[1].page]>>
    BY DEF Open
  <2>3. IsPage(subscription[1].page, uuid)'  BY <2>1, <2>2 DEF IsPage
  <2> QED  BY <2>2, <2>3 DEF SubscriptionInv, TypeInv
<1> QED  BY <1>1, <1>2, <1>3 DEF TypeInv

LEMMA TypesPoll ==
  ASSUME TypeInv, Poll
  PROVE  TypeInv'
<1> DEFINE cursor == subscription[1].cursor
           ids == {id \in InGroup(uuid) : relayer[id].order > cursor}
<1>1. PICK page \in Pages(ids) : subscription' = [subscription EXCEPT ![1].page = page]
  BY DEF Poll
<1>2. /\ Open /\ UNCHANGED <<boardVars, uuid, visit, list, loading, hasMore, lastOrder,
                             requests, undecrypted, disturbed, raced>>
  BY DEF Poll
<1>3. BoardInv /\ uuid \in Groups  BY DEF TypeInv
<1>4. cursor \in Nat
        /\ subscription = <<[cursor |-> cursor, page |-> subscription[1].page]>>
  BY <1>2 DEF TypeInv, SubscriptionInv
<1>5. /\ IsPage(page, uuid) /\ \A id : InPage(id, page) <=> id \in Lowest(ids)
  <2>1. ids \in SUBSET InGroup(uuid)  OBVIOUS
  <2> HIDE DEF ids
  <2> QED  BY <1>1, <1>3, <2>1, PageShape
<1>6. \A i \in DOMAIN page : page[i].order > cursor
  <2>1. \A i \in DOMAIN page : page[i].id \in ids  BY <1>5 DEF InPage, Lowest
  <2> QED  BY <1>5, <2>1 DEF IsPage
<1>7. subscription' = <<[cursor |-> cursor, page |-> page]>>
  BY <1>1, <1>4
<1>8. ListInv'  BY <1>2, SameBoard, ListKeeps
<1> HIDE DEF cursor
<1> QED  BY <1>2, <1>4, <1>5, <1>6, <1>7, <1>8, TypesSubscription DEF historyVars, TypeInv

LEMMA TypesRefusePoll ==
  ASSUME TypeInv, RefusePoll
  PROVE  TypeInv'
<1>1. /\ Open /\ subscription' = <<>>
      /\ UNCHANGED <<boardVars, uuid, visit, list, loading, hasMore, lastOrder,
                     requests, undecrypted, raced>>
  BY DEF RefusePoll, Closed, historyVars
<1>2. BoardInv' /\ ListInv'  BY <1>1, SameBoard, ListKeeps
<1>3. \A q \in requests : IsRequest(q)'
  BY <1>1, SameBoard, RequestsKeep DEF TypeInv, RequestsInv, IsRequest
<1>4. RequestsInv'  BY <1>1, <1>3 DEF TypeInv, RequestsInv
<1>5. SubscriptionInv'  BY <1>1 DEF SubscriptionInv, Open, TypeInv
<1> QED  BY <1>1, <1>2, <1>4, <1>5 DEF TypeInv

LEMMA TypesYield ==
  ASSUME TypeInv, NEW decrypts \in BOOLEAN, Yield(decrypts)
  PROVE  TypeInv'
<1> DEFINE page == subscription[1].page
           entry == Head(page)
<1>1. /\ Open /\ page # <<>>
      /\ subscription' = <<[cursor |-> entry.order, page |-> Tail(page)]>>
      /\ UNCHANGED <<boardVars, uuid, visit, loading, hasMore, requests, raced>>
      /\ undecrypted' \subseteq undecrypted \cup {entry.id}
      /\ \/ \E merged \in MergeMessage(entry) : SetMessages(merged)
         \/ UNCHANGED <<list, lastOrder>>
  BY DEF Yield
<1>2. IsPage(page, uuid)  BY <1>1 DEF TypeInv, SubscriptionInv
<1> HIDE DEF page
<1>3. /\ entry \in Entries /\ IsGenuine(entry)
      /\ IsPage(Tail(page), uuid)
      /\ \A i \in DOMAIN Tail(page) : Tail(page)[i].order > entry.order
  <2>1. IsGenuine(page[1])  BY <1>1, <1>2, PageTail, PageEntries
  <2> QED  BY <1>1, <1>2, <2>1, PageTail
<1> HIDE DEF entry
<1>4. ListInv'  BY <1>1, <1>3, SameBoard, ListKeeps, MergeKeeps
<1>5. entry.order \in Nat /\ entry.id \in Ids
  BY <1>3 DEF Entries, TypeInv, BoardInv
<1>6. undecrypted' \subseteq Ids  BY <1>1, <1>5 DEF TypeInv
<1> QED  BY <1>1, <1>3, <1>4, <1>5, <1>6, TypesSubscription

LEMMA TypesOpenGroup ==
  ASSUME TypeInv, NEW g \in Groups, OpenGroup(g)
  PROVE  TypeInv'
<1>1. PICK x : x = [Request("load", NoId, 0) EXCEPT !.group = g, !.visit = visit + 1]
  OBVIOUS
<1>2. /\ visit < MaxVisits /\ visit' = visit + 1 /\ uuid' = g /\ list' = <<>>
      /\ loading' = TRUE /\ hasMore' = FALSE /\ lastOrder' = 0 /\ subscription' = <<>>
      /\ Cardinality(requests) < MaxRequests /\ requests' = requests \cup {x}
      /\ undecrypted' = {} /\ UNCHANGED <<boardVars, raced>>
  BY <1>1 DEF OpenGroup, FirstOrder, Closed
<1>3. x = [kind |-> "load", id |-> NoId, group |-> g, visit |-> visit + 1,
           before |-> 0, answered |-> FALSE, page |-> <<>>, hasNext |-> FALSE]
  BY <1>1 DEF Request
<1>4. visit \in Nat \ {0} /\ visit' \in 1..MaxVisits /\ MaxVisits \in Nat
  BY <1>2, ChatAssumption DEF TypeInv, ChatAssumption
<1>5. BoardInv'  BY <1>2, SameBoard
<1>6. ListInv' /\ SubscriptionInv'
  <2>1. ListInv'
    <3>1. list' \in Seq(Entries') /\ DOMAIN list' = {}  BY <1>2
    <3> QED  BY <1>2, <3>1 DEF ListInv
  <2>2. SubscriptionInv'  BY <1>2 DEF SubscriptionInv, Open
  <2> QED  BY <2>1, <2>2
<1>7. RequestsInv'
  <2>1. IsFiniteSet(requests') /\ Cardinality(requests') <= MaxRequests
    BY <1>2, RequestsBound DEF TypeInv
  <2>2. ASSUME NEW q \in requests PROVE IsRequest(q)' /\ q.visit # visit + 1
    <3>1. IsRequest(q)  BY DEF TypeInv, RequestsInv
    <3>2. q.kind = "send" /\ ~q.answered => q.id \notin Stored'
      BY <1>2, <3>1, SameBoard DEF IsRequest
    <3>3. IsRequest(q)'  BY <1>2, <3>2, SameBoard, RequestsKeep
    <3> QED  BY <1>4, <3>1, <3>3 DEF IsRequest
  <2>3. IsRequest(x)'
    <3>1. <<>> \in Seq(Entries')  OBVIOUS
    <3>2. x \in [kind : Kinds, id : Ids \cup {NoId}, group : Groups,
                visit : 1..visit', before : Nat, answered : BOOLEAN,
                page : Seq(Entries'), hasNext : BOOLEAN]
      BY <1>2, <1>3, <1>4, <3>1 DEF Kinds
    <3>3. IsPage(<<>>, g)'  BY DEF IsPage
    <3> QED  BY <1>2, <1>3, <3>2, <3>3 DEF IsRequest, IsPage, Changes
  <2>4. \A q, p \in requests' :
          /\ q.kind = "load" /\ p.kind = "load" /\ q.visit = p.visit => q = p
          /\ q.kind = "send" /\ p.kind = "send" /\ q.id = p.id => q = p
    <3>1. x.kind = "load" /\ x.visit = visit + 1  BY <1>3
    <3> QED  BY <1>2, <2>2, <3>1 DEF TypeInv, RequestsInv
  <2>5. \A q \in requests' : IsRequest(q)'  BY <1>2, <2>2, <2>3
  <2> QED  BY <2>1, <2>4, <2>5 DEF RequestsInv
<1> QED  BY <1>2, <1>4, <1>5, <1>6, <1>7 DEF TypeInv

(* What the user asks for, and when. *)
IsAsked(kind, id, before) ==
    /\ kind \in Kinds \ {"load"} /\ id \in Ids \cup {NoId} /\ before \in Nat
    /\ Ask(kind, id, before)
    /\ kind = "more" => ~loading /\ hasMore /\ list # <<>> /\ before = list[1].order
    /\ kind = "send" => id \in Ids \ Stored /\ \A r \in requests : r.id # id
    /\ kind \in Changes => id \in Stored
    /\ kind = "edit" => IsShown(id, {"first"})

LEMMA AskShape ==
  ASSUME TypeInv,
         \/ \E id \in Ids : Send(id)
         \/ \E id \in ShownIds : Edit(id) \/ Delete(id)
         \/ LoadMore
  PROVE  /\ UNCHANGED <<boardVars, viewVars, historyVars>>
         /\ \E kind, id, before : IsAsked(kind, id, before)
<1>1. list \in Seq(Entries)  BY DEF TypeInv, ListInv
<1>2. \A i \in DOMAIN list : list[i].id \in Stored /\ list[i].order \in Nat
  <2>1. \A i \in DOMAIN list : list[i] \in Entries  BY <1>1
  <2> QED  BY <2>1 DEF Entries
<1>3. ASSUME NEW id \in Ids, Send(id)
      PROVE  UNCHANGED <<boardVars, viewVars, historyVars>> /\ IsAsked("send", id, 0)
  BY <1>3 DEF Send, IsUnused, IsAsked, Kinds, Changes, TypeInv, BoardInv
<1>4. ASSUME NEW id \in ShownIds, Edit(id)
      PROVE  UNCHANGED <<boardVars, viewVars, historyVars>> /\ IsAsked("edit", id, 0)
  <2>1. id \in Stored /\ id \in Ids  BY <1>2 DEF ShownIds, TypeInv, BoardInv
  <2> QED  BY <1>4, <2>1 DEF Edit, Offers, IsAsked, Kinds, Changes
<1>5. ASSUME NEW id \in ShownIds, Delete(id)
      PROVE  UNCHANGED <<boardVars, viewVars, historyVars>> /\ IsAsked("delete", id, 0)
  <2>1. id \in Stored /\ id \in Ids  BY <1>2 DEF ShownIds, TypeInv, BoardInv
  <2> QED  BY <1>5, <2>1 DEF Delete, IsAsked, Kinds, Changes
<1>6. ASSUME LoadMore
      PROVE  /\ UNCHANGED <<boardVars, viewVars, historyVars>>
             /\ IsAsked("more", NoId, list[1].order)
  <2>1. list # <<>>  BY <1>6 DEF LoadMore
  <2>2. 1 \in DOMAIN list  BY <1>1, <2>1
  <2>3. list[1].order \in Nat  BY <1>2, <2>2
  <2> QED  BY <1>6, <2>1, <2>3 DEF LoadMore, IsAsked, Kinds, Changes
<1> QED  BY <1>3, <1>4, <1>5, <1>6

(* The initial state has its types. *)
LEMMA InitTypes == Init => TypeInv
<1> SUFFICES ASSUME Init PROVE TypeInv
  OBVIOUS
<1>1. PICK x : x = Request("load", NoId, 0)  OBVIOUS
<1>2. /\ relayer = [id \in {} |-> 0] /\ uuid \in Groups /\ visit = 1 /\ list = <<>>
      /\ loading = TRUE /\ hasMore = FALSE /\ lastOrder = 0 /\ subscription = <<>>
      /\ requests = {x} /\ undecrypted = {} /\ raced = {}
      /\ taken = [id \in {} |-> 0] /\ orders = [g \in Groups |-> 0]
  BY <1>1 DEF Init, Closed
<1>3. x = [kind |-> "load", id |-> NoId, group |-> uuid, visit |-> 1, before |-> 0,
           answered |-> FALSE, page |-> <<>>, hasNext |-> FALSE]
  BY <1>1, <1>2 DEF Request
<1>4. MaxVisits \in Nat \ {0} /\ MaxRequests \in Nat \ {0}
  BY ChatAssumption DEF ChatAssumption
<1>5. Stored = {}  BY <1>2 DEF Stored
<1>6. BoardInv  BY <1>2, <1>5 DEF BoardInv, Orders
<1>7. ListInv
  <2>1. list \in Seq(Entries) /\ DOMAIN list = {}  BY <1>2
  <2> QED  BY <1>2, <2>1 DEF ListInv
<1>8. SubscriptionInv  BY <1>2 DEF SubscriptionInv, Open
<1>9. RequestsInv
  <2>1. IsFiniteSet(requests) /\ Cardinality(requests) <= MaxRequests
    <3>1. IsFiniteSet({x}) /\ Cardinality({x}) = 1  BY FS_Singleton
    <3> QED  BY <1>2, <1>4, <3>1
  <2>2. <<>> \in Seq(Entries)  OBVIOUS
  <2>3. x \in [kind : Kinds, id : Ids \cup {NoId}, group : Groups,
              visit : 1..visit, before : Nat, answered : BOOLEAN,
              page : Seq(Entries), hasNext : BOOLEAN]
    BY <1>2, <1>3, <2>2 DEF Kinds
  <2>4. IsRequest(x)
    BY <1>2, <1>3, <2>3, NoPage DEF IsRequest, Changes
  <2> QED  BY <1>2, <2>1, <2>4 DEF RequestsInv
<1>10. visit \in 1..MaxVisits /\ undecrypted \cup raced = {}  BY <1>2, <1>4
<1> QED  BY <1>2, <1>6, <1>7, <1>8, <1>9, <1>10 DEF TypeInv

(* Every step keeps the types. *)
LEMMA StepKeepsTypes ==
  ASSUME TypeInv, [Next]_vars
  PROVE  TypeInv'
<1>1. CASE \E id \in Ids : Send(id)  BY <1>1, AskShape, TypesAsk DEF IsAsked
<1>2. CASE \E id \in ShownIds : Edit(id) \/ Delete(id)
  BY <1>2, AskShape, TypesAsk DEF IsAsked
<1>3. CASE LoadMore  BY <1>3, AskShape, TypesAsk DEF IsAsked
<1>4. CASE \E g \in Groups : OpenGroup(g)  BY <1>4, TypesOpenGroup
<1>5. CASE \E r \in requests : Answer(r)
  BY <1>5, TypesAnswerPage, TypesAnswerChange DEF Answer
<1>6. CASE \E r \in requests : \E failed \in SUBSET {r.page[i].id : i \in DOMAIN r.page} :
             ResolveLoad(r, failed) \/ ResolveMore(r, failed)
  BY <1>6, TypesResolveLoad, TypesResolveMore
<1>7. CASE \E r \in requests : ResolveSend(r)  BY <1>7, TypesResolveSend
<1>8. CASE \E r \in requests : ResolveChange(r)  BY <1>8, TypesResolveChange
<1>9. CASE \E r \in requests : FailLoad(r)  BY <1>9, TypesFailLoad
<1>10. CASE \E r \in requests : FailOther(r)  BY <1>10, TypesFailOther
<1>11. CASE \E id \in Ids, g \in Groups : Receive(id, g)  BY <1>11, TypesReceive
<1>12. CASE Poll  BY <1>12, TypesPoll
<1>13. CASE \E decrypts \in BOOLEAN : Yield(decrypts)  BY <1>13, TypesYield
<1>15. CASE \E r \in requests : ReceiveSend(r)  BY <1>15, TypesReceiveSend
<1>16. CASE \E id \in Ids : StoreMessage(id)  BY <1>16, TypesStore
<1>17. CASE RefusePoll  BY <1>17, TypesRefusePoll
<1>14. CASE UNCHANGED vars
  <2>1. /\ UNCHANGED <<boardVars, uuid, visit, list, loading, hasMore, lastOrder,
                       subscription, requests, undecrypted, raced>>
    BY <1>14 DEF vars, viewVars, historyVars
  <2>2. BoardInv' /\ ListInv' /\ SubscriptionInv'
    BY <2>1, SameBoard, ListKeeps, SubscriptionKeeps
  <2>3. \A q \in requests : IsRequest(q)'
    BY <2>1, SameBoard, RequestsKeep DEF TypeInv, RequestsInv, IsRequest
  <2> QED  BY <2>1, <2>2, <2>3 DEF TypeInv, RequestsInv
<1> QED
  BY <1>1, <1>2, <1>3, <1>4, <1>5, <1>6, <1>7, <1>8, <1>9, <1>10, <1>11, <1>12,
     <1>13, <1>14, <1>15, <1>16, <1>17
  DEF Next, UserNext, AnswerNext

(* What this visit has been given, and what came behind it. *)
LEMMA InitRead == Init => ReadInv
BY DEF Init, ReadInv

LEMMA SeenWithPage ==
  ASSUME ReadInv, NEW page, NEW g, IsPage(page, g)
  PROVE  /\ SeenWith(page) \in Nat /\ seen <= SeenWith(page)
         /\ \A i \in DOMAIN page : page[i].order <= SeenWith(page)
         /\ page # <<>> => Len(page) \in DOMAIN page
<1>1. page \in Seq(Entries) /\ seen \in Nat  BY DEF IsPage, ReadInv
<1>2. \A i \in DOMAIN page : page[i] \in Entries  BY <1>1
<1>3. \A i \in DOMAIN page : page[i].order \in Nat  BY <1>2 DEF Entries
<1>4. CASE page = <<>>  BY <1>1, <1>4 DEF SeenWith
<1>5. CASE page # <<>>
  <2>1. Len(page) \in DOMAIN page /\ \A i \in DOMAIN page : i = Len(page) \/ i < Len(page)
    BY <1>1, <1>5
  <2>2. \A i \in DOMAIN page : page[i].order <= page[Len(page)].order
    <3>1. \A i \in DOMAIN page : i < Len(page) => page[i].order < page[Len(page)].order
      BY <2>1 DEF IsPage
    <3> QED  BY <1>3, <2>1, <3>1
  <2>3. page[Len(page)].order \in Nat  BY <1>3, <2>1
  <2>4. CASE page[Len(page)].order < seen
    BY <1>1, <1>3, <2>1, <2>2, <2>3, <2>4 DEF SeenWith
  <2>5. CASE ~(page[Len(page)].order < seen)
    BY <1>1, <1>5, <2>1, <2>2, <2>3, <2>5 DEF SeenWith
  <2> QED  BY <2>4, <2>5
<1> QED  BY <1>4, <1>5

(* The page of an answer, and of a poll. *)
LEMMA AnswerPageShape ==
  ASSUME TypeInv, NEW r \in requests,
         NEW page \in Pages({id \in InGroup(r.group) :
                               r.kind = "load" \/ relayer[id].order < r.before})
  PROVE  IsPage(page, r.group)
<1> DEFINE ids == {id \in InGroup(r.group) : r.kind = "load" \/ relayer[id].order < r.before}
<1>1. r.group \in Groups /\ BoardInv  BY DEF TypeInv, RequestsInv, IsRequest
<1>2. ids \in SUBSET InGroup(r.group)  OBVIOUS
<1> HIDE DEF ids
<1>3. page \in Pages(ids)  BY DEF ids
<1> QED  BY <1>1, <1>2, <1>3, PageShape

LEMMA PollPageShape ==
  ASSUME TypeInv,
         NEW page \in Pages({id \in InGroup(uuid) :
                               relayer[id].order > subscription[1].cursor})
  PROVE  IsPage(page, uuid)
<1> DEFINE ids == {id \in InGroup(uuid) : relayer[id].order > subscription[1].cursor}
<1>1. uuid \in Groups /\ BoardInv  BY DEF TypeInv
<1>2. ids \in SUBSET InGroup(uuid)  OBVIOUS
<1> HIDE DEF ids
<1>3. page \in Pages(ids)  BY DEF ids
<1> QED  BY <1>1, <1>2, <1>3, PageShape

LEMMA StepKeepsRead ==
  ASSUME TypeInv, ReadInv, [Next]_vars
  PROVE  ReadInv'
<1>1. ASSUME UNCHANGED readVars PROVE ReadInv'  BY <1>1 DEF readVars, ReadInv
<1>2. ASSUME NEW r \in requests, Answer(r) PROVE ReadInv'
  <2>1. late' = late  BY <1>2 DEF Answer
  <2>2. CASE AnswerPage(r)
    <3>1. PICK page \in Pages({id \in InGroup(r.group) :
                                r.kind = "load" \/ relayer[id].order < r.before}) :
            seen' = IF r.kind = "load" /\ Current(r) THEN SeenWith(page) ELSE seen
      BY <2>2 DEF AnswerPage
    <3>2. SeenWith(page) \in Nat  BY <3>1, AnswerPageShape, SeenWithPage
    <3> QED  BY <2>1, <3>1, <3>2 DEF ReadInv
  <2>3. CASE AnswerChange(r)  BY <2>1, <2>3 DEF AnswerChange, ReadInv
  <2> QED  BY <1>2, <2>2, <2>3 DEF Answer
<1>3. ASSUME NEW id \in Ids, StoreMessage(id) PROVE ReadInv'
  BY <1>3 DEF StoreMessage, ReadInv
<1>4. CASE Poll
  <2>1. PICK page \in Pages({id \in InGroup(uuid) :
                              relayer[id].order > subscription[1].cursor}) :
          seen' = SeenWith(page)
    BY <1>4 DEF Poll
  <2>2. SeenWith(page) \in Nat  BY <2>1, PollPageShape, SeenWithPage
  <2> QED  BY <1>4, <2>1, <2>2 DEF Poll, ReadInv
<1>5. ASSUME NEW g \in Groups, OpenGroup(g) PROVE ReadInv'
  BY <1>5 DEF OpenGroup, ReadInv
<1>6. CASE UserNext
  <2>1. CASE \E g \in Groups : OpenGroup(g)  BY <1>5, <2>1
  <2>2. CASE \E id \in Ids : Send(id)  BY <1>1, <2>2 DEF Send, historyVars
  <2>3. CASE \E id \in ShownIds : Edit(id) \/ Delete(id)
    BY <1>1, <2>3 DEF Edit, Delete, historyVars
  <2>4. CASE LoadMore  BY <1>1, <2>4 DEF LoadMore, historyVars
  <2> QED  BY <1>6, <2>1, <2>2, <2>3, <2>4 DEF UserNext
<1>7. CASE AnswerNext
  <2>1. CASE \E r \in requests : Answer(r)  BY <1>2, <2>1
  <2>2. CASE \E r \in requests : ReceiveSend(r)
    BY <1>1, <2>2 DEF ReceiveSend, TakeOrder, historyVars
  <2>3. CASE \E r \in requests : \E failed \in SUBSET {r.page[i].id : i \in DOMAIN r.page} :
               ResolveLoad(r, failed) \/ ResolveMore(r, failed)
    BY <1>1, <2>3 DEF ResolveLoad, ResolveMore
  <2>4. CASE \E r \in requests : ResolveSend(r) \/ ResolveChange(r)
    BY <1>1, <2>4 DEF ResolveSend, ResolveChange
  <2>5. CASE \E r \in requests : FailLoad(r) \/ FailOther(r)
    BY <1>1, <2>5 DEF FailLoad, FailOther
  <2> QED  BY <1>7, <2>1, <2>2, <2>3, <2>4, <2>5 DEF AnswerNext
<1>8. CASE \E id \in Ids, g \in Groups : Receive(id, g)
  BY <1>1, <1>8 DEF Receive, TakeOrder, historyVars
<1>9. CASE RefusePoll  BY <1>1, <1>9 DEF RefusePoll, historyVars
<1>10. CASE \E decrypts \in BOOLEAN : Yield(decrypts)  BY <1>1, <1>10 DEF Yield
<1>11. CASE UNCHANGED vars  BY <1>1, <1>11 DEF vars, historyVars
<1> QED
  BY <1>3, <1>4, <1>6, <1>7, <1>8, <1>9, <1>10, <1>11 DEF Next

LEMMA TypesImplied == TypeInv /\ ReadInv => TypeOK /\ OnlyThisGroup
<1> SUFFICES ASSUME TypeInv, ReadInv PROVE TypeOK /\ OnlyThisGroup
  OBVIOUS
<1>1. \A i \in DOMAIN list : list[i] \in Entries /\ IsGenuine(list[i])
  BY DEF TypeInv, ListInv
<1>2. \A i \in DOMAIN list :
        list[i].id \in Ids /\ list[i].order \in Nat /\ list[i].content \in Contents
  BY <1>1 DEF Entries, TypeInv, BoardInv
<1>3. OnlyThisGroup  BY <1>1 DEF OnlyThisGroup, IsGenuine
<1>4. TypeOK
  BY <1>2 DEF TypeOK, TypeInv, BoardInv, RequestsInv, ListInv, SubscriptionInv, ReadInv
<1> QED  BY <1>3, <1>4

(* The list, the calls under way and the subscription have their types,    *)
(* and the subscription runs only when the load has ended, for any number  *)
(* of groups opened and calls under way.                                   *)
THEOREM ListTypesHold == Spec => []TypeOK
<1>1. Init => TypeInv /\ ReadInv  BY InitTypes, InitRead
<1>2. TypeInv /\ ReadInv /\ [Next]_vars => (TypeInv /\ ReadInv)'
  BY StepKeepsTypes, StepKeepsRead
<1>3. TypeInv /\ ReadInv => TypeOK  BY TypesImplied
<1> QED  BY <1>1, <1>2, <1>3, PTL DEF Spec

(* However late an answer comes and however often the group has changed    *)
(* meanwhile, no message of another group is shown among those that came   *)
(* from the relayer.                                                       *)
THEOREM OnlyThisGroupIsShown == Spec => []OnlyThisGroup
<1>1. Init => TypeInv /\ ReadInv  BY InitTypes, InitRead
<1>2. TypeInv /\ ReadInv /\ [Next]_vars => (TypeInv /\ ReadInv)'
  BY StepKeepsTypes, StepKeepsRead
<1>3. TypeInv /\ ReadInv => OnlyThisGroup  BY TypesImplied
<1> QED  BY <1>1, <1>2, <1>3, PTL DEF Spec

-----------------------------------------------------------------------------
(* Nothing is passed over *)

(* While the group stays, a message that is new comes behind all that this *)
(* visit has been given, or is late.                                       *)
BoardMoves ==
    /\ Grows /\ BoardInv' /\ uuid' = uuid /\ visit' = visit
    /\ seen' \in Nat /\ seen <= seen' /\ late \subseteq late'
    /\ Early \subseteq Early'
    /\ \A id \in Early' : id \in Early \/ (id \notin Stored /\ relayer'[id].order > seen)

LEMMA SeenMoves ==
  ASSUME TypeInv, ReadInv, UNCHANGED <<boardVars, uuid, visit, late>>,
         seen' \in Nat, seen <= seen'
  PROVE  BoardMoves /\ Early' = Early
<1>1. InGroup(uuid)' = InGroup(uuid)  BY DEF InGroup, Stored, boardVars
<1>2. Early' = Early  BY <1>1 DEF Early
<1> QED  BY <1>2, SameBoard DEF BoardMoves

LEMMA SameBoardMoves ==
  ASSUME TypeInv, ReadInv, UNCHANGED <<boardVars, uuid, visit, readVars>>
  PROVE  BoardMoves /\ Early' = Early
<1>1. seen' = seen /\ late' = late /\ seen \in Nat  BY DEF readVars, ReadInv
<1> QED  BY <1>1, SeenMoves

LEMMA StoreMoves ==
  ASSUME TypeInv, ReadInv, NEW id, StoreMessage(id)
  PROVE  BoardMoves
<1>1. /\ BoardInv' /\ Grows /\ id \in Ids \ Stored
      /\ relayer'[id].order = taken[id].order
      /\ \A h : InGroup(h)' =
             IF h = taken[id].group THEN InGroup(h) \cup {id} ELSE InGroup(h)
  <2>1. BoardInv  BY DEF TypeInv
  <2>2. relayer'[id] = [group |-> taken[id].group, order |-> taken[id].order,
                        content |-> "first", own |-> taken[id].own]
    BY <2>1, StoreShape
  <2>3. relayer'[id].order = taken[id].order  BY <2>2
  <2> QED  BY <2>1, <2>3, StoreShape
<1>2. /\ uuid' = uuid /\ visit' = visit /\ seen' = seen
      /\ late' = IF taken[id].group = uuid /\ taken[id].order <= seen
                 THEN late \cup {id} ELSE late
  BY DEF StoreMessage, viewVars
<1>3. seen \in Nat  BY DEF ReadInv
<1>4. InGroup(uuid)' = IF uuid = taken[id].group THEN InGroup(uuid) \cup {id} ELSE InGroup(uuid)
  <2>1. PICK g : g = uuid  OBVIOUS
  <2>2. InGroup(g)' = IF g = taken[id].group THEN InGroup(g) \cup {id} ELSE InGroup(g)
    BY <1>1
  <2>3. InGroup(uuid)' = InGroup(g)'  BY <1>2, <2>1 DEF InGroup
  <2> QED  BY <2>1, <2>2, <2>3
<1>5. taken[id].order \in Nat
  BY DEF StoreMessage, TypeInv, BoardInv, Orders
<1>6. id \notin InGroup(uuid)  BY <1>1 DEF InGroup
<1>7. /\ Early \subseteq Early'
      /\ \A i \in Early' : i \in Early \/ (i = id /\ taken[id].order > seen)
  BY <1>2, <1>3, <1>4, <1>5, <1>6 DEF Early
<1> QED  BY <1>1, <1>2, <1>3, <1>7 DEF BoardMoves

LEMMA TakeMoves ==
  ASSUME TypeInv, ReadInv,
         NEW id, NEW g \in Groups, NEW own \in BOOLEAN, id \in Ids \ DOMAIN taken,
         TakeOrder(id, g, own)
  PROVE  BoardMoves /\ UNCHANGED <<viewVars, requests, historyVars>>
<1>1. relayer' = relayer /\ UNCHANGED <<viewVars, requests, historyVars>>
  BY DEF TakeOrder
<1>2. /\ uuid' = uuid /\ visit' = visit /\ seen' = seen /\ late' = late /\ seen \in Nat
  BY <1>1 DEF viewVars, historyVars, readVars, ReadInv
<1>3. BoardInv' /\ Stored' = Stored
  <2>1. BoardInv  BY DEF TypeInv
  <2>2. BoardInv'  BY <2>1, TakeShape
  <2> QED  BY <1>1, <2>2 DEF Stored
<1>4. Early' = Early  BY <1>1, <1>2 DEF Early, InGroup, Stored
<1>5. Grows  BY <1>1, <1>3 DEF Grows
<1> QED  BY <1>1, <1>2, <1>3, <1>4, <1>5 DEF BoardMoves

LEMMA AnswerMoves ==
  ASSUME TypeInv, ReadInv, NEW r \in requests, Answer(r)
  PROVE  BoardMoves
<1>1. UNCHANGED <<taken, orders, uuid, visit, late>>  BY DEF Answer, viewVars
<1>2. CASE AnswerPage(r)
  <2>1. PICK page \in Pages({id \in InGroup(r.group) :
                              r.kind = "load" \/ relayer[id].order < r.before}) :
          seen' = IF r.kind = "load" /\ Current(r) THEN SeenWith(page) ELSE seen
    BY <1>2 DEF AnswerPage
  <2>2. SeenWith(page) \in Nat /\ seen <= SeenWith(page)
    BY <2>1, AnswerPageShape, SeenWithPage
  <2>3. seen' \in Nat /\ seen <= seen'  BY <2>1, <2>2 DEF ReadInv
  <2>4. UNCHANGED boardVars  BY <1>1, <1>2 DEF AnswerPage, boardVars
  <2> QED  BY <1>1, <2>3, <2>4, SeenMoves
<1>3. CASE AnswerChange(r)
  <2> DEFINE content == IF r.kind = "edit" THEN "edited" ELSE "deleted"
  <2>1. r.id \in Stored /\ BoardInv
    BY <1>3 DEF AnswerChange, TypeInv, RequestsInv, IsRequest, Changes
  <2>2. relayer' = [relayer EXCEPT ![r.id].content = content] /\ content \in Contents
    BY <1>3 DEF AnswerChange, Contents
  <2> HIDE DEF content
  <2>3. Grows /\ BoardInv' /\ \A g : InGroup(g)' = InGroup(g)
    BY <1>1, <2>1, <2>2, ChangeShape
  <2>4. seen' = seen /\ seen \in Nat  BY <1>3 DEF AnswerChange, ReadInv
  <2>5. Early' = Early
    <3>1. InGroup(uuid)' = InGroup(uuid)
      <4>1. PICK g : g = uuid  OBVIOUS
      <4>2. InGroup(uuid)' = InGroup(g)'  BY <1>1, <4>1 DEF InGroup
      <4> QED  BY <2>3, <4>1, <4>2
    <3> QED  BY <1>1, <3>1 DEF Early
  <2> QED  BY <1>1, <2>3, <2>4, <2>5 DEF BoardMoves
<1> QED  BY <1>2, <1>3 DEF Answer

(* The orders of a page are those of its messages. *)
LEMMA OrdersOfPage ==
  ASSUME TypeInv, NEW page, NEW g, IsPage(page, g)
  PROVE  \A i \in DOMAIN page :
           /\ page[i].id \in InGroup(g) /\ page[i].order \in Nat \ {0}
           /\ page[i].order = relayer[page[i].id].order
<1>1. \A i \in DOMAIN page : page[i] \in Entries  BY DEF IsPage
<1>2. \A i \in DOMAIN page : page[i].id \in InGroup(g)
  BY <1>1 DEF IsPage, InGroup, Entries
<1>3. \A id \in InGroup(g) : relayer[id].order \in Nat \ {0}
  BY DEF TypeInv, BoardInv, InGroup
<1> QED  BY <1>2, <1>3 DEF IsPage

LEMMA ExactKeeps ==
  ASSUME TypeInv, ReadInv, BoardMoves, NEW page, NEW g, IsPage(page, g), NEW bound \in Nat,
         IsExact(page, bound), IsSeen(page)
  PROVE  IsExact(page, bound)' /\ IsSeen(page)'
<1>1. \A i \in DOMAIN page : page[i].order \in Nat /\ page[i].order <= seen
  BY OrdersOfPage DEF IsSeen
<1>2. seen \in Nat /\ seen' \in Nat /\ seen <= seen'  BY DEF BoardMoves, ReadInv
<1>3. IsSeen(page)'  BY <1>1, <1>2 DEF IsSeen
<1>4. ASSUME NEW id \in Early', relayer'[id].order > bound, ~InPage(id, page),
             NEW i \in DOMAIN page
      PROVE  page[i].order < relayer'[id].order
  <2>1. CASE id \in Early
    <3>1. relayer'[id].order = relayer[id].order
      BY <2>1 DEF BoardMoves, Grows, InGroup, Early
    <3> QED  BY <1>4, <2>1, <3>1 DEF IsExact
  <2>2. CASE id \notin Early
    <3>1. relayer'[id].order > seen  BY <1>4, <2>2 DEF BoardMoves
    <3>2. relayer'[id].order \in Nat
      BY <1>4 DEF BoardMoves, BoardInv, InGroup, Early
    <3> QED  BY <1>1, <1>2, <3>1, <3>2
  <2> QED  BY <2>1, <2>2
<1>5. IsExact(page, bound)'  BY <1>4 DEF IsExact, InPage
<1> QED  BY <1>3, <1>5

CoverAll == CoverInv /\ NothingPassedOver

IsCovered(r) == r.kind = "load" /\ r.answered /\ Current(r) =>
    IsExact(r.page, 0) /\ IsSeen(r.page)

LEMMA CoveredKeeps ==
  ASSUME TypeInv, ReadInv, BoardMoves, NEW r \in requests, IsCovered(r)
  PROVE  IsCovered(r)'
<1>1. IsPage(r.page, r.group) /\ visit' = visit
  BY DEF TypeInv, RequestsInv, IsRequest, BoardMoves
<1>2. SUFFICES ASSUME r.kind = "load" /\ r.answered /\ Current(r)
               PROVE  IsExact(r.page, 0)' /\ IsSeen(r.page)'
  BY <1>1 DEF IsCovered, Current
<1>3. IsExact(r.page, 0) /\ IsSeen(r.page)  BY <1>2 DEF IsCovered
<1>4. PICK page : page = r.page  OBVIOUS
<1>5. IsExact(page, 0)' /\ IsSeen(page)'
  BY <1>1, <1>3, <1>4, ExactKeeps
<1> QED  BY <1>4, <1>5

(* The subscription stays where it is: the list may only gain messages. *)
LEMMA CoverKeeps ==
  ASSUME TypeInv, ReadInv, CoverAll, BoardMoves, UNCHANGED <<loading, subscription>>,
         ShownIds \subseteq ShownIds', undecrypted \subseteq undecrypted',
         disturbed \subseteq disturbed',
         loading /\ disturbed' = {} => list' = <<>> /\ lastOrder' = 0,
         \A q \in requests' : q \in requests \/ IsCovered(q)'
  PROVE  CoverAll'
<1>1. \A q \in requests' : IsCovered(q)'
  BY CoveredKeeps DEF CoverAll, CoverInv, IsCovered
<1>2. Open' = Open  BY DEF Open
<1>3. ASSUME Open
      PROVE  /\ IsExact(subscription[1].page, subscription[1].cursor)'
             /\ IsSeen(subscription[1].page)'
             /\ "blind" \notin disturbed' =>
                   /\ subscription[1].cursor <= seen'
                   /\ \A id \in Early' :
                         relayer'[id].order <= subscription[1].cursor =>
                             id \in ShownIds' \cup undecrypted'
  <2>1. PICK page, cursor : page = subscription[1].page /\ cursor = subscription[1].cursor
    OBVIOUS
  <2>2. IsPage(page, uuid) /\ cursor \in Nat
    BY <1>3, <2>1 DEF TypeInv, SubscriptionInv
  <2>3. IsExact(page, cursor) /\ IsSeen(page)  BY <1>3, <2>1 DEF CoverAll, CoverInv
  <2>4. IsExact(page, cursor)' /\ IsSeen(page)'  BY <2>2, <2>3, ExactKeeps
  <2>5. IsExact(subscription[1].page, subscription[1].cursor)' /\ IsSeen(subscription[1].page)'
    BY <2>1, <2>4 DEF IsExact, IsSeen, InPage
  <2>6. ASSUME "blind" \notin disturbed'
        PROVE  /\ cursor <= seen'
               /\ \A id \in Early' :
                     relayer'[id].order <= cursor => id \in ShownIds' \cup undecrypted'
    <3>1. cursor <= seen /\ seen \in Nat /\ seen' \in Nat /\ seen <= seen'
      BY <1>3, <2>1, <2>6 DEF CoverAll, CoverInv, ReadInv, BoardMoves
    <3>2. cursor <= seen'  BY <2>2, <3>1
    <3>3. ASSUME NEW id \in Early', relayer'[id].order <= cursor
          PROVE  id \in ShownIds' \cup undecrypted'
      <4>1. relayer'[id].order \in Nat  BY DEF BoardMoves, BoardInv, InGroup, Early
      <4>2. ~(relayer'[id].order > seen)  BY <2>2, <3>1, <3>3, <4>1
      <4>3. id \in Early  BY <4>2 DEF BoardMoves
      <4>4. relayer'[id].order = relayer[id].order
        BY <4>3 DEF BoardMoves, Grows, InGroup, Early
      <4> QED
        BY <1>3, <2>1, <2>6, <3>3, <4>3, <4>4 DEF CoverAll, NothingPassedOver, Early
    <3> QED  BY <3>2, <3>3
  <2> QED  BY <2>1, <2>5, <2>6
<1>4. CoverInv'  BY <1>1, <1>2, <1>3 DEF CoverInv, IsCovered
<1>5. NothingPassedOver'  BY <1>2, <1>3 DEF NothingPassedOver, Early
<1> QED  BY <1>4, <1>5 DEF CoverAll

LEMMA CoverViewKeeps ==
  ASSUME TypeInv, ReadInv, CoverAll, BoardMoves,
         UNCHANGED <<viewVars, undecrypted, disturbed>>,
         \A q \in requests' : q \in requests \/ IsCovered(q)'
  PROVE  CoverAll'
<1>1. ShownIds' = ShownIds  BY DEF ShownIds, viewVars
<1>2. loading /\ disturbed' = {} => list' = <<>> /\ lastOrder' = 0
  BY DEF CoverAll, CoverInv, viewVars
<1> QED  BY <1>1, <1>2, CoverKeeps DEF viewVars

LEMMA CoverAnswer ==
  ASSUME TypeInv, ReadInv, CoverAll, NEW r \in requests, Answer(r)
  PROVE  CoverAll'
<1>1. UNCHANGED <<viewVars, undecrypted, disturbed>> /\ BoardMoves
  BY AnswerMoves DEF Answer
<1>2. CASE AnswerPage(r) /\ r.kind = "load" /\ Current(r)
  <2> DEFINE ids == {id \in InGroup(r.group) : r.kind = "load" \/ relayer[id].order < r.before}
  <2>0. PICK page \in Pages(ids) : /\ Answered(r, page, Cardinality(ids) > PageLimit)
                                   /\ seen' = SeenWith(page)
    BY <1>2 DEF AnswerPage
  <2>1. PICK hasNext : hasNext = (Cardinality(ids) > PageLimit) /\ Answered(r, page, hasNext)
    BY <2>0
  <2>2. r.group = uuid /\ uuid \in Groups /\ BoardInv
    BY <1>2 DEF TypeInv, RequestsInv, IsRequest
  <2>3. ids = {id \in InGroup(uuid) : relayer[id].order > 0}
    BY <1>2, <2>2 DEF BoardInv, InGroup
  <2>4. IsExact(page, 0)
    BY <2>0, <2>2, <2>3, PageIsExact
  <2>5. IsPage(page, uuid)
    BY <2>0, <2>2, AnswerPageShape
  <2>6. IsSeen(page)'  BY <2>0, <2>5, SeenWithPage DEF IsSeen
  <2>7. IsExact(page, 0)'
    <3>1. relayer' = relayer /\ late' = late /\ uuid' = uuid
      BY <1>1, <1>2 DEF AnswerPage, Answer, viewVars
    <3> QED  BY <2>4, <3>1 DEF IsExact, InPage, Early, InGroup, Stored
  <2>8. \A q \in requests' : q \in requests \/ IsCovered(q)'
    <3>1. PICK x : x = [r EXCEPT !.answered = TRUE, !.page = page, !.hasNext = hasNext]
      OBVIOUS
    <3>2. x.page = page
      BY <3>1 DEF TypeInv, RequestsInv, IsRequest
    <3>3. IsCovered(x)'  BY <2>6, <2>7, <3>2 DEF IsCovered, IsExact, IsSeen, InPage
    <3> QED  BY <2>1, <3>1, <3>3 DEF Answered
  <2> QED  BY <1>1, <2>8, CoverViewKeeps
<1>3. CASE ~(r.kind = "load" /\ Current(r))
  <2>1. \E page, hasNext : Answered(r, page, hasNext)
    BY DEF Answer, AnswerPage, AnswerChange
  <2>2. \A q \in requests' : q \in requests \/ (q.kind = r.kind /\ q.visit = r.visit)
    BY <2>1 DEF Answered, TypeInv, RequestsInv, IsRequest
  <2>3. visit' = visit  BY <1>1 DEF viewVars
  <2>4. \A q \in requests' : q \in requests \/ IsCovered(q)'
    BY <1>3, <2>2, <2>3 DEF IsCovered, Current
  <2> QED  BY <1>1, <2>4, CoverViewKeeps
<1> QED  BY <1>2, <1>3 DEF Answer, AnswerChange

LEMMA CoverTakeOrder ==
  ASSUME TypeInv, ReadInv, CoverAll,
         NEW id, NEW g \in Groups, NEW own \in BOOLEAN, id \in Ids \ DOMAIN taken,
         TakeOrder(id, g, own)
  PROVE  CoverAll'
BY TakeMoves, CoverViewKeeps DEF historyVars

LEMMA CoverStore ==
  ASSUME TypeInv, ReadInv, CoverAll, NEW id, StoreMessage(id)
  PROVE  CoverAll'
<1>1. BoardMoves /\ UNCHANGED <<viewVars, undecrypted, disturbed>>
  BY StoreMoves DEF StoreMessage
<1>2. ASSUME NEW q \in requests' PROVE q \in requests \/ IsCovered(q)'
  <2>1. PICK r \in requests : q = StoredAnswer(r, id)
    BY DEF StoreMessage, StoredAnswer
  <2>2. q.kind = r.kind /\ (r.kind # "send" => q = r)
    BY <2>1, StoredAnswerShape
  <2> QED  BY <2>2 DEF IsCovered
<1> QED  BY <1>1, <1>2, CoverViewKeeps

LEMMA CoverAsk ==
  ASSUME TypeInv, ReadInv, CoverAll, UNCHANGED <<boardVars, viewVars, historyVars>>,
         NEW kind, NEW id, NEW before, IsAsked(kind, id, before)
  PROVE  CoverAll'
<1>1. PICK x : x = Request(kind, id, before)  OBVIOUS
<1>2. requests' = requests \cup {x} /\ x.answered = FALSE
  BY <1>1 DEF IsAsked, Ask, Request
<1>3. \A q \in requests' : q \in requests \/ IsCovered(q)'
  BY <1>2 DEF IsCovered
<1> QED  BY <1>3, SameBoardMoves, CoverViewKeeps DEF historyVars, viewVars

(* Requests that are done are no concern, where the view stays. *)
LEMMA CoverDoneUnseen ==
  ASSUME TypeInv, ReadInv, CoverAll, NEW r \in requests, Done(r),
         UNCHANGED <<boardVars, viewVars, undecrypted, disturbed, readVars>>
  PROVE  CoverAll'
BY SameBoardMoves, CoverViewKeeps DEF Done, viewVars

(* The view after a step, written with its values: what CoverAll asks. *)
LEMMA CoverOpen ==
  ASSUME TypeInv, ReadInv, CoverAll, UNCHANGED <<boardVars, uuid, visit, late>>,
         seen' \in Nat, seen <= seen', requests' \subseteq requests,
         NEW cursor, NEW page, subscription' = <<[cursor |-> cursor, page |-> page]>>,
         loading' = FALSE,
         IsExact(page, cursor), \A i \in DOMAIN page : page[i].order <= seen',
         "blind" \notin disturbed' =>
             /\ cursor <= seen'
             /\ \A id \in Early :
                   relayer[id].order <= cursor => id \in ShownIds' \cup undecrypted'
  PROVE  CoverAll'
<1>1. BoardMoves /\ Early' = Early  BY SeenMoves
<1>2. relayer' = relayer  BY DEF boardVars
<1>3. \A q \in requests' : IsCovered(q)'
  BY <1>1, CoveredKeeps DEF CoverAll, CoverInv, IsCovered
<1>4. subscription'[1].cursor = cursor /\ subscription'[1].page = page /\ Open'
  BY DEF Open
<1>5. IsExact(subscription[1].page, subscription[1].cursor)' /\ IsSeen(subscription[1].page)'
  BY <1>1, <1>2, <1>4 DEF IsExact, IsSeen, InPage
<1>6. CoverInv'  BY <1>3, <1>4, <1>5 DEF CoverInv, IsCovered
<1>7. NothingPassedOver'
  BY <1>1, <1>2, <1>4 DEF NothingPassedOver, Early
<1> QED  BY <1>6, <1>7 DEF CoverAll

(* The load gave nothing: the subscription starts at the beginning. *)
LEMMA CoverEmptyLoad ==
  ASSUME TypeInv, ReadInv, CoverAll, NEW r \in requests, r.kind = "load", Current(r), Done(r),
         UNCHANGED <<boardVars, uuid, visit, lastOrder, readVars>>, EndLoading(<<>>, lastOrder')
  PROVE  CoverAll'
<1>1. /\ loading' = FALSE /\ subscription' = <<[cursor |-> lastOrder, page |-> <<>>]>>
      /\ disturbed' = IF disturbed # {} THEN disturbed \cup {"blind"} ELSE disturbed
  BY DEF EndLoading, Subscribed
<1>2. IsExact(<<>>, lastOrder)  BY DEF IsExact
<1>3. ASSUME "blind" \notin disturbed'
      PROVE  /\ lastOrder <= seen'
             /\ \A id \in Early :
                   relayer[id].order <= lastOrder => id \in ShownIds' \cup undecrypted'
  <2>1. loading  BY DEF TypeInv, RequestsInv, IsRequest
  <2>2. lastOrder = 0  BY <1>1, <1>3, <2>1 DEF CoverAll, CoverInv
  <2>3. seen' \in Nat  BY DEF ReadInv, readVars
  <2>4. \A id \in Early : relayer[id].order \in Nat \ {0}
    BY DEF TypeInv, BoardInv, InGroup, Early
  <2> QED  BY <2>2, <2>3, <2>4
<1>4. requests' \subseteq requests  BY DEF Done
<1>5. seen' \in Nat /\ seen <= seen' /\ UNCHANGED <<boardVars, uuid, visit, late>>
  BY DEF readVars, ReadInv
<1>6. \A i \in DOMAIN <<>> : <<>>[i].order <= seen'  OBVIOUS
<1> QED  BY <1>6, <1>1, <1>2, <1>3, <1>4, <1>5, CoverOpen

LEMMA CoverFailLoad ==
  ASSUME TypeInv, ReadInv, CoverAll, NEW r \in requests, FailLoad(r)
  PROVE  CoverAll'
<1>1. CASE Current(r)
  <2>1. EndLoading(<<>>, lastOrder')  BY <1>1 DEF FailLoad, EndLoading
  <2> QED  BY <1>1, <2>1, CoverEmptyLoad DEF FailLoad
<1>2. CASE ~Current(r)  BY <1>2, CoverDoneUnseen DEF FailLoad
<1> QED  BY <1>1, <1>2

LEMMA CoverResolveLoad ==
  ASSUME TypeInv, ReadInv, CoverAll, NEW r \in requests,
         NEW failed \in SUBSET {r.page[i].id : i \in DOMAIN r.page}, ResolveLoad(r, failed)
  PROVE  CoverAll'
<1>1. CASE ~Current(r)  BY <1>1, CoverDoneUnseen DEF ResolveLoad, IsWanted
<1>2. CASE Current(r)
  <2>1. PICK shown \in Decrypted(r.page, failed) : SetMessages(shown)
    BY <1>2 DEF ResolveLoad, IsWanted
  <2>2. /\ r.kind = "load" /\ r.answered /\ Done(r)
        /\ UNCHANGED <<boardVars, uuid, visit, readVars>>
        /\ undecrypted' = undecrypted \cup failed
        /\ EndLoading(list', lastOrder')
    BY <1>2 DEF ResolveLoad, IsWanted
  <2>3. list' = shown /\ lastOrder' = LastOrder(shown)  BY <2>1 DEF SetMessages
  <2>4. IsPage(r.page, uuid) /\ IsExact(r.page, 0) /\ IsSeen(r.page)
    BY <1>2, <2>2 DEF TypeInv, RequestsInv, IsRequest, CoverAll, CoverInv
  <2>5. IsPage(shown, uuid)  BY <2>1, <2>4, DecryptedEntries
  <2>6. CASE shown = <<>>
    BY <1>2, <2>2, <2>3, <2>6, CoverEmptyLoad DEF LastOrder
  <2>7. CASE shown # <<>>
    <3> DEFINE last == Len(shown)
    <3>1. shown \in Seq(Entries)  BY <2>5 DEF IsPage
    <3>2. last \in DOMAIN shown /\ \A i \in DOMAIN shown : i = last \/ i < last
      BY <2>7, <3>1
    <3>3. lastOrder' = shown[last].order  BY <2>3, <2>7 DEF LastOrder
    <3>4. /\ loading' = FALSE
          /\ subscription' = <<[cursor |-> shown[last].order, page |-> <<>>]>>
      BY <2>2, <3>3 DEF EndLoading, Subscribed
    <3>5. shown[last].order <= seen /\ shown[last].order \in Nat
      <4>1. r.page \in Seq(Entries)  BY <2>4 DEF IsPage
      <4>2. \E k \in DOMAIN r.page : shown[last] = r.page[k]
        BY <2>1, <3>2, <4>1, DecryptedSelects
      <4> QED  BY <2>4, <2>5, <3>2, <4>2, OrdersOfPage DEF IsSeen
    <3>6. ASSUME NEW id \in Early, relayer[id].order <= shown[last].order
          PROVE  id \in ShownIds' \cup undecrypted'
      <4>1. relayer[id].order \in Nat \ {0}
        BY DEF TypeInv, BoardInv, InGroup, Early
      <4>2. r.page \in Seq(Entries)  BY <2>4 DEF IsPage
      <4>3. PICK k \in DOMAIN r.page : shown[last] = r.page[k]
        BY <2>1, <3>2, <4>2, DecryptedSelects
      <4>4. ~(r.page[k].order < relayer[id].order)
        BY <3>5, <3>6, <4>1, <4>3
      <4>5. InPage(id, r.page)  BY <2>4, <4>1, <4>4 DEF IsExact
      <4>6. PICK m \in DOMAIN r.page : r.page[m].id = id  BY <4>5 DEF InPage
      <4>7. CASE id \in failed  BY <2>2, <4>7
      <4>8. CASE id \notin failed
        <5>1. \E i \in DOMAIN shown : shown[i] = r.page[m]
          BY <2>1, <4>2, <4>6, <4>8, DecryptedSelects
        <5> QED  BY <2>3, <4>6, <5>1 DEF ShownIds
      <4> QED  BY <4>7, <4>8
    <3>7. IsExact(<<>>, shown[last].order)  BY DEF IsExact
    <3>8. requests' \subseteq requests  BY <2>2 DEF Done
    <3>9. /\ seen' \in Nat /\ seen <= seen' /\ UNCHANGED <<boardVars, uuid, visit, late>>
          /\ shown[last].order <= seen'
      BY <2>2, <3>5 DEF readVars, ReadInv
    <3>10. \A i \in DOMAIN <<>> : <<>>[i].order <= seen'  OBVIOUS
    <3> HIDE DEF last
    <3> QED  BY <3>10, <3>4, <3>6, <3>7, <3>8, <3>9, CoverOpen
  <2> QED  BY <2>6, <2>7
<1> QED  BY <1>1, <1>2

LEMMA CoverResolveMore ==
  ASSUME TypeInv, ReadInv, CoverAll, NEW r \in requests,
         NEW failed \in SUBSET {r.page[i].id : i \in DOMAIN r.page}, ResolveMore(r, failed)
  PROVE  CoverAll'
<1>1. CASE r.group # uuid  BY <1>1, CoverDoneUnseen DEF ResolveMore
<1>2. CASE r.group = uuid
  <2>1. PICK shown \in Decrypted(r.page, failed) : SetMessages(shown \o list)
    BY <1>2 DEF ResolveMore, WithOlder
  <2>2. /\ Done(r) /\ UNCHANGED <<boardVars, uuid, visit, loading, subscription, readVars>>
        /\ undecrypted' = undecrypted \cup failed
        /\ disturbed' = IF IsStale(r) THEN disturbed \cup {"stale"} ELSE disturbed
        /\ list' = shown \o list
    BY <1>2, <2>1 DEF ResolveMore, SetMessages
  <2>3. shown \in Seq(Entries) /\ list \in Seq(Entries)
    <3>1. IsPage(r.page, r.group)  BY DEF TypeInv, RequestsInv, IsRequest
    <3>2. IsPage(shown, r.group)  BY <2>1, <3>1, DecryptedEntries
    <3> QED  BY <3>2 DEF IsPage, TypeInv, ListInv
  <2>4. ShownIds \subseteq ShownIds'
    <3>1. \A i \in DOMAIN list :
            /\ Len(shown) + i \in DOMAIN list'
            /\ list'[Len(shown) + i] = list[i]
      BY <2>2, <2>3
    <3> QED  BY <3>1 DEF ShownIds
  <2>5. ~(loading /\ disturbed' = {})
    <3>1. SUFFICES ASSUME loading, disturbed = {} PROVE IsStale(r)
      BY <2>2
    <3> QED  BY <3>1 DEF IsStale, CoverAll, CoverInv
  <2>6. requests' \subseteq requests  BY <2>2 DEF Done
  <2> QED  BY <2>2, <2>4, <2>5, <2>6, SameBoardMoves, CoverKeeps
<1> QED  BY <1>1, <1>2

LEMMA CoverResolveSend ==
  ASSUME TypeInv, ReadInv, CoverAll, NEW r \in requests, ResolveSend(r)
  PROVE  CoverAll'
<1>1. PICK merged \in MergeMessage(Optimistic(r)) : list' = merged
  BY DEF ResolveSend, SetMessages
<1>2. /\ r.kind = "send" /\ r.answered /\ requests' \subseteq requests
      /\ UNCHANGED <<boardVars, uuid, visit, loading, subscription, undecrypted, readVars>>
      /\ disturbed \subseteq disturbed' /\ "sent" \in disturbed'
  BY DEF ResolveSend, Done
<1>3. Optimistic(r) \in Entries /\ list \in Seq(Entries)
  BY <1>2, OptimisticEntry DEF TypeInv, ListInv
<1>4. ShownIds \subseteq ShownIds'
  <2>1. \A id \in ShownIds : \E i \in DOMAIN merged : merged[i].id = id
    BY <1>1, <1>3, MergedShape
  <2> QED  BY <1>1, <2>1 DEF ShownIds
<1> QED  BY <1>2, <1>4, SameBoardMoves, CoverKeeps

LEMMA CoverResolveChange ==
  ASSUME TypeInv, ReadInv, CoverAll, NEW r \in requests, ResolveChange(r)
  PROVE  CoverAll'
<1>1. /\ requests' \subseteq requests
      /\ UNCHANGED <<boardVars, uuid, visit, loading, subscription, undecrypted,
                     disturbed, readVars>>
      /\ list' = [i \in DOMAIN list |-> Changed(list[i], r)]
      /\ lastOrder' = LastOrder(list')
  BY DEF ResolveChange, Done, SetMessages
<1>2. /\ list' \in Seq(Entries) /\ Len(list') = Len(list)
      /\ \A i \in DOMAIN list : list'[i].id = list[i].id
  BY <1>1, ChangedEntries
<1>3. ShownIds \subseteq ShownIds'  BY <1>1, <1>2 DEF ShownIds
<1>4. loading /\ disturbed' = {} => list' = <<>> /\ lastOrder' = 0
  BY <1>1, <1>2 DEF CoverAll, CoverInv, LastOrder
<1> QED  BY <1>1, <1>3, <1>4, SameBoardMoves, CoverKeeps

LEMMA CoverPoll ==
  ASSUME TypeInv, ReadInv, CoverAll, Poll
  PROVE  CoverAll'
<1> DEFINE cursor == subscription[1].cursor
           ids == {id \in InGroup(uuid) : relayer[id].order > cursor}
<1>1. PICK page \in Pages(ids) : /\ subscription' = [subscription EXCEPT ![1].page = page]
                                 /\ seen' = SeenWith(page)
  BY DEF Poll
<1>2. Open /\ UNCHANGED <<boardVars, uuid, visit, list, loading, requests, undecrypted,
                          disturbed, late>>
  BY DEF Poll
<1>3. cursor \in Nat /\ uuid \in Groups /\ BoardInv /\ loading = FALSE
        /\ subscription = <<[cursor |-> cursor, page |-> subscription[1].page]>>
  BY <1>2 DEF TypeInv, SubscriptionInv
<1>4. subscription' = <<[cursor |-> cursor, page |-> page]>>  BY <1>1, <1>3
<1>5. IsPage(page, uuid)  BY <1>1, PollPageShape
<1>6. /\ seen' \in Nat /\ seen <= seen' /\ seen \in Nat
      /\ \A i \in DOMAIN page : page[i].order <= seen'
  BY <1>1, <1>5, SeenWithPage DEF ReadInv
<1>7. IsExact(page, cursor)
  <2> HIDE DEF cursor
  <2> QED  BY <1>1, <1>3, PageIsExact
<1>8. "blind" \notin disturbed =>
        /\ cursor <= seen
        /\ \A id \in Early :
              relayer[id].order <= cursor => id \in ShownIds \cup undecrypted
  BY <1>2 DEF CoverAll, CoverInv, NothingPassedOver, Early
<1>9. ShownIds' = ShownIds  BY <1>2 DEF ShownIds
<1> HIDE DEF cursor, ids
<1>10. "blind" \notin disturbed' => cursor <= seen'  BY <1>2, <1>3, <1>6, <1>8
<1> QED  BY <1>2, <1>3, <1>4, <1>6, <1>7, <1>8, <1>9, <1>10, CoverOpen

LEMMA CoverRefusePoll ==
  ASSUME TypeInv, ReadInv, CoverAll, RefusePoll
  PROVE  CoverAll'
<1>1. /\ UNCHANGED <<boardVars, uuid, visit, list, loading, lastOrder, requests,
                     disturbed, readVars>>
      /\ ~Open'
  BY DEF RefusePoll, Closed, Open, historyVars
<1>2. \A q \in requests' : IsCovered(q)'
  BY <1>1, SameBoardMoves, CoveredKeeps DEF CoverAll, CoverInv, IsCovered
<1> QED  BY <1>1, <1>2 DEF CoverAll, CoverInv, NothingPassedOver, IsCovered

LEMMA CoverYield ==
  ASSUME TypeInv, ReadInv, CoverAll, NEW decrypts \in BOOLEAN, Yield(decrypts)
  PROVE  CoverAll'
<1> DEFINE page == subscription[1].page
           cursor == subscription[1].cursor
           entry == Head(page)
<1>1. /\ Open /\ page # <<>>
      /\ subscription' = <<[cursor |-> entry.order, page |-> Tail(page)]>>
      /\ UNCHANGED <<boardVars, uuid, visit, loading, requests, disturbed, readVars>>
      /\ \/ /\ \E merged \in MergeMessage(entry) : list' = merged
            /\ undecrypted' = undecrypted
         \/ undecrypted' = undecrypted \cup {entry.id} /\ list' = list
  BY DEF Yield, SetMessages
<1>2. IsPage(page, uuid) /\ cursor \in Nat /\ loading = FALSE
  BY <1>1 DEF TypeInv, SubscriptionInv
<1>3. IsExact(page, cursor) /\ IsSeen(page)  BY <1>1 DEF CoverAll, CoverInv
<1>4. "blind" \notin disturbed =>
        \A id \in Early :
            relayer[id].order <= cursor => id \in ShownIds \cup undecrypted
  BY <1>1 DEF CoverAll, CoverInv, NothingPassedOver, Early
<1> HIDE DEF page, cursor
<1>5. /\ entry = page[1] /\ 1 \in DOMAIN page /\ entry \in Entries
      /\ \A i \in DOMAIN Tail(page) : i + 1 \in DOMAIN page /\ Tail(page)[i] = page[i + 1]
      /\ \A i \in DOMAIN page : i # 1 =>
            i - 1 \in DOMAIN Tail(page) /\ Tail(page)[i - 1] = page[i]
  BY <1>1, <1>2, PageTail
<1>6. /\ \A i \in DOMAIN page : page[i].order \in Nat
      /\ \A i \in DOMAIN page : page[i].order = relayer[page[i].id].order
      /\ entry.order <= seen /\ entry.order \in Nat
  BY <1>2, <1>3, <1>5, OrdersOfPage DEF IsSeen
<1>7. \A i \in DOMAIN page : i # 1 => entry.order < page[i].order
  <2>1. page \in Seq(Entries)  BY <1>2 DEF IsPage
  <2>2. \A i \in DOMAIN page : i # 1 => 1 < i  BY <2>1
  <2> QED  BY <1>2, <1>5, <2>2 DEF IsPage
<1>8. \A id \in Early : relayer[id].order \in Nat
  BY DEF TypeInv, BoardInv, InGroup, Early
<1>9. ShownIds \subseteq ShownIds' /\ undecrypted \subseteq undecrypted'
        /\ entry.id \in ShownIds' \cup undecrypted'
  <2>1. CASE list' = list /\ undecrypted' = undecrypted \cup {entry.id}
    BY <2>1 DEF ShownIds
  <2>2. CASE undecrypted' = undecrypted /\ \E merged \in MergeMessage(entry) : list' = merged
    <3> HIDE DEF entry
    <3>1. list \in Seq(Entries)  BY DEF TypeInv, ListInv
    <3>2. \A id \in ShownIds \cup {entry.id} : \E i \in DOMAIN list' : list'[i].id = id
      BY <1>5, <2>2, <3>1, MergedShape
    <3> QED  BY <2>2, <3>2 DEF ShownIds
  <2> QED  BY <1>1, <2>1, <2>2
<1> HIDE DEF entry
<1>10. IsExact(Tail(page), entry.order)
  <2> SUFFICES ASSUME NEW id \in Early, relayer[id].order > entry.order,
                      ~InPage(id, Tail(page)), NEW i \in DOMAIN Tail(page)
               PROVE  Tail(page)[i].order < relayer[id].order
    BY DEF IsExact
  <2>1. ~InPage(id, page)
    <3>1. SUFFICES ASSUME NEW k \in DOMAIN page, page[k].id = id PROVE FALSE
      BY DEF InPage
    <3>2. k # 1  BY <1>5, <1>6, <1>8, <3>1
    <3> QED  BY <1>5, <3>1, <3>2 DEF InPage
  <2>2. entry.order > cursor
    BY <1>1, <1>5 DEF page, cursor, TypeInv, SubscriptionInv
  <2>3. relayer[id].order > cursor  BY <1>2, <1>6, <1>8, <2>2
  <2>4. \A k \in DOMAIN page : page[k].order < relayer[id].order
    BY <1>3, <2>1, <2>3 DEF IsExact
  <2> QED  BY <1>5, <2>4
<1>11. ASSUME "blind" \notin disturbed', NEW id \in Early,
              relayer[id].order <= entry.order
       PROVE  id \in ShownIds' \cup undecrypted'
  <2>1. CASE relayer[id].order <= cursor  BY <1>1, <1>4, <1>9, <1>11, <2>1
  <2>2. CASE ~(relayer[id].order <= cursor)
    <3>1. relayer[id].order > cursor  BY <1>2, <1>8, <2>2
    <3>2. ~(page[1].order < relayer[id].order)  BY <1>5, <1>6, <1>8, <1>11
    <3>3. InPage(id, page)  BY <1>3, <1>5, <3>1, <3>2 DEF IsExact
    <3>4. PICK k \in DOMAIN page : page[k].id = id  BY <3>3 DEF InPage
    <3>5. k = 1
      <4>1. page[k].order = relayer[id].order  BY <1>6, <3>4
      <4> QED  BY <1>6, <1>7, <1>8, <1>11, <4>1
    <3> QED  BY <1>5, <1>9, <3>4, <3>5
  <2> QED  BY <2>1, <2>2
<1>12. /\ seen' \in Nat /\ seen <= seen' /\ UNCHANGED <<boardVars, uuid, visit, late>>
       /\ \A i \in DOMAIN Tail(page) : Tail(page)[i].order <= seen'
       /\ entry.order <= seen'
  BY <1>1, <1>3, <1>5, <1>6 DEF readVars, ReadInv, IsSeen
<1>13. requests' \subseteq requests /\ loading' = FALSE  BY <1>1, <1>2
<1> QED  BY <1>1, <1>10, <1>11, <1>12, <1>13, CoverOpen

LEMMA CoverOpenGroup ==
  ASSUME TypeInv, ReadInv, CoverAll, NEW g \in Groups, OpenGroup(g)
  PROVE  CoverAll'
<1>1. PICK x : x = [Request("load", NoId, 0) EXCEPT !.group = g, !.visit = visit + 1]
  OBVIOUS
<1>2. /\ requests' = requests \cup {x} /\ x.answered = FALSE
      /\ list' = <<>> /\ lastOrder' = 0 /\ subscription' = <<>> /\ UNCHANGED boardVars
  BY <1>1 DEF OpenGroup, Request, FirstOrder, Closed
<1>3. \A q \in requests' : IsCovered(q)'
  <2>1. visit' = visit + 1 /\ visit \in Nat  BY DEF OpenGroup, TypeInv
  <2>2. \A q \in requests : q.visit \in 1..visit  BY DEF TypeInv, RequestsInv, IsRequest
  <2> QED  BY <1>2, <2>1, <2>2 DEF IsCovered, Current
<1>4. ~Open'  BY <1>2 DEF Open
<1> QED  BY <1>2, <1>3, <1>4 DEF CoverAll, CoverInv, NothingPassedOver, IsCovered

LEMMA InitCover == Init => CoverAll
<1> SUFFICES ASSUME Init PROVE CoverAll
  OBVIOUS
<1>1. requests = {Request("load", NoId, 0)} /\ ~Open /\ list = <<>> /\ lastOrder = 0
  BY DEF Init, Open, Closed
<1>2. \A q \in requests : ~q.answered  BY <1>1 DEF Request
<1> QED  BY <1>1, <1>2 DEF CoverAll, CoverInv, NothingPassedOver

LEMMA StepKeepsCover ==
  ASSUME TypeInv, ReadInv, CoverAll, [Next]_vars
  PROVE  CoverAll'
<1>1. CASE \/ \E id \in Ids : Send(id)
           \/ \E id \in ShownIds : Edit(id) \/ Delete(id)
           \/ LoadMore
  BY <1>1, AskShape, CoverAsk
<1>4. CASE \E g \in Groups : OpenGroup(g)  BY <1>4, CoverOpenGroup
<1>5. CASE \E r \in requests : Answer(r)  BY <1>5, CoverAnswer
<1>6. CASE \E r \in requests : \E failed \in SUBSET {r.page[i].id : i \in DOMAIN r.page} :
             ResolveLoad(r, failed) \/ ResolveMore(r, failed)
  BY <1>6, CoverResolveLoad, CoverResolveMore
<1>7. CASE \E r \in requests : ResolveSend(r)  BY <1>7, CoverResolveSend
<1>8. CASE \E r \in requests : ResolveChange(r)  BY <1>8, CoverResolveChange
<1>9. CASE \E r \in requests : FailLoad(r)  BY <1>9, CoverFailLoad
<1>10. CASE \E r \in requests : FailOther(r)
  BY <1>10, CoverDoneUnseen DEF FailOther
<1>11. CASE \E id \in Ids, g \in Groups : Receive(id, g)
  BY <1>11, CoverTakeOrder DEF Receive, IsUnused
<1>12. CASE Poll \/ RefusePoll  BY <1>12, CoverPoll, CoverRefusePoll
<1>15. CASE \E r \in requests : ReceiveSend(r)
  BY <1>15, CoverTakeOrder DEF ReceiveSend, TypeInv, RequestsInv, IsRequest
<1>16. CASE \E id \in Ids : StoreMessage(id)  BY <1>16, CoverStore
<1>13. CASE \E decrypts \in BOOLEAN : Yield(decrypts)  BY <1>13, CoverYield
<1>14. CASE UNCHANGED vars
  BY <1>14, SameBoardMoves, CoverViewKeeps DEF vars, viewVars, historyVars
<1> QED
  BY <1>1, <1>4, <1>5, <1>6, <1>7, <1>8, <1>9, <1>10, <1>11, <1>12, <1>13, <1>14,
     <1>15, <1>16
  DEF Next, UserNext, AnswerNext

(* The load, the subscription that continues it and the messages stored    *)
(* between the two leave no gap but what the relayer stores behind an      *)
(* order it has given, for any number of messages and any limit.           *)
THEOREM NothingIsPassedOver == Spec => []NothingPassedOver
<1>1. Init => TypeInv /\ ReadInv /\ CoverAll  BY InitTypes, InitRead, InitCover
<1>2. TypeInv /\ ReadInv /\ CoverAll /\ [Next]_vars => (TypeInv /\ ReadInv /\ CoverAll)'
  BY StepKeepsTypes, StepKeepsRead, StepKeepsCover
<1>3. CoverAll => NothingPassedOver  BY DEF CoverAll
<1> QED  BY <1>1, <1>2, <1>3, PTL DEF Spec

-----------------------------------------------------------------------------
(* Shown once, and in order *)

(* ShownOnceInOrder, of any list. *)
OnceInOrder(entries, lost, marks) ==
    marks \cap {"stale", "overwritten"} = {} =>
        \A i, j \in DOMAIN entries : i < j =>
            /\ entries[i].id = entries[j].id => entries[i].id \in lost
            /\ "sent" \notin marks => entries[i].order < entries[j].order

OrderAll == OrderInv /\ ShownOnceInOrder

Lost == undecrypted \cup late

LEMMA OnceInOrderShown ==
  ShownOnceInOrder <=> OnceInOrder(list, Lost, disturbed)
BY DEF ShownOnceInOrder, OnceInOrder, Lost

LEMMA OnceInOrderShownNext ==
  ShownOnceInOrder' <=> OnceInOrder(list', Lost', disturbed')
BY DEF ShownOnceInOrder, OnceInOrder, Lost

(* What comes behind a full page leaves the first page as it is. *)
LEMMA FirstPageKeeps ==
  ASSUME TypeInv, ReadInv, BoardMoves, IsFull
  PROVE  IsFull' /\ FirstPage' = FirstPage
<1> DEFINE Full == {i \in Early : relayer[i].order <= seen}
           FullNext == {i \in Early' : relayer'[i].order <= seen'}
           Below(x) == {i \in Early : relayer[i].order < relayer[x].order}
           BelowNext(x) == {i \in Early' : relayer'[i].order < relayer'[x].order}
<1>1. /\ FirstPage = {x \in Early : Cardinality(Below(x)) < PageLimit}
      /\ FirstPage' = {x \in Early' : Cardinality(BelowNext(x)) < PageLimit}
  BY DEF FirstPage, Lowest
<1>2. Cardinality(Full) >= PageLimit /\ (IsFull' <=> Cardinality(FullNext) >= PageLimit)
  BY DEF IsFull
<1>3. /\ \A x \in Early : relayer'[x].order = relayer[x].order /\ relayer[x].order \in Nat
      /\ \A x \in Early' : relayer'[x].order \in Nat
  BY DEF BoardMoves, Grows, TypeInv, BoardInv, InGroup, Early
<1>4. /\ Early \subseteq Early' /\ seen \in Nat /\ seen' \in Nat /\ seen <= seen'
      /\ \A x \in Early' : x \in Early \/ relayer'[x].order > seen
  BY DEF BoardMoves, ReadInv
<1>5. IsFiniteSet(Early) /\ IsFiniteSet(Early')
  <2>1. Early \in SUBSET Ids /\ Early' \in SUBSET Ids
    BY DEF BoardMoves, TypeInv, BoardInv, InGroup, Early
  <2> QED  BY <2>1, ChatAssumption, FS_Subset DEF ChatAssumption
<1>6. PageLimit \in Nat  BY ChatAssumption DEF ChatAssumption
<1>7. Full \in SUBSET Early /\ Full \in SUBSET FullNext /\ FullNext \in SUBSET Early'
  BY <1>3, <1>4
<1>8. ASSUME NEW S, Full \subseteq S, S \in SUBSET Early \/ S \in SUBSET Early'
      PROVE  Cardinality(S) \in Nat /\ Cardinality(S) >= PageLimit
  <2> HIDE DEF Full
  <2>1. IsFiniteSet(S)  BY <1>5, <1>8, FS_Subset
  <2>2. Cardinality(Full) <= Cardinality(S) /\ Cardinality(S) \in Nat
    BY <1>8, <2>1, FS_Subset, FS_CardinalityType
  <2>3. Cardinality(Full) \in Nat
    BY <1>8, <2>1, FS_Subset, FS_CardinalityType
  <2> QED  BY <1>2, <1>6, <2>2, <2>3
<1>9. IsFull'
  <2> HIDE DEF Full, FullNext
  <2> QED  BY <1>2, <1>7, <1>8
<1>10. ASSUME NEW x \in Early', x \in FirstPage \/ x \in FirstPage'
       PROVE  x \in Early /\ relayer[x].order <= seen
  <2>1. CASE x \notin Early
    <3>1. Full \subseteq BelowNext(x)  BY <1>3, <1>4, <2>1
    <3>2. BelowNext(x) \in SUBSET Early'  OBVIOUS
    <3>3. Cardinality(BelowNext(x)) \in Nat /\ Cardinality(BelowNext(x)) >= PageLimit
      <4> HIDE DEF Full, BelowNext
      <4> QED  BY <1>8, <3>1, <3>2
    <3>4. x \notin FirstPage'
      <4> HIDE DEF BelowNext
      <4> QED  BY <1>1, <1>6, <3>3
    <3> QED  BY <1>1, <1>10, <2>1, <3>4
  <2>2. CASE x \in Early /\ ~(relayer[x].order <= seen)
    <3>1. Full \subseteq Below(x) /\ Full \subseteq BelowNext(x)
      BY <1>3, <1>4, <2>2
    <3>2. Below(x) \in SUBSET Early /\ BelowNext(x) \in SUBSET Early'  OBVIOUS
    <3> HIDE DEF Full, Below, BelowNext
    <3>3. Cardinality(Below(x)) \in Nat /\ Cardinality(Below(x)) >= PageLimit
      BY <1>8, <3>1, <3>2
    <3>4. Cardinality(BelowNext(x)) \in Nat /\ Cardinality(BelowNext(x)) >= PageLimit
      BY <1>8, <3>1, <3>2
    <3> QED  BY <1>1, <1>6, <1>10, <3>3, <3>4
  <2> QED  BY <2>1, <2>2
<1>11. ASSUME NEW x \in Early, relayer[x].order <= seen PROVE BelowNext(x) = Below(x)
  <2>1. \A i \in Early' : i \notin Early => ~(relayer'[i].order < relayer'[x].order)
    BY <1>3, <1>4, <1>11
  <2> QED  BY <1>3, <1>4, <2>1
<1>12. ASSUME NEW x \in Early' PROVE x \in FirstPage' <=> x \in FirstPage
  <2> HIDE DEF Below, BelowNext
  <2> QED  BY <1>1, <1>4, <1>10, <1>11
<1>13. FirstPage \subseteq Early' /\ FirstPage' \subseteq Early'
  BY <1>4 DEF FirstPage, Lowest
<1> QED  BY <1>9, <1>12, <1>13

LEMMA OrderlyKeeps ==
  ASSUME TypeInv, ReadInv, OrderInv, BoardMoves, disturbed \subseteq disturbed',
         NEW r \in requests
  PROVE  IsOrderly(r)'
<1>1. IsOrderly(r) /\ visit' = visit /\ late \subseteq late' /\ (IsSteady' => IsSteady)
  BY DEF OrderInv, BoardMoves, IsSteady
<1>2. SUFFICES ASSUME r.answered, Current(r)
               PROVE  /\ r.kind = "load" /\ r.hasNext =>
                            IsFull' /\ \A id \in FirstPage' : InPage(id, r.page)
                      /\ r.kind = "more" /\ IsSteady' => \A i \in DOMAIN r.page :
                            r.page[i].id \in FirstPage' \cup late' /\ r.page[i].order < r.before
  BY <1>1 DEF IsOrderly, Current, InPage
<1>3. ASSUME r.kind = "load", r.hasNext
      PROVE  IsFull' /\ \A id \in FirstPage' : InPage(id, r.page)
  BY <1>1, <1>2, <1>3, FirstPageKeeps DEF IsOrderly
<1>4. ASSUME r.kind = "more", IsSteady'
      PROVE  \A i \in DOMAIN r.page :
                r.page[i].id \in FirstPage' \cup late' /\ r.page[i].order < r.before
  <2>1. IsSteady /\ CanPage  BY <1>1, <1>2, <1>4 DEF CanPage
  <2>2. FirstPage' = FirstPage  BY <2>1, FirstPageKeeps DEF OrderInv
  <2> QED  BY <1>1, <1>2, <1>4, <2>1, <2>2 DEF IsOrderly
<1> QED  BY <1>3, <1>4

(* A step within a group: the list may lose its order or its start only    *)
(* where that is allowed.                                                  *)
LEMMA OrderKeeps ==
  ASSUME TypeInv, ReadInv, OrderAll, BoardMoves,
         \A q \in requests' : q \in requests \/ IsOrderly(q)',
         undecrypted \subseteq undecrypted', disturbed \subseteq disturbed',
         IsSteady' /\ CanPage' => CanPage,
         CanPage => loading' = loading,
         IsSteady' /\ CanPage /\ StartsHere => StartsHere' /\ list'[1].order = list[1].order,
         OnceInOrder(list', Lost', disturbed'),
         "sent" \notin disturbed' => \A i \in DOMAIN list' : list'[i].real
  PROVE  OrderAll'
<1>1. \A q \in requests' : IsOrderly(q)'
  BY OrderlyKeeps DEF OrderAll
<1>2. ASSUME IsSteady', CanPage'
      PROVE  /\ loading' = FALSE
             /\ IsFull'
             /\ \/ FirstPage' \subseteq undecrypted'
                \/ StartsHere' /\ Reached(list[1].order)'
  <2>1. CanPage /\ IsSteady  BY <1>2 DEF IsSteady
  <2>2. /\ loading = FALSE /\ IsFull
        /\ \/ FirstPage \subseteq undecrypted
           \/ StartsHere /\ Reached(list[1].order)
    BY <2>1 DEF OrderAll, OrderInv
  <2>3. IsFull' /\ FirstPage' = FirstPage  BY <2>2, FirstPageKeeps
  <2>4. loading' = FALSE  BY <2>1, <2>2
  <2>5. CASE FirstPage \subseteq undecrypted  BY <2>3, <2>4, <2>5
  <2>6. CASE StartsHere /\ Reached(list[1].order)
    <3>1. StartsHere' /\ list'[1].order = list[1].order  BY <1>2, <2>1, <2>6
    <3>2. \A id \in FirstPage : relayer'[id].order = relayer[id].order
      BY DEF BoardMoves, Grows, FirstPage, Lowest, InGroup, Early
    <3>3. Reached(list[1].order)'
      BY <2>3, <2>6, <3>1, <3>2 DEF Reached
    <3> QED  BY <2>3, <2>4, <3>1, <3>3
  <2> QED  BY <2>2, <2>5, <2>6
<1>3. OrderInv'  BY <1>1, <1>2 DEF OrderInv
<1> QED  BY <1>3, OnceInOrderShownNext DEF OrderAll

(* The view stays as it is. *)
LEMMA OrderViewKeeps ==
  ASSUME TypeInv, ReadInv, OrderAll, BoardMoves,
         UNCHANGED <<viewVars, undecrypted, disturbed>>,
         \A q \in requests' : q \in requests \/ IsOrderly(q)',
         \A q \in requests' : q.kind = "more" =>
             CanPage \/ \E p \in requests : p.kind = "more" /\ p.visit = q.visit
  PROVE  OrderAll'
<1>1. UNCHANGED <<uuid, visit, list, loading, hasMore, subscription>>  BY DEF viewVars
<1>2. CanPage' => CanPage  BY <1>1 DEF CanPage, Current
<1>3. StartsHere' <=> StartsHere  BY <1>1 DEF StartsHere, Begins, Open
<1>4. OnceInOrder(list', Lost', disturbed')
  <2>1. OnceInOrder(list, Lost, disturbed)  BY OnceInOrderShown DEF OrderAll
  <2>2. Lost \subseteq Lost'  BY DEF Lost, BoardMoves
  <2> QED  BY <1>1, <2>1, <2>2 DEF OnceInOrder
<1>5. "sent" \notin disturbed' => \A i \in DOMAIN list' : list'[i].real
  BY <1>1 DEF OrderAll, OrderInv
<1> QED  BY <1>1, <1>2, <1>3, <1>4, <1>5, OrderKeeps

(* Until the first page has been given, nothing can be late. *)
UnreadInv ==
    \A r \in requests : r.kind = "load" /\ Current(r) /\ ~r.answered =>
        seen = 0 /\ late = {}

LEMMA UnreadStays ==
  ASSUME UnreadInv, UNCHANGED <<visit, readVars>>,
         \A q \in requests' : q \in requests \/ q.kind # "load" \/ q.answered
  PROVE  UnreadInv'
BY DEF UnreadInv, Current, readVars

LEMMA UnreadAnswer ==
  ASSUME TypeInv, UnreadInv, NEW r \in requests, Answer(r)
  PROVE  UnreadInv'
<1>1. visit' = visit /\ late' = late  BY DEF Answer, viewVars
<1>2. \E page, hasNext : Answered(r, page, hasNext)
  BY DEF Answer, AnswerPage, AnswerChange
<1>3. \A q \in requests' : q \in requests \ {r} \/ q.answered
  BY <1>2 DEF Answered, TypeInv, RequestsInv, IsRequest
<1>4. CASE r.kind = "load" /\ Current(r)
  <2>1. \A q \in requests \ {r} : ~(q.kind = "load" /\ Current(q))
    BY <1>4 DEF TypeInv, RequestsInv, Current
  <2> QED  BY <1>1, <1>3, <2>1 DEF UnreadInv, Current
<1>5. CASE ~(r.kind = "load" /\ Current(r))
  <2>1. seen' = seen  BY <1>5 DEF Answer, AnswerPage, AnswerChange
  <2> QED  BY <1>1, <1>3, <2>1 DEF UnreadInv, Current
<1> QED  BY <1>4, <1>5

LEMMA UnreadStore ==
  ASSUME TypeInv, UnreadInv, NEW id, StoreMessage(id)
  PROVE  UnreadInv'
<1>1. /\ visit' = visit /\ seen' = seen
      /\ late' = IF taken[id].group = uuid /\ taken[id].order <= seen
                 THEN late \cup {id} ELSE late
  BY DEF StoreMessage, viewVars
<1>2. taken[id].order \in Nat \ {0}
  BY DEF StoreMessage, TypeInv, BoardInv, Orders
<1>3. seen = 0 => late' = late  BY <1>1, <1>2
<1>4. ASSUME NEW q \in requests', q.kind = "load" PROVE q \in requests
  <2>1. PICK r \in requests : q = StoredAnswer(r, id)
    BY DEF StoreMessage, StoredAnswer
  <2> QED  BY <1>4, <2>1, StoredAnswerShape
<1> QED  BY <1>1, <1>3, <1>4 DEF UnreadInv, Current

LEMMA UnreadPoll ==
  ASSUME TypeInv, UnreadInv, Poll
  PROVE  UnreadInv'
<1>1. Open /\ UNCHANGED <<visit, requests>>  BY DEF Poll
<1>2. ~loading  BY <1>1 DEF TypeInv, SubscriptionInv
<1>3. \A q \in requests : ~(q.kind = "load" /\ Current(q))
  BY <1>2 DEF TypeInv, RequestsInv, IsRequest
<1> QED  BY <1>1, <1>3 DEF UnreadInv, Current

LEMMA StepKeepsUnread ==
  ASSUME TypeInv, UnreadInv, [Next]_vars
  PROVE  UnreadInv'
<1>1. CASE \/ \E id \in Ids : Send(id)
           \/ \E id \in ShownIds : Edit(id) \/ Delete(id)
           \/ LoadMore
  <2>1. PICK kind, id, before : IsAsked(kind, id, before)  BY <1>1, AskShape
  <2>2. UNCHANGED <<visit, readVars>>  BY <1>1, AskShape DEF viewVars, historyVars
  <2>3. \A q \in requests' : q \in requests \/ q.kind # "load"
    BY <2>1 DEF IsAsked, Ask, Request
  <2> QED  BY <2>2, <2>3, UnreadStays
<1>2. CASE \E g \in Groups : OpenGroup(g)
  BY <1>2 DEF OpenGroup, UnreadInv
<1>3. CASE \E r \in requests : Answer(r)  BY <1>3, UnreadAnswer
<1>4. CASE \E r \in requests : \E failed \in SUBSET {r.page[i].id : i \in DOMAIN r.page} :
             ResolveLoad(r, failed) \/ ResolveMore(r, failed)
  <2>1. UNCHANGED <<visit, readVars>> /\ requests' \subseteq requests
    BY <1>4 DEF ResolveLoad, ResolveMore, Done, viewVars
  <2> QED  BY <2>1, UnreadStays
<1>5. CASE \E r \in requests : ResolveSend(r) \/ ResolveChange(r)
  <2>1. UNCHANGED <<visit, readVars>> /\ requests' \subseteq requests
    BY <1>5 DEF ResolveSend, ResolveChange, Done
  <2> QED  BY <2>1, UnreadStays
<1>6. CASE \E r \in requests : FailLoad(r) \/ FailOther(r)
  <2>1. UNCHANGED <<visit, readVars>> /\ requests' \subseteq requests
    BY <1>6 DEF FailLoad, FailOther, Done, viewVars
  <2> QED  BY <2>1, UnreadStays
<1>7. CASE \/ \E id \in Ids, g \in Groups : Receive(id, g)
           \/ \E r \in requests : ReceiveSend(r)
  <2>1. UNCHANGED <<visit, readVars, requests>>
    BY <1>7 DEF Receive, ReceiveSend, TakeOrder, viewVars, historyVars
  <2> QED  BY <2>1, UnreadStays
<1>8. CASE \E id \in Ids : StoreMessage(id)  BY <1>8, UnreadStore
<1>9. CASE Poll  BY <1>9, UnreadPoll
<1>10. CASE RefusePoll \/ (\E decrypts \in BOOLEAN : Yield(decrypts)) \/ UNCHANGED vars
  <2>1. UNCHANGED <<visit, readVars, requests>>
    BY <1>10 DEF RefusePoll, Yield, vars, viewVars, historyVars
  <2> QED  BY <2>1, UnreadStays
<1> QED
  BY <1>1, <1>2, <1>3, <1>4, <1>5, <1>6, <1>7, <1>8, <1>9, <1>10
  DEF Next, UserNext, AnswerNext

(* The pages that answers bring. *)
LEMMA LoadedPage ==
  ASSUME TypeInv, ReadInv, UnreadInv, NEW r \in requests, r.kind = "load", ~r.answered,
         Current(r), Answer(r)
  PROVE  \E page, hasNext : /\ Answered(r, page, hasNext)
                            /\ \A id \in FirstPage' : InPage(id, page)
                            /\ hasNext => IsFull'
<1> DEFINE ids == {id \in InGroup(r.group) : r.kind = "load" \/ relayer[id].order < r.before}
<1>1. PICK page \in Pages(ids) : /\ Answered(r, page, Cardinality(ids) > PageLimit)
                                 /\ seen' = SeenWith(page)
  BY DEF Answer, AnswerPage, AnswerChange
<1>2. /\ r.group = uuid /\ BoardInv /\ uuid \in Groups /\ late = {} /\ late' = late
      /\ UNCHANGED <<relayer, uuid>>
  BY DEF TypeInv, RequestsInv, IsRequest, UnreadInv, Answer, AnswerPage, AnswerChange, viewVars
<1>3. ids = Early /\ Early' = Early /\ FirstPage' = FirstPage
        /\ ids \in SUBSET InGroup(uuid)
  BY <1>2 DEF Early, InGroup, Stored, FirstPage, Lowest
<1>4. PICK hasNext : hasNext = (Cardinality(ids) > PageLimit) /\ Answered(r, page, hasNext)
  BY <1>1
<1>5. IsPage(page, uuid)  BY <1>1, <1>2, AnswerPageShape
<1> HIDE DEF ids
<1>6. \A id : InPage(id, page) <=> id \in Lowest(ids)
  BY <1>1, <1>2, <1>3, PageShape
<1>7. \A id \in FirstPage' : InPage(id, page)  BY <1>3, <1>6 DEF FirstPage
<1>8. ASSUME hasNext PROVE IsFull'
  <2> DEFINE full == {id \in Early : relayer[id].order <= seen'}
  <2>1. Cardinality(Lowest(ids)) >= PageLimit  BY <1>2, <1>3, <1>4, <1>8, LowestFills
  <2>2. Lowest(ids) \in SUBSET full
    <3> SUFFICES ASSUME NEW id \in Lowest(ids) PROVE id \in Early /\ relayer[id].order <= seen'
      OBVIOUS
    <3>1. PICK i \in DOMAIN page : page[i].id = id  BY <1>6 DEF InPage
    <3>2. page[i].order <= seen' /\ relayer[id].order = page[i].order
      BY <1>1, <1>5, <3>1, SeenWithPage DEF IsPage
    <3> QED  BY <1>3, <3>2 DEF Lowest
  <2>3. IsFiniteSet(full)
    <3>1. IsFiniteSet(Early)  BY <1>2, <1>3, GroupsAreFinite, FS_Subset
    <3>2. full \in SUBSET Early  OBVIOUS
    <3> QED  BY <3>1, <3>2, FS_Subset
  <2> HIDE DEF full
  <2>4. /\ Cardinality(Lowest(ids)) <= Cardinality(full) /\ Cardinality(full) \in Nat
        /\ Cardinality(Lowest(ids)) \in Nat
    BY <2>2, <2>3, FS_Subset, FS_CardinalityType
  <2>5. Cardinality(full) >= PageLimit
    BY <2>1, <2>4, ChatAssumption DEF ChatAssumption
  <2> QED  BY <1>2, <1>3, <2>5 DEF full, IsFull
<1> QED  BY <1>4, <1>7, <1>8

LEMMA OlderPage ==
  ASSUME TypeInv, NEW r \in requests, r.kind = "more", Current(r), Answer(r)
  PROVE  \E page, hasNext : /\ Answered(r, page, hasNext)
                            /\ \A i \in DOMAIN page :
                                  /\ page[i].id \in FirstPage' \cup late'
                                  /\ page[i].order < r.before
<1> DEFINE ids == {id \in InGroup(r.group) : r.kind = "load" \/ relayer[id].order < r.before}
<1>1. PICK page \in Pages(ids) : Answered(r, page, Cardinality(ids) > PageLimit)
  BY DEF Answer, AnswerPage, AnswerChange
<1>2. /\ r.group = uuid /\ BoardInv /\ uuid \in Groups /\ late' = late
      /\ UNCHANGED <<relayer, uuid>> /\ r.before \in Nat
  BY DEF TypeInv, RequestsInv, IsRequest, Answer, AnswerPage, AnswerChange, viewVars
<1>3. FirstPage' = FirstPage /\ ids \in SUBSET InGroup(uuid)
  BY <1>2 DEF Early, InGroup, Stored, FirstPage, Lowest
<1>4. \A i \in ids, j \in InGroup(uuid) : relayer[j].order < relayer[i].order => j \in ids
  <2>1. \A i \in InGroup(uuid) : relayer[i].order \in Nat  BY <1>2 DEF BoardInv, InGroup
  <2> QED  BY <1>2, <2>1
<1>5. \A i \in ids : relayer[i].order < r.before  OBVIOUS
<1>6. IsPage(page, uuid)  BY <1>1, <1>2, AnswerPageShape
<1> HIDE DEF ids
<1>7. \A id : InPage(id, page) <=> id \in Lowest(ids)
  BY <1>1, <1>2, <1>3, PageShape
<1>8. Lowest(ids) \cap Early \subseteq FirstPage
  <2>1. Early \in SUBSET InGroup(uuid)  BY DEF Early
  <2> QED  BY <1>2, <1>3, <1>4, <2>1, LowestOfLower DEF FirstPage
<1>9. ASSUME NEW i \in DOMAIN page
      PROVE  page[i].id \in FirstPage' \cup late' /\ page[i].order < r.before
  <2>1. page[i].id \in Lowest(ids)  BY <1>7 DEF InPage
  <2>2. page[i].id \in ids /\ page[i].order = relayer[page[i].id].order
    BY <1>6, <2>1 DEF Lowest, IsPage
  <2>3. page[i].id \in Early \/ page[i].id \in late  BY <1>3, <2>2 DEF Early
  <2> QED  BY <1>2, <1>3, <1>5, <1>8, <2>1, <2>2, <2>3
<1> QED  BY <1>1, <1>9

LEMMA OrderAnswer ==
  ASSUME TypeInv, ReadInv, UnreadInv, OrderAll, NEW r \in requests, Answer(r)
  PROVE  OrderAll'
<1>1. UNCHANGED <<viewVars, undecrypted, disturbed>> /\ BoardMoves /\ ~r.answered
  BY AnswerMoves DEF Answer
<1>2. visit' = visit  BY <1>1 DEF viewVars
<1>3. ASSUME NEW page, NEW hasNext, Answered(r, page, hasNext),
             r.kind = "load" /\ hasNext /\ Current(r) =>
                 IsFull' /\ \A id \in FirstPage' : InPage(id, page),
             r.kind = "more" /\ Current(r) => \A i \in DOMAIN page :
                 page[i].id \in FirstPage' \cup late' /\ page[i].order < r.before
      PROVE  OrderAll'
  <2>1. PICK x : x = [r EXCEPT !.answered = TRUE, !.page = page, !.hasNext = hasNext]
    OBVIOUS
  <2>2. /\ x.page = page /\ x.kind = r.kind /\ x.visit = r.visit
        /\ x.before = r.before /\ x.hasNext = hasNext
    BY <2>1 DEF TypeInv, RequestsInv, IsRequest
  <2>3. requests' = (requests \ {r}) \cup {x}  BY <1>3, <2>1 DEF Answered
  <2>4. IsOrderly(x)'
    BY <1>2, <1>3, <2>2 DEF IsOrderly, InPage, Current
  <2>5. \A q \in requests' : q \in requests \/ IsOrderly(q)'  BY <2>3, <2>4
  <2>6. \A q \in requests' : q.kind = "more" =>
          \E p \in requests : p.kind = "more" /\ p.visit = q.visit
    BY <2>2, <2>3
  <2> QED  BY <1>1, <2>5, <2>6, OrderViewKeeps
<1>4. CASE r.kind = "load" /\ Current(r)  BY <1>1, <1>3, <1>4, LoadedPage
<1>5. CASE r.kind = "more" /\ Current(r)  BY <1>3, <1>5, OlderPage
<1>6. CASE ~Current(r) \/ r.kind \in Changes
  <2>1. \E page, hasNext : Answered(r, page, hasNext)
    BY DEF Answer, AnswerPage, AnswerChange
  <2> QED  BY <1>3, <1>6, <2>1 DEF Changes
<1>7. r.kind \in {"load", "more"} \cup Changes
  BY DEF Answer, AnswerPage, AnswerChange, Changes
<1> QED  BY <1>4, <1>5, <1>6, <1>7

LEMMA OrderTakeOrder ==
  ASSUME TypeInv, ReadInv, OrderAll,
         NEW id, NEW g \in Groups, NEW own \in BOOLEAN, id \in Ids \ DOMAIN taken,
         TakeOrder(id, g, own)
  PROVE  OrderAll'
BY TakeMoves, OrderViewKeeps DEF historyVars

LEMMA OrderStore ==
  ASSUME TypeInv, ReadInv, OrderAll, NEW id, StoreMessage(id)
  PROVE  OrderAll'
<1>1. BoardMoves /\ UNCHANGED <<viewVars, undecrypted, disturbed>>
  BY StoreMoves DEF StoreMessage
<1>2. ASSUME NEW q \in requests'
      PROVE  q \in requests \/ (q.kind = "send" /\ IsOrderly(q)')
  <2>1. PICK r \in requests : q = StoredAnswer(r, id)
    BY DEF StoreMessage, StoredAnswer
  <2>2. q.kind = r.kind /\ (r.kind # "send" => q = r)
    BY <2>1, StoredAnswerShape
  <2> QED  BY <2>2 DEF IsOrderly
<1> QED  BY <1>1, <1>2, OrderViewKeeps

LEMMA OrderAsk ==
  ASSUME TypeInv, ReadInv, OrderAll, UNCHANGED <<boardVars, viewVars, historyVars>>,
         NEW kind, NEW id, NEW before, IsAsked(kind, id, before)
  PROVE  OrderAll'
<1>1. PICK x : x = Request(kind, id, before)  OBVIOUS
<1>2. requests' = requests \cup {x} /\ x.answered = FALSE /\ x.kind = kind
  BY <1>1 DEF IsAsked, Ask, Request
<1>3. \A q \in requests' : q \in requests \/ IsOrderly(q)'
  BY <1>2 DEF IsOrderly
<1>4. kind = "more" => CanPage  BY DEF IsAsked, CanPage
<1>5. \A q \in requests' : q.kind = "more" =>
        CanPage \/ \E p \in requests : p.kind = "more" /\ p.visit = q.visit
  BY <1>2, <1>4
<1> QED  BY <1>3, <1>5, SameBoardMoves, OrderViewKeeps DEF historyVars, viewVars

LEMMA OrderDoneUnseen ==
  ASSUME TypeInv, ReadInv, OrderAll, NEW r \in requests, Done(r),
         UNCHANGED <<boardVars, viewVars, undecrypted, disturbed, readVars>>
  PROVE  OrderAll'
BY SameBoardMoves, OrderViewKeeps DEF Done, viewVars

(* While the first page is on its way, no older one is asked for. *)
LEMMA LoadingIsFirst ==
  ASSUME TypeInv, NEW r \in requests, r.kind = "load", Current(r)
  PROVE  /\ loading = TRUE
         /\ \A q \in requests : q.kind = "more" => ~Current(q)
<1>1. loading  BY DEF TypeInv, RequestsInv, IsRequest
<1>2. loading \in BOOLEAN  BY DEF TypeInv, SubscriptionInv, Open
<1> QED  BY <1>1, <1>2 DEF TypeInv, RequestsInv, IsRequest

LEMMA OrderFailLoad ==
  ASSUME TypeInv, ReadInv, OrderAll, NEW r \in requests, FailLoad(r)
  PROVE  OrderAll'
<1>1. CASE Current(r)
  <2>1. /\ r.kind = "load" /\ Done(r) /\ EndLoading(<<>>, lastOrder)
        /\ UNCHANGED <<boardVars, uuid, visit, list, hasMore, lastOrder, undecrypted, readVars>>
    BY <1>1 DEF FailLoad
  <2>2. loading = TRUE /\ \A q \in requests : q.kind = "more" => ~Current(q)
    BY <1>1, <2>1, LoadingIsFirst
  <2>3. /\ disturbed \subseteq disturbed' /\ (IsSteady' => IsSteady)
        /\ "sent" \notin disturbed' => "sent" \notin disturbed
    BY <2>1 DEF EndLoading, IsSteady
  <2>4. CanPage' => CanPage  BY <2>1 DEF CanPage, Current, Done
  <2>5. IsSteady' => ~CanPage
    BY <2>2, <2>3 DEF OrderAll, OrderInv
  <2>6. \A q \in requests' : IsOrderly(q)'
    <3>1. BoardMoves  BY <2>1, SameBoardMoves
    <3> QED  BY <2>1, <2>3, <3>1, OrderlyKeeps DEF OrderAll, Done
  <2>7. ShownOnceInOrder'
    <3>1. OnceInOrder(list, Lost, disturbed)  BY OnceInOrderShown DEF OrderAll
    <3>2. OnceInOrder(list', Lost', disturbed')
      BY <2>1, <2>3, <3>1 DEF OnceInOrder, Lost, readVars
    <3> QED  BY <3>2, OnceInOrderShownNext
  <2> QED
    BY <2>1, <2>3, <2>4, <2>5, <2>6, <2>7 DEF OrderAll, OrderInv
<1>2. CASE ~Current(r)  BY <1>2, OrderDoneUnseen DEF FailLoad
<1> QED  BY <1>1, <1>2

(* A page is in order, without repetitions. *)
LEMMA PageInOrder ==
  ASSUME NEW page, NEW g, IsPage(page, g)
  PROVE  /\ \A i, j \in DOMAIN page : i < j =>
               /\ page[i].id # page[j].id
               /\ page[i].order < page[j].order
         /\ \A lost, marks : OnceInOrder(page, lost, marks)
         /\ page # <<>> =>
               /\ 1 \in DOMAIN page /\ Len(page) \in DOMAIN page
               /\ page[1].order <= page[Len(page)].order
               /\ \A i \in DOMAIN page : page[1].order <= page[i].order
<1>1. /\ page \in Seq(Entries)
      /\ \A i \in DOMAIN page : relayer[page[i].id].order = page[i].order
      /\ \A i, j \in DOMAIN page : i < j => page[i].order < page[j].order
  BY DEF IsPage
<1>2. \A i \in DOMAIN page : page[i] \in Entries  BY <1>1
<1>3. \A i \in DOMAIN page : page[i].order \in Nat  BY <1>2 DEF Entries
<1>4. \A i, j \in DOMAIN page : i < j =>
        page[i].id # page[j].id /\ page[i].order < page[j].order
  BY <1>1, <1>3
<1>5. \A lost, marks : OnceInOrder(page, lost, marks)  BY <1>4 DEF OnceInOrder
<1>6. ASSUME page # <<>>
      PROVE  /\ 1 \in DOMAIN page /\ Len(page) \in DOMAIN page
             /\ page[1].order <= page[Len(page)].order
             /\ \A i \in DOMAIN page : page[1].order <= page[i].order
  <2>1. 1 \in DOMAIN page /\ Len(page) \in DOMAIN page
          /\ \A i \in DOMAIN page : i = 1 \/ 1 < i
    BY <1>1, <1>6
  <2>2. \A i \in DOMAIN page : page[1].order <= page[i].order
    BY <1>3, <1>4, <2>1
  <2> QED  BY <2>1, <2>2
<1> QED  BY <1>4, <1>5, <1>6

LEMMA OrderResolveLoad ==
  ASSUME TypeInv, ReadInv, OrderAll, NEW r \in requests,
         NEW failed \in SUBSET {r.page[i].id : i \in DOMAIN r.page}, ResolveLoad(r, failed)
  PROVE  OrderAll'
<1>1. CASE ~Current(r)  BY <1>1, OrderDoneUnseen DEF ResolveLoad, IsWanted
<1>2. CASE Current(r)
  <2>1. PICK shown \in Decrypted(r.page, failed) : SetMessages(shown)
    BY <1>2 DEF ResolveLoad, IsWanted
  <2>2. /\ r.kind = "load" /\ r.answered /\ Done(r)
        /\ UNCHANGED <<boardVars, uuid, visit, readVars>>
        /\ hasMore' = r.hasNext
        /\ undecrypted' = undecrypted \cup failed
        /\ EndLoading(list', lastOrder')
    BY <1>2 DEF ResolveLoad, IsWanted
  <2>3. list' = shown /\ lastOrder' = LastOrder(shown)  BY <2>1 DEF SetMessages
  <2>4. IsPage(r.page, uuid)
    BY <1>2, <2>2 DEF TypeInv, RequestsInv, IsRequest
  <2>5. IsPage(shown, uuid)  BY <2>1, <2>4, DecryptedEntries
  <2>6. BoardMoves /\ Early' = Early /\ relayer' = relayer
    BY <2>2, SameBoardMoves, SameBoard
  <2>16. FirstPage' = FirstPage  BY <2>6 DEF FirstPage, Lowest
  <2>7. \A q \in requests' : IsOrderly(q)'
    <3>1. disturbed \subseteq disturbed'  BY <2>2 DEF EndLoading
    <3> QED  BY <2>2, <2>6, <3>1, OrderlyKeeps DEF OrderAll, Done
  <2>8. CanPage' => r.hasNext
    <3>1. \A q \in requests : q.kind = "more" => ~Current(q)
      BY <1>2, <2>2, LoadingIsFirst
    <3> QED  BY <2>2, <3>1 DEF CanPage, Current, Done
  <2>9. r.page \in Seq(Entries)  BY <2>4 DEF IsPage
  <2>10. ASSUME r.hasNext, NEW id \in FirstPage, id \notin failed
         PROVE  \E i \in DOMAIN shown : shown[i].id = id /\ shown[i].order = relayer[id].order
    <3>1. InPage(id, r.page)  BY <1>2, <2>2, <2>10 DEF OrderAll, OrderInv, IsOrderly
    <3>2. PICK m \in DOMAIN r.page : r.page[m].id = id  BY <3>1 DEF InPage
    <3>3. \E i \in DOMAIN shown : shown[i] = r.page[m]
      BY <2>1, <2>9, <2>10, <3>2, DecryptedSelects
    <3> QED  BY <2>5, <3>2, <3>3 DEF IsPage
  <2>11. ASSUME r.hasNext
         PROVE  \/ FirstPage' \subseteq undecrypted'
                \/ StartsHere' /\ Reached(list[1].order)'
    <3>1. CASE shown = <<>>
      <4>1. FirstPage \subseteq failed  BY <2>10, <2>11, <3>1
      <4> QED  BY <2>2, <2>16, <4>1
    <3>2. CASE shown # <<>>
      <4>1. /\ 1 \in DOMAIN shown
            /\ shown[1].order <= shown[Len(shown)].order
            /\ \A i \in DOMAIN shown : shown[1].order <= shown[i].order
        BY <2>5, <3>2, PageInOrder
      <4>2. subscription'[1].cursor = shown[Len(shown)].order
        BY <2>2, <2>3, <3>2 DEF EndLoading, Subscribed, LastOrder
      <4>3. shown[1].real  BY <2>5, <4>1 DEF IsPage
      <4>4. StartsHere'
        BY <2>3, <3>2, <4>1, <4>2, <4>3 DEF StartsHere, Begins
      <4>5. \A id \in FirstPage : relayer[id].order >= shown[1].order \/ id \in failed
        <5> SUFFICES ASSUME NEW id \in FirstPage, id \notin failed
                     PROVE  relayer[id].order >= shown[1].order
          OBVIOUS
        <5>1. PICK i \in DOMAIN shown : shown[i].order = relayer[id].order
          BY <2>10, <2>11
        <5>2. \A k \in DOMAIN shown : shown[k].order \in Nat
          BY <2>5, OrdersOfPage
        <5> QED  BY <4>1, <5>1, <5>2
      <4>6. Reached(list[1].order)'
        BY <2>2, <2>3, <2>6, <2>16, <4>5 DEF Reached
      <4> QED  BY <4>4, <4>6
    <3> QED  BY <3>1, <3>2
  <2>12. loading' = FALSE  BY <2>2 DEF EndLoading
  <2>13. \A i \in DOMAIN list' : list'[i].real  BY <2>3, <2>5 DEF IsPage
  <2>17. r.hasNext => IsFull'
    <3>1. r.hasNext => IsFull  BY <1>2, <2>2 DEF OrderAll, OrderInv, IsOrderly
    <3> QED  BY <2>6, <3>1, FirstPageKeeps
  <2>14. OrderInv'
    BY <2>7, <2>8, <2>11, <2>12, <2>13, <2>17 DEF OrderInv
  <2>15. OnceInOrder(list', Lost', disturbed')
    BY <2>3, <2>5, PageInOrder
  <2> QED  BY <2>14, <2>15, OnceInOrderShownNext DEF OrderAll
<1> QED  BY <1>1, <1>2

(* A late older page of a list that still begins where it did holds only   *)
(* what did not decrypt before.                                            *)
LEMMA OrderResolveMore ==
  ASSUME TypeInv, ReadInv, OrderAll, NEW r \in requests,
         NEW failed \in SUBSET {r.page[i].id : i \in DOMAIN r.page}, ResolveMore(r, failed)
  PROVE  OrderAll'
<1>1. CASE r.group # uuid  BY <1>1, OrderDoneUnseen DEF ResolveMore
<1>2. CASE r.group = uuid
  <2>1. PICK shown \in Decrypted(r.page, failed) : SetMessages(shown \o list)
    BY <1>2 DEF ResolveMore, WithOlder
  <2>2. /\ r.kind = "more" /\ r.answered
        /\ Done(r) /\ UNCHANGED <<boardVars, uuid, visit, loading, subscription, readVars>>
        /\ hasMore' = r.hasNext
        /\ undecrypted' = undecrypted \cup failed
        /\ disturbed' = IF IsStale(r) THEN disturbed \cup {"stale"} ELSE disturbed
        /\ list' = shown \o list
    BY <1>2, <2>1 DEF ResolveMore, SetMessages
  <2>3. /\ IsPage(r.page, uuid) /\ r.page \in Seq(Entries) /\ list \in Seq(Entries)
        /\ r.before \in Nat
    BY <1>2 DEF TypeInv, RequestsInv, IsRequest, ListInv, IsPage
  <2>4. IsPage(shown, uuid) /\ shown \in Seq(Entries)
    <3>1. IsPage(shown, uuid)  BY <2>1, <2>3, DecryptedEntries
    <3> QED  BY <3>1 DEF IsPage
  <2> DEFINE n == Len(shown)
             m == Len(list)
  <2>5. /\ n \in Nat /\ m \in Nat /\ DOMAIN shown = 1..n /\ DOMAIN list = 1..m
        /\ DOMAIN list' = 1..(n + m)
        /\ \A i \in 1..n : list'[i] = shown[i]
        /\ \A i \in 1..m : list'[n + i] = list[i]
        /\ \A i \in (n + 1)..(n + m) : i - n \in 1..m /\ list'[i] = list[i - n]
    BY <2>2, <2>3, <2>4
  <2> HIDE DEF n, m
  <2>7. BoardMoves /\ Early' = Early /\ relayer' = relayer
    BY <2>2, SameBoardMoves, SameBoard
  <2>11. FirstPage' = FirstPage  BY <2>7 DEF FirstPage, Lowest
  <2>6. \A q \in requests' : IsOrderly(q)'
    BY <2>2, <2>7, OrderlyKeeps DEF OrderAll, Done
  <2>12. Lost' = Lost \cup failed  BY <2>2 DEF Lost, readVars
  <2>8. "sent" \notin disturbed' => \A i \in DOMAIN list' : list'[i].real
    <3>1. \A i \in 1..n : shown[i].real  BY <2>4, <2>5 DEF IsPage
    <3>2. "sent" \notin disturbed' => \A i \in 1..m : list[i].real
      BY <2>2, <2>5 DEF OrderAll, OrderInv
    <3> QED  BY <2>5, <3>1, <3>2
  <2>9. CASE ~IsSteady'
    <3>1. OnceInOrder(list', Lost', disturbed')
      BY <2>9 DEF IsSteady, OnceInOrder
    <3> QED  BY <2>6, <2>8, <2>9, <3>1, OnceInOrderShownNext DEF OrderAll, OrderInv
  <2>10. CASE IsSteady'
    <3>1. ~IsStale(r) /\ disturbed' = disturbed /\ IsSteady
      BY <2>2, <2>10 DEF IsSteady
    <3>2. list # <<>> /\ list[1].order = r.before /\ Current(r)
      BY <3>1 DEF IsStale
    <3>3. CanPage  BY <2>2, <3>2 DEF CanPage
    <3>4. /\ loading = FALSE /\ IsFull
          /\ \/ FirstPage \subseteq undecrypted
             \/ StartsHere /\ Reached(list[1].order)
      BY <3>1, <3>3 DEF OrderAll, OrderInv
    <3>5. \A i \in 1..m : list[i].order \in Nat /\ list[i].id \in Stored
      <4>1. \A i \in 1..m : list[i] \in Entries  BY <2>3, <2>5
      <4> QED  BY <4>1 DEF Entries
    <3>6. \A i \in 1..n : /\ shown[i].id \in FirstPage \cup late
                          /\ shown[i].order < list[1].order
                          /\ shown[i].order = relayer[shown[i].id].order
                          /\ shown[i].order \in Nat
      <4>1. \A i \in DOMAIN shown : \E k \in DOMAIN r.page : shown[i] = r.page[k]
        BY <2>1, <2>3, DecryptedSelects
      <4>2. \A k \in DOMAIN r.page :
              r.page[k].id \in FirstPage \cup late /\ r.page[k].order < list[1].order
        BY <2>2, <3>1, <3>2 DEF OrderAll, OrderInv, IsOrderly
      <4>3. \A i \in DOMAIN shown : shown[i].order = relayer[shown[i].id].order
                                      /\ shown[i].order \in Nat
        BY <2>4, OrdersOfPage
      <4> QED  BY <2>5, <4>1, <4>2, <4>3
    <3>7. 1 \in 1..m  BY <2>3, <2>5, <3>2 DEF m
    <3>8. \A i \in 1..n : shown[i].id \in Lost
      <4>1. CASE FirstPage \subseteq undecrypted  BY <3>6, <4>1 DEF Lost
      <4>2. CASE Reached(list[1].order)  BY <3>5, <3>6, <3>7, <4>2 DEF Reached, Lost
      <4> QED  BY <3>4, <4>1, <4>2
    <3>9. \A i, j \in 1..m : i < j =>
            /\ list[i].id = list[j].id => list[i].id \in Lost
            /\ "sent" \notin disturbed => list[i].order < list[j].order
      BY <2>5, <3>1 DEF OrderAll, ShownOnceInOrder, IsSteady, Lost
    <3>10. ASSUME NEW i \in 1..n, NEW j \in 1..m, "sent" \notin disturbed
           PROVE  shown[i].order < list[j].order
      <4>1. j = 1 \/ list[1].order < list[j].order
        <5>1. j = 1 \/ 1 < j  BY <2>5
        <5> QED  BY <3>7, <3>9, <3>10, <5>1
      <4> QED  BY <3>5, <3>6, <3>7, <4>1
    <3>11. OnceInOrder(list', Lost', disturbed')
      <4> SUFFICES ASSUME NEW i \in 1..(n + m), NEW j \in 1..(n + m), i < j
                   PROVE  /\ list'[i].id = list'[j].id => list'[i].id \in Lost
                          /\ "sent" \notin disturbed => list'[i].order < list'[j].order
        BY <2>5, <2>12, <3>1 DEF OnceInOrder
      <4>1. CASE i \in 1..n /\ j \in 1..n
        <5>1. shown[i].id # shown[j].id /\ shown[i].order < shown[j].order
          BY <2>4, <2>5, <4>1, PageInOrder
        <5> QED  BY <2>5, <4>1, <5>1
      <4>2. CASE i \in 1..n /\ j \in (n + 1)..(n + m)
        BY <2>5, <3>8, <3>10, <4>2
      <4>3. CASE i \in (n + 1)..(n + m) /\ j \in (n + 1)..(n + m)
        <5>1. i - n \in 1..m /\ j - n \in 1..m /\ i - n < j - n
          BY <2>5, <4>3
        <5>2. list'[i] = list[i - n] /\ list'[j] = list[j - n]  BY <2>5, <4>3
        <5> QED  BY <3>9, <5>1, <5>2
      <4> QED  BY <2>5, <4>1, <4>2, <4>3
    <3>12. loading' = FALSE  BY <2>2, <3>4
    <3>13. \/ FirstPage' \subseteq undecrypted'
           \/ StartsHere' /\ Reached(list[1].order)'
      <4>1. CASE FirstPage \subseteq undecrypted  BY <2>2, <2>11, <4>1
      <4>2. CASE StartsHere /\ Reached(list[1].order)
        <5>1. /\ list[1].real /\ (Open => list[1].order <= subscription[1].cursor)
              /\ \A i \in 1..m : list[1].order <= list[i].order
              /\ \A id \in FirstPage :
                    relayer[id].order >= list[1].order \/ id \in undecrypted
          BY <2>5, <4>2 DEF StartsHere, Begins, Reached
        <5>2. /\ list'[1].real /\ list'[1].order <= list[1].order
              /\ \A i \in 1..(n + m) : list'[1].order <= list'[i].order
          <6>1. CASE n = 0
            BY <2>5, <3>5, <3>7, <5>1, <6>1
          <6>2. CASE n > 0
            <7>1. 1 \in 1..n /\ list'[1] = shown[1]  BY <2>5, <6>2
            <7>2. shown[1].real  BY <2>4, <2>5, <7>1 DEF IsPage
            <7>3. \A i \in 1..n : shown[1].order <= shown[i].order
              BY <2>4, <2>5, <7>1, PageInOrder
            <7>4. \A i \in 1..m : shown[1].order <= list[i].order
              BY <3>5, <3>6, <3>7, <5>1, <7>1
            <7>5. \A i \in 1..(n + m) : i \in 1..n \/ i \in (n + 1)..(n + m)  BY <2>5
            <7> QED  BY <2>5, <3>5, <3>6, <3>7, <7>1, <7>2, <7>3, <7>4, <7>5
          <6>3. n = 0 \/ n > 0
            <7>1. n \in Nat  BY <2>5
            <7> QED  BY <7>1
          <6> QED  BY <6>1, <6>2, <6>3
        <5>3. list' # <<>> /\ 1 \in DOMAIN list'  BY <2>5, <3>7
        <5>4. list'[1].order \in Nat
          BY <2>5, <3>5, <3>6, <3>7
        <5>5. Open => subscription[1].cursor \in Nat
          BY DEF TypeInv, SubscriptionInv
        <5>9. list[1].order \in Nat  BY <3>5, <3>7
        <5>10. Open => list'[1].order <= subscription[1].cursor
          BY <5>1, <5>2, <5>4, <5>5, <5>9
        <5>11. subscription' = subscription  BY <2>2
        <5>6. StartsHere'
          BY <2>5, <5>2, <5>3, <5>10, <5>11 DEF StartsHere, Begins, Open
        <5>7. \A id \in FirstPage : relayer[id].order \in Nat
          BY DEF FirstPage, Lowest, InGroup, TypeInv, BoardInv, Early
        <5>8. Reached(list[1].order)'
          <6>1. \A id \in FirstPage :
                  relayer[id].order >= list'[1].order \/ id \in undecrypted'
            <7> SUFFICES ASSUME NEW id \in FirstPage, id \notin undecrypted
                         PROVE  relayer[id].order >= list'[1].order
              BY <2>2
            <7>1. relayer[id].order >= list[1].order  BY <5>1
            <7> QED  BY <5>2, <5>4, <5>7, <5>9, <7>1
          <6> QED  BY <2>7, <2>11, <6>1 DEF Reached
        <5> QED  BY <5>6, <5>8
      <4> QED  BY <3>4, <4>1, <4>2
    <3>15. IsFull'  BY <2>7, <3>4, FirstPageKeeps
    <3>14. OrderInv'
      BY <2>6, <2>8, <3>12, <3>13, <3>15 DEF OrderInv
    <3> QED  BY <3>11, <3>14, OnceInOrderShownNext DEF OrderAll
  <2> QED  BY <2>9, <2>10
<1> QED  BY <1>1, <1>2

(* What is merged as new comes after the first entry, if its order does. *)
LEMMA MergedBegins ==
  ASSUME list \in Seq(Entries), list # <<>>, NEW entry \in Entries,
         entry.id \notin ShownIds, NEW merged \in MergeMessage(entry),
         \A i \in DOMAIN list : list[1].order <= list[i].order,
         list[1].order <= entry.order
  PROVE  /\ merged # <<>> /\ merged[1] = list[1]
         /\ \A i \in DOMAIN merged : list[1].order <= merged[i].order
<1> DEFINE n == Len(list) + 1
           all == Append(list, entry)
<1>1. /\ all \in Seq(Entries) /\ Len(all) = n
      /\ all[n] = entry /\ \A k \in DOMAIN list : all[k] = list[k]
      /\ merged \in Seq(Entries) /\ Len(merged) = n
      /\ \E a : SortsBy(a, all, merged)
  BY MergedAsNew
<1> HIDE DEF all
<1>2. PICK a : SortsBy(a, all, merged)  BY <1>1
<1>3. /\ n \in Nat \ {0, 1} /\ DOMAIN list = 1..(n - 1)
      /\ DOMAIN merged = 1..n /\ DOMAIN all = 1..n
  BY <1>1
<1> HIDE DEF n
<1>4. /\ a \in [1..n -> 1..n] /\ \A i \in 1..n : merged[i] = all[a[i]]
      /\ \A k \in 1..n : \E i \in 1..n : a[i] = k
      /\ \A i, j \in 1..n : i < j =>
            \/ all[a[i]].order < all[a[j]].order
            \/ all[a[i]].order = all[a[j]].order /\ a[i] < a[j]
  BY <1>2, <1>3 DEF SortsBy
<1>5. \A k \in 1..n : all[k].order \in Nat
  <2>1. \A k \in 1..n : all[k] \in Entries  BY <1>1, <1>3
  <2> QED  BY <2>1 DEF Entries
<1>6. all[1] = list[1] /\ 1 \in 1..n  BY <1>1, <1>3
<1>7. \A k \in 1..n : all[1].order <= all[k].order
  <2>1. \A k \in 1..n : k = n \/ k \in DOMAIN list  BY <1>3
  <2> QED  BY <1>1, <1>6, <2>1
<1>8. PICK i \in 1..n : a[i] = 1  BY <1>4, <1>6
<1>9. i = 1
  <2> SUFFICES ASSUME i # 1 PROVE FALSE
    OBVIOUS
  <2>1. 1 < i  BY <1>3, <1>8
  <2>4. a[1] \in 1..n  BY <1>4, <1>6
  <2>2. \/ all[a[1]].order < all[1].order
        \/ a[1] < 1
    BY <1>4, <1>6, <1>8, <2>1
  <2>3. ~(all[a[1]].order < all[1].order)  BY <1>5, <1>6, <1>7, <2>4
  <2> QED  BY <2>2, <2>3, <2>4
<1>10. merged[1] = list[1]  BY <1>4, <1>6, <1>8, <1>9
<1>11. \A k \in 1..n : list[1].order <= merged[k].order
  <2>1. \A k \in 1..n : a[k] \in 1..n /\ merged[k] = all[a[k]]  BY <1>4
  <2> QED  BY <1>6, <1>7, <2>1
<1> QED  BY <1>1, <1>3, <1>10, <1>11

(* Sorting brings a list with a new entry into order. *)
LEMMA MergedInOrder ==
  ASSUME list \in Seq(Entries), NEW entry \in Entries, entry.id \notin ShownIds,
         NEW merged \in MergeMessage(entry), NEW lost, NEW marks,
         OnceInOrder(list, lost, marks),
         "sent" \notin marks => \A k \in DOMAIN list : list[k].order # entry.order
  PROVE  OnceInOrder(merged, lost, marks)
<1> SUFFICES ASSUME marks \cap {"stale", "overwritten"} = {}
             PROVE  \A i, j \in DOMAIN merged : i < j =>
                      /\ merged[i].id = merged[j].id => merged[i].id \in lost
                      /\ "sent" \notin marks => merged[i].order < merged[j].order
  BY DEF OnceInOrder
<1> DEFINE n == Len(list) + 1
           all == Append(list, entry)
<1>1. /\ all \in Seq(Entries) /\ Len(all) = n
      /\ all[n] = entry /\ \A k \in DOMAIN list : all[k] = list[k]
      /\ merged \in Seq(Entries) /\ Len(merged) = n
      /\ \E a : SortsBy(a, all, merged)
  BY MergedAsNew
<1> HIDE DEF all
<1>2. PICK a : SortsBy(a, all, merged)  BY <1>1
<1>3. /\ n \in Nat \ {0} /\ DOMAIN list = 1..(n - 1)
      /\ DOMAIN merged = 1..n /\ DOMAIN all = 1..n
      /\ \A k \in 1..n : k = n \/ k \in 1..(n - 1)
  BY <1>1
<1> HIDE DEF n
<1>4. /\ a \in [1..n -> 1..n] /\ \A i \in 1..n : merged[i] = all[a[i]]
      /\ \A i, j \in 1..n : a[i] = a[j] => i = j
      /\ \A i, j \in 1..n : i < j =>
            \/ all[a[i]].order < all[a[j]].order
            \/ all[a[i]].order = all[a[j]].order
  BY <1>2, <1>3 DEF SortsBy
<1>5. \A k, l \in 1..(n - 1) : k < l =>
        /\ list[k].id = list[l].id => list[k].id \in lost
        /\ "sent" \notin marks => list[k].order < list[l].order
  BY <1>3 DEF OnceInOrder
<1>6. \A k, l \in 1..n : k < l =>
        /\ all[k].id = all[l].id => all[k].id \in lost
        /\ "sent" \notin marks => all[k].order # all[l].order
  <2> SUFFICES ASSUME NEW k \in 1..n, NEW l \in 1..n, k < l
               PROVE  /\ all[k].id = all[l].id => all[k].id \in lost
                      /\ "sent" \notin marks => all[k].order # all[l].order
    OBVIOUS
  <2>1. k \in 1..(n - 1) /\ all[k] = list[k]  BY <1>1, <1>3
  <2>2. list[k].id # entry.id  BY <1>3, <2>1 DEF ShownIds
  <2>3. list[k].order \in Nat
    <3>1. list[k] \in Entries  BY <1>3, <2>1
    <3> QED  BY <3>1 DEF Entries
  <2>4. CASE l = n  BY <1>1, <1>3, <2>1, <2>2, <2>4
  <2>5. CASE l \in 1..(n - 1)
    <3>1. all[l] = list[l]  BY <1>1, <1>3, <2>5
    <3>2. list[l] \in Entries  BY <1>3, <2>5
    <3>3. list[l].order \in Nat  BY <3>2 DEF Entries
    <3>4. /\ list[k].id = list[l].id => list[k].id \in lost
          /\ "sent" \notin marks => list[k].order < list[l].order
      BY <1>5, <2>1, <2>5
    <3> QED  BY <2>1, <2>3, <3>1, <3>3, <3>4
  <2> QED  BY <1>3, <2>4, <2>5
<1>7. SUFFICES ASSUME NEW i \in 1..n, NEW j \in 1..n, i < j
               PROVE  /\ merged[i].id = merged[j].id => merged[i].id \in lost
                      /\ "sent" \notin marks => merged[i].order < merged[j].order
  BY <1>3
<1>8. /\ a[i] \in 1..n /\ a[j] \in 1..n
      /\ merged[i] = all[a[i]] /\ merged[j] = all[a[j]]
      /\ a[i] # a[j]
  <2>1. a[i] # a[j]
    <3>1. i # j  BY <1>3, <1>7
    <3> QED  BY <1>4, <3>1
  <2> QED  BY <1>4, <2>1
<1>9. a[i] < a[j] \/ a[j] < a[i]  BY <1>3, <1>8
<1>10. \/ all[a[i]].order < all[a[j]].order
       \/ all[a[i]].order = all[a[j]].order
  BY <1>4, <1>7
<1> QED  BY <1>6, <1>8, <1>9, <1>10

LEMMA OrderResolveSend ==
  ASSUME TypeInv, ReadInv, OrderAll, NEW r \in requests, ResolveSend(r)
  PROVE  OrderAll'
<1>1. PICK merged \in MergeMessage(Optimistic(r)) : list' = merged
  BY DEF ResolveSend, SetMessages
<1>2. /\ r.kind = "send" /\ r.answered /\ requests' \subseteq requests
      /\ UNCHANGED <<boardVars, uuid, visit, loading, hasMore, subscription, undecrypted,
                     readVars>>
      /\ disturbed \subseteq disturbed' /\ "sent" \in disturbed'
      /\ r.id \in ShownIds => "overwritten" \in disturbed'
  BY DEF ResolveSend, Done
<1> PICK entry : entry = Optimistic(r)  OBVIOUS
<1>3. /\ entry \in Entries /\ entry.id = r.id /\ entry.order = lastOrder + 1
      /\ list \in Seq(Entries) /\ lastOrder \in Nat
      /\ list # <<>> => lastOrder = list[Len(list)].order
  BY <1>2, OptimisticEntry DEF Optimistic, TypeInv, ListInv
<1>4. CanPage' => CanPage  BY <1>2 DEF CanPage, Current
<1>5. OnceInOrder(list', Lost', disturbed')
  <2>1. CASE r.id \in ShownIds  BY <1>2, <2>1 DEF OnceInOrder
  <2>2. CASE r.id \notin ShownIds
    <3>1. OnceInOrder(list, Lost, disturbed')
      <4>1. OnceInOrder(list, Lost, disturbed)  BY OnceInOrderShown DEF OrderAll
      <4> QED  BY <1>2, <4>1 DEF OnceInOrder
    <3>2. OnceInOrder(merged, Lost, disturbed')
      BY <1>1, <1>2, <1>3, <2>2, <3>1, MergedInOrder
    <3> QED  BY <1>1, <1>2, <3>2 DEF Lost, readVars
  <2> QED  BY <2>1, <2>2
<1>6. ASSUME IsSteady', StartsHere
      PROVE  StartsHere' /\ list'[1].order = list[1].order
  <2>1. r.id \notin ShownIds  BY <1>2, <1>6 DEF IsSteady
  <2>2. /\ list # <<>> /\ list[1].real
        /\ Open => list[1].order <= subscription[1].cursor
        /\ \A i \in DOMAIN list : list[1].order <= list[i].order
    BY <1>6 DEF StartsHere, Begins
  <2>3. list[1].order <= entry.order
    <3>1. 1 \in DOMAIN list /\ Len(list) \in DOMAIN list  BY <1>3, <2>2
    <3>2. list[1] \in Entries  BY <1>3, <3>1
    <3>3. list[1].order \in Nat /\ list[1].order <= lastOrder
      BY <1>3, <2>2, <3>1, <3>2 DEF Entries
    <3> QED  BY <1>3, <3>3
  <2>4. /\ list' # <<>> /\ list'[1] = list[1]
        /\ \A i \in DOMAIN list' : list[1].order <= list'[i].order
    BY <1>1, <1>3, <2>1, <2>2, <2>3, MergedBegins
  <2>5. subscription' = subscription  BY <1>2
  <2> QED  BY <2>2, <2>4, <2>5 DEF StartsHere, Begins, Open
<1> QED  BY <1>2, <1>4, <1>5, <1>6, SameBoardMoves, OrderKeeps

LEMMA OrderResolveChange ==
  ASSUME TypeInv, ReadInv, OrderAll, NEW r \in requests, ResolveChange(r)
  PROVE  OrderAll'
<1>1. /\ requests' \subseteq requests
      /\ UNCHANGED <<boardVars, uuid, visit, loading, hasMore, subscription,
                     undecrypted, disturbed, readVars>>
      /\ list' = [i \in DOMAIN list |-> Changed(list[i], r)]
  BY DEF ResolveChange, Done, SetMessages
<1>2. /\ list' \in Seq(Entries) /\ Len(list') = Len(list)
      /\ \A i \in DOMAIN list :
            /\ list'[i].id = list[i].id /\ list'[i].order = list[i].order
            /\ list'[i].real = list[i].real
  BY <1>1, ChangedEntries
<1>3. DOMAIN list' = DOMAIN list  BY <1>1
<1>4. CanPage' => CanPage  BY <1>1 DEF CanPage, Current
<1>5. OnceInOrder(list', Lost', disturbed')
  <2>1. OnceInOrder(list, Lost, disturbed)  BY OnceInOrderShown DEF OrderAll
  <2> QED  BY <1>1, <1>2, <1>3, <2>1 DEF OnceInOrder, Lost, readVars
<1>6. "sent" \notin disturbed' => \A i \in DOMAIN list' : list'[i].real
  BY <1>1, <1>2, <1>3 DEF OrderAll, OrderInv
<1>7. ASSUME StartsHere
      PROVE  StartsHere' /\ list'[1].order = list[1].order
  <2>1. list # <<>> /\ list \in Seq(Entries)
    BY <1>7 DEF StartsHere, Begins, TypeInv, ListInv
  <2>2. 1 \in DOMAIN list /\ list' # <<>>  BY <1>2, <2>1
  <2>3. subscription' = subscription  BY <1>1
  <2> QED  BY <1>2, <1>3, <1>7, <2>2, <2>3 DEF StartsHere, Begins, Open
<1> QED  BY <1>1, <1>4, <1>5, <1>6, <1>7, SameBoardMoves, OrderKeeps

LEMMA OrderPoll ==
  ASSUME TypeInv, ReadInv, OrderAll, Poll
  PROVE  OrderAll'
<1>1. PICK page \in Pages({id \in InGroup(uuid) :
                            relayer[id].order > subscription[1].cursor}) :
        /\ subscription' = [subscription EXCEPT ![1].page = page]
        /\ seen' = SeenWith(page)
  BY DEF Poll
<1>2. /\ Open
      /\ UNCHANGED <<boardVars, uuid, visit, list, loading, hasMore, requests,
                     undecrypted, disturbed, late>>
  BY DEF Poll
<1>3. subscription = <<[cursor |-> subscription[1].cursor, page |-> subscription[1].page]>>
  BY <1>2 DEF TypeInv, SubscriptionInv
<1>4. subscription'[1].cursor = subscription[1].cursor  BY <1>1, <1>3
<1>5. OnceInOrder(list', Lost', disturbed')
  BY <1>2, OnceInOrderShown DEF OrderAll, Lost
<1>6. "sent" \notin disturbed' => \A i \in DOMAIN list' : list'[i].real
  BY <1>2 DEF OrderAll, OrderInv
<1>7. CanPage' => CanPage  BY <1>2 DEF CanPage, Current
<1>8. StartsHere => StartsHere'
  BY <1>2, <1>4 DEF StartsHere, Begins
<1>9. BoardMoves
  <2>1. SeenWith(page) \in Nat /\ seen <= SeenWith(page)
    BY PollPageShape, SeenWithPage
  <2> QED  BY <1>1, <1>2, <2>1, SeenMoves
<1> QED  BY <1>2, <1>5, <1>6, <1>7, <1>8, <1>9, OrderKeeps

LEMMA OrderRefusePoll ==
  ASSUME TypeInv, ReadInv, OrderAll, RefusePoll
  PROVE  OrderAll'
<1>1. /\ UNCHANGED <<boardVars, uuid, visit, list, loading, hasMore, requests,
                     undecrypted, disturbed, readVars>>
      /\ ~Open'
  BY DEF RefusePoll, historyVars, Closed, Open
<1>2. OnceInOrder(list', Lost', disturbed')
  BY <1>1, OnceInOrderShown DEF OrderAll, Lost, readVars
<1>3. "sent" \notin disturbed' => \A i \in DOMAIN list' : list'[i].real
  BY <1>1 DEF OrderAll, OrderInv
<1>4. CanPage' => CanPage  BY <1>1 DEF CanPage, Current
<1>5. StartsHere => StartsHere'  BY <1>1 DEF StartsHere, Begins
<1> QED  BY <1>1, <1>2, <1>3, <1>4, <1>5, SameBoardMoves, OrderKeeps

(* The entry replaces the one that is shown of the same message. *)
LEMMA OrderReplaced ==
  ASSUME TypeInv, ReadInv, OrderAll, NEW entry \in Entries, entry.real, IsGenuine(entry),
         entry.id \in ShownIds, NEW merged \in MergeMessage(entry)
  PROVE  /\ merged \in Seq(Entries) /\ DOMAIN merged = DOMAIN list
         /\ \A i \in DOMAIN list : merged[i] = list[i] \/ merged[i] = entry
         /\ \A i \in DOMAIN list : merged[i].id = list[i].id
         /\ \A i \in DOMAIN list : list[i].real => merged[i].order = list[i].order
         /\ OnceInOrder(merged, Lost, disturbed)
<1>1. list \in Seq(Entries) /\ \A i \in DOMAIN list : IsGenuine(list[i])
  BY DEF TypeInv, ListInv
<1>2. /\ merged \in Seq(Entries) /\ Len(merged) = Len(list)
      /\ \A i \in DOMAIN list :
            merged[i] = list[i] \/ (merged[i] = entry /\ IsFirst(i, entry.id))
  BY <1>1, MergedInPlace
<1>3. DOMAIN merged = DOMAIN list  BY <1>1, <1>2
<1>4. \A i \in DOMAIN list : merged[i].id = list[i].id
  BY <1>2 DEF IsFirst
<1>5. \A i \in DOMAIN list : list[i].real => merged[i].order = list[i].order
  BY <1>1, <1>2, <1>4 DEF IsGenuine
<1>6. "sent" \notin disturbed => \A i \in DOMAIN list : list[i].real
  BY DEF OrderAll, OrderInv
<1>7. OnceInOrder(list, Lost, disturbed)  BY OnceInOrderShown DEF OrderAll
<1>8. OnceInOrder(merged, Lost, disturbed)
  BY <1>3, <1>4, <1>5, <1>6, <1>7 DEF OnceInOrder
<1> QED  BY <1>2, <1>3, <1>4, <1>5, <1>8

(* What the subscription brings lies beyond its cursor, and so beyond the  *)
(* first entry of the list.                                                *)
LEMMA OrderYield ==
  ASSUME TypeInv, ReadInv, OrderAll, NEW decrypts \in BOOLEAN, Yield(decrypts)
  PROVE  OrderAll'
<1> PICK page, cursor, entry : /\ page = subscription[1].page
                               /\ cursor = subscription[1].cursor
                               /\ entry = Head(page)
  OBVIOUS
<1>1. /\ Open /\ page # <<>>
      /\ subscription' = <<[cursor |-> entry.order, page |-> Tail(page)]>>
      /\ UNCHANGED <<boardVars, uuid, visit, loading, hasMore, requests, disturbed, readVars>>
      /\ \/ /\ \E merged \in MergeMessage(entry) : list' = merged
            /\ undecrypted' = undecrypted
         \/ undecrypted' = undecrypted \cup {entry.id} /\ list' = list
  BY DEF Yield, SetMessages
<1>2. IsPage(page, uuid) /\ cursor \in Nat
  BY <1>1 DEF TypeInv, SubscriptionInv
<1>3. /\ 1 \in DOMAIN page /\ entry = page[1] /\ entry \in Entries
      /\ entry.real /\ IsGenuine(entry) /\ entry.order > cursor /\ entry.order \in Nat
  <2>1. 1 \in DOMAIN page /\ entry = page[1] /\ entry \in Entries
    BY <1>1, <1>2, PageTail
  <2>2. entry.order > cursor  BY <1>1, <2>1 DEF TypeInv, SubscriptionInv
  <2>3. entry.real /\ IsGenuine(entry)  BY <1>2, <2>1, PageEntries
  <2> QED  BY <2>1, <2>2, <2>3 DEF Entries
<1>4. /\ list \in Seq(Entries)
      /\ \A i \in DOMAIN list :
            /\ list[i] \in Entries /\ list[i].order \in Nat
            /\ list[i].real => relayer[list[i].id].order = list[i].order
                                 /\ relayer[list[i].id].group = uuid
  <2>1. list \in Seq(Entries) /\ \A i \in DOMAIN list : IsGenuine(list[i])
    BY DEF TypeInv, ListInv
  <2>2. \A i \in DOMAIN list : list[i] \in Entries  BY <2>1
  <2> QED  BY <2>1, <2>2 DEF Entries, IsGenuine
<1>5. CanPage' => CanPage  BY <1>1 DEF CanPage, Current
<1>6. subscription'[1].cursor = entry.order  BY <1>1
<1>7. OnceInOrder(list, Lost, disturbed)  BY OnceInOrderShown DEF OrderAll
<1>8. "sent" \notin disturbed => \A i \in DOMAIN list : list[i].real
  BY DEF OrderAll, OrderInv
<1>9. ASSUME StartsHere
      PROVE  /\ list # <<>> /\ list[1].real /\ 1 \in DOMAIN list
             /\ list[1].order \in Nat /\ list[1].order < entry.order
             /\ \A i \in DOMAIN list : list[1].order <= list[i].order
  <2>1. /\ list # <<>> /\ list[1].real /\ list[1].order <= cursor
        /\ \A i \in DOMAIN list : list[1].order <= list[i].order
    BY <1>1, <1>9 DEF StartsHere, Begins
  <2>2. 1 \in DOMAIN list  BY <1>4, <2>1
  <2> QED  BY <1>2, <1>3, <1>4, <2>1, <2>2
<1>10. CASE undecrypted' = undecrypted \cup {entry.id} /\ list' = list
  <2>1. OnceInOrder(list', Lost', disturbed')
    BY <1>1, <1>7, <1>10 DEF OnceInOrder, Lost, readVars
  <2>2. ASSUME StartsHere
        PROVE  StartsHere' /\ list'[1].order = list[1].order
    <3>1. list[1].order <= entry.order  BY <1>3, <1>9, <2>2
    <3> QED  BY <1>6, <1>9, <1>10, <2>2, <3>1 DEF StartsHere, Begins
  <2> QED
    BY <1>1, <1>5, <1>8, <1>10, <2>1, <2>2, SameBoardMoves, OrderKeeps
<1>11. CASE /\ undecrypted' = undecrypted /\ entry.id \in ShownIds
            /\ \E merged \in MergeMessage(entry) : list' = merged
  <2>1. /\ list' \in Seq(Entries) /\ DOMAIN list' = DOMAIN list
        /\ \A i \in DOMAIN list : list'[i] = list[i] \/ list'[i] = entry
        /\ \A i \in DOMAIN list : list'[i].id = list[i].id
        /\ \A i \in DOMAIN list : list[i].real => list'[i].order = list[i].order
        /\ OnceInOrder(list', Lost, disturbed)
    BY <1>3, <1>11, OrderReplaced
  <2>2. "sent" \notin disturbed' => \A i \in DOMAIN list' : list'[i].real
    BY <1>1, <1>3, <1>8, <2>1
  <2>3. OnceInOrder(list', Lost', disturbed')
    BY <1>1, <1>11, <2>1 DEF Lost, readVars
  <2>4. ASSUME StartsHere
        PROVE  StartsHere' /\ list'[1].order = list[1].order
    <3>1. list'[1].order = list[1].order /\ list' # <<>> /\ list'[1].real
      BY <1>3, <1>9, <2>1, <2>4
    <3>2. list[1].order <= entry.order  BY <1>3, <1>9, <2>4
    <3>3. \A i \in DOMAIN list' : list[1].order <= list'[i].order
      BY <1>9, <2>1, <2>4, <3>2
    <3> QED  BY <1>6, <3>1, <3>2, <3>3 DEF StartsHere, Begins
  <2> QED
    BY <1>1, <1>5, <1>11, <2>2, <2>3, <2>4, SameBoardMoves, OrderKeeps
<1>12. CASE /\ undecrypted' = undecrypted /\ entry.id \notin ShownIds
            /\ \E merged \in MergeMessage(entry) : list' = merged
  <2>1. "sent" \notin disturbed => \A k \in DOMAIN list : list[k].order # entry.order
    <3> SUFFICES ASSUME "sent" \notin disturbed, NEW k \in DOMAIN list,
                        list[k].order = entry.order
                 PROVE  FALSE
      OBVIOUS
    <3>1. /\ relayer[list[k].id].order = relayer[entry.id].order
          /\ relayer[list[k].id].group = relayer[entry.id].group
      BY <1>3, <1>4, <1>8 DEF IsGenuine
    <3>2. list[k].id \in Stored /\ entry.id \in Stored  BY <1>3, <1>4 DEF Entries
    <3>3. list[k].id = entry.id  BY <3>1, <3>2 DEF TypeInv, BoardInv
    <3> QED  BY <1>12, <3>3 DEF ShownIds
  <2>2. OnceInOrder(list', Lost', disturbed')
    <3>1. PICK merged \in MergeMessage(entry) : list' = merged  BY <1>12
    <3>2. OnceInOrder(merged, Lost, disturbed)
      BY <1>3, <1>4, <1>7, <1>12, <2>1, MergedInOrder
    <3> QED  BY <1>1, <1>12, <3>1, <3>2 DEF Lost, readVars
  <2>3. "sent" \notin disturbed' => \A i \in DOMAIN list' : list'[i].real
    <3>1. \A i \in DOMAIN list' :
            list'[i] = entry \/ \E k \in DOMAIN list : list'[i] = list[k]
      BY <1>3, <1>4, <1>12, MergedShape
    <3> QED  BY <1>1, <1>3, <1>8, <3>1
  <2>4. ASSUME StartsHere
        PROVE  StartsHere' /\ list'[1].order = list[1].order
    <3>1. list[1].order <= entry.order  BY <1>3, <1>9, <2>4
    <3>2. /\ list' # <<>> /\ list'[1] = list[1]
          /\ \A i \in DOMAIN list' : list[1].order <= list'[i].order
      BY <1>3, <1>4, <1>9, <1>12, <2>4, <3>1, MergedBegins
    <3> QED  BY <1>6, <1>9, <2>4, <3>1, <3>2 DEF StartsHere, Begins
  <2> QED
    BY <1>1, <1>5, <1>12, <2>2, <2>3, <2>4, SameBoardMoves, OrderKeeps
<1> QED  BY <1>1, <1>10, <1>11, <1>12

LEMMA OrderOpenGroup ==
  ASSUME TypeInv, ReadInv, OrderAll, NEW g \in Groups, OpenGroup(g)
  PROVE  OrderAll'
<1>1. PICK x : x = [Request("load", NoId, 0) EXCEPT !.group = g, !.visit = visit + 1]
  OBVIOUS
<1>2. /\ requests' = requests \cup {x} /\ x.answered = FALSE /\ x.kind = "load"
      /\ list' = <<>> /\ hasMore' = FALSE /\ visit' = visit + 1 /\ UNCHANGED boardVars
  BY <1>1 DEF OpenGroup, Request
<1>4. \A q \in requests : q.visit # visit'
  BY <1>2 DEF TypeInv, RequestsInv, IsRequest
<1>3. \A q \in requests' : IsOrderly(q)'  BY <1>2, <1>4 DEF IsOrderly, Current
<1>5. ~CanPage'  BY <1>2, <1>4 DEF CanPage, Current
<1> QED
  BY <1>2, <1>3, <1>5 DEF OrderAll, OrderInv, ShownOnceInOrder

LEMMA InitOrder == Init => OrderAll
<1> SUFFICES ASSUME Init PROVE OrderAll
  OBVIOUS
<1>1. /\ requests = {Request("load", NoId, 0)} /\ list = <<>> /\ hasMore = FALSE
  BY DEF Init
<1>2. \A q \in requests : ~q.answered /\ q.kind = "load"  BY <1>1 DEF Request
<1>3. ~CanPage  BY <1>1, <1>2 DEF CanPage
<1> QED  BY <1>1, <1>2, <1>3 DEF OrderAll, OrderInv, IsOrderly, ShownOnceInOrder

LEMMA InitUnread == Init => UnreadInv
BY DEF Init, UnreadInv

LEMMA StepKeepsOrder ==
  ASSUME TypeInv, ReadInv, UnreadInv, OrderAll, [Next]_vars
  PROVE  OrderAll'
<1>1. CASE \/ \E id \in Ids : Send(id)
           \/ \E id \in ShownIds : Edit(id) \/ Delete(id)
           \/ LoadMore
  BY <1>1, AskShape, OrderAsk
<1>2. CASE \E g \in Groups : OpenGroup(g)  BY <1>2, OrderOpenGroup
<1>3. CASE \E r \in requests : Answer(r)  BY <1>3, OrderAnswer
<1>4. CASE \E r \in requests : \E failed \in SUBSET {r.page[i].id : i \in DOMAIN r.page} :
             ResolveLoad(r, failed) \/ ResolveMore(r, failed)
  BY <1>4, OrderResolveLoad, OrderResolveMore
<1>5. CASE \E r \in requests : ResolveSend(r)  BY <1>5, OrderResolveSend
<1>6. CASE \E r \in requests : ResolveChange(r)  BY <1>6, OrderResolveChange
<1>7. CASE \E r \in requests : FailLoad(r)  BY <1>7, OrderFailLoad
<1>8. CASE \E r \in requests : FailOther(r)
  BY <1>8, OrderDoneUnseen DEF FailOther
<1>9. CASE \E id \in Ids, g \in Groups : Receive(id, g)
  BY <1>9, OrderTakeOrder DEF Receive, IsUnused
<1>10. CASE Poll \/ RefusePoll  BY <1>10, OrderPoll, OrderRefusePoll
<1>13. CASE \E r \in requests : ReceiveSend(r)
  BY <1>13, OrderTakeOrder DEF ReceiveSend, TypeInv, RequestsInv, IsRequest
<1>14. CASE \E id \in Ids : StoreMessage(id)  BY <1>14, OrderStore
<1>11. CASE \E decrypts \in BOOLEAN : Yield(decrypts)  BY <1>11, OrderYield
<1>12. CASE UNCHANGED vars
  BY <1>12, SameBoardMoves, OrderViewKeeps DEF vars, historyVars, viewVars
<1> QED
  BY <1>1, <1>2, <1>3, <1>4, <1>5, <1>6, <1>7, <1>8, <1>9, <1>10, <1>11, <1>12,
     <1>13, <1>14
  DEF Next, UserNext, AnswerNext

(* Each message is shown once and, where nothing was sent, in order: the   *)
(* first page of a group stays what it is once it is full, so that an      *)
(* older page repeats nothing but what did not decrypt or came late.       *)
THEOREM EachIsShownOnceInOrder == Spec => []ShownOnceInOrder
<1>1. Init => TypeInv /\ ReadInv /\ UnreadInv /\ OrderAll
  BY InitTypes, InitRead, InitUnread, InitOrder
<1>2. TypeInv /\ ReadInv /\ UnreadInv /\ OrderAll /\ [Next]_vars =>
        (TypeInv /\ ReadInv /\ UnreadInv /\ OrderAll)'
  BY StepKeepsTypes, StepKeepsRead, StepKeepsUnread, StepKeepsOrder
<1>3. OrderAll => ShownOnceInOrder  BY DEF OrderAll
<1> QED  BY <1>1, <1>2, <1>3, PTL DEF Spec

-----------------------------------------------------------------------------
(* Own messages agree *)

SameContents == \A id \in Stored :
    id \in Stored' /\ relayer'[id].content = relayer[id].content

LEMMA SameBoardContents ==
  ASSUME UNCHANGED boardVars
  PROVE  SameContents
BY DEF SameContents, Stored, boardVars

LEMMA StoreContents ==
  ASSUME TypeInv, NEW id, StoreMessage(id)
  PROVE  SameContents
BY StoreShape DEF SameContents, TypeInv, Grows

LEMMA AgreesKeeps ==
  ASSUME SameContents, raced \subseteq raced', NEW entry \in Entries, Agrees(entry)
  PROVE  Agrees(entry)'
BY DEF SameContents, Agrees, Entries

(* The changes the client does not know of are not lost, unless marked. *)
ChangesKept == \A q \in requests : IsChanging(q, q.id) => q \in requests' \/ q.id \in raced'

LEMMA SettledKeeps ==
  ASSUME SameContents, raced \subseteq raced', ChangesKept,
         NEW entry \in Entries, IsSettled(entry)
  PROVE  IsSettled(entry)'
<1>1. CASE ~entry.real  BY <1>1 DEF IsSettled
<1>2. CASE Agrees(entry)  BY <1>2, AgreesKeeps DEF IsSettled
<1>3. CASE \E r \in requests : IsChanging(r, entry.id)
             /\ (r.kind = "edit" => entry.content # "deleted")
  <2>1. PICK r \in requests : IsChanging(r, entry.id)
          /\ (r.kind = "edit" => entry.content # "deleted")
    BY <1>3
  <2>2. r.id = entry.id /\ IsChanging(r, r.id)  BY <2>1 DEF IsChanging
  <2>3. CASE r \in requests'  BY <2>1, <2>3 DEF IsSettled, IsChanging
  <2>4. CASE r.id \in raced'  BY <2>2, <2>4 DEF IsSettled, Agrees
  <2> QED  BY <2>2, <2>3, <2>4 DEF ChangesKept
<1> QED  BY <1>1, <1>2, <1>3 DEF IsSettled

LEMMA TimelyKeeps ==
  ASSUME TypeInv, SameContents, raced \subseteq raced', ChangesKept,
         NEW r \in requests, IsTimely(r)
  PROVE  IsTimely(r)'
<1> SUFFICES ASSUME r.kind = "edit", ~r.answered, r.id \notin raced'
             PROVE  \/ relayer'[r.id].content # "deleted"
                    \/ \E q \in requests' : IsChanging(q, r.id)
  BY DEF IsTimely, IsChanging
<1>1. r.id \in Stored  BY DEF TypeInv, RequestsInv, IsRequest, Changes
<1>2. CASE relayer[r.id].content # "deleted"  BY <1>1, <1>2 DEF SameContents
<1>3. CASE \E q \in requests : IsChanging(q, r.id)
  <2>1. PICK q \in requests : IsChanging(q, r.id)  BY <1>3
  <2>2. q.id = r.id /\ IsChanging(q, q.id)  BY <2>1 DEF IsChanging
  <2> QED  BY <2>1, <2>2 DEF ChangesKept
<1> QED  BY <1>2, <1>3 DEF IsTimely

LEMMA TargetKeeps ==
  ASSUME TypeInv, SameContents, raced \subseteq raced', NEW r \in requests, HasTarget(r)
  PROVE  HasTarget(r)'
<1>1. r.kind \in Changes => r.id \in Stored
  BY DEF TypeInv, RequestsInv, IsRequest
<1> QED  BY <1>1 DEF HasTarget, IsChanging, SameContents

LEMMA AllAgreeKeeps ==
  ASSUME SameContents, raced \subseteq raced', NEW page \in Seq(Entries), AllAgree(page)
  PROVE  AllAgree(page)'
<1>1. \A i \in DOMAIN page : page[i] \in Entries  OBVIOUS
<1> QED  BY <1>1, AgreesKeeps DEF AllAgree

(* A step that changes no message: what is new in the view agrees. *)
LEMMA ContentKeeps ==
  ASSUME TypeInv, ContentInv, SameContents, raced \subseteq raced', ChangesKept,
         \A q \in requests' :
             q \in requests \/ (AllAgree(q.page)' /\ HasTarget(q)' /\ IsTimely(q)'),
         Open' => AllAgree(subscription[1].page)',
         \A i \in DOMAIN list' :
             (\E k \in DOMAIN list : list'[i] = list[k]) \/ IsSettled(list[i])'
  PROVE  ContentInv'
<1>1. ASSUME NEW q \in requests
      PROVE  AllAgree(q.page)' /\ HasTarget(q)' /\ IsTimely(q)'
  <2>1. q.page \in Seq(Entries)  BY DEF TypeInv, RequestsInv, IsRequest
  <2>2. PICK page \in Seq(Entries) : page = q.page  BY <2>1
  <2>3. AllAgree(page)'  BY <2>2, AllAgreeKeeps DEF ContentInv
  <2> QED  BY <2>2, <2>3, TargetKeeps, TimelyKeeps DEF ContentInv, AllAgree
<1>2. ASSUME NEW i \in DOMAIN list' PROVE IsSettled(list[i])'
  <2>1. CASE \E k \in DOMAIN list : list'[i] = list[k]
    <3>1. PICK k \in DOMAIN list : list'[i] = list[k]  BY <2>1
    <3>2. list \in Seq(Entries)  BY DEF TypeInv, ListInv
    <3>3. PICK entry \in Entries : entry = list[k]  BY <3>2
    <3>4. IsSettled(entry)'  BY <3>3, SettledKeeps DEF ContentInv
    <3>5. list'[i] = entry  BY <3>1, <3>3
    <3> QED  BY <3>4, <3>5 DEF IsSettled, Agrees
  <2> QED  BY <1>2, <2>1
<1> QED  BY <1>1, <1>2 DEF ContentInv

LEMMA ContentSubscription ==
  ASSUME TypeInv, ContentInv, SameContents, raced \subseteq raced', UNCHANGED subscription
  PROVE  Open' => AllAgree(subscription[1].page)'
<1> SUFFICES ASSUME Open PROVE AllAgree(subscription[1].page)'
  BY DEF Open
<1>1. subscription[1].page \in Seq(Entries) /\ AllAgree(subscription[1].page)
  BY DEF TypeInv, SubscriptionInv, IsPage, ContentInv
<1>2. PICK page \in Seq(Entries) : page = subscription[1].page  BY <1>1
<1>3. AllAgree(page)'  BY <1>1, <1>2, AllAgreeKeeps
<1> QED  BY <1>2, <1>3 DEF AllAgree

(* Neither the board's contents nor the view change. *)
LEMMA ContentViewKeeps ==
  ASSUME TypeInv, ContentInv, SameContents, raced \subseteq raced', ChangesKept,
         UNCHANGED <<list, subscription>>,
         \A q \in requests' :
             q \in requests \/ (AllAgree(q.page)' /\ HasTarget(q)' /\ IsTimely(q)')
  PROVE  ContentInv'
BY ContentSubscription, ContentKeeps

LEMMA ContentTakeOrder ==
  ASSUME TypeInv, ContentInv, NEW id, NEW g, NEW own, TakeOrder(id, g, own)
  PROVE  ContentInv'
<1>1. UNCHANGED <<relayer, list, subscription, requests, raced>>
  BY DEF TakeOrder, historyVars, viewVars
<1>2. SameContents  BY <1>1 DEF SameContents, Stored
<1> QED  BY <1>1, <1>2, ContentViewKeeps DEF ChangesKept

(* Only sends are answered. *)
LEMMA ContentStore ==
  ASSUME TypeInv, ContentInv, NEW id, StoreMessage(id)
  PROVE  ContentInv'
<1>1. /\ requests' = {StoredAnswer(r, id) : r \in requests}
      /\ UNCHANGED <<list, subscription, raced>>
  BY DEF StoreMessage, StoredAnswer, viewVars
<1>2. SameContents  BY StoreContents
<1>3. ASSUME NEW q \in requests', q \notin requests
      PROVE  AllAgree(q.page)' /\ HasTarget(q)' /\ IsTimely(q)'
  <2>1. PICK r \in requests : q = StoredAnswer(r, id)  BY <1>1
  <2>2. q.kind = "send" /\ q.page = <<>>  BY <1>3, <2>1, StoredAnswerShape
  <2> QED  BY <2>2 DEF AllAgree, HasTarget, IsTimely, IsChanging, Changes
<1>4. ASSUME NEW q \in requests, IsChanging(q, q.id) PROVE q \in requests'
  <2>1. PICK x : x = StoredAnswer(q, id)  OBVIOUS
  <2>2. q.kind # "send"  BY <1>4 DEF IsChanging, Changes
  <2>3. x = q  BY <2>1, <2>2, StoredAnswerShape
  <2> QED  BY <1>1, <2>1, <2>3
<1> QED  BY <1>1, <1>2, <1>3, <1>4, ContentViewKeeps DEF ChangesKept

(* Only a message that is shown undeleted can be edited. *)
LEMMA ContentAsk ==
  ASSUME TypeInv, ContentInv, UNCHANGED <<boardVars, viewVars, historyVars>>,
         NEW kind, NEW id, NEW before, IsAsked(kind, id, before)
  PROVE  ContentInv'
<1>1. PICK x : x = Request(kind, id, before)  OBVIOUS
<1>2. /\ requests' = requests \cup {x} /\ x.answered = FALSE /\ x.kind = kind
      /\ x.id = id /\ x.page = <<>>
      /\ kind = "edit" => IsShown(id, {"first"}) /\ id \in Stored
  BY <1>1 DEF IsAsked, Ask, Request, Changes
<1>3. UNCHANGED <<list, subscription, raced>> /\ SameContents
  BY SameBoardContents DEF viewVars, historyVars
<1>4. ASSUME kind = "edit", id \notin raced
      PROVE  \/ relayer[id].content # "deleted"
             \/ \E q \in requests : IsChanging(q, id)
  <2>1. PICK i \in DOMAIN list :
          list[i].id = id /\ list[i].real /\ list[i].content = "first"
    BY <1>2, <1>4 DEF IsShown
  <2>2. IsSettled(list[i])  BY DEF ContentInv
  <2> QED  BY <1>4, <2>1, <2>2 DEF IsSettled, Agrees
<1>5. AllAgree(x.page)' /\ HasTarget(x)' /\ IsTimely(x)'
  BY <1>2, <1>3, <1>4 DEF AllAgree, HasTarget, IsTimely, IsChanging, boardVars
<1> QED  BY <1>2, <1>3, <1>5, ContentViewKeeps DEF ChangesKept

LEMMA ContentAnswerChange ==
  ASSUME TypeInv, ContentInv, NEW r \in requests, ~r.answered, AnswerChange(r),
         UNCHANGED <<taken, orders, viewVars>>
  PROVE  ContentInv'
<1> DEFINE id == r.id
           unsettled == IsContested(r) \/ IsRead(id)
<1>1. /\ r.kind \in Changes /\ id \in Stored /\ id \in Ids
      /\ relayer' = [relayer EXCEPT ![id].content = Target(r.kind)]
      /\ Answered(r, <<>>, FALSE)
      /\ raced' = IF unsettled THEN raced \cup {id} ELSE raced
      /\ UNCHANGED <<list, subscription>>
  BY DEF AnswerChange, TypeInv, RequestsInv, IsRequest, Changes, Raced, Target, viewVars, BoardInv
<1>2. PICK x : x = [r EXCEPT !.answered = TRUE, !.page = <<>>, !.hasNext = FALSE]
  OBVIOUS
<1>3. /\ x.answered /\ x.page = <<>> /\ x.kind = r.kind /\ x.id = id
      /\ requests' = (requests \ {r}) \cup {x}
  BY <1>1, <1>2 DEF Answered, TypeInv, RequestsInv, IsRequest
<1>4. /\ Stored' = Stored /\ relayer'[id].content = Target(r.kind)
      /\ \A i \in Stored \ {id} : relayer'[i] = relayer[i]
  <2>1. Target(r.kind) \in Contents  BY DEF Target, Contents
  <2> QED  BY <1>1, <2>1, ChangeShape DEF TypeInv
<1>5. raced \subseteq raced' /\ (id \notin raced' => ~unsettled)  BY <1>1
<1> HIDE DEF unsettled
<1>6. ASSUME id \notin raced'
      PROVE  /\ \A q \in requests \ {r} : q.id # id
             /\ \A q \in requests : ~InPage(id, q.page)
             /\ Open => ~InPage(id, subscription[1].page)
  BY <1>5, <1>6 DEF unsettled, IsContested, IsRead
<1> HIDE DEF id
<1>7. ASSUME NEW entry \in Entries, entry.id # id \/ id \in raced', Agrees(entry)
      PROVE  Agrees(entry)'
  BY <1>4, <1>5, <1>7 DEF Agrees, Entries
<1>8. ASSUME NEW q \in requests'
      PROVE  AllAgree(q.page)' /\ HasTarget(q)' /\ IsTimely(q)'
  <2>1. CASE q = x
    BY <1>3, <1>4, <2>1 DEF AllAgree, HasTarget, IsTimely, IsChanging
  <2>2. CASE q \in requests \ {r}
    <3>1. AllAgree(q.page)'
      <4>1. q.page \in Seq(Entries) /\ AllAgree(q.page)
        BY <2>2 DEF TypeInv, RequestsInv, IsRequest, ContentInv
      <4>2. ASSUME NEW i \in DOMAIN q.page PROVE Agrees(q.page[i])'
        <5>1. PICK entry \in Entries : entry = q.page[i]  BY <4>1
        <5>2. Agrees(entry)  BY <4>1, <5>1 DEF AllAgree
        <5>3. entry.id # id \/ id \in raced'  BY <1>6, <2>2, <5>1 DEF InPage
        <5>4. Agrees(entry)'  BY <1>7, <5>2, <5>3
        <5> QED  BY <5>1, <5>4 DEF Agrees
      <4> QED  BY <4>2 DEF AllAgree
    <3>2. HasTarget(q)'
      <4> SUFFICES ASSUME IsChanging(q, q.id), q.id \notin raced'
                   PROVE  relayer'[q.id].content = Target(q.kind)
        BY DEF HasTarget, IsChanging
      <4>1. q.id # id  BY <1>6, <2>2
      <4>2. q.id \in Stored  BY <2>2 DEF IsChanging, TypeInv, RequestsInv, IsRequest
      <4>3. relayer[q.id].content = Target(q.kind)
        BY <1>5, <2>2 DEF ContentInv, HasTarget
      <4> QED  BY <1>4, <4>1, <4>2, <4>3
    <3>3. IsTimely(q)'
      <4> SUFFICES ASSUME q.kind = "edit", ~q.answered, q.id \notin raced'
                   PROVE  \/ relayer'[q.id].content # "deleted"
                          \/ \E p \in requests' : IsChanging(p, q.id)
        BY DEF IsTimely, IsChanging
      <4>1. q.id # id  BY <1>6, <2>2
      <4>2. q.id \in Stored  BY <2>2 DEF TypeInv, RequestsInv, IsRequest, Changes
      <4>3. \/ relayer[q.id].content # "deleted"
            \/ \E p \in requests : IsChanging(p, q.id)
        BY <1>5, <2>2 DEF ContentInv, IsTimely
      <4>4. \A p \in requests : IsChanging(p, q.id) => p \in requests'
        BY <1>3 DEF IsChanging
      <4> QED  BY <1>4, <4>1, <4>2, <4>3, <4>4
    <3> QED  BY <3>1, <3>2, <3>3
  <2> QED  BY <1>3, <2>1, <2>2
<1>9. Open' => AllAgree(subscription[1].page)'
  <2> SUFFICES ASSUME Open PROVE AllAgree(subscription[1].page)'
    BY <1>1 DEF Open
  <2>1. subscription[1].page \in Seq(Entries) /\ AllAgree(subscription[1].page)
    BY DEF TypeInv, SubscriptionInv, IsPage, ContentInv
  <2>2. ASSUME NEW i \in DOMAIN subscription[1].page
        PROVE  Agrees(subscription[1].page[i])'
    <3>1. PICK entry \in Entries : entry = subscription[1].page[i]  BY <2>1
    <3>2. Agrees(entry)  BY <2>1, <3>1 DEF AllAgree
    <3>3. entry.id # id \/ id \in raced'  BY <1>6, <3>1 DEF InPage
    <3>4. Agrees(entry)'  BY <1>7, <3>2, <3>3
    <3> QED  BY <1>1, <3>1, <3>4 DEF Agrees
  <2> QED  BY <1>1, <2>2 DEF AllAgree
<1>10. ASSUME NEW i \in DOMAIN list' PROVE IsSettled(list[i])'
  <2>1. list \in Seq(Entries)  BY DEF TypeInv, ListInv
  <2>2. PICK entry \in Entries : entry = list[i]  BY <1>1, <1>10, <2>1
  <2>3. IsSettled(entry)  BY <1>1, <1>10, <2>2 DEF ContentInv
  <2>4. IsSettled(entry)'
    <3>1. CASE id \in raced' /\ entry.id = id  BY <3>1 DEF IsSettled, Agrees
    <3>2. CASE entry.id # id
      <4>1. Agrees(entry) => Agrees(entry)'  BY <1>7, <3>2
      <4>2. \A q \in requests : IsChanging(q, entry.id) => q \in requests'
        BY <1>3 DEF IsChanging
      <4> QED  BY <2>3, <4>1, <4>2 DEF IsSettled, IsChanging
    <3>3. CASE id \notin raced' /\ entry.id = id
      <4>1. ~\E q \in requests : IsChanging(q, id)
        BY <1>6, <3>3 DEF IsChanging, id
      <4>2. x \in requests' /\ IsChanging(x, id)  BY <1>1, <1>3 DEF IsChanging
      <4>3. entry.real /\ r.kind = "edit" => entry.content # "deleted"
        <5>1. r.kind = "edit" => relayer[id].content # "deleted"
          BY <1>5, <3>3, <4>1 DEF ContentInv, IsTimely, id
        <5>2. entry.real => entry.content = relayer[id].content
          BY <1>5, <2>3, <3>3, <4>1 DEF IsSettled, Agrees
        <5> QED  BY <5>1, <5>2
      <4>4. IsChanging(x, id)'  BY <4>2 DEF IsChanging
      <4> QED  BY <1>3, <3>3, <4>2, <4>3, <4>4 DEF IsSettled
    <3> QED  BY <3>1, <3>2, <3>3
  <2> QED  BY <1>1, <2>2, <2>4 DEF IsSettled, Agrees
<1> QED  BY <1>8, <1>9, <1>10 DEF ContentInv

LEMMA ContentAnswer ==
  ASSUME TypeInv, ContentInv, NEW r \in requests, Answer(r)
  PROVE  ContentInv'
<1>1. ~r.answered /\ UNCHANGED <<taken, orders, viewVars, list, subscription>>
  BY DEF Answer, viewVars
<1>2. ASSUME NEW page, NEW hasNext, Answered(r, page, hasNext), r.kind \notin Changes,
             AllAgree(page)', SameContents, UNCHANGED raced
      PROVE  ContentInv'
  <2>1. PICK x : x = [r EXCEPT !.answered = TRUE, !.page = page, !.hasNext = hasNext]
    OBVIOUS
  <2>2. /\ x.page = page /\ x.kind = r.kind /\ requests' = (requests \ {r}) \cup {x}
    BY <1>2, <2>1 DEF Answered, TypeInv, RequestsInv, IsRequest
  <2>3. AllAgree(x.page)' /\ HasTarget(x)' /\ IsTimely(x)'
    BY <1>2, <2>2 DEF AllAgree, Agrees, HasTarget, IsTimely, IsChanging, Changes
  <2>4. ChangesKept  BY <1>2, <2>2 DEF ChangesKept, IsChanging
  <2> QED  BY <1>1, <1>2, <2>2, <2>3, <2>4, ContentViewKeeps
<1>3. CASE AnswerPage(r)
  <2> DEFINE ids == {id \in InGroup(r.group) : r.kind = "load" \/ relayer[id].order < r.before}
  <2>1. PICK page \in Pages(ids) : Answered(r, page, Cardinality(ids) > PageLimit)
    BY <1>3 DEF AnswerPage
  <2>2. r.group \in Groups /\ BoardInv  BY DEF TypeInv, RequestsInv, IsRequest
  <2>3. ids \in SUBSET InGroup(r.group)  OBVIOUS
  <2>4. \A i \in DOMAIN page : page[i].content = relayer[page[i].id].content
    <3> HIDE DEF ids
    <3> QED  BY <2>1, <2>2, <2>3, PageShape
  <2>5. UNCHANGED <<boardVars, raced>> /\ r.kind \notin Changes
    BY <1>1, <1>3 DEF AnswerPage, Changes, boardVars
  <2>6. AllAgree(page)'  BY <2>4, <2>5 DEF AllAgree, Agrees, boardVars
  <2>7. PICK hasNext : hasNext = (Cardinality(ids) > PageLimit) /\ Answered(r, page, hasNext)
    BY <2>1
  <2> QED  BY <1>2, <2>5, <2>6, <2>7, SameBoardContents
<1>5. CASE AnswerChange(r)  BY <1>1, <1>5, ContentAnswerChange
<1> QED  BY <1>3, <1>5 DEF Answer

(* A request is done that changed nothing, or was marked. *)
LEMMA DoneContents ==
  ASSUME TypeInv, NEW r \in requests, Done(r), raced \subseteq raced',
         IsChanging(r, r.id) => r.id \in raced'
  PROVE  ChangesKept /\ requests' \subseteq requests
BY DEF Done, ChangesKept

(* An entry of a page that agrees is settled wherever it is shown. *)
LEMMA PageSettles ==
  ASSUME SameContents, raced \subseteq raced', NEW page \in Seq(Entries),
         AllAgree(page), NEW i \in DOMAIN page
  PROVE  IsSettled(page[i])'
<1>1. page[i] \in Entries /\ Agrees(page[i])  BY DEF AllAgree
<1>2. Agrees(page[i])'  BY <1>1, AgreesKeeps
<1> QED  BY <1>2 DEF IsSettled

LEMMA ContentResolveLoad ==
  ASSUME TypeInv, ContentInv, NEW r \in requests,
         NEW failed \in SUBSET {r.page[i].id : i \in DOMAIN r.page}, ResolveLoad(r, failed)
  PROVE  ContentInv'
<1>1. /\ r.kind = "load" /\ Done(r) /\ UNCHANGED <<boardVars, raced>>
      /\ SameContents
  BY SameBoardContents DEF ResolveLoad
<1>2. ChangesKept /\ requests' \subseteq requests
  BY <1>1, DoneContents DEF IsChanging, Changes
<1>3. CASE ~Current(r)
  BY <1>1, <1>2, <1>3, ContentViewKeeps DEF ResolveLoad, IsWanted, viewVars
<1>4. CASE Current(r)
  <2>1. PICK shown \in Decrypted(r.page, failed) :
          list' = shown /\ EndLoading(list', lastOrder')
    BY <1>4 DEF ResolveLoad, IsWanted, SetMessages
  <2>2. subscription'[1].page = <<>>  BY <2>1 DEF EndLoading, Subscribed
  <2>3. AllAgree(subscription[1].page)'  BY <2>2 DEF AllAgree
  <2>4. PICK page \in Seq(Entries) : page = r.page /\ AllAgree(page)
    BY DEF TypeInv, RequestsInv, IsRequest, ContentInv
  <2>5. ASSUME NEW i \in DOMAIN list' PROVE IsSettled(list[i])'
    <3>1. PICK k \in DOMAIN page : shown[i] = page[k]
      BY <2>1, <2>4, <2>5, DecryptedSelects
    <3>2. IsSettled(page[k])'  BY <1>1, <2>4, PageSettles
    <3> QED  BY <2>1, <3>1, <3>2 DEF IsSettled, Agrees
  <2> QED  BY <1>1, <1>2, <2>3, <2>5, ContentKeeps
<1> QED  BY <1>3, <1>4

LEMMA ContentFailLoad ==
  ASSUME TypeInv, ContentInv, NEW r \in requests, FailLoad(r)
  PROVE  ContentInv'
<1>1. /\ r.kind = "load" /\ Done(r) /\ UNCHANGED <<boardVars, raced>>
      /\ SameContents /\ list' = list
      /\ subscription' = subscription \/ subscription' = Subscribed(lastOrder)
  BY SameBoardContents DEF FailLoad, EndLoading, viewVars
<1>2. ChangesKept /\ requests' \subseteq requests
  BY <1>1, DoneContents DEF IsChanging, Changes
<1>3. Open' => AllAgree(subscription[1].page)'
  <2>1. CASE subscription' = subscription  BY <1>1, <2>1, ContentSubscription
  <2>2. CASE subscription' = Subscribed(lastOrder)
    BY <2>2 DEF AllAgree, Subscribed
  <2> QED  BY <1>1, <2>1, <2>2
<1> QED  BY <1>1, <1>2, <1>3, ContentKeeps

LEMMA ContentResolveMore ==
  ASSUME TypeInv, ContentInv, NEW r \in requests,
         NEW failed \in SUBSET {r.page[i].id : i \in DOMAIN r.page}, ResolveMore(r, failed)
  PROVE  ContentInv'
<1>1. /\ r.kind = "more" /\ Done(r) /\ UNCHANGED <<boardVars, raced, subscription>>
      /\ SameContents
  BY SameBoardContents DEF ResolveMore, viewVars
<1>2. ChangesKept /\ requests' \subseteq requests
  BY <1>1, DoneContents DEF IsChanging, Changes
<1>3. CASE r.group # uuid
  BY <1>1, <1>2, <1>3, ContentViewKeeps DEF ResolveMore, viewVars
<1>4. CASE r.group = uuid
  <2>1. PICK shown \in Decrypted(r.page, failed) : list' = shown \o list
    BY <1>4 DEF ResolveMore, SetMessages, WithOlder
  <2>2. PICK page \in Seq(Entries) : page = r.page /\ AllAgree(page)
    BY DEF TypeInv, RequestsInv, IsRequest, ContentInv
  <2>3. shown \in Seq(Entries) /\ list \in Seq(Entries)
    BY <2>1, <2>2, DecryptedSelects DEF TypeInv, ListInv
  <2>4. ASSUME NEW i \in DOMAIN list'
        PROVE  (\E k \in DOMAIN list : list'[i] = list[k]) \/ IsSettled(list[i])'
    <3>1. \/ \E k \in DOMAIN list : list'[i] = list[k]
          \/ i \in DOMAIN shown /\ list'[i] = shown[i]
      <4>1. /\ i \in 1..(Len(shown) + Len(list))
            /\ Len(shown) \in Nat /\ Len(list) \in Nat
            /\ DOMAIN shown = 1..Len(shown) /\ DOMAIN list = 1..Len(list)
        BY <2>1, <2>3, <2>4
      <4>2. CASE i \in DOMAIN shown  BY <2>1, <2>3, <4>1, <4>2
      <4>3. CASE i \notin DOMAIN shown
        <5>1. i - Len(shown) \in DOMAIN list /\ list'[i] = list[i - Len(shown)]
          BY <2>1, <2>3, <4>1, <4>3
        <5> QED  BY <5>1
      <4> QED  BY <4>2, <4>3
    <3>2. ASSUME i \in DOMAIN shown, list'[i] = shown[i] PROVE IsSettled(list[i])'
      <4>1. PICK k \in DOMAIN page : shown[i] = page[k]
        BY <2>1, <2>2, <3>2, DecryptedSelects
      <4>2. IsSettled(page[k])'  BY <1>1, <2>2, PageSettles
      <4> QED  BY <3>2, <4>1, <4>2 DEF IsSettled, Agrees
    <3> QED  BY <3>1, <3>2
  <2> QED  BY <1>1, <1>2, <2>4, ContentSubscription, ContentKeeps
<1> QED  BY <1>3, <1>4

LEMMA ContentResolveSend ==
  ASSUME TypeInv, ContentInv, NEW r \in requests, ResolveSend(r)
  PROVE  ContentInv'
<1>1. /\ r.kind = "send" /\ r.answered /\ Done(r)
      /\ UNCHANGED <<boardVars, raced, subscription>> /\ SameContents
  BY SameBoardContents DEF ResolveSend
<1>2. ChangesKept /\ requests' \subseteq requests
  BY <1>1, DoneContents DEF IsChanging, Changes
<1>3. PICK merged \in MergeMessage(Optimistic(r)) : list' = merged
  BY DEF ResolveSend, SetMessages
<1> PICK entry : entry = Optimistic(r)  OBVIOUS
<1>4. entry \in Entries /\ ~entry.real /\ list \in Seq(Entries)
  BY <1>1, OptimisticEntry DEF Optimistic, TypeInv, ListInv
<1>5. ASSUME NEW i \in DOMAIN list'
      PROVE  (\E k \in DOMAIN list : list'[i] = list[k]) \/ IsSettled(list[i])'
  <2>1. list'[i] = entry \/ \E k \in DOMAIN list : list'[i] = list[k]
    BY <1>3, <1>4, <1>5, MergedShape
  <2> QED  BY <1>4, <2>1 DEF IsSettled
<1> QED  BY <1>1, <1>2, <1>5, ContentSubscription, ContentKeeps

(* The answer to an edit or delete shows what the relayer has done, where  *)
(* no other call about the message is under way.                           *)
LEMMA ContentResolveChange ==
  ASSUME TypeInv, ContentInv, NEW r \in requests, ResolveChange(r)
  PROVE  ContentInv'
<1>1. /\ r.kind \in Changes /\ r.answered /\ requests' = requests \ {r}
      /\ list' = [i \in DOMAIN list |-> Changed(list[i], r)]
      /\ UNCHANGED <<boardVars, subscription>> /\ SameContents
      /\ raced' = IF IsContested(r) THEN raced \cup {r.id} ELSE raced
  BY SameBoardContents DEF ResolveChange, SetMessages, Done, Raced, Changes
<1>2. raced \subseteq raced'
      /\ (r.id \notin raced' => \A q \in requests : q.id = r.id => q = r)
  BY <1>1 DEF IsContested
<1>3. ASSUME NEW i \in DOMAIN list' PROVE IsSettled(list[i])'
  <2>1. list \in Seq(Entries) /\ i \in DOMAIN list
    BY <1>1, <1>3 DEF TypeInv, ListInv
  <2>2. PICK entry \in Entries : entry = list[i] /\ IsSettled(entry)
    BY <2>1 DEF ContentInv
  <2>3. PICK changed : changed = Changed(entry, r)  OBVIOUS
  <2>4. list'[i] = changed  BY <1>1, <2>1, <2>2, <2>3
  <2>5. IsSettled(changed)'
    <3>1. CASE entry.id # r.id
      <4>1. changed = entry  BY <2>3, <3>1 DEF Changed
      <4>2. Agrees(entry) => Agrees(entry)'  BY <1>1, <1>2, AgreesKeeps
      <4>3. \A q \in requests : IsChanging(q, entry.id) => q \in requests'
        BY <1>1, <3>1 DEF IsChanging
      <4> QED  BY <2>2, <4>1, <4>2, <4>3 DEF IsSettled, IsChanging
    <3>2. CASE entry.id = r.id
      <4>1. /\ changed.id = r.id /\ changed.real = entry.real
            /\ changed.content = IF r.kind = "delete" \/ entry.content = "deleted"
                                 THEN "deleted" ELSE "edited"
        BY <2>3, <3>2 DEF Changed, Entries
      <4>2. CASE r.id \in raced'  BY <4>1, <4>2 DEF IsSettled, Agrees
      <4>3. CASE r.id \notin raced'
        <5>1. relayer[r.id].content = Target(r.kind)
          BY <1>1, <1>2, <4>3 DEF ContentInv, HasTarget, IsChanging
        <5>2. entry.real /\ r.kind = "edit" => entry.content # "deleted"
          <6>1. entry.real => \/ entry.content = relayer[r.id].content
                              \/ r.kind = "edit" => entry.content # "deleted"
            BY <1>2, <2>2, <3>2, <4>3 DEF IsSettled, Agrees, IsChanging
          <6> QED  BY <5>1, <6>1 DEF Target
        <5>3. changed.real => changed.content = relayer'[changed.id].content
          BY <1>1, <4>1, <5>1, <5>2 DEF Target, Changes, boardVars
        <5> QED  BY <5>3 DEF IsSettled, Agrees
      <4> QED  BY <4>2, <4>3
    <3> QED  BY <3>1, <3>2
  <2> QED  BY <2>4, <2>5 DEF IsSettled, Agrees
<1>4. ASSUME NEW q \in requests'
      PROVE  AllAgree(q.page)' /\ HasTarget(q)' /\ IsTimely(q)'
  <2>1. q \in requests /\ q # r  BY <1>1
  <2>2. PICK page \in Seq(Entries) : page = q.page /\ AllAgree(page)
    BY <2>1 DEF TypeInv, RequestsInv, IsRequest, ContentInv
  <2>3. AllAgree(page)'  BY <1>1, <1>2, <2>2, AllAgreeKeeps
  <2>4. HasTarget(q)'  BY <1>1, <1>2, <2>1, TargetKeeps DEF ContentInv
  <2>5. IsTimely(q)'
    <3> SUFFICES ASSUME q.kind = "edit", ~q.answered, q.id \notin raced'
                 PROVE  \/ relayer[q.id].content # "deleted"
                        \/ \E p \in requests' : IsChanging(p, q.id)
      BY <1>1 DEF IsTimely, IsChanging, boardVars
    <3>1. q.id # r.id  BY <1>2, <2>1
    <3>2. \/ relayer[q.id].content # "deleted"
          \/ \E p \in requests : IsChanging(p, q.id)
      BY <1>2, <2>1 DEF ContentInv, IsTimely
    <3>3. \A p \in requests : IsChanging(p, q.id) => p \in requests'
      BY <1>1, <3>1 DEF IsChanging
    <3> QED  BY <3>2, <3>3
  <2> QED  BY <2>2, <2>3, <2>4, <2>5 DEF AllAgree
<1> QED  BY <1>1, <1>2, <1>3, <1>4, ContentSubscription DEF ContentInv

LEMMA ContentFailOther ==
  ASSUME TypeInv, ContentInv, NEW r \in requests, FailOther(r)
  PROVE  ContentInv'
<1>1. /\ Done(r) /\ UNCHANGED <<boardVars, list, subscription>> /\ SameContents
      /\ raced \subseteq raced' /\ (IsChanging(r, r.id) => r.id \in raced')
  BY SameBoardContents DEF FailOther, Raced, IsChanging, Changes, viewVars
<1> QED  BY <1>1, DoneContents, ContentViewKeeps

LEMMA ContentPoll ==
  ASSUME TypeInv, ContentInv, Poll
  PROVE  ContentInv'
<1> DEFINE ids == {id \in InGroup(uuid) : relayer[id].order > subscription[1].cursor}
<1>1. PICK page \in Pages(ids) : subscription' = [subscription EXCEPT ![1].page = page]
  BY DEF Poll
<1>2. Open /\ UNCHANGED <<boardVars, list, requests, raced>> /\ SameContents
  BY SameBoardContents DEF Poll
<1>3. uuid \in Groups /\ BoardInv
        /\ subscription = <<[cursor |-> subscription[1].cursor, page |-> subscription[1].page]>>
  BY <1>2 DEF TypeInv, SubscriptionInv
<1>4. subscription'[1].page = page  BY <1>1, <1>3
<1>5. ids \in SUBSET InGroup(uuid)  OBVIOUS
<1>6. \A i \in DOMAIN page : page[i].content = relayer[page[i].id].content
  <2> HIDE DEF ids
  <2> QED  BY <1>1, <1>3, <1>5, PageShape
<1>7. AllAgree(subscription[1].page)'  BY <1>2, <1>4, <1>6 DEF AllAgree, Agrees, boardVars
<1> QED  BY <1>2, <1>7, ContentKeeps DEF ChangesKept

LEMMA ContentRefusePoll ==
  ASSUME TypeInv, ContentInv, RefusePoll
  PROVE  ContentInv'
<1>1. /\ subscription' = <<>> /\ UNCHANGED <<boardVars, list, requests, raced>>
      /\ SameContents
  BY SameBoardContents DEF RefusePoll, Closed, historyVars
<1>2. ~Open'  BY <1>1 DEF Open
<1> QED  BY <1>1, <1>2, ContentKeeps DEF ChangesKept

LEMMA ContentYield ==
  ASSUME TypeInv, ContentInv, NEW decrypts \in BOOLEAN, Yield(decrypts)
  PROVE  ContentInv'
<1> PICK page, entry : page = subscription[1].page /\ entry = Head(page)  OBVIOUS
<1>1. /\ Open /\ page # <<>>
      /\ subscription' = <<[cursor |-> entry.order, page |-> Tail(page)]>>
      /\ UNCHANGED <<boardVars, requests, raced>> /\ SameContents
      /\ \/ \E merged \in MergeMessage(entry) : list' = merged
         \/ list' = list
  BY SameBoardContents DEF Yield, SetMessages
<1>2. IsPage(page, uuid) /\ page \in Seq(Entries) /\ AllAgree(page)
  BY <1>1 DEF TypeInv, SubscriptionInv, IsPage, ContentInv
<1>3. /\ 1 \in DOMAIN page /\ entry = page[1] /\ entry \in Entries
      /\ \A i \in DOMAIN Tail(page) : i + 1 \in DOMAIN page /\ Tail(page)[i] = page[i + 1]
  BY <1>1, <1>2, PageTail
<1>4. ASSUME NEW i \in DOMAIN list'
      PROVE  (\E k \in DOMAIN list : list'[i] = list[k]) \/ IsSettled(list[i])'
  <2>1. list \in Seq(Entries)  BY DEF TypeInv, ListInv
  <2>2. list'[i] = entry \/ \E k \in DOMAIN list : list'[i] = list[k]
    <3>1. CASE list' = list  BY <1>4, <3>1
    <3>2. CASE \E merged \in MergeMessage(entry) : list' = merged
      BY <1>3, <1>4, <2>1, <3>2, MergedShape
    <3> QED  BY <1>1, <3>1, <3>2
  <2>3. IsSettled(entry)'  BY <1>1, <1>2, <1>3, PageSettles
  <2>4. list'[i] = entry => IsSettled(list[i])'
    BY <2>3 DEF IsSettled, Agrees
  <2> QED  BY <2>2, <2>4
<1>5. AllAgree(Tail(page))  BY <1>2, <1>3 DEF AllAgree
<1>6. AllAgree(subscription[1].page)'
  <2>1. subscription'[1].page = Tail(page)  BY <1>1
  <2> QED  BY <1>1, <1>5, <2>1 DEF AllAgree, Agrees, boardVars
<1> QED  BY <1>1, <1>4, <1>6, ContentKeeps DEF ChangesKept

LEMMA ContentOpenGroup ==
  ASSUME TypeInv, ContentInv, NEW g \in Groups, OpenGroup(g)
  PROVE  ContentInv'
<1>1. PICK x : x = [Request("load", NoId, 0) EXCEPT !.group = g, !.visit = visit + 1]
  OBVIOUS
<1>2. /\ requests' = requests \cup {x}
      /\ x.answered = FALSE /\ x.kind = "load" /\ x.page = <<>>
      /\ list' = <<>> /\ subscription' = <<>> /\ UNCHANGED <<boardVars, raced>>
      /\ SameContents
  BY <1>1, SameBoardContents DEF OpenGroup, Request, Closed
<1>3. AllAgree(x.page)' /\ HasTarget(x)' /\ IsTimely(x)'
  BY <1>2 DEF AllAgree, HasTarget, IsTimely, IsChanging
<1>4. ~Open'  BY <1>2 DEF Open
<1> QED  BY <1>2, <1>3, <1>4, ContentKeeps DEF ChangesKept

LEMMA InitContent == Init => ContentInv
<1> SUFFICES ASSUME Init PROVE ContentInv
  OBVIOUS
<1>1. /\ requests = {Request("load", NoId, 0)} /\ list = <<>> /\ ~Open
  BY DEF Init, Open, Closed
<1>2. \A q \in requests : ~q.answered /\ q.kind = "load" /\ q.page = <<>>
  BY <1>1 DEF Request
<1> QED
  BY <1>1, <1>2 DEF ContentInv, AllAgree, HasTarget, IsTimely, IsChanging

LEMMA StepKeepsContent ==
  ASSUME TypeInv, ContentInv, [Next]_vars
  PROVE  ContentInv'
<1>1. CASE \/ \E id \in Ids : Send(id)
           \/ \E id \in ShownIds : Edit(id) \/ Delete(id)
           \/ LoadMore
  BY <1>1, AskShape, ContentAsk
<1>2. CASE \E g \in Groups : OpenGroup(g)  BY <1>2, ContentOpenGroup
<1>3. CASE \E r \in requests : Answer(r)  BY <1>3, ContentAnswer
<1>4. CASE \E r \in requests : \E failed \in SUBSET {r.page[i].id : i \in DOMAIN r.page} :
             ResolveLoad(r, failed) \/ ResolveMore(r, failed)
  BY <1>4, ContentResolveLoad, ContentResolveMore
<1>5. CASE \E r \in requests : ResolveSend(r)  BY <1>5, ContentResolveSend
<1>6. CASE \E r \in requests : ResolveChange(r)  BY <1>6, ContentResolveChange
<1>7. CASE \E r \in requests : FailLoad(r)  BY <1>7, ContentFailLoad
<1>8. CASE \E r \in requests : FailOther(r)  BY <1>8, ContentFailOther
<1>9. CASE \E id \in Ids, g \in Groups : Receive(id, g)
  BY <1>9, ContentTakeOrder DEF Receive
<1>10. CASE Poll \/ RefusePoll  BY <1>10, ContentPoll, ContentRefusePoll
<1>13. CASE \E r \in requests : ReceiveSend(r)
  BY <1>13, ContentTakeOrder DEF ReceiveSend
<1>14. CASE \E id \in Ids : StoreMessage(id)  BY <1>14, ContentStore
<1>11. CASE \E decrypts \in BOOLEAN : Yield(decrypts)  BY <1>11, ContentYield
<1>12. CASE UNCHANGED vars
  BY <1>12, SameBoardContents, ContentViewKeeps
  DEF vars, historyVars, viewVars, ChangesKept
<1> QED
  BY <1>1, <1>2, <1>3, <1>4, <1>5, <1>6, <1>7, <1>8, <1>9, <1>10, <1>11, <1>12,
     <1>13, <1>14
  DEF Next, UserNext, AnswerNext

(* What the user sees of a message is what the relayer has, unless a call  *)
(* about it is under way: an optimistic change is applied once the relayer *)
(* has made it, and to a deleted message not at all.                       *)
THEOREM OwnMessagesAgreeAlways == Spec => []OwnMessagesAgree
<1>1. Init => TypeInv /\ ContentInv  BY InitTypes, InitContent
<1>2. TypeInv /\ ContentInv /\ [Next]_vars => TypeInv' /\ ContentInv'
  BY StepKeepsTypes, StepKeepsContent
<1>3. ContentInv => OwnMessagesAgree
  BY DEF ContentInv, IsSettled, Agrees, IsChanging, OwnMessagesAgree
<1> QED  BY <1>1, <1>2, <1>3, PTL DEF Spec

(*************************************************************************)
(*                            GroupDiscovery                             *)
(*************************************************************************)

EventRecords == [kind : {"added", "removed"}, member : Accounts, group : Uuids]

(* The chain: as many additions as removals of a member, or one more. *)
ChainInv ==
    /\ events \in Seq(EventRecords)
    /\ \A a \in Accounts, g \in Uuids :
           Count("added", a, g, OnChain) - Count("removed", a, g, OnChain) \in {0, 1}

SidebarInv ==
    /\ account \in Accounts \cup {NoAccount}
    /\ stored \in Seq(Uuids) /\ groups \in Seq(Uuids)
    /\ \A g \in Range(stored) : Exists(g)

RunRecords ==
    [at : {"idle", "reading", "merging"}, account : Accounts \cup {NoAccount},
     added : SUBSET (0..Len(events)), removed : SUBSET (0..Len(events)),
     active : SUBSET Uuids, known : SUBSET Uuids,
     aborted : BOOLEAN, steady : SUBSET Uuids]

WasRead(kind, a, read) == read = NotRead \/ read \subseteq Of(kind, a, OnChain)

IsRun(f) ==
    /\ f \in RunRecords
    /\ \A g \in f.active : Exists(g)
    /\ f.aborted \/ f.at = "idle" \/ f.account = account
    /\ WasRead("added", f.account, f.added) /\ WasRead("removed", f.account, f.removed)

RunsInv ==
    /\ DOMAIN run = Runs
    /\ \A r \in Runs : IsRun(run[r])

Creations == {t \in signing : t.kind = "create"}

SigningInv ==
    /\ signing \subseteq [kind : {"create", "leave"}, group : Uuids]
    /\ \A t \in Creations : Exists(t.group)

(* As long as no writers of the list have overlapped: a discovery is alone,  *)
(* nothing is being created besides it, what it found stored still is, and *)
(* no group is listed twice or before its creation has ended.              *)
AloneInv ==
    ~overlapped =>
        /\ IsInjective(stored) /\ IsInjective(groups)
        /\ \A r, q \in Underway : r = q
        /\ \A t \in Creations : Underway = {} /\ t.group \notin Range(stored)
        /\ \A r \in Runs : run[r].at = "merging" => run[r].known = Range(stored)

(* What a run knows of a group that is steady is still so. *)
SteadyInv ==
    \A r \in Runs : \A g \in run[r].steady :
        /\ run[r].at = "merging" /\ ~run[r].aborted
        /\ g \in run[r].active <=> IsMember(account, g)
        /\ g \in run[r].known <=> g \in Range(stored)

GroupsInv ==
    ChainInv /\ SidebarInv /\ RunsInv /\ SigningInv /\ AloneInv /\ SteadyInv

-----------------------------------------------------------------------------
(* The chain *)

Counted(kind, member, g, read) ==
    {i \in read : /\ events[i].kind = kind /\ events[i].member = member
                  /\ events[i].group = g}

LEMMA CountIsNat ==
  ASSUME ChainInv, NEW kind, NEW member, NEW g, NEW read \in SUBSET OnChain
  PROVE  /\ Count(kind, member, g, read) = Cardinality(Counted(kind, member, g, read))
         /\ IsFiniteSet(Counted(kind, member, g, read))
         /\ Count(kind, member, g, read) \in Nat
         /\ Count(kind, member, g, read) > 0 => Exists(g)
<1> DEFINE S == Counted(kind, member, g, read)
<1>1. {i \in Of(kind, member, read) : events[i].group = g} = S
  BY DEF Of, Counted
<1>2. Count(kind, member, g, read) = Cardinality(S)  BY <1>1 DEF Count
<1>3. Len(events) \in Nat /\ OnChain = 1..Len(events)  BY DEF ChainInv, OnChain
<1>4. IsFiniteSet(S)
  <2>1. IsFiniteSet(OnChain)  BY <1>3, FS_Interval
  <2>2. S \subseteq OnChain  BY DEF Counted
  <2> QED  BY <2>1, <2>2, FS_Subset
<1>5. Cardinality(S) \in Nat  BY <1>4, FS_CardinalityType
<1>6. S = {} => Cardinality(S) = 0  BY FS_EmptySet
<1>7. Cardinality(S) > 0 => S # {}  BY <1>5, <1>6
<1>8. S # {} => Exists(g)  BY DEF Counted, Exists, OnChain
<1> QED  BY <1>2, <1>4, <1>5, <1>7, <1>8

(* Only a group with events has members. *)
LEMMA AddedExists ==
  ASSUME ChainInv, NEW a, NEW g, NEW added \in SUBSET OnChain,
         NEW removed \in SUBSET OnChain,
         Count("added", a, g, added) > Count("removed", a, g, removed)
  PROVE  Exists(g)
<1>1. Count("added", a, g, added) \in Nat /\ Count("removed", a, g, removed) \in Nat
  BY CountIsNat
<1>2. Count("added", a, g, added) > 0  BY <1>1
<1> QED  BY <1>2, CountIsNat

LEMMA MemberExists ==
  ASSUME ChainInv, NEW a, NEW g, IsMember(a, g)
  PROVE  Exists(g)
<1>1. OnChain \in SUBSET OnChain  OBVIOUS
<1> QED  BY <1>1, AddedExists DEF IsMember

LEMMA ExistingAreFinite ==
  ASSUME ChainInv, NEW S, \A g \in S : Exists(g)
  PROVE  IsFiniteSet(S)
<1> DEFINE n == Len(events)
           T == {events[i].group : i \in 1..n}
           f == [i \in 1..n |-> events[i].group]
<1>1. n \in Nat /\ DOMAIN events = 1..n  BY DEF ChainInv
<1>2. f \in Surjection(1..n, T)  BY DEF Surjection
<1>3. IsFiniteSet(1..n)  BY <1>1, FS_Interval
<1>4. IsFiniteSet(T)  BY <1>2, <1>3, FS_Surjection
<1>5. S \subseteq T  BY <1>1 DEF Exists
<1> QED  BY <1>4, <1>5, FS_Subset

(* The chain only grows. *)
Longer ==
    /\ ChainInv' /\ Len(events) <= Len(events')
    /\ \A g : Exists(g) => Exists(g)'
    /\ \A kind, a : Of(kind, a, OnChain) \subseteq Of(kind, a, OnChain)'

(* An event counts where it is of the kind, member and group counted. *)
LEMMA CountAppended ==
  ASSUME ChainInv, NEW event \in EventRecords, events' = Append(events, event),
         NEW kind, NEW member, NEW g
  PROVE  LET before == Count(kind, member, g, OnChain)
         IN  /\ before \in Nat
             /\ Count(kind, member, g, OnChain)' =
                  IF event.kind = kind /\ event.member = member /\ event.group = g
                  THEN before + 1 ELSE before
<1> DEFINE n == Len(events)
           here == event.kind = kind /\ event.member = member /\ event.group = g
           S == Counted(kind, member, g, OnChain)
           T == Counted(kind, member, g, OnChain)'
<1>1. /\ n \in Nat /\ Len(events)' = n + 1 /\ events'[n + 1] = event
      /\ \A i \in 1..n : events'[i] = events[i]
      /\ OnChain = 1..n /\ OnChain' = 1..(n + 1)
  BY DEF ChainInv, OnChain
<1>2. Count(kind, member, g, OnChain) = Cardinality(S) /\ IsFiniteSet(S)
      /\ Cardinality(S) \in Nat
  <2>1. OnChain \in SUBSET OnChain  OBVIOUS
  <2>2. Count(kind, member, g, OnChain) = Cardinality(S) /\ IsFiniteSet(S)
    BY <2>1, CountIsNat
  <2> QED  BY <2>2, FS_CardinalityType
<1>3. Count(kind, member, g, OnChain)' = Cardinality(T)
  <2>1. ({i \in Of(kind, member, OnChain) : events[i].group = g})' = T
    BY DEF Of, Counted
  <2> QED  BY <2>1 DEF Count
<1>4. /\ \A i : i \in S <=> i \in 1..n /\ events[i].kind = kind
                              /\ events[i].member = member /\ events[i].group = g
      /\ \A i : i \in T <=> i \in 1..(n + 1) /\ events'[i].kind = kind
                              /\ events'[i].member = member /\ events'[i].group = g
  BY <1>1 DEF Counted
<1>5. \A i : i \in 1..(n + 1) <=> i \in 1..n \/ i = n + 1  BY <1>1
<1>6. n + 1 \notin 1..n  BY <1>1
<1> HIDE DEF S, T, n
<1>7. n + 1 \notin S  BY <1>4, <1>6
<1>8. T = IF here THEN S \cup {n + 1} ELSE S
  <2>1. \A i \in 1..n : i \in T <=> i \in S  BY <1>1, <1>4, <1>5
  <2>2. n + 1 \in T <=> here  BY <1>1, <1>4, <1>5
  <2>3. \A i : i \in T => i \in 1..n \/ i = n + 1  BY <1>4, <1>5
  <2>4. S \subseteq 1..n  BY <1>4
  <2> HIDE DEF here
  <2>5. PICK last : last = n + 1  OBVIOUS
  <2>6. \A i : i \in T <=> i \in S \/ (here /\ i = last)
    BY <2>1, <2>2, <2>3, <2>4, <2>5
  <2>7. CASE here  BY <2>5, <2>6, <2>7
  <2>8. CASE ~here  BY <2>6, <2>8
  <2> QED  BY <2>7, <2>8
<1>9. here => Cardinality(T) = Cardinality(S) + 1
  BY <1>2, <1>7, <1>8, FS_AddElement
<1> HIDE DEF here
<1>10. Cardinality(T) = IF here THEN Cardinality(S) + 1 ELSE Cardinality(S)
  BY <1>8, <1>9
<1> QED  BY <1>2, <1>3, <1>10 DEF here

(* A member is added who is none, and removed who is one. *)
LEMMA EmitKeepsChain ==
  ASSUME ChainInv, NEW kind \in {"added", "removed"}, NEW a \in Accounts,
         NEW g \in Uuids, events' = Append(events, Event(kind, a, g)),
         kind = "added" <=> ~IsMember(a, g)
  PROVE  /\ Longer /\ Exists(g)'
         /\ \A b, h : ~(b = a /\ h = g) => (IsMember(b, h)' <=> IsMember(b, h))
<1> DEFINE e == Event(kind, a, g)
<1>1. e \in EventRecords /\ e.kind = kind /\ e.member = a /\ e.group = g
  BY DEF Event, EventRecords
<1>2. /\ events' \in Seq(EventRecords)
      /\ Len(events) \in Nat /\ Len(events') = Len(events) + 1
      /\ DOMAIN events = 1..Len(events) /\ DOMAIN events' = 1..Len(events')
      /\ events'[Len(events')] = e
      /\ \A i \in DOMAIN events : i \in DOMAIN events' /\ events'[i] = events[i]
  BY <1>1 DEF ChainInv
<1>3. Exists(g)'
  <2>1. Len(events') \in DOMAIN events'  BY <1>2
  <2> QED  BY <1>1, <1>2, <2>1 DEF Exists
<1>4. \A h : Exists(h) => Exists(h)'  BY <1>2 DEF Exists
<1>5. \A k, b : Of(k, b, OnChain) \subseteq Of(k, b, OnChain)'
  BY <1>2 DEF Of, OnChain
<1>6. ASSUME NEW b, NEW h
      PROVE  /\ Count("added", b, h, OnChain) \in Nat
             /\ Count("removed", b, h, OnChain) \in Nat
             /\ Count("added", b, h, OnChain)' =
                  IF kind = "added" /\ a = b /\ g = h
                  THEN Count("added", b, h, OnChain) + 1
                  ELSE Count("added", b, h, OnChain)
             /\ Count("removed", b, h, OnChain)' =
                  IF kind = "removed" /\ a = b /\ g = h
                  THEN Count("removed", b, h, OnChain) + 1
                  ELSE Count("removed", b, h, OnChain)
  <2> HIDE DEF e
  <2>1. events' = Append(events, e)  BY DEF e
  <2> QED  BY <1>1, <2>1, CountAppended
<1>7. ASSUME NEW b, NEW h, ~(b = a /\ h = g)
      PROVE  IsMember(b, h)' <=> IsMember(b, h)
  BY <1>6, <1>7 DEF IsMember
<1>8. ASSUME NEW b \in Accounts, NEW h \in Uuids
      PROVE  (Count("added", b, h, OnChain) - Count("removed", b, h, OnChain))' \in {0, 1}
  <2> DEFINE added == Count("added", b, h, OnChain)
             removed == Count("removed", b, h, OnChain)
             added1 == Count("added", b, h, OnChain)'
             removed1 == Count("removed", b, h, OnChain)'
  <2>1. added \in Nat /\ removed \in Nat /\ added - removed \in {0, 1}
    BY <1>6 DEF ChainInv
  <2>2. added1 = IF kind = "added" /\ a = b /\ g = h THEN added + 1 ELSE added
    BY <1>6
  <2>3. removed1 = IF kind = "removed" /\ a = b /\ g = h THEN removed + 1 ELSE removed
    BY <1>6
  <2>4. a = b /\ g = h => (kind = "added" <=> ~(added > removed))
    BY DEF IsMember
  <2> HIDE DEF added, removed, added1, removed1
  <2>5. added1 - removed1 \in {0, 1}
    <3>1. CASE ~(a = b /\ g = h)  BY <2>1, <2>2, <2>3, <3>1
    <3>2. CASE a = b /\ g = h /\ kind = "added"  BY <2>1, <2>2, <2>3, <2>4, <3>2
    <3>3. CASE a = b /\ g = h /\ kind = "removed"  BY <2>1, <2>2, <2>3, <2>4, <3>3
    <3> QED  BY <3>1, <3>2, <3>3
  <2> QED  BY <2>5 DEF added1, removed1
<1>9. ChainInv'  BY <1>2, <1>8 DEF ChainInv
<1>10. Len(events) <= Len(events')  BY <1>2
<1> QED  BY <1>3, <1>4, <1>5, <1>7, <1>9, <1>10 DEF Longer

LEMMA SameChain ==
  ASSUME ChainInv, UNCHANGED events
  PROVE  /\ Longer
         /\ \A a, g : IsMember(a, g)' <=> IsMember(a, g)
<1>1. OnChain' = OnChain  BY DEF OnChain
<1>2. \A kind, member, g :
          Count(kind, member, g, OnChain)' = Count(kind, member, g, OnChain)
  BY <1>1 DEF Count, Of
<1>3. \A g : Exists(g)' <=> Exists(g)  BY DEF Exists
<1>4. \A a, g : IsMember(a, g)' <=> IsMember(a, g)  BY <1>2 DEF IsMember
<1>5. ChainInv'  BY <1>2 DEF ChainInv
<1>6. \A kind, a : Of(kind, a, OnChain)' = Of(kind, a, OnChain)  BY <1>1 DEF Of
<1>7. Len(events) \in Nat  BY DEF ChainInv
<1> QED  BY <1>3, <1>4, <1>5, <1>6, <1>7 DEF Longer

-----------------------------------------------------------------------------
(* Discoveries under way *)

LEMMA IdleIsRun ==
  ASSUME ChainInv
  PROVE  IsRun(Idle) /\ Idle.at = "idle" /\ Idle.steady = {}
BY DEF IsRun, RunRecords, Idle, WasRead

LEMMA StartedIsRun ==
  ASSUME ChainInv', NEW a \in Accounts, account' = a, NEW f, f = Started(a)
  PROVE  /\ IsRun(f)'
         /\ f.at = "reading" /\ f.steady = {}
<1>1. 0 \in 0..Len(events')  BY DEF ChainInv
<1>2. f = [at |-> "reading", account |-> a, added |-> NotRead, removed |-> NotRead,
           active |-> {}, known |-> {}, aborted |-> FALSE, steady |-> {}]
  BY DEF Started, Idle
<1>3. NotRead \in SUBSET (0..Len(events'))  BY <1>1 DEF NotRead
<1>4. f \in RunRecords'  BY <1>2, <1>3 DEF RunRecords
<1>5. NotRead' = NotRead  BY DEF NotRead
<1> QED  BY <1>2, <1>4, <1>5 DEF IsRun, WasRead

LEMMA RunStays ==
  ASSUME NEW f, ChainInv, IsRun(f), Longer,
         account' = account \/ f.aborted \/ f.at = "idle",
         account' \in Accounts \cup {NoAccount}
  PROVE  IsRun(f)'
<1>1. Len(events) \in Nat /\ Len(events') \in Nat /\ Len(events) <= Len(events')
  BY DEF ChainInv, Longer
<1>2. 0..Len(events) \subseteq 0..Len(events')  BY <1>1
<1>3. f \in RunRecords'
  <2>1. f \in RunRecords  BY DEF IsRun
  <2> QED  BY <1>2, <2>1 DEF RunRecords
<1>4. ASSUME NEW kind, NEW a, NEW read, WasRead(kind, a, read) PROVE WasRead(kind, a, read)'
  BY <1>4 DEF WasRead, Longer, NotRead
<1> QED  BY <1>3, <1>4 DEF IsRun, Longer

LEMMA SpoiledShape ==
  ASSUME RunsInv, NEW uuids
  PROVE  /\ DOMAIN Spoiled(run, uuids) = Runs
         /\ \A r \in Runs :
               /\ IsRun(Spoiled(run, uuids)[r])
               /\ Spoiled(run, uuids)[r].at = run[r].at
               /\ Spoiled(run, uuids)[r].aborted = run[r].aborted
               /\ Spoiled(run, uuids)[r].active = run[r].active
               /\ Spoiled(run, uuids)[r].known = run[r].known
               /\ Spoiled(run, uuids)[r].steady = run[r].steady \ uuids
<1>1. ASSUME NEW r \in Runs, NEW f, f = Spoiled(run, uuids)[r]
      PROVE  /\ IsRun(f) /\ f.at = run[r].at /\ f.aborted = run[r].aborted
             /\ f.active = run[r].active /\ f.known = run[r].known
             /\ f.steady = run[r].steady \ uuids
  <2>1. IsRun(run[r])  BY DEF RunsInv
  <2>2. f = [run[r] EXCEPT !.steady = @ \ uuids]  BY <1>1 DEF Spoiled
  <2>3. run[r] \in RunRecords  BY <2>1 DEF IsRun
  <2>4. /\ f.at = run[r].at /\ f.aborted = run[r].aborted /\ f.account = run[r].account
        /\ f.active = run[r].active /\ f.known = run[r].known
        /\ f.added = run[r].added /\ f.removed = run[r].removed
        /\ f.steady = run[r].steady \ uuids /\ f \in RunRecords
    BY <2>2, <2>3 DEF RunRecords
  <2>5. IsRun(f)  BY <2>1, <2>4 DEF IsRun
  <2> QED  BY <2>4, <2>5
<1> QED  BY <1>1 DEF Spoiled

LEMMA AbortedShape ==
  ASSUME ChainInv, RunsInv
  PROVE  /\ DOMAIN Aborted(run) = Runs
         /\ \A r \in Runs :
               /\ IsRun(Aborted(run)[r])
               /\ Aborted(run)[r].steady = {}
               /\ Aborted(run)[r].aborted \/ Aborted(run)[r].at = "idle"
               /\ Aborted(run)[r].at = run[r].at
               /\ Aborted(run)[r].at = "merging" => Aborted(run)[r].known = run[r].known
<1>1. ASSUME NEW r \in Runs, NEW f, f = Aborted(run)[r]
      PROVE  /\ IsRun(f) /\ f.steady = {} /\ f.at = run[r].at
             /\ f.aborted \/ f.at = "idle"
             /\ f.at = "merging" => f.known = run[r].known
  <2>1. CASE run[r].at = "idle"
    <3>1. f = Idle  BY <1>1, <2>1 DEF Aborted
    <3> QED  BY <2>1, <3>1, IdleIsRun
  <2>2. CASE run[r].at # "idle"
    <3>1. f = [run[r] EXCEPT !.aborted = TRUE, !.steady = {},
                             !.added = {}, !.removed = {}]
      BY <1>1, <2>2 DEF Aborted
    <3>2. IsRun(run[r]) /\ run[r] \in RunRecords  BY DEF RunsInv, IsRun
    <3>3. /\ f.at = run[r].at /\ f.aborted /\ f.steady = {} /\ f.known = run[r].known
          /\ f.active = run[r].active /\ f.added = {} /\ f.removed = {}
          /\ f \in RunRecords
      BY <3>1, <3>2 DEF RunRecords
    <3> QED  BY <3>2, <3>3 DEF IsRun, WasRead
  <2> QED  BY <2>1, <2>2
<1> QED  BY <1>1 DEF Aborted

(* A run is as far as before. *)
RunsGoOn ==
    \A r \in Runs : /\ run'[r].at = run[r].at
                    /\ run'[r].at = "merging" => run'[r].known = run[r].known

(* Runs that go on. *)
LEMMA RunsStay ==
  ASSUME ChainInv, RunsInv, Longer, account' \in Accounts \cup {NoAccount},
         \/ run' = run /\ account' = account
         \/ (\E uuids : run' = Spoiled(run, uuids)) /\ account' = account
         \/ run' = Aborted(run)
  PROVE  RunsInv' /\ RunsGoOn
<1>1. CASE run' = run /\ account' = account
  <2>1. \A r \in Runs : IsRun(run[r])'  BY <1>1, RunStays DEF RunsInv
  <2> QED  BY <1>1, <2>1 DEF RunsInv, RunsGoOn
<1>2. CASE (\E uuids : run' = Spoiled(run, uuids)) /\ account' = account
  <2>1. /\ DOMAIN run' = Runs
        /\ \A r \in Runs : /\ IsRun(run'[r]) /\ run'[r].at = run[r].at
                           /\ run'[r].known = run[r].known
    BY <1>2, SpoiledShape
  <2>2. ASSUME NEW r \in Runs PROVE IsRun(run[r])'
    <3>1. PICK f : f = run'[r]  OBVIOUS
    <3>2. IsRun(f)'  BY <1>2, <2>1, <3>1, RunStays
    <3> QED  BY <3>1, <3>2
  <2> QED  BY <2>1, <2>2 DEF RunsInv, RunsGoOn
<1>3. CASE run' = Aborted(run)
  <2>1. /\ DOMAIN run' = Runs
        /\ \A r \in Runs :
              /\ IsRun(run'[r])
              /\ run'[r].aborted \/ run'[r].at = "idle"
              /\ run'[r].at = run[r].at
              /\ run'[r].at = "merging" => run'[r].known = run[r].known
    BY <1>3, AbortedShape
  <2>2. ASSUME NEW r \in Runs PROVE IsRun(run[r])'
    <3>1. PICK f : f = run'[r]  OBVIOUS
    <3>2. IsRun(f) /\ (f.aborted \/ f.at = "idle")  BY <2>1, <3>1
    <3>3. IsRun(f)'  BY <3>2, RunStays
    <3> QED  BY <3>1, <3>3
  <2> QED  BY <2>1, <2>2 DEF RunsInv, RunsGoOn
<1> QED  BY <1>1, <1>2, <1>3

(* One run changes, or ends. *)
LEMMA RunChanges ==
  ASSUME ChainInv, RunsInv, NEW r \in Runs, NEW f, IsRun(f), NEW others,
         DOMAIN others = Runs, \A q \in Runs : IsRun(others[q]),
         run' = [others EXCEPT ![r] = f],
         UNCHANGED <<account, events>>, account \in Accounts \cup {NoAccount}
  PROVE  /\ RunsInv' /\ run'[r] = f
         /\ \A q \in Runs : q # r => run'[q] = others[q]
<1>1. DOMAIN others = Runs /\ \A q \in Runs : IsRun(others[q])  OBVIOUS
<1>2. run'[r] = f /\ DOMAIN run' = Runs /\ \A q \in Runs : q # r => run'[q] = others[q]
  BY <1>1
<1>3. \A q \in Runs : IsRun(run'[q])  BY <1>1, <1>2
<1>4. ASSUME NEW q \in Runs PROVE IsRun(run[q])'
  <2>1. PICK h : h = run'[q]  OBVIOUS
  <2>2. IsRun(h)'  BY <1>3, <2>1, SameChain, RunStays
  <2> QED  BY <2>1, <2>2
<1> QED  BY <1>2, <1>4 DEF RunsInv

(* The lists stay, or the stored one is shown; and runs that find it are   *)
(* runs that found it.                                                     *)
LEMMA AloneStays ==
  ASSUME AloneInv, stored' = stored, groups' \in {groups, stored},
         Creations' \subseteq Creations, overlapped => overlapped',
         \A r \in Runs : \/ run'[r].at = "idle"
                         \/ /\ run'[r].at = run[r].at
                            /\ run'[r].at = "merging" => run'[r].known = run[r].known
  PROVE  AloneInv'
<1>1. Underway' \subseteq Underway  BY DEF Underway
<1>2. SUFFICES ASSUME ~overlapped'
               PROVE  /\ IsInjective(stored)' /\ IsInjective(groups)'
                      /\ \A r, q \in Underway' : r = q
                      /\ \A t \in Creations' :
                            Underway' = {} /\ t.group \notin Range(stored)'
                      /\ \A r \in Runs :
                            run'[r].at = "merging" => run'[r].known = Range(stored)'
  BY DEF AloneInv
<1>3. IsInjective(stored)' /\ IsInjective(groups)'  BY <1>2 DEF AloneInv, IsInjective
<1>4. Range(stored)' = Range(stored)  BY DEF Range
<1> QED  BY <1>1, <1>2, <1>3, <1>4 DEF AloneInv

(* What is steady was so before, and is about what did not change. *)
LEMMA SteadyStays ==
  ASSUME SteadyInv, account' = account,
         \A r \in Runs : \A g \in run'[r].steady :
            /\ g \in run[r].steady
            /\ run'[r].at = run[r].at /\ run'[r].aborted = run[r].aborted
            /\ run'[r].active = run[r].active /\ run'[r].known = run[r].known
            /\ IsMember(account, g)' <=> IsMember(account, g)
            /\ g \in Range(stored)' <=> g \in Range(stored)
  PROVE  SteadyInv'
BY DEF SteadyInv

LEMMA SteadyNever ==
  ASSUME \A r \in Runs : run'[r].steady = {}
  PROVE  SteadyInv'
BY DEF SteadyInv

-----------------------------------------------------------------------------
(* Steps on the chain *)

(* An event about an account leaves what a discovery knows of it settled    *)
(* for the other groups, and of the other accounts for every group.         *)
LEMMA EmitKeepsMost ==
  ASSUME GroupsInv, NEW kind \in {"added", "removed"}, NEW a \in Accounts,
         NEW g \in Uuids, Emit(Event(kind, a, g)),
         kind = "added" <=> ~IsMember(a, g), UNCHANGED <<sidebarVars, stored>>
  PROVE  /\ Longer /\ SidebarInv' /\ RunsInv' /\ SteadyInv' /\ RunsGoOn
         /\ Exists(g)'
         /\ \A h \in settled' : h \in settled /\ (IsMember(account, h)' <=> IsMember(account, h))
<1> DEFINE uuids == IF a = account THEN {g} ELSE {}
<1>1. /\ Longer /\ Exists(g)'
      /\ \A b, h : ~(b = a /\ h = g) => (IsMember(b, h)' <=> IsMember(b, h))
  BY EmitKeepsChain DEF GroupsInv, Emit
<1>2. run' = Spoiled(run, uuids) /\ settled' = settled \ uuids
  <2>1. Event(kind, a, g).member = a /\ Event(kind, a, g).group = g  BY DEF Event
  <2> QED  BY <2>1 DEF Emit, Unsettle
<1>3. /\ account' = account /\ stored' = stored /\ groups' = groups
      /\ account \in Accounts \cup {NoAccount}
  BY DEF sidebarVars, GroupsInv, SidebarInv
<1>4. SidebarInv'
  <2>1. Range(stored)' = Range(stored)  BY <1>3 DEF Range
  <2> QED  BY <1>1, <1>3, <2>1 DEF GroupsInv, SidebarInv, Longer
<1>5. RunsInv' /\ RunsGoOn  BY <1>1, <1>2, <1>3, RunsStay DEF GroupsInv
<1>6. \A h : h \notin uuids => (IsMember(account, h)' <=> IsMember(account, h))
  <2>1. \A h : h \notin uuids => ~(account = a /\ h = g)  OBVIOUS
  <2>2. \A b, h : ~(b = a /\ h = g) => (IsMember(b, h)' <=> IsMember(b, h))  BY <1>1
  <2> HIDE DEF uuids
  <2>3. PICK b : b = account  OBVIOUS
  <2>4. \A h : h \notin uuids => (IsMember(b, h)' <=> IsMember(b, h))
    BY <2>1, <2>2, <2>3
  <2>5. \A h : IsMember(account, h)' <=> IsMember(b, h)'
    BY <1>3, <2>3 DEF IsMember, Count, Of
  <2> QED  BY <2>3, <2>4, <2>5
<1> HIDE DEF uuids
<1>7. SteadyInv'
  <2>1. \A r \in Runs : /\ run'[r].at = run[r].at /\ run'[r].aborted = run[r].aborted
                        /\ run'[r].active = run[r].active /\ run'[r].known = run[r].known
                        /\ run'[r].steady = run[r].steady \ uuids
    BY <1>2, SpoiledShape DEF GroupsInv
  <2>2. Range(stored)' = Range(stored)  BY <1>3 DEF Range
  <2> QED  BY <1>3, <1>6, <2>1, <2>2, SteadyStays DEF GroupsInv
<1> QED  BY <1>1, <1>2, <1>4, <1>5, <1>6, <1>7

LEMMA SigningStays ==
  ASSUME SigningInv, signing' \subseteq signing, Longer
  PROVE  SigningInv' /\ Creations' \subseteq Creations
<1>1. Creations' \subseteq Creations  BY DEF Creations
<1>2. (\A t \in Creations : Exists(t.group))'
  <2> SUFFICES ASSUME NEW t \in Creations'
               PROVE  Exists(t.group)'
    OBVIOUS
  <2>1. PICK g : g = t.group  OBVIOUS
  <2>2. Exists(g)  BY <1>1, <2>1 DEF SigningInv
  <2> QED  BY <2>1, <2>2 DEF Longer
<1> QED  BY <1>1, <1>2 DEF SigningInv

(* Another admin adds or removes a member. *)
LEMMA MembershipChanges ==
  ASSUME GroupsInv, NEW a \in Accounts, NEW g \in Uuids,
         AddMember(a, g) \/ RemoveMember(a, g)
  PROVE  GroupsInv'
<1>1. PICK kind \in {"added", "removed"} :
        /\ Emit(Event(kind, a, g))
        /\ kind = "added" <=> ~IsMember(a, g)
  BY DEF AddMember, RemoveMember
<1>2. UNCHANGED <<sidebarVars, stored, signing, overlapped>>
  BY DEF AddMember, RemoveMember
<1>3. Longer /\ SidebarInv' /\ RunsInv' /\ SteadyInv' /\ RunsGoOn
  BY <1>1, <1>2, EmitKeepsMost
<1>4. SigningInv' /\ Creations' \subseteq Creations
  BY <1>2, <1>3, SigningStays DEF GroupsInv
<1>5. AloneInv'
  BY <1>2, <1>3, <1>4, AloneStays DEF GroupsInv, sidebarVars, RunsGoOn
<1> QED  BY <1>3, <1>4, <1>5 DEF GroupsInv, Longer

LEMMA LeaveKeeps ==
  ASSUME GroupsInv, NEW g \in Uuids, LeaveGroup(g)
  PROVE  GroupsInv'
<1>1. account \in Accounts  BY DEF LeaveGroup, GroupsInv, SidebarInv
<1>2. Longer /\ SidebarInv' /\ RunsInv' /\ SteadyInv' /\ RunsGoOn
  <2>1. PICK a \in Accounts : a = account  BY <1>1
  <2>2. Emit(Event("removed", a, g)) /\ IsMember(a, g)  BY <2>1 DEF LeaveGroup
  <2>3. UNCHANGED <<sidebarVars, stored>>  BY DEF LeaveGroup
  <2> QED  BY <2>2, <2>3, EmitKeepsMost
<1>3. signing' = signing \cup {Signed("leave", g)}  BY DEF LeaveGroup
<1>4. Creations' = Creations  BY <1>3 DEF Creations, Signed
<1>5. SigningInv'
  <2>1. Signed("leave", g) \in [kind : {"create", "leave"}, group : Uuids]
    BY DEF Signed
  <2>2. (\A t \in Creations : Exists(t.group))'
    <3> SUFFICES ASSUME NEW t \in Creations'
                 PROVE  Exists(t.group)'
      OBVIOUS
    <3>1. PICK h : h = t.group  OBVIOUS
    <3>2. Exists(h)  BY <1>4, <3>1 DEF GroupsInv, SigningInv
    <3> QED  BY <1>2, <3>1, <3>2 DEF Longer
  <2> QED  BY <1>3, <1>4, <2>1, <2>2 DEF GroupsInv, SigningInv
<1>6. AloneInv'
  BY <1>2, <1>4, AloneStays DEF LeaveGroup, GroupsInv, sidebarVars, RunsGoOn
<1> QED  BY <1>2, <1>5, <1>6 DEF GroupsInv, Longer

(* A group that is created is in no list yet. *)
LEMMA CreateKeeps ==
  ASSUME GroupsInv, NEW g \in Uuids, CreateGroup(g)
  PROVE  GroupsInv'
<1>1. account \in Accounts  BY DEF CreateGroup, GroupsInv, SidebarInv
<1>2. UNCHANGED <<sidebarVars, stored>>  BY DEF CreateGroup
<1>3. Longer /\ SidebarInv' /\ RunsInv' /\ SteadyInv' /\ RunsGoOn /\ Exists(g)'
  <2>1. PICK a \in Accounts : a = account  BY <1>1
  <2>2. Emit(Event("added", a, g)) /\ ~Exists(g)  BY <2>1 DEF CreateGroup
  <2>3. ~IsMember(a, g)  BY <2>2, MemberExists DEF GroupsInv
  <2> QED  BY <1>2, <2>2, <2>3, EmitKeepsMost
<1> DEFINE new == Signed("create", g)
<1>4. /\ new \in [kind : {"create", "leave"}, group : Uuids]
      /\ new.kind = "create" /\ new.group = g
  BY DEF Signed
<1>5. signing' = signing \cup {new}  BY DEF CreateGroup
<1> HIDE DEF new
<1>6. Creations' = Creations \cup {new}  BY <1>4, <1>5 DEF Creations
<1>7. ~Exists(g)  BY DEF CreateGroup
<1>8. SigningInv'
  <2>1. (\A t \in Creations : Exists(t.group))'
    <3> SUFFICES ASSUME NEW t \in Creations'
                 PROVE  Exists(t.group)'
      OBVIOUS
    <3>1. PICK h : h = t.group  OBVIOUS
    <3>2. Exists(h) \/ h = g  BY <1>4, <1>6, <3>1 DEF GroupsInv, SigningInv
    <3> QED  BY <1>3, <3>1, <3>2 DEF Longer
  <2> QED  BY <1>4, <1>5, <2>1 DEF GroupsInv, SigningInv
<1>9. AloneInv'
  <2> SUFFICES ASSUME ~overlapped'
               PROVE  /\ IsInjective(stored)' /\ IsInjective(groups)'
                      /\ \A r, q \in Underway' : r = q
                      /\ \A t \in Creations' :
                            Underway' = {} /\ t.group \notin Range(stored)'
                      /\ \A r \in Runs :
                            run'[r].at = "merging" => run'[r].known = Range(stored)'
    BY DEF AloneInv
  <2>1. ~overlapped /\ Underway = {}  BY DEF CreateGroup
  <2>2. Underway' = {}  BY <1>3, <2>1 DEF Underway, RunsGoOn
  <2>3. Range(stored)' = Range(stored)  BY <1>2 DEF Range
  <2>4. g \notin Range(stored)  BY <1>7 DEF GroupsInv, SidebarInv
  <2>5. IsInjective(stored)' /\ IsInjective(groups)'
    BY <1>2, <2>1 DEF GroupsInv, AloneInv, IsInjective, sidebarVars
  <2>6. \A t \in Creations' : t.group \notin Range(stored)'
    BY <1>4, <1>6, <2>1, <2>3, <2>4 DEF GroupsInv, AloneInv
  <2>7. \A r \in Runs : run'[r].at # "merging"  BY <2>2 DEF Underway
  <2> QED  BY <2>2, <2>5, <2>6, <2>7
<1> QED  BY <1>3, <1>8, <1>9 DEF GroupsInv, Longer

(* The end of a creation lists the group. *)
LEMMA EndCreateKeeps ==
  ASSUME GroupsInv, NEW t \in signing, EndCreate(t), signing' = signing \ {t},
         UNCHANGED <<events, account>>
  PROVE  /\ GroupsInv'
         /\ \A h \in settled' : /\ h \in settled
                                /\ h \in Range(stored)' <=> h \in Range(stored)
<1>1. /\ Longer
      /\ \A a, g : IsMember(a, g)' <=> IsMember(a, g)
  BY SameChain DEF GroupsInv
<1>2. /\ stored \in Seq(Uuids) /\ t.group \in Uuids
      /\ account \in Accounts \cup {NoAccount}
  BY DEF GroupsInv, SidebarInv, SigningInv
<1>3. PICK g \in Uuids : g = t.group  BY <1>2
<1>4. /\ t \in Creations /\ Exists(g)
      /\ stored' = stored \o <<g>> /\ groups' = stored'
      /\ run' = Spoiled(run, {g}) /\ settled' = settled \ {g}
  BY <1>3 DEF EndCreate, AddStoredGroups, Creations, GroupsInv, SigningInv, Unsettle
<1>5. RunsInv' /\ RunsGoOn  BY <1>1, <1>2, <1>4, RunsStay DEF GroupsInv
<1>6. SigningInv' /\ Creations' = Creations \ {t}
  <2>1. SigningInv'  BY <1>1, SigningStays DEF GroupsInv
  <2> QED  BY <2>1 DEF Creations
<1>7. /\ stored' \in Seq(Uuids)
      /\ Len(stored) \in Nat /\ DOMAIN stored = 1..Len(stored)
      /\ DOMAIN stored' = 1..(Len(stored) + 1)
      /\ \A i \in 1..Len(stored) : stored'[i] = stored[i]
      /\ stored'[Len(stored) + 1] = g
  BY <1>2, <1>3, <1>4
<1>8. Range(stored)' = Range(stored) \cup {g}
  <2>1. \A i \in DOMAIN stored' : stored'[i] \in Range(stored) \cup {g}
    BY <1>7 DEF Range
  <2>2. \A i \in DOMAIN stored : i \in DOMAIN stored' /\ stored'[i] = stored[i]
    BY <1>7
  <2>3. g \in Range(stored)'
    <3>1. Len(stored) + 1 \in DOMAIN stored'  BY <1>7
    <3> QED  BY <1>7, <3>1 DEF Range
  <2> QED  BY <2>1, <2>2, <2>3 DEF Range
<1>9. SidebarInv'
  <2>1. ASSUME NEW h \in Range(stored)'
        PROVE  Exists(h)'
    <3>1. Exists(h)  BY <1>4, <1>8 DEF GroupsInv, SidebarInv
    <3> QED  BY <1>1, <3>1 DEF Longer
  <2> QED  BY <1>4, <1>7, <2>1 DEF GroupsInv, SidebarInv
<1>10. AloneInv'
  <2> SUFFICES ASSUME ~overlapped'
               PROVE  /\ IsInjective(stored)' /\ IsInjective(groups)'
                      /\ \A r, q \in Underway' : r = q
                      /\ \A u \in Creations' :
                            Underway' = {} /\ u.group \notin Range(stored)'
                      /\ \A r \in Runs :
                            run'[r].at = "merging" => run'[r].known = Range(stored)'
    BY DEF AloneInv
  <2>1. ~overlapped /\ Underway = {}  BY DEF EndCreate
  <2>2. Underway' = {}  BY <1>5, <2>1 DEF Underway, RunsGoOn
  <2>3. g \notin Range(stored)  BY <1>3, <1>4, <2>1 DEF GroupsInv, AloneInv
  <2>4. IsInjective(stored)'
    <3>1. \A i, j \in 1..Len(stored) : stored[i] = stored[j] => i = j
      BY <1>7, <2>1 DEF GroupsInv, AloneInv, IsInjective
    <3>2. \A i \in 1..Len(stored) : stored[i] # g  BY <1>7, <2>3 DEF Range
    <3>3. \A i \in DOMAIN stored' : i \in 1..Len(stored) \/ i = Len(stored) + 1
      BY <1>7
    <3> QED  BY <1>7, <3>1, <3>2, <3>3 DEF IsInjective
  <2>5. IsInjective(groups)'  BY <1>4, <2>4 DEF IsInjective
  <2>6. ASSUME NEW u \in Creations'
        PROVE  u.group \notin Range(stored)'
    <3>1. u \in Creations /\ u # t  BY <1>6
    <3>2. u.group # g
      BY <1>3, <1>4, <3>1 DEF Creations, GroupsInv, SigningInv
    <3>3. u.group \notin Range(stored)  BY <2>1, <3>1 DEF GroupsInv, AloneInv
    <3> QED  BY <1>8, <3>2, <3>3
  <2>7. \A r \in Runs : run'[r].at # "merging"  BY <2>2 DEF Underway
  <2> QED  BY <2>2, <2>4, <2>5, <2>6, <2>7
<1>11. SteadyInv'
  <2>1. \A r \in Runs : /\ run'[r].at = run[r].at /\ run'[r].aborted = run[r].aborted
                        /\ run'[r].active = run[r].active /\ run'[r].known = run[r].known
                        /\ run'[r].steady = run[r].steady \ {g}
    BY <1>4, SpoiledShape DEF GroupsInv
  <2>2. PICK b : b = account  OBVIOUS
  <2>3. \A h : IsMember(account, h)' <=> IsMember(account, h)
    BY <1>1, <2>2 DEF IsMember, Count, Of, OnChain
  <2> QED  BY <1>8, <2>1, <2>3, SteadyStays DEF GroupsInv
<1> QED  BY <1>1, <1>4, <1>5, <1>6, <1>8, <1>9, <1>10, <1>11 DEF GroupsInv, Longer

(* Everything about discoveries is as it was. *)
LEMMA RunsAsBefore ==
  ASSUME GroupsInv, UNCHANGED <<events, account, stored, run, overlapped>>,
         groups' \in {groups, stored}, signing' \subseteq signing
  PROVE  GroupsInv'
<1>1. /\ Longer
      /\ \A a, g : IsMember(a, g)' <=> IsMember(a, g)
  BY SameChain DEF GroupsInv
<1>2. account \in Accounts \cup {NoAccount}  BY DEF GroupsInv, SidebarInv
<1>3. RunsInv' /\ RunsGoOn  BY <1>1, <1>2, RunsStay DEF GroupsInv
<1>4. SigningInv' /\ Creations' \subseteq Creations
  BY <1>1, SigningStays DEF GroupsInv
<1>5. Range(stored)' = Range(stored)  BY DEF Range
<1>6. SidebarInv'  BY <1>1, <1>5 DEF GroupsInv, SidebarInv, Longer
<1>7. AloneInv'  BY <1>3, <1>4, AloneStays DEF GroupsInv, RunsGoOn
<1>8. SteadyInv'
  <2>1. PICK b : b = account  OBVIOUS
  <2>2. \A h : IsMember(account, h)' <=> IsMember(account, h)
    BY <1>1, <2>1 DEF IsMember, Count, Of, OnChain
  <2> QED  BY <1>5, <2>2, SteadyStays DEF GroupsInv
<1> QED  BY <1>1, <1>3, <1>4, <1>6, <1>7, <1>8 DEF GroupsInv, Longer

(* A departure's end, and a failure, list nothing. *)
LEMMA EndSigningKeeps ==
  ASSUME GroupsInv, NEW t \in signing, EndSigning(t)
  PROVE  GroupsInv'
<1>1. signing' = signing \ {t} /\ UNCHANGED <<events, account>>  BY DEF EndSigning
<1>2. CASE EndCreate(t)  BY <1>1, <1>2, EndCreateKeeps
<1>3. CASE EndLeave(t)
  <2>1. groups' \in {groups, stored} /\ UNCHANGED <<stored, run, overlapped>>
    BY <1>3 DEF EndLeave
  <2> QED  BY <1>1, <2>1, RunsAsBefore
<1>4. CASE FailSigning
  <2>1. groups' \in {groups, stored} /\ UNCHANGED <<stored, run, overlapped>>
    BY <1>4 DEF FailSigning
  <2> QED  BY <1>1, <2>1, RunsAsBefore
<1> QED  BY <1>2, <1>3, <1>4 DEF EndSigning

-----------------------------------------------------------------------------
(* Steps of a discovery *)

(* Everything but the lists and the run is as it was. *)
LEMMA RunKeepsOthers ==
  ASSUME GroupsInv, NEW r \in Runs, NEW f, IsRun(f), NEW others,
         others = run \/ \E uuids : others = Spoiled(run, uuids),
         run' = [others EXCEPT ![r] = f],
         UNCHANGED <<events, account, signing, overlapped>>
  PROVE  /\ Longer /\ RunsInv' /\ SigningInv' /\ Creations' = Creations
         /\ run'[r] = f /\ \A q \in Runs : q # r => run'[q] = others[q]
         /\ \A g : IsMember(account, g)' <=> IsMember(account, g)
<1>1. Longer  BY SameChain DEF GroupsInv
<1>2. SigningInv' /\ Creations' = Creations
  BY <1>1, SigningStays DEF GroupsInv, Creations
<1>3. account \in Accounts \cup {NoAccount}  BY DEF GroupsInv, SidebarInv
<1>4. /\ RunsInv' /\ run'[r] = f
      /\ \A q \in Runs : q # r => run'[q] = others[q]
  <2>1. ChainInv /\ RunsInv  BY DEF GroupsInv
  <2>2. DOMAIN others = Runs /\ \A q \in Runs : IsRun(others[q])
    BY <2>1, SpoiledShape DEF RunsInv
  <2> QED  BY <1>3, <2>1, <2>2, RunChanges
<1>5. \A g : IsMember(account, g)' <=> IsMember(account, g)
  BY DEF IsMember, Count, Of, OnChain
<1> QED  BY <1>1, <1>2, <1>4, <1>5

LEMMA SidebarStays ==
  ASSUME SidebarInv, UNCHANGED <<account, stored>>, groups' \in {groups, stored},
         Longer
  PROVE  SidebarInv'
<1>1. Range(stored)' = Range(stored)  BY DEF Range
<1> QED  BY <1>1 DEF SidebarInv, Longer

(* A reading may be any part of the events. *)
LEMMA ReadKeeps ==
  ASSUME GroupsInv, NEW r \in Runs, ReadAdded(r) \/ ReadRemoved(r)
  PROVE  GroupsInv'
<1>1. IsRun(run[r]) /\ run[r] \in RunRecords  BY DEF GroupsInv, RunsInv, IsRun
<1>2. /\ run[r].at = "reading"
      /\ UNCHANGED <<events, account, groups, stored, signing, overlapped>>
  BY DEF ReadAdded, ReadRemoved, sidebarVars
<1>3. run[r].steady = {}  BY <1>2 DEF GroupsInv, SteadyInv
<1>4. OnChain = 1..Len(events) /\ Len(events) \in Nat
  BY DEF GroupsInv, ChainInv, OnChain
<1>5. PICK f : /\ run' = [run EXCEPT ![r] = f]
               /\ IsRun(f) /\ f.at = "reading" /\ f.steady = {}
  <2>1. CASE ReadAdded(r)
    <3>1. PICK read \in Readings("added", run[r].account) :
            run' = [run EXCEPT ![r].added = read]
      BY <2>1 DEF ReadAdded
    <3>2. PICK f : f = [run[r] EXCEPT !.added = read]  OBVIOUS
    <3>3. run' = [run EXCEPT ![r] = f]  BY <3>1, <3>2
    <3>4. read \in SUBSET (0..Len(events))  BY <1>4, <3>1 DEF Readings, Of
    <3>5. /\ f \in RunRecords /\ f.added = read /\ f.removed = run[r].removed
          /\ f.account = run[r].account /\ f.at = run[r].at
          /\ f.active = run[r].active /\ f.aborted = run[r].aborted
          /\ f.steady = run[r].steady
      BY <1>1, <3>2, <3>4 DEF RunRecords
    <3>6. WasRead("added", f.account, f.added)
      BY <3>1, <3>5 DEF WasRead, Readings
    <3>7. IsRun(f)  BY <1>1, <3>5, <3>6 DEF IsRun
    <3> QED  BY <1>2, <1>3, <3>3, <3>5, <3>7
  <2>2. CASE ReadRemoved(r)
    <3>1. PICK read \in Readings("removed", run[r].account) :
            run' = [run EXCEPT ![r].removed = read]
      BY <2>2 DEF ReadRemoved
    <3>2. PICK f : f = [run[r] EXCEPT !.removed = read]  OBVIOUS
    <3>3. run' = [run EXCEPT ![r] = f]  BY <3>1, <3>2
    <3>4. read \in SUBSET (0..Len(events))  BY <1>4, <3>1 DEF Readings, Of
    <3>5. /\ f \in RunRecords /\ f.removed = read /\ f.added = run[r].added
          /\ f.account = run[r].account /\ f.at = run[r].at
          /\ f.active = run[r].active /\ f.aborted = run[r].aborted
          /\ f.steady = run[r].steady
      BY <1>1, <3>2, <3>4 DEF RunRecords
    <3>6. WasRead("removed", f.account, f.removed)
      BY <3>1, <3>5 DEF WasRead, Readings
    <3>7. IsRun(f)  BY <1>1, <3>5, <3>6 DEF IsRun
    <3> QED  BY <1>2, <1>3, <3>3, <3>5, <3>7
  <2> QED  BY <2>1, <2>2
<1>6. /\ Longer /\ RunsInv' /\ SigningInv' /\ Creations' = Creations
      /\ run'[r] = f /\ \A q \in Runs : q # r => run'[q] = run[q]
      /\ \A g : IsMember(account, g)' <=> IsMember(account, g)
  BY <1>2, <1>5, RunKeepsOthers
<1>7. SidebarInv'  BY <1>2, <1>6, SidebarStays DEF GroupsInv
<1>8. AloneInv'
  <2>1. \A q \in Runs : /\ run'[q].at = run[q].at
                        /\ run'[q].at = "merging" => run'[q].known = run[q].known
    BY <1>2, <1>5, <1>6
  <2> QED  BY <1>2, <1>6, <2>1, AloneStays DEF GroupsInv
<1>9. SteadyInv'
  <2>1. \A q \in Runs : run'[q].steady # {} => q # r /\ run'[q] = run[q]
    BY <1>5, <1>6
  <2>2. Range(stored)' = Range(stored)  BY <1>2 DEF Range
  <2> QED  BY <1>2, <1>6, <2>1, <2>2, SteadyStays DEF GroupsInv
<1> QED  BY <1>6, <1>7, <1>8, <1>9 DEF GroupsInv, Longer

LEMMA FailKeeps ==
  ASSUME GroupsInv, NEW r \in Runs, DiscoveryFails(r)
  PROVE  GroupsInv'
<1>1. /\ run' = [run EXCEPT ![r] = Idle]
      /\ UNCHANGED <<events, account, groups, stored, signing, overlapped>>
  BY DEF DiscoveryFails, sidebarVars
<1>2. IsRun(Idle) /\ Idle.at = "idle" /\ Idle.steady = {}
  BY IdleIsRun DEF GroupsInv
<1>3. /\ Longer /\ RunsInv' /\ SigningInv' /\ Creations' = Creations
      /\ run'[r] = Idle /\ \A q \in Runs : q # r => run'[q] = run[q]
      /\ \A g : IsMember(account, g)' <=> IsMember(account, g)
  BY <1>1, <1>2, RunKeepsOthers
<1>4. SidebarInv'  BY <1>1, <1>3, SidebarStays DEF GroupsInv
<1>5. AloneInv'  BY <1>1, <1>2, <1>3, AloneStays DEF GroupsInv
<1>6. SteadyInv'
  <2>1. \A q \in Runs : run'[q].steady # {} => q # r /\ run'[q] = run[q]
    BY <1>2, <1>3
  <2>2. Range(stored)' = Range(stored)  BY <1>1 DEF Range
  <2> QED  BY <1>1, <1>3, <2>1, <2>2, SteadyStays DEF GroupsInv
<1> QED  BY <1>3, <1>4, <1>5, <1>6 DEF GroupsInv, Longer

(* A run that has read every event about its account and a group counts    *)
(* what the chain holds of the two.                                        *)
LEMMA SteadyIsCounted ==
  ASSUME GroupsInv, NEW r \in Runs, NEW g \in Steady(r),
         NEW added, NEW removed, NEW a,
         added = run[r].added, removed = run[r].removed, a = run[r].account,
         added \subseteq Of("added", a, OnChain),
         removed \subseteq Of("removed", a, OnChain)
  PROVE  g \in Active(r) <=> IsMember(a, g)
<1>1. g \in Uuids
      /\ \A i \in OnChain : events[i].group = g /\ events[i].member = a =>
            i \in added \cup removed
  BY DEF Steady
<1>2. {i \in Of("added", a, added) : events[i].group = g}
        = {i \in Of("added", a, OnChain) : events[i].group = g}
  BY <1>1 DEF Of
<1>3. {i \in Of("removed", a, removed) : events[i].group = g}
        = {i \in Of("removed", a, OnChain) : events[i].group = g}
  BY <1>1 DEF Of
<1>4. /\ Count("added", a, g, added) = Count("added", a, g, OnChain)
      /\ Count("removed", a, g, removed) = Count("removed", a, g, OnChain)
  BY <1>2, <1>3 DEF Count
<1> QED  BY <1>1, <1>4 DEF Active, IsMember

(* What is read of every event is who the members are. *)
LEMMA CompareKeeps ==
  ASSUME GroupsInv, NEW r \in Runs, Compare(r)
  PROVE  GroupsInv'
<1>1. IsRun(run[r]) /\ run[r] \in RunRecords  BY DEF GroupsInv, RunsInv, IsRun
<1>2. /\ run[r].at = "reading" /\ run[r].added # NotRead /\ run[r].removed # NotRead
      /\ UNCHANGED <<events, account, groups, stored, signing, overlapped>>
  BY DEF Compare, sidebarVars
<1>3. PICK f :
        /\ f = IF run[r].aborted THEN Idle
               ELSE [run[r] EXCEPT !.at = "merging", !.active = Active(r),
                                   !.known = Range(stored), !.steady = Steady(r),
                                   !.added = {}, !.removed = {}]
        /\ run' = [run EXCEPT ![r] = f]
  BY DEF Compare, GroupsInv, RunsInv
<1>4. PICK added, removed, a :
        /\ added = run[r].added /\ removed = run[r].removed /\ a = run[r].account
        /\ added \subseteq Of("added", a, OnChain)
        /\ removed \subseteq Of("removed", a, OnChain)
  BY <1>1, <1>2 DEF IsRun, WasRead
<1>5. /\ Active(r) \subseteq Uuids /\ Range(stored) \subseteq Uuids
      /\ Steady(r) \subseteq Uuids
      /\ \A g \in Active(r) : Exists(g)
  <2>1. stored \in Seq(Uuids)  BY DEF GroupsInv, SidebarInv
  <2>2. Range(stored) \subseteq Uuids  BY <2>1 DEF Range
  <2>3. added \in SUBSET OnChain /\ removed \in SUBSET OnChain  BY <1>4 DEF Of
  <2>4. \A g \in Active(r) : Exists(g)
    BY <1>4, <2>3, AddedExists DEF Active, GroupsInv
  <2> QED  BY <2>2, <2>4 DEF Active, Steady
<1>6. /\ IsRun(f) /\ f.at \in {"idle", "merging"}
      /\ f.at = "merging" => /\ f.known = Range(stored) /\ f.active = Active(r)
                             /\ f.steady = Steady(r)
                             /\ ~f.aborted /\ a = account
      /\ f.at = "idle" => f.steady = {}
  <2>1. CASE run[r].aborted
    <3>1. f = Idle  BY <1>3, <2>1
    <3> QED  BY <3>1, IdleIsRun DEF GroupsInv
  <2>2. CASE ~run[r].aborted
    <3> DEFINE active == Active(r)
               known == Range(stored)
               steady == Steady(r)
    <3>1. f = [run[r] EXCEPT !.at = "merging", !.active = active, !.known = known,
                             !.steady = steady, !.added = {}, !.removed = {}]
      BY <1>3, <2>2
    <3>2. /\ active \subseteq Uuids /\ known \subseteq Uuids /\ steady \subseteq Uuids
          /\ \A g \in active : Exists(g)
      BY <1>5
    <3> HIDE DEF active, known, steady
    <3>3. /\ f.at = "merging" /\ f.known = known /\ f.active = active
          /\ f.account = run[r].account /\ f.aborted = run[r].aborted
          /\ f.steady = steady /\ f.added = {} /\ f.removed = {}
      BY <1>1, <3>1 DEF RunRecords
    <3>4. f \in RunRecords  BY <1>1, <3>1, <3>2 DEF RunRecords
    <3>5. run[r].account = account  BY <1>1, <1>2, <2>2 DEF IsRun
    <3>6. IsRun(f)  BY <3>2, <3>3, <3>4, <3>5 DEF IsRun, WasRead
    <3> QED  BY <1>4, <2>2, <3>3, <3>5, <3>6 DEF active, known, steady
  <2> QED  BY <2>1, <2>2
<1>7. /\ Longer /\ RunsInv' /\ SigningInv' /\ Creations' = Creations
      /\ run'[r] = f /\ \A q \in Runs : q # r => run'[q] = run[q]
      /\ \A g : IsMember(account, g)' <=> IsMember(account, g)
  <2>1. IsRun(f) /\ run' = [run EXCEPT ![r] = f]  BY <1>3, <1>6
  <2>2. UNCHANGED <<events, account, signing, overlapped>>  BY <1>2
  <2> QED  BY <2>1, <2>2, RunKeepsOthers
<1>8. SidebarInv'  BY <1>2, <1>7, SidebarStays DEF GroupsInv
<1>9. AloneInv'
  <2> SUFFICES ASSUME ~overlapped'
               PROVE  /\ IsInjective(stored)' /\ IsInjective(groups)'
                      /\ \A p, q \in Underway' : p = q
                      /\ \A t \in Creations' :
                            Underway' = {} /\ t.group \notin Range(stored)'
                      /\ \A q \in Runs :
                            run'[q].at = "merging" => run'[q].known = Range(stored)'
    BY DEF AloneInv
  <2>1. ~overlapped  BY <1>2
  <2>2. Underway' \subseteq Underway /\ r \in Underway  BY <1>2, <1>7 DEF Underway
  <2>3. Range(stored)' = Range(stored)  BY <1>2 DEF Range
  <2>4. Creations = {}  BY <2>1, <2>2 DEF GroupsInv, AloneInv
  <2>5. \A q \in Runs : run'[q].at = "merging" => run'[q].known = Range(stored)
    BY <1>6, <1>7, <2>1 DEF GroupsInv, AloneInv
  <2>6. IsInjective(stored)' /\ IsInjective(groups)'
    BY <1>2, <2>1 DEF GroupsInv, AloneInv, IsInjective
  <2>7. \A p, q \in Underway' : p = q  BY <2>1, <2>2 DEF GroupsInv, AloneInv
  <2> QED  BY <1>7, <2>3, <2>4, <2>5, <2>6, <2>7
<1>10. SteadyInv'
  <2>1. Range(stored)' = Range(stored)  BY <1>2 DEF Range
  <2>2. ASSUME NEW g \in f.steady
        PROVE  /\ f.at = "merging" /\ ~f.aborted
               /\ g \in f.active <=> IsMember(account, g)
               /\ g \in f.known <=> g \in Range(stored)
    <3>1. f.at = "merging"  BY <1>6, <2>2
    <3>2. g \in Steady(r)  BY <1>6, <2>2, <3>1
    <3>3. g \in Active(r) <=> IsMember(a, g)  BY <1>4, <3>2, SteadyIsCounted
    <3> QED  BY <1>6, <3>1, <3>3
  <2>3. ASSUME NEW q \in Runs, NEW g \in run'[q].steady
        PROVE  /\ run'[q].at = "merging" /\ ~run'[q].aborted
               /\ g \in run'[q].active <=> IsMember(account, g)
               /\ g \in run'[q].known <=> g \in Range(stored)
    <3>1. CASE q = r  BY <1>7, <2>2, <2>3, <3>1
    <3>2. CASE q # r  BY <1>7, <2>3, <3>2 DEF GroupsInv, SteadyInv
    <3> QED  BY <3>1, <3>2
  <2> QED  BY <1>7, <2>1, <2>3 DEF SteadyInv
<1> QED  BY <1>7, <1>8, <1>9, <1>10 DEF GroupsInv, Longer

(* What is corrected is what was stored, without what is not active any    *)
(* more and with what was named, each once.                                *)
LEMMA CorrectedShape ==
  ASSUME stored \in Seq(Uuids), NEW r, NEW named \in SUBSET Uuids,
         IsFiniteSet(named), NEW result \in Corrected(r, named)
  PROVE  /\ result \in Seq(Uuids)
         /\ Range(result) = (Range(stored) \ Gone(r)) \cup named
         /\ IsInjective(stored) /\ named \cap Range(stored) = {} => IsInjective(result)
<1> DEFINE gone == Gone(r)
           places == {i \in DOMAIN stored : stored[i] \notin gone}
           n == Cardinality(named)
<1>1. PICK left \in Selected(stored, places), new \in Arrangements(named) :
        result = left \o new
  <2>1. RemoveStoredGroups(gone) = Selected(stored, places)
    BY DEF RemoveStoredGroups
  <2>2. Corrected(r, named) = {left \o new : left \in RemoveStoredGroups(gone),
                                            new \in Arrangements(named)}
    BY DEF Corrected
  <2> HIDE DEF places, gone
  <2> QED  BY <2>1, <2>2
<1>2. /\ left \in Seq(Uuids)
      /\ \A k \in places : \E i \in DOMAIN left : left[i] = stored[k]
      /\ \E a \in [DOMAIN left -> places] :
            /\ \A i \in DOMAIN left : left[i] = stored[a[i]]
            /\ \A i, j \in DOMAIN left : i < j => a[i] < a[j]
  <2>1. PICK kept \in SUBSET DOMAIN stored : kept = places  OBVIOUS
  <2>2. left \in Selected(stored, kept)  BY <1>1, <2>1
  <2> HIDE DEF places
  <2>3. /\ left \in Seq(Uuids)
        /\ \A k \in kept : \E i \in DOMAIN left : left[i] = stored[k]
        /\ \E a \in [DOMAIN left -> kept] :
              /\ \A i \in DOMAIN left : left[i] = stored[a[i]]
              /\ \A i, j \in DOMAIN left : i < j => a[i] < a[j]
    BY <2>2, SelectedShape
  <2> QED  BY <2>1, <2>3
<1>3. PICK a \in [DOMAIN left -> places] :
            /\ \A i \in DOMAIN left : left[i] = stored[a[i]]
            /\ \A i, j \in DOMAIN left : i < j => a[i] < a[j]
  BY <1>2
<1>4. /\ n \in Nat /\ new \in [1..n -> named]
      /\ \A x \in named : \E i \in 1..n : new[i] = x
      /\ \A i, j \in 1..n : new[i] = new[j] => i = j
  BY <1>1, ArrangementIsBijection
<1>5. /\ places \subseteq DOMAIN stored
      /\ \A i \in DOMAIN stored : i \in places <=> stored[i] \notin gone
  OBVIOUS
<1> DEFINE m == Len(left)
<1> HIDE DEF n, places, gone
<1>6. new \in Seq(Uuids) /\ Len(new) = n /\ DOMAIN new = 1..n  BY <1>4
<1>7. m \in Nat /\ DOMAIN left = 1..m  BY <1>2
<1>8. /\ result \in Seq(Uuids) /\ DOMAIN result = 1..(m + n)
      /\ \A i \in 1..m : result[i] = left[i]
      /\ \A i \in 1..n : result[m + i] = new[i]
  BY <1>1, <1>2, <1>6
<1> HIDE DEF m
<1>9. \A k \in DOMAIN result : k \in 1..m \/ (k - m \in 1..n /\ k = m + (k - m))
  BY <1>4, <1>7, <1>8
<1>10. \A k \in DOMAIN result : k \in 1..m \/ \E i \in 1..n : k = m + i  BY <1>9
<1>11. /\ \A i \in 1..m : i \in DOMAIN result
       /\ \A i \in 1..n : m + i \in DOMAIN result /\ m + i \notin 1..m
  BY <1>4, <1>7, <1>8
<1>12. \A i \in 1..m : left[i] \in Range(stored) \ gone
  <2> TAKE i \in 1..m
  <2>1. a[i] \in places /\ left[i] = stored[a[i]]  BY <1>3, <1>7
  <2> QED  BY <1>5, <2>1 DEF Range
<1>13. Range(result) = (Range(stored) \ gone) \cup named
  <2>1. ASSUME NEW k \in DOMAIN result
        PROVE  result[k] \in (Range(stored) \ gone) \cup named
    <3>1. CASE k \in 1..m  BY <1>8, <1>12, <3>1
    <3>2. CASE \E i \in 1..n : k = m + i  BY <1>4, <1>8, <3>2
    <3> QED  BY <1>10, <3>1, <3>2
  <2>2. ASSUME NEW g \in Range(stored) \ gone
        PROVE  \E k \in DOMAIN result : result[k] = g
    <3>1. PICK k \in places : stored[k] = g  BY <1>5 DEF Range
    <3>2. PICK i \in 1..m : left[i] = g  BY <1>2, <1>7, <3>1
    <3> QED  BY <1>8, <1>11, <3>2
  <2>3. ASSUME NEW g \in named
        PROVE  \E k \in DOMAIN result : result[k] = g
    <3>1. PICK i \in 1..n : new[i] = g  BY <1>4
    <3> QED  BY <1>8, <1>11, <3>1
  <2> QED  BY <2>1, <2>2, <2>3 DEF Range
<1>14. ASSUME IsInjective(stored), named \cap Range(stored) = {},
              NEW k \in DOMAIN result, NEW l \in DOMAIN result, result[k] = result[l]
       PROVE  k = l
  <2>1. \A i \in 1..m, j \in 1..n : left[i] # new[j]  BY <1>4, <1>12, <1>14
  <2>2. \A i, j \in 1..m : left[i] = left[j] => i = j
    <3> SUFFICES ASSUME NEW i \in 1..m, NEW j \in 1..m, left[i] = left[j]
                 PROVE  i = j
      OBVIOUS
    <3>1. stored[a[i]] = stored[a[j]] /\ a[i] \in DOMAIN stored /\ a[j] \in DOMAIN stored
      BY <1>3, <1>5, <1>7
    <3>2. a[i] = a[j]  BY <1>14, <3>1 DEF IsInjective
    <3>3. a[i] \in Int
      <4>1. DOMAIN stored \subseteq Int  OBVIOUS
      <4> QED  BY <3>1, <4>1
    <3>4. ~(i < j) /\ ~(j < i)  BY <1>3, <1>7, <3>2, <3>3
    <3> QED  BY <1>7, <3>4
  <2>3. CASE k \in 1..m /\ l \in 1..m  BY <1>8, <1>14, <2>2, <2>3
  <2>4. CASE k \in 1..m /\ l \notin 1..m
    <3>1. PICK j \in 1..n : l = m + j  BY <1>10, <2>4
    <3> QED  BY <1>8, <1>14, <2>1, <2>4, <3>1
  <2>5. CASE k \notin 1..m /\ l \in 1..m
    <3>1. PICK j \in 1..n : k = m + j  BY <1>10, <2>5
    <3> QED  BY <1>8, <1>14, <2>1, <2>5, <3>1
  <2>6. CASE k \notin 1..m /\ l \notin 1..m
    <3>1. PICK i \in 1..n : k = m + i  BY <1>10, <2>6
    <3>2. PICK j \in 1..n : l = m + j  BY <1>10, <2>6
    <3>3. new[i] = new[j]  BY <1>8, <1>14, <3>1, <3>2
    <3>4. i = j  BY <1>4, <3>3
    <3> QED  BY <3>1, <3>2, <3>4
  <2> QED  BY <2>3, <2>4, <2>5, <2>6
<1>15. IsInjective(stored) /\ named \cap Range(stored) = {} => IsInjective(result)
  BY <1>14 DEF IsInjective
<1> QED  BY <1>8, <1>13, <1>15 DEF gone

LEMMA CorrectionIsMade ==
  ASSUME GroupsInv, NEW r \in Runs, Merge(r)
  PROVE  \E named \in SUBSET Uuids :
            /\ named \subseteq New(r) /\ \A g \in named : Exists(g)
            /\ stored' \in Seq(Uuids)
            /\ Range(stored)' = (Range(stored) \ Gone(r)) \cup named
            /\ IsInjective(stored) /\ named \cap Range(stored) = {}
                  => IsInjective(stored)'
            /\ settled' = (settled \ (Gone(r) \cup named)) \cup
                             (run[r].steady \ (New(r) \ named))
            /\ run' = [Spoiled(run, Gone(r) \cup named) EXCEPT ![r] = Idle]
<1>1. PICK named \in SUBSET New(r) :
        /\ stored' \in Corrected(r, named)
        /\ settled' = (settled \ (Gone(r) \cup named)) \cup
                         (run[r].steady \ (New(r) \ named))
        /\ run' = [Spoiled(run, Gone(r) \cup named) EXCEPT ![r] = Idle]
  BY DEF Merge, GroupsMetadata
<1>2. run[r].active \subseteq Uuids /\ \A g \in run[r].active : Exists(g)
  BY DEF GroupsInv, RunsInv, IsRun, RunRecords
<1>3. named \in SUBSET Uuids /\ \A g \in named : Exists(g)  BY <1>2 DEF New
<1>4. IsFiniteSet(named)  BY <1>3, ExistingAreFinite DEF GroupsInv
<1>5. stored \in Seq(Uuids)  BY DEF GroupsInv, SidebarInv
<1>6. PICK result : result = stored'  OBVIOUS
<1>7. /\ result \in Seq(Uuids)
      /\ Range(result) = (Range(stored) \ Gone(r)) \cup named
      /\ IsInjective(stored) /\ named \cap Range(stored) = {} => IsInjective(result)
  BY <1>1, <1>3, <1>4, <1>5, <1>6, CorrectedShape
<1>8. Range(stored)' = Range(result) /\ (IsInjective(stored)' <=> IsInjective(result))
  BY <1>6 DEF Range, IsInjective
<1> QED  BY <1>1, <1>3, <1>6, <1>7, <1>8

LEMMA CorrectionKeeps ==
  ASSUME GroupsInv, NEW r \in Runs, Merge(r)
  PROVE  GroupsInv'
<1>1. /\ run[r].at = "merging"
      /\ UNCHANGED <<events, account, signing, overlapped>>
      /\ groups' \in {groups, stored'}
  BY DEF Merge
<1>2. PICK named \in SUBSET Uuids :
        /\ named \subseteq New(r) /\ \A g \in named : Exists(g)
        /\ stored' \in Seq(Uuids)
        /\ Range(stored)' = (Range(stored) \ Gone(r)) \cup named
        /\ IsInjective(stored) /\ named \cap Range(stored) = {} => IsInjective(stored)'
        /\ run' = [Spoiled(run, Gone(r) \cup named) EXCEPT ![r] = Idle]
  BY CorrectionIsMade
<1>3. IsRun(Idle) /\ Idle.at = "idle" /\ Idle.steady = {}
  BY IdleIsRun DEF GroupsInv
<1>4. PICK uuids, others : uuids = Gone(r) \cup named /\ others = Spoiled(run, uuids)
  OBVIOUS
<1>5. run' = [others EXCEPT ![r] = Idle]  BY <1>2, <1>4
<1>6. /\ Longer /\ RunsInv' /\ SigningInv' /\ Creations' = Creations
      /\ run'[r] = Idle /\ \A q \in Runs : q # r => run'[q] = others[q]
      /\ \A g : IsMember(account, g)' <=> IsMember(account, g)
  BY <1>1, <1>3, <1>4, <1>5, RunKeepsOthers
<1>7. \A q \in Runs : q # r =>
        /\ run'[q].at = run[q].at /\ run'[q].aborted = run[q].aborted
        /\ run'[q].active = run[q].active /\ run'[q].known = run[q].known
        /\ run'[q].steady = run[q].steady \ uuids
  BY <1>4, <1>6, SpoiledShape DEF GroupsInv
<1>8. SidebarInv'
  <2>1. ASSUME NEW g \in Range(stored)'
        PROVE  Exists(g)'
    <3>1. Exists(g)  BY <1>2, <2>1 DEF GroupsInv, SidebarInv
    <3> QED  BY <1>6, <3>1 DEF Longer
  <2> QED  BY <1>1, <1>2, <2>1 DEF GroupsInv, SidebarInv
<1>9. AloneInv'
  <2> SUFFICES ASSUME ~overlapped'
               PROVE  /\ IsInjective(stored)' /\ IsInjective(groups)'
                      /\ \A p, q \in Underway' : p = q
                      /\ \A t \in Creations' :
                            Underway' = {} /\ t.group \notin Range(stored)'
                      /\ \A q \in Runs :
                            run'[q].at = "merging" => run'[q].known = Range(stored)'
    BY DEF AloneInv
  <2>1. ~overlapped  BY <1>1
  <2>2. r \in Underway /\ \A q \in Underway : q = r
    BY <1>1, <2>1 DEF GroupsInv, AloneInv, Underway
  <2>3. Underway' = {}  BY <1>3, <1>6, <1>7, <2>2 DEF Underway
  <2>4. Creations' = {}  BY <1>6, <2>1, <2>2 DEF GroupsInv, AloneInv
  <2>5. run[r].known = Range(stored) /\ IsInjective(stored) /\ IsInjective(groups)
    BY <1>1, <2>1 DEF GroupsInv, AloneInv
  <2>6. IsInjective(stored)'  BY <1>2, <2>5 DEF New
  <2>7. IsInjective(groups)'
    <3>1. CASE groups' = groups  BY <2>5, <3>1 DEF IsInjective
    <3>2. CASE groups' = stored'  BY <2>6, <3>2 DEF IsInjective
    <3> QED  BY <1>1, <3>1, <3>2
  <2>8. \A q \in Runs : run'[q].at # "merging"  BY <2>3 DEF Underway
  <2> QED  BY <2>3, <2>4, <2>6, <2>7, <2>8
<1>10. SteadyInv'
  <2>1. \A q \in Runs : \A g \in run'[q].steady : q # r  BY <1>3, <1>6
  <2>2. \A g : g \notin uuids => (g \in Range(stored)' <=> g \in Range(stored))
    BY <1>2, <1>4
  <2> QED  BY <1>1, <1>6, <1>7, <2>1, <2>2, SteadyStays DEF GroupsInv
<1> QED  BY <1>6, <1>8, <1>9, <1>10 DEF GroupsInv, Longer

-----------------------------------------------------------------------------
(* Accounts, and the page loaded again *)

(* A discovery starts on lists that are the same. *)
LEMMA DiscoverKeeps ==
  ASSUME GroupsInv, NEW a \in Accounts, Discover(a), account' = a,
         UNCHANGED <<events, stored, groups, signing>>
  PROVE  GroupsInv'
<1>1. PICK r \in Runs \ Underway :
        run' = [Aborted(run) EXCEPT ![r] = Started(a)]
  BY DEF Discover
<1>2. overlapped' = (overlapped \/ Underway # {} \/ signing # {})
  BY DEF Discover
<1>3. Longer /\ ChainInv' /\ account' \in Accounts \cup {NoAccount}
  BY SameChain DEF GroupsInv, Longer
<1>4. SigningInv' /\ Creations' = Creations
  BY <1>3, SigningStays DEF GroupsInv, Creations
<1>5. SidebarInv'
  <2>1. Range(stored)' = Range(stored)  BY DEF Range
  <2> QED  BY <1>3, <2>1 DEF GroupsInv, SidebarInv, Longer
<1> DEFINE others == Aborted(run)
<1>6. /\ DOMAIN others = Runs
      /\ \A q \in Runs : /\ IsRun(others[q])
                         /\ others[q].steady = {}
                         /\ others[q].aborted \/ others[q].at = "idle"
                         /\ others[q].at = run[q].at
  BY AbortedShape DEF GroupsInv
<1>7. PICK f : f = Started(a)  OBVIOUS
<1>8. IsRun(f)' /\ f.at = "reading" /\ f.steady = {}
  BY <1>3, <1>7, StartedIsRun
<1>9. /\ DOMAIN run' = Runs /\ run'[r] = f
      /\ \A q \in Runs : q # r => run'[q] = others[q]
  BY <1>1, <1>6, <1>7
<1> HIDE DEF others
<1>10. RunsInv'
  <2>1. ASSUME NEW q \in Runs
        PROVE  IsRun(run[q])'
    <3>1. CASE q = r  BY <1>8, <1>9, <3>1
    <3>2. CASE q # r
      <4>1. PICK h : h = others[q]  OBVIOUS
      <4>2. IsRun(h) /\ (h.aborted \/ h.at = "idle")  BY <1>6, <4>1
      <4>3. IsRun(h)'  BY <1>3, <4>2, RunStays DEF GroupsInv
      <4> QED  BY <1>9, <3>2, <4>1, <4>3
    <3> QED  BY <3>1, <3>2
  <2> QED  BY <1>9, <2>1 DEF RunsInv
<1>11. AloneInv'
  <2> SUFFICES ASSUME ~overlapped'
               PROVE  /\ IsInjective(stored)' /\ IsInjective(groups)'
                      /\ \A p, q \in Underway' : p = q
                      /\ \A t \in Creations' :
                            Underway' = {} /\ t.group \notin Range(stored)'
                      /\ \A q \in Runs :
                            run'[q].at = "merging" => run'[q].known = Range(stored)'
    BY DEF AloneInv
  <2>1. ~overlapped /\ Underway = {} /\ signing = {}  BY <1>2
  <2>2. \A q \in Runs : q # r => run'[q].at = "idle"
    BY <1>6, <1>9, <2>1 DEF Underway
  <2>3. Underway' \subseteq {r}  BY <2>2 DEF Underway
  <2>4. \A q \in Runs : run'[q].at # "merging"  BY <1>8, <1>9, <2>2
  <2>5. Creations' = {}  BY <1>4, <2>1 DEF Creations
  <2>6. IsInjective(stored)' /\ IsInjective(groups)'
    BY <2>1 DEF GroupsInv, AloneInv, IsInjective
  <2> QED  BY <2>3, <2>4, <2>5, <2>6
<1>12. SteadyInv'
  <2>1. \A q \in Runs : run'[q].steady = {}  BY <1>6, <1>8, <1>9
  <2> QED  BY <2>1, SteadyNever
<1> QED  BY <1>3, <1>4, <1>5, <1>10, <1>11, <1>12 DEF GroupsInv

LEMMA SwitchKeeps ==
  ASSUME GroupsInv, NEW a \in Accounts \cup {NoAccount}, SwitchAccount(a)
  PROVE  GroupsInv'
<1>1. account' = a /\ UNCHANGED <<events, stored, signing>>
  BY DEF SwitchAccount
<1>2. CASE a = NoAccount
  <2>1. groups' = stored /\ run' = Aborted(run) /\ UNCHANGED overlapped
    BY <1>2 DEF SwitchAccount
  <2>2. Longer /\ ChainInv'  BY <1>1, SameChain DEF GroupsInv, Longer
  <2>3. SigningInv' /\ Creations' \subseteq Creations
    BY <1>1, <2>2, SigningStays DEF GroupsInv
  <2>4. SidebarInv'
    <3>1. Range(stored)' = Range(stored)  BY <1>1 DEF Range
    <3> QED  BY <1>1, <2>1, <2>2, <3>1 DEF GroupsInv, SidebarInv, Longer
  <2>5. RunsInv' /\ RunsGoOn
    BY <1>1, <2>1, <2>2, RunsStay DEF GroupsInv
  <2>6. AloneInv'
    BY <1>1, <2>1, <2>3, <2>5, AloneStays DEF GroupsInv, RunsGoOn
  <2>7. SteadyInv'
    <3>1. \A r \in Runs : run'[r].steady = {}
      BY <2>1, AbortedShape DEF GroupsInv
    <3> QED  BY <3>1, SteadyNever
  <2> QED  BY <2>2, <2>3, <2>4, <2>5, <2>6, <2>7 DEF GroupsInv
<1>3. CASE a # NoAccount
  <2>1. Discover(a) /\ UNCHANGED groups  BY <1>3 DEF SwitchAccount
  <2>2. a \in Accounts  BY <1>3
  <2> QED  BY <1>1, <2>1, <2>2, DiscoverKeeps
<1> QED  BY <1>2, <1>3

LEMMA ReloadKeeps ==
  ASSUME GroupsInv, Reload
  PROVE  GroupsInv'
<1>1. /\ groups' = stored /\ signing' = {}
      /\ UNCHANGED <<events, account, stored, overlapped>>
  BY DEF Reload
<1>2. PICK r \in Runs :
        run' = [q \in Runs |->
                   IF q # r \/ account = NoAccount THEN Idle ELSE Started(account)]
  BY DEF Reload
<1>3. Longer /\ ChainInv' /\ account \in Accounts \cup {NoAccount}
  BY <1>1, SameChain DEF GroupsInv, SidebarInv, Longer
<1>4. SigningInv' /\ Creations' = {}
  <2>1. signing' \subseteq signing  BY <1>1
  <2> QED  BY <1>1, <1>3, <2>1, SigningStays DEF GroupsInv, Creations
<1>5. SidebarInv'
  <2>1. Range(stored)' = Range(stored)  BY <1>1 DEF Range
  <2> QED  BY <1>1, <1>3, <2>1 DEF GroupsInv, SidebarInv, Longer
<1>6. IsRun(Idle) /\ Idle.at = "idle" /\ Idle.steady = {}
  BY IdleIsRun DEF GroupsInv
<1>7. DOMAIN run' = Runs /\ \A q \in Runs : q # r => run'[q] = Idle  BY <1>2
<1>8. PICK none : none = Idle  OBVIOUS
<1>9. IsRun(none)'
  BY <1>1, <1>3, <1>6, <1>8, RunStays DEF GroupsInv
<1>10. IsRun(run[r])' /\ run'[r].at # "merging" /\ run'[r].steady = {}
  <2>1. PICK f : f = run'[r]  OBVIOUS
  <2>2. CASE account = NoAccount
    <3>1. f = Idle  BY <1>2, <2>1, <2>2
    <3> QED  BY <1>6, <1>8, <1>9, <2>1, <3>1
  <2>3. CASE account # NoAccount
    <3>1. PICK a \in Accounts : a = account  BY <1>3, <2>3
    <3>2. f = Started(a)  BY <1>2, <2>1, <2>3, <3>1
    <3>3. IsRun(f)' /\ f.at = "reading" /\ f.steady = {}
      BY <1>1, <1>3, <3>1, <3>2, StartedIsRun
    <3> QED  BY <2>1, <3>3
  <2> QED  BY <2>2, <2>3
<1>11. RunsInv'
  <2>1. ASSUME NEW q \in Runs
        PROVE  IsRun(run[q])'
    BY <1>7, <1>8, <1>9, <1>10
  <2> QED  BY <1>7, <2>1 DEF RunsInv
<1>12. Underway' \subseteq {r}  BY <1>6, <1>7 DEF Underway
<1>13. AloneInv'
  <2> SUFFICES ASSUME ~overlapped'
               PROVE  /\ IsInjective(stored)' /\ IsInjective(groups)'
                      /\ \A p, q \in Underway' : p = q
                      /\ \A t \in Creations' :
                            Underway' = {} /\ t.group \notin Range(stored)'
                      /\ \A q \in Runs :
                            run'[q].at = "merging" => run'[q].known = Range(stored)'
    BY DEF AloneInv
  <2>1. \A q \in Runs : run'[q].at # "merging"  BY <1>6, <1>7, <1>10
  <2>2. IsInjective(stored)' /\ IsInjective(groups)'
    BY <1>1 DEF GroupsInv, AloneInv, IsInjective
  <2> QED  BY <1>4, <1>12, <2>1, <2>2
<1>14. SteadyInv'
  <2>1. \A q \in Runs : run'[q].steady = {}  BY <1>6, <1>7, <1>10
  <2> QED  BY <2>1, SteadyNever
<1> QED  BY <1>3, <1>4, <1>5, <1>11, <1>13, <1>14 DEF GroupsInv

-----------------------------------------------------------------------------

LEMMA InitGroups == GroupsInit => GroupsInv /\ DiscoveryIsRight
<1> SUFFICES ASSUME GroupsInit
             PROVE  GroupsInv /\ DiscoveryIsRight
  OBVIOUS
<1> USE DEF GroupsInit
<1>1. Len(events) = 0 /\ DOMAIN events = {}  OBVIOUS
<1>2. ChainInv
  <2>1. \A kind, member, g : Count(kind, member, g, OnChain) = 0
    <3>1. \A kind, member, g :
            {i \in Of(kind, member, OnChain) : events[i].group = g} = {}
      BY <1>1 DEF Of, OnChain
    <3> QED  BY <3>1, FS_EmptySet DEF Count
  <2>2. events \in Seq(EventRecords)  BY <1>1
  <2> QED  BY <2>1, <2>2 DEF ChainInv
<1>3. SidebarInv /\ SigningInv
  BY DEF SidebarInv, SigningInv, Creations, Range
<1>4. IsRun(Idle) /\ Idle.at = "idle" /\ Idle.steady = {}  BY <1>2, IdleIsRun
<1>5. RunsInv  BY <1>4 DEF RunsInv
<1>6. Underway = {}  BY <1>4 DEF Underway
<1>7. AloneInv /\ SteadyInv
  <2>1. \A r \in Runs : run[r].at = "idle" /\ run[r].steady = {}  BY <1>4
  <2>2. IsInjective(stored) /\ IsInjective(groups)  BY DEF IsInjective
  <2> QED  BY <1>6, <2>1, <2>2 DEF AloneInv, SteadyInv, Creations
<1>8. DiscoveryIsRight  BY DEF DiscoveryIsRight
<1> QED  BY <1>2, <1>3, <1>5, <1>7, <1>8 DEF GroupsInv

LEMMA StepKeepsGroups ==
  ASSUME GroupsInv, [GroupsNext]_groupsVars
  PROVE  GroupsInv'
<1>1. CASE \E a \in Accounts, g \in Uuids : AddMember(a, g) \/ RemoveMember(a, g)
  BY <1>1, MembershipChanges
<1>2. CASE \E r \in Runs : ReadAdded(r) \/ ReadRemoved(r)  BY <1>2, ReadKeeps
<1>3. CASE \E r \in Runs : Compare(r)  BY <1>3, CompareKeeps
<1>4. CASE \E r \in Runs : Merge(r)  BY <1>4, CorrectionKeeps
<1>5. CASE \E r \in Runs : DiscoveryFails(r)  BY <1>5, FailKeeps
<1>6. CASE \E a \in Accounts \cup {NoAccount} : SwitchAccount(a)
  BY <1>6, SwitchKeeps
<1>7. CASE Reload  BY <1>7, ReloadKeeps
<1>8. CASE \E g \in Uuids : CreateGroup(g)  BY <1>8, CreateKeeps
<1>9. CASE \E g \in Uuids : LeaveGroup(g)  BY <1>9, LeaveKeeps
<1>10. CASE \E t \in signing : EndSigning(t)  BY <1>10, EndSigningKeeps
<1>11. CASE UNCHANGED groupsVars
  <2>1. /\ UNCHANGED <<events, account, stored, run, overlapped>>
        /\ groups' \in {groups, stored} /\ signing' \subseteq signing
    BY <1>11 DEF groupsVars, sidebarVars
  <2> QED  BY <2>1, RunsAsBefore
<1> QED
  BY <1>1, <1>2, <1>3, <1>4, <1>5, <1>6, <1>7, <1>8, <1>9, <1>10, <1>11
  DEF GroupsNext, ChainNext, DiscoveryNext, MemberNext

(* The types of a discovery, which is the connected account's unless it is *)
(* aborted; a membership is added and removed in turns; and while writers  *)
(* of the stored list have not overlapped, no group is listed twice.       *)
THEOREM GroupTypesHold == GroupsSpec => []GroupsTypeOK
<1>1. GroupsInit => GroupsInv  BY InitGroups
<1>2. GroupsInv /\ [GroupsNext]_groupsVars => GroupsInv'  BY StepKeepsGroups
<1>3. GroupsInv => GroupsTypeOK
  BY DEF GroupsInv, ChainInv, SidebarInv, RunsInv, IsRun, RunRecords, AloneInv,
         GroupsTypeOK
<1> QED  BY <1>1, <1>2, <1>3, PTL DEF GroupsSpec

-----------------------------------------------------------------------------
(* What a discovery leaves *)

(* What was settled and stays so is about what did not change. *)
LEMMA SettledStays ==
  ASSUME DiscoveryIsRight, settled' \subseteq settled,
         \A g \in settled' : /\ IsMember(account, g)' <=> IsMember(account, g)
                             /\ g \in Range(stored)' <=> g \in Range(stored),
         groups' \in {groups, stored, stored'}
  PROVE  DiscoveryIsRight'
<1>1. CASE groups' = groups
  <2>1. Range(groups)' = Range(groups)  BY <1>1 DEF Range
  <2> QED  BY <2>1 DEF DiscoveryIsRight
<1>2. CASE groups' = stored
  <2>1. Range(groups)' = Range(stored)  BY <1>2 DEF Range
  <2> QED  BY <2>1 DEF DiscoveryIsRight
<1>3. CASE groups' = stored'
  <2>1. Range(groups)' = Range(stored)'  BY <1>3 DEF Range
  <2> QED  BY <2>1 DEF DiscoveryIsRight
<1> QED  BY <1>1, <1>2, <1>3

(* A run that knows all about a group finds of it what it found, and       *)
(* leaves it as the chain has it; of the others it settles nothing, and    *)
(* what it changes of them is not settled any more.                        *)
LEMMA MergeIsRight ==
  ASSUME GroupsInv, DiscoveryIsRight, NEW r \in Runs, Merge(r)
  PROVE  DiscoveryIsRight'
<1>1. PICK named \in SUBSET Uuids :
        /\ named \subseteq New(r)
        /\ Range(stored)' = (Range(stored) \ Gone(r)) \cup named
        /\ settled' = (settled \ (Gone(r) \cup named)) \cup
                         (run[r].steady \ (New(r) \ named))
  BY CorrectionIsMade
<1>2. /\ run[r].at = "merging" /\ UNCHANGED <<events, account>>
      /\ groups' = IF run[r].aborted THEN groups ELSE stored'
  BY DEF Merge
<1>3. \A g : IsMember(account, g)' <=> IsMember(account, g)
  BY <1>2 DEF IsMember, Count, Of, OnChain
<1>4. ASSUME NEW g \in run[r].steady \ (New(r) \ named)
      PROVE  /\ g \in Range(stored)' <=> IsMember(account, g)'
             /\ g \in Range(groups)' <=> g \in Range(stored)'
  <2>1. /\ ~run[r].aborted
        /\ g \in run[r].active <=> IsMember(account, g)
        /\ g \in run[r].known <=> g \in Range(stored)
    BY <1>4 DEF GroupsInv, SteadyInv
  <2>2. groups' = stored'  BY <1>2, <2>1
  <2>3. Range(groups)' = Range(stored)'  BY <2>2 DEF Range
  <2>4. g \in Range(stored)' <=> g \in run[r].active
    BY <1>1, <1>4, <2>1 DEF New, Gone
  <2> QED  BY <1>3, <2>1, <2>3, <2>4
<1>5. ASSUME NEW g \in settled, g \notin Gone(r) \cup named
      PROVE  /\ g \in Range(stored)' <=> IsMember(account, g)'
             /\ g \in Range(groups)' <=> g \in Range(stored)'
  <2>1. g \in Range(stored)' <=> g \in Range(stored)  BY <1>1, <1>5
  <2>2. g \in Range(stored)' <=> IsMember(account, g)'
    BY <1>3, <2>1 DEF DiscoveryIsRight
  <2>3. g \in Range(groups)' <=> g \in Range(stored)'
    <3>1. CASE groups' = groups
      <4>1. Range(groups)' = Range(groups)  BY <3>1 DEF Range
      <4> QED  BY <2>1, <4>1 DEF DiscoveryIsRight
    <3>2. CASE groups' = stored'
      <4>1. Range(groups)' = Range(stored)'  BY <3>2 DEF Range
      <4> QED  BY <4>1
    <3> QED  BY <1>2, <3>1, <3>2
  <2> QED  BY <2>2, <2>3
<1>6. \A g \in settled' : \/ g \in run[r].steady \ (New(r) \ named)
                          \/ g \in settled /\ g \notin Gone(r) \cup named
  BY <1>1
<1> QED  BY <1>4, <1>5, <1>6 DEF DiscoveryIsRight

LEMMA StepStaysRight ==
  ASSUME GroupsInv, DiscoveryIsRight, [GroupsNext]_groupsVars
  PROVE  DiscoveryIsRight'
<1>1. CASE \E r \in Runs : Merge(r)  BY <1>1, MergeIsRight
<1>2. CASE \E kind \in {"added", "removed"}, a \in Accounts, g \in Uuids :
              /\ Emit(Event(kind, a, g))
              /\ kind = "added" <=> ~IsMember(a, g)
              /\ UNCHANGED <<sidebarVars, stored>>
  <2>1. \A h \in settled' : h \in settled /\ (IsMember(account, h)' <=> IsMember(account, h))
    BY <1>2, EmitKeepsMost
  <2>2. stored' = stored /\ groups' = groups  BY <1>2 DEF sidebarVars
  <2>3. Range(stored)' = Range(stored)  BY <2>2 DEF Range
  <2> QED  BY <2>1, <2>2, <2>3, SettledStays
<1>3. CASE UNCHANGED <<events, account, stored, settled>> /\ groups' \in {groups, stored}
  <2>1. Range(stored)' = Range(stored)  BY <1>3 DEF Range
  <2>2. \A g : IsMember(account, g)' <=> IsMember(account, g)
    BY <1>3 DEF IsMember, Count, Of, OnChain
  <2>3. settled' \subseteq settled /\ groups' \in {groups, stored, stored'}  BY <1>3
  <2> QED  BY <2>1, <2>2, <2>3, SettledStays
<1>4. ASSUME NEW a \in Accounts, NEW g \in Uuids, AddMember(a, g) \/ RemoveMember(a, g)
      PROVE  DiscoveryIsRight'
  <2>1. CASE AddMember(a, g)  BY <1>2, <2>1 DEF AddMember
  <2>2. CASE RemoveMember(a, g)  BY <1>2, <2>2 DEF RemoveMember
  <2> QED  BY <1>4, <2>1, <2>2
<1>5. ASSUME \E r \in Runs : ReadAdded(r) \/ ReadRemoved(r) \/ Compare(r)
                               \/ DiscoveryFails(r)
      PROVE  DiscoveryIsRight'
  <2>1. UNCHANGED <<events, account, stored, settled, groups>>
    BY <1>5 DEF ReadAdded, ReadRemoved, Compare, DiscoveryFails, sidebarVars
  <2> QED  BY <1>3, <2>1
<1>6. CASE Reload
  <2>1. UNCHANGED <<events, account, stored, settled>> /\ groups' \in {groups, stored}
    BY <1>6 DEF Reload
  <2> QED  BY <1>3, <2>1
<1>7. CASE \E a \in Accounts \cup {NoAccount} : SwitchAccount(a)
  <2>1. settled' = {}  BY <1>7 DEF SwitchAccount
  <2> QED  BY <2>1 DEF DiscoveryIsRight
<1>8. ASSUME NEW g \in Uuids, CreateGroup(g) PROVE DiscoveryIsRight'
  <2>1. account \in Accounts  BY <1>8 DEF CreateGroup, GroupsInv, SidebarInv
  <2>2. PICK a \in Accounts : a = account  BY <2>1
  <2>3. Emit(Event("added", a, g)) /\ ~Exists(g) /\ UNCHANGED <<sidebarVars, stored>>
    BY <1>8, <2>2 DEF CreateGroup
  <2>4. ~IsMember(a, g)  BY <2>3, MemberExists DEF GroupsInv
  <2> QED  BY <1>2, <2>3, <2>4
<1>9. ASSUME NEW g \in Uuids, LeaveGroup(g) PROVE DiscoveryIsRight'
  <2>1. account \in Accounts  BY <1>9 DEF LeaveGroup, GroupsInv, SidebarInv
  <2>2. PICK a \in Accounts : a = account  BY <2>1
  <2>3. Emit(Event("removed", a, g)) /\ IsMember(a, g) /\ UNCHANGED <<sidebarVars, stored>>
    BY <1>9, <2>2 DEF LeaveGroup
  <2> QED  BY <1>2, <2>3
<1>10. ASSUME NEW t \in signing, EndSigning(t) PROVE DiscoveryIsRight'
  <2>1. signing' = signing \ {t} /\ UNCHANGED <<events, account>>
    BY <1>10 DEF EndSigning
  <2>2. CASE EndCreate(t)
    <3>1. \A h \in settled' : h \in settled /\ (h \in Range(stored)' <=> h \in Range(stored))
      BY <2>1, <2>2, EndCreateKeeps
    <3>2. groups' = stored'  BY <2>2 DEF EndCreate
    <3>3. \A g : IsMember(account, g)' <=> IsMember(account, g)
      BY <2>1 DEF IsMember, Count, Of, OnChain
    <3> QED  BY <3>1, <3>2, <3>3, SettledStays
  <2>3. CASE EndLeave(t)  BY <1>3, <2>1, <2>3 DEF EndLeave
  <2>4. CASE FailSigning  BY <1>3, <2>1, <2>4 DEF FailSigning
  <2> QED  BY <1>10, <2>2, <2>3, <2>4 DEF EndSigning
<1>11. CASE UNCHANGED groupsVars
  <2>1. UNCHANGED <<events, account, stored, settled, groups>>
    BY <1>11 DEF groupsVars, sidebarVars
  <2> QED  BY <1>3, <2>1
<1> QED
  BY <1>1, <1>4, <1>5, <1>6, <1>7, <1>8, <1>9, <1>10, <1>11
  DEF GroupsNext, ChainNext, DiscoveryNext, MemberNext

(* A group that a discovery has decided knowing all of its events about    *)
(* the connected account is listed exactly if that account is a member,    *)
(* until the next event about the two, or another writer of the entry.     *)
THEOREM DiscoveryStaysRight == GroupsSpec => []DiscoveryIsRight
<1>1. GroupsInit => GroupsInv /\ DiscoveryIsRight  BY InitGroups
<1>2. GroupsInv /\ DiscoveryIsRight /\ [GroupsNext]_groupsVars
        => GroupsInv' /\ DiscoveryIsRight'
  BY StepKeepsGroups, StepStaysRight
<1> QED  BY <1>1, <1>2, PTL DEF GroupsSpec
=============================================================================
