----------------------------- MODULE Subscription -----------------------------
(***************************************************************************)
(* A subscriber of one group: the polling loop of subscribe in             *)
(* relayer/http-transport.ts, fetching pages over GET /messages from the   *)
(* storage while the handlers of other clients run.                        *)
(*                                                                         *)
(* A poll that fails with a 5xx or a timeout, and one that finds nothing,  *)
(* only wait: they are stuttering steps.  A poll that fails with a 4xx, an *)
(* abort and a disconnect end the loop; the application may subscribe      *)
(* again after the last order it received.                                 *)
(***************************************************************************)
EXTENDS MessageHandlers

CONSTANTS
    Group,     \* the group subscribed to
    PageLimit  \* limit: messages in a page

(* There are finitely many UUIDs. *)
ASSUME SubscriptionAssumption ==
    /\ IsFiniteSet(Ids)
    /\ Group \in Groups
    /\ PageLimit \in Nat \ {0}

VARIABLES
    cursor,     \* lastOrder (0: undefined, from the beginning)
    page,       \* the fetched messages not yielded yet: their order, by id
    delivered,  \* ids yielded to the application
    highest,    \* history: the highest order the group has ever stored
    late        \* history: ids stored behind an order already stored

subscriberVars == <<cursor, page, delivered>>
historyVars == <<highest, late>>
subscriptionVars == <<handlerVars, subscriberVars, historyVars>>

-----------------------------------------------------------------------------

NoPage == [id \in {} |-> 0]

InGroup(map) == {id \in DOMAIN map : map[id].group_id = Group}

(* get_messages_by_group: after_order is an exclusive lower bound.         *)
(* Mutants: the bound is inclusive; it is off by one the other way.        *)
AtOrAfter(after) ==
    {id \in InGroup(messages) : messages[id].order >= after}

AfterNext(after) ==
    {id \in InGroup(messages) : messages[id].order > after + 1}

After(after) == {id \in InGroup(messages) : messages[id].order > after}

(* The first PageLimit of them by order.  Mutants: any PageLimit of them,  *)
(* the sort is forgotten; all of them, the limit is.                       *)
IsWholeGroup(ids, after) == ids = After(after)

IsAnyPage(ids, after) ==
    /\ ids \subseteq After(after)
    /\ Cardinality(ids) = PageLimit
           \/ (Cardinality(ids) < PageLimit /\ ids = After(after))

IsPage(ids, after) ==
    /\ ids \subseteq After(after)
    /\ \A i \in ids, j \in After(after) \ ids :
           messages[i].order < messages[j].order
    /\ Cardinality(ids) = PageLimit
           \/ (Cardinality(ids) < PageLimit /\ ids = After(after))

(* fetchMessages returns a page. *)
Poll ==
    /\ DOMAIN page = {}
    /\ \E ids \in SUBSET InGroup(messages) \ {{}} :
           /\ IsPage(ids, cursor)
           /\ page' = [id \in ids |-> messages[id].order]
    /\ UNCHANGED <<handlerVars, cursor, delivered, historyVars>>

(* yield message; lastOrder = message.order.  The page is sorted. *)
Yield(id) ==
    /\ id \in DOMAIN page
    /\ \A other \in DOMAIN page : page[id] <= page[other]
    /\ delivered' = delivered \cup {id}
    /\ cursor' = page[id]
    /\ page' = [i \in DOMAIN page \ {id} |-> page[i]]
    /\ UNCHANGED <<handlerVars, historyVars>>

(* The subscription ends and the application subscribes again with         *)
(* afterOrder set to the order of the last message it received.            *)
Resubscribe ==
    /\ DOMAIN page # {}
    /\ page' = NoPage
    /\ UNCHANGED <<handlerVars, cursor, delivered, historyVars>>

SubscriberNext == Poll \/ (\E id \in Ids : Yield(id)) \/ Resubscribe

-----------------------------------------------------------------------------

(* A request handler moves, and the history follows.  An id that was ever  *)
(* delivered or stored late is not drawn again after a restart.            *)
KnownIds == delivered \cup late \cup DOMAIN page

Stored == InGroup(messages') \ DOMAIN messages

HandlersMove ==
    /\ HandlerNext(FreshIds \ KnownIds)
    /\ late' = late \cup {id \in Stored : messages'[id].order <= highest}
    /\ highest' =
           IF \E id \in Stored : messages'[id].order > highest
           THEN messages'[CHOOSE id \in Stored : messages'[id].order > highest]
                    .order
           ELSE highest
    /\ UNCHANGED subscriberVars

RelayerRestart == LoseHandlerState /\ UNCHANGED <<subscriberVars, historyVars>>

SubscriptionInit ==
    /\ Init
    /\ cursor = 0
    /\ page = NoPage
    /\ delivered = {}
    /\ highest = 0
    /\ late = {}

SubscriptionNext == SubscriberNext \/ HandlersMove \/ RelayerRestart

SubscriptionSpec == SubscriptionInit /\ [][SubscriptionNext]_subscriptionVars

(* The loop polls again and again, some poll is answered, and the          *)
(* application consumes what it is given.                                  *)
FairSubscriptionSpec ==
    /\ SubscriptionSpec
    /\ SF_subscriptionVars(Poll)
    /\ SF_subscriptionVars(\E id \in Ids : Yield(id))

-----------------------------------------------------------------------------
(* Properties *)

(* The subscriber's variables have their types, a page is a page. *)
SubscriptionTypeOK ==
    /\ TypeOK
    /\ cursor \in Nat
    /\ DOMAIN page \subseteq Ids
    /\ \A id \in DOMAIN page : page[id] \in Nat
    /\ Cardinality(DOMAIN page) <= PageLimit
    /\ delivered \subseteq Ids
    /\ highest \in Nat
    /\ late \subseteq Ids

(* Messages are yielded in ascending order and none twice, whatever is     *)
(* stored, lost in a restart or aborted between a fetch and a yield.       *)
PageIsAhead ==
    \A id \in DOMAIN page : page[id] > cursor /\ id \notin delivered

(* The only messages the cursor passes over are those that were stored     *)
(* behind a higher order: a POST that took its order first and stored      *)
(* second, or any POST after a restart reset the counter.                  *)
SkipsOnlyLate ==
    \A id \in InGroup(messages) :
        messages[id].order <= cursor => id \in delivered \cup late

(* Every message that is not stored late is delivered in the end, or the   *)
(* relayer forgets it.                                                     *)
EventuallyDelivered ==
    \A id \in Ids :
        id \in InGroup(messages) \ late
            ~> id \in delivered \/ id \notin DOMAIN messages
=============================================================================
