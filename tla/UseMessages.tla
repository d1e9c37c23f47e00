----------------------------- MODULE UseMessages ------------------------------
(***************************************************************************)
(* The message list of the chat application (chat-app/src/hooks/           *)
(* useMessages.ts, with ChatArea, MessageInput and MessageBubble around    *)
(* it).  The initial load, the subscription, older pages, optimistic sends *)
(* and the user's edits and deletes all write to one list, each when its   *)
(* own answer arrives; the user switches between groups meanwhile, and the *)
(* same hook serves the next group.                                        *)
(*                                                                         *)
(* The relayer gives a message its order under one lock and stores it      *)
(* under another (memory.rs), so that a lower order can be stored after a  *)
(* higher one has been read; the rest of it is the board of MessageBoard.  *)
(* The user has the permissions to send, edit and delete.  Edits and       *)
(* deletes of others are left out: nothing here asks for a message again   *)
(* that has been shown.                                                    *)
(***************************************************************************)
EXTENDS Selections

CONSTANTS
    Ids,          \* messages
    Groups,       \* groups the user is a member of
    PageLimit,    \* messages in a page: limit
    MaxVisits,    \* bound: groups opened, one after another
    MaxRequests   \* bound: requests in flight

(* There are finitely many UUIDs. *)
ASSUME ChatAssumption ==
    /\ IsFiniteSet(Ids)
    /\ Groups # {}
    /\ PageLimit \in Nat \ {0}
    /\ MaxVisits \in Nat \ {0}
    /\ MaxRequests \in Nat \ {0}

VARIABLES
    relayer,       \* the messages stored, by id
    taken,         \* the messages that have been given an order, by id
    orders,        \* the orders given out, by group
    uuid,          \* the group shown
    visit,         \* counts the groups opened: a cleanup cancels the former
    list,          \* messages
    loading,
    hasMore,
    lastOrder,     \* lastOrderRef (0: undefined)
    requests,      \* calls of this client not answered yet
    subscription,  \* the subscription's cursor, and its page not yielded yet
    undecrypted,   \* history: ids that did not decrypt in this visit
    disturbed,     \* history: what made this visit's list unusual
    raced,         \* history: ids whose changes and readings have overlapped
    seen,          \* history: the highest order this visit has been given
    late           \* history: ids stored behind it

boardVars == <<relayer, taken, orders>>
readVars == <<seen, late>>
viewVars == <<uuid, visit, list, loading, hasMore, lastOrder, subscription>>
historyVars == <<undecrypted, disturbed, raced, readVars>>
vars == <<boardVars, viewVars, requests, historyVars>>

-----------------------------------------------------------------------------

Contents == {"first", "edited", "deleted"}

NoId == "none"

Entry(id) ==
    [id |-> id, group |-> relayer[id].group, order |-> relayer[id].order,
     content |-> relayer[id].content, real |-> TRUE]

Stored == DOMAIN relayer

InGroup(g) == {id \in Stored : relayer[id].group = g}

(* get_messages_by_group: the lowest PageLimit orders of those selected, in *)
(* ascending order.  (A set of one page.)                                   *)
Lowest(ids) ==
    {id \in ids :
        Cardinality({i \in ids : relayer[i].order < relayer[id].order}) < PageLimit}

Pages(ids) ==
    {[i \in DOMAIN s |-> Entry(s[i])] :
        s \in {a \in Arrangements(Lowest(ids)) :
                   \A i, j \in DOMAIN a :
                       i < j => relayer[a[i]].order < relayer[a[j]].order}}

ShownIds == {list[i].id : i \in DOMAIN list}

(* Shown with its sender and group, as the relayer has them, and with one  *)
(* of these contents.                                                      *)
IsShown(id, contents) ==
    \E i \in DOMAIN list :
        list[i].id = id /\ list[i].real /\ list[i].content \in contents

Open == subscription # <<>>

Closed == <<>>

Subscribed(cursor) == <<[cursor |-> cursor, page |-> <<>>]>>

(* The effect that follows every change of the list. *)
LastOrder(entries) ==
    IF entries = <<>> THEN lastOrder ELSE entries[Len(entries)].order

SetMessages(entries) ==
    /\ list' = entries
    /\ lastOrder' = LastOrder(entries)

(* The list sorted by order; entries of the same order stay as they are   *)
(* (Array.prototype.sort is stable).  (A set of one list.)                 *)
Sorted(entries) ==
    {[i \in DOMAIN s |-> entries[s[i]]] :
        s \in {a \in Arrangements(DOMAIN entries) :
                   \A i, j \in DOMAIN a : i < j =>
                       \/ entries[a[i]].order < entries[a[j]].order
                       \/ entries[a[i]].order = entries[a[j]].order /\ a[i] < a[j]}}

(* mergeMessage: the first entry of the same id is replaced where it       *)
(* stands, a new one is appended and the whole list sorted.                *)
IsFirst(i, id) == list[i].id = id /\ \A j \in 1..(i - 1) : list[j].id # id

MergeMessage(entry) ==
    IF entry.id \in ShownIds
    THEN {[i \in DOMAIN list |-> IF IsFirst(i, entry.id) THEN entry ELSE list[i]]}
    ELSE Sorted(Append(list, entry))

-----------------------------------------------------------------------------
(* Requests *)

Request(kind, id, before) ==
    [kind |-> kind, id |-> id, group |-> uuid, visit |-> visit,
     before |-> before, answered |-> FALSE, page |-> <<>>, hasNext |-> FALSE]

Ask(kind, id, before) ==
    /\ Cardinality(requests) < MaxRequests
    /\ requests' = requests \cup {Request(kind, id, before)}

Answered(r, page, hasNext) ==
    requests' = (requests \ {r}) \cup
        {[r EXCEPT !.answered = TRUE, !.page = page, !.hasNext = hasNext]}

Current(r) == r.visit = visit

InPage(id, page) == \E i \in DOMAIN page : page[i].id = id

(* Another call about the same message is under way. *)
IsContested(r) == \E q \in requests \ {r} : q.id = r.id

(* The message is in a page that has been read and is not shown yet. *)
IsRead(id) ==
    \/ \E q \in requests : InPage(id, q.page)
    \/ Open /\ InPage(id, subscription[1].page)

Raced(r, unsettled) == IF unsettled THEN raced \cup {r.id} ELSE raced

(* handleSend: with files, a second click gets past the sending flag, so   *)
(* that sends may overlap.                                                 *)
IsUnused(id) ==
    /\ id \notin DOMAIN taken
    /\ \A r \in requests : r.id # id

Send(id) ==
    /\ IsUnused(id)
    /\ Ask("send", id, 0)
    /\ UNCHANGED <<boardVars, viewVars, historyVars>>

IsOwn(id) == relayer[id].own

Offers(id, contents) == IsShown(id, contents) /\ IsOwn(id)

Pending(kind, id) ==
    \E r \in requests : r.kind = kind /\ r.id = id /\ Current(r)

(* The bubble of an own message that is not deleted offers to edit and to  *)
(* delete it; an unchanged text is not sent.                               *)
Edit(id) ==
    /\ Offers(id, {"first"})
    /\ ~Pending("edit", id)
    /\ Ask("edit", id, 0)
    /\ UNCHANGED <<boardVars, viewVars, historyVars>>

Delete(id) ==
    /\ Offers(id, Contents \ {"deleted"})
    /\ ~Pending("delete", id)
    /\ Ask("delete", id, 0)
    /\ UNCHANGED <<boardVars, viewVars, historyVars>>

(* loadMore: the button is not disabled while a page is under way. *)
LoadMore ==
    /\ hasMore
    /\ ~loading
    /\ list # <<>>
    /\ Ask("more", NoId, list[1].order)
    /\ UNCHANGED <<boardVars, viewVars, historyVars>>

-----------------------------------------------------------------------------
(* The relayer *)

(* create_message draws the next order of the group ... *)
TakeOrder(id, g, own) ==
    /\ orders' = [orders EXCEPT ![g] = @ + 1]
    /\ taken' = [i \in DOMAIN taken \cup {id} |->
           IF i = id THEN [group |-> g, order |-> orders[g] + 1, own |-> own]
           ELSE taken[i]]
    /\ UNCHANGED <<relayer, viewVars, requests, historyVars>>

(* ... for a message of another member or one of the user's, ... *)
Receive(id, g) == IsUnused(id) /\ TakeOrder(id, g, FALSE)

ReceiveSend(r) ==
    /\ r.kind = "send" /\ r.id \notin DOMAIN taken
    /\ TakeOrder(r.id, r.group, TRUE)

(* ... and stores it later, or never, if it is refused.  The client may    *)
(* have given up by then.                                                  *)
StoreMessage(id) ==
    /\ id \in DOMAIN taken \ Stored
    /\ relayer' = [i \in Stored \cup {id} |->
           IF i = id
           THEN [group |-> taken[id].group, order |-> taken[id].order,
                 content |-> "first", own |-> taken[id].own]
           ELSE relayer[i]]
    /\ requests' = {[r EXCEPT !.answered = @ \/ (r.kind = "send" /\ r.id = id)] :
                       r \in requests}
    /\ late' = IF taken[id].group = uuid /\ taken[id].order <= seen
               THEN late \cup {id} ELSE late
    /\ UNCHANGED <<taken, orders, viewVars, undecrypted, disturbed, raced, seen>>

(* The highest order this visit has been given, with a page. *)
SeenWith(page) ==
    IF page = <<>> \/ page[Len(page)].order < seen THEN seen
    ELSE page[Len(page)].order

AnswerPage(r) ==
    LET ids == {id \in InGroup(r.group) :
                   r.kind = "load" \/ relayer[id].order < r.before}
    IN  /\ r.kind \in {"load", "more"}
        /\ \E page \in Pages(ids) :
               /\ Answered(r, page, Cardinality(ids) > PageLimit)
               /\ seen' = IF r.kind = "load" /\ Current(r) THEN SeenWith(page) ELSE seen
        /\ UNCHANGED <<relayer, raced>>

AnswerChange(r) ==
    /\ r.kind \in {"edit", "delete"}
    /\ relayer' = [relayer EXCEPT ![r.id].content =
                      IF r.kind = "edit" THEN "edited" ELSE "deleted"]
    /\ Answered(r, <<>>, FALSE)
    /\ raced' = Raced(r, IsContested(r) \/ IsRead(r.id))
    /\ UNCHANGED seen

Answer(r) ==
    /\ ~r.answered
    /\ AnswerPage(r) \/ AnswerChange(r)
    /\ UNCHANGED <<taken, orders, viewVars, undecrypted, disturbed, late>>

-----------------------------------------------------------------------------
(* The hook: what it does with the answers *)

Done(r) == requests' = requests \ {r}

(* Messages that do not decrypt are left out of a page.  (A set of one.) *)
Decrypted(page, failed) ==
    Selected(page, {i \in DOMAIN page : page[i].id \notin failed})

(* The load ends, with the list or with an error, and the subscription     *)
(* starts after lastOrderRef.  Mutant: the flag stays when nothing came.   *)
EndLoadingWithMessages(loaded, cursor) ==
    /\ loading' = (loaded = <<>>)
    /\ subscription' = Subscribed(cursor)
    /\ disturbed' = IF loaded = <<>> /\ disturbed # {}
                    THEN disturbed \cup {"blind"} ELSE disturbed

EndLoading(loaded, cursor) ==
    /\ loading' = FALSE
    /\ subscription' = Subscribed(cursor)
    /\ disturbed' = IF loaded = <<>> /\ disturbed # {}
                    THEN disturbed \cup {"blind"} ELSE disturbed

(* loadInitial.  Mutant: an answer for a group left behind is shown. *)
IsWantedAlways(r) == loading

IsWanted(r) == Current(r)

ResolveLoad(r, failed) ==
    /\ r.kind = "load" /\ r.answered
    /\ Done(r)
    /\ IF IsWanted(r)
       THEN /\ \E shown \in Decrypted(r.page, failed) : SetMessages(shown)
            /\ hasMore' = r.hasNext
            /\ undecrypted' = undecrypted \cup failed
            /\ EndLoading(list', lastOrder')
            /\ UNCHANGED <<uuid, visit>>
       ELSE UNCHANGED <<viewVars, undecrypted, disturbed>>
    /\ UNCHANGED <<boardVars, raced, readVars>>

FailLoad(r) ==
    /\ r.kind = "load"
    /\ Done(r)
    /\ IF Current(r)
       THEN /\ EndLoading(<<>>, lastOrder)
            /\ UNCHANGED <<uuid, visit, list, hasMore, lastOrder>>
       ELSE UNCHANGED <<viewVars, disturbed>>
    /\ UNCHANGED <<boardVars, undecrypted, raced, readVars>>

(* An older page goes before the list: the hook checks the group, and      *)
(* neither the visit nor whether the list still begins where it did.       *)
(* Mutant: the page goes behind the list.                                  *)
WithOlderBehind(page) == list \o page

WithOlder(page) == page \o list

IsStale(r) == list = <<>> \/ list[1].order # r.before \/ ~Current(r)

ResolveMore(r, failed) ==
    /\ r.kind = "more" /\ r.answered
    /\ Done(r)
    /\ IF r.group = uuid
       THEN /\ \E shown \in Decrypted(r.page, failed) : SetMessages(WithOlder(shown))
            /\ hasMore' = r.hasNext
            /\ undecrypted' = undecrypted \cup failed
            /\ disturbed' = IF IsStale(r) THEN disturbed \cup {"stale"} ELSE disturbed
            /\ UNCHANGED <<uuid, visit, loading, subscription>>
       ELSE UNCHANGED <<viewVars, undecrypted, disturbed>>
    /\ UNCHANGED <<boardVars, raced, readVars>>

(* The optimistic entry of sendMessage: a guessed order, no sender, and no *)
(* look at the group shown by now.                                         *)
Optimistic(r) ==
    [id |-> r.id, group |-> r.group, order |-> lastOrder + 1,
     content |-> "first", real |-> FALSE]

ResolveSend(r) ==
    /\ r.kind = "send" /\ r.answered
    /\ Done(r)
    /\ \E merged \in MergeMessage(Optimistic(r)) : SetMessages(merged)
    /\ disturbed' = disturbed \cup {"sent"} \cup
                        IF r.id \in ShownIds THEN {"overwritten"} ELSE {}
    /\ UNCHANGED <<boardVars, uuid, visit, loading, hasMore, subscription,
                   undecrypted, raced, readVars>>

(* The optimistic update of editMessage and deleteMessage.  Mutant: none   *)
(* for a delete.                                                           *)
ChangedByEdits(entry, r) ==
    IF entry.id # r.id \/ r.kind = "delete" THEN entry
    ELSE [entry EXCEPT !.content = "edited"]

Changed(entry, r) ==
    IF entry.id # r.id THEN entry
    ELSE [entry EXCEPT !.content =
             IF r.kind = "delete" \/ @ = "deleted" THEN "deleted" ELSE "edited"]

ResolveChange(r) ==
    /\ r.kind \in {"edit", "delete"} /\ r.answered
    /\ Done(r)
    /\ SetMessages([i \in DOMAIN list |-> Changed(list[i], r)])
    /\ raced' = Raced(r, IsContested(r))
    /\ UNCHANGED <<boardVars, uuid, visit, loading, hasMore, subscription,
                   undecrypted, disturbed, readVars>>

(* A call fails, before the relayer has done what it asks or after. *)
FailOther(r) ==
    /\ r.kind # "load"
    /\ Done(r)
    /\ raced' = Raced(r, r.kind \in {"edit", "delete"} /\ r.answered)
    /\ UNCHANGED <<boardVars, viewVars, undecrypted, disturbed, readVars>>

-----------------------------------------------------------------------------
(* The subscription of the current visit *)

Poll ==
    /\ Open
    /\ subscription[1].page = <<>>
    /\ LET ids == {id \in InGroup(uuid) : relayer[id].order > subscription[1].cursor}
       IN  /\ ids # {}
           /\ \E page \in Pages(ids) :
                  /\ subscription' = [subscription EXCEPT ![1].page = page]
                  /\ seen' = SeenWith(page)
    /\ UNCHANGED <<boardVars, uuid, visit, list, loading, hasMore, lastOrder,
                   requests, undecrypted, disturbed, raced, late>>

(* A poll is answered with a client error: the transport throws it, the    *)
(* hook logs it, and nothing subscribes again in this visit.               *)
RefusePoll ==
    /\ Open
    /\ subscription[1].page = <<>>
    /\ subscription' = Closed
    /\ UNCHANGED <<boardVars, uuid, visit, list, loading, hasMore, lastOrder,
                   requests, historyVars>>

(* The next message of the page, which is merged or does not decrypt. *)
Yield(decrypts) ==
    /\ Open
    /\ subscription[1].page # <<>>
    /\ LET entry == Head(subscription[1].page)
       IN  /\ IF decrypts
              THEN /\ \E merged \in MergeMessage(entry) : SetMessages(merged)
                   /\ UNCHANGED undecrypted
              ELSE /\ undecrypted' = undecrypted \cup {entry.id}
                   /\ UNCHANGED <<list, lastOrder>>
           /\ subscription' =
                  <<[cursor |-> entry.order, page |-> Tail(subscription[1].page)]>>
    /\ UNCHANGED <<boardVars, uuid, visit, loading, hasMore, requests,
                   disturbed, raced, readVars>>

(* Another group is selected, or the client changes: the cleanups cancel   *)
(* the load and abort the subscription, and the effects run again.         *)
(* Mutant: lastOrderRef keeps the order of the group left behind.          *)
FirstOrderKept == lastOrder

FirstOrder == 0

OpenGroup(g) ==
    /\ visit < MaxVisits
    /\ visit' = visit + 1
    /\ uuid' = g
    /\ list' = <<>>
    /\ loading' = TRUE
    /\ hasMore' = FALSE
    /\ lastOrder' = FirstOrder
    /\ subscription' = Closed
    /\ Cardinality(requests) < MaxRequests
    /\ requests' = requests \cup
           {[Request("load", NoId, 0) EXCEPT !.group = g, !.visit = visit + 1]}
    /\ undecrypted' = {}
    /\ disturbed' = {}
    /\ seen' = 0
    /\ late' = {}
    /\ UNCHANGED <<boardVars, raced>>

-----------------------------------------------------------------------------

Init ==
    /\ relayer = [id \in {} |-> 0]
    /\ taken = [id \in {} |-> 0]
    /\ orders = [g \in Groups |-> 0]
    /\ uuid \in Groups
    /\ visit = 1
    /\ list = <<>>
    /\ loading = TRUE
    /\ hasMore = FALSE
    /\ lastOrder = 0
    /\ subscription = Closed
    /\ requests = {Request("load", NoId, 0)}
    /\ undecrypted = {}
    /\ disturbed = {}
    /\ raced = {}
    /\ seen = 0
    /\ late = {}

UserNext ==
    \/ \E id \in Ids : Send(id)
    \/ \E id \in ShownIds : Edit(id) \/ Delete(id)
    \/ LoadMore
    \/ \E g \in Groups : OpenGroup(g)

AnswerNext ==
    \E r \in requests :
        \/ ReceiveSend(r)
        \/ Answer(r)
        \/ \E failed \in SUBSET {r.page[i].id : i \in DOMAIN r.page} :
               ResolveLoad(r, failed) \/ ResolveMore(r, failed)
        \/ ResolveSend(r)
        \/ ResolveChange(r)
        \/ FailLoad(r)
        \/ FailOther(r)

Next ==
    \/ UserNext
    \/ AnswerNext
    \/ \E id \in Ids, g \in Groups : Receive(id, g)
    \/ \E id \in Ids : StoreMessage(id)
    \/ Poll
    \/ RefusePoll
    \/ \E decrypts \in BOOLEAN : Yield(decrypts)

Spec == Init /\ [][Next]_vars

-----------------------------------------------------------------------------
(* Properties *)

(* Types; the subscription runs only when the load has ended. *)
TypeOK ==
    /\ Stored \subseteq DOMAIN taken
    /\ DOMAIN taken \subseteq Ids
    /\ orders \in [Groups -> Nat]
    /\ uuid \in Groups
    /\ visit \in 1..MaxVisits
    /\ \A i \in DOMAIN list :
           list[i].id \in Ids /\ list[i].order \in Nat /\ list[i].content \in Contents
    /\ loading \in BOOLEAN
    /\ Open => ~loading
    /\ lastOrder \in Nat
    /\ Cardinality(requests) <= MaxRequests
    /\ undecrypted \cup raced \cup late \subseteq Ids
    /\ seen \in Nat

(* Whatever the relayer has up to the cursor of the subscription is shown  *)
(* or did not decrypt: the load, the subscription that continues it and    *)
(* the messages that arrive between the two leave no gap, unless the       *)
(* relayer stored the message behind one that this visit had been given.   *)
(* (Where the load gave nothing, the subscription continues from whatever  *)
(* else was shown.)                                                        *)
NothingPassedOver ==
    Open /\ "blind" \notin disturbed =>
        \A id \in InGroup(uuid) :
            relayer[id].order <= subscription[1].cursor =>
                id \in ShownIds \cup undecrypted \cup late

(* Every message that came from the relayer is of the group shown, however *)
(* late the answer is and however often the group changed meanwhile.       *)
OnlyThisGroup ==
    \A i \in DOMAIN list : list[i].real => list[i].group = uuid

(* Each message is shown once, and in order where nothing was sent, unless *)
(* an older page came back to a list that had changed since it was asked,  *)
(* or a late answer to a send took the place of the real message.  (Older  *)
(* pages are not deduplicated: after a send they can repeat what did not   *)
(* decrypt at first or was stored behind what this visit had been given.)  *)
ShownOnceInOrder ==
    disturbed \cap {"stale", "overwritten"} = {} =>
        \A i, j \in DOMAIN list : i < j =>
            /\ list[i].id = list[j].id => list[i].id \in undecrypted \cup late
            /\ "sent" \notin disturbed => list[i].order < list[j].order

(* The user's own messages look the way the relayer has them, as soon as   *)
(* no call about them is under way, unless two such calls overlapped, the  *)
(* message was changed while it was being read, or an answer was lost.     *)
OwnMessagesAgree ==
    \A i \in DOMAIN list :
        list[i].real /\ list[i].id \notin raced =>
            \/ list[i].content = relayer[list[i].id].content
            \/ \E r \in requests : r.id = list[i].id
=============================================================================
