----------------------------- MODULE GroupDiscovery -----------------------------
(***************************************************************************)
(* How the chat application knows the user's groups.  The sidebar shows a  *)
(* list kept in localStorage (lib/group-store.ts); discovery               *)
(* (hooks/useGroupDiscovery.ts) reads the MemberAdded and MemberRemoved    *)
(* events of the chain through an indexer that lags and may answer with    *)
(* less than it has, and corrects that list in between other writers:      *)
(* creating a group (CreateGroupModal), leaving one (ChatArea), another    *)
(* discovery that was aborted and goes on regardless.                      *)
(*                                                                         *)
(* The events, and who may emit them, are those of the Groups SDK          *)
(* contract.  A group stands for its uuid, from which its id is derived.   *)
(***************************************************************************)
EXTENDS Functions, Selections

CONSTANTS
    Accounts,   \* accounts of this user's wallet
    Uuids,      \* groups
    Runs,       \* discoveries that may be under way at a time
    MaxEvents,  \* bound: membership events on the chain
    MaxListed   \* bound: entries stored

ASSUME DiscoveryAssumption == MaxEvents \in Nat /\ MaxListed \in Nat

VARIABLES
    events,      \* MemberAdded and MemberRemoved, of this user's accounts
    account,     \* the connected account, if any
    stored,      \* localStorage: chat-app-groups
    groups,      \* the hook's state: what the sidebar shows
    run,         \* discoveries under way
    signing,     \* transactions of this application, signed or executed
    overlapped,  \* history: writers of localStorage have overlapped
    settled      \* history: groups that a discovery has decided knowing all

sidebarVars == <<account, groups>>
groupsVars == <<events, sidebarVars, stored, run, signing, overlapped, settled>>

-----------------------------------------------------------------------------

NoAccount == "none"

Event(kind, member, g) == [kind |-> kind, member |-> member, group |-> g]

(* The events of one kind about an address that are in what was read of    *)
(* the chain.                                                              *)
Of(kind, member, read) ==
    {i \in read : events[i].kind = kind /\ events[i].member = member}

Count(kind, member, g, read) ==
    Cardinality({i \in Of(kind, member, read) : events[i].group = g})

OnChain == DOMAIN events

IsMember(a, g) ==
    Count("added", a, g, OnChain) > Count("removed", a, g, OnChain)

Exists(g) == \E i \in DOMAIN events : events[i].group = g

NotRead == {0}

Idle == [at |-> "idle", account |-> NoAccount, added |-> {}, removed |-> {},
         active |-> {}, known |-> {}, aborted |-> FALSE, steady |-> {}]

Underway == {r \in Runs : run[r].at # "idle"}

(* A discovery that is to write does not know of this about a group, and   *)
(* what an earlier one decided is not settled any more.                    *)
Spoiled(f, uuids) == [r \in Runs |-> [f[r] EXCEPT !.steady = @ \ uuids]]

Unsettle(uuids) ==
    /\ run' = Spoiled(run, uuids)
    /\ settled' = settled \ uuids

-----------------------------------------------------------------------------
(* The chain *)

Emit(event) ==
    /\ Len(events) < MaxEvents
    /\ events' = Append(events, event)
    /\ Unsettle(IF event.member = account THEN {event.group} ELSE {})

(* Other admins, and other devices. *)
AddMember(a, g) ==
    /\ ~IsMember(a, g)
    /\ Emit(Event("added", a, g))
    /\ UNCHANGED <<sidebarVars, stored, signing, overlapped>>

RemoveMember(a, g) ==
    /\ IsMember(a, g)
    /\ Emit(Event("removed", a, g))
    /\ UNCHANGED <<sidebarVars, stored, signing, overlapped>>

-----------------------------------------------------------------------------
(* Discovery *)

Started(a) ==
    [Idle EXCEPT !.at = "reading", !.account = a,
                 !.added = NotRead, !.removed = NotRead]

(* The effect's cleanup: what an aborted run has read, or will, is not     *)
(* used.  Mutant: it aborts nothing.                                       *)
NotAborted(f) == f

Aborted(f) ==
    [r \in Runs |-> IF f[r].at = "idle" THEN Idle
                    ELSE [f[r] EXCEPT !.aborted = TRUE, !.steady = {},
                                      !.added = {}, !.removed = {}]]

Discover(a) ==
    /\ \E r \in Runs \ Underway : run' = [Aborted(run) EXCEPT ![r] = Started(a)]
    /\ overlapped' = (overlapped \/ Underway # {} \/ signing # {})

(* queryAllEventGroupIds: both kinds of events are asked for at once, page *)
(* after page.  The indexer lags, an entry without contents is skipped,    *)
(* and an answer without data ends the reading as if it were complete: it  *)
(* may be any part of the events there are.                                *)
Readings(kind, member) == SUBSET Of(kind, member, OnChain)

ReadAdded(r) ==
    /\ run[r].at = "reading" /\ run[r].added = NotRead
    /\ \E read \in Readings("added", run[r].account) :
           run' = [run EXCEPT ![r].added = read]
    /\ UNCHANGED <<events, sidebarVars, stored, signing, overlapped, settled>>

ReadRemoved(r) ==
    /\ run[r].at = "reading" /\ run[r].removed = NotRead
    /\ \E read \in Readings("removed", run[r].account) :
           run' = [run EXCEPT ![r].removed = read]
    /\ UNCHANGED <<events, sidebarVars, stored, signing, overlapped, settled>>

(* The groups of which the run has read every event about its account. *)
Steady(r) ==
    {g \in Uuids : \A i \in OnChain :
        events[i].group = g /\ events[i].member = run[r].account =>
            i \in run[r].added \cup run[r].removed}

(* Added more often than removed.  Mutant: ever added. *)
EverActive(r) ==
    {g \in Uuids : Count("added", run[r].account, g, run[r].added) > 0}

Active(r) ==
    {g \in Uuids : Count("added", run[r].account, g, run[r].added) >
                    Count("removed", run[r].account, g, run[r].removed)}

New(r) == run[r].active \ run[r].known

(* groupsMetadata, asked to refresh: of the new groups, those whose object *)
(* is found.                                                               *)
GroupsMetadata(r) == SUBSET New(r)

(* Each reads, changes and writes what is stored now.  (What is left after *)
(* some are removed is a set of one list.)                                 *)
AddStoredGroups(groupIds) == stored \o groupIds

RemoveStoredGroups(groupIds) ==
    Selected(stored, {i \in DOMAIN stored : stored[i] \notin groupIds})

(* The abort check; what is stored is read before the metadata of the new  *)
(* groups is asked for.                                                    *)
Compare(r) ==
    /\ run[r].at = "reading" /\ run[r].added # NotRead /\ run[r].removed # NotRead
    /\ run' = [run EXCEPT ![r] =
                  IF run[r].aborted THEN Idle
                  ELSE [@ EXCEPT !.at = "merging", !.active = Active(r),
                                 !.known = Range(stored), !.steady = Steady(r),
                                 !.added = {}, !.removed = {}]]
    /\ UNCHANGED <<events, sidebarVars, stored, signing, overlapped, settled>>

(* What is not active any more goes, what is new is added, in any order.   *)
(* (A set of lists.)                                                       *)
Gone(r) == run[r].known \ run[r].active

Corrected(r, named) ==
    {left \o new : left \in RemoveStoredGroups(Gone(r)), new \in Arrangements(named)}

(* The metadata of some of the new groups has come; the others are left    *)
(* out.  An aborted run still writes, and shows nothing.                   *)
Merge(r) ==
    /\ run[r].at = "merging"
    /\ \E named \in GroupsMetadata(r) :
           /\ stored' \in Corrected(r, named)
           /\ Len(stored') <= MaxListed
           /\ settled' = (settled \ (Gone(r) \cup named)) \cup
                             (run[r].steady \ (New(r) \ named))
           /\ run' = [Spoiled(run, Gone(r) \cup named) EXCEPT ![r] = Idle]
    /\ groups' = IF run[r].aborted THEN groups ELSE stored'
    /\ UNCHANGED <<events, account, signing, overlapped>>

DiscoveryFails(r) ==
    /\ run[r].at # "idle"
    /\ run' = [run EXCEPT ![r] = Idle]
    /\ UNCHANGED <<events, sidebarVars, stored, signing, overlapped, settled>>

(* Another account is connected, or none.  The list stays that of the      *)
(* account before until its own discovery has ended.                       *)
SwitchAccount(a) ==
    /\ a # account
    /\ account' = a
    /\ IF a = NoAccount
       THEN /\ groups' = stored
            /\ run' = Aborted(run)
            /\ UNCHANGED overlapped
       ELSE Discover(a) /\ UNCHANGED groups
    /\ settled' = {}
    /\ UNCHANGED <<events, stored, signing>>

(* The page is loaded again: what is under way is lost. *)
Reload ==
    /\ groups' = stored
    /\ \E r \in Runs :
           run' = [q \in Runs |->
                      IF q # r \/ account = NoAccount THEN Idle ELSE Started(account)]
    /\ signing' = {}
    /\ UNCHANGED <<events, account, stored, overlapped, settled>>

-----------------------------------------------------------------------------
(* Creating and leaving *)

Signed(kind, g) == [kind |-> kind, group |-> g]

(* The transaction is executed; the application learns of it later. *)
CreateGroup(g) ==
    /\ account # NoAccount
    /\ ~Exists(g)
    /\ Emit(Event("added", account, g))
    /\ signing' = signing \cup {Signed("create", g)}
    /\ overlapped' = (overlapped \/ Underway # {})
    /\ UNCHANGED <<sidebarVars, stored>>

(* addStoredGroup, onGroupCreated. *)
EndCreate(t) ==
    /\ t.kind = "create"
    /\ Len(stored) < MaxListed
    /\ stored' = AddStoredGroups(<<t.group>>)
    /\ groups' = stored'
    /\ overlapped' = (overlapped \/ Underway # {})
    /\ Unsettle({t.group})

LeaveGroup(g) ==
    /\ account # NoAccount
    /\ g \in Range(groups)
    /\ IsMember(account, g)
    /\ Emit(Event("removed", account, g))
    /\ signing' = signing \cup {Signed("leave", g)}
    /\ UNCHANGED <<sidebarVars, stored, overlapped>>

(* removeStoredGroup is given the uuid where it filters by group id: the   *)
(* list stays as it is, and the group in it until the next discovery.      *)
EndLeave(t) ==
    /\ t.kind = "leave"
    /\ groups' = stored
    /\ UNCHANGED <<stored, overlapped, run, settled>>

(* The wallet or the fullnode fails once the transaction is executed: the  *)
(* error is shown, and nothing is written.                                 *)
FailSigning == UNCHANGED <<stored, groups, overlapped, run, settled>>

EndSigning(t) ==
    /\ EndCreate(t) \/ EndLeave(t) \/ FailSigning
    /\ signing' = signing \ {t}
    /\ UNCHANGED <<events, account>>

-----------------------------------------------------------------------------

GroupsInit ==
    /\ events = <<>>
    /\ account = NoAccount
    /\ stored = <<>>
    /\ groups = <<>>
    /\ run = [r \in Runs |-> Idle]
    /\ signing = {}
    /\ overlapped = FALSE
    /\ settled = {}

ChainNext ==
    \E a \in Accounts, g \in Uuids : AddMember(a, g) \/ RemoveMember(a, g)

DiscoveryNext ==
    \/ \E r \in Runs :
           \/ ReadAdded(r) \/ ReadRemoved(r) \/ Compare(r) \/ Merge(r)
           \/ DiscoveryFails(r)
    \/ \E a \in Accounts \cup {NoAccount} : SwitchAccount(a)
    \/ Reload

MemberNext ==
    \/ \E g \in Uuids : CreateGroup(g) \/ LeaveGroup(g)
    \/ \E t \in signing : EndSigning(t)

GroupsNext == ChainNext \/ DiscoveryNext \/ MemberNext

GroupsSpec == GroupsInit /\ [][GroupsNext]_groupsVars

-----------------------------------------------------------------------------
(* Properties *)

(* Types; the chain's counts; and a group is listed once, unless two       *)
(* discoveries, or a discovery and a creation, overlapped: each of them    *)
(* adds what it did not find stored.                                       *)
GroupsTypeOK ==
    /\ account \in Accounts \cup {NoAccount}
    /\ stored \in Seq(Uuids) /\ groups \in Seq(Uuids)
    /\ \A r \in Runs :
           /\ run[r].at \in {"idle", "reading", "merging"}
           /\ run[r].added \cup run[r].removed \subseteq 0..Len(events)
           /\ run[r].active \cup run[r].known \cup run[r].steady \subseteq Uuids
           /\ run[r].aborted \/ run[r].at = "idle" \/ run[r].account = account
    /\ \A a \in Accounts, g \in Uuids :
           Count("added", a, g, OnChain) - Count("removed", a, g, OnChain) \in {0, 1}
    /\ ~overlapped => IsInjective(stored) /\ IsInjective(groups)

(* A group is listed, in the sidebar as in localStorage, exactly if the    *)
(* connected account is a member of it, once a discovery that had read     *)
(* every event about the two has written the list: whatever it did not     *)
(* read of other groups, and whatever happened to them meanwhile.  This    *)
(* lasts until the next event about the two, or until a creation or        *)
(* a discovery that has read less changes the entry.  (A new group whose   *)
(* metadata is not found is left out.)                                     *)
DiscoveryIsRight ==
    \A g \in settled :
        /\ g \in Range(stored) <=> IsMember(account, g)
        /\ g \in Range(groups) <=> g \in Range(stored)
=============================================================================
