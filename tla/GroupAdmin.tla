------------------------------- MODULE GroupAdmin -------------------------------
(***************************************************************************)
(* Administering a group from the chat application.  The panel of the      *)
(* selected group (AdminPanel.tsx) has the members last read from a        *)
(* fullnode, and the rights the usePermissions hook last read, which       *)
(* decide what it offers.  A change is signed by the wallet, executed or   *)
(* refused by the contract, waited for until the fullnode has indexed it,  *)
(* and followed by a new reading of members and rights.  Several changes   *)
(* may be under way when another group is selected; the panel and the hook *)
(* are not mounted anew.                                                   *)
(*                                                                         *)
(* The other users have the same panel; of theirs only the transactions    *)
(* are kept, sent at any moment.  Permissions are those of the Groups SDK  *)
(* contract.  Changing the name or the key changes neither members nor     *)
(* rights and is left out here; see GroupKeys for keys.  There is one      *)
(* fullnode, and it never goes back.                                       *)
(***************************************************************************)
EXTENDS Integers

CONSTANTS
    Users,
    Me,          \* whose panel it is
    Groups,
    Messaging,   \* the permissions of the messaging package
    Rotator,     \* EncryptionKeyRotator, one of them
    MaxChanges,  \* bound: transactions executed, in all groups
    MaxVisits,   \* bound: groups selected and panels opened
    Slots        \* what the panel may have under way at a time

ASSUME AdminAssumption ==
    /\ MaxChanges \in Nat /\ MaxVisits \in Nat
    /\ Me \in Users /\ Rotator \in Messaging /\ "admin" \notin Messaging

VARIABLES
    chain,      \* each group's permissions, pause and number of changes
    node,       \* the same as the fullnode has indexed it
    changes,    \* transactions executed so far
    selected,   \* the selected group
    members,    \* the panel's members, as they were read
    listing,    \* loadingMembers: the list is hidden
    rights,     \* the permissions hook's answer, as it was read
    check,      \* the hook's reading that is not cancelled
    removing,   \* removingMember
    toggling,   \* togglingPerm
    tasks,      \* handlers and effects of the panel between their awaits
    visits,
    disturbed,  \* history: readings of members have overlapped or failed
    own         \* history: the latest change to each group seen through

chainVars == <<chain, node, changes>>
panelVars == <<selected, members, listing, removing, toggling, visits, disturbed>>
hookVars == <<rights, check>>
vars == <<chainVars, panelVars, hookVars, tasks, own>>

-----------------------------------------------------------------------------

Admin == "admin"
Permissions == Messaging \cup {Admin}
NoOne == "none"
NoToggle == <<>>

(* A member is an address with a permission. *)
MembersOf(perms) == {u \in Users : perms[u] # {}}

Idle == [at |-> "idle", kind |-> "none", group |-> NoOne, member |-> NoOne,
         perms |-> {}, ver |-> 0, got |-> <<>>]

InFlight == {s \in Slots : tasks[s].at # "idle"}

Has(kinds) == \E s \in InFlight : tasks[s].kind \in kinds

Read(group, ver, perms) == [group |-> group, ver |-> ver, perms |-> perms]

(* DEFAULT_PERMISSIONS: what the hook starts with, and falls back to. *)
NoRights == Read(NoOne, 0, {})

(* The hook's calls, one for each permission, are taken as one reading. *)
NoCheck == [at |-> "idle", got |-> <<>>]
NewCheck == [at |-> "asking", got |-> <<>>]
Checking == check.at # "idle"

-----------------------------------------------------------------------------
(* Selecting a group and opening its panel *)

(* A handler or an effect starts. *)
Start(task) ==
    \E s \in Slots \ InFlight :
        tasks' = [tasks EXCEPT ![s] = task]

Listing(g) == [Idle EXCEPT !.at = "listing", !.kind = "show", !.group = g]

(* The effects of the panel and, for another group, of the hook: its       *)
(* cleanup cancels the check under way.  What was read of the group before *)
(* stays until the new answers.                                            *)
Visit(g) ==
    /\ visits < MaxVisits
    /\ visits' = visits + 1
    /\ selected' = g
    /\ check' = IF g = selected THEN check ELSE NewCheck
    /\ Start(Listing(g))
    /\ listing' = TRUE
    /\ disturbed' = (InFlight # {})
    /\ UNCHANGED <<chainVars, members, rights, removing, toggling, own>>

-----------------------------------------------------------------------------
(* What the panel offers *)

Change(kind, m, perms) ==
    Start([Idle EXCEPT !.at = "signing", !.kind = kind, !.group = selected,
                       !.member = m, !.perms = perms])

OffersAdmin == Admin \in rights.perms

(* MemberList and MemberItem: a member of the list other than the user.    *)
(* Mutant: oneself too.                                                    *)
OffersAnyone(m) ==
    OffersAdmin /\ ~listing /\ m \in MembersOf(members.perms)

Offers(m) ==
    /\ OffersAdmin /\ ~listing
    /\ m \in MembersOf(members.perms) \ {Me}

AddMember(m, perms) ==
    /\ OffersAdmin /\ ~Has({"add"})
    /\ Change("add", m, perms)
    /\ UNCHANGED <<chainVars, panelVars, hookVars, own>>

(* handleRemoveMember and handleRemoveAndRotate share removingMember: the  *)
(* button of another member stays enabled, and its removal takes the mark. *)
RemoveMember(m, kind) ==
    /\ Offers(m) /\ removing # m
    /\ removing' = m
    /\ Change(kind, m, {})
    /\ UNCHANGED <<chainVars, selected, members, listing, toggling, visits, disturbed,
                   hookVars, own>>

(* What the badge shows decides between granting and revoking. *)
TogglePermission(m, p) ==
    /\ Offers(m) /\ toggling # <<m, p>>
    /\ toggling' = <<m, p>>
    /\ Change(IF p \in members.perms[m] THEN "revoke" ELSE "grant", m, {p})
    /\ UNCHANGED <<chainVars, selected, members, listing, removing, visits, disturbed,
                   hookVars, own>>

Archive ==
    /\ OffersAdmin /\ ~Has({"archive"})
    /\ Change("archive", Me, {})
    /\ UNCHANGED <<chainVars, panelVars, hookVars, own>>

-----------------------------------------------------------------------------
(* The contract *)

Proposal(kind, g, m, perms) ==
    [Idle EXCEPT !.kind = kind, !.group = g, !.member = m, !.perms = perms]

(* Admins, and for removing with a rotation those who may rotate too.      *)
Allowed(u, t) ==
    LET held == chain[t.group].perms
    IN  /\ ~chain[t.group].paused
        /\ Admin \in held[u]
        /\ t.kind = "removeRotate" => Rotator \in held[u]
        /\ t.kind \in {"remove", "removeRotate"} => held[t.member] # {}
        /\ t.kind = "revoke" => t.perms \subseteq held[t.member]

(* Revoking the last permission removes the member. *)
Held(t, perms) ==
    CASE t.kind \in {"add", "grant"} -> perms \cup t.perms
      [] t.kind = "revoke"  -> perms \ t.perms
      [] t.kind = "archive" -> perms
      [] OTHER -> {}

After(t, g) ==
    [ver |-> g.ver + 1,
     perms |-> [g.perms EXCEPT ![t.member] = Held(t, g.perms[t.member])],
     paused |-> t.kind = "archive"]

Apply(t) ==
    /\ changes < MaxChanges
    /\ changes' = changes + 1
    /\ chain' = [chain EXCEPT ![t.group] = After(t, chain[t.group])]

(* The wallet signs, and the transaction succeeds. *)
Execute(s) ==
    /\ tasks[s].at = "signing"
    /\ Allowed(Me, tasks[s])
    /\ Apply(tasks[s])
    /\ tasks' = [tasks EXCEPT ![s].at = "waiting",
                             ![s].ver = chain[tasks[s].group].ver + 1]
    /\ UNCHANGED <<node, panelVars, hookVars, own>>

(* Another user's panel: whatever it shows, it does not offer removing or  *)
(* changing that user.                                                     *)
OthersChange(u, t) ==
    /\ u # Me /\ t.member # u
    /\ Allowed(u, t)
    /\ Apply(t)
    /\ UNCHANGED <<node, panelVars, hookVars, tasks, own>>

(* A member leaves, from any client; an administrator may not. *)
MayLeave(u, g) == chain[g].perms[u] # {} /\ Admin \notin chain[g].perms[u]

Leave(u, g) ==
    /\ MayLeave(u, g) /\ ~chain[g].paused
    /\ Apply(Proposal("remove", g, u, {}))
    /\ UNCHANGED <<node, panelVars, hookVars, tasks, own>>

Index(g) ==
    /\ node[g] # chain[g]
    /\ node' = [node EXCEPT ![g] = chain[g]]
    /\ UNCHANGED <<chain, changes, panelVars, hookVars, tasks, own>>

-----------------------------------------------------------------------------
(* The rest of a change *)

(* The finally blocks: a mark is cleared whoever set it last.  Mutant: it  *)
(* is cleared only when the change succeeded.                              *)
EndUnlessFailed(s) ==
    /\ tasks' = [tasks EXCEPT ![s] = Idle]
    /\ removing' = IF tasks[s].kind \in {"remove", "removeRotate"}
                      /\ tasks[s].at = "listed" THEN NoOne ELSE removing
    /\ toggling' = IF tasks[s].kind \in {"grant", "revoke"}
                      /\ tasks[s].at = "listed" THEN NoToggle ELSE toggling

End(s) ==
    /\ tasks' = [tasks EXCEPT ![s] = Idle]
    /\ removing' = IF tasks[s].kind \in {"remove", "removeRotate"}
                   THEN NoOne ELSE removing
    /\ toggling' = IF tasks[s].kind \in {"grant", "revoke"}
                   THEN NoToggle ELSE toggling

(* Refused by the wallet or the contract, or executed and not seen through *)
(* because waiting failed: an error is shown and nothing is read.          *)
Fail(s) ==
    /\ tasks[s].at \in {"signing", "waiting"}
    /\ End(s)
    /\ UNCHANGED <<chainVars, selected, members, listing, visits, disturbed,
                   hookVars, own>>

(* waitForTransaction.  Mutant: executed is enough. *)
NeverWaits(t) == TRUE

IsIndexed(t) == node[t.group].ver >= t.ver

EndWaiting(s) ==
    LET t == tasks[s]
    IN  /\ t.at = "waiting" /\ IsIndexed(t)
        /\ IF t.kind = "archive"
           THEN /\ End(s)
                /\ UNCHANGED <<listing, disturbed, own>>
           ELSE /\ tasks' = [tasks EXCEPT ![s].at = "listing"]
                /\ listing' = TRUE
                /\ disturbed' = (InFlight # {s} \/ t.group # selected)
                /\ own' = [own EXCEPT ![t.group] = IF @ > t.ver THEN @ ELSE t.ver]
                /\ UNCHANGED <<removing, toggling>>
        /\ UNCHANGED <<chainVars, selected, members, visits, hookVars>>

(* getMembers, of the group the handler was created with. *)
ListMembers(s) ==
    LET t == tasks[s]
    IN  /\ t.at = "listing"
        /\ tasks' = [tasks EXCEPT ![s].at = "listed",
                         ![s].got = Read(t.group, node[t.group].ver, node[t.group].perms)]
        /\ UNCHANGED <<chainVars, panelVars, hookVars, own>>

(* fetchMembers never throws: a change is followed by refresh, of the      *)
(* group selected by then.                                                 *)
Refreshed(s) ==
    IF tasks[s].kind = "show" THEN check ELSE NewCheck

ShowMembers(s) ==
    /\ tasks[s].at = "listed"
    /\ members' = tasks[s].got
    /\ listing' = FALSE
    /\ check' = Refreshed(s)
    /\ End(s)
    /\ UNCHANGED <<chainVars, selected, visits, disturbed, rights, own>>

ListingFails(s) ==
    /\ tasks[s].at = "listing"
    /\ listing' = FALSE
    /\ disturbed' = TRUE
    /\ check' = Refreshed(s)
    /\ End(s)
    /\ UNCHANGED <<chainVars, selected, members, visits, rights, own>>

-----------------------------------------------------------------------------
(* The permissions hook *)

AskPermissions ==
    /\ check.at = "asking"
    /\ check' = [at |-> "answered",
                 got |-> Read(selected, node[selected].ver, node[selected].perms[Me])]
    /\ UNCHANGED <<chainVars, panelVars, rights, tasks, own>>

EndCheck ==
    /\ check.at = "answered"
    /\ rights' = check.got
    /\ check' = NoCheck
    /\ UNCHANGED <<chainVars, panelVars, tasks, own>>

CheckFails ==
    /\ check.at = "asking"
    /\ rights' = NoRights
    /\ check' = NoCheck
    /\ UNCHANGED <<chainVars, panelVars, tasks, own>>

-----------------------------------------------------------------------------

(* A group has been selected and its panel opened.                         *)
(* The user is a member; administrators are the creator and whom it made   *)
(* one elsewhere, the panel not offering that.                             *)
Init ==
    /\ chain \in [Groups -> {c \in [ver : {0}, perms : [Users -> {Messaging, Permissions}],
                                     paused : {FALSE}] :
                               /\ c.perms[Me] # {}
                               /\ \E u \in Users : Admin \in c.perms[u]}]
    /\ node = chain
    /\ changes = 0
    /\ selected \in Groups
    /\ members = Read(selected, 0, [m \in Users |-> {}])
    /\ listing = TRUE
    /\ rights = NoRights
    /\ check = NewCheck
    /\ removing = NoOne
    /\ toggling = NoToggle
    /\ \E s \in Slots : tasks = [[r \in Slots |-> Idle] EXCEPT ![s] = Listing(selected)]
    /\ visits = 0
    /\ disturbed = FALSE
    /\ own = [g \in Groups |-> 0]

(* What the others change: enough to take and to give back. *)
Proposals ==
    {Proposal("remove", g, m, {}) : g \in Groups, m \in Users}
    \cup {Proposal("grant", g, m, Messaging) : g \in Groups, m \in Users}

ChainNext ==
    \/ \E g \in Groups : Index(g) \/ \E u \in Users : Leave(u, g)
    \/ \E u \in Users, t \in Proposals : OthersChange(u, t)

ClickNext ==
    \/ \E g \in Groups : Visit(g)
    \/ \E m \in Users :
           \/ \E perms \in SUBSET Messaging \ {{}} : AddMember(m, perms)
           \/ \E kind \in {"remove", "removeRotate"} : RemoveMember(m, kind)
           \/ \E p \in Messaging : TogglePermission(m, p)
    \/ Archive

TaskNext(s) ==
    \/ Execute(s) \/ Fail(s) \/ EndWaiting(s)
    \/ ListMembers(s) \/ ShowMembers(s) \/ ListingFails(s)

HookNext == AskPermissions \/ EndCheck \/ CheckFails

Next == ChainNext \/ ClickNext \/ HookNext \/ \E s \in Slots : TaskNext(s)

Spec == Init /\ [][Next]_vars

-----------------------------------------------------------------------------
(* Properties *)

State == [ver : 0..MaxChanges, perms : [Users -> SUBSET Permissions], paused : BOOLEAN]

(* Types; the fullnode never runs ahead of the chain, and no mark stays    *)
(* when nothing is under way.                                              *)
TypeOK ==
    /\ chain \in [Groups -> State] /\ node \in [Groups -> State]
    /\ \A g \in Groups : node[g].ver <= chain[g].ver
    /\ changes \in 0..MaxChanges
    /\ selected \in Groups
    /\ check.at \in {"idle", "asking", "answered"}
    /\ rights.perms \subseteq Permissions
    /\ \A s \in InFlight : tasks[s].at \in {"signing", "waiting", "listing", "listed"}
    /\ InFlight = {} => ~listing /\ removing = NoOne /\ toggling = NoToggle

(* A group always keeps a human administrator, although administrators     *)
(* remove each other from panels that show what was read a while ago: the  *)
(* panel lets nobody remove oneself, the contract lets no administrator    *)
(* leave, and whoever removes the last other one is one at that moment.    *)
(* All changes are made from panels: a transaction of another client in    *)
(* which an administrator removes itself (messaging.move says the contract *)
(* takes it) is outside.                                                   *)
AdminRemains == \A g \in Groups : \E u \in Users : Admin \in chain[g].perms[u]

(* A user sees the effect of its own changes.  When none is under way the  *)
(* rights that decide what the panel offers were read of the group shown,  *)
(* after the latest change the user made to it and saw through, whose      *)
(* transaction was waited for; or reading them failed and there are none.  *)
(* And so was the list of members, unless readings of it overlapped or     *)
(* failed.                                                                 *)
OwnChangesShown ==
    LET IsRecent(read) == read.group = selected /\ read.ver >= own[selected]
    IN  InFlight = {} =>
            /\ ~Checking => IsRecent(rights) \/ rights = NoRights
            /\ ~disturbed => IsRecent(members)
=============================================================================
