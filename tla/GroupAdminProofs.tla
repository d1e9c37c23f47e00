---------------------------- MODULE GroupAdminProofs ----------------------------
(***************************************************************************)
(* Proofs about GroupAdmin: a group always keeps an administrator, for any *)
(* number of users, groups, permissions and changes under way.  The panel  *)
(* acts on what it read long ago, so nothing it shows can be relied on;    *)
(* what is relied on is TasksSafe, what the panel never asks for, and that *)
(* the contract looks at the caller's own permissions at that moment.      *)
(***************************************************************************)
EXTENDS GroupAdmin, TLAPS

HeldType == [Users -> SUBSET Permissions]

ChainType ==
    chain \in [Groups -> [ver: Nat, perms: HeldType, paused: BOOLEAN]]

Fields == {"at", "kind", "group", "member", "perms", "ver", "got"}
IsTask(t) == DOMAIN t = Fields

(* No change of the panel is about the user's own permissions, except one  *)
(* that adds some, and none of them takes the administrator's permission   *)
(* one by one.                                                             *)
TaskSafe(t) ==
    /\ IsTask(t)
    /\ t.group \in Groups
    /\ t.kind \notin {"add", "archive", "show"} => t.member # Me
    /\ t.kind \in {"add", "grant", "revoke"} => t.perms \subseteq Permissions
    /\ t.kind = "show" => t.at # "signing"

TasksSafe ==
    /\ tasks = [s \in Slots |-> tasks[s]]
    /\ \A s \in Slots : s \in InFlight => TaskSafe(tasks[s])

(* The fullnode follows the chain, and no change was seen through that the *)
(* fullnode had not indexed.                                               *)
NodeFollows ==
    /\ node \in [Groups -> [ver: Nat, perms: HeldType, paused: BOOLEAN]]
    /\ changes \in 0..MaxChanges
    /\ own \in [Groups -> Nat]
    /\ \A g \in Groups : own[g] <= node[g].ver /\ node[g].ver <= chain[g].ver
    /\ \A g \in Groups : chain[g].ver <= changes

Stages == {"signing", "waiting", "listing", "listed"}
Reading(s) == tasks[s].at \in {"listing", "listed"}
Removals == {"remove", "removeRotate"}
Toggles == {"grant", "revoke"}

TasksStaged ==
    \A s \in InFlight :
        /\ tasks[s].at \in Stages
        /\ tasks[s].kind = "show" => Reading(s)
        /\ tasks[s].at = "waiting" => tasks[s].ver \in Nat

(* A mark is set only while a task is under way that clears it. *)
MarksOwned ==
    /\ listing => \E s \in Slots : Reading(s)
    /\ removing # NoOne => \E s \in InFlight : tasks[s].kind \in Removals
    /\ toggling # NoToggle => \E s \in InFlight : tasks[s].kind \in Toggles

HookType ==
    /\ check.at \in {"idle", "asking", "answered"}
    /\ check.at = "answered" => check.got.perms \subseteq Permissions
    /\ rights.perms \subseteq Permissions

Recent(read) == read.group = selected /\ read.ver >= own[selected]

(* Unless a change is under way that will end with a new check, the rights *)
(* or the answer that replaces them are recent, or there are none.         *)
WillRefresh == \E s \in Slots : Reading(s) /\ tasks[s].kind # "show"

RightsFresh ==
    ~WillRefresh =>
        /\ check.at = "idle" => Recent(rights) \/ rights = NoRights
        /\ check.at = "answered" => Recent(check.got)

(* Unless readings overlapped or failed, the only one under way is of the  *)
(* group shown and will be recent; with none under way the list is.        *)
MembersFresh ==
    ~disturbed =>
        /\ (\A s \in Slots : ~Reading(s)) => Recent(members)
        /\ \A s \in Slots : Reading(s) =>
               /\ tasks[s].group = selected
               /\ tasks[s].at = "listed" => Recent(tasks[s].got)
               /\ \A r \in Slots : Reading(r) => r = s

AdminInv ==
    /\ ChainType
    /\ selected \in Groups
    /\ TasksSafe
    /\ AdminRemains

ShownInv ==
    /\ AdminInv
    /\ NodeFollows
    /\ TasksStaged
    /\ MarksOwned
    /\ HookType
    /\ RightsFresh
    /\ MembersFresh

-----------------------------------------------------------------------------
(* The contract *)

(* A change leaves every other user and every other group alone. *)
LEMMA ApplyShape ==
  ASSUME ChainType, NEW t, t.group \in Groups, Apply(t),
         \A held \in SUBSET Permissions : Held(t, held) \in SUBSET Permissions
  PROVE  /\ ChainType'
         /\ \A g \in Groups, u \in Users :
                g # t.group \/ u # t.member
                    => chain'[g].perms[u] = chain[g].perms[u]
         /\ t.member \in Users =>
                chain'[t.group].perms[t.member]
                    = Held(t, chain[t.group].perms[t.member])
<1> DEFINE c == chain[t.group]
           new == After(t, c)
<1>1. /\ c.ver \in Nat /\ c.perms \in HeldType
  BY DEF ChainType
<1>2. chain' = [chain EXCEPT ![t.group] = new]
  BY Zenon DEF Apply
<1> HIDE DEF c
<1>3. /\ new.perms \in HeldType
      /\ \A u \in Users : u # t.member => new.perms[u] = c.perms[u]
      /\ t.member \in Users => new.perms[t.member] = Held(t, c.perms[t.member])
  BY <1>1 DEF HeldType, After
<1>4. new \in [ver: Nat, perms: HeldType, paused: BOOLEAN]
  <2>1. new.perms \in HeldType
    BY <1>3
  <2>2. /\ c.ver + 1 \in Nat
        /\ (t.kind = "archive") \in BOOLEAN
    BY <1>1
  <2>3. \A a \in Nat, b \in HeldType, p \in BOOLEAN :
            [ver |-> a, perms |-> b, paused |-> p]
                \in [ver: Nat, perms: HeldType, paused: BOOLEAN]
    OBVIOUS
  <2>4. new = [ver |-> c.ver + 1, perms |-> new.perms, paused |-> t.kind = "archive"]
    BY Zenon DEF After
  <2> HIDE DEF new
  <2>5. QED
    BY <2>1, <2>2, <2>3, <2>4, Zenon
<1> HIDE DEF new
<1>5. /\ chain'[t.group] = new
      /\ \A g \in Groups : g # t.group => chain'[g] = chain[g]
      /\ ChainType'
  BY <1>2, <1>4 DEF ChainType
<1> USE DEF c
<1>6. QED
  BY <1>3, <1>4, <1>5

(* Whoever makes a change of somebody else stays an administrator. *)
LEMMA CallerRemains ==
  ASSUME ChainType, AdminRemains, NEW u \in Users, NEW t, t.group \in Groups,
         Apply(t), Admin \in chain[t.group].perms[u],
         \A held \in SUBSET Permissions : Held(t, held) \in SUBSET Permissions,
         t.member = u => \A held : Held(t, held) \in {held, held \cup t.perms}
  PROVE  ChainType' /\ AdminRemains'
<1>1. /\ ChainType'
      /\ \A g \in Groups, v \in Users :
             g # t.group \/ v # t.member
                 => chain'[g].perms[v] = chain[g].perms[v]
      /\ t.member \in Users =>
             chain'[t.group].perms[t.member]
                 = Held(t, chain[t.group].perms[t.member])
  BY ApplyShape
<1>2. Admin \in chain'[t.group].perms[u]
  <2>1. CASE t.member = u
    <3>1. chain'[t.group].perms[u] = Held(t, chain[t.group].perms[u])
      BY <1>1, <2>1
    <3>2. Held(t, chain[t.group].perms[u])
              \in {chain[t.group].perms[u], chain[t.group].perms[u] \cup t.perms}
      BY <2>1
    <3>3. QED
      BY <3>1, <3>2
  <2>2. CASE t.member # u
    BY <1>1, <2>2
  <2>3. QED
    BY <2>1, <2>2
<1>3. ASSUME NEW g \in Groups
      PROVE  \E v \in Users : Admin \in chain'[g].perms[v]
  <2>1. PICK v \in Users : Admin \in chain[g].perms[v]
    BY DEF AdminRemains
  <2>2. QED
    BY <1>1, <1>2, <2>1
<1>4. QED
  BY <1>1, <1>3 DEF AdminRemains

LEMMA HeldStays ==
  ASSUME NEW t, t.kind \in {"add", "grant", "revoke"}
                    => t.perms \subseteq Permissions
  PROVE  /\ \A held \in SUBSET Permissions : Held(t, held) \in SUBSET Permissions
         /\ t.kind \in {"add", "archive", "grant"} =>
                \A held : Held(t, held) \in {held, held \cup t.perms}
  BY DEF Held

-----------------------------------------------------------------------------
(* The steps *)

LEMMA InitAdmin == Init => AdminInv
<1> SUFFICES ASSUME Init
             PROVE  AdminInv
  OBVIOUS
<1>1. PICK r \in Slots :
          tasks = [[s \in Slots |-> Idle] EXCEPT ![r] = Listing(selected)]
  BY DEF Init
<1>2. /\ Listing(selected).at = "listing" /\ Listing(selected).kind = "show"
      /\ Listing(selected).group = selected /\ IsTask(Listing(selected))
      /\ Idle.at = "idle"
  BY DEF Listing, Idle, IsTask, Fields
<1>3. /\ tasks = [s \in Slots |-> tasks[s]]
      /\ \A s \in Slots : tasks[s] = Idle \/ tasks[s] = Listing(selected)
  BY <1>1
<1>4. TasksSafe
  BY <1>2, <1>3 DEF TasksSafe, TaskSafe, InFlight, Init
<1>5. ChainType /\ AdminRemains
  <2> DEFINE start == {c \in [ver : {0},
                              perms : [Users -> {Messaging, Permissions}],
                              paused : {FALSE}] :
                          \E u \in Users : Admin \in c.perms[u]}
  <2>1. chain \in [Groups -> start]
    BY Zenon DEF Init
  <2>3. Messaging \in SUBSET Permissions /\ Permissions \in SUBSET Permissions
    BY DEF Permissions
  <2>4. [Users -> {Messaging, Permissions}] \subseteq HeldType
    BY <2>3 DEF HeldType
  <2>5. ASSUME NEW c \in start
        PROVE  /\ c \in [ver: Nat, perms: HeldType, paused: BOOLEAN]
               /\ \E u \in Users : Admin \in c.perms[u]
    <3>1. /\ c \in [ver : {0}, perms : [Users -> {Messaging, Permissions}],
                    paused : {FALSE}]
          /\ \E u \in Users : Admin \in c.perms[u]
      OBVIOUS
    <3>2. c = [ver |-> c.ver, perms |-> c.perms, paused |-> c.paused]
          /\ c.ver \in {0} /\ c.perms \in [Users -> {Messaging, Permissions}]
          /\ c.paused \in {FALSE}
      BY <3>1
    <3>3. c.ver \in Nat /\ c.perms \in HeldType
      BY <2>4, <3>2
    <3>5. c.paused \in BOOLEAN
      BY <3>2, Zenon
    <3>4. QED
      BY <3>1, <3>2, <3>3, <3>5
  <2> HIDE DEF start
  <2>6. QED
    BY <2>1, <2>5 DEF ChainType, AdminRemains
<1>6. QED
  BY <1>4, <1>5 DEF AdminInv, Init

(* A handler or an effect starts in a free slot, goes on or ends. *)
LEMMA StartSafe ==
  ASSUME TasksSafe, NEW t, TaskSafe(t), Start(t)
  PROVE  TasksSafe'
<1>1. PICK r \in Slots : tasks' = [tasks EXCEPT ![r] = t]
  BY DEF Start
<1>2. /\ tasks' = [s \in Slots |-> tasks'[s]]
      /\ \A s \in Slots : tasks'[s] = IF s = r THEN t ELSE tasks[s]
  BY <1>1 DEF TasksSafe
<1>3. QED
  BY <1>2 DEF TasksSafe, TaskSafe, InFlight

LEMMA GoOnSafe ==
  ASSUME TasksSafe, NEW r \in InFlight, NEW t,
         t.group = tasks[r].group, t.kind = tasks[r].kind,
         t.member = tasks[r].member, t.perms = tasks[r].perms,
         t.at # "signing", IsTask(t),
         tasks' = [tasks EXCEPT ![r] = t]
  PROVE  TasksSafe'
<1>1. /\ r \in Slots
      /\ tasks' = [s \in Slots |-> tasks'[s]]
      /\ \A s \in Slots : tasks'[s] = IF s = r THEN t ELSE tasks[s]
  BY DEF TasksSafe, InFlight
<1>2. QED
  BY <1>1 DEF TasksSafe, TaskSafe, InFlight

LEMMA EndSafe ==
  ASSUME TasksSafe, NEW r \in Slots, tasks' = [tasks EXCEPT ![r] = Idle]
  PROVE  TasksSafe'
<1>1. /\ tasks' = [s \in Slots |-> tasks'[s]]
      /\ \A s \in Slots : tasks'[s] = IF s = r THEN Idle ELSE tasks[s]
  BY DEF TasksSafe
<1>2. Idle.at = "idle"
  BY DEF Idle
<1>3. QED
  BY <1>1, <1>2 DEF TasksSafe, TaskSafe, InFlight

(* What the panel starts is about somebody else, or takes nothing. *)
LEMMA ClickSafe ==
  ASSUME AdminInv, ClickNext
  PROVE  AdminInv'
<1>1. UNCHANGED chain
  BY DEF ClickNext, Visit, AddMember, RemoveMember, TogglePermission, Archive,
         chainVars
<1>2. selected' \in Groups
  BY DEF ClickNext, Visit, AddMember, RemoveMember, TogglePermission, Archive,
         panelVars, AdminInv
<1>3. ASSUME NEW kind \in {"add", "archive", "remove", "removeRotate", "grant", "revoke"},
             NEW m, NEW perms, Change(kind, m, perms),
             kind \notin {"add", "archive"} => m # Me,
             perms \subseteq Permissions
      PROVE  TasksSafe'
  <2> DEFINE t == [Idle EXCEPT !.at = "signing", !.kind = kind, !.group = selected,
                               !.member = m, !.perms = perms]
  <2>1. /\ t.kind = kind /\ t.group = selected /\ t.member = m
        /\ t.perms = perms /\ IsTask(t)
    BY DEF Idle, IsTask, Fields
  <2>2. Start(t)
    BY Zenon, <1>3 DEF Change
  <2> HIDE DEF t
  <2>3. TaskSafe(t)
    BY <1>3, <2>1 DEF TaskSafe, AdminInv
  <2>4. QED
    BY <2>2, <2>3, StartSafe DEF AdminInv
<1>4. TasksSafe'
  <2>1. ASSUME NEW g \in Groups, Visit(g)
        PROVE  TasksSafe'
    <3>1. /\ Listing(g).at = "listing" /\ Listing(g).kind = "show"
          /\ Listing(g).group = g /\ IsTask(Listing(g))
      BY DEF Listing, Idle, IsTask, Fields
    <3>2. TaskSafe(Listing(g))
      BY <3>1 DEF TaskSafe
    <3>3. QED
      BY <2>1, <3>2, StartSafe DEF Visit, AdminInv
  <2>2. ASSUME NEW m \in Users, NEW perms \in SUBSET Messaging \ {{}},
               AddMember(m, perms)
        PROVE  TasksSafe'
    BY <2>2, <1>3 DEF AddMember, Permissions
  <2>3. ASSUME NEW m \in Users, NEW kind \in {"remove", "removeRotate"},
               RemoveMember(m, kind)
        PROVE  TasksSafe'
    BY <2>3, <1>3 DEF RemoveMember, Offers
  <2>4. ASSUME NEW m \in Users, NEW p \in Messaging, TogglePermission(m, p)
        PROVE  TasksSafe'
    <3>1. PICK kind \in {"grant", "revoke"} : Change(kind, m, {p})
      BY <2>4 DEF TogglePermission
    <3>2. m # Me /\ {p} \subseteq Permissions
      BY <2>4 DEF TogglePermission, Offers, Permissions
    <3>3. QED
      BY <3>1, <3>2, <1>3
  <2>5. ASSUME Archive
        PROVE  TasksSafe'
    BY <2>5, <1>3 DEF Archive
  <2>6. QED
    BY <2>1, <2>2, <2>3, <2>4, <2>5 DEF ClickNext
<1>5. QED
  BY <1>1, <1>2, <1>4 DEF AdminInv, ChainType, AdminRemains

(* The contract refuses Me unless Me is an administrator at that moment. *)
LEMMA ExecuteSafe ==
  ASSUME AdminInv, NEW s \in Slots, Execute(s)
  PROVE  AdminInv'
<1> DEFINE t == tasks[s]
<1>1. /\ t.at = "signing" /\ Admin \in chain[t.group].perms[Me] /\ Apply(t)
      /\ selected' = selected
  BY DEF Execute, Allowed, panelVars
<1>2. s \in InFlight /\ TaskSafe(t)
  BY <1>1 DEF AdminInv, TasksSafe, InFlight
<1>3. ChainType' /\ AdminRemains'
  <2>1. /\ t.group \in Groups /\ t.kind # "show"
        /\ t.kind \in {"add", "grant", "revoke"} => t.perms \subseteq Permissions
        /\ t.member = Me => t.kind \in {"add", "archive"}
    BY <1>1, <1>2 DEF TaskSafe
  <2>2. Me \in Users
    BY AdminAssumption
  <2> HIDE DEF t
  <2>3. /\ \A held \in SUBSET Permissions : Held(t, held) \in SUBSET Permissions
        /\ t.member = Me => \A held : Held(t, held) \in {held, held \cup t.perms}
    BY <2>1, HeldStays
  <2>4. QED
    BY <1>1, <2>1, <2>2, <2>3, CallerRemains DEF AdminInv
<1>4. TasksSafe'
  <2> DEFINE n == [t EXCEPT !.at = "waiting", !.ver = chain[t.group].ver + 1]
  <2>1. tasks' = [tasks EXCEPT ![s] = n]
    BY DEF Execute
  <2>2. /\ n.group = t.group /\ n.kind = t.kind /\ n.member = t.member
        /\ n.perms = t.perms /\ n.at = "waiting" /\ IsTask(n)
    BY <1>2 DEF TaskSafe, IsTask, Fields
  <2>3. QED
    BY <1>2, <2>1, <2>2, GoOnSafe DEF AdminInv
<1>5. QED
  BY <1>1, <1>3, <1>4 DEF AdminInv

LEMMA ProposalShape ==
  ASSUME NEW t \in Proposals
  PROVE  /\ t.group \in Groups /\ t.kind \in {"remove", "grant"}
         /\ t.perms \subseteq Permissions
<1>1. ASSUME NEW kind, NEW g, NEW m, NEW perms
      PROVE  /\ Proposal(kind, g, m, perms).kind = kind
             /\ Proposal(kind, g, m, perms).group = g
             /\ Proposal(kind, g, m, perms).perms = perms
  BY DEF Proposal, Idle
<1>2. PICK g \in Groups, m \in Users :
          t \in {Proposal("remove", g, m, {}), Proposal("grant", g, m, Messaging)}
  BY DEF Proposals
<1> QED
  BY <1>1, <1>2 DEF Permissions

(* The other users, likewise, and members that leave. *)
LEMMA ChainSafe ==
  ASSUME AdminInv, ChainNext
  PROVE  AdminInv'
<1>1. selected' = selected /\ tasks' = tasks
  BY DEF ChainNext, Index, Leave, OthersChange, panelVars
<1>2. TasksSafe'
  BY <1>1 DEF TasksSafe, InFlight, AdminInv
<1>3. ASSUME NEW g \in Groups, Index(g)
      PROVE  ChainType' /\ AdminRemains'
  BY <1>3 DEF Index, AdminInv, ChainType, AdminRemains
<1>4. ASSUME NEW u \in Users, NEW g \in Groups, Leave(u, g)
      PROVE  ChainType' /\ AdminRemains'
  <2> DEFINE t == Proposal("remove", g, u, {})
  <2>1. /\ t.kind = "remove" /\ t.group = g /\ t.member = u
    BY DEF Proposal, Idle
  <2>2. Apply(t) /\ Admin \notin chain[g].perms[u]
    BY <1>4 DEF Leave, MayLeave
  <2> HIDE DEF t
  <2>3. \A held \in SUBSET Permissions : Held(t, held) \in SUBSET Permissions
    BY <2>1, HeldStays
  <2>4. /\ ChainType'
        /\ \A h \in Groups, v \in Users :
               h # g \/ v # u => chain'[h].perms[v] = chain[h].perms[v]
    BY <2>1, <2>2, <2>3, ApplyShape DEF AdminInv
  <2>5. ASSUME NEW h \in Groups
        PROVE  \E v \in Users : Admin \in chain'[h].perms[v]
    <3>1. PICK v \in Users : Admin \in chain[h].perms[v]
      BY DEF AdminInv, AdminRemains
    <3>2. QED
      BY <2>2, <2>4, <3>1
  <2>6. QED
    BY <2>4, <2>5 DEF AdminRemains
<1>5. ASSUME NEW u \in Users, NEW t \in Proposals, OthersChange(u, t)
      PROVE  ChainType' /\ AdminRemains'
  <2>1. /\ t.group \in Groups /\ t.kind \in {"remove", "grant"}
        /\ t.perms \subseteq Permissions
    BY ProposalShape
  <2>2. /\ Apply(t) /\ Admin \in chain[t.group].perms[u] /\ t.member # u
    BY <1>5 DEF OthersChange, Allowed
  <2>3. \A held \in SUBSET Permissions : Held(t, held) \in SUBSET Permissions
    BY <2>1, HeldStays
  <2>4. QED
    BY <2>1, <2>2, <2>3, CallerRemains DEF AdminInv
<1>6. ChainType' /\ AdminRemains'
  BY <1>3, <1>4, <1>5 DEF ChainNext
<1>7. QED
  BY <1>1, <1>2, <1>6 DEF AdminInv

(* Nothing else the panel does touches the chain. *)
LEMMA TaskSafeStep ==
  ASSUME AdminInv, NEW s \in Slots, TaskNext(s)
  PROVE  AdminInv'
<1>1. CASE Execute(s)
  BY <1>1, ExecuteSafe
<1>2. CASE Fail(s) \/ EndWaiting(s) \/ ListMembers(s) \/ ShowMembers(s)
           \/ ListingFails(s)
  <2>1. UNCHANGED <<chain, selected>>
    BY <1>2 DEF Fail, EndWaiting, ListMembers, ShowMembers, ListingFails,
                chainVars, panelVars
  <2>2. TasksSafe'
    <3>1. CASE tasks' = [tasks EXCEPT ![s] = Idle]
      BY <3>1, EndSafe DEF AdminInv
    <3>2. CASE EndWaiting(s) /\ tasks[s].kind # "archive"
      <4> DEFINE n == [tasks[s] EXCEPT !.at = "listing"]
      <4>1. s \in InFlight /\ tasks' = [tasks EXCEPT ![s] = n]
        BY <3>2 DEF EndWaiting, InFlight
      <4>2. TaskSafe(tasks[s])
        BY <4>1 DEF AdminInv, TasksSafe, InFlight
      <4>3. /\ n.group = tasks[s].group /\ n.kind = tasks[s].kind /\ n.member = tasks[s].member
            /\ n.perms = tasks[s].perms /\ n.at = "listing" /\ IsTask(n)
        BY <4>2 DEF TaskSafe, IsTask, Fields
      <4>4. QED
        BY <4>1, <4>3, GoOnSafe DEF AdminInv
    <3>3. CASE ListMembers(s)
      <4> DEFINE t == tasks[s]
                 n == [t EXCEPT !.at = "listed",
                                !.got = Read(t.group, node[t.group].ver,
                                             node[t.group].perms)]
      <4>1. s \in InFlight /\ tasks' = [tasks EXCEPT ![s] = n]
        BY <3>3 DEF ListMembers, InFlight
      <4>2. TaskSafe(tasks[s])
        BY <4>1 DEF AdminInv, TasksSafe, InFlight
      <4>3. /\ n.group = t.group /\ n.kind = t.kind /\ n.member = t.member
            /\ n.perms = t.perms /\ n.at = "listed" /\ IsTask(n)
        BY <4>2 DEF TaskSafe, IsTask, Fields
      <4>4. QED
        BY <4>1, <4>3, GoOnSafe DEF AdminInv
    <3>4. QED
      BY <1>2, <3>1, <3>2, <3>3 DEF Fail, EndWaiting, ShowMembers, ListingFails, End
  <2>3. QED
    BY <2>1, <2>2 DEF AdminInv, ChainType, AdminRemains
<1>3. QED
  BY <1>1, <1>2 DEF TaskNext

LEMMA StepKeepsAdmin == AdminInv /\ [Next]_vars => AdminInv'
<1> SUFFICES ASSUME AdminInv, [Next]_vars
             PROVE  AdminInv'
  OBVIOUS
<1>1. CASE HookNext \/ UNCHANGED vars
  <2>1. UNCHANGED <<chain, selected, tasks>>
    BY <1>1 DEF HookNext, AskPermissions, EndCheck, CheckFails, vars, chainVars,
                panelVars
  <2>2. QED
    BY <2>1 DEF AdminInv, ChainType, AdminRemains, TasksSafe, InFlight
<1>2. QED
  BY <1>1, ChainSafe, ClickSafe, TaskSafeStep DEF Next

(* However stale the panels are from which administrators remove each      *)
(* other, change permissions or leave, a group keeps an administrator.     *)
THEOREM AdminAlwaysRemains == Spec => []AdminRemains
<1>1. AdminInv => AdminRemains
  BY DEF AdminInv
<1>2. QED
  BY InitAdmin, StepKeepsAdmin, <1>1, PTL DEF Spec

-----------------------------------------------------------------------------
(* What the user sees *)

(* A slot's task is replaced, those of the other slots stay. *)
LEMMA SlotChanges ==
  ASSUME TasksSafe, NEW r \in Slots, NEW t, tasks' = [tasks EXCEPT ![r] = t]
  PROVE  \A s \in Slots : tasks'[s] = IF s = r THEN t ELSE tasks[s]
  BY DEF TasksSafe

(* A change counts once, in its group. *)
LEMMA ApplyCounts ==
  ASSUME ChainType, NEW t, t.group \in Groups, Apply(t)
  PROVE  /\ changes < MaxChanges /\ changes' = changes + 1
         /\ chain'[t.group].ver = chain[t.group].ver + 1
         /\ \A g \in Groups : g # t.group => chain'[g] = chain[g]
<1>1. /\ chain' = [chain EXCEPT ![t.group] = After(t, chain[t.group])]
      /\ changes < MaxChanges /\ changes' = changes + 1
  BY Zenon DEF Apply
<1>2. After(t, chain[t.group]).ver = chain[t.group].ver + 1
  BY DEF After
<1> QED
  BY <1>1, <1>2 DEF ChainType

LEMMA ApplyFollows ==
  ASSUME AdminInv, NodeFollows, NEW t, t.group \in Groups, Apply(t),
         UNCHANGED <<node, own>>
  PROVE  NodeFollows'
<1>1. /\ changes < MaxChanges /\ changes' = changes + 1
      /\ chain'[t.group].ver = chain[t.group].ver + 1
      /\ \A g \in Groups : g # t.group => chain'[g] = chain[g]
  BY ApplyCounts DEF AdminInv
<1>2. /\ \A g \in Groups : chain[g].ver \in Nat /\ node[g].ver \in Nat
      /\ changes \in 0..MaxChanges /\ MaxChanges \in Nat
  BY AdminAssumption DEF AdminInv, ChainType, NodeFollows
<1>3. changes' \in 0..MaxChanges
  BY <1>1, <1>2
<1>4. \A g \in Groups : chain'[g].ver <= changes' /\ node[g].ver <= chain'[g].ver
  BY <1>1, <1>2 DEF NodeFollows
<1> QED
  BY <1>3, <1>4 DEF NodeFollows

LEMMA IndexFollows ==
  ASSUME AdminInv, NodeFollows, NEW h \in Groups, Index(h)
  PROVE  NodeFollows'
<1>1. /\ node' = [node EXCEPT ![h] = chain[h]]
      /\ UNCHANGED <<chain, changes, own>>
  BY DEF Index
<1>2. \A g \in Groups : node'[g] = IF g = h THEN chain[g] ELSE node[g]
  BY <1>1 DEF NodeFollows
<1>3. node' \in [Groups -> [ver: Nat, perms: HeldType, paused: BOOLEAN]]
  BY <1>1 DEF NodeFollows, AdminInv, ChainType
<1>4. \A g \in Groups :
          chain[g].ver \in Nat /\ node[g].ver \in Nat /\ own[g] \in Nat
  BY DEF NodeFollows, AdminInv, ChainType
<1>5. \A g \in Groups : own[g] <= node'[g].ver /\ node'[g].ver <= chain[g].ver
  BY <1>2, <1>4 DEF NodeFollows
<1> QED
  BY <1>1, <1>3, <1>5 DEF NodeFollows

LEMMA NodeStays ==
  ASSUME NodeFollows, UNCHANGED <<chainVars, own>>
  PROVE  NodeFollows'
  BY DEF NodeFollows, chainVars

(* What the fullnode answers is of some state of the group, and not older  *)
(* than the user's changes.                                                *)
LEMMA NodeAnswers ==
  ASSUME NodeFollows, NEW g \in Groups
  PROVE  /\ node[g].ver \in Nat /\ own[g] \in Nat /\ node[g].ver >= own[g]
         /\ node[g].perms[Me] \subseteq Permissions
<1>1. node[g].ver \in Nat /\ node[g].perms \in HeldType /\ own[g] \in Nat
  BY DEF NodeFollows
<1> QED
  BY <1>1, AdminAssumption DEF NodeFollows, HeldType

LEMMA InitShown == Init => ShownInv
<1> SUFFICES ASSUME Init
             PROVE  ShownInv
  OBVIOUS
<1>1. AdminInv
  BY InitAdmin
<1>2. PICK r \in Slots :
          tasks = [[s \in Slots |-> Idle] EXCEPT ![r] = Listing(selected)]
  BY DEF Init
<1>3. /\ Listing(selected).at = "listing" /\ Listing(selected).kind = "show"
      /\ Listing(selected).group = selected /\ Idle.at = "idle"
  BY DEF Listing, Idle
<1>4. \A s \in Slots : tasks[s] = IF s = r THEN Listing(selected) ELSE Idle
  BY <1>2
<1>5. /\ listing = TRUE /\ removing = NoOne /\ toggling = NoToggle
      /\ disturbed = FALSE /\ check = NewCheck /\ rights = NoRights
      /\ node = chain /\ changes = 0 /\ own = [g \in Groups |-> 0]
  BY DEF Init
<1>6. NodeFollows
  <2>1. \A g \in Groups : chain[g].ver = 0
    BY DEF Init
  <2> QED
    BY <1>1, <1>5, <2>1, AdminAssumption DEF NodeFollows, AdminInv, ChainType
<1>7. TasksStaged /\ MarksOwned
  BY <1>3, <1>4, <1>5 DEF TasksStaged, MarksOwned, Reading, Stages, InFlight
<1>8. HookType /\ RightsFresh
  BY <1>5 DEF HookType, RightsFresh, NewCheck, NoRights, Read
<1>9. MembersFresh
  BY <1>3, <1>4 DEF MembersFresh, Reading
<1> QED
  BY <1>1, <1>6, <1>7, <1>8, <1>9 DEF ShownInv

(* A click starts a change, which reads nothing yet, and sets no mark but  *)
(* its own.                                                                *)
LEMMA ChangeShown ==
  ASSUME ShownInv, NEW kind, NEW m, NEW perms, Change(kind, m, perms),
         kind # "show", UNCHANGED <<chainVars, hookVars, own>>,
         UNCHANGED <<selected, members, listing, disturbed>>,
         removing' = removing \/ kind \in Removals,
         toggling' = toggling \/ kind \in Toggles
  PROVE  /\ NodeFollows' /\ TasksStaged' /\ MarksOwned'
         /\ HookType' /\ RightsFresh' /\ MembersFresh'
<1> DEFINE t == [Idle EXCEPT !.at = "signing", !.kind = kind, !.group = selected,
                             !.member = m, !.perms = perms]
<1>1. t.at = "signing" /\ t.kind = kind
  BY DEF Idle
<1>2. PICK r \in Slots \ InFlight : tasks' = [tasks EXCEPT ![r] = t]
  BY Zenon DEF Change, Start
<1> HIDE DEF t
<1>3. \A s \in Slots : tasks'[s] = IF s = r THEN t ELSE tasks[s]
  BY <1>2, SlotChanges DEF ShownInv, AdminInv
<1>4. /\ tasks[r].at = "idle"
      /\ \A s \in Slots : Reading(s)' <=> Reading(s)
      /\ \A s \in Slots : Reading(s) => tasks'[s] = tasks[s]
      /\ InFlight' = InFlight \cup {r}
  BY <1>1, <1>2, <1>3 DEF InFlight, Reading
<1>5. NodeFollows'
  BY NodeStays DEF ShownInv
<1>6. TasksStaged'
  <2>1. ASSUME NEW s \in InFlight
        PROVE  /\ tasks'[s].at \in Stages
               /\ tasks'[s].kind = "show" => Reading(s)'
               /\ tasks'[s].at = "waiting" => tasks'[s].ver \in Nat
    <3>1. s \in Slots /\ tasks'[s] = tasks[s]
      BY <1>2, <1>3, <2>1 DEF InFlight
    <3> QED
      BY <1>4, <2>1, <3>1 DEF TasksStaged, ShownInv
  <2>2. tasks'[r].at \in Stages /\ tasks'[r].at # "waiting" /\ tasks'[r].kind # "show"
    BY <1>1, <1>3 DEF Stages
  <2> QED
    BY <1>4, <2>1, <2>2 DEF TasksStaged
<1>7. MarksOwned'
  <2>1. listing' => \E s \in Slots : Reading(s)'
    BY <1>4 DEF ShownInv, MarksOwned
  <2>2. \A s \in InFlight : s \in InFlight' /\ tasks'[s] = tasks[s]
    BY <1>2, <1>3, <1>4 DEF InFlight
  <2>3. r \in InFlight' /\ tasks'[r].kind = kind
    BY <1>1, <1>3, <1>4
  <2>4. removing' # NoOne => \E s \in InFlight' : tasks'[s].kind \in Removals
    BY <2>2, <2>3 DEF ShownInv, MarksOwned
  <2>5. toggling' # NoToggle => \E s \in InFlight' : tasks'[s].kind \in Toggles
    BY <2>2, <2>3 DEF ShownInv, MarksOwned
  <2> QED
    BY <2>1, <2>4, <2>5 DEF MarksOwned
<1>8. HookType'
  BY DEF HookType, hookVars, ShownInv
<1>9. WillRefresh' <=> WillRefresh
  BY <1>4 DEF WillRefresh
<1>10. RightsFresh'
  BY <1>9 DEF RightsFresh, Recent, hookVars, ShownInv
<1>11. MembersFresh'
  BY <1>4 DEF MembersFresh, Recent, ShownInv
<1> QED
  BY <1>5, <1>6, <1>7, <1>8, <1>10, <1>11

(* Selecting a group starts a reading of its members, and of its rights    *)
(* when it is another group.                                               *)
LEMMA VisitShown ==
  ASSUME ShownInv, NEW g \in Groups, Visit(g)
  PROVE  /\ NodeFollows' /\ TasksStaged' /\ MarksOwned'
         /\ HookType' /\ RightsFresh' /\ MembersFresh'
<1>1. /\ Listing(g).at = "listing" /\ Listing(g).kind = "show"
      /\ Listing(g).group = g
  BY DEF Listing, Idle
<1>2. /\ UNCHANGED <<chainVars, members, rights, removing, toggling, own>>
      /\ selected' = g /\ disturbed' = (InFlight # {})
      /\ check' = IF g = selected THEN check ELSE NewCheck
  BY DEF Visit
<1>3. PICK r \in Slots \ InFlight : tasks' = [tasks EXCEPT ![r] = Listing(g)]
  BY Zenon DEF Visit, Start
<1>4. \A s \in Slots : tasks'[s] = IF s = r THEN Listing(g) ELSE tasks[s]
  BY <1>3, SlotChanges DEF ShownInv, AdminInv
<1>5. /\ tasks[r].at = "idle" /\ Reading(r)'
      /\ \A s \in Slots : Reading(s) => Reading(s)' /\ tasks'[s] = tasks[s]
      /\ \A s \in InFlight : s \in InFlight' /\ tasks'[s] = tasks[s]
      /\ InFlight' = InFlight \cup {r}
  BY <1>1, <1>3, <1>4 DEF InFlight, Reading
<1>6. NodeFollows'
  BY <1>2, NodeStays DEF ShownInv
<1>7. TasksStaged'
  <2>1. ASSUME NEW s \in InFlight
        PROVE  /\ tasks'[s].at \in Stages
               /\ tasks'[s].kind = "show" => Reading(s)'
               /\ tasks'[s].at = "waiting" => tasks'[s].ver \in Nat
    BY <1>5, <2>1 DEF TasksStaged, ShownInv, InFlight
  <2>2. /\ tasks'[r].at \in Stages /\ tasks'[r].at # "waiting"
        /\ Reading(r)'
    BY <1>1, <1>4, <1>5 DEF Stages
  <2> QED
    BY <1>5, <2>1, <2>2 DEF TasksStaged
<1>8. MarksOwned'
  BY <1>2, <1>5 DEF MarksOwned, ShownInv
<1>9. HookType'
  BY <1>2 DEF HookType, NewCheck, ShownInv
<1>10. RightsFresh'
  <2>1. WillRefresh => WillRefresh'
    BY <1>5 DEF WillRefresh
  <2> QED
    BY <1>2, <2>1 DEF RightsFresh, Recent, NewCheck, ShownInv
<1>11. MembersFresh'
  <2> SUFFICES ASSUME InFlight = {}
               PROVE  MembersFresh'
    BY <1>2 DEF MembersFresh
  <2>1. \A s \in Slots : Reading(s)' => s = r
    BY <1>4 DEF Reading, InFlight
  <2>2. tasks'[r].at = "listing" /\ tasks'[r].group = selected'
    BY <1>1, <1>2, <1>4
  <2> QED
    BY <1>5, <2>1, <2>2 DEF MembersFresh
<1> QED
  BY <1>6, <1>7, <1>8, <1>9, <1>10, <1>11

LEMMA ClickShown ==
  ASSUME ShownInv, ClickNext
  PROVE  /\ NodeFollows' /\ TasksStaged' /\ MarksOwned'
         /\ HookType' /\ RightsFresh' /\ MembersFresh'
<1>1. ASSUME NEW m \in Users, NEW perms, AddMember(m, perms)
      PROVE  Change("add", m, perms) /\ UNCHANGED <<chainVars, panelVars, hookVars, own>>
  BY <1>1 DEF AddMember
<1>2. ASSUME NEW m \in Users, NEW kind \in Removals, RemoveMember(m, kind)
      PROVE  /\ Change(kind, m, {})
             /\ UNCHANGED <<chainVars, selected, members, listing, toggling,
                            disturbed, hookVars, own>>
  BY <1>2 DEF RemoveMember
<1>3. ASSUME NEW m \in Users, NEW p \in Messaging, TogglePermission(m, p)
      PROVE  /\ \E kind \in Toggles : Change(kind, m, {p})
             /\ UNCHANGED <<chainVars, selected, members, listing, removing,
                            disturbed, hookVars, own>>
  BY <1>3 DEF TogglePermission, Toggles
<1>4. ASSUME Archive
      PROVE  Change("archive", Me, {}) /\ UNCHANGED <<chainVars, panelVars, hookVars, own>>
  BY <1>4 DEF Archive
<1>5. "show" \notin Removals /\ "show" \notin Toggles
  BY DEF Removals, Toggles
<1>6. CASE \E g \in Groups : Visit(g)
  BY <1>6, VisitShown
<1>7. CASE \E m \in Users, perms \in SUBSET Messaging \ {{}} : AddMember(m, perms)
  BY <1>1, <1>7, ChangeShown DEF panelVars
<1>8. CASE \E m \in Users, kind \in {"remove", "removeRotate"} : RemoveMember(m, kind)
  BY <1>2, <1>5, <1>8, ChangeShown DEF Removals
<1>9. CASE \E m \in Users, p \in Messaging : TogglePermission(m, p)
  BY <1>3, <1>5, <1>9, ChangeShown
<1>10. CASE Archive
  BY <1>4, <1>10, ChangeShown DEF panelVars
<1> QED
  BY <1>6, <1>7, <1>8, <1>9, <1>10 DEF ClickNext

(* The contract and the fullnode know nothing of the panel. *)
LEMMA ChainShown ==
  ASSUME ShownInv, ChainNext
  PROVE  /\ NodeFollows' /\ TasksStaged' /\ MarksOwned'
         /\ HookType' /\ RightsFresh' /\ MembersFresh'
<1>1. UNCHANGED <<panelVars, hookVars, tasks, own>>
  BY DEF ChainNext, Index, Leave, OthersChange
<1>2. ASSUME NEW u \in Users, NEW g \in Groups, Leave(u, g)
      PROVE  NodeFollows'
  <2> DEFINE t == Proposal("remove", g, u, {})
  <2>1. t.group = g
    BY DEF Proposal, Idle
  <2>2. Apply(t) /\ UNCHANGED <<node, own>>
    BY <1>2 DEF Leave
  <2> HIDE DEF t
  <2> QED
    BY <2>1, <2>2, ApplyFollows DEF ShownInv
<1>3. ASSUME NEW u \in Users, NEW t \in Proposals, OthersChange(u, t)
      PROVE  NodeFollows'
  <2>1. t.group \in Groups
    BY ProposalShape
  <2>2. Apply(t) /\ UNCHANGED <<node, own>>
    BY <1>3 DEF OthersChange
  <2> QED
    BY <2>1, <2>2, ApplyFollows DEF ShownInv
<1>4. NodeFollows'
  BY <1>2, <1>3, IndexFollows DEF ChainNext, ShownInv
<1> QED
  BY <1>1, <1>4 DEF ShownInv, TasksStaged, MarksOwned, HookType, RightsFresh,
     MembersFresh, Recent, WillRefresh, Reading, InFlight, panelVars, hookVars

(* An answer of the fullnode is recent when it is given, and the check is  *)
(* begun again before it is not.                                           *)
LEMMA HookShown ==
  ASSUME ShownInv, HookNext
  PROVE  /\ NodeFollows' /\ TasksStaged' /\ MarksOwned'
         /\ HookType' /\ RightsFresh' /\ MembersFresh'
<1>1. UNCHANGED <<chainVars, panelVars, tasks, own>>
  BY DEF HookNext, AskPermissions, EndCheck, CheckFails
<1>2. NodeFollows' /\ selected \in Groups
  BY <1>1, NodeStays DEF ShownInv, AdminInv
<1>3. TasksStaged' /\ MarksOwned' /\ MembersFresh'
  BY <1>1 DEF ShownInv, TasksStaged, MarksOwned, MembersFresh, Recent, Reading,
     InFlight, panelVars
<1>4. UNCHANGED <<selected, own>> /\ (WillRefresh' <=> WillRefresh)
  BY <1>1 DEF panelVars, WillRefresh, Reading
<1>5. CASE AskPermissions
  <2>1. /\ check'.at = "answered"
        /\ check'.got = Read(selected, node[selected].ver, node[selected].perms[Me])
        /\ rights' = rights
    BY <1>5 DEF AskPermissions
  <2>2. /\ check'.got.group = selected /\ check'.got.ver = node[selected].ver
        /\ check'.got.perms = node[selected].perms[Me]
    BY <2>1 DEF Read
  <2>3. /\ node[selected].ver >= own[selected]
        /\ node[selected].perms[Me] \subseteq Permissions
    BY <1>2, NodeAnswers DEF ShownInv
  <2>4. HookType'
    BY <2>1, <2>2, <2>3 DEF HookType, ShownInv
  <2>5. RightsFresh'
    BY <1>4, <2>1, <2>2, <2>3 DEF RightsFresh, Recent
  <2> QED
    BY <1>2, <1>3, <2>4, <2>5
<1>6. CASE EndCheck
  <2>1. check.at = "answered" /\ rights' = check.got /\ check'.at = "idle"
    BY <1>6 DEF EndCheck, NoCheck
  <2> QED
    BY <1>2, <1>3, <1>4, <2>1 DEF ShownInv, HookType, RightsFresh, Recent
<1>7. CASE CheckFails
  <2>1. rights' = NoRights /\ check'.at = "idle" /\ NoRights.perms = {}
    BY <1>7 DEF CheckFails, NoCheck, NoRights, Read
  <2> QED
    BY <1>2, <1>3, <1>4, <2>1 DEF ShownInv, HookType, RightsFresh, NoRights, Read
<1> QED
  BY <1>5, <1>6, <1>7 DEF HookNext

LEMMA ExecuteShown ==
  ASSUME ShownInv, NEW s \in Slots, Execute(s)
  PROVE  /\ NodeFollows' /\ TasksStaged' /\ MarksOwned'
         /\ HookType' /\ RightsFresh' /\ MembersFresh'
<1> DEFINE t == tasks[s]
           n == [t EXCEPT !.at = "waiting", !.ver = chain[t.group].ver + 1]
<1>1. /\ t.at = "signing" /\ Apply(t) /\ tasks' = [tasks EXCEPT ![s] = n]
      /\ UNCHANGED <<node, panelVars, hookVars, own>>
  BY DEF Execute
<1>2. s \in InFlight /\ TaskSafe(t)
  BY <1>1 DEF ShownInv, AdminInv, TasksSafe, InFlight
<1>3. t.group \in Groups /\ chain[t.group].ver \in Nat
  BY <1>2 DEF TaskSafe, ShownInv, AdminInv, ChainType
<1>4. n.at = "waiting" /\ n.kind = t.kind /\ n.ver \in Nat
  BY <1>2, <1>3 DEF TaskSafe, IsTask, Fields
<1>5. NodeFollows'
  BY <1>1, <1>3, ApplyFollows DEF ShownInv
<1> HIDE DEF n
<1>6. \A q \in Slots : tasks'[q] = IF q = s THEN n ELSE tasks[q]
  BY <1>1, SlotChanges DEF ShownInv, AdminInv
<1>7. /\ InFlight' = InFlight
      /\ \A q \in Slots : /\ Reading(q)' <=> Reading(q)
                          /\ tasks'[q].kind = tasks[q].kind
      /\ \A q \in Slots : Reading(q) => tasks'[q] = tasks[q]
  BY <1>1, <1>2, <1>4, <1>6 DEF InFlight, Reading
<1>8. TasksStaged'
  <2> SUFFICES ASSUME NEW q \in InFlight
               PROVE  /\ tasks'[q].at \in Stages
                      /\ tasks'[q].kind = "show" => Reading(q)'
                      /\ tasks'[q].at = "waiting" => tasks'[q].ver \in Nat
    BY <1>7 DEF TasksStaged
  <2>1. q \in Slots
    BY DEF InFlight
  <2>2. CASE q = s
    BY <1>2, <1>4, <1>6, <1>7, <2>1, <2>2 DEF TasksStaged, ShownInv, Stages
  <2>3. CASE q # s
    BY <1>6, <1>7, <2>1, <2>3 DEF TasksStaged, ShownInv
  <2> QED
    BY <2>2, <2>3
<1>9. MarksOwned'
  BY <1>1, <1>7 DEF MarksOwned, ShownInv, panelVars, InFlight
<1>10. HookType'
  BY <1>1 DEF HookType, ShownInv, hookVars
<1>11. RightsFresh'
  <2>1. WillRefresh' <=> WillRefresh
    BY <1>7 DEF WillRefresh
  <2> QED
    BY <1>1, <2>1 DEF RightsFresh, Recent, ShownInv, hookVars, panelVars
<1>12. MembersFresh'
  BY <1>1, <1>7 DEF MembersFresh, Recent, ShownInv, panelVars
<1> QED
  BY <1>5, <1>8, <1>9, <1>10, <1>11, <1>12

(* What ending a task leaves: the other tasks, and the marks of others. *)
LEMMA EndShape ==
  ASSUME ShownInv, NEW s \in Slots, End(s)
  PROVE  /\ \A q \in Slots : tasks'[q] = IF q = s THEN Idle ELSE tasks[q]
         /\ InFlight' = InFlight \ {s}
         /\ \A q \in Slots : Reading(q)' <=> q # s /\ Reading(q)
         /\ TasksStaged'
         /\ removing' # NoOne => \E q \in InFlight' : tasks'[q].kind \in Removals
         /\ toggling' # NoToggle => \E q \in InFlight' : tasks'[q].kind \in Toggles
<1>1. \A q \in Slots : tasks'[q] = IF q = s THEN Idle ELSE tasks[q]
  BY SlotChanges DEF ShownInv, AdminInv, End
<1>2. Idle.at = "idle"
  BY DEF Idle
<1>3. /\ InFlight' = InFlight \ {s}
      /\ \A q \in Slots : Reading(q)' <=> q # s /\ Reading(q)
  BY <1>1, <1>2 DEF InFlight, Reading
<1>4. TasksStaged'
  <2> SUFFICES ASSUME NEW q \in InFlight \ {s}
               PROVE  /\ tasks'[q].at \in Stages
                      /\ tasks'[q].kind = "show" => Reading(q)'
                      /\ tasks'[q].at = "waiting" => tasks'[q].ver \in Nat
    BY <1>3 DEF TasksStaged
  <2>1. q \in Slots /\ tasks'[q] = tasks[q]
    BY <1>1 DEF InFlight
  <2> QED
    BY <1>3, <2>1 DEF TasksStaged, ShownInv
<1>5. /\ removing' = IF tasks[s].kind \in Removals THEN NoOne ELSE removing
      /\ toggling' = IF tasks[s].kind \in Toggles THEN NoToggle ELSE toggling
  BY DEF End, Removals, Toggles
<1>6. \A q \in InFlight : q # s => q \in InFlight' /\ tasks'[q] = tasks[q]
  BY <1>1, <1>3 DEF InFlight
<1>7. removing' # NoOne => \E q \in InFlight' : tasks'[q].kind \in Removals
  BY <1>5, <1>6 DEF MarksOwned, ShownInv
<1>8. toggling' # NoToggle => \E q \in InFlight' : tasks'[q].kind \in Toggles
  BY <1>5, <1>6 DEF MarksOwned, ShownInv
<1> QED
  BY <1>1, <1>3, <1>4, <1>7, <1>8

(* A change that fails, or archives, was not reading anything. *)
LEMMA FailShown ==
  ASSUME ShownInv, NEW s \in Slots, tasks[s].at \in {"signing", "waiting"}, End(s),
         UNCHANGED <<chainVars, selected, members, listing, disturbed, hookVars, own>>
  PROVE  /\ NodeFollows' /\ TasksStaged' /\ MarksOwned'
         /\ HookType' /\ RightsFresh' /\ MembersFresh'
<1>1. \A q \in Slots : /\ Reading(q)' <=> Reading(q)
                       /\ Reading(q) => tasks'[q] = tasks[q]
  BY EndShape DEF Reading
<1>2. TasksStaged' /\ MarksOwned'
  BY <1>1, EndShape DEF MarksOwned, ShownInv
<1>3. NodeFollows' /\ HookType'
  BY NodeStays DEF ShownInv, HookType, hookVars
<1>4. RightsFresh'
  <2>1. WillRefresh' <=> WillRefresh
    BY <1>1 DEF WillRefresh
  <2> QED
    BY <2>1 DEF RightsFresh, Recent, ShownInv, hookVars
<1>5. MembersFresh'
  BY <1>1 DEF MembersFresh, Recent, ShownInv
<1> QED
  BY <1>2, <1>3, <1>4, <1>5

(* A change that was seen through: the fullnode has it, and a reading of   *)
(* the members begins that will end with a new check.                      *)
LEMMA EndWaitingShown ==
  ASSUME ShownInv, NEW s \in Slots, EndWaiting(s)
  PROVE  /\ NodeFollows' /\ TasksStaged' /\ MarksOwned'
         /\ HookType' /\ RightsFresh' /\ MembersFresh'
<1> DEFINE t == tasks[s]
           n == [t EXCEPT !.at = "listing"]
<1>1. /\ t.at = "waiting" /\ node[t.group].ver >= t.ver
      /\ UNCHANGED <<chainVars, selected, members, visits, hookVars>>
  BY DEF EndWaiting, IsIndexed
<1>2. CASE t.kind = "archive"
  <2>1. End(s) /\ UNCHANGED <<listing, disturbed, own>>
    BY <1>2 DEF EndWaiting
  <2> QED
    BY <1>1, <2>1, FailShown
<1>3. CASE t.kind # "archive"
  <2>1. /\ tasks' = [tasks EXCEPT ![s] = n]
        /\ listing' = TRUE
        /\ disturbed' = (InFlight # {s} \/ t.group # selected)
        /\ own' = [own EXCEPT ![t.group] = IF @ > t.ver THEN @ ELSE t.ver]
        /\ UNCHANGED <<removing, toggling>>
    BY <1>3 DEF EndWaiting
  <2>2. s \in InFlight /\ TaskSafe(t)
    BY <1>1 DEF ShownInv, AdminInv, TasksSafe, InFlight
  <2>3. t.group \in Groups /\ t.ver \in Nat /\ t.kind # "show"
    BY <1>1, <2>2 DEF TaskSafe, ShownInv, TasksStaged, Reading
  <2>4. n.at = "listing" /\ n.kind = t.kind /\ n.group = t.group
    BY <2>2 DEF TaskSafe, IsTask, Fields
  <2> HIDE DEF n
  <2>5. \A q \in Slots : tasks'[q] = IF q = s THEN n ELSE tasks[q]
    BY <2>1, SlotChanges DEF ShownInv, AdminInv
  <2>6. /\ InFlight' = InFlight
        /\ \A q \in Slots : Reading(q) => Reading(q)'
        /\ \A q \in Slots : tasks'[q].kind = tasks[q].kind
        /\ Reading(s)'
    BY <1>1, <2>2, <2>4, <2>5 DEF InFlight, Reading
  <2>7. NodeFollows'
    <3>1. /\ UNCHANGED <<chain, node, changes>>
          /\ \A g \in Groups : own[g] \in Nat /\ node[g].ver \in Nat
          /\ own \in [Groups -> Nat]
      BY <1>1 DEF chainVars, ShownInv, NodeFollows
    <3>2. \A g \in Groups : own'[g] \in {own[g], t.ver}
                            /\ (g # t.group => own'[g] = own[g])
      BY <2>1, <3>1
    <3>3. own' \in [Groups -> Nat]
      BY <2>1, <2>3, <3>1
    <3>4. \A g \in Groups : own'[g] <= node[g].ver
      BY <1>1, <2>3, <3>1, <3>2 DEF ShownInv, NodeFollows
    <3> QED
      BY <3>1, <3>3, <3>4 DEF ShownInv, NodeFollows
  <2>8. TasksStaged'
    <3> SUFFICES ASSUME NEW q \in InFlight
                 PROVE  /\ tasks'[q].at \in Stages
                        /\ tasks'[q].kind = "show" => Reading(q)'
                        /\ tasks'[q].at = "waiting" => tasks'[q].ver \in Nat
      BY <2>6 DEF TasksStaged
    <3>1. q \in Slots
      BY DEF InFlight
    <3>2. CASE q = s
      BY <2>4, <2>5, <2>6, <3>1, <3>2 DEF Stages
    <3>3. CASE q # s
      BY <2>5, <2>6, <3>1, <3>3 DEF TasksStaged, ShownInv
    <3> QED
      BY <3>2, <3>3
  <2>9. MarksOwned'
    <3>1. \A q \in InFlight : q \in Slots
      BY DEF InFlight
    <3> QED
      BY <2>1, <2>6, <3>1 DEF MarksOwned, ShownInv
  <2>10. HookType'
    BY <1>1 DEF HookType, ShownInv, hookVars
  <2>11. RightsFresh'
    <3>1. WillRefresh'
      BY <2>3, <2>6 DEF WillRefresh
    <3> QED
      BY <3>1 DEF RightsFresh
  <2>12. MembersFresh'
    <3> SUFFICES ASSUME InFlight = {s}, t.group = selected
                 PROVE  MembersFresh'
      BY <2>1 DEF MembersFresh
    <3>1. \A q \in Slots : Reading(q)' => q = s
      BY <2>5 DEF Reading, InFlight
    <3>2. tasks'[s].at = "listing" /\ tasks'[s].group = selected'
      BY <1>1, <2>4, <2>5
    <3> QED
      BY <2>6, <3>1, <3>2 DEF MembersFresh
  <2> QED
    BY <2>7, <2>8, <2>9, <2>10, <2>11, <2>12
<1> QED
  BY <1>2, <1>3

LEMMA ListMembersShown ==
  ASSUME ShownInv, NEW s \in Slots, ListMembers(s)
  PROVE  /\ NodeFollows' /\ TasksStaged' /\ MarksOwned'
         /\ HookType' /\ RightsFresh' /\ MembersFresh'
<1> DEFINE t == tasks[s]
           got == Read(t.group, node[t.group].ver, node[t.group].perms)
           n == [t EXCEPT !.at = "listed", !.got = got]
<1>1. /\ t.at = "listing" /\ tasks' = [tasks EXCEPT ![s] = n]
      /\ UNCHANGED <<chainVars, panelVars, hookVars, own>>
  BY DEF ListMembers
<1>2. s \in InFlight /\ TaskSafe(t)
  BY <1>1 DEF ShownInv, AdminInv, TasksSafe, InFlight
<1>3. /\ n.at = "listed" /\ n.kind = t.kind /\ n.group = t.group
      /\ n.got.group = t.group /\ n.got.ver = node[t.group].ver
  BY <1>2 DEF TaskSafe, IsTask, Fields, Read
<1>4. t.group \in Groups /\ node[t.group].ver >= own[t.group]
  BY <1>2, NodeAnswers DEF TaskSafe, ShownInv
<1> HIDE DEF n
<1>5. \A q \in Slots : tasks'[q] = IF q = s THEN n ELSE tasks[q]
  BY <1>1, SlotChanges DEF ShownInv, AdminInv
<1>6. /\ InFlight' = InFlight
      /\ \A q \in Slots : /\ Reading(q)' <=> Reading(q)
                          /\ tasks'[q].kind = tasks[q].kind
                          /\ q # s => tasks'[q] = tasks[q]
  BY <1>1, <1>2, <1>3, <1>5 DEF InFlight, Reading
<1>7. NodeFollows' /\ HookType'
  BY <1>1, NodeStays DEF ShownInv, HookType, hookVars
<1>8. TasksStaged'
  <2> SUFFICES ASSUME NEW q \in InFlight
               PROVE  /\ tasks'[q].at \in Stages
                      /\ tasks'[q].kind = "show" => Reading(q)'
                      /\ tasks'[q].at = "waiting" => tasks'[q].ver \in Nat
    BY <1>6 DEF TasksStaged
  <2>1. q \in Slots
    BY DEF InFlight
  <2>2. CASE q = s
    BY <1>3, <1>5, <2>1, <2>2 DEF Stages, Reading
  <2>3. CASE q # s
    BY <1>6, <2>1, <2>3 DEF TasksStaged, ShownInv
  <2> QED
    BY <2>2, <2>3
<1>9. MarksOwned'
  <2>1. \A q \in InFlight : q \in Slots
    BY DEF InFlight
  <2> QED
    BY <1>1, <1>6, <2>1 DEF MarksOwned, ShownInv, panelVars
<1>10. RightsFresh'
  <2>1. WillRefresh' <=> WillRefresh
    BY <1>6 DEF WillRefresh
  <2> QED
    BY <1>1, <2>1 DEF RightsFresh, Recent, ShownInv, hookVars, panelVars
<1>11. MembersFresh'
  <2>1. Reading(s) /\ UNCHANGED <<disturbed, selected, own>>
    BY <1>1 DEF Reading, panelVars
  <2> SUFFICES ASSUME ~disturbed
               PROVE  MembersFresh'
    BY <2>1 DEF MembersFresh
  <2>2. t.group = selected /\ \A r \in Slots : Reading(r) => r = s
    BY <2>1 DEF MembersFresh, ShownInv
  <2>3. /\ tasks'[s].group = selected /\ tasks'[s].got.group = selected
        /\ tasks'[s].got.ver >= own[selected]
    BY <1>3, <1>4, <1>5, <2>2
  <2> QED
    BY <1>6, <2>1, <2>2, <2>3 DEF MembersFresh, Recent
<1> QED
  BY <1>7, <1>8, <1>9, <1>10, <1>11

(* A reading ends: the marker goes, and a change asks for the rights anew. *)
LEMMA ReadingEndsShown ==
  ASSUME ShownInv, NEW s \in Slots, Reading(s), End(s),
         UNCHANGED <<chainVars, selected, rights, own>>,
         listing' = FALSE, check' = Refreshed(s),
         \/ disturbed' = TRUE
         \/ disturbed' = disturbed /\ tasks[s].at = "listed" /\ members' = tasks[s].got
  PROVE  /\ NodeFollows' /\ TasksStaged' /\ MarksOwned'
         /\ HookType' /\ RightsFresh' /\ MembersFresh'
<1>1. \A q \in Slots : /\ Reading(q)' <=> q # s /\ Reading(q)
                       /\ q # s => tasks'[q] = tasks[q]
  BY EndShape
<1>2. TasksStaged' /\ MarksOwned'
  BY EndShape DEF MarksOwned
<1>3. check' = IF tasks[s].kind = "show" THEN check ELSE NewCheck
  BY DEF Refreshed
<1>4. NodeFollows' /\ HookType'
  BY <1>3, NodeStays DEF ShownInv, HookType, NewCheck
<1>5. RightsFresh'
  <2>1. CASE tasks[s].kind = "show"
    <3>1. WillRefresh => WillRefresh'
      BY <1>1, <2>1 DEF WillRefresh
    <3> QED
      BY <1>3, <2>1, <3>1 DEF RightsFresh, Recent, ShownInv
  <2>2. CASE tasks[s].kind # "show"
    BY <1>3, <2>2 DEF RightsFresh, NewCheck
  <2> QED
    BY <2>1, <2>2
<1>6. MembersFresh'
  <2> SUFFICES ASSUME ~disturbed', ~disturbed, tasks[s].at = "listed",
                      members' = tasks[s].got
               PROVE  MembersFresh'
    BY DEF MembersFresh
  <2>1. Recent(tasks[s].got) /\ \A q \in Slots : Reading(q) => q = s
    BY DEF MembersFresh, ShownInv
  <2>2. Recent(members)'
    BY <2>1 DEF Recent
  <2>3. \A q \in Slots : ~Reading(q)'
    BY <1>1, <2>1
  <2> QED
    BY <2>2, <2>3 DEF MembersFresh
<1> QED
  BY <1>2, <1>4, <1>5, <1>6

LEMMA TaskShown ==
  ASSUME ShownInv, NEW s \in Slots, TaskNext(s)
  PROVE  /\ NodeFollows' /\ TasksStaged' /\ MarksOwned'
         /\ HookType' /\ RightsFresh' /\ MembersFresh'
<1>1. CASE Fail(s)
  BY <1>1, FailShown DEF Fail
<1>2. CASE ShowMembers(s)
  BY <1>2, ReadingEndsShown DEF ShowMembers, Reading
<1>3. CASE ListingFails(s)
  BY <1>3, ReadingEndsShown DEF ListingFails, Reading
<1> QED
  BY <1>1, <1>2, <1>3, ExecuteShown, EndWaitingShown, ListMembersShown DEF TaskNext

LEMMA StepKeepsShown == ShownInv /\ [Next]_vars => ShownInv'
<1> SUFFICES ASSUME ShownInv, [Next]_vars
             PROVE  ShownInv'
  OBVIOUS
<1>1. AdminInv'
  BY StepKeepsAdmin DEF ShownInv
<1>2. CASE UNCHANGED vars
  <2>1. UNCHANGED <<chainVars, panelVars, hookVars, tasks, own>>
    BY <1>2 DEF vars
  <2>2. NodeFollows'
    BY <2>1, NodeStays DEF ShownInv
  <2> QED
    BY <1>1, <2>1, <2>2 DEF ShownInv, TasksStaged, MarksOwned, HookType, RightsFresh,
       MembersFresh, Recent, WillRefresh, Reading, InFlight, panelVars, hookVars
<1>3. CASE Next
  BY <1>1, <1>3, ChainShown, ClickShown, HookShown, TaskShown DEF Next, ShownInv
<1> QED
  BY <1>2, <1>3

LEMMA ShownTypes == ShownInv => TypeOK
<1> SUFFICES ASSUME ShownInv
             PROVE  TypeOK
  OBVIOUS
<1>1. /\ \A g \in Groups : chain[g] \in [ver: Nat, perms: HeldType, paused: BOOLEAN]
      /\ \A g \in Groups : node[g] \in [ver: Nat, perms: HeldType, paused: BOOLEAN]
      /\ chain = [g \in Groups |-> chain[g]] /\ node = [g \in Groups |-> node[g]]
  BY DEF ShownInv, AdminInv, ChainType, NodeFollows
<1>2. \A g \in Groups : chain[g].ver \in 0..MaxChanges /\ node[g].ver \in 0..MaxChanges
  <2>1. /\ \A g \in Groups : chain[g].ver \in Nat /\ node[g].ver \in Nat
        /\ changes \in Nat /\ changes <= MaxChanges
    BY <1>1, AdminAssumption DEF ShownInv, NodeFollows
  <2> QED
    BY <2>1, AdminAssumption DEF ShownInv, NodeFollows
<1>3. ASSUME NEW c \in [ver: Nat, perms: HeldType, paused: BOOLEAN],
             c.ver \in 0..MaxChanges
      PROVE  c \in State
  BY <1>3 DEF State, HeldType
<1>4. chain \in [Groups -> State] /\ node \in [Groups -> State]
  BY <1>1, <1>2, <1>3
<1>5. InFlight = {} => ~listing /\ removing = NoOne /\ toggling = NoToggle
  <2>1. \A s \in Slots : Reading(s) => s \in InFlight
    BY DEF Reading, InFlight
  <2> QED
    BY <2>1 DEF ShownInv, MarksOwned
<1> QED
  BY <1>4, <1>5 DEF TypeOK, ShownInv, AdminInv, NodeFollows, TasksStaged, Stages, HookType

(* Types: the fullnode never runs ahead of the chain, and no mark is left  *)
(* behind once no change is under way, whatever became of the changes that *)
(* set it, in any order (the finally blocks of AdminPanel.tsx).            *)
THEOREM AdminTypesHold == Spec => []TypeOK
BY InitShown, StepKeepsShown, ShownTypes, PTL DEF Spec

(* For any number of users, groups and changes under way: when nothing is  *)
(* under way the rights the panel decides by are none, where reading them  *)
(* failed, or no older than the user's own changes to the group shown that *)
(* were waited for, and neither is the list of members, unless readings of *)
(* it overlapped or failed.  handleAddMember and the others read after     *)
(* waitForTransaction, and then refresh the hook.                          *)
THEOREM OwnChangesAreShown == Spec => []OwnChangesShown
<1>1. ShownInv => OwnChangesShown
  <2> SUFFICES ASSUME ShownInv, InFlight = {}
               PROVE  /\ ~Checking => Recent(rights) \/ rights = NoRights
                      /\ ~disturbed => Recent(members)
    BY DEF OwnChangesShown, Recent
  <2>1. (\A s \in Slots : ~Reading(s)) /\ ~WillRefresh
    BY DEF InFlight, Reading, WillRefresh
  <2> QED
    BY <2>1 DEF ShownInv, RightsFresh, MembersFresh, HookType, Checking
<1> QED
  BY <1>1, InitShown, StepKeepsShown, PTL DEF Spec
=============================================================================
