------------------------- MODULE OrganizationProofs -------------------------
(* Safety of Organization for any set of calls, users, names, permissions    *)
(* and invitations.  OrganizationInv is inductive.  It has one part for each *)
(* group of documents, and Ready says what a call under way has looked up of *)
(* them: that stays true until it writes unless two calls of a topic         *)
(* crossed, or, for the cache, the member is dirty.                          *)
EXTENDS Organization, TLAPS

USE NoneAssumption, CallsAssumption

------------------------------------------------------------------------------
(* The inductive invariant *)

MemberInv ==
    /\ members \in [Ids -> Member]
    /\ \A i \in Ids : members[i].user = None => members[i].teams = {}
    /\ "addMember" \notin crossed => \A u \in Users : AtMostOne(MembersOf(u))
MemberReady(k) ==
    /\ k.op \in {"status", "joinTeam", "leaveTeam"} => GetMember(k.x)
    /\ k.op = "addMember" /\ "addMember" \notin crossed => MembersOf(k.x) = {}

\* The operations on the names of a kind, and their topic.
New == [team |-> "newTeam", workspace |-> "newWorkspace", role |-> "newRole"]
Renaming == [team |-> "renameTeam", workspace |-> "renameWorkspace", role |-> "none"]
TopicOf == [team |-> "team", workspace |-> "workspace", role |-> "newRole"]

NameInv ==
    /\ named \in [Kinds \X Things -> Team]
    /\ \A kind \in Kinds, n \in Names : TopicOf[kind] \notin crossed => AtMostOne(Taken(kind, n))
NameReady(k) ==
    \A kind \in Kinds : TopicOf[kind] \notin crossed =>
        /\ k.op = New[kind] => Taken(kind, k.x) = {}
        /\ k.op = Renaming[kind] => Taken(kind, k.y) \subseteq {k.x}

Pending(i) == invitations[i].state = "pending"
InviteInv ==
    /\ invitations \in [InvIds -> Invitation] /\ honoured \in [InvIds -> Nat]
    /\ "invite" \notin crossed => AtMostOne(Undecided)
    /\ HonouredOnce
InviteReady(k) ==
    /\ k.op = "invite" /\ "invite" \notin crossed => Undecided = {}
    /\ k.op = "accept" /\ "decision" \notin crossed => Pending(k.x)
    /\ k.op \in {"revoke", "cleanup"} /\ "decision" \notin crossed => \A i \in k.set : Pending(i)

RolesOf(i) == {t \in Things : <<i, t>> \in grants}
PermInv ==
    /\ perms \in [Things -> SUBSET Perms] /\ grants \subseteq Ids \X Things
    /\ cache \in [Ids -> SUBSET Perms] /\ dirty \subseteq Ids
    /\ \A i \in Ids : \A t \in RolesOf(i) : Get("role", t)
    /\ CacheFresh
PermReady(k) ==
    k.op = "check" /\ k.x \notin dirty =>
        /\ k.pc = "roles" => k.set = RolesOf(k.x)
        /\ k.pc = "store" => k.set = Holds(k.x)

\* What a call is about, and how far it can be.
Task(k) ==
    \/ k = Idle
    \/ k.op \in {"createOrganization", "updateOrganization"} /\ k.x \in Names
    \/ k.op \in {"deleteOrganization", "invite"}
    \/ k.op = "addMember" /\ k.x \in Users
    \/ k.op = "status" /\ k.x \in Ids /\ k.y \in MemberStatus
    \/ k.op \in {"joinTeam", "leaveTeam"} /\ k.x \in Ids /\ k.y \in Things /\ k.set \subseteq Things
    \/ k.op \in {"newTeam", "newWorkspace"} /\ k.x \in Names
    \/ k.op \in {"renameTeam", "renameWorkspace"} /\ k.x \in Things /\ k.y \in Names
    \/ k.op \in {"deleteTeam", "deleteWorkspace", "deleteRole"} /\ k.x \in Things
    \/ k.op = "newRole" /\ k.x \in Names /\ k.set \subseteq Perms
    \/ k.op = "updateRole" /\ k.x \in Things /\ k.set \subseteq Perms
    \/ k.op = "accept" /\ k.x \in InvIds
    \/ k.op \in {"revoke", "cleanup"} /\ k.set \subseteq InvIds
    \/ k.op = "check" /\ k.pc = "get" /\ k.x \in Ids
    \/ k.op = "check" /\ k.pc = "roles" /\ k.x \in Ids /\ k.set \subseteq Things
    \/ k.op = "check" /\ k.pc = "store" /\ k.x \in Ids /\ k.set \subseteq Perms
    \/ k.op = "invalidate" /\ k.x \in Ids

Shaped(k) == k = [op |-> k.op, x |-> k.x, y |-> k.y, set |-> k.set, pc |-> k.pc]
Formed(k) == Shaped(k) /\ Task(k)
Ready(k) == MemberReady(k) /\ NameReady(k) /\ InviteReady(k) /\ PermReady(k)

\* Two calls of one topic have crossed.
Overlaps ==
    \A c, d \in Calls :
        c # d /\ calls[c].op # "idle" /\ Topic(calls[c].op) = Topic(calls[d].op)
            => Topic(calls[c].op) \in crossed
CallInv ==
    /\ DOMAIN calls = Calls /\ started \in 0 .. MaxCalls
    /\ Overlaps
    /\ \A c \in Calls : Formed(calls[c]) /\ Ready(calls[c])

OrganizationInv ==
    org \in OrganizationDoc /\ CallInv /\ MemberInv /\ NameInv /\ InviteInv /\ PermInv

------------------------------------------------------------------------------
(* The initial states *)

LEMMA Topics ==
    /\ Topic("newTeam") = "team" /\ Topic("renameTeam") = "team"
    /\ Topic("newWorkspace") = "workspace" /\ Topic("renameWorkspace") = "workspace"
    /\ Topic("accept") = "decision" /\ Topic("revoke") = "decision" /\ Topic("cleanup") = "decision"
    /\ Topic("newRole") = "newRole" /\ Topic("addMember") = "addMember" /\ Topic("invite") = "invite"
    /\ Topic("idle") = "idle" /\ \A op : Topic(op) = "idle" => op = "idle"
  BY DEF Topic

LEMMA IdleCall == Idle.op = "idle" /\ Formed(Idle) /\ Ready(Idle)
  BY DEF Idle, Formed, Shaped, Task, Ready, MemberReady, NameReady, InviteReady, PermReady,
         Kinds, New, Renaming

LEMMA InitOrganization == Init => OrganizationInv
<1> SUFFICES ASSUME Init PROVE OrganizationInv
  OBVIOUS
<1>1. \A c \in Calls : calls[c] = Idle
  BY DEF Init
<1>2. org \in OrganizationDoc
  BY DEF Init, OrganizationDoc
<1>3. CallInv
  BY <1>1, IdleCall DEF Init, CallInv, Overlaps
<1> PICK u \in Users, i \in Ids, t \in Things, n \in Names :
        /\ members = [k \in Ids |-> [user |-> IF k = i THEN u ELSE None, status |-> "active", teams |-> {}]]
        /\ named = [k \in Kinds \X Things |-> [name |-> IF k = <<"role", t>> THEN n ELSE None, deleted |-> FALSE]]
        /\ grants = {<<i, t>>}
        /\ perms \in {[k \in Things |-> IF k = t THEN ps ELSE {}] : ps \in SUBSET Perms \ {{}}}
  BY DEF Init
<1>4. MemberInv
  <2>1. members \in [Ids -> Member]
    BY DEF Member, MemberStatus
  <2>2. \A k \in Ids : members[k].teams = {} /\ (members[k].user # None => k = i)
    OBVIOUS
  <2>3. \A v \in Users : AtMostOne(MembersOf(v))
    BY <2>2 DEF AtMostOne, MembersOf
  <2> QED
    BY <2>1, <2>2, <2>3 DEF MemberInv
<1>5. NameInv
  <2>1. named \in [Kinds \X Things -> Team]
    BY DEF Team
  <2>2. \A kind \in Kinds, x \in Things : named[<<kind, x>>].name # None => x = t
    OBVIOUS
  <2>3. \A kind \in Kinds, m \in Names : AtMostOne(Taken(kind, m))
    BY <2>2 DEF AtMostOne, Taken
  <2> QED
    BY <2>1, <2>3 DEF NameInv
<1>6. InviteInv
  <2>1. /\ invitations \in [InvIds -> Invitation] /\ honoured \in [InvIds -> Nat]
        /\ \A k \in InvIds : invitations[k].state = "none" /\ honoured[k] = 0
    BY DEF Init, Invitation
  <2> QED
    BY <2>1 DEF InviteInv, Undecided, AtMostOne, HonouredOnce
<1>7. PermInv
  <2>1. /\ perms \in [Things -> SUBSET Perms] /\ cache \in [Ids -> SUBSET Perms] /\ dirty = {}
        /\ \A k \in Ids : cache[k] = {}
    BY DEF Init
  <2>2. \A k \in Ids : \A x \in RolesOf(k) : Get("role", x)
    BY DEF RolesOf, Get, Kinds
  <2> QED
    BY <2>1, <2>2 DEF PermInv, CacheFresh
<1> QED
  BY <1>2, <1>3, <1>4, <1>5, <1>6, <1>7 DEF OrganizationInv

------------------------------------------------------------------------------
(* What a step leaves alone: the documents of a part, and with them what any *)
(* call has looked up of it                                                  *)

LEMMA KeepMembers ==
    ASSUME MemberInv, members' = members, crossed \subseteq crossed'
    PROVE  MemberInv' /\ \A k : MemberReady(k) => MemberReady(k)'
  BY DEF MemberInv, MemberReady, GetMember, MembersOf, AtMostOne

LEMMA KeepNames ==
    ASSUME NameInv, named' = named, crossed \subseteq crossed'
    PROVE  NameInv' /\ \A k : NameReady(k) => NameReady(k)'
<1>1. \A kind, n : Taken(kind, n)' = Taken(kind, n)
  BY DEF Taken
<1> QED
  BY <1>1 DEF NameInv, NameReady, AtMostOne

LEMMA KeepInvites ==
    ASSUME InviteInv, invitations' = invitations, honoured' = honoured,
           crossed \subseteq crossed', cut \subseteq cut'
    PROVE  InviteInv' /\ \A k : InviteReady(k) => InviteReady(k)'
  BY DEF InviteInv, InviteReady, HonouredOnce, Undecided, Pending, AtMostOne

LEMMA KeepPerms ==
    ASSUME PermInv, perms' = perms, grants' = grants, cache' = cache, dirty' = dirty,
           \A t \in Things : Get("role", t) => Get("role", t)'
    PROVE  PermInv' /\ \A k : PermReady(k) => PermReady(k)'
<1>1. \A i : RolesOf(i)' = RolesOf(i) /\ Holds(i)' = Holds(i)
  BY DEF RolesOf, Holds
<1> QED
  BY <1>1 DEF PermInv, PermReady, CacheFresh, RolesOf

LEMMA KeepReady ==
    ASSUME OrganizationInv, UNCHANGED <<orgVars, inviteVars, permVars>>,
           crossed \subseteq crossed', cut \subseteq cut'
    PROVE  /\ org' \in OrganizationDoc /\ MemberInv' /\ NameInv' /\ InviteInv' /\ PermInv'
           /\ \A k : Ready(k) => Ready(k)'
<1>1. \A t \in Things : Get("role", t) => Get("role", t)'
  BY DEF Get, orgVars
<1> QED
  BY <1>1, KeepMembers, KeepNames, KeepInvites, KeepPerms
     DEF OrganizationInv, Ready, orgVars, inviteVars, permVars

\* A call returns, or goes on with what it is about.
LEMMA CallMoves ==
    ASSUME CallInv, NEW c \in Calls, NEW k, Formed(k), Ready(k)', k.op \in {"idle", calls[c].op},
           calls' = [calls EXCEPT ![c] = k], started' = started, crossed' = crossed,
           \A d \in Calls \ {c} : Ready(calls[d])'
    PROVE  CallInv'
<1>1. calls'[c] = k /\ \A d \in Calls \ {c} : calls'[d] = calls[d]
  BY DEF CallInv
<1>2. Overlaps'
  BY <1>1, Topics DEF CallInv, Overlaps
<1>3. \A d \in Calls : Formed(calls[d])' /\ Ready(calls[d])'
  <2>1. \A e : Formed(e)' <=> Formed(e)
    BY DEF Formed, Task, Shaped
  <2> QED
    BY <1>1, <2>1 DEF CallInv
<1> QED
  BY <1>2, <1>3 DEF CallInv

------------------------------------------------------------------------------
(* Requests *)

Asked(op, x, y, set, pc) == [op |-> op, x |-> x, y |-> y, set |-> set, pc |-> pc]

LEMMA Begins ==
    ASSUME OrganizationInv, NEW c \in Calls, NEW op, NEW x, NEW y, NEW set, NEW pc,
           Begin(c, op, x, y, set, pc), Task(Asked(op, x, y, set, pc)), Ready(Asked(op, x, y, set, pc))
    PROVE  OrganizationInv'
<1> PICK k : k = Asked(op, x, y, set, pc)
  OBVIOUS
<1>1. /\ calls'[c] = k /\ \A d \in Calls \ {c} : calls'[d] = calls[d]
      /\ DOMAIN calls' = Calls /\ started' \in 0 .. MaxCalls
      /\ calls[c] = Idle
      /\ UNCHANGED <<orgVars, inviteVars, permVars, cut>>
      /\ crossed' = crossed \cup {Topic(op) : d \in {d \in Calls : Topic(calls[d].op) = Topic(op)}}
  BY DEF Begin, Asked, OrganizationInv, CallInv
<1>2. crossed \subseteq crossed'
  BY <1>1
<1>3. /\ org' \in OrganizationDoc /\ MemberInv' /\ NameInv' /\ InviteInv' /\ PermInv'
      /\ \A e : Ready(e) => Ready(e)'
  BY <1>1, <1>2, KeepReady
<1>4. Overlaps'
  <2> SUFFICES ASSUME NEW d \in Calls, NEW e \in Calls, d # e, calls'[d].op # "idle",
                      Topic(calls'[d].op) = Topic(calls'[e].op)
               PROVE  Topic(calls'[d].op) \in crossed'
    BY DEF Overlaps
  <2>1. k.op = op
    BY DEF Asked
  <2>2. CASE d # c /\ e # c
    BY <1>1, <1>2, <2>2 DEF OrganizationInv, CallInv, Overlaps
  <2>3. CASE d = c
    BY <1>1, <2>1, <2>3
  <2>4. CASE e = c
    BY <1>1, <2>1, <2>4
  <2> QED
    BY <2>2, <2>3, <2>4
<1>5. Formed(k)
  BY DEF Formed, Shaped, Asked
<1>6. \A d \in Calls : Formed(calls[d])' /\ Ready(calls[d])'
  <2>1. \A e : Formed(e)' <=> Formed(e)
    BY DEF Formed, Task, Shaped
  <2>2. \A d \in Calls : Formed(calls[d]) /\ Ready(calls[d])
    BY DEF OrganizationInv, CallInv
  <2>3. Ready(k)
    OBVIOUS
  <2> QED
    BY <1>1, <1>3, <1>5, <2>1, <2>2, <2>3
<1> QED
  BY <1>1, <1>3, <1>4, <1>6 DEF OrganizationInv, CallInv

\* What a request has to have looked up, for each operation.
LEMMA ReadyFor ==
    ASSUME NEW op, NEW x, NEW y, NEW set, NEW pc,
           op \in {"status", "joinTeam", "leaveTeam"} => GetMember(x),
           op = "addMember" => MembersOf(x) = {},
           op = "newTeam" => Taken("team", x) = {},
           op = "newWorkspace" => Taken("workspace", x) = {},
           op = "newRole" => Taken("role", x) = {},
           op = "renameTeam" /\ "team" \notin crossed => Taken("team", y) \subseteq {x},
           op = "renameWorkspace" /\ "workspace" \notin crossed => Taken("workspace", y) \subseteq {x},
           op = "invite" => Undecided = {},
           op = "accept" => Pending(x),
           op \in {"revoke", "cleanup"} => \A i \in set : Pending(i),
           op = "check" => pc = "get",
           op # "none"
    PROVE  Ready(Asked(op, x, y, set, pc))
<1>1. NameReady(Asked(op, x, y, set, pc))
  BY DEF NameReady, Asked, Kinds, New, Renaming, TopicOf
<1> QED
  BY <1>1 DEF Ready, MemberReady, InviteReady, PermReady, Asked

LEMMA Requests == ASSUME OrganizationInv, NEW c \in Calls, Request(c) PROVE OrganizationInv'
<1>1. ASSUME NEW n \in Names, CreateOrganization(c, n) PROVE OrganizationInv'
  <2>1. Begin(c, "createOrganization", n, None, {}, "write")
    BY <1>1 DEF CreateOrganization
  <2>2. Task(Asked("createOrganization", n, None, {}, "write"))
    BY <1>1 DEF Task, Asked
  <2>3. Ready(Asked("createOrganization", n, None, {}, "write"))
    BY ReadyFor
  <2> QED
    BY <2>1, <2>2, <2>3, Begins
<1>2. ASSUME NEW n \in Names, UpdateOrganization(c, n) PROVE OrganizationInv'
  <2>1. Begin(c, "updateOrganization", n, None, {}, "write")
    BY <1>2 DEF UpdateOrganization
  <2>2. Task(Asked("updateOrganization", n, None, {}, "write"))
    BY <1>2 DEF Task, Asked
  <2>3. Ready(Asked("updateOrganization", n, None, {}, "write"))
    BY ReadyFor
  <2> QED
    BY <2>1, <2>2, <2>3, Begins
<1>3. ASSUME DeleteOrganization(c) PROVE OrganizationInv'
  <2>1. Begin(c, "deleteOrganization", None, None, {}, "write")
    BY <1>3 DEF DeleteOrganization
  <2>2. Task(Asked("deleteOrganization", None, None, {}, "write"))
    BY <1>3 DEF Task, Asked
  <2>3. Ready(Asked("deleteOrganization", None, None, {}, "write"))
    BY ReadyFor
  <2> QED
    BY <2>1, <2>2, <2>3, Begins
<1>4. ASSUME NEW u \in Users, AddMember(c, u) PROVE OrganizationInv'
  <2>1. Begin(c, "addMember", u, None, {}, "write")
    BY <1>4 DEF AddMember
  <2>2. Task(Asked("addMember", u, None, {}, "write"))
    BY <1>4 DEF Task, Asked
  <2>3. Ready(Asked("addMember", u, None, {}, "write"))
    BY <1>4, ReadyFor DEF AddMember
  <2> QED
    BY <2>1, <2>2, <2>3, Begins
<1>5. ASSUME NEW i \in Ids, RemoveMember(c, i) PROVE OrganizationInv'
  <2>1. Begin(c, "status", i, "inactive", {}, "write")
    BY <1>5 DEF RemoveMember
  <2>2. Task(Asked("status", i, "inactive", {}, "write"))
    BY <1>5 DEF MemberStatus, Task, Asked
  <2>3. Ready(Asked("status", i, "inactive", {}, "write"))
    BY <1>5, ReadyFor DEF RemoveMember
  <2> QED
    BY <2>1, <2>2, <2>3, Begins
<1>6. ASSUME NEW i \in Ids, NEW s \in MemberStatus, UpdateMemberStatus(c, i, s) PROVE OrganizationInv'
  <2>1. Begin(c, "status", i, s, {}, "write")
    BY <1>6 DEF UpdateMemberStatus
  <2>2. Task(Asked("status", i, s, {}, "write"))
    BY <1>6 DEF Task, Asked
  <2>3. Ready(Asked("status", i, s, {}, "write"))
    BY <1>6, ReadyFor DEF UpdateMemberStatus
  <2> QED
    BY <2>1, <2>2, <2>3, Begins
<1>7. ASSUME NEW i \in Ids, NEW t \in Things, AddToTeam(c, i, t) PROVE OrganizationInv'
  <2> PICK T : T = members[i].teams
    OBVIOUS
  <2>1. Begin(c, "joinTeam", i, t, T, "write")
    BY <1>7 DEF AddToTeam
  <2>2. Task(Asked("joinTeam", i, t, T, "write"))
    BY <1>7 DEF OrganizationInv, MemberInv, Member, Task, Asked
  <2>3. Ready(Asked("joinTeam", i, t, T, "write"))
    BY <1>7, ReadyFor DEF AddToTeam
  <2> QED
    BY <2>1, <2>2, <2>3, Begins
<1>8. ASSUME NEW i \in Ids, NEW t \in Things, RemoveFromTeam(c, i, t) PROVE OrganizationInv'
  <2> PICK T : T = members[i].teams
    OBVIOUS
  <2>1. Begin(c, "leaveTeam", i, t, T, "write")
    BY <1>8 DEF RemoveFromTeam
  <2>2. Task(Asked("leaveTeam", i, t, T, "write"))
    BY <1>8 DEF OrganizationInv, MemberInv, Member, Task, Asked
  <2>3. Ready(Asked("leaveTeam", i, t, T, "write"))
    BY <1>8, ReadyFor DEF RemoveFromTeam
  <2> QED
    BY <2>1, <2>2, <2>3, Begins
<1>9. ASSUME NEW n \in Names, CreateTeam(c, n) PROVE OrganizationInv'
  <2>1. Begin(c, "newTeam", n, None, {}, "write")
    BY <1>9 DEF CreateTeam
  <2>2. Task(Asked("newTeam", n, None, {}, "write"))
    BY <1>9 DEF Task, Asked
  <2>3. Ready(Asked("newTeam", n, None, {}, "write"))
    BY <1>9, ReadyFor DEF CreateTeam
  <2> QED
    BY <2>1, <2>2, <2>3, Begins
<1>10. ASSUME NEW t \in Things, NEW n \in Names, UpdateTeam(c, t, n) PROVE OrganizationInv'
  <2>1. Begin(c, "renameTeam", t, n, {}, "write")
    BY <1>10 DEF UpdateTeam
  <2>2. Task(Asked("renameTeam", t, n, {}, "write"))
    BY <1>10 DEF Task, Asked
  <2>3. "team" \notin crossed => Taken("team", n) \subseteq {t}
    BY <1>10 DEF UpdateTeam, FreeFor, OrganizationInv, NameInv, AtMostOne, Kinds, TopicOf
  <2>4. Ready(Asked("renameTeam", t, n, {}, "write"))
    BY <2>3, ReadyFor
  <2> QED
    BY <2>1, <2>2, <2>4, Begins
<1>11. ASSUME NEW t \in Things, DeleteTeam(c, t) PROVE OrganizationInv'
  <2>1. Begin(c, "deleteTeam", t, None, {}, "write")
    BY <1>11 DEF DeleteTeam
  <2>2. Task(Asked("deleteTeam", t, None, {}, "write"))
    BY <1>11 DEF Task, Asked
  <2>3. Ready(Asked("deleteTeam", t, None, {}, "write"))
    BY ReadyFor
  <2> QED
    BY <2>1, <2>2, <2>3, Begins
<1>12. ASSUME NEW n \in Names, CreateWorkspace(c, n) PROVE OrganizationInv'
  <2>1. Begin(c, "newWorkspace", n, None, {}, "write")
    BY <1>12 DEF CreateWorkspace
  <2>2. Task(Asked("newWorkspace", n, None, {}, "write"))
    BY <1>12 DEF Task, Asked
  <2>3. Ready(Asked("newWorkspace", n, None, {}, "write"))
    BY <1>12, ReadyFor DEF CreateWorkspace
  <2> QED
    BY <2>1, <2>2, <2>3, Begins
<1>13. ASSUME NEW t \in Things, NEW n \in Names, UpdateWorkspace(c, t, n) PROVE OrganizationInv'
  <2>1. Begin(c, "renameWorkspace", t, n, {}, "write")
    BY <1>13 DEF UpdateWorkspace
  <2>2. Task(Asked("renameWorkspace", t, n, {}, "write"))
    BY <1>13 DEF Task, Asked
  <2>3. "workspace" \notin crossed => Taken("workspace", n) \subseteq {t}
    BY <1>13 DEF UpdateWorkspace, FreeFor, OrganizationInv, NameInv, AtMostOne, Kinds, TopicOf
  <2>4. Ready(Asked("renameWorkspace", t, n, {}, "write"))
    BY <2>3, ReadyFor
  <2> QED
    BY <2>1, <2>2, <2>4, Begins
<1>14. ASSUME NEW t \in Things, DeleteWorkspace(c, t) PROVE OrganizationInv'
  <2>1. Begin(c, "deleteWorkspace", t, None, {}, "write")
    BY <1>14 DEF DeleteWorkspace
  <2>2. Task(Asked("deleteWorkspace", t, None, {}, "write"))
    BY <1>14 DEF Task, Asked
  <2>3. Ready(Asked("deleteWorkspace", t, None, {}, "write"))
    BY ReadyFor
  <2> QED
    BY <2>1, <2>2, <2>3, Begins
<1>15. ASSUME NEW n \in Names, NEW ps \in SUBSET Perms, CreateRole(c, n, ps) PROVE OrganizationInv'
  <2>1. Begin(c, "newRole", n, None, ps, "write")
    BY <1>15 DEF CreateRole
  <2>2. Task(Asked("newRole", n, None, ps, "write"))
    BY <1>15 DEF Task, Asked
  <2>3. Ready(Asked("newRole", n, None, ps, "write"))
    BY <1>15, ReadyFor DEF CreateRole
  <2> QED
    BY <2>1, <2>2, <2>3, Begins
<1>16. ASSUME NEW t \in Things, NEW ps \in SUBSET Perms, UpdateRole(c, t, ps) PROVE OrganizationInv'
  <2>1. Begin(c, "updateRole", t, None, ps, "write")
    BY <1>16 DEF UpdateRole
  <2>2. Task(Asked("updateRole", t, None, ps, "write"))
    BY <1>16 DEF Task, Asked
  <2>3. Ready(Asked("updateRole", t, None, ps, "write"))
    BY ReadyFor
  <2> QED
    BY <2>1, <2>2, <2>3, Begins
<1>17. ASSUME NEW t \in Things, DeleteRole(c, t) PROVE OrganizationInv'
  <2>1. Begin(c, "deleteRole", t, None, {}, "write")
    BY <1>17 DEF DeleteRole
  <2>2. Task(Asked("deleteRole", t, None, {}, "write"))
    BY <1>17 DEF Task, Asked
  <2>3. Ready(Asked("deleteRole", t, None, {}, "write"))
    BY ReadyFor
  <2> QED
    BY <2>1, <2>2, <2>3, Begins
<1>18. ASSUME Invite(c) PROVE OrganizationInv'
  <2>1. Begin(c, "invite", None, None, {}, "write")
    BY <1>18 DEF Invite
  <2>2. Task(Asked("invite", None, None, {}, "write"))
    BY <1>18 DEF Task, Asked
  <2>3. Ready(Asked("invite", None, None, {}, "write"))
    BY <1>18, ReadyFor DEF Invite
  <2> QED
    BY <2>1, <2>2, <2>3, Begins
<1>19. ASSUME NEW i \in InvIds, Accept(c, i) PROVE OrganizationInv'
  <2>1. Begin(c, "accept", i, None, {}, "write")
    BY <1>19 DEF Accept
  <2>2. Task(Asked("accept", i, None, {}, "write"))
    BY <1>19 DEF Task, Asked
  <2>3. Ready(Asked("accept", i, None, {}, "write"))
    BY <1>19, ReadyFor DEF Accept, Undecided, Pending
  <2> QED
    BY <2>1, <2>2, <2>3, Begins
<1>20. ASSUME NEW i \in InvIds, Revoke(c, i) PROVE OrganizationInv'
  <2>1. Begin(c, "revoke", i, None, {i}, "write")
    BY <1>20 DEF Revoke
  <2>2. Task(Asked("revoke", i, None, {i}, "write"))
    BY <1>20 DEF Undecided, Task, Asked
  <2>3. Ready(Asked("revoke", i, None, {i}, "write"))
    BY <1>20, ReadyFor DEF Revoke, Undecided, Pending
  <2> QED
    BY <2>1, <2>2, <2>3, Begins
<1>21. ASSUME CleanUp(c) PROVE OrganizationInv'
  <2> PICK F : F = {i \in Undecided : invitations[i].expired}
    OBVIOUS
  <2>1. Begin(c, "cleanup", None, None, F, "write")
    BY <1>21 DEF CleanUp
  <2>2. Task(Asked("cleanup", None, None, F, "write"))
    BY <1>21 DEF Undecided, Task, Asked
  <2>3. Ready(Asked("cleanup", None, None, F, "write"))
    BY <1>21, ReadyFor DEF CleanUp, Undecided, Pending
  <2> QED
    BY <2>1, <2>2, <2>3, Begins
<1>22. ASSUME NEW i \in Ids, HasPermission(c, i) PROVE OrganizationInv'
  <2>1. Begin(c, "check", i, None, {}, "get")
    BY <1>22 DEF HasPermission
  <2>2. Task(Asked("check", i, None, {}, "get"))
    BY <1>22 DEF Task, Asked
  <2>3. Ready(Asked("check", i, None, {}, "get"))
    BY ReadyFor
  <2> QED
    BY <2>1, <2>2, <2>3, Begins
<1>23. ASSUME NEW i \in Ids, Invalidate(c, i) PROVE OrganizationInv'
  <2>1. Begin(c, "invalidate", i, None, {}, "write")
    BY <1>23 DEF Invalidate
  <2>2. Task(Asked("invalidate", i, None, {}, "write"))
    BY <1>23 DEF Task, Asked
  <2>3. Ready(Asked("invalidate", i, None, {}, "write"))
    BY ReadyFor
  <2> QED
    BY <2>1, <2>2, <2>3, Begins
<1> QED
  BY <1>1, <1>2, <1>3, <1>4, <1>5, <1>6, <1>7, <1>8, <1>9, <1>10, <1>11,
     <1>12, <1>13, <1>14, <1>15, <1>16, <1>17, <1>18, <1>19, <1>20, <1>21, <1>22, <1>23
     DEF Request, OrganizationRequest, WorkspaceRequest, MemberRequest, TeamRequest, RoleRequest,
         InvitationRequest, InternalRequest

------------------------------------------------------------------------------
(* Writes *)

LEMMA IdleStays == Ready(Idle)'
  BY DEF Idle, Ready, MemberReady, NameReady, InviteReady, PermReady, Kinds, New, Renaming

LEMMA Returns ==
    ASSUME OrganizationInv, NEW c \in Calls, Return(c),
           org' \in OrganizationDoc, MemberInv', NameInv', InviteInv', PermInv',
           \A d \in Calls \ {c} : Ready(calls[d])'
    PROVE  OrganizationInv'
<1>1. CallInv'
  BY CallMoves, IdleCall, IdleStays DEF Return, OrganizationInv
<1> QED
  BY <1>1 DEF OrganizationInv

\* Other calls stay, and so does what they have looked up.
LEMMA Others ==
    ASSUME OrganizationInv, NEW c \in Calls, Return(c)
    PROVE  /\ \A d \in Calls \ {c} : calls'[d] = calls[d] /\ Ready(calls[d])
           /\ \A d \in Calls \ {c} :
                  calls[c].op # "idle" /\ Topic(calls[d].op) = Topic(calls[c].op)
                      => Topic(calls[c].op) \in crossed
           /\ crossed' = crossed /\ cut' = cut
  BY DEF Return, OrganizationInv, CallInv, Overlaps

LEMMA OrganizationWritten ==
    ASSUME OrganizationInv, NEW c \in Calls, WriteOrganization(c) PROVE OrganizationInv'
<1>1. Return(c) /\ UNCHANGED <<members, named, inviteVars, permVars>>
  BY DEF WriteOrganization
<1>2. org' \in OrganizationDoc
  <2>1. Formed(calls[c]) /\ org \in OrganizationDoc
    BY DEF OrganizationInv, CallInv
  <2> QED
    BY <2>1 DEF WriteOrganization, At, Formed, Task, Idle, OrganizationDoc
<1>3. \A t \in Things : Get("role", t) => Get("role", t)'
  BY <1>1 DEF Get
<1>4. /\ MemberInv' /\ NameInv' /\ InviteInv' /\ PermInv'
      /\ \A k : Ready(k) => Ready(k)'
  BY <1>1, <1>3, Others, KeepMembers, KeepNames, KeepInvites, KeepPerms
     DEF OrganizationInv, Ready, inviteVars, permVars
<1> QED
  BY <1>1, <1>2, <1>4, Others, Returns

\* A member document is inserted or written back.
LEMMA MemberSet ==
    ASSUME OrganizationInv, NEW c \in Calls, NEW i \in Ids, NEW doc \in Member, SetMember(c, i, doc),
           doc.user # None, members[i].user # None => doc.user = members[i].user,
           members[i].user = None => calls[c].op = "addMember" /\ calls[c].x = doc.user
    PROVE  OrganizationInv'
<1>1. /\ Return(c) /\ UNCHANGED <<org, named, inviteVars, permVars>>
      /\ members' = [members EXCEPT ![i] = doc] /\ members \in [Ids -> Member]
  BY DEF SetMember, OrganizationInv, MemberInv
<1>2. \A t \in Things : Get("role", t) => Get("role", t)'
  BY <1>1 DEF Get
<1>3. /\ org' \in OrganizationDoc /\ NameInv' /\ InviteInv' /\ PermInv'
      /\ \A k : NameReady(k) /\ InviteReady(k) /\ PermReady(k)
            => NameReady(k)' /\ InviteReady(k)' /\ PermReady(k)'
  BY <1>1, <1>2, Others, KeepNames, KeepInvites, KeepPerms DEF OrganizationInv, inviteVars, permVars
<1>4. members'[i] = doc /\ \A j \in Ids \ {i} : members'[j] = members[j]
  BY <1>1
<1>5. \A u : MembersOf(u)' \subseteq MembersOf(u) \cup {i}
  BY <1>4 DEF MembersOf
<1>6. members[i].user # None => \A u : MembersOf(u)' = MembersOf(u)
  BY <1>4 DEF MembersOf
<1>7. MemberInv'
  <2>1. members' \in [Ids -> Member]
    BY <1>1
  <2>2. \A j \in Ids : members'[j].user = None => members'[j].teams = {}
    BY <1>4 DEF OrganizationInv, MemberInv
  <2>3. ASSUME "addMember" \notin crossed', NEW u \in Users PROVE AtMostOne(MembersOf(u)')
    <3>1. AtMostOne(MembersOf(u)) /\ (calls[c].op = "addMember" => MembersOf(calls[c].x) = {})
      BY <1>1, <2>3 DEF Return, OrganizationInv, MemberInv, CallInv, Ready, MemberReady
    <3>2. CASE members[i].user # None
      BY <1>6, <3>1, <3>2
    <3>3. CASE members[i].user = None /\ u = doc.user
      BY <1>5, <3>1, <3>3 DEF AtMostOne
    <3>4. CASE members[i].user = None /\ u # doc.user
      BY <1>4, <1>5, <3>1, <3>4 DEF AtMostOne, MembersOf
    <3> QED
      BY <3>2, <3>3, <3>4
  <2> QED
    BY <2>1, <2>2, <2>3 DEF MemberInv, AtMostOne
<1>8. \A d \in Calls \ {c} : MemberReady(calls[d])'
  <2> SUFFICES ASSUME NEW d \in Calls \ {c} PROVE MemberReady(calls[d])'
    OBVIOUS
  <2>1. calls'[d] = calls[d] /\ MemberReady(calls[d])
    BY <1>1, Others DEF Ready
  <2>2. \A j \in Ids : GetMember(j) => GetMember(j)'
    BY <1>4 DEF GetMember
  <2>3. calls[d].op \in {"status", "joinTeam", "leaveTeam"} => calls[d].x \in Ids
    BY DEF OrganizationInv, CallInv, Formed, Task, Idle
  <2>4. calls[d].op = "addMember" /\ "addMember" \notin crossed' => calls[c].op # "addMember"
    BY <1>1, Others, Topics
  <2> QED
    BY <1>1, <1>6, <2>1, <2>2, <2>3, <2>4, Others DEF MemberReady
<1> QED
  BY <1>1, <1>3, <1>7, <1>8, Others, Returns DEF Ready

LEMMA MemberWritten ==
    ASSUME OrganizationInv, NEW c \in Calls, InsertMember(c) \/ WriteMemberStatus(c) \/ WriteTeams(c)
    PROVE  OrganizationInv'
<1>1. Formed(calls[c]) /\ Ready(calls[c]) /\ members \in [Ids -> Member]
  BY DEF OrganizationInv, CallInv, MemberInv
<1>2. CASE InsertMember(c)
  <2>1. calls[c].op = "addMember" /\ calls[c].x \in Users
    BY <1>1, <1>2 DEF InsertMember, At, Formed, Task, Idle
  <2> PICK i \in Ids : /\ ~GetMember(i)
                       /\ SetMember(c, i, [user |-> calls[c].x, status |-> "active", teams |-> {}])
    BY <1>2 DEF InsertMember
  <2> PICK doc : doc = [user |-> calls[c].x, status |-> "active", teams |-> {}]
    OBVIOUS
  <2>2. doc \in Member /\ doc.user = calls[c].x /\ doc.user # None
    BY <2>1 DEF Member, MemberStatus
  <2> QED
    BY <2>1, <2>2, MemberSet DEF GetMember
<1>3. CASE WriteMemberStatus(c)
  <2>1. calls[c].op = "status" /\ calls[c].x \in Ids /\ calls[c].y \in MemberStatus
    BY <1>1, <1>3 DEF WriteMemberStatus, At, Formed, Task, Idle
  <2> PICK doc : doc = [members[calls[c].x] EXCEPT !.status = calls[c].y]
    OBVIOUS
  <2>2. doc \in Member /\ doc.user = members[calls[c].x].user /\ doc.user # None
    BY <1>1, <2>1 DEF Member, Ready, MemberReady, GetMember
  <2> QED
    BY <1>3, <2>1, <2>2, MemberSet DEF WriteMemberStatus
<1>4. CASE WriteTeams(c)
  <2>1. /\ calls[c].op \in {"joinTeam", "leaveTeam"}
        /\ calls[c].x \in Ids /\ calls[c].y \in Things /\ calls[c].set \subseteq Things
    BY <1>1, <1>4 DEF WriteTeams, Formed, Task, Idle
  <2> PICK doc : doc = [members[calls[c].x] EXCEPT !.teams =
            IF calls[c].op = "joinTeam" THEN calls[c].set \cup {calls[c].y} ELSE calls[c].set \ {calls[c].y}]
    OBVIOUS
  <2>2. doc \in Member /\ doc.user = members[calls[c].x].user /\ doc.user # None
    BY <1>1, <2>1 DEF Member, Ready, MemberReady, GetMember
  <2> QED
    BY <1>4, <2>1, <2>2, MemberSet DEF WriteTeams
<1> QED
  BY <1>2, <1>3, <1>4

\* Names of one kind change by an insertion, a change of name or a deletion.
LEMMA NameSet ==
    ASSUME OrganizationInv, NEW c \in Calls, Return(c), NEW kind \in Kinds,
           named' \in [Kinds \X Things -> Team],
           \A k \in Kinds \ {kind}, t \in Things : named'[<<k, t>>] = named[<<k, t>>],
           \/ \A n : Taken(kind, n)' \subseteq Taken(kind, n)
           \/ /\ Topic(calls[c].op) = TopicOf[kind]
              /\ TopicOf[kind] \notin crossed => \A n \in Names : AtMostOne(Taken(kind, n)')
    PROVE  NameInv' /\ \A d \in Calls \ {c} : NameReady(calls[d])'
<1>1. \A k \in Kinds \ {kind} : \A n : Taken(k, n)' = Taken(k, n)
  BY DEF Taken
<1>2. crossed' = crossed
  BY Others
<1>3. ASSUME NEW k \in Kinds, NEW n \in Names, TopicOf[k] \notin crossed' PROVE AtMostOne(Taken(k, n)')
  <2>1. AtMostOne(Taken(k, n))
    BY <1>2, <1>3 DEF OrganizationInv, NameInv
  <2> QED
    BY <1>1, <1>2, <1>3, <2>1 DEF AtMostOne
<1>4. ASSUME NEW d \in Calls \ {c}, NEW k \in Kinds, TopicOf[k] \notin crossed'
      PROVE  /\ calls[d]'.op = New[k] => Taken(k, calls[d].x)' = {}
             /\ calls[d]'.op = Renaming[k] => Taken(k, calls[d].y)' \subseteq {calls[d]'.x}
  <2>1. calls'[d] = calls[d] /\ NameReady(calls[d])
    BY Others DEF Ready
  <2>2. CASE \A n : Taken(k, n)' \subseteq Taken(k, n)
    BY <1>2, <1>4, <2>1, <2>2 DEF NameReady
  <2>3. CASE k = kind /\ Topic(calls[c].op) = TopicOf[kind]
    <3>1. Topic(New[k]) = TopicOf[k] /\ TopicOf[k] # "idle"
      BY Topics DEF Kinds, New, TopicOf
    <3>2. k = "role" \/ Topic(Renaming[k]) = TopicOf[k]
      BY Topics DEF Kinds, Renaming, TopicOf
    <3>3. calls[d].op # "none"
      BY DEF OrganizationInv, CallInv, Formed, Task, Idle
    <3>4. Topic(calls[d].op) # TopicOf[k]
      BY <1>2, <1>4, <2>3, <3>1, Others, Topics
    <3> QED
      BY <2>1, <3>1, <3>2, <3>3, <3>4 DEF Renaming
  <2> QED
    BY <1>1, <2>2, <2>3
<1> QED
  BY <1>3, <1>4 DEF NameInv, NameReady, AtMostOne

LEMMA NamesWritten ==
    ASSUME OrganizationInv, NEW c \in Calls, NEW kind \in Kinds, Return(c),
           \/ calls[c].op = New[kind] /\ InsertNamed(c, kind)
           \/ calls[c].op = Renaming[kind] /\ Rename(c, kind)
           \/ calls[c].x \in Things /\ Retire(c, kind)
    PROVE  /\ NameInv' /\ \A d \in Calls \ {c} : NameReady(calls[d])'
           /\ \A t \in Things : Get("role", t) => Get("role", t)'
<1>1. Formed(calls[c]) /\ NameReady(calls[c]) /\ named \in [Kinds \X Things -> Team]
  BY DEF OrganizationInv, CallInv, NameInv, Ready
<1>2. \A n \in Names : TopicOf[kind] \notin crossed => AtMostOne(Taken(kind, n))
  BY DEF OrganizationInv, NameInv
<1>3. ASSUME NEW t \in Things, NEW doc \in Team, SetNamed(kind, t, doc)
      PROVE  /\ named' \in [Kinds \X Things -> Team] /\ named'[<<kind, t>>] = doc
             /\ \A key \in Kinds \X Things : key # <<kind, t>> => named'[key] = named[key]
  BY <1>1, <1>3 DEF SetNamed
<1>4. CASE calls[c].op = New[kind] /\ InsertNamed(c, kind)
  <2>1. calls[c].x \in Names /\ Topic(calls[c].op) = TopicOf[kind]
    BY <1>1, <1>4, Topics DEF Formed, Task, Idle, Kinds, New, TopicOf
  <2> PICK doc : doc = [name |-> calls[c].x, deleted |-> FALSE]
    OBVIOUS
  <2> PICK t \in Things : ~Get(kind, t) /\ SetNamed(kind, t, doc)
    BY <1>4 DEF InsertNamed
  <2>2. doc \in Team /\ doc.name = calls[c].x /\ doc.name # None
    BY <2>1 DEF Team
  <2>3. /\ named' \in [Kinds \X Things -> Team] /\ named'[<<kind, t>>] = doc
        /\ \A key \in Kinds \X Things : key # <<kind, t>> => named'[key] = named[key]
    BY <1>3, <2>2
  <2>4. \A k \in Kinds \ {kind}, u \in Things : named'[<<k, u>>] = named[<<k, u>>]
    BY <2>3
  <2>5. ASSUME NEW n \in Names, TopicOf[kind] \notin crossed PROVE AtMostOne(Taken(kind, n)')
    <3>1. n # calls[c].x => Taken(kind, n)' \subseteq Taken(kind, n)
      BY <2>2, <2>3 DEF Taken
    <3>2. n = calls[c].x => Taken(kind, n)' \subseteq {t}
      <4>1. Taken(kind, calls[c].x) = {}
        BY <1>1, <1>4, <2>5 DEF NameReady
      <4> QED
        BY <2>3, <4>1 DEF Taken
    <3> QED
      BY <1>2, <2>5, <3>1, <3>2 DEF AtMostOne
  <2>6. NameInv' /\ \A d \in Calls \ {c} : NameReady(calls[d])'
    BY <2>1, <2>3, <2>4, <2>5, NameSet
  <2> QED
    BY <2>2, <2>3, <2>6 DEF Get, Kinds
<1>5. CASE calls[c].op = Renaming[kind] /\ Rename(c, kind)
  <2>1. /\ calls[c].x \in Things /\ calls[c].y \in Names /\ Topic(calls[c].op) = TopicOf[kind]
        /\ kind # "role"
    BY <1>1, <1>5, Topics DEF Formed, Task, Idle, Kinds, Renaming, TopicOf
  <2> PICK t \in Things : t = calls[c].x
    BY <2>1
  <2> PICK doc : doc = [named[<<kind, t>>] EXCEPT !.name = calls[c].y]
    OBVIOUS
  <2>2. doc \in Team /\ doc.name = calls[c].y
    BY <1>1, <2>1 DEF Team
  <2>3. /\ named' \in [Kinds \X Things -> Team] /\ named'[<<kind, t>>] = doc
        /\ \A key \in Kinds \X Things : key # <<kind, t>> => named'[key] = named[key]
    BY <1>3, <1>5, <2>2 DEF Rename
  <2>4. \A k \in Kinds \ {kind}, u \in Things : named'[<<k, u>>] = named[<<k, u>>]
    BY <2>3
  <2>5. ASSUME NEW n \in Names, TopicOf[kind] \notin crossed PROVE AtMostOne(Taken(kind, n)')
    <3>1. n # calls[c].y => Taken(kind, n)' \subseteq Taken(kind, n)
      BY <2>2, <2>3 DEF Taken
    <3>2. n = calls[c].y => Taken(kind, n)' \subseteq {t}
      <4>1. Taken(kind, calls[c].y) \subseteq {t}
        BY <1>1, <1>5, <2>5 DEF NameReady
      <4> QED
        BY <2>3, <4>1 DEF Taken
    <3> QED
      BY <1>2, <2>5, <3>1, <3>2 DEF AtMostOne
  <2>6. NameInv' /\ \A d \in Calls \ {c} : NameReady(calls[d])'
    BY <2>1, <2>3, <2>4, <2>5, NameSet
  <2> QED
    BY <2>1, <2>4, <2>6 DEF Get, Kinds
<1>6. CASE calls[c].x \in Things /\ Retire(c, kind)
  <2> PICK t \in Things : t = calls[c].x
    BY <1>6
  <2> PICK doc : doc = [named[<<kind, t>>] EXCEPT !.deleted = TRUE]
    OBVIOUS
  <2> PICK old \in Team : old = named[<<kind, t>>]
    BY <1>1
  <2>1. doc \in Team /\ doc.name = old.name /\ doc.deleted = TRUE
    BY DEF Team
  <2>2. /\ named' \in [Kinds \X Things -> Team] /\ named'[<<kind, t>>] = doc
        /\ \A key \in Kinds \X Things : key # <<kind, t>> => named'[key] = named[key]
    BY <1>3, <1>6, <2>1 DEF Retire
  <2>3. \A k \in Kinds \ {kind}, u \in Things : named'[<<k, u>>] = named[<<k, u>>]
    BY <2>2
  <2>4. \A n : Taken(kind, n)' \subseteq Taken(kind, n)
    BY <2>1, <2>2 DEF Taken
  <2>5. NameInv' /\ \A d \in Calls \ {c} : NameReady(calls[d])'
    BY <2>2, <2>3, <2>4, NameSet
  <2>6. \A u \in Things : named'[<<"role", u>>].name = named[<<"role", u>>].name
    BY <2>1, <2>2 DEF Kinds
  <2> QED
    BY <2>5, <2>6 DEF Get
<1> QED
  BY <1>4, <1>5, <1>6

LEMMA ThingWritten ==
    ASSUME OrganizationInv, NEW c \in Calls, WriteTeam(c) \/ WriteWorkspace(c) \/ RetireRole(c)
    PROVE  OrganizationInv'
<1>1. Return(c) /\ UNCHANGED <<org, members, inviteVars, permVars>>
  BY DEF WriteTeam, WriteWorkspace, RetireRole
<1>2. Formed(calls[c])
  BY DEF OrganizationInv, CallInv
<1>3. /\ NameInv' /\ \A d \in Calls \ {c} : NameReady(calls[d])'
      /\ \A t \in Things : Get("role", t) => Get("role", t)'
  <2>1. CASE WriteTeam(c)
    <3>1. "team" \in Kinds /\ New["team"] = "newTeam" /\ Renaming["team"] = "renameTeam"
      BY DEF Kinds, New, Renaming
    <3>2. calls[c].op = "deleteTeam" => calls[c].x \in Things
      BY <1>2 DEF Formed, Task, Idle
    <3> QED
      BY <1>1, <2>1, <3>1, <3>2, NamesWritten DEF WriteTeam, At
  <2>2. CASE WriteWorkspace(c)
    <3>1. "workspace" \in Kinds /\ New["workspace"] = "newWorkspace" /\ Renaming["workspace"] = "renameWorkspace"
      BY DEF Kinds, New, Renaming
    <3>2. calls[c].op = "deleteWorkspace" => calls[c].x \in Things
      BY <1>2 DEF Formed, Task, Idle
    <3> QED
      BY <1>1, <2>2, <3>1, <3>2, NamesWritten DEF WriteWorkspace, At
  <2>3. CASE RetireRole(c)
    <3>1. "role" \in Kinds /\ calls[c].x \in Things
      BY <1>2, <2>3 DEF Kinds, RetireRole, At, Formed, Task, Idle
    <3> QED
      BY <1>1, <2>3, <3>1, NamesWritten DEF RetireRole
  <2> QED
    BY <2>1, <2>2, <2>3
<1>4. /\ org' \in OrganizationDoc /\ MemberInv' /\ InviteInv' /\ PermInv'
      /\ \A k : MemberReady(k) /\ InviteReady(k) /\ PermReady(k)
            => MemberReady(k)' /\ InviteReady(k)' /\ PermReady(k)'
  BY <1>1, <1>3, Others, KeepMembers, KeepInvites, KeepPerms DEF OrganizationInv, inviteVars, permVars
<1> QED
  BY <1>1, <1>3, <1>4, Others, Returns DEF Ready

\* The permissions of a role, grants, caches or dirty members change.
LEMMA PermsSet ==
    ASSUME PermInv, perms' \in [Things -> SUBSET Perms], grants' \subseteq Ids \X Things,
           cache' \in [Ids -> SUBSET Perms], dirty' \subseteq Ids,
           \A i \in Ids : \A t \in RolesOf(i)' : Get("role", t)',
           \A i \in Ids \ dirty' :
               /\ RolesOf(i)' = RolesOf(i) /\ \A t \in RolesOf(i) : perms'[t] = perms[t]
               /\ cache'[i] = {} \/ (cache'[i] = cache[i] /\ i \notin dirty)
    PROVE  /\ PermInv'
           /\ \A k : k.x \in Ids /\ (k.op = "check" /\ k.pc \in {"roles", "store"} /\ k.x \notin dirty'
                                         => k.x \notin dirty)
                  => (PermReady(k) => PermReady(k)')
<1>1. \A i \in Ids \ dirty' : RolesOf(i)' = RolesOf(i) /\ Holds(i)' = Holds(i)
  <2> SUFFICES ASSUME NEW i \in Ids \ dirty' PROVE Holds(i)' = Holds(i)
    OBVIOUS
  <2>1. Holds(i) = UNION {perms[t] : t \in RolesOf(i)} /\ Holds(i)' = UNION {perms'[t] : t \in RolesOf(i)'}
    BY DEF Holds, RolesOf
  <2>2. RolesOf(i)' = RolesOf(i) /\ \A t \in RolesOf(i) : perms'[t] = perms[t]
    OBVIOUS
  <2>3. \A p : p \in UNION {perms'[t] : t \in RolesOf(i)'} <=> p \in UNION {perms[t] : t \in RolesOf(i)}
    BY <2>2
  <2> QED
    BY <2>1, <2>3
<1>2. CacheFresh'
  BY <1>1 DEF CacheFresh, PermInv
<1> QED
  BY <1>1, <1>2 DEF PermInv, PermReady

\* A call about a check is about a member.
LEMMA Checked ==
    ASSUME OrganizationInv, NEW d \in Calls, calls[d].op = "check" PROVE calls[d].x \in Ids
  BY DEF OrganizationInv, CallInv, Formed, Task, Idle

LEMMA RoleWritten ==
    ASSUME OrganizationInv, NEW c \in Calls, InsertRole(c) \/ WriteRole(c) PROVE OrganizationInv'
<1>1. /\ Return(c) /\ UNCHANGED <<org, members, inviteVars, grants, cache>>
      /\ Formed(calls[c]) /\ PermInv
  BY DEF InsertRole, WriteRole, orgVars, OrganizationInv, CallInv
<1>2. /\ NameInv' /\ \A d \in Calls \ {c} : NameReady(calls[d])'
      /\ \A t \in Things : Get("role", t) => Get("role", t)'
  <2>1. CASE InsertRole(c)
    <3>1. "role" \in Kinds /\ New["role"] = "newRole"
      BY DEF Kinds, New
    <3>2. InsertNamed(c, "role")
      BY <2>1 DEF InsertRole, InsertNamed
    <3> QED
      BY <1>1, <2>1, <3>1, <3>2, NamesWritten DEF InsertRole, At
  <2>2. CASE WriteRole(c)
    BY <1>1, <2>2, Others, KeepNames DEF WriteRole, orgVars, OrganizationInv, Ready, Get
  <2> QED
    BY <2>1, <2>2
<1>3. /\ \A i \in Ids : \A t \in RolesOf(i)' : Get("role", t)'
      /\ \A i : RolesOf(i)' = RolesOf(i)
  BY <1>1, <1>2 DEF PermInv, RolesOf
<1>4. /\ perms' \in [Things -> SUBSET Perms] /\ dirty \subseteq dirty' /\ dirty' \subseteq Ids
      /\ \A i \in Ids \ dirty' : \A t \in RolesOf(i) : perms'[t] = perms[t]
  <2>1. CASE InsertRole(c)
    <3> PICK t \in Things : ~Get("role", t) /\ perms' = [perms EXCEPT ![t] = calls[c].set]
      BY <2>1 DEF InsertRole
    <3>1. calls[c].set \subseteq Perms
      BY <1>1, <2>1 DEF InsertRole, At, Formed, Task, Idle
    <3>2. \A i \in Ids : t \notin RolesOf(i)
      BY <1>1 DEF PermInv
    <3> QED
      BY <1>1, <2>1, <3>1, <3>2 DEF InsertRole, PermInv, RolesOf
  <2>2. CASE WriteRole(c)
    <3>1. calls[c].x \in Things /\ calls[c].set \subseteq Perms
      BY <1>1, <2>2 DEF WriteRole, At, Formed, Task, Idle
    <3>2. perms' = [perms EXCEPT ![calls[c].x] = calls[c].set] /\ dirty' = dirty \cup HeldBy(calls[c].x)
      BY <2>2 DEF WriteRole
    <3> QED
      BY <1>1, <3>1, <3>2 DEF PermInv, RolesOf, HeldBy
  <2> QED
    BY <2>1, <2>2
<1>5. PermInv' /\ \A d \in Calls \ {c} : PermReady(calls[d])'
  <2>1. /\ PermInv'
        /\ \A k : k.x \in Ids /\ (k.op = "check" /\ k.pc \in {"roles", "store"} /\ k.x \notin dirty'
                                      => k.x \notin dirty)
               => (PermReady(k) => PermReady(k)')
    BY <1>1, <1>3, <1>4, PermsSet DEF PermInv
  <2>2. \A k : k.op # "check" => PermReady(k)'
    BY DEF PermReady
  <2> QED
    BY <1>1, <1>4, <2>1, <2>2, Others, Checked DEF Ready
<1>6. /\ org' \in OrganizationDoc /\ MemberInv' /\ InviteInv'
      /\ \A k : MemberReady(k) /\ InviteReady(k) => MemberReady(k)' /\ InviteReady(k)'
  BY <1>1, Others, KeepMembers, KeepInvites DEF OrganizationInv, inviteVars
<1> QED
  BY <1>1, <1>2, <1>5, <1>6, Others, Returns DEF Ready

\* An invitation is made, decided on or deleted.
LEMMA InviteSet ==
    ASSUME OrganizationInv, NEW c \in Calls, crossed' = crossed,
           \A d \in Calls \ {c} : calls'[d] = calls[d],
           invitations' \in [InvIds -> Invitation], honoured' \in [InvIds -> Nat], HonouredOnce',
           \/ Undecided' \subseteq Undecided
           \/ calls[c].op = "invite" /\ ("invite" \notin crossed => AtMostOne(Undecided')),
           \/ \A i \in InvIds : Pending(i) => Pending(i)'
           \/ Topic(calls[c].op) = "decision"
    PROVE  InviteInv' /\ \A d \in Calls \ {c} : InviteReady(calls[d])'
<1>1. InviteInv'
  BY DEF OrganizationInv, InviteInv, AtMostOne
<1>2. ASSUME NEW d \in Calls \ {c} PROVE InviteReady(calls[d])'
  <2>1. Formed(calls[d]) /\ InviteReady(calls[d]) /\ calls'[d] = calls[d]
    BY DEF OrganizationInv, CallInv, Ready
  <2>2. calls[c].op # "idle" /\ Topic(calls[d].op) = Topic(calls[c].op) => Topic(calls[c].op) \in crossed
    BY DEF OrganizationInv, CallInv, Overlaps
  <2>3. calls[d].op = "invite" /\ "invite" \notin crossed => Undecided' = {}
    BY <2>1, <2>2, Topics DEF InviteReady
  <2>4. calls[d].op = "accept" => calls[d].x \in InvIds
    BY <2>1 DEF Formed, Task, Idle
  <2>5. calls[d].op \in {"revoke", "cleanup"} => calls[d].set \subseteq InvIds
    BY <2>1 DEF Formed, Task, Idle
  <2>6. calls[d].op \in {"accept", "revoke", "cleanup"} /\ "decision" \notin crossed
            => \A i \in InvIds : Pending(i) => Pending(i)'
    BY <2>2, Topics
  <2> QED
    BY <2>1, <2>3, <2>4, <2>5, <2>6 DEF InviteReady
<1> QED
  BY <1>1, <1>2

\* The other parts, when a step writes invitations only.
LEMMA InviteOnly ==
    ASSUME OrganizationInv, UNCHANGED <<orgVars, permVars>>, crossed' = crossed
    PROVE  /\ org' \in OrganizationDoc /\ MemberInv' /\ NameInv' /\ PermInv'
           /\ \A k : MemberReady(k) /\ NameReady(k) /\ PermReady(k)
                  => MemberReady(k)' /\ NameReady(k)' /\ PermReady(k)'
<1>1. \A t \in Things : Get("role", t) => Get("role", t)'
  BY DEF Get, orgVars
<1> QED
  BY <1>1, KeepMembers, KeepNames, KeepPerms DEF OrganizationInv, orgVars, permVars

LEMMA InvitationInserted ==
    ASSUME OrganizationInv, NEW c \in Calls, InsertInvitation(c) PROVE OrganizationInv'
<1>1. /\ Return(c) /\ UNCHANGED <<orgVars, honoured, permVars>> /\ calls[c].op = "invite"
      /\ InviteInv /\ InviteReady(calls[c])
  BY DEF InsertInvitation, At, OrganizationInv, CallInv, Ready
<1> PICK i \in InvIds : invitations[i].state = "none" /\ invitations' = [invitations EXCEPT ![i].state = "pending"]
  BY DEF InsertInvitation
<1>2. /\ invitations' \in [InvIds -> Invitation] /\ invitations'[i].state = "pending"
      /\ \A j \in InvIds : j # i => invitations'[j] = invitations[j]
  BY <1>1 DEF InviteInv, Invitation
<1>3. HonouredOnce'
  BY <1>1, <1>2, Others DEF InviteInv, HonouredOnce
<1>4. "invite" \notin crossed => AtMostOne(Undecided')
  BY <1>1, <1>2 DEF InviteReady, Undecided, AtMostOne
<1>5. \A j \in InvIds : Pending(j) => Pending(j)'
  BY <1>2 DEF Pending
<1>6. InviteInv' /\ \A d \in Calls \ {c} : InviteReady(calls[d])'
  BY <1>1, <1>2, <1>3, <1>4, <1>5, Others, InviteSet DEF InviteInv
<1> QED
  BY <1>1, <1>6, InviteOnly, Others, Returns DEF Ready

LEMMA InvitationAccepted ==
    ASSUME OrganizationInv, NEW c \in Calls, WriteAccepted(c) PROVE OrganizationInv'
<1>1. /\ Return(c) /\ UNCHANGED <<orgVars, permVars>> /\ calls[c].op = "accept"
      /\ InviteInv /\ InviteReady(calls[c]) /\ Formed(calls[c])
  BY DEF WriteAccepted, At, OrganizationInv, CallInv, Ready
<1> PICK i \in InvIds : i = calls[c].x
  BY <1>1 DEF Formed, Task, Idle
<1>2. /\ invitations' = [invitations EXCEPT ![i].state = IF @ = "gone" THEN @ ELSE "accepted"]
      /\ honoured' = [honoured EXCEPT ![i] = @ + 1]
  BY DEF WriteAccepted, Honour
<1>3. /\ invitations' \in [InvIds -> Invitation] /\ honoured' \in [InvIds -> Nat]
      /\ invitations'[i].state \in {"gone", "accepted"}
      /\ invitations[i].state = "pending" => invitations'[i].state = "accepted"
      /\ honoured'[i] = honoured[i] + 1
      /\ \A j \in InvIds : j # i => invitations'[j] = invitations[j] /\ honoured'[j] = honoured[j]
  BY <1>1, <1>2 DEF InviteInv, Invitation
<1>4. HonouredOnce'
  <2> SUFFICES ASSUME "decision" \notin crossed, "accept" \notin cut, NEW j \in InvIds
               PROVE  honoured'[j] = IF invitations'[j].state = "accepted" THEN 1 ELSE 0
    BY <1>1, Others DEF HonouredOnce
  <2>1. \A k \in InvIds : honoured[k] = IF invitations[k].state = "accepted" THEN 1 ELSE 0
    BY <1>1 DEF InviteInv, HonouredOnce
  <2>2. invitations[i].state = "pending"
    BY <1>1 DEF InviteReady, Pending
  <2> QED
    BY <1>3, <2>1, <2>2
<1>5. Undecided' \subseteq Undecided /\ Topic(calls[c].op) = "decision"
  BY <1>1, <1>3, Topics DEF Undecided
<1>6. InviteInv' /\ \A d \in Calls \ {c} : InviteReady(calls[d])'
  BY <1>3, <1>4, <1>5, <1>1, Others, InviteSet
<1> QED
  BY <1>1, <1>6, InviteOnly, Others, Returns DEF Ready

LEMMA InvitationDeleted ==
    ASSUME OrganizationInv, NEW c \in Calls, DeleteInvitation(c) PROVE OrganizationInv'
<1>1. /\ UNCHANGED <<orgVars, honoured, permVars>> /\ calls[c].op \in {"revoke", "cleanup"}
      /\ InviteInv /\ InviteReady(calls[c]) /\ Formed(calls[c]) /\ CallInv
  BY DEF DeleteInvitation, OrganizationInv, CallInv, Ready
<1>2. calls[c].set \subseteq InvIds
  BY <1>1 DEF Formed, Task, Idle
<1> PICK i \in calls[c].set :
        /\ invitations' = [invitations EXCEPT ![i].state = "gone"]
        /\ IF calls[c].set = {i} THEN Return(c)
           ELSE calls' = [calls EXCEPT ![c].set = @ \ {i}] /\ UNCHANGED <<started, crossed, cut>>
  BY DEF DeleteInvitation
<1> PICK k : k = IF calls[c].set = {i} THEN Idle ELSE [calls[c] EXCEPT !.set = @ \ {i}]
  OBVIOUS
<1>3. /\ calls' = [calls EXCEPT ![c] = k] /\ UNCHANGED <<started, crossed, cut>>
      /\ \A d \in Calls \ {c} : calls'[d] = calls[d] /\ Ready(calls[d])
  BY <1>1 DEF Return, CallInv
<1>4. /\ invitations' \in [InvIds -> Invitation] /\ invitations'[i].state = "gone"
      /\ \A j \in InvIds : j # i => invitations'[j] = invitations[j]
  BY <1>1, <1>2 DEF InviteInv, Invitation
<1>5. HonouredOnce'
  <2>1. "decision" \notin crossed => invitations[i].state = "pending"
    BY <1>1 DEF InviteReady, Pending
  <2> QED
    BY <1>1, <1>2, <1>3, <1>4, <2>1 DEF InviteInv, HonouredOnce
<1>6. Undecided' \subseteq Undecided /\ Topic(calls[c].op) = "decision"
  BY <1>1, <1>4, Topics DEF Undecided
<1>7. InviteInv' /\ \A d \in Calls \ {c} : InviteReady(calls[d])'
  BY <1>1, <1>3, <1>4, <1>5, <1>6, InviteSet DEF InviteInv
<1>8. Formed(k) /\ k.op \in {"idle", calls[c].op}
  <2>1. CASE calls[c].set = {i}
    BY <2>1, IdleCall
  <2>2. CASE calls[c].set # {i}
    <3>1. /\ k.op = calls[c].op /\ k.set = calls[c].set \ {i} /\ Shaped(k)
      BY <1>1, <2>2 DEF Formed, Shaped
    <3> QED
      BY <1>1, <1>2, <3>1 DEF Formed, Task
  <2> QED
    BY <2>1, <2>2
<1>9. Ready(k)'
  <2>1. CASE calls[c].set = {i}
    BY <2>1, IdleStays
  <2>2. CASE calls[c].set # {i}
    <3>1. k.op \in {"revoke", "cleanup"} /\ k.set = calls[c].set \ {i}
      BY <1>1, <2>2 DEF Formed, Shaped
    <3>2. InviteReady(k)'
      BY <1>1, <1>2, <1>3, <1>4, <3>1 DEF InviteReady, Pending
    <3>3. MemberReady(k)' /\ NameReady(k)' /\ PermReady(k)'
      BY <3>1 DEF MemberReady, NameReady, PermReady, Kinds, New, Renaming
    <3> QED
      BY <3>2, <3>3 DEF Ready
  <2> QED
    BY <2>1, <2>2
<1>10. /\ org' \in OrganizationDoc /\ MemberInv' /\ NameInv' /\ PermInv'
       /\ \A d \in Calls \ {c} : Ready(calls[d])'
  BY <1>1, <1>3, <1>7, InviteOnly DEF Ready
<1>11. CallInv'
  BY <1>1, <1>3, <1>8, <1>9, <1>10, CallMoves
<1> QED
  BY <1>7, <1>10, <1>11 DEF OrganizationInv

\* A call is cut short.
LEMMA Stopped == ASSUME OrganizationInv, NEW c \in Calls, Stop(c) PROVE OrganizationInv'
<1>1. /\ UNCHANGED <<orgVars, invitations, permVars, started, crossed>>
      /\ calls' = [calls EXCEPT ![c] = Idle] /\ cut' = cut \cup {calls[c].op}
      /\ CallInv /\ InviteInv /\ \A d \in Calls \ {c} : calls'[d] = calls[d] /\ Ready(calls[d])
  BY DEF Stop, OrganizationInv, CallInv
<1>2. honoured' = honoured \/ (calls[c].op = "accept" /\ Honour(c))
  BY DEF Stop
<1>3. InviteInv' /\ \A k : InviteReady(k) => InviteReady(k)'
  <2>1. honoured' \in [InvIds -> Nat]
    BY <1>1, <1>2 DEF Honour, InviteInv
  <2>2. HonouredOnce'
    BY <1>1, <1>2 DEF InviteInv, HonouredOnce
  <2> QED
    BY <1>1, <2>1, <2>2 DEF InviteInv, InviteReady, Undecided, Pending, AtMostOne
<1>4. /\ org' \in OrganizationDoc /\ MemberInv' /\ NameInv' /\ PermInv'
      /\ \A d \in Calls \ {c} : Ready(calls[d])'
  BY <1>1, <1>3, InviteOnly DEF Ready
<1>5. CallInv'
  BY <1>1, <1>4, IdleCall, IdleStays, CallMoves
<1> QED
  BY <1>3, <1>4, <1>5 DEF OrganizationInv

------------------------------------------------------------------------------
(* Permissions and grants *)

\* The other parts, when a step writes grants, caches or dirty members only.
LEMMA PermsOnly ==
    ASSUME OrganizationInv, UNCHANGED <<orgVars, inviteVars, perms>>, crossed' = crossed, cut' = cut,
           grants' \subseteq Ids \X Things, cache' \in [Ids -> SUBSET Perms], dirty' \subseteq Ids,
           \A i \in Ids : \A t \in RolesOf(i)' : t \in RolesOf(i) \/ Get("role", t),
           \A i \in Ids \ dirty' :
               /\ RolesOf(i)' = RolesOf(i)
               /\ cache'[i] = {} \/ (cache'[i] = cache[i] /\ i \notin dirty),
           \A d \in Calls : calls[d].op = "check" /\ calls[d].pc \in {"roles", "store"}
                                /\ calls[d].x \notin dirty' => calls[d].x \notin dirty
    PROVE  /\ org' \in OrganizationDoc /\ MemberInv' /\ NameInv' /\ InviteInv' /\ PermInv'
           /\ \A d \in Calls : calls'[d] = calls[d] => Ready(calls[d])'
<1>1. \A t : Get("role", t)' = Get("role", t)
  BY DEF Get, orgVars
<1>2. /\ PermInv'
      /\ \A k : k.x \in Ids /\ (k.op = "check" /\ k.pc \in {"roles", "store"} /\ k.x \notin dirty'
                                    => k.x \notin dirty)
             => (PermReady(k) => PermReady(k)')
  <2>1. PermInv /\ \A i \in Ids : \A t \in RolesOf(i) : Get("role", t)
    BY DEF OrganizationInv, PermInv
  <2>2. \A i \in Ids : \A t \in RolesOf(i)' : Get("role", t)'
    BY <1>1, <2>1
  <2>3. perms' \in [Things -> SUBSET Perms]
    BY <2>1 DEF PermInv
  <2> QED
    BY <2>1, <2>2, <2>3, PermsSet
<1>3. \A k : k.op # "check" => PermReady(k)'
  BY DEF PermReady
<1>4. \A d \in Calls : PermReady(calls[d]) /\ MemberReady(calls[d]) /\ NameReady(calls[d]) /\ InviteReady(calls[d])
  BY DEF OrganizationInv, CallInv, Ready
<1>5. /\ org' \in OrganizationDoc /\ MemberInv' /\ NameInv' /\ InviteInv'
      /\ \A k : MemberReady(k) /\ NameReady(k) /\ InviteReady(k)
             => MemberReady(k)' /\ NameReady(k)' /\ InviteReady(k)'
  BY KeepMembers, KeepNames, KeepInvites DEF OrganizationInv, orgVars, inviteVars
<1> QED
  BY <1>2, <1>3, <1>4, <1>5, Checked DEF Ready

LEMMA HoldsOf == \A i : Holds(i) = UNION {perms[t] : t \in RolesOf(i)}
  BY DEF Holds, RolesOf

LEMMA Checks ==
    ASSUME OrganizationInv, NEW c \in Calls, LookUp(c) \/ GetMemberPermissions(c) PROVE OrganizationInv'
<1>1. /\ UNCHANGED <<orgVars, inviteVars, permVars>> /\ UNCHANGED <<started, crossed, cut>>
      /\ CallInv /\ Formed(calls[c]) /\ calls[c].op = "check" /\ calls[c].x \in Ids
      /\ perms \in [Things -> SUBSET Perms]
  BY Checked DEF LookUp, GetMemberPermissions, At, Return, OrganizationInv, CallInv, PermInv
<1>2. /\ org' \in OrganizationDoc /\ MemberInv' /\ NameInv' /\ InviteInv' /\ PermInv'
      /\ \A k : Ready(k) => Ready(k)'
  BY <1>1, KeepReady
<1>3. \A d \in Calls \ {c} : Ready(calls[d])'
  <2>1. \A d \in Calls \ {c} : calls'[d] = calls[d] /\ Ready(calls[d])
    BY <1>1 DEF LookUp, GetMemberPermissions, Return, CallInv
  <2> QED
    BY <1>2, <2>1
<1>4. \E k : /\ Formed(k) /\ Ready(k) /\ k.op \in {"idle", calls[c].op}
             /\ calls' = [calls EXCEPT ![c] = k]
  <2>1. CASE Return(c)
    BY <2>1, IdleCall DEF Return
  <2>2. CASE LookUp(c) /\ ~Return(c)
    <3> PICK k : k = [calls[c] EXCEPT !.pc = "roles", !.set = {t \in Things : <<calls[c].x, t>> \in grants}]
      OBVIOUS
    <3>1. /\ k.op = "check" /\ k.pc = "roles" /\ k.x = calls[c].x /\ k.set = RolesOf(calls[c].x) /\ Shaped(k)
      BY <1>1 DEF Formed, Shaped, RolesOf
    <3>2. k.set \subseteq Things
      BY <3>1 DEF RolesOf
    <3>3. Formed(k)
      BY <1>1, <3>1, <3>2 DEF Formed, Task
    <3>4. Ready(k)
      BY <3>1 DEF Ready, MemberReady, NameReady, InviteReady, PermReady, Kinds, New, Renaming
    <3>5. calls' = [calls EXCEPT ![c] = k]
      BY <1>1, <2>2 DEF LookUp
    <3> QED
      BY <1>1, <3>1, <3>3, <3>4, <3>5
  <2>3. CASE GetMemberPermissions(c)
    <3> PICK S : S = UNION {perms[t] : t \in calls[c].set}
      OBVIOUS
    <3> PICK k : k = [calls[c] EXCEPT !.pc = "store", !.set = S]
      OBVIOUS
    <3>1. /\ k.op = "check" /\ k.pc = "store" /\ k.x = calls[c].x /\ k.set = S /\ Shaped(k)
      BY <1>1 DEF Formed, Shaped
    <3>2. calls[c].set \subseteq Things
      BY <1>1, <2>3 DEF GetMemberPermissions, At, Formed, Task, Idle
    <3>3. S \subseteq Perms
      BY <1>1, <3>2
    <3>4. Formed(k)
      BY <1>1, <3>1, <3>3 DEF Formed, Task
    <3>5. calls[c].x \notin dirty => S = Holds(calls[c].x)
      <4>1. calls[c].x \notin dirty => calls[c].set = RolesOf(calls[c].x)
        BY <1>1, <2>3 DEF GetMemberPermissions, At, CallInv, Ready, PermReady
      <4> QED
        BY <4>1, HoldsOf
    <3>6. Ready(k)
      BY <3>1, <3>5 DEF Ready, MemberReady, NameReady, InviteReady, PermReady, Kinds, New, Renaming
    <3>7. calls' = [calls EXCEPT ![c] = k]
      BY <1>1, <2>3 DEF GetMemberPermissions
    <3> QED
      BY <1>1, <3>1, <3>4, <3>6, <3>7
  <2> QED
    BY <2>1, <2>2, <2>3
<1>5. CallInv'
  BY <1>1, <1>2, <1>3, <1>4, CallMoves
<1> QED
  BY <1>2, <1>5 DEF OrganizationInv

LEMMA PermissionsStored ==
    ASSUME OrganizationInv, NEW c \in Calls, StorePermissions(c) PROVE OrganizationInv'
<1>1. /\ Return(c) /\ UNCHANGED <<orgVars, inviteVars, perms, grants, dirty>>
      /\ Formed(calls[c]) /\ calls[c].op = "check" /\ calls[c].pc = "store" /\ PermInv /\ PermReady(calls[c])
  BY DEF StorePermissions, At, OrganizationInv, CallInv, Ready
<1> PICK i \in Ids : i = calls[c].x
  BY <1>1, Checked
<1>2. calls[c].set \subseteq Perms
  BY <1>1 DEF Formed, Task, Idle
<1>3. /\ cache' \in [Ids -> SUBSET Perms] /\ cache'[i] = calls[c].set
      /\ \A j \in Ids \ {i} : cache'[j] = cache[j]
  BY <1>1, <1>2 DEF StorePermissions, PermInv
<1>4. \A j : RolesOf(j)' = RolesOf(j) /\ Holds(j)' = Holds(j)
  BY <1>1 DEF RolesOf, Holds
<1>5. CacheFresh'
  BY <1>1, <1>3, <1>4 DEF PermInv, CacheFresh, PermReady
<1>6. \A t : Get("role", t)' = Get("role", t)
  BY <1>1 DEF Get, orgVars
<1>7. PermInv' /\ \A k : PermReady(k) => PermReady(k)'
  BY <1>1, <1>3, <1>4, <1>5, <1>6 DEF PermInv, PermReady
<1>8. /\ org' \in OrganizationDoc /\ MemberInv' /\ NameInv' /\ InviteInv'
      /\ \A k : MemberReady(k) /\ NameReady(k) /\ InviteReady(k)
             => MemberReady(k)' /\ NameReady(k)' /\ InviteReady(k)'
  BY <1>1, Others, KeepMembers, KeepNames, KeepInvites DEF OrganizationInv, orgVars, inviteVars
<1> QED
  BY <1>1, <1>7, <1>8, Others, Returns DEF Ready

LEMMA CacheDropped ==
    ASSUME OrganizationInv, NEW i \in Ids, Dropped(i), crossed' = crossed, cut' = cut
    PROVE  /\ org' \in OrganizationDoc /\ MemberInv' /\ NameInv' /\ InviteInv' /\ PermInv'
           /\ \A d \in Calls : calls'[d] = calls[d] => Ready(calls[d])'
<1>1. PermInv /\ UNCHANGED <<orgVars, inviteVars, perms, grants>>
  BY DEF Dropped, OrganizationInv
<1>2. /\ cache' \in [Ids -> SUBSET Perms] /\ cache'[i] = {} /\ \A j \in Ids \ {i} : cache'[j] = cache[j]
      /\ dirty' \subseteq dirty /\ dirty \subseteq dirty' \cup {i} /\ dirty' \subseteq Ids
  BY <1>1 DEF Dropped, PermInv
<1>3. \A j : RolesOf(j)' = RolesOf(j)
  BY <1>1 DEF RolesOf
<1>4. \A d \in Calls : calls[d].op = "check" /\ calls[d].pc \in {"roles", "store"} /\ calls[d].x \notin dirty'
                           => calls[d].x \notin dirty
  BY <1>2 DEF Dropped, Checking
<1>5. grants' \subseteq Ids \X Things
  BY <1>1 DEF PermInv
<1>6. \A j \in Ids \ dirty' : cache'[j] = {} \/ (cache'[j] = cache[j] /\ j \notin dirty)
  BY <1>2
<1> QED
  BY <1>1, <1>2, <1>3, <1>4, <1>5, <1>6, PermsOnly

\* Somebody drops the cache of a member, or its hour is over.
LEMMA CacheGone ==
    ASSUME OrganizationInv,
           (\E c \in Calls : DropCache(c)) \/ (\E i \in Ids : CacheExpires(i))
    PROVE  OrganizationInv'
<1>1. ASSUME NEW c \in Calls, DropCache(c) PROVE OrganizationInv'
  <2>1. calls[c].op = "invalidate" /\ Formed(calls[c]) /\ Return(c) /\ Dropped(calls[c].x)
    BY <1>1 DEF DropCache, At, OrganizationInv, CallInv
  <2>2. calls[c].x \in Ids
    BY <2>1 DEF Formed, Task, Idle
  <2> QED
    BY <2>1, <2>2, CacheDropped, Others, Returns
<1>2. ASSUME NEW i \in Ids, CacheExpires(i) PROVE OrganizationInv'
  <2>1. Dropped(i) /\ UNCHANGED <<calls, started, crossed, cut>>
    BY <1>2 DEF CacheExpires
  <2>2. /\ org' \in OrganizationDoc /\ MemberInv' /\ NameInv' /\ InviteInv' /\ PermInv'
        /\ \A d \in Calls : Ready(calls[d])'
    BY <2>1, CacheDropped
  <2> QED
    BY <2>1, <2>2 DEF OrganizationInv, CallInv, Overlaps, Formed, Shaped, Task
<1> QED
  BY <1>1, <1>2

\* A role is granted, or a grant ends.
LEMMA GrantsChange ==
    ASSUME OrganizationInv, NEW i \in Ids, NEW t \in Things, Grant(i, t) \/ GrantExpires(i, t)
    PROVE  OrganizationInv'
<1>1. /\ UNCHANGED <<orgVars, inviteVars, perms, cache, calls, started, crossed, cut>>
      /\ dirty' = dirty \cup {i} /\ PermInv
  BY DEF Grant, GrantExpires, OrganizationInv
<1>2. grants' \subseteq Ids \X Things /\ cache' \in [Ids -> SUBSET Perms] /\ dirty' \subseteq Ids
  BY <1>1 DEF Grant, GrantExpires, PermInv
<1>3. \A j \in Ids : \A u \in RolesOf(j)' : u \in RolesOf(j) \/ Get("role", u)
  BY DEF Grant, GrantExpires, RolesOf
<1>4. \A j \in Ids \ dirty' : RolesOf(j)' = RolesOf(j)
  BY <1>1 DEF Grant, GrantExpires, RolesOf
<1>5. /\ org' \in OrganizationDoc /\ MemberInv' /\ NameInv' /\ InviteInv' /\ PermInv'
      /\ \A d \in Calls : Ready(calls[d])'
  BY <1>1, <1>2, <1>3, <1>4, PermsOnly
<1> QED
  BY <1>1, <1>5 DEF OrganizationInv, CallInv, Overlaps, Formed, Shaped, Task

LEMMA InvitationExpires == ASSUME OrganizationInv, NEW i \in InvIds, Expire(i) PROVE OrganizationInv'
<1>1. /\ UNCHANGED <<orgVars, honoured, permVars, calls, started, crossed, cut>> /\ InviteInv
      /\ invitations' = [invitations EXCEPT ![i].expired = TRUE]
  BY DEF Expire, OrganizationInv
<1>2. /\ invitations' \in [InvIds -> Invitation]
      /\ \A j \in InvIds : invitations'[j].state = invitations[j].state
  <2> PICK old \in Invitation : old = invitations[i]
    BY <1>1 DEF InviteInv
  <2> PICK inv : inv = [old EXCEPT !.expired = TRUE]
    OBVIOUS
  <2>1. inv \in Invitation /\ inv.state = old.state
    BY DEF Invitation
  <2>2. invitations' = [invitations EXCEPT ![i] = inv]
    BY <1>1
  <2> QED
    BY <1>1, <2>1, <2>2 DEF InviteInv
<1>3. Undecided' = Undecided /\ \A j \in InvIds : Pending(j)' = Pending(j)
  BY <1>2 DEF Undecided, Pending
<1>4. InviteInv'
  BY <1>1, <1>2, <1>3 DEF InviteInv, HonouredOnce, AtMostOne
<1>5. \A d \in Calls : Formed(calls[d]) /\ Ready(calls[d])
  BY DEF OrganizationInv, CallInv
<1>6. ASSUME NEW d \in Calls PROVE InviteReady(calls[d])'
  <2>1. calls[d].op = "accept" => calls[d].x \in InvIds
    BY <1>5 DEF Formed, Task, Idle
  <2>2. calls[d].op \in {"revoke", "cleanup"} => calls[d].set \subseteq InvIds
    BY <1>5 DEF Formed, Task, Idle
  <2> QED
    BY <1>1, <1>3, <1>5, <2>1, <2>2 DEF Ready, InviteReady, Pending
<1>7. /\ org' \in OrganizationDoc /\ MemberInv' /\ NameInv' /\ PermInv'
      /\ \A d \in Calls : Ready(calls[d])'
  BY <1>1, <1>5, <1>6, InviteOnly DEF Ready
<1> QED
  BY <1>1, <1>4, <1>7 DEF OrganizationInv, CallInv, Overlaps, Formed, Shaped, Task

------------------------------------------------------------------------------
(* Every step *)

LEMMA NextOrganization == OrganizationInv /\ [Next]_vars => OrganizationInv'
<1> SUFFICES ASSUME OrganizationInv, [Next]_vars PROVE OrganizationInv'
  OBVIOUS
<1>1. ASSUME NEW c \in Calls, Request(c) PROVE OrganizationInv'
  BY <1>1, Requests
<1>2. ASSUME NEW c \in Calls, Step(c) PROVE OrganizationInv'
  BY <1>2, OrganizationWritten, MemberWritten, ThingWritten, RoleWritten, InvitationInserted,
     InvitationAccepted, InvitationDeleted, Checks, PermissionsStored, CacheGone DEF Step
<1>3. ASSUME NEW c \in Calls, Stop(c) PROVE OrganizationInv'
  BY <1>3, Stopped
<1>4. ASSUME NEW i \in InvIds, Expire(i) PROVE OrganizationInv'
  BY <1>4, InvitationExpires
<1>5. ASSUME NEW i \in Ids, CacheExpires(i) PROVE OrganizationInv'
  BY <1>5, CacheGone
<1>6. ASSUME NEW i \in Ids, NEW t \in Things, Grant(i, t) \/ GrantExpires(i, t) PROVE OrganizationInv'
  BY <1>6, GrantsChange
<1>7. CASE UNCHANGED vars
  <2>1. UNCHANGED <<orgVars, inviteVars, permVars>> /\ UNCHANGED <<calls, started, crossed, cut>>
    BY <1>7 DEF vars, orgVars, inviteVars, permVars
  <2>2. /\ org' \in OrganizationDoc /\ MemberInv' /\ NameInv' /\ InviteInv' /\ PermInv'
        /\ \A k : Ready(k) => Ready(k)'
    BY <2>1, KeepReady
  <2> QED
    BY <2>1, <2>2 DEF OrganizationInv, CallInv, Overlaps, Formed, Shaped, Task
<1> QED
  BY <1>1, <1>2, <1>3, <1>4, <1>5, <1>6, <1>7 DEF Next

------------------------------------------------------------------------------
(* The teams of the members *)

\* The copy of a call that is about to write a member's teams is his list, but for
\* the teams somebody wrote while the call held it.
TeamInv ==
    /\ asked \subseteq Ids \X Things /\ raced \subseteq Ids \X Things /\ TeamsKept
    /\ \A c \in Calls, i \in Ids : HoldsTeams(c, i) =>
          \A t \in Things : <<i, t>> \notin raced => (t \in calls[c].set <=> t \in members[i].teams)

\* A step that changes no list and no copy somebody holds of one.
LEMMA OtherTeams ==
    ASSUME TeamInv, \A i \in Ids : members'[i].teams = members[i].teams, asked' = asked, raced' = raced,
           \A d \in Calls : calls'[d].op \in {"joinTeam", "leaveTeam"} => calls'[d] = calls[d]
    PROVE  TeamInv'
  BY DEF TeamInv, TeamsKept, HoldsTeams

\* A request begins with the list as it is.
LEMMA BeginTeams ==
    ASSUME TeamInv, DOMAIN calls = Calls, NEW c \in Calls, NEW op, NEW x, NEW y, NEW set, NEW pc,
           Begin(c, op, x, y, set, pc), op \in {"joinTeam", "leaveTeam"} => set = members[x].teams
    PROVE  TeamInv'
<1>1. /\ calls'[c].op = op /\ calls'[c].x = x /\ calls'[c].set = set
      /\ \A d \in Calls \ {c} : calls'[d] = calls[d]
      /\ members' = members /\ asked' = asked /\ raced' = raced
  BY DEF Begin, orgVars
<1> QED
  BY <1>1 DEF TeamInv, TeamsKept, HoldsTeams

\* A call writes about its own member and team only; what its copy says of the
\* others is as it was.
LEMMA WriteTeamsKeeps ==
    ASSUME OrganizationInv, TeamInv, NEW c \in Calls, WriteTeams(c)
    PROVE  TeamInv'
<1>1. PICK i : i = calls[c].x
  OBVIOUS
<1>2. PICK t : t = calls[c].y
  OBVIOUS
<1>3. PICK left : left = IF calls[c].op = "joinTeam" THEN calls[c].set \cup {t} ELSE calls[c].set \ {t}
  OBVIOUS
<1>4. /\ DOMAIN calls = Calls /\ members \in [Ids -> Member] /\ Formed(calls[c])
  BY DEF OrganizationInv, CallInv, MemberInv
<1>5. HoldsTeams(c, i) /\ i \in Ids /\ t \in Things
  BY <1>1, <1>2, <1>4 DEF WriteTeams, HoldsTeams, Formed, Task, Idle
<1>6. members' = [members EXCEPT ![i] = [members[i] EXCEPT !.teams = left]] /\ Return(c)
  BY <1>1, <1>2, <1>3 DEF WriteTeams, SetMember
<1>7. /\ members'[i].teams = left
      /\ \A j \in Ids \ {i} : members'[j] = members[j]
  BY <1>4, <1>5, <1>6 DEF Member
<1>8. calls'[c] = Idle /\ \A d \in Calls \ {c} : calls'[d] = calls[d]
  BY <1>4, <1>6 DEF Return
<1>9. /\ asked' = IF calls[c].op = "joinTeam" THEN asked \cup {<<i, t>>} ELSE asked \ {<<i, t>>}
      /\ raced' = IF \E d \in Calls \ {c} : HoldsTeams(d, i)
                  THEN raced \cup {<<i, t>>} ELSE raced \ {<<i, t>>}
  BY <1>1, <1>2 DEF WriteTeams
<1>10. <<i, t>> \in asked' <=> t \in left
  BY <1>3, <1>9
<1>11. asked' \subseteq Ids \X Things /\ raced' \subseteq Ids \X Things
  BY <1>5, <1>9 DEF TeamInv
<1>12. ASSUME NEW j \in Ids, NEW u \in Things, <<j, u>> # <<i, t>>
       PROVE  (<<j, u>> \in raced' <=> <<j, u>> \in raced) /\ (<<j, u>> \in asked' <=> <<j, u>> \in asked)
  BY <1>9, <1>12
<1>13. \A u \in Things \ {t} : <<i, u>> \notin raced => (u \in left <=> u \in members[i].teams)
  BY <1>3, <1>5 DEF TeamInv
<1>14. ASSUME NEW j \in Ids, NEW u \in Things, <<j, u>> # <<i, t>>, <<j, u>> \notin raced
       PROVE  u \in members'[j].teams <=> u \in members[j].teams
  <2>1. CASE j = i
    BY <1>7, <1>13, <1>14, <2>1
  <2>2. CASE j # i
    BY <1>7, <2>2
  <2> QED
    BY <2>1, <2>2
<1>15. TeamsKept'
  <2> SUFFICES ASSUME NEW j \in Ids, NEW u \in Things, <<j, u>> \notin raced'
               PROVE  u \in members'[j].teams <=> <<j, u>> \in asked'
    BY DEF TeamsKept
  <2>1. CASE <<j, u>> = <<i, t>>
    BY <1>7, <1>10, <2>1
  <2>2. CASE <<j, u>> # <<i, t>>
    <3>1. <<j, u>> \notin raced /\ (<<j, u>> \in asked' <=> <<j, u>> \in asked)
      BY <1>12, <2>2
    <3>2. u \in members[j].teams <=> <<j, u>> \in asked
      BY <3>1 DEF TeamInv, TeamsKept
    <3> QED
      BY <1>14, <2>2, <3>1, <3>2
  <2> QED
    BY <2>1, <2>2
<1>16. ASSUME NEW d \in Calls, NEW j \in Ids, HoldsTeams(d, j)', NEW u \in Things, <<j, u>> \notin raced'
       PROVE  u \in calls'[d].set <=> u \in members'[j].teams
  <2>1. d # c /\ calls'[d] = calls[d] /\ HoldsTeams(d, j)
    BY <1>8, <1>16, IdleCall DEF HoldsTeams
  <2>2. <<j, u>> # <<i, t>>
    BY <1>9, <1>16, <2>1
  <2>3. <<j, u>> \notin raced
    BY <1>12, <1>16, <2>2
  <2>4. u \in calls[d].set <=> u \in members[j].teams
    BY <2>1, <2>3 DEF TeamInv
  <2> QED
    BY <1>14, <2>1, <2>2, <2>3, <2>4
<1> QED
  BY <1>11, <1>15, <1>16 DEF TeamInv

LEMMA NextTeams == OrganizationInv /\ TeamInv /\ [Next]_vars => TeamInv'
<1> SUFFICES ASSUME OrganizationInv, TeamInv, [Next]_vars PROVE TeamInv'
  OBVIOUS
<1>1. /\ DOMAIN calls = Calls /\ members \in [Ids -> Member]
      /\ \A i \in Ids : members[i].user = None => members[i].teams = {}
      /\ \A c \in Calls : Formed(calls[c])
  BY DEF OrganizationInv, CallInv, MemberInv
<1>2. ASSUME NEW c \in Calls, NEW i \in Ids, NEW t \in Things, AddToTeam(c, i, t) \/ RemoveFromTeam(c, i, t)
      PROVE  TeamInv'
  BY <1>1, <1>2, BeginTeams DEF AddToTeam, RemoveFromTeam
<1>3. ASSUME NEW c \in Calls, NEW op, NEW x, NEW y, NEW set, NEW pc,
             Begin(c, op, x, y, set, pc), op \notin {"joinTeam", "leaveTeam"}
      PROVE  TeamInv'
  BY <1>1, <1>3, BeginTeams
<1>4. ASSUME NEW c \in Calls, Request(c) PROVE TeamInv'
  <2>1. CASE OrganizationRequest(c) \/ WorkspaceRequest(c) \/ TeamRequest(c) \/ RoleRequest(c)
    BY <1>3, <2>1 DEF OrganizationRequest, WorkspaceRequest, TeamRequest, RoleRequest, CreateOrganization,
                      UpdateOrganization, CreateWorkspace, UpdateWorkspace, CreateTeam, CreateRole
  <2>2. CASE MemberRequest(c) \/ InvitationRequest(c)
    BY <1>3, <2>2 DEF MemberRequest, InvitationRequest, AddMember, UpdateMemberStatus, Invite, Accept
  <2>3. CASE InternalRequest(c)
    <3>1. CASE DeleteOrganization(c) \/ CleanUp(c) \/ \E i \in InvIds : Revoke(c, i)
      <4>1. CASE DeleteOrganization(c)
        BY <1>3, <4>1 DEF DeleteOrganization
      <4>2. CASE CleanUp(c)
        <5>1. \E set : Begin(c, "cleanup", None, None, set, "write")
          BY <4>2 DEF CleanUp
        <5> QED
          BY <1>3, <5>1
      <4>3. CASE \E i \in InvIds : Revoke(c, i)
        BY <1>3, <4>3 DEF Revoke
      <4> QED
        BY <3>1, <4>1, <4>2, <4>3
    <3>2. CASE \E i \in Ids : RemoveMember(c, i) \/ HasPermission(c, i) \/ Invalidate(c, i)
      BY <1>3, <3>2 DEF RemoveMember, HasPermission, Invalidate
    <3>3. CASE \E t \in Things : DeleteTeam(c, t) \/ DeleteWorkspace(c, t) \/ DeleteRole(c, t)
      BY <1>3, <3>3 DEF DeleteTeam, DeleteWorkspace, DeleteRole
    <3>4. ASSUME NEW t \in Things, \/ \E n \in Names : UpdateTeam(c, t, n)
                                  \/ \E ps \in SUBSET Perms : UpdateRole(c, t, ps)
          PROVE  TeamInv'
      BY <1>3, <3>4 DEF UpdateTeam, UpdateRole
    <3> QED
      BY <1>2, <2>3, <3>1, <3>2, <3>3, <3>4 DEF InternalRequest
  <2> QED
    BY <1>4, <2>1, <2>2, <2>3 DEF Request
<1>5. ASSUME NEW c \in Calls, InsertMember(c) \/ WriteMemberStatus(c) PROVE TeamInv'
  <2>1. asked' = asked /\ raced' = raced /\ calls' = [calls EXCEPT ![c] = Idle]
    BY <1>5 DEF InsertMember, WriteMemberStatus, SetMember, Return, teamVars
  <2>2. \A i \in Ids : members'[i].teams = members[i].teams
    <3>1. CASE InsertMember(c)
      <4>1. PICK k \in Ids : ~GetMember(k) /\ SetMember(c, k, [user |-> calls[c].x, status |-> "active", teams |-> {}])
        BY <3>1 DEF InsertMember
      <4>2. members[k].teams = {}
        BY <1>1, <4>1 DEF GetMember
      <4> QED
        BY <1>1, <4>1, <4>2 DEF SetMember
    <3>2. CASE WriteMemberStatus(c)
      <4>1. calls[c].x \in Ids
        BY <1>1, <3>2 DEF WriteMemberStatus, At, Formed, Task, Idle
      <4>2. [members[calls[c].x] EXCEPT !.status = calls[c].y].teams = members[calls[c].x].teams
        BY <1>1, <4>1 DEF Member
      <4> QED
        BY <1>1, <3>2, <4>1, <4>2 DEF WriteMemberStatus, SetMember
    <3> QED
      BY <1>5, <3>1, <3>2
  <2>3. \A d \in Calls : calls'[d].op \in {"joinTeam", "leaveTeam"} => calls'[d] = calls[d]
    BY <1>1, <2>1, IdleCall
  <2> QED
    BY <2>1, <2>2, <2>3, OtherTeams
<1>6. ASSUME NEW c \in Calls,
             \/ WriteOrganization(c) \/ WriteTeam(c) \/ WriteWorkspace(c) \/ InsertRole(c)
             \/ WriteRole(c) \/ RetireRole(c) \/ InsertInvitation(c) \/ WriteAccepted(c)
             \/ DeleteInvitation(c) \/ LookUp(c) \/ GetMemberPermissions(c)
             \/ StorePermissions(c) \/ DropCache(c) \/ Stop(c)
      PROVE  TeamInv'
  <2>1. members' = members /\ asked' = asked /\ raced' = raced
    BY <1>6 DEF orgVars, teamVars, WriteOrganization, WriteTeam, WriteWorkspace, InsertRole, WriteRole,
                RetireRole, InsertInvitation, WriteAccepted, DeleteInvitation, LookUp, GetMemberPermissions,
                StorePermissions, DropCache, Dropped, Stop
  <2>2. /\ \A d \in Calls \ {c} : calls'[d] = calls[d]
        /\ calls'[c] = Idle \/ calls'[c].op \notin {"joinTeam", "leaveTeam"}
    <3>1. CASE calls' = [calls EXCEPT ![c] = Idle]
      BY <1>1, <3>1
    <3>2. CASE DeleteInvitation(c)
      <4>1. calls[c].op \in {"revoke", "cleanup"}
        BY <3>2 DEF DeleteInvitation
      <4>2. PICK i : calls' = [calls EXCEPT ![c].set = @ \ {i}] \/ Return(c)
        BY <3>2 DEF DeleteInvitation
      <4> QED
        BY <1>1, <3>1, <4>1, <4>2 DEF Return, Formed, Shaped
    <3>3. CASE LookUp(c) \/ GetMemberPermissions(c)
      <4>1. calls[c].op = "check"
        BY <3>3 DEF LookUp, GetMemberPermissions, At
      <4>2. PICK pc, set : calls' = [calls EXCEPT ![c].pc = pc, ![c].set = set] \/ Return(c)
        BY <3>3 DEF LookUp, GetMemberPermissions
      <4> QED
        BY <1>1, <3>1, <4>1, <4>2 DEF Return, Formed, Shaped
    <3>4. CASE ~DeleteInvitation(c) /\ ~LookUp(c) /\ ~GetMemberPermissions(c)
      <4>1. calls' = [calls EXCEPT ![c] = Idle]
        BY <1>6, <3>4 DEF WriteOrganization, WriteTeam, WriteWorkspace, InsertRole, WriteRole, RetireRole,
                          InsertInvitation, WriteAccepted, StorePermissions, DropCache, Stop, Return
      <4> QED
        BY <3>1, <4>1
    <3> QED
      BY <3>2, <3>3, <3>4
  <2> QED
    BY <2>1, <2>2, IdleCall, OtherTeams
<1>7. ASSUME NEW j, NEW u, Expire(j) \/ CacheExpires(j) \/ Grant(j, u) \/ GrantExpires(j, u)
      PROVE  TeamInv'
  <2>1. members' = members /\ asked' = asked /\ raced' = raced /\ calls' = calls
    BY <1>7 DEF orgVars, Expire, CacheExpires, Dropped, Grant, GrantExpires
  <2> QED
    BY <2>1, OtherTeams
<1>8. ASSUME NEW c \in Calls, WriteTeams(c) PROVE TeamInv'
  BY <1>8, WriteTeamsKeeps
<1>9. CASE UNCHANGED vars
  <2>1. members' = members /\ asked' = asked /\ raced' = raced /\ calls' = calls
    BY <1>9 DEF vars
  <2> QED
    BY <2>1, OtherTeams
<1> QED
  BY <1>4, <1>5, <1>6, <1>7, <1>8, <1>9 DEF Next, Step

------------------------------------------------------------------------------
(* The theorems *)

\* What every call has looked up still holds when it writes, unless two calls on
\* one subject crossed or the member's permissions changed under the cache.
THEOREM LookedUp == Spec => []OrganizationInv
  BY InitOrganization, NextOrganization, PTL DEF Spec

\* What the calls that are about to write a member's teams hold of them.
THEOREM TeamHistory == Spec => []TeamInv
<1>1. Init => TeamInv
  <2> SUFFICES ASSUME Init PROVE TeamInv
    OBVIOUS
  <2>1. asked = {} /\ raced = {} /\ \A c \in Calls : calls[c] = Idle
    BY DEF Init
  <2>2. \A i \in Ids : members[i].teams = {}
    BY DEF Init
  <2> QED
    BY <2>1, <2>2, IdleCall DEF TeamInv, TeamsKept, HoldsTeams
<1> QED
  BY <1>1, NextTeams, LookedUp, PTL DEF Spec

\* A user is a member once, names are one document's alone, one invitation is
\* open, unless two calls that decide on that crossed.
THEOREM Alone == Spec => []OrgInv
<1>1. OrganizationInv /\ TeamInv => OrgInv
  <2> SUFFICES ASSUME OrganizationInv, TeamInv PROVE OrgInv
    OBVIOUS
  <2>1. TypeOK
    BY DEF OrganizationInv, CallInv, MemberInv, NameInv, InviteInv, PermInv, TeamInv, TypeOK
  <2>2. \A kind \in Kinds, n \in Names : TopicOf[kind] \notin crossed => AtMostOne(Taken(kind, n))
    BY DEF OrganizationInv, NameInv
  <2>3. /\ {"team", "workspace", "role"} = Kinds
        /\ TopicOf["team"] = "team" /\ TopicOf["workspace"] = "workspace" /\ TopicOf["role"] = "newRole"
    BY DEF Kinds, TopicOf
  <2> QED
    BY <2>1, <2>2, <2>3 DEF OrganizationInv, MemberInv, InviteInv, OrgInv
<1> QED
  BY <1>1, LookedUp, TeamHistory, PTL

\* An invitation is honoured once, or never if it was withdrawn first, unless
\* two decisions crossed or an acceptance was cut short.
THEOREM Honoured == Spec => []HonouredOnce
<1>1. OrganizationInv => HonouredOnce
  BY DEF OrganizationInv, InviteInv
<1> QED
  BY <1>1, LookedUp, PTL

\* The cached permissions of a member are those of his roles unless they changed
\* after the cache was last dropped.
THEOREM Cached == Spec => []CacheFresh
<1>1. OrganizationInv => CacheFresh
  BY DEF OrganizationInv, PermInv
<1> QED
  BY <1>1, LookedUp, PTL

\* A member is in a team or not as the call that wrote last about the two left it,
\* whatever requests ran or were cut short, unless that call wrote while another
\* one held a copy of the member's list.
THEOREM Teams == Spec => []TeamsKept
<1>1. TeamInv => TeamsKept
  BY DEF TeamInv
<1> QED
  BY <1>1, TeamHistory, PTL
=============================================================================
