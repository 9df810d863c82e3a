---------------------------- MODULE Organization ----------------------------
(* The services of one organisation in boltchats-api: its members and their  *)
(* teams, its teams, workspaces and roles, its invitations to one address,   *)
(* and the permissions PermissionService caches in Redis.  As in             *)
(* Conversations a service reads, checks and writes some awaits later, and   *)
(* other requests come in between.                                           *)
(*                                                                           *)
(* As written the operations of Unbuildable raise before their first write:  *)
(* Organization, Workspace and Invitation want fields the services leave out *)
(* (slug, owner_id, invited_email), cleanup and PermissionService iterate    *)
(* over the one document that find returns.  Mended names those a deployment *)
(* is taken to have mended.  The unique index of the members is made by a    *)
(* migration alone and not counted on here.                                  *)
EXTENDS Naturals, FiniteSets

CONSTANTS
    Calls,          \* requests in flight
    Users, Ids,     \* users, member documents
    Things, Names,  \* documents of teams, workspaces and roles, their names
    Perms, InvIds,  \* permissions, invitation documents
    None, Mended,
    MaxCalls        \* requests in a behaviour

ASSUME NoneAssumption == None \notin Users \cup Names
ASSUME CallsAssumption == MaxCalls \in Nat

VARIABLES
    org,            \* the organisation: its name and whether it is deleted
    members, named, invitations,
    perms, grants,  \* of roles, and who has which role
    cache,          \* Redis: the permissions stored for a member
    calls, started,
    honoured,       \* history: how often the acceptance of an invitation was answered
    crossed, cut,   \* history: what two calls overlapped on, operations cut short
    dirty,          \* history: members whose permissions changed since their cache was dropped
    asked,          \* history: who is in which team, as the calls that wrote last about it left it
    raced           \* history: what was so written while another call held a copy of the list

teamVars == <<asked, raced>>
orgVars == <<org, members, named, asked, raced>>
inviteVars == <<invitations, honoured>>
permVars == <<perms, grants, cache, dirty>>
vars == <<org, members, named, invitations, honoured, perms, grants, cache, dirty,
          calls, started, crossed, cut, asked, raced>>

------------------------------------------------------------------------------
(* The documents: the fields these services read or write.                 *)

MemberStatus == {"active", "inactive", "invited", "suspended"}
OrganizationDoc == [state : {"absent", "active", "deleted"}, name : Names]
Member == [user : Users \cup {None}, status : MemberStatus, teams : SUBSET Things]
Kinds == {"team", "workspace", "role"}
Team == [name : Names \cup {None}, deleted : BOOLEAN]
Invitation == [state : {"none", "pending", "accepted", "gone"}, expired : BOOLEAN]

Unbuildable == {"createOrganization", "newWorkspace", "invite", "cleanup", "check"}

\* What two overlapping calls may both insert, or both decide on.
Topic(op) ==
    CASE op \in {"newTeam", "renameTeam"} -> "team"
      [] op \in {"newWorkspace", "renameWorkspace"} -> "workspace"
      [] op \in {"accept", "revoke", "cleanup"} -> "decision"
      [] OTHER -> op

Idle == [op |-> "idle", x |-> None, y |-> None, set |-> {}, pc |-> "idle"]

Begin(c, op, x, y, set, pc) ==
    /\ calls[c] = Idle /\ started < MaxCalls /\ (op \in Unbuildable => op \in Mended)
    /\ started' = started + 1
    /\ calls' = [calls EXCEPT ![c] = [op |-> op, x |-> x, y |-> y, set |-> set, pc |-> pc]]
    /\ crossed' = crossed \cup
          {Topic(op) : d \in {d \in Calls : Topic(calls[d].op) = Topic(op)}}
    /\ UNCHANGED <<orgVars, inviteVars, permVars, cut>>

At(c, op, pc) == calls[c].op = op /\ calls[c].pc = pc
Return(c) == calls' = [calls EXCEPT ![c] = Idle] /\ UNCHANGED <<started, crossed, cut>>

GetActive == org.state = "active"

------------------------------------------------------------------------------
(* The organisation *)

CreateOrganization(c, n) == org.state = "absent" /\ Begin(c, "createOrganization", n, None, {}, "write")
UpdateOrganization(c, n) == org.state # "absent" /\ Begin(c, "updateOrganization", n, None, {}, "write")
DeleteOrganization(c) == org.state # "absent" /\ Begin(c, "deleteOrganization", None, None, {}, "write")
WriteOrganization(c) ==
    /\ \/ At(c, "createOrganization", "write") /\ org' = [state |-> "active", name |-> calls[c].x]
       \/ At(c, "updateOrganization", "write") /\ org' = [org EXCEPT !.name = calls[c].x]
       \/ At(c, "deleteOrganization", "write") /\ org' = [org EXCEPT !.state = "deleted"]
    /\ Return(c) /\ UNCHANGED <<members, named, teamVars, inviteVars, permVars>>

------------------------------------------------------------------------------
(* Members and their teams *)

MembersOf(u) == {i \in Ids : members[i].user = u}
GetMember(i) == members[i].user # None

SetMember(c, i, doc) ==
    /\ members' = [members EXCEPT ![i] = doc]
    /\ Return(c) /\ UNCHANGED <<org, named, inviteVars, permVars>>

\* Mutant: the membership is not looked up first.
AddMember_Unchecked(c, u) == GetActive /\ Begin(c, "addMember", u, None, {}, "write")

AddMember(c, u) == GetActive /\ MembersOf(u) = {} /\ Begin(c, "addMember", u, None, {}, "write")
InsertMember(c) ==
    /\ At(c, "addMember", "write")
    /\ \E i \in Ids : ~GetMember(i)
                      /\ SetMember(c, i, [user |-> calls[c].x, status |-> "active", teams |-> {}])
    /\ UNCHANGED teamVars

RemoveMember(c, i) == GetMember(i) /\ Begin(c, "status", i, "inactive", {}, "write")
UpdateMemberStatus(c, i, s) == GetMember(i) /\ Begin(c, "status", i, s, {}, "write")
\* Mutant: the member is written anew, without the teams.
WriteMemberStatus_Anew(c) ==
    /\ At(c, "status", "write")
    /\ SetMember(c, calls[c].x, [members[calls[c].x] EXCEPT !.status = calls[c].y, !.teams = {}])
    /\ UNCHANGED teamVars

WriteMemberStatus(c) ==
    /\ At(c, "status", "write")
    /\ SetMember(c, calls[c].x, [members[calls[c].x] EXCEPT !.status = calls[c].y])
    /\ UNCHANGED teamVars

\* The whole list of the copy that was read is written back, with one change;
\* nothing asks whether the team exists.
AddToTeam(c, i, t) ==
    GetMember(i) /\ t \notin members[i].teams /\ Begin(c, "joinTeam", i, t, members[i].teams, "write")
RemoveFromTeam(c, i, t) ==
    GetMember(i) /\ t \in members[i].teams /\ Begin(c, "leaveTeam", i, t, members[i].teams, "write")
HoldsTeams(c, i) == calls[c].op \in {"joinTeam", "leaveTeam"} /\ calls[c].x = i
WriteTeams(c) ==
    /\ calls[c].op \in {"joinTeam", "leaveTeam"}
    /\ SetMember(c, calls[c].x, [members[calls[c].x] EXCEPT !.teams =
            IF calls[c].op = "joinTeam" THEN calls[c].set \cup {calls[c].y} ELSE calls[c].set \ {calls[c].y}])
    /\ LET pair == <<calls[c].x, calls[c].y>>
       IN  /\ asked' = IF calls[c].op = "joinTeam" THEN asked \cup {pair} ELSE asked \ {pair}
           /\ raced' = IF \E d \in Calls \ {c} : HoldsTeams(d, calls[c].x)
                       THEN raced \cup {pair} ELSE raced \ {pair}

------------------------------------------------------------------------------
(* Teams, workspaces and roles: documents with a name.  The repositories of  *)
(* the first two ignore deleted documents when they look for a name, a role  *)
(* keeps its name, and its permissions, when it is deleted.                  *)

Taken(kind, n) ==
    {t \in Things : named[<<kind, t>>].name = n /\ (kind = "role" \/ ~named[<<kind, t>>].deleted)}
Get(kind, t) == named[<<kind, t>>].name # None
FreeFor(kind, n, t) == Taken(kind, n) = {} \/ t \in Taken(kind, n)

SetNamed(kind, t, doc) == named' = [named EXCEPT ![<<kind, t>>] = doc]
InsertNamed(c, kind) ==
    \E t \in Things : ~Get(kind, t) /\ SetNamed(kind, t, [name |-> calls[c].x, deleted |-> FALSE])
Rename(c, kind) == SetNamed(kind, calls[c].x, [named[<<kind, calls[c].x>>] EXCEPT !.name = calls[c].y])
Retire(c, kind) == SetNamed(kind, calls[c].x, [named[<<kind, calls[c].x>>] EXCEPT !.deleted = TRUE])

CreateTeam(c, n) == GetActive /\ Taken("team", n) = {} /\ Begin(c, "newTeam", n, None, {}, "write")
UpdateTeam(c, t, n) == Get("team", t) /\ FreeFor("team", n, t) /\ Begin(c, "renameTeam", t, n, {}, "write")
DeleteTeam(c, t) == Get("team", t) /\ Begin(c, "deleteTeam", t, None, {}, "write")
WriteTeam(c) ==
    /\ \/ At(c, "newTeam", "write") /\ InsertNamed(c, "team")
       \/ At(c, "renameTeam", "write") /\ Rename(c, "team")
       \/ At(c, "deleteTeam", "write") /\ Retire(c, "team")
    /\ Return(c) /\ UNCHANGED <<org, members, teamVars, inviteVars, permVars>>

CreateWorkspace(c, n) ==
    GetActive /\ Taken("workspace", n) = {} /\ Begin(c, "newWorkspace", n, None, {}, "write")
UpdateWorkspace(c, t, n) ==
    Get("workspace", t) /\ FreeFor("workspace", n, t) /\ Begin(c, "renameWorkspace", t, n, {}, "write")
DeleteWorkspace(c, t) == Get("workspace", t) /\ Begin(c, "deleteWorkspace", t, None, {}, "write")
WriteWorkspace(c) ==
    /\ \/ At(c, "newWorkspace", "write") /\ InsertNamed(c, "workspace")
       \/ At(c, "renameWorkspace", "write") /\ Rename(c, "workspace")
       \/ At(c, "deleteWorkspace", "write") /\ Retire(c, "workspace")
    /\ Return(c) /\ UNCHANGED <<org, members, teamVars, inviteVars, permVars>>

HeldBy(t) == {i \in Ids : <<i, t>> \in grants}
CreateRole(c, n, ps) == Taken("role", n) = {} /\ Begin(c, "newRole", n, None, ps, "write")
UpdateRole(c, t, ps) == Get("role", t) /\ Begin(c, "updateRole", t, None, ps, "write")
DeleteRole(c, t) == Get("role", t) /\ Begin(c, "deleteRole", t, None, {}, "write")
InsertRole(c) ==
    /\ At(c, "newRole", "write")
    /\ \E t \in Things :
        /\ ~Get("role", t) /\ SetNamed("role", t, [name |-> calls[c].x, deleted |-> FALSE])
        /\ perms' = [perms EXCEPT ![t] = calls[c].set]
    /\ Return(c) /\ UNCHANGED <<org, members, teamVars, inviteVars, grants, cache, dirty>>
WriteRole(c) ==
    /\ At(c, "updateRole", "write")
    /\ perms' = [perms EXCEPT ![calls[c].x] = calls[c].set]
    /\ dirty' = dirty \cup HeldBy(calls[c].x)
    /\ Return(c) /\ UNCHANGED <<orgVars, inviteVars, grants, cache>>
RetireRole(c) ==
    /\ At(c, "deleteRole", "write") /\ Retire(c, "role")
    /\ Return(c) /\ UNCHANGED <<org, members, teamVars, inviteVars, permVars>>

------------------------------------------------------------------------------
(* Invitations *)

Undecided == {i \in InvIds : invitations[i].state = "pending"}

\* An expired invitation that nobody cleaned up still stands in the way.
Invite(c) == GetActive /\ Undecided = {} /\ Begin(c, "invite", None, None, {}, "write")
InsertInvitation(c) ==
    /\ At(c, "invite", "write")
    /\ \E i \in InvIds : invitations[i].state = "none"
                         /\ invitations' = [invitations EXCEPT ![i].state = "pending"]
    /\ Return(c) /\ UNCHANGED <<orgVars, honoured, permVars>>

\* Mutant: an invitation that was accepted may be accepted again.
Accept_Again(c, i) ==
    /\ invitations[i].state \in {"pending", "accepted"} /\ ~invitations[i].expired
    /\ Begin(c, "accept", i, None, {}, "write")

\* The update reports whether it changed the document; the service answers with
\* the organisation and the role whatever it reports.
Accept(c, i) ==
    i \in Undecided /\ ~invitations[i].expired /\ Begin(c, "accept", i, None, {}, "write")
Honour(c) == honoured' = [honoured EXCEPT ![calls[c].x] = @ + 1]
WriteAccepted(c) ==
    /\ At(c, "accept", "write")
    /\ invitations' = [invitations EXCEPT ![calls[c].x].state = IF @ = "gone" THEN @ ELSE "accepted"]
    /\ Honour(c) /\ Return(c) /\ UNCHANGED <<orgVars, permVars>>

\* Both delete by id what they found undecided when they looked.
Revoke(c, i) == i \in Undecided /\ Begin(c, "revoke", i, None, {i}, "write")
CleanUp(c) ==
    LET found == {i \in Undecided : invitations[i].expired}
    IN found # {} /\ Begin(c, "cleanup", None, None, found, "write")
DeleteInvitation(c) ==
    /\ calls[c].op \in {"revoke", "cleanup"}
    /\ \E i \in calls[c].set :
        /\ invitations' = [invitations EXCEPT ![i].state = "gone"]
        /\ IF calls[c].set = {i}
           THEN Return(c)
           ELSE /\ calls' = [calls EXCEPT ![c].set = @ \ {i}] /\ UNCHANGED <<started, crossed, cut>>
    /\ UNCHANGED <<orgVars, honoured, permVars>>

Expire(i) ==
    /\ i \in Undecided /\ ~invitations[i].expired
    /\ invitations' = [invitations EXCEPT ![i].expired = TRUE]
    /\ UNCHANGED <<orgVars, honoured, permVars, calls, started, crossed, cut>>

------------------------------------------------------------------------------
(* Permissions: GET of the cache, or the member's roles, the permissions of  *)
(* each, and SETEX of what was found.  An empty list is stored as an empty   *)
(* string, which the next GET takes for a miss.                              *)

Holds(i) == UNION {perms[t] : t \in {t \in Things : <<i, t>> \in grants}}
Checking(i) == {c \in Calls : calls[c].op = "check" /\ calls[c].x = i /\ calls[c].pc # "get"}

HasPermission(c, i) == GetMember(i) /\ Begin(c, "check", i, None, {}, "get")
LookUp(c) ==
    /\ At(c, "check", "get")
    /\ IF cache[calls[c].x] # {} THEN Return(c)
       ELSE /\ calls' = [calls EXCEPT ![c].pc = "roles",
                                     ![c].set = {t \in Things : <<calls[c].x, t>> \in grants}]
            /\ UNCHANGED <<started, crossed, cut>>
    /\ UNCHANGED <<orgVars, inviteVars, permVars>>
\* Mutant: the roles of the organisation instead of the member's.
GetMemberPermissions_AllRoles(c) ==
    /\ At(c, "check", "roles")
    /\ calls' = [calls EXCEPT ![c].pc = "store", ![c].set = UNION {perms[t] : t \in Things}]
    /\ UNCHANGED <<orgVars, inviteVars, permVars, started, crossed, cut>>

GetMemberPermissions(c) ==
    /\ At(c, "check", "roles")
    /\ calls' = [calls EXCEPT ![c].pc = "store", ![c].set = UNION {perms[t] : t \in @}]
    /\ UNCHANGED <<orgVars, inviteVars, permVars, started, crossed, cut>>
StorePermissions(c) ==
    /\ At(c, "check", "store")
    /\ cache' = [cache EXCEPT ![calls[c].x] = calls[c].set]
    /\ Return(c) /\ UNCHANGED <<orgVars, inviteVars, perms, grants, dirty>>

\* DEL by invalidate_member_permissions, or the hour is over.  A check that has
\* begun to read may still store what it found before.
Dropped(i) ==
    /\ cache' = [cache EXCEPT ![i] = {}]
    /\ dirty' = IF Checking(i) = {} THEN dirty \ {i} ELSE dirty
    /\ UNCHANGED <<orgVars, inviteVars, perms, grants>>
Invalidate(c, i) == GetMember(i) /\ Begin(c, "invalidate", i, None, {}, "write")
DropCache(c) == At(c, "invalidate", "write") /\ Dropped(calls[c].x) /\ Return(c)
CacheExpires(i) == cache[i] # {} /\ Dropped(i) /\ UNCHANGED <<calls, started, crossed, cut>>

\* Registration grants roles; a grant ends when its expires_at is reached.
Grant(i, t) ==
    /\ GetMember(i) /\ Get("role", t) /\ <<i, t>> \notin grants
    /\ grants' = grants \cup {<<i, t>>} /\ dirty' = dirty \cup {i}
    /\ UNCHANGED <<orgVars, inviteVars, perms, cache, calls, started, crossed, cut>>
GrantExpires(i, t) ==
    /\ <<i, t>> \in grants
    /\ grants' = grants \ {<<i, t>>} /\ dirty' = dirty \cup {i}
    /\ UNCHANGED <<orgVars, inviteVars, perms, cache, calls, started, crossed, cut>>

------------------------------------------------------------------------------
(* The endpoints of routers/organizations.py, and what only other code calls. *)

OrganizationRequest(c) == \E n \in Names : CreateOrganization(c, n) \/ UpdateOrganization(c, n)
WorkspaceRequest(c) ==
    \E n \in Names : CreateWorkspace(c, n) \/ \E t \in Things : UpdateWorkspace(c, t, n)
MemberRequest(c) ==
    \/ \E u \in Users : AddMember(c, u)
    \/ \E i \in Ids, s \in MemberStatus : UpdateMemberStatus(c, i, s)
TeamRequest(c) == \E n \in Names : CreateTeam(c, n)
RoleRequest(c) == \E n \in Names, ps \in SUBSET Perms : CreateRole(c, n, ps)
InvitationRequest(c) == Invite(c) \/ \E i \in InvIds : Accept(c, i)
InternalRequest(c) ==
    \/ DeleteOrganization(c) \/ CleanUp(c) \/ \E i \in InvIds : Revoke(c, i)
    \/ \E i \in Ids : RemoveMember(c, i) \/ HasPermission(c, i) \/ Invalidate(c, i)
    \/ \E i \in Ids, t \in Things : AddToTeam(c, i, t) \/ RemoveFromTeam(c, i, t)
    \/ \E t \in Things : DeleteTeam(c, t) \/ DeleteWorkspace(c, t) \/ DeleteRole(c, t)
    \/ \E t \in Things, n \in Names : UpdateTeam(c, t, n)
    \/ \E t \in Things, ps \in SUBSET Perms : UpdateRole(c, t, ps)
Request(c) ==
    OrganizationRequest(c) \/ WorkspaceRequest(c) \/ MemberRequest(c) \/ TeamRequest(c)
        \/ RoleRequest(c) \/ InvitationRequest(c) \/ InternalRequest(c)

Step(c) ==
    \/ WriteOrganization(c) \/ InsertMember(c) \/ WriteMemberStatus(c) \/ WriteTeams(c)
    \/ WriteTeam(c) \/ WriteWorkspace(c) \/ InsertRole(c) \/ WriteRole(c) \/ RetireRole(c)
    \/ InsertInvitation(c) \/ WriteAccepted(c) \/ DeleteInvitation(c)
    \/ LookUp(c) \/ GetMemberPermissions(c) \/ StorePermissions(c) \/ DropCache(c)

\* The worker dies or the driver raises; an update that failed answers False,
\* and an acceptance is answered all the same.
Stop(c) ==
    /\ calls[c] # Idle
    /\ (UNCHANGED honoured \/ (calls[c].op = "accept" /\ Honour(c)))
    /\ cut' = cut \cup {calls[c].op}
    /\ calls' = [calls EXCEPT ![c] = Idle]
    /\ UNCHANGED <<orgVars, invitations, permVars, started, crossed>>

\* What a registration leaves: an organisation with its owner and a role.
Init ==
    /\ org \in [state : {"absent", "active"}, name : Names]
    /\ \E u \in Users, i \in Ids, t \in Things, n \in Names :
        /\ members = [k \in Ids |-> [user |-> IF k = i THEN u ELSE None, status |-> "active", teams |-> {}]]
        /\ named = [k \in Kinds \X Things |-> [name |-> IF k = <<"role", t>> THEN n ELSE None, deleted |-> FALSE]]
        /\ grants = {<<i, t>>}
        /\ perms \in {[k \in Things |-> IF k = t THEN ps ELSE {}] : ps \in SUBSET Perms \ {{}}}
    /\ invitations = [i \in InvIds |-> [state |-> "none", expired |-> FALSE]]
    /\ cache = [i \in Ids |-> {}] /\ honoured = [i \in InvIds |-> 0]
    /\ calls = [c \in Calls |-> Idle] /\ started = 0
    /\ crossed = {} /\ cut = {} /\ dirty = {} /\ asked = {} /\ raced = {}

Next ==
    \/ \E c \in Calls : Request(c) \/ Step(c) \/ Stop(c)
    \/ \E i \in InvIds : Expire(i)
    \/ \E i \in Ids : CacheExpires(i)
    \/ \E i \in Ids, t \in Things : Grant(i, t) \/ GrantExpires(i, t)

Spec == Init /\ [][Next]_vars

------------------------------------------------------------------------------
(* Properties *)

TypeOK ==
    /\ org \in OrganizationDoc /\ members \in [Ids -> Member] /\ named \in [Kinds \X Things -> Team]
    /\ invitations \in [InvIds -> Invitation] /\ honoured \in [InvIds -> Nat]
    /\ perms \in [Things -> SUBSET Perms] /\ grants \subseteq Ids \X Things
    /\ cache \in [Ids -> SUBSET Perms] /\ dirty \subseteq Ids
    /\ DOMAIN calls = Calls /\ started \in 0 .. MaxCalls
    /\ asked \subseteq Ids \X Things /\ raced \subseteq Ids \X Things

AtMostOne(S) == \A x, y \in S : x = y

\* A user is a member once, a live team or workspace and any role has its name
\* alone, and one invitation is open, as long as no two such calls overlapped.
OrgInv ==
    /\ TypeOK
    /\ "addMember" \notin crossed => \A u \in Users : AtMostOne(MembersOf(u))
    /\ \A kind \in {"team", "workspace"}, n \in Names : kind \notin crossed => AtMostOne(Taken(kind, n))
    /\ "newRole" \notin crossed => \A n \in Names : AtMostOne(Taken("role", n))
    /\ "invite" \notin crossed => AtMostOne(Undecided)

\* An invitation is honoured once, and not at all when it was revoked or cleaned
\* up first, as long as no two decisions overlapped and no update was lost.
HonouredOnce ==
    ("decision" \notin crossed /\ "accept" \notin cut) =>
        \A i \in InvIds : honoured[i] = IF invitations[i].state = "accepted" THEN 1 ELSE 0

\* What the cache says of a member is what the database says, unless a role
\* changed and nobody dropped the cache, or a check read around the drop.
CacheFresh == \A i \in Ids \ dirty : cache[i] \in {{}, Holds(i)}

\* A member is in a team, or not, as the last call that wrote about the two left
\* it, whatever calls ran in between: one is lost only where it was written while
\* another call was between its read of the member's list and its write.
TeamsKept ==
    \A i \in Ids, t \in Things :
        <<i, t>> \notin raced => (t \in members[i].teams <=> <<i, t>> \in asked)
=============================================================================
