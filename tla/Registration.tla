---------------------------- MODULE Registration ----------------------------
(***************************************************************************)
(* POST /auth/register and POST /auth/verify-email of boltchats-api.       *)
(*                                                                         *)
(* A registration is a row of inserts into seven collections and one       *)
(* Redis key, each an await of its own, with no transaction around them    *)
(* and one compensation: the user is deleted when the slug of his          *)
(* organisation turns out to be taken.  The unique indexes on users.email  *)
(* and organizations.slug, created when the API starts, decide races.      *)
(*                                                                         *)
(* A registration creates at most one document of each kind, so a document *)
(* carries the name of the registration that made it.                      *)
(***************************************************************************)
EXTENDS Naturals

CONSTANTS
    Registrations,  \* the registrations that are ever attempted
    Emails,
    Slugs,
    MaxFaults       \* bound on steps that raise and on workers that die

ASSUME FaultAssumption == MaxFaults \in Nat

VARIABLES
    pc,          \* where the registration stands
    email, slug, \* its input, fixed when it starts
    users, orgs, workspaces, members, owners, \* documents, by registration
    roles,       \* how many of the default roles were inserted, in their order
    labels,      \* how many of the default labels were inserted
    key,         \* Redis: email_verification:{user} is present
    mailed,      \* somebody holds the verification link
    emailVerified, \* users.email_verified
    expired,     \* the JWT of the link has expired
    stray,       \* history: deleting the user failed
    faults

input == <<email, slug>>
tenant == <<workspaces, members, owners, roles, labels>>
docs == <<users, orgs, tenant>>
link == <<key, mailed, emailVerified, expired>>
registrationVars == <<pc, input, docs, link, stray, faults>>

Roles == 4   \* admin, manager, agent, viewer
Labels == 6  \* New, Waiting, Urgent, VIP, Spam, Resolved

Serving == {"email", "slug", "user", "org", "undo", "workspace", "roles", "labels",
            "member", "owner", "token", "mail"}
Answers == {"ok", "conflict", "failed"}

RegistrationTypeOK ==
    /\ pc \in [Registrations -> {"idle", "lost"} \cup Serving \cup Answers]
    /\ email \in [Registrations -> Emails] /\ slug \in [Registrations -> Slugs]
    /\ users \subseteq Registrations /\ orgs \subseteq Registrations
    /\ workspaces \subseteq Registrations /\ members \subseteq Registrations
    /\ owners \subseteq Registrations
    /\ roles \in [Registrations -> 0..Roles] /\ labels \in [Registrations -> 0..Labels]
    /\ key \subseteq Registrations /\ mailed \subseteq Registrations
    /\ emailVerified \subseteq Registrations /\ expired \subseteq Registrations
    /\ stray \subseteq Registrations
    /\ faults \in 0..MaxFaults

RegistrationInit ==
    /\ pc = [r \in Registrations |-> "idle"]
    /\ email \in [Registrations -> Emails] /\ slug \in [Registrations -> Slugs]
    /\ users = {} /\ orgs = {} /\ workspaces = {} /\ members = {} /\ owners = {}
    /\ roles = [r \in Registrations |-> 0] /\ labels = [r \in Registrations |-> 0]
    /\ key = {} /\ mailed = {} /\ emailVerified = {} /\ expired = {}
    /\ stray = {} /\ faults = 0

-----------------------------------------------------------------------------
(* AuthenticationService.register *)

At(r, here) == pc[r] = here
GoTo(r, there) == pc' = [pc EXCEPT ![r] = there]

EmailTaken(r) == \E u \in users : email[u] = email[r]
SlugTaken(r) == \E o \in orgs : slug[o] = slug[r]

Start(r) ==
    /\ At(r, "idle") /\ GoTo(r, "email")
    /\ UNCHANGED <<input, docs, link, stray, faults>>

\* The two checks before anything is written.
CheckEmail(r) ==
    /\ At(r, "email") /\ GoTo(r, IF EmailTaken(r) THEN "conflict" ELSE "slug")
    /\ UNCHANGED <<input, docs, link, stray, faults>>

CheckSlug(r) ==
    /\ At(r, "slug") /\ GoTo(r, IF SlugTaken(r) THEN "conflict" ELSE "user")
    /\ UNCHANGED <<input, docs, link, stray, faults>>

\* Mutant: no unique index, the check before is trusted.
CreateUser_NoIndex(r) ==
    /\ At(r, "user")
    /\ users' = users \cup {r} /\ GoTo(r, "org")
    /\ UNCHANGED <<input, orgs, tenant, link, stray, faults>>

\* insert_one, or DuplicateKeyError from the index on email.
CreateUser(r) ==
    /\ At(r, "user")
    /\ \/ ~EmailTaken(r) /\ users' = users \cup {r} /\ GoTo(r, "org")
       \/ EmailTaken(r) /\ users' = users /\ GoTo(r, "conflict")
    /\ UNCHANGED <<input, orgs, tenant, link, stray, faults>>

\* Mutant: a lost race for the slug is answered at once.
CreateOrganization_NoUndo(r) ==
    /\ At(r, "org")
    /\ \/ ~SlugTaken(r) /\ orgs' = orgs \cup {r} /\ GoTo(r, "workspace")
       \/ SlugTaken(r) /\ orgs' = orgs /\ GoTo(r, "conflict")
    /\ UNCHANGED <<input, users, tenant, link, stray, faults>>

CreateOrganization(r) ==
    /\ At(r, "org")
    /\ \/ ~SlugTaken(r) /\ orgs' = orgs \cup {r} /\ GoTo(r, "workspace")
       \/ SlugTaken(r) /\ orgs' = orgs /\ GoTo(r, "undo")
    /\ UNCHANGED <<input, users, tenant, link, stray, faults>>

\* users.delete, then ConflictError.
UndoUser(r) ==
    /\ At(r, "undo")
    /\ users' = users \ {r}
    /\ GoTo(r, "conflict")
    /\ UNCHANGED <<input, orgs, tenant, link, stray, faults>>

\* BaseRepository.delete swallows what goes wrong; register does not look.
UndoFails(r) ==
    /\ At(r, "undo") /\ faults < MaxFaults
    /\ faults' = faults + 1
    /\ stray' = stray \cup {r}
    /\ GoTo(r, "conflict")
    /\ UNCHANGED <<input, docs, link>>

CreateWorkspace(r) ==
    /\ At(r, "workspace")
    /\ workspaces' = workspaces \cup {r} /\ GoTo(r, "roles")
    /\ UNCHANGED <<input, users, orgs, members, owners, roles, labels, link, stray, faults>>

\* seed_default_roles: one insert after the other, admin first.
SeedRole(r) ==
    /\ At(r, "roles")
    /\ roles' = [roles EXCEPT ![r] = @ + 1]
    /\ GoTo(r, IF roles[r] + 1 = Roles THEN "labels" ELSE "roles")
    /\ UNCHANGED <<input, users, orgs, workspaces, members, owners, labels, link, stray, faults>>

\* Mutant: a label that cannot be inserted is skipped with the rest of them.
SeedLabel_BestEffort(r) ==
    /\ At(r, "labels")
    /\ \/ /\ labels' = [labels EXCEPT ![r] = @ + 1]
          /\ GoTo(r, IF labels[r] + 1 = Labels THEN "member" ELSE "labels")
       \/ labels' = labels /\ GoTo(r, "member")
    /\ UNCHANGED <<input, users, orgs, workspaces, members, owners, roles, link, stray, faults>>

SeedLabel(r) ==
    /\ At(r, "labels")
    /\ labels' = [labels EXCEPT ![r] = @ + 1]
    /\ GoTo(r, IF labels[r] + 1 = Labels THEN "member" ELSE "labels")
    /\ UNCHANGED <<input, users, orgs, workspaces, members, owners, roles, link, stray, faults>>

CreateMember(r) ==
    /\ At(r, "member")
    /\ members' = members \cup {r} /\ GoTo(r, "owner")
    /\ UNCHANGED <<input, users, orgs, workspaces, owners, roles, labels, link, stray, faults>>

\* member_roles: the admin role for the owner.
AssignAdmin(r) ==
    /\ At(r, "owner")
    /\ owners' = owners \cup {r} /\ GoTo(r, "token")
    /\ UNCHANGED <<input, users, orgs, workspaces, members, roles, labels, link, stray, faults>>

-----------------------------------------------------------------------------
(* The rest of the handler, and verify_email *)

\* create_email_verification_token: SETEX.
CreateLink(r) ==
    /\ At(r, "token")
    /\ key' = key \cup {r} /\ GoTo(r, "mail")
    /\ UNCHANGED <<input, docs, mailed, emailVerified, expired, stray, faults>>

\* Mutant: the answer carries no link, and the mail may be lost.
Answer_NoLink(r) ==
    /\ At(r, "mail")
    /\ mailed' \in {mailed, mailed \cup {r}} /\ GoTo(r, "ok")
    /\ UNCHANGED <<input, docs, key, emailVerified, expired, stray, faults>>

\* The mail is best effort; the answer carries the link as well.
Answer(r) ==
    /\ At(r, "mail")
    /\ mailed' = mailed \cup {r} /\ GoTo(r, "ok")
    /\ UNCHANGED <<input, docs, key, emailVerified, expired, stray, faults>>

\* Mutant: the compensation of a lost race made general, and still incomplete.
Fail_DeletesUser(r) ==
    /\ pc[r] \in Serving /\ faults < MaxFaults
    /\ faults' = faults + 1
    /\ users' = users \ {r} /\ GoTo(r, "failed")
    /\ UNCHANGED <<input, orgs, tenant, link, stray>>

\* Any other exception is answered with 400, and a worker that dies gives no
\* answer: what was written stays.  A mail may have left.  (A write that reaches
\* the database although the call raises is the write and a fault at the next
\* step.)
Fail(r) ==
    /\ pc[r] \in Serving /\ faults < MaxFaults
    /\ faults' = faults + 1
    /\ \E there \in {"failed", "lost"} : GoTo(r, there)
    /\ mailed' \in IF At(r, "mail") THEN {mailed, mailed \cup {r}} ELSE {mailed}
    /\ UNCHANGED <<input, docs, key, emailVerified, expired, stray>>

\* verify_email: the JWT alone decides, the Redis key is only deleted.
VerifyEmail(r) ==
    /\ r \in mailed /\ r \notin expired
    /\ r \in users
    /\ emailVerified' = emailVerified \cup {r}
    /\ key' = key \ {r}
    /\ UNCHANGED <<pc, input, docs, mailed, expired, stray, faults>>

\* The delete raises after the update: the answer is 401, the address is verified.
VerifyBreaks(r) ==
    /\ r \in mailed /\ r \notin expired
    /\ r \in users /\ faults < MaxFaults
    /\ emailVerified' = emailVerified \cup {r} /\ faults' = faults + 1
    /\ UNCHANGED <<pc, input, docs, key, mailed, expired, stray>>

ExpireLink(r) ==
    /\ r \in key \cup mailed
    /\ expired' = expired \cup {r} /\ key' = key \ {r}
    /\ UNCHANGED <<pc, input, docs, mailed, emailVerified, stray, faults>>

-----------------------------------------------------------------------------
Step(r) ==
    \/ CheckEmail(r) \/ CheckSlug(r) \/ CreateUser(r) \/ CreateOrganization(r) \/ UndoUser(r)
    \/ CreateWorkspace(r) \/ SeedRole(r) \/ SeedLabel(r) \/ CreateMember(r) \/ AssignAdmin(r)
    \/ CreateLink(r) \/ Answer(r)

RegistrationNext ==
    \E r \in Registrations :
        \/ Start(r) \/ Step(r) \/ UndoFails(r) \/ Fail(r)
        \/ VerifyEmail(r) \/ VerifyBreaks(r) \/ ExpireLink(r)

RegistrationSpec == RegistrationInit /\ [][RegistrationNext]_registrationVars

RegistrationFairSpec == RegistrationSpec /\ \A r \in Registrations : WF_registrationVars(Step(r))

-----------------------------------------------------------------------------
(* Properties *)

Complete(r) ==
    /\ r \in users /\ r \in orgs /\ r \in workspaces
    /\ roles[r] = Roles /\ labels[r] = Labels
    /\ r \in members /\ r \in owners

\* Whatever failed and whatever raced, an address can be verified, and so a user
\* can log in, only when the whole organisation is there: an active member with
\* the admin role, every default role and label.
VerifiedIsComplete == \A r \in emailVerified : Complete(r)

\* Two accounts never share an address, two organisations never share a slug,
\* though both checks are made awaits before the inserts.
AccountsUnique ==
    /\ \A u1, u2 \in users : email[u1] = email[u2] => u1 = u2
    /\ \A o1, o2 \in orgs : slug[o1] = slug[o2] => o1 = o2

\* A registration refused with 409 leaves no document behind, unless the delete
\* itself went wrong: it does not block a later one.
ConflictLeavesNothing ==
    \A r \in Registrations :
        pc[r] = "conflict" =>
            r \notin orgs \cup workspaces \cup members \cup owners
            /\ (r \in users => r \in stray)

\* The compensation never takes an account away from an organisation it owns.
OwnerRemains == \A r \in orgs : r \in users

\* Why these hold.  Documents appear in one order, and only the first of them is
\* ever deleted, before the second exists.
Chain ==
    \A r \in Registrations :
        /\ r \in orgs => r \in users
        /\ r \in workspaces => r \in orgs
        /\ roles[r] > 0 => r \in workspaces
        /\ labels[r] > 0 => roles[r] = Roles
        /\ r \in members => labels[r] = Labels
        /\ r \in owners => r \in members
        /\ r \in key \cup mailed => r \in owners
        /\ r \in emailVerified => r \in owners

\* What the place of a registration says of its documents.
Placed ==
    \A r \in Registrations :
        /\ pc[r] \in {"idle", "email", "slug", "user"} => r \notin users
        /\ pc[r] = "org" => r \in users
        /\ pc[r] \in {"org", "undo"} => r \notin orgs
        /\ pc[r] = "workspace" => r \in orgs \ workspaces
        /\ pc[r] = "roles" => r \in workspaces /\ roles[r] < Roles /\ labels[r] = 0
        /\ pc[r] = "labels" => roles[r] = Roles /\ labels[r] < Labels
        /\ pc[r] = "member" => labels[r] = Labels
        /\ pc[r] = "owner" => r \in members
        /\ pc[r] \in {"token", "mail"} => r \in owners
        /\ pc[r] = "conflict" => r \notin orgs /\ (r \in users => r \in stray)

SagaInv == RegistrationTypeOK /\ Chain /\ Placed /\ AccountsUnique

\* A registration is answered unless its worker dies, and an answer of success
\* comes with a complete organisation and a link.
AnsweredIsUsable ==
    \A r \in Registrations :
        pc[r] = "email" ~> (pc[r] \in {"conflict", "failed", "lost"}
                            \/ (pc[r] = "ok" /\ Complete(r) /\ r \in mailed))
=============================================================================
