---------------------------- MODULE AccountProofs ----------------------------
(***************************************************************************)
(* Safety of an account: how it comes into being (Registration) and how it *)
(* is used (AuthSession).  The two components are proved apart; this       *)
(* module only holds both.                                                 *)
(*                                                                         *)
(* Registration, for any set of registrations, addresses and slugs, and    *)
(* any number of faults: SagaInv is inductive, since every insert happens  *)
(* at one place of the handler and the place says what is there already.   *)
(*                                                                         *)
(* AuthSession, for any number of users, organisations and concurrent      *)
(* requests, any token lives and any bound on the clock: SessionInv is     *)
(* shown inductive, one action at a time.                                  *)
(***************************************************************************)
EXTENDS AuthSession, Registration, TLAPS

USE FaultAssumption, LifeAssumption, NoneAssumption

-----------------------------------------------------------------------------
(* Registration *)

\* Nothing has been written when the first registration starts.
LEMMA InitSaga == RegistrationInit => SagaInv
<1> SUFFICES ASSUME RegistrationInit PROVE SagaInv
  OBVIOUS
<1>1. RegistrationTypeOK
  BY DEF RegistrationInit, RegistrationTypeOK, Roles, Labels
<1>2. Chain /\ Placed /\ AccountsUnique
  BY DEF RegistrationInit, Chain, Placed, AccountsUnique, Roles, Labels
<1> QED
  BY <1>1, <1>2 DEF SagaInv

\* One registration keeps the invariant with every step of the handler and with
\* every fault that can meet it.
LEMMA ActionSaga ==
    ASSUME SagaInv, NEW r \in Registrations,
           Start(r) \/ Step(r) \/ UndoFails(r) \/ Fail(r)
           \/ VerifyEmail(r) \/ VerifyBreaks(r) \/ ExpireLink(r)
    PROVE  SagaInv'
<1> USE DEF SagaInv, input, tenant, docs, link, At, GoTo
<1>1. CASE Start(r)
  <2>1. RegistrationTypeOK'
    BY <1>1 DEF RegistrationTypeOK, Start, Serving, Answers
  <2>2. Chain'
    BY <1>1 DEF RegistrationTypeOK, Chain, Placed, Start, Roles, Labels
  <2>3. Placed'
    BY <1>1 DEF RegistrationTypeOK, Chain, Placed, Start, Roles, Labels
  <2>4. AccountsUnique'
    BY <1>1 DEF AccountsUnique, Start
  <2> QED
    BY <2>1, <2>2, <2>3, <2>4
<1>2. CASE CheckEmail(r)
  <2>1. RegistrationTypeOK'
    BY <1>2 DEF RegistrationTypeOK, CheckEmail, Serving, Answers
  <2>2. Chain'
    BY <1>2 DEF RegistrationTypeOK, Chain, Placed, CheckEmail, Roles, Labels
  <2>3. Placed'
    BY <1>2 DEF RegistrationTypeOK, Chain, Placed, CheckEmail, Roles, Labels
  <2>4. AccountsUnique'
    BY <1>2 DEF AccountsUnique, CheckEmail
  <2> QED
    BY <2>1, <2>2, <2>3, <2>4
<1>3. CASE CheckSlug(r)
  <2>1. RegistrationTypeOK'
    BY <1>3 DEF RegistrationTypeOK, CheckSlug, Serving, Answers
  <2>2. Chain'
    BY <1>3 DEF RegistrationTypeOK, Chain, Placed, CheckSlug, Roles, Labels
  <2>3. Placed'
    BY <1>3 DEF RegistrationTypeOK, Chain, Placed, CheckSlug, Roles, Labels
  <2>4. AccountsUnique'
    BY <1>3 DEF AccountsUnique, CheckSlug
  <2> QED
    BY <2>1, <2>2, <2>3, <2>4
<1>4. CASE CreateUser(r)
  <2>1. RegistrationTypeOK'
    BY <1>4 DEF RegistrationTypeOK, CreateUser, Serving, Answers
  <2>2. Chain'
    BY <1>4 DEF RegistrationTypeOK, Chain, Placed, CreateUser, Roles, Labels
  <2>3. Placed'
    BY <1>4 DEF RegistrationTypeOK, Chain, Placed, CreateUser, Roles, Labels
  <2>4. AccountsUnique'
    BY <1>4 DEF AccountsUnique, CreateUser, EmailTaken
  <2> QED
    BY <2>1, <2>2, <2>3, <2>4
<1>5. CASE CreateOrganization(r)
  <2>1. RegistrationTypeOK'
    BY <1>5 DEF RegistrationTypeOK, CreateOrganization, Serving, Answers
  <2>2. Chain'
    BY <1>5 DEF RegistrationTypeOK, Chain, Placed, CreateOrganization, Roles, Labels
  <2>3. Placed'
    BY <1>5 DEF RegistrationTypeOK, Chain, Placed, CreateOrganization, Roles, Labels
  <2>4. AccountsUnique'
    BY <1>5 DEF AccountsUnique, CreateOrganization, SlugTaken
  <2> QED
    BY <2>1, <2>2, <2>3, <2>4
<1>6. CASE UndoUser(r)
  <2>1. RegistrationTypeOK'
    BY <1>6 DEF RegistrationTypeOK, UndoUser, Serving, Answers
  <2>2. Chain'
    BY <1>6 DEF RegistrationTypeOK, Chain, Placed, UndoUser, Roles, Labels
  <2>3. Placed'
    BY <1>6 DEF RegistrationTypeOK, Chain, Placed, UndoUser, Roles, Labels
  <2>4. AccountsUnique'
    BY <1>6 DEF AccountsUnique, UndoUser
  <2> QED
    BY <2>1, <2>2, <2>3, <2>4
<1>7. CASE UndoFails(r)
  <2>1. RegistrationTypeOK'
    BY <1>7 DEF RegistrationTypeOK, UndoFails, Serving, Answers
  <2>2. Chain'
    BY <1>7 DEF RegistrationTypeOK, Chain, Placed, UndoFails, Roles, Labels
  <2>3. Placed'
    BY <1>7 DEF RegistrationTypeOK, Chain, Placed, UndoFails, Roles, Labels
  <2>4. AccountsUnique'
    BY <1>7 DEF AccountsUnique, UndoFails
  <2> QED
    BY <2>1, <2>2, <2>3, <2>4
<1>8. CASE CreateWorkspace(r)
  <2>1. RegistrationTypeOK'
    BY <1>8 DEF RegistrationTypeOK, CreateWorkspace, Serving, Answers
  <2>2. Chain'
    BY <1>8 DEF RegistrationTypeOK, Chain, Placed, CreateWorkspace, Roles, Labels
  <2>3. Placed'
    BY <1>8 DEF RegistrationTypeOK, Chain, Placed, CreateWorkspace, Roles, Labels
  <2>4. AccountsUnique'
    BY <1>8 DEF AccountsUnique, CreateWorkspace
  <2> QED
    BY <2>1, <2>2, <2>3, <2>4
<1>9. CASE SeedRole(r)
  <2>1. RegistrationTypeOK'
    BY <1>9 DEF RegistrationTypeOK, SeedRole, Serving, Answers, Roles, Labels, Placed
  <2>2. Chain'
    BY <1>9 DEF RegistrationTypeOK, Chain, Placed, SeedRole, Roles, Labels
  <2>3. Placed'
    BY <1>9 DEF RegistrationTypeOK, Chain, Placed, SeedRole, Roles, Labels
  <2>4. AccountsUnique'
    BY <1>9 DEF AccountsUnique, SeedRole
  <2> QED
    BY <2>1, <2>2, <2>3, <2>4
<1>10. CASE SeedLabel(r)
  <2>1. RegistrationTypeOK'
    BY <1>10 DEF RegistrationTypeOK, SeedLabel, Serving, Answers, Roles, Labels, Placed
  <2>2. Chain'
    BY <1>10 DEF RegistrationTypeOK, Chain, Placed, SeedLabel, Roles, Labels
  <2>3. Placed'
    BY <1>10 DEF RegistrationTypeOK, Chain, Placed, SeedLabel, Roles, Labels
  <2>4. AccountsUnique'
    BY <1>10 DEF AccountsUnique, SeedLabel
  <2> QED
    BY <2>1, <2>2, <2>3, <2>4
<1>11. CASE CreateMember(r)
  <2>1. RegistrationTypeOK'
    BY <1>11 DEF RegistrationTypeOK, CreateMember, Serving, Answers
  <2>2. Chain'
    BY <1>11 DEF RegistrationTypeOK, Chain, Placed, CreateMember, Roles, Labels
  <2>3. Placed'
    BY <1>11 DEF RegistrationTypeOK, Chain, Placed, CreateMember, Roles, Labels
  <2>4. AccountsUnique'
    BY <1>11 DEF AccountsUnique, CreateMember
  <2> QED
    BY <2>1, <2>2, <2>3, <2>4
<1>12. CASE AssignAdmin(r)
  <2>1. RegistrationTypeOK'
    BY <1>12 DEF RegistrationTypeOK, AssignAdmin, Serving, Answers
  <2>2. Chain'
    BY <1>12 DEF RegistrationTypeOK, Chain, Placed, AssignAdmin, Roles, Labels
  <2>3. Placed'
    BY <1>12 DEF RegistrationTypeOK, Chain, Placed, AssignAdmin, Roles, Labels
  <2>4. AccountsUnique'
    BY <1>12 DEF AccountsUnique, AssignAdmin
  <2> QED
    BY <2>1, <2>2, <2>3, <2>4
<1>13. CASE CreateLink(r)
  <2>1. RegistrationTypeOK'
    BY <1>13 DEF RegistrationTypeOK, CreateLink, Serving, Answers
  <2>2. Chain'
    BY <1>13 DEF RegistrationTypeOK, Chain, Placed, CreateLink, Roles, Labels
  <2>3. Placed'
    BY <1>13 DEF RegistrationTypeOK, Chain, Placed, CreateLink, Roles, Labels
  <2>4. AccountsUnique'
    BY <1>13 DEF AccountsUnique, CreateLink
  <2> QED
    BY <2>1, <2>2, <2>3, <2>4
<1>14. CASE Answer(r)
  <2>1. RegistrationTypeOK'
    BY <1>14 DEF RegistrationTypeOK, Answer, Serving, Answers
  <2>2. Chain'
    BY <1>14 DEF RegistrationTypeOK, Chain, Placed, Answer, Roles, Labels
  <2>3. Placed'
    BY <1>14 DEF RegistrationTypeOK, Chain, Placed, Answer, Roles, Labels
  <2>4. AccountsUnique'
    BY <1>14 DEF AccountsUnique, Answer
  <2> QED
    BY <2>1, <2>2, <2>3, <2>4
<1>15. CASE Fail(r)
  <2>1. RegistrationTypeOK'
    BY <1>15 DEF RegistrationTypeOK, Fail, Serving, Answers
  <2>2. Chain'
    BY <1>15 DEF RegistrationTypeOK, Chain, Placed, Fail, Serving, Roles, Labels
  <2>3. Placed'
    BY <1>15 DEF RegistrationTypeOK, Chain, Placed, Fail, Serving, Roles, Labels
  <2>4. AccountsUnique'
    BY <1>15 DEF AccountsUnique, Fail
  <2> QED
    BY <2>1, <2>2, <2>3, <2>4
<1>16. CASE VerifyEmail(r)
  <2>1. RegistrationTypeOK'
    BY <1>16 DEF RegistrationTypeOK, VerifyEmail, Serving, Answers
  <2>2. Chain'
    BY <1>16 DEF RegistrationTypeOK, Chain, Placed, VerifyEmail, Roles, Labels
  <2>3. Placed'
    BY <1>16 DEF RegistrationTypeOK, Chain, Placed, VerifyEmail, Roles, Labels
  <2>4. AccountsUnique'
    BY <1>16 DEF AccountsUnique, VerifyEmail
  <2> QED
    BY <2>1, <2>2, <2>3, <2>4
<1>17. CASE VerifyBreaks(r)
  <2>1. RegistrationTypeOK'
    BY <1>17 DEF RegistrationTypeOK, VerifyBreaks, Serving, Answers
  <2>2. Chain'
    BY <1>17 DEF RegistrationTypeOK, Chain, Placed, VerifyBreaks, Roles, Labels
  <2>3. Placed'
    BY <1>17 DEF RegistrationTypeOK, Chain, Placed, VerifyBreaks, Roles, Labels
  <2>4. AccountsUnique'
    BY <1>17 DEF AccountsUnique, VerifyBreaks
  <2> QED
    BY <2>1, <2>2, <2>3, <2>4
<1>18. CASE ExpireLink(r)
  <2>1. RegistrationTypeOK'
    BY <1>18 DEF RegistrationTypeOK, ExpireLink, Serving, Answers
  <2>2. Chain'
    BY <1>18 DEF RegistrationTypeOK, Chain, Placed, ExpireLink, Roles, Labels
  <2>3. Placed'
    BY <1>18 DEF RegistrationTypeOK, Chain, Placed, ExpireLink, Roles, Labels
  <2>4. AccountsUnique'
    BY <1>18 DEF AccountsUnique, ExpireLink
  <2> QED
    BY <2>1, <2>2, <2>3, <2>4
<1> QED
  BY <1>1, <1>2, <1>3, <1>4, <1>5, <1>6, <1>7, <1>8, <1>9, <1>10, <1>11, <1>12, <1>13, <1>14, <1>15, <1>16, <1>17, <1>18 DEF Step

\* Every step keeps the invariant, and so does a step of nobody.
LEMMA NextSaga == SagaInv /\ [RegistrationNext]_registrationVars => SagaInv'
<1> SUFFICES ASSUME SagaInv, [RegistrationNext]_registrationVars PROVE SagaInv'
  OBVIOUS
<1>1. CASE RegistrationNext
  BY <1>1, ActionSaga DEF RegistrationNext
<1>2. CASE UNCHANGED registrationVars
  BY <1>2 DEF registrationVars, input, tenant, docs, link, SagaInv, RegistrationTypeOK, Chain, Placed, AccountsUnique
<1> QED
  BY <1>1, <1>2

\* The chain of documents and the places of the registrations agree for ever.
THEOREM Saga == RegistrationSpec => []SagaInv
  BY InitSaga, NextSaga, PTL DEF RegistrationSpec

\* Two accounts never share an address and two organisations never share a slug,
\* however many registrations race between the checks and the inserts.
THEOREM Uniqueness == RegistrationSpec => []AccountsUnique
<1>1. SagaInv => AccountsUnique
  BY DEF SagaInv
<1> QED
  BY <1>1, Saga, PTL

\* An address is verified only when the organisation is complete, whatever failed.
THEOREM VerifiedOrganisations == RegistrationSpec => []VerifiedIsComplete
<1>1. SagaInv => VerifiedIsComplete
  <2> SUFFICES ASSUME SagaInv, NEW r \in emailVerified PROVE Complete(r)
    BY DEF VerifiedIsComplete
  <2>1. r \in Registrations
    BY DEF SagaInv, RegistrationTypeOK
  <2>2. r \in owners /\ r \in members /\ labels[r] = Labels
    BY <2>1 DEF SagaInv, Chain
  <2>3. roles[r] = Roles /\ r \in workspaces
    BY <2>1, <2>2 DEF SagaInv, Chain, Roles, Labels
  <2> QED
    BY <2>1, <2>2, <2>3 DEF SagaInv, Chain, Complete
<1> QED
  BY <1>1, Saga, PTL

\* A registration refused with 409 leaves no document behind unless its delete failed.
THEOREM RefusedLeavesNothing == RegistrationSpec => []ConflictLeavesNothing
<1>1. SagaInv => ConflictLeavesNothing
  <2> SUFFICES ASSUME SagaInv, NEW r \in Registrations, pc[r] = "conflict"
               PROVE  /\ r \notin orgs \cup workspaces \cup members \cup owners
                      /\ r \in users => r \in stray
    BY DEF ConflictLeavesNothing
  <2>1. r \notin orgs /\ (r \in users => r \in stray)
    BY DEF SagaInv, Placed
  <2>2. r \notin workspaces
    BY <2>1 DEF SagaInv, Chain
  <2>3. r \notin members
    <3>1. roles[r] = 0
      BY <2>2 DEF SagaInv, Chain, RegistrationTypeOK, Roles
    <3>2. labels[r] = 0
      BY <3>1 DEF SagaInv, Chain, RegistrationTypeOK, Roles, Labels
    <3> QED
      BY <3>2 DEF SagaInv, Chain, Labels
  <2> QED
    BY <2>1, <2>2, <2>3 DEF SagaInv, Chain
<1> QED
  BY <1>1, Saga, PTL

\* No compensation and no fault takes the account of an organisation's owner away.
THEOREM Owners == RegistrationSpec => []OwnerRemains
<1>1. SagaInv => OwnerRemains
  BY DEF SagaInv, RegistrationTypeOK, Chain, OwnerRemains
<1> QED
  BY <1>1, Saga, PTL

-----------------------------------------------------------------------------
(* AuthSession *)

\* The fields of a token.
LEMMA TokenFields ==
    ASSUME NEW t \in Token
    PROVE  t # None /\ t.user \in Users /\ t.org \in Orgs /\ t.iat \in 0..MaxTime
  BY DEF Token

\* The fields of a request.
LEMMA RequestFields ==
    ASSUME NEW q \in Request
    PROVE  /\ q.pc \in {"idle", "respond", "rejected", "members", "mint", "store"}
           /\ q.kind \in {"login", "refresh"}
           /\ q.user \in Users \cup {None}
           /\ q.old \in Token \cup {None}
           /\ q.org \in Orgs \cup {None}
           /\ q.new \in Token \cup {None}
           /\ q.seen \subseteq Orgs
  BY DEF Request, InService

\* The two states of a slot that serves nobody.
LEMMA EmptySlots ==
    /\ Idle \in Request /\ Idle.pc = "idle"
    /\ Rejected \in Request /\ Rejected.pc = "rejected"
  BY DEF Idle, Rejected, Request, InService

\* What a request looks like when it has just been accepted.
LEMMA BeginRequest ==
    ASSUME NEW u \in Users, NEW t \in Token \cup {None}, NEW k \in {"login", "refresh"}
    PROVE  /\ Begin(u, k, t) \in Request
           /\ Begin(u, k, t).pc = "members"
           /\ Begin(u, k, t).kind = k
           /\ Begin(u, k, t).user = u
           /\ Begin(u, k, t).old = t
           /\ Begin(u, k, t).seen = ActiveOrgs(u)
  BY DEF Begin, Idle, Request, InService, ActiveOrgs

\* The initial states satisfy the invariant: no request and no token yet.
LEMMA InitInv == Init => SessionInv
<1> SUFFICES ASSUME Init PROVE SessionInv
  OBVIOUS
<1>1. TypeOK
  BY EmptySlots DEF Init, TypeOK, MemberStatus
<1>2. \A r \in Requests : req[r].pc = "idle"
  BY EmptySlots DEF Init
<1>3. RequestOK /\ StoreOK /\ QuietAfterLogout /\ StoredOnce
  BY <1>2 DEF Init, RequestOK, Coherent, ActiveOrgs, StoreOK, QuietAfterLogout, StoredOnce, InService
<1> QED
  BY <1>1, <1>3 DEF SessionInv

\* A request that was just accepted has neither chosen nor minted anything.
LEMMA AcceptKeepsInv ==
    ASSUME SessionInv, NEW r \in Requests, NEW u \in Users,
           NEW t \in Token \cup {None}, NEW k \in {"login", "refresh"},
           verified[u],
           req' = [req EXCEPT ![r] = Begin(u, k, t)],
           \/ loggedOut' = [loggedOut EXCEPT ![u] = "no"]
           \/ loggedOut' = loggedOut /\ stored[u] # None,
           UNCHANGED <<now, redis, mongo, issued, minted, reminted, retired, spent>>
    PROVE  SessionInv'
<1> USE DEF SessionInv, redis, mongo
<1>1. /\ req'[r] = Begin(u, k, t)
      /\ \A r2 \in Requests : r2 # r => req'[r2] = req[r2]
  BY DEF TypeOK
<1>2. TypeOK'
  <2>1. req' \in [Requests -> Request]
    BY BeginRequest DEF TypeOK
  <2> QED
    BY <2>1 DEF TypeOK
<1>3. RequestOK'
  BY <1>1, BeginRequest DEF RequestOK, Coherent, ActiveOrgs, InService
<1>4. StoreOK'
  BY DEF StoreOK, Exp
<1>5. QuietAfterLogout'
  <2>1. SUFFICES ASSUME NEW v \in Users, loggedOut'[v] = "clean"
                 PROVE  stored[v] = None /\ ~InFlight(v, {"login", "refresh"})'
    BY DEF QuietAfterLogout
  <2>2. loggedOut[v] = "clean" /\ v # u
    BY <2>1 DEF TypeOK, QuietAfterLogout
  <2>3. stored[v] = None /\ ~InFlight(v, {"login", "refresh"})
    BY <2>2 DEF QuietAfterLogout
  <2> QED
    BY <2>2, <2>3, <1>1, BeginRequest DEF InFlight
<1>6. StoredOnce'
  BY <1>1, BeginRequest DEF StoredOnce
<1> QED
  BY <1>2, <1>3, <1>4, <1>5, <1>6

\* A slot that is emptied or refused forgets its request and nothing else.
LEMMA EmptyKeepsInv ==
    ASSUME SessionInv, NEW r \in Requests,
           req' = [req EXCEPT ![r] = Idle] \/ req' = [req EXCEPT ![r] = Rejected],
           issued' \subseteq Token,
           UNCHANGED <<now, redis, mongo, history>>
    PROVE  SessionInv'
<1> USE DEF SessionInv, redis, mongo, history
<1>1. /\ req'[r].pc \in {"idle", "rejected"}
      /\ req'[r] \in Request
      /\ \A r2 \in Requests : r2 # r => req'[r2] = req[r2]
  BY EmptySlots DEF TypeOK
<1>2. TypeOK'
  BY <1>1, EmptySlots DEF TypeOK
<1>3. RequestOK'
  BY <1>1 DEF RequestOK, Coherent, ActiveOrgs, InService
<1>4. StoreOK'
  BY DEF StoreOK, Exp
<1>5. QuietAfterLogout'
  BY <1>1 DEF QuietAfterLogout, InFlight, InService
<1>6. StoredOnce'
  BY <1>1 DEF StoredOnce
<1> QED
  BY <1>2, <1>3, <1>4, <1>5, <1>6

\* The organisation is one the user is active in now, so one the request saw.
LEMMA ChooseKeepsInv ==
    ASSUME SessionInv, NEW r \in Requests, NEW o \in ActiveOrgs(req[r].user),
           req[r].pc = "members",
           NEW q, q = [req[r] EXCEPT !.pc = "mint", !.org = o],
           req' = [req EXCEPT ![r] = q],
           UNCHANGED <<now, redis, mongo, issued, history>>
    PROVE  SessionInv'
<1> USE DEF SessionInv, redis, mongo, history
<1>0. o \in Orgs /\ o \in req[r].seen /\ req[r] \in Request
  BY DEF ActiveOrgs, RequestOK, Coherent, TypeOK
<1>1. /\ req'[r] = q
      /\ \A r2 \in Requests : r2 # r => req'[r2] = req[r2]
  BY DEF TypeOK
<1>2. /\ req'[r] \in Request
      /\ req'[r].pc = "mint"
      /\ req'[r].org = o
      /\ req'[r].user = req[r].user
      /\ req'[r].kind = req[r].kind
      /\ req'[r].seen = req[r].seen
  <2>1. q \in Request
    BY <1>0 DEF Request, InService
  <2>2. q.pc = "mint" /\ q.org = o /\ q.user = req[r].user /\ q.kind = req[r].kind
    BY <1>0 DEF Request
  <2>3. q.seen = req[r].seen
    BY <1>0 DEF Request
  <2> QED
    BY <2>1, <2>2, <2>3, <1>1
<1>3. TypeOK'
  <2>1. req' \in [Requests -> Request]
    BY <1>1, <1>2 DEF TypeOK
  <2> QED
    BY <2>1 DEF TypeOK
<1>4. RequestOK'
  <2>1. Coherent(req[r])
    BY DEF RequestOK
  <2>2. Coherent(req[r])'
    BY <2>1, <1>2 DEF Coherent, ActiveOrgs, InService
  <2>3. ASSUME NEW r2 \in Requests, r2 # r
        PROVE  Coherent(req[r2])'
    <3>1. Coherent(req[r2])
      BY DEF RequestOK
    <3> QED
      BY <3>1, <2>3, <1>1 DEF Coherent, ActiveOrgs
  <2> QED
    BY <2>2, <2>3 DEF RequestOK
<1>5. StoreOK'
  BY DEF StoreOK, Exp
<1>6. QuietAfterLogout'
  <2>1. \A v \in Users : \A ks : InFlight(v, ks)' => InFlight(v, ks)
    BY <1>1, <1>2 DEF InFlight, InService
  <2> QED
    BY <2>1 DEF QuietAfterLogout
<1>7. StoredOnce'
  <2>1. \A r2 \in Requests :
           req'[r2].pc = "store" => req[r2].pc = "store" /\ req'[r2].new = req[r2].new
    BY <1>1, <1>2
  <2>2. UNCHANGED <<stored, minted, reminted, retired>>
    OBVIOUS
  <2> QED
    BY <2>1, <2>2 DEF StoredOnce
<1> QED
  BY <1>3, <1>4, <1>5, <1>6, <1>7

\* A token that no request minted before is neither stored, retired nor awaited.
LEMMA MintKeepsInv ==
    ASSUME SessionInv, NEW r \in Requests, MintTokens(r)
    PROVE  SessionInv'
<1> USE DEF SessionInv, redis, mongo
<1> DEFINE t == [user |-> req[r].user, org |-> req[r].org, iat |-> now]
<1>0. /\ req[r] \in Request
      /\ req[r].pc = "mint"
      /\ req[r].user \in Users
      /\ verified[req[r].user]
      /\ req[r].org \in req[r].seen
      /\ req[r].seen \subseteq Orgs
      /\ now \in 0..MaxTime
  BY RequestFields DEF MintTokens, TypeOK, RequestOK, Coherent, ActiveOrgs, InService
<1>1. t \in Token /\ t.user = req[r].user /\ t.org = req[r].org /\ t.iat = now
  BY <1>0 DEF Token
<1> HIDE DEF t
<1>2. /\ req'[r] = [req[r] EXCEPT !.pc = "store", !.new = t]
      /\ \A r2 \in Requests : r2 # r => req'[r2] = req[r2]
      /\ minted' = minted \cup {t}
      /\ reminted' = IF t \in minted THEN reminted \cup {t} ELSE reminted
      /\ UNCHANGED <<now, stored, ttlEnd, verified, member, issued, retired, spent, loggedOut>>
  BY DEF MintTokens, TypeOK, t
<1>3. /\ req'[r] \in Request
      /\ req'[r].pc = "store"
      /\ req'[r].new = t
      /\ req'[r].user = req[r].user
      /\ req'[r].org = req[r].org
      /\ req'[r].kind = req[r].kind
      /\ req'[r].seen = req[r].seen
  BY <1>0, <1>1, <1>2 DEF Request, InService
<1>4. TypeOK'
  <2>1. req' \in [Requests -> Request]
    BY <1>2, <1>3 DEF TypeOK, MintTokens
  <2> QED
    BY <2>1, <1>1, <1>2 DEF TypeOK
<1>5. RequestOK'
  <2>1. t.iat <= now
    BY <1>0, <1>1
  <2>2. Coherent(req[r])'
    BY <2>1, <1>0, <1>1, <1>2, <1>3 DEF Coherent, ActiveOrgs
  <2>3. ASSUME NEW r2 \in Requests, r2 # r
        PROVE  Coherent(req[r2])'
    <3>1. Coherent(req[r2])
      BY DEF RequestOK
    <3> QED
      BY <3>1, <2>3, <1>2 DEF Coherent, ActiveOrgs
  <2> QED
    BY <2>2, <2>3 DEF RequestOK
<1>6. StoreOK'
  BY <1>2 DEF StoreOK, Exp
<1>7. QuietAfterLogout'
  <2>1. \A v \in Users : \A ks : InFlight(v, ks)' => InFlight(v, ks)
    <3>1. req[r].pc \in InService
      BY <1>0 DEF InService
    <3> QED
      BY <3>1, <1>2, <1>3 DEF InFlight
  <2> QED
    BY <2>1, <1>2 DEF QuietAfterLogout
<1>8. StoredOnce'
  <2>0. \A r2 \in Requests : \A s \in Token :
           s # t /\ req'[r2].pc = "store" /\ req'[r2].new = s =>
              req[r2].pc = "store" /\ req[r2].new = s
    BY <1>2, <1>3
  <2>1. CASE t \in minted
    <3>1. minted' = minted /\ minted \subseteq Token
          /\ \A s \in minted' \ reminted' : s \in minted \ reminted /\ s # t
      BY <2>1, <1>2 DEF TypeOK
    <3> QED
      BY <2>0, <3>1, <1>2 DEF StoredOnce
  <2>2. CASE t \notin minted
    <3>1. /\ t \notin retired
          /\ stored[t.user] # t
          /\ \A r2 \in Requests : req[r2].pc = "store" => req[r2].new # t
      BY <2>2, <1>0, <1>1, TokenFields DEF StoredOnce, StoreOK, RequestOK, Coherent, ActiveOrgs
    <3>2. retired' \subseteq minted' /\ reminted' = reminted /\ minted \subseteq Token
      BY <2>2, <1>2 DEF StoredOnce, TypeOK
    <3>3. SUFFICES ASSUME NEW s \in minted', s \notin reminted'
                   PROVE  /\ s \in retired' => stored'[s.user] # s
                          /\ \A r1 \in Requests : req'[r1].pc = "store" /\ req'[r1].new = s =>
                                /\ s \notin retired'
                                /\ stored'[s.user] # s
                                /\ \A r2 \in Requests :
                                      req'[r2].pc = "store" /\ req'[r2].new = s => r2 = r1
      BY <3>2 DEF StoredOnce
    <3>4. CASE s = t
      <4>1. \A r2 \in Requests : req'[r2].pc = "store" /\ req'[r2].new = t => r2 = r
        BY <3>1, <1>2
      <4> QED
        BY <4>1, <3>4, <3>1, <1>2
    <3>5. CASE s # t
      <4>1. s \in minted /\ s \notin reminted /\ s \in Token
        BY <3>5, <3>2, <3>3, <1>2
      <4> QED
        BY <4>1, <3>5, <2>0, <1>2 DEF StoredOnce
    <3> QED
      BY <3>4, <3>5
  <2> QED
    BY <2>1, <2>2
<1> QED
  BY <1>4, <1>5, <1>6, <1>7, <1>8

\* SETEX retires what the key held and puts a token there that never was.
LEMMA StoreKeepsInv ==
    ASSUME SessionInv, NEW r \in Requests, StoreToken(r)
    PROVE  SessionInv'
<1> USE DEF SessionInv, redis, mongo
<1> DEFINE u == req[r].user
           t == req[r].new
<1>0. /\ req[r] \in Request
      /\ req[r].pc = "store"
      /\ u \in Users
      /\ verified[u]
      /\ t \in minted /\ t \in Token /\ t # None
      /\ t.user = u
      /\ t.org = req[r].org
      /\ t.iat <= now
      /\ req[r].kind \in {"login", "refresh"}
      /\ req[r].old \in Token \cup {None}
      /\ now \in Nat /\ t.iat \in Nat /\ now + RefreshLife \in Nat
  BY TokenFields, RequestFields DEF StoreToken, TypeOK, RequestOK, Coherent, ActiveOrgs, InService
<1>1. /\ req'[r] = [req[r] EXCEPT !.pc = "respond"]
      /\ \A r2 \in Requests : r2 # r => req'[r2] = req[r2]
      /\ stored' = [stored EXCEPT ![u] = t]
      /\ ttlEnd' = [ttlEnd EXCEPT ![u] = now + RefreshLife]
      /\ retired' = retired \cup ({stored[u]} \ {None, t})
      /\ spent' = spent \cup ({req[r].old} \ {None})
      /\ UNCHANGED <<now, verified, member, issued, minted, reminted, loggedOut>>
  BY DEF StoreToken, TypeOK
<1>2. /\ req'[r] \in Request
      /\ req'[r].pc = "respond"
      /\ req'[r].new = t
      /\ req'[r].user = u
      /\ req'[r].org = req[r].org
      /\ req'[r].seen = req[r].seen
  BY <1>0, <1>1 DEF Request, InService
<1>3. stored'[u] = t /\ ttlEnd'[u] = now + RefreshLife
      /\ \A v \in Users : v # u => stored'[v] = stored[v] /\ ttlEnd'[v] = ttlEnd[v]
  BY <1>0, <1>1 DEF TypeOK
<1> HIDE DEF u, t
<1>4. TypeOK'
  <2>1. req' \in [Requests -> Request]
    BY <1>1, <1>2 DEF TypeOK, StoreToken
  <2>2. stored' \in [Users -> Token \cup {None}] /\ ttlEnd' \in [Users -> Nat]
    BY <1>0, <1>1 DEF TypeOK
  <2>3. stored[u] \in Token \cup {None}
    BY <1>0 DEF TypeOK
  <2> QED
    BY <2>1, <2>2, <2>3, <1>0, <1>1 DEF TypeOK
<1>5. RequestOK'
  <2>1. Coherent(req[r]) /\ req'[r].new = req[r].new
    BY <1>2 DEF RequestOK, t
  <2>2. Coherent(req[r])'
    BY <2>1, <1>0, <1>1, <1>2 DEF Coherent, ActiveOrgs, InService, u
  <2>3. ASSUME NEW r2 \in Requests, r2 # r
        PROVE  Coherent(req[r2])'
    <3>1. Coherent(req[r2])
      BY DEF RequestOK
    <3> QED
      BY <3>1, <2>3, <1>1 DEF Coherent, ActiveOrgs
  <2> QED
    BY <2>2, <2>3 DEF RequestOK
<1>6. StoreOK'
  BY <1>0, <1>1, <1>3 DEF StoreOK, Exp
<1>7. QuietAfterLogout'
  <2>1. SUFFICES ASSUME NEW v \in Users, loggedOut'[v] = "clean"
                 PROVE  stored'[v] = None /\ ~InFlight(v, {"login", "refresh"})'
    BY DEF QuietAfterLogout
  <2>2. stored[v] = None /\ ~InFlight(v, {"login", "refresh"})
    BY <2>1, <1>1 DEF QuietAfterLogout
  <2>3. v # u
    BY <2>2, <1>0 DEF InFlight, InService, u
  <2> QED
    BY <2>2, <2>3, <1>1, <1>2, <1>3 DEF InFlight, InService
<1>8. StoredOnce'
  <2>1. /\ retired' \subseteq minted'
        /\ \A s \in retired' : s \in retired \/ (s = stored[u] /\ s # t)
    BY <1>0, <1>1 DEF StoredOnce, StoreOK
  <2>2. SUFFICES ASSUME NEW s \in minted, s \notin reminted
                 PROVE  /\ s \in retired' => stored'[s.user] # s
                        /\ \A r1 \in Requests : req'[r1].pc = "store" /\ req'[r1].new = s =>
                              /\ s \notin retired'
                              /\ stored'[s.user] # s
                              /\ \A r2 \in Requests :
                                    req'[r2].pc = "store" /\ req'[r2].new = s => r2 = r1
    BY <2>1, <1>1 DEF StoredOnce
  <2>3. s.user \in Users
    BY TokenFields DEF TypeOK
  <2>4. ASSUME s \in retired'
        PROVE  stored'[s.user] # s
    <3>1. CASE s = t
      <4>1. s \notin retired
        BY <3>1, <2>2, <1>0 DEF StoredOnce, t
      <4> QED
        BY <4>1, <3>1, <2>1, <2>4
    <3>2. CASE s # t /\ s.user = u
      BY <3>2, <1>3
    <3>3. CASE s.user # u
      <4>1. s \in retired
        BY <3>3, <2>1, <2>4, <1>0, TokenFields DEF StoreOK, TypeOK
      <4> QED
        BY <4>1, <3>3, <2>2, <2>3, <1>3 DEF StoredOnce
    <3> QED
      BY <3>1, <3>2, <3>3
  <2>5. ASSUME NEW r1 \in Requests, req'[r1].pc = "store", req'[r1].new = s
        PROVE  /\ s \notin retired'
               /\ stored'[s.user] # s
               /\ \A r2 \in Requests :
                     req'[r2].pc = "store" /\ req'[r2].new = s => r2 = r1
    <3>1. r1 # r /\ req[r1].pc = "store" /\ req[r1].new = s
      BY <2>5, <1>1, <1>2
    <3>2. /\ s \notin retired
          /\ stored[s.user] # s
          /\ \A r2 \in Requests : req[r2].pc = "store" /\ req[r2].new = s => r2 = r1
      BY <2>2, <3>1 DEF StoredOnce
    <3>3. s # t
      BY <3>1, <3>2, <1>0 DEF t
    <3>4. stored[u] # s
      BY <3>2, <1>0 DEF StoreOK, TypeOK
    <3>5. \A r2 \in Requests :
             req'[r2].pc = "store" /\ req'[r2].new = s => r2 = r1
      BY <3>2, <1>1, <1>2
    <3> QED
      BY <3>2, <3>3, <3>4, <3>5, <2>1, <2>3, <1>3
  <2> QED
    BY <2>4, <2>5
<1> QED
  BY <1>4, <1>5, <1>6, <1>7, <1>8

\* Deleting the key ends the session unless a refresh is already under way.
LEMMA LogoutKeepsInv ==
    ASSUME SessionInv, NEW t \in issued, Logout(t)
    PROVE  SessionInv'
<1> USE DEF SessionInv, redis, mongo
<1> DEFINE u == t.user
<1>1. /\ u \in Users
      /\ stored' = [stored EXCEPT ![u] = None]
      /\ retired' = retired \cup ({stored[u]} \ {None})
      /\ loggedOut' = [loggedOut EXCEPT ![u] =
             IF InFlight(u, {"login"}) THEN "no"
             ELSE IF InFlight(u, {"refresh"}) THEN "racing" ELSE "clean"]
      /\ UNCHANGED <<now, ttlEnd, verified, member, req, issued, minted, reminted, spent>>
  BY TokenFields DEF Logout, TypeOK
<1>2. stored'[u] = None /\ \A v \in Users : v # u => stored'[v] = stored[v]
  BY <1>1 DEF TypeOK
<1> HIDE DEF u
<1>3. TypeOK'
  BY <1>1 DEF TypeOK
<1>4. RequestOK'
  BY <1>1 DEF RequestOK, Coherent, ActiveOrgs
<1>5. StoreOK'
  BY <1>1, <1>2 DEF StoreOK, Exp
<1>6. QuietAfterLogout'
  <2>1. SUFFICES ASSUME NEW v \in Users, loggedOut'[v] = "clean"
                 PROVE  stored'[v] = None /\ ~InFlight(v, {"login", "refresh"})'
    BY DEF QuietAfterLogout
  <2>2. \A w \in Users : \A ks : InFlight(w, ks)' <=> InFlight(w, ks)
    BY <1>1 DEF InFlight
  <2>3. CASE v = u
    <3>1. ~InFlight(u, {"login"}) /\ ~InFlight(u, {"refresh"})
      BY <2>1, <2>3, <1>1 DEF TypeOK
    <3>2. ~InFlight(u, {"login", "refresh"})
      BY <3>1 DEF InFlight
    <3> QED
      BY <3>2, <2>2, <2>3, <1>1, <1>2
  <2>4. CASE v # u
    BY <2>1, <2>2, <2>4, <1>1, <1>2 DEF QuietAfterLogout, TypeOK
  <2> QED
    BY <2>3, <2>4
<1>7. StoredOnce'
  <2>1. /\ retired' \subseteq minted'
        /\ \A s \in retired' : s \in retired \/ s = stored[u]
    BY <1>1 DEF StoredOnce, StoreOK
  <2>2. SUFFICES ASSUME NEW s \in minted, s \notin reminted
                 PROVE  /\ s \in retired' => stored'[s.user] # s
                        /\ \A r1 \in Requests : req[r1].pc = "store" /\ req[r1].new = s =>
                              /\ s \notin retired'
                              /\ stored'[s.user] # s
                              /\ \A r2 \in Requests :
                                    req[r2].pc = "store" /\ req[r2].new = s => r2 = r1
    BY <2>1, <1>1 DEF StoredOnce
  <2>3. s \in Token /\ s # None /\ s.user \in Users
    BY TokenFields DEF TypeOK
  <2>4. stored'[s.user] = s => stored[s.user] = s /\ s.user # u
    BY <2>3, <1>2
  <2>5. stored[u] = s => s.user = u
    BY <2>3, <1>1 DEF StoreOK
  <2> QED
    BY <2>1, <2>2, <2>4, <2>5, <1>1 DEF StoredOnce
<1> QED
  BY <1>3, <1>4, <1>5, <1>6, <1>7

\* Redis forgetting a key, the clock, and the writers of users and members.
LEMMA EnvironmentKeepsInv ==
    ASSUME SessionInv, Environment
    PROVE  SessionInv'
<1> USE DEF SessionInv, redis, mongo, history
<1>1. ASSUME NEW u \in Users, ExpireKey(u)
      PROVE  SessionInv'
  <2>1. stored' \in [Users -> Token \cup {None}]
        /\ \A v \in Users : stored'[v] = None \/ stored'[v] = stored[v]
    BY <1>1 DEF ExpireKey, TypeOK
  <2>2. UNCHANGED <<now, ttlEnd, verified, member, req, issued,
                    minted, reminted, retired, spent, loggedOut>>
    BY <1>1 DEF ExpireKey
  <2>3. TypeOK'
    BY <2>1, <2>2 DEF TypeOK
  <2>4. RequestOK' /\ StoreOK'
    BY <2>1, <2>2 DEF RequestOK, Coherent, ActiveOrgs, StoreOK, Exp
  <2>5. QuietAfterLogout'
    BY <2>1, <2>2 DEF QuietAfterLogout, InFlight
  <2>6. \A s \in minted : stored[s.user] # s => stored'[s.user] # s
    BY <2>1, TokenFields DEF TypeOK
  <2>7. StoredOnce'
    BY <2>2, <2>6 DEF StoredOnce
  <2> QED
    BY <2>3, <2>4, <2>5, <2>7
<1>2. ASSUME NEW u \in Users, ConfirmEmail(u)
      PROVE  SessionInv'
  <2>1. verified' \in [Users -> BOOLEAN] /\ \A v \in Users : verified[v] => verified'[v]
    BY <1>2 DEF ConfirmEmail, TypeOK
  <2>2. UNCHANGED <<now, stored, ttlEnd, member, req, issued,
                    minted, reminted, retired, spent, loggedOut>>
    BY <1>2 DEF ConfirmEmail
  <2>3. TypeOK' /\ RequestOK' /\ StoreOK'
    BY <2>1, <2>2 DEF TypeOK, RequestOK, Coherent, ActiveOrgs, StoreOK, Exp
  <2>4. QuietAfterLogout' /\ StoredOnce'
    BY <2>2 DEF QuietAfterLogout, InFlight, StoredOnce
  <2> QED
    BY <2>3, <2>4
<1>3. ASSUME NEW u \in Users, NEW o \in Orgs, ActivateMember(u, o)
      PROVE  SessionInv'
  <2>1. UNCHANGED <<now, stored, ttlEnd, verified, issued,
                    minted, reminted, retired, spent, loggedOut>>
    BY <1>3 DEF ActivateMember
  <2>2. ASSUME NEW r \in Requests
        PROVE  /\ req'[r] \in Request
               /\ req'[r].pc = req[r].pc /\ req'[r].user = req[r].user
               /\ req'[r].kind = req[r].kind /\ req'[r].org = req[r].org
               /\ req'[r].new = req[r].new /\ req[r].seen \subseteq req'[r].seen
    <3>1. req[r] \in Request
      BY DEF TypeOK
    <3>2. req'[r] = IF req[r].user = u THEN [req[r] EXCEPT !.seen = @ \cup {o}] ELSE req[r]
      BY <1>3 DEF ActivateMember, NoteActive
    <3> QED
      BY <3>1, <3>2 DEF Request, InService
  <2>3. req' \in [Requests -> Request]
    <3>1. req' = [r \in Requests |-> req'[r]]
      BY <1>3 DEF ActivateMember, NoteActive
    <3> QED
      BY <3>1, <2>2
  <2>4. member' \in [Users -> [Orgs -> MemberStatus]]
    BY <1>3 DEF ActivateMember, TypeOK, MemberStatus
  <2>5. TypeOK'
    BY <2>1, <2>3, <2>4 DEF TypeOK
  <2>6. RequestOK'
    <3>1. SUFFICES ASSUME NEW r \in Requests, Coherent(req[r])
                   PROVE  Coherent(req[r])'
      BY DEF RequestOK
    <3>2. req[r].pc = "members" => ActiveOrgs(req[r].user)' \subseteq req'[r].seen
      <4>1. SUFFICES ASSUME req[r].pc = "members"
                     PROVE  ActiveOrgs(req[r].user)' \subseteq req'[r].seen
        OBVIOUS
      <4>2. req[r].user \in Users /\ ActiveOrgs(req[r].user) \subseteq req[r].seen
        BY <3>1, <4>1 DEF Coherent, InService
      <4>3. CASE req[r].user = u
        <5>1. req'[r].seen = req[r].seen \cup {o}
          BY <1>3, <4>3 DEF ActivateMember, NoteActive, TypeOK, Request
        <5>2. \A x \in Orgs : x # o => member'[u][x] = member[u][x]
          BY <1>3 DEF ActivateMember, TypeOK
        <5> QED
          BY <4>2, <4>3, <5>1, <5>2, <2>2 DEF ActiveOrgs
      <4>4. CASE req[r].user # u
        <5>1. member'[req[r].user] = member[req[r].user]
          BY <1>3, <4>2, <4>4 DEF ActivateMember, TypeOK
        <5> QED
          BY <4>2, <5>1, <2>2 DEF ActiveOrgs
      <4> QED
        BY <4>3, <4>4
    <3> QED
      BY <3>1, <3>2, <2>1, <2>2 DEF Coherent
  <2>7. StoreOK' /\ QuietAfterLogout' /\ StoredOnce'
    BY <2>1, <2>2 DEF StoreOK, Exp, QuietAfterLogout, InFlight, StoredOnce
  <2> QED
    BY <2>5, <2>6, <2>7
<1>4. ASSUME NEW u \in Users, NEW o \in Orgs, DeactivateMember(u, o)
      PROVE  SessionInv'
  <2>1. UNCHANGED <<now, stored, ttlEnd, verified, req, issued,
                    minted, reminted, retired, spent, loggedOut>>
    BY <1>4 DEF DeactivateMember
  <2>2. member' \in [Users -> [Orgs -> MemberStatus]]
    BY <1>4 DEF DeactivateMember, TypeOK, MemberStatus
  <2>4. RequestOK'
    <3>1. SUFFICES ASSUME NEW r \in Requests, Coherent(req[r])
                   PROVE  Coherent(req[r])'
      BY DEF RequestOK
    <3>2. ASSUME req[r].pc = "members"
          PROVE  ActiveOrgs(req[r].user)' \subseteq req[r].seen
      <4>1. req[r].user \in Users /\ ActiveOrgs(req[r].user) \subseteq req[r].seen
        BY <3>1, <3>2 DEF Coherent, InService
      <4>2. ActiveOrgs(req[r].user)' \subseteq ActiveOrgs(req[r].user)
        BY <4>1, <2>1, <1>4 DEF DeactivateMember, TypeOK, ActiveOrgs
      <4> QED
        BY <4>1, <4>2
    <3> QED
      BY <3>1, <3>2, <2>1 DEF Coherent
  <2> QED
    BY <2>1, <2>2, <2>4 DEF TypeOK, StoreOK, Exp, QuietAfterLogout, InFlight, StoredOnce
<1>5. CASE Tick
  <2>1. now' \in 0..MaxTime /\ now' >= now /\ now \in Nat
    BY <1>5 DEF Tick, TypeOK
  <2>2. UNCHANGED <<stored, ttlEnd, verified, member, req, issued,
                    minted, reminted, retired, spent, loggedOut>>
    BY <1>5 DEF Tick
  <2>3. RequestOK'
    <3>1. SUFFICES ASSUME NEW r \in Requests, Coherent(req[r])
                   PROVE  Coherent(req[r])'
      BY DEF RequestOK
    <3>2. req[r].pc = "store" => req[r].new.iat \in Nat
      BY <3>1, TokenFields DEF Coherent, ActiveOrgs, TypeOK
    <3> QED
      BY <3>1, <3>2, <2>1, <2>2 DEF Coherent, ActiveOrgs
  <2> QED
    BY <2>1, <2>2, <2>3 DEF TypeOK, StoreOK, Exp, QuietAfterLogout, InFlight, StoredOnce
<1> QED
  BY <1>1, <1>2, <1>3, <1>4, <1>5 DEF Environment

\* Every step of the specification preserves the invariant.
LEMMA NextInv == SessionInv /\ [Next]_vars => SessionInv'
<1> SUFFICES ASSUME SessionInv, [Next]_vars
             PROVE  SessionInv'
  OBVIOUS
<1>1. ASSUME NEW r \in Requests, NEW u \in Users, LoginAccepted(r, u)
      PROVE  SessionInv'
  BY <1>1, AcceptKeepsInv DEF LoginAccepted
<1>2. ASSUME NEW r \in Requests, LoginRejected(r)
      PROVE  SessionInv'
  BY <1>2, EmptyKeepsInv DEF LoginRejected, SessionInv, TypeOK
<1>3. ASSUME NEW r \in Requests, NEW t \in issued, RefreshAccepted(r, t)
      PROVE  SessionInv'
  <2>1. t \in Token /\ t.user \in Users /\ stored[t.user] # None
    BY <1>3, TokenFields DEF RefreshAccepted, Verifies, KeyLive, SessionInv, TypeOK
  <2>2. verified[t.user]
    BY <2>1 DEF SessionInv, StoreOK
  <2> QED
    BY <1>3, <2>1, <2>2, AcceptKeepsInv DEF RefreshAccepted, history
<1>4. ASSUME NEW r \in Requests, NEW t \in issued, RefreshRejected(r, t)
      PROVE  SessionInv'
  BY <1>4, EmptyKeepsInv DEF RefreshRejected, SessionInv, TypeOK
<1>5. ASSUME NEW r \in Requests, FindMembers(r)
      PROVE  SessionInv'
  <2>1. CASE req' = [req EXCEPT ![r] = Rejected]
    BY <2>1, <1>5, EmptyKeepsInv DEF FindMembers, SessionInv, TypeOK
  <2>2. ASSUME NEW o \in ActiveOrgs(req[r].user),
               req' = [req EXCEPT ![r].pc = "mint", ![r].org = o]
        PROVE  SessionInv'
    <3> DEFINE q == [req[r] EXCEPT !.pc = "mint", !.org = o]
    <3>1. req' = [req EXCEPT ![r] = q]
      BY <2>2
    <3> QED
      BY <3>1, <1>5, ChooseKeepsInv DEF FindMembers
  <2> QED
    BY <1>5, <2>1, <2>2 DEF FindMembers
<1>6. ASSUME NEW r \in Requests, MintTokens(r) \/ StoreToken(r)
      PROVE  SessionInv'
  BY <1>6, MintKeepsInv, StoreKeepsInv
<1>7. ASSUME NEW r \in Requests, Deliver(r) \/ Lose(r)
      PROVE  SessionInv'
  <2>1. req[r].new \in Token \cup {None}
    BY RequestFields DEF SessionInv, TypeOK
  <2> QED
    BY <1>7, <2>1, EmptyKeepsInv DEF Deliver, Lose, SessionInv, TypeOK
<1>8. ASSUME NEW t \in issued, Logout(t)
      PROVE  SessionInv'
  BY <1>8, LogoutKeepsInv
<1>9. CASE Environment
  BY <1>9, EnvironmentKeepsInv
<1>10. CASE UNCHANGED vars
  BY <1>10 DEF vars, SessionInv, TypeOK, RequestOK, Coherent, ActiveOrgs, StoreOK, Exp,
               QuietAfterLogout, InFlight, StoredOnce
<1> QED
  BY <1>1, <1>2, <1>3, <1>4, <1>5, <1>6, <1>7, <1>8, <1>9, <1>10 DEF Next, Serve

\* The invariant holds in every reachable state.
THEOREM Invariance == Spec => []SessionInv
<1>1. Init => SessionInv
  BY InitInv
<1>2. SessionInv /\ [Next]_vars => SessionInv'
  BY NextInv
<1> QED
  BY <1>1, <1>2, PTL DEF Spec

\* Type correctness: in particular a minted token names a real user and a real
\* organisation, and no time to live is negative.
THEOREM TypeInvariant == Spec => []TypeOK
<1>1. SessionInv => TypeOK
  BY DEF SessionInv
<1> QED
  BY <1>1, Invariance, PTL

\* A clean logout leaves no refresh token behind until the next login
\* (AuthenticationService.logout against every interleaving of the refreshes).
THEOREM CleanLogout == Spec => []CleanLogoutEndsSession
<1>1. SessionInv => CleanLogoutEndsSession
  BY DEF SessionInv, QuietAfterLogout, CleanLogoutEndsSession
<1> QED
  BY <1>1, Invariance, PTL

\* No token is signed for an organisation the user was not active in while the
\* request was served (login and refresh_access_token).
THEOREM Membership == Spec => []MembershipFresh
<1>1. SessionInv => MembershipFresh
  BY DEF SessionInv, RequestOK, Coherent, MembershipFresh
<1> QED
  BY <1>1, Invariance, PTL

\* The key in Redis lives at least as long as the JWT it holds (create_tokens).
THEOREM KeyLife == Spec => []KeyOutlivesToken
<1>1. SessionInv => KeyOutlivesToken
  BY DEF SessionInv, StoreOK, KeyOutlivesToken
<1> QED
  BY <1>1, Invariance, PTL

\* Only users with a verified address have a session (login).
THEOREM VerifiedSessions == Spec => []SessionNeedsVerifiedEmail
<1>1. SessionInv => SessionNeedsVerifiedEmail
  BY DEF SessionInv, StoreOK, SessionNeedsVerifiedEmail
<1> QED
  BY <1>1, Invariance, PTL

\* A token that was replaced or deleted is never accepted by a refresh again,
\* unless two requests minted the same token (verify_refresh_token).
THEOREM RevokedRefused == Spec => RevokedTokenRefused
<1>1. SessionInv /\ [Next]_vars =>
        [\A r \in Requests : Accepts(r) => req'[r].old \notin retired \ reminted]_vars
  <2>1. SUFFICES ASSUME SessionInv, Next, NEW r \in Requests, Accepts(r)
                 PROVE  req'[r].old \notin retired \ reminted
    OBVIOUS
  <2>0. req \in [Requests -> Request] /\ issued \subseteq Token /\ StoredOnce
    BY <2>1 DEF SessionInv, TypeOK
  <2>2. req[r].pc = "idle" /\ req'[r].pc = "members" /\ req'[r].kind = "refresh"
    BY <2>1 DEF Accepts
  <2>3. ASSUME NEW s \in Requests, NEW u \in Users, LoginAccepted(s, u)
        PROVE  FALSE
    <3>1. req'[s].kind = "login"
      BY <2>0, <2>3, BeginRequest DEF LoginAccepted
    <3>2. s # r => req'[r] = req[r]
      BY <2>0, <2>3 DEF LoginAccepted
    <3> QED
      BY <2>2, <3>1, <3>2
  <2>4. ASSUME NEW s \in Requests, NEW t \in issued, RefreshAccepted(s, t)
        PROVE  req'[r].old \notin retired \ reminted
    <3>1. s = r
      BY <2>0, <2>2, <2>4 DEF RefreshAccepted
    <3>2. req'[r] = Begin(t.user, "refresh", t)
      BY <3>1, <2>0, <2>4 DEF RefreshAccepted
    <3>3. req'[r].old = t
      BY <3>2, <2>0, TokenFields, BeginRequest
    <3>4. stored[t.user] = t
      BY <2>4 DEF RefreshAccepted, Verifies
    <3> QED
      BY <3>3, <3>4, <2>0 DEF StoredOnce
  <2>5. ASSUME NEW s \in Requests, NEW q \in {Idle, Rejected}, req' = [req EXCEPT ![s] = q]
        PROVE  FALSE
    <3>1. q.pc # "members"
      BY EmptySlots
    <3>2. req'[s] = q /\ (s # r => req'[r] = req[r])
      BY <2>0, <2>5
    <3> QED
      BY <2>2, <3>1, <3>2
  <2>6. ASSUME NEW s \in Requests, FindMembers(s) \/ MintTokens(s) \/ StoreToken(s)
        PROVE  FALSE
    <3>1. req[s].pc # "idle"
      BY <2>6 DEF FindMembers, MintTokens, StoreToken
    <3>2. s # r
      BY <3>1, <2>2
    <3>3. ASSUME NEW q, req' = [req EXCEPT ![s] = q]
          PROVE  FALSE
      BY <2>0, <2>2, <3>2, <3>3
    <3>4. CASE FindMembers(s)
      BY <3>3, <3>4 DEF FindMembers
    <3> QED
      BY <2>6, <3>3, <3>4 DEF MintTokens, StoreToken
  <2>7. ASSUME NEW u \in Users, NEW o \in Orgs, ActivateMember(u, o)
        PROVE  FALSE
    BY <2>0, <2>2, <2>7 DEF ActivateMember, NoteActive, Request
  <2>8. ASSUME UNCHANGED req
        PROVE  FALSE
    BY <2>2, <2>8
  <2> QED
    BY <2>1, <2>3, <2>4, <2>5, <2>6, <2>7, <2>8
    DEF Next, Serve, Environment, LoginRejected, RefreshRejected, Deliver, Lose, Logout,
        ExpireKey, ConfirmEmail, DeactivateMember, Tick
<1>2. Spec => [][Next]_vars
  BY DEF Spec
<1> QED
  BY <1>1, <1>2, Invariance, PTL DEF RevokedTokenRefused
=============================================================================
