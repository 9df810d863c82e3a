----------------------------- MODULE AuthSession -----------------------------
(***************************************************************************)
(* The login sessions of boltchats-api: TokenService keeps one refresh     *)
(* token per user in Redis, AuthenticationService reads MongoDB and Redis  *)
(* to log a user in, to exchange a refresh token and to log out.           *)
(*                                                                         *)
(* A request is a coroutine.  It gives up control at every await, so each  *)
(* action below runs from one await to the next, and any number of other   *)
(* requests may run in between.  Both JWTs of a login or a refresh carry   *)
(* the same user, organisation and second of issue, so one record stands   *)
(* for the pair: as a refresh token it expires RefreshLife seconds after   *)
(* iat, as an access token AccessLife seconds after.  Two pairs minted for *)
(* the same user and organisation in the same second are the same token,   *)
(* as the encoded strings are: the payload has no identifier of its own.   *)
(***************************************************************************)
EXTENDS Naturals

CONSTANTS
    Users,        \* ids of the collection users
    Orgs,         \* ids of the collection organizations
    Requests,     \* slots for requests that the API serves concurrently
    RefreshLife,  \* settings.refresh_token_expire_days, in ticks of a second
    AccessLife,   \* settings.access_token_expire_minutes, in ticks of a second
    MaxTime,      \* bound: the clock stops here
    None          \* absence of a token, of a user or of an organisation

Token == [user : Users, org : Orgs, iat : 0..MaxTime]

ASSUME LifeAssumption ==
    /\ RefreshLife \in Nat
    /\ AccessLife \in Nat
    /\ MaxTime \in Nat

ASSUME NoneAssumption ==
    /\ None \notin Token
    /\ None \notin Users
    /\ None \notin Orgs

VARIABLES
    now,        \* the clock, in seconds
    stored,     \* Redis: value of refresh_token:{user}, None when there is no key
    ttlEnd,     \* Redis: second in which that key reaches its time to live
    verified,   \* MongoDB: users.email_verified
    member,     \* MongoDB: status of the user's membership of each organisation
    req,        \* the requests being served
    issued,     \* tokens that an answer has carried to a client
    minted,     \* history: every token that was ever minted
    reminted,   \* history: tokens minted by two requests in the same second
    retired,    \* history: tokens replaced by another or deleted from Redis
    spent,      \* history: refresh tokens exchanged for a new pair
    loggedOut   \* history: what the last logout of the user met, see Logout

vars == <<now, stored, ttlEnd, verified, member, req, issued,
          minted, reminted, retired, spent, loggedOut>>
redis == <<stored, ttlEnd>>
mongo == <<verified, member>>
history == <<minted, reminted, retired, spent, loggedOut>>

MemberStatus == {"none", "active", "inactive"}
InService == {"members", "mint", "store"}

Request ==
    [pc   : {"idle", "respond", "rejected"} \cup InService,
     kind : {"login", "refresh"},
     user : Users \cup {None},
     old  : Token \cup {None},    \* the refresh token presented
     org  : Orgs \cup {None},     \* the membership chosen
     new  : Token \cup {None},    \* the pair minted
     seen : SUBSET Orgs]          \* history: organisations the user was active in
                                  \* at some moment since the request began

Idle == [pc |-> "idle", kind |-> "login", user |-> None, old |-> None,
         org |-> None, new |-> None, seen |-> {}]
Rejected == [Idle EXCEPT !.pc = "rejected"]

Exp(t) == t.iat + RefreshLife
AccessExp(t) == t.iat + AccessLife
ActiveOrgs(u) == {o \in Orgs : member[u][o] = "active"}
\* Redis lets a key live up to its last second; python-jose accepts exp = now.
KeyLive(u) == stored[u] # None /\ now <= ttlEnd[u]
InFlight(u, kinds) ==
    \E r \in Requests : req[r].user = u /\ req[r].pc \in InService /\ req[r].kind \in kinds

TypeOK ==
    /\ now \in 0..MaxTime
    /\ stored \in [Users -> Token \cup {None}]
    /\ ttlEnd \in [Users -> Nat]
    /\ verified \in [Users -> BOOLEAN]
    /\ member \in [Users -> [Orgs -> MemberStatus]]
    /\ req \in [Requests -> Request]
    /\ issued \subseteq Token
    /\ minted \subseteq Token
    /\ reminted \subseteq Token
    /\ retired \subseteq Token
    /\ spent \subseteq Token
    /\ loggedOut \in [Users -> {"no", "clean", "racing"}]

Init ==
    /\ now = 0
    /\ stored = [u \in Users |-> None]
    /\ ttlEnd = [u \in Users |-> 0]
    /\ verified = [u \in Users |-> FALSE]
    /\ member \in [Users -> [Orgs -> {"none", "active"}]]
    /\ req = [r \in Requests |-> Idle]
    /\ issued = {}
    /\ minted = {}
    /\ reminted = {}
    /\ retired = {}
    /\ spent = {}
    /\ loggedOut = [u \in Users |-> "no"]

-----------------------------------------------------------------------------
(* Requests *)

Begin(u, kind, t) ==
    [Idle EXCEPT !.pc = "members", !.kind = kind, !.user = u, !.old = t,
                 !.seen = ActiveOrgs(u)]

\* login: find_by_email, email_verified and the password are all checked on
\* the one document the first query returned.
LoginAccepted(r, u) ==
    /\ req[r].pc = "idle"
    /\ verified[u]
    /\ req' = [req EXCEPT ![r] = Begin(u, "login", None)]
    /\ loggedOut' = [loggedOut EXCEPT ![u] = "no"]
    /\ UNCHANGED <<now, redis, mongo, issued, minted, reminted, retired, spent>>

\* login: unknown address, unverified address or wrong password.
LoginRejected(r) ==
    /\ req[r].pc = "idle"
    /\ req' = [req EXCEPT ![r] = Rejected]
    /\ UNCHANGED <<now, redis, mongo, issued, history>>

\* Mutant: the answer of GET is only tested for presence.
Verifies_AnyStored(t) == now <= Exp(t) /\ KeyLive(t.user)
\* Mutant: Redis is not asked at all.
Verifies_SignatureOnly(t) == now <= Exp(t)

\* verify_refresh_token: the JWT is unexpired and equals what Redis holds.
Verifies(t) == now <= Exp(t) /\ KeyLive(t.user) /\ stored[t.user] = t

RefreshAccepted(r, t) ==
    /\ req[r].pc = "idle"
    /\ Verifies(t)
    /\ req' = [req EXCEPT ![r] = Begin(t.user, "refresh", t)]
    /\ UNCHANGED <<now, redis, mongo, issued, history>>

RefreshRejected(r, t) ==
    /\ req[r].pc = "idle"
    /\ ~Verifies(t)
    /\ req' = [req EXCEPT ![r] = Rejected]
    /\ UNCHANGED <<now, redis, mongo, issued, history>>

\* Mutant: a refresh keeps the organisation named in the token it was given.
FindMembers_TrustsToken(r) ==
    /\ req[r].pc = "members"
    /\ \/ /\ req[r].kind = "refresh"
          /\ req' = [req EXCEPT ![r].pc = "mint", ![r].org = req[r].old.org]
       \/ /\ req[r].kind = "login"
          /\ \E o \in ActiveOrgs(req[r].user) :
                req' = [req EXCEPT ![r].pc = "mint", ![r].org = o]
    /\ UNCHANGED <<now, redis, mongo, issued, history>>

\* login and refresh_access_token read the memberships afresh and take the
\* first active one; the query has no sort, so any of them may come first.
FindMembers(r) ==
    /\ req[r].pc = "members"
    /\ \/ \E o \in ActiveOrgs(req[r].user) :
             req' = [req EXCEPT ![r].pc = "mint", ![r].org = o]
       \/ /\ ActiveOrgs(req[r].user) = {}
          /\ req' = [req EXCEPT ![r] = Rejected]
    /\ UNCHANGED <<now, redis, mongo, issued, history>>

\* The roles have been read; create_tokens reads the clock and signs the pair.
MintTokens(r) ==
    LET t == [user |-> req[r].user, org |-> req[r].org, iat |-> now]
    IN  /\ req[r].pc = "mint"
        /\ req' = [req EXCEPT ![r].pc = "store", ![r].new = t]
        /\ minted' = minted \cup {t}
        /\ reminted' = IF t \in minted THEN reminted \cup {t} ELSE reminted
        /\ UNCHANGED <<now, redis, mongo, issued, retired, spent, loggedOut>>

\* Mutant: the write is repeated after a slow answer of Redis.
StoreToken_Retried(r) ==
    LET u == req[r].user
    IN  /\ req[r].pc = "store"
        /\ stored' = [stored EXCEPT ![u] = req[r].new]
        /\ ttlEnd' = [ttlEnd EXCEPT ![u] = now + RefreshLife]
        /\ retired' = retired \cup ({stored[u]} \ {None, req[r].new})
        /\ spent' = spent \cup ({req[r].old} \ {None})
        /\ \E pc \in {"store", "respond"} : req' = [req EXCEPT ![r].pc = pc]
        /\ UNCHANGED <<now, mongo, issued, minted, reminted, loggedOut>>

\* create_tokens: SETEX overwrites whatever the key held.
StoreToken(r) ==
    LET u == req[r].user
    IN  /\ req[r].pc = "store"
        /\ stored' = [stored EXCEPT ![u] = req[r].new]
        /\ ttlEnd' = [ttlEnd EXCEPT ![u] = now + RefreshLife]
        /\ retired' = retired \cup ({stored[u]} \ {None, req[r].new})
        /\ spent' = spent \cup ({req[r].old} \ {None})
        /\ req' = [req EXCEPT ![r].pc = "respond"]
        /\ UNCHANGED <<now, mongo, issued, minted, reminted, loggedOut>>

\* The answer reaches the client.
Deliver(r) ==
    /\ req[r].pc \in {"respond", "rejected"}
    /\ issued' = issued \cup ({req[r].new} \ {None})
    /\ req' = [req EXCEPT ![r] = Idle]
    /\ UNCHANGED <<now, redis, mongo, history>>

\* The worker dies, the client hangs up or the answer is lost on the way: what
\* the request already wrote stays written.
Lose(r) ==
    /\ req[r].pc # "idle"
    /\ req' = [req EXCEPT ![r] = Idle]
    /\ UNCHANGED <<now, redis, mongo, issued, history>>

\* POST /logout with an unexpired access token: one DEL, whatever is in flight.
\* The history notes whether the delete met a refresh it cannot stop.
Logout(t) ==
    LET u == t.user
    IN  /\ now <= AccessExp(t)
        /\ stored' = [stored EXCEPT ![u] = None]
        /\ retired' = retired \cup ({stored[u]} \ {None})
        /\ loggedOut' = [loggedOut EXCEPT ![u] =
               IF InFlight(u, {"login"}) THEN "no"
               ELSE IF InFlight(u, {"refresh"}) THEN "racing" ELSE "clean"]
        /\ UNCHANGED <<now, ttlEnd, mongo, req, issued, minted, reminted, spent>>

-----------------------------------------------------------------------------
(* Redis, the clock, and the other writers of users and members *)

\* Redis drops the key at some instant of its last second.
ExpireKey(u) ==
    /\ stored[u] # None
    /\ now >= ttlEnd[u]
    /\ stored' = [stored EXCEPT ![u] = None]
    /\ UNCHANGED <<now, ttlEnd, mongo, req, issued, history>>

Tick ==
    /\ now < MaxTime
    /\ now' = now + 1
    /\ UNCHANGED <<redis, mongo, req, issued, history>>

\* verify_email, the write to the user document.
ConfirmEmail(u) ==
    /\ verified' = [verified EXCEPT ![u] = TRUE]
    /\ UNCHANGED <<now, redis, member, req, issued, history>>

NoteActive(u, o) ==
    req' = [r \in Requests |->
        IF req[r].user = u THEN [req[r] EXCEPT !.seen = @ \cup {o}] ELSE req[r]]

\* MemberService.add_member and update_member_status(ACTIVE).
ActivateMember(u, o) ==
    /\ member' = [member EXCEPT ![u][o] = "active"]
    /\ NoteActive(u, o)
    /\ UNCHANGED <<now, redis, verified, issued, history>>

\* MemberService.remove_member and update_member_status to another status.
DeactivateMember(u, o) ==
    /\ member[u][o] # "none"
    /\ member' = [member EXCEPT ![u][o] = "inactive"]
    /\ UNCHANGED <<now, redis, verified, req, issued, history>>

-----------------------------------------------------------------------------
Serve(r) ==
    \/ FindMembers(r)
    \/ MintTokens(r)
    \/ StoreToken(r)

Environment ==
    \/ \E u \in Users : ExpireKey(u) \/ ConfirmEmail(u)
    \/ \E u \in Users, o \in Orgs : ActivateMember(u, o) \/ DeactivateMember(u, o)
    \/ Tick

Next ==
    \/ \E r \in Requests, u \in Users : LoginAccepted(r, u)
    \/ \E r \in Requests : LoginRejected(r)
    \/ \E r \in Requests, t \in issued : RefreshAccepted(r, t) \/ RefreshRejected(r, t)
    \/ \E r \in Requests : Serve(r) \/ Deliver(r) \/ Lose(r)
    \/ \E t \in issued : Logout(t)
    \/ Environment

Spec == Init /\ [][Next]_vars

-----------------------------------------------------------------------------
(* The inductive invariant behind the safety properties *)

\* What a request knows at each await, and how it relates to the stores.
Coherent(q) ==
    /\ q.pc \in InService \cup {"respond"} => q.user \in Users /\ verified[q.user]
    /\ q.pc = "members" => ActiveOrgs(q.user) \subseteq q.seen
    /\ q.pc \in {"mint", "store", "respond"} => q.org \in q.seen
    /\ q.pc \in {"store", "respond"} =>
          q.new \in minted /\ q.new.user = q.user /\ q.new.org = q.org
    /\ q.pc = "store" => q.new.iat <= now

RequestOK == \A r \in Requests : Coherent(req[r])

\* What Redis holds for a user is a token of that user.
StoreOK ==
    \A u \in Users : stored[u] # None =>
        /\ stored[u] \in minted
        /\ stored[u].user = u
        /\ verified[u]
        /\ ttlEnd[u] >= Exp(stored[u])

\* After a clean logout nothing is under way that could store a token.
QuietAfterLogout ==
    \A u \in Users : loggedOut[u] = "clean" =>
        stored[u] = None /\ ~InFlight(u, {"login", "refresh"})

\* A token minted once goes to Redis once: while it waits to be stored it is
\* neither there nor retired, and once retired it is not there.
StoredOnce ==
    /\ retired \subseteq minted
    /\ \A t \in minted \ reminted :
          /\ t \in retired => stored[t.user] # t
          /\ \A r \in Requests : req[r].pc = "store" /\ req[r].new = t =>
                /\ t \notin retired
                /\ stored[t.user] # t
                /\ \A r2 \in Requests : req[r2].pc = "store" /\ req[r2].new = t => r2 = r

\* The conjunction is inductive; StoredOnce is what a refresh relies on.
SessionInv == TypeOK /\ RequestOK /\ StoreOK /\ QuietAfterLogout /\ StoredOnce

-----------------------------------------------------------------------------
(* Properties *)

Accepts(r) == req[r].pc = "idle" /\ req'[r].pc = "members" /\ req'[r].kind = "refresh"
Exchanges(r) == req[r].pc = "store" /\ req'[r].pc = "respond" /\ req[r].kind = "refresh"

\* A refresh token that was replaced by a rotation or a later login, or deleted
\* by a logout, is never accepted again, however the requests that replaced it
\* interleave.  The exception is a token that two requests minted in the same
\* second: the slower of the two writes the same string back into Redis.
RevokedTokenRefused ==
    [][\A r \in Requests : Accepts(r) => req'[r].old \notin retired \ reminted]_vars

\* A logout that met no request of the user between its check and its SETEX
\* ends the session: until somebody logs in again with the password there is no
\* refresh token in Redis for the user, so no refresh is accepted.
CleanLogoutEndsSession ==
    \A u \in Users : loggedOut[u] = "clean" => stored[u] = None

\* No login and no refresh signs a token for an organisation that the user was
\* not an active member of at some moment while the request was being served: a
\* member removed before the refresh began cannot prolong his access with it.
MembershipFresh ==
    \A r \in Requests : req[r].pc \in {"store", "respond"} => req[r].new.org \in req[r].seen

\* Redis never forgets a refresh token before the JWT itself expires, though the
\* time to live is counted from the SETEX and the expiry from the signature:
\* short of a logout or a newer token a session lasts its full advertised life.
KeyOutlivesToken ==
    \A u \in Users : stored[u] # None => ttlEnd[u] >= Exp(stored[u])

\* Rotation only ever continues a session that began with a login, and a login
\* needs a verified address: no refresh token exists for an unverified user.
SessionNeedsVerifiedEmail ==
    \A u \in Users : stored[u] # None => verified[u]

=============================================================================
