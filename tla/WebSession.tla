------------------------------ MODULE WebSession ------------------------------
(***************************************************************************)
(* The session of one user of boltchats-web in one browser: several tabs   *)
(* with an access token each in memory, one httpOnly cookie they share,    *)
(* the Next.js route handlers under app/api/auth, the middleware that      *)
(* picks the page by the cookie, and the backend's key of the refresh      *)
(* token (AuthSession, of which this module keeps one user).               *)
(*                                                                         *)
(* Refresh tokens are numbered in the order they are minted; two minted in *)
(* the same second are the same token, as in AuthSession.  A tab has up to *)
(* five calls in flight: the refresh that the mounted page waits for       *)
(* (init), one whose page was left or which a child component started     *)
(* (old), the one behind the singleton of lib/api.ts (guard), the login or *)
(* logout the user asked for (form), and one that the server still handles *)
(* for a document that is gone (orphan).                                   *)
(***************************************************************************)
EXTENDS Naturals, FiniteSets

CONSTANTS
    Tabs,
    MaxUser,    \* bound on what the user does: logins, logouts, reloads
    MaxApi,     \* bound on the API calls of a tab that await a 401
    MaxFaults   \* bound on calls the network or the backend fails

ASSUME WebAssumption == MaxUser \in Nat /\ MaxApi \in Nat /\ MaxFaults \in Nat

VARIABLES
    valid,    \* Redis: the refresh token of the user, 0 when there is none
    newest,   \* the last refresh token minted
    fresh,    \* the clock still shows the second newest was minted in
    cookie,   \* the cookie bolt_refresh_token, 0 when there is none
    shown,    \* what the tab shows
    ready,    \* useAuth's isReady of the mounted page
    access,   \* store/auth.ts _accessToken, and what the backend thinks of it
    bad,      \* API calls in flight that the backend will answer with 401
    call,     \* calls in flight to the route handlers
    inbox,    \* tabs with an undelivered logout message
    user,     \* how often the user acted
    faults,   \* how many calls failed
    out       \* history: the last logout met no other call and nobody logged in since

backend == <<valid, newest, fresh>>
tabState == <<shown, ready, access, bad>>
webVars == <<backend, cookie, tabState, call, inbox, user, faults, out>>

Slots == {"init", "old", "guard", "form", "orphan"}
Fetch == [pc : {"idle", "sent", "checked", "granted", "refused", "error"},
          kind : {"refresh", "login", "logout"}, ck : Nat, new : Nat]
NoFetch == [pc |-> "idle", kind |-> "refresh", ck |-> 0, new |-> 0]
\* The cookie is attached when the call is sent; refresh/route.ts answers 401
\* at once when there is none.
SendFetch(kind, ck) ==
    [NoFetch EXCEPT !.pc = IF kind = "refresh" /\ ck = 0 THEN "refused" ELSE "sent",
                    !.kind = kind, !.ck = ck]
OpenTabs == {t \in Tabs : shown[t] # "closed"}
Busy(t, s) == call[t][s].pc # "idle"

PageTypeOK ==
    /\ valid \in 0..newest /\ newest \in Nat /\ fresh \in BOOLEAN
    /\ cookie \in 0..newest
    /\ shown \in [Tabs -> {"closed", "login", "rooms"}]
    /\ ready \in [Tabs -> BOOLEAN]
    /\ access \in [Tabs -> {"none", "live", "expired"}]
    /\ bad \in [Tabs -> 0..MaxApi]
    /\ call \in [Tabs -> [Slots -> Fetch]]
    /\ inbox \subseteq Tabs
    /\ user \in 0..MaxUser /\ faults \in 0..MaxFaults
    /\ out \in BOOLEAN

\* A browser without a cookie and without an open tab.
WebInit ==
    /\ valid = 0 /\ newest = 0 /\ fresh = FALSE /\ cookie = 0
    /\ shown = [t \in Tabs |-> "closed"]
    /\ ready = [t \in Tabs |-> FALSE]
    /\ access = [t \in Tabs |-> "none"]
    /\ bad = [t \in Tabs |-> 0]
    /\ call = [t \in Tabs |-> [s \in Slots |-> NoFetch]]
    /\ inbox = {} /\ user = 0 /\ faults = 0 /\ out = FALSE

-----------------------------------------------------------------------------
(* The route handlers and the backend *)

Mint == IF fresh THEN newest ELSE newest + 1

SetCall(t, s, c) == call' = [call EXCEPT ![t][s] = c]
Answer(t, s, pc) == SetCall(t, s, [call[t][s] EXCEPT !.pc = pc])

\* The backend's check of the token that refresh/route.ts passes on.
CheckToken(t, s) ==
    /\ call[t][s].pc = "sent" /\ call[t][s].kind = "refresh"
    /\ Answer(t, s, IF call[t][s].ck = valid THEN "checked" ELSE "refused")
    /\ UNCHANGED <<backend, cookie, tabState, inbox, user, faults, out>>

\* The backend mints a new pair and overwrites its key.
StoreToken(t, s) ==
    /\ \/ call[t][s].pc = "checked"
       \/ call[t][s].pc = "sent" /\ call[t][s].kind = "login"
    /\ valid' = Mint /\ newest' = Mint /\ fresh' = TRUE
    /\ SetCall(t, s, [call[t][s] EXCEPT !.pc = "granted", !.new = Mint])
    /\ UNCHANGED <<cookie, tabState, inbox, user, faults, out>>

\* Wrong password, no membership left, or an error of the backend: the routes
\* treat every answer that is not ok alike.
Refuse(t, s) ==
    /\ faults < MaxFaults
    /\ call[t][s].pc \in {"sent", "checked"} /\ call[t][s].kind # "logout"
    /\ faults' = faults + 1
    /\ Answer(t, s, "refused")
    /\ UNCHANGED <<backend, cookie, tabState, inbox, user, out>>

\* logout/route.ts posts to the backend without an Authorization header: the
\* backend answers 401 and revokes nothing, and the route goes on.
ServeLogout(t) ==
    /\ call[t]["form"].pc = "sent" /\ call[t]["form"].kind = "logout"
    /\ Answer(t, "form", "granted")
    /\ UNCHANGED <<backend, cookie, tabState, inbox, user, faults, out>>

\* The call or its answer is lost: nothing of the answer reaches the browser.
Fail(t, s) ==
    /\ faults < MaxFaults
    /\ call[t][s].pc \in {"sent", "checked", "granted", "refused"}
    /\ faults' = faults + 1
    /\ Answer(t, s, "error")
    /\ UNCHANGED <<backend, cookie, tabState, inbox, user, out>>

-----------------------------------------------------------------------------
(* Pages *)

\* middleware.ts: the page served for a path, given the cookie.
Served(target, ck) ==
    CASE target = "rooms" /\ ck = 0 -> "login"
      [] target = "login" /\ ck # 0 -> "rooms"
      [] OTHER -> target

\* Mutant: the layout keeps waiting for the refresh of the page it replaced.
Navigate_KeepsWaiting(t, target, ck, acc, calls) ==
    LET p == Served(target, ck) IN
    /\ shown' = [shown EXCEPT ![t] = p]
    /\ access' = [access EXCEPT ![t] = acc]
    /\ bad' = bad
    /\ ready' = [ready EXCEPT ![t] = IF p = shown[t] THEN @ ELSE acc # "none"]
    /\ call' = [call EXCEPT ![t] = calls]

\* router.push and router.replace: memory survives.  A page that is newly mounted
\* is ready with a token and refreshes without one; the answer to the refresh of
\* the page it replaces is still applied when it comes.
Navigate(t, target, ck, acc, calls) ==
    LET p == Served(target, ck)
        stays == p = shown[t]
        kept == IF calls["init"].pc = "idle" THEN calls["old"] ELSE calls["init"]
    IN
    /\ stays \/ calls["init"].pc = "idle" \/ calls["old"].pc = "idle"
    /\ shown' = [shown EXCEPT ![t] = p]
    /\ access' = [access EXCEPT ![t] = acc]
    /\ bad' = bad
    /\ ready' = [ready EXCEPT ![t] = IF stays THEN @ ELSE acc # "none"]
    /\ call' = [call EXCEPT ![t] =
           IF stays THEN calls
           ELSE [calls EXCEPT !["old"] = kept,
                              !["init"] = IF acc = "none" THEN SendFetch("refresh", ck) ELSE NoFetch]]

\* A load of the document: memory is gone.  At most one of the calls that were
\* in flight goes on at the server, the others never reached it.
Load(t, target, ck, calls) ==
    /\ \E s \in Slots :
          /\ Busy(t, "orphan") => s = "orphan"
          /\ call' = [call EXCEPT ![t] =
                 [x \in Slots |-> CASE x = "init" -> SendFetch("refresh", ck)
                                    [] x = "orphan" -> calls[s]
                                    [] OTHER -> NoFetch]]
    /\ shown' = [shown EXCEPT ![t] = Served(target, ck)]
    /\ ready' = [ready EXCEPT ![t] = FALSE]
    /\ access' = [access EXCEPT ![t] = "none"]
    /\ bad' = [bad EXCEPT ![t] = 0]

-----------------------------------------------------------------------------
(* Answers, as the tab applies them *)

Done(t, s) == [call[t] EXCEPT ![s] = NoFetch]
CookieAfter(c) ==
    CASE c.pc = "granted" /\ c.kind = "refresh" -> c.ck   \* the token that was sent
      [] c.pc = "granted" /\ c.kind = "login" -> c.new
      [] c.pc = "granted" /\ c.kind = "logout" -> 0
      [] c.pc = "refused" /\ c.kind = "refresh" /\ c.ck # 0 -> 0
      [] OTHER -> cookie

\* setToken.  Only the page's own refresh makes it ready.
RefreshOk(t, s) ==
    /\ s \in {"init", "old", "guard"}
    /\ call[t][s].pc = "granted"
    /\ cookie' = CookieAfter(call[t][s])
    /\ access' = [access EXCEPT ![t] = "live"]
    /\ ready' = [ready EXCEPT ![t] = @ \/ s = "init"]
    /\ call' = [call EXCEPT ![t] = Done(t, s)]
    /\ UNCHANGED <<backend, shown, bad, inbox, user, faults, out>>

Failed(t, s) == call[t][s].pc \in {"refused", "error"}

\* useAuth: clearToken, then ready.  The chat layout then fetches the rooms
\* without a token and mounts a page whose own useAuth refreshes once more.
InitFails(t) ==
    LET c == CookieAfter(call[t]["init"])
        chat == shown[t] = "rooms"
    IN
    /\ Failed(t, "init")
    /\ chat => ~Busy(t, "old")
    /\ cookie' = c
    /\ access' = [access EXCEPT ![t] = "none"]
    /\ ready' = [ready EXCEPT ![t] = TRUE]
    /\ bad' = [bad EXCEPT ![t] = IF chat /\ @ < MaxApi THEN @ + 1 ELSE @]
    /\ call' = [call EXCEPT ![t] =
           [Done(t, "init") EXCEPT !["old"] = IF chat THEN SendFetch("refresh", c) ELSE @]]
    /\ UNCHANGED <<backend, shown, inbox, user, faults, out>>

\* The same for a refresh nobody waits for any more.
OldFails(t) ==
    /\ Failed(t, "old")
    /\ cookie' = CookieAfter(call[t]["old"])
    /\ access' = [access EXCEPT ![t] = "none"]
    /\ call' = [call EXCEPT ![t] = Done(t, "old")]
    /\ UNCHANGED <<backend, shown, ready, bad, inbox, user, faults, out>>

\* Mutant: the token is cleared and the page stays.
GuardFails_NoRedirect(t) ==
    /\ Failed(t, "guard")
    /\ cookie' = CookieAfter(call[t]["guard"])
    /\ access' = [access EXCEPT ![t] = "none"]
    /\ call' = [call EXCEPT ![t] = Done(t, "guard")]
    /\ UNCHANGED <<backend, shown, ready, bad, inbox, user, faults, out>>

\* attemptTokenRefresh: clearToken and window.location.href = '/login'.
GuardFails(t) ==
    LET c == CookieAfter(call[t]["guard"]) IN
    /\ Failed(t, "guard")
    /\ cookie' = c
    /\ Load(t, "login", c, Done(t, "guard"))
    /\ UNCHANGED <<backend, inbox, user, faults, out>>

LoginOk(t) ==
    LET c == CookieAfter(call[t]["form"]) IN
    /\ call[t]["form"].pc = "granted" /\ call[t]["form"].kind = "login"
    /\ cookie' = c
    /\ Navigate(t, "rooms", c, "live", Done(t, "form"))
    /\ UNCHANGED <<backend, inbox, user, faults, out>>

LoginFails(t) ==
    /\ Failed(t, "form") /\ call[t]["form"].kind = "login"
    /\ call' = [call EXCEPT ![t] = Done(t, "form")]
    /\ UNCHANGED <<backend, cookie, tabState, inbox, user, faults, out>>

\* No other call is in flight, in any tab.
Alone(t) == \A x \in Tabs, s \in Slots : Busy(x, s) => x = t /\ s = "form"

\* logout(): whatever the route answered, tell the other tabs, clear the token and
\* leave.  A channel of this very document may still receive the message as well.
LogoutDone(t) ==
    LET c == CookieAfter(call[t]["form"]) IN
    /\ call[t]["form"].pc \in {"granted", "error"} /\ call[t]["form"].kind = "logout"
    /\ cookie' = c
    /\ out' = (call[t]["form"].pc = "granted" /\ Alone(t))
    /\ inbox' \in {OpenTabs, OpenTabs \ {t}}
    /\ Navigate(t, "login", c, "none", Done(t, "form"))
    /\ UNCHANGED <<backend, user, faults>>

\* The other tabs mirror a logout.
ReceiveLogout(t) ==
    /\ t \in inbox
    /\ inbox' = inbox \ {t}
    /\ Navigate(t, "login", cookie, "none", call[t])
    /\ UNCHANGED <<backend, cookie, user, faults, out>>

\* The browser may still take the cookie of an answer to a document that is gone.
OrphanAnswer(t) ==
    /\ call[t]["orphan"].pc \in {"granted", "refused", "error"}
    /\ cookie' \in {cookie, CookieAfter(call[t]["orphan"])}
    /\ call' = [call EXCEPT ![t] = Done(t, "orphan")]
    /\ UNCHANGED <<backend, tabState, inbox, user, faults, out>>

-----------------------------------------------------------------------------
(* The API calls of the chat pages, the user and the clock *)

\* A call with no token or with one that has expired.
SendApi(t) ==
    /\ shown[t] = "rooms" /\ ready[t] /\ access[t] # "live" /\ bad[t] < MaxApi
    /\ bad' = [bad EXCEPT ![t] = @ + 1]
    /\ UNCHANGED <<backend, cookie, shown, ready, access, call, inbox, user, faults, out>>

\* request(): 401 starts a refresh, or waits for the one that is under way.
Api401(t) ==
    /\ bad[t] > 0
    /\ bad' = [bad EXCEPT ![t] = @ - 1]
    /\ call' = IF Busy(t, "guard") THEN call
               ELSE [call EXCEPT ![t]["guard"] = SendFetch("refresh", cookie)]
    /\ UNCHANGED <<backend, cookie, shown, ready, access, inbox, user, faults, out>>

SubmitLogin(t) ==
    /\ user < MaxUser /\ shown[t] = "login" /\ ~Busy(t, "form")
    /\ user' = user + 1
    /\ SetCall(t, "form", SendFetch("login", 0))
    /\ out' = FALSE
    /\ UNCHANGED <<backend, cookie, tabState, inbox, faults>>

ClickLogout(t) ==
    /\ user < MaxUser /\ shown[t] = "rooms" /\ ready[t] /\ ~Busy(t, "form")
    /\ user' = user + 1
    /\ SetCall(t, "form", SendFetch("logout", cookie))
    /\ UNCHANGED <<backend, cookie, tabState, inbox, faults, out>>

OpenTab(t) ==
    /\ shown[t] = "closed"
    /\ Load(t, "rooms", cookie, call[t])
    /\ UNCHANGED <<backend, cookie, inbox, user, faults, out>>

Reload(t) ==
    /\ shown[t] # "closed"
    /\ user < MaxUser
    /\ user' = user + 1
    /\ Load(t, shown[t], cookie, call[t])
    /\ inbox' = inbox \ {t}
    /\ UNCHANGED <<backend, cookie, faults, out>>

Second ==
    /\ fresh
    /\ fresh' = FALSE
    /\ UNCHANGED <<valid, newest, cookie, tabState, call, inbox, user, faults, out>>

\* Minutes pass.
ExpireAccess(t) ==
    /\ access[t] = "live"
    /\ access' = [access EXCEPT ![t] = "expired"]
    /\ fresh' = FALSE
    /\ UNCHANGED <<valid, newest, cookie, shown, ready, bad, call, inbox, user, faults, out>>

\* Days pass: the browser drops the cookie, Redis the key.
ExpireSession ==
    /\ \/ cookie # 0 /\ cookie' = 0 /\ valid' = valid
       \/ valid # 0 /\ valid' = 0 /\ cookie' = cookie
    /\ fresh' = FALSE
    /\ UNCHANGED <<newest, tabState, call, inbox, user, faults, out>>

-----------------------------------------------------------------------------
\* What becomes of a call in flight: the servers answer, the tab applies it.
Handle(t, s) ==
    \/ CheckToken(t, s) \/ StoreToken(t, s) \/ RefreshOk(t, s)
    \/ s = "init" /\ InitFails(t)
    \/ s = "old" /\ OldFails(t)
    \/ s = "guard" /\ GuardFails(t)
    \/ s = "form" /\ (ServeLogout(t) \/ LoginOk(t) \/ LoginFails(t) \/ LogoutDone(t))
    \/ s = "orphan" /\ OrphanAnswer(t)

WebNext ==
    \/ \E t \in Tabs, s \in Slots : Handle(t, s) \/ Refuse(t, s) \/ Fail(t, s)
    \/ \E t \in Tabs : Api401(t) \/ ReceiveLogout(t)
    \/ \E t \in Tabs : SendApi(t) \/ SubmitLogin(t) \/ ClickLogout(t) \/ OpenTab(t) \/ Reload(t)
    \/ \E t \in Tabs : ExpireAccess(t)
    \/ Second
    \/ ExpireSession

WebSpec == WebInit /\ [][WebNext]_webVars

\* Every call is answered or fails, and the event loop of a tab runs every
\* continuation that is due, whatever else the tab does.
FairWebSpec ==
    /\ WebSpec
    /\ \A t \in Tabs : WF_webVars(Api401(t)) /\ WF_webVars(ReceiveLogout(t))
    /\ \A t \in Tabs, s \in Slots : WF_webVars(Handle(t, s))

-----------------------------------------------------------------------------
(* Properties *)

\* The spinner of the chat layout is not shown for ever: a page that is not ready
\* has its own refresh in flight, whatever was in flight when it was mounted.
NoDeadSpinner == \A t \in OpenTabs : ready[t] \/ Busy(t, "init")

\* A logout that met no other call in any tab leaves no cookie, and no tab keeps
\* an access token once it has received the message, until somebody logs in.
LogoutClearsTabs ==
    out => cookie = 0 /\ \A t \in Tabs : t \in inbox \/ access[t] = "none"

\* The invariant of the pages: their type, no dead spinner, and nothing left of a
\* session after a logout.
PageInv == PageTypeOK /\ NoDeadSpinner /\ LogoutClearsTabs

\* A 401 is never the last word: each API call the backend refuses ends with the
\* tab holding a token the backend takes, or on the login page.
RefusedCallResolves ==
    \A t \in Tabs : bad[t] > 0 ~> (access[t] = "live" \/ shown[t] = "login")

\* store/auth.ts: "On page refresh the chat layout calls /api/auth/refresh (httpOnly
\* cookie) to restore it": the browser's cookie is accepted while the backend holds
\* a session for the user.
PageRefreshRestores ==
    [][\A t \in Tabs :
          LET c == call[t]["init"] IN
          c.pc = "sent" /\ c.ck # 0 /\ c.ck = cookie /\ call'[t]["init"] = [c EXCEPT !.pc = "refused"]
             => valid = 0]_webVars

=============================================================================
