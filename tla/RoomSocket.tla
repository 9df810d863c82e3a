----------------------------- MODULE RoomSocket -----------------------------
(***************************************************************************)
(* The realtime connection of one tab of boltchats-web: WsClient, the      *)
(* module-wide client and reference count of useWebSocket, and the join    *)
(* effect of useMessages.                                                  *)
(*                                                                         *)
(* A room page uses the hook twice: MemberList takes the access token when *)
(* it is first rendered, the page itself when its effects run.  The server *)
(* and the network are the environment: a socket opens, is refused or is   *)
(* lost at any time.  Going to another room unmounts the page and mounts   *)
(* the next one.  connected is a ref, so that the page sees a change of it *)
(* only when something else renders the page.                              *)
(***************************************************************************)
EXTENDS Naturals, FiniteSets

CONSTANTS
    MaxClients,  \* bound on the WsClient objects of the tab
    MaxTokens,   \* bound on the access tokens of the session
    MaxDrops,    \* bound on sockets that are refused or lost
    NoToken, NoClient

ASSUME NoneAssumption == NoToken \notin Nat /\ NoClient \notin Nat
ASSUME BoundAssumption == MaxClients \in Nat /\ MaxTokens \in Nat \ {0} /\ MaxDrops \in Nat

Clients == 1..MaxClients
Tokens == 1..MaxTokens
Hooks == {"members", "room"}

VARIABLES
    token,      \* store/auth: _accessToken
    refreshed,  \* the newest access token that exists
    expired,    \* the access tokens the server refuses
    page,       \* how far the page is
    taken,      \* by hook: the token it was rendered with
    loads,      \* answers the page still waits for: the room and its history
    global,     \* globalWsClient
    refs,       \* globalRefCount
    clients,    \* the WsClient objects: token, socket, shouldReconnect, timer
    made,       \* how many of them exist
    subs,       \* by hook: the client its handlers are registered with
    connected,  \* by hook: connectedRef.current
    seen,       \* useMessages: connected as last rendered
    joined,     \* useMessages: joinedRef.current
    inRoom,     \* the server: the socket has joined the room
    drops

auth == <<token, refreshed, expired>>
view == <<page, taken, loads>>
ws == <<global, refs, clients, made>>
hook == <<subs, connected>>
room == <<seen, joined, inRoom>>
vars == <<auth, view, ws, hook, room, drops>>

Client == [token : Tokens, socket : {"none", "connecting", "open", "closing"},
           again : BOOLEAN, timer : BOOLEAN]

TypeOK ==
    /\ token \in Tokens \cup {NoToken} /\ refreshed \in Tokens /\ expired \subseteq Tokens
    /\ page \in {"away", "rendered", "effects", "ready"}
    /\ taken \in [Hooks -> Tokens \cup {NoToken}]
    /\ loads \in 0..2
    /\ global \in Clients \cup {NoClient} /\ refs \in 0..2
    /\ made \in 0..MaxClients /\ clients \in [Clients -> Client]
    /\ subs \in [Hooks -> Clients \cup {NoClient}]
    /\ connected \in [Hooks -> BOOLEAN]
    /\ seen \in BOOLEAN /\ joined \in BOOLEAN /\ inRoom \in BOOLEAN
    /\ drops \in 0..MaxDrops

NewClient(t) == [token |-> t, socket |-> "connecting", again |-> TRUE, timer |-> FALSE]

Init ==
    /\ token = 1 /\ refreshed = 1 /\ expired = {}
    /\ page = "away" /\ taken = [h \in Hooks |-> NoToken] /\ loads = 0
    /\ global = NoClient /\ refs = 0 /\ made = 0
    /\ clients = [c \in Clients |->
                     [token |-> 1, socket |-> "none", again |-> TRUE, timer |-> FALSE]]
    /\ subs = [h \in Hooks |-> NoClient] /\ connected = [h \in Hooks |-> FALSE]
    /\ seen = FALSE /\ joined = FALSE /\ inRoom = FALSE
    /\ drops = 0

-----------------------------------------------------------------------------
(* WsClient *)

\* disconnect: no more reconnects, the timer is cleared, the socket is closed.
Disconnected(c) ==
    [clients[c] EXCEPT !.again = FALSE, !.timer = FALSE,
                       !.socket = IF @ = "none" THEN "none" ELSE "closing"]

\* emitStatus, to the handlers of one client.
Emit(c, up) == connected' = [h \in Hooks |-> IF subs[h] = c THEN up ELSE connected[h]]

\* onopen: the server accepts a token that has not expired.
Open(c) ==
    /\ clients[c].socket = "connecting" /\ clients[c].token \notin expired
    /\ clients' = [clients EXCEPT ![c].socket = "open", ![c].timer = FALSE]
    /\ Emit(c, TRUE)
    /\ UNCHANGED <<auth, view, global, refs, made, subs, room, drops>>

\* A socket that disconnect closed ends, and so does one whose token is refused;
\* any other may be lost.
Ends(c) ==
    \/ clients[c].socket = "closing"
    \/ clients[c].socket = "connecting" /\ clients[c].token \in expired

\* onclose.
Close(c) ==
    /\ clients[c].socket # "none"
    /\ \/ Ends(c) /\ drops' = drops
       \/ ~Ends(c) /\ drops < MaxDrops /\ drops' = drops + 1
    /\ clients' = [clients EXCEPT ![c].socket = "none", ![c].timer = clients[c].again]
    /\ Emit(c, FALSE)
    /\ inRoom' = (inRoom /\ clients[c].socket # "open")
    /\ UNCHANGED <<auth, view, global, refs, made, subs, seen, joined>>

\* Mutant: the timer is armed once and not again.
Reconnect_Once(c) ==
    /\ clients[c].timer
    /\ clients' = [clients EXCEPT ![c].timer = FALSE, ![c].again = FALSE, ![c].socket = "connecting"]
    /\ UNCHANGED <<auth, view, global, refs, made, hook, room, drops>>

\* The timer of three seconds fires: connect.
Reconnect(c) ==
    /\ clients[c].timer
    /\ clients' = [clients EXCEPT ![c].timer = FALSE, ![c].socket = "connecting"]
    /\ UNCHANGED <<auth, view, global, refs, made, hook, room, drops>>

-----------------------------------------------------------------------------
(* useWebSocket *)

\* The hooks whose effect has subscribed and not been cleaned up.
Registered == {h \in Hooks : subs[h] # NoClient}

\* Mutant: any client there is will do.
Subscribe_AnyToken(h, t) ==
    /\ IF global # NoClient
       THEN /\ UNCHANGED <<global, clients, made>>
            /\ subs' = [subs EXCEPT ![h] = global]
       ELSE /\ made < MaxClients /\ made' = made + 1 /\ global' = made + 1
            /\ clients' = [clients EXCEPT ![made + 1] = NewClient(t)]
            /\ subs' = [subs EXCEPT ![h] = made + 1]
    /\ refs' = refs + 1

\* Mutant: a client with another token is replaced and not closed.
Subscribe_NoDisconnect(h, t) ==
    /\ IF global # NoClient /\ clients[global].token = t
       THEN /\ UNCHANGED <<global, clients, made>>
            /\ subs' = [subs EXCEPT ![h] = global]
       ELSE /\ made < MaxClients /\ made' = made + 1 /\ global' = made + 1
            /\ clients' = [clients EXCEPT ![made + 1] = NewClient(t)]
            /\ subs' = [subs EXCEPT ![h] = made + 1]
    /\ refs' = refs + 1

\* The effect, for a hook with a token: share the client, or replace it.
Subscribe(h, t) ==
    /\ IF global # NoClient /\ clients[global].token = t
       THEN /\ UNCHANGED <<global, clients, made>>
            /\ subs' = [subs EXCEPT ![h] = global]
       ELSE /\ made < MaxClients /\ made' = made + 1 /\ global' = made + 1
            /\ clients' = [c \in Clients |->
                              IF c = made + 1 THEN NewClient(t)
                              ELSE IF c = global THEN Disconnected(c) ELSE clients[c]]
            /\ subs' = [subs EXCEPT ![h] = made + 1]
    /\ refs' = refs + 1

\* A hook without a token does nothing.
Effect(h, t) ==
    \/ t = NoToken /\ UNCHANGED <<ws, subs>>
    \/ t # NoToken /\ Subscribe(h, t)

\* Mutant: the cleanup of one hook only is counted.
Cleanup_CountsOnce ==
    LET left == IF Registered # {} THEN refs - 1 ELSE refs
    IN  /\ subs' = [h \in Hooks |-> NoClient]
        /\ refs' = left
        /\ IF left = 0 /\ global # NoClient
           THEN clients' = [clients EXCEPT ![global] = Disconnected(global)] /\ global' = NoClient
           ELSE UNCHANGED <<clients, global>>

\* The cleanups of both hooks: the last one closes the client.
Cleanup ==
    LET left == refs - Cardinality(Registered)
    IN  /\ subs' = [h \in Hooks |-> NoClient]
        /\ refs' = left
        /\ IF left = 0 /\ global # NoClient
           THEN clients' = [clients EXCEPT ![global] = Disconnected(global)] /\ global' = NoClient
           ELSE UNCHANGED <<clients, global>>

-----------------------------------------------------------------------------
(* The page *)

\* The first render: MemberList takes the token, the page has none yet.
Mount ==
    /\ page = "away"
    /\ page' = "rendered"
    /\ taken' = [h \in Hooks |-> IF h = "members" THEN token ELSE NoToken]
    /\ seen' = FALSE /\ joined' = FALSE
    /\ UNCHANGED <<auth, loads, ws, hook, inRoom, drops>>

\* Its effects: MemberList subscribes, the page takes the token and asks for the
\* room and its history.
MountEffects ==
    /\ page = "rendered"
    /\ page' = "effects"
    /\ taken' = [taken EXCEPT !["room"] = token]
    /\ loads' = 2
    /\ Effect("members", taken["members"])
    /\ UNCHANGED <<auth, connected, room, drops>>

\* The join effect, which runs when connected differs from the last render.
\* send drops what it is given unless the socket is open.
JoinEffect(now) ==
    /\ seen' = now
    /\ joined' = IF now = seen THEN joined ELSE now
    /\ inRoom' = (inRoom \/ (now /\ ~seen /\ ~joined /\ global # NoClient
                             /\ clients[global].socket = "open"))

\* The page renders with its token, and its own hook subscribes.  Until then the
\* hook has heard of no connection, so the join effect has nothing to do.
Rerender ==
    /\ page = "effects"
    /\ page' = "ready"
    /\ Effect("room", taken["room"])
    /\ UNCHANGED <<auth, taken, loads, connected, room, drops>>

\* The answer to one of the page's two requests renders it again.
LoadAnswer ==
    /\ page = "ready" /\ loads > 0
    /\ loads' = loads - 1
    /\ JoinEffect(connected["room"])
    /\ UNCHANGED <<auth, page, taken, ws, hook, drops>>

\* So does a message of the room, or something the user does.
Render ==
    /\ page = "ready"
    /\ JoinEffect(connected["room"])
    /\ UNCHANGED <<auth, view, ws, hook, drops>>

\* The user leaves the page.
Unmount ==
    /\ page \in {"effects", "ready"}
    /\ page' = "away" /\ loads' = 0
    /\ Cleanup
    /\ connected' = [h \in Hooks |-> FALSE]
    /\ inRoom' = FALSE
    /\ UNCHANGED <<auth, taken, made, seen, joined, drops>>

-----------------------------------------------------------------------------
(* The rest of the tab *)

\* A refused API call elsewhere refreshes the session.
RefreshToken ==
    /\ refreshed < MaxTokens
    /\ refreshed' = refreshed + 1 /\ token' = refreshed + 1
    /\ UNCHANGED <<expired, view, ws, hook, room, drops>>

\* A failed refresh or a logout clears the token; the next page may start without.
ClearToken ==
    /\ token' = NoToken
    /\ UNCHANGED <<refreshed, expired, view, ws, hook, room, drops>>

ExpireToken ==
    /\ expired' = 1..refreshed
    /\ UNCHANGED <<token, refreshed, view, ws, hook, room, drops>>

-----------------------------------------------------------------------------
Next ==
    \/ \E c \in Clients : Open(c) \/ Close(c) \/ Reconnect(c)
    \/ Mount \/ MountEffects \/ Rerender \/ LoadAnswer \/ Render \/ Unmount
    \/ RefreshToken \/ ClearToken \/ ExpireToken

Spec == Init /\ [][Next]_vars

\* A socket that connects is opened or closed, one that is closing ends.
Settle(c) == clients[c].socket # "open" /\ (Open(c) \/ Close(c))

\* The browser settles sockets, runs effects and timers; the backend answers.
Fairness ==
    /\ \A c \in Clients : WF_vars(Settle(c)) /\ WF_vars(Reconnect(c))
    /\ WF_vars(MountEffects) /\ WF_vars(Rerender) /\ WF_vars(LoadAnswer)

FairSpec == Spec /\ Fairness

-----------------------------------------------------------------------------
(* Properties *)

Live(c) == clients[c].socket \in {"connecting", "open"} \/ clients[c].timer

\* A client that was replaced or whose page is gone neither holds a socket nor
\* comes back: every socket and every timer belongs to the client in use.
NoStraySocket == \A c \in Clients : Live(c) => c = global

\* The reference count is the number of hooks that will run a cleanup, and the
\* client lives exactly as long as one of them.
LastOneCloses ==
    /\ refs = Cardinality(Registered)
    /\ global # NoClient <=> refs > 0

\* A hook is registered with the shared client, or it was rendered with a token
\* that the rest of the page has seen replaced.
SharedUnlessStale ==
    \A h \in Hooks :
        subs[h] # NoClient => clients[subs[h]].token = taken[h]
                              /\ (subs[h] = global \/ taken[h] # clients[global].token)

\* Clients are made one by one and the shared one has a user.  A hook is
\* registered by the effect of its own stage of the page, and a client that is
\* not the shared one only has a socket that is closing and will not be reopened.
Staged ==
    /\ \A h \in Hooks : subs[h] # NoClient => subs[h] <= made
    /\ global # NoClient => global <= made /\ \E h \in Hooks : subs[h] = global
    /\ page \in {"away", "rendered"} => Registered = {}
    /\ page = "effects" => "room" \notin Registered
    /\ \A c \in Clients : c # global /\ clients[c].socket # "none" => ~clients[c].again

\* The inductive invariant.
SharingInv == TypeOK /\ NoStraySocket /\ LastOneCloses /\ SharedUnlessStale /\ Staged

\* A page that stays is connected once the network is, unless the token it took
\* when it was mounted has expired.
Connects ==
    (page = "ready" /\ global # NoClient)
        ~> \/ page # "ready"
           \/ \E c \in Clients : c = global /\ (clients[c].socket = "open" \/ clients[c].token \in expired)
=============================================================================
