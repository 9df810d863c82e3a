------------------------------- MODULE RoomHub -------------------------------
(***************************************************************************)
(* The endpoint of boltchats-ws with its sessions: the connection table,   *)
(* the rooms, presence in Redis, the message limit and the handlers.  One  *)
(* event loop: the code between two awaits is one step, every await is a   *)
(* point where others run.  What happens to a chat message after its       *)
(* handler is the subject of module ChatPipeline.                          *)
(*                                                                         *)
(* Two calls of the endpoint do not fit the code they call: connect takes  *)
(* a connection id the endpoint does not pass (main.py 151), and the       *)
(* handlers call BroadcastManager.publish, which does not exist.  Mended   *)
(* names the calls taken as corrected, with the user's id as connection id *)
(* as in disconnect(user_id, ws); with Mended = {} the module is main.py   *)
(* as it stands.                                                           *)
(***************************************************************************)
EXTENDS Naturals, Sequences, SequencesExt, FiniteSets

CONSTANTS
    Users, Rooms,
    Socks,       \* the sockets a session can have; one is used again when its session is over
    Mended,      \* SUBSET {"connect", "publish"}
    Limit,       \* rate_limit_messages_per_second
    MaxFaults,   \* bound on outages of Redis and restarts of the process
    None

ASSUME NoneAssumption == None \notin Socks \cup Rooms \cup Users
ASSUME BoundAssumption == Limit \in Nat \ {0} /\ MaxFaults \in Nat
ASSUME FiniteAssumption == IsFiniteSet(Users) /\ IsFiniteSet(Rooms)

VARIABLES
    pc,       \* how far the endpoint of a socket is
    user,     \* the user its token names
    todo,     \* the awaits before it: <<[op, room], ...>>
    gone,     \* sockets whose client has left
    conns,    \* ConnectionManager._connections: user -> socket
    size,     \* by socket: size of the table when send_to_user's loop began
    rooms,    \* RoomManager._room_members
    mine,     \* RoomManager._user_rooms
    pres,     \* Redis: presence of a user in a room
    online,   \* Redis: the users online
    rate,     \* Redis: the message counters
    redis,    \* Redis answers
    crossed,  \* history: users who had two sessions at once
    scarred,  \* history: users with a session that Redis or a crash cut short
    faults    \* outages and crashes so far

session == <<pc, user, gone, todo, size>>
tables == <<conns, rooms, mine>>
shared == <<pres, online, rate>>
history == <<crossed, scarred, faults>>
vars == <<session, tables, shared, redis, history>>

RL == INSTANCE RateLimit

Live(s) == pc[s] \in {"open", "busy"}
InProgress(s) == pc[s] \in {"authed", "open", "busy", "cleanup"}
Do(op) == [op |-> op, room |-> None]
In(op, r) == [op |-> op, room |-> r]
TableSize == Cardinality({u \in Users : conns[u] # None})

Init ==
    /\ pc = [s \in Socks |-> "none"] /\ user = [s \in Socks |-> None] /\ todo = [s \in Socks |-> <<>>]
    /\ size = [s \in Socks |-> 0]
    /\ gone = {}
    /\ conns = [u \in Users |-> None] /\ rooms = {} /\ mine = {}
    /\ pres = {} /\ online = {}
    /\ rate = [u \in Users |-> RL!Fresh] /\ redis = TRUE
    /\ crossed = {} /\ scarred = {} /\ faults = 0

-----------------------------------------------------------------------------
(* The endpoint *)

\* What ends leaves its slot to the next socket.
Over(s) == user' = [user EXCEPT ![s] = None] /\ gone' = gone \ {s}

\* authenticate_ws returns the user of the token, who may still have another
\* session; a socket whose token is missing or refused is closed again.
Authenticate(s, u) ==
    /\ pc[s] = "none"
    /\ pc' = [pc EXCEPT ![s] = "authed"] /\ user' = [user EXCEPT ![s] = u]
    /\ crossed' = IF \E o \in Socks : user[o] = u THEN crossed \cup {u} ELSE crossed
    /\ UNCHANGED <<todo, size, gone, tables, shared, redis, scarred, faults>>

\* connect: accept, then the table entry.  It is called outside the try, what
\* it raises ends the endpoint without the cleanup.
Connect(s) ==
    /\ pc[s] = "authed"
    /\ \/ /\ "connect" \in Mended /\ s \notin gone
          /\ conns' = [conns EXCEPT ![user[s]] = s]
          /\ pc' = [pc EXCEPT ![s] = "open"] /\ UNCHANGED <<user, gone>>
       \/ /\ "connect" \notin Mended \/ s \in gone
          /\ pc' = [pc EXCEPT ![s] = "none"] /\ Over(s) /\ UNCHANGED conns
    /\ UNCHANGED <<todo, size, rooms, mine, shared, redis, history>>

\* receive_text: an event of the protocol, whose first await is INCR, or text
\* that is not JSON, which is answered.
Receive(s) ==
    /\ pc[s] = "open" /\ s \notin gone
    /\ pc' = [pc EXCEPT ![s] = "busy"]
    /\ todo' = [todo EXCEPT ![s] = <<Do("reply")>>] \/ todo' = [todo EXCEPT ![s] = <<Do("incr")>>]
    /\ UNCHANGED <<size, user, gone, tables, shared, redis, history>>

\* Mutant: the user stays in the index by room.
LeaveAll_OneSide(u) ==
    /\ mine' = {p \in mine : p[1] # u}
    /\ rooms' = {p \in rooms : p[1] # u \/ p \notin pres}

\* RoomManager.leave_all.
LeaveAll(u) ==
    /\ mine' = {p \in mine : p[1] # u}
    /\ rooms' = {p \in rooms : p[1] # u \/ p \notin mine}

RoomsOf(u) == {r \in Rooms : <<u, r>> \in mine}

\* Mutant: the entry goes whichever socket it holds.
Disconnected_Any(u, s) == [conns EXCEPT ![u] = None]

\* ConnectionManager.disconnect: only the socket's own entry.
Disconnected(u, s) == [conns EXCEPT ![u] = IF @ = s THEN None ELSE @]

\* PresenceManager.user_offline: one SREM per room, then the global one.
Offline(u) ==
    [i \in 1..Cardinality(RoomsOf(u)) |-> In("srem", SetToSeq(RoomsOf(u))[i])] \o <<Do("offline")>>

\* The finally block up to its first await.
Finally(s) ==
    LET u == user[s] IN
    /\ LeaveAll(u)
    /\ conns' = Disconnected(u, s)
    /\ pc' = [pc EXCEPT ![s] = "cleanup"]
    /\ todo' = [todo EXCEPT ![s] = Offline(u)]
    /\ size' = [size EXCEPT ![s] = 0]

\* receive_text finds the client gone.
ClientGone(s) ==
    /\ pc[s] = "open" /\ s \in gone
    /\ Finally(s)
    /\ UNCHANGED <<user, gone, shared, redis, history>>

-----------------------------------------------------------------------------
(* Handlers: what runs before their first await, and the awaits that follow *)

\* handle_join_room: join, user_online, the note to the room.
JoinRoom(s, r) ==
    /\ rooms' = rooms \cup {<<user[s], r>>} /\ mine' = mine \cup {<<user[s], r>>}
    /\ todo' = [todo EXCEPT ![s] = <<In("sadd", r), Do("online"), Do("note")>>]

\* handle_leave_room: leave, user_offline_room, the note to the room.
LeaveRoom(s, r) ==
    /\ rooms' = rooms \ {<<user[s], r>>} /\ mine' = mine \ {<<user[s], r>>}
    /\ todo' = [todo EXCEPT ![s] = <<In("srem", r), Do("note")>>]

\* handle_message: nothing for a user who is not a member; else the broadcast
\* and the queue (a note here) and the receipt side by side.
Message(s, r) ==
    /\ IF <<user[s], r>> \notin rooms THEN todo' = [todo EXCEPT ![s] = <<>>]
       ELSE \E p \in SetToSeqs({Do("note"), Do("receipt")}) : todo' = [todo EXCEPT ![s] = p]
    /\ UNCHANGED <<rooms, mine>>

\* handle_message_edited, handle_message_deleted: a note to the room, from a member.
Relay(s, r) ==
    /\ todo' = [todo EXCEPT ![s] = IF <<user[s], r>> \in rooms THEN <<Do("note")>> ELSE <<>>]
    /\ UNCHANGED <<rooms, mine>>

\* handle_reaction_added, handle_reaction_removed: as well.
React(s, r) == Relay(s, r)

\* handle_ping, and the answer to an event that is unknown or not valid.
Answer(s) ==
    /\ todo' = [todo EXCEPT ![s] = <<Do("reply")>>]
    /\ UNCHANGED <<rooms, mine>>

\* The dispatch, without an await between it and the handler's first step.
Dispatch(s) ==
    \/ \E r \in Rooms :
         JoinRoom(s, r) \/ LeaveRoom(s, r) \/ Message(s, r) \/ Relay(s, r) \/ React(s, r)
    \/ Answer(s)

\* A handler that awaits nothing is done at once.
Handled(s) == pc' = [pc EXCEPT ![s] = IF todo'[s] # <<>> THEN "busy" ELSE "open"]

Now(s, op) == todo[s] # <<>> /\ todo[s][1].op = op
Advance(s) ==
    /\ todo' = [todo EXCEPT ![s] = Tail(@)]
    /\ IF Len(todo[s]) > 1 THEN UNCHANGED <<pc, user, gone>>
       ELSE IF pc[s] = "cleanup" THEN pc' = [pc EXCEPT ![s] = "none"] /\ Over(s)
       ELSE pc' = [pc EXCEPT ![s] = "open"] /\ UNCHANGED <<user, gone>>

-----------------------------------------------------------------------------
(* The awaits *)

Admit(s, c) ==
    /\ IF RL!Within(c) THEN Dispatch(s)
       ELSE todo' = [todo EXCEPT ![s] = <<Do("reply")>>] /\ UNCHANGED <<rooms, mine>>
    /\ Handled(s)

\* check_message_rate_limit: INCR, and the dispatch unless EXPIRE comes first.
Count(s) ==
    LET u == user[s] c == RL!Incr(rate[user[s]]) IN
    /\ redis /\ pc[s] = "busy" /\ Now(s, "incr")
    /\ rate' = [rate EXCEPT ![u] = c]
    /\ IF RL!StartsWindow(c)
       THEN todo' = [todo EXCEPT ![s] = <<Do("expire")>>] /\ UNCHANGED <<pc, rooms, mine>>
       ELSE Admit(s, c)
    /\ UNCHANGED <<size, user, gone, conns, pres, online, redis, history>>

\* EXPIRE, then the dispatch.
StartWindow(s) ==
    LET u == user[s] IN
    /\ redis /\ pc[s] = "busy" /\ Now(s, "expire")
    /\ rate' = [rate EXCEPT ![u] = RL!Expire(rate[u])]
    /\ Admit(s, [rate[u] EXCEPT !.n = 1])
    /\ UNCHANGED <<size, user, gone, conns, pres, online, redis, history>>

\* Mutant: presence in the room is written, the user is not marked online.
PresenceCall_RoomOnly(s) ==
    LET u == user[s] r == todo[s][1].room IN
    /\ \/ Now(s, "sadd") /\ pres' = pres \cup {<<u, r>>} /\ UNCHANGED online
       \/ Now(s, "srem") /\ pres' = pres \ {<<u, r>>} /\ UNCHANGED online
       \/ Now(s, "online") /\ UNCHANGED <<online, pres>>
       \/ Now(s, "offline") /\ online' = online \ {u} /\ UNCHANGED pres

\* user_online, user_offline_room, user_offline: one Redis call.
PresenceCall(s) ==
    LET u == user[s] r == todo[s][1].room IN
    /\ \/ Now(s, "sadd") /\ pres' = pres \cup {<<u, r>>} /\ UNCHANGED online
       \/ Now(s, "srem") /\ pres' = pres \ {<<u, r>>} /\ UNCHANGED online
       \/ Now(s, "online") /\ online' = online \cup {u} /\ UNCHANGED pres
       \/ Now(s, "offline") /\ online' = online \ {u} /\ UNCHANGED pres

Presence(s) ==
    /\ redis /\ PresenceCall(s) /\ Advance(s)
    /\ UNCHANGED <<size, tables, rate, redis, history>>

\* publish, and enqueue for a message.
Publish(s) ==
    /\ redis /\ "publish" \in Mended /\ Now(s, "note")
    /\ Advance(s)
    /\ UNCHANGED <<size, tables, shared, redis, history>>

\* send_to_user, the sender's receipt: the loop over the table stops at the
\* user's socket and goes on after the send.
Receipt(s) ==
    /\ Now(s, "receipt")
    /\ IF conns[user[s]] = None THEN Advance(s) /\ UNCHANGED size
       ELSE /\ todo' = [todo EXCEPT ![s][1].op = "receipt ends"]
            /\ size' = [size EXCEPT ![s] = TableSize]
            /\ UNCHANGED <<pc, user, gone>>
    /\ UNCHANGED <<tables, shared, redis, history>>

ReceiptEnds(s) ==
    /\ Now(s, "receipt ends") /\ size[s] = TableSize
    /\ size' = [size EXCEPT ![s] = 0]
    /\ Advance(s)
    /\ UNCHANGED <<tables, shared, redis, history>>

\* send_text.
Reply(s) ==
    /\ Now(s, "reply")
    /\ Advance(s)
    /\ UNCHANGED <<size, tables, shared, redis, history>>

RedisFails(s) == ~redis /\ todo[s][1].op \notin {"reply", "receipt", "receipt ends"}
Raises(s) ==
    \/ RedisFails(s)
    \/ "publish" \notin Mended /\ Now(s, "note")
    \/ Now(s, "reply") /\ s \in gone
    \/ Now(s, "receipt ends") /\ size[s] # TableSize   \* the dict changed size during iteration

Scar(s) == scarred' = IF RedisFails(s) THEN scarred \cup {user[s]} ELSE scarred

\* What a handler raises ends the session.
Raise(s) ==
    /\ pc[s] = "busy" /\ todo[s] # <<>> /\ Raises(s)
    /\ Finally(s) /\ Scar(s)
    /\ UNCHANGED <<user, gone, pres, online, rate, redis, crossed, faults>>

\* The cleanup itself raises: what it has not done stays undone.
CleanupRaises(s) ==
    /\ pc[s] = "cleanup" /\ Raises(s)
    /\ pc' = [pc EXCEPT ![s] = "none"] /\ todo' = [todo EXCEPT ![s] = <<>>]
    /\ Over(s) /\ Scar(s)
    /\ UNCHANGED <<size, tables, shared, redis, crossed, faults>>

-----------------------------------------------------------------------------
(* Redis, the clients, the process *)

RedisDown ==
    /\ redis /\ faults < MaxFaults
    /\ redis' = FALSE /\ faults' = faults + 1
    /\ UNCHANGED <<session, tables, shared, crossed, scarred>>

RedisUp ==
    /\ ~redis /\ redis' = TRUE
    /\ UNCHANGED <<session, tables, shared, history>>

WindowElapses(u) ==
    /\ rate[u].n > 0 /\ rate[u].ttl
    /\ rate' = [rate EXCEPT ![u] = RL!Elapse(@)]
    /\ UNCHANGED <<session, tables, pres, online, redis, history>>

Leave(s) ==
    /\ s \notin gone /\ InProgress(s) /\ gone' = gone \cup {s}
    /\ UNCHANGED <<pc, user, todo, size, tables, shared, redis, history>>

\* The process dies and starts again: lifespan subscribes both listeners, Redis
\* keeps what it had.
Crash ==
    /\ redis /\ faults < MaxFaults
    /\ faults' = faults + 1
    /\ scarred' = scarred \cup {user[s] : s \in {x \in Socks : InProgress(x)}}
    /\ pc' = [s \in Socks |-> "none"] /\ user' = [s \in Socks |-> None] /\ gone' = {}
    /\ todo' = [s \in Socks |-> <<>>] /\ size' = [s \in Socks |-> 0]
    /\ conns' = [u \in Users |-> None] /\ rooms' = {} /\ mine' = {}
    /\ UNCHANGED <<shared, redis, crossed>>

Endpoint(s) ==
    \/ Receive(s) \/ Leave(s) \/ Connect(s) \/ ClientGone(s) \/ Count(s) \/ StartWindow(s) \/ Presence(s) \/ Publish(s)
    \/ Receipt(s) \/ ReceiptEnds(s) \/ Reply(s) \/ Raise(s) \/ CleanupRaises(s)

Next ==
    \/ \E s \in Socks : (\E u \in Users : Authenticate(s, u)) \/ Endpoint(s)
    \/ \E u \in Users : WindowElapses(u)
    \/ RedisDown \/ RedisUp \/ Crash

Spec == Init /\ [][Next]_vars

-----------------------------------------------------------------------------
(* Properties *)

TypeOK ==
    /\ user \in [Socks -> Users \cup {None}]
    /\ pc \in [Socks -> {"none", "authed", "open", "busy", "cleanup"}]
    /\ gone \subseteq Socks
    /\ size \in [Socks -> 0..Cardinality(Users)]
    /\ conns \in [Users -> Socks \cup {None}]
    /\ rooms \subseteq Users \X Rooms /\ mine \subseteq Users \X Rooms
    /\ pres \subseteq Users \X Rooms /\ online \subseteq Users
    /\ rate \in [Users -> [n : 0..(Limit + 1), ttl : BOOLEAN]]
    /\ redis \in BOOLEAN /\ crossed \subseteq Users /\ scarred \subseteq Users /\ faults \in 0..MaxFaults

\* A counter without expiry would refuse a user for ever: it exists only while
\* a session is between INCR and EXPIRE, or after one was cut short there.
CountersExpire ==
    \A u \in Users \ scarred :
        RL!Stuck(rate[u]) => \E s \in Socks : user[s] = u /\ pc[s] = "busy" /\ Now(s, "expire")

\* RoomManager keeps two indexes and the endpoint a table of connections: the
\* indexes are each other's inverse, a user is in a room only while a session
\* of hers lives, and an entry of the table holds a live socket of its user.
HubInv ==
    /\ TypeOK /\ CountersExpire
    /\ rooms = mine
    /\ \A p \in rooms : \E s \in Socks : user[s] = p[1] /\ Live(s)
    /\ \A u \in Users : conns[u] # None => user[conns[u]] = u /\ Live(conns[u])
    /\ \A s \in Socks : todo[s] # <<>> <=> pc[s] \in {"busy", "cleanup"}

Resting(u) == \A s \in Socks : user[s] = u => pc[s] \notin {"busy", "cleanup"}

\* What the API reads as presence is what the hub knows: for a user none of
\* whose sessions is in the middle of something, the rooms in Redis are her
\* rooms, she is online if she is in one of them and offline without a session.
\* Excepted are users who had two sessions at once (the cleanup of the old one
\* takes away what the new one wrote) and users a session of whom was cut short
\* by Redis or by the end of the process, which no later step repairs.
PresenceTold ==
    \A u \in Users \ (crossed \cup scarred) : Resting(u) =>
        /\ \A r \in Rooms : <<u, r>> \in pres <=> <<u, r>> \in rooms
        /\ (\E r \in Rooms : <<u, r>> \in rooms) => u \in online
        /\ (\A s \in Socks : user[s] = u => ~Live(s)) => u \notin online

\* disconnect "prevents race conditions where a newer connection is incorrectly
\* removed": an entry of the table goes only with the session it belongs to.
NewerKept ==
    [][\A u \in Users : conns[u] # None /\ conns'[u] = None =>
           pc'[conns[u]] \in {"cleanup", "none"}]_vars
=============================================================================
