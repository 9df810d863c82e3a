---------------------------- MODULE ChatPipeline ----------------------------
(***************************************************************************)
(* A chat message from the handler of boltchats-ws to the members of the   *)
(* room and to the database: handle_message publishes it and pushes it for *)
(* storage side by side, the listener on Redis Pub/Sub hands it to the     *)
(* members on this process, StorageWorker stores it and publishes          *)
(* message.created, which takes the same way.  One room.                   *)
(*                                                                         *)
(* _listen calls its callback with three arguments, on_broadcast takes two *)
(* (main.py 54): CallbackFits says whether this is taken as corrected.     *)
(* on_broadcast passes a JSON text to send_to_user, which encodes it once  *)
(* more (connection_manager.py 197): the client parses a string, which has *)
(* no type, and drops it.  FramesPlain says whether this is corrected.     *)
(***************************************************************************)
EXTENDS StorageWorker

CONSTANTS
    Users,
    Chat,         \* the messages sent through handle_message
    CallbackFits,
    FramesPlain,
    MaxSent,      \* bound on the messages that handle_message takes
    MaxPushes,    \* bound on the pushes of all messages together
    None

ASSUME ChatAssumption ==
    Chat \subseteq Msgs /\ {CallbackFits, FramesPlain} \subseteq BOOLEAN /\ {MaxSent, MaxPushes} \subseteq Nat

Listeners == {"broadcast", "confirmation"}
Kinds == {"message", "message.created"}
ASSUME NoneAssumption == None \notin Kinds \X Msgs

VARIABLES
    members,  \* users in the room with a socket in the connection table
    sent,     \* the messages handle_message has taken
    calls,    \* by message: the calls of its handler that are under way
    lst,      \* the listener tasks
    wire,     \* published and not yet taken by the listener
    sending,  \* what the listener delivers, and the users left
    heard     \* <<user, message>>: chat messages the members got

hub == <<members, sent, calls, lst, wire, sending, heard>>
pvars == <<vars, hub>>

Idle == [what |-> None, left |-> {}]

PInit ==
    /\ Init
    /\ members = {} /\ sent = {} /\ calls = [m \in Chat |-> {}]
    /\ lst = [l \in Listeners |-> "up"]
    /\ wire = {} /\ sending = Idle /\ heard = {}

\* A listener that spins keeps the event loop of boltchats-ws from everything else.
Running == \A l \in Listeners : lst[l] # "spin"

\* Redis hands what is published to the listener that is subscribed.
Published(k, m) == IF lst["broadcast"] = "up" THEN wire \cup {<<k, m>>} ELSE wire

\* A user joins or leaves the room; sockets that end leave it too.
Move(u) ==
    /\ Running
    /\ members' = IF u \in members THEN members \ {u} ELSE members \cup {u}
    /\ UNCHANGED <<vars, sent, calls, lst, wire, sending, heard>>

\* Every push that was made, and those to come.
Pushes ==
    {p \in Msgs \X (0 .. MaxPushes) :
        IF p[2] = 0 THEN p[1] \in Chat /\ "enqueue" \in calls[p[1]] ELSE p[2] <= pushed[p[1]]}
MayPush == Cardinality(Pushes) < MaxPushes

\* handle_message, up to the gather: a member sends a message with a new id.
HandleMessage(m) ==
    /\ Running /\ members # {}
    /\ MayPush /\ Cardinality(sent) < MaxSent
    /\ pushed[m] = 0 /\ m \notin sent /\ sent' = sent \cup {m}
    /\ calls' = [calls EXCEPT ![m] = {"publish", "enqueue"}]
    /\ UNCHANGED <<vars, members, lst, wire, sending, heard>>

Return(m, call) == calls' = [calls EXCEPT ![m] = @ \ {call}]

PublishMessage(m) ==
    /\ Running /\ "publish" \in calls[m] /\ Return(m, "publish")
    /\ wire' = IF redis THEN Published("message", m) ELSE wire
    /\ UNCHANGED <<vars, members, sent, lst, sending, heard>>

EnqueueMessage(m) ==
    /\ Running /\ "enqueue" \in calls[m] /\ Return(m, "enqueue")
    /\ Push(m) \/ (~redis /\ UNCHANGED vars)
    /\ UNCHANGED <<members, sent, lst, wire, sending, heard>>

\* Messages that others push (the tests do), and a message that is pushed once
\* more: nothing in the repository reads the dead letters.
PushElse(m) ==
    /\ m \in sent => pushed[m] > 0
    /\ MayPush /\ Push(m)
    /\ UNCHANGED hub

\* Mutant: the event goes out before the message is written.
WorkerStep_Early ==
    /\ Work
    /\ wire' = IF wpc = "upsert" /\ redis THEN Published("message.created", Head(batch)) ELSE wire
    /\ UNCHANGED <<members, sent, calls, lst, sending, heard>>

\* A step of the worker; its event is published to the room.
WorkerStep ==
    /\ Work
    /\ wire' = IF wpc = "event" /\ redis THEN Published("message.created", Head(batch)) ELSE wire
    /\ UNCHANGED <<members, sent, calls, lst, sending, heard>>

-----------------------------------------------------------------------------
(* The listeners *)

\* listen() yields, on_broadcast reads the members of the room.
Take(w) ==
    /\ Running /\ redis /\ CallbackFits /\ lst["broadcast"] = "up" /\ sending = Idle /\ w \in wire
    /\ wire' = wire \ {w}
    /\ sending' = [what |-> w, left |-> members]
    /\ UNCHANGED <<vars, members, sent, calls, lst, heard>>

HeardBy(u) ==
    IF FramesPlain /\ sending.what[1] = "message" THEN heard \cup {<<u, sending.what[2]>>} ELSE heard

\* Mutant: the first member only.
Deliver_One(u) ==
    /\ Running /\ u \in sending.left
    /\ heard' = IF u \in members THEN HeardBy(u) ELSE heard
    /\ sending' = Idle
    /\ UNCHANGED <<vars, members, sent, calls, lst, wire>>

\* send_to_user: who has left meanwhile is passed over.
Deliver(u) ==
    /\ Running /\ u \in sending.left
    /\ heard' = IF u \in members THEN HeardBy(u) ELSE heard
    /\ sending' = [sending EXCEPT !.left = @ \ {u}]
    /\ UNCHANGED <<vars, members, sent, calls, lst, wire>>

Delivered ==
    /\ sending # Idle /\ sending.left = {} /\ Running
    /\ sending' = Idle
    /\ UNCHANGED <<vars, members, sent, calls, lst, wire, heard>>

\* listen() raises, or the callback: the pubsub object is closed and replaced.
BroadcastError ==
    /\ Running /\ lst["broadcast"] = "up" /\ sending = Idle
    /\ ~redis \/ (~CallbackFits /\ wire # {})
    /\ lst' = [lst EXCEPT !["broadcast"] = "lost"] /\ wire' = {}
    /\ UNCHANGED <<vars, members, sent, calls, sending, heard>>

ConfirmationError ==
    /\ Running /\ lst["confirmation"] = "up" /\ ~redis
    /\ lst' = [lst EXCEPT !["confirmation"] = "lost"]
    /\ UNCHANGED <<vars, members, sent, calls, wire, sending, heard>>

\* After the sleep: subscribed again, or the failure is logged and the loop goes
\* on with a pubsub that has no subscription, whose listen() ends at once: the
\* loop does not await again.
Resubscribe(l) ==
    /\ Running /\ lst[l] = "lost"
    /\ lst' = [lst EXCEPT ![l] = IF redis THEN "up" ELSE "spin"]
    /\ UNCHANGED <<vars, members, sent, calls, wire, sending, heard>>

\* The process of boltchats-ws is started again: lifespan subscribes both.
Restart ==
    /\ redis /\ faults < MaxFaults /\ faults' = faults + 1
    /\ lst' = [l \in Listeners |-> "up"] /\ wire' = {} /\ sending' = Idle
    /\ members' = {} /\ calls' = [m \in Chat |-> {}]
    /\ UNCHANGED <<queue, dlq, pushed, worker, db, count, redis, mongo, lost, sent, heard>>

Listening ==
    \/ \E w \in Kinds \X Msgs : Take(w)
    \/ \E u \in Users : Deliver(u)
    \/ Delivered \/ BroadcastError \/ ConfirmationError
    \/ \E l \in Listeners : Resubscribe(l)

Handling == \E m \in Chat : PublishMessage(m) \/ EnqueueMessage(m)

PNext ==
    \/ \E u \in Users : Move(u)
    \/ (\E m \in Chat : HandleMessage(m)) \/ (\E m \in Msgs : PushElse(m))
    \/ Handling \/ WorkerStep \/ Listening \/ Restart
    \/ Environment /\ UNCHANGED hub

PSpec == PInit /\ [][PNext]_pvars

\* Both event loops run their tasks, and what is down comes back.
FairPSpec ==
    /\ PSpec
    /\ WF_pvars(Handling) /\ WF_pvars(WorkerStep) /\ WF_pvars(Listening)
    /\ WF_pvars(Repair /\ UNCHANGED hub)

-----------------------------------------------------------------------------
(* Properties *)

\* Every member who is in the room when a message is published, and stays, gets
\* it, outages and restarts included, unless the listener loses its subscription
\* or a listener spins.
MembersHear ==
    \A u \in Users, m \in Chat :
        (<<"message", m>> \in wire /\ u \in members)
            ~> (<<u, m>> \in heard \/ u \notin members \/ lst["broadcast"] # "up" \/ ~Running)

\* What the room has seen is kept: a message a member got is stored in the end;
\* or set aside or dropped, if it is incomplete or peace was broken; or its push
\* failed, or the process ended before it.
ShownIsKept ==
    \A m \in Chat :
        (\E u \in Users : <<u, m>> \in heard) ~>
            \/ m \in db
            \/ m \in dlq \cup lost /\ (m \in Complete => ~Peace)
            \/ pushed[m] = 0 /\ faults > 0

\* message.created is told of messages that are stored, also after failures,
\* second deliveries and restarts.
ToldIsStored ==
    \A m \in Msgs : <<"message.created", m>> \in wire \cup {sending.what} => m \in db

=============================================================================
