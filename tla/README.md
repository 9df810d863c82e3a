# Verification of boltchats

TLA+ models of boltchats (the code calls itself SparkQuark in places): a FastAPI
backend over MongoDB and Redis, a FastAPI WebSocket service, a worker that moves
messages from a Redis list to MongoDB, and a Next.js client.  The models are
translated from the sources under `src/services`; documents and comments are
used only where a finding quotes what they promise.

## 1. The system

| Part | State it keeps | Operations | Talks to |
|---|---|---|---|
| boltchats-api: sessions | Redis `refresh_token:{user}`, the JWTs it signed | register, verify-email, login, refresh, logout, me | MongoDB users and members, Redis |
| boltchats-api: registration | users, organizations, workspaces, roles, labels, members, member_roles, Redis `email_verification:{user}` | a saga of inserts with one compensation | MongoDB, Redis, SendGrid |
| boltchats-api: organisations | organizations, members, teams, workspaces, roles, member_roles, invitations | create, rename, delete, invite, accept, revoke, change teams and status | MongoDB |
| boltchats-api: permissions | Redis `permissions:{member}` for an hour | check, invalidate | MongoDB roles and grants, Redis |
| boltchats-api: conversations | customers, identities, conversations, participants, messages, labels, drafts | create, status, assign, close, reopen, send, edit, delete, label, draft | MongoDB |
| boltchats-api: events and workflows | events, the Redis list of their ids, the documents the workflows write | publish, consume with retries, retry by hand, run steps | Redis, MongoDB, the services above |
| boltchats-api: migrations | migration rows, collections and indexes | migrate, roll back | MongoDB |
| boltchats-api and -ws: rate limits | Redis counters by address and by user | count a request or message | Redis |
| boltchats-ws | in memory connections and rooms; in Redis presence, who is online, Pub/Sub, the message queue | connect, join, leave, send, edit, delete, react, ping, broadcast, confirm | Redis, clients |
| boltchats-storage | the batch in its memory | pop, store, count, publish, dead-letter | Redis, MongoDB |
| boltchats-web | cookie, access token, socket, message list | session, rooms, realtime events | all of the above |

What makes them hard: every `await` of a coroutine is a point where other requests
run, and nearly every operation is a read followed by a write with nothing held in
between; Redis keys, MongoDB documents and the client's copies are updated one
after the other with no transaction; a call that raises may have taken effect;
answers, broadcasts and receipts reach the client in any order; tabs share a cookie
and nothing else; processes may die between any two steps.

What makes each part correct:

* sessions: a replaced or deleted refresh token is worthless, a logout ends the
  session, claims are as fresh as the request, a session survives a page load;
* registration: no two accounts with one address or slug, a failed registration
  leaves nothing that blocks the next, an owner can use the organisation;
* organisations: a user is a member once, names and open invitations are unique,
  an invitation is honoured once, a withdrawn permission stops working;
* conversations: one participant, draft and identity per key, counters and labels
  agree with the messages and with what was asked;
* events: no event is forgotten, its status is true, retries end; a completed workflow
  kept its message;
* migrations: the history claims only what is there, holes are reported;
* ws: the two indexes of rooms mirror each other, a session's end takes away only
  what is its own, presence tells who is there; the counters expire;
* storage: a message that was pushed is stored, waits, or is set aside, and is counted
  once;
* web: the message list converges to what was stored, whatever the order of events.

## 2. Modules

| Module | Models | Kind |
|---|---|---|
| `AuthSession` | `TokenService`, `AuthenticationService.login/refresh/logout`, the writers of users and members they depend on | component |
| `Registration` | `POST /auth/register`, `POST /auth/verify-email`: the inserts, the one compensation, default roles and labels, the link | component |
| `Organization` | `services/organization/*`, `PermissionService` with its cache | component |
| `Conversations` | `services/conversation/*` over one conversation and its customer | component |
| `EventQueue` | `EventBus.publish`, `EventConsumer` | component |
| `Workflows` | the workflow engine and its three workflows, publishing to `EventQueue` | composition |
| `Migrations` | `MigrationManager` and its four migrations, several runs at once | component |
| `RateLimit` | the counter of both limiters, as operators | operators |
| `RoomHub` | the endpoint of boltchats-ws: sessions, connection table, rooms, presence, handlers, with `RateLimit` inside | composition |
| `MessageLog` | what the storage of messages promises | abstract specification |
| `StorageWorker` | `StorageWorker` of boltchats-storage; implements `MessageLog` | component |
| `ChatPipeline` | `handle_message`, the broadcast, both listeners and `StorageWorker` | composition |
| `WebSession` | `useAuth`, `store/auth`, `lib/api`'s refresh guard, the middleware and the auth routes, several tabs, over an abstract session of the backend | component |
| `RoomSocket` | `WsClient`, `useWebSocket` with its shared client, the join effect of `useMessages`, over page visits | component |
| `MessageList` | the rest of `useMessages`: history, live events, optimistic sends, edits, deletions, reactions; and what boltchats-ws and boltchats-storage do with the frames | component |
| `AccountProofs` | theorems of `AuthSession` and `Registration` | proofs |
| `ConversationsProofs`, `OrganizationProofs`, `MigrationsProofs`, `RoomHubProofs` | theorems of the module each is named after | proofs |
| `WorkflowsProofs` | theorems of `EventQueue` and `Workflows` | proofs |
| `ChatPipelineProofs` | theorems of `StorageWorker`, `ChatPipeline`, and their refinement of `MessageLog` | proofs |
| `ClientProofs` | theorems of `RoomSocket`, `WebSession` and `MessageList` | proofs |
| `MC<module>` | instances for TLC, with the symmetry that is sound | model checking |

A definition that carries the comment `Mutant:` is a plausible wrong version of the
definition that follows it. No specification uses it; it is what a property is
tried against, to see that the property can fail.

Variables marked history are observations and enable nothing.

### How states and actions correspond to the code

**AuthSession.** An action runs from one `await` to the next. A request slot holds
the local variables of one call of `login` or `refresh_access_token`; `LoginAccepted`
and `RefreshAccepted` are the first query and the checks on it, `FindMembers` the
read of the memberships, `MintTokens` the role query and the signature,
`StoreToken` the `SETEX`, `Deliver` the answer. `Lose` is the death of the worker or
of the connection at any await. `stored` and `ttlEnd` are the Redis key and its time
to live; the clock moves in whole seconds, because JWT times do. Access and refresh
token of a pair are one record: they carry the same user, organisation and second.

**Registration.** `pc` of a registration is the next statement of
`AuthenticationService.register` or of the route that goes on with it; every insert
is an action. `Fail` raises at the current step (the route answers 400 or 500) or
kills the worker, `UndoFails` is the compensation that does not delete.
The inserts of users and organisations fail on a duplicate, as the unique indexes
on `email` and `slug`, created at startup, make them. Documents are named by the
registration that made them.

**Conversations and Organization.** A call `[op, x, y, set or labels, count, pc]` is a
request between two awaits: the first action of an operation is its reads and
checks, up to the first write others can come before, and is named as the method
(`AddMember`, `SendMessage`); the following ones are its writes (`InsertMember`,
`InsertMessage`, `CountMessage`). What the call will write it computes from the copy
it read, which is in the record. `Stop` ends a call at any await: the update that
answers False, the driver that raises, the worker that dies. `crossed` notes on which
topics two calls overlapped and `cut` which operations were stopped: the
properties are stated for everything else, so they say that overlap is the *only*
way to go wrong. For the two lists that are written back whole, a label of the conversation
and a team of a member, the overlap is told per entry: `asked` is what the calls that
wrote last about each entry left, `raced` the entries written while another call held a copy
of the list. `LabelsKept` and `TeamsKept` say that the list is `asked` but for `raced`: a lost
update is possible in that window only, and a later write that meets nobody closes it.
Every document type keeps the fields the services compare or write. In
`Organization`, teams, workspaces and roles are one family `named[<<kind, thing>>]`,
since their services are alike; `cache` is the Redis key of `PermissionService` and
`dirty` the members whose rights changed since anybody dropped it.

**EventQueue and Workflows.** `events` are the documents, `queue` the Redis list of
ids, a consumer is the place in `_process_event` it has reached. `Requeue` pushes the
id before `Note` counts the retry, as the code does. A flow holds the stack of
workflows it executes (the webhook workflow runs the incoming one inside
`execute_handler`), the step and the tries of each, and the ids the steps pass on.
Reads in the middle of a step are steps of their own where another flow could write.

**RoomHub.** `pc` and `todo` of a socket are how far its endpoint is and which awaits lie
before it; what is between two awaits is one action, as one event loop runs it.
`conns` is `ConnectionManager._connections`, `rooms` and `mine` the two indexes of
`RoomManager`, `pres` and `online` the keys of `PresenceManager`. `size` is the length of
the dictionary when the loop of `send_to_user` began: the loop raises when it differs.

**StorageWorker.** `queue`, `dlq` and `db` are Redis and MongoDB, `batch` and `failed`
the lists in the worker's memory, `wpc` its place. A write that raises may have happened
(`Upsert`, `CountMessage` with `~mongo`). `Place(m)` maps each message to its place in
`MessageLog`: stored, waiting (in the queue or in the worker), aside, lost, unsent.
`Unreadable` are the entries that are no JSON object: one that is no JSON is skipped (`Pop`),
one that is not UTF-8 makes `_process_batch` raise (`PopFails`, which also has the BRPOP
whose answer is lost), and one of another JSON type makes the except clause itself raise
(`RejectRaises`); the last two take the batch in memory with them. `Peace` is a run with no
fault and no such entry.

**ChatPipeline.** Extends `StorageWorker` with one room of boltchats-ws. `calls[m]` are
the two coroutines that `gather` runs side by side, `wire` what Redis Pub/Sub holds for
the listener, `sending` what it is handing to which members, `lst` whether each
listener is subscribed, lost its subscription, or spins. `heard` is what the member's client can
read, so a frame counts only with `FramesPlain` (below).

**Migrations.** `run` holds the locals of `migrate` or `rollback`; `Take`, `Work`,
`Record` and `Unrecord` are the body of their loops, one database call per action,
and each has a variant in which the call raises. An object `<<v, c>>` is what
version `v` makes of collection `c` (version 1 the collection, the others an index).
Three collections stand for the nineteen: one that all versions touch, one whose
index version 3 creates inside a `try`, and one that versions 2 and 3 leave alone.

**WebSession.** Per tab: the page shown, `isReady`, the access token in memory, and a
slot for each place that can have a call in flight (the mount of `useAuth`, the
refresh guard of `lib/api`, the form). The cookie is shared by the tabs and set by the
answer of a route handler, the logout message is delivered per tab. The backend is
the one valid refresh token of the user; that two tokens of one second are equal is
kept (`fresh`), since the routes depend on it.

**RoomSocket.** `clients` are the `WsClient` objects with socket, timer and
`shouldReconnect`; `global` and `refs` the module variables of `useWebSocket.ts`;
`subs` and `taken` say, for `MemberList` and for the page, which client the effect
subscribed and which token the render gave it. The stages of a page (`rendered`,
`effects`, `ready`) are React's: a child's effects run before its parent's, and a
state set in an effect renders again. A close event may come long after its socket
was replaced.

**MessageList.** `list` is the state `messages`; a message is its number, a
placeholder the number of a send above all of them, and an entry carries the set of
marks the events set and clear. One action per callback: `HandleEvent` for the five
kinds of event, `History`, `LoadOlder` with its two outcomes, `Send`, `Call` with
`CallAnswered` and `CallFailed`. `Receive` is the receive loop of `main.py` with the
handler it calls, `Refused` its rate limit and the handlers' check of the room. What
`handle_message` starts side by side is in three places: `pubsub` has the broadcast, `owed`
the receipt not yet written to the socket (`WriteReceipt`), `accepted` above `stored` the
queue. So the receipt is written before or after the broadcast is handed on (`Broadcast`),
and the next frame of the tab is read when the handler has returned. Any receipt and any
broadcast may be lost where it is (a listener without subscription, a user not in the
room, no socket), and `Disconnect` loses what is on the socket both ways. `Persist` may
never happen, as the code stands (see the observations), and every property holds
without it. Only the routes under `/rooms`, which the repository does not have, are external:
`ServeHistory`, `ServeOlder`, `ServeCall`. `excused` is history: the messages whose shown
state the code does not keep right, and `ServeHistory` and `ServeOlder` take off it what a
page read now makes good. `overtaken` holds those whose broadcast went ahead of their receipt.

### What is taken as mended

Much of the repository raises before it does anything, and a model of a call that always
raises says nothing. Each such module says in its header what is missing, and where the
choice matters it is a constant: `Mended` (`Conversations`, `Organization`, `RoomHub`) and
`CallbackFits` and `FramesPlain` (`ChatPipeline`) name the operations a run takes as corrected in the way
their callers mean them; with the empty set the modules are the code as it stands.

* boltchats-ws: the endpoint calls `connect` without the `connection_id` it requires;
  the handlers call `BroadcastManager.publish`, which does not exist; `_listen` calls its
  callback with three arguments, `on_broadcast` takes two; and `on_broadcast` and the
  handlers pass a JSON text to `send_to_user`, which encodes it once more with `send_json`
  (`connection_manager.py` 197, `main.py` 58), so that the client parses a string, which has no
  `type`, and drops it. `FramesPlain` is that last point in `ChatPipeline`; with it FALSE nobody
  hears anything. `MessageList` takes each frame as one JSON text throughout.
* boltchats-storage: `main.py` imports a function `consume` that is not there.
* events: `EventStatus`, `EventRepository` and `RedisKey.MESSAGE_QUEUE` do not exist, so
  the package cannot be imported; the steps of the workflows call methods no service has.
* conversations: the models want fields the services leave out (`Broken` lists the
  operations), `ConversationStatus` has no `ASSIGNED`, the repository no
  `find_by_provider`, the collections no drafts.
* organisations: five operations (`Unbuildable`) construct documents without required
  fields or call what does not exist; their router is not mounted.

## 3. Checks

| Run | Instance | What it shows |
|---|---|---|
| `auth_session` | 1 user, 1 organisation, 2 requests, 3 seconds; tokens live 1 | a revoked token is refused, a clean logout ends the session, a token names a fresh membership, the key outlives the JWT |
| `registration` | 2 registrations, 2 addresses, 2 slugs, 2 faults | accounts unique, a verified organisation complete, a refused registration leaves nothing, each is answered |
| `conversations` | 4 requests, 2 at a time, 2 members, 2 labels, 2 names, 1 provider; only participants indexed | documents unique, the counter never ahead and exact, but for what overlapped or was cut short; every label as the last call about it left it, but for those written under another call's copy |
| `organization` | 3 requests, 2 at a time, 2 users, 2 things, 2 names, 1 permission, 2 invitations | members, names, invitations unique, honoured once; a stale permission was never reported or raced the drop; teams of a member as the last call about each left them, but for those written under another call's copy |
| `workflows` | 2 requests and 2 faults, or 1 request, 2 consumers, 1 retry by hand, 1 fault | statuses true, no event forgotten, completed workflows kept their message, everything ends |
| `migrations` | 2 interchangeable runs, arguments 0, 1 and 3, 2 faults | the history claims only what is there, nothing is skipped in silence |
| `room_hub` | 2 users, 2 sockets, 1 room, limit 1, 1 outage or crash | the tables agree, presence tells who is there, a newer connection is not removed, counters expire |
| `chat` | m1 as `handle_message` pushes it (no `conversation_id`), m2 complete, m3 no JSON object; one of m1, m2 sent through the handler, 2 pushes in all, batch 2, 2 members, 1 outage, death or restart | the worker implements `MessageLog`, what is shown is stored or set aside, members hear, events are about stored messages |
| `web_session` | 1 tab, 3 acts of the user, 1 API call, 1 fault | no endless spinner, nothing left after a logout; every refused call ends in a session or at the login page |
| `room_socket` | 4 clients, 2 tokens, 2 lost sockets | one live client, counted right, shared unless a token was stale, connected again |
| `message_list` | 2 old messages in pages of 2, then any 3 of: 1 send, 2 calls, 1 message or event of another user; frames lost, refused and out of order, the socket breaking, without a bound of their own | no id twice or moved; quiet, the list is the history |
| `web_page_refresh` | 1 tab, no faults | finding: a page load puts the old cookie back |

**Bounds.** Each bound is a constant whose name begins with `Max` and a guard of the
actions that count. The instances hold two of whatever can race (requests,
registrations, runs, flows, consumers, sessions of a user), since every property is about a
pair; a second of life and three of clock put each expiry before, at and after each
other step; a limit of one message reaches the refusal, and counts above the limit are
not told apart; two faults let one fault hit the handling of another; four clients let a
client be replaced while its predecessor is still closing and its successor is waiting.
Four requests in `conversations` are a creation, two that race, and one that meets what
they left; three in `organization`, where member, role and names are there from the start.
In `chat` the second delivery of a message needs two pushes, and a batch of two holds a
message that fails beside one that does not; `MaxSent` and `MaxPushes` bound the messages
through the handler and the pushes of all messages together, so that each pair of a refused,
a stored, a repeated and an unreadable entry occurs, though not three at once.
In `message_list` three acts (`MaxActs`) let two calls overlap, on one mark or on two, while
the other user changes the same message or the user's own message is on its way.
`MessageList` assumes `MaxMessages <= Old + PageSize`: no broadcast is more than a
page of history late. Without it TLC shows a late message twice; with the real page
size that takes fifty newer messages within the delay of one broadcast. `PageSize` is
positive: the API answers fifty by default and takes no limit below one (`routers/conversations.py` 101).
`web_session` has one tab: with two the liveness check takes too long to be
repeated. What a second tab does to the cookie is met by the calls of pages that were left
and of documents that are gone; the logout message is received by the tab that sent it,
and of `LogoutClearsTabs` the run shows the cookie and that tab.

**`MCWorkflows`** starts in one of two kinds of states: consumers stopped and two
requests (what the flows do to each other), or one request that publishes an event and two
consumers (what the consumers do to each other and to a retry by hand). The queue is
all the two sides share, and a flow only ever adds to it, so neither kind hides what the
other could do. `faults` and `retried` start at what the other half leaves as the
budget.

**Deadlock** is checked for `AuthSession`. The other systems may stop: a finished
migration or registration has nothing left to do and the bounds exhaust the rest.

**Fairness.** Safety properties are checked without any need of it. Liveness
assumes weak fairness of what no one can withhold: the event loop runs a continuation
that is due, timers fire, an HTTP call or a socket is answered or fails, a
worker, a consumer and a listener go on unless they die, a flow takes its next step,
and an outage is repaired (`Repair`). Nothing is assumed of users, of other clients, of
token expiry or of the network staying up; how often a call fails or a socket drops is
bounded, because for ever losing the network refutes every reconnection. The consumer
that has died stays dead: `Drains` says what then remains.

**Exceptions in the properties.** Many properties name the case in which the
code does not keep them, and the case is itself a race worth knowing:
`RevokedTokenRefused` leaves out tokens minted twice in one second,
`CleanLogoutEndsSession` logouts that met a refresh, `SharedUnlessStale` a token
replaced between two renders, `RecordedMeansApplied` a rollback beside a migration,
`QuietShowsHistory` the changes its comment lists, `ListInv` a message whose broadcast was
written before its receipt, `LabelsKept` and `TeamsKept` an entry written under another
call's copy, `ShownIsKept` a push that failed or that the process did not live to make,
`PresenceTold` users with two sessions or a
session cut short, `CountExact` and `OrgInv` overlapping calls, `NothingForgotten` an id
that a fault took or two hands worked on, `OneCustomer` two flows that were adding the
same customer, `MembersHear` a listener that lost its subscription or spins.
Each exception was added after TLC
showed the behaviour, and is as narrow as the history variables allow.

### Finding

`web_page_refresh`: `app/api/auth/refresh/route.ts` 35 sets the cookie to the token it was
sent, which the backend has just replaced; `store/auth.ts` 2 says that a page load restores
the session. The second page load of a session is refused.

### Observations

What the models show of the code beside the properties; the exceptions above are part of it.

* Sessions. The check and the rotation of a refresh token are separate awaits: two
  concurrent refreshes both succeed with one token, against "Prevents token replay attacks"
  (`authentication_service.py` 314). The logout route of the client sends no access token, so
  the backend refuses it and revokes nothing.
* boltchats-ws. Two sessions of one user cross: the cleanup of the old one takes the user out
  of the rooms and presence the new one has joined (`main.py` 248). A listener whose
  second subscription fails goes on with a pubsub without subscription, whose `listen()`
  ends at once: the loop never awaits again and the process hangs. The callback of the
  broadcast does not fit, so as written every broadcast is an error. Nothing publishes
  `message:confirmed`.
* Message list. The history is read once per room: what is published before `join_room` is
  handled or while the socket is down is not shown until the page is opened again. A failed
  edit stays on the screen, although the comment says "Revert optimistic update on error"
  (`useMessages.ts` 225). A broadcast that comes back before the handler has written the
  receipt shows the message twice under one id; a receipt that is lost leaves the placeholder
  beside the message. Of two calls
  on one mark the failure of the first takes back what the second did.
* Messages. `QueueMessage` carries `room_id`, the worker requires `conversation_id`: every
  message of the chat ends among the dead letters, which nothing reads and which
  expire.
* Client. A room is joined when `connected`, a ref read at render time, is seen true; a socket
  that opens after the last render is not noticed until something else renders
  (`useWebSocket.ts` 64, 100; `useMessages.ts` 147), and a socket that is lost and reopened between
  two renders is never joined again, since the join effect sees no change (`inRoom` is FALSE
  while `joined` is TRUE; no property promises the join). The edit, delete and reaction callbacks are
  modelled, although the message list renders no menu that calls them.
* Conversations. Assigning a closed conversation sets ASSIGNED and unassigning it reopens it with
  `closed_at` kept; setting the status to closed does not set it. Retired labels are still
  found and keep their names. The clean-up of drafts iterates over one document.
* Organisations. Deleted roles still give their permissions to who has them; an expired
  invitation blocks a new one; whether a team exists is never checked when a member joins;
  nobody calls the invalidation of the permission cache.
* Events. `BaseService.publish_event` pushes to a key nobody consumes. `handle_event` says
  "Continue to next handler on error" (`event_bus.py` 211) and raises. `retry_failed_event` does
  not look at the status and pushes before it resets. The webhook workflow reports COMPLETED
  although the workflow inside it FAILED; the id of the provider's message is never looked up, so
  a webhook that is delivered again stores its message again; only open conversations are
  looked for, so a customer whose conversation is assigned gets another one.
* Migrations. A version that failed below a recorded one is never run again: pending are the
  versions above the newest one (`migrations/__init__.py` 142), and the loop goes on after
  a failure (167).

## 4. Proofs

Every theorem holds for all values of the constants, so for any number of users,
requests, registrations, clients, runs, messages and faults. Each proof module shows that an
inductive invariant holds initially and is kept by every action, then derives the
properties from it.

* `SessionInv` (AuthSession). What a request holds at each await is related to what
  Redis holds: its token was minted for its user, in an organisation seen active
  (`RequestOK`); the stored token belongs to the user, who is verified, and the key
  outlives it (`StoreOK`); after a clean logout nothing can store
  (`QuietAfterLogout`); and a token minted once is stored once (`StoredOnce`). The last
  part is why a retired token cannot come back: without it a second writer of the
  same token could exist. Assumed: the lives and the clock's bound are naturals,
  `None` is no token, user or organisation.
* `SagaInv` (Registration). Documents appear in one order and only the user is ever
  deleted, before the organisation exists (`Chain`); the place of a registration says
  which of its documents are there (`Placed`). Assumed: `MaxFaults \in Nat`.
* `LabelInv` (Conversations) and `TeamInv` (Organization): the copy of the list a call holds
  agrees with the list but for what is `raced`, because whoever writes while such a copy is
  out notes the entry there; so writing a copy back changes the entry of the call and noted
  ones only.
* `DocInv` (Conversations). `StillSo`: what a call found when it looked is still so until
  it writes, unless a call of its kind crossed it; `Overlaps`: two calls under way of one
  kind are noted in `crossed`. Neither stands without the other, since it is the
  overlap that makes the looked-up fact stale. `Counted` adds what a send will write to the
  counter. Assumed: `None` is no member or name, `MaxCalls \in Nat`, operations are named by
  strings.
* `OrganizationInv` (Organization). The same argument for six kinds of documents at once:
  `Ready` is what a call relies on of each, and a step of one call keeps it for the others
  because it either writes other documents or is of a crossed topic. For the cache, a check
  that holds roles read earlier makes the member `dirty` when they change
  (`CacheFresh`). Assumed: as above.
* `WorkerIInv` (StorageWorker). `WorkerInv` is not inductive: that the next message of
  a batch is readable needs all of the batch to be so, and exactness in peace needs
  that Redis and MongoDB answer until something fails and that only incomplete
  messages fail. The refinement follows action by action: what changes hands
  settles waiting messages, a push accepts, expiry gives up, the counter counts below
  the number stored. Assumed: the messages are finitely many, the bounds are naturals.
* `PipelineInv` (ChatPipeline). Every step of the pipeline is a step of the worker, leaves its
  variables alone, or is a restart of boltchats-ws, which the worker sees as a fault;
  so its invariant and the refinement hold in the composition. `ToldIsStored` needs
  besides that what is stored stays.
* `SharingInv` (RoomSocket). `NoStraySocket`, `LastOneCloses` and `SharedUnlessStale`
  need each other, and `Staged`: which hook may be registered at which stage, and that
  a client that is not shared will not reopen. Counting uses that there are two hooks.
  Assumed: the bounds are naturals and `NoToken`, `NoClient` are not.
* `HistoryInv` (Migrations). `InOrder` says that a run works through its list upwards
  or downwards, `NoSilentGap` that a gap below what it still has to do was logged,
  `RowsOfRuns` that every reported version has a row of its own, `WorkDone` that the
  collections it is done with have their indexes, `FromTheTop` that a rollback takes
  what rests on a version first. Assumed: arguments and faults are naturals.
  `LeftoversWereFailures` counts objects, so its invariant `Swept` counts what a rollback in
  progress has passed over as well: reporting a version then changes nothing, a drop that
  fails adds one object and one fault.
* `HubIInv` (RoomHub). `HubInv` and `PresenceTold` speak of users at rest, and a session is
  seldom at rest: `Told` says what of the presence of a user is already in Redis and what
  is still among the awaits of her session, `Shape` which awaits can follow each other
  (after a reply or a counter no handler writes presence, no handler both enters and leaves
  rooms, only the cleanup goes offline), `SessionOK` in which places a session has a user
  and `OneSession` that without a crossing she has one. The loops over the members of a
  room and over the rooms of a user are sequences without repetition, which is what
  makes a presence write belong to one await. `NewerKept` follows action by action.
  Assumed: users and rooms are finitely many, the limit is positive, `None` is none of them.
* `EventsIInv` (EventQueue, Workflows), in three parts. `QueueIInv`: an event that no two hands
  met on is in one place, the queue, a publisher, a consumer or a retry by hand (`Single`),
  the tries its handlers have had are those its document and its consumer remember
  (`Counted`), and while its status says it waits it is somewhere (`Kept`).
  `PushesOK`: a flow between the two writes of `publish` holds an event no other flow has. `FlowIInv`: where a flow is
  says which workflow runs inside which (`Placed`), which ids it knows (`Knows`) and which
  documents its steps have left for the later ones (`Built`); `OneAdds` is that at most
  one flow is adding the customer until two overlap. The queue invariant is proved once
  for the actions of `EventQueue` and holds in the composition because a flow only
  publishes. Assumed: `NoEvent` is no event, the bounds are naturals.
* `PageIInv` (WebSession). `PageInv` needs what the calls of a page can still do: which kinds of
  call each slot holds (`FetchOf`), so that the answer that makes a page ready is its own, and
  after a clean logout that each answer under way is harmless (`Harmless`: it brings no
  access token and no cookie). Assumed: the bounds are naturals; the tabs are any set.
* `ListIInv` (MessageList). `FramesOK` types what is on its way and says that only numbered
  messages are announced. `ReceiptsOK`: a receipt, written or owed, names a placeholder and
  its message, each message has one, and unless its broadcast overtook it the broadcast is
  behind it and the message is not in the list, so that renaming the placeholder repeats
  nothing. `PagesOK`: a page is an interval of numbers that ends below what was loaded;
  `Everywhere`: each newer message is in the list, announced, in the answered page or excused
  (`Covered`), and every older one from the cursor on is in the list; `CallsOK`: what a call
  that nobody disturbs has done to the list and to the services, per mark; `MarksOK`: the last
  change on its way, or the services where none is, has the value the list will show. A lost
  frame moves its message to `excused`, for which these say nothing; a page takes it back when
  nothing of the message is under way (`Settled`), because the page alone then decides what the
  list will show. `ListInv`, `QuietShowsHistory` and `EntriesStay` need most of them together.
  Assumed: what `BoundsAssumption` says, the lag of a broadcast included.

The definitions of `Registration`, `WebSession` and `MessageList` that would be called `Init`,
`Next` and so on carry a prefix, because a proof module extends several components.

Every safety invariant and action property of a passing run is stated by a theorem. Only
model-checked are the liveness properties `AnsweredIsUsable`, `RefusedCallResolves`, `Connects`,
`MembersHear`, `ShownIsKept` and `Drains`, because the provers have no rules for fairness
and ENABLED.

## 5. What is not modelled

Left out on purpose: rendering, logging, metrics, validation of request bodies,
password hashing, e-mail contents, deployment. Redis and MongoDB are taken to be single,
durable and linearizable; a Redis that loses the keys only ends sessions early.

Left out of modelled parts: queries that only read; `ChannelManager`, heartbeat and
subscriptions of `ConnectionManager`, which no code calls; `subscribe` and
`unsubscribe` while events are handled and `replay_events`; the templates of
permissions; the routes for registration and Google login of the client, which the backend
refuses.

Not modelled at all: notifications and integrations (stubs around HTTP calls, whose
router calls methods the service does not have); seeders, validators, health, backup and the
command line (it cannot be imported); the client's workspaces and channels (their
endpoints do not exist in this backend); components and pages. PROJECT.json gives the
reason for each.

## 6. Plan

What is left, in the order of what it would add:

1. The refinement of `WebSession`'s backend by `AuthSession`, and of the services in
   `MessageList` by `ChatPipeline` and `RoomHub`.
2. `Seeding` (check, then insert, per role) and `WorkspaceStore` (loads out of order in the
   client), once the code they belong to can run.
