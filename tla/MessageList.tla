----------------------------- MODULE MessageList -----------------------------
(***************************************************************************)
(* The message list of a room page (hooks/useMessages.ts): history pages   *)
(* from the API, live events from the socket, and the user's own messages, *)
(* edits, deletions and reactions, all shown before they are confirmed,    *)
(* with the part of boltchats-ws and boltchats-storage that feeds it.      *)
(*                                                                         *)
(* Messages are numbered as the service accepts them; a number above       *)
(* MaxMessages is a client_message_id.  What an entry shows beside its text *)
(* is a set of marks: "deleted", "edited", "mine" (this user's reaction)   *)
(* and "theirs" (another user's).  handle_message publishes, pushes and    *)
(* writes the receipt side by side, so the receipt may reach the socket    *)
(* before the broadcast or after it.  A frame may be lost wherever it is.  *)
(* The routes under /rooms are not in this repository: what they answer is *)
(* taken from the client.  Frames are taken as one JSON text each (see     *)
(* FramesPlain in ChatPipeline).  The connection is RoomSocket's.          *)
(***************************************************************************)
EXTENDS Naturals, Sequences, SequencesExt, FiniteSets

CONSTANTS
    MaxMessages,  \* messages the room ever holds
    Old,          \* those that are there before the page is opened
    PageSize,     \* messages in one page of history
    MaxSends,     \* messages this user sends
    MaxCalls,     \* edits, deletions and reactions of this user
    MaxTheirs,    \* messages and events of the other users
    MaxActs       \* all three together

ASSUME BoundsAssumption ==
    /\ {MaxMessages, Old, MaxSends, MaxCalls, MaxTheirs, MaxActs} \subseteq Nat /\ PageSize \in Nat \ {0}
    /\ Old <= MaxMessages
    /\ MaxMessages <= Old + PageSize  \* no broadcast is a page behind the history

Messages == 1 .. MaxMessages
Placeholders == MaxMessages + 1 .. MaxMessages + MaxSends
Marks == {"deleted", "edited", "mine", "theirs"}
Calls == 1 .. MaxCalls

VARIABLES
    accepted, stored,  \* services: messages accepted, and persisted of them
    truth,             \* services: marks of each persisted message
    mine,              \* services: the messages of this user
    pubsub,            \* services: broadcasts on their way through Redis
    owed,              \* services: receipts not yet written to the socket
    wire,              \* frames on the socket, to this tab
    up,                \* frames on the socket, from this tab
    list,              \* messages: sequence of [id, marks, confirmed]
    cursor,            \* nextCursor: 0 for null, else the oldest id loaded
    history,           \* the history request: [state, items]
    older,             \* the request for older messages: [state, items]
    sends, calls,      \* what this user has done
    theirs,            \* what the others have done
    overtaken,         \* history: messages broadcast before their receipt was written
    excused            \* history: ids whose shown state may differ, see ShowsTruth

client == <<list, cursor, history, older, sends, calls>>
services == <<accepted, stored, truth, mine, pubsub, owed>>
listVars == <<services, wire, up, client, theirs, overtaken, excused>>

-----------------------------------------------------------------------------
Ids(entries) == {entries[i].id : i \in DOMAIN entries}
MayAct == sends + theirs + Cardinality({k \in Calls : calls[k].state # "none"}) < MaxActs
Entry(id, marks, confirmed) == [id |-> id, marks |-> marks, confirmed |-> confirmed]
MarkFrame(id, mark, on) == [kind |-> "mark", id |-> id, mark |-> mark, on |-> on]
With(marks, mark, on) == IF on THEN marks \cup {mark} ELSE marks \ {mark}

\* prev.map(m => m.id === id ? ... : m)
Marked(entries, id, mark, on) ==
    [i \in DOMAIN entries |->
        IF entries[i].id = id
        THEN [entries[i] EXCEPT !.marks = With(@, mark, on)]
        ELSE entries[i]]

\* What GET /rooms/{id}/messages answers: the newest page below `before`.
Items(before) ==
    LET last == IF before = 0 \/ before > stored + 1 THEN stored ELSE before - 1
        first == IF last > PageSize THEN last - PageSize + 1 ELSE 1
    IN  [i \in 1 .. last - first + 1 |-> Entry(first + i - 1, truth[first + i - 1], TRUE)]

NextCursor(items) == IF items = <<>> \/ items[1].id = 1 THEN 0 ELSE items[1].id

NoRequest == [state |-> "idle", items |-> <<>>]
NoCall == [state |-> "none", id |-> 0, mark |-> "edited", on |-> TRUE]

ListInit ==
    /\ accepted = Old /\ stored = Old
    /\ truth = [m \in Messages |-> {}]
    /\ mine \in {{}, IF Old > 0 THEN {Old} ELSE {}}
    /\ pubsub = <<>> /\ wire = <<>> /\ up = <<>> /\ owed = {}
    /\ list = <<>> /\ cursor = 0
    /\ history = [NoRequest EXCEPT !.state = "asked"]
    /\ older = NoRequest
    /\ sends = 0 /\ theirs = 0
    /\ calls = [k \in Calls |-> NoCall]
    /\ overtaken = {} /\ excused = {}

-----------------------------------------------------------------------------
(* The services.                                                           *)

\* A message is numbered and published.
Accept ==
    /\ accepted < MaxMessages /\ accepted' = accepted + 1
    /\ pubsub' = Append(pubsub, [kind |-> "message", id |-> accepted + 1])

\* A frame of this tab reaches the service and is let through: a message is
\* accepted and its receipt is owed, an event is relayed.  The endpoint takes
\* the next frame when the handler has returned.
Receive ==
    /\ up # <<>> /\ up' = Tail(up) /\ owed = {}
    /\ IF Head(up).kind = "message"
       THEN /\ Accept
            /\ mine' = mine \cup {accepted + 1}
            /\ owed' = {[kind |-> "receipt", id |-> Head(up).id, server |-> accepted + 1]}
       ELSE /\ pubsub' = Append(pubsub, Head(up))
            /\ UNCHANGED <<accepted, mine, owed>>
    /\ UNCHANGED <<stored, truth, wire, client, theirs, overtaken, excused>>

\* The frame is refused: too many in this second, or the user is not in the room.
Refused ==
    /\ up # <<>> /\ up' = Tail(up) /\ owed = {}
    /\ excused' = excused \cup {Head(up).id}
    /\ UNCHANGED <<services, wire, client, theirs, overtaken>>

\* send_to_user writes the receipt to the socket, or finds none.
WriteReceipt(r, arrives) ==
    /\ r \in owed /\ owed' = owed \ {r}
    /\ wire' = IF arrives THEN Append(wire, r) ELSE wire
    /\ UNCHANGED <<accepted, stored, truth, mine, pubsub, up, client, theirs, overtaken, excused>>

\* The next message is stored.  This need never happen: as the code stands every
\* chat message is set aside.  What is left out is a gap between two stored ones.
Persist ==
    /\ stored < accepted /\ stored' = stored + 1
    /\ UNCHANGED <<accepted, truth, mine, pubsub, owed, wire, up, client, theirs, overtaken, excused>>

\* The listener takes what is published and writes it to the socket; or it is
\* lost: the listener was not subscribed, or the user had no socket in the room.
Broadcast(arrives) ==
    /\ pubsub # <<>> /\ pubsub' = Tail(pubsub)
    /\ LET f == Head(pubsub)
           early == {r \in owed : f.kind = "message" /\ r.server = f.id}
       IN  /\ wire' = IF arrives THEN Append(wire, f) ELSE wire
           /\ overtaken' = overtaken \cup {r.server : r \in early}
           /\ excused' = IF arrives /\ early = {} THEN excused ELSE excused \cup {f.id}
    /\ UNCHANGED <<accepted, stored, truth, mine, owed, up, client, theirs>>

\* The socket breaks: what is on it is lost, both ways.
Disconnect ==
    /\ wire' = <<>> /\ up' = <<>>
    /\ excused' = excused \cup Ids(wire) \cup Ids(up)
    /\ UNCHANGED <<services, client, theirs, overtaken>>

\* Another user writes, deletes a message of his, reacts or takes it back.
TheyPost ==
    /\ MayAct /\ theirs < MaxTheirs /\ theirs' = theirs + 1
    /\ Accept
    /\ UNCHANGED <<stored, truth, mine, owed, wire, up, client, overtaken, excused>>

TheyMark(m, mark, on) ==
    /\ MayAct /\ theirs < MaxTheirs /\ theirs' = theirs + 1
    /\ m <= stored
    /\ mark \in {"deleted", "theirs"}
    /\ mark = "deleted" => (m \notin mine /\ on)
    /\ on <=> mark \notin truth[m]
    /\ truth' = [truth EXCEPT ![m] = With(@, mark, on)]
    /\ pubsub' = Append(pubsub, MarkFrame(m, mark, on))
    /\ UNCHANGED <<accepted, stored, mine, owed, wire, up, client, overtaken, excused>>

\* A change of this mark of the message is under way: a call, or an event.
Changing(id, mark) ==
    \/ \E k \in Calls : calls[k].state \notin {"none", "over"} /\ calls[k].id = id /\ calls[k].mark = mark
    \/ \E f \in ToSet(up \o pubsub \o wire) : f.kind = "mark" /\ f.id = id /\ f.mark = mark

\* Nothing about the message is under way.
Settled(m) ==
    /\ \A k \in Calls : calls[k].state \in {"none", "over"} \/ calls[k].id # m
    /\ \A f \in ToSet(up \o pubsub \o wire) : f.id # m /\ (f.kind = "receipt" => f.server # m)
    /\ \A r \in owed : r.server # m

\* A page that is read now has its messages as they are: what was lost of them
\* before is made good.
ServeHistory ==
    /\ history.state = "asked"
    /\ history' = [state |-> "answered", items |-> Items(0)]
    /\ excused' = {m \in excused : ~(m \in 1 .. stored /\ Settled(m))}
    /\ UNCHANGED <<services, wire, up, list, cursor, older, sends, calls, theirs, overtaken>>

ServeOlder ==
    /\ older.state = "asked"
    /\ older' = [state |-> "answered", items |-> Items(cursor)]
    /\ excused' = {m \in excused : ~(m \in Ids(Items(cursor)) /\ Settled(m))}
    /\ UNCHANGED <<services, wire, up, list, cursor, history, sends, calls, theirs, overtaken>>

\* A call is applied and its answer is on its way, or lost; or it is refused,
\* as every call is that names a placeholder.
ServeCall(k, outcome) ==
    /\ calls[k].state = "sent"
    /\ outcome # "refused" => calls[k].id <= stored
    /\ truth' = IF outcome = "refused" THEN truth
                ELSE [truth EXCEPT ![calls[k].id] = With(@, calls[k].mark, calls[k].on)]
    /\ calls' = [calls EXCEPT ![k].state = IF outcome = "ok" THEN "ok" ELSE "failed"]
    /\ excused' = IF outcome = "lost" THEN excused \cup {calls[k].id} ELSE excused
    /\ UNCHANGED <<accepted, stored, mine, pubsub, owed, wire, up, list, cursor, history, older, sends, theirs, overtaken>>

-----------------------------------------------------------------------------
(* handleEvent.                                                            *)

\* message_confirmed: the placeholder takes the server's id.
Confirmed(f) ==
    [i \in DOMAIN list |->
        IF list[i].id = f.id
        THEN [list[i] EXCEPT !.id = f.server, !.confirmed = TRUE]
        ELSE list[i]]

\* Mutant: the guard against duplicate delivery is missing.
Appended_Unguarded(f) == Append(list, Entry(f.id, {}, TRUE))

\* message: appended unless it is there.
Appended(f) ==
    IF f.id \in Ids(list) THEN list ELSE Append(list, Entry(f.id, {}, TRUE))

HandleEvent ==
    /\ wire # <<>> /\ wire' = Tail(wire)
    /\ LET f == Head(wire) IN
       CASE f.kind = "receipt" ->
               /\ list' = Confirmed(f)
               /\ excused' = IF f.id \in excused THEN excused \cup {f.server} ELSE excused
         [] f.kind = "message" ->
               list' = Appended(f) /\ UNCHANGED excused
         [] f.kind = "mark" ->
               /\ list' = Marked(list, f.id, f.mark, f.on)
               /\ excused' = IF history.state = "done" /\ f.id \in Ids(list)
                             THEN excused ELSE excused \cup {f.id}
    /\ UNCHANGED <<services, up, cursor, history, older, sends, calls, theirs, overtaken>>

-----------------------------------------------------------------------------
(* The user.                                                               *)

\* The history is answered: it replaces whatever is shown; on an error the
\* list is emptied.
History(ok) ==
    /\ history.state = "answered"
    /\ list' = IF ok THEN history.items ELSE <<>>
    /\ cursor' = IF ok THEN NextCursor(history.items) ELSE 0
    /\ history' = [NoRequest EXCEPT !.state = IF ok THEN "done" ELSE "failed"]
    /\ excused' = excused \cup ((Ids(list) \cup Ids(history.items)) \ Ids(list'))
    /\ UNCHANGED <<services, wire, up, older, sends, calls, theirs, overtaken>>

\* loadOlderMessages, and its two outcomes.
LoadOlder ==
    /\ history.state = "done" /\ older.state = "idle" /\ cursor # 0
    /\ older' = [NoRequest EXCEPT !.state = "asked"]
    /\ UNCHANGED <<services, wire, up, list, cursor, history, sends, calls, theirs, overtaken, excused>>

\* Mutant: the older page is put behind what is shown.
OlderLoaded_Behind ==
    /\ older.state = "answered" /\ older' = NoRequest
    /\ list' = list \o older.items
    /\ cursor' = NextCursor(older.items)
    /\ UNCHANGED <<services, wire, up, history, sends, calls, theirs, overtaken, excused>>

OlderLoaded ==
    /\ older.state = "answered" /\ older' = NoRequest
    /\ list' = older.items \o list
    /\ cursor' = NextCursor(older.items)
    /\ UNCHANGED <<services, wire, up, history, sends, calls, theirs, overtaken, excused>>

OlderFails ==
    /\ older.state \in {"asked", "answered"} /\ older' = NoRequest
    /\ UNCHANGED <<services, wire, up, list, cursor, history, sends, calls, theirs, overtaken, excused>>

\* sendMessage; WsClient.send drops the frame if the socket is not open.
Send(open) ==
    /\ MayAct /\ sends < MaxSends /\ sends' = sends + 1
    /\ list' = Append(list, Entry(MaxMessages + sends + 1, {}, FALSE))
    /\ up' = IF open THEN Append(up, [kind |-> "message", id |-> MaxMessages + sends + 1]) ELSE up
    /\ UNCHANGED <<services, wire, cursor, history, older, calls, theirs, overtaken, excused>>

\* editMessage, deleteMessage, addReaction, removeReaction: shown at once.
Call(k, id, mark, on) ==
    /\ MayAct /\ calls[k].state = "none" /\ \A j \in Calls : j < k => calls[j].state # "none"
    /\ \E i \in DOMAIN list : list[i].id = id /\ (on <=> mark \notin list[i].marks)
    /\ mark \in {"deleted", "edited"} => (on /\ id \in mine \cup Placeholders)
    /\ list' = Marked(list, id, mark, on)
    /\ calls' = [calls EXCEPT ![k] = [state |-> "sent", id |-> id, mark |-> mark, on |-> on]]
    /\ excused' = IF Changing(id, mark) \/ history.state # "done" \/ id \in Placeholders
                  THEN excused \cup {id} ELSE excused
    /\ UNCHANGED <<services, wire, up, cursor, history, older, sends, theirs, overtaken>>

\* The call succeeds: the event is sent to the room.
CallAnswered(k, open) ==
    /\ calls[k].state = "ok"
    /\ calls' = [calls EXCEPT ![k].state = "over"]
    /\ up' = IF open THEN Append(up, MarkFrame(calls[k].id, calls[k].mark, calls[k].on)) ELSE up
    /\ UNCHANGED <<services, wire, list, cursor, history, older, sends, theirs, overtaken, excused>>

\* Mutant: nothing is undone, as for an edit.
Undone_Never(c) == list

\* It fails: a deletion or reaction is undone, an edit is not.
Undone(c) ==
    IF c.mark = "edited" THEN list ELSE Marked(list, c.id, c.mark, ~c.on)

CallFailed(k) ==
    /\ calls[k].state = "failed"
    /\ calls' = [calls EXCEPT ![k].state = "over"]
    /\ list' = Undone(calls[k])
    /\ excused' = IF calls[k].mark = "edited" THEN excused \cup {calls[k].id} ELSE excused
    /\ UNCHANGED <<services, wire, up, cursor, history, older, sends, theirs, overtaken>>

ListNext ==
    \/ Receive \/ Refused \/ Persist \/ Disconnect \/ TheyPost \/ ServeHistory \/ ServeOlder
    \/ \E r \in owed, arrives \in BOOLEAN : WriteReceipt(r, arrives)
    \/ \E arrives \in BOOLEAN : Broadcast(arrives)
    \/ \E m \in Messages, mark \in Marks, on \in BOOLEAN : TheyMark(m, mark, on)
    \/ \E k \in Calls, outcome \in {"ok", "lost", "refused"} : ServeCall(k, outcome)
    \/ HandleEvent
    \/ \E ok \in BOOLEAN : History(ok)
    \/ LoadOlder \/ OlderLoaded \/ OlderFails
    \/ \E open \in BOOLEAN : Send(open)
    \/ \E k \in Calls, id \in Messages \cup Placeholders, on \in BOOLEAN,
          mark \in Marks \ {"theirs"} : Call(k, id, mark, on)
    \/ \E k \in Calls, open \in BOOLEAN : CallAnswered(k, open)
    \/ \E k \in Calls : CallFailed(k)

ListSpec == ListInit /\ [][ListNext]_listVars

-----------------------------------------------------------------------------
AllIds == Messages \cup Placeholders
Entries == [id : AllIds, marks : SUBSET Marks, confirmed : BOOLEAN]
Request == [state : {"idle", "asked", "answered", "done", "failed"}, items : Seq(Entries)]

ListTypeOK ==
    /\ stored \in 0 .. accepted /\ accepted \in 0 .. MaxMessages
    /\ truth \in [Messages -> SUBSET Marks] /\ mine \subseteq 1 .. accepted
    /\ list \in Seq(Entries) /\ cursor \in 0 .. MaxMessages
    /\ history \in Request /\ older \in Request
    /\ sends \in 0 .. MaxSends /\ theirs \in 0 .. MaxTheirs
    /\ \A k \in Calls : calls[k].state \in {"none", "sent", "ok", "failed", "over"}
    /\ overtaken \subseteq Messages /\ excused \subseteq AllIds

\* No two entries have one id ("Guard against duplicate delivery"), whatever is
\* lost and in whatever order the receipt, the broadcast and the pages of history
\* that hold a message arrive; but for a message whose broadcast went ahead of its
\* receipt: the receipt then renames the placeholder to an id that is shown.  (A
\* receipt that is lost leaves the placeholder, under its own id, beside the message.)
ShownOnce == \A i, j \in DOMAIN list : list[i].id = list[j].id => i = j \/ list[i].id \in overtaken

\* The invariant of the list: its type, and no message twice.
ListInv == ListTypeOK /\ ShownOnce

\* Once the history is there no message leaves the list and no two change
\* places: what is older than the pages loaded is added before them, what is
\* newer after them.
EntriesStay ==
    [][history.state = "done" =>
        \E skip \in 0 .. Len(list') - Len(list) :
            /\ \A i \in 1 .. skip : list'[i].id < cursor
            /\ \A i \in DOMAIN list :
                  \/ list'[skip + i].id = list[i].id
                  \/ (list[i].id \in Placeholders /\ list'[skip + i].confirmed)
            /\ \A i \in skip + Len(list) + 1 .. Len(list') : list'[i].id > cursor]_listVars

Quiet ==
    /\ pubsub = <<>> /\ wire = <<>> /\ up = <<>> /\ owed = {}
    /\ history.state = "done" /\ older.state = "idle"
    /\ \A k \in Calls : calls[k].state \in {"none", "over"}

\* The list shows what the services hold, except of messages
\* - of which a frame was lost, refused or went ahead of its receipt, or an
\*   event came without the message being shown, after the last page was read,
\* - on which a call was made while the same mark was changing already, or the
\*   history was not there, or that was a placeholder,
\* - of which an edit failed, or a call whose answer was lost.
ShowsTruth ==
    \A i \in DOMAIN list :
        list[i].id \in Messages \ excused => list[i].marks = truth[list[i].id]

\* No message newer than the oldest page is missing from the list, except one
\* whose broadcast was lost, or wiped out by the answer to the history request,
\* and that was stored after the history was read.
ShowsAll == \A m \in 1 .. accepted : cursor <= m => m \in Ids(list) \cup excused

\* When nothing is under way the list agrees with the services: it has their
\* messages, as they are.
QuietShowsHistory == Quiet => ShowsTruth /\ ShowsAll
=============================================================================
