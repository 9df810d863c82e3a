--------------------------- MODULE Conversations ---------------------------
(* The conversation services of boltchats-api over one conversation and its *)
(* customer.  A service reads, checks, and writes some awaits later what it *)
(* computed from the copy it read; no service uses a transaction, and       *)
(* BaseRepository.update answers False where the driver fails, which nobody *)
(* looks at.  Concurrent requests are calls; every await between two        *)
(* accesses to the database that others may change is a step.               *)
(*                                                                          *)
(* As written the operations of Broken raise before their first write: the  *)
(* models want fields the services leave out (external_id, organization_id, *)
(* from_type), ConversationStatus has no ASSIGNED, a message no member_id,  *)
(* the repository no find_by_provider, Collection no CONVERSATION_DRAFTS.   *)
(* Mended names those a deployment is taken to have mended.                 *)
EXTENDS Naturals, Sequences, FiniteSets

CONSTANTS
    Calls,          \* requests in flight
    Members, LabelIds, Names, Providers,
    None,
    Mended,         \* operations of Broken that do not raise
    Indexed,        \* kinds with the unique index of migration 002
    MaxCalls        \* requests in a behaviour

ASSUME NoneAssumption == None \notin Members \cup Names
ASSUME CallsAssumption == MaxCalls \in Nat /\ Mended \subseteq STRING

VARIABLES
    customer,       \* the name of the customer's document, or None
    conv,           \* the conversation document
    messages,       \* its messages
    docs,           \* how many documents there are for a key
    labels,         \* the label documents of the organisation
    calls,          \* the request each call serves
    started,
    crossed, cut,   \* history: kinds of which two calls overlapped, operations cut short
    asked,          \* history: the labels as the calls that wrote last about each left them
    raced           \* history: the labels so written while another call held a copy of the list

docVars == <<customer, conv, messages, docs, labels>>
vars == <<customer, conv, messages, docs, labels, calls, started, crossed, cut, asked, raced>>

------------------------------------------------------------------------------
(* The documents: the fields these services read or write.                 *)

Statuses == {"open", "assigned", "pending", "resolved", "closed", "archived"}
Conversation ==
    [here : BOOLEAN, status : Statuses, assigned : Members \cup {None},
     labels : SUBSET LabelIds, count : Nat, closed : BOOLEAN]
Message == [by : Members, edited : BOOLEAN, deleted : BOOLEAN]
Label == [name : Names \cup {None}, deleted : BOOLEAN]
Participant == {"participant"} \X Members
Draft == {"draft"} \X Members
CustomerIdentity == {"identity"} \X Providers
Keys == Participant \cup Draft \cup CustomerIdentity

Broken == {"create", "status", "assign", "send", "edit", "delete", "draft", "undraft",
           "identity", "unidentify"}

\* Operations that may each insert a document of the same key.
KindOf(op) ==
    CASE op \in {"create", "assign"} -> "participant"
      [] op \in {"newLabel", "rename"} -> "labelName"
      [] OTHER -> op

Idle == [op |-> "idle", x |-> None, y |-> None, labels |-> {}, count |-> 0, pc |-> "idle"]

\* A service begins: with its first read it has a copy of the conversation.
Begin(c, op, x, y, pc) ==
    /\ calls[c] = Idle /\ started < MaxCalls /\ (op \in Broken => op \in Mended)
    /\ started' = started + 1
    /\ calls' = [calls EXCEPT ![c] =
                    [op |-> op, x |-> x, y |-> y, labels |-> conv.labels, count |-> conv.count, pc |-> pc]]
    /\ crossed' = crossed \cup {KindOf(calls[d].op) : d \in {d \in Calls : KindOf(calls[d].op) = KindOf(op)}}
    /\ UNCHANGED <<docVars, cut, asked, raced>>

At(c, op, pc) == calls[c].op = op /\ calls[c].pc = pc
Goto(c, pc) == calls' = [calls EXCEPT ![c].pc = pc]
Return(c) == calls' = [calls EXCEPT ![c] = Idle]
History == UNCHANGED <<started, crossed, cut, asked, raced>>

\* What BaseRepository.create, update and delete do to the documents: insert_one
\* raises where a unique index holds, update_one sets the named fields of the
\* document if it is there, and delete removes it.
Refused(kind, taken) == kind \in Indexed /\ taken
Insert(key) == docs' = [docs EXCEPT ![key] = @ + 1]
Set(fields) ==
    conv' = [f \in DOMAIN conv |-> IF f \in DOMAIN fields THEN fields[f] ELSE conv[f]]
Delete(key) == docs' = [docs EXCEPT ![key] = IF @ = 0 THEN 0 ELSE @ - 1]

\* The write of a call that only sets fields of the conversation.
Written(c, fields) ==
    Set(fields) /\ Return(c) /\ UNCHANGED <<customer, messages, docs, labels, started, crossed, cut>>
\* Mutant: the copy that was read is saved, with its labels.
SetAndReturn_Copy(c, fields) ==
    /\ Written(c, [f \in DOMAIN fields \cup {"labels"} |->
                     IF f \in DOMAIN fields THEN fields[f] ELSE calls[c].labels])
    /\ UNCHANGED <<asked, raced>>

SetAndReturn(c, fields) == Written(c, fields) /\ UNCHANGED <<asked, raced>>

\* The insertion of a document of a key with at most one document.
InsertFor(c, key, next) ==
    /\ IF Refused(key[1], docs[key] > 0)
       THEN Return(c) /\ UNCHANGED docs
       ELSE Insert(key) /\ IF next = "return" THEN Return(c) ELSE Goto(c, next)
    /\ History /\ UNCHANGED <<customer, conv, messages, labels>>

------------------------------------------------------------------------------
(* Customers *)

CreateCustomer(c, n) == customer = None /\ Begin(c, "customer", n, None, "write")
UpdateCustomer(c, n) == customer # None /\ Begin(c, "customer", n, None, "write")
WriteCustomer(c) ==
    /\ At(c, "customer", "write")
    /\ customer' = calls[c].x
    /\ Return(c) /\ History /\ UNCHANGED <<conv, messages, docs, labels>>

\* find_by_provider, then the insertion; the identity to remove is looked up.
AddIdentity(c, p) == customer # None /\ docs[<<"identity", p>>] = 0 /\ Begin(c, "identity", p, None, "insert")
InsertIdentity(c) == At(c, "identity", "insert") /\ InsertFor(c, <<"identity", calls[c].x>>, "return")
RemoveIdentity(c, p) == docs[<<"identity", p>>] > 0 /\ Begin(c, "unidentify", p, None, "delete")
DeleteIdentity(c) ==
    /\ At(c, "unidentify", "delete") /\ Delete(<<"identity", calls[c].x>>)
    /\ Return(c) /\ History /\ UNCHANGED <<customer, conv, messages, labels>>

------------------------------------------------------------------------------
(* The conversation: its status, its assignment and its participants.      *)

GetConversation == conv.here

\* The customer is read, the conversation inserted, then its first participant.
CreateConversation(c, m) ==
    /\ ~conv.here /\ \A d \in Calls : calls[d].op # "create"
    /\ customer # None /\ Begin(c, "create", m, None, "insert")
InsertConversation(c) ==
    /\ At(c, "create", "insert")
    /\ Set([here |-> TRUE, assigned |-> calls[c].x])
    /\ IF calls[c].x = None THEN Return(c) ELSE Goto(c, "participant")
    /\ History /\ UNCHANGED <<customer, messages, docs, labels>>
FirstParticipant(c) ==
    At(c, "create", "participant") /\ InsertFor(c, <<"participant", calls[c].x>>, "return")

\* valid_transitions, looked up with the status of the copy that was read.
ValidTransitions ==
    {<<"open", "assigned">>, <<"open", "closed">>, <<"assigned", "closed">>, <<"closed", "open">>}
UpdateStatus(c, s) ==
    GetConversation /\ <<conv.status, s>> \in ValidTransitions /\ Begin(c, "status", s, None, "write")
WriteStatus(c) == At(c, "status", "write") /\ SetAndReturn(c, [status |-> calls[c].x])

\* participants.find decides whether the member must be added first.
AssignConversation(c, m) ==
    GetConversation /\ Begin(c, "assign", m, None, IF docs[<<"participant", m>>] > 0 THEN "write" ELSE "insert")
AddParticipant(c) == At(c, "assign", "insert") /\ InsertFor(c, <<"participant", calls[c].x>>, "write")
WriteAssigned(c) ==
    At(c, "assign", "write") /\ SetAndReturn(c, [assigned |-> calls[c].x, status |-> "assigned"])

UnassignConversation(c) == GetConversation /\ Begin(c, "unassign", None, None, "write")
WriteUnassigned(c) ==
    At(c, "unassign", "write") /\ SetAndReturn(c, [assigned |-> None, status |-> "open"])

CloseConversation(c) == GetConversation /\ Begin(c, "close", None, None, "write")
WriteClosed(c) == At(c, "close", "write") /\ SetAndReturn(c, [status |-> "closed", closed |-> TRUE])

ReopenConversation(c) ==
    GetConversation /\ conv.status = "closed" /\ Begin(c, "reopen", None, None, "write")
WriteReopened(c) == At(c, "reopen", "write") /\ SetAndReturn(c, [status |-> "open", closed |-> FALSE])

------------------------------------------------------------------------------
(* Messages *)

GetMessage(i) == i \in DOMAIN messages /\ GetConversation

\* The message is inserted, then the conversation gets the counter of the copy
\* read at the beginning, plus one.
SendMessage(c, m) == GetConversation /\ Begin(c, "send", m, None, "insert")
InsertMessage(c) ==
    /\ At(c, "send", "insert")
    /\ messages' = Append(messages, [by |-> calls[c].x, edited |-> FALSE, deleted |-> FALSE])
    /\ Goto(c, "count") /\ History /\ UNCHANGED <<customer, conv, docs, labels>>
\* Mutant: the counter is written back as it was read.
CountMessage_Same(c) == At(c, "send", "count") /\ SetAndReturn(c, [count |-> calls[c].count])

CountMessage(c) == At(c, "send", "count") /\ SetAndReturn(c, [count |-> calls[c].count + 1])

\* Only the sender edits (within 15 minutes) or deletes; a deleted message is
\* still found.
EditMessage(c, i, m) == GetMessage(i) /\ messages[i].by = m /\ Begin(c, "edit", i, m, "write")
WriteEdit(c) ==
    /\ At(c, "edit", "write") /\ messages' = [messages EXCEPT ![calls[c].x].edited = TRUE]
    /\ Return(c) /\ History /\ UNCHANGED <<customer, conv, docs, labels>>
DeleteMessage(c, i, m) == GetMessage(i) /\ messages[i].by = m /\ Begin(c, "delete", i, m, "write")
WriteDeleted(c) ==
    /\ At(c, "delete", "write") /\ messages' = [messages EXCEPT ![calls[c].x].deleted = TRUE]
    /\ Return(c) /\ History /\ UNCHANGED <<customer, conv, docs, labels>>

------------------------------------------------------------------------------
(* Labels.  delete_label sets deleted_at, which no read looks at.          *)

GetLabel(l) == labels[l].name # None
Named(n) == {l \in LabelIds : labels[l].name = n}

CreateLabel(c, n) == Named(n) = {} /\ Begin(c, "newLabel", n, None, "insert")
InsertLabel(c) ==
    /\ At(c, "newLabel", "insert")
    /\ \/ /\ Refused("labelName", Named(calls[c].x) # {}) /\ UNCHANGED labels
       \/ /\ ~Refused("labelName", Named(calls[c].x) # {})
          /\ \E l \in LabelIds :
                ~GetLabel(l) /\ labels' = [labels EXCEPT ![l] = [name |-> calls[c].x, deleted |-> FALSE]]
    /\ Return(c) /\ History /\ UNCHANGED <<customer, conv, messages, docs>>

\* The new name is free, or the one document found with it is this label.
UpdateLabel(c, l, n) ==
    GetLabel(l) /\ (Named(n) = {} \/ l \in Named(n)) /\ Begin(c, "rename", l, n, "write")
WriteLabel(c) ==
    /\ At(c, "rename", "write")
    /\ labels' = IF Refused("labelName", Named(calls[c].y) \ {calls[c].x} # {})
                 THEN labels ELSE [labels EXCEPT ![calls[c].x].name = calls[c].y]
    /\ Return(c) /\ History /\ UNCHANGED <<customer, conv, messages, docs>>
DeleteLabel(c, l) == GetLabel(l) /\ Begin(c, "retire", l, None, "write")
WriteRetired(c) ==
    /\ At(c, "retire", "write") /\ labels' = [labels EXCEPT ![calls[c].x].deleted = TRUE]
    /\ Return(c) /\ History /\ UNCHANGED <<customer, conv, messages, docs>>

\* The whole list of the copy that was read is written back, with one change.
HoldsLabels(c) == calls[c].op \in {"label", "unlabel"}
WriteLabels(c, left) ==
    /\ Written(c, [labels |-> left])
    /\ asked' = IF calls[c].x \in left THEN asked \cup {calls[c].x} ELSE asked \ {calls[c].x}
    /\ raced' = IF \E d \in Calls \ {c} : HoldsLabels(d)
                THEN raced \cup {calls[c].x} ELSE raced \ {calls[c].x}

AddLabel(c, l) == GetLabel(l) /\ GetConversation /\ l \notin conv.labels /\ Begin(c, "label", l, None, "write")
WriteLabelAdded(c) ==
    At(c, "label", "write") /\ WriteLabels(c, calls[c].labels \cup {calls[c].x})
RemoveLabel(c, l) == GetLabel(l) /\ GetConversation /\ l \in conv.labels /\ Begin(c, "unlabel", l, None, "write")
WriteLabelRemoved(c) ==
    At(c, "unlabel", "write") /\ WriteLabels(c, calls[c].labels \ {calls[c].x})

------------------------------------------------------------------------------
(* Drafts: one for a member, looked up and then updated or inserted.       *)

SaveDraft(c, m) ==
    GetConversation /\ Begin(c, "draft", m, None, IF docs[<<"draft", m>>] > 0 THEN "update" ELSE "insert")
\* Mutant: the draft is inserted whether or not one was found.
UpdateDraft_Inserts(c) == At(c, "draft", "update") /\ InsertFor(c, <<"draft", calls[c].x>>, "return")

UpdateDraft(c) == At(c, "draft", "update") /\ Return(c) /\ History /\ UNCHANGED docVars
InsertDraft(c) == At(c, "draft", "insert") /\ InsertFor(c, <<"draft", calls[c].x>>, "return")
DeleteDraft(c, m) == GetConversation /\ docs[<<"draft", m>>] > 0 /\ Begin(c, "undraft", m, None, "delete")
RemoveDraft(c) ==
    /\ At(c, "undraft", "delete") /\ Delete(<<"draft", calls[c].x>>)
    /\ Return(c) /\ History /\ UNCHANGED <<customer, conv, messages, labels>>

------------------------------------------------------------------------------
(* The endpoints of routers/conversations.py, and what only other code calls. *)

CustomerRequest(c) == \E n \in Names : CreateCustomer(c, n)
ConversationRequest(c) ==
    \/ \E m \in Members \cup {None} : CreateConversation(c, m)
    \/ \E s \in Statuses : UpdateStatus(c, s)
MessageRequest(c) ==
    \E m \in Members :
        \/ SendMessage(c, m)
        \/ \E i \in DOMAIN messages : EditMessage(c, i, m) \/ DeleteMessage(c, i, m)
LabelRequest(c) == \E l \in LabelIds : AddLabel(c, l) \/ RemoveLabel(c, l)
DraftRequest(c) == \E m \in Members : SaveDraft(c, m) \/ DeleteDraft(c, m)
InternalRequest(c) ==
    \/ \E n \in Names : UpdateCustomer(c, n) \/ CreateLabel(c, n)
    \/ \E p \in Providers : AddIdentity(c, p) \/ RemoveIdentity(c, p)
    \/ \E m \in Members : AssignConversation(c, m)
    \/ UnassignConversation(c) \/ CloseConversation(c) \/ ReopenConversation(c)
    \/ \E l \in LabelIds : DeleteLabel(c, l) \/ \E n \in Names : UpdateLabel(c, l, n)
Request(c) ==
    CustomerRequest(c) \/ ConversationRequest(c) \/ MessageRequest(c) \/ LabelRequest(c)
        \/ DraftRequest(c) \/ InternalRequest(c)

Write(c) ==
    \/ WriteCustomer(c) \/ InsertIdentity(c) \/ DeleteIdentity(c)
    \/ InsertConversation(c) \/ FirstParticipant(c) \/ WriteStatus(c)
    \/ AddParticipant(c) \/ WriteAssigned(c) \/ WriteUnassigned(c) \/ WriteClosed(c) \/ WriteReopened(c)
    \/ InsertMessage(c) \/ CountMessage(c) \/ WriteEdit(c) \/ WriteDeleted(c)
    \/ InsertLabel(c) \/ WriteLabel(c) \/ WriteRetired(c) \/ WriteLabelAdded(c) \/ WriteLabelRemoved(c)
    \/ UpdateDraft(c) \/ InsertDraft(c) \/ RemoveDraft(c)

\* The driver raises, update answers False, or the worker dies: what is left of
\* the call does not happen.
Stop(c) ==
    /\ calls[c] # Idle
    /\ cut' = cut \cup {calls[c].op}
    /\ Return(c) /\ UNCHANGED <<docVars, started, crossed, asked, raced>>

\* A conversation that somebody else inserted, or none yet, and the labels the
\* organisation has.
Init ==
    /\ conv \in {[here |-> h, status |-> "open", assigned |-> None, labels |-> {},
                  count |-> 0, closed |-> FALSE] : h \in BOOLEAN}
    /\ customer \in IF conv.here THEN Names ELSE {None}
    /\ messages = <<>> /\ docs = [k \in Keys |-> 0]
    /\ labels \in [LabelIds -> [name : Names \cup {None}, deleted : {FALSE}]]
    /\ \A n \in Names : \A l, k \in Named(n) : l = k
    /\ calls = [c \in Calls |-> Idle] /\ started = 0
    /\ crossed = {} /\ cut = {} /\ asked = conv.labels /\ raced = {}

Next == \E c \in Calls : Request(c) \/ Write(c) \/ Stop(c)
Spec == Init /\ [][Next]_vars

------------------------------------------------------------------------------
(* Properties *)

TypeOK ==
    /\ customer \in Names \cup {None} /\ conv \in Conversation
    /\ messages \in Seq(Message) /\ docs \in [Keys -> Nat] /\ labels \in [LabelIds -> Label]
    /\ DOMAIN calls = Calls /\ started \in 0 .. MaxCalls
    /\ \A c \in Calls : calls[c].count \in Nat /\ calls[c].labels \subseteq LabelIds
    /\ asked \subseteq LabelIds /\ raced \subseteq LabelIds

Counting(c) == At(c, "send", "count")

\* A member has one participant, one draft, a provider one identity and a name
\* one label, under the index or as long as no two such calls overlapped.
Unique ==
    /\ \A k \in Keys : (k[1] \in Indexed \/ k[1] \notin crossed) => docs[k] <= 1
    /\ \A n \in Names : ("labelName" \in Indexed \/ "labelName" \notin crossed) =>
        \A l, k \in Named(n) : l = k

\* The counter never runs ahead of the messages, nor does one that is about to
\* be written.
CountBounded ==
    /\ conv.count <= Len(messages)
    /\ \A c \in Calls : calls[c].count <= Len(messages) /\ (Counting(c) => calls[c].count < Len(messages))

\* Who a conversation is assigned to takes part in it, unless its creation was
\* cut short before it said so.
AssigneeTakesPart ==
    conv.assigned # None =>
        \/ docs[<<"participant", conv.assigned>>] > 0
        \/ "create" \in cut \/ \E c \in Calls : At(c, "create", "participant")

\* The invariant of the conversation documents.
ConvInv == TypeOK /\ Unique /\ CountBounded /\ AssigneeTakesPart

\* message_count is the number of messages as long as no two sends overlapped and
\* none was cut short; the message being sent is not counted yet.
CountExact ==
    (KindOf("send") \notin crossed /\ "send" \notin cut) =>
        Len(messages) = conv.count + IF \E c \in Calls : Counting(c) THEN 1 ELSE 0

\* Every label is on the conversation, or off it, as the last call that wrote
\* about it left it, whatever calls ran in between: one is lost only where it was
\* written while another call was between its read of the list and its write.
LabelsKept == \A l \in LabelIds \ raced : (l \in conv.labels) <=> (l \in asked)
=============================================================================
