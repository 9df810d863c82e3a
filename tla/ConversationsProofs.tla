------------------------ MODULE ConversationsProofs ------------------------
(* Safety of Conversations for any set of calls, members, labels, names and *)
(* providers, whichever operations are mended and indexes present.  DocInv  *)
(* is inductive: what a call read stays true until it writes unless a call  *)
(* of the same kind crossed it, and crossed says so.                        *)
EXTENDS Conversations, SequenceTheorems, TLAPS

USE NoneAssumption, CallsAssumption

------------------------------------------------------------------------------
(* The inductive invariant *)

\* The types of what the services keep; LabelInv has those of the history.
DocTypeOK ==
    /\ customer \in Names \cup {None} /\ conv \in Conversation
    /\ messages \in Seq(Message) /\ docs \in [Keys -> Nat] /\ labels \in [LabelIds -> Label]
    /\ DOMAIN calls = Calls /\ started \in 0 .. MaxCalls
    /\ \A c \in Calls : calls[c].count \in Nat /\ calls[c].labels \subseteq LabelIds

Shaped(k) ==
    k = [op |-> k.op, x |-> k.x, y |-> k.y, labels |-> k.labels, count |-> k.count, pc |-> k.pc]

\* What a call is about, and how far it can be.
Task(k) ==
    \/ k.op = "idle" /\ k.pc = "idle" /\ k = Idle
    \/ k.op = "customer" /\ k.pc = "write" /\ k.x \in Names
    \/ k.op = "identity" /\ k.pc = "insert" /\ k.x \in Providers
    \/ k.op = "unidentify" /\ k.pc = "delete" /\ k.x \in Providers
    \/ k.op = "create" /\ k.pc = "insert" /\ k.x \in Members \cup {None}
    \/ k.op = "create" /\ k.pc = "participant" /\ k.x \in Members
    \/ k.op = "status" /\ k.pc = "write" /\ k.x \in Statuses
    \/ k.op = "assign" /\ k.pc \in {"insert", "write"} /\ k.x \in Members
    \/ k.op \in {"unassign", "close", "reopen"} /\ k.pc = "write"
    \/ k.op = "send" /\ k.pc \in {"insert", "count"} /\ k.x \in Members
    \/ k.op \in {"edit", "delete"} /\ k.pc = "write" /\ k.x \in 1 .. Len(messages)
    \/ k.op = "newLabel" /\ k.pc = "insert" /\ k.x \in Names
    \/ k.op = "rename" /\ k.pc = "write" /\ k.x \in LabelIds /\ k.y \in Names
    \/ k.op \in {"retire", "label", "unlabel"} /\ k.pc = "write" /\ k.x \in LabelIds
    \/ k.op = "draft" /\ k.pc \in {"insert", "update"} /\ k.x \in Members
    \/ k.op = "undraft" /\ k.pc = "delete" /\ k.x \in Members

\* A call that inserts a document next, and the key of that document.
Inserting(k) ==
    \/ k.op \in {"identity", "draft", "assign"} /\ k.pc = "insert"
    \/ k.op = "create" /\ k.pc = "participant"
KeyOf(k) == <<KindOf(k.op), k.x>>

\* What the call found when it looked is still so, unless its kind is crossed.
StillSo(k) ==
    /\ k.op = "create" /\ k.pc = "insert" => ~conv.here
    /\ (k.op = "assign" \/ (k.op = "create" /\ k.pc = "participant")) => conv.here
    /\ k.op = "assign" /\ k.pc = "write" => docs[<<"participant", k.x>>] > 0
    /\ Inserting(k) /\ KindOf(k.op) \notin crossed => docs[KeyOf(k)] = 0
    /\ k.op = "newLabel" /\ "labelName" \notin crossed => Named(k.x) = {}
    /\ k.op = "rename" /\ "labelName" \notin crossed => Named(k.y) \subseteq {k.x}

\* Two calls of one kind have crossed.
Overlaps ==
    \A c, d \in Calls :
        c # d /\ calls[c].op # "idle" /\ KindOf(calls[c].op) = KindOf(calls[d].op)
            => KindOf(calls[c].op) \in crossed
OneCreate == \A c, d \in Calls : calls[c].op = "create" /\ calls[d].op = "create" => c = d

Nobody == ~conv.here => \A m \in Members : docs[<<"participant", m>>] = 0

\* The counter a send writes is the number of messages when it does.
Counted ==
    "send" \notin crossed \cup cut =>
        /\ (\A c \in Calls : calls[c].op # "send") => Len(messages) = conv.count
        /\ \A c \in Calls : calls[c].op = "send" =>
              /\ calls[c].count = conv.count
              /\ Len(messages) = conv.count + IF calls[c].pc = "count" THEN 1 ELSE 0

Assigned ==
    conv.assigned # None =>
        \/ docs[<<"participant", conv.assigned>>] > 0
        \/ "create" \in cut
        \/ \E c \in Calls : At(c, "create", "participant") /\ calls[c].x = conv.assigned

Tasks == \A c \in Calls : Shaped(calls[c]) /\ Task(calls[c]) /\ StillSo(calls[c])
DocInv ==
    /\ DocTypeOK /\ Tasks /\ Overlaps /\ OneCreate /\ Nobody
    /\ Unique /\ CountBounded /\ Counted /\ Assigned

------------------------------------------------------------------------------
(* The beginning of a request *)

LEMMA Kinds ==
    /\ KindOf("create") = "participant" /\ KindOf("assign") = "participant"
    /\ KindOf("newLabel") = "labelName" /\ KindOf("rename") = "labelName"
    /\ KindOf("send") = "send" /\ KindOf("draft") = "draft" /\ KindOf("identity") = "identity"
    /\ KindOf("undraft") = "undraft" /\ KindOf("unidentify") = "unidentify" /\ KindOf("idle") = "idle"
    /\ \A op : KindOf(op) = "idle" => op = "idle"
  BY DEF KindOf

LEMMA IdleCall ==
    ASSUME NEW k, k = Idle
    PROVE  /\ k.op = "idle" /\ k.pc = "idle" /\ k.labels = {} /\ k.count = 0
           /\ Shaped(k) /\ Task(k) /\ StillSo(k) /\ ~Inserting(k)
<1>1. k.op = "idle" /\ k.pc = "idle" /\ k.labels = {} /\ k.count = 0 /\ Shaped(k)
  BY DEF Idle, Shaped
<1> QED
  BY <1>1 DEF Task, StillSo, Inserting

LEMMA InitDocs == Init => DocInv
<1> SUFFICES ASSUME Init PROVE DocInv
  OBVIOUS
<1>1. DocTypeOK
  <2>1. PICK h \in BOOLEAN : conv = [here |-> h, status |-> "open", assigned |-> None, labels |-> {},
                                    count |-> 0, closed |-> FALSE]
    BY DEF Init
  <2>6. conv \in Conversation
    BY <2>1 DEF Conversation, Statuses
  <2>2. messages \in Seq(Message) /\ Len(messages) = 0
    BY EmptySeq DEF Init
  <2>3. customer \in Names \cup {None} /\ docs \in [Keys -> Nat]
    BY DEF Init
  <2>4. labels \in [LabelIds -> Label]
    BY DEF Init, Label
  <2>5. DOMAIN calls = Calls /\ \A c \in Calls : calls[c] = Idle
    BY DEF Init
  <2> QED
    BY <2>2, <2>3, <2>4, <2>5, <2>6, IdleCall DEF DocTypeOK, Init
<1>2. \A c \in Calls : calls[c] = Idle
  BY DEF Init
<1>3. Tasks
  BY <1>2, IdleCall DEF Tasks
<1>4. Overlaps /\ OneCreate
  BY <1>2 DEF Overlaps, OneCreate, Idle
<1>5. \A k \in Keys : docs[k] = 0
  BY DEF Init
<1>6. Nobody
  BY <1>5 DEF Nobody, Keys, Participant
<1>7. Unique
  BY <1>5 DEF Unique, Init
<1>8. CountBounded /\ Counted
  <2>1. conv.count = 0 /\ Len(messages) = 0
    BY DEF Init
  <2> QED
    BY <1>2, <2>1 DEF CountBounded, Counted, Idle, Counting, At
<1>9. Assigned
  BY DEF Init, Assigned
<1> QED
  BY <1>1, <1>3, <1>4, <1>6, <1>7, <1>8, <1>9 DEF DocInv

\* A request begins with a task, a fresh copy, and what it has looked up.
LEMMA BeginDocs ==
    ASSUME DocInv, NEW c \in Calls, NEW op, NEW x, NEW y, NEW pc, Begin(c, op, x, y, pc),
           op # "idle", op = "create" => \A d \in Calls : calls[d].op # "create",
           Task([op |-> op, x |-> x, y |-> y, labels |-> conv.labels, count |-> conv.count, pc |-> pc]),
           StillSo([op |-> op, x |-> x, y |-> y, labels |-> conv.labels, count |-> conv.count, pc |-> pc]),
           pc # "count", ~(op = "create" /\ pc = "participant")
    PROVE  DocInv'
<1> DEFINE k == [op |-> op, x |-> x, y |-> y, labels |-> conv.labels, count |-> conv.count, pc |-> pc]
<1>1. /\ DocTypeOK /\ Tasks /\ Overlaps /\ OneCreate /\ Nobody
      /\ Unique /\ CountBounded /\ Counted /\ Assigned
  BY DEF DocInv
<1>2. /\ calls[c] = Idle /\ DOMAIN calls = Calls
      /\ calls' = [calls EXCEPT ![c] = k]
      /\ UNCHANGED docVars /\ cut' = cut /\ started' \in 0 .. MaxCalls
      /\ crossed \subseteq crossed'
      /\ \A d \in Calls : KindOf(calls[d].op) = KindOf(op) => KindOf(op) \in crossed'
      /\ \A kind \in crossed' \ crossed : kind = KindOf(op)
  BY <1>1 DEF Begin, DocTypeOK
<1>3. k.op = op /\ k.x = x /\ k.labels = conv.labels /\ k.count = conv.count /\ k.pc = pc
  OBVIOUS
<1>4. calls'[c] = k /\ \A d \in Calls \ {c} : calls'[d] = calls[d]
  BY <1>2
<1>5. conv.count \in Nat /\ conv.labels \subseteq LabelIds
  BY <1>1 DEF DocTypeOK, Conversation
<1> HIDE DEF k
<1>6. DocTypeOK'
  BY <1>1, <1>2, <1>3, <1>4, <1>5 DEF DocTypeOK, docVars
<1>7. Tasks'
  <2>1. Shaped(k) /\ Task(k) /\ StillSo(k)
    BY DEF k, Shaped
  <2>2. Task(calls[c])' /\ StillSo(calls[c])'
    BY <1>2, <1>4, <2>1 DEF Task, StillSo, docVars, Named, Inserting, KeyOf
  <2>3. \A d \in Calls \ {c} : Task(calls[d])' /\ StillSo(calls[d])'
    BY <1>1, <1>2, <1>4 DEF Tasks, Task, StillSo, docVars, Named, Inserting, KeyOf
  <2> QED
    BY <1>1, <1>4, <2>1, <2>2, <2>3 DEF Tasks, Shaped
<1>8. Overlaps'
  BY <1>1, <1>2, <1>3, <1>4 DEF Overlaps
<1>9. OneCreate'
  BY <1>1, <1>3, <1>4 DEF OneCreate
<1>10. Nobody' /\ Unique'
  BY <1>1, <1>2 DEF Nobody, Unique, docVars, Named
<1>11. CountBounded'
  BY <1>1, <1>2, <1>3, <1>4 DEF CountBounded, docVars, Counting, At
<1>12. Counted'
  BY <1>1, <1>2, <1>3, <1>4 DEF Counted, docVars, Overlaps, KindOf, Idle, CountBounded
<1>13. Assigned'
  BY <1>1, <1>2, <1>3, <1>4 DEF Assigned, docVars, At, Idle
<1> QED
  BY <1>6, <1>7, <1>8, <1>9, <1>10, <1>11, <1>12, <1>13 DEF DocInv

------------------------------------------------------------------------------
(* The end of one *)

\* A call returns, having changed nothing another call has looked up.
LEMMA ReturnDocs ==
    ASSUME DocInv, NEW c \in Calls, calls' = [calls EXCEPT ![c] = Idle],
           crossed' = crossed, started' = started, cut \subseteq cut', docs' = docs,
           customer' \in Names \cup {None},
           conv' \in Conversation, conv'.here = conv.here, conv'.count = conv.count,
           conv'.assigned \notin {conv.assigned, None} => docs[<<"participant", conv'.assigned>>] > 0,
           messages' \in Seq(Message), Len(messages') = Len(messages),
           labels' \in [LabelIds -> Label], \A l \in LabelIds : labels'[l].name = labels[l].name,
           calls[c].op = "send" => "send" \in cut',
           At(c, "create", "participant") =>
               "create" \in cut' \/ docs[<<"participant", calls[c].x>>] > 0
    PROVE  DocInv'
<1>1. /\ DocTypeOK /\ Tasks /\ Overlaps /\ OneCreate /\ Nobody
      /\ Unique /\ CountBounded /\ Counted /\ Assigned
  BY DEF DocInv
<1>2. /\ DOMAIN calls = Calls /\ calls'[c] = Idle
      /\ \A d \in Calls \ {c} : calls'[d] = calls[d]
  BY <1>1 DEF DocTypeOK
<1>3. Idle.op = "idle" /\ Idle.pc = "idle" /\ Idle.labels = {} /\ Idle.count = 0
  BY IdleCall
<1>4. DocTypeOK'
  BY <1>1, <1>2, <1>3 DEF DocTypeOK
<1>5. \A n : Named(n)' = Named(n)
  BY DEF Named
<1>6. Tasks'
  <2>1. Shaped(calls'[c]) /\ Task(calls[c])' /\ StillSo(calls[c])'
    BY <1>2, <1>3, IdleCall DEF Task, StillSo, Inserting
  <2>2. \A d \in Calls \ {c} : Shaped(calls[d]) /\ Task(calls[d]) /\ StillSo(calls[d])
    BY <1>1 DEF Tasks
  <2>3. \A d \in Calls \ {c} : Task(calls[d])'
    BY <1>2, <2>2 DEF Task
  <2>4. \A d \in Calls \ {c} : StillSo(calls[d])'
    BY <1>2, <1>5, <2>2 DEF StillSo, Inserting, KeyOf
  <2> QED
    BY <1>2, <2>1, <2>2, <2>3, <2>4 DEF Tasks, Shaped
<1>7. Overlaps'
  BY <1>1, <1>2, <1>3, Kinds, IdleCall DEF Overlaps
<1>8. OneCreate' /\ Nobody'
  BY <1>1, <1>2, <1>3 DEF OneCreate, Nobody
<1>9. Unique'
  BY <1>1, <1>5 DEF Unique
<1>10. CountBounded'
  <2>1. Len(messages) \in Nat
    BY <1>1, LenProperties DEF DocTypeOK
  <2> QED
    BY <1>1, <1>2, <1>3, <2>1 DEF CountBounded, Counting, At
<1>11. Counted'
  BY <1>1, <1>2, <1>3 DEF Counted
<1>12. Assigned'
  <2> SUFFICES ASSUME conv'.assigned # None, docs[<<"participant", conv'.assigned>>] <= 0,
                      "create" \notin cut'
               PROVE  \E d \in Calls : At(d, "create", "participant")' /\ calls'[d].x = conv'.assigned
    <3>1. conv'.assigned # None => docs[<<"participant", conv'.assigned>>] \in Nat
      <4>1. conv'.assigned # None => <<"participant", conv'.assigned>> \in Keys
        BY DEF Conversation, Keys, Participant
      <4> QED
        BY <1>1, <4>1 DEF DocTypeOK
    <3> QED
      BY <3>1 DEF Assigned
  <2>1. conv'.assigned = conv.assigned
    <3>1. docs[<<"participant", conv'.assigned>>] \in Nat
      BY <1>1 DEF DocTypeOK, Conversation, Keys, Participant
    <3> QED
      BY <3>1
  <2>2. docs[<<"participant", conv.assigned>>] \in Nat
    BY <1>1, <2>1 DEF DocTypeOK, Conversation, Keys, Participant
  <2>3. PICK d \in Calls : At(d, "create", "participant") /\ calls[d].x = conv.assigned
    BY <1>1, <2>1, <2>2 DEF Assigned
  <2>4. d # c
    BY <2>1, <2>2, <2>3
  <2> QED
    BY <1>2, <2>1, <2>3, <2>4 DEF At
<1> QED
  BY <1>4, <1>6, <1>7, <1>8, <1>9, <1>10, <1>11, <1>12 DEF DocInv

\* The keys a task is about are keys of documents.
LEMMA TaskKeys ==
    ASSUME DocInv, NEW c \in Calls
    PROVE  /\ Inserting(calls[c]) => KeyOf(calls[c]) \in Keys
           /\ calls[c].op = "unidentify" => <<"identity", calls[c].x>> \in Keys
           /\ calls[c].op = "undraft" => <<"draft", calls[c].x>> \in Keys
<1>1. Task(calls[c])
  BY DEF DocInv, Tasks
<1>2. /\ calls[c].op = "identity" => calls[c].x \in Providers
      /\ calls[c].op \in {"draft", "assign", "undraft"} => calls[c].x \in Members
      /\ calls[c].op = "create" /\ calls[c].pc = "participant" => calls[c].x \in Members
      /\ calls[c].op = "unidentify" => calls[c].x \in Providers
  BY <1>1, IdleCall DEF Task
<1> QED
  BY <1>2, Kinds DEF Inserting, KeyOf, Keys, Participant, Draft, CustomerIdentity

\* A call inserts what it has not found, and returns or, an assignment, goes on.
LEMMA InsertDocs ==
    ASSUME DocInv, NEW c \in Calls, Inserting(calls[c]),
           NEW next \in {"return", "write"}, next = "write" <=> calls[c].op = "assign",
           InsertFor(c, KeyOf(calls[c]), next)
    PROVE  DocInv'
<1> DEFINE key == KeyOf(calls[c])
           kind == KindOf(calls[c].op)
<1>1. /\ DocTypeOK /\ Tasks /\ Overlaps /\ OneCreate /\ Nobody
      /\ Unique /\ CountBounded /\ Counted /\ Assigned
  BY DEF DocInv
<1>2. key \in Keys /\ docs[key] \in Nat /\ key[1] = kind /\ key = <<kind, calls[c].x>>
  BY <1>1, TaskKeys DEF KeyOf, DocTypeOK
<1>3. /\ crossed' = crossed /\ started' = started /\ cut' = cut
      /\ customer' = customer /\ conv' = conv /\ messages' = messages /\ labels' = labels
  BY DEF InsertFor, History
<1>4. calls[c].op # "send" /\ calls[c].op # "idle"
  BY DEF Inserting
<1>7. Task(calls[c]) /\ StillSo(calls[c])
  BY <1>1 DEF Tasks
<1>5. CASE Refused(kind, docs[key] > 0)
  <2>1. docs' = docs /\ calls' = [calls EXCEPT ![c] = Idle] /\ docs[key] > 0
    BY <1>2, <1>5 DEF InsertFor, Return, Refused
  <2>2. At(c, "create", "participant") => docs[<<"participant", calls[c].x>>] > 0
    BY <1>2, <2>1, Kinds DEF At
  <2>3. /\ customer \in Names \cup {None} /\ conv \in Conversation
        /\ messages \in Seq(Message) /\ labels \in [LabelIds -> Label]
    BY <1>1 DEF DocTypeOK
  <2> QED
    BY <1>3, <1>4, <2>1, <2>2, <2>3, ReturnDocs
<1>6. CASE ~Refused(kind, docs[key] > 0)
  <2>1. docs' = [docs EXCEPT ![key] = @ + 1]
    BY <1>2, <1>6 DEF InsertFor, Insert
  <2>2. /\ docs'[key] = docs[key] + 1 /\ DOMAIN docs = Keys
        /\ \A k \in Keys \ {key} : docs'[k] = docs[k]
        /\ docs' \in [Keys -> Nat]
    BY <1>1, <1>2, <2>1 DEF DocTypeOK
  <2>3. ASSUME NEW k \in Keys PROVE docs[k] \in Nat /\ docs'[k] >= docs[k]
    <3>1. docs[k] \in Nat
      BY <1>1 DEF DocTypeOK
    <3> QED
      BY <2>2, <3>1
  <2>4. calls' = [calls EXCEPT ![c] = IF next = "return" THEN Idle ELSE [calls[c] EXCEPT !.pc = next]]
    BY <1>2, <1>6 DEF InsertFor, Return, Goto
  <2>5. DOMAIN calls = Calls /\ \A d \in Calls \ {c} : calls'[d] = calls[d]
    BY <1>1, <2>4 DEF DocTypeOK
  <2>6. next = "return" => calls'[c] = Idle
    BY <2>4, <2>5
  <2>7. next = "write" =>
            /\ calls'[c] = [calls[c] EXCEPT !.pc = "write"]
            /\ Shaped(calls'[c]) /\ calls'[c].op = "assign" /\ calls'[c].x = calls[c].x
            /\ calls'[c].pc = "write" /\ calls'[c].labels = calls[c].labels
            /\ calls'[c].count = calls[c].count
    BY <1>1, <2>4, <2>5 DEF Tasks, Shaped
  <2>8. \A n : Named(n)' = Named(n)
    BY <1>3 DEF Named
  <2>9. DocTypeOK'
    BY <1>1, <1>3, <2>2, <2>4, <2>5, <2>6, <2>7, IdleCall DEF DocTypeOK
  <2>10. \A m \in Members : <<"participant", m>> \in Keys
    BY DEF Keys, Participant
  <2>11. Tasks'
    <3>1. \A d \in Calls \ {c} : Shaped(calls[d])' /\ Task(calls[d])'
      BY <1>1, <1>3, <2>5 DEF Tasks, Task, Shaped
    <3>2. ASSUME NEW d \in Calls \ {c} PROVE StillSo(calls[d])'
      <4>1. StillSo(calls[d]) /\ calls'[d] = calls[d] /\ Task(calls[d])
        BY <1>1, <2>5 DEF Tasks
      <4>2. Inserting(calls[d]) /\ KindOf(calls[d].op) \notin crossed =>
                KeyOf(calls[d]) \in Keys \ {key}
        BY <1>1, <1>4, TaskKeys DEF Overlaps, KeyOf
      <4>3. calls[d].op = "assign" /\ calls[d].pc = "write" => calls[d].x \in Members
        BY <4>1, IdleCall DEF Task
      <4> QED
        BY <1>3, <2>2, <2>3, <2>8, <2>10, <4>1, <4>2, <4>3 DEF StillSo, Inserting, KeyOf
    <3>3. Shaped(calls'[c]) /\ Task(calls[c])' /\ StillSo(calls[c])'
      <4>1. CASE next = "return"
        BY <2>6, <4>1, IdleCall DEF Task, StillSo, Inserting
      <4>2. CASE next = "write"
        <5>1. calls[c].op = "assign" /\ kind = "participant" /\ calls[c].x \in Members
          BY <1>7, <4>2, Kinds, IdleCall DEF Task
        <5>2. Task(calls[c])'
          BY <2>7, <4>2, <5>1 DEF Task
        <5>3. StillSo(calls[c])'
          BY <1>2, <1>3, <1>7, <2>2, <2>7, <4>2, <5>1 DEF StillSo, Inserting
        <5> QED
          BY <2>7, <4>2, <5>2, <5>3
      <4> QED
        BY <4>1, <4>2
    <3> QED
      BY <3>1, <3>2, <3>3 DEF Tasks, Shaped
  <2>12. Overlaps' /\ OneCreate'
    <3>1. calls'[c].op \in {calls[c].op, "idle"}
      BY <2>6, <2>7, IdleCall
    <3> QED
      BY <1>1, <1>3, <2>5, <3>1, Kinds DEF Overlaps, OneCreate
  <2>13. Nobody'
    <3>1. kind = "participant" => conv.here
      <4>1. kind = "participant" => calls[c].op \notin {"identity", "draft"}
        BY Kinds
      <4> QED
        BY <1>7, <4>1 DEF StillSo, Inserting
    <3>2. \A m \in Members : <<"participant", m>> = key => kind = "participant"
      BY <1>2
    <3> QED
      BY <1>1, <1>3, <2>2, <2>10, <3>1, <3>2 DEF Nobody
  <2>14. Unique'
    <3>1. kind \in Indexed \/ kind \notin crossed => docs[key] = 0
      BY <1>2, <1>6, <1>7 DEF Refused, StillSo
    <3> QED
      BY <1>1, <1>2, <1>3, <2>2, <2>8, <3>1 DEF Unique
  <2>15. CountBounded' /\ Counted'
    <3>1. ~Counting(c)' /\ calls'[c].op # "send"
      BY <2>6, <2>7, IdleCall DEF Counting, At
    <3>2. calls'[c].count <= Len(messages)
      <4>1. Len(messages) \in Nat
        BY <1>1, LenProperties DEF DocTypeOK
      <4> QED
        BY <1>1, <2>6, <2>7, <4>1, IdleCall DEF CountBounded
    <3> QED
      BY <1>1, <1>3, <1>4, <2>5, <3>1, <3>2 DEF CountBounded, Counted, Counting, At
  <2>16. Assigned'
    <3> SUFFICES ASSUME conv.assigned # None, "create" \notin cut,
                        ~(docs'[<<"participant", conv.assigned>>] > 0)
                 PROVE  \E d \in Calls : At(d, "create", "participant")' /\ calls'[d].x = conv.assigned
      BY <1>3 DEF Assigned
    <3>1. conv.assigned \in Members /\ <<"participant", conv.assigned>> \in Keys
      BY <1>1, <2>10 DEF DocTypeOK, Conversation
    <3>2. ~(docs[<<"participant", conv.assigned>>] > 0)
      BY <2>2, <2>3, <3>1
    <3>3. PICK d \in Calls : At(d, "create", "participant") /\ calls[d].x = conv.assigned
      BY <1>1, <3>2 DEF Assigned
    <3>4. d # c
      <4>1. d = c => key = <<"participant", conv.assigned>>
        BY <1>2, <3>3, Kinds DEF At
      <4> QED
        BY <1>2, <2>2, <4>1
    <3> QED
      BY <2>5, <3>3, <3>4 DEF At
  <2> QED
    BY <2>9, <2>11, <2>12, <2>13, <2>14, <2>15, <2>16 DEF DocInv
<1> QED
  BY <1>5, <1>6

\* A call removes an identity or a draft.
LEMMA DeleteDocs ==
    ASSUME DocInv, NEW c \in Calls, NEW key \in Keys, key[1] # "participant",
           docs' = [docs EXCEPT ![key] = IF @ = 0 THEN 0 ELSE @ - 1],
           calls' = [calls EXCEPT ![c] = Idle], calls[c].op # "send", calls[c].op # "create",
           crossed' = crossed, started' = started, cut' = cut,
           UNCHANGED <<customer, conv, messages, labels>>
    PROVE  DocInv'
<1>1. /\ DocTypeOK /\ Tasks /\ Overlaps /\ OneCreate /\ Nobody
      /\ Unique /\ CountBounded /\ Counted /\ Assigned
  BY DEF DocInv
<1>2. /\ DOMAIN calls = Calls /\ calls'[c] = Idle
      /\ \A d \in Calls \ {c} : calls'[d] = calls[d]
  BY <1>1 DEF DocTypeOK
<1>3. Idle.op = "idle" /\ Idle.pc = "idle" /\ Idle.labels = {} /\ Idle.count = 0
  BY IdleCall
<1>4. docs \in [Keys -> Nat] /\ docs' \in [Keys -> Nat]
  BY <1>1 DEF DocTypeOK
<1>5. ASSUME NEW k \in Keys
      PROVE  docs'[k] <= docs[k] /\ docs[k] \in Nat /\ docs'[k] \in Nat
  BY <1>4
<1>6. \A m \in Members : <<"participant", m>> \in Keys
                           /\ docs'[<<"participant", m>>] = docs[<<"participant", m>>]
  <2>1. \A m \in Members : <<"participant", m>> \in Keys /\ <<"participant", m>> # key
    BY DEF Keys, Participant
  <2> QED
    BY <1>4, <2>1
<1>7. DocTypeOK'
  BY <1>1, <1>2, <1>3, <1>4 DEF DocTypeOK
<1>8. \A n : Named(n)' = Named(n)
  BY DEF Named
<1>9. Tasks'
  <2>1. Shaped(calls'[c]) /\ Task(calls[c])' /\ StillSo(calls[c])'
    BY <1>2, <1>3, IdleCall DEF Task, StillSo, Inserting
  <2>2. \A d \in Calls \ {c} : Shaped(calls[d])' /\ Task(calls[d])'
    BY <1>1, <1>2 DEF Tasks, Task, Shaped
  <2>3. ASSUME NEW d \in Calls \ {c} PROVE StillSo(calls[d])'
    <3>1. StillSo(calls[d]) /\ calls'[d] = calls[d] /\ Task(calls[d])
      BY <1>1, <1>2 DEF Tasks
    <3>2. Inserting(calls[d]) => KeyOf(calls[d]) \in Keys
      BY TaskKeys
    <3>3. calls[d].op = "assign" => calls[d].x \in Members
      BY <3>1, IdleCall DEF Task
    <3>4. Inserting(calls[d]) /\ docs[KeyOf(calls[d])] = 0 => docs'[KeyOf(calls[d])] = 0
      BY <1>5, <3>2
    <3> QED
      BY <1>6, <1>8, <3>1, <3>3, <3>4 DEF StillSo, Inserting, KeyOf
  <2> QED
    BY <1>2, <2>1, <2>2, <2>3 DEF Tasks
<1>10. Overlaps' /\ OneCreate'
  BY <1>1, <1>2, <1>3, Kinds DEF Overlaps, OneCreate
<1>11. Nobody'
  BY <1>1, <1>6 DEF Nobody
<1>12. Unique'
  <2>1. \A k \in Keys : (k[1] \in Indexed \/ k[1] \notin crossed) => docs'[k] <= 1
    BY <1>1, <1>5 DEF Unique
  <2> QED
    BY <1>1, <1>8, <2>1 DEF Unique
<1>13. CountBounded' /\ Counted'
  <2>1. Len(messages) \in Nat
    BY <1>1, LenProperties DEF DocTypeOK
  <2> QED
    BY <1>1, <1>2, <1>3, <2>1 DEF CountBounded, Counted, Counting, At
<1>14. Assigned'
  <2>1. conv.assigned # None => conv.assigned \in Members
    BY <1>1 DEF DocTypeOK, Conversation
  <2>2. \A d \in Calls : At(d, "create", "participant") => At(d, "create", "participant")' /\ calls'[d].x = calls[d].x
    BY <1>2 DEF At
  <2> QED
    BY <1>1, <1>6, <2>1, <2>2 DEF Assigned
<1> QED
  BY <1>7, <1>9, <1>10, <1>11, <1>12, <1>13, <1>14 DEF DocInv

\* The conversation is inserted, with its assignee if it has one.
LEMMA InsertConversationDocs == ASSUME DocInv, NEW c \in Calls, InsertConversation(c) PROVE DocInv'
<1>1. /\ DocTypeOK /\ Tasks /\ Overlaps /\ OneCreate /\ Nobody
      /\ Unique /\ CountBounded /\ Counted /\ Assigned
  BY DEF DocInv
<1>2. /\ calls[c].op = "create" /\ calls[c].pc = "insert" /\ ~conv.here
      /\ calls[c].x \in Members \cup {None} /\ Shaped(calls[c])
  <2>1. Task(calls[c]) /\ StillSo(calls[c]) /\ Shaped(calls[c])
    BY <1>1 DEF Tasks
  <2> QED
    BY <2>1, IdleCall DEF InsertConversation, At, Task, StillSo
<1> DEFINE k == IF calls[c].x = None THEN Idle ELSE [calls[c] EXCEPT !.pc = "participant"]
<1>3. /\ calls' = [calls EXCEPT ![c] = k] /\ DOMAIN calls = Calls
      /\ crossed' = crossed /\ started' = started /\ cut' = cut
      /\ UNCHANGED <<customer, messages, docs, labels>>
  BY <1>1 DEF InsertConversation, Return, Goto, History, DocTypeOK
<1>4. /\ conv' \in Conversation /\ conv'.here = TRUE /\ conv'.assigned = calls[c].x
      /\ conv'.count = conv.count
  BY <1>1, <1>2 DEF InsertConversation, Set, DocTypeOK, Conversation
<1>5. /\ k.op \in {"idle", "create"} /\ k.op = "idle" <=> k = Idle
      /\ calls[c].x = None => k = Idle
      /\ calls[c].x # None => /\ k.op = "create" /\ k.pc = "participant" /\ k.x = calls[c].x
                              /\ k.labels = calls[c].labels /\ k.count = calls[c].count
      /\ Shaped(k)
  BY <1>2, IdleCall DEF Shaped
<1>6. calls'[c] = k /\ \A d \in Calls \ {c} : calls'[d] = calls[d]
  BY <1>3
<1> HIDE DEF k
<1>7. DocTypeOK'
  BY <1>1, <1>3, <1>4, <1>5, <1>6, IdleCall DEF DocTypeOK
<1>8. \A n : Named(n)' = Named(n)
  BY <1>3 DEF Named
<1>9. Tasks'
  <2>1. \A d \in Calls \ {c} : Shaped(calls[d])' /\ Task(calls[d])'
    BY <1>1, <1>3, <1>6 DEF Tasks, Task, Shaped
  <2>2. ASSUME NEW d \in Calls \ {c} PROVE StillSo(calls[d])'
    <3>1. StillSo(calls[d]) /\ calls'[d] = calls[d] /\ calls[d].op # "create"
      BY <1>1, <1>2, <1>6 DEF Tasks, OneCreate
    <3> QED
      BY <1>3, <1>4, <1>8, <3>1 DEF StillSo, Inserting, KeyOf
  <2>3. Shaped(calls'[c]) /\ Task(calls[c])' /\ StillSo(calls[c])'
    <3>1. CASE calls[c].x = None
      BY <1>5, <1>6, <3>1, IdleCall DEF Task, StillSo, Inserting
    <3>2. CASE calls[c].x # None
      <4>1. docs[<<"participant", calls[c].x>>] = 0
        BY <1>1, <1>2, <3>2 DEF Nobody
      <4> QED
        BY <1>2, <1>3, <1>4, <1>5, <1>6, <3>2, <4>1, Kinds DEF Task, StillSo, KeyOf
    <3> QED
      BY <3>1, <3>2
  <2> QED
    BY <2>1, <2>2, <2>3 DEF Tasks, Shaped
<1>10. Overlaps' /\ OneCreate'
  BY <1>1, <1>2, <1>3, <1>5, <1>6, Kinds DEF Overlaps, OneCreate
<1>11. Nobody' /\ Unique'
  BY <1>1, <1>3, <1>4, <1>8 DEF Nobody, Unique
<1>12. CountBounded' /\ Counted'
  <2>1. Len(messages) \in Nat
    BY <1>1, LenProperties DEF DocTypeOK
  <2>2. k.count <= Len(messages) /\ ~Counting(c)' /\ k.op # "send"
    BY <1>1, <1>5, <1>6, <2>1, IdleCall DEF CountBounded, Counting, At
  <2> QED
    BY <1>1, <1>2, <1>3, <1>4, <1>6, <2>2 DEF CountBounded, Counted, Counting, At
<1>13. Assigned'
  BY <1>4, <1>5, <1>6 DEF Assigned, At
<1> QED
  BY <1>7, <1>9, <1>10, <1>11, <1>12, <1>13 DEF DocInv

\* A message is there before it is counted.
LEMMA InsertMessageDocs == ASSUME DocInv, NEW c \in Calls, InsertMessage(c) PROVE DocInv'
<1>1. /\ DocTypeOK /\ Tasks /\ Overlaps /\ OneCreate /\ Nobody
      /\ Unique /\ CountBounded /\ Counted /\ Assigned
  BY DEF DocInv
<1>2. calls[c].op = "send" /\ calls[c].pc = "insert" /\ calls[c].x \in Members /\ Shaped(calls[c])
  <2>1. Task(calls[c]) /\ Shaped(calls[c])
    BY <1>1 DEF Tasks
  <2> QED
    BY <2>1, IdleCall DEF InsertMessage, At, Task
<1>3. /\ calls' = [calls EXCEPT ![c].pc = "count"] /\ DOMAIN calls = Calls
      /\ crossed' = crossed /\ started' = started /\ cut' = cut
      /\ UNCHANGED <<customer, conv, docs, labels>>
  BY <1>1 DEF InsertMessage, Goto, History, DocTypeOK
<1>4. /\ messages' \in Seq(Message) /\ Len(messages) \in Nat /\ Len(messages') = Len(messages) + 1
  <2>1. [by |-> calls[c].x, edited |-> FALSE, deleted |-> FALSE] \in Message
    BY <1>2 DEF Message
  <2> QED
    BY <1>1, <2>1, AppendProperties, LenProperties DEF InsertMessage, DocTypeOK
<1>5. /\ calls'[c].op = "send" /\ calls'[c].pc = "count" /\ calls'[c].x = calls[c].x
      /\ calls'[c].labels = calls[c].labels /\ calls'[c].count = calls[c].count /\ Shaped(calls'[c])
  BY <1>2, <1>3 DEF Shaped
<1>6. \A d \in Calls \ {c} : calls'[d] = calls[d]
  BY <1>3
<1>7. DocTypeOK'
  BY <1>1, <1>3, <1>4, <1>5, <1>6 DEF DocTypeOK
<1>8. \A n : Named(n)' = Named(n)
  BY <1>3 DEF Named
<1>9. Tasks'
  <2>1. \A d \in Calls \ {c} : Shaped(calls[d])' /\ Task(calls[d])'
    BY <1>1, <1>3, <1>4, <1>6 DEF Tasks, Task, Shaped
  <2>2. \A d \in Calls \ {c} : StillSo(calls[d])'
    BY <1>1, <1>3, <1>6, <1>8 DEF Tasks, StillSo, Inserting, KeyOf
  <2>3. Shaped(calls'[c]) /\ Task(calls[c])' /\ StillSo(calls[c])'
    BY <1>2, <1>5 DEF Task, StillSo, Inserting
  <2> QED
    BY <2>1, <2>2, <2>3 DEF Tasks, Shaped
<1>10. Overlaps' /\ OneCreate'
  BY <1>1, <1>2, <1>3, <1>5, <1>6 DEF Overlaps, OneCreate
<1>11. Nobody' /\ Unique'
  BY <1>1, <1>3, <1>8 DEF Nobody, Unique
<1>12. CountBounded'
  <2>1. conv.count \in Nat /\ \A d \in Calls : calls[d].count \in Nat
    BY <1>1 DEF DocTypeOK, Conversation
  <2> QED
    BY <1>1, <1>3, <1>4, <1>5, <1>6, <2>1 DEF CountBounded, Counting, At
<1>13. Counted'
  <2> SUFFICES ASSUME "send" \notin crossed \cup cut
               PROVE  /\ calls'[c].count = conv.count /\ Len(messages') = conv.count + 1
                      /\ \A d \in Calls \ {c} : calls'[d].op # "send"
    BY <1>3, <1>5 DEF Counted
  <2>1. \A d \in Calls \ {c} : calls'[d].op # "send"
    BY <1>1, <1>2, <1>6, Kinds DEF Overlaps
  <2>2. calls[c].count = conv.count /\ Len(messages) = conv.count + IF calls[c].pc = "count" THEN 1 ELSE 0
    BY <1>1, <1>2 DEF Counted
  <2>3. conv.count \in Nat
    BY <1>1 DEF DocTypeOK, Conversation
  <2>4. Len(messages) = conv.count
    BY <1>2, <2>2, <2>3
  <2> QED
    BY <1>4, <1>5, <2>1, <2>2, <2>4
<1>14. Assigned'
  BY <1>1, <1>2, <1>3, <1>5, <1>6 DEF Assigned, At
<1> QED
  BY <1>7, <1>9, <1>10, <1>11, <1>12, <1>13, <1>14 DEF DocInv

\* Then the counter becomes what it was when the call began, plus one.
LEMMA CountMessageDocs == ASSUME DocInv, NEW c \in Calls, CountMessage(c) PROVE DocInv'
<1>1. /\ DocTypeOK /\ Tasks /\ Overlaps /\ OneCreate /\ Nobody
      /\ Unique /\ CountBounded /\ Counted /\ Assigned
  BY DEF DocInv
<1>2. /\ calls[c].op = "send" /\ calls[c].pc = "count" /\ Counting(c)
      /\ calls' = [calls EXCEPT ![c] = Idle] /\ DOMAIN calls = Calls
      /\ crossed' = crossed /\ started' = started /\ cut' = cut
      /\ UNCHANGED <<customer, messages, docs, labels>>
  BY <1>1 DEF CountMessage, SetAndReturn, Written, At, Return, History, DocTypeOK, Counting
<1>3. calls[c].count \in Nat /\ Len(messages) \in Nat
  BY <1>1, LenProperties DEF DocTypeOK
<1>4. /\ conv' \in Conversation /\ conv'.count = calls[c].count + 1
      /\ conv'.here = conv.here /\ conv'.assigned = conv.assigned
  BY <1>1, <1>3 DEF CountMessage, SetAndReturn, Written, Set, DocTypeOK, Conversation
<1>5. calls'[c] = Idle /\ \A d \in Calls \ {c} : calls'[d] = calls[d]
  BY <1>2
<1>6. Idle.op = "idle" /\ Idle.pc = "idle" /\ Idle.labels = {} /\ Idle.count = 0
  BY IdleCall
<1>7. DocTypeOK'
  BY <1>1, <1>2, <1>4, <1>5, <1>6 DEF DocTypeOK
<1>8. \A n : Named(n)' = Named(n)
  BY <1>2 DEF Named
<1>9. Tasks'
  <2>1. \A d \in Calls \ {c} : Shaped(calls[d])' /\ Task(calls[d])'
    BY <1>1, <1>2, <1>5 DEF Tasks, Task, Shaped
  <2>2. \A d \in Calls \ {c} : StillSo(calls[d])'
    BY <1>1, <1>2, <1>4, <1>5, <1>8 DEF Tasks, StillSo, Inserting, KeyOf
  <2>3. Shaped(calls'[c]) /\ Task(calls[c])' /\ StillSo(calls[c])'
    BY <1>5, IdleCall DEF Task, StillSo, Inserting
  <2> QED
    BY <2>1, <2>2, <2>3 DEF Tasks, Shaped
<1>10. Overlaps' /\ OneCreate'
  BY <1>1, <1>2, <1>5, <1>6, Kinds DEF Overlaps, OneCreate
<1>11. Nobody' /\ Unique'
  BY <1>1, <1>2, <1>4, <1>8 DEF Nobody, Unique
<1>12. CountBounded'
  BY <1>1, <1>2, <1>3, <1>4, <1>5, <1>6 DEF CountBounded, Counting, At
<1>13. Counted'
  <2> SUFFICES ASSUME "send" \notin crossed \cup cut
               PROVE  Len(messages) = conv'.count /\ \A d \in Calls : calls'[d].op # "send"
    BY <1>2 DEF Counted
  <2>1. \A d \in Calls \ {c} : calls[d].op # "send"
    BY <1>1, <1>2, Kinds DEF Overlaps
  <2> QED
    BY <1>1, <1>2, <1>4, <1>5, <1>6, <2>1 DEF Counted
<1>14. Assigned'
  BY <1>1, <1>2, <1>4, <1>5, <1>6 DEF Assigned, At
<1> QED
  BY <1>7, <1>9, <1>10, <1>11, <1>12, <1>13, <1>14 DEF DocInv

\* What the index, or the answer to the lookup, says of the names of the labels.
LEMMA LabelDocs ==
    ASSUME DocInv, NEW c \in Calls, KindOf(calls[c].op) = "labelName",
           calls' = [calls EXCEPT ![c] = Idle], crossed' = crossed, started' = started, cut' = cut,
           UNCHANGED <<customer, conv, messages, docs>>,
           NEW i \in LabelIds, NEW n \in Names, labels' \in [LabelIds -> Label],
           labels'[i].name = n, \A l \in LabelIds \ {i} : labels'[l].name = labels[l].name,
           "labelName" \in Indexed \/ "labelName" \notin crossed => Named(n) \subseteq {i}
    PROVE  DocInv'
<1>1. /\ DocTypeOK /\ Tasks /\ Overlaps /\ OneCreate /\ Nobody
      /\ Unique /\ CountBounded /\ Counted /\ Assigned
  BY DEF DocInv
<1>2. /\ DOMAIN calls = Calls /\ calls'[c] = Idle
      /\ \A d \in Calls \ {c} : calls'[d] = calls[d]
  BY <1>1 DEF DocTypeOK
<1>3. Idle.op = "idle" /\ Idle.pc = "idle" /\ Idle.labels = {} /\ Idle.count = 0
  BY IdleCall
<1>4. calls[c].op \notin {"send", "create", "idle"}
  BY Kinds
<1>5. DocTypeOK'
  BY <1>1, <1>2, <1>3 DEF DocTypeOK
<1>6. Tasks'
  <2>1. \A d \in Calls \ {c} : Shaped(calls[d])' /\ Task(calls[d])'
    BY <1>1, <1>2 DEF Tasks, Task, Shaped
  <2>2. ASSUME NEW d \in Calls \ {c} PROVE StillSo(calls[d])'
    <3>1. calls[d].op \in {"newLabel", "rename"} => "labelName" \in crossed
      BY <1>1, <1>4, Kinds DEF Overlaps
    <3>2. StillSo(calls[d]) /\ calls'[d] = calls[d]
      BY <1>1, <1>2 DEF Tasks
    <3> QED
      BY <3>1, <3>2 DEF StillSo, Inserting, KeyOf
  <2>3. Shaped(calls'[c]) /\ Task(calls[c])' /\ StillSo(calls[c])'
    BY <1>2, IdleCall DEF Task, StillSo, Inserting
  <2> QED
    BY <2>1, <2>2, <2>3 DEF Tasks, Shaped
<1>7. Overlaps' /\ OneCreate'
  BY <1>1, <1>2, <1>3, Kinds DEF Overlaps, OneCreate
<1>8. Nobody'
  BY <1>1 DEF Nobody
<1>9. Unique'
  <2>1. ASSUME "labelName" \in Indexed \/ "labelName" \notin crossed, NEW m \in Names,
               NEW l \in Named(m)', NEW k \in Named(m)'
        PROVE  l = k
    <3>1. Named(n) \subseteq {i} /\ \A a, b \in Named(m) : a = b
      BY <1>1, <2>1 DEF Unique
    <3> QED
      BY <2>1, <3>1 DEF Named
  <2> QED
    BY <1>1, <2>1 DEF Unique
<1>10. CountBounded' /\ Counted'
  <2>1. Len(messages) \in Nat
    BY <1>1, LenProperties DEF DocTypeOK
  <2> QED
    BY <1>1, <1>2, <1>3, <1>4, <2>1 DEF CountBounded, Counted, Counting, At
<1>11. Assigned'
  BY <1>1, <1>2, <1>3, <1>4 DEF Assigned, At
<1> QED
  BY <1>5, <1>6, <1>7, <1>8, <1>9, <1>10, <1>11 DEF DocInv

LEMMA InsertLabelDocs == ASSUME DocInv, NEW c \in Calls, InsertLabel(c) PROVE DocInv'
<1>1. DocTypeOK /\ Task(calls[c]) /\ StillSo(calls[c])
  BY DEF DocInv, Tasks
<1>2. /\ calls[c].op = "newLabel" /\ calls[c].x \in Names
      /\ calls' = [calls EXCEPT ![c] = Idle] /\ crossed' = crossed /\ started' = started /\ cut' = cut
      /\ UNCHANGED <<customer, conv, messages, docs>>
  BY <1>1, IdleCall DEF InsertLabel, At, Return, History, Task
<1>3. CASE labels' = labels
  BY <1>1, <1>2, <1>3, ReturnDocs DEF DocTypeOK, At
<1>4. CASE labels' # labels
  <2>1. PICK i \in LabelIds : /\ ~Refused("labelName", Named(calls[c].x) # {})
                              /\ labels' = [labels EXCEPT ![i] = [name |-> calls[c].x, deleted |-> FALSE]]
    BY <1>4 DEF InsertLabel
  <2>2. labels' \in [LabelIds -> Label] /\ labels'[i].name = calls[c].x
    BY <1>1, <1>2, <2>1 DEF DocTypeOK, Label
  <2>3. \A l \in LabelIds \ {i} : labels'[l].name = labels[l].name
    BY <1>1, <2>1 DEF DocTypeOK
  <2>4. "labelName" \in Indexed \/ "labelName" \notin crossed => Named(calls[c].x) \subseteq {i}
    BY <1>1, <1>2, <2>1 DEF Refused, StillSo
  <2> QED
    BY <1>2, <2>2, <2>3, <2>4, Kinds, LabelDocs
<1> QED
  BY <1>3, <1>4

LEMMA WriteLabelDocs == ASSUME DocInv, NEW c \in Calls, WriteLabel(c) PROVE DocInv'
<1>1. DocTypeOK /\ Task(calls[c]) /\ StillSo(calls[c])
  BY DEF DocInv, Tasks
<1>2. /\ calls[c].op = "rename" /\ calls[c].x \in LabelIds /\ calls[c].y \in Names
      /\ calls' = [calls EXCEPT ![c] = Idle] /\ crossed' = crossed /\ started' = started /\ cut' = cut
      /\ UNCHANGED <<customer, conv, messages, docs>>
  BY <1>1, IdleCall DEF WriteLabel, At, Return, History, Task
<1>3. CASE Refused("labelName", Named(calls[c].y) \ {calls[c].x} # {})
  <2>1. labels' = labels
    BY <1>3 DEF WriteLabel
  <2> QED
    BY <1>1, <1>2, <2>1, ReturnDocs DEF DocTypeOK, At
<1>4. CASE ~Refused("labelName", Named(calls[c].y) \ {calls[c].x} # {})
  <2>1. labels' = [labels EXCEPT ![calls[c].x].name = calls[c].y]
    BY <1>4 DEF WriteLabel
  <2>2. labels' \in [LabelIds -> Label] /\ labels'[calls[c].x].name = calls[c].y
    BY <1>1, <1>2, <2>1 DEF DocTypeOK, Label
  <2>3. \A l \in LabelIds \ {calls[c].x} : labels'[l].name = labels[l].name
    BY <1>1, <2>1 DEF DocTypeOK
  <2>4. "labelName" \in Indexed \/ "labelName" \notin crossed => Named(calls[c].y) \subseteq {calls[c].x}
    BY <1>1, <1>2, <1>4 DEF Refused, StillSo
  <2> QED
    BY <1>2, <2>2, <2>3, <2>4, Kinds, LabelDocs
<1> QED
  BY <1>3, <1>4

------------------------------------------------------------------------------
(* Every step *)

\* A call that only sets fields other than the first and the counter.
LEMMA WriteConvDocs ==
    ASSUME DocInv, NEW c \in Calls, calls[c].op # "send", ~At(c, "create", "participant"),
           Return(c), UNCHANGED <<customer, messages, docs, labels, started, crossed, cut>>,
           conv' \in Conversation, conv'.here = conv.here, conv'.count = conv.count,
           conv'.assigned \notin {conv.assigned, None} => docs[<<"participant", conv'.assigned>>] > 0
    PROVE  DocInv'
  BY ReturnDocs DEF Return, DocInv, DocTypeOK

\* The writes of the fields of the conversation.
LEMMA FieldsDocs ==
    ASSUME DocInv, NEW c \in Calls,
           \/ WriteStatus(c) \/ WriteAssigned(c) \/ WriteUnassigned(c) \/ WriteClosed(c)
           \/ WriteReopened(c) \/ WriteLabelAdded(c) \/ WriteLabelRemoved(c)
    PROVE  DocInv'
<1>1. conv \in Conversation /\ Task(calls[c]) /\ StillSo(calls[c]) /\ calls[c].labels \subseteq LabelIds
  BY DEF DocInv, DocTypeOK, Tasks
<1>2. CASE WriteStatus(c)
  <2>1. calls[c].op = "status" /\ calls[c].x \in Statuses
    BY <1>1, <1>2, IdleCall DEF WriteStatus, At, Task
  <2>2. /\ conv' \in Conversation /\ conv'.here = conv.here /\ conv'.count = conv.count
        /\ conv'.assigned = conv.assigned
    BY <1>1, <1>2, <2>1 DEF WriteStatus, SetAndReturn, Written, Set, Conversation
  <2> QED
    BY <1>2, <2>1, <2>2, WriteConvDocs DEF WriteStatus, SetAndReturn, Written, At
<1>3. CASE WriteAssigned(c)
  <2>1. calls[c].op = "assign" /\ calls[c].x \in Members /\ docs[<<"participant", calls[c].x>>] > 0
    BY <1>1, <1>3, IdleCall DEF WriteAssigned, At, Task, StillSo
  <2>2. /\ conv' \in Conversation /\ conv'.here = conv.here /\ conv'.count = conv.count
        /\ conv'.assigned = calls[c].x
    BY <1>1, <1>3, <2>1 DEF WriteAssigned, SetAndReturn, Written, Set, Conversation, Statuses
  <2> QED
    BY <1>3, <2>1, <2>2, WriteConvDocs DEF WriteAssigned, SetAndReturn, Written, At
<1>4. CASE WriteUnassigned(c)
  <2>1. /\ conv' \in Conversation /\ conv'.here = conv.here /\ conv'.count = conv.count
        /\ conv'.assigned = None
    BY <1>1, <1>4 DEF WriteUnassigned, SetAndReturn, Written, Set, Conversation, Statuses
  <2> QED
    BY <1>4, <2>1, WriteConvDocs DEF WriteUnassigned, SetAndReturn, Written, At
<1>5. CASE WriteClosed(c)
  <2>1. /\ conv' \in Conversation /\ conv'.here = conv.here /\ conv'.count = conv.count
        /\ conv'.assigned = conv.assigned
    BY <1>1, <1>5 DEF WriteClosed, SetAndReturn, Written, Set, Conversation, Statuses
  <2> QED
    BY <1>5, <2>1, WriteConvDocs DEF WriteClosed, SetAndReturn, Written, At
<1>6. CASE WriteReopened(c)
  <2>1. /\ conv' \in Conversation /\ conv'.here = conv.here /\ conv'.count = conv.count
        /\ conv'.assigned = conv.assigned
    BY <1>1, <1>6 DEF WriteReopened, SetAndReturn, Written, Set, Conversation, Statuses
  <2> QED
    BY <1>6, <2>1, WriteConvDocs DEF WriteReopened, SetAndReturn, Written, At
<1>7. CASE WriteLabelAdded(c)
  <2>1. calls[c].op = "label" /\ calls[c].x \in LabelIds
    BY <1>1, <1>7, IdleCall DEF WriteLabelAdded, At, Task
  <2>2. /\ conv' \in Conversation /\ conv'.here = conv.here /\ conv'.count = conv.count
        /\ conv'.assigned = conv.assigned
    BY <1>1, <1>7, <2>1 DEF WriteLabelAdded, WriteLabels, Written, Set, Conversation
  <2> QED
    BY <1>7, <2>1, <2>2, WriteConvDocs DEF WriteLabelAdded, WriteLabels, Written, At
<1>8. CASE WriteLabelRemoved(c)
  <2>1. /\ conv' \in Conversation /\ conv'.here = conv.here /\ conv'.count = conv.count
        /\ conv'.assigned = conv.assigned
    BY <1>1, <1>8 DEF WriteLabelRemoved, WriteLabels, Written, Set, Conversation
  <2> QED
    BY <1>8, <2>1, WriteConvDocs DEF WriteLabelRemoved, WriteLabels, Written, At
<1> QED
  BY <1>2, <1>3, <1>4, <1>5, <1>6, <1>7, <1>8

\* The writes that leave the fields of the conversation alone, and the end of a
\* call that was cut short.
LEMMA OtherDocs ==
    ASSUME DocInv, NEW c \in Calls,
           \/ WriteCustomer(c) \/ WriteEdit(c) \/ WriteDeleted(c) \/ WriteRetired(c) \/ UpdateDraft(c)
           \/ Stop(c)
    PROVE  DocInv'
<1>1. /\ conv \in Conversation /\ customer \in Names \cup {None} /\ messages \in Seq(Message)
      /\ labels \in [LabelIds -> Label] /\ Task(calls[c])
  BY DEF DocInv, DocTypeOK, Tasks
<1>2. CASE WriteCustomer(c)
  <2>1. calls[c].op = "customer" /\ calls[c].x \in Names
    BY <1>1, <1>2, IdleCall DEF WriteCustomer, At, Task
  <2> QED
    BY <1>1, <1>2, <2>1, ReturnDocs DEF WriteCustomer, Return, History, At
<1>3. CASE WriteEdit(c) \/ WriteDeleted(c)
  <2>1. calls[c].op \in {"edit", "delete"} /\ calls[c].x \in 1 .. Len(messages)
    BY <1>1, <1>3, IdleCall DEF WriteEdit, WriteDeleted, At, Task
  <2>2. messages[calls[c].x] \in Message
    BY <1>1, <2>1, ElementOfSeq
  <2>3. /\ [messages[calls[c].x] EXCEPT !.edited = TRUE] \in Message
        /\ [messages[calls[c].x] EXCEPT !.deleted = TRUE] \in Message
    BY <2>2 DEF Message
  <2>4. \/ messages' = [messages EXCEPT ![calls[c].x] = [messages[calls[c].x] EXCEPT !.edited = TRUE]]
        \/ messages' = [messages EXCEPT ![calls[c].x] = [messages[calls[c].x] EXCEPT !.deleted = TRUE]]
    BY <1>3 DEF WriteEdit, WriteDeleted
  <2>5. messages' \in Seq(Message) /\ Len(messages') = Len(messages)
    BY <1>1, <2>1, <2>3, <2>4, ExceptSeq
  <2>6. /\ Return(c) /\ History /\ UNCHANGED <<customer, conv, docs, labels>>
    BY <1>3 DEF WriteEdit, WriteDeleted
  <2> QED
    BY <1>1, <2>1, <2>5, <2>6, ReturnDocs DEF Return, History, At
<1>4. CASE WriteRetired(c)
  <2>1. calls[c].op = "retire" /\ calls[c].x \in LabelIds
    BY <1>1, <1>4, IdleCall DEF WriteRetired, At, Task
  <2>2. labels' \in [LabelIds -> Label] /\ \A l \in LabelIds : labels'[l].name = labels[l].name
    BY <1>1, <1>4, <2>1 DEF WriteRetired, Label
  <2> QED
    BY <1>1, <1>4, <2>1, <2>2, ReturnDocs DEF WriteRetired, Return, History, At
<1>5. CASE UpdateDraft(c)
  BY <1>1, <1>5, ReturnDocs DEF UpdateDraft, Return, History, At, docVars
<1>6. CASE Stop(c)
  <2>1. /\ calls' = [calls EXCEPT ![c] = Idle] /\ cut' = cut \cup {calls[c].op}
        /\ crossed' = crossed /\ started' = started
        /\ UNCHANGED <<customer, conv, messages, docs, labels>>
    BY <1>6 DEF Stop, Return, docVars
  <2>2. /\ calls[c].op = "send" => "send" \in cut'
        /\ At(c, "create", "participant") => "create" \in cut'
    BY <2>1 DEF At
  <2> QED
    BY <1>1, <2>1, <2>2, ReturnDocs
<1> QED
  BY <1>2, <1>3, <1>4, <1>5, <1>6

\* The insertions and removals of documents of a key.
LEMMA KeyDocs ==
    ASSUME DocInv, NEW c \in Calls,
           \/ InsertIdentity(c) \/ DeleteIdentity(c) \/ FirstParticipant(c) \/ AddParticipant(c)
           \/ InsertDraft(c) \/ RemoveDraft(c)
    PROVE  DocInv'
<1>1. CASE InsertIdentity(c)
  <2>1. calls[c].op = "identity" /\ Inserting(calls[c]) /\ KeyOf(calls[c]) = <<"identity", calls[c].x>>
    BY <1>1, Kinds DEF InsertIdentity, At, Inserting, KeyOf
  <2> QED
    BY <1>1, <2>1, InsertDocs DEF InsertIdentity
<1>2. CASE DeleteIdentity(c)
  <2>1. calls[c].op = "unidentify" /\ <<"identity", calls[c].x>> \in Keys
    BY <1>2, TaskKeys DEF DeleteIdentity, At
  <2> QED
    BY <1>2, <2>1, DeleteDocs DEF DeleteIdentity, Delete, Return, History
<1>3. CASE FirstParticipant(c)
  <2>1. calls[c].op = "create" /\ Inserting(calls[c]) /\ KeyOf(calls[c]) = <<"participant", calls[c].x>>
    BY <1>3, Kinds DEF FirstParticipant, At, Inserting, KeyOf
  <2> QED
    BY <1>3, <2>1, InsertDocs DEF FirstParticipant
<1>4. CASE AddParticipant(c)
  <2>1. calls[c].op = "assign" /\ Inserting(calls[c]) /\ KeyOf(calls[c]) = <<"participant", calls[c].x>>
    BY <1>4, Kinds DEF AddParticipant, At, Inserting, KeyOf
  <2> QED
    BY <1>4, <2>1, InsertDocs DEF AddParticipant
<1>5. CASE InsertDraft(c)
  <2>1. calls[c].op = "draft" /\ Inserting(calls[c]) /\ KeyOf(calls[c]) = <<"draft", calls[c].x>>
    BY <1>5, Kinds DEF InsertDraft, At, Inserting, KeyOf
  <2> QED
    BY <1>5, <2>1, InsertDocs DEF InsertDraft
<1>6. CASE RemoveDraft(c)
  <2>1. calls[c].op = "undraft" /\ <<"draft", calls[c].x>> \in Keys
    BY <1>6, TaskKeys DEF RemoveDraft, At
  <2> QED
    BY <1>6, <2>1, DeleteDocs DEF RemoveDraft, Delete, Return, History
<1> QED
  BY <1>1, <1>2, <1>3, <1>4, <1>5, <1>6

\* What a request has looked up when it begins.
LEMMA RequestDocs == ASSUME DocInv, NEW c \in Calls, Request(c) PROVE DocInv'
<1> USE DEF Task, StillSo, Inserting, KeyOf
<1>1. /\ docs \in [Keys -> Nat]
      /\ \A m \in Members : <<"participant", m>> \in Keys /\ <<"draft", m>> \in Keys
  BY DEF DocInv, DocTypeOK, Keys, Participant, Draft
<1>2. CASE CustomerRequest(c)
  BY <1>2, BeginDocs DEF CustomerRequest, CreateCustomer
<1>3. CASE ConversationRequest(c)
  <2>1. ASSUME NEW m \in Members \cup {None}, CreateConversation(c, m) PROVE DocInv'
    BY <2>1, BeginDocs DEF CreateConversation
  <2>2. ASSUME NEW s \in Statuses, UpdateStatus(c, s) PROVE DocInv'
    BY <2>2, BeginDocs DEF UpdateStatus
  <2> QED
    BY <1>3, <2>1, <2>2 DEF ConversationRequest
<1>4. CASE MessageRequest(c)
  <2>1. ASSUME NEW m \in Members, SendMessage(c, m) PROVE DocInv'
    BY <2>1, BeginDocs DEF SendMessage
  <2>2. ASSUME NEW m \in Members, NEW i \in DOMAIN messages, EditMessage(c, i, m) \/ DeleteMessage(c, i, m)
        PROVE  DocInv'
    <3>1. i \in 1 .. Len(messages)
      BY LenProperties DEF DocInv, DocTypeOK
    <3> QED
      BY <2>2, <3>1, BeginDocs DEF EditMessage, DeleteMessage
  <2> QED
    BY <1>4, <2>1, <2>2 DEF MessageRequest
<1>5. CASE LabelRequest(c)
  BY <1>5, BeginDocs DEF LabelRequest, AddLabel, RemoveLabel
<1>6. CASE DraftRequest(c)
  <2>1. ASSUME NEW m \in Members, SaveDraft(c, m) PROVE DocInv'
    <3>1. docs[<<"draft", m>>] \in Nat
      BY <1>1
    <3>2. CASE docs[<<"draft", m>>] > 0
      BY <2>1, <3>2, BeginDocs DEF SaveDraft
    <3>3. CASE docs[<<"draft", m>>] = 0
      BY <2>1, <3>3, BeginDocs, Kinds DEF SaveDraft
    <3> QED
      BY <3>1, <3>2, <3>3
  <2>2. ASSUME NEW m \in Members, DeleteDraft(c, m) PROVE DocInv'
    BY <2>2, BeginDocs DEF DeleteDraft
  <2> QED
    BY <1>6, <2>1, <2>2 DEF DraftRequest
<1>7. CASE InternalRequest(c)
  <2>1. ASSUME NEW n \in Names, UpdateCustomer(c, n) \/ CreateLabel(c, n) PROVE DocInv'
    BY <2>1, BeginDocs DEF UpdateCustomer, CreateLabel
  <2>2. ASSUME NEW p \in Providers, AddIdentity(c, p) \/ RemoveIdentity(c, p) PROVE DocInv'
    BY <2>2, BeginDocs, Kinds DEF AddIdentity, RemoveIdentity
  <2>3. ASSUME NEW m \in Members, AssignConversation(c, m) PROVE DocInv'
    <3>1. docs[<<"participant", m>>] \in Nat
      BY <1>1
    <3>2. CASE docs[<<"participant", m>>] > 0
      BY <2>3, <3>2, BeginDocs DEF AssignConversation, GetConversation
    <3>3. CASE docs[<<"participant", m>>] = 0
      BY <2>3, <3>3, BeginDocs, Kinds DEF AssignConversation, GetConversation
    <3> QED
      BY <3>1, <3>2, <3>3
  <2>4. CASE UnassignConversation(c) \/ CloseConversation(c) \/ ReopenConversation(c)
    BY <2>4, BeginDocs DEF UnassignConversation, CloseConversation, ReopenConversation
  <2>5. ASSUME NEW l \in LabelIds, DeleteLabel(c, l) PROVE DocInv'
    BY <2>5, BeginDocs DEF DeleteLabel
  <2>6. ASSUME NEW l \in LabelIds, NEW n \in Names, UpdateLabel(c, l, n) PROVE DocInv'
    <3>1. "labelName" \notin crossed => Named(n) \subseteq {l}
      BY <2>6 DEF UpdateLabel, DocInv, Unique
    <3> QED
      BY <2>6, <3>1, BeginDocs, Kinds DEF UpdateLabel
  <2> QED
    BY <1>7, <2>1, <2>2, <2>3, <2>4, <2>5, <2>6 DEF InternalRequest
<1> QED
  BY <1>2, <1>3, <1>4, <1>5, <1>6, <1>7 DEF Request

LEMMA NextDocs == DocInv /\ [Next]_vars => DocInv'
<1> SUFFICES ASSUME DocInv, [Next]_vars PROVE DocInv'
  OBVIOUS
<1>1. ASSUME NEW c \in Calls, Request(c) \/ Write(c) \/ Stop(c) PROVE DocInv'
  BY <1>1, RequestDocs, OtherDocs, KeyDocs, FieldsDocs, InsertConversationDocs, InsertMessageDocs,
     CountMessageDocs, InsertLabelDocs, WriteLabelDocs DEF Write
<1>2. CASE UNCHANGED vars
  BY <1>2 DEF vars, DocInv, DocTypeOK, Tasks, Task, StillSo, Overlaps, OneCreate, Nobody, Unique,
              CountBounded, Counted, Assigned, Named, Inserting, KeyOf, Counting, At
<1> QED
  BY <1>1, <1>2 DEF Next

------------------------------------------------------------------------------
(* The labels *)

\* The copy of a call that is about to write the list is the list, but for the
\* labels somebody wrote while the call held it.
LabelInv ==
    /\ asked \subseteq LabelIds /\ raced \subseteq LabelIds /\ LabelsKept
    /\ \A c \in Calls : HoldsLabels(c) =>
          \A l \in LabelIds \ raced : l \in calls[c].labels <=> l \in conv.labels

\* A step that changes neither the list nor a copy somebody holds.
LEMMA OtherLabels ==
    ASSUME LabelInv, conv'.labels = conv.labels, asked' = asked, raced' = raced,
           \A d \in Calls : calls'[d].op \in {"label", "unlabel"} =>
               calls[d].op \in {"label", "unlabel"} /\ calls'[d].labels = calls[d].labels
    PROVE  LabelInv'
  BY DEF LabelInv, LabelsKept, HoldsLabels

\* A request begins with the list as it is.
LEMMA BeginLabels ==
    ASSUME LabelInv, DOMAIN calls = Calls, NEW c \in Calls, NEW op, NEW x, NEW y, NEW pc,
           Begin(c, op, x, y, pc)
    PROVE  LabelInv'
<1>1. /\ calls'[c].labels = conv.labels /\ \A d \in Calls \ {c} : calls'[d] = calls[d]
      /\ conv' = conv /\ asked' = asked /\ raced' = raced
  BY DEF Begin, docVars
<1> QED
  BY <1>1 DEF LabelInv, LabelsKept, HoldsLabels

\* A call writes about its own label only; the others' labels are as in its copy.
LEMMA WriteLabelsKeeps ==
    ASSUME DocInv, LabelInv, NEW c \in Calls, WriteLabelAdded(c) \/ WriteLabelRemoved(c)
    PROVE  LabelInv'
<1>1. DOMAIN calls = Calls /\ conv \in Conversation /\ Task(calls[c]) /\ calls[c].labels \subseteq LabelIds
  BY DEF DocInv, DocTypeOK, Tasks
<1>2. HoldsLabels(c) /\ calls[c].x \in LabelIds
  BY <1>1, IdleCall DEF WriteLabelAdded, WriteLabelRemoved, At, HoldsLabels, Task
<1>3. PICK left \in SUBSET LabelIds :
        WriteLabels(c, left) /\ \A l \in LabelIds \ {calls[c].x} : l \in left <=> l \in calls[c].labels
  <2>1. /\ calls[c].labels \cup {calls[c].x} \in SUBSET LabelIds
        /\ calls[c].labels \ {calls[c].x} \in SUBSET LabelIds
    BY <1>1, <1>2
  <2> QED
    BY <2>1 DEF WriteLabelAdded, WriteLabelRemoved
<1>4. /\ conv'.labels = left /\ calls'[c] = Idle /\ \A d \in Calls \ {c} : calls'[d] = calls[d]
  BY <1>1, <1>3 DEF WriteLabels, Written, Set, Return, Conversation
<1>5. ~(Idle.op \in {"label", "unlabel"})
  BY IdleCall
<1>6. asked' \subseteq LabelIds /\ raced' \subseteq LabelIds
  BY <1>2, <1>3 DEF WriteLabels, LabelInv
<1>7. \A l \in LabelIds \ {calls[c].x} :
        /\ l \in raced' <=> l \in raced
        /\ l \in asked' <=> l \in asked
  BY <1>3 DEF WriteLabels
<1>8. /\ calls[c].x \in asked' <=> calls[c].x \in left
      /\ (\E d \in Calls \ {c} : HoldsLabels(d)) => calls[c].x \in raced'
  BY <1>3 DEF WriteLabels
<1>9. LabelsKept'
  <2>1. \A l \in LabelIds \ raced : l \in calls[c].labels <=> l \in asked
    BY <1>2 DEF LabelInv, LabelsKept
  <2> QED
    BY <1>3, <1>4, <1>7, <1>8, <2>1 DEF LabelsKept
<1>10. ASSUME NEW d \in Calls, HoldsLabels(d)', NEW l \in LabelIds \ raced'
       PROVE  l \in calls'[d].labels <=> l \in conv'.labels
  <2>1. d # c /\ calls'[d] = calls[d]
    BY <1>4, <1>5, <1>10 DEF HoldsLabels
  <2>2. HoldsLabels(d)
    BY <1>10, <2>1 DEF HoldsLabels
  <2>3. l # calls[c].x
    BY <1>8, <1>10, <2>1, <2>2
  <2>4. l \in LabelIds \ raced
    BY <1>7, <1>10, <2>3
  <2>5. /\ l \in calls[d].labels <=> l \in conv.labels
        /\ l \in calls[c].labels <=> l \in conv.labels
    BY <1>2, <2>2, <2>4 DEF LabelInv
  <2> QED
    BY <1>3, <1>4, <1>10, <2>1, <2>3, <2>5
<1> QED
  BY <1>6, <1>9, <1>10 DEF LabelInv

LEMMA NextLabels == DocInv /\ LabelInv /\ [Next]_vars => LabelInv'
<1> SUFFICES ASSUME DocInv, LabelInv, [Next]_vars PROVE LabelInv'
  OBVIOUS
<1>1. DOMAIN calls = Calls /\ conv \in Conversation /\ \A c \in Calls : Shaped(calls[c])
  BY DEF DocInv, DocTypeOK, Tasks
<1>2. Idle.op = "idle"
  BY IdleCall
<1>3. ASSUME NEW c \in Calls, Request(c) PROVE LabelInv'
  <2>1. \E op, x, y, pc : Begin(c, op, x, y, pc)
    BY <1>3
       DEF Request, CustomerRequest, ConversationRequest, MessageRequest, LabelRequest, DraftRequest,
           InternalRequest, CreateCustomer, UpdateCustomer, AddIdentity, RemoveIdentity, CreateConversation,
           UpdateStatus, AssignConversation, UnassignConversation, CloseConversation, ReopenConversation,
           SendMessage, EditMessage, DeleteMessage, CreateLabel, UpdateLabel, DeleteLabel, AddLabel,
           RemoveLabel, SaveDraft, DeleteDraft
  <2> QED
    BY <1>1, <2>1, BeginLabels
<1>4. ASSUME NEW c \in Calls, WriteLabelAdded(c) \/ WriteLabelRemoved(c) PROVE LabelInv'
  BY <1>4, WriteLabelsKeeps
<1>5. ASSUME NEW c \in Calls, calls' = [calls EXCEPT ![c] = Idle], conv'.labels = conv.labels,
             asked' = asked, raced' = raced
      PROVE  LabelInv'
  BY <1>1, <1>2, <1>5, OtherLabels
<1>6. ASSUME NEW c \in Calls, NEW pc, Goto(c, pc), conv'.labels = conv.labels,
             asked' = asked, raced' = raced
      PROVE  LabelInv'
  <2>1. /\ calls'[c].op = calls[c].op /\ calls'[c].labels = calls[c].labels
        /\ \A d \in Calls \ {c} : calls'[d] = calls[d]
    BY <1>1, <1>6 DEF Goto, Shaped
  <2> QED
    BY <1>6, <2>1, OtherLabels
<1>7. ASSUME NEW c \in Calls,
             \/ WriteStatus(c) \/ WriteAssigned(c) \/ WriteUnassigned(c)
             \/ WriteClosed(c) \/ WriteReopened(c) \/ CountMessage(c)
      PROVE  LabelInv'
  <2>1. conv'.labels = conv.labels
    BY <1>1, <1>7 DEF WriteStatus, WriteAssigned, WriteUnassigned, WriteClosed, WriteReopened,
                      CountMessage, SetAndReturn, Written, Set, Conversation
  <2>2. calls' = [calls EXCEPT ![c] = Idle] /\ asked' = asked /\ raced' = raced
    BY <1>7 DEF WriteStatus, WriteAssigned, WriteUnassigned, WriteClosed, WriteReopened,
                CountMessage, SetAndReturn, Written, Return
  <2> QED
    BY <1>5, <2>1, <2>2
<1>8. ASSUME NEW c \in Calls, InsertConversation(c) PROVE LabelInv'
  <2>1. conv'.labels = conv.labels
    BY <1>1, <1>8 DEF InsertConversation, Set, Conversation
  <2>2. (Return(c) \/ Goto(c, "participant")) /\ asked' = asked /\ raced' = raced
    BY <1>8 DEF InsertConversation, History
  <2> QED
    BY <1>5, <1>6, <2>1, <2>2 DEF Return
<1>9. ASSUME NEW c \in Calls, NEW key, NEW next, InsertFor(c, key, next) PROVE LabelInv'
  <2>1. (Return(c) \/ Goto(c, next)) /\ conv' = conv /\ asked' = asked /\ raced' = raced
    BY <1>9 DEF InsertFor, History
  <2> QED
    BY <1>5, <1>6, <2>1 DEF Return
<1>10. ASSUME NEW c \in Calls,
              \/ InsertIdentity(c) \/ FirstParticipant(c) \/ AddParticipant(c) \/ InsertDraft(c)
       PROVE  LabelInv'
  BY <1>9, <1>10 DEF InsertIdentity, FirstParticipant, AddParticipant, InsertDraft
<1>11. ASSUME NEW c \in Calls, InsertMessage(c) PROVE LabelInv'
  BY <1>6, <1>11 DEF InsertMessage, History
<1>12. ASSUME NEW c \in Calls,
              \/ WriteCustomer(c) \/ DeleteIdentity(c) \/ WriteEdit(c) \/ WriteDeleted(c) \/ InsertLabel(c)
              \/ WriteLabel(c) \/ WriteRetired(c) \/ UpdateDraft(c) \/ RemoveDraft(c) \/ Stop(c)
       PROVE  LabelInv'
  <2>1. calls' = [calls EXCEPT ![c] = Idle] /\ conv' = conv /\ asked' = asked /\ raced' = raced
    BY <1>12 DEF WriteCustomer, DeleteIdentity, WriteEdit, WriteDeleted, InsertLabel, WriteLabel,
                 WriteRetired, UpdateDraft, RemoveDraft, Stop, Return, History, docVars
  <2> QED
    BY <1>5, <2>1
<1>13. CASE UNCHANGED vars
  BY <1>13 DEF vars, LabelInv, LabelsKept, HoldsLabels
<1> QED
  BY <1>3, <1>4, <1>7, <1>8, <1>10, <1>11, <1>12, <1>13 DEF Next, Write

------------------------------------------------------------------------------
(* The theorems *)

\* The inductive invariant: what a call found when it looked is still so when it
\* writes, unless a call of the same kind crossed it.
THEOREM Documents == Spec => []DocInv
  BY InitDocs, NextDocs, PTL DEF Spec

\* What the calls that are about to write the labels hold of them.
THEOREM LabelHistory == Spec => []LabelInv
<1>1. Init => LabelInv
  <2> SUFFICES ASSUME Init PROVE LabelInv
    OBVIOUS
  <2>1. conv.labels = {} /\ asked = {} /\ raced = {} /\ \A c \in Calls : calls[c] = Idle
    BY DEF Init
  <2> QED
    BY <2>1, IdleCall DEF LabelInv, LabelsKept, HoldsLabels
<1> QED
  BY <1>1, NextLabels, Documents, PTL DEF Spec

\* However many requests overlap or are cut short: keys looked up before an
\* insertion are unique under their index or without crossing, the counter never
\* runs ahead, and the assignee takes part.
THEOREM Consistent == Spec => []ConvInv
<1>1. DocInv /\ LabelInv => ConvInv
  BY DEF DocInv, DocTypeOK, LabelInv, TypeOK, ConvInv, Assigned, AssigneeTakesPart
<1> QED
  BY <1>1, Documents, LabelHistory, PTL

\* message_count is exact as long as no two sends crossed and none was cut short.
THEOREM Exact == Spec => []CountExact
<1>1. DocInv => CountExact
  <2> SUFFICES ASSUME DocInv, "send" \notin crossed, "send" \notin cut
               PROVE  Len(messages) = conv.count + IF \E c \in Calls : Counting(c) THEN 1 ELSE 0
    BY Kinds DEF CountExact
  <2>1. conv.count \in Nat /\ Len(messages) \in Nat
    BY LenProperties DEF DocInv, DocTypeOK, Conversation
  <2>2. CASE \A c \in Calls : calls[c].op # "send"
    <3>1. Len(messages) = conv.count /\ ~\E c \in Calls : Counting(c)
      BY <2>2 DEF DocInv, Counted, Counting, At
    <3> QED
      BY <2>1, <3>1
  <2>3. ASSUME NEW c \in Calls, calls[c].op = "send"
        PROVE  Len(messages) = conv.count + IF \E d \in Calls : Counting(d) THEN 1 ELSE 0
    <3>1. \A d \in Calls : calls[d].op = "send" => d = c
      BY <2>3, Kinds DEF DocInv, Overlaps
    <3>2. (\E d \in Calls : Counting(d)) <=> calls[c].pc = "count"
      BY <2>3, <3>1 DEF Counting, At
    <3>3. Len(messages) = conv.count + IF calls[c].pc = "count" THEN 1 ELSE 0
      BY <2>3 DEF DocInv, Counted
    <3> QED
      BY <3>2, <3>3
  <2> QED
    BY <2>2, <2>3
<1> QED
  BY <1>1, Documents, PTL

\* A label is as the call that wrote last about it left it, however many requests
\* of any kind ran or were cut short, unless that call wrote while another one held
\* a copy of the list.
THEOREM Labels == Spec => []LabelsKept
<1>1. LabelInv => LabelsKept
  BY DEF LabelInv
<1> QED
  BY <1>1, LabelHistory, PTL
=============================================================================
