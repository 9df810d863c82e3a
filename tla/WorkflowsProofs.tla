-------------------------- MODULE WorkflowsProofs --------------------------
(* Safety of the event queue and of the workflows that publish to it, for   *)
(* any events, consumers, handlers and flows and any number of retries and  *)
(* faults.                                                                   *)
(*                                                                           *)
(* EventInv and NothingForgotten speak of an event at rest.  What makes them *)
(* inductive is whose hands it is in: while nobody crosses it, its id is in  *)
(* one place (Single), and the tries the handlers have had are those its     *)
(* document and its consumer remember (Counted).  FlowInv needs how far a    *)
(* flow has come: each step of a message's workflow leaves what the next     *)
(* ones build on (Built).                                                    *)
EXTENDS Workflows, FiniteSetTheorems, SequenceTheorems, TLAPS

USE QueueAssumption

------------------------------------------------------------------------------
(* The inductive invariant of the queue *)

Queued(e) == e \in Range(queue)
Reading(w) == Doing(w, "read")
Working(w) == consumers[w].pc \in {"handle", "requeue", "note", "fail"}

\* A consumer holds an event exactly while it works on one; the handlers it has
\* called have finished, and it asks for a retry only where one is left.
ConsumerOK(w) ==
    /\ Held(w) # NoEvent <=> Reading(w) \/ Working(w)
    /\ Reading(w) => consumers[w].next = 1
    /\ Working(w) => 1 .. (consumers[w].next - 1) \subseteq done[Held(w)]
    /\ consumers[w].pc \in {"requeue", "note"} => consumers[w].retries < MaxRetries
    /\ Doing(w, "fail") => consumers[w].retries = MaxRetries

\* The id of an event is in one place.  Only two writes have a moment in which it
\* is in the queue already, or popped again, and its status is still to be written.
Once(e) == \A i, j \in DOMAIN queue : queue[i] = e /\ queue[j] = e => i = j
Single(e) ==
    /\ Once(e)
    /\ e \in publishing => ~Queued(e) /\ e \notin manual /\ \A w \in Consumers : Held(w) # e
    /\ \A w \in Consumers : Held(w) = e =>
         /\ Queued(e) => Doing(w, "note")
         /\ Working(w) => e \notin manual
         /\ \A v \in Consumers \ {w} : Held(v) = e =>
                \/ Reading(w) /\ Doing(v, "note")
                \/ Doing(w, "note") /\ Reading(v)

\* The tries: never fewer than the document or a consumer remembers, and exactly
\* as many unless a fault took the one or the other.
Counted(e) ==
    /\ e \in manual => attempts[e] = 0
    /\ e \notin manual =>
         /\ attempts[e] >= events[e].retries
         /\ events[e].status = "failed" => attempts[e] >= MaxRetries + 1
    /\ \A w \in Consumers : Held(w) = e /\ Working(w) => attempts[e] >= consumers[w].retries + 1
    /\ e \notin lost =>
         /\ attempts[e] <= MaxRetries + 1
         /\ \A w \in Consumers : Held(w) = e /\ Working(w) => attempts[e] = consumers[w].retries + 1
         /\ InWork(e) /\ e \notin manual /\ (\A w \in Consumers : Held(w) = e => Reading(w))
                => attempts[e] = events[e].retries

\* An event that waits is in somebody's hands, also when the next write is done.
Kept(e) ==
    /\ events[e].status \in {"published", "pending"} => InWork(e)
    /\ Unwritten(e) => Queued(e) \/ \E w \in Consumers : Held(w) = e /\ Reading(w)

\* Nobody has seen an event that was never published.
Unseen(e) ==
    events[e].status = "absent" =>
        ~InWork(e) /\ attempts[e] = 0 /\ events[e].retries = 0

\* A flow between the two writes of publish.
PushOK(f) ==
    /\ flows[f].event # NoEvent <=> At(f, "push")
    /\ At(f, "push") => flows[f].event \in publishing
    /\ \A g \in Flows \ {f} : At(f, "push") /\ At(g, "push") => flows[f].event # flows[g].event

QueueIInv ==
    /\ QueueTypeOK
    /\ retried \in 0 .. MaxManual /\ faults \in 0 .. MaxFaults
    /\ lost \subseteq Events /\ crossed \subseteq Events
    /\ \A w \in Consumers : ConsumerOK(w)
    /\ \A e \in Events : events[e].status = "processed" => done[e] = 1 .. Handlers
    /\ \A e \in Events : Unseen(e)
    /\ \A e \in Events \ crossed : Single(e) /\ Counted(e)
    /\ \A e \in Events \ (crossed \cup lost) : Kept(e)

PushesOK == \A f \in Flows : PushOK(f)

------------------------------------------------------------------------------
(* The inductive invariant of the flows *)

Frame(workflow) == [workflow : {workflow}, step : 1 .. Len(Steps[workflow]), tries : 0 .. 1]

\* The awaits a step is made of, after its first.
Within(step) ==
    CASE step = "get_or_create_customer" -> {"insert_customer", "insert_identity"}
      [] step = "get_or_create_conversation" -> {"insert_conversation"}
      [] step = "publish_event" -> {"push"}
      [] OTHER -> {}

\* A message's workflow runs inside the fourth step of the webhook's, once.
Inner(w) == Len(w.frames) = 2
Placed(w) ==
    \/ w.frames = <<>> /\ w.pc = "ended"
    \/ w.frames = <<>> /\ w.pc = "ready" /\ w.ended["incoming"] = "none"
    \/ \E fr \in Frame("webhook") \cup Frame("assign") :
         /\ w.frames = <<fr>> /\ w.pc \in {StepOf(fr)} \cup Within(StepOf(fr))
         /\ fr.workflow = "webhook" /\ fr.step <= 4 => w.ended["incoming"] = "none"
    \/ \E out \in Frame("webhook"), fr \in Frame("incoming") :
         /\ w.frames = <<out, fr>> /\ w.pc \in {StepOf(fr)} \cup Within(StepOf(fr))
         /\ out.step = 4 /\ w.ended["incoming"] = "none"

\* A step of the message's workflow is behind the flow.
Behind(w, step) == w.ended["incoming"] = "completed" \/ (Inner(w) /\ w.frames[2].step > step)
Assigning(w, step) ==
    Len(w.frames) = 1 /\ w.frames[1].workflow = "assign" /\ w.frames[1].step > step

\* What the steps behind a flow have left for the next ones.
Found(w, ids) == w.customer \in ids
Opened(w, cs) == w.conv \in DOMAIN cs /\ cs[w.conv].customer = w.customer
Stored(w, f, ms) == w.message \in DOMAIN ms /\ ms[w.message] = [by |-> f, conv |-> w.conv]
Joined(w, cs) == w.request \in cs[1].participants

BuiltOn(w, f, n, ids, cs, ms) ==
    /\ w.pc = "insert_identity" => w.customer \in 1 .. n
    /\ Behind(w, 2) => Found(w, ids)
    /\ Behind(w, 3) => Opened(w, cs)
    /\ Behind(w, 5) => Stored(w, f, ms)
    /\ Assigning(w, 1) => cs # <<>>
    /\ Assigning(w, 3) => Joined(w, cs)

Built(f) == BuiltOn(flows[f], f, customers, identified, convs, messages)

Mine(f) == {i \in DOMAIN messages : messages[i].by = f}
Unsent(w) == w.ended["incoming"] = "none" /\ (Inner(w) => w.frames[2].step <= 5)

\* The customer is added by one flow at a time, and only where nobody is known.
OneAdds ==
    /\ \E k \in Nat : identified \subseteq {k}
    /\ \A f \in Flows : Adding(f) =>
         /\ identified = {}
         /\ \A g \in Flows \ {f} : ~Adding(g)

Places ==
    {"ready", "ended", "insert_customer", "insert_identity", "insert_conversation", "push",
     "validate_webhook", "parse_payload", "determine_event_type", "execute_handler",
     "validate", "get_or_create_customer", "get_or_create_conversation", "add_participant",
     "create_message", "update_conversation_metadata",
     "validate_assignment", "check_permissions", "assign_participant", "update_conversation",
     "publish_event"}
Frames == UNION {Frame(k) : k \in {"webhook", "incoming", "assign"}}
FlowRecord ==
    [request : Requests, frames : Seq(Frames), pc : Places, event : Events \cup {NoEvent},
     customer : Nat, conv : Nat, message : Nat, ended : [DOMAIN Steps -> Outcome]]
Conversation ==
    [customer : Nat, status : {"open", "assigned"}, assigned : Requests \cup {None},
     participants : SUBSET Requests, last : Nat]

StoreTypes ==
    /\ customers \in Nat /\ identified \subseteq 1 .. customers
    /\ convs \in Seq(Conversation)
    /\ messages \in Seq([by : Flows, conv : Nat])
    /\ \A i \in DOMAIN convs : convs[i].last \in {0} \cup DOMAIN messages
    /\ overlapped \in BOOLEAN

\* The documents a flow knows of.
Knows(f) ==
    /\ flows[f].customer \in 0 .. customers
    /\ flows[f].conv \in 0 .. Len(convs)
    /\ flows[f].message \in 0 .. Len(messages)

\* A second copy of a message takes a fault after the first.
Sent(f) ==
    /\ Cardinality(Mine(f)) <= 1 + faults
    /\ Unsent(flows[f]) => Cardinality(Mine(f)) <= faults

FlowIInv ==
    /\ StoreTypes
    /\ flows \in [Flows -> FlowRecord]
    /\ \A f \in Flows : Placed(flows[f]) /\ Knows(f) /\ Built(f) /\ Sent(f)
    /\ overlapped \/ OneAdds
    /\ ConversationsOK

------------------------------------------------------------------------------
(* The engine *)

\* The steps of the three workflows.
LEMMA StepTable ==
    /\ DOMAIN Steps = {"webhook", "incoming", "assign"}
    /\ Len(Steps["webhook"]) = 5 /\ Len(Steps["incoming"]) = 7 /\ Len(Steps["assign"]) = 5
    /\ Steps["webhook"][1] = "validate_webhook" /\ Steps["webhook"][2] = "parse_payload"
    /\ Steps["webhook"][3] = "determine_event_type" /\ Steps["webhook"][4] = "execute_handler"
    /\ Steps["webhook"][5] = "publish_event"
    /\ Steps["incoming"][1] = "validate" /\ Steps["incoming"][2] = "get_or_create_customer"
    /\ Steps["incoming"][3] = "get_or_create_conversation" /\ Steps["incoming"][4] = "add_participant"
    /\ Steps["incoming"][5] = "create_message" /\ Steps["incoming"][6] = "update_conversation_metadata"
    /\ Steps["incoming"][7] = "publish_event"
    /\ Steps["assign"][1] = "validate_assignment" /\ Steps["assign"][2] = "check_permissions"
    /\ Steps["assign"][3] = "assign_participant" /\ Steps["assign"][4] = "update_conversation"
    /\ Steps["assign"][5] = "publish_event"
  BY DEF Steps

LEMMA FrameFields ==
    ASSUME NEW k \in {"webhook", "incoming", "assign"}, NEW fr \in Frame(k)
    PROVE  /\ fr.workflow = k /\ fr.step \in 1 .. Len(Steps[k]) /\ fr.step \in Nat \ {0} /\ fr.tries \in 0 .. 1
           /\ StepOf(fr) = Steps[k][fr.step]
           /\ fr \in Frames
  BY StepTable DEF Frame, StepOf, Frames

LEMMA WebhookSteps ==
    ASSUME NEW fr \in Frame("webhook")
    PROVE  /\ fr.workflow = "webhook" /\ fr.step \in 1 .. 5
           /\ fr.step = 1 => StepOf(fr) = "validate_webhook"
           /\ fr.step = 2 => StepOf(fr) = "parse_payload"
           /\ fr.step = 3 => StepOf(fr) = "determine_event_type"
           /\ fr.step = 4 => StepOf(fr) = "execute_handler"
           /\ fr.step = 5 => StepOf(fr) = "publish_event"
<1>1. /\ fr.workflow = "webhook" /\ fr.step \in 1 .. 5
      /\ StepOf(fr) = Steps["webhook"][fr.step]
  BY FrameFields, StepTable
<1> QED
  BY <1>1, StepTable

LEMMA IncomingSteps ==
    ASSUME NEW fr \in Frame("incoming")
    PROVE  /\ fr.workflow = "incoming" /\ fr.step \in 1 .. 7
           /\ fr.step = 1 => StepOf(fr) = "validate"
           /\ fr.step = 2 => StepOf(fr) = "get_or_create_customer"
           /\ fr.step = 3 => StepOf(fr) = "get_or_create_conversation"
           /\ fr.step = 4 => StepOf(fr) = "add_participant"
           /\ fr.step = 5 => StepOf(fr) = "create_message"
           /\ fr.step = 6 => StepOf(fr) = "update_conversation_metadata"
           /\ fr.step = 7 => StepOf(fr) = "publish_event"
<1>1. /\ fr.workflow = "incoming" /\ fr.step \in 1 .. 7
      /\ StepOf(fr) = Steps["incoming"][fr.step]
  BY FrameFields, StepTable
<1> QED
  BY <1>1, StepTable

LEMMA AssignSteps ==
    ASSUME NEW fr \in Frame("assign")
    PROVE  /\ fr.workflow = "assign" /\ fr.step \in 1 .. 5
           /\ fr.step = 1 => StepOf(fr) = "validate_assignment"
           /\ fr.step = 2 => StepOf(fr) = "check_permissions"
           /\ fr.step = 3 => StepOf(fr) = "assign_participant"
           /\ fr.step = 4 => StepOf(fr) = "update_conversation"
           /\ fr.step = 5 => StepOf(fr) = "publish_event"
<1>1. /\ fr.workflow = "assign" /\ fr.step \in 1 .. 5
      /\ StepOf(fr) = Steps["assign"][fr.step]
  BY FrameFields, StepTable
<1> QED
  BY <1>1, StepTable

\* The next try and the next step are frames again.
Again(fr) == [fr EXCEPT !.tries = @ + 1]

LEMMA AgainIsFrame ==
    ASSUME NEW k \in {"webhook", "incoming", "assign"}, NEW fr \in Frame(k), fr.tries + 1 < MaxTries
    PROVE  Again(fr) \in Frame(k) /\ Again(fr).step = fr.step /\ Again(fr) \in Frames /\ Again(fr).workflow = k
<1>1. fr \in [workflow : {k}, step : 1 .. Len(Steps[k]), tries : 0 .. 1] /\ Len(Steps[k]) \in Nat
  BY StepTable DEF Frame
<1>2. Again(fr) \in Frame(k) /\ Again(fr).step = fr.step
  BY <1>1 DEF Frame, MaxTries, Again
<1> QED
  BY <1>2, FrameFields

LEMMA FollowingIsFrame ==
    ASSUME NEW k \in {"webhook", "incoming", "assign"}, NEW fr \in Frame(k), fr.step < Len(Steps[k])
    PROVE  Following(fr) \in Frame(k) /\ Following(fr).step = fr.step + 1 /\ Following(fr) \in Frames /\ Following(fr).workflow = k
<1>1. fr \in [workflow : {k}, step : 1 .. Len(Steps[k]), tries : 0 .. 1] /\ Len(Steps[k]) \in Nat
  BY StepTable DEF Frame
<1>2. fr.step + 1 \in 1 .. Len(Steps[k]) /\ 0 \in 0 .. 1
  BY <1>1
<1>3. Following(fr) \in [workflow : {k}, step : 1 .. Len(Steps[k]), tries : 0 .. 1] /\ Following(fr).step = fr.step + 1
  BY <1>1, <1>2 DEF Following
<1>4. Following(fr) \in Frame(k)
  BY <1>3 DEF Frame
<1> QED
  BY <1>3, <1>4, FrameFields

\* Only a step's own first await is where the engine puts a flow.
Awaited == {"insert_customer", "insert_identity", "insert_conversation", "push"}
LEMMA StepPlaces == ASSUME NEW fr \in Frames PROVE StepOf(fr) \in Places \ ({"ready", "ended"} \cup Awaited)
<1> PICK k \in {"webhook", "incoming", "assign"} : fr \in Frame(k)
  BY DEF Frames
<1>1. CASE k = "webhook"
  <2>1. fr.step \in 1 .. 5
    BY <1>1, WebhookSteps
  <2>2. fr.step = 1 \/ fr.step = 2 \/ fr.step = 3 \/ fr.step = 4 \/ fr.step = 5
    BY <2>1
  <2> QED
    BY <1>1, <2>2, WebhookSteps DEF Places, Awaited
<1>2. CASE k = "incoming"
  <2>1. fr.step \in 1 .. 7
    BY <1>2, IncomingSteps
  <2>2. fr.step = 1 \/ fr.step = 2 \/ fr.step = 3 \/ fr.step = 4 \/ fr.step = 5 \/ fr.step = 6 \/ fr.step = 7
    BY <2>1
  <2> QED
    BY <1>2, <2>2, IncomingSteps DEF Places, Awaited
<1>3. CASE k = "assign"
  <2>1. fr.step \in 1 .. 5
    BY <1>3, AssignSteps
  <2>2. fr.step = 1 \/ fr.step = 2 \/ fr.step = 3 \/ fr.step = 4 \/ fr.step = 5
    BY <2>1
  <2> QED
    BY <1>3, <2>2, AssignSteps DEF Places, Awaited
<1> QED
  BY <1>1, <1>2, <1>3

LEMMA Singles ==
    ASSUME NEW a, NEW b, NEW c
    PROVE  /\ Last(<<a>>) = a /\ Front(<<a>>) = <<>> /\ Len(<<a>>) = 1 /\ <<a>> # <<>>
           /\ Last(<<a, b>>) = b /\ Front(<<a, b>>) = <<a>> /\ Len(<<a, b>>) = 2 /\ <<a, b>> # <<>>
           /\ Append(<<>>, c) = <<c>> /\ Append(<<a>>, c) = <<a, c>>
           /\ Len(<<>>) = 0
           /\ <<a>>[1] = a /\ <<a, b>>[2] = b /\ <<a, b>>[1] = a
<1>1. /\ Last(<<a>>) = a /\ Front(<<a>>) = <<>> /\ Len(<<a>>) = 1
  BY DEF Last, Front
<1>2. Last(<<a, b>>) = b /\ Len(<<a, b>>) = 2
  BY DEF Last
<1>3. Front(<<a, b>>) = <<a>>
  <2>1. <<a>> \in Seq({a, b}) /\ <<a, b>> \in Seq({a, b}) /\ Len(<<a>>) = 1 /\ Len(<<a, b>>) = 2
    OBVIOUS
  <2>2. Front(<<a, b>>) = SubSeq(<<a, b>>, 1, 1)
    BY <2>1 DEF Front
  <2>3. /\ SubSeq(<<a, b>>, 1, 1) \in Seq({a, b}) /\ Len(SubSeq(<<a, b>>, 1, 1)) = 1
        /\ SubSeq(<<a, b>>, 1, 1)[1] = a
    BY <2>1, SubSeqProperties
  <2>4. \A i \in 1 .. 1 : i = 1
    OBVIOUS
  <2> QED
    BY <2>1, <2>2, <2>3, <2>4, SeqEqual
<1>4. Append(<<>>, c) = <<c>>
  OBVIOUS
<1>8. Append(<<a>>, c) = <<a, c>>
  <2>1. <<a>> \in Seq({a, c}) /\ <<a, c>> \in Seq({a, c}) /\ Len(<<a>>) = 1 /\ Len(<<a, c>>) = 2
    OBVIOUS
  <2>2. /\ Append(<<a>>, c) \in Seq({a, c}) /\ Len(Append(<<a>>, c)) = 2
        /\ Append(<<a>>, c)[1] = a /\ Append(<<a>>, c)[2] = c
    BY <2>1, AppendProperties
  <2>3. \A i \in 1 .. 2 : i = 1 \/ i = 2
    OBVIOUS
  <2>4. <<a, c>>[1] = a /\ <<a, c>>[2] = c
    OBVIOUS
  <2> QED
    BY <2>1, <2>2, <2>3, <2>4, SeqEqual
<1>5. <<a>>[1] = a /\ <<a, b>>[2] = b /\ <<a, b>>[1] = a
  OBVIOUS
<1>6. Len(<<>>) = 0
  OBVIOUS
<1>7. <<a>> # <<>> /\ <<a, b>> # <<>>
  BY <1>1, <1>2, <1>6
<1> QED
  BY <1>1, <1>2, <1>3, <1>4, <1>5, <1>6, <1>7, <1>8

\* Everything but the place of a flow.
SameData(w, v) ==
    /\ v.request = w.request /\ v.event = w.event
    /\ v.customer = w.customer /\ v.conv = w.conv /\ v.message = w.message

LEMMA InPlaceOne ==
    ASSUME NEW w \in FlowRecord, NEW a, w.frames = <<a>>, NEW b \in Frames
    PROVE  LET v == InPlace(w, b) IN
           /\ v \in FlowRecord /\ SameData(w, v)
           /\ v.frames = <<b>> /\ v.pc = StepOf(b) /\ v.ended = w.ended
<1>0. Front(<<a>>) = <<>> /\ Append(<<>>, b) = <<b>>
  BY Singles
<1>1. Append(Front(w.frames), b) = <<b>> /\ <<b>> \in Seq(Frames)
  BY <1>0
<1>2. StepOf(b) \in Places
  BY StepPlaces
<1> QED
  BY <1>1, <1>2 DEF InPlace, FlowRecord, SameData

LEMMA InPlaceTwo ==
    ASSUME NEW w \in FlowRecord, NEW a \in Frames, NEW c, w.frames = <<a, c>>, NEW b \in Frames
    PROVE  LET v == InPlace(w, b) IN
           /\ v \in FlowRecord /\ SameData(w, v)
           /\ v.frames = <<a, b>> /\ v.pc = StepOf(b) /\ v.ended = w.ended
<1>0. Front(<<a, c>>) = <<a>> /\ Append(<<a>>, b) = <<a, b>>
  BY Singles
<1>1. Append(Front(w.frames), b) = <<a, b>> /\ <<a, b>> \in Seq(Frames)
  <2>1. <<a, b>> \in Seq(Frames)
    OBVIOUS
  <2> QED
    BY <1>0, <2>1
<1>2. StepOf(b) \in Places
  BY StepPlaces
<1> QED
  BY <1>1, <1>2 DEF InPlace, FlowRecord, SameData

LEMMA EndedOne ==
    ASSUME NEW w \in FlowRecord, NEW k \in {"webhook", "incoming", "assign"}, NEW a \in Frame(k),
           w.frames = <<a>>, NEW outcome \in Outcome
    PROVE  LET v == Ended(w, outcome) IN
           /\ v \in FlowRecord /\ SameData(w, v)
           /\ v.frames = <<>> /\ v.pc = "ended" /\ v.ended = [w.ended EXCEPT ![k] = outcome]
<1>0. Front(<<a>>) = <<>> /\ Last(<<a>>) = a
  BY Singles
<1>1. Top(w) = a /\ a.workflow = k /\ Front(w.frames) = <<>> /\ <<>> \in Seq(Frames) /\ k \in DOMAIN Steps
  BY <1>0, FrameFields, StepTable DEF Top
<1>2. PICK u : u = [w EXCEPT !.frames = <<>>, !.ended[k] = outcome, !.pc = "ended"]
  OBVIOUS
<1>3. u.frames = <<>> /\ u.pc = "ended" /\ u.ended = [w.ended EXCEPT ![k] = outcome] /\ SameData(w, u)
  BY <1>1, <1>2 DEF FlowRecord, SameData
<1>4. u \in FlowRecord
  <2>1. [w.ended EXCEPT ![k] = outcome] \in [DOMAIN Steps -> Outcome]
    BY <1>1 DEF FlowRecord
  <2> QED
    BY <1>1, <1>2, <2>1 DEF FlowRecord, Places
<1>5. Ended(w, outcome) = u
  BY <1>1, <1>2, <1>3 DEF Ended
<1> QED
  BY <1>3, <1>4, <1>5

LEMMA EndedTwo ==
    ASSUME NEW w \in FlowRecord, NEW a \in Frame("webhook"), NEW b \in Frame("incoming"),
           w.frames = <<a, b>>, a.step = 4, NEW outcome \in Outcome
    PROVE  LET v == Ended(w, outcome) IN
           /\ v \in FlowRecord /\ SameData(w, v)
           /\ v.frames = <<Following(a)>> /\ Following(a) \in Frame("webhook") /\ Following(a).step = 5
           /\ v.pc = "publish_event"
           /\ v.ended = [w.ended EXCEPT !["incoming"] = outcome]
<1> DEFINE u == [w EXCEPT !.frames = Front(@), !.ended[Top(w).workflow] = outcome, !.pc = "ended"]
<1>0. Front(<<a, b>>) = <<a>> /\ Last(<<a, b>>) = b /\ Last(<<a>>) = a /\ <<a>> # <<>>
  BY Singles
<1>1. Top(w) = b /\ b.workflow = "incoming" /\ Front(w.frames) = <<a>> /\ a \in Frames
  BY <1>0, FrameFields DEF Top
<1>2. <<a>> \in Seq(Frames)
  BY <1>1
<1>3. /\ u \in FlowRecord /\ SameData(w, u) /\ u.frames = <<a>>
      /\ u.ended = [w.ended EXCEPT !["incoming"] = outcome]
  <2>1. PICK x : x = [w EXCEPT !.frames = <<a>>, !.ended["incoming"] = outcome, !.pc = "ended"]
    OBVIOUS
  <2>2. x \in FlowRecord
    <3>1. [w.ended EXCEPT !["incoming"] = outcome] \in [DOMAIN Steps -> Outcome]
      BY StepTable DEF FlowRecord
    <3> QED
      BY <1>2, <2>1, <3>1 DEF FlowRecord, Places
  <2>3. SameData(w, x) /\ x.frames = <<a>> /\ x.ended = [w.ended EXCEPT !["incoming"] = outcome]
    BY <2>1 DEF FlowRecord, SameData
  <2>4. u = x
    BY <1>1, <2>1
  <2> QED
    BY <2>2, <2>3, <2>4
<1>4. /\ Following(a) \in Frame("webhook") /\ Following(a).step = 5 /\ Following(a) \in Frames
      /\ StepOf(Following(a)) = "publish_event"
  <2>0. a.step < Len(Steps["webhook"]) /\ a.step + 1 = 5 /\ "webhook" \in {"webhook", "incoming", "assign"}
    BY StepTable
  <2>1. Following(a) \in Frame("webhook") /\ Following(a).step = 5
    BY <2>0, FollowingIsFrame
  <2> QED
    BY <2>1, FrameFields, WebhookSteps
<1>5. u.frames # <<>> /\ Top(u) = a
  BY <1>0, <1>3 DEF Top
<1>6. Ended(w, outcome) = InPlace(u, Following(a))
  BY <1>5 DEF Ended
<1> HIDE DEF u
<1> QED
  BY <1>3, <1>4, <1>6, InPlaceOne DEF SameData

\* Where a flow in service is: in a workflow of its own, or in a message's inside it.
Outside(w, k, fr) ==
    /\ w.frames = <<fr>> /\ w.pc \in {StepOf(fr)} \cup Within(StepOf(fr))
    /\ k = "webhook" /\ fr.step <= 4 => w.ended["incoming"] = "none"
Inside(w, out, fr) ==
    /\ w.frames = <<out, fr>> /\ w.pc \in {StepOf(fr)} \cup Within(StepOf(fr))
    /\ out.step = 4 /\ w.ended["incoming"] = "none"

LEMMA InService ==
    ASSUME NEW w, Placed(w), w.frames # <<>>
    PROVE  \/ \E k \in {"webhook", "assign"} : \E fr \in Frame(k) : Outside(w, k, fr)
           \/ \E out \in Frame("webhook"), fr \in Frame("incoming") : Inside(w, out, fr)
<1>1. CASE \E fr \in Frame("webhook") \cup Frame("assign") :
         /\ w.frames = <<fr>> /\ w.pc \in {StepOf(fr)} \cup Within(StepOf(fr))
         /\ fr.workflow = "webhook" /\ fr.step <= 4 => w.ended["incoming"] = "none"
  <2> PICK fr \in Frame("webhook") \cup Frame("assign") :
         /\ w.frames = <<fr>> /\ w.pc \in {StepOf(fr)} \cup Within(StepOf(fr))
         /\ fr.workflow = "webhook" /\ fr.step <= 4 => w.ended["incoming"] = "none"
    BY <1>1
  <2>1. CASE fr \in Frame("webhook")
    BY <2>1, WebhookSteps DEF Outside
  <2>2. CASE fr \in Frame("assign")
    BY <2>2 DEF Outside
  <2> QED
    BY <2>1, <2>2
<1> QED
  BY <1>1 DEF Placed, Inside

LEMMA OutsideIsPlaced ==
    ASSUME NEW w, NEW k \in {"webhook", "assign"}, NEW fr \in Frame(k), Outside(w, k, fr)
    PROVE  /\ Placed(w) /\ ~Inner(w) /\ w.frames = <<fr>> /\ w.frames[1] = fr /\ Len(w.frames) = 1 /\ Top(w) = fr
           /\ fr.workflow = k /\ fr.step \in 1 .. 5 /\ Len(Steps[k]) = 5 /\ fr \in Frames
<1>1. Len(<<fr>>) = 1 /\ <<fr>>[1] = fr /\ Last(<<fr>>) = fr
  BY Singles
<1>2. w.frames = <<fr>>
  BY DEF Outside
<1>3. fr.workflow = k /\ fr.step \in 1 .. 5 /\ Len(Steps[k]) = 5 /\ fr \in Frames
  BY FrameFields, StepTable
<1>4. Placed(w)
  BY <1>3 DEF Placed, Outside
<1> QED
  BY <1>1, <1>2, <1>3, <1>4 DEF Inner, Top

LEMMA InsideIsPlaced ==
    ASSUME NEW w, NEW out \in Frame("webhook"), NEW fr \in Frame("incoming"), Inside(w, out, fr)
    PROVE  /\ Placed(w) /\ Inner(w) /\ w.frames = <<out, fr>> /\ w.frames[2] = fr /\ Len(w.frames) = 2 /\ Top(w) = fr
           /\ fr.workflow = "incoming" /\ fr.step \in 1 .. 7 /\ Len(Steps["incoming"]) = 7
           /\ fr \in Frames /\ out \in Frames
<1>1. Len(<<out, fr>>) = 2 /\ <<out, fr>>[2] = fr /\ Last(<<out, fr>>) = fr
  BY Singles
<1>2. w.frames = <<out, fr>>
  BY DEF Inside
<1>3. fr.workflow = "incoming" /\ fr.step \in 1 .. 7 /\ Len(Steps["incoming"]) = 7 /\ fr \in Frames /\ out \in Frames
  BY FrameFields, StepTable
<1>4. Placed(w)
  BY DEF Placed, Inside
<1> QED
  BY <1>1, <1>2, <1>3, <1>4 DEF Inner, Top

LEMMA EndedIsPlaced ==
    ASSUME NEW w, w.frames = <<>>, w.pc = "ended"
    PROVE  Placed(w) /\ ~Inner(w) /\ Len(w.frames) = 0
  BY DEF Placed, Inner

\* What the engine makes of a flow: nothing is known that was not, and it is before
\* the first await of a step or at the end.
Moved(w, v) ==
    /\ v \in FlowRecord /\ Placed(v) /\ SameData(w, v)
    /\ v.pc \notin Awaited \cup {"ready"}
    /\ Unsent(v) => Unsent(w)

LEMMA SteppedMoves ==
    ASSUME NEW w \in FlowRecord, Placed(w), w.frames # <<>>
    PROVE  LET v == Stepped(w) IN
           /\ Moved(w, v)
           /\ \A k \in 1 .. 6 : Behind(v, k) => Behind(w, k) \/ (Inner(w) /\ w.frames[2].step = k)
           /\ \A k \in 1 .. 6 : Assigning(v, k) => Assigning(w, k) \/ (Assigning(w, 0) /\ w.frames[1].step = k)
<1> DEFINE v == Stepped(w)
<1>1. ASSUME NEW k \in {"webhook", "assign"}, NEW fr \in Frame(k), Outside(w, k, fr)
      PROVE  /\ Moved(w, v)
             /\ \A i \in 1 .. 6 : Behind(v, i) => Behind(w, i)
             /\ \A i \in 1 .. 6 : Assigning(v, i) => Assigning(w, i) \/ (Assigning(w, 0) /\ w.frames[1].step = i)
  <2>1. /\ fr.workflow = k /\ fr.step \in 1 .. 5 /\ Len(Steps[k]) = 5 /\ fr \in Frames
        /\ w.frames = <<fr>> /\ Top(w) = fr /\ ~Inner(w) /\ w.frames[1] = fr /\ Len(w.frames) = 1
    BY <1>1, OutsideIsPlaced
  <2>2. CASE fr.step < 5
    <3> DEFINE b == Following(fr)
    <3>1. b \in Frame(k) /\ b.step = fr.step + 1 /\ b \in Frames /\ b.workflow = k
      <4>1. fr.step < Len(Steps[k])
        BY <2>1, <2>2
      <4> QED
        BY <4>1, FollowingIsFrame
    <3>2. v = InPlace(w, b)
      BY <2>1, <2>2 DEF Stepped
    <3> HIDE DEF b
    <3>3. v \in FlowRecord /\ SameData(w, v) /\ v.frames = <<b>> /\ v.pc = StepOf(b) /\ v.ended = w.ended
      BY <2>1, <3>1, <3>2, InPlaceOne
    <3> HIDE DEF v
    <3>4. Outside(v, k, b)
      BY <1>1, <2>1, <3>1, <3>3 DEF Outside
    <3>5. Placed(v) /\ ~Inner(v) /\ v.frames[1] = b /\ Len(v.frames) = 1
      BY <3>1, <3>4, OutsideIsPlaced
    <3>6. v.pc \notin Awaited \cup {"ready"}
      BY <3>1, <3>3, StepPlaces
    <3>7. Moved(w, v) /\ \A i \in 1 .. 6 : Behind(v, i) => Behind(w, i)
      BY <2>1, <3>3, <3>5, <3>6 DEF Moved, Unsent, Behind
    <3>8. \A i \in 1 .. 6 : Assigning(v, i) => Assigning(w, i) \/ (Assigning(w, 0) /\ w.frames[1].step = i)
      BY <2>1, <3>1, <3>5 DEF Assigning
    <3> QED
      BY <3>7, <3>8
  <2>3. CASE fr.step = 5
    <3>0. ~(Top(w).step < Len(Steps[Top(w).workflow]))
      <4>1. Top(w).step = 5 /\ Len(Steps[Top(w).workflow]) = 5
        BY <2>1, <2>3, Zenon
      <4>2. ~(5 < 5)
        OBVIOUS
      <4> QED
        BY <4>1, <4>2, Zenon
    <3>1. v = Ended(w, "completed")
      BY <3>0 DEF Stepped
    <3>2. /\ v \in FlowRecord /\ SameData(w, v)
          /\ v.frames = <<>> /\ v.pc = "ended" /\ v.ended = [w.ended EXCEPT ![k] = "completed"]
      BY <2>1, <3>1, EndedOne DEF Outcome
    <3>3. Placed(v) /\ ~Inner(v) /\ Len(v.frames) = 0
      BY <3>2, EndedIsPlaced
    <3>4. v.ended["incoming"] = w.ended["incoming"]
      BY <3>2, StepTable DEF FlowRecord
    <3> QED
      BY <2>1, <3>2, <3>3, <3>4 DEF Moved, Unsent, Behind, Awaited, Assigning
  <2> QED
    BY <2>1, <2>2, <2>3
<1>2. ASSUME NEW out \in Frame("webhook"), NEW fr \in Frame("incoming"), Inside(w, out, fr)
      PROVE  /\ Moved(w, v)
             /\ \A i \in 1 .. 6 : Behind(v, i) => Behind(w, i) \/ (Inner(w) /\ w.frames[2].step = i)
             /\ \A i \in 1 .. 6 : Assigning(v, i) => FALSE
  <2>1. /\ fr.workflow = "incoming" /\ fr.step \in 1 .. 7 /\ Len(Steps["incoming"]) = 7 /\ fr \in Frames /\ out \in Frames
        /\ w.frames = <<out, fr>> /\ Top(w) = fr /\ Inner(w) /\ w.frames[2] = fr /\ Len(w.frames) = 2
    BY <1>2, InsideIsPlaced
  <2>2. CASE fr.step < 7
    <3> DEFINE b == Following(fr)
    <3>1. b \in Frame("incoming") /\ b.step = fr.step + 1 /\ b \in Frames
      <4>1. fr.step < Len(Steps["incoming"])
        BY <2>1, <2>2
      <4> QED
        BY <4>1, FollowingIsFrame
    <3>2. v = InPlace(w, b)
      BY <2>1, <2>2 DEF Stepped
    <3> HIDE DEF b
    <3>3. v \in FlowRecord /\ SameData(w, v) /\ v.frames = <<out, b>> /\ v.pc = StepOf(b) /\ v.ended = w.ended
      BY <2>1, <3>1, <3>2, InPlaceTwo
    <3> HIDE DEF v
    <3>4. Inside(v, out, b)
      BY <1>2, <3>3 DEF Inside
    <3>5. Placed(v) /\ Inner(v) /\ v.frames[2] = b /\ Len(v.frames) = 2
      BY <3>1, <3>4, InsideIsPlaced
    <3>6. v.pc \notin Awaited \cup {"ready"}
      BY <3>1, <3>3, StepPlaces
    <3>7. Moved(w, v)
      BY <2>1, <3>1, <3>3, <3>5, <3>6 DEF Moved, Unsent
    <3> QED
      BY <2>1, <3>1, <3>3, <3>5, <3>7 DEF Behind, Assigning
  <2>3. CASE fr.step = 7
    <3>0. ~(Top(w).step < Len(Steps[Top(w).workflow]))
      <4>1. Top(w).step = 7 /\ Len(Steps[Top(w).workflow]) = 7
        BY <2>1, <2>3, Zenon
      <4>2. ~(7 < 7)
        OBVIOUS
      <4> QED
        BY <4>1, <4>2, Zenon
    <3>1. v = Ended(w, "completed")
      BY <3>0 DEF Stepped
    <3> DEFINE b == Following(out)
    <3>2. /\ v \in FlowRecord /\ SameData(w, v)
          /\ v.frames = <<b>> /\ b \in Frame("webhook") /\ b.step = 5
          /\ v.pc = "publish_event" /\ v.ended = [w.ended EXCEPT !["incoming"] = "completed"]
      <4>1. out.step = 4 /\ "completed" \in Outcome /\ "failed" \in Outcome
        BY <1>2 DEF Outcome, Inside
      <4> HIDE DEF v
      <4> QED
        BY <2>1, <3>1, <4>1, EndedTwo
    <3> HIDE DEF b, v
    <3>3. b.workflow = "webhook" /\ StepOf(b) = "publish_event"
      BY <3>2, WebhookSteps
    <3>4. Outside(v, "webhook", b)
      BY <3>2, <3>3 DEF Outside
    <3>5. Placed(v) /\ ~Inner(v) /\ v.frames[1] = b /\ Len(v.frames) = 1
      BY <3>2, <3>4, OutsideIsPlaced
    <3>6. v.ended["incoming"] = "completed"
      BY <3>2, StepTable DEF FlowRecord
    <3>7. Moved(w, v)
      BY <3>2, <3>5, <3>6 DEF Moved, Unsent, Awaited
    <3>8. \A i \in 1 .. 6 : Behind(w, i) \/ w.frames[2].step = i
      BY <2>1, <2>3 DEF Behind
    <3> QED
      BY <2>1, <3>3, <3>5, <3>7, <3>8 DEF Assigning
  <2> QED
    BY <2>1, <2>2, <2>3
<1> QED
  BY <1>1, <1>2, InService

\* A message is sent once it is stored.
LEMMA SteppedSends ==
    ASSUME NEW w \in FlowRecord, Placed(w), w.frames # <<>>, Inner(w), w.frames[2].step = 5
    PROVE  ~Unsent(Stepped(w))
<1>1. PICK out \in Frame("webhook"), fr \in Frame("incoming") : Inside(w, out, fr)
  <2>1. ASSUME NEW k \in {"webhook", "assign"}, NEW fr \in Frame(k), Outside(w, k, fr) PROVE FALSE
    BY <2>1, OutsideIsPlaced
  <2> QED
    BY <2>1, InService
<1>2. /\ fr.workflow = "incoming" /\ fr.step = 5 /\ Len(Steps["incoming"]) = 7 /\ fr \in Frames /\ out \in Frames
      /\ w.frames = <<out, fr>> /\ Top(w) = fr
  BY <1>1, InsideIsPlaced
<1> DEFINE b == Following(fr)
           v == Stepped(w)
<1>3. b \in Frame("incoming") /\ b.step = 6 /\ b \in Frames
  <2>1. fr.step < Len(Steps["incoming"])
    BY <1>2
  <2>2. b \in Frame("incoming") /\ b.step = fr.step + 1 /\ b \in Frames
    BY <2>1, FollowingIsFrame
  <2> QED
    BY <1>2, <2>2
<1>4. v = InPlace(w, b)
  <2>1. Top(w).step = 5 /\ Len(Steps[Top(w).workflow]) = 7
    BY <1>2, Zenon
  <2>2. 5 < 7
    OBVIOUS
  <2>3. Top(w).step < Len(Steps[Top(w).workflow])
    BY <2>1, <2>2, Zenon
  <2> QED
    BY <1>2, <2>3 DEF Stepped
<1> HIDE DEF b
<1>5. v.frames = <<out, b>>
  BY <1>2, <1>3, <1>4, InPlaceTwo
<1> HIDE DEF v
<1>6. Len(v.frames) = 2 /\ v.frames[2].step = 6
  BY <1>3, <1>5, Singles
<1>7. ~Unsent(v)
  BY <1>6 DEF Unsent, Inner
<1> QED
  BY <1>7 DEF v

LEMMA RaisedMoves ==
    ASSUME NEW w \in FlowRecord, Placed(w), w.frames # <<>>
    PROVE  LET v == Raised(w) IN
           /\ Moved(w, v)
           /\ \A k \in {2, 3, 5} : Behind(v, k) => Behind(w, k)
           /\ \A k \in {1, 3} : Assigning(v, k) => Assigning(w, k)
<1> DEFINE v == Raised(w)
           again == Again(Top(w))
<1>1. ASSUME NEW k \in {"webhook", "assign"}, NEW fr \in Frame(k), Outside(w, k, fr)
      PROVE  /\ Moved(w, v)
             /\ \A i \in {2, 3, 5} : Behind(v, i) => Behind(w, i)
             /\ \A i \in {1, 3} : Assigning(v, i) => Assigning(w, i)
  <2>1. /\ fr.workflow = k /\ fr.step \in 1 .. 5 /\ Len(Steps[k]) = 5 /\ fr \in Frames
        /\ w.frames = <<fr>> /\ Top(w) = fr /\ ~Inner(w) /\ w.frames[1] = fr /\ Len(w.frames) = 1
    BY <1>1, OutsideIsPlaced
  <2>2. CASE fr.tries + 1 < MaxTries
    <3>1. again \in Frame(k) /\ again.step = fr.step /\ again \in Frames /\ again.workflow = k
      BY <2>1, <2>2, AgainIsFrame
    <3>2. v = InPlace(w, again)
      BY <2>1, <2>2 DEF Raised, Again
    <3> HIDE DEF again
    <3>3. v \in FlowRecord /\ SameData(w, v) /\ v.frames = <<again>> /\ v.pc = StepOf(again) /\ v.ended = w.ended
      BY <2>1, <3>1, <3>2, InPlaceOne
    <3> HIDE DEF v
    <3>4. Outside(v, k, again)
      BY <1>1, <2>1, <3>1, <3>3 DEF Outside
    <3>5. Placed(v) /\ ~Inner(v) /\ v.frames[1] = again /\ Len(v.frames) = 1
      BY <3>1, <3>4, OutsideIsPlaced
    <3>6. v.pc \notin Awaited \cup {"ready"}
      BY <3>1, <3>3, StepPlaces
    <3> QED
      BY <2>1, <3>1, <3>3, <3>5, <3>6 DEF Moved, Unsent, Behind, Assigning
  <2>3. CASE ~(fr.tries + 1 < MaxTries) /\ StepOf(fr) \in Skippable[k]
    <3>1. v = Stepped(w)
      BY <2>1, <2>3 DEF Raised
    <3>2. k = "assign" => fr.step = 5
      BY <2>1, <2>3, AssignSteps DEF Skippable
    <3> HIDE DEF v
    <3>3. /\ Moved(w, v)
          /\ \A i \in 1 .. 6 : Behind(v, i) => Behind(w, i) \/ (Inner(w) /\ w.frames[2].step = i)
          /\ \A i \in 1 .. 6 : Assigning(v, i) => Assigning(w, i) \/ (Assigning(w, 0) /\ w.frames[1].step = i)
      BY <3>1, SteppedMoves
    <3> QED
      BY <2>1, <3>2, <3>3 DEF Assigning
  <2>4. CASE ~(fr.tries + 1 < MaxTries) /\ StepOf(fr) \notin Skippable[k]
    <3>1. v = Ended(w, "failed")
      BY <2>1, <2>4 DEF Raised
    <3>2. /\ v \in FlowRecord /\ SameData(w, v)
          /\ v.frames = <<>> /\ v.pc = "ended" /\ v.ended = [w.ended EXCEPT ![k] = "failed"]
      BY <2>1, <3>1, EndedOne DEF Outcome
    <3> HIDE DEF v
    <3>3. Placed(v) /\ ~Inner(v) /\ Len(v.frames) = 0
      BY <3>2, EndedIsPlaced
    <3>4. v.ended["incoming"] = w.ended["incoming"]
      BY <3>2, StepTable DEF FlowRecord
    <3> QED
      BY <2>1, <3>2, <3>3, <3>4 DEF Moved, Unsent, Behind, Awaited, Assigning
  <2> QED
    BY <2>2, <2>3, <2>4
<1>2. ASSUME NEW out \in Frame("webhook"), NEW fr \in Frame("incoming"), Inside(w, out, fr)
      PROVE  /\ Moved(w, v)
             /\ \A i \in {2, 3, 5} : Behind(v, i) => Behind(w, i)
             /\ \A i \in {1, 3} : Assigning(v, i) => Assigning(w, i)
  <2>1. /\ fr.workflow = "incoming" /\ fr.step \in 1 .. 7 /\ Len(Steps["incoming"]) = 7 /\ fr \in Frames /\ out \in Frames
        /\ w.frames = <<out, fr>> /\ Top(w) = fr /\ Inner(w) /\ w.frames[2] = fr /\ Len(w.frames) = 2
    BY <1>2, InsideIsPlaced
  <2>2. CASE fr.tries + 1 < MaxTries
    <3>1. again \in Frame("incoming") /\ again.step = fr.step /\ again \in Frames
      BY <2>1, <2>2, AgainIsFrame
    <3>2. v = InPlace(w, again)
      BY <2>1, <2>2 DEF Raised, Again
    <3> HIDE DEF again
    <3>3. v \in FlowRecord /\ SameData(w, v) /\ v.frames = <<out, again>> /\ v.pc = StepOf(again) /\ v.ended = w.ended
      BY <2>1, <3>1, <3>2, InPlaceTwo
    <3> HIDE DEF v
    <3>4. Inside(v, out, again)
      BY <1>2, <3>3 DEF Inside
    <3>5. Placed(v) /\ Inner(v) /\ v.frames[2] = again /\ Len(v.frames) = 2
      BY <3>1, <3>4, InsideIsPlaced
    <3>6. v.pc \notin Awaited \cup {"ready"}
      BY <3>1, <3>3, StepPlaces
    <3> QED
      BY <2>1, <3>1, <3>3, <3>5, <3>6 DEF Moved, Unsent, Behind, Assigning
  <2>3. CASE ~(fr.tries + 1 < MaxTries) /\ StepOf(fr) \in Skippable["incoming"]
    <3>1. v = Stepped(w)
      BY <2>1, <2>3 DEF Raised
    <3>2. fr.step \notin {2, 3, 5}
      BY <2>1, <2>3, IncomingSteps DEF Skippable
    <3> HIDE DEF v
    <3>3. /\ Moved(w, v)
          /\ \A i \in 1 .. 6 : Behind(v, i) => Behind(w, i) \/ (Inner(w) /\ w.frames[2].step = i)
          /\ \A i \in 1 .. 6 : Assigning(v, i) => Assigning(w, i) \/ (Assigning(w, 0) /\ w.frames[1].step = i)
      BY <3>1, SteppedMoves
    <3>4. \A i \in {2, 3, 5} : i \in 1 .. 6 /\ w.frames[2].step # i
      BY <2>1, <3>2
    <3> QED
      BY <2>1, <3>3, <3>4 DEF Assigning
  <2>4. CASE ~(fr.tries + 1 < MaxTries) /\ StepOf(fr) \notin Skippable["incoming"]
    <3>1. v = Ended(w, "failed")
      BY <2>1, <2>4 DEF Raised
    <3> DEFINE b == Following(out)
    <3>2. /\ v \in FlowRecord /\ SameData(w, v)
          /\ v.frames = <<b>> /\ b \in Frame("webhook") /\ b.step = 5
          /\ v.pc = "publish_event" /\ v.ended = [w.ended EXCEPT !["incoming"] = "failed"]
      <4>1. out.step = 4 /\ "completed" \in Outcome /\ "failed" \in Outcome
        BY <1>2 DEF Outcome, Inside
      <4> HIDE DEF v
      <4> QED
        BY <2>1, <3>1, <4>1, EndedTwo
    <3> HIDE DEF b, v
    <3>3. b.workflow = "webhook" /\ StepOf(b) = "publish_event"
      BY <3>2, WebhookSteps
    <3>4. Outside(v, "webhook", b)
      BY <3>2, <3>3 DEF Outside
    <3>5. Placed(v) /\ ~Inner(v) /\ v.frames[1] = b /\ Len(v.frames) = 1
      BY <3>2, <3>4, OutsideIsPlaced
    <3>6. v.ended["incoming"] = "failed"
      BY <3>2, StepTable DEF FlowRecord
    <3> QED
      BY <3>2, <3>3, <3>5, <3>6 DEF Moved, Unsent, Awaited, Behind, Assigning
  <2> QED
    BY <2>2, <2>3, <2>4
<1> QED
  BY <1>1, <1>2, InService

LEMMA SteppedBuilt ==
    ASSUME NEW w \in FlowRecord, Placed(w), w.frames # <<>>,
           NEW f, NEW n, NEW ids, NEW cs, NEW ms,
           Behind(w, 2) \/ (Inner(w) /\ w.frames[2].step = 2) => Found(w, ids),
           Behind(w, 3) \/ (Inner(w) /\ w.frames[2].step = 3) => Opened(w, cs),
           Behind(w, 5) \/ (Inner(w) /\ w.frames[2].step = 5) => Stored(w, f, ms),
           Assigning(w, 1) \/ (Assigning(w, 0) /\ w.frames[1].step = 1) => cs # <<>>,
           Assigning(w, 3) \/ (Assigning(w, 0) /\ w.frames[1].step = 3) => Joined(w, cs)
    PROVE  BuiltOn(Stepped(w), f, n, ids, cs, ms)
<1> DEFINE v == Stepped(w)
<1>1. /\ Moved(w, v)
      /\ \A k \in 1 .. 6 : Behind(v, k) => Behind(w, k) \/ (Inner(w) /\ w.frames[2].step = k)
      /\ \A k \in 1 .. 6 : Assigning(v, k) => Assigning(w, k) \/ (Assigning(w, 0) /\ w.frames[1].step = k)
  BY SteppedMoves
<1> HIDE DEF v
<1>2. SameData(w, v) /\ v.pc # "insert_identity"
  BY <1>1 DEF Moved, Awaited
<1>3. {1, 2, 3, 5} \subseteq 1 .. 6
  OBVIOUS
<1>4. /\ Behind(v, 2) => Found(w, ids)
      /\ Behind(v, 3) => Opened(w, cs)
      /\ Behind(v, 5) => Stored(w, f, ms)
  BY <1>1, <1>3
<1>5. /\ Assigning(v, 1) => cs # <<>>
      /\ Assigning(v, 3) => Joined(w, cs)
  BY <1>1, <1>3
<1>6. BuiltOn(v, f, n, ids, cs, ms)
  BY <1>2, <1>4, <1>5 DEF BuiltOn, SameData, Found, Opened, Stored, Joined
<1> QED
  BY <1>6 DEF v

LEMMA RaisedBuilt ==
    ASSUME NEW w \in FlowRecord, Placed(w), w.frames # <<>>,
           NEW f, NEW n, NEW ids, NEW cs, NEW ms, BuiltOn(w, f, n, ids, cs, ms)
    PROVE  BuiltOn(Raised(w), f, n, ids, cs, ms)
<1> DEFINE v == Raised(w)
<1>1. /\ Moved(w, v)
      /\ \A k \in {2, 3, 5} : Behind(v, k) => Behind(w, k)
      /\ \A k \in {1, 3} : Assigning(v, k) => Assigning(w, k)
  BY RaisedMoves
<1> HIDE DEF v
<1>2. SameData(w, v) /\ v.pc # "insert_identity"
  BY <1>1 DEF Moved, Awaited
<1>3. BuiltOn(v, f, n, ids, cs, ms)
  BY <1>1, <1>2 DEF BuiltOn, SameData, Found, Opened, Stored, Joined
<1> QED
  BY <1>3 DEF v

\* Which step a flow is in, by the await it stands at.
LEMMA Whereabouts ==
    ASSUME NEW w \in FlowRecord, Placed(w)
    PROVE  /\ w.pc \notin {"ready", "ended"} => w.frames # <<>>
           /\ w.frames # <<>> => w.pc \notin {"ready", "ended"}
           /\ w.pc = "ready" => w.frames = <<>> /\ w.ended["incoming"] = "none"
           /\ w.pc \in {"get_or_create_customer", "insert_customer", "insert_identity"} =>
                /\ Inner(w) /\ w.frames[2].step = 2 /\ w.ended["incoming"] = "none"
                /\ StepOf(Top(w)) = "get_or_create_customer"
           /\ w.pc \in {"get_or_create_conversation", "insert_conversation"} =>
                /\ Inner(w) /\ w.frames[2].step = 3 /\ w.ended["incoming"] = "none"
                /\ StepOf(Top(w)) = "get_or_create_conversation"
           /\ w.pc = "create_message" => Inner(w) /\ w.frames[2].step = 5 /\ w.ended["incoming"] = "none"
           /\ w.pc = "update_conversation_metadata" => Inner(w) /\ w.frames[2].step = 6 /\ w.ended["incoming"] = "none"
           /\ w.pc = "execute_handler" => \E fr \in Frame("webhook") : Outside(w, "webhook", fr) /\ fr.step = 4
           /\ w.pc = "assign_participant" => Assigning(w, 0) /\ ~Inner(w) /\ w.frames[1].step = 3
           /\ w.pc = "update_conversation" => Assigning(w, 0) /\ ~Inner(w) /\ w.frames[1].step = 4
           /\ w.pc = "validate_assignment" => Assigning(w, 0) /\ ~Inner(w) /\ w.frames[1].step = 1
           /\ w.pc \in {"publish_event", "push"} => StepOf(Top(w)) = "publish_event"
           /\ w.pc \in {"check_permissions", "validate_webhook", "parse_payload", "determine_event_type", "publish_event", "push",
                        "validate", "add_participant"} =>
                /\ Inner(w) => w.frames[2].step \notin {2, 3, 5}
                /\ Assigning(w, 0) => w.frames[1].step \notin {1, 3}
<1>1. CASE w.frames = <<>>
  BY <1>1 DEF Placed
<1>2. ASSUME NEW fr \in Frame("webhook"), Outside(w, "webhook", fr)
      PROVE  /\ ~Inner(w) /\ ~Assigning(w, 0) /\ w.frames # <<>> /\ Top(w) = fr
             /\ w.pc \in {"validate_webhook", "parse_payload", "determine_event_type", "execute_handler", "publish_event", "push"}
             /\ w.pc = "execute_handler" => fr.step = 4
             /\ w.pc \in {"publish_event", "push"} => StepOf(fr) = "publish_event"
  <2>1. /\ ~Inner(w) /\ w.frames = <<fr>> /\ w.frames[1] = fr /\ Len(w.frames) = 1 /\ Top(w) = fr
        /\ fr.workflow = "webhook" /\ fr.step \in 1 .. 5
    BY <1>2, OutsideIsPlaced
  <2>2. fr.step = 1 \/ fr.step = 2 \/ fr.step = 3 \/ fr.step = 4 \/ fr.step = 5
    BY <2>1
  <2>3. w.pc \in {StepOf(fr)} \cup Within(StepOf(fr))
    BY <1>2 DEF Outside
  <2> QED
    BY <2>1, <2>2, <2>3, WebhookSteps DEF Within, Assigning
<1>3. ASSUME NEW fr \in Frame("assign"), Outside(w, "assign", fr)
      PROVE  /\ ~Inner(w) /\ Assigning(w, 0) /\ w.frames # <<>> /\ Top(w) = fr /\ w.frames[1] = fr
             /\ w.pc \in {"validate_assignment", "check_permissions", "assign_participant", "update_conversation", "publish_event", "push"}
             /\ w.pc = "validate_assignment" => fr.step = 1
             /\ w.pc = "check_permissions" => fr.step = 2
             /\ w.pc = "assign_participant" => fr.step = 3
             /\ w.pc = "update_conversation" => fr.step = 4
             /\ w.pc \in {"publish_event", "push"} => StepOf(fr) = "publish_event" /\ fr.step = 5
  <2>1. /\ ~Inner(w) /\ w.frames = <<fr>> /\ w.frames[1] = fr /\ Len(w.frames) = 1 /\ Top(w) = fr
        /\ fr.workflow = "assign" /\ fr.step \in 1 .. 5
    BY <1>3, OutsideIsPlaced
  <2>2. fr.step = 1 \/ fr.step = 2 \/ fr.step = 3 \/ fr.step = 4 \/ fr.step = 5
    BY <2>1
  <2>3. w.pc \in {StepOf(fr)} \cup Within(StepOf(fr))
    BY <1>3 DEF Outside
  <2> QED
    BY <2>1, <2>2, <2>3, AssignSteps DEF Within, Assigning
<1>4. ASSUME NEW out \in Frame("webhook"), NEW fr \in Frame("incoming"), Inside(w, out, fr)
      PROVE  /\ Inner(w) /\ ~Assigning(w, 0) /\ w.frames # <<>> /\ Top(w) = fr /\ w.frames[2] = fr /\ w.ended["incoming"] = "none"
             /\ w.pc \in {"validate", "get_or_create_customer", "insert_customer", "insert_identity",
                          "get_or_create_conversation", "insert_conversation", "add_participant",
                          "create_message", "update_conversation_metadata", "publish_event", "push"}
             /\ w.pc = "validate" => fr.step = 1
             /\ w.pc \in {"get_or_create_customer", "insert_customer", "insert_identity"} =>
                  fr.step = 2 /\ StepOf(fr) = "get_or_create_customer"
             /\ w.pc \in {"get_or_create_conversation", "insert_conversation"} =>
                  fr.step = 3 /\ StepOf(fr) = "get_or_create_conversation"
             /\ w.pc = "add_participant" => fr.step = 4
             /\ w.pc = "create_message" => fr.step = 5
             /\ w.pc = "update_conversation_metadata" => fr.step = 6
             /\ w.pc \in {"publish_event", "push"} => StepOf(fr) = "publish_event" /\ fr.step = 7
  <2>1. /\ Inner(w) /\ w.frames = <<out, fr>> /\ w.frames[2] = fr /\ Len(w.frames) = 2 /\ Top(w) = fr
        /\ fr.step \in 1 .. 7
    <3>1. Inside(w, out, fr)
      BY <1>4
    <3>2. Inner(w) /\ Top(w) = fr
      BY <3>1, InsideIsPlaced
    <3>3. w.frames = <<out, fr>> /\ w.frames[2] = fr /\ Len(w.frames) = 2
      BY <3>1, InsideIsPlaced
    <3>4. fr.step \in 1 .. 7
      BY <3>1, InsideIsPlaced
    <3> QED
      BY <3>2, <3>3, <3>4
  <2>2. fr.step = 1 \/ fr.step = 2 \/ fr.step = 3 \/ fr.step = 4 \/ fr.step = 5 \/ fr.step = 6 \/ fr.step = 7
    BY <2>1
  <2>3. w.pc \in {StepOf(fr)} \cup Within(StepOf(fr)) /\ w.ended["incoming"] = "none"
    BY <1>4 DEF Inside
  <2> QED
    BY <2>1, <2>2, <2>3, IncomingSteps DEF Within, Assigning
<1> QED
  BY <1>1, <1>2, <1>3, <1>4, InService

------------------------------------------------------------------------------
(* What a step does to the documents *)

\* Documents are added and never taken away, and what a conversation was opened
\* for and a message said stays.
Grows ==
    /\ customers <= customers' /\ identified \subseteq identified'
    /\ Len(convs) <= Len(convs')
    /\ \A i \in DOMAIN convs :
         /\ convs'[i].customer = convs[i].customer
         /\ convs[i].participants \subseteq convs'[i].participants
    /\ Len(messages) <= Len(messages')
    /\ \A i \in DOMAIN messages : messages'[i] = messages[i]

FaultsGrow == faults \in Nat /\ faults' \in Nat /\ faults <= faults'

\* The flow stores a message, or none and is not further than it was without a fault.
SendsNone(f, v) ==
    /\ messages' = messages
    /\ Unsent(v) => Unsent(flows[f]) \/ faults < faults'
SendsOne(f, v) ==
    /\ Unsent(flows[f]) /\ (~Unsent(v) \/ faults < faults')
    /\ \E c \in Nat : messages' = Append(messages, [by |-> f, conv |-> c])

AddingPlaces == {"insert_customer", "insert_identity"}
AddsNothing(f, v) ==
    /\ UNCHANGED <<identified, overlapped>>
    /\ v.pc \in AddingPlaces => Adding(f)
AddsFirst(f) ==
    /\ identified = {} /\ UNCHANGED identified
    /\ overlapped' = (overlapped \/ \E g \in Flows \ {f} : Adding(g))
AddsIdentity(f, v) ==
    /\ Adding(f) /\ v.pc \notin AddingPlaces
    /\ identified' = identified \cup {flows[f].customer} /\ UNCHANGED overlapped

LEMMA SequenceFacts ==
    ASSUME NEW S, NEW q \in Seq(S)
    PROVE  /\ Len(q) \in Nat /\ DOMAIN q = 1 .. Len(q)
           /\ \A i \in DOMAIN q : q[i] \in S
           /\ q # <<>> <=> 1 \in DOMAIN q
<1>1. Len(q) \in Nat /\ DOMAIN q = 1 .. Len(q)
  OBVIOUS
<1>2. q # <<>> => Len(q) \in Nat \ {0}
  BY EmptySeq
<1>3. q = <<>> => Len(q) = 0
  OBVIOUS
<1>4. \A i \in DOMAIN q : q[i] \in S
  BY <1>1, ElementOfSeq
<1> QED
  BY <1>1, <1>2, <1>3, <1>4

LEMMA AppendFacts ==
    ASSUME NEW S, NEW q \in Seq(S), NEW x \in S, NEW p, p = Append(q, x)
    PROVE  /\ p \in Seq(S) /\ Len(p) = Len(q) + 1 /\ DOMAIN p = DOMAIN q \cup {Len(q) + 1}
           /\ Len(q) + 1 \notin DOMAIN q
           /\ \A i \in DOMAIN q : p[i] = q[i]
           /\ p[Len(q) + 1] = x
<1>1. /\ p \in Seq(S) /\ Len(p) = Len(q) + 1 /\ p[Len(q) + 1] = x
      /\ \A i \in 1 .. Len(q) : p[i] = q[i]
  BY AppendProperties
<1>2. DOMAIN p = 1 .. Len(p) /\ DOMAIN q = 1 .. Len(q) /\ Len(q) \in Nat
  BY <1>1, SequenceFacts
<1> QED
  BY <1>1, <1>2

LEMMA BuiltOnGrows ==
    ASSUME StoreTypes, StoreTypes', Grows, NEW w \in FlowRecord, NEW f,
           BuiltOn(w, f, customers, identified, convs, messages)
    PROVE  BuiltOn(w, f, customers', identified', convs', messages')
<1>1. /\ DOMAIN convs \subseteq DOMAIN convs' /\ DOMAIN messages \subseteq DOMAIN messages'
      /\ convs # <<>> => 1 \in DOMAIN convs /\ convs' # <<>>
  <2>1. /\ Len(convs) \in Nat /\ DOMAIN convs = 1 .. Len(convs) /\ Len(convs') \in Nat /\ DOMAIN convs' = 1 .. Len(convs')
        /\ Len(messages) \in Nat /\ DOMAIN messages = 1 .. Len(messages)
        /\ Len(messages') \in Nat /\ DOMAIN messages' = 1 .. Len(messages')
    BY SequenceFacts DEF StoreTypes
  <2>2. DOMAIN convs \subseteq DOMAIN convs' /\ DOMAIN messages \subseteq DOMAIN messages'
    BY <2>1 DEF Grows
  <2>3. (convs # <<>> => 1 \in DOMAIN convs) /\ (1 \in DOMAIN convs' => convs' # <<>>)
    BY SequenceFacts DEF StoreTypes
  <2> QED
    BY <2>2, <2>3
<1>2. 1 .. customers \subseteq 1 .. customers'
  BY DEF StoreTypes, Grows
<1>3. Behind(w, 2) => Found(w, identified')
  BY DEF BuiltOn, Found, Grows
<1>4. Behind(w, 3) => Opened(w, convs')
  BY <1>1 DEF BuiltOn, Opened, Grows
<1>5. Behind(w, 5) => Stored(w, f, messages')
  BY <1>1 DEF BuiltOn, Stored, Grows
<1>6. Assigning(w, 1) => convs' # <<>>
  BY <1>1 DEF BuiltOn
<1>7. Assigning(w, 3) => Joined(w, convs')
  <2>1. Assigning(w, 3) => Assigning(w, 1)
    <3>1. Len(w.frames) = 1 => w.frames[1] \in Frames
      BY SequenceFacts DEF FlowRecord
    <3>2. \A fr \in Frames : fr.step \in Nat
      BY FrameFields DEF Frames
    <3> QED
      BY <3>1, <3>2 DEF Assigning
  <2> QED
    BY <1>1, <2>1 DEF BuiltOn, Joined, Grows
<1> QED
  BY <1>2, <1>3, <1>4, <1>5, <1>6, <1>7 DEF BuiltOn

LEMMA MineGrows ==
    ASSUME StoreTypes, NEW f \in Flows, NEW c \in Nat, messages' = Append(messages, [by |-> f, conv |-> c])
    PROVE  /\ IsFiniteSet(Mine(f)) /\ Cardinality(Mine(f)) \in Nat
           /\ Cardinality(Mine(f)') = Cardinality(Mine(f)) + 1
           /\ \A g \in Flows \ {f} : Mine(g)' = Mine(g)
<1> DEFINE m == [by |-> f, conv |-> c]
<1>1. m \in [by : Flows, conv : Nat] /\ m.by = f /\ messages \in Seq([by : Flows, conv : Nat])
  BY DEF StoreTypes
<1> HIDE DEF m
<1>2. messages' = Append(messages, m)
  BY DEF m
<1>3. /\ DOMAIN messages' = DOMAIN messages \cup {Len(messages) + 1}
      /\ Len(messages) + 1 \notin DOMAIN messages
      /\ \A i \in DOMAIN messages : messages'[i] = messages[i]
      /\ messages'[Len(messages) + 1] = m
  BY <1>1, <1>2, AppendFacts
<1>4. IsFiniteSet(Mine(f)) /\ Cardinality(Mine(f)) \in Nat
  <2>1. Len(messages) \in Nat /\ DOMAIN messages = 1 .. Len(messages)
    BY <1>1, SequenceFacts
  <2>2. IsFiniteSet(1 .. Len(messages))
    BY <2>1, FS_Interval
  <2>3. Mine(f) \subseteq 1 .. Len(messages)
    BY <2>1 DEF Mine
  <2> QED
    BY <2>2, <2>3, FS_Subset, FS_CardinalityType
<1>5. Mine(f)' = Mine(f) \cup {Len(messages) + 1} /\ Len(messages) + 1 \notin Mine(f)
  BY <1>1, <1>3 DEF Mine
<1>6. \A g \in Flows \ {f} : Mine(g)' = Mine(g)
  BY <1>1, <1>3 DEF Mine
<1>7. Cardinality(Mine(f)') = Cardinality(Mine(f)) + 1
  BY <1>4, <1>5, FS_AddElement
<1> QED
  BY <1>4, <1>6, <1>7

LEMMA MineFinite ==
    ASSUME StoreTypes, NEW f \in Flows
    PROVE  IsFiniteSet(Mine(f)) /\ Cardinality(Mine(f)) \in Nat
<1>1. Len(messages) \in Nat /\ DOMAIN messages = 1 .. Len(messages)
  BY SequenceFacts DEF StoreTypes
<1>2. IsFiniteSet(1 .. Len(messages))
  BY <1>1, FS_Interval
<1>3. Mine(f) \subseteq 1 .. Len(messages)
  BY <1>1 DEF Mine
<1> QED
  BY <1>2, <1>3, FS_Subset, FS_CardinalityType

\* A step of one flow keeps the invariant when it does to the store and to the flow
\* what the steps before allow.
LEMMA FlowKeeps ==
    ASSUME FlowIInv, FaultsGrow, NEW f \in Flows, NEW v \in FlowRecord,
           flows' = [flows EXCEPT ![f] = v],
           StoreTypes', Grows, ConversationsOK', Placed(v),
           v.customer \in 0 .. customers', v.conv \in 0 .. Len(convs'), v.message \in 0 .. Len(messages'),
           BuiltOn(v, f, customers', identified', convs', messages'),
           SendsNone(f, v) \/ SendsOne(f, v),
           AddsNothing(f, v) \/ AddsFirst(f) \/ AddsIdentity(f, v)
    PROVE  FlowIInv'
<1>1. /\ flows' \in [Flows -> FlowRecord] /\ flows'[f] = v
      /\ \A g \in Flows \ {f} : flows'[g] = flows[g] /\ flows[g] \in FlowRecord
      /\ StoreTypes
  BY DEF FlowIInv
<1>2. \A g \in Flows : Placed(flows'[g])
  BY <1>1 DEF FlowIInv
<1>3. \A g \in Flows : Knows(g)'
  <2>1. Len(convs) <= Len(convs') /\ Len(messages) <= Len(messages') /\ customers <= customers'
    BY DEF Grows
  <2>2. Len(convs) \in Nat /\ Len(convs') \in Nat /\ Len(messages) \in Nat /\ Len(messages') \in Nat
    BY <1>1, SequenceFacts DEF StoreTypes
  <2>3. customers \in Nat /\ customers' \in Nat
    BY <1>1 DEF StoreTypes
  <2>4. \A g \in Flows : Knows(g)
    BY DEF FlowIInv
  <2> QED
    BY <1>1, <2>1, <2>2, <2>3, <2>4 DEF Knows
<1>4. \A g \in Flows : Built(g)'
  <2> SUFFICES ASSUME NEW g \in Flows
               PROVE  BuiltOn(flows'[g], g, customers', identified', convs', messages')
    BY DEF Built
  <2>1. CASE g = f
    BY <1>1, <2>1
  <2>2. CASE g # f
    <3>1. BuiltOn(flows[g], g, customers, identified, convs, messages)
      BY DEF FlowIInv, Built
    <3> QED
      BY <1>1, <2>2, <3>1, BuiltOnGrows
  <2> QED
    BY <2>1, <2>2
<1>5. \A g \in Flows : Sent(g)'
  <2>1. \A g \in Flows : Sent(g) /\ Cardinality(Mine(g)) \in Nat
    BY <1>1, MineFinite DEF FlowIInv
  <2>2. CASE SendsNone(f, v)
    <3>1. \A g \in Flows : Mine(g)' = Mine(g)
      BY <2>2 DEF SendsNone, Mine
    <3> QED
      BY <1>1, <2>1, <2>2, <3>1 DEF Sent, SendsNone, FaultsGrow
  <2>3. CASE SendsOne(f, v)
    <3> PICK c \in Nat : messages' = Append(messages, [by |-> f, conv |-> c])
      BY <2>3 DEF SendsOne
    <3>1. /\ Cardinality(Mine(f)') = Cardinality(Mine(f)) + 1
          /\ \A g \in Flows \ {f} : Mine(g)' = Mine(g)
      BY <1>1, MineGrows
    <3>2. Cardinality(Mine(f)) <= faults /\ (~Unsent(v) \/ faults < faults')
      BY <2>1, <2>3 DEF Sent, SendsOne
    <3>3. Sent(f)'
      BY <1>1, <2>1, <3>1, <3>2 DEF Sent, FaultsGrow
    <3>4. \A g \in Flows \ {f} : Sent(g)'
      BY <1>1, <2>1, <3>1 DEF Sent, FaultsGrow
    <3> QED
      BY <3>3, <3>4
  <2> QED
    BY <2>2, <2>3
<1>6. (overlapped \/ OneAdds)'
  <2> SUFFICES ASSUME ~overlapped'
               PROVE  OneAdds'
    OBVIOUS
  <2>0. \A g \in Flows : Adding(g)' <=> flows'[g].pc \in AddingPlaces
    BY DEF Adding, AddingPlaces
  <2>1. \A g \in Flows : Adding(g) <=> flows[g].pc \in AddingPlaces
    BY DEF Adding, AddingPlaces
  <2>2. CASE AddsNothing(f, v)
    <3>1. OneAdds /\ UNCHANGED identified
      BY <2>2 DEF AddsNothing, FlowIInv
    <3>2. \A g \in Flows : Adding(g)' => Adding(g)
      BY <1>1, <2>0, <2>1, <2>2 DEF AddsNothing
    <3> QED
      BY <3>1, <3>2 DEF OneAdds
  <2>3. CASE AddsFirst(f)
    <3>1. identified = {} /\ identified' = {} /\ \A g \in Flows \ {f} : ~Adding(g)
      BY <2>3 DEF AddsFirst
    <3>2. \A g \in Flows \ {f} : ~Adding(g)'
      BY <1>1, <2>0, <2>1, <3>1
    <3>3. \E k \in Nat : identified' \subseteq {k}
      BY <3>1
    <3> QED
      BY <3>1, <3>2, <3>3 DEF OneAdds
  <2>4. CASE AddsIdentity(f, v)
    <3>1. /\ identified = {} /\ identified' = {flows[f].customer}
          /\ \A g \in Flows \ {f} : ~Adding(g)
      BY <2>4 DEF AddsIdentity, FlowIInv, OneAdds
    <3>2. \A g \in Flows : ~Adding(g)'
      BY <1>1, <2>0, <2>1, <2>4, <3>1 DEF AddsIdentity
    <3>3. flows[f].customer \in Nat
      BY DEF FlowIInv, FlowRecord
    <3> QED
      BY <3>1, <3>2, <3>3 DEF OneAdds
  <2> QED
    BY <2>2, <2>3, <2>4
<1> QED
  BY <1>1, <1>2, <1>3, <1>4, <1>5, <1>6 DEF FlowIInv

\* So does a step that leaves flows and documents alone.
LEMMA FlowsUntouched ==
    ASSUME FlowIInv, FaultsGrow, UNCHANGED flowVars
    PROVE  FlowIInv'
<1>1. UNCHANGED <<flows, customers, identified, convs, messages, overlapped>>
  BY DEF flowVars, storeVars
<1>2. \A f \in Flows : Sent(f)'
  <2>1. \A f \in Flows : Cardinality(Mine(f)) \in Nat /\ Sent(f) /\ Mine(f)' = Mine(f)
    BY <1>1, MineFinite DEF FlowIInv, Mine
  <2> QED
    BY <1>1, <2>1 DEF Sent, FaultsGrow
<1>3. StoreTypes' /\ flows' \in [Flows -> FlowRecord]
  BY <1>1 DEF FlowIInv, StoreTypes
<1>4. \A f \in Flows : Placed(flows'[f]) /\ Knows(f)' /\ Built(f)'
  BY <1>1 DEF FlowIInv, Knows, Built
<1>5. (overlapped \/ OneAdds)' /\ ConversationsOK'
  BY <1>1 DEF FlowIInv, OneAdds, Adding, ConversationsOK
<1> QED
  BY <1>2, <1>3, <1>4, <1>5 DEF FlowIInv

\* What a step that writes nothing leaves of the store.
LEMMA StoreUntouched ==
    ASSUME StoreTypes, ConversationsOK, UNCHANGED <<customers, identified, convs, messages>>, overlapped' \in BOOLEAN
    PROVE  StoreTypes' /\ Grows /\ ConversationsOK'
<1>1. Len(convs) \in Nat /\ Len(messages) \in Nat
  BY SequenceFacts DEF StoreTypes
<1> QED
  BY <1>1 DEF StoreTypes, Grows, ConversationsOK

------------------------------------------------------------------------------
(* The three ways a flow goes on *)

LEMMA SamePlace ==
    ASSUME NEW w, NEW u, u.frames = w.frames, u.ended = w.ended
    PROVE  /\ Inner(u) <=> Inner(w)
           /\ \A k : Behind(u, k) <=> Behind(w, k)
           /\ \A k : Assigning(u, k) <=> Assigning(w, k)
           /\ Unsent(u) <=> Unsent(w)
           /\ u.pc = w.pc => (Placed(u) <=> Placed(w))
  BY DEF Inner, Behind, Assigning, Unsent, Placed

\* The step raised, whatever it had written.
LEMMA RaiseKeeps ==
    ASSUME FlowIInv, FaultsGrow, NEW f \in Flows, flows[f].frames # <<>>, NEW u \in FlowRecord,
           u.frames = flows[f].frames, u.ended = flows[f].ended, u.pc = flows[f].pc, u.request = flows[f].request,
           u.customer = flows[f].customer, u.conv = flows[f].conv, u.message = flows[f].message,
           flows' = [flows EXCEPT ![f] = Raised(u)],
           StoreTypes', Grows, ConversationsOK',
           messages' = messages \/ SendsOne(f, Raised(u)),
           UNCHANGED <<identified, overlapped>> \/ AddsIdentity(f, Raised(u))
    PROVE  FlowIInv'
<1> DEFINE w == flows[f]
           v == Raised(u)
<1>1. w \in FlowRecord /\ Placed(w) /\ Knows(f) /\ BuiltOn(w, f, customers, identified, convs, messages) /\ StoreTypes
  BY DEF FlowIInv, Built
<1>2. Placed(u) /\ (Unsent(u) <=> Unsent(w)) /\ BuiltOn(u, f, customers, identified, convs, messages)
  <2>1. /\ Placed(u) /\ (Unsent(u) <=> Unsent(w))
        /\ \A k : (Behind(u, k) <=> Behind(w, k)) /\ (Assigning(u, k) <=> Assigning(w, k))
    BY <1>1, SamePlace
  <2> QED
    BY <1>1, <2>1 DEF BuiltOn, Found, Opened, Stored, Joined
<1>3. Moved(u, v)
  BY <1>2, RaisedMoves
<1>4. BuiltOn(v, f, customers', identified', convs', messages')
  BY <1>1, <1>2, BuiltOnGrows, RaisedBuilt
<1>5. v.customer \in 0 .. customers' /\ v.conv \in 0 .. Len(convs') /\ v.message \in 0 .. Len(messages')
  <2>1. Len(convs) \in Nat /\ Len(convs') \in Nat /\ Len(messages) \in Nat /\ Len(messages') \in Nat /\ customers \in Nat /\ customers' \in Nat
    BY <1>1, SequenceFacts DEF StoreTypes
  <2>2. v.customer = w.customer /\ v.conv = w.conv /\ v.message = w.message
    BY <1>3 DEF Moved, SameData
  <2> QED
    BY <1>1, <2>1, <2>2 DEF Knows, Grows
<1>6. v.pc \notin AddingPlaces /\ (Unsent(v) => Unsent(w)) /\ v \in FlowRecord /\ Placed(v)
  BY <1>2, <1>3 DEF Moved, Awaited, AddingPlaces
<1> HIDE DEF v
<1>7. SendsNone(f, v) \/ SendsOne(f, v)
  BY <1>6 DEF SendsNone, v
<1>8. AddsNothing(f, v) \/ AddsIdentity(f, v)
  BY <1>6 DEF AddsNothing, v
<1>9. flows' = [flows EXCEPT ![f] = v]
  BY DEF v
<1> QED
  BY <1>4, <1>5, <1>6, <1>7, <1>8, <1>9, FlowKeeps

\* The step succeeded, and left what it is there for.
LEMMA StepKeeps ==
    ASSUME FlowIInv, FaultsGrow, NEW f \in Flows, flows[f].frames # <<>>, NEW u \in FlowRecord,
           u.frames = flows[f].frames, u.ended = flows[f].ended, u.pc = flows[f].pc,
           flows' = [flows EXCEPT ![f] = Stepped(u)],
           StoreTypes', Grows, ConversationsOK',
           u.customer \in 0 .. customers', u.conv \in 0 .. Len(convs'), u.message \in 0 .. Len(messages'),
           Behind(u, 2) \/ (Inner(u) /\ u.frames[2].step = 2) => Found(u, identified'),
           Behind(u, 3) \/ (Inner(u) /\ u.frames[2].step = 3) => Opened(u, convs'),
           Behind(u, 5) \/ (Inner(u) /\ u.frames[2].step = 5) => Stored(u, f, messages'),
           Assigning(u, 1) \/ (Assigning(u, 0) /\ u.frames[1].step = 1) => convs' # <<>>,
           Assigning(u, 3) \/ (Assigning(u, 0) /\ u.frames[1].step = 3) => Joined(u, convs'),
           messages' = messages \/ SendsOne(f, Stepped(u)),
           UNCHANGED <<identified, overlapped>> \/ AddsIdentity(f, Stepped(u))
    PROVE  FlowIInv'
<1> DEFINE w == flows[f]
           v == Stepped(u)
<1>1. w \in FlowRecord /\ Placed(w)
  BY DEF FlowIInv
<1>2. Placed(u) /\ (Unsent(u) <=> Unsent(w))
  BY <1>1, SamePlace
<1>3. Moved(u, v)
  BY <1>2, SteppedMoves
<1>4. BuiltOn(v, f, customers', identified', convs', messages')
  BY <1>2, SteppedBuilt
<1>5. v.customer = u.customer /\ v.conv = u.conv /\ v.message = u.message
  BY <1>3 DEF Moved, SameData
<1>6. v.pc \notin AddingPlaces /\ (Unsent(v) => Unsent(w)) /\ v \in FlowRecord /\ Placed(v)
  BY <1>2, <1>3 DEF Moved, Awaited, AddingPlaces
<1> HIDE DEF v
<1>7. SendsNone(f, v) \/ SendsOne(f, v)
  BY <1>6 DEF SendsNone, v
<1>8. AddsNothing(f, v) \/ AddsIdentity(f, v)
  BY <1>6 DEF AddsNothing, v
<1>9. flows' = [flows EXCEPT ![f] = v]
  BY DEF v
<1> QED
  BY <1>4, <1>5, <1>6, <1>7, <1>8, <1>9, FlowKeeps

\* The step stays in service, before another await of its own.
LEMMA WithinStep ==
    ASSUME NEW w \in FlowRecord, Placed(w), w.frames # <<>>, NEW u,
           u.frames = w.frames, u.ended = w.ended, u.pc \in Within(StepOf(Top(w)))
    PROVE  Placed(u) /\ u.pc \in Places
<1>1. u.pc \in Places
  BY DEF Within, Places
<1>2. ASSUME NEW k \in {"webhook", "assign"}, NEW fr \in Frame(k), Outside(w, k, fr)
      PROVE  Placed(u)
  <2>1. Top(w) = fr
    BY <1>2, OutsideIsPlaced
  <2>2. Outside(u, k, fr)
    BY <1>2, <2>1 DEF Outside
  <2> QED
    BY <2>2, OutsideIsPlaced
<1>3. ASSUME NEW out \in Frame("webhook"), NEW fr \in Frame("incoming"), Inside(w, out, fr)
      PROVE  Placed(u)
  <2>1. Top(w) = fr
    BY <1>3, InsideIsPlaced
  <2>2. Inside(u, out, fr)
    BY <1>3, <2>1 DEF Inside
  <2> QED
    BY <2>2, InsideIsPlaced
<1> QED
  BY <1>1, <1>2, <1>3, InService

LEMMA StayKeeps ==
    ASSUME FlowIInv, FaultsGrow, NEW f \in Flows, flows[f].frames # <<>>, NEW u \in FlowRecord,
           u.frames = flows[f].frames, u.ended = flows[f].ended, u.pc \in Within(StepOf(Top(flows[f]))),
           u.request = flows[f].request, u.conv = flows[f].conv, u.message = flows[f].message,
           flows' = [flows EXCEPT ![f] = u],
           StoreTypes', Grows, ConversationsOK', messages' = messages,
           u.customer \in 0 .. customers',
           u.customer = flows[f].customer \/ ~Behind(flows[f], 2),
           u.pc = "insert_identity" => u.customer \in 1 .. customers',
           AddsNothing(f, u) \/ AddsFirst(f)
    PROVE  FlowIInv'
<1> DEFINE w == flows[f]
<1>1. w \in FlowRecord /\ Placed(w) /\ Knows(f) /\ BuiltOn(w, f, customers, identified, convs, messages) /\ StoreTypes
  BY DEF FlowIInv, Built
<1>2. Placed(u)
  BY <1>1, WithinStep
<1>3. /\ (Unsent(u) <=> Unsent(w))
      /\ \A k : (Behind(u, k) <=> Behind(w, k)) /\ (Assigning(u, k) <=> Assigning(w, k))
  BY <1>1, SamePlace
<1>4. BuiltOn(w, f, customers', identified', convs', messages')
  BY <1>1, BuiltOnGrows
<1>5. Behind(w, 3) => Behind(w, 2)
  <2>1. Len(w.frames) = 2 => w.frames[2] \in Frames
    BY <1>1, SequenceFacts DEF FlowRecord
  <2>2. \A fr \in Frames : fr.step \in Nat
    BY FrameFields DEF Frames
  <2> QED
    BY <2>1, <2>2 DEF Behind, Inner
<1>6. BuiltOn(u, f, customers', identified', convs', messages')
  BY <1>3, <1>4, <1>5 DEF BuiltOn, Found, Opened, Stored, Joined
<1>7. u.conv \in 0 .. Len(convs') /\ u.message \in 0 .. Len(messages')
  <2>1. Len(convs) \in Nat /\ Len(convs') \in Nat
    BY <1>1, SequenceFacts DEF StoreTypes
  <2> QED
    BY <1>1, <2>1 DEF Knows, Grows
<1>8. SendsNone(f, u)
  BY <1>3 DEF SendsNone
<1> QED
  BY <1>2, <1>6, <1>7, <1>8, FlowKeeps

------------------------------------------------------------------------------
(* The steps of the workflows *)

\* Steps that leave nothing the invariant speaks of: the flow goes on, or raises,
\* and forgets its event if it had one.
Plain == {"check_permissions", "validate_webhook", "parse_payload", "determine_event_type", "publish_event", "push",
          "validate", "add_participant"}

LEMMA PlainStep ==
    ASSUME FlowIInv, FaultsGrow, NEW f \in Flows, flows[f].pc \in Plain, UNCHANGED storeVars,
           NEW e \in Events \cup {NoEvent},
           LET u == [flows[f] EXCEPT !.event = e] IN flows' = [flows EXCEPT ![f] = Stepped(u)]
    PROVE  FlowIInv'
<1> DEFINE w == flows[f]
<1>1. /\ w \in FlowRecord /\ Placed(w) /\ Knows(f) /\ StoreTypes /\ ConversationsOK
      /\ BuiltOn(w, f, customers, identified, convs, messages) /\ UNCHANGED <<customers, identified, convs, messages, overlapped>>
  BY DEF FlowIInv, Built, storeVars
<1>2. PICK u : u = [w EXCEPT !.event = e]
  OBVIOUS
<1>3. /\ u \in FlowRecord /\ u.frames = w.frames /\ u.ended = w.ended /\ u.pc = w.pc /\ u.request = w.request
      /\ u.customer = w.customer /\ u.conv = w.conv /\ u.message = w.message
  BY <1>1, <1>2 DEF FlowRecord
<1>4. /\ w.frames # <<>>
      /\ Inner(w) => w.frames[2].step \notin {2, 3, 5}
      /\ Assigning(w, 0) => w.frames[1].step \notin {1, 3}
  BY <1>1, Whereabouts DEF Plain
<1>5. StoreTypes' /\ Grows /\ ConversationsOK'
  BY <1>1, StoreUntouched DEF StoreTypes
<1>6. /\ Inner(u) <=> Inner(w)
      /\ \A k : (Behind(u, k) <=> Behind(w, k)) /\ (Assigning(u, k) <=> Assigning(w, k))
  BY <1>3, SamePlace
<1>7. /\ Behind(u, 2) \/ (Inner(u) /\ u.frames[2].step = 2) => Found(u, identified')
      /\ Behind(u, 3) \/ (Inner(u) /\ u.frames[2].step = 3) => Opened(u, convs')
      /\ Behind(u, 5) \/ (Inner(u) /\ u.frames[2].step = 5) => Stored(u, f, messages')
      /\ Assigning(u, 1) \/ (Assigning(u, 0) /\ u.frames[1].step = 1) => convs' # <<>>
      /\ Assigning(u, 3) \/ (Assigning(u, 0) /\ u.frames[1].step = 3) => Joined(u, convs')
  BY <1>1, <1>3, <1>4, <1>6 DEF BuiltOn, Found, Opened, Stored, Joined
<1>8. u.customer \in 0 .. customers' /\ u.conv \in 0 .. Len(convs') /\ u.message \in 0 .. Len(messages')
  BY <1>1, <1>3 DEF Knows
<1>9. flows' = [flows EXCEPT ![f] = Stepped(u)]
  BY <1>2
<1> QED
  BY <1>1, <1>3, <1>4, <1>5, <1>7, <1>8, <1>9, StepKeeps

LEMMA PlainRaise ==
    ASSUME FlowIInv, FaultsGrow, NEW f \in Flows, flows[f].pc \notin {"ready", "ended"}, UNCHANGED storeVars,
           NEW e \in Events \cup {NoEvent},
           LET u == [flows[f] EXCEPT !.event = e] IN flows' = [flows EXCEPT ![f] = Raised(u)]
    PROVE  FlowIInv'
<1> DEFINE w == flows[f]
<1>1. /\ w \in FlowRecord /\ Placed(w) /\ StoreTypes /\ ConversationsOK
      /\ UNCHANGED <<customers, identified, convs, messages, overlapped>>
  BY DEF FlowIInv, storeVars
<1>2. PICK u : u = [w EXCEPT !.event = e]
  OBVIOUS
<1>3. /\ u \in FlowRecord /\ u.frames = w.frames /\ u.ended = w.ended /\ u.pc = w.pc /\ u.request = w.request
      /\ u.customer = w.customer /\ u.conv = w.conv /\ u.message = w.message
  BY <1>1, <1>2 DEF FlowRecord
<1>4. w.frames # <<>>
  BY <1>1, Whereabouts
<1>5. StoreTypes' /\ Grows /\ ConversationsOK'
  BY <1>1, StoreUntouched DEF StoreTypes
<1>6. flows' = [flows EXCEPT ![f] = Raised(u)]
  BY <1>2
<1> QED
  BY <1>1, <1>3, <1>4, <1>5, <1>6, RaiseKeeps

\* A record with one field written back is the record.
LEMMA SameEvent ==
    ASSUME NEW w \in FlowRecord
    PROVE  w.event \in Events \cup {NoEvent} /\ [w EXCEPT !.event = w.event] = w
  BY DEF FlowRecord

LEMMA PlainOn ==
    ASSUME FlowIInv, FaultsGrow, NEW f \in Flows, flows[f].pc \notin {"ready", "ended"}, UNCHANGED storeVars,
           flows' = [flows EXCEPT ![f] = Raised(flows[f])]
    PROVE  FlowIInv'
<1>1. flows[f] \in FlowRecord
  BY DEF FlowIInv
<1> QED
  BY <1>1, SameEvent, PlainRaise

LEMMA QueueSame == ASSUME UNCHANGED queueVars, faults \in Nat PROVE FaultsGrow
  BY DEF queueVars, FaultsGrow

LEMMA Faulty == ASSUME Fault, faults \in Nat PROVE FaultsGrow /\ faults' = faults + 1 /\ faults < faults'
  BY DEF Fault, FaultsGrow

LEMMA StartKeeps ==
    ASSUME FlowIInv, faults \in Nat, NEW f \in Flows, Start(f)
    PROVE  FlowIInv'
<1> DEFINE w == flows[f]
           k == IF w.request \in Members THEN "assign" ELSE "webhook"
           a == First(k)
           v == InPlace([w EXCEPT !.frames = <<None>>], a)
<1>1. /\ w \in FlowRecord /\ Placed(w) /\ Knows(f) /\ StoreTypes /\ ConversationsOK
      /\ UNCHANGED <<customers, identified, convs, messages, overlapped>> /\ w.pc = "ready"
      /\ BuiltOn(w, f, customers, identified, convs, messages)
  BY DEF FlowIInv, Built, storeVars, Start, At
<1>2. w.frames = <<>> /\ w.ended["incoming"] = "none"
  BY <1>1, Whereabouts
<1>3. k \in {"assign", "webhook"} /\ a \in Frame(k) /\ a.step = 1 /\ a.workflow = k
  <2>1. k \in {"assign", "webhook"}
    OBVIOUS
  <2> HIDE DEF k
  <2>2. 1 \in 1 .. Len(Steps[k]) /\ 0 \in 0 .. 1
    BY <2>1, StepTable
  <2> QED
    BY <2>1, <2>2 DEF First, Frame
<1> HIDE DEF k
<1>4. a \in Frames /\ StepOf(a) \in Places \ ({"ready", "ended"} \cup Awaited)
  BY <1>3, FrameFields, StepPlaces
<1> HIDE DEF a
<1>5. PICK u : u = [w EXCEPT !.frames = <<a>>, !.pc = StepOf(a)]
  OBVIOUS
<1>6. /\ u \in FlowRecord /\ u.frames = <<a>> /\ u.ended = w.ended /\ u.pc = StepOf(a) /\ u.request = w.request
      /\ u.customer = w.customer /\ u.conv = w.conv /\ u.message = w.message
  <2>1. <<a>> \in Seq(Frames) /\ StepOf(a) \in Places
    BY <1>4
  <2> QED
    BY <1>1, <1>5, <2>1 DEF FlowRecord
<1>7. v = u
  <2>1. Front(<<None>>) = <<>> /\ Append(<<>>, a) = <<a>>
    BY Singles
  <2>2. [w EXCEPT !.frames = <<None>>].frames = <<None>>
    BY <1>1 DEF FlowRecord
  <2>3. v = [[w EXCEPT !.frames = <<None>>] EXCEPT !.frames = <<a>>, !.pc = StepOf(a)]
    BY <2>1, <2>2 DEF InPlace
  <2> QED
    BY <1>1, <1>5, <2>3 DEF FlowRecord
<1>8. Outside(u, k, a)
  BY <1>2, <1>6 DEF Outside
<1>9. Placed(u) /\ ~Inner(u) /\ u.frames[1] = a /\ Len(u.frames) = 1
  BY <1>3, <1>8, OutsideIsPlaced
<1>10. StoreTypes' /\ Grows /\ ConversationsOK'
  BY <1>1, StoreUntouched DEF StoreTypes
<1>11. Unsent(w)
  BY <1>2 DEF Unsent, Inner
<1>12. BuiltOn(u, f, customers', identified', convs', messages')
  BY <1>2, <1>3, <1>4, <1>6, <1>9 DEF BuiltOn, Behind, Assigning, Awaited
<1>13. SendsNone(f, u) /\ AddsNothing(f, u)
  BY <1>1, <1>4, <1>6, <1>11 DEF SendsNone, AddsNothing, AddingPlaces, Awaited
<1>14. flows' = [flows EXCEPT ![f] = u] /\ FaultsGrow
  <2>1. flows' = [flows EXCEPT ![f] = v] /\ UNCHANGED queueVars
    BY DEF Start, Become, v, a, k
  <2> QED
    BY <1>7, <2>1, QueueSame
<1>15. u.customer \in 0 .. customers' /\ u.conv \in 0 .. Len(convs') /\ u.message \in 0 .. Len(messages')
  BY <1>1, <1>6 DEF Knows
<1> QED
  BY <1>6, <1>9, <1>10, <1>12, <1>13, <1>14, <1>15, FlowKeeps

LEMMA ExecuteKeeps ==
    ASSUME FlowIInv, faults \in Nat, NEW f \in Flows, ExecuteHandler(f)
    PROVE  FlowIInv'
<1> DEFINE w == flows[f]
<1>1. /\ w \in FlowRecord /\ Placed(w) /\ Knows(f) /\ StoreTypes /\ ConversationsOK
      /\ UNCHANGED <<customers, identified, convs, messages, overlapped>> /\ w.pc = "execute_handler"
      /\ BuiltOn(w, f, customers, identified, convs, messages) /\ UNCHANGED storeVars
  BY DEF FlowIInv, Built, storeVars, ExecuteHandler, At
<1>2. PICK out \in Frame("webhook") : Outside(w, "webhook", out) /\ out.step = 4
  BY <1>1, Whereabouts
<1>3. /\ w.ended["incoming"] = "none" /\ w.frames = <<out>> /\ ~Inner(w) /\ ~Assigning(w, 0)
      /\ w.frames[1] = out /\ out.workflow = "webhook" /\ w.frames # <<>> /\ Len(w.frames) = 1 /\ out \in Frames
  BY <1>1, <1>2, OutsideIsPlaced, Whereabouts DEF Outside, Assigning
<1>4. StoreTypes' /\ Grows /\ ConversationsOK'
  BY <1>1, StoreUntouched DEF StoreTypes
<1>5. FaultsGrow
  <2>1. UNCHANGED queueVars
    BY DEF ExecuteHandler, Step, Raise
  <2> QED
    BY <2>1, QueueSame
<1>6. CASE flows' = [flows EXCEPT ![f] = Raised(w)]
  BY <1>1, <1>5, <1>6, PlainOn
<1>7. CASE flows' = [flows EXCEPT ![f] = Stepped(w)]
  <2>1. /\ ~Behind(w, 2) /\ ~Behind(w, 3) /\ ~Behind(w, 5)
        /\ ~Assigning(w, 1) /\ ~Assigning(w, 3)
    BY <1>3 DEF Behind, Assigning
  <2>2. w.customer \in 0 .. customers' /\ w.conv \in 0 .. Len(convs') /\ w.message \in 0 .. Len(messages')
    BY <1>1 DEF Knows
  <2> QED
    BY <1>1, <1>3, <1>4, <1>5, <1>7, <2>1, <2>2, StepKeeps
<1>8. CASE flows' = [flows EXCEPT ![f] = [w EXCEPT !.frames = Append(@, First("incoming")), !.pc = "validate"]]
  <2> DEFINE a == First("incoming")
  <2>1. a \in Frame("incoming") /\ a.step = 1
    <3>1. 1 \in 1 .. Len(Steps["incoming"]) /\ 0 \in 0 .. 1
      BY StepTable
    <3> QED
      BY <3>1 DEF First, Frame
  <2>2. a \in Frames /\ StepOf(a) = "validate"
    BY <2>1, FrameFields, IncomingSteps
  <2> HIDE DEF a
  <2>3. PICK u : u = [w EXCEPT !.frames = <<out, a>>, !.pc = "validate"]
    OBVIOUS
  <2>4. /\ u \in FlowRecord /\ u.frames = <<out, a>> /\ u.ended = w.ended /\ u.pc = "validate" /\ u.request = w.request
        /\ u.customer = w.customer /\ u.conv = w.conv /\ u.message = w.message
    <3>1. <<out, a>> \in Seq(Frames) /\ "validate" \in Places
      BY <1>3, <2>2 DEF Places
    <3> QED
      BY <1>1, <2>3, <3>1 DEF FlowRecord
  <2>5. flows' = [flows EXCEPT ![f] = u]
    <3>1. Append(<<out>>, a) = <<out, a>>
      BY Singles
    <3>2. [w EXCEPT !.frames = Append(@, a), !.pc = "validate"] = u
      BY <1>1, <1>3, <2>3, <3>1 DEF FlowRecord
    <3> QED
      BY <1>8, <3>2 DEF a
  <2>6. Inside(u, out, a)
    BY <1>2, <1>3, <2>2, <2>4 DEF Inside
  <2>7. Placed(u) /\ Inner(u) /\ u.frames[2] = a /\ Len(u.frames) = 2
    BY <2>1, <2>6, InsideIsPlaced
  <2>8. BuiltOn(u, f, customers', identified', convs', messages')
    BY <1>3, <2>1, <2>4, <2>7 DEF BuiltOn, Behind, Assigning
  <2>9. SendsNone(f, u) /\ AddsNothing(f, u)
    BY <1>1, <1>3, <2>4 DEF SendsNone, AddsNothing, AddingPlaces, Unsent
  <2>10. u.customer \in 0 .. customers' /\ u.conv \in 0 .. Len(convs') /\ u.message \in 0 .. Len(messages')
    BY <1>1, <2>4 DEF Knows
  <2> QED
    BY <1>4, <1>5, <2>4, <2>5, <2>7, <2>8, <2>9, <2>10, FlowKeeps
<1> QED
  BY <1>6, <1>7, <1>8 DEF ExecuteHandler, Become, Raise, Step

\* The write was made and its answer lost.
LEMMA WroteFault ==
    ASSUME NEW f, RaiseFault(f), faults \in Nat
    PROVE  FaultsGrow /\ faults < faults' /\ flows' = [flows EXCEPT ![f] = Raised(flows[f])]
  BY Faulty DEF RaiseFault, Become

\* What a flow in the step that looks for the customer knows.
LEMMA CustomerStep ==
    ASSUME FlowIInv, NEW f \in Flows, flows[f].pc \in {"get_or_create_customer", "insert_customer", "insert_identity"}
    PROVE  LET w == flows[f] IN
           /\ w \in FlowRecord /\ Placed(w) /\ Knows(f) /\ w.frames # <<>>
           /\ StoreTypes /\ ConversationsOK /\ BuiltOn(w, f, customers, identified, convs, messages)
           /\ Inner(w) /\ w.frames[2].step = 2
           /\ ~Behind(w, 2) /\ ~Behind(w, 3) /\ ~Behind(w, 5)
           /\ \A k : ~Assigning(w, k)
           /\ StepOf(Top(w)) = "get_or_create_customer" /\ w.ended["incoming"] = "none"
<1> DEFINE w == flows[f]
<1>1. w \in FlowRecord /\ Placed(w) /\ Knows(f) /\ StoreTypes /\ ConversationsOK /\ BuiltOn(w, f, customers, identified, convs, messages)
  BY DEF FlowIInv, Built
<1>2. /\ w.frames # <<>> /\ Inner(w) /\ w.frames[2].step = 2 /\ w.ended["incoming"] = "none"
      /\ StepOf(Top(w)) = "get_or_create_customer"
  BY <1>1, Whereabouts
<1> QED
  BY <1>1, <1>2 DEF Behind, Assigning, Inner

LEMMA FindCustomerKeeps ==
    ASSUME FlowIInv, faults \in Nat, NEW f \in Flows, FindCustomer(f)
    PROVE  FlowIInv'
<1> DEFINE w == flows[f]
<1>0. w.pc = "get_or_create_customer" /\ UNCHANGED <<customers, identified, convs, messages>>
  BY DEF FindCustomer, At
<1>1. /\ w \in FlowRecord /\ Placed(w) /\ Knows(f) /\ w.frames # <<>>
      /\ StoreTypes /\ ConversationsOK /\ BuiltOn(w, f, customers, identified, convs, messages)
      /\ Inner(w) /\ w.frames[2].step = 2
      /\ ~Behind(w, 2) /\ ~Behind(w, 3) /\ ~Behind(w, 5)
      /\ \A k : ~Assigning(w, k)
      /\ StepOf(Top(w)) = "get_or_create_customer"
  BY <1>0, CustomerStep
<1>2. UNCHANGED queueVars /\ overlapped' \in BOOLEAN
  BY <1>1 DEF FindCustomer, On, StoreTypes
<1>3. FaultsGrow
  BY <1>2, QueueSame
<1>4. StoreTypes' /\ Grows /\ ConversationsOK'
  BY <1>0, <1>1, <1>2, StoreUntouched
<1>5. CASE identified = {}
  <2>1. PICK u : u = [w EXCEPT !.pc = "insert_customer"]
    OBVIOUS
  <2>2. /\ u \in FlowRecord /\ u.frames = w.frames /\ u.ended = w.ended /\ u.pc = "insert_customer" /\ u.request = w.request
        /\ u.customer = w.customer /\ u.conv = w.conv /\ u.message = w.message
    <3>1. "insert_customer" \in Places
      BY DEF Places
    <3> QED
      BY <1>1, <2>1, <3>1 DEF FlowRecord
  <2>3. flows' = [flows EXCEPT ![f] = u]
    BY <1>5, <2>1 DEF FindCustomer, On, Become
  <2>4. AddsFirst(f)
    BY <1>0, <1>5 DEF FindCustomer, AddsFirst
  <2>5. u.pc \in Within(StepOf(Top(w)))
    BY <1>1, <2>2 DEF Within
  <2>6. u.customer \in 0 .. customers'
    BY <1>0, <1>1, <2>2 DEF Knows
  <2> QED
    BY <1>0, <1>1, <1>3, <1>4, <2>2, <2>3, <2>4, <2>5, <2>6, StayKeeps
<1>6. CASE identified # {}
  <2>1. PICK k \in identified : flows' = [flows EXCEPT ![f] = Stepped([w EXCEPT !.customer = k])]
    BY <1>6 DEF FindCustomer, Become
  <2>2. k \in 1 .. customers /\ k \in Nat /\ UNCHANGED overlapped
    BY <1>1, <1>6, <2>1 DEF StoreTypes, FindCustomer
  <2>3. PICK u : u = [w EXCEPT !.customer = k]
    OBVIOUS
  <2>4. /\ u \in FlowRecord /\ u.frames = w.frames /\ u.ended = w.ended /\ u.pc = w.pc /\ u.request = w.request
        /\ u.customer = k /\ u.conv = w.conv /\ u.message = w.message
    BY <1>1, <2>2, <2>3 DEF FlowRecord
  <2>5. flows' = [flows EXCEPT ![f] = Stepped(u)]
    BY <2>1, <2>3
  <2>6. /\ Inner(u) /\ u.frames[2].step = 2 /\ ~Behind(u, 3) /\ ~Behind(u, 5) /\ \A j : ~Assigning(u, j)
    BY <1>1, <2>4, SamePlace
  <2>7. Found(u, identified')
    BY <1>0, <2>1, <2>4 DEF Found
  <2>8. u.customer \in 0 .. customers' /\ u.conv \in 0 .. Len(convs') /\ u.message \in 0 .. Len(messages')
    BY <1>0, <1>1, <2>2, <2>4 DEF Knows, StoreTypes
  <2> QED
    <3>1. /\ Behind(u, 2) \/ (Inner(u) /\ u.frames[2].step = 2) => Found(u, identified')
          /\ Behind(u, 3) \/ (Inner(u) /\ u.frames[2].step = 3) => Opened(u, convs')
          /\ Behind(u, 5) \/ (Inner(u) /\ u.frames[2].step = 5) => Stored(u, f, messages')
          /\ Assigning(u, 1) \/ (Assigning(u, 0) /\ u.frames[1].step = 1) => convs' # <<>>
          /\ Assigning(u, 3) \/ (Assigning(u, 0) /\ u.frames[1].step = 3) => Joined(u, convs')
      BY <2>6, <2>7
    <3>2. UNCHANGED <<identified, overlapped>> /\ messages' = messages
      BY <1>0, <2>2
    <3> QED
      BY <1>1, <1>3, <1>4, <2>4, <2>5, <2>8, <3>1, <3>2, StepKeeps
<1> QED
  BY <1>5, <1>6

LEMMA InsertCustomerKeeps ==
    ASSUME FlowIInv, faults \in Nat, NEW f \in Flows, InsertCustomer(f)
    PROVE  FlowIInv'
<1> DEFINE w == flows[f]
<1>0. w.pc = "insert_customer" /\ UNCHANGED <<identified, convs, messages, overlapped>> /\ customers' = customers + 1
  BY DEF InsertCustomer, At
<1>1. /\ w \in FlowRecord /\ Placed(w) /\ Knows(f) /\ w.frames # <<>>
      /\ StoreTypes /\ ConversationsOK
      /\ ~Behind(w, 2) /\ StepOf(Top(w)) = "get_or_create_customer"
  BY <1>0, CustomerStep
<1>2. StoreTypes' /\ Grows /\ ConversationsOK' /\ customers \in Nat
  <2>1. Len(convs) \in Nat /\ Len(messages) \in Nat
    BY <1>1, SequenceFacts DEF StoreTypes
  <2>2. customers \in Nat /\ customers' \in Nat /\ customers <= customers' /\ 1 .. customers \subseteq 1 .. customers'
    BY <1>0, <1>1 DEF StoreTypes
  <2>3. ConversationsOK'
    BY <1>0, <1>1 DEF ConversationsOK
  <2> QED
    BY <1>0, <1>1, <2>1, <2>2, <2>3 DEF StoreTypes, Grows
<1>3. CASE RaiseFault(f)
  BY <1>0, <1>1, <1>2, <1>3, WroteFault, RaiseKeeps
<1>4. CASE Become(f, [w EXCEPT !.customer = customers + 1, !.pc = "insert_identity"]) /\ UNCHANGED queueVars
  <2>1. PICK u : u = [w EXCEPT !.customer = customers + 1, !.pc = "insert_identity"]
    OBVIOUS
  <2>2. /\ u \in FlowRecord /\ u.frames = w.frames /\ u.ended = w.ended /\ u.pc = "insert_identity" /\ u.request = w.request
        /\ u.customer = customers + 1 /\ u.conv = w.conv /\ u.message = w.message
    <3>1. "insert_identity" \in Places /\ customers + 1 \in Nat
      BY <1>2 DEF Places
    <3> QED
      BY <1>1, <2>1, <3>1 DEF FlowRecord
  <2>3. flows' = [flows EXCEPT ![f] = u]
    BY <1>4, <2>1 DEF Become
  <2>4. AddsNothing(f, u)
    BY <1>0 DEF AddsNothing, Adding
  <2>5. u.pc \in Within(StepOf(Top(w)))
    BY <1>1, <2>2 DEF Within
  <2>6. u.customer \in 0 .. customers' /\ u.customer \in 1 .. customers'
    BY <1>0, <1>2, <2>2
  <2>7. FaultsGrow
    BY <1>4, QueueSame
  <2> QED
    BY <1>0, <1>1, <1>2, <2>2, <2>3, <2>4, <2>5, <2>6, <2>7, StayKeeps
<1> QED
  BY <1>3, <1>4 DEF InsertCustomer, Wrote

LEMMA InsertIdentityKeeps ==
    ASSUME FlowIInv, faults \in Nat, NEW f \in Flows, InsertIdentity(f)
    PROVE  FlowIInv'
<1> DEFINE w == flows[f]
<1>0. /\ w.pc = "insert_identity" /\ UNCHANGED <<customers, convs, messages, overlapped>>
      /\ identified' = identified \cup {w.customer} /\ Adding(f)
  BY DEF InsertIdentity, At, Adding
<1>1. /\ w \in FlowRecord /\ Placed(w) /\ Knows(f) /\ w.frames # <<>>
      /\ StoreTypes /\ ConversationsOK /\ BuiltOn(w, f, customers, identified, convs, messages)
      /\ Inner(w) /\ w.frames[2].step = 2
      /\ ~Behind(w, 2) /\ ~Behind(w, 3) /\ ~Behind(w, 5)
      /\ \A k : ~Assigning(w, k)
  BY <1>0, CustomerStep
<1>2. w.customer \in 1 .. customers
  BY <1>0, <1>1 DEF BuiltOn
<1>3. StoreTypes' /\ Grows /\ ConversationsOK'
  <2>1. Len(convs) \in Nat /\ Len(messages) \in Nat
    BY <1>1, SequenceFacts DEF StoreTypes
  <2>2. ConversationsOK'
    BY <1>0, <1>1 DEF ConversationsOK
  <2>3. identified' \subseteq 1 .. customers' /\ identified \subseteq identified'
    BY <1>0, <1>1, <1>2 DEF StoreTypes
  <2>4. StoreTypes'
    BY <1>0, <1>1, <2>3 DEF StoreTypes
  <2>5. customers <= customers'
    BY <1>0, <1>1 DEF StoreTypes
  <2> QED
    BY <1>0, <2>1, <2>2, <2>3, <2>4, <2>5 DEF Grows
<1>4. \A v : v.pc \notin Awaited => AddsIdentity(f, v)
  BY <1>0 DEF AddsIdentity, AddingPlaces, Awaited
<1>5. CASE RaiseFault(f)
  <2>1. AddsIdentity(f, Raised(w))
    BY <1>1, <1>4, RaisedMoves DEF Moved
  <2> QED
    BY <1>0, <1>1, <1>3, <1>5, <2>1, WroteFault, RaiseKeeps
<1>6. CASE Become(f, Stepped(w)) /\ UNCHANGED queueVars
  <2>1. AddsIdentity(f, Stepped(w))
    BY <1>1, <1>4, SteppedMoves DEF Moved
  <2>2. Found(w, identified') /\ flows' = [flows EXCEPT ![f] = Stepped(w)] /\ FaultsGrow
    BY <1>0, <1>6, QueueSame DEF Found, Become
  <2>3. w.customer \in 0 .. customers' /\ w.conv \in 0 .. Len(convs') /\ w.message \in 0 .. Len(messages')
    BY <1>0, <1>1 DEF Knows
  <2> QED
    <3>1. /\ Behind(w, 2) \/ (Inner(w) /\ w.frames[2].step = 2) => Found(w, identified')
          /\ Behind(w, 3) \/ (Inner(w) /\ w.frames[2].step = 3) => Opened(w, convs')
          /\ Behind(w, 5) \/ (Inner(w) /\ w.frames[2].step = 5) => Stored(w, f, messages')
          /\ Assigning(w, 1) \/ (Assigning(w, 0) /\ w.frames[1].step = 1) => convs' # <<>>
          /\ Assigning(w, 3) \/ (Assigning(w, 0) /\ w.frames[1].step = 3) => Joined(w, convs')
      BY <1>1, <2>2
    <3> QED
      BY <1>0, <1>1, <1>3, <2>1, <2>2, <2>3, <3>1, StepKeeps
<1> QED
  BY <1>5, <1>6 DEF InsertIdentity, Wrote

LEMMA FindConversationKeeps ==
    ASSUME FlowIInv, faults \in Nat, NEW f \in Flows, FindConversation(f)
    PROVE  FlowIInv'
<1> DEFINE w == flows[f]
<1>0. /\ w.pc = "get_or_create_conversation" /\ UNCHANGED <<customers, identified, convs, messages, overlapped>>
      /\ UNCHANGED queueVars
  BY DEF FindConversation, At, On, storeVars
<1>1. /\ w \in FlowRecord /\ Placed(w) /\ Knows(f) /\ StoreTypes /\ ConversationsOK
      /\ BuiltOn(w, f, customers, identified, convs, messages)
  BY DEF FlowIInv, Built
<1>2. /\ w.frames # <<>> /\ Inner(w) /\ w.frames[2].step = 3 /\ w.ended["incoming"] = "none"
      /\ StepOf(Top(w)) = "get_or_create_conversation"
  BY <1>0, <1>1, Whereabouts
<1>3. Behind(w, 2) /\ ~Behind(w, 3) /\ ~Behind(w, 5) /\ \A k : ~Assigning(w, k)
  BY <1>2 DEF Behind, Assigning, Inner
<1>4. StoreTypes' /\ Grows /\ ConversationsOK'
  BY <1>0, <1>1, StoreUntouched DEF StoreTypes
<1>5. FaultsGrow
  BY <1>0, QueueSame
<1>6. CASE OpenFor(w.customer) = {}
  <2>1. PICK u : u = [w EXCEPT !.pc = "insert_conversation"]
    OBVIOUS
  <2>2. /\ u \in FlowRecord /\ u.frames = w.frames /\ u.ended = w.ended /\ u.pc = "insert_conversation" /\ u.request = w.request
        /\ u.customer = w.customer /\ u.conv = w.conv /\ u.message = w.message
    <3>1. "insert_conversation" \in Places
      BY DEF Places
    <3> QED
      BY <1>1, <2>1, <3>1 DEF FlowRecord
  <2>3. flows' = [flows EXCEPT ![f] = u]
    BY <1>6, <2>1 DEF FindConversation, On, Become
  <2>4. AddsNothing(f, u)
    BY <1>0, <2>2 DEF AddsNothing, AddingPlaces
  <2>5. u.pc \in Within(StepOf(Top(w)))
    BY <1>2, <2>2 DEF Within
  <2>6. u.customer \in 0 .. customers'
    BY <1>0, <1>1, <2>2 DEF Knows
  <2> QED
    BY <1>0, <1>2, <1>4, <1>5, <2>2, <2>3, <2>4, <2>5, <2>6, StayKeeps
<1>7. CASE OpenFor(w.customer) # {}
  <2>1. PICK i \in OpenFor(w.customer) : flows' = [flows EXCEPT ![f] = Stepped([w EXCEPT !.conv = i])]
    BY <1>7 DEF FindConversation, Become
  <2>2. i \in DOMAIN convs /\ convs[i].customer = w.customer /\ i \in Nat /\ i \in 0 .. Len(convs)
    <3>1. i \in DOMAIN convs /\ convs[i].customer = w.customer
      BY <2>1 DEF OpenFor
    <3>2. DOMAIN convs = 1 .. Len(convs) /\ Len(convs) \in Nat
      BY <1>1, SequenceFacts DEF StoreTypes
    <3> QED
      BY <3>1, <3>2
  <2>3. PICK u : u = [w EXCEPT !.conv = i]
    OBVIOUS
  <2>4. /\ u \in FlowRecord /\ u.frames = w.frames /\ u.ended = w.ended /\ u.pc = w.pc /\ u.request = w.request
        /\ u.customer = w.customer /\ u.conv = i /\ u.message = w.message
    BY <1>1, <2>2, <2>3 DEF FlowRecord
  <2>5. flows' = [flows EXCEPT ![f] = Stepped(u)]
    BY <2>1, <2>3
  <2>6. /\ Inner(u) /\ u.frames[2].step = 3 /\ ~Behind(u, 5) /\ \A j : ~Assigning(u, j)
    BY <1>2, <1>3, <2>4, SamePlace
  <2>7. Found(u, identified') /\ Opened(u, convs')
    BY <1>0, <1>1, <1>3, <2>2, <2>4 DEF BuiltOn, Found, Opened
  <2>8. u.customer \in 0 .. customers' /\ u.conv \in 0 .. Len(convs') /\ u.message \in 0 .. Len(messages')
    BY <1>0, <1>1, <2>2, <2>4 DEF Knows
  <2>9. /\ Behind(u, 2) \/ (Inner(u) /\ u.frames[2].step = 2) => Found(u, identified')
        /\ Behind(u, 3) \/ (Inner(u) /\ u.frames[2].step = 3) => Opened(u, convs')
        /\ Behind(u, 5) \/ (Inner(u) /\ u.frames[2].step = 5) => Stored(u, f, messages')
        /\ Assigning(u, 1) \/ (Assigning(u, 0) /\ u.frames[1].step = 1) => convs' # <<>>
        /\ Assigning(u, 3) \/ (Assigning(u, 0) /\ u.frames[1].step = 3) => Joined(u, convs')
    <3>1. ~(u.frames[2].step = 5)
      BY <2>6
    <3> QED
      BY <2>6, <2>7, <3>1
  <2>10. UNCHANGED <<identified, overlapped>> /\ messages' = messages
    BY <1>0
  <2> QED
    BY <1>2, <1>4, <1>5, <2>4, <2>5, <2>8, <2>9, <2>10, StepKeeps
<1> QED
  BY <1>6, <1>7

LEMMA NewConversationFields ==
    ASSUME NEW k \in Nat
    PROVE  /\ NewConversation(k) \in Conversation
           /\ NewConversation(k).customer = k /\ NewConversation(k).assigned = None /\ NewConversation(k).last = 0
  BY DEF NewConversation, Conversation

LEMMA InsertConversationKeeps ==
    ASSUME FlowIInv, faults \in Nat, NEW f \in Flows, InsertConversation(f)
    PROVE  FlowIInv'
<1> DEFINE w == flows[f]
           c == NewConversation(w.customer)
<1>0. /\ w.pc = "insert_conversation" /\ UNCHANGED <<customers, identified, messages, overlapped>>
      /\ convs' = Append(convs, c)
  BY DEF InsertConversation, At
<1>1. /\ w \in FlowRecord /\ Placed(w) /\ Knows(f) /\ StoreTypes /\ ConversationsOK
      /\ BuiltOn(w, f, customers, identified, convs, messages) /\ w.customer \in Nat
  BY DEF FlowIInv, Built, FlowRecord
<1>2. /\ w.frames # <<>> /\ Inner(w) /\ w.frames[2].step = 3 /\ w.ended["incoming"] = "none"
  BY <1>0, <1>1, Whereabouts
<1>3. Behind(w, 2) /\ ~Behind(w, 3) /\ ~Behind(w, 5) /\ \A k : ~Assigning(w, k)
  BY <1>2 DEF Behind, Assigning, Inner
<1>4. c \in Conversation /\ c.customer = w.customer /\ c.assigned = None /\ c.last = 0
  BY <1>1, NewConversationFields
<1> HIDE DEF c
<1>5. /\ convs' \in Seq(Conversation) /\ Len(convs') = Len(convs) + 1
      /\ DOMAIN convs' = DOMAIN convs \cup {Len(convs) + 1}
      /\ \A i \in DOMAIN convs : convs'[i] = convs[i]
      /\ convs'[Len(convs) + 1] = c /\ Len(convs) \in Nat /\ Len(messages) \in Nat
  BY <1>0, <1>1, <1>4, AppendFacts, SequenceFacts DEF StoreTypes
<1>6. StoreTypes' /\ Grows /\ ConversationsOK'
  <2>1. ConversationsOK'
    BY <1>0, <1>1, <1>4, <1>5 DEF ConversationsOK
  <2>2. \A i \in DOMAIN convs' : convs'[i].last \in {0} \cup DOMAIN messages'
    BY <1>0, <1>1, <1>4, <1>5 DEF StoreTypes
  <2>3. StoreTypes'
    BY <1>0, <1>1, <1>5, <2>2 DEF StoreTypes
  <2>4. Grows
    BY <1>0, <1>1, <1>5 DEF StoreTypes, Grows
  <2> QED
    BY <2>1, <2>3, <2>4
<1>7. CASE RaiseFault(f)
  BY <1>0, <1>1, <1>2, <1>6, <1>7, WroteFault, RaiseKeeps
<1>8. CASE Become(f, Stepped([w EXCEPT !.conv = Len(convs) + 1])) /\ UNCHANGED queueVars
  <2>1. PICK u : u = [w EXCEPT !.conv = Len(convs) + 1]
    OBVIOUS
  <2>2. /\ u \in FlowRecord /\ u.frames = w.frames /\ u.ended = w.ended /\ u.pc = w.pc /\ u.request = w.request
        /\ u.customer = w.customer /\ u.conv = Len(convs) + 1 /\ u.message = w.message
    <3>1. Len(convs) + 1 \in Nat
      BY <1>5
    <3> QED
      BY <1>1, <2>1, <3>1 DEF FlowRecord
  <2>3. flows' = [flows EXCEPT ![f] = Stepped(u)] /\ FaultsGrow
    BY <1>8, <2>1, QueueSame DEF Become
  <2>4. /\ Inner(u) /\ u.frames[2].step = 3 /\ ~Behind(u, 5) /\ \A j : ~Assigning(u, j)
    BY <1>2, <1>3, <2>2, SamePlace
  <2>5. Found(u, identified') /\ Opened(u, convs')
    BY <1>0, <1>1, <1>3, <1>4, <1>5, <2>2 DEF BuiltOn, Found, Opened
  <2>6. u.customer \in 0 .. customers' /\ u.conv \in 0 .. Len(convs') /\ u.message \in 0 .. Len(messages')
    BY <1>0, <1>1, <1>5, <2>2 DEF Knows
  <2>7. /\ Behind(u, 2) \/ (Inner(u) /\ u.frames[2].step = 2) => Found(u, identified')
        /\ Behind(u, 3) \/ (Inner(u) /\ u.frames[2].step = 3) => Opened(u, convs')
        /\ Behind(u, 5) \/ (Inner(u) /\ u.frames[2].step = 5) => Stored(u, f, messages')
        /\ Assigning(u, 1) \/ (Assigning(u, 0) /\ u.frames[1].step = 1) => convs' # <<>>
        /\ Assigning(u, 3) \/ (Assigning(u, 0) /\ u.frames[1].step = 3) => Joined(u, convs')
    <3>1. ~(u.frames[2].step = 5)
      BY <2>4
    <3> QED
      BY <2>4, <2>5, <3>1
  <2>8. UNCHANGED <<identified, overlapped>> /\ messages' = messages
    BY <1>0
  <2> QED
    BY <1>2, <1>6, <2>2, <2>3, <2>6, <2>7, <2>8, StepKeeps
<1> QED
  BY <1>7, <1>8 DEF InsertConversation, Wrote

LEMMA CreateMessageKeeps ==
    ASSUME FlowIInv, faults \in Nat, NEW f \in Flows, CreateMessage(f)
    PROVE  FlowIInv'
<1> DEFINE w == flows[f]
           m == [by |-> f, conv |-> w.conv]
<1>0. /\ w.pc = "create_message" /\ UNCHANGED <<customers, identified, convs, overlapped>>
      /\ messages' = Append(messages, m)
  BY DEF CreateMessage, At
<1>1. /\ w \in FlowRecord /\ Placed(w) /\ Knows(f) /\ StoreTypes /\ ConversationsOK
      /\ BuiltOn(w, f, customers, identified, convs, messages) /\ w.conv \in Nat
  BY DEF FlowIInv, Built, FlowRecord
<1>2. /\ w.frames # <<>> /\ Inner(w) /\ w.frames[2].step = 5 /\ w.ended["incoming"] = "none"
  BY <1>0, <1>1, Whereabouts
<1>3. Behind(w, 2) /\ Behind(w, 3) /\ ~Behind(w, 5) /\ (\A k : ~Assigning(w, k)) /\ Unsent(w)
  BY <1>2 DEF Behind, Assigning, Inner, Unsent
<1>4. m \in [by : Flows, conv : Nat] /\ m.conv = w.conv
  BY <1>1
<1>5. /\ messages' \in Seq([by : Flows, conv : Nat]) /\ Len(messages') = Len(messages) + 1
      /\ DOMAIN messages' = DOMAIN messages \cup {Len(messages) + 1}
      /\ \A i \in DOMAIN messages : messages'[i] = messages[i]
      /\ messages'[Len(messages) + 1] = m /\ Len(convs) \in Nat /\ Len(messages) \in Nat
      /\ DOMAIN messages = 1 .. Len(messages)
  <2> HIDE DEF m
  <2> QED
    BY <1>0, <1>1, <1>4, AppendFacts, SequenceFacts DEF StoreTypes
<1>6. StoreTypes' /\ Grows /\ ConversationsOK'
  <2>1. StoreTypes' /\ Grows
    BY <1>0, <1>1, <1>5 DEF StoreTypes, Grows
  <2>2. ConversationsOK'
    <3> SUFFICES ASSUME NEW i \in DOMAIN convs
                 PROVE  /\ convs[i].assigned # None => convs[i].assigned \in convs[i].participants
                        /\ convs[i].last # 0 => messages'[convs[i].last].conv = i
      BY <1>0 DEF ConversationsOK
    <3>1. /\ convs[i].assigned # None => convs[i].assigned \in convs[i].participants
          /\ convs[i].last # 0 => messages[convs[i].last].conv = i
      BY <1>1 DEF ConversationsOK
    <3>2. convs[i].last # 0 => convs[i].last \in DOMAIN messages
      BY <1>1 DEF StoreTypes
    <3> QED
      BY <1>5, <3>1, <3>2
  <2> QED
    BY <2>1, <2>2
<1>7. CASE RaiseFault(f)
  <2>1. SendsOne(f, Raised(w))
    BY <1>0, <1>1, <1>3, <1>7, WroteFault DEF SendsOne
  <2> QED
    BY <1>0, <1>1, <1>2, <1>6, <1>7, <2>1, WroteFault, RaiseKeeps
<1>8. CASE Become(f, Stepped([w EXCEPT !.message = Len(messages) + 1])) /\ UNCHANGED queueVars
  <2>1. PICK u : u = [w EXCEPT !.message = Len(messages) + 1]
    OBVIOUS
  <2>2. /\ u \in FlowRecord /\ u.frames = w.frames /\ u.ended = w.ended /\ u.pc = w.pc /\ u.request = w.request
        /\ u.customer = w.customer /\ u.conv = w.conv /\ u.message = Len(messages) + 1
    <3>1. Len(messages) + 1 \in Nat
      BY <1>5
    <3> QED
      BY <1>1, <2>1, <3>1 DEF FlowRecord
  <2>3. flows' = [flows EXCEPT ![f] = Stepped(u)] /\ FaultsGrow
    BY <1>8, <2>1, QueueSame DEF Become
  <2>4. /\ Inner(u) /\ u.frames[2].step = 5 /\ (\A j : ~Assigning(u, j)) /\ Placed(u) /\ u.frames # <<>>
    BY <1>1, <1>2, <1>3, <2>2, SamePlace
  <2>5. Found(u, identified') /\ Opened(u, convs') /\ Stored(u, f, messages')
    BY <1>0, <1>1, <1>3, <1>5, <2>2 DEF BuiltOn, Found, Opened, Stored
  <2>6. u.customer \in 0 .. customers' /\ u.conv \in 0 .. Len(convs') /\ u.message \in 0 .. Len(messages')
    BY <1>0, <1>1, <1>5, <2>2 DEF Knows
  <2>7. /\ Behind(u, 2) \/ (Inner(u) /\ u.frames[2].step = 2) => Found(u, identified')
        /\ Behind(u, 3) \/ (Inner(u) /\ u.frames[2].step = 3) => Opened(u, convs')
        /\ Behind(u, 5) \/ (Inner(u) /\ u.frames[2].step = 5) => Stored(u, f, messages')
        /\ Assigning(u, 1) \/ (Assigning(u, 0) /\ u.frames[1].step = 1) => convs' # <<>>
        /\ Assigning(u, 3) \/ (Assigning(u, 0) /\ u.frames[1].step = 3) => Joined(u, convs')
    BY <2>4, <2>5
  <2>8. SendsOne(f, Stepped(u))
    <3>1. ~Unsent(Stepped(u))
      BY <2>2, <2>4, SteppedSends
    <3> QED
      BY <1>0, <1>1, <1>3, <3>1 DEF SendsOne
  <2>9. UNCHANGED <<identified, overlapped>>
    BY <1>0
  <2> QED
    BY <1>2, <1>6, <2>2, <2>3, <2>6, <2>7, <2>8, <2>9, StepKeeps
<1> QED
  BY <1>7, <1>8 DEF CreateMessage, Wrote

\* One conversation is written again, for the same customer and with the same
\* participants or more.
LEMMA ReplacedConversation ==
    ASSUME StoreTypes, ConversationsOK, UNCHANGED <<customers, identified, messages, overlapped>>,
           NEW i \in DOMAIN convs, NEW c \in Conversation, convs' = [convs EXCEPT ![i] = c],
           c.customer = convs[i].customer, convs[i].participants \subseteq c.participants,
           c.last \in {0} \cup DOMAIN messages,
           c.assigned # None => c.assigned \in c.participants,
           c.last # 0 => messages[c.last].conv = i
    PROVE  StoreTypes' /\ Grows /\ ConversationsOK' /\ DOMAIN convs' = DOMAIN convs
<1>1. /\ convs \in Seq(Conversation) /\ DOMAIN convs = 1 .. Len(convs) /\ Len(convs) \in Nat
      /\ Len(messages) \in Nat
  BY SequenceFacts DEF StoreTypes
<1>2. /\ convs' \in Seq(Conversation) /\ Len(convs') = Len(convs) /\ DOMAIN convs' = DOMAIN convs
      /\ convs'[i] = c /\ \A j \in DOMAIN convs : j # i => convs'[j] = convs[j]
  <2>1. convs' \in Seq(Conversation) /\ Len(convs') = Len(convs)
    BY <1>1, ExceptSeq
  <2>2. DOMAIN convs' = DOMAIN convs /\ convs'[i] = c /\ \A j \in DOMAIN convs : j # i => convs'[j] = convs[j]
    OBVIOUS
  <2> QED
    BY <2>1, <2>2
<1>3. StoreTypes'
  BY <1>1, <1>2 DEF StoreTypes
<1>4. Grows
  BY <1>1, <1>2 DEF StoreTypes, Grows
<1>5. ConversationsOK'
  BY <1>2 DEF ConversationsOK
<1> QED
  BY <1>2, <1>3, <1>4, <1>5

LEMMA UpdateMetadataKeeps ==
    ASSUME FlowIInv, faults \in Nat, NEW f \in Flows, UpdateMetadata(f)
    PROVE  FlowIInv'
<1> DEFINE w == flows[f]
<1>0. /\ w.pc = "update_conversation_metadata" /\ UNCHANGED <<customers, identified, messages, overlapped>>
      /\ convs' = [convs EXCEPT ![w.conv].last = w.message] /\ UNCHANGED queueVars
      /\ flows' = [flows EXCEPT ![f] = Stepped(w)]
  BY DEF UpdateMetadata, At, Step, Become
<1>1. /\ w \in FlowRecord /\ Placed(w) /\ Knows(f) /\ StoreTypes /\ ConversationsOK
      /\ BuiltOn(w, f, customers, identified, convs, messages) /\ w.conv \in Nat /\ w.message \in Nat
  BY DEF FlowIInv, Built, FlowRecord
<1>2. /\ w.frames # <<>> /\ Inner(w) /\ w.frames[2].step = 6 /\ w.ended["incoming"] = "none"
  BY <1>0, <1>1, Whereabouts
<1>3. Behind(w, 2) /\ Behind(w, 3) /\ Behind(w, 5) /\ \A k : ~Assigning(w, k)
  BY <1>2 DEF Behind, Assigning, Inner
<1>4. Found(w, identified) /\ Opened(w, convs) /\ Stored(w, f, messages)
  BY <1>1, <1>3 DEF BuiltOn
<1>5. w.conv \in DOMAIN convs /\ w.message \in DOMAIN messages /\ messages[w.message].conv = w.conv
  BY <1>4 DEF Opened, Stored
<1> DEFINE c == [convs[w.conv] EXCEPT !.last = w.message]
<1>6. /\ c \in Conversation /\ c.customer = convs[w.conv].customer /\ c.last = w.message
      /\ c.assigned = convs[w.conv].assigned /\ c.participants = convs[w.conv].participants
  <2>1. convs[w.conv] \in Conversation
    BY <1>1, <1>5, SequenceFacts DEF StoreTypes
  <2> QED
    BY <1>1, <2>1 DEF Conversation
<1>7. convs' = [convs EXCEPT ![w.conv] = c]
  BY <1>0
<1> HIDE DEF c
<1>8. StoreTypes' /\ Grows /\ ConversationsOK' /\ DOMAIN convs' = DOMAIN convs
  <2>1. /\ c.assigned # None => c.assigned \in c.participants
        /\ c.last # 0 => messages[c.last].conv = w.conv
        /\ c.last \in {0} \cup DOMAIN messages
    BY <1>1, <1>5, <1>6 DEF ConversationsOK
  <2> QED
    BY <1>0, <1>1, <1>5, <1>6, <1>7, <2>1, ReplacedConversation
<1>9. FaultsGrow
  BY <1>0, QueueSame
<1>10. /\ Behind(w, 2) \/ (Inner(w) /\ w.frames[2].step = 2) => Found(w, identified')
       /\ Behind(w, 3) \/ (Inner(w) /\ w.frames[2].step = 3) => Opened(w, convs')
       /\ Behind(w, 5) \/ (Inner(w) /\ w.frames[2].step = 5) => Stored(w, f, messages')
       /\ Assigning(w, 1) \/ (Assigning(w, 0) /\ w.frames[1].step = 1) => convs' # <<>>
       /\ Assigning(w, 3) \/ (Assigning(w, 0) /\ w.frames[1].step = 3) => Joined(w, convs')
  <2>1. Opened(w, convs')
    BY <1>4, <1>5, <1>6, <1>7, <1>8 DEF Opened
  <2> QED
    BY <1>0, <1>3, <1>4, <2>1
<1>11. w.customer \in 0 .. customers' /\ w.conv \in 0 .. Len(convs') /\ w.message \in 0 .. Len(messages')
  <2>1. Len(convs) \in Nat /\ Len(convs') \in Nat /\ Len(convs) <= Len(convs')
    BY <1>1, <1>8, SequenceFacts DEF StoreTypes, Grows
  <2> QED
    BY <1>0, <1>1, <2>1 DEF Knows
<1> QED
  BY <1>0, <1>1, <1>2, <1>8, <1>9, <1>10, <1>11, StepKeeps

\* What the steps of an assignment know, and do to the first conversation.
LEMMA AssignmentStep ==
    ASSUME FlowIInv, NEW f \in Flows,
           flows[f].pc \in {"validate_assignment", "assign_participant", "update_conversation"}
    PROVE  LET w == flows[f] IN
           /\ w \in FlowRecord /\ Placed(w) /\ Knows(f) /\ w.frames # <<>>
           /\ StoreTypes /\ ConversationsOK /\ BuiltOn(w, f, customers, identified, convs, messages)
           /\ ~Inner(w) /\ Assigning(w, 0)
           /\ w.pc = "validate_assignment" => w.frames[1].step = 1
           /\ w.pc = "assign_participant" => w.frames[1].step = 3
           /\ w.pc = "update_conversation" => w.frames[1].step = 4
<1> DEFINE w == flows[f]
<1>1. w \in FlowRecord /\ Placed(w) /\ Knows(f) /\ StoreTypes /\ ConversationsOK /\ BuiltOn(w, f, customers, identified, convs, messages)
  BY DEF FlowIInv, Built
<1> QED
  BY <1>1, Whereabouts

LEMMA ValidateAssignmentKeeps ==
    ASSUME FlowIInv, faults \in Nat, NEW f \in Flows, ValidateAssignment(f)
    PROVE  FlowIInv'
<1> DEFINE w == flows[f]
<1>0. /\ w.pc = "validate_assignment" /\ UNCHANGED storeVars /\ UNCHANGED queueVars
      /\ UNCHANGED <<customers, identified, convs, messages, overlapped>>
  BY DEF ValidateAssignment, At, Step, Raise, storeVars
<1>1. /\ w \in FlowRecord /\ Placed(w) /\ Knows(f) /\ w.frames # <<>>
      /\ StoreTypes /\ ConversationsOK /\ BuiltOn(w, f, customers, identified, convs, messages)
      /\ ~Inner(w) /\ Assigning(w, 0) /\ w.frames[1].step = 1
  BY <1>0, AssignmentStep
<1>2. FaultsGrow
  BY <1>0, QueueSame
<1>3. CASE flows' = [flows EXCEPT ![f] = Raised(w)]
  BY <1>0, <1>2, <1>3, PlainOn
<1>4. CASE convs # <<>> /\ flows' = [flows EXCEPT ![f] = Stepped(w)]
  <2>1. StoreTypes' /\ Grows /\ ConversationsOK'
    BY <1>0, <1>1, StoreUntouched DEF StoreTypes
  <2>2. /\ Behind(w, 2) \/ (Inner(w) /\ w.frames[2].step = 2) => Found(w, identified')
        /\ Behind(w, 3) \/ (Inner(w) /\ w.frames[2].step = 3) => Opened(w, convs')
        /\ Behind(w, 5) \/ (Inner(w) /\ w.frames[2].step = 5) => Stored(w, f, messages')
        /\ Assigning(w, 1) \/ (Assigning(w, 0) /\ w.frames[1].step = 1) => convs' # <<>>
        /\ Assigning(w, 3) \/ (Assigning(w, 0) /\ w.frames[1].step = 3) => Joined(w, convs')
    <3>1. ~(w.frames[1].step = 3)
      BY <1>1
    <3> QED
      BY <1>0, <1>1, <1>4, <3>1 DEF BuiltOn
  <2>3. w.customer \in 0 .. customers' /\ w.conv \in 0 .. Len(convs') /\ w.message \in 0 .. Len(messages')
    BY <1>0, <1>1 DEF Knows
  <2> QED
    BY <1>0, <1>1, <1>2, <1>4, <2>1, <2>2, <2>3, StepKeeps
<1> QED
  BY <1>3, <1>4 DEF ValidateAssignment, Step, Raise, Become

LEMMA AssignParticipantKeeps ==
    ASSUME FlowIInv, faults \in Nat, NEW f \in Flows, AssignParticipant(f)
    PROVE  FlowIInv'
<1> DEFINE w == flows[f]
           c == [convs[1] EXCEPT !.participants = @ \cup {w.request}]
<1>0. /\ w.pc = "assign_participant" /\ UNCHANGED <<customers, identified, messages, overlapped>>
      /\ convs' = [convs EXCEPT ![1] = c]
  BY DEF AssignParticipant, At
<1>1. /\ w \in FlowRecord /\ Placed(w) /\ Knows(f) /\ w.frames # <<>>
      /\ StoreTypes /\ ConversationsOK /\ BuiltOn(w, f, customers, identified, convs, messages)
      /\ ~Inner(w) /\ Assigning(w, 0) /\ w.frames[1].step = 3
  BY <1>0, AssignmentStep
<1>2. Assigning(w, 1) /\ 1 \in DOMAIN convs
  <2>1. Assigning(w, 1)
    BY <1>1 DEF Assigning
  <2>2. convs # <<>>
    BY <1>1, <2>1 DEF BuiltOn
  <2> QED
    BY <1>1, <2>1, <2>2, SequenceFacts DEF StoreTypes
<1>3. w.request \in Requests
  BY <1>1 DEF FlowRecord
<1>4. /\ c \in Conversation /\ c.customer = convs[1].customer /\ c.last = convs[1].last
      /\ c.assigned = convs[1].assigned /\ c.participants = convs[1].participants \cup {w.request}
  <2>1. convs[1] \in Conversation
    BY <1>1, <1>2, SequenceFacts DEF StoreTypes
  <2> QED
    BY <1>3, <2>1 DEF Conversation
<1> HIDE DEF c
<1>5. StoreTypes' /\ Grows /\ ConversationsOK' /\ DOMAIN convs' = DOMAIN convs
  <2>1. /\ c.assigned # None => c.assigned \in c.participants
        /\ c.last # 0 => messages[c.last].conv = 1
        /\ c.last \in {0} \cup DOMAIN messages
    BY <1>1, <1>2, <1>4 DEF ConversationsOK, StoreTypes
  <2> QED
    BY <1>0, <1>1, <1>2, <1>4, <2>1, ReplacedConversation
<1>6. CASE RaiseFault(f)
  BY <1>0, <1>1, <1>5, <1>6, WroteFault, RaiseKeeps
<1>7. CASE Become(f, Stepped(w)) /\ UNCHANGED queueVars
  <2>1. FaultsGrow /\ flows' = [flows EXCEPT ![f] = Stepped(w)]
    BY <1>7, QueueSame DEF Become
  <2>2. /\ Behind(w, 2) \/ (Inner(w) /\ w.frames[2].step = 2) => Found(w, identified')
        /\ Behind(w, 3) \/ (Inner(w) /\ w.frames[2].step = 3) => Opened(w, convs')
        /\ Behind(w, 5) \/ (Inner(w) /\ w.frames[2].step = 5) => Stored(w, f, messages')
        /\ Assigning(w, 1) \/ (Assigning(w, 0) /\ w.frames[1].step = 1) => convs' # <<>>
        /\ Assigning(w, 3) \/ (Assigning(w, 0) /\ w.frames[1].step = 3) => Joined(w, convs')
    <3>1. Joined(w, convs')
      BY <1>0, <1>1, <1>2, <1>4 DEF Joined
    <3>2. convs' # <<>>
      BY <1>2, <1>5
    <3>3. BuiltOn(w, f, customers', identified', convs', messages')
      BY <1>1, <1>5, BuiltOnGrows
    <3> QED
      BY <1>1, <3>1, <3>2, <3>3 DEF BuiltOn
  <2>3. w.customer \in 0 .. customers' /\ w.conv \in 0 .. Len(convs') /\ w.message \in 0 .. Len(messages')
    <3>1. Len(convs) \in Nat /\ Len(convs') \in Nat /\ Len(convs) <= Len(convs')
      BY <1>1, <1>5, SequenceFacts DEF StoreTypes, Grows
    <3> QED
      BY <1>0, <1>1, <3>1 DEF Knows
  <2> QED
    BY <1>0, <1>1, <1>5, <2>1, <2>2, <2>3, StepKeeps
<1> QED
  BY <1>6, <1>7 DEF AssignParticipant, Wrote

LEMMA UpdateConversationKeeps ==
    ASSUME FlowIInv, faults \in Nat, NEW f \in Flows, UpdateConversation(f)
    PROVE  FlowIInv'
<1> DEFINE w == flows[f]
           c == [convs[1] EXCEPT !.status = "assigned", !.assigned = w.request]
<1>0. /\ w.pc = "update_conversation" /\ UNCHANGED <<customers, identified, messages, overlapped>>
      /\ convs' = [convs EXCEPT ![1].status = "assigned", ![1].assigned = w.request]
      /\ UNCHANGED queueVars /\ flows' = [flows EXCEPT ![f] = Stepped(w)]
  BY DEF UpdateConversation, At, Step, Become
<1>1. /\ w \in FlowRecord /\ Placed(w) /\ Knows(f) /\ w.frames # <<>>
      /\ StoreTypes /\ ConversationsOK /\ BuiltOn(w, f, customers, identified, convs, messages)
      /\ ~Inner(w) /\ Assigning(w, 0) /\ w.frames[1].step = 4
  BY <1>0, AssignmentStep
<1>2. Assigning(w, 1) /\ 1 \in DOMAIN convs /\ Assigning(w, 3)
  <2>1. Assigning(w, 1) /\ Assigning(w, 3)
    BY <1>1 DEF Assigning
  <2>2. convs # <<>>
    BY <1>1, <2>1 DEF BuiltOn
  <2> QED
    BY <1>1, <2>1, <2>2, SequenceFacts DEF StoreTypes
<1>3. Joined(w, convs)
  BY <1>1, <1>2 DEF BuiltOn
<1>4. w.request \in Requests /\ w.request \in convs[1].participants
  BY <1>1, <1>3 DEF FlowRecord, Joined
<1>5. /\ c \in Conversation /\ c.customer = convs[1].customer /\ c.last = convs[1].last
      /\ c.assigned = w.request /\ c.participants = convs[1].participants
  <2>1. convs[1] \in Conversation
    BY <1>1, <1>2, SequenceFacts DEF StoreTypes
  <2> QED
    BY <1>4, <2>1 DEF Conversation
<1>6. convs' = [convs EXCEPT ![1] = c]
  BY <1>0, <1>1, <1>2 DEF StoreTypes
<1> HIDE DEF c
<1>7. StoreTypes' /\ Grows /\ ConversationsOK' /\ DOMAIN convs' = DOMAIN convs
  <2>1. /\ c.assigned # None => c.assigned \in c.participants
        /\ c.last # 0 => messages[c.last].conv = 1
        /\ c.last \in {0} \cup DOMAIN messages
    BY <1>1, <1>2, <1>4, <1>5 DEF ConversationsOK, StoreTypes
  <2> QED
    BY <1>0, <1>1, <1>2, <1>5, <1>6, <2>1, ReplacedConversation
<1>8. /\ Behind(w, 2) \/ (Inner(w) /\ w.frames[2].step = 2) => Found(w, identified')
      /\ Behind(w, 3) \/ (Inner(w) /\ w.frames[2].step = 3) => Opened(w, convs')
      /\ Behind(w, 5) \/ (Inner(w) /\ w.frames[2].step = 5) => Stored(w, f, messages')
      /\ Assigning(w, 1) \/ (Assigning(w, 0) /\ w.frames[1].step = 1) => convs' # <<>>
      /\ Assigning(w, 3) \/ (Assigning(w, 0) /\ w.frames[1].step = 3) => Joined(w, convs')
  <2>1. BuiltOn(w, f, customers', identified', convs', messages')
    BY <1>1, <1>7, BuiltOnGrows
  <2> QED
    BY <1>1, <1>2, <2>1 DEF BuiltOn
<1>9. w.customer \in 0 .. customers' /\ w.conv \in 0 .. Len(convs') /\ w.message \in 0 .. Len(messages')
  <2>1. Len(convs) \in Nat /\ Len(convs') \in Nat /\ Len(convs) <= Len(convs')
    BY <1>1, <1>7, SequenceFacts DEF StoreTypes, Grows
  <2> QED
    BY <1>0, <1>1, <2>1 DEF Knows
<1> QED
  BY <1>0, <1>1, <1>7, <1>8, <1>9, QueueSame, StepKeeps

\* The driver refused, or the process died: what was written stays.
LEMMA UpdateIgnoredKeeps ==
    ASSUME FlowIInv, faults \in Nat, NEW f \in Flows, UpdateIgnored(f)
    PROVE  FlowIInv'
<1> DEFINE w == flows[f]
<1>0. /\ w.pc \in {"update_conversation_metadata", "update_conversation"} /\ FaultsGrow
      /\ UNCHANGED <<customers, identified, convs, messages, overlapped>> /\ flows' = [flows EXCEPT ![f] = Stepped(w)]
  BY Faulty DEF UpdateIgnored, Become, storeVars
<1>1. /\ w \in FlowRecord /\ Placed(w) /\ Knows(f)
      /\ StoreTypes /\ ConversationsOK /\ BuiltOn(w, f, customers, identified, convs, messages)
  BY DEF FlowIInv, Built
<1>2. /\ w.frames # <<>>
      /\ w.pc = "update_conversation_metadata" => Inner(w) /\ w.frames[2].step = 6
      /\ w.pc = "update_conversation" => Assigning(w, 0) /\ ~Inner(w) /\ w.frames[1].step = 4
  BY <1>0, <1>1, Whereabouts
<1>3. StoreTypes' /\ Grows /\ ConversationsOK'
  BY <1>0, <1>1, StoreUntouched DEF StoreTypes
<1>4. /\ Behind(w, 2) \/ (Inner(w) /\ w.frames[2].step = 2) => Found(w, identified')
      /\ Behind(w, 3) \/ (Inner(w) /\ w.frames[2].step = 3) => Opened(w, convs')
      /\ Behind(w, 5) \/ (Inner(w) /\ w.frames[2].step = 5) => Stored(w, f, messages')
      /\ Assigning(w, 1) \/ (Assigning(w, 0) /\ w.frames[1].step = 1) => convs' # <<>>
      /\ Assigning(w, 3) \/ (Assigning(w, 0) /\ w.frames[1].step = 3) => Joined(w, convs')
  <2>1. Inner(w) => ~Assigning(w, 0)
    BY DEF Inner, Assigning
  <2>2. /\ ~(Inner(w) /\ w.frames[2].step = 2) /\ ~(Inner(w) /\ w.frames[2].step = 3) /\ ~(Inner(w) /\ w.frames[2].step = 5)
        /\ ~(Assigning(w, 0) /\ w.frames[1].step = 1) /\ ~(Assigning(w, 0) /\ w.frames[1].step = 3)
    BY <1>0, <1>2, <2>1
  <2> QED
    BY <1>0, <1>1, <2>2 DEF BuiltOn
<1>5. w.customer \in 0 .. customers' /\ w.conv \in 0 .. Len(convs') /\ w.message \in 0 .. Len(messages')
  BY <1>0, <1>1 DEF Knows
<1> QED
  BY <1>0, <1>1, <1>2, <1>3, <1>4, <1>5, StepKeeps

LEMMA UnavailableKeeps ==
    ASSUME FlowIInv, faults \in Nat, NEW f \in Flows, Unavailable(f)
    PROVE  FlowIInv'
<1>1. /\ flows[f].pc \notin {"ready", "ended"} /\ FaultsGrow /\ UNCHANGED storeVars
      /\ flows' = [flows EXCEPT ![f] = Raised([flows[f] EXCEPT !.event = NoEvent])]
  BY Faulty DEF Unavailable, Awaiting, Become
<1>2. NoEvent \in Events \cup {NoEvent}
  OBVIOUS
<1> QED
  BY <1>1, <1>2, PlainRaise

LEMMA DieKeeps ==
    ASSUME FlowIInv, faults \in Nat, NEW f \in Flows, Die(f)
    PROVE  FlowIInv'
<1> DEFINE w == flows[f]
<1>0. /\ FaultsGrow /\ faults < faults' /\ UNCHANGED <<customers, identified, convs, messages, overlapped>>
      /\ flows' = [flows EXCEPT ![f] = [w EXCEPT !.frames = <<>>, !.pc = "ended", !.event = NoEvent]]
  BY Faulty DEF Die, Become, storeVars
<1>1. /\ w \in FlowRecord /\ Placed(w) /\ Knows(f)
      /\ StoreTypes /\ ConversationsOK /\ BuiltOn(w, f, customers, identified, convs, messages)
  BY DEF FlowIInv, Built
<1>2. PICK u : u = [w EXCEPT !.frames = <<>>, !.pc = "ended", !.event = NoEvent]
  OBVIOUS
<1>3. /\ u \in FlowRecord /\ u.frames = <<>> /\ u.ended = w.ended /\ u.pc = "ended" /\ u.request = w.request
      /\ u.customer = w.customer /\ u.conv = w.conv /\ u.message = w.message
  <2>1. "ended" \in Places /\ <<>> \in Seq(Frames)
    BY DEF Places
  <2> QED
    BY <1>1, <1>2, <2>1 DEF FlowRecord
<1>4. Placed(u) /\ ~Inner(u) /\ Len(u.frames) = 0
  BY <1>3, EndedIsPlaced
<1>5. StoreTypes' /\ Grows /\ ConversationsOK'
  BY <1>0, <1>1, StoreUntouched DEF StoreTypes
<1>6. BuiltOn(u, f, customers', identified', convs', messages')
  BY <1>0, <1>1, <1>3, <1>4 DEF BuiltOn, Behind, Assigning, Found, Opened, Stored
<1>7. SendsNone(f, u) /\ AddsNothing(f, u)
  BY <1>0, <1>3 DEF SendsNone, AddsNothing, AddingPlaces
<1>8. u.customer \in 0 .. customers' /\ u.conv \in 0 .. Len(convs') /\ u.message \in 0 .. Len(messages')
  BY <1>0, <1>1, <1>3 DEF Knows
<1>9. flows' = [flows EXCEPT ![f] = u]
  BY <1>0, <1>2
<1> QED
  BY <1>0, <1>3, <1>4, <1>5, <1>6, <1>7, <1>8, <1>9, FlowKeeps

\* publish: the document, and then the id.
LEMMA PublishEventKeeps ==
    ASSUME FlowIInv, faults \in Nat, NEW f \in Flows, PublishEvent(f)
    PROVE  FlowIInv'
<1> DEFINE w == flows[f]
           e == CHOOSE x \in Unused : TRUE
<1>0. w.pc = "publish_event" /\ UNCHANGED storeVars /\ UNCHANGED <<customers, identified, convs, messages, overlapped>>
  BY DEF PublishEvent, At, storeVars
<1>1. e \in Events
  BY DEF PublishEvent, Unused
<1>2. /\ w \in FlowRecord /\ Placed(w) /\ Knows(f)
      /\ StoreTypes /\ ConversationsOK /\ BuiltOn(w, f, customers, identified, convs, messages)
  BY DEF FlowIInv, Built
<1>3. w.frames # <<>> /\ StepOf(Top(w)) = "publish_event"
  BY <1>0, <1>2, Whereabouts
<1>4. CASE Become(f, [w EXCEPT !.pc = "push", !.event = e]) /\ UNCHANGED <<faults, lost>>
  <2> HIDE DEF e
  <2>1. PICK u : u = [w EXCEPT !.pc = "push", !.event = e]
    OBVIOUS
  <2>2. /\ u \in FlowRecord /\ u.frames = w.frames /\ u.ended = w.ended /\ u.pc = "push" /\ u.request = w.request
        /\ u.customer = w.customer /\ u.conv = w.conv /\ u.message = w.message
    <3>1. "push" \in Places
      BY DEF Places
    <3> QED
      BY <1>1, <1>2, <2>1, <3>1 DEF FlowRecord
  <2>3. flows' = [flows EXCEPT ![f] = u] /\ FaultsGrow
    BY <1>4, <2>1 DEF Become, FaultsGrow
  <2>4. StoreTypes' /\ Grows /\ ConversationsOK'
    BY <1>0, <1>2, StoreUntouched DEF StoreTypes
  <2>5. AddsNothing(f, u) /\ u.pc \in Within(StepOf(Top(w)))
    BY <1>0, <1>3, <2>2 DEF AddsNothing, AddingPlaces, Within
  <2>6. u.customer \in 0 .. customers'
    BY <1>0, <1>2, <2>2 DEF Knows
  <2> QED
    BY <1>0, <1>3, <2>2, <2>3, <2>4, <2>5, <2>6, StayKeeps
<1>5. CASE Become(f, Raised(w)) /\ Fault
  BY <1>0, <1>5, Faulty, PlainOn DEF Become
<1> QED
  BY <1>4, <1>5 DEF PublishEvent

LEMMA PushEventKeeps ==
    ASSUME FlowIInv, faults \in Nat, NEW f \in Flows, PushEvent(f)
    PROVE  FlowIInv'
<1>1. flows[f].pc = "push" /\ UNCHANGED storeVars /\ NoEvent \in Events \cup {NoEvent}
  BY DEF PushEvent, At
<1>2. CASE Become(f, Stepped([flows[f] EXCEPT !.event = NoEvent])) /\ UNCHANGED faults
  <2>1. FaultsGrow /\ flows' = [flows EXCEPT ![f] = Stepped([flows[f] EXCEPT !.event = NoEvent])] /\ flows[f].pc \in Plain
    BY <1>1, <1>2 DEF Become, FaultsGrow, Plain
  <2> QED
    BY <1>1, <2>1, PlainStep
<1>3. CASE Become(f, Raised([flows[f] EXCEPT !.event = NoEvent])) /\ Fault
  <2>1. FaultsGrow /\ flows' = [flows EXCEPT ![f] = Raised([flows[f] EXCEPT !.event = NoEvent])]
        /\ flows[f].pc \notin {"ready", "ended"}
    BY <1>1, <1>3, Faulty DEF Become
  <2> QED
    BY <1>1, <2>1, PlainRaise
<1> QED
  BY <1>2, <1>3 DEF PushEvent

\* A step that only computes, or raises.
LEMMA PlainKeeps ==
    ASSUME FlowIInv, faults \in Nat, NEW f \in Flows, ValidateWebhook(f) \/ Compute(f) \/ CheckPermissions(f)
    PROVE  FlowIInv'
<1>1. flows[f].pc \in Plain /\ UNCHANGED storeVars /\ (Step(f) \/ Raise(f))
  BY DEF ValidateWebhook, Compute, CheckPermissions, At, Plain
<1>2. FaultsGrow
  BY <1>1, QueueSame DEF Step, Raise
<1>3. CASE flows' = [flows EXCEPT ![f] = Stepped(flows[f])]
  <2>1. flows[f] \in FlowRecord
    BY DEF FlowIInv
  <2> QED
    BY <1>1, <1>2, <1>3, <2>1, SameEvent, PlainStep
<1>4. CASE flows' = [flows EXCEPT ![f] = Raised(flows[f])]
  <2>1. flows[f].pc \notin {"ready", "ended"}
    BY <1>1 DEF Plain
  <2> QED
    BY <1>1, <1>2, <1>4, <2>1, PlainOn
<1> QED
  BY <1>1, <1>3, <1>4 DEF Step, Raise, Become

\* Every step of the system keeps the invariant of the flows.
LEMMA FlowNext ==
    ASSUME FlowIInv, faults \in Nat, Next
    PROVE  FlowIInv'
<1>1. CASE QueueNext /\ UNCHANGED flowVars
  <2>1. faults' = faults \/ Fault
    BY <1>1 DEF QueueNext, ConsumerStep, Pop, Read, HandlerReturns, HandlerRaises, MarkProcessed, Requeue, NoteRetry,
                MarkFailed, Breaks, StopConsumer, RetryFailed, ResetRetries
  <2>2. FaultsGrow
    BY <2>1, Faulty DEF FaultsGrow
  <2> QED
    BY <1>1, <2>2, FlowsUntouched
<1>2. ASSUME NEW f \in Flows, FlowStep(f)
      PROVE  FlowIInv'
  BY <1>2, StartKeeps, PlainKeeps, ExecuteKeeps, FindCustomerKeeps, InsertCustomerKeeps, InsertIdentityKeeps,
     FindConversationKeeps, InsertConversationKeeps, CreateMessageKeeps, UpdateMetadataKeeps,
     ValidateAssignmentKeeps, AssignParticipantKeeps, UpdateConversationKeeps, PublishEventKeeps, PushEventKeeps
     DEF FlowStep
<1>3. ASSUME NEW f \in Flows, Unavailable(f) \/ UpdateIgnored(f) \/ Die(f)
      PROVE  FlowIInv'
  BY <1>3, UnavailableKeeps, UpdateIgnoredKeeps, DieKeeps
<1> QED
  BY <1>1, <1>2, <1>3 DEF Next

LEMMA FlowInitial == Init => FlowIInv
<1> SUFFICES ASSUME Init PROVE FlowIInv
  OBVIOUS
<1>1. PICK known \in BOOLEAN :
        /\ customers = IF known THEN 1 ELSE 0
        /\ identified = 1 .. customers
        /\ convs = IF known THEN <<NewConversation(1)>> ELSE <<>>
  BY DEF Init
<1>2. PICK request \in [Flows -> Requests], pc \in [Flows -> {"ready", "ended"}] :
        flows = [f \in Flows |->
            [request |-> request[f], frames |-> <<>>, pc |-> pc[f], event |-> NoEvent,
             customer |-> 0, conv |-> 0, message |-> 0, ended |-> [k \in DOMAIN Steps |-> "none"]]]
  BY DEF Init
<1>3. messages = <<>> /\ overlapped = FALSE /\ faults \in Nat
  BY DEF Init, QueueInit
<1>4. /\ convs \in Seq(Conversation) /\ Len(convs) \in Nat
      /\ \A i \in DOMAIN convs : convs[i].last = 0 /\ convs[i].assigned = None
  <2>1. NewConversation(1) \in Conversation /\ NewConversation(1).last = 0 /\ NewConversation(1).assigned = None
    BY NewConversationFields
  <2> HIDE DEF NewConversation
  <2>2. CASE known
    <3>1. convs = <<NewConversation(1)>>
      BY <1>1, <2>2
    <3> QED
      BY <2>1, <3>1
  <2>3. CASE ~known
    BY <1>1, <2>3
  <2> QED
    BY <2>2, <2>3
<1>5. customers \in Nat /\ identified \subseteq 1 .. customers /\ \E k \in Nat : identified \subseteq {k}
  <2>1. customers = 0 \/ customers = 1
    BY <1>1
  <2>2. identified \subseteq {1}
    BY <1>1, <2>1
  <2> QED
    BY <1>1, <2>1, <2>2
<1>6. StoreTypes /\ ConversationsOK
  <2>1. messages \in Seq([by : Flows, conv : Nat]) /\ overlapped \in BOOLEAN
    <3>1. \A S : <<>> \in Seq(S)
      OBVIOUS
    <3> QED
      BY <1>3, <3>1
  <2>2. StoreTypes
    BY <1>4, <1>5, <2>1 DEF StoreTypes
  <2>3. ConversationsOK
    BY <1>4 DEF ConversationsOK
  <2> QED
    BY <2>2, <2>3
<1>7. ASSUME NEW f \in Flows
      PROVE  /\ flows[f] \in FlowRecord /\ Placed(flows[f]) /\ Knows(f) /\ Built(f) /\ Sent(f) /\ ~Adding(f)
  <2> DEFINE w == flows[f]
  <2>1. /\ w = [request |-> request[f], frames |-> <<>>, pc |-> pc[f], event |-> NoEvent,
                customer |-> 0, conv |-> 0, message |-> 0, ended |-> [k \in DOMAIN Steps |-> "none"]]
        /\ request[f] \in Requests /\ pc[f] \in {"ready", "ended"}
    BY <1>2
  <2>2. [k \in DOMAIN Steps |-> "none"] \in [DOMAIN Steps -> Outcome] /\ [k \in DOMAIN Steps |-> "none"]["incoming"] = "none"
    BY StepTable DEF Outcome
  <2>3. w \in FlowRecord
    BY <2>1, <2>2 DEF FlowRecord, Places
  <2>4. /\ w.frames = <<>> /\ w.pc \in {"ready", "ended"} /\ w.ended["incoming"] = "none"
        /\ w.customer = 0 /\ w.conv = 0 /\ w.message = 0 /\ Len(w.frames) = 0
    BY <2>1, <2>2
  <2> HIDE DEF w
  <2>5. Placed(w)
    BY <2>4 DEF Placed
  <2>6. Knows(f)
    BY <1>3, <1>4, <1>5, <2>4 DEF Knows, w
  <2>7. BuiltOn(w, f, customers, identified, convs, messages)
    BY <2>4 DEF BuiltOn, Behind, Inner, Assigning
  <2>8. Sent(f)
    <3>1. Mine(f) = {}
      BY <1>3 DEF Mine
    <3> QED
      BY <1>3, <3>1, FS_EmptySet DEF Sent
  <2> QED
    BY <2>3, <2>4, <2>5, <2>6, <2>7, <2>8 DEF w, Built, Adding
<1>8. flows \in [Flows -> FlowRecord]
  BY <1>2, <1>7
<1>9. OneAdds
  BY <1>5, <1>7 DEF OneAdds
<1> QED
  BY <1>6, <1>7, <1>8, <1>9 DEF FlowIInv

LEMMA FlowHolds == FlowIInv /\ faults \in Nat => FlowInv
<1> SUFFICES ASSUME FlowIInv, faults \in Nat PROVE FlowInv
  OBVIOUS
<1>1. FlowsOK
  <2>1. StoreTypes /\ \A f \in Flows : flows[f] \in FlowRecord /\ Placed(flows[f]) /\ Knows(f)
    BY DEF FlowIInv
  <2>2. \A f \in Flows : Len(flows[f].frames) <= 2
    <3> TAKE f \in Flows
    <3>1. CASE flows[f].frames = <<>>
      BY <3>1
    <3>2. CASE flows[f].frames # <<>>
      <4>1. ASSUME NEW k \in {"webhook", "assign"}, NEW fr \in Frame(k), Outside(flows[f], k, fr)
            PROVE  Len(flows[f].frames) = 1
        BY <4>1, OutsideIsPlaced
      <4>2. ASSUME NEW out \in Frame("webhook"), NEW fr \in Frame("incoming"), Inside(flows[f], out, fr)
            PROVE  Len(flows[f].frames) = 2
        BY <4>2, InsideIsPlaced
      <4>3. Len(flows[f].frames) = 1 \/ Len(flows[f].frames) = 2
        BY <2>1, <3>2, <4>1, <4>2, InService
      <4>4. 1 <= 2 /\ 2 <= 2
        OBVIOUS
      <4> QED
        BY <4>3, <4>4, Zenon
    <3> QED
      BY <3>1, <3>2
  <2>3. \A f \in Flows :
          /\ flows[f].request \in Requests /\ flows[f].event \in Events \cup {NoEvent}
          /\ flows[f].ended \in [DOMAIN Steps -> Outcome]
    BY <2>1 DEF FlowRecord
  <2>4. identified \subseteq 1 .. customers
    BY <2>1 DEF StoreTypes
  <2> QED
    BY <2>1, <2>2, <2>3, <2>4 DEF FlowsOK, Knows
<1>2. CompletedIsStored
  <2> SUFFICES ASSUME NEW f \in Flows
               PROVE  /\ Cardinality(Mine(f)) <= 1 + faults
                      /\ flows[f].ended["incoming"] = "completed" =>
                            \E i \in Mine(f) : convs[messages[i].conv].customer \in identified
    BY DEF CompletedIsStored, Mine
  <2> DEFINE w == flows[f]
  <2>1. BuiltOn(w, f, customers, identified, convs, messages) /\ Sent(f)
    BY DEF FlowIInv, Built
  <2>2. CASE w.ended["incoming"] = "completed"
    <3>1. Behind(w, 2) /\ Behind(w, 3) /\ Behind(w, 5)
      BY <2>2 DEF Behind
    <3>2. Found(w, identified) /\ Opened(w, convs) /\ Stored(w, f, messages)
      BY <2>1, <3>1 DEF BuiltOn
    <3>3. w.message \in Mine(f) /\ messages[w.message].conv = w.conv
      BY <3>2 DEF Stored, Mine
    <3> QED
      BY <2>1, <3>2, <3>3 DEF Sent, Found, Opened
  <2> QED
    BY <2>1, <2>2 DEF Sent
<1>3. OneCustomer
  <2> SUFFICES ASSUME ~overlapped PROVE ~(Cardinality(identified) > 1)
    BY DEF OneCustomer
  <2>1. PICK k \in Nat : identified \subseteq {k}
    BY DEF FlowIInv, OneAdds
  <2>2. identified = {} \/ identified = {k}
    BY <2>1
  <2>3. Cardinality({}) = 0 /\ Cardinality({k}) = 1
    BY FS_EmptySet, FS_Singleton
  <2> QED
    BY <2>2, <2>3
<1> QED
  BY <1>1, <1>2, <1>3 DEF FlowInv, FlowIInv

------------------------------------------------------------------------------
(* The queue *)

ConsumerRecord ==
    [pc : {"idle", "stopped", "read", "handle", "requeue", "note", "fail"},
     event : Events \cup {NoEvent}, retries : 0 .. MaxRetries, next : 1 .. (Handlers + 1)]
Document == [status : Status, retries : 0 .. MaxRetries]

LEMMA PushFacts ==
    ASSUME NEW a \in Events, queue \in Seq(Events), Push(a)
    PROVE  /\ queue' \in Seq(Events)
           /\ \A e : Queued(e)' <=> Queued(e) \/ e = a
           /\ \A e : e # a /\ Once(e) => Once(e)'
           /\ ~Queued(a) => Once(a)'
<1>1. queue' = <<a>> \o queue /\ <<a>> \in Seq(Events) /\ Len(<<a>>) = 1 /\ <<a>>[1] = a
  BY DEF Push
<1>2. /\ queue' \in Seq(Events) /\ Len(queue') = 1 + Len(queue)
      /\ \A i \in 1 .. Len(queue') : queue'[i] = IF i <= 1 THEN <<a>>[i] ELSE queue[i - 1]
  BY <1>1, ConcatProperties
<1>3. /\ Len(queue) \in Nat /\ DOMAIN queue = 1 .. Len(queue) /\ DOMAIN queue' = 1 .. Len(queue')
  BY <1>2
<1>4. /\ queue'[1] = a /\ 1 \in DOMAIN queue'
      /\ \A i \in DOMAIN queue : i + 1 \in DOMAIN queue' /\ queue'[i + 1] = queue[i]
      /\ \A i \in DOMAIN queue' : i = 1 \/ (i - 1 \in DOMAIN queue /\ queue'[i] = queue[i - 1])
  BY <1>1, <1>2, <1>3
<1>5. \A e : Queued(e)' <=> Queued(e) \/ e = a
  BY <1>4 DEF Queued, Range
<1>6. ASSUME NEW e, e # a, Once(e)
      PROVE  Once(e)'
  <2> SUFFICES ASSUME NEW i \in DOMAIN queue', NEW j \in DOMAIN queue', queue'[i] = e, queue'[j] = e
               PROVE  i = j
    BY DEF Once
  <2>1. i - 1 \in DOMAIN queue /\ j - 1 \in DOMAIN queue /\ queue[i - 1] = e /\ queue[j - 1] = e
    BY <1>4, <1>6
  <2>2. i - 1 = j - 1
    BY <1>6, <2>1 DEF Once
  <2> QED
    BY <1>3, <2>2
<1>7. ASSUME ~Queued(a)
      PROVE  Once(a)'
  <2>1. \A i \in DOMAIN queue' : queue'[i] = a => i = 1
    BY <1>4, <1>7 DEF Queued, Range
  <2> QED
    BY <2>1 DEF Once
<1> QED
  BY <1>2, <1>5, <1>6, <1>7

LEMMA PopFacts ==
    ASSUME queue \in Seq(Events), queue # <<>>, queue' = Front(queue), NEW a, a = Last(queue)
    PROVE  /\ queue' \in Seq(Events) /\ a \in Events /\ Queued(a)
           /\ \A e : Once(e) => Once(e)'
           /\ \A e : e # a => (Queued(e)' <=> Queued(e))
           /\ Once(a) => ~Queued(a)'
<1> DEFINE n == Len(queue)
<1>1. n \in Nat \ {0} /\ DOMAIN queue = 1 .. n /\ a = queue[n]
  BY EmptySeq DEF Last
<1>2. queue' = SubSeq(queue, 1, n - 1)
  BY DEF Front
<1>3. 1 \in 1 .. n + 1 /\ n - 1 \in 0 .. n
  BY <1>1
<1>4. /\ queue' \in Seq(Events) /\ Len(queue') = n - 1
      /\ \A i \in 1 .. (n - 1) : queue'[i] = queue[i]
  <2>1. \A i \in 1 .. n : queue[i] \in Events
    BY <1>1
  <2>2. \A i \in 1 .. (n - 1) : queue[i] \in Events
    BY <1>1, <2>1
  <2>3. Len(SubSeq(queue, 1, n - 1)) = n - 1 /\ \A i \in 1 .. (n - 1) : SubSeq(queue, 1, n - 1)[i] = queue[i]
    BY <1>1
  <2>4. SubSeq(queue, 1, n - 1) \in Seq(Events)
    BY <1>1
  <2> QED
    BY <1>2, <2>3, <2>4
<1>5. DOMAIN queue' = 1 .. (n - 1)
  BY <1>4
<1>6. PICK m : m = n
  OBVIOUS
<1>7. /\ m \in DOMAIN queue /\ DOMAIN queue = DOMAIN queue' \cup {m} /\ m \notin DOMAIN queue'
      /\ (\A i \in DOMAIN queue' : queue'[i] = queue[i]) /\ queue[m] = a
  BY <1>1, <1>4, <1>5, <1>6
<1>8. a \in Events
  BY <1>1, ElementOfSeq
<1> HIDE DEF n
<1>9. Queued(a)
  BY <1>7 DEF Queued, Range
<1>10. \A e : Once(e) => Once(e)'
  BY <1>7 DEF Once
<1>11. \A e : e # a => (Queued(e)' <=> Queued(e))
  BY <1>7 DEF Queued, Range
<1>12. Once(a) => ~Queued(a)'
  <2> SUFFICES ASSUME Once(a), NEW i \in DOMAIN queue', queue'[i] = a PROVE FALSE
    BY DEF Queued, Range
  <2>1. i \in DOMAIN queue /\ queue[i] = a
    BY <1>7
  <2>2. i = m
    BY <1>7, <2>1 DEF Once
  <2> QED
    BY <1>7, <2>2
<1> QED
  BY <1>4, <1>8, <1>9, <1>10, <1>11, <1>12

\* A consumer is given another record.
LEMMA Turn ==
    ASSUME QueueTypeOK, NEW w \in Consumers, NEW c \in ConsumerRecord, consumers' = [consumers EXCEPT ![w] = c]
    PROVE  /\ consumers' \in [Consumers -> ConsumerRecord] /\ consumers'[w] = c
           /\ \A v \in Consumers \ {w} : consumers'[v] = consumers[v]
  BY DEF QueueTypeOK, ConsumerRecord

LEMMA FreeRecord ==
    /\ Free \in ConsumerRecord /\ Free.pc = "idle" /\ Free.event = NoEvent
  BY DEF Free, ConsumerRecord

\* What happens to other events leaves this one as it is.
Same(e) ==
    /\ Queued(e)' <=> Queued(e)
    /\ Once(e) => Once(e)'
    /\ e \in publishing' <=> e \in publishing
    /\ e \in manual' <=> e \in manual
    /\ e \in lost' <=> e \in lost
    /\ attempts'[e] = attempts[e] /\ events'[e] = events[e]
    /\ \A v \in Consumers :
         /\ Held(v)' = e <=> Held(v) = e
         /\ Held(v) = e =>
              /\ consumers'[v].retries = consumers[v].retries
              /\ Reading(v)' <=> Reading(v)
              /\ Working(v)' <=> Working(v)
              /\ Doing(v, "note")' <=> Doing(v, "note")

LEMMA InWorkMeans ==
    ASSUME NEW e
    PROVE  InWork(e) <=> Queued(e) \/ e \in publishing \/ e \in manual \/ \E w \in Consumers : Held(w) = e
  BY DEF InWork, Queued

LEMMA SameKeeps ==
    ASSUME NEW e, Same(e)
    PROVE  /\ InWork(e)' <=> InWork(e)
           /\ Unseen(e) => Unseen(e)'
           /\ Single(e) => Single(e)'
           /\ Counted(e) => Counted(e)'
           /\ Kept(e) => Kept(e)'
<1>1. InWork(e)' <=> InWork(e)
  <2>1. InWork(e)' <=> Queued(e)' \/ e \in publishing' \/ e \in manual' \/ \E w \in Consumers : Held(w)' = e
    BY DEF InWork, Queued
  <2> QED
    BY <2>1, InWorkMeans DEF Same
<1>2. Unseen(e) => Unseen(e)'
  BY <1>1 DEF Same, Unseen
<1>3. Single(e) => Single(e)'
  BY DEF Same, Single
<1>4. Counted(e) => Counted(e)'
  BY <1>1 DEF Same, Counted
<1>5. Unwritten(e)' <=> Unwritten(e)
  BY DEF Same, Unwritten
<1>6. Kept(e) => Kept(e)'
  BY <1>1, <1>5 DEF Same, Kept
<1> QED
  BY <1>1, <1>2, <1>3, <1>4, <1>6

\* A step that concerns one event.
LEMMA EventKeeps ==
    ASSUME QueueIInv, QueueTypeOK', retried' \in 0 .. MaxManual, faults' \in 0 .. MaxFaults,
           lost' \subseteq Events, crossed \subseteq crossed', crossed' \subseteq Events,
           \A v \in Consumers : ConsumerOK(v)',
           NEW a, \A e \in Events \ {a} : Same(e) /\ done[e] \subseteq done'[e],
           a \in Events => /\ events'[a].status = "processed" => done'[a] = 1 .. Handlers
                           /\ Unseen(a)'
                           /\ a \notin crossed' => Single(a)' /\ Counted(a)'
                           /\ a \notin crossed' /\ a \notin lost' => Kept(a)'
    PROVE  QueueIInv'
<1>1. ASSUME NEW e \in Events, e # a
      PROVE  /\ events'[e].status = "processed" => done'[e] = 1 .. Handlers
             /\ Unseen(e)'
             /\ e \notin crossed' => Single(e)' /\ Counted(e)'
             /\ e \notin crossed' /\ e \notin lost' => Kept(e)'
  <2>1. Same(e) /\ done[e] \subseteq done'[e] /\ done'[e] \subseteq 1 .. Handlers
    BY <1>1 DEF QueueTypeOK
  <2>2. events'[e] = events[e] /\ (e \in lost' <=> e \in lost) /\ (e \notin crossed' => e \notin crossed)
    BY <2>1 DEF Same
  <2>3. events[e].status = "processed" => done[e] = 1 .. Handlers
    BY DEF QueueIInv
  <2>4. Unseen(e) /\ (e \notin crossed => Single(e) /\ Counted(e)) /\ (e \notin crossed /\ e \notin lost => Kept(e))
    BY DEF QueueIInv
  <2> QED
    BY <2>1, <2>2, <2>3, <2>4, SameKeeps
<1>2. ASSUME NEW e \in Events
      PROVE  /\ events'[e].status = "processed" => done'[e] = 1 .. Handlers
             /\ Unseen(e)'
             /\ e \notin crossed' => Single(e)' /\ Counted(e)'
             /\ e \notin crossed' /\ e \notin lost' => Kept(e)'
  BY <1>1
<1> QED
  BY <1>2 DEF QueueIInv

\* The queue does not move.
LEMMA StillIsSame ==
    ASSUME NEW e, UNCHANGED <<events, queue, publishing, manual, attempts>>, e \in lost' <=> e \in lost,
           \A v \in Consumers : Held(v) = e \/ Held(v)' = e =>
                /\ Held(v)' = Held(v)
                /\ consumers'[v].retries = consumers[v].retries
                /\ Reading(v)' <=> Reading(v)
                /\ Working(v)' <=> Working(v)
                /\ Doing(v, "note")' <=> Doing(v, "note")
    PROVE  Same(e)
<1>1. (Queued(e)' <=> Queued(e)) /\ (Once(e)' <=> Once(e))
  BY DEF Queued, Once
<1> QED
  BY <1>1 DEF Same

\* What is known of the event a consumer holds.
LEMMA Holding ==
    ASSUME QueueIInv, NEW w \in Consumers, Reading(w) \/ Working(w)
    PROVE  LET a == Held(w) IN
           /\ a \in Events /\ InWork(a) /\ events[a] \in Document /\ events[a].status # "absent"
           /\ consumers[w] \in ConsumerRecord /\ ConsumerOK(w)
<1>1. consumers[w] \in ConsumerRecord /\ ConsumerOK(w)
  BY DEF QueueIInv, QueueTypeOK, ConsumerRecord
<1>2. Held(w) \in Events
  BY <1>1 DEF ConsumerOK, Held, ConsumerRecord
<1>3. InWork(Held(w))
  BY DEF InWork
<1>4. events[Held(w)] \in Document /\ events[Held(w)].status # "absent"
  BY <1>2, <1>3 DEF QueueIInv, QueueTypeOK, Document, Unseen
<1> QED
  BY <1>1, <1>2, <1>3, <1>4

------------------------------------------------------------------------------
(* The steps of a consumer *)

\* What a consumer's step leaves of the other events and the other consumers.
LEMMA Alone ==
    ASSUME QueueIInv, NEW w \in Consumers, NEW c \in ConsumerRecord, consumers' = [consumers EXCEPT ![w] = c],
           NEW e \in Events, Held(w) # e, c.event # e, Queued(e)' <=> Queued(e), Once(e) => Once(e)',
           e \in publishing' <=> e \in publishing, e \in manual' <=> e \in manual, e \in lost' <=> e \in lost,
           attempts'[e] = attempts[e], events'[e] = events[e]
    PROVE  Same(e)
<1>1. consumers'[w] = c /\ \A v \in Consumers \ {w} : consumers'[v] = consumers[v]
  BY Turn DEF QueueIInv
<1>2. e # NoEvent
  OBVIOUS
<1>3. ASSUME NEW v \in Consumers
      PROVE  /\ Held(v)' = e <=> Held(v) = e
             /\ Held(v) = e =>
                  /\ consumers'[v].retries = consumers[v].retries
                  /\ Reading(v)' <=> Reading(v)
                  /\ Working(v)' <=> Working(v)
                  /\ Doing(v, "note")' <=> Doing(v, "note")
  <2>1. CASE v = w
    BY <1>1, <1>2, <2>1 DEF Held
  <2>2. CASE v # w
    BY <1>1, <2>2 DEF Held, Reading, Working, Doing
  <2> QED
    BY <2>1, <2>2
<1> QED
  BY <1>3 DEF Same

LEMMA ConsumersOK ==
    ASSUME QueueIInv, NEW w \in Consumers, NEW c \in ConsumerRecord, consumers' = [consumers EXCEPT ![w] = c],
           \A e \in Events : done[e] \subseteq done'[e], ConsumerOK(w)'
    PROVE  \A v \in Consumers : ConsumerOK(v)'
<1> SUFFICES ASSUME NEW v \in Consumers, v # w PROVE ConsumerOK(v)'
  OBVIOUS
<1>1. consumers'[v] = consumers[v]
  BY Turn DEF QueueIInv
<1>2. ConsumerOK(v) /\ consumers[v] \in ConsumerRecord
  BY DEF QueueIInv, QueueTypeOK, ConsumerRecord
<1>3. Working(v) => Held(v) \in Events
  BY <1>2 DEF ConsumerOK, Held, ConsumerRecord
<1> QED
  BY <1>1, <1>2, <1>3 DEF ConsumerOK, Held, Reading, Working, Doing

LEMMA FreeOK == ASSUME NEW w, consumers'[w] = Free PROVE ConsumerOK(w)'
  BY FreeRecord DEF ConsumerOK, Held, Reading, Working, Doing

LEMMA PopKeeps ==
    ASSUME QueueIInv, NEW w \in Consumers, Pop(w)
    PROVE  QueueIInv'
<1> PICK a : a = Last(queue)
  OBVIOUS
<1> DEFINE c == [Free EXCEPT !.pc = "read", !.event = a]
<1>0. /\ Doing(w, "idle") /\ queue # <<>> /\ queue' = Front(queue) /\ consumers' = [consumers EXCEPT ![w] = c]
      /\ UNCHANGED <<events, publishing, manual, retried, faults, done, attempts, lost, crossed>>
  BY DEF Pop, History
<1>1. QueueTypeOK /\ ConsumerOK(w) /\ retried \in 0 .. MaxManual /\ faults \in 0 .. MaxFaults
      /\ lost \subseteq Events /\ crossed \subseteq Events
  BY DEF QueueIInv
<1>2. /\ queue' \in Seq(Events) /\ a \in Events /\ Queued(a)
      /\ \A e : Once(e) => Once(e)'
      /\ \A e : e # a => (Queued(e)' <=> Queued(e))
      /\ Once(a) => ~Queued(a)'
  <2>1. queue \in Seq(Events)
    BY <1>1 DEF QueueTypeOK
  <2> QED
    BY <1>0, <2>1, PopFacts
<1>3. c \in ConsumerRecord /\ c.pc = "read" /\ c.event = a /\ c.next = 1
  <2>1. Free \in ConsumerRecord /\ Free.next = 1
    BY FreeRecord DEF Free
  <2> QED
    BY <1>2, <2>1 DEF ConsumerRecord
<1> HIDE DEF c
<1>4. /\ consumers' \in [Consumers -> ConsumerRecord] /\ consumers'[w] = c
      /\ \A v \in Consumers \ {w} : consumers'[v] = consumers[v]
  BY <1>0, <1>1, <1>3, Turn
<1>5. QueueTypeOK'
  BY <1>0, <1>1, <1>2, <1>4 DEF QueueTypeOK, ConsumerRecord
<1>6. Held(w) = NoEvent /\ a # NoEvent
  BY <1>0, <1>1, <1>2 DEF ConsumerOK, Reading, Working, Doing
<1>7. \A v \in Consumers : ConsumerOK(v)'
  <2>1. ConsumerOK(w)'
    BY <1>3, <1>4, <1>6 DEF ConsumerOK, Held, Reading, Working, Doing
  <2> QED
    BY <1>0, <1>3, <2>1, ConsumersOK
<1>8. ASSUME NEW e \in Events, e # a
      PROVE  Same(e) /\ done[e] \subseteq done'[e]
  <2>1. /\ Queued(e)' <=> Queued(e)
        /\ Once(e) => Once(e)'
        /\ e \in publishing' <=> e \in publishing
        /\ e \in manual' <=> e \in manual
        /\ e \in lost' <=> e \in lost
        /\ attempts'[e] = attempts[e] /\ events'[e] = events[e]
    BY <1>0, <1>2, <1>8
  <2>2. Held(w) # e /\ c.event # e /\ c \in ConsumerRecord /\ consumers' = [consumers EXCEPT ![w] = c]
    BY <1>0, <1>3, <1>6, <1>8, QueueAssumption
  <2>3. Same(e)
    BY <2>1, <2>2, Alone
  <2> QED
    BY <1>0, <2>3
<1>9. InWork(a)
  BY <1>2, InWorkMeans
<1>10. Unseen(a)'
  BY <1>0, <1>2, <1>9 DEF QueueIInv, Unseen
<1>11. /\ Held(w)' = a /\ Reading(w)' /\ ~Working(w)' /\ ~Doing(w, "note")'
       /\ \A v \in Consumers \ {w} : /\ Held(v)' = Held(v) /\ Reading(v)' = Reading(v)
                                     /\ Working(v)' = Working(v) /\ Doing(v, "note")' = Doing(v, "note")
                                     /\ consumers'[v].retries = consumers[v].retries
  BY <1>3, <1>4 DEF Held, Reading, Working, Doing
<1>12. ASSUME a \notin crossed
       PROVE  Single(a)' /\ Counted(a)'
  <2>1. Single(a) /\ Counted(a)
    BY <1>2, <1>12 DEF QueueIInv
  <2>2. Single(a)'
    BY <1>0, <1>2, <1>11, <2>1 DEF Single
  <2>3. Counted(a)'
    BY <1>0, <1>6, <1>9, <1>11, <2>1 DEF Counted
  <2> QED
    BY <2>2, <2>3
<1>13. Kept(a)'
  BY <1>11 DEF Kept, InWork
<1> QED
  BY <1>0, <1>1, <1>5, <1>7, <1>8, <1>10, <1>12, <1>13, EventKeeps DEF QueueIInv

\* What the others hold, and how, does not change when one consumer moves.
LEMMA Others ==
    ASSUME QueueTypeOK, NEW w \in Consumers, NEW c \in ConsumerRecord, consumers' = [consumers EXCEPT ![w] = c]
    PROVE  /\ Held(w)' = c.event /\ (Reading(w)' <=> c.pc = "read") /\ (Doing(w, "note")' <=> c.pc = "note")
           /\ Working(w)' <=> c.pc \in {"handle", "requeue", "note", "fail"}
           /\ consumers'[w] = c
           /\ \A v \in Consumers \ {w} :
                /\ Held(v)' = Held(v) /\ (Reading(v)' <=> Reading(v))
                /\ (Working(v)' <=> Working(v)) /\ (Doing(v, "note")' <=> Doing(v, "note"))
                /\ consumers'[v].retries = consumers[v].retries
  BY Turn DEF Held, Reading, Working, Doing

\* Whose an event is that nobody crosses.
LEMMA Sole ==
    ASSUME QueueIInv, NEW w \in Consumers, NEW a \in Events \ crossed, Held(w) = a, Reading(w) \/ Working(w)
    PROVE  /\ a \notin publishing
           /\ Reading(w) => ~Queued(a) /\ \A v \in Consumers \ {w} : Held(v) = a => Doing(v, "note")
           /\ Working(w) => a \notin manual
           /\ Doing(w, "note") => \A v \in Consumers \ {w} : Held(v) = a => Reading(v)
           /\ Working(w) /\ ~Doing(w, "note") => ~Queued(a) /\ \A v \in Consumers \ {w} : Held(v) # a
<1>1. Single(a)
  BY DEF QueueIInv
<1>2. Reading(w) => ~Doing(w, "note") /\ ~Working(w)
  BY DEF Reading, Working, Doing
<1> QED
  BY <1>1, <1>2 DEF Single

LEMMA HolderKeeps ==
    ASSUME QueueIInv, NEW w \in Consumers, Reading(w) \/ Working(w), NEW a, a = Held(w),
           NEW c \in ConsumerRecord, consumers' = [consumers EXCEPT ![w] = c], c.event \in {a, NoEvent}, ConsumerOK(w)',
           QueueTypeOK', UNCHANGED <<publishing, manual, retried>>, faults' \in 0 .. MaxFaults,
           \A e : e # a => (Queued(e)' <=> Queued(e)) /\ (Once(e) => Once(e)'),
           \A e \in Events \ {a} :
                /\ attempts'[e] = attempts[e] /\ events'[e] = events[e]
                /\ e \in lost' <=> e \in lost,
           \A e \in Events : done[e] \subseteq done'[e],
           lost' \subseteq Events, crossed \subseteq crossed', crossed' \subseteq Events,
           events'[a].status = "processed" => done'[a] = 1 .. Handlers,
           events'[a].status # "absent",
           a \notin crossed' => Single(a)' /\ Counted(a)',
           a \notin crossed' /\ a \notin lost' => Kept(a)'
    PROVE  QueueIInv'
<1>1. a \in Events /\ retried \in 0 .. MaxManual
  BY Holding DEF QueueIInv
<1>2. \A v \in Consumers : ConsumerOK(v)'
  BY ConsumersOK
<1>3. ASSUME NEW e \in Events, e # a
      PROVE  Same(e)
  <2>1. /\ Queued(e)' <=> Queued(e)
        /\ Once(e) => Once(e)'
        /\ e \in publishing' <=> e \in publishing
        /\ e \in manual' <=> e \in manual
        /\ e \in lost' <=> e \in lost
        /\ attempts'[e] = attempts[e] /\ events'[e] = events[e]
    BY <1>3
  <2>2. Held(w) # e /\ c.event # e
    BY <1>3, QueueAssumption
  <2> QED
    BY <2>1, <2>2, Alone
<1>4. Unseen(a)'
  BY DEF Unseen
<1> QED
  BY <1>1, <1>2, <1>3, <1>4, EventKeeps

LEMMA ReadKeeps ==
    ASSUME QueueIInv, NEW w \in Consumers, Read(w)
    PROVE  QueueIInv'
<1> PICK a : a = Held(w)
  OBVIOUS
<1>0. /\ Reading(w) /\ UNCHANGED <<events, queue, publishing, manual, retried, faults, done, lost>>
      /\ crossed' = IF Unwritten(a) THEN crossed \cup {a} ELSE crossed
  BY DEF Read, Reading
<1>1. /\ QueueTypeOK /\ retried \in 0 .. MaxManual /\ faults \in 0 .. MaxFaults /\ lost \subseteq Events /\ crossed \subseteq Events
  BY DEF QueueIInv
<1>2. /\ a \in Events /\ InWork(a) /\ events[a] \in Document /\ events[a].status # "absent"
      /\ consumers[w] \in ConsumerRecord /\ consumers[w].next = 1 /\ a # NoEvent
  <2>1. /\ a \in Events /\ InWork(a) /\ events[a] \in Document /\ events[a].status # "absent"
        /\ consumers[w] \in ConsumerRecord /\ ConsumerOK(w)
    BY <1>0, Holding
  <2> QED
    BY <1>0, <2>1 DEF ConsumerOK
<1>3. \A e : (Queued(e)' <=> Queued(e)) /\ (Once(e) => Once(e)')
  BY <1>0 DEF Queued, Once
<1>4. lost' \subseteq Events /\ crossed \subseteq crossed' /\ crossed' \subseteq Events
      /\ (events[a].status = "processed" => done[a] = 1 .. Handlers)
  BY <1>0, <1>1, <1>2 DEF QueueIInv
<1>5. a \notin crossed' => /\ a \notin crossed /\ a \notin manual /\ a \notin publishing /\ ~Queued(a)
                           /\ \A v \in Consumers \ {w} : Held(v) # a
                           /\ Single(a) /\ Counted(a)
  <2> SUFFICES ASSUME a \notin crossed'
               PROVE  /\ a \notin crossed /\ a \notin manual /\ a \notin publishing /\ ~Queued(a)
                      /\ \A v \in Consumers \ {w} : Held(v) # a
                      /\ Single(a) /\ Counted(a)
    OBVIOUS
  <2>1. a \notin crossed /\ ~Unwritten(a)
    BY <1>0
  <2>2. a \notin manual /\ \A v \in Consumers : Held(v) = a => ~Doing(v, "note")
    BY <2>1 DEF Unwritten
  <2>3. /\ a \notin publishing /\ ~Queued(a) /\ \A v \in Consumers \ {w} : Held(v) = a => Doing(v, "note")
    BY <1>0, <1>2, <2>1, Sole
  <2>4. Single(a) /\ Counted(a)
    BY <1>2, <2>1 DEF QueueIInv
  <2> QED
    BY <2>1, <2>2, <2>3, <2>4
<1>6. CASE events[a].status = "processed"
  <2>1. consumers' = [consumers EXCEPT ![w] = Free] /\ UNCHANGED attempts
    BY <1>6 DEF Read, Rest
  <2>2. /\ Held(w)' = NoEvent /\ ~Reading(w)' /\ ~Working(w)' /\ ConsumerOK(w)'
        /\ \A v \in Consumers \ {w} : Held(v)' = Held(v)
    BY <1>1, <2>1, Others, FreeRecord, FreeOK
  <2>3. QueueTypeOK'
    BY <1>0, <1>1, <2>1, FreeRecord, Turn DEF QueueTypeOK, ConsumerRecord
  <2>4. a \notin crossed' => \A v \in Consumers : Held(v)' # a
    BY <1>2, <1>5, <2>2
  <2>5. a \notin crossed' => Single(a)'
    BY <1>0, <1>3, <1>5, <2>4 DEF Single
  <2>6. a \notin crossed' => ~InWork(a)' /\ ~Unwritten(a)'
    BY <1>0, <1>3, <1>5, <2>4 DEF InWork, Unwritten, Queued
  <2>7. a \notin crossed' => Counted(a)'
    BY <1>0, <1>5, <2>1, <2>4, <2>6 DEF Counted
  <2>8. a \notin crossed' => Kept(a)'
    BY <1>0, <1>6, <2>6 DEF Kept
  <2>9. Free.event \in {a, NoEvent} /\ Free \in ConsumerRecord
    BY FreeRecord
  <2> QED
    BY <1>0, <1>1, <1>2, <1>3, <1>4, <2>1, <2>2, <2>3, <2>5, <2>7, <2>8, <2>9, HolderKeeps
<1>7. CASE events[a].status # "processed"
  <2> DEFINE r == events[a].retries
             c == [consumers[w] EXCEPT !.pc = "handle", !.retries = r]
             t == IF attempts[a] < Cap THEN attempts[a] + 1 ELSE attempts[a]
  <2>1. consumers' = [consumers EXCEPT ![w] = c] /\ attempts' = [attempts EXCEPT ![a] = t]
    BY <1>7 DEF Read
  <2>2. /\ c \in ConsumerRecord /\ c.pc = "handle" /\ c.event = a /\ c.retries = r /\ c.next = 1 /\ r \in 0 .. MaxRetries
    BY <1>2 DEF ConsumerRecord, Document, Held
  <2>3. /\ attempts \in [Events -> 0 .. Cap] /\ t \in 0 .. Cap /\ Cap = MaxRetries + 2 /\ attempts[a] \in 0 .. Cap
    BY <1>1, <1>2 DEF QueueTypeOK, Cap
  <2>4. /\ attempts'[a] = t /\ \A e \in Events \ {a} : attempts'[e] = attempts[e]
    BY <1>2, <2>1, <2>3
  <2>5. t \in Nat /\ attempts[a] <= t /\ (attempts[a] <= MaxRetries => t = attempts[a] + 1)
        /\ (attempts[a] >= r => t >= r + 1)
    BY <2>2, <2>3
  <2> HIDE DEF c, t, r
  <2>6. /\ Held(w)' = a /\ ~Reading(w)' /\ Working(w)' /\ ~Doing(w, "note")' /\ consumers'[w] = c
        /\ \A v \in Consumers \ {w} : Held(v)' = Held(v)
    BY <1>1, <2>1, <2>2, Others
  <2>7. ConsumerOK(w)'
    BY <1>2, <2>2, <2>6 DEF ConsumerOK, Doing
  <2>8. QueueTypeOK'
    <3>1. consumers' \in [Consumers -> ConsumerRecord]
      BY <1>1, <2>1, <2>2, Turn
    <3>2. attempts' \in [Events -> 0 .. Cap]
      BY <2>1, <2>3
    <3> QED
      BY <1>0, <1>1, <3>1, <3>2 DEF QueueTypeOK, ConsumerRecord
  <2>9. a \notin crossed' => Single(a)'
    BY <1>0, <1>3, <1>5, <2>6 DEF Single
  <2>10. a \notin crossed' => Counted(a)'
    <3> SUFFICES ASSUME a \notin crossed' PROVE Counted(a)'
      OBVIOUS
    <3>1. attempts[a] >= r /\ (events[a].status = "failed" => attempts[a] >= MaxRetries + 1)
      BY <1>5 DEF Counted, r
    <3>2. a \notin lost => attempts[a] = r
      BY <1>0, <1>2, <1>5 DEF Counted, r
    <3>3. a \notin lost' => attempts'[a] = r + 1 /\ attempts'[a] <= MaxRetries + 1
      BY <1>0, <2>2, <2>3, <2>4, <2>5, <3>2
    <3>4. /\ attempts'[a] >= r + 1 /\ attempts'[a] >= events'[a].retries
          /\ events'[a].status = "failed" => attempts'[a] >= MaxRetries + 1
      BY <1>0, <2>2, <2>3, <2>4, <2>5, <3>1 DEF r
    <3>5. \A v \in Consumers : Held(v)' = a => v = w
      BY <1>5, <2>6
    <3> QED
      BY <1>0, <1>5, <2>2, <2>6, <3>3, <3>4, <3>5 DEF Counted
  <2>11. a \notin crossed' => Kept(a)'
    <3> SUFFICES ASSUME a \notin crossed' PROVE Kept(a)'
      OBVIOUS
    <3>1. InWork(a)'
      BY <2>6 DEF InWork
    <3>2. ~Unwritten(a)'
      BY <1>0, <1>5, <2>6 DEF Unwritten
    <3> QED
      BY <3>1, <3>2 DEF Kept
  <2>12. c.event \in {a, NoEvent}
    BY <2>2
  <2> QED
    BY <1>0, <1>1, <1>2, <1>3, <1>4, <2>1, <2>2, <2>4, <2>7, <2>8, <2>9, <2>10, <2>11, <2>12, HolderKeeps
<1> QED
  BY <1>6, <1>7

LEMMA HandlerReturnsKeeps ==
    ASSUME QueueIInv, NEW w \in Consumers, HandlerReturns(w)
    PROVE  QueueIInv'
<1> PICK a : a = Held(w)
  OBVIOUS
<1> DEFINE c == [consumers[w] EXCEPT !.next = @ + 1]
           d == done[a] \cup {consumers[w].next}
<1>0. /\ Doing(w, "handle") /\ Working(w) /\ consumers[w].next <= Handlers
      /\ consumers' = [consumers EXCEPT ![w] = c] /\ done' = [done EXCEPT ![a] = d]
      /\ UNCHANGED <<events, queue, publishing, manual, retried, faults, attempts, lost, crossed>>
  BY DEF HandlerReturns, Doing, Working
<1>1. /\ QueueTypeOK /\ retried \in 0 .. MaxManual /\ faults \in 0 .. MaxFaults /\ lost \subseteq Events /\ crossed \subseteq Events
  BY DEF QueueIInv
<1>2. /\ a \in Events /\ InWork(a) /\ events[a] \in Document /\ events[a].status # "absent"
      /\ consumers[w] \in ConsumerRecord /\ ConsumerOK(w) /\ (events[a].status = "processed" => done[a] = 1 .. Handlers)
  <2>1. /\ a \in Events /\ InWork(a) /\ events[a] \in Document /\ events[a].status # "absent"
        /\ consumers[w] \in ConsumerRecord /\ ConsumerOK(w)
    BY <1>0, Holding
  <2> QED
    BY <2>1 DEF QueueIInv
<1>3. /\ c \in ConsumerRecord /\ c.pc = "handle" /\ c.event = a /\ c.retries = consumers[w].retries
      /\ c.next = consumers[w].next + 1 /\ consumers[w].next \in 1 .. Handlers
  BY <1>0, <1>2 DEF ConsumerRecord, Doing, Held
<1>4. /\ done \in [Events -> SUBSET (1 .. Handlers)] /\ d \subseteq 1 .. Handlers /\ done[a] \subseteq d
  BY <1>1, <1>2, <1>3 DEF QueueTypeOK
<1>5. /\ done' \in [Events -> SUBSET (1 .. Handlers)] /\ done'[a] = d /\ \A e \in Events : done[e] \subseteq done'[e]
  BY <1>0, <1>2, <1>4
<1>6. 1 .. (c.next - 1) \subseteq d
  <2>1. 1 .. (consumers[w].next - 1) \subseteq done[a]
    BY <1>0, <1>2 DEF ConsumerOK
  <2> QED
    BY <1>3, <2>1
<1> HIDE DEF c, d
<1>7. /\ Held(w)' = a /\ ~Reading(w)' /\ Working(w)' /\ ~Doing(w, "note")' /\ consumers'[w] = c
      /\ \A v \in Consumers \ {w} :
                /\ Held(v)' = Held(v) /\ (Reading(v)' <=> Reading(v))
                /\ (Working(v)' <=> Working(v)) /\ (Doing(v, "note")' <=> Doing(v, "note"))
                /\ consumers'[v].retries = consumers[v].retries
  BY <1>0, <1>1, <1>3, Others
<1>8. ConsumerOK(w)'
  BY <1>2, <1>3, <1>5, <1>6, <1>7 DEF ConsumerOK, Doing
<1>9. QueueTypeOK'
  <2>1. consumers' \in [Consumers -> ConsumerRecord]
    BY <1>0, <1>1, <1>3, Turn
  <2> QED
    BY <1>0, <1>1, <1>5, <2>1 DEF QueueTypeOK, ConsumerRecord
<1>10. Same(a)
  <2>1. ~Reading(w) /\ ~Doing(w, "note")
    BY <1>0 DEF Reading, Doing
  <2>2. \A v \in Consumers :
          /\ Held(v)' = Held(v) /\ consumers'[v].retries = consumers[v].retries
          /\ (Reading(v)' <=> Reading(v)) /\ (Working(v)' <=> Working(v)) /\ (Doing(v, "note")' <=> Doing(v, "note"))
    BY <1>0, <1>3, <1>7, <2>1
  <2> QED
    BY <1>0, <2>2, StillIsSame
<1>11. /\ a \notin crossed => Single(a) /\ Counted(a)
       /\ a \notin crossed /\ a \notin lost => Kept(a)
  BY <1>2 DEF QueueIInv
<1>12. /\ a \notin crossed' => Single(a)' /\ Counted(a)'
       /\ a \notin crossed' /\ a \notin lost' => Kept(a)'
  BY <1>0, <1>10, <1>11, SameKeeps
<1>13. events'[a].status = "processed" => done'[a] = 1 .. Handlers
  BY <1>0, <1>2, <1>4, <1>5
<1>14. \A e : (Queued(e)' <=> Queued(e)) /\ (Once(e) => Once(e)')
  BY <1>0 DEF Queued, Once
<1>15. c.event \in {a, NoEvent}
  BY <1>3
<1> QED
  BY <1>0, <1>1, <1>2, <1>3, <1>5, <1>8, <1>9, <1>12, <1>13, <1>14, <1>15, HolderKeeps

LEMMA HandlerRaisesKeeps ==
    ASSUME QueueIInv, NEW w \in Consumers, HandlerRaises(w)
    PROVE  QueueIInv'
<1> PICK a : a = Held(w)
  OBVIOUS
<1> DEFINE c == [consumers[w] EXCEPT !.pc = IF consumers[w].retries < MaxRetries THEN "requeue" ELSE "fail"]
<1>0. /\ Doing(w, "handle") /\ Working(w) /\ consumers[w].next <= Handlers
      /\ consumers' = [consumers EXCEPT ![w] = c]
      /\ UNCHANGED <<events, queue, publishing, manual, retried, faults, done, attempts, lost, crossed>>
  BY DEF HandlerRaises, Doing, Working, Goto, History
<1>1. /\ QueueTypeOK /\ retried \in 0 .. MaxManual /\ faults \in 0 .. MaxFaults /\ lost \subseteq Events /\ crossed \subseteq Events
  BY DEF QueueIInv
<1>2. /\ a \in Events /\ InWork(a) /\ events[a] \in Document /\ events[a].status # "absent"
      /\ consumers[w] \in ConsumerRecord /\ ConsumerOK(w) /\ (events[a].status = "processed" => done[a] = 1 .. Handlers)
  <2>1. /\ a \in Events /\ InWork(a) /\ events[a] \in Document /\ events[a].status # "absent"
        /\ consumers[w] \in ConsumerRecord /\ ConsumerOK(w)
    BY <1>0, Holding
  <2> QED
    BY <2>1 DEF QueueIInv
<1>3. /\ c \in ConsumerRecord /\ c.pc \in {"requeue", "fail"} /\ c.event = a /\ c.retries = consumers[w].retries
      /\ c.next = consumers[w].next /\ c.retries \in 0 .. MaxRetries
      /\ (c.pc = "requeue" => c.retries < MaxRetries) /\ (c.pc = "fail" => c.retries = MaxRetries)
  BY <1>0, <1>2 DEF ConsumerRecord, Doing, Held
<1> HIDE DEF c
<1>7. /\ Held(w)' = a /\ ~Reading(w)' /\ Working(w)' /\ ~Doing(w, "note")' /\ consumers'[w] = c
      /\ \A v \in Consumers \ {w} :
                /\ Held(v)' = Held(v) /\ (Reading(v)' <=> Reading(v))
                /\ (Working(v)' <=> Working(v)) /\ (Doing(v, "note")' <=> Doing(v, "note"))
                /\ consumers'[v].retries = consumers[v].retries
  BY <1>0, <1>1, <1>3, Others
<1>8. ConsumerOK(w)'
  BY <1>0, <1>2, <1>3, <1>7 DEF ConsumerOK, Doing
<1>9. QueueTypeOK'
  <2>1. consumers' \in [Consumers -> ConsumerRecord]
    BY <1>0, <1>1, <1>3, Turn
  <2> QED
    BY <1>0, <1>1, <2>1 DEF QueueTypeOK, ConsumerRecord
<1>10. Same(a)
  <2>1. ~Reading(w) /\ ~Doing(w, "note")
    BY <1>0 DEF Reading, Doing
  <2>2. \A v \in Consumers :
          /\ Held(v)' = Held(v) /\ consumers'[v].retries = consumers[v].retries
          /\ (Reading(v)' <=> Reading(v)) /\ (Working(v)' <=> Working(v)) /\ (Doing(v, "note")' <=> Doing(v, "note"))
    BY <1>0, <1>3, <1>7, <2>1
  <2> QED
    BY <1>0, <2>2, StillIsSame
<1>11. /\ a \notin crossed => Single(a) /\ Counted(a)
       /\ a \notin crossed /\ a \notin lost => Kept(a)
  BY <1>2 DEF QueueIInv
<1>12. /\ a \notin crossed' => Single(a)' /\ Counted(a)'
       /\ a \notin crossed' /\ a \notin lost' => Kept(a)'
  BY <1>0, <1>10, <1>11, SameKeeps
<1>14. \A e : (Queued(e)' <=> Queued(e)) /\ (Once(e) => Once(e)')
  BY <1>0 DEF Queued, Once
<1>15. c.event \in {a, NoEvent} /\ \A e \in Events : done[e] \subseteq done'[e]
  BY <1>0, <1>3
<1> QED
  BY <1>0, <1>1, <1>2, <1>3, <1>8, <1>9, <1>12, <1>14, <1>15, HolderKeeps

\* An event is given its last status by the one consumer that has it.
LEMMA SettleKeeps ==
    ASSUME QueueIInv, NEW w \in Consumers, Doing(w, "handle") \/ Doing(w, "fail"), NEW a, a = Held(w),
           NEW status \in {"processed", "failed"},
           consumers' = [consumers EXCEPT ![w] = Free],
           events' = [events EXCEPT ![a] = [status |-> status, retries |-> events[a].retries]],
           UNCHANGED <<queue, publishing, manual, retried, faults, done, attempts, lost, crossed>>,
           status = "processed" => done[a] = 1 .. Handlers,
           status = "failed" => consumers[w].retries = MaxRetries
    PROVE  QueueIInv'
<1>0. Working(w) /\ ~Doing(w, "note") /\ ~Reading(w)
  BY DEF Working, Doing, Reading
<1>1. /\ QueueTypeOK /\ retried \in 0 .. MaxManual /\ faults \in 0 .. MaxFaults /\ lost \subseteq Events /\ crossed \subseteq Events
  BY DEF QueueIInv
<1>2. /\ a \in Events /\ InWork(a) /\ events[a] \in Document /\ events[a].status # "absent"
      /\ consumers[w] \in ConsumerRecord /\ ConsumerOK(w) /\ (events[a].status = "processed" => done[a] = 1 .. Handlers)
  <2>1. /\ a \in Events /\ InWork(a) /\ events[a] \in Document /\ events[a].status # "absent"
        /\ consumers[w] \in ConsumerRecord /\ ConsumerOK(w)
    BY <1>0, Holding
  <2> QED
    BY <2>1 DEF QueueIInv
<1> DEFINE doc == [status |-> status, retries |-> events[a].retries]
<1>3. doc \in Document /\ doc.status = status /\ doc.retries = events[a].retries
  BY <1>2 DEF Document, Status
<1> HIDE DEF doc
<1>4. /\ events' \in [Events -> Document] /\ events'[a] = doc /\ \A e \in Events \ {a} : events'[e] = events[e]
  <2>1. events \in [Events -> Document] /\ events' = [events EXCEPT ![a] = doc]
    BY <1>1 DEF QueueTypeOK, Document, doc
  <2> QED
    BY <1>2, <1>3, <2>1
<1>5. /\ Held(w)' = NoEvent /\ ConsumerOK(w)'
      /\ \A v \in Consumers \ {w} : Held(v)' = Held(v)
      /\ Free \in ConsumerRecord /\ Free.event \in {a, NoEvent}
  BY <1>1, Others, FreeRecord, FreeOK
<1>6. QueueTypeOK'
  <2>1. consumers' \in [Consumers -> ConsumerRecord]
    BY <1>1, <1>5, Turn
  <2> QED
    BY <1>1, <1>4, <2>1 DEF QueueTypeOK, ConsumerRecord, Document
<1>7. \A e : (Queued(e)' <=> Queued(e)) /\ (Once(e) => Once(e)')
  BY DEF Queued, Once
<1>8. a \notin crossed => /\ a \notin manual /\ a \notin publishing /\ ~Queued(a)
                          /\ \A v \in Consumers \ {w} : Held(v) # a
                          /\ Single(a) /\ Counted(a)
  BY <1>0, <1>2, Sole DEF QueueIInv
<1>9. a # NoEvent
  BY <1>2
<1>10. a \notin crossed' => \A v \in Consumers : Held(v)' # a
  BY <1>5, <1>8, <1>9
<1>11. a \notin crossed' => Single(a)'
  BY <1>7, <1>8, <1>10 DEF Single
<1>12. a \notin crossed' => ~InWork(a)' /\ ~Unwritten(a)'
  BY <1>7, <1>8, <1>10 DEF InWork, Unwritten, Queued
<1>13. a \notin crossed' => Counted(a)'
  <2> SUFFICES ASSUME a \notin crossed PROVE Counted(a)'
    OBVIOUS
  <2>1. attempts[a] >= events[a].retries /\ attempts[a] >= consumers[w].retries + 1 /\ (a \notin lost => attempts[a] <= MaxRetries + 1)
    BY <1>0, <1>8 DEF Counted
  <2>2. status = "failed" => attempts[a] >= MaxRetries + 1
    BY <2>1
  <2> QED
    BY <1>3, <1>4, <1>8, <1>10, <1>12, <2>1, <2>2 DEF Counted
<1>14. a \notin crossed' => Kept(a)'
  BY <1>3, <1>4, <1>12 DEF Kept
<1>15. /\ events'[a].status = "processed" => done'[a] = 1 .. Handlers
       /\ events'[a].status # "absent"
  BY <1>3, <1>4
<1>16. \A e \in Events : done[e] \subseteq done'[e]
  OBVIOUS
<1> QED
  BY <1>0, <1>1, <1>4, <1>5, <1>6, <1>7, <1>11, <1>13, <1>14, <1>15, <1>16, HolderKeeps

LEMMA MarkProcessedKeeps ==
    ASSUME QueueIInv, NEW w \in Consumers, MarkProcessed(w)
    PROVE  QueueIInv'
<1> PICK a : a = Held(w)
  OBVIOUS
<1>1. Doing(w, "handle") /\ Working(w)
  BY DEF MarkProcessed, Doing, Working
<1>2. a \in Events /\ consumers[w] \in ConsumerRecord /\ ConsumerOK(w) /\ done[a] \subseteq 1 .. Handlers
  <2>1. a \in Events /\ consumers[w] \in ConsumerRecord /\ ConsumerOK(w)
    BY <1>1, Holding
  <2> QED
    BY <2>1 DEF QueueIInv, QueueTypeOK
<1>3. done[a] = 1 .. Handlers
  <2>1. 1 .. (consumers[w].next - 1) \subseteq done[a]
    BY <1>1, <1>2 DEF ConsumerOK
  <2>2. consumers[w].next = Handlers + 1
    BY <1>2 DEF ConsumerRecord, MarkProcessed
  <2>3. consumers[w].next - 1 = Handlers
    BY <2>2, QueueAssumption
  <2>4. 1 .. Handlers \subseteq done[a]
    BY <2>1, <2>3, Zenon
  <2> QED
    BY <1>2, <2>4, Zenon
<1> QED
  BY <1>1, <1>3, SettleKeeps DEF MarkProcessed, SetStatus, Rest, History

LEMMA MarkFailedKeeps ==
    ASSUME QueueIInv, NEW w \in Consumers, MarkFailed(w)
    PROVE  QueueIInv'
<1> PICK a : a = Held(w)
  OBVIOUS
<1>1. Doing(w, "fail") /\ ConsumerOK(w)
  BY DEF MarkFailed, QueueIInv
<1>2. consumers[w].retries = MaxRetries
  BY <1>1 DEF ConsumerOK
<1> QED
  BY <1>1, <1>2, SettleKeeps DEF MarkFailed, SetStatus, Rest, History

LEMMA RequeueKeeps ==
    ASSUME QueueIInv, NEW w \in Consumers, Requeue(w)
    PROVE  QueueIInv'
<1> PICK a : a = Held(w)
  OBVIOUS
<1> DEFINE c == [consumers[w] EXCEPT !.pc = "note"]
<1>0. /\ Doing(w, "requeue") /\ Working(w) /\ ~Doing(w, "note") /\ Push(a)
      /\ consumers' = [consumers EXCEPT ![w] = c]
      /\ UNCHANGED <<events, publishing, manual, retried, faults, done, attempts, lost, crossed>>
  BY DEF Requeue, Doing, Working, Goto, History
<1>1. /\ QueueTypeOK /\ retried \in 0 .. MaxManual /\ faults \in 0 .. MaxFaults /\ lost \subseteq Events /\ crossed \subseteq Events
  BY DEF QueueIInv
<1>2. /\ a \in Events /\ InWork(a) /\ events[a] \in Document /\ events[a].status # "absent"
      /\ consumers[w] \in ConsumerRecord /\ ConsumerOK(w) /\ (events[a].status = "processed" => done[a] = 1 .. Handlers)
  <2>1. /\ a \in Events /\ InWork(a) /\ events[a] \in Document /\ events[a].status # "absent"
        /\ consumers[w] \in ConsumerRecord /\ ConsumerOK(w)
    BY <1>0, Holding
  <2> QED
    BY <2>1 DEF QueueIInv
<1>3. /\ c \in ConsumerRecord /\ c.pc = "note" /\ c.event = a /\ c.retries = consumers[w].retries
      /\ c.next = consumers[w].next
  BY <1>0, <1>2 DEF ConsumerRecord, Doing, Held
<1> HIDE DEF c
<1>4. /\ Held(w)' = a /\ ~Reading(w)' /\ Working(w)' /\ Doing(w, "note")' /\ consumers'[w] = c
      /\ \A v \in Consumers \ {w} : Held(v)' = Held(v)
  BY <1>0, <1>1, <1>3, Others
<1>5. ConsumerOK(w)'
  BY <1>0, <1>2, <1>3, <1>4 DEF ConsumerOK, Doing
<1>6. /\ queue' \in Seq(Events)
      /\ \A e : Queued(e)' <=> Queued(e) \/ e = a
      /\ \A e : e # a /\ Once(e) => Once(e)'
      /\ ~Queued(a) => Once(a)'
  BY <1>0, <1>1, <1>2, PushFacts DEF QueueTypeOK
<1>7. QueueTypeOK'
  <2>1. consumers' \in [Consumers -> ConsumerRecord]
    BY <1>0, <1>1, <1>3, Turn
  <2> QED
    BY <1>0, <1>1, <1>6, <2>1 DEF QueueTypeOK, ConsumerRecord
<1>8. a \notin crossed => /\ a \notin manual /\ a \notin publishing /\ ~Queued(a)
                          /\ \A v \in Consumers \ {w} : Held(v) # a
                          /\ Single(a) /\ Counted(a)
  BY <1>0, <1>2, Sole DEF QueueIInv
<1>9. a \notin crossed' => Single(a)'
  BY <1>0, <1>4, <1>6, <1>8 DEF Single
<1>10. a \notin crossed' => Counted(a)'
  <2> SUFFICES ASSUME a \notin crossed PROVE Counted(a)'
    BY <1>0
  <2>1. \A v \in Consumers : Held(v)' = a => v = w
    BY <1>4, <1>8
  <2>2. /\ attempts[a] >= events[a].retries /\ (events[a].status = "failed" => attempts[a] >= MaxRetries + 1)
        /\ attempts[a] >= consumers[w].retries + 1
        /\ a \notin lost => attempts[a] <= MaxRetries + 1 /\ attempts[a] = consumers[w].retries + 1
    BY <1>0, <1>8 DEF Counted
  <2> QED
    BY <1>0, <1>3, <1>4, <1>8, <2>1, <2>2 DEF Counted
<1>11. Kept(a)'
  <2>1. InWork(a)'
    BY <1>4 DEF InWork
  <2> QED
    BY <1>6, <2>1 DEF Kept
<1>12. c.event \in {a, NoEvent} /\ (\A e \in Events : done[e] \subseteq done'[e])
       /\ \A e : e # a => (Queued(e)' <=> Queued(e)) /\ (Once(e) => Once(e)')
  BY <1>0, <1>3, <1>6
<1> QED
  BY <1>0, <1>1, <1>2, <1>3, <1>5, <1>7, <1>9, <1>10, <1>11, <1>12, HolderKeeps

LEMMA NoteRetryKeeps ==
    ASSUME QueueIInv, NEW w \in Consumers, NoteRetry(w)
    PROVE  QueueIInv'
<1> PICK a : a = Held(w)
  OBVIOUS
<1> DEFINE doc == [status |-> "pending", retries |-> consumers[w].retries + 1]
<1>0. /\ Doing(w, "note") /\ Working(w) /\ ~Reading(w)
      /\ consumers' = [consumers EXCEPT ![w] = Free] /\ events' = [events EXCEPT ![a] = doc]
      /\ UNCHANGED <<queue, publishing, manual, retried, faults, done, attempts, lost, crossed>>
  BY DEF NoteRetry, Doing, Working, Reading, SetStatus, Rest, History
<1>1. /\ QueueTypeOK /\ retried \in 0 .. MaxManual /\ faults \in 0 .. MaxFaults /\ lost \subseteq Events /\ crossed \subseteq Events
  BY DEF QueueIInv
<1>2. /\ a \in Events /\ InWork(a) /\ events[a] \in Document /\ events[a].status # "absent"
      /\ consumers[w] \in ConsumerRecord /\ ConsumerOK(w) /\ (events[a].status = "processed" => done[a] = 1 .. Handlers)
  <2>1. /\ a \in Events /\ InWork(a) /\ events[a] \in Document /\ events[a].status # "absent"
        /\ consumers[w] \in ConsumerRecord /\ ConsumerOK(w)
    BY <1>0, Holding
  <2> QED
    BY <2>1 DEF QueueIInv
<1>3. doc \in Document /\ doc.status = "pending" /\ doc.retries = consumers[w].retries + 1 /\ consumers[w].retries \in Nat
  <2>1. consumers[w].retries < MaxRetries /\ consumers[w].retries \in 0 .. MaxRetries
    BY <1>0, <1>2 DEF ConsumerOK, Doing, ConsumerRecord
  <2> QED
    BY <2>1 DEF Document, Status
<1> HIDE DEF doc
<1>4. /\ events' \in [Events -> Document] /\ events'[a] = doc /\ \A e \in Events \ {a} : events'[e] = events[e]
  <2>1. events \in [Events -> Document]
    BY <1>1 DEF QueueTypeOK, Document
  <2> QED
    BY <1>0, <1>2, <1>3, <2>1
<1>5. /\ Held(w)' = NoEvent /\ ConsumerOK(w)' /\ ~Reading(w)' /\ ~Working(w)' /\ ~Doing(w, "note")'
      /\ \A v \in Consumers \ {w} :
                /\ Held(v)' = Held(v) /\ (Reading(v)' <=> Reading(v))
                /\ (Working(v)' <=> Working(v)) /\ (Doing(v, "note")' <=> Doing(v, "note"))
                /\ consumers'[v].retries = consumers[v].retries
      /\ Free \in ConsumerRecord /\ Free.event \in {a, NoEvent}
  BY <1>0, <1>1, Others, FreeRecord, FreeOK
<1>6. QueueTypeOK'
  <2>1. consumers' \in [Consumers -> ConsumerRecord]
    BY <1>0, <1>1, <1>5, Turn
  <2> QED
    BY <1>0, <1>1, <1>4, <2>1 DEF QueueTypeOK, ConsumerRecord, Document
<1>7. \A e : (Queued(e)' <=> Queued(e)) /\ (Once(e) => Once(e)')
  BY <1>0 DEF Queued, Once
<1>8. a \notin crossed => /\ a \notin manual /\ a \notin publishing
                          /\ \A v \in Consumers \ {w} : Held(v) = a => Reading(v)
                          /\ Single(a) /\ Counted(a)
  BY <1>0, <1>2, Sole DEF QueueIInv
<1>9. a # NoEvent /\ \A v \in Consumers : Reading(v) => ~Working(v) /\ ~Doing(v, "note")
  BY <1>2 DEF Reading, Working, Doing
<1>10. a \notin crossed' => Single(a)'
  <2> SUFFICES ASSUME a \notin crossed PROVE Single(a)'
    BY <1>0
  <2>1. Once(a) /\ a \notin publishing
        /\ (\A v \in Consumers : Held(v) = a => (Queued(a) => Doing(v, "note")) /\ (Working(v) => a \notin manual))
        /\ \A u, v \in Consumers : u # v /\ Held(u) = a /\ Held(v) = a =>
              (Reading(u) /\ Doing(v, "note")) \/ (Doing(u, "note") /\ Reading(v))
    BY <1>8 DEF Single
  <2> QED
    BY <1>0, <1>5, <1>7, <1>8, <1>9, <2>1 DEF Single
<1>11. a \notin crossed' => Counted(a)'
  <2> SUFFICES ASSUME a \notin crossed PROVE Counted(a)'
    BY <1>0
  <2>1. \A v \in Consumers : Held(v)' = a => Reading(v)' /\ ~Working(v)'
    BY <1>5, <1>8, <1>9
  <2>2. /\ attempts[a] >= consumers[w].retries + 1
        /\ a \notin lost => attempts[a] <= MaxRetries + 1 /\ attempts[a] = consumers[w].retries + 1
    BY <1>0, <1>8 DEF Counted
  <2> QED
    BY <1>0, <1>3, <1>4, <1>8, <2>1, <2>2 DEF Counted
<1>12. a \notin crossed' /\ a \notin lost' => Kept(a)'
  <2> SUFFICES ASSUME a \notin crossed, a \notin lost PROVE Kept(a)'
    BY <1>0
  <2>1. Unwritten(a)
    BY <1>0 DEF Unwritten
  <2>2. Queued(a) \/ \E v \in Consumers : Held(v) = a /\ Reading(v)
    BY <1>2, <2>1 DEF QueueIInv, Kept
  <2>3. Queued(a)' \/ \E v \in Consumers : Held(v)' = a /\ Reading(v)'
    BY <1>0, <1>5, <1>7, <2>2
  <2>4. InWork(a)'
    BY <2>3 DEF InWork, Queued
  <2> QED
    BY <2>3, <2>4 DEF Kept
<1>13. /\ (events'[a].status = "processed" => done'[a] = 1 .. Handlers)
       /\ events'[a].status # "absent"
  BY <1>3, <1>4
<1>14. \A e \in Events : done[e] \subseteq done'[e]
  BY <1>0
<1> QED
  BY <1>0, <1>1, <1>4, <1>5, <1>6, <1>7, <1>10, <1>11, <1>12, <1>13, <1>14, HolderKeeps

LEMMA BreaksKeeps ==
    ASSUME QueueIInv, NEW w \in Consumers, Breaks(w)
    PROVE  QueueIInv'
<1> PICK a : a = Held(w)
  OBVIOUS
<1>a. /\ Held(w) # NoEvent /\ Fault /\ consumers' = [consumers EXCEPT ![w] = Free] /\ lost' = lost \cup {a}
      /\ UNCHANGED <<events, queue, publishing, manual, retried, done, attempts, crossed>>
  BY DEF Breaks, Rest, Lose
<1>0. Reading(w) \/ Working(w)
  BY <1>a DEF QueueIInv, ConsumerOK
<1>1. /\ QueueTypeOK /\ retried \in 0 .. MaxManual /\ faults \in 0 .. MaxFaults /\ lost \subseteq Events /\ crossed \subseteq Events
  BY DEF QueueIInv
<1>2. /\ a \in Events /\ InWork(a) /\ events[a] \in Document /\ events[a].status # "absent"
      /\ consumers[w] \in ConsumerRecord /\ ConsumerOK(w) /\ (events[a].status = "processed" => done[a] = 1 .. Handlers)
  <2>1. /\ a \in Events /\ InWork(a) /\ events[a] \in Document /\ events[a].status # "absent"
        /\ consumers[w] \in ConsumerRecord /\ ConsumerOK(w)
    BY <1>0, Holding
  <2> QED
    BY <2>1 DEF QueueIInv
<1>3. faults' \in 0 .. MaxFaults
  BY <1>1, <1>a DEF Fault
<1>4. /\ Held(w)' = NoEvent /\ ConsumerOK(w)' /\ ~Reading(w)' /\ ~Working(w)' /\ ~Doing(w, "note")'
      /\ \A v \in Consumers \ {w} :
                /\ Held(v)' = Held(v) /\ (Reading(v)' <=> Reading(v))
                /\ (Working(v)' <=> Working(v)) /\ (Doing(v, "note")' <=> Doing(v, "note"))
                /\ consumers'[v].retries = consumers[v].retries
      /\ Free \in ConsumerRecord /\ Free.event \in {a, NoEvent}
  BY <1>a, <1>1, Others, FreeRecord, FreeOK
<1>5. QueueTypeOK'
  <2>1. consumers' \in [Consumers -> ConsumerRecord]
    BY <1>a, <1>1, <1>4, Turn
  <2> QED
    BY <1>a, <1>1, <2>1 DEF QueueTypeOK, ConsumerRecord
<1>6. \A e : (Queued(e)' <=> Queued(e)) /\ (Once(e) => Once(e)')
  BY <1>a DEF Queued, Once
<1>7. a \notin crossed' => Single(a)' /\ Counted(a)'
  <2> SUFFICES ASSUME a \notin crossed PROVE Single(a)' /\ Counted(a)'
    BY <1>a
  <2>1. Single(a) /\ Counted(a) /\ a # NoEvent /\ a \in lost'
    BY <1>a, <1>2 DEF QueueIInv
  <2>2. \A v \in Consumers : Held(v)' = a => v # w /\ Held(v) = a
    BY <1>4, <2>1
  <2>3. Single(a)'
    BY <1>a, <1>4, <1>6, <2>1, <2>2 DEF Single
  <2>4. Counted(a)'
    BY <1>a, <1>4, <2>1, <2>2 DEF Counted
  <2> QED
    BY <2>3, <2>4
<1>8. /\ (\A e \in Events \ {a} : e \in lost' <=> e \in lost) /\ a \in lost' /\ lost' \subseteq Events
      /\ \A e \in Events : done[e] \subseteq done'[e]
  BY <1>a, <1>1, <1>2
<1> QED
  BY <1>a, <1>0, <1>1, <1>2, <1>3, <1>4, <1>5, <1>6, <1>7, <1>8, HolderKeeps

LEMMA StopConsumerKeeps ==
    ASSUME QueueIInv, NEW w \in Consumers, StopConsumer(w)
    PROVE  QueueIInv'
<1> DEFINE c == [consumers[w] EXCEPT !.pc = "stopped"]
<1>0. /\ Doing(w, "idle") /\ consumers' = [consumers EXCEPT ![w] = c]
      /\ UNCHANGED <<events, queue, publishing, manual, retried, faults, done, attempts, lost, crossed>>
  BY DEF StopConsumer, Goto, History
<1>1. /\ QueueTypeOK /\ retried \in 0 .. MaxManual /\ faults \in 0 .. MaxFaults /\ lost \subseteq Events /\ crossed \subseteq Events
      /\ ConsumerOK(w) /\ consumers[w] \in ConsumerRecord
  BY DEF QueueIInv, QueueTypeOK, ConsumerRecord
<1>2. Held(w) = NoEvent
  BY <1>0, <1>1 DEF ConsumerOK, Reading, Working, Doing
<1>3. c \in ConsumerRecord /\ c.pc = "stopped" /\ c.event = NoEvent
  BY <1>1, <1>2 DEF ConsumerRecord, Held
<1> HIDE DEF c
<1>4. ConsumerOK(w)'
  <2>1. Held(w)' = NoEvent /\ ~Reading(w)' /\ ~Working(w)' /\ consumers'[w] = c
    BY <1>0, <1>1, <1>3, Others
  <2> QED
    BY <1>3, <2>1 DEF ConsumerOK, Doing
<1>5. QueueTypeOK'
  <2>1. consumers' \in [Consumers -> ConsumerRecord]
    BY <1>0, <1>1, <1>3, Turn
  <2> QED
    BY <1>0, <1>1, <2>1 DEF QueueTypeOK, ConsumerRecord
<1>6. \A v \in Consumers : ConsumerOK(v)'
  BY <1>0, <1>3, <1>4, ConsumersOK
<1>7. \A e : (Queued(e)' <=> Queued(e)) /\ (Once(e) => Once(e)')
  BY <1>0 DEF Queued, Once
<1>8. \A e \in Events \ {NoEvent} : Same(e) /\ done[e] \subseteq done'[e]
  BY <1>0, <1>2, <1>3, <1>7, Alone
<1> QED
  BY <1>0, <1>1, <1>5, <1>6, <1>8, EventKeeps

------------------------------------------------------------------------------
(* The steps of those who publish, and retry by hand *)

\* Nobody holds another event than before.
LEMMA Bystanders ==
    ASSUME UNCHANGED consumers, NEW e, Queued(e)' <=> Queued(e), Once(e) => Once(e)',
           e \in publishing' <=> e \in publishing, e \in manual' <=> e \in manual, e \in lost' <=> e \in lost,
           attempts'[e] = attempts[e], events'[e] = events[e]
    PROVE  Same(e)
  BY DEF Same, Held, Reading, Working, Doing

LEMMA ConsumersStill ==
    ASSUME QueueIInv, UNCHANGED <<consumers, done>>
    PROVE  /\ \A v \in Consumers : ConsumerOK(v)'
           /\ \A v \in Consumers : /\ Held(v)' = Held(v) /\ (Reading(v)' <=> Reading(v)) /\ (Working(v)' <=> Working(v))
                                   /\ (Doing(v, "note")' <=> Doing(v, "note")) /\ consumers'[v].retries = consumers[v].retries
           /\ \A e \in Events : done[e] \subseteq done'[e]
  BY DEF QueueIInv, ConsumerOK, Held, Reading, Working, Doing

LEMMA RetryFailedKeeps ==
    ASSUME QueueIInv, NEW a \in Events, RetryFailed(a)
    PROVE  QueueIInv'
<1>0. /\ events[a].status # "absent" /\ retried < MaxManual /\ a \notin manual
      /\ retried' = retried + 1 /\ manual' = manual \cup {a} /\ Push(a)
      /\ crossed' = (IF InWork(a) THEN crossed \cup {a} ELSE crossed)
      /\ attempts' = [attempts EXCEPT ![a] = 0]
      /\ UNCHANGED <<events, consumers, publishing, faults, done, lost>>
  BY DEF RetryFailed
<1>1. /\ QueueTypeOK /\ retried \in 0 .. MaxManual /\ faults \in 0 .. MaxFaults /\ lost \subseteq Events /\ crossed \subseteq Events
      /\ (events[a].status = "processed" => done[a] = 1 .. Handlers)
  BY DEF QueueIInv
<1>2. /\ queue' \in Seq(Events)
      /\ \A e : Queued(e)' <=> Queued(e) \/ e = a
      /\ \A e : e # a /\ Once(e) => Once(e)'
      /\ ~Queued(a) => Once(a)'
  BY <1>0, <1>1, PushFacts DEF QueueTypeOK
<1>3. /\ attempts' \in [Events -> 0 .. Cap] /\ attempts'[a] = 0 /\ \A e \in Events \ {a} : attempts'[e] = attempts[e]
  BY <1>0, <1>1 DEF QueueTypeOK, Cap
<1>4. QueueTypeOK'
  BY <1>0, <1>1, <1>2, <1>3 DEF QueueTypeOK
<1>5. /\ \A v \in Consumers : ConsumerOK(v)'
      /\ \A v \in Consumers : /\ Held(v)' = Held(v) /\ (Reading(v)' <=> Reading(v)) /\ (Working(v)' <=> Working(v))
                              /\ (Doing(v, "note")' <=> Doing(v, "note")) /\ consumers'[v].retries = consumers[v].retries
      /\ \A e \in Events : done[e] \subseteq done'[e]
  BY <1>0, ConsumersStill
<1>6. \A e \in Events \ {a} : Same(e) /\ done[e] \subseteq done'[e]
  BY <1>0, <1>2, <1>3, <1>5, Bystanders
<1>7. a \notin crossed' => ~InWork(a) /\ a \notin crossed
  BY <1>0
<1>8. a \notin crossed' => ~Queued(a) /\ a \notin publishing /\ \A v \in Consumers : Held(v) # a
  BY <1>7, InWorkMeans
<1>9. a \notin crossed' => Single(a)'
  BY <1>0, <1>2, <1>5, <1>8 DEF Single
<1>10. a \notin crossed' => Counted(a)'
  BY <1>0, <1>3, <1>5, <1>8 DEF Counted
<1>11. Kept(a)'
  <2>1. Queued(a)' /\ InWork(a)'
    BY <1>2 DEF InWork, Queued
  <2> QED
    BY <2>1 DEF Kept
<1>12. Unseen(a)'
  BY <1>0 DEF Unseen
<1>13. retried' \in 0 .. MaxManual /\ crossed \subseteq crossed' /\ crossed' \subseteq Events
       /\ (events'[a].status = "processed" => done'[a] = 1 .. Handlers)
  BY <1>0, <1>1
<1> QED
  BY <1>0, <1>1, <1>4, <1>5, <1>6, <1>9, <1>10, <1>11, <1>12, <1>13, EventKeeps

LEMMA ResetRetriesKeeps ==
    ASSUME QueueIInv, NEW a \in Events, ResetRetries(a)
    PROVE  QueueIInv'
<1> DEFINE doc == [status |-> "pending", retries |-> 0]
<1>0. /\ a \in manual /\ manual' = manual \ {a} /\ events' = [events EXCEPT ![a] = doc]
      /\ UNCHANGED <<queue, consumers, publishing, retried, faults, done, attempts, lost, crossed>>
  BY DEF ResetRetries, SetStatus, History
<1>1. /\ QueueTypeOK /\ retried \in 0 .. MaxManual /\ faults \in 0 .. MaxFaults /\ lost \subseteq Events /\ crossed \subseteq Events
  BY DEF QueueIInv
<1>2. doc \in Document /\ doc.status = "pending" /\ doc.retries = 0
  BY DEF Document, Status
<1> HIDE DEF doc
<1>3. /\ events' \in [Events -> Document] /\ events'[a] = doc /\ \A e \in Events \ {a} : events'[e] = events[e]
  <2>1. events \in [Events -> Document]
    BY <1>1 DEF QueueTypeOK, Document
  <2> QED
    BY <1>0, <1>2, <2>1
<1>4. QueueTypeOK'
  BY <1>0, <1>1, <1>3 DEF QueueTypeOK, Document
<1>5. /\ \A v \in Consumers : ConsumerOK(v)'
      /\ \A v \in Consumers : /\ Held(v)' = Held(v) /\ (Reading(v)' <=> Reading(v)) /\ (Working(v)' <=> Working(v))
                              /\ (Doing(v, "note")' <=> Doing(v, "note")) /\ consumers'[v].retries = consumers[v].retries
      /\ \A e \in Events : done[e] \subseteq done'[e]
  BY <1>0, ConsumersStill
<1>6. \A e : (Queued(e)' <=> Queued(e)) /\ (Once(e) => Once(e)')
  BY <1>0 DEF Queued, Once
<1>7. \A e \in Events \ {a} : Same(e) /\ done[e] \subseteq done'[e]
  BY <1>0, <1>3, <1>5, <1>6, Bystanders
<1>8. a \notin crossed => Single(a) /\ Counted(a)
  BY DEF QueueIInv
<1>9. a \notin crossed => \A v \in Consumers : Held(v) = a => ~Working(v)
  BY <1>0, <1>8 DEF Single
<1>10. a \notin crossed' => Single(a)'
  BY <1>0, <1>5, <1>6, <1>8 DEF Single
<1>11. a \notin crossed' => Counted(a)'
  <2> SUFFICES ASSUME a \notin crossed PROVE Counted(a)'
    BY <1>0
  <2>1. attempts[a] = 0 /\ events'[a].status = "pending" /\ events'[a].retries = 0 /\ a \notin manual'
    BY <1>0, <1>2, <1>3, <1>8 DEF Counted
  <2> QED
    BY <1>0, <1>5, <1>9, <2>1 DEF Counted
<1>12. a \notin crossed' /\ a \notin lost' => Kept(a)'
  <2> SUFFICES ASSUME a \notin crossed, a \notin lost PROVE Kept(a)'
    BY <1>0
  <2>1. Unwritten(a)
    BY <1>0 DEF Unwritten
  <2>2. Queued(a) \/ \E v \in Consumers : Held(v) = a /\ Reading(v)
    BY <2>1 DEF QueueIInv, Kept
  <2>3. Queued(a)' \/ \E v \in Consumers : Held(v)' = a /\ Reading(v)'
    BY <1>5, <1>6, <2>2
  <2>4. InWork(a)'
    BY <2>3 DEF InWork, Queued
  <2> QED
    BY <2>3, <2>4 DEF Kept
<1>13. Unseen(a)' /\ (events'[a].status = "processed" => done'[a] = 1 .. Handlers)
  BY <1>2, <1>3 DEF Unseen
<1>14. retried' \in 0 .. MaxManual /\ faults' \in 0 .. MaxFaults /\ lost' \subseteq Events
       /\ crossed \subseteq crossed' /\ crossed' \subseteq Events
  BY <1>0, <1>1
<1> QED
  BY <1>4, <1>5, <1>7, <1>10, <1>11, <1>12, <1>13, <1>14, EventKeeps

LEMMA QueueNextKeeps == ASSUME QueueIInv, QueueNext PROVE QueueIInv'
  BY PopKeeps, ReadKeeps, HandlerReturnsKeeps, HandlerRaisesKeeps, MarkProcessedKeeps, RequeueKeeps, NoteRetryKeeps,
     MarkFailedKeeps, BreaksKeeps, StopConsumerKeeps, RetryFailedKeeps, ResetRetriesKeeps
     DEF QueueNext, ConsumerStep

\* The document of a new event; its id is pushed next, or never.
LEMMA CreateKeeps ==
    ASSUME QueueIInv, NEW a \in Events, Create(a), UNCHANGED <<queue, consumers, manual, retried, done, attempts, crossed>>,
           faults' \in 0 .. MaxFaults, lost' = lost \/ lost' = lost \cup {a}
    PROVE  QueueIInv' /\ a \notin publishing
<1> DEFINE doc == [status |-> "published", retries |-> 0]
<1>0. events[a].status = "absent" /\ publishing' = publishing \cup {a} /\ events' = [events EXCEPT ![a] = doc]
  BY DEF Create
<1>1. /\ QueueTypeOK /\ retried \in 0 .. MaxManual /\ lost \subseteq Events /\ crossed \subseteq Events
      /\ ~InWork(a) /\ attempts[a] = 0
  BY <1>0 DEF QueueIInv, Unseen
<1>2. doc \in Document /\ doc.status = "published" /\ doc.retries = 0
  BY DEF Document, Status
<1> HIDE DEF doc
<1>3. /\ events' \in [Events -> Document] /\ events'[a] = doc /\ \A e \in Events \ {a} : events'[e] = events[e]
  <2>1. events \in [Events -> Document]
    BY <1>1 DEF QueueTypeOK, Document
  <2> QED
    BY <1>0, <1>2, <2>1
<1>4. QueueTypeOK'
  BY <1>0, <1>1, <1>3 DEF QueueTypeOK, Document
<1>5. /\ \A v \in Consumers : ConsumerOK(v)'
      /\ \A v \in Consumers : /\ Held(v)' = Held(v) /\ (Reading(v)' <=> Reading(v)) /\ (Working(v)' <=> Working(v))
                              /\ (Doing(v, "note")' <=> Doing(v, "note")) /\ consumers'[v].retries = consumers[v].retries
      /\ \A e \in Events : done[e] \subseteq done'[e]
  BY ConsumersStill
<1>6. \A e : (Queued(e)' <=> Queued(e)) /\ (Once(e) => Once(e)')
  BY DEF Queued, Once
<1>7. \A e \in Events \ {a} : Same(e) /\ done[e] \subseteq done'[e]
  BY <1>0, <1>3, <1>5, <1>6, Bystanders
<1>8. ~Queued(a) /\ a \notin publishing /\ a \notin manual /\ \A v \in Consumers : Held(v) # a
  BY <1>1, InWorkMeans
<1>9. Single(a)'
  <2>1. Once(a)
    BY <1>8 DEF Once, Queued, Range
  <2> QED
    BY <1>5, <1>6, <1>8, <2>1 DEF Single
<1>10. Counted(a)'
  BY <1>1, <1>2, <1>3, <1>5, <1>8 DEF Counted
<1>11. Kept(a)'
  <2>1. InWork(a)'
    BY <1>0 DEF InWork
  <2>2. ~Unwritten(a)'
    BY <1>5, <1>8 DEF Unwritten
  <2> QED
    BY <2>1, <2>2 DEF Kept
<1>12. Unseen(a)' /\ (events'[a].status = "processed" => done'[a] = 1 .. Handlers)
  BY <1>2, <1>3 DEF Unseen
<1>13. retried' \in 0 .. MaxManual /\ lost' \subseteq Events /\ crossed \subseteq crossed' /\ crossed' \subseteq Events
  BY <1>1
<1>14. QueueIInv'
  BY <1>4, <1>5, <1>7, <1>9, <1>10, <1>11, <1>12, <1>13, EventKeeps
<1> QED
  BY <1>8, <1>14

LEMMA PushKeeps ==
    ASSUME QueueIInv, NEW a \in publishing, Push(a), publishing' = publishing \ {a},
           UNCHANGED <<events, consumers, manual, retried, done, attempts, lost, crossed>>, faults' \in 0 .. MaxFaults
    PROVE  QueueIInv'
<1>1. /\ QueueTypeOK /\ retried \in 0 .. MaxManual /\ lost \subseteq Events /\ crossed \subseteq Events
      /\ a \in Events /\ InWork(a)
  BY InWorkMeans DEF QueueIInv, QueueTypeOK
<1>2. /\ queue' \in Seq(Events)
      /\ \A e : Queued(e)' <=> Queued(e) \/ e = a
      /\ \A e : e # a /\ Once(e) => Once(e)'
      /\ ~Queued(a) => Once(a)'
  BY <1>1, PushFacts DEF QueueTypeOK
<1>3. QueueTypeOK'
  BY <1>1, <1>2 DEF QueueTypeOK
<1>4. /\ \A v \in Consumers : ConsumerOK(v)'
      /\ \A v \in Consumers : /\ Held(v)' = Held(v) /\ (Reading(v)' <=> Reading(v)) /\ (Working(v)' <=> Working(v))
                              /\ (Doing(v, "note")' <=> Doing(v, "note")) /\ consumers'[v].retries = consumers[v].retries
      /\ \A e \in Events : done[e] \subseteq done'[e]
  BY ConsumersStill
<1>5. \A e \in Events \ {a} : Same(e) /\ done[e] \subseteq done'[e]
  BY <1>2, <1>4, Bystanders
<1>6. a \notin crossed => ~Queued(a) /\ a \notin manual /\ (\A v \in Consumers : Held(v) # a) /\ Single(a) /\ Counted(a)
  BY <1>1 DEF QueueIInv, Single
<1>7. a \notin crossed' => Single(a)'
  BY <1>2, <1>4, <1>6 DEF Single
<1>8. a \notin crossed' => Counted(a)'
  BY <1>1, <1>4, <1>6 DEF Counted
<1>9. Kept(a)'
  <2>1. Queued(a)' /\ InWork(a)'
    BY <1>2 DEF InWork, Queued
  <2> QED
    BY <2>1 DEF Kept
<1>10. Unseen(a)' /\ (events'[a].status = "processed" => done'[a] = 1 .. Handlers)
  BY <1>1 DEF Unseen, QueueIInv
<1>11. retried' \in 0 .. MaxManual /\ lost' \subseteq Events /\ crossed \subseteq crossed' /\ crossed' \subseteq Events
  BY <1>1
<1> QED
  BY <1>3, <1>4, <1>5, <1>7, <1>8, <1>9, <1>10, <1>11, EventKeeps

\* The id of an event is not pushed after all.
LEMMA GiveUpKeeps ==
    ASSUME QueueIInv, NEW f, flows[f].event \in publishing \cup {NoEvent}, GiveUp(f),
           UNCHANGED <<events, queue, consumers, manual, retried, done, attempts, crossed>>, faults' \in 0 .. MaxFaults
    PROVE  QueueIInv'
<1> PICK a : a = flows[f].event
  OBVIOUS
<1>0. publishing' = publishing \ {a} /\ lost' = lost \cup ({a} \ {NoEvent})
  BY DEF GiveUp
<1>1. /\ QueueTypeOK /\ retried \in 0 .. MaxManual /\ lost \subseteq Events /\ crossed \subseteq Events
  BY DEF QueueIInv
<1>2. QueueTypeOK' /\ lost' \subseteq Events
  BY <1>0, <1>1 DEF QueueTypeOK
<1>3. /\ \A v \in Consumers : ConsumerOK(v)'
      /\ \A v \in Consumers : /\ Held(v)' = Held(v) /\ (Reading(v)' <=> Reading(v)) /\ (Working(v)' <=> Working(v))
                              /\ (Doing(v, "note")' <=> Doing(v, "note")) /\ consumers'[v].retries = consumers[v].retries
      /\ \A e \in Events : done[e] \subseteq done'[e]
  BY ConsumersStill
<1>4. \A e : (Queued(e)' <=> Queued(e)) /\ (Once(e) => Once(e)')
  BY DEF Queued, Once
<1>5. \A e \in Events \ {a} : Same(e) /\ done[e] \subseteq done'[e]
  BY <1>0, <1>3, <1>4, Bystanders
<1>6. a \in Events => a \in publishing /\ a \in lost' /\ a \notin publishing'
  BY <1>0
<1>7. a \in Events => InWork(a)
  BY <1>6, InWorkMeans
<1>8. a \in Events /\ a \notin crossed => Single(a) /\ Counted(a)
  BY DEF QueueIInv
<1>9. a \in Events /\ a \notin crossed' => Single(a)'
  BY <1>3, <1>4, <1>6, <1>8 DEF Single
<1>10. a \in Events /\ a \notin crossed' => Counted(a)'
  BY <1>3, <1>6, <1>8 DEF Counted
<1>11. a \in Events => Unseen(a)' /\ (events'[a].status = "processed" => done'[a] = 1 .. Handlers)
  BY <1>7 DEF Unseen, QueueIInv
<1>12. retried' \in 0 .. MaxManual /\ crossed \subseteq crossed' /\ crossed' \subseteq Events
  BY <1>1
<1> QED
  BY <1>2, <1>3, <1>5, <1>6, <1>9, <1>10, <1>11, <1>12, EventKeeps

\* A step of a flow that pushes nothing leaves its event alone.
Calm(f) ==
    /\ \E v : flows' = [flows EXCEPT ![f] = v] /\ v.event = flows[f].event /\ v.pc # "push"
    /\ ~At(f, "push") /\ publishing' = publishing

LEMMA CalmKeeps ==
    ASSUME PushesOK, FlowIInv, NEW f \in Flows, Calm(f)
    PROVE  PushesOK'
<1> PICK v : flows' = [flows EXCEPT ![f] = v] /\ v.event = flows[f].event /\ v.pc # "push"
  BY DEF Calm
<1>1. flows'[f] = v /\ \A g \in Flows \ {f} : flows'[g] = flows[g]
  BY DEF FlowIInv
<1>2. ~At(f, "push") /\ publishing' = publishing /\ \A g \in Flows : PushOK(g)
  BY DEF Calm, PushesOK
<1> QED
  BY <1>1, <1>2 DEF PushesOK, PushOK, At

\* Only the step that publishes has an event, and only between its two writes.
LEMMA Eventless ==
    ASSUME PushesOK, FlowIInv, NEW f \in Flows, NEW u \in FlowRecord, u.frames = flows[f].frames, u.ended = flows[f].ended,
           u.pc = flows[f].pc, u.event = flows[f].event, flows[f].frames # <<>>, ~At(f, "push"), publishing' = publishing,
           flows' = [flows EXCEPT ![f] = Stepped(u)] \/ flows' = [flows EXCEPT ![f] = Raised(u)]
    PROVE  Calm(f)
<1>1. flows[f] \in FlowRecord /\ Placed(flows[f])
  BY DEF FlowIInv
<1>2. Placed(u)
  BY <1>1, SamePlace
<1>3. Moved(u, Stepped(u)) /\ Moved(u, Raised(u))
  BY <1>1, <1>2, SteppedMoves, RaisedMoves
<1>4. /\ Stepped(u).event = u.event /\ Stepped(u).pc # "push"
      /\ Raised(u).event = u.event /\ Raised(u).pc # "push"
  BY <1>3 DEF Moved, SameData, Awaited
<1> QED
  BY <1>4 DEF Calm

\* One that goes on within its step, with nothing pushed.
LEMMA StaysCalm ==
    ASSUME NEW f \in Flows, NEW u, u.event = flows[f].event, u.pc # "push", ~At(f, "push"), publishing' = publishing,
           flows' = [flows EXCEPT ![f] = u]
    PROVE  Calm(f)
  BY DEF Calm

\* A flow leaves its event, and nobody publishes another.
LEMMA LeaveKeeps ==
    ASSUME PushesOK, FlowIInv, QueueTypeOK, NEW f \in Flows, NEW v, v.event = NoEvent, v.pc # "push",
           flows' = [flows EXCEPT ![f] = v], publishing' = publishing \ {flows[f].event}
    PROVE  PushesOK'
<1>1. flows'[f] = v /\ \A g \in Flows \ {f} : flows'[g] = flows[g]
  BY DEF FlowIInv
<1>2. \A g \in Flows : PushOK(g)
  BY DEF PushesOK
<1>3. ASSUME NEW g \in Flows, g # f
      PROVE  PushOK(g)'
  <2>1. At(g, "push") => flows[g].event # flows[f].event
    <3>1. CASE At(f, "push")
      BY <1>2, <1>3, <3>1 DEF PushOK
    <3>2. CASE ~At(f, "push")
      BY <1>2, <3>2 DEF PushOK
    <3> QED
      BY <3>1, <3>2
  <2> QED
    BY <1>1, <1>2, <1>3, <2>1 DEF PushOK, At
<1>4. PushOK(f)'
  BY <1>1 DEF PushOK, At
<1> QED
  BY <1>3, <1>4 DEF PushesOK

LEMMA PublishKeeps ==
    ASSUME QueueIInv, PushesOK, FlowIInv, NEW f \in Flows, PublishEvent(f)
    PROVE  QueueIInv' /\ PushesOK'
<1> PICK e : e = CHOOSE x \in Unused : TRUE
  OBVIOUS
<1>0. /\ e \in Events /\ Create(e) /\ At(f, "publish_event")
      /\ UNCHANGED <<queue, consumers, manual, retried, done, attempts, crossed>>
      /\ \/ Become(f, [flows[f] EXCEPT !.pc = "push", !.event = e]) /\ UNCHANGED <<faults, lost>>
         \/ Become(f, Raised(flows[f])) /\ Fault /\ Lose(e)
  BY DEF PublishEvent, Unused
<1>1. /\ faults' \in 0 .. MaxFaults /\ (lost' = lost \/ lost' = lost \cup {e})
      /\ faults \in 0 .. MaxFaults /\ QueueTypeOK
  BY <1>0 DEF QueueIInv, Fault, Lose
<1>2. QueueIInv' /\ e \notin publishing
  BY <1>0, <1>1, CreateKeeps
<1>3. publishing' = publishing \cup {e} /\ (\A g \in Flows : PushOK(g)) /\ ~At(f, "push")
  BY <1>0 DEF Create, PushesOK, At
<1>4. flows[f] \in FlowRecord /\ Placed(flows[f]) /\ flows[f].frames # <<>>
  BY <1>0, Whereabouts DEF FlowIInv, At
<1>5. CASE flows' = [flows EXCEPT ![f] = [flows[f] EXCEPT !.pc = "push", !.event = e]]
  <2>1. /\ flows'[f].pc = "push" /\ flows'[f].event = e /\ \A g \in Flows \ {f} : flows'[g] = flows[g]
    BY <1>4, <1>5 DEF FlowIInv, FlowRecord
  <2>2. \A g \in Flows : At(g, "push") => flows[g].event # e /\ flows[g].event \in publishing
    BY <1>2, <1>3 DEF PushOK
  <2>3. e # NoEvent
    BY <1>0
  <2> QED
    BY <1>2, <1>3, <2>1, <2>2, <2>3 DEF PushesOK, PushOK, At
<1>6. CASE flows' = [flows EXCEPT ![f] = Raised(flows[f])]
  <2>1. Raised(flows[f]).event = flows[f].event /\ Raised(flows[f]).pc # "push"
    BY <1>4, RaisedMoves DEF Moved, SameData, Awaited
  <2>2. /\ flows'[f].pc # "push" /\ flows'[f].event = flows[f].event /\ \A g \in Flows \ {f} : flows'[g] = flows[g]
    BY <1>4, <1>6, <2>1 DEF FlowIInv
  <2> QED
    BY <1>2, <1>3, <2>2 DEF PushesOK, PushOK, At
<1> QED
  BY <1>0, <1>5, <1>6 DEF Become

\* The flow has pushed the id of its event, and knows, or does not learn of it.
LEMMA PushedKeeps ==
    ASSUME QueueIInv, PushesOK, FlowIInv, NEW f \in Flows, PushEvent(f)
    PROVE  QueueIInv' /\ PushesOK'
<1> PICK a : a = flows[f].event
  OBVIOUS
<1> PICK u : u = [flows[f] EXCEPT !.event = NoEvent]
  OBVIOUS
<1>0. /\ At(f, "push") /\ Push(a) /\ publishing' = publishing \ {a}
      /\ \/ flows' = [flows EXCEPT ![f] = Stepped(u)] /\ UNCHANGED faults
         \/ flows' = [flows EXCEPT ![f] = Raised(u)] /\ Fault
      /\ UNCHANGED <<events, consumers, manual, retried, done, attempts, lost, crossed>>
  BY DEF PushEvent, Become
<1>1. a \in publishing /\ faults' \in 0 .. MaxFaults /\ QueueTypeOK
  BY <1>0 DEF QueueIInv, Fault, PushesOK, PushOK
<1>2. QueueIInv'
  BY <1>0, <1>1, PushKeeps
<1>3. flows[f] \in FlowRecord /\ Placed(flows[f]) /\ flows[f].frames # <<>>
  BY <1>0, Whereabouts DEF FlowIInv, At
<1>4. u \in FlowRecord /\ u.frames = flows[f].frames /\ u.ended = flows[f].ended /\ u.pc = flows[f].pc /\ u.event = NoEvent
  BY <1>3 DEF FlowRecord
<1>5. Placed(u)
  BY <1>3, <1>4, SamePlace
<1>6. /\ Stepped(u).event = NoEvent /\ Stepped(u).pc # "push"
      /\ Raised(u).event = NoEvent /\ Raised(u).pc # "push"
  BY <1>3, <1>4, <1>5, SteppedMoves, RaisedMoves DEF Moved, SameData, Awaited
<1>7. PushesOK'
  BY <1>0, <1>1, <1>6, LeaveKeeps
<1> QED
  BY <1>2, <1>7

\* The driver refuses, or the process dies.
LEMMA AbandonKeeps ==
    ASSUME QueueIInv, PushesOK, FlowIInv, NEW f \in Flows, Unavailable(f) \/ Die(f)
    PROVE  QueueIInv' /\ PushesOK'
<1>0. /\ GiveUp(f) /\ Fault /\ UNCHANGED <<events, queue, consumers, manual, retried, done, attempts, crossed>>
  BY DEF Unavailable, Die
<1>1. /\ flows[f] \in FlowRecord /\ Placed(flows[f]) /\ PushOK(f)
      /\ faults' \in 0 .. MaxFaults /\ QueueTypeOK /\ publishing' = publishing \ {flows[f].event}
  BY <1>0 DEF FlowIInv, PushesOK, QueueIInv, Fault, GiveUp
<1>2. QueueIInv'
  <2>1. flows[f].event \in publishing \cup {NoEvent}
    BY <1>1 DEF PushOK
  <2> QED
    BY <1>0, <1>1, <2>1, GiveUpKeeps
<1>3. CASE Unavailable(f)
  <2>1. PICK u : u = [flows[f] EXCEPT !.event = NoEvent]
    OBVIOUS
  <2>2. flows' = [flows EXCEPT ![f] = Raised(u)] /\ flows[f].pc \notin {"ready", "ended"}
    BY <1>3, <2>1 DEF Unavailable, Become, Awaiting
  <2>3. u \in FlowRecord /\ u.frames = flows[f].frames /\ u.ended = flows[f].ended /\ u.pc = flows[f].pc /\ u.event = NoEvent
    BY <1>1, <2>1 DEF FlowRecord
  <2>4. Placed(u) /\ flows[f].frames # <<>>
    BY <1>1, <2>2, <2>3, SamePlace, Whereabouts
  <2>5. Raised(u).event = NoEvent /\ Raised(u).pc # "push"
    BY <2>3, <2>4, RaisedMoves DEF Moved, SameData, Awaited
  <2> QED
    BY <1>1, <1>2, <2>2, <2>5, LeaveKeeps
<1>4. CASE Die(f)
  <2>1. PICK v : v = [flows[f] EXCEPT !.frames = <<>>, !.pc = "ended", !.event = NoEvent]
    OBVIOUS
  <2>2. flows' = [flows EXCEPT ![f] = v] /\ v.event = NoEvent /\ v.pc # "push"
    BY <1>1, <1>4, <2>1 DEF Die, Become, FlowRecord
  <2> QED
    BY <1>1, <1>2, <2>2, LeaveKeeps
<1> QED
  BY <1>3, <1>4

\* The other steps write nothing of the queue.
QueueStill ==
    /\ UNCHANGED <<events, queue, consumers, publishing, manual, retried, done, attempts, lost, crossed>>
    /\ UNCHANGED faults \/ Fault

LEMMA QueueStillKeeps == ASSUME QueueIInv, QueueStill PROVE QueueIInv'
<1>1. /\ QueueTypeOK /\ retried \in 0 .. MaxManual /\ faults \in 0 .. MaxFaults /\ lost \subseteq Events /\ crossed \subseteq Events
  BY DEF QueueIInv
<1>2. UNCHANGED <<events, queue, consumers, publishing, manual, retried, done, attempts, lost, crossed>> /\ faults' \in 0 .. MaxFaults
  BY <1>1 DEF QueueStill, Fault
<1>3. QueueTypeOK'
  BY <1>1, <1>2 DEF QueueTypeOK
<1>4. (\A v \in Consumers : ConsumerOK(v)') /\ \A e \in Events : done[e] \subseteq done'[e]
  BY <1>2, ConsumersStill
<1>5. \A e : (Queued(e)' <=> Queued(e)) /\ (Once(e) => Once(e)')
  BY <1>2 DEF Queued, Once
<1>6. \A e \in Events \ {NoEvent} : Same(e) /\ done[e] \subseteq done'[e]
  BY <1>2, <1>4, <1>5, Bystanders
<1> QED
  BY <1>1, <1>2, <1>3, <1>4, <1>6, EventKeeps

\* The flow goes on from where it stands, or raises.
LEMMA GoesOn ==
    ASSUME PushesOK, FlowIInv, NEW f \in Flows, flows[f].pc \notin {"ready", "ended", "push"}, QueueStill,
           flows' = [flows EXCEPT ![f] = Stepped(flows[f])] \/ flows' = [flows EXCEPT ![f] = Raised(flows[f])]
    PROVE  Calm(f)
<1>1. flows[f] \in FlowRecord /\ flows[f].frames # <<>>
  BY Whereabouts DEF FlowIInv
<1>2. ~At(f, "push") /\ publishing' = publishing
  BY DEF At, QueueStill
<1> QED
  BY <1>1, <1>2, Eventless

LEMMA StillMeans ==
    ASSUME NEW f
    PROVE  /\ UNCHANGED queueVars => QueueStill
           /\ RaiseFault(f) => QueueStill /\ flows' = [flows EXCEPT ![f] = Raised(flows[f])]
           /\ Step(f) => QueueStill /\ flows' = [flows EXCEPT ![f] = Stepped(flows[f])]
           /\ Raise(f) => QueueStill /\ flows' = [flows EXCEPT ![f] = Raised(flows[f])]
  BY DEF queueVars, QueueStill, RaiseFault, Become, Step, Raise

LEMMA OthersCalm ==
    ASSUME QueueIInv, PushesOK, FlowIInv, NEW f \in Flows, FlowStep(f) \/ UpdateIgnored(f),
           ~PublishEvent(f), ~PushEvent(f)
    PROVE  QueueStill /\ Calm(f)
<1> DEFINE w == flows[f]
<1>1. w \in FlowRecord /\ Placed(w) /\ StoreTypes /\ (w.pc \notin {"ready", "ended"} => w.frames # <<>>)
  BY Whereabouts DEF FlowIInv
<1>2. CASE Start(f)
  <2>1. PICK k \in {"assign", "webhook"} : flows' = [flows EXCEPT ![f] = InPlace([w EXCEPT !.frames = <<None>>], First(k))]
    BY <1>2 DEF Start, Become
  <2>2. UNCHANGED queueVars /\ w.pc = "ready"
    BY <1>2 DEF Start, At
  <2>3. First(k) \in Frames
    <3>1. 1 \in 1 .. Len(Steps[k]) /\ 0 \in 0 .. 1
      BY StepTable
    <3> QED
      BY <3>1 DEF First, Frame, Frames
  <2>4. StepOf(First(k)) # "push"
    BY <2>3, StepPlaces DEF Awaited
  <2>5. PICK u : u = InPlace([w EXCEPT !.frames = <<None>>], First(k))
    OBVIOUS
  <2>6. u.event = w.event /\ u.pc = StepOf(First(k))
    BY <1>1, <2>5 DEF InPlace, FlowRecord
  <2> QED
    BY <2>1, <2>2, <2>4, <2>5, <2>6, StillMeans, StaysCalm DEF At, queueVars
<1>3. CASE ValidateWebhook(f) \/ Compute(f) \/ ValidateAssignment(f) \/ CheckPermissions(f) \/ UpdateConversation(f) \/ UpdateMetadata(f)
  <2>1. (Step(f) \/ Raise(f)) /\ w.pc \notin {"ready", "ended", "push"}
    BY <1>3 DEF ValidateWebhook, Compute, ValidateAssignment, CheckPermissions, UpdateConversation, UpdateMetadata, At
  <2> QED
    BY <2>1, StillMeans, GoesOn
<1>4. CASE ExecuteHandler(f)
  <2>1. CASE Step(f) \/ Raise(f)
    BY <1>4, <2>1, StillMeans, GoesOn DEF ExecuteHandler, At
  <2>2. CASE Become(f, [w EXCEPT !.frames = Append(@, First("incoming")), !.pc = "validate"]) /\ UNCHANGED queueVars
    <3>1. PICK u : u = [w EXCEPT !.frames = Append(@, First("incoming")), !.pc = "validate"]
      OBVIOUS
    <3>2. u.event = w.event /\ u.pc = "validate" /\ flows' = [flows EXCEPT ![f] = u]
      BY <1>1, <2>2, <3>1 DEF FlowRecord, Become
    <3>3. ~At(f, "push") /\ QueueStill /\ publishing' = publishing
      BY <1>4, <2>2, StillMeans DEF ExecuteHandler, At, queueVars
    <3> QED
      BY <3>2, <3>3, StaysCalm
  <2> QED
    BY <1>4, <2>1, <2>2 DEF ExecuteHandler
<1>5. CASE FindCustomer(f)
  <2>1. w.pc = "get_or_create_customer" /\ UNCHANGED queueVars
    BY <1>5 DEF FindCustomer, At, On
  <2>2. ~At(f, "push") /\ QueueStill /\ publishing' = publishing
    BY <2>1, StillMeans DEF At, queueVars
  <2>3. CASE On(f, "insert_customer")
    <3>1. PICK u : u = [w EXCEPT !.pc = "insert_customer"]
      OBVIOUS
    <3>2. u.event = w.event /\ u.pc = "insert_customer" /\ flows' = [flows EXCEPT ![f] = u]
      BY <1>1, <2>3, <3>1 DEF FlowRecord, On, Become
    <3> QED
      BY <2>2, <3>2, StaysCalm
  <2>4. ASSUME NEW k \in identified, Become(f, Stepped([w EXCEPT !.customer = k]))
        PROVE  Calm(f)
    <3>1. PICK u : u = [w EXCEPT !.customer = k]
      OBVIOUS
    <3>2. k \in Nat
      BY <1>1 DEF StoreTypes
    <3>3. /\ u \in FlowRecord /\ u.frames = w.frames /\ u.ended = w.ended /\ u.pc = w.pc /\ u.event = w.event
          /\ flows' = [flows EXCEPT ![f] = Stepped(u)]
      BY <1>1, <2>4, <3>1, <3>2 DEF FlowRecord, Become
    <3> QED
      BY <1>1, <2>1, <2>2, <3>3, Eventless
  <2> QED
    BY <1>5, <2>2, <2>3, <2>4 DEF FindCustomer
<1>6. CASE InsertCustomer(f)
  <2>1. CASE RaiseFault(f)
    BY <1>6, <2>1, StillMeans, GoesOn DEF InsertCustomer, At
  <2>2. CASE Become(f, [w EXCEPT !.customer = customers + 1, !.pc = "insert_identity"]) /\ UNCHANGED queueVars
    <3>1. PICK u : u = [w EXCEPT !.customer = customers + 1, !.pc = "insert_identity"]
      OBVIOUS
    <3>2. u.event = w.event /\ u.pc = "insert_identity" /\ flows' = [flows EXCEPT ![f] = u]
      BY <1>1, <2>2, <3>1 DEF FlowRecord, Become
    <3>3. ~At(f, "push") /\ QueueStill /\ publishing' = publishing
      BY <1>6, <2>2, StillMeans DEF InsertCustomer, At, queueVars
    <3> QED
      BY <3>2, <3>3, StaysCalm
  <2> QED
    BY <1>6, <2>1, <2>2 DEF InsertCustomer, Wrote
<1>7. CASE InsertIdentity(f) \/ AssignParticipant(f)
  <2>1. w.pc \notin {"ready", "ended", "push"} /\ Wrote(f, Stepped(w))
    BY <1>7 DEF InsertIdentity, AssignParticipant, At
  <2>2. QueueStill /\ (flows' = [flows EXCEPT ![f] = Stepped(w)] \/ flows' = [flows EXCEPT ![f] = Raised(w)])
    BY <2>1, StillMeans DEF Wrote, Become
  <2> QED
    BY <2>1, <2>2, GoesOn
<1>8. CASE FindConversation(f)
  <2>1. w.pc = "get_or_create_conversation" /\ UNCHANGED queueVars
    BY <1>8 DEF FindConversation, At, On
  <2>2. ~At(f, "push") /\ QueueStill /\ publishing' = publishing
    BY <2>1, StillMeans DEF At, queueVars
  <2>3. CASE On(f, "insert_conversation")
    <3>1. PICK u : u = [w EXCEPT !.pc = "insert_conversation"]
      OBVIOUS
    <3>2. u.event = w.event /\ u.pc = "insert_conversation" /\ flows' = [flows EXCEPT ![f] = u]
      BY <1>1, <2>3, <3>1 DEF FlowRecord, On, Become
    <3> QED
      BY <2>2, <3>2, StaysCalm
  <2>4. ASSUME NEW i \in OpenFor(w.customer), Become(f, Stepped([w EXCEPT !.conv = i]))
        PROVE  Calm(f)
    <3>1. PICK u : u = [w EXCEPT !.conv = i]
      OBVIOUS
    <3>2. i \in Nat
      BY <1>1, SequenceFacts DEF StoreTypes, OpenFor
    <3>3. /\ u \in FlowRecord /\ u.frames = w.frames /\ u.ended = w.ended /\ u.pc = w.pc /\ u.event = w.event
          /\ flows' = [flows EXCEPT ![f] = Stepped(u)]
      BY <1>1, <2>4, <3>1, <3>2 DEF FlowRecord, Become
    <3> QED
      BY <1>1, <2>1, <2>2, <3>3, Eventless
  <2> QED
    BY <1>8, <2>2, <2>3, <2>4 DEF FindConversation
<1>9. CASE InsertConversation(f)
  <2>1. CASE RaiseFault(f)
    BY <1>9, <2>1, StillMeans, GoesOn DEF InsertConversation, At
  <2>2. CASE Become(f, Stepped([w EXCEPT !.conv = Len(convs) + 1])) /\ UNCHANGED queueVars
    <3>1. PICK u : u = [w EXCEPT !.conv = Len(convs) + 1]
      OBVIOUS
    <3>2. Len(convs) + 1 \in Nat
      BY <1>1, SequenceFacts DEF StoreTypes
    <3>3. /\ u \in FlowRecord /\ u.frames = w.frames /\ u.ended = w.ended /\ u.pc = w.pc /\ u.event = w.event
          /\ flows' = [flows EXCEPT ![f] = Stepped(u)]
      BY <1>1, <2>2, <3>1, <3>2 DEF FlowRecord, Become
    <3>4. w.pc = "insert_conversation" /\ ~At(f, "push") /\ QueueStill /\ publishing' = publishing
      BY <1>9, <2>2, StillMeans DEF InsertConversation, At, queueVars
    <3> QED
      BY <1>1, <3>3, <3>4, Eventless
  <2> QED
    BY <1>9, <2>1, <2>2 DEF InsertConversation, Wrote
<1>10. CASE CreateMessage(f)
  <2>1. CASE RaiseFault(f)
    BY <1>10, <2>1, StillMeans, GoesOn DEF CreateMessage, At
  <2>2. CASE Become(f, Stepped([w EXCEPT !.message = Len(messages) + 1])) /\ UNCHANGED queueVars
    <3>1. PICK u : u = [w EXCEPT !.message = Len(messages) + 1]
      OBVIOUS
    <3>2. Len(messages) + 1 \in Nat
      BY <1>1, SequenceFacts DEF StoreTypes
    <3>3. /\ u \in FlowRecord /\ u.frames = w.frames /\ u.ended = w.ended /\ u.pc = w.pc /\ u.event = w.event
          /\ flows' = [flows EXCEPT ![f] = Stepped(u)]
      BY <1>1, <2>2, <3>1, <3>2 DEF FlowRecord, Become
    <3>4. w.pc = "create_message" /\ ~At(f, "push") /\ QueueStill /\ publishing' = publishing
      BY <1>10, <2>2, StillMeans DEF CreateMessage, At, queueVars
    <3> QED
      BY <1>1, <3>3, <3>4, Eventless
  <2> QED
    BY <1>10, <2>1, <2>2 DEF CreateMessage, Wrote
<1>11. CASE UpdateIgnored(f)
  <2>1. /\ w.pc \notin {"ready", "ended", "push"} /\ flows' = [flows EXCEPT ![f] = Stepped(w)]
        /\ QueueStill
    BY <1>11 DEF UpdateIgnored, Become, QueueStill
  <2> QED
    BY <2>1, GoesOn
<1> QED
  BY <1>2, <1>3, <1>4, <1>5, <1>6, <1>7, <1>8, <1>9, <1>10, <1>11 DEF FlowStep

------------------------------------------------------------------------------
(* The invariant *)

EventsIInv == QueueIInv /\ PushesOK /\ FlowIInv

LEMMA QueueInitial == Init => QueueIInv /\ PushesOK
<1> SUFFICES ASSUME Init PROVE QueueIInv /\ PushesOK
  OBVIOUS
<1>1. /\ events = [e \in Events |-> [status |-> "absent", retries |-> 0]]
      /\ queue = <<>> /\ publishing = {} /\ manual = {}
      /\ retried \in 0 .. MaxManual /\ faults \in 0 .. MaxFaults
      /\ consumers \in [Consumers -> {Free, [Free EXCEPT !.pc = "stopped"]}]
      /\ done = [e \in Events |-> {}] /\ attempts = [e \in Events |-> 0]
      /\ lost = {} /\ crossed = {}
  BY DEF Init, QueueInit
<1> DEFINE c == [Free EXCEPT !.pc = "stopped"]
<1>2. c \in ConsumerRecord /\ c.pc = "stopped" /\ c.event = NoEvent
  <2>1. 0 \in 0 .. MaxRetries /\ 1 \in 1 .. (Handlers + 1)
    OBVIOUS
  <2> QED
    BY <2>1 DEF ConsumerRecord, Free
<1> HIDE DEF c
<1>3. consumers \in [Consumers -> ConsumerRecord]
  BY <1>1, <1>2, FreeRecord DEF c
<1>4. \A w \in Consumers : Held(w) = NoEvent /\ ~Reading(w) /\ ~Working(w)
  BY <1>1, <1>2, FreeRecord DEF c, Held, Reading, Working, Doing
<1>5. QueueTypeOK
  <2>1. [status |-> "absent", retries |-> 0] \in Document
    BY DEF Document, Status
  <2>2. events \in [Events -> Document] /\ queue \in Seq(Events)
    BY <1>1, <2>1
  <2>3. done \in [Events -> SUBSET (1 .. Handlers)] /\ attempts \in [Events -> 0 .. Cap]
    BY <1>1 DEF Cap
  <2> QED
    BY <1>1, <1>3, <2>2, <2>3 DEF QueueTypeOK, Document, ConsumerRecord
<1>6. \A w \in Consumers : ConsumerOK(w)
  BY <1>4 DEF ConsumerOK, Working, Doing
<1>7. ASSUME NEW e \in Events
      PROVE  /\ events[e].status = "absent" /\ events[e].retries = 0 /\ attempts[e] = 0
             /\ ~InWork(e) /\ ~Queued(e) /\ Once(e) /\ ~Unwritten(e)
  <2>1. DOMAIN queue = {} /\ ~Queued(e)
    BY <1>1 DEF Queued, Range
  <2>2. ~InWork(e) /\ ~Unwritten(e)
    BY <1>1, <1>4, <2>1, InWorkMeans DEF Unwritten
  <2> QED
    BY <1>1, <2>1, <2>2 DEF Once
<1>8. \A e \in Events : Unseen(e) /\ Single(e) /\ Counted(e) /\ Kept(e)
  BY <1>1, <1>4, <1>7 DEF Unseen, Single, Counted, Kept
<1>9. PushesOK
  BY DEF Init, PushesOK, PushOK, At
<1> QED
  BY <1>1, <1>5, <1>6, <1>7, <1>8, <1>9 DEF QueueIInv

LEMMA FaultsAreNat == QueueIInv => faults \in Nat
  BY DEF QueueIInv

LEMMA EventsStep == EventsIInv /\ [Next]_vars => EventsIInv'
<1> SUFFICES ASSUME EventsIInv, [Next]_vars PROVE EventsIInv'
  OBVIOUS
<1>1. QueueIInv /\ PushesOK /\ FlowIInv /\ faults \in Nat
  BY FaultsAreNat DEF EventsIInv
<1>2. CASE QueueNext /\ UNCHANGED flowVars
  <2>1. QueueIInv'
    BY <1>1, <1>2, QueueNextKeeps
  <2>2. FlowIInv'
    BY <1>1, <1>2, FlowNext DEF Next
  <2>3. publishing' = publishing
    BY <1>2 DEF QueueNext, ConsumerStep, Pop, Read, HandlerReturns, HandlerRaises, MarkProcessed, Requeue, NoteRetry,
                MarkFailed, Breaks, StopConsumer, RetryFailed, ResetRetries
  <2>4. PushesOK'
    BY <1>1, <1>2, <2>3 DEF PushesOK, PushOK, At, flowVars
  <2> QED
    BY <2>1, <2>2, <2>4 DEF EventsIInv
<1>3. ASSUME NEW f \in Flows, FlowStep(f) \/ Unavailable(f) \/ UpdateIgnored(f) \/ Die(f)
      PROVE  EventsIInv'
  <2>1. FlowIInv'
    BY <1>1, <1>3, FlowNext DEF Next
  <2>2. CASE PublishEvent(f)
    BY <1>1, <2>1, <2>2, PublishKeeps DEF EventsIInv
  <2>3. CASE PushEvent(f)
    BY <1>1, <2>1, <2>3, PushedKeeps DEF EventsIInv
  <2>4. CASE Unavailable(f) \/ Die(f)
    BY <1>1, <2>1, <2>4, AbandonKeeps DEF EventsIInv
  <2>5. CASE (FlowStep(f) \/ UpdateIgnored(f)) /\ ~PublishEvent(f) /\ ~PushEvent(f)
    BY <1>1, <2>1, <2>5, OthersCalm, QueueStillKeeps, CalmKeeps DEF EventsIInv
  <2> QED
    BY <1>3, <2>2, <2>3, <2>4, <2>5
<1>4. CASE UNCHANGED vars
  <2>1. UNCHANGED queueVars /\ UNCHANGED flowVars
    BY <1>4 DEF vars
  <2>2. QueueStill /\ FaultsGrow /\ publishing' = publishing /\ flows' = flows
    BY <1>1, <2>1, QueueSame DEF queueVars, QueueStill, flowVars
  <2>3. PushesOK'
    BY <1>1, <2>2 DEF PushesOK, PushOK, At
  <2> QED
    BY <1>1, <2>1, <2>2, <2>3, QueueStillKeeps, FlowsUntouched DEF EventsIInv
<1> QED
  BY <1>2, <1>3, <1>4 DEF Next

LEMMA EventsInvariant == Spec => []EventsIInv
<1>1. Init => EventsIInv
  BY QueueInitial, FlowInitial DEF EventsIInv
<1> QED
  BY <1>1, EventsStep, PTL DEF Spec

LEMMA EventsHold == QueueIInv => EventInv /\ NothingForgotten
<1> SUFFICES ASSUME QueueIInv PROVE EventInv /\ NothingForgotten
  OBVIOUS
<1>1. StatusTrue
  <2> SUFFICES ASSUME NEW e \in Events
               PROVE  /\ events[e].status = "processed" => done[e] = 1 .. Handlers
                      /\ e \notin crossed => attempts[e] <= MaxRetries + 1 \/ e \in lost
                      /\ (events[e].status = "failed" /\ e \notin crossed /\ ~InWork(e)) => attempts[e] >= MaxRetries + 1
    BY DEF StatusTrue
  <2>1. e \notin crossed => Counted(e)
    BY DEF QueueIInv
  <2>2. ~InWork(e) => e \notin manual
    BY InWorkMeans
  <2>3. events[e].status = "processed" => done[e] = 1 .. Handlers
    BY DEF QueueIInv
  <2> QED
    BY <2>1, <2>2, <2>3 DEF Counted
<1>2. NothingForgotten
  BY DEF NothingForgotten, QueueIInv, Kept
<1> QED
  BY <1>1, <1>2 DEF EventInv, QueueIInv

------------------------------------------------------------------------------
(* The theorems *)

\* The status of an event is the truth: processed after every handler finished,
\* failed after MaxRetries + 1 calls and not one more, unless a fault struck the
\* event or a retry by hand met a consumer at work on it (services/events/
\* event_consumer.py and event_bus.py).
THEOREM StatusIsTrue == Spec => []EventInv
<1>1. EventsIInv => EventInv
  BY EventsHold DEF EventsIInv
<1> QED
  BY <1>1, EventsInvariant, PTL

\* An event that is published, or waits for its next try, is in the queue or in
\* somebody's hands, whatever the handlers, the publishers and those who retry by
\* hand do, unless a fault took its id or two hands were on it.
THEOREM NoEventIsForgotten == Spec => []NothingForgotten
<1>1. EventsIInv => NothingForgotten
  BY EventsHold DEF EventsIInv
<1> QED
  BY <1>1, EventsInvariant, PTL

\* What the workflows leave: a message whose workflow completed is stored in a
\* conversation of a customer who is found again, at most once more than faults
\* struck; the identity has one customer unless two flows added it at once; an
\* assignee takes part in his conversation (services/workflows).
THEOREM WorkflowsLeaveTruth == Spec => []FlowInv
<1>1. EventsIInv => FlowInv
  BY FlowHolds, FaultsAreNat DEF EventsIInv
<1> QED
  BY <1>1, EventsInvariant, PTL

==============================================================================
