----------------------------- MODULE Workflows -----------------------------
(* The workflows of boltchats-api and the engine that runs them, composed   *)
(* with the event queue they publish to.  Workflow.execute calls the steps  *)
(* in order; a step that raises is called again, MaxTries times in all, and *)
(* then stops the workflow or is skipped.  The webhook workflow of a        *)
(* provider runs the one of an incoming message inside its fourth step, and *)
(* takes whatever that comes to for a success.                              *)
(*                                                                          *)
(* Some methods the steps call on the services are in no service            *)
(* (get_customer_by_provider_id, find_conversation_by_customer,             *)
(* update_conversation, ...): they are taken to do what the step asks of    *)
(* them, with the awaits it takes.  One customer writes on one channel.     *)
EXTENDS EventQueue, FiniteSets

CONSTANTS Flows, Members, None

MaxTries == 2           \* max_retries = 1

VARIABLES
    flows,              \* the execution of a workflow for a request
    customers,          \* how many customer documents there are
    identified,         \* those with the identity the messages come from
    convs, messages,
    overlapped          \* history: two flows were adding the customer at once

storeVars == <<customers, identified, convs, messages, overlapped>>
flowVars == <<flows, storeVars>>
vars == <<queueVars, flowVars>>

------------------------------------------------------------------------------
(* The engine *)

\* build(): the steps of a workflow, in order, and those an error only skips.
Steps ==
    [webhook  |-> <<"validate_webhook", "parse_payload", "determine_event_type", "execute_handler", "publish_event">>,
     incoming |-> <<"validate", "get_or_create_customer", "get_or_create_conversation", "add_participant",
                    "create_message", "update_conversation_metadata", "publish_event">>,
     assign   |-> <<"validate_assignment", "check_permissions", "assign_participant", "update_conversation",
                    "publish_event">>]

\* Mutant: a message that cannot be stored is skipped like a notification.
Skippable_Message ==
    [webhook  |-> {"execute_handler", "publish_event"},
     incoming |-> {"add_participant", "create_message", "update_conversation_metadata", "publish_event"},
     assign   |-> {"publish_event"}]

Skippable ==
    [webhook  |-> {"execute_handler", "publish_event"},
     incoming |-> {"add_participant", "update_conversation_metadata", "publish_event"},
     assign   |-> {"publish_event"}]

\* What a request may be: a message, a status report or an event nobody handles,
\* a message whose structure is wrong, a webhook that is refused (signature,
\* JSON), the assignment of a conversation to a member.
Requests == {"message", "report", "malformed", "refused"} \cup Members

Top(w) == Last(w.frames)
StepOf(fr) == Steps[fr.workflow][fr.step]
First(workflow) == [workflow |-> workflow, step |-> 1, tries |-> 0]
Outcome == {"none", "completed", "failed"}

\* The next step of the innermost workflow, or the end of it.
Following(fr) == [fr EXCEPT !.step = @ + 1, !.tries = 0]
InPlace(w, fr) == [w EXCEPT !.frames = Append(Front(w.frames), fr), !.pc = StepOf(fr)]
Ended(w, outcome) ==
    LET v == [w EXCEPT !.frames = Front(@), !.ended[Top(w).workflow] = outcome, !.pc = "ended"]
    IN IF v.frames = <<>> THEN v ELSE InPlace(v, Following(Top(v)))
Stepped(w) ==
    IF Top(w).step < Len(Steps[Top(w).workflow]) THEN InPlace(w, Following(Top(w))) ELSE Ended(w, "completed")

\* Mutant: the tries start from nothing with every call of the step.
Raised_Forever(w) == InPlace(w, Top(w))

\* The step raised.
Raised(w) ==
    IF Top(w).tries + 1 < MaxTries THEN InPlace(w, [Top(w) EXCEPT !.tries = @ + 1])
    ELSE IF StepOf(Top(w)) \in Skippable[Top(w).workflow] THEN Stepped(w)
    ELSE Ended(w, "failed")

At(f, pc) == flows[f].pc = pc
Become(f, w) == flows' = [flows EXCEPT ![f] = w]
Step(f) == Become(f, Stepped(flows[f])) /\ UNCHANGED queueVars
Raise(f) == Become(f, Raised(flows[f])) /\ UNCHANGED queueVars
On(f, pc) == Become(f, [flows[f] EXCEPT !.pc = pc]) /\ UNCHANGED queueVars

\* A fault of the step's driver, reported to the step.
RaiseFault(f) ==
    /\ Fault /\ Become(f, Raised(flows[f]))
    /\ UNCHANGED <<events, queue, consumers, publishing, manual, retried, done, attempts, lost, crossed>>

\* After a write: the step goes on with w, or the answer was lost and it raises.
Wrote(f, w) == (Become(f, w) /\ UNCHANGED queueVars) \/ RaiseFault(f)

\* execute_workflow, of POST /integrations/webhooks or of an assignment.
Start(f) ==
    /\ At(f, "ready")
    /\ Become(f, InPlace([flows[f] EXCEPT !.frames = <<None>>],
                         First(IF flows[f].request \in Members THEN "assign" ELSE "webhook")))
    /\ UNCHANGED <<queueVars, storeVars>>

------------------------------------------------------------------------------
(* IntegrationWorkflow *)

ValidateWebhook(f) ==
    /\ At(f, "validate_webhook")
    /\ (IF flows[f].request = "refused" THEN Raise(f) ELSE Step(f)) /\ UNCHANGED storeVars

\* Steps that only compute: the parsing, the type of the event, the required
\* fields, which _extract_message_data always sets, and an empty step.
Compute(f) ==
    /\ flows[f].pc \in {"parse_payload", "determine_event_type", "validate", "add_participant"}
    /\ Step(f) /\ UNCHANGED storeVars

ExecuteHandler(f) ==
    /\ At(f, "execute_handler")
    /\ CASE flows[f].request = "message" ->
               /\ Become(f, [flows[f] EXCEPT !.frames = Append(@, First("incoming")), !.pc = "validate"])
               /\ UNCHANGED queueVars
         [] flows[f].request = "malformed" -> Raise(f)
         [] OTHER -> Step(f)
    /\ UNCHANGED storeVars

------------------------------------------------------------------------------
(* IncomingMessageWorkflow *)

Adding(f) == flows[f].pc \in {"insert_customer", "insert_identity"}

FindCustomer(f) ==
    /\ At(f, "get_or_create_customer")
    /\ IF identified = {}
       THEN /\ On(f, "insert_customer")
            /\ overlapped' = (overlapped \/ \E g \in Flows \ {f} : Adding(g))
       ELSE /\ \E k \in identified : Become(f, Stepped([flows[f] EXCEPT !.customer = k]))
            /\ UNCHANGED <<queueVars, overlapped>>
    /\ UNCHANGED <<customers, identified, convs, messages>>
InsertCustomer(f) ==
    /\ At(f, "insert_customer")
    /\ customers' = customers + 1
    /\ Wrote(f, [flows[f] EXCEPT !.customer = customers + 1, !.pc = "insert_identity"])
    /\ UNCHANGED <<identified, convs, messages, overlapped>>
InsertIdentity(f) ==
    /\ At(f, "insert_identity")
    /\ identified' = identified \cup {flows[f].customer}
    /\ Wrote(f, Stepped(flows[f]))
    /\ UNCHANGED <<customers, convs, messages, overlapped>>

OpenFor(k) == {i \in DOMAIN convs : convs[i].customer = k /\ convs[i].status = "open"}
NewConversation(k) ==
    [customer |-> k, status |-> "open", assigned |-> None, participants |-> {}, last |-> 0]

FindConversation(f) ==
    /\ At(f, "get_or_create_conversation")
    /\ IF OpenFor(flows[f].customer) = {} THEN On(f, "insert_conversation")
       ELSE /\ \E i \in OpenFor(flows[f].customer) : Become(f, Stepped([flows[f] EXCEPT !.conv = i]))
            /\ UNCHANGED queueVars
    /\ UNCHANGED storeVars
InsertConversation(f) ==
    /\ At(f, "insert_conversation")
    /\ convs' = Append(convs, NewConversation(flows[f].customer))
    /\ Wrote(f, Stepped([flows[f] EXCEPT !.conv = Len(convs) + 1]))
    /\ UNCHANGED <<customers, identified, messages, overlapped>>

\* send_message; its counter is the subject of Conversations.
CreateMessage(f) ==
    /\ At(f, "create_message")
    /\ messages' = Append(messages, [by |-> f, conv |-> flows[f].conv])
    /\ Wrote(f, Stepped([flows[f] EXCEPT !.message = Len(messages) + 1]))
    /\ UNCHANGED <<customers, identified, convs, overlapped>>
UpdateMetadata(f) ==
    /\ At(f, "update_conversation_metadata")
    /\ convs' = [convs EXCEPT ![flows[f].conv].last = flows[f].message]
    /\ Step(f) /\ UNCHANGED <<customers, identified, messages, overlapped>>

------------------------------------------------------------------------------
(* AssignmentWorkflow: of the first conversation *)

ValidateAssignment(f) ==
    /\ At(f, "validate_assignment")
    /\ IF convs # <<>> /\ ~(convs[1].status = "assigned" /\ convs[1].assigned = flows[f].request)
       THEN Step(f) ELSE Raise(f)
    /\ UNCHANGED storeVars
CheckPermissions(f) == At(f, "check_permissions") /\ (Step(f) \/ Raise(f)) /\ UNCHANGED storeVars
AssignParticipant(f) ==
    /\ At(f, "assign_participant")
    /\ convs' = [convs EXCEPT ![1].participants = @ \cup {flows[f].request}]
    /\ Wrote(f, Stepped(flows[f]))
    /\ UNCHANGED <<customers, identified, messages, overlapped>>
UpdateConversation(f) ==
    /\ At(f, "update_conversation")
    /\ convs' = [convs EXCEPT ![1].status = "assigned", ![1].assigned = flows[f].request]
    /\ Step(f) /\ UNCHANGED <<customers, identified, messages, overlapped>>

------------------------------------------------------------------------------
(* The last step of each: EventBus.publish, and so an event of its own for  *)
(* every try.                                                               *)

Unused == {e \in Events : events[e].status = "absent"}

PublishEvent(f) ==
    /\ At(f, "publish_event")
    /\ Unused # {}
    /\ LET e == CHOOSE x \in Unused : TRUE IN
        /\ Create(e)
        /\ \/ Become(f, [flows[f] EXCEPT !.pc = "push", !.event = e]) /\ UNCHANGED <<faults, lost>>
           \/ Become(f, Raised(flows[f])) /\ Fault /\ Lose(e)
    /\ UNCHANGED <<queue, consumers, manual, retried, done, attempts, crossed, storeVars>>
PushEvent(f) ==
    /\ At(f, "push") /\ Push(flows[f].event) /\ publishing' = publishing \ {flows[f].event}
    /\ \/ Become(f, Stepped([flows[f] EXCEPT !.event = NoEvent])) /\ UNCHANGED faults
       \/ Become(f, Raised([flows[f] EXCEPT !.event = NoEvent])) /\ Fault
    /\ UNCHANGED <<events, consumers, manual, retried, done, attempts, lost, crossed, storeVars>>

------------------------------------------------------------------------------

\* Awaits at which the driver may refuse before anything happened.
Awaiting == {"get_or_create_customer", "insert_customer", "insert_identity", "get_or_create_conversation",
             "insert_conversation", "create_message", "check_permissions", "assign_participant",
             "publish_event", "push"}
GiveUp(f) ==
    /\ publishing' = publishing \ {flows[f].event}
    /\ lost' = lost \cup ({flows[f].event} \ {NoEvent})
Unavailable(f) ==
    /\ flows[f].pc \in Awaiting /\ Fault
    /\ Become(f, Raised([flows[f] EXCEPT !.event = NoEvent]))
    /\ GiveUp(f)
    /\ UNCHANGED <<events, queue, consumers, manual, retried, done, attempts, crossed, storeVars>>

\* update answers False, which no step looks at.
UpdateIgnored(f) ==
    /\ flows[f].pc \in {"update_conversation_metadata", "update_conversation"} /\ Fault
    /\ Become(f, Stepped(flows[f]))
    /\ UNCHANGED <<events, queue, consumers, publishing, manual, retried, done, attempts, lost, crossed, storeVars>>

Die(f) ==
    /\ flows[f].frames # <<>> /\ Fault
    /\ Become(f, [flows[f] EXCEPT !.frames = <<>>, !.pc = "ended", !.event = NoEvent])
    /\ GiveUp(f)
    /\ UNCHANGED <<events, queue, consumers, manual, retried, done, attempts, crossed, storeVars>>

FlowStep(f) ==
    \/ Start(f) \/ ValidateWebhook(f) \/ Compute(f) \/ ExecuteHandler(f)
    \/ FindCustomer(f) \/ InsertCustomer(f) \/ InsertIdentity(f)
    \/ FindConversation(f) \/ InsertConversation(f) \/ CreateMessage(f) \/ UpdateMetadata(f)
    \/ ValidateAssignment(f) \/ CheckPermissions(f) \/ AssignParticipant(f) \/ UpdateConversation(f)
    \/ PublishEvent(f) \/ PushEvent(f)
Next ==
    \/ QueueNext /\ UNCHANGED flowVars
    \/ \E f \in Flows : FlowStep(f) \/ Unavailable(f) \/ UpdateIgnored(f) \/ Die(f)

\* A customer who is not known yet, or one with an open conversation; a flow that
\* has ended at the beginning is a request nobody makes.
Init ==
    /\ QueueInit
    /\ \E known \in BOOLEAN :
        /\ customers = IF known THEN 1 ELSE 0
        /\ identified = 1 .. customers
        /\ convs = IF known THEN <<NewConversation(1)>> ELSE <<>>
    /\ messages = <<>> /\ overlapped = FALSE
    /\ \E request \in [Flows -> Requests], pc \in [Flows -> {"ready", "ended"}] :
        flows = [f \in Flows |->
            [request |-> request[f], frames |-> <<>>, pc |-> pc[f], event |-> NoEvent,
             customer |-> 0, conv |-> 0, message |-> 0, ended |-> [k \in DOMAIN Steps |-> "none"]]]

Spec == Init /\ [][Next]_vars /\ QueueFairness /\ \A f \in Flows : WF_vars(FlowStep(f))

------------------------------------------------------------------------------
(* Properties *)

FlowsOK ==
    /\ \A f \in Flows :
        /\ flows[f].request \in Requests /\ Len(flows[f].frames) <= 2
        /\ flows[f].event \in Events \cup {NoEvent}
        /\ flows[f].ended \in [DOMAIN Steps -> Outcome]
        /\ flows[f].customer \in 0 .. customers /\ flows[f].conv \in 0 .. Len(convs)
        /\ flows[f].message \in 0 .. Len(messages)
    /\ identified \subseteq 1 .. customers

\* An incoming message whose workflow completed is stored, in a conversation of a
\* customer who is found again by the identity the message came from; no flow
\* stores it twice unless an answer was lost.
CompletedIsStored ==
    \A f \in Flows :
        LET mine == {i \in DOMAIN messages : messages[i].by = f}
        IN /\ Cardinality(mine) <= 1 + faults
           /\ flows[f].ended["incoming"] = "completed" =>
                  \E i \in mine : convs[messages[i].conv].customer \in identified

\* The identity belongs to one customer, also when the step that adds her was
\* tried again, unless two requests were adding her at once: no index forbids it.
OneCustomer == Cardinality(identified) > 1 => overlapped

\* Whichever step of an assignment failed, the assignee takes part; and the last
\* message of a conversation is one of its own.
ConversationsOK ==
    \A i \in DOMAIN convs :
        /\ convs[i].assigned # None => convs[i].assigned \in convs[i].participants
        /\ convs[i].last # 0 => messages[convs[i].last].conv = i

\* The invariant of what the workflows write.
FlowInv == FlowsOK /\ CompletedIsStored /\ OneCustomer /\ ConversationsOK

\* Every workflow ends, and an event that always fails does not go round for
\* ever: the queue is empty in the end, as long as a consumer is left.
Drains ==
    <>[](/\ \A f \in Flows : flows[f].pc = "ended"
         /\ \/ queue = <<>> /\ \A w \in Consumers : Held(w) = NoEvent
            \/ \A w \in Consumers : Doing(w, "stopped"))
=============================================================================
