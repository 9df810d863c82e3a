----------------------------- MODULE EventQueue -----------------------------
(* The event bus and its consumer (boltchats-api, services/events).  An     *)
(* event is a document and, in a Redis list, its id: publish inserts the    *)
(* one and pushes the other, a consumer pops an id, reads the document,     *)
(* calls the subscribed handlers and writes the status back.  A handler     *)
(* that raises puts the id back, MaxRetries times.  The two halves of every *)
(* pair of writes are separate awaits, BaseRepository.read answers None and *)
(* update False where the driver fails, and the id is in no other place     *)
(* while a consumer works on it.                                            *)
(*                                                                          *)
(* As written the package cannot be imported (app.models has no EventStatus *)
(* and app.repositories no EventRepository); this is what it does once they *)
(* are there.                                                               *)
EXTENDS Naturals, Sequences, SequencesExt

CONSTANTS
    Events, Consumers,
    NoEvent,
    Handlers,       \* how many handlers are subscribed
    MaxRetries,
    MaxManual,      \* retries by hand in a behaviour
    MaxFaults       \* failures of Redis or MongoDB, and deaths, in a behaviour

ASSUME QueueAssumption ==
    /\ NoEvent \notin Events
    /\ Handlers \in Nat /\ MaxRetries \in Nat /\ MaxManual \in Nat /\ MaxFaults \in Nat

VARIABLES
    events,         \* the documents
    queue,          \* the ids in Redis, the next one last
    consumers,      \* what each consumer does
    publishing,     \* events that are inserted and not yet pushed
    manual,         \* events between the two writes of a retry by hand
    retried,        \* retries by hand so far
    faults,
    done,           \* history: the handlers that finished for an event
    attempts,       \* history: times it was handed to them since it was (re)published
    lost,           \* history: events whose id, or last status, a fault took
    crossed         \* history: events two hands worked on at once

queueVars == <<events, queue, consumers, publishing, manual, retried, faults, done, attempts, lost, crossed>>

Status == {"absent", "published", "pending", "processed", "failed"}
Free == [pc |-> "idle", event |-> NoEvent, retries |-> 0, next |-> 1]
Cap == MaxRetries + 2

Fault == faults < MaxFaults /\ faults' = faults + 1
Lose(e) == lost' = lost \cup {e}

------------------------------------------------------------------------------
(* EventBus.publish: the document, then the id. *)

Create(e) ==
    /\ events[e].status = "absent"
    /\ events' = [events EXCEPT ![e] = [status |-> "published", retries |-> 0]]
    /\ publishing' = publishing \cup {e}
Push(e) == queue' = <<e>> \o queue

------------------------------------------------------------------------------
(* EventConsumer *)

Doing(w, pc) == consumers[w].pc = pc
Goto(w, pc) == consumers' = [consumers EXCEPT ![w].pc = pc]
Rest(w) == consumers' = [consumers EXCEPT ![w] = Free]
Held(w) == consumers[w].event
History == UNCHANGED <<done, attempts, lost, crossed>>

\* Somebody has pushed the id of e and not yet written its status.
Unwritten(e) == e \in manual \/ \E w \in Consumers : Doing(w, "note") /\ Held(w) = e
InWork(e) ==
    e \in Range(queue) \cup publishing \cup manual \/ \E w \in Consumers : Held(w) = e

Pop(w) ==
    /\ Doing(w, "idle") /\ queue # <<>>
    /\ consumers' = [consumers EXCEPT ![w] = [Free EXCEPT !.pc = "read", !.event = Last(queue)]]
    /\ queue' = Front(queue)
    /\ History /\ UNCHANGED <<events, publishing, manual, retried, faults>>

\* A processed event is passed over; of any other the retries are remembered.
Read(w) ==
    /\ Doing(w, "read")
    /\ LET e == Held(w) IN
        /\ IF events[e].status = "processed" THEN Rest(w) /\ UNCHANGED attempts
           ELSE /\ consumers' = [consumers EXCEPT ![w].pc = "handle", ![w].retries = events[e].retries]
                /\ attempts' = [attempts EXCEPT ![e] = IF @ < Cap THEN @ + 1 ELSE @]
        /\ crossed' = IF Unwritten(e) THEN crossed \cup {e} ELSE crossed
    /\ UNCHANGED <<events, queue, publishing, manual, retried, faults, done, lost>>

\* Mutant: as its comment says, the next handler is called after one that raised.
HandlerRaises_Continues(w) ==
    /\ Doing(w, "handle") /\ consumers[w].next <= Handlers
    /\ consumers' = [consumers EXCEPT ![w].next = @ + 1]
    /\ UNCHANGED <<events, queue, publishing, manual, retried, faults>> /\ History

\* handle_event: the handlers one after the other; the first that raises ends it.
HandlerReturns(w) ==
    /\ Doing(w, "handle") /\ consumers[w].next <= Handlers
    /\ consumers' = [consumers EXCEPT ![w].next = @ + 1]
    /\ done' = [done EXCEPT ![Held(w)] = @ \cup {consumers[w].next}]
    /\ UNCHANGED <<events, queue, publishing, manual, retried, faults, attempts, lost, crossed>>
HandlerRaises(w) ==
    /\ Doing(w, "handle") /\ consumers[w].next <= Handlers
    /\ Goto(w, IF consumers[w].retries < MaxRetries THEN "requeue" ELSE "fail")
    /\ UNCHANGED <<events, queue, publishing, manual, retried, faults>> /\ History

SetStatus(e, status, retries) == events' = [events EXCEPT ![e] = [status |-> status, retries |-> retries]]

MarkProcessed(w) ==
    /\ Doing(w, "handle") /\ consumers[w].next > Handlers
    /\ SetStatus(Held(w), "processed", events[Held(w)].retries)
    /\ Rest(w) /\ History /\ UNCHANGED <<queue, publishing, manual, retried, faults>>

\* Mutant: the id of an event to be retried is not put back.
Requeue_Forgets(w) ==
    /\ Doing(w, "requeue") /\ Goto(w, "note")
    /\ History /\ UNCHANGED <<events, queue, publishing, manual, retried, faults>>

Requeue(w) ==
    /\ Doing(w, "requeue") /\ Push(Held(w)) /\ Goto(w, "note")
    /\ History /\ UNCHANGED <<events, publishing, manual, retried, faults>>

NoteRetry(w) ==
    /\ Doing(w, "note") /\ SetStatus(Held(w), "pending", consumers[w].retries + 1)
    /\ Rest(w) /\ History /\ UNCHANGED <<queue, publishing, manual, retried, faults>>
MarkFailed(w) ==
    /\ Doing(w, "fail") /\ SetStatus(Held(w), "failed", events[Held(w)].retries)
    /\ Rest(w) /\ History /\ UNCHANGED <<queue, publishing, manual, retried, faults>>

\* The driver fails: nothing is read or written, and nobody learns of it; or the
\* process dies with the id it popped.
Breaks(w) ==
    /\ Held(w) # NoEvent /\ Fault
    /\ Rest(w) /\ Lose(Held(w))
    /\ UNCHANGED <<events, queue, publishing, manual, retried, done, attempts, crossed>>

\* The consumer is told to stop and has finished its batch.
StopConsumer(w) ==
    /\ Doing(w, "idle") /\ Goto(w, "stopped")
    /\ History /\ UNCHANGED <<events, queue, publishing, manual, retried, faults>>

\* retry_failed_event: any event, whatever its status.
RetryFailed(e) ==
    /\ events[e].status # "absent" /\ retried < MaxManual /\ e \notin manual
    /\ retried' = retried + 1 /\ manual' = manual \cup {e} /\ Push(e)
    /\ crossed' = IF InWork(e) THEN crossed \cup {e} ELSE crossed
    /\ attempts' = [attempts EXCEPT ![e] = 0]
    /\ UNCHANGED <<events, consumers, publishing, faults, done, lost>>
ResetRetries(e) ==
    /\ e \in manual /\ manual' = manual \ {e} /\ SetStatus(e, "pending", 0)
    /\ History /\ UNCHANGED <<queue, consumers, publishing, retried, faults>>

ConsumerStep(w) ==
    \/ Pop(w) \/ Read(w) \/ HandlerReturns(w) \/ HandlerRaises(w)
    \/ MarkProcessed(w) \/ Requeue(w) \/ NoteRetry(w) \/ MarkFailed(w)
QueueNext ==
    \/ \E w \in Consumers : ConsumerStep(w) \/ Breaks(w) \/ StopConsumer(w)
    \/ \E e \in Events : RetryFailed(e) \/ ResetRetries(e)
QueueFairness == \A w \in Consumers : WF_queueVars(ConsumerStep(w))

QueueInit ==
    /\ events = [e \in Events |-> [status |-> "absent", retries |-> 0]]
    /\ queue = <<>> /\ publishing = {} /\ manual = {}
    /\ retried \in 0 .. MaxManual /\ faults \in 0 .. MaxFaults     \* the bounds are what is left of them
    /\ consumers \in [Consumers -> {Free, [Free EXCEPT !.pc = "stopped"]}]
    /\ done = [e \in Events |-> {}] /\ attempts = [e \in Events |-> 0]
    /\ lost = {} /\ crossed = {}

------------------------------------------------------------------------------
(* Properties *)

QueueTypeOK ==
    /\ events \in [Events -> [status : Status, retries : 0 .. MaxRetries]]
    /\ queue \in Seq(Events) /\ publishing \subseteq Events /\ manual \subseteq Events
    /\ consumers \in [Consumers ->
            [pc : {"idle", "stopped", "read", "handle", "requeue", "note", "fail"},
             event : Events \cup {NoEvent}, retries : 0 .. MaxRetries, next : 1 .. (Handlers + 1)]]
    /\ done \in [Events -> SUBSET (1 .. Handlers)] /\ attempts \in [Events -> 0 .. Cap]

\* What the status says is true: a processed event went through every handler, and
\* one that failed was tried MaxRetries + 1 times, neither more nor less unless a
\* fault struck it or two hands were on it.
StatusTrue ==
    \A e \in Events :
        /\ events[e].status = "processed" => done[e] = 1 .. Handlers
        /\ e \notin crossed => attempts[e] <= MaxRetries + 1 \/ e \in lost
        /\ (events[e].status = "failed" /\ e \notin crossed /\ ~InWork(e)) => attempts[e] >= MaxRetries + 1

\* The invariant of the events.
EventInv == QueueTypeOK /\ StatusTrue
\* No event is forgotten: one that waits by its status is in the queue or in
\* somebody's hands, or every handler had it, unless a fault took its id or two
\* hands were on it at once.
NothingForgotten ==
    \A e \in Events \ (lost \cup crossed) :
        events[e].status \in {"published", "pending"} => InWork(e) \/ done[e] = 1 .. Handlers
=============================================================================
