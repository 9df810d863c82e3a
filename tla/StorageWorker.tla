---------------------------- MODULE StorageWorker ----------------------------
(***************************************************************************)
(* The consumer of boltchats-storage: it pops up to BatchSize messages,    *)
(* stores them one by one (message, counter of the conversation, event)    *)
(* and keeps what failed in a dead-letter list.  The batch exists only in  *)
(* its memory.  Redis and MongoDB may stop answering, the worker may die;  *)
(* a write whose answer is lost may still have happened.                   *)
(*                                                                         *)
(* A message without an id or a conversation is refused.  boltchats-ws     *)
(* pushes {id, room_id, ...} (QueueMessage), which is refused for want of  *)
(* conversation_id; the tests push messages of both kinds.                 *)
(***************************************************************************)
EXTENDS Naturals, Sequences, SequencesExt, FiniteSets

CONSTANTS
    Msgs,       \* the messages, one conversation
    Complete,   \* those with an id and a conversation_id
    Unreadable, \* those that are not a JSON object
    BatchSize,  \* batch_size
    MaxPush,    \* bound on how often a message is pushed
    MaxFaults   \* bound on outages and deaths of the worker

ASSUME MsgsAssumption == IsFiniteSet(Msgs) /\ Complete \subseteq Msgs /\ Unreadable \subseteq Msgs \ Complete
ASSUME BoundAssumption == BatchSize \in Nat \ {0} /\ MaxPush \in [Msgs -> Nat] /\ MaxFaults \in Nat

VARIABLES
    queue,   \* Redis list messages:queue, its tail first
    dlq,     \* the messages in messages:queue:dlq
    pushed,  \* how often a message was pushed
    wpc,     \* where the worker is
    batch,   \* messages popped and not yet dealt with
    fresh,   \* the upsert of the message in work inserted it
    failed,  \* failed_messages
    db,      \* the messages collection
    count,   \* message_count of the conversation
    redis, mongo,  \* they answer
    lost,    \* history: messages the worker dropped
    faults

worker == <<wpc, batch, fresh, failed>>
vars == <<queue, dlq, pushed, worker, db, count, redis, mongo, lost, faults>>

Working == {"upsert", "count", "event"}

Init ==
    /\ queue = <<>> /\ dlq = {} /\ pushed = [m \in Msgs |-> 0]
    /\ wpc = "pop" /\ batch = <<>> /\ fresh = FALSE /\ failed = <<>>
    /\ db = {} /\ count = 0 /\ redis = TRUE /\ mongo = TRUE /\ lost = {} /\ faults = 0

\* MessageQueue.enqueue.
Push(m) ==
    /\ redis /\ pushed[m] < MaxPush[m]
    /\ queue' = Append(queue, m) /\ pushed' = [pushed EXCEPT ![m] = @ + 1]
    /\ lost' = lost \ {m}
    /\ UNCHANGED <<dlq, worker, db, count, redis, mongo, faults>>

\* BRPOP has an answer; what is not JSON is skipped, JSON of any kind is taken.
Pop ==
    /\ wpc = "pop" /\ redis /\ queue # <<>> /\ Len(batch) < BatchSize
    /\ queue' = Tail(queue)
    /\ \/ Head(queue) \in Unreadable /\ lost' = lost \cup {Head(queue)} /\ UNCHANGED batch
       \/ batch' = Append(batch, Head(queue)) /\ UNCHANGED lost
    /\ UNCHANGED <<dlq, pushed, wpc, fresh, failed, db, count, redis, mongo, faults>>

\* Mutant: a batch starts when it is full.
StartBatch_Full ==
    /\ wpc = "pop" /\ Len(batch) = BatchSize
    /\ wpc' = "upsert" /\ fresh' = FALSE
    /\ UNCHANGED <<queue, dlq, pushed, batch, failed, db, count, redis, mongo, lost, faults>>

\* The batch is full, or no message came in time.
StartBatch ==
    /\ wpc = "pop" /\ batch # <<>>
    /\ Len(batch) = BatchSize \/ queue = <<>> \/ ~redis
    /\ wpc' = "upsert" /\ fresh' = FALSE
    /\ UNCHANGED <<queue, dlq, pushed, batch, failed, db, count, redis, mongo, lost, faults>>

\* What the worker held and nobody else has.
Dropped(ms) == lost' = lost \cup (ms \ (db \cup dlq \cup ToSet(queue')))

\* BRPOP raises, having popped a message or not, or what it popped is not UTF-8:
\* the messages of the local list go with it.
PopFails ==
    /\ wpc = "pop" /\ Len(batch) < BatchSize
    /\ \/ ~redis /\ queue' = queue
       \/ queue # <<>> /\ (redis => Head(queue) \in Unreadable) /\ queue' = Tail(queue)
    /\ batch' = <<>> /\ Dropped(ToSet(batch) \cup ToSet(queue))
    /\ UNCHANGED <<dlq, pushed, wpc, fresh, failed, db, count, redis, mongo, faults>>

\* After the last message come the dead letters, or the next batch.
Following == IF Len(batch) > 1 THEN "upsert" ELSE "bury"

\* Mutant: a message that failed is not remembered.
Fail_Forgets ==
    /\ failed' = failed
    /\ batch' = Tail(batch) /\ wpc' = Following /\ fresh' = FALSE

\* What _persist_message raises puts the message among the failed.
Fail ==
    /\ failed' = Append(failed, Head(batch))
    /\ batch' = Tail(batch) /\ wpc' = Following /\ fresh' = FALSE

\* The upsert by _id.  It raises when MongoDB does not answer, having written or not.
Upsert ==
    /\ wpc = "upsert" /\ Head(batch) \in Complete
    /\ \/ /\ mongo /\ db' = db \cup {Head(batch)}
          /\ fresh' = (Head(batch) \notin db) /\ wpc' = "count" /\ UNCHANGED <<batch, failed>>
       \/ ~mongo /\ Fail /\ db' \in {db, db \cup {Head(batch)}}
    /\ UNCHANGED <<queue, dlq, pushed, count, redis, mongo, lost, faults>>

\* ValueError.
Reject ==
    /\ wpc = "upsert" /\ Head(batch) \notin Complete \cup Unreadable
    /\ Fail
    /\ UNCHANGED <<queue, dlq, pushed, db, count, redis, mongo, lost, faults>>

\* What is no object has no get(): the except clause raises as well, and the rest
\* of the batch goes with the local lists.
RejectRaises ==
    /\ wpc = "upsert" /\ Head(batch) \in Unreadable
    /\ UNCHANGED <<queue, dlq, pushed, fresh, db, count, redis, mongo, faults>>
    /\ wpc' = "pop" /\ batch' = <<>> /\ failed' = <<>>
    /\ Dropped(ToSet(batch) \cup ToSet(failed))

\* Mutant: what cannot be counted is deleted again.
CountMessage_RollsBack ==
    /\ wpc = "count"
    /\ \/ /\ mongo /\ count' = (IF fresh THEN count + 1 ELSE count)
          /\ wpc' = "event" /\ fresh' = FALSE /\ UNCHANGED <<batch, failed, db>>
       \/ ~mongo /\ Fail /\ db' = db \ {Head(batch)} /\ UNCHANGED count
    /\ UNCHANGED <<queue, dlq, pushed, redis, mongo, lost, faults>>

\* $inc by one for a message the upsert inserted.
CountMessage ==
    /\ wpc = "count"
    /\ LET more == IF fresh THEN count + 1 ELSE count IN
       \/ mongo /\ count' = more /\ wpc' = "event" /\ fresh' = FALSE /\ UNCHANGED <<batch, failed>>
       \/ ~mongo /\ Fail /\ count' \in {count, more}
    /\ UNCHANGED <<queue, dlq, pushed, db, redis, mongo, lost, faults>>

\* message.created is published.
PublishEvent ==
    /\ wpc = "event"
    /\ \/ redis /\ batch' = Tail(batch) /\ wpc' = Following /\ UNCHANGED <<fresh, failed>>
       \/ ~redis /\ Fail
    /\ UNCHANGED <<queue, dlq, pushed, db, count, redis, mongo, lost, faults>>

\* _send_to_dlq: one LPUSH after the other.
Bury ==
    /\ wpc = "bury" /\ redis /\ failed # <<>>
    /\ dlq' = dlq \cup {Head(failed)} /\ failed' = Tail(failed)
    /\ UNCHANGED <<queue, pushed, wpc, batch, fresh, db, count, redis, mongo, lost, faults>>

\* LPUSH raises: the rest of the failed messages goes with the local list.
BuryFails ==
    /\ wpc = "bury" /\ ~redis /\ failed # <<>>
    /\ UNCHANGED <<queue, dlq, pushed, wpc, batch, fresh, db, count, redis, mongo, faults>>
    /\ failed' = <<>> /\ Dropped(ToSet(failed))

NextBatch ==
    /\ wpc = "bury" /\ failed = <<>>
    /\ wpc' = "pop"
    /\ UNCHANGED <<queue, dlq, pushed, batch, fresh, failed, db, count, redis, mongo, lost, faults>>

\* The worker is killed or cancelled, and started again.
Die ==
    /\ faults < MaxFaults /\ faults' = faults + 1
    /\ wpc' = "pop" /\ batch' = <<>> /\ fresh' = FALSE /\ failed' = <<>>
    /\ UNCHANGED <<queue, dlq, pushed, db, count, redis, mongo>>
    /\ Dropped(ToSet(batch) \cup ToSet(failed))

Outage ==
    /\ faults < MaxFaults /\ faults' = faults + 1
    /\ \/ redis /\ redis' = FALSE /\ UNCHANGED mongo
       \/ mongo /\ mongo' = FALSE /\ UNCHANGED redis
    /\ UNCHANGED <<queue, dlq, pushed, worker, db, count, lost>>

Repair ==
    /\ ~redis \/ ~mongo
    /\ redis' = TRUE /\ mongo' = TRUE
    /\ UNCHANGED <<queue, dlq, pushed, worker, db, count, lost, faults>>

\* The dead letters expire seven days after the last one.
ExpireLetters ==
    /\ dlq # {} /\ dlq' = {}
    /\ lost' = lost \cup (dlq \ (db \cup ToSet(queue) \cup ToSet(batch) \cup ToSet(failed)))
    /\ UNCHANGED <<queue, pushed, worker, db, count, redis, mongo, faults>>

Work ==
    \/ Pop \/ StartBatch \/ PopFails \/ Upsert \/ Reject \/ RejectRaises
    \/ CountMessage \/ PublishEvent \/ Bury \/ BuryFails \/ NextBatch

Environment == Die \/ Outage \/ Repair \/ ExpireLetters

Next == (\E m \in Msgs : Push(m)) \/ Work \/ Environment
Spec == Init /\ [][Next]_vars

\* The worker's loop runs; what is down comes back.
FairSpec == Spec /\ WF_vars(Work) /\ WF_vars(Repair)

-----------------------------------------------------------------------------
(* Properties *)

Held == ToSet(batch) \cup ToSet(failed)

TypeOK ==
    /\ queue \in Seq(Msgs) /\ batch \in Seq(Msgs) /\ failed \in Seq(Msgs)
    /\ dlq \subseteq Msgs /\ db \subseteq Msgs /\ lost \subseteq Msgs
    /\ pushed \in [Msgs -> Nat] /\ \A m \in Msgs : pushed[m] <= MaxPush[m]
    /\ wpc \in {"pop", "bury"} \cup Working /\ fresh \in BOOLEAN
    /\ count \in Nat /\ redis \in BOOLEAN /\ mongo \in BOOLEAN /\ faults \in 0..MaxFaults

\* Nothing failed, and nothing was pushed that is not a JSON object.
Peace == faults = 0 /\ \A m \in Unreadable : pushed[m] = 0

\* In peace every complete message that left the queue is stored or in work, none
\* is among the dead letters, and the counter of the conversation is exact but
\* for the insert in work.
ExactInPeace ==
    Peace =>
        /\ (lost \cup dlq) \cap Complete = {}
        /\ count + (IF fresh THEN 1 ELSE 0) = Cardinality(db)

\* The counter of the conversation never runs ahead of what is stored, also
\* when a message is delivered twice or the worker dies between the two writes;
\* the insert in work is stored and not yet counted.  Only complete messages
\* are stored, and no message that was pushed vanishes without a trace.
WorkerInv ==
    /\ TypeOK
    /\ db \subseteq Complete
    /\ count + (IF fresh THEN 1 ELSE 0) <= Cardinality(db)
    /\ wpc \in Working => batch # <<>>
    /\ wpc \in {"count", "event"} => Head(batch) \in db
    /\ fresh => wpc = "count"
    /\ \A m \in Msgs : pushed[m] > 0 =>
          m \in db \cup dlq \cup lost \cup Held \cup ToSet(queue)
    /\ ExactInPeace

Place(m) ==
    IF m \in db THEN "stored"
    ELSE IF m \in ToSet(queue) \cup Held THEN "waiting"
    ELSE IF m \in dlq THEN "aside"
    ELSE IF m \in lost THEN "lost" ELSE "unsent"

\* The worker keeps the promises of MessageLog.
Log == INSTANCE MessageLog WITH place <- [m \in Msgs |-> Place(m)], count <- count
KeepsLog == Log!Spec
=============================================================================
