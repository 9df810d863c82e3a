------------------------- MODULE ChatPipelineProofs -------------------------
(* Safety of StorageWorker for any messages, batch size and bounds, that it  *)
(* implements MessageLog, and that what the worker keeps by itself it keeps  *)
(* in the chat pipeline, restarts of boltchats-ws included: every step of    *)
(* the pipeline is a step of the worker or leaves its state alone.  The room *)
(* is told only of messages that are stored.                                 *)
(*                                                                           *)
(* WorkerInv is not inductive as it stands: that the counter is exact in     *)
(* peace follows from Redis and MongoDB answering until something fails,     *)
(* from only incomplete messages being among the failed, and from everything *)
(* in the queue and the worker's hands having been pushed.                   *)
EXTENDS ChatPipeline, FiniteSetTheorems, SequenceTheorems, TLAPS

------------------------------------------------------------------------------
(* The worker *)

USE MsgsAssumption, BoundAssumption

InPeace == redis /\ mongo /\ ToSet(failed) \cap Complete = {}
WorkerIInv ==
    /\ WorkerInv
    /\ \A m \in Held \cup ToSet(queue) : pushed[m] > 0
    /\ Peace => InPeace

------------------------------------------------------------------------------
(* Sequences and the messages in them *)

LEMMA NothingIn == ASSUME NEW s, s = <<>> PROVE ToSet(s) = {} /\ \A S : s \in Seq(S)
<1>1. DOMAIN s = 1 .. 0 /\ \A S : s \in Seq(S)
  OBVIOUS
<1> QED
  BY <1>1 DEF ToSet

LEMMA ToSetOf == ASSUME NEW S, NEW s \in Seq(S) PROVE ToSet(s) \subseteq S
  BY DEF ToSet

LEMMA Appended ==
    ASSUME NEW S, NEW s \in Seq(S), NEW e \in S
    PROVE  /\ Append(s, e) \in Seq(S) /\ Append(s, e) # <<>>
           /\ ToSet(Append(s, e)) = ToSet(s) \cup {e}
<1>1. /\ Append(s, e) \in Seq(S) /\ Len(Append(s, e)) = Len(s) + 1
      /\ \A i \in 1 .. Len(s) : Append(s, e)[i] = s[i]
      /\ Append(s, e)[Len(s) + 1] = e
  OBVIOUS
<1>2. DOMAIN Append(s, e) = DOMAIN s \cup {Len(s) + 1}
  BY <1>1
<1> QED
  BY <1>1, <1>2 DEF ToSet

LEMMA Beheaded ==
    ASSUME NEW S, NEW s \in Seq(S), s # <<>>
    PROVE  /\ Head(s) \in S /\ Head(s) \in ToSet(s) /\ Tail(s) \in Seq(S)
           /\ ToSet(s) = ToSet(Tail(s)) \cup {Head(s)}
           /\ Len(s) > 1 => Tail(s) # <<>> /\ Head(Tail(s)) \in ToSet(s)
           /\ ~(Len(s) > 1) => Tail(s) = <<>>
<1>1. /\ Len(s) \in Nat \ {0} /\ Tail(s) \in Seq(S) /\ Len(Tail(s)) = Len(s) - 1
      /\ \A i \in 1 .. (Len(s) - 1) : Tail(s)[i] = s[i + 1]
      /\ Head(s) = s[1]
  OBVIOUS
<1>2. /\ DOMAIN s = 1 .. Len(s) /\ DOMAIN Tail(s) = 1 .. (Len(s) - 1)
      /\ \A e : e \in ToSet(s) <=> \E i \in 1 .. Len(s) : s[i] = e
      /\ \A e : e \in ToSet(Tail(s)) <=> \E i \in 1 .. (Len(s) - 1) : s[i + 1] = e
  <2>1. DOMAIN s = 1 .. Len(s) /\ DOMAIN Tail(s) = 1 .. (Len(s) - 1)
    BY <1>1
  <2> QED
    BY <1>1, <2>1 DEF ToSet
<1>3. ToSet(s) = ToSet(Tail(s)) \cup {Head(s)}
  <2>1. \A i \in 1 .. Len(s) : i = 1 \/ \E j \in 1 .. (Len(s) - 1) : i = j + 1
    <3> SUFFICES ASSUME NEW i \in 1 .. Len(s), i # 1 PROVE \E j \in 1 .. (Len(s) - 1) : i = j + 1
      OBVIOUS
    <3> WITNESS i - 1 \in 1 .. (Len(s) - 1)
    <3> QED
      OBVIOUS
  <2>2. \A e : e \in ToSet(s) <=> e \in ToSet(Tail(s)) \cup {Head(s)}
    <3>1. ASSUME NEW e, e \in ToSet(s) PROVE e \in ToSet(Tail(s)) \cup {Head(s)}
      BY <1>1, <1>2, <2>1, <3>1
    <3>2. ASSUME NEW e, e \in ToSet(Tail(s)) PROVE e \in ToSet(s)
      <4> PICK i \in 1 .. (Len(s) - 1) : s[i + 1] = e
        BY <1>2, <3>2
      <4>1. i + 1 \in 1 .. Len(s)
        BY <1>1
      <4> QED
        BY <1>2, <4>1
    <3>3. Head(s) \in ToSet(s)
      BY <1>1, <1>2
    <3> QED
      BY <3>1, <3>2, <3>3
  <2> QED
    BY <2>2
<1>4. Len(s) > 1 => Tail(s) # <<>> /\ Head(Tail(s)) = s[2]
  BY <1>1
<1> QED
  BY <1>1, <1>2, <1>3, <1>4

------------------------------------------------------------------------------
(* The invariant *)

LEMMA Stored ==
    ASSUME db \subseteq Complete, NEW m \in Complete
    PROVE  /\ IsFiniteSet(db) /\ Cardinality(db) \in Nat
           /\ Cardinality(db \cup {m}) = IF m \in db THEN Cardinality(db) ELSE Cardinality(db) + 1
<1>1. IsFiniteSet(db) /\ Cardinality(db) \in Nat
  BY FS_Subset, FS_CardinalityType
<1>2. Cardinality(db \cup {m}) = IF m \in db THEN Cardinality(db) ELSE Cardinality(db) + 1
  BY <1>1, FS_AddElement
<1> QED
  BY <1>1, <1>2

LEMMA InitWorker == Init => WorkerIInv
<1> SUFFICES ASSUME Init PROVE WorkerIInv
  OBVIOUS
<1>1. /\ ToSet(queue) = {} /\ ToSet(batch) = {} /\ ToSet(failed) = {}
      /\ queue \in Seq(Msgs) /\ batch \in Seq(Msgs) /\ failed \in Seq(Msgs)
  BY NothingIn DEF Init
<1>2. Cardinality(db) = 0
  BY FS_EmptySet DEF Init
<1>3. TypeOK
  <2>1. fresh \in BOOLEAN /\ redis \in BOOLEAN /\ mongo \in BOOLEAN
    BY DEF Init
  <2>2. wpc \in {"pop", "bury"} \cup Working /\ count \in Nat /\ faults \in 0 .. MaxFaults
    BY DEF Init, Working
  <2>3. pushed \in [Msgs -> Nat] /\ \A m \in Msgs : pushed[m] <= MaxPush[m]
    BY DEF Init
  <2> QED
    BY <1>1, <2>1, <2>2, <2>3 DEF Init, TypeOK
<1>4. Held \cup ToSet(queue) = {} /\ \A m \in Msgs : ~(pushed[m] > 0)
  BY <1>1 DEF Init, Held
<1>5. /\ db \subseteq Complete /\ ~fresh /\ wpc = "pop" /\ lost \cup dlq = {} /\ count = 0
      /\ redis /\ mongo
  BY DEF Init
<1>6. WorkerInv
  BY <1>2, <1>3, <1>4, <1>5 DEF WorkerInv, ExactInPeace, Working
<1> QED
  BY <1>1, <1>4, <1>5, <1>6 DEF WorkerIInv, InPeace

Counted == count + (IF fresh THEN 1 ELSE 0) <= Cardinality(db)
Sound ==
    /\ wpc \in Working => batch # <<>>
    /\ wpc \in {"count", "event"} => Head(batch) \in db
    /\ fresh => wpc = "count"
Known == db \cup dlq \cup lost \cup Held \cup ToSet(queue)
Traced == \A m \in Msgs : pushed[m] > 0 => m \in Known
HeldPushed == \A m \in Held \cup ToSet(queue) : pushed[m] > 0

WorkerParts ==
    /\ TypeOK /\ db \subseteq Complete /\ Counted /\ Sound /\ Traced /\ HeldPushed
    /\ ExactInPeace /\ (Peace => InPeace)
LEMMA Parts == (WorkerIInv <=> WorkerParts) /\ (WorkerIInv' <=> WorkerParts')
  BY DEF WorkerParts, WorkerIInv, WorkerInv, Counted, Sound, Known, Traced, HeldPushed

LEMMA HeldOnly ==
    ASSUME HeldPushed, pushed' = pushed, Held' \cup ToSet(queue') \subseteq Held \cup ToSet(queue)
    PROVE  HeldPushed'
  BY DEF HeldPushed

\* What is in the lists after a step: one is extended, cut or dropped.
LEMMA Dropping == \A s : s = <<>> => ToSet(s) = {} /\ s \in Seq(Msgs)
  BY NothingIn

LEMMA QueueList ==
    ASSUME TypeOK
    PROVE  /\ ToSet(queue) \subseteq Msgs
           /\ queue # <<>> => /\ Head(queue) \in Msgs /\ Tail(queue) \in Seq(Msgs) /\ Head(queue) \in ToSet(queue)
                              /\ ToSet(queue) = ToSet(Tail(queue)) \cup {Head(queue)}
           /\ \A m \in Msgs : Append(queue, m) \in Seq(Msgs) /\ ToSet(Append(queue, m)) = ToSet(queue) \cup {m}
  BY ToSetOf, Beheaded, Appended DEF TypeOK

LEMMA BatchList ==
    ASSUME TypeOK
    PROVE  /\ ToSet(batch) \subseteq Msgs
           /\ batch # <<>> => /\ Head(batch) \in Msgs /\ Tail(batch) \in Seq(Msgs) /\ Head(batch) \in ToSet(batch)
                              /\ ToSet(batch) = ToSet(Tail(batch)) \cup {Head(batch)}
           /\ \A m \in Msgs : Append(batch, m) \in Seq(Msgs) /\ ToSet(Append(batch, m)) = ToSet(batch) \cup {m}
  BY ToSetOf, Beheaded, Appended DEF TypeOK

LEMMA FailedList ==
    ASSUME TypeOK
    PROVE  /\ ToSet(failed) \subseteq Msgs
           /\ failed # <<>> => /\ Head(failed) \in Msgs /\ Tail(failed) \in Seq(Msgs) /\ Head(failed) \in ToSet(failed)
                               /\ ToSet(failed) = ToSet(Tail(failed)) \cup {Head(failed)}
           /\ \A m \in Msgs : Append(failed, m) \in Seq(Msgs) /\ ToSet(Append(failed, m)) = ToSet(failed) \cup {m}
  BY ToSetOf, Beheaded, Appended DEF TypeOK

LEMMA LongBatch ==
    ASSUME TypeOK, batch # <<>>, Len(batch) > 1
    PROVE  Tail(batch) # <<>> /\ Head(Tail(batch)) \in ToSet(batch)
  BY Beheaded DEF TypeOK

LEMMA PushKeeps == ASSUME WorkerIInv, NEW m \in Msgs, Push(m) PROVE WorkerIInv'
<1>1. /\ TypeOK /\ Append(queue, m) \in Seq(Msgs) /\ ToSet(Append(queue, m)) = ToSet(queue) \cup {m}
  BY Parts, QueueList DEF WorkerParts
<1>2. TypeOK'
  BY <1>1 DEF TypeOK, Push, worker
<1>0. \A x \in Msgs : pushed[x] \in Nat /\ pushed'[x] = (IF x = m THEN pushed[x] + 1 ELSE pushed[x])
  BY <1>1 DEF TypeOK, Push
<1>3. Counted' /\ Sound' /\ db' \subseteq Complete
  BY Parts DEF WorkerParts, Push, worker, Counted, Sound
<1>5. HeldPushed'
  <2>1. Held \cup ToSet(queue) \subseteq Msgs /\ Held' \cup ToSet(queue') = Held \cup ToSet(queue) \cup {m}
    BY <1>1, QueueList, BatchList, FailedList DEF Push, worker, Held
  <2> QED
    BY <1>0, <2>1, Parts DEF WorkerParts, HeldPushed
<1>6. ExactInPeace' /\ (Peace' => InPeace')
  <2>1. Peace' => Peace
    <3>1. \A x \in Unreadable : pushed'[x] = 0 => pushed[x] = 0
      BY <1>0
    <3> QED
      BY <3>1 DEF Push, Peace
  <2> QED
    BY <2>1, Parts DEF WorkerParts, Push, worker, ExactInPeace, InPeace
<1>4. Traced'
  <2>1. Known' = Known \cup {m}
    BY <1>1 DEF Push, worker, Known, Held
  <2> QED
    BY <1>1, <2>1, Parts DEF WorkerParts, Traced, Push, TypeOK
<1> QED
  BY <1>2, <1>3, <1>4, <1>5, <1>6, Parts DEF WorkerParts

LEMMA PopKeeps == ASSUME WorkerIInv, Pop PROVE WorkerIInv'
<1>1. /\ TypeOK /\ queue # <<>> /\ Head(queue) \in Msgs /\ Tail(queue) \in Seq(Msgs)
      /\ ToSet(queue) = ToSet(Tail(queue)) \cup {Head(queue)}
      /\ Append(batch, Head(queue)) \in Seq(Msgs)
      /\ ToSet(Append(batch, Head(queue))) = ToSet(batch) \cup {Head(queue)}
  BY Parts, QueueList, BatchList DEF WorkerParts, Pop
<1>2. TypeOK'
  BY <1>1 DEF TypeOK, Pop
<1>3. Sound' /\ Counted' /\ db' \subseteq Complete
  BY Parts DEF WorkerParts, Pop, Sound, Counted, Working
<1>4. Known' = Known
  BY <1>1 DEF Pop, Known, Held
<1>5. Traced'
  BY <1>4, Parts DEF WorkerParts, Traced, Pop
<1>6. HeldPushed'
  <2>1. Held' \cup ToSet(queue') \subseteq Held \cup ToSet(queue) /\ pushed' = pushed
    BY <1>1 DEF Pop, Held
  <2> QED
    BY <2>1, HeldOnly, Parts DEF WorkerParts
<1>7. ExactInPeace' /\ (Peace' => InPeace')
  <2>1. (Peace' <=> Peace) /\ UNCHANGED <<dlq, fresh, failed, db, count, redis, mongo>>
    BY DEF Pop, Peace
  <2>2. Peace => lost' \cap Complete = lost \cap Complete
    BY DEF Pop
  <2> QED
    BY <2>1, <2>2, Parts DEF WorkerParts, ExactInPeace, InPeace
<1> QED
  BY <1>2, <1>3, <1>5, <1>6, <1>7, Parts DEF WorkerParts

LEMMA StartBatchKeeps == ASSUME WorkerIInv, StartBatch \/ NextBatch PROVE WorkerIInv'
<1>1. /\ TypeOK /\ (batch # <<>> => Head(batch) \in ToSet(batch))
      /\ UNCHANGED <<queue, dlq, pushed, batch, failed, db, count, redis, mongo, lost, faults>>
      /\ wpc \notin Working
  BY Parts, BatchList DEF WorkerParts, StartBatch, NextBatch, Working
<1>2. fresh = FALSE /\ fresh' = FALSE
  <2>1. fresh = FALSE
    BY <1>1, Parts DEF WorkerParts, Sound, Working, TypeOK
  <2> QED
    BY <2>1 DEF StartBatch, NextBatch
<1>3. TypeOK'
  BY <1>1, <1>2 DEF TypeOK, StartBatch, NextBatch, Working
<1>4. Sound'
  BY <1>1, <1>2, Parts DEF WorkerParts, StartBatch, NextBatch, Sound, HeldPushed, Working
<1>5. Counted' /\ Traced' /\ HeldPushed' /\ db' \subseteq Complete /\ ExactInPeace' /\ (Peace' => InPeace')
  BY <1>1, <1>2, Parts DEF WorkerParts, Counted, Traced, Known, Held, HeldPushed, ExactInPeace, Peace, InPeace
<1> QED
  BY <1>3, <1>4, <1>5, Parts DEF WorkerParts

\* PopFails, RejectRaises, BuryFails and Die: what is dropped is lost unless it is
\* elsewhere.
LEMMA DropKeeps ==
    ASSUME WorkerIInv, PopFails \/ RejectRaises \/ BuryFails \/ Die
    PROVE  WorkerIInv'
<1>1. /\ TypeOK /\ ToSet(batch) \subseteq Msgs /\ ToSet(failed) \subseteq Msgs /\ ToSet(queue) \subseteq Msgs
      /\ UNCHANGED <<dlq, pushed, db, count, redis, mongo>>
      /\ faults' \in 0 .. MaxFaults
  <2>1. TypeOK
    BY Parts DEF WorkerParts
  <2>2. UNCHANGED <<dlq, pushed, db, count, redis, mongo>> /\ (faults' = faults \/ (faults < MaxFaults /\ faults' = faults + 1))
    BY DEF PopFails, RejectRaises, BuryFails, Die
  <2>3. faults' \in 0 .. MaxFaults
    BY <2>1, <2>2 DEF TypeOK
  <2> QED
    BY <2>1, <2>2, <2>3, BatchList, FailedList, QueueList
<1>2. /\ batch' \in Seq(Msgs) /\ failed' \in Seq(Msgs) /\ wpc' \in {"pop", "bury"}
      /\ ToSet(batch') \subseteq ToSet(batch) /\ ToSet(failed') \subseteq ToSet(failed)
  BY <1>1, Dropping DEF PopFails, RejectRaises, BuryFails, Die, TypeOK
<1>3. queue' \in Seq(Msgs) /\ ToSet(queue') \subseteq ToSet(queue)
  <2>1. queue' = queue \/ (queue # <<>> /\ queue' = Tail(queue))
    BY DEF PopFails, RejectRaises, BuryFails, Die
  <2> QED
    BY <1>1, <2>1, QueueList DEF TypeOK
<1>4. fresh' = FALSE
  <2>1. wpc # "count" => fresh = FALSE
    BY <1>1, Parts DEF WorkerParts, Sound, TypeOK
  <2> QED
    BY <2>1 DEF PopFails, RejectRaises, BuryFails, Die
<1>5. lost \subseteq lost' /\ lost' \subseteq Msgs /\ Known \subseteq Known'
  <2>1. \/ PopFails /\ failed' = failed /\ Dropped(ToSet(batch) \cup ToSet(queue))
        \/ (RejectRaises \/ Die) /\ Dropped(ToSet(batch) \cup ToSet(failed)) /\ queue' = queue
        \/ BuryFails /\ batch' = batch /\ Dropped(ToSet(failed)) /\ queue' = queue
    BY DEF PopFails, RejectRaises, BuryFails, Die
  <2> QED
    BY <1>1, <2>1 DEF Known, Held, TypeOK, Dropped
<1>6. TypeOK'
  BY <1>1, <1>2, <1>3, <1>4, <1>5 DEF TypeOK
<1>7. HeldPushed'
  <2>1. Held' \cup ToSet(queue') \subseteq Held \cup ToSet(queue) /\ pushed' = pushed
    BY <1>1, <1>2, <1>3 DEF Held
  <2> QED
    BY <2>1, HeldOnly, Parts DEF WorkerParts
<1>8. ~Peace'
  <2>1. CASE ~redis
    <3>1. faults # 0 \/ \E m \in Unreadable : pushed[m] # 0
      BY <2>1, Parts DEF WorkerParts, InPeace, Peace
    <3>2. faults' = faults \/ faults' # 0
      BY <1>1 DEF PopFails, RejectRaises, BuryFails, Die, TypeOK
    <3> QED
      BY <1>1, <3>1, <3>2 DEF Peace
  <2>2. CASE Die
    BY <1>1, <2>2 DEF Die, Peace, TypeOK
  <2>3. CASE \E m \in Unreadable : m \in Held \cup ToSet(queue)
    <3> PICK m \in Unreadable : m \in Held \cup ToSet(queue)
      BY <2>3
    <3>1. pushed[m] > 0 /\ pushed' = pushed
      BY <1>1, Parts DEF WorkerParts, HeldPushed
    <3> QED
      BY <3>1 DEF Peace
  <2>4. RejectRaises => Head(batch) \in Unreadable /\ Head(batch) \in Held
    BY <1>1, BatchList, Parts DEF WorkerParts, Sound, Working, RejectRaises, Held
  <2>5. PopFails /\ redis => Head(queue) \in Unreadable /\ Head(queue) \in ToSet(queue)
    BY <1>1, QueueList DEF PopFails
  <2> QED
    BY <2>1, <2>2, <2>3, <2>4, <2>5 DEF BuryFails
<1>9. Sound' /\ Counted'
  <2>1. count' <= Cardinality(db')
    <3>1. Cardinality(db) \in Nat
      BY Parts, FS_Subset, FS_CardinalityType DEF WorkerParts
    <3> QED
      BY <1>1, <3>1, Parts DEF WorkerParts, Counted, TypeOK
  <2> QED
    BY <1>1, <1>2, <1>4, <2>1 DEF Sound, Counted, Working, TypeOK
<1>10. Traced' /\ db' \subseteq Complete /\ ExactInPeace' /\ (Peace' => InPeace')
  BY <1>1, <1>5, <1>8, Parts DEF WorkerParts, Traced, ExactInPeace
<1> QED
  BY <1>6, <1>7, <1>9, <1>10, Parts DEF WorkerParts

\* The message in work is done with: the next one, or the dead letters.
LEMMA NextMessage ==
    ASSUME WorkerIInv, batch # <<>>, batch' = Tail(batch), wpc' = Following, fresh' = FALSE
    PROVE  /\ batch' \in Seq(Msgs) /\ ToSet(batch) = ToSet(batch') \cup {Head(batch)}
           /\ wpc' \in {"upsert", "bury"} /\ Sound'
<1>1. /\ TypeOK /\ Head(batch) \in Msgs /\ batch' \in Seq(Msgs)
      /\ ToSet(batch) = ToSet(batch') \cup {Head(batch)}
  BY Parts, BatchList DEF WorkerParts
<1>2. wpc' \in {"upsert", "bury"}
  BY DEF Following
<1>4. wpc' = "upsert" => batch' # <<>>
  BY <1>1, LongBatch DEF Following
<1>5. Sound'
  BY <1>2, <1>4 DEF Sound, Working
<1> QED
  BY <1>1, <1>2, <1>5

LEMMA FailMoves ==
    ASSUME WorkerIInv, batch # <<>>, Fail, UNCHANGED <<queue, pushed>>
    PROVE  /\ batch' \in Seq(Msgs) /\ failed' \in Seq(Msgs) /\ wpc' \in {"upsert", "bury"} /\ fresh' = FALSE
           /\ ToSet(batch') \cup ToSet(failed') = Held /\ Sound' /\ HeldPushed'
           /\ ToSet(failed') = ToSet(failed) \cup {Head(batch)}
<1>1. /\ batch' \in Seq(Msgs) /\ ToSet(batch) = ToSet(batch') \cup {Head(batch)}
      /\ wpc' \in {"upsert", "bury"} /\ Sound' /\ fresh' = FALSE
  BY NextMessage DEF Fail
<1>2. failed' \in Seq(Msgs) /\ ToSet(failed') = ToSet(failed) \cup {Head(batch)}
  BY Parts, BatchList, FailedList DEF WorkerParts, Fail
<1>3. Held' = Held /\ HeldPushed'
  <2>1. Held' = Held
    BY <1>1, <1>2 DEF Held
  <2> QED
    BY <2>1, HeldOnly, Parts DEF WorkerParts
<1> QED
  BY <1>1, <1>2, <1>3 DEF Held

LEMMA InWork ==
    ASSUME WorkerIInv
    PROVE  /\ wpc \in Working => batch # <<>> /\ Head(batch) \in ToSet(batch) /\ Head(batch) \in Msgs
           /\ wpc # "count" => fresh = FALSE
           /\ Cardinality(db) \in Nat /\ count \in Nat
           /\ fresh = FALSE => count <= Cardinality(db)
           /\ fresh = TRUE => count + 1 <= Cardinality(db)
<1>1. Cardinality(db) \in Nat /\ fresh \in BOOLEAN /\ count \in Nat
  BY Parts, FS_Subset, FS_CardinalityType DEF WorkerParts, TypeOK
<1>2. wpc \in Working => batch # <<>> /\ Head(batch) \in ToSet(batch) /\ Head(batch) \in Msgs
  BY Parts, BatchList DEF WorkerParts, Sound
<1> QED
  BY <1>1, <1>2, Parts DEF WorkerParts, Sound, Counted

LEMMA UpsertKeeps == ASSUME WorkerIInv, Upsert PROVE WorkerIInv'
<1>1. /\ TypeOK /\ batch # <<>> /\ Head(batch) \in Complete /\ fresh = FALSE /\ count \in Nat
      /\ wpc = "upsert" /\ UNCHANGED <<queue, dlq, pushed, count, redis, mongo, lost, faults>>
      /\ Head(batch) \in Msgs /\ count <= Cardinality(db) /\ db \subseteq Complete
  BY Parts, InWork DEF WorkerParts, Upsert, Working
<1>2. /\ IsFiniteSet(db) /\ Cardinality(db) \in Nat
      /\ Cardinality(db \cup {Head(batch)}) = IF Head(batch) \in db THEN Cardinality(db) ELSE Cardinality(db) + 1
  BY <1>1, Stored
<1>3. CASE mongo /\ db' = db \cup {Head(batch)} /\ fresh' = (Head(batch) \notin db) /\ wpc' = "count"
           /\ UNCHANGED <<batch, failed>>
  <2>1. fresh' \in BOOLEAN /\ (fresh' = TRUE <=> Head(batch) \notin db)
    BY <1>3
  <2>2. TypeOK'
    BY <1>1, <1>3, <2>1 DEF TypeOK, Working
  <2>3. Sound' /\ HeldPushed' /\ Traced' /\ db' \subseteq Complete /\ (Peace' => InPeace')
    BY <1>1, <1>3, Parts DEF WorkerParts, Sound, HeldPushed, Traced, Known, Held, InPeace, Peace, Working
  <2>4. Counted' /\ ExactInPeace'
    BY <1>1, <1>2, <1>3, <2>1, Parts DEF WorkerParts, Counted, ExactInPeace, Peace
  <2> QED
    BY <2>2, <2>3, <2>4, Parts DEF WorkerParts
<1>4. CASE ~mongo /\ Fail /\ db' \in {db, db \cup {Head(batch)}}
  <2>1. /\ batch' \in Seq(Msgs) /\ failed' \in Seq(Msgs) /\ wpc' \in {"upsert", "bury"} /\ fresh' = FALSE
        /\ Held' = Held /\ Sound' /\ HeldPushed'
    BY <1>1, <1>4, FailMoves DEF Held
  <2>2. ~Peace /\ ~Peace'
    <3>1. (Peace' <=> Peace) /\ ~mongo
      BY <1>1, <1>4 DEF Peace
    <3> QED
      BY <3>1, Parts DEF WorkerParts, InPeace
  <2>3. TypeOK'
    BY <1>1, <1>4, <2>1 DEF TypeOK, Working
  <2>4. Traced' /\ db' \subseteq Complete /\ ExactInPeace' /\ (Peace' => InPeace')
    BY <1>1, <1>4, <2>1, <2>2, Parts DEF WorkerParts, Traced, Known, ExactInPeace, Peace
  <2>5. Counted'
    <3>1. Cardinality(db') \in Nat /\ Cardinality(db) <= Cardinality(db')
      BY <1>2, <1>4
    <3> QED
      BY <1>1, <1>2, <2>1, <3>1 DEF Counted
  <2> QED
    BY <2>1, <2>3, <2>4, <2>5, Parts DEF WorkerParts
<1> QED
  BY <1>3, <1>4 DEF Upsert

LEMMA RejectKeeps == ASSUME WorkerIInv, Reject PROVE WorkerIInv'
<1>1. /\ TypeOK /\ batch # <<>> /\ Head(batch) \notin Complete /\ fresh = FALSE
      /\ UNCHANGED <<queue, dlq, pushed, db, count, redis, mongo, lost, faults>>
  BY Parts, InWork DEF WorkerParts, Reject, Working
<1>2. /\ batch' \in Seq(Msgs) /\ failed' \in Seq(Msgs) /\ wpc' \in {"upsert", "bury"} /\ fresh' = FALSE
      /\ Held' = Held /\ Sound' /\ HeldPushed' /\ ToSet(failed') = ToSet(failed) \cup {Head(batch)}
  BY <1>1, FailMoves DEF Reject, Held
<1>3. TypeOK'
  BY <1>1, <1>2 DEF TypeOK, Working
<1>4. Traced' /\ db' \subseteq Complete /\ Counted' /\ ExactInPeace'
  BY <1>1, <1>2, Parts DEF WorkerParts, Traced, Known, Counted, ExactInPeace, Peace
<1>5. Peace' => InPeace'
  BY <1>1, <1>2, Parts DEF WorkerParts, InPeace, Peace
<1> QED
  BY <1>2, <1>3, <1>4, <1>5, Parts DEF WorkerParts

LEMMA CountKeeps == ASSUME WorkerIInv, CountMessage PROVE WorkerIInv'
<1>1. /\ TypeOK /\ batch # <<>> /\ wpc = "count" /\ Cardinality(db) \in Nat /\ count \in Nat /\ fresh \in BOOLEAN
      /\ UNCHANGED <<queue, dlq, pushed, db, redis, mongo, lost, faults>>
      /\ Head(batch) \in db
  BY Parts, InWork DEF WorkerParts, Sound, CountMessage, Working, TypeOK
<1> PICK more : more = IF fresh THEN count + 1 ELSE count
  OBVIOUS
<1>2. more \in Nat /\ count \in Nat /\ count <= more /\ more <= Cardinality(db)
  <2>1. fresh = TRUE => more = count + 1 /\ count + 1 <= Cardinality(db)
    BY InWork
  <2>2. fresh = FALSE => more = count /\ count <= Cardinality(db)
    BY InWork
  <2>3. fresh = TRUE \/ fresh = FALSE
    BY <1>1
  <2> QED
    BY <1>1, <2>1, <2>2, <2>3
<1>3. CASE mongo /\ count' = more /\ wpc' = "event" /\ fresh' = FALSE /\ UNCHANGED <<batch, failed>>
  <2>1. TypeOK'
    BY <1>1, <1>2, <1>3 DEF TypeOK, Working
  <2>2. Sound' /\ HeldPushed' /\ Traced' /\ db' \subseteq Complete /\ (Peace' => InPeace')
    BY <1>1, <1>3, Parts DEF WorkerParts, Sound, HeldPushed, Traced, Known, Held, InPeace, Peace, Working
  <2>3. Counted' /\ ExactInPeace'
    BY <1>1, <1>2, <1>3, Parts DEF WorkerParts, Counted, ExactInPeace, Peace
  <2> QED
    BY <2>1, <2>2, <2>3, Parts DEF WorkerParts
<1>4. CASE ~mongo /\ Fail /\ count' \in {count, more}
  <2>1. /\ batch' \in Seq(Msgs) /\ failed' \in Seq(Msgs) /\ wpc' \in {"upsert", "bury"} /\ fresh' = FALSE
        /\ Held' = Held /\ Sound' /\ HeldPushed'
    BY <1>1, <1>4, FailMoves DEF Held
  <2>2. ~Peace /\ ~Peace'
    <3>1. (Peace' <=> Peace) /\ ~mongo
      BY <1>1, <1>4 DEF Peace
    <3> QED
      BY <3>1, Parts DEF WorkerParts, InPeace
  <2>3. TypeOK'
    BY <1>1, <1>2, <1>4, <2>1 DEF TypeOK, Working
  <2>4. Traced' /\ db' \subseteq Complete /\ ExactInPeace' /\ (Peace' => InPeace')
    BY <1>1, <2>1, <2>2, Parts DEF WorkerParts, Traced, Known, ExactInPeace, Peace
  <2>5. Counted'
    BY <1>1, <1>2, <1>4, <2>1 DEF Counted
  <2> QED
    BY <2>1, <2>3, <2>4, <2>5, Parts DEF WorkerParts
<1> QED
  BY <1>3, <1>4 DEF CountMessage

LEMMA PublishKeeps == ASSUME WorkerIInv, PublishEvent PROVE WorkerIInv'
<1>1. /\ TypeOK /\ batch # <<>> /\ Head(batch) \in db /\ fresh = FALSE
      /\ UNCHANGED <<queue, dlq, pushed, db, count, redis, mongo, lost, faults>>
  BY Parts, InWork DEF WorkerParts, Sound, PublishEvent, Working
<1>2. CASE redis /\ batch' = Tail(batch) /\ wpc' = Following /\ UNCHANGED <<fresh, failed>>
  <2>1. /\ batch' \in Seq(Msgs) /\ ToSet(batch) = ToSet(batch') \cup {Head(batch)}
        /\ wpc' \in {"upsert", "bury"} /\ Sound'
    BY <1>1, <1>2, NextMessage
  <2>4. HeldPushed'
    <3>1. Held' \cup ToSet(queue') \subseteq Held \cup ToSet(queue) /\ pushed' = pushed
      BY <1>1, <1>2, <2>1 DEF Held
    <3> QED
      BY <3>1, HeldOnly, Parts DEF WorkerParts
  <2>2. TypeOK'
    BY <1>1, <1>2, <2>1 DEF TypeOK, Working
  <2>3. /\ Traced' /\ db' \subseteq Complete /\ Counted' /\ ExactInPeace' /\ (Peace' => InPeace')
    BY <1>1, <1>2, <2>1, Parts DEF WorkerParts, Traced, Known, Held, Counted, ExactInPeace, Peace, InPeace
  <2> QED
    BY <2>1, <2>2, <2>3, <2>4, Parts DEF WorkerParts
<1>3. CASE ~redis /\ Fail
  <2>1. /\ batch' \in Seq(Msgs) /\ failed' \in Seq(Msgs) /\ wpc' \in {"upsert", "bury"} /\ fresh' = FALSE
        /\ Held' = Held /\ Sound' /\ HeldPushed'
    BY <1>1, <1>3, FailMoves DEF Held
  <2>2. ~Peace /\ ~Peace'
    <3>1. (Peace' <=> Peace) /\ ~redis
      BY <1>1, <1>3 DEF Peace
    <3> QED
      BY <3>1, Parts DEF WorkerParts, InPeace
  <2>3. TypeOK'
    BY <1>1, <2>1 DEF TypeOK, Working
  <2>4. Traced' /\ db' \subseteq Complete /\ Counted' /\ ExactInPeace' /\ (Peace' => InPeace')
    BY <1>1, <2>1, <2>2, Parts DEF WorkerParts, Traced, Known, Counted, ExactInPeace, Peace
  <2> QED
    BY <2>1, <2>3, <2>4, Parts DEF WorkerParts
<1> QED
  BY <1>2, <1>3 DEF PublishEvent

LEMMA BuryKeeps == ASSUME WorkerIInv, Bury PROVE WorkerIInv'
<1>1. /\ TypeOK /\ Head(failed) \in Msgs /\ failed' \in Seq(Msgs) /\ dlq' = dlq \cup {Head(failed)}
      /\ ToSet(failed) = ToSet(failed') \cup {Head(failed)}
      /\ UNCHANGED <<queue, pushed, wpc, batch, fresh, db, count, redis, mongo, lost, faults>>
  BY Parts, FailedList DEF WorkerParts, Bury
<1>2. TypeOK'
  BY <1>1 DEF TypeOK
<1>3. Traced' /\ db' \subseteq Complete /\ Sound' /\ HeldPushed' /\ Counted'
  BY <1>1, Parts DEF WorkerParts, Traced, Known, Held, Sound, HeldPushed, Counted
<1>4. ExactInPeace' /\ (Peace' => InPeace')
  BY <1>1, Parts DEF WorkerParts, ExactInPeace, Peace, InPeace
<1> QED
  BY <1>2, <1>3, <1>4, Parts DEF WorkerParts

LEMMA ExpiryKeeps == ASSUME WorkerIInv, ExpireLetters PROVE WorkerIInv'
<1>1. /\ TypeOK /\ lost' = lost \cup (dlq \ (db \cup ToSet(queue) \cup ToSet(batch) \cup ToSet(failed))) /\ dlq' = {}
      /\ UNCHANGED <<queue, pushed, wpc, batch, fresh, failed, db, count, redis, mongo, faults>>
  BY Parts DEF WorkerParts, ExpireLetters, worker
<1>2. TypeOK'
  BY <1>1 DEF TypeOK
<1>3. Traced' /\ db' \subseteq Complete /\ Sound' /\ HeldPushed' /\ Counted'
  BY <1>1, Parts DEF WorkerParts, Traced, Known, Held, Sound, HeldPushed, Counted
<1>4. ExactInPeace' /\ (Peace' => InPeace')
  BY <1>1, Parts DEF WorkerParts, ExactInPeace, Peace, InPeace
<1> QED
  BY <1>2, <1>3, <1>4, Parts DEF WorkerParts

\* Redis or MongoDB stops or comes back; also any step that changes faults only.
LEMMA WeatherKeeps ==
    ASSUME WorkerIInv, UNCHANGED <<queue, dlq, pushed, worker, db, count, lost>>,
           redis' \in BOOLEAN, mongo' \in BOOLEAN, faults' \in faults .. MaxFaults,
           Peace' => redis' = TRUE /\ mongo' = TRUE
    PROVE  WorkerIInv'
<1>1. /\ TypeOK /\ UNCHANGED <<queue, dlq, pushed, wpc, batch, fresh, failed, db, count, lost>>
      /\ faults \in Nat
  BY Parts DEF WorkerParts, worker, TypeOK
<1>2. TypeOK'
  BY <1>1 DEF TypeOK
<1>3. Traced' /\ db' \subseteq Complete /\ Sound' /\ HeldPushed' /\ Counted'
  BY <1>1, Parts DEF WorkerParts, Traced, Known, Held, Sound, HeldPushed, Counted
<1>4. Peace' => Peace
  <2>1. pushed' = pushed /\ (faults' = 0 => faults = 0)
    BY <1>1
  <2> QED
    BY <2>1 DEF Peace
<1>5. ExactInPeace' /\ (Peace' => InPeace')
  BY <1>1, <1>4, Parts DEF WorkerParts, ExactInPeace, InPeace
<1> QED
  BY <1>2, <1>3, <1>5, Parts DEF WorkerParts

LEMMA WorkKeeps == ASSUME WorkerIInv, Work PROVE WorkerIInv'
<1> QED
  BY DropKeeps, PopKeeps, StartBatchKeeps, UpsertKeeps, RejectKeeps, CountKeeps, PublishKeeps, BuryKeeps DEF Work

LEMMA EnvironmentKeeps == ASSUME WorkerIInv, Environment PROVE WorkerIInv'
<1>1. TypeOK
  BY Parts DEF WorkerParts
<1>2. CASE Die
  BY <1>2, DropKeeps
<1>3. CASE Outage
  <2>1. redis \in BOOLEAN /\ mongo \in BOOLEAN /\ faults \in Nat
    BY <1>1 DEF TypeOK
  <2>2. (redis' = redis \/ redis' = FALSE) /\ (mongo' = mongo \/ mongo' = FALSE)
    BY <1>3 DEF Outage
  <2>3. redis' \in BOOLEAN /\ mongo' \in BOOLEAN
    BY <2>1, <2>2, Zenon
  <2>4. UNCHANGED <<queue, dlq, pushed, worker, db, count, lost>> /\ faults' \in faults .. MaxFaults /\ faults' # 0
    BY <1>1, <1>3 DEF Outage, TypeOK
  <2> QED
    BY <2>3, <2>4, WeatherKeeps DEF Peace
<1>4. CASE Repair
  BY <1>1, <1>4, WeatherKeeps DEF Repair, TypeOK
<1>5. CASE ExpireLetters
  BY <1>5, ExpiryKeeps
<1> QED
  BY <1>2, <1>3, <1>4, <1>5 DEF Environment

LEMMA NextWorker == WorkerIInv /\ [Next]_vars => WorkerIInv'
<1> SUFFICES ASSUME WorkerIInv, [Next]_vars PROVE WorkerIInv'
  OBVIOUS
<1>1. CASE UNCHANGED vars
  <2>1. UNCHANGED <<queue, dlq, pushed, worker, db, count, lost>> /\ UNCHANGED <<redis, mongo, faults>>
    BY <1>1 DEF vars
  <2>2. redis \in BOOLEAN /\ mongo \in BOOLEAN /\ faults \in 0 .. MaxFaults
        /\ (Peace => redis = TRUE /\ mongo = TRUE)
    BY Parts DEF WorkerParts, TypeOK, InPeace, Peace
  <2>3. redis' \in BOOLEAN /\ mongo' \in BOOLEAN /\ (Peace' => redis' = TRUE /\ mongo' = TRUE)
    <3>1. Peace' <=> Peace
      BY <2>1 DEF Peace
    <3> QED
      BY <2>1, <2>2, <3>1, Zenon
  <2>4. faults' \in faults .. MaxFaults
    BY <2>1, <2>2
  <2> QED
    BY <2>1, <2>3, <2>4, WeatherKeeps
<1> QED
  BY <1>1, PushKeeps, WorkKeeps, EnvironmentKeeps DEF Next

\* Whatever is stored was complete, the counter is never ahead of it and exact
\* until something fails, and every message that was pushed is accounted for.
THEOREM Worker == Spec => []WorkerInv
<1>1. WorkerIInv => WorkerInv
  BY DEF WorkerIInv
<1> QED
  BY <1>1, InitWorker, NextWorker, PTL DEF Spec

------------------------------------------------------------------------------
(* The worker implements MessageLog                                          *)

P == [m \in Msgs |-> Place(m)]

LEMMA Placed == \A m \in Msgs : Place(m) \in {"unsent", "waiting", "stored", "aside", "lost"}
                                /\ P[m] = Place(m) /\ P'[m] = Place(m)'
  BY DEF Place, P

\* A step that only changes where waiting messages are settles them.
LEMMA Settles ==
    ASSUME \A m \in Msgs : Place(m)' = Place(m) \/ (Place(m) = "waiting" /\ Place(m)' # "unsent"),
           count' = count
    PROVE  Log!Settle
<1> DEFINE to == [m \in Log!At("waiting") |-> Place(m)']
<1>1. to \in [Log!At("waiting") -> Log!Places \ {"unsent"}]
  <2>1. \A m \in Log!At("waiting") : m \in Msgs /\ Place(m) = "waiting"
    BY DEF Log!At
  <2>2. \A m \in Msgs : Place(m)' \in {"unsent", "waiting", "stored", "aside", "lost"}
    BY DEF Place
  <2>3. \A m \in Log!At("waiting") : Place(m)' \in Log!Places \ {"unsent"}
    BY <2>1, <2>2 DEF Log!Places
  <2> QED
    BY <2>3
<1>2. [m \in Msgs |-> Place(m)]' = [m \in Msgs |-> IF P[m] = "waiting" THEN to[m] ELSE P[m]]
  <2>1. \A m \in Msgs : Place(m)' = IF P[m] = "waiting" THEN to[m] ELSE P[m]
    BY DEF Log!At, P
  <2> QED
    BY <2>1
<1> QED
  BY <1>1, <1>2 DEF Log!Settle, P

LEMMA PushMaps == ASSUME WorkerIInv, NEW m \in Msgs, Push(m) PROVE Log!Accept \/ Log!Settle
<1>1. /\ ToSet(queue') = ToSet(queue) \cup {m} /\ lost' = lost \ {m}
      /\ UNCHANGED <<dlq, batch, failed, db, count>>
  BY Parts, QueueList DEF WorkerParts, Push, worker
<1>2. \A x \in Msgs \ {m} : Place(x)' = Place(x)
  BY <1>1 DEF Place, Held
<1>3. Place(m)' = IF m \in db THEN "stored" ELSE "waiting"
  BY <1>1 DEF Place, Held
<1>4. CASE Place(m) \in {"unsent", "aside", "lost"}
  <2>1. Place(m)' = "waiting"
    BY <1>3, <1>4 DEF Place
  <2>2. [x \in Msgs |-> Place(x)]' = [P EXCEPT ![m] = "waiting"]
    BY <1>2, <2>1 DEF P
  <2> QED
    BY <1>1, <1>4, <2>2 DEF Log!Accept, P
<1>5. CASE Place(m) \in {"stored", "waiting"}
  <2>1. Place(m)' = Place(m)
    BY <1>3, <1>5 DEF Place
  <2> QED
    BY <1>1, <1>2, <2>1, Settles
<1> QED
  BY <1>4, <1>5, Placed

\* What is in the worker's hands moves between its lists, to the database, to
\* the dead letters, or is lost.
LEMMA HandsMap ==
    ASSUME WorkerIInv, count' = count,
           \/ Pop \/ StartBatch \/ PopFails \/ Upsert \/ Reject \/ RejectRaises \/ PublishEvent
           \/ Bury \/ BuryFails \/ NextBatch \/ Die \/ Outage \/ Repair
    PROVE  Log!Settle
<1>1. TypeOK /\ ToSet(batch) \subseteq Msgs /\ ToSet(failed) \subseteq Msgs
  BY Parts, BatchList, FailedList DEF WorkerParts
<1>2. CASE Pop
  <2>1. /\ queue # <<>> /\ queue' = Tail(queue) /\ UNCHANGED <<dlq, failed, db>>
        /\ ToSet(queue) = ToSet(queue') \cup {Head(queue)} /\ Head(queue) \in Msgs
    BY <1>1, <1>2, QueueList DEF Pop
  <2>2. \/ lost' = lost \cup {Head(queue)} /\ batch' = batch
        \/ lost' = lost /\ ToSet(batch') = ToSet(batch) \cup {Head(queue)}
    BY <1>1, <1>2, <2>1, BatchList DEF Pop
  <2>3. \A m \in Msgs : Place(m)' = Place(m) \/ (Place(m) = "waiting" /\ Place(m)' # "unsent")
    BY <2>1, <2>2 DEF Place, Held
  <2> QED
    BY <2>3, Settles
<1>3. CASE PopFails \/ RejectRaises \/ BuryFails \/ Die
  <2>1. /\ UNCHANGED <<dlq, db>> /\ ToSet(queue') \subseteq ToSet(queue)
        /\ \/ PopFails /\ ToSet(batch') = {} /\ failed' = failed /\ Dropped(ToSet(batch) \cup ToSet(queue))
           \/ BuryFails /\ batch' = batch /\ ToSet(failed') = {} /\ Dropped(ToSet(failed)) /\ queue' = queue
           \/ (RejectRaises \/ Die) /\ ToSet(batch') = {} /\ ToSet(failed') = {} /\ queue' = queue
                 /\ Dropped(ToSet(batch) \cup ToSet(failed))
    <3>1. queue' = queue \/ (queue # <<>> /\ queue' = Tail(queue))
      BY <1>3 DEF PopFails, RejectRaises, BuryFails, Die
    <3>2. ToSet(queue') \subseteq ToSet(queue)
      BY <1>1, <3>1, QueueList
    <3> QED
      BY <1>3, <3>2, Dropping DEF PopFails, RejectRaises, BuryFails, Die
  <2>2. \A m \in Msgs : Place(m)' = Place(m) \/ (Place(m) = "waiting" /\ Place(m)' # "unsent")
    BY <2>1 DEF Dropped, Place, Held
  <2> QED
    BY <2>2, Settles
<1>4. CASE Upsert \/ Reject \/ PublishEvent
  <2>1. batch # <<>> /\ Head(batch) \in ToSet(batch)
    BY <1>4, InWork DEF Upsert, Reject, PublishEvent, Working
  <2>2. /\ UNCHANGED <<queue, dlq, lost>> /\ db \subseteq db' /\ db' \subseteq db \cup {Head(batch)}
        /\ \/ Fail
           \/ UNCHANGED <<batch, failed>>
           \/ batch' = Tail(batch) /\ failed' = failed /\ wpc = "event"
    BY <1>4 DEF Upsert, Reject, PublishEvent
  <2>3. Held' \cup db' = Held \cup db' /\ Held' \subseteq Held
    <3>1. CASE Fail
      BY <1>4, <2>1, <2>2, <3>1, FailMoves DEF Held, Upsert, Reject, PublishEvent
    <3>2. CASE UNCHANGED <<batch, failed>>
      BY <3>2 DEF Held
    <3>3. CASE batch' = Tail(batch) /\ failed' = failed /\ wpc = "event"
      <4>1. ToSet(batch) = ToSet(batch') \cup {Head(batch)}
        BY <1>1, <2>1, <3>3, BatchList
      <4>2. Head(batch) \in db
        BY <3>3, Parts DEF WorkerParts, Sound
      <4> QED
        BY <2>2, <3>3, <4>1, <4>2 DEF Held
    <3> QED
      BY <2>2, <3>1, <3>2, <3>3
  <2>4. Head(batch) \in Held
    BY <2>1 DEF Held
  <2>5. \A m \in Msgs : Place(m)' = Place(m) \/ (Place(m) = "waiting" /\ Place(m)' # "unsent")
    BY <2>2, <2>3, <2>4 DEF Place
  <2> QED
    BY <2>5, Settles
<1>5. CASE Bury
  <2>1. /\ UNCHANGED <<queue, batch, db, lost>> /\ dlq' = dlq \cup {Head(failed)}
        /\ ToSet(failed) = ToSet(failed') \cup {Head(failed)}
    BY <1>1, <1>5, FailedList DEF Bury
  <2>2. \A m \in Msgs : Place(m)' = Place(m) \/ (Place(m) = "waiting" /\ Place(m)' # "unsent")
    BY <2>1 DEF Place, Held
  <2> QED
    BY <2>2, Settles
<1>6. CASE StartBatch \/ NextBatch \/ Outage \/ Repair
  <2>1. UNCHANGED <<queue, dlq, batch, failed, db, lost>>
    BY <1>6 DEF StartBatch, NextBatch, Outage, Repair, worker
  <2> QED
    BY <2>1, Settles DEF Place, Held
<1> QED
  BY <1>2, <1>3, <1>4, <1>5, <1>6

LEMMA SameCardinality == \A S : Log!Cardinality(S) = Cardinality(S)
  BY Zenon DEF Log!Cardinality, Cardinality

LEMMA CountMaps == ASSUME WorkerIInv, CountMessage PROVE Log!Settle \/ Log!Count
<1>1. /\ batch # <<>> /\ UNCHANGED <<queue, dlq, db, lost>> /\ Held' = Held
  <2>1. batch # <<>>
    BY InWork DEF CountMessage, Working
  <2> QED
    BY <2>1, FailMoves DEF CountMessage, Held
<1>2. \A m \in Msgs : Place(m)' = Place(m)
  BY <1>1 DEF Place
<1>3. CASE count' = count
  BY <1>2, <1>3, Settles
<1>4. CASE count' # count
  <2>1. fresh = TRUE /\ count' = count + 1
    BY <1>4, Parts DEF WorkerParts, TypeOK, CountMessage
  <2>2. count < Cardinality(db)
    BY <2>1, InWork
  <2>3. Log!At("stored") = db
    BY Parts DEF WorkerParts, Log!At, Place
  <2>4. [m \in Msgs |-> Place(m)]' = [m \in Msgs |-> Place(m)]
    BY <1>2
  <2> QED
    BY <2>1, <2>2, <2>3, <2>4, SameCardinality DEF Log!Count
<1> QED
  BY <1>3, <1>4

LEMMA ExpiryMaps == ASSUME WorkerIInv, ExpireLetters PROVE Log!GiveUp \/ Log!Settle
<1>1. /\ lost' = lost \cup (dlq \ (db \cup ToSet(queue) \cup ToSet(batch) \cup ToSet(failed))) /\ dlq' = {}
      /\ UNCHANGED <<queue, batch, failed, db, count>>
  BY DEF ExpireLetters, worker
<1>2. \A m \in Msgs : Place(m)' = IF Place(m) = "aside" THEN "lost" ELSE Place(m)
  BY <1>1 DEF Place, Held
<1>3. CASE \E m \in Msgs : Place(m) = "aside"
  <2>1. Log!At("aside") # {}
    BY <1>3 DEF Log!At
  <2>2. [m \in Msgs |-> Place(m)]' = [m \in Msgs |-> IF P[m] = "aside" THEN "lost" ELSE P[m]]
    BY <1>2 DEF P
  <2> QED
    BY <1>1, <2>1, <2>2 DEF Log!GiveUp, P
<1>4. CASE ~\E m \in Msgs : Place(m) = "aside"
  BY <1>1, <1>2, <1>4, Settles
<1> QED
  BY <1>3, <1>4

LEMMA NextMaps == WorkerIInv /\ [Next]_vars => [Log!Next]_(Log!log)
<1> SUFFICES ASSUME WorkerIInv, [Next]_vars PROVE [Log!Next]_(Log!log)
  OBVIOUS
<1>1. ASSUME NEW m \in Msgs, Push(m) PROVE Log!Next
  BY <1>1, PushMaps DEF Log!Next
<1>2. CASE Work
  <2>1. CASE CountMessage
    BY <2>1, CountMaps DEF Log!Next
  <2>2. CASE ~CountMessage
    BY <1>2, <2>2, HandsMap DEF Work, Pop, StartBatch, PopFails, Upsert, Reject, RejectRaises, PublishEvent, Bury, BuryFails,
           NextBatch, Log!Next
  <2> QED
    BY <2>1, <2>2
<1>3. CASE Environment
  BY <1>3, HandsMap, ExpiryMaps DEF Environment, Die, Outage, Repair, Log!Next
<1>4. CASE UNCHANGED vars
  <2>1. UNCHANGED <<queue, dlq, batch, failed, db, lost, count>>
    BY <1>4 DEF vars, worker
  <2>2. \A m \in Msgs : Place(m)' = Place(m)
    BY <2>1 DEF Place, Held
  <2> QED
    BY <2>1, <2>2, Settles DEF Log!Next
<1> QED
  BY <1>1, <1>2, <1>3, <1>4 DEF Next

LEMMA InitMaps == Init => Log!Init
<1> SUFFICES ASSUME Init PROVE Log!Init
  OBVIOUS
<1>1. ToSet(queue) = {} /\ ToSet(batch) = {} /\ ToSet(failed) = {} /\ db = {} /\ dlq = {} /\ lost = {} /\ count = 0
  BY NothingIn DEF Init
<1>2. \A m \in Msgs : Place(m) = "unsent"
  BY <1>1 DEF Place, Held
<1> QED
  BY <1>1, <1>2 DEF Log!Init

\* The worker keeps what MessageLog promises of a message that was pushed.
THEOREM Implements == Spec => KeepsLog
  BY InitWorker, NextWorker, InitMaps, NextMaps, PTL DEF Spec, KeepsLog, Log!Spec

------------------------------------------------------------------------------
(* The pipeline *)

USE ChatAssumption, NoneAssumption, BoundAssumption

\* What is delivered is a published message or nothing.
SendingOK == sending = [what |-> sending.what, left |-> sending.left]
PipelineInv == WorkerIInv /\ ToldIsStored /\ SendingOK

\* A restart of boltchats-ws is counted among the faults and is nothing else to
\* the worker.
Restarted ==
    /\ UNCHANGED <<queue, dlq, pushed, worker, db, count, redis, mongo, lost>>
    /\ faults < MaxFaults /\ faults' = faults + 1

LEMMA PipelineSteps == PNext => Next \/ UNCHANGED vars \/ Restarted
<1> SUFFICES ASSUME PNext PROVE Next \/ UNCHANGED vars \/ Restarted
  OBVIOUS
<1>1. ASSUME NEW m \in Chat, PublishMessage(m) \/ EnqueueMessage(m) PROVE Next \/ UNCHANGED vars
  BY <1>1 DEF PublishMessage, EnqueueMessage, Next
<1>2. ASSUME NEW u \in Users, Move(u) PROVE UNCHANGED vars
  BY <1>2 DEF Move
<1>3. ASSUME NEW m \in Chat, HandleMessage(m) PROVE UNCHANGED vars
  BY <1>3 DEF HandleMessage
<1>4. ASSUME NEW m \in Msgs, PushElse(m) PROVE Next
  BY <1>4 DEF PushElse, Next
<1>5. CASE WorkerStep
  BY <1>5 DEF WorkerStep, Next
<1>6. CASE Listening
  BY <1>6 DEF Listening, Take, Deliver, Delivered, BroadcastError, ConfirmationError, Resubscribe
<1>7. CASE Restart
  BY <1>7 DEF Restart, Restarted
<1>8. CASE Environment /\ UNCHANGED hub
  BY <1>8 DEF Next
<1> QED
  BY <1>1, <1>2, <1>3, <1>4, <1>5, <1>6, <1>7, <1>8 DEF PNext, Handling

LEMMA RestartKeeps == ASSUME WorkerIInv, Restarted PROVE WorkerIInv' /\ Log!Settle
<1>1. redis \in BOOLEAN /\ mongo \in BOOLEAN /\ faults \in 0 .. MaxFaults
  BY Parts DEF WorkerParts, TypeOK
<1>2. /\ UNCHANGED <<queue, dlq, pushed, worker, db, count, lost>>
      /\ redis' = redis /\ mongo' = mongo /\ faults < MaxFaults /\ faults' = faults + 1
  BY DEF Restarted
<1>3. redis' \in BOOLEAN /\ mongo' \in BOOLEAN
  BY <1>1, <1>2, Zenon
<1>4. faults' \in faults .. MaxFaults /\ faults' # 0
  <2>1. faults \in Nat /\ MaxFaults \in Nat /\ faults < MaxFaults /\ faults' = faults + 1
    BY <1>1, <1>2
  <2> QED
    BY <2>1
<1>5. WorkerIInv'
  BY <1>2, <1>3, <1>4, WeatherKeeps DEF Peace
<1>6. \A m \in Msgs : Place(m)' = Place(m)
  BY <1>2 DEF Place, Held, worker
<1> QED
  BY <1>2, <1>5, <1>6, Settles

LEMMA PipelineKeeps == WorkerIInv /\ [PNext]_pvars => WorkerIInv' /\ [Log!Next]_(Log!log)
<1> SUFFICES ASSUME WorkerIInv, [PNext]_pvars PROVE WorkerIInv' /\ [Log!Next]_(Log!log)
  OBVIOUS
<1>1. [Next]_vars \/ Restarted
  BY PipelineSteps DEF pvars
<1> QED
  BY <1>1, NextWorker, NextMaps, RestartKeeps DEF Log!Next

\* What is stored is never removed.
LEMMA StoredStays == [PNext]_pvars => db \subseteq db'
<1> SUFFICES ASSUME [PNext]_pvars PROVE db \subseteq db'
  OBVIOUS
<1>1. CASE Next
  BY <1>1 DEF Next, Push, Work, Environment, Pop, StartBatch, PopFails, Upsert, Reject, RejectRaises, CountMessage,
         PublishEvent, Bury, BuryFails, NextBatch, Die, Outage, Repair, ExpireLetters
<1>2. CASE UNCHANGED vars \/ Restarted
  BY <1>2 DEF vars, Restarted
<1> QED
  BY <1>1, <1>2, PipelineSteps DEF pvars

\* A step of the pipeline may tell of what is stored, and of what it told already.
ToldKept ==
    /\ SendingOK'
    /\ \A m \in Msgs :
          <<"message.created", m>> \in wire' \cup {sending'.what}
              => <<"message.created", m>> \in wire \cup {sending.what} \/ m \in db

LEMMA WireShrinks ==
    ASSUME SendingOK, wire' \subseteq wire, sending' = sending \/ sending' = Idle
    PROVE  ToldKept
<1>1. sending' = [what |-> sending'.what, left |-> sending'.left]
  BY DEF SendingOK, Idle
<1>2. ASSUME NEW m \in Msgs, <<"message.created", m>> = sending'.what PROVE sending' = sending
  <2>1. <<"message.created", m>> \in Kinds \X Msgs
    BY DEF Kinds
  <2> QED
    BY <1>2, <2>1 DEF Idle
<1> QED
  BY <1>1, <1>2 DEF ToldKept, SendingOK

LEMMA NextTells == ASSUME SendingOK, WorkerIInv, PNext PROVE ToldKept
<1>1. CASE WorkerStep
  <2>1. sending' = sending
    BY <1>1 DEF WorkerStep
  <2>2. wpc = "event" => Head(batch) \in db
    BY Parts DEF WorkerParts, Sound
  <2>3. wire' \subseteq wire \/ (wpc = "event" /\ wire' = wire \cup {<<"message.created", Head(batch)>>})
    BY <1>1 DEF WorkerStep, Published
  <2> QED
    BY <2>1, <2>2, <2>3 DEF ToldKept, SendingOK
<1>2. ASSUME NEW m \in Chat, PublishMessage(m) PROVE ToldKept
  <2>1. sending' = sending /\ wire' \subseteq wire \cup {<<"message", m>>}
    BY <1>2 DEF PublishMessage, Published
  <2> QED
    BY <2>1 DEF ToldKept, SendingOK
<1>3. ASSUME NEW w \in Kinds \X Msgs, Take(w) PROVE ToldKept
  <2>1. w \in wire /\ wire' \subseteq wire /\ sending' = [what |-> w, left |-> members]
    BY <1>3 DEF Take
  <2> QED
    BY <2>1 DEF ToldKept, SendingOK
<1>4. ASSUME NEW u \in Users, Deliver(u) PROVE ToldKept
  <2>1. wire' = wire /\ sending' = [sending EXCEPT !.left = @ \ {u}]
    BY <1>4 DEF Deliver
  <2>2. sending' = [what |-> sending.what, left |-> sending.left \ {u}]
    BY <2>1 DEF SendingOK
  <2> QED
    BY <2>1, <2>2 DEF ToldKept, SendingOK
<1>5. ASSUME NEW m \in Chat, HandleMessage(m) \/ EnqueueMessage(m)
      PROVE  wire' = wire /\ sending' = sending
  BY <1>5 DEF HandleMessage, EnqueueMessage
<1>6. ASSUME NEW u \in Users, Move(u) PROVE wire' = wire /\ sending' = sending
  BY <1>6 DEF Move
<1>7. ASSUME NEW m \in Msgs, PushElse(m) PROVE wire' = wire /\ sending' = sending
  BY <1>7 DEF PushElse, hub
<1>8. CASE Delivered \/ BroadcastError \/ ConfirmationError \/ (\E l \in Listeners : Resubscribe(l))
  <2>1. wire' \subseteq wire /\ (sending' = sending \/ sending' = Idle)
    BY <1>8 DEF Delivered, BroadcastError, ConfirmationError, Resubscribe
  <2> QED
    BY <2>1, WireShrinks
<1>9. CASE Restart
  <2>1. wire' = {} /\ sending' = Idle
    BY <1>9 DEF Restart
  <2> QED
    BY <2>1, WireShrinks
<1>10. CASE UNCHANGED hub
  BY <1>10, WireShrinks DEF hub
<1> QED
  BY <1>1, <1>2, <1>3, <1>4, <1>5, <1>6, <1>7, <1>8, <1>9, <1>10, WireShrinks
  DEF PNext, Handling, Listening

LEMMA NextPipeline == PipelineInv /\ [PNext]_pvars => PipelineInv'
<1> SUFFICES ASSUME PipelineInv, [PNext]_pvars PROVE PipelineInv'
  OBVIOUS
<1>1. WorkerIInv' /\ WorkerIInv /\ SendingOK
  BY PipelineKeeps DEF PipelineInv
<1>2. ToldKept
  BY <1>1, NextTells, WireShrinks DEF pvars, hub
<1>3. ToldIsStored'
  BY <1>2, StoredStays DEF PipelineInv, ToldIsStored, ToldKept
<1> QED
  BY <1>1, <1>2, <1>3 DEF PipelineInv, ToldKept

LEMMA InitPipeline == PInit => PipelineInv /\ Log!Init
<1> SUFFICES ASSUME PInit PROVE PipelineInv /\ Log!Init
  OBVIOUS
<1>1. Init /\ wire = {} /\ sending = Idle
  BY DEF PInit
<1>2. SendingOK /\ \A m \in Msgs : <<"message.created", m>> # sending.what
  <2>1. \A m \in Msgs : <<"message.created", m>> \in Kinds \X Msgs
    BY DEF Kinds
  <2> QED
    BY <1>1, <2>1 DEF SendingOK, Idle
<1>3. ToldIsStored
  BY <1>1, <1>2 DEF ToldIsStored
<1> QED
  BY <1>1, <1>2, <1>3, InitWorker, InitMaps DEF PipelineInv

------------------------------------------------------------------------------
(* Theorems *)

\* Restarts of boltchats-ws and everything the hub does leave the promises of
\* the worker of boltchats-storage standing.
THEOREM Pipeline == PSpec => []WorkerInv
<1>1. PipelineInv => WorkerInv
  BY DEF PipelineInv, WorkerIInv
<1> QED
  BY <1>1, InitPipeline, NextPipeline, PTL DEF PSpec

\* The whole pipeline, from handle_message to the database, implements the
\* message log.
THEOREM PipelineImplements == PSpec => KeepsLog
<1>1. PipelineInv /\ [PNext]_pvars => [Log!Next]_(Log!log)
  BY PipelineKeeps DEF PipelineInv
<1> QED
  BY <1>1, InitPipeline, NextPipeline, PTL DEF PSpec, KeepsLog, Log!Spec

\* message.created on its way to the room, whatever fails, is about a message
\* that is stored.
THEOREM Told == PSpec => []ToldIsStored
<1>1. PipelineInv => ToldIsStored
  BY DEF PipelineInv
<1> QED
  BY <1>1, InitPipeline, NextPipeline, PTL DEF PSpec

=============================================================================
