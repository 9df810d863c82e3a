-------------------------- MODULE MigrationsProofs --------------------------
(***************************************************************************)
(* Safety of Migrations for any number of overlapping runs, any arguments  *)
(* and any number of failing calls.  The argument is about the order in    *)
(* which a run goes through its list: upwards for a migration, so that     *)
(* what it leaves out below has been logged; downwards for a rollback, so  *)
(* that what it destroys has been taken up.                                *)
(***************************************************************************)
EXTENDS Migrations, FiniteSetTheorems, TLAPS

USE GoalsAssumption, FaultsAssumption

\* What an action of run r does to the locals of the runs.
Moves(r, k) ==
    /\ k \in RunType
    /\ Orderly(k)
    /\ run' \in [Runs -> RunType]
    /\ run'[r] = k
    /\ \A s \in Runs : s # r => run'[s] = run[s]

LEMMA InitHistory == Init => HistoryInv
<1> SUFFICES ASSUME Init PROVE HistoryInv
  OBVIOUS
<1>1. NewRun \in RunType
  BY DEF NewRun, RunType, Bag, NoVersions, None
<1>2. PICK last \in 0 .. 4 :
          /\ objects = {o \in Versions \X Collections :
                           o[1] <= last /\ o[2] \in Touched(o[1])}
          /\ records = [v \in Versions |-> IF v <= last THEN 1 ELSE 0]
  BY DEF Init
<1>3. TypeOK
  BY <1>1, <1>2 DEF Init, TypeOK, Bag
<1>4. \A r \in Runs : run[r] = NewRun
  BY DEF Init
<1>5. Migrates = {} /\ Rollbacks = {}
  BY <1>4 DEF Migrates, Rollbacks, NewRun
<1>6. InOrder
  BY <1>4 DEF InOrder, Orderly, NewRun, NoVersions, None
<1>7. \A v \in Recorded : v <= last
  BY <1>2 DEF Recorded, Versions
<1>8. RecordedMeansApplied
  BY <1>2, <1>7 DEF RecordedMeansApplied, StrictPart, Recorded, Touched
<1>9. HolesAreReported
  BY <1>2 DEF HolesAreReported, Recorded, Versions
<1>10. RowsOfRuns
  BY <1>2, <1>4 DEF RowsOfRuns, Indexable, NewRun, Versions
<1>11. NoSilentGap /\ WorkDone /\ FromTheTop
  BY <1>5 DEF NoSilentGap, WorkDone, FromTheTop
<1> QED
  BY <1>3, <1>6, <1>8, <1>9, <1>10, <1>11 DEF HistoryInv

LEMMA BeginHistory ==
    ASSUME HistoryInv, NEW r \in Runs, NEW job \in {"migrate", "rollback"}, NEW goal \in Goals,
           Begin(r, job, goal)
    PROVE  HistoryInv'
<1> USE DEF HistoryInv
<1> DEFINE k == [run[r] EXCEPT !.pc = "ensure", !.job = job, !.goal = goal]
<1>1. run[r] \in RunType /\ run \in [Runs -> RunType] /\ Orderly(run[r])
  BY DEF TypeOK, InOrder
<1>2. k \in RunType
  BY <1>1 DEF RunType
<1>3. /\ k.pc = "ensure" /\ k.job = job /\ k.at = run[r].at /\ k.todo = run[r].todo
      /\ k.done = run[r].done /\ k.failed = run[r].failed /\ run[r].pc = "new" /\ run[r].job = "none"
      /\ run[r].todo = NoVersions /\ run[r].done = {} /\ run[r].failed = {} /\ run[r].at = None
  BY <1>1 DEF Begin, RunType, Orderly
<1>4. Orderly(k)
  BY <1>3 DEF Orderly, NoVersions
<1>5. run' = [run EXCEPT ![r] = k]
  BY DEF Begin
<1> HIDE DEF k
<1>6. Moves(r, k) /\ InOrder'
  BY <1>1, <1>2, <1>4, <1>5 DEF Moves, InOrder
<1>7. TypeOK'
  BY <1>6 DEF TypeOK, Begin, Moves
<1>8. /\ Migrates \subseteq Migrates' /\ Rollbacks \subseteq Rollbacks'
      /\ Migrates' \cup Rollbacks' = Migrates \cup Rollbacks \cup {r}
      /\ r \notin Migrates \cup Rollbacks
  BY <1>6, <1>3 DEF Moves, Migrates, Rollbacks
<1>9. Recorded' = Recorded /\ records' = records /\ objects' = objects /\ unique' = unique
  BY DEF Begin, Recorded
<1>10. \A s \in Runs : TakenUp(s) \subseteq TakenUp(s)'
  BY <1>6, <1>3 DEF Moves, TakenUp
<1>11. \A v \in Versions : Logged(v) => Logged(v)'
  BY <1>6, <1>3, <1>8 DEF Logged, Moves, Migrates
<1>12. \A s \in Runs : Active(s)' => s # r /\ Active(s)
  BY <1>6, <1>3 DEF Moves, Active
<1>13. NoSilentGap'
  BY <1>6, <1>8, <1>9, <1>11, <1>12 DEF NoSilentGap, Moves, Ahead, Migrates
<1>14. RowsOfRuns'
  BY <1>6, <1>3, <1>8, <1>9 DEF RowsOfRuns, Indexable, Moves
<1>15. WorkDone'
  BY <1>6, <1>3, <1>8, <1>9 DEF WorkDone, Moves, Migrates
<1>16. FromTheTop'
  BY <1>6, <1>8, <1>9, <1>10, <1>12 DEF FromTheTop, Moves, Ahead, Rollbacks
<1>17. RecordedMeansApplied'
  <2> SUFFICES ASSUME NEW v \in Recorded
               PROVE  \/ StrictPart(v) \subseteq objects
                      \/ \E s \in Rollbacks' : v \in TakenUp(s)'
                      \/ Migrates' # {} /\ Rollbacks' # {}
    BY <1>9 DEF RecordedMeansApplied, StrictPart
  <2>1. CASE StrictPart(v) \subseteq objects
    BY <2>1
  <2>2. CASE \E s \in Rollbacks : v \in TakenUp(s)
    <3>1. PICK s \in Rollbacks : v \in TakenUp(s)
      BY <2>2
    <3> QED
      BY <1>8, <1>10, <3>1 DEF Rollbacks
  <2>3. CASE Migrates # {} /\ Rollbacks # {}
    BY <1>8, <2>3
  <2> QED
    BY <2>1, <2>2, <2>3 DEF RecordedMeansApplied
<1>18. HolesAreReported'
  BY <1>8, <1>9, <1>11 DEF HolesAreReported, Logged
<1> QED
  BY <1>6, <1>7, <1>13, <1>14, <1>15, <1>16, <1>17, <1>18

\* A step of a migration: what the other runs rest on only grows, so the rest
\* of the invariant depends on the versions of run r alone.
LEMMA MigrateStep ==
    ASSUME HistoryInv, NEW r \in Migrates, NEW k, Moves(r, k), TypeOK',
           k.job = "migrate", run[r].done \subseteq k.done, run[r].failed \subseteq k.failed,
           objects \subseteq objects',
           \A v \in Versions : records[v] <= records'[v],
           unique' => Indexable',
           \A v \in k.done \ run[r].done : records[v] < records'[v],
           \A w \in Recorded' \ Recorded :
               run[r].pc = "work" /\ w = run[r].at /\ (Rollbacks = {} => StrictPart(w) \subseteq objects'),
           Rollbacks = {} /\ k.pc \in {"next", "work"} =>
               \A w \in Versions : k.todo[w] > 0 \/ w = k.at =>
                   \A v \in Versions : v < w /\ v \notin Recorded' /\ k.todo[v] = 0 /\ v # k.at =>
                       Logged(v) \/ v \in k.failed,
           Rollbacks = {} /\ k.pc = "work" =>
               \A c \in Touched(k.at) \ k.left : Lenient(k.at, c) \/ <<k.at, c>> \in objects'
    PROVE  HistoryInv'
<1> USE DEF HistoryInv
<1>1. r \in Runs /\ run[r].job = "migrate" /\ run' \in [Runs -> RunType] /\ run \in [Runs -> RunType]
  BY DEF Migrates, Moves, TypeOK
<1>2. Migrates' = Migrates /\ Rollbacks' = Rollbacks /\ Migrates # {}
  BY <1>1 DEF Moves, Migrates, Rollbacks
<1>3. Recorded \subseteq Recorded' /\ \A v \in Versions : records[v] \in Nat /\ records'[v] \in Nat
  BY DEF Recorded, TypeOK, Bag
<1>4. \A v \in Versions : Logged(v) => Logged(v)'
  <2>1. \A s \in Runs : run[s].failed \subseteq run'[s].failed
    BY DEF Moves
  <2> QED
    BY <1>2, <2>1 DEF Logged, Migrates
<1>5. \A v \in k.failed : Logged(v)'
  BY <1>2 DEF Logged, Moves
<1>6. InOrder'
  BY DEF InOrder, Moves
<1>7. NoSilentGap'
  <2> SUFFICES ASSUME Rollbacks = {}, NEW s \in Migrates, Active(s)',
                      NEW w \in Ahead(s)' \cup {run'[s].at}, NEW v \in Versions,
                      v < w, v \notin Recorded' \cup Ahead(s)' \cup {run'[s].at}
               PROVE  Logged(v)'
    BY <1>2 DEF NoSilentGap
  <2>1. CASE s # r
    <3>1. Active(s) /\ Ahead(s)' = Ahead(s) /\ run'[s] = run[s]
      BY <2>1 DEF Moves, Active, Ahead, Migrates
    <3> QED
      BY <1>3, <1>4, <3>1 DEF NoSilentGap
  <2>2. CASE s = r
    <3>1. k.pc \in {"next", "work"} /\ k.at \in Versions \cup {None} /\ k.todo \in Bag
      BY <2>2 DEF Active, Moves, RunType
    <3>2. w \in Versions
      BY <2>2, <3>1 DEF Ahead, Moves, None, Versions
    <3>3. k.todo[w] > 0 \/ w = k.at
      BY <2>2 DEF Ahead, Moves
    <3>4. k.todo[v] = 0 /\ v # k.at /\ v \notin Recorded'
      BY <2>2, <3>1 DEF Ahead, Moves, Bag
    <3>5. Logged(v) \/ v \in k.failed
      BY <3>1, <3>2, <3>3, <3>4
    <3> QED
      BY <1>4, <1>5, <3>5
  <2> QED
    BY <2>1, <2>2
<1>8. RowsOfRuns'
  <2> SUFFICES ASSUME Rollbacks = {}
               PROVE  /\ \A s \in Runs : run'[s].done \subseteq Recorded'
                      /\ \A s, t \in Runs : \A v \in run'[s].done \cap run'[t].done :
                             s # t => records'[v] > 1
    BY <1>2 DEF RowsOfRuns
  <2>1. \A s \in Runs : run'[s].done \subseteq Versions /\ run[s].done \subseteq Versions
    BY <1>1 DEF RunType
  <2>2. \A s \in Runs : \A v \in run[s].done : records[v] > 0 /\ records'[v] > 0
    BY <1>3, <2>1 DEF RowsOfRuns, Recorded
  <2>3. \A v \in run'[r].done \ run[r].done : records'[v] > 0
    BY <1>1, <1>3, <2>1 DEF Moves
  <2>4. \A s \in Runs : run'[s].done \subseteq Recorded'
    BY <2>1, <2>2, <2>3 DEF Moves, Recorded
  <2>5. ASSUME NEW s \in Runs, NEW t \in Runs, s # t, NEW v \in run[s].done \cap run[t].done
        PROVE  records'[v] > 1
    <3>1. records[v] > 1
      BY <2>5 DEF RowsOfRuns
    <3> QED
      BY <1>3, <2>1, <2>5, <3>1
  <2>6. ASSUME NEW s \in Runs, s # r, NEW v \in run'[r].done \cap run[s].done, v \notin run[r].done
        PROVE  records'[v] > 1
    <3>1. records[v] > 0 /\ records[v] < records'[v] /\ v \in Versions
      BY <1>1, <2>1, <2>2, <2>6 DEF Moves
    <3> QED
      BY <1>3, <3>1
  <2>7. ASSUME NEW s \in Runs, NEW t \in Runs, s # t, NEW v \in run'[s].done \cap run'[t].done
        PROVE  records'[v] > 1
    BY <2>5, <2>6, <2>7 DEF Moves
  <2> QED
    BY <2>4, <2>7
<1>9. WorkDone'
  BY <1>2 DEF WorkDone, Moves, Migrates
<1>10. FromTheTop'
  BY <1>2 DEF FromTheTop
<1>11. RecordedMeansApplied'
  <2> SUFFICES ASSUME Rollbacks = {}, NEW v \in Recorded' PROVE StrictPart(v) \subseteq objects'
    BY <1>2 DEF RecordedMeansApplied, StrictPart
  <2> QED
    BY DEF RecordedMeansApplied
<1>12. HolesAreReported'
  <2> SUFFICES ASSUME Rollbacks = {}, NEW v \in Versions, NEW w \in Recorded',
                      v < w, v \notin Recorded'
               PROVE  Logged(v)'
    BY <1>2 DEF HolesAreReported, Logged
  <2>1. CASE w \in Recorded
    BY <1>3, <1>4, <2>1 DEF HolesAreReported, Logged, Recorded
  <2>2. CASE w \notin Recorded
    <3>1. Active(r) /\ w = run[r].at /\ w \in Versions /\ Orderly(run[r])
      BY <1>1, <2>2 DEF Active, InOrder, Recorded
    <3>2. v \notin Ahead(r)
      BY <1>1, <3>1 DEF Ahead, Orderly, Versions
    <3>3. Logged(v)
      BY <1>3, <3>1, <3>2 DEF NoSilentGap, Versions
    <3> QED
      BY <1>4, <3>3
  <2> QED
    BY <2>1, <2>2
<1> QED
  BY <1>6, <1>7, <1>8, <1>9, <1>10, <1>11, <1>12

\* A step of a rollback: what it takes away belongs to versions it has taken
\* up, and nothing is claimed of what migrations do beside a rollback.
LEMMA RollbackStep ==
    ASSUME HistoryInv, NEW r \in Rollbacks, NEW k, Moves(r, k), TypeOK',
           k.job = "rollback",
           TakenUp(r) \subseteq k.done \cup k.failed \cup {k.at},
           \A v \in Versions : records'[v] <= records[v],
           unique' => Indexable',
           \A v \in Recorded : StrictPart(v) \subseteq objects => StrictPart(v) \subseteq objects' \/ Migrates # {}
               \/ v \in TakenUp(r),
           Migrates = {} /\ k.pc \in {"next", "work"} =>
               \A v \in Versions : k.todo[v] > 0 \/ v = k.at =>
                   \A w \in Recorded' : v < w => k.todo[w] > 0 \/ w \in k.done \cup k.failed \cup {k.at}
    PROVE  HistoryInv'
<1> USE DEF HistoryInv
<1>1. r \in Runs /\ run[r].job = "rollback" /\ run' \in [Runs -> RunType] /\ run \in [Runs -> RunType]
  BY DEF Rollbacks, Moves, TypeOK
<1>2. Migrates' = Migrates /\ Rollbacks' = Rollbacks /\ Rollbacks # {}
  BY <1>1 DEF Moves, Migrates, Rollbacks
<1>3. Recorded' \subseteq Recorded /\ \A v \in Versions : records[v] \in Nat /\ records'[v] \in Nat
  BY DEF Recorded, TypeOK, Bag
<1>4. \A s \in Runs : TakenUp(s) \subseteq TakenUp(s)'
  BY DEF Moves, TakenUp
<1>5. InOrder'
  BY DEF InOrder, Moves
<1>6. NoSilentGap' /\ WorkDone' /\ HolesAreReported' /\ RowsOfRuns'
  BY <1>2 DEF NoSilentGap, WorkDone, HolesAreReported, RowsOfRuns
<1>7. FromTheTop'
  <2> SUFFICES ASSUME Migrates = {}, NEW s \in Rollbacks, Active(s)',
                      NEW v \in Ahead(s)' \cup ({run'[s].at} \ {None}), NEW w \in Recorded', v < w
               PROVE  w \in Ahead(s)' \cup TakenUp(s)'
    BY <1>2 DEF FromTheTop
  <2>1. CASE s # r
    <3>1. Active(s) /\ Ahead(s)' = Ahead(s) /\ run'[s] = run[s] /\ s \in Runs
      BY <2>1 DEF Moves, Active, Ahead, Rollbacks
    <3> QED
      BY <1>3, <1>4, <3>1 DEF FromTheTop
  <2>2. CASE s = r
    <3>1. k.pc \in {"next", "work"} /\ k.at \in Versions \cup {None} /\ k.todo \in Bag
      BY <2>2 DEF Active, Moves, RunType
    <3>2. v \in Versions /\ w \in Versions /\ (k.todo[v] > 0 \/ v = k.at)
      BY <2>2, <3>1 DEF Ahead, Moves, Recorded
    <3>3. k.todo[w] > 0 \/ w \in k.done \cup k.failed \cup {k.at}
      BY <3>1, <3>2
    <3>4. w # None
      BY <3>2 DEF Versions, None
    <3> QED
      BY <2>2, <3>2, <3>3, <3>4 DEF Ahead, TakenUp, Moves
  <2> QED
    BY <2>1, <2>2
<1>8. RecordedMeansApplied'
  <2> SUFFICES ASSUME NEW v \in Recorded, Migrates = {}
               PROVE  \/ StrictPart(v) \subseteq objects'
                      \/ \E s \in Rollbacks : v \in TakenUp(s)'
    BY <1>2, <1>3 DEF RecordedMeansApplied, StrictPart
  <2>1. CASE StrictPart(v) \subseteq objects
    BY <1>1, <1>4, <2>1
  <2>2. CASE \E s \in Rollbacks : v \in TakenUp(s)
    <3>1. PICK s \in Rollbacks : v \in TakenUp(s)
      BY <2>2
    <3> QED
      BY <1>4, <3>1 DEF Rollbacks
  <2> QED
    BY <2>1, <2>2 DEF RecordedMeansApplied
<1> QED
  BY <1>5, <1>6, <1>7, <1>8

\* What a step that neither touches the database nor closes a version must say.
LEMMA LocalStep ==
    ASSUME HistoryInv, NEW r \in Runs, NEW k, Moves(r, k), TypeOK',
           run[r].pc # "new", k.job = run[r].job, k.done = run[r].done,
           run[r].failed \subseteq k.failed, TakenUp(r) \subseteq k.done \cup k.failed \cup {k.at},
           objects' = objects, records' = records, unique' => unique \/ Indexable,
           k.pc \in {"next", "work"} =>
               /\ Active(r)
               /\ \A v \in Versions :
                      /\ k.todo[v] > 0 \/ v = k.at => run[r].todo[v] > 0 \/ v = run[r].at
                      /\ run[r].todo[v] > 0 \/ v = run[r].at =>
                             k.todo[v] > 0 \/ v \in k.failed \cup {k.at},
           k.pc = "work" =>
               \A c \in Touched(k.at) \ k.left :
                   run[r].pc = "work" /\ k.at = run[r].at /\
                      (c \notin run[r].left \/ (run[r].job = "migrate" => Lenient(k.at, c)))
    PROVE  HistoryInv'
<1> USE DEF HistoryInv
<1>1. run[r].job \in {"migrate", "rollback"} /\ run[r] \in RunType /\ Orderly(run[r])
  BY DEF TypeOK, RunType, InOrder, Orderly
<1>2. Recorded' = Recorded /\ (unique' => Indexable')
  BY DEF Recorded, RowsOfRuns, Indexable
<1>3. CASE run[r].job = "migrate"
  <2>1. r \in Migrates
    BY <1>3 DEF Migrates
  <2>2. ASSUME Rollbacks = {}, k.pc \in {"next", "work"}, NEW w \in Versions, k.todo[w] > 0 \/ w = k.at,
               NEW v \in Versions, v < w, v \notin Recorded', k.todo[v] = 0, v # k.at
        PROVE  Logged(v) \/ v \in k.failed
    <3>1. w \in Ahead(r) \cup {run[r].at} /\ Active(r)
      BY <2>2 DEF Ahead
    <3>2. v \in Ahead(r) \cup {run[r].at} => v \in k.failed
      BY <2>2 DEF Ahead
    <3> QED
      BY <1>2, <2>1, <2>2, <3>1, <3>2 DEF NoSilentGap
  <2>3. ASSUME Rollbacks = {}, k.pc = "work", NEW c \in Touched(k.at) \ k.left
        PROVE  Lenient(k.at, c) \/ <<k.at, c>> \in objects'
    BY <1>3, <2>1, <2>3 DEF WorkDone
  <2>4. \A v \in Versions : records[v] <= records'[v]
    BY DEF TypeOK, Bag
  <2> QED
    BY <1>2, <1>3, <2>1, <2>2, <2>3, <2>4, MigrateStep
<1>4. CASE run[r].job = "rollback"
  <2>1. r \in Rollbacks
    BY <1>4 DEF Rollbacks
  <2>2. ASSUME Migrates = {}, k.pc \in {"next", "work"}, NEW v \in Versions, k.todo[v] > 0 \/ v = k.at,
               NEW w \in Recorded', v < w
        PROVE  k.todo[w] > 0 \/ w \in k.done \cup k.failed \cup {k.at}
    <3>1. v \in Ahead(r) \cup ({run[r].at} \ {None}) /\ Active(r) /\ w \in Recorded /\ w \in Versions
      BY <1>2, <2>2 DEF Ahead, Recorded, Versions, None
    <3>2. w \in Ahead(r) \cup TakenUp(r)
      BY <2>1, <2>2, <3>1 DEF FromTheTop
    <3> QED
      BY <2>2, <3>1, <3>2 DEF Ahead
  <2>3. \A v \in Versions : records'[v] <= records[v]
    BY DEF TypeOK, Bag
  <2> QED
    BY <1>2, <1>4, <2>1, <2>2, <2>3, RollbackStep
<1> QED
  BY <1>1, <1>3, <1>4

LEMMA IndexType == ASSUME TypeOK, EnsureIndex
                   PROVE  unique' \in BOOLEAN /\ faults' \in 0 .. MaxFaults /\ (unique' => unique \/ Indexable)
<1>1. faults' \in 0 .. MaxFaults
  BY DEF TypeOK, EnsureIndex
<1>2. unique' \in BOOLEAN /\ (unique' => unique \/ Indexable)
  <2>1. Indexable \in BOOLEAN /\ unique \in BOOLEAN
    BY DEF TypeOK, Indexable
  <2>2. unique' = unique \/ unique' = (unique \/ Indexable)
    BY DEF EnsureIndex
  <2> QED
    BY <2>1, <2>2
<1> QED
  BY <1>1, <1>2

LEMMA EnsureHistory == ASSUME HistoryInv, NEW r \in Runs, Ensure(r) PROVE HistoryInv'
<1> DEFINE k == [run[r] EXCEPT !.pc = "read"]
<1>1. TypeOK /\ run[r] \in RunType /\ run \in [Runs -> RunType] /\ Orderly(run[r])
  BY DEF HistoryInv, TypeOK, InOrder
<1>2. k \in RunType
  BY <1>1 DEF RunType
<1>3. /\ k.pc = "read" /\ k.job = run[r].job /\ k.at = run[r].at /\ k.todo = run[r].todo
      /\ k.done = run[r].done /\ k.failed = run[r].failed /\ run[r].pc = "ensure"
  BY <1>1 DEF Ensure, RunType
<1>4. Orderly(k)
  BY <1>1, <1>3 DEF Orderly
<1>5. run' = [run EXCEPT ![r] = k]
  BY DEF Ensure
<1> HIDE DEF k
<1>6. Moves(r, k)
  BY <1>1, <1>2, <1>4, <1>5 DEF Moves
<1>7. TypeOK'
  BY <1>1, <1>6, IndexType DEF TypeOK, Ensure, Moves
<1>8. objects' = objects /\ records' = records /\ (unique' => unique \/ Indexable)
  BY <1>1, IndexType DEF Ensure
<1>9. TakenUp(r) \subseteq k.done \cup k.failed \cup {k.at}
  BY <1>3 DEF TakenUp
<1> QED
  BY <1>3, <1>6, <1>7, <1>8, <1>9, LocalStep

LEMMA FinishHistory == ASSUME HistoryInv, NEW r \in Runs, Finish(r) PROVE HistoryInv'
<1> DEFINE k == [run[r] EXCEPT !.pc = "done"]
<1>1. TypeOK /\ run[r] \in RunType /\ run \in [Runs -> RunType] /\ Orderly(run[r])
  BY DEF HistoryInv, TypeOK, InOrder
<1>2. k \in RunType
  BY <1>1 DEF RunType
<1>3. /\ k.pc = "done" /\ k.job = run[r].job /\ k.at = run[r].at /\ k.todo = run[r].todo
      /\ k.done = run[r].done /\ k.failed = run[r].failed /\ run[r].pc = "next"
  BY <1>1 DEF Finish, RunType
<1>4. Orderly(k)
  BY <1>1, <1>3 DEF Orderly
<1>5. run' = [run EXCEPT ![r] = k]
  BY DEF Finish
<1> HIDE DEF k
<1>6. Moves(r, k)
  BY <1>1, <1>2, <1>4, <1>5 DEF Moves
<1>7. TypeOK'
  BY <1>1, <1>6, IndexType DEF TypeOK, Finish, Moves
<1>8. objects' = objects /\ records' = records /\ (unique' => unique \/ Indexable)
  BY <1>1, IndexType DEF Finish
<1>9. TakenUp(r) \subseteq k.done \cup k.failed \cup {k.at}
  BY <1>3 DEF TakenUp
<1> QED
  BY <1>3, <1>6, <1>7, <1>8, <1>9, LocalStep

LEMMA DieHistory == ASSUME HistoryInv, NEW r \in Runs, Die(r) PROVE HistoryInv'
<1> DEFINE k == [run[r] EXCEPT !.pc = "dead", !.left = {}, !.todo = NoVersions]
<1>1. TypeOK /\ run[r] \in RunType /\ run \in [Runs -> RunType] /\ Orderly(run[r])
  BY DEF HistoryInv, TypeOK, InOrder
<1>2. k \in RunType
  BY <1>1 DEF RunType, NoVersions, Bag
<1>3. /\ k.pc = "dead" /\ k.job = run[r].job /\ k.at = run[r].at /\ k.todo = NoVersions
      /\ k.done = run[r].done /\ k.failed = run[r].failed /\ run[r].pc \notin {"new", "done", "dead"}
  BY <1>1 DEF Die, RunType
<1>4. Orderly(k)
  BY <1>1, <1>3 DEF Orderly, NoVersions
<1>5. run' = [run EXCEPT ![r] = k]
  BY DEF Die
<1> HIDE DEF k
<1>6. Moves(r, k)
  BY <1>1, <1>2, <1>4, <1>5 DEF Moves
<1>7. TypeOK'
  BY <1>1, <1>6 DEF TypeOK, Die, Moves
<1>8. objects' = objects /\ records' = records /\ (unique' => unique \/ Indexable)
  BY DEF Die
<1>9. TakenUp(r) \subseteq k.done \cup k.failed \cup {k.at}
  BY <1>3 DEF TakenUp
<1> QED
  BY <1>3, <1>6, <1>7, <1>8, <1>9, LocalStep

\* The next version of the list is the lowest for a migration, the highest for
\* a rollback.
LEMMA TakeHistory == ASSUME HistoryInv, NEW r \in Runs, Take(r) PROVE HistoryInv'
<1>1. TypeOK /\ run[r] \in RunType /\ run \in [Runs -> RunType] /\ Orderly(run[r])
  BY DEF HistoryInv, TypeOK, InOrder
<1>2. PICK v \in Versions :
          /\ IsFirst(v, run[r])
          /\ run' = [run EXCEPT ![r].pc = "work", ![r].at = v, ![r].left = Touched(v),
                                ![r].todo = Without(run[r].todo, v)]
  BY DEF Take
<1> DEFINE rest == Without(run[r].todo, v)
           k == [run[r] EXCEPT !.pc = "work", !.at = v, !.left = Touched(v), !.todo = rest]
<1>3. run[r].todo \in Bag /\ run[r].todo[v] \in Nat \ {0}
  BY <1>1, <1>2 DEF RunType, IsFirst, Bag
<1>4. rest \in Bag /\ rest[v] = run[r].todo[v] - 1 /\ \A w \in Versions : w # v => rest[w] = run[r].todo[w]
  BY <1>3 DEF Bag, Without
<1>5. run' = [run EXCEPT ![r] = k]
  BY <1>2
<1> HIDE DEF rest
<1>6. k \in RunType
  BY <1>1, <1>4 DEF RunType, Touched
<1>7. /\ k.pc = "work" /\ k.job = run[r].job /\ k.at = v /\ k.todo = rest /\ k.left = Touched(v)
      /\ k.done = run[r].done /\ k.failed = run[r].failed /\ run[r].pc = "next" /\ run[r].at = None
  BY <1>1 DEF Take, RunType, Orderly
<1> HIDE DEF k
<1>8. Orderly(k)
  <2>1. v # None /\ k.job # "none"
    BY <1>1, <1>7 DEF Versions, None, Orderly
  <2>2. ASSUME NEW w \in Versions, k.todo[w] > 0
        PROVE  /\ k.job = "migrate" => k.todo[w] = 1 /\ k.at < w
               /\ k.job = "rollback" /\ k.at # None => w <= k.at
    <3>1. run[r].todo[w] > 0
      BY <1>3, <1>4, <1>7, <2>2
    <3>2. CASE w # v
      BY <1>1, <1>2, <1>4, <1>7, <3>1, <3>2 DEF Orderly, IsFirst, Versions
    <3>3. CASE w = v
      BY <1>1, <1>3, <1>4, <1>7, <2>2, <3>1, <3>3 DEF Orderly, Versions
    <3> QED
      BY <3>2, <3>3
  <2> QED
    BY <1>7, <2>1, <2>2 DEF Orderly
<1>9. Moves(r, k)
  BY <1>1, <1>5, <1>6, <1>8 DEF Moves
<1>10. TypeOK'
  BY <1>1, <1>9 DEF TypeOK, Take, Moves
<1>11. objects' = objects /\ records' = records /\ (unique' => unique \/ Indexable)
  BY DEF Take
<1>12. TakenUp(r) \subseteq k.done \cup k.failed \cup {k.at} /\ Active(r)
  BY <1>7 DEF TakenUp, Active
<1>13. ASSUME NEW w \in Versions
       PROVE  k.todo[w] > 0 \/ w = k.at <=> run[r].todo[w] > 0 \/ w = run[r].at
  BY <1>3, <1>4, <1>7 DEF Versions, None
<1> QED
  BY <1>7, <1>9, <1>10, <1>11, <1>12, <1>13, LocalStep

\* A migration lists what is above the newest row: whatever it leaves out
\* below is recorded, or a gap that was there and has been logged.
LEMMA ReadVersionHistory == ASSUME HistoryInv, NEW r \in Runs, ReadVersion(r) PROVE HistoryInv'
<1> DEFINE list == [v \in Versions |-> IF IsPending(v, run[r].goal) THEN 1 ELSE 0]
           k == [run[r] EXCEPT !.pc = "next", !.todo = list]
<1>1. TypeOK /\ run[r] \in RunType /\ run \in [Runs -> RunType] /\ Orderly(run[r])
  BY DEF HistoryInv, TypeOK, InOrder
<1>2. list \in Bag /\ \A v \in Versions : /\ list[v] > 0 <=> IsPending(v, run[r].goal)
                                         /\ list[v] \in {0, 1}
  BY DEF Bag
<1>3. run' = [run EXCEPT ![r] = k]
  BY DEF ReadVersion
<1> HIDE DEF list
<1>4. k \in RunType
  BY <1>1, <1>2 DEF RunType
<1>5. /\ k.pc = "next" /\ k.job = "migrate" /\ k.at = None /\ k.todo = list /\ run[r].job = "migrate"
      /\ k.done = run[r].done /\ k.failed = run[r].failed /\ run[r].goal \in Nat
  BY <1>1 DEF ReadVersion, RunType, Orderly
<1> HIDE DEF k
<1>6. Orderly(k)
  BY <1>2, <1>5 DEF Orderly, None, Versions
<1>7. Moves(r, k)
  BY <1>1, <1>3, <1>4, <1>6 DEF Moves
<1>8. TypeOK'
  BY <1>1, <1>7 DEF TypeOK, ReadVersion, Moves
<1>9. /\ objects' = objects /\ records' = records /\ unique' = unique /\ r \in Migrates
      /\ Recorded' = Recorded /\ (unique' => Indexable') /\ \A v \in Versions : records[v] <= records'[v]
  BY <1>1, <1>5 DEF ReadVersion, Recorded, Indexable, HistoryInv, RowsOfRuns, Migrates, TypeOK, Bag
<1>10. ASSUME Rollbacks = {}, NEW w \in Versions, k.todo[w] > 0 \/ w = k.at,
              NEW v \in Versions, v < w, v \notin Recorded', k.todo[v] = 0
       PROVE  Logged(v)
  <2>1. IsPending(w, run[r].goal) /\ ~ IsPending(v, run[r].goal)
    BY <1>2, <1>5, <1>10 DEF Versions, None
  <2>2. PICK u \in Recorded : ~(u < v)
    BY <1>5, <1>10, <2>1 DEF IsPending, Versions
  <2>3. u \in Versions /\ v < u
    BY <1>9, <1>10, <2>2 DEF Recorded, Versions
  <2> QED
    BY <1>9, <1>10, <2>2, <2>3 DEF HistoryInv, HolesAreReported, Logged
<1> QED
  BY <1>5, <1>7, <1>8, <1>9, <1>10, MigrateStep

\* A rollback lists the newest rows: what is recorded above them is listed too.
LEMMA ReadHistoryHistory == ASSUME HistoryInv, NEW r \in Runs, ReadHistory(r) PROVE HistoryInv'
<1>1. TypeOK /\ run[r] \in RunType /\ run \in [Runs -> RunType] /\ Orderly(run[r])
  BY DEF HistoryInv, TypeOK, InOrder
<1>2. PICK todo \in [Versions -> 0 .. 4] :
          /\ IsNewest(todo, run[r].goal)
          /\ run' = [run EXCEPT ![r].pc = "next", ![r].todo = todo]
  BY DEF ReadHistory
<1> DEFINE k == [run[r] EXCEPT !.pc = "next", !.todo = todo]
<1>3. run' = [run EXCEPT ![r] = k]
  BY <1>2
<1>4. k \in RunType
  <2>1. todo \in Bag
    BY <1>2 DEF Bag
  <2> QED
    BY <1>1, <2>1 DEF RunType
<1>5. /\ k.pc = "next" /\ k.job = "rollback" /\ k.at = None /\ k.todo = todo /\ run[r].job = "rollback"
      /\ k.done = {} /\ k.failed = {} /\ run[r].done = {} /\ run[r].failed = {} /\ run[r].at = None
  BY <1>1 DEF ReadHistory, RunType, Orderly
<1> HIDE DEF k
<1>6. Orderly(k)
  BY <1>2, <1>5 DEF Orderly, None
<1>7. Moves(r, k)
  BY <1>1, <1>3, <1>4, <1>6 DEF Moves
<1>8. TypeOK'
  BY <1>1, <1>7 DEF TypeOK, ReadHistory, Moves
<1>9. /\ objects' = objects /\ records' = records /\ unique' = unique /\ r \in Rollbacks
      /\ Recorded' = Recorded /\ (unique' => Indexable') /\ \A v \in Versions : records'[v] <= records[v]
  BY <1>1, <1>5 DEF ReadHistory, Recorded, Indexable, HistoryInv, RowsOfRuns, Rollbacks, TypeOK, Bag
<1>10. TakenUp(r) = {}
  BY <1>5 DEF TakenUp
<1>11. ASSUME NEW v \in Versions, k.todo[v] > 0 \/ v = k.at, NEW w \in Recorded', v < w
       PROVE  k.todo[w] > 0
  BY <1>2, <1>5, <1>9, <1>11 DEF IsNewest, Recorded, Versions, None
<1> QED
  BY <1>5, <1>7, <1>8, <1>9, <1>10, <1>11, RollbackStep

\* down() of a version touches nothing of the older ones.
LEMMA DropsUpwards == ASSUME NEW v \in Versions, NEW c \in Collections, NEW w \in Versions, NEW d, w < v
                      PROVE  <<w, d>> \notin Drops(v, c)
  BY DEF Drops, DropCollection, DropIndexes, DropOwn, Versions

LEMMA WorkHistory ==
    ASSUME HistoryInv, NEW r \in Runs, NEW c \in Collections, Work(r, c) PROVE HistoryInv'
<1> DEFINE k == [run[r] EXCEPT !.left = @ \ {c}]
<1>1. TypeOK /\ run[r] \in RunType /\ run \in [Runs -> RunType] /\ Orderly(run[r])
  BY DEF HistoryInv, TypeOK, InOrder
<1>2. run' = [run EXCEPT ![r] = k]
  BY DEF Work
<1>3. k \in RunType
  BY <1>1 DEF RunType
<1>4. /\ k.pc = "work" /\ run[r].pc = "work" /\ k.job = run[r].job /\ k.at = run[r].at
      /\ k.todo = run[r].todo /\ k.left = run[r].left \ {c} /\ k.done = run[r].done
      /\ k.failed = run[r].failed
  BY <1>1 DEF Work, RunType
<1>5. k.at \in Versions /\ k.job \in {"migrate", "rollback"}
  BY <1>1, <1>4 DEF Orderly, RunType
<1> HIDE DEF k
<1>6. Orderly(k)
  BY <1>1, <1>4 DEF Orderly
<1>7. Moves(r, k)
  BY <1>1, <1>2, <1>3, <1>6 DEF Moves
<1>8. objects' \subseteq Versions \X Collections
  <2>1. Creates(k.at, c) \subseteq Versions \X Collections
    BY <1>5 DEF Creates, Versions
  <2> QED
    BY <1>1, <1>4, <2>1 DEF Work, TypeOK
<1>9. TypeOK'
  BY <1>1, <1>7, <1>8 DEF TypeOK, Work, Moves
<1>10. /\ records' = records /\ unique' = unique /\ Recorded' = Recorded /\ (unique' => Indexable')
       /\ \A v \in Versions : records[v] <= records'[v] /\ records'[v] <= records[v]
  BY <1>1 DEF Work, Recorded, Indexable, HistoryInv, RowsOfRuns, TypeOK, Bag
<1>11. Active(r)
  BY <1>4 DEF Active
<1>12. CASE k.job = "migrate"
  <2>1. r \in Migrates /\ objects' = objects \cup Creates(k.at, c)
    BY <1>4, <1>12 DEF Migrates, Work
  <2>2. ASSUME Rollbacks = {}, NEW w \in Versions, k.todo[w] > 0 \/ w = k.at,
               NEW v \in Versions, v < w, v \notin Recorded', k.todo[v] = 0, v # k.at
        PROVE  Logged(v)
    BY <1>4, <1>10, <1>11, <2>1, <2>2 DEF HistoryInv, NoSilentGap, Ahead
  <2>3. ASSUME Rollbacks = {}, NEW d \in Touched(k.at) \ k.left
        PROVE  Lenient(k.at, d) \/ <<k.at, d>> \in objects'
    BY <1>4, <2>1, <2>3 DEF HistoryInv, WorkDone, Creates
  <2> QED
    BY <1>4, <1>7, <1>9, <1>10, <1>12, <2>1, <2>2, <2>3, MigrateStep
<1>13. CASE k.job = "rollback"
  <2>1. r \in Rollbacks /\ objects' = objects \ Drops(k.at, c)
    BY <1>4, <1>13 DEF Rollbacks, Work
  <2>2. ASSUME NEW v \in Recorded, StrictPart(v) \subseteq objects, Migrates = {}, v \notin TakenUp(r)
        PROVE  StrictPart(v) \subseteq objects'
    <3>1. v \in Versions /\ v # k.at
      BY <1>4, <1>5, <2>2 DEF Recorded, TakenUp, Versions, None
    <3>2. ~(k.at < v)
      <4>1. ASSUME k.at < v PROVE v \in Ahead(r)
        BY <1>4, <1>5, <1>11, <2>1, <2>2, <4>1 DEF HistoryInv, FromTheTop, Versions, None
      <4>2. v \in Ahead(r) => v <= k.at
        BY <1>1, <1>4, <1>5, <1>13, <3>1 DEF Ahead, Orderly, Versions, None
      <4> QED
        BY <1>5, <3>1, <4>1, <4>2 DEF Versions
    <3>3. v < k.at
      BY <1>5, <3>1, <3>2 DEF Versions
    <3> QED
      BY <1>5, <2>1, <2>2, <3>1, <3>3, DropsUpwards DEF StrictPart
  <2>3. ASSUME Migrates = {}, NEW v \in Versions, k.todo[v] > 0 \/ v = k.at, NEW w \in Recorded', v < w
        PROVE  k.todo[w] > 0 \/ w \in k.done \cup k.failed \cup {k.at}
    <3>1. v \in Ahead(r) \cup ({run[r].at} \ {None}) /\ w \in Recorded /\ w \in Versions
      BY <1>4, <1>10, <2>3 DEF Ahead, Recorded, Versions, None
    <3>2. w \in Ahead(r) \cup TakenUp(r)
      BY <1>11, <2>1, <2>3, <3>1 DEF HistoryInv, FromTheTop
    <3> QED
      BY <1>4, <3>2 DEF Ahead, TakenUp
  <2>4. TakenUp(r) \subseteq k.done \cup k.failed \cup {k.at}
    BY <1>4 DEF TakenUp
  <2> QED
    BY <1>7, <1>9, <1>10, <1>13, <2>1, <2>2, <2>3, <2>4, RollbackStep
<1> QED
  BY <1>5, <1>12, <1>13

\* The two ways a version is closed.
FailedRun(r) == [run[r] EXCEPT !.pc = "next", !.at = None, !.left = {},
                               !.failed = @ \cup {run[r].at}]
SucceededRun(r) == [run[r] EXCEPT !.pc = "next", !.at = None,
                                  !.done = @ \cup {run[r].at}]

LEMMA FailFacts ==
    ASSUME TypeOK, InOrder, NEW r \in Runs, Fail(r), run[r].pc = "work",
           NEW k, k = FailedRun(r)
    PROVE  /\ Moves(r, k) /\ run[r].at \in Versions /\ Active(r)
           /\ k.pc = "next" /\ k.job = run[r].job /\ k.at = None /\ k.todo = run[r].todo
           /\ k.done = run[r].done /\ k.failed = run[r].failed \cup {run[r].at}
<1>1. run[r] \in RunType /\ run \in [Runs -> RunType] /\ Orderly(run[r])
  BY DEF TypeOK, InOrder
<1>2. run[r].at \in Versions
  BY <1>1 DEF Orderly, RunType
<1>3. run' = [run EXCEPT ![r] = k]
  BY DEF Fail, FailedRun
<1>4. k \in RunType
  BY <1>1, <1>2 DEF FailedRun, RunType
<1>5. /\ k.pc = "next" /\ k.job = run[r].job /\ k.at = None /\ k.todo = run[r].todo
      /\ k.done = run[r].done /\ k.failed = run[r].failed \cup {run[r].at}
  BY <1>1 DEF FailedRun, RunType
<1>6. Orderly(k)
  BY <1>1, <1>2, <1>4, <1>5 DEF Orderly, RunType, Bag, Versions, None
<1> QED
  BY <1>1, <1>2, <1>3, <1>4, <1>5, <1>6 DEF Moves, Active

LEMMA SucceedFacts ==
    ASSUME TypeOK, InOrder, NEW r \in Runs, Succeed(r), run[r].pc = "work", run[r].left = {},
           NEW k, k = SucceededRun(r)
    PROVE  /\ Moves(r, k) /\ run[r].at \in Versions /\ Active(r)
           /\ k.pc = "next" /\ k.job = run[r].job /\ k.at = None /\ k.todo = run[r].todo
           /\ k.done = run[r].done \cup {run[r].at} /\ k.failed = run[r].failed
<1>1. run[r] \in RunType /\ run \in [Runs -> RunType] /\ Orderly(run[r])
  BY DEF TypeOK, InOrder
<1>2. run[r].at \in Versions
  BY <1>1 DEF Orderly, RunType
<1>3. run' = [run EXCEPT ![r] = k]
  BY DEF Succeed, SucceededRun
<1>4. k \in RunType
  BY <1>1, <1>2 DEF SucceededRun, RunType
<1>5. /\ k.pc = "next" /\ k.job = run[r].job /\ k.at = None /\ k.todo = run[r].todo
      /\ k.done = run[r].done \cup {run[r].at} /\ k.failed = run[r].failed
  BY <1>1 DEF SucceededRun, RunType
<1>6. Orderly(k)
  BY <1>1, <1>2, <1>4, <1>5 DEF Orderly, RunType, Bag, Versions, None
<1> QED
  BY <1>1, <1>2, <1>3, <1>4, <1>5, <1>6 DEF Moves, Active

LEMMA FailHistory ==
    ASSUME HistoryInv, NEW r \in Runs, run[r].pc = "work", Fail(r), faults' \in 0 .. MaxFaults,
           UNCHANGED <<objects, records, unique>>
    PROVE  HistoryInv'
<1> DEFINE k == FailedRun(r)
<1> HIDE DEF k
<1>1. TypeOK /\ InOrder /\ k = FailedRun(r)
  BY DEF HistoryInv, k
<1>2. /\ Moves(r, k) /\ run[r].at \in Versions /\ Active(r)
      /\ k.pc = "next" /\ k.job = run[r].job /\ k.at = None /\ k.todo = run[r].todo
      /\ k.done = run[r].done /\ k.failed = run[r].failed \cup {run[r].at}
  BY <1>1, FailFacts
<1>3. TypeOK'
  BY <1>1, <1>2 DEF TypeOK, Moves
<1>4. TakenUp(r) \subseteq k.done \cup k.failed \cup {k.at}
  BY <1>2 DEF TakenUp
<1>5. ASSUME NEW v \in Versions
      PROVE  /\ k.todo[v] > 0 \/ v = k.at => run[r].todo[v] > 0 \/ v = run[r].at
             /\ run[r].todo[v] > 0 \/ v = run[r].at => k.todo[v] > 0 \/ v \in k.failed \cup {k.at}
  BY <1>2 DEF Versions, None
<1> QED
  BY <1>2, <1>3, <1>4, <1>5, LocalStep

LEMMA WorkFailsHistory ==
    ASSUME HistoryInv, NEW r \in Runs, NEW c \in Collections, WorkFails(r, c) PROVE HistoryInv'
<1>1. CASE run[r].job = "migrate" /\ ~Lenient(run[r].at, c)
  <2>1. faults' \in 0 .. MaxFaults
    BY DEF WorkFails, HistoryInv, TypeOK
  <2> QED
    BY <1>1, <2>1, FailHistory DEF WorkFails
<1>2. CASE ~(run[r].job = "migrate" /\ ~Lenient(run[r].at, c))
  <2> DEFINE k == [run[r] EXCEPT !.left = @ \ {c}]
  <2>1. TypeOK /\ run[r] \in RunType /\ run \in [Runs -> RunType] /\ Orderly(run[r])
    BY DEF HistoryInv, TypeOK, InOrder
  <2>2. run' = [run EXCEPT ![r] = k]
    BY <1>2 DEF WorkFails
  <2>3. k \in RunType
    BY <2>1 DEF RunType
  <2>4. /\ k.pc = "work" /\ run[r].pc = "work" /\ k.job = run[r].job /\ k.at = run[r].at
        /\ k.todo = run[r].todo /\ k.left = run[r].left \ {c} /\ k.done = run[r].done
        /\ k.failed = run[r].failed
    BY <2>1 DEF WorkFails, RunType
  <2> HIDE DEF k
  <2>5. Orderly(k)
    BY <2>1, <2>4 DEF Orderly
  <2>6. Moves(r, k)
    BY <2>1, <2>2, <2>3, <2>5 DEF Moves
  <2>7. TypeOK'
    BY <2>1, <2>6 DEF TypeOK, WorkFails, Moves
  <2>8. TakenUp(r) \subseteq k.done \cup k.failed \cup {k.at} /\ Active(r)
    BY <2>4 DEF TakenUp, Active
  <2>9. objects' = objects /\ records' = records /\ unique' = unique
    BY DEF WorkFails
  <2>10. ASSUME NEW d \in Touched(k.at) \ k.left
         PROVE  d \notin run[r].left \/ (run[r].job = "migrate" => Lenient(k.at, d))
    BY <1>2, <2>4, <2>10
  <2> QED
    BY <2>4, <2>6, <2>7, <2>8, <2>9, <2>10, LocalStep
<1> QED
  BY <1>1, <1>2

LEMMA AddRowFacts ==
    ASSUME TypeOK, RowsOfRuns, NEW v \in Versions, AddRow(v), ~Duplicate(v), unique' = unique
    PROVE  /\ records' \in Bag /\ records'[v] = records[v] + 1 /\ records[v] \in Nat
           /\ \A w \in Versions : records[w] <= records'[w]
           /\ Recorded' = Recorded \cup {v}
           /\ unique' => Indexable'
<1>1. records \in Bag
  BY DEF TypeOK
<1>2. /\ records' \in Bag /\ records'[v] = records[v] + 1 /\ records[v] \in Nat
      /\ \A w \in Versions : records[w] \in Nat /\ (w # v => records'[w] = records[w])
  BY <1>1 DEF AddRow, Bag
<1>3. \A w \in Versions : records[w] <= records'[w]
  BY <1>2
<1>4. Recorded' = Recorded \cup {v}
  BY <1>2 DEF Recorded
<1>5. unique' => Indexable'
  BY <1>2 DEF RowsOfRuns, Indexable, Duplicate
<1> QED
  BY <1>2, <1>3, <1>4, <1>5

\* A migration records the version it is at, and reports it one way or another:
\* all collections are done, so what the row claims is there.
LEMMA CloseMigration ==
    ASSUME HistoryInv, NEW r \in Migrates, run[r].pc = "work", run[r].left = {},
           ~Duplicate(run[r].at), AddRow(run[r].at), faults' \in 0 .. MaxFaults,
           UNCHANGED <<objects, unique>>,
           NEW k, Moves(r, k), run[r].at \in Versions, Active(r),
           k.pc = "next", k.job = run[r].job, k.at = None, k.todo = run[r].todo,
           run[r].done \subseteq k.done, k.done \subseteq run[r].done \cup {run[r].at},
           run[r].failed \subseteq k.failed
    PROVE  HistoryInv'
<1> DEFINE at == run[r].at
<1>1. TypeOK /\ RowsOfRuns /\ at \in Versions /\ AddRow(at) /\ ~Duplicate(at) /\ unique' = unique
  BY DEF HistoryInv
<1>2. /\ records' \in Bag /\ records'[at] = records[at] + 1 /\ records[at] \in Nat
      /\ \A w \in Versions : records[w] <= records'[w]
      /\ Recorded' = Recorded \cup {at} /\ (unique' => Indexable')
  BY <1>1, AddRowFacts
<1>3. TypeOK'
  BY <1>1, <1>2 DEF TypeOK, Moves
<1>4. \A v \in k.done \ run[r].done : records[v] < records'[v]
  BY <1>2
<1>5. ASSUME Rollbacks = {}
      PROVE  StrictPart(at) \subseteq objects'
  <2>1. \A c \in Touched(at) : Lenient(at, c) \/ <<at, c>> \in objects
    BY <1>5 DEF HistoryInv, WorkDone
  <2> QED
    BY <2>1 DEF StrictPart
<1>6. ASSUME Rollbacks = {}, NEW w \in Versions, k.todo[w] > 0 \/ w = k.at,
             NEW v \in Versions, v < w, v \notin Recorded', k.todo[v] = 0
      PROVE  Logged(v)
  <2>1. w \in Ahead(r) /\ v \notin Recorded \cup Ahead(r) \cup {at}
    BY <1>2, <1>6 DEF Ahead, Versions, None
  <2> QED
    BY <1>6, <2>1 DEF HistoryInv, NoSilentGap
<1>7. k.job = "migrate" /\ \A w \in Recorded' \ Recorded : w = at
  BY <1>2 DEF Migrates
<1> QED
  BY <1>1, <1>2, <1>3, <1>4, <1>5, <1>6, <1>7, MigrateStep

LEMMA RecordHistory == ASSUME HistoryInv, NEW r \in Runs, Record(r) PROVE HistoryInv'
<1>1. run[r].pc = "work" /\ run[r].left = {} /\ r \in Migrates /\ TypeOK /\ InOrder
  BY DEF Record, Migrates, HistoryInv
<1>2. faults' \in 0 .. MaxFaults
  BY DEF Record, HistoryInv, TypeOK
<1>3. CASE Duplicate(run[r].at)
  BY <1>1, <1>2, <1>3, FailHistory DEF Record
<1>4. CASE ~Duplicate(run[r].at)
  <2> DEFINE k == SucceededRun(r)
  <2> HIDE DEF k
  <2>1. Succeed(r) /\ AddRow(run[r].at) /\ UNCHANGED <<objects, unique>> /\ k = SucceededRun(r)
    BY <1>4 DEF Record, k
  <2>2. /\ Moves(r, k) /\ run[r].at \in Versions /\ Active(r)
        /\ k.pc = "next" /\ k.job = run[r].job /\ k.at = None /\ k.todo = run[r].todo
        /\ k.done = run[r].done \cup {run[r].at} /\ k.failed = run[r].failed
    BY <1>1, <2>1, SucceedFacts
  <2> QED
    BY <1>1, <1>2, <1>4, <2>1, <2>2, CloseMigration
<1> QED
  BY <1>3, <1>4

LEMMA RecordFailsHistory == ASSUME HistoryInv, NEW r \in Runs, RecordFails(r) PROVE HistoryInv'
<1>1. run[r].pc = "work" /\ run[r].left = {} /\ r \in Migrates /\ TypeOK /\ InOrder /\ Fail(r)
  BY DEF RecordFails, Migrates, HistoryInv
<1>2. faults' \in 0 .. MaxFaults /\ UNCHANGED <<objects, unique>>
  BY DEF RecordFails, HistoryInv, TypeOK
<1>3. CASE UNCHANGED records
  BY <1>1, <1>2, <1>3, FailHistory
<1>4. CASE ~Duplicate(run[r].at) /\ AddRow(run[r].at)
  <2> DEFINE k == FailedRun(r)
  <2> HIDE DEF k
  <2>1. k = FailedRun(r)
    BY DEF k
  <2>2. /\ Moves(r, k) /\ run[r].at \in Versions /\ Active(r)
        /\ k.pc = "next" /\ k.job = run[r].job /\ k.at = None /\ k.todo = run[r].todo
        /\ k.done = run[r].done /\ k.failed = run[r].failed \cup {run[r].at}
    BY <1>1, <2>1, FailFacts
  <2> QED
    BY <1>1, <1>2, <1>4, <2>2, CloseMigration
<1> QED
  BY <1>3, <1>4 DEF RecordFails

LEMMA DropRowFacts ==
    ASSUME TypeOK, RowsOfRuns, NEW v \in Versions, DropRow(v), unique' = unique
    PROVE  /\ records' \in Bag /\ Recorded' \subseteq Recorded
           /\ \A w \in Versions : records'[w] <= records[w]
           /\ unique' => Indexable'
<1>1. records \in Bag
  BY DEF TypeOK
<1>2. /\ records' \in Bag
      /\ \A w \in Versions : /\ records[w] \in Nat /\ records'[w] \in Nat
                             /\ records'[w] <= records[w]
  BY <1>1 DEF DropRow, Bag
<1>3. Recorded' \subseteq Recorded
  BY <1>2 DEF Recorded
<1>4. unique' => Indexable'
  BY <1>2 DEF RowsOfRuns, Indexable
<1> QED
  BY <1>2, <1>3, <1>4

\* A rollback takes the row of the version it is at.
LEMMA CloseRollback ==
    ASSUME HistoryInv, NEW r \in Rollbacks, run[r].pc = "work",
           DropRow(run[r].at), faults' \in 0 .. MaxFaults,
           UNCHANGED <<objects, unique>>,
           NEW k, Moves(r, k), run[r].at \in Versions, Active(r),
           k.pc = "next", k.job = run[r].job, k.at = None, k.todo = run[r].todo,
           k.done \cup k.failed = run[r].done \cup run[r].failed \cup {run[r].at}
    PROVE  HistoryInv'
<1> DEFINE at == run[r].at
<1>1. TypeOK /\ RowsOfRuns /\ at \in Versions /\ DropRow(at) /\ unique' = unique
  BY DEF HistoryInv
<1>2. /\ records' \in Bag /\ Recorded' \subseteq Recorded
      /\ \A w \in Versions : records'[w] <= records[w]
      /\ unique' => Indexable'
  BY <1>1, DropRowFacts
<1>3. TypeOK'
  BY <1>1, <1>2 DEF TypeOK, Moves
<1>4. TakenUp(r) \subseteq k.done \cup k.failed \cup {k.at}
  BY DEF TakenUp
<1>5. ASSUME Migrates = {}, NEW v \in Versions, k.todo[v] > 0 \/ v = k.at, NEW w \in Recorded', v < w
      PROVE  k.todo[w] > 0 \/ w \in k.done \cup k.failed \cup {k.at}
  <2>1. v \in Ahead(r) /\ w \in Recorded /\ w \in Versions
    BY <1>2, <1>5 DEF Ahead, Versions, None, Recorded
  <2>2. w \in Ahead(r) \cup TakenUp(r)
    BY <1>5, <2>1 DEF HistoryInv, FromTheTop
  <2> QED
    BY <1>4, <2>2 DEF Ahead
<1>6. k.job = "rollback"
  BY DEF Rollbacks
<1> QED
  BY <1>2, <1>3, <1>4, <1>5, <1>6, RollbackStep

LEMMA UnrecordHistory == ASSUME HistoryInv, NEW r \in Runs, Unrecord(r) PROVE HistoryInv'
<1> DEFINE k == SucceededRun(r)
<1> HIDE DEF k
<1>1. /\ run[r].pc = "work" /\ run[r].left = {} /\ r \in Rollbacks /\ TypeOK /\ InOrder
      /\ Succeed(r) /\ k = SucceededRun(r)
  BY DEF Unrecord, Rollbacks, HistoryInv, k
<1>2. faults' \in 0 .. MaxFaults /\ UNCHANGED <<objects, unique>> /\ DropRow(run[r].at)
  BY DEF Unrecord, HistoryInv, TypeOK
<1>3. /\ Moves(r, k) /\ run[r].at \in Versions /\ Active(r)
      /\ k.pc = "next" /\ k.job = run[r].job /\ k.at = None /\ k.todo = run[r].todo
      /\ k.done = run[r].done \cup {run[r].at} /\ k.failed = run[r].failed
  BY <1>1, SucceedFacts
<1> QED
  BY <1>1, <1>2, <1>3, CloseRollback

LEMMA UnrecordFailsHistory == ASSUME HistoryInv, NEW r \in Runs, UnrecordFails(r) PROVE HistoryInv'
<1> DEFINE k == FailedRun(r)
<1> HIDE DEF k
<1>1. /\ run[r].pc = "work" /\ run[r].left = {} /\ r \in Rollbacks /\ TypeOK /\ InOrder
      /\ Fail(r) /\ k = FailedRun(r)
  BY DEF UnrecordFails, Rollbacks, HistoryInv, k
<1>2. faults' \in 0 .. MaxFaults /\ UNCHANGED <<objects, unique>>
  BY DEF UnrecordFails, HistoryInv, TypeOK
<1>3. CASE UNCHANGED records
  BY <1>1, <1>2, <1>3, FailHistory
<1>4. CASE DropRow(run[r].at)
  <2>1. /\ Moves(r, k) /\ run[r].at \in Versions /\ Active(r)
        /\ k.pc = "next" /\ k.job = run[r].job /\ k.at = None /\ k.todo = run[r].todo
        /\ k.done = run[r].done /\ k.failed = run[r].failed \cup {run[r].at}
    BY <1>1, FailFacts
  <2> QED
    BY <1>1, <1>2, <1>4, <2>1, CloseRollback
<1> QED
  BY <1>3, <1>4 DEF UnrecordFails

\* Only the unique index may change.
LEMMA InspectHistory ==
    ASSUME HistoryInv, UNCHANGED <<objects, records, run>>, unique' \in BOOLEAN,
           unique' => unique \/ Indexable, faults' \in 0 .. MaxFaults
    PROVE  HistoryInv'
<1> USE DEF HistoryInv
<1>1. TypeOK'
  BY DEF TypeOK
<1>2. /\ Recorded' = Recorded /\ Indexable' = Indexable /\ Migrates' = Migrates
      /\ Rollbacks' = Rollbacks /\ \A r \in Runs : Ahead(r)' = Ahead(r) /\ TakenUp(r)' = TakenUp(r)
  BY DEF Recorded, Indexable, Migrates, Rollbacks, Ahead, TakenUp
<1>3. InOrder'
  BY DEF InOrder
<1>4. RowsOfRuns'
  BY <1>2 DEF RowsOfRuns
<1>5. NoSilentGap' /\ WorkDone' /\ FromTheTop'
  BY <1>2 DEF NoSilentGap, WorkDone, FromTheTop, Active, Logged, Ahead, TakenUp, Migrates, Rollbacks
<1>6. RecordedMeansApplied' /\ HolesAreReported'
  BY <1>2 DEF RecordedMeansApplied, HolesAreReported, TakenUp
<1> QED
  BY <1>1, <1>3, <1>4, <1>5, <1>6

LEMMA NextHistory == HistoryInv /\ [Next]_vars => HistoryInv'
<1> SUFFICES ASSUME HistoryInv, [Next]_vars PROVE HistoryInv'
  OBVIOUS
<1>1. ASSUME NEW r \in Runs, NEW job \in {"migrate", "rollback"}, NEW goal \in Goals, Begin(r, job, goal)
      PROVE  HistoryInv'
  BY <1>1, BeginHistory
<1>2. ASSUME NEW r \in Runs, Step(r) PROVE HistoryInv'
  <2>1. CASE Ensure(r)
    BY <2>1, EnsureHistory
  <2>2. CASE ReadVersion(r)
    BY <2>2, ReadVersionHistory
  <2>3. CASE ReadHistory(r)
    BY <2>3, ReadHistoryHistory
  <2>4. CASE Take(r)
    BY <2>4, TakeHistory
  <2>5. CASE \E c \in Collections : Work(r, c) \/ WorkFails(r, c)
    BY <2>5, WorkHistory, WorkFailsHistory
  <2>6. CASE Record(r) \/ RecordFails(r)
    BY <2>6, RecordHistory, RecordFailsHistory
  <2>7. CASE Unrecord(r) \/ UnrecordFails(r)
    BY <2>7, UnrecordHistory, UnrecordFailsHistory
  <2>8. CASE Finish(r)
    BY <2>8, FinishHistory
  <2>9. CASE Die(r)
    BY <2>9, DieHistory
  <2> QED
    BY <1>2, <2>1, <2>2, <2>3, <2>4, <2>5, <2>6, <2>7, <2>8, <2>9 DEF Step
<1>3. CASE Inspect
  <2>1. TypeOK
    BY DEF HistoryInv
  <2> QED
    BY <1>3, <2>1, IndexType, InspectHistory DEF Inspect
<1>4. CASE UNCHANGED vars
  <2>1. unique' \in BOOLEAN /\ (unique' => unique) /\ faults' \in 0 .. MaxFaults
    BY <1>4 DEF HistoryInv, TypeOK, vars
  <2> QED
    BY <1>4, <2>1, InspectHistory DEF vars
<1> QED
  BY <1>1, <1>2, <1>3, <1>4 DEF Next

-----------------------------------------------------------------------------
\* The inductive invariant of the history and of what the runs know of it.
THEOREM History == Spec => []HistoryInv
  BY InitHistory, NextHistory, PTL DEF Spec

\* However many runs overlap, fail or die: a version in the history has all it
\* must create, unless a rollback took it up or ran beside a migration.
THEOREM Applied == Spec => []RecordedMeansApplied
<1>1. HistoryInv => RecordedMeansApplied
  BY DEF HistoryInv
<1> QED
  BY <1>1, History, PTL

\* The history is true: while nobody rolls back no version is skipped without a
\* logged failure, and under the unique index no version is reported as applied
\* by two migrations.
THEOREM Reported == Spec => []HistoryTrue
<1>1. HistoryInv => AppliedOnce
  <2> SUFFICES ASSUME HistoryInv, unique, Rollbacks = {},
                      NEW r \in Runs, NEW s \in Runs, r # s,
                      NEW v \in run[r].done \cap run[s].done
               PROVE  FALSE
    BY DEF AppliedOnce, HistoryInv, RowsOfRuns
  <2>1. v \in Versions /\ records[v] \in Nat
    BY DEF HistoryInv, TypeOK, RunType, Bag
  <2>2. records[v] <= 1 /\ records[v] > 1
    BY <2>1 DEF HistoryInv, RowsOfRuns, Indexable
  <2> QED
    BY <2>1, <2>2
<1>2. HistoryInv => HistoryTrue
  BY <1>1 DEF HistoryInv, HistoryTrue
<1> QED
  BY <1>2, History, PTL

-----------------------------------------------------------------------------
(* What rollbacks leave behind                                             *)

AllPassed == UNION {Passed(r) : r \in Rollbacks}

LEMMA PassedIsFinite == ASSUME TypeOK PROVE IsFiniteSet(AllPassed)
<1>1. IsFiniteSet(Versions)
  <2>1. 1 \in Int /\ 4 \in Int /\ Versions = 1 .. 4
    BY DEF Versions
  <2> QED
    BY <2>1, FS_Interval
<1>2. IsFiniteSet(Collections)
  <2>1. IsFiniteSet({"notifications"})
    BY FS_Singleton
  <2>2. IsFiniteSet({"notifications"} \cup {"events"})
    BY <2>1, FS_AddElement
  <2>3. IsFiniteSet({"notifications"} \cup {"events"} \cup {"roles"})
    BY <2>2, FS_AddElement
  <2>4. Collections = {"notifications"} \cup {"events"} \cup {"roles"}
    BY DEF Collections
  <2> QED
    BY <2>3, <2>4
<1>3. IsFiniteSet(Versions \X Collections)
  BY <1>1, <1>2, FS_Product
<1>4. AllPassed \subseteq Versions \X Collections
  BY DEF AllPassed, Passed, TypeOK
<1> QED
  BY <1>3, <1>4, FS_Subset

\* A step that passes over nothing that was not passed over already.
LEMMA NothingPassed ==
    ASSUME HistoryInv, TypeOK', Swept, Migrates = {}, AllPassed' \subseteq AllPassed,
           objects' \subseteq objects, faults' >= faults
    PROVE  Swept'
<1>1. Cardinality(AllPassed') <= Cardinality(AllPassed) /\ Cardinality(AllPassed) \in Nat /\ Cardinality(AllPassed') \in Nat
  <2>1. IsFiniteSet(AllPassed) /\ IsFiniteSet(AllPassed')
    BY PassedIsFinite, FS_Subset DEF HistoryInv
  <2> QED
    BY <2>1, FS_Subset, FS_CardinalityType
<1>2. faults \in Nat /\ faults' \in Nat
  BY DEF HistoryInv, TypeOK
<1>3. Cardinality(AllPassed) <= faults
  BY DEF Swept, AllPassed
<1>4. Cardinality(AllPassed') <= faults'
  BY <1>1, <1>2, <1>3
<1> QED
  BY <1>4 DEF Swept, AllPassed

\* A step of rollback r that drops nothing.
LEMMA IdleSweep ==
    ASSUME HistoryInv, TypeOK', Swept, NEW r \in Runs, Migrates = {}, Migrates' = {},
           \A s \in Runs : s # r => run'[s] = run[s],
           objects' = objects, faults' >= faults,
           run'[r].done = run[r].done, run'[r].done # {} => run[r].job = "rollback",
           run'[r].pc = "work" => run'[r].left = Touched(run'[r].at)
    PROVE  Swept'
<1>1. ASSUME NEW s \in Runs, run'[s].job = "rollback", NEW o \in objects,
             \/ o[1] \in run'[s].done
             \/ run'[s].pc = "work" /\ o[1] = run'[s].at /\ o[2] \notin run'[s].left
      PROVE  o \in AllPassed
  <2>1. o[2] \in Touched(o[1])
    BY DEF Swept
  <2>2. CASE s = r
    <3>1. o[1] \in run[r].done /\ run[r].job = "rollback"
      BY <1>1, <2>1, <2>2
    <3> QED
      BY <3>1 DEF AllPassed, Passed, Rollbacks
  <2>3. CASE s # r
    BY <1>1, <2>3 DEF AllPassed, Passed, Rollbacks
  <2> QED
    BY <2>2, <2>3
<1>2. AllPassed' \subseteq AllPassed
  BY <1>1 DEF AllPassed, Passed, Rollbacks
<1> QED
  BY <1>2, NothingPassed

\* An object dropped is gone, one whose drop fails costs a fault.
LEMMA WorkSweeps ==
    ASSUME HistoryInv, TypeOK', Swept, NEW r \in Runs, NEW c \in Collections, Migrates = {},
           Work(r, c) \/ WorkFails(r, c)
    PROVE  Swept'
<1> PICK v : v = run[r].at
  OBVIOUS
<1>1. run[r].job = "rollback" /\ run[r].pc = "work" /\ run \in [Runs -> RunType] /\ v \in Versions
  <2>1. run[r] \in RunType /\ Orderly(run[r]) /\ run[r].pc = "work" /\ run \in [Runs -> RunType]
    BY DEF Work, WorkFails, HistoryInv, TypeOK, InOrder
  <2>2. run[r].job # "migrate" /\ run[r].job # "none"
    BY <2>1 DEF Migrates, Orderly
  <2> QED
    BY <2>1, <2>2 DEF RunType, Orderly
<1>2. /\ run' = [run EXCEPT ![r].left = @ \ {c}] /\ c \in run[r].left
      /\ objects' \subseteq objects
      /\ \/ objects' = objects \ Drops(v, c) /\ faults' = faults
         \/ objects' = objects /\ faults' = faults + 1
  BY <1>1 DEF Work, WorkFails
<1>3. /\ run'[r].pc = "work" /\ run'[r].at = v /\ run'[r].left = run[r].left \ {c} /\ run'[r].done = run[r].done
      /\ run'[r].job = run[r].job /\ \A s \in Runs : s # r => run'[s] = run[s]
  BY <1>1, <1>2 DEF RunType
<1>4. AllPassed' \subseteq AllPassed \cup ({<<v, c>>} \cap objects')
  <2> SUFFICES ASSUME NEW s \in Runs, run'[s].job = "rollback", NEW o \in objects',
                      \/ o[1] \in run'[s].done
                      \/ run'[s].pc = "work" /\ o[1] = run'[s].at /\ o[2] \notin run'[s].left
               PROVE  o \in AllPassed \/ o = <<v, c>>
    BY DEF AllPassed, Passed, Rollbacks
  <2>1. o \in objects /\ o = <<o[1], o[2]>>
    BY <1>2 DEF HistoryInv, TypeOK
  <2>2. CASE s = r
    <3>1. o[1] \in run[r].done \/ (o[1] = v /\ o[2] \notin run[r].left) \/ (o[1] = v /\ o[2] = c)
      BY <1>3, <2>2
    <3> QED
      BY <1>1, <2>1, <3>1 DEF AllPassed, Passed, Rollbacks
  <2>3. CASE s # r
    BY <1>3, <2>1, <2>3 DEF AllPassed, Passed, Rollbacks
  <2> QED
    BY <2>2, <2>3
<1>5. CASE objects' = objects \ Drops(v, c) /\ faults' = faults
  <2>1. <<v, c>> \in Drops(v, c)
    BY <1>1 DEF Drops, DropCollection, DropIndexes, DropOwn, Versions
  <2>2. AllPassed' \subseteq AllPassed /\ faults' >= faults
    BY <1>4, <1>5, <2>1 DEF HistoryInv, TypeOK
  <2> QED
    BY <1>2, <2>2, NothingPassed
<1>6. CASE objects' = objects /\ faults' = faults + 1
  <2> PICK A : A = AllPassed
    OBVIOUS
  <2>1. AllPassed' \subseteq A \cup {<<v, c>>}
    BY <1>4
  <2>2. IsFiniteSet(A) /\ IsFiniteSet(A \cup {<<v, c>>})
    BY PassedIsFinite, FS_AddElement DEF HistoryInv
  <2>3. Cardinality(A) \in Nat /\ Cardinality(A \cup {<<v, c>>}) <= Cardinality(A) + 1 /\ Cardinality(A \cup {<<v, c>>}) \in Nat
    <3>1. Cardinality(A) \in Nat /\ Cardinality(A \cup {<<v, c>>}) \in Nat
      BY <2>2, FS_CardinalityType
    <3>2. Cardinality(A \cup {<<v, c>>}) = IF <<v, c>> \in A THEN Cardinality(A) ELSE Cardinality(A) + 1
      BY <2>2, FS_AddElement
    <3> QED
      BY <3>1, <3>2
  <2>4. Cardinality(AllPassed') <= Cardinality(A \cup {<<v, c>>}) /\ Cardinality(AllPassed') \in Nat
    BY <2>1, <2>2, FS_Subset, FS_CardinalityType
  <2>5. Cardinality(A) <= faults /\ faults \in Nat
    BY DEF Swept, AllPassed, HistoryInv, TypeOK
  <2>6. Cardinality(AllPassed') <= faults'
    BY <1>6, <2>3, <2>4, <2>5
  <2>7. \A o \in objects' : o[2] \in Touched(o[1])
    BY <1>6 DEF Swept
  <2> QED
    BY <2>6, <2>7 DEF Swept, AllPassed
<1> QED
  BY <1>2, <1>5, <1>6

\* The version is reported as rolled back when nothing of it is left to drop.
LEMMA UnrecordSweeps ==
    ASSUME HistoryInv, TypeOK', Swept, NEW r \in Runs, Migrates = {}, Unrecord(r)
    PROVE  Swept'
<1> PICK v : v = run[r].at
  OBVIOUS
<1>1. /\ run \in [Runs -> RunType] /\ run[r].pc = "work" /\ run[r].left = {} /\ run[r].job = "rollback"
      /\ run' = [run EXCEPT ![r].pc = "next", ![r].at = None, ![r].done = @ \cup {v}]
      /\ objects' = objects /\ faults' = faults
  BY DEF Unrecord, Succeed, HistoryInv, TypeOK
<1>2. run'[r].pc = "next" /\ run'[r].done = run[r].done \cup {v} /\ \A s \in Runs : s # r => run'[s] = run[s]
  BY <1>1 DEF RunType
<1>3. AllPassed' \subseteq AllPassed
  <2> SUFFICES ASSUME NEW s \in Runs, run'[s].job = "rollback", NEW o \in objects,
                      \/ o[1] \in run'[s].done
                      \/ run'[s].pc = "work" /\ o[1] = run'[s].at /\ o[2] \notin run'[s].left
               PROVE  o \in AllPassed
    BY <1>1 DEF AllPassed, Passed, Rollbacks
  <2>1. CASE s = r
    <3>1. o[1] \in run[r].done \/ o[1] = v
      BY <1>2, <2>1
    <3> QED
      BY <1>1, <3>1 DEF AllPassed, Passed, Rollbacks
  <2>2. CASE s # r
    BY <1>2, <2>2 DEF AllPassed, Passed, Rollbacks
  <2> QED
    BY <2>1, <2>2
<1>4. faults' >= faults /\ objects' \subseteq objects
  BY <1>1 DEF HistoryInv, TypeOK
<1> QED
  BY <1>3, <1>4, NothingPassed

\* What the other steps of a run do to the sweep.
LEMMA StepIsIdle ==
    ASSUME HistoryInv, NEW r \in Runs, Migrates = {},
           \/ \E job \in {"migrate", "rollback"}, goal \in Goals : Begin(r, job, goal)
           \/ Ensure(r) \/ ReadVersion(r) \/ ReadHistory(r) \/ Take(r)
           \/ UnrecordFails(r) \/ Finish(r) \/ Die(r)
    PROVE  /\ \A s \in Runs : s # r => run'[s] = run[s]
           /\ objects' = objects /\ faults' >= faults
           /\ run'[r].done = run[r].done
           /\ run'[r].pc = "work" => run'[r].left = Touched(run'[r].at)
<1>1. run \in [Runs -> RunType] /\ run[r] \in RunType /\ faults \in Nat
  BY DEF HistoryInv, TypeOK
<1>2. CASE \E job \in {"migrate", "rollback"}, goal \in Goals : Begin(r, job, goal)
  <2>1. PICK job \in {"migrate", "rollback"}, goal \in Goals :
          /\ run' = [run EXCEPT ![r].pc = "ensure", ![r].job = job, ![r].goal = goal]
          /\ UNCHANGED <<objects, faults>>
    BY <1>2 DEF Begin
  <2>2. run'[r].pc = "ensure" /\ run'[r].done = run[r].done /\ \A s \in Runs : s # r => run'[s] = run[s]
    BY <1>1, <2>1 DEF RunType
  <2> QED
    BY <1>1, <2>1, <2>2
<1>3. CASE Ensure(r)
  BY <1>1, <1>3 DEF Ensure, EnsureIndex, RunType
<1>4. CASE ReadVersion(r)
  BY <1>1, <1>4 DEF ReadVersion, RunType
<1>5. CASE ReadHistory(r)
  <2>1. PICK todo \in [Versions -> 0 .. 4] :
          run' = [run EXCEPT ![r].pc = "next", ![r].todo = todo] /\ UNCHANGED <<objects, faults>>
    BY <1>5 DEF ReadHistory
  <2>2. run'[r].pc = "next" /\ run'[r].done = run[r].done /\ \A s \in Runs : s # r => run'[s] = run[s]
    BY <1>1, <2>1 DEF RunType
  <2> QED
    BY <1>1, <2>1, <2>2
<1>6. CASE Take(r)
  <2>1. PICK w \in Versions :
          run' = [run EXCEPT ![r].pc = "work", ![r].at = w, ![r].left = Touched(w), ![r].todo = Without(run[r].todo, w)]
    BY <1>6 DEF Take
  <2>2. run'[r].at = w /\ run'[r].left = Touched(w) /\ run'[r].done = run[r].done /\ \A s \in Runs : s # r => run'[s] = run[s]
    BY <1>1, <2>1 DEF RunType
  <2> QED
    <3>1. UNCHANGED <<objects, faults>>
      BY <1>6 DEF Take
    <3> QED
      BY <1>1, <2>2, <3>1
<1>7. CASE UnrecordFails(r)
  BY <1>1, <1>7 DEF UnrecordFails, Fail, RunType
<1>8. CASE Finish(r)
  BY <1>1, <1>8 DEF Finish, EnsureIndex, RunType
<1>9. CASE Die(r)
  BY <1>1, <1>9 DEF Die, RunType
<1> QED
  BY <1>2, <1>3, <1>4, <1>5, <1>6, <1>7, <1>8, <1>9

\* Nobody stops being a migration.
LEMMA MigratesGrow ==
    ASSUME HistoryInv, [Next]_vars
    PROVE  Migrates \subseteq Migrates'
<1>1. run \in [Runs -> RunType] /\ \A s \in Runs : run[s] \in RunType /\ (run[s].pc = "new" <=> run[s].job = "none")
  BY DEF HistoryInv, TypeOK, InOrder, Orderly
<1> SUFFICES ASSUME NEW s \in Runs, run[s].job = "migrate" PROVE run'[s].job = "migrate"
  BY DEF Migrates
<1>2. ASSUME NEW r \in Runs, NEW job, NEW goal, Begin(r, job, goal) PROVE run'[s].job = "migrate"
  BY <1>1, <1>2 DEF Begin, RunType
<1>3. ASSUME NEW r \in Runs, Ensure(r) \/ ReadVersion(r) \/ ReadHistory(r) \/ Finish(r) \/ Die(r) PROVE run'[s].job = "migrate"
  BY <1>1, <1>3 DEF Ensure, ReadVersion, ReadHistory, Finish, Die, RunType
<1>4. ASSUME NEW r \in Runs, Take(r) PROVE run'[s].job = "migrate"
  BY <1>1, <1>4 DEF Take, RunType
<1>5. ASSUME NEW r \in Runs, NEW c, Work(r, c) \/ WorkFails(r, c) PROVE run'[s].job = "migrate"
  BY <1>1, <1>5 DEF Work, WorkFails, Fail, RunType
<1>6. ASSUME NEW r \in Runs, Record(r) \/ RecordFails(r) \/ Unrecord(r) \/ UnrecordFails(r) PROVE run'[s].job = "migrate"
  BY <1>1, <1>6 DEF Record, RecordFails, Unrecord, UnrecordFails, Fail, Succeed, RunType
<1>7. CASE Inspect \/ UNCHANGED vars
  BY <1>7 DEF Inspect, vars
<1> QED
  BY <1>2, <1>3, <1>4, <1>5, <1>6, <1>7 DEF Next, Step

LEMMA NextSweeps == HistoryInv /\ Swept /\ [Next]_vars => Swept'
<1> SUFFICES ASSUME HistoryInv, Swept, [Next]_vars, Migrates' = {} PROVE Swept'
  BY DEF Swept
<1>1. Migrates = {} /\ TypeOK'
  BY MigratesGrow, NextHistory DEF HistoryInv
<1>2. ASSUME NEW r \in Runs,
             \/ \E job \in {"migrate", "rollback"}, goal \in Goals : Begin(r, job, goal)
             \/ Ensure(r) \/ ReadVersion(r) \/ ReadHistory(r) \/ Take(r)
             \/ UnrecordFails(r) \/ Finish(r) \/ Die(r)
      PROVE  Swept'
  <2>1. run[r].done # {} => run[r].job = "rollback"
    BY <1>1 DEF HistoryInv, TypeOK, RunType, InOrder, Orderly, Migrates
  <2>2. /\ \A s \in Runs : s # r => run'[s] = run[s]
        /\ objects' = objects /\ faults' >= faults
        /\ run'[r].done = run[r].done
        /\ run'[r].pc = "work" => run'[r].left = Touched(run'[r].at)
    BY <1>1, <1>2, StepIsIdle
  <2> QED
    BY <1>1, <2>1, <2>2, IdleSweep
<1>3. ASSUME NEW r \in Runs, NEW c \in Collections, Work(r, c) \/ WorkFails(r, c) PROVE Swept'
  BY <1>1, <1>3, WorkSweeps
<1>4. ASSUME NEW r \in Runs, Unrecord(r) PROVE Swept'
  BY <1>1, <1>4, UnrecordSweeps
<1>5. ASSUME NEW r \in Runs, Record(r) \/ RecordFails(r) PROVE FALSE
  BY <1>1, <1>5 DEF Record, RecordFails, Migrates
<1>6. CASE Inspect \/ UNCHANGED vars
  <2>1. faults' >= faults /\ run' = run /\ objects' = objects
    BY <1>6 DEF Inspect, EnsureIndex, vars, HistoryInv, TypeOK
  <2>2. AllPassed' = AllPassed
    BY <2>1 DEF AllPassed, Passed, Rollbacks
  <2> QED
    BY <1>1, <2>1, <2>2, NothingPassed
<1> QED
  BY <1>2, <1>3, <1>4, <1>5, <1>6 DEF Next, Step

\* A version that rollbacks reported as rolled back has nothing left of it but what
\* a drop that raised, and that down() swallowed, left: one object per fault.
THEOREM Sweep == Spec => []LeftoversWereFailures
<1>1. Init => Swept
  <2> SUFFICES ASSUME Init PROVE Swept
    OBVIOUS
  <2>1. AllPassed = {}
    BY DEF Init, AllPassed, Rollbacks, NewRun
  <2>2. Cardinality(AllPassed) <= faults
    BY <2>1, FS_EmptySet DEF Init
  <2>3. \A o \in objects : o[2] \in Touched(o[1])
    BY DEF Init
  <2> QED
    BY <2>2, <2>3 DEF Swept, AllPassed
<1>2. ASSUME HistoryInv, Swept PROVE LeftoversWereFailures
  <2> SUFFICES ASSUME Migrates = {}
               PROVE  Cardinality({o \in objects : o[1] \in UNION {run[r].done : r \in Rollbacks}}) <= faults
    BY DEF LeftoversWereFailures
  <2> PICK L : L = {o \in objects : o[1] \in UNION {run[r].done : r \in Rollbacks}}
    OBVIOUS
  <2>1. L \subseteq AllPassed
    BY DEF AllPassed, Passed
  <2>2. IsFiniteSet(AllPassed)
    BY <1>2, PassedIsFinite DEF HistoryInv
  <2>3. Cardinality(L) <= Cardinality(AllPassed) /\ Cardinality(AllPassed) \in Nat /\ Cardinality(L) \in Nat
    BY <2>1, <2>2, FS_Subset, FS_CardinalityType
  <2>4. Cardinality(AllPassed) <= faults /\ faults \in Nat
    BY <1>2 DEF Swept, AllPassed, HistoryInv, TypeOK
  <2>5. Cardinality(L) <= faults
    BY <2>3, <2>4
  <2> QED
    BY <2>5
<1> QED
  BY <1>1, <1>2, NextSweeps, InitHistory, NextHistory, PTL DEF Spec
=============================================================================
