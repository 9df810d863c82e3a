----------------------------- MODULE Migrations -----------------------------
(***************************************************************************)
(* Versioned migrations of the Mongo database: MigrationManager            *)
(* (app/database/migrations/__init__.py) and the four migrations beside    *)
(* it.  A run is one call of migrate() or rollback(); several may overlap, *)
(* because nothing locks the history.                                      *)
(*                                                                         *)
(* A database object is a pair <<v, c>>: what version v creates on         *)
(* collection c.  <<1, c>> is the collection itself, <<v, c>> with v > 1   *)
(* an index on it.  Three collections stand for the nineteen of version 1: *)
(*   "notifications"  version 2, 3 and 4 index it, version 3 strictly;     *)
(*   "events"         the same, but version 3 swallows the error there;    *)
(*   "roles"          only version 4 indexes it.                           *)
(* A fault is a call to Mongo that raises.  MaxFaults bounds them.         *)
(***************************************************************************)
EXTENDS Naturals, FiniteSets, Functions

CONSTANTS
    Runs,      \* calls of migrate() and rollback()
    Goals,     \* their arguments: a target version or a number of steps
    MaxFaults  \* calls to Mongo that raise

ASSUME GoalsAssumption == Goals \subseteq Nat
ASSUME FaultsAssumption == MaxFaults \in Nat

Versions == 1 .. 4
Collections == {"notifications", "events", "roles"}

VARIABLES
    objects,  \* the <<v, c>> that exist
    records,  \* number of migration_history documents of each version
    unique,   \* the unique index on migration_history.version exists
    run,      \* the local variables of each run
    faults

vars == <<objects, records, unique, run, faults>>

-----------------------------------------------------------------------------
(* What the four migrations do, version by version.                        *)

\* Versions 2 and 3 leave roles alone.
Touched(v) == IF v \in {1, 4} THEN Collections ELSE Collections \ {"roles"}

\* up() of version 1 catches every error, version 3 the one on events.
Lenient(v, c) == v = 1 \/ (v = 3 /\ c = "events")

\* Creating an index creates a missing collection.
Creates(v, c) == {<<1, c>>, <<v, c>>}

\* down() of version 1 drops the collection and what is on it,
DropCollection(c) == Versions \X {c}

\* that of version 2 all the indexes of the collection,
DropIndexes(c) == (Versions \ {1}) \X {c}

\* Mutant: the roles index forgotten in down() of version 4.
DropOwn_Forgetful(v, c) == {<<v, c>>} \ {<<4, "roles">>}

\* and those of 3 and 4 what they made.
DropOwn(v, c) == {<<v, c>>}

Drops(v, c) ==
    CASE v = 1 -> DropCollection(c)
      [] v = 2 -> DropIndexes(c)
      [] OTHER -> DropOwn(v, c)

-----------------------------------------------------------------------------
(* The manager.                                                            *)

None == 0
Bag == [Versions -> Nat]
NoVersions == [v \in Versions |-> 0]

NewRun == [pc |-> "new", job |-> "none", goal |-> 0, todo |-> NoVersions,
           at |-> None, left |-> {}, done |-> {}, failed |-> {}]

\* Any prefix of the versions has been applied before.
Init ==
    /\ \E last \in 0 .. 4 :
          /\ objects = {o \in Versions \X Collections :
                           o[1] <= last /\ o[2] \in Touched(o[1])}
          /\ records = [v \in Versions |-> IF v <= last THEN 1 ELSE 0]
    /\ unique \in BOOLEAN
    /\ run = [r \in Runs |-> NewRun]
    /\ faults = 0

Recorded == {v \in Versions : records[v] > 0}

\* create_index(..., unique=True) succeeds unless two rows share a version.
Indexable == \A v \in Versions : records[v] <= 1

\* _ensure_history_collection: whatever create_index raises is swallowed.
EnsureIndex ==
    \/ /\ unique' = (unique \/ Indexable)
       /\ faults' = faults
    \/ /\ faults < MaxFaults
       /\ unique' = unique
       /\ faults' = faults + 1

\* migrate(target) is called, target = 0 for none; or rollback(steps).
Begin(r, job, goal) ==
    /\ run[r].pc = "new"
    /\ job = "rollback" => goal > 0
    /\ run' = [run EXCEPT ![r].pc = "ensure", ![r].job = job, ![r].goal = goal]
    /\ UNCHANGED <<objects, records, unique, faults>>

Ensure(r) ==
    /\ run[r].pc = "ensure"
    /\ EnsureIndex
    /\ run' = [run EXCEPT ![r].pc = "read"]
    /\ UNCHANGED <<objects, records>>

\* Mutant: `version <= current_version + 1` as the condition to skip.
IsPending_OffByOne(v, target) ==
    /\ \A w \in Recorded : w + 1 < v
    /\ target # 0 => v <= target

\* The versions above the newest recorded one and up to the target.
IsPending(v, target) ==
    /\ \A w \in Recorded : w < v
    /\ target # 0 => v <= target

ReadVersion(r) ==
    /\ run[r].pc = "read" /\ run[r].job = "migrate"
    /\ run' = [run EXCEPT ![r].pc = "next",
                          ![r].todo = [v \in Versions |->
                               IF IsPending(v, run[r].goal) THEN 1 ELSE 0]]
    /\ UNCHANGED <<objects, records, unique, faults>>

\* Mutant: the history sorted in ascending order.
IsNewest_Ascending(todo, steps) ==
    /\ \A v \in Versions : todo[v] <= records[v]
    /\ \A v, w \in Versions : w < v /\ todo[v] > 0 => todo[w] = records[w]
    /\ SumFunction(todo) = IF SumFunction(records) < steps THEN SumFunction(records) ELSE steps

\* The newest `steps` documents of the history, as a bag of versions.
IsNewest(todo, steps) ==
    /\ \A v \in Versions : todo[v] <= records[v]
    /\ \A v, w \in Versions : v < w /\ todo[v] > 0 => todo[w] = records[w]
    /\ SumFunction(todo) = IF SumFunction(records) < steps THEN SumFunction(records) ELSE steps

ReadHistory(r) ==
    /\ run[r].pc = "read" /\ run[r].job = "rollback"
    /\ \E todo \in [Versions -> 0 .. 4] :
          /\ IsNewest(todo, run[r].goal)
          /\ run' = [run EXCEPT ![r].pc = "next", ![r].todo = todo]
    /\ UNCHANGED <<objects, records, unique, faults>>

\* migrate goes up, rollback goes down the list.
IsFirst(v, k) ==
    /\ k.todo[v] > 0
    /\ \A w \in Versions : k.todo[w] > 0 =>
          IF k.job = "migrate" THEN v <= w ELSE w <= v

Without(bag, v) == [bag EXCEPT ![v] = @ - 1]

Take(r) ==
    /\ run[r].pc = "next"
    /\ \E v \in Versions :
          /\ IsFirst(v, run[r])
          /\ run' = [run EXCEPT ![r].pc = "work", ![r].at = v,
                                ![r].left = Touched(v),
                                ![r].todo = Without(run[r].todo, v)]
    /\ UNCHANGED <<objects, records, unique, faults>>

\* One create_index or create_collection of up(), or one drop of down().
Work(r, c) ==
    /\ run[r].pc = "work" /\ c \in run[r].left
    /\ objects' = IF run[r].job = "migrate"
                  THEN objects \cup Creates(run[r].at, c)
                  ELSE objects \ Drops(run[r].at, c)
    /\ run' = [run EXCEPT ![r].left = @ \ {c}]
    /\ UNCHANGED <<records, unique, faults>>

Fail(r) == run' = [run EXCEPT ![r].pc = "next", ![r].at = None, ![r].left = {},
                              ![r].failed = @ \cup {run[r].at}]

Succeed(r) == run' = [run EXCEPT ![r].pc = "next", ![r].at = None,
                                 ![r].done = @ \cup {run[r].at}]

\* That call raises.  down() swallows it and so does a lenient up(); a strict
\* up() gives the version up and migrate() goes on with the next one.
WorkFails(r, c) ==
    /\ run[r].pc = "work" /\ c \in run[r].left
    /\ faults < MaxFaults
    /\ faults' = faults + 1
    /\ IF run[r].job = "migrate" /\ ~Lenient(run[r].at, c)
       THEN Fail(r)
       ELSE run' = [run EXCEPT ![r].left = @ \ {c}]
    /\ UNCHANGED <<objects, records, unique>>

Duplicate(v) == unique /\ records[v] > 0

AddRow(v) == records' = [records EXCEPT ![v] = @ + 1]

\* insert_one into the history; a duplicate version is refused.
Record(r) ==
    /\ run[r].pc = "work" /\ run[r].left = {} /\ run[r].job = "migrate"
    /\ IF Duplicate(run[r].at)
       THEN Fail(r) /\ UNCHANGED records
       ELSE Succeed(r) /\ AddRow(run[r].at)
    /\ UNCHANGED <<objects, unique, faults>>

\* insert_one raises, before or after the server has stored the row.
RecordFails(r) ==
    /\ run[r].pc = "work" /\ run[r].left = {} /\ run[r].job = "migrate"
    /\ faults < MaxFaults
    /\ faults' = faults + 1
    /\ \/ UNCHANGED records
       \/ ~Duplicate(run[r].at) /\ AddRow(run[r].at)
    /\ Fail(r)
    /\ UNCHANGED <<objects, unique>>

DropRow(v) ==
    records' = [records EXCEPT ![v] = IF @ > 0 THEN @ - 1 ELSE 0]

\* delete_one of the history; no row to delete is no error.
Unrecord(r) ==
    /\ run[r].pc = "work" /\ run[r].left = {} /\ run[r].job = "rollback"
    /\ DropRow(run[r].at)
    /\ Succeed(r)
    /\ UNCHANGED <<objects, unique, faults>>

\* delete_one raises; the loop goes on with the older versions.
UnrecordFails(r) ==
    /\ run[r].pc = "work" /\ run[r].left = {} /\ run[r].job = "rollback"
    /\ faults < MaxFaults
    /\ faults' = faults + 1
    /\ UNCHANGED records \/ DropRow(run[r].at)
    /\ Fail(r)
    /\ UNCHANGED <<objects, unique>>

\* The result is built; get_current_version ensures the index once more.
Finish(r) ==
    /\ run[r].pc = "next" /\ run[r].todo = NoVersions
    /\ EnsureIndex
    /\ run' = [run EXCEPT ![r].pc = "done"]
    /\ UNCHANGED <<objects, records>>

\* The process dies, or a call outside the try blocks raises.
Die(r) ==
    /\ run[r].pc \notin {"new", "done", "dead"}
    /\ faults < MaxFaults
    /\ faults' = faults + 1
    /\ run' = [run EXCEPT ![r].pc = "dead", ![r].left = {}, ![r].todo = NoVersions]
    /\ UNCHANGED <<objects, records, unique>>

\* status and verify() only read, but they ensure the index too.
Inspect ==
    /\ ~unique
    /\ EnsureIndex
    /\ UNCHANGED <<objects, records, run>>

Step(r) ==
    \/ Ensure(r) \/ ReadVersion(r) \/ ReadHistory(r) \/ Take(r)
    \/ \E c \in Collections : Work(r, c) \/ WorkFails(r, c)
    \/ Record(r) \/ RecordFails(r) \/ Unrecord(r) \/ UnrecordFails(r)
    \/ Finish(r) \/ Die(r)

Next ==
    \/ \E r \in Runs :
          \/ \E job \in {"migrate", "rollback"}, goal \in Goals : Begin(r, job, goal)
          \/ Step(r)
    \/ Inspect

Spec == Init /\ [][Next]_vars

-----------------------------------------------------------------------------
RunType ==
    [pc : {"new", "ensure", "read", "next", "work", "done", "dead"},
     job : {"none", "migrate", "rollback"}, goal : Goals \cup {0}, todo : Bag,
     at : Versions \cup {None}, left : SUBSET Collections,
     done : SUBSET Versions, failed : SUBSET Versions]

TypeOK ==
    /\ objects \subseteq Versions \X Collections
    /\ records \in Bag
    /\ unique \in BOOLEAN
    /\ run \in [Runs -> RunType]
    /\ faults \in 0 .. MaxFaults

Migrates == {r \in Runs : run[r].job = "migrate"}
Rollbacks == {r \in Runs : run[r].job = "rollback"}

\* The versions a run has taken up so far.
TakenUp(r) == (run[r].done \cup run[r].failed \cup {run[r].at}) \ {None}

StrictPart(v) == {<<v, c>> : c \in {d \in Touched(v) : ~Lenient(v, d)}}

\* A version in the history has all the indexes it must create, whatever
\* calls fail, whichever runs overlap or die: only a rollback that took that
\* version up, or a rollback running beside a migration, can take them away.
RecordedMeansApplied ==
    \A v \in Recorded :
        \/ StrictPart(v) \subseteq objects
        \/ \E r \in Rollbacks : v \in TakenUp(r)
        \/ Migrates # {} /\ Rollbacks # {}

\* While nobody rolls back, a version missing below a recorded one was logged
\* as failed by some migration: no version is skipped in silence.
HolesAreReported ==
    Rollbacks = {} =>
        \A v, w \in Versions :
            v < w /\ w \in Recorded /\ v \notin Recorded =>
                \E r \in Migrates : v \in run[r].failed

\* Under the unique index two migrations never both report a version as
\* applied: the slower one gets a duplicate key and reports a failure.
AppliedOnce ==
    unique /\ Rollbacks = {} =>
        /\ Indexable
        /\ \A r, s \in Runs : r # s => run[r].done \cap run[s].done = {}

\* A version reported as rolled back leaves nothing behind but what a failed,
\* and swallowed, drop call left: one object for each fault at most.
LeftoversWereFailures ==
    Migrates = {} =>
        LET gone == UNION {run[r].done : r \in Rollbacks}
        IN  Cardinality({o \in objects : o[1] \in gone}) <= faults

\* What the history says is well formed and true: the type invariant, no hole but
\* a reported one, and no version applied by two migrations under the unique index.
HistoryTrue == TypeOK /\ HolesAreReported /\ AppliedOnce

-----------------------------------------------------------------------------
(* What the properties rest on, run by run.                                *)

Active(r) == run[r].pc \in {"next", "work"}
Ahead(r) == {v \in Versions : run[r].todo[v] > 0}
Logged(v) == \E r \in Migrates : v \in run[r].failed

\* What is left of a run's list lies behind the version it is at.
Orderly(k) ==
    /\ k.pc = "work" => k.at # None
    /\ k.at # None => k.pc \in {"work", "dead"}
    /\ k.pc \in {"new", "ensure", "read"} =>
           k.todo = NoVersions /\ k.done = {} /\ k.failed = {}
    /\ k.pc = "new" <=> k.job = "none"
    /\ \A v \in Versions : k.todo[v] > 0 =>
           /\ k.job = "migrate" => k.todo[v] = 1 /\ k.at < v
           /\ k.job = "rollback" /\ k.at # None => v <= k.at

InOrder == \A r \in Runs : Orderly(run[r])

\* A version missing below one that a migration still has to apply was logged,
\* or comes first.
NoSilentGap ==
    Rollbacks = {} =>
        \A r \in Migrates : Active(r) =>
            \A w \in Ahead(r) \cup {run[r].at} : \A v \in Versions :
                v < w /\ v \notin Recorded \cup Ahead(r) \cup {run[r].at} => Logged(v)

\* What a run reports as applied has a row of its own.
RowsOfRuns ==
    /\ unique => Indexable
    /\ Rollbacks = {} =>
          /\ \A r \in Runs : run[r].done \subseteq Recorded
          /\ \A r, s \in Runs : \A v \in run[r].done \cap run[s].done :
                 r # s => records[v] > 1

\* A migration has made all it needs of the collections it is done with.
WorkDone ==
    Rollbacks = {} =>
        \A r \in Migrates : run[r].pc = "work" =>
            \A c \in Touched(run[r].at) \ run[r].left :
                Lenient(run[r].at, c) \/ <<run[r].at, c>> \in objects

\* A rollback has taken up, or will, all recorded versions above those it has
\* on its list.
FromTheTop ==
    Migrates = {} =>
        \A r \in Rollbacks : Active(r) =>
            \A v \in Ahead(r) \cup ({run[r].at} \ {None}) : \A w \in Recorded :
                v < w => w \in Ahead(r) \cup TakenUp(r)

\* What a rollback has passed over although it is still there.
Passed(r) ==
    {o \in objects :
        \/ o[1] \in run[r].done
        \/ run[r].pc = "work" /\ o[1] = run[r].at /\ o[2] \notin run[r].left}

\* While nobody migrates, each object that was passed over cost a fault.
Swept ==
    Migrates = {} =>
        /\ \A o \in objects : o[2] \in Touched(o[1])
        /\ Cardinality(UNION {Passed(r) : r \in Rollbacks}) <= faults

HistoryInv ==
    /\ TypeOK
    /\ InOrder
    /\ NoSilentGap
    /\ RowsOfRuns
    /\ WorkDone
    /\ FromTheTop
    /\ RecordedMeansApplied
    /\ HolesAreReported
=============================================================================
