--------------------------- MODULE DerivedRefresh ---------------------------
(***************************************************************************)
(* The queue derived_refresh_task and the workers that drain it.           *)
(*                                                                         *)
(* A trigger on every fact table enqueues the projections that depend on   *)
(* the row, in the transaction that changes it: a task has one row per     *)
(* projection, and its generation counts the committed changes.  Workers   *)
(* claim a batch, recompute each projection from what they then read, and  *)
(* write the outcome against the generation they claimed.  There are two   *)
(* of them in a gateway, the background loop and POST                      *)
(* /derived-refresh/run, and one more per concurrent request.              *)
(*                                                                         *)
(* The row's due_at is kept as "is it due?"; priorities and the batch      *)
(* order only narrow which due rows are claimed first, and SKIP LOCKED     *)
(* passes over rows a fact transaction holds: a claim takes any of them.   *)
(***************************************************************************)
EXTENDS Naturals, FiniteSets

CONSTANTS
    Tasks,          \* task keys: a target kind and its id
    Workers,        \* calls of process_due_derived_refresh_tasks
    BatchSize,
    MaxGeneration,  \* bound: changes per task
    MaxFailures,    \* bound: failed recomputations
    MaxAbandons     \* bound: passes that die before the end of their batch

ASSUME TaskAssumption == IsFiniteSet(Tasks)
ASSUME BatchAssumption == BatchSize \in Nat
ASSUME BoundAssumption == {MaxGeneration, MaxFailures, MaxAbandons}
                              \subseteq Nat

VARIABLES
    row,       \* the table: state, generation and whether due_at is past
    shown,     \* the generation the stored last_result was computed from
    batch,     \* per worker, the generation claimed of each task; 0 is none
    job,       \* per worker, the task at hand and the generation it read
    failures,
    abandons

vars == <<row, shown, batch, job, failures, abandons>>

States == {"absent", "queued", "running", "satisfied", "failed"}

Rows == [state : States, generation : 0..MaxGeneration, due : BOOLEAN]

\* `seen` is the oldest state of the facts the recomputation has read: a
\* journal refresh reads them in seven statements.  0 is no job.
Jobs == {<<>>} \union Tasks \X (1..MaxGeneration)

TypeOK ==
    /\ row \in [Tasks -> Rows]
    /\ shown \in [Tasks -> 0..MaxGeneration]
    /\ batch \in [Workers -> [Tasks -> 0..MaxGeneration]]
    /\ job \in [Workers -> Jobs]
    /\ failures \in 0..MaxFailures
    /\ abandons \in 0..MaxAbandons

NothingClaimed == [k \in Tasks |-> 0]

Init ==
    /\ row = [k \in Tasks |->
                 [state |-> "absent", generation |-> 0, due |-> FALSE]]
    /\ shown = [k \in Tasks |-> 0]
    /\ batch = [w \in Workers |-> NothingClaimed]
    /\ job = [w \in Workers |-> <<>>]
    /\ failures = 0
    /\ abandons = 0

Holds(w, k) == batch[w][k] > 0

-----------------------------------------------------------------------------
(***************************************************************************)
(* enqueue_derived_refresh, in the transaction that changes the fact.  A   *)
(* running task stays running: its worker finds the generation moved.      *)
(* `soon` is a due time that is not in the future.                         *)
(***************************************************************************)
FactChangesRequeues(k, soon) ==   \* deliberate error: running is requeued
    /\ row[k].generation < MaxGeneration
    /\ row' = [row EXCEPT ![k] =
           [state      |-> "queued",
            generation |-> @.generation + 1,
            due        |-> IF @.state \in {"queued", "running", "failed"}
                           THEN @.due \/ soon ELSE soon]]
    /\ UNCHANGED <<shown, batch, job, failures, abandons>>

FactChangesKeeps(k, soon) ==   \* deliberate error: satisfied is not requeued
    /\ row[k].generation < MaxGeneration
    /\ row' = [row EXCEPT ![k] =
           [state      |-> IF @.state \in {"running", "satisfied"} THEN @.state
                           ELSE "queued",
            generation |-> @.generation + 1,
            due        |-> @.due \/ soon]]
    /\ UNCHANGED <<shown, batch, job, failures, abandons>>

FactChanges(k, soon) ==
    /\ row[k].generation < MaxGeneration
    /\ row' = [row EXCEPT ![k] =
           [state      |-> IF @.state = "running" THEN "running" ELSE "queued",
            generation |-> @.generation + 1,
            due        |-> IF @.state \in {"queued", "running", "failed"}
                           THEN @.due \/ soon ELSE soon]]
    /\ UNCHANGED <<shown, batch, job, failures, abandons>>

TimePasses(k) ==
    /\ row[k].state # "absent"
    /\ ~row[k].due
    /\ row' = [row EXCEPT ![k].due = TRUE]
    /\ UNCHANGED <<shown, batch, job, failures, abandons>>

\* Deliberate error: failed tasks are not retried.
ClaimableQueued == {k \in Tasks : row[k].state = "queued" /\ row[k].due}

Claimable == {k \in Tasks : row[k].state \in {"queued", "failed"} /\ row[k].due}

\* claim_derived_refresh_tasks: one statement, FOR UPDATE SKIP LOCKED.
Claim(w) ==
    /\ batch[w] = NothingClaimed
    /\ \E S \in SUBSET Claimable :
          /\ S # {}
          /\ Cardinality(S) <= BatchSize
          /\ row' = [k \in Tasks |->
                        IF k \in S THEN [row[k] EXCEPT !.state = "running"]
                        ELSE row[k]]
          /\ batch' = [batch EXCEPT ![w] =
                 [k \in Tasks |-> IF k \in S THEN row[k].generation ELSE 0]]
    /\ UNCHANGED <<shown, job, failures, abandons>>

\* run_derived_refresh_task begins to read the facts.
StartJob(w, k) ==
    /\ job[w] = <<>>
    /\ Holds(w, k)
    /\ job' = [job EXCEPT ![w] = <<k, row[k].generation>>]
    /\ UNCHANGED <<row, shown, batch, failures, abandons>>

\* The worker is done with the task at hand.
Release(w) ==
    /\ batch' = [batch EXCEPT ![w][job[w][1]] = 0]
    /\ job' = [job EXCEPT ![w] = <<>>]

CompleteAnyway(w) ==   \* deliberate error: the generation is not compared
    /\ job[w] # <<>>
    /\ LET k == job[w][1] IN
          /\ row' = [row EXCEPT ![k].state = "satisfied"]
          /\ shown' = [shown EXCEPT ![k] = job[w][2]]
    /\ Release(w)
    /\ UNCHANGED <<failures, abandons>>

CompleteMatching(w) ==   \* deliberate error: WHERE generation = the claimed one
    /\ job[w] # <<>>
    /\ LET k == job[w][1] IN
          IF row[k].generation = batch[w][k]
          THEN /\ row' = [row EXCEPT ![k].state = "satisfied"]
               /\ shown' = [shown EXCEPT ![k] = job[w][2]]
          ELSE UNCHANGED <<row, shown>>
    /\ Release(w)
    /\ UNCHANGED <<failures, abandons>>

\* complete_derived_refresh_task
Complete(w) ==
    /\ job[w] # <<>>
    /\ LET k == job[w][1] IN
          /\ row' = [row EXCEPT ![k].state =
                 IF row[k].generation = batch[w][k] THEN "satisfied"
                 ELSE "queued"]
          /\ shown' = [shown EXCEPT ![k] = job[w][2]]
    /\ Release(w)
    /\ UNCHANGED <<failures, abandons>>

FailBlocks(w) ==   \* deliberate error: a failed task is given up
    /\ job[w] # <<>>
    /\ failures < MaxFailures
    /\ failures' = failures + 1
    /\ row' = [row EXCEPT ![job[w][1]].state = "blocked"]
    /\ Release(w)
    /\ UNCHANGED <<shown, abandons>>

\* fail_derived_refresh_task: the recomputation returned an error.  The backoff
\* of 30 seconds to an hour only applies to the generation that failed.
Fail(w) ==
    /\ job[w] # <<>>
    /\ failures < MaxFailures
    /\ failures' = failures + 1
    /\ LET k == job[w][1] IN
          row' = [row EXCEPT ![k] =
              IF @.generation = batch[w][k]
              THEN [@ EXCEPT !.state = "failed", !.due = FALSE]
              ELSE [@ EXCEPT !.state = "queued"]]
    /\ Release(w)
    /\ UNCHANGED <<shown, abandons>>

\* The process stops, the caller of the manual route hangs up, or the write of
\* an outcome fails: the rest of the batch stays running in the table.
Abandon(w) ==
    /\ batch[w] # NothingClaimed
    /\ abandons < MaxAbandons
    /\ abandons' = abandons + 1
    /\ batch' = [batch EXCEPT ![w] = NothingClaimed]
    /\ job' = [job EXCEPT ![w] = <<>>]
    /\ UNCHANGED <<row, shown, failures>>

-----------------------------------------------------------------------------
Work(w) ==
    \/ Claim(w)
    \/ \E k \in Tasks : StartJob(w, k)
    \/ Complete(w)
    \/ Fail(w)

Next ==
    \/ \E k \in Tasks, soon \in BOOLEAN : FactChanges(k, soon)
    \/ \E k \in Tasks : TimePasses(k)
    \/ \E w \in Workers : Work(w) \/ Abandon(w)

Spec == Init /\ [][Next]_vars

\* The loop of start_derived_refresh_worker never returns, a pass runs through
\* its batch, and a due time is reached.
FairSpec ==
    /\ Spec
    /\ \A w \in Workers : WF_vars(Work(w))
    /\ \A k \in Tasks : WF_vars(TimePasses(k))

-----------------------------------------------------------------------------
\* A task nobody works on any more: nothing in the code takes a row out of
\* running but the worker that claimed it.
Orphaned(k) == row[k].state = "running" /\ \A w \in Workers : ~Holds(w, k)

\* A satisfied task shows the facts as they are: a change committed at any
\* moment of the recomputation sends the task back to the queue.
SatisfiedIsFresh ==
    \A k \in Tasks :
        row[k].state = "satisfied" => shown[k] = row[k].generation

\* Two passes never recompute one projection at the same time, and the task of
\* a pass in progress is running, whatever is enqueued meanwhile.
OneWorkerPerTask ==
    \A w \in Workers, k \in Tasks :
        Holds(w, k) => /\ row[k].state = "running"
                       /\ \A v \in Workers \ {w} : ~Holds(v, k)

\* Rows are only lost in running by passes that died: at most a batch each.
OrphansAreAbandoned ==
    Cardinality({k \in Tasks : Orphaned(k)}) <= abandons * BatchSize

\* A stored result is never replaced by one computed from older facts.
ResultsMoveForward == [][\A k \in Tasks : shown'[k] >= shown[k]]_vars

\* A change of the facts is in the end shown, unless the task was orphaned.
ChangesAreShown ==
    \A k \in Tasks :
        row[k].state \in {"queued", "failed", "running"}
            ~> (row[k].state = "satisfied" \/ Orphaned(k))

(***************************************************************************)
(* The queue implements FreshProjection.                                   *)
(***************************************************************************)
Fresh == INSTANCE FreshProjection WITH
    Projections <- Tasks,
    facts <- [k \in Tasks |-> row[k].generation],
    shown <- shown,
    fresh <- [k \in Tasks |-> row[k].state = "satisfied"]

ImplementsFreshProjection == Fresh!Spec
=============================================================================
