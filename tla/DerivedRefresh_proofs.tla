----------------------- MODULE DerivedRefresh_proofs -----------------------
(***************************************************************************)
(* The derived refresh queue for any set of tasks and workers, any batch   *)
(* size and any bounds: what it holds is well typed, a task has one worker *)
(* at a time, a satisfied task is fresh, and the queue implements          *)
(* FreshProjection.                                                        *)
(***************************************************************************)
EXTENDS DerivedRefresh, FiniteSetTheorems, TLAPS

(***************************************************************************)
(* SatisfiedIsFresh is not inductive: when a worker completes a task, the  *)
(* claimed generation being the current one must imply that the facts it   *)
(* read are the current ones.  The invariant bounds what it read by what   *)
(* it claimed and by what the row has, and keeps results from running      *)
(* ahead of the reads still under way.                                     *)
(***************************************************************************)
JobsInOrder ==
    \A w \in Workers :
        job[w] # <<>> =>
            LET k == job[w][1]
                seen == job[w][2]
            IN  /\ Holds(w, k)
                /\ batch[w][k] <= seen
                /\ seen <= row[k].generation
                /\ shown[k] <= seen

\* A claim and a stored result are never ahead of the row.
ClaimsInOrder ==
    /\ \A k \in Tasks : shown[k] <= row[k].generation
    /\ \A w \in Workers, k \in Tasks :
          Holds(w, k) => batch[w][k] <= row[k].generation

\* Only a task that was enqueued can be claimed: its generation is positive.
EnqueuedCounts ==
    \A k \in Tasks : row[k].state # "absent" => row[k].generation > 0

QueueInv ==
    /\ TypeOK
    /\ OneWorkerPerTask
    /\ SatisfiedIsFresh
    /\ JobsInOrder
    /\ ClaimsInOrder
    /\ EnqueuedCounts

LEMMA Bounds == /\ MaxGeneration \in Nat
                /\ MaxFailures \in Nat
                /\ MaxAbandons \in Nat
BY BoundAssumption

LEMMA InitInv == Init => QueueInv
BY Bounds
DEF Init, QueueInv, TypeOK, OneWorkerPerTask, SatisfiedIsFresh, JobsInOrder,
    ClaimsInOrder, EnqueuedCounts, Holds, NothingClaimed, Rows, States, Jobs

\* The parts of a job.
LEMMA JobParts ==
    ASSUME TypeOK, NEW w \in Workers, job[w] # <<>>
    PROVE  /\ job[w][1] \in Tasks
           /\ job[w][2] \in 1..MaxGeneration
BY DEF TypeOK, Jobs

LEMMA NextInv == QueueInv /\ [Next]_vars => QueueInv'
<1> SUFFICES ASSUME QueueInv, [Next]_vars PROVE QueueInv'
  OBVIOUS
<1> USE Bounds
<1>0. TypeOK
  BY DEF QueueInv
<1>1. ASSUME NEW k \in Tasks, NEW soon \in BOOLEAN, FactChanges(k, soon)
      PROVE  QueueInv'
  <2>1. /\ row'[k].generation = row[k].generation + 1
        /\ row[k].generation \in Nat
        /\ row'[k].state = IF row[k].state = "running" THEN "running"
                           ELSE "queued"
        /\ \A j \in Tasks \ {k} : row'[j] = row[j]
        /\ UNCHANGED <<shown, batch, job, failures, abandons>>
    BY <1>0, <1>1 DEF FactChanges, TypeOK, Rows
  <2>2. TypeOK'
    <3>1. row[k].generation + 1 \in 0..MaxGeneration
      BY <1>0, <1>1 DEF FactChanges, TypeOK, Rows
    <3>2. row'[k] \in Rows
      BY <1>0, <1>1, <3>1 DEF FactChanges, TypeOK, Rows, States
    <3>3. row' \in [Tasks -> Rows]
      BY <1>0, <1>1, <3>2 DEF FactChanges, TypeOK
    <3>4. QED
      BY <1>0, <2>1, <3>3 DEF TypeOK
  <2>3. OneWorkerPerTask' /\ SatisfiedIsFresh' /\ EnqueuedCounts'
    BY <2>1
    DEF QueueInv, OneWorkerPerTask, SatisfiedIsFresh, EnqueuedCounts, Holds
  <2>4. \A j \in Tasks : /\ row[j].generation <= row'[j].generation
                         /\ row[j].generation \in Nat
                         /\ row'[j].generation \in Nat
                         /\ shown[j] \in Nat
    BY <1>0, <2>1 DEF TypeOK, Rows
  <2>5. ClaimsInOrder'
    BY <1>0, <2>1, <2>4 DEF QueueInv, ClaimsInOrder, Holds, TypeOK
  <2>6. JobsInOrder'
    BY <1>0, <2>1, <2>4, JobParts DEF QueueInv, JobsInOrder, Holds
  <2>7. QED
    BY <2>2, <2>3, <2>5, <2>6 DEF QueueInv
<1>2. ASSUME NEW k \in Tasks, TimePasses(k) PROVE QueueInv'
  <2>1. /\ \A j \in Tasks : /\ row'[j].state = row[j].state
                            /\ row'[j].generation = row[j].generation
        /\ UNCHANGED <<shown, batch, job, failures, abandons>>
    BY <1>0, <1>2 DEF TimePasses, TypeOK, Rows
  <2>2. TypeOK'
    BY <1>0, <1>2 DEF TimePasses, TypeOK, Rows
  <2>3. QED
    BY <1>0, <2>1, <2>2, JobParts
    DEF QueueInv, OneWorkerPerTask, SatisfiedIsFresh, JobsInOrder,
        ClaimsInOrder, EnqueuedCounts, Holds
<1>3. ASSUME NEW w \in Workers, Claim(w) PROVE QueueInv'
  <2>1. PICK S \in SUBSET Claimable :
          /\ row' = [k \in Tasks |->
                        IF k \in S THEN [row[k] EXCEPT !.state = "running"]
                        ELSE row[k]]
          /\ batch' = [batch EXCEPT ![w] =
                 [k \in Tasks |-> IF k \in S THEN row[k].generation ELSE 0]]
    BY <1>3 DEF Claim
  <2>2. /\ UNCHANGED <<shown, job, failures, abandons>>
        /\ \A k \in Tasks : ~Holds(w, k)
    BY <1>3 DEF Claim, Holds, NothingClaimed
  <2>3. \A k \in S : /\ row[k].state \in {"queued", "failed"}
                     /\ k \in Tasks
    BY <2>1 DEF Claimable
  <2>4. \A k \in Tasks : /\ row'[k].generation = row[k].generation
                         /\ row[k].generation \in 0..MaxGeneration
                         /\ row'[k].state = IF k \in S THEN "running"
                                            ELSE row[k].state
    BY <1>0, <2>1 DEF TypeOK, Rows
  <2>5. /\ \A k \in Tasks : batch'[w][k] = IF k \in S THEN row[k].generation
                                           ELSE 0
        /\ \A v \in Workers \ {w} : batch'[v] = batch[v]
    BY <1>0, <2>1 DEF TypeOK
  <2>6. TypeOK'
    <3>1. row' \in [Tasks -> Rows]
      BY <1>0, <2>1 DEF TypeOK, Rows, States
    <3>2. [k \in Tasks |-> IF k \in S THEN row[k].generation ELSE 0]
              \in [Tasks -> 0..MaxGeneration]
      BY <2>4
    <3>3. batch' \in [Workers -> [Tasks -> 0..MaxGeneration]]
      BY <1>0, <2>1, <3>2 DEF TypeOK
    <3>4. QED
      BY <1>0, <2>2, <3>1, <3>3 DEF TypeOK
  <2>7. OneWorkerPerTask'
    BY <2>2, <2>3, <2>4, <2>5 DEF QueueInv, OneWorkerPerTask, Holds
  <2>8. SatisfiedIsFresh' /\ EnqueuedCounts'
    BY <2>2, <2>3, <2>4 DEF QueueInv, SatisfiedIsFresh, EnqueuedCounts
  <2>9. ClaimsInOrder'
    BY <2>2, <2>4, <2>5 DEF QueueInv, ClaimsInOrder, Holds
  <2>10. JobsInOrder'
    <3>1. job[w] = <<>>
      BY <1>0, <2>2, JobParts DEF QueueInv, JobsInOrder
    <3>2. QED
      BY <1>0, <2>2, <2>4, <2>5, <3>1, JobParts
      DEF QueueInv, JobsInOrder, Holds
  <2>11. QED
    BY <2>6, <2>7, <2>8, <2>9, <2>10 DEF QueueInv
<1>4. ASSUME NEW w \in Workers, NEW k \in Tasks, StartJob(w, k)
      PROVE  QueueInv'
  <2>1. /\ UNCHANGED <<row, shown, batch, failures, abandons>>
        /\ job'[w] = <<k, row[k].generation>>
        /\ \A v \in Workers \ {w} : job'[v] = job[v]
        /\ Holds(w, k)
    BY <1>0, <1>4 DEF StartJob, TypeOK
  <2>2. /\ batch[w][k] <= row[k].generation
        /\ batch[w][k] > 0
        /\ shown[k] <= row[k].generation
        /\ row[k].generation \in 1..MaxGeneration
    <3>1. batch[w][k] \in Nat /\ row[k].generation \in 0..MaxGeneration
      BY <1>0 DEF TypeOK, Rows
    <3>2. QED
      BY <2>1, <3>1 DEF QueueInv, ClaimsInOrder, Holds
  <2>3. TypeOK'
    BY <1>0, <1>4, <2>1, <2>2 DEF StartJob, TypeOK, Jobs
  <2>4. JobsInOrder'
    <3>1. job'[w][1] = k /\ job'[w][2] = row[k].generation
      BY <2>1
    <3>2. row[k].generation <= row[k].generation
      BY <2>2
    <3>3. QED
      BY <2>1, <2>2, <3>1, <3>2 DEF QueueInv, JobsInOrder, Holds
  <2>5. QED
    BY <2>1, <2>3, <2>4
    DEF QueueInv, OneWorkerPerTask, SatisfiedIsFresh, ClaimsInOrder,
        EnqueuedCounts, Holds
<1>5. ASSUME NEW w \in Workers, Complete(w) \/ Fail(w) PROVE QueueInv'
  <2> DEFINE k == job[w][1]
  <2>1. /\ k \in Tasks
        /\ job[w][2] \in 1..MaxGeneration
    BY <1>0, <1>5, JobParts DEF Complete, Fail
  <2>2. /\ Holds(w, k)
        /\ batch[w][k] <= job[w][2]
        /\ job[w][2] <= row[k].generation
        /\ shown[k] <= job[w][2]
        /\ row[k].state = "running"
        /\ \A v \in Workers \ {w} : ~Holds(v, k)
    BY <1>5, <2>1
    DEF QueueInv, JobsInOrder, OneWorkerPerTask, Complete, Fail
  <2>3. /\ batch'[w][k] = 0
        /\ \A j \in Tasks \ {k} : batch'[w][j] = batch[w][j]
        /\ \A v \in Workers \ {w} : batch'[v] = batch[v]
        /\ job'[w] = <<>>
        /\ \A v \in Workers \ {w} : job'[v] = job[v]
    BY <1>0, <1>5, <2>1 DEF TypeOK, Complete, Fail, Release
  <2>4. /\ row'[k].generation = row[k].generation
        /\ row'[k].state \in {"satisfied", "failed", "queued"}
        /\ row'[k].state = "satisfied" =>
               Complete(w) /\ row[k].generation = batch[w][k]
        /\ \A j \in Tasks \ {k} : row'[j] = row[j]
    <3>1. CASE Complete(w)
      BY <1>0, <2>1, <3>1 DEF TypeOK, Rows, Complete
    <3>2. CASE Fail(w)
      BY <1>0, <2>1, <3>2 DEF TypeOK, Rows, Fail
    <3>3. QED
      BY <1>5, <3>1, <3>2
  <2>5. /\ shown'[k] = IF Complete(w) THEN job[w][2] ELSE shown[k]
        /\ \A j \in Tasks \ {k} : shown'[j] = shown[j]
    BY <1>0, <1>5, <2>1 DEF TypeOK, Complete, Fail
  <2>6. TypeOK'
    <3>1. row' \in [Tasks -> Rows]
      <4>1. CASE Complete(w)
        BY <1>0, <2>1, <4>1 DEF TypeOK, Rows, States, Complete
      <4>2. CASE Fail(w)
        BY <1>0, <2>1, <4>2 DEF TypeOK, Rows, States, Fail
      <4>3. QED
        BY <1>5, <4>1, <4>2
    <3>2. shown' \in [Tasks -> 0..MaxGeneration]
      <4>1. job[w][2] \in 0..MaxGeneration
        BY <2>1
      <4>2. \/ shown' = [shown EXCEPT ![k] = job[w][2]]
            \/ shown' = shown
        BY <1>5 DEF Complete, Fail
      <4>3. shown \in [Tasks -> 0..MaxGeneration]
        BY <1>0 DEF TypeOK
      <4>4. QED
        BY <2>1, <4>1, <4>2, <4>3
    <3>3. batch' \in [Workers -> [Tasks -> 0..MaxGeneration]]
      <4>1. [batch[w] EXCEPT ![k] = 0] \in [Tasks -> 0..MaxGeneration]
        <5>1. batch[w] \in [Tasks -> 0..MaxGeneration]
          BY <1>0 DEF TypeOK
        <5>2. QED
          BY <2>1, <5>1
      <4>2. batch' = [batch EXCEPT ![w] = [batch[w] EXCEPT ![k] = 0]]
        BY <1>5 DEF Complete, Fail, Release
      <4>3. QED
        BY <1>0, <4>1, <4>2 DEF TypeOK
    <3>4. job' \in [Workers -> Jobs]
      BY <1>0, <1>5 DEF TypeOK, Jobs, Complete, Fail, Release
    <3>5. failures' \in 0..MaxFailures /\ abandons' \in 0..MaxAbandons
      BY <1>0, <1>5 DEF TypeOK, Complete, Fail
    <3>6. QED
      BY <3>1, <3>2, <3>3, <3>4, <3>5 DEF TypeOK
  <2>7. OneWorkerPerTask'
    BY <2>1, <2>2, <2>3, <2>4 DEF QueueInv, OneWorkerPerTask, Holds
  <2>8. \A j \in Tasks : /\ row[j].generation \in Nat
                         /\ shown[j] \in Nat
                         /\ \A v \in Workers : batch[v][j] \in Nat
    BY <1>0 DEF TypeOK, Rows
  <2>9. SatisfiedIsFresh'
    <3>1. row'[k].state = "satisfied" => shown'[k] = row'[k].generation
      BY <2>1, <2>2, <2>4, <2>5, <2>8
    <3>2. QED
      BY <2>4, <2>5, <3>1 DEF QueueInv, SatisfiedIsFresh
  <2>10. ClaimsInOrder'
    BY <2>1, <2>2, <2>3, <2>4, <2>5, <2>8 DEF QueueInv, ClaimsInOrder, Holds
  <2>11. EnqueuedCounts'
    BY <2>2, <2>4 DEF QueueInv, EnqueuedCounts
  <2>12. JobsInOrder'
    <3>1. ASSUME NEW v \in Workers, job'[v] # <<>>
          PROVE  /\ v # w
                 /\ job'[v] = job[v]
                 /\ job[v][1] \in Tasks \ {k}
                 /\ batch'[v] = batch[v]
      BY <1>0, <2>2, <2>3, <3>1, JobParts DEF QueueInv, JobsInOrder
    <3>2. QED
      BY <2>4, <2>5, <3>1 DEF QueueInv, JobsInOrder, Holds
  <2>13. QED
    BY <2>6, <2>7, <2>9, <2>10, <2>11, <2>12 DEF QueueInv
<1>6. ASSUME NEW w \in Workers, Abandon(w) PROVE QueueInv'
  <2>1. /\ UNCHANGED <<row, shown>>
        /\ \A j \in Tasks : batch'[w][j] = 0
        /\ \A v \in Workers \ {w} : batch'[v] = batch[v]
        /\ job'[w] = <<>>
        /\ \A v \in Workers \ {w} : job'[v] = job[v]
    BY <1>0, <1>6 DEF TypeOK, Abandon, NothingClaimed
  <2>2. TypeOK'
    <3>1. NothingClaimed \in [Tasks -> 0..MaxGeneration]
      BY DEF NothingClaimed
    <3>2. abandons' \in 0..MaxAbandons
      BY <1>0, <1>6 DEF TypeOK, Abandon
    <3>3. QED
      BY <1>0, <1>6, <3>1, <3>2 DEF TypeOK, Abandon, Jobs
  <2>3. \A v \in Workers, j \in Tasks :
            Holds(v, j)' => v # w /\ Holds(v, j)
    BY <2>1 DEF Holds
  <2>4. OneWorkerPerTask' /\ SatisfiedIsFresh' /\ ClaimsInOrder'
            /\ EnqueuedCounts'
    BY <2>1, <2>3
    DEF QueueInv, OneWorkerPerTask, SatisfiedIsFresh, ClaimsInOrder,
        EnqueuedCounts, Holds
  <2>5. JobsInOrder'
    BY <1>0, <2>1, JobParts DEF QueueInv, JobsInOrder, Holds
  <2>6. QED
    BY <2>2, <2>4, <2>5 DEF QueueInv
<1>7. CASE UNCHANGED vars
  BY <1>7
  DEF vars, QueueInv, TypeOK, OneWorkerPerTask, SatisfiedIsFresh, JobsInOrder,
      ClaimsInOrder, EnqueuedCounts, Holds
<1>8. QED
  BY <1>1, <1>2, <1>3, <1>4, <1>5, <1>6, <1>7 DEF Next, Work

\* The invariant behind every theorem about the queue.
THEOREM QueueInvariant == Spec => []QueueInv
<1>1. QED
  BY InitInv, NextInv, PTL DEF Spec

\* The table and the workers' memory are well typed; `blocked`, which the
\* schema admits, is never written.
THEOREM TypeCorrect == Spec => []TypeOK
<1>1. QueueInv => TypeOK
  BY DEF QueueInv
<1>2. QED
  BY <1>1, QueueInvariant, PTL

\* A task called satisfied reflects every committed change of its facts.
THEOREM Freshness == Spec => []SatisfiedIsFresh
<1>1. QueueInv => SatisfiedIsFresh
  BY DEF QueueInv
<1>2. QED
  BY <1>1, QueueInvariant, PTL

\* No projection is recomputed by two workers at once.
THEOREM Exclusion == Spec => []OneWorkerPerTask
<1>1. QueueInv => OneWorkerPerTask
  BY DEF QueueInv
<1>2. QED
  BY <1>1, QueueInvariant, PTL
-----------------------------------------------------------------------------
(***************************************************************************)
(* Results move forward, and the queue implements FreshProjection          *)
(***************************************************************************)

\* A step of the queue is a change, a publication or a stutter of the
\* projections it feeds.
LEMMA StepMaps ==
    QueueInv /\ [Next]_vars
        => [Fresh!Next]_<<[k \in Tasks |-> row[k].generation], shown,
                          [k \in Tasks |-> row[k].state = "satisfied"]>>
<1> SUFFICES ASSUME QueueInv, [Next]_vars
             PROVE  [Fresh!Next]_<<[k \in Tasks |-> row[k].generation], shown,
                          [k \in Tasks |-> row[k].state = "satisfied"]>>
  OBVIOUS
<1> DEFINE facts == [k \in Tasks |-> row[k].generation]
           fresh == [k \in Tasks |-> row[k].state = "satisfied"]
<1>0. TypeOK
  BY DEF QueueInv
<1>1. ASSUME NEW k \in Tasks, NEW soon \in BOOLEAN, FactChanges(k, soon)
      PROVE  Fresh!Change(k)
  <2>1. /\ row'[k].generation = row[k].generation + 1
        /\ row'[k].state # "satisfied"
        /\ \A j \in Tasks \ {k} : row'[j] = row[j]
        /\ UNCHANGED shown
    BY <1>0, <1>1 DEF FactChanges, TypeOK, Rows
  <2>2. facts' = [facts EXCEPT ![k] = @ + 1]
    BY <2>1
  <2>3. fresh' = [fresh EXCEPT ![k] = FALSE]
    BY <2>1
  <2>4. QED
    BY <2>1, <2>2, <2>3 DEF Fresh!Change
<1>2. ASSUME NEW w \in Workers, NEW k \in Tasks, k = job[w][1], Complete(w)
      PROVE  Fresh!Publish(k)
  <2> DEFINE v == job[w][2]
             f == row[k].generation = batch[w][k]
  <2>1. k \in Tasks /\ v \in 1..MaxGeneration
    BY <1>0, <1>2, JobParts DEF Complete
  <2>2. /\ batch[w][k] <= v
        /\ v <= row[k].generation
        /\ shown[k] <= v
    BY <1>2, <2>1 DEF QueueInv, JobsInOrder, Complete
  <2>3. /\ shown[k] \in Nat
        /\ row[k].generation \in Nat
        /\ batch[w][k] \in Nat
        /\ MaxGeneration \in Nat
    BY <1>0, <2>1, Bounds DEF TypeOK, Rows
  <2>4. v \in shown[k]..facts[k]
    BY <2>1, <2>2, <2>3
  <2>5. f => v = facts[k]
    BY <2>1, <2>2, <2>3
  <2>6. /\ row'[k].generation = row[k].generation
        /\ (row'[k].state = "satisfied") = f
        /\ \A j \in Tasks \ {k} : row'[j] = row[j]
        /\ shown' = [shown EXCEPT ![k] = v]
    BY <1>0, <1>2, <2>1 DEF Complete, TypeOK, Rows
  <2>7. facts' = facts
    BY <2>6
  <2>8. fresh' = [fresh EXCEPT ![k] = f]
    BY <2>6
  <2>9. f \in BOOLEAN
    OBVIOUS
  <2>10. QED
    BY <2>4, <2>5, <2>6, <2>7, <2>8, <2>9 DEF Fresh!Publish
<1>3. ASSUME /\ UNCHANGED shown
             /\ \A k \in Tasks :
                   /\ row'[k].generation = row[k].generation
                   /\ (row'[k].state = "satisfied")
                        = (row[k].state = "satisfied")
      PROVE  UNCHANGED <<facts, shown, fresh>>
  BY <1>3
<1>4. ASSUME NEW k \in Tasks, TimePasses(k)
      PROVE  UNCHANGED <<facts, shown, fresh>>
  BY <1>0, <1>3, <1>4 DEF TimePasses, TypeOK, Rows
<1>5. ASSUME NEW w \in Workers, Claim(w)
      PROVE  UNCHANGED <<facts, shown, fresh>>
  <2>1. PICK S \in SUBSET Claimable :
            row' = [k \in Tasks |->
                       IF k \in S THEN [row[k] EXCEPT !.state = "running"]
                       ELSE row[k]]
    BY <1>5 DEF Claim
  <2>2. \A k \in S : row[k].state # "satisfied"
    BY DEF Claimable
  <2>3. \A k \in Tasks :
            /\ row'[k].generation = row[k].generation
            /\ row'[k].state = IF k \in S THEN "running" ELSE row[k].state
    BY <1>0, <2>1 DEF TypeOK, Rows
  <2>4. UNCHANGED shown
    BY <1>5 DEF Claim
  <2>5. QED
    BY <1>3, <2>2, <2>3, <2>4
<1>6. ASSUME NEW w \in Workers, Fail(w)
      PROVE  UNCHANGED <<facts, shown, fresh>>
  <2> DEFINE k == job[w][1]
  <2>1. k \in Tasks /\ row[k].state = "running"
    BY <1>0, <1>6, JobParts
    DEF Fail, QueueInv, JobsInOrder, OneWorkerPerTask
  <2>2. /\ row'[k].generation = row[k].generation
        /\ row'[k].state \in {"failed", "queued"}
        /\ \A j \in Tasks \ {k} : row'[j] = row[j]
        /\ UNCHANGED shown
    BY <1>0, <1>6, <2>1 DEF Fail, TypeOK, Rows
  <2>3. QED
    BY <1>3, <2>1, <2>2
<1>7. ASSUME UNCHANGED <<row, shown>>
      PROVE  UNCHANGED <<facts, shown, fresh>>
  BY <1>3, <1>7
<1> HIDE DEF facts, fresh
<1>8. ASSUME NEW k \in Tasks, Fresh!Change(k) \/ Fresh!Publish(k)
      PROVE  Fresh!Next
  BY <1>8 DEF Fresh!Next
<1>9. ASSUME NEW w \in Workers, Complete(w) PROVE Fresh!Next
  <2>1. job[w][1] \in Tasks
    BY <1>0, <1>9, JobParts DEF Complete
  <2>2. PICK k \in Tasks : k = job[w][1]
    BY <2>1
  <2>3. Fresh!Publish(k)
    BY <1>2, <1>9, <2>2
  <2>4. QED
    BY <1>8, <2>3
<1>10. Fresh!Next \/ UNCHANGED <<facts, shown, fresh>>
  <2>1. CASE \E k \in Tasks, soon \in BOOLEAN : FactChanges(k, soon)
    BY <1>1, <1>8, <2>1
  <2>2. CASE \E k \in Tasks : TimePasses(k)
    BY <1>4, <2>2
  <2>3. ASSUME NEW w \in Workers, Work(w) \/ Abandon(w)
        PROVE  Fresh!Next \/ UNCHANGED <<facts, shown, fresh>>
    <3>1. (\E k \in Tasks : StartJob(w, k)) \/ Abandon(w)
              => UNCHANGED <<row, shown>>
      BY DEF StartJob, Abandon
    <3>2. QED
      BY <1>5, <1>6, <1>7, <1>9, <2>3, <3>1 DEF Work
  <2>4. CASE UNCHANGED vars
    BY <1>7, <2>4 DEF vars
  <2>5. QED
    BY <2>1, <2>2, <2>3, <2>4 DEF Next
<1>11. QED
  BY <1>10 DEF facts, fresh

\* The queue implements FreshProjection: what it calls fresh is up to date, and
\* only a change of the facts takes that back.
THEOREM QueueImplementsFreshProjection == Spec => ImplementsFreshProjection
<1>1. Init => Fresh!Init
  <2>1. SUFFICES ASSUME Init PROVE Fresh!Init
    OBVIOUS
  <2>2. \A k \in Tasks : /\ row[k].generation = 0
                         /\ (row[k].state = "satisfied") = FALSE
    BY <2>1 DEF Init
  <2>3. shown = [k \in Tasks |-> 0]
    BY <2>1 DEF Init
  <2>4. QED
    BY <2>2, <2>3 DEF Fresh!Init
<1>2. QueueInv /\ [Next]_vars
          => [Fresh!Next]_<<[k \in Tasks |-> row[k].generation], shown,
                            [k \in Tasks |-> row[k].state = "satisfied"]>>
  BY StepMaps
<1>3. QED
  BY <1>1, <1>2, QueueInvariant, PTL
  DEF Spec, ImplementsFreshProjection, Fresh!Spec

\* A stored result is never replaced by one computed from older facts.
THEOREM ResultsForward == Spec => ResultsMoveForward
<1>1. QueueInv /\ [Next]_vars => [\A k \in Tasks : shown'[k] >= shown[k]]_vars
  <2> SUFFICES ASSUME QueueInv, [Next]_vars, NEW k \in Tasks
               PROVE  shown'[k] >= shown[k] \/ UNCHANGED vars
    OBVIOUS
  <2>1. TypeOK
    BY DEF QueueInv
  <2>2. shown[k] \in Nat
    BY <2>1 DEF TypeOK
  <2>3. ASSUME NEW w \in Workers, Complete(w) PROVE shown'[k] >= shown[k]
    <3>1. /\ job[w][1] \in Tasks
          /\ job[w][2] \in Nat
          /\ shown[job[w][1]] <= job[w][2]
      BY <2>1, <2>3, JobParts, Bounds DEF QueueInv, JobsInOrder, Complete
    <3>2. QED
      BY <2>1, <2>2, <2>3, <3>1 DEF Complete, TypeOK
  <2>4. CASE UNCHANGED shown
    BY <2>2, <2>4
  <2>5. QED
    BY <2>3, <2>4
    DEF Next, Work, FactChanges, TimePasses, Claim, StartJob, Fail, Abandon
<1>2. QED
  BY <1>1, QueueInvariant, PTL DEF Spec, ResultsMoveForward
-----------------------------------------------------------------------------
(***************************************************************************)
(* Rows are only lost in running by passes that died.  The bound is not    *)
(* inductive by itself: a pass that dies orphans what it holds, and that   *)
(* this is at most a batch is the second half of the invariant.            *)
(***************************************************************************)
HeldBy(w) == {k \in Tasks : Holds(w, k)}

Orphans == {k \in Tasks : Orphaned(k)}

BatchesAreBounded == \A w \in Workers : Cardinality(HeldBy(w)) <= BatchSize

\* A set of tasks is counted by a natural number, a part of it by a smaller one.
LEMMA TasksCount ==
    ASSUME NEW S \in SUBSET Tasks, NEW T \in SUBSET S
    PROVE  /\ IsFiniteSet(S)
           /\ Cardinality(S) \in Nat
           /\ Cardinality(T) \in Nat
           /\ Cardinality(T) <= Cardinality(S)
<1>1. IsFiniteSet(S)
  BY TaskAssumption, FS_Subset
<1>2. IsFiniteSet(T) /\ Cardinality(T) <= Cardinality(S)
  BY <1>1, FS_Subset
<1>3. QED
  BY <1>1, <1>2, FS_CardinalityType

\* A worker that is done with a task only gives up that task.
LEMMA Released ==
    ASSUME TypeOK, NEW w \in Workers, Release(w), job[w][1] \in Tasks
    PROVE  \A v \in Workers, k \in Tasks :
               batch'[v][k] = IF v = w /\ k = job[w][1] THEN 0 ELSE batch[v][k]
<1>1. batch[w] \in [Tasks -> 0..MaxGeneration]
  BY DEF TypeOK
<1>2. batch' = [batch EXCEPT ![w] = [batch[w] EXCEPT ![job[w][1]] = 0]]
  BY DEF Release
<1>3. batch'[w] = [batch[w] EXCEPT ![job[w][1]] = 0]
  BY <1>2 DEF TypeOK
<1>4. \A v \in Workers \ {w} : batch'[v] = batch[v]
  BY <1>2 DEF TypeOK
<1>5. QED
  BY <1>1, <1>3, <1>4

LEMMA InitBounded == Init => BatchesAreBounded /\ OrphansAreAbandoned
<1> SUFFICES ASSUME Init PROVE BatchesAreBounded /\ OrphansAreAbandoned
  OBVIOUS
<1>1. Orphans = {}
  BY DEF Init, Orphans, Orphaned
<1>2. \A w \in Workers : HeldBy(w) = {}
  BY DEF Init, HeldBy, Holds, NothingClaimed
<1>3. Cardinality({}) = 0
  BY FS_EmptySet
<1>4. BatchesAreBounded
  BY <1>2, <1>3, BatchAssumption DEF BatchesAreBounded
<1>5. abandons * BatchSize = 0
  BY BatchAssumption DEF Init
<1>6. QED
  BY <1>1, <1>3, <1>4, <1>5 DEF OrphansAreAbandoned, Orphans

\* No worker holds more than it did, except the one that claims a batch.
LEMMA BatchesStayBounded ==
    QueueInv /\ BatchesAreBounded /\ [Next]_vars => BatchesAreBounded'
<1> SUFFICES ASSUME QueueInv, BatchesAreBounded, [Next]_vars, NEW w \in Workers
             PROVE  Cardinality(HeldBy(w)') <= BatchSize
  BY DEF BatchesAreBounded
<1>0. TypeOK
  BY DEF QueueInv
<1>1. HeldBy(w) \in SUBSET Tasks /\ HeldBy(w)' \in SUBSET Tasks
  BY DEF HeldBy
<1>2. Cardinality(HeldBy(w)) <= BatchSize
  BY DEF BatchesAreBounded
<1>3. ASSUME HeldBy(w)' \subseteq HeldBy(w)
      PROVE  Cardinality(HeldBy(w)') <= BatchSize
  <2>1. /\ Cardinality(HeldBy(w)') <= Cardinality(HeldBy(w))
        /\ Cardinality(HeldBy(w)') \in Nat
        /\ Cardinality(HeldBy(w)) \in Nat
    BY <1>1, <1>3, TasksCount
  <2>2. QED
    BY <1>2, <2>1, BatchAssumption
<1>4. ASSUME NEW v \in Workers, Claim(v)
      PROVE  Cardinality(HeldBy(w)') <= BatchSize
  <2>1. PICK S \in SUBSET Claimable :
            /\ Cardinality(S) <= BatchSize
            /\ batch' = [batch EXCEPT ![v] =
                   [k \in Tasks |-> IF k \in S THEN row[k].generation ELSE 0]]
    BY <1>4 DEF Claim
  <2>2. CASE w = v
    <3>1. S \in SUBSET Tasks
      BY DEF Claimable
    <3>2. HeldBy(w)' \subseteq S
      BY <1>0, <2>1, <2>2 DEF HeldBy, Holds, TypeOK
    <3>3. /\ Cardinality(HeldBy(w)') <= Cardinality(S)
          /\ Cardinality(HeldBy(w)') \in Nat
          /\ Cardinality(S) \in Nat
      BY <3>1, <3>2, TasksCount
    <3>4. QED
      BY <2>1, <3>3, BatchAssumption
  <2>3. CASE w # v
    <3>1. batch'[w] = batch[w]
      BY <1>0, <2>1, <2>3 DEF TypeOK
    <3>2. QED
      BY <1>3, <3>1 DEF HeldBy, Holds
  <2>4. QED
    BY <2>2, <2>3
<1>5. ASSUME NEW v \in Workers, Complete(v) \/ Fail(v)
      PROVE  HeldBy(w)' \subseteq HeldBy(w)
  <2>1. job[v][1] \in Tasks
    BY <1>0, <1>5, JobParts DEF Complete, Fail
  <2>2. \A k \in Tasks : batch'[w][k] = batch[w][k] \/ batch'[w][k] = 0
    BY <1>5, <2>1, Released DEF Complete, Fail, QueueInv
  <2>3. QED
    BY <2>2 DEF HeldBy, Holds
<1>6. ASSUME NEW v \in Workers, Abandon(v)
      PROVE  HeldBy(w)' \subseteq HeldBy(w)
  BY <1>0, <1>6 DEF Abandon, NothingClaimed, HeldBy, Holds, TypeOK
<1>7. CASE UNCHANGED batch
  BY <1>3, <1>7 DEF HeldBy, Holds
<1>8. QED
  BY <1>3, <1>4, <1>5, <1>6, <1>7
  DEF Next, Work, FactChanges, TimePasses, StartJob, vars

\* Only a pass that dies orphans tasks: those it holds.
LEMMA OrphansStayAbandoned ==
    QueueInv /\ BatchesAreBounded /\ OrphansAreAbandoned /\ [Next]_vars
        => OrphansAreAbandoned'
<1> SUFFICES ASSUME QueueInv, BatchesAreBounded, OrphansAreAbandoned,
                    [Next]_vars
             PROVE  Cardinality(Orphans') <= abandons' * BatchSize
  BY DEF OrphansAreAbandoned, Orphans
<1>0. TypeOK
  BY DEF QueueInv
<1>1. /\ Orphans \in SUBSET Tasks
      /\ Orphans' \in SUBSET Tasks
      /\ Cardinality(Orphans) <= abandons * BatchSize
      /\ abandons \in Nat
      /\ abandons * BatchSize \in Nat
  <2>1. abandons \in Nat
    BY <1>0, Bounds DEF TypeOK
  <2>2. QED
    BY <2>1, BatchAssumption DEF Orphans, OrphansAreAbandoned
<1>2. ASSUME Orphans' \subseteq Orphans, UNCHANGED abandons
      PROVE  Cardinality(Orphans') <= abandons' * BatchSize
  <2>1. /\ Cardinality(Orphans') <= Cardinality(Orphans)
        /\ Cardinality(Orphans') \in Nat
        /\ Cardinality(Orphans) \in Nat
    BY <1>1, <1>2, TasksCount
  <2>2. QED
    BY <1>1, <1>2, <2>1
<1>3. ASSUME UNCHANGED <<batch, abandons>>,
             \A k \in Tasks : row'[k].state = "running"
                                  => row[k].state = "running"
      PROVE  Orphans' \subseteq Orphans
  BY <1>3 DEF Orphans, Orphaned, Holds
<1>4. ASSUME NEW w \in Workers, Claim(w)
      PROVE  Orphans' \subseteq Orphans /\ UNCHANGED abandons
  <2>1. PICK S \in SUBSET Claimable :
            /\ row' = [k \in Tasks |->
                          IF k \in S THEN [row[k] EXCEPT !.state = "running"]
                          ELSE row[k]]
            /\ batch' = [batch EXCEPT ![w] =
                   [k \in Tasks |-> IF k \in S THEN row[k].generation ELSE 0]]
    BY <1>4 DEF Claim
  <2>2. \A k \in S : Holds(w, k)'
    <3>1. \A k \in S : k \in Tasks /\ row[k].generation > 0
      BY DEF Claimable, QueueInv, EnqueuedCounts
    <3>2. QED
      BY <1>0, <2>1, <3>1 DEF Holds, TypeOK
  <2>3. \A k \in Tasks \ S : /\ row'[k] = row[k]
                             /\ \A v \in Workers : Holds(v, k) => Holds(v, k)'
    <3>1. \A k \in Tasks : ~Holds(w, k)
      BY <1>4 DEF Claim, Holds, NothingClaimed
    <3>2. QED
      BY <1>0, <2>1, <3>1 DEF Holds, TypeOK
  <2>4. UNCHANGED abandons
    BY <1>4 DEF Claim
  <2>5. QED
    BY <2>2, <2>3, <2>4 DEF Orphans, Orphaned
<1>5. ASSUME NEW w \in Workers, Complete(w) \/ Fail(w)
      PROVE  Orphans' \subseteq Orphans /\ UNCHANGED abandons
  <2> DEFINE k == job[w][1]
  <2>1. k \in Tasks
    BY <1>0, <1>5, JobParts DEF Complete, Fail
  <2>2. /\ row'[k].state # "running"
        /\ \A j \in Tasks \ {k} : row'[j] = row[j]
    <3>1. CASE Complete(w)
      BY <1>0, <2>1, <3>1 DEF TypeOK, Rows, Complete
    <3>2. CASE Fail(w)
      BY <1>0, <2>1, <3>2 DEF TypeOK, Rows, Fail
    <3>3. QED
      BY <1>5, <3>1, <3>2
  <2>3. \A v \in Workers, j \in Tasks \ {k} : batch'[v][j] = batch[v][j]
    BY <1>5, <2>1, Released DEF Complete, Fail, QueueInv
  <2>4. UNCHANGED abandons
    BY <1>5 DEF Complete, Fail
  <2>5. QED
    BY <2>2, <2>3, <2>4 DEF Orphans, Orphaned, Holds
<1>6. ASSUME NEW w \in Workers, Abandon(w)
      PROVE  Cardinality(Orphans') <= abandons' * BatchSize
  <2>1. Orphans' \subseteq Orphans \union HeldBy(w)
    BY <1>0, <1>6
    DEF Abandon, TypeOK, Orphans, Orphaned, HeldBy, Holds
  <2>2. /\ IsFiniteSet(Orphans)
        /\ IsFiniteSet(HeldBy(w))
        /\ Cardinality(Orphans) \in Nat
        /\ Cardinality(HeldBy(w)) \in Nat
    BY <1>1, TasksCount DEF HeldBy
  <2>3. Orphans \union HeldBy(w) \in SUBSET Tasks
    BY DEF Orphans, HeldBy
  <2>4. Cardinality(Orphans \union HeldBy(w))
            <= Cardinality(Orphans) + Cardinality(HeldBy(w))
    <3>1. IsFiniteSet(Orphans \cap HeldBy(w))
      BY <2>2, FS_Subset
    <3>2. Cardinality(Orphans \cap HeldBy(w)) \in Nat
      BY <3>1, FS_CardinalityType
    <3>3. Cardinality(Orphans \union HeldBy(w))
              = Cardinality(Orphans) + Cardinality(HeldBy(w))
                    - Cardinality(Orphans \cap HeldBy(w))
      BY <2>2, FS_Union
    <3>4. QED
      BY <2>2, <3>2, <3>3
  <2>5. /\ Cardinality(Orphans') <= Cardinality(Orphans \union HeldBy(w))
        /\ Cardinality(Orphans') \in Nat
        /\ Cardinality(Orphans \union HeldBy(w)) \in Nat
    BY <2>1, <2>3, TasksCount
  <2>6. Cardinality(HeldBy(w)) <= BatchSize
    BY DEF BatchesAreBounded
  <2>7. abandons' * BatchSize = abandons * BatchSize + BatchSize
    <3>1. abandons' = abandons + 1
      BY <1>6 DEF Abandon
    <3>2. (abandons + 1) * BatchSize = abandons * BatchSize + BatchSize
      BY <1>1, BatchAssumption
    <3>3. QED
      BY <3>1, <3>2
  <2>8. QED
    BY <1>1, <2>2, <2>4, <2>5, <2>6, <2>7, BatchAssumption
<1>7. ASSUME \/ \E k \in Tasks, soon \in BOOLEAN : FactChanges(k, soon)
             \/ \E k \in Tasks : TimePasses(k)
             \/ \E w \in Workers, k \in Tasks : StartJob(w, k)
             \/ UNCHANGED vars
      PROVE  Orphans' \subseteq Orphans /\ UNCHANGED abandons
  <2>1. \A k \in Tasks : row'[k].state = "running" => row[k].state = "running"
    <3>1. ASSUME NEW k \in Tasks, NEW j \in Tasks,
                 \E soon \in BOOLEAN : FactChanges(j, soon)
          PROVE  row'[k].state = "running" => row[k].state = "running"
      BY <1>0, <3>1 DEF FactChanges, TypeOK, Rows
    <3>2. ASSUME NEW k \in Tasks, NEW j \in Tasks, TimePasses(j)
          PROVE  row'[k].state = "running" => row[k].state = "running"
      BY <1>0, <3>2 DEF TimePasses, TypeOK, Rows
    <3>3. QED
      BY <1>7, <3>1, <3>2 DEF StartJob, vars
  <2>2. UNCHANGED <<batch, abandons>>
    BY <1>7 DEF FactChanges, TimePasses, StartJob, vars
  <2>3. QED
    BY <1>3, <2>1, <2>2
<1>8. QED
  BY <1>2, <1>4, <1>5, <1>6, <1>7 DEF Next, Work

\* At most a batch per pass that died is stuck in running, for any number of
\* tasks and workers.
THEOREM OrphansBounded == Spec => []OrphansAreAbandoned
<1>1. Init => BatchesAreBounded /\ OrphansAreAbandoned
  BY InitBounded
<1>2. QueueInv /\ BatchesAreBounded /\ OrphansAreAbandoned /\ [Next]_vars
          => BatchesAreBounded' /\ OrphansAreAbandoned'
  BY BatchesStayBounded, OrphansStayAbandoned
<1>3. QED
  BY <1>1, <1>2, QueueInvariant, PTL DEF Spec
=============================================================================
