------------------------- MODULE ConditionEvaluation -------------------------
(***************************************************************************)
(* The conditions of one thesis, and the three processes that write them.  *)
(*                                                                         *)
(* A thesis keeps its conditions in a JSON array.  The evaluator reads the *)
(* whole array, resolves the metric of each open condition and writes a    *)
(* verdict; the staler reads the array, marks the overdue open conditions  *)
(* stale and warns of each; a redraft of the thesis replaces the array.    *)
(* The first two write back by position, long after they read, and none    *)
(* of the three looks at what it overwrites.                               *)
(*                                                                         *)
(* One array stands for the four (conviction, trigger, invalidation,       *)
(* fulfillment), which nothing relates.  A condition's deadline is kept as *)
(* "is it past?", and the latest value of its metric as what it says of    *)
(* the target.                                                             *)
(***************************************************************************)
EXTENDS Naturals

CONSTANTS
    MaxLength,  \* conditions in the array
    MaxVersion, \* bound: drafts of the thesis
    MaxFaults   \* bound: failed statements, and passes that die

ASSUME BoundAssumption ==
    /\ {MaxLength, MaxFaults} \subseteq Nat
    /\ MaxVersion \in Nat \ {0}

VARIABLES
    conditions,  \* the array
    version,     \* thesis.version: which draft the array is of
    evaluator,   \* the evaluator's pass: the rows to do and the verdict at hand
    staler,      \* the staler's pass: the rows to mark and warn of
    faults

vars == <<conditions, version, evaluator, staler, faults>>

Positions == 1..MaxLength
Versions == 1..MaxVersion

Verdicts == {"satisfied", "refuted", "inconclusive"}
\* "missing" is a condition without the key: drafts do not write one.
Statuses == {"missing", "pending", "stale"} \union Verdicts
Deadlines == {"none", "ahead", "past"}
Readings == {"none", "short", "met"}

\* `writer` is the draft that the last status written here was meant for (0
\* is none); it is not in the database.
Conditions == [measured : BOOLEAN,       \* its target parses
               deadline : Deadlines,
               reading  : Readings,
               status   : Statuses,
               writer   : 0..MaxVersion]

\* What a draft writes.  A metric that has a value already gets it in a step
\* of its own (ReadingMoves), before anything else happens.
Drafted == [measured : BOOLEAN, deadline : {"none", "ahead"},
            reading : {"none"}, status : {"missing"}, writer : {0}]

ArraysOf(S) == UNION {[1..n -> S] : n \in 0..MaxLength}

Drafts == ArraysOf(Drafted)

\* A row of v_condition as a pass has read it; late: past at the pass's now.
Rows == [position : Positions, version : Versions, late : BOOLEAN]

Idle == [todo |-> {}, hand |-> <<>>]   \* of the evaluator

TypeOK ==
    /\ conditions \in ArraysOf(Conditions)
    /\ version \in Versions
    /\ evaluator \in [todo : SUBSET Rows,
                      hand : {<<>>} \union (Rows \X Verdicts)]
    /\ staler \in SUBSET Rows
    /\ faults \in 0..MaxFaults

Init ==
    /\ conditions \in Drafts
    /\ version = 1
    /\ evaluator = Idle
    /\ staler = {}
    /\ faults = 0

\* COALESCE(cond->>'status', 'pending'), in v_condition.
ViewStatus(c) == IF c.status = "missing" THEN "pending" ELSE c.status

\* The rows of a SELECT on v_condition.
RowOf(p) == [position |-> p, version |-> version,
             late |-> conditions[p].deadline = "past"]

-----------------------------------------------------------------------------
(***************************************************************************)
(* The world, and the thesis engine.                                       *)
(***************************************************************************)
DeadlinePasses(p) ==
    /\ conditions[p].deadline = "ahead"
    /\ conditions' = [conditions EXCEPT ![p].deadline = "past"]
    /\ UNCHANGED <<version, evaluator, staler, faults>>

\* A filing or a price bar: the metric has a value, or another one.
ReadingMoves(p, reading) ==
    /\ conditions[p].measured
    /\ reading \in Readings \ {"none", conditions[p].reading}
    /\ conditions' = [conditions EXCEPT ![p].reading = reading]
    /\ UNCHANGED <<version, evaluator, staler, faults>>

\* _reconcile_existing_thesis, in one transaction.
Redraft ==
    /\ version < MaxVersion
    /\ version' = version + 1
    /\ conditions' \in Drafts
    /\ UNCHANGED <<evaluator, staler, faults>>

-----------------------------------------------------------------------------
(***************************************************************************)
(* The evaluator.                                                          *)
(***************************************************************************)
EvaluatedStatesPending == {"pending"}   \* deliberate error: judged only once

EvaluatedStatesAll ==   \* deliberate error: a verdict is revised
    {"pending", "inconclusive", "satisfied", "refuted"}

EvaluatedStates == {"pending", "inconclusive"}

FetchRows ==
    /\ evaluator = Idle
    /\ LET open == {p \in DOMAIN conditions :
                       /\ ViewStatus(conditions[p]) \in EvaluatedStates
                       /\ conditions[p].measured}
       IN  /\ open # {}
           /\ evaluator' = [Idle EXCEPT !.todo = {RowOf(p) : p \in open}]
    /\ UNCHANGED <<conditions, version, staler, faults>>

EvaluateEager(reading, late) ==   \* deliberate error: deadline not consulted
    CASE reading = "none"  -> "inconclusive"
      [] reading = "met"   -> "satisfied"
      [] reading = "short" -> "refuted"

EvaluatePatient(reading, late) ==   \* deliberate error: nothing is refuted
    CASE reading = "none"  -> "inconclusive"
      [] reading = "met"   -> "satisfied"
      [] reading = "short" -> "pending"

Evaluate(reading, late) ==
    CASE reading = "none"  -> "inconclusive"
      [] reading = "met"   -> "satisfied"
      [] reading = "short" -> IF late THEN "refuted" ELSE "pending"

\* resolve_metric and evaluate.  The target is the one the pass read: when the
\* thesis has been redrafted since, its metric may read anything.
Judge(r) ==
    /\ evaluator.hand = <<>>
    /\ r \in evaluator.todo
    /\ \E reading \in (IF r.version = version THEN {conditions[r.position].reading}
                       ELSE Readings) :
          LET verdict == Evaluate(reading, r.late) IN
          evaluator' = [todo |-> evaluator.todo \ {r},
                        hand |-> IF verdict = "pending" THEN <<>>
                                 ELSE <<r, verdict>>]
    /\ UNCHANGED <<conditions, version, staler, faults>>

\* resolve_metric fails: the row is skipped.
SkipRow(r) ==
    /\ faults < MaxFaults
    /\ faults' = faults + 1
    /\ evaluator.hand = <<>>
    /\ r \in evaluator.todo
    /\ evaluator' = [evaluator EXCEPT !.todo = @ \ {r}]
    /\ UNCHANGED <<conditions, version, staler>>

SetStatusAppends(r, status) ==   \* deliberate error: the element is created
    IF r.position \in DOMAIN conditions
    THEN [conditions EXCEPT ![r.position].status = status,
                            ![r.position].writer = r.version]
    ELSE [p \in 1..r.position |-> [status |-> status]]

\* jsonb_set(..., ARRAY[position, 'status'], ...) on what is there now; an
\* element that is no longer there is not created.
SetStatus(r, status) ==
    IF r.position \in DOMAIN conditions
    THEN [conditions EXCEPT ![r.position].status = status,
                            ![r.position].writer = r.version]
    ELSE conditions

\* update_condition_status.
WriteVerdict ==
    /\ evaluator.hand # <<>>
    /\ conditions' = SetStatus(evaluator.hand[1], evaluator.hand[2])
    /\ evaluator' = [evaluator EXCEPT !.hand = <<>>]
    /\ UNCHANGED <<version, staler, faults>>

\* The update fails and is logged, or the process dies.
LoseVerdict ==
    /\ faults < MaxFaults
    /\ faults' = faults + 1
    /\ evaluator.hand # <<>>
    /\ evaluator' \in {Idle, [evaluator EXCEPT !.hand = <<>>]}
    /\ UNCHANGED <<conditions, version, staler>>

-----------------------------------------------------------------------------
(***************************************************************************)
(* The staler.                                                             *)
(***************************************************************************)
FindStale ==
    /\ staler = {}
    /\ LET overdue == {p \in DOMAIN conditions :
                          /\ ViewStatus(conditions[p]) = "pending"
                          /\ conditions[p].deadline = "past"}
       IN  /\ overdue # {}
           /\ staler' = {RowOf(p) : p \in overdue}
    /\ UNCHANGED <<conditions, version, evaluator, faults>>

\* mark_stale, jsonb_set with create_if_missing = false, and then the
\* risk.warning, which is published whether or not anything was marked.
MarkStale(r) ==
    /\ r \in staler
    /\ conditions' = IF /\ r.position \in DOMAIN conditions
                        /\ conditions[r.position].status # "missing"
                     THEN SetStatus(r, "stale")
                     ELSE conditions
    /\ staler' = staler \ {r}
    /\ UNCHANGED <<version, evaluator, faults>>

\* The update fails and is logged, or the process dies.
SkipMark(r) ==
    /\ faults < MaxFaults
    /\ faults' = faults + 1
    /\ r \in staler
    /\ staler' \in {{}, staler \ {r}}
    /\ UNCHANGED <<conditions, version, evaluator>>

-----------------------------------------------------------------------------
World ==
    \/ \E p \in DOMAIN conditions :
          \/ DeadlinePasses(p)
          \/ \E reading \in Readings : ReadingMoves(p, reading)
    \/ Redraft

Evaluator ==
    \/ FetchRows
    \/ \E r \in evaluator.todo : Judge(r)
    \/ WriteVerdict

Staler ==
    \/ FindStale
    \/ \E r \in staler : MarkStale(r)

Faults ==
    \/ \E r \in evaluator.todo : SkipRow(r)
    \/ LoseVerdict
    \/ \E r \in staler : SkipMark(r)

Next == World \/ Evaluator \/ Staler \/ Faults

Spec == Init /\ [][Next]_vars

\* Each service runs a pass at every tick and finishes it.
FairSpec == Spec /\ WF_vars(Evaluator) /\ WF_vars(Staler)

-----------------------------------------------------------------------------
Judged(c) == c.status \in {"satisfied", "refuted"}

Settled(c) == Judged(c) \/ c.status = "stale"

Overdue(c) == c.deadline = "past"

\* A status that was written for this very condition, and not for one that a
\* redraft has since removed, says the condition is overdue only when it is:
\* evaluate refutes, and find_stale finds, at a `now` past the deadline, and
\* no interleaving of the two services lets it be otherwise.
OverdueStatusIsOverdue ==
    \A p \in DOMAIN conditions :
        conditions[p].status \in {"refuted", "stale"}
            => conditions[p].writer # version \/ Overdue(conditions[p])

\* The evaluator does not reopen or reverse its own verdict while the thesis
\* is not redrafted, although it writes what it read one pass ago: at most the
\* staler overwrites it.
VerdictsAreNotReversed ==
    [][\A p \in DOMAIN conditions :
           Judged(conditions[p]) /\ version' = version
               => conditions'[p].status \in {conditions[p].status, "stale"}]_vars

Has(p, v) == version = v /\ p \in DOMAIN conditions

\* A condition is settled once it is overdue, if its metric has a value: a
\* pass that read it too early or lost its write is made good by a later one.
OverdueMeasuredSettles ==
    \A p \in Positions, v \in Versions :
        (/\ Has(p, v)
         /\ Overdue(conditions[p])
         /\ conditions[p].reading # "none")
        ~> (Has(p, v) => Settled(conditions[p]))

\* "inconclusive (skipped this pass; will try again next tick)": a condition
\* whose metric was missing is judged when the metric arrives.
LateReadingIsJudged ==
    \A p \in Positions, v \in Versions :
        (/\ Has(p, v)
         /\ conditions[p].status = "inconclusive"
         /\ conditions[p].reading = "met")
        ~> (Has(p, v) => \/ conditions[p].reading # "met"
                         \/ Settled(conditions[p]))

\* evaluator.rs: "observed satisfies the target -> status = `satisfied`
\* (terminal)".  Refuted by the staler, which marks what it found pending.
SatisfiedIsTerminal ==
    [][\A p \in DOMAIN conditions :
           conditions[p].status = "satisfied" /\ version' = version
               => conditions'[p].status = "satisfied"]_vars

\* staleness.rs: "marks past-deadline pending conditions as stale".  Refuted
\* by a condition without a metric, which has no status key to overwrite.
OverdueIsSettled ==
    \A p \in Positions, v \in Versions :
        (Has(p, v) /\ Overdue(conditions[p]))
        ~> (Has(p, v) => ViewStatus(conditions[p]) # "pending")
=============================================================================
