---------------------------- MODULE BrainStatus ----------------------------
(***************************************************************************)
(* What the brain loop says of one symbol: whether it is blocked, due,     *)
(* waiting, stale or fresh, and what comes next.                           *)
(*                                                                         *)
(* An instant is its age in minutes.  What may be absent is a set of at    *)
(* most one element.                                                       *)
(***************************************************************************)
EXTENDS Integers

Earliest(ages) == {a \in ages : \A b \in ages : a <= b}

\* age_freshness
AgeFreshness(age, limit) ==
    IF age = {} THEN "missing" ELSE IF \E a \in age : a <= limit THEN "fresh" ELSE "stale"

-----------------------------------------------------------------------------
(***************************************************************************)
(* source_health_group, of the rows of one source or of two                *)
(***************************************************************************)
RunningLimit == 15

StaleRunning(row) ==
    row.status = "running" /\ \E a \in row.started : a > RunningLimit

EffectiveStatus(row) == IF StaleRunning(row) THEN "stale_running" ELSE row.status

SourceStatus(rows, limit) ==
    IF rows = {} THEN "missing"
    ELSE IF \E r \in rows : r.failure = "rate_limited" THEN "rate_limited"
    ELSE IF \E r \in rows : r.status = "failed" THEN "failed"
    ELSE IF \E r \in rows : EffectiveStatus(r) = "running" THEN "running"
    ELSE AgeFreshness(Earliest(UNION {r.success \union r.started : r \in rows}), limit)

IsBlocked(status) == status \in {"rate_limited", "failed"}
IsDated(status) == status \in {"stale", "missing", "rate_limited", "failed"}

-----------------------------------------------------------------------------
(***************************************************************************)
(* get_brain_status: the input of the decision                             *)
(***************************************************************************)
\* Sources and how old, in minutes, their last check may be.
CheckLimits ==
    [price |-> 30, news |-> 30, estimates |-> 30, analyst_opinion |-> 30, profile |-> 30,
     earnings |-> 30, filings |-> 30, research |-> 24 * 60, fundamentals |-> 360]

Sources == DOMAIN CheckLimits

\* The bars of the price source count by their session, not by their check.
PriceStatus(session, expected) ==
    IF session = {} THEN "missing"
    ELSE IF \E d \in session : d >= expected THEN "fresh" ELSE "stale"

IsMaterial(task) == task.state = "satisfied" /\ task.result = "rows_seen"

\* Later than the evaluation of the thesis or, without one, than the decline.
IsNewer(age, thesis, decline) ==
    \E a \in age :
        IF thesis # {} THEN \E t \in thesis : a < t
        ELSE decline = {} \/ \E d \in decline : a < d

BrainInput(s) ==
    LET health == [n \in Sources |-> SourceStatus(s.health[n], CheckLimits[n])]
        tasks == Earliest(UNION {t.updated : t \in {u \in s.tasks : IsMaterial(u)}})
    IN  [evidence |-> s.evidence, context |-> s.context # {}, thesis |-> s.thesis # {},
         sourceDelta |-> IsNewer(tasks, s.thesis, s.decline),
         evidenceDelta |-> IsNewer(s.item, s.thesis, s.decline),
         contextStale |-> AgeFreshness(s.context, 12 * 60) = "stale",
         thesisStale |-> AgeFreshness(s.thesis, 30) = "stale",
         \* The status of the fundamentals counts when it blocks only.
         sourceStale |->
            \/ IsDated(PriceStatus(s.session, s.expected))
            \/ \E n \in Sources \ {"price", "fundamentals"} : IsDated(health[n]),
         blocked |-> \E n \in Sources : IsBlocked(health[n])]

-----------------------------------------------------------------------------
(***************************************************************************)
(* decide                                                                  *)
(***************************************************************************)
Due(action) == [status |-> "due", next |-> action]
Waiting(action) == [status |-> "waiting_on_evidence", next |-> action]
Stale(action) == [status |-> "stale", next |-> action]

Decision(b) ==
    IF b.blocked THEN [status |-> "blocked", next |-> "wait_for_source_retry"]
    ELSE IF b.evidence.rows = 0 THEN Due("initialize_evidence")
    ELSE IF b.evidence.blocking > 0 THEN Waiting("fetch_blocking_evidence")
    ELSE IF ~b.context THEN Due("refresh_context")
    ELSE IF b.sourceDelta
    THEN Due(IF b.thesis THEN "reevaluate_after_source_update" ELSE "draft_after_source_update")
    ELSE IF b.evidenceDelta
    THEN Due(IF b.thesis THEN "reevaluate_after_evidence_update" ELSE "draft_after_evidence_update")
    ELSE IF b.evidence.due > 0 THEN Due("retry_evidence")
    ELSE IF ~b.thesis
    THEN IF b.evidence.open > 0 THEN Waiting("wait_for_evidence_retry")
         ELSE Due("draft_or_decline_thesis")
    ELSE IF b.thesisStale THEN Due("reevaluate_thesis")
    ELSE IF b.contextStale THEN Stale("refresh_context")
    ELSE IF b.evidence.open > 0 THEN Waiting("wait_for_evidence_retry")
    ELSE IF b.sourceStale THEN Stale("refresh_sources")
    ELSE [status |-> "fresh", next |-> "monitor"]

BrainStatusOf(s) ==
    IF s.active THEN Decision(BrainInput(s))
    ELSE [status |-> "not_monitored", next |-> "add_to_universe"]
=============================================================================
