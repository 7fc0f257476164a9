----------------------------- MODULE SourceTasks -----------------------------
(***************************************************************************)
(* The work queue source_task and the loops that answer it.                *)
(*                                                                         *)
(* A task asks one provider action for one target.  Every ingest loop      *)
(* draws a list of symbols, marks their due tasks of its own actions as    *)
(* fetching, polls every symbol of the list, claimed or not, and writes a  *)
(* verdict for all of them.  The gateway and the evidence planner put      *)
(* tasks back into the queue meanwhile.                                    *)
(*                                                                         *)
(* The loops differ in what they do with an answer and with an error.      *)
(* `Verdicts` gives, per loop, every outcome one pass can write.           *)
(***************************************************************************)
EXTENDS Naturals, FiniteSets

CONSTANTS
    Symbols,        \* targets of scope symbol
    Tracked,        \* symbols that are active tickers
    Loops,          \* the loops that run, a subset of DOMAIN Serves
    Listed,         \* symbols a pass takes at most
    MaxRequests,    \* bound: tasks put back by the gateway or the planner
    MaxErrors       \* bound: passes cut short and restarts

Market == "macro_regime"

\* The actions each loop claims and completes.
Serves == [
    fmp_price            |-> {"fmp_price_backfill"},
    fmp_live_bars        |-> {"fmp_live_bars"},
    fmp_estimates        |-> {"fmp_analyst_estimates"},
    fmp_analyst_opinion  |-> {"fmp_price_target_consensus", "fmp_grades_historical",
                              "fmp_price_target_news", "fmp_grades_latest_news"},
    fmp_profile_calendar |-> {"fmp_company_profile", "fmp_earnings_calendar"},
    news                 |-> {"fmp_news", "massive_news", "llm_sentiment_scoring"},
    xbrl                 |-> {"sec_company_tickers_cik_lookup",
                              "sec_companyfacts_xbrl"},
    edgar                |-> {"sec_edgar_submissions"},
    cboe                 |-> {"cboe_crowd_sentiment"},
    fred                 |-> {"fred_macro"}]

ASSUME LoopAssumption == Loops \subseteq DOMAIN Serves
ASSUME TrackedAssumption == Tracked \subseteq Symbols
ASSUME SourceBoundAssumption == {Listed, MaxRequests, MaxErrors} \subseteq Nat

\* Two loops serve the one market-wide target.
Benchmark == {"cboe", "fred"}

\* Its run_once(..).await? leaves the loop: the first error ends it for good.
Fragile == {"fmp_profile_calendar"}

Subjects == Symbols \union {Market}
SubjectsOf(l) == IF l \in Benchmark THEN {Market} ELSE Symbols
TasksOf(l) == Serves[l] \X SubjectsOf(l)
Tasks == UNION {TasksOf(l) : l \in Loops}

VARIABLES
    task,      \* source_task; stale is "not touched for 15 minutes"
    pass,      \* per loop, the targets of the pass in progress
    alive,     \* the loops that have not returned
    health,    \* source_health.last_status per loop
    requests,
    errors

taskVars == <<task, pass, alive, health, requests, errors>>

Settled == {"satisfied", "no_rows", "failed", "rate_limited"}
Claimables == {"queued"} \union Settled
TaskRows == [state : {"absent", "fetching"} \union Claimables,
             due : BOOLEAN, stale : BOOLEAN]

TaskTypeOK ==
    /\ task \in [Tasks -> TaskRows]
    /\ pass \in [Loops -> SUBSET Subjects]
    /\ alive \subseteq Loops
    /\ health \in [Loops -> {"unknown", "running", "ok", "failed", "rate_limited"}]
    /\ requests \in 0..MaxRequests
    /\ errors \in 0..MaxErrors

NoTask == [state |-> "absent", due |-> FALSE, stale |-> FALSE]
Queued == [state |-> "queued", due |-> TRUE, stale |-> FALSE]

TaskInit ==
    /\ task = [t \in Tasks |-> NoTask]
    /\ pass = [l \in Loops |-> {}]
    /\ alive = Loops
    /\ health = [l \in Loops |-> "unknown"]
    /\ requests = 0
    /\ errors = 0

-----------------------------------------------------------------------------
Claimable(t) ==
    \/ task[t].state \in Claimables /\ task[t].due
    \/ task[t].state = "fetching" /\ task[t].stale

HasDueTaskUnclaimed(x) ==   \* deliberate error: a stale claim is not taken over
    \E t \in Tasks : t[2] = x /\ task[t].state \in Claimables /\ task[t].due

HasDueTask(x) == \E t \in Tasks : t[2] = x /\ Claimable(t)

\* priority_scan_symbols: symbols with work due, of any loop, come first, then
\* the active tickers.  The order among equals depends on priorities and on
\* clocks, newest first; here it is any.
ScanRank(x) == IF HasDueTask(x) THEN 0 ELSE 1

ScanLists ==
    LET eligible == Tracked \union {x \in Symbols : HasDueTask(x)}
    IN  {S \in SUBSET eligible :
            /\ Cardinality(S) <= Listed
            /\ Cardinality(S) < Listed => S = eligible
            /\ \A x \in S, y \in eligible \ S : ScanRank(x) <= ScanRank(y)}

-----------------------------------------------------------------------------
(***************************************************************************)
(* What a pass of each loop over the targets X may write.                  *)
(***************************************************************************)
Answers == {"satisfied", "no_rows"}
Failures == {"failed", "rate_limited"}

Uniform(K, X, states) == {[t \in K \X X |-> s] : s \in states}

\* One request per symbol and a verdict for each.
EstimatesVerdicts(X) ==
    [Serves.fmp_estimates \X X -> Answers \union Failures]

\* A symbol whose fetch failed is not told apart from one without rows.
LiveBarVerdicts(X) == [Serves.fmp_live_bars \X X -> Answers]

\* The Taiwan symbols and the others are two batches; each stands or falls
\* whole.
PriceVerdicts(X) ==
    UNION {{[t \in Serves.fmp_price \X X |-> IF t[2] \in Taiwan THEN v[t] ELSE w[t]] :
                v, w \in [Serves.fmp_price \X X -> Answers]
                             \union Uniform(Serves.fmp_price, X, Failures)} :
           Taiwan \in SUBSET X}

\* One fetch per symbol covers three actions; the grade feed is one request
\* for all symbols.
GradeFeed == {"fmp_grades_latest_news"}
OpinionVerdicts(X) ==
    LET perSymbol == Serves.fmp_analyst_opinion \ GradeFeed IN
    {v \in [Serves.fmp_analyst_opinion \X X -> Answers \union Failures] :
        /\ \A x \in X, a, b \in perSymbol :
              v[<<a, x>>] \in Failures => v[<<b, x>>] = v[<<a, x>>]
        /\ \A a \in GradeFeed, x, y \in X :
              v[<<a, x>>] \in Failures => v[<<a, y>>] = v[<<a, x>>]}

\* scan_one catches the errors of its two requests one by one.
ProfileVerdicts(X) ==
    [Serves.fmp_profile_calendar \X X -> Answers \union Failures]

\* Each provider answers for itself; the scorer knows no rate limit.
NewsVerdicts(X) ==
    {v \in [Serves.news \X X -> Answers \union Failures] :
        \A x \in X : v[<<"llm_sentiment_scoring", x>>] # "rate_limited"}

\* A symbol without a CIK has no facts to fetch.
XbrlVerdicts(X) ==
    LET cik == "sec_company_tickers_cik_lookup"
        facts == "sec_companyfacts_xbrl"
    IN  {v \in [Serves.xbrl \X X -> Answers \union {"failed"}] :
            \A x \in X : /\ v[<<cik, x>>] \in Answers
                         /\ v[<<cik, x>>] = "no_rows" => v[<<facts, x>>] = "no_rows"}
        \union Uniform(Serves.xbrl, X, Failures)

\* Filings that cannot be stored or published fail the whole list.
EdgarVerdicts(X) ==
    [Serves.edgar \X X -> Answers \union {"failed"}]
        \union Uniform(Serves.edgar, X, Failures)

\* Rows that were seen before count as none: only an insert satisfies.
CboeVerdicts(X) == [Serves.cboe \X X -> Answers \union Failures]

FredVerdicts(X) == [Serves.fred \X X -> Answers \union Failures]

Verdicts(l, X) ==
    CASE l = "fmp_price"            -> PriceVerdicts(X)
      [] l = "fmp_live_bars"        -> LiveBarVerdicts(X)
      [] l = "fmp_estimates"        -> EstimatesVerdicts(X)
      [] l = "fmp_analyst_opinion"  -> OpinionVerdicts(X)
      [] l = "fmp_profile_calendar" -> ProfileVerdicts(X)
      [] l = "news"                 -> NewsVerdicts(X)
      [] l = "xbrl"                 -> XbrlVerdicts(X)
      [] l = "edgar"                -> EdgarVerdicts(X)
      [] l = "cboe"                 -> CboeVerdicts(X)
      [] l = "fred"                 -> FredVerdicts(X)

-----------------------------------------------------------------------------
(***************************************************************************)
(* Requests                                                                *)
(***************************************************************************)
\* The upsert of queue_symbol_research and of the chat route: a task being
\* fetched keeps its state and its due time, as does one that is rate limited
\* and whose pause is not over; both count as touched.
Request(t) ==
    /\ requests < MaxRequests
    /\ requests' = requests + 1
    /\ task' = [task EXCEPT ![t] =
           IF @.state = "fetching" \/ (@.state = "rate_limited" /\ ~@.due)
           THEN [@ EXCEPT !.stale = FALSE] ELSE Queued]
    /\ UNCHANGED <<pass, alive, health, errors>>

\* A due time or a pause is reached.
ComesDue(t) ==
    /\ task[t].state \in Claimables
    /\ ~task[t].due
    /\ task' = [task EXCEPT ![t].due = TRUE]
    /\ UNCHANGED <<pass, alive, health, requests, errors>>

\* A claim is 15 minutes old: it was lost, or its pass is slow.
GrowsStale(t) ==
    /\ task[t].state = "fetching"
    /\ ~task[t].stale
    /\ task' = [task EXCEPT ![t].stale = TRUE]
    /\ UNCHANGED <<pass, alive, health, requests, errors>>

-----------------------------------------------------------------------------
(***************************************************************************)
(* A pass                                                                  *)
(***************************************************************************)
\* mark_source_tasks_fetching
Claimed(l, X) ==
    [t \in Tasks |->
        IF t \in Serves[l] \X X /\ Claimable(t)
        THEN [task[t] EXCEPT !.state = "fetching", !.stale = FALSE]
        ELSE task[t]]

StartPass(l, X) ==
    /\ l \in alive
    /\ pass[l] = {}
    /\ X # {}
    /\ X \in IF l \in Benchmark THEN {{Market}} ELSE ScanLists
    /\ pass' = [pass EXCEPT ![l] = X]
    /\ task' = Claimed(l, X)
    /\ health' = [health EXCEPT ![l] = "running"]
    /\ UNCHANGED <<alive, requests, errors>>

WrittenAnswers(v) ==   \* deliberate error: an empty answer completes nothing
    [t \in Tasks |->
        IF t \in DOMAIN v /\ v[t] \notin {"kept", "no_rows"} /\ task[t].state # "absent"
        THEN [state |-> v[t], due |-> FALSE, stale |-> FALSE]
        ELSE task[t]]

\* complete_source_tasks_for_attempt and fail_source_tasks_for_attempt: the
\* row is written whatever its state; a verdict is due again half an hour on.
Written(v) ==
    [t \in Tasks |->
        IF t \in DOMAIN v /\ v[t] # "kept" /\ task[t].state # "absent"
        THEN [state |-> v[t], due |-> FALSE, stale |-> FALSE]
        ELSE task[t]]

\* A pass that read an answer records success, and failure after it when one
\* of the requests was rate limited.
HealthAfter(v) ==
    IF \E t \in DOMAIN v : v[t] = "rate_limited" THEN "rate_limited"
    ELSE IF \A t \in DOMAIN v : v[t] = "failed" THEN "failed" ELSE "ok"

FinishPass(l) ==
    /\ pass[l] # {}
    /\ \E v \in Verdicts(l, pass[l]) :
          /\ task' = Written(v)
          /\ health' = [health EXCEPT ![l] = HealthAfter(v)]
    /\ pass' = [pass EXCEPT ![l] = {}]
    /\ UNCHANGED <<alive, requests, errors>>

\* An error before the last verdict is written: a query that fails, a publish,
\* a row that cannot be stored.  What was written stays, the rest is left as
\* it was claimed, and the loop goes on to its next pass, or ends.  Company
\* facts that cannot be stored are such a case: the symbols that had some are
\* failed, every other claim of the pass is kept.
PassFails(l) ==
    /\ pass[l] # {}
    /\ errors < MaxErrors
    /\ errors' = errors + 1
    /\ \E v \in Verdicts(l, pass[l]), kept \in SUBSET (Serves[l] \X pass[l]) :
          task' = Written([t \in DOMAIN v |-> IF t \in kept THEN "kept" ELSE v[t]])
    /\ pass' = [pass EXCEPT ![l] = {}]
    /\ alive' = IF l \in Fragile THEN alive \ {l} ELSE alive
    /\ health' = [health EXCEPT ![l] = IF l \in Fragile THEN @ ELSE "failed"]
    /\ UNCHANGED requests

\* The ingest process stops and comes back.
IngestRestarts ==
    /\ errors < MaxErrors
    /\ errors' = errors + 1
    /\ pass' = [l \in Loops |-> {}]
    /\ alive' = Loops
    /\ UNCHANGED <<task, health, requests>>

-----------------------------------------------------------------------------
TaskNext ==
    \/ \E t \in Tasks : Request(t) \/ ComesDue(t) \/ GrowsStale(t)
    \/ \E l \in Loops : \E X \in SUBSET Subjects : StartPass(l, X)
    \/ \E l \in Loops : FinishPass(l) \/ PassFails(l)
    \/ IngestRestarts

\* The loops are timers around a pass; a pass ends, and so does a quarter of
\* an hour.
TaskFairness ==
    /\ \A l \in Loops :
          /\ WF_taskVars(\E X \in SUBSET Subjects : StartPass(l, X))
          /\ WF_taskVars(FinishPass(l))
    /\ \A t \in Tasks : WF_taskVars(ComesDue(t)) /\ WF_taskVars(GrowsStale(t))

TaskSpec == TaskInit /\ [][TaskNext]_taskVars /\ TaskFairness

-----------------------------------------------------------------------------
Held(t) == \E l \in Loops : t \in Serves[l] \X pass[l]

\* A claim nobody works on takes a pass that was cut short or a restart.
LostClaimsNeedErrors ==
    \A t \in Tasks : task[t].state = "fetching" /\ ~Held(t) => errors > 0

\* "This prevents an interrupted worker from leaving evidence acquisition stuck
\* forever": a task that is queued or claimed gets a verdict, unless the loop
\* that serves it has returned.
TasksAreAnswered ==
    \A l \in Loops : \A t \in TasksOf(l) :
        task[t].state \in {"queued", "fetching"}
            ~> (task[t].state \in Settled \/ l \notin alive)
=============================================================================
