---------------------------- MODULE BrainJournal ----------------------------
(***************************************************************************)
(* The daily journal of the brain: what is entered in it, and the brief    *)
(* that it opens with.                                                     *)
(*                                                                         *)
(* What may be absent is a set of at most one element.                     *)
(***************************************************************************)
EXTENDS Integers, FiniteSets

-----------------------------------------------------------------------------
(***************************************************************************)
(* Entries: the category and the importance of what happened               *)
(***************************************************************************)
Entry(category, importance) == [category |-> category, importance |-> importance]

Categories == {"changed", "curious", "research", "crowded_or_extended",
               "ignored_or_hated", "blocked"}

AttentionEntry(kind, severity) ==
    CASE kind \in {"candidate_review", "thesis_review"} -> Entry("research", 70)
      [] kind \in {"thesis_actionable", "invalidation_hit", "risk_review"} -> Entry("changed", 85)
      [] kind \in {"context_stale", "thesis_incomplete"} -> Entry("blocked", 70)
      [] OTHER -> CASE severity = "blocked" -> Entry("blocked", 75)
                    [] severity = "decision" -> Entry("changed", 80)
                    [] OTHER -> Entry("curious", 55)

IsUrgent(task) == task.priority \in {"high", "blocking"}

\* The tasks the journal lists: the others are read by nobody.
IsListed(task) ==
    \/ task.state \in {"failed", "blocked", "rate_limited", "no_rows"}
    \/ task.state = "satisfied" /\ task.result = {"rows_seen"}
    \/ task.state \in {"queued", "fetching"} /\ IsUrgent(task)

SourceTaskEntry(task) ==
    CASE task.state = "satisfied" /\ task.result = {"rows_seen"} -> Entry("changed", 78)
      [] task.state \in {"failed", "blocked", "rate_limited"} -> Entry("blocked", 78)
      [] task.state = "no_rows" -> Entry("curious", 55)
      [] task.state \in {"queued", "fetching"} /\ IsUrgent(task) -> Entry("research", 62)
      [] OTHER -> Entry("curious", 45)

ThesisStateEntry(to) ==
    Entry("changed",
          CASE to \in {"actionable", "armed", "position_open", "exiting"} -> 90
            [] to = "building_conviction" -> 78
            [] to \in {"closed", "disqualified"} -> 72
            [] OTHER -> 65)

ThesisVersionEntry(weakens) == Entry("changed", IF weakens THEN 88 ELSE 72)

ParentThesisEntry(scope) == Entry("changed", IF scope = "macro" THEN 85 ELSE 74)

\* Of a strength and a polarity in hundredths, either absent.
EvidenceEntry(kind, strength, polarity) ==
    LET known == IF strength = {} THEN {50} ELSE strength
        strong == \E p \in polarity : p >= 50 \/ p <= -50
        score == CHOOSE n \in {(70 * s + 50) \div 100 : s \in known} : TRUE
        raised == IF strong THEN score + 10 ELSE score
    IN  Entry(IF kind = "product_research" THEN "curious" ELSE "changed",
              IF raised < 35 THEN 35 ELSE IF raised > 85 THEN 85 ELSE raised)

\* The buckets of the macro thesis that hold anything.
DislocationEntries(buckets) ==
    {IF b = "loved_mania" THEN Entry("crowded_or_extended", 78)
     ELSE Entry("ignored_or_hated", 82) :
        b \in buckets \intersect {"loved_mania", "ignored_indifference", "hated_avoided"}}

\* refresh_brain_journal_entries: an event that has its entry is not entered
\* again.
Journaled(journal, drafts) ==
    journal \union {d \in drafts : \A j \in journal : j.key # d.key}

\* brain_journal_for_date: the bounds of a page, and how many pages there are.
PageOf(page, size, total) ==
    LET p == IF page < 1 THEN 1 ELSE page
        n == IF size < 10 THEN 10 ELSE IF size > 200 THEN 200 ELSE size
        pages == (total + n - 1) \div n
    IN  [first |-> (p - 1) * n + 1, last |-> p * n, pages |-> pages, next |-> p < pages,
         previous |-> p > 1]

-----------------------------------------------------------------------------
(***************************************************************************)
(* The read of a chart: of its state, setup, stance, timing and trend      *)
(***************************************************************************)
JournalStance(chart) ==
    LET reads == UNION {chart.timing, chart.setup, chart.state, chart.stance, chart.trend}
        Has(names) == reads \intersect names # {}
    IN  IF Has({"pullback_reversal", "reversal_confirming", "starter_ok"}) THEN "starter_ok"
        ELSE IF Has({"pullback_watch", "wait_reversal"}) THEN "wait_reversal"
        ELSE IF Has({"extended_chase", "avoid_chase", "extended", "extended_run"})
        THEN "avoid_chase"
        ELSE IF Has({"avoid_breakdown", "breakdown", "deteriorating", "avoid"})
        THEN "avoid_breakdown"
        ELSE IF Has({"constructive", "constructive_trend", "uptrend"}) THEN "constructive"
        ELSE IF Has({"base_building", "wait_breakout"}) THEN "wait_reversal"
        ELSE "wait_data"

-----------------------------------------------------------------------------
(***************************************************************************)
(* The row of a symbol, as active_tickers reads it                         *)
(***************************************************************************)
\* The state of the chart when no observation of the last bar was stored:
\* distances in percent, `enough` when there are bars for the average.
FallbackState(enough, sma200, high, sma50) ==
    IF ~enough THEN "unknown"
    ELSE IF sma200 > 20 \/ high >= -2 THEN "extended"
    ELSE IF sma200 < -5 THEN "deteriorating"
    ELSE IF sma50 \in -5..5 THEN "base_building"
    ELSE IF sma200 >= 0 THEN "constructive" ELSE "unknown"

FallbackSetup ==
    [unknown |-> "unknown", extended |-> "extended_run", deteriorating |-> "breakdown",
     base_building |-> "base_building", constructive |-> "constructive_trend"]

FallbackStance ==
    [unknown |-> "wait_data", extended |-> "avoid_chase", deteriorating |-> "avoid",
     base_building |-> "wait_breakout", constructive |-> "constructive"]

\* The freshness of the inputs, of the facts the lateral joins count.
RowFreshness(f) ==
    IF f.blocking > 0 \/ f.blockedTasks > 0 THEN "blocked"
    ELSE IF ~f.thesis \/ ~f.context \/ f.requirements = 0 THEN "missing"
    ELSE IF f.open > 0 \/ f.due > 0 \/ f.staleFetches > 0 \/ f.contextOld \/ f.thesisOld
    THEN "stale" ELSE "fresh"

-----------------------------------------------------------------------------
(***************************************************************************)
(* The score of a symbol                                                   *)
(***************************************************************************)
StateScore(state) ==
    CASE state = {"actionable"} -> 44
      [] state = {"armed"} -> 40
      [] state = {"building_conviction"} -> 34
      [] state = {"position_open"} -> 28
      [] state = {"forming"} -> 22
      [] OTHER -> 0

TechnicalScore(state, stance) ==
    IF state = {"constructive"} THEN 24
    ELSE IF state = {"base_building"} \/ stance = {"wait_breakout"} THEN 22
    ELSE IF stance = {"constructive"} THEN 18
    ELSE IF state = {"extended"} \/ stance = {"avoid_chase"} THEN -18
    ELSE IF state = {"deteriorating"} \/ stance = {"avoid"} THEN -30
    ELSE IF state = {"unknown"} \/ stance = {"wait_data"} THEN -6 ELSE 0

InputScore(freshness) ==
    CASE freshness = "fresh" -> 15
      [] freshness = "stale" -> -8
      [] freshness = "missing" -> -14
      [] freshness = "blocked" -> -24
      [] OTHER -> 0

IsBullish(direction) == direction \intersect {"up", "bull", "bullish", "long", "risk_on"} # {}
IsBearish(direction) == direction \intersect {"down", "bear", "bearish", "short", "risk_off"} # {}

\* The fit is in whole points, 0..100, and absent for most symbols.
CandidateScore(t) ==
    LET fit == IF t.fit = {} THEN 0 ELSE (CHOOSE n \in {(v + 5) \div 10 : v \in t.fit} : TRUE)
        sum == StateScore(t.state) + TechnicalScore(t.technical, t.stance)
                 + InputScore(t.freshness)
                 + (IF t.tier = 1 THEN 12 ELSE IF t.tier = 2 THEN 7 ELSE 3)
                 + fit
                 + (IF IsBullish(t.direction) THEN 8 ELSE IF IsBearish(t.direction) THEN -12 ELSE 0)
    IN  IF sum < 0 THEN 0 ELSE IF sum > 100 THEN 100 ELSE sum

-----------------------------------------------------------------------------
(***************************************************************************)
(* brain_journal_overview: the lists a symbol is put on                    *)
(***************************************************************************)
Threshold == 45

WaitsForSetup(t) == t.technical = {"extended"} \/ t.stance = {"avoid_chase"}
BlockedOrMissing(t) == t.freshness \in {"blocked", "missing"} \/ t.blocking > 0

IsWaiting(t) ==
    /\ t.theses > 0
    /\ WaitsForSetup(t)
    /\ IsBullish(t.direction) \/ t.state \in {{"actionable"}, {"armed"}}

IsTopCandidate(t) ==
    /\ t.theses > 0 /\ ~WaitsForSetup(t) /\ ~IsBearish(t.direction) /\ ~BlockedOrMissing(t)
    /\ CandidateScore(t) >= Threshold

IsRisk(t) ==
    /\ t.theses > 0
    /\ IsBearish(t.direction) \/ t.technical = {"deteriorating"} \/ BlockedOrMissing(t)

\* The decision brief: one stance for each symbol, none for a quiet one.
Brief(t) ==
    IF t.theses = 0
    THEN IF t.attention > 0 \/ t.open > 0 \/ t.due > 0 THEN {"research"} ELSE {}
    ELSE IF IsRisk(t) THEN {"avoid"}
    ELSE IF WaitsForSetup(t) \/ t.freshness = "stale" THEN {"wait"}
    ELSE IF CandidateScore(t) >= Threshold THEN {"consider"} ELSE {"research"}

Blockers(t) ==
    {b \in {"evidence", "tasks", "inputs"} :
        \/ b = "evidence" /\ t.blocking > 0
        \/ b = "tasks" /\ t.due > 0
        \/ b = "inputs" /\ t.freshness \in {"blocked", "missing", "stale"}}

\* A list shows the six best, those of one score in the order of the rows (the
\* lists of risks show the six worst in the same way).
ListSize == 6
Shown(rows) ==
    LET Ahead(u, t) == \/ CandidateScore(u) > CandidateScore(t)
                       \/ CandidateScore(u) = CandidateScore(t) /\ u.row < t.row
    IN  {t \in rows : Cardinality({u \in rows : Ahead(u, t)}) < ListSize}
=============================================================================
