----------------------------- MODULE MCReadModels -----------------------------
(***************************************************************************)
(* Checks of what the desk shows: the workflow of a symbol, the freshness  *)
(* of a thesis, the status and the journal of the brain, and the report on *)
(* a revision of a thesis, over every combination of a few of their facts. *)
(***************************************************************************)
EXTENDS SymbolWorkflow, BrainStatus, BrainJournal, Goalposts, MCCharts

Kinds == {"thesis_incomplete", "thesis_actionable", "thesis_review",
          "context_stale", "risk_review"}
-----------------------------------------------------------------------------
(***************************************************************************)
(* The workflow of a symbol, for every combination of its facts            *)
(***************************************************************************)
SomeFacts ==
    [tier : {{}, {1}}, pooled : BOOLEAN, context : {{}, {1}}, items : {1}, open : {0, 1},
     blocking : {0, 1}, due : {0}, thesis : {{}, {"armed"}, {"forming"}}, declines : {0, 1},
     decisions : {0, 2}, fills : {0, 1}, positions : {0, 1}, permissions : {{}},
     attention : {1}, candidate : {{}, {"card"}}, packet : {{"first"}}]
ReachableFacts == {f \in SomeFacts : f.blocking <= f.open /\ f.fills <= f.decisions}

\* No fill is asked for while a position is open, and the desk never offers a
\* decision for a symbol that is not tracked or waits for evidence.
ASSUME \A f \in ReachableFacts :
    /\ NeedsFill(f) => f.positions = 0
    /\ PrimaryAction(f) = "decision" => f.tier # {} /\ f.blocking = 0 /\ f.context # {}
    /\ PrimaryAction(f) = "retry_thesis" => f.thesis = {} /\ f.decisions = 0

\* Only a symbol that has nothing but its nomination is opened at that card.
ASSUME \A f \in ReachableFacts :
    ActionCard(f) = f.candidate /\ f.candidate # {} => f.tier = {} /\ f.thesis = {}

\* The steps below the heading say no less than it does.  They may say more: a
\* fill may seem to be due while evidence or the context is what the heading
\* asks for.
SomePermissions == SUBSET [status : {"approved", "pending"}, frozen : BOOLEAN]
ASSUME \A f \in ReachableFacts :
    /\ Workflow(f) = "evidence_blocked" => EvidenceStep(f) = "blocking"
    /\ Workflow(f) = "position_tracking" => DecisionStep(f) = "open_position"
    /\ NeedsFill(f) => DecisionStep(f) = "fill_needed"
    /\ Workflow(f) = "thesis_monitoring" => Tones(f).thesis = "monitoring"
    /\ Workflow(f) = "declined" => ThesisStep(f) = "declined" /\ Tones(f).thesis = "declined"
    /\ Workflow(f) = "nominated" => StatusStep(f) = "nominated" /\ ThesisStep(f) = "nominated"
    /\ EvidenceStep(f) = "blocking" <=> Tones(f).evidence = "blocked"
    /\ Tones(f).decision = "muted" => DecisionStep(f) \in {"no_decision", "fill_needed"}
ASSUME \A p \in SomePermissions :
    LET step == AutomationStep([permissions |-> p])
    IN  /\ step = "not_approved" <=> p = {}
        /\ (\E q \in p : q.frozen) <=> step = "frozen"

\* The facts are such as ReachableFacts has them; of the cards, one that sleeps
\* is not counted, and the one to open first is no less severe than another.
SomeCards ==
    [status : {"open"}, state : {"ready_for_review", "operator_deferred"}, due : BOOLEAN,
     severity : {"blocked", "decision", "info"}, kind : {"candidate_review", "thesis_incomplete"},
     created : {1}]
SomeTheses == [state : {"forming", "armed", "closed"}, updated : {1}]
Requirements == [state : {"satisfied", "open"}, priority : {"blocking", "normal"}]
RowsOf(cards, theses, requirements, decisions) ==
    [tier |-> {1}, pooled |-> FALSE, context |-> {1}, items |-> {}, cards |-> cards,
     theses |-> theses, requirements |-> requirements,
     tasks |-> {[state |-> "queued", due |-> TRUE], [state |-> "satisfied", due |-> TRUE]},
     decisions |-> decisions, positions |-> {[open |-> FALSE]}, permissions |-> {}]

ASSUME \A c, d \in SomeCards :
    LET f == Facts(RowsOf({c, [d EXCEPT !.created = 2]}, {}, {}, {}))
    IN  /\ f.attention = Cardinality({e \in {<<c, 1>>, <<d, 2>>} :
                             e[1].state = "ready_for_review" \/ e[1].due})
        /\ Cardinality(f.packet) = IF f.attention = 0 THEN 0 ELSE 1
        /\ f.attention = 2 => \A p \in f.packet :
               SeverityRank(p) <= SeverityRank(c) /\ SeverityRank(p) <= SeverityRank(d)
        /\ f.candidate \subseteq {c, [d EXCEPT !.created = 2]}
ASSUME \A t, u \in SomeTheses, r \in SUBSET Requirements,
          a, b \in {"enter", "exit"}, x, y \in {"confirmed", "rejected"} :
    LET decisions == {[action |-> a, choice |-> x], [action |-> b, choice |-> y]}
        f == Facts(RowsOf({}, {t, [u EXCEPT !.updated = 2]}, r, decisions))
    IN  /\ f.blocking <= f.open /\ f.fills <= f.decisions /\ f.due = 1 /\ f.positions = 0
        /\ f.thesis = IF u.state # "closed" THEN {u.state} ELSE {t.state} \ {"closed"}
-----------------------------------------------------------------------------
(***************************************************************************)
(* Freshness                                                               *)
(***************************************************************************)
SomeAges == {{}} \union {{a} : a \in {0, 24, 25, 168, 169, 720, 721, 2160, 2161, 2881}}
AgesOfComponents == [DOMAIN Limits -> SomeAges]

\* A thesis is fresh when every component is: one that ages caps the
\* confidence, and the rule for a stale context adds nothing to the score.
ASSUME \A ages \in AgesOfComponents, articles \in 0..3 :
    LET parts == Components(ages, articles)
        score == FreshnessScore(parts)
    IN  /\ FreshnessStatus(score) = "fresh" <=> \A c \in DOMAIN parts : parts[c] = "fresh"
        /\ ConfidenceCap(score, parts) = "none" <=> FreshnessStatus(score) = "fresh"
        /\ ConfidenceCap(score, parts) = "none" => Penalized(parts) = {}
-----------------------------------------------------------------------------
(***************************************************************************)
(* The brain                                                               *)
(***************************************************************************)
SomeBrains ==
    [evidence : [rows : {0, 3}, open : 0..1, blocking : 0..1, due : 0..1], context : BOOLEAN,
     thesis : BOOLEAN, sourceDelta : BOOLEAN, evidenceDelta : BOOLEAN, contextStale : BOOLEAN,
     thesisStale : BOOLEAN, sourceStale : BOOLEAN, blocked : BOOLEAN]

\* A symbol is fresh when nothing is left to do, and a thesis is written only
\* with its evidence and its context at hand.
ASSUME \A b \in SomeBrains :
    /\ Decision(b).status = "fresh" =>
           /\ b.thesis /\ b.context /\ b.evidence.open = 0
           /\ ~(b.blocked \/ b.sourceStale \/ b.thesisStale \/ b.contextStale)
    /\ Decision(b).next \in {"draft_or_decline_thesis", "draft_after_source_update",
                             "draft_after_evidence_update"} =>
           ~b.thesis /\ b.context /\ b.evidence.blocking = 0 /\ ~b.blocked

SomeHealth ==
    [status : {"ok", "running", "failed"}, failure : {"none", "rate_limited"},
     success : {{}, {5}, {40}}, started : {{}, {1}, {16}}]

\* A source of two rows is blocked when one of them is.  A start counts as a
\* check: a run that hangs is stale after the 15 minutes of the test of
\* source_health_group, and within the 30 of get_brain_status it is fresh.
ASSUME \A r, q \in SomeHealth :
    /\ IsBlocked(SourceStatus({r, q}, 30)) <=> \E x \in {r, q} : IsBlocked(SourceStatus({x}, 30))
    /\ SourceStatus({r, q}, 30) = "running" => \E x \in {r, q} : EffectiveStatus(x) = "running"
    /\ SourceStatus({r}, 30) = "missing" => r.success = {} /\ r.started = {}
ASSUME \E r \in SomeHealth :
    r.success = {} /\ StaleRunning(r) /\ SourceStatus({r}, 30) = "fresh"
        /\ SourceStatus({r}, 15) = "stale"

\* A symbol with its thesis, its inputs and its sources at hand, of which one
\* source, the last bar, a finished task or the thesis is not.
Healthy == [status |-> "ok", failure |-> "none", success |-> {5}, started |-> {5}]
Desk == [active |-> TRUE, health |-> [n \in Sources |-> {Healthy}], session |-> {10}, expected |-> 10,
         evidence |-> [rows |-> 3, open |-> 0, blocking |-> 0, due |-> 0],
         tasks |-> {[state |-> "satisfied", result |-> "rows_seen", updated |-> {25}]},
         item |-> {25}, context |-> {60}, thesis |-> {20}, decline |-> {}]
With(n, row) == [Desk EXCEPT !.health[n] = {row}]

\* One source that fails blocks the symbol; one that grows old makes it stale,
\* but for the fundamentals, whose age nobody looks at, and the price, whose
\* bar counts.
ASSUME \A n \in Sources :
    /\ BrainStatusOf(Desk).status = "fresh"
    /\ BrainStatusOf(With(n, [Healthy EXCEPT !.status = "failed"])).status = "blocked"
    /\ BrainStatusOf(With(n, [Healthy EXCEPT !.success = {5000}, !.started = {5000}])).status =
           IF n \in {"price", "fundamentals"} THEN "fresh" ELSE "stale"
ASSUME
    /\ BrainStatusOf([Desk EXCEPT !.session = {9}]).next = "refresh_sources"
    /\ BrainStatusOf([Desk EXCEPT !.item = {10}]).next = "reevaluate_after_evidence_update"
    /\ BrainStatusOf([Desk EXCEPT !.tasks = {[state |-> "satisfied", result |-> "rows_seen",
                                              updated |-> {10}]}]).next =
           "reevaluate_after_source_update"
    /\ BrainStatusOf([Desk EXCEPT !.thesis = {}]).next = "draft_after_source_update"
    /\ BrainStatusOf([Desk EXCEPT !.thesis = {}, !.decline = {20}]).next = "draft_or_decline_thesis"
    /\ BrainStatusOf([Desk EXCEPT !.active = FALSE]).status = "not_monitored"

\* The tests of brain.rs of the age of an observation.
ASSUME AgeFreshness({}, 30) = "missing" /\ AgeFreshness({31}, 30) = "stale"
           /\ AgeFreshness({30}, 30) = "fresh"
-----------------------------------------------------------------------------
(***************************************************************************)
(* The journal                                                             *)
(***************************************************************************)
SomeTasks ==
    [state : {"queued", "fetching", "satisfied", "no_rows", "failed", "rate_limited"},
     result : {{}, {"rows_seen"}, {"no_rows"}}, priority : {"medium", "high", "blocking"}]

\* Every entry satisfies the CHECK constraints of its table: one that does not
\* would fail the refresh of the whole day.
IsEntry(d) == d.category \in Categories /\ d.importance \in 0..100
ASSUME
    /\ \A k \in Kinds \union {"candidate_review", "missing_data"},
          v \in {"info", "review", "decision", "blocked"} : IsEntry(AttentionEntry(k, v))
    /\ \A t \in SomeTasks : IsEntry(SourceTaskEntry(t))
    /\ \A s \in {{}} \union {{n} : n \in {0, 50, 100}}, p \in {{}, {0}, {-50}, {100}} :
           IsEntry(EvidenceEntry("news", s, p))
    /\ \A to \in {"forming", "building_conviction", "armed", "closed"} : IsEntry(ThesisStateEntry(to))
    /\ \A b \in BOOLEAN : IsEntry(ThesisVersionEntry(b))
    /\ \A scope \in {"macro", "sector"} : IsEntry(ParentThesisEntry(scope))
    /\ \A d \in DislocationEntries({"loved_mania", "hated_avoided", "unknown"}) : IsEntry(d)

\* A refresh that runs twice enters nothing twice, also when what it found has
\* a new text.
SomeDrafts == [key : 1..2, text : 1..2]
ASSUME \A journal, drafts, later \in {D \in SUBSET SomeDrafts : \A d, e \in D : d.key = e.key => d = e} :
    LET once == Journaled(journal, drafts)
    IN  /\ journal \subseteq once
        /\ Journaled(once, drafts) = once
        /\ \A d, e \in Journaled(once, later) : d.key = e.key => d = e

\* A task that is listed is never of the least importance.
ASSUME \A t \in SomeTasks : IsListed(t) => SourceTaskEntry(t).importance >= 55

\* The pages of a day hold every entry once.
ASSUME \A size \in {0, 10, 25}, total \in 0..60 :
    LET pages == PageOf(1, size, total).pages
    IN  \A n \in 1..total :
            Cardinality({p \in 1..pages : LET q == PageOf(p, size, total)
                                          IN  q.first <= n /\ n <= q.last}) = 1

SomeRows ==
    [theses : 0..1, state : {{}, {"forming"}, {"armed"}}, direction : {{"up"}, {"down"}, {}},
     technical : {{"constructive"}, {"extended"}, {"deteriorating"}, {"base_building"}},
     stance : {{"constructive"}, {"avoid_chase"}, {"actionable"}}, fit : {{}, {90}},
     freshness : {"fresh", "stale", "missing", "blocked"}, tier : {1, 3},
     blocking : 0..1, open : {1}, due : {0}, attention : {0}]

\* What the brief says to consider is a top candidate with fresh inputs and a
\* chart that is not falling; a top candidate that it says to avoid has one
\* that is.
ASSUME \A t \in SomeRows :
    /\ Brief(t) = {"consider"} =>
           IsTopCandidate(t) /\ t.technical # {"deteriorating"} /\ Blockers(t) \subseteq {"tasks"}
    /\ IsTopCandidate(t) /\ Brief(t) = {"avoid"} => t.technical = {"deteriorating"}
    /\ ~(IsWaiting(t) /\ IsTopCandidate(t))

\* Six are shown, none of which a hidden one outranks.
NineRows ==
    {[theses |-> 1, state |-> s, direction |-> {}, technical |-> {}, stance |-> {},
      fit |-> {}, freshness |-> "fresh", tier |-> n, blocking |-> 0, open |-> 0, due |-> 0,
      attention |-> 0, row |-> n] :
        s \in {{"forming"}, {"armed"}, {"actionable"}}, n \in 1..3}
ASSUME /\ Cardinality(Shown(NineRows)) = 6
       /\ \A t \in Shown(NineRows), u \in NineRows \ Shown(NineRows) :
              CandidateScore(t) >= CandidateScore(u)

\* The SQL that classifies a chart without a stored observation says what
\* classify_state says, but for pullbacks, oscillators and momentum, which it
\* does not look at.
ASSUME \A r \in ChartReads :
    r.rsi = {5000} /\ r.high # {} /\ ~Pulls(r) /\ TrendState(r) # "breakdown" =>
        \A a \in r.sma200, h \in r.high, b \in r.sma50 :
            FallbackState(TRUE, a \div 100, h \div 100, b \div 100) = ChartState(r)
ASSUME \A state \in DOMAIN FallbackSetup :
    FallbackSetup[state] = "unknown" <=> FallbackStance[state] = "wait_data"

\* The journal never calls a chart constructive that the chart's own stance
\* says to stay out of.
ChartFor(r) == [timing |-> {BuyTiming(r)}, trend |-> {TrendState(r)}, state |-> {ChartState(r)},
                setup |-> {Setup(r)}, stance |-> {Stance(r)}]
ASSUME \A r \in ChartReads :
    /\ JournalStance(ChartFor(r)) = "constructive" => Stance(r) \notin {"avoid", "avoid_chase"}
    /\ JournalStance(ChartFor(r)) = "wait_data" => ~r.reclaimed

\* A fresh row waits for nothing, and what blocks it is said first.
ASSUME \A f \in [blocking : 0..1, blockedTasks : 0..1, thesis : BOOLEAN, context : BOOLEAN,
                 requirements : 0..1, open : 0..1, due : 0..1, staleFetches : 0..1,
                 contextOld : BOOLEAN, thesisOld : BOOLEAN] :
    LET quiet == f.open + f.due + f.staleFetches + f.blocking + f.blockedTasks = 0
    IN  RowFreshness(f) = "fresh" <=>
            quiet /\ f.thesis /\ f.context /\ f.requirements > 0 /\ ~f.contextOld /\ ~f.thesisOld
-----------------------------------------------------------------------------
(***************************************************************************)
(* Goalposts: lists of up to two conditions                                *)
(***************************************************************************)
SomeConditions ==
    [name : {"", "a", "b"}, type : {"quantitative"},
     expr : {{}} \union {{[field |-> "margin", op |-> "<", bound |-> b]} : b \in 1..2}]
        \union [name : {"", "a", "b"}, type : {"narrative"}, assertion : {"moat", "share"}]
SomeLists == UNION {[1..n -> SomeConditions] : n \in 0..2}

\* The same list is clean; what one direction drops the other adds; no name is
\* loosened both ways; a clean revision keeps every narrative as it was.
ASSUME \A l, m \in SomeLists :
    LET there == Report(l, m)
        back == Report(m, l)
        clean == ~there.weakened /\ ~there.review
    IN  /\ l = m => clean
        /\ there.dropped = back.added
        /\ there.loosened \intersect back.loosened = {}
        /\ clean => \A n \in Names(l) :
               ByName(l)[n].type = "narrative" => ByName(m)[n] = ByName(l)[n]

\* An event without a version is recorded under the version no thesis has.
ASSUME \A l, m \in {<< >>, <<CHOOSE c \in SomeConditions : c.name = "a">>} :
    LET event == [parses |-> TRUE, version |-> {}]
        done == OnUpdated(event, {[parses |-> TRUE, original |-> l, updated |-> m]})
    IN  /\ done.version = 0
        /\ done.outcome = "warned" <=> l # << >> /\ m = << >>
        /\ OnUpdated(event, {}).outcome = "failed"
=============================================================================
