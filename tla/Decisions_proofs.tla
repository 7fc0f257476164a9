--------------------------- MODULE Decisions_proofs ---------------------------
(***************************************************************************)
(* Proofs about what is decided from the evidence.                         *)
(*                                                                         *)
(* Judgements: what a chart is said to be, what the proof policy makes of  *)
(* it and what a revision may do to the conditions of a thesis unnoticed,  *)
(* for every chart, definition, permission, portfolio, limit and revision. *)
(* Displays: when the desk asks for a decision, what it calls fresh,       *)
(* blocked, constructive or worth considering, and how a signal ranks, for *)
(* every row of facts.                                                     *)
(* Conditions: for any length of the array and any number of redrafts and  *)
(* faults, a status written for the condition it is on says "overdue" only *)
(* of one that is, and the evaluator never reverses its own verdict.       *)
(***************************************************************************)
EXTENDS ConditionEvaluation, ProofPolicy, TechnicalState, Goalposts, SymbolWorkflow,
        BrainStatus, BrainJournal, SignalComposition, FiniteSetTheorems, TLAPS

\* The distance to the 200-day average that ChartIndicators!Reclaimed entails:
\* a price that has reclaimed its average is not below it.
Consistent(r) == r.reclaimed => AtLeast(r.sma200, 0)

(***************************************************************************)
(* The chart                                                               *)
(***************************************************************************)
\* The trend "testing_200d" of cross_technical is never given: a price within
\* two percent of the average is near it, and was called an uptrend before.
THEOREM TestingIsNeverSaid ==
    ASSUME NEW r \in Reads
    PROVE  TrendState(r) # "testing_200d"
<1>1. r.sma200 \in SUBSET Int
  BY DEF Reads, Optional
<1>2. Between(r.sma200, -200, 200) => NearTrend(r)
  BY <1>1 DEF Between, NearTrend, AtLeast
<1> QED
  BY <1>2 DEF TrendState

LEMMA BreakdownIsDeteriorating ==
    ASSUME NEW r \in Reads, TrendState(r) = "breakdown"
    PROVE  ChartState(r) \in {"extended", "deteriorating"}
<1>1. BuyTiming(r) = "avoid_breakdown"
  BY DEF BuyTiming
<1> QED
  BY <1>1 DEF ChartState

LEMMA ConstructiveIsUnstretched ==
    ASSUME NEW r \in Reads, Stance(r) = "constructive"
    PROVE  ChartState(r) \in {"constructive", "unknown"}
<1>1. Setup(r) = "constructive_trend"
  BY DEF Stance, Setup
<1> QED
  BY <1>1 DEF Setup, ChartState

\* No long stance on a chart that breaks down: what the strategies buy on is
\* never below its 200-day average with momentum or volume against it.
THEOREM LongStanceIsNoBreakdown ==
    ASSUME NEW r \in Reads, Consistent(r), Stance(r) \in LongStances
    PROVE  TrendState(r) # "breakdown"
<1> SUFFICES ASSUME TrendState(r) = "breakdown" PROVE FALSE
  OBVIOUS
<1>1. r.sma200 \in SUBSET Int /\ \A a, b \in r.sma200 : a = b
  BY DEF Reads, Optional
<1>2. Below(r.sma200, -200)
  BY DEF TrendState
<1>3. ~r.reclaimed
  BY <1>1, <1>2 DEF Consistent, AtLeast, Below
<1>4. ChartState(r) \in {"extended", "deteriorating"}
  BY BreakdownIsDeteriorating
<1>5. Setup(r) \in {"200d_reclaim_watch", "extended_run", "breakdown"}
  BY <1>3, <1>4 DEF Setup
<1>6. Stance(r) \in {"wait_reclaim", "avoid_chase", "avoid"}
  BY <1>5 DEF Stance
<1> QED
  BY <1>6 DEF LongStances

(***************************************************************************)
(* The proof policy                                                        *)
(***************************************************************************)
LEMMA EmptyWhen ==
    ASSUME NEW c, NEW reason, When(c, reason) = {}
    PROVE  ~c
BY DEF When

\* What a proof that is not blocked entails.
Authorised(d, p, decision, read) ==
    /\ ~read.kill
    /\ p.status = "approved" /\ ~p.frozen /\ ~p.expired /\ p.matches
    /\ AllowsEnvironmentScope(d.stage, p.scope)
    /\ decision.blocks = {} /\ read.marketBlocks = {} /\ read.vetoes = {}
    /\ read.allocatorBlocks = {}
    /\ ~read.stale /\ ~read.missing /\ read.sessionOpen
    /\ read.sleeve \notin {"frozen", "closed"}

\* A proof passes only for an approved permission that is live in a stage that
\* allows it, with the switch off, data fresh, risk quiet and an open sleeve.
THEOREM PassedIsAuthorised ==
    ASSUME NEW d, NEW p, NEW decision, NEW caps, NEW read, NEW warnings,
           ProofResult(ProofBlocks(d, p, decision, caps, read), warnings) # "blocked"
    PROVE  Authorised(d, p, decision, read)
<1>1. ProofBlocks(d, p, decision, caps, read) = {}
  BY DEF ProofResult
<1>2. /\ When(read.kill, "automation_kill_switch") = {}
      /\ PermissionBlocks(d, p) = {}
      /\ decision.blocks = {} /\ read.marketBlocks = {}
      /\ When(read.stale, "data_freshness_stale") = {}
      /\ When(read.missing, "data_freshness_missing") = {}
      /\ When(~read.sessionOpen, "session_closed") = {}
      /\ read.vetoes = {} /\ read.allocatorBlocks = {}
      /\ When(read.sleeve \in {"frozen", "closed"}, "sleeve_not_open") = {}
  BY <1>1 DEF ProofBlocks
<1>3. /\ When(p.status # "approved", "permission_not_approved") = {}
      /\ StageBlocks(d.stage, p.scope) = {}
      /\ When(p.frozen, "permission_frozen") = {}
      /\ When(p.expired, "permission_expired") = {}
      /\ When(~p.matches, "permission_strategy_mismatch") = {}
  BY <1>2 DEF PermissionBlocks
<1>4. AllowsEnvironmentScope(d.stage, p.scope)
  BY <1>3, EmptyWhen DEF StageBlocks
<1> QED
  BY <1>2, <1>3, <1>4, EmptyWhen DEF Authorised
\* The blocks of the decision, of a chart that was read.
DecisionOn(d, p, r, age, thesis, weight, notional) ==
    [blocks |-> DecisionBlocks(d, p, {[age |-> age, state |-> ChartState(r),
                                       stance |-> Stance(r)]}, thesis),
     weight |-> weight, notional |-> notional]

\* A proof that passes belongs to a strategy in shadow: one that readiness has
\* promoted is blocked from then on, in every environment.
THEOREM PassedIsShadow ==
    ASSUME NEW d, NEW p, NEW technical, NEW thesis,
           DecisionBlocks(d, p, technical, thesis) = {}
    PROVE  d.stage = "shadow" /\ p.scope = "shadow"
<1>1. CommonBlocks(d, p, technical) = {}
  BY DEF DecisionBlocks
<1>2. /\ When(d.stage # "shadow", "strategy_not_shadow") = {}
      /\ When(p.scope # "shadow", "environment_not_shadow") = {}
  BY <1>1 DEF CommonBlocks
<1> QED
  BY <1>2, EmptyWhen

\* What the automation buys: a fresh and classified chart that does not break
\* down, for a permission that may be long, on a thesis where one is needed.
THEOREM PassedLongIsSound ==
    ASSUME NEW d, NEW p, NEW r \in Reads, NEW age \in Int, NEW thesis, NEW weight,
           NEW notional, NEW caps, NEW read, NEW warnings, Consistent(r), d.maxAge \in Int,
           LET decision == DecisionOn(d, p, r, age, thesis, weight, notional)
           IN  ProofResult(ProofBlocks(d, p, decision, caps, read), warnings) # "blocked",
           WantsLong(d, {[age |-> age, state |-> ChartState(r), stance |-> Stance(r)]},
                     thesis)
    PROVE  /\ TrendState(r) # "breakdown" /\ ChartState(r) # "unknown"
           /\ age <= d.maxAge /\ p.instrument # "equity_short_only"
           /\ d.family = "thesis_timing" => ThesisIsBullish(thesis)
<1> DEFINE t == [age |-> age, state |-> ChartState(r), stance |-> Stance(r)]
           decision == DecisionOn(d, p, r, age, thesis, weight, notional)
<1>1. DecisionBlocks(d, p, {t}, thesis) = {}
  <2>1. decision.blocks = {}
    BY PassedIsAuthorised DEF Authorised
  <2> QED
    BY <2>1 DEF DecisionOn
<1>2. CommonBlocks(d, p, {t}) = {}
  BY <1>1 DEF DecisionBlocks
<1>3. /\ When(t.age > d.maxAge, "technical_stale") = {}
      /\ When(t.state = "unknown" \/ t.stance = "wait_data", "technical_invalid_state") = {}
  BY <1>2 DEF CommonBlocks
<1>4. ~(age > d.maxAge) /\ ChartState(r) # "unknown"
  BY <1>3, EmptyWhen
<1>5. When(WantsLong(d, {t}, thesis) /\ p.instrument = "equity_short_only",
           "instrument_scope_blocks_long") = {}
  BY <1>1, <1>2 DEF DecisionBlocks
<1>6. p.instrument # "equity_short_only"
  BY <1>5, EmptyWhen
<1>7. Stance(r) \in LongStances /\ (d.family = "thesis_timing" => ThesisIsBullish(thesis))
  BY DEF WantsLong
<1> QED
  BY <1>4, <1>6, <1>7, LongStanceIsNoBreakdown

\* The permission's cap of the allocation never blocks: the target is the cap
\* itself.
THEOREM TargetIsWithinItsCap ==
    ASSUME NEW d, NEW cap \in Optional(Nat), NEW technical, NEW thesis, NEW notional,
           NEW caps, caps.allocation = cap
    PROVE  "allocation_exceeds_permission_cap"
               \notin CapBlocks(Weight(d, cap, technical, thesis), notional, caps)
<1>1. cap \in SUBSET Nat /\ \A a, b \in cap : a = b
  BY DEF Optional
<1>2. ASSUME NEW c \in cap PROVE ~(Weight(d, cap, technical, thesis) > c)
  <2>1. cap # {} /\ (CHOOSE x \in cap : TRUE) = c /\ c \in Nat
    BY <1>1
  <2>2. TargetWeight(d, cap) = IF c < 0 THEN 0 ELSE IF c > Whole THEN Whole ELSE c
    BY <2>1 DEF TargetWeight
  <2>3. Weight(d, cap, technical, thesis) \in {0, TargetWeight(d, cap)}
    BY DEF Weight
  <2> QED
    BY <2>1, <2>2, <2>3 DEF Whole
<1>3. "allocation_exceeds_permission_cap"
          \notin When(\E c \in caps.allocation : Weight(d, cap, technical, thesis) > c,
                      "allocation_exceeds_permission_cap")
  BY <1>2 DEF When
<1>4. "allocation_exceeds_permission_cap"
          \notin When(\E c \in caps.notional : notional > c,
                      "allocation_exceeds_notional_cap")
  BY DEF When
<1> QED
  BY <1>3, <1>4 DEF CapBlocks

\* A drawdown brake that halts also halts the way out: the proof of a target
\* that asks for nothing is blocked like one that buys.
THEOREM HaltBlocksExits ==
    ASSUME NEW d, NEW p, NEW decision, NEW caps, NEW read, NEW warnings, NEW symbol,
           NEW cluster, NEW wantsLong, NEW notional, NEW positions, NEW port, NEW cfg,
           NEW b \in cfg.brakes, port.drawdown <= b.at, b.halt,
           read.vetoes = RiskReasons(IntentOf(symbol, cluster, wantsLong, notional),
                                     positions, port, {cfg})
    PROVE  ProofResult(ProofBlocks(d, p, decision, caps, read), warnings) = "blocked"
<1> DEFINE intent == IntentOf(symbol, cluster, wantsLong, notional)
<1>1. "drawdown_brake_halt" \in When(\E c \in cfg.brakes : port.drawdown <= c.at /\ c.halt,
                                     "drawdown_brake_halt")
  BY DEF When
<1>2. "drawdown_brake_halt" \in RiskVetoes(intent, positions, port, cfg)
  BY <1>1 DEF RiskVetoes
<1>3. read.vetoes # {}
  BY <1>2 DEF RiskReasons
<1>4. ProofBlocks(d, p, decision, caps, read) # {}
  BY <1>3 DEF ProofBlocks
<1> QED
  BY <1>4 DEF ProofResult

\* A single name above its limit cannot be reduced either: the check adds the
\* target to what is open, and a flat target adds nothing to it.
THEOREM ExcessBlocksExits ==
    ASSUME NEW symbol, NEW cluster, NEW notional, NEW positions, NEW port, NEW cfg,
           Exceeds(Exposure({q \in positions : q.symbol = symbol}), cfg.single, port.total),
           Exposure({q \in positions : q.symbol = symbol}) \in Int
    PROVE  RiskReasons(IntentOf(symbol, cluster, FALSE, notional), positions, port, {cfg})
               # {}
<1> DEFINE intent == IntentOf(symbol, cluster, FALSE, notional)
           open == Exposure({q \in positions : q.symbol = symbol})
<1>1. intent.delta = 0 /\ intent.symbol = symbol
  BY DEF IntentOf
<1>2. open + intent.delta = open
  <2>1. open \in Int
    OBVIOUS
  <2> HIDE DEF open, intent
  <2> QED
    BY <1>1, <2>1
<1>3. Exceeds(Exposure({q \in positions : q.symbol = intent.symbol}) + intent.delta,
              cfg.single, port.total)
  BY <1>1, <1>2
<1>4. "single_name_delta_notional_pct" \in
          When(Exceeds(Exposure({q \in positions : q.symbol = intent.symbol}) + intent.delta,
                       cfg.single, port.total), "single_name_delta_notional_pct")
  BY <1>3 DEF When
<1>5. "single_name_delta_notional_pct" \in RiskVetoes(intent, positions, port, cfg)
  BY <1>4 DEF RiskVetoes
<1> QED
  BY <1>5 DEF RiskReasons

(***************************************************************************)
(* Goalposts                                                               *)
(***************************************************************************)
LEMMA ReportedFacts ==
    ASSUME NEW original, NEW updated, NEW name \in Names(original),
           ~Report(original, updated).weakened, ~Report(original, updated).review
    PROVE  /\ name \in Names(updated)
           /\ ~Loosened(ByName(original)[name], ByName(updated)[name])
           /\ ~NeedsReview(ByName(original)[name], ByName(updated)[name])
<1> DEFINE orig == ByName(original)
           upd == ByName(updated)
<1>1. DOMAIN orig = Names(original) /\ DOMAIN upd = Names(updated)
  BY DEF ByName
<1> HIDE DEF orig, upd
<1>2. name \in DOMAIN orig
  BY <1>1
<1>3. /\ DOMAIN orig \ DOMAIN upd = {}
      /\ {n \in DOMAIN orig \intersect DOMAIN upd : Loosened(orig[n], upd[n])} = {}
  BY DEF Report, orig, upd
<1>4. ~\E n \in DOMAIN orig \intersect DOMAIN upd : NeedsReview(orig[n], upd[n])
  BY DEF Report, orig, upd
<1>5. name \in DOMAIN orig \intersect DOMAIN upd
  BY <1>2, <1>3
<1> QED
  BY <1>1, <1>3, <1>4, <1>5 DEF orig, upd

LEMMA NotLooserTrips ==
    ASSUME NEW fields, NEW e \in Expressions(fields, Int), NEW f \in Expressions(fields, Int),
           f.field = e.field, OpFamily(f.op) = OpFamily(e.op), OpFamily(e.op) \in {"<", ">"},
           ~IsLooser(f, e), NEW value \in Int, value # e.bound, Trips(e, value)
    PROVE  Trips(f, value)
<1>1. e.bound \in Int /\ f.bound \in Int /\ e.op \in Operators /\ f.op \in Operators
  BY DEF Expressions
<1>2. CASE OpFamily(e.op) = "<"
  <2>1. e.op \in {"<", "<="} /\ f.op \in {"<", "<="}
    BY <1>1, <1>2 DEF OpFamily, Operators
  <2>2. e.bound <= f.bound
    BY <1>1, <1>2 DEF IsLooser
  <2>3. value < e.bound
    <3>1. CASE e.op = "<"
      BY <3>1 DEF Trips
    <3>2. CASE e.op = "<="
      <4>1. value <= e.bound
        BY <3>2 DEF Trips
      <4> QED
        BY <1>1, <4>1
    <3> QED
      BY <2>1, <3>1, <3>2
  <2>4. value < f.bound /\ value <= f.bound
    BY <1>1, <2>2, <2>3
  <2> QED
    BY <2>1, <2>4 DEF Trips
<1>3. CASE OpFamily(e.op) = ">"
  <2>1. e.op \in {">", ">="} /\ f.op \in {">", ">="}
    BY <1>1, <1>3 DEF OpFamily, Operators
  <2>2. f.bound <= e.bound
    BY <1>1, <1>3 DEF IsLooser
  <2>3. value > e.bound
    <3>1. CASE e.op = ">"
      BY <3>1 DEF Trips
    <3>2. CASE e.op = ">="
      <4>1. value >= e.bound
        BY <3>2 DEF Trips
      <4> QED
        BY <1>1, <4>1
    <3> QED
      BY <2>1, <3>1, <3>2
  <2>4. value > f.bound /\ value >= f.bound
    BY <1>1, <2>2, <2>3
  <2> QED
    BY <2>1, <2>4 DEF Trips
<1> QED
  BY <1>2, <1>3

\* A revision that is reported clean cannot move a goalpost: a condition that
\* keeps its field and the direction of its comparison still gives the thesis
\* up for every value that did before.  The bound itself is the exception: a
\* `<=` made a `<` is not noticed.
THEOREM CleanRevisionKeepsTripping ==
    ASSUME NEW original, NEW updated, NEW name \in Names(original),
           ~Report(original, updated).weakened, ~Report(original, updated).review,
           ByName(original)[name].type = "quantitative",
           NEW fields,
           NEW e \in Expressions(fields, Int), e \in ByName(original)[name].expr,
           NEW f \in Expressions(fields, Int), f \in ByName(updated)[name].expr,
           f.field = e.field, OpFamily(f.op) = OpFamily(e.op), OpFamily(e.op) \in {"<", ">"},
           NEW value \in Int, value # e.bound, Trips(e, value)
    PROVE  Trips(f, value)
<1> DEFINE o == ByName(original)[name]
           u == ByName(updated)[name]
<1>1. ~Loosened(o, u) /\ ~NeedsReview(o, u)
  BY ReportedFacts
<1> HIDE DEF o, u
<1>2. o.type = "quantitative" /\ u.type = "quantitative"
  BY <1>1 DEF NeedsReview, o
<1>3. ~IsLooser(f, e)
  BY <1>1, <1>2 DEF Loosened, o, u
<1> QED
  BY <1>3, NotLooserTrips

(***************************************************************************)
(* The workflow of a symbol                                                *)
(***************************************************************************)
\* A count is zero when there is nothing to count.
LEMMA NothingCounted ==
    ASSUME NEW S, IsFiniteSet(S), NEW T \in SUBSET S, ~(Cardinality(T) > 0)
    PROVE  T = {}
<1>1. IsFiniteSet(T)
  BY FS_Subset
<1>2. Cardinality(T) \in Nat
  BY <1>1, FS_CardinalityType
<1> QED
  BY <1>1, <1>2, FS_EmptySet

\* Whatever the rows of a symbol are: the desk asks for a decision only when
\* the symbol is tracked, its context is there, no blocking requirement is open
\* and no position is, so that an entry is never asked for twice in a row.
THEOREM DecisionIsDue ==
    ASSUME NEW rows, IsFiniteSet(rows.requirements), IsFiniteSet(rows.positions),
           PrimaryAction(Facts(rows)) = "decision"
    PROVE  /\ rows.tier # {}
           /\ rows.context # {}
           /\ \A q \in rows.requirements : q.priority = "blocking" => q.state = "satisfied"
           /\ \A p \in rows.positions : ~p.open
<1> DEFINE f == Facts(rows)
           blocking == {q \in OpenRequirements(rows.requirements) : q.priority = "blocking"}
           held == {p \in rows.positions : p.open}
<1>1. /\ f.tier = rows.tier /\ f.context = rows.context
      /\ f.blocking = Cardinality(blocking)
      /\ f.positions = Cardinality(held)
  BY DEF Facts
<1>2. PrimaryAction(f) = "decision"
  OBVIOUS
<1> HIDE DEF f
<1>3. Workflow(f) \in {"decision_recorded", "thesis_actionable"}
  BY <1>2 DEF PrimaryAction
<1>4. f.tier # {} /\ ~(f.blocking > 0) /\ f.context # {} /\ ~(f.positions > 0)
  BY <1>3 DEF Workflow
<1>5. blocking \in SUBSET rows.requirements /\ held \in SUBSET rows.positions
  BY DEF OpenRequirements
<1>6. blocking = {} /\ held = {}
  <2> HIDE DEF blocking, held
  <2> QED
    BY <1>1, <1>4, <1>5, NothingCounted
<1> QED
  BY <1>1, <1>4, <1>6 DEF OpenRequirements

\* A product of two shares, of which neither is above its bound.
LEMMA Shares ==
    ASSUME NEW a \in Nat, NEW b \in Nat, NEW c \in Nat, NEW d \in Nat, a <= c, b <= d
    PROVE  a * b \in Nat /\ a * b <= c * d
<1>1. a * b <= c * b
  BY SMT
<1>2. c * b <= c * d
  BY SMT
<1>3. a * b \in Nat /\ c * b \in Nat /\ c * d \in Nat
  OBVIOUS
<1> QED
  BY <1>1, <1>2, <1>3

Ages == [DOMAIN Limits -> SUBSET Int]

LEMMA ComponentScores ==
    ASSUME NEW ages \in Ages, NEW articles \in Nat
    PROVE  LET parts == Components(ages, articles)
           IN  /\ DOMAIN parts = {"market", "context", "estimates", "news"}
               /\ \A c \in {"market", "context", "estimates"} :
                     /\ parts[c] \in {"fresh", "aging", "stale", "old", "missing"}
                     /\ AgeScore[parts[c]] \in Nat
                     /\ AgeScore[parts[c]] <= 100
                     /\ parts[c] = "fresh" => AgeScore[parts[c]] = 100
                     /\ parts[c] # "fresh" => AgeScore[parts[c]] <= 80
                     /\ parts[c] \in {"stale", "old"} => AgeScore[parts[c]] <= 60
               /\ parts.news \in {"fresh", "thin", "missing"}
               /\ NewsScore[parts.news] \in Nat
               /\ NewsScore[parts.news] <= 100
               /\ parts.news = "fresh" => NewsScore[parts.news] = 100
               /\ parts.news # "fresh" => NewsScore[parts.news] <= 80
<1> DEFINE parts == Components(ages, articles)
<1>1. DOMAIN Limits = {"market", "context", "estimates"}
  BY DEF Limits
<1>2. DOMAIN parts = {"market", "context", "estimates", "news"}
  BY <1>1 DEF Components
<1>3. \A c \in DOMAIN Limits : parts[c] = AgeStatus(ages[c], Limits[c])
  BY <1>1 DEF Components
<1>4. parts["news"] = NewsStatus(articles)
  BY <1>1 DEF Components
<1> HIDE DEF parts
<1>5. \A c \in {"market", "context", "estimates"} :
          parts[c] \in {"fresh", "aging", "stale", "old", "missing"}
  BY <1>1, <1>3 DEF AgeStatus
<1>6. parts["news"] \in {"fresh", "thin", "missing"}
  BY <1>4 DEF NewsStatus
<1> QED
  BY <1>2, <1>5, <1>6 DEF AgeScore, NewsScore, parts

\* For inputs of any age and any number of articles: a thesis is fresh when
\* every one of its inputs is, and its confidence is capped as soon as one is
\* not.  The further rule for a context that is stale caps nothing that the
\* product of the scores has not capped before.
THEOREM CapFollowsFreshness ==
    ASSUME NEW ages \in Ages, NEW articles \in Nat
    PROVE  LET parts == Components(ages, articles)
               score == FreshnessScore(parts)
           IN  /\ FreshnessStatus(score) = "fresh" <=> \A c \in DOMAIN parts : parts[c] = "fresh"
               /\ ConfidenceCap(score, parts) = "none" <=> FreshnessStatus(score) = "fresh"
<1> DEFINE parts == Components(ages, articles)
           m == AgeScore[parts.market]
           x == AgeScore[parts.context]
           e == AgeScore[parts.estimates]
           n == NewsScore[parts.news]
<1>1. /\ DOMAIN parts = {"market", "context", "estimates", "news"}
      /\ m \in Nat /\ x \in Nat /\ e \in Nat /\ n \in Nat
      /\ m <= 100 /\ x <= 100 /\ e <= 100 /\ n <= 100
      /\ parts.market = "fresh" => m = 100
      /\ parts.context = "fresh" => x = 100
      /\ parts.estimates = "fresh" => e = 100
      /\ parts.news = "fresh" => n = 100
      /\ parts.market # "fresh" => m <= 80
      /\ parts.context # "fresh" => x <= 80
      /\ parts.estimates # "fresh" => e <= 80
      /\ parts.news # "fresh" => n <= 80
  BY ComponentScores
<1>2. FreshnessScore(parts) = m * x * e * n
  BY DEF FreshnessScore
<1> HIDE DEF parts, m, x, e, n
<1>3. m * x * e * n \in Nat
  BY <1>1
<1>4. CASE \A c \in DOMAIN parts : parts[c] = "fresh"
  <2>1. m = 100 /\ x = 100 /\ e = 100 /\ n = 100
    BY <1>1, <1>4
  <2>2. m * x * e * n = 100000000
    BY <2>1
  <2>3. 85 * 10^6 = 85000000 /\ 50 * 10^6 = 50000000
    OBVIOUS
  <2> QED
    BY <1>1, <1>2, <1>4, <2>2, <2>3 DEF FreshnessStatus, ConfidenceCap, parts
<1>5. CASE \E c \in DOMAIN parts : parts[c] # "fresh"
  <2>1. m <= 80 \/ x <= 80 \/ e <= 80 \/ n <= 80
    BY <1>1, <1>5
  <2>2. m * x * e * n <= 80000000
    <3>1. m * x \in Nat /\ m * x <= 10000 /\ (m <= 80 \/ x <= 80 => m * x <= 8000)
      <4>1. m * x \in Nat /\ m * x <= 100 * 100
        BY <1>1, Shares
      <4>2. m <= 80 => m * x <= 80 * 100
        BY <1>1, Shares
      <4>3. x <= 80 => m * x <= 100 * 80
        BY <1>1, Shares
      <4> QED
        BY <4>1, <4>2, <4>3
    <3>2. e * n \in Nat /\ e * n <= 10000 /\ (e <= 80 \/ n <= 80 => e * n <= 8000)
      <4>1. e * n \in Nat /\ e * n <= 100 * 100
        BY <1>1, Shares
      <4>2. e <= 80 => e * n <= 80 * 100
        BY <1>1, Shares
      <4>3. n <= 80 => e * n <= 100 * 80
        BY <1>1, Shares
      <4> QED
        BY <4>1, <4>2, <4>3
    <3>3. (m * x) * (e * n) <= 80000000
      <4>1. CASE m <= 80 \/ x <= 80
        <5>1. (m * x) * (e * n) <= 8000 * 10000
          BY <3>1, <3>2, <4>1, Shares
        <5> QED
          BY <5>1, <3>1, <3>2
      <4>2. CASE e <= 80 \/ n <= 80
        <5>1. (m * x) * (e * n) <= 10000 * 8000
          BY <3>1, <3>2, <4>2, Shares
        <5> QED
          BY <5>1, <3>1, <3>2
      <4> QED
        BY <2>1, <4>1, <4>2
    <3>4. m * x * e * n = (m * x) * (e * n)
      BY <1>1
    <3> QED
      BY <3>3, <3>4
  <2>3. 85 * 10^6 = 85000000 /\ 50 * 10^6 = 50000000
    OBVIOUS
  <2>4. ~(m * x * e * n >= 85 * 10^6) /\ m * x * e * n < 85 * 10^6
    BY <1>3, <2>2, <2>3
  <2> QED
    BY <1>2, <1>5, <2>4 DEF FreshnessStatus, ConfidenceCap, parts
<1> QED
  BY <1>4, <1>5 DEF parts

(***************************************************************************)
(* The brain                                                               *)
(***************************************************************************)
\* The status of a source is one of the two that block when a row of it is
\* rate limited or has failed.
LEMMA BlockedByARow ==
    ASSUME NEW rows, NEW limit
    PROVE  IsBlocked(SourceStatus(rows, limit)) <=>
               \E r \in rows : r.failure = "rate_limited" \/ r.status = "failed"
BY DEF IsBlocked, SourceStatus, AgeFreshness

\* Whatever else is due: a symbol is called blocked when one of its sources
\* failed or is rate limited, and only then.
THEOREM BlockedByItsSources ==
    ASSUME NEW s, s.active
    PROVE  BrainStatusOf(s).status = "blocked" <=>
               \E n \in Sources : \E r \in s.health[n] :
                   r.failure = "rate_limited" \/ r.status = "failed"
<1>1. BrainInput(s).blocked <=>
          \E n \in Sources : IsBlocked(SourceStatus(s.health[n], CheckLimits[n]))
  BY DEF BrainInput
<1>2. BrainInput(s).blocked <=>
          \E n \in Sources : \E r \in s.health[n] :
              r.failure = "rate_limited" \/ r.status = "failed"
  BY <1>1, BlockedByARow
<1>3. Decision(BrainInput(s)).status = "blocked" <=> BrainInput(s).blocked
  <2> DEFINE b == BrainInput(s)
  <2> HIDE DEF b
  <2>1. Decision(b).status = "blocked" <=> b.blocked
    BY DEF Decision, Due, Waiting, Stale
  <2> QED
    BY <2>1 DEF b
<1> QED
  BY <1>2, <1>3 DEF BrainStatusOf

\* What dates a source that is neither stale nor missing nor blocked: a run
\* under way, or a check within the limit.
Checked(rows, limit) ==
    \/ \E r \in rows : r.status = "running" /\ ~StaleRunning(r)
    \/ \E r \in rows : \E a \in r.success \union r.started : a <= limit

LEMMA UndatedIsChecked ==
    ASSUME NEW rows, NEW limit, ~IsDated(SourceStatus(rows, limit))
    PROVE  Checked(rows, limit)
<1> DEFINE checks == UNION {r.success \union r.started : r \in rows}
<1>1. SourceStatus(rows, limit) \notin {"stale", "missing", "rate_limited", "failed"}
  BY DEF IsDated
<1>2. CASE \E r \in rows : EffectiveStatus(r) = "running"
  BY <1>2 DEF Checked, EffectiveStatus
<1>3. CASE ~\E r \in rows : EffectiveStatus(r) = "running"
  <2>1. AgeFreshness(Earliest(checks), limit) \notin {"stale", "missing"}
    BY <1>1, <1>3 DEF SourceStatus
  <2>2. \E a \in Earliest(checks) : a <= limit
    BY <2>1 DEF AgeFreshness
  <2>3. PICK a \in checks : a <= limit
    BY <2>2 DEF Earliest
  <2>4. \E r \in rows : a \in r.success \union r.started
    BY <2>3
  <2> QED
    BY <2>3, <2>4 DEF Checked
<1> QED
  BY <1>2, <1>3

\* A symbol that is called fresh is: its newest bar is of the session that is
\* due, no source has failed, every source whose age counts was checked in
\* time or is being checked, its context is at most half a day and its thesis
\* half an hour old, no evidence is later than the thesis, and nothing is open.
THEOREM FreshIsFresh ==
    ASSUME NEW s, s.thesis \in Optional(Int), s.item \in SUBSET Int,
           BrainStatusOf(s).status = "fresh"
    PROVE  /\ s.active
           /\ \E t \in s.thesis : t <= 30
           /\ \E c \in s.context : c <= 12 * 60
           /\ \A a \in s.item, t \in s.thesis : t <= a
           /\ \E d \in s.session : d >= s.expected
           /\ \A n \in Sources \ {"price", "fundamentals"} :
                  Checked(s.health[n], CheckLimits[n])
           /\ \A n \in Sources : \A r \in s.health[n] :
                  r.failure # "rate_limited" /\ r.status # "failed"
           /\ ~(s.evidence.open > 0) /\ ~(s.evidence.blocking > 0) /\ ~(s.evidence.due > 0)
<1> DEFINE b == BrainInput(s)
<1>1. s.active /\ Decision(b).status = "fresh"
  BY DEF BrainStatusOf
<1>2. /\ b.evidence = s.evidence
      /\ b.context <=> s.context # {}
      /\ b.thesis <=> s.thesis # {}
      /\ b.evidenceDelta <=> IsNewer(s.item, s.thesis, s.decline)
      /\ b.contextStale <=> AgeFreshness(s.context, 12 * 60) = "stale"
      /\ b.thesisStale <=> AgeFreshness(s.thesis, 30) = "stale"
  BY DEF BrainInput
<1>3. b.sourceStale <=>
          \/ IsDated(PriceStatus(s.session, s.expected))
          \/ \E n \in Sources \ {"price", "fundamentals"} :
                 IsDated(SourceStatus(s.health[n], CheckLimits[n]))
  BY DEF BrainInput
<1>4. s.active /\ BrainStatusOf(s).status # "blocked"
  BY <1>1
<1>5. \A n \in Sources : \A r \in s.health[n] :
          r.failure # "rate_limited" /\ r.status # "failed"
  BY <1>4, BlockedByItsSources
<1> HIDE DEF b
<1>6. /\ b.context /\ b.thesis /\ ~b.evidenceDelta /\ ~b.contextStale /\ ~b.thesisStale
      /\ ~b.sourceStale /\ ~(b.evidence.open > 0) /\ ~(b.evidence.blocking > 0)
      /\ ~(b.evidence.due > 0)
  BY <1>1 DEF Decision, Due, Waiting, Stale
<1>7. \E t \in s.thesis : t <= 30
  BY <1>2, <1>6 DEF AgeFreshness
<1>8. \E c \in s.context : c <= 12 * 60
  BY <1>2, <1>6 DEF AgeFreshness
<1>9. \A a \in s.item, t \in s.thesis : t <= a
  BY <1>2, <1>6 DEF IsNewer, Optional
<1>10. \E d \in s.session : d >= s.expected
  BY <1>3, <1>6 DEF IsDated, PriceStatus
<1>11. \A n \in Sources \ {"price", "fundamentals"} : Checked(s.health[n], CheckLimits[n])
  BY <1>3, <1>6, UndatedIsChecked
<1> QED
  BY <1>1, <1>2, <1>5, <1>6, <1>7, <1>8, <1>9, <1>10, <1>11

(***************************************************************************)
(* The journal                                                             *)
(***************************************************************************)
OneEach(D) == \A d, e \in D : d.key = e.key => d = e

\* Whatever the journal holds: a refresh that finds one event of each key adds
\* to it, adds nothing when it runs again, and leaves one entry for each key.
THEOREM RefreshIsIdempotent ==
    ASSUME NEW journal, OneEach(journal), NEW drafts, OneEach(drafts)
    PROVE  /\ journal \subseteq Journaled(journal, drafts)
           /\ Journaled(Journaled(journal, drafts), drafts) = Journaled(journal, drafts)
           /\ OneEach(Journaled(journal, drafts))
<1>1. journal \subseteq Journaled(journal, drafts)
  BY DEF Journaled
<1>2. Journaled(Journaled(journal, drafts), drafts) = Journaled(journal, drafts)
  BY DEF Journaled
<1>3. OneEach(Journaled(journal, drafts))
  BY DEF Journaled, OneEach
<1> QED
  BY <1>1, <1>2, <1>3

\* For any row of a symbol, and any score: what the brief says to consider is a
\* top candidate whose chart is not falling and whose inputs are fresh, and
\* what waits for its setup is no top candidate.
THEOREM ConsideredIsTop ==
    ASSUME NEW t, t.theses \in Nat, t.freshness \in {"fresh", "stale", "missing", "blocked"}
    PROVE  /\ Brief(t) = {"consider"} =>
                  /\ IsTopCandidate(t)
                  /\ t.technical # {"deteriorating"}
                  /\ t.freshness = "fresh"
                  /\ Blockers(t) \subseteq {"tasks"}
           /\ ~(IsWaiting(t) /\ IsTopCandidate(t))
<1>1. ASSUME Brief(t) = {"consider"}
      PROVE  /\ t.theses # 0 /\ ~IsRisk(t) /\ ~WaitsForSetup(t) /\ t.freshness # "stale"
             /\ CandidateScore(t) >= Threshold
  BY <1>1 DEF Brief
<1> QED
  BY <1>1 DEF IsTopCandidate, IsWaiting, IsRisk, BlockedOrMissing, Blockers

\* The five things the journal reads of a chart.
ReadOf(r) ==
    [timing |-> {BuyTiming(r)}, trend |-> {TrendState(r)}, state |-> {ChartState(r)},
     setup |-> {Setup(r)}, stance |-> {Stance(r)}]

\* For every chart: the journal calls none constructive that the chart's own
\* stance says to stay out of, and it has an opinion on each that has not
\* reclaimed its average.
THEOREM JournalAgreesWithChart ==
    ASSUME NEW r
    PROVE  /\ JournalStance(ReadOf(r)) = "constructive" =>
                  Stance(r) \notin {"avoid", "avoid_chase"}
           /\ JournalStance(ReadOf(r)) = "wait_data" => r.reclaimed \/ r.brokeBefore
<1> DEFINE reads == {BuyTiming(r), Setup(r), ChartState(r), Stance(r), TrendState(r)}
<1>1. UNION {{BuyTiming(r)}, {Setup(r)}, {ChartState(r)}, {Stance(r)}, {TrendState(r)}} = reads
  OBVIOUS
<1>2. JournalStance(ReadOf(r)) = "constructive" =>
          Stance(r) \notin {"avoid_chase", "avoid"}
  BY <1>1 DEF JournalStance, ReadOf
<1>3. ASSUME ~r.reclaimed, ~r.brokeBefore
      PROVE  JournalStance(ReadOf(r)) # "wait_data"
  <2>1. Stance(r) \in {"starter_ok", "wait_reversal", "avoid_chase", "wait_breakout", "avoid",
                       "constructive"}
    BY <1>3 DEF Stance, Setup
  <2> HIDE DEF reads
  <2>2. Stance(r) \in reads
    BY DEF reads
  <2> QED
    BY <1>1, <2>1, <2>2 DEF JournalStance, ReadOf
<1> QED
  BY <1>2, <1>3

(***************************************************************************)
(* The detectors and the rank                                              *)
(***************************************************************************)
\* For any counts of revisions and any polarities: turning the sides or the
\* windows around turns the sign of the signal, and no signal has two.
THEOREM SignsTurn ==
    ASSUME NEW up \in Nat, NEW down \in Nat, NEW net \in Nat \ {0},
           NEW recent \in Int, NEW n \in Nat, NEW prior \in Int, NEW m \in Nat,
           NEW shift \in Nat \ {0}, NEW count \in Nat
    PROVE  /\ RevisionVelocity(up, down, net) = -RevisionVelocity(down, up, net)
           /\ SentimentShift(recent, n, prior, m, shift, count) =
                  -SentimentShift(prior, m, recent, n, shift, count)
<1>1. RevisionVelocity(up, down, net) = -RevisionVelocity(down, up, net)
  BY DEF RevisionVelocity, Sign
<1>2. SentimentShift(recent, n, prior, m, shift, count) =
          -SentimentShift(prior, m, recent, n, shift, count)
  BY DEF SentimentShift, Sign
<1> QED
  BY <1>1, <1>2

BucketRank(b) ==
    CASE b = "low" -> 1 [] b = "medium" -> 2 [] b = "high" -> 3 [] OTHER -> 4

\* A mark that is cut to the scale stays in order, and so does its bucket.
LEMMA ScaleKeepsOrder ==
    ASSUME NEW m \in Int, NEW n \in Int, m <= n
    PROVE  LET low == Clamp(m, 0, 10000)
               high == Clamp(n, 0, 10000)
           IN  low \in 0..10000 /\ low <= high /\ BucketRank(Bucket(low)) <= BucketRank(Bucket(high))
<1>1. \A k \in Int : BucketRank(Bucket(k)) = IF k >= 7500 THEN 4 ELSE IF k >= 6000 THEN 3
                                               ELSE IF k >= 4000 THEN 2 ELSE 1
  BY DEF BucketRank, Bucket
<1>2. \A j, k \in Int : j <= k => BucketRank(Bucket(j)) <= BucketRank(Bucket(k))
  BY <1>1
<1> DEFINE low == Clamp(m, 0, 10000)
           high == Clamp(n, 0, 10000)
<1>3. low \in 0..10000 /\ high \in Int /\ low <= high
  BY DEF Clamp
<1> HIDE DEF low, high
<1>4. BucketRank(Bucket(low)) <= BucketRank(Bucket(high))
  BY <1>2, <1>3
<1> QED
  BY <1>3, <1>4 DEF low, high

\* A signal of any kind and size adds at most 18 points.
LEMMA StrengthIsBounded ==
    ASSUME NEW name, NEW value \in Int
    PROVE  SignalStrength(name, value) \in 0..1800
<1> DEFINE size == IF value < 0 THEN -value ELSE value
<1>1. CASE name = "research_nomination"
  <2>1. (IF value < 0 THEN 0 ELSE IF value > 400 THEN 400 ELSE value) \in 0..400
    OBVIOUS
  <2>2. \A v \in 0..400 : (v * 14) \div 4 \in 0..1800
    OBVIOUS
  <2> QED
    BY <1>1, <2>1, <2>2 DEF SignalStrength, Clamp
<1>2. CASE name # "research_nomination"
  <2>1. size \in Nat
    OBVIOUS
  <2>2. \A k \in Nat : /\ (k * 16) \div 5 \in Nat /\ (k * 14) \div 10 \in Nat
                       /\ (k * 18) \div 5 \in Nat /\ k * 16 \in Nat
    OBVIOUS
  <2> HIDE DEF size
  <2>3. \A k \in Nat : /\ (IF k < 0 THEN 0 ELSE IF k > 1600 THEN 1600 ELSE k) \in 0..1800
                       /\ (IF k < 0 THEN 0 ELSE IF k > 1400 THEN 1400 ELSE k) \in 0..1800
                       /\ (IF k < 0 THEN 0 ELSE IF k > 1800 THEN 1800 ELSE k) \in 0..1800
                       /\ (IF k < 0 THEN 0 ELSE IF k > 1000 THEN 1000 ELSE k) \in 0..1800
    OBVIOUS
  <2> QED
    BY <1>2, <2>1, <2>2, <2>3 DEF SignalStrength, Clamp, size
<1> QED
  BY <1>1, <1>2

\* For any signal, list, theme and tier: the rank is on its scale, and a better
\* fit lowers neither a candidate's rank nor its bucket.
THEOREM FitNeverLowersTheBucket ==
    ASSUME NEW name, NEW value \in Int, NEW theme \in Int, NEW class, NEW tier, NEW lists,
           NEW newList \in BOOLEAN, NEW fit \in Int, NEW better \in Int, fit <= better
    PROVE  LET strength == SignalStrength(name, value)
               low == RankScore(strength, name, fit, theme, class, tier, lists, newList)
               high == RankScore(strength, name, better, theme, class, tier, lists, newList)
           IN  low \in 0..10000 /\ low <= high /\ BucketRank(Bucket(low)) <= BucketRank(Bucket(high))
<1> DEFINE s == SignalStrength(name, value)
           f == Clamp(fit, 0, 100)
           g == Clamp(better, 0, 100)
           h == Clamp(theme, 0, 100)
           base == SignalBase(name)
           points == DislocationPoints(class)
           level == TierPoints(tier)
           list == ListFit(lists)
           new == IF newList THEN 300 ELSE 0
           m == base + s + f * 15 + h * 12 + points + level + list + new
           n == base + s + g * 15 + h * 12 + points + level + list + new
<1>1. s \in Int
  BY StrengthIsBounded
<1>2. base \in Int
  BY DEF SignalBase
<1>3. points \in Int
  BY DEF DislocationPoints
<1>4. level \in Int
  BY DEF TierPoints
<1>5. list \in Int
  BY DEF ListFit
<1>6. f \in Int /\ g \in Int /\ h \in Int /\ f <= g
  BY DEF Clamp
<1>7. new \in Int
  OBVIOUS
<1>8. /\ RankScore(s, name, fit, theme, class, tier, lists, newList) = Clamp(m, 0, 10000)
      /\ RankScore(s, name, better, theme, class, tier, lists, newList) = Clamp(n, 0, 10000)
  BY DEF RankScore
<1> HIDE DEF s, f, g, h, base, points, level, list, new
<1>9. m \in Int /\ n \in Int /\ m <= n
  BY <1>1, <1>2, <1>3, <1>4, <1>5, <1>6, <1>7
<1> HIDE DEF m, n
<1> QED
  BY <1>8, <1>9, ScaleKeepsOrder DEF s

(***************************************************************************)
(* The evaluation of conditions.                                           *)
(*                                                                         *)
(* Both properties depend on what a pass still holds: its rows were read   *)
(* from an earlier array, and must still bear out what is written for      *)
(* them.  A row of the present draft is in the array and is overdue if it  *)
(* was read as late; rows of former drafts are of a lower version.         *)
(***************************************************************************)
BearsOut(r) ==
    /\ r.version <= version
    /\ r.version = version =>
          /\ r.position \in DOMAIN conditions
          /\ r.late => Overdue(conditions[r.position])

RowsBearOut ==
    /\ \A r \in evaluator.todo : BearsOut(r)
    /\ evaluator.hand # <<>> => BearsOut(evaluator.hand[1])
    /\ \A r \in staler : BearsOut(r) /\ r.late

\* Only a late row is refuted, and pending is never written.
HandIsSound ==
    evaluator.hand # <<>> =>
        /\ evaluator.hand[2] = "refuted" => evaluator.hand[1].late

\* What a pass still has to write is not judged yet, not even when the row is
\* of a former draft and the position holds another condition by now: nobody
\* but this pass could have judged it, and it does each position once.
Unjudged(r) ==
    r.position \in DOMAIN conditions => ~Judged(conditions[r.position])

RowsUnjudged ==
    /\ \A r \in evaluator.todo : Unjudged(r)
    /\ evaluator.hand # <<>> => Unjudged(evaluator.hand[1])

PositionsOnce ==
    /\ \A r, s \in evaluator.todo : r.position = s.position => r = s
    /\ evaluator.hand # <<>> =>
          \A r \in evaluator.todo : r.position # evaluator.hand[1].position

\* A writer is a draft the thesis has had.
WritersArePast ==
    \A p \in DOMAIN conditions : conditions[p].writer <= version

Inv ==
    /\ TypeOK
    /\ RowsBearOut
    /\ HandIsSound
    /\ RowsUnjudged
    /\ PositionsOnce
    /\ WritersArePast
    /\ OverdueStatusIsOverdue

LEMMA Bounds == /\ MaxLength \in Nat
                /\ MaxFaults \in Nat
                /\ MaxVersion \in Nat \ {0}
BY BoundAssumption

\* An array is a function from positions, whatever its elements.
LEMMA ArrayParts ==
    ASSUME NEW S, NEW a \in ArraysOf(S)
    PROVE  /\ DOMAIN a \subseteq Positions
           /\ \A p \in DOMAIN a : a[p] \in S
BY Bounds DEF ArraysOf, Positions

\* Replacing elements by elements of the right type keeps an array an array.
LEMMA ArrayUpdate ==
    ASSUME NEW S, NEW a \in ArraysOf(S), NEW b,
           b = [p \in DOMAIN a |-> b[p]],
           \A p \in DOMAIN a : b[p] \in S
    PROVE  b \in ArraysOf(S)
<1>1. PICK n \in 0..MaxLength : a \in [1..n -> S]
  BY DEF ArraysOf
<1>2. b \in [1..n -> S]
  BY <1>1
<1> QED
  BY <1>1, <1>2 DEF ArraysOf

\* Drafts are arrays of conditions, without statuses or writers.
LEMMA DraftParts ==
    ASSUME NEW a \in Drafts
    PROVE  /\ a \in ArraysOf(Conditions)
           /\ \A p \in DOMAIN a : a[p].status = "missing" /\ a[p].writer = 0
<1>1. Drafted \subseteq Conditions
  BY Bounds DEF Drafted, Conditions, Deadlines, Readings, Statuses
<1>2. PICK n \in 0..MaxLength : a \in [1..n -> Drafted]
  BY DEF Drafts, ArraysOf
<1>3. a \in [1..n -> Conditions]
  BY <1>1, <1>2
<1>4. a \in ArraysOf(Conditions)
  BY <1>2, <1>3 DEF ArraysOf
<1>5. \A p \in DOMAIN a : a[p] \in Drafted
  BY <1>2
<1> QED
  BY <1>4, <1>5 DEF Drafted

\* What SetStatus changes.
LEMMA SetStatusParts ==
    ASSUME TypeOK, NEW r \in Rows, NEW s \in Statuses
    PROVE  /\ SetStatus(r, s) \in ArraysOf(Conditions)
           /\ DOMAIN SetStatus(r, s) = DOMAIN conditions
           /\ \A p \in DOMAIN conditions :
                 SetStatus(r, s)[p] =
                     IF p = r.position
                     THEN [conditions[p] EXCEPT !.status = s, !.writer = r.version]
                     ELSE conditions[p]
<1> DEFINE b == SetStatus(r, s)
<1>1. conditions \in ArraysOf(Conditions)
  BY DEF TypeOK
<1>2. \A p \in DOMAIN conditions : conditions[p] \in Conditions
  BY <1>1, ArrayParts
<1>3. conditions = [p \in DOMAIN conditions |-> conditions[p]]
  BY <1>1 DEF ArraysOf
<1>4. /\ b = [p \in DOMAIN conditions |-> b[p]]
      /\ DOMAIN b = DOMAIN conditions
      /\ \A p \in DOMAIN conditions :
            b[p] = IF p = r.position
                   THEN [conditions[p] EXCEPT !.status = s, !.writer = r.version]
                   ELSE conditions[p]
  BY <1>2, <1>3 DEF SetStatus, Conditions
<1>5. r.version \in 0..MaxVersion
  BY DEF Rows, Versions
<1>6. \A p \in DOMAIN conditions : b[p] \in Conditions
  BY <1>2, <1>4, <1>5 DEF Conditions
<1>7. b \in ArraysOf(Conditions)
  BY <1>1, <1>4, <1>6, ArrayUpdate
<1> QED
  BY <1>4, <1>7

LEMMA InitInv == Init => Inv
<1> SUFFICES ASSUME Init PROVE Inv
  OBVIOUS
<1>1. /\ conditions \in ArraysOf(Conditions)
      /\ \A p \in DOMAIN conditions :
            conditions[p].status = "missing" /\ conditions[p].writer = 0
  BY DraftParts DEF Init
<1>2. evaluator = [todo |-> {}, hand |-> <<>>] /\ staler = {}
  BY DEF Init, Idle
<1>3. TypeOK
  BY <1>1, <1>2, Bounds DEF TypeOK, Init, Versions
<1> QED
  BY <1>1, <1>2, <1>3
  DEF Init, Inv, RowsBearOut, HandIsSound, RowsUnjudged, PositionsOnce,
      WritersArePast, OverdueStatusIsOverdue

\* The types of what the passes hold.
LEMMA RowParts ==
    ASSUME TypeOK
    PROVE  /\ \A r \in evaluator.todo : r \in Rows
           /\ \A r \in staler : r \in Rows
           /\ evaluator.hand # <<>> =>
                 evaluator.hand[1] \in Rows /\ evaluator.hand[2] \in Verdicts
BY DEF TypeOK

\* A step that changes nothing of the array but deadlines that pass and
\* readings, and nothing of the passes, keeps the invariant.
LEMMA WorldStep ==
    ASSUME Inv, NEW p \in DOMAIN conditions, NEW reading \in Readings,
           DeadlinePasses(p) \/ ReadingMoves(p, reading)
    PROVE  Inv'
<1>1. /\ conditions \in ArraysOf(Conditions)
      /\ \A q \in DOMAIN conditions : conditions[q] \in Conditions
      /\ conditions = [q \in DOMAIN conditions |-> conditions[q]]
  BY ArrayParts DEF Inv, TypeOK, ArraysOf
<1>2. /\ conditions' = [q \in DOMAIN conditions |-> conditions'[q]]
      /\ DOMAIN conditions' = DOMAIN conditions
      /\ \A q \in DOMAIN conditions :
            /\ conditions'[q] \in Conditions
            /\ conditions'[q].status = conditions[q].status
            /\ conditions'[q].writer = conditions[q].writer
            /\ Overdue(conditions[q]) => Overdue(conditions'[q])
  <2>1. CASE DeadlinePasses(p)
    BY <1>1, <2>1 DEF DeadlinePasses, Conditions, Deadlines, Overdue
  <2>2. CASE ReadingMoves(p, reading)
    BY <1>1, <2>2 DEF ReadingMoves, Conditions, Overdue
  <2> QED
    BY <2>1, <2>2
<1>3. UNCHANGED <<version, evaluator, staler, faults>>
  BY DEF DeadlinePasses, ReadingMoves
<1>4. conditions' \in ArraysOf(Conditions)
  BY <1>1, <1>2, ArrayUpdate
<1>5. TypeOK'
  BY <1>3, <1>4 DEF Inv, TypeOK
<1>6. RowsBearOut'
  BY <1>2, <1>3 DEF Inv, RowsBearOut, BearsOut
<1>7. RowsUnjudged'
  BY <1>2, <1>3 DEF Inv, RowsUnjudged, Unjudged, Judged
<1>8. (HandIsSound /\ PositionsOnce)'
  BY <1>3 DEF Inv, HandIsSound, PositionsOnce
<1>9. (WritersArePast /\ OverdueStatusIsOverdue)'
  BY <1>2, <1>3 DEF Inv, WritersArePast, OverdueStatusIsOverdue
<1> QED
  BY <1>5, <1>6, <1>7, <1>8, <1>9 DEF Inv

\* A redraft leaves no row of the present draft and no status.
LEMMA RedraftStep == ASSUME Inv, Redraft PROVE Inv'
<1>1. /\ conditions' \in ArraysOf(Conditions)
      /\ \A p \in DOMAIN conditions' :
            conditions'[p].status = "missing" /\ conditions'[p].writer = 0
  BY DraftParts DEF Redraft
<1>2. /\ version' = version + 1
      /\ version \in Nat
      /\ version' \in Versions
      /\ UNCHANGED <<evaluator, staler, faults>>
  BY Bounds DEF Redraft, Inv, TypeOK, Versions
<1>3. TypeOK'
  BY <1>1, <1>2 DEF Inv, TypeOK
<1>4. ASSUME NEW r \in Rows, BearsOut(r) PROVE BearsOut(r)'
  BY <1>2, <1>4 DEF BearsOut, Rows, Versions
<1>5. RowsBearOut'
  BY <1>2, <1>4, RowParts DEF Inv, RowsBearOut
<1>6. RowsUnjudged'
  BY <1>1, <1>2 DEF Inv, RowsUnjudged, Unjudged, Judged
<1>7. (HandIsSound /\ PositionsOnce)'
  BY <1>2 DEF Inv, HandIsSound, PositionsOnce
<1>8. (WritersArePast /\ OverdueStatusIsOverdue)'
  BY <1>1, <1>2 DEF WritersArePast, OverdueStatusIsOverdue
<1> QED
  BY <1>3, <1>5, <1>6, <1>7, <1>8 DEF Inv

\* The rows of a SELECT are of the present draft and bear out.
LEMMA RowOfParts ==
    ASSUME Inv, NEW p \in DOMAIN conditions
    PROVE  /\ RowOf(p) \in Rows
           /\ RowOf(p).position = p
           /\ RowOf(p).late <=> Overdue(conditions[p])
           /\ BearsOut(RowOf(p))
<1>1. p \in Positions
  BY ArrayParts DEF Inv, TypeOK
<1>2. version \in Versions
  BY DEF Inv, TypeOK
<1>3. /\ RowOf(p).position = p
      /\ RowOf(p).version = version
  BY DEF RowOf
<1>4. RowOf(p).late <=> Overdue(conditions[p])
  BY DEF RowOf, Overdue
<1>5. (conditions[p].deadline = "past") \in BOOLEAN
  OBVIOUS
<1>6. RowOf(p) \in Rows
  BY <1>1, <1>2, <1>5 DEF RowOf, Rows
<1>7. BearsOut(RowOf(p))
  BY <1>2, <1>3, <1>4 DEF BearsOut, Versions
<1> QED
  BY <1>3, <1>4, <1>6, <1>7

LEMMA FetchRowsStep == ASSUME Inv, FetchRows PROVE Inv'
<1> DEFINE open == {p \in DOMAIN conditions :
                       /\ ViewStatus(conditions[p]) \in EvaluatedStates
                       /\ conditions[p].measured}
<1>1. /\ evaluator'.todo = {RowOf(p) : p \in open}
      /\ evaluator'.hand = <<>>
      /\ evaluator' = [todo |-> evaluator'.todo, hand |-> <<>>]
      /\ UNCHANGED <<conditions, version, staler, faults>>
  BY DEF FetchRows, Idle
<1>2. \A r \in evaluator'.todo : \E p \in open : r = RowOf(p)
  BY <1>1
<1>3. \A r \in evaluator'.todo : r \in Rows /\ BearsOut(r)
  BY <1>2, RowOfParts
<1>4. TypeOK'
  BY <1>1, <1>3 DEF Inv, TypeOK
<1>5. RowsBearOut'
  BY <1>1, <1>3 DEF Inv, RowsBearOut, BearsOut
<1>6. \A p \in open : ~Judged(conditions[p])
  BY DEF ViewStatus, EvaluatedStates, Judged
<1>7. RowsUnjudged'
  BY <1>1, <1>2, <1>6, RowOfParts DEF RowsUnjudged, Unjudged
<1>8. PositionsOnce'
  BY <1>1, <1>2, RowOfParts DEF PositionsOnce
<1>9. (HandIsSound /\ WritersArePast /\ OverdueStatusIsOverdue)'
  BY <1>1 DEF Inv, HandIsSound, WritersArePast, OverdueStatusIsOverdue
<1> QED
  BY <1>4, <1>5, <1>7, <1>8, <1>9 DEF Inv

\* The pass goes on with fewer rows, or with one of them in hand.
LEMMA EvaluatorShrinks ==
    ASSUME Inv, UNCHANGED <<conditions, version, staler>>,
           TypeOK', HandIsSound',
           evaluator'.todo \subseteq evaluator.todo,
           evaluator'.hand # <<>> =>
              \/ evaluator'.hand = evaluator.hand
              \/ evaluator'.hand[1] \in evaluator.todo \ evaluator'.todo
    PROVE  Inv'
<1>1. RowsBearOut'
  BY DEF Inv, RowsBearOut, BearsOut
<1>2. RowsUnjudged'
  BY DEF Inv, RowsUnjudged, Unjudged
<1>3. PositionsOnce'
  <2>1. \A r, s \in evaluator'.todo : r.position = s.position => r = s
    BY DEF Inv, PositionsOnce
  <2>2. ASSUME evaluator'.hand # <<>>, NEW r \in evaluator'.todo
        PROVE  r.position # evaluator'.hand[1].position
    <3>1. CASE evaluator'.hand = evaluator.hand
      BY <2>2, <3>1 DEF Inv, PositionsOnce
    <3>2. CASE evaluator'.hand[1] \in evaluator.todo \ evaluator'.todo
      BY <2>2, <3>2 DEF Inv, PositionsOnce
    <3> QED
      BY <2>2, <3>1, <3>2
  <2> QED
    BY <2>1, <2>2 DEF PositionsOnce
<1>4. (WritersArePast /\ OverdueStatusIsOverdue)'
  BY DEF Inv, WritersArePast, OverdueStatusIsOverdue
<1> QED
  BY <1>1, <1>2, <1>3, <1>4 DEF Inv

\* evaluate, by what its result says.
LEMMA EvaluateParts ==
    ASSUME NEW reading \in Readings, NEW late \in BOOLEAN
    PROVE  /\ Evaluate(reading, late) \in Verdicts \union {"pending"}
           /\ Evaluate(reading, late) = "refuted" => late
BY DEF Evaluate, Readings, Verdicts

LEMMA JudgeStep == ASSUME Inv, NEW r \in evaluator.todo, Judge(r) PROVE Inv'
<1>1. r \in Rows /\ BearsOut(r)
  BY RowParts DEF Inv, RowsBearOut
<1>2. PICK reading \in Readings :
         evaluator' = [todo |-> evaluator.todo \ {r},
                       hand |-> IF Evaluate(reading, r.late) = "pending" THEN <<>>
                                ELSE <<r, Evaluate(reading, r.late)>>]
  <2>1. r.version = version => conditions[r.position] \in Conditions
    BY <1>1, ArrayParts DEF Inv, TypeOK, BearsOut
  <2>2. r.version = version => conditions[r.position].reading \in Readings
    BY <2>1 DEF Conditions
  <2> QED
    BY <2>2 DEF Judge
<1>3. UNCHANGED <<conditions, version, staler, faults>>
  BY DEF Judge
<1> DEFINE verdict == Evaluate(reading, r.late)
<1>4. /\ verdict # "pending" => verdict \in Verdicts
      /\ verdict = "refuted" => r.late
  BY <1>1, EvaluateParts DEF Rows
<1>5. /\ evaluator'.todo = evaluator.todo \ {r}
      /\ evaluator'.hand = IF verdict = "pending" THEN <<>> ELSE <<r, verdict>>
  BY <1>2
<1>6. evaluator.todo \subseteq Rows
  BY RowParts DEF Inv
<1>7. evaluator' \in [todo : SUBSET Rows, hand : {<<>>} \union (Rows \X Verdicts)]
  BY <1>1, <1>2, <1>4, <1>6
<1>8. TypeOK'
  BY <1>3, <1>7 DEF Inv, TypeOK
<1>9. evaluator'.hand # <<>> =>
         evaluator'.hand[1] = r /\ evaluator'.hand[2] = verdict
  BY <1>5
<1>10. HandIsSound'
  BY <1>4, <1>9 DEF HandIsSound
<1> QED
  BY <1>3, <1>5, <1>8, <1>9, <1>10, EvaluatorShrinks

LEMMA SkipRowStep == ASSUME Inv, NEW r \in evaluator.todo, SkipRow(r) PROVE Inv'
<1>1. evaluator \in [todo : SUBSET Rows, hand : {<<>>} \union (Rows \X Verdicts)]
  BY DEF Inv, TypeOK
<1>2. /\ evaluator' = [evaluator EXCEPT !.todo = @ \ {r}]
      /\ evaluator'.todo = evaluator.todo \ {r}
      /\ evaluator'.hand = evaluator.hand
      /\ UNCHANGED <<conditions, version, staler>>
  BY <1>1 DEF SkipRow
<1>3. TypeOK'
  BY <1>1, <1>2, Bounds DEF Inv, TypeOK, SkipRow
<1>4. HandIsSound'
  BY <1>2 DEF Inv, HandIsSound
<1> QED
  BY <1>2, <1>3, <1>4, EvaluatorShrinks

LEMMA LoseVerdictStep == ASSUME Inv, LoseVerdict PROVE Inv'
<1>1. evaluator \in [todo : SUBSET Rows, hand : {<<>>} \union (Rows \X Verdicts)]
  BY DEF Inv, TypeOK
<1>2. /\ evaluator' \in [todo : SUBSET Rows, hand : {<<>>} \union (Rows \X Verdicts)]
      /\ evaluator'.todo \subseteq evaluator.todo
      /\ evaluator'.hand = <<>>
      /\ UNCHANGED <<conditions, version, staler>>
  BY <1>1 DEF LoseVerdict, Idle
<1>3. TypeOK'
  BY <1>2, Bounds DEF Inv, TypeOK, LoseVerdict
<1>4. HandIsSound'
  BY <1>2 DEF HandIsSound
<1> QED
  BY <1>2, <1>3, <1>4, EvaluatorShrinks

LEMMA WriteVerdictStep == ASSUME Inv, WriteVerdict PROVE Inv'
<1> DEFINE r == evaluator.hand[1]
           s == evaluator.hand[2]
<1>1. /\ evaluator.hand # <<>>
      /\ r \in Rows
      /\ s \in Verdicts
      /\ conditions' = SetStatus(r, s)
      /\ UNCHANGED <<version, staler, faults>>
  BY RowParts DEF Inv, WriteVerdict
<1>2. evaluator \in [todo : SUBSET Rows, hand : {<<>>} \union (Rows \X Verdicts)]
  BY DEF Inv, TypeOK
<1>3. /\ evaluator' \in [todo : SUBSET Rows, hand : {<<>>} \union (Rows \X Verdicts)]
      /\ evaluator'.todo = evaluator.todo
      /\ evaluator'.hand = <<>>
  BY <1>2 DEF WriteVerdict
<1>4. \A p \in DOMAIN conditions : conditions[p] \in Conditions
  BY ArrayParts DEF Inv, TypeOK
<1> s \in Statuses
  BY <1>1 DEF Statuses
<1>5. /\ conditions' \in ArraysOf(Conditions)
      /\ DOMAIN conditions' = DOMAIN conditions
      /\ \A p \in DOMAIN conditions :
            conditions'[p] =
                IF p = r.position
                THEN [conditions[p] EXCEPT !.status = s, !.writer = r.version]
                ELSE conditions[p]
  BY <1>1, SetStatusParts DEF Inv
<1>6. \A p \in DOMAIN conditions :
         /\ Overdue(conditions'[p]) <=> Overdue(conditions[p])
         /\ p # r.position => conditions'[p] = conditions[p]
         /\ p = r.position => /\ conditions'[p].status = s
                              /\ conditions'[p].writer = r.version
  BY <1>4, <1>5 DEF Conditions, Overdue
<1>7. TypeOK'
  BY <1>1, <1>3, <1>5 DEF Inv, TypeOK
<1>8. RowsBearOut'
  BY <1>1, <1>3, <1>5, <1>6 DEF Inv, RowsBearOut, BearsOut
<1>9. RowsUnjudged'
  <2>1. \A q \in evaluator.todo : q.position # r.position
    BY <1>1 DEF Inv, PositionsOnce
  <2> QED
    BY <1>3, <1>5, <1>6, <2>1 DEF Inv, RowsUnjudged, Unjudged
<1>10. (HandIsSound /\ PositionsOnce)'
  BY <1>3 DEF Inv, HandIsSound, PositionsOnce
<1>11. BearsOut(r) /\ (s = "refuted" => r.late)
  BY <1>1 DEF Inv, RowsBearOut, HandIsSound
<1>12. WritersArePast'
  BY <1>1, <1>5, <1>6, <1>11 DEF Inv, WritersArePast, BearsOut
<1>13. OverdueStatusIsOverdue'
  <2> SUFFICES ASSUME NEW p \in DOMAIN conditions,
                      conditions'[p].status \in {"refuted", "stale"},
                      conditions'[p].writer = version
               PROVE  Overdue(conditions'[p])
    BY <1>1, <1>5 DEF OverdueStatusIsOverdue
  <2>1. CASE p = r.position
    BY <1>1, <1>6, <1>11, <2>1 DEF BearsOut, Verdicts
  <2>2. CASE p # r.position
    BY <1>6, <2>2 DEF Inv, OverdueStatusIsOverdue
  <2> QED
    BY <2>1, <2>2
<1> QED
  BY <1>7, <1>8, <1>9, <1>10, <1>12, <1>13 DEF Inv

LEMMA FindStaleStep == ASSUME Inv, FindStale PROVE Inv'
<1> DEFINE overdue == {p \in DOMAIN conditions :
                          /\ ViewStatus(conditions[p]) = "pending"
                          /\ conditions[p].deadline = "past"}
<1>1. /\ staler' = {RowOf(p) : p \in overdue}
      /\ UNCHANGED <<conditions, version, evaluator, faults>>
  BY DEF FindStale
<1>2. \A r \in staler' : r \in Rows /\ BearsOut(r) /\ r.late
  BY <1>1, RowOfParts DEF Overdue
<1>3. TypeOK'
  BY <1>1, <1>2 DEF Inv, TypeOK
<1>4. RowsBearOut'
  BY <1>1, <1>2 DEF Inv, RowsBearOut, BearsOut
<1> QED
  BY <1>1, <1>3, <1>4
  DEF Inv, HandIsSound, RowsUnjudged, Unjudged, PositionsOnce, WritersArePast,
      OverdueStatusIsOverdue

LEMMA MarkStaleStep == ASSUME Inv, NEW r \in staler, MarkStale(r) PROVE Inv'
<1>1. /\ r \in Rows
      /\ BearsOut(r)
      /\ r.late
      /\ staler' = staler \ {r}
      /\ UNCHANGED <<version, evaluator, faults>>
  BY RowParts DEF Inv, RowsBearOut, MarkStale
<1>2. \A p \in DOMAIN conditions : conditions[p] \in Conditions
  BY ArrayParts DEF Inv, TypeOK
<1>3. CASE conditions' = conditions
  <2>1. TypeOK'
    BY <1>1, <1>3 DEF Inv, TypeOK
  <2> QED
    BY <1>1, <1>3, <2>1
    DEF Inv, RowsBearOut, BearsOut, HandIsSound, RowsUnjudged, Unjudged,
        PositionsOnce, WritersArePast, OverdueStatusIsOverdue
<1>4. CASE conditions' = SetStatus(r, "stale")
  <2> "stale" \in Statuses
    BY DEF Statuses
  <2>1. /\ conditions' \in ArraysOf(Conditions)
        /\ DOMAIN conditions' = DOMAIN conditions
        /\ \A p \in DOMAIN conditions :
              conditions'[p] =
                  IF p = r.position
                  THEN [conditions[p] EXCEPT !.status = "stale",
                                             !.writer = r.version]
                  ELSE conditions[p]
    BY <1>1, <1>4, SetStatusParts DEF Inv
  <2>2. \A p \in DOMAIN conditions :
           /\ Overdue(conditions'[p]) <=> Overdue(conditions[p])
           /\ p # r.position => conditions'[p] = conditions[p]
           /\ p = r.position => /\ conditions'[p].status = "stale"
                                /\ conditions'[p].writer = r.version
    BY <1>2, <2>1 DEF Conditions, Overdue
  <2>3. TypeOK'
    BY <1>1, <2>1 DEF Inv, TypeOK
  <2>4. RowsBearOut'
    BY <1>1, <2>1, <2>2 DEF Inv, RowsBearOut, BearsOut
  <2>5. RowsUnjudged'
    BY <1>1, <2>1, <2>2 DEF Inv, RowsUnjudged, Unjudged, Judged
  <2>6. (HandIsSound /\ PositionsOnce)'
    BY <1>1 DEF Inv, HandIsSound, PositionsOnce
  <2>7. WritersArePast'
    BY <1>1, <2>1, <2>2 DEF Inv, WritersArePast, BearsOut
  <2>8. OverdueStatusIsOverdue'
    BY <1>1, <2>1, <2>2 DEF Inv, OverdueStatusIsOverdue, BearsOut
  <2> QED
    BY <2>3, <2>4, <2>5, <2>6, <2>7, <2>8 DEF Inv
<1> QED
  BY <1>3, <1>4 DEF MarkStale

LEMMA SkipMarkStep == ASSUME Inv, NEW r \in staler, SkipMark(r) PROVE Inv'
<1>1. /\ staler' \subseteq staler
      /\ UNCHANGED <<conditions, version, evaluator>>
  BY DEF SkipMark
<1>2. TypeOK'
  BY <1>1, Bounds DEF Inv, TypeOK, SkipMark
<1>3. RowsBearOut'
  BY <1>1 DEF Inv, RowsBearOut, BearsOut
<1> QED
  BY <1>1, <1>2, <1>3
  DEF Inv, HandIsSound, RowsUnjudged, Unjudged, PositionsOnce, WritersArePast,
      OverdueStatusIsOverdue

LEMMA NextInv == Inv /\ [Next]_vars => Inv'
<1> SUFFICES ASSUME Inv, [Next]_vars PROVE Inv'
  OBVIOUS
<1>1. CASE World
  <2>1. (Readings # {}) /\ "none" \in Readings
    BY DEF Readings
  <2> QED
    BY <1>1, <2>1, WorldStep, RedraftStep DEF World
<1>2. CASE Evaluator
  BY <1>2, FetchRowsStep, JudgeStep, WriteVerdictStep DEF Evaluator
<1>3. CASE Staler
  BY <1>3, FindStaleStep, MarkStaleStep DEF Staler
<1>4. CASE Faults
  BY <1>4, SkipRowStep, LoseVerdictStep, SkipMarkStep DEF Faults
<1>5. CASE UNCHANGED vars
  BY <1>5
  DEF vars, Inv, TypeOK, RowsBearOut, BearsOut, HandIsSound, RowsUnjudged,
      Unjudged, PositionsOnce, WritersArePast, OverdueStatusIsOverdue
<1> QED
  BY <1>1, <1>2, <1>3, <1>4, <1>5 DEF Next

LEMMA Invariance == Spec => []Inv
BY InitInv, NextInv, PTL DEF Spec

\* Type correctness of the array and of the passes of both services: no write
\* by position adds to the array or leaves half a condition in it.
THEOREM TypeCorrect == Spec => []TypeOK
<1>1. Inv => TypeOK
  BY DEF Inv
<1> QED
  BY <1>1, Invariance, PTL

\* Refuted and stale are said only of an overdue condition, unless the status
\* was meant for a condition that a redraft has removed (update_condition_status
\* and mark_stale write by position).
THEOREM OverdueOnly == Spec => []OverdueStatusIsOverdue
<1>1. Inv => OverdueStatusIsOverdue
  BY DEF Inv
<1> QED
  BY <1>1, Invariance, PTL

\* One pass of the evaluator after another, whatever the staler and redrafts
\* do between its statements: a verdict is only ever replaced by stale.
THEOREM NoReversal == Spec => VerdictsAreNotReversed
<1>1. Inv /\ [Next]_vars =>
         [\A p \in DOMAIN conditions :
             Judged(conditions[p]) /\ version' = version
                 => conditions'[p].status \in {conditions[p].status, "stale"}]_vars
  <2> SUFFICES ASSUME Inv, Next, NEW p \in DOMAIN conditions,
                      Judged(conditions[p]), version' = version
               PROVE  conditions'[p].status \in {conditions[p].status, "stale"}
    BY DEF vars
  <2>1. \A q \in DOMAIN conditions : conditions[q] \in Conditions
    BY ArrayParts DEF Inv, TypeOK
  <2>2. CASE World
    <3>1. ~Redraft
      BY DEF Redraft, Inv, TypeOK, Versions
    <3>2. PICK q \in DOMAIN conditions, reading \in Readings :
             DeadlinePasses(q) \/ ReadingMoves(q, reading)
      <4>1. "none" \in Readings
        BY DEF Readings
      <4> QED
        BY <2>2, <3>1, <4>1 DEF World
    <3>3. conditions'[p].status = conditions[p].status
      BY <2>1, <3>2 DEF DeadlinePasses, ReadingMoves, Conditions
    <3> QED
      BY <3>3
  <2>3. CASE WriteVerdict
    <3>1. /\ evaluator.hand # <<>>
          /\ evaluator.hand[1] \in Rows
          /\ evaluator.hand[2] \in Statuses
      BY <2>3, RowParts DEF Inv, WriteVerdict, Statuses
    <3>2. p # evaluator.hand[1].position
      BY <3>1 DEF Inv, RowsUnjudged, Unjudged
    <3> QED
      BY <2>3, <3>1, <3>2, SetStatusParts DEF Inv, WriteVerdict
  <2>4. CASE \E r \in staler : MarkStale(r)
    <3>1. PICK r \in staler : MarkStale(r)
      BY <2>4
    <3>2. r \in Rows
      BY RowParts DEF Inv
    <3>3. CASE conditions' = conditions
      BY <3>3
    <3>4. CASE conditions' = SetStatus(r, "stale")
      <4> "stale" \in Statuses
        BY DEF Statuses
      <4>1. conditions'[p] = IF p = r.position
                             THEN [conditions[p] EXCEPT !.status = "stale",
                                                        !.writer = r.version]
                             ELSE conditions[p]
        BY <3>2, <3>4, SetStatusParts DEF Inv
      <4> QED
        BY <2>1, <4>1 DEF Conditions
    <3> QED
      BY <3>1, <3>3, <3>4 DEF MarkStale
  <2>5. CASE UNCHANGED conditions
    BY <2>5
  <2> QED
    BY <2>2, <2>3, <2>4, <2>5
    DEF Next, Evaluator, Staler, Faults, FetchRows, Judge, FindStale, SkipRow,
        LoseVerdict, SkipMark
<1> QED
  BY <1>1, Invariance, PTL DEF Spec, VerdictsAreNotReversed
=============================================================================
