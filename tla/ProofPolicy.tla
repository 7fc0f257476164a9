----------------------------- MODULE ProofPolicy -----------------------------
(***************************************************************************)
(* What one evaluation of a strategy decides: its target, the reasons that *)
(* block it, and the result of its proof.                                  *)
(*                                                                         *)
(* Everything a pass has read for one permission is a record; a decision   *)
(* is a set of reasons.  Weights are in hundredths of a percent, amounts   *)
(* and prices are numbers, times are minutes of a day; an optional value   *)
(* is a set of at most one element.                                        *)
(***************************************************************************)
EXTENDS LifecycleStages, FiniteSets
LOCAL INSTANCE FiniteSetsExt

When(condition, reason) == IF condition THEN {reason} ELSE {}
Whole == 10000

-----------------------------------------------------------------------------
(***************************************************************************)
(* evaluate_strategy                                                       *)
(***************************************************************************)
LongStances == {"actionable", "starter_ok", "constructive"}

\* A definition has family, stage, maxAge, maxGap, halt, adjusted and weight; a
\* permission status, scope, instrument, frozen, expired and matches.

\* common_blocked_reasons
CommonBlocks(d, p, technical) ==
    When(~p.matches, "permission_strategy_mismatch")
        \union When(d.stage # "shadow", "strategy_not_shadow")
        \union When(p.status # "approved", "permission_not_approved")
        \union When(p.scope # "shadow", "environment_not_shadow")
        \union When(p.frozen, "permission_frozen")
        \union When(p.expired, "permission_expired")
        \union When(technical = {}, "technical_missing")
        \union UNION {When(t.age > d.maxAge, "technical_stale")
                          \union When(t.state = "unknown" \/ t.stance = "wait_data",
                                      "technical_invalid_state") : t \in technical}

ThesisIsBullish(thesis) ==
    \E t \in thesis : /\ t.state \in {"actionable", "position_open"}
                      /\ t.direction \in {"bullish", "long", "up", "positive"}

\* technical_target and thesis_target
WantsLong(d, technical, thesis) ==
    /\ \E t \in technical : t.stance \in LongStances
    /\ d.family = "thesis_timing" => ThesisIsBullish(thesis)

DecisionBlocks(d, p, technical, thesis) ==
    LET common == CommonBlocks(d, p, technical)
    IN  IF common # {} THEN common
        ELSE When(WantsLong(d, technical, thesis) /\ p.instrument = "equity_short_only",
                  "instrument_scope_blocks_long")

\* target_weight: the permission's cap is the target.
TargetWeight(d, cap) ==
    LET asked == IF cap = {} THEN d.weight ELSE CHOOSE c \in cap : TRUE
    IN  IF asked < 0 THEN 0 ELSE IF asked > Whole THEN Whole ELSE asked

Weight(d, cap, technical, thesis) ==
    IF WantsLong(d, technical, thesis) THEN TargetWeight(d, cap) ELSE 0

\* latest_matches_target: an earlier target without a weight is as good as 0.
IsNews(latest, side, weight) ==
    ~\E e \in latest : e.side = side /\ weight = IF e.weight = {} THEN 0
                                                 ELSE CHOOSE w \in e.weight : TRUE

-----------------------------------------------------------------------------
(***************************************************************************)
(* evaluate_market_readiness                                               *)
(***************************************************************************)
\* A window from a later to an earlier time runs over midnight.
InWindow(window, minute) ==
    IF window[1] <= window[2] THEN window[1] <= minute /\ minute <= window[2]
    ELSE window[1] <= minute \/ minute <= window[2]

Distance(a, b) == IF a < b THEN b - a ELSE a - b

\* `bar` holds the age and the two closes of the technical state, 0 as good
\* as none.
MarketBlocks(d, bar, sessionOpen, windows, minute) ==
    When(~\E b \in bar : b.close > 0, "market_price_missing")
        \union When(bar = {}, "market_bar_missing")
        \union When(\E b \in bar : b.age > d.maxAge, "market_bar_stale")
        \union When(\E b \in bar : /\ b.close > 0 /\ b.previous > 0
                                   /\ 100 * Distance(b.close, b.previous)
                                          > d.maxGap * b.previous,
                    "market_bar_gap_anomaly")
        \union When(~sessionOpen, "market_session_closed")
        \union When(d.halt = "halted", "market_halt_or_suspension")
        \union When(~d.adjusted, "corporate_action_state_unsupported")
        \union When(\E w \in windows : InWindow(w, minute), "no_trade_window")

-----------------------------------------------------------------------------
(***************************************************************************)
(* The risk overlay                                                        *)
(***************************************************************************)
\* `positions` is a set of records with an identity; `delta` and `premium` are
\* amounts.
Exposure(positions) == MapThenSumSet(LAMBDA q : q.delta, positions)
Premium(positions) == MapThenSumSet(LAMBDA q : q.premium, positions)

\* derive_portfolio: an account of 0 is unconfigured, and a made-up portfolio
\* stands in for it.  Percentages are in hundredths.
DemoPortfolio == [total |-> 100000, cash |-> 5000, drawdown |-> 0, demo |-> TRUE]

DerivePortfolio(account, highWater, positions, realized) ==
    IF account <= 0 THEN DemoPortfolio
    ELSE LET consumed == Exposure(positions) + Premium(positions)
             cash == IF consumed > account THEN 0 ELSE account - consumed
             anchor == IF highWater > account THEN highWater ELSE account
             equity == account + realized
         IN  [total |-> account, cash |-> (Whole * cash) \div account, demo |-> FALSE,
              drawdown |-> IF equity >= anchor THEN 0
                           ELSE -((Whole * (anchor - equity)) \div anchor)]

\* A limit of 0 is off.  `pct` compares an amount with a percentage in
\* hundredths of the portfolio.
Exceeds(amount, limit, total) == limit > 0 /\ Whole * amount > limit * total

RiskVetoes(intent, positions, port, cfg) ==
    LET ofSymbol == {q \in positions : q.symbol = intent.symbol}
        symbols == {q.symbol : q \in positions}
        spent == intent.delta + intent.premium
    IN  When(Exceeds(Exposure(ofSymbol) + intent.delta, cfg.single, port.total),
             "single_name_delta_notional_pct")
            \union When(Exceeds(Premium(positions) + intent.premium, cfg.options, port.total),
                        "options_premium_aggregate_pct")
            \union When(/\ cfg.cash > 0
                        /\ \/ port.cash < cfg.cash
                           \/ port.cash * port.total - Whole * spent < cfg.cash * port.total,
                        "cash_floor_pct")
            \union When(\E b \in cfg.brakes : port.drawdown <= b.at /\ b.halt,
                        "drawdown_brake_halt")
            \union When(/\ cfg.concurrent > 0
                        /\ intent.symbol \notin symbols
                        /\ Cardinality(symbols) >= cfg.concurrent, "concurrent_positions")

\* Without a risk configuration that can be read nothing passes.
RiskReasons(intent, positions, port, cfgs) ==
    IF cfgs = {} THEN {"config_unavailable"}
    ELSE UNION {RiskVetoes(intent, positions, port, cfg) : cfg \in cfgs}

RiskWarnings(intent, positions, port, cfg) ==
    LET cluster == {q \in positions : q.cluster = intent.cluster}
    IN  When(\E b \in cfg.brakes : /\ port.drawdown <= b.at
                                   /\ 0 < b.scale /\ b.scale < 100, "drawdown brake")
            \union When(/\ intent.cluster # ""
                        /\ Exceeds(Exposure(cluster) + intent.delta, cfg.cluster, port.total),
                        "sub-sector")
            \union When(port.demo, "portfolio_demo")

\* size_mult, in hundredths: the smallest scale of the brakes that hold.
SizeMultiple(port, cfg) ==
    LET scales == {b.scale : b \in {c \in cfg.brakes : /\ port.drawdown <= c.at
                                                       /\ 0 < c.scale /\ c.scale < 100}}
    IN  IF scales = {} THEN 100 ELSE Min(scales)

\* risk_and_capital_policy_state: the intent of a target is all of it, on top
\* of what is open; a target that is not long asks for nothing.
IntentOf(symbol, cluster, wantsLong, notional) ==
    [symbol |-> symbol, cluster |-> cluster, premium |-> 0,
     delta |-> IF wantsLong THEN notional ELSE 0]

-----------------------------------------------------------------------------
(***************************************************************************)
(* evaluate_proof_policy                                                   *)
(***************************************************************************)
StageBlocks(stage, scope) ==
    IF ~IsRunnable(stage) THEN {"strategy_stage_not_runnable"}
    ELSE When(~AllowsEnvironmentScope(stage, scope), "environment_exceeds_strategy_stage")

PermissionBlocks(d, p) ==
    When(p.status # "approved", "permission_not_approved")
        \union StageBlocks(d.stage, p.scope)
        \union When(p.frozen, "permission_frozen")
        \union When(p.expired, "permission_expired")
        \union When(~p.matches, "permission_strategy_mismatch")

CapBlocks(weight, notional, caps) ==
    When(\E c \in caps.allocation : weight > c, "allocation_exceeds_permission_cap")
        \union When(\E c \in caps.notional : notional > c, "allocation_exceeds_notional_cap")

\* `read` is what the pass read besides; the broker state is never a mismatch.
ProofBlocks(d, p, decision, caps, read) ==
    When(read.kill, "automation_kill_switch")
        \union PermissionBlocks(d, p)
        \union decision.blocks
        \union read.marketBlocks
        \union When(read.stale, "data_freshness_stale")
        \union When(read.missing, "data_freshness_missing")
        \union When(~read.sessionOpen, "session_closed")
        \union read.vetoes
        \union IF decision.blocks # {} THEN {}
               ELSE CapBlocks(decision.weight, decision.notional, caps)
        \union read.allocatorBlocks
        \union When(read.sleeve \in {"frozen", "closed"}, "sleeve_not_open")

ProofResult(blocks, warnings) ==
    IF blocks # {} THEN "blocked" ELSE IF warnings # {} THEN "warning" ELSE "passed"
=============================================================================
