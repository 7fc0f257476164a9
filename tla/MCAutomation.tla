---------------------------- MODULE MCAutomation ----------------------------
(***************************************************************************)
(* The automation: the runner with its sleeves, or the readiness gate of   *)
(* one strategy.  The gate reaches the runner through the stage alone,     *)
(* and the runner allows every change of stage that StagesAreStepped       *)
(* allows the gate; so a behaviour follows the steps of the one or of the  *)
(* other, chosen in the initial state.  That what holds of each holds of   *)
(* any interleaving of both is proved (Automation_proofs).                 *)
(*                                                                         *)
(* Runner: the instance of MCStrategyRunner; the gated strategy has no     *)
(* permission in it.  Gate: two passes, one approval, and metrics that     *)
(* pass everything or that fail for safety.                                *)
(***************************************************************************)
EXTENDS MCStrategyRunner, Automation, ProofPolicy, MarketCalendar

CONSTANTS e1, e2, a1, gated

VARIABLE watched

watchedVars == <<watched, automationVars>>

WatchedInit ==
    /\ watched \in {"runner", "gate"}
    /\ AutomationInit
    /\ \A s \in Strategies \ {Gated} : stage[s] = "shadow"
    /\ status \in IF watched = "runner" THEN {"shadow"} ELSE {"shadow", "paper", "canary_live"}

WatchedNext ==
    /\ \/ watched = "runner" /\ Trading
       \/ watched = "gate" /\ Gating
    /\ UNCHANGED watched

WatchedSpec == WatchedInit /\ [][WatchedNext]_watchedVars

\* The two passes are alike, in every property too.
PassSymmetry == Permutations(Passes)

Ready == [outcomes |-> 30, critical |-> 0, orders |-> 8, quality |-> {60},
          forward |-> {3}, excess |-> {3}, churn |-> {10}, proofs |-> {90},
          incidents |-> {1}, drawdown |-> {-300}, fills |-> {90}, slippage |-> {}]
TwoMetrics == {Ready, [Ready EXCEPT !.critical = 1]}
-----------------------------------------------------------------------------
(***************************************************************************)
(* The readiness of every combination of a few values of each metric       *)
(***************************************************************************)
Around(threshold) == {{}, {threshold - 1}, {threshold}, {threshold + 1}}

SomeMetrics ==
    {[Ready EXCEPT !.quality = q, !.proofs = p, !.incidents = i, !.fills = f,
                   !.critical = c, !.slippage = s] :
        q \in Around(55), p \in Around(80), i \in Around(5), f \in Around(80),
        c \in 0..1, s \in Around(25)}

\* A strategy that may rise does not lose its live permissions for the same
\* metrics, and every metric that is required scores full marks.
ASSUME \A m \in SomeMetrics, s \in Ladder :
    MetricsPass(s, m) =>
        /\ ~FreezesLive(s, m)
        /\ ReadinessScore(s, [m EXCEPT !.incidents = {0}, !.churn = {0}], TRUE) = 100

\* What no outcome, no order and no proof was measured for does not rise.
ASSUME \A m \in SomeMetrics, s \in Stages :
    m.proofs = {} \/ m.incidents = {} \/ m.quality = {} => ~MetricsPass(s, m)
-----------------------------------------------------------------------------
(***************************************************************************)
(* The calendar                                                            *)
(***************************************************************************)
Years == {2021, 2022, 2024, 2025, 2026}
DaysOf(year) == DayNumber(year, 1, 1)..(DayNumber(year + 1, 1, 1) - 1)

\* The tests of market_calendar.rs: a Monday before and after its bar is due,
\* and Thanksgiving.
ASSUME
    /\ ExpectedLatest(DayNumber(2026, 6, 1), 14 * 60 + 30) = DayNumber(2026, 5, 29)
    /\ ExpectedLatest(DayNumber(2026, 6, 1), 22 * 60 + 30) = DayNumber(2026, 6, 1)
    /\ ExpectedLatest(DayNumber(2026, 11, 26), 22 * 60 + 30) = DayNumber(2026, 11, 25)

\* Easter, as published.
ASSUME [y \in Years |-> GoodFriday(y) + 2] =
    2021 :> DayNumber(2021, 4, 4) @@ 2022 :> DayNumber(2022, 4, 17)
        @@ 2024 :> DayNumber(2024, 3, 31) @@ 2025 :> DayNumber(2025, 4, 20)
        @@ 2026 :> DayNumber(2026, 4, 5)

\* A year has 250 to 252 sessions, no weekend or holiday closes the market for
\* more than four days, and the default of five days for a stale bar never
\* rejects the bar of the session before.
ASSUME \A y \in Years :
    /\ Cardinality({n \in DaysOf(y) : IsSession(n)}) \in 250..252
    /\ \A n \in DaysOf(y) : n - ExpectedLatest(n, 0) \in 1..4

\* A holiday is a weekday, and no two fall on one day.
ASSUME \A y \in Years :
    /\ \A h \in Holidays(y) : Weekday(h) \in 0..4
    /\ Cardinality(Holidays(y)) = IF y >= 2022 THEN 10 ELSE 9

\* A session is regular for six and a half hours, after it was pre_market and
\* before it is after_hours.
ASSUME \A n \in DayNumber(2026, 2, 20)..DayNumber(2026, 3, 20) :
    LET regular == {m \in 0..1439 : SessionLabel(n, m) = "regular"}
    IN  IF IsSession(n)
        THEN /\ Cardinality(regular) = 390
             /\ SessionLabel(n, 0) = "pre_market"
             /\ SessionLabel(n, 1439) = "after_hours"
        ELSE regular = {}
-----------------------------------------------------------------------------
(***************************************************************************)
(* The proof policy                                                        *)
(***************************************************************************)
\* On a clock of seven minutes: a window holds what comes on the way from its
\* first minute to its last.
ASSUME \A a, b, m \in 0..6 : InWindow(<<a, b>>, m) <=> (m - a) % 7 <= (b - a) % 7

\* A portfolio never has less than no cash or more than all of it, and gains
\* are no drawdown.
ASSUME \A account \in {0, 10}, mark \in {0, 20}, realized \in {-5, 0, 5}, delta \in 0..12 :
    LET port == DerivePortfolio(account, mark, {[delta |-> delta, premium |-> 0]}, realized)
    IN  port.cash \in 0..Whole /\ port.drawdown <= 0

\* A brake that holds warns and scales; a deeper drawdown never scales less,
\* and halts whenever a lesser one does.
SomeBrakes == SUBSET [at : {-2000, -1000}, scale : {50, 75, 100}, halt : BOOLEAN]
SomeLimits == [brakes : {B \in SomeBrakes : Cardinality(B) <= 2}, single : {0}, options : {0},
               cash : {0}, concurrent : {0}, cluster : {0}]
Port(drawdown) == [total |-> 100, cash |-> Whole, drawdown |-> drawdown, demo |-> FALSE]
ASSUME \A cfg \in SomeLimits : \A a, b \in {-2500, -2000, -1500, 0} :
    LET intent == IntentOf("A", "", TRUE, 1)
        Halts(d) == "drawdown_brake_halt" \in RiskVetoes(intent, {}, Port(d), cfg)
    IN  /\ SizeMultiple(Port(a), cfg) < 100 <=>
               "drawdown brake" \in RiskWarnings(intent, {}, Port(a), cfg)
        /\ a <= b => SizeMultiple(Port(a), cfg) <= SizeMultiple(Port(b), cfg)
        /\ a <= b /\ Halts(b) => Halts(a)

\* A gap blocks whichever way it goes, as long as both closes are known; a
\* missing bar is a missing price too.
Definition == [maxAge |-> 5, maxGap |-> 20, halt |-> "none", adjusted |-> TRUE]
Bar(close, previous) == [age |-> 1, close |-> close, previous |-> previous]
ASSUME
    /\ \A move \in -60..60 :
           MarketBlocks(Definition, {Bar(100 + move, 100)}, TRUE, {}, 0) =
               When(move > 20 \/ move < -20, "market_bar_gap_anomaly")
    /\ MarketBlocks(Definition, {Bar(100, 0)}, TRUE, {}, 0) = {}
    /\ MarketBlocks(Definition, {}, TRUE, {}, 0) = {"market_bar_missing", "market_price_missing"}

\* A target that was written is no news, and none is news at weight 0 after a
\* target that had no weight.
ASSUME \A side \in {"long", "flat"}, w \in {0, 500} :
    /\ IsNews({}, side, w)
    /\ ~IsNews({[side |-> side, weight |-> {w}]}, side, w)
    /\ IsNews({[side |-> side, weight |-> {}]}, side, w) <=> w # 0
=============================================================================
