--------------------------- MODULE TechnicalState ---------------------------
(***************************************************************************)
(* What a chart is said to be: its trend, its state, and the stance        *)
(* towards an entry that the strategies, the workbench and the reflection  *)
(* use.                                                                    *)
(*                                                                         *)
(* A `read` is what is known of the daily bars: optional values, sets of   *)
(* at most one element, in hundredths.                                     *)
(***************************************************************************)
EXTENDS Integers

Optional(S) == {v \in SUBSET S : \A a, b \in v : a = b}

Reads ==
    [sma20 : Optional(Int), sma50 : Optional(Int), sma200 : Optional(Int),
     vwap20 : Optional(Int), vwap50 : Optional(Int), high : Optional(Int),
     rsi : Optional(Int), k : Optional(Int), d : Optional(Int),
     pso : Optional(Int), pso32 : Optional(Int), psoDelta : Optional(Int),
     histogram : Optional(Int), histogramDelta : Optional(Int),
     bearishDmi : BOOLEAN, distribution : BOOLEAN, underperforming : BOOLEAN,
     reclaimed : BOOLEAN, brokeBefore : BOOLEAN]

AtLeast(value, bound) == \E v \in value : v >= bound
AtMost(value, bound) == \E v \in value : v <= bound
Below(value, bound) == \E v \in value : v < bound
Above(value, bound) == \E v \in value : v > bound
Between(value, low, high) == \E v \in value : low <= v /\ v <= high

-----------------------------------------------------------------------------
(***************************************************************************)
(* Oscillators of the daily interval                                       *)
(***************************************************************************)
PsoExtreme(r) == AtLeast(r.pso, 90) \/ AtLeast(r.pso32, 90)
OscillatorExtended(r) ==
    \/ AtLeast(r.rsi, 7000)
    \/ PsoExtreme(r)
    \/ AtLeast(r.k, 8500) /\ AtLeast(r.d, 8000) /\ AtLeast(r.pso, 20)
OscillatorWeak(r) ==
    \/ AtMost(r.pso, -20)
    \/ AtMost(r.pso32, -20)
    \/ AtMost(r.k, 2000) /\ AtMost(r.d, 2500)
Oversold(r) ==
    \/ AtMost(r.rsi, 3500) \/ AtMost(r.k, 2000) \/ AtMost(r.pso, -90)
    \/ AtMost(r.pso32, -90)

PsoTurning(r) ==
    \/ Above(r.psoDelta, 3)
    \/ AtMost(r.k, 4500) /\ \E k \in r.k, d \in r.d : k > d
MacdTurning(r) == Above(r.histogramDelta, 0)
MacdBearish(r) == Below(r.histogram, 0) /\ ~MacdTurning(r)

ReversalSignal(r) ==
    IF PsoTurning(r) /\ MacdTurning(r) THEN "confirmed"
    ELSE IF PsoTurning(r) \/ MacdTurning(r) THEN "early" ELSE "none"

-----------------------------------------------------------------------------
(***************************************************************************)
(* cross_technical                                                         *)
(***************************************************************************)
NearTrend(r) == AtLeast(r.sma200, -200)
BelowShort(r) == Below(r.sma20, 0) /\ Below(r.sma50, 0)
BelowVwap(r) == Below(r.vwap20, 0) /\ Below(r.vwap50, 0)
TestingVwap(r) == Between(r.vwap20, -150, 150) \/ Between(r.vwap50, -150, 150)
AboveVwap(r) == AtLeast(r.vwap20, 0) /\ AtLeast(r.vwap50, 0)
VwapState(r) ==
    IF BelowVwap(r) THEN "below_vwap" ELSE IF TestingVwap(r) THEN "testing_vwap"
    ELSE IF AboveVwap(r) THEN "above_vwap_support" ELSE "mixed_vwap"

Stretched(r) == Above(r.sma200, 2000) \/ AtLeast(r.high, -200)

TrendState(r) ==
    IF Below(r.sma200, -200) /\ (r.bearishDmi \/ r.underperforming \/ r.distribution)
    THEN "breakdown"
    ELSE IF Stretched(r) \/ OscillatorExtended(r) THEN "extended_chase"
    ELSE IF NearTrend(r) /\ (BelowShort(r) \/ BelowVwap(r) \/ TestingVwap(r))
    THEN "pullback_in_uptrend"
    ELSE IF NearTrend(r) THEN "uptrend"
    ELSE IF Between(r.sma200, -200, 200) THEN "testing_200d" ELSE "trend_unclear"

MomentumState(r) ==
    IF OscillatorExtended(r) THEN "extended"
    ELSE IF Oversold(r)
    THEN IF ReversalSignal(r) = "none" THEN "oversold" ELSE "turning_up_from_oversold"
    ELSE IF OscillatorWeak(r) \/ MacdBearish(r) THEN "weak"
    ELSE IF AtLeast(r.histogram, 0) THEN "positive" ELSE "neutral"

\* volatility_state: the Bollinger bands before the range.
Volatility(bollinger, atr) ==
    IF bollinger # {} THEN bollinger ELSE IF atr # {} THEN atr ELSE {"unknown"}

Pulls(r) == BelowShort(r) \/ BelowVwap(r) \/ TestingVwap(r) \/ Oversold(r)

BuyTiming(r) ==
    IF TrendState(r) = "breakdown" THEN "avoid_breakdown"
    ELSE IF TrendState(r) = "extended_chase" THEN "avoid_chase"
    ELSE IF NearTrend(r) /\ Pulls(r)
    THEN IF ReversalSignal(r) = "confirmed" THEN "pullback_reversal" ELSE "pullback_watch"
    ELSE IF NearTrend(r) /\ MomentumState(r) = "positive" /\ ~BelowVwap(r)
    THEN "constructive" ELSE "wait"

-----------------------------------------------------------------------------
(***************************************************************************)
(* classify_state and classify_setup, of a chart that has bars             *)
(***************************************************************************)
ChartState(r) ==
    IF BuyTiming(r) = "pullback_reversal" THEN "reversal_confirming"
    ELSE IF BuyTiming(r) = "pullback_watch" THEN "pullback_watch"
    ELSE IF Stretched(r) \/ OscillatorExtended(r) THEN "extended"
    ELSE IF TrendState(r) = "breakdown" \/ Below(r.sma200, -500) \/ AtMost(r.rsi, 4000)
    THEN "deteriorating"
    ELSE IF Between(r.sma50, -500, 500) THEN "base_building"
    ELSE IF AtLeast(r.sma200, 0) /\ Below(r.rsi, 7000) THEN "constructive"
    ELSE "unknown"

\* `reclaimed` and `brokeBefore`: see ChartIndicators, on the 200-day average.
Setup(r) ==
    IF r.reclaimed /\ AtMost(r.sma200, 800) THEN "200d_reclaim"
    ELSE IF r.brokeBefore /\ Between(r.sma200, -300, 200) THEN "200d_reclaim_watch"
    ELSE CASE ChartState(r) = "reversal_confirming" -> "pullback_reversal"
           [] ChartState(r) = "pullback_watch" -> "pullback_watch"
           [] ChartState(r) = "extended" -> "extended_run"
           [] ChartState(r) = "base_building" -> "base_building"
           [] ChartState(r) = "deteriorating" -> "breakdown"
           [] OTHER -> "constructive_trend"

Stance(r) ==
    CASE Setup(r) = "200d_reclaim" ->
             IF AtLeast(r.rsi, 7000) \/ PsoExtreme(r) THEN "wait_retest" ELSE "actionable"
      [] Setup(r) = "200d_reclaim_watch" -> "wait_reclaim"
      [] Setup(r) = "pullback_reversal" -> "starter_ok"
      [] Setup(r) = "pullback_watch" -> "wait_reversal"
      [] Setup(r) = "extended_run" -> "avoid_chase"
      [] Setup(r) = "base_building" -> "wait_breakout"
      [] Setup(r) = "breakdown" -> "avoid"
      [] OTHER -> "constructive"

\* Without bars nothing is known.
ChartOf(reads) ==
    IF reads = {} THEN {[state |-> "unknown", setup |-> "unknown", stance |-> "wait_data"]}
    ELSE {[state |-> ChartState(r), setup |-> Setup(r), stance |-> Stance(r)] : r \in reads}
=============================================================================
