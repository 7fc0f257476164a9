--------------------------- MODULE ChartIndicators ---------------------------
(***************************************************************************)
(* What is computed from the bars of a chart.                              *)
(*                                                                         *)
(* A chart is a sequence of bars, oldest first, with whole numbers for     *)
(* close, high, low and volume, and the number of the bar's week.          *)
(* Percentages, oscillators and ratios are in hundredths; an optional      *)
(* value is a set of at most one element.  The windows are parameters.     *)
(* The smoothed series themselves (RSI, PSO, MACD, ATR, DMI) are left out: *)
(* their values are inputs here.                                           *)
(***************************************************************************)
EXTENDS Integers, FiniteSets, Sequences
LOCAL INSTANCE FiniteSetsExt
LOCAL INSTANCE SequencesExt

\* f64::round: a half goes away from zero.
Round(a, b) == IF a >= 0 THEN (2 * a + b) \div (2 * b) ELSE -((b - 2 * a) \div (2 * b))

AtLeastV(value, bound) == \E v \in value : v >= bound
Under(value, bound) == \E v \in value : v < bound
Over(value, bound) == \E v \in value : v > bound

-----------------------------------------------------------------------------
(***************************************************************************)
(* Bars                                                                    *)
(***************************************************************************)
BarsOf(bars, i, n) == {bars[j] : j \in {k \in DOMAIN bars : i - n < k /\ k <= i}}
SumAt(x, i, window) == MapThenSumSet(LAMBDA j : x[j], (i - window + 1)..i)
Closes(bars) == [i \in DOMAIN bars |-> bars[i].close]

\* sma_at and pct_vs, in one: how far x[i] is from the mean of the window.
PctVs(value, base, scale) == \* of value to base / scale
    IF base = 0 THEN {} ELSE {Round(10000 * (value * scale - base), base)}
SmaPct(x, i, window) ==
    IF i < window THEN {} ELSE PctVs(x[i], SumAt(x, i, window), window)

\* vwap_at: bars without a volume do not count; three prices make one.
VwapPct(bars, window) ==
    LET n == Len(bars)
        counted == {j \in (n - window + 1)..n : bars[j].volume > 0}
        volume == MapThenSumSet(LAMBDA j : bars[j].volume, counted)
        traded == MapThenSumSet(LAMBDA j : (bars[j].high + bars[j].low + bars[j].close)
                                               * bars[j].volume, counted)
    IN  IF n < window \/ volume = 0 THEN {}
        ELSE PctVs(bars[n].close, traded, 3 * volume)

VwapPosition(pct) ==
    IF pct = {} THEN "unknown"
    ELSE IF AtLeastV(pct, 100) THEN "above"
    ELSE IF AtLeastV(pct, -150) THEN "testing" ELSE "below"

PctVsHigh(bars, window) ==
    LET high == Max({b.high : b \in BarsOf(bars, Len(bars), window)})
    IN  IF high > 0 THEN PctVs(bars[Len(bars)].close, high, 1) ELSE {}

\* A cross of close and average at bar i, in a direction.
CrossesAt(x, i, window, direction) ==
    /\ i - 1 >= window
    /\ LET before == window * x[i - 1] - SumAt(x, i - 1, window)
           now == window * x[i] - SumAt(x, i, window)
       IN  IF direction = "up" THEN before <= 0 /\ now > 0 ELSE before >= 0 /\ now < 0

\* recent_cross_index, as the set of at most one index.
RecentCross(x, window, direction, lookback) ==
    LET found == {i \in DOMAIN x : i >= Len(x) - lookback
                                       /\ CrossesAt(x, i, window, direction)}
    IN  {i \in found : \A j \in found : j <= i}

\* classify_setup: a cross down within 180 bars, and a cross up within 45 that
\* is later.  Before a cross down there always is a close over the average.
Reclaimed(x, window, upWithin, downWithin) ==
    \E u \in RecentCross(x, window, "up", upWithin) :
        \E d \in RecentCross(x, window, "down", downWithin) : u > d
BrokeBefore(x, window, downWithin) ==
    \E d \in RecentCross(x, window, "down", downWithin) : d < Len(x)

\* last_crosses: the newest `limit` over all windows, the shorter window first.
LastCrosses(x, windows, limit) ==
    LET events == {[window |-> w, direction |-> d, at |-> i] :
                      w \in windows, d \in {"up", "down"}, i \in DOMAIN x}
        real == {e \in events : CrossesAt(x, e.at, e.window, e.direction)}
        Ahead(f, e) == f.at > e.at \/ (f.at = e.at /\ f.window < e.window)
    IN  {e \in real : Cardinality({f \in real : Ahead(f, e)}) < limit}

\* weekly_bars
Merged(week, bar) ==
    [bar EXCEPT !.high = Max({bar.high, week.high}), !.low = Min({bar.low, week.low}),
                !.volume = week.volume + bar.volume]
WeeklyBars(bars) ==
    FoldLeft(LAMBDA weeks, bar :
                 IF weeks # <<>> /\ weeks[Len(weeks)].week = bar.week
                 THEN [weeks EXCEPT ![Len(weeks)] = Merged(@, bar)]
                 ELSE Append(weeks, bar),
             <<>>, bars)

-----------------------------------------------------------------------------
(***************************************************************************)
(* Indicators                                                              *)
(***************************************************************************)
\* stochastic_k_series
StochasticK(bars, i, window) ==
    IF i < window THEN {}
    ELSE LET high == Max({b.high : b \in BarsOf(bars, i, window)})
             low == Min({b.low : b \in BarsOf(bars, i, window)})
             k == IF high = low THEN 5000
                  ELSE Round(10000 * (bars[i].close - low), high - low)
         IN  {IF k < 0 THEN 0 ELSE IF k > 10000 THEN 10000 ELSE k}

\* rsi_zone, stochastic_zone and pso_zone: the bounds of four zones.
RsiBounds == [overbought |-> 7000, strong |-> 6000, oversold |-> 3000, weak |-> 4000]
StochasticBounds == [overbought |-> 8000, strong |-> 6000, oversold |-> 2000, weak |-> 4000]
PsoBounds == [overbought |-> 90, strong |-> 20, oversold |-> -90, weak |-> -20]

Zone(value, bounds) ==
    IF value >= bounds.overbought THEN "overbought"
    ELSE IF value >= bounds.strong THEN "strong"
    ELSE IF value <= bounds.oversold THEN "oversold"
    ELSE IF value <= bounds.weak THEN "weak" ELSE "neutral"

\* current_zone_span: how many of the last values are in the zone of the last.
ZoneOf(value, bounds) ==
    IF value = {} THEN "unknown" ELSE Zone(CHOOSE v \in value : TRUE, bounds)
ZoneSpan(values, bounds) ==
    LET n == Len(values)
        zone == ZoneOf(values[n], bounds)
        outside == {i \in 1..n : ZoneOf(values[i], bounds) # zone}
    IN  IF n = 0 \/ zone = "unknown" THEN 0 ELSE n - Max(outside \union {0})

\* analog_events: the last `limit` earlier entries into the zone of the last bar
\* that have `horizon` bars after them.
AnalogEvents(values, closes, bounds, horizon, limit) ==
    LET n == Len(values)
        zone == ZoneOf(values[n], bounds)
        Enters(i) == ZoneOf(values[i], bounds) = zone
                         /\ ZoneOf(values[i - 1], bounds) # zone
        entries == {i \in 2..(n - horizon - 1) : Enters(i) /\ closes[i] > 0}
    IN  IF n = 0 \/ zone = "unknown" THEN {}
        ELSE {i \in entries : Cardinality({j \in entries : j > i}) < limit}

\* volume_state: `volumes` of the window that ends with the last bar.
VolumeState(bars, window) ==
    LET n == Len(bars)
        now == bars[n].volume
        sum == SumAt([i \in DOMAIN bars |-> bars[i].volume], n, window)
        moved == IF n < 2 THEN 0 ELSE bars[n].close - bars[n - 1].close
        heavy == n >= window /\ 2 * window * now >= 3 * sum
    IN  IF bars = <<>> \/ now <= 0 THEN "unknown"
        ELSE IF heavy /\ moved < 0 THEN "distribution"
        ELSE IF heavy /\ moved > 0 THEN "accumulation"
        ELSE IF n >= window /\ 10 * window * now <= 6 * sum THEN "quiet" ELSE "normal"

\* macd_state, dmi_state, atr_state and bollinger_state, from their values.
MacdState(histogram, delta) ==
    IF histogram >= 0 THEN IF Under(delta, 0) THEN "fading" ELSE "bullish"
    ELSE IF Over(delta, 0) THEN "improving" ELSE "bearish"
DmiState(adx, plus, minus) ==
    IF adx < 1800 THEN "range" ELSE IF plus > minus THEN "bull_trend" ELSE "bear_trend"
AtrState(natr) == IF natr >= 500 THEN "volatile" ELSE IF natr <= 200 THEN "quiet" ELSE "normal"
BollingerState(bandwidth, pctB) ==
    IF bandwidth <= 1000 THEN "compressed" ELSE IF bandwidth >= 2500 THEN "expanded"
    ELSE IF pctB >= 95 THEN "upper_band" ELSE IF pctB <= 5 THEN "lower_band" ELSE "normal"

\* relative_strength_state: `relative` maps each of three windows to the return
\* over that of the benchmark.
TrailingReturn(closes, window) ==
    IF window = 0 \/ Len(closes) <= window THEN {}
    ELSE PctVs(closes[Len(closes)], closes[Len(closes) - window], 1)
RelativeReturn(closes, benchmark, window) ==
    {a - b : a \in TrailingReturn(closes, window), b \in TrailingReturn(benchmark, window)}
RelativeStrength(relative) ==
    IF Cardinality({w \in DOMAIN relative : Over(relative[w], 0)}) >= 2 THEN "outperforming"
    ELSE IF Cardinality({w \in DOMAIN relative : Under(relative[w], 0)}) >= 2
    THEN "underperforming" ELSE "neutral"

\* aggregate_relative_strength, of a function from benchmarks to states.
Aggregate(states) ==
    LET Votes(s) == Cardinality({b \in DOMAIN states : states[b] = s})
    IN  IF DOMAIN states = {} THEN "unknown"
        ELSE IF Votes("outperforming") > Votes("underperforming") THEN "outperforming"
        ELSE IF Votes("underperforming") > Votes("outperforming") THEN "underperforming"
        ELSE "neutral"
=============================================================================
