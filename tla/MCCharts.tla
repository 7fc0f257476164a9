------------------------------- MODULE MCCharts -------------------------------
(***************************************************************************)
(* Checks of what is computed from the bars of a chart and from the hits   *)
(* of the detectors, over every small input.                               *)
(***************************************************************************)
EXTENDS ChartIndicators, TechnicalState, SignalComposition

(***************************************************************************)
(* Charts: every close of five bars among three prices                     *)
(***************************************************************************)
SmallCharts == [1..5 -> 1..3]

\* A bar that closes at x[i] after trading on both sides, two bars a week.
BarOf(x, i) == [close |-> x[i], high |-> x[i] + 1, low |-> x[i] - 1, volume |-> i,
                week |-> (i + 1) \div 2]

\* A reclaimed average is not above the last close.
ASSUME \A x \in SmallCharts :
    Reclaimed(x, 2, 2, 4) => 2 * x[5] >= SumAt(x, 5, 2)

\* The newest crosses, no more than asked for.
ASSUME \A x \in SmallCharts :
    LET all == LastCrosses(x, {2, 3}, 9)
        few == LastCrosses(x, {2, 3}, 2)
    IN  /\ few \subseteq all
        /\ Cardinality(few) = IF all = {} THEN 0 ELSE IF Cardinality(all) = 1 THEN 1 ELSE 2
        /\ \A e \in few, f \in all \ few : e.at >= f.at

\* Weeks keep the volume, the extremes and the last close of their days.
ASSUME \A x \in SmallCharts :
    LET days == [i \in DOMAIN x |-> BarOf(x, i)]
        weeks == WeeklyBars(days)
        Volume(bars) == SumAt([i \in DOMAIN bars |-> bars[i].volume], Len(bars), Len(bars))
    IN  /\ Len(weeks) = 3
        /\ Volume(weeks) = Volume(days)
        /\ weeks[3].close = x[5]
        /\ {w.high : w \in BarsOf(weeks, 3, 3)} \subseteq {b.high : b \in BarsOf(days, 5, 5)}

\* The oscillator stays within its scale, and a flat range is its middle.
ASSUME \A x \in SmallCharts : \A i \in 1..5 :
    \A k \in StochasticK([j \in DOMAIN x |-> BarOf(x, j)], i, 3) : k \in 0..10000

\* A mean is beaten by a close above it; where all bars are one price the
\* weighted mean is that price; no close is above the high of its own window.
ASSUME \A x \in SmallCharts :
    LET bars == [i \in DOMAIN x |-> BarOf(x, i)]
    IN  /\ \A i \in 2..5 : \A p \in SmaPct(x, i, 2) : p > 0 <=> x[i] > x[i - 1]
        /\ (\A i \in 3..5 : x[i] = x[5]) => VwapPct(bars, 3) = {0}
        /\ VwapPosition(VwapPct(bars, 6)) = "unknown"
        /\ \A p \in PctVsHigh(bars, 3) : p <= 0

\* What has reclaimed its average had broken it before.
ASSUME \A x \in SmallCharts : Reclaimed(x, 2, 2, 4) => BrokeBefore(x, 2, 4)

\* Zones are ordered as their values are.
ZoneOrder == [oversold |-> 1, weak |-> 2, neutral |-> 3, strong |-> 4, overbought |-> 5]
ASSUME \A bounds \in {RsiBounds, StochasticBounds, PsoBounds} :
    LET marks == UNION {{bounds[f] - 1, bounds[f], bounds[f] + 1} : f \in DOMAIN bounds}
    IN  \A v, w \in marks : v <= w => ZoneOrder[Zone(v, bounds)] <= ZoneOrder[Zone(w, bounds)]

SmallSeries == [1..6 -> {{}, {0}, {50}, {100}}]

\* A span is as long as it can be, and an earlier entry is no part of it.
ASSUME \A v \in SmallSeries :
    LET span == ZoneSpan(v, PsoBounds)
        entries == AnalogEvents(v, [i \in DOMAIN v |-> 1], PsoBounds, 1, 2)
    IN  /\ span = 0 <=> v[6] = {}
        /\ \A i \in (7 - span)..6 : v[i] = v[6]
        /\ span \in 1..5 => v[6 - span] # v[6]
        /\ Cardinality(entries) <= 2
        /\ \A i \in entries : v[i] = v[6] /\ (i = 7 - span \/ i < 6 - span)

\* Turning a chart upside down turns the reading of its volume, of its
\* direction and of its strength around.
Mirror(x) == [i \in DOMAIN x |-> 4 - x[i]]
Other == [accumulation |-> "distribution", distribution |-> "accumulation",
          outperforming |-> "underperforming", underperforming |-> "outperforming"]
Turned(s) == IF s \in DOMAIN Other THEN Other[s] ELSE s

LastIsHeavy(x) == [i \in DOMAIN x |-> [BarOf(x, i) EXCEPT !.volume = IF i = 5 THEN 9 ELSE 1]]
ASSUME \A x \in SmallCharts :
    VolumeState(LastIsHeavy(Mirror(x)), 2) = Turned(VolumeState(LastIsHeavy(x), 2))
ASSUME \A x, y \in [1..3 -> 1..3] :
    RelativeReturn(x, y, 2) = {-v : v \in RelativeReturn(y, x, 2)}
ASSUME \A r \in [1..3 -> {{}, {-1}, {0}, {1}}] :
    RelativeStrength([w \in 1..3 |-> {-v : v \in r[w]}]) = Turned(RelativeStrength(r))
ASSUME \A s \in UNION {[B -> {"outperforming", "underperforming", "neutral"}] : B \in SUBSET (1..3)} :
    Aggregate([b \in DOMAIN s |-> Turned(s[b])]) = Turned(Aggregate(s))
ASSUME \A adx \in {1799, 1800}, p, m \in 1..2 :
    p # m /\ DmiState(adx, p, m) = "bull_trend" => DmiState(adx, m, p) = "bear_trend"

\* A histogram that rises is never called bearish or fading; narrow bands are
\* compressed wherever the price is in them.
ASSUME \A h, d \in -1..1 : d > 0 => MacdState(h, {d}) \in {"bullish", "improving"}
ASSUME \A b \in {0, 1000, 1001, 2500}, p \in {0, 50, 100} :
    BollingerState(b, p) = "compressed" <=> b <= 1000
ASSUME \A a, b \in {200, 201, 499, 500} :
    AtrState(a) = "volatile" /\ a <= b => AtrState(b) = "volatile"
-----------------------------------------------------------------------------
(***************************************************************************)
(* The reading of a chart                                                  *)
(***************************************************************************)
Maybe(S) == {{}} \union {{v} : v \in S}

SomeReads ==
    [sma20 : {{-100}, {100}}, sma50 : {{-600}, {-100}, {100}}, sma200 : Maybe({-600, -300, 0, 900, 2100}),
     vwap20 : {{-300}, {300}}, vwap50 : {{-300}, {0}, {300}}, high : {{}, {-500}},
     rsi : {{3500}, {5000}, {7000}}, k : {{}}, d : {{}}, pso : {{}}, pso32 : {{}},
     psoDelta : {{}, {4}}, histogram : {{1}}, histogramDelta : {{}, {1}},
     bearishDmi : BOOLEAN, distribution : {FALSE}, underperforming : {FALSE},
     reclaimed : BOOLEAN, brokeBefore : {TRUE}]
ChartReads == {r \in SomeReads : r.reclaimed => AtLeast(r.sma200, 0)}

\* No bars, no opinion, and with bars always one.  An entry at once is never
\* advised on an overbought chart, nor a first part of one before two of the
\* indicators have turned.
ASSUME ChartOf({}) = {[state |-> "unknown", setup |-> "unknown", stance |-> "wait_data"]}
ASSUME \A r \in ChartReads :
    LET chart == CHOOSE c \in ChartOf({r}) : TRUE
    IN  /\ chart.stance # "wait_data"
        /\ chart.stance = "actionable" => ~AtLeast(r.rsi, 7000)
        /\ chart.stance = "starter_ok" => ReversalSignal(r) = "confirmed"
        /\ VwapState(r) = "above_vwap_support" => AboveVwap(r) /\ ~BelowVwap(r)
ASSUME \A b, a \in Maybe({"compressed", "quiet"}) : Cardinality(Volatility(b, a)) = 1
-----------------------------------------------------------------------------
(***************************************************************************)
(* The detectors and the rank                                              *)
(***************************************************************************)
\* Turning the revisions or the windows of articles around turns the sign.
ASSUME \A up, down \in 0..7, net \in 1..3 :
    RevisionVelocity(up, down, net) = -RevisionVelocity(down, up, net)
ASSUME \A a, b \in {-40, 0, 40}, n, m \in 1..3, shift \in {30, 50} :
    SentimentShift(a, n, b, m, shift, 2) = -SentimentShift(b, m, a, n, shift, 2)

\* A volume above an anomaly is one, and a constant volume is none.
ASSUME \A v \in [1..4 -> 0..3] :
    /\ VolumeAnomaly(v, 3, 2) => VolumeAnomaly([v EXCEPT ![1] = @ + 1], 3, 2)
    /\ VolumeAnomaly(v, 3, 2) => \E i \in 2..4 : v[i] < v[1]

\* The range that has to be tight holds the newest close: a breakout by more
\* than the tightness is none.
ASSUME \A c \in [1..4 -> {0, 100, 103, 106, 120}] :
    BaseBreakout(c, 3, 3, 8) =>
        /\ \A i \in 2..4 : c[i] < c[1]
        /\ c[1] - c[2] <= 8

\* Interpretations rank by the facts around them, and below what they are made
\* of; a better fit never lowers the bucket.
BucketOrder == [low |-> 1, medium |-> 2, high |-> 3, highest |-> 4]
ASSUME \A c \in Composed, r \in RawSignals : SignalBase(c) < SignalBase(r)
ASSUME \A name \in Composed \union RawSignals \union {"research_nomination"},
          value \in {-500, 0, 30, 500}, tier \in 1..3, lists \in SUBSET {"high", "low"},
          class \in {"ignored_indifference", "loved_mania", "none"}, theme \in {0, 50} :
    LET strength == SignalStrength(name, value)
        Score(fit) == RankScore(strength, name, fit, theme, class, tier, lists, lists = {})
    IN  /\ strength \in 0..1800 /\ NullStrength(name) \in 0..1800
        /\ Score(0) \in 0..10000
        /\ \A a, b \in {0, 40, 90} :
               a <= b => BucketOrder[Bucket(Score(a))] <= BucketOrder[Bucket(Score(b))]
=============================================================================
