-------------------------- MODULE SignalComposition --------------------------
(***************************************************************************)
(* The pure part of discovery: the detectors, their composition into one   *)
(* interpretation, and the rank of a candidate.                            *)
(*                                                                         *)
(* Prices, volumes and counts are natural numbers, polarities and points   *)
(* of a rank are in hundredths; a quotient is compared by multiplying out, *)
(* so that no rounding enters.  A detector answers whether it fires and    *)
(* with which sign.                                                        *)
(***************************************************************************)
EXTENDS Integers, Sequences, FiniteSets
LOCAL INSTANCE SequencesExt
LOCAL INSTANCE FiniteSetsExt

Sign(n) == IF n > 0 THEN 1 ELSE IF n < 0 THEN -1 ELSE 0
Clamp(n, low, high) == IF n < low THEN low ELSE IF n > high THEN high ELSE n

Total(s) == FoldSeq(LAMBDA a, b : a + b, 0, s)
Highest(s) == Max({s[i] : i \in DOMAIN s})
Lowest(s) == Min({s[i] : i \in DOMAIN s})

-----------------------------------------------------------------------------
(***************************************************************************)
(* Detectors; series run from the newest value to the oldest.              *)
(***************************************************************************)
\* estimate_revision_velocity: one side above twice the other.
RevisionVelocity(up, down, minNet) ==
    LET net == up - down
        bigger == IF up > down THEN up ELSE down
        smaller == IF up > down THEN down ELSE up
        floor == IF smaller > 1 THEN smaller ELSE 1
        size == IF net < 0 THEN -net ELSE net
    IN  IF size >= minNet /\ bigger > 2 * floor - 1 THEN Sign(net) ELSE 0

\* news_sentiment_shift: enough articles in both windows.
SentimentShift(recent, recentCount, prior, priorCount, minShift, minCount) ==
    LET shift == recent - prior
        size == IF shift < 0 THEN -shift ELSE shift
    IN  IF recentCount >= minCount /\ priorCount >= minCount /\ size >= minShift
        THEN Sign(shift) ELSE 0

\* volume_anomaly: the newest volume against the mean of the `window` before it.
VolumeAnomaly(volumes, window, times) ==
    /\ Len(volumes) > window
    /\ volumes[1] > 0
    /\ LET before == Total(SubSeq(volumes, 2, window + 1))
       IN  before > 0 /\ volumes[1] * window > times * before

\* base_breakout: above the prior high, out of a range that is tight.
BaseBreakout(closes, window, tight, tightnessPct) ==
    /\ Len(closes) > window
    /\ LET base == SubSeq(closes, 1, IF Len(closes) < tight THEN Len(closes) ELSE tight)
           high == Highest(base)
           low == Lowest(base)
       IN  /\ low > 0
           /\ 200 * (high - low) <= tightnessPct * (high + low)
    /\ LET priorHigh == Highest(SubSeq(closes, 2, window + 1))
       IN  priorHigh > 0 /\ closes[1] > priorHigh

-----------------------------------------------------------------------------
(***************************************************************************)
(* PriceExtension: its raw mark, and whether the price stands near its     *)
(* high on a hot momentum or far above its mean.                           *)
(***************************************************************************)
NoExtension == [known |-> FALSE]
Extensions == [known : {TRUE}, raw : 0..100, stretched : BOOLEAN]

IsHigh(e) == e.known /\ (e.raw >= 75 \/ e.stretched)
IsLowOrMid(e) == e.known /\ e.raw < 65

\* What the detectors said of a symbol; 0 is no hit.
HitRows == [volume : BOOLEAN, breakout : BOOLEAN,
            estimate : {-1, 0, 1}, sentiment : {-1, 0, 1}]

RawSignals == {"volume_anomaly", "base_breakout", "estimate_revision_velocity",
               "news_sentiment_shift"}

HitNames(h) ==
    {n \in RawSignals :
        \/ n = "volume_anomaly" /\ h.volume
        \/ n = "base_breakout" /\ h.breakout
        \/ n = "estimate_revision_velocity" /\ h.estimate # 0
        \/ n = "news_sentiment_shift" /\ h.sentiment # 0}

Composed == {"early_accumulation", "breakout_confirmation", "extended_momentum",
             "consensus_arrival", "possible_exhaustion",
             "existing_thesis_trigger"}

Positive(h) == h.estimate = 1 \/ h.sentiment = 1
Negative(h) == h.estimate = -1 \/ h.sentiment = -1

\* compose: the name of the one interpretation, or "none".  `armed` is a
\* thesis that is armed, actionable or position_open; `open` any open thesis.
Compose(h, e, tracked, armed, open) ==
    IF HitNames(h) = {} \/ (tracked /\ ~armed) THEN "none"
    ELSE IF armed THEN "existing_thesis_trigger"
    ELSE IF Negative(h) /\ e.known /\ e.raw >= 60 THEN "possible_exhaustion"
    ELSE IF h.breakout /\ (~e.known \/ IsLowOrMid(e)) THEN "breakout_confirmation"
    ELSE IF h.volume /\ IsHigh(e)
    THEN IF Positive(h) \/ open THEN "consensus_arrival" ELSE "extended_momentum"
    ELSE IF HitNames(h) = {"volume_anomaly"} THEN "none"
    ELSE "early_accumulation"

-----------------------------------------------------------------------------
(***************************************************************************)
(* rank_candidate, in hundredths of a point                                *)
(***************************************************************************)
SignalBase(name) ==
    CASE name = "estimate_revision_velocity" -> 4500
      [] name = "base_breakout"              -> 4200
      [] name = "news_sentiment_shift"       -> 3800
      [] name = "research_nomination"        -> 3400
      [] name = "volume_anomaly"             -> 2000
      [] OTHER                               -> 1800

\* `value` is in hundredths; "none" is null.
SignalStrength(name, value) ==
    LET size == IF value < 0 THEN -value ELSE value IN
    CASE name = "research_nomination" -> (Clamp(value, 0, 400) * 14) \div 4
      [] name = "volume_anomaly" -> Clamp((size * 16) \div 5, 0, 1600)
      [] name = "base_breakout" -> Clamp((size * 14) \div 10, 0, 1400)
      [] name = "estimate_revision_velocity" -> Clamp((size * 18) \div 5, 0, 1800)
      [] name = "news_sentiment_shift" -> Clamp(size * 16, 0, 1600)
      [] OTHER -> Clamp(size, 0, 1000)

NullStrength(name) == IF name = "research_nomination" THEN 800 ELSE 0

ListFit(confidences) ==
    IF "high" \in confidences THEN 1000
    ELSE IF "medium" \in confidences THEN 500
    ELSE IF "low" \in confidences THEN 100 ELSE 0

DislocationPoints(classification) ==
    CASE classification = "ignored_indifference" -> 800
      [] classification = "hated_avoided"        -> 600
      [] classification = "loved_mania"          -> -800
      [] OTHER                                   -> 0

TierPoints(tier) == CASE tier = 1 -> 1000 [] tier = 2 -> 600 [] OTHER -> 200

\* `fit` and `theme` are percentages, 0 as good as null.
RankScore(strength, name, fit, theme, classification, tier, confidences, newList) ==
    Clamp(SignalBase(name) + strength + Clamp(fit, 0, 100) * 15
              + Clamp(theme, 0, 100) * 12 + DislocationPoints(classification)
              + TierPoints(tier) + ListFit(confidences) + IF newList THEN 300 ELSE 0,
          0, 10000)

Bucket(score) ==
    IF score >= 7500 THEN "highest"
    ELSE IF score >= 6000 THEN "high"
    ELSE IF score >= 4000 THEN "medium" ELSE "low"
=============================================================================
