---------------------------- MODULE MarketReading ----------------------------
(***************************************************************************)
(* What the pipeline reads in a history of candles: the indicators         *)
(* (calculate_indicator_snapshot), the context made of them                *)
(* (build_market_context) and the vote of the EMA breakout strategy.  A    *)
(* step is one candle past the warm-up, read with all the candles before   *)
(* it, as run_backtest and process_candle do.                              *)
(*                                                                         *)
(* An average is a fraction <<numerator, denominator>>: the code's rounding*)
(* to four decimals is finer than two fractions of the instances can be    *)
(* apart.  Open interest, which no rule reads, is left out.                *)
(***************************************************************************)
EXTENDS Integers, Sequences, Functions, FiniteSetsExt

CONSTANTS
  ReadBars,                  \* the candles: [low, high, close, volume]
  ReadWarmup,                \* warmup_candles
  MaxRead,                   \* bound: candles in a history
  EmaPeriod, RsiPeriod, AtrPeriod,
  SupertrendPeriod, SupertrendMultiplier,
  RsiBullish, RsiBearish,    \* rsi_bullish_threshold, rsi_bearish_threshold
  VwapEnabled, SupertrendEnabled,
  MinAgreeingChecks,
  MirrorPrice                \* the price the mirrored market is reflected at

VARIABLES
  seen,       \* the history
  reading     \* Unread, ReadingRaised, or what the last candle was read as

readingVars == <<seen, reading>>

Unread == [outcome |-> "unread"]
ReadingRaised == [outcome |-> "raised"]

Less(a, b) == a[1] * b[2] < b[1] * a[2]
Whole(n) == <<n, 1>>
Distance(a, b) == IF a > b THEN a - b ELSE b - a

\* The sum of the first n of a list, and of all.
SumTo(list, n) == FoldFunctionOnSet(+, 0, list, 1 .. n)
Sum(list) == SumTo(list, Len(list))
Latest(h) == h[Len(h)]
Closes(h) == [i \in DOMAIN h |-> h[i].close]
Volumes(h) == [i \in DOMAIN h |-> h[i].volume]

-----------------------------------------------------------------------------
(* Indicators *)

\* (close - ema) * 2 / (period + 1) + ema, from the plain mean of the first ones.
EmaNext(ema, close) ==
  <<2 * close * ema[2] + (EmaPeriod - 1) * ema[1], (EmaPeriod + 1) * ema[2]>>

EmaTo(h) ==
  LET ema[n \in EmaPeriod .. Len(h)] ==
        IF n = EmaPeriod THEN <<SumTo(Closes(h), n), n>> ELSE EmaNext(ema[n - 1], h[n].close)
  IN ema

Ema(h) == EmaTo(h)[Len(h)]

\* Wilder's mean: the first ones plainly, then (mean * (period - 1) + x) / period.
WilderNext(mean, x, period) == <<mean[1] * (period - 1) + x * mean[2], period * mean[2]>>

WilderTo(list, period) ==
  LET mean[n \in period .. Len(list)] ==
        IF n = period THEN <<SumTo(list, n), n>> ELSE WilderNext(mean[n - 1], list[n], period)
  IN mean

Wilder(list, period) == WilderTo(list, period)[Len(list)]

Rise(before, after) == IF after > before THEN after - before ELSE 0

Gains(h) == [i \in 1 .. Len(h) - 1 |-> Rise(h[i].close, h[i + 1].close)]
Losses(h) == [i \in 1 .. Len(h) - 1 |-> Rise(h[i + 1].close, h[i].close)]

MeanGain(h) == Wilder(Gains(h), RsiPeriod)[1]
MeanLoss(h) == Wilder(Losses(h), RsiPeriod)[1]

\* Without a loss the RSI is 100, without any movement too.
Rsi(h) ==
  IF MeanLoss(h) = 0 THEN Whole(100) ELSE <<100 * MeanGain(h), MeanGain(h) + MeanLoss(h)>>

TrueRange(h, i) ==
  IF i = 1 THEN h[1].high - h[1].low
  ELSE Max({h[i].high - h[i].low, Distance(h[i].high, h[i - 1].close),
            Distance(h[i].low, h[i - 1].close)})

Atr(h, period) == Wilder([i \in DOMAIN h |-> TrueRange(h, i)], period)

Vwap(h) ==
  <<Sum([i \in DOMAIN h |-> (h[i].high + h[i].low + h[i].close) * h[i].volume]),
    3 * Sum(Volumes(h))>>

DetermineTrend(h) ==
  LET middle == Len(h) \div 2
      first == 1 .. middle
      second == middle + 1 .. Len(h)
      High(part) == Max({h[i].high : i \in part})
      Low(part) == Min({h[i].low : i \in part})
  IN CASE High(second) > High(first) /\ Low(second) > Low(first) -> "UPTREND"
       [] High(second) < High(first) /\ Low(second) < Low(first) -> "DOWNTREND"
       [] OTHER -> "SIDEWAYS"

\* The last volume against the average: 1.5 times it, or half of it.
AnalyzeVolume(h) ==
  LET latest == 2 * Latest(h).volume * Len(h)
      total == Sum(Volumes(h))
  IN CASE total > 0 /\ latest >= 3 * total -> "ABOVE_AVERAGE"
       [] latest <= total -> "BELOW_AVERAGE"
       [] OTHER -> "AVERAGE"

\* The band at a distance of the ATR from the middle of candle i, on one side.
BasicBand(h, i, side) ==
  LET atr == Atr(SubSeq(h, 1, i), SupertrendPeriod)
  IN <<(h[i].high + h[i].low) * atr[2] + 2 * side * SupertrendMultiplier * atr[1], 2 * atr[2]>>

FinalUpper(basic, previous, previousClose) ==
  IF Less(basic, previous) \/ Less(previous, previousClose) THEN basic ELSE previous

\* Mutant: a lower band the price has broken is kept.
LowerNeverReset(basic, previous, previousClose) ==
  IF Less(previous, basic) THEN basic ELSE previous

FinalLower(basic, previous, previousClose) ==
  IF Less(previous, basic) \/ Less(previousClose, previous) THEN basic ELSE previous

\* The first direction is bullish unless the close is below its own lower band.
SupertrendStart(h) ==
  LET i == SupertrendPeriod + 1
      lower == BasicBand(h, i, -1)
  IN [upper |-> BasicBand(h, i, 1), lower |-> lower,
      bullish |-> ~Less(Whole(h[i].close), lower), left |-> FALSE]

SupertrendStep(h, st, i) ==
  LET close == Whole(h[i].close)
      before == Whole(h[i - 1].close)
      upper == FinalUpper(BasicBand(h, i, 1), st.upper, before)
      lower == FinalLower(BasicBand(h, i, -1), st.lower, before)
  IN [upper |-> upper, lower |-> lower,
      bullish |-> IF st.bullish THEN ~Less(close, lower) ELSE Less(upper, close),
      left |-> st.left \/ Less(close, lower) # Less(upper, close)]

\* left remembers that some close has been beyond one of the bands and not, as after a
\* wide enough gap, beyond both; the code does not.
SupertrendTo(h) ==
  LET st[i \in SupertrendPeriod + 1 .. Len(h)] ==
        IF i = SupertrendPeriod + 1 THEN SupertrendStart(h) ELSE SupertrendStep(h, st[i - 1], i)
  IN st

Supertrend(h) == SupertrendTo(h)[Len(h)]

\* A history too short for a period, or without any volume, raises.
ReadingRaises(h) ==
  \/ Len(h) < EmaPeriod \/ Len(h) < RsiPeriod + 1
  \/ Len(h) <= SupertrendPeriod \/ Len(h) < AtrPeriod
  \/ Sum(Volumes(h)) = 0

CalculateIndicatorSnapshot(h) ==
  [close |-> Whole(Latest(h).close), ema |-> Ema(h), rsi |-> Rsi(h), vwap |-> Vwap(h),
   bullish |-> Supertrend(h).bullish, atr |-> Atr(h, AtrPeriod),
   trend |-> DetermineTrend(h), volume |-> AnalyzeVolume(h)]

-----------------------------------------------------------------------------
(* The market context *)

ClassifyTrend(s) ==
  CASE s.trend = "UPTREND" /\ s.bullish -> "BullishTrend"
    [] s.trend = "DOWNTREND" /\ ~s.bullish -> "BearishTrend"
    [] OTHER -> "SidewaysTrend"

ClassifyMarketBias(s) ==
  CASE s.trend = "UPTREND" /\ Less(Whole(50), s.rsi) -> "BullishBias"
    [] s.trend = "DOWNTREND" /\ Less(s.rsi, Whole(50)) -> "BearishBias"
    [] OTHER -> "NeutralBias"

ClassifyMomentum(s) ==
  IF Distance(s.rsi[1], 50 * s.rsi[2]) >= 20 * s.rsi[2] THEN "StrongMomentum" ELSE "WeakMomentum"

\* Half a percent of the price.
ClassifyVolatility(s) ==
  IF 200 * s.atr[1] >= s.close[1] * s.atr[2] THEN "HighVolatility" ELSE "LowVolatility"

ClassifyVolumeStrength(s) ==
  CASE s.volume = "ABOVE_AVERAGE" -> "StrongVolume"
    [] s.volume = "BELOW_AVERAGE" -> "WeakVolume"
    [] OTHER -> "AverageVolume"

ClassifyOverallState(trend, bias, volatility) ==
  CASE trend = "SidewaysTrend" ->
         IF volatility = "HighVolatility" THEN "VolatileRange" ELSE "RangeBound"
    [] trend = "BullishTrend" /\ bias = "BullishBias" -> "StrongBullish"
    [] trend = "BearishTrend" /\ bias = "BearishBias" -> "StrongBearish"
    [] OTHER -> "Mixed"

BuildMarketContext(s) ==
  [trend |-> ClassifyTrend(s), bias |-> ClassifyMarketBias(s), momentum |-> ClassifyMomentum(s),
   volatility |-> ClassifyVolatility(s), volume |-> ClassifyVolumeStrength(s),
   overall |-> ClassifyOverallState(ClassifyTrend(s), ClassifyMarketBias(s), ClassifyVolatility(s))]

-----------------------------------------------------------------------------
(* The strategy's vote *)

\* Above one level, below another, or neither.
Side(x, above, below) ==
  IF Less(above, x) THEN "Long" ELSE IF Less(x, below) THEN "Short" ELSE "None"

EmaAlignment(s) == Side(s.close, s.ema, s.ema)
RsiConfirmation(s) == Side(s.rsi, Whole(RsiBullish), Whole(RsiBearish))
VwapConfirmation(s) == Side(s.close, s.vwap, s.vwap)
SupertrendConfirmation(s) == IF s.bullish THEN "Long" ELSE "Short"

TrendAgreement(context) ==
  CASE context.trend = "BullishTrend" -> "Long"
    [] context.trend = "BearishTrend" -> "Short"
    [] OTHER -> "None"

Checks(s, context) ==
  <<EmaAlignment(s), RsiConfirmation(s)>>
    \o (IF VwapEnabled THEN <<VwapConfirmation(s)>> ELSE <<>>)
    \o (IF SupertrendEnabled THEN <<SupertrendConfirmation(s)>> ELSE <<>>)
    \o <<TrendAgreement(context)>>

Count(checks, direction) == Cardinality({i \in DOMAIN checks : checks[i] = direction})

\* Mutant: one vote less will do.
EnoughLess(agreeing) == agreeing >= MinAgreeingChecks - 1

Enough(agreeing) == agreeing >= MinAgreeingChecks

StrengthFor(agreeing, total) ==
  IF agreeing >= total THEN "Strong" ELSE IF agreeing = total - 1 THEN "Moderate" ELSE "Weak"

\* can_trade gates what is valid, not what is read.
Evaluate(s, context, canTrade) ==
  LET checks == Checks(s, context)
      long == Count(checks, "Long")
      short == Count(checks, "Short")
      direction == IF long > short THEN "Long" ELSE IF short > long THEN "Short" ELSE "None"
  IN [direction |-> direction, strength |-> StrengthFor(Max({long, short}), Len(checks)),
      valid |-> canTrade /\ direction # "None" /\ Enough(Max({long, short}))]

\* With the one registered strategy, the best candidate is the only one.
BuildTradeRecommendation(evaluation, canTrade, riskOk) ==
  IF evaluation.valid /\ riskOk THEN [recommended |-> canTrade, direction |-> evaluation.direction]
  ELSE [recommended |-> FALSE, direction |-> "None"]

Reading(h, canTrade, riskOk) ==
  LET s == CalculateIndicatorSnapshot(h)
      context == BuildMarketContext(s)
      evaluation == Evaluate(s, context, canTrade)
  IN [outcome |-> "read", context |-> context, evaluation |-> evaluation,
      recommendation |-> BuildTradeRecommendation(evaluation, canTrade, riskOk)]

-----------------------------------------------------------------------------

ASSUME ReadingAssumption ==
  /\ ReadBars \subseteq [low : Int, high : Int, close : Int, volume : Int]
  /\ ReadWarmup \in Nat /\ MaxRead \in Nat
  /\ {EmaPeriod, RsiPeriod, AtrPeriod, SupertrendPeriod} \subseteq Nat \ {0}
  /\ {SupertrendMultiplier, RsiBullish, RsiBearish, MinAgreeingChecks, MirrorPrice} \subseteq Int
  /\ RsiBearish < RsiBullish
  /\ VwapEnabled \in BOOLEAN /\ SupertrendEnabled \in BOOLEAN

ReadingInit == seen = <<>> /\ reading = Unread

WarmReading(c) ==
  /\ Len(seen) < ReadWarmup
  /\ seen' = Append(seen, c)
  /\ UNCHANGED reading

\* A snapshot that raises ends the run.
ReadCandle(c, canTrade, riskOk) ==
  /\ Len(seen) \in ReadWarmup .. MaxRead - 1 /\ reading # ReadingRaised
  /\ seen' = Append(seen, c)
  /\ reading' = IF ReadingRaises(seen') THEN ReadingRaised ELSE Reading(seen', canTrade, riskOk)

ReadingNext ==
  \E c \in ReadBars :
    \/ WarmReading(c)
    \/ \E canTrade, riskOk \in BOOLEAN : ReadCandle(c, canTrade, riskOk)

-----------------------------------------------------------------------------
(* Properties *)

Mirrored(h) ==
  [i \in DOMAIN h |-> [low |-> 2 * MirrorPrice - h[i].high, high |-> 2 * MirrorPrice - h[i].low,
                       close |-> 2 * MirrorPrice - h[i].close, volume |-> h[i].volume]]

Opposite(word) ==
  CASE word = "Long" -> "Short" [] word = "Short" -> "Long"
    [] word = "BullishTrend" -> "BearishTrend" [] word = "BearishTrend" -> "BullishTrend"
    [] word = "BullishBias" -> "BearishBias" [] word = "BearishBias" -> "BullishBias"
    [] OTHER -> word

\* The price has moved, as far back as the RSI remembers: with a period of 1, last.
Moved(h) == MeanGain(h) + MeanLoss(h) > 0

Opposed(own, mirror) ==
  /\ mirror.context.trend = Opposite(own.context.trend)
  /\ mirror.context.bias = Opposite(own.context.bias)
  /\ mirror.context.momentum = own.context.momentum
  /\ mirror.context.volume = own.context.volume
  /\ mirror.evaluation = [own.evaluation EXCEPT !.direction = Opposite(own.evaluation.direction)]

\* ema_breakout.py calls its rules "a symmetric bullish/bearish design".  With RSI
\* thresholds as far above 50 as below, a market and its mirror image are read as
\* opposites, with the same strength, once a close has left the SuperTrend's bands on
\* one side (its first direction is bullish in both) and if the price has moved (the RSI
\* of a flat market is 100).
MarketsMirrored ==
  reading.outcome = "read" /\ Supertrend(seen).left /\ Moved(seen) /\ RsiBullish + RsiBearish = 100 =>
    Opposed(Reading(seen, TRUE, TRUE), Reading(Mirrored(seen), TRUE, TRUE))

\* A vote that leaves at most one check out, the SuperTrend's among those that vote,
\* and RSI thresholds on either side of 50: the defaults.
StrictVote ==
  /\ SupertrendEnabled /\ MinAgreeingChecks >= (IF VwapEnabled THEN 4 ELSE 3)
  /\ RsiBearish <= 50 /\ 50 <= RsiBullish

\* What is recommended by a strict vote fits what the context tells the operator at the
\* same moment: no Long in a bearish trend or against a bearish bias, no Short in their
\* opposites.
SignalsFitContext ==
  StrictVote /\ reading.outcome = "read" /\ reading.recommendation.recommended =>
    LET direction == reading.recommendation.direction
    IN /\ direction = "Long" => /\ reading.context.trend # "BearishTrend"
                                /\ reading.context.bias # "BearishBias"
       /\ direction = "Short" => /\ reading.context.trend # "BullishTrend"
                                 /\ reading.context.bias # "BullishBias"

ReadingsTrusted == MarketsMirrored /\ SignalsFitContext

=============================================================================
