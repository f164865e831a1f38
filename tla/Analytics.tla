----------------------------- MODULE Analytics ------------------------------
(***************************************************************************)
(* The analytics of a finished backtest (build_analytics_report): drawdown *)
(* episodes, streaks, periods and the buckets trades are grouped into.     *)
(*                                                                         *)
(* Each figure is computed by a function of its own, several of them a     *)
(* second time in a different way; the properties say that they agree with *)
(* one another and with the backtest they describe.  A win rate is kept as *)
(* the count of wins, a ratio as whether it exists and the sign it has.    *)
(***************************************************************************)
EXTENDS Backtest, FiniteSets

CONSTANTS
  DaysPerMonth, MonthsPerYear,   \* the calendar, scaled down
  MarketOpen,                    \* market_open
  OpeningSession,                \* opening_session_minutes
  ClosingSession,                \* closing_session_minutes
  ExpiryDays,                    \* expiry_dates
  RegimeWarmup                   \* the 20 candles market regimes insist on

ASSUME AnalyticsAssumption == RegimeWarmup \in Nat

Month(time) == Day(time) \div DaysPerMonth
Year(time) == Month(time) \div MonthsPerYear

-----------------------------------------------------------------------------
(* Drawdown episodes *)

Episode(peak, trough, recovery) ==
  [peakTime |-> peak.time, troughTime |-> trough.time, recoveryTime |-> recovery,
   depth |-> peak.equity - trough.equity]

\* Mutant: the trough stays where the drawdown began.
StepAtFirstDip(scan, p) ==
  IF p.equity >= scan.peak.equity
  THEN [episodes |-> IF scan.under
                     THEN Append(scan.episodes, Episode(scan.peak, scan.trough, p.time))
                     ELSE scan.episodes,
        peak |-> p, trough |-> p, under |-> FALSE]
  ELSE IF scan.under THEN scan
  ELSE [scan EXCEPT !.under = TRUE, !.trough = p]

Step(scan, p) ==
  IF p.equity >= scan.peak.equity
  THEN [episodes |-> IF scan.under
                     THEN Append(scan.episodes, Episode(scan.peak, scan.trough, p.time))
                     ELSE scan.episodes,
        peak |-> p, trough |-> p, under |-> FALSE]
  ELSE [scan EXCEPT !.under = TRUE,
                    !.trough = IF scan.under /\ p.equity >= @.equity THEN @ ELSE p]

IdentifyDrawdownEpisodes(curve) ==
  LET start == [episodes |-> <<>>, peak |-> Head(curve), trough |-> Head(curve), under |-> FALSE]
      end == FoldLeft(Step, start, curve)
  IN IF curve = <<>> THEN <<>>
     ELSE IF end.under THEN Append(end.episodes, Episode(end.peak, end.trough, None))
     ELSE end.episodes

-----------------------------------------------------------------------------
(* Streaks *)

NoStreak == [won |-> None, length |-> 0]

\* The running streak is filed under wins or losses when it breaks.
FileStreak(s) ==
  IF s.current = NoStreak THEN s
  ELSE IF s.current.won THEN [s EXCEPT !.winning = Append(@, s.current.length)]
  ELSE [s EXCEPT !.losing = Append(@, s.current.length)]

Streak(s, trade) ==
  LET won == IF trade.pnl > 0 THEN TRUE ELSE FALSE
  IN IF trade.pnl = 0 THEN [FileStreak(s) EXCEPT !.current = NoStreak]
     ELSE IF s.current # NoStreak /\ s.current.won = won
          THEN [s EXCEPT !.current.length = @ + 1]
     ELSE [FileStreak(s) EXCEPT !.current = [won |-> won, length |-> 1]]

AllStreakLengths(trades) ==
  FileStreak(FoldLeft(Streak, [winning |-> <<>>, losing |-> <<>>, current |-> NoStreak], trades))

Longest(lengths) == Max({0} \cup {lengths[i] : i \in DOMAIN lengths})

Equities(curve) == {curve[i].equity : i \in DOMAIN curve}

LargestEquityPeak(curve) == IF curve = <<>> THEN 0 ELSE Max(Equities(curve))

LargestEquityValley(curve) == IF curve = <<>> THEN 0 ELSE Min(Equities(curve))

AnalyzeRisk(trades, curve) ==
  LET streaks == AllStreakLengths(trades)
      longest == CalculateStreaks(trades)
  IN [longestWinning |-> longest.maxWin, longestLosing |-> longest.maxLoss,
      winning |-> streaks.winning, losing |-> streaks.losing,
      episodes |-> IdentifyDrawdownEpisodes(curve),
      peak |-> LargestEquityPeak(curve), valley |-> LargestEquityValley(curve)]

-----------------------------------------------------------------------------
(* Buckets *)

\* One bucket per label that occurs: its trades, wins and net pnl.  Trades without
\* a label are in none.
BuildBuckets(trades, label) ==
  LET at(l) == {i \in DOMAIN label : label[i] = l}
  IN [l \in {label[i] : i \in DOMAIN label} |->
        [trades |-> Cardinality(at(l)),
         wins |-> Cardinality(at(l) \cap Winning(trades)),
         netPnl |-> PnlOf(trades, at(l))]]

ByHour(trades) ==
  BuildBuckets(trades, [i \in DOMAIN trades |-> Minute(trades[i].entryTime) \div 60])

ByWeekday(trades) ==
  BuildBuckets(trades, [i \in DOMAIN trades |-> Day(trades[i].entryTime) % 7])

SessionLabel(trade) ==
  LET minute == Minute(trade.entryTime)
  IN IF minute < MarketOpen + OpeningSession THEN "Opening"
     ELSE IF minute >= MarketClose - ClosingSession THEN "Closing"
     ELSE "Mid"

BySession(trades) == BuildBuckets(trades, [i \in DOMAIN trades |-> SessionLabel(trades[i])])

ByExpiry(trades) ==
  IF ExpiryDays = {} THEN <<>>
  ELSE BuildBuckets(trades, [i \in DOMAIN trades |-> Day(trades[i].entryTime) \in ExpiryDays])

\* The labels of the buckets with the highest and the lowest net pnl; of several
\* the code takes the one whose first trade came first.
Best(buckets) ==
  {l \in DOMAIN buckets : \A m \in DOMAIN buckets : buckets[m].netPnl <= buckets[l].netPnl}

Worst(buckets) ==
  {l \in DOMAIN buckets : \A m \in DOMAIN buckets : buckets[m].netPnl >= buckets[l].netPnl}

AnalyzeTime(trades) ==
  [hour |-> ByHour(trades), weekday |-> ByWeekday(trades),
   session |-> BySession(trades), expiry |-> ByExpiry(trades),
   bestHour |-> Best(ByHour(trades)), worstHour |-> Worst(ByHour(trades)),
   bestWeekday |-> Best(ByWeekday(trades)), worstWeekday |-> Worst(ByWeekday(trades))]

\* A backtest only goes long, with the one strategy that is registered.
ByDirection(trades) == BuildBuckets(trades, [i \in DOMAIN trades |-> "Long"])

ByExitReason(trades) == BuildBuckets(trades, [i \in DOMAIN trades |-> trades[i].reason])

\* The profit factor of a strategy is kept as the two grosses it divides.
AnalyzeStrategies(trades) ==
  LET strategy == [i \in DOMAIN trades |-> "EMABreakout"]
      buckets == BuildBuckets(trades, strategy)
      by(s) == {i \in DOMAIN trades : strategy[i] = s}
  IN [s \in DOMAIN buckets |->
        [bucket |-> buckets[s],
         grossProfit |-> PnlOf(trades, by(s) \cap Winning(trades)),
         grossLoss |-> -PnlOf(trades, by(s) \cap Losing(trades))]]

\* How long positions were held, in minutes, and how many each rule closed.
AnalyzeTradeDistribution(trades) ==
  LET held == {trades[i].exitTime - trades[i].entryTime : i \in DOMAIN trades}
      Closed(reason) == Cardinality({i \in DOMAIN trades : trades[i].reason = reason})
  IN [longest |-> IF held = {} THEN 0 ELSE Max(held),
      shortest |-> IF held = {} THEN 0 ELSE Min(held),
      byDirection |-> ByDirection(trades), byExitReason |-> ByExitReason(trades),
      stopLoss |-> Closed("StopLoss"), target |-> Closed("Target"), endOfDay |-> Closed("EndOfDay")]

\* The trend of the candle a trade was entered on stands for the three regimes;
\* a trade whose entry candle comes before the warm-up is in none of them.
TrendAt(c) == IF 2 * c.close >= c.low + c.high THEN "Bullish" ELSE "Bearish"

ByTrend(trades, data) ==
  LET IndexByTimestamp(time) == CHOOSE i \in DOMAIN data : data[i].time = time
      warm == {i \in DOMAIN trades : IndexByTimestamp(trades[i].entryTime) > RegimeWarmup}
  IN BuildBuckets(trades, [i \in warm |-> TrendAt(data[IndexByTimestamp(trades[i].entryTime)])])

-----------------------------------------------------------------------------
(* Periods *)

\* One row per period that has a point on the curve; the curve is in the order of
\* time, so that the points of a period follow one another.
Periods(trades, curve, Period(_)) ==
  [period \in {Period(curve[i].time) : i \in DOMAIN curve} |->
     LET mine == {i \in DOMAIN trades : Period(trades[i].exitTime) = period}
         at == {i \in DOMAIN curve : Period(curve[i].time) = period}
         points == SubSeq(curve, Min(at), Max(at))
     IN [trades |-> Cardinality(mine), netPnl |-> PnlOf(trades, mine),
         change |-> Last(points).equity - Head(points).equity,
         maxDrawdown |-> MaxDrawdown(points)]]

AnalyzeYearlyPerformance(trades, curve) == Periods(trades, curve, Year)

AnalyzeMonthlyPerformance(trades, curve) == Periods(trades, curve, Month)

-----------------------------------------------------------------------------
(* Ratios *)

\* Whole days between the first point and the last, None when there are none.
DaysElapsed(curve) ==
  LET days == (Last(curve).time - Head(curve).time) \div 1440
  IN IF Len(curve) < 2 \/ days <= 0 THEN None ELSE days

CagrDefined(curve, capital) == DaysElapsed(curve) # None /\ capital > 0

Downside(curve) == SelectSeq(DailyReturns(curve), LAMBDA r : r[1] < 0)

SortinoDefined(curve) == Len(DailyReturns(curve)) >= 2 /\ Len(Downside(curve)) >= 2

CalmarDefined(curve, capital) == CagrDefined(curve, capital) /\ MaxDrawdown(curve) > 0

RecoveryDefined(report) == report.maxDrawdown > 0

\* The analytics of a backtest: its report with the ratios that exist, and every section.
BuildAnalyticsReport(trades, curve, capital, data) ==
  LET report == Report(trades, curve, capital)
  IN [overall |-> report, hasCagr |-> CagrDefined(curve, capital),
      hasSharpe |-> SharpeDefined(curve), hasSortino |-> SortinoDefined(curve),
      hasCalmar |-> CalmarDefined(curve, capital), hasRecovery |-> RecoveryDefined(report),
      yearly |-> AnalyzeYearlyPerformance(trades, curve),
      monthly |-> AnalyzeMonthlyPerformance(trades, curve),
      regimes |-> ByTrend(trades, data), time |-> AnalyzeTime(trades),
      distribution |-> AnalyzeTradeDistribution(trades),
      risk |-> AnalyzeRisk(trades, curve), strategies |-> AnalyzeStrategies(trades)]

-----------------------------------------------------------------------------
(* What a finished backtest promises *)

History == book.trades

\* The sum of an integer function over its domain.
SumOf(f) == FoldFunction(+, 0, f)

\* The book adds up: the last equity point, the running capital, the list of
\* trades, the daily pnl and the two grosses of the report are one number
\* (backtest_engine 95-191, performance 14-69 and 152-163).
BooksAgree ==
  LET report == Report(History, equity_curve, book.capital)
      daily == DailyPnL(History)
      result == PnlOf(History, DOMAIN History)
  IN phase = "done" =>
       /\ Last(equity_curve).equity = book.capital
       /\ book.capital = InitialCapital + result
       /\ result = report.grossProfit - report.grossLoss
       /\ result = SumOf(daily)
       /\ \A day \in DOMAIN daily : \E i \in DOMAIN equity_curve : Day(equity_curve[i].time) = day

PnlBefore(trades, i) == SumOf([j \in 1 .. i - 1 |-> trades[j].pnl])

TradeSound(trades, i) ==
  LET t == trades[i]
  IN /\ t.entryTime < t.exitTime \/ (t.reason = "EndOfData" /\ t.pnl = 0)
     /\ i > 1 => t.entryTime - trades[i - 1].exitTime >= CooldownMinutes
     /\ -100 * t.pnl <= RiskPercent * (InitialCapital + PnlBefore(trades, i))

\* No position overlaps another, only the forced close of an entry on the last
\* candle ends in the minute it began, and no trade loses more than the
\* configured share of the capital it was entered with (trade_executor 64-99).
TradesSound == \A i \in DOMAIN History : TradeSound(History, i)

\* The trades entered on a day, and those the engine has counted on it.
EntriesOn(trades, day) == {i \in DOMAIN trades : Day(trades[i].entryTime) = day}

ExitsOn(trades, day) ==
  {i \in DOMAIN trades : Day(trades[i].exitTime) = day /\ trades[i].reason # "EndOfData"}

LossOf(trades, S) == SumOf([i \in S |-> HigherOf(0, -trades[i].pnl)])

LossBefore(trades, day, time) ==
  LossOf(trades, {i \in ExitsOn(trades, day) : trades[i].exitTime <= time})

\* Although a day counts its trades when they close, no day sees more entries or
\* more exits than max_trades_per_day, nor an entry after the day's loss limit
\* was reached (backtest_engine 89-103).
DayLimitsHold ==
  \A day \in {Day(History[i].exitTime) : i \in DOMAIN History} :
    /\ Cardinality(EntriesOn(History, day)) <= MaxTradesPerDay
    /\ Cardinality(ExitsOn(History, day)) <= MaxTradesPerDay
    /\ \A i \in EntriesOn(History, day) :
         LossBefore(History, day, History[i].entryTime) < MaxDailyLoss

\* Both for one replay: what the gates let in stays within every limit.
TradesWithinLimits == TradesSound /\ DayLimitsHold

\* The deepest fall between any two points is the report's max_drawdown and the
\* depth of the deepest episode; there is an episode exactly when there is a
\* recovery factor, and only the last one may never recover (drawdown 18-61).
DrawdownsAgree(analytics) ==
  LET episodes == analytics.risk.episodes
      at == [i \in DOMAIN equity_curve |-> equity_curve[i].equity]
      deepest == Max(UNION {{at[i] - at[j] : j \in i .. Len(at)} : i \in DOMAIN at})
  IN /\ analytics.overall.maxDrawdown = deepest
     /\ Longest([i \in DOMAIN episodes |-> episodes[i].depth]) = deepest
     /\ analytics.hasRecovery <=> episodes # <<>>
     /\ \A i \in DOMAIN episodes : episodes[i].recoveryTime = None => i = Len(episodes)
     /\ deepest <= analytics.risk.peak - analytics.risk.valley

\* The two walks over the trades agree on the longest streaks, every trade that
\* is not flat is in one streak, and the report counts as many wins and losses
\* (risk_analysis 16-65, performance 86-106).
StreaksAgree(analytics) ==
  LET report == analytics.overall
      risk == analytics.risk
  IN /\ risk.longestWinning = Longest(risk.winning)
     /\ risk.longestLosing = Longest(risk.losing)
     /\ report.wins = SumOf(risk.winning)
     /\ report.losses = SumOf(risk.losing)

\* The buckets of f hold every trade once: their counts and their pnl add up.
Partitions(f, report) ==
  /\ SumOf([l \in DOMAIN f |-> f[l].trades]) = report.trades
  /\ SumOf([l \in DOMAIN f |-> f[l].netPnl]) = report.netProfit

\* The best bucket made no less than the average one, the worst no more.
RanksBuckets(f, best, worst, report) ==
  /\ \A l \in best : Cardinality(DOMAIN f) * f[l].netPnl >= report.netProfit
  /\ \A l \in worst : Cardinality(DOMAIN f) * f[l].netPnl <= report.netProfit
  /\ best # {} <=> report.trades > 0

\* Every grouping puts each trade in exactly one bucket: counts, wins and pnl add
\* up to the report's, over hours, weekdays, sessions, expiry days, directions, exit
\* reasons, regimes, months and years; the best hour and weekday make no less than
\* the average one and the worst no more; the strategy's profit factor is the report's;
\* no period falls further than the whole curve; and the three shares of the exits
\* leave out the forced close at most.
GroupingsPartition(analytics) ==
  LET report == analytics.overall
      time == analytics.time
      distribution == analytics.distribution
      forced == History # <<>> /\ Last(History).reason = "EndOfData"
  IN /\ Partitions(time.hour, report) /\ Partitions(time.weekday, report)
     /\ Partitions(time.session, report)
     /\ Partitions(distribution.byDirection, report)
     /\ Partitions(distribution.byExitReason, report)
     /\ Partitions(analytics.yearly, report) /\ Partitions(analytics.monthly, report)
     /\ ExpiryDays # {} => Partitions(time.expiry, report)
     /\ RegimeWarmup <= WarmupCandles => Partitions(analytics.regimes, report)
     /\ RanksBuckets(time.hour, time.bestHour, time.worstHour, report)
     /\ RanksBuckets(time.weekday, time.bestWeekday, time.worstWeekday, report)
     /\ \A s \in DOMAIN analytics.strategies :
          /\ analytics.strategies[s].grossProfit = report.grossProfit
          /\ analytics.strategies[s].grossLoss = report.grossLoss
          /\ analytics.strategies[s].bucket.trades = report.trades
     /\ distribution.stopLoss + distribution.target + distribution.endOfDay
          = report.trades - (IF forced THEN 1 ELSE 0)
     /\ 0 <= distribution.shortest /\ distribution.shortest <= distribution.longest
     /\ SumOf([l \in DOMAIN time.session |-> time.session[l].wins]) = report.wins
     /\ \A y \in DOMAIN analytics.yearly :
          analytics.yearly[y].maxDrawdown <= report.maxDrawdown

\* Whatever the analytics compute twice, or group in several ways, agrees.
FiguresAgree ==
  LET analytics == BuildAnalyticsReport(History, equity_curve, book.capital, candles)
  IN phase = "done" =>
       DrawdownsAgree(analytics) /\ StreaksAgree(analytics) /\ GroupingsPartition(analytics)

=============================================================================
