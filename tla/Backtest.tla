------------------------------ MODULE Backtest ------------------------------
(***************************************************************************)
(* A historical backtest (run_backtest) and the figures it reports.        *)
(*                                                                         *)
(* The replay is one step per candle: the day rolls, an open position may  *)
(* exit, and, when nothing is open, the pipeline may recommend a long      *)
(* entry sized on the running capital.  The end of the data closes what is *)
(* still open.  Whether the indicators and the strategy see a setup, in a  *)
(* session and at a volume that are acceptable, is left free; the minutes  *)
(* of entry, the cooldown and every risk gate are kept.                    *)
(***************************************************************************)
EXTENDS Integers, Sequences, SequencesExt, FiniteSets

CONSTANTS
  None,               \* model value: Python's None
  Bars,               \* the candles' shapes: [low, high, close]
  Stamps,             \* the candles' stamps, in minutes; a day has 1440
  MaxCandles,         \* bound: candles in a data set
  WarmupCandles,      \* warmup_candles
  InitialCapital,     \* initial_capital
  RiskPercent,        \* risk_per_trade_percent
  ExposurePercent,    \* max_capital_exposure_percent
  StopDistance,       \* atr * stop_loss_atr_multiplier
  TargetDistance,     \* atr * target_atr_multiplier
  MaxDailyLoss,       \* max_daily_loss
  MaxTradesPerDay,    \* max_trades_per_day
  EntryFrom,          \* market_open + opening_range_minutes
  EntryUntil,         \* market_close - no_trade_zone_minutes
  MarketClose,        \* market_close
  CooldownMinutes     \* cooldown_minutes

\* A position, and the trade it becomes.
Positions ==
  [entryTime : Nat, entry : Int, exitTime : Nat, exit : Int, stop : Int, target : Int,
   quantity : Int, reason : {"Open", "StopLoss", "Target", "EndOfDay", "EndOfData"}, pnl : Int]

\* A bar's low is at most its close, which the data validator checks; the day's
\* trades and the multipliers of the ATR have ranges of their own (RiskConfig).
ASSUME BacktestAssumption ==
  /\ Stamps \subseteq Nat
  /\ Bars \subseteq [low : Int, high : Int, close : Int]
  /\ \A bar \in Bars : bar.low <= bar.close
  /\ StopDistance \in Nat \ {0} /\ TargetDistance \in Nat
  /\ InitialCapital \in Int /\ RiskPercent \in Nat
  /\ MaxDailyLoss \in Nat /\ MaxTradesPerDay \in Nat \ {0}
  /\ CooldownMinutes \in Int /\ WarmupCandles \in Nat /\ MaxCandles \in Nat
  /\ None \notin Int /\ None \notin Positions

VARIABLES
  candles,        \* the data set read so far
  book,           \* capital, open_position, trades and the day's counters
  equity_curve,   \* one point per candle, and one for a forced close
  phase           \* "replay", then "done", or "refused"

backtestVars == <<candles, book, equity_curve, phase>>

Day(time) == time \div 1440
Minute(time) == time % 1440

HigherOf(a, b) == IF a > b THEN a ELSE b

\* The sum of a numeric function of a sequence's elements.
Total(seq, Value(_)) == FoldLeft(LAMBDA sum, x : sum + Value(x), 0, seq)

Pnl(trade) == trade.pnl
Equity(point) == point.equity

-----------------------------------------------------------------------------
(* Entering and leaving a position *)

NewBook ==
  [capital |-> InitialCapital, position |-> None, trades |-> <<>>,
   closedAt |-> None, date |-> None, takenToday |-> 0, lossToday |-> 0]

RollDay(b, c) ==
  IF b.date = Day(c.time) THEN b
  ELSE [b EXCEPT !.date = Day(c.time), !.takenToday = 0, !.lossToday = 0]

Close(position, time, price, reason) ==
  [position EXCEPT !.exitTime = time, !.exit = price, !.reason = reason,
                   !.pnl = (price - position.entry) * position.quantity]

\* The stop before the target, both at their own price; the close of the day last.
CheckExit(position, c) ==
  IF c.low <= position.stop THEN Close(position, c.time, position.stop, "StopLoss")
  ELSE IF c.high >= position.target
       THEN Close(position, c.time, position.target, "Target")
  ELSE IF Minute(c.time) >= MarketClose
       THEN Close(position, c.time, c.close, "EndOfDay")
  ELSE None

\* Mutant: the day's count of trades is forgotten.
BookOnly(b, trade) ==
  [b EXCEPT !.capital = @ + trade.pnl, !.trades = Append(@, trade),
            !.closedAt = trade.exitTime, !.position = None]

\* The day counts a trade when it closes, not when it opens.
BookExit(b, trade) ==
  [b EXCEPT !.capital = @ + trade.pnl, !.trades = Append(@, trade),
            !.closedAt = trade.exitTime, !.position = None,
            !.takenToday = @ + 1, !.lossToday = @ + HigherOf(0, -trade.pnl)]

Exit(b, c) ==
  LET closed == IF b.position = None THEN None ELSE CheckExit(b.position, c)
  IN IF closed = None THEN b ELSE BookExit(b, closed)

PositionSize(capital) == (capital * RiskPercent) \div (100 * StopDistance)

CanTrade(b, c) ==
  /\ Minute(c.time) >= EntryFrom /\ Minute(c.time) < EntryUntil
  /\ b.closedAt # None => c.time - b.closedAt >= CooldownMinutes

RiskOk(b, c) ==
  LET size == PositionSize(b.capital)
  IN /\ b.lossToday < MaxDailyLoss
     /\ b.takenToday < MaxTradesPerDay
     /\ size >= 1
     /\ size * c.close * 100 <= b.capital * ExposurePercent

BuildOpenPosition(b, c) ==
  [entryTime |-> c.time, entry |-> c.close, exitTime |-> c.time, exit |-> c.close,
   stop |-> c.close - StopDistance, target |-> c.close + TargetDistance,
   quantity |-> PositionSize(b.capital), reason |-> "Open", pnl |-> 0]

MarkedEquity(b, c) ==
  b.capital + (IF b.position = None THEN 0
               ELSE (c.close - b.position.entry) * b.position.quantity)

-----------------------------------------------------------------------------
(* The replay *)

BacktestInit ==
  /\ candles = <<>> /\ book = NewBook /\ equity_curve = <<>> /\ phase = "replay"

\* Stamps are taken to rise: an assumption about the data set, which neither the
\* loader nor run_backtest checks.  A data set that is too short is refused.
NextCandles ==
  {[time |-> t, low |-> bar.low, high |-> bar.high, close |-> bar.close] :
     t \in {s \in Stamps : candles = <<>> \/ s > Last(candles).time}, bar \in Bars}

\* The first candles only feed the indicators.
WarmUp(c) ==
  /\ Len(candles) < WarmupCandles
  /\ candles' = Append(candles, c)
  /\ UNCHANGED <<book, equity_curve, phase>>

\* setup says that the indicators, the context and the strategy recommend a long.
Replay(c, setup) ==
  LET b == Exit(RollDay(book, c), c)
      entered == IF setup THEN [b EXCEPT !.position = BuildOpenPosition(b, c)] ELSE b
  IN /\ Len(candles) \in WarmupCandles .. MaxCandles - 1
     /\ setup => b.position = None /\ CanTrade(b, c) /\ RiskOk(b, c)
     /\ candles' = Append(candles, c)
     /\ book' = entered
     /\ equity_curve' =
          Append(equity_curve, [time |-> c.time, equity |-> MarkedEquity(entered, c)])
     /\ UNCHANGED phase

Refuse ==
  /\ Len(candles) <= WarmupCandles
  /\ phase' = "refused"
  /\ UNCHANGED <<candles, book, equity_curve>>

\* Mutant: the forced close reaches the curve and the trades, not the capital.
ForceCloseUnbooked ==
  LET trade == Close(book.position, Last(candles).time, Last(candles).close, "EndOfData")
  IN /\ book' = [book EXCEPT !.trades = Append(@, trade)]
     /\ equity_curve' =
          Append(equity_curve, [time |-> Last(candles).time, equity |-> book.capital + trade.pnl])

\* The forced close touches neither the day's counters nor open_position, which
\* nothing reads after it; its point repeats the last candle's stamp.
ForceClose ==
  LET trade == Close(book.position, Last(candles).time, Last(candles).close, "EndOfData")
      capital == book.capital + trade.pnl
  IN /\ book' = [book EXCEPT !.capital = capital, !.trades = Append(@, trade)]
     /\ equity_curve' =
          Append(equity_curve, [time |-> Last(candles).time, equity |-> capital])

Finish ==
  /\ Len(candles) > WarmupCandles
  /\ IF book.position = None THEN UNCHANGED <<book, equity_curve>> ELSE ForceClose
  /\ phase' = "done"
  /\ UNCHANGED candles

BacktestNext ==
  /\ phase = "replay"
  /\ \/ \E c \in NextCandles : WarmUp(c)
     \/ \E c \in NextCandles, setup \in BOOLEAN : Replay(c, setup)
     \/ Refuse
     \/ Finish

-----------------------------------------------------------------------------
(* The performance report *)

Fall(dd, p) ==
  LET peak == HigherOf(dd.peak, p.equity)
  IN [peak |-> peak, deepest |-> HigherOf(dd.deepest, peak - p.equity)]

MaxDrawdown(curve) ==
  FoldLeft(Fall, [peak |-> IF curve = <<>> THEN 0 ELSE Head(curve).equity, deepest |-> 0],
           curve).deepest

CountStreak(s, t) ==
  LET win == IF t.pnl > 0 THEN s.win + 1 ELSE 0
      loss == IF t.pnl < 0 THEN s.loss + 1 ELSE 0
  IN [win |-> win, loss |-> loss, maxWin |-> HigherOf(s.maxWin, win),
      maxLoss |-> HigherOf(s.maxLoss, loss)]

CalculateStreaks(trades) ==
  FoldLeft(CountStreak, [win |-> 0, loss |-> 0, maxWin |-> 0, maxLoss |-> 0], trades)

\* The last value seen on each calendar day, in order of the days.
LastEquityPerDay(curve) ==
  LET IsLast(i) == i = Len(curve) \/ Day(curve[i + 1].time) # Day(curve[i].time)
  IN FoldLeftDomain(LAMBDA kept, i : IF IsLast(i) THEN Append(kept, curve[i].equity) ELSE kept,
                    <<>>, curve)

\* Daily returns as fractions <<gain, base>>.
DailyReturns(curve) ==
  LET last == LastEquityPerDay(curve)
      all == [i \in 1 .. Len(last) - 1 |-> <<last[i + 1] - last[i], last[i]>>]
  IN SelectSeq(all, LAMBDA r : r[2] # 0)

AllEqual(returns) ==
  \A i, j \in DOMAIN returns : returns[i][1] * returns[j][2] = returns[j][1] * returns[i][2]

\* Whether calculate_sharpe_ratio gives a number.
SharpeDefined(curve) ==
  /\ Len(LastEquityPerDay(curve)) >= 3
  /\ Len(DailyReturns(curve)) >= 2
  /\ ~AllEqual(DailyReturns(curve))

\* What the trades of the indices S made.
PnlOf(trades, S) == FoldFunctionOnSet(+, 0, [i \in DOMAIN trades |-> trades[i].pnl], S)

DailyPnL(trades) ==
  [day \in {Day(trades[i].exitTime) : i \in DOMAIN trades} |->
     PnlOf(trades, {i \in DOMAIN trades : Day(trades[i].exitTime) = day})]

Winning(trades) == {i \in DOMAIN trades : trades[i].pnl > 0}

Losing(trades) == {i \in DOMAIN trades : trades[i].pnl < 0}

\* wins, losses and the two gross figures the ratios of the report are made of.
Report(trades, curve, capital) ==
  LET streaks == CalculateStreaks(trades)
  IN [trades |-> Len(trades),
      wins |-> Cardinality(Winning(trades)), losses |-> Cardinality(Losing(trades)),
      grossProfit |-> PnlOf(trades, Winning(trades)), grossLoss |-> -PnlOf(trades, Losing(trades)),
      netProfit |-> capital - InitialCapital, maxDrawdown |-> MaxDrawdown(curve),
      maxWins |-> streaks.maxWin, maxLosses |-> streaks.maxLoss]

=============================================================================
