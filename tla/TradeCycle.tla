----------------------------- MODULE TradeCycle -----------------------------
(***************************************************************************)
(* The paper-trading cycle of one session: EventProcessor.process_candle   *)
(* with everything it calls that decides or records a trade - the trading  *)
(* conditions, the risk gates, the order that the PaperBroker fills at     *)
(* once, and the PositionManager's book.  One candle is one step, as it is *)
(* when a single thread drives the engine (RuntimeHost shows when it is    *)
(* not).  PaperAccount adds the cash, equity and performance figures.      *)
(*                                                                         *)
(* Prices, distances and money are whole units.  The strategy is a choice: *)
(* a candle brings the direction a valid evaluation recommends, or "NONE"  *)
(* when EMABreakout finds no side, too few agreeing checks, or a market    *)
(* context (VOLATILE_RANGE) that forbids entries.                          *)
(***************************************************************************)
EXTENDS Integers, Sequences

CONSTANTS
  Days,              \* the calendar days candles may carry (naturals)
  Weekend,           \* the Saturdays and Sundays among them
  Minutes,           \* minutes of the day at which candles are stamped
  HostLag,           \* minutes the host's clock is behind market time, 0 or 330
  Prices,            \* prices a candle may show
  Atrs,              \* values the ATR indicator may take
  WarmupCandles,     \* warmup_candles
  StopMultiplier,    \* RiskConfig.stop_loss_atr_multiplier
  TargetMultiplier,  \* RiskConfig.target_atr_multiplier
  RiskAmount,        \* initial capital * risk_per_trade_percent / 100
  MaxExposure,       \* initial capital * max_capital_exposure_percent / 100
  MaxDailyLoss,      \* RiskConfig.max_daily_loss
  MaxTradesPerDay,   \* RiskConfig.max_trades_per_day
  MarketOpen,        \* "09:15", in minutes since midnight
  MarketClose,       \* "15:30"
  OpeningRange,      \* opening_range_minutes
  NoTradeZone,       \* no_trade_zone_minutes
  Cooldown,          \* cooldown_minutes
  MaxCandles         \* bound: candles per behaviour

MinutesPerDay == 1440

ASSUME ClockAssumption ==
  /\ Days \subseteq Nat \ {0}
  /\ Minutes \subseteq 0 .. MinutesPerDay - 1
  /\ HostLag \in 0 .. MinutesPerDay - 1
  /\ MarketOpen \in Nat /\ MarketClose \in Nat
  /\ OpeningRange \in Nat /\ NoTradeZone \in Nat /\ Cooldown \in Nat \ {0}
  /\ WarmupCandles \in Nat /\ MaxCandles \in Nat

ASSUME RiskAssumption ==
  /\ Prices \subseteq Nat /\ Atrs \subseteq Nat
  /\ StopMultiplier \in Nat /\ TargetMultiplier \in Nat
  /\ RiskAmount \in Nat /\ MaxExposure \in Nat
  /\ MaxDailyLoss \in Nat \ {0} /\ MaxTradesPerDay \in Nat

VARIABLES
  seen,               \* len(history): candles handed to the processor
  now,                \* timestamp of the last candle, 0 before the first
  currentDate,        \* _current_date, 0 for None
  positions,          \* PositionManager._positions in the order opened
  openId,             \* _open_position_id as an index of positions, 0 for None
  stopLoss,           \* _open_position_stop_loss
  target,             \* _open_position_target
  lastTradeClosedAt,  \* _last_trade_closed_at, 0 for None
  tradesTakenToday,   \* _trades_taken_today
  realizedLossToday,  \* _realized_loss_today
  ledger              \* history: when each position was opened and closed

vars == <<seen, now, currentDate, positions, openId, stopLoss, target,
          lastTradeClosedAt, tradesTakenToday, realizedLossToday, ledger>>

NoPosition == 0
Never == 0

-----------------------------------------------------------------------------
(* Candles *)

Candle == [day : Days, minute : Minutes, high : Prices, low : Prices,
           close : Prices, atr : Atrs, signal : {"LONG", "SHORT", "NONE"}]

At(c) == c.day * MinutesPerDay + c.minute
DayOf(time) == time \div MinutesPerDay
MinuteOf(time) == time % MinutesPerDay

CandlesAt(time) ==
  [day : {DayOf(time)}, minute : {MinuteOf(time)}, high : Prices, low : Prices,
   close : Prices, atr : Atrs, signal : {"LONG", "SHORT", "NONE"}]

\* The data are taken to be a market's: in time order, and low <= close <= high in
\* every row.  It is an assumption: the loader keeps what the file has.
WellFormed(c) == c.low <= c.close /\ c.close <= c.high

-----------------------------------------------------------------------------
(* Trading conditions *)

\* A candle's stamp is naive.  MarketSessionService converts it as if it were
\* in the host's own time zone; every other condition takes it as market time.
SessionOpen(c) == (c.minute + HostLag) % MinutesPerDay \in MarketOpen .. MarketClose

SessionValid(c) == SessionOpen(c) /\ c.day \notin Weekend

\* Mutant: no_trade_zone_filter left out.
WindowWithoutNoTradeZone(c) == SessionOpen(c)

WithinTradingWindow(c) == SessionOpen(c) /\ c.minute < MarketClose - NoTradeZone

\* Mutant: the last minute of the opening range still counts.
OpeningRangeJustOver(c) == c.minute > MarketOpen + OpeningRange

OpeningRangeComplete(c) == c.minute >= MarketOpen + OpeningRange

\* Mutant: any candle from the exit on completes the cooldown.
CooldownIgnored(c, closedAt) == closedAt = Never \/ At(c) >= closedAt

CooldownComplete(c, closedAt) == closedAt = Never \/ At(c) - closedAt >= Cooldown

CanTrade(c, closedAt) ==
  /\ SessionValid(c)
  /\ WithinTradingWindow(c)
  /\ OpeningRangeComplete(c)
  /\ CooldownComplete(c, closedAt)

-----------------------------------------------------------------------------
(* Risk *)

StopDistance(c) == c.atr * StopMultiplier
TargetDistance(c) == c.atr * TargetMultiplier

CalculateStopLoss(c) ==
  IF c.signal = "LONG" THEN c.close - StopDistance(c) ELSE c.close + StopDistance(c)

CalculateTarget(c) ==
  IF c.signal = "LONG" THEN c.close + TargetDistance(c) ELSE c.close - TargetDistance(c)

\* Mutant: the size is rounded up.
PositionSizeRoundedUp(c) ==
  IF StopDistance(c) = 0 THEN 0
  ELSE (RiskAmount + StopDistance(c) - 1) \div StopDistance(c)

PositionSize(c) == IF StopDistance(c) = 0 THEN 0 ELSE RiskAmount \div StopDistance(c)

\* Mutant: the daily-loss gate left out.
RiskOkWithoutLossGate(c, loss, trades) ==
  /\ trades < MaxTradesPerDay
  /\ PositionSize(c) * c.close <= MaxExposure
  /\ PositionSize(c) >= 1

\* The processor passes no deployed capital and no open position, so exposure
\* is this trade's alone and the concurrent-position gate always holds.
RiskOk(c, loss, trades) ==
  /\ loss < MaxDailyLoss
  /\ trades < MaxTradesPerDay
  /\ PositionSize(c) * c.close <= MaxExposure
  /\ PositionSize(c) >= 1

Recommended(c, closedAt, loss, trades) ==
  /\ c.signal # "NONE"
  /\ RiskOk(c, loss, trades)
  /\ CanTrade(c, closedAt)

-----------------------------------------------------------------------------
(* The book *)

Position == [direction : {"LONG", "SHORT"}, entry : Int, quantity : Nat,
             initialQuantity : Nat, realized : Int, unrealized : Int,
             status : {"OPEN", "CLOSED"}]

SignedPnl(p, price, quantity) ==
  IF p.direction = "SHORT" THEN (p.entry - price) * quantity
                           ELSE (price - p.entry) * quantity

\* PaperBroker fills the whole requested quantity at the requested price, so the
\* mark to the same candle's close that follows an entry leaves unrealized at 0.
OpenPosition(c) ==
  [direction |-> c.signal, entry |-> c.close, quantity |-> PositionSize(c),
   initialQuantity |-> PositionSize(c), realized |-> 0, unrealized |-> 0,
   status |-> "OPEN"]

\* exit() with the whole remaining quantity, the only way the processor calls it.
ExitPosition(p, price) ==
  [p EXCEPT !.quantity = 0,
            !.realized = @ + SignedPnl(p, price, p.quantity),
            !.unrealized = 0,
            !.status = "CLOSED"]

UpdateUnrealized(p, price) ==
  [p EXCEPT !.unrealized = SignedPnl(p, price, p.quantity)]

StopBreached(c, p) ==
  IF p.direction = "SHORT" THEN c.high >= stopLoss ELSE c.low <= stopLoss

TargetBreached(c, p) ==
  IF p.direction = "SHORT" THEN c.low <= target ELSE c.high >= target

\* Mutant: the end-of-day exit left out.
ExitsOnPriceOnly(c) ==
  /\ openId # NoPosition
  /\ StopBreached(c, positions[openId]) \/ TargetBreached(c, positions[openId])

Exits(c) ==
  /\ openId # NoPosition
  /\ \/ StopBreached(c, positions[openId])
     \/ TargetBreached(c, positions[openId])
     \/ c.minute >= MarketClose

ExitPrice(c) ==
  IF StopBreached(c, positions[openId]) THEN stopLoss
  ELSE IF TargetBreached(c, positions[openId]) THEN target ELSE c.close

-----------------------------------------------------------------------------
(* Steps *)

Init ==
  /\ seen = 0 /\ now = 0 /\ currentDate = 0
  /\ positions = <<>> /\ openId = NoPosition
  /\ stopLoss = 0 /\ target = 0
  /\ lastTradeClosedAt = Never
  /\ tradesTakenToday = 0 /\ realizedLossToday = 0
  /\ ledger = <<>>

\* Every candle, warm-up or not, first rolls the day.
Receive(c) ==
  /\ seen < MaxCandles
  /\ At(c) > now
  /\ seen' = seen + 1 /\ now' = At(c) /\ currentDate' = c.day

TradesOn(c) == IF c.day = currentDate THEN tradesTakenToday ELSE 0
\* Mutant: the day roll leaves the loss alone.
LossCarriedOver(c) == realizedLossToday

LossOn(c) == IF c.day = currentDate THEN realizedLossToday ELSE 0

WarmupCandle(c) ==
  /\ Receive(c)
  /\ seen + 1 <= WarmupCandles
  /\ tradesTakenToday' = TradesOn(c) /\ realizedLossToday' = LossOn(c)
  /\ UNCHANGED <<positions, openId, stopLoss, target, lastTradeClosedAt, ledger>>

\* The position stays open and is marked to the close.
HoldPosition(c) ==
  /\ Receive(c)
  /\ seen + 1 > WarmupCandles
  /\ openId # NoPosition /\ ~Exits(c)
  /\ positions' = [positions EXCEPT ![openId] = UpdateUnrealized(@, c.close)]
  /\ tradesTakenToday' = TradesOn(c) /\ realizedLossToday' = LossOn(c)
  /\ UNCHANGED <<openId, stopLoss, target, lastTradeClosedAt, ledger>>

(***************************************************************************)
(* No position is left open after the exit check, so the entry check runs  *)
(* on the same candle, with the figures the exit check left behind.        *)
(***************************************************************************)
BookAfterExit(c) ==
  IF Exits(c) THEN [positions EXCEPT ![openId] = ExitPosition(@, ExitPrice(c))]
              ELSE positions

RealizedThisExit(c) ==
  IF Exits(c) THEN SignedPnl(positions[openId], ExitPrice(c), positions[openId].quantity)
              ELSE 0

\* Mutant: the max(0, ...) left out, so a win reduces the day's loss.
LossWithoutClamp(c) == LossOn(c) - RealizedThisExit(c)

LossAfterExit(c) ==
  LossOn(c) + (IF RealizedThisExit(c) < 0 THEN -RealizedThisExit(c) ELSE 0)

ClosedAtAfterExit(c) == IF Exits(c) THEN At(c) ELSE lastTradeClosedAt

LedgerAfterExit(c) ==
  IF Exits(c) THEN [ledger EXCEPT ![openId].closedAt = At(c)] ELSE ledger

Enters(c) == Recommended(c, ClosedAtAfterExit(c), LossAfterExit(c), TradesOn(c))

FlatCandle(c) ==
  /\ Receive(c)
  /\ seen + 1 > WarmupCandles
  /\ openId = NoPosition \/ Exits(c)
  /\ lastTradeClosedAt' = ClosedAtAfterExit(c)
  /\ realizedLossToday' = LossAfterExit(c)
  /\ IF Enters(c)
     THEN /\ positions' = Append(BookAfterExit(c), OpenPosition(c))
          /\ openId' = Len(positions) + 1
          /\ stopLoss' = CalculateStopLoss(c) /\ target' = CalculateTarget(c)
          /\ tradesTakenToday' = TradesOn(c) + 1
          /\ ledger' = Append(LedgerAfterExit(c), [openedAt |-> At(c), closedAt |-> Never])
     ELSE /\ positions' = BookAfterExit(c)
          /\ openId' = NoPosition
          /\ tradesTakenToday' = TradesOn(c)
          /\ ledger' = LedgerAfterExit(c)
          /\ UNCHANGED <<stopLoss, target>>

ProcessCandle(c) == WarmupCandle(c) \/ HoldPosition(c) \/ FlatCandle(c)

Next == \E c \in Candle : WellFormed(c) /\ ProcessCandle(c)

Spec == Init /\ [][Next]_vars

Promised == INSTANCE TradingPromise
  WITH holding <- openId # NoPosition, day <- currentDate,
       entries <- tradesTakenToday, loss <- realizedLossToday

-----------------------------------------------------------------------------
(* Properties *)

TypeOK ==
  /\ seen \in Nat /\ now \in Nat /\ currentDate \in Nat
  /\ positions \in Seq(Position)
  /\ openId \in 0 .. Len(positions)
  /\ stopLoss \in Int /\ target \in Int
  /\ lastTradeClosedAt \in Nat
  /\ tradesTakenToday \in Nat /\ realizedLossToday \in Nat
  /\ ledger \in Seq([openedAt : Nat, closedAt : Nat])

\* The position book and the processor's own pointer agree: the position
\* process_candle watches is the only one PositionManager holds open, so an
\* entry never orphans a position nobody checks the stop-loss of.
OnePosition ==
  \A i \in DOMAIN positions :
    IF i = openId THEN positions[i].status = "OPEN" /\ positions[i].quantity >= 1
                  ELSE positions[i].status = "CLOSED" /\ positions[i].quantity = 0

\* position_sizing.py: units are taken "such that a stop-loss hit loses no more
\* than the configured risk-per-trade": whatever candles follow the entry, a
\* closed trade never realizes, and an open one never shows, a larger loss.
RiskPerTradeBounded ==
  \A i \in DOMAIN positions :
    positions[i].realized >= -RiskAmount /\ positions[i].unrealized >= -RiskAmount

\* The daily-loss gate is read only at entry, so a day may overshoot its limit
\* by at most the one trade already open when the limit is crossed.
DailyLossBounded == realizedLossToday < MaxDailyLoss + RiskAmount

\* An exit and the next entry are at least the cooldown apart, although the
\* entry check runs on the very candle that closed the position.
CooldownRespected ==
  \A i \in DOMAIN ledger :
    i + 1 \in DOMAIN ledger =>
      /\ ledger[i].closedAt # Never
      /\ ledger[i + 1].openedAt - ledger[i].closedAt >= Cooldown

EntryHours ==
  \A i \in DOMAIN ledger :
    LET minute == MinuteOf(ledger[i].openedAt)
    IN  /\ DayOf(ledger[i].openedAt) \notin Weekend
        /\ minute >= MarketOpen + OpeningRange
        /\ minute < MarketClose - NoTradeZone

FlatAfterClose ==
  (MinuteOf(now) >= MarketClose /\ seen > WarmupCandles) => openId = NoPosition

\* The cycle keeps its hours, whatever is held over a night or a weekend: entries fall
\* on trading days, after the opening range, before the no-trade zone and a cooldown
\* after the exit before, and a candle at or after the close leaves nothing open.
HoursKept == TypeOK /\ EntryHours /\ CooldownRespected /\ FlatAfterClose

\* A closed trade is final: no later candle rewrites its record, and the book
\* only grows.
ClosedTradesFinal ==
  [][\A i \in DOMAIN positions :
       /\ i \in DOMAIN positions'
       /\ positions[i].status = "CLOSED" => positions'[i] = positions[i]]_vars

\* A setup as a trader reads the configuration: a signal within the risk limits,
\* stamped inside the trading window, a cooldown after the exit before.
Setup(c) ==
  /\ c.day \notin Weekend
  /\ MarketOpen + OpeningRange <= c.minute /\ c.minute < MarketClose - NoTradeZone
  /\ c.signal # "NONE" /\ WellFormed(c)
  /\ RiskOk(c, LossAfterExit(c), TradesOn(c))
  /\ CooldownComplete(c, ClosedAtAfterExit(c))

\* signal_filter.py: "Every candle timestamp flowing through this codebase is
\* naive and already assumed to be local market-clock time".  So no setup is
\* passed over for what the clock of the host shows.
SetupsTaken ==
  [][openId' = NoPosition => ~\E c \in CandlesAt(now') : Setup(c) /\ FlatCandle(c)]_vars

\* The cycle implements TradingPromise: every candle is an idle step, an entry
\* or an exit of it, never an exit and a re-entry at once.
KeepsPromise == Promised!Promise

=============================================================================
