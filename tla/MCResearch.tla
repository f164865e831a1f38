----------------------------- MODULE MCResearch -----------------------------
(***************************************************************************)
(* The instances Research is checked on.                                   *)
(***************************************************************************)
EXTENDS Research

\* A quiet candle, one that falls, one that rises far, and one that does both.
MCBars == {[low |-> 99, high |-> 101, close |-> 100],
           [low |-> 97, high |-> 100, close |-> 99],
           [low |-> 100, high |-> 105, close |-> 104],
           [low |-> 95, high |-> 106, close |-> 101]}

\* Three candles and the close on day 1, one in the morning of days 2 and 3.
MCStamps == {1440 + 600, 1440 + 610, 1440 + 620, 1440 + 930, 2 * 1440 + 600, 3 * 1440 + 700}

Trade(entryTime, entry, exitTime, exit, quantity) ==
  [entryTime |-> entryTime, entry |-> entry, exitTime |-> exitTime, exit |-> exit,
   stop |-> entry - 200, target |-> entry + 400, quantity |-> quantity,
   reason |-> "StopLoss", pnl |-> (exit - entry) * quantity]

FlatCandles(list) ==
  [i \in DOMAIN list |-> [time |-> i, low |-> list[i], high |-> list[i], close |-> list[i]]]

\* A win and two losses, one trade, and no trade at all.
MCHistories ==
  {[candles |-> FlatCandles(<<10000, 10400, 10200, 10000, 9800>>),
    trades |-> <<Trade(1, 10000, 2, 10400, 2), Trade(3, 10200, 4, 10000, 4),
                 Trade(4, 10000, 5, 9800, 2)>>],
   [candles |-> FlatCandles(<<10000, 10200, 10400>>), trades |-> <<Trade(1, 10000, 2, 10200, 1)>>],
   [candles |-> FlatCandles(<<10000, 10200>>), trades |-> <<>>]}

MCConfigs ==
  {{}, {"TradeShuffle"}, {"Slippage"}, {"Commission"}, {"TradeShuffle", "Slippage", "Commission"},
   {"TradeShuffle", "MissedTrades"}, {"ExecutionDelay"}, {"Commission", "ExecutionDelay"},
   {"Slippage", "PositionVariation"}}

MCVariations == {-50, 0, 50}

\* A full week, and one whose middle has no candles.
MCDataSets == {0 .. 6, {0, 1, 2, 6}}

MCWindowConfigs ==
  {[type |-> t, training |-> 3, testing |-> 2, step |-> 1] :
     t \in {"Rolling", "Expanding", "Anchored"}}

MCParameterSpace ==
  <<[name |-> "reward_risk_ratio", minimum |-> 100, maximum |-> 200, step |-> 100],
    [name |-> "ema_period", minimum |-> 10, maximum |-> 20, step |-> 25]>>

MCBaseConfig == BacktestDefaults

Outcome4(trades, net, factor, drawdown, rate) ==
  [status |-> "Completed", trades |-> trades, NetProfit |-> net, ProfitFactor |-> factor,
   MaxDrawdown |-> drawdown, WinRate |-> rate]

\* Failed, no trade at all, only wins, a good run and a bad one.
MCOutcomes ==
  {Failed, Outcome4(0, 0, NoValue, 0, 0), Outcome4(2, 4, NoValue, 0, 3),
   Outcome4(3, 3, 3, 1, 2), Outcome4(3, -2, 1, 4, 1)}

MCWeights ==
  [m \in {"ProfitFactor", "WinRate", "MaxDrawdown"} |-> IF m = "MaxDrawdown" THEN 3 ELSE 1]

MCRankBys == {"WeightedScore", "MaxDrawdown", "ProfitFactor"}

MCRules == [drawdownIncrease |-> 50, profitFactor |-> 2, degradation |-> 50, trades |-> 1]

\* Candles that can have each kind of issue.
Candle(time, zone, low, close, high, volume) ==
  [time |-> time, zone |-> zone, open |-> close, high |-> high, low |-> low,
   close |-> close, volume |-> volume]

MCCandles ==
  { Candle(1, "naive", 9, 10, 11, 5), Candle(2, "naive", 9, 10, 11, 8),
    Candle(4, "naive", 10, 11, 12, 9),              \* after a gap
    Candle(1441, "naive", 13, 14, 15, 5),           \* the next day, after a jump
    Candle(3, "aware", 9, 10, 8, -1) }              \* the wrong zone, high and volume

MCRanges == {<<2, 1441>>}

\* A candle without volume, one that falls and one that rises.
MCReadBars ==
  {[low |-> 399, high |-> 401, close |-> 400, volume |-> 0],
   [low |-> 394, high |-> 398, close |-> 395, volume |-> 2],
   [low |-> 402, high |-> 407, close |-> 406, volume |-> 4]}

\* The ends of each range, what lies just outside, and what meets another argument.
MCProbes ==
  [rsi_bullish_threshold |-> {0, 4500, 4501, 10000, 10001},
   rsi_bearish_threshold |-> {-1, 0, 5499, 5500, 10000},
   vwap_enabled |-> {FALSE}, supertrend_enabled |-> {FALSE},
   min_agreeing_checks |-> {0, 1, 3, 5, 6},
   risk_per_trade_percent |-> {9, 10, 500, 501},
   stop_loss_atr_multiplier |-> {49, 50, 500, 501},
   target_atr_multiplier |-> {49, 50, 1000, 1001},
   max_daily_loss |-> {-1, 0, 100000000, 100000001},
   max_trades_per_day |-> {0, 1, 50, 51}, max_concurrent_positions |-> {0, 20, 21},
   max_capital_exposure_percent |-> {99, 100, 10000, 10001},
   opening_range_minutes |-> {-1, 0, 120, 121}, no_trade_zone_minutes |-> {-1, 0, 120, 121},
   trading_start_time |-> {0, 929, 930, 1440}, trading_end_time |-> {555, 556, 1439, 1440},
   allow_expiry_day_trading |-> {FALSE}, lunch_filter_enabled |-> {TRUE}]

\* The default parameters, one that rounds, and four that are refused.
MCOffered ==
  DefaultParameterCatalog \cup
  {Axis("max_trades_per_day", 1, 4, 2, 3), Axis("vwap_enabled", 0, 1, 1, 1),
   Axis("ema_period", 10, 30, 0, 20), Axis("ema_period", 20, 20, 2, 20),
   Axis("ema_period", 10, 30, 2, 32)}

\* Times in order and out of it, with and without a lunch and an end of the day.
MCWindows ==
  [preOpen : {1, 3}, open : {2, 3}, close : {6}, lunchStart : {NoValue, 1, 3, 4},
   lunchEnd : {NoValue, 4, 5, 6}, afterHoursEnd : {NoValue, 6, 7}]

\* One refused, one without hours, one of the least limits and one of larger ones.
MCLiveConfigs ==
  {[maxDailyLoss |-> 0, maxOpenPositions |-> 1, maxOrdersPerDay |-> 1, start |-> 555, end |-> 930],
   [maxDailyLoss |-> 1, maxOpenPositions |-> 1, maxOrdersPerDay |-> 1, start |-> 930, end |-> 555],
   [maxDailyLoss |-> 1, maxOpenPositions |-> 1, maxOrdersPerDay |-> 1, start |-> 555, end |-> 930],
   [maxDailyLoss |-> 3, maxOpenPositions |-> 2, maxOrdersPerDay |-> 3, start |-> 555, end |-> 930]}

=============================================================================
