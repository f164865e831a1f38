\* Prices move; few times of day, one trade a day.
SPECIFICATION AccountSpec
CONSTANTS
  Days = {1, 2, 3}
  Weekend = {2}
  Minutes = {569, 570, 575, 580, 930}
  HostLag = 0
  Prices = {9, 10, 11}
  Atrs = {2}
  WarmupCandles = 1
  StopMultiplier = 1
  TargetMultiplier = 1
  RiskAmount = 5
  MaxExposure = 30
  MaxDailyLoss = 3
  MaxTradesPerDay = 1
  MarketOpen = 555
  MarketClose = 930
  OpeningRange = 15
  NoTradeZone = 15
  Cooldown = 5
  MaxCandles = 5
  InitialCash = 100
INVARIANTS RiskPerTradeBounded DailyLossBounded CountersReconcile HoursKept DrawdownIsExact MonitorMatchesBook
PROPERTIES SetupsTaken KeepsPromise
CHECK_DEADLOCK FALSE
