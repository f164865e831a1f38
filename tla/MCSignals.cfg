\* Days and times move; prices in ticks of 0.05, a level 50 ticks from the entry and
\* a price one tick short of it; up to three signals a day against a limit of two.
SPECIFICATION MCSignalsSpec
CONSTANTS
  Days = {1, 2}
  Weekend = {}
  Minutes = {570, 573, 574, 575, 578, 930, 931}
  LaterMinutes = {574, 930, 931}
  HostLag = 0
  Prices = {100, 149, 150}
  Atrs = {50}
  WarmupCandles = 0
  StopMultiplier = 1
  TargetMultiplier = 1
  RiskAmount = 100
  MaxExposure = 200
  MaxDailyLoss = 90
  MaxTradesPerDay = 3
  MarketOpen = 555
  MarketClose = 930
  OpeningRange = 15
  NoTradeZone = 15
  Cooldown = 1
  MaxCandles = 5
  ConfidenceThreshold = 65
  SignalCooldown = 4
  MaxSignalsPerDay = 2
  SummaryTime = 931
  UnitsPerPoint = 20
INVARIANTS TradesMirrorPositions HitsAreNamed AlertsMatchTrades AlertsSpaced ReportsComplete
CHECK_DEADLOCK FALSE
