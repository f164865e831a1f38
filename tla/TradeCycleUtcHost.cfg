\* A host that runs on UTC, as the container image does.
SPECIFICATION Spec
CONSTANTS
  Days = {1, 2}
  Weekend = {2}
  Minutes = {569, 570, 600, 605, 914, 915, 930}
  HostLag = 330
  Prices = {10, 11}
  Atrs = {1}
  WarmupCandles = 0
  StopMultiplier = 1
  TargetMultiplier = 1
  RiskAmount = 1
  MaxExposure = 30
  MaxDailyLoss = 2
  MaxTradesPerDay = 2
  MarketOpen = 555
  MarketClose = 930
  OpeningRange = 15
  NoTradeZone = 15
  Cooldown = 5
  MaxCandles = 3
PROPERTY SetupsTaken
CHECK_DEADLOCK FALSE
