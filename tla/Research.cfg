CONSTANTS
  None = None
  Bars <- MCBars
  Stamps <- MCStamps
  MaxCandles = 5
  WarmupCandles = 1
  InitialCapital = 1000
  RiskPercent = 1
  ExposurePercent = 51
  StopDistance = 2
  TargetDistance = 4
  MaxDailyLoss = 8
  MaxTradesPerDay = 2
  EntryFrom = 570
  EntryUntil = 915
  MarketClose = 930
  CooldownMinutes = 0
  DaysPerMonth = 1
  MonthsPerYear = 2
  MarketOpen = 555
  OpeningSession = 50
  ClosingSession = 240
  ExpiryDays = {2}
  RegimeWarmup = 1
  Histories <- MCHistories
  Configs <- MCConfigs
  NumSimulations = 2
  SlippagePercent = 1
  CommissionPercent = 1
  FlatCommission = 1
  DelayCandles = 1
  Variations <- MCVariations
  ConfidenceLevel = 90
  TopN = 1
  NoValue = NoValue
  DataSets <- MCDataSets
  WindowConfigs <- MCWindowConfigs
  MinimumCandles = 2
  MinimumTrades = 1
  ParameterSpace <- MCParameterSpace
  BaseConfig <- MCBaseConfig
  Metrics = {"NetProfit", "ProfitFactor", "MaxDrawdown", "WinRate"}
  Outcomes <- MCOutcomes
  Weights <- MCWeights
  RankBys <- MCRankBys
  Rules <- MCRules
  MinRobustness = 50
  Keys = {k1}
  Candles <- MCCandles
  Ranges <- MCRanges
  MaxBatch = 2
  MaxStored = 3
  ExpectedMinutes = 1
  ZoneOffset = 330
  MoveThreshold = 20
  VolumeZScore = 1
  ReadBars <- MCReadBars
  ReadWarmup = 2
  MaxRead = 7
  EmaPeriod = 3
  RsiPeriod = 2
  AtrPeriod = 2
  SupertrendPeriod = 2
  SupertrendMultiplier = 1
  RsiBullish = 55
  RsiBearish = 45
  VwapEnabled = TRUE
  SupertrendEnabled = TRUE
  MinAgreeingChecks = 4
  MirrorPrice = 400
  Probes <- MCProbes
  Offered <- MCOffered
  MaxChanges = 2
  MaxAxes = 2
  WindowsTried <- MCWindows
  LiveConfigs <- MCLiveConfigs
  BreakerThreshold = 2
  ClockTimes = {500, 600, 930}
  TradeLosses = {0, 1, 2}
  MaxAsked = 5
SPECIFICATION Spec
INVARIANTS BooksAgree TradesWithinLimits FiguresAgree SimulationsTrusted NothingSeenTwice TestedWhatWasBest SearchesAddUp StoreTrusted ReadingsTrusted ConfigurationTrusted SafetyHolds
CHECK_DEADLOCK FALSE
