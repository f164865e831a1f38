---------------------------- MODULE WalkForward -----------------------------
(***************************************************************************)
(* Walk-forward validation and the grid search under it                    *)
(* (run_walk_forward_validation, optimize): for every window, run every    *)
(* combination of parameters on the training candles, rank the results,    *)
(* run the best one on the testing candles and judge it.                   *)
(*                                                                         *)
(* What a backtest says of a configuration on a slice of the candles is    *)
(* one of a few outcomes, chosen freely.  A step validates one window.     *)
(***************************************************************************)
EXTENDS Integers, Sequences, SequencesExt, FiniteSets, FiniteSetsExt

CONSTANTS
  NoValue,           \* model value: a missing metric, parameter or result
  DataSets,          \* sets of candle times, in days
  WindowConfigs,     \* [type, training, testing, step]
  MinimumCandles, MinimumTrades,    \* of the window configuration
  ParameterSpace,    \* a sequence of [name, minimum, maximum, step]
  BaseConfig,        \* base_backtest_config, by parameter name
  Metrics,           \* what a search scores and ranks by
  Outcomes,          \* what a backtest may give: [status, trades, and the metrics]
  Weights,           \* metric |-> weight of the score
  RankBys,           \* how results may be ranked
  Rules,             \* [drawdownIncrease, profitFactor, degradation, trades]
  MinRobustness      \* min_robustness_score_percent

\* WindowConfig refuses a duration or a step that is not positive.
WindowConfigsAccepted ==
  /\ WindowConfigs \subseteq [type : {"Rolling", "Expanding", "Anchored"},
                              training : Nat \ {0}, testing : Nat \ {0}, step : Nat \ {0}]
  /\ MinimumCandles \in Nat /\ MinimumTrades \in Nat

\* ValidationRules refuses a negative limit; the robustness is a percentage.
RulesAccepted ==
  /\ Rules \in [drawdownIncrease : Nat, profitFactor : Nat, degradation : Nat, trades : Nat]
  /\ MinRobustness \in 0 .. 100

Failed == [status |-> "Failed"]

Completed(outcome) == outcome.status = "Completed"

\* A metric is missing where it is not defined: a profit factor without a loss.
IsOutcome(o) ==
  \/ o = Failed
  \/ Completed(o) /\ o.trades \in Nat /\ \A m \in Metrics : o[m] \in Int \cup {NoValue}

\* ParameterSpace refuses an empty range and a name that is there twice.
SpaceAccepted ==
  /\ ParameterSpace \in Seq([name : STRING, minimum : Int, maximum : Int, step : Nat \ {0}])
  /\ ParameterSpace # <<>>
  /\ \A i \in DOMAIN ParameterSpace : ParameterSpace[i].minimum < ParameterSpace[i].maximum
  /\ \A i, j \in DOMAIN ParameterSpace :
       ParameterSpace[i].name = ParameterSpace[j].name => i = j

\* Scores weigh some of the metrics, with any weights; a ranking is by one of the
\* metrics or by the score.
SearchAccepted ==
  /\ IsFiniteSet(Metrics) /\ \A o \in Outcomes : IsOutcome(o)
  /\ DOMAIN Weights \subseteq Metrics /\ \A m \in DOMAIN Weights : Weights[m] \in Int
  /\ RankBys \subseteq Metrics \cup {"WeightedScore"}
  /\ NoValue \notin BOOLEAN

ASSUME WindowsAssumption ==
  /\ WindowConfigsAccepted /\ RulesAccepted /\ SpaceAccepted /\ SearchAccepted
  /\ \A d \in DataSets : d # {} /\ IsFiniteSet(d) /\ d \subseteq Int

VARIABLES
  data, windowConfig, rankBy,    \* what the validation was asked for
  windows,                       \* windows still to validate
  validated,                     \* one result per window done
  search                         \* the last window's grid search

walkForwardVars == <<data, windowConfig, rankBy, windows, validated, search>>

-----------------------------------------------------------------------------
(* Windows *)

Window(trainStart, trainEnd, testStart, config) ==
  [trainStart |-> trainStart, trainEnd |-> trainEnd,
   testStart |-> testStart, testEnd |-> testStart + config.testing]

\* The k-th window, from 0, of each type.
Rolling(start, config, k) ==
  LET from == start + k * config.step
  IN Window(from, from + config.training, from + config.training, config)

Expanding(start, config, k) ==
  LET until == start + config.training + k * config.step
  IN Window(start, until, until, config)

Anchored(start, config, k) ==
  LET until == start + config.training
  IN Window(start, until, until + k * config.step, config)

WindowAt(start, config, k) ==
  CASE config.type = "Rolling" -> Rolling(start, config, k)
    [] config.type = "Expanding" -> Expanding(start, config, k)
    [] config.type = "Anchored" -> Anchored(start, config, k)

\* Windows in order, up to the first whose testing would pass the end of the data.
GenerateWindows(config, start, end) ==
  LET fitting == {k \in 0 .. end - start : WindowAt(start, config, k).testEnd <= end}
  IN [i \in 1 .. Cardinality(fitting) |-> WindowAt(start, config, i - 1)]

\* Mutant: both ends of a range belong to it.
CandlesThrough(from, until) == {t \in data : from <= t /\ t <= until}

CandlesInRange(from, until) == {t \in data : from <= t /\ t < until}

-----------------------------------------------------------------------------
(* The grid *)

\* Python's round of a half goes to the even neighbour.
Round(numerator, denominator) ==
  LET down == numerator \div denominator
      rest == 2 * (numerator % denominator)
  IN IF rest < denominator \/ (rest = denominator /\ down % 2 = 0) THEN down ELSE down + 1

\* The values of an axis are whole here.  An INT axis rounds each of its values,
\* which makes two of them one only when its range or step is fractional.
Values(parameter) ==
  LET steps == Round(parameter.maximum - parameter.minimum, parameter.step)
  IN [i \in 1 .. steps + 1 |-> parameter.minimum + (i - 1) * parameter.step]

\* Every combination so far with every value of a parameter, which varies fastest.
Crossed(grid, parameter) ==
  LET values == Values(parameter)
      count == Len(values)
  IN [n \in 1 .. Len(grid) * count |->
        LET given == grid[((n - 1) \div count) + 1]
        IN [name \in DOMAIN given \cup {parameter.name} |->
              IF name = parameter.name THEN values[((n - 1) % count) + 1] ELSE given[name]]]

\* The grid over the first parameters of a space, for each number of them.
Grids(space) ==
  LET grid[k \in 0 .. Len(space)] ==
        IF k = 0 THEN << [name \in {} |-> 0] >> ELSE Crossed(grid[k - 1], space[k])
  IN grid

GenerateGrid(space) == Grids(space)[Len(space)]

Grid == GenerateGrid(ParameterSpace)

\* Mutant: the ratio is kept for the report and set nowhere.
RatioForgotten(combination, base) ==
  LET Given(name, otherwise) ==
        IF name \in DOMAIN combination THEN combination[name] ELSE otherwise
  IN [base EXCEPT
        !["risk_per_trade_percent"] = Given("risk_percent", @),
        !["max_trades_per_day"] = Given("max_trades_per_day", @),
        !["rsi_bullish_threshold"] = Given("rsi_bullish_threshold", @),
        !["rsi_bearish_threshold"] = Given("rsi_bearish_threshold", @),
        !["ema_period"] = Given("ema_period", @)]

\* reward_risk_ratio, in hundredths, sets the target's multiplier through the stop's.
ApplyCombination(combination, base) ==
  LET Given(name, otherwise) ==
        IF name \in DOMAIN combination THEN combination[name] ELSE otherwise
  IN [base EXCEPT
        !["risk_per_trade_percent"] = Given("risk_percent", @),
        !["max_trades_per_day"] = Given("max_trades_per_day", @),
        !["target_atr_multiplier"] =
           IF "reward_risk_ratio" \in DOMAIN combination
           THEN (combination["reward_risk_ratio"] * base["stop_loss_atr_multiplier"]) \div 100
           ELSE @,
        !["rsi_bullish_threshold"] = Given("rsi_bullish_threshold", @),
        !["rsi_bearish_threshold"] = Given("rsi_bearish_threshold", @),
        !["ema_period"] = Given("ema_period", @)]

-----------------------------------------------------------------------------
(* Metrics, scores and ranking; a result is [combination, config, outcome] *)

LowerIsBetter == {"MaxDrawdown"}

ExtractMetric(result, metric) ==
  IF Completed(result.outcome) THEN result.outcome[metric] ELSE NoValue

Present(results, metric) ==
  {ExtractMetric(results[i], metric) : i \in DOMAIN results} \ {NoValue}

\* What a metric's values range over, and 1 if they do not.
Span(results, metric) ==
  LET present == Present(results, metric)
  IN IF present = {} \/ Max(present) = Min(present) THEN 1 ELSE Max(present) - Min(present)

\* A common denominator of the shares: in parts of it every score is exact.
Scale(results) ==
  FoldFunctionOnSet(LAMBDA a, b : a * b, 1,
                    [metric \in DOMAIN Weights |-> Span(results, metric)], DOMAIN Weights)

\* The part of its span that a value is above the least.
Share(value, results, metric) ==
  (Scale(results) \div Span(results, metric)) * (value - Min(Present(results, metric)))

\* Mutant: a metric of which less is better is scored like the others.
NormalizedUninverted(value, results, metric) == Share(value, results, metric)

Normalized(value, results, metric) ==
  IF metric \in LowerIsBetter
  THEN Scale(results) - Share(value, results, metric)
  ELSE Share(value, results, metric)

\* A missing value adds nothing; a failed result scores 0.
Scored(results, i, metric) ==
  LET value == ExtractMetric(results[i], metric)
  IN IF value = NoValue THEN 0 ELSE Weights[metric] * Normalized(value, results, metric)

Score(results, i) ==
  FoldFunctionOnSet(+, 0, [metric \in DOMAIN Weights |-> Scored(results, i, metric)], DOMAIN Weights)

\* What results are sorted by, smallest first: those without a value come last.
SortKey(result, metric) ==
  LET value == ExtractMetric(result, metric)
  IN IF value = NoValue THEN <<1, 0>>
     ELSE <<0, IF metric \in LowerIsBetter THEN value ELSE -value>>

KeyOf(results, i, by) ==
  IF by = "WeightedScore" THEN <<0, -Score(results, i)>> ELSE SortKey(results[i], by)

Outranks(a, b) == a[1] < b[1] \/ (a[1] = b[1] /\ a[2] < b[2])

\* Both sorts are stable: equal keys keep the grid's order.
NotBehind(key, i) ==
  {j \in DOMAIN key : Outranks(key[j], key[i]) \/ (key[j] = key[i] /\ j <= i)}

Rank(results, by) ==
  LET key == [i \in DOMAIN results |-> KeyOf(results, i, by)]
      rank == [i \in DOMAIN results |-> Cardinality(NotBehind(key, i))]
  IN [n \in DOMAIN results |-> results[CHOOSE i \in DOMAIN results : rank[i] = n]]

-----------------------------------------------------------------------------
(* Judging a window; a rate is compared by cross-multiplication *)

Degradation(train, test) ==
  IF train.NetProfit = 0 THEN NoValue
  ELSE <<100 * (train.NetProfit - test.NetProfit),
         IF train.NetProfit < 0 THEN -train.NetProfit ELSE train.NetProfit>>

DrawdownIncrease(train, test) ==
  IF train.MaxDrawdown = 0 THEN NoValue
  ELSE <<100 * (test.MaxDrawdown - train.MaxDrawdown), train.MaxDrawdown>>

AtMost(rate, limit) == rate[1] <= limit * rate[2]

DrawdownPasses(train, test) ==
  IF DrawdownIncrease(train, test) = NoValue THEN test.MaxDrawdown = 0
  ELSE AtMost(DrawdownIncrease(train, test), Rules.drawdownIncrease)

ProfitFactorPasses(test) ==
  test.ProfitFactor # NoValue /\ test.ProfitFactor >= Rules.profitFactor

DegradationPasses(train, test) ==
  IF Degradation(train, test) = NoValue THEN test.NetProfit >= 0
  ELSE AtMost(Degradation(train, test), Rules.degradation)

TradeCountPasses(test) == test.trades >= Rules.trades

EvaluatePassFail(train, test) ==
  /\ DrawdownPasses(train, test) /\ ProfitFactorPasses(test)
  /\ DegradationPasses(train, test) /\ TradeCountPasses(test)

-----------------------------------------------------------------------------
(* The run *)

Result(window, status, best, test, passed) ==
  [window |-> window, status |-> status, best |-> best, test |-> test, passed |-> passed]

RunGridSearch(outcomes) ==
  [i \in DOMAIN Grid |->
     [combination |-> Grid[i], config |-> ApplyCombination(Grid[i], BaseConfig), outcome |-> outcomes[i]]]

\* Mutant: the last of the ranking is taken for the first.
WorstCompleted(ranked) ==
  LET completed == {n \in DOMAIN ranked : Completed(ranked[n].outcome)}
  IN IF completed = {} THEN NoValue ELSE ranked[Max(completed)]

BestCompleted(ranked) ==
  LET completed == {n \in DOMAIN ranked : Completed(ranked[n].outcome)}
  IN IF completed = {} THEN NoValue ELSE ranked[Min(completed)]

\* The outcomes of the training runs and of the test decide the window's result.
WindowResult(window, best, test) ==
  IF best = NoValue THEN Result(window, "InsufficientData", NoValue, NoValue, NoValue)
  ELSE IF best.outcome.trades < MinimumTrades
       THEN Result(window, "InsufficientData", best, NoValue, NoValue)
  ELSE IF ~Completed(test) THEN Result(window, "Failed", best, NoValue, NoValue)
  ELSE Result(window, "Completed", best, [config |-> best.config, outcome |-> test],
              EvaluatePassFail(best.outcome, test))

EnoughCandles(window) ==
  /\ Cardinality(CandlesInRange(window.trainStart, window.trainEnd)) >= MinimumCandles
  /\ Cardinality(CandlesInRange(window.testStart, window.testEnd)) >= MinimumCandles

WalkForwardInit ==
  /\ data \in DataSets /\ windowConfig \in WindowConfigs /\ rankBy \in RankBys
  /\ windows = GenerateWindows(windowConfig, Min(data), Max(data))
  /\ validated = <<>> /\ search = <<>>

SkipWindow ==
  /\ windows # <<>> /\ ~EnoughCandles(Head(windows))
  /\ validated' = Append(validated,
       Result(Head(windows), "InsufficientData", NoValue, NoValue, NoValue))
  /\ search' = <<>>
  /\ windows' = Tail(windows)
  /\ UNCHANGED <<data, windowConfig, rankBy>>

\* optimize() itself raising: the training slice cannot be searched at all.
SearchRaises ==
  /\ windows # <<>> /\ EnoughCandles(Head(windows))
  /\ validated' = Append(validated, Result(Head(windows), "Failed", NoValue, NoValue, NoValue))
  /\ search' = <<>>
  /\ windows' = Tail(windows)
  /\ UNCHANGED <<data, windowConfig, rankBy>>

ValidateWindow(outcomes, test) ==
  LET results == RunGridSearch(outcomes)
      best == BestCompleted(Rank(results, rankBy))
  IN /\ windows # <<>> /\ EnoughCandles(Head(windows))
     /\ validated' = Append(validated, WindowResult(Head(windows), best, test))
     /\ search' = results
     /\ windows' = Tail(windows)
     /\ UNCHANGED <<data, windowConfig, rankBy>>

WalkForwardNext ==
  \/ SkipWindow
  \/ SearchRaises
  \/ \E outcomes \in [DOMAIN Grid -> Outcomes], test \in Outcomes :
       ValidateWindow(outcomes, test)

-----------------------------------------------------------------------------
(* Reports *)

WithStatus(status) == {i \in DOMAIN validated : validated[i].status = status}

ValidationReport ==
  [total |-> Len(validated), completed |-> Cardinality(WithStatus("Completed")),
   insufficient |-> Cardinality(WithStatus("InsufficientData")),
   failed |-> Cardinality(WithStatus("Failed")),
   passed |-> Cardinality({i \in WithStatus("Completed") : validated[i].passed})]

OverallPassed(report) ==
  report.completed > 0 /\ 100 * report.passed >= MinRobustness * report.completed

\* The values chosen for a parameter over the completed windows.
ValuesChosen(name) == {validated[i].best.combination[name] : i \in WithStatus("Completed")}

CompletedResults(results) == {i \in DOMAIN results : Completed(results[i].outcome)}

\* How many completed combinations were tried with each value of a parameter.
ParameterSummary(results, name) ==
  LET ValueOf(i) == results[i].combination[name]
  IN [value \in {ValueOf(i) : i \in CompletedResults(results)} |->
        Cardinality({i \in CompletedResults(results) : ValueOf(i) = value})]

MetricDistribution(results, metric) ==
  LET present == {i \in DOMAIN results : ExtractMetric(results[i], metric) # NoValue}
      values == {ExtractMetric(results[i], metric) : i \in present}
  IN [sample |-> Cardinality(present),
      minimum |-> IF values = {} THEN NoValue ELSE Min(values),
      maximum |-> IF values = {} THEN NoValue ELSE Max(values)]

-----------------------------------------------------------------------------
(* What a validation promises *)

AllWindows == [i \in DOMAIN validated |-> validated[i].window] \o windows

\* No window tests on a candle it trained on or that is older, none reaches past
\* the data, and no window that would fit is missing (window_generator 27-125,
\* runner 238-241).
NothingSeenTwice ==
  data # {} =>
    /\ \A i \in DOMAIN AllWindows :
         LET w == AllWindows[i]
             train == CandlesInRange(w.trainStart, w.trainEnd)
             test == CandlesInRange(w.testStart, w.testEnd)
         IN /\ \A t \in train, u \in test : t < u
            /\ Min(data) <= w.trainStart /\ w.testEnd <= Max(data)
            /\ i > 1 => /\ AllWindows[i - 1].testStart < w.testStart
                        /\ AllWindows[i - 1].trainStart <= w.trainStart
                        /\ AllWindows[i - 1].trainEnd <= w.trainEnd
    /\ WindowAt(Min(data), windowConfig, Len(AllWindows)).testEnd > Max(data)

\* The configuration a window is tested with is that of a completed training run
\* with enough trades which no other completed run outranks, and a window is
\* judged only when both its runs completed (runner 139-235).
TestedWhatWasBest ==
  \A i \in DOMAIN validated :
    LET r == validated[i]
        Key(k) == KeyOf(search, k, rankBy)
    IN /\ (r.passed # NoValue) <=> (r.status = "Completed")
       /\ r.status = "Completed" =>
            /\ Completed(r.best.outcome) /\ r.best.outcome.trades >= MinimumTrades
            /\ r.test.config = r.best.config
            /\ \A name \in DOMAIN BaseConfig
                      \ (DOMAIN r.best.combination
                         \cup {"target_atr_multiplier", "risk_per_trade_percent"}) :
                 r.test.config[name] = BaseConfig[name]
            /\ r.passed => r.test.outcome.trades >= Rules.trades
                           /\ r.test.outcome.ProfitFactor # NoValue
            /\ i = Len(validated) =>
                 \E best \in DOMAIN search :
                   /\ search[best] = r.best
                   /\ \A k \in DOMAIN search :
                        Completed(search[k].outcome) => ~Outranks(Key(k), Key(best))

Better(a, b, metric) ==
  LET x == ExtractMetric(a, metric)
      y == ExtractMetric(b, metric)
  IN IF metric \in LowerIsBetter THEN x < y ELSE x > y

FullyMeasured(r) ==
  Completed(r.outcome) /\ \A m \in DOMAIN Weights : ExtractMetric(r, m) # NoValue

Dominates(a, b) ==
  /\ FullyMeasured(a) /\ FullyMeasured(b)
  /\ \A m \in DOMAIN Weights : ~Better(b, a, m)
  /\ \E m \in DOMAIN Weights : Better(a, b, m)

\* Ranking neither loses nor repeats a combination, and by a score that weighs
\* every metric for something, one that is at least as good on every metric, with
\* none missing, is never behind a worse one
\* (scoring 27-54, research/ranking 11-20, optimization/ranking 55-85).
RanksDominance ==
  LET ranked == Rank(search, rankBy)
  IN /\ ToSet(ranked) = ToSet(search) /\ Len(ranked) = Len(search)
     /\ rankBy = "WeightedScore" /\ (\A m \in DOMAIN Weights : Weights[m] > 0) =>
          \A i, j \in DOMAIN ranked : i < j => ~Dominates(ranked[j], ranked[i])

\* The reports count every window and every completed combination once, a
\* validation that asks for some robustness passes only with a window that passed,
\* and the values a report names are some the search has tried
\* (validation/report 34-84, optimization/report 31-131).
ReportsAddUp ==
  LET report == ValidationReport
  IN /\ report.completed + report.insufficient + report.failed = report.total
     /\ OverallPassed(report) /\ MinRobustness > 0 =>
          \E i \in DOMAIN validated : validated[i].passed = TRUE
     /\ \A k \in DOMAIN ParameterSpace :
          LET name == ParameterSpace[k].name
              summary == ParameterSummary(search, name)
          IN /\ FoldFunctionOnSet(+, 0, summary, DOMAIN summary) = Cardinality(CompletedResults(search))
             /\ ValuesChosen(name) \cup DOMAIN summary \subseteq ToSet(Values(ParameterSpace[k]))
     /\ \A metric \in Metrics :
          MetricDistribution(search, metric).sample <= Cardinality(CompletedResults(search))

\* A search can be trusted from its grid to its reports: what it ranks, and what
\* is counted of it.
SearchesAddUp == RanksDominance /\ ReportsAddUp

=============================================================================
