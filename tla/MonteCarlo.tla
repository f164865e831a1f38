----------------------------- MODULE MonteCarlo -----------------------------
(***************************************************************************)
(* Monte Carlo simulations of a finished backtest's trades                 *)
(* (run_monte_carlo_simulation): each simulation perturbs the trades in    *)
(* one fixed order, draws what is random, and leaves one outcome; the      *)
(* report measures the outcomes' distribution.                             *)
(*                                                                         *)
(* A step applies one perturbation.  A percentage of a price is exact when *)
(* prices are whole hundreds, and rounded down when they are not.          *)
(* Backtests are long-only, so the branches for short trades are left out. *)
(***************************************************************************)
EXTENDS Analytics

CONSTANTS
  Histories,          \* finished backtests: [candles, trades]
  Configs,            \* sets of perturbations that are switched on
  NumSimulations,     \* num_simulations
  SlippagePercent,    \* entry_ and exit_slippage_percent
  CommissionPercent, FlatCommission,
  DelayCandles,       \* delay_candles
  Variations,         \* the percentages a position may change by
  ConfidenceLevel,    \* confidence_level_percent
  TopN                \* top_n: how many best and worst cases are shown

\* A finished backtest, as a simulation gets it: its prices are those of an index, its
\* positions have a size, and its trades' results are still those of their prices.
IsHistory(h) ==
  /\ h.candles \in Seq([time : Nat, low : Nat, high : Nat, close : Nat])
  /\ h.trades \in Seq(Positions)
  /\ \A i \in DOMAIN h.trades :
       LET t == h.trades[i]
       IN t.entry >= 0 /\ t.exit >= 0 /\ t.quantity > 0 /\ t.pnl = (t.exit - t.entry) * t.quantity

\* MonteCarloRun refuses a run without simulations, and each configuration what is
\* negative.  Nothing refuses a slippage or a confidence level above 100 %, which
\* would be of no price and of no sample, nor a report of no cases.
ASSUME MonteCarloAssumption ==
  /\ \A h \in Histories : IsHistory(h)
  /\ NumSimulations \in Nat \ {0}
  /\ SlippagePercent \in 0 .. 100 /\ CommissionPercent \in Nat /\ FlatCommission \in Nat
  /\ DelayCandles \in Nat \ {0} /\ Variations \subseteq Int
  /\ ConfidenceLevel \in 0 .. 100 /\ TopN \in Nat \ {0}

VARIABLES
  history,      \* the backtest under study
  config,       \* the perturbations switched on
  stage,        \* what the running simulation applies next
  perturbed,    \* its trades so far
  results       \* outcomes of the simulations that are over

monteCarloVars == <<history, config, stage, perturbed, results>>

Stages == <<"TradeShuffle", "Slippage", "Commission", "ExecutionDelay",
            "MissedTrades", "PositionVariation", "Measure">>

Priced(trade) == [trade EXCEPT !.pnl = (trade.exit - trade.entry) * trade.quantity]

-----------------------------------------------------------------------------
(* The perturbations, each of a list of trades *)

TradeShuffle ==
  \E order \in Bijection(DOMAIN perturbed, DOMAIN perturbed) :
    perturbed' = [i \in DOMAIN perturbed |-> perturbed[order[i]]]

Slipped(t) ==
  Priced([t EXCEPT !.entry = (@ * (100 + SlippagePercent)) \div 100,
                   !.exit = (@ * (100 - SlippagePercent)) \div 100])

Slippage(list) == [i \in DOMAIN list |-> Slipped(list[i])]

Cost(t) ==
  ((t.entry + t.exit) * t.quantity * CommissionPercent) \div 100 + FlatCommission

Charged(t) == [t EXCEPT !.pnl = @ - Cost(t)]

Commission(list) == [i \in DOMAIN list |-> Charged(list[i])]

\* The close so many candles later; the price itself when the data ends before, or
\* has no candle of that time.
DelayedPrice(time, price) ==
  LET at == {i \in DOMAIN history.candles : history.candles[i].time = time}
      later == Max(at) + DelayCandles
  IN IF at # {} /\ later \in DOMAIN history.candles
     THEN history.candles[later].close ELSE price

Delayed(t) ==
  Priced([t EXCEPT !.entry = DelayedPrice(t.entryTime, @),
                   !.exit = DelayedPrice(t.exitTime, @)])

ExecutionDelay(list) == [i \in DOMAIN list |-> Delayed(list[i])]

\* Where the trades that are left were, in their order.
Picks(n) ==
  {left \in UNION {[1 .. k -> 1 .. n] : k \in 0 .. n} :
     \A i, j \in DOMAIN left : i < j => left[i] < left[j]}

MissedTrades ==
  \E left \in Picks(Len(perturbed)) :
    perturbed' = [i \in DOMAIN left |-> perturbed[left[i]]]

Resized(t, variation) ==
  Priced([t EXCEPT !.quantity = HigherOf(1, (@ * (100 + variation)) \div 100)])

PositionVariation ==
  \E variation \in [DOMAIN perturbed -> Variations] :
    perturbed' = [i \in DOMAIN perturbed |-> Resized(perturbed[i], variation[i])]

-----------------------------------------------------------------------------
(* One simulation *)

\* The curve of a list of trades, in the list's order, from the initial capital.
BuildEquityCurve(list) ==
  [i \in 1 .. Len(list) + 1 |->
     [time |-> i, equity |-> InitialCapital + PnlOf(list, 1 .. i - 1)]]

Outcome(list) ==
  [netProfit |-> BuildEquityCurve(list)[Len(list) + 1].equity - InitialCapital,
   maxDrawdown |-> MaxDrawdown(BuildEquityCurve(list)),
   trades |-> Len(list)]

MonteCarloInit ==
  /\ history \in Histories /\ config \in Configs
  /\ stage = 1 /\ perturbed = history.trades /\ results = <<>>

\* The perturbation the simulation has come to, if it is switched on.
Perturb ==
  /\ Stages[stage] # "Measure"
  /\ stage' = stage + 1
  /\ IF Stages[stage] \notin config THEN UNCHANGED perturbed
     ELSE \/ Stages[stage] = "TradeShuffle" /\ TradeShuffle
          \/ Stages[stage] = "Slippage" /\ perturbed' = Slippage(perturbed)
          \/ Stages[stage] = "Commission" /\ perturbed' = Commission(perturbed)
          \/ Stages[stage] = "ExecutionDelay" /\ perturbed' = ExecutionDelay(perturbed)
          \/ Stages[stage] = "MissedTrades" /\ MissedTrades
          \/ Stages[stage] = "PositionVariation" /\ PositionVariation
  /\ UNCHANGED <<history, config, results>>

\* Mutant: the next simulation goes on from the trades this one has perturbed.
MeasureAndGoOn ==
  /\ Stages[stage] = "Measure" /\ Len(results) < NumSimulations
  /\ results' = Append(results, Outcome(perturbed))
  /\ stage' = 1
  /\ UNCHANGED <<history, config, perturbed>>

Measure ==
  /\ Stages[stage] = "Measure" /\ Len(results) < NumSimulations
  /\ results' = Append(results, Outcome(perturbed))
  /\ stage' = 1
  /\ perturbed' = history.trades
  /\ UNCHANGED <<history, config>>

MonteCarloNext == Len(results) < NumSimulations /\ (Perturb \/ Measure)

-----------------------------------------------------------------------------
(* Statistics of the outcomes; returns are net profits, all of one capital *)

\* The places in increasing order of what is found there, as sorted() leaves them.
StableOrder(values) ==
  CHOOSE order \in [DOMAIN values -> DOMAIN values] :
    \A i, j \in DOMAIN values : i < j =>
      \/ values[order[i]] < values[order[j]]
      \/ values[order[i]] = values[order[j]] /\ order[i] < order[j]

Returns == [i \in DOMAIN results |-> results[i].netProfit]

SortedReturns == [i \in DOMAIN results |-> Returns[StableOrder(Returns)[i]]]

\* The percentile by linear interpolation, times 200; a percentile is given in
\* halves of a percent.
Percentile(sorted, halves) ==
  LET rank == halves * (Len(sorted) - 1)
      lower == rank \div 200
      upper == IF lower + 1 < Len(sorted) THEN lower + 1 ELSE Len(sorted) - 1
  IN 200 * sorted[lower + 1] + (sorted[upper + 1] - sorted[lower + 1]) * (rank % 200)

TailThreshold(sorted) == Percentile(sorted, 2 * (100 - ConfidenceLevel))

ValueAtRisk(sorted) == HigherOf(0, -TailThreshold(sorted))

TailLosses(sorted) == {i \in DOMAIN sorted : 200 * sorted[i] <= TailThreshold(sorted)}

ShortfallOf(sorted, part) ==
  IF part = {} THEN <<0, 1>>
  ELSE <<HigherOf(0, -200 * FoldFunctionOnSet(+, 0, sorted, part)), Cardinality(part)>>

\* Mutant: the tail is everything above the threshold.
MeanOfTheRest(sorted) ==
  ShortfallOf(sorted, DOMAIN sorted \ TailLosses(sorted))

\* The mean of the tail as a fraction.
ConditionalValueAtRisk(sorted) == ShortfallOf(sorted, TailLosses(sorted))

ConfidenceInterval(sorted) ==
  <<Percentile(sorted, 100 - ConfidenceLevel), Percentile(sorted, 100 + ConfidenceLevel)>>

ByReturn == [i \in DOMAIN results |-> results[StableOrder(Returns)[i]]]

WorstCases == [i \in 1 .. (IF TopN < Len(results) THEN TopN ELSE Len(results)) |-> ByReturn[i]]

BestCases ==
  [i \in 1 .. (IF TopN < Len(results) THEN TopN ELSE Len(results)) |->
     ByReturn[Len(results) + 1 - i]]

-----------------------------------------------------------------------------
(* What the simulations promise *)

Baseline == PnlOf(history.trades, DOMAIN history.trades)

\* Every simulation starts from the backtest's own trades, so that one that draws
\* nothing repeats; a shuffle alone leaves the net profit where it was, slippage
\* and commission can only lower it, and no path made of the trades falls further
\* than all their losses together.  One that changes nothing would repeat the
\* backtest, with no deeper drawdown, for the curve of closed trades is part of
\* the backtest's own (runner 43-53, simulation 40-95, trade_shuffle 20-23,
\* slippage 36-53, commission 29-37).
SimulationsBounded ==
  /\ phase = "done" =>
       /\ Outcome(book.trades).netProfit = book.capital - InitialCapital
       /\ Outcome(book.trades).maxDrawdown <= MaxDrawdown(equity_curve)
  /\ \A i \in DOMAIN results :
       /\ config \cap {"TradeShuffle", "MissedTrades", "PositionVariation"} = {} =>
            results[i] = results[1]
       /\ config \subseteq {"TradeShuffle"} => results[i].netProfit = Baseline
       /\ config \subseteq {"TradeShuffle", "Slippage", "Commission"} =>
            results[i].netProfit <= Baseline /\ results[i].trades = Len(history.trades)
       /\ config \subseteq {"TradeShuffle", "MissedTrades"} =>
            results[i].maxDrawdown <= LossOf(history.trades, DOMAIN history.trades)

\* The expected shortfall is at least the value at risk, the confidence interval
\* lies within the outcomes and is not reversed, and no outcome is worse than the
\* worst case shown first or better than the best (statistics 80-119, report 48-66).
TailsOrdered ==
  LET sorted == SortedReturns
      shortfall == ConditionalValueAtRisk(sorted)
      interval == ConfidenceInterval(sorted)
      worst == WorstCases[1].netProfit
      best == BestCases[1].netProfit
  IN results # <<>> =>
       /\ shortfall[1] >= ValueAtRisk(sorted) * shortfall[2]
       /\ 200 * worst <= interval[1] /\ interval[1] <= interval[2] /\ interval[2] <= 200 * best
       /\ ValueAtRisk(sorted) <= HigherOf(0, -200 * worst)
       /\ \A i \in DOMAIN results : worst <= results[i].netProfit /\ results[i].netProfit <= best

\* What a reader relies on a simulation for: its outcomes are within what the
\* perturbations allow, and the figures of its tails are in order.
SimulationsTrusted == SimulationsBounded /\ TailsOrdered

=============================================================================
