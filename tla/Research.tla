------------------------------ MODULE Research ------------------------------
(***************************************************************************)
(* What runs by itself, in a script of its own: a job is one of calls of   *)
(* the data platform, reading a market candle by candle, configuring a     *)
(* sweep, a backtest with its analytics, a Monte Carlo study of a finished *)
(* backtest, a walk-forward validation, or a caller of the safety gates.   *)
(* Jobs share no state.                                                    *)
(***************************************************************************)
EXTENDS MonteCarlo, Parameters, DataPlatform, MarketReading, SafetyGates

VARIABLE job

NoSimulation ==
  /\ history = [candles |-> <<>>, trades |-> <<>>] /\ config = {}
  /\ stage = 1 /\ perturbed = <<>> /\ results = <<>>

NoGates ==
  /\ limits = {} /\ gates = {} /\ caller = "none" /\ asked = 0 /\ sent = {}

NoValidation ==
  /\ data = {} /\ windowConfig = NoValue /\ rankBy = NoValue
  /\ windows = <<>> /\ validated = <<>> /\ search = <<>>

Init ==
  /\ BacktestInit /\ DataInit /\ ReadingInit /\ ParametersInit
  /\ \/ /\ job \in {"import", "reading", "parameters", "backtest"}
        /\ NoSimulation /\ NoValidation /\ NoGates
     \/ job = "simulation" /\ MonteCarloInit /\ NoValidation /\ NoGates
     \/ job = "validation" /\ WalkForwardInit /\ NoSimulation /\ NoGates
     \/ job = "gates" /\ SafetyInit /\ NoSimulation /\ NoValidation

Next ==
  \/ /\ job = "import" /\ DataNext
     /\ UNCHANGED <<job, readingVars, parametersVars, backtestVars,
                    monteCarloVars, walkForwardVars, safetyVars>>
  \/ /\ job = "reading" /\ ReadingNext
     /\ UNCHANGED <<job, dataVars, parametersVars, backtestVars,
                    monteCarloVars, walkForwardVars, safetyVars>>
  \/ /\ job = "parameters" /\ ParametersNext
     /\ UNCHANGED <<job, dataVars, readingVars, backtestVars,
                    monteCarloVars, walkForwardVars, safetyVars>>
  \/ /\ job = "backtest" /\ BacktestNext
     /\ UNCHANGED <<job, dataVars, readingVars, parametersVars,
                    monteCarloVars, walkForwardVars, safetyVars>>
  \/ /\ job = "simulation" /\ MonteCarloNext
     /\ UNCHANGED <<job, dataVars, readingVars, parametersVars,
                    backtestVars, walkForwardVars, safetyVars>>
  \/ /\ job = "validation" /\ WalkForwardNext
     /\ UNCHANGED <<job, dataVars, readingVars, parametersVars,
                    backtestVars, monteCarloVars, safetyVars>>
  \/ /\ job = "gates" /\ SafetyNext
     /\ UNCHANGED <<job, dataVars, readingVars, parametersVars,
                    backtestVars, monteCarloVars, walkForwardVars>>

vars == <<job, dataVars, readingVars, parametersVars, backtestVars,
          monteCarloVars, walkForwardVars, safetyVars>>

Spec == Init /\ [][Next]_vars

=============================================================================
