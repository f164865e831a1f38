--------------------------- MODULE TradingPromise ---------------------------
(***************************************************************************)
(* What a paper-trading session promises whoever configured its risk       *)
(* limits, with no candle, price, order or book in sight: one trade at a   *)
(* time, a bounded number of entries per day, no entry once the day's loss *)
(* limit is reached, no trade losing more than the risk per trade, and no  *)
(* turn-around (an exit and an entry in one step).  TradeCycle implements  *)
(* it.                                                                     *)
(***************************************************************************)
EXTENDS Integers

CONSTANTS RiskAmount, MaxDailyLoss, MaxTradesPerDay

VARIABLES
  holding,  \* a trade is open
  day,      \* the trading day of the last step
  entries,  \* entries made on that day
  loss      \* losses realized on that day

promise == <<holding, day, entries, loss>>

\* What the day's counters stand at once the step's day has begun.
Entries == IF day' = day THEN entries ELSE 0
Loss == IF day' = day THEN loss ELSE 0

Begin == ~holding /\ day = 0 /\ entries = 0 /\ loss = 0

Idle == entries' = Entries /\ loss' = Loss /\ UNCHANGED holding

Open ==
  /\ ~holding /\ Entries < MaxTradesPerDay /\ Loss < MaxDailyLoss
  /\ holding' = TRUE
  /\ entries' = Entries + 1 /\ loss' = Loss

Close ==
  /\ holding
  /\ holding' = FALSE
  /\ entries' = Entries
  /\ loss' \in Loss .. Loss + RiskAmount

\* The day never goes back.
Advance == day' >= day /\ (Idle \/ Open \/ Close)

Promise == Begin /\ [][Advance]_promise

=============================================================================
