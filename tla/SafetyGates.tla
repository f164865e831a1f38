----------------------------- MODULE SafetyGates -----------------------------
(***************************************************************************)
(* The SafetyManager of the live mode and the caller it is written for:    *)
(* one that asks before every order, obeys, and reports what became of it. *)
(* The guide describes that caller; the shipped runtime constructs the     *)
(* manager and only its emergency stop is ever called (see LiveSession).   *)
(***************************************************************************)
EXTENDS Naturals

CONSTANTS
  LiveConfigs,        \* the configurations tried: limits and trading hours
  BreakerThreshold,   \* circuit_breaker_threshold
  ClockTimes,         \* times of day at which the caller asks
  TradeLosses,        \* what a closed trade may have lost
  MaxAsked            \* bound: questions per behaviour

\* A trade loses no more than what was risked on it, so losses have a worst case.
ASSUME SafetyAssumption ==
  /\ LiveConfigs \subseteq [maxDailyLoss : Nat, maxOpenPositions : Nat,
                            maxOrdersPerDay : Nat, start : Nat, end : Nat]
  /\ BreakerThreshold \in Nat
  /\ TradeLosses \subseteq Nat
  /\ \E worst \in TradeLosses : \A other \in TradeLosses : other <= worst

VARIABLES
  limits,     \* the LiveConfig
  gates,      \* the manager's counters and switches
  caller,     \* what the caller is about to do, "none" if there is no caller
  asked,      \* questions so far
  sent        \* history: [today |-> orders sent since the reset, halted |-> orders
              \* sent after the emergency stop]

safetyVars == <<limits, gates, caller, asked, sent>>

LiveAccepted(c) ==
  c.maxDailyLoss > 0 /\ c.maxOpenPositions > 0 /\ c.maxOrdersPerDay > 0

SafetyInit ==
  /\ limits \in {c \in LiveConfigs : LiveAccepted(c)}
  /\ gates = [orders |-> 0, loss |-> 0, open |-> 0, failures |-> 0,
              kill |-> FALSE, emergency |-> FALSE]
  /\ caller = "idle" /\ asked = 0
  /\ sent = [today |-> 0, halted |-> 0]

WithinTradingHours(now) == limits.start <= now /\ now <= limits.end

\* Mutant: the breaker trips on one failure too many.
OpenOneFailureLate(now) ==
  /\ ~gates.emergency /\ ~gates.kill
  /\ gates.failures <= BreakerThreshold
  /\ WithinTradingHours(now)
  /\ gates.orders < limits.maxOrdersPerDay
  /\ gates.loss < limits.maxDailyLoss
  /\ gates.open < limits.maxOpenPositions

\* check_before_order: which gate answers first is a matter of wording only.
AllGatesPass(now) ==
  /\ ~gates.emergency /\ ~gates.kill
  /\ gates.failures < BreakerThreshold
  /\ WithinTradingHours(now)
  /\ gates.orders < limits.maxOrdersPerDay
  /\ gates.loss < limits.maxDailyLoss
  /\ gates.open < limits.maxOpenPositions

Ask(now) ==
  /\ caller = "idle" /\ asked < MaxAsked
  /\ asked' = asked + 1
  /\ caller' = IF AllGatesPass(now) THEN "allowed" ELSE "idle"
  /\ UNCHANGED <<limits, gates, sent>>

\* The order goes out, whatever was switched since the answer.
RecordOrderSubmitted ==
  /\ caller = "allowed" /\ caller' = "sent"
  /\ gates' = [gates EXCEPT !.orders = @ + 1]
  /\ sent' = [today |-> sent.today + 1,
              halted |-> IF gates.emergency THEN sent.halted + 1 ELSE sent.halted]
  /\ UNCHANGED <<limits, asked>>

RecordOrderOutcome(succeeded) ==
  /\ caller = "sent" /\ caller' = "idle"
  /\ gates' = IF succeeded THEN [gates EXCEPT !.failures = 0, !.open = @ + 1]
                           ELSE [gates EXCEPT !.failures = @ + 1]
  /\ UNCHANGED <<limits, asked, sent>>

\* record_position_closed and record_realized_pnl; gains are not recorded.
RecordPositionClosed(loss) ==
  /\ gates.open > 0
  /\ gates' = [gates EXCEPT !.open = @ - 1, !.loss = @ + loss]
  /\ UNCHANGED <<limits, caller, asked, sent>>

ResetDailyCounters ==
  /\ caller = "idle" /\ gates.orders + gates.loss > 0
  /\ gates' = [gates EXCEPT !.orders = 0, !.loss = 0]
  /\ sent' = [sent EXCEPT !.today = 0]
  /\ UNCHANGED <<limits, caller, asked>>

TurnKillSwitch ==
  /\ gates' = [gates EXCEPT !.kill = ~@]
  /\ UNCHANGED <<limits, caller, asked, sent>>

TriggerEmergencyStop ==
  /\ ~gates.emergency
  /\ gates' = [gates EXCEPT !.emergency = TRUE]
  /\ UNCHANGED <<limits, caller, asked, sent>>

SafetyNext ==
  \/ \E now \in ClockTimes : Ask(now)
  \/ RecordOrderSubmitted
  \/ \E succeeded \in BOOLEAN : RecordOrderOutcome(succeeded)
  \/ \E loss \in TradeLosses : RecordPositionClosed(loss)
  \/ ResetDailyCounters \/ TurnKillSwitch \/ TriggerEmergencyStop

-----------------------------------------------------------------------------
(* Properties *)

WorstLoss == CHOOSE loss \in TradeLosses : \A other \in TradeLosses : other <= loss

\* What the gates are for, although each is only read before an order: the orders of
\* a day and the positions held never pass their limits, the loss of a day passes its
\* own by less than what the positions then open can lose, at most the one order
\* already allowed goes out after an emergency stop, and once as many orders in a row
\* have failed as trip the breaker no order is sent: the success that would reset it
\* (LIVE_TRADING_GUIDE.md, "until a success resets the counter") cannot come.
SafetyHolds ==
  caller # "none" =>
    LET ordering == IF caller = "idle" THEN 0 ELSE 1
    IN /\ sent.today <= limits.maxOrdersPerDay
       /\ gates.open + ordering <= limits.maxOpenPositions
       /\ gates.loss + gates.open * WorstLoss
            < limits.maxDailyLoss + limits.maxOpenPositions * WorstLoss
       /\ sent.halted <= 1
       /\ gates.failures + ordering <= BreakerThreshold

=============================================================================
