--------------------------- MODULE ResearchProofs ---------------------------
(***************************************************************************)
(* Proofs about the jobs of Research.  A job's steps leave the variables   *)
(* of the others alone, and what a job does not use holds nothing that its *)
(* properties speak of, so each theorem is an invariant of one job carried *)
(* through the steps of the rest.                                          *)
(***************************************************************************)
EXTENDS Research, SumLemmas, SequenceTheorems

-----------------------------------------------------------------------------
(* The safety gates *)

\* An order the gates have allowed and whose outcome is not recorded yet.
Ordering == IF caller = "idle" THEN 0 ELSE 1

GatesTyped ==
  /\ caller \in {"idle", "allowed", "sent"}
  /\ limits \in LiveConfigs /\ LiveAccepted(limits)
  /\ gates \in [orders : Nat, loss : Nat, open : Nat, failures : Nat,
                kill : BOOLEAN, emergency : BOOLEAN]
  /\ sent \in [today : Nat, halted : Nat]

\* What SafetyHolds bounds is bounded with the order that is allowed counted in.
GatesInv ==
  caller # "none" =>
    /\ GatesTyped
    /\ gates.orders = sent.today
    /\ sent.today <= limits.maxOrdersPerDay
    /\ caller = "allowed" => sent.today < limits.maxOrdersPerDay
    /\ gates.open + Ordering <= limits.maxOpenPositions
    /\ gates.loss + (gates.open + Ordering) * WorstLoss
         < limits.maxDailyLoss + limits.maxOpenPositions * WorstLoss
    /\ sent.halted <= 1
    /\ (~gates.emergency \/ caller = "allowed") => sent.halted = 0
    /\ gates.failures + Ordering <= BreakerThreshold

LEMMA WorstLossIs ==
  /\ WorstLoss \in Nat
  /\ WorstLoss' = WorstLoss
  /\ \A loss \in TradeLosses : loss \in Nat /\ loss <= WorstLoss
<1>1. WorstLoss \in TradeLosses /\ \A loss \in TradeLosses : loss <= WorstLoss
  BY SafetyAssumption DEF WorstLoss
<1>2. WorstLoss' = WorstLoss
  BY DEF WorstLoss
<1> QED
  BY <1>1, <1>2, SafetyAssumption

LEMMA LimitTypes ==
  ASSUME limits \in LiveConfigs
  PROVE  /\ limits.maxOrdersPerDay \in Nat /\ limits.maxOpenPositions \in Nat
         /\ limits.maxDailyLoss \in Nat /\ BreakerThreshold \in Nat
BY SafetyAssumption

\* What is held and ordered can lose, one position more or less.
LEMMA OneMore ==
  ASSUME NEW n \in Nat, NEW w \in Nat
  PROVE  /\ n * w \in Nat
         /\ (n + 1) * w = n * w + w
         /\ \A m \in Nat : n <= m => n * w <= m * w
<1>1. \A k \in Nat : k * w \in Nat /\ (n + k) * w = n * w + k * w
  BY SMTT(30)
<1>2. \A m \in Nat : n <= m => n * w <= m * w
  <2> SUFFICES ASSUME NEW m \in Nat, n <= m PROVE n * w <= m * w
    OBVIOUS
  <2>1. PICK k \in Nat : m = n + k
    <3>1. m - n \in Nat /\ m = n + (m - n)
      OBVIOUS
    <3> QED
      BY <3>1
  <2> QED
    BY <1>1, <2>1
<1>3. (n + 1) * w = n * w + 1 * w
  BY <1>1
<1> QED
  BY <1>1, <1>2, <1>3

LEMMA GatesStart ==
  ASSUME SafetyInit
  PROVE  GatesInv
<1>1. /\ limits \in LiveConfigs /\ LiveAccepted(limits)
      /\ gates = [orders |-> 0, loss |-> 0, open |-> 0, failures |-> 0,
                  kill |-> FALSE, emergency |-> FALSE]
      /\ caller = "idle" /\ sent = [today |-> 0, halted |-> 0]
  BY DEF SafetyInit
<1>2. GatesTyped
  BY <1>1 DEF GatesTyped
<1>3. Ordering = 0 /\ WorstLoss \in Nat
  BY <1>1, WorstLossIs DEF Ordering
<1>4. limits.maxOpenPositions \in Nat /\ limits.maxDailyLoss \in Nat /\ limits.maxDailyLoss > 0
      /\ limits.maxOrdersPerDay \in Nat /\ BreakerThreshold \in Nat
  BY <1>1, LimitTypes DEF LiveAccepted
<1>5. limits.maxOpenPositions * WorstLoss \in Nat /\ 0 * WorstLoss = 0
  BY <1>3, <1>4, OneMore
<1> QED
  BY <1>1, <1>2, <1>3, <1>4, <1>5 DEF GatesInv

\* The counts of GatesInv, with the positions, the order and the losses given.
LEMMA GatesFacts ==
  ASSUME GatesInv, caller # "none"
  PROVE  /\ GatesTyped
         /\ limits \in LiveConfigs
         /\ limits.maxOrdersPerDay \in Nat /\ limits.maxOpenPositions \in Nat
         /\ limits.maxDailyLoss \in Nat /\ BreakerThreshold \in Nat
         /\ gates.orders \in Nat /\ gates.loss \in Nat /\ gates.open \in Nat
         /\ gates.failures \in Nat
         /\ sent.today \in Nat /\ sent.halted \in Nat
         /\ Ordering \in {0, 1}
         /\ gates.open * WorstLoss \in Nat
         /\ limits.maxOpenPositions * WorstLoss \in Nat
<1>1. GatesTyped
  BY DEF GatesInv
<1>2. gates.open \in Nat /\ limits \in LiveConfigs
  BY <1>1 DEF GatesTyped
<1>3. gates.open * WorstLoss \in Nat /\ limits.maxOpenPositions * WorstLoss \in Nat
  BY <1>2, LimitTypes, WorstLossIs, OneMore
<1> QED
  BY <1>1, <1>2, <1>3, LimitTypes DEF GatesTyped, Ordering

LEMMA AskStep ==
  ASSUME GatesInv, NEW now, Ask(now)
  PROVE  GatesInv'
<1>1. /\ caller = "idle" /\ UNCHANGED <<limits, gates, sent>>
      /\ caller' = IF AllGatesPass(now) THEN "allowed" ELSE "idle"
  BY DEF Ask
<1>2. GatesTyped'
  BY <1>1, GatesFacts DEF GatesTyped, LiveAccepted
<1>3. CASE ~AllGatesPass(now)
  BY <1>1, <1>2, <1>3, WorstLossIs DEF GatesInv, Ordering
<1>4. CASE AllGatesPass(now)
  <2>1. /\ ~gates.emergency /\ gates.failures < BreakerThreshold
        /\ gates.orders < limits.maxOrdersPerDay
        /\ gates.loss < limits.maxDailyLoss /\ gates.open < limits.maxOpenPositions
    BY <1>4 DEF AllGatesPass
  <2>2. (gates.open + 1) * WorstLoss <= limits.maxOpenPositions * WorstLoss
        /\ (gates.open + 1) * WorstLoss \in Nat
    BY <1>1, <2>1, GatesFacts, WorstLossIs, OneMore
  <2>3. Ordering' = 1 /\ caller' = "allowed"
    BY <1>1, <1>4 DEF Ordering
  <2>4. /\ gates.orders = sent.today /\ sent.halted = 0 /\ sent.halted <= 1
    BY <1>1, <2>1 DEF GatesInv
  <2> QED
    BY <1>1, <1>2, <2>1, <2>2, <2>3, <2>4, GatesFacts, WorstLossIs DEF GatesInv
<1> QED
  BY <1>3, <1>4

LEMMA SubmittedStep ==
  ASSUME GatesInv, RecordOrderSubmitted
  PROVE  GatesInv'
<1>1. /\ caller = "allowed" /\ caller' = "sent" /\ UNCHANGED limits
      /\ gates' = [gates EXCEPT !.orders = @ + 1]
      /\ sent' = [today |-> sent.today + 1,
                  halted |-> IF gates.emergency THEN sent.halted + 1 ELSE sent.halted]
  BY DEF RecordOrderSubmitted
<1>2. GatesTyped /\ GatesTyped'
  BY <1>1, GatesFacts DEF GatesTyped, LiveAccepted
<1>3. /\ gates'.orders = gates.orders + 1 /\ gates'.loss = gates.loss
      /\ gates'.open = gates.open /\ gates'.failures = gates.failures
      /\ gates'.emergency = gates.emergency
  BY <1>1, <1>2 DEF GatesTyped
<1>4. Ordering = 1 /\ Ordering' = 1
  BY <1>1 DEF Ordering
<1>5. sent.halted = 0 /\ sent.today < limits.maxOrdersPerDay
  BY <1>1 DEF GatesInv
<1> QED
  BY <1>1, <1>2, <1>3, <1>4, <1>5, GatesFacts, WorstLossIs DEF GatesInv

LEMMA OutcomeStep ==
  ASSUME GatesInv, NEW succeeded \in BOOLEAN, RecordOrderOutcome(succeeded)
  PROVE  GatesInv'
<1>1. /\ caller = "sent" /\ caller' = "idle" /\ UNCHANGED <<limits, sent>>
      /\ gates' = IF succeeded THEN [gates EXCEPT !.failures = 0, !.open = @ + 1]
                               ELSE [gates EXCEPT !.failures = @ + 1]
  BY DEF RecordOrderOutcome
<1>2. GatesTyped /\ GatesTyped'
  <2>1. GatesTyped /\ gates.open + 1 \in Nat /\ gates.failures + 1 \in Nat
    BY <1>1, GatesFacts
  <2> DEFINE Record == [orders : Nat, loss : Nat, open : Nat, failures : Nat,
                        kill : BOOLEAN, emergency : BOOLEAN]
  <2>2. gates \in Record
    BY <2>1 DEF GatesTyped
  <2>3. [gates EXCEPT !.failures = gates.failures + 1] \in Record
    BY <2>1, <2>2
  <2>4. [gates EXCEPT !.failures = 0, !.open = gates.open + 1] \in Record
    <3>1. [gates EXCEPT !.failures = 0] \in Record
      BY <2>2
    <3>2. [[gates EXCEPT !.failures = 0] EXCEPT !.open = gates.open + 1] \in Record
      BY <2>1, <3>1
    <3> QED
      BY <2>2, <3>2
  <2>5. gates' \in Record
    <3> HIDE DEF Record
    <3> QED
      BY <1>1, <2>3, <2>4
  <2> QED
    BY <1>1, <2>1, <2>5 DEF GatesTyped, LiveAccepted
<1>3. /\ gates'.orders = gates.orders /\ gates'.loss = gates.loss
      /\ gates'.open = IF succeeded THEN gates.open + 1 ELSE gates.open
      /\ gates'.failures = IF succeeded THEN 0 ELSE gates.failures + 1
      /\ gates'.emergency = gates.emergency
  BY <1>1, <1>2 DEF GatesTyped
<1>4. Ordering = 1 /\ Ordering' = 0
  BY <1>1 DEF Ordering
<1>5. /\ (gates.open + 1) * WorstLoss = gates.open * WorstLoss + WorstLoss
      /\ (gates.open + 0) * WorstLoss = gates.open * WorstLoss
      /\ WorstLoss \in Nat
  BY <1>1, GatesFacts, WorstLossIs, OneMore
<1>6. gates'.loss + (gates'.open + Ordering') * WorstLoss
        < limits.maxDailyLoss + limits.maxOpenPositions * WorstLoss
  <2>1. gates.loss + (gates.open + 1) * WorstLoss
          < limits.maxDailyLoss + limits.maxOpenPositions * WorstLoss
    BY <1>1, <1>4 DEF GatesInv
  <2>2. CASE succeeded
    <3>1. gates'.open + Ordering' = gates.open + 1
      BY <1>1, <1>3, <1>4, <2>2, GatesFacts
    <3> QED
      BY <1>3, <2>1, <3>1
  <2>3. CASE ~succeeded
    <3>1. gates'.open + Ordering' = gates.open + 0
      BY <1>3, <1>4, <2>3
    <3>2. gates.loss + gates.open * WorstLoss
            < limits.maxDailyLoss + limits.maxOpenPositions * WorstLoss
      BY <1>1, <1>5, <2>1, GatesFacts
    <3> QED
      BY <1>3, <1>5, <3>1, <3>2
  <2> QED
    BY <2>2, <2>3
<1>7. /\ gates.orders = sent.today /\ sent.today <= limits.maxOrdersPerDay
      /\ gates.open + 1 <= limits.maxOpenPositions
      /\ sent.halted <= 1 /\ (~gates.emergency => sent.halted = 0)
      /\ gates.failures + 1 <= BreakerThreshold
  BY <1>1, <1>4 DEF GatesInv
<1> QED
  BY <1>1, <1>2, <1>3, <1>4, <1>6, <1>7, GatesFacts, WorstLossIs DEF GatesInv

LEMMA ClosedStep ==
  ASSUME GatesInv, NEW loss \in TradeLosses, RecordPositionClosed(loss)
  PROVE  GatesInv'
<1> SUFFICES ASSUME caller # "none"
             PROVE  GatesInv'
  BY DEF GatesInv, RecordPositionClosed
<1>1. /\ gates.open > 0 /\ UNCHANGED <<limits, caller, sent>>
      /\ gates' = [gates EXCEPT !.open = @ - 1, !.loss = @ + loss]
  BY DEF RecordPositionClosed
<1>2. loss \in Nat /\ loss <= WorstLoss /\ WorstLoss \in Nat
  BY WorstLossIs
<1>3. GatesTyped /\ GatesTyped'
  <2>1. GatesTyped /\ gates.open - 1 \in Nat /\ gates.loss + loss \in Nat
    BY <1>1, <1>2, GatesFacts
  <2> DEFINE Record == [orders : Nat, loss : Nat, open : Nat, failures : Nat,
                        kill : BOOLEAN, emergency : BOOLEAN]
  <2>2. [gates EXCEPT !.open = gates.open - 1] \in Record
    BY <2>1 DEF GatesTyped
  <2>3. [[gates EXCEPT !.open = gates.open - 1] EXCEPT !.loss = gates.loss + loss] \in Record
    BY <2>1, <2>2
  <2>4. gates' \in Record
    BY <1>1, <2>1, <2>3 DEF GatesTyped
  <2> QED
    BY <1>1, <2>1, <2>4 DEF GatesTyped, LiveAccepted
<1>4. /\ gates'.orders = gates.orders /\ gates'.loss = gates.loss + loss
      /\ gates'.open = gates.open - 1 /\ gates'.failures = gates.failures
      /\ gates'.emergency = gates.emergency
  BY <1>1, <1>3 DEF GatesTyped
<1>5. Ordering' = Ordering
  BY <1>1 DEF Ordering
<1>6. gates'.loss + (gates'.open + Ordering') * WorstLoss
        < limits.maxDailyLoss + limits.maxOpenPositions * WorstLoss
  <2>1. gates.loss + (gates.open + Ordering) * WorstLoss
          < limits.maxDailyLoss + limits.maxOpenPositions * WorstLoss
    BY DEF GatesInv
  <2> DEFINE n == gates.open - 1 + Ordering
  <2>2. n \in Nat /\ n + 1 = gates.open + Ordering /\ gates'.open + Ordering' = n
    BY <1>1, <1>4, <1>5, GatesFacts
  <2>3. (n + 1) * WorstLoss = n * WorstLoss + WorstLoss /\ n * WorstLoss \in Nat
    <3> HIDE DEF n
    <3> QED
      BY <1>2, <2>2, OneMore
  <2> HIDE DEF n
  <2>4. (gates.open + Ordering) * WorstLoss = n * WorstLoss + WorstLoss
    BY <2>2, <2>3
  <2>5. gates.loss + loss + n * WorstLoss
          < limits.maxDailyLoss + limits.maxOpenPositions * WorstLoss
    BY <1>2, <2>1, <2>3, <2>4, GatesFacts
  <2> QED
    BY <1>4, <2>2, <2>5
<1>7. /\ gates.orders = sent.today /\ sent.today <= limits.maxOrdersPerDay
      /\ (caller = "allowed" => sent.today < limits.maxOrdersPerDay)
      /\ gates.open + Ordering <= limits.maxOpenPositions
      /\ sent.halted <= 1 /\ ((~gates.emergency \/ caller = "allowed") => sent.halted = 0)
      /\ gates.failures + Ordering <= BreakerThreshold
  BY DEF GatesInv
<1> QED
  BY <1>1, <1>3, <1>4, <1>5, <1>6, <1>7, GatesFacts, WorstLossIs DEF GatesInv

LEMMA SwitchStep ==
  ASSUME GatesInv, ResetDailyCounters \/ TurnKillSwitch \/ TriggerEmergencyStop
  PROVE  GatesInv'
<1> SUFFICES ASSUME caller # "none"
             PROVE  GatesInv'
  BY DEF GatesInv, ResetDailyCounters, TurnKillSwitch, TriggerEmergencyStop
<1>1. GatesTyped
  BY GatesFacts
<1>2. CASE ResetDailyCounters
  <2>1. /\ caller = "idle" /\ UNCHANGED <<limits, caller>>
        /\ gates' = [gates EXCEPT !.orders = 0, !.loss = 0]
        /\ sent' = [sent EXCEPT !.today = 0]
    BY <1>2 DEF ResetDailyCounters
  <2>2. GatesTyped'
    BY <1>1, <2>1 DEF GatesTyped, LiveAccepted
  <2>3. /\ gates'.orders = 0 /\ gates'.loss = 0 /\ gates'.open = gates.open
        /\ gates'.failures = gates.failures /\ gates'.emergency = gates.emergency
        /\ sent'.today = 0 /\ sent'.halted = sent.halted
    BY <1>1, <2>1 DEF GatesTyped
  <2>4. Ordering' = 0 /\ Ordering = 0
    BY <2>1 DEF Ordering
  <2>5. gates.open + 0 = gates.open
    BY GatesFacts
  <2>6. gates.loss + gates.open * WorstLoss
          < limits.maxDailyLoss + limits.maxOpenPositions * WorstLoss
    BY <2>4, <2>5 DEF GatesInv
  <2>7. /\ gates.open <= limits.maxOpenPositions
        /\ sent.halted <= 1 /\ (~gates.emergency => sent.halted = 0)
        /\ gates.failures <= BreakerThreshold
    BY <2>4, GatesFacts DEF GatesInv
  <2> QED
    BY <2>1, <2>2, <2>3, <2>4, <2>5, <2>6, <2>7, GatesFacts, WorstLossIs DEF GatesInv
<1>3. CASE TurnKillSwitch
  <2>1. UNCHANGED <<limits, caller, sent>> /\ gates' = [gates EXCEPT !.kill = ~@]
    BY <1>3 DEF TurnKillSwitch
  <2>2. GatesTyped' /\ Ordering' = Ordering
    BY <1>1, <2>1 DEF GatesTyped, LiveAccepted, Ordering
  <2>3. /\ gates'.orders = gates.orders /\ gates'.loss = gates.loss /\ gates'.open = gates.open
        /\ gates'.failures = gates.failures /\ gates'.emergency = gates.emergency
    BY <1>1, <2>1 DEF GatesTyped
  <2> QED
    BY <2>1, <2>2, <2>3, WorstLossIs DEF GatesInv
<1>4. CASE TriggerEmergencyStop
  <2>1. UNCHANGED <<limits, caller, sent>> /\ gates' = [gates EXCEPT !.emergency = TRUE]
        /\ ~gates.emergency
    BY <1>4 DEF TriggerEmergencyStop
  <2>2. GatesTyped' /\ Ordering' = Ordering
    BY <1>1, <2>1 DEF GatesTyped, LiveAccepted, Ordering
  <2>3. /\ gates'.orders = gates.orders /\ gates'.loss = gates.loss /\ gates'.open = gates.open
        /\ gates'.failures = gates.failures /\ gates'.emergency = TRUE
    BY <1>1, <2>1 DEF GatesTyped
  <2>4. sent.halted = 0
    BY <2>1 DEF GatesInv
  <2> QED
    BY <2>1, <2>2, <2>3, <2>4, WorstLossIs DEF GatesInv
<1> QED
  BY <1>2, <1>3, <1>4

LEMMA GatesKeep ==
  ASSUME GatesInv, SafetyNext
  PROVE  GatesInv'
BY AskStep, SubmittedStep, OutcomeStep, ClosedStep, SwitchStep DEF SafetyNext

\* The jobs that do not call the gates have no caller, and leave it so.
LEMMA GatesStay ==
  ASSUME GatesInv, UNCHANGED safetyVars
  PROVE  GatesInv'
<1>1. UNCHANGED <<limits, gates, caller, sent>> /\ WorstLoss' = WorstLoss
  BY WorstLossIs DEF safetyVars
<1>2. Ordering' = Ordering
  BY <1>1 DEF Ordering
<1>3. GatesTyped => GatesTyped'
  BY <1>1 DEF GatesTyped, LiveAccepted
<1> QED
  BY <1>1, <1>2, <1>3 DEF GatesInv

\* The inductive invariant of the gates, along every job.
THEOREM GatesInvariant == Spec => []GatesInv
<1>1. Init => GatesInv
  <2> SUFFICES ASSUME Init
               PROVE  GatesInv
    OBVIOUS
  <2>1. CASE NoGates
    BY <2>1 DEF NoGates, GatesInv
  <2>2. CASE SafetyInit
    BY <2>2, GatesStart
  <2> QED
    BY <2>1, <2>2 DEF Init
<1>2. GatesInv /\ [Next]_vars => GatesInv'
  <2> SUFFICES ASSUME GatesInv, [Next]_vars
               PROVE  GatesInv'
    OBVIOUS
  <2>1. CASE SafetyNext
    BY <2>1, GatesKeep
  <2>2. CASE UNCHANGED safetyVars
    BY <2>2, GatesStay
  <2> QED
    BY <2>1, <2>2 DEF Next, vars
<1> QED
  BY <1>1, <1>2, PTL DEF Spec

\* A caller that asks before every order and reports what became of it keeps within
\* all its limits, sends at most one order after an emergency stop, and sends none once
\* as many orders in a row have failed as trip the breaker, for any limits and losses.
THEOREM GatesHold == Spec => []SafetyHolds
<1>1. GatesInv => SafetyHolds
  <2> SUFFICES ASSUME GatesInv, caller # "none"
               PROVE  SafetyHolds
    BY DEF SafetyHolds
  <2>1. Ordering \in {0, 1} /\ gates.open \in Nat /\ gates.loss \in Nat /\ WorstLoss \in Nat
        /\ limits.maxDailyLoss \in Nat
    BY GatesFacts, WorstLossIs
  <2>2. /\ gates.open * WorstLoss \in Nat
        /\ gates.open * WorstLoss <= (gates.open + Ordering) * WorstLoss
        /\ (gates.open + Ordering) * WorstLoss \in Nat
    <3>1. gates.open + Ordering \in Nat /\ gates.open <= gates.open + Ordering
      BY <2>1
    <3> QED
      BY <2>1, <3>1, OneMore
  <2>3. gates.loss + gates.open * WorstLoss
          < limits.maxDailyLoss + limits.maxOpenPositions * WorstLoss
    <3>1. gates.loss + (gates.open + Ordering) * WorstLoss
            < limits.maxDailyLoss + limits.maxOpenPositions * WorstLoss
      BY DEF GatesInv
    <3> QED
      BY <2>1, <2>2, <3>1, GatesFacts
  <2> QED
    BY <2>3 DEF GatesInv, SafetyHolds, Ordering
<1> QED
  BY <1>1, GatesInvariant, PTL

-----------------------------------------------------------------------------
(* The windows of a validation *)

LEMMA ConfigFields ==
  ASSUME NEW c \in WindowConfigs
  PROVE  /\ c.type \in {"Rolling", "Expanding", "Anchored"}
         /\ c.training \in Nat /\ c.training > 0
         /\ c.testing \in Nat /\ c.testing > 0
         /\ c.step \in Nat /\ c.step > 0
BY WindowsAssumption DEF WindowConfigsAccepted

\* Where the k-th window of each type lies.  Multiplying by the step keeps order.
LEMMA WindowFields ==
  ASSUME NEW c \in WindowConfigs, NEW start \in Int, NEW k \in Nat
  PROVE  /\ k * c.step \in Nat /\ k * c.step >= k
         /\ (k + 1) * c.step = k * c.step + c.step
         /\ WindowAt(start, c, k).testEnd
              = start + c.training + c.testing + k * c.step
         /\ WindowAt(start, c, k).testStart
              = start + c.training + k * c.step
         /\ WindowAt(start, c, k).trainStart
              = IF c.type = "Rolling" THEN start + k * c.step ELSE start
         /\ WindowAt(start, c, k).trainEnd
              = IF c.type = "Anchored" THEN start + c.training
                ELSE start + c.training + k * c.step
<1>1. /\ c.type \in {"Rolling", "Expanding", "Anchored"}
      /\ c.training \in Nat /\ c.testing \in Nat
      /\ c.step \in Nat /\ c.step > 0
  BY ConfigFields
<1>2. /\ k * c.step \in Nat
      /\ (k + 1) * c.step = k * c.step + c.step
  BY <1>1, OneMore
<1>3. k * c.step >= k
  <2>1. PICK s \in Nat : c.step = 1 + s
    <3>1. c.step - 1 \in Nat /\ c.step = 1 + (c.step - 1)
      BY <1>1
    <3> QED
      BY <3>1
  <2>2. k * (1 + s) = k + k * s /\ k * s \in Nat
    BY <2>1, SMTT(30)
  <2> QED
    BY <2>1, <2>2
<1> DEFINE product == k * c.step
<1>4. product \in Nat
  BY <1>2
<1>5. /\ WindowAt(start, c, k).testEnd
           = start + c.training + c.testing + product
      /\ WindowAt(start, c, k).testStart = start + c.training + product
      /\ WindowAt(start, c, k).trainStart
           = IF c.type = "Rolling" THEN start + product ELSE start
      /\ WindowAt(start, c, k).trainEnd
           = IF c.type = "Anchored" THEN start + c.training
             ELSE start + c.training + product
  <2>1. CASE c.type = "Rolling"
    <3>1. WindowAt(start, c, k) = Rolling(start, c, k)
      BY <2>1 DEF WindowAt
    <3>2. Rolling(start, c, k)
            = [trainStart |-> start + product, trainEnd |-> start + product + c.training,
               testStart |-> start + product + c.training,
               testEnd |-> start + product + c.training + c.testing]
      BY DEF Rolling, Window
    <3> HIDE DEF product
    <3> QED
      BY <1>1, <1>4, <2>1, <3>1, <3>2
  <2>2. CASE c.type = "Expanding"
    <3>1. WindowAt(start, c, k) = Expanding(start, c, k)
      BY <2>2 DEF WindowAt
    <3>2. Expanding(start, c, k)
            = [trainStart |-> start, trainEnd |-> start + c.training + product,
               testStart |-> start + c.training + product,
               testEnd |-> start + c.training + product + c.testing]
      BY DEF Expanding, Window
    <3> HIDE DEF product
    <3> QED
      BY <1>1, <1>4, <2>2, <3>1, <3>2
  <2>3. CASE c.type = "Anchored"
    <3>1. WindowAt(start, c, k) = Anchored(start, c, k)
      BY <2>3 DEF WindowAt
    <3>2. Anchored(start, c, k)
            = [trainStart |-> start, trainEnd |-> start + c.training,
               testStart |-> start + c.training + product,
               testEnd |-> start + c.training + product + c.testing]
      BY DEF Anchored, Window
    <3> HIDE DEF product
    <3> QED
      BY <1>1, <1>4, <2>3, <3>1, <3>2
  <2> HIDE DEF product
  <2> QED
    BY <1>1, <2>1, <2>2, <2>3
<1> QED
  BY <1>2, <1>3, <1>5

\* Windows fit up to some number, and every one that fits is generated.
LEMMA WindowsGenerated ==
  ASSUME NEW c \in WindowConfigs, NEW start \in Int, NEW end \in Int, start <= end
  PROVE  \E n \in Nat :
           /\ GenerateWindows(c, start, end)
                = [i \in 1 .. n |-> WindowAt(start, c, i - 1)]
           /\ \A k \in 0 .. n - 1 : WindowAt(start, c, k).testEnd <= end
           /\ WindowAt(start, c, n).testEnd > end
<1> DEFINE first == start + c.training + c.testing
           n == IF first > end THEN 0 ELSE (end - first) \div c.step + 1
           fitting == {k \in 0 .. end - start : WindowAt(start, c, k).testEnd <= end}
<1>1. /\ c.training \in Nat /\ c.testing \in Nat
      /\ c.step \in Nat /\ c.step > 0
  BY ConfigFields
<1>2. first \in Int /\ first >= start
  BY <1>1
<1>3. ASSUME NEW k \in Nat
      PROVE  /\ k * c.step \in Nat /\ k * c.step >= k
             /\ WindowAt(start, c, k).testEnd = first + k * c.step
  BY WindowFields
<1> HIDE DEF first
<1>4. n \in Nat
  <2>1. CASE first > end
    BY <2>1
  <2>2. CASE ~(first > end)
    <3>1. end - first \in Nat
      BY <1>2, <2>2
    <3>2. (end - first) \div c.step \in Nat
      BY <1>1, <3>1, SMTT(30)
    <3> QED
      BY <2>2, <3>2
  <2> QED
    BY <2>1, <2>2
<1>5. \A k \in Nat : first + k * c.step <= end <=> k < n
  <2> SUFFICES ASSUME NEW k \in Nat
               PROVE  first + k * c.step <= end <=> k < n
    OBVIOUS
  <2>0. k * c.step \in Nat
    BY <1>3
  <2>1. CASE first > end
    BY <1>2, <2>0, <2>1
  <2>2. CASE ~(first > end)
    <3> DEFINE e == end - first
               q == e \div c.step
    <3>1. e \in Nat /\ end = first + e
      BY <1>2, <2>2
    <3> HIDE DEF e
    <3>2. /\ q \in Nat /\ q * c.step <= e /\ e < (q + 1) * c.step
      BY <1>1, <3>1, SMTT(30)
    <3>3. n = q + 1
      BY <2>2 DEF e
    <3> HIDE DEF q, n
    <3>4. CASE k <= q
      <4>1. k * c.step <= q * c.step
        BY <1>1, <3>2, <3>4, OneMore
      <4>2. k * c.step <= e
        BY <2>0, <1>3, <3>1, <3>2, <4>1
      <4> QED
        BY <1>2, <2>0, <3>1, <3>2, <3>3, <3>4, <4>2
    <3>5. CASE ~(k <= q)
      <4>1. q + 1 \in Nat /\ q + 1 <= k
        BY <3>2, <3>5
      <4>2. (q + 1) * c.step <= k * c.step
        BY <1>1, <4>1, OneMore
      <4>3. (q + 1) * c.step \in Nat
        BY <1>3, <4>1
      <4> QED
        BY <1>2, <2>0, <3>1, <3>2, <3>3, <3>5, <4>2, <4>3
    <3> QED
      BY <3>4, <3>5
  <2> QED
    BY <2>1, <2>2
<1> HIDE DEF n
<1>6. fitting = 0 .. n - 1
  <2>1. ASSUME NEW k \in Nat, k < n
        PROVE  k \in 0 .. end - start
    <3>1. first + k * c.step <= end
      BY <1>5, <2>1
    <3> QED
      BY <1>2, <1>3, <2>1, <3>1
  <2>2. 0 .. end - start \subseteq Nat /\ 0 .. n - 1 = {k \in Nat : k < n}
    BY <1>4
  <2> QED
    BY <1>3, <1>5, <2>1, <2>2
<1>7. Cardinality(fitting) = n
  <2>1. Cardinality(0 .. n - 1) = IF 0 > n - 1 THEN 0 ELSE (n - 1) - 0 + 1
    BY <1>4, FS_Interval
  <2>2. Cardinality(0 .. n - 1) = n
    BY <1>4, <2>1
  <2> HIDE DEF fitting
  <2> QED
    BY <1>6, <2>2
<1>8. GenerateWindows(c, start, end) = [i \in 1 .. n |-> WindowAt(start, c, i - 1)]
  BY <1>7 DEF GenerateWindows
<1>9. \A k \in 0 .. n - 1 : WindowAt(start, c, k).testEnd <= end
  BY <1>3, <1>4, <1>5
<1>10. WindowAt(start, c, n).testEnd > end
  <2>1. WindowAt(start, c, n).testEnd = first + n * c.step /\ n * c.step \in Nat
    BY <1>3, <1>4
  <2>2. ~(first + n * c.step <= end)
    BY <1>4, <1>5
  <2> QED
    BY <1>2, <2>1, <2>2
<1> QED
  BY <1>4, <1>8, <1>9, <1>10

\* The windows generated for the data a validation was asked about.
Generated == GenerateWindows(windowConfig, Min(data), Max(data))

\* Validated and waiting windows, in this order, are the generated ones.
WindowsInv ==
  data # {} =>
    /\ data \in DataSets /\ windowConfig \in WindowConfigs
    /\ \E S : validated \in Seq(S) /\ windows \in Seq(S) /\ Generated \in Seq(S)
    /\ Len(validated) + Len(windows) = Len(Generated)
    /\ \A i \in 1 .. Len(validated) : validated[i].window = Generated[i]
    /\ \A i \in 1 .. Len(windows) : windows[i] = Generated[Len(validated) + i]

LEMMA DataEnds ==
  ASSUME NEW d \in DataSets
  PROVE  /\ Min(d) \in Int /\ Max(d) \in Int /\ Min(d) <= Max(d)
         /\ \A t \in d : t \in Int /\ Min(d) <= t /\ t <= Max(d)
<1>1. d # {} /\ IsFiniteSet(d) /\ \A t \in d : t \in Int
  BY WindowsAssumption DEF WindowConfigsAccepted
<1>2. /\ Max(d) \in d /\ \A t \in d : Max(d) >= t
      /\ Min(d) \in d /\ \A t \in d : Min(d) <= t
  BY <1>1, MaxMinOf
<1> QED
  BY <1>1, <1>2

LEMMA WindowsStart ==
  ASSUME WalkForwardInit
  PROVE  WindowsInv
<1>1. /\ data \in DataSets /\ windowConfig \in WindowConfigs
      /\ windows = Generated /\ validated = <<>>
  BY DEF WalkForwardInit, Generated
<1>2. PICK n \in Nat : Generated = [i \in 1 .. n |-> WindowAt(Min(data), windowConfig, i - 1)]
  BY <1>1, DataEnds, WindowsGenerated DEF Generated
<1> DEFINE S == {WindowAt(Min(data), windowConfig, i - 1) : i \in 1 .. n}
<1>3. Generated \in Seq(S) /\ Len(Generated) = n
  <2>1. Generated \in [1 .. n -> S]
    BY <1>2
  <2> HIDE DEF S
  <2> QED
    BY <2>1
<1>4. validated \in Seq(S) /\ Len(validated) = 0
  <2> HIDE DEF S
  <2> QED
    BY <1>1
<1> HIDE DEF S
<1> QED
  BY <1>1, <1>3, <1>4 DEF WindowsInv

\* A step moves the first waiting window to the validated ones.
LEMMA WindowsMove ==
  ASSUME WindowsInv, windows # <<>>, NEW r, r.window = Head(windows),
         validated' = Append(validated, r), windows' = Tail(windows),
         UNCHANGED <<data, windowConfig>>
  PROVE  WindowsInv'
<1> SUFFICES ASSUME data # {}
             PROVE  WindowsInv'
  BY DEF WindowsInv
<1> DEFINE all == Generated
<1>1. Generated' = all
  BY DEF Generated
<1>2. PICK S : validated \in Seq(S) /\ windows \in Seq(S) /\ all \in Seq(S)
  BY DEF WindowsInv
<1>3. /\ data \in DataSets /\ windowConfig \in WindowConfigs
      /\ Len(validated) + Len(windows) = Len(all)
      /\ \A i \in 1 .. Len(validated) : validated[i].window = all[i]
      /\ \A i \in 1 .. Len(windows) : windows[i] = all[Len(validated) + i]
  BY DEF WindowsInv
<1> HIDE DEF all
<1> DEFINE R == S \cup {r}
<1>4. validated \in Seq(R) /\ windows \in Seq(R) /\ all \in Seq(R) /\ r \in R
  BY <1>2
<1> HIDE DEF R
<1>5. /\ validated' \in Seq(R) /\ Len(validated') = Len(validated) + 1
      /\ \A i \in 1 .. Len(validated) : validated'[i] = validated[i]
      /\ validated'[Len(validated) + 1] = r
  BY <1>4
<1>6. /\ windows' \in Seq(R) /\ Len(windows') = Len(windows) - 1
      /\ \A i \in 1 .. Len(windows) - 1 : windows'[i] = windows[i + 1]
      /\ Head(windows) = windows[1] /\ Len(windows) \in Nat /\ Len(windows) > 0
      /\ Len(validated) \in Nat
  BY <1>4
<1>7. Len(validated') + Len(windows') = Len(all)
  BY <1>3, <1>5, <1>6
<1>8. ASSUME NEW i \in 1 .. Len(validated')
      PROVE  validated'[i].window = all[i]
  <2>1. CASE i \in 1 .. Len(validated)
    BY <1>3, <1>5, <2>1
  <2>2. CASE i = Len(validated) + 1
    <3>1. windows[1] = all[Len(validated) + 1]
      BY <1>3, <1>6
    <3> QED
      BY <1>5, <1>6, <2>2, <3>1
  <2> QED
    BY <1>5, <1>6, <2>1, <2>2
<1>9. ASSUME NEW i \in 1 .. Len(windows')
      PROVE  windows'[i] = all[Len(validated') + i]
  <2>1. i \in 1 .. Len(windows) - 1 /\ i + 1 \in 1 .. Len(windows)
    BY <1>6
  <2>2. Len(validated') + i = Len(validated) + (i + 1)
    BY <1>5, <1>6, <2>1
  <2>3. windows'[i] = all[Len(validated) + (i + 1)]
    BY <1>3, <1>6, <2>1
  <2> QED
    BY <2>2, <2>3
<1> QED
  BY <1>1, <1>3, <1>4, <1>5, <1>6, <1>7, <1>8, <1>9 DEF WindowsInv

LEMMA WindowsKeep ==
  ASSUME WindowsInv, WalkForwardNext
  PROVE  WindowsInv'
<1>1. CASE SkipWindow
  <2>1. Result(Head(windows), "InsufficientData", NoValue, NoValue, NoValue).window = Head(windows)
    BY DEF Result
  <2> QED
    BY <1>1, <2>1, WindowsMove DEF SkipWindow
<1>2. CASE SearchRaises
  <2>1. Result(Head(windows), "Failed", NoValue, NoValue, NoValue).window = Head(windows)
    BY DEF Result
  <2> QED
    BY <1>2, <2>1, WindowsMove DEF SearchRaises
<1>3. ASSUME NEW outcomes \in [DOMAIN Grid -> Outcomes], NEW test \in Outcomes,
             ValidateWindow(outcomes, test)
      PROVE  WindowsInv'
  <2>1. PICK best :
          /\ windows # <<>> /\ windows' = Tail(windows)
          /\ validated' = Append(validated, WindowResult(Head(windows), best, test))
          /\ UNCHANGED <<data, windowConfig>>
    BY <1>3 DEF ValidateWindow
  <2>2. WindowResult(Head(windows), best, test).window = Head(windows)
    BY DEF WindowResult, Result
  <2> QED
    BY <2>1, <2>2, WindowsMove
<1> QED
  BY <1>1, <1>2, <1>3 DEF WalkForwardNext

\* The inductive invariant of a validation, along every job.
THEOREM WindowsInvariant == Spec => []WindowsInv
<1>1. Init => WindowsInv
  <2>1. NoValidation => WindowsInv
    BY DEF NoValidation, WindowsInv
  <2>2. WalkForwardInit => WindowsInv
    BY WindowsStart
  <2> QED
    BY <2>1, <2>2 DEF Init
<1>2. WindowsInv /\ [Next]_vars => WindowsInv'
  <2> SUFFICES ASSUME WindowsInv, [Next]_vars
               PROVE  WindowsInv'
    OBVIOUS
  <2>1. CASE WalkForwardNext
    BY <2>1, WindowsKeep
  <2>2. CASE UNCHANGED walkForwardVars
    <3>1. UNCHANGED <<data, windowConfig, windows, validated>>
      BY <2>2 DEF walkForwardVars
    <3>2. Generated' = Generated
      BY <3>1 DEF Generated
    <3> QED
      BY <3>1, <3>2 DEF WindowsInv
  <2> QED
    BY <2>1, <2>2 DEF Next, vars
<1> QED
  BY <1>1, <1>2, PTL DEF Spec

LEMMA AllAreGenerated ==
  ASSUME WindowsInv, data # {}
  PROVE  AllWindows = Generated
<1> DEFINE all == Generated
           v == [i \in DOMAIN validated |-> validated[i].window]
<1>1. PICK S : validated \in Seq(S) /\ windows \in Seq(S) /\ all \in Seq(S)
  BY DEF WindowsInv
<1>2. /\ Len(validated) + Len(windows) = Len(all)
      /\ \A i \in 1 .. Len(validated) : validated[i].window = all[i]
      /\ \A i \in 1 .. Len(windows) : windows[i] = all[Len(validated) + i]
  BY DEF WindowsInv
<1>3. AllWindows = v \o windows
  BY DEF AllWindows
<1> HIDE DEF all
<1>4. Len(validated) \in Nat /\ Len(windows) \in Nat /\ DOMAIN validated = 1 .. Len(validated)
      /\ DOMAIN all = 1 .. Len(all)
  BY <1>1
<1>5. v \in Seq(S) /\ Len(v) = Len(validated) /\ \A i \in 1 .. Len(v) : v[i] = all[i]
  <2>1. \A i \in 1 .. Len(validated) : all[i] \in S
    BY <1>1, <1>2, <1>4
  <2>2. v \in [1 .. Len(validated) -> S]
    BY <1>2, <1>4, <2>1
  <2>3. \A i \in 1 .. Len(validated) : v[i] = all[i]
    BY <1>2, <1>4
  <2> HIDE DEF v
  <2> QED
    BY <1>4, <2>2, <2>3
<1> HIDE DEF v
<1>6. /\ v \o windows \in Seq(S) /\ Len(v \o windows) = Len(all)
      /\ \A i \in 1 .. Len(all) : (v \o windows)[i] = all[i]
  <2>1. v \o windows \in Seq(S) /\ Len(v \o windows) = Len(v) + Len(windows)
    BY <1>1, <1>5, ConcatProperties
  <2>2. ASSUME NEW i \in 1 .. Len(all)
        PROVE  (v \o windows)[i] = all[i]
    <3>1. CASE i <= Len(v)
      BY <1>1, <1>2, <1>4, <1>5, <2>2, <3>1
    <3>2. CASE ~(i <= Len(v))
      <4>1. i - Len(v) \in 1 .. Len(windows) /\ i = Len(validated) + (i - Len(v))
        BY <1>2, <1>4, <1>5, <2>2, <3>2
      <4>2. (v \o windows)[i] = windows[i - Len(v)]
        BY <1>1, <1>2, <1>4, <1>5, <2>2, <3>2
      <4> QED
        BY <1>2, <4>1, <4>2
    <3> QED
      BY <3>1, <3>2
  <2> QED
    BY <1>2, <1>5, <2>1, <2>2
<1>7. v \o windows = all
  BY <1>1, <1>6, SeqEqual
<1> QED
  BY <1>3, <1>7 DEF all

\* No window of a walk-forward validation tests on a candle it trained on or on an
\* older one, none reaches past the data, tests move forward from window to window, and
\* every window that fits is there, for every type, duration, step and set of candles.
THEOREM NothingIsSeenTwice == Spec => []NothingSeenTwice
<1>1. WindowsInv => NothingSeenTwice
  <2> SUFFICES ASSUME WindowsInv, data # {}
               PROVE  NothingSeenTwice
    BY DEF NothingSeenTwice
  <2> DEFINE start == Min(data)
             end == Max(data)
             step == windowConfig.step
  <2>1. data \in DataSets /\ windowConfig \in WindowConfigs
    BY DEF WindowsInv
  <2>2. start \in Int /\ end \in Int /\ start <= end /\ \A t \in data : t \in Int
    BY <2>1, DataEnds
  <2>3. AllWindows = GenerateWindows(windowConfig, start, end)
    BY AllAreGenerated DEF Generated
  <2> HIDE DEF start, end
  <2>4. PICK n \in Nat :
          /\ AllWindows = [i \in 1 .. n |-> WindowAt(start, windowConfig, i - 1)]
          /\ \A k \in 0 .. n - 1 : WindowAt(start, windowConfig, k).testEnd <= end
          /\ WindowAt(start, windowConfig, n).testEnd > end
    BY <2>1, <2>2, <2>3, WindowsGenerated
  <2>5. DOMAIN AllWindows = 1 .. n /\ Len(AllWindows) = n
    BY <2>4
  <2>6. ASSUME NEW i \in 1 .. n
        PROVE  LET w == AllWindows[i]
                   train == CandlesInRange(w.trainStart, w.trainEnd)
                   test == CandlesInRange(w.testStart, w.testEnd)
               IN /\ \A t \in train, u \in test : t < u
                  /\ start <= w.trainStart /\ w.testEnd <= end
                  /\ i > 1 => /\ AllWindows[i - 1].testStart < w.testStart
                              /\ AllWindows[i - 1].trainStart <= w.trainStart
                              /\ AllWindows[i - 1].trainEnd <= w.trainEnd
    <3> DEFINE w == AllWindows[i]
               k == i - 1
    <3>1. k \in Nat /\ w = WindowAt(start, windowConfig, k) /\ w.testEnd <= end
      BY <2>4
    <3>2. /\ windowConfig.training \in Nat /\ windowConfig.testing \in Nat
          /\ step \in Nat /\ step > 0
      BY <2>1, ConfigFields
    <3>3. /\ k * step \in Nat
          /\ w.testStart = start + windowConfig.training + k * step
          /\ w.trainStart = IF windowConfig.type = "Rolling" THEN start + k * step ELSE start
          /\ w.trainEnd = IF windowConfig.type = "Anchored" THEN start + windowConfig.training
                          ELSE start + windowConfig.training + k * step
      BY <2>1, <2>2, <3>1, WindowFields
    <3>4. start <= w.trainStart /\ w.trainEnd <= w.testStart
          /\ w.trainEnd \in Int /\ w.testStart \in Int
      BY <2>2, <3>2, <3>3
    <3>5. \A t \in CandlesInRange(w.trainStart, w.trainEnd),
             u \in CandlesInRange(w.testStart, w.testEnd) : t < u
      BY <2>2, <3>4 DEF CandlesInRange
    <3>6. ASSUME i > 1
          PROVE  /\ AllWindows[i - 1].testStart < w.testStart
                 /\ AllWindows[i - 1].trainStart <= w.trainStart
                 /\ AllWindows[i - 1].trainEnd <= w.trainEnd
      <4> DEFINE j == i - 2
                 b == AllWindows[i - 1]
      <4>1. j \in Nat /\ j + 1 = k /\ i - 1 \in 1 .. n /\ (i - 1) - 1 = j
        BY <3>6
      <4>2. b = WindowAt(start, windowConfig, j)
        BY <2>4, <4>1
      <4>3. /\ j * step \in Nat /\ (j + 1) * step = j * step + step
            /\ b.testStart = start + windowConfig.training + j * step
            /\ b.trainStart = IF windowConfig.type = "Rolling" THEN start + j * step ELSE start
            /\ b.trainEnd = IF windowConfig.type = "Anchored" THEN start + windowConfig.training
                            ELSE start + windowConfig.training + j * step
        BY <2>1, <2>2, <4>1, <4>2, WindowFields
      <4>4. k * step = j * step + step
        BY <4>1, <4>3
      <4> HIDE DEF b, k, j, step, w
      <4> QED
        BY <2>2, <3>2, <3>3, <4>3, <4>4 DEF b
    <3> QED
      BY <3>1, <3>4, <3>5, <3>6
  <2> QED
    BY <2>4, <2>5, <2>6 DEF NothingSeenTwice, start, end
<1> QED
  BY <1>1, WindowsInvariant, PTL

-----------------------------------------------------------------------------
(* The backtest: what is counted *)

TotalLoss(h, day) == LossOf(h, ExitsOn(h, day))

\* The trades of a replay follow one another.
InOrder(h, now) ==
  /\ \A i \in DOMAIN h : /\ h[i].reason # "EndOfData"
                         /\ h[i].entryTime < h[i].exitTime /\ h[i].exitTime <= now
  /\ \A i, j \in DOMAIN h : i < j => h[i].exitTime <= h[j].entryTime

\* What TradesWithinLimits says, of every day there is.
LimitsKept(h) ==
  /\ \A i \in DOMAIN h : TradeSound(h, i)
  /\ \A day \in Nat : /\ Cardinality(EntriesOn(h, day)) <= MaxTradesPerDay
                      /\ Cardinality(ExitsOn(h, day)) <= MaxTradesPerDay
  /\ \A i \in DOMAIN h : LossBefore(h, Day(h[i].entryTime), h[i].entryTime) < MaxDailyLoss

\* A position was entered within the limits, so there is room for the trade it
\* becomes, on the day it was entered and on the day it is counted.
RoomForTrade(b) ==
  LET h == b.trades
      p == b.position
  IN p # None =>
       /\ \A i \in DOMAIN h : h[i].exitTime <= p.entryTime
       /\ h # <<>> => p.entryTime - h[Len(h)].exitTime >= CooldownMinutes
       /\ p.stop = p.entry - StopDistance /\ p.target = p.entry + TargetDistance
       /\ p.quantity \in Nat /\ 100 * (StopDistance * p.quantity) <= RiskPercent * b.capital
       /\ b.takenToday < MaxTradesPerDay
       /\ Cardinality(EntriesOn(h, Day(p.entryTime))) < MaxTradesPerDay
       /\ TotalLoss(h, Day(p.entryTime)) < MaxDailyLoss

\* An open position has outlived the last candle, or was entered on it.
HeldThrough(b, last) ==
  LET p == b.position
  IN p # None => /\ b.date # None /\ p.entryTime <= last.time /\ p.stop <= last.close
                 /\ p.entryTime < last.time \/ last.close = p.entry

Counted(b) ==
  LET h == b.trades
  IN /\ b.capital = InitialCapital + PnlBefore(h, Len(h) + 1)
     /\ b.closedAt = IF h = <<>> THEN None ELSE h[Len(h)].exitTime
     /\ b.date = None => h = <<>> /\ b.takenToday = 0 /\ b.lossToday = 0
     /\ b.date # None => /\ b.takenToday = Cardinality(ExitsOn(h, b.date))
                         /\ b.lossToday = TotalLoss(h, b.date)

CandleSet == [time : Nat, low : Int, high : Int, close : Int]

Books == [capital : Int, position : Positions \cup {None}, trades : Seq(Positions),
          closedAt : Nat \cup {None}, date : Nat \cup {None}, takenToday : Nat, lossToday : Int]

\* The book between two candles of a replay.
BookOK(b, last) ==
  /\ b \in Books /\ InOrder(b.trades, last.time) /\ LimitsKept(b.trades)
  /\ Counted(b) /\ RoomForTrade(b) /\ HeldThrough(b, last)
  /\ b.date # None => b.date = Day(last.time)

\* The book when the day has rolled for a new candle.
Rolled(b, c) ==
  /\ b \in Books /\ InOrder(b.trades, c.time) /\ LimitsKept(b.trades)
  /\ Counted(b) /\ RoomForTrade(b) /\ b.date = Day(c.time)
  /\ b.position # None => b.position.entryTime < c.time

BacktestInv ==
  /\ candles \in Seq(CandleSet) /\ book \in Books /\ LimitsKept(book.trades)
  /\ phase = "replay" =>
       /\ candles # <<>> => BookOK(book, candles[Len(candles)])
       /\ Len(candles) <= WarmupCandles => book = NewBook

\* Days follow one another as stamps do.
LEMMA DayMoves ==
  ASSUME NEW a \in Nat, NEW b \in Nat
  PROVE  Day(a) \in Nat /\ (a <= b => Day(a) <= Day(b))
BY SMT DEF Day

\* The types of what a trade holds.
LEMMA TradeFields ==
  ASSUME NEW p \in Positions
  PROVE  /\ p.entryTime \in Nat /\ p.exitTime \in Nat /\ p.entry \in Int /\ p.exit \in Int
         /\ p.stop \in Int /\ p.target \in Int /\ p.quantity \in Int /\ p.pnl \in Int
         /\ p # None /\ Day(p.entryTime) \in Nat /\ Day(p.exitTime) \in Nat
BY BacktestAssumption, DayMoves DEF Positions

\* The types of what a book holds.
LEMMA BookFields ==
  ASSUME NEW b \in Books
  PROVE  /\ b.capital \in Int /\ b.position \in Positions \cup {None}
         /\ b.trades \in Seq(Positions) /\ b.closedAt \in Nat \cup {None}
         /\ b.date \in Nat \cup {None} /\ b.takenToday \in Nat /\ b.lossToday \in Int
         /\ Len(b.trades) \in Nat /\ DOMAIN b.trades = 1 .. Len(b.trades)
         /\ \A i \in DOMAIN b.trades : b.trades[i] \in Positions
BY DEF Books

\* The sums of the properties, as sums over sets of trades.
LEMMA LossIs ==
  ASSUME NEW h, NEW S
  PROVE  LossOf(h, S) = SumOn([k \in S |-> HigherOf(0, -h[k].pnl)], S)
BY DEF LossOf, SumOf, FoldFunction, SumOn

\* The trades before one, by number, and what they made.
LEMMA PnlIs ==
  ASSUME NEW h, NEW n \in Nat
  PROVE  PnlBefore(h, n + 1) = SumOn([j \in 1 .. n |-> h[j].pnl], 1 .. n)
<1>1. PICK i : i = n + 1
  OBVIOUS
<1>2. i - 1 = n
  BY <1>1
<1>3. PnlBefore(h, i) = SumOn([j \in 1 .. i - 1 |-> h[j].pnl], 1 .. i - 1)
  BY DEF PnlBefore, SumOf, FoldFunction, SumOn
<1>4. PnlBefore(h, i) = SumOn([j \in 1 .. n |-> h[j].pnl], 1 .. n)
  BY <1>2, <1>3, Zenon
<1> QED
  BY <1>1, <1>4, Zenon

\* A loss is a number, and nothing is lost where nothing was traded.
LEMMA LossFacts ==
  ASSUME NEW h, NEW S, IsFiniteSet(S), \A k \in S : h[k] \in Positions
  PROVE  /\ LossOf(h, S) \in Int
         /\ S = {} => LossOf(h, S) = 0
<1> DEFINE f == [k \in S |-> HigherOf(0, -h[k].pnl)]
<1>1. LossOf(h, S) = SumOn(f, S)
  BY LossIs
<1>2. \A k \in S : f[k] \in Int
  BY TradeFields DEF HigherOf
<1> HIDE DEF f
<1> QED
  BY <1>1, <1>2, SumType

\* A loss depends on the trades it sums.
LEMMA LossSame ==
  ASSUME NEW g, NEW h, NEW S, IsFiniteSet(S), \A k \in S : g[k] = h[k]
  PROVE  LossOf(g, S) = LossOf(h, S)
<1> DEFINE f == [k \in S |-> HigherOf(0, -h[k].pnl)]
           e == [k \in S |-> HigherOf(0, -g[k].pnl)]
<1>1. LossOf(h, S) = SumOn(f, S) /\ LossOf(g, S) = SumOn(e, S)
  BY LossIs
<1>2. \A k \in S : e[k] = f[k]
  OBVIOUS
<1> HIDE DEF f, e
<1> QED
  BY <1>1, <1>2, SumOnSame

\* One more trade adds what it lost.
LEMMA LossAdds ==
  ASSUME NEW h, NEW S, IsFiniteSet(S), NEW n, n \notin S,
         \A k \in S \cup {n} : h[k] \in Positions
  PROVE  LossOf(h, S \cup {n}) = LossOf(h, S) + HigherOf(0, -h[n].pnl)
<1> DEFINE f == [k \in S \cup {n} |-> HigherOf(0, -h[k].pnl)]
           e == [k \in S |-> HigherOf(0, -h[k].pnl)]
<1>1. LossOf(h, S \cup {n}) = SumOn(f, S \cup {n}) /\ LossOf(h, S) = SumOn(e, S)
  BY LossIs
<1>2. \A k \in S \cup {n} : f[k] \in Int
  BY TradeFields DEF HigherOf
<1>3. f[n] = HigherOf(0, -h[n].pnl) /\ \A k \in S : f[k] = e[k]
  OBVIOUS
<1> HIDE DEF f, e
<1>4. SumOn(f, S) = SumOn(e, S)
  BY <1>3, SumOnSame
<1>5. SumOn(f, S \cup {n}) = SumOn(f, S) + f[n]
  BY <1>2, SumAdd
<1> QED
  BY <1>1, <1>3, <1>4, <1>5

\* The first n numbers and one more.
LEMMA Prefix ==
  ASSUME NEW n \in Nat
  PROVE  IsFiniteSet(1 .. n) /\ n + 1 \notin 1 .. n /\ 1 .. n + 1 = (1 .. n) \cup {n + 1}
<1>1. IsFiniteSet(1 .. n)
  BY FS_Interval
<1> QED
  BY <1>1

\* What was made depends on the trades it sums.
LEMMA PnlSame ==
  ASSUME NEW g, NEW h, NEW n \in Nat, \A k \in 1 .. n : g[k] = h[k]
  PROVE  PnlBefore(g, n + 1) = PnlBefore(h, n + 1)
<1> DEFINE S == 1 .. n
           f == [k \in S |-> h[k].pnl]
           e == [k \in S |-> g[k].pnl]
<1>1. PnlBefore(h, n + 1) = SumOn(f, S) /\ PnlBefore(g, n + 1) = SumOn(e, S)
  BY PnlIs
<1>2. (\A k \in S : e[k] = f[k]) /\ IsFiniteSet(S)
  BY Prefix
<1> HIDE DEF f, e, S
<1> QED
  BY <1>1, <1>2, SumOnSame

\* One more trade adds what it made.
LEMMA PnlAdds ==
  ASSUME NEW h, NEW n \in Nat, \A k \in 1 .. n + 1 : h[k] \in Positions
  PROVE  /\ PnlBefore(h, n + 1) \in Int
         /\ PnlBefore(h, n + 1 + 1) = PnlBefore(h, n + 1) + h[n + 1].pnl
<1> DEFINE m == n + 1
           S == 1 .. n
           T == 1 .. m
           f == [k \in T |-> h[k].pnl]
           e == [k \in S |-> h[k].pnl]
<1>1. PnlBefore(h, n + 1) = SumOn(e, S)
  BY PnlIs
<1>2. PnlBefore(h, m + 1) = SumOn(f, T)
  <2>1. m \in Nat
    OBVIOUS
  <2> HIDE DEF m
  <2> QED
    BY <2>1, PnlIs
<1>3. IsFiniteSet(S) /\ T = S \cup {m} /\ m \notin S
  BY Prefix
<1>4. (\A k \in T : f[k] \in Int) /\ f[m] = h[m].pnl
  BY TradeFields
<1>5. \A k \in S : f[k] = e[k] /\ e[k] \in Int
  BY <1>3, <1>4
<1> HIDE DEF f, e, S, T
<1>6. SumOn(f, S) = SumOn(e, S) /\ SumOn(e, S) \in Int
  BY <1>3, <1>5, SumOnSame, SumType
<1>7. SumOn(f, S \cup {m}) = SumOn(f, S) + f[m]
  BY <1>3, <1>4, SumAdd
<1> QED
  BY <1>1, <1>2, <1>3, <1>4, <1>6, <1>7

\* One more trade at the end of the list.
LEMMA Appended ==
  ASSUME NEW h \in Seq(Positions), NEW t \in Positions
  PROVE  LET g == Append(h, t)
             n == Len(h) + 1
         IN /\ g \in Seq(Positions) /\ Len(g) = n /\ n \in Nat /\ Len(h) \in Nat
            /\ DOMAIN h = 1 .. Len(h) /\ DOMAIN g = 1 .. n /\ IsFiniteSet(DOMAIN h)
            /\ DOMAIN g = DOMAIN h \cup {n} /\ n \notin DOMAIN h
            /\ g[n] = t /\ g # <<>> /\ \A i \in DOMAIN h : g[i] = h[i] /\ h[i] \in Positions /\ i < n
<1> DEFINE g == Append(h, t)
           n == Len(h) + 1
<1>1. Len(h) \in Nat /\ DOMAIN h = 1 .. Len(h) /\ \A i \in DOMAIN h : h[i] \in Positions
  OBVIOUS
<1>2. /\ g \in Seq(Positions) /\ Len(g) = n /\ n \in Nat /\ DOMAIN g = 1 .. n /\ g[n] = t
      /\ \A i \in 1 .. Len(h) : g[i] = h[i] /\ i < n
  BY <1>1
<1>3. IsFiniteSet(1 .. Len(h)) /\ n \notin 1 .. Len(h) /\ 1 .. n = (1 .. Len(h)) \cup {n}
  BY <1>1, Prefix
<1>4. g # <<>>
  BY <1>1, <1>2
<1> QED
  BY <1>1, <1>2, <1>3, <1>4

\* What the lists of a day are when a trade is appended.
LEMMA DayLists ==
  ASSUME NEW h \in Seq(Positions), NEW t \in Positions, NEW day
  PROVE  LET g == Append(h, t)
             n == Len(h) + 1
         IN /\ EntriesOn(g, day) = EntriesOn(h, day) \cup (IF Day(t.entryTime) = day THEN {n} ELSE {})
            /\ ExitsOn(g, day) = ExitsOn(h, day) \cup
                 (IF Day(t.exitTime) = day /\ t.reason # "EndOfData" THEN {n} ELSE {})
            /\ EntriesOn(h, day) \subseteq DOMAIN h /\ ExitsOn(h, day) \subseteq DOMAIN h
            /\ n \notin EntriesOn(h, day) /\ n \notin ExitsOn(h, day)
            /\ IsFiniteSet(EntriesOn(h, day)) /\ IsFiniteSet(ExitsOn(h, day))
<1>1. PICK g : g = Append(h, t)
  OBVIOUS
<1>2. PICK n : n = Len(h) + 1
  OBVIOUS
<1>3. /\ DOMAIN g = DOMAIN h \cup {n} /\ n \notin DOMAIN h /\ IsFiniteSet(DOMAIN h)
      /\ g[n] = t /\ \A i \in DOMAIN h : g[i] = h[i]
  BY <1>1, <1>2, Appended
<1>4. /\ EntriesOn(g, day) = EntriesOn(h, day) \cup (IF Day(t.entryTime) = day THEN {n} ELSE {})
      /\ ExitsOn(g, day) = ExitsOn(h, day) \cup
           (IF Day(t.exitTime) = day /\ t.reason # "EndOfData" THEN {n} ELSE {})
  BY <1>3 DEF EntriesOn, ExitsOn
<1>5. EntriesOn(h, day) \subseteq DOMAIN h /\ ExitsOn(h, day) \subseteq DOMAIN h
  BY DEF EntriesOn, ExitsOn
<1>6. IsFiniteSet(EntriesOn(h, day)) /\ IsFiniteSet(ExitsOn(h, day))
  BY <1>3, <1>5, FS_Subset
<1>7. n \notin EntriesOn(h, day) /\ n \notin ExitsOn(h, day)
  BY <1>3, <1>5
<1> QED
  BY <1>1, <1>2, <1>4, <1>5, <1>6, <1>7

\* A trade is as sound as it was when others follow.
LEMMA SoundStays ==
  ASSUME NEW h \in Seq(Positions), NEW t \in Positions, NEW i \in DOMAIN h, TradeSound(h, i)
  PROVE  TradeSound(Append(h, t), i)
<1>1. PICK g : g = Append(h, t)
  OBVIOUS
<1>2. /\ DOMAIN h = 1 .. Len(h) /\ Len(h) \in Nat /\ \A k \in DOMAIN h : g[k] = h[k]
  BY <1>1, Appended
<1>3. g[i] = h[i] /\ (i > 1 => g[i - 1] = h[i - 1])
  BY <1>2
<1>4. PnlBefore(g, i) = PnlBefore(h, i)
  <2>1. PICK m : m = i - 1
    OBVIOUS
  <2>2. m \in Nat /\ m + 1 = i /\ \A k \in 1 .. m : g[k] = h[k]
    BY <1>2, <2>1
  <2>3. PnlBefore(g, m + 1) = PnlBefore(h, m + 1)
    BY <2>2, PnlSame
  <2> QED
    BY <2>2, <2>3
<1> QED
  BY <1>1, <1>3, <1>4 DEF TradeSound

\* A trade there was room for keeps the limits.
LEMMA LimitsStay ==
  ASSUME NEW h \in Seq(Positions), NEW t \in Positions, LimitsKept(h),
         \A i \in DOMAIN h : /\ h[i].reason # "EndOfData" /\ h[i].entryTime < h[i].exitTime
                             /\ h[i].exitTime <= t.entryTime,
         t.entryTime <= t.exitTime,
         t.entryTime < t.exitTime \/ (t.reason = "EndOfData" /\ t.pnl = 0),
         h # <<>> => t.entryTime - h[Len(h)].exitTime >= CooldownMinutes,
         -100 * t.pnl <= RiskPercent * (InitialCapital + PnlBefore(h, Len(h) + 1)),
         Cardinality(EntriesOn(h, Day(t.entryTime))) < MaxTradesPerDay,
         t.reason # "EndOfData" => Cardinality(ExitsOn(h, Day(t.exitTime))) < MaxTradesPerDay,
         TotalLoss(h, Day(t.entryTime)) < MaxDailyLoss
  PROVE  LimitsKept(Append(h, t))
<1>1. PICK g : g = Append(h, t)
  OBVIOUS
<1>2. PICK n : n = Len(h) + 1
  OBVIOUS
<1>3. /\ DOMAIN g = DOMAIN h \cup {n} /\ n \notin DOMAIN h /\ n \in Nat /\ Len(h) \in Nat
      /\ DOMAIN h = 1 .. Len(h) /\ g[n] = t /\ n # 0
      /\ \A i \in DOMAIN h : g[i] = h[i] /\ h[i] \in Positions
  BY <1>1, <1>2, Appended
<1>4. \A i \in DOMAIN g : TradeSound(g, i)
  <2>1. \A i \in DOMAIN h : TradeSound(g, i)
    BY <1>1, SoundStays DEF LimitsKept
  <2>2. TradeSound(g, n)
    <3>1. PICK m : m = Len(h)
      OBVIOUS
    <3>2. /\ m \in Nat /\ n = m + 1 /\ n - 1 = m /\ DOMAIN h = 1 .. m
          /\ \A k \in 1 .. m : g[k] = h[k]
      BY <1>2, <1>3, <3>1
    <3>3. n > 1 => h # <<>> /\ g[m] = h[m]
      BY <3>1, <3>2
    <3>4. PnlBefore(g, m + 1) = PnlBefore(h, m + 1)
      BY <3>2, PnlSame
    <3>5. n > 1 => t.entryTime - g[n - 1].exitTime >= CooldownMinutes
      BY <3>1, <3>2, <3>3
    <3>6. -100 * t.pnl <= RiskPercent * (InitialCapital + PnlBefore(g, n))
      BY <3>1, <3>2, <3>4
    <3> QED
      BY <1>3, <3>5, <3>6 DEF TradeSound
  <2> QED
    BY <1>3, <2>1, <2>2
<1>5. ASSUME NEW day \in Nat
      PROVE  /\ Cardinality(EntriesOn(g, day)) <= MaxTradesPerDay
             /\ Cardinality(ExitsOn(g, day)) <= MaxTradesPerDay
  <2>1. /\ EntriesOn(g, day) = EntriesOn(h, day) \cup (IF Day(t.entryTime) = day THEN {n} ELSE {})
        /\ ExitsOn(g, day) = ExitsOn(h, day) \cup
             (IF Day(t.exitTime) = day /\ t.reason # "EndOfData" THEN {n} ELSE {})
        /\ n \notin EntriesOn(h, day) /\ n \notin ExitsOn(h, day)
        /\ IsFiniteSet(EntriesOn(h, day)) /\ IsFiniteSet(ExitsOn(h, day))
    BY <1>1, <1>2, DayLists
  <2>2. /\ Cardinality(EntriesOn(h, day)) \in Nat /\ Cardinality(ExitsOn(h, day)) \in Nat
        /\ Cardinality(EntriesOn(h, day) \cup {n}) = Cardinality(EntriesOn(h, day)) + 1
        /\ Cardinality(ExitsOn(h, day) \cup {n}) = Cardinality(ExitsOn(h, day)) + 1
    BY <2>1, FS_AddElement, FS_CardinalityType
  <2>3. Cardinality(EntriesOn(h, day)) <= MaxTradesPerDay /\ MaxTradesPerDay \in Nat
        /\ Cardinality(ExitsOn(h, day)) <= MaxTradesPerDay
    BY BacktestAssumption DEF LimitsKept
  <2>4. Cardinality(EntriesOn(g, day)) <= MaxTradesPerDay
    <3>1. CASE Day(t.entryTime) = day
      BY <2>1, <2>2, <2>3, <3>1
    <3>2. CASE Day(t.entryTime) # day
      <4>1. EntriesOn(g, day) = EntriesOn(h, day)
        BY <2>1, <3>2
      <4> QED
        BY <2>3, <4>1
    <3> QED
      BY <3>1, <3>2
  <2>5. Cardinality(ExitsOn(g, day)) <= MaxTradesPerDay
    <3>1. CASE Day(t.exitTime) = day /\ t.reason # "EndOfData"
      BY <2>1, <2>2, <2>3, <3>1
    <3>2. CASE ~(Day(t.exitTime) = day /\ t.reason # "EndOfData")
      <4>1. ExitsOn(g, day) = ExitsOn(h, day)
        BY <2>1, <3>2
      <4> QED
        BY <2>3, <4>1
    <3> QED
      BY <3>1, <3>2
  <2> QED
    BY <2>4, <2>5
<1>6. ASSUME NEW i \in DOMAIN g
      PROVE  LossBefore(g, Day(g[i].entryTime), g[i].entryTime) < MaxDailyLoss
  <2> DEFINE day == Day(g[i].entryTime)
             Known(k) == {j \in ExitsOn(k, day) : k[j].exitTime <= g[i].entryTime}
  <2>1. /\ ExitsOn(g, day) = ExitsOn(h, day) \cup
             (IF Day(t.exitTime) = day /\ t.reason # "EndOfData" THEN {n} ELSE {})
        /\ ExitsOn(h, day) \subseteq DOMAIN h /\ n \notin ExitsOn(h, day)
        /\ IsFiniteSet(ExitsOn(h, day))
    BY <1>1, <1>2, DayLists
  <2>2. n \in ExitsOn(g, day) => t.exitTime > g[i].entryTime
    <3>1. t.entryTime \in Nat /\ t.exitTime \in Nat
      BY TradeFields
    <3>2. CASE i = n
      BY <1>3, <2>1, <3>1, <3>2
    <3>3. CASE i \in DOMAIN h
      <4>1. /\ g[i] = h[i] /\ h[i].entryTime \in Nat /\ h[i].exitTime \in Nat
            /\ h[i].entryTime < h[i].exitTime /\ h[i].exitTime <= t.entryTime
        BY <1>3, <3>3, TradeFields
      <4> QED
        BY <3>1, <4>1
    <3> QED
      BY <1>3, <3>2, <3>3
  <2>3. Known(g) = Known(h)
    <3>1. g[n] = t /\ t.exitTime \in Nat /\ g[i].entryTime \in Nat
      BY <1>3, TradeFields
    <3>2. n \notin Known(g)
      BY <2>2, <3>1
    <3>3. \A j \in DOMAIN h : g[j] = h[j]
      BY <1>3
    <3> QED
      BY <2>1, <3>2, <3>3
  <2>4. LossBefore(g, day, g[i].entryTime) = LossOf(h, Known(h))
    <3>1. IsFiniteSet(Known(h)) /\ \A j \in Known(h) : g[j] = h[j]
      BY <1>3, <2>1, FS_Subset
    <3>2. LossOf(g, Known(h)) = LossOf(h, Known(h))
      <4> HIDE DEF Known
      <4> QED
        BY <3>1, LossSame
    <3>3. LossBefore(g, day, g[i].entryTime) = LossOf(g, Known(g))
      BY DEF LossBefore
    <3> QED
      BY <2>3, <3>2, <3>3
  <2>5. CASE i = n
    <3>1. Known(h) = ExitsOn(h, day)
      BY <1>3, <2>1, <2>5
    <3> QED
      BY <1>3, <2>4, <2>5, <3>1 DEF TotalLoss
  <2>6. CASE i \in DOMAIN h
    <3>1. g[i] = h[i]
      BY <1>3, <2>6
    <3>2. LossBefore(h, Day(h[i].entryTime), h[i].entryTime) < MaxDailyLoss
      BY <2>6 DEF LimitsKept
    <3>3. LossBefore(h, Day(h[i].entryTime), h[i].entryTime) = LossOf(h, Known(h))
      BY <3>1 DEF LossBefore
    <3> QED
      BY <2>4, <3>2, <3>3
  <2> QED
    BY <1>3, <2>5, <2>6
<1> QED
  BY <1>1, <1>4, <1>5, <1>6 DEF LimitsKept

\* What makes a record a book.
LEMMA BookBuilt ==
  ASSUME NEW r,
         r = [capital |-> r.capital, position |-> r.position, trades |-> r.trades,
              closedAt |-> r.closedAt, date |-> r.date, takenToday |-> r.takenToday,
              lossToday |-> r.lossToday],
         r.capital \in Int, r.position \in Positions \cup {None}, r.trades \in Seq(Positions),
         r.closedAt \in Nat \cup {None}, r.date \in Nat \cup {None},
         r.takenToday \in Nat, r.lossToday \in Int
  PROVE  r \in Books
<1>1. PICK P : P = Positions \cup {None}
  OBVIOUS
<1>2. PICK T : T = Seq(Positions)
  OBVIOUS
<1>3. Books = [capital : Int, position : P, trades : T, closedAt : Nat \cup {None},
               date : Nat \cup {None}, takenToday : Nat, lossToday : Int]
  BY <1>1, <1>2 DEF Books
<1>4. r.position \in P /\ r.trades \in T
  BY <1>1, <1>2
<1> QED
  BY <1>3, <1>4

\* What a position loses when it is closed no lower than its stop.
LEMMA LossBounded ==
  ASSUME NEW d \in Int, NEW q \in Nat, d >= -StopDistance
  PROVE  -(d * q) <= StopDistance * q /\ d * q \in Int
<1>1. PICK s \in Nat : s = StopDistance
  BY BacktestAssumption
<1>2. PICK m \in Nat : m = d + s
  BY <1>1
<1>3. m * q \in Nat /\ (m - s) * q = m * q - s * q /\ s * q \in Nat
  BY SMTT(30)
<1>4. m - s = d
  BY <1>1, <1>2
<1>5. d * q = m * q - s * q
  BY <1>3, <1>4, Zenon
<1> QED
  BY <1>1, <1>3, <1>5

\* A position closed no lower than its stop is a trade that loses its share at most.
LEMMA ClosedTrade ==
  ASSUME NEW b \in Books, NEW p \in Positions, b.position = p, RoomForTrade(b),
         NEW time \in Nat, NEW price \in Int, price >= p.stop,
         NEW reason \in {"StopLoss", "Target", "EndOfDay", "EndOfData"}
  PROVE  LET t == Close(p, time, price, reason)
         IN /\ t \in Positions /\ t.entryTime = p.entryTime /\ t.exitTime = time
            /\ t.reason = reason /\ t.pnl = (price - p.entry) * p.quantity
            /\ -100 * t.pnl <= RiskPercent * b.capital
<1> DEFINE t == Close(p, time, price, reason)
           d == price - p.entry
<1>1. /\ p.entryTime \in Nat /\ p.entry \in Int /\ p.stop \in Int /\ p # None /\ p.quantity \in Int
  BY TradeFields
<1>2. /\ p.stop = p.entry - StopDistance /\ p.quantity \in Nat
      /\ 100 * (StopDistance * p.quantity) <= RiskPercent * b.capital
  BY <1>1 DEF RoomForTrade
<1>3. d \in Int /\ d >= -StopDistance /\ StopDistance \in Nat
  BY <1>1, <1>2, BacktestAssumption
<1>4. -(d * p.quantity) <= StopDistance * p.quantity /\ d * p.quantity \in Int
  BY <1>2, <1>3, LossBounded
<1>5. t = [p EXCEPT !.exitTime = time, !.exit = price, !.reason = reason, !.pnl = d * p.quantity]
  BY DEF Close
<1>6. /\ t \in Positions /\ t.entryTime = p.entryTime /\ t.exitTime = time
      /\ t.reason = reason /\ t.pnl = d * p.quantity
  <2> HIDE DEF t, d
  <2> QED
    BY <1>4, <1>5 DEF Positions
<1>7. -100 * t.pnl <= RiskPercent * b.capital
  <2>1. StopDistance * p.quantity \in Int /\ RiskPercent * b.capital \in Int
    BY <1>1, BacktestAssumption, BookFields
  <2>2. PICK x \in Int : x = d * p.quantity
    BY <1>4
  <2>3. t.pnl = x
    BY <1>6, <2>2
  <2> HIDE DEF t, d
  <2> QED
    BY <1>2, <1>4, <2>1, <2>2, <2>3
<1> QED
  BY <1>6, <1>7

\* No trade belongs to a day that begins after the last candle.
LEMMA NoExitsYet ==
  ASSUME NEW b \in Books, NEW last \in Nat, NEW time \in Nat, last < time,
         InOrder(b.trades, last), Day(last) # Day(time) \/ b.trades = <<>>
  PROVE  ExitsOn(b.trades, Day(time)) = {} /\ EntriesOn(b.trades, Day(time)) = {}
<1> DEFINE h == b.trades
<1>1. ASSUME NEW i \in DOMAIN h, Day(last) # Day(time)
      PROVE  Day(h[i].exitTime) # Day(time) /\ Day(h[i].entryTime) # Day(time)
  <2>1. h[i] \in Positions
    BY BookFields
  <2>2. /\ h[i].entryTime \in Nat /\ h[i].exitTime \in Nat
        /\ h[i].entryTime <= last /\ h[i].exitTime <= last
    BY <2>1, TradeFields DEF InOrder
  <2>3. PICK entered \in Nat : entered = h[i].entryTime
    BY <2>2
  <2>4. PICK left \in Nat : left = h[i].exitTime
    BY <2>2
  <2>5. entered <= last /\ left <= last /\ last <= time
    BY <2>2, <2>3, <2>4
  <2>6. /\ Day(entered) <= Day(last) /\ Day(left) <= Day(last) /\ Day(last) <= Day(time)
        /\ Day(last) \in Nat /\ Day(time) \in Nat /\ Day(entered) \in Nat /\ Day(left) \in Nat
    BY <2>5, DayMoves
  <2> QED
    BY <1>1, <2>3, <2>4, <2>6
<1>2. h = <<>> => DOMAIN h = {}
  BY BookFields
<1> QED
  BY <1>1, <1>2 DEF ExitsOn, EntriesOn

\* No trades, no loss and no count.
LEMMA NothingLost ==
  ASSUME NEW h
  PROVE  LossOf(h, {}) = 0 /\ Cardinality({}) = 0
<1>1. LossOf(h, {}) = 0
  BY LossFacts, FS_EmptySet
<1> QED
  BY <1>1, FS_EmptySet

\* The day rolls: what was counted for another day is not counted for this one.
LEMMA RollKeeps ==
  ASSUME NEW b, NEW last \in CandleSet, NEW c \in CandleSet, last.time < c.time, BookOK(b, last)
  PROVE  Rolled(RollDay(b, c), c)
<1>1. /\ b \in Books /\ InOrder(b.trades, last.time) /\ LimitsKept(b.trades)
      /\ Counted(b) /\ RoomForTrade(b) /\ HeldThrough(b, last)
      /\ b.date # None => b.date = Day(last.time)
  BY DEF BookOK
<1>2. last.time \in Nat /\ c.time \in Nat /\ Day(c.time) \in Nat /\ Day(c.time) # None
      /\ Day(last.time) \in Nat /\ Day(last.time) # None
  BY DayMoves, BacktestAssumption DEF CandleSet
<1>3. InOrder(b.trades, c.time)
  <2>1. \A i \in DOMAIN b.trades : b.trades[i].exitTime \in Nat
    BY <1>1, BookFields, TradeFields
  <2> QED
    BY <1>1, <1>2, <2>1 DEF InOrder
<1>4. b.position # None => b.position.entryTime < c.time
  <2>1. b.position # None => b.position.entryTime \in Nat
    BY <1>1, BookFields, TradeFields
  <2> QED
    BY <1>1, <1>2, <2>1 DEF HeldThrough
<1>5. CASE b.date = Day(c.time)
  <2>1. RollDay(b, c) = b
    BY <1>5 DEF RollDay
  <2> QED
    BY <1>1, <1>3, <1>4, <1>5, <2>1 DEF Rolled
<1>6. CASE b.date # Day(c.time)
  <2>1. PICK r : r = RollDay(b, c)
    OBVIOUS
  <2>2. r = [b EXCEPT !.date = Day(c.time), !.takenToday = 0, !.lossToday = 0]
    BY <1>6, <2>1 DEF RollDay
  <2>3. /\ r \in Books /\ r.capital = b.capital /\ r.position = b.position /\ r.trades = b.trades
        /\ r.closedAt = b.closedAt /\ r.date = Day(c.time) /\ r.takenToday = 0 /\ r.lossToday = 0
    <3>1. PICK day \in Nat : day = Day(c.time)
      BY <1>2
    <3>2. r = [b EXCEPT !.date = day, !.takenToday = 0, !.lossToday = 0]
      BY <2>2, <3>1
    <3>3. r = [capital |-> b.capital, position |-> b.position, trades |-> b.trades,
               closedAt |-> b.closedAt, date |-> day, takenToday |-> 0, lossToday |-> 0]
      BY <1>1, <3>2 DEF Books
    <3>4. /\ r.capital = b.capital /\ r.position = b.position /\ r.trades = b.trades
          /\ r.closedAt = b.closedAt /\ r.date = day /\ r.takenToday = 0 /\ r.lossToday = 0
      BY <3>3
    <3>5. r = [capital |-> r.capital, position |-> r.position, trades |-> r.trades,
               closedAt |-> r.closedAt, date |-> r.date, takenToday |-> r.takenToday,
               lossToday |-> r.lossToday]
      BY <3>3
    <3>6. r \in Books
      BY <1>1, <3>4, <3>5, BookFields, BookBuilt
    <3> QED
      BY <3>1, <3>4, <3>6
  <2>4. Day(last.time) # Day(c.time) \/ b.trades = <<>>
    BY <1>1, <1>6 DEF Counted
  <2>5. ExitsOn(b.trades, Day(c.time)) = {}
    BY <1>1, <1>2, <2>4, NoExitsYet
  <2>6. Counted(r)
    <3>1. TotalLoss(b.trades, Day(c.time)) = 0 /\ Cardinality(ExitsOn(b.trades, Day(c.time))) = 0
      BY <2>5, NothingLost DEF TotalLoss
    <3> QED
      BY <1>1, <1>2, <2>3, <3>1 DEF Counted
  <2>7. RoomForTrade(r)
    <3>1. 0 < MaxTradesPerDay
      BY BacktestAssumption
    <3> QED
      BY <1>1, <2>3, <3>1 DEF RoomForTrade
  <2> QED
    BY <1>1, <1>3, <1>4, <2>1, <2>3, <2>6, <2>7 DEF Rolled
<1> QED
  BY <1>5, <1>6

\* What the trades have made, with one more.
LEMMA PnlAppended ==
  ASSUME NEW h \in Seq(Positions), NEW t \in Positions
  PROVE  /\ PnlBefore(h, Len(h) + 1) \in Int
         /\ PnlBefore(Append(h, t), Len(Append(h, t)) + 1) = PnlBefore(h, Len(h) + 1) + t.pnl
<1>1. PICK g : g = Append(h, t)
  OBVIOUS
<1>2. PICK m : m = Len(h)
  OBVIOUS
<1>3. /\ m \in Nat /\ Len(g) = m + 1 /\ g[m + 1] = t
      /\ \A k \in 1 .. m : g[k] = h[k]
      /\ \A k \in 1 .. m + 1 : g[k] \in Positions
  BY <1>1, <1>2, Appended
<1>4. /\ PnlBefore(g, m + 1) \in Int
      /\ PnlBefore(g, m + 1 + 1) = PnlBefore(g, m + 1) + g[m + 1].pnl
  BY <1>3, PnlAdds
<1>5. PnlBefore(g, m + 1) = PnlBefore(h, m + 1)
  BY <1>3, PnlSame
<1> QED
  BY <1>1, <1>2, <1>3, <1>4, <1>5

\* An exit makes the open position the next trade.
LEMMA TradeBooked ==
  ASSUME NEW b, NEW c \in CandleSet, Rolled(b, c), b.position # None,
         NEW price \in Int, price >= b.position.stop,
         NEW reason \in {"StopLoss", "Target", "EndOfDay"}
  PROVE  BookOK(BookExit(b, Close(b.position, c.time, price, reason)), c)
<1> DEFINE h == b.trades
<1>1. /\ b \in Books /\ InOrder(h, c.time) /\ LimitsKept(h)
      /\ Counted(b) /\ RoomForTrade(b) /\ b.date = Day(c.time)
      /\ b.position # None => b.position.entryTime < c.time
  BY DEF Rolled
<1>2. PICK p : p = b.position
  OBVIOUS
<1>3. p \in Positions /\ p # None /\ p.entryTime < c.time
  BY <1>1, <1>2, BookFields
<1>4. c.time \in Nat /\ Day(c.time) \in Nat /\ Day(c.time) # None
  BY DayMoves, BacktestAssumption DEF CandleSet
<1>5. PICK t : t = Close(p, c.time, price, reason)
  OBVIOUS
<1>6. /\ t \in Positions /\ t.entryTime = p.entryTime /\ t.exitTime = c.time
      /\ t.reason = reason /\ -100 * t.pnl <= RiskPercent * b.capital
  BY <1>1, <1>2, <1>3, <1>4, <1>5, ClosedTrade
<1>7. t.pnl \in Int /\ p.entryTime \in Nat /\ t.reason # "EndOfData"
  BY <1>3, <1>6, TradeFields
<1>8. /\ \A i \in DOMAIN h : h[i].exitTime <= p.entryTime
      /\ h # <<>> => p.entryTime - h[Len(h)].exitTime >= CooldownMinutes
      /\ b.takenToday < MaxTradesPerDay
      /\ Cardinality(EntriesOn(h, Day(p.entryTime))) < MaxTradesPerDay
      /\ TotalLoss(h, Day(p.entryTime)) < MaxDailyLoss
  BY <1>1, <1>2, <1>3 DEF RoomForTrade
<1>9. /\ b.capital = InitialCapital + PnlBefore(h, Len(h) + 1)
      /\ b.takenToday = Cardinality(ExitsOn(h, Day(c.time)))
      /\ b.lossToday = TotalLoss(h, Day(c.time))
  BY <1>1, <1>4 DEF Counted
<1>10. PICK g : g = Append(h, t)
  OBVIOUS
<1>11. PICK n : n = Len(h) + 1
  OBVIOUS
<1>12. h \in Seq(Positions)
  BY <1>1, BookFields
<1>13. /\ g \in Seq(Positions) /\ Len(g) = n /\ DOMAIN g = DOMAIN h \cup {n} /\ n \notin DOMAIN h
       /\ g[n] = t /\ g # <<>> /\ \A i \in DOMAIN h : g[i] = h[i] /\ h[i] \in Positions /\ i < n
       /\ n \in Nat /\ DOMAIN h \subseteq Nat
  BY <1>6, <1>10, <1>11, <1>12, Appended
<1>14. InOrder(g, c.time)
  <2>1. ASSUME NEW i \in DOMAIN g
        PROVE  /\ g[i].reason # "EndOfData"
               /\ g[i].entryTime < g[i].exitTime /\ g[i].exitTime <= c.time
    <3>1. CASE i = n
      BY <1>3, <1>4, <1>6, <1>7, <1>13, <3>1
    <3>2. CASE i \in DOMAIN h
      BY <1>1, <1>13, <3>2 DEF InOrder
    <3> QED
      BY <1>13, <3>1, <3>2
  <2>2. ASSUME NEW i \in DOMAIN g, NEW j \in DOMAIN g, i < j
        PROVE  g[i].exitTime <= g[j].entryTime
    <3>1. i \in DOMAIN h
      <4>1. i # n
        BY <1>13, <2>2
      <4> QED
        BY <1>13, <4>1
    <3>2. CASE j = n
      BY <1>6, <1>8, <1>13, <3>1, <3>2
    <3>3. CASE j \in DOMAIN h
      BY <1>1, <1>13, <2>2, <3>1, <3>3 DEF InOrder
    <3> QED
      BY <1>13, <3>2, <3>3
  <2> QED
    BY <2>1, <2>2 DEF InOrder
<1>15. LimitsKept(g)
  <2>1. \A i \in DOMAIN h : /\ h[i].reason # "EndOfData" /\ h[i].entryTime < h[i].exitTime
                            /\ h[i].exitTime <= t.entryTime
    BY <1>1, <1>6, <1>8 DEF InOrder
  <2>2. t.entryTime < t.exitTime /\ t.entryTime <= t.exitTime
    BY <1>3, <1>4, <1>6, <1>7
  <2>3. /\ h # <<>> => t.entryTime - h[Len(h)].exitTime >= CooldownMinutes
        /\ -100 * t.pnl <= RiskPercent * (InitialCapital + PnlBefore(h, Len(h) + 1))
        /\ Cardinality(EntriesOn(h, Day(t.entryTime))) < MaxTradesPerDay
        /\ Cardinality(ExitsOn(h, Day(t.exitTime))) < MaxTradesPerDay
        /\ TotalLoss(h, Day(t.entryTime)) < MaxDailyLoss
    BY <1>6, <1>8, <1>9
  <2> HIDE DEF h
  <2> QED
    BY <1>1, <1>6, <1>10, <1>12, <2>1, <2>2, <2>3, LimitsStay
<1>16. PICK e : e = BookExit(b, t)
  OBVIOUS
<1>17. /\ e \in Books /\ e.capital = b.capital + t.pnl /\ e.position = None /\ e.trades = g
       /\ e.closedAt = c.time /\ e.date = b.date /\ e.takenToday = b.takenToday + 1
       /\ e.lossToday = b.lossToday + HigherOf(0, -t.pnl)
  <2>1. e = [b EXCEPT !.capital = b.capital + t.pnl, !.trades = g, !.closedAt = t.exitTime,
                      !.position = None, !.takenToday = b.takenToday + 1,
                      !.lossToday = b.lossToday + HigherOf(0, -t.pnl)]
    BY <1>1, <1>10, <1>16 DEF BookExit, Books
  <2>2. e = [capital |-> b.capital + t.pnl, position |-> None, trades |-> g,
             closedAt |-> t.exitTime, date |-> b.date, takenToday |-> b.takenToday + 1,
             lossToday |-> b.lossToday + HigherOf(0, -t.pnl)]
    BY <1>1, <2>1 DEF Books
  <2>3. /\ e.capital = b.capital + t.pnl /\ e.position = None /\ e.trades = g
        /\ e.closedAt = t.exitTime /\ e.date = b.date /\ e.takenToday = b.takenToday + 1
        /\ e.lossToday = b.lossToday + HigherOf(0, -t.pnl)
    BY <2>2
  <2>4. e = [capital |-> e.capital, position |-> e.position, trades |-> e.trades,
             closedAt |-> e.closedAt, date |-> e.date, takenToday |-> e.takenToday,
             lossToday |-> e.lossToday]
    BY <2>2
  <2>5. /\ e.capital \in Int /\ e.takenToday \in Nat /\ e.lossToday \in Int
        /\ e.date \in Nat \cup {None} /\ e.closedAt \in Nat \cup {None}
    <3>1. b.capital \in Int /\ b.takenToday \in Nat /\ b.lossToday \in Int
          /\ HigherOf(0, -t.pnl) \in Int /\ b.date \in Nat \cup {None}
      BY <1>1, <1>7, BookFields DEF HigherOf
    <3> QED
      BY <1>4, <1>6, <1>7, <2>3, <3>1
  <2>6. e \in Books
    BY <1>13, <2>3, <2>4, <2>5, BookBuilt
  <2> QED
    BY <1>6, <2>3, <2>6
<1>18. Counted(e)
  <2> DEFINE D == ExitsOn(h, Day(c.time))
  <2>1. ExitsOn(g, Day(c.time)) = D \cup {n} /\ n \notin D /\ D \subseteq DOMAIN h /\ IsFiniteSet(D)
    BY <1>6, <1>7, <1>10, <1>11, <1>12, DayLists
  <2>2. /\ \A k \in D \cup {n} : g[k] \in Positions
        /\ \A k \in D : g[k] = h[k]
    BY <1>6, <1>13, <2>1
  <2>3. e.capital = InitialCapital + PnlBefore(g, Len(g) + 1)
    <3>1. PnlBefore(h, Len(h) + 1) \in Int
          /\ PnlBefore(g, Len(g) + 1) = PnlBefore(h, Len(h) + 1) + t.pnl
      <4> HIDE DEF h
      <4> QED
        BY <1>6, <1>10, <1>12, PnlAppended
    <3> QED
      BY <1>7, <1>9, <1>17, <3>1, BacktestAssumption
  <2>4. b.takenToday + 1 = Cardinality(D \cup {n})
    <3> HIDE DEF D
    <3>1. Cardinality(D \cup {n}) = Cardinality(D) + 1
      BY <2>1, FS_AddElement
    <3> QED
      BY <1>9, <3>1 DEF D
  <2>5. b.lossToday + HigherOf(0, -t.pnl) = LossOf(g, D \cup {n})
    <3>1. b.lossToday = LossOf(h, D)
      BY <1>9 DEF TotalLoss
    <3> HIDE DEF D
    <3>2. LossOf(g, D \cup {n}) = LossOf(g, D) + HigherOf(0, -g[n].pnl)
      BY <2>1, <2>2, LossAdds
    <3>3. LossOf(g, D) = LossOf(h, D)
      BY <2>1, <2>2, LossSame
    <3> QED
      BY <1>13, <3>1, <3>2, <3>3
  <2>6. /\ e.takenToday = Cardinality(ExitsOn(g, e.date))
        /\ e.lossToday = TotalLoss(g, e.date) /\ e.date # None
    BY <1>1, <1>4, <1>17, <2>1, <2>4, <2>5 DEF TotalLoss
  <2>7. g # <<>> /\ e.closedAt = g[Len(g)].exitTime
    BY <1>6, <1>13, <1>17
  <2> QED
    BY <1>17, <2>3, <2>6, <2>7 DEF Counted
<1>19. RoomForTrade(e) /\ HeldThrough(e, c)
  BY <1>17 DEF RoomForTrade, HeldThrough
<1> QED
  BY <1>1, <1>2, <1>5, <1>14, <1>15, <1>16, <1>17, <1>18, <1>19 DEF BookOK

\* A candle closes the open position or leaves it above its stop.
LEMMA ExitKeeps ==
  ASSUME NEW b, NEW c \in CandleSet, c.low <= c.close, Rolled(b, c)
  PROVE  BookOK(Exit(b, c), c)
<1>1. /\ b \in Books /\ InOrder(b.trades, c.time) /\ LimitsKept(b.trades)
      /\ Counted(b) /\ RoomForTrade(b) /\ b.date = Day(c.time)
      /\ b.position # None => b.position.entryTime < c.time
  BY DEF Rolled
<1>2. c.time \in Nat /\ c.low \in Int /\ c.close \in Int /\ Day(c.time) # None
  BY DayMoves, BacktestAssumption DEF CandleSet
<1>3. CASE b.position = None
  <2>1. Exit(b, c) = b
    BY <1>3 DEF Exit
  <2> QED
    BY <1>1, <1>3, <2>1 DEF BookOK, HeldThrough
<1>4. CASE b.position # None
  <2>1. PICK p : p = b.position
    OBVIOUS
  <2>2. p \in Positions /\ p # None
    BY <1>1, <1>4, <2>1, BookFields
  <2>3. /\ p.stop = p.entry - StopDistance /\ p.target = p.entry + TargetDistance
        /\ p.stop \in Int /\ p.target \in Int /\ p.stop <= p.target
    <3>1. p.stop = p.entry - StopDistance /\ p.target = p.entry + TargetDistance
      BY <1>1, <2>1, <2>2 DEF RoomForTrade
    <3>2. p.entry \in Int /\ p.stop \in Int /\ p.target \in Int
      BY <2>2, TradeFields
    <3>3. StopDistance \in Nat /\ TargetDistance \in Nat
      BY BacktestAssumption
    <3> QED
      BY <3>1, <3>2, <3>3
  <2>4. ASSUME NEW price \in Int, price >= p.stop, NEW reason \in {"StopLoss", "Target", "EndOfDay"},
               CheckExit(p, c) = Close(p, c.time, price, reason)
        PROVE  BookOK(Exit(b, c), c)
    <3>1. Close(p, c.time, price, reason) # None
      BY <1>1, <1>2, <2>1, <2>2, <2>4, ClosedTrade, TradeFields
    <3>2. Exit(b, c) = BookExit(b, Close(p, c.time, price, reason))
      BY <1>4, <2>1, <2>4, <3>1 DEF Exit
    <3> QED
      BY <1>4, <2>1, <2>4, <3>2, TradeBooked
  <2>5. CASE c.low <= p.stop
    <3>1. CheckExit(p, c) = Close(p, c.time, p.stop, "StopLoss")
      BY <2>5 DEF CheckExit
    <3> QED
      BY <2>3, <2>4, <3>1
  <2>6. CASE ~(c.low <= p.stop) /\ c.high >= p.target
    <3>1. CheckExit(p, c) = Close(p, c.time, p.target, "Target")
      BY <2>6 DEF CheckExit
    <3> QED
      BY <2>3, <2>4, <3>1
  <2>7. CASE ~(c.low <= p.stop) /\ ~(c.high >= p.target) /\ Minute(c.time) >= MarketClose
    <3>1. CheckExit(p, c) = Close(p, c.time, c.close, "EndOfDay")
      BY <2>7 DEF CheckExit
    <3>2. c.close >= p.stop
      BY <1>2, <2>3, <2>7
    <3> QED
      BY <1>2, <2>3, <2>4, <3>1, <3>2
  <2>8. CASE ~(c.low <= p.stop) /\ ~(c.high >= p.target) /\ ~(Minute(c.time) >= MarketClose)
    <3>1. CheckExit(p, c) = None
      BY <2>8 DEF CheckExit
    <3>2. Exit(b, c) = b
      BY <1>4, <2>1, <3>1 DEF Exit
    <3>3. p.entryTime \in Nat /\ p.entryTime < c.time /\ p.stop <= c.close
      BY <1>1, <1>2, <1>4, <2>1, <2>2, <2>3, <2>8, TradeFields
    <3>4. HeldThrough(b, c)
      BY <1>1, <1>2, <2>1, <3>3 DEF HeldThrough
    <3> QED
      BY <1>1, <3>2, <3>4 DEF BookOK
  <2> QED
    BY <2>5, <2>6, <2>7, <2>8
<1> QED
  BY <1>3, <1>4

\* An exit does not move the day, and a book that holds nothing has none.
LEMMA ExitSameDay ==
  ASSUME NEW b \in Books, NEW c
  PROVE  Exit(b, c).date = b.date /\ (b.position = None => Exit(b, c) = b)
BY DEF Exit, BookExit, Books

\* The size of a position is what the capital at risk pays for.
LEMMA SizeFits ==
  ASSUME NEW capital \in Int
  PROVE  /\ PositionSize(capital) \in Int
         /\ 100 * (StopDistance * PositionSize(capital)) <= RiskPercent * capital
<1>1. PICK s \in Nat : s = StopDistance /\ s > 0
  BY BacktestAssumption
<1>2. PICK d \in Nat : d = 100 * s /\ d > 0
  BY <1>1
<1>3. PICK a \in Int : a = capital * RiskPercent
  BY BacktestAssumption
<1>4. PICK q \in Int : q = a \div d
  BY <1>2
<1>5. d * q <= a
  BY <1>2, <1>4, SMTT(30)
<1>6. PositionSize(capital) = q
  BY <1>1, <1>2, <1>3, <1>4 DEF PositionSize
<1>7. 100 * (s * q) = d * q
  BY <1>1, <1>2, SMTT(30)
<1>8. RiskPercent * capital = a
  BY <1>3, BacktestAssumption
<1> QED
  BY <1>1, <1>5, <1>6, <1>7, <1>8

\* An entry is made within the limits of the day, on which all it can follow is counted.
LEMMA EnterKeeps ==
  ASSUME NEW b, NEW c \in CandleSet, BookOK(b, c), b.date = Day(c.time), b.position = None,
         CanTrade(b, c), RiskOk(b, c)
  PROVE  BookOK([b EXCEPT !.position = BuildOpenPosition(b, c)], c)
<1> DEFINE h == b.trades
           day == Day(c.time)
<1>1. /\ b \in Books /\ InOrder(h, c.time) /\ LimitsKept(h) /\ Counted(b)
  BY DEF BookOK
<1>2. c.time \in Nat /\ c.close \in Int /\ day \in Nat /\ day # None
  BY DayMoves, BacktestAssumption DEF CandleSet
<1>3. PICK p : p = BuildOpenPosition(b, c)
  OBVIOUS
<1>4. PICK q : q = PositionSize(b.capital)
  OBVIOUS
<1>5. q \in Int /\ 100 * (StopDistance * q) <= RiskPercent * b.capital /\ q >= 1
  <2>1. b.capital \in Int
    BY <1>1, BookFields
  <2> QED
    BY <1>4, <2>1, SizeFits DEF RiskOk
<1>6. StopDistance \in Nat /\ TargetDistance \in Nat /\ MaxTradesPerDay \in Nat
  BY BacktestAssumption
<1>7. p = [entryTime |-> c.time, entry |-> c.close, exitTime |-> c.time, exit |-> c.close,
           stop |-> c.close - StopDistance, target |-> c.close + TargetDistance,
           quantity |-> q, reason |-> "Open", pnl |-> 0]
  BY <1>3, <1>4 DEF BuildOpenPosition
<1>8. /\ p \in Positions /\ p.entryTime = c.time /\ p.entry = c.close /\ p.quantity = q
      /\ p.stop = p.entry - StopDistance /\ p.target = p.entry + TargetDistance
  BY <1>2, <1>5, <1>6, <1>7 DEF Positions
<1>9. PICK e : e = [b EXCEPT !.position = p]
  OBVIOUS
<1>10. /\ e \in Books /\ e.capital = b.capital /\ e.position = p /\ e.trades = h
       /\ e.closedAt = b.closedAt /\ e.date = b.date /\ e.takenToday = b.takenToday
       /\ e.lossToday = b.lossToday
  <2>1. e = [capital |-> b.capital, position |-> p, trades |-> h, closedAt |-> b.closedAt,
             date |-> b.date, takenToday |-> b.takenToday, lossToday |-> b.lossToday]
    BY <1>1, <1>9 DEF Books
  <2>2. /\ e.capital = b.capital /\ e.position = p /\ e.trades = h
        /\ e.closedAt = b.closedAt /\ e.date = b.date /\ e.takenToday = b.takenToday
        /\ e.lossToday = b.lossToday
    BY <2>1
  <2>3. e = [capital |-> e.capital, position |-> e.position, trades |-> e.trades,
             closedAt |-> e.closedAt, date |-> e.date, takenToday |-> e.takenToday,
             lossToday |-> e.lossToday]
    BY <2>1
  <2>4. e \in Books
    BY <1>1, <1>8, <2>2, <2>3, BookFields, BookBuilt
  <2> QED
    BY <2>2, <2>4
<1>11. Counted(e)
  BY <1>1, <1>10 DEF Counted
<1>12. \A i \in DOMAIN h : /\ h[i].entryTime \in Nat /\ h[i].exitTime \in Nat
                           /\ h[i].entryTime < h[i].exitTime /\ h[i].exitTime <= c.time
                           /\ h[i].reason # "EndOfData"
  BY <1>1, BookFields, TradeFields DEF InOrder
<1>13. EntriesOn(h, day) \subseteq ExitsOn(h, day)
  <2> SUFFICES ASSUME NEW i \in DOMAIN h, Day(h[i].entryTime) = day
               PROVE  Day(h[i].exitTime) = day /\ h[i].reason # "EndOfData"
    BY DEF EntriesOn, ExitsOn
  <2>1. PICK entered \in Nat : entered = h[i].entryTime
    BY <1>12
  <2>2. PICK left \in Nat : left = h[i].exitTime
    BY <1>12
  <2>3. entered <= left /\ left <= c.time
    BY <1>12, <2>1, <2>2
  <2>4. Day(entered) <= Day(left) /\ Day(left) <= Day(c.time) /\ Day(left) \in Nat
    BY <1>2, <2>3, DayMoves
  <2> QED
    BY <1>2, <1>12, <2>1, <2>2, <2>4
<1>14. IsFiniteSet(ExitsOn(h, day))
  <2>1. h \in Seq(Positions)
    BY <1>1, BookFields
  <2> HIDE DEF h, day
  <2> QED
    BY <1>8, <2>1, DayLists
<1>15. /\ b.takenToday < MaxTradesPerDay /\ b.lossToday < MaxDailyLoss
       /\ b.takenToday = Cardinality(ExitsOn(h, day)) /\ b.lossToday = TotalLoss(h, day)
  BY <1>1, <1>2 DEF RiskOk, Counted
<1>16. Cardinality(EntriesOn(h, day)) < MaxTradesPerDay
  <2> HIDE DEF h, day
  <2>1. /\ IsFiniteSet(EntriesOn(h, day))
        /\ Cardinality(EntriesOn(h, day)) <= Cardinality(ExitsOn(h, day))
    BY <1>13, <1>14, FS_Subset
  <2>2. Cardinality(EntriesOn(h, day)) \in Nat /\ Cardinality(ExitsOn(h, day)) \in Nat
    BY <1>14, <2>1, FS_CardinalityType
  <2> QED
    BY <1>6, <1>15, <2>1, <2>2
<1>17. h # <<>> => p.entryTime - h[Len(h)].exitTime >= CooldownMinutes
  <2> SUFFICES ASSUME h # <<>>
               PROVE  p.entryTime - h[Len(h)].exitTime >= CooldownMinutes
    OBVIOUS
  <2>1. b.closedAt = h[Len(h)].exitTime
    BY <1>1 DEF Counted
  <2>2. h \in Seq(Positions) /\ Len(h) \in DOMAIN h
    BY <1>1, BookFields
  <2>3. b.closedAt # None
    BY <1>12, <2>1, <2>2, BacktestAssumption
  <2> QED
    BY <1>8, <2>1, <2>3 DEF CanTrade
<1>18. RoomForTrade(e)
  <2>1. p.quantity \in Nat /\ 100 * (StopDistance * p.quantity) <= RiskPercent * e.capital
    BY <1>5, <1>8, <1>10
  <2>2. \A i \in DOMAIN h : h[i].exitTime <= p.entryTime
    BY <1>8, <1>12
  <2> QED
    BY <1>8, <1>10, <1>15, <1>16, <1>17, <2>1, <2>2 DEF RoomForTrade
<1>19. HeldThrough(e, c)
  <2>1. p.stop <= c.close /\ p.entryTime <= c.time
    BY <1>2, <1>6, <1>8
  <2> QED
    BY <1>2, <1>8, <1>10, <2>1 DEF HeldThrough
<1> QED
  BY <1>1, <1>3, <1>9, <1>10, <1>11, <1>18, <1>19 DEF BookOK

\* The book a replay starts with: nothing traded, nothing counted.
LEMMA NewBookFacts ==
  /\ NewBook \in Books /\ NewBook.position = None /\ NewBook.trades = <<>>
  /\ NewBook.date = None /\ LimitsKept(NewBook.trades) /\ Counted(NewBook)
  /\ \A now : InOrder(NewBook.trades, now)
<1>1. PICK b : b = NewBook
  OBVIOUS
<1>2. b = [capital |-> InitialCapital, position |-> None, trades |-> <<>>,
           closedAt |-> None, date |-> None, takenToday |-> 0, lossToday |-> 0]
  BY <1>1 DEF NewBook
<1>3. /\ b.capital = InitialCapital /\ b.position = None /\ b.trades = <<>> /\ b.closedAt = None
      /\ b.date = None /\ b.takenToday = 0 /\ b.lossToday = 0
      /\ b = [capital |-> b.capital, position |-> b.position, trades |-> b.trades,
              closedAt |-> b.closedAt, date |-> b.date, takenToday |-> b.takenToday,
              lossToday |-> b.lossToday]
  BY <1>2
<1>4. b \in Books
  <2>1. /\ b.capital \in Int /\ b.position \in Positions \cup {None}
        /\ b.trades \in Seq(Positions) /\ b.closedAt \in Nat \cup {None}
        /\ b.date \in Nat \cup {None} /\ b.takenToday \in Nat /\ b.lossToday \in Int
    BY <1>3, BacktestAssumption
  <2> QED
    BY <1>3, <2>1, BookBuilt
<1>5. PICK h : h = b.trades
  OBVIOUS
<1>6. DOMAIN h = {} /\ Len(h) = 0 /\ h = <<>>
  BY <1>3, <1>5
<1>7. LimitsKept(h)
  <2>1. \A day \in Nat : EntriesOn(h, day) = {} /\ ExitsOn(h, day) = {}
    BY <1>6 DEF EntriesOn, ExitsOn
  <2>2. MaxTradesPerDay \in Nat /\ Cardinality({}) = 0
    BY BacktestAssumption, FS_EmptySet
  <2>3. \A day \in Nat : /\ Cardinality(EntriesOn(h, day)) <= MaxTradesPerDay
                        /\ Cardinality(ExitsOn(h, day)) <= MaxTradesPerDay
    <3> SUFFICES ASSUME NEW day \in Nat
                 PROVE  /\ Cardinality(EntriesOn(h, day)) <= MaxTradesPerDay
                        /\ Cardinality(ExitsOn(h, day)) <= MaxTradesPerDay
      OBVIOUS
    <3>1. Cardinality(EntriesOn(h, day)) = 0 /\ Cardinality(ExitsOn(h, day)) = 0
      BY <2>1, <2>2, Zenon
    <3> QED
      BY <2>2, <3>1
  <2> QED
    BY <1>6, <2>3 DEF LimitsKept
<1>8. Counted(b)
  <2>1. PnlBefore(h, 0 + 1) = 0
    <3> DEFINE S == 1 .. 0
               f == [j \in S |-> h[j].pnl]
    <3>1. PnlBefore(h, 0 + 1) = SumOn(f, S)
      BY PnlIs
    <3>2. S = {} /\ IsFiniteSet(S)
      BY FS_EmptySet
    <3> HIDE DEF f, S
    <3>3. SumOn(f, S) = 0
      BY <3>2, SumOnStep
    <3> QED
      BY <3>1, <3>3
  <2>2. b.capital = InitialCapital + PnlBefore(h, Len(h) + 1)
    BY <1>3, <1>6, <2>1, BacktestAssumption
  <2> QED
    BY <1>3, <1>5, <1>6, <2>2 DEF Counted
<1>9. \A now : InOrder(h, now)
  BY <1>6 DEF InOrder
<1> QED
  BY <1>1, <1>3, <1>4, <1>5, <1>7, <1>8, <1>9

\* The starting book is in order whatever candle came last.
LEMMA NewBookOK ==
  ASSUME NEW c
  PROVE  BookOK(NewBook, c)
BY NewBookFacts DEF BookOK, RoomForTrade, HeldThrough

\* The first candle rolls the starting book to its day.
LEMMA NewBookRolls ==
  ASSUME NEW c \in CandleSet
  PROVE  Rolled(RollDay(NewBook, c), c)
<1>1. PICK b : b = NewBook
  OBVIOUS
<1>2. PICK day \in Nat : day = Day(c.time) /\ day # None
  BY DayMoves, BacktestAssumption DEF CandleSet
<1>3. /\ b \in Books /\ b.position = None /\ b.trades = <<>> /\ b.date = None
      /\ LimitsKept(b.trades) /\ Counted(b) /\ InOrder(b.trades, c.time)
  BY <1>1, NewBookFacts
<1>4. PICK r : r = [b EXCEPT !.date = day, !.takenToday = 0, !.lossToday = 0]
  OBVIOUS
<1>5. RollDay(b, c) = r
  BY <1>2, <1>3, <1>4 DEF RollDay
<1>6. r = [capital |-> b.capital, position |-> b.position, trades |-> b.trades,
           closedAt |-> b.closedAt, date |-> day, takenToday |-> 0, lossToday |-> 0]
  BY <1>3, <1>4 DEF Books
<1>7. /\ r.capital = b.capital /\ r.position = None /\ r.trades = b.trades
      /\ r.closedAt = b.closedAt /\ r.date = day /\ r.takenToday = 0 /\ r.lossToday = 0
  BY <1>3, <1>6
<1>8. r = [capital |-> r.capital, position |-> r.position, trades |-> r.trades,
           closedAt |-> r.closedAt, date |-> r.date, takenToday |-> r.takenToday,
           lossToday |-> r.lossToday]
  BY <1>6
<1>9. r \in Books
  BY <1>3, <1>7, <1>8, BookFields, BookBuilt
<1>10. Counted(r)
  <2>1. ExitsOn(b.trades, day) = {}
    BY <1>3 DEF ExitsOn
  <2>2. TotalLoss(b.trades, day) = 0 /\ Cardinality(ExitsOn(b.trades, day)) = 0
    BY <2>1, NothingLost DEF TotalLoss
  <2> QED
    BY <1>2, <1>3, <1>7, <2>2 DEF Counted
<1> QED
  BY <1>1, <1>2, <1>3, <1>5, <1>7, <1>9, <1>10 DEF Rolled, RoomForTrade

\* The candles a replay reads, each later than the last.
LEMMA NextCandle ==
  ASSUME NEW c \in NextCandles
  PROVE  /\ c \in CandleSet /\ c.low <= c.close
         /\ candles # <<>> => c.time > candles[Len(candles)].time
<1>1. PICK t \in Stamps, bar \in Bars :
        /\ c = [time |-> t, low |-> bar.low, high |-> bar.high, close |-> bar.close]
        /\ candles = <<>> \/ t > Last(candles).time
  BY DEF NextCandles
<1>2. t \in Nat /\ bar \in [low : Int, high : Int, close : Int] /\ bar.low <= bar.close
  BY BacktestAssumption
<1> QED
  BY <1>1, <1>2 DEF CandleSet, Last

\* The list of candles, with one more.
LEMMA CandleRead ==
  ASSUME NEW C, NEW cs \in Seq(C), NEW c \in C
  PROVE  /\ Append(cs, c) \in Seq(C)
         /\ Len(Append(cs, c)) = Len(cs) + 1 /\ Len(cs) \in Nat
         /\ Append(cs, c)[Len(Append(cs, c))] = c
         /\ cs # <<>> => cs[Len(cs)] \in C
         /\ cs = <<>> => Len(cs) = 0
OBVIOUS

\* A candle of the warm-up leaves the starting book.
LEMMA WarmUpKeeps ==
  ASSUME BacktestInv, phase = "replay", NEW c \in NextCandles, WarmUp(c)
  PROVE  BacktestInv'
<1>1. /\ Len(candles) < WarmupCandles /\ candles' = Append(candles, c)
      /\ book' = book /\ phase' = phase
  BY DEF WarmUp
<1>2. c \in CandleSet /\ WarmupCandles \in Nat
  BY NextCandle, BacktestAssumption
<1>3. candles \in Seq(CandleSet)
  BY DEF BacktestInv
<1>4. /\ candles' \in Seq(CandleSet) /\ Len(candles') = Len(candles) + 1 /\ Len(candles) \in Nat
      /\ candles'[Len(candles')] = c
  BY <1>1, <1>2, <1>3, CandleRead
<1>5. book = NewBook
  BY <1>1, <1>2, <1>4 DEF BacktestInv
<1>6. BookOK(book', candles'[Len(candles')])
  BY <1>1, <1>4, <1>5, NewBookOK
<1>7. book' \in Books /\ LimitsKept(book'.trades) /\ book' = NewBook
  BY <1>1, <1>5, NewBookFacts
<1> QED
  BY <1>4, <1>6, <1>7 DEF BacktestInv

\* A candle of the replay: the day rolls, a position exits, another may be entered.
LEMMA ReplayKeeps ==
  ASSUME BacktestInv, phase = "replay", NEW c \in NextCandles, NEW setup \in BOOLEAN,
         Replay(c, setup)
  PROVE  BacktestInv'
<1> DEFINE b == Exit(RollDay(book, c), c)
<1>1. /\ Len(candles) >= WarmupCandles /\ Len(candles) \in Nat
      /\ setup => b.position = None /\ CanTrade(b, c) /\ RiskOk(b, c)
      /\ candles' = Append(candles, c)
      /\ book' = IF setup THEN [b EXCEPT !.position = BuildOpenPosition(b, c)] ELSE b
      /\ phase' = phase
  BY BacktestAssumption DEF Replay, BacktestInv
<1>2. c \in CandleSet /\ c.low <= c.close
  BY NextCandle
<1>3. candles \in Seq(CandleSet)
  BY DEF BacktestInv
<1>4. /\ candles' \in Seq(CandleSet) /\ Len(candles') = Len(candles) + 1
      /\ candles'[Len(candles')] = c
      /\ candles # <<>> => candles[Len(candles)] \in CandleSet
      /\ candles = <<>> => Len(candles) = 0
  BY <1>1, <1>2, <1>3, CandleRead
<1>5. Rolled(RollDay(book, c), c)
  <2>1. CASE candles = <<>>
    <3>1. book = NewBook
      BY <1>4, <2>1, BacktestAssumption DEF BacktestInv
    <3> QED
      BY <1>2, <3>1, NewBookRolls
  <2>2. CASE candles # <<>>
    <3>1. PICK last \in CandleSet : last = candles[Len(candles)]
      BY <1>4, <2>2
    <3>2. last.time < c.time
      <4>1. c.time > last.time
        BY <2>2, <3>1, NextCandle
      <4>2. c.time \in Nat /\ last.time \in Nat
        BY <1>2 DEF CandleSet
      <4> QED
        BY <4>1, <4>2
    <3>3. BookOK(book, last)
      BY <2>2, <3>1 DEF BacktestInv
    <3> QED
      BY <1>2, <3>2, <3>3, RollKeeps
  <2> QED
    BY <2>1, <2>2
<1>6. BookOK(b, c)
  BY <1>2, <1>5, ExitKeeps
<1>7. b.date = Day(c.time)
  <2>1. RollDay(book, c) \in Books /\ RollDay(book, c).date = Day(c.time)
    BY <1>5 DEF Rolled
  <2> QED
    BY <2>1, ExitSameDay
<1> HIDE DEF b
<1>8. BookOK(book', c)
  <2>1. CASE setup
    BY <1>1, <1>2, <1>6, <1>7, <2>1, EnterKeeps
  <2>2. CASE ~setup
    BY <1>1, <1>6, <2>2
  <2> QED
    BY <2>1, <2>2
<1>9. book' \in Books /\ LimitsKept(book'.trades)
  BY <1>8 DEF BookOK
<1>10. ~(Len(candles') <= WarmupCandles)
  BY <1>1, <1>4, BacktestAssumption
<1> QED
  BY <1>1, <1>4, <1>8, <1>9, <1>10 DEF BacktestInv

\* What is still open when the data ends is closed at the last close.
LEMMA FinishKeeps ==
  ASSUME BacktestInv, phase = "replay", Finish
  PROVE  BacktestInv'
<1>1. Len(candles) > WarmupCandles /\ candles' = candles /\ phase' = "done"
  BY DEF Finish
<1>2. candles \in Seq(CandleSet) /\ book \in Books /\ LimitsKept(book.trades)
  BY DEF BacktestInv
<1>3. CASE book.position = None
  <2>1. book' = book
    BY <1>3 DEF Finish
  <2> QED
    BY <1>1, <1>2, <2>1 DEF BacktestInv
<1>4. CASE book.position # None
  <2>1. PICK b : b = book
    OBVIOUS
  <2>2. PICK h : h = b.trades
    OBVIOUS
  <2>3. PICK p : p = b.position
    OBVIOUS
  <2>4. p \in Positions /\ p # None /\ h \in Seq(Positions) /\ b \in Books /\ LimitsKept(h)
    BY <1>2, <1>4, <2>1, <2>2, <2>3, BookFields
  <2>5. candles # <<>> /\ candles[Len(candles)] \in CandleSet
    <3>1. WarmupCandles \in Nat /\ Len(candles) \in Nat
      BY <1>2, BacktestAssumption
    <3>2. Len(candles) # 0
      BY <1>1, <3>1
    <3>3. candles # <<>>
      BY <1>2, <3>2
    <3> QED
      BY <1>2, <3>3
  <2>6. PICK last \in CandleSet : last = candles[Len(candles)]
    BY <2>5
  <2>7. BookOK(b, last)
    BY <2>1, <2>5, <2>6 DEF BacktestInv
  <2>8. /\ InOrder(h, last.time) /\ Counted(b) /\ RoomForTrade(b)
        /\ p.entryTime <= last.time /\ p.stop <= last.close
        /\ p.entryTime < last.time \/ last.close = p.entry
    BY <2>2, <2>3, <2>4, <2>7 DEF BookOK, HeldThrough
  <2>9. last.time \in Nat /\ last.close \in Int
    BY DEF CandleSet
  <2>10. PICK t : t = Close(p, last.time, last.close, "EndOfData")
    OBVIOUS
  <2>11. last.close >= p.stop /\ p.entry \in Int /\ p.quantity \in Int
    BY <2>4, <2>8, <2>9, TradeFields
  <2>12. /\ t \in Positions /\ t.entryTime = p.entryTime /\ t.exitTime = last.time
         /\ t.reason = "EndOfData" /\ t.pnl = (last.close - p.entry) * p.quantity
         /\ -100 * t.pnl <= RiskPercent * b.capital
    BY <2>3, <2>4, <2>8, <2>9, <2>10, <2>11, ClosedTrade
  <2>13. t.pnl \in Int
    BY <2>12, TradeFields
  <2>14. PICK g : g = Append(h, t)
    OBVIOUS
  <2>15. LimitsKept(g)
    <3>1. \A i \in DOMAIN h : /\ h[i].reason # "EndOfData" /\ h[i].entryTime < h[i].exitTime
                              /\ h[i].exitTime <= t.entryTime
      BY <2>2, <2>3, <2>4, <2>8, <2>12 DEF InOrder, RoomForTrade
    <3>2. t.entryTime <= t.exitTime
      BY <2>8, <2>12
    <3>3. t.entryTime < t.exitTime \/ (t.reason = "EndOfData" /\ t.pnl = 0)
      <4>1. CASE p.entryTime < last.time
        BY <2>12, <4>1
      <4>2. CASE last.close = p.entry
        <5>1. last.close - p.entry = 0
          BY <2>11, <4>2
        <5>2. 0 * p.quantity = 0
          BY <2>11
        <5>3. t.pnl = 0
          BY <2>12, <5>1, <5>2
        <5> QED
          BY <2>12, <5>3
      <4> QED
        BY <2>8, <4>1, <4>2
    <3>4. /\ h # <<>> => t.entryTime - h[Len(h)].exitTime >= CooldownMinutes
          /\ Cardinality(EntriesOn(h, Day(t.entryTime))) < MaxTradesPerDay
          /\ TotalLoss(h, Day(t.entryTime)) < MaxDailyLoss
      BY <2>2, <2>3, <2>4, <2>8, <2>12 DEF RoomForTrade
    <3>5. -100 * t.pnl <= RiskPercent * (InitialCapital + PnlBefore(h, Len(h) + 1))
      BY <2>2, <2>8, <2>12 DEF Counted
    <3>6. ~(t.reason # "EndOfData")
      BY <2>12
    <3> QED
      BY <2>4, <2>12, <2>14, <3>1, <3>2, <3>3, <3>4, <3>5, <3>6, LimitsStay
  <2>16. PICK e : e = [b EXCEPT !.capital = b.capital + t.pnl, !.trades = g]
    OBVIOUS
  <2>17. book' = e
    <3>1. t = Close(book.position, Last(candles).time, Last(candles).close, "EndOfData")
      BY <2>1, <2>3, <2>6, <2>10 DEF Last
    <3>2. book' = [book EXCEPT !.capital = book.capital + t.pnl,
                               !.trades = Append(book.trades, t)]
      BY <1>2, <1>4, <3>1 DEF Finish, ForceClose, Books
    <3> QED
      BY <2>1, <2>2, <2>14, <2>16, <3>2
  <2>18. e \in Books /\ e.trades = g
    <3>1. e = [capital |-> b.capital + t.pnl, position |-> b.position, trades |-> g,
               closedAt |-> b.closedAt, date |-> b.date, takenToday |-> b.takenToday,
               lossToday |-> b.lossToday]
      BY <2>4, <2>16 DEF Books
    <3>2. /\ e.capital = b.capital + t.pnl /\ e.position = b.position /\ e.trades = g
          /\ e.closedAt = b.closedAt /\ e.date = b.date /\ e.takenToday = b.takenToday
          /\ e.lossToday = b.lossToday
      BY <3>1
    <3>3. e = [capital |-> e.capital, position |-> e.position, trades |-> e.trades,
               closedAt |-> e.closedAt, date |-> e.date, takenToday |-> e.takenToday,
               lossToday |-> e.lossToday]
      BY <3>1
    <3>4. b.capital \in Int /\ e.capital \in Int
      BY <2>4, <2>13, <3>2, BookFields
    <3>5. g \in Seq(Positions)
      BY <2>4, <2>12, <2>14, Appended
    <3>6. e \in Books
      BY <2>4, <3>2, <3>3, <3>4, <3>5, BookFields, BookBuilt
    <3> QED
      BY <3>2, <3>6
  <2>19. book' \in Books /\ LimitsKept(book'.trades)
    BY <2>15, <2>17, <2>18
  <2> QED
    BY <1>1, <1>2, <2>19 DEF BacktestInv
<1> QED
  BY <1>3, <1>4

\* The inductive invariant of a backtest, along every job: the trades are within the
\* limits, the counters count them, and an open position leaves room for its trade.
THEOREM BacktestInvariant == Spec => []BacktestInv
<1>1. Init => BacktestInv
  <2> SUFFICES ASSUME Init
               PROVE  BacktestInv
    OBVIOUS
  <2>1. candles = <<>> /\ book = NewBook
    BY DEF Init, BacktestInit
  <2>2. candles \in Seq(CandleSet)
    BY <2>1
  <2> QED
    BY <2>1, <2>2, NewBookFacts DEF BacktestInv
<1>2. BacktestInv /\ [Next]_vars => BacktestInv'
  <2> SUFFICES ASSUME BacktestInv, [Next]_vars
               PROVE  BacktestInv'
    OBVIOUS
  <2>1. CASE BacktestNext
    <3>1. CASE Refuse
      <4>1. phase' = "refused" /\ candles' = candles /\ book' = book
        BY <3>1 DEF Refuse
      <4> QED
        BY <4>1 DEF BacktestInv
    <3> QED
      BY <2>1, <3>1, WarmUpKeeps, ReplayKeeps, FinishKeeps DEF BacktestNext
  <2>2. CASE UNCHANGED backtestVars
    <3>1. UNCHANGED <<candles, book, phase>>
      BY <2>2 DEF backtestVars
    <3> QED
      BY <3>1 DEF BacktestInv
  <2> QED
    BY <2>1, <2>2 DEF Next, vars
<1> QED
  BY <1>1, <1>2, PTL DEF Spec

\* No trade of a backtest loses more than the configured share of the capital it was
\* entered with, no two overlap, and no day sees more of them or an entry after more
\* loss than its limits allow, for every bar, stamp, size and limit.
THEOREM TradesStayWithinLimits == Spec => []TradesWithinLimits
<1>1. BacktestInv => TradesWithinLimits
  <2> SUFFICES ASSUME BacktestInv
               PROVE  TradesWithinLimits
    OBVIOUS
  <2>1. book \in Books /\ LimitsKept(History)
    BY DEF BacktestInv, History
  <2>2. TradesSound
    BY <2>1 DEF TradesSound, LimitsKept
  <2>3. DayLimitsHold
    <3>1. ASSUME NEW i \in DOMAIN History
          PROVE  Day(History[i].exitTime) \in Nat
      <4>1. History[i] \in Positions
        BY <2>1, BookFields DEF History
      <4> QED
        BY <4>1, TradeFields
    <3>2. ASSUME NEW day \in Nat, NEW i \in EntriesOn(History, day)
          PROVE  LossBefore(History, day, History[i].entryTime) < MaxDailyLoss
      <4>1. i \in DOMAIN History /\ day = Day(History[i].entryTime)
        BY <3>2 DEF EntriesOn
      <4> QED
        BY <2>1, <4>1 DEF LimitsKept
    <3> QED
      BY <2>1, <3>1, <3>2 DEF DayLimitsHold, LimitsKept
  <2> QED
    BY <2>2, <2>3 DEF TradesWithinLimits
<1> QED
  BY <1>1, BacktestInvariant, PTL

-----------------------------------------------------------------------------
(* The data platform *)

\* A non-empty set of naturals has a least member.
LEMMA LeastOne ==
  ASSUME NEW S \in SUBSET Nat, S # {}
  PROVE  \E m \in S : \A k \in S : m <= k
<1> DEFINE R == OpToRel(<, Nat)
<1>1. IsWellFoundedOn(R, Nat)
  BY NatLessThanWellFounded
<1>2. \A x, y \in Nat : x < y => <<x, y>> \in R
  BY DEF OpToRel
<1>3. \E x \in S : \A y \in S : ~ (<<y, x>> \in R)
  <2> HIDE DEF R
  <2> QED
    BY <1>1, WFMin
<1>4. PICK m \in S : \A k \in S : ~ (<<k, m>> \in R)
  BY <1>3
<1>5. \A k \in S : m <= k
  <2> HIDE DEF R
  <2>1. \A k \in S : ~ (k < m)
    BY <1>2, <1>4
  <2> QED
    BY <2>1
<1> QED
  BY <1>5

\* What a sequence is in terms of its length.
LEMMA ListFacts ==
  ASSUME NEW S, NEW s \in Seq(S)
  PROVE  /\ Len(s) \in Nat /\ DOMAIN s = 1 .. Len(s)
         /\ IsFiniteSet(DOMAIN s) /\ Cardinality(DOMAIN s) = Len(s)
         /\ \A i \in DOMAIN s : s[i] \in S /\ i \in Nat
<1>1. Len(s) \in Nat /\ DOMAIN s = 1 .. Len(s)
  BY LenProperties
<1>2. IsFiniteSet(1 .. Len(s)) /\ Cardinality(1 .. Len(s)) = IF 1 > Len(s) THEN 0 ELSE Len(s) - 1 + 1
  BY <1>1, FS_Interval
<1> QED
  BY <1>1, <1>2, ElementOfSeq

\* One-to-one places from 1 to their number are all taken, and each candle is found
\* at its place.
LEMMA PlacedFacts ==
  ASSUME NEW S, NEW s \in Seq(S), NEW R \in SUBSET DOMAIN s,
         NEW place \in [R -> 1 .. Cardinality(R)],
         \A i, j \in R : place[i] = place[j] => i = j
  PROVE  /\ Placed(s, place) \in Seq(S) /\ Len(Placed(s, place)) = Cardinality(R)
         /\ \A i \in R : Placed(s, place)[place[i]] = s[i]
         /\ \A n \in 1 .. Cardinality(R) : \E i \in R : place[i] = n
<1> DEFINE n == Cardinality(R)
           T == 1 .. n
           p == Placed(s, place)
<1>1. IsFiniteSet(R) /\ n \in Nat
  BY ListFacts, FS_Subset, FS_CardinalityType
<1>2. IsFiniteSet(T) /\ Cardinality(T) = n
  BY <1>1, FS_Interval
<1>3. place \in Injection(R, T)
  BY DEF Injection, IsInjective
<1>4. place \in Surjection(R, T)
  <2> HIDE DEF T
  <2> QED
    BY <1>2, <1>3, FS_Injection
<1>5. \A k \in T : \E i \in R : place[i] = k
  BY <1>4 DEF Surjection
<1>6. p = [k \in T |-> s[CHOOSE i \in R : place[i] = k]]
  BY DEF Placed
<1>7. ASSUME NEW i \in R
      PROVE  p[place[i]] = s[i]
  <2>1. (CHOOSE j \in R : place[j] = place[i]) = i
    OBVIOUS
  <2> QED
    BY <1>6, <2>1
<1>8. \A k \in T : p[k] \in S
  <2> SUFFICES ASSUME NEW k \in T
               PROVE  p[k] \in S
    OBVIOUS
  <2>1. PICK i \in R : place[i] = k
    BY <1>5
  <2> QED
    BY <1>7, <2>1, ListFacts
<1>9. p \in [1 .. n -> S]
  <2> HIDE DEF p
  <2> QED
    BY <1>6, <1>8
<1>10. p \in Seq(S) /\ Len(p) = n
  <2> HIDE DEF p
  <2> QED
    BY <1>1, <1>9
<1> QED
  BY <1>5, <1>7, <1>10

\* What the assumption on the constants says of a candle.
LEMMA CandleFacts ==
  ASSUME NEW c \in Candles
  PROVE  /\ c.time \in Nat /\ c.zone \in {"naive", "aware"}
         /\ c.open \in Int /\ c.high \in Int /\ c.low \in Int /\ c.close \in Int /\ c.volume \in Int
BY DataAssumption DEF DataAssumption, OHLCVRecord

LEMMA FileFacts ==
  ASSUME NEW s \in Seq(Candles), NEW i \in DOMAIN s
  PROVE  s[i] \in Candles /\ s[i].time \in Nat /\ i \in Nat
BY ListFacts, CandleFacts

\* A proper subset has fewer members.
LEMMA Fewer ==
  ASSUME NEW B, IsFiniteSet(B), NEW A \in SUBSET B, A # B
  PROVE  Cardinality(A) < Cardinality(B)
<1>1. IsFiniteSet(A) /\ Cardinality(A) <= Cardinality(B) /\ Cardinality(B) # Cardinality(A)
  BY FS_Subset
<1> QED
  BY <1>1, FS_CardinalityType

\* The place of a candle in the sorted file is one of the file's.
LEMMA NotAfterFacts ==
  ASSUME NEW s \in Seq(Candles), NEW i \in DOMAIN s
  PROVE  /\ NotAfter(s, i) \subseteq DOMAIN s /\ i \in NotAfter(s, i)
         /\ IsFiniteSet(NotAfter(s, i))
         /\ Cardinality(NotAfter(s, i)) \in 1 .. Cardinality(DOMAIN s)
<1>1. NotAfter(s, i) \subseteq DOMAIN s /\ i \in NotAfter(s, i)
  BY FileFacts DEF NotAfter
<1>2. IsFiniteSet(DOMAIN s) /\ Cardinality(DOMAIN s) \in Nat
  BY ListFacts
<1>3. IsFiniteSet(NotAfter(s, i)) /\ Cardinality(NotAfter(s, i)) <= Cardinality(DOMAIN s)
  BY <1>1, <1>2, FS_Subset
<1>4. Cardinality(NotAfter(s, i)) \in Nat /\ Cardinality(NotAfter(s, i)) # 0
  BY <1>1, <1>3, FS_CardinalityType, FS_EmptySet
<1> QED
  BY <1>1, <1>2, <1>3, <1>4

\* A candle that is not after another one has a place before it.
LEMMA PlacesOrdered ==
  ASSUME NEW s \in Seq(Candles), NEW i \in DOMAIN s, NEW j \in DOMAIN s,
         j \in NotAfter(s, i), i # j
  PROVE  Cardinality(NotAfter(s, j)) < Cardinality(NotAfter(s, i))
<1>1. s[i].time \in Nat /\ s[j].time \in Nat /\ i \in Nat /\ j \in Nat
  BY FileFacts
<1>2. i \notin NotAfter(s, j)
  BY <1>1 DEF NotAfter
<1>3. ASSUME NEW k \in NotAfter(s, j)
      PROVE  k \in NotAfter(s, i)
  <2>1. k \in DOMAIN s
    BY DEF NotAfter
  <2>2. s[k].time \in Nat /\ k \in Nat
    BY <2>1, FileFacts
  <2> QED
    BY <1>1, <2>1, <2>2 DEF NotAfter
<1> QED
  BY <1>2, <1>3, NotAfterFacts, Fewer

\* The places of the sorted file are one to one.
LEMMA SortPlaces ==
  ASSUME NEW s \in Seq(Candles)
  PROVE  /\ [i \in DOMAIN s |-> Cardinality(NotAfter(s, i))] \in [DOMAIN s -> 1 .. Cardinality(DOMAIN s)]
         /\ \A i, j \in DOMAIN s :
              Cardinality(NotAfter(s, i)) = Cardinality(NotAfter(s, j)) => i = j
<1>1. \A i \in DOMAIN s : Cardinality(NotAfter(s, i)) \in 1 .. Cardinality(DOMAIN s)
  BY NotAfterFacts
<1>2. ASSUME NEW i \in DOMAIN s, NEW j \in DOMAIN s, i # j
      PROVE  Cardinality(NotAfter(s, i)) # Cardinality(NotAfter(s, j))
  <2>1. j \in NotAfter(s, i) \/ i \in NotAfter(s, j)
    BY FileFacts DEF NotAfter
  <2>2. Cardinality(NotAfter(s, i)) \in Nat /\ Cardinality(NotAfter(s, j)) \in Nat
    BY NotAfterFacts, FS_CardinalityType
  <2> QED
    BY <1>2, <2>1, <2>2, PlacesOrdered
<1> QED
  BY <1>1, <1>2

\* Sorting keeps every candle, puts none after a later one, and adds none.
LEMMA SortedFacts ==
  ASSUME NEW s \in Seq(Candles)
  PROVE  /\ SortedByTime(s) \in Seq(Candles) /\ Len(SortedByTime(s)) = Len(s)
         /\ \A i \in DOMAIN s : SortedByTime(s)[Cardinality(NotAfter(s, i))] = s[i]
         /\ \A n \in DOMAIN s : \E i \in DOMAIN s : Cardinality(NotAfter(s, i)) = n /\ SortedByTime(s)[n] = s[i]
<1> DEFINE D == DOMAIN s
           place == [i \in D |-> Cardinality(NotAfter(s, i))]
<1>1. place \in [D -> 1 .. Cardinality(D)] /\ \A i, j \in D : place[i] = place[j] => i = j
  BY SortPlaces
<1>2. SortedByTime(s) = Placed(s, place)
  BY DEF SortedByTime
<1>3. /\ Placed(s, place) \in Seq(Candles) /\ Len(Placed(s, place)) = Cardinality(D)
      /\ \A i \in D : Placed(s, place)[place[i]] = s[i]
      /\ \A n \in 1 .. Cardinality(D) : \E i \in D : place[i] = n
  <2> HIDE DEF place
  <2>1. PICK R \in SUBSET DOMAIN s : R = D
    OBVIOUS
  <2>2. place \in [R -> 1 .. Cardinality(R)] /\ \A i, j \in R : place[i] = place[j] => i = j
    BY <1>1, <2>1
  <2>3. /\ Placed(s, place) \in Seq(Candles) /\ Len(Placed(s, place)) = Cardinality(R)
        /\ \A i \in R : Placed(s, place)[place[i]] = s[i]
        /\ \A n \in 1 .. Cardinality(R) : \E i \in R : place[i] = n
    BY <2>2, PlacedFacts
  <2> QED
    BY <2>1, <2>3
<1>4. D = 1 .. Len(s) /\ Cardinality(D) = Len(s)
  BY ListFacts
<1>5. \A i \in D : place[i] = Cardinality(NotAfter(s, i))
  OBVIOUS
<1> QED
  <2> HIDE DEF place, D
  <2>1. /\ SortedByTime(s) \in Seq(Candles) /\ Len(SortedByTime(s)) = Len(s)
        /\ \A i \in D : SortedByTime(s)[Cardinality(NotAfter(s, i))] = s[i]
    BY <1>2, <1>3, <1>4, <1>5
  <2>2. \A n \in D : \E i \in D : Cardinality(NotAfter(s, i)) = n
    BY <1>3, <1>4, <1>5
  <2>3. \A n \in D : \E i \in D : Cardinality(NotAfter(s, i)) = n /\ SortedByTime(s)[n] = s[i]
    BY <2>1, <2>2
  <2> QED
    BY <2>1, <2>3 DEF D

\* Candles whose times never fall.
InTime(s) == \A i, j \in DOMAIN s : i < j => s[i].time <= s[j].time

LEMMA SortedInTime ==
  ASSUME NEW s \in Seq(Candles)
  PROVE  InTime(SortedByTime(s))
<1> DEFINE p == SortedByTime(s)
<1>1. DOMAIN p = DOMAIN s
  BY SortedFacts, ListFacts
<1>2. ASSUME NEW m \in DOMAIN p, NEW n \in DOMAIN p, m < n
      PROVE  p[m].time <= p[n].time
  <2>1. PICK i \in DOMAIN s : Cardinality(NotAfter(s, i)) = m /\ p[m] = s[i]
    BY <1>1, SortedFacts
  <2>2. PICK j \in DOMAIN s : Cardinality(NotAfter(s, j)) = n /\ p[n] = s[j]
    BY <1>1, SortedFacts
  <2>3. ~ (Cardinality(NotAfter(s, j)) < Cardinality(NotAfter(s, i)))
    <3>1. m \in Nat /\ n \in Nat
      BY <1>1, FileFacts
    <3> QED
      BY <1>2, <2>1, <2>2, <3>1
  <2>4. ~ (s[j].time < s[i].time)
    <3> SUFFICES ASSUME s[j].time < s[i].time
                 PROVE  FALSE
      OBVIOUS
    <3>1. j \in NotAfter(s, i) /\ i # j
      BY FileFacts DEF NotAfter
    <3> QED
      BY <2>3, <3>1, PlacesOrdered
  <2> QED
    BY <2>1, <2>2, <2>4, FileFacts
<1> QED
  BY <1>2 DEF InTime

\* A file whose times rise is sorted already.
LEMMA RisingIsSorted ==
  ASSUME NEW s \in Seq(Candles), \A i, j \in DOMAIN s : i < j => s[i].time < s[j].time
  PROVE  SortedByTime(s) = s
<1>1. ASSUME NEW i \in DOMAIN s
      PROVE  SortedByTime(s)[i] = s[i]
  <2>1. i \in 1 .. Len(s) /\ DOMAIN s = 1 .. Len(s) /\ Len(s) \in Nat
    BY ListFacts
  <2>2. ASSUME NEW j \in DOMAIN s
        PROVE  j \in NotAfter(s, i) <=> j <= i
    <3>1. s[i].time \in Nat /\ s[j].time \in Nat /\ i \in Nat /\ j \in Nat
      BY FileFacts
    <3>2. i < j => s[i].time < s[j].time
      OBVIOUS
    <3>3. j < i => s[j].time < s[i].time
      OBVIOUS
    <3> QED
      BY <3>1, <3>2, <3>3 DEF NotAfter
  <2>3. NotAfter(s, i) = 1 .. i
    <3>1. \A j : j \in NotAfter(s, i) => j \in 1 .. i
      BY <2>1, <2>2, NotAfterFacts
    <3>2. \A j : j \in 1 .. i => j \in NotAfter(s, i)
      BY <2>1, <2>2
    <3> QED
      BY <3>1, <3>2
  <2>4. Cardinality(1 .. i) = i
    BY <2>1, FS_Interval
  <2> QED
    BY <2>3, <2>4, SortedFacts
<1>2. SortedByTime(s) \in Seq(Candles) /\ Len(SortedByTime(s)) = Len(s) /\ DOMAIN s = 1 .. Len(s)
  BY SortedFacts, ListFacts
<1> QED
  BY <1>1, <1>2, SeqEqual

\* A scan's places are one to one, and it keeps the candles of its rows.
LEMMA ScannedFacts ==
  ASSUME NEW s \in Seq(Candles), NEW range
  PROVE  LET R == RowsIn(s, range) IN
         /\ IsFiniteSet(R) /\ Cardinality(R) \in Nat
         /\ Scanned(s, range) \in Seq(Candles) /\ Len(Scanned(s, range)) = Cardinality(R)
         /\ \A i \in R : Scanned(s, range)[Cardinality({j \in R : j <= i})] = s[i]
<1> DEFINE R == RowsIn(s, range)
           place == [i \in R |-> Cardinality({j \in R : j <= i})]
<1>1. R \in SUBSET DOMAIN s
  BY DEF RowsIn
<1>2. IsFiniteSet(R) /\ Cardinality(R) \in Nat /\ \A i \in R : i \in Nat
  BY <1>1, ListFacts, FS_Subset, FS_CardinalityType
<1> HIDE DEF R
<1>3. ASSUME NEW i \in R
      PROVE  /\ IsFiniteSet({j \in R : j <= i})
             /\ Cardinality({j \in R : j <= i}) \in 1 .. Cardinality(R)
  <2>1. {j \in R : j <= i} \in SUBSET R /\ i \in {j \in R : j <= i}
    BY <1>2
  <2>2. IsFiniteSet({j \in R : j <= i}) /\ Cardinality({j \in R : j <= i}) <= Cardinality(R)
    BY <1>2, <2>1, FS_Subset
  <2>3. Cardinality({j \in R : j <= i}) \in Nat /\ Cardinality({j \in R : j <= i}) # 0
    BY <2>1, <2>2, FS_CardinalityType, FS_EmptySet
  <2> QED
    BY <1>2, <2>2, <2>3
<1>4. ASSUME NEW i \in R, NEW k \in R, i < k
      PROVE  Cardinality({j \in R : j <= i}) < Cardinality({j \in R : j <= k})
  <2>1. {j \in R : j <= i} \in SUBSET {j \in R : j <= k}
    BY <1>2, <1>4
  <2>2. k \in {j \in R : j <= k} /\ k \notin {j \in R : j <= i}
    BY <1>2, <1>4
  <2> QED
    BY <1>3, <2>1, <2>2, Fewer
<1>5. place \in [R -> 1 .. Cardinality(R)]
  BY <1>3
<1>6. \A i \in R : place[i] = Cardinality({j \in R : j <= i})
  OBVIOUS
<1>7. \A i, k \in R : place[i] = place[k] => i = k
  <2> SUFFICES ASSUME NEW i \in R, NEW k \in R, i # k
               PROVE  place[i] # place[k]
    OBVIOUS
  <2>1. i < k \/ k < i
    BY <1>2
  <2>2. Cardinality({j \in R : j <= i}) \in Nat /\ Cardinality({j \in R : j <= k}) \in Nat
    BY <1>3, FS_CardinalityType
  <2>3. Cardinality({j \in R : j <= i}) # Cardinality({j \in R : j <= k})
    <3>1. CASE i < k
      <4>1. Cardinality({j \in R : j <= i}) < Cardinality({j \in R : j <= k})
        BY <1>4, <3>1
      <4> QED
        BY <2>2, <4>1
    <3>2. CASE k < i
      <4>1. Cardinality({j \in R : j <= k}) < Cardinality({j \in R : j <= i})
        BY <1>4, <3>2
      <4> QED
        BY <2>2, <4>1
    <3> QED
      BY <2>1, <3>1, <3>2
  <2> HIDE DEF place
  <2> QED
    BY <1>6, <2>3
<1>8. Scanned(s, range) = Placed(s, place)
  BY DEF Scanned, R
<1> HIDE DEF place
<1>9. /\ Placed(s, place) \in Seq(Candles) /\ Len(Placed(s, place)) = Cardinality(R)
      /\ \A i \in R : Placed(s, place)[place[i]] = s[i]
  BY <1>1, <1>5, <1>7, PlacedFacts
<1> QED
  BY <1>2, <1>6, <1>8, <1>9 DEF R

\* What a binary search over stamps in order counts is a prefix of them.
LEMMA PrefixCounted ==
  ASSUME NEW n \in Nat, NEW L \in SUBSET (1 .. n),
         \A i \in L : \A j \in 1 .. n : j <= i => j \in L
  PROVE  Cardinality(L) \in 0 .. n /\ L = 1 .. Cardinality(L)
<1>1. IsFiniteSet(1 .. n) /\ Cardinality(1 .. n) = n
  BY FS_Interval
<1>2. IsFiniteSet(L) /\ Cardinality(L) \in 0 .. n
  <2>1. IsFiniteSet(L) /\ Cardinality(L) <= n
    BY <1>1, FS_Subset
  <2>2. Cardinality(L) \in Nat
    BY <2>1, FS_CardinalityType
  <2> QED
    BY <2>1, <2>2
<1>3. ASSUME NEW i \in L
      PROVE  i \in 1 .. Cardinality(L)
  <2>1. 1 .. i \in SUBSET L
    OBVIOUS
  <2>2. Cardinality(1 .. i) = i
    BY FS_Interval
  <2>3. Cardinality(1 .. i) <= Cardinality(L)
    BY <1>2, <2>1, FS_Subset
  <2> QED
    BY <1>2, <2>2, <2>3
<1>4. PICK m : m = Cardinality(L)
  OBVIOUS
<1>5. L \in SUBSET (1 .. m)
  BY <1>3, <1>4
<1>6. IsFiniteSet(1 .. m) /\ Cardinality(1 .. m) = m
  BY <1>2, <1>4, FS_Interval
<1>7. L = 1 .. m
  BY <1>4, <1>5, <1>6, FS_Subset
<1> QED
  BY <1>2, <1>4, <1>7

\* The binary searches of a query find what a scan of the stored candles finds.
LEMMA QueryIsScan ==
  ASSUME NEW s \in Seq(Candles), InTime(s), NEW range \in Nat \X Nat
  PROVE  QueryDateRange(s, range) = Scanned(s, range) /\ InTime(Scanned(s, range))
<1> DEFINE n == Len(s)
           A == {i \in DOMAIN s : s[i].time < range[1]}
           B == {i \in DOMAIN s : s[i].time <= range[2]}
           left == Cardinality(A)
           right == Cardinality(B)
           R == RowsIn(s, range)
           found == SubSeq(s, left + 1, right)
<1>1. n \in Nat /\ DOMAIN s = 1 .. n /\ range[1] \in Nat /\ range[2] \in Nat
  BY ListFacts
<1>2. \A i \in DOMAIN s : s[i].time \in Nat /\ i \in Nat /\ s[i] \in Candles
  BY FileFacts
<1>3. \A i, j \in DOMAIN s : j <= i => s[j].time <= s[i].time
  BY <1>2 DEF InTime
<1>4. left \in 0 .. n /\ A = 1 .. left
  <2>1. A \in SUBSET (1 .. n) /\ \A i \in A : \A j \in 1 .. n : j <= i => j \in A
    <3>1. ASSUME NEW i \in A, NEW j \in 1 .. n, j <= i
          PROVE  j \in A
      <4>1. /\ s[j].time <= s[i].time /\ s[i].time < range[1]
            /\ s[i].time \in Nat /\ s[j].time \in Nat
        BY <1>1, <1>2, <1>3, <3>1
      <4> QED
        BY <1>1, <4>1
    <3> QED
      BY <1>1, <3>1
  <2> HIDE DEF A
  <2> QED
    BY <1>1, <2>1, PrefixCounted
<1>5. right \in 0 .. n /\ B = 1 .. right
  <2>1. B \in SUBSET (1 .. n) /\ \A i \in B : \A j \in 1 .. n : j <= i => j \in B
    <3>1. ASSUME NEW i \in B, NEW j \in 1 .. n, j <= i
          PROVE  j \in B
      <4>1. /\ s[j].time <= s[i].time /\ s[i].time <= range[2]
            /\ s[i].time \in Nat /\ s[j].time \in Nat
        BY <1>1, <1>2, <1>3, <3>1
      <4> QED
        BY <1>1, <4>1
    <3> QED
      BY <1>1, <3>1
  <2> HIDE DEF B
  <2> QED
    BY <1>1, <2>1, PrefixCounted
<1>6. QueryDateRange(s, range) = found
  BY DEF QueryDateRange
<1>7. \A i \in DOMAIN s : i \in R <=> (i \notin A /\ i \in B)
  BY <1>1, <1>2 DEF RowsIn
<1>8. R \in SUBSET DOMAIN s
  BY DEF RowsIn
<1> HIDE DEF A, B, R, n, left, right
<1>9. R = (left + 1) .. right
  <2>1. \A i : i \in R => i \in (left + 1) .. right
    BY <1>1, <1>4, <1>5, <1>7, <1>8
  <2>2. \A i : i \in (left + 1) .. right => i \in R
    BY <1>1, <1>4, <1>5, <1>7
  <2> QED
    BY <2>1, <2>2
<1>10. Cardinality(R) = IF left + 1 <= right THEN right - left ELSE 0
  <2>1. Cardinality((left + 1) .. right) = IF left + 1 > right THEN 0 ELSE right - (left + 1) + 1
    BY <1>4, <1>5, FS_Interval
  <2> QED
    BY <1>4, <1>5, <1>9, <2>1
<1>11. /\ found \in Seq(Candles) /\ Len(found) = Cardinality(R)
       /\ \A k \in 1 .. right - left : found[k] = s[left + k]
  <2>1. \A i \in left + 1 .. right : s[i] \in Candles
    BY <1>2, <1>8, <1>9
  <2>2. left + 1 \in Int /\ right \in Int
    BY <1>4, <1>5
  <2>3. /\ found \in Seq(Candles)
        /\ Len(found) = IF left + 1 <= right THEN right - (left + 1) + 1 ELSE 0
        /\ \A k \in 1 .. right - (left + 1) + 1 : found[k] = s[left + 1 + k - 1]
    BY <2>1, <2>2, SubSeqProperties
  <2>4. right - (left + 1) + 1 = right - left /\ \A k \in 1 .. right - left : left + 1 + k - 1 = left + k
    BY <1>4, <1>5
  <2> QED
    BY <1>10, <2>3, <2>4
<1>12. ASSUME NEW k \in 1 .. Len(found)
       PROVE  left + k \in R /\ Scanned(s, range)[k] = s[left + k] /\ found[k] = s[left + k]
  <2>1. k \in 1 .. right - left /\ left + k \in R
    BY <1>4, <1>5, <1>9, <1>10, <1>11
  <2>2. {j \in R : j <= left + k} = (left + 1) .. (left + k)
    BY <1>4, <1>5, <1>9, <2>1
  <2>3. Cardinality((left + 1) .. (left + k)) = k
    <3>1. Cardinality((left + 1) .. (left + k))
            = IF left + 1 > left + k THEN 0 ELSE left + k - (left + 1) + 1
      BY <1>4, <2>1, FS_Interval
    <3> QED
      BY <1>4, <2>1, <3>1
  <2>4. Scanned(s, range)[Cardinality({j \in R : j <= left + k})] = s[left + k]
    BY <2>1, ScannedFacts DEF R
  <2> QED
    BY <1>11, <2>1, <2>2, <2>3, <2>4
<1>13. Scanned(s, range) \in Seq(Candles) /\ Len(Scanned(s, range)) = Len(found)
  BY <1>11, ScannedFacts DEF R
<1>14. found = Scanned(s, range)
  BY <1>11, <1>12, <1>13, SeqEqual
<1>15. InTime(found)
  <2>1. DOMAIN found = 1 .. Len(found) /\ Len(found) \in Nat
    BY <1>11, ListFacts
  <2>2. ASSUME NEW i \in DOMAIN found, NEW j \in DOMAIN found, i < j
        PROVE  found[i].time <= found[j].time
    <3>1. /\ left + i \in DOMAIN s /\ left + j \in DOMAIN s
          /\ found[i] = s[left + i] /\ found[j] = s[left + j]
      BY <1>8, <1>12, <2>1
    <3>2. left + i <= left + j
      BY <1>4, <2>1, <2>2
    <3> QED
      BY <1>3, <3>1, <3>2
  <2> QED
    BY <2>2 DEF InTime
<1> QED
  BY <1>6, <1>14, <1>15

\* The candles of a file are all of one zone, unless it is said to mix them.
LEMMA OneZone ==
  ASSUME NEW s \in Seq(Candles), Sortable(s), NEW i \in DOMAIN s, NEW j \in DOMAIN s
  PROVE  s[i].zone = s[j].zone
<1> DEFINE Z == {s[k].zone : k \in DOMAIN s}
<1>1. Z \subseteq {"naive", "aware"}
  BY FileFacts, CandleFacts
<1>2. IsFiniteSet({"naive", "aware"})
  <2>1. IsFiniteSet({"naive"})
    BY FS_Singleton
  <2>2. IsFiniteSet({"naive"} \cup {"aware"})
    BY <2>1, FS_AddElement
  <2>3. {"naive"} \cup {"aware"} = {"naive", "aware"}
    OBVIOUS
  <2> QED
    BY <2>2, <2>3
<1>3. IsFiniteSet(Z) /\ Cardinality(Z) \in Nat
  <2> HIDE DEF Z
  <2> QED
    BY <1>1, <1>2, FS_Subset, FS_CardinalityType
<1>4. Cardinality(Z) <= 1
  BY <1>3 DEF Sortable, TimezoneInconsistent
<1>5. s[i].zone \in Z /\ s[j].zone \in Z
  OBVIOUS
<1> HIDE DEF Z
<1>6. Cardinality(Z) = 1
  BY <1>3, <1>4, <1>5, FS_EmptySet
<1>7. PICK z : Z = {z}
  BY <1>3, <1>6, FS_Singleton
<1> QED
  BY <1>5, <1>7

\* Neighbours that rise rise throughout.
LEMMA NeighboursRise ==
  ASSUME NEW s \in Seq(Candles),
         \A i \in DOMAIN s : i > 1 => s[i - 1].time < s[i].time
  PROVE  \A i, j \in DOMAIN s : i < j => s[i].time < s[j].time
<1> DEFINE Late == {j \in DOMAIN s : \E i \in DOMAIN s : i < j /\ ~ (s[i].time < s[j].time)}
<1> SUFFICES ASSUME Late # {}
             PROVE  FALSE
  OBVIOUS
<1>1. Late \subseteq Nat
  BY FileFacts
<1>2. PICK j \in Late : \A k \in Late : j <= k
  <2> HIDE DEF Late
  <2> QED
    BY <1>1, LeastOne
<1>3. PICK i \in DOMAIN s : i < j /\ ~ (s[i].time < s[j].time)
  OBVIOUS
<1>4. DOMAIN s = 1 .. Len(s) /\ Len(s) \in Nat /\ i \in 1 .. Len(s) /\ j \in 1 .. Len(s)
  BY ListFacts
<1>5. j - 1 \in DOMAIN s /\ j > 1 /\ i <= j - 1
  BY <1>3, <1>4
<1>6. s[j - 1].time < s[j].time
  BY <1>4, <1>5
<1>7. /\ s[i].time \in Nat /\ s[j].time \in Nat /\ s[j - 1].time \in Nat
  BY <1>5, FileFacts
<1>8. j - 1 \notin Late
  <2>1. ~ (j <= j - 1)
    BY <1>4
  <2> HIDE DEF Late
  <2> QED
    BY <1>2, <2>1
<1>9. i = j - 1 \/ s[i].time < s[j - 1].time
  <2>1. ~ (i < j - 1 /\ ~ (s[i].time < s[j - 1].time))
    BY <1>5, <1>8
  <2> QED
    BY <1>4, <1>5, <2>1
<1> QED
  BY <1>3, <1>6, <1>7, <1>9

\* Stamps of one zone compare as they are.
LEMMA ComparableIs ==
  ASSUME NEW c \in Candles, NEW d \in Candles, c.zone = d.zone
  PROVE  /\ Comparable(c) \in Int /\ Comparable(d) \in Int
         /\ Comparable(d) - Comparable(c) = d.time - c.time
<1>1. ZoneOffset \in Nat
  BY DataAssumption DEF DataAssumption
<1> QED
  BY <1>1, CandleFacts DEF Comparable

LEMMA Neighbours ==
  ASSUME NEW s \in Seq(Candles), NEW i \in DOMAIN s, i > 1
  PROVE  i - 1 \in DOMAIN s /\ s[i] \in Candles /\ s[i - 1] \in Candles /\ <<s[i - 1], s[i]>> \in Successive(s)
<1>1. DOMAIN s = 1 .. Len(s) /\ Len(s) \in Nat
  BY ListFacts
<1>2. i - 1 \in DOMAIN s /\ i \in DOMAIN s \ {1}
  BY <1>1
<1>3. <<s[i - 1], s[i]>> \in Successive(s)
  BY <1>2 DEF Successive
<1> QED
  BY <1>2, <1>3, FileFacts

\* What the validator's checks say together.
LEMMA ValidRises ==
  ASSUME NEW s \in Seq(Candles), IsValid(s)
  PROVE  /\ Sortable(s)
         /\ \A i, j \in DOMAIN s : i < j => s[i].time < s[j].time
<1>1. Sortable(s)
  BY DEF IsValid, Sortable
<1>2. ASSUME NEW i \in DOMAIN s, i > 1
      PROVE  s[i - 1].time < s[i].time
  <2>1. i - 1 \in DOMAIN s /\ s[i] \in Candles /\ s[i - 1] \in Candles /\ <<s[i - 1], s[i]>> \in Successive(s)
    BY <1>2, Neighbours
  <2>2. s[i - 1].zone = s[i].zone
    BY <1>1, <2>1, OneZone
  <2>3. ~ (Comparable(s[i]) < Comparable(s[i - 1]))
    <3>1. ~ OutOfOrder(s)
      BY DEF IsValid
    <3> QED
      BY <2>1, <3>1 DEF OutOfOrder
  <2>4. s[i - 1].time <= s[i].time
    <3>1. /\ Comparable(s[i - 1]) \in Int /\ Comparable(s[i]) \in Int
          /\ Comparable(s[i]) - Comparable(s[i - 1]) = s[i].time - s[i - 1].time
      BY <2>1, <2>2, ComparableIs
    <3> QED
      BY <2>1, <2>3, <3>1, FileFacts
  <2>5. s[i - 1].time # s[i].time
    <3>1. ~ Duplicates(s) /\ i - 1 < i
      BY FileFacts DEF IsValid
    <3> QED
      BY <2>1, <2>2, <3>1 DEF Duplicates, SameStamp
  <2> QED
    BY <2>1, <2>4, <2>5, FileFacts
<1> QED
  BY <1>1, <1>2, NeighboursRise

\* Max and Min of three numbers bound them.
LEMMA MaxOfThree ==
  ASSUME NEW a \in Int, NEW b \in Int, NEW c \in Int
  PROVE  /\ Max({a, b, c}) \in Int
         /\ Max({a, b, c}) >= a /\ Max({a, b, c}) >= b /\ Max({a, b, c}) >= c
<1>1. \E x \in {a, b, c} : \A y \in {a, b, c} : x >= y
  OBVIOUS
<1>2. Max({a, b, c}) \in {a, b, c} /\ \A y \in {a, b, c} : Max({a, b, c}) >= y
  BY <1>1 DEF Max
<1> QED
  BY <1>2

LEMMA MinOfThree ==
  ASSUME NEW a \in Int, NEW b \in Int, NEW c \in Int
  PROVE  /\ Min({a, b, c}) \in Int
         /\ Min({a, b, c}) <= a /\ Min({a, b, c}) <= b /\ Min({a, b, c}) <= c
<1>1. \E x \in {a, b, c} : \A y \in {a, b, c} : x <= y
  OBVIOUS
<1>2. Min({a, b, c}) \in {a, b, c} /\ \A y \in {a, b, c} : Min({a, b, c}) <= y
  BY <1>1 DEF Min
<1> QED
  BY <1>2

\* A file the validator passes is clean.
LEMMA ValidIsClean ==
  ASSUME NEW s \in Seq(Candles), IsValid(s)
  PROVE  Clean(s)
<1>1. ASSUME NEW i \in DOMAIN s
      PROVE  /\ s[i].low \in 0 .. s[i].high /\ s[i].volume >= 0
             /\ s[i].open \in s[i].low .. s[i].high /\ s[i].close \in s[i].low .. s[i].high
  <2> DEFINE c == s[i]
  <2>1. /\ c.open \in Int /\ c.high \in Int /\ c.low \in Int /\ c.close \in Int /\ c.volume \in Int
    BY FileFacts, CandleFacts
  <2>2. c.low >= 0 /\ c.volume >= 0
    <3>1. ~ NegativePrice(s) /\ ~ NegativeVolume(s)
      BY DEF IsValid
    <3>2. ~ (s[i].low < 0) /\ ~ (s[i].volume < 0)
      BY <3>1 DEF NegativePrice, NegativeVolume
    <3> QED
      BY <2>1, <3>2
  <2>3. ~ (c.high < Max({c.open, c.close, c.low}))
    BY DEF IsValid, HighTooLow
  <2>4. ~ (c.low > Min({c.open, c.close, c.high}))
    BY DEF IsValid, LowTooHigh
  <2>5. c.high >= c.open /\ c.high >= c.close /\ c.high >= c.low
    <3> HIDE DEF c
    <3>1. PICK a, b, e : a = c.open /\ b = c.close /\ e = c.low
      OBVIOUS
    <3>2. a \in Int /\ b \in Int /\ e \in Int
      BY <2>1, <3>1
    <3>3. Max({a, b, e}) \in Int /\ Max({a, b, e}) >= a /\ Max({a, b, e}) >= b /\ Max({a, b, e}) >= e
      BY <3>2, MaxOfThree
    <3>4. Max({a, b, e}) = Max({c.open, c.close, c.low})
      BY <3>1
    <3> QED
      BY <2>1, <2>3, <3>1, <3>3, <3>4
  <2>6. c.low <= c.open /\ c.low <= c.close
    <3> HIDE DEF c
    <3>1. PICK a, b, e : a = c.open /\ b = c.close /\ e = c.high
      OBVIOUS
    <3>2. a \in Int /\ b \in Int /\ e \in Int
      BY <2>1, <3>1
    <3>3. Min({a, b, e}) \in Int /\ Min({a, b, e}) <= a /\ Min({a, b, e}) <= b /\ Min({a, b, e}) <= e
      BY <3>2, MinOfThree
    <3>4. Min({a, b, e}) = Min({c.open, c.close, c.high})
      BY <3>1
    <3> QED
      BY <2>1, <2>4, <3>1, <3>3, <3>4
  <2> QED
    BY <2>1, <2>2, <2>5, <2>6
<1>2. ASSUME NEW i \in DOMAIN s, i > 1
      PROVE  /\ s[i - 1].time < s[i].time /\ s[i - 1].zone = s[i].zone
             /\ ExpectedMinutes # 0 /\ SameDay(s[i - 1], s[i])
                  => s[i].time - s[i - 1].time <= ExpectedMinutes
             /\ s[i - 1].close > 0
                  => Abs(s[i].close - s[i - 1].close) * 100 <= MoveThreshold * s[i - 1].close
  <2> DEFINE c == s[i - 1]
             d == s[i]
  <2>1. i - 1 \in DOMAIN s /\ c \in Candles /\ d \in Candles /\ <<c, d>> \in Successive(s)
    BY <1>2, Neighbours
  <2>2. c.time < d.time /\ c.zone = d.zone
    <3>1. i - 1 < i
      BY FileFacts
    <3> QED
      BY <2>1, <3>1, ValidRises, OneZone
  <2>3. ASSUME ExpectedMinutes # 0, SameDay(c, d)
        PROVE  d.time - c.time <= ExpectedMinutes
    <3>1. ~ MissingCandles(s)
      BY DEF IsValid
    <3>2. ~ (Comparable(d) - Comparable(c) > ExpectedMinutes)
      <4> HIDE DEF c, d
      <4> QED
        BY <2>1, <2>3, <3>1 DEF MissingCandles
    <3>3. ExpectedMinutes \in Nat
      BY DataAssumption DEF DataAssumption
    <3> HIDE DEF c, d
    <3> QED
      BY <2>1, <2>2, <3>2, <3>3, ComparableIs, CandleFacts
  <2>4. ASSUME c.close > 0
        PROVE  Abs(d.close - c.close) * 100 <= MoveThreshold * c.close
    <3>1. ~ AbnormalMove(s)
      BY DEF IsValid
    <3>2. ~ (Abs(d.close - c.close) * 100 > MoveThreshold * c.close)
      <4> HIDE DEF c, d
      <4> QED
        BY <2>1, <2>4, <3>1 DEF AbnormalMove
    <3>3. c.close \in Int /\ d.close \in Int /\ MoveThreshold \in Nat
      BY <2>1, CandleFacts, DataAssumption DEF DataAssumption
    <3>4. Abs(d.close - c.close) \in Int
      <4> HIDE DEF c, d
      <4> QED
        BY <3>3 DEF Abs
    <3>5. Abs(d.close - c.close) * 100 \in Int /\ MoveThreshold * c.close \in Int
      <4> HIDE DEF c, d
      <4> QED
        BY <3>3, <3>4
    <3> HIDE DEF c, d
    <3> QED
      BY <3>2, <3>5
  <2> QED
    BY <2>2, <2>3, <2>4
<1> QED
  BY <1>1, <1>2 DEF Clean

\* What is stored is in time order, what nobody forced has passed the validator, and
\* what is cached, or was answered last, is what a query of the store finds now.
StoreInv ==
  /\ \A k \in DOMAIN datasets : datasets[k] \in Seq(Candles) /\ InTime(datasets[k])
  /\ \A k \in DOMAIN datasets \ forced : IsValid(datasets[k])
  /\ \A q \in DOMAIN queryCache :
       q[2] \in Nat \X Nat /\ queryCache[q] = QueryDateRange(Existing(q[1]), q[2])
  /\ outcome.call = "query" /\ outcome.error = "none" =>
       /\ outcome.range \in Nat \X Nat
       /\ outcome.result = QueryDateRange(Existing(outcome.key), outcome.range)

LEMMA ExistingIs ==
  ASSUME StoreInv, NEW k
  PROVE  Existing(k) \in Seq(Candles) /\ InTime(Existing(k))
<1>1. <<>> \in Seq(Candles) /\ InTime(<<>>)
  BY DEF InTime
<1> QED
  BY <1>1 DEF Existing, StoreInv

LEMMA StoreStarts ==
  ASSUME DataInit
  PROVE  StoreInv
BY DEF DataInit, StoreInv

LEMMA StoreStays ==
  ASSUME StoreInv, UNCHANGED dataVars
  PROVE  StoreInv'
BY DEF StoreInv, dataVars, Existing

\* A call that raised has changed nothing.
LEMMA RaisedKeeps ==
  ASSUME StoreInv, NEW error, Raised(error)
  PROVE  StoreInv'
<1>1. UNCHANGED <<datasets, queryCache, forced>> /\ outcome'.call # "query"
  BY DEF Raised
<1> QED
  BY <1>1 DEF StoreInv, Existing

\* Storing a data set forgets what was cached of it, and of no other.
LEMMA StoreKeeps ==
  ASSUME StoreInv, NEW k, NEW rows \in Seq(Candles), NEW force, Store(k, rows, force)
  PROVE  StoreInv'
<1>1. CASE ~ IsValid(rows) /\ ~ force
  <2>1. Raised("DatasetValidationError")
    BY <1>1 DEF Store
  <2> QED
    BY <2>1, RaisedKeeps
<1>2. CASE ~ (~ IsValid(rows) /\ ~ force) /\ ~ Sortable(rows)
  <2>1. Raised("TypeError")
    BY <1>2 DEF Store
  <2> QED
    BY <2>1, RaisedKeeps
<1>3. CASE ~ (~ IsValid(rows) /\ ~ force) /\ Sortable(rows)
  <2>1. /\ datasets' = Put(datasets, k, SortedByTime(rows))
        /\ queryCache' = QueriesWithout(k)
        /\ forced' = IF IsValid(rows) THEN forced \ {k} ELSE forced \cup {k}
        /\ outcome'.call # "query"
    BY <1>3 DEF Store
  <2>2. /\ DOMAIN datasets' = {k} \cup DOMAIN datasets /\ datasets'[k] = SortedByTime(rows)
        /\ \A j \in DOMAIN datasets : j # k => datasets'[j] = datasets[j]
    BY <2>1 DEF Put
  <2>3. SortedByTime(rows) \in Seq(Candles) /\ InTime(SortedByTime(rows))
    BY SortedFacts, SortedInTime
  <2>4. IsValid(rows) => SortedByTime(rows) = rows
    BY ValidRises, RisingIsSorted
  <2>5. \A j \in DOMAIN datasets' : datasets'[j] \in Seq(Candles) /\ InTime(datasets'[j])
    BY <2>2, <2>3 DEF StoreInv
  <2>6. \A j \in DOMAIN datasets' \ forced' : IsValid(datasets'[j])
    BY <2>1, <2>2, <2>4 DEF StoreInv
  <2>7. \A j : j # k => Existing(j)' = Existing(j)
    BY <2>2 DEF Existing
  <2>8. ASSUME NEW q \in DOMAIN queryCache'
        PROVE  q[2] \in Nat \X Nat /\ queryCache'[q] = QueryDateRange(Existing(q[1])', q[2])
    <3>1. q \in DOMAIN queryCache /\ q[1] # k /\ queryCache'[q] = queryCache[q]
      BY <2>1 DEF QueriesWithout
    <3> QED
      BY <2>7, <3>1 DEF StoreInv
  <2> QED
    BY <2>1, <2>5, <2>6, <2>8 DEF StoreInv
<1> QED
  BY <1>1, <1>2, <1>3

\* A query caches what it found in the store, or answers what was cached.
LEMMA QueryKeeps ==
  ASSUME StoreInv, NEW k, NEW range \in Nat \X Nat, GetDateRange(k, range),
         UNCHANGED <<datasets, instruments, forced>>
  PROVE  StoreInv'
<1> DEFINE q == <<k, range>>
           result == IF Cached(q) THEN queryCache[q] ELSE QueryDateRange(Existing(k), range)
           fails == ~ Cached(q) /\ \E i \in DOMAIN Existing(k) : Existing(k)[i].zone = "aware"
<1>1. \A j : Existing(j)' = Existing(j)
  BY DEF Existing
<1>2. result = QueryDateRange(Existing(k), range)
  BY DEF Cached, StoreInv
<1>3. CASE fails
  <2>1. outcome' = [call |-> "query", error |-> "TypeError"] /\ UNCHANGED queryCache
    BY <1>3 DEF GetDateRange
  <2>2. outcome'.error # "none"
    BY <2>1
  <2> QED
    BY <1>1, <2>1, <2>2 DEF StoreInv
<1>4. CASE ~ fails
  <2>1. /\ outcome' = [call |-> "query", error |-> "none", key |-> k, range |-> range, result |-> result]
        /\ queryCache' = Put(queryCache, q, result)
    BY <1>4 DEF GetDateRange, SetQuery
  <2> HIDE DEF result
  <2>2. outcome'.key = k /\ outcome'.range = range /\ outcome'.result = result
    BY <2>1
  <2>3. /\ DOMAIN queryCache' = {q} \cup DOMAIN queryCache /\ queryCache'[q] = result
        /\ \A p \in DOMAIN queryCache : p # q => queryCache'[p] = queryCache[p]
    <3> HIDE DEF q
    <3> QED
      BY <2>1 DEF Put
  <2>4. ASSUME NEW p \in DOMAIN queryCache'
        PROVE  p[2] \in Nat \X Nat /\ queryCache'[p] = QueryDateRange(Existing(p[1]), p[2])
    <3>1. CASE p = q
      BY <1>2, <2>3, <3>1
    <3>2. CASE p # q
      BY <2>3, <3>2 DEF StoreInv
    <3> QED
      BY <3>1, <3>2
  <2> QED
    BY <1>1, <1>2, <2>2, <2>4 DEF StoreInv
<1> QED
  BY <1>3, <1>4

LEMMA RangesFacts ==
  ASSUME NEW range \in Ranges
  PROVE  range \in Nat \X Nat
BY DataAssumption DEF DataAssumption

LEMMA BatchFacts ==
  ASSUME NEW rows \in Batches
  PROVE  rows \in Seq(Candles)
BY DataAssumption DEF DataAssumption, Batches, BoundedSeq, SeqOf

LEMMA StoreSteps ==
  ASSUME StoreInv, DataNext
  PROVE  StoreInv'
<1>1. CASE Import
  <2>1. PICK k \in Keys, rows \in Batches, force \in BOOLEAN :
          \/ \E range \in Ranges : ImportFromProvider(k, rows, range, force)
          \/ AppendDataset(k, rows, force)
    BY <1>1 DEF Import
  <2>2. rows \in Seq(Candles)
    BY BatchFacts
  <2>3. ASSUME NEW range \in Ranges, ImportFromProvider(k, rows, range, force)
        PROVE  StoreInv'
    <3>1. Scanned(rows, range) \in Seq(Candles)
      BY <2>2, ScannedFacts
    <3>2. CASE \E i \in DOMAIN rows : rows[i].zone = "aware"
      BY <2>3, <3>2, RaisedKeeps DEF ImportFromProvider
    <3>3. CASE ~ \E i \in DOMAIN rows : rows[i].zone = "aware"
      <4>1. Store(k, Scanned(rows, range), force)
        BY <2>3, <3>3 DEF ImportFromProvider, Fetch
      <4> QED
        BY <3>1, <4>1, StoreKeeps
    <3> QED
      BY <3>2, <3>3
  <2>4. ASSUME AppendDataset(k, rows, force)
        PROVE  StoreInv'
    <3>1. Existing(k) \o rows \in Seq(Candles)
      BY <2>2, ExistingIs, ConcatProperties
    <3>2. Store(k, Existing(k) \o rows, force)
      BY <2>4 DEF AppendDataset
    <3> QED
      BY <3>1, <3>2, StoreKeeps
  <2> QED
    BY <2>1, <2>3, <2>4
<1>2. CASE ImportFromStub
  BY <1>2, RaisedKeeps DEF ImportFromStub
<1>3. CASE Query
  <2>1. PICK k \in Keys, range \in Ranges : GetDateRange(k, range)
    BY <1>3 DEF Query
  <2>2. UNCHANGED <<datasets, instruments, forced>>
    BY <1>3 DEF Query
  <2> QED
    BY <2>1, <2>2, RangesFacts, QueryKeeps
<1> QED
  BY <1>1, <1>2, <1>3 DEF DataNext

\* The store's invariant, for any data sets, candles, ranges and thresholds, and calls
\* of any number in any order.
THEOREM StoreInvariant == Spec => []StoreInv
<1>1. Init => StoreInv
  BY StoreStarts DEF Init
<1>2. StoreInv /\ [Next]_vars => StoreInv'
  <2> SUFFICES ASSUME StoreInv, [Next]_vars
               PROVE  StoreInv'
    OBVIOUS
  <2>1. CASE DataNext
    BY <2>1, StoreSteps
  <2>2. CASE UNCHANGED dataVars
    BY <2>2, StoreStays
  <2> QED
    BY <2>1, <2>2 DEF Next, vars
<1> QED
  BY <1>1, <1>2, PTL DEF Spec

\* What the invariant says of the last answer and of the cache.
LEMMA AnswersCurrent ==
  ASSUME StoreInv
  PROVE  QueriesAreCurrent
<1>1. ASSUME outcome.call = "query", outcome.error = "none"
      PROVE  /\ outcome.result = Scanned(Existing(outcome.key), outcome.range)
             /\ \A i, j \in DOMAIN outcome.result :
                  i < j => outcome.result[i].time <= outcome.result[j].time
  <2>1. /\ outcome.range \in Nat \X Nat
        /\ outcome.result = QueryDateRange(Existing(outcome.key), outcome.range)
    BY <1>1 DEF StoreInv
  <2>2. outcome.result = Scanned(Existing(outcome.key), outcome.range) /\ InTime(outcome.result)
    BY <2>1, ExistingIs, QueryIsScan
  <2> QED
    BY <2>2 DEF InTime
<1> QED
  BY <1>1 DEF QueriesAreCurrent, StoreInv

\* A query finds by its binary searches and its cache what a scan of the stored candles
\* would, in time order, after any calls; and what nobody forced is clean as a whole.
THEOREM StoreIsTrusted == Spec => []StoreTrusted
<1>1. StoreInv => StoreTrusted
  <2> SUFFICES ASSUME StoreInv
               PROVE  StoreTrusted
    OBVIOUS
  <2>1. QueriesAreCurrent
    BY AnswersCurrent
  <2>2. CleanUnlessForced
    BY ValidIsClean DEF CleanUnlessForced, StoreInv
  <2> QED
    BY <2>1, <2>2 DEF StoreTrusted
<1> QED
  BY <1>1, StoreInvariant, PTL

-----------------------------------------------------------------------------
(* The search of a window *)

\* What a training run gave, under the combination it ran.
SearchResult(r) == IsOutcome(r.outcome)

\* A metric of a result is a number, or missing.
LEMMA MetricIs ==
  ASSUME NEW r, SearchResult(r), NEW m \in Metrics
  PROVE  ExtractMetric(r, m) \in Int \cup {NoValue}
<1>1. CASE Completed(r.outcome)
  <2>1. r.outcome[m] \in Int \cup {NoValue}
    BY <1>1 DEF Completed, Failed, SearchResult, IsOutcome
  <2> QED
    BY <1>1, <2>1 DEF ExtractMetric
<1>2. CASE ~ Completed(r.outcome)
  BY <1>2 DEF ExtractMetric
<1> QED
  BY <1>1, <1>2

\* The values of a function over a finite set are finitely many.
LEMMA ImageFinite ==
  ASSUME NEW D, IsFiniteSet(D), NEW f
  PROVE  IsFiniteSet({f[x] : x \in D})
<1> DEFINE T == {f[x] : x \in D}
           g == [x \in D |-> f[x]]
<1>1. g \in Surjection(D, T)
  BY DEF Surjection
<1> QED
  <2> HIDE DEF g, T
  <2>1. IsFiniteSet(T)
    BY <1>1, FS_Surjection
  <2> QED
    BY <2>1 DEF T

\* A list of results, and the values that are present of a metric.
LEMMA PresentFacts ==
  ASSUME NEW found, IsFiniteSet(DOMAIN found),
         \A i \in DOMAIN found : SearchResult(found[i]), NEW m \in Metrics
  PROVE  IsFiniteSet(Present(found, m)) /\ Present(found, m) \subseteq Int
<1> DEFINE D == DOMAIN found
           f == [i \in D |-> ExtractMetric(found[i], m)]
           V == {f[i] : i \in D}
<1>1. IsFiniteSet(V)
  <2> HIDE DEF f
  <2> QED
    BY ImageFinite
<1>2. Present(found, m) = V \ {NoValue}
  BY DEF Present
<1>3. \A i \in D : f[i] \in Int \cup {NoValue}
  BY MetricIs
<1> HIDE DEF f
<1>4. V \ {NoValue} \subseteq Int
  BY <1>3
<1>5. IsFiniteSet(V \ {NoValue})
  <2> HIDE DEF V
  <2> QED
    BY <1>1, FS_Difference
<1> QED
  BY <1>2, <1>4, <1>5

\* A list of results, each of which says of every metric what it was.
Measured(found) == IsFiniteSet(DOMAIN found) /\ \A i \in DOMAIN found : SearchResult(found[i])

\* What a search weighs is some of the metrics.
LEMMA WeighedFacts ==
  /\ IsFiniteSet(DOMAIN Weights)
  /\ \A m \in DOMAIN Weights : m \in Metrics /\ Weights[m] \in Int
<1>1. /\ IsFiniteSet(Metrics) /\ DOMAIN Weights \subseteq Metrics
      /\ \A m \in DOMAIN Weights : Weights[m] \in Int
  BY WindowsAssumption DEF WindowsAssumption, SearchAccepted
<1> QED
  BY <1>1, FS_Subset

\* A span is a positive number.
LEMMA SpanIs ==
  ASSUME NEW found, Measured(found), NEW m \in Metrics
  PROVE  /\ Span(found, m) \in Nat /\ Span(found, m) > 0
<1> DEFINE present == Present(found, m)
<1>1. IsFiniteSet(present) /\ present \subseteq Int
  BY PresentFacts DEF Measured
<1>2. Span(found, m) = IF present = {} \/ Max(present) = Min(present) THEN 1
                       ELSE Max(present) - Min(present)
  BY DEF Span
<1> HIDE DEF present
<1>3. present # {} => Max(present) \in Int /\ Min(present) \in Int /\ Max(present) >= Min(present)
  BY <1>1, MaxMinOf
<1> QED
  BY <1>2, <1>3

\* The scale holds every span at least once.
LEMMA ScaleIs ==
  ASSUME NEW found, Measured(found)
  PROVE  /\ Scale(found) \in Nat
         /\ \A m \in DOMAIN Weights : /\ Scale(found) \div Span(found, m) \in Nat
                                      /\ Scale(found) \div Span(found, m) > 0
<1> DEFINE W == DOMAIN Weights
           f == [m \in W |-> Span(found, m)]
<1>1. Scale(found) = ProductOn(f, W)
  BY DEF Scale, ProductOn
<1>2. \A m \in W : f[m] = Span(found, m)
  OBVIOUS
<1>3. \A m \in W : f[m] \in Nat /\ f[m] > 0
  BY WeighedFacts, SpanIs
<1> HIDE DEF f
<1>4. Scale(found) \in Nat /\ \A m \in W : f[m] <= Scale(found)
  BY <1>1, <1>3, WeighedFacts, ProductFacts
<1>5. ASSUME NEW m \in W
      PROVE  /\ Scale(found) \div Span(found, m) \in Nat
             /\ Scale(found) \div Span(found, m) > 0
  <2>1. PICK a \in Nat, b \in Nat : a = Scale(found) /\ b = Span(found, m)
    BY <1>2, <1>3, <1>4
  <2>2. b > 0 /\ b <= a
    BY <1>2, <1>3, <1>4, <2>1
  <2>3. a \div b \in Nat /\ a \div b > 0
    BY <2>2, SMTT(30)
  <2> QED
    BY <2>1, <2>3
<1> QED
  BY <1>4, <1>5

\* A share is a number, and a larger value has a larger one.
LEMMA ShareIs ==
  ASSUME NEW found, Measured(found), NEW m \in DOMAIN Weights, NEW x \in Present(found, m)
  PROVE  /\ Share(x, found, m) \in Int
         /\ \A y \in Present(found, m) : x < y => Share(x, found, m) < Share(y, found, m)
<1> DEFINE present == Present(found, m)
           part == Scale(found) \div Span(found, m)
           low == Min(present)
<1>1. IsFiniteSet(present) /\ present \subseteq Int
  BY WeighedFacts, PresentFacts DEF Measured
<1>2. \A y \in present : Share(y, found, m) = part * (y - low)
  BY DEF Share
<1>3. part \in Nat /\ part > 0
  BY ScaleIs
<1>4. low \in Int
  <2> HIDE DEF present
  <2>1. present # {}
    BY DEF present
  <2> QED
    BY <1>1, <2>1, MaxMinOf
<1> HIDE DEF present, part, low
<1>5. x \in present /\ x \in Int
  BY <1>1 DEF present
<1>6. PICK k \in Nat, a \in Int : k = part /\ a = x - low
  BY <1>3, <1>4, <1>5
<1>7. Share(x, found, m) = k * a /\ k * a \in Int
  BY <1>2, <1>5, <1>6
<1>8. ASSUME NEW y \in present, x < y
      PROVE  Share(x, found, m) < Share(y, found, m)
  <2>1. PICK b \in Int : b = y - low
    BY <1>1, <1>4
  <2>2. a < b
    BY <1>1, <1>4, <1>5, <1>6, <1>8, <2>1
  <2>3. k > 0 /\ Share(y, found, m) = k * b
    BY <1>2, <1>3, <1>6, <2>1
  <2>4. k * a < k * b
    BY <2>2, <2>3, SMTT(30)
  <2> QED
    BY <1>7, <2>3, <2>4
<1> QED
  BY <1>7, <1>8 DEF present

LEMMA NormalizedIs ==
  ASSUME NEW found, Measured(found), NEW m \in DOMAIN Weights, NEW x \in Present(found, m)
  PROVE  Normalized(x, found, m) \in Int
<1>1. Share(x, found, m) \in Int
  BY ShareIs
<1>2. Scale(found) \in Int
  BY ScaleIs
<1> QED
  BY <1>1, <1>2 DEF Normalized

\* What a result's score takes from a metric is a number.
LEMMA ScoredIs ==
  ASSUME NEW found, Measured(found), NEW i \in DOMAIN found, NEW m \in DOMAIN Weights
  PROVE  /\ Scored(found, i, m) \in Int
         /\ ExtractMetric(found[i], m) # NoValue
              => ExtractMetric(found[i], m) \in Present(found, m)
<1> DEFINE value == ExtractMetric(found[i], m)
<1>1. CASE value = NoValue
  BY <1>1 DEF Scored
<1>2. CASE value # NoValue
  <2>1. value \in Present(found, m)
    BY <1>2 DEF Present
  <2>2. Normalized(value, found, m) \in Int
    <3> HIDE DEF value
    <3> QED
      BY <2>1, NormalizedIs
  <2>3. Scored(found, i, m) = Weights[m] * Normalized(value, found, m)
    BY <1>2 DEF Scored
  <2>4. PICK a \in Int, b \in Int : a = Weights[m] /\ b = Normalized(value, found, m)
    BY <2>2, WeighedFacts
  <2>5. a * b \in Int
    OBVIOUS
  <2> QED
    BY <2>1, <2>3, <2>4, <2>5
<1> QED
  BY <1>1, <1>2

\* A score is the sum of what it takes from each metric, a number.
LEMMA ScoreIs ==
  ASSUME NEW found, Measured(found), NEW i \in DOMAIN found
  PROVE  /\ Score(found, i) = SumOn([m \in DOMAIN Weights |-> Scored(found, i, m)], DOMAIN Weights)
         /\ Score(found, i) \in Int
<1> DEFINE W == DOMAIN Weights
           f == [m \in W |-> Scored(found, i, m)]
<1>1. Score(found, i) = SumOn(f, W)
  BY DEF Score, SumOn
<1>2. \A m \in W : f[m] \in Int
  BY ScoredIs
<1>3. SumOn(f, W) \in Int
  <2> HIDE DEF f, W
  <2>1. IsFiniteSet(W)
    BY WeighedFacts DEF W
  <2> QED
    BY <1>2, <2>1, SumType
<1> QED
  BY <1>1, <1>3

\* What results are sorted by is a pair of numbers.
LEMMA KeyIs ==
  ASSUME NEW found, IsFiniteSet(DOMAIN found),
         \A i \in DOMAIN found : SearchResult(found[i]), NEW i \in DOMAIN found,
         NEW by \in Metrics \cup {"WeightedScore"}
  PROVE  KeyOf(found, i, by) \in Int \X Int
<1>1. CASE by = "WeightedScore"
  <2>1. Score(found, i) \in Int
    BY ScoreIs DEF Measured
  <2>2. -Score(found, i) \in Int
    BY <2>1
  <2> QED
    BY <1>1, <2>2 DEF KeyOf
<1>2. CASE by # "WeightedScore"
  <2> DEFINE value == ExtractMetric(found[i], by)
  <2>1. value \in Int \cup {NoValue}
    BY <1>2, MetricIs
  <2>2. KeyOf(found, i, by)
          = IF value = NoValue THEN <<1, 0>> ELSE <<0, IF by \in LowerIsBetter THEN value ELSE -value>>
    BY <1>2 DEF KeyOf, SortKey
  <2> HIDE DEF value
  <2>3. value # NoValue => -value \in Int
    BY <2>1
  <2> QED
    BY <2>1, <2>2, <2>3
<1> QED
  BY <1>1, <1>2

\* Outranks orders pairs of numbers.
LEMMA OutranksFacts ==
  ASSUME NEW a \in Int \X Int, NEW b \in Int \X Int, NEW c \in Int \X Int
  PROVE  /\ ~ Outranks(a, a) /\ (Outranks(a, b) \/ a = b \/ Outranks(b, a))
         /\ ~ (Outranks(a, b) /\ Outranks(b, a))
         /\ Outranks(a, b) /\ Outranks(b, c) => Outranks(a, c)
BY DEF Outranks

\* The rank of a result is one of the list's.
LEMMA NotBehindFacts ==
  ASSUME NEW n \in Nat, NEW key \in [1 .. n -> Int \X Int], NEW i \in 1 .. n
  PROVE  /\ NotBehind(key, i) \subseteq 1 .. n /\ i \in NotBehind(key, i)
         /\ IsFiniteSet(NotBehind(key, i)) /\ Cardinality(NotBehind(key, i)) \in 1 .. n
<1>1. NotBehind(key, i) \subseteq 1 .. n /\ i \in NotBehind(key, i)
  BY DEF NotBehind
<1>2. IsFiniteSet(1 .. n) /\ Cardinality(1 .. n) = n
  BY FS_Interval
<1>3. IsFiniteSet(NotBehind(key, i)) /\ Cardinality(NotBehind(key, i)) <= n
  BY <1>1, <1>2, FS_Subset
<1>4. Cardinality(NotBehind(key, i)) \in Nat /\ Cardinality(NotBehind(key, i)) # 0
  BY <1>1, <1>3, FS_CardinalityType, FS_EmptySet
<1> QED
  BY <1>1, <1>3, <1>4

\* A result that is not behind another one has the smaller rank.
LEMMA RanksOrdered ==
  ASSUME NEW n \in Nat, NEW key \in [1 .. n -> Int \X Int], NEW i \in 1 .. n, NEW j \in 1 .. n,
         j \in NotBehind(key, i), i # j
  PROVE  Cardinality(NotBehind(key, j)) < Cardinality(NotBehind(key, i))
<1>1. key[i] \in Int \X Int /\ key[j] \in Int \X Int
  OBVIOUS
<1>2. Outranks(key[j], key[i]) \/ (key[j] = key[i] /\ j <= i)
  BY DEF NotBehind
<1>3. i \notin NotBehind(key, j)
  <2>1. ~ Outranks(key[i], key[j])
    BY <1>1, <1>2, OutranksFacts
  <2>2. ~ (key[i] = key[j] /\ i <= j)
    BY <1>1, <1>2, OutranksFacts
  <2> QED
    BY <2>1, <2>2 DEF NotBehind
<1>4. ASSUME NEW k \in NotBehind(key, j)
      PROVE  k \in NotBehind(key, i)
  <2>1. k \in 1 .. n /\ (Outranks(key[k], key[j]) \/ (key[k] = key[j] /\ k <= j))
    BY DEF NotBehind
  <2>2. key[k] \in Int \X Int
    BY <2>1
  <2>3. Outranks(key[k], key[i]) \/ (key[k] = key[i] /\ k <= i)
    BY <1>1, <1>2, <2>1, <2>2, OutranksFacts
  <2> QED
    BY <2>1, <2>3 DEF NotBehind
<1> QED
  BY <1>3, <1>4, NotBehindFacts, Fewer

\* A ranking holds each result at its rank.
HeldByRank(found, ranked, key) ==
  /\ DOMAIN ranked = DOMAIN found
  /\ \A i \in DOMAIN found : /\ Cardinality(NotBehind(key, i)) \in DOMAIN found
                             /\ ranked[Cardinality(NotBehind(key, i))] = found[i]
  /\ \A m \in DOMAIN found : \E i \in DOMAIN found :
       Cardinality(NotBehind(key, i)) = m /\ ranked[m] = found[i]

KeysOf(found, by) == [i \in DOMAIN found |-> KeyOf(found, i, by)]

LEMMA RankFacts ==
  ASSUME NEW S, NEW found \in Seq(S), NEW by,
         \A i \in DOMAIN found : KeyOf(found, i, by) \in Int \X Int
  PROVE  HeldByRank(found, Rank(found, by), KeysOf(found, by))
<1> DEFINE n == Len(found)
           D == DOMAIN found
           key == [i \in D |-> KeyOf(found, i, by)]
           rank == [i \in D |-> Cardinality(NotBehind(key, i))]
           ranked == Rank(found, by)
<1>1. n \in Nat /\ D = 1 .. n /\ Cardinality(D) = n
  BY ListFacts
<1>2. key \in [1 .. n -> Int \X Int]
  BY <1>1
<1>3. ranked = Placed(found, rank)
  <2>1. DOMAIN rank = D /\ D = 1 .. Cardinality(D)
    BY <1>1
  <2>2. ranked = [m \in D |-> found[CHOOSE i \in D : rank[i] = m]]
    BY DEF Rank
  <2>3. Placed(found, rank) = [m \in 1 .. Cardinality(D) |-> found[CHOOSE i \in D : rank[i] = m]]
    BY DEF Placed
  <2> HIDE DEF rank, ranked, D
  <2> QED
    BY <2>1, <2>2, <2>3
<1> HIDE DEF ranked
<1>4. \A i \in D : rank[i] \in 1 .. n
  <2> HIDE DEF key
  <2> QED
    BY <1>1, <1>2, NotBehindFacts
<1>5. ASSUME NEW i \in D, NEW j \in D, i # j
      PROVE  rank[i] # rank[j]
  <2>1. key[i] \in Int \X Int /\ key[j] \in Int \X Int /\ i \in Nat /\ j \in Nat /\ DOMAIN key = D
    BY <1>1
  <2> HIDE DEF key
  <2>2. j \in NotBehind(key, i) \/ i \in NotBehind(key, j)
    <3>1. Outranks(key[j], key[i]) \/ Outranks(key[i], key[j]) \/ key[i] = key[j]
      BY <2>1, OutranksFacts
    <3> QED
      BY <2>1, <3>1 DEF NotBehind
  <2>3. PICK a, b : a = Cardinality(NotBehind(key, i)) /\ b = Cardinality(NotBehind(key, j))
    OBVIOUS
  <2>4. a < b \/ b < a
    BY <1>1, <1>2, <1>5, <2>2, <2>3, RanksOrdered
  <2>5. a \in Nat /\ b \in Nat
    <3>1. a \in 1 .. n /\ b \in 1 .. n
      BY <1>4, <2>3
    <3> QED
      BY <1>1, <3>1
  <2> QED
    BY <2>3, <2>4, <2>5
<1>6. rank \in [D -> 1 .. Cardinality(D)]
  BY <1>1, <1>4
<1>7. \A i \in D : rank[i] = Cardinality(NotBehind(key, i))
  OBVIOUS
<1>8. DOMAIN ranked = D
  BY DEF ranked, Rank
<1> HIDE DEF key, rank
<1>9. /\ \A i \in D : Placed(found, rank)[rank[i]] = found[i]
      /\ \A m \in 1 .. Cardinality(D) : \E i \in D : rank[i] = m
  <2>1. \A i, j \in D : rank[i] = rank[j] => i = j
    BY <1>5
  <2>2. PICK R \in SUBSET DOMAIN found : R = D
    OBVIOUS
  <2>3. rank \in [R -> 1 .. Cardinality(R)] /\ \A i, j \in R : rank[i] = rank[j] => i = j
    BY <1>6, <2>1, <2>2
  <2>4. /\ \A i \in R : Placed(found, rank)[rank[i]] = found[i]
        /\ \A m \in 1 .. Cardinality(R) : \E i \in R : rank[i] = m
    <3> HIDE DEF D
    <3>1. PICK f \in [R -> 1 .. Cardinality(R)] : f = rank
      BY <2>3
    <3>2. /\ \A i \in R : Placed(found, f)[f[i]] = found[i]
          /\ \A m \in 1 .. Cardinality(R) : \E i \in R : f[i] = m
      BY <2>3, <3>1, PlacedFacts
    <3> QED
      BY <3>1, <3>2
  <2> QED
    BY <2>2, <2>4
<1>10. \A i \in D : Cardinality(NotBehind(key, i)) \in D /\ ranked[Cardinality(NotBehind(key, i))] = found[i]
  BY <1>1, <1>3, <1>4, <1>7, <1>9
<1>11. \A m \in D : \E i \in D : Cardinality(NotBehind(key, i)) = m /\ ranked[m] = found[i]
  <2>1. \A m \in D : \E i \in D : rank[i] = m
    BY <1>1, <1>9
  <2> SUFFICES ASSUME NEW m \in D
               PROVE  \E i \in D : Cardinality(NotBehind(key, i)) = m /\ ranked[m] = found[i]
    OBVIOUS
  <2>2. PICK i \in D : rank[i] = m
    BY <2>1
  <2> QED
    BY <1>7, <1>10, <2>2
<1> QED
  BY <1>8, <1>10, <1>11 DEF key, ranked, HeldByRank, KeysOf

\* Of two results that have every metric, the one that is no worse on a metric takes no
\* less from it, and more if it is better.
LEMMA BetterScored ==
  ASSUME NEW found, Measured(found), NEW i \in DOMAIN found, NEW j \in DOMAIN found,
         NEW m \in DOMAIN Weights, Weights[m] > 0,
         ExtractMetric(found[i], m) # NoValue, ExtractMetric(found[j], m) # NoValue,
         ~ Better(found[j], found[i], m)
  PROVE  /\ Scored(found, j, m) <= Scored(found, i, m)
         /\ Better(found[i], found[j], m) => Scored(found, j, m) < Scored(found, i, m)
<1> DEFINE x == ExtractMetric(found[i], m)
           y == ExtractMetric(found[j], m)
<1>1. x \in Present(found, m) /\ y \in Present(found, m)
  BY ScoredIs
<1>2. x \in Int /\ y \in Int
  <2>1. x \in Int \cup {NoValue} /\ y \in Int \cup {NoValue}
    BY WeighedFacts, MetricIs DEF Measured
  <2> QED
    BY <2>1
<1>3. IF m \in LowerIsBetter THEN x <= y ELSE y <= x
  BY <1>2 DEF Better
<1>4. Better(found[i], found[j], m) => x # y
  BY <1>2 DEF Better
<1>5. /\ Scored(found, i, m) = Weights[m] * Normalized(x, found, m)
      /\ Scored(found, j, m) = Weights[m] * Normalized(y, found, m)
  BY DEF Scored
<1> HIDE DEF x, y
<1>6. PICK a \in Int, b \in Int : a = Normalized(x, found, m) /\ b = Normalized(y, found, m)
  BY <1>1, NormalizedIs
<1>7. b <= a /\ (x # y => b < a)
  <2>1. PICK p \in Int, q \in Int : p = Share(x, found, m) /\ q = Share(y, found, m)
    BY <1>1, ShareIs
  <2>2. (x < y => p < q) /\ (y < x => q < p) /\ (x = y => p = q)
    BY <1>1, <2>1, ShareIs
  <2>3. Scale(found) \in Int
    BY ScaleIs
  <2>4. CASE m \in LowerIsBetter
    <3>1. a = Scale(found) - p /\ b = Scale(found) - q
      BY <1>6, <2>1, <2>4 DEF Normalized
    <3> QED
      BY <1>2, <1>3, <2>2, <2>3, <2>4, <3>1
  <2>5. CASE m \notin LowerIsBetter
    <3>1. a = p /\ b = q
      BY <1>6, <2>1, <2>5 DEF Normalized
    <3> QED
      BY <1>2, <1>3, <2>2, <2>5, <3>1
  <2> QED
    BY <2>4, <2>5
<1>8. PICK w \in Int : w = Weights[m]
  BY WeighedFacts
<1>9. w > 0
  BY <1>8
<1>10. w * b <= w * a /\ (b < a => w * b < w * a)
  BY <1>7, <1>9, SMTT(30)
<1> QED
  BY <1>4, <1>5, <1>6, <1>7, <1>8, <1>10

\* Where every weight counts, a result that dominates another one scores more.
LEMMA DominantScores ==
  ASSUME NEW found, Measured(found), NEW i \in DOMAIN found, NEW j \in DOMAIN found,
         \A m \in DOMAIN Weights : Weights[m] > 0, Dominates(found[i], found[j])
  PROVE  Score(found, j) < Score(found, i)
<1> DEFINE W == DOMAIN Weights
           f == [m \in W |-> Scored(found, j, m)]
           g == [m \in W |-> Scored(found, i, m)]
<1>1. Score(found, j) = SumOn(f, W) /\ Score(found, i) = SumOn(g, W)
  BY ScoreIs
<1>2. ASSUME NEW m \in W
      PROVE  /\ f[m] \in Int /\ g[m] \in Int /\ f[m] <= g[m]
             /\ Better(found[i], found[j], m) => f[m] < g[m]
  <2>1. /\ ExtractMetric(found[i], m) # NoValue /\ ExtractMetric(found[j], m) # NoValue
        /\ ~ Better(found[j], found[i], m)
    BY DEF Dominates, FullyMeasured
  <2>2. f[m] = Scored(found, j, m) /\ g[m] = Scored(found, i, m)
    OBVIOUS
  <2> HIDE DEF f, g
  <2> QED
    BY <2>1, <2>2, ScoredIs, BetterScored
<1>3. PICK m \in W : Better(found[i], found[j], m)
  BY DEF Dominates
<1>4. IsFiniteSet(W)
  BY WeighedFacts
<1> HIDE DEF f, g, W
<1> QED
  BY <1>1, <1>2, <1>3, <1>4, SumLarger

\* A ranking is the list in an order that puts nothing behind what it dominates.
LEMMA RankedWell ==
  ASSUME NEW S, NEW found \in Seq(S), Measured(found), NEW by,
         \A i \in DOMAIN found : KeyOf(found, i, by) \in Int \X Int
  PROVE  LET ranked == Rank(found, by)
         IN /\ ToSet(ranked) = ToSet(found) /\ Len(ranked) = Len(found)
            /\ by = "WeightedScore" /\ (\A m \in DOMAIN Weights : Weights[m] > 0) =>
                 \A p, q \in DOMAIN ranked : p < q => ~Dominates(ranked[q], ranked[p])
<1> DEFINE D == DOMAIN found
           key == [i \in D |-> KeyOf(found, i, by)]
           at == [i \in D |-> Cardinality(NotBehind(key, i))]
           ranked == Rank(found, by)
<1>2. /\ D = 1 .. Len(found) /\ Len(found) \in Nat /\ IsFiniteSet(D)
  BY ListFacts
<1>4. /\ DOMAIN ranked = D
      /\ \A i \in D : at[i] \in D /\ ranked[at[i]] = found[i]
      /\ \A n \in D : \E i \in D : at[i] = n /\ ranked[n] = found[i]
  <2>1. HeldByRank(found, ranked, KeysOf(found, by))
    BY RankFacts
  <2>2. key = KeysOf(found, by)
    BY DEF KeysOf
  <2>3. \A i \in D : at[i] = Cardinality(NotBehind(key, i))
    OBVIOUS
  <2> HIDE DEF at, ranked, key
  <2>4. /\ DOMAIN ranked = D
        /\ \A i \in D : /\ Cardinality(NotBehind(key, i)) \in D
                         /\ ranked[Cardinality(NotBehind(key, i))] = found[i]
        /\ \A n \in D : \E i \in D : Cardinality(NotBehind(key, i)) = n /\ ranked[n] = found[i]
    BY <2>1, <2>2 DEF HeldByRank
  <2> HIDE DEF D
  <2> QED
    BY <2>3, <2>4
<1>5. ranked = [n \in D |-> ranked[n]]
  BY DEF Rank
<1>6. Len(ranked) = Len(found)
  <2> HIDE DEF ranked
  <2>1. PICK n \in Nat : n = Len(found)
    BY <1>2
  <2>2. DOMAIN ranked = 1 .. n
    BY <1>2, <1>4, <2>1
  <2>3. Len(ranked) = n
    BY <2>2
  <2> QED
    BY <2>1, <2>3
<1>7. key \in [1 .. Len(found) -> Int \X Int] /\ \A i \in D : key[i] = KeyOf(found, i, by)
  BY <1>2
<1>10. \A i \in D : at[i] = Cardinality(NotBehind(key, i))
  OBVIOUS
<1> HIDE DEF ranked, key, at
<1>8. ToSet(ranked) = ToSet(found)
  <2> HIDE DEF D
  <2>1. ToSet(ranked) = {ranked[n] : n \in D} /\ ToSet(found) = {found[i] : i \in D}
    BY <1>4 DEF ToSet, D
  <2> QED
    BY <1>4, <2>1
<1>9. ASSUME by = "WeightedScore", \A m \in DOMAIN Weights : Weights[m] > 0,
             NEW p \in D, NEW q \in D, p < q, Dominates(ranked[q], ranked[p])
      PROVE  FALSE
  <2>1. PICK i \in D, j \in D : at[i] = p /\ ranked[p] = found[i] /\ at[j] = q /\ ranked[q] = found[j]
    BY <1>4
  <2>2. Score(found, i) < Score(found, j) /\ Score(found, i) \in Int /\ Score(found, j) \in Int
    BY <1>9, <2>1, DominantScores, ScoreIs
  <2>3. key[i] = <<0, -Score(found, i)>> /\ key[j] = <<0, -Score(found, j)>>
    BY <1>7, <1>9 DEF KeyOf
  <2>4. Outranks(key[j], key[i])
    BY <2>2, <2>3 DEF Outranks
  <2>5. DOMAIN key = D
    BY <1>2, <1>7
  <2>6. j \in NotBehind(key, i)
    BY <2>4, <2>5 DEF NotBehind
  <2>7. i # j
    BY <2>2
  <2>8. PICK n \in Nat : n = Len(found) /\ D = 1 .. n
    BY <1>2
  <2>9. Cardinality(NotBehind(key, j)) < Cardinality(NotBehind(key, i))
    BY <1>7, <2>6, <2>7, <2>8, RanksOrdered
  <2>10. q < p
    BY <1>10, <2>1, <2>9
  <2> QED
    BY <1>2, <1>9, <2>10
<1> QED
  BY <1>4, <1>6, <1>8, <1>9 DEF ranked

\* The first completed result of a ranking is one of the results, and no completed one
\* outranks it.
LEMMA BestIsBest ==
  ASSUME NEW S, NEW found \in Seq(S), NEW by,
         \A i \in DOMAIN found : KeyOf(found, i, by) \in Int \X Int,
         BestCompleted(Rank(found, by)) # NoValue
  PROVE  \E best \in DOMAIN found :
           /\ found[best] = BestCompleted(Rank(found, by)) /\ Completed(found[best].outcome)
           /\ \A k \in DOMAIN found : Completed(found[k].outcome)
                => ~ Outranks(KeyOf(found, k, by), KeyOf(found, best, by))
<1> DEFINE n == Len(found)
           D == DOMAIN found
           key == [i \in D |-> KeyOf(found, i, by)]
           ranked == Rank(found, by)
           done == {m \in DOMAIN ranked : Completed(ranked[m].outcome)}
           first == Min(done)
<1>1. n \in Nat /\ D = 1 .. n /\ IsFiniteSet(D)
  BY ListFacts
<1>2. key \in [1 .. n -> Int \X Int]
  BY <1>1
<1>3. /\ DOMAIN ranked = D
      /\ \A i \in D : Cardinality(NotBehind(key, i)) \in D /\ ranked[Cardinality(NotBehind(key, i))] = found[i]
      /\ \A m \in D : \E i \in D : Cardinality(NotBehind(key, i)) = m /\ ranked[m] = found[i]
  <2>1. HeldByRank(found, ranked, KeysOf(found, by))
    BY RankFacts
  <2>2. key = KeysOf(found, by)
    BY DEF KeysOf
  <2> HIDE DEF ranked, key
  <2> QED
    BY <2>1, <2>2 DEF HeldByRank
<1> HIDE DEF ranked
<1>4. done # {} /\ BestCompleted(ranked) = ranked[first]
  BY DEF BestCompleted, ranked
<1>5. first \in done /\ \A m \in done : first <= m
  <2>1. IsFiniteSet(done)
    BY <1>1, <1>3, FS_Subset
  <2>2. \A m \in done : m \in Int
    BY <1>1, <1>3
  <2> HIDE DEF done
  <2> QED
    BY <1>4, <2>1, <2>2, MaxMinOf
<1>6. PICK best \in D : Cardinality(NotBehind(key, best)) = first /\ ranked[first] = found[best]
  <2> HIDE DEF key
  <2> QED
    BY <1>3, <1>5
<1>7. ASSUME NEW k \in D, Completed(found[k].outcome)
      PROVE  ~ Outranks(key[k], key[best])
  <2> SUFFICES ASSUME Outranks(key[k], key[best])
               PROVE  FALSE
    OBVIOUS
  <2>1. DOMAIN key = D
    OBVIOUS
  <2> HIDE DEF key
  <2>2. k \in NotBehind(key, best)
    BY <2>1 DEF NotBehind
  <2>3. k # best
    BY <1>1, <1>2, OutranksFacts
  <2>4. PICK m : m = Cardinality(NotBehind(key, k))
    OBVIOUS
  <2>5. m < first
    BY <1>1, <1>2, <1>6, <2>2, <2>3, <2>4, RanksOrdered
  <2>6. m \in D /\ ranked[m] = found[k]
    BY <1>3, <2>4
  <2>7. m \in done
    BY <1>3, <1>7, <2>6
  <2>8. first \in D
    BY <1>3, <1>5
  <2>9. first <= m /\ m \in Int /\ first \in Int
    <3> HIDE DEF done, first
    <3> QED
      BY <1>1, <1>5, <2>6, <2>7, <2>8
  <2> QED
    BY <2>5, <2>9
<1>8. found[best] = BestCompleted(ranked) /\ Completed(found[best].outcome)
  BY <1>4, <1>5, <1>6
<1> QED
  BY <1>7, <1>8 DEF ranked

\* A number below a product, as a row and a place in it.
LEMMA RowAndPlace ==
  ASSUME NEW rows \in Nat, NEW count \in Nat \ {0}, NEW n \in 1 .. rows * count
  PROVE  /\ (n - 1) \div count + 1 \in 1 .. rows /\ ((n - 1) % count) + 1 \in 1 .. count
         /\ n = ((n - 1) \div count) * count + (((n - 1) % count) + 1)
<1>1. rows * count \in Nat
  BY SMTT(30)
<1>2. PICK m \in Nat : m = n - 1
  BY <1>1
<1>3. PICK q \in Int, r \in Int : q = m \div count /\ r = m % count
  OBVIOUS
<1>4. m = q * count + r /\ r \in 0 .. count - 1
  BY <1>3, SMTT(30)
<1>5. q >= 0
  BY <1>3, <1>4, SMTT(30)
<1>6. m < rows * count
  BY <1>1, <1>2
<1>7. q < rows
  <2> SUFFICES ASSUME q >= rows PROVE FALSE
    BY <1>3
  <2>1. q * count >= rows * count
    BY SMTT(30)
  <2> QED
    BY <1>1, <1>4, <1>6, <2>1
<1> QED
  BY <1>2, <1>3, <1>4, <1>5, <1>7

\* An axis has a finite range to go through in steps.
IsAxis(a) ==
  a.minimum \in Int /\ a.maximum \in Int /\ a.step \in Nat \ {0} /\ a.minimum < a.maximum

\* The values of an axis: from its least one on, a step apart.
LEMMA ValuesFacts ==
  ASSUME NEW a, IsAxis(a)
  PROVE  /\ Len(Values(a)) = Round(a.maximum - a.minimum, a.step) + 1
         /\ Len(Values(a)) \in Nat \ {0} /\ DOMAIN Values(a) = 1 .. Len(Values(a))
         /\ \A i \in DOMAIN Values(a) : Values(a)[i] = a.minimum + (i - 1) * a.step /\ Values(a)[i] \in Int
         /\ \A i, j \in DOMAIN Values(a) : i < j => Values(a)[i] < Values(a)[j]
<1>1. PICK d \in Nat, step \in Nat \ {0}, low \in Int :
        d = a.maximum - a.minimum /\ step = a.step /\ low = a.minimum
  BY DEF IsAxis
<1>2. PICK steps \in Nat : steps = Round(a.maximum - a.minimum, a.step)
  <2>1. Round(d, step) \in Nat
    <3>1. d \div step \in Nat
      OBVIOUS
    <3> QED
      BY <3>1 DEF Round
  <2> QED
    BY <1>1, <2>1
<1>3. Values(a) = [i \in 1 .. steps + 1 |-> low + (i - 1) * step]
  BY <1>1, <1>2 DEF Values
<1>4. Len(Values(a)) = steps + 1 /\ DOMAIN Values(a) = 1 .. steps + 1
  BY <1>3
<1>5. ASSUME NEW i \in 1 .. steps + 1
      PROVE  Values(a)[i] = low + (i - 1) * step /\ Values(a)[i] \in Int
  <2>1. PICK k \in Int : k = i - 1
    OBVIOUS
  <2>2. k * step \in Int
    OBVIOUS
  <2> QED
    BY <1>3, <2>1, <2>2
<1>6. ASSUME NEW i \in 1 .. steps + 1, NEW j \in 1 .. steps + 1, i < j
      PROVE  Values(a)[i] < Values(a)[j]
  <2>1. PICK k \in Int, l \in Int : k = i - 1 /\ l = j - 1
    OBVIOUS
  <2>2. k < l
    BY <1>6, <2>1
  <2>3. k * step < l * step /\ k * step \in Int /\ l * step \in Int
    BY <2>2, SMTT(30)
  <2> QED
    BY <1>3, <2>1, <2>3
<1> QED
  BY <1>1, <1>2, <1>4, <1>5, <1>6

\* What a grid is crossed from: one combination, of nothing.
NoAxis == << [name \in {} |-> 0] >>

\* One more axis of the grids, and of their lengths.
GridStep(g, s, k) == IF k = 0 THEN NoAxis ELSE Crossed(g[k - 1], s[k])

\* The equation of the grids has a solution up to every number of axes.
LEMMA GridsExist ==
  ASSUME NEW s
  PROVE  \A n \in Nat : \E g : g = [k \in 0 .. n |-> GridStep(g, s, k)]
<1> DEFINE T == {n \in Nat : ~ \E g : g = [k \in 0 .. n |-> GridStep(g, s, k)]}
<1> SUFFICES ASSUME T # {} PROVE FALSE
  OBVIOUS
<1>1. PICK m \in T : \A k \in T : m <= k
  <2>1. T \in SUBSET Nat
    OBVIOUS
  <2> HIDE DEF T
  <2> QED
    BY <2>1, LeastOne
<1>2. CASE m = 0
  <2> DEFINE g == [k \in 0 .. 0 |-> NoAxis]
  <2>1. g = [k \in 0 .. 0 |-> GridStep(g, s, k)]
    BY DEF GridStep
  <2> QED
    BY <1>2, <2>1
<1>3. CASE m # 0
  <2>1. m - 1 \in Nat /\ m - 1 \notin T
    BY <1>1, <1>3
  <2>2. PICK g : g = [k \in 0 .. m - 1 |-> GridStep(g, s, k)]
    BY <2>1
  <2> DEFINE h == [k \in 0 .. m |-> IF k = m THEN Crossed(g[m - 1], s[m]) ELSE g[k]]
  <2>3. ASSUME NEW k \in 0 .. m
        PROVE  h[k] = GridStep(h, s, k)
    <3>1. CASE k = m
      BY <1>3, <2>1, <3>1 DEF GridStep
    <3>2. CASE k # m
      <4>1. k \in 0 .. m - 1 /\ (k # 0 => k - 1 \in 0 .. m - 1)
        BY <3>2
      <4>2. h[k] = g[k] /\ (k # 0 => h[k - 1] = g[k - 1])
        BY <3>2, <4>1
      <4>3. g[k] = GridStep(g, s, k)
        BY <2>2, <4>1
      <4> HIDE DEF h
      <4> QED
        BY <4>2, <4>3 DEF GridStep
    <3> QED
      BY <3>1, <3>2
  <2>4. h = [k \in 0 .. m |-> h[k]]
    OBVIOUS
  <2> HIDE DEF h
  <2>5. h = [k \in 0 .. m |-> GridStep(h, s, k)]
    BY <2>3, <2>4
  <2> QED
    BY <2>5
<1> QED
  BY <1>2, <1>3

\* So the grids of a space start with one empty combination and take an axis at a time.
LEMMA GridsAre ==
  ASSUME NEW s, Len(s) \in Nat
  PROVE  \A k \in 0 .. Len(s) : Grids(s)[k] = GridStep(Grids(s), s, k)
<1> DEFINE Solves(g) == g = [k \in 0 .. Len(s) |-> GridStep(g, s, k)]
<1>1. \E g : Solves(g)
  BY GridsExist
<1>2. Grids(s) = CHOOSE g : Solves(g)
  BY DEF Grids, GridStep, NoAxis
<1>3. Solves(Grids(s))
  <2> HIDE DEF Solves
  <2> QED
    BY <1>1, <1>2
<1> QED
  BY <1>3

TotalStep(t, s, k) == IF k = 0 THEN 1 ELSE t[k - 1] * Len(Values(s[k]))

\* The equation of the totals has a solution up to every number of axes.
LEMMA TotalsExist ==
  ASSUME NEW s
  PROVE  \A n \in Nat : \E g : g = [k \in 0 .. n |-> TotalStep(g, s, k)]
<1> DEFINE T == {n \in Nat : ~ \E g : g = [k \in 0 .. n |-> TotalStep(g, s, k)]}
<1> SUFFICES ASSUME T # {} PROVE FALSE
  OBVIOUS
<1>1. PICK m \in T : \A k \in T : m <= k
  <2>1. T \in SUBSET Nat
    OBVIOUS
  <2> HIDE DEF T
  <2> QED
    BY <2>1, LeastOne
<1>2. CASE m = 0
  <2> DEFINE g == [k \in 0 .. 0 |-> 1]
  <2>1. g = [k \in 0 .. 0 |-> TotalStep(g, s, k)]
    BY DEF TotalStep
  <2> QED
    BY <1>2, <2>1
<1>3. CASE m # 0
  <2>1. m - 1 \in Nat /\ m - 1 \notin T
    BY <1>1, <1>3
  <2>2. PICK g : g = [k \in 0 .. m - 1 |-> TotalStep(g, s, k)]
    BY <2>1
  <2> DEFINE h == [k \in 0 .. m |-> IF k = m THEN g[m - 1] * Len(Values(s[m])) ELSE g[k]]
  <2>3. ASSUME NEW k \in 0 .. m
        PROVE  h[k] = TotalStep(h, s, k)
    <3>1. CASE k = m
      BY <1>3, <2>1, <3>1 DEF TotalStep
    <3>2. CASE k # m
      <4>1. k \in 0 .. m - 1 /\ (k # 0 => k - 1 \in 0 .. m - 1)
        BY <3>2
      <4>2. h[k] = g[k] /\ (k # 0 => h[k - 1] = g[k - 1])
        BY <3>2, <4>1
      <4>3. g[k] = TotalStep(g, s, k)
        BY <2>2, <4>1
      <4> HIDE DEF h
      <4> QED
        BY <4>2, <4>3 DEF TotalStep
    <3> QED
      BY <3>1, <3>2
  <2>4. h = [k \in 0 .. m |-> h[k]]
    OBVIOUS
  <2> HIDE DEF h
  <2>5. h = [k \in 0 .. m |-> TotalStep(h, s, k)]
    BY <2>3, <2>4
  <2> QED
    BY <2>5
<1> QED
  BY <1>2, <1>3

\* The totals are the products of the axes' lengths.
LEMMA TotalsAre ==
  ASSUME NEW s, Len(s) \in Nat
  PROVE  \A k \in 0 .. Len(s) : Totals(s)[k] = TotalStep(Totals(s), s, k)
<1> DEFINE Solves(g) == g = [k \in 0 .. Len(s) |-> TotalStep(g, s, k)]
<1>1. \E g : Solves(g)
  BY TotalsExist
<1>2. Totals(s) = CHOOSE g : Solves(g)
  BY DEF Totals, TotalStep
<1>3. Solves(Totals(s))
  <2> HIDE DEF Solves
  <2> QED
    BY <1>1, <1>2
<1> QED
  BY <1>3

\* A grid is a list.
Listed(grid) == \E S : grid \in Seq(S)

LEMMA FunctionListed ==
  ASSUME NEW n \in Nat, NEW f, f = [i \in 1 .. n |-> f[i]]
  PROVE  Listed(f) /\ Len(f) = n /\ DOMAIN f = 1 .. n
<1> DEFINE S == {f[i] : i \in 1 .. n}
<1>1. f \in [1 .. n -> S]
  OBVIOUS
<1> HIDE DEF S
<1>2. f \in Seq(S) /\ DOMAIN f = 1 .. n
  BY <1>1
<1> QED
  BY <1>2 DEF Listed

\* A combination with a value of one more axis.
Joined(given, name, value) ==
  [n \in DOMAIN given \cup {name} |-> IF n = name THEN value ELSE given[n]]

\* Crossing a grid with an axis gives as many rows as there are pairs, in order.
LEMMA CrossedIs ==
  ASSUME NEW grid, Listed(grid), NEW a, IsAxis(a)
  PROVE  LET c == Crossed(grid, a)
             count == Len(Values(a))
         IN /\ Listed(c) /\ Len(c) = Len(grid) * count /\ Len(c) \in Nat
            /\ \A n \in DOMAIN c : \E q \in DOMAIN grid, r \in DOMAIN Values(a) :
                 n = (q - 1) * count + r /\ c[n] = Joined(grid[q], a.name, Values(a)[r])
<1> DEFINE c == Crossed(grid, a)
<1>1. PICK rows \in Nat, count \in Nat \ {0} : rows = Len(grid) /\ count = Len(Values(a))
  BY ValuesFacts DEF Listed
<1>2. DOMAIN grid = 1 .. rows /\ DOMAIN Values(a) = 1 .. count
  BY <1>1, ValuesFacts DEF Listed
<1>3. rows * count \in Nat
  BY SMTT(30)
<1>4. c = [n \in 1 .. rows * count |->
             Joined(grid[((n - 1) \div count) + 1], a.name, Values(a)[((n - 1) % count) + 1])]
  BY <1>1 DEF Crossed, Joined
<1>5. ASSUME NEW n \in 1 .. rows * count
      PROVE  \E q \in DOMAIN grid, r \in DOMAIN Values(a) :
               n = (q - 1) * count + r /\ c[n] = Joined(grid[q], a.name, Values(a)[r])
  <2>1. PICK q, r : q = ((n - 1) \div count) + 1 /\ r = ((n - 1) % count) + 1
    OBVIOUS
  <2>2. /\ q \in 1 .. rows /\ r \in 1 .. count
        /\ n = ((n - 1) \div count) * count + r
    BY <2>1, RowAndPlace
  <2>3. PICK p \in Int : p = (n - 1) \div count
    BY <1>3
  <2>4. q - 1 = p
    BY <2>1, <2>3
  <2>5. n = (q - 1) * count + r
    BY <2>2, <2>3, <2>4
  <2>6. c[n] = Joined(grid[q], a.name, Values(a)[r])
    BY <1>4, <2>1
  <2> HIDE DEF c
  <2> QED
    BY <1>2, <2>2, <2>5, <2>6
<1>6. DOMAIN c = 1 .. rows * count /\ c = [n \in 1 .. rows * count |-> c[n]]
  BY <1>4
<1> HIDE DEF c
<1>7. PICK k \in Nat : k = rows * count
  BY <1>3
<1>8. Listed(c) /\ Len(c) = k
  BY <1>6, <1>7, FunctionListed
<1> QED
  BY <1>1, <1>5, <1>6, <1>7, <1>8 DEF c

\* A space: axes, each with a name of its own.
IsSpace(s) ==
  /\ Listed(s) /\ \A i \in DOMAIN s : IsAxis(s[i])
  /\ \A i, j \in DOMAIN s : s[i].name = s[j].name => i = j

NamesTo(s, k) == {s[i].name : i \in 1 .. k}

\* What a grid over the first k axes holds: as many combinations as the product of their
\* lengths, each of a value of every axis, no two alike.
GridTo(s, k, grid, total) ==
  /\ Listed(grid) /\ Len(grid) = total /\ total \in Nat \ {0}
  /\ \A n \in DOMAIN grid :
       /\ grid[n] = [name \in NamesTo(s, k) |-> grid[n][name]]
       /\ \A i \in 1 .. k : \E r \in DOMAIN Values(s[i]) : grid[n][s[i].name] = Values(s[i])[r]
  /\ \A n, m \in DOMAIN grid : grid[n] = grid[m] => n = m

LEMMA GridGrows ==
  ASSUME NEW s, IsSpace(s), NEW k \in DOMAIN s, NEW grid, NEW total, GridTo(s, k - 1, grid, total)
  PROVE  GridTo(s, k, Crossed(grid, s[k]), total * Len(Values(s[k])))
<1> DEFINE a == s[k]
           c == Crossed(grid, a)
           values == Values(a)
           Known(n) == /\ grid[n] = [name \in NamesTo(s, k - 1) |-> grid[n][name]]
                       /\ \A i \in 1 .. k - 1 : \E r \in DOMAIN Values(s[i]) :
                            grid[n][s[i].name] = Values(s[i])[r]
<1>1. PICK count \in Nat \ {0} : count = Len(values)
  BY ValuesFacts DEF IsSpace
<1>2. /\ DOMAIN values = 1 .. count
      /\ \A i, j \in DOMAIN values : values[i] = values[j] => i = j
  <2>1. IsAxis(a)
    BY DEF IsSpace
  <2> HIDE DEF a, values
  <2>2. /\ DOMAIN values = 1 .. count /\ \A i \in DOMAIN values : values[i] \in Int
        /\ \A i, j \in DOMAIN values : i < j => values[i] < values[j]
    BY <1>1, <2>1, ValuesFacts DEF values
  <2>3. \A i, j \in 1 .. count : i # j => i < j \/ j < i
    OBVIOUS
  <2> QED
    BY <2>2, <2>3
<1>3. k \in Nat \ {0} /\ 1 .. k \subseteq DOMAIN s
  BY DEF IsSpace, Listed
<1>4. /\ Listed(c) /\ Len(c) = Len(grid) * count /\ Len(c) \in Nat
      /\ \A n \in DOMAIN c : \E q \in DOMAIN grid, r \in DOMAIN values :
           n = (q - 1) * count + r /\ c[n] = Joined(grid[q], a.name, values[r])
  <2>1. Listed(grid) /\ IsAxis(a)
    BY DEF IsSpace, GridTo
  <2> HIDE DEF a, c, values
  <2>2. /\ Listed(Crossed(grid, a)) /\ Len(Crossed(grid, a)) = Len(grid) * Len(Values(a))
        /\ Len(Crossed(grid, a)) \in Nat
        /\ \A n \in DOMAIN Crossed(grid, a) : \E q \in DOMAIN grid, r \in DOMAIN Values(a) :
             n = (q - 1) * Len(Values(a)) + r /\ Crossed(grid, a)[n] = Joined(grid[q], a.name, Values(a)[r])
    BY <2>1, CrossedIs
  <2> QED
    BY <1>1, <2>2 DEF c, values
<1>5. /\ Len(grid) = total /\ total \in Nat \ {0} /\ DOMAIN grid = 1 .. total
      /\ \A n \in DOMAIN grid : Known(n)
      /\ \A n, m \in DOMAIN grid : grid[n] = grid[m] => n = m
  BY DEF GridTo, Listed
<1>6. a.name \notin NamesTo(s, k - 1)
  <2> SUFFICES ASSUME NEW i \in 1 .. k - 1, s[i].name = s[k].name PROVE FALSE
    BY DEF NamesTo
  <2>1. i \in DOMAIN s /\ i # k
    BY <1>3
  <2> QED
    BY <2>1 DEF IsSpace
<1>7. NamesTo(s, k) = NamesTo(s, k - 1) \cup {a.name}
  <2>1. 1 .. k = 1 .. k - 1 \cup {k}
    BY <1>3
  <2> QED
    BY <2>1 DEF NamesTo
<1> HIDE DEF a, c, values
<1>8. ASSUME NEW n \in DOMAIN c
      PROVE  /\ c[n] = [name \in NamesTo(s, k) |-> c[n][name]]
             /\ \A i \in 1 .. k : \E r \in DOMAIN Values(s[i]) : c[n][s[i].name] = Values(s[i])[r]
  <2>1. PICK q \in DOMAIN grid, r \in DOMAIN values : c[n] = Joined(grid[q], a.name, values[r])
    BY <1>4
  <2>2. DOMAIN grid[q] = NamesTo(s, k - 1)
    BY <1>5
  <2>3. c[n] = [name \in NamesTo(s, k) |-> c[n][name]] /\ c[n][a.name] = values[r]
    BY <1>7, <2>1, <2>2 DEF Joined
  <2>4. ASSUME NEW i \in 1 .. k
        PROVE  \E p \in DOMAIN Values(s[i]) : c[n][s[i].name] = Values(s[i])[p]
    <3>1. CASE i = k
      BY <2>3, <3>1 DEF a, values
    <3>2. CASE i # k
      <4>1. i \in 1 .. k - 1
        BY <1>3, <3>2
      <4>2. s[i].name \in NamesTo(s, k - 1)
        BY <4>1 DEF NamesTo
      <4>3. c[n][s[i].name] = grid[q][s[i].name]
        BY <1>6, <2>1, <2>2, <4>2 DEF Joined
      <4>4. Known(q)
        BY <1>5
      <4> QED
        BY <4>1, <4>3, <4>4
    <3> QED
      BY <3>1, <3>2
  <2> QED
    BY <2>3, <2>4
<1>9. ASSUME NEW n \in DOMAIN c, NEW m \in DOMAIN c, c[n] = c[m]
      PROVE  n = m
  <2>1. PICK q \in DOMAIN grid, r \in DOMAIN values :
          n = (q - 1) * count + r /\ c[n] = Joined(grid[q], a.name, values[r])
    BY <1>4
  <2>2. PICK p \in DOMAIN grid, t \in DOMAIN values :
          m = (p - 1) * count + t /\ c[m] = Joined(grid[p], a.name, values[t])
    BY <1>4
  <2>3. c[n][a.name] = values[r] /\ c[m][a.name] = values[t]
    BY <2>1, <2>2 DEF Joined
  <2>4. r = t
    BY <1>2, <1>9, <2>3
  <2>5. Known(q) /\ Known(p)
    BY <1>5
  <2>6. \A name \in NamesTo(s, k - 1) : grid[q][name] = grid[p][name]
    <3> SUFFICES ASSUME NEW name \in NamesTo(s, k - 1) PROVE grid[q][name] = grid[p][name]
      OBVIOUS
    <3>1. c[n][name] = grid[q][name] /\ c[m][name] = grid[p][name]
      BY <1>6, <2>1, <2>2, <2>5 DEF Joined
    <3> QED
      BY <1>9, <3>1
  <2>7. grid[q] = grid[p]
    BY <2>5, <2>6
  <2> QED
    BY <1>5, <2>1, <2>2, <2>4, <2>7
<1>10. total * count \in Nat \ {0}
  BY <1>5, SMTT(30)
<1>11. Len(c) = total * count
  BY <1>4, <1>5
<1>12. GridTo(s, k, c, total * count)
  BY <1>4, <1>8, <1>9, <1>10, <1>11 DEF GridTo
<1> QED
  BY <1>1, <1>12 DEF a, c, values

\* So the grid of a space holds every combination once, and as many as are announced.
LEMMA GridIs ==
  ASSUME NEW s, IsSpace(s)
  PROVE  GridTo(s, Len(s), GenerateGrid(s), TotalCombinations(s))
<1> DEFINE g == Grids(s)
           t == Totals(s)
           T == {k \in 0 .. Len(s) : ~ GridTo(s, k, g[k], t[k])}
<1>1. Len(s) \in Nat /\ DOMAIN s = 1 .. Len(s)
  BY DEF IsSpace, Listed
<1>2. \A k \in 0 .. Len(s) : g[k] = GridStep(g, s, k) /\ t[k] = TotalStep(t, s, k)
  BY <1>1, GridsAre, TotalsAre
<1> HIDE DEF g, t
<1>3. T = {}
  <2> SUFFICES ASSUME T # {} PROVE FALSE
    OBVIOUS
  <2>1. PICK m \in T : \A k \in T : m <= k
    <3>1. T \in SUBSET Nat
      BY <1>1
    <3> HIDE DEF T
    <3> QED
      BY <3>1, LeastOne
  <2>2. m \in 0 .. Len(s) /\ g[m] = GridStep(g, s, m) /\ t[m] = TotalStep(t, s, m)
    BY <1>2
  <2>3. m # 0
    <3> SUFFICES ASSUME m = 0 PROVE GridTo(s, m, g[m], t[m])
      OBVIOUS
    <3>1. g[m] = NoAxis /\ t[m] = 1
      BY <2>2 DEF GridStep, TotalStep
    <3>2. /\ Listed(NoAxis) /\ Len(NoAxis) = 1 /\ DOMAIN NoAxis = {1} /\ NoAxis[1] = [name \in {} |-> 0]
      <4>1. PICK x : x = [name \in {} |-> 0]
        OBVIOUS
      <4>2. NoAxis = <<x>>
        BY <4>1 DEF NoAxis
      <4>3. <<x>> \in Seq({x}) /\ Len(<<x>>) = 1 /\ DOMAIN <<x>> = {1} /\ <<x>>[1] = x
        OBVIOUS
      <4> QED
        BY <4>1, <4>2, <4>3 DEF Listed
    <3>3. NamesTo(s, 0) = {}
      BY <1>1 DEF NamesTo
    <3>4. NoAxis[1] = [name \in NamesTo(s, 0) |-> NoAxis[1][name]]
      BY <3>2, <3>3
    <3> QED
      BY <3>1, <3>2, <3>4 DEF GridTo
  <2>4. m \in DOMAIN s /\ m - 1 \in 0 .. Len(s) /\ m - 1 < m
    BY <1>1, <2>2, <2>3
  <2>5. m - 1 \notin T
    BY <2>1, <2>4
  <2>6. GridTo(s, m - 1, g[m - 1], t[m - 1])
    BY <2>4, <2>5
  <2>7. GridTo(s, m, Crossed(g[m - 1], s[m]), t[m - 1] * Len(Values(s[m])))
    BY <2>4, <2>6, GridGrows
  <2>8. GridTo(s, m, g[m], t[m])
    BY <2>2, <2>3, <2>7 DEF GridStep, TotalStep
  <2> QED
    BY <2>8
<1>4. GridTo(s, Len(s), g[Len(s)], t[Len(s)])
  <2>1. Len(s) \in 0 .. Len(s)
    BY <1>1
  <2> QED
    BY <1>3, <2>1
<1> QED
  BY <1>4 DEF g, t, GenerateGrid, TotalCombinations

\* The space of a validation is one.
LEMMA ParameterSpaceIs == IsSpace(ParameterSpace)
<1> DEFINE A == [name : STRING, minimum : Int, maximum : Int, step : Nat \ {0}]
<1>1. /\ ParameterSpace \in Seq(A)
      /\ \A i \in DOMAIN ParameterSpace : ParameterSpace[i].minimum < ParameterSpace[i].maximum
      /\ \A i, j \in DOMAIN ParameterSpace :
           ParameterSpace[i].name = ParameterSpace[j].name => i = j
  BY WindowsAssumption DEF WindowsAssumption, SpaceAccepted
<1>2. \A i \in DOMAIN ParameterSpace : ParameterSpace[i] \in A
  <2> HIDE DEF A
  <2> QED
    BY <1>1
<1>3. ASSUME NEW i \in DOMAIN ParameterSpace
      PROVE  IsAxis(ParameterSpace[i])
  BY <1>1, <1>2 DEF IsAxis
<1> QED
  BY <1>1, <1>3 DEF IsSpace, Listed

LEMMA GridIsList == Listed(Grid)
BY ParameterSpaceIs, GridIs DEF GridTo, Grid

\* What is said of a window's result on its own, and of the last one about its search.
Judged(r) ==
  /\ (r.passed # NoValue) <=> (r.status = "Completed")
  /\ r.status = "Completed" =>
       /\ Completed(r.best.outcome) /\ r.best.outcome.trades >= MinimumTrades
       /\ r.test.config = r.best.config
       /\ \A name \in DOMAIN BaseConfig
                 \ (DOMAIN r.best.combination
                    \cup {"target_atr_multiplier", "risk_per_trade_percent"}) :
            r.test.config[name] = BaseConfig[name]
       /\ r.passed => r.test.outcome.trades >= Rules.trades
                      /\ r.test.outcome.ProfitFactor # NoValue

IsBest(r, found, by) ==
  \E best \in DOMAIN found :
    /\ found[best] = r.best
    /\ \A k \in DOMAIN found : Completed(found[k].outcome)
         => ~ Outranks(KeyOf(found, k, by), KeyOf(found, best, by))

BestInv ==
  /\ windows # <<>> => rankBy \in RankBys
  /\ Listed(validated)
  /\ TestedWhatWasBest

LEMMA TestedIs ==
  TestedWhatWasBest <=>
    \A i \in DOMAIN validated :
      /\ Judged(validated[i])
      /\ validated[i].status = "Completed" /\ i = Len(validated)
           => IsBest(validated[i], search, rankBy)
BY DEF TestedWhatWasBest, Judged, IsBest

\* A parameter the combination does not name keeps the base's value.
LEMMA AppliedKeeps ==
  ASSUME NEW c, NEW name \in DOMAIN BaseConfig \ (DOMAIN c \cup {"target_atr_multiplier", "risk_per_trade_percent"})
  PROVE  ApplyCombination(c, BaseConfig)[name] = BaseConfig[name]
BY DEF ApplyCombination

\* What a search of the grid gives.
LEMMA SearchFacts ==
  ASSUME NEW outcomes \in [DOMAIN Grid -> Outcomes]
  PROVE  LET found == RunGridSearch(outcomes)
         IN /\ Listed(found)
            /\ \A i \in DOMAIN found :
                 /\ SearchResult(found[i])
                 /\ found[i].config = ApplyCombination(found[i].combination, BaseConfig)
<1> DEFINE found == RunGridSearch(outcomes)
           S == {found[i] : i \in DOMAIN Grid}
<1>1. PICK R : Grid \in Seq(R)
  BY GridIsList DEF Listed
<1>2. DOMAIN Grid = 1 .. Len(Grid) /\ Len(Grid) \in Nat
  BY <1>1, ListFacts
<1>3. DOMAIN found = DOMAIN Grid /\ found = [i \in DOMAIN Grid |-> found[i]]
  BY DEF RunGridSearch
<1>4. ASSUME NEW i \in DOMAIN found
      PROVE  /\ SearchResult(found[i])
             /\ found[i].config = ApplyCombination(found[i].combination, BaseConfig)
  <2>1. found[i] = [combination |-> Grid[i], config |-> ApplyCombination(Grid[i], BaseConfig),
                      outcome |-> outcomes[i]]
    BY <1>3 DEF RunGridSearch
  <2>2. IsOutcome(outcomes[i])
    BY <1>3, WindowsAssumption DEF WindowsAssumption, SearchAccepted
  <2> HIDE DEF found
  <2> QED
    BY <2>1, <2>2 DEF SearchResult
<1> HIDE DEF found
<1>5. found \in [1 .. Len(Grid) -> S]
  BY <1>2, <1>3
<1>6. found \in Seq(S)
  <2> HIDE DEF S
  <2> QED
    BY <1>2, <1>5
<1> QED
  BY <1>4, <1>6 DEF Listed, found

\* One more window, judged, keeps the rest.
LEMMA WindowJudged ==
  ASSUME Listed(validated), TestedWhatWasBest, NEW r, validated' = Append(validated, r), Judged(r),
         r.status = "Completed" => IsBest(r, search', rankBy')
  PROVE  Listed(validated') /\ TestedWhatWasBest'
<1>1. PICK S : validated \in Seq(S)
  BY DEF Listed
<1> DEFINE R == S \cup {r}
<1>2. validated \in Seq(R) /\ r \in R
  BY <1>1
<1> HIDE DEF R
<1>3. /\ validated' \in Seq(R) /\ Len(validated') = Len(validated) + 1 /\ Len(validated) \in Nat
      /\ \A i \in 1 .. Len(validated) : validated'[i] = validated[i]
      /\ validated'[Len(validated) + 1] = r
      /\ DOMAIN validated = 1 .. Len(validated) /\ DOMAIN validated' = 1 .. Len(validated) + 1
  BY <1>2
<1>4. ASSUME NEW i \in DOMAIN validated'
      PROVE  /\ Judged(validated'[i])
             /\ validated'[i].status = "Completed" /\ i = Len(validated')
                  => IsBest(validated'[i], search', rankBy')
  <2>1. CASE i \in 1 .. Len(validated)
    <3>1. Judged(validated[i])
      BY <1>3, <2>1, TestedIs
    <3> QED
      BY <1>3, <2>1, <3>1
  <2>2. CASE i = Len(validated) + 1
    BY <1>3, <2>2
  <2> QED
    BY <1>3, <2>1, <2>2
<1>5. TestedWhatWasBest'
  BY <1>4 DEF TestedWhatWasBest, Judged, IsBest
<1> QED
  BY <1>3, <1>5 DEF Listed

LEMMA BestKeeps ==
  ASSUME BestInv, WalkForwardNext
  PROVE  BestInv'
<1>1. windows # <<>> /\ UNCHANGED rankBy /\ rankBy \in RankBys /\ Listed(validated) /\ TestedWhatWasBest
  BY DEF BestInv, WalkForwardNext, SkipWindow, SearchRaises, ValidateWindow
<1>2. CASE SkipWindow \/ SearchRaises
  <2>1. PICK status \in {"InsufficientData", "Failed"} :
          validated' = Append(validated, Result(Head(windows), status, NoValue, NoValue, NoValue))
    BY <1>2 DEF SkipWindow, SearchRaises
  <2> DEFINE r == Result(Head(windows), status, NoValue, NoValue, NoValue)
  <2>2. Judged(r) /\ r.status # "Completed"
    BY DEF Judged, Result
  <2> HIDE DEF r
  <2>3. validated' = Append(validated, r)
    BY <2>1 DEF r
  <2>4. Listed(validated') /\ TestedWhatWasBest'
    BY <1>1, <2>2, <2>3, WindowJudged
  <2> QED
    BY <1>1, <2>4 DEF BestInv
<1>3. ASSUME NEW outcomes \in [DOMAIN Grid -> Outcomes], NEW test \in Outcomes,
             ValidateWindow(outcomes, test)
      PROVE  BestInv'
  <2> DEFINE found == RunGridSearch(outcomes)
             best == BestCompleted(Rank(found, rankBy))
             r == WindowResult(Head(windows), best, test)
  <2>1. validated' = Append(validated, r) /\ search' = found
    BY <1>3 DEF ValidateWindow
  <2>2. PICK S : found \in Seq(S)
    BY SearchFacts DEF Listed
  <2>3. \A i \in DOMAIN found :
          /\ SearchResult(found[i])
          /\ found[i].config = ApplyCombination(found[i].combination, BaseConfig)
    BY SearchFacts
  <2> HIDE DEF found
  <2>4. \A i \in DOMAIN found : KeyOf(found, i, rankBy) \in Int \X Int
    <3>1. IsFiniteSet(DOMAIN found)
      BY <2>2, ListFacts
    <3>2. rankBy \in Metrics \cup {"WeightedScore"}
      BY <1>1, WindowsAssumption DEF WindowsAssumption, SearchAccepted
    <3> QED
      BY <2>3, <3>1, <3>2, KeyIs
  <2>5. best # NoValue =>
          /\ IsBest([best |-> best], found, rankBy) /\ Completed(best.outcome)
          /\ best.config = ApplyCombination(best.combination, BaseConfig)
    <3> SUFFICES ASSUME best # NoValue
                 PROVE  /\ IsBest([best |-> best], found, rankBy) /\ Completed(best.outcome)
                        /\ best.config = ApplyCombination(best.combination, BaseConfig)
      OBVIOUS
    <3>1. PICK at \in DOMAIN found :
            /\ found[at] = best /\ Completed(found[at].outcome)
            /\ \A k \in DOMAIN found : Completed(found[k].outcome)
                 => ~ Outranks(KeyOf(found, k, rankBy), KeyOf(found, at, rankBy))
      BY <2>2, <2>4, BestIsBest
    <3> HIDE DEF best
    <3> QED
      BY <2>3, <3>1 DEF IsBest
  <2> HIDE DEF best
  <2>6. Judged(r) /\ (r.status = "Completed" => IsBest(r, found, rankBy))
    <3>1. CASE r.status # "Completed"
      <4>1. r.passed = NoValue
        BY <3>1 DEF WindowResult, Result
      <4> QED
        BY <3>1, <4>1 DEF Judged
    <3>2. CASE r.status = "Completed"
      <4>1. /\ best # NoValue /\ ~ (best.outcome.trades < MinimumTrades) /\ Completed(test)
            /\ r = [window |-> Head(windows), status |-> "Completed", best |-> best,
                    test |-> [config |-> best.config, outcome |-> test],
                    passed |-> EvaluatePassFail(best.outcome, test)]
        BY <3>2 DEF WindowResult, Result
      <4>2. r.best = best /\ r.test.config = best.config /\ r.test.outcome = test
            /\ r.passed = EvaluatePassFail(best.outcome, test) /\ r.status = "Completed"
        <5> HIDE DEF r
        <5> QED
          BY <4>1
      <4> HIDE DEF r
      <4>3. best.outcome.trades >= MinimumTrades
        <5>1. PICK at \in DOMAIN found : found[at] = best
          BY <2>5, <4>1 DEF IsBest
        <5>2. best.outcome.trades \in Nat
          BY <2>3, <2>5, <4>1, <5>1 DEF SearchResult, IsOutcome, Completed, Failed
        <5>3. MinimumTrades \in Nat
          BY WindowsAssumption DEF WindowsAssumption, WindowConfigsAccepted
        <5> QED
          BY <4>1, <5>2, <5>3
      <4>4. EvaluatePassFail(best.outcome, test) \in BOOLEAN
        BY DEF EvaluatePassFail
      <4>5. r.passed # NoValue
        BY <4>2, <4>4, WindowsAssumption DEF WindowsAssumption, SearchAccepted
      <4>6. r.passed => test.trades >= Rules.trades /\ test.ProfitFactor # NoValue
        BY <4>2 DEF EvaluatePassFail, TradeCountPasses, ProfitFactorPasses
      <4>7. \A name \in DOMAIN BaseConfig
                    \ (DOMAIN best.combination \cup {"target_atr_multiplier", "risk_per_trade_percent"}) :
              best.config[name] = BaseConfig[name]
        BY <2>5, <4>1, AppliedKeeps
      <4>8. Judged(r)
        BY <2>5, <4>1, <4>2, <4>3, <4>5, <4>6, <4>7 DEF Judged
      <4>9. IsBest(r, found, rankBy)
        BY <2>5, <4>1, <4>2 DEF IsBest
      <4> QED
        BY <4>8, <4>9
    <3> QED
      BY <3>1, <3>2
  <2> HIDE DEF r
  <2>7. Listed(validated') /\ TestedWhatWasBest'
    BY <1>1, <2>1, <2>6, WindowJudged
  <2> QED
    BY <1>1, <2>7 DEF BestInv
<1> QED
  BY <1>2, <1>3 DEF WalkForwardNext

LEMMA BestStays ==
  ASSUME BestInv, UNCHANGED walkForwardVars
  PROVE  BestInv'
BY DEF BestInv, walkForwardVars, TestedWhatWasBest, KeyOf, Listed

\* The inductive invariant of what a validation tests, along every job.
THEOREM BestInvariant == Spec => []BestInv
<1>1. Init => BestInv
  <2>1. NoValidation => BestInv
    <3> SUFFICES ASSUME NoValidation PROVE BestInv
      OBVIOUS
    <3>1. windows = <<>> /\ validated = <<>> /\ validated \in Seq({})
      BY DEF NoValidation
    <3> QED
      BY <3>1 DEF BestInv, Listed, TestedWhatWasBest
  <2>2. WalkForwardInit => BestInv
    <3> SUFFICES ASSUME WalkForwardInit PROVE BestInv
      OBVIOUS
    <3>1. rankBy \in RankBys /\ validated = <<>> /\ validated \in Seq({})
      BY DEF WalkForwardInit
    <3> QED
      BY <3>1 DEF BestInv, Listed, TestedWhatWasBest
  <2> QED
    BY <2>1, <2>2 DEF Init
<1>2. BestInv /\ [Next]_vars => BestInv'
  <2> SUFFICES ASSUME BestInv, [Next]_vars PROVE BestInv'
    OBVIOUS
  <2>1. CASE WalkForwardNext
    BY <2>1, BestKeeps
  <2>2. CASE UNCHANGED walkForwardVars
    BY <2>2, BestStays
  <2> QED
    BY <2>1, <2>2 DEF Next, vars
<1> QED
  BY <1>1, <1>2, PTL DEF Spec

\* What a window is tested with is the best of its training runs (TestedWhatWasBest).
THEOREM BestIsTested == Spec => []TestedWhatWasBest
<1>1. BestInv => TestedWhatWasBest
  BY DEF BestInv
<1> QED
  BY <1>1, BestInvariant, PTL

-----------------------------------------------------------------------------
(* The backtest: its books *)

PnlFun(h) == [i \in DOMAIN h |-> h[i].pnl]

LEMMA PnlOfIs ==
  ASSUME NEW h, NEW S
  PROVE  PnlOf(h, S) = SumOn(PnlFun(h), S)
BY DEF PnlOf, PnlFun, SumOn

\* What the trades made is a number, the same one counted in the order of the list,
\* as gains and losses, and day by day.
LEMMA PnlParts ==
  ASSUME NEW h \in Seq(Positions)
  PROVE  LET result == PnlOf(h, DOMAIN h)
         IN /\ result = PnlBefore(h, Len(h) + 1)
            /\ result = PnlOf(h, Winning(h)) - (-PnlOf(h, Losing(h)))
            /\ result = SumOf(DailyPnL(h))
<1> DEFINE D == DOMAIN h
           f == PnlFun(h)
           W == Winning(h)
           L == Losing(h)
           Z == {i \in D : f[i] = 0}
           days == {Day(h[i].exitTime) : i \in D}
           class == [i \in D |-> Day(h[i].exitTime)]
<1>1. D = 1 .. Len(h) /\ Len(h) \in Nat /\ IsFiniteSet(D)
  BY ListFacts
<1>2. \A i \in D : f[i] = h[i].pnl /\ f[i] \in Int
  BY TradeFields DEF PnlFun
<1>3. PnlOf(h, D) = PnlBefore(h, Len(h) + 1)
  <2>1. PnlBefore(h, Len(h) + 1) = SumOn([j \in 1 .. Len(h) |-> h[j].pnl], 1 .. Len(h))
    BY <1>1, PnlIs
  <2>2. f = [j \in 1 .. Len(h) |-> h[j].pnl]
    BY <1>1 DEF PnlFun
  <2>3. PnlOf(h, D) = SumOn(f, D)
    BY PnlOfIs
  <2> HIDE DEF f, D
  <2> QED
    BY <1>1, <2>1, <2>2, <2>3
<1>4. /\ W \subseteq D /\ L \subseteq D /\ Z \subseteq D /\ D = (W \cup L) \cup Z
      /\ W \cap L = {} /\ (W \cup L) \cap Z = {}
  <2>1. \A i \in D : (i \in W <=> f[i] > 0) /\ (i \in L <=> f[i] < 0) /\ (i \in Z <=> f[i] = 0)
    BY <1>2 DEF Winning, Losing
  <2>2. W \subseteq D /\ L \subseteq D /\ Z \subseteq D
    BY DEF Winning, Losing
  <2> HIDE DEF f, W, L, Z, D
  <2>3. \A i \in D : (i \in W \/ i \in L \/ i \in Z) /\ ~ (i \in W /\ i \in L)
                     /\ ~ ((i \in W \/ i \in L) /\ i \in Z)
    BY <1>2, <2>1
  <2> QED
    BY <2>2, <2>3
<1> HIDE DEF f, W, L
<1>5. /\ IsFiniteSet(W) /\ IsFiniteSet(L) /\ IsFiniteSet(Z) /\ IsFiniteSet(W \cup L)
      /\ SumOn(f, W) \in Int /\ SumOn(f, L) \in Int
  <2>1. IsFiniteSet(W) /\ IsFiniteSet(L) /\ IsFiniteSet(Z)
    <3> HIDE DEF D, Z
    <3> QED
      BY <1>1, <1>4, FS_Subset
  <2>2. IsFiniteSet(W \cup L)
    BY <2>1, FS_Union
  <2>3. (\A i \in W : f[i] \in Int) /\ (\A i \in L : f[i] \in Int)
    BY <1>2, <1>4
  <2>4. SumOn(f, W) \in Int /\ SumOn(f, L) \in Int
    BY <2>1, <2>3, SumType
  <2> QED
    BY <2>1, <2>2, <2>4
<1>6. SumOn(f, D) = SumOn(f, W) + SumOn(f, L)
  <2>1. SumOn(f, Z) = 0
    <3>1. \A i \in Z : f[i] = 0
      OBVIOUS
    <3> HIDE DEF Z
    <3> QED
      BY <1>5, <3>1, SumOfNothing
  <2> HIDE DEF Z, D
  <2>2. SumOn(f, W \cup L) = SumOn(f, W) + SumOn(f, L)
    <3>1. \A i \in W \cup L : f[i] \in Int
      BY <1>2, <1>4
    <3> QED
      BY <1>4, <1>5, <3>1, SumUnion
  <2>3. SumOn(f, (W \cup L) \cup Z) = SumOn(f, W \cup L) + SumOn(f, Z)
    <3>1. \A i \in (W \cup L) \cup Z : f[i] \in Int
      BY <1>2, <1>4
    <3> QED
      BY <1>4, <1>5, <3>1, SumUnion
  <2>4. SumOn(f, W \cup L) \in Int
    BY <1>5, <2>2
  <2> QED
    BY <1>4, <1>5, <2>1, <2>2, <2>3, <2>4
<1>7. PnlOf(h, D) = PnlOf(h, W) - (-PnlOf(h, L))
  <2>1. PnlOf(h, D) = SumOn(f, D) /\ PnlOf(h, W) = SumOn(f, W) /\ PnlOf(h, L) = SumOn(f, L)
    BY PnlOfIs DEF f
  <2> HIDE DEF D
  <2> QED
    BY <1>5, <1>6, <2>1
<1>8. PnlOf(h, D) = SumOf(DailyPnL(h))
  <2>1. IsFiniteSet(days) /\ \A i \in D : class[i] \in days
    <3>1. days = {class[i] : i \in D}
      OBVIOUS
    <3>2. \A i \in D : class[i] \in days
      OBVIOUS
    <3> HIDE DEF class, D, days
    <3>3. IsFiniteSet({class[i] : i \in D})
      BY <1>1, ImageFinite
    <3> QED
      BY <3>1, <3>2, <3>3
  <2> DEFINE byDay == [e \in days |-> SumOn(f, {i \in D : class[i] = e})]
  <2>2. SumOn(f, D) = SumOn(byDay, days)
    <3> HIDE DEF class, days, D
    <3> QED
      BY <1>1, <1>2, <2>1, SumByParts
  <2>3. DailyPnL(h) = byDay
    <3>1. DailyPnL(h) = [day \in days |-> PnlOf(h, {i \in D : Day(h[i].exitTime) = day})]
      BY DEF DailyPnL
    <3>2. ASSUME NEW day \in days
          PROVE  PnlOf(h, {i \in D : Day(h[i].exitTime) = day}) = byDay[day]
      <4>1. {i \in D : Day(h[i].exitTime) = day} = {i \in D : class[i] = day}
        OBVIOUS
      <4>2. PnlOf(h, {i \in D : class[i] = day}) = SumOn(f, {i \in D : class[i] = day})
        BY PnlOfIs DEF f
      <4>3. byDay[day] = SumOn(f, {i \in D : class[i] = day})
        <5> HIDE DEF class, D, days
        <5> QED
          BY <3>2
      <4> QED
        BY <4>1, <4>2, <4>3
    <3> HIDE DEF D, class, days
    <3> QED
      BY <3>1, <3>2
  <2>4. SumOf(byDay) = SumOn(byDay, days)
    <3>1. DOMAIN byDay = days
      OBVIOUS
    <3> HIDE DEF byDay, days
    <3> QED
      BY <3>1 DEF SumOf, FoldFunction, SumOn
  <2>5. PnlOf(h, D) = SumOn(f, D)
    BY PnlOfIs DEF f
  <2> HIDE DEF byDay, D, days
  <2> QED
    BY <2>2, <2>3, <2>4, <2>5
<1> QED
  BY <1>3, <1>7, <1>8 DEF W, L

\* The day of every trade has a point; the trades after a step, given its point.
DaysDrawn(h, curve) ==
  \A i \in DOMAIN h : \E k \in DOMAIN curve : Day(curve[k].time) = Day(h[i].exitTime)

Follows(h, g, point) == g = h \/ \E t : t.exitTime = point.time /\ g = Append(h, t)

\* A point for the day of every trade, the last one what the book is worth; when the
\* replay is done nothing is open that is not booked.
CurveInv ==
  /\ Listed(equity_curve)
  /\ DaysDrawn(book.trades, equity_curve)
  /\ phase = "replay" /\ Len(candles) > WarmupCandles =>
       LET last == candles[Len(candles)]
       IN equity_curve # <<>>
          /\ equity_curve[Len(equity_curve)] = [time |-> last.time, equity |-> MarkedEquity(book, last)]
  /\ phase = "done" =>
       /\ equity_curve # <<>> /\ equity_curve[Len(equity_curve)].equity = book.capital
       /\ book.capital = InitialCapital + PnlBefore(book.trades, Len(book.trades) + 1)

\* A list with one more element, whatever it is.
LEMMA ListAppended ==
  ASSUME NEW s, Listed(s), NEW x
  PROVE  LET t == Append(s, x)
         IN /\ Listed(t) /\ t # <<>> /\ t[Len(t)] = x /\ Len(t) \in DOMAIN t
            /\ DOMAIN s \subseteq DOMAIN t /\ \A i \in DOMAIN s : t[i] = s[i]
            /\ \A i \in DOMAIN t : i \in DOMAIN s \/ i = Len(t)
<1>1. PICK S : s \in Seq(S)
  BY DEF Listed
<1> DEFINE R == S \cup {x}
           t == Append(s, x)
<1>2. s \in Seq(R) /\ x \in R
  BY <1>1
<1> HIDE DEF R
<1>3. /\ t \in Seq(R) /\ Len(t) = Len(s) + 1 /\ Len(s) \in Nat /\ t[Len(s) + 1] = x
      /\ DOMAIN s = 1 .. Len(s) /\ DOMAIN t = 1 .. Len(s) + 1
      /\ \A i \in 1 .. Len(s) : t[i] = s[i]
  BY <1>2
<1> HIDE DEF t
<1>4. t # <<>>
  BY <1>3
<1>5. \A i \in 1 .. Len(s) + 1 : i \in 1 .. Len(s) \/ i = Len(s) + 1
  BY <1>3
<1>6. Len(t) \in DOMAIN t /\ DOMAIN s \subseteq DOMAIN t
  BY <1>3
<1> QED
  BY <1>3, <1>4, <1>5, <1>6 DEF Listed, t

\* An exit appends a trade that ends with the candle, or leaves the trades.
LEMMA ExitTrades ==
  ASSUME NEW b \in Books, NEW c
  PROVE  \/ Exit(b, c).trades = b.trades
         \/ \E t : t.exitTime = c.time /\ Exit(b, c).trades = Append(b.trades, t)
<1> DEFINE p == b.position
           t == CheckExit(p, c)
<1>1. CASE p = None \/ t = None
  <2>1. Exit(b, c) = b
    BY <1>1 DEF Exit
  <2> QED
    BY <2>1
<1>2. CASE p # None /\ t # None
  <2>1. p \in Positions
    BY <1>2, BookFields
  <2>2. PICK price, reason : t = Close(p, c.time, price, reason)
    BY <1>2 DEF CheckExit
  <2>3. t.exitTime = c.time
    BY <2>1, <2>2 DEF Close, Positions
  <2>4. Exit(b, c) = BookExit(b, t)
    BY <1>2 DEF Exit
  <2> HIDE DEF t
  <2>5. BookExit(b, t).trades = Append(b.trades, t)
    BY DEF BookExit, Books
  <2> QED
    BY <2>3, <2>4, <2>5
<1> QED
  BY <1>1, <1>2

\* The days of the trades stay on a curve that grows, when a new trade's day is on it.
LEMMA DaysStay ==
  ASSUME NEW h \in Seq(Positions), NEW g, NEW curve, NEW point, NEW longer, Listed(curve),
         longer = Append(curve, point),
         DaysDrawn(h, curve), Follows(h, g, point)
  PROVE  DaysDrawn(g, longer)
<1>1. /\ longer[Len(longer)] = point /\ Len(longer) \in DOMAIN longer
      /\ DOMAIN curve \subseteq DOMAIN longer /\ \A k \in DOMAIN curve : longer[k] = curve[k]
  BY ListAppended
<1>2. DaysDrawn(h, longer)
  BY <1>1 DEF DaysDrawn
<1>3. CASE g = h
  BY <1>2, <1>3
<1>4. ASSUME NEW t, t.exitTime = point.time, g = Append(h, t)
      PROVE  DaysDrawn(g, longer)
  <2>1. Listed(h)
    BY DEF Listed
  <2>2. /\ g[Len(g)] = t /\ \A i \in DOMAIN h : g[i] = h[i]
        /\ \A i \in DOMAIN g : i \in DOMAIN h \/ i = Len(g)
    BY <1>4, <2>1, ListAppended
  <2> SUFFICES ASSUME NEW i \in DOMAIN g
               PROVE  \E k \in DOMAIN longer : Day(longer[k].time) = Day(g[i].exitTime)
    BY DEF DaysDrawn
  <2>3. CASE i \in DOMAIN h
    BY <1>2, <2>2, <2>3 DEF DaysDrawn
  <2>4. CASE i = Len(g)
    BY <1>1, <1>4, <2>2, <2>4
  <2> QED
    BY <2>2, <2>3, <2>4
<1> QED
  BY <1>3, <1>4 DEF Follows

\* The same of a step, in the state's own names.
LEMMA DaysGoOn ==
  ASSUME NEW point, book.trades \in Seq(Positions), Listed(equity_curve),
         DaysDrawn(book.trades, equity_curve), equity_curve' = Append(equity_curve, point),
         Follows(book.trades, book'.trades, point)
  PROVE  DaysDrawn(book.trades, equity_curve)'
<1>1. PICK h \in Seq(Positions) : h = book.trades
  OBVIOUS
<1>2. PICK g : g = book'.trades
  OBVIOUS
<1>3. PICK curve : curve = equity_curve
  OBVIOUS
<1>4. PICK longer : longer = equity_curve'
  OBVIOUS
<1>5. Listed(curve) /\ DaysDrawn(h, curve) /\ longer = Append(curve, point) /\ Follows(h, g, point)
  BY <1>1, <1>2, <1>3, <1>4
<1>6. DaysDrawn(g, longer)
  BY <1>1, <1>5, DaysStay
<1> QED
  BY <1>2, <1>4, <1>6 DEF DaysDrawn

LEMMA ReplayDraws ==
  ASSUME BacktestInv, CurveInv, phase = "replay", NEW c \in NextCandles, NEW setup \in BOOLEAN,
         Replay(c, setup)
  PROVE  CurveInv'
<1> DEFINE b == Exit(RollDay(book, c), c)
           point == [time |-> c.time, equity |-> MarkedEquity(book', c)]
<1>1. /\ candles' = Append(candles, c) /\ phase' = phase
      /\ book' = IF setup THEN [b EXCEPT !.position = BuildOpenPosition(b, c)] ELSE b
      /\ equity_curve' = Append(equity_curve, point)
  BY DEF Replay
<1>2. /\ Listed(equity_curve) /\ book \in Books /\ candles \in Seq(CandleSet)
      /\ DaysDrawn(book.trades, equity_curve)
  BY DEF CurveInv, BacktestInv
<1>3. c \in CandleSet
  BY NextCandle
<1>4. candles'[Len(candles')] = c
  BY <1>1, <1>2, <1>3, CandleRead
<1>5. RollDay(book, c) \in Books /\ RollDay(book, c).trades = book.trades
  <2>1. CASE book.date = Day(c.time)
    BY <1>2, <2>1 DEF RollDay
  <2>2. CASE book.date # Day(c.time)
    <3>1. Day(c.time) \in Nat
      BY <1>3, DayMoves DEF CandleSet
    <3>2. RollDay(book, c) = [capital |-> book.capital, position |-> book.position, trades |-> book.trades,
                              closedAt |-> book.closedAt, date |-> Day(c.time), takenToday |-> 0,
                              lossToday |-> 0]
      BY <1>2, <2>2 DEF RollDay, Books
    <3> QED
      BY <1>2, <3>1, <3>2, BookFields DEF Books
  <2> QED
    BY <2>1, <2>2
<1>6. \/ b.trades = book.trades
      \/ \E t : t.exitTime = c.time /\ b.trades = Append(book.trades, t)
  BY <1>5, ExitTrades
<1>7. book'.trades = b.trades
  <2>1. PICK r \in Books : r = RollDay(book, c)
    BY <1>5
  <2>2. PICK x : x = BuildOpenPosition(b, c)
    OBVIOUS
  <2>3. [b EXCEPT !.position = x].trades = b.trades
    <3>1. CASE b = r
      BY <3>1 DEF Books
    <3>2. CASE b # r
      <4>1. PICK t : b = BookExit(r, t)
        BY <2>1, <3>2 DEF Exit
      <4>2. PICK capital, lossToday, trades, takenToday, closedAt :
              b = [capital |-> capital, position |-> None, trades |-> trades, closedAt |-> closedAt,
                   date |-> r.date, takenToday |-> takenToday, lossToday |-> lossToday]
        BY <4>1 DEF BookExit, Books
      <4> HIDE DEF b
      <4> QED
        BY <4>2
    <3> QED
      BY <3>1, <3>2
  <2> HIDE DEF b
  <2> QED
    BY <1>1, <2>2, <2>3
<1> HIDE DEF b
<1>8. point.time = c.time
  OBVIOUS
<1> HIDE DEF point
<1>9. DaysDrawn(book.trades, equity_curve)'
  <2>1. book.trades \in Seq(Positions)
    BY <1>2, BookFields
  <2>2. Follows(book.trades, book'.trades, point)
    BY <1>6, <1>7, <1>8 DEF Follows
  <2> QED
    BY <1>1, <1>2, <2>1, <2>2, DaysGoOn
<1>10. Listed(equity_curve') /\ equity_curve' # <<>> /\ equity_curve'[Len(equity_curve')] = point
  BY <1>1, <1>2, ListAppended
<1> QED
  BY <1>1, <1>4, <1>9, <1>10 DEF CurveInv, point, MarkedEquity

LEMMA FinishDraws ==
  ASSUME BacktestInv, CurveInv, phase = "replay", Finish
  PROVE  CurveInv'
<1>1. Len(candles) > WarmupCandles /\ candles' = candles /\ phase' = "done"
  BY DEF Finish
<1>2. /\ candles \in Seq(CandleSet) /\ book \in Books /\ Listed(equity_curve)
      /\ DaysDrawn(book.trades, equity_curve)
  BY DEF CurveInv, BacktestInv
<1>3. candles # <<>>
  <2>1. WarmupCandles \in Nat /\ Len(candles) \in Nat
    BY <1>2, BacktestAssumption
  <2>2. Len(candles) # 0
    BY <1>1, <2>1
  <2> QED
    BY <1>2, <2>2
<1>4. PICK last \in CandleSet : last = candles[Len(candles)]
  BY <1>2, <1>3, CandleRead
<1>5. /\ equity_curve # <<>>
      /\ equity_curve[Len(equity_curve)] = [time |-> last.time, equity |-> MarkedEquity(book, last)]
  BY <1>1, <1>4 DEF CurveInv
<1>6. BookOK(book, last)
  BY <1>3, <1>4 DEF BacktestInv
<1>7. book.capital = InitialCapital + PnlBefore(book.trades, Len(book.trades) + 1) /\ book.capital \in Int
  BY <1>2, <1>6, BookFields DEF BookOK, Counted
<1>8. CASE book.position = None
  <2>1. UNCHANGED <<book, equity_curve>>
    BY <1>8 DEF Finish
  <2>2. MarkedEquity(book, last) = book.capital
    BY <1>7, <1>8 DEF MarkedEquity
  <2>3. equity_curve[Len(equity_curve)].equity = book.capital
    BY <1>5, <2>2
  <2> QED
    BY <1>1, <1>2, <1>5, <1>7, <2>1, <2>3 DEF CurveInv
<1>9. CASE book.position # None
  <2>1. PICK p \in Positions : p = book.position
    BY <1>2, <1>9, BookFields
  <2>2. PICK t : t = Close(p, last.time, last.close, "EndOfData")
    OBVIOUS
  <2>3. t.exitTime = last.time
    BY <2>1, <2>2 DEF Close, Positions
  <2>4. t \in Positions /\ t.pnl \in Int
    <3>1. /\ InOrder(book.trades, last.time) /\ Counted(book) /\ RoomForTrade(book)
          /\ p.entryTime <= last.time /\ p.stop <= last.close
      BY <1>6, <1>9, <2>1 DEF BookOK, HeldThrough
    <3>2. last.time \in Nat /\ last.close \in Int
      BY DEF CandleSet
    <3>3. t \in Positions
      BY <1>2, <2>1, <2>2, <3>1, <3>2, TradeFields, ClosedTrade
    <3> QED
      BY <3>3, TradeFields
  <2> DEFINE g == Append(book.trades, t)
             point == [time |-> last.time, equity |-> book.capital + t.pnl]
  <2>5. /\ book'.trades = g /\ book'.capital = book.capital + t.pnl
        /\ equity_curve' = Append(equity_curve, point)
    <3>1. t = Close(book.position, Last(candles).time, Last(candles).close, "EndOfData")
      BY <1>4, <2>1, <2>2 DEF Last
    <3>2. /\ book' = [book EXCEPT !.capital = book.capital + t.pnl, !.trades = g]
          /\ equity_curve' = Append(equity_curve, point)
      BY <1>2, <1>4, <1>9, <3>1 DEF Finish, ForceClose, Books, Last
    <3> HIDE DEF g
    <3> QED
      BY <1>2, <3>2 DEF Books
  <2>6. point.time = last.time /\ point.equity = book.capital + t.pnl
    OBVIOUS
  <2> HIDE DEF point
  <2>7. book.trades \in Seq(Positions)
    BY <1>2, BookFields
  <2>8. DaysDrawn(book.trades, equity_curve)'
    <3>1. Follows(book.trades, book'.trades, point)
      BY <2>3, <2>5, <2>6 DEF Follows
    <3> QED
      BY <1>2, <2>5, <2>7, <3>1, DaysGoOn
  <2>9. Listed(equity_curve') /\ equity_curve' # <<>> /\ equity_curve'[Len(equity_curve')] = point
    BY <1>2, <2>5, ListAppended
  <2>10. book'.capital = InitialCapital + PnlBefore(book'.trades, Len(book'.trades) + 1)
    <3>1. /\ PnlBefore(book.trades, Len(book.trades) + 1) \in Int
          /\ PnlBefore(g, Len(g) + 1) = PnlBefore(book.trades, Len(book.trades) + 1) + t.pnl
      BY <2>4, <2>7, PnlAppended
    <3>2. InitialCapital \in Int
      BY BacktestAssumption
    <3> HIDE DEF g
    <3> QED
      BY <1>7, <2>4, <2>5, <3>1, <3>2
  <2> QED
    BY <1>1, <2>5, <2>6, <2>8, <2>9, <2>10 DEF CurveInv
<1> QED
  BY <1>8, <1>9

LEMMA WarmUpDraws ==
  ASSUME BacktestInv, CurveInv, phase = "replay", NEW c \in NextCandles, WarmUp(c)
  PROVE  CurveInv'
<1>1. /\ Len(candles) < WarmupCandles /\ candles' = Append(candles, c) /\ phase' = phase
      /\ UNCHANGED <<book, equity_curve>>
  BY DEF WarmUp
<1>2. candles \in Seq(CandleSet) /\ c \in CandleSet
  BY NextCandle DEF BacktestInv
<1>3. ~ (Len(candles') > WarmupCandles)
  BY <1>1, <1>2, CandleRead, BacktestAssumption
<1> QED
  BY <1>1, <1>3 DEF CurveInv

\* The inductive invariant of a backtest's curve, along every job.
THEOREM CurveInvariant == Spec => [](BacktestInv /\ CurveInv)
<1>1. Init => CurveInv
  <2> SUFFICES ASSUME Init PROVE CurveInv
    OBVIOUS
  <2>1. candles = <<>> /\ book = NewBook /\ equity_curve = <<>> /\ phase = "replay"
    BY DEF Init, BacktestInit
  <2>2. equity_curve \in Seq({}) /\ Len(candles) = 0 /\ book.trades = <<>>
    BY <2>1 DEF NewBook
  <2>3. ~ (Len(candles) > WarmupCandles)
    BY <2>2, BacktestAssumption
  <2>4. DaysDrawn(book.trades, equity_curve)
    BY <2>2 DEF DaysDrawn
  <2> QED
    BY <2>1, <2>2, <2>3, <2>4 DEF CurveInv, Listed
<1>2. BacktestInv /\ CurveInv /\ [Next]_vars => CurveInv'
  <2> SUFFICES ASSUME BacktestInv, CurveInv, [Next]_vars PROVE CurveInv'
    OBVIOUS
  <2>1. CASE BacktestNext
    <3>1. CASE Refuse
      <4>1. phase' = "refused" /\ UNCHANGED <<candles, book, equity_curve>>
        BY <3>1 DEF Refuse
      <4> QED
        BY <4>1 DEF CurveInv
    <3> QED
      BY <2>1, <3>1, WarmUpDraws, ReplayDraws, FinishDraws DEF BacktestNext
  <2>2. CASE UNCHANGED backtestVars
    <3>1. UNCHANGED <<candles, book, equity_curve, phase>>
      BY <2>2 DEF backtestVars
    <3> QED
      BY <3>1 DEF CurveInv, MarkedEquity
  <2> QED
    BY <2>1, <2>2 DEF Next, vars
<1> QED
  BY <1>1, <1>2, BacktestInvariant, PTL DEF Spec

\* When a backtest is done, the last point of its curve, its capital, its trades, their
\* days and the gross figures of its report are one result (BooksAgree).
THEOREM BooksStayAgreed == Spec => []BooksAgree
<1>1. BacktestInv /\ CurveInv => BooksAgree
  <2> SUFFICES ASSUME BacktestInv, CurveInv, phase = "done" PROVE BooksAgree
    BY DEF BooksAgree
  <2>1. History \in Seq(Positions)
    BY BookFields DEF BacktestInv, History
  <2>2. /\ equity_curve # <<>> /\ equity_curve[Len(equity_curve)].equity = book.capital
        /\ book.capital = InitialCapital + PnlBefore(History, Len(History) + 1)
        /\ \A i \in DOMAIN History : \E k \in DOMAIN equity_curve :
             Day(equity_curve[k].time) = Day(History[i].exitTime)
    BY DEF CurveInv, History, DaysDrawn
  <2> DEFINE result == PnlOf(History, DOMAIN History)
             report == Report(History, equity_curve, book.capital)
  <2>3. /\ result = PnlBefore(History, Len(History) + 1)
        /\ result = PnlOf(History, Winning(History)) - (-PnlOf(History, Losing(History)))
        /\ result = SumOf(DailyPnL(History))
    BY <2>1, PnlParts
  <2>4. /\ report.grossProfit = PnlOf(History, Winning(History))
        /\ report.grossLoss = -PnlOf(History, Losing(History))
    BY DEF Report
  <2>5. Last(equity_curve).equity = book.capital
    BY <2>2 DEF Last
  <2>6. \A day \in DOMAIN DailyPnL(History) : \E i \in DOMAIN equity_curve :
          Day(equity_curve[i].time) = day
    BY <2>2 DEF DailyPnL
  <2> HIDE DEF result, report
  <2> QED
    BY <2>2, <2>3, <2>4, <2>5, <2>6 DEF BooksAgree, result, report
<1> QED
  BY <1>1, CurveInvariant, PTL

-----------------------------------------------------------------------------
(* What a search and its reports add up to *)

\* A combination of the space: a value of every axis.
OnGrid(c) ==
  \A k \in DOMAIN ParameterSpace :
    c[ParameterSpace[k].name] \in ToSet(Values(ParameterSpace[k]))

\* A result a report counts: of one status, its values of the grid if it completed.
Reported(r) ==
  /\ r.status \in {"Completed", "InsufficientData", "Failed"}
  /\ r.status = "Completed" => OnGrid(r.best.combination) /\ r.passed \in BOOLEAN

SearchInv ==
  /\ search # <<>> => rankBy \in RankBys
  /\ Listed(search) /\ Measured(search) /\ \A i \in DOMAIN search : OnGrid(search[i].combination)
  /\ Listed(validated) /\ \A i \in DOMAIN validated : Reported(validated[i])

\* Every combination of the grid is one of the space.
LEMMA GridOnGrid ==
  ASSUME NEW i \in DOMAIN Grid
  PROVE  OnGrid(Grid[i])
<1> DEFINE n == Len(ParameterSpace)
<1>1. GridTo(ParameterSpace, n, Grid, TotalCombinations(ParameterSpace))
  BY ParameterSpaceIs, GridIs DEF Grid
<1>2. \A k \in 1 .. n : \E r \in DOMAIN Values(ParameterSpace[k]) :
        Grid[i][ParameterSpace[k].name] = Values(ParameterSpace[k])[r]
  BY <1>1 DEF GridTo
<1>3. DOMAIN ParameterSpace = 1 .. n
  BY ParameterSpaceIs DEF IsSpace, Listed
<1> QED
  BY <1>2, <1>3 DEF OnGrid, ToSet

\* Sets that share nothing hold as much as the two of them.
LEMMA DisjointCount ==
  ASSUME NEW A, NEW B, IsFiniteSet(A), IsFiniteSet(B), A \cap B = {}
  PROVE  IsFiniteSet(A \cup B) /\ Cardinality(A \cup B) = Cardinality(A) + Cardinality(B)
<1>1. Cardinality(A \cap B) = 0
  BY FS_EmptySet
<1>2. /\ IsFiniteSet(A \cup B)
      /\ Cardinality(A \cup B) = Cardinality(A) + Cardinality(B) - Cardinality(A \cap B)
  BY FS_Union
<1>3. Cardinality(A) \in Nat /\ Cardinality(B) \in Nat
  BY FS_CardinalityType
<1> QED
  BY <1>1, <1>2, <1>3

\* The windows by their status are all the windows.
LEMMA StatusesAddUp ==
  ASSUME SearchInv
  PROVE  LET report == ValidationReport
         IN /\ report.completed + report.insufficient + report.failed = report.total
            /\ OverallPassed(report) /\ MinRobustness > 0 =>
                 \E i \in DOMAIN validated : validated[i].passed = TRUE
<1> DEFINE A == WithStatus("Completed")
           B == WithStatus("InsufficientData")
           C == WithStatus("Failed")
           P == {i \in A : validated[i].passed}
           D == DOMAIN validated
           report == ValidationReport
<1>1. PICK S : validated \in Seq(S)
  BY DEF SearchInv, Listed
<1>2. IsFiniteSet(D) /\ Cardinality(D) = Len(validated)
  BY <1>1, ListFacts
<1>3. D = (A \cup B) \cup C /\ A \cap B = {} /\ (A \cup B) \cap C = {} /\ P \subseteq A
  BY DEF WithStatus, SearchInv, Reported
<1>4. \A i \in A : i \in D /\ validated[i].passed \in BOOLEAN
  BY DEF WithStatus, SearchInv, Reported
<1>5. /\ report.total = Len(validated) /\ report.completed = Cardinality(A)
      /\ report.insufficient = Cardinality(B) /\ report.failed = Cardinality(C)
      /\ report.passed = Cardinality(P)
  BY DEF ValidationReport
<1> HIDE DEF A, B, C, D, report
<1>6. IsFiniteSet(A) /\ IsFiniteSet(B) /\ IsFiniteSet(C)
  BY <1>2, <1>3, FS_Subset
<1>7. /\ IsFiniteSet(A \cup B) /\ Cardinality(A \cup B) = Cardinality(A) + Cardinality(B)
  BY <1>3, <1>6, DisjointCount
<1>8. Cardinality((A \cup B) \cup C) = Cardinality(A \cup B) + Cardinality(C)
  BY <1>3, <1>6, <1>7, DisjointCount
<1>9. report.completed + report.insufficient + report.failed = report.total
  BY <1>2, <1>3, <1>5, <1>7, <1>8, <1>6, FS_CardinalityType
<1>10. ASSUME OverallPassed(report), MinRobustness > 0
       PROVE  \E i \in D : validated[i].passed = TRUE
  <2>1. P # {}
    <3> SUFFICES ASSUME P = {} PROVE FALSE
      OBVIOUS
    <3>1. report.passed = 0
      BY <1>5, FS_EmptySet
    <3>2. PICK k \in Nat, m \in Nat : k = report.completed /\ m = MinRobustness
      BY <1>5, <1>6, FS_CardinalityType, WindowsAssumption DEF WindowsAssumption, RulesAccepted
    <3>3. k > 0 /\ m > 0 /\ 100 * 0 >= m * k
      BY <1>10, <3>1, <3>2 DEF OverallPassed
    <3> QED
      BY <3>3, SMTT(30)
  <2>2. PICK i : i \in A /\ validated[i].passed
    BY <2>1
  <2> QED
    BY <1>4, <2>2
<1> QED
  BY <1>9, <1>10 DEF D, report

\* Every completed combination is counted with one value of a parameter.
LEMMA SummaryAddsUp ==
  ASSUME SearchInv, NEW name
  PROVE  LET summary == ParameterSummary(search, name)
         IN FoldFunctionOnSet(+, 0, summary, DOMAIN summary) = Cardinality(CompletedResults(search))
<1> DEFINE S == CompletedResults(search)
           class == [i \in S |-> search[i].combination[name]]
           V == {class[i] : i \in S}
           one == [i \in S |-> 1]
           Of(e) == {i \in S : class[i] = e}
           summary == ParameterSummary(search, name)
           counts == [e \in V |-> SumOn(one, Of(e))]
<1>1. IsFiniteSet(S)
  <2>1. S \subseteq DOMAIN search
    BY DEF CompletedResults
  <2> QED
    BY <2>1, FS_Subset DEF SearchInv, Measured
<1>2. summary = [e \in V |-> Cardinality(Of(e))]
  BY DEF ParameterSummary
<1>3. /\ \A i \in S : one[i] = 1 /\ class[i] \in V
      /\ \A e \in V : Of(e) \subseteq S
  OBVIOUS
<1>4. IsFiniteSet(V)
  <2> HIDE DEF class, S
  <2> QED
    BY <1>1, ImageFinite
<1> HIDE DEF one, S, summary, class, V
<1>5. SumOn(one, S) = Cardinality(S)
  BY <1>1, <1>3, SumOfOnes
<1>6. SumOn(one, S) = SumOn(counts, V)
  BY <1>1, <1>3, <1>4, SumByParts
<1>7. \A e \in V : counts[e] = summary[e]
  <2> SUFFICES ASSUME NEW e \in V PROVE SumOn(one, Of(e)) = Cardinality(Of(e))
    BY <1>2
  <2>1. IsFiniteSet(Of(e)) /\ \A i \in Of(e) : one[i] = 1
    BY <1>1, <1>3, FS_Subset
  <2> HIDE DEF Of
  <2> QED
    BY <2>1, SumOfOnes
<1>8. SumOn(counts, V) = SumOn(summary, V)
  <2> HIDE DEF counts
  <2> QED
    BY <1>4, <1>7, SumOnSame
<1>9. DOMAIN summary = V
  BY <1>2
<1>10. FoldFunctionOnSet(+, 0, summary, DOMAIN summary) = SumOn(summary, V)
  BY <1>9 DEF SumOn
<1> QED
  BY <1>5, <1>6, <1>8, <1>10 DEF S, summary

LEMMA ReportsDo ==
  ASSUME SearchInv
  PROVE  ReportsAddUp
<1>1. ASSUME NEW k \in DOMAIN ParameterSpace
      PROVE  LET name == ParameterSpace[k].name
             IN ValuesChosen(name) \cup DOMAIN ParameterSummary(search, name)
                  \subseteq ToSet(Values(ParameterSpace[k]))
  <2> DEFINE name == ParameterSpace[k].name
             values == ToSet(Values(ParameterSpace[k]))
  <2>1. \A i \in WithStatus("Completed") : validated[i].best.combination[name] \in values
    BY DEF WithStatus, SearchInv, Reported, OnGrid
  <2>2. \A i \in CompletedResults(search) : search[i].combination[name] \in values
    BY DEF CompletedResults, SearchInv, OnGrid
  <2>3. DOMAIN ParameterSummary(search, name) = {search[i].combination[name] : i \in CompletedResults(search)}
    BY DEF ParameterSummary
  <2> HIDE DEF values, name
  <2>4. ValuesChosen(name) \cup DOMAIN ParameterSummary(search, name) \subseteq values
    BY <2>1, <2>2, <2>3 DEF ValuesChosen
  <2> QED
    BY <2>4 DEF values, name
<1>2. ASSUME NEW metric \in Metrics
      PROVE  MetricDistribution(search, metric).sample <= Cardinality(CompletedResults(search))
  <2> DEFINE present == {i \in DOMAIN search : ExtractMetric(search[i], metric) # NoValue}
  <2>1. present \subseteq CompletedResults(search)
    BY DEF ExtractMetric, CompletedResults
  <2>2. IsFiniteSet(CompletedResults(search))
    <3>1. CompletedResults(search) \subseteq DOMAIN search
      BY DEF CompletedResults
    <3> QED
      BY <3>1, FS_Subset DEF SearchInv, Measured
  <2>3. MetricDistribution(search, metric).sample = Cardinality(present)
    BY DEF MetricDistribution
  <2> HIDE DEF present
  <2> QED
    BY <2>1, <2>2, <2>3, FS_Subset
<1> QED
  BY <1>1, <1>2, StatusesAddUp, SummaryAddsUp DEF ReportsAddUp

LEMMA RanksDo ==
  ASSUME SearchInv
  PROVE  RanksDominance
<1>1. PICK found, by : found = search /\ by = rankBy
  OBVIOUS
<1>2. Listed(found) /\ Measured(found)
  BY <1>1 DEF SearchInv
<1>3. PICK S : found \in Seq(S)
  BY <1>2 DEF Listed
<1>4. found # <<>> => by \in Metrics \cup {"WeightedScore"}
  BY <1>1, WindowsAssumption DEF SearchInv, WindowsAssumption, SearchAccepted
<1>5. \A i \in DOMAIN found : KeyOf(found, i, by) \in Int \X Int
  <2> SUFFICES ASSUME NEW i \in DOMAIN found PROVE KeyOf(found, i, by) \in Int \X Int
    OBVIOUS
  <2>1. found # <<>>
    BY <1>3
  <2> QED
    BY <1>2, <1>4, <2>1, KeyIs DEF Measured
<1> DEFINE ranked == Rank(found, by)
<1>6. /\ ToSet(ranked) = ToSet(found) /\ Len(ranked) = Len(found)
      /\ by = "WeightedScore" /\ (\A m \in DOMAIN Weights : Weights[m] > 0) =>
           \A p, q \in DOMAIN ranked : p < q => ~Dominates(ranked[q], ranked[p])
  BY <1>2, <1>3, <1>5, RankedWell
<1> QED
  BY <1>1, <1>6 DEF RanksDominance

\* A result among those of a list.
LEMMA OneMoreReported ==
  ASSUME Listed(validated), \A i \in DOMAIN validated : Reported(validated[i]),
         NEW r, Reported(r), validated' = Append(validated, r)
  PROVE  Listed(validated') /\ \A i \in DOMAIN validated' : Reported(validated'[i])
<1>1. PICK old, new : old = validated /\ new = validated'
  OBVIOUS
<1>2. Listed(old) /\ new = Append(old, r) /\ \A i \in DOMAIN old : Reported(old[i])
  BY <1>1
<1>3. /\ Listed(new) /\ new[Len(new)] = r /\ \A i \in DOMAIN old : new[i] = old[i]
      /\ \A i \in DOMAIN new : i \in DOMAIN old \/ i = Len(new)
  BY <1>2, ListAppended
<1>4. \A i \in DOMAIN new : Reported(new[i])
  <2> SUFFICES ASSUME NEW i \in DOMAIN new PROVE Reported(new[i])
    OBVIOUS
  <2>1. CASE i \in DOMAIN old
    BY <1>2, <1>3, <2>1
  <2>2. CASE i = Len(new)
    BY <1>3, <2>2
  <2> QED
    BY <1>3, <2>1, <2>2
<1> QED
  BY <1>1, <1>3, <1>4

LEMMA SearchKeeps ==
  ASSUME SearchInv, BestInv, WalkForwardNext
  PROVE  SearchInv'
<1>1. windows # <<>> /\ rankBy' = rankBy /\ rankBy \in RankBys
  BY DEF BestInv, WalkForwardNext, SkipWindow, SearchRaises, ValidateWindow
<1>2. CASE SkipWindow \/ SearchRaises
  <2>1. PICK status \in {"InsufficientData", "Failed"} :
          validated' = Append(validated, Result(Head(windows), status, NoValue, NoValue, NoValue))
    BY <1>2 DEF SkipWindow, SearchRaises
  <2>2. search' = <<>> /\ search' \in Seq({}) /\ DOMAIN search' = {}
    <3>1. search' = <<>>
      BY <1>2 DEF SkipWindow, SearchRaises
    <3> QED
      BY <3>1
  <2> DEFINE r == Result(Head(windows), status, NoValue, NoValue, NoValue)
  <2>3. Reported(r)
    BY DEF Reported, Result
  <2> HIDE DEF r
  <2>4. Listed(validated') /\ \A i \in DOMAIN validated' : Reported(validated'[i])
    BY <2>1, <2>3, OneMoreReported DEF r, SearchInv
  <2>5. Listed(search') /\ IsFiniteSet(DOMAIN search')
    BY <2>2, FS_EmptySet DEF Listed
  <2> QED
    BY <2>2, <2>4, <2>5 DEF SearchInv, Measured, Listed
<1>3. ASSUME NEW outcomes \in [DOMAIN Grid -> Outcomes], NEW test \in Outcomes,
             ValidateWindow(outcomes, test)
      PROVE  SearchInv'
  <2> DEFINE found == RunGridSearch(outcomes)
             best == BestCompleted(Rank(found, rankBy))
             r == WindowResult(Head(windows), best, test)
  <2>1. validated' = Append(validated, r) /\ search' = found
    BY <1>3 DEF ValidateWindow
  <2>2. PICK S : found \in Seq(S)
    BY SearchFacts DEF Listed
  <2>3. \A i \in DOMAIN found : SearchResult(found[i])
    BY SearchFacts
  <2>4. \A i \in DOMAIN found : OnGrid(found[i].combination)
    <3>1. \A i \in DOMAIN found : i \in DOMAIN Grid /\ found[i].combination = Grid[i]
      BY DEF RunGridSearch
    <3> HIDE DEF found
    <3> QED
      BY <3>1, GridOnGrid
  <2> HIDE DEF found
  <2>5. Listed(found) /\ Measured(found)
    <3>1. IsFiniteSet(DOMAIN found)
      BY <2>2, ListFacts
    <3> QED
      BY <2>2, <2>3, <3>1 DEF Listed, Measured
  <2>6. \A i \in DOMAIN found : KeyOf(found, i, rankBy) \in Int \X Int
    <3>1. rankBy \in Metrics \cup {"WeightedScore"}
      BY <1>1, WindowsAssumption DEF WindowsAssumption, SearchAccepted
    <3> QED
      BY <2>5, <3>1, KeyIs DEF Measured
  <2>7. best # NoValue => OnGrid(best.combination)
    <3> SUFFICES ASSUME best # NoValue PROVE OnGrid(best.combination)
      OBVIOUS
    <3>1. PICK at \in DOMAIN found : found[at] = best
      BY <2>2, <2>6, BestIsBest
    <3> HIDE DEF best
    <3> QED
      BY <2>4, <3>1
  <2> HIDE DEF best
  <2>8. Reported(r)
    <3>1. CASE r.status = "Completed"
      <4>1. /\ best # NoValue
            /\ r = [window |-> Head(windows), status |-> "Completed", best |-> best,
                    test |-> [config |-> best.config, outcome |-> test],
                    passed |-> EvaluatePassFail(best.outcome, test)]
        BY <3>1 DEF WindowResult, Result
      <4>2. r.best = best /\ r.passed = EvaluatePassFail(best.outcome, test)
        <5> HIDE DEF r
        <5> QED
          BY <4>1
      <4>3. EvaluatePassFail(best.outcome, test) \in BOOLEAN
        BY DEF EvaluatePassFail
      <4> QED
        BY <2>7, <3>1, <4>1, <4>2, <4>3 DEF Reported
    <3>2. CASE r.status # "Completed"
      <4>1. r.status \in {"InsufficientData", "Failed"}
        BY <3>2 DEF WindowResult, Result
      <4> QED
        BY <4>1 DEF Reported
    <3> QED
      BY <3>1, <3>2
  <2> HIDE DEF r
  <2>9. Listed(validated') /\ \A i \in DOMAIN validated' : Reported(validated'[i])
    BY <2>1, <2>8, OneMoreReported DEF SearchInv
  <2>10. rankBy' \in RankBys
    BY <1>1
  <2> QED
    BY <2>1, <2>4, <2>5, <2>9, <2>10 DEF SearchInv, Listed, Measured
<1> QED
  BY <1>2, <1>3 DEF WalkForwardNext

\* The inductive invariant of what a search found and what is reported of it.
THEOREM SearchInvariant == Spec => []SearchInv
<1>1. Init => SearchInv
  <2>1. Init => search = <<>> /\ validated = <<>>
    BY DEF Init, NoValidation, WalkForwardInit
  <2>2. search = <<>> /\ validated = <<>> => SearchInv
    <3> SUFFICES ASSUME search = <<>>, validated = <<>> PROVE SearchInv
      OBVIOUS
    <3>1. search \in Seq({}) /\ validated \in Seq({}) /\ DOMAIN search = {} /\ DOMAIN validated = {}
      OBVIOUS
    <3>2. IsFiniteSet(DOMAIN search)
      BY <3>1, FS_EmptySet
    <3> QED
      BY <3>1, <3>2 DEF SearchInv, Listed, Measured
  <2> QED
    BY <2>1, <2>2
<1>2. SearchInv /\ BestInv /\ [Next]_vars => SearchInv'
  <2> SUFFICES ASSUME SearchInv, BestInv, [Next]_vars PROVE SearchInv'
    OBVIOUS
  <2>1. CASE WalkForwardNext
    BY <2>1, SearchKeeps
  <2>2. CASE UNCHANGED walkForwardVars
    BY <2>2 DEF SearchInv, walkForwardVars, Listed, Measured
  <2> QED
    BY <2>1, <2>2 DEF Next, vars
<1> QED
  BY <1>1, <1>2, BestInvariant, PTL DEF Spec

\* What a search ranks and what is counted of it add up (SearchesAddUp): the ranking
\* is the list in an order that puts no combination behind one it dominates, and the
\* reports count every window and every completed combination once.
THEOREM SearchesDoAddUp == Spec => []SearchesAddUp
<1>1. SearchInv => SearchesAddUp
  BY RanksDo, ReportsDo DEF SearchesAddUp
<1> QED
  BY <1>1, SearchInvariant, PTL

-----------------------------------------------------------------------------
(* What may be configured *)

ValidatedNames == DOMAIN StrategyDefaults \cup DOMAIN RiskDefaults \cup DOMAIN SessionDefaults

\* A record with the names of two others, and what each says.
Together(c, a, b) ==
  /\ DOMAIN c = DOMAIN a \cup DOMAIN b
  /\ \A name \in DOMAIN a : c[name] = a[name]
  /\ \A name \in DOMAIN b : c[name] = b[name]

\* Two records as one have the names of both, and what each says.
LEMMA WithIs ==
  ASSUME NEW a, NEW b, DOMAIN a \cap DOMAIN b = {}
  PROVE  Together(With(a, b), a, b)
BY DEF With, Together

LEMMA SectionNames ==
  /\ DOMAIN StrategyDefaults = {"rsi_bullish_threshold", "rsi_bearish_threshold", "vwap_enabled",
                                "supertrend_enabled", "min_agreeing_checks"}
  /\ DOMAIN RiskDefaults = {"risk_per_trade_percent", "stop_loss_atr_multiplier",
                            "target_atr_multiplier", "max_daily_loss", "max_trades_per_day",
                            "max_concurrent_positions", "max_capital_exposure_percent"}
  /\ DOMAIN SessionDefaults = {"opening_range_minutes", "no_trade_zone_minutes", "trading_start_time",
                               "trading_end_time", "allow_expiry_day_trading", "lunch_filter_enabled"}
  /\ DOMAIN IndicatorDefaults = {"ema_period", "rsi_period", "supertrend_period",
                                 "supertrend_multiplier", "atr_period"}
  /\ DOMAIN StrategyCatalogue = DOMAIN StrategyDefaults /\ DOMAIN RiskCatalogue = DOMAIN RiskDefaults
  /\ DOMAIN SessionCatalogue = DOMAIN SessionDefaults
  /\ DOMAIN IndicatorCatalogue = DOMAIN IndicatorDefaults /\ DOMAIN RiskRanges = DOMAIN RiskDefaults
<1>1. DOMAIN StrategyCatalogue = DOMAIN StrategyDefaults
  BY DEF StrategyCatalogue, StrategyDefaults
<1>2. DOMAIN RiskCatalogue = DOMAIN RiskDefaults
  BY DEF RiskCatalogue, RiskDefaults
<1>9. DOMAIN RiskRanges = DOMAIN RiskDefaults
  BY DEF RiskRanges, RiskDefaults
<1>3. DOMAIN SessionCatalogue = DOMAIN SessionDefaults
  BY DEF SessionCatalogue, SessionDefaults
<1>4. DOMAIN IndicatorCatalogue = DOMAIN IndicatorDefaults
  BY DEF IndicatorCatalogue, IndicatorDefaults
<1>5. DOMAIN StrategyDefaults = {"rsi_bullish_threshold", "rsi_bearish_threshold", "vwap_enabled",
                                 "supertrend_enabled", "min_agreeing_checks"}
  BY DEF StrategyDefaults
<1>6. DOMAIN RiskDefaults = {"risk_per_trade_percent", "stop_loss_atr_multiplier",
                             "target_atr_multiplier", "max_daily_loss", "max_trades_per_day",
                             "max_concurrent_positions", "max_capital_exposure_percent"}
  BY DEF RiskDefaults
<1>7. DOMAIN SessionDefaults = {"opening_range_minutes", "no_trade_zone_minutes", "trading_start_time",
                                "trading_end_time", "allow_expiry_day_trading", "lunch_filter_enabled"}
  BY DEF SessionDefaults
<1>8. DOMAIN IndicatorDefaults = {"ema_period", "rsi_period", "supertrend_period",
                                  "supertrend_multiplier", "atr_period"}
  BY DEF IndicatorDefaults
<1> QED
  BY <1>1, <1>2, <1>3, <1>4, <1>5, <1>6, <1>7, <1>8, <1>9

FourTogether(all, s, r, h, i) ==
  /\ DOMAIN all = DOMAIN s \cup DOMAIN r \cup DOMAIN h \cup DOMAIN i
  /\ \A name \in DOMAIN s : all[name] = s[name]
  /\ \A name \in DOMAIN r : all[name] = r[name]
  /\ \A name \in DOMAIN h : all[name] = h[name]
  /\ \A name \in DOMAIN i : all[name] = i[name]

\* Four sections, no two with a name in common, as one.
LEMMA SectionsApart ==
  ASSUME NEW s, NEW r, NEW h, NEW i,
         DOMAIN s = DOMAIN StrategyDefaults, DOMAIN r = DOMAIN RiskDefaults,
         DOMAIN h = DOMAIN SessionDefaults, DOMAIN i = DOMAIN IndicatorDefaults
  PROVE  FourTogether(With(With(s, r), With(h, i)), s, r, h, i)
<1>1. /\ DOMAIN s \cap DOMAIN r = {} /\ DOMAIN h \cap DOMAIN i = {}
      /\ (DOMAIN s \cup DOMAIN r) \cap (DOMAIN h \cup DOMAIN i) = {}
  BY SectionNames
<1>2. PICK a, b : a = With(s, r) /\ b = With(h, i)
  OBVIOUS
<1>3. Together(a, s, r)
  BY <1>1, <1>2, WithIs
<1>4. Together(b, h, i)
  BY <1>1, <1>2, WithIs
<1>5. DOMAIN a \cap DOMAIN b = {}
  BY <1>1, <1>3, <1>4 DEF Together
<1>6. Together(With(a, b), a, b)
  BY <1>5, WithIs
<1>7. FourTogether(With(a, b), s, r, h, i)
  BY <1>3, <1>4, <1>6 DEF Together, FourTogether
<1> QED
  BY <1>2, <1>7

LEMMA DefaultsAre ==
  /\ DOMAIN Defaults = ValidatedNames \cup DOMAIN IndicatorDefaults
  /\ \A name \in DOMAIN StrategyDefaults : Defaults[name] = StrategyDefaults[name]
  /\ \A name \in DOMAIN RiskDefaults : Defaults[name] = RiskDefaults[name]
  /\ \A name \in DOMAIN SessionDefaults : Defaults[name] = SessionDefaults[name]
  /\ \A name \in DOMAIN IndicatorDefaults : Defaults[name] = IndicatorDefaults[name]
BY SectionsApart DEF Defaults, FourTogether, ValidatedNames

LEMMA CatalogueIs ==
  /\ DOMAIN Catalogue = DOMAIN Defaults
  /\ \A name \in DOMAIN StrategyDefaults : Catalogue[name] = StrategyCatalogue[name]
  /\ \A name \in DOMAIN RiskDefaults : Catalogue[name] = RiskCatalogue[name]
  /\ \A name \in DOMAIN SessionDefaults : Catalogue[name] = SessionCatalogue[name]
  /\ \A name \in DOMAIN IndicatorDefaults : Catalogue[name] = IndicatorCatalogue[name]
<1>1. /\ DOMAIN StrategyCatalogue = DOMAIN StrategyDefaults /\ DOMAIN RiskCatalogue = DOMAIN RiskDefaults
      /\ DOMAIN SessionCatalogue = DOMAIN SessionDefaults
      /\ DOMAIN IndicatorCatalogue = DOMAIN IndicatorDefaults
  BY SectionNames
<1>2. PICK s, r, h, i : s = StrategyCatalogue /\ r = RiskCatalogue /\ h = SessionCatalogue /\ i = IndicatorCatalogue
  OBVIOUS
<1>3. Catalogue = With(With(s, r), With(h, i))
  BY <1>2 DEF Catalogue
<1>4. FourTogether(With(With(s, r), With(h, i)), s, r, h, i)
  BY <1>1, <1>2, SectionsApart
<1> QED
  BY <1>1, <1>2, <1>3, <1>4, DefaultsAre DEF FourTogether, ValidatedNames

LEMMA EntryIs ==
  /\ \A d, least, most, safe : /\ Number(d, least, most, safe).default = d
                              /\ Number(d, least, most, safe).allowed = least .. most
  /\ \A d, safe : Toggle(d, safe).default = d /\ Toggle(d, safe).allowed = BOOLEAN
BY DEF Number, Toggle, Entry

LEMMA EntriesGiveDefaults ==
  \A name \in DOMAIN Defaults : Catalogue[name].default = Defaults[name]
<1>1. \A name \in DOMAIN StrategyDefaults : StrategyCatalogue[name].default = StrategyDefaults[name]
  <2>1. \A name \in DOMAIN StrategyDefaults \ Toggles :
          StrategyCatalogue[name].default = StrategyDefaults[name]
    BY SectionNames, EntryIs DEF StrategyCatalogue, StrategyDefaults, Toggles
  <2>2. StrategyCatalogue["vwap_enabled"] = Toggle(TRUE, "Yes") /\ StrategyCatalogue["supertrend_enabled"] = Toggle(TRUE, "Yes")
    BY DEF StrategyCatalogue
  <2>3. StrategyDefaults["vwap_enabled"] = TRUE /\ StrategyDefaults["supertrend_enabled"] = TRUE
    BY DEF StrategyDefaults
  <2>4. Toggle(TRUE, "Yes").default = TRUE
    BY EntryIs, Zenon
  <2>5. \A name \in {"vwap_enabled", "supertrend_enabled"} : StrategyCatalogue[name].default = StrategyDefaults[name]
    BY <2>2, <2>3, <2>4, Zenon
  <2>6. DOMAIN StrategyDefaults \cap Toggles = {"vwap_enabled", "supertrend_enabled"}
    BY SectionNames DEF Toggles
  <2> QED
    BY <2>1, <2>5, <2>6
<1>2. \A name \in DOMAIN RiskDefaults : RiskCatalogue[name].default = RiskDefaults[name]
  BY SectionNames, EntryIs DEF RiskCatalogue, RiskDefaults
<1>3. \A name \in DOMAIN SessionDefaults : SessionCatalogue[name].default = SessionDefaults[name]
  <2>1. \A name \in DOMAIN SessionDefaults \ Toggles :
          SessionCatalogue[name].default = SessionDefaults[name]
    BY SectionNames, EntryIs DEF SessionCatalogue, SessionDefaults, Toggles
  <2>2. SessionCatalogue["allow_expiry_day_trading"] = Toggle(TRUE, "N/A") /\ SessionCatalogue["lunch_filter_enabled"] = Toggle(FALSE, "N/A")
    BY DEF SessionCatalogue
  <2>3. SessionDefaults["allow_expiry_day_trading"] = TRUE /\ SessionDefaults["lunch_filter_enabled"] = FALSE
    BY DEF SessionDefaults
  <2>4. Toggle(TRUE, "N/A").default = TRUE /\ Toggle(FALSE, "N/A").default = FALSE
    BY EntryIs, Zenon
  <2>5. \A name \in {"allow_expiry_day_trading", "lunch_filter_enabled"} : SessionCatalogue[name].default = SessionDefaults[name]
    BY <2>2, <2>3, <2>4, Zenon
  <2>6. DOMAIN SessionDefaults \cap Toggles = {"allow_expiry_day_trading", "lunch_filter_enabled"}
    BY SectionNames DEF Toggles
  <2> QED
    BY <2>1, <2>5, <2>6
<1>4. \A name \in DOMAIN IndicatorDefaults : IndicatorCatalogue[name].default = IndicatorDefaults[name]
  BY SectionNames, EntryIs DEF IndicatorCatalogue, IndicatorDefaults
<1> QED
  BY <1>1, <1>2, <1>3, <1>4, DefaultsAre, CatalogueIs DEF ValidatedNames

\* The arguments of the models, each of its field's type; what the indicators are told
\* nothing changes.
Arguments(c) ==
  /\ DOMAIN c = DOMAIN Defaults
  /\ \A name \in ValidatedNames : c[name] \in IF name \in Toggles THEN BOOLEAN ELSE Int
  /\ \A name \in DOMAIN IndicatorDefaults : c[name] = IndicatorDefaults[name]

LEMMA EntriesAllow ==
  \A d, safe : \A least, most, v \in Int :
       v \in Number(d, least, most, safe).allowed <=> Between(v, <<least, most>>)
<1>1. ASSUME NEW d, NEW safe, NEW least \in Int, NEW most \in Int, NEW v \in Int
      PROVE  v \in Number(d, least, most, safe).allowed <=> Between(v, <<least, most>>)
  <2>1. Number(d, least, most, safe).allowed = least .. most
    BY EntryIs
  <2> QED
    BY <2>1 DEF Between
<1> QED
  BY <1>1

LEMMA TogglesAllow ==
  \A d, safe : Toggle(d, safe).allowed = BOOLEAN
BY EntryIs, Zenon

\* A vote somebody can win: the checks that run are three and those that are switched on.
LEMMA VotersAre ==
  ASSUME NEW c, c["vwap_enabled"] \in BOOLEAN, c["supertrend_enabled"] \in BOOLEAN
  PROVE  Cardinality({toggle \in {"vwap_enabled", "supertrend_enabled"} : c[toggle]}) =
           (IF c.vwap_enabled THEN 1 ELSE 0) + (IF c.supertrend_enabled THEN 1 ELSE 0)
<1> DEFINE on == {toggle \in {"vwap_enabled", "supertrend_enabled"} : c[toggle]}
<1> SUFFICES Cardinality(on) = (IF c.vwap_enabled THEN 1 ELSE 0) + (IF c.supertrend_enabled THEN 1 ELSE 0)
  OBVIOUS
<1>1. CASE c["vwap_enabled"] /\ c["supertrend_enabled"]
  <2>1. on = {"vwap_enabled", "supertrend_enabled"}
    BY <1>1, Zenon
  <2>2. IsFiniteSet({"vwap_enabled"}) /\ Cardinality({"vwap_enabled"}) = 1
    BY FS_Singleton, Zenon
  <2>3. PICK one : one = {"vwap_enabled"} /\ IsFiniteSet(one) /\ Cardinality(one) = 1
    BY <2>2, Zenon
  <2>4. Cardinality(one \cup {"supertrend_enabled"}) = 2
    BY <2>3, FS_AddElement
  <2>5. one \cup {"supertrend_enabled"} = {"vwap_enabled", "supertrend_enabled"}
    BY <2>3
  <2>6. (IF c.vwap_enabled THEN 1 ELSE 0) = 1 /\ (IF c.supertrend_enabled THEN 1 ELSE 0) = 1
    BY <1>1, Zenon
  <2>7. Cardinality(on) = 2
    BY <2>1, <2>4, <2>5, Zenon
  <2> HIDE DEF on
  <2> QED
    BY <2>6, <2>7
<1>2. CASE c["vwap_enabled"] /\ ~c["supertrend_enabled"]
  <2>1. on = {"vwap_enabled"}
    BY <1>2, Zenon
  <2>2. Cardinality(on) = 1
    BY <2>1, FS_Singleton, Zenon
  <2>3. (IF c.vwap_enabled THEN 1 ELSE 0) = 1 /\ (IF c.supertrend_enabled THEN 1 ELSE 0) = 0
    BY <1>2, Zenon
  <2> HIDE DEF on
  <2> QED
    BY <2>2, <2>3
<1>3. CASE ~c["vwap_enabled"] /\ c["supertrend_enabled"]
  <2>1. on = {"supertrend_enabled"}
    BY <1>3, Zenon
  <2>2. Cardinality(on) = 1
    BY <2>1, FS_Singleton, Zenon
  <2>3. (IF c.vwap_enabled THEN 1 ELSE 0) = 0 /\ (IF c.supertrend_enabled THEN 1 ELSE 0) = 1
    BY <1>3, Zenon
  <2> HIDE DEF on
  <2> QED
    BY <2>2, <2>3
<1>4. CASE ~c["vwap_enabled"] /\ ~c["supertrend_enabled"]
  <2>1. on = {}
    BY <1>4, Zenon
  <2>2. Cardinality(on) = 0
    BY <2>1, FS_EmptySet, Zenon
  <2>3. (IF c.vwap_enabled THEN 1 ELSE 0) = 0 /\ (IF c.supertrend_enabled THEN 1 ELSE 0) = 0
    BY <1>4, Zenon
  <2> HIDE DEF on
  <2> QED
    BY <2>2, <2>3
<1> QED
  BY <1>1, <1>2, <1>3, <1>4, Zenon

\* Each section of the catalogue tells what its validators accept.
LEMMA StrategyTold ==
  ASSUME NEW c, Arguments(c)
  PROVE  StrategyAccepted(c) <=>
           /\ \A name \in DOMAIN StrategyDefaults : c[name] \in StrategyCatalogue[name].allowed
           /\ c.rsi_bullish_threshold > c.rsi_bearish_threshold
           /\ c.min_agreeing_checks <= 3 + (IF c.vwap_enabled THEN 1 ELSE 0)
                                         + (IF c.supertrend_enabled THEN 1 ELSE 0)
<1>1. /\ c["rsi_bullish_threshold"] \in Int /\ c["rsi_bearish_threshold"] \in Int
      /\ c["min_agreeing_checks"] \in Int
  BY SectionNames DEF Arguments, ValidatedNames, Toggles
<1>2. c["vwap_enabled"] \in BOOLEAN /\ c["supertrend_enabled"] \in BOOLEAN
  BY SectionNames, Zenon DEF Arguments, ValidatedNames, Toggles
<1>3. /\ StrategyCatalogue["rsi_bullish_threshold"] = Number(5500, 0, 10000, "Yes")
      /\ StrategyCatalogue["rsi_bearish_threshold"] = Number(4500, 0, 10000, "Yes")
      /\ StrategyCatalogue["vwap_enabled"] = Toggle(TRUE, "Yes")
      /\ StrategyCatalogue["supertrend_enabled"] = Toggle(TRUE, "Yes")
      /\ StrategyCatalogue["min_agreeing_checks"] = Number(4, 1, 5, "Yes")
  BY DEF StrategyCatalogue
<1>4. /\ c["vwap_enabled"] \in StrategyCatalogue["vwap_enabled"].allowed
      /\ c["supertrend_enabled"] \in StrategyCatalogue["supertrend_enabled"].allowed
  <2>1. PICK on : on = Toggle(TRUE, "Yes")
    OBVIOUS
  <2>2. StrategyCatalogue["vwap_enabled"] = on /\ StrategyCatalogue["supertrend_enabled"] = on
    BY <1>3, <2>1
  <2>3. on.allowed = BOOLEAN
    BY <2>1, TogglesAllow, Zenon
  <2> QED
    BY <1>2, <2>2, <2>3, Zenon
<1>5. (\A name \in DOMAIN StrategyDefaults : c[name] \in StrategyCatalogue[name].allowed) <=>
        /\ c["rsi_bullish_threshold"] \in StrategyCatalogue["rsi_bullish_threshold"].allowed
        /\ c["rsi_bearish_threshold"] \in StrategyCatalogue["rsi_bearish_threshold"].allowed
        /\ c["min_agreeing_checks"] \in StrategyCatalogue["min_agreeing_checks"].allowed
  BY <1>4, SectionNames
<1>6. (\A name \in DOMAIN StrategyDefaults : c[name] \in StrategyCatalogue[name].allowed) <=>
        /\ Between(c["rsi_bullish_threshold"], <<0, 10000>>)
        /\ Between(c["rsi_bearish_threshold"], <<0, 10000>>)
        /\ Between(c["min_agreeing_checks"], <<1, 5>>)
  BY <1>1, <1>3, <1>5, EntriesAllow
<1>7. PICK voters : voters = Cardinality({toggle \in {"vwap_enabled", "supertrend_enabled"} : c[toggle]})
  OBVIOUS
<1>8. PICK one, two \in {0, 1} : /\ one = IF c.vwap_enabled THEN 1 ELSE 0
                                 /\ two = IF c.supertrend_enabled THEN 1 ELSE 0
  OBVIOUS
<1>9. voters = one + two
  BY <1>2, <1>7, <1>8, VotersAre
<1> QED
  BY <1>1, <1>6, <1>7, <1>8, <1>9 DEF StrategyAccepted

LEMMA RiskTold ==
  ASSUME NEW c, Arguments(c)
  PROVE  RiskAccepted(c) <=> \A name \in DOMAIN RiskDefaults : c[name] \in RiskCatalogue[name].allowed
<1>1. \A name \in DOMAIN RiskDefaults : c[name] \in Int
  BY SectionNames DEF Arguments, ValidatedNames, Toggles
<1>2. \A name \in DOMAIN RiskDefaults : \A v \in Int :
        v \in RiskCatalogue[name].allowed <=> Between(v, RiskRanges[name])
  BY SectionNames, EntriesAllow DEF RiskCatalogue, RiskRanges
<1> QED
  BY <1>1, <1>2, SectionNames DEF RiskAccepted

LEMMA SessionTold ==
  ASSUME NEW c, Arguments(c)
  PROVE  SessionAccepted(c) <=>
           /\ \A name \in DOMAIN SessionDefaults : c[name] \in SessionCatalogue[name].allowed
           /\ c.trading_start_time < c.trading_end_time
<1>1. /\ c["opening_range_minutes"] \in Int /\ c["no_trade_zone_minutes"] \in Int
      /\ c["trading_start_time"] \in Int /\ c["trading_end_time"] \in Int
  BY SectionNames DEF Arguments, ValidatedNames, Toggles
<1>2. c["allow_expiry_day_trading"] \in BOOLEAN /\ c["lunch_filter_enabled"] \in BOOLEAN
  BY SectionNames, Zenon DEF Arguments, ValidatedNames, Toggles
<1>3. /\ SessionCatalogue["opening_range_minutes"] = Number(15, 0, 120, "N/A")
      /\ SessionCatalogue["no_trade_zone_minutes"] = Number(15, 0, 120, "N/A")
      /\ SessionCatalogue["trading_start_time"] = Number(555, 0, 1439, "N/A")
      /\ SessionCatalogue["trading_end_time"] = Number(930, 0, 1439, "N/A")
      /\ SessionCatalogue["allow_expiry_day_trading"] = Toggle(TRUE, "N/A")
      /\ SessionCatalogue["lunch_filter_enabled"] = Toggle(FALSE, "N/A")
  BY DEF SessionCatalogue
<1>4. /\ c["allow_expiry_day_trading"] \in SessionCatalogue["allow_expiry_day_trading"].allowed
      /\ c["lunch_filter_enabled"] \in SessionCatalogue["lunch_filter_enabled"].allowed
  <2>1. PICK on, off : on = Toggle(TRUE, "N/A") /\ off = Toggle(FALSE, "N/A")
    OBVIOUS
  <2>2. /\ SessionCatalogue["allow_expiry_day_trading"] = on
        /\ SessionCatalogue["lunch_filter_enabled"] = off
    BY <1>3, <2>1
  <2>3. on.allowed = BOOLEAN /\ off.allowed = BOOLEAN
    BY <2>1, TogglesAllow, Zenon
  <2> QED
    BY <1>2, <2>2, <2>3, Zenon
<1>5. (\A name \in DOMAIN SessionDefaults : c[name] \in SessionCatalogue[name].allowed) <=>
        /\ c["opening_range_minutes"] \in SessionCatalogue["opening_range_minutes"].allowed
        /\ c["no_trade_zone_minutes"] \in SessionCatalogue["no_trade_zone_minutes"].allowed
        /\ c["trading_start_time"] \in SessionCatalogue["trading_start_time"].allowed
        /\ c["trading_end_time"] \in SessionCatalogue["trading_end_time"].allowed
  BY <1>4, SectionNames
<1>6. (\A name \in DOMAIN SessionDefaults : c[name] \in SessionCatalogue[name].allowed) <=>
        /\ Between(c["opening_range_minutes"], <<0, 120>>)
        /\ Between(c["no_trade_zone_minutes"], <<0, 120>>)
        /\ Between(c["trading_start_time"], <<0, 1439>>)
        /\ Between(c["trading_end_time"], <<0, 1439>>)
  BY <1>1, <1>3, <1>5, EntriesAllow
<1> QED
  BY <1>6 DEF SessionAccepted

\* The catalogue tells of the models' arguments what the models accept.
LEMMA CatalogueAgrees ==
  ASSUME NEW c, Arguments(c)
  PROVE  Accepted(c) <=> /\ \A name \in DOMAIN Catalogue : c[name] \in Catalogue[name].allowed
                         /\ CatalogueNotes(c)
<1>1. \A name \in DOMAIN IndicatorDefaults : c[name] \in IndicatorCatalogue[name].allowed
  <2>1. \A name \in DOMAIN IndicatorDefaults : c[name] = IndicatorDefaults[name]
    BY DEF Arguments
  <2>2. \A name \in DOMAIN IndicatorDefaults :
          IndicatorDefaults[name] \in IndicatorCatalogue[name].allowed
    BY SectionNames, EntriesAllow DEF IndicatorDefaults, IndicatorCatalogue, Between
  <2> QED
    BY <2>1, <2>2
<1>2. (\A name \in DOMAIN Catalogue : c[name] \in Catalogue[name].allowed) <=>
        /\ \A name \in DOMAIN StrategyDefaults : c[name] \in StrategyCatalogue[name].allowed
        /\ \A name \in DOMAIN RiskDefaults : c[name] \in RiskCatalogue[name].allowed
        /\ \A name \in DOMAIN SessionDefaults : c[name] \in SessionCatalogue[name].allowed
  BY <1>1, CatalogueIs, DefaultsAre DEF ValidatedNames
<1> QED
  BY <1>2, StrategyTold, RiskTold, SessionTold DEF Accepted, CatalogueNotes

\* An axis that goes over its range in whole steps goes from one end to the other.
LEMMA AxisEnds ==
  ASSUME NEW a, IsAxis(a), (a.maximum - a.minimum) % a.step = 0
  PROVE  /\ \A i \in DOMAIN Values(a) : a.minimum <= Values(a)[i] /\ Values(a)[i] <= a.maximum
         /\ Min(ToSet(Values(a))) = a.minimum /\ Max(ToSet(Values(a))) = a.maximum
<1>1. PICK d \in Nat \ {0}, step \in Nat \ {0}, low \in Int :
        d = a.maximum - a.minimum /\ step = a.step /\ low = a.minimum
  BY DEF IsAxis
<1>2. PICK n \in Nat : n = d \div step
  OBVIOUS
<1>3. d = n * step
  <2>1. PICK r \in Int : r = d % step
    OBVIOUS
  <2>2. d = n * step + r
    BY <1>2, <2>1, SMTT(30)
  <2>3. r = 0
    BY <1>1, <2>1
  <2> QED
    BY <2>2, <2>3, SMTT(30)
<1>4. Round(d, step) = n
  BY <1>1, <1>2 DEF Round
<1>5. PICK values : values = Values(a)
  OBVIOUS
<1>6. /\ Len(values) = n + 1 /\ DOMAIN values = 1 .. n + 1
      /\ \A i \in 1 .. n + 1 : values[i] = low + (i - 1) * step /\ values[i] \in Int
      /\ \A i, j \in 1 .. n + 1 : i < j => values[i] < values[j]
  <2>1. /\ Len(Values(a)) = Round(a.maximum - a.minimum, a.step) + 1
        /\ DOMAIN Values(a) = 1 .. Len(Values(a))
        /\ \A i \in DOMAIN Values(a) : Values(a)[i] = a.minimum + (i - 1) * a.step /\ Values(a)[i] \in Int
        /\ \A i, j \in DOMAIN Values(a) : i < j => Values(a)[i] < Values(a)[j]
    BY ValuesFacts
  <2> QED
    BY <1>1, <1>4, <1>5, <2>1
<1>7. values[1] = low /\ values[n + 1] = low + d
  <2>1. values[1] = low + (1 - 1) * step /\ values[n + 1] = low + (n + 1 - 1) * step
    BY <1>6
  <2> QED
    BY <1>3, <2>1
<1>8. \A i \in 1 .. n + 1 : values[1] <= values[i] /\ values[i] <= values[n + 1]
  BY <1>6
<1>9. PICK S : S = ToSet(values)
  OBVIOUS
<1>10. S = {values[i] : i \in 1 .. n + 1}
  BY <1>6, <1>9 DEF ToSet
<1>11. IsFiniteSet(S)
  <2>1. IsFiniteSet(1 .. n + 1)
    BY FS_Interval
  <2>2. [i \in 1 .. n + 1 |-> values[i]] \in Surjection(1 .. n + 1, S)
    BY <1>10 DEF Surjection
  <2> QED
    BY <2>1, <2>2, FS_Surjection
<1>12. values[1] \in S /\ values[n + 1] \in S /\ \A x \in S : x \in Int /\ values[1] <= x /\ x <= values[n + 1]
  BY <1>6, <1>8, <1>10
<1>13. /\ Max(S) \in S /\ \A y \in S : Max(S) >= y
       /\ Min(S) \in S /\ \A y \in S : Min(S) <= y
  BY <1>11, <1>12, MaxMinOf
<1>14. Min(S) = values[1] /\ Max(S) = values[n + 1]
  BY <1>12, <1>13
<1>15. values[1] = a.minimum /\ values[n + 1] = a.maximum
  BY <1>1, <1>7 DEF IsAxis
<1>16. \A i \in DOMAIN values : a.minimum <= values[i] /\ values[i] <= a.maximum
  BY <1>6, <1>8, <1>15
<1> QED
  BY <1>5, <1>9, <1>14, <1>15, <1>16

\* The default parameters, each going over its range in whole steps.
LEMMA DefaultAxes ==
  \A a \in DefaultParameterCatalog :
    /\ IsAxis(a) /\ (a.maximum - a.minimum) % a.step = 0
    /\ \/ a.name = "ema_period" /\ a.minimum = 10 /\ a.maximum = 30
       \/ a.name = "rsi_bullish_threshold" /\ a.minimum = 5000 /\ a.maximum = 6000
       \/ a.name = "rsi_bearish_threshold" /\ a.minimum = 3500 /\ a.maximum = 4500
       \/ a.name = "reward_risk_ratio" /\ a.minimum = 150 /\ a.maximum = 250 /\ a.step = 50
       \/ a.name = "risk_percent" /\ a.minimum = 50 /\ a.maximum = 200
       \/ a.name = "max_trades_per_day" /\ a.minimum = 1 /\ a.maximum = 10
BY DEF DefaultParameterCatalog, Axis, IsAxis

\* An axis accepted after the others leaves the parameters a space.
LEMMA SpaceGrows ==
  ASSUME NEW s, IsSpace(s), NEW axis,
         axis \in [name : STRING, minimum : Int, maximum : Int, step : Int, default : Int],
         Optimizable(axis), NoDuplicates(Append(s, axis))
  PROVE  IsSpace(Append(s, axis))
<1>1. PICK S : s \in Seq(S)
  BY DEF IsSpace, Listed
<1>2. PICK T : T = S \cup {axis}
  OBVIOUS
<1>3. PICK t : t = Append(s, axis)
  OBVIOUS
<1>4. t \in Seq(T)
  <2>1. s \in Seq(T)
    BY <1>1, <1>2
  <2> QED
    BY <1>2, <1>3, <2>1
<1>5. /\ Len(t) = Len(s) + 1 /\ DOMAIN s = 1 .. Len(s) /\ Len(s) \in Nat
      /\ \A i \in DOMAIN t : (i \in DOMAIN s /\ t[i] = s[i]) \/ t[i] = axis
  BY <1>1, <1>3
<1>6. IsFiniteSet(DOMAIN t) /\ Cardinality(DOMAIN t) = Len(t)
  BY <1>4, ListFacts
<1>7. IsAxis(axis)
  BY DEF Optimizable, IsAxis
<1> DEFINE names == {t[i].name : i \in DOMAIN t}
           f == [i \in DOMAIN t |-> t[i].name]
<1>8. f \in Surjection(DOMAIN t, names)
  BY DEF Surjection
<1>9. Cardinality(names) = Len(t)
  BY <1>3 DEF NoDuplicates
<1>10. f \in Injection(DOMAIN t, names)
  <2> HIDE DEF f, names
  <2> QED
    BY <1>6, <1>8, <1>9, FS_Surjection
<1>11. \A i, j \in DOMAIN t : t[i].name = t[j].name => i = j
  BY <1>10 DEF Injection, IsInjective
<1>12. \A i \in DOMAIN t : IsAxis(t[i])
  BY <1>5, <1>7 DEF IsSpace
<1> QED
  BY <1>3, <1>4, <1>11, <1>12 DEF IsSpace, Listed

\* What is configured, swept and scheduled is what was accepted.
ParametersInv ==
  /\ Arguments(configured) /\ (accepted <=> Accepted(configured))
  /\ \A name \in ValidatedNames \ DOMAIN Probes : configured[name] = Defaults[name]
  /\ IsSpace(space) /\ (space # <<>> => accepted)
  /\ calendar # NoValue => calendar \in WindowsTried /\ WindowsAccepted(calendar)

LEMMA DefaultsAccepted == Arguments(Defaults) /\ Accepted(Defaults)
<1>1. \A name \in ValidatedNames : Defaults[name] \in IF name \in Toggles THEN BOOLEAN ELSE Int
  <2>1. ASSUME NEW name \in ValidatedNames, name \notin Toggles PROVE Defaults[name] \in Int
    BY <2>1, DefaultsAre, SectionNames
       DEF ValidatedNames, Toggles, StrategyDefaults, RiskDefaults, SessionDefaults
  <2>2. /\ Defaults["vwap_enabled"] = TRUE /\ Defaults["supertrend_enabled"] = TRUE
        /\ Defaults["allow_expiry_day_trading"] = TRUE /\ Defaults["lunch_filter_enabled"] = FALSE
    BY DefaultsAre, SectionNames DEF StrategyDefaults, SessionDefaults
  <2>3. ASSUME NEW name \in Toggles PROVE Defaults[name] \in BOOLEAN
    BY <2>2, <2>3, Zenon DEF Toggles
  <2> QED
    BY <2>1, <2>3, Zenon
<1>2. Arguments(Defaults)
  BY <1>1, DefaultsAre DEF Arguments
<1>3. /\ Defaults["rsi_bullish_threshold"] = 5500 /\ Defaults["rsi_bearish_threshold"] = 4500
      /\ Defaults["min_agreeing_checks"] = 4 /\ Defaults["vwap_enabled"] /\ Defaults["supertrend_enabled"]
      /\ Defaults["trading_start_time"] = 555 /\ Defaults["trading_end_time"] = 930
      /\ Defaults["opening_range_minutes"] = 15 /\ Defaults["no_trade_zone_minutes"] = 15
  BY DefaultsAre, SectionNames DEF StrategyDefaults, SessionDefaults
<1>4. (IF Defaults.vwap_enabled THEN 1 ELSE 0) + (IF Defaults.supertrend_enabled THEN 1 ELSE 0) = 2
  BY <1>3
<1>5. Cardinality({toggle \in {"vwap_enabled", "supertrend_enabled"} : Defaults[toggle]}) = 2
  <2>1. Defaults["vwap_enabled"] \in BOOLEAN /\ Defaults["supertrend_enabled"] \in BOOLEAN
    BY <1>1, SectionNames, Zenon DEF ValidatedNames, Toggles
  <2> QED
    BY <1>4, <2>1, VotersAre
<1>6. StrategyAccepted(Defaults)
  BY <1>3, <1>5 DEF StrategyAccepted, Between
<1>7. RiskAccepted(Defaults)
  <2>1. \A name \in DOMAIN RiskDefaults : Between(RiskDefaults[name], RiskRanges[name])
    BY SectionNames DEF RiskDefaults, RiskRanges, Between
  <2> QED
    BY <2>1, DefaultsAre, SectionNames DEF RiskAccepted
<1>8. SessionAccepted(Defaults)
  BY <1>3 DEF SessionAccepted, Between
<1> QED
  BY <1>2, <1>6, <1>7, <1>8 DEF Accepted

LEMMA ParametersKept ==
  ASSUME ParametersInv, ParametersNext
  PROVE  ParametersInv'
<1>1. ASSUME NEW name \in DOMAIN Probes, NEW value \in Probes[name], Configure(name, value)
      PROVE  ParametersInv'
  <2>1. /\ configured' = [configured EXCEPT ![name] = value] /\ accepted' = Accepted(configured')
        /\ space' = <<>> /\ space = <<>> /\ calendar' = NoValue
    BY <1>1 DEF Configure
  <2>2. /\ name \in ValidatedNames /\ value \in IF name \in Toggles THEN BOOLEAN ELSE Int
        /\ DOMAIN Probes \subseteq ValidatedNames
    BY ParametersAssumption DEF ParametersAssumption, ValidatedNames
  <2>3. name \in DOMAIN configured /\ name \notin DOMAIN IndicatorDefaults
    BY <2>2, DefaultsAre, SectionNames DEF ParametersInv, Arguments, ValidatedNames
  <2>4. PICK c : c = configured'
    OBVIOUS
  <2>5. DOMAIN c = DOMAIN configured /\ \A n \in DOMAIN configured : c[n] = IF n = name THEN value ELSE configured[n]
    BY <2>1, <2>3, <2>4
  <2>6. \A n \in ValidatedNames : c[n] \in IF n \in Toggles THEN BOOLEAN ELSE Int
    <3> SUFFICES ASSUME NEW n \in ValidatedNames PROVE c[n] \in IF n \in Toggles THEN BOOLEAN ELSE Int
      OBVIOUS
    <3>1. n \in DOMAIN configured
      BY DefaultsAre DEF ParametersInv, Arguments
    <3>2. CASE n = name
      <4>1. c[n] = value
        BY <2>5, <3>1, <3>2
      <4> QED
        BY <2>2, <3>2, <4>1, Zenon
    <3>3. CASE n # name
      <4>1. c[n] = configured[n]
        BY <2>5, <3>1, <3>3
      <4>2. configured[n] \in IF n \in Toggles THEN BOOLEAN ELSE Int
        BY Zenon DEF ParametersInv, Arguments
      <4> QED
        BY <4>1, <4>2, Zenon
    <3> QED
      BY <3>2, <3>3
  <2>7. Arguments(c)
    BY <2>3, <2>5, <2>6, DefaultsAre DEF ParametersInv, Arguments
  <2>8. \A n \in ValidatedNames \ DOMAIN Probes : c[n] = Defaults[n]
    BY <2>5, DefaultsAre DEF ParametersInv, Arguments
  <2> QED
    BY <2>1, <2>4, <2>7, <2>8 DEF ParametersInv
<1>2. ASSUME NEW axis \in Offered, OfferAxis(axis)
      PROVE  ParametersInv'
  <2>1. /\ configured' = configured /\ accepted' = accepted /\ calendar' = calendar /\ accepted
        /\ \/ space' = space
           \/ space' = Append(space, axis) /\ Optimizable(axis) /\ NoDuplicates(Append(space, axis))
    <3>1. CASE refused'
      BY <1>2, <3>1, Zenon DEF OfferAxis
    <3>2. CASE ~refused'
      BY <1>2, <3>2, Zenon DEF OfferAxis
    <3> QED
      BY <3>1, <3>2
  <2>2. axis \in [name : STRING, minimum : Int, maximum : Int, step : Int, default : Int]
    BY ParametersAssumption DEF ParametersAssumption
  <2>3. PICK s : s = space'
    OBVIOUS
  <2>4. IsSpace(s)
    BY <2>1, <2>2, <2>3, SpaceGrows DEF ParametersInv
  <2>5. IsSpace(space)'
    BY <2>3, <2>4 DEF IsSpace, Listed
  <2> QED
    BY <2>1, <2>5 DEF ParametersInv
<1>3. ASSUME NEW w \in WindowsTried, BuildCalendar(w)
      PROVE  ParametersInv'
  <2>1. /\ configured' = configured /\ accepted' = accepted /\ space' = space /\ calendar' = w
        /\ WindowsAccepted(w)
    BY <1>3 DEF BuildCalendar
  <2> QED
    BY <2>1 DEF ParametersInv
<1> QED
  BY <1>1, <1>2, <1>3 DEF ParametersNext

SweptNames ==
  {"ema_period", "rsi_bullish_threshold", "rsi_bearish_threshold", "reward_risk_ratio",
   "risk_percent", "max_trades_per_day"}

\* A configuration with a combination applied to it.
Given(c, name, otherwise) == IF name \in DOMAIN c THEN c[name] ELSE otherwise

LEMMA AppliedIs ==
  ASSUME NEW base, Arguments(base), NEW c
  PROVE  LET a == ApplyCombination(c, base)
         IN /\ DOMAIN a = DOMAIN base
            /\ a["risk_per_trade_percent"] = Given(c, "risk_percent", base["risk_per_trade_percent"])
            /\ a["max_trades_per_day"] = Given(c, "max_trades_per_day", base["max_trades_per_day"])
            /\ a["rsi_bullish_threshold"] = Given(c, "rsi_bullish_threshold", base["rsi_bullish_threshold"])
            /\ a["rsi_bearish_threshold"] = Given(c, "rsi_bearish_threshold", base["rsi_bearish_threshold"])
            /\ a["ema_period"] = Given(c, "ema_period", base["ema_period"])
            /\ a["target_atr_multiplier"] =
                 IF "reward_risk_ratio" \in DOMAIN c
                 THEN (c["reward_risk_ratio"] * base["stop_loss_atr_multiplier"]) \div 100
                 ELSE base["target_atr_multiplier"]
            /\ \A name \in {"stop_loss_atr_multiplier", "max_daily_loss", "max_concurrent_positions",
                            "max_capital_exposure_percent", "min_agreeing_checks"} : a[name] = base[name]
<1>1. {"risk_per_trade_percent", "max_trades_per_day", "rsi_bullish_threshold", "rsi_bearish_threshold",
       "ema_period", "target_atr_multiplier", "stop_loss_atr_multiplier", "max_daily_loss",
       "max_concurrent_positions", "max_capital_exposure_percent", "min_agreeing_checks"} \subseteq DOMAIN base
  BY DefaultsAre, SectionNames DEF Arguments, ValidatedNames
<1> QED
  BY <1>1 DEF ApplyCombination, Given

LEMMA TogglesApplied ==
  ASSUME NEW base, Arguments(base), NEW c, NEW toggle \in {"vwap_enabled", "supertrend_enabled"}
  PROVE  ApplyCombination(c, base)[toggle] = base[toggle]
<1>1. toggle \in DOMAIN base
  BY DefaultsAre, SectionNames DEF Arguments, ValidatedNames
<1> QED
  BY <1>1 DEF ApplyCombination

\* A value of a default parameter, within its ends; the ratios are a step apart.
WithinDefaults(c) ==
  /\ DOMAIN c \subseteq SweptNames
  /\ \A name \in DOMAIN c : c[name] \in Int
  /\ "ema_period" \in DOMAIN c => Between(c["ema_period"], <<10, 30>>)
  /\ "rsi_bullish_threshold" \in DOMAIN c => Between(c["rsi_bullish_threshold"], <<5000, 6000>>)
  /\ "rsi_bearish_threshold" \in DOMAIN c => Between(c["rsi_bearish_threshold"], <<3500, 4500>>)
  /\ "risk_percent" \in DOMAIN c => Between(c["risk_percent"], <<50, 200>>)
  /\ "max_trades_per_day" \in DOMAIN c => Between(c["max_trades_per_day"], <<1, 10>>)
  /\ "reward_risk_ratio" \in DOMAIN c =>
       Between(c["reward_risk_ratio"], <<150, 250>>) /\ c["reward_risk_ratio"] % 50 = 0

LEMMA DefaultsSwept ==
  ASSUME NEW s, IsSpace(s), ToSet(s) \subseteq DefaultParameterCatalog,
         NEW n \in DOMAIN GenerateGrid(s)
  PROVE  WithinDefaults(GenerateGrid(s)[n])
<1>1. PICK c : c = GenerateGrid(s)[n]
  OBVIOUS
<1>2. /\ DOMAIN c = NamesTo(s, Len(s))
      /\ \A i \in 1 .. Len(s) : \E r \in DOMAIN Values(s[i]) : c[s[i].name] = Values(s[i])[r]
  BY <1>1, GridIs DEF GridTo
<1>3. DOMAIN s = 1 .. Len(s) /\ \A i \in DOMAIN s : s[i] \in DefaultParameterCatalog
  BY DEF IsSpace, Listed, ToSet
<1>4. ASSUME NEW name \in DOMAIN c
      PROVE  \E a \in DefaultParameterCatalog :
               /\ a.name = name /\ c[name] \in Int /\ a.minimum <= c[name] /\ c[name] <= a.maximum
               /\ a.step = 50 /\ a.minimum = 150 => c[name] % 50 = 0
  <2>1. PICK i \in DOMAIN s : s[i].name = name
    BY <1>2, <1>3 DEF NamesTo
  <2>2. PICK a \in DefaultParameterCatalog : a = s[i]
    BY <1>3
  <2>3. PICK r \in DOMAIN Values(a) : c[name] = Values(a)[r]
    BY <1>2, <1>3, <2>1, <2>2
  <2>4. IsAxis(a) /\ (a.maximum - a.minimum) % a.step = 0
    BY DefaultAxes
  <2>5. a.minimum <= Values(a)[r] /\ Values(a)[r] <= a.maximum
    BY <2>4, AxisEnds
  <2>6. Values(a)[r] = a.minimum + (r - 1) * a.step /\ Values(a)[r] \in Int /\ r \in Int
    BY <2>4, ValuesFacts
  <2>7. ASSUME a.step = 50, a.minimum = 150
        PROVE  Values(a)[r] % 50 = 0
    BY <2>6, <2>7
  <2> QED
    BY <2>1, <2>2, <2>3, <2>5, <2>6, <2>7
<1>5. \A name \in DOMAIN c : name \in SweptNames /\ c[name] \in Int
  BY <1>4, DefaultAxes DEF SweptNames
<1>6. "ema_period" \in DOMAIN c => Between(c["ema_period"], <<10, 30>>)
  BY <1>4, DefaultAxes DEF Between
<1>7. "rsi_bullish_threshold" \in DOMAIN c => Between(c["rsi_bullish_threshold"], <<5000, 6000>>)
  BY <1>4, DefaultAxes DEF Between
<1>8. "rsi_bearish_threshold" \in DOMAIN c => Between(c["rsi_bearish_threshold"], <<3500, 4500>>)
  BY <1>4, DefaultAxes DEF Between
<1>9. "risk_percent" \in DOMAIN c => Between(c["risk_percent"], <<50, 200>>)
  BY <1>4, DefaultAxes DEF Between
<1>10. "max_trades_per_day" \in DOMAIN c => Between(c["max_trades_per_day"], <<1, 10>>)
  BY <1>4, DefaultAxes DEF Between
<1>11. "reward_risk_ratio" \in DOMAIN c =>
         Between(c["reward_risk_ratio"], <<150, 250>>) /\ c["reward_risk_ratio"] % 50 = 0
  BY <1>4, DefaultAxes DEF Between
<1> QED
  BY <1>1, <1>5, <1>6, <1>7, <1>8, <1>9, <1>10, <1>11 DEF WithinDefaults

\* What a default combination makes of an accepted configuration with the thresholds
\* and the stop of the defaults is accepted.
LEMMA CombinationLegal ==
  ASSUME NEW base, Arguments(base), Accepted(base), NEW c, WithinDefaults(c),
         base["rsi_bullish_threshold"] = 5500, base["rsi_bearish_threshold"] = 4500,
         base["stop_loss_atr_multiplier"] = 150
  PROVE  StrategyAccepted(ApplyCombination(c, base)) /\ RiskAccepted(ApplyCombination(c, base))
<1>1. PICK a : a = ApplyCombination(c, base)
  OBVIOUS
<1>2. /\ a["risk_per_trade_percent"] = Given(c, "risk_percent", base["risk_per_trade_percent"])
      /\ a["max_trades_per_day"] = Given(c, "max_trades_per_day", base["max_trades_per_day"])
      /\ a["rsi_bullish_threshold"] = Given(c, "rsi_bullish_threshold", base["rsi_bullish_threshold"])
      /\ a["rsi_bearish_threshold"] = Given(c, "rsi_bearish_threshold", base["rsi_bearish_threshold"])
      /\ a["target_atr_multiplier"] =
           IF "reward_risk_ratio" \in DOMAIN c
           THEN (c["reward_risk_ratio"] * base["stop_loss_atr_multiplier"]) \div 100
           ELSE base["target_atr_multiplier"]
      /\ \A name \in {"stop_loss_atr_multiplier", "max_daily_loss", "max_concurrent_positions",
                      "max_capital_exposure_percent", "min_agreeing_checks"} : a[name] = base[name]
  BY <1>1, AppliedIs
<1>3. StrategyAccepted(base) /\ RiskAccepted(base)
  BY DEF Accepted
<1>4. {toggle \in {"vwap_enabled", "supertrend_enabled"} : a[toggle]} =
        {toggle \in {"vwap_enabled", "supertrend_enabled"} : base[toggle]}
  <2>1. \A toggle \in {"vwap_enabled", "supertrend_enabled"} : a[toggle] = base[toggle]
    BY <1>1, TogglesApplied
  <2>2. ASSUME NEW toggle \in {"vwap_enabled", "supertrend_enabled"}
        PROVE  a[toggle] <=> base[toggle]
    <3>1. a[toggle] = base[toggle]
      BY <2>1
    <3> QED
      BY <3>1
  <2> QED
    BY <2>2
<1>5. StrategyAccepted(a)
  <2>1. Between(a["rsi_bullish_threshold"], <<5000, 6000>>)
    BY <1>2 DEF WithinDefaults, Given, Between
  <2>2. Between(a["rsi_bearish_threshold"], <<3500, 4500>>)
    BY <1>2 DEF WithinDefaults, Given, Between
  <2>3. a["rsi_bullish_threshold"] \in Int /\ a["rsi_bearish_threshold"] \in Int
    BY <1>2 DEF WithinDefaults, Given
  <2>4. a["min_agreeing_checks"] = base["min_agreeing_checks"]
    BY <1>2
  <2>5. PICK voters : /\ voters = Cardinality({toggle \in {"vwap_enabled", "supertrend_enabled"} : a[toggle]})
                      /\ voters = Cardinality({toggle \in {"vwap_enabled", "supertrend_enabled"} : base[toggle]})
    BY <1>4
  <2>6. Between(base.min_agreeing_checks, <<1, 5>>) /\ base.min_agreeing_checks <= 3 + voters
    BY <1>3, <2>5 DEF StrategyAccepted
  <2> QED
    BY <2>1, <2>2, <2>3, <2>4, <2>5, <2>6 DEF StrategyAccepted, Between
<1>6. RiskAccepted(a)
  <2>1. \A name \in DOMAIN RiskRanges : Between(base[name], RiskRanges[name])
    BY <1>3 DEF RiskAccepted
  <2>2. Between(a["risk_per_trade_percent"], RiskRanges["risk_per_trade_percent"])
    BY <1>2, <2>1, SectionNames DEF WithinDefaults, Given, Between, RiskRanges
  <2>3. Between(a["max_trades_per_day"], RiskRanges["max_trades_per_day"])
    BY <1>2, <2>1, SectionNames DEF WithinDefaults, Given, Between, RiskRanges
  <2>4. Between(a["target_atr_multiplier"], RiskRanges["target_atr_multiplier"])
    <3>1. CASE "reward_risk_ratio" \in DOMAIN c
      <4>1. PICK ratio \in Int : ratio = c["reward_risk_ratio"] /\ 150 <= ratio /\ ratio <= 250
        BY <3>1 DEF WithinDefaults, Between
      <4>2. a["target_atr_multiplier"] = (ratio * 150) \div 100
        BY <1>2, <3>1, <4>1
      <4>3. RiskRanges["target_atr_multiplier"] = <<50, 1000>>
        BY DEF RiskRanges
      <4> QED
        BY <4>1, <4>2, <4>3 DEF Between
    <3>2. CASE "reward_risk_ratio" \notin DOMAIN c
      BY <1>2, <2>1, <3>2, SectionNames
    <3> QED
      BY <3>1, <3>2
  <2>5. \A name \in {"stop_loss_atr_multiplier", "max_daily_loss", "max_concurrent_positions",
                     "max_capital_exposure_percent"} : Between(a[name], RiskRanges[name])
    BY <1>2, <2>1, SectionNames
  <2> QED
    BY <2>2, <2>3, <2>4, <2>5, SectionNames DEF RiskAccepted
<1> QED
  BY <1>1, <1>5, <1>6

\* The target a ratio sets for a stop.
TargetOf(ratio, stop) == (ratio * stop) \div 100

\* Two ratios a step apart set the target of an accepted stop apart.
LEMMA TargetsApart ==
  ASSUME NEW x \in Int, NEW y \in Int, NEW stop \in Int, x % 50 = 0, y % 50 = 0, stop >= 50, x < y
  PROVE  TargetOf(x, stop) # TargetOf(y, stop)
<1>1. y >= x + 50
  OBVIOUS
<1>2. PICK d \in Nat : y = x + 50 + d
  BY <1>1
<1>3. PICK p \in Int, q \in Int, r \in Nat : p = x * stop /\ q = y * stop /\ r = d * stop
  BY SMTT(30)
<1>4. q = p + 50 * stop + r
  BY <1>2, <1>3, SMTT(30)
<1>5. q >= p + 100
  BY <1>4
<1>6. p \div 100 # q \div 100
  BY <1>5
<1> QED
  BY <1>3, <1>6 DEF TargetOf

\* No two combinations of the default parameters make the same configuration.
LEMMA AppliedApart ==
  ASSUME NEW base, Arguments(base), NEW c, NEW d, DOMAIN c = DOMAIN d,
         WithinDefaults(c), WithinDefaults(d),
         "reward_risk_ratio" \in DOMAIN c => base["stop_loss_atr_multiplier"] >= 50,
         ApplyCombination(c, base) = ApplyCombination(d, base)
  PROVE  \A name \in DOMAIN c : c[name] = d[name]
<1>1. PICK a, b : a = ApplyCombination(c, base) /\ b = ApplyCombination(d, base) /\ a = b
  OBVIOUS
<1>2. /\ a["risk_per_trade_percent"] = Given(c, "risk_percent", base["risk_per_trade_percent"])
      /\ a["max_trades_per_day"] = Given(c, "max_trades_per_day", base["max_trades_per_day"])
      /\ a["rsi_bullish_threshold"] = Given(c, "rsi_bullish_threshold", base["rsi_bullish_threshold"])
      /\ a["rsi_bearish_threshold"] = Given(c, "rsi_bearish_threshold", base["rsi_bearish_threshold"])
      /\ a["ema_period"] = Given(c, "ema_period", base["ema_period"])
      /\ "reward_risk_ratio" \in DOMAIN c =>
           a["target_atr_multiplier"] = (c["reward_risk_ratio"] * base["stop_loss_atr_multiplier"]) \div 100
  BY <1>1, AppliedIs
<1>3. /\ b["risk_per_trade_percent"] = Given(d, "risk_percent", base["risk_per_trade_percent"])
      /\ b["max_trades_per_day"] = Given(d, "max_trades_per_day", base["max_trades_per_day"])
      /\ b["rsi_bullish_threshold"] = Given(d, "rsi_bullish_threshold", base["rsi_bullish_threshold"])
      /\ b["rsi_bearish_threshold"] = Given(d, "rsi_bearish_threshold", base["rsi_bearish_threshold"])
      /\ b["ema_period"] = Given(d, "ema_period", base["ema_period"])
      /\ "reward_risk_ratio" \in DOMAIN d =>
           b["target_atr_multiplier"] = (d["reward_risk_ratio"] * base["stop_loss_atr_multiplier"]) \div 100
  BY <1>1, AppliedIs
<1>4. \A name \in DOMAIN c \ {"reward_risk_ratio"} : c[name] = d[name]
  BY <1>1, <1>2, <1>3 DEF Given, WithinDefaults, SweptNames
<1>5. "reward_risk_ratio" \in DOMAIN c => c["reward_risk_ratio"] = d["reward_risk_ratio"]
  <2> SUFFICES ASSUME "reward_risk_ratio" \in DOMAIN c PROVE c["reward_risk_ratio"] = d["reward_risk_ratio"]
    OBVIOUS
  <2>1. PICK x \in Int, y \in Int, stop \in Int :
          /\ x = c["reward_risk_ratio"] /\ y = d["reward_risk_ratio"]
          /\ stop = base["stop_loss_atr_multiplier"] /\ stop >= 50 /\ x % 50 = 0 /\ y % 50 = 0
    <3>1. base["stop_loss_atr_multiplier"] \in Int
      BY SectionNames DEF Arguments, ValidatedNames, Toggles
    <3> QED
      BY <3>1 DEF WithinDefaults
  <2>2. TargetOf(x, stop) = TargetOf(y, stop)
    BY <1>1, <1>2, <1>3, <2>1 DEF TargetOf
  <2>3. ~(x < y)
    <3> SUFFICES ASSUME x < y PROVE FALSE
      OBVIOUS
    <3>1. TargetOf(x, stop) # TargetOf(y, stop)
      BY <2>1, TargetsApart
    <3> QED
      BY <2>2, <3>1, Zenon
  <2>4. ~(y < x)
    <3> SUFFICES ASSUME y < x PROVE FALSE
      OBVIOUS
    <3>1. PICK least \in Int, most \in Int : least = y /\ most = x
      BY <2>1
    <3>2. least < most /\ least % 50 = 0 /\ most % 50 = 0
      BY <2>1, <3>1
    <3>3. TargetOf(least, stop) # TargetOf(most, stop)
      BY <2>1, <3>2, TargetsApart
    <3> QED
      BY <2>2, <3>1, <3>3, Zenon
  <2> QED
    BY <2>1, <2>3, <2>4
<1> QED
  BY <1>4, <1>5

\* A list whose elements all lead to something else counts as many of those.
LEMMA ApartCounts ==
  ASSUME NEW grid, Listed(grid), NEW f, NEW T, T = {f[i] : i \in DOMAIN grid},
         \A n, m \in DOMAIN grid : f[n] = f[m] => n = m
  PROVE  Cardinality(T) = Len(grid)
<1>1. IsFiniteSet(DOMAIN grid) /\ Cardinality(DOMAIN grid) = Len(grid)
  BY ListFacts DEF Listed
<1>2. PICK D : D = DOMAIN grid
  OBVIOUS
<1>3. T = {f[i] : i \in D}
  BY <1>2
<1>4. PICK g : g = [i \in D |-> f[i]]
  OBVIOUS
<1>5. g \in Surjection(D, T)
  BY <1>3, <1>4 DEF Surjection
<1>6. g \in Injection(D, T)
  BY <1>2, <1>3, <1>4 DEF Injection, IsInjective
<1>7. Cardinality(T) = Cardinality(D)
  BY <1>1, <1>2, <1>5, <1>6, FS_Surjection
<1> QED
  BY <1>1, <1>2, <1>3, <1>7

LEMMA AxesCount ==
  ASSUME NEW s, IsSpace(s), NEW base, Arguments(base), s # <<>> => Accepted(base)
  PROVE  LET grid == GenerateGrid(s)
         IN /\ Len(grid) = TotalCombinations(s)
            /\ ToSet(s) \subseteq DefaultParameterCatalog =>
                 Cardinality({ApplyCombination(grid[i], base) : i \in DOMAIN grid}) = Len(grid)
<1>1. PICK grid : grid = GenerateGrid(s)
  OBVIOUS
<1>2. /\ Listed(grid) /\ Len(grid) = TotalCombinations(s)
      /\ \A n \in DOMAIN grid : grid[n] = [name \in NamesTo(s, Len(s)) |-> grid[n][name]]
      /\ \A n, m \in DOMAIN grid : grid[n] = grid[m] => n = m
  BY <1>1, GridIs DEF GridTo
<1>3. ASSUME ToSet(s) \subseteq DefaultParameterCatalog
      PROVE  Cardinality({ApplyCombination(grid[i], base) : i \in DOMAIN grid}) = Len(grid)
  <2>1. PICK f : f = [i \in DOMAIN grid |-> ApplyCombination(grid[i], base)]
    OBVIOUS
  <2>2. ASSUME NEW n \in DOMAIN grid, NEW m \in DOMAIN grid, f[n] = f[m]
        PROVE  n = m
    <3>1. PICK c, d : c = grid[n] /\ d = grid[m]
      OBVIOUS
    <3>2. ApplyCombination(c, base) = ApplyCombination(d, base)
      BY <2>1, <2>2, <3>1
    <3>3. WithinDefaults(c) /\ WithinDefaults(d)
      BY <1>1, <1>3, <3>1, DefaultsSwept
    <3>4. DOMAIN c = NamesTo(s, Len(s)) /\ DOMAIN d = NamesTo(s, Len(s))
      BY <1>2, <3>1
    <3>5. "reward_risk_ratio" \in DOMAIN c => base["stop_loss_atr_multiplier"] >= 50
      <4> SUFFICES ASSUME "reward_risk_ratio" \in DOMAIN c PROVE base["stop_loss_atr_multiplier"] >= 50
        OBVIOUS
      <4>1. s # <<>>
        BY <3>4 DEF NamesTo
      <4>2. Between(base["stop_loss_atr_multiplier"], RiskRanges["stop_loss_atr_multiplier"])
        BY <4>1, SectionNames DEF Accepted, RiskAccepted
      <4>3. base["stop_loss_atr_multiplier"] \in Int
        BY SectionNames DEF Arguments, ValidatedNames, Toggles
      <4> QED
        BY <4>2, <4>3 DEF RiskRanges, Between
    <3>6. \A name \in DOMAIN c : c[name] = d[name]
      BY <3>2, <3>3, <3>4, <3>5, AppliedApart
    <3>7. c = d
      BY <1>2, <3>1, <3>4, <3>6
    <3> QED
      BY <1>2, <3>1, <3>7
  <2>3. PICK T : T = {f[i] : i \in DOMAIN grid}
    OBVIOUS
  <2>4. Cardinality(T) = Len(grid)
    BY <1>2, <2>2, <2>3, ApartCounts
  <2>5. T = {ApplyCombination(grid[i], base) : i \in DOMAIN grid}
    BY <2>1, <2>3
  <2> QED
    BY <2>4, <2>5
<1> QED
  BY <1>1, <1>2, <1>3

\* The phases of a calendar that can be built, minute by minute.
LEMMA PhasesAre ==
  ASSUME NEW w \in WindowsTried, WindowsAccepted(w)
  PROVE  /\ w.preOpen \in Nat /\ w.open \in Nat /\ w.close \in Nat
         /\ w.preOpen < w.open /\ w.open < w.close
         /\ \A t \in Nat : /\ SessionPhase(w, t) = "PreOpen" <=> w.preOpen <= t /\ t < w.open
                           /\ SessionPhase(w, t) \in {"Open", "Lunch"} <=> w.open <= t /\ t < w.close
                           /\ SessionPhase(w, t) = "Close" => t >= w.close
         /\ w.lunchStart # NoValue =>
              /\ w.lunchStart \in Nat /\ w.open < w.lunchStart /\ w.lunchStart < w.close
              /\ \A t \in Nat : SessionPhase(w, t) = "Lunch" => w.lunchStart <= t /\ t < w.lunchEnd
              /\ SessionPhase(w, w.lunchStart) = "Lunch"
              /\ w.lunchEnd \in Nat /\ w.lunchEnd < w.close
         /\ w.lunchStart = NoValue => \A t \in Nat : SessionPhase(w, t) # "Lunch"
<1>1. /\ w.preOpen \in Nat /\ w.open \in Nat /\ w.close \in Nat
      /\ w.lunchStart \in Nat \cup {NoValue} /\ w.lunchEnd \in Nat \cup {NoValue}
  BY ParametersAssumption DEF ParametersAssumption
<1>2. /\ w.preOpen < w.open /\ w.open < w.close
      /\ w.lunchStart = NoValue <=> w.lunchEnd = NoValue
      /\ w.lunchStart # NoValue =>
           w.open < w.lunchStart /\ w.lunchStart < w.lunchEnd /\ w.lunchEnd < w.close
  BY DEF WindowsAccepted
<1> QED
  BY <1>1, <1>2 DEF SessionPhase

LEMMA CalendarOrdered ==
  ASSUME NEW w \in WindowsTried, WindowsAccepted(w)
  PROVE  LET latest == w.close + 2
             In(kind) == {t \in 0 .. latest : SessionPhase(w, t) = kind}
             Trading == In("Open") \cup In("Lunch")
         IN /\ In("PreOpen") # {} /\ In("Open") # {}
            /\ Trading = Min(In("Open")) .. Max(In("Open"))
            /\ Max(In("PreOpen")) = Min(Trading) - 1
            /\ In("Lunch") # {} <=> w.lunchStart # NoValue
            /\ \A t \in In("Close") : t > Max(Trading)
<1>1. PICK pre \in Nat, open \in Nat, close \in Nat :
        /\ pre = w.preOpen /\ open = w.open /\ close = w.close /\ pre < open /\ open < close
        /\ \A t \in Nat : /\ SessionPhase(w, t) = "PreOpen" <=> pre <= t /\ t < open
                          /\ SessionPhase(w, t) \in {"Open", "Lunch"} <=> open <= t /\ t < close
                          /\ SessionPhase(w, t) = "Close" => t >= close
  BY PhasesAre
<1>2. PICK P, O, L, C : /\ P = {t \in 0 .. w.close + 2 : SessionPhase(w, t) = "PreOpen"}
                        /\ O = {t \in 0 .. w.close + 2 : SessionPhase(w, t) = "Open"}
                        /\ L = {t \in 0 .. w.close + 2 : SessionPhase(w, t) = "Lunch"}
                        /\ C = {t \in 0 .. w.close + 2 : SessionPhase(w, t) = "Close"}
  OBVIOUS
<1>3. PICK last \in Nat : last = open - 1
  BY <1>1
<1>4. PICK final \in Nat : final = close - 1
  BY <1>1
<1>5. IsFiniteSet(pre .. last) /\ IsFiniteSet(open .. final)
  <2>1. IsFiniteSet(pre .. last)
    BY FS_Interval
  <2>2. IsFiniteSet(open .. final)
    BY FS_Interval
  <2> QED
    BY <2>1, <2>2
<1>6. P = pre .. open - 1 /\ O \cup L = open .. close - 1
  BY <1>1, <1>2
<1>7. open \in O /\ close - 1 \in O
  <2>1. open \in Nat /\ close - 1 \in Nat /\ open \in 0 .. w.close + 2 /\ close - 1 \in 0 .. w.close + 2
    BY <1>1
  <2>2. SessionPhase(w, open) # "Lunch" /\ SessionPhase(w, close - 1) # "Lunch"
    <3>1. CASE w.lunchStart = NoValue
      BY <2>1, <3>1, PhasesAre
    <3>2. CASE w.lunchStart # NoValue
      <4>1. /\ w.lunchStart \in Nat /\ w.open < w.lunchStart /\ w.lunchEnd \in Nat /\ w.lunchEnd < w.close
            /\ \A t \in Nat : SessionPhase(w, t) = "Lunch" => w.lunchStart <= t /\ t < w.lunchEnd
        BY <3>2, PhasesAre
      <4> QED
        BY <1>1, <2>1, <4>1
    <3> QED
      BY <3>1, <3>2
  <2>3. SessionPhase(w, open) \in {"Open", "Lunch"} /\ SessionPhase(w, close - 1) \in {"Open", "Lunch"}
    BY <1>1, <2>1
  <2> QED
    BY <1>2, <2>1, <2>2, <2>3
<1>8. L # {} <=> w.lunchStart # NoValue
  <2>1. ASSUME w.lunchStart # NoValue PROVE w.lunchStart \in L
    <3>1. w.lunchStart \in Nat /\ w.lunchStart < w.close /\ SessionPhase(w, w.lunchStart) = "Lunch"
      BY <2>1, PhasesAre
    <3> QED
      BY <1>1, <1>2, <3>1
  <2>2. ASSUME w.lunchStart = NoValue PROVE L = {}
    <3>1. \A t \in Nat : SessionPhase(w, t) # "Lunch"
      BY <2>2, PhasesAre
    <3> QED
      BY <1>1, <1>2, <3>1
  <2> QED
    BY <2>1, <2>2
<1>9. Min(O) = open /\ Max(O) = close - 1
  <2>1. PICK T : T = open .. final /\ IsFiniteSet(T)
    BY <1>5
  <2>2. O \subseteq T
    BY <1>6, <1>4, <2>1
  <2>3. IsFiniteSet(O)
    BY <2>1, <2>2, FS_Subset
  <2>4. IsFiniteSet(O) /\ O # {} /\ \A t \in O : t \in Int
    BY <1>7, <2>1, <2>2, <2>3
  <2>5. Max(O) \in O /\ (\A y \in O : Max(O) >= y) /\ Min(O) \in O /\ \A y \in O : Min(O) <= y
    BY <2>4, MaxMinOf
  <2>6. \A t \in O : t \in Int /\ open <= t /\ t <= close - 1
    BY <1>1, <1>4, <2>1, <2>2
  <2>7. PICK least, most : least = Min(O) /\ most = Max(O)
    OBVIOUS
  <2>8. /\ most \in O /\ most >= close - 1 /\ least \in O /\ least <= open
    BY <1>7, <2>5, <2>7
  <2> QED
    BY <1>1, <2>6, <2>7, <2>8
<1>10. Min(O \cup L) = open /\ Max(O \cup L) = close - 1
  <2>1. PICK T : T = open .. close - 1
    OBVIOUS
  <2>2. IsFiniteSet(T) /\ T # {} /\ \A t \in T : t \in Int
    BY <1>1, <1>4, <1>5, <2>1
  <2>3. Max(T) \in T /\ (\A y \in T : Max(T) >= y) /\ Min(T) \in T /\ \A y \in T : Min(T) <= y
    BY <2>2, MaxMinOf
  <2>4. Min(T) = open /\ Max(T) = close - 1
    BY <1>1, <2>1, <2>3
  <2> QED
    BY <1>6, <2>1, <2>4
<1>11. P # {} /\ Max(P) = open - 1
  <2>1. IsFiniteSet(P) /\ P # {} /\ \A t \in P : t \in Int
    BY <1>1, <1>6, <1>3, <1>5
  <2>2. Max(P) \in P /\ \A y \in P : Max(P) >= y
    BY <2>1, MaxMinOf
  <2> QED
    BY <1>1, <1>6, <2>1, <2>2
<1>12. \A t \in C : t > close - 1
  BY <1>1, <1>2
<1>13. /\ P # {} /\ O # {} /\ O \cup L = Min(O) .. Max(O) /\ Max(P) = Min(O \cup L) - 1
       /\ \A t \in C : t > Max(O \cup L)
  BY <1>1, <1>6, <1>7, <1>9, <1>10, <1>11, <1>12
<1> QED
  BY <1>2, <1>8, <1>13

\* What configurations, sweeps and calendars promise, of those that were accepted.
LEMMA AcceptedAreTrusted ==
  ASSUME ParametersInv
  PROVE  ConfigurationTrusted
<1>1. CatalogueTells
  BY CatalogueAgrees, EntriesGiveDefaults DEF ParametersInv, CatalogueTells
<1>2. GridIsLegal
  <2> SUFFICES ASSUME accepted, ToSet(space) \subseteq DefaultParameterCatalog,
                      Changed \cap {"rsi_bullish_threshold", "rsi_bearish_threshold",
                                    "stop_loss_atr_multiplier"} = {}
               PROVE  \A i \in DOMAIN GenerateGrid(space) :
                        LET c == ApplyCombination(GenerateGrid(space)[i], configured)
                        IN StrategyAccepted(c) /\ RiskAccepted(c)
    BY Zenon DEF GridIsLegal
  <2>1. \A name \in {"rsi_bullish_threshold", "rsi_bearish_threshold", "stop_loss_atr_multiplier"} :
          configured[name] = Defaults[name]
    <3>1. {"rsi_bullish_threshold", "rsi_bearish_threshold", "stop_loss_atr_multiplier"} \subseteq ValidatedNames
      BY SectionNames DEF ValidatedNames
    <3> QED
      BY <3>1 DEF ParametersInv, Changed
  <2>2. /\ configured["rsi_bullish_threshold"] = 5500 /\ configured["rsi_bearish_threshold"] = 4500
        /\ configured["stop_loss_atr_multiplier"] = 150
    BY <2>1, DefaultsAre, SectionNames DEF StrategyDefaults, RiskDefaults
  <2>3. ASSUME NEW i \in DOMAIN GenerateGrid(space)
        PROVE  LET c == ApplyCombination(GenerateGrid(space)[i], configured)
               IN StrategyAccepted(c) /\ RiskAccepted(c)
    <3>1. PICK c : c = GenerateGrid(space)[i]
      OBVIOUS
    <3>2. WithinDefaults(c)
      BY <3>1, DefaultsSwept DEF ParametersInv
    <3>3. StrategyAccepted(ApplyCombination(c, configured)) /\ RiskAccepted(ApplyCombination(c, configured))
      BY <2>2, <3>2, CombinationLegal DEF ParametersInv
    <3> QED
      BY <3>1, <3>3
  <2> QED
    BY <2>3
<1>3. EveryAxisCounts
  <2>1. IsSpace(space) /\ Arguments(configured) /\ (space # <<>> => Accepted(configured))
    BY DEF ParametersInv
  <2>2. PICK grid : grid = GenerateGrid(space)
    OBVIOUS
  <2>3. /\ Len(grid) = TotalCombinations(space)
        /\ ToSet(space) \subseteq DefaultParameterCatalog =>
             Cardinality({ApplyCombination(grid[i], configured) : i \in DOMAIN grid}) = Len(grid)
    BY <2>1, <2>2, AxesCount
  <2>4. ASSUME NEW k \in DOMAIN space, (space[k].maximum - space[k].minimum) % space[k].step = 0
        PROVE  Min(ToSet(Values(space[k]))) = space[k].minimum /\ Max(ToSet(Values(space[k]))) = space[k].maximum
    BY <2>1, <2>4, AxisEnds DEF IsSpace
  <2> QED
    BY <2>2, <2>3, <2>4 DEF EveryAxisCounts
<1>4. CalendarInOrder
  <2> SUFFICES ASSUME calendar # NoValue PROVE CalendarInOrder
    BY DEF CalendarInOrder
  <2>1. calendar \in WindowsTried /\ WindowsAccepted(calendar)
    BY DEF ParametersInv
  <2> QED
    BY <2>1, CalendarOrdered DEF CalendarInOrder
<1> QED
  BY <1>1, <1>2, <1>3, <1>4 DEF ConfigurationTrusted

\* The inductive invariant of what is configured: arguments of their types, the verdict
\* the validators'; a space of axes with names of their own, on a configuration that
\* exists; a calendar that could be built.
THEOREM ParametersInvariant == Spec => []ParametersInv
<1>1. Init => ParametersInv
  <2>1. Init => /\ configured = Defaults /\ accepted = TRUE /\ space = <<>> /\ calendar = NoValue
    BY DEF Init, ParametersInit
  <2>2. ASSUME configured = Defaults, accepted = TRUE, space = <<>>, calendar = NoValue
        PROVE  ParametersInv
    <3>1. space \in Seq({}) /\ DOMAIN space = {}
      BY <2>2
    <3>2. IsSpace(space)
      BY <3>1 DEF IsSpace, Listed
    <3>3. Arguments(configured) /\ Accepted(configured)
      BY <2>2, DefaultsAccepted
    <3>4. accepted
      BY <2>2
    <3> QED
      BY <2>2, <3>2, <3>3, <3>4 DEF ParametersInv
  <2> QED
    BY <2>1, <2>2
<1>2. ParametersInv /\ [Next]_vars => ParametersInv'
  <2> SUFFICES ASSUME ParametersInv, [Next]_vars PROVE ParametersInv'
    OBVIOUS
  <2>1. CASE ParametersNext
    BY <2>1, ParametersKept
  <2>2. CASE UNCHANGED parametersVars
    BY <2>2 DEF ParametersInv, parametersVars, IsSpace, Listed
  <2> QED
    BY <2>1, <2>2 DEF Next, vars
<1> QED
  BY <1>1, <1>2, PTL DEF Spec

\* What is configured, swept and scheduled is what the code promises of it
\* (ConfigurationTrusted): the catalogue tells what the models accept, a grid over the
\* default parameters stays legal and makes as many configurations as it has
\* combinations, and a calendar's day is in order.
THEOREM ConfigurationIsTrusted == Spec => []ConfigurationTrusted
BY AcceptedAreTrusted, ParametersInvariant, PTL

=============================================================================
