-------------------------- MODULE TradeCycleProofs --------------------------
(***************************************************************************)
(* Proofs about TradeCycle.  The inductive invariant CycleInv adds to the  *)
(* type invariant and OnePosition what the processor relies on between two *)
(* candles: the ledger runs along the book, and an open position is        *)
(* covered by its stop-loss and was entered below the loss limit.          *)
(***************************************************************************)
EXTENDS TradeCycle, TLAPS

-----------------------------------------------------------------------------
(* Arithmetic *)

\* A price no further than the stop distance away loses no more than the risk.
LEMMA LossWithinRisk ==
  ASSUME NEW gain \in Int, NEW distance \in Int, NEW quantity \in Nat,
         gain >= -distance, quantity * distance <= RiskAmount
  PROVE  gain * quantity >= -RiskAmount
<1>1. (gain + distance) * quantity >= 0
  BY SMT
<1>2. (gain + distance) * quantity = gain * quantity + quantity * distance
  BY SMT
<1>3. gain * quantity \in Int /\ quantity * distance \in Int
  BY SMT
<1> QED
  BY <1>1, <1>2, <1>3, RiskAssumption, SMT

\* position_sizing.py: the size times the stop distance is within the risk.
LEMMA SizeWithinRisk ==
  ASSUME NEW c \in Candle
  PROVE  /\ StopDistance(c) \in Nat /\ TargetDistance(c) \in Nat
         /\ PositionSize(c) \in Nat
         /\ PositionSize(c) * StopDistance(c) <= RiskAmount
<1>1. c.atr \in Nat
  BY RiskAssumption DEF Candle
<1>2. StopDistance(c) \in Nat /\ TargetDistance(c) \in Nat
  BY <1>1, RiskAssumption, SMT DEF StopDistance, TargetDistance
<1>3. CASE StopDistance(c) = 0
  BY <1>2, <1>3, RiskAssumption, SMT DEF PositionSize
<1>4. CASE StopDistance(c) # 0
  <2> DEFINE d == StopDistance(c)
             q == RiskAmount \div d
  <2>1. d \in Nat /\ d > 0 /\ RiskAmount \in Nat
    BY <1>2, <1>4, RiskAssumption
  <2>2. PositionSize(c) = q
    BY <1>4 DEF PositionSize
  <2> HIDE DEF d
  <2>3. q \in Nat /\ q * d <= RiskAmount
    BY <2>1, SMT
  <2> QED
    BY <1>2, <2>2, <2>3 DEF d
<1> QED
  BY <1>3, <1>4

-----------------------------------------------------------------------------
(* The inductive invariant *)

\* A position is covered when its stop-loss is on the losing side of the entry,
\* its target on the winning side, and the stop is worth at most the risk.
Covered(p, stop, goal) ==
  /\ p.realized = 0
  /\ p.direction = "LONG" =>
       stop <= p.entry /\ p.entry <= goal /\ p.quantity * (p.entry - stop) <= RiskAmount
  /\ p.direction = "SHORT" =>
       p.entry <= stop /\ goal <= p.entry /\ p.quantity * (stop - p.entry) <= RiskAmount

OpenPositionCovered ==
  openId # NoPosition =>
    /\ Covered(positions[openId], stopLoss, target)
    /\ realizedLossToday < MaxDailyLoss

\* The open position is the newest one, and what the cooldown is measured from
\* is the close of the newest trade.
LedgerFollowsBook ==
  /\ Len(ledger) = Len(positions)
  /\ openId # NoPosition => openId = Len(positions)
  /\ \A i \in DOMAIN ledger : i # openId => ledger[i].closedAt # Never
  /\ (openId = NoPosition /\ Len(ledger) > 0) =>
       lastTradeClosedAt = ledger[Len(ledger)].closedAt

CycleInv ==
  /\ TypeOK
  /\ OnePosition
  /\ OpenPositionCovered
  /\ RiskPerTradeBounded
  /\ DailyLossBounded
  /\ LedgerFollowsBook
  /\ CooldownRespected

-----------------------------------------------------------------------------
(* The operators of a candle *)

\* What a well-typed candle carries.
LEMMA CandleType ==
  ASSUME NEW c \in Candle
  PROVE  /\ c.high \in Nat /\ c.low \in Nat /\ c.close \in Nat
         /\ c.day \in Nat /\ c.day > 0 /\ c.minute \in Nat
         /\ c.signal \in {"LONG", "SHORT", "NONE"}
         /\ At(c) \in Nat /\ At(c) > 0
<1>1. /\ c.high \in Prices /\ c.low \in Prices /\ c.close \in Prices
      /\ c.day \in Days /\ c.minute \in Minutes
      /\ c.signal \in {"LONG", "SHORT", "NONE"}
  BY DEF Candle
<1>2. c.high \in Nat /\ c.low \in Nat /\ c.close \in Nat
  BY <1>1, RiskAssumption
<1>3. c.day \in Nat /\ c.day # 0 /\ c.minute \in 0 .. MinutesPerDay - 1
  BY <1>1, ClockAssumption
<1>4. At(c) = c.day * 1440 + c.minute
  BY DEF At, MinutesPerDay
<1>5. c.minute \in Nat /\ c.day > 0
  BY <1>3, SMTT(30) DEF MinutesPerDay
<1>6. At(c) \in Nat /\ At(c) > 0
  BY <1>3, <1>4, <1>5, SMT
<1> QED
  BY <1>1, <1>2, <1>3, <1>5, <1>6

\* A price that has not passed the stop-loss costs at most the risk per trade.
LEMMA PnlWithinRisk ==
  ASSUME NEW p \in Position, NEW stop \in Int, NEW goal \in Int, NEW price \in Int,
         Covered(p, stop, goal),
         p.direction = "LONG" => price >= stop,
         p.direction = "SHORT" => price <= stop
  PROVE  /\ SignedPnl(p, price, p.quantity) \in Int
         /\ SignedPnl(p, price, p.quantity) >= -RiskAmount
<1>1. p.entry \in Int /\ p.quantity \in Nat /\ p.direction \in {"LONG", "SHORT"}
  BY DEF Position
<1>2. CASE p.direction = "LONG"
  <2> DEFINE gain == price - p.entry
             distance == p.entry - stop
  <2>1. gain \in Int /\ distance \in Int /\ gain >= -distance
    BY <1>1, <1>2
  <2>2. p.quantity * distance <= RiskAmount
    BY <1>2 DEF Covered
  <2>3. SignedPnl(p, price, p.quantity) = gain * p.quantity
    BY <1>2 DEF SignedPnl
  <2> HIDE DEF gain, distance
  <2>4. gain * p.quantity >= -RiskAmount
    BY <1>1, <2>1, <2>2, LossWithinRisk
  <2> QED
    BY <1>1, <2>1, <2>3, <2>4, SMT
<1>3. CASE p.direction = "SHORT"
  <2> DEFINE gain == p.entry - price
             distance == stop - p.entry
  <2>1. gain \in Int /\ distance \in Int /\ gain >= -distance
    BY <1>1, <1>3
  <2>2. p.quantity * distance <= RiskAmount
    BY <1>3 DEF Covered
  <2>3. SignedPnl(p, price, p.quantity) = gain * p.quantity
    BY <1>3 DEF SignedPnl
  <2> HIDE DEF gain, distance
  <2>4. gain * p.quantity >= -RiskAmount
    BY <1>1, <2>1, <2>2, LossWithinRisk
  <2> QED
    BY <1>1, <2>1, <2>3, <2>4, SMT
<1> QED
  BY <1>1, <1>2, <1>3

\* A position entered on a recommended candle is covered by its stop-loss.
LEMMA EntryIsCovered ==
  ASSUME NEW c \in Candle, c.signal # "NONE", PositionSize(c) >= 1
  PROVE  /\ OpenPosition(c) \in Position
         /\ CalculateStopLoss(c) \in Int /\ CalculateTarget(c) \in Int
         /\ Covered(OpenPosition(c), CalculateStopLoss(c), CalculateTarget(c))
<1> DEFINE d == StopDistance(c)
           g == TargetDistance(c)
           q == PositionSize(c)
<1>1. d \in Nat /\ g \in Nat /\ q \in Nat /\ q * d <= RiskAmount
  BY SizeWithinRisk
<1>2. c.close \in Nat /\ c.signal \in {"LONG", "SHORT"}
  BY CandleType
<1>3. OpenPosition(c) \in Position
  BY <1>1, <1>2 DEF OpenPosition, Position
<1>4. CASE c.signal = "LONG"
  <2>1. CalculateStopLoss(c) = c.close - d /\ CalculateTarget(c) = c.close + g
    BY <1>4 DEF CalculateStopLoss, CalculateTarget
  <2>2. c.close - (c.close - d) = d
    BY <1>1, <1>2
  <2> HIDE DEF d, g, q
  <2> QED
    BY <1>1, <1>2, <1>3, <1>4, <2>1, <2>2 DEF Covered, OpenPosition, q
<1>5. CASE c.signal = "SHORT"
  <2>1. CalculateStopLoss(c) = c.close + d /\ CalculateTarget(c) = c.close - g
    BY <1>5 DEF CalculateStopLoss, CalculateTarget
  <2>2. (c.close + d) - c.close = d
    BY <1>1, <1>2
  <2> HIDE DEF d, g, q
  <2> QED
    BY <1>1, <1>2, <1>3, <1>5, <2>1, <2>2 DEF Covered, OpenPosition, q
<1> QED
  BY <1>2, <1>4, <1>5

-----------------------------------------------------------------------------
(* What the exit check leaves behind *)

\* Short of a breach the close has not passed the stop-loss, and an exit is
\* never priced beyond it.
LEMMA PriceWithinStop ==
  ASSUME CycleInv, NEW c \in Candle, WellFormed(c), openId # NoPosition
  PROVE  LET p == positions[openId]
             price == IF Exits(c) THEN ExitPrice(c) ELSE c.close
         IN  /\ p \in Position
             /\ price \in Int
             /\ p.direction = "LONG" => price >= stopLoss
             /\ p.direction = "SHORT" => price <= stopLoss
<1> DEFINE p == positions[openId]
<1>0. positions \in Seq(Position) /\ openId \in 1 .. Len(positions)
  BY DEF CycleInv, TypeOK, NoPosition
<1>1. /\ p \in Position /\ p.direction \in {"LONG", "SHORT"} /\ p.entry \in Int
      /\ stopLoss \in Int /\ target \in Int
  <2>1. p \in Position
    BY <1>0
  <2> HIDE DEF p
  <2> QED
    BY <2>1 DEF CycleInv, TypeOK, Position
<1>2. Covered(p, stopLoss, target)
  BY DEF CycleInv, OpenPositionCovered
<1>3. c.high \in Nat /\ c.low \in Nat /\ c.close \in Nat /\ c.low <= c.close /\ c.close <= c.high
  BY CandleType DEF WellFormed
<1>4. CASE StopBreached(c, p)
  BY <1>1, <1>4 DEF Exits, ExitPrice
<1>5. CASE ~StopBreached(c, p) /\ TargetBreached(c, p)
  BY <1>1, <1>2, <1>5 DEF Exits, ExitPrice, Covered
<1>6. CASE ~StopBreached(c, p) /\ ~TargetBreached(c, p)
  <2>1. (IF Exits(c) THEN ExitPrice(c) ELSE c.close) = c.close
    BY <1>6 DEF ExitPrice
  <2>2. IF p.direction = "SHORT" THEN c.high < stopLoss ELSE c.low > stopLoss
    BY <1>1, <1>3, <1>6 DEF StopBreached
  <2> QED
    BY <1>1, <1>3, <2>1, <2>2
<1> QED
  BY <1>4, <1>5, <1>6

\* The position exited or marked on a candle stays within the risk per trade.
LEMMA OpenPnlWithinRisk ==
  ASSUME CycleInv, NEW c \in Candle, WellFormed(c), openId # NoPosition
  PROVE  LET p == positions[openId]
             price == IF Exits(c) THEN ExitPrice(c) ELSE c.close
         IN  /\ SignedPnl(p, price, p.quantity) \in Int
             /\ SignedPnl(p, price, p.quantity) >= -RiskAmount
<1>1. Covered(positions[openId], stopLoss, target)
  BY DEF CycleInv, OpenPositionCovered
<1>2. stopLoss \in Int /\ target \in Int
  BY DEF CycleInv, TypeOK
<1> QED
  BY <1>1, <1>2, PriceWithinStop, PnlWithinRisk

\* The record exit() stores is a closed position that has realized r.
LEMMA ExitedRecord ==
  ASSUME NEW p \in Position, NEW r \in Int
  PROVE  LET closed == [p EXCEPT !.quantity = 0, !.realized = r,
                                 !.unrealized = 0, !.status = "CLOSED"]
         IN  /\ closed \in Position
             /\ closed.status = "CLOSED" /\ closed.quantity = 0
             /\ closed.realized = r /\ closed.unrealized = 0
             /\ closed.direction = p.direction /\ closed.entry = p.entry
             /\ closed.initialQuantity = p.initialQuantity
<1> DEFINE q0 == [p EXCEPT !.quantity = 0]
           r0 == [q0 EXCEPT !.realized = r]
           u0 == [r0 EXCEPT !.unrealized = 0]
           s0 == [u0 EXCEPT !.status = "CLOSED"]
<1>1. q0 \in Position
  BY DEF Position
<1> HIDE DEF q0
<1>2. r0 \in Position
  BY <1>1 DEF Position
<1> HIDE DEF r0
<1>3. u0 \in Position
  BY <1>2 DEF Position
<1> HIDE DEF u0
<1>4. s0 \in Position
  BY <1>3 DEF Position
<1> HIDE DEF s0
<1>5. s0 = [p EXCEPT !.quantity = 0, !.realized = r, !.unrealized = 0, !.status = "CLOSED"]
  BY DEF q0, r0, u0, s0
<1>6. /\ s0.status = "CLOSED" /\ s0.quantity = 0 /\ s0.realized = r /\ s0.unrealized = 0
      /\ s0.direction = p.direction /\ s0.entry = p.entry
      /\ s0.initialQuantity = p.initialQuantity
  BY <1>5 DEF Position
<1> QED
  BY <1>4, <1>5, <1>6

\* After the exit check of a flat or exiting candle every position is closed.
LEMMA ExitLeavesFlatBook ==
  ASSUME CycleInv, NEW c \in Candle, WellFormed(c), openId = NoPosition \/ Exits(c)
  PROVE  /\ BookAfterExit(c) \in Seq(Position)
         /\ Len(BookAfterExit(c)) = Len(positions)
         /\ \A i \in 1 .. Len(positions) :
              /\ BookAfterExit(c)[i].status = "CLOSED"
              /\ BookAfterExit(c)[i].quantity = 0
              /\ BookAfterExit(c)[i].realized >= -RiskAmount
              /\ BookAfterExit(c)[i].unrealized >= -RiskAmount
              /\ positions[i].status = "CLOSED" => BookAfterExit(c)[i] = positions[i]
<1>1. /\ positions \in Seq(Position) /\ openId \in 0 .. Len(positions)
      /\ Len(positions) \in Nat /\ DOMAIN positions = 1 .. Len(positions)
      /\ \A i \in 1 .. Len(positions) : positions[i] \in Position
  BY DEF CycleInv, TypeOK
<1>2. \A i \in 1 .. Len(positions) :
        /\ positions[i].realized >= -RiskAmount /\ positions[i].unrealized >= -RiskAmount
        /\ i # openId => positions[i].status = "CLOSED" /\ positions[i].quantity = 0
        /\ i = openId => positions[i].status = "OPEN"
  BY <1>1 DEF CycleInv, RiskPerTradeBounded, OnePosition
<1>3. CASE ~Exits(c)
  BY <1>1, <1>2, <1>3 DEF BookAfterExit, NoPosition
<1>4. CASE Exits(c)
  <2> DEFINE p == positions[openId]
             pnl == SignedPnl(p, ExitPrice(c), p.quantity)
             closed == ExitPosition(p, ExitPrice(c))
  <2>1. openId \in 1 .. Len(positions) /\ p \in Position /\ p.realized = 0
    BY <1>1, <1>4 DEF Exits, NoPosition, CycleInv, OpenPositionCovered, Covered
  <2>2. pnl \in Int /\ pnl >= -RiskAmount
    BY <1>4, OpenPnlWithinRisk DEF Exits
  <2> HIDE DEF pnl
  <2> HIDE DEF p
  <2>3. closed = [p EXCEPT !.quantity = 0, !.realized = pnl,
                           !.unrealized = 0, !.status = "CLOSED"]
    <3>1. p.realized + pnl = pnl
      BY <2>1, <2>2
    <3>2. closed = [p EXCEPT !.quantity = 0, !.realized = p.realized + pnl,
                             !.unrealized = 0, !.status = "CLOSED"]
      BY DEF ExitPosition, pnl, p
    <3> QED
      BY <3>1, <3>2
  <2> HIDE DEF closed
  <2>4. /\ closed \in Position /\ closed.status = "CLOSED" /\ closed.quantity = 0
        /\ closed.realized = pnl /\ closed.unrealized = 0
    BY <2>1, <2>2, <2>3, ExitedRecord
  <2>5. BookAfterExit(c) = [positions EXCEPT ![openId] = closed]
    BY <1>4 DEF BookAfterExit, closed, p
  <2>6. BookAfterExit(c) \in Seq(Position) /\ Len(BookAfterExit(c)) = Len(positions)
    BY <1>1, <2>1, <2>4, <2>5
  <2>7. 0 >= -RiskAmount
    BY RiskAssumption
  <2> QED
    BY <1>1, <1>2, <2>1, <2>2, <2>4, <2>5, <2>6, <2>7
<1> QED
  BY <1>3, <1>4

\* The exit check adds at most the risk per trade to the day's loss.
LEMMA ExitLoss ==
  ASSUME CycleInv, NEW c \in Candle, WellFormed(c), openId = NoPosition \/ Exits(c)
  PROVE  /\ LossOn(c) \in Nat
         /\ LossAfterExit(c) \in Nat
         /\ LossOn(c) <= LossAfterExit(c) /\ LossAfterExit(c) <= LossOn(c) + RiskAmount
         /\ ~Exits(c) => LossAfterExit(c) = LossOn(c)
         /\ LossAfterExit(c) < MaxDailyLoss + RiskAmount
<1>1. /\ LossOn(c) \in Nat /\ LossOn(c) < MaxDailyLoss + RiskAmount
      /\ openId # NoPosition => LossOn(c) < MaxDailyLoss
  BY RiskAssumption
     DEF LossOn, CycleInv, TypeOK, DailyLossBounded, OpenPositionCovered
<1>2. CASE Exits(c)
  <2>1. RealizedThisExit(c) \in Int /\ RealizedThisExit(c) >= -RiskAmount
    BY <1>2, OpenPnlWithinRisk DEF Exits, RealizedThisExit
  <2>2. openId # NoPosition
    BY <1>2 DEF Exits
  <2> QED
    BY <1>1, <1>2, <2>1, <2>2, RiskAssumption DEF LossAfterExit
<1>3. CASE ~Exits(c)
  BY <1>1, <1>3, RiskAssumption DEF LossAfterExit, RealizedThisExit
<1> QED
  BY <1>2, <1>3

\* The cooldown, at least one, rules out an exit and an entry on one candle.
LEMMA NoTurnAround ==
  ASSUME NEW c \in Candle, Exits(c)
  PROVE  ~Enters(c)
<1>1. At(c) \in Nat /\ At(c) > 0 /\ Cooldown \in Nat /\ Cooldown # 0
  BY CandleType, ClockAssumption
<1>2. ClosedAtAfterExit(c) = At(c)
  BY DEF ClosedAtAfterExit
<1>3. ~CooldownComplete(c, ClosedAtAfterExit(c))
  BY <1>1, <1>2 DEF CooldownComplete, Never
<1> QED
  BY <1>3 DEF Enters, Recommended, CanTrade

\* The exit check closes the newest ledger entry and disturbs no other.
LEMMA ExitLedger ==
  ASSUME CycleInv, NEW c \in Candle, openId = NoPosition \/ Exits(c)
  PROVE  LET L == LedgerAfterExit(c)
         IN  /\ L \in Seq([openedAt : Nat, closedAt : Nat])
             /\ Len(L) = Len(positions)
             /\ ClosedAtAfterExit(c) \in Nat
             /\ \A i \in 1 .. Len(L) : L[i].closedAt # Never
             /\ Len(L) > 0 => ClosedAtAfterExit(c) = L[Len(L)].closedAt
             /\ \A i \in 1 .. Len(L) : i + 1 \in 1 .. Len(L) =>
                  L[i + 1].openedAt - L[i].closedAt >= Cooldown
<1> DEFINE Entry == [openedAt : Nat, closedAt : Nat]
<1>1. /\ ledger \in Seq(Entry) /\ Len(ledger) = Len(positions)
      /\ Len(ledger) \in Nat /\ DOMAIN ledger = 1 .. Len(ledger)
      /\ \A i \in 1 .. Len(ledger) :
           ledger[i] \in Entry /\ ledger[i].openedAt \in Nat /\ ledger[i].closedAt \in Nat
      /\ lastTradeClosedAt \in Nat
  <2>1. ledger \in Seq(Entry) /\ lastTradeClosedAt \in Nat
    BY DEF CycleInv, TypeOK
  <2>2. \A e \in Entry : e.openedAt \in Nat /\ e.closedAt \in Nat
    OBVIOUS
  <2> HIDE DEF Entry
  <2> QED
    BY <2>1, <2>2 DEF CycleInv, LedgerFollowsBook
<1>2. \A i \in 1 .. Len(ledger) : i # openId => ledger[i].closedAt # Never
  BY <1>1 DEF CycleInv, LedgerFollowsBook
<1>3. \A i \in 1 .. Len(ledger) : i + 1 \in 1 .. Len(ledger) =>
        ledger[i + 1].openedAt - ledger[i].closedAt >= Cooldown
  BY <1>1 DEF CycleInv, CooldownRespected
<1>4. At(c) \in Nat /\ At(c) > 0
  BY CandleType
<1>5. CASE ~Exits(c)
  <2>1. LedgerAfterExit(c) = ledger /\ ClosedAtAfterExit(c) = lastTradeClosedAt
    BY <1>5 DEF LedgerAfterExit, ClosedAtAfterExit
  <2>2. openId = NoPosition
    BY <1>5
  <2>3. \A i \in 1 .. Len(ledger) : ledger[i].closedAt # Never
    BY <1>2, <2>2 DEF NoPosition
  <2>4. Len(ledger) > 0 => lastTradeClosedAt = ledger[Len(ledger)].closedAt
    BY <2>2 DEF CycleInv, LedgerFollowsBook
  <2> QED
    BY <1>1, <1>3, <2>1, <2>3, <2>4
<1>6. CASE Exits(c)
  <2> DEFINE L == LedgerAfterExit(c)
             last == [ledger[openId] EXCEPT !.closedAt = At(c)]
  <2>1. openId = Len(ledger) /\ openId \in 1 .. Len(ledger)
    BY <1>1, <1>6 DEF Exits, NoPosition, CycleInv, LedgerFollowsBook, TypeOK
  <2>2. /\ last \in Entry /\ last.closedAt = At(c)
        /\ last.openedAt = ledger[openId].openedAt
    BY <1>1, <1>4, <2>1
  <2>3. L = [ledger EXCEPT ![openId] = last] /\ ClosedAtAfterExit(c) = At(c)
    BY <1>6 DEF LedgerAfterExit, ClosedAtAfterExit
  <2> HIDE DEF L, last
  <2>4. L \in Seq(Entry) /\ Len(L) = Len(ledger)
    BY <1>1, <2>1, <2>2, <2>3
  <2>5. \A i \in 1 .. Len(ledger) : i # openId => L[i] = ledger[i]
    BY <1>1, <2>1, <2>3
  <2>6. L[openId] = last
    BY <1>1, <2>1, <2>3
  <2>7. \A i \in 1 .. Len(ledger) : L[i].closedAt # Never
    BY <1>2, <1>4, <2>2, <2>5, <2>6 DEF Never
  <2>8. \A i \in 1 .. Len(ledger) : i + 1 \in 1 .. Len(ledger) =>
          L[i + 1].openedAt - L[i].closedAt >= Cooldown
    <3> SUFFICES ASSUME NEW i \in 1 .. Len(ledger), i + 1 \in 1 .. Len(ledger)
                 PROVE  L[i + 1].openedAt - L[i].closedAt >= Cooldown
      OBVIOUS
    <3>0. i # openId
      <4>1. Len(ledger) \in Nat
        BY <1>1
      <4> QED
        BY <2>1, <4>1
    <3>1. L[i] = ledger[i]
      BY <2>5, <3>0
    <3>2. L[i + 1].openedAt = ledger[i + 1].openedAt
      BY <2>2, <2>5, <2>6
    <3> QED
      BY <1>3, <3>1, <3>2
  <2> QED
    BY <1>1, <1>4, <2>1, <2>2, <2>3, <2>4, <2>6, <2>7, <2>8 DEF L
<1> QED
  BY <1>5, <1>6

-----------------------------------------------------------------------------
(* The steps *)

\* A warm-up candle touches the clock and the day's counters only.
LEMMA WarmupStep ==
  ASSUME CycleInv, NEW c \in Candle, WarmupCandle(c)
  PROVE  CycleInv'
<1>1. At(c) \in Nat /\ c.day \in Nat
  BY CandleType
<1>2. TypeOK'
  BY <1>1 DEF WarmupCandle, Receive, TradesOn, LossOn, CycleInv, TypeOK
<1>3. (OnePosition /\ RiskPerTradeBounded /\ LedgerFollowsBook /\ CooldownRespected)'
  BY DEF WarmupCandle, CycleInv, OnePosition, RiskPerTradeBounded, LedgerFollowsBook,
         CooldownRespected
<1>4. DailyLossBounded'
  BY RiskAssumption DEF WarmupCandle, LossOn, CycleInv, DailyLossBounded
<1>5. OpenPositionCovered'
  BY RiskAssumption DEF WarmupCandle, LossOn, CycleInv, OpenPositionCovered
<1> QED
  BY <1>2, <1>3, <1>4, <1>5 DEF CycleInv

\* Marking the open position to the close keeps it within its stop-loss.
LEMMA HoldStep ==
  ASSUME CycleInv, NEW c \in Candle, WellFormed(c), HoldPosition(c)
  PROVE  CycleInv'
<1> DEFINE p == positions[openId]
           pnl == SignedPnl(p, c.close, p.quantity)
           marked == [p EXCEPT !.unrealized = pnl]
<1>1. At(c) \in Nat /\ c.day \in Nat
  BY CandleType
<1>2. /\ positions \in Seq(Position) /\ openId \in 1 .. Len(positions) /\ p \in Position
      /\ DOMAIN positions = 1 .. Len(positions)
  BY DEF HoldPosition, CycleInv, TypeOK, NoPosition
<1>3. pnl \in Int /\ pnl >= -RiskAmount
  BY OpenPnlWithinRisk DEF HoldPosition
<1>4. positions' = [positions EXCEPT ![openId] = marked]
  BY DEF HoldPosition, UpdateUnrealized
<1>5. UNCHANGED <<openId, stopLoss, target, lastTradeClosedAt, ledger>>
  BY DEF HoldPosition
<1> HIDE DEF pnl, p
<1>6. /\ marked \in Position /\ marked.unrealized = pnl /\ marked.realized = p.realized
      /\ marked.status = p.status /\ marked.quantity = p.quantity
      /\ marked.direction = p.direction /\ marked.entry = p.entry
  BY <1>2, <1>3 DEF Position
<1> HIDE DEF marked
<1>7. /\ positions' \in Seq(Position) /\ Len(positions') = Len(positions)
      /\ DOMAIN positions' = 1 .. Len(positions)
      /\ positions'[openId] = marked
      /\ \A i \in 1 .. Len(positions) : i # openId => positions'[i] = positions[i]
  BY <1>2, <1>4, <1>6
<1>8. TypeOK'
  BY <1>1, <1>5, <1>7 DEF HoldPosition, Receive, TradesOn, LossOn, CycleInv, TypeOK
<1>9. OnePosition'
  BY <1>2, <1>5, <1>6, <1>7 DEF CycleInv, OnePosition, p
<1>10. OpenPositionCovered'
  <2>1. Covered(marked, stopLoss, target)
    BY <1>2, <1>6 DEF CycleInv, OpenPositionCovered, Covered, NoPosition, p
  <2>2. realizedLossToday' < MaxDailyLoss
    BY RiskAssumption DEF HoldPosition, LossOn, CycleInv, OpenPositionCovered
  <2> QED
    BY <1>5, <1>7, <2>1, <2>2 DEF OpenPositionCovered
<1>11. RiskPerTradeBounded'
  BY <1>2, <1>3, <1>6, <1>7 DEF CycleInv, RiskPerTradeBounded, p
<1>12. DailyLossBounded'
  BY RiskAssumption DEF HoldPosition, LossOn, CycleInv, DailyLossBounded
<1>13. (LedgerFollowsBook /\ CooldownRespected)'
  BY <1>5, <1>7 DEF CycleInv, LedgerFollowsBook, CooldownRespected
<1> QED
  BY <1>8, <1>9, <1>10, <1>11, <1>12, <1>13 DEF CycleInv

\* A candle that finds or leaves no open position, whether or not it enters.
LEMMA FlatStep ==
  ASSUME CycleInv, NEW c \in Candle, WellFormed(c), FlatCandle(c)
  PROVE  CycleInv'
<1> DEFINE B == BookAfterExit(c)
           L == LedgerAfterExit(c)
           n == Len(positions)
           Entry == [openedAt : Nat, closedAt : Nat]
<1>1. openId = NoPosition \/ Exits(c)
  BY DEF FlatCandle
<1>2. /\ B \in Seq(Position) /\ Len(B) = n
      /\ \A i \in 1 .. n :
           /\ B[i].status = "CLOSED" /\ B[i].quantity = 0
           /\ B[i].realized >= -RiskAmount /\ B[i].unrealized >= -RiskAmount
  BY <1>1, ExitLeavesFlatBook
<1>3. /\ L \in Seq(Entry) /\ Len(L) = n
      /\ ClosedAtAfterExit(c) \in Nat
      /\ \A i \in 1 .. n : L[i].closedAt # Never
      /\ n > 0 => ClosedAtAfterExit(c) = L[n].closedAt
      /\ \A i \in 1 .. n : i + 1 \in 1 .. n => L[i + 1].openedAt - L[i].closedAt >= Cooldown
  BY <1>1, ExitLedger
<1>4. /\ LossAfterExit(c) \in Nat /\ LossAfterExit(c) < MaxDailyLoss + RiskAmount
      /\ TradesOn(c) \in Nat
  BY <1>1, ExitLoss DEF TradesOn, CycleInv, TypeOK
<1>5. n \in Nat /\ At(c) \in Nat /\ At(c) > 0 /\ c.day \in Nat
  BY CandleType DEF CycleInv, TypeOK
<1>6. /\ seen' \in Nat /\ now' \in Nat /\ currentDate' \in Nat
      /\ lastTradeClosedAt' = ClosedAtAfterExit(c)
      /\ realizedLossToday' = LossAfterExit(c)
  BY <1>5 DEF FlatCandle, Receive, CycleInv, TypeOK
<1> HIDE DEF B, L, Entry
<1>7. CASE ~Enters(c)
  <2>1. /\ positions' = B /\ openId' = NoPosition /\ ledger' = L
        /\ tradesTakenToday' = TradesOn(c) /\ UNCHANGED <<stopLoss, target>>
    BY <1>7 DEF FlatCandle, B, L
  <2>2. TypeOK'
    BY <1>2, <1>3, <1>4, <1>5, <1>6, <2>1 DEF CycleInv, TypeOK, NoPosition, Entry
  <2>3. (OnePosition /\ RiskPerTradeBounded)'
    BY <1>2, <1>5, <2>1 DEF OnePosition, RiskPerTradeBounded, NoPosition
  <2>4. (OpenPositionCovered /\ DailyLossBounded)'
    BY <1>4, <1>6, <2>1 DEF OpenPositionCovered, DailyLossBounded
  <2>5. (LedgerFollowsBook /\ CooldownRespected)'
    <3>1. DOMAIN L = 1 .. n
      BY <1>3, <1>5
    <3> QED
      BY <1>2, <1>3, <1>5, <1>6, <2>1, <3>1 DEF LedgerFollowsBook, CooldownRespected
  <2> QED
    BY <2>2, <2>3, <2>4, <2>5 DEF CycleInv
<1>8. CASE Enters(c)
  <2> DEFINE p == OpenPosition(c)
             e == [openedAt |-> At(c), closedAt |-> Never]
  <2>1. /\ positions' = Append(B, p) /\ openId' = n + 1 /\ ledger' = Append(L, e)
        /\ stopLoss' = CalculateStopLoss(c) /\ target' = CalculateTarget(c)
        /\ tradesTakenToday' = TradesOn(c) + 1
    BY <1>8 DEF FlatCandle, B, L
  <2>2. /\ c.signal # "NONE" /\ PositionSize(c) >= 1 /\ LossAfterExit(c) < MaxDailyLoss
        /\ CooldownComplete(c, ClosedAtAfterExit(c))
    BY <1>8 DEF Enters, Recommended, RiskOk, CanTrade
  <2>3. /\ p \in Position /\ stopLoss' \in Int /\ target' \in Int
        /\ Covered(p, stopLoss', target')
    BY <2>1, <2>2, EntryIsCovered
  <2>4. /\ p.status = "OPEN" /\ p.quantity >= 1
        /\ p.realized >= -RiskAmount /\ p.unrealized >= -RiskAmount
    BY <2>2, RiskAssumption DEF OpenPosition
  <2>5. e \in Entry /\ e.openedAt = At(c)
    BY <1>5 DEF Entry, Never
  <2> HIDE DEF p, e
  <2>6. /\ positions' \in Seq(Position) /\ Len(positions') = n + 1
        /\ DOMAIN positions' = 1 .. n + 1 /\ positions'[n + 1] = p
        /\ \A i \in 1 .. n : positions'[i] = B[i]
    BY <1>2, <1>5, <2>1, <2>3
  <2>7. /\ ledger' \in Seq(Entry) /\ Len(ledger') = n + 1
        /\ DOMAIN ledger' = 1 .. n + 1 /\ ledger'[n + 1] = e
        /\ \A i \in 1 .. n : ledger'[i] = L[i]
    BY <1>3, <1>5, <2>1, <2>5
  <2>8. TypeOK'
    <3>1. tradesTakenToday' \in Nat /\ openId' \in 0 .. Len(positions')
      BY <1>4, <1>5, <2>1, <2>6
    <3>2. ledger' \in Seq([openedAt : Nat, closedAt : Nat])
      BY <2>7 DEF Entry
    <3> QED
      BY <1>3, <1>4, <1>6, <2>3, <2>6, <3>1, <3>2 DEF TypeOK
  <2>9. (OnePosition /\ RiskPerTradeBounded)'
    BY <1>2, <1>5, <2>1, <2>4, <2>6 DEF OnePosition, RiskPerTradeBounded
  <2>10. (OpenPositionCovered /\ DailyLossBounded)'
    BY <1>4, <1>6, <2>1, <2>2, <2>3, <2>6 DEF OpenPositionCovered, DailyLossBounded
  <2>11. LedgerFollowsBook'
    BY <1>3, <1>5, <2>1, <2>6, <2>7 DEF LedgerFollowsBook, NoPosition
  <2>12. CooldownRespected'
    <3> SUFFICES ASSUME NEW i \in 1 .. n
                 PROVE  /\ ledger'[i].closedAt # Never
                        /\ ledger'[i + 1].openedAt - ledger'[i].closedAt >= Cooldown
      BY <1>5, <2>7 DEF CooldownRespected
    <3>1. CASE i = n
      <4>1. ClosedAtAfterExit(c) = L[n].closedAt /\ L[n].closedAt # Never
        BY <1>3, <1>5, <3>1
      <4>2. At(c) - L[n].closedAt >= Cooldown
        BY <2>2, <4>1 DEF CooldownComplete
      <4> QED
        BY <2>5, <2>7, <3>1, <4>1, <4>2
    <3>2. CASE i # n
      <4>1. i + 1 \in 1 .. n
        BY <1>5, <3>2
      <4> QED
        BY <1>3, <2>7, <4>1
    <3> QED
      BY <3>1, <3>2
  <2> QED
    BY <2>8, <2>9, <2>10, <2>11, <2>12 DEF CycleInv
<1> QED
  BY <1>7, <1>8

-----------------------------------------------------------------------------
(* Theorems *)

\* CycleInv holds in every reachable state, whatever the constants.
THEOREM CycleInvariant == Spec => []CycleInv
<1>1. Init => CycleInv
  BY RiskAssumption
     DEF Init, CycleInv, TypeOK, OnePosition, OpenPositionCovered, RiskPerTradeBounded,
         DailyLossBounded, LedgerFollowsBook, CooldownRespected, NoPosition, Never
<1>2. CycleInv /\ [Next]_vars => CycleInv'
  <2> SUFFICES ASSUME CycleInv, [Next]_vars PROVE CycleInv'
    OBVIOUS
  <2>1. ASSUME NEW c \in Candle, WellFormed(c), ProcessCandle(c) PROVE CycleInv'
    BY <2>1, WarmupStep, HoldStep, FlatStep DEF ProcessCandle
  <2>2. CASE UNCHANGED vars
    BY <2>2 DEF vars, CycleInv, TypeOK, OnePosition, OpenPositionCovered,
                RiskPerTradeBounded, DailyLossBounded, LedgerFollowsBook, CooldownRespected
  <2> QED
    BY <2>1, <2>2 DEF Next
<1> QED
  BY <1>1, <1>2, PTL DEF Spec

\* Every variable keeps its type.
THEOREM TypeCorrect == Spec => []TypeOK
BY CycleInvariant, PTL DEF CycleInv

\* The position the processor watches is the only one the book holds open.
THEOREM AtMostOnePosition == Spec => []OnePosition
BY CycleInvariant, PTL DEF CycleInv

\* No trade, open or closed, ever loses more than the risk per trade.
THEOREM RiskPerTradeHolds == Spec => []RiskPerTradeBounded
BY CycleInvariant, PTL DEF CycleInv

\* A day's realized loss overshoots its limit by less than one trade's risk.
THEOREM DailyLossHolds == Spec => []DailyLossBounded
BY CycleInvariant, PTL DEF CycleInv

\* Consecutive trades are at least the cooldown apart.
THEOREM CooldownHolds == Spec => []CooldownRespected
BY CycleInvariant, PTL DEF CycleInv

\* A closed trade's record is never rewritten and the book only grows.
THEOREM ClosedTradesStay == Spec => ClosedTradesFinal
<1> DEFINE Kept == \A i \in DOMAIN positions :
                     /\ i \in DOMAIN positions'
                     /\ positions[i].status = "CLOSED" => positions'[i] = positions[i]
<1>1. CycleInv /\ [Next]_vars => [Kept]_vars
  <2> SUFFICES ASSUME CycleInv, Next PROVE Kept
    OBVIOUS
  <2>1. positions \in Seq(Position) /\ DOMAIN positions = 1 .. Len(positions) /\ Len(positions) \in Nat
    BY DEF CycleInv, TypeOK
  <2>2. ASSUME NEW c \in Candle, WarmupCandle(c) PROVE Kept
    BY <2>2 DEF WarmupCandle
  <2>3. ASSUME NEW c \in Candle, HoldPosition(c) PROVE Kept
    <3>1. openId \in 1 .. Len(positions) /\ positions[openId].status = "OPEN"
      BY <2>1, <2>3 DEF HoldPosition, CycleInv, TypeOK, OnePosition, NoPosition
    <3> QED
      BY <2>1, <2>3, <3>1 DEF HoldPosition
  <2>4. ASSUME NEW c \in Candle, WellFormed(c), FlatCandle(c) PROVE Kept
    <3> DEFINE B == BookAfterExit(c)
    <3>1. /\ B \in Seq(Position) /\ Len(B) = Len(positions)
          /\ \A i \in 1 .. Len(positions) : positions[i].status = "CLOSED" => B[i] = positions[i]
      BY <2>4, ExitLeavesFlatBook DEF FlatCandle
    <3>2. positions' = B \/ positions' = Append(B, OpenPosition(c))
      BY <2>4 DEF FlatCandle
    <3> HIDE DEF B
    <3> QED
      BY <2>1, <3>1, <3>2
  <2> QED
    BY <2>2, <2>3, <2>4 DEF Next, ProcessCandle
<1> QED
  BY <1>1, CycleInvariant, PTL DEF Spec, ClosedTradesFinal

-----------------------------------------------------------------------------
(* Hours *)

\* A stamp gives back the day and the minute it was made of.
LEMMA StampParts ==
  ASSUME NEW c \in Candle
  PROVE  DayOf(At(c)) = c.day /\ MinuteOf(At(c)) = c.minute /\ c.minute < MinutesPerDay
<1>1. c.minute \in Minutes
  BY DEF Candle
<1>2. c.minute \in 0 .. MinutesPerDay - 1
  BY <1>1, ClockAssumption
<1>3. c.day \in Nat /\ c.minute \in 0 .. 1439
  BY <1>2, CandleType DEF MinutesPerDay
<1> DEFINE d == c.day
           m == c.minute
<1>4. d \in Nat /\ m \in 0 .. 1439
  BY <1>3
<1> HIDE DEF d, m
<1>5. (d * 1440 + m) \div 1440 = d /\ (d * 1440 + m) % 1440 = m
  BY <1>4, SMTT(30)
<1> QED
  BY <1>3, <1>5 DEF At, DayOf, MinuteOf, MinutesPerDay, d, m

\* What is left of a time after its days is a minute of the day.
LEMMA MinuteInDay ==
  ASSUME NEW time \in Nat
  PROVE  time % 1440 \in 0 .. 1439
BY SMTT(30)

HoursInv == CycleInv /\ EntryHours /\ FlatAfterClose

\* The exit check rewrites when a trade was closed, never when it was opened.
LEMMA ExitKeepsEntryTimes ==
  ASSUME CycleInv, NEW c \in Candle
  PROVE  /\ Len(LedgerAfterExit(c)) = Len(ledger)
         /\ DOMAIN LedgerAfterExit(c) = DOMAIN ledger
         /\ \A i \in DOMAIN ledger : LedgerAfterExit(c)[i].openedAt = ledger[i].openedAt
<1>1. ledger \in Seq([openedAt : Nat, closedAt : Nat])
  BY DEF CycleInv, TypeOK
<1> QED
  BY <1>1 DEF LedgerAfterExit

\* Every step keeps the hours: an entry is made on a candle CanTrade accepts,
\* and a position that outlives a candle is not at the close.
LEMMA HoursStep ==
  ASSUME HoursInv, NEW c \in Candle, WellFormed(c), ProcessCandle(c)
  PROVE  EntryHours' /\ FlatAfterClose'
<1>1. CycleInv /\ DOMAIN ledger = 1 .. Len(ledger) /\ Len(ledger) \in Nat
      /\ seen \in Nat /\ WarmupCandles \in Nat
  BY ClockAssumption DEF HoursInv, CycleInv, TypeOK
<1>2. /\ c.minute \in Nat /\ MarketClose \in Nat /\ NoTradeZone \in Nat
      /\ DayOf(At(c)) = c.day /\ MinuteOf(At(c)) = c.minute
  BY CandleType, StampParts, ClockAssumption
<1>3. CASE WarmupCandle(c)
  <2>1. EntryHours'
    BY <1>3 DEF HoursInv, WarmupCandle, EntryHours
  <2>2. seen' <= WarmupCandles
    BY <1>3 DEF WarmupCandle, Receive
  <2> QED
    BY <1>1, <2>1, <2>2, <1>3 DEF FlatAfterClose, WarmupCandle, Receive
<1>4. CASE HoldPosition(c)
  <2>1. EntryHours'
    BY <1>4 DEF HoursInv, HoldPosition, EntryHours
  <2>2. ~(MinuteOf(now') >= MarketClose)
    BY <1>2, <1>4 DEF HoldPosition, Receive, Exits
  <2> QED
    BY <2>1, <2>2 DEF FlatAfterClose
<1>5. CASE FlatCandle(c) /\ ~Enters(c)
  <2>1. ledger' = LedgerAfterExit(c) /\ openId' = NoPosition
    BY <1>5 DEF FlatCandle
  <2>2. EntryHours'
    BY <1>1, <2>1, ExitKeepsEntryTimes DEF HoursInv, EntryHours
  <2> QED
    BY <2>1, <2>2 DEF FlatAfterClose
<1>6. CASE FlatCandle(c) /\ Enters(c)
  <2> DEFINE L == LedgerAfterExit(c)
             e == [openedAt |-> At(c), closedAt |-> Never]
             n == Len(ledger)
  <2>1. ledger' = Append(L, e) /\ now' = At(c)
    BY <1>6 DEF FlatCandle, Receive
  <2>2. /\ c.day \notin Weekend /\ c.minute >= MarketOpen + OpeningRange
        /\ c.minute < MarketClose - NoTradeZone
    BY <1>6 DEF Enters, Recommended, CanTrade, SessionValid, WithinTradingWindow,
                OpeningRangeComplete
  <2>3. /\ L \in Seq([openedAt : Nat, closedAt : Nat]) /\ Len(L) = n /\ DOMAIN L = 1 .. n
        /\ \A i \in 1 .. n : L[i].openedAt = ledger[i].openedAt
    BY <1>1, <1>6, ExitLedger, ExitKeepsEntryTimes DEF FlatCandle, CycleInv, LedgerFollowsBook
  <2>4. e.openedAt = At(c)
    OBVIOUS
  <2> HIDE DEF L, e
  <2>5. /\ DOMAIN ledger' = 1 .. n + 1 /\ ledger'[n + 1] = e
        /\ \A i \in 1 .. n : ledger'[i] = L[i]
    BY <1>1, <2>1, <2>3
  <2>6. EntryHours'
    <3> SUFFICES ASSUME NEW i \in 1 .. n + 1
                 PROVE  LET minute == MinuteOf(ledger'[i].openedAt)
                        IN  /\ DayOf(ledger'[i].openedAt) \notin Weekend
                            /\ minute >= MarketOpen + OpeningRange
                            /\ minute < MarketClose - NoTradeZone
      BY <2>5 DEF EntryHours
    <3>1. CASE i = n + 1
      BY <1>2, <2>2, <2>4, <2>5, <3>1
    <3>2. CASE i # n + 1
      <4>1. i \in 1 .. n
        BY <1>1, <3>2
      <4> QED
        BY <1>1, <2>3, <2>5, <4>1 DEF HoursInv, EntryHours
    <3> QED
      BY <3>1, <3>2
  <2>7. ~(MinuteOf(now') >= MarketClose)
    BY <1>2, <2>1, <2>2
  <2> QED
    BY <2>6, <2>7 DEF FlatAfterClose
<1> QED
  BY <1>3, <1>4, <1>5, <1>6 DEF ProcessCandle

\* Entries fall on trading days and inside the window, a cooldown apart, and a
\* candle at or after the close leaves nothing open.
THEOREM HoursAreKept == Spec => []HoursKept
<1>1. Init => EntryHours /\ FlatAfterClose
  BY DEF Init, EntryHours, FlatAfterClose
<1>2. HoursInv /\ [Next]_vars => (EntryHours /\ FlatAfterClose)'
  <2> SUFFICES ASSUME HoursInv, [Next]_vars PROVE (EntryHours /\ FlatAfterClose)'
    OBVIOUS
  <2>1. CASE UNCHANGED vars
    BY <2>1 DEF vars, HoursInv, EntryHours, FlatAfterClose
  <2> QED
    BY <2>1, HoursStep DEF Next
<1>3. CycleInv /\ EntryHours /\ FlatAfterClose => HoursKept
  BY DEF CycleInv, HoursKept
<1> QED
  BY <1>1, <1>2, <1>3, CycleInvariant, PTL DEF Spec, HoursInv

\* On a host whose clock shows market time, a candle that leaves the session
\* without a position was no setup.
THEOREM SetupsAreTaken == HostLag = 0 => (Spec => SetupsTaken)
<1> SUFFICES ASSUME HostLag = 0 PROVE Spec => SetupsTaken
  OBVIOUS
<1> DEFINE Taken == openId' = NoPosition => ~\E c \in CandlesAt(now') : Setup(c) /\ FlatCandle(c)
<1>1. CycleInv /\ [Next]_vars => [Taken]_vars
  <2> SUFFICES ASSUME CycleInv, Next, openId' = NoPosition,
                      NEW c \in CandlesAt(now'), Setup(c), FlatCandle(c)
               PROVE  FALSE
    OBVIOUS
  <2>1. now' \in Nat
    BY CandleType DEF Next, ProcessCandle, WarmupCandle, HoldPosition, FlatCandle, Receive
  <2> DEFINE m == c.minute
  <2>2. m = now' % 1440
    BY DEF CandlesAt, MinuteOf, MinutesPerDay
  <2>3. m \in 0 .. 1439
    <3>1. PICK n \in Nat : n = now'
      BY <2>1
    <3> HIDE DEF m
    <3>2. m = n % 1440
      BY <2>2, <3>1
    <3> QED
      BY <3>2, MinuteInDay
  <2>4. (c.minute + HostLag) % MinutesPerDay = c.minute
    <3>1. (m + 0) % 1440 = m
      <4> HIDE DEF m
      <4> QED
        BY <2>3
    <3> QED
      BY <3>1 DEF MinutesPerDay
  <2>5. /\ MarketOpen + OpeningRange <= c.minute /\ c.minute < MarketClose - NoTradeZone
        /\ c.day \notin Weekend
    BY DEF Setup
  <2>6. MarketOpen \in Nat /\ MarketClose \in Nat /\ OpeningRange \in Nat /\ NoTradeZone \in Nat
    BY ClockAssumption
  <2>7. m \in MarketOpen .. MarketClose
    <3> HIDE DEF m
    <3>1. MarketOpen + OpeningRange <= m /\ m < MarketClose - NoTradeZone
      BY <2>5 DEF m
    <3> QED
      BY <2>3, <2>6, <3>1
  <2>8. CanTrade(c, ClosedAtAfterExit(c))
    BY <2>4, <2>5, <2>7 DEF Setup, CanTrade, SessionValid, SessionOpen, WithinTradingWindow,
                            OpeningRangeComplete
  <2>9. Enters(c)
    BY <2>8 DEF Setup, Enters, Recommended
  <2>10. openId' = Len(positions) + 1 /\ Len(positions) \in Nat
    BY <2>9 DEF FlatCandle, CycleInv, TypeOK
  <2> QED
    BY <2>10 DEF NoPosition
<1> QED
  BY <1>1, CycleInvariant, PTL DEF Spec, SetupsTaken

-----------------------------------------------------------------------------
(* The cycle implements TradingPromise *)

\* The processor's date never runs ahead of the candles it has seen.
DateFollowsClock == now >= currentDate * 1440

\* The date the day's counters belong to is never ahead of the candles seen, on every run.
THEOREM DateFollows == Spec => [](TypeOK /\ DateFollowsClock)
<1>1. Init => DateFollowsClock
  BY DEF Init, DateFollowsClock
<1>2. TypeOK /\ DateFollowsClock /\ [Next]_vars => DateFollowsClock'
  <2> SUFFICES ASSUME TypeOK, DateFollowsClock, [Next]_vars PROVE DateFollowsClock'
    OBVIOUS
  <2>1. ASSUME NEW c \in Candle, Receive(c) PROVE DateFollowsClock'
    <3>1. c.day \in Nat /\ c.minute \in Nat /\ At(c) = c.day * 1440 + c.minute
      BY CandleType DEF At, MinutesPerDay
    <3>2. now' = At(c) /\ currentDate' = c.day
      BY <2>1 DEF Receive
    <3> QED
      BY <3>1, <3>2 DEF DateFollowsClock
  <2>2. CASE UNCHANGED vars
    BY <2>2 DEF vars, DateFollowsClock
  <2> QED
    BY <2>1, <2>2 DEF Next, ProcessCandle, WarmupCandle, HoldPosition, FlatCandle
<1> QED
  BY <1>1, <1>2, TypeCorrect, PTL DEF Spec

\* A candle never belongs to an earlier day than the processor's date.
LEMMA DayAdvances ==
  ASSUME TypeOK, DateFollowsClock, NEW c \in Candle, Receive(c)
  PROVE  currentDate' = c.day /\ currentDate' \in Nat /\ currentDate' >= currentDate
<1>1. c.day \in Nat /\ c.minute \in 0 .. 1439 /\ At(c) = c.day * 1440 + c.minute
  <2>1. c.minute \in Minutes
    BY DEF Candle
  <2>2. c.minute \in 0 .. 1439
    <3>1. c.minute \in 0 .. MinutesPerDay - 1
      BY <2>1, ClockAssumption
    <3> QED
      BY <3>1 DEF MinutesPerDay
  <2> QED
    BY <2>2, CandleType DEF At, MinutesPerDay
<1>2. now' = At(c) /\ currentDate' = c.day /\ At(c) > now
  BY DEF Receive
<1>3. currentDate \in Nat /\ now \in Nat
  BY DEF TypeOK
<1>4. c.day * 1440 + 1439 > currentDate * 1440
  <2> DEFINE d == c.day
             m == c.minute
  <2>0. d \in Nat /\ m \in 0 .. 1439 /\ At(c) = d * 1440 + m
    BY <1>1
  <2> HIDE DEF d, m
  <2>1. At(c) \in Nat /\ At(c) <= d * 1440 + 1439
    BY <2>0
  <2>2. now >= currentDate * 1440
    BY DEF DateFollowsClock
  <2> QED
    BY <1>2, <1>3, <2>0, <2>1, <2>2 DEF d
<1> QED
  BY <1>1, <1>2, <1>3, <1>4

\* Whatever the constants, every behaviour of the cycle is, seen through the
\* open position and the day's counters, a behaviour of TradingPromise.
THEOREM CycleKeepsPromise == Spec => KeepsPromise
<1>1. Init => Promised!Begin
  BY DEF Init, Promised!Begin
<1>2. CycleInv /\ DateFollowsClock /\ [Next]_vars => [Promised!Advance]_(Promised!promise)
  <2> SUFFICES ASSUME CycleInv, DateFollowsClock, [Next]_vars
               PROVE  [Promised!Advance]_(Promised!promise)
    OBVIOUS
  <2> USE DEF Promised!Advance, Promised!Entries, Promised!Loss
  <2>0. TypeOK
    BY DEF CycleInv
  <2>1. ASSUME NEW c \in Candle, WarmupCandle(c) PROVE Promised!Advance
    <3>1. currentDate' = c.day /\ currentDate' >= currentDate
      BY <2>0, <2>1, DayAdvances DEF WarmupCandle
    <3> QED
      BY <2>1, <3>1 DEF WarmupCandle, TradesOn, LossOn, Promised!Idle
  <2>2. ASSUME NEW c \in Candle, HoldPosition(c) PROVE Promised!Advance
    <3>1. currentDate' = c.day /\ currentDate' >= currentDate
      BY <2>0, <2>2, DayAdvances DEF HoldPosition
    <3> QED
      BY <2>2, <3>1 DEF HoldPosition, TradesOn, LossOn, Promised!Idle
  <2>3. ASSUME NEW c \in Candle, WellFormed(c), FlatCandle(c) PROVE Promised!Advance
    <3>1. currentDate' = c.day /\ currentDate' >= currentDate
      BY <2>0, <2>3, DayAdvances DEF FlatCandle
    <3>2. /\ LossOn(c) \in Nat /\ LossAfterExit(c) \in Nat
          /\ LossOn(c) <= LossAfterExit(c) /\ LossAfterExit(c) <= LossOn(c) + RiskAmount
          /\ ~Exits(c) => LossAfterExit(c) = LossOn(c)
      BY <2>3, ExitLoss DEF FlatCandle
    <3>3. /\ TradesOn(c) = IF currentDate' = currentDate THEN tradesTakenToday ELSE 0
          /\ LossOn(c) = IF currentDate' = currentDate THEN realizedLossToday ELSE 0
      BY <3>1 DEF TradesOn, LossOn
    <3>4. CASE Exits(c)
      <4>1. openId # NoPosition /\ openId' = NoPosition /\ tradesTakenToday' = TradesOn(c)
        BY <2>3, <3>4, NoTurnAround DEF FlatCandle, Exits
      <4>2. realizedLossToday' \in LossOn(c) .. LossOn(c) + RiskAmount
        BY <2>3, <3>2, RiskAssumption DEF FlatCandle
      <4> QED
        BY <3>1, <3>3, <4>1, <4>2 DEF Promised!Close
    <3>5. CASE ~Exits(c) /\ Enters(c)
      <4>1. openId = NoPosition /\ openId' # NoPosition /\ tradesTakenToday' = TradesOn(c) + 1
        BY <2>0, <2>3, <3>5 DEF FlatCandle, NoPosition, TypeOK
      <4>2. realizedLossToday' = LossOn(c) /\ LossOn(c) < MaxDailyLoss /\ TradesOn(c) < MaxTradesPerDay
        BY <2>3, <3>2, <3>5 DEF FlatCandle, Enters, Recommended, RiskOk
      <4> QED
        BY <3>1, <3>3, <4>1, <4>2 DEF Promised!Open
    <3>6. CASE ~Exits(c) /\ ~Enters(c)
      <4>1. openId = NoPosition /\ openId' = NoPosition
        BY <2>3, <3>6 DEF FlatCandle
      <4>2. tradesTakenToday' = TradesOn(c) /\ realizedLossToday' = LossOn(c)
        BY <2>3, <3>2, <3>6 DEF FlatCandle
      <4> QED
        BY <3>1, <3>3, <4>1, <4>2 DEF Promised!Idle
    <3> QED
      BY <3>4, <3>5, <3>6
  <2>4. CASE UNCHANGED vars
    BY <2>4 DEF vars, Promised!promise
  <2> QED
    BY <2>1, <2>2, <2>3, <2>4 DEF Next, ProcessCandle
<1> QED
  BY <1>1, <1>2, CycleInvariant, DateFollows, PTL DEF Spec, KeepsPromise, Promised!Promise

-----------------------------------------------------------------------------
(* Sequences *)

\* Replacing one element of a sequence leaves the others and the length alone.
LEMMA ReplaceOne ==
  ASSUME NEW S, NEW s \in Seq(S), NEW i \in 1 .. Len(s), NEW x \in S
  PROVE  LET t == [s EXCEPT ![i] = x]
         IN  /\ t \in Seq(S) /\ Len(t) = Len(s) /\ DOMAIN t = 1 .. Len(s)
             /\ t[i] = x
             /\ \A j \in 1 .. Len(s) : j # i => t[j] = s[j]
OBVIOUS

\* Appending puts one element after all the others.
LEMMA AppendOne ==
  ASSUME NEW S, NEW s \in Seq(S), NEW x \in S
  PROVE  LET t == Append(s, x)
         IN  /\ t \in Seq(S) /\ Len(t) = Len(s) + 1 /\ DOMAIN t = 1 .. Len(s) + 1
             /\ t[Len(s) + 1] = x
             /\ \A j \in 1 .. Len(s) : t[j] = s[j]
OBVIOUS

-----------------------------------------------------------------------------
(* What a candle does to the book *)

\* The ledger's times run with the clock, and the book is empty while warming up.
BookTimes ==
  /\ DayOf(now) = currentDate
  /\ seen <= WarmupCandles => positions = <<>>
  /\ \A i \in DOMAIN ledger : ledger[i].openedAt <= now /\ ledger[i].closedAt <= now
  /\ openId # NoPosition => ledger[openId].closedAt = Never

BookInv == CycleInv /\ BookTimes

Untouched(c) ==
  /\ openId = NoPosition /\ openId' = NoPosition
  /\ positions' = positions /\ ledger' = ledger
  /\ tradesTakenToday' = TradesOn(c) /\ realizedLossToday' = LossOn(c)

Remarked(c) ==
  /\ openId # NoPosition /\ openId' = openId
  /\ ledger' = ledger /\ stopLoss' = stopLoss /\ target' = target
  /\ Len(positions') = Len(positions) /\ DOMAIN positions' = DOMAIN positions
  /\ \A i \in DOMAIN positions :
       /\ positions'[i].realized = positions[i].realized
       /\ positions'[i].status = positions[i].status
       /\ positions'[i].direction = positions[i].direction
       /\ positions'[i].quantity = positions[i].quantity
       /\ positions'[i].entry = positions[i].entry
       /\ positions'[i].initialQuantity = positions[i].initialQuantity
  /\ tradesTakenToday' = TradesOn(c) /\ realizedLossToday' = LossOn(c)

\* The newest position closes and realizes what the exit brings.
Closed(c) ==
  LET n == Len(positions)
  IN  /\ openId = n /\ n \in DOMAIN positions /\ openId' = NoPosition
      /\ Len(positions') = n /\ DOMAIN positions' = DOMAIN positions
      /\ \A i \in DOMAIN positions : i # n => positions'[i] = positions[i]
      /\ positions[n].status = "OPEN" /\ positions'[n].status = "CLOSED"
      /\ positions[n].realized = 0 /\ positions'[n].realized = RealizedThisExit(c)
      /\ RealizedThisExit(c) \in Int
      /\ positions'[n].direction = positions[n].direction
      /\ positions'[n].entry = positions[n].entry
      /\ positions'[n].initialQuantity = positions[n].initialQuantity
      /\ Len(ledger') = n /\ DOMAIN ledger' = DOMAIN ledger
      /\ \A i \in DOMAIN ledger : i # n => ledger'[i] = ledger[i]
      /\ ledger'[n].openedAt = ledger[n].openedAt /\ ledger'[n].closedAt = At(c)
      /\ tradesTakenToday' = TradesOn(c)
      /\ realizedLossToday' = LossAfterExit(c)

Opened(c) ==
  LET n == Len(positions)
  IN  /\ openId = NoPosition /\ openId' = n + 1
      /\ Len(positions') = n + 1 /\ DOMAIN positions' = 1 .. n + 1
      /\ \A i \in DOMAIN positions : positions'[i] = positions[i]
      /\ positions'[n + 1] = OpenPosition(c)
      /\ Len(ledger') = n + 1 /\ DOMAIN ledger' = 1 .. n + 1
      /\ \A i \in DOMAIN ledger : ledger'[i] = ledger[i]
      /\ ledger'[n + 1] = [openedAt |-> At(c), closedAt |-> Never]
      /\ stopLoss' = CalculateStopLoss(c) /\ target' = CalculateTarget(c)
      /\ c.signal # "NONE" /\ RiskOk(c, LossAfterExit(c), TradesOn(c))
      /\ seen' > WarmupCandles
      /\ tradesTakenToday' = TradesOn(c) + 1 /\ realizedLossToday' = LossOn(c)

\* Every candle moves the clock and does one of the four to the book.
LEMMA BookStep ==
  ASSUME BookInv, NEW c \in Candle, WellFormed(c), ProcessCandle(c)
  PROVE  /\ seen' = seen + 1 /\ now' = At(c) /\ currentDate' = c.day
         /\ At(c) > now /\ DayOf(At(c)) = c.day
         /\ Untouched(c) \/ Remarked(c) \/ Closed(c) \/ Opened(c)
<1> DEFINE n == Len(positions)
           Entry == [openedAt : Nat, closedAt : Nat]
<1>1. /\ CycleInv /\ positions \in Seq(Position) /\ n = Len(positions) /\ n \in Nat /\ DOMAIN positions = 1 .. n
      /\ ledger \in Seq(Entry) /\ Len(ledger) = n /\ DOMAIN ledger = 1 .. n
      /\ openId \in 0 .. n /\ seen \in Nat
      /\ openId # NoPosition => openId = n /\ n \in 1 .. n
  BY DEF BookInv, CycleInv, TypeOK, LedgerFollowsBook, NoPosition
<1> HIDE DEF Entry, n
<1>2. /\ seen' = seen + 1 /\ now' = At(c) /\ currentDate' = c.day
      /\ At(c) > now /\ DayOf(At(c)) = c.day
  BY StampParts DEF ProcessCandle, WarmupCandle, HoldPosition, FlatCandle, Receive
<1>3. CASE WarmupCandle(c)
  <2>1. seen <= WarmupCandles
    <3>1. WarmupCandles \in Nat /\ seen + 1 <= WarmupCandles
      BY <1>3, ClockAssumption DEF WarmupCandle
    <3>2. seen \in Nat
      BY <1>1
    <3> QED
      BY <3>1, <3>2
  <2>2. n = 0
    BY <1>1, <2>1 DEF BookInv, BookTimes
  <2>3. openId = NoPosition
    BY <1>1, <2>2 DEF NoPosition
  <2> QED
    BY <1>2, <1>3, <2>3 DEF WarmupCandle, Untouched
<1>4. CASE HoldPosition(c)
  <2> DEFINE p == positions[n]
             pnl == SignedPnl(p, c.close, p.quantity)
             marked == [p EXCEPT !.unrealized = pnl]
  <2>1. openId = n /\ n \in 1 .. n /\ openId # NoPosition
    BY <1>1, <1>4 DEF HoldPosition
  <2>2. p \in Position
    BY <1>1, <2>1
  <2>3. positions' = [positions EXCEPT ![n] = marked]
    BY <1>4, <2>1 DEF HoldPosition, UpdateUnrealized
  <2>10. pnl \in Int
    BY <1>1, <1>4, <2>1, OpenPnlWithinRisk DEF HoldPosition
  <2> HIDE DEF p, pnl
  <2>4. /\ marked \in Position /\ marked.realized = p.realized /\ marked.status = p.status
        /\ marked.direction = p.direction /\ marked.quantity = p.quantity
        /\ marked.entry = p.entry /\ marked.initialQuantity = p.initialQuantity
    BY <2>2, <2>10 DEF Position
  <2> HIDE DEF marked
  <2>5. /\ Len(positions') = n /\ DOMAIN positions' = 1 .. n
        /\ positions'[n] = marked
        /\ \A i \in 1 .. n : i # n => positions'[i] = positions[i]
    BY <1>1, <2>1, <2>3, <2>4, ReplaceOne
  <2>6. \A i \in 1 .. n :
          /\ positions'[i].realized = positions[i].realized
          /\ positions'[i].status = positions[i].status
          /\ positions'[i].direction = positions[i].direction
          /\ positions'[i].quantity = positions[i].quantity
          /\ positions'[i].entry = positions[i].entry
          /\ positions'[i].initialQuantity = positions[i].initialQuantity
    BY <2>4, <2>5 DEF p
  <2> QED
    BY <1>1, <1>2, <1>4, <2>1, <2>5, <2>6 DEF HoldPosition, Remarked, n
<1>5. CASE FlatCandle(c) /\ Exits(c)
  <2> DEFINE p == positions[n]
             pnl == SignedPnl(p, ExitPrice(c), p.quantity)
             closed == ExitPosition(p, ExitPrice(c))
             last == [ledger[n] EXCEPT !.closedAt = At(c)]
  <2>1. openId = n /\ n \in 1 .. n /\ openId # NoPosition
    BY <1>1, <1>5 DEF Exits
  <2>2. p \in Position /\ p.realized = 0 /\ p.status = "OPEN"
    BY <1>1, <2>1 DEF CycleInv, OnePosition, OpenPositionCovered, Covered
  <2>3. RealizedThisExit(c) = pnl
    BY <1>5, <2>1 DEF RealizedThisExit
  <2>4. pnl \in Int
    BY <1>1, <1>5, <2>1, OpenPnlWithinRisk
  <2>5. BookAfterExit(c) = [positions EXCEPT ![n] = closed]
    BY <1>5, <2>1 DEF BookAfterExit
  <2>6. LedgerAfterExit(c) = [ledger EXCEPT ![n] = last]
    BY <1>5, <2>1 DEF LedgerAfterExit
  <2> HIDE DEF pnl
  <2>7. /\ closed \in Position /\ closed.realized = pnl /\ closed.status = "CLOSED"
        /\ closed.direction = p.direction /\ closed.entry = p.entry
        /\ closed.initialQuantity = p.initialQuantity
    <3> HIDE DEF p
    <3>1. p.realized + pnl = pnl
      BY <2>2, <2>4
    <3>2. closed = [p EXCEPT !.quantity = 0, !.realized = p.realized + pnl,
                             !.unrealized = 0, !.status = "CLOSED"]
      BY DEF ExitPosition, pnl
    <3>3. closed = [p EXCEPT !.quantity = 0, !.realized = pnl,
                             !.unrealized = 0, !.status = "CLOSED"]
      BY <3>1, <3>2
    <3> HIDE DEF closed
    <3> QED
      BY <2>2, <2>4, <3>3, ExitedRecord
  <2>8. last \in Entry /\ last.openedAt = ledger[n].openedAt /\ last.closedAt = At(c)
    <3>1. At(c) \in Nat
      BY CandleType
    <3>2. ledger[n] \in Entry
      BY <1>1, <2>1
    <3> QED
      BY <3>1, <3>2 DEF Entry
  <2>9. /\ positions' = BookAfterExit(c) /\ openId' = NoPosition /\ ledger' = LedgerAfterExit(c)
        /\ tradesTakenToday' = TradesOn(c) /\ realizedLossToday' = LossAfterExit(c)
    BY <1>5, NoTurnAround DEF FlatCandle
  <2> HIDE DEF p, closed, last
  <2>11. /\ Len(positions') = n /\ DOMAIN positions' = 1 .. n /\ positions'[n] = closed
         /\ \A i \in 1 .. n : i # n => positions'[i] = positions[i]
    BY <1>1, <2>1, <2>5, <2>7, <2>9, ReplaceOne
  <2>12. /\ Len(ledger') = n /\ DOMAIN ledger' = 1 .. n /\ ledger'[n] = last
         /\ \A i \in 1 .. n : i # n => ledger'[i] = ledger[i]
    BY <1>1, <2>1, <2>6, <2>8, <2>9, ReplaceOne
  <2> QED
    BY <1>1, <1>2, <2>1, <2>2, <2>3, <2>4, <2>7, <2>8, <2>9, <2>11, <2>12 DEF Closed, p, n
<1>6. CASE FlatCandle(c) /\ ~Exits(c)
  <2>1. /\ openId = NoPosition /\ BookAfterExit(c) = positions /\ LedgerAfterExit(c) = ledger
        /\ LossAfterExit(c) = LossOn(c)
    BY <1>1, <1>6, ExitLoss DEF FlatCandle, BookAfterExit, LedgerAfterExit
  <2>2. CASE ~Enters(c)
    BY <1>2, <1>6, <2>1, <2>2 DEF FlatCandle, Untouched
  <2>3. CASE Enters(c)
    <3> DEFINE p == OpenPosition(c)
               e == [openedAt |-> At(c), closedAt |-> Never]
    <3>1. /\ positions' = Append(positions, p) /\ ledger' = Append(ledger, e)
          /\ openId' = n + 1
          /\ stopLoss' = CalculateStopLoss(c) /\ target' = CalculateTarget(c)
          /\ tradesTakenToday' = TradesOn(c) + 1 /\ realizedLossToday' = LossOn(c)
      BY <1>6, <2>1, <2>3 DEF FlatCandle, n
    <3>2. c.signal # "NONE" /\ RiskOk(c, LossAfterExit(c), TradesOn(c))
      BY <2>3 DEF Enters, Recommended
    <3>3. seen' > WarmupCandles
      BY <1>2, <1>6 DEF FlatCandle
    <3>6. p \in Position
      BY <3>2, EntryIsCovered DEF RiskOk
    <3>7. e \in Entry
      BY CandleType DEF Never, Entry
    <3> HIDE DEF p, e
    <3>4. /\ Len(positions') = n + 1 /\ DOMAIN positions' = 1 .. n + 1
          /\ positions'[n + 1] = p /\ \A i \in 1 .. n : positions'[i] = positions[i]
      BY <1>1, <3>1, <3>6, AppendOne
    <3>5. /\ Len(ledger') = n + 1 /\ DOMAIN ledger' = 1 .. n + 1
          /\ ledger'[n + 1] = e /\ \A i \in 1 .. n : ledger'[i] = ledger[i]
      BY <1>1, <3>1, <3>7, AppendOne
    <3> QED
      BY <1>1, <1>2, <2>1, <3>1, <3>2, <3>3, <3>4, <3>5 DEF Opened, p, e, n
  <2> QED
    BY <2>2, <2>3
<1> QED
  BY <1>2, <1>3, <1>4, <1>5, <1>6 DEF ProcessCandle

\* The facts about the book and the clock that every later proof starts from.
LEMMA BookFacts ==
  ASSUME BookInv
  PROVE  /\ positions \in Seq(Position) /\ Len(positions) \in Nat
         /\ DOMAIN positions = 1 .. Len(positions)
         /\ \A i \in DOMAIN positions :
              positions[i] \in Position /\ positions[i].realized \in Int
              /\ positions[i].unrealized \in Int
         /\ Len(ledger) = Len(positions) /\ DOMAIN ledger = DOMAIN positions
         /\ \A i \in DOMAIN ledger : ledger[i].openedAt \in Nat /\ ledger[i].closedAt \in Nat
         /\ openId \in 0 .. Len(positions)
         /\ seen \in Nat /\ now \in Nat /\ currentDate \in Nat
         /\ tradesTakenToday \in Nat /\ realizedLossToday \in Nat
<1> DEFINE Entry == [openedAt : Nat, closedAt : Nat]
<1>1. positions \in Seq(Position) /\ ledger \in Seq(Entry) /\ Len(ledger) = Len(positions)
  BY DEF BookInv, CycleInv, TypeOK, LedgerFollowsBook
<1>2. \A e \in Entry : e.openedAt \in Nat /\ e.closedAt \in Nat
  OBVIOUS
<1>3. \A q \in Position : q.realized \in Int /\ q.unrealized \in Int
  BY DEF Position
<1> HIDE DEF Entry
<1> QED
  BY <1>1, <1>2, <1>3 DEF BookInv, CycleInv, TypeOK

\* The same of the book a step leaves.
LEMMA BookAfter ==
  ASSUME BookInv'
  PROVE  /\ Len(positions') \in Nat /\ DOMAIN positions' = 1 .. Len(positions')
         /\ \A i \in DOMAIN positions' :
              positions'[i].realized \in Int /\ positions'[i].unrealized \in Int
<1>1. positions' \in Seq(Position)
  BY DEF BookInv, CycleInv, TypeOK
<1>2. \A q \in Position : q.realized \in Int /\ q.unrealized \in Int
  BY DEF Position
<1> QED
  BY <1>1, <1>2

\* Every candle keeps the times of the ledger in step with the clock.
LEMMA BookTimesStep ==
  ASSUME BookInv, NEW c \in Candle, WellFormed(c), ProcessCandle(c)
  PROVE  BookTimes'
<1> DEFINE n == Len(positions)
<1>1. /\ n \in Nat /\ DOMAIN positions = 1 .. n /\ DOMAIN ledger = 1 .. n
      /\ openId \in 0 .. n /\ seen \in Nat /\ now \in Nat
      /\ \A i \in 1 .. n : ledger[i].openedAt \in Nat /\ ledger[i].closedAt \in Nat
  BY BookFacts
<1>2. /\ seen' = seen + 1 /\ now' = At(c) /\ currentDate' = c.day
      /\ At(c) > now /\ DayOf(At(c)) = c.day
      /\ Untouched(c) \/ Remarked(c) \/ Closed(c) \/ Opened(c)
  BY BookStep
<1>3. At(c) \in Nat /\ WarmupCandles \in Nat
  BY CandleType, ClockAssumption
<1>4. DayOf(now') = currentDate'
  BY <1>2
<1>5. \A i \in 1 .. n : ledger[i].openedAt <= At(c) /\ ledger[i].closedAt <= At(c)
  BY <1>1, <1>2, <1>3 DEF BookInv, BookTimes
<1>6. openId # NoPosition => seen > WarmupCandles
  BY <1>1, <1>3 DEF BookInv, BookTimes, NoPosition
<1>7. CASE Untouched(c)
  BY <1>1, <1>2, <1>3, <1>4, <1>5, <1>7 DEF Untouched, BookTimes, BookInv
<1>8. CASE Remarked(c)
  BY <1>1, <1>2, <1>3, <1>4, <1>5, <1>6, <1>8 DEF Remarked, BookTimes, BookInv
<1>9. CASE Closed(c)
  <2>1. \A i \in 1 .. n : ledger'[i].openedAt <= At(c) /\ ledger'[i].closedAt <= At(c)
    BY <1>1, <1>3, <1>5, <1>9 DEF Closed
  <2> QED
    BY <1>1, <1>2, <1>3, <1>4, <1>6, <1>9, <2>1 DEF Closed, BookTimes, NoPosition
<1>10. CASE Opened(c)
  <2>1. \A i \in 1 .. n + 1 : ledger'[i].openedAt <= At(c) /\ ledger'[i].closedAt <= At(c)
    <3>1. /\ ledger'[n + 1] = [openedAt |-> At(c), closedAt |-> 0]
          /\ \A i \in 1 .. n : ledger'[i] = ledger[i]
      BY <1>1, <1>10 DEF Opened, Never
    <3>2. ledger'[n + 1].openedAt <= At(c) /\ ledger'[n + 1].closedAt <= At(c)
      BY <1>3, <3>1
    <3>3. \A i \in 1 .. n + 1 : i = n + 1 \/ i \in 1 .. n
      BY <1>1
    <3> QED
      BY <1>5, <3>1, <3>2, <3>3
  <2> QED
    BY <1>1, <1>2, <1>3, <1>4, <1>10, <2>1 DEF Opened, BookTimes
<1> QED
  BY <1>2, <1>7, <1>8, <1>9, <1>10

\* The book, its ledger and the clock stay in step on every candle of every run.
THEOREM BookInvariant == Spec => []BookInv
<1>1. Init => BookTimes
  BY DEF Init, BookTimes, DayOf, MinutesPerDay, NoPosition
<1>2. BookInv /\ [Next]_vars => BookTimes'
  <2> SUFFICES ASSUME BookInv, [Next]_vars PROVE BookTimes'
    OBVIOUS
  <2>1. CASE UNCHANGED vars
    BY <2>1 DEF vars, BookInv, BookTimes, DayOf
  <2> QED
    BY <2>1, BookTimesStep DEF Next
<1> QED
  BY <1>1, <1>2, CycleInvariant, PTL DEF Spec, BookInv

=============================================================================
