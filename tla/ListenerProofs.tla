--------------------------- MODULE ListenerProofs ---------------------------
(***************************************************************************)
(* Proofs about what listens to the trading cycle: the paper account with  *)
(* its monitors (PaperAccount), and the signal engine (SignalEngine).      *)
(* What their invariants say of the figures, the dummy trades, the alerts  *)
(* and the reports holds for every value of the constants.  As in          *)
(* TradeCycleProofs, a candle leaves the book as it was, re-marks the open *)
(* position, closes it or opens one (BookStep); everything kept beside the *)
(* book is followed through these four.  The signal engine hears of the    *)
(* last two only, and of no candle that does both.                         *)
(***************************************************************************)
EXTENDS PaperAccount, SignalEngine, TradeCycleProofs, SumLemmas

-----------------------------------------------------------------------------
(* PaperAccount: the cycle inside *)

\* A step of the account is a step of the cycle, so that everything proved of
\* the cycle holds of the account.
THEOREM AccountRunsCycle == AccountSpec => Spec
<1>1. AccountInit => Init
  BY DEF AccountInit
<1>2. [AccountNext]_<<vars, account>> => [Next]_vars
  <2>1. AccountNext => Next
    BY DEF AccountNext, Next
  <2>2. UNCHANGED <<vars, account>> => UNCHANGED vars
    OBVIOUS
  <2> QED
    BY <2>1, <2>2
<1> QED
  BY <1>1, <1>2, PTL DEF AccountSpec, Spec

-----------------------------------------------------------------------------
(* Cash and the daily counters *)

\* Of the four, only an exit closes a position.
LEMMA WhatCloses ==
  ASSUME BookInv, NEW c \in Candle
  PROVE  /\ Untouched(c) \/ Remarked(c) \/ Opened(c) => JustClosed = {}
         /\ Closed(c) => JustClosed = {Len(positions)}
BY BookFacts DEF JustClosed, Untouched, Remarked, Opened, Closed

Realized == [i \in DOMAIN positions |-> positions[i].realized]

LossOf == [i \in DOMAIN positions |-> Larger(0, -positions[i].realized)]

OpenedOn(day) == {i \in DOMAIN ledger : DayOf(ledger[i].openedAt) = day}

\* A sum over some of the positions, whichever way it is written.
LEMMA LossesOfSome ==
  ASSUME NEW book, NEW n \in Nat, DOMAIN book = 1 .. n, NEW K \in SUBSET (1 .. n)
  PROVE  /\ IsFiniteSet(K)
         /\ SumOver([i \in K |-> Larger(0, -book[i].realized)])
              = SumOn([i \in DOMAIN book |-> Larger(0, -book[i].realized)], K)
<1> DEFINE f == [i \in K |-> Larger(0, -book[i].realized)]
           g == [i \in DOMAIN book |-> Larger(0, -book[i].realized)]
<1>1. SumOver(f) = SumOn(f, K)
  BY DEF SumOver, FoldFunction, SumOn
<1>2. IsFiniteSet(K)
  <2>1. IsFiniteSet(1 .. n)
    BY FS_Interval
  <2> QED
    BY <2>1, FS_Subset
<1>3. \A i \in K : f[i] = g[i]
  OBVIOUS
<1> HIDE DEF f, g
<1>4. SumOn(f, K) = SumOn(g, K)
  BY <1>2, <1>3, SumOnSame
<1> QED
  BY <1>1, <1>2, <1>4 DEF f, g

\* The counters as sums over index sets, before a step and after it.
LEMMA CountersAsSums ==
  ASSUME BookInv
  PROVE  /\ CashReconciles <=> cash = InitialCash + SumOn(Realized, DOMAIN positions)
         /\ LossCounterIsReal <=> realizedLossToday = SumOn(LossOf, ClosedOn(currentDate))
         /\ TradeCounterIsReal <=> tradesTakenToday = Cardinality(OpenedOn(currentDate))
<1>1. SumOver([i \in DOMAIN positions |-> positions[i].realized])
        = SumOn(Realized, DOMAIN positions)
  BY DEF SumOver, FoldFunction, SumOn, Realized
<1>2. SumOver([i \in ClosedOn(currentDate) |-> Larger(0, -positions[i].realized)])
        = SumOn(LossOf, ClosedOn(currentDate))
  BY BookFacts, LossesOfSome DEF ClosedOn, LossOf
<1> QED
  BY <1>1, <1>2 DEF CashReconciles, LossCounterIsReal, TradeCounterIsReal, OpenedOn

\* The same reading of the counters, in the state after a candle.
LEMMA CountersAsSumsAfter ==
  ASSUME BookInv'
  PROVE  /\ CashReconciles' <=> cash' = InitialCash + SumOn(Realized', DOMAIN positions')
         /\ LossCounterIsReal' <=> realizedLossToday' = SumOn(LossOf', ClosedOn(currentDate)')
         /\ TradeCounterIsReal' <=> tradesTakenToday' = Cardinality(OpenedOn(currentDate)')
<1>1. SumOver([i \in DOMAIN positions' |-> positions'[i].realized])
        = SumOn(Realized', DOMAIN positions')
  BY DEF SumOver, FoldFunction, SumOn, Realized
<1>2. SumOver([i \in ClosedOn(currentDate)' |-> Larger(0, -positions'[i].realized)])
        = SumOn(LossOf', ClosedOn(currentDate)')
  BY BookAfter, LossesOfSome DEF ClosedOn, LossOf
<1> QED
  BY <1>1, <1>2 DEF CashReconciles, LossCounterIsReal, TradeCounterIsReal, OpenedOn

\* What was realized in all moves by what the processor reads off the book.
LEMMA RealizedMoves ==
  ASSUME BookInv, BookInv', NEW c \in Candle, WellFormed(c), ProcessCandle(c)
  PROVE  /\ RealizedDelta \in Int /\ SumOn(Realized, DOMAIN positions) \in Int
         /\ SumOn(Realized', DOMAIN positions')
              = SumOn(Realized, DOMAIN positions) + RealizedDelta
<1> DEFINE n == Len(positions)
           D == DOMAIN positions
           f == Realized
           g == Realized'
           delta == [i \in JustClosed |-> positions'[i].realized - positions[i].realized]
<1>1. /\ n \in Nat /\ D = 1 .. n /\ IsFiniteSet(D)
      /\ \A i \in D : f[i] = positions[i].realized /\ f[i] \in Int
  BY BookFacts, FS_Interval DEF Realized
<1>2. \A i \in DOMAIN positions' : g[i] = positions'[i].realized /\ g[i] \in Int
  BY BookAfter DEF Realized
<1>3. RealizedDelta = SumOn(delta, JustClosed)
  BY DEF RealizedDelta, SumOver, FoldFunction, SumOn
<1>4. SumOn(f, D) \in Int
  BY <1>1, SumType
<1>5. Untouched(c) \/ Remarked(c) \/ Closed(c) \/ Opened(c)
  BY BookStep
<1>6. JustClosed = {} => RealizedDelta = 0
  <2>1. SumOn(delta, {}) = 0
    <3> HIDE DEF delta
    <3> QED
      BY FS_EmptySet, SumType
  <2> QED
    BY <1>3, <2>1
<1> HIDE DEF f, g, D, n, delta
<1>7. CASE Untouched(c) \/ Remarked(c)
  <2>1. DOMAIN positions' = D /\ \A i \in D : f[i] = g[i]
    BY <1>1, <1>2, <1>7 DEF Untouched, Remarked, D
  <2>2. SumOn(g, D) = SumOn(f, D)
    BY <1>1, <2>1, SumOnSame
  <2>3. RealizedDelta = 0
    BY <1>6, <1>7, WhatCloses
  <2> QED
    BY <1>4, <2>1, <2>2, <2>3 DEF f, g, D
<1>8. CASE Closed(c)
  <2>1. /\ DOMAIN positions' = D /\ n \in D /\ f[n] = 0
        /\ \A i \in D : i # n => g[i] = f[i]
    BY <1>1, <1>2, <1>8 DEF Closed, n, D
  <2>2. SumOn(g, D) = SumOn(f, D) + (g[n] - f[n])
    <3>1. /\ \A i \in D : f[i] \in Int /\ g[i] \in Int
          /\ \A i \in D : i # n => g[i] = f[i]
          /\ IsFiniteSet(D) /\ n \in D
      BY <1>1, <1>2, <2>1
    <3> QED
      BY <3>1, SumChange, Zenon
  <2>3. JustClosed = {n}
    BY <1>8, WhatCloses DEF n
  <2>4. delta[n] = g[n] - f[n]
    BY <1>1, <1>2, <2>1, <2>3 DEF delta
  <2>5. SumOn(delta, {n}) = delta[n]
    <3>1. IsFiniteSet({n}) /\ n \in {n} /\ delta[n] \in Int
      <4>1. g[n] \in Int /\ f[n] \in Int
        BY <1>1, <1>2, <2>1
      <4>2. delta[n] \in Int
        BY <2>4, <4>1
      <4>3. IsFiniteSet({n})
        BY FS_Singleton
      <4> QED
        BY <4>2, <4>3
    <3> QED
      BY <3>1, SumOfOne
  <2>6. RealizedDelta = g[n] - f[n]
    BY <1>3, <2>3, <2>4, <2>5
  <2> QED
    BY <1>1, <1>2, <1>4, <2>1, <2>2, <2>6 DEF f, g, D
<1>9. CASE Opened(c)
  <2>1. /\ n + 1 \notin D /\ DOMAIN positions' = D \cup {n + 1} /\ g[n + 1] = 0
        /\ \A i \in D : f[i] = g[i]
    <3>1. DOMAIN positions' = D \cup {n + 1} /\ n + 1 \notin D
      BY <1>1, <1>9 DEF Opened, n
    <3>2. positions'[n + 1].realized = 0
      BY <1>9 DEF Opened, n, OpenPosition
    <3>3. \A i \in D : positions'[i] = positions[i]
      BY <1>9 DEF Opened, D
    <3> QED
      BY <1>1, <1>2, <3>1, <3>2, <3>3
  <2>2. SumOn(g, D \cup {n + 1}) = SumOn(g, D) + g[n + 1]
    <3>1. /\ \A i \in D \cup {n + 1} : g[i] \in Int
          /\ IsFiniteSet(D) /\ n + 1 \notin D
      BY <1>1, <1>2, <2>1
    <3> DEFINE m == n + 1
    <3> HIDE DEF m
    <3>2. \A i \in D \cup {m} : g[i] \in Int
      BY <3>1 DEF m
    <3>3. m \notin D
      BY <3>1 DEF m
    <3>4. SumOn(g, D \cup {m}) = SumOn(g, D) + g[m]
      BY <3>1, <3>2, <3>3, SumAdd, Zenon
    <3> QED
      BY <3>4 DEF m
  <2>3. SumOn(g, D) = SumOn(f, D)
    BY <1>1, <2>1, SumOnSame
  <2>4. RealizedDelta = 0
    BY <1>6, <1>9, WhatCloses
  <2> QED
    BY <1>4, <2>1, <2>2, <2>3, <2>4 DEF f, g, D
<1> QED
  BY <1>5, <1>7, <1>8, <1>9

\* A later time is not on an earlier day.
LEMMA DaysInOrder ==
  ASSUME NEW a \in Nat, NEW b \in Nat, a <= b
  PROVE  DayOf(a) \in Nat /\ DayOf(a) <= DayOf(b)
<1>1. a \div 1440 \in Nat /\ a \div 1440 <= b \div 1440
  BY SMTT(30)
<1> QED
  BY <1>1 DEF DayOf, MinutesPerDay

\* The day roll sets the counters to what the book says of the new day, which
\* no time of the ledger is on yet.
LEMMA DayRolled ==
  ASSUME BookInv, LossCounterIsReal, TradeCounterIsReal, NEW c \in Candle,
         At(c) > now, DayOf(At(c)) = c.day
  PROVE  /\ LossOn(c) = SumOn(LossOf, ClosedOn(c.day))
         /\ TradesOn(c) = Cardinality(OpenedOn(c.day))
<1>1. CASE c.day = currentDate
  BY <1>1, CountersAsSums DEF LossOn, TradesOn
<1>2. CASE c.day # currentDate
  <2>1. /\ now \in Nat /\ At(c) \in Nat /\ c.day \in Nat /\ DayOf(now) = currentDate
        /\ \A i \in DOMAIN ledger :
             /\ ledger[i].openedAt \in Nat /\ ledger[i].openedAt <= now
             /\ ledger[i].closedAt \in Nat /\ ledger[i].closedAt <= now
    BY BookFacts, CandleType DEF BookInv, BookTimes
  <2>2. c.day > currentDate
    <3>1. DayOf(now) <= DayOf(At(c)) /\ DayOf(now) \in Nat
      BY <2>1, DaysInOrder
    <3> DEFINE d == c.day
    <3>2. d \in Nat /\ currentDate \in Nat /\ currentDate <= d /\ d # currentDate
      BY <1>2, <2>1, <3>1
    <3> HIDE DEF d
    <3>3. d > currentDate
      BY <3>2
    <3> QED
      BY <3>3 DEF d
  <2>3. \A i \in DOMAIN ledger :
          DayOf(ledger[i].openedAt) # c.day /\ DayOf(ledger[i].closedAt) # c.day
    <3> SUFFICES ASSUME NEW t \in Nat, t <= now PROVE DayOf(t) # c.day
      BY <2>1
    <3>1. DayOf(t) \in Nat /\ DayOf(t) <= currentDate /\ currentDate \in Nat
      BY <2>1, DaysInOrder
    <3> QED
      BY <2>1, <2>2, <3>1
  <2>4. ClosedOn(c.day) = {} /\ OpenedOn(c.day) = {}
    BY <2>3, BookFacts DEF ClosedOn, OpenedOn
  <2>5. SumOn(LossOf, {}) = 0 /\ Cardinality({}) = 0
    BY FS_EmptySet, SumType
  <2> QED
    BY <1>2, <2>4, <2>5 DEF LossOn, TradesOn
<1> QED
  BY <1>1, <1>2

\* Every candle moves the loss counter by what it adds to the day's losses.
LEMMA LossesMove ==
  ASSUME BookInv, BookInv', NEW c \in Candle, WellFormed(c), ProcessCandle(c),
         LossOn(c) = SumOn(LossOf, ClosedOn(c.day))
  PROVE  realizedLossToday' = SumOn(LossOf', ClosedOn(c.day)')
<1> DEFINE n == Len(positions)
           D == DOMAIN positions
           K == ClosedOn(c.day)
           L == ClosedOn(c.day)'
           f == LossOf
           g == LossOf'
<1>1. /\ n \in Nat /\ D = 1 .. n /\ DOMAIN ledger = 1 .. n /\ K \in SUBSET D
      /\ \A i \in D : f[i] = Larger(0, -positions[i].realized) /\ f[i] \in Int
  BY BookFacts DEF LossOf, Larger, ClosedOn
<1>2. /\ L \in SUBSET DOMAIN positions'
      /\ \A i \in DOMAIN positions' :
           g[i] = Larger(0, -positions'[i].realized) /\ g[i] \in Int
  BY BookAfter DEF LossOf, Larger, ClosedOn
<1>3. IsFiniteSet(K)
  <2>1. IsFiniteSet(D)
    BY <1>1, FS_Interval
  <2> QED
    BY <1>1, <2>1, FS_Subset
<1>4. Untouched(c) \/ Remarked(c) \/ Closed(c) \/ Opened(c)
  BY BookStep
<1>5. DayOf(At(c)) = c.day /\ At(c) \in Nat /\ At(c) # Never
  BY StampParts, CandleType DEF Never
<1>6. LossOn(c) = SumOn(f, K)
  OBVIOUS
<1> HIDE DEF f, g, D, n, K, L
<1>7. CASE Untouched(c) \/ Remarked(c)
  <2>1. L = K /\ \A i \in D : f[i] = g[i]
    BY <1>1, <1>2, <1>7 DEF Untouched, Remarked, D, K, L, ClosedOn
  <2>2. SumOn(g, K) = SumOn(f, K)
    BY <1>1, <1>3, <2>1, SumOnSame
  <2> QED
    BY <1>6, <1>7, <2>1, <2>2 DEF Untouched, Remarked, g, L
<1>8. CASE Opened(c)
  <2>1. \A i \in D : f[i] = g[i]
    <3>1. \A i \in D : positions'[i] = positions[i] /\ i \in DOMAIN positions'
      BY <1>1, <1>8 DEF Opened, D, n
    <3> QED
      BY <1>1, <1>2, <3>1
  <2>2. L = K
    <3>1. ledger'[n + 1].closedAt = Never
      BY <1>8 DEF Opened, n
    <3>2. DOMAIN positions' = 1 .. n + 1 /\ \A i \in 1 .. n : ledger'[i] = ledger[i]
      BY <1>1, <1>8 DEF Opened, n
    <3> QED
      BY <1>1, <3>1, <3>2 DEF K, L, ClosedOn, D
  <2>3. SumOn(g, K) = SumOn(f, K)
    BY <1>1, <1>3, <2>1, SumOnSame
  <2> QED
    BY <1>6, <1>8, <2>2, <2>3 DEF Opened, g, L
<1>9. CASE Closed(c)
  <2>1. /\ DOMAIN positions' = D /\ n \in D
        /\ \A i \in D : i # n => g[i] = f[i]
        /\ g[n] = Larger(0, -RealizedThisExit(c)) /\ g[n] \in Int
    BY <1>1, <1>2, <1>9 DEF Closed, n, D
  <2>2. n \notin K
    BY <1>9 DEF Closed, BookInv, BookTimes, NoPosition, K, ClosedOn, n
  <2>3. L = K \cup {n}
    <3>1. /\ ledger'[n].closedAt = At(c)
          /\ \A i \in D : i # n => ledger'[i] = ledger[i]
      BY <1>1, <1>9 DEF Closed, n
    <3> QED
      BY <1>1, <1>5, <2>1, <3>1 DEF K, L, ClosedOn, D
  <2>4. SumOn(g, K \cup {n}) = SumOn(g, K) + g[n]
    <3>1. \A i \in K \cup {n} : g[i] \in Int
      BY <1>1, <1>2, <2>1
    <3> QED
      BY <1>3, <2>2, <3>1, SumAdd, Zenon
  <2>5. SumOn(g, K) = SumOn(f, K)
    <3>1. \A i \in K : g[i] = f[i]
      BY <1>1, <2>1, <2>2
    <3> QED
      BY <1>3, <3>1, SumOnSame
  <2>6. realizedLossToday' = LossOn(c) + Larger(0, -RealizedThisExit(c))
    BY <1>9 DEF Closed, LossAfterExit, Larger
  <2> QED
    BY <1>6, <2>1, <2>3, <2>4, <2>5, <2>6 DEF g, L
<1> QED
  BY <1>4, <1>7, <1>8, <1>9

\* Every candle moves the trade counter by the trades it opens.
LEMMA TradesMove ==
  ASSUME BookInv, BookInv', NEW c \in Candle, WellFormed(c), ProcessCandle(c),
         TradesOn(c) = Cardinality(OpenedOn(c.day))
  PROVE  tradesTakenToday' = Cardinality(OpenedOn(c.day)')
<1> DEFINE n == Len(positions)
           O == OpenedOn(c.day)
           P == OpenedOn(c.day)'
<1>1. n \in Nat /\ DOMAIN ledger = 1 .. n /\ IsFiniteSet(O)
  <2>1. IsFiniteSet(DOMAIN ledger) /\ O \in SUBSET DOMAIN ledger
    <3>1. n \in Nat /\ DOMAIN ledger = 1 .. n
      BY BookFacts
    <3> QED
      BY <3>1, FS_Interval DEF OpenedOn
  <2> QED
    BY <2>1, BookFacts, FS_Subset
<1>2. Untouched(c) \/ Remarked(c) \/ Closed(c) \/ Opened(c)
  BY BookStep
<1>3. DayOf(At(c)) = c.day
  BY StampParts
<1>4. CASE Untouched(c) \/ Remarked(c)
  BY <1>4 DEF Untouched, Remarked, OpenedOn
<1>5. CASE Closed(c)
  <2>1. P = O
    BY <1>5 DEF Closed, OpenedOn
  <2> QED
    BY <1>5, <2>1 DEF Closed
<1>6. CASE Opened(c)
  <2>1. /\ ledger'[n + 1].openedAt = At(c) /\ DOMAIN ledger' = 1 .. n + 1
        /\ \A i \in 1 .. n : ledger'[i] = ledger[i]
    BY <1>1, <1>6 DEF Opened
  <2>2. P = O \cup {n + 1} /\ n + 1 \notin O
    <3> HIDE DEF n
    <3> QED
      BY <1>1, <1>3, <2>1 DEF OpenedOn
  <2>3. Cardinality(P) = Cardinality(O) + 1
    <3> HIDE DEF O, P, n
    <3> QED
      BY <1>1, <2>2, FS_AddElement
  <2> QED
    BY <1>6, <2>3 DEF Opened
<1> QED
  BY <1>2, <1>4, <1>5, <1>6

\* The cash and both daily counters agree with the book after every candle, for
\* every sequence of candles and every value of the limits.
THEOREM CountersStayReconciled == AccountSpec => []CountersReconcile
<1>1. AccountInit /\ BookInv => CountersReconcile
  <2> SUFFICES ASSUME AccountInit, BookInv PROVE CountersReconcile
    OBVIOUS
  <2>1. DOMAIN positions = {} /\ DOMAIN ledger = {} /\ cash = InitialCash
        /\ tradesTakenToday = 0 /\ realizedLossToday = 0
    BY DEF AccountInit, Init
  <2>2. ClosedOn(currentDate) = {} /\ OpenedOn(currentDate) = {}
    BY <2>1 DEF ClosedOn, OpenedOn
  <2>3. SumOn(LossOf, {}) = 0 /\ SumOn(Realized, {}) = 0 /\ Cardinality({}) = 0
    BY FS_EmptySet, SumType
  <2>4. InitialCash + 0 = InitialCash
    BY CashAssumption
  <2> QED
    BY <2>1, <2>2, <2>3, <2>4, CountersAsSums DEF CountersReconcile
<1>2. BookInv /\ BookInv' /\ CountersReconcile /\ [AccountNext]_<<vars, account>>
        => CountersReconcile'
  <2> SUFFICES ASSUME BookInv, BookInv', CountersReconcile, [AccountNext]_<<vars, account>>
               PROVE  CountersReconcile'
    OBVIOUS
  <2>1. CASE UNCHANGED <<vars, account>>
    <3>1. /\ positions' = positions /\ ledger' = ledger /\ currentDate' = currentDate
          /\ cash' = cash /\ tradesTakenToday' = tradesTakenToday
          /\ realizedLossToday' = realizedLossToday
      BY <2>1 DEF vars, account
    <3>2. Realized' = Realized /\ LossOf' = LossOf
      BY <3>1 DEF Realized, LossOf
    <3>3. ClosedOn(currentDate)' = ClosedOn(currentDate)
      BY <3>1 DEF ClosedOn
    <3>4. OpenedOn(currentDate)' = OpenedOn(currentDate)
      BY <3>1 DEF OpenedOn
    <3> QED
      BY <3>1, <3>2, <3>3, <3>4, CountersAsSums, CountersAsSumsAfter DEF CountersReconcile
  <2>2. ASSUME NEW c \in Candle, WellFormed(c), ProcessCandle(c), RecordCashChange
        PROVE  CountersReconcile'
    <3>1. /\ cash = InitialCash + SumOn(Realized, DOMAIN positions)
          /\ LossCounterIsReal /\ TradeCounterIsReal
      BY CountersAsSums DEF CountersReconcile
    <3>2. CashReconciles'
      <4>1. cash' = cash + RealizedDelta
        BY <2>2 DEF RecordCashChange
      <4> DEFINE a == SumOn(Realized, DOMAIN positions)
                 b == SumOn(Realized', DOMAIN positions')
      <4>2. a \in Int /\ RealizedDelta \in Int /\ b = a + RealizedDelta
        BY <2>2, RealizedMoves
      <4>3. cash = InitialCash + a
        BY <3>1
      <4> HIDE DEF a, b
      <4>4. cash' = InitialCash + b
        BY <4>1, <4>2, <4>3, CashAssumption
      <4> QED
        BY <4>4, CountersAsSumsAfter DEF b
    <3>3. currentDate' = c.day /\ At(c) > now /\ DayOf(At(c)) = c.day
      BY <2>2, BookStep
    <3>4. /\ LossOn(c) = SumOn(LossOf, ClosedOn(c.day))
          /\ TradesOn(c) = Cardinality(OpenedOn(c.day))
      BY <2>2, <3>1, <3>3, DayRolled
    <3>5. realizedLossToday' = SumOn(LossOf', ClosedOn(c.day)')
      BY <2>2, <3>4, LossesMove
    <3>6. tradesTakenToday' = Cardinality(OpenedOn(c.day)')
      BY <2>2, <3>4, TradesMove
    <3>7. ClosedOn(currentDate)' = ClosedOn(c.day)' /\ OpenedOn(currentDate)' = OpenedOn(c.day)'
      BY <3>3 DEF ClosedOn, OpenedOn
    <3> QED
      BY <3>2, <3>5, <3>6, <3>7, CountersAsSumsAfter DEF CountersReconcile
  <2> QED
    BY <2>1, <2>2 DEF AccountNext
<1> QED
  BY <1>1, <1>2, BookInvariant, AccountRunsCycle, PTL DEF AccountSpec

-----------------------------------------------------------------------------
(* Peak and drawdown *)

IsPeak(curve, peak) ==
  /\ \A i \in DOMAIN curve : curve[i] <= peak
  /\ \E i \in DOMAIN curve : curve[i] = peak

IsDrawdown(curve, fall) ==
  /\ \A i, j \in DOMAIN curve : i <= j => curve[i] - curve[j] <= fall
  /\ \E i, j \in DOMAIN curve : i <= j /\ curve[i] - curve[j] = fall

\* One more equity: comparing it with the running peak alone is enough to keep
\* the largest fall between any two.
LEMMA OneMoreEquity ==
  ASSUME NEW s \in Seq(Int), NEW peak \in Int, NEW fall \in Int, NEW e \in Int,
         IsPeak(s, peak), IsDrawdown(s, fall)
  PROVE  LET p == Larger(peak, e)
             t == Append(s, e)
         IN  IsPeak(t, p) /\ IsDrawdown(t, Larger(fall, Larger(0, p - e)))
<1> DEFINE n == Len(s)
           p == Larger(peak, e)
           t == Append(s, e)
           f == Larger(fall, Larger(0, p - e))
<1>1. /\ n \in Nat /\ DOMAIN s = 1 .. n /\ DOMAIN t = 1 .. n + 1
      /\ \A i \in 1 .. n : t[i] = s[i] /\ s[i] \in Int
      /\ t[n + 1] = e
  OBVIOUS
<1>2. /\ p \in Int /\ peak <= p /\ e <= p /\ (p = peak \/ p = e)
  BY DEF Larger
<1>3. /\ f \in Int /\ fall <= f /\ 0 <= f /\ p - e <= f
      /\ f = fall \/ f = 0 \/ (f = p - e /\ p # e)
  <2> HIDE DEF p
  <2> QED
    BY <1>2 DEF Larger
<1> HIDE DEF n, p, t, f
<1>4. IsPeak(t, p)
  <2>1. \A i \in 1 .. n + 1 : t[i] <= p
    BY <1>1, <1>2 DEF IsPeak
  <2>2. \E i \in 1 .. n + 1 : t[i] = p
    <3>1. CASE p = e
      BY <1>1, <3>1
    <3>2. CASE p = peak
      <4>1. PICK i \in 1 .. n : s[i] = peak
        BY <1>1 DEF IsPeak
      <4> QED
        BY <1>1, <3>2, <4>1
    <3> QED
      BY <1>2, <3>1, <3>2
  <2> QED
    BY <1>1, <2>1, <2>2 DEF IsPeak
<1>5. \A i, j \in 1 .. n + 1 : i <= j => t[i] - t[j] <= f
  <2> SUFFICES ASSUME NEW i \in 1 .. n + 1, NEW j \in 1 .. n + 1, i <= j
               PROVE  t[i] - t[j] <= f
    OBVIOUS
  <2>1. CASE j = n + 1 /\ i = n + 1
    BY <1>1, <1>3, <2>1
  <2>2. CASE j = n + 1 /\ i # n + 1
    <3>1. i \in 1 .. n
      BY <1>1, <2>2
    <3>2. t[i] \in Int /\ t[i] <= p
      BY <1>1, <1>2, <3>1 DEF IsPeak
    <3> QED
      BY <1>1, <1>2, <1>3, <2>2, <3>2
  <2>3. CASE j # n + 1
    <3>1. i \in 1 .. n /\ j \in 1 .. n
      BY <1>1, <2>3
    <3>2. s[i] - s[j] <= fall
      BY <1>1, <3>1 DEF IsDrawdown
    <3> QED
      BY <1>1, <1>3, <3>1, <3>2
  <2> QED
    BY <2>1, <2>2, <2>3
<1>6. \E i, j \in 1 .. n + 1 : i <= j /\ t[i] - t[j] = f
  <2>1. CASE f = fall
    <3>1. PICK i \in 1 .. n, j \in 1 .. n : i <= j /\ s[i] - s[j] = fall
      BY <1>1 DEF IsDrawdown
    <3> QED
      BY <1>1, <2>1, <3>1
  <2>2. CASE f = 0
    <3>1. n + 1 \in 1 .. n + 1 /\ t[n + 1] - t[n + 1] = 0
      BY <1>1
    <3> QED
      BY <1>1, <2>2, <3>1
  <2>3. CASE f = p - e /\ p # e
    <3>1. PICK i \in 1 .. n : s[i] = peak
      BY <1>1 DEF IsPeak
    <3>2. i \in 1 .. n + 1 /\ n + 1 \in 1 .. n + 1 /\ i <= n + 1
      BY <1>1
    <3>3. t[i] = p /\ t[n + 1] = e
      BY <1>1, <1>2, <2>3, <3>1
    <3>4. t[i] - t[n + 1] = f
      BY <2>3, <3>3
    <3> QED
      BY <3>2, <3>4, Zenon
  <2> QED
    BY <1>3, <2>1, <2>2, <2>3
<1> QED
  BY <1>1, <1>4, <1>5, <1>6 DEF IsDrawdown, n, p, t, f

\* What the account is worth is a whole number of units.
LEMMA EquityType ==
  ASSUME NEW money \in Int, NEW book, NEW n \in Nat, DOMAIN book = 1 .. n,
         \A i \in 1 .. n : book[i].unrealized \in Int
  PROVE  TotalEquity(money, book) \in Int
<1>3. IsFiniteSet(1 .. n)
  <2>1. 1 \in Int /\ n \in Int
    OBVIOUS
  <2> QED
    BY <2>1, FS_Interval
<1> DEFINE f == [i \in DOMAIN book |->
                  IF book[i].status # "CLOSED" THEN book[i].unrealized ELSE 0]
<1>1. \A i \in 1 .. n : f[i] \in Int
  OBVIOUS
<1>2. SumOver(f) = SumOn(f, 1 .. n)
  BY DEF SumOver, FoldFunction, SumOn
<1>4. TotalEquity(money, book) = money + SumOver(f)
  BY DEF TotalEquity
<1> HIDE DEF f
<1>5. SumOn(f, 1 .. n) \in Int
  BY <1>1, <1>3, SumType
<1> QED
  BY <1>2, <1>4, <1>5

Curve == <<InitialCash>> \o equities

DrawInv ==
  /\ cash \in Int /\ equities \in Seq(Int)
  /\ peakEquity \in Int /\ maxDrawdown \in Int
  /\ IsPeak(Curve, peakEquity)
  /\ IsDrawdown(Curve, maxDrawdown)

\* The snapshot's equity is a number, and every snapshot keeps the figures exact.
LEMMA DrawStep ==
  ASSUME BookInv, BookInv', DrawInv, NEW c \in Candle, WellFormed(c), ProcessCandle(c),
         RecordCashChange, Snapshot
  PROVE  DrawInv' /\ TotalEquity(cash', positions') \in Int
<1>1. cash' \in Int
  BY RealizedMoves DEF RecordCashChange, DrawInv
<1>2. TotalEquity(cash', positions') \in Int
  BY <1>1, BookAfter, EquityType
<1>3. CASE seen' <= WarmupCandles
  BY <1>1, <1>2, <1>3 DEF Snapshot, DrawInv, Curve
<1>4. CASE ~(seen' <= WarmupCandles)
  <2> DEFINE e == TotalEquity(cash', positions')
  <2>1. /\ peakEquity' = Larger(peakEquity, e)
        /\ maxDrawdown' = Larger(maxDrawdown, Larger(0, peakEquity' - e))
        /\ equities' = Append(equities, e)
    BY <1>4 DEF Snapshot
  <2> HIDE DEF e
  <2>2. e \in Int
    BY <1>2 DEF e
  <2>3. /\ Curve \in Seq(Int) /\ Curve' = Append(Curve, e) /\ equities' \in Seq(Int)
    <3>1. equities \in Seq(Int) /\ InitialCash \in Int /\ <<InitialCash>> \in Seq(Int)
      BY CashAssumption DEF DrawInv
    <3> QED
      BY <2>1, <2>2, <3>1 DEF Curve
  <2>4. IsPeak(Curve', peakEquity') /\ IsDrawdown(Curve', maxDrawdown')
    BY <2>1, <2>2, <2>3, OneMoreEquity DEF DrawInv
  <2>5. peakEquity' \in Int /\ maxDrawdown' \in Int
    BY <2>1, <2>2 DEF DrawInv, Larger
  <2> QED
    BY <1>1, <1>2, <2>3, <2>4, <2>5 DEF DrawInv
<1> QED
  BY <1>3, <1>4

\* The peak and the drawdown PerformanceMonitor keeps bound every equity it was
\* shown, on every run.
THEOREM DrawInvariant == AccountSpec => []DrawInv
<1>1. AccountInit => DrawInv
  <2> SUFFICES ASSUME AccountInit PROVE DrawInv
    OBVIOUS
  <2>1. /\ cash = InitialCash /\ equities = <<>> /\ peakEquity = InitialCash
        /\ maxDrawdown = 0 /\ InitialCash \in Int
    BY CashAssumption DEF AccountInit
  <2>2. DOMAIN Curve = {1} /\ Curve[1] = InitialCash
    BY <2>1 DEF Curve
  <2> QED
    BY <2>1, <2>2 DEF DrawInv, IsPeak, IsDrawdown
<1>2. BookInv /\ BookInv' /\ DrawInv /\ [AccountNext]_<<vars, account>> => DrawInv'
  <2> SUFFICES ASSUME BookInv, BookInv', DrawInv, [AccountNext]_<<vars, account>>
               PROVE  DrawInv'
    OBVIOUS
  <2>1. CASE UNCHANGED <<vars, account>>
    BY <2>1 DEF account, DrawInv, Curve
  <2> QED
    BY <2>1, DrawStep DEF AccountNext
<1> QED
  BY <1>1, <1>2, BookInvariant, AccountRunsCycle, PTL DEF AccountSpec

\* The drawdown kept from snapshots alone is the largest fall of the equity
\* curve, however long it gets.
THEOREM DrawdownStaysExact == AccountSpec => []DrawdownIsExact
<1>1. DrawInv => DrawdownIsExact
  BY DEF DrawInv, IsDrawdown, Curve, DrawdownIsExact
<1> QED
  BY <1>1, DrawInvariant, PTL

-----------------------------------------------------------------------------
(* Those who learn of trades from events *)

\* The closed trades of one outcome are counted as they close, an outcome being a
\* set of results other than breaking even.
LEMMA CountMoves ==
  ASSUME BookInv, BookInv', NEW c \in Candle, WellFormed(c), ProcessCandle(c),
         NEW G \in SUBSET Int, 0 \notin G
  PROVE  Cardinality({i \in DOMAIN positions' : positions'[i].realized \in G})
           = Cardinality({i \in DOMAIN positions : positions[i].realized \in G})
             + Cardinality({i \in JustClosed : positions'[i].realized \in G})
<1> DEFINE n == Len(positions)
           W == {i \in DOMAIN positions : positions[i].realized \in G}
           V == {i \in DOMAIN positions' : positions'[i].realized \in G}
           J == {i \in JustClosed : positions'[i].realized \in G}
<1> SUFFICES Cardinality(V) = Cardinality(W) + Cardinality(J)
  OBVIOUS
<1>1. n \in Nat /\ DOMAIN positions = 1 .. n /\ W \in SUBSET (1 .. n)
  BY BookFacts
<1>2. IsFiniteSet(W) /\ Cardinality(W) \in Nat
  <2>1. IsFiniteSet(1 .. n)
    BY <1>1, FS_Interval
  <2> HIDE DEF W
  <2> QED
    BY <1>1, <2>1, FS_Subset, FS_CardinalityType
<1>3. Untouched(c) \/ Remarked(c) \/ Closed(c) \/ Opened(c)
  BY BookStep
<1>4. Cardinality({}) = 0
  BY FS_EmptySet
<1>5. CASE Untouched(c) \/ Remarked(c)
  <2>1. V = W /\ J = {}
    BY <1>5, WhatCloses DEF Untouched, Remarked
  <2> HIDE DEF V, W, J
  <2> QED
    BY <1>2, <1>4, <2>1
<1>6. CASE Opened(c)
  <2>1. /\ DOMAIN positions' = 1 .. n + 1 /\ positions'[n + 1].realized = 0
        /\ \A i \in 1 .. n : positions'[i] = positions[i]
    BY <1>1, <1>6 DEF Opened, OpenPosition
  <2>2. J = {}
    BY <1>6, WhatCloses
  <2>3. V = W
    <3> HIDE DEF n
    <3> QED
      BY <1>1, <2>1
  <2> HIDE DEF V, W, J
  <2> QED
    BY <1>2, <1>4, <2>2, <2>3
<1>7. CASE Closed(c)
  <2>1. /\ DOMAIN positions' = 1 .. n /\ n \in 1 .. n /\ positions[n].realized = 0
        /\ \A i \in 1 .. n : i # n => positions'[i] = positions[i]
    BY <1>1, <1>7 DEF Closed
  <2>2. JustClosed = {n}
    BY <1>7, WhatCloses
  <2>3. n \notin W
    BY <2>1
  <2>4. CASE positions'[n].realized \in G
    <3>1. V = W \cup {n} /\ J = {n}
      <4> HIDE DEF n
      <4> QED
        BY <1>1, <2>1, <2>2, <2>4
    <3> HIDE DEF V, W, J
    <3>2. Cardinality(V) = Cardinality(W) + 1
      BY <1>2, <2>3, <3>1, FS_AddElement
    <3>3. Cardinality(J) = 1
      BY <3>1, FS_Singleton
    <3> QED
      BY <1>2, <3>2, <3>3
  <2>5. CASE positions'[n].realized \notin G
    <3>1. V = W /\ J = {}
      <4> HIDE DEF n
      <4> QED
        BY <1>1, <2>1, <2>2, <2>5
    <3> HIDE DEF V, W, J
    <3> QED
      BY <1>2, <1>4, <3>1
  <2> QED
    BY <2>4, <2>5
<1> QED
  BY <1>3, <1>5, <1>6, <1>7

\* Each of the counts of wins and losses keeps to the trades it counts.
LEMMA WinsAndLosses ==
  ASSUME BookInv, BookInv', NEW c \in Candle, WellFormed(c), ProcessCandle(c),
         wins = Cardinality(Won), losses = Cardinality(Lost), OnPositionUpdated
  PROVE  wins' = Cardinality(Won') /\ losses' = Cardinality(Lost')
<1> DEFINE Gains == {x \in Int : x > 0}
           Falls == {x \in Int : x < 0}
<1>1. /\ Gains \in SUBSET Int /\ 0 \notin Gains
      /\ Falls \in SUBSET Int /\ 0 \notin Falls
  OBVIOUS
<1>2. /\ \A i \in DOMAIN positions : positions[i].realized \in Int
      /\ \A i \in DOMAIN positions' : positions'[i].realized \in Int
      /\ \A i \in JustClosed : i \in DOMAIN positions'
  <2>1. Untouched(c) \/ Remarked(c) \/ Closed(c) \/ Opened(c)
    BY BookStep
  <2>2. \A i \in JustClosed : i \in DOMAIN positions'
    BY <2>1, WhatCloses DEF Closed
  <2> QED
    BY <2>2, BookFacts, BookAfter
<1>3. /\ Won = {i \in DOMAIN positions : positions[i].realized \in Gains}
      /\ Won' = {i \in DOMAIN positions' : positions'[i].realized \in Gains}
      /\ {i \in JustClosed : positions'[i].realized > 0}
           = {i \in JustClosed : positions'[i].realized \in Gains}
  BY <1>2 DEF Won
<1>4. /\ Lost = {i \in DOMAIN positions : positions[i].realized \in Falls}
      /\ Lost' = {i \in DOMAIN positions' : positions'[i].realized \in Falls}
      /\ {i \in JustClosed : positions'[i].realized < 0}
           = {i \in JustClosed : positions'[i].realized \in Falls}
  BY <1>2 DEF Lost
<1> HIDE DEF Gains, Falls
<1>5. Cardinality(Won') = Cardinality(Won)
        + Cardinality({i \in JustClosed : positions'[i].realized > 0})
  BY <1>1, <1>3, CountMoves
<1>6. Cardinality(Lost') = Cardinality(Lost)
        + Cardinality({i \in JustClosed : positions'[i].realized < 0})
  BY <1>1, <1>4, CountMoves
<1> QED
  BY <1>5, <1>6 DEF OnPositionUpdated

MonitorInv ==
  /\ DrawInv
  /\ wins = Cardinality(Won) /\ losses = Cardinality(Lost)
  /\ counted.submitted = Len(positions) /\ counted.filled = Len(positions)
  /\ counted.generated = Len(positions)
  /\ journal \in [Journaled -> Int]
  /\ counted.events = seen + Total(journal)
  /\ journal.submitted = Len(positions) /\ journal.portfolio = Len(equities)
  /\ shown.candles = seen
  /\ shown.decision # Nothing => seen > WarmupCandles
  /\ ShownDecisionIsTheTrade
  /\ TotalEquity(cash, positions) <= peakEquity
  /\ peakEquity - TotalEquity(cash, positions) <= maxDrawdown
  /\ seen = 0 => Response = EmptyResponse

\* Before the first candle every figure is what no session at all shows.
LEMMA MonitorStarts ==
  ASSUME AccountInit
  PROVE  MonitorInv
<1> DEFINE none == [i \in DOMAIN positions |->
                     IF positions[i].status # "CLOSED" THEN positions[i].unrealized ELSE 0]
<1>1. /\ positions = <<>> /\ equities = <<>> /\ seen = 0 /\ openId = NoPosition
      /\ cash = InitialCash /\ dailyPnl = 0 /\ peakEquity = InitialCash
      /\ wins = 0 /\ losses = 0 /\ maxDrawdown = 0
      /\ counted = [submitted |-> 0, filled |-> 0, generated |-> 0, events |-> 0]
      /\ journal = [e \in Journaled |-> 0]
      /\ shown = [candles |-> 0, decision |-> Nothing]
      /\ InitialCash \in Nat /\ WarmupCandles \in Nat
  BY CashAssumption, ClockAssumption DEF AccountInit, Init
<1>2. Won = {} /\ Lost = {} /\ WhereStatus("OPEN") = {} /\ WhereStatus("CLOSED") = {}
  BY <1>1 DEF Won, Lost, WhereStatus
<1>3. TotalEquity(cash, positions) = InitialCash
  <2>1. TotalEquity(cash, positions) = cash + SumOn(none, DOMAIN positions)
    BY DEF TotalEquity, SumOver, FoldFunction, SumOn
  <2>2. DOMAIN positions = {}
    BY <1>1
  <2>3. SumOn(none, {}) = 0
    <3> HIDE DEF none
    <3> QED
      BY FS_EmptySet, SumType
  <2> QED
    BY <1>1, <2>1, <2>2, <2>3
<1>4. journal \in [Journaled -> Int] /\ Total(journal) = 0
      /\ journal.submitted = 0 /\ journal.portfolio = 0
  BY <1>1 DEF Journaled, Total
<1>5. Response = EmptyResponse
  <2>1. PortfolioShown = EmptyPortfolio
    BY <1>1, <1>2, <1>3 DEF PortfolioShown, EmptyPortfolio, Larger
  <2>2. Performance = EmptyPerformance
    <3>1. Percent(0, 0) = 0 /\ Percent(0, InitialCash) = 0 /\ 0 + 0 = 0
      BY <1>1, SMTT(30) DEF Percent
    <3> QED
      BY <1>1, <3>1 DEF Performance, EmptyPerformance
  <2>3. MarketContextKnown = FALSE
    <3>1. ~MarketContextKnown
      BY <1>1 DEF MarketContextKnown
    <3> QED
      BY <3>1 DEF MarketContextKnown
  <2>4. Health = EmptyHealth /\ shown.decision = Nothing
    BY <1>1 DEF Health, EmptyHealth
  <2> QED
    BY <2>1, <2>2, <2>3, <2>4 DEF Response, EmptyResponse
<1>6. DrawInv
  <2>1. DOMAIN Curve = {1} /\ Curve[1] = InitialCash
    BY <1>1 DEF Curve
  <2> QED
    BY <1>1, <2>1 DEF DrawInv, IsPeak, IsDrawdown
<1>7. Cardinality({}) = 0
  BY FS_EmptySet
<1> QED
  BY <1>1, <1>2, <1>3, <1>4, <1>5, <1>6, <1>7 DEF MonitorInv, ShownDecisionIsTheTrade

\* What is published of a candle follows from what it did to the book.
LEMMA WhatIsPublished ==
  ASSUME BookInv, NEW c \in Candle, WellFormed(c), ProcessCandle(c)
  PROVE  /\ Ones(Entered) \in Nat /\ Len(positions') = Len(positions) + Ones(Entered)
         /\ Opened(c) => Entered
         /\ Remarked(c) => ~Evaluated
         /\ Opened(c) => Evaluated /\ RiskApproved(c)
         /\ Cardinality(JustClosed) \in Nat
<1> DEFINE n == Len(positions)
<1>1. Untouched(c) \/ Remarked(c) \/ Closed(c) \/ Opened(c)
  BY BookStep
<1>2. n \in Nat
  BY BookFacts
<1>3. Len(positions') = n + Ones(Entered) /\ (Opened(c) => Entered) /\ Ones(Entered) \in Nat
  BY <1>1, <1>2 DEF Untouched, Remarked, Closed, Opened, Ones, Entered
<1>4. Remarked(c) => ~Evaluated
  BY WhatCloses DEF Remarked, Evaluated
<1>5. Opened(c) => Evaluated /\ RiskApproved(c)
  BY DEF Opened, Evaluated, RiskApproved
<1>6. Cardinality(JustClosed) \in Nat
  <2>1. Cardinality({}) = 0 /\ \A x : Cardinality({x}) = 1
    BY FS_EmptySet, FS_Singleton
  <2>2. JustClosed = {} \/ JustClosed = {n}
    BY <1>1, WhatCloses
  <2>3. Cardinality(JustClosed) = 0 \/ Cardinality(JustClosed) = 1
    BY <2>1, <2>2, Zenon
  <2> QED
    BY <2>3
<1> QED
  BY <1>3, <1>4, <1>5, <1>6

\* The counters of the monitors follow the book and the journal.
LEMMA PublishStep ==
  ASSUME BookInv, MonitorInv, NEW c \in Candle, WellFormed(c), ProcessCandle(c),
         Snapshot, Publish(c)
  PROVE  /\ counted'.submitted = Len(positions') /\ counted'.filled = Len(positions')
         /\ counted'.generated = Len(positions')
         /\ journal' \in [Journaled -> Int]
         /\ counted'.events = seen' + Total(journal')
         /\ journal'.submitted = Len(positions') /\ journal'.portfolio = Len(equities')
<1> DEFINE t == Published(c)
<1>1. seen' = seen + 1 /\ seen \in Nat
  BY BookStep, BookFacts
<1>2. /\ t.market = 1 /\ t.submitted = Ones(Entered) /\ t.filled = Ones(Entered)
      /\ t.portfolio = Ones(seen' > WarmupCandles)
      /\ t.signal \in Int /\ t.risk \in Int /\ t.submitted \in Int /\ t.filled \in Int
      /\ t.position \in Int /\ t.portfolio \in Int
  BY WhatIsPublished DEF Published, Ones
<1>3. /\ counted' = [submitted |-> counted.submitted + t.submitted,
                     filled |-> counted.filled + t.filled,
                     generated |-> counted.generated + t.submitted,
                     events |-> counted.events + t.market + Total(t)]
      /\ journal' = [e \in Journaled |-> journal[e] + t[e]]
  BY DEF Publish
<1> HIDE DEF t
<1>4. /\ counted'.submitted = counted.submitted + t.submitted
      /\ counted'.filled = counted.filled + t.filled
      /\ counted'.generated = counted.generated + t.submitted
      /\ counted'.events = counted.events + t.market + Total(t)
  BY <1>3
<1>5. /\ journal'.signal = journal.signal + t.signal
      /\ journal'.risk = journal.risk + t.risk
      /\ journal'.submitted = journal.submitted + t.submitted
      /\ journal'.filled = journal.filled + t.filled
      /\ journal'.position = journal.position + t.position
      /\ journal'.portfolio = journal.portfolio + t.portfolio
  BY <1>3 DEF Journaled
<1>6. /\ journal.signal \in Int /\ journal.risk \in Int /\ journal.submitted \in Int
      /\ journal.filled \in Int /\ journal.position \in Int /\ journal.portfolio \in Int
  BY DEF MonitorInv, Journaled
<1>7. journal' \in [Journaled -> Int]
  BY <1>2, <1>3, <1>5, <1>6 DEF Journaled
<1>8. counted'.events = seen' + Total(journal')
  <2>1. counted.events = seen + Total(journal)
    BY DEF MonitorInv
  <2>2. Total(journal') = Total(journal) + Total(t) /\ Total(journal) \in Int /\ Total(t) \in Int
    BY <1>2, <1>5, <1>6 DEF Total
  <2> QED
    BY <1>1, <1>2, <1>4, <2>1, <2>2
<1>9. journal'.portfolio = Len(equities')
  <2>1. equities \in Seq(Int) /\ journal.portfolio = Len(equities)
    BY DEF MonitorInv, DrawInv
  <2>2. CASE seen' <= WarmupCandles
    <3>1. t.portfolio = 0 /\ equities' = equities
      BY <1>1, <1>2, <2>2, ClockAssumption DEF Ones, Snapshot
    <3> QED
      BY <1>5, <1>6, <2>1, <3>1
  <2>3. CASE ~(seen' <= WarmupCandles)
    <3>1. t.portfolio = 1
      <4>1. seen' > WarmupCandles
        BY <1>1, <2>3, ClockAssumption
      <4> QED
        BY <1>2, <4>1 DEF Ones
    <3>2. PICK e : equities' = Append(equities, e)
      BY <2>3 DEF Snapshot
    <3>3. Len(equities') = Len(equities) + 1
      BY <2>1, <3>2
    <3> QED
      BY <1>5, <2>1, <3>1, <3>3
  <2> QED
    BY <2>2, <2>3
<1>10. Len(positions') = Len(positions) + Ones(Entered)
  BY WhatIsPublished
<1> QED
  BY <1>2, <1>4, <1>5, <1>7, <1>8, <1>9, <1>10 DEF MonitorInv

\* The decision shown is the one behind the open position, and none is shown
\* before the strategy was first evaluated.
LEMMA ShownStep ==
  ASSUME BookInv, MonitorInv, NEW c \in Candle, WellFormed(c), ProcessCandle(c), Observe(c)
  PROVE  /\ ShownDecisionIsTheTrade'
         /\ shown'.candles = seen'
         /\ shown'.decision # Nothing => seen' > WarmupCandles
<1> DEFINE n == Len(positions)
<1>1. /\ seen' = seen + 1 /\ seen \in Nat
      /\ n \in Nat /\ DOMAIN positions = 1 .. n /\ openId \in 0 .. n
      /\ WarmupCandles \in Nat
      /\ Untouched(c) \/ Remarked(c) \/ Closed(c) \/ Opened(c)
  BY BookStep, BookFacts, ClockAssumption
<1>2. /\ shown'.candles = shown.candles + 1
      /\ shown'.decision = IF Evaluated /\ RiskApproved(c) THEN Assessment(c)
                                                           ELSE shown.decision
  BY DEF Observe
<1>3. shown.candles = seen /\ (shown.decision # Nothing => seen > WarmupCandles)
  BY DEF MonitorInv
<1>4. shown'.decision # Nothing => seen' > WarmupCandles
  <2>1. CASE Evaluated
    BY <2>1 DEF Evaluated
  <2>2. CASE ~Evaluated
    BY <1>1, <1>2, <1>3, <2>2
  <2> QED
    BY <2>1, <2>2
<1>5. CASE Untouched(c) \/ Closed(c)
  <2>1. openId' = NoPosition
    BY <1>5 DEF Untouched, Closed
  <2> QED
    BY <1>1, <1>2, <1>3, <1>4, <2>1 DEF ShownDecisionIsTheTrade
<1>6. CASE Remarked(c)
  <2>1. shown'.decision = shown.decision
    BY <1>2, <1>6, WhatIsPublished
  <2>2. openId \in DOMAIN positions /\ openId # NoPosition
    BY <1>1, <1>6 DEF Remarked, NoPosition
  <2>3. /\ openId' = openId /\ stopLoss' = stopLoss /\ target' = target
        /\ positions'[openId].direction = positions[openId].direction
        /\ positions'[openId].quantity = positions[openId].quantity
    BY <1>6, <2>2 DEF Remarked
  <2>4. shown.decision = [direction |-> positions[openId].direction, stopLoss |-> stopLoss,
                          target |-> target, size |-> positions[openId].quantity]
    BY <2>2 DEF MonitorInv, ShownDecisionIsTheTrade, Response
  <2> QED
    BY <1>1, <1>2, <1>3, <1>4, <2>1, <2>3, <2>4 DEF ShownDecisionIsTheTrade, Response
<1>7. CASE Opened(c)
  <2>1. shown'.decision = [direction |-> c.signal, stopLoss |-> CalculateStopLoss(c),
                           target |-> CalculateTarget(c), size |-> PositionSize(c)]
    BY <1>2, <1>7, WhatIsPublished DEF Assessment
  <2>2. openId' = n + 1 /\ positions'[n + 1] = OpenPosition(c)
        /\ stopLoss' = CalculateStopLoss(c) /\ target' = CalculateTarget(c)
    BY <1>7 DEF Opened
  <2>3. OpenPosition(c).direction = c.signal /\ OpenPosition(c).quantity = PositionSize(c)
    BY DEF OpenPosition
  <2> QED
    BY <1>1, <1>2, <1>3, <1>4, <2>1, <2>2, <2>3 DEF ShownDecisionIsTheTrade, Response
<1> QED
  BY <1>1, <1>5, <1>6, <1>7

\* A snapshot leaves the peak and the drawdown where a GET would find them, and
\* while warming up nothing that either is made of moves.
LEMMA QuietStep ==
  ASSUME BookInv, BookInv', MonitorInv, NEW c \in Candle, WellFormed(c), ProcessCandle(c),
         RecordCashChange, Snapshot
  PROVE  /\ TotalEquity(cash', positions') <= peakEquity'
         /\ peakEquity' - TotalEquity(cash', positions') <= maxDrawdown'
<1> DEFINE e == TotalEquity(cash', positions')
<1>1. DrawInv /\ DrawInv' /\ e \in Int
  BY DrawStep DEF MonitorInv
<1>2. CASE seen' <= WarmupCandles
  <2>1. positions = <<>> /\ positions' = <<>>
    <3>1. seen' = seen + 1 /\ seen \in Nat
      BY BookStep, BookFacts
    <3>2. seen <= WarmupCandles
      BY <1>2, <3>1, ClockAssumption
    <3> QED
      BY <1>2, <3>2 DEF BookInv, BookTimes
  <2>2. RealizedDelta = 0
    <3> DEFINE d == [i \in JustClosed |-> positions'[i].realized - positions[i].realized]
    <3>1. JustClosed = {}
      BY <2>1 DEF JustClosed
    <3>2. RealizedDelta = SumOn(d, JustClosed)
      BY DEF RealizedDelta, SumOver, FoldFunction, SumOn
    <3>3. SumOn(d, {}) = 0
      <4> HIDE DEF d
      <4> QED
        BY FS_EmptySet, SumType
    <3> QED
      BY <3>1, <3>2, <3>3
  <2>3. cash' = cash
    BY <1>1, <2>2 DEF RecordCashChange, DrawInv
  <2>4. e = TotalEquity(cash, positions)
    BY <2>1, <2>3
  <2>5. peakEquity' = peakEquity /\ maxDrawdown' = maxDrawdown
    BY <1>2 DEF Snapshot
  <2> QED
    BY <2>4, <2>5 DEF MonitorInv
<1>3. CASE ~(seen' <= WarmupCandles)
  <2>1. /\ peakEquity' = Larger(peakEquity, e)
        /\ maxDrawdown' = Larger(maxDrawdown, Larger(0, peakEquity' - e))
    BY <1>3 DEF Snapshot
  <2> HIDE DEF e
  <2>2. peakEquity \in Int /\ maxDrawdown \in Int /\ peakEquity' \in Int
    BY <1>1 DEF DrawInv
  <2>3. e <= peakEquity' /\ peakEquity' - e <= maxDrawdown'
    BY <1>1, <2>1, <2>2 DEF Larger
  <2> QED
    BY <2>3 DEF e
<1> QED
  BY <1>2, <1>3

\* Those who hear only events and those who ask between two candles see what the
\* book says: the counts, the decision behind the trade, and quiet GETs.
THEOREM MonitorAgrees == AccountSpec => []MonitorMatchesBook
<1>1. AccountInit => MonitorInv
  BY MonitorStarts
<1>2. BookInv /\ BookInv' /\ MonitorInv /\ [AccountNext]_<<vars, account>> => MonitorInv'
  <2> SUFFICES ASSUME BookInv, BookInv', MonitorInv, [AccountNext]_<<vars, account>>
               PROVE  MonitorInv'
    OBVIOUS
  <2>1. CASE UNCHANGED <<vars, account>>
    BY <2>1 DEF vars, account, MonitorInv, DrawInv, Curve, Won, Lost, Total,
                ShownDecisionIsTheTrade, Response, MarketContextKnown, PortfolioShown,
                Health, Performance, WhereStatus
  <2>2. ASSUME NEW c \in Candle, WellFormed(c), ProcessCandle(c), RecordCashChange,
               OnPositionUpdated, Snapshot, Publish(c), Observe(c)
        PROVE  MonitorInv'
    <3>1. DrawInv'
      BY <2>2, DrawStep DEF MonitorInv
    <3>2. wins' = Cardinality(Won') /\ losses' = Cardinality(Lost')
      BY <2>2, WinsAndLosses DEF MonitorInv
    <3>3. /\ counted'.submitted = Len(positions') /\ counted'.filled = Len(positions')
          /\ counted'.generated = Len(positions')
          /\ journal' \in [Journaled -> Int]
          /\ counted'.events = seen' + Total(journal')
          /\ journal'.submitted = Len(positions') /\ journal'.portfolio = Len(equities')
      BY <2>2, PublishStep
    <3>4. /\ ShownDecisionIsTheTrade' /\ shown'.candles = seen'
          /\ shown'.decision # Nothing => seen' > WarmupCandles
      BY <2>2, ShownStep
    <3>5. /\ TotalEquity(cash', positions') <= peakEquity'
          /\ peakEquity' - TotalEquity(cash', positions') <= maxDrawdown'
      BY <2>2, QuietStep
    <3>6. seen' # 0
      <4>1. seen' = seen + 1 /\ seen \in Nat
        BY <2>2, BookStep, BookFacts
      <4> QED
        BY <4>1
    <3> QED
      BY <3>1, <3>2, <3>3, <3>4, <3>5, <3>6 DEF MonitorInv, Total, TotalEquity
  <2> QED
    BY <2>1, <2>2 DEF AccountNext
<1>3. MonitorInv => MonitorMatchesBook
  BY DEF MonitorInv, MonitorMatchesBook, CountsMatch, GetsAreQuiet, Response, MarketContextKnown
<1> QED
  BY <1>1, <1>2, <1>3, BookInvariant, AccountRunsCycle, PTL DEF AccountSpec

-----------------------------------------------------------------------------
(* SignalEngine: the cycle inside *)

\* The reporting layer only listens: a step of it is a step of the cycle, so that
\* everything proved of the cycle holds here too.
THEOREM SignalsRunCycle == SignalSpec => Spec
<1>1. SignalInit => Init
  BY DEF SignalInit
<1>2. [SignalNext]_<<vars, signals>> => [Next]_vars
  <2>1. SignalNext => Next
    BY DEF SignalNext, Next
  <2>2. UNCHANGED <<vars, signals>> => UNCHANGED vars
    OBVIOUS
  <2> QED
    BY <2>1, <2>2
<1> QED
  BY <1>1, <1>2, PTL DEF SignalSpec, Spec

\* What the handlers are told of the four kinds of candle.
LEMMA WhatIsHeard ==
  ASSUME BookInv, NEW c \in Candle
  PROVE  /\ Untouched(c) \/ Remarked(c) => ~Closes /\ ~Fills
         /\ Closed(c) => Closes /\ ~Fills
         /\ Opened(c) => ~Closes /\ Fills
<1>1. /\ Len(positions) \in Nat /\ DOMAIN positions = 1 .. Len(positions)
  BY BookFacts
<1>2. Untouched(c) \/ Remarked(c) => ~Closes /\ ~Fills
  <2>1. Untouched(c) => ~Closes /\ ~Fills
    BY <1>1 DEF Untouched, Closes, Fills
  <2>2. Remarked(c) => ~Closes /\ ~Fills
    BY <1>1 DEF Remarked, Closes, Fills
  <2> QED
    BY <2>1, <2>2
<1>3. Closed(c) => Closes /\ ~Fills
  BY <1>1 DEF Closed, Closes, Fills
<1>4. Opened(c) => ~Closes /\ Fills
  BY <1>1 DEF Opened, Closes, Fills
<1> QED
  BY <1>2, <1>3, <1>4

-----------------------------------------------------------------------------
(* The dummy trades *)

Mirrors(d) ==
  LET t == dummies[d]
      p == positions[t.position]
  IN  /\ t.position \in DOMAIN positions
      /\ t.openedAt = ledger[t.position].openedAt
      /\ t.status = p.status /\ t.closedAt = ledger[t.position].closedAt
      /\ t.pnl = p.realized

\* Only the trade of the open position is bound, and an open trade always is.
TradesInv ==
  /\ dummies \in Seq(DummyTrade)
  /\ \A d \in DOMAIN dummies :
       /\ Mirrors(d)
       /\ \A e \in DOMAIN dummies : dummies[e].position = dummies[d].position => e = d
       /\ dummies[d].status = "OPEN" => openId \in DOMAIN tradeOf /\ tradeOf[openId] = d
       /\ dummies[d].status = "OPEN" <=> dummies[d].exitReason = "NONE"
  /\ \A i \in DOMAIN tradeOf :
       /\ i = openId /\ i # NoPosition
       /\ tradeOf[i] \in DOMAIN dummies /\ dummies[tradeOf[i]].position = i

\* What a trade's record is made of.
LEMMA TradeFields ==
  ASSUME NEW t \in DummyTrade
  PROVE  /\ t.position \in Nat /\ t.position > 0 /\ t.direction \in {"LONG", "SHORT"}
         /\ t.entry \in Int /\ t.stopLoss \in Int /\ t.target \in Int
         /\ t.openedAt \in Nat /\ t.closedAt \in Nat /\ t.pnl \in Int
         /\ t.status \in {"OPEN", "CLOSED"}
         /\ t.exitReason \in {"NONE", "TARGET", "STOP_LOSS", "END_OF_DAY"}
BY DEF DummyTrade

\* The record a closed trade is left with.
LEMMA ClosedTradeRecord ==
  ASSUME NEW t \in DummyTrade, NEW p, p.realized \in Int, NEW c \in Candle
  PROVE  LET x == ClosedTrade(t, p, c)
         IN  /\ x \in DummyTrade
             /\ x.status = "CLOSED" /\ x.closedAt = At(c) /\ x.pnl = p.realized
             /\ x.exitReason = InferExitReason(t, InferExitPrice(p))
             /\ x.exitReason # "NONE"
             /\ x.position = t.position /\ x.openedAt = t.openedAt
             /\ x.direction = t.direction /\ x.entry = t.entry
             /\ x.stopLoss = t.stopLoss /\ x.target = t.target
<1> DEFINE r == InferExitReason(t, InferExitPrice(p))
           s0 == [t EXCEPT !.status = "CLOSED"]
           c0 == [s0 EXCEPT !.closedAt = At(c)]
           p0 == [c0 EXCEPT !.pnl = p.realized]
           x == [p0 EXCEPT !.exitReason = r]
<1>1. At(c) \in Nat
  BY CandleType
<1>2. r \in {"TARGET", "STOP_LOSS", "END_OF_DAY"}
  BY DEF InferExitReason
<1> HIDE DEF r
<1>3. s0 \in DummyTrade
  BY DEF DummyTrade
<1> HIDE DEF s0
<1>4. c0 \in DummyTrade
  BY <1>1, <1>3 DEF DummyTrade
<1> HIDE DEF c0
<1>5. p0 \in DummyTrade
  BY <1>4 DEF DummyTrade
<1> HIDE DEF p0
<1>6. x \in DummyTrade
  BY <1>2, <1>5 DEF DummyTrade
<1> HIDE DEF x
<1>7. x = ClosedTrade(t, p, c)
  BY DEF s0, c0, p0, x, r, ClosedTrade
<1>8. x = [t EXCEPT !.status = "CLOSED", !.closedAt = At(c), !.pnl = p.realized, !.exitReason = r]
  BY DEF s0, c0, p0, x
<1>9. /\ x.status = "CLOSED" /\ x.closedAt = At(c) /\ x.pnl = p.realized /\ x.exitReason = r
      /\ x.position = t.position /\ x.openedAt = t.openedAt
      /\ x.direction = t.direction /\ x.entry = t.entry
      /\ x.stopLoss = t.stopLoss /\ x.target = t.target
  BY <1>8 DEF DummyTrade
<1>10. r # "NONE"
  BY <1>2
<1> QED
  BY <1>6, <1>7, <1>9, <1>10 DEF r

\* A candle that neither closes nor opens leaves the trades and their binding alone.
LEMMA QuietTrades ==
  ASSUME BookInv, TradesInv, NEW c \in Candle, Untouched(c) \/ Remarked(c),
         NEW s, OnTrades(c, s)
  PROVE  /\ TradesInv' /\ dummies' = dummies
         /\ ExitMessage(c) = <<>> /\ EntryMessage(c, s) = <<>>
<1>1. ~Closes /\ ~Fills
  BY WhatIsHeard
<1>2. dummies' = dummies
  BY <1>1 DEF OnTrades, Emits, CloseTrade, TradeCloses
<1>3. /\ DOMAIN tradeOf' = DOMAIN tradeOf
      /\ \A i \in DOMAIN tradeOf : tradeOf'[i] = tradeOf[i]
  BY <1>1 DEF OnTrades, BindTrade, Emits, Kept, Restrict
<1>4. ExitMessage(c) = <<>> /\ EntryMessage(c, s) = <<>>
  BY <1>1 DEF ExitMessage, TradeCloses, EntryMessage, Emits, NoTradeDue
<1>5. openId' = openId /\ ledger' = ledger /\ DOMAIN positions' = DOMAIN positions
      /\ \A i \in DOMAIN positions :
           /\ positions'[i].realized = positions[i].realized
           /\ positions'[i].status = positions[i].status
  BY DEF Untouched, Remarked
<1>6. \A d \in DOMAIN dummies : Mirrors(d) => Mirrors(d)'
  BY <1>2, <1>5 DEF Mirrors
<1>7. TradesInv'
  BY <1>2, <1>3, <1>5, <1>6 DEF TradesInv
<1> QED
  BY <1>2, <1>4, <1>7

\* An exit closes the trade bound to the position, if there is one, and no other.
LEMMA ClosedTrades ==
  ASSUME BookInv, TradesInv, NEW c \in Candle, Closed(c), NEW s, OnTrades(c, s)
  PROVE  /\ TradesInv' /\ EntryMessage(c, s) = <<>>
         /\ Len(dummies') = Len(dummies)
         /\ IF openId \in DOMAIN tradeOf
            THEN LET d == tradeOf[openId]
                 IN  /\ d \in DOMAIN dummies /\ dummies[d].status = "OPEN"
                     /\ dummies'[d] = ClosedTrade(dummies[d], positions'[openId], c)
                     /\ \A e \in DOMAIN dummies : e # d => dummies'[e] = dummies[e]
            ELSE dummies' = dummies /\ ExitMessage(c) = <<>>
<1> DEFINE n == Len(positions)
           m == Len(dummies)
<1>1. /\ n \in Nat /\ DOMAIN positions = 1 .. n /\ openId = n /\ n \in 1 .. n
      /\ n # NoPosition /\ openId' = NoPosition
      /\ DOMAIN positions' = 1 .. n /\ DOMAIN ledger = 1 .. n
      /\ \A i \in 1 .. n : i # n => positions'[i] = positions[i] /\ ledger'[i] = ledger[i]
      /\ positions[n].status = "OPEN" /\ positions'[n].status = "CLOSED"
      /\ positions'[n].realized \in Int
      /\ ledger'[n].openedAt = ledger[n].openedAt /\ ledger'[n].closedAt = At(c)
  BY BookFacts DEF Closed, NoPosition
<1>2. dummies \in Seq(DummyTrade) /\ m \in Nat /\ DOMAIN dummies = 1 .. m
  BY DEF TradesInv
<1>3. Closes /\ ~Fills
  BY WhatIsHeard
<1>4. EntryMessage(c, s) = <<>> /\ dummies' = CloseTrade(c)
  BY <1>3 DEF EntryMessage, Emits, NoTradeDue, OnTrades
<1>5. DOMAIN tradeOf' = {}
  <2>1. DOMAIN tradeOf' = DOMAIN tradeOf \ {openId}
    BY <1>3 DEF OnTrades, BindTrade, Emits, Kept, Restrict
  <2> QED
    BY <2>1 DEF TradesInv
<1>6. CASE openId \notin DOMAIN tradeOf
  <2>1. dummies' = dummies /\ ExitMessage(c) = <<>>
    BY <1>4, <1>6 DEF CloseTrade, TradeCloses, ExitMessage
  <2>2. ASSUME NEW d \in DOMAIN dummies
        PROVE  Mirrors(d)' /\ dummies[d].status # "OPEN"
    <3>1. Mirrors(d) /\ dummies[d].status # "OPEN"
      BY <1>6 DEF TradesInv
    <3>2. dummies[d].position \in 1 .. n /\ dummies[d].position # n
      BY <1>1, <3>1 DEF Mirrors
    <3> QED
      BY <1>1, <2>1, <3>1, <3>2 DEF Mirrors
  <2>3. TradesInv'
    BY <1>5, <2>1, <2>2 DEF TradesInv
  <2> QED
    BY <1>4, <1>6, <2>1, <2>3
<1>7. CASE openId \in DOMAIN tradeOf
  <2> DEFINE d == tradeOf[n]
             x == ClosedTrade(dummies[d], positions'[n], c)
  <2>1. d \in 1 .. m /\ dummies[d].position = n /\ dummies[d] \in DummyTrade
    <3>1. d \in DOMAIN dummies /\ dummies[d].position = n
      BY <1>1, <1>7 DEF TradesInv
    <3> QED
      BY <1>2, <3>1
  <2>2. /\ x \in DummyTrade /\ x.status = "CLOSED" /\ x.closedAt = At(c)
        /\ x.pnl = positions'[n].realized /\ x.exitReason # "NONE"
        /\ x.position = n /\ x.openedAt = dummies[d].openedAt
    <3>1. positions'[n].realized \in Int /\ dummies[d] \in DummyTrade
      BY <1>1, <2>1
    <3> HIDE DEF d
    <3> QED
      BY <2>1, <3>1, ClosedTradeRecord
  <2>3. dummies' = [dummies EXCEPT ![d] = x]
    BY <1>1, <1>3, <1>4, <1>7 DEF CloseTrade, TradeCloses
  <2> HIDE DEF x
  <2>4. /\ dummies' \in Seq(DummyTrade) /\ Len(dummies') = m /\ DOMAIN dummies' = 1 .. m
        /\ dummies'[d] = x /\ \A e \in 1 .. m : e # d => dummies'[e] = dummies[e]
    BY <1>2, <2>1, <2>2, <2>3, ReplaceOne
  <2>5. dummies[d].status = "OPEN"
    <3>1. Mirrors(d)
      BY <1>2, <2>1 DEF TradesInv
    <3> QED
      BY <1>1, <2>1, <3>1 DEF Mirrors
  <2>6. \A e \in 1 .. m : e # d => dummies[e].status # "OPEN" /\ dummies[e].position # n
    BY <1>1, <1>2, <1>7, <2>1 DEF TradesInv
  <2>7. ASSUME NEW e \in 1 .. m PROVE Mirrors(e)'
    <3>1. CASE e = d
      <4>1. Mirrors(d)
        BY <1>2, <2>1 DEF TradesInv
      <4>2. dummies[d].openedAt = ledger[n].openedAt
        BY <2>1, <4>1 DEF Mirrors
      <4>3. dummies'[e] = x /\ x.openedAt = ledger'[n].openedAt
        BY <1>1, <2>2, <2>4, <3>1, <4>2
      <4> QED
        BY <1>1, <2>2, <4>3 DEF Mirrors
    <3>2. CASE e # d
      <4>1. Mirrors(e) /\ dummies[e].position # n /\ dummies'[e] = dummies[e]
        BY <1>2, <2>4, <2>6, <3>2 DEF TradesInv
      <4> QED
        BY <1>1, <4>1 DEF Mirrors
    <3> QED
      BY <3>1, <3>2
  <2>8. \A e \in 1 .. m : dummies'[e].position = dummies[e].position
    BY <2>1, <2>2, <2>4
  <2>9. \A e \in 1 .. m : /\ dummies'[e].status # "OPEN"
                          /\ dummies'[e].exitReason # "NONE"
    BY <1>2, <2>2, <2>4, <2>6 DEF TradesInv
  <2>10. TradesInv'
    BY <1>2, <1>5, <2>4, <2>7, <2>8, <2>9 DEF TradesInv
  <2> QED
    BY <1>1, <1>2, <1>4, <1>7, <2>1, <2>4, <2>5, <2>10 DEF x
<1> QED
  BY <1>6, <1>7

\* An entry opens a trade for the position, bound to it, if the signal is let through.
LEMMA OpenedTrades ==
  ASSUME BookInv, TradesInv, NEW c \in Candle, Opened(c), NEW s, OnTrades(c, s)
  PROVE  /\ TradesInv' /\ ExitMessage(c) = <<>>
         /\ IF Emits(c, s)
            THEN /\ Len(dummies') = Len(dummies) + 1
                 /\ dummies'[Len(dummies) + 1] = OpenTrade(c)
                 /\ \A d \in DOMAIN dummies : dummies'[d] = dummies[d]
            ELSE dummies' = dummies
<1> DEFINE n == Len(positions)
           m == Len(dummies)
           x == OpenTrade(c)
<1>1. /\ n \in Nat /\ DOMAIN positions = 1 .. n /\ openId = NoPosition /\ openId' = n + 1
      /\ Len(positions') = n + 1 /\ DOMAIN positions' = 1 .. n + 1 /\ DOMAIN ledger = 1 .. n
      /\ \A i \in 1 .. n : positions'[i] = positions[i] /\ ledger'[i] = ledger[i]
      /\ positions'[n + 1] = OpenPosition(c)
      /\ ledger'[n + 1] = [openedAt |-> At(c), closedAt |-> Never]
  BY BookFacts DEF Opened
<1>2. dummies \in Seq(DummyTrade) /\ m \in Nat /\ DOMAIN dummies = 1 .. m
  BY DEF TradesInv
<1>3. ~Closes /\ Fills
  BY WhatIsHeard
<1>4. ExitMessage(c) = <<>> /\ CloseTrade(c) = dummies
  BY <1>3 DEF ExitMessage, CloseTrade, TradeCloses
<1>5. DOMAIN tradeOf = {} /\ \A d \in DOMAIN dummies : dummies[d].status # "OPEN"
  <2>1. DOMAIN tradeOf = {}
    BY <1>1 DEF TradesInv
  <2> QED
    BY <2>1 DEF TradesInv
<1>6. \A d \in 1 .. m : Mirrors(d) /\ dummies[d].position \in 1 .. n
  BY <1>1, <1>2 DEF TradesInv, Mirrors
<1>7. CASE ~Emits(c, s)
  <2>1. dummies' = dummies /\ DOMAIN tradeOf' = {}
    BY <1>3, <1>4, <1>5, <1>7 DEF OnTrades, BindTrade, Kept, Restrict
  <2>2. \A d \in 1 .. m : Mirrors(d)'
    BY <1>1, <1>6, <2>1 DEF Mirrors
  <2>3. TradesInv'
    BY <1>2, <1>5, <2>1, <2>2 DEF TradesInv
  <2> QED
    BY <1>4, <1>7, <2>1, <2>3
<1>8. CASE Emits(c, s)
  <2>1. dummies' = Append(dummies, x)
    BY <1>4, <1>8 DEF OnTrades
  <2>2. /\ x \in DummyTrade /\ x.position = n + 1 /\ x.openedAt = At(c)
        /\ x.status = "OPEN" /\ x.closedAt = Never /\ x.pnl = 0 /\ x.exitReason = "NONE"
    <3>1. /\ c.signal \in {"LONG", "SHORT"} /\ PositionSize(c) >= 1
          /\ stopLoss' = CalculateStopLoss(c) /\ target' = CalculateTarget(c)
      BY CandleType DEF Opened, RiskOk
    <3>2. stopLoss' \in Int /\ target' \in Int
      BY <3>1, EntryIsCovered
    <3>3. c.close \in Int /\ At(c) \in Nat
      BY CandleType
    <3> QED
      BY <1>1, <3>1, <3>2, <3>3 DEF OpenTrade, DummyTrade, Never
  <2> HIDE DEF x
  <2>3. /\ dummies' \in Seq(DummyTrade) /\ Len(dummies') = m + 1 /\ DOMAIN dummies' = 1 .. m + 1
        /\ dummies'[m + 1] = x /\ \A d \in 1 .. m : dummies'[d] = dummies[d]
    BY <1>2, <2>1, <2>2, AppendOne
  <2>4. DOMAIN tradeOf' = {n + 1} /\ tradeOf'[n + 1] = m + 1
    <3>1. tradeOf' = Bound
      BY <1>8 DEF OnTrades, BindTrade
    <3>2. DOMAIN Kept = {}
      BY <1>3, <1>5 DEF Kept, Restrict
    <3> QED
      BY <1>1, <2>3, <3>1, <3>2 DEF Bound
  <2>5. \A d \in 1 .. m : Mirrors(d)'
    BY <1>1, <1>6, <2>3 DEF Mirrors
  <2>6. ASSUME NEW d, d = m + 1 PROVE Mirrors(d)'
    <3>1. /\ positions'[n + 1].status = "OPEN" /\ positions'[n + 1].realized = 0
          /\ ledger'[n + 1].openedAt = At(c) /\ ledger'[n + 1].closedAt = Never
      BY <1>1 DEF OpenPosition
    <3>2. n + 1 \in 1 .. n + 1 /\ dummies'[m + 1] = x
      BY <1>1, <2>3
    <3> QED
      BY <1>1, <2>2, <2>6, <3>1, <3>2 DEF Mirrors
  <2>7. \A d \in 1 .. m + 1 : d = m + 1 \/ d \in 1 .. m
    BY <1>2
  <2>8. ASSUME NEW d \in 1 .. m + 1
        PROVE  /\ Mirrors(d)'
               /\ \A e \in 1 .. m + 1 : dummies'[e].position = dummies'[d].position => e = d
               /\ dummies'[d].status = "OPEN" => d = m + 1
               /\ dummies'[d].status = "OPEN" <=> dummies'[d].exitReason = "NONE"
    <3>1. Mirrors(d)'
      <4>1. CASE d = m + 1
        BY <2>6, <4>1
      <4>2. CASE d \in 1 .. m
        BY <2>5, <4>2
      <4> QED
        BY <2>7, <4>1, <4>2
    <3>2. ASSUME NEW e \in 1 .. m + 1, dummies'[e].position = dummies'[d].position PROVE e = d
      <4>1. \A i \in 1 .. m : dummies'[i].position \in 1 .. n
        BY <1>6, <2>3
      <4>2. dummies'[m + 1].position = n + 1 /\ n + 1 \notin 1 .. n
        BY <1>1, <2>2, <2>3
      <4>3. CASE d \in 1 .. m /\ e \in 1 .. m
        BY <1>2, <2>3, <3>2, <4>3 DEF TradesInv
      <4> QED
        BY <2>7, <3>2, <4>1, <4>2, <4>3
    <3>3. /\ dummies'[d].status = "OPEN" => d = m + 1
          /\ dummies'[d].status = "OPEN" <=> dummies'[d].exitReason = "NONE"
      BY <1>2, <1>5, <2>2, <2>3, <2>7 DEF TradesInv
    <3> QED
      BY <3>1, <3>2, <3>3
  <2>9. n + 1 # NoPosition
    BY <1>1 DEF NoPosition
  <2>10. TradesInv'
    BY <1>1, <1>2, <2>2, <2>3, <2>4, <2>8, <2>9 DEF TradesInv
  <2> QED
    BY <1>4, <1>8, <1>2, <2>3, <2>10 DEF x
<1> QED
  BY <1>7, <1>8

-----------------------------------------------------------------------------
(* The log of messages *)

\* The log once the summary, the first message of a candle, has been sent.
Told(c) == sentLog \o SummaryMessage(c)

Saying(kind, trade, c) == [kind |-> kind, trade |-> trade, at |-> At(c)]

\* Appending a message leaves those before it alone.
LEMMA OneMoreMessage ==
  ASSUME NEW log \in Seq(Message), NEW x \in Message
  PROVE  /\ log \o <<x>> \in Seq(Message) /\ Len(log \o <<x>>) = Len(log) + 1
         /\ DOMAIN (log \o <<x>>) = 1 .. Len(log) + 1
         /\ (log \o <<x>>)[Len(log) + 1] = x
         /\ \A k \in 1 .. Len(log) : (log \o <<x>>)[k] = log[k]
OBVIOUS

\* Saying nothing leaves the log as it is.
LEMMA NoMoreMessages ==
  ASSUME NEW log \in Seq(Message)
  PROVE  log \o <<>> = log
OBVIOUS

\* What a message is made of.
LEMMA MessageFields ==
  ASSUME NEW x \in Message
  PROVE  x.kind \in {"BUY", "TARGET_HIT", "STOPLOSS_HIT", "NO_TRADE", "DAILY_SUMMARY"}
         /\ x.trade \in Nat /\ x.at \in Nat
BY DEF Message

\* Everything the service sends is a message stamped with its candle.
LEMMA SayingIsMessage ==
  ASSUME NEW c \in Candle, NEW trade \in Nat,
         NEW kind \in {"BUY", "TARGET_HIT", "STOPLOSS_HIT", "NO_TRADE", "DAILY_SUMMARY"}
  PROVE  /\ Saying(kind, trade, c) \in Message /\ Saying(kind, trade, c).kind = kind
         /\ Saying(kind, trade, c).trade = trade /\ Saying(kind, trade, c).at = At(c)
         /\ Send(kind, trade, c) = <<Saying(kind, trade, c)>>
BY CandleType DEF Saying, Message, Send

\* The log after the summary: nothing new, or a summary.
LEMMA AfterSummary ==
  ASSUME sentLog \in Seq(Message), NEW c \in Candle
  PROVE  \/ Told(c) = sentLog
         \/ /\ SummaryDue(c)
            /\ Told(c) = sentLog \o <<Saying("DAILY_SUMMARY", 0, c)>>
<1>1. CASE SummaryDue(c)
  <2>1. Send("DAILY_SUMMARY", 0, c) = <<Saying("DAILY_SUMMARY", 0, c)>>
    BY SayingIsMessage
  <2> QED
    BY <1>1, <2>1 DEF Told, SummaryMessage
<1>2. CASE ~SummaryDue(c)
  BY <1>2, NoMoreMessages DEF Told, SummaryMessage
<1> QED
  BY <1>1, <1>2

\* Told is a log too.
LEMMA ToldIsLog ==
  ASSUME sentLog \in Seq(Message), NEW c \in Candle
  PROVE  Told(c) \in Seq(Message)
<1>1. Saying("DAILY_SUMMARY", 0, c) \in Message
  BY SayingIsMessage
<1> QED
  BY <1>1, AfterSummary, OneMoreMessage

-----------------------------------------------------------------------------
(* What is announced of a trade *)

About(log, d, kinds) == {k \in DOMAIN log : log[k].trade = d /\ log[k].kind \in kinds}

Exiting == {"TARGET_HIT", "STOPLOSS_HIT"}

Ended(log, d, t, kind) ==
  \E k \in DOMAIN log : /\ About(log, d, Exiting) = {k}
                        /\ log[k].kind = kind /\ log[k].at = t.closedAt

Announced(log, d, t) ==
  /\ \E k \in DOMAIN log : About(log, d, {"BUY"}) = {k} /\ log[k].at = t.openedAt
  /\ t.exitReason = "TARGET" => Ended(log, d, t, "TARGET_HIT")
  /\ t.exitReason = "STOP_LOSS" => Ended(log, d, t, "STOPLOSS_HIT")
  /\ t.exitReason \notin {"TARGET", "STOP_LOSS"} => About(log, d, Exiting) = {}

AlertsInv ==
  /\ sentLog \in Seq(Message)
  /\ \A d \in DOMAIN dummies : Announced(sentLog, d, dummies[d])
  /\ \A k \in DOMAIN sentLog : sentLog[k].trade \in 0 .. Len(dummies)

\* A new message is about its trade only.
LEMMA AboutOneMore ==
  ASSUME NEW log \in Seq(Message), NEW x \in Message, NEW d, NEW kinds
  PROVE  /\ x.trade = d /\ x.kind \in kinds =>
              About(log \o <<x>>, d, kinds) = About(log, d, kinds) \cup {Len(log) + 1}
         /\ ~(x.trade = d /\ x.kind \in kinds) =>
              About(log \o <<x>>, d, kinds) = About(log, d, kinds)
<1> DEFINE more == log \o <<x>>
           n == Len(log)
<1>1. /\ n \in Nat /\ DOMAIN log = 1 .. n /\ DOMAIN more = 1 .. n + 1
      /\ more[n + 1] = x /\ \A k \in 1 .. n : more[k] = log[k]
  BY OneMoreMessage
<1> HIDE DEF more, n
<1>2. \A k : k \in 1 .. n + 1 <=> k = n + 1 \/ k \in 1 .. n
  BY <1>1
<1>3. n + 1 \notin 1 .. n
  BY <1>1
<1>4. x.trade = d /\ x.kind \in kinds => About(more, d, kinds) = About(log, d, kinds) \cup {n + 1}
  BY <1>1, <1>2, <1>3 DEF About
<1>5. ~(x.trade = d /\ x.kind \in kinds) => About(more, d, kinds) = About(log, d, kinds)
  BY <1>1, <1>2, <1>3 DEF About
<1> QED
  BY <1>4, <1>5 DEF more, n

\* A message about something else leaves what is announced of a trade alone.
LEMMA StillAnnounced ==
  ASSUME NEW log \in Seq(Message), NEW x \in Message, NEW d, NEW t, Announced(log, d, t),
         x.trade # d \/ x.kind \in {"NO_TRADE", "DAILY_SUMMARY"}
  PROVE  Announced(log \o <<x>>, d, t)
<1> DEFINE more == log \o <<x>>
<1>1. About(more, d, {"BUY"}) = About(log, d, {"BUY"})
  BY AboutOneMore
<1>2. About(more, d, Exiting) = About(log, d, Exiting)
  BY AboutOneMore DEF Exiting
<1>3. \A k \in DOMAIN log : k \in DOMAIN more /\ more[k] = log[k]
  BY OneMoreMessage
<1> HIDE DEF more
<1>4. \A kind : Ended(log, d, t, kind) => Ended(more, d, t, kind)
  BY <1>2, <1>3 DEF Ended
<1>5. \E k \in DOMAIN more : About(more, d, {"BUY"}) = {k} /\ more[k].at = t.openedAt
  BY <1>1, <1>3 DEF Announced
<1> QED
  BY <1>2, <1>4, <1>5 DEF Announced, more

\* Nothing is lost by the summary.
LEMMA ToldKeeps ==
  ASSUME AlertsInv, Len(dummies) \in Nat, NEW c \in Candle
  PROVE  /\ Told(c) \in Seq(Message)
         /\ \A d \in DOMAIN dummies : Announced(Told(c), d, dummies[d])
         /\ \A k \in DOMAIN Told(c) : Told(c)[k].trade \in 0 .. Len(dummies)
<1> DEFINE x == Saying("DAILY_SUMMARY", 0, c)
<1>1. x \in Message /\ x.kind = "DAILY_SUMMARY" /\ x.trade = 0
  BY SayingIsMessage
<1>2. sentLog \in Seq(Message)
  BY DEF AlertsInv
<1> HIDE DEF x
<1>3. CASE Told(c) = sentLog
  BY <1>3 DEF AlertsInv
<1>4. CASE Told(c) = sentLog \o <<x>>
  <2>1. \A d \in DOMAIN dummies : Announced(Told(c), d, dummies[d])
    BY <1>1, <1>2, <1>4, StillAnnounced DEF AlertsInv
  <2>2. \A k \in DOMAIN Told(c) : Told(c)[k].trade \in 0 .. Len(dummies)
    <3>1. /\ Len(sentLog) \in Nat /\ DOMAIN sentLog = 1 .. Len(sentLog)
          /\ DOMAIN Told(c) = 1 .. Len(sentLog) + 1 /\ Told(c)[Len(sentLog) + 1] = x
          /\ \A k \in 1 .. Len(sentLog) : Told(c)[k] = sentLog[k]
      BY <1>1, <1>2, <1>4, OneMoreMessage
    <3>2. \A k \in 1 .. Len(sentLog) + 1 : k = Len(sentLog) + 1 \/ k \in 1 .. Len(sentLog)
      BY <3>1
    <3> QED
      BY <1>1, <3>1, <3>2 DEF AlertsInv
  <2>3. Told(c) \in Seq(Message)
    BY <1>2, ToldIsLog
  <2> QED
    BY <2>1, <2>2, <2>3
<1> QED
  BY <1>2, <1>3, <1>4, AfterSummary DEF x

\* The log of a candle that closes a position: its trade's end is announced, unless it
\* was the end of the day, or the signal had been suppressed.
LEMMA AlertsOfClose ==
  ASSUME BookInv, TradesInv, AlertsInv, NEW c \in Candle, Closed(c), NEW s, OnTrades(c, s)
  PROVE  /\ AlertsInv'
         /\ \/ sentLog' = Told(c)
            \/ \E kind \in Exiting, d \in Nat : sentLog' = Told(c) \o <<Saying(kind, d, c)>>
<1> DEFINE log == Told(c)
           m == Len(dummies)
<1>1. dummies \in Seq(DummyTrade) /\ m \in Nat /\ DOMAIN dummies = 1 .. m
  BY DEF TradesInv
<1>2. /\ log \in Seq(Message)
      /\ \A d \in 1 .. m : Announced(log, d, dummies[d])
      /\ \A k \in DOMAIN log : log[k].trade \in 0 .. m
  BY <1>1, ToldKeeps
<1>3. /\ EntryMessage(c, s) = <<>> /\ Len(dummies') = m
      /\ dummies' \in Seq(DummyTrade) /\ DOMAIN dummies' = 1 .. m
  BY <1>1, ClosedTrades DEF TradesInv
<1>4. sentLog' = (log \o ExitMessage(c)) \o <<>>
  BY <1>3 DEF OnTrades, Told
<1> HIDE DEF log
<1>5. CASE openId \notin DOMAIN tradeOf
  <2>1. dummies' = dummies /\ ExitMessage(c) = <<>>
    BY <1>5, ClosedTrades
  <2>2. sentLog' = log
    BY <1>2, <1>4, <2>1, NoMoreMessages
  <2>3. AlertsInv'
    BY <1>1, <1>2, <2>1, <2>2 DEF AlertsInv
  <2> QED
    BY <2>2, <2>3 DEF log
<1>6. CASE openId \in DOMAIN tradeOf
  <2> DEFINE d == tradeOf[openId]
             t == ClosedTrade(dummies[d], positions'[openId], c)
  <2>1. /\ d \in 1 .. m /\ dummies[d].status = "OPEN" /\ dummies'[d] = t
        /\ \A e \in 1 .. m : e # d => dummies'[e] = dummies[e]
    BY <1>1, <1>6, ClosedTrades
  <2>2. /\ t.exitReason \in {"TARGET", "STOP_LOSS", "END_OF_DAY"}
        /\ t.closedAt = At(c) /\ t.openedAt = dummies[d].openedAt
    <3>1. dummies[d] \in DummyTrade /\ positions'[openId].realized \in Int
      <4>1. Len(positions) \in DOMAIN positions /\ openId = Len(positions)
            /\ positions'[Len(positions)].realized \in Int
        BY DEF Closed
      <4> QED
        BY <1>1, <2>1, <4>1
    <3> HIDE DEF d
    <3>2. /\ t \in DummyTrade /\ t.exitReason # "NONE"
          /\ t.closedAt = At(c) /\ t.openedAt = dummies[d].openedAt
      BY <3>1, ClosedTradeRecord
    <3> HIDE DEF t
    <3> QED
      BY <3>2, TradeFields
  <2>3. ExitMessage(c) = CASE t.exitReason = "TARGET" -> Send("TARGET_HIT", d, c)
                           [] t.exitReason = "STOP_LOSS" -> Send("STOPLOSS_HIT", d, c)
                           [] OTHER -> <<>>
    <3>1. TradeCloses /\ CloseTrade(c) = dummies'
      BY <1>6, WhatIsHeard DEF TradeCloses, OnTrades, Emits
    <3> QED
      BY <2>1, <3>1 DEF ExitMessage
  <2>4. d \in Nat
    BY <1>1, <2>1
  <2> HIDE DEF d, t
  <2>5. /\ About(log, d, Exiting) = {}
        /\ \E k \in DOMAIN log : About(log, d, {"BUY"}) = {k} /\ log[k].at = t.openedAt
    <3>1. dummies[d].exitReason = "NONE"
      BY <1>1, <2>1 DEF TradesInv
    <3>2. Announced(log, d, dummies[d])
      BY <1>2, <2>1
    <3> QED
      BY <2>2, <3>1, <3>2 DEF Announced
  <2>6. CASE t.exitReason = "END_OF_DAY"
    <3>1. sentLog' = log
      BY <1>2, <1>4, <2>3, <2>6, NoMoreMessages
    <3>2. Announced(log, d, t)
      BY <2>5, <2>6 DEF Announced
    <3>3. \A e \in 1 .. m : Announced(log, e, dummies'[e])
      BY <1>2, <2>1, <3>2
    <3>4. AlertsInv'
      BY <1>2, <1>3, <3>1, <3>3 DEF AlertsInv
    <3> QED
      BY <3>1, <3>4 DEF log
  <2>7. ASSUME NEW kind \in Exiting, kind = "TARGET_HIT" <=> t.exitReason = "TARGET",
               kind = "STOPLOSS_HIT" <=> t.exitReason = "STOP_LOSS",
               ExitMessage(c) = Send(kind, d, c)
        PROVE  AlertsInv' /\ sentLog' = Told(c) \o <<Saying(kind, d, c)>>
    <3> DEFINE x == Saying(kind, d, c)
               more == log \o <<x>>
               n == Len(log)
    <3>1. x \in Message /\ x.kind = kind /\ x.trade = d /\ x.at = At(c) /\ ExitMessage(c) = <<x>>
      BY <2>4, <2>7, SayingIsMessage DEF Exiting
    <3> HIDE DEF x
    <3>2. /\ more \in Seq(Message) /\ n \in Nat /\ DOMAIN more = 1 .. n + 1 /\ DOMAIN log = 1 .. n
          /\ more[n + 1] = x /\ \A k \in 1 .. n : more[k] = log[k]
      BY <1>2, <3>1, OneMoreMessage
    <3>3. sentLog' = more
      BY <1>4, <3>1, <3>2, NoMoreMessages
    <3>4. About(more, d, Exiting) = {n + 1}
      <4>1. About(more, d, Exiting) = About(log, d, Exiting) \cup {n + 1}
        BY <1>2, <2>7, <3>1, AboutOneMore
      <4> HIDE DEF more, n
      <4> QED
        BY <2>5, <4>1
    <3>5. About(more, d, {"BUY"}) = About(log, d, {"BUY"})
      BY <1>2, <2>7, <3>1, AboutOneMore DEF Exiting
    <3>6. \A e \in 1 .. m : e # d => Announced(more, e, dummies[e])
      BY <1>2, <3>1, StillAnnounced
    <3> HIDE DEF more, n
    <3>7. Ended(more, d, t, kind)
      <4>1. n + 1 \in 1 .. n + 1
        BY <3>2
      <4> QED
        BY <2>2, <3>1, <3>2, <3>4, <4>1 DEF Ended
    <3>8. \E k \in DOMAIN more : About(more, d, {"BUY"}) = {k} /\ more[k].at = t.openedAt
      <4>1. \A k \in 1 .. n : k \in 1 .. n + 1
        BY <3>2
      <4> QED
        BY <2>5, <3>2, <3>5, <4>1
    <3>9. Announced(more, d, t)
      BY <2>7, <3>7, <3>8 DEF Announced, Exiting
    <3>10. \A e \in 1 .. m : Announced(more, e, dummies'[e])
      BY <2>1, <3>6, <3>9
    <3>11. \A k \in 1 .. n + 1 : more[k].trade \in 0 .. m
      <4>1. \A k \in 1 .. n + 1 : k = n + 1 \/ k \in 1 .. n
        BY <3>2
      <4>2. d \in 0 .. m
        BY <1>1, <2>1
      <4> QED
        BY <1>2, <3>1, <3>2, <4>1, <4>2
    <3>12. AlertsInv'
      BY <1>3, <3>2, <3>3, <3>10, <3>11 DEF AlertsInv
    <3> QED
      BY <3>3, <3>12 DEF more, x, log
  <2>8. CASE t.exitReason = "TARGET"
    BY <2>3, <2>4, <2>7, <2>8 DEF Exiting
  <2>9. CASE t.exitReason = "STOP_LOSS"
    BY <2>3, <2>4, <2>7, <2>9 DEF Exiting
  <2> QED
    BY <2>2, <2>6, <2>8, <2>9
<1> QED
  BY <1>5, <1>6

\* The log of a candle that opens a position: its trade is announced, or none is.
LEMMA AlertsOfEntry ==
  ASSUME BookInv, TradesInv, AlertsInv, NEW c \in Candle, Opened(c), NEW s, OnTrades(c, s)
  PROVE  /\ AlertsInv'
         /\ IF Emits(c, s)
            THEN sentLog' = Told(c) \o <<Saying("BUY", Len(dummies) + 1, c)>>
            ELSE IF NoTradeDue(c, s) THEN sentLog' = Told(c) \o <<Saying("NO_TRADE", 0, c)>>
                                     ELSE sentLog' = Told(c)
<1> DEFINE log == Told(c)
           m == Len(dummies)
<1>1. dummies \in Seq(DummyTrade) /\ m \in Nat /\ DOMAIN dummies = 1 .. m
  BY DEF TradesInv
<1>2. /\ log \in Seq(Message)
      /\ \A d \in 1 .. m : Announced(log, d, dummies[d])
      /\ \A k \in DOMAIN log : log[k].trade \in 0 .. m
  BY <1>1, ToldKeeps
<1>3. sentLog' = (log \o <<>>) \o EntryMessage(c, s)
  BY OpenedTrades DEF OnTrades, Told
<1>4. sentLog' = log \o EntryMessage(c, s)
  BY <1>2, <1>3, NoMoreMessages
<1>5. CASE Emits(c, s)
  <2> DEFINE x == Saying("BUY", m + 1, c)
             more == log \o <<x>>
             n == Len(log)
  <2>1. m + 1 \in Nat
    BY <1>1
  <2>2. /\ x \in Message /\ x.kind = "BUY" /\ x.trade = m + 1 /\ x.at = At(c)
        /\ Send("BUY", m + 1, c) = <<x>>
    BY <2>1, SayingIsMessage
  <2>3. EntryMessage(c, s) = <<x>>
    <3>1. \A k \in DOMAIN sentLog : sentLog[k].trade # m + 1
      BY <1>1 DEF AlertsInv
    <3>2. SignalMessage(m + 1, c) = Send("BUY", m + 1, c)
      BY <3>1 DEF SignalMessage
    <3> QED
      BY <1>5, <2>2, <3>2 DEF EntryMessage
  <2>4. sentLog' = more
    BY <1>4, <2>3
  <2> HIDE DEF x
  <2>5. /\ more \in Seq(Message) /\ n \in Nat /\ DOMAIN more = 1 .. n + 1 /\ DOMAIN log = 1 .. n
        /\ more[n + 1] = x /\ \A k \in 1 .. n : more[k] = log[k]
    BY <1>2, <2>2, OneMoreMessage
  <2>6. \A kinds : About(log, m + 1, kinds) = {}
    <3>1. \A k \in DOMAIN log : log[k].trade # m + 1
      BY <1>1, <1>2
    <3> QED
      BY <3>1 DEF About
  <2>7. About(more, m + 1, {"BUY"}) = {n + 1} /\ About(more, m + 1, Exiting) = {}
    <3>1. About(more, m + 1, {"BUY"}) = About(log, m + 1, {"BUY"}) \cup {n + 1}
      BY <1>2, <2>2, AboutOneMore
    <3>2. About(more, m + 1, Exiting) = About(log, m + 1, Exiting)
      BY <1>2, <2>2, AboutOneMore DEF Exiting
    <3> HIDE DEF more, n
    <3> QED
      BY <2>6, <3>1, <3>2
  <2>8. \A d \in 1 .. m : Announced(more, d, dummies[d])
    <3>1. \A d \in 1 .. m : x.trade # d
      BY <1>1, <2>2
    <3> QED
      BY <1>2, <2>2, <3>1, StillAnnounced
  <2>9. /\ Len(dummies') = m + 1 /\ dummies'[m + 1] = OpenTrade(c)
        /\ \A d \in 1 .. m : dummies'[d] = dummies[d]
    BY <1>1, <1>5, OpenedTrades
  <2>10. dummies' \in Seq(DummyTrade) /\ DOMAIN dummies' = 1 .. m + 1
    BY <2>1, <2>9, OpenedTrades DEF TradesInv
  <2> HIDE DEF more, n
  <2>11. Announced(more, m + 1, dummies'[m + 1])
    <3>1. OpenTrade(c).openedAt = At(c) /\ OpenTrade(c).exitReason = "NONE"
      BY DEF OpenTrade
    <3>2. n + 1 \in DOMAIN more
      BY <2>5
    <3> QED
      BY <2>2, <2>5, <2>7, <2>9, <3>1, <3>2 DEF Announced
  <2>12. \A d \in 1 .. m + 1 : Announced(more, d, dummies'[d])
    <3>1. \A d \in 1 .. m + 1 : d = m + 1 \/ d \in 1 .. m
      BY <1>1
    <3>2. \A d \in 1 .. m : Announced(more, d, dummies'[d])
      BY <2>8, <2>9
    <3> QED
      BY <2>11, <3>1, <3>2
  <2>13. \A k \in 1 .. n + 1 : more[k].trade \in 0 .. m + 1
    <3>1. \A k \in 1 .. n + 1 : k = n + 1 \/ k \in 1 .. n
      BY <2>5
    <3>2. \A k \in 1 .. n : more[k].trade \in 0 .. m
      BY <1>2, <2>5
    <3> QED
      BY <1>1, <2>2, <2>5, <3>1, <3>2
  <2>14. AlertsInv'
    BY <2>4, <2>5, <2>9, <2>10, <2>12, <2>13 DEF AlertsInv
  <2> QED
    BY <1>5, <2>4, <2>14 DEF more, x
<1>6. CASE ~Emits(c, s) /\ NoTradeDue(c, s)
  <2> DEFINE x == Saying("NO_TRADE", 0, c)
             more == log \o <<x>>
             n == Len(log)
  <2>1. x \in Message /\ x.kind = "NO_TRADE" /\ x.trade = 0 /\ Send("NO_TRADE", 0, c) = <<x>>
    BY SayingIsMessage
  <2>2. sentLog' = more /\ dummies' = dummies
    BY <1>4, <1>6, <2>1, OpenedTrades DEF EntryMessage
  <2> HIDE DEF x
  <2>3. /\ more \in Seq(Message) /\ n \in Nat /\ DOMAIN more = 1 .. n + 1 /\ DOMAIN log = 1 .. n
        /\ more[n + 1] = x /\ \A k \in 1 .. n : more[k] = log[k]
    BY <1>2, <2>1, OneMoreMessage
  <2>4. \A d \in 1 .. m : Announced(more, d, dummies[d])
    BY <1>2, <2>1, StillAnnounced
  <2> HIDE DEF more, n
  <2>5. \A k \in 1 .. n + 1 : more[k].trade \in 0 .. m
    <3>1. \A k \in 1 .. n + 1 : k = n + 1 \/ k \in 1 .. n
      BY <2>3
    <3>2. \A k \in 1 .. n : more[k].trade \in 0 .. m
      BY <1>2, <2>3
    <3>3. more[n + 1].trade \in 0 .. m
      BY <1>1, <2>1, <2>3
    <3> QED
      BY <3>1, <3>2, <3>3
  <2>6. AlertsInv'
    BY <1>1, <2>2, <2>3, <2>4, <2>5 DEF AlertsInv
  <2> QED
    BY <1>6, <2>2, <2>6 DEF more, x
<1>7. CASE ~Emits(c, s) /\ ~NoTradeDue(c, s)
  <2>1. EntryMessage(c, s) = <<>> /\ dummies' = dummies
    BY <1>7, OpenedTrades DEF EntryMessage
  <2>2. sentLog' = log
    BY <1>2, <1>4, <2>1, NoMoreMessages
  <2>3. AlertsInv'
    BY <1>1, <1>2, <2>1, <2>2 DEF AlertsInv
  <2> QED
    BY <1>7, <2>2, <2>3
<1> QED
  BY <1>5, <1>6, <1>7

-----------------------------------------------------------------------------
(* How often the operator is alerted *)

\* The messages of a kind are a cooldown apart, the last of them no later than last.
Apart(log, kind, last) ==
  /\ \A k \in DOMAIN log : log[k].kind = kind => log[k].at \in 1 .. last
  /\ \A k, l \in DOMAIN log :
       k < l /\ log[k].kind = kind /\ log[l].kind = kind => log[l].at - log[k].at >= SignalCooldown

BuysOn(log, day) == {k \in DOMAIN log : log[k].kind = "BUY" /\ DayOf(log[k].at) = day}

\* The filter's counter covers the entry alerts of its day, and no alert is later.
Capped(log, day, sent) ==
  /\ \A k \in DOMAIN log : log[k].kind = "BUY" => DayOf(log[k].at) <= day
  /\ Cardinality(BuysOn(log, day)) <= sent
  /\ \A e \in Nat : Cardinality(BuysOn(log, e)) <= MaxSignalsPerDay

FilterInv ==
  /\ lastSignalAt \in 0 .. now /\ lastNoTradeAt \in 0 .. now
  /\ signalsToday \in 0 .. MaxSignalsPerDay
  /\ filterDay \in 0 .. currentDate
  /\ Apart(sentLog, "BUY", lastSignalAt)
  /\ Apart(sentLog, "NO_TRADE", lastNoTradeAt)
  /\ Capped(sentLog, filterDay, signalsToday)

\* A later time is on no earlier day.
LEMMA DaysGrow ==
  ASSUME NEW a \in Nat, NEW b \in Nat, a <= b
  PROVE  DayOf(a) \in Nat /\ DayOf(b) \in Nat /\ DayOf(a) <= DayOf(b)
BY SMTT(30) DEF DayOf, MinutesPerDay

\* A message is sent on some day.
LEMMA DayOfMessage ==
  ASSUME NEW x \in Message
  PROVE  DayOf(x.at) \in Nat
<1>1. x.at \in Nat
  BY MessageFields
<1>2. x.at <= x.at
  BY <1>1
<1> QED
  BY <1>1, <1>2, DaysGrow

\* A message of another kind changes nothing about a kind's spacing.
LEMMA ApartOther ==
  ASSUME NEW log \in Seq(Message), NEW x \in Message, NEW kind, x.kind # kind,
         NEW last, Apart(log, kind, last)
  PROVE  Apart(log \o <<x>>, kind, last)
<1> DEFINE more == log \o <<x>>
           n == Len(log)
<1>1. /\ n \in Nat /\ DOMAIN log = 1 .. n /\ DOMAIN more = 1 .. n + 1
      /\ more[n + 1] = x /\ \A k \in 1 .. n : more[k] = log[k]
  BY OneMoreMessage
<1> HIDE DEF more, n
<1>2. \A k \in 1 .. n + 1 : k = n + 1 \/ k \in 1 .. n
  BY <1>1
<1> QED
  BY <1>1, <1>2 DEF Apart, more

\* A message let through by the cooldown keeps the spacing.
LEMMA ApartSame ==
  ASSUME NEW log \in Seq(Message), NEW x \in Message, NEW c \in Candle, x.at = At(c),
         NEW last \in 0 .. At(c), CooledDown(c, last), Apart(log, x.kind, last)
  PROVE  Apart(log \o <<x>>, x.kind, At(c))
<1> DEFINE more == log \o <<x>>
           n == Len(log)
<1>1. /\ n \in Nat /\ DOMAIN log = 1 .. n /\ DOMAIN more = 1 .. n + 1
      /\ more[n + 1] = x /\ \A k \in 1 .. n : more[k] = log[k]
  BY OneMoreMessage
<1> HIDE DEF more, n
<1>2. \A k \in 1 .. n + 1 : k = n + 1 \/ k \in 1 .. n
  BY <1>1
<1>3. At(c) \in Nat /\ At(c) > 0 /\ SignalCooldown \in Nat
  BY CandleType, SignalAssumption DEF SignalConfigAccepted
<1>4. \A k \in 1 .. n + 1 : more[k].kind = x.kind => more[k].at \in 1 .. At(c)
  <2>1. \A k \in 1 .. n : log[k].kind = x.kind => log[k].at \in 1 .. last
    BY <1>1 DEF Apart
  <2> QED
    BY <1>1, <1>2, <1>3, <2>1
<1>5. ASSUME NEW k \in 1 .. n + 1, NEW l \in 1 .. n + 1, k < l,
             more[k].kind = x.kind, more[l].kind = x.kind
      PROVE  more[l].at - more[k].at >= SignalCooldown
  <2>1. k \in 1 .. n
    BY <1>1, <1>2, <1>5
  <2>2. CASE l \in 1 .. n
    BY <1>1, <1>5, <2>1, <2>2 DEF Apart
  <2>3. CASE l = n + 1
    <3>1. log[k].at \in 1 .. last /\ more[k].at = log[k].at
      BY <1>1, <1>5, <2>1 DEF Apart
    <3>2. last # Never
      BY <3>1 DEF Never
    <3>3. At(c) - last >= SignalCooldown
      BY <3>2 DEF CooledDown
    <3> QED
      BY <1>1, <1>3, <2>3, <3>1, <3>3
  <2> QED
    BY <1>2, <2>2, <2>3
<1> QED
  BY <1>1, <1>4, <1>5 DEF Apart, more

\* The alerts of a day are finitely many.
LEMMA BuysFinite ==
  ASSUME NEW log \in Seq(Message), NEW day
  PROVE  IsFiniteSet(BuysOn(log, day)) /\ Cardinality(BuysOn(log, day)) \in Nat
<1>1. IsFiniteSet(1 .. Len(log))
  BY FS_Interval
<1>2. BuysOn(log, day) \in SUBSET (1 .. Len(log))
  BY DEF BuysOn
<1>3. IsFiniteSet(BuysOn(log, day))
  BY <1>1, <1>2, FS_Subset
<1> QED
  BY <1>3, FS_CardinalityType

\* A message that is no entry alert is not counted.
LEMMA CappedOther ==
  ASSUME NEW log \in Seq(Message), NEW x \in Message, x.kind # "BUY",
         NEW day, NEW sent, Capped(log, day, sent)
  PROVE  Capped(log \o <<x>>, day, sent)
<1> DEFINE more == log \o <<x>>
           n == Len(log)
<1>1. /\ n \in Nat /\ DOMAIN log = 1 .. n /\ DOMAIN more = 1 .. n + 1
      /\ more[n + 1] = x /\ \A k \in 1 .. n : more[k] = log[k]
  BY OneMoreMessage
<1> HIDE DEF more, n
<1>2. \A k : k \in 1 .. n + 1 <=> k = n + 1 \/ k \in 1 .. n
  BY <1>1
<1>3. \A e : BuysOn(more, e) = BuysOn(log, e)
  BY <1>1, <1>2 DEF BuysOn
<1>4. \A k \in DOMAIN more : more[k].kind = "BUY" => DayOf(more[k].at) <= day
  BY <1>1, <1>2 DEF Capped
<1> QED
  BY <1>3, <1>4 DEF Capped, more

\* The counter starts the filter's new day at nothing, and so do the alerts.
LEMMA CappedRolls ==
  ASSUME NEW log \in Seq(Message), NEW day \in Nat, NEW sent \in Nat, Capped(log, day, sent),
         NEW next \in Nat, day <= next
  PROVE  Capped(log, next, IF day = next THEN sent ELSE 0)
<1>1. CASE day = next
  BY <1>1
<1>2. CASE day # next
  <2>1. \A k \in DOMAIN log : log[k].kind = "BUY" => DayOf(log[k].at) \in Nat
    <3>1. \A x \in Message : DayOf(x.at) \in Nat
      BY DayOfMessage
    <3> QED
      BY <3>1
  <2>2. \A k \in DOMAIN log : log[k].kind = "BUY" => DayOf(log[k].at) <= next /\ DayOf(log[k].at) # next
    BY <1>2, <2>1 DEF Capped
  <2>3. BuysOn(log, next) = {}
    BY <2>2 DEF BuysOn
  <2>4. Cardinality(BuysOn(log, next)) = 0
    BY <2>3, FS_EmptySet
  <2> QED
    BY <1>2, <2>2, <2>4 DEF Capped
<1> QED
  BY <1>1, <1>2

\* An alert let through under the limit is counted.
LEMMA CappedBuy ==
  ASSUME NEW log \in Seq(Message), NEW x \in Message, x.kind = "BUY",
         NEW sent \in Nat, sent < MaxSignalsPerDay, Capped(log, DayOf(x.at), sent)
  PROVE  Capped(log \o <<x>>, DayOf(x.at), sent + 1)
<1> DEFINE more == log \o <<x>>
           n == Len(log)
           day == DayOf(x.at)
<1>1. /\ n \in Nat /\ DOMAIN log = 1 .. n /\ DOMAIN more = 1 .. n + 1
      /\ more[n + 1] = x /\ \A k \in 1 .. n : more[k] = log[k]
  BY OneMoreMessage
<1>2. day \in Nat /\ MaxSignalsPerDay \in Nat
  BY DayOfMessage, SignalAssumption DEF SignalConfigAccepted
<1> HIDE DEF more, n, day
<1>3. \A k : k \in 1 .. n + 1 <=> k = n + 1 \/ k \in 1 .. n
  BY <1>1
<1>4. n + 1 \notin 1 .. n
  BY <1>1
<1>5. BuysOn(more, day) = BuysOn(log, day) \cup {n + 1}
  BY <1>1, <1>3, <1>4 DEF BuysOn, day
<1>6. \A e : e # day => BuysOn(more, e) = BuysOn(log, e)
  BY <1>1, <1>3, <1>4 DEF BuysOn, day
<1>7. Cardinality(BuysOn(more, day)) <= sent + 1
  <2>1. /\ IsFiniteSet(BuysOn(log, day)) /\ Cardinality(BuysOn(log, day)) \in Nat
        /\ Cardinality(BuysOn(log, day)) <= sent
    BY BuysFinite DEF Capped, day
  <2>2. n + 1 \notin BuysOn(log, day)
    BY <1>1, <1>4 DEF BuysOn
  <2>3. Cardinality(BuysOn(log, day) \cup {n + 1}) = Cardinality(BuysOn(log, day)) + 1
    BY <2>1, <2>2, FS_AddElement
  <2> QED
    BY <1>5, <2>1, <2>3
<1>8. \A e \in Nat : Cardinality(BuysOn(more, e)) <= MaxSignalsPerDay
  <2>1. Cardinality(BuysOn(more, day)) <= MaxSignalsPerDay
    <3>1. IsFiniteSet(BuysOn(log, day) \cup {n + 1})
      BY BuysFinite, FS_AddElement
    <3>2. Cardinality(BuysOn(more, day)) \in Nat
      BY <1>5, <3>1, FS_CardinalityType
    <3> QED
      BY <1>2, <1>7, <3>2
  <2>2. \A e \in Nat : e # day => Cardinality(BuysOn(more, e)) <= MaxSignalsPerDay
    BY <1>6 DEF Capped
  <2> QED
    BY <2>1, <2>2
<1>9. \A k \in DOMAIN more : more[k].kind = "BUY" => DayOf(more[k].at) <= day
  <2>1. \A k \in 1 .. n : more[k].kind = "BUY" => DayOf(more[k].at) <= day
    BY <1>1 DEF Capped, day
  <2>2. DayOf(more[n + 1].at) <= day
    BY <1>1, <1>2 DEF day
  <2> QED
    BY <1>1, <1>3, <2>1, <2>2
<1> QED
  BY <1>7, <1>8, <1>9 DEF Capped, more, day

\* The summary is no alert.
LEMMA ToldApart ==
  ASSUME AlertsInv, FilterInv, NEW c \in Candle
  PROVE  /\ Apart(Told(c), "BUY", lastSignalAt) /\ Apart(Told(c), "NO_TRADE", lastNoTradeAt)
         /\ Capped(Told(c), filterDay, signalsToday)
<1> DEFINE x == Saying("DAILY_SUMMARY", 0, c)
<1>1. x \in Message /\ x.kind = "DAILY_SUMMARY"
  BY SayingIsMessage
<1>2. sentLog \in Seq(Message)
  BY DEF AlertsInv
<1> HIDE DEF x
<1>3. CASE Told(c) = sentLog
  BY <1>3 DEF FilterInv
<1>4. CASE Told(c) = sentLog \o <<x>>
  BY <1>1, <1>2, <1>4, ApartOther, CappedOther DEF FilterInv
<1> QED
  BY <1>2, <1>3, <1>4, AfterSummary DEF x

\* A candle on which no order is filled alerts nobody of an entry.
LEMMA FilterWithoutFill ==
  ASSUME BookInv, FilterInv, AlertsInv, NEW c \in Candle, NEW s, RecordEmitted(c, s), ~Fills,
         now' = At(c), currentDate' = c.day, At(c) > now, currentDate <= c.day,
         \/ sentLog' = Told(c)
         \/ \E kind \in Exiting, d \in Nat : sentLog' = Told(c) \o <<Saying(kind, d, c)>>
  PROVE  FilterInv'
<1>1. /\ lastSignalAt' = lastSignalAt /\ filterDay' = filterDay
      /\ signalsToday' = signalsToday /\ lastNoTradeAt' = lastNoTradeAt
  BY DEF RecordEmitted, Emits, NoTradeDue
<1>2. /\ Apart(sentLog', "BUY", lastSignalAt) /\ Apart(sentLog', "NO_TRADE", lastNoTradeAt)
      /\ Capped(sentLog', filterDay, signalsToday)
  <2>1. Told(c) \in Seq(Message)
    BY ToldIsLog DEF AlertsInv
  <2>2. CASE sentLog' = Told(c)
    BY <2>2, ToldApart
  <2>3. ASSUME NEW kind \in Exiting, NEW d \in Nat, sentLog' = Told(c) \o <<Saying(kind, d, c)>>
        PROVE  /\ Apart(sentLog', "BUY", lastSignalAt) /\ Apart(sentLog', "NO_TRADE", lastNoTradeAt)
               /\ Capped(sentLog', filterDay, signalsToday)
    <3> DEFINE x == Saying(kind, d, c)
    <3>1. x \in Message /\ x.kind # "BUY" /\ x.kind # "NO_TRADE"
      BY SayingIsMessage DEF Exiting
    <3> HIDE DEF x
    <3>2. sentLog' = Told(c) \o <<x>>
      BY <2>3 DEF x
    <3> QED
      BY <2>1, <3>1, <3>2, ToldApart, ApartOther, CappedOther
  <2> QED
    BY <2>2, <2>3
<1>3. At(c) \in Nat /\ c.day \in Nat /\ now \in Nat /\ currentDate \in Nat
  BY CandleType, BookFacts
<1> QED
  BY <1>1, <1>2, <1>3 DEF FilterInv

\* A candle on which one is filled alerts of it once, or not, as the filter decides.
LEMMA FilterOnFill ==
  ASSUME BookInv, FilterInv, AlertsInv, NEW c \in Candle, NEW s, RecordEmitted(c, s), Fills,
         now' = At(c), currentDate' = c.day, At(c) > now, currentDate <= c.day,
         DayOf(At(c)) = c.day, Len(dummies) \in Nat,
         IF Emits(c, s)
         THEN sentLog' = Told(c) \o <<Saying("BUY", Len(dummies) + 1, c)>>
         ELSE IF NoTradeDue(c, s) THEN sentLog' = Told(c) \o <<Saying("NO_TRADE", 0, c)>>
                                  ELSE sentLog' = Told(c)
  PROVE  FilterInv'
<1> DEFINE log == Told(c)
<1>1. /\ At(c) \in Nat /\ c.day \in Nat /\ now \in Nat /\ currentDate \in Nat
      /\ MaxSignalsPerDay \in Nat
  BY CandleType, BookFacts, SignalAssumption DEF SignalConfigAccepted
<1>2. /\ log \in Seq(Message)
      /\ Apart(log, "BUY", lastSignalAt) /\ Apart(log, "NO_TRADE", lastNoTradeAt)
      /\ Capped(log, filterDay, signalsToday)
  BY ToldApart, ToldIsLog DEF AlertsInv
<1>3. /\ lastSignalAt \in 0 .. At(c) /\ lastNoTradeAt \in 0 .. At(c)
      /\ filterDay \in 0 .. c.day /\ signalsToday \in 0 .. MaxSignalsPerDay
  BY <1>1 DEF FilterInv
<1>4. Capped(log, c.day, SentOn(c)) /\ SentOn(c) \in 0 .. MaxSignalsPerDay /\ SentOn(c) \in Nat
  <2>1. SentOn(c) = (IF filterDay = c.day THEN signalsToday ELSE 0)
    BY DEF SentOn
  <2>2. filterDay \in Nat /\ signalsToday \in Nat /\ filterDay <= c.day
    BY <1>1, <1>3
  <2> HIDE DEF log
  <2>3. Capped(log, c.day, IF filterDay = c.day THEN signalsToday ELSE 0)
    BY <1>1, <1>2, <2>2, CappedRolls
  <2> QED
    BY <1>1, <1>3, <2>1, <2>3
<1>5. filterDay' = c.day
  BY DEF RecordEmitted
<1>6. CASE Emits(c, s)
  <2> DEFINE x == Saying("BUY", Len(dummies) + 1, c)
  <2>1. Len(dummies) + 1 \in Nat
    OBVIOUS
  <2>2. x \in Message /\ x.kind = "BUY" /\ x.at = At(c)
    BY <2>1, SayingIsMessage
  <2> HIDE DEF x, log
  <2>3. /\ sentLog' = log \o <<x>> /\ lastSignalAt' = At(c) /\ lastNoTradeAt' = lastNoTradeAt
        /\ signalsToday' = SentOn(c) + 1
    <3>1. ~NoTradeDue(c, s)
      BY <1>6 DEF Emits, ShouldEmit, NoTradeDue
    <3> QED
      BY <1>6, <3>1 DEF RecordEmitted, x, log
  <2>4. CooledDown(c, lastSignalAt) /\ SentOn(c) < MaxSignalsPerDay
    BY <1>6 DEF Emits, ShouldEmit
  <2>5. Apart(sentLog', "BUY", At(c))
    BY <1>2, <1>3, <2>2, <2>3, <2>4, ApartSame
  <2>6. Apart(sentLog', "NO_TRADE", lastNoTradeAt)
    BY <1>2, <2>2, <2>3, ApartOther
  <2>7. Capped(sentLog', c.day, SentOn(c) + 1)
    <3>1. DayOf(x.at) = c.day
      BY <2>2
    <3>2. Capped(log, DayOf(x.at), SentOn(c))
      BY <1>4, <3>1
    <3>3. Capped(log \o <<x>>, DayOf(x.at), SentOn(c) + 1)
      BY <1>2, <1>4, <2>2, <2>4, <3>2, CappedBuy
    <3> QED
      BY <2>3, <3>1, <3>3
  <2>8. SentOn(c) + 1 \in 0 .. MaxSignalsPerDay
    BY <1>1, <1>4, <2>4
  <2> QED
    BY <1>1, <1>3, <1>5, <2>3, <2>5, <2>6, <2>7, <2>8 DEF FilterInv
<1>7. CASE ~Emits(c, s)
  <2>1. lastSignalAt' = lastSignalAt /\ signalsToday' = SentOn(c) + 0
    BY <1>7 DEF RecordEmitted
  <2>2. signalsToday' = SentOn(c)
    BY <1>4, <2>1
  <2>3. CASE NoTradeDue(c, s)
    <3> DEFINE x == Saying("NO_TRADE", 0, c)
    <3>1. x \in Message /\ x.kind = "NO_TRADE" /\ x.at = At(c)
      BY SayingIsMessage
    <3> HIDE DEF x, log
    <3>2. sentLog' = log \o <<x>> /\ lastNoTradeAt' = At(c)
      BY <1>7, <2>3 DEF RecordEmitted, x, log
    <3>3. CooledDown(c, lastNoTradeAt)
      BY <2>3 DEF NoTradeDue
    <3>4. Apart(sentLog', "NO_TRADE", At(c))
      BY <1>2, <1>3, <3>1, <3>2, <3>3, ApartSame
    <3>5. Apart(sentLog', "BUY", lastSignalAt) /\ Capped(sentLog', c.day, SentOn(c))
      BY <1>2, <1>4, <3>1, <3>2, ApartOther, CappedOther
    <3> QED
      BY <1>1, <1>3, <1>4, <1>5, <2>1, <2>2, <3>2, <3>4, <3>5 DEF FilterInv
  <2>4. CASE ~NoTradeDue(c, s)
    <3>1. sentLog' = log /\ lastNoTradeAt' = lastNoTradeAt
      BY <1>7, <2>4 DEF RecordEmitted
    <3> HIDE DEF log
    <3> QED
      BY <1>1, <1>2, <1>3, <1>4, <1>5, <2>1, <2>2, <3>1 DEF FilterInv
  <2> QED
    BY <2>3, <2>4
<1> QED
  BY <1>6, <1>7

-----------------------------------------------------------------------------
(* One candle, whatever it does *)

\* Trades, alerts and the filter stay right on every candle.
LEMMA ListenersStep ==
  ASSUME BookInv, TradesInv, AlertsInv, FilterInv, NEW c \in Candle, WellFormed(c),
         ProcessCandle(c), NEW s, RecordEmitted(c, s), OnTrades(c, s)
  PROVE  TradesInv' /\ AlertsInv' /\ FilterInv'
<1>1. /\ now' = At(c) /\ currentDate' = c.day /\ At(c) > now /\ DayOf(At(c)) = c.day
      /\ Untouched(c) \/ Remarked(c) \/ Closed(c) \/ Opened(c)
  BY BookStep
<1>2. currentDate <= c.day
  <2>1. now \in Nat /\ At(c) \in Nat /\ now <= At(c) /\ DayOf(now) = currentDate
    BY <1>1, BookFacts, CandleType DEF BookInv, BookTimes
  <2> QED
    BY <1>1, <2>1, DaysGrow
<1>3. Len(dummies) \in Nat
  BY DEF TradesInv
<1>4. CASE Untouched(c) \/ Remarked(c)
  <2>1. /\ TradesInv' /\ dummies' = dummies
        /\ ExitMessage(c) = <<>> /\ EntryMessage(c, s) = <<>>
    BY <1>4, QuietTrades
  <2>2. sentLog' = (Told(c) \o <<>>) \o <<>>
    BY <2>1 DEF OnTrades, Told
  <2>3. Told(c) \in Seq(Message)
    BY ToldIsLog DEF AlertsInv
  <2>4. sentLog' = Told(c)
    BY <2>2, <2>3, NoMoreMessages
  <2>5. AlertsInv'
    BY <1>3, <2>1, <2>4, ToldKeeps DEF AlertsInv
  <2>6. ~Fills
    BY <1>4, WhatIsHeard
  <2> QED
    BY <1>1, <1>2, <2>1, <2>4, <2>5, <2>6, FilterWithoutFill
<1>5. CASE Closed(c)
  <2>1. TradesInv'
    BY <1>5, ClosedTrades
  <2>2. /\ AlertsInv'
        /\ \/ sentLog' = Told(c)
           \/ \E kind \in Exiting, d \in Nat : sentLog' = Told(c) \o <<Saying(kind, d, c)>>
    BY <1>5, AlertsOfClose
  <2>3. ~Fills
    BY <1>5, WhatIsHeard
  <2> QED
    BY <1>1, <1>2, <2>1, <2>2, <2>3, FilterWithoutFill
<1>6. CASE Opened(c)
  <2>1. TradesInv'
    BY <1>6, OpenedTrades
  <2>2. /\ AlertsInv'
        /\ IF Emits(c, s)
           THEN sentLog' = Told(c) \o <<Saying("BUY", Len(dummies) + 1, c)>>
           ELSE IF NoTradeDue(c, s) THEN sentLog' = Told(c) \o <<Saying("NO_TRADE", 0, c)>>
                                    ELSE sentLog' = Told(c)
    BY <1>6, AlertsOfEntry
  <2>3. Fills
    BY <1>6, WhatIsHeard
  <2> QED
    BY <1>1, <1>2, <1>3, <2>1, <2>2, <2>3, FilterOnFill
<1> QED
  BY <1>1, <1>4, <1>5, <1>6

\* A closed trade is not touched again, and one that closes does so now.
LEMMA ClosedTradesKept ==
  ASSUME BookInv, TradesInv, NEW c \in Candle, WellFormed(c), ProcessCandle(c),
         NEW s, OnTrades(c, s)
  PROVE  /\ \A d \in DOMAIN dummies :
              /\ d \in DOMAIN dummies'
              /\ dummies[d].status = "CLOSED" => dummies'[d] = dummies[d]
         /\ \A d \in DOMAIN dummies' : dummies'[d].status = "CLOSED" =>
              \/ d \in DOMAIN dummies /\ dummies[d].status = "CLOSED"
              \/ openId # NoPosition /\ dummies'[d].closedAt = At(c)
<1> DEFINE m == Len(dummies)
<1>1. dummies \in Seq(DummyTrade) /\ m \in Nat /\ DOMAIN dummies = 1 .. m
  BY DEF TradesInv
<1>2. Untouched(c) \/ Remarked(c) \/ Closed(c) \/ Opened(c)
  BY BookStep
<1>3. CASE Untouched(c) \/ Remarked(c)
  BY <1>3, QuietTrades
<1>4. CASE Closed(c)
  <2>1. TradesInv' /\ Len(dummies') = m
    BY <1>4, ClosedTrades
  <2>2. DOMAIN dummies' = 1 .. m
    BY <2>1 DEF TradesInv
  <2>3. /\ openId # NoPosition /\ openId = Len(positions) /\ openId \in DOMAIN positions
        /\ positions'[openId].realized \in Int
    BY <1>4, BookFacts DEF Closed, NoPosition
  <2>4. CASE openId \notin DOMAIN tradeOf
    <3>1. dummies' = dummies
      BY <1>4, <2>4, ClosedTrades
    <3> QED
      BY <3>1
  <2>5. CASE openId \in DOMAIN tradeOf
    <3> DEFINE d == tradeOf[openId]
    <3>1. /\ d \in DOMAIN dummies /\ dummies[d].status = "OPEN"
          /\ dummies'[d] = ClosedTrade(dummies[d], positions'[openId], c)
          /\ \A e \in DOMAIN dummies : e # d => dummies'[e] = dummies[e]
      BY <1>4, <2>5, ClosedTrades
    <3>2. dummies[d] \in DummyTrade
      BY <1>1, <3>1
    <3> HIDE DEF d
    <3>3. dummies'[d].closedAt = At(c)
      BY <2>3, <3>1, <3>2, ClosedTradeRecord
    <3> QED
      BY <1>1, <2>2, <2>3, <3>1, <3>3
  <2> QED
    BY <2>4, <2>5
<1>5. CASE Opened(c)
  <2>1. CASE ~Emits(c, s)
    BY <1>5, <2>1, OpenedTrades
  <2>2. CASE Emits(c, s)
    <3>1. /\ Len(dummies') = m + 1 /\ dummies'[m + 1] = OpenTrade(c)
          /\ \A d \in DOMAIN dummies : dummies'[d] = dummies[d]
      BY <1>5, <2>2, OpenedTrades
    <3>2. DOMAIN dummies' = 1 .. m + 1
      BY <1>5, <3>1, OpenedTrades DEF TradesInv
    <3>3. dummies'[m + 1].status = "OPEN"
      BY <3>1 DEF OpenTrade
    <3>4. \A d \in 1 .. m + 1 : d = m + 1 \/ d \in 1 .. m
      BY <1>1
    <3>5. \A d \in 1 .. m : d \in 1 .. m + 1
      BY <1>1
    <3> QED
      BY <1>1, <3>1, <3>2, <3>3, <3>4, <3>5
  <2> QED
    BY <2>1, <2>2
<1> QED
  BY <1>2, <1>3, <1>4, <1>5

-----------------------------------------------------------------------------
(* The daily reports *)

Report == [day : Nat, trades : SUBSET Nat, buyCe : Nat, buyPe : Nat, winning : Nat,
           losing : Nat, net : Int, best : Int, worst : Int]

FiguresHold(r) ==
  /\ r.net = NetPnl(r.trades)
  /\ r.buyCe + r.buyPe = Cardinality(r.trades)
  /\ r.winning + r.losing = Cardinality(r.trades)
  /\ \A d \in r.trades : dummies[d].pnl \in r.worst .. r.best

\* A total is a sum over its index set.
LEMMA TotalIsSum ==
  ASSUME NEW f
  PROVE  TotalOf(f) = SumOn(f, DOMAIN f)
BY DEF TotalOf, FoldFunction, SumOn

\* The net figure of some trades is a sum over them.
LEMMA NetIsSum ==
  ASSUME TradesInv, NEW T \in SUBSET DOMAIN dummies
  PROVE  /\ IsFiniteSet(T) /\ \A d \in T : dummies[d].pnl \in Int /\ dummies[d] \in DummyTrade
         /\ NetPnl(T) = SumOn([d \in T |-> dummies[d].pnl], T) /\ NetPnl(T) \in Int
<1> DEFINE f == [d \in T |-> dummies[d].pnl]
<1>1. dummies \in Seq(DummyTrade) /\ Len(dummies) \in Nat /\ DOMAIN dummies = 1 .. Len(dummies)
  BY DEF TradesInv
<1>2. IsFiniteSet(T)
  <2>1. IsFiniteSet(1 .. Len(dummies))
    BY <1>1, FS_Interval
  <2> QED
    BY <1>1, <2>1, FS_Subset
<1>3. \A d \in T : dummies[d] \in DummyTrade
  BY <1>1
<1>4. \A d \in T : dummies[d].pnl \in Int
  BY <1>3, TradeFields
<1>5. NetPnl(T) = SumOn(f, T)
  BY TotalIsSum DEF NetPnl
<1>6. \A d \in T : f[d] \in Int
  BY <1>4
<1> HIDE DEF f
<1>7. SumOn(f, T) \in Int
  BY <1>2, <1>6, SumType
<1> QED
  BY <1>2, <1>3, <1>4, <1>5, <1>7 DEF f

\* A set is split by a test into two that share its members out.
LEMMA TwoParts ==
  ASSUME NEW S, IsFiniteSet(S), NEW A \in SUBSET S
  PROVE  /\ Cardinality(A) \in Nat /\ Cardinality(S \ A) \in Nat
         /\ Cardinality(A) + Cardinality(S \ A) = Cardinality(S)
<1>1. IsFiniteSet(A) /\ IsFiniteSet(S \ A)
  BY FS_Subset
<1>2. S = A \cup (S \ A) /\ A \cap (S \ A) = {}
  OBVIOUS
<1>3. Cardinality(A \cup (S \ A)) = Cardinality(A) + Cardinality(S \ A) - Cardinality(A \cap (S \ A))
  BY <1>1, FS_Union
<1>4. Cardinality({}) = 0
  BY FS_EmptySet
<1>5. Cardinality(A) \in Nat /\ Cardinality(S \ A) \in Nat
  BY <1>1, FS_CardinalityType
<1>6. Cardinality(S) = Cardinality(A) + Cardinality(S \ A) - 0
  BY <1>2, <1>3, <1>4
<1> QED
  BY <1>5, <1>6

\* The figures of a report, when it is made.
LEMMA NewReport ==
  ASSUME TradesInv, NEW day \in Nat
  PROVE  LET r == BuildDailyReport(day)
         IN  r \in Report /\ r.day = day /\ r.trades = TradesClosedOn(day) /\ FiguresHold(r)
<1> DEFINE T == TradesClosedOn(day)
           pnls == {dummies[d].pnl : d \in T}
           long == {d \in T : dummies[d].direction = "LONG"}
           short == {d \in T : dummies[d].direction = "SHORT"}
           r == BuildDailyReport(day)
<1>1. T \in SUBSET DOMAIN dummies /\ T \in SUBSET Nat
  BY DEF TradesClosedOn, TradesClosedBetween, TradesInv
<1> HIDE DEF T
<1>2. /\ IsFiniteSet(T) /\ \A d \in T : dummies[d].pnl \in Int /\ dummies[d] \in DummyTrade
      /\ NetPnl(T) \in Int
  BY <1>1, NetIsSum
<1>3. long \in SUBSET T /\ short = T \ long
  <2>1. \A d \in T : dummies[d].direction \in {"LONG", "SHORT"}
    BY <1>2, TradeFields
  <2> QED
    BY <2>1
<1>4. /\ Cardinality(long) \in Nat /\ Cardinality(short) \in Nat
      /\ Cardinality(long) + Cardinality(short) = Cardinality(T)
  <2> HIDE DEF long, short
  <2> QED
    BY <1>2, <1>3, TwoParts
<1>5. Winners(T) \in SUBSET T
  BY DEF Winners
<1>6. /\ Cardinality(Winners(T)) \in Nat /\ Cardinality(T \ Winners(T)) \in Nat
      /\ Cardinality(Winners(T)) + Cardinality(T \ Winners(T)) = Cardinality(T)
  BY <1>2, <1>5, TwoParts
<1>7. /\ IsFiniteSet(pnls) /\ \A x \in pnls : x \in Int
      /\ \A d \in T : dummies[d].pnl \in pnls
      /\ pnls = {} <=> T = {}
  <2>1. [d \in T |-> dummies[d].pnl] \in Surjection(T, pnls)
    BY DEF Surjection
  <2>2. IsFiniteSet(pnls)
    <3> HIDE DEF pnls
    <3> QED
      BY <1>2, <2>1, FS_Surjection
  <2> QED
    BY <1>2, <2>2
<1> DEFINE best == IF T = {} THEN 0 ELSE Max(pnls)
           worst == IF T = {} THEN 0 ELSE Min(pnls)
<1>8. r = [day |-> day, trades |-> T, buyCe |-> Cardinality(long), buyPe |-> Cardinality(short),
           winning |-> Cardinality(Winners(T)), losing |-> Cardinality(T \ Winners(T)),
           net |-> NetPnl(T), best |-> best, worst |-> worst]
  BY DEF BuildDailyReport, T
<1> HIDE DEF long, short, pnls
<1>9. best \in Int /\ worst \in Int /\ \A d \in T : dummies[d].pnl \in worst .. best
  <2>1. CASE T = {}
    BY <2>1
  <2>2. CASE T # {}
    <3>1. /\ Max(pnls) \in pnls /\ \A y \in pnls : Max(pnls) >= y
          /\ Min(pnls) \in pnls /\ \A y \in pnls : Min(pnls) <= y
      BY <1>7, <2>2, MaxMinOf
    <3>2. best = Max(pnls) /\ worst = Min(pnls)
      BY <2>2
    <3> QED
      BY <1>7, <3>1, <3>2
  <2> QED
    BY <2>1, <2>2
<1> HIDE DEF best, worst, r
<1>10. r \in Report
  BY <1>1, <1>2, <1>4, <1>6, <1>8, <1>9 DEF Report
<1>11. r.day = day /\ r.trades = T
  BY <1>8
<1>12. FiguresHold(r)
  BY <1>4, <1>6, <1>8, <1>9 DEF FiguresHold
<1> QED
  BY <1>10, <1>11, <1>12 DEF r, T

\* A report has the trades closed on its day up to its candle, and they stay those;
\* once a candle has come at the close, none of the day is left to be closed.
ReportHolds(r) ==
  /\ r.day <= currentDate
  /\ r.day = currentDate => MinuteOf(now) >= SummaryTime
  /\ r.trades \subseteq TradesClosedOn(r.day)
  /\ r.day \in closingDays => r.trades = TradesClosedOn(r.day)
  /\ FiguresHold(r)

ReportsInv ==
  /\ reports \in Seq(Report)
  /\ \A r \in DOMAIN reports : ReportHolds(reports[r])
  /\ \A r, s \in DOMAIN reports : r < s => reports[r].day < reports[s].day
  /\ \A day \in closingDays : day \in Nat /\ day <= currentDate
  /\ currentDate \in closingDays => openId = NoPosition /\ MinuteOf(now) >= MarketClose
  /\ openSeenOn \in Nat
  /\ \A d \in DOMAIN dummies : dummies[d].status = "CLOSED" => DayOf(dummies[d].closedAt) \in Days

\* Within a day the minutes grow with the time.
LEMMA MinutesGrow ==
  ASSUME NEW a \in Nat, NEW b \in Nat, a < b, DayOf(a) = DayOf(b)
  PROVE  MinuteOf(a) \in Nat /\ MinuteOf(b) \in Nat /\ MinuteOf(a) < MinuteOf(b)
<1>1. /\ a = 1440 * DayOf(a) + MinuteOf(a) /\ b = 1440 * DayOf(b) + MinuteOf(b)
      /\ DayOf(a) \in Int /\ MinuteOf(a) \in Nat /\ MinuteOf(b) \in Nat
  BY SMTT(30) DEF DayOf, MinuteOf, MinutesPerDay
<1> QED
  BY <1>1

\* The trades closed on a day, read without the interval.
LEMMA ClosedOnDay ==
  ASSUME TradesInv, NEW day \in Nat
  PROVE  TradesClosedOn(day) = {d \in DOMAIN dummies : /\ dummies[d].status = "CLOSED"
                                                       /\ DayOf(dummies[d].closedAt) = day}
<1>1. \A d \in DOMAIN dummies : DayOf(dummies[d].closedAt) \in Nat
  <2> SUFFICES ASSUME NEW d \in DOMAIN dummies PROVE DayOf(dummies[d].closedAt) \in Nat
    OBVIOUS
  <2>1. dummies \in Seq(DummyTrade)
    BY DEF TradesInv
  <2>2. dummies[d] \in DummyTrade
    BY <2>1
  <2>3. dummies[d].closedAt \in Nat
    BY <2>2, TradeFields
  <2>4. dummies[d].closedAt <= dummies[d].closedAt
    BY <2>3
  <2> QED
    BY <2>3, <2>4, DaysGrow
<1>2. \A k \in Nat : k \in day .. day <=> k = day
  OBVIOUS
<1> QED
  BY <1>1, <1>2 DEF TradesClosedOn, TradesClosedBetween

\* The same in the state after a candle.
LEMMA ClosedOnDayAfter ==
  ASSUME TradesInv', NEW day \in Nat
  PROVE  TradesClosedOn(day)' = {d \in DOMAIN dummies' : /\ dummies'[d].status = "CLOSED"
                                                         /\ DayOf(dummies'[d].closedAt) = day}
<1>1. \A d \in DOMAIN dummies' : DayOf(dummies'[d].closedAt) \in Nat
  <2> SUFFICES ASSUME NEW d \in DOMAIN dummies' PROVE DayOf(dummies'[d].closedAt) \in Nat
    OBVIOUS
  <2>1. dummies' \in Seq(DummyTrade)
    BY DEF TradesInv
  <2>2. dummies'[d] \in DummyTrade
    BY <2>1
  <2>3. dummies'[d].closedAt \in Nat
    BY <2>2, TradeFields
  <2>4. dummies'[d].closedAt <= dummies'[d].closedAt
    BY <2>3
  <2> QED
    BY <2>3, <2>4, DaysGrow
<1>2. \A k \in Nat : k \in day .. day <=> k = day
  OBVIOUS
<1> QED
  BY <1>1, <1>2 DEF TradesClosedOn, TradesClosedBetween

\* What a candle adds to the trades closed on a day.
LEMMA ClosedOnGrows ==
  ASSUME BookInv, TradesInv, TradesInv', NEW c \in Candle, WellFormed(c), ProcessCandle(c),
         NEW s, OnTrades(c, s), NEW day \in Nat
  PROVE  /\ TradesClosedOn(day) \subseteq TradesClosedOn(day)'
         /\ day # c.day \/ openId = NoPosition => TradesClosedOn(day)' = TradesClosedOn(day)
<1>1. DayOf(At(c)) = c.day
  BY StampParts
<1>2. /\ \A d \in DOMAIN dummies :
           /\ d \in DOMAIN dummies'
           /\ dummies[d].status = "CLOSED" => dummies'[d] = dummies[d]
      /\ \A d \in DOMAIN dummies' : dummies'[d].status = "CLOSED" =>
           \/ d \in DOMAIN dummies /\ dummies[d].status = "CLOSED"
           \/ openId # NoPosition /\ dummies'[d].closedAt = At(c)
  BY ClosedTradesKept
<1>3. /\ TradesClosedOn(day) = {d \in DOMAIN dummies : /\ dummies[d].status = "CLOSED"
                                                       /\ DayOf(dummies[d].closedAt) = day}
      /\ TradesClosedOn(day)' = {d \in DOMAIN dummies' : /\ dummies'[d].status = "CLOSED"
                                                         /\ DayOf(dummies'[d].closedAt) = day}
  BY ClosedOnDay, ClosedOnDayAfter
<1>4. TradesClosedOn(day) \subseteq TradesClosedOn(day)'
  BY <1>2, <1>3
<1>5. ASSUME day # c.day \/ openId = NoPosition
      PROVE  TradesClosedOn(day)' \subseteq TradesClosedOn(day)
  BY <1>1, <1>2, <1>3, <1>5
<1> QED
  BY <1>4, <1>5

\* The figures of a report of closed trades are not disturbed.
LEMMA FiguresKept ==
  ASSUME BookInv, TradesInv, NEW c \in Candle, WellFormed(c), ProcessCandle(c),
         NEW s, OnTrades(c, s), NEW k, NEW r, reports'[k] = r, FiguresHold(r),
         NEW day \in Nat, r.trades \subseteq TradesClosedOn(day)
  PROVE  FiguresHold(reports[k])'
<1> DEFINE f == [d \in r.trades |-> dummies[d].pnl]
           g == [d \in r.trades |-> dummies'[d].pnl]
<1>1. \A d \in r.trades : d \in DOMAIN dummies /\ dummies'[d] = dummies[d]
  BY ClosedOnDay, ClosedTradesKept
<1>2. g = f
  BY <1>1
<1>3. NetPnl(r.trades) = TotalOf(f)
  BY DEF NetPnl
<1>4. NetPnl(reports[k].trades)' = TotalOf(g)
  BY DEF NetPnl
<1>5. NetPnl(reports[k].trades)' = NetPnl(r.trades)
  BY <1>2, <1>3, <1>4
<1> QED
  BY <1>1, <1>5 DEF FiguresHold

\* A candle at the close leaves nothing open, warming up or not.
LEMMA FlatAtClose ==
  ASSUME BookInv', FlatAfterClose', MinuteOf(now') >= MarketClose
  PROVE  openId' = NoPosition
<1>1. seen' \in Nat /\ WarmupCandles \in Nat /\ openId' \in 0 .. Len(positions')
  BY ClockAssumption DEF BookInv, CycleInv, TypeOK
<1>2. CASE seen' > WarmupCandles
  BY <1>2 DEF FlatAfterClose
<1>3. CASE seen' <= WarmupCandles
  <2>1. positions' = <<>>
    BY <1>3 DEF BookInv, BookTimes
  <2> QED
    BY <1>1, <2>1 DEF NoPosition
<1> QED
  BY <1>1, <1>2, <1>3

\* What a candle says of the clock and of the days already reported.
LEMMA DayOfCandle ==
  ASSUME BookInv, ReportsInv, NEW c \in Candle, WellFormed(c), ProcessCandle(c)
  PROVE  /\ now' = At(c) /\ currentDate' = c.day /\ c.day \in Nat /\ currentDate \in Nat
         /\ currentDate <= c.day /\ c.minute \in Nat /\ MinuteOf(now) \in Nat
         /\ MinuteOf(At(c)) = c.minute /\ DayOf(At(c)) = c.day
         /\ currentDate = c.day => MinuteOf(now) < c.minute
<1>1. /\ now' = At(c) /\ currentDate' = c.day /\ At(c) > now /\ DayOf(now) = currentDate
      /\ now \in Nat /\ currentDate \in Nat
  BY BookStep, BookFacts DEF BookInv, BookTimes
<1>2. At(c) \in Nat /\ c.day \in Nat /\ c.minute \in Nat
  BY CandleType
<1>3. MinuteOf(At(c)) = c.minute /\ DayOf(At(c)) = c.day
  BY StampParts
<1>4. currentDate <= c.day
  BY <1>1, <1>2, <1>3, DaysGrow
<1>5. MinuteOf(now) \in Nat
  BY <1>1, MinuteInDay DEF MinuteOf, MinutesPerDay
<1>6. currentDate = c.day => MinuteOf(now) < c.minute
  BY <1>1, <1>2, <1>3, MinutesGrow
<1> QED
  BY <1>1, <1>2, <1>3, <1>4, <1>5, <1>6

\* The days with a candle at the close are those the cycle has come to, and a day that
\* has one ends flat.
LEMMA ClosingDaysStep ==
  ASSUME BookInv, ReportsInv, BookInv', FlatAfterClose', NEW c \in Candle, WellFormed(c),
         ProcessCandle(c), OnMarketData(c)
  PROVE  /\ \A day \in closingDays' : day \in Nat /\ day <= currentDate'
         /\ currentDate' \in closingDays' =>
              openId' = NoPosition /\ MinuteOf(now') >= MarketClose
         /\ openSeenOn' \in Nat
         /\ \A day \in closingDays' : day \in closingDays \/ (day = c.day /\ c.minute < SummaryTime)
<1>1. /\ now' = At(c) /\ currentDate' = c.day /\ c.day \in Nat /\ currentDate \in Nat
      /\ currentDate <= c.day /\ c.minute \in Nat /\ MinuteOf(now) \in Nat
      /\ MinuteOf(At(c)) = c.minute
      /\ currentDate = c.day => MinuteOf(now) < c.minute
  BY DayOfCandle
<1>2. SummaryTime \in Nat /\ MarketClose \in Nat
  BY SignalAssumption, ClockAssumption DEF MinutesPerDay, SignalConfigAccepted
<1>3. /\ \A day \in closingDays' :
           \/ day \in closingDays
           \/ day = c.day /\ c.minute < SummaryTime /\ c.minute >= MarketClose
  BY <1>1, <1>2 DEF OnMarketData
<1>4. \A day \in closingDays : day \in Nat /\ day <= currentDate
  BY DEF ReportsInv
<1>5. \A day \in closingDays' : day \in Nat /\ day <= currentDate'
  BY <1>1, <1>3, <1>4
<1>6. ASSUME currentDate' \in closingDays' PROVE MinuteOf(now') >= MarketClose
  <2>1. CASE c.day \in closingDays
    <3>1. c.day = currentDate
      BY <1>1, <1>4, <2>1
    <3>2. MinuteOf(now) >= MarketClose
      BY <2>1, <3>1 DEF ReportsInv
    <3> QED
      BY <1>1, <1>2, <3>1, <3>2
  <2> QED
    BY <1>1, <1>3, <1>6, <2>1
<1>7. openSeenOn' \in Nat
  BY <1>1 DEF OnMarketData, ReportsInv
<1> QED
  BY <1>3, <1>5, <1>6, <1>7, FlatAtClose

\* A report stays what it is, whatever candle comes, and is right when it is made.
LEMMA ReportKept ==
  ASSUME BookInv, TradesInv, ReportsInv, BookInv', TradesInv', FlatAfterClose',
         NEW c \in Candle, WellFormed(c), ProcessCandle(c), OnMarketData(c),
         NEW s, OnTrades(c, s), NEW k, NEW r, reports'[k] = r, r.day \in Nat,
         \/ ReportHolds(r)
         \/ /\ r.day = c.day /\ c.minute >= SummaryTime
            /\ r.trades = TradesClosedOn(c.day) /\ FiguresHold(r)
  PROVE  ReportHolds(reports[k])'
<1> DEFINE day == r.day
<1>1. /\ now' = At(c) /\ currentDate' = c.day /\ c.day \in Nat /\ currentDate \in Nat
      /\ currentDate <= c.day /\ c.minute \in Nat /\ MinuteOf(now) \in Nat
      /\ MinuteOf(At(c)) = c.minute
      /\ currentDate = c.day => MinuteOf(now) < c.minute
  BY DayOfCandle
<1>2. SummaryTime \in Nat
  BY SignalAssumption DEF MinutesPerDay, SignalConfigAccepted
<1>3. r.trades \subseteq TradesClosedOn(day) /\ FiguresHold(r)
  BY DEF ReportHolds
<1>4. day <= c.day /\ (day = c.day => c.minute >= SummaryTime)
  BY <1>1, <1>2 DEF ReportHolds
<1>5. /\ TradesClosedOn(day) \subseteq TradesClosedOn(day)'
      /\ day # c.day \/ openId = NoPosition => TradesClosedOn(day)' = TradesClosedOn(day)
  BY ClosedOnGrows
<1>6. ASSUME day \in closingDays' PROVE r.trades = TradesClosedOn(day)'
  <2>1. day \in closingDays
    BY <1>1, <1>2, <1>4, <1>6, ClosingDaysStep
  <2>2. r.trades = TradesClosedOn(day)
    BY <2>1 DEF ReportHolds
  <2>3. day # c.day \/ openId = NoPosition
    <3>1. day <= currentDate /\ (currentDate \in closingDays => openId = NoPosition)
      BY <2>1 DEF ReportsInv
    <3> QED
      BY <1>1, <2>1, <3>1
  <2> QED
    BY <1>5, <2>2, <2>3
<1>7. FiguresHold(reports[k])'
  BY <1>3, FiguresKept
<1>8. TradesClosedOn(reports[k].day)' = TradesClosedOn(day)'
  BY DEF TradesClosedOn, TradesClosedBetween
<1> QED
  BY <1>1, <1>3, <1>4, <1>5, <1>6, <1>7, <1>8 DEF ReportHolds

\* The reports stay right, in the order of their days.
LEMMA ReportsStep ==
  ASSUME BookInv, TradesInv, ReportsInv, BookInv', TradesInv', FlatAfterClose',
         NEW c \in Candle, WellFormed(c), ProcessCandle(c), OnMarketData(c),
         NEW s, OnTrades(c, s)
  PROVE  ReportsInv'
<1> DEFINE n == Len(reports)
           x == BuildDailyReport(c.day)
<1>1. reports \in Seq(Report) /\ n \in Nat /\ DOMAIN reports = 1 .. n
  BY DEF ReportsInv
<1>2. /\ c.day \in Nat /\ currentDate <= c.day /\ currentDate \in Nat
      /\ c.minute \in Nat /\ DayOf(At(c)) = c.day
  BY DayOfCandle
<1>3. c.day \in Days
  BY DEF Candle
<1>4. \A k \in 1 .. n : reports[k] \in Report /\ reports[k].day \in Nat
  <2>1. \A r \in Report : r.day \in Nat
    BY DEF Report
  <2> QED
    BY <1>1, <2>1
<1>5. x \in Report /\ x.day = c.day /\ x.trades = TradesClosedOn(c.day) /\ FiguresHold(x)
  BY <1>2, NewReport
<1> HIDE DEF x
<1>6. \A d \in DOMAIN dummies' : dummies'[d].status = "CLOSED" =>
        DayOf(dummies'[d].closedAt) \in Days
  BY <1>2, <1>3, ClosedTradesKept DEF ReportsInv
<1>7. ASSUME NEW k \in 1 .. n, reports'[k] = reports[k] PROVE ReportHolds(reports[k])'
  <2>1. ReportHolds(reports[k]) /\ reports[k].day \in Nat
    BY <1>1, <1>4 DEF ReportsInv
  <2> QED
    BY <1>7, <2>1, ReportKept
<1>8. \A k, l \in 1 .. n : k < l => reports[k].day < reports[l].day
  BY <1>1 DEF ReportsInv
<1>9. CASE ~SummaryDue(c)
  <2>1. reports' = reports
    BY <1>9 DEF OnMarketData
  <2>2. \A k \in 1 .. n : ReportHolds(reports[k])'
    BY <1>7, <2>1
  <2> QED
    BY <1>1, <1>6, <1>8, <2>1, <2>2, ClosingDaysStep DEF ReportsInv
<1>10. CASE SummaryDue(c)
  <2>1. reports' = Append(reports, x) /\ c.minute >= SummaryTime /\ ReportedFor # c.day
    BY <1>10 DEF OnMarketData, SummaryDue, x
  <2>2. /\ reports' \in Seq(Report) /\ Len(reports') = n + 1 /\ DOMAIN reports' = 1 .. n + 1
        /\ reports'[n + 1] = x /\ \A k \in 1 .. n : reports'[k] = reports[k]
    BY <1>1, <1>5, <2>1, AppendOne
  <2>3. \A k \in 1 .. n : reports[k].day < c.day
    <3> SUFFICES ASSUME NEW k \in 1 .. n PROVE reports[k].day < c.day
      OBVIOUS
    <3>1. n \in 1 .. n /\ reports # <<>>
      BY <1>1
    <3>2. reports[n].day <= currentDate /\ reports[n].day \in Nat /\ reports[k].day \in Nat
      BY <1>1, <1>4, <3>1 DEF ReportsInv, ReportHolds
    <3>3. reports[n].day # c.day
      BY <2>1, <3>1 DEF ReportedFor, Last
    <3>4. k = n \/ reports[k].day < reports[n].day
      <4>1. k < n => reports[k].day < reports[n].day
        BY <1>8, <3>1
      <4>2. k = n \/ k < n
        <5>1. PICK m \in Nat : m = n
          BY <1>1
        <5>2. k \in 1 .. m
          BY <5>1
        <5> QED
          BY <5>1, <5>2
      <4> QED
        BY <4>1, <4>2
    <3> QED
      BY <1>2, <3>2, <3>3, <3>4
  <2>4. \A k \in 1 .. n + 1 : k = n + 1 \/ k \in 1 .. n
    BY <1>1
  <2>5. ASSUME NEW k \in 1 .. n + 1 PROVE ReportHolds(reports[k])'
    <3>1. CASE k \in 1 .. n
      BY <1>7, <2>2, <3>1
    <3>2. CASE k = n + 1
      <4>1. reports'[k] = x /\ x.day \in Nat
        BY <1>2, <1>5, <2>2, <3>2
      <4> QED
        BY <1>5, <2>1, <4>1, ReportKept
    <3> QED
      BY <2>4, <3>1, <3>2
  <2>6. \A k, l \in 1 .. n + 1 : k < l => reports'[k].day < reports'[l].day
    <3> SUFFICES ASSUME NEW k \in 1 .. n + 1, NEW l \in 1 .. n + 1, k < l
                 PROVE  reports'[k].day < reports'[l].day
      OBVIOUS
    <3>1. k \in 1 .. n /\ reports'[k] = reports[k]
      BY <1>1, <2>2
    <3>2. CASE l \in 1 .. n
      BY <1>8, <2>2, <3>1, <3>2
    <3>3. CASE l = n + 1
      BY <1>5, <2>2, <2>3, <3>1, <3>3
    <3> QED
      BY <2>4, <3>2, <3>3
  <2> QED
    BY <1>6, <2>2, <2>5, <2>6, ClosingDaysStep DEF ReportsInv
<1> QED
  BY <1>9, <1>10

-----------------------------------------------------------------------------
(* The invariant of the reporting layer *)

SignalInv == BookInv /\ TradesInv /\ AlertsInv /\ FilterInv /\ ReportsInv

\* Before the first candle there are no trades, no alerts and no reports.
LEMMA SignalStart ==
  ASSUME SignalInit
  PROVE  TradesInv /\ AlertsInv /\ FilterInv /\ ReportsInv
<1>1. TradesInv /\ AlertsInv
  BY DEF SignalInit, TradesInv, AlertsInv
<1>2. MaxSignalsPerDay \in Nat
  BY SignalAssumption DEF SignalConfigAccepted
<1>3. Capped(<<>>, 0, 0)
  <2>1. \A day : BuysOn(<<>>, day) = {}
    BY DEF BuysOn
  <2>2. Cardinality({}) = 0
    BY FS_EmptySet
  <2>3. \A day : Cardinality(BuysOn(<<>>, day)) = 0
    BY <2>1, <2>2
  <2>4. \A k \in DOMAIN <<>> : FALSE
    OBVIOUS
  <2> QED
    BY <1>2, <2>3, <2>4 DEF Capped
<1>4. FilterInv
  BY <1>2, <1>3 DEF SignalInit, Init, FilterInv, Never, Apart
<1>5. ReportsInv
  BY DEF SignalInit, ReportsInv
<1> QED
  BY <1>1, <1>4, <1>5

\* The trades, the alerts, the filter and the reports keep in step with the book.
THEOREM SignalInvariant == SignalSpec => []SignalInv
<1>1. SignalInit => TradesInv /\ AlertsInv /\ FilterInv /\ ReportsInv
  BY SignalStart
<1>2. /\ BookInv /\ TradesInv /\ AlertsInv /\ FilterInv /\ ReportsInv
      /\ BookInv' /\ HoursKept' /\ [SignalNext]_<<vars, signals>>
      => (TradesInv /\ AlertsInv /\ FilterInv /\ ReportsInv)'
  <2> SUFFICES ASSUME BookInv, TradesInv, AlertsInv, FilterInv, ReportsInv, BookInv', HoursKept',
                      [SignalNext]_<<vars, signals>>
               PROVE  TradesInv' /\ AlertsInv' /\ FilterInv' /\ ReportsInv'
    OBVIOUS
  <2>1. CASE SignalNext
    <3>1. PICK c \in Candle : /\ WellFormed(c) /\ ProcessCandle(c) /\ OnMarketData(c)
                              /\ \E s \in EvaluatedStrengths : RecordEmitted(c, s) /\ OnTrades(c, s)
      BY <2>1 DEF SignalNext
    <3>2. PICK s \in EvaluatedStrengths : RecordEmitted(c, s) /\ OnTrades(c, s)
      BY <3>1
    <3>3. TradesInv' /\ AlertsInv' /\ FilterInv'
      BY <3>1, <3>2, ListenersStep
    <3>4. FlatAfterClose'
      BY DEF HoursKept
    <3>5. ReportsInv'
      BY <3>1, <3>2, <3>3, <3>4, ReportsStep
    <3> QED
      BY <3>3, <3>5
  <2>2. CASE UNCHANGED <<vars, signals>>
    <3>1. /\ UNCHANGED <<seen, now, currentDate, positions, openId, ledger>>
          /\ UNCHANGED <<dummies, tradeOf, lastSignalAt, signalsToday, filterDay,
                         lastNoTradeAt, openSeenOn, sentLog, reports, closingDays>>
      BY <2>2 DEF vars, signals
    <3>2. TradesInv'
      BY <3>1 DEF TradesInv, Mirrors
    <3>3. AlertsInv'
      BY <3>1 DEF AlertsInv
    <3>4. FilterInv'
      BY <3>1 DEF FilterInv
    <3>5. ASSUME NEW k \in DOMAIN reports PROVE ReportHolds(reports[k])'
      <4>1. ReportHolds(reports[k])
        BY DEF ReportsInv
      <4>2. TradesClosedOn(reports[k].day)' = TradesClosedOn(reports[k].day)
        BY <3>1 DEF TradesClosedOn, TradesClosedBetween
      <4>3. FiguresHold(reports[k])' = FiguresHold(reports[k])
        BY <3>1 DEF FiguresHold, NetPnl
      <4> QED
        BY <3>1, <4>1, <4>2, <4>3 DEF ReportHolds
    <3>6. ReportsInv'
      BY <3>1, <3>5 DEF ReportsInv
    <3> QED
      BY <3>2, <3>3, <3>4, <3>6
  <2> QED
    BY <2>1, <2>2
<1> QED
  BY <1>1, <1>2, SignalsRunCycle, BookInvariant, HoursAreKept, PTL DEF SignalSpec, SignalInv

-----------------------------------------------------------------------------
(* What follows of it *)

LEMMA SignalTypes ==
  ASSUME SignalInv
  PROVE  SignalTypeOK
<1>1. /\ dummies \in Seq(DummyTrade) /\ Len(positions) \in Nat
      /\ DOMAIN positions = 1 .. Len(positions) /\ openId \in 0 .. Len(positions)
      /\ now \in Nat /\ currentDate \in Nat
  BY BookFacts DEF SignalInv, TradesInv
<1>2. /\ \A i \in DOMAIN tradeOf : i = openId /\ i # 0 /\ tradeOf[i] \in DOMAIN dummies
  BY DEF SignalInv, TradesInv, NoPosition
<1>3. DOMAIN tradeOf \subseteq DOMAIN positions
  BY <1>1, <1>2
<1>4. /\ lastSignalAt \in Nat /\ signalsToday \in 0 .. MaxSignalsPerDay /\ filterDay \in Nat
      /\ lastNoTradeAt \in Nat
  BY <1>1 DEF SignalInv, FilterInv
<1>5. sentLog \in Seq(Message)
  BY DEF SignalInv, AlertsInv
<1>6. openSeenOn \in Nat /\ closingDays \subseteq Nat
  BY DEF SignalInv, ReportsInv
<1>7. ASSUME NEW r \in DOMAIN reports
      PROVE  reports[r].day \in Nat /\ reports[r].trades \subseteq DOMAIN dummies
  <2>1. reports[r] \in Report
    BY DEF SignalInv, ReportsInv
  <2>2. reports[r].day \in Nat
    BY <2>1 DEF Report
  <2>3. reports[r].trades \subseteq TradesClosedOn(reports[r].day)
    BY DEF SignalInv, ReportsInv, ReportHolds
  <2> QED
    BY <2>2, <2>3 DEF TradesClosedOn, TradesClosedBetween
<1> QED
  BY <1>1, <1>2, <1>3, <1>4, <1>5, <1>6, <1>7 DEF SignalTypeOK

\* A dummy trade lives and ends with its position, in every run.
THEOREM TradesMirror == SignalSpec => []TradesMirrorPositions
<1>1. SignalInv => TradesMirrorPositions
  <2> SUFFICES ASSUME SignalInv PROVE TradesMirrorPositions
    OBVIOUS
  <2>1. TradesInv
    BY DEF SignalInv
  <2> QED
    BY <2>1, SignalTypes DEF TradesMirrorPositions, TradesInv, Mirrors
<1> QED
  BY <1>1, SignalInvariant, PTL

\* However fast trades follow each other, the alerts of a kind are a cooldown apart
\* and those of a day within the daily limit.
THEOREM AlertsStaySpaced == SignalSpec => []AlertsSpaced
<1>1. SignalInv => AlertsSpaced
  <2> SUFFICES ASSUME SignalInv PROVE AlertsSpaced
    OBVIOUS
  <2>1. /\ Apart(sentLog, "BUY", lastSignalAt) /\ Apart(sentLog, "NO_TRADE", lastNoTradeAt)
        /\ Capped(sentLog, filterDay, signalsToday) /\ sentLog \in Seq(Message)
    BY DEF SignalInv, FilterInv, AlertsInv
  <2>2. \A k, l \in DOMAIN sentLog :
          k < l /\ sentLog[k].kind = sentLog[l].kind /\ sentLog[k].kind \in {"BUY", "NO_TRADE"}
            => sentLog[l].at - sentLog[k].at >= SignalCooldown
    BY <2>1 DEF Apart
  <2>3. ASSUME NEW k \in DOMAIN sentLog
        PROVE  Cardinality({l \in DOMAIN sentLog : /\ sentLog[l].kind = "BUY"
                                                   /\ DayOf(sentLog[l].at) = DayOf(sentLog[k].at)})
                 <= MaxSignalsPerDay
    <3>1. sentLog[k] \in Message
      BY <2>1
    <3>2. DayOf(sentLog[k].at) \in Nat
      BY <3>1, DayOfMessage
    <3>3. Cardinality(BuysOn(sentLog, DayOf(sentLog[k].at))) <= MaxSignalsPerDay
      BY <2>1, <3>2 DEF Capped
    <3> QED
      BY <3>3 DEF BuysOn
  <2> QED
    BY <2>2, <2>3 DEF AlertsSpaced
<1> QED
  BY <1>1, SignalInvariant, PTL

\* The greatest member of a set is the one no other exceeds.
LEMMA MaxIs ==
  ASSUME NEW S, \A y \in S : y \in Int, NEW x \in S, \A y \in S : y <= x
  PROVE  Max(S) = x
<1>1. \E z \in S : \A y \in S : z >= y
  OBVIOUS
<1>2. Max(S) \in S /\ \A y \in S : Max(S) >= y
  BY <1>1 DEF Max
<1> QED
  BY <1>2

\* Every trade is announced once and its end once, and the latest signal shown is the
\* one announced last, in every run.
THEOREM AlertsMatch == SignalSpec => []AlertsMatchTrades
<1>1. SignalInv => AlertsMatchTrades
  <2> SUFFICES ASSUME SignalInv PROVE AlertsMatchTrades
    OBVIOUS
  <2> DEFINE n == Len(dummies)
             Buys == {l \in DOMAIN sentLog : sentLog[l].kind = "BUY"}
             Bought == {0} \cup {sentLog[k].trade : k \in Buys}
  <2>1. /\ \A d \in DOMAIN dummies : Announced(sentLog, d, dummies[d])
        /\ \A k \in DOMAIN sentLog : sentLog[k].trade \in 0 .. n
        /\ dummies \in Seq(DummyTrade) /\ n \in Nat /\ DOMAIN dummies = 1 .. n
    BY DEF SignalInv, AlertsInv, TradesInv
  <2>2. \A d : /\ MessagesOf(d, {"BUY"}) = About(sentLog, d, {"BUY"})
               /\ MessagesOf(d, {"TARGET_HIT", "STOPLOSS_HIT"}) = About(sentLog, d, Exiting)
    BY DEF MessagesOf, About, Exiting
  <2>3. ASSUME NEW d \in DOMAIN dummies
        PROVE  /\ \E k \in DOMAIN sentLog : /\ MessagesOf(d, {"BUY"}) = {k}
                                            /\ sentLog[k].at = dummies[d].openedAt
               /\ dummies[d].exitReason = "TARGET" =>
                    \E k \in DOMAIN sentLog : /\ MessagesOf(d, {"TARGET_HIT", "STOPLOSS_HIT"}) = {k}
                                              /\ sentLog[k].kind = "TARGET_HIT"
                                              /\ sentLog[k].at = dummies[d].closedAt
               /\ dummies[d].exitReason = "STOP_LOSS" =>
                    \E k \in DOMAIN sentLog : /\ MessagesOf(d, {"TARGET_HIT", "STOPLOSS_HIT"}) = {k}
                                              /\ sentLog[k].kind = "STOPLOSS_HIT"
                                              /\ sentLog[k].at = dummies[d].closedAt
               /\ dummies[d].exitReason \notin {"TARGET", "STOP_LOSS"} =>
                    MessagesOf(d, {"TARGET_HIT", "STOPLOSS_HIT"}) = {}
    BY <2>1, <2>2 DEF Announced, Ended
  <2>4. \A y \in Bought : y \in Int /\ y <= n
    BY <2>1
  <2>5. n \in Bought
    <3>1. CASE n = 0
      BY <3>1
    <3>2. CASE n # 0
      <4>1. n \in DOMAIN dummies
        BY <2>1, <3>2
      <4>2. PICK k \in DOMAIN sentLog : About(sentLog, n, {"BUY"}) = {k}
        BY <2>1, <4>1 DEF Announced
      <4>3. k \in About(sentLog, n, {"BUY"})
        BY <4>2
      <4>4. k \in Buys /\ sentLog[k].trade = n
        BY <4>3 DEF About
      <4> QED
        BY <4>4
    <3> QED
      BY <3>1, <3>2
  <2>6. Max(Bought) = n
    <3> HIDE DEF Bought, n
    <3> QED
      BY <2>4, <2>5, MaxIs
  <2>7. SignalState.latest = n
    BY <2>1 DEF SignalState
  <2>8. SignalState.latest = Max({0} \cup {sentLog[k].trade : k \in {l \in DOMAIN sentLog :
                                                                       sentLog[l].kind = "BUY"}})
    BY <2>6, <2>7
  <2>9. \A k \in DOMAIN sentLog : sentLog[k].trade \in 0 .. Len(dummies)
    BY <2>1
  <2> QED
    BY <2>3, <2>8, <2>9 DEF AlertsMatchTrades
<1> QED
  BY <1>1, SignalInvariant, PTL

\* What the dashboard is told of some days is the sum of what is reported of each.
LEMMA NetOfDays ==
  ASSUME TradesInv, NEW from \in Nat, NEW until \in Nat, NEW D \in SUBSET Nat,
         \A day \in D : day \in from .. until,
         \A d \in DOMAIN dummies :
           dummies[d].status = "CLOSED" /\ DayOf(dummies[d].closedAt) \in from .. until =>
             DayOf(dummies[d].closedAt) \in D
  PROVE  NetPnl(TradesClosedBetween(from, until)) =
           TotalOf([day \in D |-> BuildDailyReport(day).net])
<1> DEFINE S == TradesClosedBetween(from, until)
           f == [d \in S |-> dummies[d].pnl]
           class == [d \in S |-> DayOf(dummies[d].closedAt)]
           Of(e) == {d \in S : class[d] = e}
           h == [e \in D |-> SumOn(f, Of(e))]
           g == [e \in D |-> BuildDailyReport(e).net]
<1>1. S \in SUBSET DOMAIN dummies /\ \A d \in S : class[d] \in D
  BY DEF TradesClosedBetween
<1>2. /\ IsFiniteSet(S) /\ \A d \in S : dummies[d].pnl \in Int
      /\ NetPnl(S) = SumOn(f, S)
  BY <1>1, NetIsSum
<1>3. IsFiniteSet(D)
  <2>1. IsFiniteSet(from .. until) /\ D \in SUBSET (from .. until)
    BY FS_Interval
  <2> QED
    BY <2>1, FS_Subset
<1>4. \A d \in S : f[d] \in Int
  BY <1>2
<1>5. SumOn(f, S) = SumOn(h, D)
  <2>1. SumOn(f, S) = SumOn([e \in D |-> SumOn(f, {d \in S : class[d] = e})], D)
    <3> HIDE DEF S, f, class
    <3> QED
      BY <1>1, <1>2, <1>3, <1>4, SumByParts
  <2> QED
    BY <2>1
<1>6. ASSUME NEW e \in D PROVE g[e] = h[e]
  <2> DEFINE T == TradesClosedOn(e)
             fT == [d \in T |-> dummies[d].pnl]
  <2>1. e \in Nat /\ e \in from .. until
    OBVIOUS
  <2>2. T = {d \in DOMAIN dummies : /\ dummies[d].status = "CLOSED"
                                    /\ DayOf(dummies[d].closedAt) = e}
    BY <2>1, ClosedOnDay
  <2>3. Of(e) = T
    BY <2>1, <2>2 DEF TradesClosedBetween
  <2>4. T \in SUBSET DOMAIN dummies /\ T \in SUBSET S
    BY <2>2, <2>3
  <2>5. IsFiniteSet(T) /\ NetPnl(T) = SumOn(fT, T)
    BY <2>4, NetIsSum
  <2>6. \A d \in T : fT[d] = f[d]
    BY <2>4
  <2>7. BuildDailyReport(e).net = NetPnl(T)
    BY DEF BuildDailyReport
  <2>8. SumOn(fT, T) = SumOn(f, T)
    <3> HIDE DEF T, fT, f
    <3> QED
      BY <2>5, <2>6, SumOnSame
  <2> QED
    BY <2>3, <2>5, <2>7, <2>8
<1>7. SumOn(g, D) = SumOn(h, D)
  <2> HIDE DEF g, h
  <2> QED
    BY <1>3, <1>6, SumOnSame
<1>8. TotalOf(g) = SumOn(g, D)
  BY TotalIsSum
<1> QED
  BY <1>2, <1>5, <1>7, <1>8

\* The figures of a report, said of the positions behind its trades.
LEMMA FiguresOfPositions ==
  ASSUME TradesInv, NEW r, r.trades \subseteq DOMAIN dummies, FiguresHold(r)
  PROVE  /\ r.net = TotalOf([d \in r.trades |-> positions[dummies[d].position].realized])
         /\ r.buyCe + r.buyPe = Cardinality(r.trades)
         /\ r.winning + r.losing = Cardinality(r.trades)
         /\ \A d \in r.trades : positions[dummies[d].position].realized \in r.worst .. r.best
<1>1. \A d \in r.trades : dummies[d].pnl = positions[dummies[d].position].realized
  BY DEF TradesInv, Mirrors
<1>2. [d \in r.trades |-> dummies[d].pnl] =
        [d \in r.trades |-> positions[dummies[d].position].realized]
  BY <1>1
<1>3. r.net = TotalOf([d \in r.trades |-> positions[dummies[d].position].realized])
  BY <1>2 DEF FiguresHold, NetPnl
<1> QED
  BY <1>1, <1>3 DEF FiguresHold

LEMMA ReportsAreComplete ==
  ASSUME SignalInv, IsFiniteSet(Days)
  PROVE  ReportsComplete
<1>1. TradesInv /\ ReportsInv
  BY DEF SignalInv
<1>2. \A r, s \in DOMAIN reports : reports[r].day = reports[s].day => r = s
  <2>1. /\ DOMAIN reports = 1 .. Len(reports) /\ Len(reports) \in Nat
        /\ \A r \in DOMAIN reports : reports[r].day \in Nat
    <3>1. reports \in Seq(Report) /\ \A r \in Report : r.day \in Nat
      BY <1>1 DEF ReportsInv, Report
    <3> QED
      BY <3>1
  <2>2. \A r, s \in DOMAIN reports : r < s => reports[r].day < reports[s].day
    BY <1>1 DEF ReportsInv
  <2> QED
    BY <2>1, <2>2
<1>3. \A r \in DOMAIN reports :
        reports[r].day \in closingDays => reports[r].trades = TradesClosedOn(reports[r].day)
  BY <1>1 DEF ReportsInv, ReportHolds
<1>4. ASSUME NEW r \in DOMAIN reports
      PROVE  /\ reports[r].net = TotalOf([d \in reports[r].trades |->
                                          positions[dummies[d].position].realized])
             /\ reports[r].buyCe + reports[r].buyPe = Cardinality(reports[r].trades)
             /\ reports[r].winning + reports[r].losing = Cardinality(reports[r].trades)
             /\ \A d \in reports[r].trades :
                  positions[dummies[d].position].realized \in reports[r].worst .. reports[r].best
  <2>1. FiguresHold(reports[r]) /\ reports[r].trades \subseteq TradesClosedOn(reports[r].day)
    BY <1>1 DEF ReportsInv, ReportHolds
  <2>2. reports[r].trades \subseteq DOMAIN dummies
    BY <2>1 DEF TradesClosedOn, TradesClosedBetween
  <2> QED
    BY <1>1, <2>1, <2>2, FiguresOfPositions
<1>5. Days \subseteq Nat
  BY ClockAssumption
<1>6. \A d \in DOMAIN dummies : dummies[d].status = "CLOSED" => DayOf(dummies[d].closedAt) \in Days
  BY <1>1 DEF ReportsInv
<1>7. ASSUME NEW today \in Days
      PROVE  /\ NetPnl(TradesClosedBetween(Min(Days), today)) =
                  TotalOf([day \in {d \in Days : d <= today} |-> BuildDailyReport(day).net])
             /\ NetPnl(TradesClosedOn(today)) =
                  [day \in {d \in Days : d <= today} |-> BuildDailyReport(day).net][today]
             /\ today = Max(Days) =>
                  TradesClosedBetween(Min(Days), today) =
                    {d \in DOMAIN dummies : dummies[d].status = "CLOSED"}
  <2>1. /\ Min(Days) \in Days /\ \A y \in Days : Min(Days) <= y
        /\ Max(Days) \in Days /\ \A y \in Days : Max(Days) >= y
    <3>1. Days # {} /\ \A y \in Days : y \in Int
      BY <1>5
    <3> QED
      BY <3>1, MaxMinOf
  <2> DEFINE first == Min(Days)
             D == {d \in Days : d <= today}
  <2>2. first \in Nat /\ today \in Nat /\ D \in SUBSET Nat /\ today \in D
    <3>1. first \in Days
      BY <2>1
    <3> HIDE DEF first
    <3>2. first \in Nat /\ today \in Nat
      BY <1>5, <3>1
    <3>3. today <= today
      BY <3>2
    <3> QED
      BY <1>5, <3>2, <3>3
  <2>3. \A day \in D : day \in first .. today
    BY <1>5, <2>1, <2>2
  <2>4. \A d \in DOMAIN dummies :
          dummies[d].status = "CLOSED" /\ DayOf(dummies[d].closedAt) \in first .. today =>
            DayOf(dummies[d].closedAt) \in D
    BY <1>5, <1>6, <2>2
  <2>5. NetPnl(TradesClosedBetween(first, today)) =
          TotalOf([day \in D |-> BuildDailyReport(day).net])
    <3> HIDE DEF first, D
    <3> QED
      BY <1>1, <2>2, <2>3, <2>4, NetOfDays
  <2>6. BuildDailyReport(today).net = NetPnl(TradesClosedOn(today))
    BY DEF BuildDailyReport
  <2>7. today = Max(Days) =>
          TradesClosedBetween(Min(Days), today) =
            {d \in DOMAIN dummies : dummies[d].status = "CLOSED"}
    BY <1>5, <1>6, <2>1 DEF TradesClosedBetween
  <2> QED
    BY <2>2, <2>5, <2>6, <2>7
<1>8. ASSUME NEW today \in Days
      PROVE  LET performance == SignalPerformance(today, Min(Days), Min(Days))
                 DayNet == [day \in {d \in Days : d <= today} |-> BuildDailyReport(day).net]
             IN  /\ performance.weeklyPnl = TotalOf(DayNet)
                 /\ performance.todayPnl = DayNet[today]
                 /\ today = Max(Days) => performance.monthlyPnl = NetPnl(performance.closed)
  BY <1>7 DEF SignalPerformance
<1> QED
  BY <1>2, <1>3, <1>4, <1>8 DEF ReportsComplete

\* A day's report has every trade of the day and the figures of its positions, and the
\* weeks and months of the dashboard add up, in every run over finitely many days.
THEOREM ReportsStayComplete == IsFiniteSet(Days) => (SignalSpec => []ReportsComplete)
<1> SUFFICES ASSUME IsFiniteSet(Days) PROVE SignalSpec => []ReportsComplete
  OBVIOUS
<1>1. SignalInv => ReportsComplete
  BY ReportsAreComplete
<1> QED
  BY <1>1, SignalInvariant, PTL

-----------------------------------------------------------------------------
(* The reason of an exit *)

\* The price of an exit is recovered from the P&L exactly.
LEMMA ExactDivision ==
  ASSUME NEW k \in Int, NEW q \in Nat, q > 0
  PROVE  (k * q) \div q = k
<1> DEFINE r == (k * q) \div q
           m == (k * q) % q
<1>1. k * q \in Int
  OBVIOUS
<1>2. r \in Int /\ m \in 0 .. q - 1 /\ k * q = q * r + m
  <2> DEFINE a == k * q
  <2>1. a \in Int
    OBVIOUS
  <2> HIDE DEF a
  <2>2. a \div q \in Int /\ a % q \in 0 .. q - 1 /\ a = q * (a \div q) + (a % q)
    BY <2>1, SMTT(30)
  <2> QED
    BY <2>2 DEF a
<1> HIDE DEF r, m
<1>3. q * (k - r) = m
  BY <1>2, SMTT(30)
<1>4. CASE k - r >= 1
  BY <1>2, <1>3, <1>4, SMTT(30)
<1>5. CASE k - r <= -1
  BY <1>2, <1>3, <1>5, SMTT(30)
<1>6. k = r
  BY <1>2, <1>4, <1>5
<1> QED
  BY <1>6 DEF r

LEMMA PriceRecovered ==
  ASSUME NEW p, p.direction \in {"LONG", "SHORT"}, p.entry \in Int,
         p.initialQuantity \in Nat, p.initialQuantity > 0, NEW price \in Int,
         p.realized = SignedPnl(p, price, p.initialQuantity)
  PROVE  InferExitPrice(p) = price
<1> DEFINE q == p.initialQuantity
<1>1. CASE p.direction = "LONG"
  <2>1. p.realized = (price - p.entry) * q
    BY <1>1 DEF SignedPnl
  <2>2. p.realized \div q = price - p.entry
    BY <2>1, ExactDivision
  <2> QED
    BY <1>1, <2>2 DEF InferExitPrice
<1>2. CASE p.direction = "SHORT"
  <2>1. p.realized = (p.entry - price) * q
    BY <1>2 DEF SignedPnl
  <2>2. p.realized \div q = p.entry - price
    BY <2>1, ExactDivision
  <2> QED
    BY <1>2, <2>2 DEF InferExitPrice
<1> QED
  BY <1>1, <1>2

\* The tolerance of the inference is a number, and a level is always near itself.
LEMMA ToleranceIs ==
  ASSUME NEW t \in DummyTrade
  PROVE  Tolerance(t) \in Nat
<1> DEFINE a == Magnitude(t.target - t.entry)
           S == {2 * a, UnitsPerPoint}
<1>1. a \in Nat /\ UnitsPerPoint \in Nat
  BY TradeFields, SignalAssumption DEF Magnitude
<1> HIDE DEF a
<1>2. PICK x \in S : \A y \in S : y <= x
  <2>1. CASE 2 * a <= UnitsPerPoint
    BY <1>1, <2>1
  <2>2. CASE UnitsPerPoint <= 2 * a
    BY <1>1, <2>2
  <2> QED
    BY <1>1, <2>1, <2>2
<1>3. \A y \in S : y \in Int
  BY <1>1
<1>4. x \in Nat
  BY <1>1, <1>2
<1> HIDE DEF S
<1>5. Max(S) = x
  BY <1>2, <1>3, MaxIs
<1> QED
  BY <1>4, <1>5 DEF Tolerance, S, a

LEMMA NearItself ==
  ASSUME NEW t \in DummyTrade, NEW level \in Int
  PROVE  Near(t, level, level)
<1>1. Magnitude(level - level) = 0
  BY DEF Magnitude
<1> QED
  BY <1>1, ToleranceIs DEF Near

\* The levels of a trade are on their sides of its entry.
Leveled(t) ==
  /\ t.direction = "LONG" => t.stopLoss < t.entry /\ t.entry <= t.target
  /\ t.direction = "SHORT" => t.entry < t.stopLoss /\ t.target <= t.entry

\* A trade carries the levels the open position is watched with.
Watched(t, p, stop, goal) ==
  /\ t.direction = p.direction /\ t.entry = p.entry /\ t.stopLoss = stop /\ t.target = goal
  /\ p.quantity = p.initialQuantity
  /\ Leveled(t)

\* A closed trade was left at its target, at its stop-loss, or between the two at the
\* close; a level it was not left at is given as the reason only if it is within the
\* tolerance of the price.
LeftAt(t, q, price) ==
  /\ t.pnl = SignedPnl(t, price, q)
  /\ \/ price = t.target /\ t.exitReason = "TARGET"
     \/ /\ price = t.stopLoss
        /\ \/ t.exitReason = "STOP_LOSS"
           \/ t.exitReason = "TARGET" /\ Near(t, price, t.target)
     \/ /\ MinuteOf(t.closedAt) >= MarketClose
        /\ t.direction = "LONG" => t.stopLoss < price /\ price < t.target
        /\ t.direction = "SHORT" => price < t.stopLoss /\ t.target < price
        /\ t.exitReason \in {"TARGET", "STOP_LOSS", "END_OF_DAY"}
        /\ t.exitReason = "TARGET" => Near(t, price, t.target)
        /\ t.exitReason = "STOP_LOSS" => Near(t, price, t.stopLoss)

EndedAsSaid(t, q) == Leveled(t) /\ q > 0 /\ \E price \in Int : LeftAt(t, q, price)

ReasonsInv ==
  \A d \in DOMAIN dummies :
    /\ dummies[d].status = "OPEN" => Watched(dummies[d], positions[openId], stopLoss, target)
    /\ dummies[d].status = "CLOSED" =>
         EndedAsSaid(dummies[d], positions[dummies[d].position].initialQuantity)

\* More units of a longer way are worth more.
LEMMA LongerIsMore ==
  ASSUME NEW a \in Int, NEW b \in Int, a < b, NEW q \in Nat, q > 0
  PROVE  a * q < b * q
<1>1. (b - a) * q >= q
  BY SMTT(30)
<1>2. (b - a) * q = b * q - a * q
  BY SMTT(30)
<1>3. a * q \in Int /\ b * q \in Int
  OBVIOUS
<1> QED
  BY <1>1, <1>2, <1>3

\* An exit is priced at the stop-loss, at the target, or between them at the close.
LEMMA ExitsAtALevel ==
  ASSUME BookInv, NEW c \in Candle, WellFormed(c), ProcessCandle(c), Closed(c),
         NEW t, Watched(t, positions[openId], stopLoss, target)
  PROVE  LET p == positions[openId]
             price == ExitPrice(c)
         IN  /\ price \in Int
             /\ RealizedThisExit(c) = SignedPnl(p, price, p.initialQuantity)
             /\ \/ price = stopLoss
                \/ price = target
                \/ /\ c.minute >= MarketClose
                   /\ p.direction = "LONG" => stopLoss < price /\ price < target
                   /\ p.direction = "SHORT" => price < stopLoss /\ target < price
<1> DEFINE p == positions[openId]
           price == ExitPrice(c)
<1>1. /\ openId = Len(positions) /\ openId \in DOMAIN positions /\ openId' = NoPosition
      /\ openId # NoPosition
  BY BookFacts DEF Closed, NoPosition
<1>2. Exits(c)
  <2>1. FlatCandle(c)
    BY <1>1 DEF ProcessCandle, WarmupCandle, HoldPosition
  <2> QED
    BY <1>1, <2>1 DEF FlatCandle
<1>3. /\ stopLoss \in Int /\ target \in Int /\ c.high \in Int /\ c.low \in Int /\ c.close \in Int
      /\ c.low <= c.close /\ c.close <= c.high /\ p.direction \in {"LONG", "SHORT"}
  <2>1. stopLoss \in Int /\ target \in Int /\ p \in Position
    BY <1>1, BookFacts DEF BookInv, CycleInv, TypeOK
  <2> QED
    BY <2>1, CandleType DEF WellFormed, Position
<1>4. RealizedThisExit(c) = SignedPnl(p, price, p.initialQuantity)
  BY <1>2 DEF RealizedThisExit, Watched
<1>5. CASE StopBreached(c, p)
  BY <1>3, <1>4, <1>5 DEF ExitPrice
<1>6. CASE ~StopBreached(c, p) /\ TargetBreached(c, p)
  BY <1>3, <1>4, <1>6 DEF ExitPrice
<1>7. CASE ~StopBreached(c, p) /\ ~TargetBreached(c, p)
  <2>1. price = c.close /\ c.minute >= MarketClose
    BY <1>2, <1>7 DEF ExitPrice, Exits
  <2>2. p.direction = "LONG" => stopLoss < c.close /\ c.close < target
    BY <1>3, <1>7 DEF StopBreached, TargetBreached
  <2>3. p.direction = "SHORT" => c.close < stopLoss /\ target < c.close
    BY <1>3, <1>7 DEF StopBreached, TargetBreached
  <2> QED
    BY <1>3, <1>4, <2>1, <2>2, <2>3
<1> QED
  BY <1>5, <1>6, <1>7

\* The reason inferred for the trade of a closed position is where it was left.
LEMMA ReasonIsTrue ==
  ASSUME BookInv, BookInv', NEW c \in Candle, WellFormed(c), ProcessCandle(c), Closed(c),
         NEW t \in DummyTrade, Watched(t, positions[openId], stopLoss, target)
  PROVE  EndedAsSaid(ClosedTrade(t, positions'[openId], c), positions'[openId].initialQuantity)
<1> DEFINE p == positions[openId]
           after == positions'[openId]
           price == ExitPrice(c)
           q == after.initialQuantity
           x == ClosedTrade(t, after, c)
<1>1. /\ after.direction = p.direction /\ after.entry = p.entry /\ q = p.initialQuantity
      /\ after.realized = RealizedThisExit(c) /\ after.realized \in Int
      /\ openId \in DOMAIN positions /\ positions[openId].status = "OPEN"
      /\ openId = Len(positions) /\ openId # NoPosition
  BY BookFacts DEF Closed, NoPosition
<1>2. /\ p.direction \in {"LONG", "SHORT"} /\ p.entry \in Int /\ q \in Nat /\ q > 0
      /\ SignedPnl(after, price, q) = SignedPnl(p, price, q)
  <2>1. p \in Position /\ p.quantity >= 1
    BY <1>1, BookFacts DEF BookInv, CycleInv, OnePosition
  <2>2. p.quantity = p.initialQuantity
    BY DEF Watched
  <2> QED
    BY <1>1, <2>1, <2>2 DEF Position, SignedPnl
<1>3. /\ price \in Int /\ after.realized = SignedPnl(p, price, q)
      /\ \/ price = stopLoss
         \/ price = target
         \/ /\ c.minute >= MarketClose
            /\ p.direction = "LONG" => stopLoss < price /\ price < target
            /\ p.direction = "SHORT" => price < stopLoss /\ target < price
  BY <1>1, ExitsAtALevel
<1>4. InferExitPrice(after) = price
  <2> HIDE DEF price, after
  <2>1. after.realized = SignedPnl(after, price, after.initialQuantity)
    BY <1>2, <1>3
  <2> QED
    BY <1>1, <1>2, <1>3, <2>1, PriceRecovered
<1>5. /\ t.direction = p.direction /\ t.entry = p.entry /\ t.stopLoss = stopLoss
      /\ t.target = target /\ t.stopLoss \in Int /\ t.target \in Int /\ t.entry \in Int
      /\ Leveled(t)
  BY TradeFields DEF Watched
<1>7. /\ Near(t, t.target, t.target) /\ Near(t, t.stopLoss, t.stopLoss)
      /\ InferExitReason(t, price) = IF Near(t, price, t.target) THEN "TARGET"
                                     ELSE IF Near(t, price, t.stopLoss) THEN "STOP_LOSS"
                                     ELSE "END_OF_DAY"
  BY <1>5, NearItself DEF InferExitReason
<1>8. /\ x.closedAt = At(c) /\ x.pnl = after.realized /\ x.exitReason = InferExitReason(t, price)
      /\ x.direction = t.direction
      /\ x.entry = t.entry /\ x.stopLoss = t.stopLoss /\ x.target = t.target
  <2> HIDE DEF after, price
  <2> QED
    BY <1>1, <1>4, ClosedTradeRecord
<1>9. MinuteOf(At(c)) = c.minute
  BY StampParts
<1>10. \A l : Near(x, price, l) <=> Near(t, price, l)
  <2> HIDE DEF x, price
  <2> QED
    BY <1>8 DEF Near, Tolerance
<1> HIDE DEF x, price, after, p, q
<1>11. Leveled(x)
  BY <1>5, <1>8 DEF Leveled
<1>12. x.pnl = SignedPnl(x, price, q)
  BY <1>3, <1>5, <1>8 DEF SignedPnl
<1>13. LeftAt(x, q, price)
  <2>1. CASE price = t.target
    BY <1>7, <1>8, <1>12, <2>1 DEF LeftAt
  <2>2. CASE price = t.stopLoss
    BY <1>7, <1>8, <1>10, <1>12, <2>2 DEF LeftAt
  <2>3. CASE price # t.target /\ price # t.stopLoss
    <3>1. /\ MinuteOf(x.closedAt) >= MarketClose
          /\ x.direction = "LONG" => x.stopLoss < price /\ price < x.target
          /\ x.direction = "SHORT" => price < x.stopLoss /\ x.target < price
      BY <1>3, <1>5, <1>8, <1>9, <2>3
    <3>2. /\ x.exitReason \in {"TARGET", "STOP_LOSS", "END_OF_DAY"}
          /\ x.exitReason = "TARGET" => Near(x, price, x.target)
          /\ x.exitReason = "STOP_LOSS" => Near(x, price, x.stopLoss)
      BY <1>7, <1>8, <1>10
    <3> QED
      BY <1>12, <3>1, <3>2 DEF LeftAt
  <2> QED
    BY <2>1, <2>2, <2>3
<1>14. EndedAsSaid(x, q)
  BY <1>2, <1>3, <1>11, <1>13 DEF EndedAsSaid
<1> QED
  BY <1>14 DEF x, after, q

\* A new trade is watched with the levels of its position.
LEMMA WatchedFromEntry ==
  ASSUME NEW c \in Candle, c.signal # "NONE", PositionSize(c) >= 1,
         stopLoss' = CalculateStopLoss(c), target' = CalculateTarget(c)
  PROVE  Watched(OpenTrade(c), OpenPosition(c), stopLoss', target')
<1>1. c.close \in Nat /\ c.signal \in {"LONG", "SHORT"} /\ c.atr \in Atrs
  BY CandleType DEF Candle
<1>2. TargetDistance(c) \in Nat
  BY <1>1, SizeWithinRisk DEF TargetDistance
<1>3. StopDistance(c) \in Nat /\ StopDistance(c) > 0
  <2>1. StopDistance(c) \in Nat
    BY SizeWithinRisk
  <2>2. StopDistance(c) # 0
    BY DEF PositionSize
  <2> QED
    BY <2>1, <2>2
<1> DEFINE t == OpenTrade(c)
           p == OpenPosition(c)
<1>4. /\ t.direction = c.signal /\ t.entry = c.close
      /\ t.stopLoss = CalculateStopLoss(c) /\ t.target = CalculateTarget(c)
      /\ p.direction = c.signal /\ p.entry = c.close /\ p.quantity = p.initialQuantity
  BY DEF OpenTrade, OpenPosition
<1> HIDE DEF t, p
<1>5. c.signal = "LONG" =>
        CalculateStopLoss(c) < c.close /\ c.close <= CalculateTarget(c)
  BY <1>1, <1>2, <1>3 DEF CalculateStopLoss, CalculateTarget
<1>6. c.signal = "SHORT" =>
        c.close < CalculateStopLoss(c) /\ CalculateTarget(c) <= c.close
  BY <1>1, <1>2, <1>3 DEF CalculateStopLoss, CalculateTarget
<1>7. Leveled(t)
  BY <1>1, <1>4, <1>5, <1>6 DEF Leveled
<1>8. Watched(t, p, stopLoss', target')
  BY <1>4, <1>7 DEF Watched
<1> QED
  BY <1>8 DEF t, p

\* The reasons stay true: a candle touches those of closed trades no more.
LEMMA ReasonsStep ==
  ASSUME BookInv, BookInv', TradesInv, TradesInv', ReasonsInv,
         NEW c \in Candle, WellFormed(c), ProcessCandle(c), NEW s, OnTrades(c, s)
  PROVE  ReasonsInv'
<1> DEFINE n == Len(positions)
           m == Len(dummies)
<1>1. /\ dummies \in Seq(DummyTrade) /\ m \in Nat /\ DOMAIN dummies = 1 .. m
      /\ n \in Nat /\ DOMAIN positions = 1 .. n
      /\ \A d \in 1 .. m : /\ Mirrors(d) /\ dummies[d] \in DummyTrade
                           /\ dummies[d].status \in {"OPEN", "CLOSED"}
                           /\ dummies[d].position \in 1 .. n
  <2>1. dummies \in Seq(DummyTrade) /\ \A d \in DOMAIN dummies : Mirrors(d)
    BY DEF TradesInv
  <2>2. \A d \in DOMAIN dummies : dummies[d] \in DummyTrade
    BY <2>1
  <2>3. \A d \in DOMAIN dummies : dummies[d].status \in {"OPEN", "CLOSED"}
    BY <2>2, TradeFields
  <2>4. m \in Nat /\ DOMAIN dummies = 1 .. m
    BY <2>1
  <2>5. n \in Nat /\ DOMAIN positions = 1 .. n
    BY BookFacts
  <2>6. \A d \in DOMAIN dummies : dummies[d].position \in DOMAIN positions
    BY <2>1 DEF Mirrors
  <2> QED
    BY <2>1, <2>2, <2>3, <2>4, <2>5, <2>6
<1>2. /\ \A d \in 1 .. m : dummies[d].status = "OPEN" =>
           dummies[d].position = openId /\ openId # NoPosition
      /\ openId = NoPosition => \A d \in 1 .. m : dummies[d].status = "CLOSED"
  <2>1. ASSUME NEW d \in 1 .. m, dummies[d].status = "OPEN"
        PROVE  dummies[d].position = openId /\ openId # NoPosition
    <3>1. openId \in DOMAIN tradeOf /\ tradeOf[openId] = d
      BY <1>1, <2>1 DEF TradesInv
    <3> QED
      BY <3>1 DEF TradesInv
  <2> QED
    BY <1>1, <2>1
<1>3. openId' = NoPosition => \A d \in DOMAIN dummies' : dummies'[d].status # "OPEN"
  BY DEF TradesInv
<1>4. \A d \in 1 .. m : dummies[d].status = "CLOSED" =>
        positions[dummies[d].position].status = "CLOSED"
  BY <1>1 DEF Mirrors
<1>5. CASE Untouched(c)
  <2>1. /\ dummies' = dummies /\ positions' = positions
        /\ \A d \in 1 .. m : dummies[d].status # "OPEN"
    BY <1>2, <1>5, QuietTrades DEF Untouched
  <2> QED
    BY <1>1, <2>1 DEF ReasonsInv
<1>6. CASE Remarked(c)
  <2>1. /\ dummies' = dummies /\ openId' = openId /\ stopLoss' = stopLoss /\ target' = target
        /\ \A i \in 1 .. n : /\ positions'[i].direction = positions[i].direction
                             /\ positions'[i].quantity = positions[i].quantity
                             /\ positions'[i].entry = positions[i].entry
                             /\ positions'[i].initialQuantity = positions[i].initialQuantity
    BY <1>1, <1>6, QuietTrades DEF Remarked
  <2>2. ASSUME NEW d \in 1 .. m, dummies[d].status = "OPEN"
        PROVE  Watched(dummies[d], positions'[openId], stopLoss, target)
    <3>1. Watched(dummies[d], positions[openId], stopLoss, target)
      BY <1>1, <2>2 DEF ReasonsInv
    <3>2. openId \in 1 .. n
      BY <1>1, <1>2, <2>2
    <3> QED
      BY <2>1, <3>1, <3>2 DEF Watched
  <2>3. ASSUME NEW d \in 1 .. m, dummies[d].status = "CLOSED"
        PROVE  EndedAsSaid(dummies[d], positions'[dummies[d].position].initialQuantity)
    <3>1. EndedAsSaid(dummies[d], positions[dummies[d].position].initialQuantity)
      BY <1>1, <2>3 DEF ReasonsInv
    <3> QED
      BY <1>1, <2>1, <3>1 DEF EndedAsSaid
  <2> QED
    BY <1>1, <2>1, <2>2, <2>3 DEF ReasonsInv
<1>7. CASE Closed(c)
  <2>1. /\ openId = n /\ n \in 1 .. n /\ openId' = NoPosition /\ positions[n].status = "OPEN"
        /\ \A i \in 1 .. n : i # n => positions'[i] = positions[i]
        /\ positions'[openId].realized \in Int
    BY <1>1, <1>7 DEF Closed
  <2>2. \A d \in DOMAIN dummies' : dummies'[d].status # "OPEN"
    BY <1>3, <2>1
  <2>3. ASSUME NEW d \in 1 .. m, dummies[d].status = "CLOSED"
        PROVE  EndedAsSaid(dummies[d], positions'[dummies[d].position].initialQuantity)
    <3>1. EndedAsSaid(dummies[d], positions[dummies[d].position].initialQuantity)
      BY <1>1, <2>3 DEF ReasonsInv
    <3>2. dummies[d].position \in 1 .. n /\ dummies[d].position # n
      BY <1>1, <1>4, <2>1, <2>3
    <3> QED
      BY <2>1, <3>1, <3>2
  <2>4. CASE openId \notin DOMAIN tradeOf
    <3>1. dummies' = dummies
      BY <1>7, <2>4, ClosedTrades
    <3> QED
      BY <1>1, <2>2, <2>3, <3>1 DEF ReasonsInv
  <2>5. CASE openId \in DOMAIN tradeOf
    <3> DEFINE d == tradeOf[openId]
    <3>1. /\ d \in 1 .. m /\ dummies[d].status = "OPEN"
          /\ dummies'[d] = ClosedTrade(dummies[d], positions'[openId], c)
          /\ \A e \in 1 .. m : e # d => dummies'[e] = dummies[e]
          /\ Len(dummies') = m
      BY <1>1, <1>7, <2>5, ClosedTrades
    <3>2. DOMAIN dummies' = 1 .. m
      BY <3>1 DEF TradesInv
    <3> HIDE DEF d
    <3>3. Watched(dummies[d], positions[openId], stopLoss, target) /\ dummies[d].position = openId
      BY <1>1, <1>2, <3>1 DEF ReasonsInv
    <3>4. dummies[d] \in DummyTrade
      BY <1>1, <3>1
    <3>5. EndedAsSaid(dummies'[d], positions'[openId].initialQuantity)
      BY <1>7, <3>1, <3>3, <3>4, ReasonIsTrue
    <3>6. dummies'[d].position = openId
      BY <2>1, <3>1, <3>3, <3>4, ClosedTradeRecord
    <3>7. ASSUME NEW e \in 1 .. m
          PROVE  EndedAsSaid(dummies'[e], positions'[dummies'[e].position].initialQuantity)
      <4>1. CASE e = d
        BY <3>5, <3>6, <4>1
      <4>2. CASE e # d
        <5>1. dummies'[e] = dummies[e] /\ dummies[e].status = "CLOSED"
          BY <1>1, <2>2, <3>1, <3>2, <4>2
        <5> QED
          BY <2>3, <5>1
      <4> QED
        BY <4>1, <4>2
    <3> QED
      BY <2>2, <3>2, <3>7 DEF ReasonsInv
  <2> QED
    BY <2>4, <2>5
<1>8. CASE Opened(c)
  <2>1. /\ openId = NoPosition /\ openId' = n + 1
        /\ \A i \in 1 .. n : positions'[i] = positions[i]
        /\ positions'[n + 1] = OpenPosition(c)
        /\ stopLoss' = CalculateStopLoss(c) /\ target' = CalculateTarget(c)
        /\ c.signal # "NONE" /\ PositionSize(c) >= 1
    BY <1>1, <1>8 DEF Opened, RiskOk
  <2>2. ASSUME NEW d \in 1 .. m
        PROVE  /\ dummies[d].status = "CLOSED"
               /\ EndedAsSaid(dummies[d], positions'[dummies[d].position].initialQuantity)
    <3>1. dummies[d].status = "CLOSED"
      BY <1>2, <2>1
    <3>2. EndedAsSaid(dummies[d], positions[dummies[d].position].initialQuantity)
      BY <1>1, <3>1 DEF ReasonsInv
    <3> QED
      BY <1>1, <2>1, <3>1, <3>2
  <2>3. CASE ~Emits(c, s)
    <3>1. dummies' = dummies
      BY <1>8, <2>3, OpenedTrades
    <3> QED
      BY <1>1, <2>2, <3>1 DEF ReasonsInv
  <2>4. CASE Emits(c, s)
    <3>1. /\ Len(dummies') = m + 1 /\ dummies'[m + 1] = OpenTrade(c)
          /\ \A d \in 1 .. m : dummies'[d] = dummies[d]
      BY <1>1, <1>8, <2>4, OpenedTrades
    <3>2. DOMAIN dummies' = 1 .. m + 1
      BY <3>1 DEF TradesInv
    <3>3. \A d \in 1 .. m + 1 : d = m + 1 \/ d \in 1 .. m
      BY <1>1
    <3>4. Watched(OpenTrade(c), positions'[openId'], stopLoss', target')
      BY <2>1, WatchedFromEntry
    <3>5. OpenTrade(c).status = "OPEN"
      BY DEF OpenTrade
    <3>6. ASSUME NEW d \in 1 .. m + 1
          PROVE  /\ dummies'[d].status = "OPEN" =>
                      Watched(dummies'[d], positions'[openId'], stopLoss', target')
                 /\ dummies'[d].status = "CLOSED" =>
                      EndedAsSaid(dummies'[d], positions'[dummies'[d].position].initialQuantity)
      <4>1. CASE d = m + 1
        BY <3>1, <3>4, <3>5, <4>1
      <4>2. CASE d \in 1 .. m
        BY <2>2, <3>1, <4>2
      <4> QED
        BY <3>3, <4>1, <4>2
    <3> QED
      BY <3>2, <3>6 DEF ReasonsInv
  <2> QED
    BY <2>3, <2>4
<1>9. Untouched(c) \/ Remarked(c) \/ Closed(c) \/ Opened(c)
  BY BookStep
<1> QED
  BY <1>5, <1>6, <1>7, <1>8, <1>9

\* So many units of a number of either sign.
LEMMA MagnitudeTimes ==
  ASSUME NEW x \in Int, NEW q \in Nat, q > 0
  PROVE  /\ Magnitude(x * q) = Magnitude(x) * q
         /\ x * q = 0 => x = 0
<1>1. CASE x = 0
  BY <1>1 DEF Magnitude
<1>2. CASE x > 0
  <2>1. x * q \in Int /\ 0 * q < x * q
    BY <1>2, LongerIsMore
  <2>2. x * q > 0
    BY <2>1
  <2> QED
    BY <1>2, <2>1, <2>2 DEF Magnitude
<1>3. CASE x < 0
  <2>1. x * q \in Int /\ x * q < 0 * q
    BY <1>3, LongerIsMore
  <2>2. x * q < 0
    BY <2>1
  <2>3. -(x * q) = (-x) * q
    BY SMTT(30)
  <2> QED
    BY <1>3, <2>1, <2>2, <2>3 DEF Magnitude
<1> QED
  BY <1>1, <1>2, <1>3

\* What a position is worth at two prices differs by their distance, so many times as
\* it has units.
LEMMA WorthApart ==
  ASSUME NEW t \in DummyTrade, NEW q \in Nat, q > 0, NEW a \in Int, NEW b \in Int
  PROVE  /\ SignedPnl(t, a, q) \in Int
         /\ SignedPnl(t, a, q) = SignedPnl(t, b, q) => a = b
         /\ Magnitude(SignedPnl(t, a, q) - SignedPnl(t, b, q)) = Magnitude(a - b) * q
<1>1. t.entry \in Int /\ t.direction \in {"LONG", "SHORT"}
  BY TradeFields
<1>2. PICK u \in Int, v \in Int : u = SignedPnl(t, a, q) /\ v = SignedPnl(t, b, q)
  BY <1>1 DEF SignedPnl
<1>3. u - v = (a - b) * q \/ u - v = (b - a) * q
  <2>1. CASE t.direction = "LONG"
    <3>1. u = (a - t.entry) * q /\ v = (b - t.entry) * q
      BY <1>2, <2>1 DEF SignedPnl
    <3> QED
      BY <1>1, <3>1, SMTT(30)
  <2>2. CASE t.direction = "SHORT"
    <3>1. u = (t.entry - a) * q /\ v = (t.entry - b) * q
      BY <1>2, <2>2 DEF SignedPnl
    <3> QED
      BY <1>1, <3>1, SMTT(30)
  <2> QED
    BY <1>1, <2>1, <2>2
<1>4. Magnitude(b - a) = Magnitude(a - b)
  BY DEF Magnitude
<1>5. \A x \in Int : Magnitude(x * q) = Magnitude(x) * q /\ (x * q = 0 => x = 0)
  BY MagnitudeTimes
<1>6. a - b \in Int /\ b - a \in Int
  OBVIOUS
<1>7. Magnitude(u - v) = Magnitude(a - b) * q
  BY <1>3, <1>4, <1>5, <1>6
<1>8. ASSUME u = v PROVE a = b
  <2>1. (a - b) * q = 0 \/ (b - a) * q = 0
    BY <1>2, <1>3, <1>8
  <2>2. a - b = 0 \/ b - a = 0
    BY <1>5, <1>6, <2>1
  <2> QED
    BY <2>2
<1> QED
  BY <1>2, <1>7, <1>8

\* What is near a level is worth as much to within the tolerance.
LEMMA NearInWorth ==
  ASSUME NEW t \in DummyTrade, NEW q \in Nat, q > 0, NEW price \in Int, NEW level \in Int,
         Near(t, price, level)
  PROVE  100 * Magnitude(SignedPnl(t, price, q) - SignedPnl(t, level, q)) <= q * Tolerance(t)
<1>1. PICK m \in Nat : m = Magnitude(price - level)
  BY DEF Magnitude
<1>2. PICK most \in Nat : most = Tolerance(t) /\ 100 * m <= most
  BY <1>1, ToleranceIs DEF Near
<1>3. 100 * (m * q) <= q * most
  <2>1. PICK rest \in Nat : most = 100 * m + rest
    <3>1. most - 100 * m \in Nat /\ most = 100 * m + (most - 100 * m)
      BY <1>2
    <3> QED
      BY <3>1
  <2>2. q * most = 100 * (m * q) + q * rest
    BY <2>1, SMTT(30)
  <2>3. q * rest \in Nat /\ m * q \in Nat
    OBVIOUS
  <2> QED
    BY <2>2, <2>3
<1> QED
  BY <1>1, <1>2, <1>3, WorthApart

\* Nothing between a stop-loss and a target is worth as little or as much as they.
LEMMA WorthBetween ==
  ASSUME NEW t \in DummyTrade, NEW q \in Nat, q > 0, NEW price \in Int,
         t.direction = "LONG" => t.stopLoss < price /\ price < t.target,
         t.direction = "SHORT" => price < t.stopLoss /\ t.target < price
  PROVE  SignedPnl(t, t.stopLoss, q) < SignedPnl(t, price, q)
         /\ SignedPnl(t, price, q) < SignedPnl(t, t.target, q)
<1>1. /\ t.direction \in {"LONG", "SHORT"} /\ t.entry \in Int /\ t.stopLoss \in Int
      /\ t.target \in Int
  BY TradeFields
<1>2. CASE t.direction = "LONG"
  <2>1. t.stopLoss - t.entry < price - t.entry /\ price - t.entry < t.target - t.entry
    BY <1>1, <1>2
  <2>2. /\ (t.stopLoss - t.entry) * q < (price - t.entry) * q
        /\ (price - t.entry) * q < (t.target - t.entry) * q
    BY <1>1, <2>1, LongerIsMore
  <2> QED
    BY <1>2, <2>2 DEF SignedPnl
<1>3. CASE t.direction = "SHORT"
  <2>1. t.entry - t.stopLoss < t.entry - price /\ t.entry - price < t.entry - t.target
    BY <1>1, <1>3
  <2>2. /\ (t.entry - t.stopLoss) * q < (t.entry - price) * q
        /\ (t.entry - price) * q < (t.entry - t.target) * q
    BY <1>1, <2>1, LongerIsMore
  <2> QED
    BY <1>3, <2>2 DEF SignedPnl
<1> QED
  BY <1>1, <1>2, <1>3

\* What a closed trade says of its end, told from its P&L.
LEMMA ReasonByWorth ==
  ASSUME NEW t \in DummyTrade, NEW q \in Nat, EndedAsSaid(t, q)
  PROVE  LET Worth(level) == SignedPnl(t, level, q)
             Within(level) == 100 * Magnitude(t.pnl - Worth(level)) <= q * Tolerance(t)
         IN  /\ t.pnl = Worth(t.target) => t.exitReason = "TARGET"
             /\ t.pnl = Worth(t.stopLoss) => t.exitReason = "STOP_LOSS" \/ Within(t.target)
             /\ t.pnl \notin {Worth(t.target), Worth(t.stopLoss)} =>
                  /\ MinuteOf(t.closedAt) >= MarketClose
                  /\ Worth(t.stopLoss) < t.pnl /\ t.pnl < Worth(t.target)
             /\ t.exitReason = "TARGET" => Within(t.target)
             /\ t.exitReason = "STOP_LOSS" => Within(t.stopLoss)
<1> DEFINE Worth(level) == SignedPnl(t, level, q)
           Within(level) == 100 * Magnitude(t.pnl - Worth(level)) <= q * Tolerance(t)
<1>1. PICK price \in Int : LeftAt(t, q, price)
  BY DEF EndedAsSaid
<1>2. q > 0 /\ t.stopLoss \in Int /\ t.target \in Int /\ t.stopLoss # t.target
  BY TradeFields DEF EndedAsSaid, Leveled
<1>3. t.pnl = Worth(price)
  BY <1>1 DEF LeftAt
<1>4. \A level \in Int : Near(t, price, level) => Within(level)
  BY <1>2, <1>3, NearInWorth
<1>5. /\ t.pnl = Worth(t.target) => price = t.target
      /\ t.pnl = Worth(t.stopLoss) => price = t.stopLoss
  BY <1>2, <1>3, WorthApart
<1>6. Near(t, t.target, t.target) /\ Near(t, t.stopLoss, t.stopLoss)
  BY <1>2, NearItself
<1>7. CASE price = t.target /\ t.exitReason = "TARGET"
  BY <1>2, <1>3, <1>4, <1>5, <1>6, <1>7
<1>8. CASE /\ price = t.stopLoss
           /\ \/ t.exitReason = "STOP_LOSS"
              \/ t.exitReason = "TARGET" /\ Near(t, price, t.target)
  BY <1>2, <1>3, <1>4, <1>5, <1>6, <1>8
<1>9. CASE /\ MinuteOf(t.closedAt) >= MarketClose
           /\ t.direction = "LONG" => t.stopLoss < price /\ price < t.target
           /\ t.direction = "SHORT" => price < t.stopLoss /\ t.target < price
           /\ t.exitReason \in {"TARGET", "STOP_LOSS", "END_OF_DAY"}
           /\ t.exitReason = "TARGET" => Near(t, price, t.target)
           /\ t.exitReason = "STOP_LOSS" => Near(t, price, t.stopLoss)
  <2>1. Worth(t.stopLoss) < t.pnl /\ t.pnl < Worth(t.target)
    BY <1>2, <1>3, <1>9, WorthBetween
  <2>2. price # t.target /\ price # t.stopLoss
    BY <1>2, <1>9, TradeFields
  <2> QED
    BY <1>2, <1>4, <1>5, <1>9, <2>1, <2>2
<1>10. \/ price = t.target /\ t.exitReason = "TARGET"
       \/ /\ price = t.stopLoss
          /\ \/ t.exitReason = "STOP_LOSS"
             \/ t.exitReason = "TARGET" /\ Near(t, price, t.target)
       \/ /\ MinuteOf(t.closedAt) >= MarketClose
          /\ t.direction = "LONG" => t.stopLoss < price /\ price < t.target
          /\ t.direction = "SHORT" => price < t.stopLoss /\ t.target < price
          /\ t.exitReason \in {"TARGET", "STOP_LOSS", "END_OF_DAY"}
          /\ t.exitReason = "TARGET" => Near(t, price, t.target)
          /\ t.exitReason = "STOP_LOSS" => Near(t, price, t.stopLoss)
  BY <1>1 DEF LeftAt
<1> QED
  BY <1>7, <1>8, <1>9, <1>10

\* The trades that are watched and those that are closed tell of the positions'
\* levels and ends, in every run.
LEMMA ReasonsInvariant == SignalSpec => []ReasonsInv
<1>1. SignalInit => ReasonsInv
  BY DEF SignalInit, ReasonsInv
<1>2. SignalInv /\ SignalInv' /\ ReasonsInv /\ [SignalNext]_<<vars, signals>> => ReasonsInv'
  <2> SUFFICES ASSUME SignalInv, SignalInv', ReasonsInv, [SignalNext]_<<vars, signals>>
               PROVE  ReasonsInv'
    OBVIOUS
  <2>1. CASE SignalNext
    <3>1. PICK c \in Candle : /\ WellFormed(c) /\ ProcessCandle(c)
                              /\ \E s \in EvaluatedStrengths : OnTrades(c, s)
      BY <2>1 DEF SignalNext
    <3>2. PICK s \in EvaluatedStrengths : OnTrades(c, s)
      BY <3>1
    <3>3. BookInv /\ BookInv' /\ TradesInv /\ TradesInv'
      BY DEF SignalInv
    <3> QED
      BY <3>1, <3>2, <3>3, ReasonsStep
  <2>2. CASE UNCHANGED <<vars, signals>>
    <3>1. UNCHANGED <<positions, openId, stopLoss, target, dummies>>
      BY <2>2 DEF vars, signals
    <3> QED
      BY <3>1 DEF ReasonsInv
  <2> QED
    BY <2>1, <2>2
<1> QED
  BY <1>1, <1>2, SignalInvariant, PTL DEF SignalSpec

\* A level that was hit is named as the reason of an exit, and one that was not only if
\* the price was within the tolerance of it, in every run, for all prices, multipliers
\* and price units.
THEOREM HitsStayNamed == SignalSpec => []HitsAreNamed
<1>1. SignalInv /\ ReasonsInv => HitsAreNamed
  <2> SUFFICES ASSUME SignalInv, ReasonsInv, NEW d \in DOMAIN dummies,
                      dummies[d].status = "CLOSED"
               PROVE  LET t == dummies[d]
                          q == positions[t.position].initialQuantity
                          Worth(level) == SignedPnl(t, level, q)
                          Within(level) ==
                            100 * Magnitude(t.pnl - Worth(level)) <= q * Tolerance(t)
                      IN  /\ t.pnl = Worth(t.target) => t.exitReason = "TARGET"
                          /\ t.pnl = Worth(t.stopLoss) =>
                               t.exitReason = "STOP_LOSS" \/ Within(t.target)
                          /\ t.pnl \notin {Worth(t.target), Worth(t.stopLoss)} =>
                               /\ MinuteOf(t.closedAt) >= MarketClose
                               /\ Worth(t.stopLoss) < t.pnl /\ t.pnl < Worth(t.target)
                          /\ t.exitReason = "TARGET" => Within(t.target)
                          /\ t.exitReason = "STOP_LOSS" => Within(t.stopLoss)
    BY DEF HitsAreNamed
  <2> DEFINE t == dummies[d]
             q == positions[t.position].initialQuantity
  <2>1. t \in DummyTrade /\ t.position \in DOMAIN positions
    BY DEF SignalInv, TradesInv, Mirrors
  <2>2. q \in Nat
    BY <2>1, BookFacts DEF SignalInv, BookInv, CycleInv, TypeOK, Position
  <2>3. EndedAsSaid(t, q)
    BY DEF ReasonsInv
  <2> HIDE DEF t, q
  <2>4. LET Worth(level) == SignedPnl(t, level, q)
            Within(level) == 100 * Magnitude(t.pnl - Worth(level)) <= q * Tolerance(t)
        IN  /\ t.pnl = Worth(t.target) => t.exitReason = "TARGET"
            /\ t.pnl = Worth(t.stopLoss) => t.exitReason = "STOP_LOSS" \/ Within(t.target)
            /\ t.pnl \notin {Worth(t.target), Worth(t.stopLoss)} =>
                 /\ MinuteOf(t.closedAt) >= MarketClose
                 /\ Worth(t.stopLoss) < t.pnl /\ t.pnl < Worth(t.target)
            /\ t.exitReason = "TARGET" => Within(t.target)
            /\ t.exitReason = "STOP_LOSS" => Within(t.stopLoss)
    BY <2>1, <2>2, <2>3, ReasonByWorth
  <2> QED
    BY <2>4 DEF t, q
<1> QED
  BY <1>1, ReasonsInvariant, SignalInvariant, PTL

=============================================================================
