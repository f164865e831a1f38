---------------------------- MODULE PaperAccount ----------------------------
(***************************************************************************)
(* TradeCycle with the figures that follow the book: the PortfolioManager  *)
(* (cash, daily P&L, peak equity) that the processor calls, and those who  *)
(* learn only from the events it and the managers publish: the             *)
(* PerformanceMonitor, the HealthMonitor, the ExecutionJournal and the     *)
(* dashboard's observer.  Every candle of the cycle is one step of all.    *)
(***************************************************************************)
EXTENDS TradeCycle, FiniteSets, SequencesExt

CONSTANT InitialCash

ASSUME CashAssumption == InitialCash \in Nat

VARIABLES
  cash,         \* PortfolioManager._cash
  dailyPnl,     \* PortfolioManager._daily_pnl
  peakEquity,   \* PortfolioManager._peak_equity
  wins,         \* PerformanceMonitor._wins
  losses,       \* PerformanceMonitor._losses
  maxDrawdown,  \* PerformanceMonitor._max_drawdown
  equities,     \* history: total_equity of every snapshot taken
  counted,      \* the monitors' counts of orders and events
  journal,      \* ExecutionJournal._entries: how many of each type
  shown         \* _EventObserver: candles kept, last risk decision

account == <<cash, dailyPnl, peakEquity, wins, losses, maxDrawdown, equities,
             counted, journal, shown>>

Larger(a, b) == IF a >= b THEN a ELSE b

SumOver(f) == FoldFunction(+, 0, f)

\* cash plus what the open positions are worth
TotalEquity(money, book) ==
  money + SumOver([i \in DOMAIN book |->
                     IF book[i].status # "CLOSED" THEN book[i].unrealized ELSE 0])

\* _EVENT_TYPE_TO_ENTRY_TYPE, by the events it maps: those the processor causes
\* have an entry type each, and market data is not journaled.
Journaled == {"signal", "risk", "submitted", "filled", "position", "portfolio"}

Nothing == [direction |-> "NONE", stopLoss |-> 0, target |-> 0, size |-> 0]

Unfollowed == [Nothing EXCEPT !.direction = "ANY"]

AccountInit ==
  /\ Init
  /\ cash = InitialCash /\ dailyPnl = 0 /\ peakEquity = InitialCash
  /\ wins = 0 /\ losses = 0 /\ maxDrawdown = 0
  /\ equities = <<>>
  /\ counted = [submitted |-> 0, filled |-> 0, generated |-> 0, events |-> 0]
  /\ journal = [e \in Journaled |-> 0]
  /\ shown = [candles |-> 0, decision |-> Nothing]

\* Positions the step closed: each publishes one PositionUpdatedEvent as CLOSED.
JustClosed ==
  {i \in DOMAIN positions : positions[i].status # "CLOSED" /\ positions'[i].status = "CLOSED"}

RealizedDelta ==
  SumOver([i \in JustClosed |-> positions'[i].realized - positions[i].realized])

\* Mutant: cash takes the last mark of what closed, not what it realized.
RecordLastMark ==
  /\ cash' = cash + SumOver([i \in JustClosed |-> positions[i].unrealized])
  /\ dailyPnl' = dailyPnl + RealizedDelta

RecordCashChange ==
  \E delta \in {RealizedDelta} : cash' = cash + delta /\ dailyPnl' = dailyPnl + delta

\* Mutant: a trade that breaks even is counted as a loss.
CountBreakEvenAsLoss ==
  /\ wins' = wins + Cardinality({i \in JustClosed : positions'[i].realized > 0})
  /\ losses' = losses + Cardinality({i \in JustClosed : positions'[i].realized <= 0})

OnPositionUpdated ==
  /\ wins' = wins + Cardinality({i \in JustClosed : positions'[i].realized > 0})
  /\ losses' = losses + Cardinality({i \in JustClosed : positions'[i].realized < 0})

\* Mutant: the peak follows the equity down.
SnapshotForgettingPeak ==
  IF seen' <= WarmupCandles
  THEN UNCHANGED <<peakEquity, maxDrawdown, equities>>
  ELSE \E equity \in {TotalEquity(cash', positions')} :
         /\ peakEquity' = equity
         /\ maxDrawdown' = Larger(maxDrawdown, peakEquity - equity)
         /\ equities' = Append(equities, equity)

\* process_candle returns before the snapshot while warming up.
Snapshot ==
  IF seen' <= WarmupCandles
  THEN UNCHANGED <<peakEquity, maxDrawdown, equities>>
  ELSE \E equity \in {TotalEquity(cash', positions')} :
         /\ peakEquity' = Larger(peakEquity, equity)
         /\ maxDrawdown' = Larger(maxDrawdown, Larger(0, peakEquity' - equity))
         /\ equities' = Append(equities, equity)

\* Until the exit check leaves a position open, the strategy is evaluated.
Evaluated == seen' > WarmupCandles /\ (openId = NoPosition \/ JustClosed # {})

Entered == Len(positions') > Len(positions)

\* An evaluation without a direction has no stop distance: its size is 0 and is
\* no ground for a rejection.  NONE stands too for a direction whose setup is not
\* valid: it opens nothing either, and its size and exposure are not assessed here.
RiskApproved(c) ==
  IF c.signal = "NONE"
  THEN LossAfterExit(c) < MaxDailyLoss /\ TradesOn(c) < MaxTradesPerDay
  ELSE RiskOk(c, LossAfterExit(c), TradesOn(c))

\* A decision that no order follows is kept as no more than that.
Assessment(c) ==
  IF Entered
  THEN [direction |-> c.signal, stopLoss |-> CalculateStopLoss(c),
        target |-> CalculateTarget(c), size |-> PositionSize(c)]
  ELSE Unfollowed

Ones(condition) == IF condition THEN 1 ELSE 0

\* The events of one candle.  A position is published when it opens, when it
\* closes and at every mark; the registry holds one strategy.
Published(c) ==
  [market |-> 1,
   signal |-> Ones(Evaluated),
   risk |-> Ones(Evaluated /\ RiskApproved(c)),
   submitted |-> Ones(Entered),
   filled |-> Ones(Entered),
   position |-> Cardinality(JustClosed) + Ones(Entered) + Ones(openId' # NoPosition),
   portfolio |-> Ones(seen' > WarmupCandles)]

Total(told) ==
  told.signal + told.risk + told.submitted + told.filled + told.position + told.portfolio

\* HealthMonitor hears every event, and the submitted orders once more.
Publish(c) ==
  \E told \in {Published(c)} :
    /\ counted' = [submitted |-> counted.submitted + told.submitted,
                   filled |-> counted.filled + told.filled,
                   generated |-> counted.generated + told.submitted,
                   events |-> counted.events + told.market + Total(told)]
    /\ journal' = [e \in Journaled |-> journal[e] + told[e]]

\* Mutant: a decision is shown for a candle that evaluates none.
ObserveEveryDecision(c) ==
  shown' = [candles |-> shown.candles + 1,
            decision |-> IF seen' > WarmupCandles THEN Assessment(c) ELSE shown.decision]

Observe(c) ==
  shown' = [candles |-> shown.candles + 1,
            decision |-> IF Evaluated /\ RiskApproved(c) THEN Assessment(c) ELSE shown.decision]

AccountNext ==
  \E c \in Candle :
    /\ WellFormed(c)
    /\ ProcessCandle(c)
    /\ RecordCashChange
    /\ OnPositionUpdated
    /\ Snapshot
    /\ Publish(c) /\ Observe(c)

AccountSpec == AccountInit /\ [][AccountNext]_<<vars, account>>

-----------------------------------------------------------------------------
(* Properties *)

ClosedOn(day) ==
  {i \in DOMAIN positions : ledger[i].closedAt # Never /\ DayOf(ledger[i].closedAt) = day}

CashReconciles ==
  cash = InitialCash + SumOver([i \in DOMAIN positions |-> positions[i].realized])

LossCounterIsReal ==
  realizedLossToday =
    SumOver([i \in ClosedOn(currentDate) |-> Larger(0, -positions[i].realized)])

TradeCounterIsReal ==
  tradesTakenToday = Cardinality({i \in DOMAIN ledger : DayOf(ledger[i].openedAt) = currentDate})

\* What the processor keeps by adding up agrees with the book at every candle: cash is
\* the starting cash plus everything the positions say they have realized, and the
\* counters the daily gates read are the loss of the trades closed, and the number of
\* those opened, on the current day, whatever was held over the day roll.
CountersReconcile == CashReconciles /\ LossCounterIsReal /\ TradeCounterIsReal

\* The monitor's running maximum, kept from events alone, is the largest fall
\* from any earlier equity (the starting cash included) to any later one.
DrawdownIsExact ==
  LET curve == <<InitialCash>> \o equities
  IN  /\ \A i, j \in DOMAIN curve : i <= j => curve[i] - curve[j] <= maxDrawdown
      /\ \E i, j \in DOMAIN curve : i <= j /\ curve[i] - curve[j] = maxDrawdown

\* PerformanceMonitor.snapshot; a rate of nothing is 0.
Percent(part, whole) == IF whole = 0 THEN 0 ELSE (100 * part) \div whole

Performance ==
  [fillRatio |-> Percent(counted.filled, counted.submitted),
   winRate |-> Percent(wins, wins + losses),
   dailyReturn |-> Percent(dailyPnl, InitialCash),
   maxDrawdown |-> maxDrawdown]

WhereStatus(status) == {i \in DOMAIN positions : positions[i].status = status}

\* The observer has a context to show once it has kept more than the warm-up.
MarketContextKnown == shown.candles > WarmupCandles

\* The margin is never touched.
PortfolioShown ==
  [cash |-> cash, margin |-> InitialCash, open |-> WhereStatus("OPEN"),
   closed |-> WhereStatus("CLOSED"), dailyPnl |-> dailyPnl,
   equity |-> TotalEquity(cash, positions),
   peak |-> Larger(peakEquity, TotalEquity(cash, positions))]

Health == [events |-> counted.events, generated |-> counted.generated]

\* dashboard_snapshot between two candles.
Response ==
  [contextKnown |-> MarketContextKnown, decision |-> shown.decision,
   portfolio |-> PortfolioShown, health |-> Health, performance |-> Performance]

EmptyHealth == [events |-> 0, generated |-> 0]

EmptyPortfolio ==
  [cash |-> InitialCash, margin |-> InitialCash, open |-> {}, closed |-> {},
   dailyPnl |-> 0, equity |-> InitialCash, peak |-> InitialCash]

EmptyPerformance == [fillRatio |-> 0, winRate |-> 0, dailyReturn |-> 0, maxDrawdown |-> 0]

\* What a GET answers before any session was started.
EmptyResponse ==
  [contextKnown |-> FALSE, decision |-> Nothing, portfolio |-> EmptyPortfolio,
   health |-> EmptyHealth, performance |-> EmptyPerformance]

Won == {i \in DOMAIN positions : positions[i].realized > 0}
Lost == {i \in DOMAIN positions : positions[i].realized < 0}

\* The figures counted from events agree with the closed positions and the book.
CountsMatch ==
  /\ wins = Cardinality(Won) /\ losses = Cardinality(Lost)
  /\ counted.submitted = Len(positions) /\ counted.filled = Len(positions)
  /\ counted.generated = Len(positions)
  /\ counted.events = seen + Total(journal)
  /\ journal.submitted = Len(positions) /\ journal.portfolio = Len(equities)

\* The risk decision shown beside an open position is the one it was opened on,
\* since nothing is evaluated while it is held.
ShownDecisionIsTheTrade ==
  openId # NoPosition =>
    Response.decision = [direction |-> positions[openId].direction, stopLoss |-> stopLoss,
                         target |-> target, size |-> positions[openId].quantity]

\* A GET between candles, which takes a snapshot of its own, moves neither the
\* peak nor the drawdown, and a session that has taken no candle shows what
\* none at all does.
GetsAreQuiet ==
  /\ TotalEquity(cash, positions) <= peakEquity
  /\ peakEquity - TotalEquity(cash, positions) <= maxDrawdown
  /\ seen = 0 => Response = EmptyResponse
  /\ Response.decision # Nothing => Response.contextKnown

\* Those who learn of trades from events alone know what the book knows: the
\* counts, the decision behind the open position, and what a GET shows of them.
MonitorMatchesBook == CountsMatch /\ ShownDecisionIsTheTrade /\ GetsAreQuiet

=============================================================================
