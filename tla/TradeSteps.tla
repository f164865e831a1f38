----------------------------- MODULE TradeSteps -----------------------------
(***************************************************************************)
(* One candle of TradeCycle as the dashboard's GET requests see it: not    *)
(* one step but every access to the state the engine's thread and the      *)
(* requests share - the book, the cash, the peak of the equity, the        *)
(* counters.  process_candle holds no lock, and dashboard_snapshot drops   *)
(* the service's lock once it has the session; it even takes part in the   *)
(* writing, since PortfolioManager.snapshot() moves the peak.              *)
(*                                                                         *)
(* What a candle decides is TradeCycle's matter: here an exit, an entry    *)
(* and a mark are choices, with a few results each.  The journal, the      *)
(* observer and the drawdown are not followed.                             *)
(***************************************************************************)
EXTENDS Integers, Sequences, FiniteSets, FiniteSetsExt, Functions

CONSTANTS
  Readers,      \* GET /dashboard requests, each made once
  Gain, Loss,   \* what a trade may realize, or show at a mark
  InitialCash,
  MaxCandles    \* bound: candles per behaviour

ASSUME StepsAssumption ==
  /\ Gain \in Nat /\ Loss \in Nat /\ InitialCash \in Nat /\ MaxCandles \in Nat
  /\ "engine" \notin Readers

Threads == {"engine"} \cup Readers
Outcomes == {Gain, -Loss}
NoPosition == 0

VARIABLES
  pc,              \* what each thread does next
  positions,       \* PositionManager._positions, in the order opened
  openId,          \* EventProcessor._open_position_id as an index, 0 for None
  cash,            \* PortfolioManager._cash
  peakEquity,      \* PortfolioManager._peak_equity
  orders,          \* OrderManager._orders: their statuses, in the order created
  submitted,       \* PerformanceMonitor._orders_submitted
  generated,       \* HealthMonitor._orders_generated
  recorded,        \* HealthMonitor._processed_candles
  processed,       \* RuntimeEngine._processed_count
  scan,            \* each thread's loop over the book: where it is, what it kept
  local,           \* each thread's locals of snapshot()
  response,        \* what each request has gathered
  observed         \* history: the highest equity a finished snapshot() has seen

shared == <<positions, openId, cash, orders, submitted, generated, recorded, processed>>
vars == <<pc, shared, peakEquity, scan, local, response, observed>>

Position == [open : BOOLEAN, realized : Int, unrealized : Int]

EmptyResponse == [known |-> {}, open |-> {}, closed |-> {}, processed |-> 0, ordersGenerated |-> 0,
                  orders |-> <<>>, equity |-> 0, healthProcessed |-> 0, ordersSubmitted |-> 0]

NoScan == [at |-> 0, size |-> 0, kept |-> {}]

Init ==
  /\ pc = [t \in Threads |-> IF t = "engine" THEN "idle" ELSE "unsent"]
  /\ positions = <<>> /\ openId = NoPosition
  /\ cash = InitialCash /\ peakEquity = InitialCash /\ observed = InitialCash
  /\ orders = <<>> /\ submitted = 0 /\ generated = 0
  /\ recorded = 0 /\ processed = 0
  /\ scan = [t \in Threads |-> NoScan]
  /\ local = [t \in Threads |-> [equity |-> 0, peak |-> 0]]
  /\ response = [r \in Readers |-> EmptyResponse]

Goto(t, label) == pc' = [pc EXCEPT ![t] = label]
At(t, label) == pc[t] = label

-----------------------------------------------------------------------------
(* PositionManager.open_positions and closed_positions, PortfolioManager.snapshot *)

\* A loop over _positions.values() starts; the dictionary must keep its size.
StartScan(t, label) ==
  /\ scan' = [scan EXCEPT ![t] = [at |-> 0, size |-> Len(positions), kept |-> {}]]
  /\ Goto(t, label)

ScanningOpen == {"list open", "sum open"}
ScanningClosed == {"list closed", "sum closed"}

\* Mutant: the closed positions are listed first.
ListsClosedFirst(t, i) ==
  IF pc[t] \in {"list closed", "sum open"} THEN positions[i].open ELSE ~positions[i].open

Keeps(t, i) == IF pc[t] \in ScanningOpen THEN positions[i].open ELSE ~positions[i].open

\* The next position; an entry since the loop began makes the iterator raise.
ScanNext(t) ==
  /\ pc[t] \in ScanningOpen \cup ScanningClosed
  /\ scan[t].at < scan[t].size
  /\ IF Len(positions) # scan[t].size
     THEN Goto(t, "failed") /\ UNCHANGED scan
     ELSE /\ scan' = [scan EXCEPT ![t].at = @ + 1,
                        ![t].kept = IF Keeps(t, scan[t].at + 1)
                                    THEN @ \cup {<<scan[t].at + 1, positions[scan[t].at + 1].unrealized>>}
                                    ELSE @]
          /\ UNCHANGED pc
  /\ UNCHANGED <<shared, peakEquity, local, response, observed>>

Scanned(t, label) == At(t, label) /\ scan[t].at = scan[t].size

Ids(kept) == {k[1] : k \in kept}
Shown(kept) == FoldFunction(+, 0, [k \in kept |-> k[2]])

\* The open positions' unrealized P&L is known; the closed ones are listed next.
SumClosed(t) ==
  /\ Scanned(t, "sum open")
  /\ local' = [local EXCEPT ![t].equity = Shown(scan[t].kept)]
  /\ StartScan(t, "sum closed")
  /\ UNCHANGED <<shared, peakEquity, response, observed>>

ReadCash(t) ==
  /\ Scanned(t, "sum closed")
  /\ local' = [local EXCEPT ![t].equity = @ + cash]
  /\ scan' = [scan EXCEPT ![t] = NoScan]
  /\ Goto(t, "peak")
  /\ UNCHANGED <<shared, peakEquity, response, observed>>

\* self._peak_equity = max(self._peak_equity, total_equity): a read ...
ReadPeak(t) ==
  /\ At(t, "peak")
  /\ local' = [local EXCEPT ![t].peak = peakEquity]
  /\ Goto(t, "write peak")
  /\ UNCHANGED <<shared, peakEquity, scan, response, observed>>

\* ... and a write of what was true at the read.
WritePeak(t) ==
  /\ At(t, "write peak")
  /\ peakEquity' = Max({local[t].peak, local[t].equity})
  /\ observed' = Max({observed, local[t].equity})
  /\ IF t = "engine"
     THEN Goto(t, "record") /\ UNCHANGED response
     ELSE Goto(t, "health") /\ response' = [response EXCEPT ![t].equity = local[t].equity]
  /\ local' = [local EXCEPT ![t] = [equity |-> 0, peak |-> 0]]
  /\ UNCHANGED <<shared, scan>>

Snapshot(t) == ScanNext(t) \/ SumClosed(t) \/ ReadCash(t) \/ ReadPeak(t) \/ WritePeak(t)

-----------------------------------------------------------------------------
(* The engine's thread: process_candle *)

Engine(from, to) == At("engine", from) /\ Goto("engine", to)
ReadersKeep == UNCHANGED <<peakEquity, scan, local, response, observed>>

BeginCandle ==
  /\ processed < MaxCandles
  /\ Engine("idle", IF openId = NoPosition THEN "entry" ELSE "exit")
  /\ ReadersKeep /\ UNCHANGED shared

\* PositionManager.exit: the book is the first to know.
ClosePosition ==
  /\ Engine("exit", "cash")
  /\ \E pnl \in Outcomes :
       positions' = [positions EXCEPT ![openId] = [open |-> FALSE, realized |-> pnl, unrealized |-> 0]]
  /\ ReadersKeep /\ UNCHANGED <<openId, cash, orders, submitted, generated, recorded, processed>>

RecordCashChange ==
  /\ Engine("cash", "forget")
  /\ cash' = cash + positions[openId].realized
  /\ ReadersKeep /\ UNCHANGED <<positions, openId, orders, submitted, generated, recorded, processed>>

\* Mutant: the candle that exits is also the one that is forgotten.
KeepThePointer ==
  /\ Engine("forget", "snapshot")
  /\ ReadersKeep /\ UNCHANGED shared

\* The cooldown forbids an entry on the candle of the exit.
ForgetPosition ==
  /\ Engine("forget", "snapshot")
  /\ openId' = NoPosition
  /\ ReadersKeep /\ UNCHANGED <<positions, cash, orders, submitted, generated, recorded, processed>>

\* update_unrealized_pnl on a candle that does not exit.
MarkPosition ==
  /\ Engine("exit", "snapshot")
  /\ \E pnl \in Outcomes : positions' = [positions EXCEPT ![openId].unrealized = pnl]
  /\ ReadersKeep /\ UNCHANGED <<openId, cash, orders, submitted, generated, recorded, processed>>

NoEntry == Engine("entry", "snapshot") /\ ReadersKeep /\ UNCHANGED shared

CreateOrder ==
  /\ Engine("entry", "validate")
  /\ orders' = Append(orders, "NEW")
  /\ ReadersKeep /\ UNCHANGED <<positions, openId, cash, submitted, generated, recorded, processed>>

OrderMoves(from, to, status) ==
  /\ Engine(from, to)
  /\ orders' = [orders EXCEPT ![Len(orders)] = status]
  /\ ReadersKeep /\ UNCHANGED <<positions, openId, cash, submitted, generated, recorded, processed>>

ValidateOrder == OrderMoves("validate", "submit", "VALIDATED")
SubmitOrder == OrderMoves("submit", "monitor", "SUBMITTED")

\* OrderSubmittedEvent: PerformanceMonitor subscribed before HealthMonitor.
MonitorSubmitted ==
  /\ Engine("monitor", "health")
  /\ submitted' = submitted + 1
  /\ ReadersKeep /\ UNCHANGED <<positions, openId, cash, orders, generated, recorded, processed>>

\* Mutant: the handler subscribed to every event counts the order as well.
HealthCountsTwice ==
  /\ Engine("health", "fill")
  /\ generated' = generated + 2
  /\ ReadersKeep /\ UNCHANGED <<positions, openId, cash, orders, submitted, recorded, processed>>

HealthSubmitted ==
  /\ Engine("health", "fill")
  /\ generated' = generated + 1
  /\ ReadersKeep /\ UNCHANGED <<positions, openId, cash, orders, submitted, recorded, processed>>

FillOrder == OrderMoves("fill", "open", "FILLED")

OpenPosition ==
  /\ Engine("open", "point")
  /\ positions' = Append(positions, [open |-> TRUE, realized |-> 0, unrealized |-> 0])
  /\ ReadersKeep /\ UNCHANGED <<openId, cash, orders, submitted, generated, recorded, processed>>

\* The processor's pointer; the mark to the entry price changes nothing.
PointToPosition ==
  /\ Engine("point", "snapshot")
  /\ openId' = Len(positions)
  /\ ReadersKeep /\ UNCHANGED <<positions, cash, orders, submitted, generated, recorded, processed>>

TakeSnapshot ==
  /\ At("engine", "snapshot") /\ StartScan("engine", "sum open")
  /\ UNCHANGED <<shared, peakEquity, local, response, observed>>

RecordCandle ==
  /\ Engine("record", "count")
  /\ recorded' = recorded + 1
  /\ ReadersKeep /\ UNCHANGED <<positions, openId, cash, orders, submitted, generated, processed>>

CountCandle ==
  /\ Engine("count", "idle")
  /\ processed' = processed + 1
  /\ ReadersKeep /\ UNCHANGED <<positions, openId, cash, orders, submitted, generated, recorded>>

EngineStep ==
  \/ BeginCandle \/ ClosePosition \/ RecordCashChange \/ ForgetPosition
  \/ MarkPosition \/ NoEntry \/ CreateOrder \/ ValidateOrder \/ SubmitOrder
  \/ MonitorSubmitted \/ HealthSubmitted \/ FillOrder \/ OpenPosition
  \/ PointToPosition \/ TakeSnapshot \/ RecordCandle \/ CountCandle

-----------------------------------------------------------------------------
(* A request: dashboard_snapshot *)

ListOpen(r) ==
  /\ At(r, "unsent") /\ StartScan(r, "list open")
  /\ response' = [response EXCEPT ![r].known = DOMAIN positions]
  /\ UNCHANGED <<shared, peakEquity, local, observed>>

ListClosed(r) ==
  /\ Scanned(r, "list open")
  /\ response' = [response EXCEPT ![r].open = Ids(scan[r].kept)]
  /\ StartScan(r, "list closed")
  /\ UNCHANGED <<shared, peakEquity, local, observed>>

ReadStep(r, from, to, update) ==
  /\ At(r, from) /\ Goto(r, to)
  /\ response' = [response EXCEPT ![r] = update]
  /\ UNCHANGED <<shared, peakEquity, scan, local, observed>>

\* _runtime_stats_for: the health monitor's orders, then the engine's count.
ReadStats(r) ==
  /\ Scanned(r, "list closed")
  /\ response' = [response EXCEPT ![r].closed = Ids(scan[r].kept), ![r].ordersGenerated = generated]
  /\ scan' = [scan EXCEPT ![r] = NoScan]
  /\ Goto(r, "processed")
  /\ UNCHANGED <<shared, peakEquity, local, observed>>

ReadProcessed(r) == ReadStep(r, "processed", "orders", [response[r] EXCEPT !.processed = processed])
ReadOrders(r) == ReadStep(r, "orders", "portfolio", [response[r] EXCEPT !.orders = orders])

ReadPortfolio(r) ==
  /\ At(r, "portfolio") /\ StartScan(r, "sum open")
  /\ UNCHANGED <<shared, peakEquity, local, response, observed>>

ReadHealth(r) == ReadStep(r, "health", "performance", [response[r] EXCEPT !.healthProcessed = recorded])
ReadPerformance(r) == ReadStep(r, "performance", "done", [response[r] EXCEPT !.ordersSubmitted = submitted])

ReaderStep(r) ==
  \/ ListOpen(r) \/ ListClosed(r) \/ ReadStats(r) \/ ReadProcessed(r) \/ ReadOrders(r)
  \/ ReadPortfolio(r) \/ ReadHealth(r) \/ ReadPerformance(r)

Next ==
  \/ EngineStep
  \/ \E r \in Readers : ReaderStep(r)
  \/ \E t \in Threads : Snapshot(t)

Spec == Init /\ [][Next]_vars

-----------------------------------------------------------------------------
(* Properties *)

Labels == {"idle", "exit", "cash", "forget", "entry", "validate", "submit", "monitor", "health",
           "fill", "open", "point", "snapshot", "record", "count", "unsent", "processed",
           "orders", "portfolio", "performance", "peak", "write peak", "done", "failed"}
          \cup ScanningOpen \cup ScanningClosed

TypeOK ==
  /\ pc \in [Threads -> Labels]
  /\ positions \in Seq(Position) /\ openId \in 0 .. Len(positions)
  /\ cash \in Int /\ peakEquity \in Int /\ observed \in Int
  /\ orders \in Seq({"NEW", "VALIDATED", "SUBMITTED", "FILLED"})
  /\ {submitted, generated, recorded, processed} \subseteq Nat
  /\ \A t \in Threads : scan[t].at <= scan[t].size
  /\ \A r \in Readers : response[r].open \cup response[r].closed \subseteq DOMAIN positions

Realized == FoldFunction(+, 0, [i \in DOMAIN positions |-> positions[i].realized])

\* Between two candles the books agree, whatever requests were served during
\* the candle: the cash is the initial cash and every realized P&L, the pointer
\* is the only open position, and every order is counted, filled and has one.
BoundaryReconciles ==
  /\ TypeOK
  /\ At("engine", "idle") =>
       /\ cash = InitialCash + Realized
       /\ \A i \in DOMAIN positions : positions[i].open <=> i = openId
       /\ Len(orders) = Len(positions) /\ submitted = Len(orders) /\ generated = Len(orders)
       /\ \A i \in DOMAIN orders : orders[i] = "FILLED"

\* A request that reads the counters while a candle runs still answers with
\* figures that fit: the order in which dashboard_snapshot evaluates its fields
\* is the reverse of the order in which the engine's thread advances them.
ResponseCoherent ==
  \A r \in Readers :
    At(r, "done") =>
      LET filled == {i \in DOMAIN response[r].orders : response[r].orders[i] = "FILLED"}
      IN  /\ response[r].processed <= response[r].healthProcessed
          /\ response[r].ordersGenerated <= response[r].ordersSubmitted
          /\ Cardinality(response[r].open \cup response[r].closed) <= Cardinality(filled)

\* A position in the book when the request came is listed, though an exit may
\* run between the two loops: the open ones are read before the closed ones.
\* (One that closes in between is listed twice.)
NoPositionMissed ==
  \A r \in Readers :
    At(r, "done") => response[r].known \subseteq response[r].open \cup response[r].closed

=============================================================================
