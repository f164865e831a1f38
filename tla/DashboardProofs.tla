-------------------------- MODULE DashboardProofs --------------------------
(***************************************************************************)
(* Proofs about what the dashboard sees, for any number of requests.       *)
(*                                                                         *)
(* Inside the backend (TradeSteps): the engine's thread alone writes the   *)
(* book, so its program counter tells which of the books is behind the     *)
(* others (EngineInv); a request only meets a book that grows (Grows), and *)
(* what it has gathered stays true of a book that has grown since          *)
(* (ReaderInv).                                                            *)
(*                                                                         *)
(* Between the browser and the backend (DashboardClient): a button that is *)
(* not through waits for one POST (PostsOK), so that no more states of the *)
(* backend come from it than it has POSTs (VersionOK), and an answer is    *)
(* not older than the request it answers (RequestsOK).  The two parts      *)
(* share no state and no lemma.                                            *)
(***************************************************************************)
EXTENDS TradeSteps, DashboardClient, SumLemmas

-----------------------------------------------------------------------------
(* The inductive invariant *)

Statuses == {"NEW", "VALIDATED", "SUBMITTED", "FILLED"}

Scan == [at : Nat, size : Nat, kept : SUBSET (Nat \X Int)]

Response == [known : SUBSET Nat, open : SUBSET Nat, closed : SUBSET Nat,
             processed : Nat, ordersGenerated : Nat, orders : Seq(Statuses), equity : Int,
             healthProcessed : Nat, ordersSubmitted : Nat]

StepsType ==
  /\ pc \in [Threads -> Labels]
  /\ positions \in Seq(Position) /\ openId \in 0 .. Len(positions)
  /\ cash \in Int /\ peakEquity \in Int /\ observed \in Int
  /\ orders \in Seq(Statuses)
  /\ submitted \in Nat /\ generated \in Nat /\ recorded \in Nat /\ processed \in Nat
  /\ scan \in [Threads -> Scan]
  /\ \A t \in Threads : scan[t].at <= scan[t].size /\ IsFiniteSet(scan[t].kept)
  /\ local \in [Threads -> [equity : Int, peak : Int]]
  /\ response \in [Readers -> Response]

EngineAt == pc["engine"]

\* An order that has no position yet.
Ordering == {"validate", "submit", "monitor", "health", "fill", "open"}

\* The one position that is open, wherever the pointer points.
OpenNow ==
  IF EngineAt \in {"cash", "forget"} THEN NoPosition
  ELSE IF EngineAt = "point" THEN Len(positions) ELSE openId

\* What was realized and is not in the cash yet.
Owed == IF EngineAt = "cash" THEN positions[openId].realized ELSE 0

\* The status of the order without a position.
LastStatus ==
  CASE EngineAt = "validate" -> "NEW"
    [] EngineAt = "submit" -> "VALIDATED"
    [] EngineAt = "open" -> "FILLED"
    [] OTHER -> "SUBMITTED"

PointerInv ==
  /\ EngineAt \in {"exit", "cash", "forget"} => openId # NoPosition
  /\ EngineAt \in {"entry", "point"} \cup Ordering => openId = NoPosition
  /\ \A i \in DOMAIN positions :
       /\ positions[i].open <=> i = OpenNow
       /\ positions[i].open => positions[i].realized = 0

RealizedOf == [i \in DOMAIN positions |-> positions[i].realized]

CashInv == cash + Owed = InitialCash + SumOn(RealizedOf, DOMAIN positions)

OrdersInv ==
  /\ Len(orders) = Len(positions) + (IF EngineAt \in Ordering THEN 1 ELSE 0)
  /\ \A i \in DOMAIN positions : orders[i] = "FILLED"
  /\ EngineAt \in Ordering => orders[Len(orders)] = LastStatus
  /\ submitted = Len(orders) - (IF EngineAt \in {"validate", "submit", "monitor"} THEN 1 ELSE 0)
  /\ generated = Len(orders) - (IF EngineAt \in {"validate", "submit", "monitor", "health"} THEN 1 ELSE 0)
  /\ recorded = processed + (IF EngineAt = "count" THEN 1 ELSE 0)

EngineInv == PointerInv /\ CashInv /\ OrdersInv

\* A request has its two lists, then the counters, one after the other.
ReadingOpen == {"list open"}
ReadingClosed == {"list closed"}
HasLists == Labels \ (ReadingOpen \cup ReadingClosed \cup {"unsent", "failed"})
HasOrders == HasLists \ {"processed", "orders"}

\* While the open positions are listed, each position passed is listed or closed.
ListingOpen(r) ==
  pc[r] \in ReadingOpen =>
    /\ response[r].known = 1 .. scan[r].size
    /\ \A i \in 1 .. scan[r].at : i \in Ids(scan[r].kept) \/ ~positions[i].open
    /\ Ids(scan[r].kept) \subseteq DOMAIN positions

\* Then each position known that is not listed is closed, and listed when passed.
ListingClosed(r) ==
  pc[r] \in ReadingClosed =>
    /\ response[r].known \subseteq 1 .. scan[r].size
    /\ \A i \in response[r].known : i \in response[r].open \/ ~positions[i].open
    /\ \A i \in response[r].known :
         i <= scan[r].at => i \in response[r].open \cup Ids(scan[r].kept)
    /\ Ids(scan[r].kept) \subseteq DOMAIN positions

ListsInv(r) ==
  LET got == response[r] IN
  /\ pc[r] \in ReadingOpen \cup ReadingClosed \cup HasLists => got.known \subseteq DOMAIN positions
  /\ pc[r] \in HasLists => got.known \subseteq got.open \cup got.closed
  /\ got.open \subseteq DOMAIN positions /\ got.closed \subseteq DOMAIN positions

CountersInv(r) ==
  LET got == response[r] IN
  /\ pc[r] \in HasLists => got.ordersGenerated <= submitted
  /\ pc[r] \in HasLists \ {"processed"} => got.processed <= recorded
  /\ pc[r] \in HasOrders => \A i \in got.open \cup got.closed :
                              i \in DOMAIN got.orders /\ got.orders[i] = "FILLED"
  /\ pc[r] \in {"performance", "done"} => got.processed <= got.healthProcessed
  /\ pc[r] = "done" => got.ordersGenerated <= got.ordersSubmitted

ReaderInv(r) == ListingOpen(r) /\ ListingClosed(r) /\ ListsInv(r) /\ CountersInv(r)

StepsInv == StepsType /\ EngineInv /\ \A r \in Readers : ReaderInv(r)

\* The invariant is at least what the runs check of the types.
LEMMA InvariantTypes == StepsInv => TypeOK
BY DEF StepsInv, StepsType, TypeOK, ReaderInv, ListsInv, Statuses, Scan

-----------------------------------------------------------------------------
(* The engine's thread *)

\* What the proofs need of the types, the indices and the engine's label.
LEMMA Facts ==
  ASSUME StepsInv
  PROVE  /\ Len(positions) \in Nat /\ DOMAIN positions = 1 .. Len(positions)
         /\ Len(orders) \in Nat /\ DOMAIN orders = 1 .. Len(orders)
         /\ positions \in Seq(Position) /\ orders \in Seq(Statuses)
         /\ \A i \in DOMAIN positions : positions[i] \in Position
         /\ openId \in 0 .. Len(positions) /\ cash \in Int
         /\ submitted \in Nat /\ generated \in Nat /\ recorded \in Nat /\ processed \in Nat
         /\ pc \in [Threads -> Labels] /\ "engine" \in Threads /\ EngineAt \in Labels
  BY DEF StepsInv, StepsType, Threads, EngineAt

\* A book that grows: no position is lost or reopened, no counter goes back.
Grows ==
  /\ DOMAIN positions \subseteq DOMAIN positions'
  /\ \A i \in DOMAIN positions : ~positions[i].open => ~positions'[i].open
  /\ submitted' >= submitted /\ recorded' >= recorded

\* No request is touched.
Apart == \A r \in Readers : pc'[r] = pc[r] /\ scan'[r] = scan[r] /\ response'[r] = response[r]

\* A step of the engine's thread inside the candle.
LEMMA EngineAlone ==
  ASSUME StepsInv, NEW from, NEW to \in Labels, Engine(from, to), ReadersKeep
  PROVE  /\ EngineAt = from /\ EngineAt' = to /\ pc' \in [Threads -> Labels] /\ Apart
         /\ UNCHANGED <<peakEquity, scan, local, response, observed>>
<1>1. pc' = [pc EXCEPT !["engine"] = to] /\ pc["engine"] = from
      /\ UNCHANGED <<peakEquity, scan, local, response, observed>>
  BY DEF Engine, At, Goto, ReadersKeep
<1>2. pc \in [Threads -> Labels] /\ "engine" \in Threads /\ "engine" \notin Readers
  BY Facts, StepsAssumption
<1> QED
  BY <1>1, <1>2 DEF EngineAt, Apart, Threads

\* The types after such a step.
LEMMA EngineTypes ==
  ASSUME StepsInv, pc' \in [Threads -> Labels],
         UNCHANGED <<peakEquity, scan, local, response, observed>>,
         positions' \in Seq(Position), openId' \in 0 .. Len(positions'), cash' \in Int,
         orders' \in Seq(Statuses),
         submitted' \in Nat, generated' \in Nat, recorded' \in Nat, processed' \in Nat
  PROVE  StepsType'
  BY DEF StepsInv, StepsType

\* The labels at which every book is up to date and the pointer is right.
Settled == Labels \ ({"cash", "forget", "point", "count"} \cup Ordering)

\* Between two of them nothing has to be made good.
LEMMA SettledStep ==
  ASSUME StepsInv, UNCHANGED shared, EngineAt \in Settled, EngineAt' \in Settled,
         EngineAt' = "exit" => openId # NoPosition,
         EngineAt' = "entry" => openId = NoPosition
  PROVE  EngineInv' /\ Grows
<1>1. UNCHANGED <<positions, openId, cash, orders, submitted, generated, recorded, processed>>
  BY DEF shared
<1>2. OpenNow = openId /\ OpenNow' = openId /\ Owed = 0 /\ Owed' = 0
  BY <1>1 DEF OpenNow, Owed, Settled
<1>3. PointerInv'
  BY <1>1, <1>2 DEF StepsInv, EngineInv, PointerInv, Settled
<1>4. CashInv'
  BY <1>1, <1>2 DEF StepsInv, EngineInv, CashInv, RealizedOf
<1>5. OrdersInv'
  BY <1>1 DEF StepsInv, EngineInv, OrdersInv, Settled, Ordering
<1>6. Grows
  BY <1>1, Facts DEF Grows
<1> QED
  BY <1>3, <1>4, <1>5, <1>6 DEF EngineInv

\* What one step of the engine's thread does.
EngineKeeps == StepsType' /\ EngineInv' /\ Grows /\ Apart

\* One lemma per action of the engine's thread: what it does to every part of the
\* invariant.
LEMMA BeginCandleKeeps == ASSUME StepsInv, BeginCandle PROVE EngineKeeps
<1>1. Engine("idle", IF openId = NoPosition THEN "entry" ELSE "exit") /\ ReadersKeep /\ UNCHANGED shared
  BY DEF BeginCandle
<1>2. EngineAt = "idle" /\ EngineAt' = (IF openId = NoPosition THEN "entry" ELSE "exit")
      /\ pc' \in [Threads -> Labels] /\ Apart
      /\ UNCHANGED <<peakEquity, scan, local, response, observed>>
  <2>1. "entry" \in Labels /\ "exit" \in Labels
    BY DEF Labels
  <2> QED
    BY <1>1, <2>1, EngineAlone
<1>3. EngineInv' /\ Grows
  BY <1>1, <1>2, SettledStep DEF Settled, Ordering, Labels
<1> QED
  BY <1>1, <1>2, <1>3, Facts, EngineTypes DEF EngineKeeps, shared

LEMMA NoEntryKeeps == ASSUME StepsInv, NoEntry PROVE EngineKeeps
<1>1. EngineAt = "entry" /\ EngineAt' = "snapshot" /\ pc' \in [Threads -> Labels] /\ Apart
      /\ UNCHANGED <<peakEquity, scan, local, response, observed>> /\ UNCHANGED shared
  BY EngineAlone DEF NoEntry, Labels
<1>2. EngineInv' /\ Grows
  BY <1>1, SettledStep DEF Settled, Ordering, Labels
<1> QED
  BY <1>1, <1>2, Facts, EngineTypes DEF EngineKeeps, shared

\* The sum of what was realized, when one position is closed and when one is opened.
LEMMA RealizedSum ==
  ASSUME StepsInv
  PROVE  /\ IsFiniteSet(DOMAIN positions)
         /\ \A i \in DOMAIN positions : RealizedOf[i] = positions[i].realized /\ RealizedOf[i] \in Int
         /\ SumOn(RealizedOf, DOMAIN positions) \in Int
<1>1. IsFiniteSet(DOMAIN positions)
  BY Facts, FS_Interval
<1>2. \A i \in DOMAIN positions : RealizedOf[i] = positions[i].realized /\ RealizedOf[i] \in Int
  BY Facts DEF RealizedOf, Position
<1> QED
  BY <1>1, <1>2, SumType

LEMMA ClosePositionKeeps == ASSUME StepsInv, ClosePosition PROVE EngineKeeps
<1>1. EngineAt = "exit" /\ EngineAt' = "cash" /\ pc' \in [Threads -> Labels] /\ Apart
      /\ UNCHANGED <<peakEquity, scan, local, response, observed>>
      /\ UNCHANGED <<openId, cash, orders, submitted, generated, recorded, processed>>
  BY EngineAlone DEF ClosePosition, Labels
<1>2. PICK pnl \in Outcomes :
        positions' = [positions EXCEPT ![openId] = [open |-> FALSE, realized |-> pnl, unrealized |-> 0]]
  BY DEF ClosePosition
<1> DEFINE n == openId
           x == [open |-> FALSE, realized |-> pnl, unrealized |-> 0]
<1>3. pnl \in Int
  BY StepsAssumption DEF Outcomes
<1>4. n \in DOMAIN positions /\ OpenNow = n /\ Owed = 0 /\ PointerInv
  BY <1>1, Facts DEF StepsInv, EngineInv, PointerInv, NoPosition, OpenNow, Owed
<1>5. x \in Position /\ x.open = FALSE /\ x.realized = pnl
  BY <1>3 DEF Position
<1> HIDE DEF x
<1>6. /\ positions' \in Seq(Position) /\ Len(positions') = Len(positions)
      /\ DOMAIN positions' = DOMAIN positions /\ positions'[n] = x
      /\ \A i \in DOMAIN positions : i # n => positions'[i] = positions[i]
  <2>1. positions' = [positions EXCEPT ![n] = x]
    BY <1>2 DEF x
  <2> QED
    BY <1>4, <1>5, <2>1, Facts
<1>7. StepsType'
  BY <1>1, <1>6, Facts, EngineTypes
<1>8. PointerInv'
  <2>1. OpenNow' = NoPosition /\ NoPosition \notin DOMAIN positions
    BY <1>1, Facts DEF OpenNow, NoPosition
  <2>2. n # NoPosition /\ openId' = n
    BY <1>1, <1>4, <2>1
  <2>3. \A i \in DOMAIN positions : ~positions'[i].open
    BY <1>4, <1>5, <1>6 DEF PointerInv
  <2> QED
    BY <1>1, <1>6, <2>1, <2>2, <2>3 DEF PointerInv, Ordering
<1>9. CashInv'
  <2> DEFINE f == RealizedOf
             g == RealizedOf'
             D == DOMAIN positions
  <2>1. IsFiniteSet(D) /\ n \in D /\ \A i \in D : f[i] \in Int /\ f[i] = positions[i].realized
    BY <1>4, RealizedSum
  <2>2. \A i \in D : g[i] = positions'[i].realized
    BY <1>6 DEF RealizedOf
  <2>3. g[n] = pnl /\ \A i \in D : i # n => g[i] = f[i]
    BY <1>4, <1>5, <1>6, <2>1, <2>2
  <2>4. \A i \in D : f[i] \in Int /\ g[i] \in Int
    BY <1>3, <2>1, <2>3
  <2>5. f[n] = 0
    BY <1>4, <2>1 DEF PointerInv
  <2>6. DOMAIN positions' = D /\ SumOn(f, D) \in Int /\ cash + Owed = InitialCash + SumOn(f, D)
    BY <1>6, RealizedSum DEF StepsInv, EngineInv, CashInv
  <2>7. Owed' = pnl
    BY <1>1, <1>5, <1>6 DEF Owed
  <2> HIDE DEF f, g, D
  <2>8. \A i \in D : i # n => g[i] = f[i]
    BY <2>3
  <2>9. SumOn(g, D) = SumOn(f, D) + (g[n] - f[n])
    BY <2>1, <2>4, <2>8, SumChange, Zenon
  <2>10. cash \in Int /\ InitialCash \in Int
    BY Facts, StepsAssumption
  <2>11. cash + Owed' = InitialCash + SumOn(g, D)
    BY <1>3, <1>4, <2>3, <2>5, <2>6, <2>7, <2>9, <2>10
  <2> QED
    BY <1>1, <2>6, <2>11 DEF CashInv, g
<1>10. OrdersInv'
  BY <1>1, <1>6 DEF StepsInv, EngineInv, OrdersInv, Ordering
<1>11. Grows
  <2>1. \A i \in DOMAIN positions : ~positions[i].open => ~positions'[i].open
    BY <1>5, <1>6
  <2> QED
    BY <1>1, <1>6, <2>1, Facts DEF Grows
<1> QED
  BY <1>1, <1>7, <1>8, <1>9, <1>10, <1>11 DEF EngineKeeps, EngineInv

LEMMA RecordCashChangeKeeps == ASSUME StepsInv, RecordCashChange PROVE EngineKeeps
<1>1. EngineAt = "cash" /\ EngineAt' = "forget" /\ pc' \in [Threads -> Labels] /\ Apart
      /\ UNCHANGED <<peakEquity, scan, local, response, observed>>
      /\ UNCHANGED <<positions, openId, orders, submitted, generated, recorded, processed>>
      /\ cash' = cash + positions[openId].realized
  BY EngineAlone DEF RecordCashChange, Labels
<1>2. openId \in DOMAIN positions
  BY <1>1, Facts DEF StepsInv, EngineInv, PointerInv, NoPosition
<1>3. positions[openId].realized \in Int /\ cash' \in Int
  BY <1>1, <1>2, Facts DEF Position
<1>4. StepsType'
  BY <1>1, <1>3, Facts, EngineTypes
<1>5. PointerInv'
  BY <1>1 DEF StepsInv, EngineInv, PointerInv, OpenNow, Ordering
<1>6. CashInv'
  <2>1. cash + positions[openId].realized = InitialCash + SumOn(RealizedOf, DOMAIN positions)
    BY <1>1 DEF StepsInv, EngineInv, CashInv, Owed
  <2>2. Owed' = 0 /\ RealizedOf' = RealizedOf /\ cash' + 0 = cash'
    BY <1>1, <1>3 DEF Owed, RealizedOf
  <2> QED
    BY <1>1, <2>1, <2>2 DEF CashInv
<1>7. OrdersInv' /\ Grows
  BY <1>1, Facts DEF StepsInv, EngineInv, OrdersInv, Ordering, Grows
<1> QED
  BY <1>1, <1>4, <1>5, <1>6, <1>7 DEF EngineKeeps, EngineInv

LEMMA ForgetPositionKeeps == ASSUME StepsInv, ForgetPosition PROVE EngineKeeps
<1>1. EngineAt = "forget" /\ EngineAt' = "snapshot" /\ pc' \in [Threads -> Labels] /\ Apart
      /\ UNCHANGED <<peakEquity, scan, local, response, observed>>
      /\ UNCHANGED <<positions, cash, orders, submitted, generated, recorded, processed>>
      /\ openId' = NoPosition
  BY EngineAlone DEF ForgetPosition, Labels
<1>2. StepsType'
  BY <1>1, Facts, EngineTypes DEF NoPosition
<1>3. PointerInv'
  BY <1>1 DEF StepsInv, EngineInv, PointerInv, OpenNow, Ordering
<1>4. CashInv'
  BY <1>1 DEF StepsInv, EngineInv, CashInv, Owed, RealizedOf
<1>5. OrdersInv' /\ Grows
  BY <1>1, Facts DEF StepsInv, EngineInv, OrdersInv, Ordering, Grows
<1> QED
  BY <1>1, <1>2, <1>3, <1>4, <1>5 DEF EngineKeeps, EngineInv

LEMMA MarkPositionKeeps == ASSUME StepsInv, MarkPosition PROVE EngineKeeps
<1>1. EngineAt = "exit" /\ EngineAt' = "snapshot" /\ pc' \in [Threads -> Labels] /\ Apart
      /\ UNCHANGED <<peakEquity, scan, local, response, observed>>
      /\ UNCHANGED <<openId, cash, orders, submitted, generated, recorded, processed>>
  BY EngineAlone DEF MarkPosition, Labels
<1>2. PICK pnl \in Outcomes : positions' = [positions EXCEPT ![openId].unrealized = pnl]
  BY DEF MarkPosition
<1>3. openId \in DOMAIN positions /\ positions[openId] \in Position /\ pnl \in Int
  BY <1>1, Facts, StepsAssumption DEF StepsInv, EngineInv, PointerInv, NoPosition, Outcomes
<1> DEFINE x == [positions[openId] EXCEPT !.unrealized = pnl]
<1>4. /\ x \in Position /\ x.open = positions[openId].open
      /\ x.realized = positions[openId].realized
  BY <1>3 DEF Position
<1> HIDE DEF x
<1>5. /\ positions' \in Seq(Position) /\ Len(positions') = Len(positions)
      /\ DOMAIN positions' = DOMAIN positions /\ positions'[openId] = x
      /\ \A i \in DOMAIN positions : i # openId => positions'[i] = positions[i]
  <2>1. positions' = [positions EXCEPT ![openId] = x]
    BY <1>2 DEF x
  <2> QED
    BY <1>3, <1>4, <2>1, Facts
<1>6. \A i \in DOMAIN positions : /\ positions'[i].open = positions[i].open
                                  /\ positions'[i].realized = positions[i].realized
  BY <1>4, <1>5
<1>7. StepsType'
  BY <1>1, <1>5, Facts, EngineTypes
<1>8. PointerInv'
  BY <1>1, <1>5, <1>6 DEF StepsInv, EngineInv, PointerInv, OpenNow, Ordering
<1>9. CashInv'
  <2>1. RealizedOf' = RealizedOf
    BY <1>5, <1>6 DEF RealizedOf
  <2> QED
    BY <1>1, <1>5, <2>1 DEF StepsInv, EngineInv, CashInv, Owed
<1>10. OrdersInv' /\ Grows
  BY <1>1, <1>5, <1>6, Facts DEF StepsInv, EngineInv, OrdersInv, Ordering, Grows
<1> QED
  BY <1>1, <1>7, <1>8, <1>9, <1>10 DEF EngineKeeps, EngineInv

\* Between the creation of an order and its fill the book does not move.
LEMMA BookWaits ==
  ASSUME StepsInv, UNCHANGED <<positions, openId, cash>>,
         EngineAt \in {"entry"} \cup Ordering, EngineAt' \in {"entry"} \cup Ordering
  PROVE  PointerInv' /\ CashInv'
<1>1. PointerInv'
  BY DEF StepsInv, EngineInv, PointerInv, OpenNow, Ordering
<1>2. CashInv'
  BY DEF StepsInv, EngineInv, CashInv, Owed, RealizedOf, Ordering
<1> QED
  BY <1>1, <1>2

LEMMA CreateOrderKeeps == ASSUME StepsInv, CreateOrder PROVE EngineKeeps
<1>1. EngineAt = "entry" /\ EngineAt' = "validate" /\ pc' \in [Threads -> Labels] /\ Apart
      /\ UNCHANGED <<peakEquity, scan, local, response, observed>>
      /\ UNCHANGED <<positions, openId, cash, submitted, generated, recorded, processed>>
      /\ orders' = Append(orders, "NEW")
  BY EngineAlone DEF CreateOrder, Labels
<1>2. /\ orders' \in Seq(Statuses) /\ Len(orders') = Len(orders) + 1
      /\ orders'[Len(orders) + 1] = "NEW" /\ \A i \in DOMAIN orders : orders'[i] = orders[i]
  BY <1>1, Facts DEF Statuses
<1>3. StepsType'
  BY <1>1, <1>2, Facts, EngineTypes
<1>4. PointerInv' /\ CashInv'
  BY <1>1, BookWaits DEF Ordering
<1>5. OrdersInv'
  <2>1. Len(orders) = Len(positions) /\ DOMAIN orders = DOMAIN positions
    BY <1>1, Facts DEF StepsInv, EngineInv, OrdersInv, Ordering
  <2> QED
    BY <1>1, <1>2, <2>1, Facts DEF StepsInv, EngineInv, OrdersInv, Ordering, LastStatus
<1>6. Grows
  BY <1>1, Facts DEF Grows
<1> QED
  BY <1>1, <1>3, <1>4, <1>5, <1>6 DEF EngineKeeps, EngineInv

LEMMA OrderMovesKeeps ==
  ASSUME StepsInv, NEW from, NEW to, NEW status, OrderMoves(from, to, status),
         <<from, to, status>> \in {<<"validate", "submit", "VALIDATED">>,
                                   <<"submit", "monitor", "SUBMITTED">>,
                                   <<"fill", "open", "FILLED">>}
  PROVE  EngineKeeps
<1>1. /\ from \in {"validate", "submit", "fill"} /\ to \in {"submit", "monitor", "open"}
      /\ status \in Statuses
      /\ to = "submit" => from = "validate" /\ status = "VALIDATED"
      /\ to = "monitor" => from = "submit" /\ status = "SUBMITTED"
      /\ to = "open" => from = "fill" /\ status = "FILLED"
  BY DEF Statuses
<1>2. EngineAt = from /\ EngineAt' = to /\ pc' \in [Threads -> Labels] /\ Apart
      /\ UNCHANGED <<peakEquity, scan, local, response, observed>>
      /\ UNCHANGED <<positions, openId, cash, submitted, generated, recorded, processed>>
      /\ orders' = [orders EXCEPT ![Len(orders)] = status]
  <2>1. to \in Labels
    BY <1>1 DEF Labels
  <2> QED
    BY <2>1, EngineAlone DEF OrderMoves
<1> DEFINE n == Len(orders)
<1>3. n = Len(positions) + 1 /\ n \in DOMAIN orders /\ n \notin DOMAIN positions
  BY <1>1, <1>2, Facts DEF StepsInv, EngineInv, OrdersInv, Ordering
<1>4. /\ orders' \in Seq(Statuses) /\ Len(orders') = n /\ orders'[n] = status
      /\ \A i \in DOMAIN positions : orders'[i] = orders[i]
  BY <1>1, <1>2, <1>3, Facts
<1>5. StepsType'
  BY <1>2, <1>4, Facts, EngineTypes
<1>6. PointerInv' /\ CashInv'
  BY <1>1, <1>2, BookWaits DEF Ordering
<1>7. OrdersInv'
  BY <1>1, <1>2, <1>3, <1>4 DEF StepsInv, EngineInv, OrdersInv, Ordering, LastStatus
<1>8. Grows
  BY <1>2, Facts DEF Grows
<1> QED
  BY <1>2, <1>5, <1>6, <1>7, <1>8 DEF EngineKeeps, EngineInv

LEMMA MonitorSubmittedKeeps == ASSUME StepsInv, MonitorSubmitted PROVE EngineKeeps
<1>1. EngineAt = "monitor" /\ EngineAt' = "health" /\ pc' \in [Threads -> Labels] /\ Apart
      /\ UNCHANGED <<peakEquity, scan, local, response, observed>>
      /\ UNCHANGED <<positions, openId, cash, orders, generated, recorded, processed>>
      /\ submitted' = submitted + 1
  BY EngineAlone DEF MonitorSubmitted, Labels
<1>2. StepsType'
  BY <1>1, Facts, EngineTypes
<1>3. PointerInv' /\ CashInv'
  BY <1>1, BookWaits DEF Ordering
<1>4. OrdersInv' /\ Grows
  BY <1>1, Facts DEF StepsInv, EngineInv, OrdersInv, Ordering, LastStatus, Grows
<1> QED
  BY <1>1, <1>2, <1>3, <1>4 DEF EngineKeeps, EngineInv

LEMMA HealthSubmittedKeeps == ASSUME StepsInv, HealthSubmitted PROVE EngineKeeps
<1>1. EngineAt = "health" /\ EngineAt' = "fill" /\ pc' \in [Threads -> Labels] /\ Apart
      /\ UNCHANGED <<peakEquity, scan, local, response, observed>>
      /\ UNCHANGED <<positions, openId, cash, orders, submitted, recorded, processed>>
      /\ generated' = generated + 1
  BY EngineAlone DEF HealthSubmitted, Labels
<1>2. StepsType'
  BY <1>1, Facts, EngineTypes
<1>3. PointerInv' /\ CashInv'
  BY <1>1, BookWaits DEF Ordering
<1>4. OrdersInv' /\ Grows
  BY <1>1, Facts DEF StepsInv, EngineInv, OrdersInv, Ordering, LastStatus, Grows
<1> QED
  BY <1>1, <1>2, <1>3, <1>4 DEF EngineKeeps, EngineInv

LEMMA OpenPositionKeeps == ASSUME StepsInv, OpenPosition PROVE EngineKeeps
<1> DEFINE x == [open |-> TRUE, realized |-> 0, unrealized |-> 0]
           n == Len(positions)
           D == DOMAIN positions
<1>1. EngineAt = "open" /\ EngineAt' = "point" /\ pc' \in [Threads -> Labels] /\ Apart
      /\ UNCHANGED <<peakEquity, scan, local, response, observed>>
      /\ UNCHANGED <<openId, cash, orders, submitted, generated, recorded, processed>>
      /\ positions' = Append(positions, x)
  BY EngineAlone DEF OpenPosition, Labels
<1>2. x \in Position /\ x.open = TRUE /\ x.realized = 0
  BY DEF Position
<1> HIDE DEF x
<1>3. /\ positions' \in Seq(Position) /\ Len(positions') = n + 1
      /\ DOMAIN positions' = D \cup {n + 1} /\ positions'[n + 1] = x
      /\ \A i \in D : positions'[i] = positions[i]
      /\ n + 1 \notin D /\ n \in Nat /\ D = 1 .. n
  BY <1>1, <1>2, Facts
<1>4. StepsType'
  BY <1>1, <1>3, Facts, EngineTypes
<1>5. PointerInv'
  <2>1. \A i \in D : ~positions[i].open
    BY <1>1, <1>3 DEF StepsInv, EngineInv, PointerInv, OpenNow, Ordering, NoPosition
  <2>2. OpenNow' = n + 1 /\ openId = NoPosition
    BY <1>1, <1>3 DEF OpenNow, StepsInv, EngineInv, PointerInv, Ordering
  <2>3. \A i \in D : ~positions'[i].open
    BY <1>3, <2>1
  <2> QED
    BY <1>1, <1>2, <1>3, <2>2, <2>3 DEF PointerInv, Ordering
<1>6. CashInv'
  <2> DEFINE f == RealizedOf
             g == RealizedOf'
             m == n + 1
  <2>1. IsFiniteSet(D) /\ (\A i \in D : f[i] \in Int /\ f[i] = positions[i].realized)
    BY RealizedSum
  <2>2. \A i \in D \cup {m} : g[i] = positions'[i].realized
    BY <1>3 DEF RealizedOf
  <2>3. g[m] = 0 /\ \A i \in D : g[i] = f[i]
    BY <1>2, <1>3, <2>1, <2>2
  <2>4. Owed = 0 /\ Owed' = 0
    BY <1>1 DEF Owed
  <2>5. cash + Owed = InitialCash + SumOn(f, D) /\ SumOn(f, D) \in Int
    BY RealizedSum DEF StepsInv, EngineInv, CashInv
  <2>6. m \notin D /\ DOMAIN positions' = D \cup {m}
    BY <1>3
  <2> HIDE DEF f, g, m, D
  <2>7. \A i \in D \cup {m} : g[i] \in Int
    BY <2>1, <2>3
  <2>8. SumOn(g, D \cup {m}) = SumOn(g, D) + g[m]
    BY <2>1, <2>6, <2>7, SumAdd, Zenon
  <2>9. SumOn(g, D) = SumOn(f, D)
    BY <2>1, <2>3, SumOnSame
  <2>10. SumOn(g, D \cup {m}) = SumOn(f, D)
    BY <2>3, <2>5, <2>8, <2>9
  <2> QED
    BY <1>1, <2>4, <2>5, <2>6, <2>10 DEF CashInv, g
<1>7. OrdersInv'
  <2>1. Len(orders) = n + 1 /\ orders[n + 1] = "FILLED"
    BY <1>1, <1>3 DEF StepsInv, EngineInv, OrdersInv, Ordering, LastStatus
  <2>2. \A i \in D \cup {n + 1} : orders[i] = "FILLED"
    BY <2>1 DEF StepsInv, EngineInv, OrdersInv
  <2> QED
    BY <1>1, <1>3, <2>1, <2>2 DEF StepsInv, EngineInv, OrdersInv, Ordering
<1>8. Grows
  <2>1. \A i \in D : ~positions[i].open => ~positions'[i].open
    BY <1>3
  <2> QED
    BY <1>1, <1>3, <2>1, Facts DEF Grows
<1> QED
  BY <1>1, <1>4, <1>5, <1>6, <1>7, <1>8 DEF EngineKeeps, EngineInv

LEMMA PointToPositionKeeps == ASSUME StepsInv, PointToPosition PROVE EngineKeeps
<1>1. EngineAt = "point" /\ EngineAt' = "snapshot" /\ pc' \in [Threads -> Labels] /\ Apart
      /\ UNCHANGED <<peakEquity, scan, local, response, observed>>
      /\ UNCHANGED <<positions, cash, orders, submitted, generated, recorded, processed>>
      /\ openId' = Len(positions)
  BY EngineAlone DEF PointToPosition, Labels
<1>2. StepsType'
  BY <1>1, Facts, EngineTypes
<1>3. PointerInv'
  BY <1>1 DEF StepsInv, EngineInv, PointerInv, OpenNow, Ordering
<1>4. CashInv'
  BY <1>1 DEF StepsInv, EngineInv, CashInv, Owed, RealizedOf
<1>5. OrdersInv' /\ Grows
  BY <1>1, Facts DEF StepsInv, EngineInv, OrdersInv, Ordering, Grows
<1> QED
  BY <1>1, <1>2, <1>3, <1>4, <1>5 DEF EngineKeeps, EngineInv

\* The two counters of candles, one behind the other.
LEMMA CounterTypes ==
  ASSUME StepsInv, pc' \in [Threads -> Labels],
         EngineAt \in {"record", "count"}, EngineAt' \in {"count", "idle"},
         UNCHANGED <<peakEquity, scan, local, response, observed>>,
         UNCHANGED <<positions, openId, cash, orders, submitted, generated>>,
         recorded' \in Nat, processed' \in Nat, recorded' >= recorded,
         recorded' = processed' + (IF EngineAt' = "count" THEN 1 ELSE 0)
  PROVE  StepsType' /\ EngineInv' /\ Grows
<1>1. StepsType'
  BY Facts, EngineTypes
<1>2. PointerInv'
  BY DEF StepsInv, EngineInv, PointerInv, OpenNow, Ordering
<1>3. CashInv'
  BY DEF StepsInv, EngineInv, CashInv, Owed, RealizedOf
<1>4. OrdersInv'
  BY DEF StepsInv, EngineInv, OrdersInv, Ordering
<1>5. Grows
  BY Facts DEF Grows
<1> QED
  BY <1>1, <1>2, <1>3, <1>4, <1>5 DEF EngineInv

LEMMA RecordCandleKeeps == ASSUME StepsInv, RecordCandle PROVE EngineKeeps
<1>1. EngineAt = "record" /\ EngineAt' = "count" /\ pc' \in [Threads -> Labels] /\ Apart
      /\ UNCHANGED <<peakEquity, scan, local, response, observed>>
      /\ UNCHANGED <<positions, openId, cash, orders, submitted, generated, processed>>
      /\ recorded' = recorded + 1
  BY EngineAlone DEF RecordCandle, Labels
<1>2. recorded \in Nat /\ processed \in Nat /\ recorded = processed
  BY <1>1, Facts DEF StepsInv, EngineInv, OrdersInv
<1> QED
  BY <1>1, <1>2, CounterTypes DEF EngineKeeps

LEMMA CountCandleKeeps == ASSUME StepsInv, CountCandle PROVE EngineKeeps
<1>1. EngineAt = "count" /\ EngineAt' = "idle" /\ pc' \in [Threads -> Labels] /\ Apart
      /\ UNCHANGED <<peakEquity, scan, local, response, observed>>
      /\ UNCHANGED <<positions, openId, cash, orders, submitted, generated, recorded>>
      /\ processed' = processed + 1
  BY EngineAlone DEF CountCandle, Labels
<1>2. recorded \in Nat /\ processed \in Nat /\ recorded = processed + 1
  BY <1>1, Facts DEF StepsInv, EngineInv, OrdersInv
<1> QED
  BY <1>1, <1>2, CounterTypes DEF EngineKeeps

\* Every step of the engine's thread outside snapshot().
LEMMA EngineStepKeeps ==
  ASSUME StepsInv, EngineStep, ~TakeSnapshot
  PROVE  EngineKeeps
<1>1. CASE ValidateOrder \/ SubmitOrder \/ FillOrder
  BY <1>1, OrderMovesKeeps DEF ValidateOrder, SubmitOrder, FillOrder
<1>2. CASE BeginCandle \/ ClosePosition \/ RecordCashChange \/ ForgetPosition \/ MarkPosition
  BY <1>2, BeginCandleKeeps, ClosePositionKeeps, RecordCashChangeKeeps, ForgetPositionKeeps,
     MarkPositionKeeps
<1>3. CASE NoEntry \/ CreateOrder \/ MonitorSubmitted \/ HealthSubmitted \/ OpenPosition
           \/ PointToPosition \/ RecordCandle \/ CountCandle
  BY <1>3, NoEntryKeeps, CreateOrderKeeps, MonitorSubmittedKeeps, HealthSubmittedKeeps,
     OpenPositionKeeps, PointToPositionKeeps, RecordCandleKeeps, CountCandleKeeps
<1> QED
  BY <1>1, <1>2, <1>3 DEF EngineStep

\* The types of a loop and of what a request has gathered.
LEMMA ScanFacts ==
  ASSUME StepsInv, NEW t \in Threads
  PROVE  /\ scan[t] \in Scan /\ scan[t].at \in Nat /\ scan[t].size \in Nat
         /\ scan[t].at <= scan[t].size
         /\ scan[t].kept \subseteq Nat \X Int /\ IsFiniteSet(scan[t].kept)
         /\ local[t].equity \in Int /\ local[t].peak \in Int
<1>1. scan[t] \in Scan /\ scan[t].at <= scan[t].size /\ IsFiniteSet(scan[t].kept)
      /\ local[t] \in [equity : Int, peak : Int]
  BY DEF StepsInv, StepsType
<1> QED
  BY <1>1 DEF Scan

LEMMA ResponseFacts ==
  ASSUME StepsInv, NEW r \in Readers
  PROVE  /\ response[r] \in Response
         /\ response[r].ordersGenerated \in Nat /\ response[r].processed \in Nat
<1>1. response[r] \in Response
  BY DEF StepsInv, StepsType
<1> QED
  BY <1>1 DEF Response

\* What a request has gathered stays true of a book that has grown.
LEMMA ReaderKept ==
  ASSUME StepsInv, Grows, NEW r \in Readers,
         pc'[r] = pc[r], scan'[r] = scan[r], response'[r] = response[r],
         submitted' \in Nat, recorded' \in Nat
  PROVE  ReaderInv(r)'
<1>1. /\ DOMAIN positions \subseteq DOMAIN positions' /\ ReaderInv(r)
      /\ \A i \in DOMAIN positions : ~positions[i].open => ~positions'[i].open
  BY DEF Grows, StepsInv
<1>2. /\ submitted' >= submitted /\ recorded' >= recorded
      /\ submitted \in Nat /\ recorded \in Nat
      /\ response[r].ordersGenerated \in Nat /\ response[r].processed \in Nat
      /\ 1 .. scan[r].at \subseteq 1 .. scan[r].size
  <2>1. scan[r].size \in Nat /\ scan[r].at \in Nat /\ scan[r].at <= scan[r].size
    BY ScanFacts DEF Threads
  <2> QED
    BY <2>1, ResponseFacts, Facts DEF Grows
<1>3. ListsInv(r)'
  BY <1>1, <1>2 DEF ReaderInv, ListsInv
<1>5. ListingOpen(r)'
  BY <1>1, <1>2 DEF ReaderInv, ListingOpen, ListsInv
<1>6. ListingClosed(r)'
  BY <1>1, <1>2 DEF ReaderInv, ListingClosed, ListsInv
<1>4. CountersInv(r)'
  BY <1>1, <1>2 DEF ReaderInv, CountersInv
<1> QED
  BY <1>3, <1>4, <1>5, <1>6 DEF ReaderInv

-----------------------------------------------------------------------------
(* Loops over the book, and what a request gathers *)

\* A step of thread t that only reads what the threads share.
LEMMA ThreadStep ==
  ASSUME StepsInv, NEW t \in Threads, UNCHANGED shared,
         NEW to \in Labels, pc' = [pc EXCEPT ![t] = to],
         NEW S \in Scan, scan' = [scan EXCEPT ![t] = S], S.at <= S.size, IsFiniteSet(S.kept),
         local' \in [Threads -> [equity : Int, peak : Int]],
         peakEquity' \in Int, observed' \in Int,
         \/ response' = response
         \/ t \in Readers /\ \E R \in Response : response' = [response EXCEPT ![t] = R],
         t = "engine" => EngineAt \in Settled /\ to \in Settled \ {"exit", "entry"},
         t \in Readers => ReaderInv(t)'
  PROVE  StepsInv'
<1>1. UNCHANGED <<positions, openId, cash, orders, submitted, generated, recorded, processed>>
  BY DEF shared
<1>2. pc \in [Threads -> Labels] /\ scan \in [Threads -> Scan] /\ "engine" \in Threads
      /\ (\A x \in Threads : scan[x].at <= scan[x].size /\ IsFiniteSet(scan[x].kept))
      /\ response \in [Readers -> Response]
  BY DEF StepsInv, StepsType, Threads
<1>3. response' \in [Readers -> Response]
  BY <1>2
<1>4. scan' \in [Threads -> Scan]
      /\ \A x \in Threads : scan'[x].at <= scan'[x].size /\ IsFiniteSet(scan'[x].kept)
  BY <1>2
<1>5. pc' \in [Threads -> Labels]
  BY <1>2
<1>6. StepsType'
  BY <1>1, <1>3, <1>4, <1>5 DEF StepsInv, StepsType
<1>7. EngineInv' /\ Grows
  <2>1. CASE t = "engine"
    <3>1. EngineAt' = to /\ EngineAt \in Settled /\ to \in Settled
          /\ to # "exit" /\ to # "entry"
      BY <1>2, <2>1 DEF EngineAt
    <3> QED
      BY <3>1, SettledStep
  <2>2. CASE t # "engine"
    <3>1. EngineAt' = EngineAt
      BY <1>2, <2>2 DEF EngineAt
    <3>2. OpenNow' = OpenNow /\ Owed' = Owed /\ LastStatus' = LastStatus /\ RealizedOf' = RealizedOf
      BY <1>1, <3>1 DEF OpenNow, Owed, LastStatus, RealizedOf
    <3>3. PointerInv' /\ CashInv'
      BY <1>1, <3>1, <3>2 DEF StepsInv, EngineInv, PointerInv, CashInv
    <3>4. OrdersInv'
      BY <1>1, <3>1, <3>2 DEF StepsInv, EngineInv, OrdersInv
    <3>5. Grows
      BY <1>1, Facts DEF Grows
    <3> QED
      BY <3>3, <3>4, <3>5 DEF EngineInv
  <2> QED
    BY <2>1, <2>2
<1>8. ASSUME NEW r \in Readers PROVE ReaderInv(r)'
  <2>1. CASE r = t
    BY <2>1
  <2>2. CASE r # t
    <3>1. r \in Threads
      BY DEF Threads
    <3>2. pc'[r] = pc[r] /\ scan'[r] = scan[r] /\ response'[r] = response[r]
      BY <1>2, <2>2, <3>1
    <3>3. submitted' \in Nat /\ recorded' \in Nat
      BY <1>1, Facts
    <3> QED
      BY <1>7, <3>2, <3>3, ReaderKept
  <2> QED
    BY <2>1, <2>2
<1> QED
  BY <1>6, <1>7, <1>8 DEF StepsInv

\* A loop that starts holds nothing.
LEMMA FreshScan ==
  ASSUME StepsInv
  PROVE  /\ [at |-> 0, size |-> Len(positions), kept |-> {}] \in Scan
         /\ NoScan \in Scan /\ NoScan.at <= NoScan.size /\ NoScan.kept = {}
         /\ IsFiniteSet({}) /\ Ids({}) = {}
BY Facts, FS_EmptySet DEF Scan, NoScan, Ids

\* The labels of the loops, and of the engine in snapshot().
LEMMA LoopLabels ==
  /\ ScanningOpen \cup ScanningClosed \cup {"peak", "write peak", "record", "snapshot", "failed",
       "health"} \subseteq Labels
  /\ ScanningOpen \cup ScanningClosed \cup {"peak", "write peak", "record", "snapshot", "failed"}
       \subseteq Settled \ {"exit", "entry"}
BY DEF Labels, Settled, Ordering, ScanningOpen, ScanningClosed

\* In snapshot() a request already has its lists and its orders.
LEMMA SnapshotKeepsReader ==
  ASSUME StepsInv, NEW r \in Readers, UNCHANGED shared,
         pc[r] \in {"sum open", "sum closed", "peak", "write peak"},
         pc'[r] \in {"sum open", "sum closed", "peak", "write peak", "health", "failed"},
         \/ response'[r] = response[r]
         \/ \E e \in Int : response'[r] = [response[r] EXCEPT !.equity = e]
  PROVE  ReaderInv(r)'
<1>1. UNCHANGED <<positions, orders, submitted, recorded>>
  BY DEF shared
<1>2. /\ response'[r].known = response[r].known /\ response'[r].open = response[r].open
      /\ response'[r].closed = response[r].closed /\ response'[r].orders = response[r].orders
      /\ response'[r].ordersGenerated = response[r].ordersGenerated
      /\ response'[r].processed = response[r].processed
  BY ResponseFacts DEF Response
<1>3. /\ {"sum open", "sum closed", "peak", "write peak", "health"} \subseteq HasOrders
      /\ "failed" \notin HasLists \cup HasOrders \cup ReadingOpen \cup ReadingClosed
      /\ HasOrders \subseteq HasLists \ {"processed"}
      /\ HasLists \cap (ReadingOpen \cup ReadingClosed \cup {"failed"}) = {}
  BY DEF HasOrders, HasLists, ReadingOpen, ReadingClosed, Labels, ScanningOpen, ScanningClosed
<1>4. ReaderInv(r) /\ pc[r] \in HasOrders /\ pc[r] \in HasLists \ {"processed"}
  BY <1>3 DEF StepsInv
<1>5. ListsInv(r)'
  BY <1>1, <1>2, <1>3, <1>4 DEF ReaderInv, ListsInv
<1>6. CountersInv(r)'
  BY <1>1, <1>2, <1>3, <1>4 DEF ReaderInv, CountersInv
<1>7. ListingOpen(r)' /\ ListingClosed(r)'
  BY DEF ListingOpen, ListingClosed, ReadingOpen, ReadingClosed
<1> QED
  BY <1>5, <1>6, <1>7 DEF ReaderInv

\* A loop passes one position, listed with what it shows.
LEMMA PassOne ==
  ASSUME NEW kept, NEW i, NEW u
  PROVE  Ids(kept \cup {<<i, u>>}) = Ids(kept) \cup {i}
<1> DEFINE k == <<i, u>>
<1>1. k[1] = i
  OBVIOUS
<1> HIDE DEF k
<1>2. {x[1] : x \in kept \cup {k}} = {x[1] : x \in kept} \cup {k[1]}
  OBVIOUS
<1> QED
  BY <1>1, <1>2 DEF Ids, k

LEMMA ScanNextKeeps ==
  ASSUME StepsInv, NEW t \in Threads, ScanNext(t)
  PROVE  StepsInv'
<1> DEFINE i == scan[t].at + 1
           listed == IF Keeps(t, i) THEN scan[t].kept \cup {<<i, positions[i].unrealized>>}
                                    ELSE scan[t].kept
           S == [scan[t] EXCEPT !.at = i, !.kept = listed]
<1>1. /\ pc[t] \in ScanningOpen \cup ScanningClosed /\ scan[t].at < scan[t].size
      /\ UNCHANGED <<peakEquity, local, response, observed>> /\ UNCHANGED shared
  BY DEF ScanNext
<1>2. /\ scan[t] \in Scan /\ scan[t].at \in Nat /\ scan[t].size \in Nat
      /\ scan[t].kept \subseteq Nat \X Int /\ IsFiniteSet(scan[t].kept)
  BY ScanFacts
<1>3. /\ pc \in [Threads -> Labels] /\ local \in [Threads -> [equity : Int, peak : Int]]
      /\ scan \in [Threads -> Scan] /\ peakEquity \in Int /\ observed \in Int
  BY DEF StepsInv, StepsType
<1>4. UNCHANGED <<positions, orders, submitted, recorded>>
  BY <1>1 DEF shared
<1>5. CASE Len(positions) # scan[t].size
  <2>1. pc' = [pc EXCEPT ![t] = "failed"] /\ UNCHANGED scan
    BY <1>5 DEF ScanNext, Goto
  <2>2. scan' = [scan EXCEPT ![t] = scan[t]] /\ scan[t].at <= scan[t].size
    BY <1>2, <1>3, <2>1, ScanFacts
  <2>3. ASSUME t \in Readers PROVE ReaderInv(t)'
    <3>1. pc'[t] = "failed" /\ response'[t] = response[t]
      BY <1>1, <1>3, <2>1
    <3>2. ReaderInv(t)
      BY <2>3 DEF StepsInv
    <3> QED
      BY <1>4, <3>1, <3>2 DEF ReaderInv, ListsInv, ListingOpen, ListingClosed, CountersInv,
           ReadingOpen, ReadingClosed, HasLists, HasOrders
  <2>4. t = "engine" => EngineAt \in Settled /\ "failed" \in Settled \ {"exit", "entry"}
    BY <1>1, LoopLabels DEF EngineAt
  <2> QED
    BY <1>1, <1>2, <1>3, <2>1, <2>2, <2>3, <2>4, LoopLabels, ThreadStep
<1>6. CASE Len(positions) = scan[t].size
  <2>1. i \in DOMAIN positions /\ i \in Nat /\ i <= scan[t].size
    BY <1>1, <1>2, <1>6, Facts
  <2>2. <<i, positions[i].unrealized>> \in Nat \X Int
    <3>1. positions[i] \in Position
      BY <2>1, Facts
    <3> QED
      BY <2>1, <3>1 DEF Position
  <2>3. listed \subseteq Nat \X Int /\ IsFiniteSet(listed)
        /\ Ids(listed) = Ids(scan[t].kept) \cup (IF Keeps(t, i) THEN {i} ELSE {})
    <3> HIDE DEF i
    <3>1. CASE Keeps(t, i)
      <4>1. IsFiniteSet(scan[t].kept \cup {<<i, positions[i].unrealized>>})
        BY <1>2, FS_AddElement
      <4> QED
        BY <1>2, <2>2, <3>1, <4>1, PassOne
    <3>2. CASE ~Keeps(t, i)
      BY <1>2, <3>2
    <3> QED
      BY <3>1, <3>2
  <2>4. scan' = [scan EXCEPT ![t] = S] /\ pc' = pc
    BY <1>6 DEF ScanNext
  <2> HIDE DEF listed
  <2>5. S \in Scan /\ S.at = i /\ S.size = scan[t].size /\ S.kept = listed
    BY <1>2, <2>1, <2>3 DEF Scan
  <2> HIDE DEF S
  <2>6. pc' = [pc EXCEPT ![t] = pc[t]] /\ pc[t] \in Labels
    BY <1>3, <2>4
  <2>7. ASSUME t \in Readers PROVE ReaderInv(t)'
    <3>1. pc'[t] = pc[t] /\ response'[t] = response[t] /\ scan'[t] = S /\ ReaderInv(t)
      BY <1>1, <1>3, <2>4, <2>7 DEF StepsInv
    <3>2. CASE pc[t] = "list open"
      <4>1. Keeps(t, i) = positions[i].open
        BY <3>2 DEF Keeps, ScanningOpen
      <4>2. \A k \in 1 .. i : k \in 1 .. scan[t].at \/ k = i
        BY <1>2
      <4> HIDE DEF i
      <4>3. \A k \in 1 .. i : k \in Ids(listed) \/ ~positions[k].open
        BY <2>3, <3>1, <3>2, <4>1, <4>2 DEF ReaderInv, ListingOpen, ReadingOpen
      <4>4. ListingOpen(t)'
        BY <1>4, <2>1, <2>3, <2>5, <3>1, <3>2, <4>3 DEF ReaderInv, ListingOpen, ReadingOpen
      <4> QED
        BY <1>4, <3>1, <3>2, <4>4 DEF ReaderInv, ListsInv, ListingClosed, CountersInv,
           ReadingOpen, ReadingClosed, HasLists, HasOrders
    <3>3. CASE pc[t] = "list closed"
      <4>1. Keeps(t, i) = ~positions[i].open
        BY <3>3 DEF Keeps, ScanningOpen
      <4>2. \A k \in response[t].known : k <= i => k <= scan[t].at \/ k = i
        <5>1. response[t].known \subseteq Nat
          <6>1. response[t].known \subseteq DOMAIN positions
            BY <3>1, <3>3 DEF ReaderInv, ListsInv, ReadingClosed
          <6>2. DOMAIN positions \subseteq Nat
            BY Facts
          <6> QED
            BY <6>1, <6>2
        <5> QED
          BY <1>2, <5>1
      <4> HIDE DEF i
      <4>3. \A k \in response[t].known : k <= i => k \in response[t].open \cup Ids(listed)
        BY <2>3, <3>1, <3>3, <4>1, <4>2 DEF ReaderInv, ListingClosed, ReadingClosed
      <4>4. ListingClosed(t)'
        BY <1>4, <2>1, <2>3, <2>5, <3>1, <3>3, <4>3 DEF ReaderInv, ListingClosed, ReadingClosed
      <4> QED
        BY <1>4, <3>1, <3>3, <4>4 DEF ReaderInv, ListsInv, ListingOpen, CountersInv,
           ReadingOpen, ReadingClosed, HasLists, HasOrders
    <3>4. CASE pc[t] \in {"sum open", "sum closed"}
      BY <1>1, <2>7, <3>1, <3>4, SnapshotKeepsReader
    <3> QED
      BY <1>1, <3>2, <3>3, <3>4 DEF ScanningOpen, ScanningClosed
  <2>8. t = "engine" => EngineAt \in Settled /\ pc[t] \in Settled \ {"exit", "entry"}
    BY <1>1, LoopLabels DEF EngineAt
  <2>9. S.at <= S.size /\ IsFiniteSet(S.kept)
    BY <2>1, <2>3, <2>5
  <2> QED
    BY <1>1, <1>3, <2>4, <2>5, <2>6, <2>7, <2>8, <2>9, ThreadStep
<1> QED
  BY <1>5, <1>6

\* What the open positions show is added up.
LEMMA ShownType ==
  ASSUME NEW kept \in SUBSET (Nat \X Int), IsFiniteSet(kept)
  PROVE  Shown(kept) \in Int
<1> DEFINE f == [k \in kept |-> k[2]]
<1>1. Shown(kept) = SumOn(f, kept)
  BY DEF Shown, FoldFunction, SumOn
<1>2. \A k \in kept : f[k] \in Int
  OBVIOUS
<1> HIDE DEF f
<1> QED
  BY <1>1, <1>2, SumType

LEMMA LargerType ==
  ASSUME NEW a \in Int, NEW b \in Int
  PROVE  Max({a, b}) \in Int
<1>1. \E x \in {a, b} : \A y \in {a, b} : x >= y
  <2>1. CASE a >= b
    BY <2>1
  <2>2. CASE ~(a >= b)
    BY <2>2
  <2> QED
    BY <2>1, <2>2
<1>2. Max({a, b}) \in {a, b}
  BY <1>1 DEF Max
<1> QED
  BY <1>2

\* The rest of snapshot().
LEMMA SnapshotStep ==
  ASSUME StepsInv, NEW t \in Threads, UNCHANGED shared,
         pc[t] \in {"sum open", "sum closed", "peak"},
         NEW to \in {"sum closed", "peak", "write peak"}, pc' = [pc EXCEPT ![t] = to],
         NEW S \in Scan, scan' = [scan EXCEPT ![t] = S], S.at <= S.size, IsFiniteSet(S.kept),
         local' \in [Threads -> [equity : Int, peak : Int]],
         UNCHANGED <<peakEquity, response, observed>>
  PROVE  StepsInv'
<1>1. pc \in [Threads -> Labels] /\ peakEquity' \in Int /\ observed' \in Int
  BY DEF StepsInv, StepsType
<1>2. to \in Labels /\ (t = "engine" => EngineAt \in Settled /\ to \in Settled \ {"exit", "entry"})
  BY LoopLabels DEF EngineAt, ScanningOpen, ScanningClosed
<1>3. ASSUME t \in Readers PROVE ReaderInv(t)'
  BY <1>1, <1>3, SnapshotKeepsReader
<1> QED
  BY <1>1, <1>2, <1>3, ThreadStep

LEMMA SnapshotKeeps ==
  ASSUME StepsInv, NEW t \in Threads, Snapshot(t)
  PROVE  StepsInv'
<1>1. /\ scan[t] \in Scan /\ scan[t].at <= scan[t].size
      /\ scan[t].kept \subseteq Nat \X Int /\ IsFiniteSet(scan[t].kept)
      /\ local[t].equity \in Int /\ local[t].peak \in Int
  BY ScanFacts
<1>2. /\ local \in [Threads -> [equity : Int, peak : Int]] /\ scan \in [Threads -> Scan]
      /\ pc \in [Threads -> Labels] /\ response \in [Readers -> Response]
      /\ peakEquity \in Int /\ observed \in Int /\ cash \in Int
  BY DEF StepsInv, StepsType
<1>3. CASE SumClosed(t)
  <2> DEFINE S == [at |-> 0, size |-> Len(positions), kept |-> {}]
  <2>1. /\ pc[t] = "sum open" /\ UNCHANGED <<shared, peakEquity, response, observed>>
        /\ local' = [local EXCEPT ![t].equity = Shown(scan[t].kept)]
        /\ scan' = [scan EXCEPT ![t] = S] /\ pc' = [pc EXCEPT ![t] = "sum closed"]
    BY <1>3 DEF SumClosed, Scanned, At, StartScan, Goto
  <2>2. local' \in [Threads -> [equity : Int, peak : Int]]
    BY <1>1, <1>2, <2>1, ShownType
  <2>3. S \in Scan /\ S.at <= S.size /\ IsFiniteSet(S.kept)
    BY Facts, FreshScan
  <2> HIDE DEF S
  <2> QED
    BY <2>1, <2>2, <2>3, SnapshotStep
<1>4. CASE ReadCash(t)
  <2>1. /\ pc[t] = "sum closed" /\ UNCHANGED <<shared, peakEquity, response, observed>>
        /\ local' = [local EXCEPT ![t].equity = local[t].equity + cash]
        /\ scan' = [scan EXCEPT ![t] = NoScan] /\ pc' = [pc EXCEPT ![t] = "peak"]
    BY <1>4 DEF ReadCash, Scanned, At, Goto
  <2>2. local' \in [Threads -> [equity : Int, peak : Int]]
    <3>1. local[t].equity + cash \in Int /\ local[t] \in [equity : Int, peak : Int]
      BY <1>1, <1>2
    <3>2. [local[t] EXCEPT !.equity = local[t].equity + cash] \in [equity : Int, peak : Int]
      BY <3>1
    <3> QED
      BY <1>2, <2>1, <3>2
  <2>3. NoScan \in Scan /\ NoScan.at <= NoScan.size /\ IsFiniteSet(NoScan.kept)
    BY FreshScan
  <2> QED
    BY <2>1, <2>2, <2>3, SnapshotStep
<1>5. CASE ReadPeak(t)
  <2>1. /\ pc[t] = "peak" /\ UNCHANGED <<shared, peakEquity, scan, response, observed>>
        /\ local' = [local EXCEPT ![t].peak = peakEquity]
        /\ pc' = [pc EXCEPT ![t] = "write peak"]
    BY <1>5 DEF ReadPeak, At, Goto
  <2>2. local' \in [Threads -> [equity : Int, peak : Int]]
    BY <1>1, <1>2, <2>1
  <2>3. scan' = [scan EXCEPT ![t] = scan[t]]
    BY <1>2, <2>1
  <2> QED
    BY <1>1, <2>1, <2>2, <2>3, SnapshotStep
<1>6. CASE WritePeak(t)
  <2>1. /\ pc[t] = "write peak" /\ UNCHANGED <<shared, scan>>
        /\ peakEquity' = Max({local[t].peak, local[t].equity})
        /\ observed' = Max({observed, local[t].equity})
        /\ local' = [local EXCEPT ![t] = [equity |-> 0, peak |-> 0]]
    BY <1>6 DEF WritePeak, At
  <2>2. local' \in [Threads -> [equity : Int, peak : Int]] /\ peakEquity' \in Int /\ observed' \in Int
    <3>1. [equity |-> 0, peak |-> 0] \in [equity : Int, peak : Int]
      OBVIOUS
    <3>2. Max({local[t].peak, local[t].equity}) \in Int /\ Max({observed, local[t].equity}) \in Int
      BY <1>1, <1>2, LargerType
    <3> QED
      BY <1>2, <2>1, <3>1, <3>2
  <2>3. scan' = [scan EXCEPT ![t] = scan[t]]
    BY <1>2, <2>1
  <2>4. t = "engine" => EngineAt \in Settled
    BY <2>1, LoopLabels DEF EngineAt
  <2>5. CASE t = "engine"
    <3>1. pc' = [pc EXCEPT ![t] = "record"] /\ UNCHANGED response /\ t \notin Readers
      BY <1>6, <2>5, StepsAssumption DEF WritePeak, Goto
    <3> QED
      BY <1>1, <2>1, <2>2, <2>3, <2>4, <2>5, <3>1, LoopLabels, ThreadStep
  <2>6. CASE t # "engine"
    <3> DEFINE R == [response[t] EXCEPT !.equity = local[t].equity]
    <3>1. /\ pc' = [pc EXCEPT ![t] = "health"] /\ t \in Readers
          /\ response' = [response EXCEPT ![t] = R]
      BY <1>6, <2>6 DEF WritePeak, Goto, Threads
    <3>2. R \in Response
      BY <1>1, <3>1, ResponseFacts DEF Response
    <3>3. pc'[t] = "health" /\ response'[t] = R
      BY <1>2, <3>1
    <3>4. ReaderInv(t)'
      BY <1>1, <2>1, <3>1, <3>3, SnapshotKeepsReader
    <3> HIDE DEF R
    <3> QED
      BY <1>1, <2>1, <2>2, <2>3, <2>6, <3>1, <3>2, <3>4, LoopLabels, ThreadStep
  <2> QED
    BY <2>5, <2>6
<1> QED
  BY <1>3, <1>4, <1>5, <1>6, ScanNextKeeps DEF Snapshot

\* The engine's thread enters snapshot().
LEMMA TakeSnapshotKeeps == ASSUME StepsInv, TakeSnapshot PROVE StepsInv'
<1> DEFINE S == [at |-> 0, size |-> Len(positions), kept |-> {}]
           t == "engine"
<1>1. /\ pc[t] = "snapshot" /\ UNCHANGED <<shared, peakEquity, local, response, observed>>
      /\ scan' = [scan EXCEPT ![t] = S] /\ pc' = [pc EXCEPT ![t] = "sum open"]
  BY DEF TakeSnapshot, At, StartScan, Goto
<1>2. S \in Scan /\ S.at <= S.size /\ IsFiniteSet(S.kept)
  BY Facts, FreshScan
<1>3. local' \in [Threads -> [equity : Int, peak : Int]] /\ peakEquity' \in Int /\ observed' \in Int
  BY <1>1 DEF StepsInv, StepsType
<1>4. t \in Threads /\ t \notin Readers /\ "sum open" \in Labels
      /\ EngineAt \in Settled /\ "sum open" \in Settled \ {"exit", "entry"}
  BY <1>1, StepsAssumption, LoopLabels DEF Threads, EngineAt, ScanningOpen, ScanningClosed
<1> HIDE DEF S, t
<1> QED
  BY <1>1, <1>2, <1>3, <1>4, ThreadStep

-----------------------------------------------------------------------------
(* The steps of a request *)

\* A step of a request that leaves the equity it will show alone.
LEMMA ReaderMoves ==
  ASSUME StepsInv, NEW r \in Readers, UNCHANGED <<shared, peakEquity, local, observed>>,
         NEW to \in Labels, pc' = [pc EXCEPT ![r] = to],
         NEW S \in Scan, scan' = [scan EXCEPT ![r] = S], S.at <= S.size, IsFiniteSet(S.kept),
         NEW R \in Response, response' = [response EXCEPT ![r] = R],
         pc'[r] = to /\ scan'[r] = S /\ response'[r] = R => ReaderInv(r)'
  PROVE  StepsInv'
<1>1. /\ pc \in [Threads -> Labels] /\ scan \in [Threads -> Scan]
      /\ response \in [Readers -> Response] /\ r \in Threads /\ r # "engine"
      /\ local' \in [Threads -> [equity : Int, peak : Int]]
      /\ peakEquity' \in Int /\ observed' \in Int
  BY StepsAssumption DEF StepsInv, StepsType, Threads
<1>2. ReaderInv(r)'
  BY <1>1
<1> QED
  BY <1>1, <1>2, ThreadStep

LEMMA ListOpenKeeps == ASSUME StepsInv, NEW r \in Readers, ListOpen(r) PROVE StepsInv'
<1> DEFINE S == [at |-> 0, size |-> Len(positions), kept |-> {}]
           R == [response[r] EXCEPT !.known = DOMAIN positions]
<1>1. /\ UNCHANGED <<shared, peakEquity, local, observed>>
      /\ pc' = [pc EXCEPT ![r] = "list open"] /\ scan' = [scan EXCEPT ![r] = S]
      /\ response' = [response EXCEPT ![r] = R]
  BY DEF ListOpen, StartScan, Goto
<1>2. S \in Scan /\ S.at = 0 /\ S.size = Len(positions) /\ S.kept = {} /\ IsFiniteSet(S.kept)
      /\ Ids(S.kept) = {} /\ S.at <= S.size
  BY Facts, FreshScan
<1>3. /\ R \in Response /\ R.known = DOMAIN positions /\ R.open = response[r].open
      /\ R.closed = response[r].closed
  <2>1. DOMAIN positions \subseteq Nat
    BY Facts
  <2> QED
    BY <2>1, ResponseFacts DEF Response
<1> HIDE DEF S, R
<1>4. ASSUME pc'[r] = "list open", scan'[r] = S, response'[r] = R PROVE ReaderInv(r)'
  <2>1. positions' = positions /\ DOMAIN positions = 1 .. Len(positions)
    BY <1>1, Facts DEF shared
  <2>2. response[r].open \subseteq DOMAIN positions /\ response[r].closed \subseteq DOMAIN positions
    BY DEF StepsInv, ReaderInv, ListsInv
  <2>3. ListsInv(r)'
    BY <1>3, <1>4, <2>1, <2>2 DEF ListsInv, HasLists, ReadingOpen
  <2>6. 1 .. S.at = {} /\ R.known = 1 .. S.size /\ Ids(S.kept) \subseteq DOMAIN positions
    BY <1>2, <1>3, <2>1
  <2>4. ListingOpen(r)' /\ ListingClosed(r)'
    BY <1>4, <2>1, <2>6 DEF ListingOpen, ListingClosed, ReadingOpen, ReadingClosed
  <2>5. CountersInv(r)'
    BY <1>4 DEF CountersInv, HasLists, HasOrders, ReadingOpen
  <2> QED
    BY <2>3, <2>4, <2>5 DEF ReaderInv
<1>5. "list open" \in Labels
  BY DEF Labels, ScanningOpen
<1> QED
  BY <1>1, <1>2, <1>3, <1>4, <1>5, ReaderMoves

\* Whatever was known and is not in the list of the open ones is closed by now.
LEMMA ListClosedKeeps == ASSUME StepsInv, NEW r \in Readers, ListClosed(r) PROVE StepsInv'
<1> DEFINE S == [at |-> 0, size |-> Len(positions), kept |-> {}]
           R == [response[r] EXCEPT !.open = Ids(scan[r].kept)]
<1>1. /\ UNCHANGED <<shared, peakEquity, local, observed>>
      /\ pc' = [pc EXCEPT ![r] = "list closed"] /\ scan' = [scan EXCEPT ![r] = S]
      /\ response' = [response EXCEPT ![r] = R]
      /\ pc[r] = "list open" /\ scan[r].at = scan[r].size
  BY DEF ListClosed, Scanned, At, StartScan, Goto
<1>2. S \in Scan /\ S.at = 0 /\ S.size = Len(positions) /\ S.kept = {} /\ IsFiniteSet(S.kept)
      /\ Ids(S.kept) = {} /\ S.at <= S.size
  BY Facts, FreshScan
<1>3. /\ response[r].known = 1 .. scan[r].size /\ response[r].known \subseteq DOMAIN positions
      /\ \A i \in response[r].known : i \in Ids(scan[r].kept) \/ ~positions[i].open
      /\ Ids(scan[r].kept) \subseteq DOMAIN positions
      /\ response[r].closed \subseteq DOMAIN positions
  BY <1>1 DEF StepsInv, ReaderInv, ListingOpen, ListsInv, ReadingOpen
<1>4. /\ R \in Response /\ R.known = response[r].known /\ R.open = Ids(scan[r].kept)
      /\ R.closed = response[r].closed
  <2>1. Ids(scan[r].kept) \subseteq Nat
    BY <1>3, Facts
  <2> QED
    BY <2>1, ResponseFacts DEF Response
<1> HIDE DEF S, R
<1>5. ASSUME pc'[r] = "list closed", scan'[r] = S, response'[r] = R PROVE ReaderInv(r)'
  <2>1. positions' = positions /\ DOMAIN positions = 1 .. Len(positions)
    BY <1>1, Facts DEF shared
  <2>2. ListsInv(r)'
    BY <1>3, <1>4, <1>5, <2>1 DEF ListsInv, HasLists, ReadingClosed
  <2>3. \A i \in R.known : ~(i <= S.at)
    <3>1. \A i \in 1 .. Len(positions) : ~(i <= 0)
      BY Facts
    <3> QED
      BY <1>2, <1>3, <1>4, <2>1, <3>1
  <2>4. ListingOpen(r)' /\ ListingClosed(r)'
    BY <1>2, <1>3, <1>4, <1>5, <2>1, <2>3 DEF ListingOpen, ListingClosed, ReadingOpen, ReadingClosed
  <2>5. CountersInv(r)'
    BY <1>5 DEF CountersInv, HasLists, HasOrders, ReadingClosed
  <2> QED
    BY <2>2, <2>4, <2>5 DEF ReaderInv
<1>6. "list closed" \in Labels
  BY DEF Labels, ScanningClosed
<1> QED
  BY <1>1, <1>2, <1>4, <1>5, <1>6, ReaderMoves

\* The lists are complete; generated is read, and never ahead of submitted.
LEMMA ReadStatsKeeps == ASSUME StepsInv, NEW r \in Readers, ReadStats(r) PROVE StepsInv'
<1> DEFINE R == [response[r] EXCEPT !.closed = Ids(scan[r].kept), !.ordersGenerated = generated]
<1>1. /\ UNCHANGED <<shared, peakEquity, local, observed>>
      /\ pc' = [pc EXCEPT ![r] = "processed"] /\ scan' = [scan EXCEPT ![r] = NoScan]
      /\ response' = [response EXCEPT ![r] = R]
      /\ pc[r] = "list closed" /\ scan[r].at = scan[r].size
  BY DEF ReadStats, Scanned, At, Goto
<1>2. NoScan \in Scan /\ NoScan.at <= NoScan.size /\ IsFiniteSet(NoScan.kept)
  BY FreshScan
<1>3. /\ response[r].known \subseteq 1 .. scan[r].size /\ response[r].known \subseteq DOMAIN positions
      /\ \A i \in response[r].known :
           i <= scan[r].at => i \in response[r].open \cup Ids(scan[r].kept)
      /\ Ids(scan[r].kept) \subseteq DOMAIN positions
      /\ response[r].open \subseteq DOMAIN positions
  BY <1>1 DEF StepsInv, ReaderInv, ListingClosed, ListsInv, ReadingClosed
<1>4. response[r].known \subseteq response[r].open \cup Ids(scan[r].kept)
  <2>1. scan[r].size \in Nat
    BY ScanFacts DEF Threads
  <2>2. \A i \in 1 .. scan[r].size : i <= scan[r].at
    <3>1. \A n \in Nat : \A i \in 1 .. n : i <= n
      OBVIOUS
    <3>2. \A i \in 1 .. scan[r].size : i <= scan[r].size
      BY <2>1, <3>1, Zenon
    <3> QED
      BY <1>1, <3>2, Zenon
  <2> QED
    BY <1>3, <2>2
<1>5. generated <= submitted /\ generated \in Nat
  BY Facts DEF StepsInv, EngineInv, OrdersInv
<1>6. /\ R \in Response /\ R.known = response[r].known /\ R.open = response[r].open
      /\ R.closed = Ids(scan[r].kept) /\ R.ordersGenerated = generated
  <2>1. Ids(scan[r].kept) \subseteq Nat
    BY <1>3, Facts
  <2> QED
    BY <1>5, <2>1, ResponseFacts DEF Response
<1> HIDE DEF R
<1>7. ASSUME pc'[r] = "processed", response'[r] = R PROVE ReaderInv(r)'
  <2>1. positions' = positions /\ submitted' = submitted
    BY <1>1 DEF shared
  <2>2. ListsInv(r)'
    BY <1>3, <1>4, <1>6, <1>7, <2>1 DEF ListsInv
  <2>3. ListingOpen(r)' /\ ListingClosed(r)'
    BY <1>7 DEF ListingOpen, ListingClosed, ReadingOpen, ReadingClosed
  <2>4. CountersInv(r)'
    BY <1>5, <1>6, <1>7, <2>1 DEF CountersInv, HasOrders
  <2> QED
    BY <2>2, <2>3, <2>4 DEF ReaderInv
<1>8. "processed" \in Labels
  BY DEF Labels
<1> QED
  BY <1>1, <1>2, <1>6, <1>7, <1>8, ReaderMoves

\* The steps that only read one counter or the orders.
LEMMA ReadStepKeeps ==
  ASSUME StepsInv, NEW r \in Readers, NEW from, NEW to \in HasLists, NEW R \in Response,
         ReadStep(r, from, to, R), from \in HasLists,
         R.known = response[r].known, R.open = response[r].open, R.closed = response[r].closed,
         pc'[r] = to /\ response'[r] = R /\ submitted' = submitted /\ recorded' = recorded
           => CountersInv(r)'
  PROVE  StepsInv'
<1>1. /\ UNCHANGED <<shared, peakEquity, local, observed>> /\ scan' = scan
      /\ pc' = [pc EXCEPT ![r] = to] /\ pc[r] = from
      /\ response' = [response EXCEPT ![r] = R]
  BY DEF ReadStep, At, Goto
<1>2. scan[r] \in Scan /\ scan[r].at <= scan[r].size /\ IsFiniteSet(scan[r].kept)
  BY ScanFacts DEF Threads
<1>3. scan' = [scan EXCEPT ![r] = scan[r]]
  BY <1>1 DEF StepsInv, StepsType
<1>4. UNCHANGED <<positions, submitted, recorded>>
  BY <1>1 DEF shared
<1>5. ListsInv(r)
  BY DEF StepsInv, ReaderInv
<1>6. ASSUME pc'[r] = to, response'[r] = R PROVE ReaderInv(r)'
  <2>1. ListsInv(r)'
    BY <1>1, <1>4, <1>5, <1>6 DEF ListsInv
  <2>2. ListingOpen(r)' /\ ListingClosed(r)'
    BY <1>6 DEF ListingOpen, ListingClosed, HasLists
  <2> QED
    BY <1>4, <1>6, <2>1, <2>2 DEF ReaderInv
<1>7. to \in Labels
  BY DEF HasLists
<1> QED
  BY <1>1, <1>2, <1>3, <1>6, <1>7, ReaderMoves

\* What the counters satisfy so far.
LEMMA CountersSoFar ==
  ASSUME StepsInv, NEW r \in Readers, pc[r] \in HasLists
  PROVE  /\ CountersInv(r) /\ processed <= recorded
         /\ response[r].ordersGenerated <= submitted
         /\ response[r].open \cup response[r].closed \subseteq DOMAIN positions
         /\ \A i \in DOMAIN positions : i \in DOMAIN orders /\ orders[i] = "FILLED"
<1>1. CountersInv(r) /\ ListsInv(r) /\ OrdersInv
  BY DEF StepsInv, ReaderInv, EngineInv
<1>2. processed <= recorded
  BY <1>1, Facts DEF OrdersInv
<1>3. \A i \in DOMAIN positions : i \in DOMAIN orders
  BY <1>1, Facts DEF OrdersInv
<1> QED
  BY <1>1, <1>2, <1>3 DEF CountersInv, ListsInv, OrdersInv

LEMMA ReadProcessedKeeps == ASSUME StepsInv, NEW r \in Readers, ReadProcessed(r) PROVE StepsInv'
<1> DEFINE R == [response[r] EXCEPT !.processed = processed]
<1>1. ReadStep(r, "processed", "orders", R) /\ pc[r] = "processed"
  BY DEF ReadProcessed, ReadStep, At
<1>2. "processed" \in HasLists /\ "orders" \in HasLists
  BY DEF HasLists, Labels, ReadingOpen, ReadingClosed
<1>3. /\ R \in Response /\ R.known = response[r].known /\ R.open = response[r].open
      /\ R.closed = response[r].closed /\ R.ordersGenerated = response[r].ordersGenerated
      /\ R.processed = processed
  BY ResponseFacts, Facts DEF Response
<1> HIDE DEF R
<1>4. pc'[r] = "orders" /\ response'[r] = R /\ submitted' = submitted /\ recorded' = recorded
        => CountersInv(r)'
  BY <1>1, <1>2, <1>3, CountersSoFar DEF CountersInv, HasOrders
<1> QED
  BY <1>1, <1>2, <1>3, <1>4, ReadStepKeeps

\* Every position listed was filled before the orders were read.
LEMMA ReadOrdersKeeps == ASSUME StepsInv, NEW r \in Readers, ReadOrders(r) PROVE StepsInv'
<1> DEFINE R == [response[r] EXCEPT !.orders = orders]
<1>1. ReadStep(r, "orders", "portfolio", R) /\ pc[r] = "orders"
  BY DEF ReadOrders, ReadStep, At
<1>2. "orders" \in HasLists \ {"processed"} /\ "portfolio" \in HasLists
  BY DEF HasLists, Labels, ReadingOpen, ReadingClosed
<1>3. /\ R \in Response /\ R.known = response[r].known /\ R.open = response[r].open
      /\ R.closed = response[r].closed /\ R.ordersGenerated = response[r].ordersGenerated
      /\ R.processed = response[r].processed /\ R.orders = orders
  BY ResponseFacts, Facts DEF Response
<1> HIDE DEF R
<1>4. ASSUME pc'[r] = "portfolio", response'[r] = R, submitted' = submitted, recorded' = recorded
      PROVE  CountersInv(r)'
  <2>1. response[r].processed <= recorded /\ response[r].ordersGenerated <= submitted
    BY <1>1, <1>2, CountersSoFar DEF CountersInv
  <2>2. \A i \in R.open \cup R.closed : i \in DOMAIN R.orders /\ R.orders[i] = "FILLED"
    BY <1>1, <1>2, <1>3, CountersSoFar
  <2> QED
    BY <1>2, <1>3, <1>4, <2>1, <2>2 DEF CountersInv
<1> QED
  BY <1>1, <1>2, <1>3, <1>4, ReadStepKeeps

LEMMA ReadPortfolioKeeps == ASSUME StepsInv, NEW r \in Readers, ReadPortfolio(r) PROVE StepsInv'
<1> DEFINE S == [at |-> 0, size |-> Len(positions), kept |-> {}]
<1>1. /\ UNCHANGED <<shared, peakEquity, local, response, observed>>
      /\ pc' = [pc EXCEPT ![r] = "sum open"] /\ scan' = [scan EXCEPT ![r] = S]
      /\ pc[r] = "portfolio"
  BY DEF ReadPortfolio, At, StartScan, Goto
<1>2. S \in Scan /\ S.at <= S.size /\ IsFiniteSet(S.kept)
  BY Facts, FreshScan
<1>3. response' = [response EXCEPT ![r] = response[r]] /\ response[r] \in Response
  BY <1>1, ResponseFacts DEF StepsInv, StepsType
<1>4. UNCHANGED <<positions, submitted, recorded>>
  BY <1>1 DEF shared
<1>5. {"portfolio", "sum open"} \subseteq HasOrders /\ HasOrders \subseteq HasLists \ {"processed"}
  BY DEF HasOrders, HasLists, Labels, ScanningOpen, ReadingOpen, ReadingClosed
<1> HIDE DEF S
<1>6. ASSUME pc'[r] = "sum open", response'[r] = response[r] PROVE ReaderInv(r)'
  <2>1. ReaderInv(r)
    BY DEF StepsInv
  <2>2. ListsInv(r)'
    BY <1>1, <1>4, <1>5, <1>6, <2>1 DEF ReaderInv, ListsInv
  <2>3. ListingOpen(r)' /\ ListingClosed(r)'
    BY <1>6 DEF ListingOpen, ListingClosed, ReadingOpen, ReadingClosed
  <2>4. CountersInv(r)'
    BY <1>1, <1>4, <1>5, <1>6, <2>1 DEF ReaderInv, CountersInv
  <2> QED
    BY <2>2, <2>3, <2>4 DEF ReaderInv
<1>7. "sum open" \in Labels
  BY DEF Labels, ScanningOpen
<1> QED
  BY <1>1, <1>2, <1>3, <1>6, <1>7, ReaderMoves

LEMMA ReadHealthKeeps == ASSUME StepsInv, NEW r \in Readers, ReadHealth(r) PROVE StepsInv'
<1> DEFINE R == [response[r] EXCEPT !.healthProcessed = recorded]
<1>1. ReadStep(r, "health", "performance", R) /\ pc[r] = "health"
  BY DEF ReadHealth, ReadStep, At
<1>2. "health" \in HasOrders /\ "performance" \in HasLists /\ HasOrders \subseteq HasLists \ {"processed"}
  BY DEF HasOrders, HasLists, Labels, ReadingOpen, ReadingClosed
<1>3. /\ R \in Response /\ R.known = response[r].known /\ R.open = response[r].open
      /\ R.closed = response[r].closed /\ R.ordersGenerated = response[r].ordersGenerated
      /\ R.processed = response[r].processed /\ R.orders = response[r].orders
      /\ R.healthProcessed = recorded
  BY ResponseFacts, Facts DEF Response
<1> HIDE DEF R
<1>4. ASSUME pc'[r] = "performance", response'[r] = R, submitted' = submitted, recorded' = recorded
      PROVE  CountersInv(r)'
  <2>1. CountersInv(r) /\ pc[r] \in HasOrders /\ pc[r] \in HasLists \ {"processed"}
    BY <1>1, <1>2, CountersSoFar
  <2> QED
    BY <1>3, <1>4, <2>1 DEF CountersInv
<1> QED
  BY <1>1, <1>2, <1>3, <1>4, ReadStepKeeps

LEMMA ReadPerformanceKeeps ==
  ASSUME StepsInv, NEW r \in Readers, ReadPerformance(r) PROVE StepsInv'
<1> DEFINE R == [response[r] EXCEPT !.ordersSubmitted = submitted]
<1>1. ReadStep(r, "performance", "done", R) /\ pc[r] = "performance"
  BY DEF ReadPerformance, ReadStep, At
<1>2. "performance" \in HasOrders /\ "done" \in HasLists /\ HasOrders \subseteq HasLists \ {"processed"}
  BY DEF HasOrders, HasLists, Labels, ReadingOpen, ReadingClosed
<1>3. /\ R \in Response /\ R.known = response[r].known /\ R.open = response[r].open
      /\ R.closed = response[r].closed /\ R.ordersGenerated = response[r].ordersGenerated
      /\ R.processed = response[r].processed /\ R.orders = response[r].orders
      /\ R.healthProcessed = response[r].healthProcessed /\ R.ordersSubmitted = submitted
  BY ResponseFacts, Facts DEF Response
<1> HIDE DEF R
<1>4. ASSUME pc'[r] = "done", response'[r] = R, submitted' = submitted, recorded' = recorded
      PROVE  CountersInv(r)'
  <2>1. CountersInv(r) /\ pc[r] \in HasOrders /\ pc[r] \in HasLists \ {"processed"}
    BY <1>1, <1>2, CountersSoFar
  <2> QED
    BY <1>1, <1>3, <1>4, <2>1 DEF CountersInv
<1> QED
  BY <1>1, <1>2, <1>3, <1>4, ReadStepKeeps

-----------------------------------------------------------------------------
(* The results *)

\* Every step of every thread keeps the invariant.
LEMMA StepsKeep ==
  ASSUME StepsInv, [Next]_vars
  PROVE  StepsInv'
<1>1. CASE UNCHANGED vars
  <2>1. UNCHANGED <<pc, positions, openId, cash, orders, submitted, generated, recorded, processed,
                    peakEquity, scan, local, response, observed>>
    BY <1>1 DEF vars, shared
  <2>2. StepsType'
    BY <2>1 DEF StepsInv, StepsType
  <2>3. EngineInv'
    BY <2>1 DEF StepsInv, EngineInv, PointerInv, CashInv, OrdersInv, EngineAt, OpenNow, Owed,
                LastStatus, RealizedOf
  <2>4. Grows
    BY <2>1, Facts DEF Grows
  <2>5. \A r \in Readers : ReaderInv(r)'
    BY <2>1, <2>4, Facts, ReaderKept
  <2> QED
    BY <2>2, <2>3, <2>5 DEF StepsInv
<1>2. CASE EngineStep /\ ~TakeSnapshot
  <2>1. StepsType' /\ EngineInv' /\ Grows /\ Apart
    BY <1>2, EngineStepKeeps DEF EngineKeeps
  <2>2. submitted' \in Nat /\ recorded' \in Nat
    BY <2>1 DEF StepsType
  <2>3. \A r \in Readers : ReaderInv(r)'
    BY <2>1, <2>2, ReaderKept DEF Apart
  <2> QED
    BY <2>1, <2>3 DEF StepsInv
<1>3. CASE TakeSnapshot
  BY <1>3, TakeSnapshotKeeps
<1>4. ASSUME NEW r \in Readers, ReaderStep(r) PROVE StepsInv'
  BY <1>4, ListOpenKeeps, ListClosedKeeps, ReadStatsKeeps, ReadProcessedKeeps, ReadOrdersKeeps,
     ReadPortfolioKeeps, ReadHealthKeeps, ReadPerformanceKeeps DEF ReaderStep
<1>5. ASSUME NEW t \in Threads, Snapshot(t) PROVE StepsInv'
  BY <1>5, SnapshotKeeps
<1> QED
  BY <1>1, <1>2, <1>3, <1>4, <1>5 DEF Next

LEMMA StepsStart == Init => StepsInv
<1> SUFFICES ASSUME Init PROVE StepsInv
  OBVIOUS
<1>1. \A t \in Threads : pc[t] = (IF t = "engine" THEN "idle" ELSE "unsent")
  BY DEF Init
<1>2. EngineAt = "idle" /\ \A r \in Readers : pc[r] = "unsent"
  BY <1>1, StepsAssumption DEF EngineAt, Threads
<1>3. NoScan \in Scan /\ NoScan.at <= NoScan.size /\ IsFiniteSet(NoScan.kept)
  BY FS_EmptySet DEF NoScan, Scan
<1>4. EmptyResponse \in Response /\ EmptyResponse.open = {} /\ EmptyResponse.closed = {}
  BY DEF EmptyResponse, Response
<1>5. pc \in [Threads -> Labels]
  BY DEF Init, Labels
<1>6. StepsType
  <2>1. [equity |-> 0, peak |-> 0] \in [equity : Int, peak : Int]
    OBVIOUS
  <2> QED
    BY <1>3, <1>4, <1>5, <2>1, StepsAssumption DEF Init, StepsType, NoPosition
<1>7. PointerInv /\ OrdersInv
  BY <1>2 DEF Init, PointerInv, OrdersInv, Ordering
<1>8. CashInv
  <2>1. IsFiniteSet({}) /\ DOMAIN positions = {}
    BY FS_EmptySet DEF Init
  <2>2. SumOn(RealizedOf, {}) = 0
    BY <2>1, SumType
  <2>3. cash = InitialCash /\ Owed = 0 /\ InitialCash \in Nat
    BY <1>2, StepsAssumption DEF Init, Owed
  <2> QED
    BY <2>1, <2>2, <2>3 DEF CashInv
<1>9. ASSUME NEW r \in Readers PROVE ReaderInv(r)
  <2>1. response[r] = EmptyResponse /\ pc[r] = "unsent"
    BY <1>2 DEF Init
  <2> QED
    BY <1>4, <2>1 DEF ReaderInv, ListingOpen, ListingClosed, ListsInv, CountersInv,
       ReadingOpen, ReadingClosed, HasLists, HasOrders
<1> QED
  BY <1>6, <1>7, <1>8, <1>9 DEF StepsInv, EngineInv

\* Whatever requests meet it in between, the engine's thread is where its books say,
\* and a request has gathered what its place in the sequence of reads promises.
THEOREM StepsInvariant == Spec => []StepsInv
  BY StepsStart, StepsKeep, PTL DEF Spec

\* Between two candles the cash, the pointer, the orders and the counters agree, for
\* any number of requests served during the candle at any point of it.
THEOREM BoundariesReconcile == Spec => []BoundaryReconciles
<1>1. StepsInv => BoundaryReconciles
  <2> SUFFICES ASSUME StepsInv, At("engine", "idle")
               PROVE  /\ cash = InitialCash + Realized
                      /\ \A i \in DOMAIN positions : positions[i].open <=> i = openId
                      /\ Len(orders) = Len(positions) /\ submitted = Len(orders)
                      /\ generated = Len(orders)
                      /\ \A i \in DOMAIN orders : orders[i] = "FILLED"
    BY InvariantTypes DEF BoundaryReconciles
  <2>1. EngineAt = "idle" /\ Owed = 0 /\ OpenNow = openId
    BY DEF At, EngineAt, Owed, OpenNow
  <2>2. cash = InitialCash + Realized
    <3>1. Realized = SumOn(RealizedOf, DOMAIN positions)
      BY DEF Realized, FoldFunction, SumOn, RealizedOf
    <3>2. cash + 0 = cash
      BY Facts
    <3> QED
      BY <2>1, <3>1, <3>2 DEF StepsInv, EngineInv, CashInv
  <2>3. \A i \in DOMAIN positions : positions[i].open <=> i = openId
    BY <2>1 DEF StepsInv, EngineInv, PointerInv
  <2>4. /\ Len(orders) = Len(positions) /\ submitted = Len(orders) /\ generated = Len(orders)
        /\ \A i \in DOMAIN positions : orders[i] = "FILLED"
    BY <2>1, Facts DEF StepsInv, EngineInv, OrdersInv, Ordering
  <2>5. DOMAIN orders = DOMAIN positions
    BY <2>4, Facts
  <2> QED
    BY <2>2, <2>3, <2>4, <2>5
<1> QED
  BY <1>1, StepsInvariant, PTL

\* A response's counters fit each other although they are read while a candle runs:
\* what is advanced first is read last.
THEOREM ResponsesCohere == Spec => []ResponseCoherent
<1>1. StepsInv => ResponseCoherent
  <2> SUFFICES ASSUME StepsInv, NEW r \in Readers, At(r, "done")
               PROVE  LET filled == {i \in DOMAIN response[r].orders :
                                       response[r].orders[i] = "FILLED"}
                      IN  /\ response[r].processed <= response[r].healthProcessed
                          /\ response[r].ordersGenerated <= response[r].ordersSubmitted
                          /\ Cardinality(response[r].open \cup response[r].closed)
                               <= Cardinality(filled)
    BY DEF ResponseCoherent
  <2> DEFINE filled == {i \in DOMAIN response[r].orders : response[r].orders[i] = "FILLED"}
  <2>1. pc[r] = "done" /\ CountersInv(r) /\ "done" \in HasOrders
    BY DEF At, StepsInv, ReaderInv, HasOrders, HasLists, Labels, ReadingOpen, ReadingClosed
  <2>2. response[r].processed <= response[r].healthProcessed
        /\ response[r].ordersGenerated <= response[r].ordersSubmitted
    BY <2>1 DEF CountersInv
  <2>3. response[r].open \cup response[r].closed \subseteq filled
    BY <2>1 DEF CountersInv
  <2>4. IsFiniteSet(filled)
    <3>1. response[r].orders \in Seq(Statuses)
      BY ResponseFacts DEF Response
    <3>2. DOMAIN response[r].orders = 1 .. Len(response[r].orders) /\ Len(response[r].orders) \in Nat
      BY <3>1
    <3>3. IsFiniteSet(DOMAIN response[r].orders)
      BY <3>2, FS_Interval
    <3> QED
      BY <3>3, FS_Subset
  <2> QED
    BY <2>2, <2>3, <2>4, FS_Subset
<1> QED
  BY <1>1, StepsInvariant, PTL

\* No position in the book when a request came is missing from its two lists, however
\* many exits and entries run while it makes them.
THEOREM NoneMissed == Spec => []NoPositionMissed
<1>1. StepsInv => NoPositionMissed
  BY DEF StepsInv, ReaderInv, ListsInv, NoPositionMissed, At, HasLists, Labels, ReadingOpen,
         ReadingClosed
<1> QED
  BY <1>1, StepsInvariant, PTL

-----------------------------------------------------------------------------
(* The page: what its requests carry *)

IsPost(r) == r.ask \in Posts

RequestSet == [click : 0 .. Len(clicks), ask : Posts \cup {"refresh"},
               age : 0 .. Timeout, reply : Replies \cup {None}]

PageOK ==
  /\ page \in Services /\ runtime \in RuntimeStates /\ signals \in BOOLEAN
  /\ version \in Nat /\ version >= 1 /\ progress \in 0 .. MaxProgress
  /\ shown \in 0 .. version

\* The versions of the past ticks, in order.
PastOK ==
  /\ past \in Seq(Nat) /\ Len(past) = Timeout + 1
  /\ \A i \in 1 .. Timeout + 1 : past[i] <= version
  /\ \A i, j \in 1 .. Timeout + 1 : i <= j => past[i] <= past[j]

\* The version at the tick before a request of that age was sent.
Since(age) == past[Timeout + 1 - age]

\* An answer is not older than its request.
RequestsOK ==
  \A r \in requests :
    /\ r \in RequestSet
    /\ r.reply # None => Since(r.age) <= r.reply.ver /\ r.reply.ver <= version

ClicksOK ==
  /\ clicks \in Seq(Clicks) /\ Len(clicks) <= MaxClicks
  /\ \A c \in DOMAIN clicks :
       /\ clicks[c].seen <= version
       /\ clicks[c].outcome = "open" => clicks[c].next <= Len(clicks[c].posts)

\* The POST a button has come to.
Sends(c, post) ==
  /\ c \in DOMAIN clicks
  /\ clicks[c].next <= Len(clicks[c].posts) /\ post = clicks[c].posts[clicks[c].next]

\* A button that is not through waits for one POST, and no other does.
PostsOK ==
  /\ \A r \in requests : IsPost(r) => Sends(r.click, r.ask) /\ clicks[r.click].outcome = "open"
  /\ \A r, q \in requests : IsPost(r) /\ IsPost(q) /\ r.click = q.click => r = q

\* A button's refresh is sent when the button is through, and answered later than
\* its POSTs.
RefreshesOK ==
  \A r \in requests :
    r.ask = "refresh" /\ r.click > 0 =>
      /\ r.click \in DOMAIN clicks /\ clicks[r.click].outcome # "open"
      /\ r.reply # None => r.reply.ver >= clicks[r.click].seen

OrphansOK ==
  /\ orphans \subseteq (1 .. Len(clicks)) \X Posts
  /\ \A o \in orphans : clicks[o[1]].outcome = "cut" /\ Sends(o[1], o[2])

\* The backend may still process the POST click c has come to.
Waits(c) ==
  \/ \E r \in requests : IsPost(r) /\ r.click = c /\ r.reply = None
  \/ \E o \in orphans : o[1] = c

\* The POSTs that cannot change the backend any more, by click and place.
Spent == {x \in (1 .. Len(clicks)) \X (1 .. 2) :
            \/ x[2] < clicks[x[1]].next
            \/ x[2] = clicks[x[1]].next /\ ~Waits(x[1])}

\* Each state of the backend comes from an engine or a POST of its own.
VersionOK == version <= 1 + progress + Cardinality(Spent)

ClientInv ==
  /\ PageOK /\ PastOK /\ RequestsOK /\ ClicksOK
  /\ PostsOK /\ RefreshesOK /\ OrphansOK /\ VersionOK

\* Every button sends one POST or two.
LEMMA ButtonFacts ==
  ASSUME NEW s \in Services, NEW b \in Buttons(s)
  PROVE  b \in Seq(Posts) /\ Len(b) \in 1 .. 2 /\ b \in UNION {Buttons(z) : z \in Services}
<1>1. b \in DashboardButtons \cup {SignalsStart, SignalsStop}
  BY DEF Buttons
<1>2. CASE b \in DashboardButtons
  <2>1. \A p \in Posts : <<p>> \in Seq(Posts) /\ Len(<<p>>) = 1
    OBVIOUS
  <2>2. \E p \in Posts : b = <<p>>
    BY <1>2 DEF DashboardButtons, Posts
  <2> QED
    BY <2>1, <2>2
<1>3. CASE b \in {SignalsStart, SignalsStop}
  <2>1. \A p, q \in Posts : <<p, q>> \in Seq(Posts) /\ Len(<<p, q>>) = 2
    OBVIOUS
  <2>2. \E p, q \in Posts : b = <<p, q>>
    BY <1>3 DEF SignalsStart, SignalsStop, Posts
  <2> QED
    BY <2>1, <2>2
<1> QED
  BY <1>1, <1>2, <1>3

LEMMA ClickFields ==
  ASSUME NEW k \in Clicks
  PROVE  /\ k.svc \in Services /\ k.posts \in Seq(Posts) /\ Len(k.posts) \in 1 .. 2
         /\ k.next \in 1 .. 3 /\ k.seen \in Nat
         /\ k.outcome \in {"open", "done", "conflict", "cut"}
<1>1. PICK s \in Services : k.posts \in Buttons(s)
  BY DEF Clicks
<1>2. k.posts \in Seq(Posts) /\ Len(k.posts) \in 1 .. 2
  BY <1>1, ButtonFacts
<1>3. \A v \in Versions \cup {0} : v \in Nat
  BY ClientAssumption DEF Versions
<1> QED
  BY <1>2, <1>3 DEF Clicks

\* What the backend makes of a POST.
LEMMA ProcessMoves ==
  ASSUME PageOK, NEW post \in Posts, Process(post) \/ UNCHANGED backendVars
  PROVE  /\ runtime' \in RuntimeStates /\ signals' \in BOOLEAN /\ progress' = progress
         /\ version' \in Nat /\ version <= version' /\ version' <= version + 1
<1>1. CASE UNCHANGED backendVars
  BY <1>1 DEF backendVars, PageOK
<1>2. CASE Process(post) /\ ~UNCHANGED backendVars
  <2>1. /\ version' = version + 1 /\ progress' = progress
        /\ runtime' = CASE post \in {"runtime/start", "runtime/resume", "runtime/replay"} -> "Running"
                         [] post = "runtime/pause" -> "Paused"
                         [] post = "runtime/stop" -> "Stopped"
                         [] OTHER -> runtime
        /\ signals' = CASE post = "signals/start" -> TRUE
                         [] post = "signals/stop" -> FALSE
                         [] OTHER -> signals
    BY <1>2 DEF Process
  <2>0. version' \in Nat /\ version <= version' /\ version' <= version + 1
    BY <2>1 DEF PageOK
  <2>2. runtime' \in RuntimeStates
    BY <2>1 DEF PageOK, RuntimeStates
  <2>3. signals' \in BOOLEAN
    <3>1. CASE post = "signals/start"
      BY <2>1, <3>1
    <3>2. CASE post = "signals/stop"
      BY <2>1, <3>2
    <3>3. CASE post \notin {"signals/start", "signals/stop"}
      <4>1. signals' = signals
        BY <2>1, <3>3
      <4> QED
        BY <4>1 DEF PageOK
    <3> QED
      BY <3>1, <3>2, <3>3
  <2> QED
    BY <2>0, <2>1, <2>2, <2>3
<1> QED
  BY <1>1, <1>2

-----------------------------------------------------------------------------
(* The size of what is spent *)

LEMMA PlacesCount ==
  ASSUME NEW n \in Nat
  PROVE  IsFiniteSet((1 .. n) \X (1 .. 2)) /\ Cardinality((1 .. n) \X (1 .. 2)) = 2 * n
<1>1. IsFiniteSet(1 .. n) /\ Cardinality(1 .. n) = n
  <2>1. IsFiniteSet(1 .. n) /\ Cardinality(1 .. n) = IF 1 > n THEN 0 ELSE n - 1 + 1
    BY FS_Interval
  <2> QED
    BY <2>1
<1>2. IsFiniteSet(1 .. 2) /\ Cardinality(1 .. 2) = 2
  <2>1. 1 .. 2 = {1} \cup {2} /\ 2 \notin {1}
    OBVIOUS
  <2>2. IsFiniteSet({1}) /\ Cardinality({1}) = 1
    BY FS_Singleton
  <2>3. IsFiniteSet({1} \cup {2}) /\ Cardinality({1} \cup {2}) = 1 + 1
    BY <2>1, <2>2, FS_AddElement
  <2> QED
    BY <2>1, <2>3
<1>3. /\ IsFiniteSet((1 .. n) \X (1 .. 2))
      /\ Cardinality((1 .. n) \X (1 .. 2)) = Cardinality(1 .. n) * Cardinality(1 .. 2)
  BY <1>1, <1>2, FS_Product
<1> QED
  BY <1>1, <1>2, <1>3

LEMMA SpentSize ==
  ASSUME ClicksOK
  PROVE  IsFiniteSet(Spent) /\ Cardinality(Spent) \in Nat
         /\ Cardinality(Spent) <= 2 * Len(clicks)
<1>1. Len(clicks) \in Nat
  BY DEF ClicksOK
<1>2. Spent \subseteq (1 .. Len(clicks)) \X (1 .. 2)
  BY DEF Spent
<1> DEFINE all == (1 .. Len(clicks)) \X (1 .. 2)
<1>3. IsFiniteSet(all) /\ Cardinality(all) = 2 * Len(clicks)
  BY <1>1, PlacesCount
<1> HIDE DEF all
<1>4. IsFiniteSet(Spent) /\ Cardinality(Spent) <= Cardinality(all)
  <2>1. Spent \subseteq all
    BY <1>2 DEF all
  <2> QED
    BY <1>3, <2>1, FS_Subset
<1>5. Cardinality(Spent) \in Nat
  BY <1>4, FS_CardinalityType
<1> QED
  BY <1>3, <1>4, <1>5

\* What is spent stays spent.
LEMMA SpentStays ==
  ASSUME ClicksOK, ClicksOK', Spent \subseteq Spent'
  PROVE  /\ Cardinality(Spent) \in Nat /\ Cardinality(Spent') \in Nat
         /\ Cardinality(Spent) <= Cardinality(Spent')
         /\ \A x \in Spent' : x \notin Spent => Cardinality(Spent) + 1 <= Cardinality(Spent')
<1>1. IsFiniteSet(Spent) /\ Cardinality(Spent) \in Nat
  BY SpentSize
<1>2. IsFiniteSet(Spent') /\ Cardinality(Spent') \in Nat
  <2>1. (ClicksOK => IsFiniteSet(Spent) /\ Cardinality(Spent) \in Nat)'
    BY SpentSize, PTL
  <2> QED
    BY <2>1
<1>3. ASSUME NEW x \in Spent', x \notin Spent
      PROVE  Cardinality(Spent) + 1 <= Cardinality(Spent')
  <2>1. Cardinality(Spent \cup {x}) = Cardinality(Spent) + 1
    BY <1>1, <1>3, FS_AddElement
  <2>2. Spent \cup {x} \subseteq Spent'
    OBVIOUS
  <2> QED
    BY <1>2, <2>1, <2>2, FS_Subset
<1> QED
  BY <1>1, <1>2, <1>3, FS_Subset

-----------------------------------------------------------------------------
(* What the steps keep *)

LEMMA RequestFields ==
  ASSUME RequestsOK, ClicksOK, PageOK, NEW r \in requests
  PROVE  /\ r.click \in 0 .. Len(clicks) /\ r.ask \in Posts \cup {"refresh"}
         /\ r.age \in 0 .. Timeout /\ r.age \in Nat /\ r.reply \in Replies \cup {None}
         /\ r.reply # None => r.reply.ver \in Nat /\ r.reply.ver \in Versions /\ r.reply \in Replies
         /\ r.reply # None => Since(r.age) <= r.reply.ver /\ r.reply.ver <= version
         /\ IsPost(r) <=> r.ask # "refresh"
         /\ IsPost(r) => r.click \in DOMAIN clicks \/ r.click = 0
         /\ Len(clicks) \in Nat /\ DOMAIN clicks = 1 .. Len(clicks)
<1>1. r \in RequestSet /\ (r.reply # None => Since(r.age) <= r.reply.ver /\ r.reply.ver <= version)
  BY DEF RequestsOK
<1>2. /\ r.click \in 0 .. Len(clicks) /\ r.ask \in Posts \cup {"refresh"}
      /\ r.age \in 0 .. Timeout /\ r.reply \in Replies \cup {None}
  BY <1>1 DEF RequestSet
<1>3. r.reply # None => r.reply.ver \in Nat /\ r.reply.ver \in Versions /\ r.reply \in Replies
  <2>1. \A x \in Replies : x.ver \in Versions
    BY DEF Replies
  <2>2. \A v \in Versions : v \in Nat
    BY ClientAssumption DEF Versions
  <2> QED
    BY <1>2, <2>1, <2>2
<1>4. r.age \in Nat
  BY <1>2, ClientAssumption
<1>5. "refresh" \notin Posts
  BY DEF Posts
<1>6. Len(clicks) \in Nat /\ DOMAIN clicks = 1 .. Len(clicks)
  BY DEF ClicksOK
<1>7. IsPost(r) <=> r.ask # "refresh"
  BY <1>2, <1>5 DEF IsPost
<1> QED
  BY <1>1, <1>2, <1>3, <1>4, <1>6, <1>7

\* A new request, as it is sent.
LEMMA NewRequest ==
  ASSUME NEW c, NEW ask
  PROVE  /\ Request(c, ask).click = c /\ Request(c, ask).ask = ask
         /\ Request(c, ask).age = 0 /\ Request(c, ask).reply = None
         /\ c \in 0 .. Len(clicks) /\ ask \in Posts \cup {"refresh"} =>
              Request(c, ask) \in RequestSet
BY ClientAssumption DEF Request, RequestSet

\* The backend goes on; the page does not notice.
LEMMA BackendMoves ==
  ASSUME PageOK, PastOK, ClicksOK, UNCHANGED <<page, clicks, shown, past>>,
         runtime' \in RuntimeStates, signals' \in BOOLEAN, progress' \in 0 .. MaxProgress,
         version' \in Nat, version <= version'
  PROVE  PageOK' /\ PastOK' /\ ClicksOK'
<1>1. PageOK'
  BY DEF PageOK
<1>2. PastOK'
  <2>1. \A i \in 1 .. Timeout + 1 : past[i] \in Nat
    BY DEF PastOK
  <2> QED
    BY <2>1 DEF PastOK, PageOK
<1>3. ClicksOK'
  <2>1. \A c \in DOMAIN clicks : clicks[c].seen \in Nat
    BY ClickFields DEF ClicksOK
  <2> QED
    BY <2>1 DEF ClicksOK, PageOK
<1> QED
  BY <1>1, <1>2, <1>3

\* An answer that had come is still later than its request when the backend goes on.
LEMMA AnswersKept ==
  ASSUME PageOK, RequestsOK, ClicksOK, UNCHANGED <<clicks, past>>,
         version' \in Nat, version <= version', NEW r \in requests
  PROVE  /\ r \in RequestSet'
         /\ r.reply # None => Since(r.age)' <= r.reply.ver /\ r.reply.ver <= version'
<1>1. RequestSet' = RequestSet
  BY DEF RequestSet
<1>2. Since(r.age)' = Since(r.age)
  BY DEF Since
<1>3. r \in RequestSet
  BY DEF RequestsOK
<1> QED
  BY <1>1, <1>2, <1>3, RequestFields DEF PageOK

LEMMA EnginesKeep ==
  ASSUME ClientInv, EngineMoves
  PROVE  ClientInv'
<1> USE DEF ClientInv
<1>1. /\ UNCHANGED <<page, signals, requests, orphans, clicks, shown, past>>
      /\ version' = version + 1 /\ progress' = progress + 1 /\ progress < MaxProgress
      /\ runtime' \in RuntimeStates /\ version' \in Nat /\ version <= version'
      /\ progress' \in 0 .. MaxProgress /\ signals' \in BOOLEAN
  BY ClientAssumption DEF EngineMoves, PageOK, RuntimeStates
<1>2. PageOK' /\ PastOK' /\ ClicksOK'
  BY <1>1, BackendMoves
<1>3. RequestsOK'
  BY <1>1, AnswersKept DEF RequestsOK
<1>4. PostsOK' /\ RefreshesOK' /\ OrphansOK'
  BY <1>1 DEF PostsOK, RefreshesOK, OrphansOK, Sends
<1>5. Spent' = Spent
  BY <1>1 DEF Spent, Waits
<1>6. VersionOK'
  BY <1>1, <1>5, SpentSize DEF VersionOK, PageOK
<1> QED
  BY <1>2, <1>3, <1>4, <1>6

\* A request ages with its tick.
Aged(r) == [r EXCEPT !.age = IF InTime(r) THEN @ + 1 ELSE @]

LEMMA AgedFields ==
  ASSUME ClientInv, NEW r \in requests, InTime(r)
  PROVE  /\ Aged(r) \in RequestSet /\ Aged(r).click = r.click /\ Aged(r).ask = r.ask
         /\ Aged(r).reply = r.reply /\ Aged(r).age = r.age + 1
<1>1. r \in RequestSet /\ r.age \in 0 .. Timeout /\ r.age < Timeout
  BY RequestFields DEF ClientInv, RequestsOK, InTime
<1>2. Aged(r) = [r EXCEPT !.age = r.age + 1]
  BY DEF Aged
<1>3. r.age + 1 \in 0 .. Timeout
  BY <1>1, ClientAssumption
<1> QED
  BY <1>1, <1>2, <1>3 DEF RequestSet

LEMMA TickKeeps ==
  ASSUME ClientInv, Tick
  PROVE  ClientInv'
<1> USE DEF ClientInv
<1>1. /\ UNCHANGED <<page, backendVars, orphans, clicks, shown>>
      /\ UNCHANGED <<runtime, signals, version, progress>>
      /\ past' = Append(Tail(past), version)
      /\ \A r \in requests : InTime(r)
      /\ requests' = {Aged(r) : r \in requests} \cup {Refresh(0)}
  BY DEF Tick, backendVars, MayAge, Polls, Aged
<1>2. PageOK' /\ ClicksOK'
  BY <1>1 DEF PageOK, ClicksOK
<1>3. /\ past' \in Seq(Nat) /\ Len(past') = Timeout + 1
      /\ \A i \in 1 .. Timeout : past'[i] = past[i + 1]
      /\ past'[Timeout + 1] = version
  <2>1. past \in Seq(Nat) /\ Len(past) = Timeout + 1 /\ past # <<>> /\ Timeout \in Nat
    BY ClientAssumption DEF PastOK
  <2>2. /\ Tail(past) \in Seq(Nat) /\ Len(Tail(past)) = Timeout
        /\ \A i \in 1 .. Timeout : Tail(past)[i] = past[i + 1]
    BY <2>1
  <2> QED
    BY <1>1, <2>1, <2>2 DEF PageOK
<1>4. PastOK'
  <2>1. Timeout \in Nat /\ version \in Nat /\ version' = version
    BY <1>1, ClientAssumption DEF PageOK
  <2>2. \A i \in 1 .. Timeout + 1 : past[i] \in Nat /\ past[i] <= version
    BY DEF PastOK
  <2>3. ASSUME NEW i \in 1 .. Timeout + 1 PROVE past'[i] <= version
    <3>1. CASE i = Timeout + 1
      BY <1>3, <2>1, <3>1
    <3>2. CASE i \in 1 .. Timeout
      <4>1. i + 1 \in 1 .. Timeout + 1
        BY <2>1, <3>2
      <4> QED
        BY <1>3, <2>2, <3>2, <4>1
    <3> QED
      BY <2>1, <3>1, <3>2
  <2>4. ASSUME NEW i \in 1 .. Timeout + 1, NEW j \in 1 .. Timeout + 1, i <= j
        PROVE  past'[i] <= past'[j]
    <3>1. CASE j = Timeout + 1
      BY <1>3, <2>3, <3>1
    <3>2. CASE j \in 1 .. Timeout
      <4>1. i \in 1 .. Timeout /\ i + 1 \in 1 .. Timeout + 1 /\ j + 1 \in 1 .. Timeout + 1
        BY <2>1, <2>4, <3>2
      <4> QED
        BY <1>3, <2>4, <3>2, <4>1 DEF PastOK
    <3> QED
      BY <2>1, <3>1, <3>2
  <2> QED
    BY <1>3, <2>1, <2>3, <2>4 DEF PastOK
<1>5. /\ Refresh(0).click = 0 /\ Refresh(0).ask = "refresh" /\ Refresh(0).reply = None
      /\ Refresh(0) \in RequestSet
  BY NewRequest DEF Refresh, ClicksOK
<1>6. RequestSet' = RequestSet
  BY <1>1 DEF RequestSet
<1>7. ASSUME NEW r \in requests
      PROVE  /\ Aged(r) \in RequestSet /\ Aged(r).click = r.click /\ Aged(r).ask = r.ask
             /\ Aged(r).reply = r.reply
             /\ r.reply # None => Since(Aged(r).age)' <= r.reply.ver
  <2>1. /\ Aged(r) \in RequestSet /\ Aged(r).click = r.click /\ Aged(r).ask = r.ask
        /\ Aged(r).reply = r.reply /\ Aged(r).age = r.age + 1
    BY <1>1, AgedFields
  <2>2. r.age \in Nat /\ r.age < Timeout /\ Timeout \in Nat
    BY <1>1, RequestFields, ClientAssumption DEF InTime
  <2>3. Timeout + 1 - (r.age + 1) \in 1 .. Timeout
        /\ Timeout + 1 - (r.age + 1) + 1 = Timeout + 1 - r.age
    BY <2>2
  <2>4. Since(r.age + 1)' = Since(r.age)
    BY <1>3, <2>3 DEF Since
  <2> QED
    BY <2>1, <2>4, RequestFields
<1>8. RequestsOK'
  <2> SUFFICES ASSUME NEW q \in requests'
               PROVE  /\ q \in RequestSet
                      /\ q.reply # None => Since(q.age)' <= q.reply.ver /\ q.reply.ver <= version
    BY <1>1, <1>6 DEF RequestsOK
  <2>1. CASE q = Refresh(0)
    BY <1>5, <2>1
  <2>2. CASE \E r \in requests : q = Aged(r)
    <3>1. PICK r \in requests : q = Aged(r)
      BY <2>2
    <3> QED
      BY <1>7, <3>1, RequestFields
  <2> QED
    BY <1>1, <2>1, <2>2
<1>9. \A q \in requests' : IsPost(q) => \E r \in requests : q = Aged(r) /\ IsPost(r)
  <2>1. ~IsPost(Refresh(0))
    BY <1>5 DEF IsPost, Posts
  <2> QED
    BY <1>1, <1>7, <2>1 DEF IsPost
<1>10. PostsOK'
  <2>1. ASSUME NEW q \in requests', IsPost(q)
        PROVE  Sends(q.click, q.ask)' /\ clicks[q.click].outcome = "open"
    <3>1. PICK r \in requests : q = Aged(r) /\ IsPost(r)
      BY <1>9, <2>1
    <3> QED
      BY <1>1, <1>7, <3>1 DEF PostsOK, Sends
  <2>2. ASSUME NEW q \in requests', NEW p \in requests', IsPost(q), IsPost(p), q.click = p.click
        PROVE  q = p
    <3>1. PICK r \in requests : q = Aged(r) /\ IsPost(r)
      BY <1>9, <2>2
    <3>2. PICK s \in requests : p = Aged(s) /\ IsPost(s)
      BY <1>9, <2>2
    <3>3. r = s
      BY <1>7, <2>2, <3>1, <3>2 DEF PostsOK
    <3> QED
      BY <3>1, <3>2, <3>3
  <2> QED
    BY <1>1, <2>1, <2>2 DEF PostsOK, IsPost
<1>11. RefreshesOK'
  <2> SUFFICES ASSUME NEW q \in requests', q.ask = "refresh", q.click > 0
               PROVE  /\ q.click \in DOMAIN clicks /\ clicks[q.click].outcome # "open"
                      /\ q.reply # None => q.reply.ver >= clicks[q.click].seen
    BY <1>1 DEF RefreshesOK
  <2>1. PICK r \in requests : q = Aged(r)
    BY <1>1, <1>5
  <2> QED
    BY <1>7, <2>1 DEF RefreshesOK
<1>12. OrphansOK'
  BY <1>1 DEF OrphansOK, Sends
<1>13. \A c : Waits(c)' <=> Waits(c)
  <2> SUFFICES ASSUME NEW c
               PROVE  (\E q \in requests' : IsPost(q) /\ q.click = c /\ q.reply = None) <=>
                        (\E r \in requests : IsPost(r) /\ r.click = c /\ r.reply = None)
    BY <1>1 DEF Waits, IsPost
  <2>1. \A r \in requests : Aged(r) \in requests' /\ (IsPost(Aged(r)) <=> IsPost(r))
    BY <1>1, <1>7 DEF IsPost
  <2> QED
    BY <1>7, <1>9, <2>1
<1>14. Spent' = Spent
  BY <1>1, <1>13 DEF Spent
<1> QED
  BY <1>1, <1>2, <1>4, <1>8, <1>10, <1>11, <1>12, <1>14 DEF VersionOK

\* A button is pressed: its first POST is the only request it has.
LEMMA ClickKeeps ==
  ASSUME ClientInv, NEW s \in Services, NEW posts \in Buttons(s), Click(s, posts)
  PROVE  ClientInv'
<1> DEFINE n == Len(clicks)
           c == n + 1
           k == [svc |-> s, posts |-> posts, next |-> 1, outcome |-> "open", seen |-> 0]
<1>0. PICK q : q = Request(c, posts[1])
  OBVIOUS
<1> USE DEF ClientInv
<1>1. /\ UNCHANGED <<page, backendVars, orphans, shown, past>>
      /\ UNCHANGED <<runtime, signals, version, progress>>
      /\ c <= MaxClicks /\ clicks' = Append(clicks, k) /\ requests' = requests \cup {q}
  BY <1>0 DEF Click, backendVars, Asked
<1>2. /\ posts \in Seq(Posts) /\ Len(posts) \in 1 .. 2 /\ posts[1] \in Posts
      /\ posts \in UNION {Buttons(z) : z \in Services}
  BY ButtonFacts
<1>3. /\ k \in Clicks /\ k.next = 1 /\ k.outcome = "open" /\ k.seen = 0 /\ k.posts = posts
  BY <1>2 DEF Clicks
<1>4. clicks \in Seq(Clicks) /\ n \in Nat
  BY DEF ClicksOK
<1> HIDE DEF k
<1>5. /\ clicks' \in Seq(Clicks) /\ Len(clicks') = c /\ clicks'[c] = k
      /\ DOMAIN clicks = 1 .. n /\ DOMAIN clicks' = 1 .. c
      /\ \A d \in 1 .. n : clicks'[d] = clicks[d]
  BY <1>1, <1>3, <1>4
<1>6. PageOK' /\ PastOK'
  BY <1>1 DEF PageOK, PastOK
<1>7. ClicksOK'
  BY <1>1, <1>2, <1>3, <1>4, <1>5 DEF ClicksOK, PageOK
<1>8. /\ q.click = c /\ q.ask = posts[1] /\ q.reply = None /\ q \in RequestSet'
  <2>1. q.click = c /\ q.ask = posts[1] /\ q.reply = None /\ q.age = 0
    BY <1>0, NewRequest
  <2>2. c \in 0 .. Len(clicks')
    BY <1>4, <1>5
  <2> QED
    BY <1>0, <1>2, <2>1, <2>2, ClientAssumption DEF RequestSet, Request
<1>9. \A r \in requests : /\ r \in RequestSet' /\ r.click \in 0 .. n
                          /\ r.reply # None => Since(r.age)' <= r.reply.ver /\ r.reply.ver <= version'
  <2>1. RequestSet \subseteq RequestSet'
    BY <1>4, <1>5 DEF RequestSet
  <2> QED
    BY <1>1, <2>1, RequestFields DEF Since, RequestsOK
<1>10. RequestsOK'
  BY <1>1, <1>8, <1>9 DEF RequestsOK
<1>11. IsPost(q) /\ Sends(q.click, q.ask)' /\ clicks'[q.click].outcome = "open"
  BY <1>2, <1>3, <1>4, <1>5, <1>8 DEF IsPost, Sends
<1>12. ASSUME NEW r \in requests, IsPost(r)
       PROVE  /\ r.click \in 1 .. n /\ r.click # c
              /\ Sends(r.click, r.ask)' /\ clicks'[r.click].outcome = "open"
  <2>1. Sends(r.click, r.ask) /\ clicks[r.click].outcome = "open"
    BY <1>12 DEF PostsOK
  <2>2. r.click \in 1 .. n
    BY <1>5, <2>1 DEF Sends
  <2> QED
    BY <1>4, <1>5, <2>1, <2>2 DEF Sends
<1>13. PostsOK'
  <2>1. \A r \in requests' : IsPost(r) => Sends(r.click, r.ask)' /\ clicks'[r.click].outcome = "open"
    BY <1>1, <1>11, <1>12
  <2>2. \A r, p \in requests' : IsPost(r) /\ IsPost(p) /\ r.click = p.click => r = p
    BY <1>1, <1>8, <1>12 DEF PostsOK
  <2> QED
    BY <2>1, <2>2 DEF PostsOK, IsPost
<1>14. RefreshesOK'
  <2>1. q.ask # "refresh"
    BY <1>11 DEF IsPost, Posts
  <2>2. ASSUME NEW r \in requests, r.ask = "refresh", r.click > 0
        PROVE  /\ r.click \in DOMAIN clicks' /\ clicks'[r.click].outcome # "open"
               /\ r.reply # None => r.reply.ver >= clicks'[r.click].seen
    BY <1>4, <1>5, <2>2 DEF RefreshesOK
  <2> QED
    BY <1>1, <2>1, <2>2 DEF RefreshesOK
<1>15. OrphansOK'
  <2>1. \A o \in orphans : o \in (1 .. c) \X Posts /\ o[1] \in 1 .. n
    BY <1>4 DEF OrphansOK
  <2>2. \A o \in orphans : clicks'[o[1]].outcome = "cut" /\ Sends(o[1], o[2])'
    BY <1>4, <1>5, <2>1 DEF OrphansOK, Sends
  <2> QED
    BY <1>1, <1>5, <2>1, <2>2 DEF OrphansOK
<1>16. \A d \in 1 .. n : Waits(d)' <=> Waits(d)
  <2>1. \A d \in 1 .. n : d # c
    BY <1>4
  <2> QED
    BY <1>1, <1>8, <2>1 DEF Waits, IsPost
<1>17. Spent \subseteq Spent'
  <2> SUFFICES ASSUME NEW x \in Spent PROVE x \in Spent'
    OBVIOUS
  <2>1. x \in (1 .. n) \X (1 .. 2) /\ (x[2] < clicks[x[1]].next \/ (x[2] = clicks[x[1]].next /\ ~Waits(x[1])))
    BY DEF Spent
  <2>2. x \in (1 .. c) \X (1 .. 2) /\ x[1] \in 1 .. n
    BY <1>4, <2>1
  <2>3. clicks'[x[1]] = clicks[x[1]] /\ (Waits(x[1])' <=> Waits(x[1]))
    BY <1>5, <1>16, <2>2
  <2> QED
    BY <1>5, <2>1, <2>2, <2>3 DEF Spent
<1>18. VersionOK'
  BY <1>1, <1>7, <1>17, SpentStays, SpentSize DEF VersionOK, PageOK
<1> QED
  BY <1>6, <1>7, <1>10, <1>13, <1>14, <1>15, <1>18

\* The POST a click has come to, as an element of Spent, is spent once nothing
\* can bring it to the backend any more.
LEMMA ComesToNothing ==
  ASSUME ClicksOK, NEW c \in DOMAIN clicks, clicks[c].next <= Len(clicks[c].posts)
  PROVE  /\ <<c, clicks[c].next>> \in (1 .. Len(clicks)) \X (1 .. 2)
         /\ Waits(c) <=> <<c, clicks[c].next>> \notin Spent
<1>1. clicks[c] \in Clicks /\ c \in 1 .. Len(clicks)
  BY DEF ClicksOK
<1>2. clicks[c].next \in 1 .. 3 /\ Len(clicks[c].posts) \in 1 .. 2
  BY <1>1, ClickFields
<1>3. clicks[c].next \in 1 .. 2
  <2>1. \A m \in 1 .. 3, l \in 1 .. 2 : m <= l => m \in 1 .. 2
    OBVIOUS
  <2> QED
    BY <1>2, <2>1, Zenon
<1> QED
  BY <1>1, <1>3 DEF Spent

\* The POST of a page that has given it up.
LEMMA OrphanKeeps ==
  ASSUME ClientInv, NEW o \in orphans, OrphanArrives(o)
  PROVE  ClientInv'
<1> DEFINE c == o[1]
           x == <<c, clicks[c].next>>
<1> USE DEF ClientInv
<1>1. /\ UNCHANGED <<page, requests, clicks, shown, past>> /\ orphans' = orphans \ {o}
      /\ Process(o[2]) \/ UNCHANGED backendVars
  BY DEF OrphanArrives
<1>2. /\ o \in (1 .. Len(clicks)) \X Posts /\ o[2] \in Posts
      /\ clicks[c].outcome = "cut" /\ Sends(c, o[2])
  BY DEF OrphansOK
<1>3. /\ runtime' \in RuntimeStates /\ signals' \in BOOLEAN /\ progress' = progress
      /\ version' \in Nat /\ version <= version' /\ version' <= version + 1
  BY <1>1, <1>2, ProcessMoves
<1>4. PageOK' /\ PastOK' /\ ClicksOK'
  BY <1>1, <1>3, BackendMoves DEF PageOK
<1>5. RequestsOK'
  BY <1>1, <1>3, AnswersKept DEF RequestsOK
<1>6. PostsOK' /\ RefreshesOK' /\ OrphansOK'
  BY <1>1 DEF PostsOK, RefreshesOK, OrphansOK, Sends
<1>7. ~Waits(c)' /\ Waits(c) /\ \A d : Waits(d)' => Waits(d)
  <2>1. \A r \in requests : IsPost(r) => r.click # c
    BY <1>2 DEF PostsOK
  <2>2. ASSUME NEW p \in orphans, p[1] = c PROVE p = o
    <3>1. p \in (1 .. Len(clicks)) \X Posts /\ Sends(c, p[2])
      BY <2>2 DEF OrphansOK
    <3> QED
      BY <1>2, <2>2, <3>1 DEF Sends
  <2> QED
    BY <1>1, <2>1, <2>2 DEF Waits, IsPost
<1>8. Spent \subseteq Spent'
  BY <1>1, <1>7 DEF Spent
<1>9. x \notin Spent /\ x \in Spent'
  <2>1. x \in (1 .. Len(clicks)) \X (1 .. 2) /\ x \notin Spent
    BY <1>2, <1>7, ComesToNothing DEF Sends
  <2> QED
    BY <1>1, <1>7, <2>1 DEF Spent
<1>10. Cardinality(Spent) + 1 <= Cardinality(Spent')
  <2> HIDE DEF x
  <2> QED
    BY <1>4, <1>8, <1>9, SpentStays
<1>11. Cardinality(Spent) \in Nat /\ Cardinality(Spent') \in Nat
  BY <1>4, <1>8, SpentStays
<1>12. VersionOK'
  BY <1>3, <1>10, <1>11 DEF VersionOK, PageOK
<1> QED
  BY <1>4, <1>5, <1>6, <1>12

\* There is a number for every state the backend can come to.
LEMMA RoomLeft ==
  ASSUME PageOK, ClicksOK, VersionOK
  PROVE  /\ version \in Versions
         /\ \A x \in (1 .. Len(clicks)) \X (1 .. 2) : x \notin Spent => version + 1 \in Versions
<1> DEFINE n == Len(clicks)
           all == (1 .. n) \X (1 .. 2)
<1>1. n \in Nat /\ n <= MaxClicks
  BY DEF ClicksOK
<1>2. Cardinality(Spent) \in Nat /\ Cardinality(Spent) <= 2 * n
  BY SpentSize
<1>3. version \in Versions
  BY <1>1, <1>2, ClientAssumption DEF PageOK, VersionOK, Versions
<1>4. ASSUME NEW x \in all, x \notin Spent PROVE version + 1 \in Versions
  <2>1. IsFiniteSet(Spent)
    BY SpentSize
  <2>2. Cardinality(Spent \cup {x}) = Cardinality(Spent) + 1
    BY <1>4, <2>1, FS_AddElement
  <2>3. Spent \cup {x} \subseteq all
    BY DEF Spent
  <2>4. Cardinality(Spent \cup {x}) <= 2 * n /\ Cardinality(Spent \cup {x}) \in Nat
    <3>1. IsFiniteSet(all) /\ Cardinality(all) = 2 * n
      BY <1>1, PlacesCount
    <3> HIDE DEF all, n
    <3>2. /\ IsFiniteSet(Spent \cup {x})
          /\ Cardinality(Spent \cup {x}) <= Cardinality(all)
      BY <2>3, <3>1, FS_Subset
    <3>3. Cardinality(Spent \cup {x}) \in Nat
      BY <3>2, FS_CardinalityType
    <3> QED
      BY <3>1, <3>2, <3>3
  <2> QED
    BY <1>1, <1>2, <2>2, <2>4, ClientAssumption DEF PageOK, VersionOK, Versions
<1> QED
  BY <1>3, <1>4

\* An answered request, and the version it was answered from.
LEMMA AnswerFields ==
  ASSUME NEW r \in RequestSet, NEW x \in Replies
  PROVE  LET q == [r EXCEPT !.reply = x]
         IN  q \in RequestSet /\ q.click = r.click /\ q.ask = r.ask /\ q.age = r.age /\ q.reply = x
BY DEF RequestSet

LEMMA AnswerKeeps ==
  ASSUME ClientInv, NEW r \in requests, Answer(r)
  PROVE  ClientInv'
<1> DEFINE c == r.click
           x == <<c, clicks[c].next>>
<1> USE DEF ClientInv
<1>1. PICK reply : reply = [ok |-> r.ask \in Posts => Allowed(r.ask), ver |-> version']
  OBVIOUS
<1>2. PICK q : q = [r EXCEPT !.reply = reply]
  OBVIOUS
<1>3. /\ UNCHANGED <<page, orphans, clicks, shown, past>> /\ r.reply = None
      /\ requests' = (requests \ {r}) \cup {q}
      /\ IF r.ask \in Posts THEN Process(r.ask) ELSE UNCHANGED backendVars
  BY <1>1, <1>2 DEF Answer
<1>4. /\ runtime' \in RuntimeStates /\ signals' \in BOOLEAN /\ progress' = progress
      /\ version' \in Nat /\ version <= version' /\ version' <= version + 1
      /\ ~IsPost(r) => version' = version
  <2>1. CASE r.ask \in Posts
    BY <1>3, <2>1, ProcessMoves DEF IsPost
  <2>2. CASE r.ask \notin Posts
    BY <1>3, <2>2 DEF backendVars, PageOK
  <2> QED
    BY <2>1, <2>2
<1>5. PageOK' /\ PastOK' /\ ClicksOK'
  BY <1>3, <1>4, BackendMoves DEF PageOK
<1>6. IsPost(r) => /\ Sends(c, r.ask) /\ clicks[c].outcome = "open" /\ Waits(c)
                   /\ x \in (1 .. Len(clicks)) \X (1 .. 2) /\ x \notin Spent
  <2>1. IsPost(r) => Sends(c, r.ask) /\ clicks[c].outcome = "open" /\ Waits(c)
    BY <1>3 DEF PostsOK, Waits
  <2> QED
    BY <2>1, ComesToNothing DEF Sends
<1>7. version' \in Versions
  <2>1. version' = version \/ version' = version + 1
    BY <1>4 DEF PageOK
  <2>2. CASE IsPost(r)
    BY <1>6, <2>1, <2>2, RoomLeft
  <2>3. CASE ~IsPost(r)
    BY <1>4, <2>3, RoomLeft
  <2> QED
    BY <2>2, <2>3
<1>8. /\ q \in RequestSet /\ q.click = c /\ q.ask = r.ask /\ q.age = r.age
      /\ q.reply # None /\ q.reply.ver = version'
  <2>1. reply \in Replies /\ reply.ver = version'
    BY <1>1, <1>7 DEF Replies
  <2>2. r \in RequestSet
    BY DEF RequestsOK
  <2>3. q \in RequestSet /\ q.click = c /\ q.ask = r.ask /\ q.age = r.age /\ q.reply = reply
    BY <1>2, <2>1, <2>2, AnswerFields
  <2> QED
    BY <2>1, <2>3, NoneAssumption
<1>9. RequestsOK'
  <2>1. RequestSet' = RequestSet
    BY <1>3 DEF RequestSet
  <2>2. r.age \in 0 .. Timeout /\ Timeout \in Nat
    BY RequestFields, ClientAssumption
  <2>3. Since(r.age)' <= version'
    <3>1. Timeout + 1 - r.age \in 1 .. Timeout + 1
      BY <2>2
    <3>2. past[Timeout + 1 - r.age] \in Nat /\ past[Timeout + 1 - r.age] <= version
      BY <3>1 DEF PastOK
    <3> QED
      BY <1>3, <1>4, <3>2 DEF Since, PageOK
  <2>4. q \in RequestSet' /\ Since(q.age)' <= q.reply.ver /\ q.reply.ver <= version'
    BY <1>4, <1>8, <2>1, <2>3
  <2>5. \A p \in requests : /\ p \in RequestSet'
                            /\ p.reply # None => Since(p.age)' <= p.reply.ver /\ p.reply.ver <= version'
    BY <1>3, <1>4, AnswersKept
  <2> QED
    BY <1>3, <2>4, <2>5 DEF RequestsOK
<1>10. \A p \in requests' : IsPost(p) => \E s \in requests : /\ IsPost(s) /\ s.click = p.click
                                                             /\ s.ask = p.ask
                                                             /\ (p = s /\ s # r) \/ (p = q /\ s = r)
  BY <1>3, <1>8 DEF IsPost
<1>11. PostsOK'
  <2>1. ASSUME NEW p \in requests', IsPost(p)
        PROVE  Sends(p.click, p.ask)' /\ clicks'[p.click].outcome = "open"
    BY <1>3, <1>10, <2>1 DEF PostsOK, Sends
  <2>2. ASSUME NEW p \in requests', NEW s \in requests', IsPost(p), IsPost(s), p.click = s.click
        PROVE  p = s
    BY <1>10, <2>2 DEF PostsOK
  <2> QED
    BY <2>1, <2>2 DEF PostsOK, IsPost
<1>12. RefreshesOK'
  <2>1. ASSUME NEW p \in requests, p.ask = "refresh", p.click > 0
        PROVE  /\ p.click \in DOMAIN clicks /\ clicks[p.click].outcome # "open"
               /\ p.reply # None => p.reply.ver >= clicks[p.click].seen
    BY <2>1 DEF RefreshesOK
  <2>2. q.ask = "refresh" /\ q.click > 0 =>
          /\ q.click \in DOMAIN clicks /\ clicks[q.click].outcome # "open"
          /\ version' >= clicks[q.click].seen
    <3>1. \A d \in DOMAIN clicks : clicks[d].seen <= version /\ clicks[d].seen \in Nat
      BY ClickFields DEF ClicksOK
    <3>2. q.ask = "refresh" /\ q.click > 0 =>
            r.click \in DOMAIN clicks /\ clicks[r.click].outcome # "open"
      BY <1>8 DEF RefreshesOK
    <3> QED
      BY <1>4, <1>8, <3>1, <3>2 DEF PageOK
  <2> QED
    BY <1>3, <1>8, <2>1, <2>2 DEF RefreshesOK
<1>13. OrphansOK'
  BY <1>3 DEF OrphansOK, Sends
<1>14. \A d : Waits(d)' => Waits(d)
  BY <1>3, <1>8 DEF Waits, IsPost
<1>15. Spent \subseteq Spent'
  BY <1>3, <1>14 DEF Spent
<1>16. IsPost(r) => x \in Spent'
  <2> SUFFICES ASSUME IsPost(r) PROVE x \in Spent'
    OBVIOUS
  <2>1. \A o \in orphans : o[1] # c
    BY <1>6 DEF OrphansOK
  <2>2. \A p \in requests : IsPost(p) /\ p.click = c => p = r
    BY DEF PostsOK
  <2>3. ~Waits(c)'
    BY <1>3, <1>8, <2>1, <2>2 DEF Waits, IsPost
  <2> QED
    BY <1>3, <1>6, <2>3 DEF Spent
<1>17. /\ Cardinality(Spent) \in Nat /\ Cardinality(Spent') \in Nat
       /\ Cardinality(Spent) <= Cardinality(Spent')
       /\ IsPost(r) => Cardinality(Spent) + 1 <= Cardinality(Spent')
  <2> HIDE DEF x
  <2> QED
    BY <1>5, <1>6, <1>15, <1>16, SpentStays
<1>18. VersionOK'
  <2>1. CASE IsPost(r)
    BY <1>4, <1>17, <2>1 DEF VersionOK, PageOK
  <2>2. CASE ~IsPost(r)
    BY <1>4, <1>17, <2>2 DEF VersionOK, PageOK
  <2> QED
    BY <2>1, <2>2
<1> QED
  BY <1>5, <1>9, <1>11, <1>12, <1>13, <1>18

\* A refresh that is shown or dropped leaves nothing behind.
LEMMA RefreshGone ==
  ASSUME ClientInv, NEW r \in requests, r.ask = "refresh", requests' = requests \ {r},
         UNCHANGED <<page, backendVars, orphans, clicks, past>>, shown' \in 0 .. version
  PROVE  ClientInv'
<1> USE DEF ClientInv
<1>1. UNCHANGED <<page, runtime, signals, version, progress, orphans, clicks, past>>
  BY DEF backendVars
<1>2. PageOK' /\ PastOK' /\ ClicksOK' /\ OrphansOK'
  BY <1>1 DEF PageOK, PastOK, ClicksOK, OrphansOK, Sends
<1>3. RequestsOK'
  BY <1>1 DEF RequestsOK, RequestSet, Since
<1>4. PostsOK' /\ RefreshesOK'
  BY <1>1 DEF PostsOK, RefreshesOK, Sends, IsPost
<1>5. \A d : Waits(d)' <=> Waits(d)
  <2>1. ~IsPost(r)
    BY DEF IsPost, Posts
  <2> QED
    BY <1>1, <2>1 DEF Waits, IsPost
<1>6. Spent' = Spent
  BY <1>1, <1>5 DEF Spent
<1> QED
  BY <1>1, <1>2, <1>3, <1>4, <1>6 DEF VersionOK

LEMMA ShowKeeps ==
  ASSUME ClientInv, NEW r \in requests, Show(r) \/ Drop(r)
  PROVE  ClientInv'
<1>1. CASE Show(r)
  <2>1. shown' \in 0 .. version
    BY <1>1, RequestFields DEF ClientInv, Show, PageOK
  <2> QED
    BY <1>1, <2>1, RefreshGone DEF Show
<1>2. CASE Drop(r)
  BY <1>2, RefreshGone DEF ClientInv, Drop, PageOK
<1> QED
  BY <1>1, <1>2

\* A POST comes to its end in the browser: its button goes on to the next, or is
\* through and refreshes.
LEMMA ButtonSteps ==
  ASSUME ClientInv, NEW r \in requests, IsPost(r), NEW k \in Clicks, NEW new, NEW gone,
         UNCHANGED <<page, backendVars, shown, past>>,
         k.posts = clicks[r.click].posts, k.svc = clicks[r.click].svc, k.seen <= version,
         clicks' = [clicks EXCEPT ![r.click] = k],
         requests' = (requests \ {r}) \cup new, orphans' = orphans \cup gone,
         \/ k.next = clicks[r.click].next
         \/ k.next = clicks[r.click].next + 1 /\ r.reply # None,
         k.outcome # "open" => new \subseteq {Refresh(r.click)},
         k.outcome = "open" => /\ k.next = clicks[r.click].next + 1 /\ k.next <= Len(k.posts)
                               /\ new = {Request(r.click, k.posts[k.next])},
         gone # {} => /\ gone = {<<r.click, r.ask>>} /\ r.reply = None
                      /\ k.outcome = "cut" /\ k.next = clicks[r.click].next
  PROVE  ClientInv'
<1> USE DEF ClientInv
<1>0. PICK c : c = r.click
  OBVIOUS
<1>1. /\ UNCHANGED <<page, runtime, signals, version, progress, shown, past>>
      /\ c \in DOMAIN clicks /\ clicks[c] \in Clicks /\ clicks[c].outcome = "open"
      /\ clicks[c].next <= Len(clicks[c].posts) /\ r.ask = clicks[c].posts[clicks[c].next]
      /\ clicks \in Seq(Clicks) /\ DOMAIN clicks = 1 .. Len(clicks) /\ Len(clicks) \in Nat
  BY <1>0 DEF PostsOK, Sends, ClicksOK, backendVars
<1>2. /\ clicks' \in Seq(Clicks) /\ Len(clicks') = Len(clicks) /\ DOMAIN clicks' = DOMAIN clicks
      /\ clicks'[c] = k /\ \A d \in DOMAIN clicks : d # c => clicks'[d] = clicks[d]
  BY <1>0, <1>1
<1>3. /\ clicks[c].next \in 1 .. 3 /\ k.next \in 1 .. 3 /\ k.seen \in Nat
      /\ k.posts \in Seq(Posts) /\ Len(k.posts) \in 1 .. 2
      /\ clicks[c].next <= k.next
      /\ k.next = clicks[c].next \/ (k.next = clicks[c].next + 1 /\ r.reply # None)
  BY <1>0, <1>1, ClickFields
<1>4. PageOK' /\ PastOK'
  BY <1>1 DEF PageOK, PastOK
<1>5. ClicksOK'
  BY <1>1, <1>2 DEF ClicksOK
<1>6. \A p \in new : /\ p.click = c /\ p.reply = None /\ p.age = 0
                     /\ p \in RequestSet
                     /\ p.ask = "refresh" => k.outcome # "open"
                     /\ IsPost(p) => /\ k.outcome = "open" /\ new = {p} /\ k.next <= Len(k.posts)
                                     /\ p.ask = k.posts[k.next]
  <2> SUFFICES ASSUME NEW p \in new
               PROVE  /\ p.click = c /\ p.reply = None /\ p.age = 0
                      /\ p \in RequestSet
                      /\ p.ask = "refresh" => k.outcome # "open"
                      /\ IsPost(p) => /\ k.outcome = "open" /\ new = {p} /\ k.next <= Len(k.posts)
                                      /\ p.ask = k.posts[k.next]
    OBVIOUS
  <2>0. c \in 0 .. Len(clicks) /\ "refresh" \notin Posts
    BY <1>1 DEF Posts
  <2>1. CASE k.outcome = "open"
    <3>1. /\ new = {p} /\ p = Request(c, k.posts[k.next]) /\ k.next \in 1 .. Len(k.posts)
      BY <1>0, <1>3, <2>1
    <3>2. k.posts[k.next] \in Posts
      BY <1>3, <3>1
    <3> QED
      BY <2>0, <2>1, <3>1, <3>2, NewRequest DEF IsPost
  <2>2. CASE k.outcome # "open"
    <3>1. p = Request(c, "refresh")
      BY <1>0, <2>2 DEF Refresh
    <3> QED
      BY <2>0, <2>2, <3>1, NewRequest DEF IsPost
  <2> QED
    BY <2>1, <2>2
<1>7. RequestsOK'
  <2>1. RequestSet' = RequestSet
    BY <1>2 DEF RequestSet
  <2>2. \A p \in requests : /\ p \in RequestSet
                            /\ p.reply # None => Since(p.age)' <= p.reply.ver /\ p.reply.ver <= version'
    BY <1>1 DEF RequestsOK, Since
  <2> QED
    BY <1>6, <2>1, <2>2 DEF RequestsOK
<1>8. \A p \in requests : IsPost(p) /\ p # r =>
        /\ p.click # c /\ p.click \in DOMAIN clicks
        /\ Sends(p.click, p.ask)' /\ clicks'[p.click].outcome = "open"
  <2> SUFFICES ASSUME NEW p \in requests, IsPost(p), p # r
               PROVE  /\ p.click # c /\ p.click \in DOMAIN clicks
                      /\ Sends(p.click, p.ask)' /\ clicks'[p.click].outcome = "open"
    OBVIOUS
  <2>1. p.click # c /\ Sends(p.click, p.ask) /\ clicks[p.click].outcome = "open"
    BY <1>0 DEF PostsOK
  <2> QED
    BY <1>2, <2>1 DEF Sends
<1>9. PostsOK'
  <2>1. \A p \in new : IsPost(p) => Sends(p.click, p.ask)' /\ clicks'[p.click].outcome = "open"
    BY <1>1, <1>2, <1>6 DEF Sends
  <2>2. \A p \in requests' : IsPost(p) => Sends(p.click, p.ask)' /\ clicks'[p.click].outcome = "open"
    BY <1>8, <2>1
  <2>3. \A p, q \in requests' : IsPost(p) /\ IsPost(q) /\ p.click = q.click => p = q
    BY <1>6, <1>8 DEF PostsOK
  <2> QED
    BY <2>2, <2>3 DEF PostsOK, IsPost
<1>10. RefreshesOK'
  <2>1. ASSUME NEW p \in requests, p.ask = "refresh", p.click > 0
        PROVE  /\ p.click \in DOMAIN clicks' /\ clicks'[p.click].outcome # "open"
               /\ p.reply # None => p.reply.ver >= clicks'[p.click].seen
    BY <1>1, <1>2, <2>1 DEF RefreshesOK
  <2>2. ASSUME NEW p \in new, p.ask = "refresh"
        PROVE  /\ p.click \in DOMAIN clicks' /\ clicks'[p.click].outcome # "open"
               /\ p.reply = None
    BY <1>1, <1>2, <1>6, <2>2
  <2> QED
    BY <2>1, <2>2 DEF RefreshesOK
<1>11. \A o \in orphans : o[1] # c
  BY <1>1 DEF OrphansOK
<1>12. OrphansOK'
  <2>1. \A o \in orphans : /\ o \in (1 .. Len(clicks)) \X Posts
                           /\ clicks'[o[1]].outcome = "cut" /\ Sends(o[1], o[2])'
    <3>1. ASSUME NEW o \in orphans
          PROVE  /\ o \in (1 .. Len(clicks)) \X Posts
                 /\ clicks'[o[1]].outcome = "cut" /\ Sends(o[1], o[2])'
      <4>1. o \in (1 .. Len(clicks)) \X Posts /\ clicks[o[1]].outcome = "cut" /\ Sends(o[1], o[2])
        BY DEF OrphansOK
      <4>2. clicks'[o[1]] = clicks[o[1]] /\ o[1] \in DOMAIN clicks'
        BY <1>1, <1>2, <1>11, <4>1
      <4> QED
        BY <4>1, <4>2 DEF Sends
    <3> QED
      BY <3>1
  <2>2. \A o \in gone : /\ o \in (1 .. Len(clicks)) \X Posts
                        /\ clicks'[o[1]].outcome = "cut" /\ Sends(o[1], o[2])'
    <3>1. ASSUME NEW o \in gone
          PROVE  /\ o \in (1 .. Len(clicks)) \X Posts
                 /\ clicks'[o[1]].outcome = "cut" /\ Sends(o[1], o[2])'
      <4>1. o = <<c, r.ask>> /\ k.outcome = "cut" /\ k.next = clicks[c].next /\ r.ask \in Posts
        BY <1>0, <3>1 DEF IsPost
      <4> QED
        BY <1>0, <1>1, <1>2, <4>1 DEF Sends
    <3> QED
      BY <3>1
  <2> QED
    BY <1>2, <2>1, <2>2 DEF OrphansOK
<1>13. \A d : d # c => (Waits(d)' <=> Waits(d))
  <2>1. \A o \in gone : o[1] = c
    BY <1>0
  <2> QED
    BY <1>0, <1>6, <2>1 DEF Waits, IsPost
<1>14. r.reply = None => Waits(c)
  BY <1>0 DEF Waits
<1>15. \A p \in requests : IsPost(p) /\ p.click = c => p = r
  BY <1>0 DEF PostsOK
<1>16. r.reply # None /\ k.next = clicks[c].next => ~Waits(c)'
  BY <1>0, <1>3, <1>6, <1>11, <1>15 DEF Waits, IsPost
<1>17. Spent \subseteq Spent'
  <2> SUFFICES ASSUME NEW x \in Spent PROVE x \in Spent'
    OBVIOUS
  <2>1. /\ x \in (1 .. Len(clicks)) \X (1 .. 2) /\ x[1] \in DOMAIN clicks /\ x[2] \in 1 .. 2
        /\ x[2] < clicks[x[1]].next \/ (x[2] = clicks[x[1]].next /\ ~Waits(x[1]))
    BY <1>1 DEF Spent
  <2>2. CASE x[1] # c
    BY <1>2, <1>13, <2>1, <2>2 DEF Spent
  <2>3. CASE x[1] = c
    <3>1. x[2] < clicks[c].next \/ (x[2] = clicks[c].next /\ r.reply # None)
      BY <1>14, <2>1, <2>3
    <3>2. x[2] < k.next \/ (x[2] = k.next /\ ~Waits(c)')
      BY <1>3, <1>16, <2>1, <3>1
    <3> QED
      BY <1>2, <2>1, <2>3, <3>2 DEF Spent
  <2> QED
    BY <2>2, <2>3
<1>18. VersionOK'
  BY <1>1, <1>5, <1>17, SpentStays DEF VersionOK, PageOK
<1> QED
  BY <1>4, <1>5, <1>7, <1>9, <1>10, <1>12, <1>18

LEMMA AdvanceKeeps ==
  ASSUME ClientInv, NEW r \in requests, Advance(r)
  PROVE  ClientInv'
<1> USE DEF ClientInv
<1>1. PICK c : c = r.click
  OBVIOUS
<1>2. PICK next : next = clicks[c].next + 1
  OBVIOUS
<1>3. PICK more \in BOOLEAN : more = (r.reply.ok /\ next <= Len(clicks[c].posts))
  OBVIOUS
<1>4. PICK k : k = [clicks[c] EXCEPT
                      !.next = IF r.reply.ok THEN next ELSE clicks[c].next,
                      !.outcome = IF more THEN clicks[c].outcome
                                  ELSE IF r.reply.ok THEN "done" ELSE "conflict",
                      !.seen = r.reply.ver]
  OBVIOUS
<1>5. PICK new : new = IF more THEN {Request(c, clicks[c].posts[next])} ELSE RefreshAfter(c)
  OBVIOUS
<1>6. /\ IsPost(r) /\ r.reply # None /\ UNCHANGED <<page, backendVars, orphans, shown, past>>
      /\ clicks' = [clicks EXCEPT ![c] = k] /\ requests' = (requests \ {r}) \cup new
  <2>1. /\ IsPost(r) /\ r.reply # None /\ UNCHANGED <<page, backendVars, orphans, shown, past>>
        /\ requests' = (requests \ {r}) \cup new
    BY <1>1, <1>2, <1>3, <1>5 DEF Advance, IsPost
  <2>2. c \in DOMAIN clicks /\ clicks \in Seq(Clicks) /\ clicks[c] \in Clicks
    BY <1>1, <2>1 DEF PostsOK, Sends, ClicksOK
  <2>3. clicks' = [clicks EXCEPT
          ![c].next = IF r.reply.ok THEN next ELSE clicks[c].next,
          ![c].outcome = IF more THEN clicks[c].outcome ELSE IF r.reply.ok THEN "done" ELSE "conflict",
          ![c].seen = r.reply.ver]
    BY <1>1, <1>2, <1>3, <2>2 DEF Advance, Clicks
  <2> QED
    BY <1>4, <2>1, <2>2, <2>3 DEF Clicks
<1>7. /\ c \in DOMAIN clicks /\ clicks[c].outcome = "open" /\ clicks[c] \in Clicks
      /\ clicks[c].next <= Len(clicks[c].posts)
  BY <1>1, <1>6 DEF PostsOK, Sends, ClicksOK
<1>8. /\ r.reply.ver \in Versions /\ r.reply.ver <= version /\ r.reply.ok \in BOOLEAN
      /\ clicks[c].next \in 1 .. 3 /\ Len(clicks[c].posts) \in 1 .. 2
  BY <1>6, <1>7, RequestFields, ClickFields DEF Replies
<1>9. next \in 1 .. 3
  <2>1. \A m \in 1 .. 3, l \in 1 .. 2 : m <= l => m + 1 \in 1 .. 3
    OBVIOUS
  <2> QED
    BY <1>2, <1>7, <1>8, <2>1
<1>10. /\ k \in Clicks /\ k.posts = clicks[c].posts /\ k.svc = clicks[c].svc
       /\ k.seen = r.reply.ver
       /\ k.next = IF r.reply.ok THEN next ELSE clicks[c].next
       /\ k.outcome = IF more THEN clicks[c].outcome ELSE IF r.reply.ok THEN "done" ELSE "conflict"
  BY <1>4, <1>7, <1>8, <1>9 DEF Clicks
<1>11. k.outcome = "open" <=> more
  BY <1>7, <1>10
<1>12. /\ more => r.reply.ok /\ k.next = next /\ next <= Len(k.posts)
                  /\ new = {Request(c, k.posts[k.next])}
       /\ ~more => new \subseteq {Refresh(c)}
  BY <1>3, <1>5, <1>10 DEF RefreshAfter
<1>13. orphans' = orphans \cup {}
  BY <1>6
<1>14. k.next = clicks[c].next \/ (k.next = clicks[c].next + 1 /\ r.reply # None)
  BY <1>2, <1>6, <1>10
<1>15. k.outcome = "open" => /\ k.next = clicks[c].next + 1 /\ k.next <= Len(k.posts)
                             /\ new = {Request(c, k.posts[k.next])}
  BY <1>2, <1>11, <1>12
<1>16. k.outcome # "open" => new \subseteq {Refresh(c)}
  BY <1>11, <1>12
<1> QED
  BY <1>1, <1>6, <1>8, <1>10, <1>13, <1>14, <1>15, <1>16, ButtonSteps

LEMMA LoseKeeps ==
  ASSUME ClientInv, NEW r \in requests, Lose(r)
  PROVE  ClientInv'
<1> USE DEF ClientInv
<1>1. PICK c : c = r.click
  OBVIOUS
<1>2. PICK k : k = [clicks[c] EXCEPT !.outcome = "cut"]
  OBVIOUS
<1>3. PICK new : new = RefreshAfter(c)
  OBVIOUS
<1>4. PICK gone : gone = IF r.reply = None THEN {<<c, r.ask>>} ELSE {}
  OBVIOUS
<1>5. /\ IsPost(r) /\ UNCHANGED <<page, backendVars, shown, past>>
      /\ requests' = (requests \ {r}) \cup new /\ orphans' = orphans \cup gone
      /\ clicks' = [clicks EXCEPT ![c] = k]
  BY <1>1, <1>2, <1>3, <1>4 DEF Lose, IsPost
<1>6. c \in DOMAIN clicks /\ clicks[c] \in Clicks /\ clicks[c].seen <= version
  BY <1>1, <1>5 DEF PostsOK, Sends, ClicksOK
<1>7. /\ k \in Clicks /\ k.posts = clicks[c].posts /\ k.svc = clicks[c].svc
      /\ k.seen = clicks[c].seen /\ k.next = clicks[c].next /\ k.outcome = "cut"
  BY <1>2, <1>6 DEF Clicks
<1>8. new \subseteq {Refresh(c)}
  BY <1>3 DEF RefreshAfter
<1> QED
  BY <1>1, <1>4, <1>5, <1>6, <1>7, <1>8, ButtonSteps

LEMMA ClientStarts ==
  ASSUME ClientInit
  PROVE  ClientInv
<1>1. /\ page \in Services /\ runtime \in RuntimeStates /\ signals \in BOOLEAN
      /\ version = 1 /\ progress = 0 /\ requests = {Refresh(0)} /\ orphans = {}
      /\ clicks = <<>> /\ shown = 0 /\ past = [i \in 1 .. Timeout + 1 |-> 1]
  BY DEF ClientInit
<1>2. /\ Refresh(0).click = 0 /\ Refresh(0).ask = "refresh" /\ Refresh(0).reply = None
      /\ 0 \in 0 .. Len(clicks) => Refresh(0) \in RequestSet
  BY NewRequest DEF Refresh
<1>3. /\ clicks \in Seq(Clicks) /\ Len(clicks) = 0 /\ DOMAIN clicks = {} /\ 0 \in 0 .. Len(clicks)
  BY <1>1
<1>4. PageOK
  BY <1>1, ClientAssumption DEF PageOK
<1>5. PastOK
  <2>1. Timeout + 1 \in Nat
    BY ClientAssumption
  <2>2. past \in Seq(Nat) /\ Len(past) = Timeout + 1 /\ version = 1
    BY <1>1, <2>1
  <2>3. \A i \in 1 .. Timeout + 1 : past[i] = 1
    BY <1>1
  <2>4. /\ \A i \in 1 .. Timeout + 1 : past[i] <= version
        /\ \A i, j \in 1 .. Timeout + 1 : past[i] <= past[j]
    BY <2>2, <2>3
  <2> QED
    BY <2>2, <2>4 DEF PastOK
<1>6. RequestsOK /\ RefreshesOK
  BY <1>1, <1>2, <1>3 DEF RequestsOK, RefreshesOK
<1>7. ClicksOK
  BY <1>3, ClientAssumption DEF ClicksOK
<1>8. PostsOK
  <2>1. ~IsPost(Refresh(0))
    BY <1>2 DEF IsPost, Posts
  <2> QED
    BY <1>1, <2>1 DEF PostsOK
<1>9. OrphansOK
  BY <1>1 DEF OrphansOK
<1>10. VersionOK
  BY <1>1, <1>7, SpentSize DEF VersionOK
<1> QED
  BY <1>4, <1>5, <1>6, <1>7, <1>8, <1>9, <1>10 DEF ClientInv

LEMMA ClientSteps ==
  ASSUME ClientInv, [ClientNext]_clientVars
  PROVE  ClientInv'
<1>1. CASE EngineMoves
  BY <1>1, EnginesKeep
<1>2. CASE Tick
  BY <1>2, TickKeeps
<1>3. CASE \E s \in Services : \E posts \in Buttons(s) : Click(s, posts)
  BY <1>3, ClickKeeps
<1>4. CASE \E o \in orphans : OrphanArrives(o)
  BY <1>4, OrphanKeeps
<1>5. CASE \E r \in requests : Answer(r)
  BY <1>5, AnswerKeeps
<1>6. CASE \E r \in requests : Show(r) \/ Drop(r)
  BY <1>6, ShowKeeps
<1>7. CASE \E r \in requests : Advance(r)
  BY <1>7, AdvanceKeeps
<1>8. CASE \E r \in requests : Lose(r)
  BY <1>8, LoseKeeps
<1>9. CASE UNCHANGED clientVars
  BY <1>9 DEF clientVars, backendVars, ClientInv, PageOK, PastOK, RequestsOK, RequestSet, Since,
       ClicksOK, PostsOK, IsPost, RefreshesOK, OrphansOK, Sends, VersionOK, Spent, Waits
<1> QED
  BY <1>1, <1>2, <1>3, <1>4, <1>5, <1>6, <1>7, <1>8, <1>9 DEF ClientNext

\* A button that is not through waits for exactly one POST, every answer lies
\* between its request and the present, and no state of the backend comes from
\* anything but an engine or a POST of its own.
THEOREM ClientInvariant == ClientSpec => []ClientInv
<1>1. ClientInit => ClientInv
  BY ClientStarts
<1>2. ClientInv /\ [ClientNext]_clientVars => ClientInv'
  BY ClientSteps
<1> QED
  BY <1>1, <1>2, PTL DEF ClientSpec

LEMMA ClientTyped ==
  ASSUME ClientInv
  PROVE  ClientTypeOK
<1> USE DEF ClientInv
<1>1. version \in Versions
  BY RoomLeft
<1>2. orphans \subseteq (1 .. MaxClicks) \X Posts
  <2>1. Len(clicks) \in Nat /\ Len(clicks) <= MaxClicks /\ MaxClicks \in Nat
    BY ClientAssumption DEF ClicksOK
  <2>2. \A d \in 1 .. Len(clicks) : d \in 1 .. MaxClicks
    BY <2>1
  <2> QED
    BY <2>2 DEF OrphansOK
<1>3. \A c \in DOMAIN clicks : clicks[c] \in Clicks
  BY DEF ClicksOK
<1>4. \A r \in requests :
       /\ r.click \in 0 .. Len(clicks) /\ r.ask \in Posts \cup {"refresh"}
       /\ r.age \in 0 .. Timeout /\ r.reply \in Replies \cup {None}
  BY RequestFields
<1> QED
  BY <1>1, <1>2, <1>3, <1>4 DEF ClientTypeOK, PageOK, PastOK

\* Nothing changes the display but the answer to a refresh.
LEMMA ShownByShow ==
  ASSUME [ClientNext]_clientVars, shown' # shown
  PROVE  \E r \in requests : Show(r)
BY DEF ClientNext, clientVars, EngineMoves, Tick, Click, OrphanArrives, Answer, Advance, Lose, Drop

\* Polls overlap and are shown in the order they come back, so the display may
\* go back; but never beyond what the backend had left behind a timeout before.
THEOREM PagesShowRecent == ClientSpec => ShowsRecent
<1>1. ClientInv /\ [ClientNext]_clientVars => [shown' # shown => shown' >= past[1]]_clientVars
  <2> SUFFICES ASSUME ClientInv, [ClientNext]_clientVars, shown' # shown
               PROVE  shown' >= past[1]
    OBVIOUS
  <2>1. PICK r \in requests : Show(r)
    BY ShownByShow
  <2>2. r.reply # None /\ shown' = r.reply.ver
    BY <2>1 DEF Show
  <2>3. /\ Since(r.age) <= r.reply.ver /\ r.reply.ver \in Nat
        /\ r.age \in 0 .. Timeout /\ Timeout \in Nat
    BY <2>2, RequestFields, ClientAssumption DEF ClientInv
  <2>4. /\ Timeout + 1 - r.age \in 1 .. Timeout + 1 /\ 1 \in 1 .. Timeout + 1
        /\ 1 <= Timeout + 1 - r.age
    BY <2>3
  <2>5. past[1] <= Since(r.age) /\ past[1] \in Nat /\ Since(r.age) \in Nat
    BY <2>4 DEF ClientInv, PastOK, Since
  <2> QED
    BY <2>2, <2>3, <2>5
<1>2. ClientInv => ClientTypeOK
  BY ClientTyped
<1> QED
  BY <1>1, <1>2, ClientInvariant, PTL DEF ClientSpec, ShowsRecent

\* Once a button's own refresh is shown the button is through and the display
\* knows of every answer it got.
THEOREM ClicksAreReflected == ClientSpec => ReflectsClick
<1>1. ClientInv /\ [ClientNext]_clientVars =>
        [\A r \in requests : r.click > 0 /\ Show(r) =>
           clicks[r.click].outcome # "open" /\ shown' >= clicks[r.click].seen]_clientVars
  BY DEF ClientInv, RefreshesOK, Show
<1> QED
  BY <1>1, ClientInvariant, PTL DEF ClientSpec, ReflectsClick

=============================================================================
