----------------------------- MODULE LiveProofs -----------------------------
(***************************************************************************)
(* Proofs about the live mode's two state machines, which share no state:  *)
(* LiveOrders and LiveSession.                                             *)
(*                                                                         *)
(* Orders.  The inductive invariant OrdersInv adds to the checked ones     *)
(* what ties the order being submitted to its placements (how many its     *)
(* failures so far allow, which one is being read) and, for every order    *)
(* that is done, the finished placement its position came from.            *)
(*                                                                         *)
(* Sessions.  What holds whatever the operators call, in whatever order    *)
(* the steps of their calls, the feed's thread and the engine's thread     *)
(* interleave, for any number of sessions, operators and candles.  Nothing *)
(* but the table of transitions orders the calls, so LiveInv says of each  *)
(* session only what its two threads rely on, and of each call that it is  *)
(* made of steps a LiveSession method takes.                               *)
(***************************************************************************)
EXTENDS LiveOrders, LiveSession, FiniteSetTheorems, TLAPS

-----------------------------------------------------------------------------
(* Orders: the inductive invariant *)

\* The position of order o is what the broker filled of one of its placements.
Adopted(o) ==
  \E k \in PlacementsOf(o) : placed[k].status # "OPEN" /\ opened[o] = placed[k].filled

\* The order being submitted has no more placements than its failures account for.
Submitting ==
  point \in {"placing", "reading"} =>
    /\ Current > 0
    /\ orders[Current].status = "SUBMITTED"
    /\ attempt <= MaxOrderRetries
    /\ Cardinality(PlacementsOf(Current)) <= attempt + (IF point = "placing" THEN 0 ELSE 1)
    /\ point = "reading" => kiteId \in PlacementsOf(Current)

\* Every order that is done, in a way that did not end the engine, has been adopted.
Settled ==
  \A o \in DOMAIN orders : (o # Current \/ point = "idle") => Adopted(o)

\* The broker holds only orders the engine has created.
Known == \A k \in DOMAIN placed : placed[k].order \in DOMAIN orders

OrdersInv ==
  OrdersTypeOK /\ Known /\ Submitting /\ Settled /\ RecordIsTrue /\ PlacementsBounded

-----------------------------------------------------------------------------
(* The broker's book *)

LEMMA PlacementsFinite ==
  ASSUME OrdersTypeOK, NEW o
  PROVE  IsFiniteSet(PlacementsOf(o)) /\ Cardinality(PlacementsOf(o)) \in Nat
<1>1. IsFiniteSet(1 .. Len(placed))
  BY FS_Interval DEF OrdersTypeOK
<1>2. PlacementsOf(o) \in SUBSET (1 .. Len(placed))
  BY DEF PlacementsOf, OrdersTypeOK
<1> QED
  BY <1>1, <1>2, FS_Subset, FS_CardinalityType

\* Whatever happens, the broker only adds orders and leaves finished ones alone.
BookKept ==
  /\ placed' \in Seq(Placement) /\ Len(placed') \in Nat
  /\ Len(placed) <= Len(placed')
  /\ \A k \in DOMAIN placed :
       /\ k \in DOMAIN placed'
       /\ placed'[k].order = placed[k].order
       /\ placed[k].status # "OPEN" => placed'[k] = placed[k]

LEMMA KeptUnchanged ==
  ASSUME OrdersTypeOK, UNCHANGED placed
  PROVE  BookKept
  BY DEF BookKept, OrdersTypeOK

LEMMA KeptByAccept ==
  ASSUME OrdersTypeOK, AcceptOrder
  PROVE  /\ BookKept
         /\ Len(placed') = Len(placed) + 1 /\ placed'[Len(placed) + 1].order = Current
         /\ \A k \in DOMAIN placed : placed'[k] = placed[k]
         /\ \A o : PlacementsOf(o)' =
                     PlacementsOf(o) \cup (IF o = Current THEN {Len(placed) + 1} ELSE {})
<1> DEFINE new == [order |-> Current, status |-> "OPEN", filled |-> 0]
<1>1. placed \in Seq(Placement) /\ Current \in Nat /\ new \in Placement
  BY OrdersAssumption DEF OrdersTypeOK, Placement, KiteStatus, Current
<1>2. placed' = Append(placed, new)
  BY DEF AcceptOrder
<1>3. new.order = Current
  OBVIOUS
<1> HIDE DEF new
<1>4. /\ placed' \in Seq(Placement) /\ Len(placed') = Len(placed) + 1
      /\ placed'[Len(placed) + 1] = new
      /\ \A k \in DOMAIN placed : k \in DOMAIN placed' /\ placed'[k] = placed[k]
  BY <1>1, <1>2
<1>5. DOMAIN placed = 1 .. Len(placed) /\ DOMAIN placed' = 1 .. Len(placed) + 1
  BY <1>1, <1>4
<1>6. \A o : PlacementsOf(o)' =
               PlacementsOf(o) \cup (IF o = Current THEN {Len(placed) + 1} ELSE {})
  BY <1>1, <1>3, <1>4, <1>5 DEF PlacementsOf
<1> QED
  BY <1>1, <1>3, <1>4, <1>6 DEF BookKept

LEMMA KeptByWorks ==
  ASSUME OrdersTypeOK, NEW k \in DOMAIN placed, Works(k)
  PROVE  BookKept /\ \A o : PlacementsOf(o)' = PlacementsOf(o)
<1>1. PICK filled \in placed[k].filled .. Quantity, status \in KiteStatus :
        placed' = [placed EXCEPT ![k].filled = filled, ![k].status = status]
  BY DEF Works
<1> DEFINE P == [placed[k] EXCEPT !.filled = filled, !.status = status]
<1>2. placed[k] \in Placement /\ k \in 1 .. Len(placed) /\ placed[k].status = "OPEN"
  BY DEF OrdersTypeOK, Works
<1>3. P \in Placement /\ P.order = placed[k].order
  <2>1. placed[k].filled \in 0 .. Quantity /\ placed[k].order \in Nat
    BY <1>2 DEF Placement
  <2>2. filled \in 0 .. Quantity
    BY <2>1, OrdersAssumption
  <2> DEFINE R == placed[k]
             F == [R EXCEPT !.filled = filled]
  <2>3. R \in Placement
    BY <1>2
  <2> HIDE DEF R
  <2>4. F \in Placement /\ F.order = R.order
    BY <2>2, <2>3 DEF Placement
  <2> DEFINE G == [F EXCEPT !.status = status]
  <2>5. P = G
    BY DEF R
  <2> HIDE DEF F
  <2>6. G \in Placement /\ G.order = F.order
    BY <2>4 DEF Placement
  <2> QED
    BY <2>4, <2>5, <2>6 DEF R
<1>4. placed' = [placed EXCEPT ![k] = P]
  BY <1>1
<1> HIDE DEF P
<1>5. /\ placed' \in Seq(Placement) /\ Len(placed') = Len(placed) /\ DOMAIN placed' = DOMAIN placed
      /\ placed'[k] = P /\ \A j \in DOMAIN placed : j # k => placed'[j] = placed[j]
  BY <1>2, <1>3, <1>4 DEF OrdersTypeOK
<1>6. \A o : PlacementsOf(o)' = PlacementsOf(o)
  BY <1>3, <1>5 DEF PlacementsOf
<1> QED
  BY <1>2, <1>3, <1>5, <1>6 DEF BookKept, OrdersTypeOK

LEMMA AcceptCounts ==
  ASSUME OrdersTypeOK, AcceptOrder, NEW o
  PROVE  Cardinality(PlacementsOf(o)') =
           Cardinality(PlacementsOf(o)) + (IF o = Current THEN 1 ELSE 0)
<1>1. PlacementsOf(o)' = PlacementsOf(o) \cup (IF o = Current THEN {Len(placed) + 1} ELSE {})
  BY KeptByAccept
<1>2. Len(placed) + 1 \notin PlacementsOf(o)
  BY DEF OrdersTypeOK, PlacementsOf
<1>3. IsFiniteSet(PlacementsOf(o)) /\ Cardinality(PlacementsOf(o)) \in Nat
  BY PlacementsFinite
<1>4. CASE o = Current
  BY <1>1, <1>2, <1>3, <1>4, FS_AddElement
<1>5. CASE o # Current
  <2>1. PlacementsOf(o)' = PlacementsOf(o)
    BY <1>1, <1>5
  <2> QED
    BY <1>3, <1>5, <2>1
<1> QED
  BY <1>4, <1>5

\* What has been adopted or recorded stays so.
LEMMA AdoptedStays ==
  ASSUME BookKept, NEW o \in DOMAIN opened, Adopted(o), opened'[o] = opened[o]
  PROVE  Adopted(o)'
  BY DEF Adopted, BookKept, PlacementsOf

-----------------------------------------------------------------------------
(* Steps that leave what OrderManager and the executor know alone *)

LEMMA BookCarriesOver ==
  ASSUME OrdersInv, BookKept, UNCHANGED <<orders, opened, lastKnown>>,
         point' = "idle" => point = "idle"
  PROVE  RecordIsTrue' /\ Settled'
<1>1. \A o, k : k \in PlacementsOf(o) => k \in PlacementsOf(o)'
  BY DEF BookKept, PlacementsOf
<1>2. \A k \in DOMAIN placed :
        map_order_status[placed[k].status] # "SUBMITTED" => placed'[k] = placed[k]
  BY DEF BookKept, OrdersInv, OrdersTypeOK, map_order_status
<1>3. RecordIsTrue'
  <2>1. ASSUME NEW o \in DOMAIN orders, orders[o].status # "SUBMITTED"
        PROVE  \E k \in PlacementsOf(o)' :
                 /\ map_order_status[placed'[k].status] = orders[o].status
                 /\ placed'[k].filled = orders[o].filled
    <3>1. PICK k \in PlacementsOf(o) :
            /\ map_order_status[placed[k].status] = orders[o].status
            /\ placed[k].filled = orders[o].filled
      BY <2>1 DEF OrdersInv, RecordIsTrue
    <3>2. k \in DOMAIN placed
      BY DEF PlacementsOf
    <3> QED
      BY <1>1, <1>2, <2>1, <3>1, <3>2
  <2>2. ASSUME NEW k \in DOMAIN lastKnown, lastKnown[k] # "SUBMITTED"
        PROVE  lastKnown[k] = map_order_status[placed'[k].status]
    BY <1>2, <2>2 DEF OrdersInv, RecordIsTrue, OrdersTypeOK
  <2> QED
    BY <2>1, <2>2 DEF RecordIsTrue
<1>4. Settled'
  BY AdoptedStays DEF OrdersInv, Settled, OrdersTypeOK, Current
<1> QED
  BY <1>3, <1>4

\* The broker has taken the order being submitted: it counts one placement more.
LEMMA AcceptStep ==
  ASSUME OrdersInv, point = "placing", AcceptOrder, UNCHANGED orders,
         NEW c, c = Current
  PROVE  /\ Known' /\ PlacementsBounded'
         /\ Cardinality(PlacementsOf(c)') <= attempt + 1
<1>1. /\ OrdersTypeOK /\ Current \in Nat /\ Current > 0 /\ attempt \in Nat /\ MaxOrderRetries \in Nat
      /\ Current' = Current
  BY OrdersAssumption DEF OrdersInv, OrdersTypeOK, Submitting, Current
<1>2. /\ Cardinality(PlacementsOf(c)) <= attempt /\ attempt <= MaxOrderRetries
      /\ Cardinality(PlacementsOf(c)) \in Nat
  BY <1>1, PlacementsFinite DEF OrdersInv, Submitting
<1>3. Cardinality(PlacementsOf(c)') = Cardinality(PlacementsOf(c)) + 1
  BY <1>1, AcceptCounts
<1>4. PlacementsBounded'
  <2>1. ASSUME NEW o \in DOMAIN orders
        PROVE  Cardinality(PlacementsOf(o)') <= MaxOrderRetries + 1
    <3>1. CASE o = c
      BY <1>1, <1>2, <1>3, <3>1
    <3>2. CASE o # c
      <4>1. Cardinality(PlacementsOf(o)') = Cardinality(PlacementsOf(o)) + 0
        BY <1>1, <3>2, AcceptCounts
      <4>2. /\ Cardinality(PlacementsOf(o)) \in Nat
            /\ Cardinality(PlacementsOf(o)) <= MaxOrderRetries + 1
        BY <1>1, PlacementsFinite DEF OrdersInv, PlacementsBounded
      <4> QED
        BY <1>1, <4>1, <4>2
    <3> QED
      BY <3>1, <3>2
  <2> QED
    BY <2>1 DEF PlacementsBounded
<1>5. Known'
  <2>1. DOMAIN placed = 1 .. Len(placed) /\ DOMAIN placed' = 1 .. Len(placed) + 1
    BY <1>1, KeptByAccept DEF OrdersTypeOK, BookKept
  <2>2. Current \in DOMAIN orders
    BY <1>1 DEF OrdersTypeOK, Current
  <2> QED
    BY <1>1, <2>1, <2>2, KeptByAccept DEF OrdersInv, Known, Current
<1> QED
  BY <1>1, <1>2, <1>3, <1>4, <1>5

LEMMA NoAcceptStep ==
  ASSUME OrdersInv, UNCHANGED <<orders, placed>>
  PROVE  Known' /\ PlacementsBounded' /\ \A o : PlacementsOf(o)' = PlacementsOf(o)
  BY DEF OrdersInv, Known, PlacementsBounded, PlacementsOf

\* A call fails for the time being, the order having been accepted or not.
LEMMA RetryStep ==
  ASSUME OrdersInv, PlaceFailsTransiently \/ ReadFailsTransiently
  PROVE  OrdersInv'
<1>1. /\ UNCHANGED <<orders, opened, holding, kiteId, lastKnown>> /\ RetryOrGiveUp
      /\ \/ point = "placing" /\ AcceptOrder
         \/ UNCHANGED placed
  BY DEF PlaceFailsTransiently, ReadFailsTransiently
<1>2. OrdersTypeOK /\ attempt \in 0 .. MaxOrderRetries /\ MaxOrderRetries \in Nat /\ Current \in Nat /\ Current > 0
  BY OrdersAssumption
     DEF OrdersInv, OrdersTypeOK, Submitting, PlaceFailsTransiently, ReadFailsTransiently, Current
<1>3. BookKept
  BY <1>1, <1>2, KeptByAccept, KeptUnchanged
<1>4. /\ Known' /\ PlacementsBounded'
      /\ \A c : c = Current => Cardinality(PlacementsOf(c)') <= attempt + 1
  <2>1. CASE point = "placing" /\ AcceptOrder
    BY <1>1, <2>1, AcceptStep
  <2>2. CASE UNCHANGED placed
    <3>1. \A c : c = Current => Cardinality(PlacementsOf(c)) <= attempt + 1
      <4> SUFFICES ASSUME NEW c, c = Current
                   PROVE  Cardinality(PlacementsOf(c)) <= attempt + 1
        OBVIOUS
      <4>1. Cardinality(PlacementsOf(c)) \in Nat /\ attempt \in Nat
        BY <1>2, PlacementsFinite
      <4> QED
        BY <1>2, <4>1
           DEF OrdersInv, Submitting, PlaceFailsTransiently, ReadFailsTransiently
    <3>2. \A c : PlacementsOf(c)' = PlacementsOf(c)
      BY <1>1, <2>2, NoAcceptStep
    <3> QED
      BY <1>1, <2>2, <3>1, <3>2, NoAcceptStep
  <2> QED
    BY <1>1, <2>1, <2>2
<1>5. attempt' = attempt + 1 /\ point' \in {"placing", "halted"}
      /\ (point' = "placing" => attempt + 1 <= MaxOrderRetries)
  BY <1>1, <1>2 DEF RetryOrGiveUp
<1>6. RecordIsTrue' /\ Settled'
  BY <1>1, <1>3, <1>5, BookCarriesOver
<1>7. OrdersTypeOK'
  <2>1. DOMAIN lastKnown \subseteq DOMAIN placed' /\ kiteId \in 0 .. Len(placed')
    BY <1>2, <1>3 DEF OrdersTypeOK, BookKept
  <2> QED
    BY <1>1, <1>2, <1>3, <1>5, <2>1 DEF OrdersTypeOK, BookKept
<1>8. Submitting'
  <2>1. orders[Current].status = "SUBMITTED"
    BY DEF OrdersInv, Submitting, PlaceFailsTransiently, ReadFailsTransiently
  <2>2. Current' = Current
    BY <1>1 DEF Current
  <2> QED
    BY <1>1, <1>2, <1>4, <1>5, <2>1, <2>2 DEF Submitting, PlacementsOf
<1> QED
  BY <1>4, <1>6, <1>7, <1>8 DEF OrdersInv

\* A call fails for good.
LEMMA FailStep ==
  ASSUME OrdersInv, PlaceFails \/ ReadFails
  PROVE  OrdersInv'
<1>1. /\ UNCHANGED <<orders, opened, holding, attempt, kiteId, lastKnown>> /\ point' = "halted"
      /\ \/ point = "placing" /\ AcceptOrder
         \/ UNCHANGED placed
  BY DEF PlaceFails, ReadFails
<1>2. OrdersTypeOK
  BY DEF OrdersInv
<1>3. BookKept
  BY <1>1, <1>2, KeptByAccept, KeptUnchanged
<1>4. Known' /\ PlacementsBounded'
  BY <1>1, AcceptStep, NoAcceptStep
<1>5. RecordIsTrue' /\ Settled'
  BY <1>1, <1>3, BookCarriesOver
<1>6. OrdersTypeOK'
  <2>1. DOMAIN lastKnown \subseteq DOMAIN placed' /\ kiteId \in 0 .. Len(placed')
    BY <1>2, <1>3 DEF OrdersTypeOK, BookKept
  <2> QED
    BY <1>1, <1>2, <1>3, <2>1 DEF OrdersTypeOK, BookKept
<1> QED
  BY <1>1, <1>4, <1>5, <1>6 DEF OrdersInv, Submitting

LEMMA PlaceAnsweredStep ==
  ASSUME OrdersInv, PlaceAnswered
  PROVE  OrdersInv'
<1>1. /\ UNCHANGED <<orders, opened, holding, attempt, lastKnown>>
      /\ point = "placing" /\ point' = "reading" /\ AcceptOrder /\ kiteId' = Len(placed) + 1
  BY DEF PlaceAnswered
<1>2. /\ OrdersTypeOK /\ attempt <= MaxOrderRetries /\ orders[Current].status = "SUBMITTED" /\ Current > 0
      /\ Current' = Current
  BY <1>1 DEF OrdersInv, Submitting, Current
<1>3. BookKept /\ Len(placed') = Len(placed) + 1 /\ placed'[Len(placed) + 1].order = Current
  BY <1>1, <1>2, KeptByAccept
<1>4. /\ Known' /\ PlacementsBounded'
      /\ \A c : c = Current => Cardinality(PlacementsOf(c)') <= attempt + 1
  BY <1>1, AcceptStep
<1>5. RecordIsTrue' /\ Settled'
  BY <1>1, <1>3, BookCarriesOver
<1>6. OrdersTypeOK'
  <2>1. DOMAIN lastKnown \subseteq DOMAIN placed' /\ kiteId' \in 0 .. Len(placed')
    BY <1>1, <1>2, <1>3 DEF OrdersTypeOK, BookKept
  <2> QED
    BY <1>1, <1>2, <1>3, <2>1 DEF OrdersTypeOK, BookKept
<1>7. Submitting'
  <2>1. kiteId' \in DOMAIN placed'
    BY <1>1, <1>2, <1>3 DEF OrdersTypeOK, BookKept
  <2> QED
    BY <1>1, <1>2, <1>3, <1>4, <2>1 DEF Submitting, PlacementsOf
<1> QED
  BY <1>4, <1>5, <1>6, <1>7 DEF OrdersInv

\* A new order: every one before it is done, and the broker knows nothing of it.
LEMMA SubmitStep ==
  ASSUME OrdersInv, Submit
  PROVE  OrdersInv'
<1> DEFINE new == [status |-> "SUBMITTED", filled |-> 0]
<1>1. /\ orders' = Append(orders, new) /\ opened' = Append(opened, 0)
      /\ point = "idle" /\ point' = "placing" /\ attempt' = 0
      /\ UNCHANGED <<holding, kiteId, lastKnown, placed>>
  BY DEF Submit
<1>2. OrdersTypeOK /\ MaxOrderRetries \in Nat /\ Current \in Nat /\ new \in Order /\ new.status = "SUBMITTED"
  BY OrdersAssumption DEF OrdersInv, OrdersTypeOK, Current, Order, OrderStatus
<1> HIDE DEF new
<1>3. /\ orders' \in Seq(Order) /\ Len(orders') = Current + 1 /\ orders'[Current + 1] = new
      /\ \A o \in DOMAIN orders : orders'[o] = orders[o]
      /\ DOMAIN orders = 1 .. Current /\ DOMAIN orders' = 1 .. Current + 1
  BY <1>1, <1>2 DEF OrdersTypeOK, Current
<1>4. /\ opened' \in Seq(0 .. Quantity) /\ Len(opened') = Current + 1
      /\ \A o \in DOMAIN orders : opened'[o] = opened[o]
  BY <1>1, <1>2, OrdersAssumption DEF OrdersTypeOK, Current
<1>5. Current' = Current + 1
  BY <1>3 DEF Current
<1>6. \A o : PlacementsOf(o)' = PlacementsOf(o)
  BY <1>1 DEF PlacementsOf
<1>7. \A o : o = Current + 1 => Cardinality(PlacementsOf(o)) = 0
  <2>1. \A o : o = Current + 1 => PlacementsOf(o) = {}
    BY <1>2, <1>3 DEF OrdersInv, Known, PlacementsOf
  <2> QED
    BY <2>1, FS_EmptySet
<1>8. OrdersTypeOK'
  BY <1>1, <1>2, <1>3, <1>4 DEF OrdersTypeOK
<1>9. Known'
  BY <1>1, <1>2, <1>3 DEF OrdersInv, Known
<1>10. Submitting'
  BY <1>1, <1>2, <1>3, <1>5, <1>6, <1>7 DEF Submitting
<1>11. Settled'
  <2>1. ASSUME NEW o \in DOMAIN orders', o # Current + 1
        PROVE  Adopted(o)'
    <3>1. o \in DOMAIN orders
      BY <1>2, <1>3, <2>1
    <3>2. Adopted(o)
      BY <1>1, <3>1 DEF OrdersInv, Settled
    <3> QED
      BY <1>1, <1>4, <1>6, <3>1, <3>2 DEF Adopted
  <2> QED
    BY <1>1, <1>5, <2>1 DEF Settled
<1>12. RecordIsTrue'
  <2>1. ASSUME NEW o \in DOMAIN orders', orders'[o].status # "SUBMITTED"
        PROVE  \E k \in PlacementsOf(o)' :
                 /\ map_order_status[placed'[k].status] = orders'[o].status
                 /\ placed'[k].filled = orders'[o].filled
    <3>1. o \in DOMAIN orders /\ orders'[o] = orders[o]
      BY <1>2, <1>3, <2>1
    <3> QED
      BY <1>1, <1>6, <2>1, <3>1 DEF OrdersInv, RecordIsTrue
  <2> QED
    BY <1>1, <2>1 DEF OrdersInv, RecordIsTrue
<1>13. PlacementsBounded'
  <2>1. ASSUME NEW o \in DOMAIN orders'
        PROVE  Cardinality(PlacementsOf(o)) <= MaxOrderRetries + 1
    <3>1. CASE o = Current + 1
      BY <1>2, <1>7, <3>1
    <3>2. CASE o \in DOMAIN orders
      BY <3>2 DEF OrdersInv, PlacementsBounded
    <3> QED
      BY <1>2, <1>3, <3>1, <3>2
  <2> QED
    BY <1>6, <2>1 DEF PlacementsBounded
<1> QED
  BY <1>8, <1>9, <1>10, <1>11, <1>12, <1>13 DEF OrdersInv

\* The broker works on an order: one that is finished it leaves alone.
LEMMA WorksStep ==
  ASSUME OrdersInv, NEW k \in DOMAIN placed, Works(k)
  PROVE  OrdersInv'
<1>1. OrdersTypeOK /\ UNCHANGED local
  BY DEF OrdersInv, Works
<1>2. BookKept /\ \A o : PlacementsOf(o)' = PlacementsOf(o)
  BY <1>1, KeptByWorks
<1>3. DOMAIN placed' = DOMAIN placed
  BY DEF Works
<1>4. OrdersTypeOK'
  <2>1. DOMAIN lastKnown \subseteq DOMAIN placed' /\ kiteId \in 0 .. Len(placed')
    BY <1>1, <1>2, <1>3 DEF OrdersTypeOK, BookKept
  <2> QED
    BY <1>1, <1>2, <2>1 DEF OrdersTypeOK, BookKept, local
<1>5. RecordIsTrue' /\ Settled'
  BY <1>1, <1>2, BookCarriesOver DEF local
<1>6. Known'
  BY <1>1, <1>2, <1>3 DEF OrdersInv, Known, BookKept, local
<1>7. PlacementsBounded'
  BY <1>1, <1>2 DEF OrdersInv, PlacementsBounded, local
<1>8. Submitting'
  BY <1>1, <1>2 DEF OrdersInv, Submitting, local, Current
<1> QED
  BY <1>4, <1>5, <1>6, <1>7, <1>8 DEF OrdersInv

\* The processor closes the position in its own book only.
LEMMA ExitStep ==
  ASSUME OrdersInv, Exit
  PROVE  OrdersInv'
<1>1. UNCHANGED <<orders, opened, point, attempt, kiteId, lastKnown, placed>> /\ holding' = FALSE
  BY DEF Exit
<1>2. OrdersTypeOK'
  BY <1>1 DEF OrdersInv, OrdersTypeOK
<1>3. Current' = Current /\ \A o : PlacementsOf(o)' = PlacementsOf(o)
  BY <1>1 DEF Current, PlacementsOf
<1>4. Known' /\ PlacementsBounded' /\ RecordIsTrue'
  BY <1>1, <1>3 DEF OrdersInv, Known, PlacementsBounded, RecordIsTrue
<1>5. Submitting'
  BY <1>1, <1>3 DEF OrdersInv, Submitting, Exit
<1>6. Settled'
  BY <1>1, <1>3 DEF OrdersInv, Settled, Adopted
<1> QED
  BY <1>2, <1>4, <1>5, <1>6 DEF OrdersInv

\* The broker's answer is stored only if it is final, and then adopted.
LEMMA ReadAnsweredStep ==
  ASSUME OrdersInv, ReadAnswered
  PROVE  OrdersInv'
<1>1. /\ OrdersTypeOK /\ point = "reading" /\ UNCHANGED <<attempt, kiteId, placed>>
      /\ Current > 0 /\ Current \in DOMAIN orders /\ Current \in DOMAIN opened
      /\ orders[Current].status = "SUBMITTED" /\ kiteId \in PlacementsOf(Current)
  BY DEF OrdersInv, Submitting, ReadAnswered, OrdersTypeOK, Current
<1>2. /\ kiteId \in DOMAIN placed /\ Answer \in Placement
      /\ Answer.filled \in 0 .. Quantity /\ Answer.status \in KiteStatus
  <2>1. Answer \in Placement
    BY <1>1 DEF OrdersTypeOK, PlacementsOf, Answer
  <2> HIDE DEF Answer
  <2> QED
    BY <1>1, <2>1 DEF PlacementsOf, Placement
<1>3. /\ Result \in OrderStatus /\ Result = map_order_status[Answer.status]
      /\ (Answer.status = "OPEN" <=> Result = "SUBMITTED")
  BY <1>2 DEF Result, map_order_status, KiteStatus, OrderStatus
<1>4. LegalTransition => Result # "SUBMITTED" /\ Answer.status # "OPEN"
  BY <1>1, <1>3 DEF LegalTransition, ORDER_STATUS_TRANSITIONS
<1>5. /\ lastKnown' = [k \in DOMAIN lastKnown \cup {kiteId} |->
                         IF k = kiteId THEN Result ELSE lastKnown[k]]
      /\ DOMAIN lastKnown' \subseteq DOMAIN placed
      /\ \A k \in DOMAIN lastKnown' : lastKnown'[k] \in OrderStatus
      /\ \A k \in DOMAIN lastKnown' :
           lastKnown'[k] # "SUBMITTED" => lastKnown'[k] = map_order_status[placed[k].status]
  BY <1>1, <1>2, <1>3 DEF ReadAnswered, OrdersTypeOK, OrdersInv, RecordIsTrue, Answer
<1> DEFINE new == [status |-> Result, filled |-> Answer.filled]
<1>6. new \in Order /\ new.status = Result /\ new.filled = Answer.filled
  BY <1>2, <1>3 DEF Order
<1>7. \/ LegalTransition /\ orders' = [orders EXCEPT ![Current] = new]
      \/ UNCHANGED <<orders, opened, holding>> /\ point' = "halted"
  BY DEF ReadAnswered
<1>8. \/ UNCHANGED <<opened, holding>> /\ point' = "halted"
      \/ /\ LegalTransition /\ Answer.filled > 0 /\ holding' = TRUE /\ point' = "idle"
         /\ opened' = [opened EXCEPT ![Current] = Answer.filled]
  BY DEF ReadAnswered, OpensFilled
<1> HIDE DEF new
<1>9. /\ orders' \in Seq(Order) /\ Len(orders') = Len(orders) /\ DOMAIN orders' = DOMAIN orders
      /\ \A o \in DOMAIN orders : o # Current => orders'[o] = orders[o]
      /\ orders'[Current] = orders[Current] \/ (LegalTransition /\ orders'[Current] = new)
  <2>1. orders \in Seq(Order)
    BY <1>1 DEF OrdersTypeOK
  <2>2. CASE LegalTransition /\ orders' = [orders EXCEPT ![Current] = new]
    <3>1. orders' \in Seq(Order) /\ Len(orders') = Len(orders) /\ DOMAIN orders' = DOMAIN orders
      BY <1>1, <1>6, <2>1, <2>2
    <3> QED
      BY <1>1, <2>1, <2>2, <3>1
  <2>3. CASE UNCHANGED orders
    BY <2>1, <2>3
  <2> QED
    BY <1>7, <2>2, <2>3
<1>10. /\ opened' \in Seq(0 .. Quantity) /\ Len(opened') = Len(opened)
       /\ \A o \in DOMAIN opened : o # Current => opened'[o] = opened[o]
       /\ point' = "idle" => opened'[Current] = Answer.filled
  <2>1. opened \in Seq(0 .. Quantity)
    BY <1>1 DEF OrdersTypeOK
  <2>2. CASE opened' = [opened EXCEPT ![Current] = Answer.filled]
    <3>1. opened' \in Seq(0 .. Quantity) /\ Len(opened') = Len(opened)
      BY <1>1, <1>2, <2>1, <2>2
    <3> QED
      BY <1>1, <2>1, <2>2, <3>1
  <2>3. CASE UNCHANGED opened /\ point' = "halted"
    BY <2>1, <2>3
  <2> QED
    BY <1>8, <2>2, <2>3
<1>11. Current' = Current /\ \A o : PlacementsOf(o)' = PlacementsOf(o)
  BY <1>1, <1>9 DEF Current, PlacementsOf
<1>12. point' \in {"idle", "halted"} /\ holding' \in BOOLEAN
  BY <1>1, <1>8 DEF OrdersTypeOK
<1>13. OrdersTypeOK'
  BY <1>1, <1>5, <1>9, <1>10, <1>12 DEF OrdersTypeOK
<1>14. Known' /\ PlacementsBounded' /\ Submitting'
  BY <1>1, <1>9, <1>11, <1>12 DEF OrdersInv, Known, PlacementsBounded, Submitting
<1>15. RecordIsTrue'
  <2>1. ASSUME NEW o \in DOMAIN orders, orders'[o].status # "SUBMITTED"
        PROVE  \E k \in PlacementsOf(o) :
                 /\ map_order_status[placed[k].status] = orders'[o].status
                 /\ placed[k].filled = orders'[o].filled
    <3>1. CASE orders'[o] = orders[o]
      BY <2>1, <3>1 DEF OrdersInv, RecordIsTrue
    <3>2. CASE o = Current /\ orders'[o] = new
      BY <1>1, <1>3, <1>6, <3>2 DEF Answer
    <3> QED
      BY <1>9, <3>1, <3>2
  <2> QED
    BY <1>1, <1>5, <1>9, <1>11, <2>1 DEF RecordIsTrue
<1>16. Settled'
  <2>1. ASSUME NEW o \in DOMAIN orders, o # Current \/ point' = "idle"
        PROVE  Adopted(o)'
    <3>1. CASE o = Current
      <4>1. LegalTransition
        BY <1>8, <2>1, <3>1
      <4>2. kiteId \in PlacementsOf(o)' /\ placed'[kiteId].status # "OPEN"
            /\ opened'[o] = placed'[kiteId].filled
        BY <1>1, <1>4, <1>10, <1>11, <2>1, <3>1, <4>1 DEF Answer
      <4> QED
        BY <4>2 DEF Adopted
    <3>2. CASE o # Current
      <4>1. Adopted(o) /\ opened'[o] = opened[o]
        BY <1>1, <1>10, <3>2 DEF OrdersInv, Settled, OrdersTypeOK
      <4> QED
        BY <1>1, <1>11, <4>1 DEF Adopted
    <3> QED
      BY <3>1, <3>2
  <2> QED
    BY <1>9, <1>11, <2>1 DEF Settled
<1> QED
  BY <1>13, <1>14, <1>15, <1>16 DEF OrdersInv

-----------------------------------------------------------------------------
(* Theorems *)

\* OrdersInv holds throughout: it holds of no orders at all and every step keeps it.
THEOREM OrdersInvariant == OrdersSpec => []OrdersInv
<1>1. OrdersInit => OrdersInv
  <2> SUFFICES ASSUME OrdersInit PROVE OrdersInv
    OBVIOUS
  <2>1. OrdersTypeOK
    <3>1. /\ orders \in Seq(Order) /\ opened \in Seq(0 .. Quantity) /\ placed \in Seq(Placement)
          /\ Len(orders) = 0 /\ Len(opened) = 0 /\ Len(placed) = 0
      BY DEF OrdersInit
    <3>2. DOMAIN lastKnown = {}
      BY DEF OrdersInit
    <3>3. attempt \in 0 .. MaxOrderRetries + 1
      BY OrdersAssumption DEF OrdersInit
    <3>4. holding = FALSE /\ point = "idle" /\ kiteId = 0
      BY DEF OrdersInit
    <3>5. kiteId \in 0 .. Len(placed)
      BY <3>1, <3>4
    <3>6. DOMAIN lastKnown \subseteq DOMAIN placed /\ \A k \in DOMAIN lastKnown : lastKnown[k] \in OrderStatus
      BY <3>2
    <3>7. holding \in BOOLEAN /\ point \in {"idle", "placing", "reading", "halted"}
      BY <3>4
    <3> QED
      BY <3>1, <3>3, <3>5, <3>6, <3>7 DEF OrdersTypeOK
  <2>2. DOMAIN orders = {} /\ DOMAIN placed = {} /\ DOMAIN lastKnown = {} /\ point = "idle"
    BY DEF OrdersInit
  <2> QED
    BY <2>1, <2>2 DEF OrdersInv, Known, Submitting, Settled, RecordIsTrue, PlacementsBounded
<1>2. OrdersInv /\ [OrdersNext]_ordersVars => OrdersInv'
  <2> SUFFICES ASSUME OrdersInv, [OrdersNext]_ordersVars
               PROVE  OrdersInv'
    OBVIOUS
  <2>1. CASE OrdersNext
    BY <2>1, SubmitStep, ExitStep, PlaceAnsweredStep, RetryStep, FailStep, ReadAnsweredStep,
       WorksStep DEF OrdersNext
  <2>2. CASE UNCHANGED ordersVars
    BY <2>2 DEF ordersVars, OrdersInv, OrdersTypeOK, Known, Submitting, Settled, Adopted, RecordIsTrue,
                PlacementsBounded, PlacementsOf, Current
  <2> QED
    BY <2>1, <2>2
<1> QED
  BY <1>1, <1>2, PTL DEF OrdersSpec

\* The variables keep their types; the executor's attempts never pass the limit.
THEOREM OrdersTypeCorrect == OrdersSpec => []OrdersTypeOK
<1>1. OrdersInv => OrdersTypeOK
  BY DEF OrdersInv
<1> QED
  BY <1>1, OrdersInvariant, PTL

\* OrderManager and the executor never say of an order what the broker does not.
THEOREM RecordStaysTrue == OrdersSpec => []RecordIsTrue
<1>1. OrdersInv => RecordIsTrue
  BY DEF OrdersInv
<1> QED
  BY <1>1, OrdersInvariant, PTL

\* Retries are bounded: no order reaches the broker more than max_retries + 1 times.
THEOREM PlacementsStayBounded == OrdersSpec => []PlacementsBounded
<1>1. OrdersInv => PlacementsBounded
  BY DEF OrdersInv
<1> QED
  BY <1>1, OrdersInvariant, PTL

\* An order that was placed only once is on the book as the broker filled it: only a
\* repeated placement or an exception makes the two differ.
THEOREM PlacedOnceStaysReconciled == OrdersSpec => []PlacedOnceReconciles
<1>1. OrdersInv => PlacedOnceReconciles
  <2> SUFFICES ASSUME OrdersInv, NEW o \in DOMAIN orders, point = "idle",
                      NEW k \in PlacementsOf(o), PlacementsOf(o) = {k}
               PROVE  placed[k].status # "OPEN" /\ opened[o] = placed[k].filled
    BY DEF PlacedOnceReconciles
  <2>1. Adopted(o)
    BY DEF OrdersInv, Settled
  <2> QED
    BY <2>1 DEF Adopted
<1> QED
  BY <1>1, OrdersInvariant, PTL

-----------------------------------------------------------------------------
(* Sessions: sequences and calls *)

StepSet ==
  [do : {"check", "set"}, to : LiveSessionState]
    \cup [do : {"connect", "reconnect", "verify"}, to : {""}]
    \cup [do : {"raise_flag", "drop_flag"}, to : {"up", "stop"}]

MethodNames == {"connect", "start_trading", "pause", "resume", "stop", "emergency_stop",
                "mark_disconnected", "mark_error", "attempt_reconnect"}

CallSet ==
  [op : MethodNames \cup {"none"}, session : 0 .. born, todo : Seq(StepSet),
   tries : 0 .. MaxRetries]

CallsOK ==
  /\ call \in [Callers -> CallSet]
  /\ \A c \in Callers : call[c].todo # <<>> => call[c].session # 0

\* What a session's threads rely on.  A disconnected feed's thread has pushed no
\* more than was there when it was disconnected, but for the one candle it may
\* have been about to push; a born session that is not connected was disconnected.
FlowOK(s) ==
  /\ downAt[s] \in 0 .. Never
  /\ s > born => state[s] = "Initializing" /\ feeder[s] = "none" /\ engine[s] = "none"
  /\ s <= born /\ s \notin connected => downAt[s] # Never
  /\ feeder[s] = "pushing" => pushed[s] < Candles
  /\ (s \notin connected /\ downAt[s] # Never) =>
       pushed[s] <= downAt[s] + 1 /\ (feeder[s] = "pushing" => pushed[s] <= downAt[s])
  /\ engine[s] = "done" => taken[s] = Candles \/ downAt[s] # Never

LiveInv ==
  /\ TypeOK /\ CallsOK
  /\ downAt \in [Sessions -> 0 .. Never]
  /\ \A s \in Sessions : FlowOK(s)

\* One and two elements as sequences.
LEMMA ShortSequences ==
  ASSUME NEW T, NEW x \in T, NEW y \in T
  PROVE  /\ <<x>> \in Seq(T) /\ <<x, y>> \in Seq(T)
         /\ <<x, y>> # <<>> /\ Head(<<x, y>>) = x
OBVIOUS

\* What a call does next, and whatever a method schedules, is a step of a method.
LEMMA StepsOfMethods ==
  /\ \A to \in LiveSessionState : Transition(to) \in Seq(StepSet)
  /\ Connect \in Seq(StepSet) /\ Disconnect \in Seq(StepSet)
  /\ Connect \o Transition("Connected") \in Seq(StepSet)
  /\ Connect \o <<Step("verify", "")>> \in Seq(StepSet)
  /\ <<Step("reconnect", "")>> \in Seq(StepSet) /\ <<Step("connect", "")>> \in Seq(StepSet)
  /\ Transition("Stopping") \o Transition("Stopped") \in Seq(StepSet)
<1>1. \A to \in LiveSessionState : Step("check", to) \in StepSet /\ Step("set", to) \in StepSet
  BY DEF Step, StepSet
<1>2. /\ Step("raise_flag", "up") \in StepSet /\ Step("raise_flag", "stop") \in StepSet
      /\ Step("drop_flag", "up") \in StepSet /\ Step("drop_flag", "stop") \in StepSet
      /\ Step("verify", "") \in StepSet /\ Step("reconnect", "") \in StepSet
      /\ Step("connect", "") \in StepSet
  BY DEF Step, StepSet
<1>3. \A to \in LiveSessionState : Transition(to) \in Seq(StepSet)
  BY <1>1, ShortSequences DEF Transition
<1>4. Connect \in Seq(StepSet) /\ Disconnect \in Seq(StepSet)
  BY <1>2, ShortSequences DEF Connect, Disconnect
<1>5. /\ <<Step("verify", "")>> \in Seq(StepSet) /\ <<Step("reconnect", "")>> \in Seq(StepSet)
      /\ <<Step("connect", "")>> \in Seq(StepSet)
  BY <1>2, ShortSequences
<1>6. \A a, b \in Seq(StepSet) : a \o b \in Seq(StepSet)
  OBVIOUS
<1>7. "Connected" \in LiveSessionState /\ "Stopping" \in LiveSessionState
      /\ "Stopped" \in LiveSessionState
  BY DEF LiveSessionState
<1> QED
  BY <1>3, <1>4, <1>5, <1>6, <1>7

\* Every method begins by checking a transition.
LEMMA MethodsCheckFirst ==
  ASSUME NEW op \in MethodNames
  PROVE  /\ Program[op] \in Seq(StepSet) /\ Program[op] # <<>>
         /\ Head(Program[op]).do = "check"
<1>1. \A to \in LiveSessionState :
        /\ Transition(to) \in Seq(StepSet) /\ Transition(to) # <<>>
        /\ Head(Transition(to)).do = "check"
  <2> SUFFICES ASSUME NEW to \in LiveSessionState
               PROVE  /\ Transition(to) \in Seq(StepSet) /\ Transition(to) # <<>>
                      /\ Head(Transition(to)).do = "check"
    OBVIOUS
  <2>1. Step("check", to) \in StepSet /\ Step("set", to) \in StepSet
        /\ Step("check", to).do = "check"
    BY DEF Step, StepSet
  <2> QED
    BY <2>1, ShortSequences DEF Transition
<1>2. \A a, b \in Seq(StepSet) :
        a # <<>> => a \o b \in Seq(StepSet) /\ a \o b # <<>> /\ Head(a \o b) = Head(a)
  OBVIOUS
<1>3. \A to \in LiveSessionState : \A more \in Seq(StepSet) :
        /\ Transition(to) \o more \in Seq(StepSet) /\ Transition(to) \o more # <<>>
        /\ Head(Transition(to) \o more).do = "check"
  BY <1>1, <1>2
<1>4. /\ "Connecting" \in LiveSessionState /\ "Trading" \in LiveSessionState
      /\ "Paused" \in LiveSessionState /\ "Stopping" \in LiveSessionState
      /\ "Stopped" \in LiveSessionState /\ "Disconnected" \in LiveSessionState
      /\ "Error" \in LiveSessionState
  BY DEF LiveSessionState
<1>5. /\ StopSession \in Seq(StepSet) /\ StopSession # <<>>
      /\ Head(StopSession).do = "check"
  <2>1. Transition("Stopping") \o Disconnect \in Seq(StepSet)
        /\ Transition("Stopping") \o Disconnect # <<>>
        /\ Head(Transition("Stopping") \o Disconnect).do = "check"
    BY <1>3, <1>4, StepsOfMethods
  <2>2. Transition("Stopped") \in Seq(StepSet)
    BY <1>1, <1>4
  <2> QED
    BY <1>2, <2>1, <2>2 DEF StopSession
<1>6. <<Step("connect", "")>> \in Seq(StepSet) /\ <<Step("reconnect", "")>> \in Seq(StepSet)
  BY StepsOfMethods
<1>7. /\ Program["connect"] = Transition("Connecting") \o <<Step("connect", "")>>
      /\ Program["start_trading"] = Transition("Trading")
      /\ Program["pause"] = Transition("Paused")
      /\ Program["resume"] = Transition("Trading")
      /\ Program["stop"] = StopSession
      /\ Program["emergency_stop"] = StopSession
      /\ Program["mark_disconnected"] = Transition("Disconnected")
      /\ Program["mark_error"] = Transition("Error")
      /\ Program["attempt_reconnect"] = Transition("Connecting") \o <<Step("reconnect", "")>>
  BY DEF Program
<1> DEFINE Good(todo) == todo \in Seq(StepSet) /\ todo # <<>> /\ Head(todo).do = "check"
<1>8. \A to \in LiveSessionState :
        Good(Transition(to)) /\ \A more \in Seq(StepSet) : Good(Transition(to) \o more)
  BY <1>1, <1>3
<1>9. Good(StopSession)
  BY <1>5
<1> HIDE DEF Good
<1>10. /\ Good(Program["connect"]) /\ Good(Program["start_trading"])
       /\ Good(Program["pause"]) /\ Good(Program["resume"])
       /\ Good(Program["stop"]) /\ Good(Program["emergency_stop"])
       /\ Good(Program["mark_disconnected"]) /\ Good(Program["mark_error"])
       /\ Good(Program["attempt_reconnect"])
  BY <1>4, <1>6, <1>7, <1>8, <1>9
<1>11. Good(Program[op])
  BY <1>10, Zenon DEF MethodNames
<1> QED
  BY <1>11 DEF Good

-----------------------------------------------------------------------------
(* Steps of a call *)

\* The bounds as numbers.
LEMMA Bounds ==
  /\ Candles \in Nat /\ MaxRetries \in Nat /\ MaxRetries > 0 /\ Attempts \in Nat /\ Attempts > 0
  /\ MaxSessions \in Nat /\ MaxCalls \in Nat
<1>1. /\ Candles \in Nat /\ MaxRetries \in Nat \ {0} /\ Attempts \in Nat \ {0}
      /\ MaxSessions \in Nat /\ MaxCalls \in Nat
  BY LiveAssumption
<1> QED
  BY <1>1

\* What a caller may be doing, and on which session.
LEMMA CallFacts ==
  ASSUME CallsOK, TypeOK, NEW c \in Callers
  PROVE  /\ call[c] \in CallSet
         /\ call[c].todo \in Seq(StepSet) /\ call[c].session \in 0 .. born
         /\ call[c].tries \in 0 .. MaxRetries
         /\ call[c].todo # <<>> =>
              /\ call[c].session \in 1 .. born /\ call[c].session \in Sessions
              /\ Head(call[c].todo) \in StepSet /\ Tail(call[c].todo) \in Seq(StepSet)
<1>1. call[c] \in CallSet /\ (call[c].todo # <<>> => call[c].session # 0)
  BY DEF CallsOK
<1> DEFINE todo == call[c].todo
<1>2. todo \in Seq(StepSet) /\ call[c].session \in 0 .. born /\ call[c].tries \in 0 .. MaxRetries
  BY <1>1 DEF CallSet
<1> HIDE DEF todo
<1>3. todo # <<>> => Head(todo) \in StepSet /\ Tail(todo) \in Seq(StepSet)
  BY <1>2
<1>4. born \in 0 .. MaxSessions /\ MaxSessions \in Nat
  BY Bounds DEF TypeOK
<1> QED
  BY <1>1, <1>2, <1>3, <1>4 DEF todo, Sessions

\* Replacing what one caller is doing by something a caller may be doing.
LEMMA CallMoves ==
  ASSUME CallsOK, born' = born, NEW c \in Callers, NEW r \in CallSet,
         r.todo # <<>> => r.session # 0,
         call' = [call EXCEPT ![c] = r]
  PROVE  /\ CallsOK'
         /\ \A d \in Callers : call'[d].session \in 0 .. born /\ call'[d].tries \in 0 .. MaxRetries
<1>1. CallSet' = CallSet
  BY DEF CallSet
<1>2. call' \in [Callers -> CallSet]
  BY DEF CallsOK
<1>3. \A d \in Callers : call'[d].todo # <<>> => call'[d].session # 0
  BY DEF CallsOK
<1>4. \A q \in CallSet : q.session \in 0 .. born /\ q.tries \in 0 .. MaxRetries
  BY DEF CallSet
<1> QED
  BY <1>1, <1>2, <1>3, <1>4 DEF CallsOK

\* Going on with a call, more steps put before those left.
LEMMA GoesOn ==
  ASSUME CallsOK, TypeOK, born' = born, NEW c \in Callers, call[c].todo # <<>>,
         NEW more \in Seq(StepSet), Then(c, more)
  PROVE  /\ CallsOK'
         /\ \A d \in Callers : call'[d].session \in 0 .. born /\ call'[d].tries \in 0 .. MaxRetries
<1> DEFINE rest == more \o Tail(call[c].todo)
           r == [call[c] EXCEPT !.todo = rest]
<1>1. /\ call[c] \in CallSet /\ Tail(call[c].todo) \in Seq(StepSet)
      /\ call[c].session # 0
  BY CallFacts DEF CallsOK
<1>2. rest \in Seq(StepSet)
  BY <1>1
<1>3. call' = [call EXCEPT ![c] = r]
  BY DEF Then, CallsOK
<1> HIDE DEF rest
<1>4. r \in CallSet /\ r.session # 0
  BY <1>1, <1>2 DEF CallSet
<1> HIDE DEF r
<1> QED
  BY <1>3, <1>4, CallMoves

\* Trying once more counts the attempted.
LEMMA Retries ==
  ASSUME CallsOK, TypeOK, born' = born, NEW c \in Callers, call[c].todo # <<>>,
         call[c].tries < MaxRetries, NEW more \in Seq(StepSet),
         call' = [call EXCEPT ![c].todo = more \o Tail(@), ![c].tries = @ + 1]
  PROVE  /\ CallsOK'
         /\ \A d \in Callers : call'[d].session \in 0 .. born /\ call'[d].tries \in 0 .. MaxRetries
<1> DEFINE left == Tail(call[c].todo)
           k == call[c].tries
           rest == more \o left
           u == [call[c] EXCEPT !.todo = rest]
           r == [u EXCEPT !.tries = k + 1]
<1>1. /\ left \in Seq(StepSet) /\ call[c] \in CallSet /\ call[c].session # 0
      /\ k \in 0 .. MaxRetries /\ k < MaxRetries
  BY CallFacts DEF CallsOK
<1>2. call' = [call EXCEPT ![c] = r]
  BY DEF CallsOK
<1> HIDE DEF left, k
<1>3. rest \in Seq(StepSet) /\ k + 1 \in 0 .. MaxRetries
  BY <1>1, Bounds
<1> HIDE DEF rest
<1>4. u \in CallSet /\ u.session = call[c].session
  BY <1>1, <1>3 DEF CallSet
<1> HIDE DEF u
<1>5. r \in CallSet /\ r.session = u.session
  BY <1>3, <1>4 DEF CallSet
<1> HIDE DEF r
<1> QED
  BY <1>1, <1>2, <1>4, <1>5, CallMoves

\* A call that raises or returns leaves its caller idle.
LEMMA GoesIdle ==
  ASSUME CallsOK, born' = born, born \in Nat, NEW c \in Callers, Raises(c)
  PROVE  /\ CallsOK'
         /\ \A d \in Callers : call'[d].session \in 0 .. born /\ call'[d].tries \in 0 .. MaxRetries
<1>1. Idle \in CallSet /\ Idle.todo = <<>>
  <2>1. 0 \in 0 .. MaxRetries /\ 0 \in 0 .. born
    BY Bounds
  <2>2. <<>> \in Seq(StepSet)
    OBVIOUS
  <2> QED
    BY <2>1, <2>2 DEF Idle, CallSet
<1> QED
  BY <1>1, CallMoves DEF Raises

\* A caller begins a method on a session that was born.
LEMMA Begins ==
  ASSUME CallsOK, born' = born, born \in Nat, NEW c \in Callers, NEW op \in MethodNames,
         NEW s \in 1 .. born, Begin(c, op, s)
  PROVE  /\ CallsOK'
         /\ \A d \in Callers : call'[d].session \in 0 .. born /\ call'[d].tries \in 0 .. MaxRetries
<1> DEFINE r == [op |-> op, session |-> s, todo |-> Program[op], tries |-> 0]
<1>1. 0 \in 0 .. MaxRetries /\ s \in 0 .. born /\ s # 0
  BY Bounds
<1>2. r \in CallSet /\ r.session # 0
  BY <1>1, MethodsCheckFirst DEF CallSet
<1>3. call' = [call EXCEPT ![c] = r]
  BY DEF Begin
<1> HIDE DEF r
<1> QED
  BY <1>2, <1>3, CallMoves

\* Where nothing but the calls moves, the sessions stay as they were.
LEMMA SessionsStay ==
  ASSUME LiveInv, CallsOK',
         \A d \in Callers : call'[d].session \in 0 .. born /\ call'[d].tries \in 0 .. MaxRetries,
         context' \in 0 .. born, calls' \in 0 .. MaxCalls,
         UNCHANGED <<born, sessionVars, feederVars, engineVars, downAt>>
  PROVE  LiveInv'
BY DEF LiveInv, TypeOK, FlowOK, sessionVars, feederVars, engineVars

-----------------------------------------------------------------------------
(* The steps *)

\* The types as sets of functions, and what a session's facts are about.
LEMMA LiveFacts ==
  ASSUME LiveInv
  PROVE  /\ TypeOK /\ CallsOK
         /\ born \in Nat /\ born <= MaxSessions /\ MaxSessions \in Nat /\ Candles \in Nat
         /\ context \in 0 .. born /\ calls \in 0 .. MaxCalls
         /\ state \in [Sessions -> LiveSessionState]
         /\ connected \subseteq 1 .. born /\ stopRequested \subseteq 1 .. born
         /\ feeder \in [Sessions -> {"none", "checking", "pushing", "done"}]
         /\ engine \in [Sessions -> {"none", "reading", "timed_out", "sending", "done"}]
         /\ pushed \in [Sessions -> 0 .. Candles] /\ taken \in [Sessions -> 0 .. Candles]
         /\ attempted \in [Sessions -> 0 .. Attempts - 1]
         /\ downAt \in [Sessions -> 0 .. Candles + 1]
         /\ \A d \in Callers : call[d].session \in 0 .. born /\ call[d].tries \in 0 .. MaxRetries
         /\ \A s \in Sessions : s \in 1 .. MaxSessions /\ FlowOK(s)
<1>1. /\ TypeOK /\ CallsOK /\ downAt \in [Sessions -> 0 .. Candles + 1]
      /\ \A s \in Sessions : FlowOK(s)
  BY DEF LiveInv, Never
<1>2. /\ born \in 0 .. MaxSessions /\ context \in 0 .. born /\ calls \in 0 .. MaxCalls
      /\ state \in [Sessions -> LiveSessionState]
      /\ connected \subseteq 1 .. born /\ stopRequested \subseteq 1 .. born
      /\ feeder \in [Sessions -> {"none", "checking", "pushing", "done"}]
      /\ engine \in [Sessions -> {"none", "reading", "timed_out", "sending", "done"}]
      /\ pushed \in [Sessions -> 0 .. Candles] /\ taken \in [Sessions -> 0 .. Candles]
      /\ attempted \in [Sessions -> 0 .. Attempts - 1]
      /\ \A d \in Callers : call[d].session \in 0 .. born /\ call[d].tries \in 0 .. MaxRetries
  BY <1>1 DEF TypeOK
<1>3. born \in Nat /\ born <= MaxSessions /\ MaxSessions \in Nat /\ Candles \in Nat
  BY <1>2, Bounds
<1>4. \A s \in Sessions : s \in 1 .. MaxSessions
  BY DEF Sessions
<1> QED
  BY <1>1, <1>2, <1>3, <1>4

\* A session is started: it is connected before its threads run.
LEMMA StartStep ==
  ASSUME LiveInv, Start
  PROVE  LiveInv'
<1> DEFINE b == born + 1
<1>1. /\ born \in Nat /\ b \in Sessions /\ b \in 1 .. MaxSessions
      /\ \A s \in Sessions : s \in 1 .. MaxSessions
  BY LiveFacts DEF Start, Sessions
<1>2. /\ born' = b /\ context' = b
      /\ state' = [state EXCEPT ![b] = "Trading"] /\ connected' = connected \cup {b}
      /\ feeder' = [feeder EXCEPT ![b] = "checking"]
      /\ engine' = [engine EXCEPT ![b] = "reading"]
      /\ UNCHANGED <<stopRequested, pushed, taken, attempted, call, calls, downAt>>
  BY DEF Start
<1>3. \A d \in Callers : call[d].session \in 0 .. b
  BY <1>1, LiveFacts
<1>4. TypeOK'
  <2>1. state' \in [Sessions -> LiveSessionState]
    BY <1>2, LiveFacts DEF LiveSessionState
  <2>2. /\ feeder' \in [Sessions -> {"none", "checking", "pushing", "done"}]
        /\ engine' \in [Sessions -> {"none", "reading", "timed_out", "sending", "done"}]
    BY <1>2, LiveFacts
  <2>3. connected' \subseteq 1 .. b /\ stopRequested' \subseteq 1 .. b
    BY <1>1, <1>2, LiveFacts
  <2>4. context' \in 0 .. b /\ b \in 0 .. MaxSessions
    BY <1>1, <1>2
  <2> QED
    BY <1>2, <1>3, <2>1, <2>2, <2>3, <2>4, LiveFacts DEF TypeOK
<1>5. CallsOK'
  <2>1. CallSet \subseteq CallSet'
    <3>1. 0 .. born \subseteq 0 .. b
      BY <1>1
    <3> QED
      BY <1>2, <3>1 DEF CallSet
  <2>2. call \in [Callers -> CallSet] /\ \A c \in Callers : call[c].todo # <<>> => call[c].session # 0
    BY LiveFacts DEF CallsOK
  <2>3. call \in [Callers -> CallSet']
    BY <2>1, <2>2
  <2> QED
    BY <1>2, <2>2, <2>3 DEF CallsOK
<1>6. \A s \in Sessions : FlowOK(s)'
  <2> SUFFICES ASSUME NEW s \in Sessions PROVE FlowOK(s)'
    OBVIOUS
  <2>1. CASE s = b
    <3>1. feeder'[b] = "checking" /\ engine'[b] = "reading" /\ b \in connected'
      BY <1>1, <1>2, LiveFacts
    <3>2. ~(b > b) /\ downAt'[b] \in 0 .. Never
      BY <1>1, <1>2, LiveFacts DEF FlowOK
    <3> HIDE DEF b
    <3> QED
      BY <1>2, <2>1, <3>1, <3>2 DEF FlowOK
  <2>2. CASE s # b
    <3>1. /\ state'[s] = state[s] /\ feeder'[s] = feeder[s] /\ engine'[s] = engine[s]
          /\ (s \in connected' <=> s \in connected)
      BY <1>1, <1>2, <2>2, LiveFacts
    <3>2. (s > b => s > born) /\ (s <= b => s <= born)
      BY <1>1, <2>2
    <3>3. FlowOK(s)
      BY LiveFacts
    <3> HIDE DEF b
    <3> QED
      BY <1>2, <3>1, <3>2, <3>3 DEF FlowOK
  <2> QED
    BY <2>1, <2>2
<1>7. downAt' \in [Sessions -> 0 .. Never]
  BY <1>2 DEF LiveInv
<1> QED
  BY <1>4, <1>5, <1>6, <1>7 DEF LiveInv

\* A call begins, checks a transition, schedules more steps, or ends.
LEMMA CallStep ==
  ASSUME LiveInv,
         \/ Stop \/ \E o \in Operators : Call(o)
         \/ \E c \in Callers : \/ CheckTransition(c) \/ TryConnect(c) \/ TryReconnect(c)
                               \/ VerifyConnected(c) \/ Return(c)
  PROVE  LiveInv'
<1>1. /\ CallsOK /\ TypeOK /\ born \in Nat /\ context \in 0 .. born /\ calls \in 0 .. MaxCalls
  BY LiveFacts
<1>2. UNCHANGED <<born, sessionVars, feederVars, engineVars, downAt>>
  BY DEF Stop, Call, CheckTransition, TryConnect, TryReconnect, VerifyConnected, Return
<1>3. born' = born
  BY <1>2
<1> SUFFICES /\ CallsOK'
             /\ \A d \in Callers :
                  call'[d].session \in 0 .. born /\ call'[d].tries \in 0 .. MaxRetries
             /\ context' \in 0 .. born /\ calls' \in 0 .. MaxCalls
  BY <1>2, SessionsStay
<1>4. CASE Stop
  <2>1. context \in 1 .. born /\ "stop" \in MethodNames /\ "api" \in Callers
    BY <1>1, <1>4 DEF Stop, MethodNames, Callers
  <2> QED
    BY <1>1, <1>3, <1>4, <2>1, Begins DEF Stop
<1>5. CASE \E o \in Operators : Call(o)
  <2>1. PICK o \in Operators : Call(o)
    BY <1>5
  <2>2. PICK op \in Ops, s \in 1 .. born : Begin(o, op, s)
    BY <2>1 DEF Call
  <2>3. o \in Callers /\ op \in MethodNames
    BY LiveAssumption DEF Callers, MethodNames
  <2>4. calls' \in 0 .. MaxCalls /\ context' = context
    BY <1>1, <2>1, Bounds DEF Call
  <2> QED
    BY <1>1, <1>3, <2>2, <2>3, <2>4, Begins
<1>6. ASSUME NEW c \in Callers, CheckTransition(c)
      PROVE  /\ CallsOK'
             /\ \A d \in Callers :
                  call'[d].session \in 0 .. born /\ call'[d].tries \in 0 .. MaxRetries
             /\ context' \in 0 .. born /\ calls' \in 0 .. MaxCalls
  <2>1. call[c].todo # <<>> /\ (Then(c, <<>>) \/ Raises(c)) /\ UNCHANGED <<context, calls>>
    BY <1>6 DEF CheckTransition, Doing
  <2>2. <<>> \in Seq(StepSet)
    OBVIOUS
  <2> QED
    BY <1>1, <1>3, <2>1, <2>2, GoesOn, GoesIdle
<1>7. ASSUME NEW c \in Callers, TryConnect(c) \/ VerifyConnected(c)
      PROVE  /\ CallsOK'
             /\ \A d \in Callers :
                  call'[d].session \in 0 .. born /\ call'[d].tries \in 0 .. MaxRetries
             /\ context' \in 0 .. born /\ calls' \in 0 .. MaxCalls
  <2>1. call[c].todo # <<>> /\ UNCHANGED <<context, calls>>
    BY <1>7 DEF TryConnect, VerifyConnected, Doing
  <2>2. \E more \in Seq(StepSet) : Then(c, more)
    <3>1. "Error" \in LiveSessionState /\ "Connected" \in LiveSessionState
      BY DEF LiveSessionState
    <3>2. /\ Connect \o Transition("Connected") \in Seq(StepSet)
          /\ Transition("Error") \in Seq(StepSet) /\ Transition("Connected") \in Seq(StepSet)
          /\ <<Step("reconnect", "")>> \in Seq(StepSet)
      BY <3>1, StepsOfMethods
    <3> QED
      BY <1>7, <3>2, Zenon DEF TryConnect, VerifyConnected
  <2> QED
    BY <1>1, <1>3, <2>1, <2>2, GoesOn
<1>8. ASSUME NEW c \in Callers, TryReconnect(c)
      PROVE  /\ CallsOK'
             /\ \A d \in Callers :
                  call'[d].session \in 0 .. born /\ call'[d].tries \in 0 .. MaxRetries
             /\ context' \in 0 .. born /\ calls' \in 0 .. MaxCalls
  <2>1. call[c].todo # <<>> /\ UNCHANGED <<context, calls>>
    BY <1>8 DEF TryReconnect, Doing
  <2>2. CASE call[c].tries < MaxRetries
    <3>1. PICK more \in {Connect \o <<Step("verify", "")>>, <<Step("reconnect", "")>>} :
            call' = [call EXCEPT ![c].todo = more \o Tail(@), ![c].tries = @ + 1]
      BY <1>8, <2>2 DEF TryReconnect
    <3>2. more \in Seq(StepSet)
      BY StepsOfMethods
    <3> QED
      BY <1>1, <1>3, <2>1, <2>2, <3>1, <3>2, Retries
  <2>3. CASE ~(call[c].tries < MaxRetries)
    <3>1. Then(c, Transition("Stopping") \o Transition("Stopped"))
      BY <1>8, <2>3 DEF TryReconnect
    <3> QED
      BY <1>1, <1>3, <2>1, <3>1, StepsOfMethods, GoesOn
  <2> QED
    BY <2>2, <2>3
<1>9. ASSUME NEW c \in Callers, Return(c)
      PROVE  /\ CallsOK'
             /\ \A d \in Callers :
                  call'[d].session \in 0 .. born /\ call'[d].tries \in 0 .. MaxRetries
             /\ context' \in 0 .. born /\ calls' \in 0 .. MaxCalls
  <2>1. Raises(c) /\ calls' = calls /\ context' \in 0 .. born
    BY <1>1, <1>9 DEF Return, Raises
  <2> QED
    BY <1>1, <1>3, <2>1, GoesIdle
<1> QED
  BY <1>4, <1>5, <1>6, <1>7, <1>8, <1>9

\* A call writes one piece of its session: the state, or a flag of the feed.
LEMMA WriteStep ==
  ASSUME LiveInv, NEW c \in Callers, SetState(c) \/ RaiseFlag(c) \/ DropFlag(c)
  PROVE  LiveInv'
<1> DEFINE z == call[c].session
           e == Head(call[c].todo)
<1>1. /\ call[c].todo # <<>> /\ Then(c, <<>>)
      /\ UNCHANGED <<context, born, feederVars, engineVars, calls>>
  BY DEF SetState, RaiseFlag, DropFlag, Doing
<1>2. /\ TypeOK /\ CallsOK /\ z \in 1 .. born /\ z \in Sessions /\ e \in StepSet
      /\ born \in Nat /\ Candles \in Nat
  BY <1>1, LiveFacts, CallFacts
<1>3. CallsOK' /\ \A d \in Callers :
                    call'[d].session \in 0 .. born /\ call'[d].tries \in 0 .. MaxRetries
  <2>1. <<>> \in Seq(StepSet) /\ born' = born
    BY <1>1
  <2> QED
    BY <1>1, <1>2, <2>1, GoesOn
<1>4. CASE SetState(c)
  <2>1. e.to \in LiveSessionState
    <3> HIDE DEF e
    <3>1. e.do = "set"
      BY <1>4 DEF SetState, Doing, e
    <3> QED
      BY <1>2, <3>1 DEF StepSet
  <2>2. state' = [state EXCEPT ![z] = e.to] /\ UNCHANGED <<connected, stopRequested, downAt>>
    BY <1>4 DEF SetState
  <2> HIDE DEF e, z
  <2>3. state' \in [Sessions -> LiveSessionState]
    BY <2>1, <2>2, LiveFacts
  <2>4. TypeOK'
    BY <1>1, <1>3, <2>2, <2>3, LiveFacts DEF TypeOK, feederVars, engineVars
  <2>5. \A s \in Sessions : FlowOK(s)'
    <3> SUFFICES ASSUME NEW s \in Sessions PROVE FlowOK(s)'
      OBVIOUS
    <3>1. FlowOK(s)
      BY LiveFacts
    <3>2. s > born => state'[s] = state[s]
      <4>1. s > born => s # z
        BY <1>2
      <4> QED
        BY <2>2, <4>1, LiveFacts
    <3> QED
      BY <1>1, <2>2, <3>1, <3>2 DEF FlowOK, feederVars, engineVars
  <2> QED
    BY <1>3, <2>2, <2>4, <2>5 DEF LiveInv
<1>5. CASE RaiseFlag(c)
  <2>1. /\ connected' = connected \cup {z} \/ connected' = connected
        /\ stopRequested' = stopRequested \cup {z} \/ stopRequested' = stopRequested
        /\ UNCHANGED <<state, downAt>>
    BY <1>5 DEF RaiseFlag
  <2> HIDE DEF e, z
  <2>2. connected' \subseteq 1 .. born /\ stopRequested' \subseteq 1 .. born
    BY <1>2, <2>1, LiveFacts
  <2>3. TypeOK'
    BY <1>1, <1>3, <2>1, <2>2, LiveFacts DEF TypeOK, feederVars, engineVars
  <2>4. \A s \in Sessions : FlowOK(s)'
    <3> SUFFICES ASSUME NEW s \in Sessions PROVE FlowOK(s)'
      OBVIOUS
    <3>1. FlowOK(s) /\ (s \notin connected' => s \notin connected)
      BY <2>1, LiveFacts
    <3> QED
      BY <1>1, <2>1, <3>1 DEF FlowOK, feederVars, engineVars
  <2> QED
    BY <1>3, <2>1, <2>3, <2>4 DEF LiveInv
<1>6. CASE DropFlag(c) /\ e.to = "up"
  <2>1. /\ connected' = connected \ {z} /\ downAt' = [downAt EXCEPT ![z] = pushed[z]]
        /\ UNCHANGED <<state, stopRequested>>
    BY <1>6 DEF DropFlag
  <2> HIDE DEF e, z
  <2>2. connected' \subseteq 1 .. born /\ stopRequested' \subseteq 1 .. born
    BY <1>2, <2>1, LiveFacts
  <2>3. TypeOK'
    BY <1>1, <1>3, <2>1, <2>2, LiveFacts DEF TypeOK, feederVars, engineVars
  <2>4. pushed[z] \in 0 .. Candles
    BY <1>2, LiveFacts
  <2>5. downAt' \in [Sessions -> 0 .. Candles + 1]
    <3>1. pushed[z] \in 0 .. Candles + 1
      BY <1>2, <2>4
    <3> QED
      BY <2>1, <3>1, LiveFacts
  <2>6. \A s \in Sessions : FlowOK(s)'
    <3> SUFFICES ASSUME NEW s \in Sessions PROVE FlowOK(s)'
      OBVIOUS
    <3>1. CASE s = z
      <4>1. downAt'[z] = pushed[z] /\ z \notin connected'
        BY <1>2, <2>1, LiveFacts
      <4>2. pushed[z] # Never /\ pushed[z] \in 0 .. Never /\ pushed[z] <= pushed[z] + 1
        BY <1>2, <2>4 DEF Never
      <4>3. FlowOK(z) /\ ~(z > born) /\ pushed[z] <= pushed[z]
        BY <1>2, <2>4, LiveFacts
      <4> QED
        BY <1>1, <2>1, <3>1, <4>1, <4>2, <4>3 DEF FlowOK, feederVars, engineVars
    <3>2. CASE s # z
      <4>1. FlowOK(s) /\ downAt'[s] = downAt[s] /\ (s \in connected' <=> s \in connected)
        BY <2>1, <3>2, LiveFacts
      <4> QED
        BY <1>1, <2>1, <4>1 DEF FlowOK, feederVars, engineVars
    <3> QED
      BY <3>1, <3>2
  <2> QED
    BY <1>3, <2>3, <2>5, <2>6 DEF LiveInv, Never
<1>7. CASE DropFlag(c) /\ e.to # "up"
  <2>1. stopRequested' = stopRequested \ {z} /\ UNCHANGED <<state, connected, downAt>>
    BY <1>7 DEF DropFlag
  <2> HIDE DEF e, z
  <2>2. stopRequested' \subseteq 1 .. born
    BY <2>1, LiveFacts
  <2>3. TypeOK'
    BY <1>1, <1>3, <2>1, <2>2, LiveFacts DEF TypeOK, feederVars, engineVars
  <2>4. \A s \in Sessions : FlowOK(s)'
    BY <1>1, <2>1, LiveFacts DEF FlowOK, feederVars, engineVars
  <2> QED
    BY <1>3, <2>1, <2>3, <2>4 DEF LiveInv
<1> QED
  BY <1>4, <1>5, <1>6, <1>7

\* The feed's thread looks at the flags, then pushes: at most one candle after a
\* disconnection, since it looks again before the next.
LEMMA FeederKeeps ==
  ASSUME LiveInv, NEW z \in Sessions, FeederStep(z)
  PROVE  LiveInv'
<1>1. UNCHANGED <<context, born, sessionVars, engineVars, call, calls, downAt>>
  BY DEF FeederStep, CheckFeed, Push
<1>2. CallsOK'
  BY <1>1, LiveFacts DEF CallsOK, CallSet
<1>3. CASE CheckFeed(z)
  <2>1. /\ feeder[z] = "checking" /\ pushed' = pushed
        /\ feeder' = [feeder EXCEPT ![z] =
             IF pushed[z] = Candles \/ z \notin connected \/ z \in stopRequested
             THEN "done" ELSE "pushing"]
    BY <1>3 DEF CheckFeed
  <2>2. feeder' \in [Sessions -> {"none", "checking", "pushing", "done"}]
    BY <2>1, LiveFacts
  <2>3. TypeOK'
    BY <1>1, <2>1, <2>2, LiveFacts DEF TypeOK, sessionVars, engineVars
  <2>4. \A s \in Sessions : FlowOK(s)'
    <3> SUFFICES ASSUME NEW s \in Sessions PROVE FlowOK(s)'
      OBVIOUS
    <3>1. FlowOK(s) /\ pushed[s] \in 0 .. Candles /\ Candles \in Nat
      BY LiveFacts
    <3>2. CASE s = z
      <4>1. feeder'[z] = "pushing" => z \in connected /\ pushed[z] < Candles
        BY <2>1, <3>1, <3>2, LiveFacts
      <4>2. ~(z > born)
        BY <2>1, <3>1, <3>2 DEF FlowOK
      <4> QED
        BY <1>1, <2>1, <3>1, <3>2, <4>1, <4>2 DEF FlowOK, sessionVars, engineVars
    <3>3. CASE s # z
      <4>1. feeder'[s] = feeder[s]
        BY <2>1, <3>3, LiveFacts
      <4> QED
        BY <1>1, <2>1, <3>1, <4>1 DEF FlowOK, sessionVars, engineVars
    <3> QED
      BY <3>2, <3>3
  <2> QED
    BY <1>1, <1>2, <2>3, <2>4 DEF LiveInv
<1>4. CASE Push(z)
  <2>1. /\ feeder[z] = "pushing" /\ pushed' = [pushed EXCEPT ![z] = pushed[z] + 1]
        /\ feeder' = [feeder EXCEPT ![z] = "checking"]
    BY <1>4 DEF Push
  <2>2. FlowOK(z) /\ pushed[z] \in 0 .. Candles /\ Candles \in Nat /\ pushed[z] < Candles
        /\ downAt[z] \in 0 .. Candles + 1
    BY <2>1, LiveFacts DEF FlowOK
  <2>3. /\ feeder' \in [Sessions -> {"none", "checking", "pushing", "done"}]
        /\ pushed' \in [Sessions -> 0 .. Candles]
    <3>1. pushed[z] + 1 \in 0 .. Candles
      BY <2>2
    <3> QED
      BY <2>1, <3>1, LiveFacts
  <2>4. TypeOK'
    BY <1>1, <2>3, LiveFacts DEF TypeOK, sessionVars, engineVars
  <2>5. \A s \in Sessions : FlowOK(s)'
    <3> SUFFICES ASSUME NEW s \in Sessions PROVE FlowOK(s)'
      OBVIOUS
    <3>1. FlowOK(s)
      BY LiveFacts
    <3>2. CASE s = z
      <4>1. feeder'[z] = "checking" /\ pushed'[z] = pushed[z] + 1 /\ ~(z > born)
        BY <2>1, <2>2, LiveFacts DEF FlowOK
      <4>2. z \notin connected /\ downAt[z] # Never => pushed[z] + 1 <= downAt[z] + 1
        BY <2>1, <2>2 DEF FlowOK
      <4> QED
        BY <1>1, <3>1, <3>2, <4>1, <4>2 DEF FlowOK, sessionVars, engineVars
    <3>3. CASE s # z
      <4>1. feeder'[s] = feeder[s] /\ pushed'[s] = pushed[s]
        BY <2>1, <3>3, LiveFacts
      <4> QED
        BY <1>1, <3>1, <4>1 DEF FlowOK, sessionVars, engineVars
    <3> QED
      BY <3>2, <3>3
  <2> QED
    BY <1>1, <1>2, <2>4, <2>5 DEF LiveInv
<1> QED
  BY <1>3, <1>4 DEF FeederStep

\* The engine's thread ends on the last candle or on a disconnected feed.
LEMMA EngineKeeps ==
  ASSUME LiveInv, NEW z \in Sessions, EngineStep(z)
  PROVE  LiveInv'
<1>1. UNCHANGED <<context, born, sessionVars, feederVars, call, calls, downAt>>
  BY DEF EngineStep, Take, Complete, TimeOut, AfterTimeout, Send
<1>2. CallsOK'
  BY <1>1, LiveFacts DEF CallsOK, CallSet
<1>3. engine[z] # "none"
  BY DEF EngineStep, Take, Complete, TimeOut, AfterTimeout, Send
<1>4. PICK to \in {"reading", "timed_out", "sending", "done"} : Moves(z, to)
  BY DEF EngineStep, Take, Complete, TimeOut, AfterTimeout, Send
<1>5. taken' \in [Sessions -> 0 .. Candles] /\ \A s \in Sessions : taken'[s] >= taken[s]
  <2>1. taken' = taken \/ (taken[z] < Candles /\ taken' = [taken EXCEPT ![z] = taken[z] + 1])
    <3>1. CASE Take(z)
      BY <3>1 DEF Take
    <3>2. CASE Complete(z) \/ TimeOut(z)
      BY <3>2 DEF Complete, TimeOut
    <3>3. CASE AfterTimeout(z)
      BY <3>3 DEF AfterTimeout
    <3>4. CASE Send(z)
      BY <3>4 DEF Send
    <3> QED
      BY <3>1, <3>2, <3>3, <3>4 DEF EngineStep
  <2>2. taken[z] \in 0 .. Candles /\ Candles \in Nat
    BY LiveFacts
  <2>3. taken[z] < Candles => taken[z] + 1 \in 0 .. Candles
    BY <2>2
  <2> QED
    BY <2>1, <2>2, <2>3, LiveFacts
<1>6. attempted' \in [Sessions -> 0 .. Attempts - 1]
  <2>1. \/ attempted' = attempted
        \/ attempted' = [attempted EXCEPT ![z] = 0]
        \/ attempted[z] + 1 # Attempts /\ attempted' = [attempted EXCEPT ![z] = attempted[z] + 1]
    <3>1. CASE Send(z)
      <4>1. PICK sent \in BOOLEAN :
              attempted' = [attempted EXCEPT ![z] =
                            IF sent \/ attempted[z] + 1 = Attempts THEN 0 ELSE @ + 1]
        BY <3>1 DEF Send
      <4> QED
        BY <4>1
    <3>2. CASE ~Send(z)
      BY <3>2 DEF EngineStep, Take, Complete, TimeOut, AfterTimeout
    <3> QED
      BY <3>1, <3>2
  <2>2. attempted[z] \in 0 .. Attempts - 1 /\ Attempts \in Nat /\ Attempts > 0
    BY LiveFacts, Bounds
  <2>3. 0 \in 0 .. Attempts - 1 /\ (attempted[z] + 1 # Attempts => attempted[z] + 1 \in 0 .. Attempts - 1)
    BY <2>2
  <2> QED
    BY <2>1, <2>3, LiveFacts
<1>7. engine' = [engine EXCEPT ![z] = to]
  BY <1>4 DEF Moves
<1>8. engine' \in [Sessions -> {"none", "reading", "timed_out", "sending", "done"}]
  BY <1>7, LiveFacts
<1>9. TypeOK'
  BY <1>1, <1>5, <1>6, <1>8, LiveFacts DEF TypeOK, sessionVars, feederVars
<1>10. \A s \in Sessions : FlowOK(s)'
  <2> SUFFICES ASSUME NEW s \in Sessions PROVE FlowOK(s)'
    OBVIOUS
  <2>1. FlowOK(s) /\ taken[s] \in 0 .. Candles /\ taken'[s] \in 0 .. Candles
        /\ taken'[s] >= taken[s] /\ Candles \in Nat
    BY <1>5, LiveFacts
  <2>2. taken[s] = Candles => taken'[s] = Candles
    BY <2>1
  <2>3. CASE s = z
    <3>1. ~(z > born)
      BY <1>3, <2>1, <2>3 DEF FlowOK
    <3>2. to = "done" => taken'[z] = Candles \/ downAt[z] # Never
      <4>1. CASE Complete(z)
        BY <2>2, <2>3, <4>1 DEF Complete
      <4>2. CASE AfterTimeout(z)
        <5>1. CASE z \in connected
          BY <1>7, <4>2, <5>1, LiveFacts DEF AfterTimeout, Moves
        <5>2. CASE z \notin connected
          <6>1. z <= born
            BY <3>1, LiveFacts
          <6> QED
            BY <2>1, <2>3, <5>2, <6>1 DEF FlowOK
        <5> QED
          BY <5>1, <5>2
      <4>3. CASE Take(z) \/ TimeOut(z) \/ Send(z)
        <5>1. engine'[z] # "done"
          BY <4>3, LiveFacts DEF Take, TimeOut, Send, Moves
        <5> QED
          BY <1>7, <5>1, LiveFacts
      <4> QED
        BY <4>1, <4>2, <4>3 DEF EngineStep
    <3>3. engine'[z] = to
      BY <1>7, LiveFacts
    <3> QED
      BY <1>1, <2>1, <2>3, <3>1, <3>2, <3>3 DEF FlowOK, sessionVars, feederVars
  <2>4. CASE s # z
    <3>1. engine'[s] = engine[s]
      BY <1>7, <2>4, LiveFacts
    <3> QED
      BY <1>1, <2>1, <2>2, <3>1 DEF FlowOK, sessionVars, feederVars
  <2> QED
    BY <2>3, <2>4
<1> QED
  BY <1>1, <1>2, <1>9, <1>10 DEF LiveInv

\* Every step keeps the invariant.
LEMMA LiveStep ==
  ASSUME LiveInv, [Next]_vars
  PROVE  LiveInv'
<1>1. CASE UNCHANGED vars
  BY <1>1 DEF vars, sessionVars, feederVars, engineVars, LiveInv, TypeOK, CallsOK, CallSet, FlowOK
<1>2. CASE Next
  <2>1. ASSUME NEW c \in Callers, Proceed(c) PROVE LiveInv'
    BY <2>1, CallStep, WriteStep DEF Proceed
  <2>2. CASE Start
    BY <2>2, StartStep
  <2>3. CASE Stop \/ \E o \in Operators : Call(o)
    BY <2>3, CallStep
  <2>4. CASE \E s \in Sessions : FeederStep(s) \/ EngineStep(s)
    BY <2>4, FeederKeeps, EngineKeeps
  <2> QED
    BY <1>2, <2>1, <2>2, <2>3, <2>4 DEF Next
<1> QED
  BY <1>1, <1>2

\* Nothing has started and every caller is idle.
LEMMA LiveStarts ==
  ASSUME Init
  PROVE  LiveInv
<1>1. /\ context = 0 /\ born = 0 /\ calls = 0
      /\ state = [s \in Sessions |-> "Initializing"]
      /\ connected = {} /\ stopRequested = {}
      /\ feeder = [s \in Sessions |-> "none"] /\ pushed = [s \in Sessions |-> 0]
      /\ engine = [s \in Sessions |-> "none"] /\ taken = [s \in Sessions |-> 0]
      /\ attempted = [s \in Sessions |-> 0]
      /\ call = [c \in Callers |-> Idle]
      /\ downAt = [s \in Sessions |-> Never]
  BY DEF Init, FeedInit, SourceInit
<1>2. Idle \in CallSet /\ Idle.todo = <<>> /\ Idle.session = 0 /\ Idle.tries = 0
  <2>1. 0 \in 0 .. MaxRetries /\ 0 \in 0 .. born
    BY <1>1, Bounds
  <2>2. <<>> \in Seq(StepSet)
    OBVIOUS
  <2> QED
    BY <2>1, <2>2 DEF Idle, CallSet
<1>3. CallsOK
  BY <1>1, <1>2 DEF CallsOK
<1>4. /\ 0 \in 0 .. born /\ born \in 0 .. MaxSessions /\ 0 \in 0 .. MaxCalls
      /\ 0 \in 0 .. Candles /\ 0 \in 0 .. Attempts - 1 /\ 0 \in 0 .. MaxRetries
      /\ Never \in 0 .. Never
  BY <1>1, Bounds DEF Never
<1>5. TypeOK
  <2>1. "Initializing" \in LiveSessionState
    BY DEF LiveSessionState
  <2>2. \A c \in Callers : call[c].session = 0 /\ call[c].tries = 0
    BY <1>1, <1>2
  <2> QED
    BY <1>1, <1>4, <2>1, <2>2 DEF TypeOK
<1>6. \A s \in Sessions : FlowOK(s)
  <2> SUFFICES ASSUME NEW s \in Sessions PROVE FlowOK(s)
    OBVIOUS
  <2>1. s \in Nat /\ s > 0
    BY Bounds DEF Sessions
  <2>2. s > born /\ ~(s <= born)
    BY <1>1, <2>1
  <2> QED
    BY <1>1, <1>4, <2>2 DEF FlowOK
<1>7. downAt \in [Sessions -> 0 .. Never]
  BY <1>1, <1>4
<1> QED
  BY <1>3, <1>5, <1>6, <1>7 DEF LiveInv

\* The inductive invariant holds throughout every live day, whichever methods the
\* operator calls and however the feed and the engine are scheduled.
THEOREM LiveInvariant == Spec => []LiveInv
<1>1. Init => LiveInv
  BY LiveStarts
<1>2. LiveInv /\ [Next]_vars => LiveInv'
  BY LiveStep
<1> QED
  BY <1>1, <1>2, PTL DEF Spec

\* However the threads interleave, a disconnected feed puts at most one more
\* candle on its queue.
THEOREM StopsDrain == Spec => []StopDrains
<1>1. LiveInv => StopDrains
  BY DEF LiveInv, StopDrains, FlowOK
<1> QED
  BY <1>1, LiveInvariant, PTL

\* The engine's thread ends with all its data or on a feed somebody disconnected.
THEOREM EnginesEndForAReason == Spec => []EndsForAReason
<1>1. LiveInv => EndsForAReason
  BY DEF LiveInv, EndsForAReason, FlowOK
<1> QED
  BY <1>1, LiveInvariant, PTL

-----------------------------------------------------------------------------
(* Stopped for good *)

\* A stopped session stays stopped because every call still to be made on it
\* begins by checking a transition, and the table has none out of Stopped.
Closed(s) ==
  /\ state[s] = "Stopped" /\ s \notin connected
  /\ \A c \in Callers : call[c].session = s =>
       call[c].todo # <<>> /\ Head(call[c].todo).do = "check"

\* A session shut down or stopped stays so: no method leaves those two states.
LEMMA ClosedStays ==
  ASSUME LiveInv, NEW s \in Sessions, Closed(s), [Next]_vars
  PROVE  Closed(s)'
<1>1. /\ s \in 1 .. MaxSessions /\ TypeOK /\ CallsOK /\ born \in Nat
      /\ call \in [Callers -> CallSet] /\ state \in [Sessions -> LiveSessionState]
  BY LiveFacts DEF CallsOK
<1>2. s # 0 /\ s \in 1 .. born
  <2>1. ~(s > born)
    BY LiveFacts DEF FlowOK, Closed
  <2> QED
    BY <1>1, <2>1
<1>4. CASE UNCHANGED vars
  BY <1>4 DEF vars, sessionVars, Closed
<1>5. CASE Start
  <2>1. s # born + 1 /\ UNCHANGED call /\ connected' = connected \cup {born + 1}
        /\ state' = [state EXCEPT ![born + 1] = "Trading"]
    BY <1>1, <1>2, <1>5 DEF Start
  <2> QED
    BY <1>1, <2>1 DEF Closed
<1>6. ASSUME NEW c \in Callers, NEW op \in MethodNames, NEW z, Begin(c, op, z),
             UNCHANGED sessionVars
      PROVE  Closed(s)'
  <2>1. Head(Program[op]).do = "check" /\ Program[op] # <<>>
    BY MethodsCheckFirst
  <2> DEFINE r == [op |-> op, session |-> z, todo |-> Program[op], tries |-> 0]
  <2>2. call' = [call EXCEPT ![c] = r]
    BY <1>6 DEF Begin
  <2>3. r.todo = Program[op]
    OBVIOUS
  <2> HIDE DEF r
  <2>4. \A d \in Callers : call'[d] = IF d = c THEN r ELSE call[d]
    BY <1>1, <2>2
  <2> QED
    BY <1>6, <2>1, <2>3, <2>4 DEF Closed, sessionVars
<1>7. CASE Stop
  <2>1. "api" \in Callers /\ "stop" \in MethodNames
    BY DEF Callers, MethodNames
  <2> QED
    BY <1>6, <1>7, <2>1 DEF Stop
<1>8. CASE \E o \in Operators : Call(o)
  <2>1. Operators \subseteq Callers /\ Ops \subseteq MethodNames
    BY LiveAssumption DEF Callers, MethodNames
  <2>2. PICK o \in Operators : Call(o)
    BY <1>8
  <2>3. PICK op \in Ops, z \in 1 .. born : Begin(o, op, z)
    BY <2>2 DEF Call
  <2> QED
    BY <1>6, <2>1, <2>2, <2>3 DEF Call
<1>9. ASSUME NEW c \in Callers, Proceed(c) PROVE Closed(s)'
  <2>1. \A d \in Callers : d # c => call'[d] = call[d]
    BY <1>1, <1>9 DEF Proceed, CheckTransition, SetState, RaiseFlag, DropFlag, TryConnect,
                      TryReconnect, VerifyConnected, Return, Then, Raises
  <2>2. CASE call[c].session = s
    <3>1. call[c].todo # <<>> /\ Head(call[c].todo).do = "check"
      BY <2>2 DEF Closed
    <3>2. CheckTransition(c)
      BY <1>9, <3>1 DEF Proceed, SetState, RaiseFlag, DropFlag, TryConnect, TryReconnect,
                        VerifyConnected, Return, Doing
    <3>3. LIVE_SESSION_STATE_TRANSITIONS["Stopped"] = {}
      BY DEF LIVE_SESSION_STATE_TRANSITIONS, LiveSessionState
    <3>4. Raises(c) /\ UNCHANGED sessionVars
      BY <2>2, <3>2, <3>3 DEF CheckTransition, Closed
    <3>5. call'[c] = Idle
      BY <1>1, <3>4 DEF Raises
    <3>6. call'[c].session # s
      BY <1>2, <3>5 DEF Idle
    <3> QED
      BY <2>1, <3>4, <3>6 DEF Closed, sessionVars
  <2>3. CASE call[c].session # s
    <3>1. state'[s] = state[s] /\ (s \in connected' => s \in connected)
      BY <1>1, <1>9, <2>3 DEF Proceed, CheckTransition, SetState, RaiseFlag, DropFlag, TryConnect,
                      TryReconnect, VerifyConnected, Return, sessionVars
    <3>2. call'[c].session # s
      <4>1. call'[c] = Idle \/ call'[c].session = call[c].session
        BY <1>1, <1>9 DEF Proceed, CheckTransition, SetState, RaiseFlag, DropFlag, TryConnect,
                      TryReconnect, VerifyConnected, Return, Then, Raises, CallSet
      <4> QED
        BY <1>2, <2>3, <4>1 DEF Idle
    <3> QED
      BY <2>1, <3>1, <3>2 DEF Closed
  <2> QED
    BY <2>2, <2>3
<1>10. ASSUME NEW z \in Sessions, FeederStep(z) \/ EngineStep(z) PROVE Closed(s)'
  BY <1>10 DEF FeederStep, EngineStep, CheckFeed, Push, Take, Complete, TimeOut, AfterTimeout, Send,
              sessionVars, Closed
<1> QED
  BY <1>4, <1>5, <1>7, <1>8, <1>9, <1>10 DEF Next

\* Once its calls have returned, no later call brings a stopped session back.
THEOREM StoppedStaysStopped == Spec => StoppedForGood
<1> SUFFICES ASSUME NEW s \in Sessions
             PROVE  Spec => [](state[s] = "Stopped" /\ Quiet(s) /\ s \notin connected
                                => [](state[s] = "Stopped" /\ s \notin connected))
  BY DEF StoppedForGood
<1>1. state[s] = "Stopped" /\ Quiet(s) /\ s \notin connected => Closed(s)
  BY DEF Quiet, Closed
<1>2. Closed(s) => state[s] = "Stopped" /\ s \notin connected
  BY DEF Closed
<1>3. LiveInv /\ Closed(s) /\ [Next]_vars => Closed(s)'
  BY ClosedStays
<1> QED
  BY <1>1, <1>2, <1>3, LiveInvariant, PTL DEF Spec

=============================================================================
