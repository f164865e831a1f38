----------------------------- MODULE LiveOrders -----------------------------
(***************************************************************************)
(* An entry on a real broker: EventProcessor._evaluate_entry from the      *)
(* moment it has an order to submit, through OrderManager.submit, the      *)
(* retries of OrderExecutor and the two calls of ZerodhaBroker - place the *)
(* order, then read its history - to the position that is opened.  The     *)
(* broker answers, fails, or fails to answer after it has acted, and works *)
(* on the orders it holds in its own time.  One thread makes the calls.    *)
(*                                                                         *)
(* An exception that leaves submit() leaves process_candle() and ends the  *)
(* engine's thread ("halted").  No code of the application cancels an      *)
(* order, asks SafetyManager before one, or sends one to close a position. *)
(***************************************************************************)
EXTENDS Integers, Sequences, FiniteSets

CONSTANTS
  Quantity,         \* requested_quantity of an order
  MaxOrderRetries,  \* OrderExecutor._max_retries
  MaxOrders         \* bound: orders created per behaviour

ASSUME OrdersAssumption ==
  Quantity \in Nat \ {0} /\ MaxOrderRetries \in Nat /\ MaxOrders \in Nat

VARIABLES
  orders,     \* OrderManager._orders, in the order created
  opened,     \* quantity of the position each order opened, 0 while none is
  holding,    \* EventProcessor._open_position_id is set
  point,      \* where the engine's thread is
  attempt,    \* _with_retry: transient failures so far
  kiteId,     \* the placement whose history is to be read
  lastKnown,  \* OrderExecutor._last_known_status, by Kite's id
  placed      \* the broker's own book: every order it has accepted

ordersVars == <<orders, opened, holding, point, attempt, kiteId, lastKnown, placed>>

\* The thread's own, untouched by the broker.
local == <<orders, opened, holding, point, attempt, kiteId, lastKnown>>

OrderStatus == {"NEW", "VALIDATED", "SUBMITTED", "PARTIALLY_FILLED", "FILLED",
                "CANCELLED", "REJECTED"}

ORDER_STATUS_TRANSITIONS ==
  [NEW |-> {"VALIDATED", "REJECTED"},
   VALIDATED |-> {"SUBMITTED", "REJECTED"},
   SUBMITTED |-> {"FILLED", "PARTIALLY_FILLED", "CANCELLED", "REJECTED"},
   PARTIALLY_FILLED |-> {"FILLED", "CANCELLED"},
   FILLED |-> {}, CANCELLED |-> {}, REJECTED |-> {}]

KiteStatus == {"OPEN", "COMPLETE", "REJECTED", "CANCELLED"}

\* OPEN stands for all of Kite's pending statuses.
map_order_status ==
  [OPEN |-> "SUBMITTED", COMPLETE |-> "FILLED", REJECTED |-> "REJECTED",
   CANCELLED |-> "CANCELLED"]

Order == [status : OrderStatus, filled : 0 .. Quantity]
Placement == [order : Nat, status : KiteStatus, filled : 0 .. Quantity]

Current == Len(orders)

-----------------------------------------------------------------------------
(* The broker (external)                                                   *)

\* It fills what it holds bit by bit, and may reject or cancel what is left.
Works(k) ==
  /\ placed[k].status = "OPEN"
  /\ \E filled \in placed[k].filled .. Quantity, status \in KiteStatus :
       /\ status = "COMPLETE" <=> filled = Quantity
       /\ status = "REJECTED" => filled = 0
       /\ placed' = [placed EXCEPT ![k].filled = filled, ![k].status = status]
  /\ UNCHANGED local

AcceptOrder ==
  placed' = Append(placed, [order |-> Current, status |-> "OPEN", filled |-> 0])

-----------------------------------------------------------------------------
(* Submitting                                                              *)

\* create_order, validate, and the move to SUBMITTED that precedes the broker call.
Submit ==
  /\ point = "idle" /\ ~holding /\ Current < MaxOrders
  /\ orders' = Append(orders, [status |-> "SUBMITTED", filled |-> 0])
  /\ opened' = Append(opened, 0)
  /\ point' = "placing" /\ attempt' = 0
  /\ UNCHANGED <<holding, kiteId, lastKnown, placed>>

\* A transient failure of either call repeats both, from the placement on.
RetryOrGiveUp ==
  /\ attempt' = attempt + 1
  /\ point' = IF attempt + 1 > MaxOrderRetries THEN "halted" ELSE "placing"

PlaceAnswered ==
  /\ point = "placing"
  /\ AcceptOrder
  /\ kiteId' = Len(placed) + 1 /\ point' = "reading"
  /\ UNCHANGED <<orders, opened, holding, attempt, lastKnown>>

\* ConnectionError, RateLimitError, BrokerUnavailableError: nothing tells whether
\* the order was accepted.
PlaceFailsTransiently ==
  /\ point = "placing"
  /\ AcceptOrder \/ UNCHANGED placed
  /\ RetryOrGiveUp
  /\ UNCHANGED <<orders, opened, holding, kiteId, lastKnown>>

\* Any other exception leaves the executor at once.
PlaceFails ==
  /\ point = "placing"
  /\ AcceptOrder \/ UNCHANGED placed
  /\ point' = "halted"
  /\ UNCHANGED <<orders, opened, holding, attempt, kiteId, lastKnown>>

ReadFailsTransiently ==
  /\ point = "reading"
  /\ RetryOrGiveUp
  /\ UNCHANGED <<orders, opened, holding, kiteId, lastKnown, placed>>

\* Any other exception, an empty history (MappingError) included.
ReadFails ==
  /\ point = "reading"
  /\ point' = "halted"
  /\ UNCHANGED <<orders, opened, holding, attempt, kiteId, lastKnown, placed>>

Answer == placed[kiteId]

\* Mutant: an order the broker is still working on counts as filled.
PendingIsFilled ==
  IF Answer.status = "OPEN" THEN "FILLED" ELSE map_order_status[Answer.status]

Result == map_order_status[Answer.status]

\* The position is opened with what was filled, whatever the status.
OpensFilled == Answer.filled

\* Mutant: the transition is not checked.
AnyTransition == TRUE

LegalTransition == Result \in ORDER_STATUS_TRANSITIONS[orders[Current].status]

(***************************************************************************)
(* The broker's answer: the executor remembers it, OrderManager stores it  *)
(* if it is a legal transition (SUBMITTED again is not), and a position is *)
(* opened with the filled quantity, which must not be zero.                *)
(***************************************************************************)
ReadAnswered ==
  /\ point = "reading"
  /\ lastKnown' = [k \in DOMAIN lastKnown \cup {kiteId} |->
                     IF k = kiteId THEN Result ELSE lastKnown[k]]
  /\ IF LegalTransition
     THEN /\ orders' = [orders EXCEPT ![Current] = [status |-> Result, filled |-> Answer.filled]]
          /\ IF OpensFilled > 0
             THEN /\ opened' = [opened EXCEPT ![Current] = OpensFilled]
                  /\ holding' = TRUE
                  /\ point' = "idle"
             ELSE point' = "halted" /\ UNCHANGED <<opened, holding>>
     ELSE point' = "halted" /\ UNCHANGED <<orders, opened, holding>>
  /\ UNCHANGED <<attempt, kiteId, placed>>

\* _check_exit closes the position in the book; the broker is told nothing.
Exit ==
  /\ point = "idle" /\ holding
  /\ holding' = FALSE
  /\ UNCHANGED <<orders, opened, point, attempt, kiteId, lastKnown, placed>>

-----------------------------------------------------------------------------
OrdersInit ==
  /\ orders = <<>> /\ opened = <<>> /\ holding = FALSE
  /\ point = "idle" /\ attempt = 0 /\ kiteId = 0
  /\ lastKnown = <<>>
  /\ placed = <<>>

OrdersNext ==
  \/ Submit \/ Exit
  \/ PlaceAnswered \/ PlaceFailsTransiently \/ PlaceFails
  \/ ReadAnswered \/ ReadFailsTransiently \/ ReadFails
  \/ \E k \in DOMAIN placed : Works(k)

OrdersSpec == OrdersInit /\ [][OrdersNext]_ordersVars

-----------------------------------------------------------------------------
(* Properties *)

PlacementsOf(o) == {k \in DOMAIN placed : placed[k].order = o}

OrdersTypeOK ==
  /\ orders \in Seq(Order) /\ opened \in Seq(0 .. Quantity) /\ Len(opened) = Len(orders)
  /\ holding \in BOOLEAN
  /\ point \in {"idle", "placing", "reading", "halted"}
  /\ attempt \in 0 .. MaxOrderRetries + 1
  /\ placed \in Seq(Placement)
  /\ kiteId \in 0 .. Len(placed)
  /\ DOMAIN lastKnown \subseteq DOMAIN placed
  /\ \A k \in DOMAIN lastKnown : lastKnown[k] \in OrderStatus

\* What OrderManager says of a finished order is final and true of the broker: one
\* of the order's own placements ended that way with that quantity filled.  Nor
\* does the executor know a placement finished that is not, or is otherwise.
RecordIsTrue ==
  /\ \A o \in DOMAIN orders :
       orders[o].status # "SUBMITTED" =>
         \E k \in PlacementsOf(o) :
           /\ map_order_status[placed[k].status] = orders[o].status
           /\ placed[k].filled = orders[o].filled
  /\ \A k \in DOMAIN lastKnown :
       lastKnown[k] # "SUBMITTED" => lastKnown[k] = map_order_status[placed[k].status]

\* While the engine still trades, an order placed once is on the book with exactly
\* what the broker filled of it: no fill can come in behind the book's back.
PlacedOnceReconciles ==
  \A o \in DOMAIN orders :
    point = "idle" =>
      \A k \in PlacementsOf(o) :
        PlacementsOf(o) = {k} => placed[k].status # "OPEN" /\ opened[o] = placed[k].filled

\* However its calls fail, an order is with the broker at most max_retries + 1 times,
\* so what the broker may fill of it is bounded too.
PlacementsBounded ==
  \A o \in DOMAIN orders : Cardinality(PlacementsOf(o)) <= MaxOrderRetries + 1

=============================================================================
