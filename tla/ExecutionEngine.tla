---------------------------- MODULE ExecutionEngine ----------------------------
(***************************************************************************)
(* ExecutionEngine of rust/src/execution/engine.rs, called by several      *)
(* threads at once.                                                        *)
(*                                                                         *)
(* The engine has no lock of its own: orders is a DashMap, and             *)
(* open_order_ids, positions, fills and reports are each behind their own  *)
(* RwLock.  process_fill and cancel_order keep the entry of their order    *)
(* locked (DashMap::get_mut) from their first line to their return;        *)
(* submit_order gives the entry up before it pushes the id.  A thread is   *)
(* modelled by one step per lock it takes, so other threads come between   *)
(* any two of them.                                                        *)
(*                                                                         *)
(* Left out: commission, slippage, latency and timestamps, which are       *)
(* carried along and decide nothing here; calls that return Err, which     *)
(* change nothing; the constructors of the order types, which only fill in *)
(* a record.                                                               *)
(***************************************************************************)
EXTENDS PositionTracker, FiniteSets, SequencesExt

CONSTANTS
  Orders,          \* the orders clients create, by OrderId
  Symbols,
  Threads,         \* threads calling the engine
  NoThread,
  OrderOf,         \* [Orders -> symbol, side, quantity] of each order
  Prices,          \* prices fills come at
  FillQuantities,  \* quantities of one fill; may exceed what is left
  MaxFills         \* bound: calls of process_fill

ASSUME OrderAssumption ==
  /\ Orders # {}
  /\ OrderOf \in [Orders -> [symbol : Symbols, side : Sides, quantity : Nat \ {0}]]
ASSUME FillAssumption ==
  /\ Prices \subseteq Nat \ {0}
  /\ FillQuantities \subseteq Nat \ {0}
  /\ MaxFills \in Nat
ASSUME ThreadAssumption == IsFiniteSet(Threads) /\ NoThread \notin Threads

VARIABLES
  caller,     \* status of the Order object the client holds and submits
  orders,     \* the DashMap: order id -> stored order
  openIds,    \* open_order_ids: how many entries of the Vec are this id
  positions,  \* PositionTracker.positions
  fills,      \* fill history
  reports,    \* execution reports
  lock,       \* order id -> thread holding the entry through get_mut
  pc,         \* what each thread is about to do
  op,         \* arguments of the call each thread is in
  fillCalls,  \* number of process_fill calls so far, bounded by MaxFills
  cancelled   \* history: orders for which cancel_order has returned Ok

vars == <<caller, orders, openIds, positions, fills, reports, lock, pc, op,
          fillCalls, cancelled>>

-----------------------------------------------------------------------------

Absent == "Absent"  \* no entry in the DashMap

ActiveStatus == {"Created", "Validated", "Submitted", "PartiallyFilled"}
Status == ActiveStatus \cup {"Filled", "Cancelled", Absent}

Order == [status : Status, filled_quantity : Nat, average_fill_price : Rational]

Call == [order : Orders, price : Nat, quantity : Nat]

Report == [order : Orders, status : Status, filled_quantity : Nat]

(* The arguments of a call; a recorded fill keeps the same three.          *)
NoCall == [order |-> CHOOSE o \in Orders : TRUE, price |-> 0, quantity |-> 0]

(* Where a thread can be inside a call: between two locks.                 *)
FillSteps == {"position", "record", "close", "report"}
HoldingSteps == FillSteps \cup {"unlist"}
Steps == HoldingSteps \cup {"idle", "push"}


is_active(o) == orders[o].status \in ActiveStatus

(* get_open_orders: the listed ids whose stored order is active. *)
get_open_orders == {o \in Orders : openIds[o] > 0 /\ is_active(o)}

Init ==
  /\ caller = [o \in Orders |-> "Created"]
  /\ orders = [o \in Orders |-> [status |-> Absent, filled_quantity |-> 0,
                                 average_fill_price |-> Rat(0)]]
  /\ openIds = [o \in Orders |-> 0]
  /\ positions = [s \in Symbols |-> FlatPosition]
  /\ fills = <<>>
  /\ reports = <<>>
  /\ lock = [o \in Orders |-> NoThread]
  /\ pc = [t \in Threads |-> "idle"]
  /\ op = [t \in Threads |-> NoCall]
  /\ fillCalls = 0
  /\ cancelled = {}

-----------------------------------------------------------------------------

(* DashMap::get_mut and insert wait until nobody holds the entry. *)
EntryFree(o) == lock[o] = NoThread

(* open_order_ids.write().retain(|id| id != order_id) *)
Retain(o) == [openIds EXCEPT ![o] = 0]

-----------------------------------------------------------------------------
(* submit_order *)


MaySubmit(o) == caller[o] \in {"Created", "Validated"}

(* The status check, then orders.insert, which waits for the entry. *)
SubmitInsert(t, o) ==
  /\ pc[t] = "idle"
  /\ MaySubmit(o)
  /\ EntryFree(o)
  /\ caller' = [caller EXCEPT ![o] = "Submitted"]
  /\ orders' = [orders EXCEPT ![o] = [status |-> "Submitted",
                                      filled_quantity |-> 0,
                                      average_fill_price |-> Rat(0)]]
  /\ pc' = [pc EXCEPT ![t] = "push"]
  /\ op' = [op EXCEPT ![t].order = o]
  /\ UNCHANGED <<openIds, positions, fills, reports, lock, fillCalls, cancelled>>

(* open_order_ids.write().push *)
SubmitPush(t) ==
  /\ pc[t] = "push"
  /\ openIds' = [openIds EXCEPT ![op[t].order] = @ + 1]
  /\ pc' = [pc EXCEPT ![t] = "idle"]
  /\ UNCHANGED <<caller, orders, positions, fills, reports, lock, op, fillCalls,
                 cancelled>>

-----------------------------------------------------------------------------
(* process_fill *)

(* Mutants: what was filled before is forgotten; the cap is gone. *)
FilledQuantity_Replaced(order, quantity, qty) == IF qty > quantity THEN quantity ELSE qty
FilledQuantity_Uncapped(order, quantity, qty) == order.filled_quantity + qty

FilledQuantity(order, quantity, qty) ==
  IF order.filled_quantity + qty > quantity
  THEN quantity ELSE order.filled_quantity + qty

(* Mutant: the old average is weighted by what is filled now. *)
AveragePrice_NewWeight(order, filled, price, qty) ==
  RatOver(RatAdd(RatScale(order.average_fill_price, filled), Rat(price * qty)), filled)

(* An average of 0 stands for no fill yet. *)
AveragePrice(order, filled, price, qty) ==
  IF RatEq(order.average_fill_price, Rat(0))
  THEN Rat(price)
  ELSE RatOver(RatAdd(RatScale(order.average_fill_price, order.filled_quantity),
                      Rat(price * qty)),
               filled)

(* The stored order after a fill: filled_quantity is capped at quantity,   *)
(* the average is divided by the capped amount, and the status the order   *)
(* had plays no part.                                                      *)
Filled(order, quantity, price, qty) ==
  LET filled == FilledQuantity(order, quantity, qty)
  IN [status |-> IF filled >= quantity THEN "Filled" ELSE "PartiallyFilled",
      filled_quantity |-> filled,
      average_fill_price |-> AveragePrice(order, filled, price, qty)]

(* get_mut takes the entry; the order is updated under it. *)
FillUpdate(t, o, price, qty) ==
  /\ pc[t] = "idle"
  /\ fillCalls < MaxFills
  /\ orders[o].status # Absent
  /\ EntryFree(o)
  /\ orders' = [orders EXCEPT ![o] = Filled(@, OrderOf[o].quantity, price, qty)]
  /\ lock' = [lock EXCEPT ![o] = t]
  /\ pc' = [pc EXCEPT ![t] = "position"]
  /\ op' = [op EXCEPT ![t] = [order |-> o, price |-> price, quantity |-> qty]]
  /\ fillCalls' = fillCalls + 1
  /\ UNCHANGED <<caller, openIds, positions, fills, reports, cancelled>>

(* Mutant: the position moves by all that is filled so far. *)
Moved_Cumulative(t) == orders[op[t].order].filled_quantity

(* The quantity the position moves by: that of the fill, as it came in. *)
Moved(t) == op[t].quantity

(* positions.write().apply_fill *)
FillPosition(t) ==
  LET order == OrderOf[op[t].order]
  IN /\ pc[t] = "position"
     /\ positions' = [positions EXCEPT ![order.symbol] =
                        ApplyFill(@, order.side, op[t].price, Moved(t))]
     /\ pc' = [pc EXCEPT ![t] = "record"]
     /\ UNCHANGED <<caller, orders, openIds, fills, reports, lock, op, fillCalls,
                    cancelled>>

(* Mutant: every fill takes its order off the open list. *)
Completed_Always(o) == TRUE

Completed(o) == orders[o].status \in {"Filled", "Cancelled"}

(* fills.write().push; a filled order still has to leave the open list. *)
FillRecord(t) ==
  /\ pc[t] = "record"
  /\ fills' = Append(fills, op[t])
  /\ pc' = [pc EXCEPT ![t] = IF Completed(op[t].order) THEN "close" ELSE "report"]
  /\ UNCHANGED <<caller, orders, openIds, positions, reports, lock, op,
                 fillCalls, cancelled>>

(* The id leaves the open list. *)
FillClose(t) ==
  /\ pc[t] = "close"
  /\ openIds' = Retain(op[t].order)
  /\ pc' = [pc EXCEPT ![t] = "report"]
  /\ UNCHANGED <<caller, orders, positions, fills, reports, lock, op, fillCalls,
                 cancelled>>

(* reports.write().push; returning drops the entry. *)
FillReport(t) ==
  LET o == op[t].order
  IN /\ pc[t] = "report"
     /\ reports' = Append(reports,
                          [order |-> o, status |-> orders[o].status,
                           filled_quantity |-> orders[o].filled_quantity])
     /\ lock' = [lock EXCEPT ![o] = NoThread]
     /\ pc' = [pc EXCEPT ![t] = "idle"]
     /\ UNCHANGED <<caller, orders, openIds, positions, fills, op, fillCalls,
                    cancelled>>

-----------------------------------------------------------------------------
(* cancel_order *)

(* The check of is_active, then the status, under the entry of the order. *)
CancelMark(t, o) ==
  /\ pc[t] = "idle"
  /\ EntryFree(o)
  /\ is_active(o)
  /\ orders' = [orders EXCEPT ![o].status = "Cancelled"]
  /\ lock' = [lock EXCEPT ![o] = t]
  /\ pc' = [pc EXCEPT ![t] = "unlist"]
  /\ op' = [op EXCEPT ![t].order = o]
  /\ UNCHANGED <<caller, openIds, positions, fills, reports, fillCalls, cancelled>>

CancelUnlist(t) ==
  LET o == op[t].order
  IN /\ pc[t] = "unlist"
     /\ openIds' = Retain(o)
     /\ cancelled' = cancelled \cup {o}
     /\ lock' = [lock EXCEPT ![o] = NoThread]
     /\ pc' = [pc EXCEPT ![t] = "idle"]
     /\ UNCHANGED <<caller, orders, positions, fills, reports, op, fillCalls>>

-----------------------------------------------------------------------------

(* The steps of a call that has begun; no step waits for another thread. *)
Continue(t) ==
  \/ SubmitPush(t)
  \/ FillPosition(t)
  \/ FillRecord(t)
  \/ FillClose(t)
  \/ FillReport(t)
  \/ CancelUnlist(t)

Begin(t) ==
  \E o \in Orders :
    \/ SubmitInsert(t, o)
    \/ CancelMark(t, o)
    \/ \E price \in Prices, qty \in FillQuantities : FillUpdate(t, o, price, qty)

Next == \E t \in Threads : Begin(t) \/ Continue(t)

Spec == Init /\ [][Next]_vars

-----------------------------------------------------------------------------
(* Properties.                                                             *)

(* Every variable keeps its type; in particular the open list never holds  *)
(* an id a negative number of times and no order takes a status outside    *)
(* the OrderStatus values process_fill, submit and cancel assign.          *)
TypeOK ==
  /\ caller \in [Orders -> {"Created", "Submitted"}]
  /\ orders \in [Orders -> Order]
  /\ openIds \in [Orders -> Nat]
  /\ positions \in [Symbols -> Position]
  /\ fills \in Seq(Call)
  /\ reports \in Seq(Report)
  /\ lock \in [Orders -> Threads \cup {NoThread}]
  /\ pc \in [Threads -> Steps]
  /\ op \in [Threads -> Call]
  /\ fillCalls \in 0..MaxFills
  /\ cancelled \subseteq Orders

(* Whatever calls raced on an order, its status and its filled_quantity    *)
(* tell the same story: Filled exactly when nothing is left, untouched     *)
(* while Submitted, something in between while PartiallyFilled.            *)
StatusMatchesFill ==
  \A o \in Orders :
    LET filled == orders[o].filled_quantity
    IN /\ filled <= OrderOf[o].quantity
       /\ orders[o].status = "Filled" <=> filled = OrderOf[o].quantity
       /\ orders[o].status \in {"Submitted", Absent} => filled = 0
       /\ orders[o].status = "PartiallyFilled" => filled > 0

Pushing(o) == \E t \in Threads : pc[t] = "push" /\ op[t].order = o

(* An order that is active, whose submission has pushed its id and which   *)
(* was never cancelled, is in the open list, so get_open_orders shows it.  *)
OpenListCoversActive ==
  \A o \in Orders :
    (/\ is_active(o)
     /\ o \notin cancelled
     /\ ~Pushing(o))
    => openIds[o] > 0

(* An id is never in the open list twice: the status check of submit_order *)
(* lets each Order object through once.                                    *)
NoDuplicateOpenIds == \A o \in Orders : openIds[o] <= 1

(* Sums of numbers, over a list. *)
Total(list) ==
  LET sum[n \in 0..Len(list)] == IF n = 0 THEN 0 ELSE sum[n - 1] + list[n]
  IN sum[Len(list)]

(* What is summed: a value of each fill, of one symbol or of one order. *)
FilledAmount == [fill \in Call |-> fill.quantity]
FilledCost   == [fill \in Call |-> fill.quantity * fill.price]
SignedFill   == [fill \in Call |-> Signed(OrderOf[fill.order].side, fill.quantity)]
SignedCost   == [fill \in Call |-> SignedFill[fill] * fill.price]

OfSymbol(s, value) == [fill \in Call |-> IF OrderOf[fill.order].symbol = s THEN value[fill] ELSE 0]
OfOrder(o, value)  == [fill \in Call |-> IF fill.order = o THEN value[fill] ELSE 0]

(* The sums over the fill history, and over the fills of the threads that  *)
(* are at one of steps.                                                    *)
Recorded(value) == Total([i \in DOMAIN fills |-> value[fills[i]]])

ThreadList == SetToSeq(Threads)
At(steps, t, value) == IF pc[t] \in steps THEN value[op[t]] ELSE 0
InThreads(steps, value) == Total([i \in DOMAIN ThreadList |-> At(steps, ThreadList[i], value)])

(* Fills whose position update has been made, whether they are already in  *)
(* the fill history or their thread is about to push them.                 *)
AppliedSum(s, value) ==
  Recorded(OfSymbol(s, value)) + InThreads({"record"}, OfSymbol(s, value))

(* The signed quantity of each position is the sum of the signed fills     *)
(* applied to it, in whatever order threads reached the position tracker.  *)
PositionsReconcile ==
  \A s \in Symbols : SignedQuantity(positions[s]) = AppliedSum(s, SignedFill)

(* No fill creates or loses money: what the open position cost at its      *)
(* entry price, less the profit realized so far, is what was paid for all  *)
(* the fills.  Opening, adding, reducing, closing and flipping keep it.    *)
PnLReconciles ==
  \A s \in Symbols :
    LET pos == positions[s]
    IN RatEq(RatAdd(RatScale(pos.entry_price, SignedQuantity(pos)),
                    RatScale(pos.realized_pnl, -1)),
             Rat(AppliedSum(s, SignedCost)))

(* The fills of o counted in its filled_quantity so far. *)
Counted(o, value) ==
  Recorded(OfOrder(o, value)) + InThreads({"position", "record"}, OfOrder(o, value))

(* As long as the exchange never overfilled an order, its average price is *)
(* the volume-weighted average of its fills.                               *)
AverageIsVolumeWeighted ==
  \A o \in Orders :
    Counted(o, FilledAmount) \in 1..OrderOf[o].quantity =>
      RatEq(RatScale(orders[o].average_fill_price, Counted(o, FilledAmount)),
            Rat(Counted(o, FilledCost)))

(* The reports of one order tell its fills in order: filled_quantity never *)
(* goes back from one report to a later one, nor does Filled.              *)
ReportsInOrder ==
  \A j \in DOMAIN reports : \A i \in 1..(j - 1) :
    reports[i].order = reports[j].order =>
      /\ reports[i].filled_quantity <= reports[j].filled_quantity
      /\ reports[i].status = "Filled" => reports[j].status = "Filled"

(* A filled order stays filled: no late cancel or fill changes its status. *)
FilledIsFinal ==
  [][\A o \in Orders : orders[o].status = "Filled" => orders'[o].status = "Filled"]_vars

(* The abstract net quantity of s counts a fill as soon as its order does. *)
PendingSum(s) == InThreads({"position"}, OfSymbol(s, SignedFill))

Atomic ==
  INSTANCE AtomicEngine
    WITH status <- [o \in Orders |-> orders[o].status],
         filled <- [o \in Orders |-> orders[o].filled_quantity],
         open   <- {o \in Orders : is_active(o) /\ (openIds[o] > 0 \/ Pushing(o))},
         net    <- [s \in Symbols |-> SignedQuantity(positions[s]) + PendingSum(s)]

(* The calls look atomic: the engine implements AtomicEngine, each call    *)
(* taking effect when it gets hold of its order.                           *)
ImplementsAtomicEngine == Atomic!Spec

(* The part of it that is about orders and the open list alone. *)
OrdersLookAtomic == Atomic!SpecOrders

-----------------------------------------------------------------------------
(* The inductive invariant behind the safety properties.                   *)

(* An entry is locked exactly while its thread is inside process_fill or   *)
(* cancel_order, so at most one such call is on an order at any time.      *)
LockDiscipline ==
  \A t \in Threads, o \in Orders :
    lock[o] = t <=> pc[t] \in HoldingSteps /\ op[t].order = o

(* Nothing changes the status of an order behind the back of the call that *)
(* has locked it.                                                          *)
StatusUnderLock ==
  \A t \in Threads :
    LET status == orders[op[t].order].status
    IN /\ pc[t] \in FillSteps => status \in {"Filled", "PartiallyFilled"}
       /\ pc[t] = "close" => status = "Filled"
       /\ pc[t] = "unlist" => status = "Cancelled"

(* What a thread fills is a fill that came in. *)
FillsInProgress ==
  \A t \in Threads :
    pc[t] \in FillSteps => op[t].price \in Prices /\ op[t].quantity \in FillQuantities

(* An Order object is inserted once and its id pushed once. *)
SubmittedOnce ==
  /\ \A o \in Orders :
       /\ orders[o].status = Absent <=> caller[o] = "Created"
       /\ orders[o].status \notin {"Created", "Validated"}
       /\ caller[o] = "Created" => openIds[o] = 0 /\ ~Pushing(o)
       /\ Pushing(o) => openIds[o] = 0
  /\ \A t, u \in Threads :
       pc[t] = "push" /\ pc[u] = "push" /\ op[t].order = op[u].order => t = u

(* A cancelled order has been, or is being, taken off the open list. *)
CancelRecorded ==
  \A o \in Orders :
    orders[o].status = "Cancelled" =>
      \/ o \in cancelled
      \/ \E t \in Threads : pc[t] = "unlist" /\ op[t].order = o

(* Their conjunction with the properties they carry. *)
IInv ==
  /\ TypeOK
  /\ LockDiscipline
  /\ StatusUnderLock
  /\ FillsInProgress
  /\ SubmittedOnce
  /\ CancelRecorded
  /\ StatusMatchesFill
  /\ OpenListCoversActive
  /\ NoDuplicateOpenIds

-----------------------------------------------------------------------------
(* What the comments of the code claim and its behaviour does not keep.    *)

InCall(o) == \E t \in Threads : pc[t] # "idle" /\ op[t].order = o

(* "Get all active (open) orders": outside calls on o, get_open_orders     *)
(* shows o if it is active.                                                *)
OpenOrdersAreAllActive ==
  \A o \in Orders : is_active(o) /\ ~InCall(o) => o \in get_open_orders

=============================================================================
