----------------------------- MODULE AtomicEngine -----------------------------
(***************************************************************************)
(* What ExecutionEngine promises its callers: submit_order, process_fill   *)
(* and cancel_order each happen at one instant, although the engine does   *)
(* them under several locks taken one after the other.                     *)
(*                                                                         *)
(* The state is what the engine's queries show: status and filled quantity *)
(* of each order (get_order), the orders get_open_orders returns, and the  *)
(* signed quantity held in each symbol (get_positions).                    *)
(***************************************************************************)
EXTENDS PositionTracker

CONSTANTS Orders, Symbols, OrderOf, FillQuantities

VARIABLES status, filled, open, net

orderVars == <<status, filled, open>>
vars == <<status, filled, open, net>>

Active == {"Submitted", "PartiallyFilled"}

-----------------------------------------------------------------------------
(* The orders by themselves. *)

InitOrders ==
  /\ status = [o \in Orders |-> "Absent"]
  /\ filled = [o \in Orders |-> 0]
  /\ open = {}

Submit(o) ==
  /\ status[o] = "Absent"
  /\ status' = [status EXCEPT ![o] = "Submitted"]
  /\ open' = open \cup {o}
  /\ UNCHANGED filled

(* A fill counts up to the quantity of the order.  It is taken in every    *)
(* state: a filled order stays filled, a cancelled one comes back, listed  *)
(* as open or not.                                                         *)
Fill(o, qty) ==
  LET quantity == OrderOf[o].quantity
      rest == quantity - filled[o]
  IN /\ status[o] # "Absent"
     /\ \/ /\ qty >= rest
           /\ status' = [status EXCEPT ![o] = "Filled"]
           /\ filled' = [filled EXCEPT ![o] = quantity]
           /\ open' = open \ {o}
        \/ /\ qty < rest
           /\ status' = [status EXCEPT ![o] = "PartiallyFilled"]
           /\ filled' = [filled EXCEPT ![o] = @ + qty]
           /\ \/ open' = open
              \/ status[o] = "Cancelled" /\ open' = open \cup {o}

Cancel(o) ==
  /\ status[o] \in Active
  /\ status' = [status EXCEPT ![o] = "Cancelled"]
  /\ open' = open \ {o}
  /\ UNCHANGED filled

NextOrders == \E o \in Orders :
                \/ Submit(o)
                \/ Cancel(o)
                \/ \E qty \in FillQuantities : Fill(o, qty)

SpecOrders == InitOrders /\ [][NextOrders]_orderVars

-----------------------------------------------------------------------------
(* The orders with the positions, which a fill moves by all of it. *)

Init == InitOrders /\ net = [s \in Symbols |-> 0]

Moves(o, qty) ==
  net' = [net EXCEPT ![OrderOf[o].symbol] = @ + Signed(OrderOf[o].side, qty)]

Next == \E o \in Orders :
          \/ (Submit(o) \/ Cancel(o)) /\ UNCHANGED net
          \/ \E qty \in FillQuantities : Fill(o, qty) /\ Moves(o, qty)

Spec == Init /\ [][Next]_vars

=============================================================================
