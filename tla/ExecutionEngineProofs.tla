------------------------- MODULE ExecutionEngineProofs -------------------------
(***************************************************************************)
(* Proofs about ExecutionEngine, for any orders, threads, prices and fill  *)
(* quantities.                                                             *)
(***************************************************************************)
EXTENDS ExecutionEngine, SequenceTheorems, FiniteSetTheorems, TLAPS

(* Rational arithmetic stays within the rationals. *)
LEMMA RationalClosed ==
  /\ \A i \in Int : Rat(i) \in Rational
  /\ \A a, b \in Rational : RatAdd(a, b) \in Rational
  /\ \A a \in Rational, k \in Int : RatScale(a, k) \in Rational
  /\ \A a \in Rational, k \in Nat \ {0} : RatOver(a, k) \in Rational
<1>1. \A d, e \in Nat \ {0} : d * e \in Nat \ {0}
  OBVIOUS
<1>2. \A a, b \in Rational : RatAdd(a, b) \in Rational
  BY <1>1 DEF Rational, RatAdd
<1>3. \A a \in Rational, k \in Nat \ {0} : RatOver(a, k) \in Rational
  BY <1>1 DEF Rational, RatOver
<1> QED BY <1>2, <1>3 DEF Rational, Rat, RatScale

(* Assigning values of the right types to fields keeps a position one. *)
LEMMA PositionUpdate ==
  ASSUME NEW pos \in Position, NEW s \in Sides, NEW q \in Nat,
         NEW e \in Rational, NEW r \in Rational
  PROVE  /\ [pos EXCEPT !.realized_pnl = r, !.quantity = q, !.entry_price = e] \in Position
         /\ [pos EXCEPT !.realized_pnl = r, !.quantity = q, !.entry_price = e,
                        !.side = s] \in Position
         /\ [pos EXCEPT !.realized_pnl = r, !.quantity = q] \in Position
         /\ [pos EXCEPT !.entry_price = e, !.quantity = q, !.side = s] \in Position
BY DEF Position

(* apply_fill turns a position into a position. *)
LEMMA ApplyFillType ==
  ASSUME NEW pos \in Position, NEW side \in Sides, NEW price \in Nat, NEW qty \in Nat \ {0}
  PROVE  ApplyFill(pos, side, price, qty) \in Position
<1> DEFINE cur == SignedQuantity(pos)
           new == cur + Signed(side, qty)
<1>1. cur \in Int /\ new \in Int /\ Abs(new) \in Nat
  BY DEF Position, SignedQuantity, Signed, Sign, Abs
<1>2. SideOf(new) \in Sides
  BY DEF SideOf, Sides
<1>3. \A k \in Int : Realize(pos, price, k) \in Rational
  <2> SUFFICES ASSUME NEW k \in Int PROVE Realize(pos, price, k) \in Rational
    OBVIOUS
  <2>1. k * Sign(pos.side) \in Int
    BY DEF Sign
  <2>2. pos.entry_price \in Rational /\ pos.realized_pnl \in Rational
    BY DEF Position
  <2>3. Rat(price) \in Rational /\ RatScale(pos.entry_price, -1) \in Rational
    BY <2>2, RationalClosed
  <2>4. RatAdd(Rat(price), RatScale(pos.entry_price, -1)) \in Rational
    BY <2>3, RationalClosed
  <2>5. RatScale(RatAdd(Rat(price), RatScale(pos.entry_price, -1)),
                 k * Sign(pos.side)) \in Rational
    BY <2>1, <2>4, RationalClosed
  <2> QED BY <2>2, <2>5, RationalClosed DEF Realize
<1>4. WeightedEntry(pos, price, qty) \in Rational
  <2>1. pos.entry_price \in Rational /\ pos.quantity \in Nat
    BY DEF Position
  <2>2. price * qty \in Int /\ pos.quantity \in Int /\ pos.quantity + qty \in Nat \ {0}
    BY <2>1
  <2>3. /\ RatScale(pos.entry_price, pos.quantity) \in Rational
        /\ Rat(price * qty) \in Rational
    BY <2>1, <2>2, RationalClosed
  <2>4. RatAdd(RatScale(pos.entry_price, pos.quantity), Rat(price * qty)) \in Rational
    BY <2>3, RationalClosed
  <2> QED BY <2>2, <2>4, RationalClosed DEF WeightedEntry
<1>5. Close(pos, price) \in Position
  <2>1. Realize(pos, price, pos.quantity) \in Rational
    BY <1>3 DEF Position
  <2>2. Rat(0) \in Rational
    BY RationalClosed
  <2>3. 0 \in Nat
    OBVIOUS
  <2> QED BY <2>1, <2>2, <2>3, PositionUpdate, Zenon DEF Close
<1>6. Flip(pos, price, qty, new) \in Position
  <2>1. Realize(pos, price, ClosedByFlip(pos, qty)) \in Rational
    BY <1>3 DEF Position, ClosedByFlip
  <2>2. Rat(price) \in Rational
    BY RationalClosed
  <2> HIDE DEF new, cur
  <2> QED BY <1>1, <1>2, <2>1, <2>2, PositionUpdate, Zenon DEF Flip
<1>7. Reduce(pos, price, qty, new) \in Position
  <2>1. Realize(pos, price, qty) \in Rational
    BY <1>3
  <2> HIDE DEF new, cur
  <2>2. 0 \in Int /\ Rat(0) \in Rational /\ Buy \in Sides
    BY RationalClosed DEF Sides
  <2> QED BY <1>1, <2>1, <2>2, PositionUpdate, Zenon DEF Reduce
<1>8. Increase(pos, price, qty, new) \in Position
  <2> HIDE DEF new, cur
  <2> QED BY <1>1, <1>2, <1>4, PositionUpdate, Zenon DEF Increase
<1> QED
  <2> DEFINE moved == IF new = 0 THEN Close(pos, price)
                      ELSE IF cur # 0 /\ (new > 0) # (cur > 0)
                           THEN Flip(pos, price, qty, new)
                      ELSE IF Abs(new) < Abs(cur) THEN Reduce(pos, price, qty, new)
                      ELSE Increase(pos, price, qty, new)
  <2>1. moved \in Position
    BY <1>5, <1>6, <1>7, <1>8
  <2>2. ApplyFill(pos, side, price, qty) = [moved EXCEPT !.mark_price = price]
    BY DEF ApplyFill
  <2>3. price \in Int
    OBVIOUS
  <2> HIDE DEF moved
  <2>4. \A p \in Position : [p EXCEPT !.mark_price = price] \in Position
    BY <2>3 DEF Position
  <2> QED BY <2>1, <2>2, <2>4

(* What a fill makes of a stored order. *)
LEMMA FilledOrder ==
  ASSUME NEW order \in Order, NEW quantity \in Nat \ {0},
         NEW price \in Nat, NEW qty \in Nat \ {0},
         order.filled_quantity <= quantity
  PROVE  /\ Filled(order, quantity, price, qty) \in Order
         /\ Filled(order, quantity, price, qty).status \in {"Filled", "PartiallyFilled"}
         /\ Filled(order, quantity, price, qty).filled_quantity \in 1..quantity
         /\ Filled(order, quantity, price, qty).status = "Filled"
              <=> Filled(order, quantity, price, qty).filled_quantity = quantity
         /\ order.filled_quantity = quantity =>
              Filled(order, quantity, price, qty).status = "Filled"
<1> DEFINE filled  == FilledQuantity(order, quantity, qty)
           average == AveragePrice(order, filled, price, qty)
           status  == IF filled >= quantity THEN "Filled" ELSE "PartiallyFilled"
<1>1. order.filled_quantity \in Nat /\ order.average_fill_price \in Rational
  BY DEF Order
<1>2. filled \in 1..quantity /\ (order.filled_quantity = quantity => filled = quantity)
  BY <1>1 DEF FilledQuantity
<1>3. average \in Rational
  <2>1. price * qty \in Int /\ filled \in Nat \ {0}
    BY <1>2
  <2> HIDE DEF filled
  <2>2. /\ RatScale(order.average_fill_price, order.filled_quantity) \in Rational
        /\ Rat(price * qty) \in Rational /\ Rat(price) \in Rational
    <3>1. price \in Int /\ order.filled_quantity \in Int
      BY <1>1
    <3> QED BY <1>1, <2>1, <3>1, RationalClosed
  <2>3. RatAdd(RatScale(order.average_fill_price, order.filled_quantity),
               Rat(price * qty)) \in Rational
    BY <2>2, RationalClosed
  <2> QED BY <2>1, <2>2, <2>3, RationalClosed DEF AveragePrice
<1>4. Filled(order, quantity, price, qty) =
        [status |-> status, filled_quantity |-> filled, average_fill_price |-> average]
  BY DEF Filled
<1> HIDE DEF filled, average
<1>5. status \in {"Filled", "PartiallyFilled"} /\ status \in Status
  BY DEF Status, ActiveStatus
<1> QED BY <1>2, <1>3, <1>4, <1>5 DEF Order

-----------------------------------------------------------------------------

LEMMA InitIInv == Init => IInv
<1> SUFFICES ASSUME Init PROVE IInv
  OBVIOUS
<1> USE OrderAssumption, FillAssumption, ThreadAssumption DEF Init
<1>1. NoCall \in Call
  BY DEF NoCall, Call
<1>2. Rat(0) \in Rational
  BY RationalClosed
<1>3. FlatPosition \in Position
  BY <1>2 DEF FlatPosition, Position, Sides, Buy
<1>4. TypeOK
  BY <1>1, <1>2, <1>3 DEF TypeOK, Order, Status, Absent, Steps
<1>5. LockDiscipline /\ StatusUnderLock /\ FillsInProgress /\ CancelRecorded
  BY DEF FillsInProgress, LockDiscipline, StatusUnderLock, CancelRecorded, HoldingSteps, FillSteps, Absent
<1>6. SubmittedOnce
  BY DEF SubmittedOnce, Pushing, Absent
<1>7. StatusMatchesFill
  BY DEF StatusMatchesFill, Absent
<1>8. OpenListCoversActive /\ NoDuplicateOpenIds
  BY DEF OpenListCoversActive, NoDuplicateOpenIds, is_active, ActiveStatus, Absent
<1> QED BY <1>4, <1>5, <1>6, <1>7, <1>8 DEF IInv

(* submit_order inserts an order nobody could have locked or listed before. *)
LEMMA SubmitInsertStep ==
  ASSUME IInv, NEW t \in Threads, NEW o \in Orders, SubmitInsert(t, o)
  PROVE  IInv'
<1> USE OrderAssumption, FillAssumption, ThreadAssumption DEF IInv, SubmitInsert, EntryFree, MaySubmit
<1>1. TypeOK'
  <2>1. [status |-> "Submitted", filled_quantity |-> 0,
         average_fill_price |-> Rat(0)] \in Order
    BY RationalClosed DEF Order, Status, ActiveStatus
  <2>2. orders' \in [Orders -> Order] /\ caller' \in [Orders -> {"Created", "Submitted"}]
    BY <2>1 DEF TypeOK
  <2>3. op' \in [Threads -> Call]
    <3>1. op[t] \in Call /\ op' = [op EXCEPT ![t] = [op[t] EXCEPT !.order = o]]
      BY DEF TypeOK
    <3>2. [op[t] EXCEPT !.order = o] \in Call
      BY <3>1 DEF Call
    <3> QED BY <3>1, <3>2 DEF TypeOK
  <2>4. pc' \in [Threads -> Steps]
    BY DEF TypeOK, Steps
  <2> QED BY <2>2, <2>3, <2>4 DEF TypeOK
<1>2. LockDiscipline'
  BY DEF TypeOK, LockDiscipline, HoldingSteps, FillSteps
<1>3. StatusUnderLock'
  BY DEF TypeOK, StatusUnderLock, LockDiscipline, HoldingSteps, FillSteps
<1>4. SubmittedOnce'
  BY DEF TypeOK, SubmittedOnce, Pushing, Absent
<1>5. CancelRecorded'
  BY DEF TypeOK, CancelRecorded, LockDiscipline, StatusUnderLock, HoldingSteps, FillSteps
<1>6. StatusMatchesFill'
  <2>1. /\ orders'[o].status = "Submitted" /\ orders'[o].filled_quantity = 0
        /\ \A p \in Orders \ {o} : orders'[p] = orders[p]
    BY DEF TypeOK
  <2>2. OrderOf[o].quantity \in Nat \ {0}
    OBVIOUS
  <2> QED BY <2>1, <2>2 DEF StatusMatchesFill, Absent
<1>7. OpenListCoversActive'
  BY DEF TypeOK, OpenListCoversActive, is_active, ActiveStatus, Pushing, StatusUnderLock, HoldingSteps, FillSteps
<1>8. NoDuplicateOpenIds'
  BY DEF TypeOK, NoDuplicateOpenIds, SubmittedOnce, Pushing
<1>9. FillsInProgress'
  BY DEF TypeOK, FillsInProgress, FillSteps
<1> QED BY <1>1, <1>2, <1>3, <1>4, <1>5, <1>6, <1>7, <1>8, <1>9 DEF IInv

(* submit_order pushes the id: the one entry it gets. *)
LEMMA SubmitPushStep ==
  ASSUME IInv, NEW t \in Threads, SubmitPush(t)
  PROVE  IInv'
<1> USE OrderAssumption, FillAssumption, ThreadAssumption DEF IInv, SubmitPush
<1>1. TypeOK'
  <2>1. op[t].order \in Orders /\ openIds[op[t].order] + 1 \in Nat
    BY DEF TypeOK, Call
  <2>2. openIds' \in [Orders -> Nat]
    BY <2>1 DEF TypeOK
  <2>3. pc' \in [Threads -> Steps]
    BY DEF TypeOK, Steps
  <2> QED BY <2>2, <2>3 DEF TypeOK
<1>2. LockDiscipline'
  BY DEF TypeOK, LockDiscipline, HoldingSteps, FillSteps
<1>3. StatusUnderLock'
  BY DEF TypeOK, StatusUnderLock, LockDiscipline, HoldingSteps, FillSteps
<1>4. SubmittedOnce'
  BY DEF TypeOK, SubmittedOnce, Pushing, Absent
<1>5. CancelRecorded'
  BY DEF TypeOK, CancelRecorded, LockDiscipline, StatusUnderLock, HoldingSteps, FillSteps
<1>6. StatusMatchesFill'
  BY DEF TypeOK, StatusMatchesFill, Absent
<1>7. OpenListCoversActive'
  BY DEF TypeOK, OpenListCoversActive, is_active, ActiveStatus, Pushing, StatusUnderLock, HoldingSteps, FillSteps
<1>8. NoDuplicateOpenIds'
  <2>1. op[t].order \in Orders /\ openIds[op[t].order] = 0
    BY DEF TypeOK, Call, SubmittedOnce, Pushing
  <2>2. openIds'[op[t].order] = 1
    BY <2>1 DEF TypeOK
  <2>3. \A o \in Orders : o # op[t].order => openIds'[o] = openIds[o]
    BY DEF TypeOK
  <2> QED BY <2>1, <2>2, <2>3 DEF NoDuplicateOpenIds
<1>9. FillsInProgress'
  BY DEF TypeOK, FillsInProgress, FillSteps
<1> QED BY <1>1, <1>2, <1>3, <1>4, <1>5, <1>6, <1>7, <1>8, <1>9 DEF IInv

(* process_fill updates the order it has just locked. *)
LEMMA FillUpdateStep ==
  ASSUME IInv, NEW t \in Threads, NEW o \in Orders, NEW price \in Prices,
         NEW qty \in FillQuantities, FillUpdate(t, o, price, qty)
  PROVE  IInv'
<1> USE OrderAssumption, FillAssumption, ThreadAssumption DEF IInv, FillUpdate, EntryFree
<1> DEFINE quantity == OrderOf[o].quantity
<1>0. /\ orders'[o] \in Order
      /\ orders'[o].status \in {"Filled", "PartiallyFilled"}
      /\ orders'[o].filled_quantity \in 1..quantity
      /\ orders'[o].status = "Filled" <=> orders'[o].filled_quantity = quantity
      /\ orders[o].filled_quantity = quantity => orders'[o].status = "Filled"
      /\ \A p \in Orders \ {o} : orders'[p] = orders[p]
  <2>1. /\ orders[o] \in Order /\ quantity \in Nat \ {0} /\ price \in Nat
        /\ qty \in Nat \ {0} /\ orders[o].filled_quantity <= quantity
    BY DEF TypeOK, StatusMatchesFill
  <2>2. /\ orders'[o] = Filled(orders[o], quantity, price, qty)
        /\ \A p \in Orders \ {o} : orders'[p] = orders[p]
    BY DEF TypeOK
  <2>3. /\ Filled(orders[o], quantity, price, qty) \in Order
        /\ Filled(orders[o], quantity, price, qty).status \in {"Filled", "PartiallyFilled"}
        /\ Filled(orders[o], quantity, price, qty).filled_quantity \in 1..quantity
        /\ Filled(orders[o], quantity, price, qty).status = "Filled"
             <=> Filled(orders[o], quantity, price, qty).filled_quantity = quantity
        /\ orders[o].filled_quantity = quantity =>
             Filled(orders[o], quantity, price, qty).status = "Filled"
    <3> HIDE DEF quantity
    <3>1. Filled(orders[o], quantity, price, qty) \in Order
      BY <2>1, FilledOrder
    <3>2. Filled(orders[o], quantity, price, qty).status \in {"Filled", "PartiallyFilled"}
      BY <2>1, FilledOrder
    <3>3. Filled(orders[o], quantity, price, qty).filled_quantity \in 1..quantity
      BY <2>1, FilledOrder
    <3>4. Filled(orders[o], quantity, price, qty).status = "Filled"
            <=> Filled(orders[o], quantity, price, qty).filled_quantity = quantity
      BY <2>1, FilledOrder
    <3>5. orders[o].filled_quantity = quantity =>
            Filled(orders[o], quantity, price, qty).status = "Filled"
      BY <2>1, FilledOrder
    <3> QED BY <3>1, <3>2, <3>3, <3>4, <3>5
  <2> QED BY <2>2, <2>3
<1>00. quantity \in Nat \ {0} /\ orders[o].filled_quantity \in Nat
  BY DEF TypeOK, Order
<1>1. TypeOK'
  <2>1. orders' \in [Orders -> Order]
    BY <1>0 DEF TypeOK
  <2>2. [order |-> o, price |-> price, quantity |-> qty] \in Call
    BY DEF Call
  <2>3. op' \in [Threads -> Call] /\ lock' \in [Orders -> Threads \cup {NoThread}]
    BY <2>2 DEF TypeOK
  <2>4. pc' \in [Threads -> Steps]
    BY DEF TypeOK, Steps, HoldingSteps, FillSteps
  <2>5. fillCalls' \in 0..MaxFills
    BY DEF TypeOK
  <2> QED BY <2>1, <2>3, <2>4, <2>5 DEF TypeOK
<1>2. LockDiscipline'
  BY DEF TypeOK, LockDiscipline, HoldingSteps, FillSteps
<1>3. StatusUnderLock'
  <2>1. \A u \in Threads : u # t => op'[u] = op[u] /\ pc'[u] = pc[u]
    BY DEF TypeOK
  <2>2. \A u \in Threads : pc[u] \in HoldingSteps => op[u].order \in Orders \ {o}
    BY DEF TypeOK, Call, LockDiscipline
  <2>3. pc'[t] = "position" /\ op'[t].order = o
    BY DEF TypeOK
  <2> QED BY <1>0, <2>1, <2>2, <2>3 DEF StatusUnderLock, HoldingSteps, FillSteps
<1>4. SubmittedOnce'
  <2>1. \A u \in Threads : pc'[u] = "push" => pc[u] = "push" /\ op'[u] = op[u]
    BY DEF TypeOK
  <2>2. \A p \in Orders : Pushing(p)' => Pushing(p)
    BY <2>1 DEF Pushing
  <2> QED BY <1>0, <2>1, <2>2 DEF SubmittedOnce, Absent
<1>5. CancelRecorded'
  <2>1. \A u \in Threads : pc[u] = "unlist" => pc'[u] = "unlist" /\ op'[u] = op[u]
    BY DEF TypeOK
  <2> QED BY <1>0, <2>1 DEF CancelRecorded
<1>6. StatusMatchesFill'
  BY <1>0, <1>00 DEF StatusMatchesFill, Absent
<1>7. OpenListCoversActive'
  <2>1. \A u \in Threads : pc[u] = "push" => pc'[u] = "push" /\ op'[u] = op[u]
    BY DEF TypeOK
  <2>2. \A p \in Orders : Pushing(p) => Pushing(p)'
    BY <2>1 DEF Pushing
  <2>3. o \in cancelled \/ orders[o].status # "Cancelled"
    BY DEF CancelRecorded, LockDiscipline, HoldingSteps
  <2>4. is_active(o)' => orders[o].status # "Filled"
    BY <1>0 DEF is_active, ActiveStatus, StatusMatchesFill
  <2>5. is_active(o)' /\ o \notin cancelled => is_active(o)
    BY <2>3, <2>4 DEF is_active, ActiveStatus, TypeOK, Order, Status
  <2>6. \A p \in Orders \ {o} : is_active(p)' => is_active(p)
    BY <1>0 DEF is_active
  <2> QED BY <2>2, <2>5, <2>6 DEF OpenListCoversActive
<1>8. NoDuplicateOpenIds'
  BY DEF NoDuplicateOpenIds
<1>9. FillsInProgress'
  BY DEF TypeOK, FillsInProgress, FillSteps
<1> QED BY <1>1, <1>2, <1>3, <1>4, <1>5, <1>6, <1>7, <1>8, <1>9 DEF IInv

(* The position moves; the order keeps its lock. *)
LEMMA FillPositionStep ==
  ASSUME IInv, NEW t \in Threads, FillPosition(t)
  PROVE  IInv'
<1> USE OrderAssumption, FillAssumption, ThreadAssumption DEF IInv, FillPosition, Moved
<1>1. TypeOK'
  <2> DEFINE order == OrderOf[op[t].order]
  <2>1. op[t] \in Call /\ order.symbol \in Symbols /\ order.side \in Sides
    BY DEF TypeOK, Call
  <2>2. positions[order.symbol] \in Position
    BY <2>1 DEF TypeOK
  <2>3. ApplyFill(positions[order.symbol], order.side, op[t].price, op[t].quantity)
          \in Position
    <3>1. op[t].price \in Nat /\ op[t].quantity \in Nat \ {0}
      BY DEF FillsInProgress, FillSteps
    <3> QED BY <2>1, <2>2, <3>1, ApplyFillType
  <2>4. positions' \in [Symbols -> Position]
    BY <2>3 DEF TypeOK
  <2>5. pc' \in [Threads -> Steps]
    BY DEF TypeOK, Steps, HoldingSteps, FillSteps
  <2> QED BY <2>4, <2>5 DEF TypeOK
<1>2. LockDiscipline'
  BY DEF TypeOK, LockDiscipline, HoldingSteps, FillSteps
<1>3. StatusUnderLock'
  BY DEF TypeOK, StatusUnderLock, LockDiscipline, HoldingSteps, FillSteps
<1>4. SubmittedOnce'
  BY DEF TypeOK, SubmittedOnce, Pushing, Absent
<1>5. CancelRecorded'
  BY DEF TypeOK, CancelRecorded, LockDiscipline, StatusUnderLock, HoldingSteps, FillSteps
<1>6. StatusMatchesFill'
  BY DEF TypeOK, StatusMatchesFill, Absent
<1>7. OpenListCoversActive'
  BY DEF TypeOK, OpenListCoversActive, is_active, ActiveStatus, Pushing, StatusUnderLock, HoldingSteps, FillSteps
<1>8. NoDuplicateOpenIds'
  BY DEF TypeOK, NoDuplicateOpenIds, SubmittedOnce, Pushing
<1>9. FillsInProgress'
  BY DEF TypeOK, FillsInProgress, FillSteps
<1> QED BY <1>1, <1>2, <1>3, <1>4, <1>5, <1>6, <1>7, <1>8, <1>9 DEF IInv

(* The fill is pushed; a filled order goes on to be unlisted. *)
LEMMA FillRecordStep ==
  ASSUME IInv, NEW t \in Threads, FillRecord(t)
  PROVE  IInv'
<1> USE OrderAssumption, FillAssumption, ThreadAssumption DEF IInv, FillRecord, Completed
<1>1. TypeOK'
  <2>1. fills' \in Seq(Call)
    BY DEF TypeOK
  <2>2. pc' \in [Threads -> Steps]
    BY DEF TypeOK, Steps, HoldingSteps, FillSteps
  <2> QED BY <2>1, <2>2 DEF TypeOK
<1>2. LockDiscipline'
  BY DEF TypeOK, LockDiscipline, HoldingSteps, FillSteps
<1>3. StatusUnderLock'
  BY DEF TypeOK, StatusUnderLock, LockDiscipline, HoldingSteps, FillSteps
<1>4. SubmittedOnce'
  BY DEF TypeOK, SubmittedOnce, Pushing, Absent
<1>5. CancelRecorded'
  BY DEF TypeOK, CancelRecorded, LockDiscipline, StatusUnderLock, HoldingSteps, FillSteps
<1>6. StatusMatchesFill'
  BY DEF TypeOK, StatusMatchesFill, Absent
<1>7. OpenListCoversActive'
  BY DEF TypeOK, OpenListCoversActive, is_active, ActiveStatus, Pushing, StatusUnderLock, HoldingSteps, FillSteps
<1>8. NoDuplicateOpenIds'
  BY DEF TypeOK, NoDuplicateOpenIds, SubmittedOnce, Pushing
<1>9. FillsInProgress'
  BY DEF TypeOK, FillsInProgress, FillSteps
<1> QED BY <1>1, <1>2, <1>3, <1>4, <1>5, <1>6, <1>7, <1>8, <1>9 DEF IInv

(* Only a filled order is unlisted, so no active one goes missing. *)
LEMMA FillCloseStep ==
  ASSUME IInv, NEW t \in Threads, FillClose(t)
  PROVE  IInv'
<1> USE OrderAssumption, FillAssumption, ThreadAssumption DEF IInv, FillClose, Retain
<1>1. TypeOK'
  BY DEF TypeOK, Order, Status, ActiveStatus, Absent, Steps, HoldingSteps, FillSteps, Call, Report
<1>2. LockDiscipline'
  BY DEF TypeOK, LockDiscipline, HoldingSteps, FillSteps
<1>3. StatusUnderLock'
  BY DEF TypeOK, StatusUnderLock, LockDiscipline, HoldingSteps, FillSteps
<1>4. SubmittedOnce'
  BY DEF TypeOK, SubmittedOnce, Pushing, Absent
<1>5. CancelRecorded'
  BY DEF TypeOK, CancelRecorded, LockDiscipline, StatusUnderLock, HoldingSteps, FillSteps
<1>6. StatusMatchesFill'
  BY DEF TypeOK, StatusMatchesFill, Absent
<1>7. OpenListCoversActive'
  BY DEF TypeOK, OpenListCoversActive, is_active, ActiveStatus, Pushing, StatusUnderLock, HoldingSteps, FillSteps
<1>8. NoDuplicateOpenIds'
  BY DEF TypeOK, NoDuplicateOpenIds, SubmittedOnce, Pushing
<1>9. FillsInProgress'
  BY DEF TypeOK, FillsInProgress, FillSteps
<1> QED BY <1>1, <1>2, <1>3, <1>4, <1>5, <1>6, <1>7, <1>8, <1>9 DEF IInv

(* The report is pushed and the entry unlocked. *)
LEMMA FillReportStep ==
  ASSUME IInv, NEW t \in Threads, FillReport(t)
  PROVE  IInv'
<1> USE OrderAssumption, FillAssumption, ThreadAssumption DEF IInv, FillReport
<1>1. TypeOK'
  <2> DEFINE o == op[t].order
             report == [order |-> o, status |-> orders[o].status,
                        filled_quantity |-> orders[o].filled_quantity]
  <2>1. o \in Orders
    BY DEF TypeOK, Call
  <2>2. report \in Report
    BY <2>1 DEF TypeOK, Report, Order
  <2>3. reports' = Append(reports, report)
    OBVIOUS
  <2> HIDE DEF report
  <2>4. reports' \in Seq(Report)
    BY <2>2, <2>3 DEF TypeOK
  <2>5. lock' \in [Orders -> Threads \cup {NoThread}]
    BY <2>1 DEF TypeOK
  <2>6. pc' \in [Threads -> Steps]
    BY DEF TypeOK, Steps
  <2> QED BY <2>4, <2>5, <2>6 DEF TypeOK
<1>2. LockDiscipline'
  BY DEF TypeOK, LockDiscipline, HoldingSteps, FillSteps
<1>3. StatusUnderLock'
  BY DEF TypeOK, StatusUnderLock, LockDiscipline, HoldingSteps, FillSteps
<1>4. SubmittedOnce'
  BY DEF TypeOK, SubmittedOnce, Pushing, Absent
<1>5. CancelRecorded'
  BY DEF TypeOK, CancelRecorded, LockDiscipline, StatusUnderLock, HoldingSteps, FillSteps
<1>6. StatusMatchesFill'
  BY DEF TypeOK, StatusMatchesFill, Absent
<1>7. OpenListCoversActive'
  BY DEF TypeOK, OpenListCoversActive, is_active, ActiveStatus, Pushing, StatusUnderLock, HoldingSteps, FillSteps
<1>8. NoDuplicateOpenIds'
  BY DEF TypeOK, NoDuplicateOpenIds, SubmittedOnce, Pushing
<1>9. FillsInProgress'
  BY DEF TypeOK, FillsInProgress, FillSteps
<1> QED BY <1>1, <1>2, <1>3, <1>4, <1>5, <1>6, <1>7, <1>8, <1>9 DEF IInv

(* cancel_order marks an active order. *)
LEMMA CancelMarkStep ==
  ASSUME IInv, NEW t \in Threads, NEW o \in Orders, CancelMark(t, o)
  PROVE  IInv'
<1> USE OrderAssumption, FillAssumption, ThreadAssumption DEF IInv, CancelMark, EntryFree
<1>0. /\ orders'[o].status = "Cancelled"
      /\ orders'[o].filled_quantity = orders[o].filled_quantity
      /\ orders'[o] \in Order
      /\ \A p \in Orders \ {o} : orders'[p] = orders[p]
  <2>1. orders[o] \in Order /\ "Cancelled" \in Status
    BY DEF TypeOK, Status
  <2>2. \A s \in Status : [orders[o] EXCEPT !.status = s] \in Order
    BY <2>1 DEF Order
  <2>3. /\ orders'[o] = [orders[o] EXCEPT !.status = "Cancelled"]
        /\ \A p \in Orders \ {o} : orders'[p] = orders[p]
    BY DEF TypeOK
  <2> QED BY <2>1, <2>2, <2>3 DEF Order
<1>1. TypeOK'
  <2>1. orders' \in [Orders -> Order]
    BY <1>0 DEF TypeOK
  <2>2. op' \in [Threads -> Call] /\ lock' \in [Orders -> Threads \cup {NoThread}]
    BY DEF TypeOK, Call
  <2>3. pc' \in [Threads -> Steps]
    BY DEF TypeOK, Steps, HoldingSteps
  <2> QED BY <2>1, <2>2, <2>3 DEF TypeOK
<1>2. LockDiscipline'
  BY DEF TypeOK, LockDiscipline, HoldingSteps, FillSteps
<1>3. StatusUnderLock'
  BY DEF TypeOK, StatusUnderLock, LockDiscipline, HoldingSteps, FillSteps
<1>4. SubmittedOnce'
  <2>1. orders[o].status # Absent
    BY DEF is_active, ActiveStatus, Absent
  <2>2. \A p \in Orders : Pushing(p)' => Pushing(p)
    BY DEF TypeOK, Pushing
  <2>3. \A u \in Threads : pc'[u] = "push" => pc[u] = "push" /\ op'[u] = op[u]
    BY DEF TypeOK
  <2> QED BY <1>0, <2>1, <2>2, <2>3 DEF SubmittedOnce, Absent
<1>5. CancelRecorded'
  BY DEF TypeOK, CancelRecorded, LockDiscipline, StatusUnderLock, HoldingSteps, FillSteps
<1>6. StatusMatchesFill'
  <2>1. orders[o].filled_quantity # OrderOf[o].quantity
    BY DEF StatusMatchesFill, is_active, ActiveStatus
  <2> QED BY <1>0, <2>1 DEF StatusMatchesFill, Absent
<1>7. OpenListCoversActive'
  BY DEF TypeOK, OpenListCoversActive, is_active, ActiveStatus, Pushing, StatusUnderLock, HoldingSteps, FillSteps
<1>8. NoDuplicateOpenIds'
  BY DEF TypeOK, NoDuplicateOpenIds, SubmittedOnce, Pushing
<1>9. FillsInProgress'
  BY DEF TypeOK, FillsInProgress, FillSteps
<1> QED BY <1>1, <1>2, <1>3, <1>4, <1>5, <1>6, <1>7, <1>8, <1>9 DEF IInv

(* cancel_order unlists the order and remembers it. *)
LEMMA CancelUnlistStep ==
  ASSUME IInv, NEW t \in Threads, CancelUnlist(t)
  PROVE  IInv'
<1> USE OrderAssumption, FillAssumption, ThreadAssumption DEF IInv, CancelUnlist, Retain
<1>1. TypeOK'
  BY DEF TypeOK, Order, Status, ActiveStatus, Absent, Steps, HoldingSteps, FillSteps, Call, Report
<1>2. LockDiscipline'
  BY DEF TypeOK, LockDiscipline, HoldingSteps, FillSteps
<1>3. StatusUnderLock'
  BY DEF TypeOK, StatusUnderLock, LockDiscipline, HoldingSteps, FillSteps
<1>4. SubmittedOnce'
  BY DEF TypeOK, SubmittedOnce, Pushing, Absent
<1>5. CancelRecorded'
  BY DEF TypeOK, CancelRecorded, LockDiscipline, StatusUnderLock, HoldingSteps, FillSteps
<1>6. StatusMatchesFill'
  BY DEF TypeOK, StatusMatchesFill, Absent
<1>7. OpenListCoversActive'
  BY DEF TypeOK, OpenListCoversActive, is_active, ActiveStatus, Pushing, StatusUnderLock, HoldingSteps, FillSteps
<1>8. NoDuplicateOpenIds'
  BY DEF TypeOK, NoDuplicateOpenIds, SubmittedOnce, Pushing
<1>9. FillsInProgress'
  BY DEF TypeOK, FillsInProgress, FillSteps
<1> QED BY <1>1, <1>2, <1>3, <1>4, <1>5, <1>6, <1>7, <1>8, <1>9 DEF IInv

-----------------------------------------------------------------------------
(* IInv is inductive. *)
LEMMA NextIInv == IInv /\ [Next]_vars => IInv'
<1> SUFFICES ASSUME IInv, [Next]_vars PROVE IInv'
  OBVIOUS
<1>1. ASSUME NEW t \in Threads, Begin(t) PROVE IInv'
  <2> PICK o \in Orders :
        \/ SubmitInsert(t, o)
        \/ CancelMark(t, o)
        \/ \E price \in Prices, qty \in FillQuantities : FillUpdate(t, o, price, qty)
    BY <1>1 DEF Begin
  <2> QED BY SubmitInsertStep, CancelMarkStep, FillUpdateStep
<1>2. ASSUME NEW t \in Threads, Continue(t) PROVE IInv'
  BY <1>2, SubmitPushStep, FillPositionStep, FillRecordStep, FillCloseStep,
     FillReportStep, CancelUnlistStep DEF Continue
<1>3. CASE UNCHANGED vars
  BY <1>3 DEF vars, IInv, TypeOK, LockDiscipline, StatusUnderLock, FillsInProgress, SubmittedOnce,
     CancelRecorded, StatusMatchesFill, OpenListCoversActive, NoDuplicateOpenIds,
     is_active, Pushing
<1> QED BY <1>1, <1>2, <1>3 DEF Next

(* The inductive invariant holds in every reachable state. *)
THEOREM Invariance == Spec => []IInv
BY InitIInv, NextIInv, PTL DEF Spec

(* Every variable keeps its type, for any number of threads and orders. *)
THEOREM TypeCorrect == Spec => []TypeOK
BY Invariance, PTL DEF IInv

(* However the calls race, status and filled quantity agree. *)
THEOREM StatusAlwaysMatchesFill == Spec => []StatusMatchesFill
BY Invariance, PTL DEF IInv

(* No active order that nobody cancelled is missing from the open list. *)
THEOREM OpenListComplete == Spec => []OpenListCoversActive
BY Invariance, PTL DEF IInv

(* No order is in the open list twice. *)
THEOREM OpenListDuplicateFree == Spec => []NoDuplicateOpenIds
BY Invariance, PTL DEF IInv

(* A step taken where the invariant holds leaves a filled order filled:    *)
(* cancel_order refuses it, and a further fill finds it full already.      *)
LEMMA FilledStep ==
  ASSUME IInv, [Next]_vars, NEW o \in Orders, orders[o].status = "Filled"
  PROVE  orders'[o].status = "Filled"
<1> USE OrderAssumption, FillAssumption DEF IInv
<1>1. ASSUME NEW t \in Threads, NEW p \in Orders, SubmitInsert(t, p)
      PROVE  orders'[o].status = "Filled"
  <2>1. p # o
    BY <1>1 DEF SubmitInsert, MaySubmit, SubmittedOnce, TypeOK, Absent
  <2> QED BY <1>1, <2>1 DEF SubmitInsert, TypeOK
<1>2. ASSUME NEW t \in Threads, NEW p \in Orders, CancelMark(t, p)
      PROVE  orders'[o].status = "Filled"
  <2>1. p # o
    BY <1>2 DEF CancelMark, is_active, ActiveStatus
  <2> QED BY <1>2, <2>1 DEF CancelMark, TypeOK
<1>3. ASSUME NEW t \in Threads, NEW p \in Orders, NEW price \in Prices,
             NEW qty \in FillQuantities, FillUpdate(t, p, price, qty)
      PROVE  orders'[o].status = "Filled"
  <2>1. CASE p # o
    BY <1>3, <2>1 DEF FillUpdate, TypeOK
  <2>2. CASE p = o
    <3>1. /\ orders[o] \in Order /\ OrderOf[o].quantity \in Nat \ {0}
          /\ price \in Nat /\ qty \in Nat \ {0}
          /\ orders[o].filled_quantity = OrderOf[o].quantity
          /\ orders[o].filled_quantity <= OrderOf[o].quantity
      BY DEF TypeOK, StatusMatchesFill
    <3>2. Filled(orders[o], OrderOf[o].quantity, price, qty).status = "Filled"
      BY <3>1, FilledOrder
    <3> QED BY <1>3, <2>2, <3>2 DEF FillUpdate, TypeOK
  <2> QED BY <2>1, <2>2
<1>4. ASSUME NEW t \in Threads, Continue(t)
      PROVE  orders' = orders
  BY <1>4 DEF Continue, SubmitPush, FillPosition, FillRecord, FillClose,
     FillReport, CancelUnlist
<1> QED BY <1>1, <1>2, <1>3, <1>4 DEF Next, Begin, vars

(* A filled order stays filled. *)
THEOREM FilledOrdersStayFilled == Spec => FilledIsFinal
<1>1. IInv /\ [Next]_vars =>
        [\A o \in Orders :
           orders[o].status = "Filled" => orders'[o].status = "Filled"]_vars
  BY FilledStep
<1> QED BY <1>1, Invariance, PTL DEF Spec, FilledIsFinal

-----------------------------------------------------------------------------
(* What was reported of an order never exceeds what is stored: the report  *)
(* is written under the lock of the entry, and stored fills only grow.     *)
ReportsBehind ==
  \A i \in DOMAIN reports :
    LET order == orders[reports[i].order]
    IN /\ order.status # Absent
       /\ reports[i].filled_quantity <= order.filled_quantity
       /\ reports[i].status = "Filled" => order.status = "Filled"

(* What a step makes of the stored orders: nothing goes back. *)
LEMMA OrdersGrow ==
  ASSUME IInv, [Next]_vars, NEW o \in Orders, orders[o].status # Absent
  PROVE  /\ orders'[o].status # Absent
         /\ orders[o].filled_quantity <= orders'[o].filled_quantity
<1> USE OrderAssumption, FillAssumption DEF IInv
<1>0. orders[o].filled_quantity \in Nat
  BY DEF TypeOK, Order
<1>1. ASSUME NEW t \in Threads, NEW p \in Orders, SubmitInsert(t, p)
      PROVE  orders'[o] = orders[o]
  <2>1. p # o
    BY <1>1 DEF SubmitInsert, MaySubmit, SubmittedOnce, TypeOK, Absent
  <2> QED BY <1>1, <2>1 DEF SubmitInsert, TypeOK
<1>2. ASSUME NEW t \in Threads, NEW p \in Orders, CancelMark(t, p)
      PROVE  /\ orders'[o].filled_quantity = orders[o].filled_quantity
             /\ orders'[o].status \in {orders[o].status, "Cancelled"}
  BY <1>2 DEF CancelMark, TypeOK, Order
<1>3. ASSUME NEW t \in Threads, NEW p \in Orders, NEW price \in Prices,
             NEW qty \in FillQuantities, FillUpdate(t, p, price, qty)
      PROVE  /\ orders'[o].status # Absent
             /\ orders[o].filled_quantity <= orders'[o].filled_quantity
  <2>1. CASE p # o
    BY <1>0, <1>3, <2>1 DEF FillUpdate, TypeOK
  <2>2. CASE p = o
    <3>1. /\ OrderOf[o].quantity \in Nat \ {0} /\ qty \in Nat \ {0}
          /\ orders[o].filled_quantity <= OrderOf[o].quantity
      BY DEF StatusMatchesFill
    <3>2. orders'[o] = Filled(orders[o], OrderOf[o].quantity, price, qty)
      BY <1>3, <2>2 DEF FillUpdate, TypeOK
    <3>3. /\ orders'[o].filled_quantity = FilledQuantity(orders[o], OrderOf[o].quantity, qty)
          /\ orders'[o].status \in {"Filled", "PartiallyFilled"}
      BY <3>2 DEF Filled
    <3> QED BY <1>0, <3>1, <3>3 DEF FilledQuantity, Absent
  <2> QED BY <2>1, <2>2
<1>4. ASSUME NEW t \in Threads, Continue(t)
      PROVE  orders' = orders
  BY <1>4 DEF Continue, SubmitPush, FillPosition, FillRecord, FillClose,
     FillReport, CancelUnlist
<1> QED BY <1>0, <1>1, <1>2, <1>3, <1>4 DEF Next, Begin, vars, Absent

(* The only step that reports is the last one of a fill. *)
LEMMA ReportsAppended ==
  ASSUME IInv, [Next]_vars
  PROVE  \/ reports' = reports
         \/ \E t \in Threads : FillReport(t)
BY DEF Next, Begin, Continue, SubmitInsert, CancelMark, FillUpdate, SubmitPush,
   FillPosition, FillRecord, FillClose, CancelUnlist, vars

LEMMA ReportsStep ==
  ASSUME IInv, [Next]_vars, ReportsBehind, ReportsInOrder
  PROVE  ReportsBehind' /\ ReportsInOrder'
<1>0. /\ reports \in Seq(Report)
      /\ \A i \in DOMAIN reports : /\ reports[i].order \in Orders
                                    /\ reports[i].filled_quantity \in Nat
  <2>1. reports \in Seq(Report)
    BY DEF IInv, TypeOK
  <2>2. \A i \in DOMAIN reports : reports[i] \in Report
    BY <2>1
  <2> QED BY <2>1, <2>2 DEF Report
<1>1. \A i \in DOMAIN reports :
        LET order == orders'[reports[i].order]
        IN /\ order.status # Absent
           /\ reports[i].filled_quantity <= order.filled_quantity
           /\ reports[i].status = "Filled" => order.status = "Filled"
  <2> SUFFICES ASSUME NEW i \in DOMAIN reports
               PROVE  LET order == orders'[reports[i].order]
                      IN /\ order.status # Absent
                         /\ reports[i].filled_quantity <= order.filled_quantity
                         /\ reports[i].status = "Filled" => order.status = "Filled"
    OBVIOUS
  <2> DEFINE o == reports[i].order
  <2>1. o \in Orders /\ orders[o].status # Absent
        /\ reports[i].filled_quantity <= orders[o].filled_quantity
        /\ (reports[i].status = "Filled" => orders[o].status = "Filled")
    BY <1>0 DEF ReportsBehind
  <2>2. orders'[o].status # Absent /\ orders[o].filled_quantity <= orders'[o].filled_quantity
    BY <2>1, OrdersGrow
  <2>3. orders[o].status = "Filled" => orders'[o].status = "Filled"
    BY <2>1, FilledStep
  <2>4. /\ reports[i].filled_quantity \in Nat /\ orders[o].filled_quantity \in Nat
        /\ orders'[o].filled_quantity \in Nat
    <3>1. IInv'
      BY NextIInv
    <3>2. orders \in [Orders -> Order] /\ orders' \in [Orders -> Order]
      BY <3>1 DEF IInv, TypeOK
    <3>3. orders[o] \in Order /\ orders'[o] \in Order
      BY <2>1, <3>2
    <3> QED BY <1>0, <3>3 DEF Order
  <2> QED BY <2>1, <2>2, <2>3, <2>4
<1>2. CASE reports' = reports
  BY <1>1, <1>2 DEF ReportsBehind, ReportsInOrder
<1>3. ASSUME NEW t \in Threads, FillReport(t)
      PROVE  ReportsBehind' /\ ReportsInOrder'
  <2> DEFINE o == op[t].order
             new == [order |-> o, status |-> orders[o].status,
                     filled_quantity |-> orders[o].filled_quantity]
  <2>1. /\ reports' = Append(reports, new) /\ orders' = orders
        /\ o \in Orders /\ orders[o].status \in {"Filled", "PartiallyFilled"}
        /\ orders[o].filled_quantity \in Nat
    BY <1>3 DEF FillReport, IInv, TypeOK, Call, StatusUnderLock, FillSteps, Order
  <2> HIDE DEF new
  <2>2. /\ DOMAIN reports' = 1..(Len(reports) + 1) /\ Len(reports) \in Nat
        /\ DOMAIN reports = 1..Len(reports)
        /\ \A i \in DOMAIN reports : reports'[i] = reports[i]
        /\ reports'[Len(reports) + 1] = new
    BY <1>0, <2>1
  <2>3. new.order = o /\ new.status = orders[o].status
        /\ new.filled_quantity = orders[o].filled_quantity
    BY DEF new
  <2>4. ReportsBehind'
    <3> SUFFICES ASSUME NEW i \in DOMAIN reports'
                 PROVE  LET order == orders'[reports'[i].order]
                        IN /\ order.status # Absent
                           /\ reports'[i].filled_quantity <= order.filled_quantity
                           /\ reports'[i].status = "Filled" => order.status = "Filled"
      BY DEF ReportsBehind
    <3>1. CASE i \in DOMAIN reports
      BY <1>1, <2>1, <2>2, <3>1
    <3>2. CASE i = Len(reports) + 1
      BY <2>1, <2>2, <2>3, <3>2 DEF Absent
    <3> QED BY <2>2, <3>1, <3>2
  <2>5. ReportsInOrder'
    <3> SUFFICES ASSUME NEW j \in DOMAIN reports', NEW i \in 1..(j - 1),
                        reports'[i].order = reports'[j].order
                 PROVE  /\ reports'[i].filled_quantity <= reports'[j].filled_quantity
                        /\ reports'[i].status = "Filled" => reports'[j].status = "Filled"
      BY DEF ReportsInOrder
    <3>0. i \in DOMAIN reports
      BY <2>2
    <3>1. CASE j \in DOMAIN reports
      BY <2>2, <3>0, <3>1 DEF ReportsInOrder
    <3>2. CASE j = Len(reports) + 1
      BY <1>1, <2>1, <2>2, <2>3, <3>0, <3>2
    <3> QED BY <2>2, <3>1, <3>2
  <2> QED BY <2>4, <2>5
<1> QED BY <1>2, <1>3, ReportsAppended

(* However threads race, the reports of one order come in the order of its *)
(* fills: none takes back what an earlier one said.                        *)
THEOREM ReportsComeInOrder == Spec => []ReportsInOrder
<1>1. Init => ReportsBehind /\ ReportsInOrder
  BY DEF Init, ReportsBehind, ReportsInOrder
<1>2. IInv /\ (ReportsBehind /\ ReportsInOrder) /\ [Next]_vars
        => (ReportsBehind /\ ReportsInOrder)'
  BY ReportsStep
<1> QED BY <1>1, <1>2, Invariance, PTL DEF Spec

-----------------------------------------------------------------------------
(* The refinement, as far as it is about orders: each call takes effect    *)
(* when it gets hold of its order, and its other steps change nothing.     *)

Shown(o) == is_active(o) /\ (openIds[o] > 0 \/ Pushing(o))

(* A step that leaves every order and what is shown of it alone. *)
LEMMA OrdersStutter ==
  ASSUME orders' = orders, \A o \in Orders : Shown(o)' <=> Shown(o)
  PROVE  UNCHANGED Atomic!orderVars
<1>1. {o \in Orders : Shown(o)}' = {o \in Orders : Shown(o)}
  OBVIOUS
<1> QED BY <1>1 DEF Atomic!orderVars, Shown

(* Whose ids are being pushed changes with submit_order only. *)
LEMMA SamePushing ==
  ASSUME NEW t \in Threads, pc[t] # "push", pc'[t] # "push",
         \A u \in Threads : u # t => pc'[u] = pc[u] /\ op'[u] = op[u]
  PROVE  \A o \in Orders : Pushing(o)' <=> Pushing(o)
BY DEF Pushing

LEMMA SubmitInsertRefines ==
  ASSUME IInv, NEW t \in Threads, NEW o \in Orders, SubmitInsert(t, o)
  PROVE  Atomic!Submit(o)
<1>1. /\ orders \in [Orders -> Order] /\ orders[o].status = Absent
      /\ orders' = [orders EXCEPT ![o] = [status |-> "Submitted", filled_quantity |-> 0,
                                          average_fill_price |-> Rat(0)]]
      /\ openIds' = openIds /\ pc \in [Threads -> Steps] /\ op \in [Threads -> Call]
      /\ pc[t] = "idle" /\ pc' = [pc EXCEPT ![t] = "push"]
      /\ op' = [op EXCEPT ![t].order = o]
  BY DEF IInv, TypeOK, SubmittedOnce, SubmitInsert, MaySubmit
<1>2. /\ orders[o].filled_quantity = 0 /\ \A p \in Orders \ {o} : orders'[p] = orders[p]
      /\ orders'[o].status = "Submitted" /\ orders'[o].filled_quantity = 0
  BY <1>1 DEF IInv, StatusMatchesFill, Absent
<1>3. Pushing(o)' /\ \A p \in Orders \ {o} : Pushing(p)' <=> Pushing(p)
  <2>1. pc'[t] = "push" /\ op'[t].order = o
    BY <1>1 DEF Call
  <2>2. \A u \in Threads : u # t => pc'[u] = pc[u] /\ op'[u] = op[u]
    BY <1>1
  <2> QED BY <1>1, <2>1, <2>2 DEF Pushing
<1>4. Shown(o)' /\ \A p \in Orders \ {o} : Shown(p)' <=> Shown(p)
  BY <1>1, <1>2, <1>3 DEF Shown, is_active, ActiveStatus
<1>5. {p \in Orders : Shown(p)}' = {p \in Orders : Shown(p)} \cup {o}
  BY <1>4
<1>6. [p \in Orders |-> orders[p].status]' =
        [[p \in Orders |-> orders[p].status] EXCEPT ![o] = "Submitted"]
  BY <1>2
<1>7. [p \in Orders |-> orders[p].filled_quantity]' = [p \in Orders |-> orders[p].filled_quantity]
  BY <1>2
<1> QED BY <1>1, <1>5, <1>6, <1>7 DEF Atomic!Submit, Shown, Absent

LEMMA CancelMarkRefines ==
  ASSUME IInv, NEW t \in Threads, NEW o \in Orders, CancelMark(t, o)
  PROVE  Atomic!Cancel(o)
<1>1. /\ orders \in [Orders -> Order] /\ orders[o].status \in {"Submitted", "PartiallyFilled"}
      /\ orders' = [orders EXCEPT ![o].status = "Cancelled"]
      /\ openIds' = openIds /\ pc \in [Threads -> Steps] /\ op \in [Threads -> Call]
      /\ pc[t] = "idle" /\ pc' = [pc EXCEPT ![t] = "unlist"]
      /\ op' = [op EXCEPT ![t].order = o]
  BY DEF IInv, TypeOK, SubmittedOnce, CancelMark, is_active, ActiveStatus
<1>2. /\ \A p \in Orders \ {o} : orders'[p] = orders[p]
      /\ orders'[o].status = "Cancelled"
      /\ orders'[o].filled_quantity = orders[o].filled_quantity
  BY <1>1 DEF Order
<1>3. \A p \in Orders : Pushing(p)' <=> Pushing(p)
  BY <1>1, SamePushing
<1>4. ~Shown(o)' /\ \A p \in Orders \ {o} : Shown(p)' <=> Shown(p)
  BY <1>1, <1>2, <1>3 DEF Shown, is_active, ActiveStatus
<1>5. {p \in Orders : Shown(p)}' = {p \in Orders : Shown(p)} \ {o}
  BY <1>4
<1>6. [p \in Orders |-> orders[p].status]' =
        [[p \in Orders |-> orders[p].status] EXCEPT ![o] = "Cancelled"]
  BY <1>2
<1>7. [p \in Orders |-> orders[p].filled_quantity]' = [p \in Orders |-> orders[p].filled_quantity]
  BY <1>2
<1> QED BY <1>1, <1>5, <1>6, <1>7 DEF Atomic!Cancel, Atomic!Active, Shown

LEMMA FillUpdateRefines ==
  ASSUME IInv, NEW t \in Threads, NEW o \in Orders, NEW price \in Prices,
         NEW qty \in FillQuantities, FillUpdate(t, o, price, qty)
  PROVE  Atomic!Fill(o, qty)
<1> DEFINE quantity == OrderOf[o].quantity
           filled == orders[o].filled_quantity
<1>1. /\ orders \in [Orders -> Order] /\ orders[o].status # Absent
      /\ orders' = [orders EXCEPT ![o] = Filled(orders[o], quantity, price, qty)]
      /\ openIds' = openIds /\ pc \in [Threads -> Steps] /\ op \in [Threads -> Call]
      /\ pc[t] = "idle" /\ pc' = [pc EXCEPT ![t] = "position"]
      /\ \A u \in Threads : u # t => op'[u] = op[u]
  BY DEF IInv, TypeOK, FillUpdate
<1>2. /\ quantity \in Nat \ {0} /\ qty \in Nat \ {0} /\ filled \in Nat /\ filled <= quantity
      /\ orders[o].status \in {"Submitted", "PartiallyFilled", "Filled", "Cancelled"}
      /\ orders[o].status = "Filled" <=> filled = quantity
  BY <1>1, OrderAssumption, FillAssumption
  DEF IInv, StatusMatchesFill, SubmittedOnce, Order, Status, ActiveStatus
<1>3. /\ \A p \in Orders \ {o} : orders'[p] = orders[p]
      /\ orders'[o].filled_quantity = FilledQuantity(orders[o], quantity, qty)
      /\ orders'[o].status = IF FilledQuantity(orders[o], quantity, qty) >= quantity
                             THEN "Filled" ELSE "PartiallyFilled"
  <2>1. orders'[o] = Filled(orders[o], quantity, price, qty)
    BY <1>1
  <2> QED BY <1>1, <2>1 DEF Filled
<1>4. \A p \in Orders : Pushing(p)' <=> Pushing(p)
  BY <1>1, SamePushing
<1>5. \A p \in Orders \ {o} : Shown(p)' <=> Shown(p)
  BY <1>1, <1>3, <1>4 DEF Shown, is_active
<1>6. CASE qty >= quantity - filled
  <2>1. orders'[o].status = "Filled" /\ orders'[o].filled_quantity = quantity
    BY <1>2, <1>3, <1>6 DEF FilledQuantity
  <2>2. ~Shown(o)'
    BY <2>1 DEF Shown, is_active, ActiveStatus
  <2>3. {p \in Orders : Shown(p)}' = {p \in Orders : Shown(p)} \ {o}
    BY <1>5, <2>2
  <2>4. [p \in Orders |-> orders[p].status]' =
          [[p \in Orders |-> orders[p].status] EXCEPT ![o] = "Filled"]
    BY <1>3, <2>1
  <2>5. [p \in Orders |-> orders[p].filled_quantity]' =
          [[p \in Orders |-> orders[p].filled_quantity] EXCEPT ![o] = quantity]
    BY <1>3, <2>1
  <2> QED BY <1>1, <1>6, <2>3, <2>4, <2>5 DEF Atomic!Fill, Shown, Absent
<1>7. CASE qty < quantity - filled
  <2>1. orders'[o].status = "PartiallyFilled" /\ orders'[o].filled_quantity = filled + qty
    BY <1>2, <1>3, <1>7 DEF FilledQuantity
  <2>2. (Shown(o)' <=> Shown(o)) \/ (orders[o].status = "Cancelled" /\ Shown(o)')
    <3>1. orders[o].status # "Filled"
      BY <1>2, <1>7
    <3> QED BY <1>1, <1>2, <1>4, <2>1, <3>1 DEF Shown, is_active, ActiveStatus
  <2>3. \/ {p \in Orders : Shown(p)}' = {p \in Orders : Shown(p)}
        \/ /\ orders[o].status = "Cancelled"
           /\ {p \in Orders : Shown(p)}' = {p \in Orders : Shown(p)} \cup {o}
    BY <1>5, <2>2
  <2>4. [p \in Orders |-> orders[p].status]' =
          [[p \in Orders |-> orders[p].status] EXCEPT ![o] = "PartiallyFilled"]
    BY <1>3, <2>1
  <2>5. [p \in Orders |-> orders[p].filled_quantity]' =
          [[p \in Orders |-> orders[p].filled_quantity] EXCEPT ![o] = @ + qty]
    BY <1>3, <2>1
  <2> QED BY <1>1, <1>7, <2>3, <2>4, <2>5 DEF Atomic!Fill, Shown, Absent
<1> QED BY <1>2, <1>6, <1>7

(* The later steps of a call: an id that is pushed was counted, and one    *)
(* that is removed belongs to an order that is no longer active.           *)
LEMMA ContinueRefines ==
  ASSUME IInv, NEW t \in Threads, Continue(t)
  PROVE  UNCHANGED Atomic!orderVars
<1>0. /\ pc \in [Threads -> Steps] /\ op \in [Threads -> Call]
      /\ openIds \in [Orders -> Nat] /\ op[t].order \in Orders
  BY DEF IInv, TypeOK, Call
<1>1. orders' = orders
  BY DEF Continue, SubmitPush, FillPosition, FillRecord, FillClose, FillReport, CancelUnlist
<1>2. CASE SubmitPush(t)
  <2>1. /\ pc[t] = "push" /\ pc' = [pc EXCEPT ![t] = "idle"] /\ op' = op
        /\ openIds' = [openIds EXCEPT ![op[t].order] = @ + 1]
    BY <1>2 DEF SubmitPush
  <2>2. \A o \in Orders : o # op[t].order =>
          openIds'[o] = openIds[o] /\ (Pushing(o)' <=> Pushing(o))
    BY <1>0, <2>1 DEF Pushing
  <2>3. openIds'[op[t].order] > 0 /\ Pushing(op[t].order)
    BY <1>0, <2>1 DEF Pushing
  <2> QED BY <1>0, <1>1, <2>2, <2>3, OrdersStutter DEF Shown, is_active
<1>3. CASE FillPosition(t) \/ FillRecord(t) \/ FillReport(t)
  <2>1. /\ openIds' = openIds /\ op' = op /\ pc[t] # "push" /\ pc'[t] # "push"
        /\ \A u \in Threads : u # t => pc'[u] = pc[u]
    BY <1>0, <1>3 DEF FillPosition, FillRecord, FillReport
  <2>2. \A o \in Orders : Pushing(o)' <=> Pushing(o)
    BY <2>1, SamePushing
  <2> QED BY <1>1, <2>1, <2>2, OrdersStutter DEF Shown, is_active
<1>4. CASE FillClose(t) \/ CancelUnlist(t)
  <2>1. /\ openIds' = [openIds EXCEPT ![op[t].order] = 0] /\ op' = op
        /\ pc[t] # "push" /\ pc'[t] # "push"
        /\ \A u \in Threads : u # t => pc'[u] = pc[u]
    BY <1>0, <1>4 DEF FillClose, CancelUnlist, Retain
  <2>2. ~is_active(op[t].order)
    BY <1>0, <1>4 DEF IInv, StatusUnderLock, FillClose, CancelUnlist, is_active, ActiveStatus
  <2>3. \A o \in Orders : Pushing(o)' <=> Pushing(o)
    BY <2>1, SamePushing
  <2> QED BY <1>0, <1>1, <2>1, <2>2, <2>3, OrdersStutter DEF Shown, is_active
<1> QED BY <1>2, <1>3, <1>4 DEF Continue

LEMMA OrdersRefine ==
  ASSUME IInv, [Next]_vars
  PROVE  [Atomic!NextOrders]_(Atomic!orderVars)
<1>1. ASSUME NEW t \in Threads, Begin(t) PROVE Atomic!NextOrders
  <2> PICK o \in Orders :
        \/ SubmitInsert(t, o)
        \/ CancelMark(t, o)
        \/ \E price \in Prices, qty \in FillQuantities : FillUpdate(t, o, price, qty)
    BY <1>1 DEF Begin
  <2> QED BY SubmitInsertRefines, CancelMarkRefines, FillUpdateRefines DEF Atomic!NextOrders
<1>2. CASE UNCHANGED vars
  <2>1. \A o \in Orders : Shown(o)' <=> Shown(o)
    BY <1>2 DEF vars, Shown, is_active, Pushing
  <2> QED BY <1>2, <2>1, OrdersStutter DEF vars
<1> QED BY <1>1, <1>2, ContinueRefines DEF Next

(* For any orders, threads and fills, the orders and the open list look as *)
(* if each call had happened at one instant.                               *)
THEOREM OrdersAtomic == Spec => OrdersLookAtomic
<1>1. Init => Atomic!InitOrders
  BY DEF Init, Atomic!InitOrders, Absent, is_active, ActiveStatus
<1> QED BY <1>1, OrdersRefine, Invariance, PTL DEF Spec, OrdersLookAtomic, Atomic!SpecOrders

-----------------------------------------------------------------------------
(* Sums of lists.  What the recursive definition of Total yields is shown by *)
(* the least place at which it would fail: the partial sums of a list are a  *)
(* function s that Sums says is right, and there is one and only one.        *)
Sums(s, list, len) ==
  s[0] = 0 /\ \A n \in 1..len : s[n] = s[n - 1] + list[n]

LEMMA LeastNatural ==
  ASSUME NEW T \in SUBSET Nat, T # {}
  PROVE  \E n \in T : \A m \in T : n <= m
<1> DEFINE R == {ss \in Nat \X Nat : ss[1] < ss[2]}
<1>1. IsWellFoundedOn(R, Nat)
  BY NatLessThanWellFounded DEF OpToRel
<1>2. \A x, y \in Nat : y < x => <<y, x>> \in R
  OBVIOUS
<1> HIDE DEF R
<1>3. \E n \in T : \A m \in T : ~(<<m, n>> \in R)
  BY <1>1, WFMin
<1>4. PICK n \in T : \A m \in T : ~(<<m, n>> \in R)
  BY <1>3
<1>5. \A m \in T : n \in Nat /\ m \in Nat /\ ~(m < n)
  BY <1>2, <1>4
<1> QED BY <1>5

LEMMA SumsAgree ==
  ASSUME NEW list, NEW len \in Nat, NEW s, NEW u, Sums(s, list, len), Sums(u, list, len)
  PROVE  \A n \in 0..len : s[n] = u[n]
<1> DEFINE Wrong == {n \in 0..len : s[n] # u[n]}
<1> SUFFICES ASSUME Wrong # {} PROVE FALSE
  OBVIOUS
<1>1. PICK n \in Wrong : \A m \in Wrong : n <= m
  <2>1. Wrong \subseteq Nat
    OBVIOUS
  <2> HIDE DEF Wrong
  <2> QED BY <2>1, LeastNatural
<1>2. n # 0
  BY DEF Sums
<1>3. n \in 1..len /\ n - 1 \in 0..len /\ ~(n <= n - 1)
  BY <1>2
<1>4. s[n - 1] = u[n - 1]
  BY <1>1, <1>3
<1> QED BY <1>3, <1>4 DEF Sums

LEMMA SumsExist ==
  ASSUME NEW len \in Nat, NEW list \in [1..len -> Int]
  PROVE  \E s \in [0..len -> Int] : Sums(s, list, len)
<1> DEFINE Missing == {n \in Nat : n <= len /\ ~ \E s \in [0..n -> Int] : Sums(s, list, n)}
<1>1. \E s \in [0..0 -> Int] : Sums(s, list, 0)
  <2> DEFINE s == [k \in 0..0 |-> 0]
  <2>1. s \in [0..0 -> Int] /\ s[0] = 0
    OBVIOUS
  <2>2. 1..0 = {}
    OBVIOUS
  <2> HIDE DEF s
  <2> QED BY <2>1, <2>2 DEF Sums
<1>2. ASSUME NEW n \in Nat, n + 1 <= len, \E s \in [0..n -> Int] : Sums(s, list, n)
      PROVE  \E s \in [0..(n + 1) -> Int] : Sums(s, list, n + 1)
  <2>1. PICK s \in [0..n -> Int] : Sums(s, list, n)
    BY <1>2
  <2> DEFINE u == [k \in 0..(n + 1) |-> IF k = n + 1 THEN s[n] + list[n + 1] ELSE s[k]]
  <2>2. n + 1 \in 1..len /\ list[n + 1] \in Int /\ s[n] \in Int
    BY <1>2
  <2>3. u \in [0..(n + 1) -> Int]
    BY <2>2
  <2>4. u[n + 1] = s[n] + list[n + 1] /\ \A k \in 0..n : u[k] = s[k]
    OBVIOUS
  <2> HIDE DEF u
  <2>5. ASSUME NEW k \in 1..(n + 1) PROVE u[k] = u[k - 1] + list[k]
    <3>1. CASE k = n + 1
      <4>1. k - 1 = n /\ n \in 0..n
        BY <3>1
      <4> QED BY <2>4, <3>1, <4>1
    <3>2. CASE k # n + 1
      <4>1. k \in 1..n /\ k \in 0..n /\ k - 1 \in 0..n
        BY <3>2
      <4> QED BY <2>1, <2>4, <4>1 DEF Sums
    <3> QED BY <3>1, <3>2
  <2>6. u[0] = 0
    BY <2>1, <2>4 DEF Sums
  <2> QED BY <2>3, <2>5, <2>6 DEF Sums
<1>3. Missing = {}
  <2> SUFFICES ASSUME Missing # {} PROVE FALSE
    OBVIOUS
  <2>1. PICK n \in Missing : \A m \in Missing : n <= m
    <3>1. Missing \subseteq Nat
      OBVIOUS
    <3> HIDE DEF Missing
    <3> QED BY <3>1, LeastNatural
  <2>2. n \in Nat /\ n # 0 /\ n <= len
    BY <1>1
  <2>3. n - 1 \in Nat /\ (n - 1) + 1 = n /\ ~(n <= n - 1) /\ n - 1 <= len
    BY <2>2
  <2>4. n - 1 \notin Missing
    BY <2>1, <2>3
  <2>5. \E s \in [0..(n - 1) -> Int] : Sums(s, list, n - 1)
    BY <2>3, <2>4
  <2>6. \E s \in [0..n -> Int] : Sums(s, list, n)
    BY <1>2, <2>2, <2>3, <2>5
  <2> QED BY <2>1, <2>6
<1>4. len \notin Missing
  BY <1>3
<1> QED BY <1>4

(* Total is the last of the partial sums. *)
LEMMA TotalIs ==
  ASSUME NEW list \in Seq(Int)
  PROVE  /\ Total(list) \in Int
         /\ \E s \in [0..Len(list) -> Int] : Sums(s, list, Len(list)) /\ Total(list) = s[Len(list)]
         /\ \A s : Sums(s, list, Len(list)) => Total(list) = s[Len(list)]
<1> DEFINE len == Len(list)
           Step(f) == [n \in 0..len |-> IF n = 0 THEN 0 ELSE f[n - 1] + list[n]]
           sum[n \in 0..len] == IF n = 0 THEN 0 ELSE sum[n - 1] + list[n]
<1>1. len \in Nat /\ list \in [1..len -> Int]
  BY LenProperties
<1>2. PICK s \in [0..len -> Int] : Sums(s, list, len)
  BY <1>1, SumsExist
<1>3. s = Step(s)
  <2>1. \A n \in 0..len : s[n] = IF n = 0 THEN 0 ELSE s[n - 1] + list[n]
    <3> SUFFICES ASSUME NEW n \in 0..len PROVE s[n] = IF n = 0 THEN 0 ELSE s[n - 1] + list[n]
      OBVIOUS
    <3>1. n # 0 => n \in 1..len
      BY <1>1
    <3> HIDE DEF len
    <3> QED BY <1>2, <3>1 DEF Sums
  <2>2. s = [n \in 0..len |-> s[n]]
    BY <1>2
  <2> HIDE DEF len
  <2> QED BY <2>1, <2>2
<1>4. sum = CHOOSE f : f = Step(f)
  OBVIOUS
<1> HIDE DEF sum
<1>5. sum = Step(sum)
  <2> HIDE DEF Step
  <2> QED BY <1>3, <1>4
<1>6. Sums(sum, list, len)
  <2>1. 0 \in 0..len /\ \A n \in 1..len : n \in 0..len /\ n # 0
    BY <1>1
  <2> HIDE DEF len
  <2>2. \A n \in 0..len : sum[n] = IF n = 0 THEN 0 ELSE sum[n - 1] + list[n]
    BY <1>5
  <2> QED BY <2>1, <2>2 DEF Sums
<1>7. Total(list) = sum[len]
  BY DEF Total, sum
<1>8. \A f : Sums(f, list, len) => sum[len] = f[len]
  <2> SUFFICES ASSUME NEW f, Sums(f, list, len) PROVE sum[len] = f[len]
    OBVIOUS
  <2> HIDE DEF len
  <2>1. \A n \in 0..len : sum[n] = f[n]
    BY <1>1, <1>6, SumsAgree
  <2> QED BY <1>1, <2>1
<1> HIDE DEF len
<1>9. s[len] \in Int
  BY <1>1, <1>2
<1> QED BY <1>1, <1>2, <1>7, <1>8, <1>9 DEF len

(* One number more. *)
LEMMA TotalAppended ==
  ASSUME NEW list \in Seq(Int), NEW more \in Seq(Int), Len(more) = Len(list) + 1,
         \A i \in 1..Len(list) : more[i] = list[i]
  PROVE  Total(more) = Total(list) + more[Len(list) + 1]
<1> DEFINE len == Len(list)
<1>1. PICK s \in [0..Len(more) -> Int] : Sums(s, more, Len(more)) /\ Total(more) = s[Len(more)]
  BY TotalIs
<1>2. len \in Nat
  BY LenProperties
<1>3. Sums(s, list, len)
  <2> HIDE DEF len
  <2>1. \A n \in 1..len : n \in 1..(len + 1)
    BY <1>2
  <2> QED BY <1>1, <2>1 DEF Sums, len
<1>4. Total(list) = s[len]
  BY <1>3, TotalIs
<1>5. len + 1 \in 1..(len + 1) /\ (len + 1) - 1 = len
  BY <1>2
<1> HIDE DEF len
<1>6. s[len + 1] = s[(len + 1) - 1] + more[len + 1]
  BY <1>1, <1>5 DEF Sums, len
<1> QED BY <1>1, <1>4, <1>5, <1>6 DEF len

(* One number replaced. *)
LEMMA TotalChanged ==
  ASSUME NEW list \in Seq(Int), NEW new \in Seq(Int), Len(new) = Len(list),
         NEW j \in 1..Len(list), \A i \in 1..Len(list) : i # j => new[i] = list[i]
  PROVE  Total(new) = Total(list) - list[j] + new[j]
<1> DEFINE len == Len(list)
<1>1. PICK s \in [0..len -> Int] : Sums(s, list, len) /\ Total(list) = s[len]
  BY TotalIs
<1>2. len \in Nat /\ list[j] \in Int /\ new[j] \in Int
  BY LenProperties
<1> DEFINE u == [n \in 0..len |-> IF n < j THEN s[n] ELSE s[n] - list[j] + new[j]]
<1> HIDE DEF len
<1>3. /\ j \in 1..len /\ j \in Int
      /\ \A i \in 1..len : list[i] \in Int /\ (i # j => new[i] = list[i])
  BY <1>2, LenProperties DEF len
<1>6. \A n \in 0..len : u[n] = IF n < j THEN s[n] ELSE s[n] - list[j] + new[j]
  OBVIOUS
<1>5. u[len] = s[len] - list[j] + new[j]
  BY <1>2, <1>3, <1>6
<1> HIDE DEF u
<1>7. Sums(u, new, len)
  <2>1. u[0] = 0
    <3>1. 0 \in 0..len /\ 0 < j
      BY <1>2, <1>3
    <3> QED BY <1>1, <1>6, <3>1 DEF Sums
  <2>2. ASSUME NEW n \in 1..len PROVE u[n] = u[n - 1] + new[n]
    <3>1. n \in Int /\ n \in 0..len /\ n - 1 \in 0..len
      BY <1>2
    <3>2. s[n] = s[n - 1] + list[n] /\ s[n - 1] \in Int /\ list[n] \in Int
      BY <1>1, <1>3, <3>1 DEF Sums
    <3>3. /\ u[n] = IF n < j THEN s[n] ELSE s[n] - list[j] + new[j]
          /\ u[n - 1] = IF n - 1 < j THEN s[n - 1] ELSE s[n - 1] - list[j] + new[j]
      BY <1>6, <3>1
    <3>4. CASE n < j
      <4>1. u[n] = s[n] /\ u[n - 1] = s[n - 1] /\ new[n] = list[n]
        BY <1>3, <3>1, <3>3, <3>4
      <4> QED BY <3>2, <4>1
    <3>5. CASE n = j
      <4>1. u[n] = s[n] - list[j] + new[j] /\ u[n - 1] = s[n - 1]
        BY <1>3, <3>1, <3>3, <3>5
      <4>2. list[j] = list[n] /\ new[j] = new[n] /\ new[n] \in Int
        BY <1>2, <3>5
      <4>3. \A x, v, w \in Int : (x + v) - v + w = x + w
        OBVIOUS
      <4>4. (s[n - 1] + list[n]) - list[n] + new[n] = s[n - 1] + new[n]
        BY <3>2, <4>2, <4>3
      <4> QED BY <3>2, <4>1, <4>2, <4>4
    <3>6. CASE n > j
      <4>1. /\ u[n] = s[n] - list[j] + new[j] /\ u[n - 1] = s[n - 1] - list[j] + new[j]
            /\ new[n] = list[n]
        BY <1>3, <3>1, <3>3, <3>6
      <4>2. PICK x \in Int, y \in Int : x = s[n - 1] /\ y = list[n]
        BY <3>2
      <4>3. PICK v \in Int, w \in Int : v = list[j] /\ w = new[j]
        BY <1>2
      <4>4. (x + y) - v + w = (x - v + w) + y
        OBVIOUS
      <4> QED BY <3>2, <4>1, <4>2, <4>3, <4>4
    <3> QED BY <1>3, <3>1, <3>4, <3>5, <3>6
  <2> QED BY <2>1, <2>2 DEF Sums
<1>4. Total(new) = u[len]
  BY <1>7, TotalIs DEF len
<1> QED BY <1>1, <1>4, <1>5

(* Nothing but zeros. *)
LEMMA TotalOfZeros ==
  ASSUME NEW list \in Seq(Int), \A i \in 1..Len(list) : list[i] = 0
  PROVE  Total(list) = 0
<1> DEFINE len == Len(list)
           u == [n \in 0..len |-> 0]
<1>1. len \in Nat
  BY LenProperties
<1>2. u[0] = 0 /\ u[len] = 0 /\ \A n \in 1..len : u[n] = 0 /\ u[n - 1] = 0 /\ list[n] = 0
  BY <1>1
<1> HIDE DEF u
<1>3. Sums(u, list, len)
  BY <1>2 DEF Sums
<1> QED BY <1>2, <1>3, TotalIs

(* The list of threads has each thread once. *)
LEMMA ThreadsListed ==
  /\ ThreadList \in Seq(Threads)
  /\ \A i, j \in 1..Len(ThreadList) : ThreadList[i] = ThreadList[j] => i = j
  /\ \A t \in Threads : \E i \in 1..Len(ThreadList) : ThreadList[i] = t
<1> DEFINE n == Cardinality(Threads)
<1>1. IsFiniteSet(Threads) /\ n \in Nat /\ ExistsBijection(1..n, Threads)
  BY ThreadAssumption, FS_CardinalityType
<1>2. \E f \in [1..n -> Threads] : IsInjective(f)
  BY <1>1 DEF ExistsBijection, Bijection, Injection
<1>3. ThreadList \in [1..n -> Threads] /\ IsInjective(ThreadList)
  BY <1>2 DEF ThreadList, SetToSeq
<1>4. ThreadList \in Seq(Threads) /\ Len(ThreadList) = n /\ DOMAIN ThreadList = 1..n
  BY <1>1, <1>3
<1> DEFINE listed == {ThreadList[i] : i \in 1..n}
<1>5. listed \subseteq Threads
  BY <1>3
<1>6. ThreadList \in Bijection(1..n, listed)
  <2>1. ThreadList \in [1..n -> listed]
    BY <1>3
  <2>2. \A t \in listed : \E i \in 1..n : ThreadList[i] = t
    OBVIOUS
  <2> QED BY <1>3, <2>1, <2>2 DEF Bijection, Injection, Surjection
<1>7. Cardinality(listed) = n
  <2>1. ExistsBijection(1..n, listed)
    BY <1>6 DEF ExistsBijection
  <2> HIDE DEF listed
  <2> QED BY <1>1, <2>1, FS_CountingElements
<1>8. Threads = listed
  <2> HIDE DEF listed
  <2> QED BY <1>1, <1>5, <1>7, FS_Subset
<1>9. \A i, j \in 1..n : ThreadList[i] = ThreadList[j] => i = j
  BY <1>3 DEF IsInjective
<1> QED BY <1>4, <1>8, <1>9

(* The sums are numbers. *)
LEMMA SumsTyped ==
  ASSUME IInv, NEW w \in [Call -> Int], NEW steps
  PROVE  /\ [i \in DOMAIN fills |-> w[fills[i]]] \in Seq(Int)
         /\ [i \in DOMAIN ThreadList |-> At(steps, ThreadList[i], w)] \in Seq(Int)
         /\ Recorded(w) \in Int /\ InThreads(steps, w) \in Int
<1>1. /\ fills \in Seq(Call) /\ DOMAIN fills = 1..Len(fills) /\ Len(fills) \in Nat
      /\ \A i \in 1..Len(fills) : fills[i] \in Call
  BY LenProperties DEF IInv, TypeOK
<1>2. [i \in DOMAIN fills |-> w[fills[i]]] \in Seq(Int)
  <2>1. [i \in 1..Len(fills) |-> w[fills[i]]] \in [1..Len(fills) -> Int]
    BY <1>1
  <2> QED BY <1>1, <2>1
<1>3. /\ DOMAIN ThreadList = 1..Len(ThreadList) /\ Len(ThreadList) \in Nat
      /\ \A i \in 1..Len(ThreadList) : ThreadList[i] \in Threads
  BY ThreadsListed, LenProperties
<1>4. \A t \in Threads : At(steps, t, w) \in Int
  BY DEF At, IInv, TypeOK
<1>5. [i \in DOMAIN ThreadList |-> At(steps, ThreadList[i], w)] \in Seq(Int)
  <2>1. [i \in 1..Len(ThreadList) |-> At(steps, ThreadList[i], w)]
           \in [1..Len(ThreadList) -> Int]
    BY <1>3, <1>4
  <2> QED BY <1>3, <2>1
<1> QED BY <1>2, <1>5, TotalIs DEF Recorded, InThreads

(* A fill that is recorded counts from then on. *)
LEMMA RecordedMore ==
  ASSUME IInv, NEW w \in [Call -> Int], NEW c \in Call, fills' = Append(fills, c)
  PROVE  Recorded(w)' = Recorded(w) + w[c]
<1> DEFINE list == [i \in DOMAIN fills |-> w[fills[i]]]
           more == [i \in DOMAIN fills' |-> w[fills'[i]]]
<1>1. /\ fills \in Seq(Call) /\ DOMAIN fills = 1..Len(fills) /\ Len(fills) \in Nat
      /\ \A i \in 1..Len(fills) : fills[i] \in Call
  BY LenProperties DEF IInv, TypeOK
<1>2. /\ fills' \in Seq(Call) /\ Len(fills') = Len(fills) + 1 /\ fills'[Len(fills) + 1] = c
      /\ \A i \in 1..Len(fills) : fills'[i] = fills[i]
      /\ DOMAIN fills' = 1..(Len(fills) + 1)
  BY <1>1, AppendProperties, LenProperties
<1>3. list \in Seq(Int) /\ Len(list) = Len(fills)
  BY <1>1, SumsTyped
<1>4. more \in Seq(Int) /\ Len(more) = Len(fills) + 1
  <2>1. \A i \in 1..(Len(fills) + 1) : fills'[i] \in Call
    BY <1>2, LenProperties
  <2>2. more \in [1..(Len(fills) + 1) -> Int] /\ Len(fills) + 1 \in Nat
    BY <1>1, <1>2, <2>1
  <2> QED BY <2>2
<1>5. \A i \in 1..Len(list) : more[i] = list[i]
  BY <1>1, <1>2, <1>3
<1>6. more[Len(list) + 1] = w[c]
  BY <1>1, <1>2, <1>3
<1>7. Recorded(w) = Total(list) /\ Recorded(w)' = Total(more)
  BY DEF Recorded
<1> HIDE DEF list, more
<1> QED BY <1>3, <1>4, <1>5, <1>6, <1>7, TotalAppended

(* The step of a thread changes its own part of the sum over the threads. *)
LEMMA InThreadsStep ==
  ASSUME IInv, IInv', NEW w \in [Call -> Int], NEW steps, NEW t \in Threads,
         \A u \in Threads : u # t => pc'[u] = pc[u] /\ op'[u] = op[u]
  PROVE  InThreads(steps, w)' = InThreads(steps, w) - At(steps, t, w) + At(steps, t, w)'
<1> DEFINE list == [i \in DOMAIN ThreadList |-> At(steps, ThreadList[i], w)]
           new  == [i \in DOMAIN ThreadList |-> At(steps, ThreadList[i], w)']
<1>1. list \in Seq(Int)
  BY SumsTyped
<1>2. /\ DOMAIN ThreadList = 1..Len(ThreadList) /\ Len(ThreadList) \in Nat
      /\ \A i \in 1..Len(ThreadList) : ThreadList[i] \in Threads
  BY ThreadsListed, LenProperties
<1>3. new \in Seq(Int)
  <2>1. \A u \in Threads : At(steps, u, w)' \in Int
    BY DEF At, IInv, TypeOK
  <2>2. new \in [1..Len(ThreadList) -> Int]
    BY <1>2, <2>1
  <2> QED BY <1>2, <2>2
<1>4. Len(list) = Len(ThreadList) /\ Len(new) = Len(ThreadList)
  BY <1>2
<1>5. PICK j \in 1..Len(ThreadList) : ThreadList[j] = t
  BY ThreadsListed
<1>6. \A u \in Threads : u # t => At(steps, u, w)' = At(steps, u, w)
  BY DEF At
<1>7. \A i \in 1..Len(ThreadList) : i # j => new[i] = list[i]
  <2> SUFFICES ASSUME NEW i \in 1..Len(ThreadList), i # j PROVE new[i] = list[i]
    OBVIOUS
  <2>1. ThreadList[i] \in Threads /\ ThreadList[i] # t
    BY <1>2, <1>5, ThreadsListed
  <2> QED BY <1>2, <1>6, <2>1
<1>8. list[j] = At(steps, t, w) /\ new[j] = At(steps, t, w)'
  BY <1>2, <1>5
<1>9. InThreads(steps, w) = Total(list) /\ InThreads(steps, w)' = Total(new)
  BY DEF InThreads
<1> HIDE DEF list, new
<1> QED BY <1>1, <1>3, <1>4, <1>5, <1>7, <1>8, <1>9, TotalChanged

(* What each step of a fill does to the sums; other steps leave them alone. *)
LEMMA FillUpdateSums ==
  ASSUME IInv, IInv', NEW w \in [Call -> Int], NEW t \in Threads, NEW o \in Orders,
         NEW price \in Prices, NEW qty \in FillQuantities, FillUpdate(t, o, price, qty)
  PROVE  LET c == [order |-> o, price |-> price, quantity |-> qty]
         IN /\ c \in Call
            /\ Recorded(w)' = Recorded(w)
            /\ InThreads({"position"}, w)' = InThreads({"position"}, w) + w[c]
            /\ InThreads({"record"}, w)' = InThreads({"record"}, w)
            /\ InThreads({"position", "record"}, w)' = InThreads({"position", "record"}, w) + w[c]
<1> DEFINE c == [order |-> o, price |-> price, quantity |-> qty]
<1>1. c \in Call
  BY FillAssumption DEF Call
<1>2. /\ pc[t] = "idle" /\ pc'[t] = "position" /\ op'[t] = c /\ fills' = fills
      /\ \A u \in Threads : u # t => pc'[u] = pc[u] /\ op'[u] = op[u]
  BY DEF FillUpdate, IInv, TypeOK
<1> HIDE DEF c
<1>3. \A steps : InThreads(steps, w)' = InThreads(steps, w) - At(steps, t, w) + At(steps, t, w)'
  BY <1>2, InThreadsStep
<1>4. w[c] \in Int /\ \A steps : InThreads(steps, w) \in Int
  BY <1>1, SumsTyped
<1>5. /\ At({"position"}, t, w) = 0 /\ At({"position"}, t, w)' = w[c]
      /\ At({"record"}, t, w) = 0 /\ At({"record"}, t, w)' = 0
      /\ At({"position", "record"}, t, w) = 0 /\ At({"position", "record"}, t, w)' = w[c]
  BY <1>2 DEF At
<1>6. Recorded(w)' = Recorded(w)
  BY <1>2 DEF Recorded
<1> QED BY <1>1, <1>3, <1>4, <1>5, <1>6 DEF c

LEMMA FillPositionSums ==
  ASSUME IInv, IInv', NEW w \in [Call -> Int], NEW t \in Threads, FillPosition(t)
  PROVE  /\ op[t] \in Call
         /\ Recorded(w)' = Recorded(w)
         /\ InThreads({"position"}, w)' = InThreads({"position"}, w) - w[op[t]]
         /\ InThreads({"record"}, w)' = InThreads({"record"}, w) + w[op[t]]
         /\ InThreads({"position", "record"}, w)' = InThreads({"position", "record"}, w)
<1>1. /\ pc[t] = "position" /\ pc'[t] = "record" /\ op' = op /\ fills' = fills
      /\ op[t] \in Call /\ \A u \in Threads : u # t => pc'[u] = pc[u]
  BY DEF FillPosition, IInv, TypeOK
<1>2. \A steps : InThreads(steps, w)' = InThreads(steps, w) - At(steps, t, w) + At(steps, t, w)'
  BY <1>1, InThreadsStep
<1>3. w[op[t]] \in Int /\ \A steps : InThreads(steps, w) \in Int
  BY <1>1, SumsTyped
<1>4. /\ At({"position"}, t, w) = w[op[t]] /\ At({"position"}, t, w)' = 0
      /\ At({"record"}, t, w) = 0 /\ At({"record"}, t, w)' = w[op[t]]
      /\ At({"position", "record"}, t, w) = w[op[t]]
      /\ At({"position", "record"}, t, w)' = w[op[t]]
  BY <1>1 DEF At
<1>5. Recorded(w)' = Recorded(w)
  BY <1>1 DEF Recorded
<1> QED BY <1>1, <1>2, <1>3, <1>4, <1>5

LEMMA FillRecordSums ==
  ASSUME IInv, IInv', NEW w \in [Call -> Int], NEW t \in Threads, FillRecord(t)
  PROVE  /\ op[t] \in Call
         /\ Recorded(w)' = Recorded(w) + w[op[t]]
         /\ InThreads({"position"}, w)' = InThreads({"position"}, w)
         /\ InThreads({"record"}, w)' = InThreads({"record"}, w) - w[op[t]]
         /\ InThreads({"position", "record"}, w)' = InThreads({"position", "record"}, w) - w[op[t]]
<1>1. /\ pc[t] = "record" /\ pc'[t] \in {"close", "report"} /\ op' = op
      /\ fills' = Append(fills, op[t]) /\ op[t] \in Call
      /\ \A u \in Threads : u # t => pc'[u] = pc[u]
  BY DEF FillRecord, IInv, TypeOK
<1>2. \A steps : InThreads(steps, w)' = InThreads(steps, w) - At(steps, t, w) + At(steps, t, w)'
  BY <1>1, InThreadsStep
<1>3. w[op[t]] \in Int /\ \A steps : InThreads(steps, w) \in Int
  BY <1>1, SumsTyped
<1>4. /\ At({"position"}, t, w) = 0 /\ At({"position"}, t, w)' = 0
      /\ At({"record"}, t, w) = w[op[t]] /\ At({"record"}, t, w)' = 0
      /\ At({"position", "record"}, t, w) = w[op[t]]
      /\ At({"position", "record"}, t, w)' = 0
  BY <1>1 DEF At
<1>5. Recorded(w)' = Recorded(w) + w[op[t]]
  BY <1>1, RecordedMore
<1> QED BY <1>1, <1>2, <1>3, <1>4, <1>5

(* The steps that touch neither a position, nor a fill, nor its average.    *)
Aside ==
  \E t \in Threads :
    \/ \E o \in Orders : SubmitInsert(t, o) \/ CancelMark(t, o)
    \/ SubmitPush(t) \/ FillClose(t) \/ FillReport(t) \/ CancelUnlist(t)

LEMMA AsideSums ==
  ASSUME IInv, IInv', NEW w \in [Call -> Int], NEW steps,
         steps \subseteq {"position", "record"}, Aside
  PROVE  /\ Recorded(w)' = Recorded(w) /\ InThreads(steps, w)' = InThreads(steps, w)
         /\ positions' = positions
<1>1. PICK t \in Threads :
        \/ \E o \in Orders : SubmitInsert(t, o) \/ CancelMark(t, o)
        \/ SubmitPush(t) \/ FillClose(t) \/ FillReport(t) \/ CancelUnlist(t)
  BY DEF Aside
<1>2. /\ pc[t] \notin {"position", "record"} /\ pc'[t] \notin {"position", "record"}
      /\ fills' = fills /\ positions' = positions
      /\ \A u \in Threads : u # t => pc'[u] = pc[u] /\ op'[u] = op[u]
  <2>0. pc \in [Threads -> Steps] /\ op \in [Threads -> Call]
    BY DEF IInv, TypeOK
  <2>1. CASE \E o \in Orders : SubmitInsert(t, o)
    BY <2>0, <2>1 DEF SubmitInsert
  <2>2. CASE \E o \in Orders : CancelMark(t, o)
    BY <2>0, <2>2 DEF CancelMark
  <2>3. CASE SubmitPush(t) \/ FillClose(t) \/ FillReport(t) \/ CancelUnlist(t)
    BY <2>0, <2>3 DEF SubmitPush, FillClose, FillReport, CancelUnlist
  <2> QED BY <1>1, <2>1, <2>2, <2>3
<1>3. InThreads(steps, w)' = InThreads(steps, w) - At(steps, t, w) + At(steps, t, w)'
  BY <1>2, InThreadsStep
<1>4. At(steps, t, w) = 0 /\ At(steps, t, w)' = 0
  BY <1>2 DEF At
<1>5. InThreads(steps, w) \in Int
  BY SumsTyped
<1>6. Recorded(w)' = Recorded(w)
  BY <1>2 DEF Recorded
<1> QED BY <1>2, <1>3, <1>4, <1>5, <1>6

LEMMA StillSums ==
  ASSUME UNCHANGED vars, NEW w, NEW steps
  PROVE  Recorded(w)' = Recorded(w) /\ InThreads(steps, w)' = InThreads(steps, w)
BY DEF vars, Recorded, InThreads, At

(* The steps, sorted by what they do to positions, fills and averages.      *)
LEMMA StepsOf ==
  ASSUME [Next]_vars
  PROVE  \/ \E t \in Threads, o \in Orders, price \in Prices, qty \in FillQuantities :
              FillUpdate(t, o, price, qty)
         \/ \E t \in Threads : FillPosition(t)
         \/ \E t \in Threads : FillRecord(t)
         \/ Aside
         \/ UNCHANGED vars
BY Zenon DEF Next, Begin, Continue, Aside

(* What is summed is a number, whichever fill it is of.                     *)
LEMMA ValuesTyped ==
  /\ FilledAmount \in [Call -> Int] /\ FilledCost \in [Call -> Int]
  /\ SignedFill \in [Call -> Int] /\ SignedCost \in [Call -> Int]
  /\ \A value \in [Call -> Int] :
       /\ \A s : OfSymbol(s, value) \in [Call -> Int]
       /\ \A o : OfOrder(o, value) \in [Call -> Int]
<1>1. \A fill \in Call : fill.quantity \in Int /\ fill.price \in Int
  BY DEF Call
<1>2. \A fill \in Call : Signed(OrderOf[fill.order].side, fill.quantity) \in Int
  BY <1>1 DEF Signed, Sign
<1>3. FilledAmount \in [Call -> Int] /\ SignedFill \in [Call -> Int]
  BY <1>1, <1>2 DEF FilledAmount, SignedFill
<1>4. \A fill \in Call : SignedFill[fill] * fill.price \in Int /\ fill.quantity * fill.price \in Int
  <2> SUFFICES ASSUME NEW fill \in Call
               PROVE  SignedFill[fill] * fill.price \in Int /\ fill.quantity * fill.price \in Int
    OBVIOUS
  <2>1. SignedFill[fill] \in Int /\ fill.quantity \in Int /\ fill.price \in Int
    BY <1>1, <1>3
  <2>2. \A a, b \in Int : a * b \in Int
    OBVIOUS
  <2> QED BY <2>1, <2>2, Zenon
<1>5. FilledCost \in [Call -> Int] /\ SignedCost \in [Call -> Int]
  BY <1>4 DEF FilledCost, SignedCost
<1> QED BY <1>3, <1>5 DEF OfSymbol, OfOrder

-----------------------------------------------------------------------------
(* What a fill does to a position.                                          *)

(* The signed quantity moves by the signed fill, in each of the branches.   *)
LEMMA ApplyFillMoves ==
  ASSUME NEW pos \in Position, NEW side \in Sides, NEW price \in Nat, NEW qty \in Nat \ {0}
  PROVE  SignedQuantity(ApplyFill(pos, side, price, qty)) = SignedQuantity(pos) + Signed(side, qty)
<1> DEFINE cur == SignedQuantity(pos)
           new == cur + Signed(side, qty)
           flips == cur # 0 /\ (new > 0) # (cur > 0)
           moved == IF new = 0 THEN Close(pos, price)
                    ELSE IF flips THEN Flip(pos, price, qty, new)
                    ELSE IF Abs(new) < Abs(cur) THEN Reduce(pos, price, qty, new)
                    ELSE Increase(pos, price, qty, new)
<1>1. /\ cur \in Int /\ new \in Int /\ pos.side \in Sides /\ pos.quantity \in Nat
      /\ cur = IF pos.side = Buy THEN pos.quantity ELSE -pos.quantity
  BY DEF Position, SignedQuantity, Signed, Sign, Sides
<1>2. /\ DOMAIN pos = {"side", "quantity", "entry_price", "mark_price", "unrealized_pnl",
                       "realized_pnl"}
  BY DEF Position
<1>3. ApplyFill(pos, side, price, qty) = [moved EXCEPT !.mark_price = price]
  BY DEF ApplyFill
<1> HIDE DEF new, cur
<1>4. new # 0 => Signed(SideOf(new), Abs(new)) = new
  BY <1>1 DEF Signed, Sign, SideOf, Abs, Buy, Sell
<1>5. Signed(moved.side, moved.quantity) = new
  <2>1. CASE new = 0
    <3>1. moved.side = pos.side /\ moved.quantity = 0
      BY <1>2, <2>1 DEF Close
    <3> QED BY <1>1, <2>1, <3>1 DEF Signed, Sign
  <2>2. CASE new # 0 /\ flips
    <3>1. moved.side = SideOf(new) /\ moved.quantity = Abs(new)
      BY <1>2, <2>2 DEF Flip
    <3> QED BY <1>4, <2>2, <3>1
  <2>3. CASE new # 0 /\ ~flips /\ Abs(new) < Abs(cur)
    <3>1. moved.side = pos.side /\ moved.quantity = Abs(new)
      BY <1>2, <2>3 DEF Reduce
    <3>2. cur # 0 /\ ((new > 0) <=> (cur > 0))
      BY <1>1, <2>3 DEF Abs
    <3> QED BY <1>1, <2>3, <3>1, <3>2 DEF Signed, Sign, Abs
  <2>4. CASE new # 0 /\ ~flips /\ ~(Abs(new) < Abs(cur))
    <3>1. moved.side = SideOf(new) /\ moved.quantity = Abs(new)
      BY <1>2, <2>4 DEF Increase
    <3> QED BY <1>4, <2>4, <3>1
  <2> QED BY <2>1, <2>2, <2>3, <2>4
<1>6. /\ [moved EXCEPT !.mark_price = price].side = moved.side
      /\ [moved EXCEPT !.mark_price = price].quantity = moved.quantity
  <2>1. "side" \in DOMAIN moved /\ "quantity" \in DOMAIN moved
    BY <1>2 DEF Close, Flip, Reduce, Increase
  <2> HIDE DEF moved
  <2> QED BY <2>1
<1> HIDE DEF moved
<1> QED BY <1>3, <1>5, <1>6 DEF SignedQuantity, new, cur

(* What the open position cost less what was realized is c: as an equation  *)
(* between integers.                                                        *)
Balanced(pos, c) ==
  RatEq(RatAdd(RatScale(pos.entry_price, SignedQuantity(pos)), RatScale(pos.realized_pnl, -1)),
        Rat(c))

(* A fill costs what is paid for it, in each of the branches.               *)
LEMMA ApplyFillPays ==
  ASSUME NEW pos \in Position, NEW side \in Sides, NEW price \in Nat, NEW qty \in Nat \ {0},
         NEW c \in Int, Balanced(pos, c)
  PROVE  Balanced(ApplyFill(pos, side, price, qty), c + Signed(side, qty) * price)
<1>1. PICK cur \in Int, d \in Int :
        /\ cur = SignedQuantity(pos) /\ d = Signed(side, qty)
        /\ cur = IF pos.side = Buy THEN pos.quantity ELSE -pos.quantity
        /\ cur = pos.quantity * Sign(pos.side)
        /\ d = IF side = Buy THEN qty ELSE -qty
  BY DEF Position, SignedQuantity, Signed, Sign, Sides
<1>2. PICK en \in Int, ed \in Int : en = pos.entry_price.n /\ ed = pos.entry_price.d
  BY DEF Position, Rational
<1>3. PICK rn \in Int, rd \in Int : rn = pos.realized_pnl.n /\ rd = pos.realized_pnl.d
  BY DEF Position, Rational
<1>4. PICK new \in Int, p \in Int : new = cur + d /\ p = price
  OBVIOUS
<1> DEFINE flips == cur # 0 /\ (new > 0) # (cur > 0)
           moved == IF new = 0 THEN Close(pos, price)
                    ELSE IF flips THEN Flip(pos, price, qty, new)
                    ELSE IF Abs(new) < Abs(cur) THEN Reduce(pos, price, qty, new)
                    ELSE Increase(pos, price, qty, new)
           after == ApplyFill(pos, side, price, qty)
<1>5. /\ DOMAIN pos = {"side", "quantity", "entry_price", "mark_price", "unrealized_pnl",
                       "realized_pnl"}
      /\ pos.quantity \in Nat /\ pos.side \in Sides
  BY DEF Position
<1>6. after.entry_price = moved.entry_price /\ after.realized_pnl = moved.realized_pnl
  <2>1. after = [moved EXCEPT !.mark_price = price]
    BY <1>1, <1>4 DEF ApplyFill
  <2>2. "entry_price" \in DOMAIN moved /\ "realized_pnl" \in DOMAIN moved
    BY <1>5 DEF Close, Flip, Reduce, Increase
  <2> HIDE DEF moved, after
  <2> QED BY <2>1, <2>2
<1>7. after \in Position /\ SignedQuantity(after) = new
  <2>1. ApplyFill(pos, side, price, qty) \in Position
    BY ApplyFillType
  <2>2. SignedQuantity(ApplyFill(pos, side, price, qty)) = SignedQuantity(pos) + Signed(side, qty)
    BY ApplyFillMoves
  <2> QED BY <1>1, <1>4, <2>1, <2>2
<1>8. en * cur * rd - rn * ed = c * (ed * rd)
  <2>1. ((en * cur) * rd + (rn * (-1)) * ed) * 1 = c * (ed * rd)
    BY <1>1, <1>2, <1>3 DEF Balanced, RatEq, RatAdd, RatScale, Rat
  <2> QED BY <2>1
<1> HIDE DEF after
<1>9. ASSUME NEW n2 \in Int, NEW d2 \in Int, NEW n3 \in Int, NEW d3 \in Int,
             moved.entry_price.n = n2, moved.entry_price.d = d2,
             moved.realized_pnl.n = n3, moved.realized_pnl.d = d3,
             n2 * new * d3 - n3 * d2 = (c + d * p) * (d2 * d3)
      PROVE  Balanced(after, c + d * p)
  <2> HIDE DEF moved
  <2>1. ((n2 * new) * d3 + (n3 * (-1)) * d2) * 1 = (c + d * p) * (d2 * d3)
    BY <1>9
  <2> QED BY <1>6, <1>7, <1>9, <2>1 DEF Balanced, RatEq, RatAdd, RatScale, Rat
<1>10. CASE new = 0 \/ flips
  <2>1. moved.realized_pnl = Realize(pos, price, pos.quantity)
    <3>1. CASE new = 0
      BY <1>5, <3>1 DEF Close
    <3>2. CASE new # 0 /\ flips
      <4>1. ClosedByFlip(pos, qty) = pos.quantity
        BY <1>1, <1>4, <1>5, <3>2 DEF ClosedByFlip
      <4> QED BY <1>5, <3>2, <4>1 DEF Flip
    <3> QED BY <1>10, <3>1, <3>2
  <2>2. PICK n2 \in Int : /\ moved.entry_price.n = n2 /\ moved.entry_price.d = 1
                          /\ n2 * new = p * new
    <3>1. CASE new = 0
      <4>1. moved.entry_price = Rat(0)
        BY <1>5, <3>1 DEF Close
      <4>2. Rat(0).n = 0 /\ Rat(0).d = 1
        BY DEF Rat
      <4>3. 0 * new = p * new
        BY <3>1
      <4> HIDE DEF moved
      <4> QED BY <4>1, <4>2, <4>3, 0 \in Int
    <3>2. CASE new # 0 /\ flips
      <4>1. moved.entry_price = Rat(price)
        BY <1>5, <3>2 DEF Flip
      <4>2. Rat(price).n = p /\ Rat(price).d = 1
        BY <1>4 DEF Rat
      <4> HIDE DEF moved
      <4> QED BY <4>1, <4>2
    <3> QED BY <1>10, <3>1, <3>2
  <2> HIDE DEF moved
  <2>3. PICK n3 \in Int, d3 \in Int :
          /\ moved.realized_pnl.n = n3 /\ moved.realized_pnl.d = d3
          /\ n3 = rn * ed + ((p * ed - en) * cur) * rd /\ d3 = rd * ed
    <3>1. rn * ed + ((p * ed - en) * cur) * rd \in Int /\ rd * ed \in Int
      OBVIOUS
    <3>2. /\ Realize(pos, price, pos.quantity).n
               = rn * (1 * ed) + ((p * ed + (en * (-1)) * 1) * cur) * rd
          /\ Realize(pos, price, pos.quantity).d = rd * (1 * ed)
      BY <1>1, <1>2, <1>3, <1>4 DEF Realize, RatAdd, RatScale, Rat
    <3> QED BY <2>1, <3>1, <3>2
  <2>4. p * new * d3 - n3 * 1 = (c + d * p) * (1 * d3)
    <3>1. p * (cur + d) * (rd * ed) - (rn * ed + ((p * ed - en) * cur) * rd) * 1
            = (en * cur * rd - rn * ed) + (d * p) * (rd * ed)
      OBVIOUS
    <3>2. (c + d * p) * (1 * (rd * ed)) = c * (ed * rd) + (d * p) * (rd * ed)
      OBVIOUS
    <3>3. p * (cur + d) * (rd * ed) - (rn * ed + ((p * ed - en) * cur) * rd) * 1
            = (c + d * p) * (1 * (rd * ed))
      BY <1>8, <3>1, <3>2
    <3> QED BY <1>4, <2>3, <3>3
  <2>5. n2 * new * d3 - n3 * 1 = (c + d * p) * (1 * d3)
    BY <2>2, <2>4
  <2>6. Balanced(after, c + d * p)
    BY <1>9, <2>2, <2>3, <2>5, 1 \in Int
  <2> QED BY <1>1, <1>4, <2>6 DEF after
<1>11. CASE new # 0 /\ ~flips /\ Abs(new) < Abs(cur)
  <2>1. moved.entry_price = pos.entry_price /\ moved.realized_pnl = Realize(pos, price, qty)
    BY <1>5, <1>11 DEF Reduce
  <2>2. qty * Sign(pos.side) = -d /\ -d \in Int
    BY <1>1, <1>4, <1>5, <1>11 DEF Abs, Sign
  <2> HIDE DEF moved
  <2>3. PICK n3 \in Int, d3 \in Int :
          /\ moved.realized_pnl.n = n3 /\ moved.realized_pnl.d = d3
          /\ n3 = rn * ed + ((p * ed - en) * (-d)) * rd /\ d3 = rd * ed
    <3>1. rn * ed + ((p * ed - en) * (-d)) * rd \in Int /\ rd * ed \in Int
      OBVIOUS
    <3>2. /\ Realize(pos, price, qty).n
               = rn * (1 * ed) + ((p * ed + (en * (-1)) * 1) * (-d)) * rd
          /\ Realize(pos, price, qty).d = rd * (1 * ed)
      BY <1>2, <1>3, <1>4, <2>2 DEF Realize, RatAdd, RatScale, Rat
    <3> QED BY <2>1, <3>1, <3>2
  <2>4. en * new * d3 - n3 * ed = (c + d * p) * (ed * d3)
    <3>1. (en * cur * rd - rn * ed) * ed = (c * (ed * rd)) * ed
      BY <1>8
    <3>2. en * (cur + d) * (rd * ed) - (rn * ed + ((p * ed - en) * (-d)) * rd) * ed
            = (en * cur * rd - rn * ed) * ed + (d * p) * (ed * (rd * ed))
      OBVIOUS
    <3>3. (c + d * p) * (ed * (rd * ed)) = (c * (ed * rd)) * ed + (d * p) * (ed * (rd * ed))
      OBVIOUS
    <3>4. en * (cur + d) * (rd * ed) - (rn * ed + ((p * ed - en) * (-d)) * rd) * ed
            = (c + d * p) * (ed * (rd * ed))
      BY <3>1, <3>2, <3>3
    <3> QED BY <1>4, <2>3, <3>4
  <2>5. moved.entry_price.n = en /\ moved.entry_price.d = ed
    BY <1>2, <2>1
  <2>6. Balanced(after, c + d * p)
    BY <1>9, <2>3, <2>4, <2>5
  <2> QED BY <1>1, <1>4, <2>6 DEF after
<1>12. CASE new # 0 /\ ~flips /\ ~(Abs(new) < Abs(cur))
  <2>1. /\ moved.entry_price = WeightedEntry(pos, price, qty)
        /\ moved.realized_pnl = pos.realized_pnl
    BY <1>5, <1>12 DEF Increase
  <2>2. PICK q \in Int, m \in Int, s \in Int :
          q = pos.quantity /\ m = qty /\ cur = s * q /\ d = s * m
    <3>1. (d = qty /\ cur = pos.quantity) \/ (d = -qty /\ cur = -pos.quantity)
      BY <1>1, <1>4, <1>5, <1>12 DEF Abs
    <3>2. CASE d = qty /\ cur = pos.quantity
      BY <1>5, <3>2, 1 \in Int
    <3>3. CASE d = -qty /\ cur = -pos.quantity
      BY <1>5, <3>3, -1 \in Int
    <3> QED BY <3>1, <3>2, <3>3
  <2> HIDE DEF moved
  <2>3. PICK n2 \in Int, d2 \in Int :
          /\ moved.entry_price.n = n2 /\ moved.entry_price.d = d2
          /\ n2 = en * q * 1 + (p * m) * ed /\ d2 = (ed * 1) * (q + m)
    <3>1. en * q * 1 + (p * m) * ed \in Int /\ (ed * 1) * (q + m) \in Int
      OBVIOUS
    <3>2. /\ WeightedEntry(pos, price, qty).n = en * q * 1 + (p * m) * ed
          /\ WeightedEntry(pos, price, qty).d = (ed * 1) * (q + m)
      BY <1>2, <1>4, <2>2 DEF WeightedEntry, RatOver, RatAdd, RatScale, Rat
    <3> QED BY <2>1, <3>1, <3>2
  <2>4. n2 * new * rd - rn * d2 = (c + d * p) * (d2 * rd)
    <3>1. (en * cur * rd - rn * ed) * (q + m) = (c * (ed * rd)) * (q + m)
      BY <1>8
    <3>2. (en * (s * q) * rd - rn * ed) * (q + m) = (c * (ed * rd)) * (q + m)
      BY <2>2, <3>1
    <3>3. (en * q * 1 + (p * m) * ed) * (s * q + s * m) * rd - rn * ((ed * 1) * (q + m))
            = (en * (s * q) * rd - rn * ed) * (q + m) + ((s * m) * p) * (((ed * 1) * (q + m)) * rd)
      OBVIOUS
    <3>4. (c + (s * m) * p) * (((ed * 1) * (q + m)) * rd)
            = (c * (ed * rd)) * (q + m) + ((s * m) * p) * (((ed * 1) * (q + m)) * rd)
      OBVIOUS
    <3>5. (en * q * 1 + (p * m) * ed) * (s * q + s * m) * rd - rn * ((ed * 1) * (q + m))
            = (c + (s * m) * p) * (((ed * 1) * (q + m)) * rd)
      BY <3>2, <3>3, <3>4
    <3>6. new = s * q + s * m
      BY <1>4, <2>2
    <3> QED BY <2>2, <2>3, <3>5, <3>6
  <2>5. moved.realized_pnl.n = rn /\ moved.realized_pnl.d = rd
    BY <1>3, <2>1
  <2>6. Balanced(after, c + d * p)
    BY <1>9, <2>3, <2>4, <2>5
  <2> QED BY <1>1, <1>4, <2>6 DEF after
<1> QED BY <1>10, <1>11, <1>12 DEF after

-----------------------------------------------------------------------------
(* Positions against the fills.                                             *)

(* What is applied changes only where a position does.                      *)
LEMMA AppliedStep ==
  ASSUME IInv, IInv', [Next]_vars, NEW s, NEW value \in [Call -> Int]
  PROVE  \/ /\ positions' = positions
            /\ AppliedSum(s, value)' = AppliedSum(s, value)
         \/ \E t \in Threads :
              /\ FillPosition(t)
              /\ AppliedSum(s, value)' = AppliedSum(s, value) + OfSymbol(s, value)[op[t]]
<1> DEFINE w == OfSymbol(s, value)
<1>1. w \in [Call -> Int]
  BY ValuesTyped
<1>2. Recorded(w) \in Int /\ InThreads({"record"}, w) \in Int
  BY <1>1, SumsTyped
<1>3. /\ AppliedSum(s, value) = Recorded(w) + InThreads({"record"}, w)
      /\ AppliedSum(s, value)' = Recorded(w)' + InThreads({"record"}, w)'
  BY DEF AppliedSum
<1> HIDE DEF w
<1>4. CASE \E t \in Threads, o \in Orders, price \in Prices, qty \in FillQuantities :
             FillUpdate(t, o, price, qty)
  <2>1. PICK t \in Threads, o \in Orders, price \in Prices, qty \in FillQuantities :
          FillUpdate(t, o, price, qty)
    BY <1>4
  <2>2. Recorded(w)' = Recorded(w) /\ InThreads({"record"}, w)' = InThreads({"record"}, w)
    BY <1>1, <2>1, FillUpdateSums
  <2>3. positions' = positions
    BY <2>1 DEF FillUpdate
  <2> QED BY <1>3, <2>2, <2>3
<1>5. ASSUME NEW t \in Threads, FillPosition(t)
      PROVE  AppliedSum(s, value)' = AppliedSum(s, value) + w[op[t]]
  <2>1. /\ op[t] \in Call /\ Recorded(w)' = Recorded(w)
        /\ InThreads({"record"}, w)' = InThreads({"record"}, w) + w[op[t]]
    BY <1>1, <1>5, FillPositionSums
  <2>2. w[op[t]] \in Int
    BY <1>1, <2>1
  <2> QED BY <1>2, <1>3, <2>1, <2>2
<1>6. CASE \E t \in Threads : FillRecord(t)
  <2>1. PICK t \in Threads : FillRecord(t)
    BY <1>6
  <2>2. /\ op[t] \in Call /\ Recorded(w)' = Recorded(w) + w[op[t]]
        /\ InThreads({"record"}, w)' = InThreads({"record"}, w) - w[op[t]]
    BY <1>1, <2>1, FillRecordSums
  <2>3. w[op[t]] \in Int /\ positions' = positions
    BY <1>1, <2>1, <2>2 DEF FillRecord
  <2> QED BY <1>2, <1>3, <2>2, <2>3
<1>7. CASE Aside
  <2>1. /\ Recorded(w)' = Recorded(w) /\ InThreads({"record"}, w)' = InThreads({"record"}, w)
        /\ positions' = positions
    BY <1>1, <1>7, AsideSums, {"record"} \subseteq {"position", "record"}
  <2> QED BY <1>3, <2>1
<1>8. CASE UNCHANGED vars
  <2>1. /\ Recorded(w)' = Recorded(w) /\ InThreads({"record"}, w)' = InThreads({"record"}, w)
        /\ positions' = positions
    BY <1>8, StillSums DEF vars
  <2> QED BY <1>3, <2>1
<1> QED BY <1>4, <1>5, <1>6, <1>7, <1>8, StepsOf DEF w

(* A fill reaches the position of its symbol, and no other.                 *)
LEMMA PositionFilled ==
  ASSUME IInv, NEW t \in Threads, FillPosition(t), NEW s \in Symbols
  PROVE  LET order == OrderOf[op[t].order]
         IN /\ op[t] \in Call /\ op[t].price \in Nat /\ op[t].quantity \in Nat \ {0}
            /\ order.side \in Sides /\ positions[s] \in Position
            /\ positions'[s] = IF order.symbol = s
                               THEN ApplyFill(positions[s], order.side, op[t].price, op[t].quantity)
                               ELSE positions[s]
<1>1. /\ op[t] \in Call /\ positions \in [Symbols -> Position]
      /\ op[t].quantity \in FillQuantities
  BY DEF IInv, TypeOK, FillsInProgress, FillPosition, FillSteps
<1>2. op[t].price \in Nat /\ op[t].quantity \in Nat \ {0} /\ op[t].order \in Orders
  BY <1>1, FillAssumption DEF Call
<1>3. OrderOf[op[t].order].side \in Sides /\ OrderOf[op[t].order].symbol \in Symbols
  BY <1>2, OrderAssumption
<1>4. positions' = [positions EXCEPT ![OrderOf[op[t].order].symbol] =
                      ApplyFill(@, OrderOf[op[t].order].side, op[t].price, op[t].quantity)]
  BY DEF FillPosition, Moved
<1> QED BY <1>1, <1>2, <1>3, <1>4

(* Before any fill there is nothing to sum.                                 *)
LEMMA InitSums ==
  ASSUME Init, IInv, NEW w \in [Call -> Int], NEW steps, steps \subseteq {"position", "record"}
  PROVE  Recorded(w) = 0 /\ InThreads(steps, w) = 0
<1>1. fills = <<>> /\ pc = [t \in Threads |-> "idle"]
  BY DEF Init
<1> DEFINE list == [i \in DOMAIN fills |-> w[fills[i]]]
           mine == [i \in DOMAIN ThreadList |-> At(steps, ThreadList[i], w)]
<1>2. list \in Seq(Int) /\ mine \in Seq(Int)
  BY SumsTyped
<1>3. \A i \in 1..Len(list) : list[i] = 0
  BY <1>1
<1>4. DOMAIN mine = 1..Len(mine) /\ DOMAIN mine = DOMAIN ThreadList
  BY <1>2, LenProperties
<1>5. \A i \in 1..Len(mine) : mine[i] = 0
  <2>1. \A t \in Threads : At(steps, t, w) = 0
    BY <1>1 DEF At
  <2>2. \A i \in DOMAIN ThreadList : ThreadList[i] \in Threads
    BY ThreadsListed, LenProperties
  <2> QED BY <1>4, <2>1, <2>2
<1>6. Recorded(w) = Total(list) /\ InThreads(steps, w) = Total(mine)
  BY DEF Recorded, InThreads
<1> HIDE DEF list, mine
<1> QED BY <1>2, <1>3, <1>5, <1>6, TotalOfZeros

LEMMA AppliedTyped ==
  ASSUME IInv, NEW s, NEW value \in [Call -> Int]
  PROVE  AppliedSum(s, value) \in Int
<1>1. OfSymbol(s, value) \in [Call -> Int]
  BY ValuesTyped
<1>2. Recorded(OfSymbol(s, value)) \in Int /\ InThreads({"record"}, OfSymbol(s, value)) \in Int
  BY <1>1, SumsTyped
<1> QED BY <1>2 DEF AppliedSum

LEMMA InitApplied ==
  ASSUME Init, IInv, NEW s, NEW value \in [Call -> Int]
  PROVE  AppliedSum(s, value) = 0
<1>1. OfSymbol(s, value) \in [Call -> Int]
  BY ValuesTyped
<1>2. Recorded(OfSymbol(s, value)) = 0 /\ InThreads({"record"}, OfSymbol(s, value)) = 0
  BY <1>1, InitSums, {"record"} \subseteq {"position", "record"}
<1> QED BY <1>2 DEF AppliedSum

(* Both sums follow the position, step by step.                             *)
Reconciled(s) ==
  /\ SignedQuantity(positions[s]) = AppliedSum(s, SignedFill)
  /\ Balanced(positions[s], AppliedSum(s, SignedCost))

LEMMA InitReconciled == ASSUME Init, IInv, NEW s \in Symbols PROVE Reconciled(s)
<1>1. AppliedSum(s, SignedFill) = 0 /\ AppliedSum(s, SignedCost) = 0
  BY InitApplied, ValuesTyped
<1>2. positions[s] = FlatPosition
  BY DEF Init
<1>3. SignedQuantity(FlatPosition) = 0
  BY DEF FlatPosition, SignedQuantity, Signed, Sign
<1>4. Balanced(FlatPosition, 0)
  BY <1>3 DEF Balanced, FlatPosition, RatEq, RatAdd, RatScale, Rat
<1> QED BY <1>1, <1>2, <1>3, <1>4 DEF Reconciled

LEMMA NextReconciled ==
  ASSUME IInv, IInv', [Next]_vars, NEW s \in Symbols, Reconciled(s)
  PROVE  Reconciled(s)'
<1>1. SignedFill \in [Call -> Int] /\ SignedCost \in [Call -> Int]
  BY ValuesTyped
<1>2. CASE \E t \in Threads : FillPosition(t)
  <2>1. PICK t \in Threads : FillPosition(t)
    BY <1>2
  <2> DEFINE order == OrderOf[op[t].order]
             signed == Signed(order.side, op[t].quantity)
  <2>2. /\ op[t] \in Call /\ op[t].price \in Nat /\ op[t].quantity \in Nat \ {0}
        /\ order.side \in Sides /\ positions[s] \in Position
        /\ positions'[s] = IF order.symbol = s
                           THEN ApplyFill(positions[s], order.side, op[t].price, op[t].quantity)
                           ELSE positions[s]
    BY <2>1, PositionFilled
  <2>3. ASSUME NEW value \in [Call -> Int]
        PROVE  AppliedSum(s, value)' = AppliedSum(s, value) + OfSymbol(s, value)[op[t]]
    <3>1. OfSymbol(s, value) \in [Call -> Int]
      BY ValuesTyped
    <3>2. /\ Recorded(OfSymbol(s, value))' = Recorded(OfSymbol(s, value))
          /\ InThreads({"record"}, OfSymbol(s, value))'
               = InThreads({"record"}, OfSymbol(s, value)) + OfSymbol(s, value)[op[t]]
      BY <2>1, <3>1, FillPositionSums
    <3>3. /\ Recorded(OfSymbol(s, value)) \in Int
          /\ InThreads({"record"}, OfSymbol(s, value)) \in Int
          /\ OfSymbol(s, value)[op[t]] \in Int
      BY <2>2, <3>1, SumsTyped
    <3> QED BY <3>2, <3>3 DEF AppliedSum
  <2>4. /\ OfSymbol(s, SignedFill)[op[t]] = IF order.symbol = s THEN signed ELSE 0
        /\ OfSymbol(s, SignedCost)[op[t]] = IF order.symbol = s THEN signed * op[t].price ELSE 0
    BY <2>2 DEF OfSymbol, SignedFill, SignedCost
  <2>5. AppliedSum(s, SignedFill) \in Int /\ AppliedSum(s, SignedCost) \in Int
    BY <1>1, AppliedTyped
  <2> HIDE DEF order
  <2>6. CASE order.symbol = s
    <3>1. SignedQuantity(positions'[s]) = SignedQuantity(positions[s]) + signed
      BY <2>2, <2>6, ApplyFillMoves
    <3>2. Balanced(positions'[s], AppliedSum(s, SignedCost) + signed * op[t].price)
      BY <2>2, <2>5, <2>6, ApplyFillPays DEF Reconciled
    <3>3. /\ AppliedSum(s, SignedFill)' = AppliedSum(s, SignedFill) + signed
          /\ AppliedSum(s, SignedCost)' = AppliedSum(s, SignedCost) + signed * op[t].price
      BY <1>1, <2>3, <2>4, <2>6
    <3> QED BY <3>1, <3>2, <3>3 DEF Reconciled
  <2>7. CASE order.symbol # s
    <3>1. /\ AppliedSum(s, SignedFill)' = AppliedSum(s, SignedFill)
          /\ AppliedSum(s, SignedCost)' = AppliedSum(s, SignedCost)
      BY <1>1, <2>3, <2>4, <2>5, <2>7
    <3> QED BY <2>2, <2>7, <3>1 DEF Reconciled
  <2> QED BY <2>6, <2>7
<1>3. CASE ~\E t \in Threads : FillPosition(t)
  <2>1. /\ positions' = positions
        /\ AppliedSum(s, SignedFill)' = AppliedSum(s, SignedFill)
        /\ AppliedSum(s, SignedCost)' = AppliedSum(s, SignedCost)
    BY <1>1, <1>3, AppliedStep
  <2> QED BY <2>1 DEF Reconciled
<1> QED BY <1>2, <1>3

LEMMA ReconciledAlways == Spec => [](\A s \in Symbols : Reconciled(s))
<1>1. Init => \A s \in Symbols : Reconciled(s)
  BY InitIInv, InitReconciled
<1>2. IInv /\ IInv' /\ [Next]_vars /\ (\A s \in Symbols : Reconciled(s))
        => (\A s \in Symbols : Reconciled(s))'
  BY NextReconciled
<1> QED BY <1>1, <1>2, Invariance, PTL DEF Spec

(* The position of each symbol is what its fills add up to.                 *)
THEOREM PositionsAddUp == Spec => []PositionsReconcile
<1>1. (\A s \in Symbols : Reconciled(s)) => PositionsReconcile
  BY DEF Reconciled, PositionsReconcile
<1> QED BY <1>1, ReconciledAlways, PTL

(* No fill creates or loses money, whatever the order the fills of all the  *)
(* threads reach the position tracker in.                                   *)
THEOREM ProfitsAddUp == Spec => []PnLReconciles
<1>1. (\A s \in Symbols : Reconciled(s)) => PnLReconciles
  BY DEF Reconciled, Balanced, PnLReconciles
<1> QED BY <1>1, ReconciledAlways, PTL

-----------------------------------------------------------------------------
(* Averages against the fills.                                              *)

LEMMA CountedTyped ==
  ASSUME IInv, NEW o, NEW value \in [Call -> Int]
  PROVE  Counted(o, value) \in Int
<1>1. OfOrder(o, value) \in [Call -> Int]
  BY ValuesTyped
<1>2. /\ Recorded(OfOrder(o, value)) \in Int
      /\ InThreads({"position", "record"}, OfOrder(o, value)) \in Int
  BY <1>1, SumsTyped
<1> QED BY <1>2 DEF Counted

(* A fill counts from the update of its order on.                           *)
LEMMA CountedMore ==
  ASSUME IInv, IInv', NEW o, NEW value \in [Call -> Int],
         NEW t \in Threads, NEW x \in Orders, NEW price \in Prices, NEW qty \in FillQuantities,
         FillUpdate(t, x, price, qty)
  PROVE  LET c == [order |-> x, price |-> price, quantity |-> qty]
         IN /\ c \in Call
            /\ Counted(o, value)' = Counted(o, value) + (IF x = o THEN value[c] ELSE 0)
<1> DEFINE c == [order |-> x, price |-> price, quantity |-> qty]
           w == OfOrder(o, value)
<1>1. w \in [Call -> Int]
  BY ValuesTyped
<1> HIDE DEF w
<1>2. /\ c \in Call /\ Recorded(w)' = Recorded(w)
      /\ InThreads({"position", "record"}, w)' = InThreads({"position", "record"}, w) + w[c]
  BY <1>1, FillUpdateSums
<1>3. w[c] = IF x = o THEN value[c] ELSE 0
  BY <1>2 DEF w, OfOrder
<1>4. /\ Recorded(w) \in Int /\ InThreads({"position", "record"}, w) \in Int /\ w[c] \in Int
  BY <1>1, <1>2, SumsTyped
<1>5. /\ Counted(o, value) = Recorded(w) + InThreads({"position", "record"}, w)
      /\ Counted(o, value)' = Recorded(w)' + InThreads({"position", "record"}, w)'
  BY DEF Counted, w
<1> HIDE DEF c
<1>6. Counted(o, value)' = Counted(o, value) + w[c]
  BY <1>2, <1>4, <1>5
<1> QED BY <1>2, <1>3, <1>6 DEF c

(* No other step counts one, or uncounts one.                               *)
LEMMA CountedSame ==
  ASSUME IInv, IInv', [Next]_vars, NEW o, NEW value \in [Call -> Int],
         ~\E t \in Threads, x \in Orders, price \in Prices, qty \in FillQuantities :
             FillUpdate(t, x, price, qty)
  PROVE  Counted(o, value)' = Counted(o, value)
<1> DEFINE w == OfOrder(o, value)
           both == {"position", "record"}
<1>1. w \in [Call -> Int]
  BY ValuesTyped
<1> HIDE DEF w
<1>2. Recorded(w) \in Int /\ InThreads(both, w) \in Int
  BY <1>1, SumsTyped
<1>3. /\ Counted(o, value) = Recorded(w) + InThreads(both, w)
      /\ Counted(o, value)' = Recorded(w)' + InThreads(both, w)'
  BY DEF Counted, w
<1>4. CASE \E t \in Threads : FillPosition(t)
  BY <1>1, <1>3, <1>4, FillPositionSums
<1>5. CASE \E t \in Threads : FillRecord(t)
  <2>1. PICK t \in Threads : FillRecord(t)
    BY <1>5
  <2>2. /\ op[t] \in Call /\ Recorded(w)' = Recorded(w) + w[op[t]]
        /\ InThreads(both, w)' = InThreads(both, w) - w[op[t]]
    BY <1>1, <2>1, FillRecordSums
  <2>3. w[op[t]] \in Int
    BY <1>1, <2>2
  <2> QED BY <1>2, <1>3, <2>2, <2>3
<1>6. CASE Aside
  BY <1>1, <1>3, <1>6, AsideSums
<1>7. CASE UNCHANGED vars
  BY <1>3, <1>7, StillSums
<1> QED BY <1>4, <1>5, <1>6, <1>7, StepsOf

(* The average against the fills of an order, beyond the property: it is    *)
(* positive once there is a fill, so that 0 does stand for none, and        *)
(* filled_quantity counts them all as long as it is not capped.             *)
Averaged(o) ==
  LET amount  == Counted(o, FilledAmount)
      average == orders[o].average_fill_price
  IN /\ amount \in Nat
     /\ orders[o].status = Absent => amount = 0
     /\ amount = 0 => average.n = 0
     /\ amount # 0 => average.n > 0
     /\ amount <= OrderOf[o].quantity =>
          /\ orders[o].filled_quantity = amount
          /\ average.n * amount = Counted(o, FilledCost) * average.d

LEMMA InitAveraged == ASSUME Init, IInv, NEW o \in Orders PROVE Averaged(o)
<1>1. ASSUME NEW value \in [Call -> Int] PROVE Counted(o, value) = 0
  <2>1. OfOrder(o, value) \in [Call -> Int]
    BY ValuesTyped
  <2>2. /\ Recorded(OfOrder(o, value)) = 0
        /\ InThreads({"position", "record"}, OfOrder(o, value)) = 0
    BY <2>1, InitSums
  <2> QED BY <2>2 DEF Counted
<1>2. Counted(o, FilledAmount) = 0 /\ Counted(o, FilledCost) = 0
  BY <1>1, ValuesTyped
<1>3. orders[o] = [status |-> Absent, filled_quantity |-> 0, average_fill_price |-> Rat(0)]
  BY DEF Init
<1> QED BY <1>2, <1>3 DEF Averaged, Rat

(* One fill, added to an average.                                           *)
LEMMA AverageMoves ==
  ASSUME NEW order \in Order, NEW filled \in Nat \ {0}, NEW price \in Nat \ {0},
         NEW qty \in Nat \ {0}, order.average_fill_price.n >= 0
  PROVE  LET average == AveragePrice(order, filled, price, qty)
         IN /\ average.n > 0
            /\ \A amount \in Nat, cost \in Int :
                 /\ amount = order.filled_quantity /\ filled = amount + qty
                 /\ amount = 0 <=> order.average_fill_price.n = 0
                 /\ order.average_fill_price.n * amount = cost * order.average_fill_price.d
                 => average.n * filled = (cost + qty * price) * average.d
<1>1. PICK n \in Int, d \in Int :
        n = order.average_fill_price.n /\ d = order.average_fill_price.d /\ n >= 0 /\ d > 0
  BY DEF Order, Rational
<1>2. PICK was \in Int : was = order.filled_quantity /\ was >= 0
  BY DEF Order
<1>3. PICK f \in Int, p \in Int, q \in Int :
        f = filled /\ p = price /\ q = qty /\ f > 0 /\ p > 0 /\ q > 0
  OBVIOUS
<1> DEFINE average == AveragePrice(order, filled, price, qty)
<1>4. CASE n = 0
  <2>1. RatEq(order.average_fill_price, Rat(0))
    BY <1>1, <1>4 DEF RatEq, Rat
  <2>2. average = Rat(price)
    BY <2>1 DEF AveragePrice
  <2>3. average.n = p /\ average.d = 1
    BY <1>3, <2>2 DEF Rat
  <2> HIDE DEF average
  <2>4. ASSUME NEW amount \in Nat, NEW cost \in Int,
               amount = order.filled_quantity, filled = amount + qty,
               amount = 0 <=> order.average_fill_price.n = 0,
               order.average_fill_price.n * amount = cost * order.average_fill_price.d
        PROVE  average.n * filled = (cost + qty * price) * average.d
    <3>1. amount = 0 /\ n * amount = cost * d
      BY <1>1, <1>4, <2>4
    <3>2. cost * d = 0 /\ cost = 0
      BY <1>1, <1>4, <3>1
    <3>3. p * f = (cost + q * p) * 1
      BY <1>3, <2>4, <3>1, <3>2
    <3> QED BY <1>3, <2>3, <3>3
  <2> QED BY <1>3, <2>3, <2>4 DEF average
<1>5. CASE n # 0
  <2>1. ~RatEq(order.average_fill_price, Rat(0))
    BY <1>1, <1>5 DEF RatEq, Rat
  <2>2. average = RatOver(RatAdd(RatScale(order.average_fill_price, order.filled_quantity),
                                 Rat(price * qty)),
                          filled)
    BY <2>1 DEF AveragePrice
  <2>3. /\ average.n = (n * was) * 1 + (p * q) * d
        /\ average.d = (d * 1) * f
    BY <1>1, <1>2, <1>3, <2>2 DEF RatOver, RatAdd, RatScale, Rat
  <2> HIDE DEF average
  <2>4. (n * was) * 1 + (p * q) * d > 0
    <3>1. n * was >= 0
      BY <1>1, <1>2
    <3>2. p * q > 0
      BY <1>3
    <3>3. PICK pq \in Int : pq = p * q /\ pq > 0
      BY <3>2
    <3>4. pq * d > 0
      BY <1>1, <3>3
    <3> QED BY <3>1, <3>3, <3>4
  <2>5. ASSUME NEW amount \in Nat, NEW cost \in Int,
               amount = order.filled_quantity, filled = amount + qty,
               amount = 0 <=> order.average_fill_price.n = 0,
               order.average_fill_price.n * amount = cost * order.average_fill_price.d
        PROVE  average.n * filled = (cost + qty * price) * average.d
    <3>1. n * was = cost * d
      BY <1>1, <1>2, <2>5
    <3>2. ((n * was) * 1 + (p * q) * d) * f = (cost * d + (p * q) * d) * f
      BY <3>1
    <3>3. (cost * d + (p * q) * d) * f = (cost + q * p) * ((d * 1) * f)
      OBVIOUS
    <3> QED BY <1>3, <2>3, <3>2, <3>3
  <2> QED BY <2>3, <2>4, <2>5 DEF average
<1> QED BY <1>4, <1>5

LEMMA FillAveraged ==
  ASSUME IInv, IInv', NEW o \in Orders, Averaged(o),
         NEW t \in Threads, NEW price \in Prices, NEW qty \in FillQuantities,
         FillUpdate(t, o, price, qty)
  PROVE  Averaged(o)'
<1> DEFINE c == [order |-> o, price |-> price, quantity |-> qty]
           order == orders[o]
           filled == FilledQuantity(order, OrderOf[o].quantity, qty)
<1>1. /\ price \in Nat \ {0} /\ qty \in Nat \ {0} /\ OrderOf[o].quantity \in Nat \ {0}
  BY FillAssumption, OrderAssumption
<1>2. c \in Call /\ FilledAmount[c] = qty /\ FilledCost[c] = qty * price
  BY <1>1 DEF Call, FilledAmount, FilledCost
<1>3. FilledAmount \in [Call -> Int] /\ FilledCost \in [Call -> Int]
  BY ValuesTyped
<1>4. PICK amount \in Int, cost \in Int :
        amount = Counted(o, FilledAmount) /\ cost = Counted(o, FilledCost)
  BY <1>3, CountedTyped
<1>5. /\ Counted(o, FilledAmount)' = amount + qty
      /\ Counted(o, FilledCost)' = cost + qty * price
  BY <1>2, <1>3, <1>4, CountedMore
<1>6. /\ order \in Order /\ order.filled_quantity \in Nat
      /\ order.filled_quantity <= OrderOf[o].quantity
  BY DEF IInv, TypeOK, StatusMatchesFill, Order
<1>7. /\ filled \in Nat \ {0}
      /\ amount + qty <= OrderOf[o].quantity /\ order.filled_quantity = amount
           => filled = amount + qty
  BY <1>1, <1>4, <1>6 DEF FilledQuantity
<1>8. /\ orders'[o].status # Absent /\ orders'[o].filled_quantity = filled
      /\ orders'[o].average_fill_price = AveragePrice(order, filled, price, qty)
  <2>1. orders'[o] = Filled(order, OrderOf[o].quantity, price, qty)
    BY DEF FillUpdate, IInv, TypeOK
  <2> QED BY <2>1 DEF Filled, Absent
<1>9. /\ amount \in Nat /\ (amount = 0 <=> order.average_fill_price.n = 0)
      /\ order.average_fill_price.n >= 0
      /\ amount <= OrderOf[o].quantity =>
           /\ order.filled_quantity = amount
           /\ order.average_fill_price.n * amount = cost * order.average_fill_price.d
  <2>1. order.average_fill_price.n \in Int
    BY <1>6 DEF Order, Rational
  <2> QED BY <1>4, <2>1 DEF Averaged
<1> HIDE DEF order, filled, c
<1> DEFINE average == AveragePrice(order, filled, price, qty)
<1>10. average.n > 0
  BY <1>1, <1>6, <1>7, <1>9, AverageMoves
<1>11. ASSUME amount + qty <= OrderOf[o].quantity
       PROVE  average.n * (amount + qty) = (cost + qty * price) * average.d
  <2>1. /\ amount = order.filled_quantity /\ filled = amount + qty
        /\ order.average_fill_price.n * amount = cost * order.average_fill_price.d
    BY <1>1, <1>7, <1>9, <1>11
  <2>2. average.n * filled = (cost + qty * price) * average.d
    BY <1>1, <1>6, <1>7, <1>9, <2>1, AverageMoves
  <2> QED BY <2>1, <2>2
<1> HIDE DEF average
<1>12. amount + qty \in Nat /\ amount + qty # 0
  BY <1>1, <1>9
<1>13. orders'[o].average_fill_price = average
  BY <1>8 DEF average
<1>14. amount + qty <= OrderOf[o].quantity => orders'[o].filled_quantity = amount + qty
  BY <1>1, <1>7, <1>8, <1>9
<1> QED BY <1>5, <1>8, <1>10, <1>11, <1>12, <1>13, <1>14 DEF Averaged

LEMMA NextAveraged ==
  ASSUME IInv, IInv', [Next]_vars, NEW o \in Orders, Averaged(o)
  PROVE  Averaged(o)'
<1>1. FilledAmount \in [Call -> Int] /\ FilledCost \in [Call -> Int]
  BY ValuesTyped
<1>2. CASE \E t \in Threads, x \in Orders, price \in Prices, qty \in FillQuantities :
             FillUpdate(t, x, price, qty)
  <2>1. PICK t \in Threads, x \in Orders, price \in Prices, qty \in FillQuantities :
          FillUpdate(t, x, price, qty)
    BY <1>2
  <2>2. CASE x = o
    BY <2>1, <2>2, FillAveraged
  <2>3. CASE x # o
    <3>1. orders'[o] = orders[o]
      BY <2>1, <2>3 DEF FillUpdate, IInv, TypeOK
    <3>2. /\ Counted(o, FilledAmount)' = Counted(o, FilledAmount) + 0
          /\ Counted(o, FilledCost)' = Counted(o, FilledCost) + 0
      BY <1>1, <2>1, <2>3, CountedMore
    <3>3. /\ Counted(o, FilledAmount)' = Counted(o, FilledAmount)
          /\ Counted(o, FilledCost)' = Counted(o, FilledCost)
      BY <1>1, <3>2, CountedTyped
    <3> QED BY <3>1, <3>3 DEF Averaged
  <2> QED BY <2>2, <2>3
<1>3. CASE ~\E t \in Threads, x \in Orders, price \in Prices, qty \in FillQuantities :
              FillUpdate(t, x, price, qty)
  <2>1. /\ Counted(o, FilledAmount)' = Counted(o, FilledAmount)
        /\ Counted(o, FilledCost)' = Counted(o, FilledCost)
    BY <1>1, <1>3, CountedSame
  <2>2. \/ orders'[o] = orders[o]
        \/ \E t \in Threads : SubmitInsert(t, o) \/ CancelMark(t, o)
    <3>1. orders \in [Orders -> Order]
      BY DEF IInv, TypeOK
    <3>2. ASSUME NEW t \in Threads, NEW x \in Orders, SubmitInsert(t, x) \/ CancelMark(t, x), x # o
          PROVE  orders'[o] = orders[o]
      BY <3>1, <3>2 DEF SubmitInsert, CancelMark
    <3>3. ASSUME NEW t \in Threads, Continue(t)
          PROVE  orders' = orders
      BY <3>3 DEF Continue, SubmitPush, FillPosition, FillRecord, FillClose, FillReport,
                  CancelUnlist
    <3>4. UNCHANGED vars => orders' = orders
      BY DEF vars
    <3> QED BY <1>3, <3>2, <3>3, <3>4 DEF Next, Begin
  <2>3. CASE orders'[o] = orders[o]
    BY <2>1, <2>3 DEF Averaged
  <2>4. CASE \E t \in Threads : SubmitInsert(t, o)
    <3>1. orders[o].status = Absent
      BY <2>4 DEF SubmitInsert, MaySubmit, IInv, TypeOK, SubmittedOnce
    <3>2. orders'[o] = [status |-> "Submitted", filled_quantity |-> 0,
                        average_fill_price |-> Rat(0)]
      BY <2>4 DEF SubmitInsert, IInv, TypeOK
    <3>3. /\ orders'[o].status # Absent /\ orders'[o].filled_quantity = 0
          /\ orders'[o].average_fill_price.n = 0 /\ orders'[o].average_fill_price.d = 1
      BY <3>2 DEF Rat, Absent
    <3>4. Counted(o, FilledAmount) = 0
      BY <3>1 DEF Averaged
    <3>5. Counted(o, FilledCost) = 0
      <4>1. 0 <= OrderOf[o].quantity
        BY OrderAssumption
      <4>2. PICK cost \in Int, d \in Int :
              cost = Counted(o, FilledCost) /\ d = orders[o].average_fill_price.d /\ d > 0
        <5>1. Counted(o, FilledCost) \in Int
          BY <1>1, CountedTyped
        <5>2. orders[o].average_fill_price.d \in Int /\ orders[o].average_fill_price.d > 0
          BY DEF IInv, TypeOK, Order, Rational
        <5> QED BY <5>1, <5>2
      <4>3. PICK n \in Int : n = orders[o].average_fill_price.n
        BY DEF IInv, TypeOK, Order, Rational
      <4>4. n * 0 = cost * d
        BY <3>4, <4>1, <4>2, <4>3 DEF Averaged
      <4>5. n * 0 = 0
        OBVIOUS
      <4>6. cost * d = 0
        BY <4>4, <4>5
      <4>7. cost = 0
        BY <4>2, <4>6
      <4> QED BY <4>2, <4>7
    <3> QED BY <2>1, <3>3, <3>4, <3>5 DEF Averaged
  <2>5. CASE \E t \in Threads : CancelMark(t, o)
    <3>1. /\ orders'[o].filled_quantity = orders[o].filled_quantity
          /\ orders'[o].average_fill_price = orders[o].average_fill_price
          /\ orders'[o].status # Absent
      BY <2>5 DEF CancelMark, IInv, TypeOK, Order, Absent
    <3> QED BY <2>1, <3>1 DEF Averaged
  <2> QED BY <2>2, <2>3, <2>4, <2>5
<1> QED BY <1>2, <1>3

(* The average price of an order that was not overfilled is the             *)
(* volume-weighted average of the fills counted in its filled_quantity.     *)
THEOREM AveragesAreVolumeWeighted == Spec => []AverageIsVolumeWeighted
<1>1. Init => \A o \in Orders : Averaged(o)
  BY InitIInv, InitAveraged
<1>2. IInv /\ IInv' /\ [Next]_vars /\ (\A o \in Orders : Averaged(o))
        => (\A o \in Orders : Averaged(o))'
  BY NextAveraged
<1>3. IInv /\ (\A o \in Orders : Averaged(o)) => AverageIsVolumeWeighted
  <2> SUFFICES ASSUME IInv, NEW o \in Orders, Averaged(o),
                      Counted(o, FilledAmount) \in 1..OrderOf[o].quantity
               PROVE  RatEq(RatScale(orders[o].average_fill_price, Counted(o, FilledAmount)),
                            Rat(Counted(o, FilledCost)))
    BY DEF AverageIsVolumeWeighted
  <2>1. PICK n \in Int, d \in Int :
          n = orders[o].average_fill_price.n /\ d = orders[o].average_fill_price.d
    BY DEF IInv, TypeOK, Order, Rational
  <2>2. PICK amount \in Int, cost \in Int :
          amount = Counted(o, FilledAmount) /\ cost = Counted(o, FilledCost)
    BY CountedTyped, ValuesTyped
  <2>3. amount <= OrderOf[o].quantity
    BY <2>2, OrderAssumption
  <2>4. n * amount = cost * d
    BY <2>1, <2>2, <2>3 DEF Averaged
  <2>5. (n * amount) * 1 = cost * d
    BY <2>4
  <2> QED BY <2>1, <2>2, <2>5 DEF RatEq, RatScale, Rat
<1> QED BY <1>1, <1>2, <1>3, Invariance, PTL DEF Spec

-----------------------------------------------------------------------------
(* The refinement, positions included: the net quantity of a symbol moves   *)
(* when a fill gets hold of its order, not when it reaches the tracker.     *)

Net(s) == SignedQuantity(positions[s]) + PendingSum(s)

LEMMA NetTyped ==
  ASSUME IInv, NEW s \in Symbols
  PROVE  SignedQuantity(positions[s]) \in Int /\ PendingSum(s) \in Int
<1>1. OfSymbol(s, SignedFill) \in [Call -> Int]
  BY ValuesTyped
<1>2. PendingSum(s) \in Int
  BY <1>1, SumsTyped DEF PendingSum
<1>3. positions[s] \in Position
  BY DEF IInv, TypeOK
<1> QED BY <1>2, <1>3 DEF SignedQuantity, Signed, Sign, Position

LEMMA NetMoves ==
  ASSUME IInv, IInv', NEW t \in Threads, NEW o \in Orders, NEW price \in Prices,
         NEW qty \in FillQuantities, FillUpdate(t, o, price, qty)
  PROVE  Atomic!Moves(o, qty)
<1> DEFINE c == [order |-> o, price |-> price, quantity |-> qty]
<1>1. ASSUME NEW s \in Symbols
      PROVE  Net(s)' = IF s = OrderOf[o].symbol
                       THEN Net(s) + Signed(OrderOf[o].side, qty) ELSE Net(s)
  <2>1. OfSymbol(s, SignedFill) \in [Call -> Int]
    BY ValuesTyped
  <2>2. /\ c \in Call
        /\ InThreads({"position"}, OfSymbol(s, SignedFill))'
             = InThreads({"position"}, OfSymbol(s, SignedFill)) + OfSymbol(s, SignedFill)[c]
    BY <2>1, FillUpdateSums
  <2>3. OfSymbol(s, SignedFill)[c] = IF OrderOf[o].symbol = s
                                     THEN Signed(OrderOf[o].side, qty) ELSE 0
    BY <2>2 DEF OfSymbol, SignedFill
  <2>4. OfSymbol(s, SignedFill)[c] \in Int
    BY <2>1, <2>2
  <2>5. positions' = positions
    BY DEF FillUpdate
  <2> HIDE DEF c
  <2>6. PendingSum(s)' = PendingSum(s) + OfSymbol(s, SignedFill)[c]
    BY <2>2 DEF PendingSum
  <2> QED BY <2>3, <2>4, <2>5, <2>6, NetTyped DEF Net
<1>2. [s \in Symbols |-> Net(s)]' =
        [[s \in Symbols |-> Net(s)] EXCEPT ![OrderOf[o].symbol] =
           [s \in Symbols |-> Net(s)][OrderOf[o].symbol] + Signed(OrderOf[o].side, qty)]
  BY <1>1
<1>3. Atomic!Signed(OrderOf[o].side, qty) = Signed(OrderOf[o].side, qty)
  BY DEF Atomic!Signed, Atomic!Sign, Signed, Sign, Atomic!Buy, Buy
<1> QED BY <1>2, <1>3 DEF Atomic!Moves, Net

LEMMA NetStays ==
  ASSUME IInv, IInv', [Next]_vars,
         ~\E t \in Threads, o \in Orders, price \in Prices, qty \in FillQuantities :
             FillUpdate(t, o, price, qty)
  PROVE  [s \in Symbols |-> Net(s)]' = [s \in Symbols |-> Net(s)]
<1> SUFFICES ASSUME NEW s \in Symbols PROVE Net(s)' = Net(s)
  OBVIOUS
<1> DEFINE w == OfSymbol(s, SignedFill)
<1>1. w \in [Call -> Int]
  BY ValuesTyped
<1>2. SignedQuantity(positions[s]) \in Int /\ PendingSum(s) \in Int
  BY NetTyped
<1>3. CASE \E t \in Threads : FillPosition(t)
  <2>1. PICK t \in Threads : FillPosition(t)
    BY <1>3
  <2> DEFINE order == OrderOf[op[t].order]
             signed == Signed(order.side, op[t].quantity)
  <2>2. /\ op[t] \in Call /\ op[t].price \in Nat /\ op[t].quantity \in Nat \ {0}
        /\ order.side \in Sides /\ positions[s] \in Position
        /\ positions'[s] = IF order.symbol = s
                           THEN ApplyFill(positions[s], order.side, op[t].price, op[t].quantity)
                           ELSE positions[s]
    BY <2>1, PositionFilled
  <2>3. w[op[t]] = IF order.symbol = s THEN signed ELSE 0
    BY <2>2 DEF OfSymbol, SignedFill
  <2>4. PendingSum(s)' = PendingSum(s) - w[op[t]] /\ w[op[t]] \in Int
    BY <1>1, <2>1, FillPositionSums DEF PendingSum
  <2> HIDE DEF order, w
  <2>5. SignedQuantity(positions'[s]) = SignedQuantity(positions[s]) + w[op[t]]
    <3>1. CASE order.symbol = s
      BY <2>2, <2>3, <3>1, ApplyFillMoves
    <3>2. CASE order.symbol # s
      BY <1>2, <2>2, <2>3, <3>2
    <3> QED BY <3>1, <3>2
  <2> HIDE DEF signed
  <2> QED BY <1>2, <2>4, <2>5 DEF Net
<1>4. CASE \E t \in Threads : FillRecord(t)
  <2>1. PendingSum(s)' = PendingSum(s)
    BY <1>1, <1>4, FillRecordSums DEF PendingSum
  <2>2. positions' = positions
    BY <1>4 DEF FillRecord
  <2> QED BY <2>1, <2>2 DEF Net
<1>5. CASE Aside
  <2>1. PendingSum(s)' = PendingSum(s) /\ positions' = positions
    BY <1>1, <1>5, AsideSums, {"position"} \subseteq {"position", "record"} DEF PendingSum
  <2> QED BY <2>1 DEF Net
<1>6. CASE UNCHANGED vars
  <2>1. PendingSum(s)' = PendingSum(s) /\ positions' = positions
    BY <1>6, StillSums DEF PendingSum, vars
  <2> QED BY <2>1 DEF Net
<1> QED BY <1>3, <1>4, <1>5, <1>6, StepsOf

LEMMA EngineRefines ==
  ASSUME IInv, IInv', [Next]_vars
  PROVE  [Atomic!Next]_(Atomic!vars)
<1>1. CASE \E t \in Threads, o \in Orders, price \in Prices, qty \in FillQuantities :
             FillUpdate(t, o, price, qty)
  <2>1. PICK t \in Threads, o \in Orders, price \in Prices, qty \in FillQuantities :
          FillUpdate(t, o, price, qty)
    BY <1>1
  <2>2. Atomic!Fill(o, qty) /\ Atomic!Moves(o, qty)
    BY <2>1, FillUpdateRefines, NetMoves
  <2> QED BY <2>2 DEF Atomic!Next
<1>2. CASE ~\E t \in Threads, o \in Orders, price \in Prices, qty \in FillQuantities :
              FillUpdate(t, o, price, qty)
  <2>1. [s \in Symbols |-> Net(s)]' = [s \in Symbols |-> Net(s)]
    BY <1>2, NetStays
  <2>2. ASSUME NEW o \in Orders, Atomic!Submit(o) \/ Atomic!Cancel(o)
        PROVE  Atomic!Next
    BY <2>1, <2>2 DEF Atomic!Next, Net
  <2>3. ASSUME UNCHANGED Atomic!orderVars
        PROVE  UNCHANGED Atomic!vars
    BY <2>1, <2>3 DEF Atomic!vars, Atomic!orderVars, Net
  <2>4. ASSUME NEW t \in Threads, Begin(t) PROVE Atomic!Next
    BY <1>2, <2>2, <2>4, SubmitInsertRefines, CancelMarkRefines DEF Begin
  <2>5. ASSUME NEW t \in Threads, Continue(t) PROVE UNCHANGED Atomic!vars
    BY <2>3, <2>5, ContinueRefines
  <2>6. CASE UNCHANGED vars
    <3>1. \A o \in Orders : Shown(o)' <=> Shown(o)
      BY <2>6 DEF vars, Shown, is_active, Pushing
    <3>2. UNCHANGED Atomic!orderVars
      BY <2>6, <3>1, OrdersStutter DEF vars
    <3> QED BY <2>3, <3>2
  <2> QED BY <2>4, <2>5, <2>6 DEF Next
<1> QED BY <1>1, <1>2

(* For any orders, threads and fills, the engine implements the one whose   *)
(* calls are atomic: orders, open list and net positions.                   *)
THEOREM EngineAtomic == Spec => ImplementsAtomicEngine
<1>1. Init => Atomic!Init
  <2> SUFFICES ASSUME Init PROVE Atomic!Init
    OBVIOUS
  <2>1. Atomic!InitOrders
    BY DEF Init, Atomic!InitOrders, Absent, is_active, ActiveStatus
  <2>2. ASSUME NEW s \in Symbols PROVE Net(s) = 0
    <3>1. OfSymbol(s, SignedFill) \in [Call -> Int]
      BY ValuesTyped
    <3>2. PendingSum(s) = 0
      BY <3>1, InitIInv, InitSums, {"position"} \subseteq {"position", "record"} DEF PendingSum
    <3>3. positions[s] = FlatPosition
      BY DEF Init
    <3>4. SignedQuantity(FlatPosition) = 0
      BY DEF FlatPosition, SignedQuantity, Signed, Sign
    <3> QED BY <3>2, <3>3, <3>4 DEF Net
  <2>3. [s \in Symbols |-> Net(s)] = [s \in Symbols |-> 0]
    BY <2>2
  <2> QED BY <2>1, <2>3 DEF Atomic!Init, Net
<1>2. IInv /\ IInv' /\ [Next]_vars => [Atomic!Next]_(Atomic!vars)
  BY EngineRefines
<1> QED BY <1>1, <1>2, Invariance, PTL DEF Spec, ImplementsAtomicEngine, Atomic!Spec

=============================================================================
