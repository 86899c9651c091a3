---------------------------- MODULE PositionTracker ----------------------------
(***************************************************************************)
(* PositionTracker::apply_fill of rust/src/execution/engine.rs: how one    *)
(* fill changes the position held in its symbol.                           *)
(*                                                                         *)
(* rust_decimal's Decimal is modelled by exact rationals: the rounding of  *)
(* its 28th digit is the one thing this abstracts away.  Only              *)
(* entry_price ever leaves the integers (it is a weighted average), and    *)
(* with it realized_pnl.                                                   *)
(***************************************************************************)
EXTENDS Integers

Buy  == "Buy"
Sell == "Sell"
Sides == {Buy, Sell}

-----------------------------------------------------------------------------
(* Rationals n/d with d > 0, kept in whatever terms arithmetic leaves them. *)

Rat(i)         == [n |-> i, d |-> 1]
RatAdd(a, b)   == [n |-> a.n * b.d + b.n * a.d, d |-> a.d * b.d]
RatScale(a, k) == [n |-> a.n * k, d |-> a.d]
RatOver(a, k)  == [n |-> a.n, d |-> a.d * k]
RatEq(a, b)    == a.n * b.d = b.n * a.d

Rational == [n : Int, d : Nat \ {0}]

-----------------------------------------------------------------------------

Position == [side : Sides, quantity : Nat, entry_price : Rational,
             mark_price : Int, unrealized_pnl : Int, realized_pnl : Rational]

(* What or_insert_with creates for the first fill of a symbol.  A symbol   *)
(* that has no entry yet is given this value too: a position of quantity 0 *)
(* takes its side from the next fill whatever its side was.                *)
FlatPosition == [side |-> Buy, quantity |-> 0, entry_price |-> Rat(0),
                 mark_price |-> 0, unrealized_pnl |-> 0,
                 realized_pnl |-> Rat(0)]

Sign(side) == IF side = Buy THEN 1 ELSE -1

Signed(side, quantity) == Sign(side) * quantity

Abs(i) == IF i < 0 THEN -i ELSE i

(* Position::signed_quantity *)
SignedQuantity(pos) == Signed(pos.side, pos.quantity)

SideOf(signed) == IF signed > 0 THEN Buy ELSE Sell

(* Profit booked when "closed" units of pos are closed at price. *)
Realize(pos, price, closed) ==
  RatAdd(pos.realized_pnl,
         RatScale(RatAdd(Rat(price), RatScale(pos.entry_price, -1)),
                  closed * Sign(pos.side)))

(* Average price of pos after qty more units at price. *)
WeightedEntry(pos, price, qty) ==
  RatOver(RatAdd(RatScale(pos.entry_price, pos.quantity), Rat(price * qty)),
          pos.quantity + qty)

(* The four branches of apply_fill. *)
Close(pos, price) ==
  [pos EXCEPT !.realized_pnl = Realize(pos, price, pos.quantity),
              !.quantity = 0,
              !.entry_price = Rat(0)]

(* Mutant: a flip realizes profit on the whole fill. *)
ClosedByFlip_Whole(pos, qty) == qty

(* The part of the fill that closes what was held. *)
ClosedByFlip(pos, qty) == IF pos.quantity < qty THEN pos.quantity ELSE qty

Flip(pos, price, qty, new) ==
  [pos EXCEPT !.realized_pnl = Realize(pos, price, ClosedByFlip(pos, qty)),
              !.quantity = Abs(new),
              !.entry_price = Rat(price),
              !.side = SideOf(new)]

Reduce(pos, price, qty, new) ==
  [pos EXCEPT !.realized_pnl = Realize(pos, price, qty),
              !.quantity = Abs(new)]

Increase(pos, price, qty, new) ==
  [pos EXCEPT !.entry_price = WeightedEntry(pos, price, qty),
              !.quantity = Abs(new),
              !.side = SideOf(new)]

ApplyFill(pos, side, price, qty) ==
  LET cur == SignedQuantity(pos)
      new == cur + Signed(side, qty)
      moved == IF new = 0 THEN Close(pos, price)
               ELSE IF cur # 0 /\ (new > 0) # (cur > 0)
                    THEN Flip(pos, price, qty, new)
               ELSE IF Abs(new) < Abs(cur) THEN Reduce(pos, price, qty, new)
               ELSE Increase(pos, price, qty, new)
  IN [moved EXCEPT !.mark_price = price]

=============================================================================
