--------------------------- MODULE MCExecutionEngine ---------------------------
(* Instances of ExecutionEngine for TLC. *)
EXTENDS ExecutionEngine, TLC

CONSTANTS o1, o2, t1, t2, btc

Request(side, quantity) == [symbol |-> btc, side |-> side, quantity |-> quantity]

(* Two orders against each other in one symbol, each filled in two parts,  *)
(* in one part, or overfilled.                                             *)
BuyAndSell == o1 :> Request(Buy, 2) @@ o2 :> Request(Sell, 2)

(* The sell is larger than the buy, so the position can flip. *)
BuyAndLargerSell == o1 :> Request(Buy, 2) @@ o2 :> Request(Sell, 3)

ThreadSymmetry == Permutations(Threads)

=============================================================================
