---------------------------- MODULE MCRateLimiter ----------------------------
(* Instances of RateLimiter for TLC. *)
EXTENDS RateLimiter, TLC

PerBucket(second, minute) == [b \in Buckets |-> IF b = "second" THEN second ELSE minute]

(* Two orders a second, two a minute, and a minute is four seconds: a      *)
(* burst leaves the minute bucket empty while the other still has tokens.  *)
Capacity == PerBucket(2 * FP_SCALE, 2 * FP_SCALE)
Ticks == PerBucket(2, 8)

ThreadSymmetry == Permutations(Threads)

=============================================================================
