------------------------------ MODULE RateLimiter ------------------------------
(***************************************************************************)
(* RateLimiter of rust/src/risk/hot_path.rs: two token buckets, one per    *)
(* second and one per minute, kept in atomics and used by several threads  *)
(* without a lock.                                                         *)
(*                                                                         *)
(* A step is one access to an atomic.  A compare_exchange loop that        *)
(* retries until it succeeds reads and writes one value in its last round  *)
(* and changes nothing before, so it is one step; the CAS on the refill    *)
(* timestamp is tried once, on a value read earlier, and is a step of its  *)
(* own.  Time is the wall clock (Utc::now), which can be set back.         *)
(***************************************************************************)
EXTENDS Integers, FiniteSets

CONSTANTS
  Threads,      \* threads checking orders
  FP_SCALE,     \* fixed-point units of one token
  MaxTokens,    \* [bucket -> capacity in units]: sec_max and min_max
  Period,       \* [bucket -> clock ticks in which a bucket fills up]
  Start,        \* the clock when the limiter is created
  MaxClock      \* bound: the clock stays in 0..MaxClock

Buckets == {"second", "minute"}

ASSUME LimiterAssumption ==
  /\ IsFiniteSet(Threads)
  /\ FP_SCALE \in Nat \ {0}
  /\ MaxTokens \in [Buckets -> Nat]
  /\ Period \in [Buckets -> Nat \ {0}]
  /\ MaxClock \in Nat
  /\ Start \in 0..MaxClock

VARIABLES
  tokens,      \* sec_tokens and min_tokens
  lastRefill,  \* sec_last_refill_ns and min_last_refill_ns
  clock,
  pc,          \* the next access of each thread
  bucket,      \* the bucket it is at
  now,         \* its now_ns
  seen,        \* its last_ns
  admitted     \* history: orders let through

vars == <<tokens, lastRefill, clock, pc, bucket, now, seen, admitted>>

-----------------------------------------------------------------------------

Smaller(a, b) == IF a < b THEN a ELSE b

(* Mutant: a part of a second counts as a whole one. *)
TokensToAdd_RoundedUp(b, elapsed) == ((elapsed + Period[b] - 1) \div Period[b]) * MaxTokens[b]

(* Whole seconds only, once a second has passed; the minute rate is exact  *)
(* up to the division.                                                     *)
TokensToAdd(b, elapsed) ==
  IF b = "second" /\ elapsed >= Period[b]
  THEN (elapsed \div Period[b]) * MaxTokens[b]
  ELSE (elapsed * MaxTokens[b]) \div Period[b]

(* What a thread is adding, or about to add, to its bucket. *)
Due(t) == TokensToAdd(bucket[t], now[t] - seen[t])

Init ==
  /\ tokens = MaxTokens
  /\ lastRefill = [b \in Buckets |-> Start]
  /\ clock = Start
  /\ pc = [t \in Threads |-> "idle"]
  /\ bucket = [t \in Threads |-> "second"]
  /\ now = [t \in Threads |-> 0]
  /\ seen = [t \in Threads |-> 0]
  /\ admitted = 0

-----------------------------------------------------------------------------
(* refill_second and refill_minute                                         *)

(* The call starts, or goes on to the minute bucket, by reading the clock. *)
ReadClock(t) ==
  /\ pc[t] \in {"idle", "minute"}
  /\ bucket' = [bucket EXCEPT ![t] = IF pc[t] = "idle" THEN "second" ELSE "minute"]
  /\ now' = [now EXCEPT ![t] = clock]
  /\ pc' = [pc EXCEPT ![t] = "load"]
  /\ UNCHANGED <<tokens, lastRefill, clock, seen, admitted>>

(* Behind a refill comes the other one, then the first token. *)
Refilled(t) == IF bucket[t] = "second" THEN "minute" ELSE "take"

(* Nothing to do if no time has passed since the last refill, or too       *)
(* little for a single unit; the timestamp then stays as it is.            *)
LoadTimestamp(t) ==
  LET last == lastRefill[bucket[t]]
      due == now[t] > last /\ TokensToAdd(bucket[t], now[t] - last) > 0
  IN /\ pc[t] = "load"
     /\ seen' = [seen EXCEPT ![t] = last]
     /\ pc' = [pc EXCEPT ![t] = IF due THEN "stamp" ELSE Refilled(t)]
     /\ UNCHANGED <<tokens, lastRefill, clock, bucket, now, admitted>>


(* Only one of the threads that read the same timestamp wins its CAS. *)
WonRefill(t) == lastRefill[bucket[t]] = seen[t]

StampTimestamp(t) ==
  /\ pc[t] = "stamp"
  /\ \/ /\ WonRefill(t)
        /\ lastRefill' = [lastRefill EXCEPT ![bucket[t]] = now[t]]
        /\ pc' = [pc EXCEPT ![t] = "add"]
     \/ /\ ~WonRefill(t)
        /\ pc' = [pc EXCEPT ![t] = Refilled(t)]
        /\ UNCHANGED lastRefill
  /\ UNCHANGED <<tokens, clock, bucket, now, seen, admitted>>


(* The bucket with units put back into it, at most full. *)
Filled(b, units) == Smaller(tokens[b] + units, MaxTokens[b])

AddTokens(t) ==
  /\ pc[t] = "add"
  /\ tokens' = [tokens EXCEPT ![bucket[t]] = Filled(bucket[t], Due(t))]
  /\ pc' = [pc EXCEPT ![t] = Refilled(t)]
  /\ UNCHANGED <<lastRefill, clock, bucket, now, seen, admitted>>

(* available_tokens is refill_second and a look at the bucket. *)
EndOfMonitoring(t) ==
  /\ pc[t] = "minute"
  /\ pc' = [pc EXCEPT ![t] = "idle"]
  /\ UNCHANGED <<tokens, lastRefill, clock, bucket, now, seen, admitted>>

-----------------------------------------------------------------------------
(* check_and_increment, after the refills                                  *)


HasToken(b) == tokens[b] >= FP_SCALE

TakeSecond(t) ==
  /\ pc[t] = "take"
  /\ \/ /\ HasToken("second")
        /\ tokens' = [tokens EXCEPT !["second"] = @ - FP_SCALE]
        /\ pc' = [pc EXCEPT ![t] = "takeMinute"]
     \/ /\ ~HasToken("second")
        /\ pc' = [pc EXCEPT ![t] = "idle"]
        /\ UNCHANGED tokens
  /\ UNCHANGED <<lastRefill, clock, bucket, now, seen, admitted>>

(* Mutant: a throttled order keeps its token of the second bucket. *)
NoMinuteToken_Kept == "idle"

NoMinuteToken == "refund"

TakeMinute(t) ==
  /\ pc[t] = "takeMinute"
  /\ \/ /\ HasToken("minute")
        /\ tokens' = [tokens EXCEPT !["minute"] = @ - FP_SCALE]
        /\ admitted' = admitted + 1
        /\ pc' = [pc EXCEPT ![t] = "idle"]
     \/ /\ ~HasToken("minute")
        /\ pc' = [pc EXCEPT ![t] = NoMinuteToken]
        /\ UNCHANGED <<tokens, admitted>>
  /\ UNCHANGED <<lastRefill, clock, bucket, now, seen>>

Refund(t) ==
  /\ pc[t] = "refund"
  /\ tokens' = [tokens EXCEPT !["second"] = Filled("second", FP_SCALE)]
  /\ pc' = [pc EXCEPT ![t] = "idle"]
  /\ UNCHANGED <<lastRefill, clock, bucket, now, seen, admitted>>

-----------------------------------------------------------------------------

(* The wall clock moves on, or is set back. *)
ClockMoves ==
  /\ \E time \in 0..MaxClock : time # clock /\ time <= clock + 1 /\ clock' = time
  /\ UNCHANGED <<tokens, lastRefill, pc, bucket, now, seen, admitted>>

ThreadStep(t) ==
  \/ ReadClock(t)
  \/ LoadTimestamp(t)
  \/ StampTimestamp(t)
  \/ AddTokens(t)
  \/ EndOfMonitoring(t)
  \/ TakeSecond(t)
  \/ TakeMinute(t)
  \/ Refund(t)

Next == ClockMoves \/ \E t \in Threads : ThreadStep(t)

Spec == Init /\ [][Next]_vars

-----------------------------------------------------------------------------
(* Properties.                                                             *)

(* No bucket is ever overdrawn or overfull, whatever CASes raced. *)
TypeOK ==
  /\ tokens \in [Buckets -> Nat]
  /\ \A b \in Buckets : tokens[b] <= MaxTokens[b]
  /\ lastRefill \in [Buckets -> Start..MaxClock]
  /\ clock \in 0..MaxClock
  /\ pc \in [Threads -> {"idle", "load", "stamp", "add", "minute", "take", "takeMinute",
                         "refund"}]
  /\ bucket \in [Threads -> Buckets]
  /\ now \in [Threads -> 0..MaxClock]
  /\ seen \in [Threads -> 0..MaxClock]
  /\ admitted \in Nat

(* Threads that hold a token of the second bucket, to use or to return. *)
Holders == {t \in Threads : pc[t] \in {"takeMinute", "refund"}}

(* Orders the tokens missing from a bucket were taken for. *)
Taken(b) == IF b = "second" THEN admitted + Cardinality(Holders) ELSE admitted

(* Units threads have stamped the timestamp of b for and not added yet:    *)
(* each as a pair, so that they can be counted.                            *)
Adding(b) == {t \in Threads : pc[t] = "add" /\ bucket[t] = b}
Units == [t \in Threads |-> {t} \X (1..Due(t))]
Pending(b) == Cardinality(UNION {Units[t] : t \in Adding(b)})

(* Units of b that are there or were taken. *)
Booked(b) == tokens[b] + FP_SCALE * Taken(b)

(* No token is lost: in no step do the units there and taken become fewer, *)
(* unless what was added or returned went over a full bucket.  In          *)
(* particular an order throttled by the minute bucket, and a race of       *)
(* check_and_increment with a refill, cost the second bucket nothing.      *)
NothingLeaks ==
  [][\A b \in Buckets : Booked(b)' >= Booked(b) \/ tokens'[b] = MaxTokens[b]]_vars

(* No token is made up: all that was ever taken, is there, or is about to  *)
(* be added is the full bucket of the start and what has been earned since *)
(* at the refill rate, although threads refill at the same time and the    *)
(* clock is set back.                                                      *)
Conservation ==
  \A b \in Buckets :
    Period[b] * (Booked(b) + Pending(b))
      <= MaxTokens[b] * (Period[b] + lastRefill[b] - Start)

(* The orders admitted so far are within both limits: a full bucket and    *)
(* the refill rate times the time covered.                                 *)
WithinLimits ==
  \A b \in Buckets :
    Period[b] * FP_SCALE * admitted <= MaxTokens[b] * (Period[b] + lastRefill[b] - Start)

(* Refills move forward even when the clock goes back, so no interval is   *)
(* paid out twice.                                                         *)
RefillsMoveForward == [][\A b \in Buckets : lastRefill'[b] >= lastRefill[b]]_lastRefill

-----------------------------------------------------------------------------
(* A thread about to stamp or to add has seen an older timestamp than the  *)
(* time it read.                                                           *)
SeenIsOlder ==
  \A t \in Threads :
    pc[t] \in {"stamp", "add"} => seen[t] < now[t]

IInv == TypeOK /\ SeenIsOlder /\ Conservation

=============================================================================
