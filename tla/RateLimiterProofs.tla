-------------------------- MODULE RateLimiterProofs --------------------------
(* Proofs about RateLimiter, for any number of threads, any capacities,     *)
(* refill periods and fixed-point scale.                                    *)
EXTENDS RateLimiter, FiniteSetTheorems, TLAPS

(* A refill never adds more than the rate times the time elapsed. *)
LEMMA RefillIsEarned ==
  ASSUME NEW b \in Buckets, NEW elapsed \in Nat
  PROVE  /\ TokensToAdd(b, elapsed) \in Nat
         /\ Period[b] * TokensToAdd(b, elapsed) <= MaxTokens[b] * elapsed
<1> DEFINE p == Period[b]
           m == MaxTokens[b]
           q == elapsed \div p
<1>1. p \in Nat \ {0} /\ m \in Nat
  BY LimiterAssumption
<1>2. q \in Nat /\ p * q <= elapsed
  BY <1>1
<1>3. q * m \in Nat /\ p * (q * m) <= m * elapsed
  <2>1. m * (p * q) <= m * elapsed
    BY <1>1, <1>2
  <2> QED BY <1>1, <1>2, <2>1
<1>4. (elapsed * m) \div p \in Nat /\ p * ((elapsed * m) \div p) <= m * elapsed
  <2>1. elapsed * m \in Nat /\ elapsed * m = m * elapsed
    BY <1>1
  <2> HIDE DEF p, m
  <2> QED BY <1>1, <2>1
<1> QED BY <1>3, <1>4 DEF TokensToAdd

(* Joining a further disjoint finite set to a union adds its cardinality. *)
LEMMA UnionWithOneMore ==
  ASSUME NEW A, NEW x, IsFiniteSet(A), x \notin A, NEW U,
         \A t \in A \cup {x} : IsFiniteSet(U[t]),
         \A t \in A : U[t] \cap U[x] = {}
  PROVE  /\ IsFiniteSet(UNION {U[t] : t \in A})
         /\ Cardinality(UNION {U[t] : t \in A \cup {x}})
              = Cardinality(UNION {U[t] : t \in A}) + Cardinality(U[x])
<1> DEFINE Joined == UNION {U[t] : t \in A}
<1>1. IsFiniteSet(Joined)
  <2> DEFINE S == {U[t] : t \in A}
             f == [t \in A |-> U[t]]
  <2>1. f \in Surjection(A, S)
    BY DEF Surjection
  <2>2. IsFiniteSet(S)
    BY <2>1, FS_Surjection
  <2>3. \A T \in S : IsFiniteSet(T)
    OBVIOUS
  <2> QED BY <2>2, <2>3, FS_UNION
<1>2. UNION {U[t] : t \in A \cup {x}} = Joined \cup U[x]
  OBVIOUS
<1>3. Joined \cap U[x] = {}
  OBVIOUS
<1>4. Cardinality(Joined \cup U[x]) = Cardinality(Joined) + Cardinality(U[x]) - Cardinality(Joined \cap U[x])
  BY <1>1, FS_Union
<1>5. Cardinality(Joined) \in Nat /\ Cardinality(U[x]) \in Nat
  BY <1>1, FS_CardinalityType
<1>6. Cardinality(Joined \cap U[x]) = 0
  BY <1>3, FS_EmptySet
<1>7. Cardinality(Joined \cup U[x]) = Cardinality(Joined) + Cardinality(U[x])
  BY <1>4, <1>5, <1>6
<1> QED BY <1>1, <1>2, <1>7

(* The units a thread is adding are as many as its refill. *)
LEMMA UnitsCount ==
  ASSUME NEW x, NEW n \in Nat
  PROVE  IsFiniteSet({x} \X (1..n)) /\ Cardinality({x} \X (1..n)) = n
<1>1. IsFiniteSet({x}) /\ Cardinality({x}) = 1
  BY FS_Singleton
<1>2. IsFiniteSet(1..n) /\ Cardinality(1..n) = n
  <2>1. 1 \in Int /\ n \in Int
    OBVIOUS
  <2>2. IsFiniteSet(1..n) /\ Cardinality(1..n) = IF 1 > n THEN 0 ELSE n - 1 + 1
    BY <2>1, FS_Interval
  <2> QED BY <2>2
<1>3. /\ IsFiniteSet({x} \X (1..n))
      /\ Cardinality({x} \X (1..n)) = Cardinality({x}) * Cardinality(1..n)
  BY <1>1, <1>2, FS_Product
<1> QED BY <1>1, <1>2, <1>3

-----------------------------------------------------------------------------
(* Typing.                                                                 *)

Typed == TypeOK /\ SeenIsOlder

LEMMA DueType ==
  ASSUME Typed, NEW t \in Threads, pc[t] \in {"stamp", "add"}
  PROVE  /\ Due(t) \in Nat
         /\ Period[bucket[t]] * Due(t) <= MaxTokens[bucket[t]] * (now[t] - seen[t])
<1>1. bucket[t] \in Buckets /\ now[t] - seen[t] \in Nat
  BY LimiterAssumption DEF Typed, TypeOK, SeenIsOlder
<1> QED BY <1>1, RefillIsEarned DEF Due

LEMMA TypedInit == Init => Typed
<1> SUFFICES ASSUME Init PROVE Typed
  OBVIOUS
<1>1. tokens \in [Buckets -> Nat] /\ \A b \in Buckets : tokens[b] <= MaxTokens[b]
  BY LimiterAssumption DEF Init
<1>2. SeenIsOlder /\ lastRefill \in [Buckets -> Start..MaxClock]
  BY LimiterAssumption DEF Init, SeenIsOlder
<1> QED BY <1>1, <1>2, LimiterAssumption DEF Init, Typed, TypeOK, Buckets

LEMMA TypedStep == Typed /\ [Next]_vars => Typed'
<1> SUFFICES ASSUME Typed, [Next]_vars PROVE Typed'
  OBVIOUS
<1> USE LimiterAssumption DEF Typed, TypeOK, SeenIsOlder
<1>1. CASE ClockMoves
  BY <1>1 DEF ClockMoves
<1>2. CASE UNCHANGED vars
  BY <1>2 DEF vars
<1>3. ASSUME NEW t \in Threads, ReadClock(t) PROVE Typed'
  BY <1>3 DEF ReadClock, Buckets
<1>4. ASSUME NEW t \in Threads, LoadTimestamp(t) PROVE Typed'
  BY <1>4 DEF LoadTimestamp, Refilled
<1>5. ASSUME NEW t \in Threads, StampTimestamp(t) PROVE Typed'
  <2>1. CASE WonRefill(t)
    <3>1. now[t] \in Start..MaxClock
      BY <1>5, <2>1 DEF StampTimestamp, WonRefill
    <3> QED BY <1>5, <2>1, <3>1 DEF StampTimestamp
  <2>2. CASE ~WonRefill(t)
    BY <1>5, <2>2 DEF StampTimestamp, Refilled
  <2> QED BY <2>1, <2>2
<1>6. ASSUME NEW t \in Threads, AddTokens(t) PROVE Typed'
  <2>1. Due(t) \in Nat
    BY <1>6, DueType DEF AddTokens
  <2>2. Filled(bucket[t], Due(t)) \in Nat /\ Filled(bucket[t], Due(t)) <= MaxTokens[bucket[t]]
    BY <2>1 DEF Filled, Smaller
  <2> QED BY <1>6, <2>2 DEF AddTokens, Refilled
<1>7. ASSUME NEW t \in Threads, EndOfMonitoring(t) PROVE Typed'
  BY <1>7 DEF EndOfMonitoring
<1>8. ASSUME NEW t \in Threads, TakeSecond(t) PROVE Typed'
  BY <1>8 DEF TakeSecond, HasToken, Buckets
<1>9. ASSUME NEW t \in Threads, TakeMinute(t) PROVE Typed'
  BY <1>9 DEF TakeMinute, HasToken, NoMinuteToken, Buckets
<1>10. ASSUME NEW t \in Threads, Refund(t) PROVE Typed'
  BY <1>10 DEF Refund, Filled, Smaller, Buckets
<1> QED
  BY <1>1, <1>2, <1>3, <1>4, <1>5, <1>6, <1>7, <1>8, <1>9, <1>10 DEF Next, ThreadStep

-----------------------------------------------------------------------------
(* Tokens held and units being added.                                      *)

LEMMA HoldersFinite == IsFiniteSet(Holders) /\ Cardinality(Holders) \in Nat
<1>1. Holders \in SUBSET Threads
  BY DEF Holders
<1> QED BY <1>1, LimiterAssumption, FS_Subset, FS_CardinalityType

(* A thread that takes a token of the second bucket becomes a holder; one  *)
(* that uses or returns it is no longer one.                               *)
LEMMA HolderJoins ==
  ASSUME Typed, NEW t \in Threads, pc[t] = "take", pc' = [pc EXCEPT ![t] = "takeMinute"]
  PROVE  Cardinality(Holders)' = Cardinality(Holders) + 1
<1>1. Holders' = Holders \cup {t} /\ t \notin Holders
  BY DEF Holders, Typed, TypeOK
<1> QED BY <1>1, HoldersFinite, FS_AddElement

LEMMA HolderLeaves ==
  ASSUME Typed, NEW t \in Threads, pc[t] \in {"takeMinute", "refund"},
         pc' = [pc EXCEPT ![t] = "idle"]
  PROVE  Cardinality(Holders)' = Cardinality(Holders) - 1
<1>1. Holders' = Holders \ {t} /\ t \in Holders
  BY DEF Holders, Typed, TypeOK
<1> QED BY <1>1, HoldersFinite, FS_RemoveElement

LEMMA UnitsFinite ==
  ASSUME Typed, NEW b \in Buckets
  PROVE  /\ IsFiniteSet(Adding(b))
         /\ \A t \in Adding(b) : IsFiniteSet(Units[t])
         /\ Pending(b) \in Nat
<1>1. Adding(b) \in SUBSET Threads
  BY DEF Adding
<1>2. IsFiniteSet(Adding(b))
  BY <1>1, LimiterAssumption, FS_Subset
<1>3. \A t \in Adding(b) : IsFiniteSet(Units[t])
  <2> SUFFICES ASSUME NEW t \in Adding(b) PROVE IsFiniteSet(Units[t])
    OBVIOUS
  <2>1. t \in Threads /\ Due(t) \in Nat
    BY DueType DEF Adding
  <2> QED BY <2>1, UnitsCount DEF Units
<1>4. Pending(b) \in Nat
  <2> DEFINE U == Units
             A == Adding(b)
             S == {U[t] : t \in A}
             f == [t \in A |-> U[t]]
  <2>1. f \in Surjection(A, S)
    BY DEF Surjection
  <2>2. IsFiniteSet(A) /\ \A t \in A : IsFiniteSet(U[t])
    BY <1>2, <1>3
  <2> HIDE DEF U, A
  <2>3. IsFiniteSet(S)
    BY <2>1, <2>2, FS_Surjection
  <2>4. IsFiniteSet(UNION S)
    BY <2>2, <2>3, FS_UNION
  <2>5. Cardinality(UNION S) \in Nat
    BY <2>4, FS_CardinalityType
  <2> QED BY <2>5 DEF U, A, Pending
<1> QED BY <1>2, <1>3, <1>4

LEMMA UnitsDisjoint ==
  ASSUME NEW t \in Threads, NEW u \in Threads, t # u
  PROVE  Units[t] \cap Units[u] = {}
BY DEF Units

(* Stamping the timestamp promises Due(t) units; adding them redeems the   *)
(* promise.  Nothing else changes what is pending.                         *)
LEMMA PendingGrows ==
  ASSUME Typed, NEW b \in Buckets, NEW t \in Threads,
         UNCHANGED <<bucket, now, seen>>,
         Adding(b)' = Adding(b) \cup {t}, t \notin Adding(b), Due(t) \in Nat
  PROVE  Pending(b)' = Pending(b) + Due(t)
<1>1. Units' = Units
  BY DEF Units, Due
<1>2. IsFiniteSet(Units[t]) /\ Cardinality(Units[t]) = Due(t)
  BY UnitsCount DEF Units
<1>3. \A u \in Adding(b) : IsFiniteSet(Units[u]) /\ Units[u] \cap Units[t] = {}
  BY UnitsFinite, UnitsDisjoint DEF Adding
<1>4. Cardinality(UNION {Units[u] : u \in Adding(b) \cup {t}})
        = Cardinality(UNION {Units[u] : u \in Adding(b)}) + Cardinality(Units[t])
  <2>1. \A u \in Adding(b) \cup {t} : IsFiniteSet(Units[u])
    BY <1>2, <1>3
  <2>2. IsFiniteSet(Adding(b))
    BY UnitsFinite
  <2> QED BY <1>3, <2>1, <2>2, UnionWithOneMore
<1> QED BY <1>1, <1>2, <1>4 DEF Pending

LEMMA PendingShrinks ==
  ASSUME Typed, NEW b \in Buckets, NEW t \in Threads,
         UNCHANGED <<bucket, now, seen>>,
         Adding(b) = Adding(b)' \cup {t}, t \notin Adding(b)', Due(t) \in Nat
  PROVE  Pending(b) = Pending(b)' + Due(t)
<1>1. Units' = Units
  BY DEF Units, Due
<1>2. IsFiniteSet(Units[t]) /\ Cardinality(Units[t]) = Due(t)
  BY UnitsCount DEF Units
<1>3. \A u \in Adding(b)' : IsFiniteSet(Units[u]) /\ Units[u] \cap Units[t] = {}
  BY UnitsFinite, UnitsDisjoint DEF Adding
<1>4. Cardinality(UNION {Units[u] : u \in Adding(b)' \cup {t}})
        = Cardinality(UNION {Units[u] : u \in Adding(b)'}) + Cardinality(Units[t])
  <2>1. \A u \in Adding(b)' \cup {t} : IsFiniteSet(Units[u])
    BY <1>2, <1>3
  <2>2. IsFiniteSet(Adding(b)')
    <3>1. IsFiniteSet(Adding(b)) /\ Adding(b)' \in SUBSET Adding(b)
      BY UnitsFinite
    <3> QED BY <3>1, FS_Subset
  <2> QED BY <1>3, <2>1, <2>2, UnionWithOneMore
<1> QED BY <1>1, <1>2, <1>4 DEF Pending

LEMMA PendingStays ==
  ASSUME NEW b \in Buckets, Adding(b)' = Adding(b), Adding(b) \subseteq Threads,
         \A u \in Adding(b) : Due(u)' = Due(u)
  PROVE  Pending(b)' = Pending(b)
<1>1. \A u \in Adding(b) : Units'[u] = Units[u]
  BY DEF Units
<1>2. {Units'[u] : u \in Adding(b)} = {Units[u] : u \in Adding(b)}
  BY <1>1
<1> QED BY <1>2 DEF Pending

-----------------------------------------------------------------------------
(* The accounts.                                                           *)

AccountTypes ==
  \A b \in Buckets : Taken(b) \in Nat /\ Booked(b) \in Nat /\ Pending(b) \in Nat

LEMMA BookedType == Typed => AccountTypes
<1> SUFFICES ASSUME Typed, NEW b \in Buckets
             PROVE  Taken(b) \in Nat /\ Booked(b) \in Nat /\ Pending(b) \in Nat
  BY DEF AccountTypes
<1>1. Taken(b) \in Nat
  BY HoldersFinite DEF Taken, Typed, TypeOK
<1> QED BY <1>1, UnitsFinite, LimiterAssumption DEF Booked, Typed, TypeOK

LEMMA BookedTypeNext == Typed' => AccountTypes'
  BY BookedType, PTL

(* A step that moves units between the bucket, the threads and the orders  *)
(* keeps the accounts of b, if it makes up none.                           *)
LEMMA AccountsKept ==
  ASSUME Typed, Typed', NEW b \in Buckets,
         Period[b] * (Booked(b) + Pending(b)) <= MaxTokens[b] * (Period[b] + lastRefill[b] - Start),
         lastRefill'[b] = lastRefill[b],
         Booked(b)' + Pending(b)' <= Booked(b) + Pending(b)
  PROVE  Period[b] * (Booked(b)' + Pending(b)')
           <= MaxTokens[b] * (Period[b] + lastRefill'[b] - Start)
<1>1. /\ Booked(b) \in Nat /\ Pending(b) \in Nat
      /\ Booked(b)' \in Nat /\ Pending(b)' \in Nat /\ Taken(b)' \in Nat
  BY BookedType, BookedTypeNext DEF AccountTypes
<1>2. Period[b] \in Nat /\ MaxTokens[b] \in Nat /\ FP_SCALE \in Nat
  BY LimiterAssumption
<1>3. Period[b] * (Booked(b)' + Pending(b)') <= Period[b] * (Booked(b) + Pending(b))
  <2> DEFINE x == Booked(b)' + Pending(b)'
             y == Booked(b) + Pending(b)
             p == Period[b]
  <2>1. x \in Nat /\ y \in Nat /\ x <= y /\ p \in Nat
    BY <1>1, <1>2
  <2> HIDE DEF x, y, p
  <2>2. p * x <= p * y
    BY <2>1
  <2> QED BY <2>2 DEF x, y, p
<1>4. lastRefill[b] \in Nat /\ Start \in Nat
  BY LimiterAssumption DEF Typed, TypeOK
<1> QED BY <1>1, <1>2, <1>3, <1>4

(* A step that makes up no units, and loses none but to a full bucket. *)
KeepsAccounts ==
  \A b \in Buckets :
    /\ lastRefill'[b] = lastRefill[b]
    /\ Booked(b)' + Pending(b)' <= Booked(b) + Pending(b)
    /\ Booked(b)' >= Booked(b) \/ tokens'[b] = MaxTokens[b]

LEMMA BalanceKept ==
  ASSUME Typed, Typed', Conservation, KeepsAccounts
  PROVE  Conservation'
<1>1. ASSUME NEW b \in Buckets
      PROVE  Period[b] * (Booked(b)' + Pending(b)')
               <= MaxTokens[b] * (Period[b] + lastRefill'[b] - Start)
  <2>1. Period[b] * (Booked(b) + Pending(b))
          <= MaxTokens[b] * (Period[b] + lastRefill[b] - Start)
    BY DEF Conservation
  <2> QED BY <2>1, AccountsKept DEF KeepsAccounts
<1> QED BY <1>1 DEF Conservation

(* Steps that touch neither bucket, nor hold or promise anything. *)
LEMMA QuietKeeps ==
  ASSUME Typed, Typed', UNCHANGED <<tokens, lastRefill, admitted>>, Holders' = Holders,
         \A b \in Buckets : Pending(b)' = Pending(b)
  PROVE  KeepsAccounts
<1>1. \A b \in Buckets : Taken(b)' = Taken(b)
  BY DEF Taken
<1>2. \A b \in Buckets : Booked(b)' = Booked(b)
  BY <1>1 DEF Booked
<1>3. AccountTypes
  BY BookedType
<1> QED BY <1>2, <1>3 DEF KeepsAccounts, AccountTypes

(* No one starts or stops adding, nor changes what it adds. *)
LEMMA PendingUnmoved ==
  ASSUME \A u \in Threads : pc'[u] = "add" <=> pc[u] = "add",
         \A u \in Threads : pc[u] = "add" => bucket'[u] = bucket[u]
                                            /\ now'[u] = now[u] /\ seen'[u] = seen[u]
  PROVE  \A b \in Buckets : Pending(b)' = Pending(b)
<1> SUFFICES ASSUME NEW b \in Buckets PROVE Pending(b)' = Pending(b)
  OBVIOUS
<1>1. Adding(b)' = Adding(b) /\ Adding(b) \subseteq Threads
  BY DEF Adding
<1>2. \A u \in Adding(b) : Due(u)' = Due(u)
  BY DEF Adding, Due
<1> QED BY <1>1, <1>2, PendingStays

LEMMA QuietSteps ==
  ASSUME Typed, Typed',
         \/ ClockMoves
         \/ UNCHANGED vars
         \/ \E t \in Threads :
              \/ ReadClock(t) \/ LoadTimestamp(t) \/ EndOfMonitoring(t)
              \/ StampTimestamp(t) /\ ~WonRefill(t)
              \/ TakeSecond(t) /\ ~HasToken("second")
              \/ TakeMinute(t) /\ ~HasToken("minute")
  PROVE  KeepsAccounts
<1> USE DEF Typed, TypeOK
<1>1. UNCHANGED <<tokens, lastRefill, admitted>>
  BY DEF ClockMoves, vars, ReadClock, LoadTimestamp, EndOfMonitoring, StampTimestamp,
         TakeSecond, TakeMinute
<1>2. \A u \in Threads : pc'[u] = "add" <=> pc[u] = "add"
  BY DEF ClockMoves, vars, ReadClock, LoadTimestamp, EndOfMonitoring, StampTimestamp,
         TakeSecond, TakeMinute, Refilled, NoMinuteToken
<1>3. \A u \in Threads : pc[u] = "add" => bucket'[u] = bucket[u]
                                         /\ now'[u] = now[u] /\ seen'[u] = seen[u]
  BY DEF ClockMoves, vars, ReadClock, LoadTimestamp, EndOfMonitoring, StampTimestamp,
         TakeSecond, TakeMinute
<1>4. Holders' = Holders
  BY DEF ClockMoves, vars, ReadClock, LoadTimestamp, EndOfMonitoring, StampTimestamp,
         TakeSecond, TakeMinute, Refilled, NoMinuteToken, Holders
<1>5. \A b \in Buckets : Pending(b)' = Pending(b)
  BY <1>2, <1>3, PendingUnmoved
<1> QED BY <1>1, <1>4, <1>5, QuietKeeps

(* A taken token is booked to the order it was taken for. *)
LEMMA TakeSecondKeeps ==
  ASSUME Typed, Typed', NEW t \in Threads, TakeSecond(t), HasToken("second")
  PROVE  KeepsAccounts
<1>1. /\ pc[t] = "take" /\ pc' = [pc EXCEPT ![t] = "takeMinute"]
      /\ tokens' = [tokens EXCEPT !["second"] = @ - FP_SCALE]
      /\ UNCHANGED <<lastRefill, bucket, now, seen, admitted>>
  BY DEF TakeSecond
<1>2. Cardinality(Holders)' = Cardinality(Holders) + 1
  BY <1>1, HolderJoins
<1>3. \A b \in Buckets : Pending(b)' = Pending(b)
  BY <1>1, PendingUnmoved DEF Typed, TypeOK
<1>4. \A b \in Buckets : Booked(b)' = Booked(b)
  <2>1. Cardinality(Holders) \in Nat /\ FP_SCALE \in Nat /\ admitted \in Nat
        /\ \A b \in Buckets : tokens[b] \in Nat
    BY HoldersFinite, LimiterAssumption DEF Typed, TypeOK
  <2>2. Booked("second")' = Booked("second")
    BY <1>1, <1>2, <2>1 DEF Booked, Taken, Buckets, Typed, TypeOK
  <2>3. Booked("minute")' = Booked("minute")
    BY <1>1, <2>1 DEF Booked, Taken, Buckets, Typed, TypeOK
  <2> QED BY <2>2, <2>3 DEF Buckets
<1>5. AccountTypes
  BY BookedType
<1> QED BY <1>1, <1>3, <1>4, <1>5 DEF KeepsAccounts, AccountTypes

LEMMA TakeMinuteKeeps ==
  ASSUME Typed, Typed', NEW t \in Threads, TakeMinute(t), HasToken("minute")
  PROVE  KeepsAccounts
<1>1. /\ pc[t] = "takeMinute" /\ pc' = [pc EXCEPT ![t] = "idle"]
      /\ tokens' = [tokens EXCEPT !["minute"] = @ - FP_SCALE]
      /\ admitted' = admitted + 1
      /\ UNCHANGED <<lastRefill, bucket, now, seen>>
  BY DEF TakeMinute
<1>2. Cardinality(Holders)' = Cardinality(Holders) - 1
  BY <1>1, HolderLeaves
<1>3. \A b \in Buckets : Pending(b)' = Pending(b)
  BY <1>1, PendingUnmoved DEF Typed, TypeOK
<1>4. \A b \in Buckets : Booked(b)' = Booked(b)
  <2>1. Cardinality(Holders) \in Nat /\ FP_SCALE \in Nat /\ admitted \in Nat
        /\ \A b \in Buckets : tokens[b] \in Nat
    BY HoldersFinite, LimiterAssumption DEF Typed, TypeOK
  <2>2. Booked("second")' = Booked("second")
    BY <1>1, <1>2, <2>1 DEF Booked, Taken, Buckets, Typed, TypeOK
  <2>3. Booked("minute")' = Booked("minute")
    BY <1>1, <2>1 DEF Booked, Taken, Buckets, Typed, TypeOK
  <2> QED BY <2>2, <2>3 DEF Buckets
<1>5. AccountTypes
  BY BookedType
<1> QED BY <1>1, <1>3, <1>4, <1>5 DEF KeepsAccounts, AccountTypes

(* A returned token is lost only to a full bucket. *)
LEMMA RefundKeeps ==
  ASSUME Typed, Typed', NEW t \in Threads, Refund(t)
  PROVE  KeepsAccounts
<1>1. /\ pc[t] = "refund" /\ pc' = [pc EXCEPT ![t] = "idle"]
      /\ tokens' = [tokens EXCEPT !["second"] = Filled("second", FP_SCALE)]
      /\ UNCHANGED <<lastRefill, bucket, now, seen, admitted>>
  BY DEF Refund
<1>2. Cardinality(Holders)' = Cardinality(Holders) - 1
  BY <1>1, HolderLeaves
<1>3. \A b \in Buckets : Pending(b)' = Pending(b)
  BY <1>1, PendingUnmoved DEF Typed, TypeOK
<1>4. AccountTypes
  BY BookedType
<1>5. /\ Cardinality(Holders) \in Nat /\ FP_SCALE \in Nat /\ admitted \in Nat
      /\ \A b \in Buckets : tokens[b] \in Nat /\ MaxTokens[b] \in Nat
  BY HoldersFinite, LimiterAssumption DEF Typed, TypeOK
<1>6. /\ Booked("second")' <= Booked("second")
      /\ Booked("second")' >= Booked("second") \/ tokens'["second"] = MaxTokens["second"]
  <2>1. /\ tokens'["second"] <= tokens["second"] + FP_SCALE
        /\ \/ tokens'["second"] = tokens["second"] + FP_SCALE
           \/ tokens'["second"] = MaxTokens["second"]
    BY <1>1, <1>5 DEF Filled, Smaller, Buckets, Typed, TypeOK
  <2>2. /\ tokens'["second"] \in Nat
        /\ FP_SCALE * (admitted + Cardinality(Holders)')
            = FP_SCALE * (admitted + Cardinality(Holders)) - FP_SCALE
    BY <1>2, <1>5 DEF Typed, TypeOK, Buckets
  <2>3. FP_SCALE * (admitted + Cardinality(Holders)) \in Nat
    BY <1>5
  <2>4. "second" \in Buckets
    BY DEF Buckets
  <2> QED BY <1>1, <1>5, <2>1, <2>2, <2>3, <2>4 DEF Booked, Taken
<1>7. Booked("minute")' = Booked("minute")
  BY <1>1, <1>5 DEF Booked, Taken, Buckets, Typed, TypeOK
<1>8. Booked("second") \in Nat /\ Booked("minute") \in Nat
  BY <1>4 DEF AccountTypes, Buckets
<1>9. "second" \in Buckets /\ "minute" \in Buckets /\ AccountTypes'
  BY BookedTypeNext DEF Buckets
<1>10. \A b \in Buckets : /\ Booked(b)' <= Booked(b)
                          /\ Booked(b)' >= Booked(b) \/ tokens'[b] = MaxTokens[b]
  BY <1>6, <1>7, <1>8 DEF Buckets
<1> QED BY <1>1, <1>3, <1>4, <1>9, <1>10 DEF KeepsAccounts, AccountTypes

(* The units added are those that were promised, less the overflow of a    *)
(* full bucket.                                                            *)
LEMMA AddKeeps ==
  ASSUME Typed, Typed', NEW t \in Threads, AddTokens(t)
  PROVE  KeepsAccounts
<1>0. PICK B \in Buckets : B = bucket[t]
  BY DEF Typed, TypeOK
<1>1. /\ pc[t] = "add" /\ pc' = [pc EXCEPT ![t] = Refilled(t)]
      /\ tokens' = [tokens EXCEPT ![B] = Filled(B, Due(t))]
      /\ UNCHANGED <<lastRefill, bucket, now, seen, admitted>>
  BY <1>0 DEF AddTokens
<1>2. Due(t) \in Nat
  BY <1>1, DueType
<1>3. pc'[t] # "add" /\ \A u \in Threads \ {t} : pc'[u] = pc[u]
  BY <1>1 DEF Refilled, Typed, TypeOK
<1>4. Pending(B) = Pending(B)' + Due(t)
  <2>1. Adding(B) = Adding(B)' \cup {t} /\ t \notin Adding(B)'
    BY <1>0, <1>1, <1>3 DEF Adding
  <2> QED BY <1>1, <1>2, <2>1, PendingShrinks
<1>5. \A b \in Buckets \ {B} : Pending(b)' = Pending(b)
  <2> SUFFICES ASSUME NEW b \in Buckets \ {B} PROVE Pending(b)' = Pending(b)
    OBVIOUS
  <2>1. Adding(b)' = Adding(b) /\ Adding(b) \subseteq Threads
    BY <1>0, <1>1, <1>3 DEF Adding
  <2>2. \A u \in Adding(b) : Due(u)' = Due(u)
    BY <1>1 DEF Due
  <2> QED BY <2>1, <2>2, PendingStays
<1>6. \A b \in Buckets : Taken(b)' = Taken(b)
  <2>1. Holders' = Holders
    BY <1>1, <1>3 DEF Holders, Refilled, Typed, TypeOK
  <2> QED BY <1>1, <2>1 DEF Taken
<1>7. /\ \A b \in Buckets \ {B} : tokens'[b] = tokens[b]
      /\ tokens'[B] <= tokens[B] + Due(t)
      /\ tokens'[B] >= tokens[B] \/ tokens'[B] = MaxTokens[B]
      /\ tokens'[B] \in Nat /\ tokens[B] \in Nat
  BY <1>1, <1>2, LimiterAssumption DEF Filled, Smaller, Typed, TypeOK
<1>8. AccountTypes /\ AccountTypes' /\ FP_SCALE \in Nat
  BY BookedType, BookedTypeNext, LimiterAssumption
<1>9. /\ Booked(B)' + Pending(B)' <= Booked(B) + Pending(B)
      /\ Booked(B)' >= Booked(B) \/ tokens'[B] = MaxTokens[B]
  <2>1. FP_SCALE * Taken(B) \in Nat /\ Pending(B)' \in Nat
    BY <1>2, <1>8 DEF AccountTypes
  <2> QED BY <1>2, <1>4, <1>6, <1>7, <2>1 DEF Booked
<1>10. \A b \in Buckets \ {B} : Booked(b)' = Booked(b) /\ Pending(b)' = Pending(b)
  BY <1>5, <1>6, <1>7 DEF Booked
<1> QED BY <1>1, <1>8, <1>9, <1>10 DEF KeepsAccounts, AccountTypes

(* The winner of the timestamp promises what the interval it closes has    *)
(* earned, and nobody else is paid for that interval.                      *)
LEMMA StampBalances ==
  ASSUME Typed, Typed', Conservation, NEW t \in Threads, StampTimestamp(t), WonRefill(t)
  PROVE  /\ Conservation'
         /\ \A b \in Buckets : Booked(b)' >= Booked(b)
<1>0. PICK B \in Buckets : B = bucket[t]
  BY DEF Typed, TypeOK
<1>1. /\ pc[t] = "stamp" /\ pc' = [pc EXCEPT ![t] = "add"]
      /\ lastRefill' = [lastRefill EXCEPT ![B] = now[t]]
      /\ lastRefill[B] = seen[t]
      /\ UNCHANGED <<tokens, bucket, now, seen, admitted>>
  BY <1>0 DEF StampTimestamp, WonRefill
<1>2. /\ Due(t) \in Nat
      /\ Period[B] * Due(t) <= MaxTokens[B] * (now[t] - seen[t])
  BY <1>0, <1>1, DueType
<1>3. pc'[t] = "add" /\ \A u \in Threads \ {t} : pc'[u] = pc[u]
  BY <1>1 DEF Typed, TypeOK
<1>4. Pending(B)' = Pending(B) + Due(t)
  <2>1. Adding(B)' = Adding(B) \cup {t} /\ t \notin Adding(B)
    BY <1>0, <1>1, <1>3 DEF Adding
  <2> QED BY <1>1, <1>2, <2>1, PendingGrows
<1>5. \A b \in Buckets \ {B} : Pending(b)' = Pending(b)
  <2> SUFFICES ASSUME NEW b \in Buckets \ {B} PROVE Pending(b)' = Pending(b)
    OBVIOUS
  <2>1. Adding(b)' = Adding(b) /\ Adding(b) \subseteq Threads
    BY <1>0, <1>1, <1>3 DEF Adding
  <2>2. \A u \in Adding(b) : Due(u)' = Due(u)
    BY <1>1 DEF Due
  <2> QED BY <2>1, <2>2, PendingStays
<1>6. \A b \in Buckets : Booked(b)' = Booked(b)
  <2>1. Holders' = Holders
    BY <1>1, <1>3 DEF Holders, Typed, TypeOK
  <2> QED BY <1>1, <2>1 DEF Booked, Taken
<1>7. /\ lastRefill'[B] = now[t] /\ now[t] \in Int /\ seen[t] \in Int
      /\ \A b \in Buckets \ {B} : lastRefill'[b] = lastRefill[b]
  BY <1>1, <1>2, LimiterAssumption DEF Typed, TypeOK
<1>8. /\ AccountTypes /\ Start \in Int
      /\ \A b \in Buckets : Period[b] \in Nat /\ MaxTokens[b] \in Nat
  BY BookedType, LimiterAssumption
<1>9. \A b \in Buckets :
        Period[b] * (Booked(b) + Pending(b)) <= MaxTokens[b] * (Period[b] + lastRefill[b] - Start)
  BY DEF Conservation
<1>10. Period[B] * (Booked(B)' + Pending(B)')
         <= MaxTokens[B] * (Period[B] + lastRefill'[B] - Start)
  <2> DEFINE p == Period[B]
             m == MaxTokens[B]
             x == Booked(B)
             y == Pending(B)
             d == Due(t)
  <2>1. p \in Nat /\ m \in Nat /\ x \in Nat /\ y \in Nat /\ d \in Nat
    BY <1>2, <1>8 DEF AccountTypes
  <2>2. p * (x + y) <= m * (p + seen[t] - Start) /\ p * d <= m * (now[t] - seen[t])
    BY <1>1, <1>2, <1>9
  <2>3. Booked(B)' = x /\ Pending(B)' = y + d /\ lastRefill'[B] = now[t]
    BY <1>2, <1>4, <1>6, <1>7
  <2> HIDE DEF p, m, x, y, d
  <2>4. p * (x + (y + d)) = p * (x + y) + p * d
    BY <2>1
  <2>5. m * (p + now[t] - Start) = m * (p + seen[t] - Start) + m * (now[t] - seen[t])
    BY <1>7, <1>8, <2>1
  <2>6. p * (x + (y + d)) <= m * (p + now[t] - Start)
    BY <1>7, <1>8, <2>1, <2>2, <2>4, <2>5
  <2> QED BY <2>3, <2>6 DEF p, m
<1>11. \A b \in Buckets : Period[b] * (Booked(b)' + Pending(b)')
                            <= MaxTokens[b] * (Period[b] + lastRefill'[b] - Start)
  BY <1>5, <1>6, <1>7, <1>9, <1>10
<1>12. AccountTypes
  BY BookedType
<1> QED BY <1>6, <1>11, <1>12 DEF Conservation, AccountTypes

-----------------------------------------------------------------------------
(* The theorems.                                                           *)

LEMMA BalancedInit == Init => Conservation
<1> SUFFICES ASSUME Init, NEW b \in Buckets
             PROVE  Period[b] * (Booked(b) + Pending(b))
                      <= MaxTokens[b] * (Period[b] + lastRefill[b] - Start)
  BY DEF Conservation
<1>1. Holders = {} /\ Adding(b) = {}
  BY DEF Init, Holders, Adding
<1>2. Cardinality(Holders) = 0 /\ Pending(b) = 0
  <2>1. UNION {Units[t] : t \in Adding(b)} = {}
    BY <1>1
  <2> QED BY <1>1, <2>1, FS_EmptySet DEF Pending
<1>3. tokens[b] = MaxTokens[b] /\ lastRefill[b] = Start /\ Taken(b) = 0
  BY <1>2 DEF Init, Taken
<1>4. MaxTokens[b] \in Nat /\ Period[b] \in Nat /\ FP_SCALE \in Nat /\ Start \in Nat
  BY LimiterAssumption
<1>5. Booked(b) = MaxTokens[b]
  BY <1>3, <1>4 DEF Booked
<1> QED BY <1>2, <1>3, <1>4, <1>5

(* The two facts about the accounts of a step. *)
LEMMA StepAccounts ==
  ASSUME Typed, Typed', Conservation, [Next]_vars
  PROVE  /\ Conservation'
         /\ \A b \in Buckets : Booked(b)' >= Booked(b) \/ tokens'[b] = MaxTokens[b]
<1>1. KeepsAccounts \/ \E t \in Threads : StampTimestamp(t) /\ WonRefill(t)
  <2>1. CASE ClockMoves \/ UNCHANGED vars
    BY <2>1, QuietSteps
  <2>2. ASSUME NEW t \in Threads, ThreadStep(t), ~(StampTimestamp(t) /\ WonRefill(t))
        PROVE  KeepsAccounts
    <3>1. CASE ReadClock(t) \/ LoadTimestamp(t) \/ EndOfMonitoring(t) \/ StampTimestamp(t)
      BY <2>2, <3>1, QuietSteps
    <3>2. CASE AddTokens(t)
      BY <3>2, AddKeeps
    <3>3. CASE TakeSecond(t)
      BY <3>3, QuietSteps, TakeSecondKeeps
    <3>4. CASE TakeMinute(t)
      BY <3>4, QuietSteps, TakeMinuteKeeps
    <3>5. CASE Refund(t)
      BY <3>5, RefundKeeps
    <3> QED BY <2>2, <3>1, <3>2, <3>3, <3>4, <3>5 DEF ThreadStep
  <2> QED BY <2>1, <2>2 DEF Next
<1>2. CASE KeepsAccounts
  BY <1>2, BalanceKept DEF KeepsAccounts
<1>3. CASE \E t \in Threads : StampTimestamp(t) /\ WonRefill(t)
  BY <1>3, StampBalances
<1> QED BY <1>1, <1>2, <1>3

(* The accounts balance in every reachable state. *)
THEOREM Invariance == Spec => []IInv
<1>1. Init => Typed /\ Conservation
  BY TypedInit, BalancedInit
<1>2. Typed /\ Conservation /\ [Next]_vars => (Typed /\ Conservation)'
  BY TypedStep, StepAccounts
<1>3. Typed /\ Conservation => IInv
  BY DEF Typed, IInv
<1> QED BY <1>1, <1>2, <1>3, PTL DEF Spec

(* Type correctness: no bucket is overdrawn or overfull. *)
THEOREM TypeCorrect == Spec => []TypeOK
<1>1. IInv => TypeOK
  BY DEF IInv
<1> QED BY <1>1, Invariance, PTL

(* No step loses a token, except to a full bucket. *)
THEOREM NoTokenLeaks == Spec => NothingLeaks
<1>1. IInv /\ IInv' /\ [Next]_vars =>
        [\A b \in Buckets : Booked(b)' >= Booked(b) \/ tokens'[b] = MaxTokens[b]]_vars
  BY StepAccounts DEF IInv, Typed
<1> QED BY <1>1, Invariance, PTL DEF Spec, NothingLeaks

(* The orders admitted never exceed what either limit allows for the time. *)
THEOREM AdmissionsWithinLimits == Spec => []WithinLimits
<1>1. IInv => WithinLimits
  <2> SUFFICES ASSUME IInv, NEW b \in Buckets
               PROVE  Period[b] * FP_SCALE * admitted
                        <= MaxTokens[b] * (Period[b] + lastRefill[b] - Start)
    BY DEF WithinLimits
  <2> DEFINE p == Period[b]
             x == Booked(b) + Pending(b)
             a == FP_SCALE * admitted
  <2>1. Typed
    BY DEF IInv, Typed
  <2>2. /\ tokens[b] \in Nat /\ Pending(b) \in Nat /\ Taken(b) \in Nat
        /\ admitted \in Nat /\ FP_SCALE \in Nat /\ p \in Nat
    BY <2>1, BookedType, LimiterAssumption DEF AccountTypes, Typed, TypeOK
  <2>3. Taken(b) >= admitted
    BY <2>2, HoldersFinite DEF Taken
  <2>4. FP_SCALE * Taken(b) >= a
    BY <2>2, <2>3
  <2>5. x \in Nat /\ a \in Nat /\ a <= x
    BY <2>2, <2>4 DEF Booked
  <2>6. p * x <= MaxTokens[b] * (Period[b] + lastRefill[b] - Start)
    BY DEF IInv, Conservation
  <2>7. /\ MaxTokens[b] * (Period[b] + lastRefill[b] - Start) \in Int
        /\ p * FP_SCALE * admitted = p * a
    BY <2>1, <2>2, LimiterAssumption DEF Typed, TypeOK
  <2> HIDE DEF p, x, a
  <2>8. p * a <= p * x
    BY <2>2, <2>5
  <2>9. p * a \in Int /\ p * x \in Int
    BY <2>2, <2>5
  <2>10. p * a <= MaxTokens[b] * (Period[b] + lastRefill[b] - Start)
    BY <2>6, <2>7, <2>8, <2>9
  <2> QED BY <2>7, <2>10 DEF p
<1> QED BY <1>1, Invariance, PTL

(* No interval is paid out twice. *)
THEOREM RefillsOnlyMoveForward == Spec => RefillsMoveForward
<1>1. IInv /\ [Next]_vars => [\A b \in Buckets : lastRefill'[b] >= lastRefill[b]]_lastRefill
  <2> SUFFICES ASSUME IInv, Next, lastRefill' # lastRefill, NEW b \in Buckets
               PROVE  lastRefill'[b] >= lastRefill[b]
    BY DEF vars
  <2>1. PICK t \in Threads : StampTimestamp(t) /\ WonRefill(t)
    BY DEF Next, ThreadStep, ClockMoves, ReadClock, LoadTimestamp, StampTimestamp, AddTokens,
           EndOfMonitoring, TakeSecond, TakeMinute, Refund
  <2>2. lastRefill' = [lastRefill EXCEPT ![bucket[t]] = now[t]] /\ now[t] > lastRefill[bucket[t]]
    BY <2>1, LimiterAssumption DEF StampTimestamp, WonRefill, IInv, SeenIsOlder, TypeOK
  <2> QED
    BY <2>2, LimiterAssumption DEF IInv, TypeOK
<1> QED BY <1>1, Invariance, PTL DEF Spec, RefillsMoveForward

=============================================================================
