------------------------- MODULE GatewayBreakerProofs -------------------------
(* Proofs about GatewayBreaker, for any number of overlapping requests, any *)
(* threshold, half-open quota and timeout, and both handlers.               *)
EXTENDS GatewayBreaker, TLAPS

USE DEF breaker, vars, LongAgo, Increment, Tripped, Recovered, AfterError,
        FailuresOnClose, FailuresOnSuccess

LEMMA InitInvariant == Init => IInv
  BY HandlerAssumption, BreakerAssumption
     DEF Init, IInv, TypeOK, ClosedBelowThreshold, HalfOpenAdmits, Counted

(* One lemma per method of the breaker: it keeps the part of the invariant *)
(* about the breaker, given what the call counts in failedCalls.           *)
LEMMA ForwardInvariant ==
  ASSUME IInv, NEW r \in Requests, Forward(r)
  PROVE  IInv'
  BY HandlerAssumption, BreakerAssumption
     DEF Forward, Allow, IInv, TypeOK, ClosedBelowThreshold, HalfOpenAdmits, Counted

LEMMA AnsweredInvariant ==
  ASSUME IInv, NEW r \in Requests, Answered(r)
  PROVE  IInv'
  BY HandlerAssumption, BreakerAssumption
     DEF Answered, RecordSuccess, IInv, TypeOK, ClosedBelowThreshold, HalfOpenAdmits, Counted

LEMMA FailureInvariant ==
  ASSUME IInv, NEW r \in Requests, ServerError(r) \/ Unreachable(r)
  PROVE  IInv'
  BY HandlerAssumption, BreakerAssumption
     DEF ServerError, Unreachable, RecordFailure, IInv, TypeOK, ClosedBelowThreshold,
         HalfOpenAdmits, Counted

LEMMA RecordUnwrittenInvariant ==
  ASSUME IInv, NEW r \in Requests, RecordUnwritten(r)
  PROVE  IInv'
  BY HandlerAssumption, BreakerAssumption
     DEF RecordUnwritten, RecordSuccess, IInv, TypeOK, ClosedBelowThreshold, HalfOpenAdmits,
         Counted

(* The steps that leave the breaker alone, replace it, or let time pass. *)
LEMMA AbortedInvariant ==
  ASSUME IInv, NEW r \in Requests, Aborted(r)
  PROVE  IInv'
  BY HandlerAssumption, BreakerAssumption
     DEF Aborted, IInv, TypeOK, ClosedBelowThreshold, HalfOpenAdmits, Counted

LEMMA OtherInvariant ==
  ASSUME IInv, Reset \/ Tick \/ BackendChanges \/ UNCHANGED vars
  PROVE  IInv'
  <1>1. CASE Reset \/ Tick \/ UNCHANGED vars
    BY <1>1, HandlerAssumption, BreakerAssumption
       DEF Reset, Tick, IInv, TypeOK, ClosedBelowThreshold, HalfOpenAdmits, Counted
  <1>2. CASE BackendChanges
    <2>1. healthy' \in BOOLEAN
      BY <1>2 DEF BackendChanges
    <2> QED
      BY <1>2, <2>1 DEF BackendChanges, IInv, TypeOK, ClosedBelowThreshold, HalfOpenAdmits,
                        Counted
  <1> QED BY <1>1, <1>2

LEMMA StepInvariant == IInv /\ [Next]_vars => IInv'
  <1> SUFFICES ASSUME IInv, [Next]_vars PROVE IInv'
    OBVIOUS
  <1>1. ASSUME NEW r \in Requests, Forward(r) \/ Finish(r) PROVE IInv'
    BY <1>1, ForwardInvariant, AnsweredInvariant, FailureInvariant,
       RecordUnwrittenInvariant, AbortedInvariant DEF Finish
  <1>2. CASE Reset \/ Tick \/ BackendChanges \/ UNCHANGED vars
    BY <1>2, OtherInvariant
  <1> QED BY <1>1, <1>2 DEF Next

(* The breaker's invariant holds whatever requests overlap. *)
THEOREM Invariance == Spec => []IInv
  BY InitInvariant, StepInvariant, PTL DEF Spec

(* Type correctness. *)
THEOREM TypeCorrect == Spec => []TypeOK
  <1>1. IInv => TypeOK
    BY DEF IInv
  <1> QED BY <1>1, Invariance, PTL

(* A closed breaker always starts below its threshold. *)
THEOREM ClosedStartsBelowThreshold == Spec => []ClosedBelowThreshold
  <1>1. IInv => ClosedBelowThreshold
    BY DEF IInv
  <1> QED BY <1>1, Invariance, PTL

(* A half-open breaker never refuses every call. *)
THEOREM HalfOpenIsNoTrap == Spec => []HalfOpenAdmits
  <1>1. IInv => HalfOpenAdmits
    BY DEF IInv
  <1> QED BY <1>1, Invariance, PTL

(* Overlapping calls never open a closed breaker on fewer failures in a    *)
(* row than its threshold.                                                 *)
THEOREM NeverOpensEarly == Spec => OpensOnlyAfterFailures
  <1>1. IInv /\ [Next]_vars =>
          [state = "closed" /\ state' = "open" => failedCalls' = FailureThreshold]_vars
    <2> SUFFICES ASSUME IInv, Next, state = "closed", state' = "open"
                 PROVE  failedCalls' = FailureThreshold
      OBVIOUS
    <2>1. PICK r \in Requests : ServerError(r) \/ Unreachable(r)
      BY DEF Next, Finish, Forward, Allow, Answered, RecordUnwritten, RecordSuccess,
             Aborted, Reset, Tick, BackendChanges
    <2>2. failureCount + 1 >= FailureThreshold /\ failedCalls' = Increment(failedCalls)
      BY <2>1 DEF ServerError, Unreachable, RecordFailure
    <2> QED
      BY <2>2, BreakerAssumption DEF IInv, TypeOK, Counted
  <1> QED BY <1>1, Invariance, PTL DEF Spec, OpensOnlyAfterFailures

(* With the handler that records each call once, FailureThreshold failures *)
(* in a row always take the breaker out of closed.                         *)
THEOREM OpensInTime == Spec => []OpensAfterRecordedFailures
  <1>1. IInv => OpensAfterRecordedFailures
    BY DEF IInv, ClosedBelowThreshold, Counted, OpensAfterRecordedFailures
  <1> QED BY <1>1, Invariance, PTL

=============================================================================
