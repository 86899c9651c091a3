---------------------------- MODULE GatewayBreaker ----------------------------
(***************************************************************************)
(* The circuit breaker the API gateway keeps per backend service           *)
(* (go/internal/middleware/middleware.go) and the two handlers that call   *)
(* it around a proxied request: proxyToBackend of go/cmd/gateway/main.go,  *)
(* which the gateway routes through, and ProxyWithCircuitBreaker of the    *)
(* middleware package.                                                     *)
(*                                                                         *)
(* Every method of the breaker runs under its mutex, so each is one step;  *)
(* what interleaves are the requests, each of which asks Allow, waits for  *)
(* the backend, and records how it went on whatever breaker the backend    *)
(* has by then.  Time is the number of ticks since the last recorded       *)
(* failure, kept only as far as it decides anything.                       *)
(***************************************************************************)
EXTENDS Naturals

CONSTANTS
  Requests,          \* requests the gateway handles at the same time
  Handlers,          \* the handlers a deployment may route through
  FailureThreshold,  \* the gateway passes 5
  HalfOpenMax,       \* 3 in NewCircuitBreaker
  ResetTimeout       \* in ticks; the gateway passes 30 s

ASSUME HandlerAssumption == Handlers \subseteq {"proxyToBackend", "ProxyWithCircuitBreaker"}
ASSUME BreakerAssumption ==
  /\ FailureThreshold \in Nat \ {0}
  /\ HalfOpenMax \in Nat \ {0}
  /\ ResetTimeout \in Nat

VARIABLES
  handler,          \* the handler that wraps every call, fixed when routes are set up
  state,            \* CircuitBreaker.state
  failureCount,     \* CircuitBreaker.failureCount, up to FailureThreshold
  sinceFailure,     \* time.Since(lastFailure), up to ResetTimeout + 1
  halfOpenSuccess,  \* CircuitBreaker.halfOpenSuccess
  pc,               \* where each request is in its handler
  healthy,          \* the backend answers, and clients wait for its answers
  failedCalls       \* history: calls failed since one succeeded, up to FailureThreshold

breaker == <<state, failureCount, sinceFailure, halfOpenSuccess>>
vars == <<handler, state, failureCount, sinceFailure, halfOpenSuccess, pc, healthy, failedCalls>>

-----------------------------------------------------------------------------

(* Counters are only ever compared with FailureThreshold. *)
Increment(count) == IF count < FailureThreshold THEN count + 1 ELSE count

(* lastFailure starts as the zero time, further back than any timeout. *)
LongAgo == ResetTimeout + 1

Init ==
  /\ handler \in Handlers
  /\ state = "closed"
  /\ failureCount = 0
  /\ sinceFailure = LongAgo
  /\ halfOpenSuccess = 0
  /\ pc = [r \in Requests |-> "idle"]
  /\ healthy \in BOOLEAN
  /\ failedCalls = 0

-----------------------------------------------------------------------------
(* The methods of CircuitBreaker.                                          *)

(* A call let through, and what Allow does to the breaker on the way. *)
Allow ==
  \/ /\ state = "closed"
     /\ UNCHANGED breaker
  \/ /\ state = "open"
     /\ sinceFailure > ResetTimeout
     /\ state' = "half-open"
     /\ halfOpenSuccess' = 0
     /\ UNCHANGED <<failureCount, sinceFailure>>
  \/ /\ state = "half-open"
     /\ halfOpenSuccess < HalfOpenMax
     /\ UNCHANGED breaker

(* Mutant: one success more than Allow lets through is asked for. *)
Recovered_OffByOne == halfOpenSuccess + 1 > HalfOpenMax

Recovered == halfOpenSuccess + 1 >= HalfOpenMax

FailuresOnClose == 0

(* Mutant: failures add up even when calls succeed in between. *)
FailuresOnSuccess_Kept == failureCount

FailuresOnSuccess == 0

RecordSuccess ==
  \/ /\ state = "half-open"
     /\ halfOpenSuccess' = halfOpenSuccess + 1
     /\ state' = IF Recovered THEN "closed" ELSE "half-open"
     /\ failureCount' = IF Recovered THEN FailuresOnClose ELSE failureCount
     /\ UNCHANGED sinceFailure
  \/ /\ state = "closed"
     /\ failureCount' = FailuresOnSuccess
     /\ UNCHANGED <<state, sinceFailure, halfOpenSuccess>>
  \/ /\ state = "open"
     /\ UNCHANGED breaker

(* Mutant: one failure more than the threshold is tolerated. *)
Tripped_Late == failureCount >= FailureThreshold

(* failureCount has been incremented when it is compared. *)
Tripped == failureCount + 1 >= FailureThreshold

RecordFailure ==
  /\ failureCount' = Increment(failureCount)
  /\ sinceFailure' = 0
  /\ state' = IF state = "half-open" \/ Tripped THEN "open" ELSE state
  /\ UNCHANGED halfOpenSuccess

-----------------------------------------------------------------------------
(* A request.                                                              *)

(* The handler goes on to the backend; one that Allow refuses is answered  *)
(* 503 and changes nothing.                                                *)
Forward(r) ==
  /\ pc[r] = "idle"
  /\ Allow
  /\ pc' = [pc EXCEPT ![r] = "waiting"]
  /\ UNCHANGED <<handler, healthy, failedCalls>>

(* The backend answers with a status below 500. *)
Answered(r) ==
  /\ pc[r] = "waiting"
  /\ RecordSuccess
  /\ failedCalls' = 0
  /\ pc' = [pc EXCEPT ![r] = "idle"]
  /\ UNCHANGED <<handler, healthy>>

(* The backend answers with a status of 500 or above. *)
ServerError(r) ==
  /\ pc[r] = "waiting"
  /\ ~healthy
  /\ RecordFailure
  /\ failedCalls' = Increment(failedCalls)
  /\ pc' = [pc EXCEPT ![r] = "idle"]
  /\ UNCHANGED <<handler, healthy>>

(* The ErrorHandler of proxyToBackend writes no status, and its handler    *)
(* goes on; ProxyWithCircuitBreaker returns.                               *)
AfterError == IF handler = "proxyToBackend" THEN "statusCode200" ELSE "idle"

(* No answer: the connection fails, times out or the client hangs up. *)
Unreachable(r) ==
  /\ pc[r] = "waiting"
  /\ ~healthy
  /\ RecordFailure
  /\ failedCalls' = Increment(failedCalls)
  /\ pc' = [pc EXCEPT ![r] = AfterError]
  /\ UNCHANGED <<handler, healthy>>

(* responseCapture still holds the 200 it was made with. *)
RecordUnwritten(r) ==
  /\ pc[r] = "statusCode200"
  /\ RecordSuccess
  /\ pc' = [pc EXCEPT ![r] = "idle"]
  /\ UNCHANGED <<handler, healthy, failedCalls>>

(* Copying the body fails: ReverseProxy panics with ErrAbortHandler, and   *)
(* RecoveryMiddleware ends the request before anything is recorded.        *)
Aborted(r) ==
  /\ pc[r] = "waiting"
  /\ handler = "proxyToBackend"
  /\ ~healthy
  /\ pc' = [pc EXCEPT ![r] = "idle"]
  /\ UNCHANGED <<handler, breaker, healthy, failedCalls>>

-----------------------------------------------------------------------------

(* POST /admin/circuit-breakers/:name/reset gives the backend a new        *)
(* breaker; requests that wait for it will record on that one.             *)
(* ProxyWithCircuitBreaker goes on with the breaker it was made with.      *)
Reset ==
  /\ handler = "proxyToBackend"
  /\ state' = "closed"
  /\ failureCount' = 0
  /\ sinceFailure' = LongAgo
  /\ halfOpenSuccess' = 0
  /\ failedCalls' = 0
  /\ UNCHANGED <<handler, pc, healthy>>

Tick ==
  /\ sinceFailure <= ResetTimeout
  /\ sinceFailure' = sinceFailure + 1
  /\ UNCHANGED <<handler, state, failureCount, halfOpenSuccess, pc, healthy, failedCalls>>

BackendChanges ==
  /\ healthy' = ~healthy
  /\ UNCHANGED <<handler, breaker, pc, failedCalls>>

Finish(r) ==
  \/ Answered(r)
  \/ ServerError(r)
  \/ Unreachable(r)
  \/ RecordUnwritten(r)
  \/ Aborted(r)

Next ==
  \/ \E r \in Requests : Forward(r) \/ Finish(r)
  \/ Reset
  \/ Tick
  \/ BackendChanges

Spec == Init /\ [][Next]_vars

(* Clients keep calling, every request ends, and time passes. *)
FairSpec ==
  /\ Spec
  /\ WF_vars(Tick)
  /\ \A r \in Requests : WF_vars(Forward(r)) /\ WF_vars(Finish(r))

-----------------------------------------------------------------------------
(* Properties.                                                             *)

(* The breaker is in one of its three states and its counters in range. *)
TypeOK ==
  /\ handler \in {"proxyToBackend", "ProxyWithCircuitBreaker"}
  /\ state \in {"closed", "open", "half-open"}
  /\ failureCount \in 0..FailureThreshold
  /\ sinceFailure \in 0..LongAgo
  /\ halfOpenSuccess \in 0..HalfOpenMax
  /\ pc \in [Requests -> {"idle", "waiting", "statusCode200"}]
  /\ healthy \in BOOLEAN
  /\ failedCalls \in 0..FailureThreshold

(* A closed breaker never holds enough failures to open: whatever late     *)
(* answers came while it was open or half-open, it starts again below its  *)
(* threshold.                                                              *)
ClosedBelowThreshold == state = "closed" => failureCount < FailureThreshold

(* A half-open breaker lets calls through: it cannot come to a state where *)
(* Allow refuses every call and no timeout ends it.                        *)
HalfOpenAdmits == state = "half-open" => halfOpenSuccess < HalfOpenMax

(* A closed breaker opens only after FailureThreshold calls have failed    *)
(* with no success among them, however the calls overlapped.               *)
OpensOnlyAfterFailures ==
  [][state = "closed" /\ state' = "open" => failedCalls' = FailureThreshold]_vars

(* Through the handler that records each call once: once FailureThreshold  *)
(* calls in a row have failed, the breaker is no longer closed.            *)
OpensAfterRecordedFailures ==
  handler = "ProxyWithCircuitBreaker" /\ state = "closed" => failedCalls < FailureThreshold

(* The same of every handler, "circuit breaker for backend calls": once    *)
(* FailureThreshold calls in a row have failed, the breaker is no longer   *)
(* closed.                                                                 *)
OpensAfterFailures == state = "closed" => failedCalls < FailureThreshold

(* Once the backend stays healthy the breaker closes and stays closed.     *)
Recovers == <>[]healthy => <>[](state = "closed")

-----------------------------------------------------------------------------
(* Inductive invariant: a closed breaker has counted no call that did not  *)
(* fail, and all of them if each call is recorded once.                    *)
Counted ==
  /\ state = "closed" => failureCount <= failedCalls
  /\ handler = "ProxyWithCircuitBreaker" =>
       /\ \A r \in Requests : pc[r] # "statusCode200"
       /\ state = "closed" => failureCount = failedCalls

IInv == TypeOK /\ ClosedBelowThreshold /\ HalfOpenAdmits /\ Counted

=============================================================================
