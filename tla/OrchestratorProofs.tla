-------------------------- MODULE OrchestratorProofs --------------------------
(***************************************************************************)
(* Proofs about Orchestrator, for any number of strategies and starts.     *)
(*                                                                         *)
(* KillSwitchMatchesLevel and BreakerHalts protect each other: the loop    *)
(* that activates the circuit breaker has found the kill switch inactive,  *)
(* in the step in which it lowers the level.  Both give what MayTrade      *)
(* alone does not say: that an order is sent at level NONE only.           *)
(***************************************************************************)
EXTENDS Orchestrator, TLAPS

(* What one of the two awaits that go through the strategies does. *)
LEMMA GoThroughKeeps ==
  ASSUME IInv, NEW l \in Loops, NEW n \in 0..NumStrategies, pc[l] \notin {"none", "done"},
         l \notin cancelled, lossExceeded' \in BOOLEAN, GoThrough(l, n),
         UNCHANGED <<killSwitch, exchange, task, cancelled, stopper, awaited>>
  PROVE  IInv'
<1> USE OrchestratorAssumption DEF IInv, Loops
<1>1. pc' \in [Loops -> {"none", "sleeping", "fetching", "balance", "placing", "done"}]
  BY DEF GoThrough, TypeOK
<1>2. pc'[l] \notin {"none", "done"} /\ \A k \in Loops : k # l => pc'[k] = pc[k]
  BY DEF GoThrough, TypeOK
<1>3. left' \in [Loops -> 0..NumStrategies]
  BY DEF GoThrough, TypeOK
<1>4. state' \in {state, "CIRCUIT_BREAKER"} /\ level' \in {level, "HALT_NEW_ORDERS"}
  BY DEF GoThrough, Activated
<1>5. lossExceeded' \in BOOLEAN /\ killSwitch' \in BOOLEAN
  BY DEF TypeOK
<1>6. TypeOK'
  BY <1>1, <1>2, <1>3, <1>4, <1>5 DEF TypeOK
<1>7. KillSwitchMatchesLevel'
  BY DEF GoThrough, Activated, MayTrade, KillSwitchMatchesLevel
<1>8. BreakerHalts'
  BY DEF GoThrough, Activated, BreakerHalts
<1> QED BY <1>6, <1>7, <1>8

(* What an order sent by loop l says of the state it is sent in. *)
LEMMA OrdersNeedMayTrade ==
  ASSUME IInv, NEW l \in Loops, [Next]_vars, SendsOrder(l)
  PROVE  MayTrade
<1> USE DEF SendsOrder, Loops, IInv, TypeOK
<1>0. left[l] \in Nat
  BY OrchestratorAssumption
<1>1. ASSUME NEW k \in Loops, NEW n \in 0..NumStrategies, GoThrough(k, n), ~MayTrade
      PROVE  FALSE
  <2>1. pc' = [pc EXCEPT ![k] = "sleeping"] /\ left' = [left EXCEPT ![k] = 0]
    BY <1>1 DEF GoThrough
  <2>2. pc'[l] = "placing"
    OBVIOUS
  <2>3. l # k
    BY <2>1, <2>2
  <2>4. pc'[l] = pc[l] /\ left'[l] = left[l]
    BY <2>1, <2>3
  <2> QED BY <1>0, <2>4
<1>2. ASSUME NEW k \in Loops, LoopStep(k)
      PROVE  MayTrade
  <2>1. CASE k \in cancelled /\ CancelledError(k)
    BY <1>0, <2>1 DEF CancelledError, AfterCancel
  <2>2. CASE Wake(k)
    <3>1. pc'[k] # "placing" /\ (l # k => pc'[l] = pc[l])
      BY <2>2 DEF Wake
    <3>2. left' = left
      BY <2>2 DEF Wake
    <3> QED BY <1>0, <3>1, <3>2
  <2>3. CASE Fetched(k)
    BY <1>0, <2>3 DEF Fetched
  <2>4. CASE EquityUpdated(k)
    BY <2>4, <1>1, OrchestratorAssumption DEF EquityUpdated
  <2>5. CASE OrderPlaced(k)
    BY <2>5, <1>1 DEF OrderPlaced
  <2> QED BY <1>2, <2>1, <2>2, <2>3, <2>4, <2>5 DEF LoopStep
<1>3. CASE Start
  BY <1>0, <1>3 DEF Start
<1>4. CASE StopBegin
  BY <1>0, <1>4 DEF StopBegin
<1>5. CASE StartFails \/ StopStep \/ Pause \/ Resume \/ TriggerKillSwitch \/ ResetKillSwitch
  <2>1. UNCHANGED <<pc, left>>
    BY <1>5 DEF StartFails, StopStep, StopLoopEnded, StopEnd, Pause, Resume,
                TriggerKillSwitch, ResetKillSwitch
  <2> QED BY <1>0, <2>1
<1>6. CASE UNCHANGED vars
  BY <1>0, <1>6 DEF vars
<1> QED BY <1>2, <1>3, <1>4, <1>5, <1>6 DEF Next

-----------------------------------------------------------------------------

LEMMA InvInit == Init => IInv
<1> SUFFICES ASSUME Init PROVE IInv
  OBVIOUS
<1>1. TypeOK
  <2>1. killSwitch \in BOOLEAN /\ lossExceeded \in BOOLEAN
    BY DEF Init
  <2>2. \A l \in Loops : pc[l] = "none" <=> l > task
    BY OrchestratorAssumption DEF Init, Loops
  <2>3. cancelled = {} /\ task = 0 /\ awaited = 0
    BY DEF Init
  <2> QED BY <2>1, <2>2, <2>3, OrchestratorAssumption DEF Init, TypeOK, Loops
<1>2. KillSwitchMatchesLevel /\ BreakerHalts
  BY DEF Init, KillSwitchMatchesLevel, BreakerHalts
<1> QED BY <1>1, <1>2 DEF IInv

LEMMA InvStep == IInv /\ [Next]_vars => IInv'
<1> SUFFICES ASSUME IInv, [Next]_vars PROVE IInv'
  OBVIOUS
<1> USE OrchestratorAssumption DEF IInv, Loops
<1>1. CASE Start
  BY <1>1 DEF Start, TypeOK, KillSwitchMatchesLevel, BreakerHalts
<1>2. CASE StartFails
  BY <1>2 DEF StartFails, TypeOK, KillSwitchMatchesLevel, BreakerHalts
<1>3. CASE StopBegin
  <2>1. cancelled' \subseteq {l \in Loops : pc[l] \notin {"none", "done"}}
    <3>1. CASE HasLoop
      <4>1. task \in Loops /\ pc[task] # "done" /\ pc[task] # "none"
        BY <3>1 DEF HasLoop, TypeOK
      <4>2. cancelled' = cancelled \cup {task}
        BY <1>3, <3>1 DEF StopBegin
      <4> QED BY <4>1, <4>2 DEF TypeOK
    <3>2. CASE ~HasLoop
      BY <1>3, <3>2 DEF StopBegin, TypeOK
    <3> QED BY <3>1, <3>2
  <2>2. state' \in {"STOPPING", "STOPPED"} /\ stopper' \in {"idle", "awaiting", "closing"}
    BY <1>3 DEF StopBegin
  <2>3. awaited' \in 0..task
    BY <1>3 DEF StopBegin, TypeOK
  <2>4. UNCHANGED <<level, killSwitch, task, pc, left, lossExceeded>>
        /\ exchange' \in {exchange, "closing"}
    BY <1>3 DEF StopBegin
  <2>5. TypeOK'
    BY <2>1, <2>2, <2>3, <2>4 DEF TypeOK
  <2> QED BY <2>2, <2>4, <2>5 DEF KillSwitchMatchesLevel, BreakerHalts
<1>4. CASE StopLoopEnded
  BY <1>4 DEF StopLoopEnded, TypeOK, KillSwitchMatchesLevel, BreakerHalts
<1>5. CASE StopEnd
  BY <1>5 DEF StopEnd, TypeOK, KillSwitchMatchesLevel, BreakerHalts
<1>6. CASE Pause \/ Resume
  <2>1. state' \in {"PAUSED", "RUNNING"}
    BY <1>6 DEF Pause, Resume
  <2>2. UNCHANGED <<level, killSwitch, exchange, task, pc, left, cancelled, lossExceeded,
                    stopper, awaited>>
    BY <1>6 DEF Pause, Resume
  <2> QED BY <2>1, <2>2 DEF TypeOK, KillSwitchMatchesLevel, BreakerHalts
<1>7. CASE TriggerKillSwitch
  BY <1>7 DEF TriggerKillSwitch, TypeOK, KillSwitchMatchesLevel, BreakerHalts
<1>8. CASE ResetKillSwitch
  BY <1>8 DEF ResetKillSwitch, TypeOK, KillSwitchMatchesLevel, BreakerHalts
<1>9. ASSUME NEW l \in Loops, LoopStep(l) PROVE IInv'
  <2>1. CASE l \in cancelled /\ CancelledError(l)
    BY <2>1 DEF CancelledError, AfterCancel, TypeOK, KillSwitchMatchesLevel, BreakerHalts
  <2>2. CASE l \notin cancelled /\ Wake(l)
    BY <2>2 DEF Wake, TypeOK, KillSwitchMatchesLevel, BreakerHalts
  <2>3. CASE l \notin cancelled /\ Fetched(l)
    BY <2>3 DEF Fetched, TypeOK, KillSwitchMatchesLevel, BreakerHalts
  <2>4. CASE l \notin cancelled /\ EquityUpdated(l)
    BY <2>4, GoThroughKeeps DEF EquityUpdated
  <2>5. CASE l \notin cancelled /\ OrderPlaced(l)
    <3>1. left[l] \in 0..NumStrategies /\ lossExceeded' \in BOOLEAN
      BY <2>5 DEF OrderPlaced, TypeOK
    <3> QED BY <2>5, <3>1, GoThroughKeeps DEF OrderPlaced
  <2> QED BY <1>9, <2>1, <2>2, <2>3, <2>4, <2>5 DEF LoopStep
<1>10. CASE UNCHANGED vars
  BY <1>10 DEF vars, TypeOK, KillSwitchMatchesLevel, BreakerHalts
<1> QED BY <1>1, <1>2, <1>3, <1>4, <1>5, <1>6, <1>7, <1>8, <1>9, <1>10 DEF Next, StopStep

(* The inductive invariant holds in every reachable state. *)
THEOREM Invariance == Spec => []IInv
BY InvInit, InvStep, PTL DEF Spec

(* Type correctness: only loops that start created run, only loops that    *)
(* have not ended are cancelled, however start, stop and the loops         *)
(* interleave.                                                             *)
THEOREM TypeCorrect == Spec => []TypeOK
<1>1. IInv => TypeOK
  BY DEF IInv
<1> QED BY <1>1, Invariance, PTL

(* The kill switch and the degradation level never disagree.               *)
THEOREM KillSwitchHasItsLevel == Spec => []KillSwitchMatchesLevel
<1>1. IInv => KillSwitchMatchesLevel
  BY DEF IInv
<1> QED BY <1>1, Invariance, PTL

(* With degradation enabled, no loop sends an order with the kill switch   *)
(* triggered or the circuit breaker active.                                *)
THEOREM HaltHolds ==
  ASSUME DegradationEnabled
  PROVE  Spec => HaltedSendsNoOrder
<1> DEFINE Sends == \A l \in Loops :
      SendsOrder(l) => ~killSwitch /\ state # "CIRCUIT_BREAKER" /\ level = "NONE"
<1>1. IInv /\ [Next]_vars => [Sends]_vars
  <2> SUFFICES ASSUME IInv, [Next]_vars, NEW l \in Loops, SendsOrder(l)
               PROVE  ~killSwitch /\ state # "CIRCUIT_BREAKER" /\ level = "NONE"
    OBVIOUS
  <2>1. MayTrade
    BY OrdersNeedMayTrade
  <2> QED BY <2>1 DEF MayTrade, IInv, TypeOK, KillSwitchMatchesLevel, BreakerHalts
<1> QED BY <1>1, Invariance, PTL DEF Spec, HaltedSendsNoOrder

=============================================================================
