----------------------------- MODULE Orchestrator -----------------------------
(***************************************************************************)
(* The life cycle of Orchestrator (python/acms/orchestrator/engine.py):    *)
(* start, stop, pause, resume, the kill switch, the circuit breaker, and   *)
(* the trading loops start has created.                                    *)
(*                                                                         *)
(* Everything runs on one asyncio event loop, so code between two awaits   *)
(* is one step and other coroutines run at every await: the calls to the   *)
(* exchange, the sleep between cycles, and the two awaits of stop.         *)
(*                                                                         *)
(* Left out: signals, sizing, allocation and performance tracking, which   *)
(* only decide whether a strategy has an order to place: here it may.      *)
(***************************************************************************)
EXTENDS Naturals

CONSTANTS
  NumStrategies,       \* strategies registered, gone through in order
  DegradationEnabled,  \* config.degradation_enabled
  MaxStarts            \* bound: calls of start that create a loop

ASSUME OrchestratorAssumption ==
  NumStrategies \in Nat /\ DegradationEnabled \in BOOLEAN /\ MaxStarts \in Nat

VARIABLES
  state,         \* Orchestrator.state
  level,         \* Orchestrator.degradation_level
  killSwitch,    \* risk_engine.kill_switch_active
  exchange,      \* self.exchange: "none", "open", "closing", "closed"
  task,          \* self._task: the loop created last, 0 for None
  pc,            \* the await each loop is suspended at
  left,          \* strategies the cycle of a loop has still to go through
  cancelled,     \* loops whose task has been cancelled
  lossExceeded,  \* max_drawdown or daily loss is over its limit
  stopper,       \* the await a call of stop is suspended at
  awaited        \* the loop it awaits, or awaited

vars == <<state, level, killSwitch, exchange, task, pc, left, cancelled,
          lossExceeded, stopper, awaited>>

Loops == 1..MaxStarts

-----------------------------------------------------------------------------

Init ==
  /\ state = "STOPPED"
  /\ level = "NONE"
  /\ killSwitch = FALSE
  /\ exchange = "none"
  /\ task = 0
  /\ pc = [l \in Loops |-> "none"]
  /\ left = [l \in Loops |-> 0]
  /\ cancelled = {}
  /\ lossExceeded = FALSE
  /\ stopper = "idle"
  /\ awaited = 0

(* start has no await: its task is created and runs at the next await of   *)
(* the caller.  Only RUNNING keeps it from creating another one.           *)
Start ==
  /\ state # "RUNNING"
  /\ task < MaxStarts
  /\ exchange' = "open"
  /\ task' = task + 1
  /\ pc' = [pc EXCEPT ![task + 1] = "sleeping"]
  /\ state' = "RUNNING"
  /\ UNCHANGED <<level, killSwitch, left, cancelled, lossExceeded, stopper,
                 awaited>>

(* Creating the exchange adapter or, after it, the strategy raises. *)
StartFails ==
  /\ state # "RUNNING"
  /\ exchange' \in {exchange, "open"}
  /\ state' = "ERROR"
  /\ UNCHANGED <<level, killSwitch, task, pc, left, cancelled, lossExceeded, stopper,
                 awaited>>


HasLoop == task # 0 /\ pc[task] # "done"

(* stop, up to its first await; only the loop in _task is cancelled. *)
StopBegin ==
  /\ stopper = "idle"
  /\ \/ /\ HasLoop
        /\ cancelled' = cancelled \cup {task}
        /\ stopper' = "awaiting"
        /\ awaited' = task
        /\ state' = "STOPPING"
        /\ UNCHANGED exchange
     \/ /\ ~HasLoop /\ exchange # "none"
        /\ stopper' = "closing" /\ exchange' = "closing"
        /\ state' = "STOPPING"
        /\ UNCHANGED <<cancelled, awaited>>
     \/ /\ ~HasLoop /\ exchange = "none"
        /\ state' = "STOPPED"
        /\ UNCHANGED <<cancelled, exchange, stopper, awaited>>
  /\ UNCHANGED <<level, killSwitch, task, pc, left, lossExceeded>>

(* The awaited loop has ended; stop goes on to exchange.close(). *)
StopLoopEnded ==
  /\ stopper = "awaiting"
  /\ pc[awaited] = "done"
  /\ stopper' = "closing" /\ exchange' = "closing"
  /\ UNCHANGED <<state, level, killSwitch, task, pc, left, cancelled, lossExceeded, awaited>>

(* exchange.close() returns, or raises out of stop.  A start may have put  *)
(* another adapter in the place of the one it closed.                      *)
StopEnd ==
  /\ stopper = "closing"
  /\ exchange' = IF exchange = "closing" THEN "closed" ELSE exchange
  /\ state' = "STOPPED" \/ UNCHANGED state
  /\ stopper' = "idle"
  /\ UNCHANGED <<level, killSwitch, task, pc, left, cancelled, lossExceeded, awaited>>

Pause ==
  /\ state' = "PAUSED"
  /\ UNCHANGED <<level, killSwitch, exchange, task, pc, left, cancelled, lossExceeded, stopper,
                 awaited>>

Resume ==
  /\ state = "PAUSED"
  /\ state' = "RUNNING"
  /\ UNCHANGED <<level, killSwitch, exchange, task, pc, left, cancelled, lossExceeded, stopper,
                 awaited>>

TriggerKillSwitch ==
  /\ killSwitch' = TRUE
  /\ state' = "PAUSED"
  /\ level' = "FULL_HALT"
  /\ UNCHANGED <<exchange, task, pc, left, cancelled, lossExceeded, stopper,
                 awaited>>

ResetKillSwitch ==
  /\ killSwitch' = FALSE
  /\ level' = "NONE"
  /\ state' = IF state \in {"PAUSED", "CIRCUIT_BREAKER"} THEN "RUNNING" ELSE state
  /\ UNCHANGED <<exchange, task, pc, left, cancelled, lossExceeded, stopper,
                 awaited>>

-----------------------------------------------------------------------------
(* _main_loop and _trading_cycle                                           *)

(* Mutant: the loop never looks at the state. *)
KeepsLooping_Always == TRUE

KeepsLooping == state \in {"RUNNING", "PAUSED", "DEGRADED", "CIRCUIT_BREAKER"}

(* Mutant: a loop that goes on always trades. *)
Trading_Always == TRUE

Trading == state \in {"RUNNING", "DEGRADED"}

(* The while condition; then the first await of a cycle, or sleep again.   *)
Wake(l) ==
  /\ pc[l] = "sleeping"
  /\ \/ ~KeepsLooping /\ pc' = [pc EXCEPT ![l] = "done"]
     \/ KeepsLooping /\ Trading /\ pc' = [pc EXCEPT ![l] = "fetching"]
  /\ UNCHANGED <<state, level, killSwitch, exchange, task, left, cancelled, lossExceeded,
                 stopper, awaited>>

(* Candles have come, or not; the circuit breaker ends the cycle here. *)
Fetched(l) ==
  /\ pc[l] = "fetching"
  /\ pc' = [pc EXCEPT ![l] = IF state = "CIRCUIT_BREAKER" THEN "sleeping" ELSE "balance"]
  /\ UNCHANGED <<state, level, killSwitch, exchange, task, left, cancelled, lossExceeded,
                 stopper, awaited>>

(* Mutant: _check_risk does not look at the kill switch. *)
MayTrade_KillSwitchIgnored == level # "HALT_NEW_ORDERS"

MayTrade == level # "HALT_NEW_ORDERS" /\ ~killSwitch


(* The degradation level once the circuit breaker is activated. *)
Activated == IF DegradationEnabled THEN "HALT_NEW_ORDERS" ELSE level

(* The next n strategies, up to the await of an order: none has an order   *)
(* to place, or one raises; one places its order; or _check_risk activates *)
(* the circuit breaker, and as the limits stay exceeded those after it     *)
(* place nothing either.                                                   *)
GoThrough(l, n) ==
  \/ /\ pc' = [pc EXCEPT ![l] = "sleeping"]
     /\ left' = [left EXCEPT ![l] = 0]
     /\ UNCHANGED <<state, level>>
  \/ /\ MayTrade /\ ~lossExceeded'
     /\ \E strategy \in 1..n : left' = [left EXCEPT ![l] = n - strategy]
     /\ pc' = [pc EXCEPT ![l] = "placing"]
     /\ UNCHANGED <<state, level>>
  \/ /\ MayTrade /\ lossExceeded' /\ n > 0
     /\ state' = "CIRCUIT_BREAKER"
     /\ level' = Activated
     /\ pc' = [pc EXCEPT ![l] = "sleeping"]
     /\ left' = [left EXCEPT ![l] = 0]

(* The balance has come, or not: the equity curve moves on. *)
EquityUpdated(l) ==
  /\ pc[l] = "balance"
  /\ lossExceeded' \in BOOLEAN
  /\ GoThrough(l, NumStrategies)
  /\ UNCHANGED <<killSwitch, exchange, task, cancelled, stopper, awaited>>

(* The exchange has taken the order, or place_order has failed. *)
OrderPlaced(l) ==
  /\ pc[l] = "placing"
  /\ UNCHANGED lossExceeded
  /\ GoThrough(l, left[l])
  /\ UNCHANGED <<killSwitch, exchange, task, cancelled, stopper, awaited>>

(* Mutant: CancelledError is treated like any other exception. *)
AfterCancel_GoOn == "sleeping"

AfterCancel == "done"

(* The await a cancelled loop is at raises CancelledError. *)
CancelledError(l) ==
  /\ pc' = [pc EXCEPT ![l] = AfterCancel]
  /\ cancelled' = cancelled \ {l}
  /\ UNCHANGED <<state, level, killSwitch, exchange, task, left, lossExceeded, stopper,
                 awaited>>

LoopStep(l) ==
  \/ l \in cancelled /\ CancelledError(l)
  \/ l \notin cancelled /\ (Wake(l) \/ Fetched(l) \/ EquityUpdated(l) \/ OrderPlaced(l))

StopStep == StopLoopEnded \/ StopEnd

Next ==
  \/ Start
  \/ StartFails
  \/ StopBegin
  \/ StopStep
  \/ Pause
  \/ Resume
  \/ TriggerKillSwitch
  \/ ResetKillSwitch
  \/ \E l \in Loops : LoopStep(l)

Spec == Init /\ [][Next]_vars

(* The event loop runs what is ready, and every call of an exchange comes  *)
(* to an end: rest_client has a timeout of 30 seconds.                     *)
FairSpec ==
  /\ Spec
  /\ WF_vars(StopStep)
  /\ \A l \in Loops : WF_vars(LoopStep(l))

-----------------------------------------------------------------------------
(* Properties.                                                             *)

(* Types, and the bookkeeping of tasks: exactly the loops start has created *)
(* exist, and only a loop that has not ended is cancelled.                 *)
TypeOK ==
  /\ state \in {"STOPPED", "RUNNING", "PAUSED", "STOPPING", "ERROR", "CIRCUIT_BREAKER"}
  /\ level \in {"NONE", "HALT_NEW_ORDERS", "FULL_HALT"}
  /\ killSwitch \in BOOLEAN
  /\ exchange \in {"none", "open", "closing", "closed"}
  /\ task \in 0..MaxStarts
  /\ pc \in [Loops -> {"none", "sleeping", "fetching", "balance", "placing", "done"}]
  /\ \A l \in Loops : pc[l] = "none" <=> l > task
  /\ left \in [Loops -> 0..NumStrategies]
  /\ cancelled \subseteq {l \in Loops : pc[l] \notin {"none", "done"}}
  /\ lossExceeded \in BOOLEAN
  /\ stopper \in {"idle", "awaiting", "closing"}
  /\ awaited \in 0..task

(* The kill switch of the risk engine and the degradation level of the     *)
(* orchestrator, set one after the other, never disagree: a loop that      *)
(* finds its limits exceeded does not put a lower level in its place.      *)
KillSwitchMatchesLevel == killSwitch <=> level = "FULL_HALT"

(* An active circuit breaker has the degradation level halt new orders, so *)
(* that a cycle under way, of whichever loop, sees it too.                 *)
BreakerHalts ==
  DegradationEnabled /\ state = "CIRCUIT_BREAKER" => level = "HALT_NEW_ORDERS"

(* The inductive invariant of the safety properties. *)
IInv == TypeOK /\ KillSwitchMatchesLevel /\ BreakerHalts

(* Loop l sends an order in this step. *)
SendsOrder(l) ==
  pc'[l] = "placing" /\ (pc[l] # "placing" \/ left'[l] < left[l])

(* Whatever was called while a cycle awaited the exchange, no loop, an     *)
(* orphaned one included, sends an order with the kill switch triggered or *)
(* after the circuit breaker was activated.                                *)
HaltedSendsNoOrder ==
  [][\A l \in Loops :
       SendsOrder(l) => ~killSwitch /\ state # "CIRCUIT_BREAKER" /\ level = "NONE"]_vars

Idle(l) == pc[l] \in {"none", "sleeping", "done"}

(* Once the orchestrator stays paused or its circuit breaker stays active, *)
(* the cycles under way come to an end and no other begins.                *)
PauseTakesEffect ==
  <>[](state \in {"PAUSED", "CIRCUIT_BREAKER"}) => <>[](\A l \in Loops : Idle(l))

(* Once it stays stopped every loop ends, those no longer in _task too. *)
LoopsEnd == <>[](state = "STOPPED") => <>[](\A l \in Loops : pc[l] \in {"none", "done"})

(* stop returns (or raises what exchange.close() raised), whatever else is *)
(* called while it waits.                                                  *)
StopReturns == stopper # "idle" ~> stopper = "idle"

-----------------------------------------------------------------------------
(* What docstrings say and the code does not keep.                         *)

(* "Stop the orchestrator gracefully": no order is sent once it is         *)
(* stopped.                                                                *)
StoppedSendsNoOrder == [][\A l \in Loops : SendsOrder(l) => state # "STOPPED"]_vars

=============================================================================
