------------------------------ MODULE ModelServer ------------------------------
(***************************************************************************)
(* The life cycle of the inference server of                               *)
(* python/acms/ai/inference/server.py: start, stop and the queue loop,     *)
(* called by several coroutines, with the status of every model version.   *)
(* PredictionServing has what predict does with it.                        *)
(*                                                                         *)
(* A step is what a coroutine does up to an await that suspends it: the    *)
(* connection to Redis, the sleep of the queue loop, and the end of a      *)
(* cancelled loop.  Warming up suspends nowhere.                           *)
(***************************************************************************)
EXTENDS Integers, Sequences, FiniteSets

CONSTANTS
  Controllers,  \* coroutines that call start and stop
  ServerVersions,     \* versions that may be registered
  ServerFirst, \* "v1", registered before the first start
  Priorities,   \* the least number is CRITICAL
  MaxQueue,     \* RequestQueue.max_size
  MaxDequeue,     \* ModelServer.max_batch_size
  ServerStarts     \* bound: starts in a behaviour

ASSUME ServerAssumption ==
  /\ ServerFirst \in ServerVersions
  /\ {MaxQueue, MaxDequeue, ServerStarts} \subseteq Nat \ {0}
  /\ Priorities \subseteq Nat /\ IsFiniteSet(Priorities) /\ IsFiniteSet(Controllers)

VARIABLES
  status,   \* _status, or "absent" for a version never registered
  queued,   \* RequestQueue._queues: how many requests wait at each priority
  running,  \* ModelServer._running
  control,  \* what each controller is doing
  loops     \* the queue loops created so far; the last is _server_task

modelServerVars == <<status, queued, running, control, loops>>

-----------------------------------------------------------------------------
Registered == {v \in ServerVersions : status[v] # "absent"}
AllAre(s) == [v \in ServerVersions |-> IF v \in Registered THEN s ELSE "absent"]
Waits(queue) == UNION {{p} \X (1..queue[p]) : p \in Priorities}
Total(queue) == Cardinality(Waits(queue))
EmptyQueue == [p \in Priorities |-> 0]
Connecting == {k \in Controllers : control[k].at = "connecting"}

ServerInit ==
  /\ status = [v \in ServerVersions |-> IF v = ServerFirst THEN "not_loaded" ELSE "absent"]
  /\ queued = EmptyQueue
  /\ running = FALSE
  /\ control = [k \in Controllers |-> [at |-> "idle"]]
  /\ loops = <<>>

-----------------------------------------------------------------------------

RegisterModel(v) ==
  /\ status' = [status EXCEPT ![v] = "not_loaded"]
  /\ UNCHANGED <<queued, running, control, loops>>

(* Mutant: one request more than there is room for. *)
QueueFull_Late == Total(queued) > MaxQueue
QueueFull == Total(queued) >= MaxQueue

(* predict queues its request, whatever the status of the server. *)
Enqueue(p) ==
  /\ ~QueueFull
  /\ queued' = [queued EXCEPT ![p] = @ + 1]
  /\ UNCHANGED <<status, running, control, loops>>

ServerStart(k) ==
  /\ control[k].at = "idle"
  /\ ~running
  /\ Len(loops) + Cardinality(Connecting) < ServerStarts
  /\ running' = TRUE
  /\ control' = [control EXCEPT ![k] = [at |-> "connecting"]]
  /\ UNCHANGED <<status, queued, loops>>

WarmedUp == AllAre("ready")

(* Redis has answered or not: every model warms up and is ready, and a     *)
(* queue loop starts, whatever happened to running in between.             *)
ServerConnected(k) ==
  /\ control[k].at = "connecting"
  /\ status' = WarmedUp
  /\ loops' = Append(loops, "alive")
  /\ control' = [control EXCEPT ![k] = [at |-> "idle"]]
  /\ UNCHANGED <<queued, running>>

(* Only the last loop is cancelled and waited for. *)
ServerStop(k) ==
  /\ control[k].at = "idle"
  /\ running' = FALSE
  /\ status' = AllAre("draining")
  /\ loops' = [i \in DOMAIN loops |->
                 IF i = Len(loops) /\ loops[i] = "alive" THEN "cancelled" ELSE loops[i]]
  /\ control' = [control EXCEPT ![k] = [at |-> "stopping", task |-> Len(loops)]]
  /\ UNCHANGED queued

ServerStopped(k) ==
  /\ control[k].at = "stopping"
  /\ control[k].task \in {0} \cup {i \in DOMAIN loops : loops[i] = "ended"}
  /\ control' = [control EXCEPT ![k] = [at |-> "idle"]]
  /\ UNCHANGED <<status, queued, running, loops>>

(* Mutant: the loop runs until it is cancelled, without looking at running. *)
LoopGoesOn_UntilCancelled(i) == loops[i] = "alive"
LoopGoesOn(i) == loops[i] = "alive" /\ running

LoopEnds(i) ==
  /\ loops[i] \in {"alive", "cancelled"}
  /\ ~LoopGoesOn(i)
  /\ loops' = [loops EXCEPT ![i] = "ended"]
  /\ UNCHANGED <<status, queued, running, control>>

(* dequeue_batch leaves a queue from which only the highest priorities and *)
(* the requests past their deadline are gone, and which is empty unless    *)
(* the batch is full.  Its results are thrown away: predict has executed   *)
(* the request itself.                                                     *)
Leaves(left) ==
  /\ left # queued
  /\ \A p \in Priorities : left[p] <= queued[p]
  /\ \A p, r \in Priorities : p < r /\ left[r] < queued[r] => left[p] = 0
  /\ left = EmptyQueue \/ Total(queued) - Total(left) >= MaxDequeue

ProcessQueue(i) ==
  /\ LoopGoesOn(i)
  /\ queued' \in {left \in [Priorities -> 0..MaxQueue] : Leaves(left)}
  /\ UNCHANGED <<status, running, control, loops>>

-----------------------------------------------------------------------------
Loop(i) == i \in DOMAIN loops /\ (LoopEnds(i) \/ ProcessQueue(i))

ServerNext ==
  \/ \E v \in ServerVersions : RegisterModel(v)
  \/ \E p \in Priorities : Enqueue(p)
  \/ \E k \in Controllers : ServerStart(k) \/ ServerConnected(k) \/ ServerStop(k) \/ ServerStopped(k)
  \/ \E i \in 1..ServerStarts : Loop(i)

ServerSpec == ServerInit /\ [][ServerNext]_modelServerVars

(* The event loop runs what is ready. *)
ServerFairSpec ==
  /\ ServerSpec
  /\ \A k \in Controllers : WF_modelServerVars(ServerConnected(k) \/ ServerStopped(k))
  /\ \A i \in 1..ServerStarts : WF_modelServerVars(Loop(i))

-----------------------------------------------------------------------------
(* Properties.                                                             *)

(* Every part of the server is in range. *)
ServerTypeOK ==
  /\ status \in [ServerVersions -> {"absent", "not_loaded", "ready", "draining"}]
  /\ queued \in [Priorities -> Nat] /\ Total(queued) <= MaxQueue
  /\ running \in BOOLEAN
  /\ \A k \in Controllers : control[k].at \in {"idle", "connecting", "stopping"}
  /\ loops \in Seq({"alive", "cancelled", "ended"})
  /\ Len(loops) <= ServerStarts

(* After a lasting stop every queue loop ends, those of overlapping starts *)
(* that _server_task no longer holds included.                             *)
ServerLoopsEnd == <>[]~running => <>[](\A i \in DOMAIN loops : loops[i] = "ended")

=============================================================================
