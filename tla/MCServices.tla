------------------------------ MODULE MCServices ------------------------------
(* The asyncio programs of the Python package, for TLC: the trading         *)
(* orchestrator, and of the AI package the inference server, its batch      *)
(* engine, the A/B tests, the consumer of training data, and the queue of   *)
(* training jobs.  They share no state, so each behaviour is about the one  *)
(* that part names, and the others keep their initial state.                *)
EXTENDS Orchestrator, ModelServer, BatchInference, ABTesting, TrainingConsumer, GPUJobQueue, TLC

CONSTANTS v1, v2, r1, r2, r3, btc, testX, testY, j1, j2, j3, g1

VARIABLE part

servicesVars == <<part, vars, modelServerVars, batchVars, abVars, consumerVars, queueVars>>

OneGroup == [r \in {r1, r2, r3} |-> btc]
TwoTests == <<testX, testY>>
ThreeJobs == <<j1, j2, j3>>
JobPriority == (j1 :> 1) @@ (j2 :> 2) @@ (j3 :> 2)
JobMemory == (j1 :> 1) @@ (j2 :> 2) @@ (j3 :> 1)
OneGpu == <<g1>>

ServicesInit ==
  /\ part \in {"orchestrator", "server", "batch", "tests", "consumer", "gpus"}
  /\ Init /\ ServerInit /\ BatchInit /\ ABInit /\ ConsumerInit /\ QueueInit

ServicesNext ==
  /\ \/ /\ part = "orchestrator" /\ Next
        /\ UNCHANGED <<modelServerVars, batchVars, abVars, consumerVars, queueVars>>
     \/ /\ part = "server" /\ ServerNext
        /\ UNCHANGED <<vars, batchVars, abVars, consumerVars, queueVars>>
     \/ /\ part = "batch" /\ BatchNext
        /\ UNCHANGED <<vars, modelServerVars, abVars, consumerVars, queueVars>>
     \/ /\ part = "tests" /\ ABNext
        /\ UNCHANGED <<vars, modelServerVars, batchVars, consumerVars, queueVars>>
     \/ /\ part = "consumer" /\ ConsumerNext
        /\ UNCHANGED <<vars, modelServerVars, batchVars, abVars, queueVars>>
     \/ /\ part = "gpus" /\ QueueNext
        /\ UNCHANGED <<vars, modelServerVars, batchVars, abVars, consumerVars>>
  /\ UNCHANGED part

(* The fairness of each part, as its own module states it. *)
ServicesSpec ==
  /\ ServicesInit /\ [][ServicesNext]_servicesVars
  /\ WF_vars(part = "orchestrator" /\ StopStep)
  /\ \A l \in Loops : WF_vars(part = "orchestrator" /\ LoopStep(l))
  /\ \A k \in Controllers :
       WF_modelServerVars(part = "server" /\ (ServerConnected(k) \/ ServerStopped(k)))
  /\ \A i \in 1..ServerStarts : WF_modelServerVars(part = "server" /\ Loop(i))
  /\ \A i \in 1..BatchStarts : WF_batchVars(part = "batch" /\ BatchLoop(i))
  /\ WF_batchVars(part = "batch" /\ ProcessBatch)
  /\ WF_abVars(part = "tests" /\ PeriodicCheck)
  /\ WF_consumerVars(part = "consumer" /\ FlushLoopWakes)
  /\ WF_consumerVars(part = "consumer" /\ LoopCallbackReturns)
  /\ WF_consumerVars(part = "consumer" /\ ForcedFlush)
  /\ WF_consumerVars(part = "consumer" /\ ForcedCallbackReturns)
  /\ WF_consumerVars(part = "consumer" /\ Stopping)
  /\ WF_consumerVars(part = "consumer" /\ FlushLoopEnds)
  /\ WF_consumerVars(part = "consumer" /\ ConsumeLoopEnds)

(* Every part of every service is in range. *)
ServicesTypeOK ==
  TypeOK /\ ServerTypeOK /\ BatchTypeOK /\ ABTypeOK /\ ConsumerTypeOK /\ QueueTypeOK

=============================================================================
