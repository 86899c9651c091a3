------------------------------ MODULE MCNetwork ------------------------------
(* The parts that talk to other machines, for TLC: the circuit breaker the  *)
(* gateway keeps for a backend, and the two sources of market data, the     *)
(* connector in Go and the collector in Rust.  They share no state: a       *)
(* behaviour is about the one part names, and the others keep their initial *)
(* state.                                                                   *)
EXTENDS GatewayBreaker, Connector, Collector

VARIABLE part

networkVars == <<part, vars, connectorVars, collectorVars>>

NetworkInit ==
  /\ part \in {"breaker", "connector", "collector"}
  /\ Init /\ ConnectorInit /\ CollectorInit
  /\ part # "breaker" => healthy /\ handler = "proxyToBackend"

NetworkNext ==
  /\ \/ part = "breaker" /\ Next /\ UNCHANGED <<connectorVars, collectorVars>>
     \/ part = "connector" /\ ConnectorNext /\ UNCHANGED <<vars, collectorVars>>
     \/ part = "collector" /\ CollectorNext /\ UNCHANGED <<vars, connectorVars>>
  /\ UNCHANGED part

(* The fairness of each part, as its own module states it. *)
NetworkSpec ==
  /\ NetworkInit /\ [][NetworkNext]_networkVars
  /\ WF_vars(part = "breaker" /\ Tick)
  /\ \A r \in Requests : /\ WF_vars(part = "breaker" /\ Forward(r))
                         /\ WF_vars(part = "breaker" /\ Finish(r))
  /\ \A c \in Conns : /\ WF_connectorVars(part = "connector" /\ LoopRuns(c))
                      /\ WF_connectorVars(part = "connector" /\ DisconnectsNext(c))
  /\ SF_connectorVars(part = "connector" /\ Shutdown)
  /\ WF_connectorVars(part = "connector" /\ Releases)
  /\ \A i \in Runs : WF_collectorVars(part = "collector" /\ RunsOn(i))

=============================================================================
