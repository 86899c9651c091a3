----------------------------- MODULE Connector -----------------------------
(* The exchange connector (src/go/cmd/connector/main.go): one WSConnection  *)
(* object and one connectionLoop goroutine per ConnectExchange and stream,  *)
(* the map of connections under the service's mutex, and the HTTP handlers  *)
(* and the signal handler that disconnect and shut down while loops dial,   *)
(* read and wait.                                                           *)
(*                                                                          *)
(* A section under conn.mu is one step, but for Connect, which holds it for *)
(* the whole handshake: a connection whose loop is dialing is locked.  s.mu *)
(* is held over several steps by DisconnectExchange and Shutdown, which     *)
(* close one connection after the other.  The lengths of the waits, and     *)
(* what the messages say, are left out.                                     *)
EXTENDS Naturals

CONSTANTS Streams,    \* the keys "exchange:stream" of one exchange
          Conns,      \* the WSConnection objects that may be created
          NoConn

ASSUME ConnectorAssumption == NoConn \notin Conns

VARIABLES entry,      \* s.connections: the connection each key names
          loop,       \* where the goroutine of each connection is
          held,       \* whether w.conn is set
          sockets,    \* how many sockets each connection has opened and not closed
          status,     \* w.status
          cancelled,  \* whether s.ctx is done
          mutex,      \* the operation that holds s.mu for writing
          todo,       \* the connections it has still to disconnect
          producer,   \* whether the Kafka producer is open
          forgotten   \* history: those that left the map otherwise than by Shutdown

connectorVars ==
  <<entry, loop, held, sockets, status, cancelled, mutex, todo, producer, forgotten>>

LoopPlaces == {"none", "top", "dialing", "read", "reading", "backoff", "ended"}

ConnectorTypeOK ==
  /\ entry \in [Streams -> Conns \cup {NoConn}]
  /\ loop \in [Conns -> LoopPlaces]
  /\ held \in [Conns -> BOOLEAN]
  /\ sockets \in [Conns -> Nat]
  /\ status \in [Conns -> {"connected", "disconnected", "reconnecting"}]
  /\ cancelled \in BOOLEAN
  /\ mutex \in {"free", "disconnect", "shutdown"}
  /\ todo \in SUBSET Conns
  /\ producer \in {"open", "closed"}
  /\ forgotten \in SUBSET Conns

ConnectorInit ==
  /\ entry = [s \in Streams |-> NoConn]
  /\ loop = [c \in Conns |-> "none"]
  /\ held = [c \in Conns |-> FALSE]
  /\ sockets = [c \in Conns |-> 0]
  /\ status = [c \in Conns |-> "disconnected"]
  /\ cancelled = FALSE
  /\ mutex = "free"
  /\ todo = {}
  /\ producer = "open"
  /\ forgotten = {}

Registered == {c \in Conns : \E s \in Streams : entry[s] = c}

Without(c) == [s \in Streams |-> IF entry[s] = c THEN NoConn ELSE entry[s]]

connectionVars == <<held, sockets, status>>
serviceVars == <<entry, mutex, todo, producer, forgotten>>

(* WSConnection.Disconnect, under conn.mu: the socket is closed, if any. *)
Disconnect(c) ==
  /\ held' = [held EXCEPT ![c] = FALSE]
  /\ sockets' = [sockets EXCEPT ![c] = IF held[c] THEN @ - 1 ELSE @]
  /\ status' = [status EXCEPT ![c] = "disconnected"]

----------------------------------------------------------------------------
(* The handlers.  ConnectExchange puts a new object under the stream's key, *)
(* whatever the key named before, and starts its loop.                      *)
ConnectExchange(c, s) ==
  /\ loop[c] = "none"
  /\ mutex = "free"
  /\ entry' = [entry EXCEPT ![s] = c]
  /\ forgotten' = forgotten \cup ({entry[s]} \ {NoConn})
  /\ loop' = [loop EXCEPT ![c] = "top"]
  /\ UNCHANGED <<connectionVars, cancelled, mutex, todo, producer>>

DisconnectExchange ==
  /\ mutex = "free"
  /\ Registered # {}
  /\ mutex' = "disconnect"
  /\ todo' = Registered
  /\ UNCHANGED <<entry, loop, connectionVars, cancelled, producer, forgotten>>

(* Shutdown cancels the context before it asks for s.mu. *)
Cancel ==
  /\ ~cancelled
  /\ cancelled' = TRUE
  /\ UNCHANGED <<loop, connectionVars, serviceVars>>

Shutdown ==
  /\ cancelled
  /\ mutex = "free"
  /\ producer = "open"
  /\ mutex' = "shutdown"
  /\ todo' = Registered
  /\ UNCHANGED <<entry, loop, connectionVars, cancelled, producer, forgotten>>

(* Mutant: a connection is only deleted from the map. *)
DisconnectsNext_OnlyDeletes(c) ==
  /\ c \in todo
  /\ entry' = Without(c)
  /\ todo' = todo \ {c}
  /\ forgotten' = IF mutex = "disconnect" THEN forgotten \cup {c} ELSE forgotten
  /\ UNCHANGED <<loop, connectionVars, cancelled, mutex, producer>>

(* The next connection is disconnected and deleted from the map; the holder *)
(* of s.mu waits for a connection whose loop is in the handshake.           *)
DisconnectsNext(c) ==
  /\ c \in todo
  /\ loop[c] # "dialing"
  /\ Disconnect(c)
  /\ entry' = Without(c)
  /\ todo' = todo \ {c}
  /\ forgotten' = IF mutex = "disconnect" THEN forgotten \cup {c} ELSE forgotten
  /\ UNCHANGED <<loop, cancelled, mutex, producer>>

Releases ==
  /\ mutex # "free"
  /\ todo = {}
  /\ mutex' = "free"
  /\ producer' = IF mutex = "shutdown" THEN "closed" ELSE producer
  /\ UNCHANGED <<entry, loop, connectionVars, cancelled, todo, forgotten>>

----------------------------------------------------------------------------
(* connectionLoop and ReadLoop of one connection. *)
LoopTop(c) ==
  /\ loop[c] = "top"
  /\ IF cancelled
     THEN Disconnect(c) /\ loop' = [loop EXCEPT ![c] = "ended"]
     ELSE /\ loop' = [loop EXCEPT ![c] = "dialing"]
          /\ status' = [status EXCEPT ![c] = "reconnecting"]
          /\ UNCHANGED <<held, sockets>>
  /\ UNCHANGED <<cancelled, serviceVars>>

Connects(c) ==
  /\ loop[c] = "dialing"
  /\ held' = [held EXCEPT ![c] = TRUE]
  /\ sockets' = [sockets EXCEPT ![c] = @ + 1]
  /\ status' = [status EXCEPT ![c] = "connected"]
  /\ loop' = [loop EXCEPT ![c] = "read"]
  /\ UNCHANGED <<cancelled, serviceVars>>

ConnectFails(c) ==
  /\ loop[c] = "dialing"
  /\ status' = [status EXCEPT ![c] = "disconnected"]
  /\ loop' = [loop EXCEPT ![c] = "backoff"]
  /\ UNCHANGED <<held, sockets, cancelled, serviceVars>>

(* The head of ReadLoop: it leaves when the context is done, goes to read   *)
(* the socket it finds, and sleeps and looks again where there is none.     *)
ReadLoopTop(c) ==
  /\ loop[c] = "read"
  /\ IF cancelled
     THEN Disconnect(c) /\ loop' = [loop EXCEPT ![c] = "backoff"]
     ELSE /\ held[c]
          /\ loop' = [loop EXCEPT ![c] = "reading"]
          /\ UNCHANGED connectionVars
  /\ UNCHANGED <<cancelled, serviceVars>>

(* A message arrives and is published, or the producer refuses it. *)
Receives(c) ==
  /\ loop[c] = "reading"
  /\ held[c]
  /\ loop' = [loop EXCEPT ![c] = "read"]
  /\ UNCHANGED <<connectionVars, cancelled, serviceVars>>

(* Mutant: a ReadLoop without the deferred Disconnect. *)
ReadFails_LeavesSocket(c) ==
  /\ loop[c] = "reading"
  /\ status' = [status EXCEPT ![c] = "disconnected"]
  /\ loop' = [loop EXCEPT ![c] = "backoff"]
  /\ UNCHANGED <<held, sockets, cancelled, serviceVars>>

(* The socket fails; the deferred Disconnect closes it. *)
ReadFails(c) ==
  /\ loop[c] = "reading"
  /\ Disconnect(c)
  /\ loop' = [loop EXCEPT ![c] = "backoff"]
  /\ UNCHANGED <<cancelled, serviceVars>>

(* The select of connectionLoop: the timer, or the end of the context. *)
BackoffEnds(c) ==
  /\ loop[c] = "backoff"
  /\ \/ loop' = [loop EXCEPT ![c] = "top"]
     \/ cancelled /\ loop' = [loop EXCEPT ![c] = "ended"]
  /\ UNCHANGED <<connectionVars, cancelled, serviceVars>>

(* What a loop does without waiting for the exchange: a read of a socket    *)
(* somebody closed fails, a handshake ends within its timeout.              *)
LoopRuns(c) ==
  \/ LoopTop(c) \/ ReadLoopTop(c) \/ BackoffEnds(c)
  \/ Connects(c) \/ ConnectFails(c)
  \/ ~held[c] /\ ReadFails(c)

ConnectorNext ==
  \/ \E c \in Conns, s \in Streams : ConnectExchange(c, s)
  \/ \E c \in Conns : \/ LoopRuns(c)
                      \/ Receives(c) \/ ReadFails(c)
                      \/ DisconnectsNext(c)
  \/ DisconnectExchange \/ Cancel \/ Shutdown \/ Releases

(* Goroutines run, dials and waits are bounded by their timeouts and timers, *)
(* and the holder of s.mu goes on; nothing is assumed of the exchange, which *)
(* may say nothing for ever.                                                 *)
ConnectorFairness ==
  /\ \A c \in Conns : WF_connectorVars(LoopRuns(c)) /\ WF_connectorVars(DisconnectsNext(c))
  /\ SF_connectorVars(Shutdown)
  /\ WF_connectorVars(Releases)

ConnectorSpec == ConnectorInit /\ [][ConnectorNext]_connectorVars /\ ConnectorFairness

----------------------------------------------------------------------------
(* Every open socket is the one its connection names, a loop that is not     *)
(* reading holds none, and no connection calls itself connected without one: *)
(* failures, reconnects, disconnects by request and a shutdown in any order  *)
(* close each socket, and close it once.                                     *)
SocketsAreOwned ==
  \A c \in Conns :
    /\ sockets[c] = IF held[c] THEN 1 ELSE 0
    /\ held[c] => loop[c] \in {"read", "reading"}
    /\ status[c] = "connected" => held[c]

(* When a shutdown is through, no loop waits for a socket that is open, but  *)
(* those of connections that had left the map before: a connect that        *)
(* overlaps with it, or comes after it, does not get to its read.           *)
ShutdownLeavesNoReader ==
  producer = "closed" =>
    \A c \in Conns : loop[c] = "reading" /\ held[c] => c \in forgotten

(* Shutdown ends the loop of every connection the map still names, wherever *)
(* it finds it: in the handshake, which it waits for, between the head of   *)
(* ReadLoop and the read, in the read of a socket that is silent, asleep.   *)
(* One that was overwritten or removed before may be left in its read.      *)
ConnectorStops ==
  \A c \in Conns :
    (cancelled /\ loop[c] # "none") ~> (loop[c] = "ended" \/ c \in forgotten)

============================================================================
