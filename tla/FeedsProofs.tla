---------------------------- MODULE FeedsProofs ----------------------------
(* The two sources of market data.  That the connector stays in range and   *)
(* owns its sockets, for any number of connections and streams: the two are *)
(* proved together, as a socket is opened only where none is held, which    *)
(* rests on where the loop is; and a shutdown leaves no loop in its read    *)
(* that it could name.  And that the collector ends up with the right       *)
(* status, for any number of starts and stops.                              *)
EXTENDS Connector, Collector, TLAPS

ConnectorIInv == ConnectorTypeOK /\ SocketsAreOwned

(* Disconnect leaves a connection without socket, and counts it.  *)
LEMMA DisconnectOwns ==
  ASSUME ConnectorIInv, NEW c \in Conns, Disconnect(c)
  PROVE  /\ held' \in [Conns -> BOOLEAN]
         /\ sockets' \in [Conns -> Nat]
         /\ status' \in [Conns -> {"connected", "disconnected", "reconnecting"}]
         /\ \A d \in Conns : /\ sockets'[d] = IF held'[d] THEN 1 ELSE 0
                             /\ held'[d] => held[d] /\ d # c
                             /\ status'[d] = "connected" => held'[d]
BY DEF Disconnect, ConnectorIInv, ConnectorTypeOK, SocketsAreOwned

LEMMA ConnectorInitInv == ConnectorInit => ConnectorIInv
<1> SUFFICES ASSUME ConnectorInit PROVE ConnectorIInv
    OBVIOUS
<1>1. ConnectorTypeOK
  BY DEF ConnectorInit, ConnectorTypeOK, LoopPlaces
<1>2. SocketsAreOwned
  BY DEF ConnectorInit, SocketsAreOwned
<1> QED BY <1>1, <1>2 DEF ConnectorIInv

LEMMA RegisteredType == Registered \subseteq Conns
BY DEF Registered

LEMMA ConnectorStepInv == ConnectorIInv /\ [ConnectorNext]_connectorVars => ConnectorIInv'
<1> SUFFICES ASSUME ConnectorIInv, [ConnectorNext]_connectorVars
             PROVE  ConnectorIInv'
    OBVIOUS
<1> USE DEF ConnectorIInv
<1>1. ASSUME NEW c \in Conns, NEW s \in Streams, ConnectExchange(c, s)
      PROVE  ConnectorIInv'
  BY <1>1 DEF ConnectExchange, ConnectorTypeOK, SocketsAreOwned, connectionVars, LoopPlaces
<1>2. ASSUME NEW c \in Conns, LoopTop(c)
      PROVE  ConnectorIInv'
  <2>1. CASE cancelled
    BY <1>2, <2>1, DisconnectOwns DEF LoopTop, ConnectorTypeOK, SocketsAreOwned, serviceVars, LoopPlaces
  <2>2. CASE ~cancelled
    BY <1>2, <2>2 DEF LoopTop, ConnectorTypeOK, SocketsAreOwned, serviceVars, LoopPlaces
  <2> QED BY <2>1, <2>2
<1>3. ASSUME NEW c \in Conns, Connects(c)
      PROVE  ConnectorIInv'
  BY <1>3 DEF Connects, ConnectorTypeOK, SocketsAreOwned, serviceVars, LoopPlaces
<1>4. ASSUME NEW c \in Conns, ConnectFails(c)
      PROVE  ConnectorIInv'
  BY <1>4 DEF ConnectFails, ConnectorTypeOK, SocketsAreOwned, serviceVars, LoopPlaces
<1>5. ASSUME NEW c \in Conns, ReadLoopTop(c)
      PROVE  ConnectorIInv'
  <2>1. CASE cancelled
    BY <1>5, <2>1, DisconnectOwns
    DEF ReadLoopTop, ConnectorTypeOK, SocketsAreOwned, serviceVars, LoopPlaces
  <2>2. CASE ~cancelled
    BY <1>5, <2>2
    DEF ReadLoopTop, ConnectorTypeOK, SocketsAreOwned, serviceVars, connectionVars, LoopPlaces
  <2> QED BY <2>1, <2>2
<1>6. ASSUME NEW c \in Conns, Receives(c)
      PROVE  ConnectorIInv'
  BY <1>6 DEF Receives, ConnectorTypeOK, SocketsAreOwned, serviceVars, connectionVars, LoopPlaces
<1>7. ASSUME NEW c \in Conns, ReadFails(c)
      PROVE  ConnectorIInv'
  BY <1>7, DisconnectOwns DEF ReadFails, ConnectorTypeOK, SocketsAreOwned, serviceVars, LoopPlaces
<1>8. ASSUME NEW c \in Conns, BackoffEnds(c)
      PROVE  ConnectorIInv'
  BY <1>8 DEF BackoffEnds, ConnectorTypeOK, SocketsAreOwned, serviceVars, connectionVars, LoopPlaces
<1>9. ASSUME NEW c \in Conns, DisconnectsNext(c)
      PROVE  ConnectorIInv'
  <2>1. entry' \in [Streams -> Conns \cup {NoConn}]
    BY <1>9 DEF DisconnectsNext, Without, ConnectorTypeOK
  <2> QED BY <1>9, <2>1, DisconnectOwns DEF DisconnectsNext, ConnectorTypeOK, SocketsAreOwned
<1>10. ASSUME DisconnectExchange \/ Cancel \/ Shutdown \/ Releases
       PROVE  ConnectorIInv'
  BY <1>10, RegisteredType
  DEF DisconnectExchange, Cancel, Shutdown, Releases, ConnectorTypeOK, SocketsAreOwned,
      connectionVars, serviceVars
<1>11. CASE UNCHANGED connectorVars
  BY <1>11 DEF connectorVars, ConnectorTypeOK, SocketsAreOwned
<1> QED
  BY <1>1, <1>2, <1>3, <1>4, <1>5, <1>6, <1>7, <1>8, <1>9, <1>10, <1>11
  DEF ConnectorNext, LoopRuns

(* The connector's state is always in range. *)
THEOREM ConnectorTypeCorrect == ConnectorSpec => []ConnectorTypeOK
<1>1. ConnectorIInv => ConnectorTypeOK
  BY DEF ConnectorIInv
<1> QED BY ConnectorInitInv, ConnectorStepInv, <1>1, PTL DEF ConnectorSpec

(* However connections are made, overwritten, disconnected and shut down    *)
(* while their loops dial, read and wait, every open socket is the one its  *)
(* connection names, and an idle loop holds none.                           *)
THEOREM ConnectorOwnsSockets == ConnectorSpec => []SocketsAreOwned
<1>1. ConnectorIInv => SocketsAreOwned
  BY DEF ConnectorIInv
<1> QED BY ConnectorInitInv, ConnectorStepInv, <1>1, PTL DEF ConnectorSpec

(* What leads to the end of a shutdown: before the context is done, every    *)
(* loop is in the map or has left it; from then on nobody begins to read,   *)
(* so whoever does is in the map, or has left it; and once the shutdown has *)
(* looked there, it is among those it has still to disconnect.              *)
Reads(c) == loop[c] = "reading" /\ held[c]

ShutdownInv ==
  /\ mutex = "free" => todo = {}
  /\ mutex = "shutdown" \/ producer = "closed" => cancelled
  /\ ~cancelled => \A c \in Conns : loop[c] # "none" => c \in Registered \cup forgotten
  /\ cancelled => \A c \in Conns : Reads(c) => c \in Registered \cup forgotten
  /\ mutex = "shutdown" => \A c \in Conns : Reads(c) => c \in todo \cup forgotten
  /\ ShutdownLeavesNoReader

(* A step that keeps the map and what left it, and has no loop begin to     *)
(* read once the context is done.                                           *)
LEMMA LoopKeepsShutdown ==
  ASSUME ShutdownInv, UNCHANGED <<entry, forgotten, mutex, todo, producer, cancelled>>,
         \A c \in Conns : loop[c] = "none" => loop'[c] = "none",
         cancelled => \A c \in Conns : Reads(c)' => Reads(c)
  PROVE  ShutdownInv'
<1>1. Registered' = Registered
  BY DEF Registered
<1> QED BY <1>1 DEF ShutdownInv, ShutdownLeavesNoReader, Reads

LEMMA ShutdownStepInv ==
  ASSUME ConnectorIInv, ShutdownInv, [ConnectorNext]_connectorVars
  PROVE  ShutdownInv'
<1> USE DEF ConnectorIInv
<1>1. ASSUME NEW c \in Conns, NEW s \in Streams, ConnectExchange(c, s)
      PROVE  ShutdownInv'
  <2>1. \A d \in Conns \ {c} : loop'[d] = loop[d] /\ (Reads(d)' <=> Reads(d))
    BY <1>1 DEF ConnectExchange, ConnectorTypeOK, connectionVars, Reads
  <2>2. c \in Registered' /\ loop'[c] = "top" /\ ~Reads(c)'
    BY <1>1 DEF ConnectExchange, ConnectorTypeOK, Registered, Reads
  <2>3. \A d \in Conns : d \in Registered \cup forgotten => d \in Registered' \cup forgotten'
    <3> SUFFICES ASSUME NEW d \in Conns, d \in Registered, d \notin forgotten'
                 PROVE  d \in Registered'
      BY <1>1 DEF ConnectExchange
    <3>1. PICK r \in Streams : entry[r] = d
      BY DEF Registered
    <3>2. r # s
      BY <1>1, <3>1, ConnectorAssumption DEF ConnectExchange
    <3>3. entry'[r] = d
      BY <1>1, <3>1, <3>2 DEF ConnectExchange, ConnectorTypeOK
    <3> QED BY <3>3 DEF Registered
  <2> QED BY <1>1, <2>1, <2>2, <2>3
          DEF ConnectExchange, ShutdownInv, ShutdownLeavesNoReader, Reads
<1>2. ASSUME NEW c \in Conns, LoopRuns(c) \/ Receives(c) \/ ReadFails(c)
      PROVE  ShutdownInv'
  <2>1. UNCHANGED <<entry, forgotten, mutex, todo, producer, cancelled>>
    BY <1>2 DEF LoopRuns, LoopTop, ReadLoopTop, BackoffEnds, Connects, ConnectFails, Receives,
                ReadFails, serviceVars
  <2>2. /\ loop[c] # "none" /\ loop' = [loop EXCEPT ![c] = loop'[c]]
        /\ cancelled => loop'[c] # "reading"
    BY <1>2 DEF LoopRuns, LoopTop, ReadLoopTop, BackoffEnds, Connects, ConnectFails, Receives,
                ReadFails, ConnectorTypeOK
  <2>3. \A d \in Conns \ {c} : held'[d] = held[d]
    BY <1>2 DEF LoopRuns, LoopTop, ReadLoopTop, BackoffEnds, Connects, ConnectFails, Receives,
                ReadFails, Disconnect, connectionVars, ConnectorTypeOK
  <2> QED BY <2>1, <2>2, <2>3, LoopKeepsShutdown DEF ConnectorTypeOK, Reads
<1>3. ASSUME NEW c \in Conns, DisconnectsNext(c)
      PROVE  ShutdownInv'
  <2>1. /\ c \in todo /\ loop' = loop /\ cancelled' = cancelled /\ mutex' = mutex
        /\ producer' = producer /\ todo' = todo \ {c} /\ ~Reads(c)'
        /\ \A d \in Conns \ {c} : Reads(d)' <=> Reads(d)
        /\ forgotten' = IF mutex = "disconnect" THEN forgotten \cup {c} ELSE forgotten
    BY <1>3 DEF DisconnectsNext, Disconnect, ConnectorTypeOK, Reads
  <2>2. mutex \in {"disconnect", "shutdown"}
    BY <2>1 DEF ConnectorTypeOK, ShutdownInv
  <2>3. \A d \in Conns \ {c} : d \in Registered => d \in Registered'
    <3> SUFFICES ASSUME NEW d \in Conns \ {c}, d \in Registered PROVE d \in Registered'
      OBVIOUS
    <3>1. PICK r \in Streams : entry[r] = d
      BY DEF Registered
    <3>2. entry'[r] = d
      BY <1>3, <3>1 DEF DisconnectsNext, Without
    <3> QED BY <3>2 DEF Registered
  <2>4. mutex = "disconnect" => c \in forgotten'
    BY <2>1
  <2>5. ShutdownLeavesNoReader'
    BY <2>1 DEF ShutdownInv, ShutdownLeavesNoReader, Reads
  <2>6. \A d \in Conns : Reads(d)' => d # c /\ Reads(d)
    BY <2>1
  <2>7. forgotten \subseteq forgotten'
    BY <2>1
  <2> HIDE DEF ConnectorIInv
  <2> QED BY <2>1, <2>2, <2>3, <2>4, <2>5, <2>6, <2>7 DEF ShutdownInv
<1>4. ASSUME DisconnectExchange \/ Cancel \/ Shutdown \/ Releases \/ UNCHANGED connectorVars
      PROVE  ShutdownInv'
  <2>1. /\ loop' = loop /\ entry' = entry /\ forgotten' = forgotten /\ held' = held
    BY <1>4 DEF DisconnectExchange, Cancel, Shutdown, Releases, connectorVars, connectionVars,
                serviceVars
  <2>2. Registered' = Registered /\ \A c \in Conns : Reads(c)' <=> Reads(c)
    BY <2>1 DEF Registered, Reads
  <2>3. \A c \in Conns : Reads(c) => loop[c] # "none"
    BY DEF Reads
  <2>4. CASE DisconnectExchange
    BY <2>1, <2>2, <2>4 DEF DisconnectExchange, ShutdownInv, ShutdownLeavesNoReader, Reads
  <2>5. CASE Cancel
    BY <2>1, <2>2, <2>3, <2>5 DEF Cancel, serviceVars, ShutdownInv, ShutdownLeavesNoReader, Reads
  <2>6. CASE Shutdown
    BY <2>1, <2>2, <2>6 DEF Shutdown, ShutdownInv, ShutdownLeavesNoReader, Reads
  <2>7. CASE Releases
    BY <2>1, <2>2, <2>7
    DEF Releases, ShutdownInv, ShutdownLeavesNoReader, Reads, ConnectorTypeOK
  <2>8. CASE UNCHANGED connectorVars
    BY <2>2, <2>8 DEF connectorVars, ShutdownInv, ShutdownLeavesNoReader, Reads
  <2> QED BY <1>4, <2>4, <2>5, <2>6, <2>7, <2>8
<1> QED BY <1>1, <1>2, <1>3, <1>4 DEF ConnectorNext

(* When a shutdown is through, only connections that had left the map before *)
(* can still wait for a silent socket.                                      *)
THEOREM ShutdownIsThorough == ConnectorSpec => []ShutdownLeavesNoReader
<1>1. ConnectorInit => ShutdownInv
  BY DEF ConnectorInit, ShutdownInv, ShutdownLeavesNoReader, Registered, Reads
<1>2. ConnectorIInv /\ ConnectorIInv' /\ ShutdownInv /\ [ConnectorNext]_connectorVars
        => ShutdownInv'
  BY ShutdownStepInv
<1>3. ShutdownInv => ShutdownLeavesNoReader
  BY DEF ShutdownInv
<1> QED BY ConnectorInitInv, ConnectorStepInv, <1>1, <1>2, <1>3, PTL DEF ConnectorSpec

----------------------------------------------------------------------------
(* Whoever wrote a status other than Disconnected is still there to write   *)
(* that one, and whoever has ended has only that one to send; a loop that   *)
(* used up its attempts is on its way out.                                  *)
Live(i) == at[i] \notin {"none", "ended"}

StatusInv ==
  /\ \A i \in Runs : at[i] = "none" => unsent[i] = Nothing
  /\ \A i \in Runs : at[i] = "ended" => unsent[i] \in {Nothing, "Disconnected"}
  /\ connection # "Disconnected" => \E i \in Runs : Live(i)
  /\ Spawned # {} /\ announced # "Disconnected" =>
       \E i \in Runs : Live(i) \/ unsent[i] = "Disconnected"
  /\ \A i \in Runs : at[i] \in {"leaving", "ended"} \/ attempts[i] < MaxAttempts

CollectorIInv == CollectorTypeOK /\ StatusInv

(* What a step of a loop other than the last may do to it. *)
Lives(i) ==
  /\ Live(i) /\ unsent[i] = Nothing
  /\ \E place \in Places \ {"none", "ended"} : at' = [at EXCEPT ![i] = place]
  /\ \/ UNCHANGED <<unsent, connection>>
     \/ \E s \in ConnectionStatus : unsent' = [unsent EXCEPT ![i] = s] /\ connection' = s
  /\ attempts' \in [Runs -> 0..MaxAttempts]
  /\ at'[i] = "leaving" \/ attempts'[i] < MaxAttempts
  /\ \A j \in Runs \ {i} : attempts'[j] = attempts[j]
  /\ UNCHANGED <<shutdown, token, revoked, announced, callerVars>>

LEMMA LivesInv ==
  ASSUME CollectorIInv, NEW i \in Runs, Lives(i)
  PROVE  CollectorIInv'
<1>1. /\ Live(i)' /\ \A j \in Runs \ {i} : /\ at'[j] = at[j] /\ unsent'[j] = unsent[j]
                                         /\ attempts'[j] = attempts[j]
      /\ announced' = announced
      /\ at'[i] = "leaving" \/ attempts'[i] < MaxAttempts
  BY DEF Lives, Live, CollectorIInv, CollectorTypeOK
<1>2. CollectorTypeOK'
  <2>1. at' \in [Runs -> Places]
    BY DEF Lives, CollectorIInv, CollectorTypeOK
  <2>2. unsent' \in [Runs -> ConnectionStatus \cup {Nothing}] /\ connection' \in ConnectionStatus
    BY DEF Lives, CollectorIInv, CollectorTypeOK
  <2> QED BY <2>1, <2>2 DEF Lives, CollectorIInv, CollectorTypeOK, callerVars
<1>3. StatusInv'
  BY <1>1, <1>2 DEF CollectorIInv, StatusInv, Live
<1> QED BY <1>2, <1>3 DEF CollectorIInv

(* Which of the loop's steps those are. *)
LEMMA LoopStepsLive ==
  ASSUME CollectorIInv, NEW i \in Runs,
         Exchanges(i) \/ Top(i) \/ Reconnecting(i) \/ ReadCancelled(i) \/ Check(i) \/ Backoff(i)
  PROVE  Lives(i)
<1>1. /\ attempts \in [Runs -> 0..MaxAttempts] /\ MaxAttempts \in Nat \ {0}
      /\ at[i] \in {"leaving", "ended"} \/ attempts[i] < MaxAttempts
      /\ at \in [Runs -> Places]
  BY CollectorAssumption DEF CollectorIInv, CollectorTypeOK, StatusInv
<1>2. CASE Top(i) \/ Reconnecting(i) \/ Subscribed(i)
  BY <1>1, <1>2
  DEF Top, Reconnecting, Subscribed, Ready, Goes, Writes, OthersUnchanged, Lives, Live, Places,
      ConnectionStatus
<1>3. CASE Connected(i) \/ ConnectError(i)
  BY <1>1, <1>3
  DEF Connected, ConnectError, Ready, Writes, OthersUnchanged, Lives, Live, Places,
      ConnectionStatus
<1>4. CASE Message(i) \/ StreamEnds(i) \/ ReadCancelled(i)
  BY <1>1, <1>4
  DEF Message, StreamEnds, ReadCancelled, Ready, Goes, OthersUnchanged, Lives, Live, Places
<1>5. CASE Check(i)
  <2>1. CASE attempts' = attempts
    BY <1>1, <1>5, <2>1 DEF Check, Ready, Goes, OthersUnchanged, Lives, Live, Places
  <2>2. CASE attempts' = [attempts EXCEPT ![i] = @ + 1]
    <3>1. ~ToldToEnd(i) /\ attempts'[i] = attempts[i] + 1
      BY <1>1, <1>5, <2>1, <2>2 DEF Check
    <3> QED BY <1>1, <1>5, <2>2, <3>1 DEF Check, Ready, Goes, OthersUnchanged, Lives, Live, Places
  <2> QED BY <1>5, <2>1, <2>2 DEF Check
<1>6. CASE Backoff(i)
  BY <1>1, <1>6 DEF Backoff, Ready, Goes, OthersUnchanged, Lives, Live, Places
<1> QED BY <1>2, <1>3, <1>4, <1>5, <1>6 DEF Exchanges

LEMMA SendsInv ==
  ASSUME CollectorIInv, NEW i \in Runs, Sends(i)
  PROVE  CollectorIInv'
<1>1. CollectorTypeOK'
  BY DEF Sends, CollectorIInv, CollectorTypeOK, callerVars
<1>2. StatusInv'
  <2>1. unsent[i] = "Disconnected" \/ Live(i)
    BY DEF Sends, CollectorIInv, StatusInv, Live
  <2>2. /\ at' = at /\ connection' = connection /\ announced' = unsent[i]
        /\ attempts' = attempts
        /\ unsent' = [unsent EXCEPT ![i] = Nothing] /\ unsent \in [Runs -> ConnectionStatus \cup {Nothing}]
    BY DEF Sends, CollectorIInv, CollectorTypeOK
  <2> QED BY <2>1, <2>2 DEF CollectorIInv, StatusInv, Live
<1> QED BY <1>1, <1>2 DEF CollectorIInv

LEMMA LeavesInv ==
  ASSUME CollectorIInv, NEW i \in Runs, Leaves(i)
  PROVE  CollectorIInv'
<1>1. CollectorTypeOK'
  BY DEF Leaves, Ready, Writes, OthersUnchanged, CollectorIInv, CollectorTypeOK, callerVars,
         ConnectionStatus, Places
<1>2. /\ connection' = "Disconnected" /\ unsent'[i] = "Disconnected" /\ at'[i] = "ended"
      /\ attempts' = attempts
      /\ \A j \in Runs \ {i} : at'[j] = at[j] /\ unsent'[j] = unsent[j]
  BY DEF Leaves, Ready, Writes, CollectorIInv, CollectorTypeOK
<1>3. StatusInv'
  BY <1>2 DEF CollectorIInv, StatusInv, Live
<1> QED BY <1>1, <1>3 DEF CollectorIInv

LEMMA SpawnInv ==
  ASSUME CollectorIInv, NEW i \in Runs, Spawn(i)
  PROVE  CollectorIInv'
<1>1. CollectorTypeOK'
  <2>1. token' \in 0..Starts
    BY CollectorAssumption DEF Spawn, Runs
  <2>2. at' \in [Runs -> Places]
    BY DEF Spawn, CollectorIInv, CollectorTypeOK, Places
  <2> QED BY <2>1, <2>2 DEF Spawn, CollectorIInv, CollectorTypeOK
<1>2. /\ Live(i)' /\ unsent' = unsent /\ connection' = connection
      /\ \A j \in Runs \ {i} : at'[j] = at[j]
  BY DEF Spawn, CollectorIInv, CollectorTypeOK, Live
<1>3. StatusInv'
  BY <1>2 DEF CollectorIInv, StatusInv, Live, Spawn
<1> QED BY <1>1, <1>3 DEF CollectorIInv

LEMMA CallersInv ==
  ASSUME CollectorIInv, Start \/ Stop \/ StopCancels \/ StopReports
  PROVE  CollectorIInv'
<1>0. UNCHANGED loopVars
  BY DEF Start, Stop, StopCancels, StopReports
<1>1. CollectorTypeOK'
  <2>1. CASE Start
    BY <2>1 DEF Start, loopVars, CollectorIInv, CollectorTypeOK
  <2>2. CASE Stop
    BY <2>2, CollectorAssumption DEF Stop, loopVars, CollectorIInv, CollectorTypeOK
  <2>3. CASE StopCancels
    BY <2>3 DEF StopCancels, loopVars, CollectorIInv, CollectorTypeOK, Runs
  <2>4. CASE StopReports
    BY <2>4 DEF StopReports, loopVars, CollectorIInv, CollectorTypeOK, ConnectionStatus
  <2> QED BY <2>1, <2>2, <2>3, <2>4
<1>2. \/ UNCHANGED <<connection, announced>>
      \/ connection' = "Disconnected" /\ announced' = "Disconnected"
  BY DEF Start, Stop, StopCancels, StopReports
<1>3. StatusInv'
  BY <1>0, <1>2 DEF CollectorIInv, StatusInv, Live, Spawned, loopVars
<1> QED BY <1>1, <1>3 DEF CollectorIInv

LEMMA CollectorStepInv == CollectorIInv /\ [CollectorNext]_collectorVars => CollectorIInv'
<1> SUFFICES ASSUME CollectorIInv, [CollectorNext]_collectorVars PROVE CollectorIInv'
  OBVIOUS
<1>1. CASE UNCHANGED collectorVars
  BY <1>1 DEF collectorVars, callerVars, loopVars, CollectorIInv, CollectorTypeOK, StatusInv, Live, Spawned
<1>2. ASSUME NEW i \in Runs, RunsOn(i) \/ Exchanges(i) PROVE CollectorIInv'
  BY <1>2, SendsInv, LeavesInv, LoopStepsLive, LivesInv DEF RunsOn
<1> QED BY <1>1, <1>2, CallersInv, SpawnInv DEF CollectorNext

LEMMA CollectorInitInv == CollectorInit => CollectorIInv
<1> SUFFICES ASSUME CollectorInit PROVE CollectorIInv
  OBVIOUS
<1>1. CollectorTypeOK
  <2>1. 0 \in 0..Starts /\ 0 \in 0..MaxAttempts /\ 0 \in 0..Stops
    BY CollectorAssumption
  <2> QED BY <2>1 DEF CollectorInit, CollectorTypeOK, ConnectionStatus, Places
<1>2. StatusInv
  BY CollectorAssumption DEF CollectorInit, StatusInv, Spawned, Nothing
<1> QED BY <1>1, <1>2 DEF CollectorIInv

(* The collector's state is always in range. *)
THEOREM CollectorTypeCorrect == CollectorSpec => []CollectorTypeOK
<1>1. CollectorIInv => CollectorTypeOK
  BY DEF CollectorIInv
<1> QED BY CollectorInitInv, CollectorStepInv, <1>1, PTL DEF CollectorSpec

(* In whatever order the loops of successive starts, and stop, wrote and    *)
(* sent their statuses: once all have ended, the status and the last event  *)
(* are Disconnected.                                                        *)
THEOREM CollectorEndsDisconnected == CollectorSpec => []EndedIsDisconnected
<1>1. CollectorIInv => EndedIsDisconnected
  BY DEF CollectorIInv, StatusInv, EndedIsDisconnected, Live, Spawned, Nothing
<1> QED BY CollectorInitInv, CollectorStepInv, <1>1, PTL DEF CollectorSpec

============================================================================
