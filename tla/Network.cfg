\* Three overlapping requests, through either handler, to a backend that fails
\* and comes back; two connections of two streams, so that the second may be for
\* the stream of the first; two starts and two stops of the collector, whose
\* loops give up at the second failure.  Symmetry would be unsound for liveness.
CONSTANTS
  Requests = {q1, q2, q3}
  Handlers = {"proxyToBackend", "ProxyWithCircuitBreaker"}
  FailureThreshold = 2
  HalfOpenMax = 3
  ResetTimeout = 2
  Conns = {c1, c2}
  Streams = {trades, book}
  NoConn = NoConn
  Starts = 2
  Stops = 2
  MaxAttempts = 2
SPECIFICATION NetworkSpec
INVARIANTS
  OpensAfterRecordedFailures SocketsAreOwned EndedIsDisconnected ShutdownLeavesNoReader
PROPERTIES
  OpensOnlyAfterFailures Recovers
  ConnectorStops CancelledLoopsEnd
CHECK_DEADLOCK FALSE
