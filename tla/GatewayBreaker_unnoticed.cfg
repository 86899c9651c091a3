\* Calls that reach no backend never open the breaker.
CONSTANTS
  Requests = {r1, r2, r3}
  Handlers = {"proxyToBackend"}
  FailureThreshold = 2
  HalfOpenMax = 3
  ResetTimeout = 2
SPECIFICATION Spec
INVARIANT OpensAfterFailures
CHECK_DEADLOCK FALSE
