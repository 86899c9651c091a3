\* A request for one model, two models of two versions, one administrator.
CONSTANTS
  Models = {m1, m2}
  Callers = {d1}
  Admins = {a1}
  ModelVersions = {w1, w2}
  MaxConcurrent = 1
  MaxRecords = 2
  Requested = {m1}
  Preloaded = {FALSE}
  NoPrediction = NoPrediction
  Neutral = Neutral
  NoRecord = 0
SPECIFICATION RoutingSpec
INVARIANT FallbacksAreDropped
CHECK_DEADLOCK FALSE
