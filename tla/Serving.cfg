\* Two clients of the model server, with room for one request and one cached
\* entry; two callers of the API, two models of two versions, one administrator.
CONSTANTS
  v1 = v1
  v2 = v2
  w1 = w1
  w2 = w2
  c1 = c1
  c2 = c2
  d1 = d1
  d2 = d2
  f = f
  g = g
  Clients = {c1, c2}
  Versions = {v1, v2}
  FirstVersion = v1
  Requests <- PinnedAndLatest
  Digest <- OneDigest
  QueueSize = 1
  MaxCached = 1
  Latest = Latest
  NoFeatures = NoFeatures
  NoEntry = NoEntry
  Error = Error
  Empty = Empty
  Models = {m1, m2}
  Callers = {d1, d2}
  Admins = {a1}
  ModelVersions = {w1, w2}
  MaxConcurrent = 1
  MaxRecords = 2
  Requested = {m1}
  Preloaded = {FALSE}
  NoPrediction = NoPrediction
  Neutral = Neutral
  NoRecord = 0
SPECIFICATION ServeSpec
INVARIANTS
  AnswersOwnRequest RoutingTypeOK InvalidatedWhenChanged
SYMMETRY Symmetry
CHECK_DEADLOCK FALSE
