\* Three loops of the orchestrator, so that two can be orphaned; three
\* overlapping starts and stops of the server by two callers; three requests in
\* batches of two; two A/B tests; four messages, one of them invalid, in two
\* sessions of the consumer; three jobs of two priorities and two sizes on one
\* device.
CONSTANTS
  v1 = v1
  v2 = v2
  r1 = r1
  r2 = r2
  r3 = r3
  btc = btc
  testX = testX
  testY = testY
  j1 = j1
  j2 = j2
  j3 = j3
  g1 = g1
  NumStrategies = 2
  DegradationEnabled = TRUE
  MaxStarts = 3
  Controllers = {k1, k2}
  ServerVersions = {v1, v2}
  ServerFirst = v1
  Priorities = {1, 2}
  MaxQueue = 2
  MaxDequeue = 1
  ServerStarts = 3
  Items = {r1, r2, r3}
  GroupOf <- OneGroup
  FeaturedItems = {r2, r3}
  BatchSize = 2
  BatchStarts = 2
  Unanswered = Unanswered
  Failed = Failed
  Zero = Zero
  Order <- TwoTests
  AutoPromote = {testX, testY}
  VersionNamed = {testX}
  LogEnd = 4
  Invalid = {2}
  MaxBuffer = 2
  Backpressure = 2
  CommitEvery = 2
  Sessions = 2
  Jobs <- ThreeJobs
  Priority <- JobPriority
  Needs <- JobMemory
  Gpus <- OneGpu
  Room = 2
  MaxPerGpu = 1
  NoGpu = NoGpu
SPECIFICATION ServicesSpec
INVARIANTS
  ServicesTypeOK PredictionsAligned RequestsAreHeld
  FlushedOnce StoppedLeavesNothing AssignmentsMatchJobs
PROPERTIES
  HaltedSendsNoOrder PauseTakesEffect LoopsEnd StopReturns
  ServerLoopsEnd CallersAnswered LeadIsDecided
  BufferIsFlushed ConsumerStops LeavesNoFitJob
CHECK_DEADLOCK FALSE
