\* Two fits of four epochs of three batches, two to a step; three updates of
\* a model, with room for two checkpoints.
CONSTANTS
  Epochs = 4
  Batches = 3
  Accum = 2
  Patience = 2
  Losses = {0, 1, 2}
  MinDelta = 1
  Period = 1
  MaxKeep = 2
  Trainers = 2
  NaN = NaN
  NoLoss = NoLoss
  NoFile = NoFile
  Torn = Torn
  Triggers = {"periodic", "drift", "performance", "hybrid"}
  ModelLosses = {0, 1, 2}
  Threshold = 1
  Interval = 2
  Degraded = 2
  StackSize = 2
  MaxUpdates = 3
  Unmeasured = Unmeasured
  NotANumber = NotANumber
SPECIFICATION LearningSpec
INVARIANTS
  BestFileIsBest KeepsNewest NothingSkipped
PROPERTIES
  PatienceIsExact RolledBackIsRestored
CHECK_DEADLOCK FALSE
