\* A start while stop awaits the exchange: its loop outlives stop.
CONSTANTS
  NumStrategies = 2
  DegradationEnabled = TRUE
  MaxStarts = 2
SPECIFICATION Spec
PROPERTY StoppedSendsNoOrder
CHECK_DEADLOCK FALSE
