\* Two threads, half-token arithmetic, and a clock that can be set back.
CONSTANTS
  Threads = {t1, t2}
  FP_SCALE = 2
  MaxTokens <- Capacity
  Period <- Ticks
  Start = 1
  MaxClock = 4
SPECIFICATION Spec
SYMMETRY ThreadSymmetry
INVARIANT WithinLimits
PROPERTY NothingLeaks
CHECK_DEADLOCK FALSE
