\* An offset is committed while what is below it is still in the buffer.
CONSTANTS
  LogEnd = 4
  Invalid = {2}
  MaxBuffer = 2
  Backpressure = 2
  CommitEvery = 2
  Sessions = 2
SPECIFICATION ConsumerSpec
INVARIANT CommittedIsProcessed
CHECK_DEADLOCK FALSE
