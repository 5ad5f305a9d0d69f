\* Every mode, two other threads that cancel, answers of 0 to 2 rows.
CONSTANTS
  c1 = c1
  c2 = c2
  Modes <- AllModes
  Cancellers <- TwoThreads
  MaxRows = 2
SPECIFICATION FairSpec
INVARIANTS
  TypeOK
  LiveIteration
  FutureIsUsable
  NoRowLost
  ExecutedOnce
PROPERTIES
  CancelSticks
  ImplementsQueryStream
  CallsReturn
  CancelledFutureResolves
CHECK_DEADLOCK FALSE
