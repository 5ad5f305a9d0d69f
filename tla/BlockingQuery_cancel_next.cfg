\* cancel() from another thread during next().
CONSTANTS
  c1 = c1
  c2 = c2
  Modes <- Eager
  Cancellers <- OneThread
  MaxRows = 1
SPECIFICATION Spec
PROPERTIES
  CancelIsNoInternalError
CHECK_DEADLOCK FALSE
