\* A token set while the query is answered.
CONSTANTS
  c1 = c1
  c2 = c2
  Modes <- Background
  Cancellers <- NoThread
  MaxRows = 1
SPECIFICATION Spec
PROPERTIES
  TokenSeenByFuture
CHECK_DEADLOCK FALSE
