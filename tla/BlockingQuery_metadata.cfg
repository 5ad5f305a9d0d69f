\* metadata() of a query cancelled in the background.
CONSTANTS
  c1 = c1
  c2 = c2
  Modes <- Background
  Cancellers <- NoThread
  MaxRows = 1
SPECIFICATION Spec
INVARIANTS
  MetadataOrRuntimeError
CHECK_DEADLOCK FALSE
