\* Two tasks may iterate the same result; any await may be cancelled.
CONSTANTS
  t1 = t1
  t2 = t2
  Tasks <- TwoTasks
  MaxRows = 2
  MaxRequests = 3
SPECIFICATION FairSpec
INVARIANTS
  TypeOK
  ResultIsLive
  RowsInOrder
  RowsLostByCancelOnly
  RowsAccounted
PROPERTIES
  NextReturns
  CancelReachesCore
CHECK_DEADLOCK FALSE
