\* The core's answer overtakes the return of columnar_query_op.
CONSTANTS
  t1 = t1
  t2 = t2
  Tasks <- OneTask
  MaxRows = 0
  MaxRequests = 1
SPECIFICATION FairSpec
PROPERTIES
  QueryFutureResolves
CHECK_DEADLOCK FALSE
