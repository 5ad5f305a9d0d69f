\* As many ways to hang as two threads and three queries have.
CONSTANTS
  w1 = w1
  w2 = w2
  q1 = q1
  q2 = q2
  q3 = q3
  Workers <- TwoWorkers
  Queries <- ThreeQueries
SPECIFICATION FairSpec
INVARIANTS
  TypeOK
  OnlyNestingBlocks
  FewQueriesMoveOn
  NoOrphanWhileOpen
  CloseLeavesNothing
PROPERTIES
  FuturesResolve
CHECK_DEADLOCK FALSE
