SPECIFICATION FairSpec
CONSTANTS
    Callers <- MCCallers
INVARIANTS
    TypeOK
    RefsAccounted
    OnlyLoggedCloseJoinsItself
    NoUseAfterFree
    OnlyLoggingHangsDealloc
    OnlyRacedCloseHangs
    OnlyDroppedQueriesHang
    ClosedIsStopped
PROPERTIES
    CallsReturn
    UnreferencedIsFreed
CHECK_DEADLOCK FALSE
