SPECIFICATION FairSpec
CONSTANTS
    Callers <- MCOneCaller
PROPERTY CloseCleansUp
CHECK_DEADLOCK FALSE
