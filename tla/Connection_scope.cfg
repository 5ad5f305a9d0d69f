SPECIFICATION FairSpec
CONSTANTS
    Callers <- MCCallers
PROPERTY OutOfScopeIsFreed
CHECK_DEADLOCK FALSE
