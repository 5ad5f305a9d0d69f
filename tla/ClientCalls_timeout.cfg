SPECIFICATION Spec
CONSTANTS
    ExistingPaths <- MCExistingPaths
    RoundsDown <- MCRoundsDown
    Version <- MCVersion
    BlankStrings <- MCBlankStrings
    Characters <- MCCharacters
    CoreDefaults <- MCCoreDefaults
    AnalyticsTimeout <- MCAnalyticsTimeout
    ClusterCalls <- MCClusterCalls
    QueryCalls <- MCQueryCalls
    CoreErrors <- MCCoreErrors
INVARIANT TimeoutDefaultsToCluster
CHECK_DEADLOCK FALSE
