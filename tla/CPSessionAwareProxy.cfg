SPECIFICATION Spec
CONSTANTS
    Groups <- MCGroups
    Proxies <- MCProxies
    ProxyFields <- MCProxyFields
    Permits = {1, 2}
    MaxSessions = 3
    MaxThreads = 2
    NULL = NULL
    ERROR = ERROR
CHECK_DEADLOCK FALSE
INVARIANT TypeOK
INVARIANT AcquireCountMatchesHolders
INVARIANT OneSessionPerGroup
