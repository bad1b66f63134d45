SPECIFICATION FairSpec
CONSTANTS
    Uuids = {m1, m2, m3}
    Connections = {c1, c2, c3, c4}
    NULL = NULL
    MaxFailures = 2
    ConnectionStrategy <- MCConnectionStrategy
CHECK_DEADLOCK FALSE
INVARIANT TypeOK
INVARIANT HolderTracksPool
INVARIANT SingleSubscription
PROPERTY EventuallySubscribed
PROPERTY ImplementsSubscription
