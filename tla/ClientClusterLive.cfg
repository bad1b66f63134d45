SPECIFICATION FairSpec
CONSTANTS
    Uuids = {m1, m2}
    Connections = {c1, c2}
    NULL = NULL
    MaxFailures = 1
    ListenerIds = {}
    MaxVersion = 2
    MaxResets = 1
    MaxChanges = 1
    ConnectionStrategy <- MCConnectionStrategy
CHECK_DEADLOCK FALSE
PROPERTY Converges
