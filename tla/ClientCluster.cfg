SPECIFICATION Spec
CONSTANTS
    Uuids = {m1, m2}
    Connections = {c1, c2, c3}
    NULL = NULL
    MaxFailures = 1
    ListenerIds = {l1}
    MaxVersion = 2
    MaxResets = 1
    MaxChanges = 2
    ConnectionStrategy <- MCConnectionStrategy
SYMMETRY MCSymmetry
CHECK_DEADLOCK FALSE
INVARIANT TypeOK
INVARIANT SubscriptionStartsWithOpenGate
PROPERTY ViewsOfTheSubscriptionAreApplied
