SPECIFICATION Spec
CONSTANTS
    Uuids = {m1, m2, m3}
    Connections = {c1, c2}
    NULL = NULL
    ConnectionStrategy <- MCConnectionStrategy
INVARIANT InvocationAllowedWhenInitialized
