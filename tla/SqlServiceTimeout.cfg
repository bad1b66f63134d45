SPECIFICATION Spec
CONSTANTS
    Uuids = {m1, m2}
    Connections = {c1, c2}
    Queries = {q1}
    Calls <- MCCalls
    Responses <- MCResponses
    ColumnNames <- MCColumnNames
    InheritedNames <- MCInheritedNames
    ColumnTypes <- MCColumnTypes
    MaxColumns = 3
    NULL = NULL
    INHERITED = INHERITED
    ERROR = ERROR
CHECK_DEADLOCK FALSE
INVARIANT TimeoutNotSetIsForNoTimeout
