SPECIFICATION Spec
CONSTANTS
    ColumnNames <- MCColumnNames
    InheritedNames <- MCInheritedNames
    ColumnTypes <- MCColumnTypes
    MaxColumns = 3
    NULL = NULL
    INHERITED = INHERITED
    ERROR = ERROR
INVARIANT FindColumnFindsEveryColumn
