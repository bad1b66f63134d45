\* Every configuration of at most three attribute names of at most three
\* characters.  MAX_ATTRIBUTES is 255 in the code; 2 keeps both sides of the
\* limit within reach.
SPECIFICATION Spec
CONSTANTS
    MAX_ATTRIBUTES = 2
    MaxLength = 3
    MapName = "map"
    Configs <- MCConfigs
    DefaultBitmapIndexOptions <- MCDefaultBitmapIndexOptions
    NULL = NULL
    UNDEFINED = UNDEFINED
    ERROR = ERROR
INVARIANT TypeOK
INVARIANT NormalizesTheWellFormed
INVARIANT AcceptedNamesStayValid
CHECK_DEADLOCK FALSE
