------------------------------ MODULE IndexUtil -------------------------------
(***************************************************************************)
(* Validation and normalisation of an index configuration                  *)
(* (src/util/IndexUtil.ts), which a map does before it asks the cluster    *)
(* for the index.                                                          *)
(*                                                                         *)
(* A string is a sequence of characters, of which the model tells apart    *)
(* the blank, the dot, the underscore and words; the word "this" is one    *)
(* character.  The messages of the errors are left out: a call that throws *)
(* is ERROR.                                                               *)
(***************************************************************************)
EXTENDS Integers, Sequences, FiniteSets, SequencesExt

CONSTANTS
    MAX_ATTRIBUTES, \* 255 in the code
    MapName,        \* the name of the map
    Configs,        \* the configurations addIndex is called with
    DefaultBitmapIndexOptions,  \* new InternalBitmapIndexOptions()
    NULL, UNDEFINED, ERROR

VARIABLES
    config,         \* the configuration validateAndNormalize is called with
    normalized      \* what it returned (ERROR when it threw), NULL before

vars == <<config, normalized>>

THIS_PATTERN == <<"this", ".">>
IndexTypes   == {"SORTED", "HASH", "BITMAP"}

\* String.prototype.trim
Trim(string) ==
    LET kept == {i \in DOMAIN string : string[i] # " "}
    IN  IF kept = {} THEN <<>> ELSE SubSeq(string, Min(kept), Max(kept))

-----------------------------------------------------------------------------

\* A faulty validation that looks at the name as given, blanks included.
ValidAttributeUntrimmed(attributeName) ==
    /\ attributeName # UNDEFINED
    /\ Len(attributeName) # 0
    /\ ~IsSuffix(<<".">>, attributeName)

\* validateAttribute: TRUE when it returns
ValidAttribute(attributeName) ==
    /\ attributeName # UNDEFINED
    /\ Len(Trim(attributeName)) # 0
    /\ ~IsSuffix(<<".">>, Trim(attributeName))

CanonicalizeAttribute(attribute) ==
    IF IsPrefix(THIS_PATTERN, attribute)
    THEN SubSeq(attribute, Len(THIS_PATTERN) + 1, Len(attribute))
    ELSE attribute

IndexTypeToName(indexType) ==
    CASE indexType = "SORTED" -> "sorted"
      [] indexType = "HASH"   -> "hash"
      [] indexType = "BITMAP" -> "bitmap"
      [] OTHER                -> ERROR

\* A faulty end that forgets the name it has put together.
BuildNormalizedConfigKeepingName(mapName, indexType, indexName, normalizedAttributeNames) ==
    [name |-> indexName, type |-> indexType, attributes |-> normalizedAttributeNames,
     bitmapIndexOptions |-> DefaultBitmapIndexOptions]

\* buildNormalizedConfig: an index without a name is named after the map,
\* the type and the attributes; the name of the type is asked for only then.
BuildNormalizedConfig(mapName, indexType, indexName, normalizedAttributeNames) ==
    LET name == <<mapName, "_", IndexTypeToName(indexType)>>
                    \o FlattenSeq([i \in DOMAIN normalizedAttributeNames |->
                                      <<"_">> \o normalizedAttributeNames[i]])
    IN  IF \/ indexName = UNDEFINED /\ IndexTypeToName(indexType) = ERROR
           \/ \E i \in DOMAIN normalizedAttributeNames :
                  ~ValidAttribute(normalizedAttributeNames[i])
        THEN ERROR
        ELSE [name |-> IF indexName = UNDEFINED THEN name ELSE indexName,
              type |-> indexType,
              attributes |-> normalizedAttributeNames,
              bitmapIndexOptions |-> DefaultBitmapIndexOptions]

\* A faulty loop that looks for the duplicate among the names as given.
NormalizeAttributeNamesAmongOriginals(originalAttributeNames) ==
    IF \E i \in DOMAIN originalAttributeNames :
           \/ ~ValidAttribute(originalAttributeNames[i])
           \/ \E j \in 1..(i - 1) : originalAttributeNames[j] = originalAttributeNames[i]
    THEN ERROR
    ELSE [i \in DOMAIN originalAttributeNames |->
             CanonicalizeAttribute(Trim(originalAttributeNames[i]))]

\* The loop of validateAndNormalize: each name is validated, trimmed and
\* canonicalized, and refused when the names before it have it already.
NormalizeAttributeNames(originalAttributeNames) ==
    LET next(normalizedAttributeNames, originalAttributeName) ==
            LET normalizedAttributeName ==
                    CanonicalizeAttribute(Trim(originalAttributeName))
            IN  IF \/ normalizedAttributeNames = ERROR
                   \/ ~ValidAttribute(originalAttributeName)
                   \/ Contains(normalizedAttributeNames, normalizedAttributeName)
                THEN ERROR
                ELSE Append(normalizedAttributeNames, normalizedAttributeName)
    IN  FoldLeft(next, <<>>, originalAttributeNames)

\* config.bitmapIndexOptions?.field
BitmapIndexOption(options, field) ==
    IF options = UNDEFINED THEN UNDEFINED ELSE options[field]

\* The end of validateAndNormalize for a bitmap index: the unique key is
\* validated, and canonicalized as it is.
WithBitmapIndexOptions(normalizedConfig, options) ==
    LET uniqueKey               == BitmapIndexOption(options, "uniqueKey")
        uniqueKeyTransformation == BitmapIndexOption(options, "uniqueKeyTransformation")
    IN  IF ~ValidAttribute(uniqueKey) THEN ERROR
        ELSE [normalizedConfig EXCEPT
                 !.bitmapIndexOptions.uniqueKey = CanonicalizeAttribute(uniqueKey),
                 !.bitmapIndexOptions.uniqueKeyTransformation =
                     IF uniqueKeyTransformation # UNDEFINED
                     THEN uniqueKeyTransformation ELSE @]

ValidateAndNormalize(mapName, indexConfig) ==
    LET originalAttributeNames   == indexConfig.attributes
        normalizedAttributeNames == NormalizeAttributeNames(originalAttributeNames)
        name == IF indexConfig.name # UNDEFINED /\ Len(Trim(indexConfig.name)) = 0
                THEN UNDEFINED ELSE indexConfig.name
        normalizedConfig ==
            BuildNormalizedConfig(mapName, indexConfig.type, name, normalizedAttributeNames)
    IN  CASE Len(originalAttributeNames) = 0              -> ERROR
          [] Len(originalAttributeNames) > MAX_ATTRIBUTES -> ERROR
          [] /\ indexConfig.type = "BITMAP"
             /\ Len(originalAttributeNames) > 1           -> ERROR
          [] normalizedAttributeNames = ERROR             -> ERROR
          [] normalizedConfig = ERROR                     -> ERROR
          [] indexConfig.type = "BITMAP" ->
                 WithBitmapIndexOptions(normalizedConfig, indexConfig.bitmapIndexOptions)
          [] OTHER                                        -> normalizedConfig

-----------------------------------------------------------------------------

\* A map is asked for an index with some configuration.
Init ==
    /\ config \in Configs
    /\ normalized = NULL

\* The call returns or throws.
AddIndex ==
    /\ normalized = NULL
    /\ normalized' = ValidateAndNormalize(MapName, config)
    /\ UNCHANGED config

Next == AddIndex

Spec == Init /\ [][Next]_vars

-----------------------------------------------------------------------------
(* Properties *)

Called == normalized # NULL

TypeOK ==
    /\ config \in Configs
    /\ normalized \in {NULL, ERROR} \/
           /\ normalized.name \in Seq(STRING)
           /\ normalized.type \in IndexTypes
           /\ normalized.attributes \in Seq(Seq(STRING))
           /\ normalized.bitmapIndexOptions.uniqueKey \in Seq(STRING)

\* The attribute a name stands for: the name without the blanks around it
\* and then without one leading "this.".
Unqualified(attributeName) ==
    LET trimmed == Trim(attributeName)
    IN  IF Len(trimmed) >= 2 /\ trimmed[1] = "this" /\ trimmed[2] = "."
        THEN [i \in 1..(Len(trimmed) - 2) |-> trimmed[i + 2]]
        ELSE trimmed

\* What the messages of the errors require of a configuration.
WellFormed(indexConfig) ==
    LET names == indexConfig.attributes
        key   == indexConfig.bitmapIndexOptions.uniqueKey
    IN  /\ Len(names) \in 1..MAX_ATTRIBUTES
        /\ \A i \in DOMAIN names :
               /\ Trim(names[i]) # <<>>
               /\ Last(Trim(names[i])) # "."
        /\ \A i, j \in DOMAIN names :
               Unqualified(names[i]) = Unqualified(names[j]) => i = j
        /\ indexConfig.type = "BITMAP" =>
               /\ Len(names) = 1
               /\ indexConfig.bitmapIndexOptions # UNDEFINED
               /\ key # UNDEFINED
               /\ Trim(key) # <<>>
               /\ Last(Trim(key)) # "."

\* validateAndNormalize refuses exactly the configurations that are not
\* well formed: the early throws for no attribute, too many and a composite
\* bitmap index, the loop that stops at the first name that is blank, ends
\* with a dot or names an attribute an earlier name has named (its indexOf
\* among the normalized names, so "a" and " this.a" are one attribute), and
\* the validation of the unique key.  Of the others it answers the
\* attributes in the order given, and keeps a name that is not blank.
NormalizesTheWellFormed ==
    Called =>
        /\ normalized # ERROR <=> WellFormed(config)
        /\ normalized # ERROR =>
               /\ normalized.type = config.type
               /\ normalized.attributes =
                      [i \in DOMAIN config.attributes |-> Unqualified(config.attributes[i])]
               /\ config.name # UNDEFINED /\ Trim(config.name) # <<>>
                      => normalized.name = config.name

\* buildNormalizedConfig calls validateAttribute a second time on every
\* name, after validateAndNormalize has trimmed and canonicalized it.  That
\* is never what refuses a configuration: what is left of a name the loop
\* accepted, without its blanks and its "this.", is a name validateAttribute
\* accepts.
AcceptedNamesStayValid ==
    Called /\ NormalizeAttributeNames(config.attributes) # ERROR =>
        BuildNormalizedConfig(MapName, config.type, config.name,
                              NormalizeAttributeNames(config.attributes)) # ERROR

=============================================================================
