---------------------------- MODULE SqlRowMetadata ----------------------------
(***************************************************************************)
(* The row metadata of an SQL result (src/sql/SqlRowMetadata.ts), built by *)
(* SqlServiceImpl.handleExecuteResponse from the columns of the response.  *)
(*                                                                         *)
(* Indices are those of the code, from 0.  nameToIndex is a plain object:  *)
(* looking up a name it does not hold as its own property answers          *)
(* undefined, or, for the names every object inherits (toString,           *)
(* constructor, ...), the inherited value.                                 *)
(***************************************************************************)
EXTENDS Integers, Sequences, FiniteSets, TLC
LOCAL INSTANCE SequencesExt

CONSTANTS
    ColumnNames,    \* the strings used as column names and as arguments
    InheritedNames, \* those of them every JavaScript object answers to
    ColumnTypes,    \* members of SqlColumnType
    MaxColumns,     \* bound: columns of a response
    NULL,           \* null / undefined
    INHERITED,      \* a value found on Object.prototype
    ERROR           \* the call threw

VARIABLES rowMetadata   \* of the last response, NULL before it

COLUMN_NOT_FOUND == -1

Columns     == [name : ColumnNames, type : ColumnTypes]
ColumnLists == BoundedSeq(Columns, MaxColumns)

\* The index of the last column with the name, -1 when there is none.
LastIndexOf(columns, columnName) ==
    LET at == {i \in DOMAIN columns : columns[i].name = columnName}
    IN  IF at = {} THEN COLUMN_NOT_FOUND ELSE Max(at) - 1

-----------------------------------------------------------------------------

\* A faulty loop in which the first column of a name keeps the name.
NameToIndexFirstWins(columns) ==
    FoldLeft(LAMBDA index, i : index @@ (columns[i].name :> i - 1),
             <<>>, [i \in DOMAIN columns |-> i])

\* The loop of the constructor: a later column of the same name overwrites.
NameToIndex(columns) ==
    FoldLeft(LAMBDA index, i : (columns[i].name :> i - 1) @@ index,
             <<>>, [i \in DOMAIN columns |-> i])

\* A faulty constructor that accepts an empty column list.
ConstructUnchecked(columns) ==
    IF columns = NULL THEN ERROR
    ELSE [columns |-> columns, nameToIndex |-> NameToIndex(columns)]

Construct(columns) ==
    IF columns = NULL \/ Len(columns) = 0
    THEN ERROR
    ELSE [columns |-> columns, nameToIndex |-> NameToIndex(columns)]

GetColumnCount(metadata) == Len(metadata.columns)

GetColumn(metadata, index) ==
    IF index < 0 \/ index >= Len(metadata.columns)
    THEN NULL
    ELSE metadata.columns[index + 1]

GetColumns(metadata) == metadata.columns

\* this.nameToIndex[columnName]
Lookup(metadata, columnName) ==
    CASE columnName \in DOMAIN metadata.nameToIndex -> metadata.nameToIndex[columnName]
      [] columnName \in InheritedNames               -> INHERITED
      [] OTHER                                       -> NULL

\* What passes "columnIndex ? ... : ..." : neither undefined nor 0.
Truthy(value) == value \notin {NULL, 0}

FindColumn(metadata, columnName) ==
    LET columnIndex == Lookup(metadata, columnName)
    IN  CASE columnName \notin ColumnNames -> ERROR
          [] Truthy(columnIndex)           -> columnIndex
          [] OTHER                         -> COLUMN_NOT_FOUND

-----------------------------------------------------------------------------

Init == rowMetadata = NULL

\* handleExecuteResponse without an error: the metadata of the response is
\* wrapped, null stays null; a throwing constructor leaves the result as it is.
OnExecuteResponse(columns) ==
    rowMetadata' = CASE columns = NULL             -> NULL
                     [] Construct(columns) = ERROR -> rowMetadata
                     [] OTHER                      -> Construct(columns)

Next == \E columns \in ColumnLists \cup {NULL} : OnExecuteResponse(columns)

Spec == Init /\ [][Next]_rowMetadata

-----------------------------------------------------------------------------
(* Properties *)

TypeOK ==
    \/ rowMetadata = NULL
    \/ /\ rowMetadata.columns \in ColumnLists \ {<<>>}
       /\ DOMAIN rowMetadata.nameToIndex \subseteq ColumnNames
       /\ \A name \in DOMAIN rowMetadata.nameToIndex :
              rowMetadata.nameToIndex[name] \in 0..(MaxColumns - 1)

\* findColumn and getColumn agree on every column after the first: the name
\* of a column at index 1 or later is found at the last index that carries
\* it, as a scan of the column list would find it, and getColumn of that
\* index is a column of that name (the constructor's loop, findColumn and
\* getColumn together, duplicate names included).
FoundColumnsAreTheNamedOnes ==
    rowMetadata # NULL =>
        \A name \in ColumnNames :
            LET last == LastIndexOf(GetColumns(rowMetadata), name)
            IN  last >= 1 => /\ FindColumn(rowMetadata, name) = last
                             /\ GetColumn(rowMetadata, last).name = name

\* The documentation of findColumn: "Find index of the column with the given
\* name.  If column is not found, -1 is returned": the name of every column
\* of the row is found.
FindColumnFindsEveryColumn ==
    rowMetadata # NULL =>
        \A index \in 0..(GetColumnCount(rowMetadata) - 1) :
            FindColumn(rowMetadata, GetColumn(rowMetadata, index).name) # COLUMN_NOT_FOUND

=============================================================================
