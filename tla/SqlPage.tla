------------------------------- MODULE SqlPage --------------------------------
(***************************************************************************)
(* A page of rows (src/sql/SqlPage.ts): the types of its columns, a holder *)
(* of one array of values per column, and whether it is the last page of   *)
(* its result.  A page is a record; arrays are sequences, so the column    *)
(* and row indices of the code, which count from 0, are one less than the  *)
(* positions here.                                                         *)
(***************************************************************************)
EXTENDS Naturals, Sequences

CONSTANTS
    ERROR,          \* a call that throws
    UNDEFINED       \* what reading past the end of an array answers

\* new ColumnarDataHolder(columns)
ColumnarDataHolder(columns) == [columns |-> columns]

\* columns[0].length: a holder without columns has no first array to ask.
HolderRowCount(dataHolder) ==
    IF dataHolder.columns = <<>> THEN ERROR ELSE Len(dataHolder.columns[1])

\* columns[columnIndex][rowIndex]: a column that is not there has no rows to
\* index, a row that is not there reads undefined.
HolderColumnValueForClient(dataHolder, columnIndex, rowIndex) ==
    CASE columnIndex + 1 \notin DOMAIN dataHolder.columns -> ERROR
      [] rowIndex + 1 \notin DOMAIN dataHolder.columns[columnIndex + 1] -> UNDEFINED
      [] OTHER -> dataHolder.columns[columnIndex + 1][rowIndex + 1]

\* The assertion refuses columns of objects; the column is answered as it is.
HolderColumnValuesForServer(dataHolder, columnIndex, columnType) ==
    CASE columnType = "OBJECT" -> ERROR
      [] columnIndex + 1 \notin DOMAIN dataHolder.columns -> UNDEFINED
      [] OTHER -> dataHolder.columns[columnIndex + 1]

\* new SqlPage(columnTypes, dataHolder, last)
New(columnTypes, dataHolder, last) ==
    [columnTypes |-> columnTypes, dataHolder |-> dataHolder, last |-> last]

FromColumns(columnTypes, columns, last) ==
    New(columnTypes, ColumnarDataHolder(columns), last)

IsLast(page)         == page.last
GetColumnTypes(page) == page.columnTypes
GetRowCount(page)    == HolderRowCount(page.dataHolder)
GetColumnCount(page) == Len(page.columnTypes)

\* Both answer an empty array, whatever the holder has.
GetColumnValuesForServer(page, index) == <<>>
GetColumnValuesForClient(page, columnIndex, rowIndex) == <<>>

=============================================================================
