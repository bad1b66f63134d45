----------------------------- MODULE MCSqlService -----------------------------
(***************************************************************************)
(* SqlService for TLC.  The calls are every combination of a few values    *)
(* of each argument and option: for each, a value that is absent, values   *)
(* on both sides of what the validation tests, the falsy value of the      *)
(* type, and a value of a wrong type.                                      *)
(***************************************************************************)
EXTENDS SqlService
LOCAL INSTANCE SequencesExt

MCColumnNames    == {"__key", "this", "toString"}
MCInheritedNames == {"toString"}
MCColumnTypes    == {"VARCHAR"}

Number(n)  == Val("number", n)
Long(n)    == Val("long", n)
String(n)  == Val("string", n)
Boolean(n) == Val("boolean", n)
Array(n)   == Val("array", n)

MCOptions ==
    [kind               : {"object"},
     schema             : {ABSENT, JSNULL, String(0), String(4), Number(1)},
     timeoutMillis      : {ABSENT, Number(-2), Number(-1), Number(0), Number(5),
                           Long(-2), Long(0), Long(5), String(4)},
     cursorBufferSize   : {ABSENT, Number(-1), Number(0), Number(16), String(4)},
     expectedResultType : {ABSENT, String(2), String(0)},
     returnRawResult    : {ABSENT, Boolean(0), Boolean(1), Number(1)}]

MCStatements ==
    [kind    : {"object"},
     sql     : {UNDEFINED, String(0), String(4)},
     params  : {ABSENT, UNDEFINED, Array(0), Array(1)},
     options : MCOptions \cup {ABSENT, JSNULL}]

\* execute(statement), execute(sql, params, options) and execute(42)
MCCalls ==
    {[sql |-> statement, params |-> UNDEFINED, options |-> UNDEFINED] :
        statement \in MCStatements \cup {JSNULL, Number(42)}}
    \cup [sql     : {String(0), String(4)},
          params  : {UNDEFINED, Array(0), String(4)},
          options : {UNDEFINED, JSNULL} \cup MCOptions]

\* The pages of a response with these columns: one row, last or not.
MCPages(columns) ==
    {Page!FromColumns([i \in DOMAIN columns |-> columns[i].type],
                      [i \in DOMAIN columns |-> <<"value">>], last) :
        last \in BOOLEAN}

\* A member's error; an update count; rows of up to MaxColumns columns, none
\* included, with a first page that is or is not the last.
MCResponses ==
    {[error |-> [code |-> "GENERIC", member |-> m], rowMetadata |-> NULL,
      rowPage |-> NULL, updateCount |-> -1] : m \in Uuids}
    \cup {[error |-> NULL, rowMetadata |-> NULL, rowPage |-> NULL, updateCount |-> 1]}
    \cup {[error |-> NULL, rowMetadata |-> columns, rowPage |-> page, updateCount |-> -1] :
            <<columns, page>> \in
                UNION {{columns} \X MCPages(columns) :
                    columns \in BoundedSeq([name : ColumnNames, type : ColumnTypes], MaxColumns)}}

=============================================================================
