------------------------------ MODULE SqlService ------------------------------
(***************************************************************************)
(* The SQL service of the client (src/sql/SqlService.ts): the validation   *)
(* of a statement, the request built from it, the invocation on a          *)
(* connection of the registry and the way its answer or its failure        *)
(* reaches the result, with fetch and close of an open result.             *)
(*                                                                         *)
(* A JavaScript value is [kind, n]: its type and what the code tests of    *)
(* it.  For a number or a Long n is the value, for a boolean 0 or 1, for a *)
(* string 0 when it is empty and a positive code otherwise (1, 2, 3 are    *)
(* the names of SqlExpectedResultType), for an array the number of         *)
(* elements the serialization service refuses.  A property an object does  *)
(* not have is ABSENT.                                                     *)
(*                                                                         *)
(* The result object (SqlResultImpl), the transport and the helpers of     *)
(* Util are not part of the sources.  The result is the record of what the *)
(* service tells it; it fetches after a page that is not the last and may  *)
(* be closed at any time, as the documentation of the service describes.   *)
(***************************************************************************)
EXTENDS Integers, Sequences, FiniteSets

CONSTANTS
    Uuids,          \* identities of cluster members
    Connections,    \* connection objects
    Queries,        \* the calls of execute(), and the result objects they return
    Calls,          \* the argument lists execute() is called with
    Responses,      \* the answers of a member to an execute request
    ColumnNames, InheritedNames, ColumnTypes, MaxColumns,
    NULL, INHERITED, ERROR

VARIABLES
    activeConnections,  \* the registry
    results,            \* query -> what its result object has been told
    executing,          \* query -> the execute invocation in flight, or NULL
    thrown              \* query -> what execute() threw, "none" if nothing

vars == <<activeConnections, results, executing, thrown>>

\* The strategy and the client state do not matter to getRandomConnection.
Registry ==
    INSTANCE ConnectionRegistry WITH
        ConnectionStrategy <- [asyncStart |-> FALSE, reconnectMode |-> "ON"],
        clientState        <- "INITIALIZED_ON_CLUSTER"

Metadata(query) ==
    INSTANCE SqlRowMetadata WITH rowMetadata <- results[query].rowMetadata

-----------------------------------------------------------------------------
(* JavaScript values *)

Val(kind, n) == [kind |-> kind, n |-> n]
ABSENT    == Val("absent", 0)
UNDEFINED == Val("undefined", 0)
JSNULL    == Val("null", 0)

\* The pages of the results
Page == INSTANCE SqlPage

Has(value) == value.kind # "absent"

IsTruthy(value) ==
    CASE value.kind \in {"absent", "undefined", "null"}  -> FALSE
      [] value.kind \in {"number", "string", "boolean"}  -> value.n # 0
      [] OTHER                                           -> TRUE

\* The tryGet helpers of Util: they throw unless the value has the type.
TryGet(kind, value) == value.kind = kind

TIMEOUT_NOT_SET            == -1
DEFAULT_TIMEOUT            == TIMEOUT_NOT_SET
DEFAULT_CURSOR_BUFFER_SIZE == 4096
DEFAULT_FOR_RETURN_RAW_RESULT == FALSE
SqlExpectedResultType      == <<"ANY", "ROWS", "UPDATE_COUNT">>
DEFAULT_EXPECTED_RESULT_TYPE == "ANY"
DEFAULT_SCHEMA             == JSNULL

-----------------------------------------------------------------------------
(* Validation: TRUE when nothing is thrown *)

\* A timeout is a number or a Long; the range test is the same for both.
ValidTimeoutMillis(value) ==
    /\ value.kind \in {"number", "long"}
    /\ ~(value.n < 0 /\ value.n # -1)

\* A faulty test that refuses what its message names, a negative size.
ValidCursorBufferSizeUnlessNegative(value) ==
    TryGet("number", value) /\ ~(value.n < 0)

ValidCursorBufferSize(value) ==
    TryGet("number", value) /\ ~(value.n <= 0)

\* validateSqlStatementOptions
ValidSqlStatementOptions(options) ==
    /\ Has(options.schema) /\ options.schema # JSNULL => TryGet("string", options.schema)
    /\ Has(options.timeoutMillis) => ValidTimeoutMillis(options.timeoutMillis)
    /\ Has(options.cursorBufferSize) => ValidCursorBufferSize(options.cursorBufferSize)
    /\ Has(options.expectedResultType) =>
           /\ TryGet("string", options.expectedResultType)
           /\ options.expectedResultType.n \in DOMAIN SqlExpectedResultType
    /\ Has(options.returnRawResult) => TryGet("boolean", options.returnRawResult)

\* validateSqlStatement.  Options that are not an object make hasOwnProperty
\* throw, which executeStatement wraps like every other failure.
ValidSqlStatement(statement) ==
    /\ statement.kind = "object"
    /\ TryGet("string", statement.sql)
    /\ statement.sql.n # 0
    /\ Has(statement.params) => TryGet("array", statement.params)
    /\ Has(statement.options) =>
           statement.options.kind = "object" /\ ValidSqlStatementOptions(statement.options)

-----------------------------------------------------------------------------
(* From the arguments to the request *)

\* execute(sql, params, options): a string becomes a statement that has the
\* other two arguments unless they are undefined; an object, null included,
\* is taken for the statement; anything else is refused (ERROR).
ToStatement(call) ==
    LET given(argument) == IF argument = UNDEFINED THEN ABSENT ELSE argument
    IN  CASE call.sql.kind = "string" ->
                 [kind |-> "object", sql |-> call.sql,
                  params |-> given(call.params), options |-> given(call.options)]
          [] call.sql.kind \in {"object", "null"} -> call.sql
          [] OTHER -> ERROR

\* sqlStatement.options?.field
Option(statement, field) ==
    IF statement.options.kind = "object" THEN statement.options[field] ELSE ABSENT

\* The message of executeStatement and the arguments of newResult.
Request(statement) ==
    LET timeoutMillis      == Option(statement, "timeoutMillis")
        cursorBufferSize   == Option(statement, "cursorBufferSize")
        schema             == Option(statement, "schema")
        expectedResultType == Option(statement, "expectedResultType")
        returnRawResult    == Option(statement, "returnRawResult")
    IN  [timeoutMillis      |-> IF IsTruthy(timeoutMillis)
                                THEN timeoutMillis.n ELSE DEFAULT_TIMEOUT,
         cursorBufferSize   |-> IF IsTruthy(cursorBufferSize)
                                THEN cursorBufferSize.n ELSE DEFAULT_CURSOR_BUFFER_SIZE,
         schema             |-> IF IsTruthy(schema) \/ schema.kind \in {"string", "null"}
                                THEN schema ELSE DEFAULT_SCHEMA,
         expectedResultType |-> IF IsTruthy(expectedResultType)
                                THEN SqlExpectedResultType[expectedResultType.n]
                                ELSE DEFAULT_EXPECTED_RESULT_TYPE,
         returnRawResult    |-> IF Has(returnRawResult)
                                THEN returnRawResult.n = 1
                                ELSE DEFAULT_FOR_RETURN_RAW_RESULT]

-----------------------------------------------------------------------------
(* The result object, as the service sees it *)

\* SqlResultImpl.newResult: the result remembers its connection, the member
\* behind it (the query id is made from it) and two options.
NewResult(connection, member, request) ==
    [status |-> "executing", connection |-> connection, member |-> member,
     cursorBufferSize |-> request.cursorBufferSize,
     returnRawResult  |-> request.returnRawResult,
     error |-> NULL, rowMetadata |-> NULL, rowPage |-> NULL, updateCount |-> -1,
     fetch |-> "idle", close |-> "idle"]

Unused ==
    [NewResult(NULL, NULL, [cursorBufferSize |-> DEFAULT_CURSOR_BUFFER_SIZE,
                            returnRawResult  |-> DEFAULT_FOR_RETURN_RAW_RESULT])
        EXCEPT !.status = "unused"]

OnExecuteError(result, code, member) ==
    [result EXCEPT !.status = "failed", !.error = [code |-> code, member |-> member]]

OnExecuteResponse(result, rowMetadata, rowPage, updateCount) ==
    [result EXCEPT !.status = "open", !.rowMetadata = rowMetadata,
                   !.rowPage = rowPage, !.updateCount = updateCount]

\* The catch handler of the invocation: whether the connection is alive or
\* not changes the wording only.
Caught(result) == OnExecuteError(result, "CONNECTION_PROBLEM", result.member)

\* handleExecuteResponse: the result it leaves, ERROR when it throws, which
\* the constructor of the row metadata does for an empty column list.
HandleExecuteResponse(query, response) ==
    LET result   == results[query]
        metadata == IF response.rowMetadata = NULL THEN NULL
                    ELSE Metadata(query)!Construct(response.rowMetadata)
    IN  CASE response.error # NULL ->
                 OnExecuteError(result, response.error.code, response.error.member)
          [] metadata = ERROR -> ERROR
          [] OTHER ->
                 OnExecuteResponse(result, metadata, response.rowPage, response.updateCount)

\* A faulty chain without the catch handler: a response that cannot be
\* handled is dropped.
ThenOnly(query, response) ==
    IF HandleExecuteResponse(query, response) = ERROR
    THEN results[query]
    ELSE HandleExecuteResponse(query, response)

\* .then(handleExecuteResponse).catch(...): what the then handler throws ends
\* in the catch handler as well.
ThenCatch(query, response) ==
    IF HandleExecuteResponse(query, response) = ERROR
    THEN Caught(results[query])
    ELSE HandleExecuteResponse(query, response)

-----------------------------------------------------------------------------
(* Steps *)

IsActive(connection) ==
    \E i \in DOMAIN activeConnections : activeConnections[i].conn = connection

Used == {results[query].connection : query \in Queries}

Init ==
    /\ activeConnections = <<>>
    /\ results = [query \in Queries |-> Unused]
    /\ executing = [query \in Queries |-> NULL]
    /\ thrown = [query \in Queries |-> "none"]

\* The transport connects to a member; connection objects are not reused.
ConnectionAdded(connection, uuid) ==
    /\ connection \notin Used
    /\ ~IsActive(connection)
    /\ Registry!GetConnectionIn(activeConnections, uuid) = NULL
    /\ activeConnections' = Registry!SetConnectionIn(activeConnections, uuid, connection)
    /\ UNCHANGED <<results, executing, thrown>>

ConnectionRemoved(uuid) ==
    /\ Registry!GetConnectionIn(activeConnections, uuid) # NULL
    /\ activeConnections' = Registry!DeleteConnectionIn(activeConnections, uuid)
    /\ UNCHANGED <<results, executing, thrown>>

\* What execute() throws for the call, "none" when it returns a result.
Thrown(call) ==
    LET statement == ToStatement(call)
    IN  CASE statement = ERROR \/ ~ValidSqlStatement(statement) -> "IllegalArgumentError"
          [] Registry!IsEmptyIn(activeConnections)              -> "CONNECTION_PROBLEM"
          [] Has(statement.params) /\ statement.params.n > 0    -> "GENERIC"
          [] OTHER                                              -> "none"

\* Each query is one call of execute().
Called(query) == results[query].status # "unused" \/ thrown[query] # "none"

\* execute() and executeStatement() when they throw: nothing is sent.
ExecuteThrows(query) ==
    /\ ~Called(query)
    /\ \E call \in Calls :
           /\ Thrown(call) # "none"
           /\ thrown' = [thrown EXCEPT ![query] = Thrown(call)]
    /\ UNCHANGED <<activeConnections, results, executing>>

\* execute() and executeStatement() when they return: the request is on its
\* way over the connection getRandomConnection(true) answered, which as the
\* registry is constructed is its first, whatever the argument.
Execute(query) ==
    /\ ~Called(query)
    /\ \E call \in Calls :
           LET statement  == ToStatement(call)
               connection == Registry!GetRandomConnectionIn(activeConnections, NULL)
               member     == Head(activeConnections).uuid  \* connection.getRemoteUuid()
           IN  /\ Thrown(call) = "none"
               /\ results' = [results EXCEPT
                      ![query] = NewResult(connection, member, Request(statement))]
               /\ executing' = [executing EXCEPT
                      ![query] = [asked |-> statement, request |-> Request(statement)]]
    /\ UNCHANGED <<activeConnections, thrown>>

\* The member answers the execute request.
ExecuteAnswered(query, response) ==
    /\ executing[query] # NULL
    /\ IsActive(results[query].connection)
    /\ results' = [results EXCEPT ![query] = ThenCatch(query, response)]
    /\ executing' = [executing EXCEPT ![query] = NULL]
    /\ UNCHANGED <<activeConnections, thrown>>

\* The invocation is rejected, with its connection or without it.
ExecuteFails(query) ==
    /\ executing[query] # NULL
    /\ results' = [results EXCEPT ![query] = Caught(@)]
    /\ executing' = [executing EXCEPT ![query] = NULL]
    /\ UNCHANGED <<activeConnections, thrown>>

\* The result asks for the next page, after a page that is not the last.
Fetch(query) ==
    /\ results[query].status = "open"
    /\ results[query].rowPage # NULL
    /\ ~Page!IsLast(results[query].rowPage)
    /\ results[query].fetch = "idle"
    /\ results' = [results EXCEPT ![query].fetch = "sent"]
    /\ UNCHANGED <<activeConnections, executing, thrown>>

\* The then handler of fetch: an answer with an error rejects the promise
\* with the member's error, another one fulfils it with the page.
FetchAnswered(query, response) ==
    /\ results[query].fetch = "sent"
    /\ IsActive(results[query].connection)
    /\ results' = [results EXCEPT ![query] =
           IF response.error # NULL
           THEN [@ EXCEPT !.fetch = "rejected", !.error = response.error]
           ELSE [@ EXCEPT !.fetch = "idle", !.rowPage = response.rowPage]]
    /\ UNCHANGED <<activeConnections, executing, thrown>>

\* The invocation of fetch is rejected: the promise is, with the same error.
FetchFails(query) ==
    /\ results[query].fetch = "sent"
    /\ results' = [results EXCEPT ![query].fetch = "rejected"]
    /\ UNCHANGED <<activeConnections, executing, thrown>>

\* close(): the request goes to the connection of the query.
Close(query) ==
    /\ results[query].status \in {"executing", "open"}
    /\ results[query].close = "idle"
    /\ results' = [results EXCEPT ![query].close = "sent"]
    /\ UNCHANGED <<activeConnections, executing, thrown>>

\* The promise of close settles as its invocation does.
CloseSettles(query) ==
    /\ results[query].close = "sent"
    /\ results' = [results EXCEPT ![query].close =
           IF IsActive(results[query].connection) THEN "closed" ELSE "rejected"]
    /\ UNCHANGED <<activeConnections, executing, thrown>>

FetchResponses ==
    {[error |-> response.error, rowPage |-> response.rowPage] :
        response \in {r \in Responses : r.error # NULL \/ r.rowPage # NULL}}

Next ==
    \/ \E connection \in Connections, uuid \in Uuids : ConnectionAdded(connection, uuid)
    \/ \E uuid \in Uuids : ConnectionRemoved(uuid)
    \/ \E query \in Queries : ExecuteThrows(query)
    \/ \E query \in Queries : Execute(query)
    \/ \E query \in Queries, response \in Responses : ExecuteAnswered(query, response)
    \/ \E query \in Queries : ExecuteFails(query)
    \/ \E query \in Queries : Fetch(query)
    \/ \E query \in Queries, response \in FetchResponses : FetchAnswered(query, response)
    \/ \E query \in Queries : FetchFails(query)
    \/ \E query \in Queries : Close(query)
    \/ \E query \in Queries : CloseSettles(query)

Spec == Init /\ [][Next]_vars

-----------------------------------------------------------------------------
(* Properties *)

Pages == {response.rowPage : response \in Responses}

Errors == [code : {response.error.code : response \in {r \in Responses : r.error # NULL}}
                     \cup {"CONNECTION_PROBLEM"},
           member : Uuids]

TypeOK ==
    /\ Registry!TypeOK
    /\ thrown \in [Queries -> {"none", "IllegalArgumentError", "CONNECTION_PROBLEM", "GENERIC"}]
    /\ \A query \in Queries :
           /\ results[query].status \in {"unused", "executing", "open", "failed"}
           /\ results[query].connection \in Connections \cup {NULL}
           /\ results[query].member \in Uuids \cup {NULL}
           /\ results[query].error \in Errors \cup {NULL}
           /\ results[query].fetch \in {"idle", "sent", "rejected"}
           /\ results[query].close \in {"idle", "sent", "closed", "rejected"}
           /\ Metadata(query)!TypeOK
           /\ results[query].rowPage \in Pages \cup {NULL}
           /\ executing[query] # NULL => ValidSqlStatement(executing[query].asked)

\* What the member is asked is what the caller asked: every option of an
\* accepted statement reaches the request with the value given, and an option
\* that was not given with the default.  The exception is a timeout of 0
\* given as a number, for which the request says -1.  The request tests the
\* options for truthiness, so this depends on the validation having refused
\* the falsy values that are not defaults (executeStatement together with
\* validateSqlStatementOptions).
RequestCarriesTheOptions ==
    \A query \in Queries : executing[query] # NULL =>
        LET request == executing[query].request
            asked(field, default) ==
                LET value == Option(executing[query].asked, field)
                IN  IF Has(value) THEN value.n ELSE default
            schema == Option(executing[query].asked, "schema")
        IN  /\ request.cursorBufferSize = asked("cursorBufferSize", 4096)
            /\ request.cursorBufferSize > 0
            /\ request.schema = IF Has(schema) THEN schema ELSE JSNULL
            /\ request.expectedResultType =
                   SqlExpectedResultType[asked("expectedResultType", 1)]
            /\ request.returnRawResult = (asked("returnRawResult", 0) = 1)
            /\ request.timeoutMillis \in {asked("timeoutMillis", -1), -1}
            /\ request.timeoutMillis >= -1

\* "Value for the timeout that is not set" is the comment on TIMEOUT_NOT_SET:
\* a request carries it only for a statement that sets no timeout, or sets
\* the timeout to -1 itself (executeStatement).
TimeoutNotSetIsForNoTimeout ==
    \A query \in Queries : executing[query] # NULL =>
        LET timeoutMillis == Option(executing[query].asked, "timeoutMillis")
        IN  executing[query].request.timeoutMillis = TIMEOUT_NOT_SET
                => ~Has(timeoutMillis) \/ timeoutMillis.n = -1

\* A result is waiting for the outcome of execute exactly while the
\* invocation is in flight: however the invocation ends, with an answer, an
\* answer that cannot be handled or a rejection, the result is told (the
\* then and catch handlers of executeStatement).
EveryOutcomeReachesTheResult ==
    \A query \in Queries :
        results[query].status = "executing" <=> executing[query] # NULL

\* findColumn and getColumn of the row metadata of every result agree with a
\* scan of the columns of the response on every column after the first
\* (handleExecuteResponse and SqlRowMetadataImpl).
FoundColumnsAreTheNamedOnes ==
    \A query \in Queries : Metadata(query)!FoundColumnsAreTheNamedOnes

=============================================================================
