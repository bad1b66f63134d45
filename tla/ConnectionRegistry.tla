------------------------- MODULE ConnectionRegistry -------------------------
(***************************************************************************)
(* The client state holder (src/ClientState.ts) and the registry of live   *)
(* connections (src/network/ConnectionRegistry.ts).                        *)
(*                                                                         *)
(* The registry is a JavaScript Map from a member's uuid to the connection *)
(* object; a Map iterates in insertion order and set() of a present key    *)
(* keeps that key's position, so the map is a sequence of entries with     *)
(* distinct uuids.  Operators ending in "In" take the map as an argument:  *)
(* the listener service folds them over several closes within one handler. *)
(***************************************************************************)
EXTENDS Naturals, Sequences, FiniteSets
LOCAL INSTANCE SequencesExt

CONSTANTS
    Uuids,              \* identities of cluster members
    Connections,        \* connection objects, compared by reference
    ConnectionStrategy, \* [asyncStart, reconnectMode], read once by the constructor
    NULL                \* null / undefined

VARIABLES
    clientState,        \* ClientStateImpl.clientState
    activeConnections   \* ConnectionRegistryImpl.activeConnections

registryVars == <<clientState, activeConnections>>

ClientStateEnum == {"INITIAL", "CONNECTED_TO_CLUSTER", "INITIALIZED_ON_CLUSTER"}
ReconnectMode   == {"OFF", "ON", "ASYNC"}
Strategies      == [asyncStart : BOOLEAN, reconnectMode : ReconnectMode]
ConnectionMaps  == {map \in BoundedSeq([uuid : Uuids, conn : Connections], Cardinality(Uuids)) :
                      \A i, j \in DOMAIN map : map[i].uuid = map[j].uuid => i = j}

ASSUME ConnectionStrategy \in Strategies

\* What the constructor leaves in the fields it declares: it copies asyncStart
\* and reconnectMode and drops its clientState argument; smartRoutingEnabled
\* and loadBalancer are assigned nowhere.  An unassigned field reads undefined.
Fields ==
    [active              |-> FALSE,
     asyncStart          |-> ConnectionStrategy.asyncStart,
     reconnectMode       |-> ConnectionStrategy.reconnectMode,
     clientState         |-> NULL,
     smartRoutingEnabled |-> NULL,
     loadBalancer        |-> NULL]

-----------------------------------------------------------------------------
(* Queries *)

\* ClientStateImpl.getState
GetState == clientState

\* The field is assigned by its initialiser only.
IsActive == Fields.active

IsEmptyIn(map) == Len(map) = 0

GetConnectionsIn(map) == [i \in DOMAIN map |-> map[i].conn]

GetConnectionIn(map, uuid) ==
    LET i == SelectInSeq(map, LAMBDA e : e.uuid = uuid)
    IN  IF i = 0 THEN NULL ELSE map[i].conn

\* lbMember is what loadBalancer.next() would answer; it is consulted only
\* when smartRoutingEnabled is truthy.  Otherwise the first entry of the
\* Map's iterator is returned, null when there is none.
GetRandomConnectionIn(map, lbMember) ==
    LET balanced == IF Fields.smartRoutingEnabled = TRUE /\ lbMember # NULL
                    THEN GetConnectionIn(map, lbMember) ELSE NULL
    IN  CASE balanced # NULL -> balanced
          [] IsEmptyIn(map)  -> NULL
          [] OTHER           -> Head(map).conn

\* A faulty table that tests the reconnect mode before the client has started.
InvocationErrorByReconnectMode(strategy, state, size) ==
    CASE state = "INITIALIZED_ON_CLUSTER" /\ size > 0 -> NULL
      [] strategy.reconnectMode = "ASYNC"             -> "ClientOfflineError"
      [] state = "INITIAL" /\ strategy.asyncStart     -> "ClientOfflineError"
      [] state = "INITIAL"                            -> "IOError_starting"
      [] OTHER                                        -> "IOError_no_connection"

\* The body of checkIfInvocationAllowed once the state has been read: the
\* error it returns, NULL when the invocation may go ahead.
InvocationError(strategy, state, size) ==
    CASE state = "INITIALIZED_ON_CLUSTER" /\ size > 0 -> NULL
      [] state = "INITIAL" /\ strategy.asyncStart     -> "ClientOfflineError"
      [] state = "INITIAL"                            -> "IOError_starting"
      [] strategy.reconnectMode = "ASYNC"             -> "ClientOfflineError"
      [] OTHER                                        -> "IOError_no_connection"

\* checkIfInvocationAllowed: this.clientState.getState() dereferences the
\* field the constructor never assigned, which throws before the table is
\* consulted.
CheckIfInvocationAllowed ==
    IF Fields.clientState = NULL
    THEN "TypeError"
    ELSE InvocationError(Fields, GetState, Len(activeConnections))

-----------------------------------------------------------------------------
(* Updates *)

\* A faulty registry that keeps the old entry of a member beside the new one.
SetConnectionInAppending(map, uuid, conn) ==
    Append(map, [uuid |-> uuid, conn |-> conn])

SetConnectionIn(map, uuid, conn) ==
    LET i == SelectInSeq(map, LAMBDA e : e.uuid = uuid)
        entry == [uuid |-> uuid, conn |-> conn]
    IN  IF i = 0 THEN Append(map, entry) ELSE ReplaceAt(map, i, entry)

DeleteConnectionIn(map, uuid) == SelectSeq(map, LAMBDA e : e.uuid # uuid)

Init ==
    /\ clientState = "INITIAL"
    /\ activeConnections = <<>>

\* ClientStateImpl.setState: any state may follow any other, legality is the
\* caller's business.
SetState(state) ==
    /\ clientState' = state
    /\ UNCHANGED activeConnections

SetConnection(uuid, conn) ==
    /\ activeConnections' = SetConnectionIn(activeConnections, uuid, conn)
    /\ UNCHANGED clientState

DeleteConnection(uuid) ==
    /\ activeConnections' = DeleteConnectionIn(activeConnections, uuid)
    /\ UNCHANGED clientState

Next ==
    \/ \E state \in ClientStateEnum : SetState(state)
    \/ \E uuid \in Uuids, conn \in Connections : SetConnection(uuid, conn)
    \/ \E uuid \in Uuids : DeleteConnection(uuid)

Spec == Init /\ [][Next]_registryVars

-----------------------------------------------------------------------------
(* Properties *)

TypeOK ==
    /\ clientState \in ClientStateEnum
    /\ activeConnections \in ConnectionMaps

\* The decision table of checkIfInvocationAllowed, for every connection
\* strategy: an invocation is allowed exactly when the client is initialized
\* on the cluster and holds a connection; otherwise the error is the soft
\* "offline" one exactly when the client will come (back) by itself, that is
\* when it is starting with asyncStart or has started and reconnects
\* asynchronously; every other refusal is an IOError.
GatingTable ==
    \A strategy \in Strategies :
        LET error   == InvocationError(strategy, clientState, Len(activeConnections))
            allowed == clientState = "INITIALIZED_ON_CLUSTER" /\ activeConnections # <<>>
            offline == IF clientState = "INITIAL" THEN strategy.asyncStart
                       ELSE strategy.reconnectMode = "ASYNC"
        IN  /\ (error = NULL) <=> allowed
            /\ (error = "ClientOfflineError") <=> (~allowed /\ offline)
            /\ (error \in {"IOError_starting", "IOError_no_connection"})
                   <=> (~allowed /\ ~offline)

\* The doc comment of checkIfInvocationAllowed: "Invocation is allowed only
\* if client state is INITIALIZED_ON_CLUSTER and there is at least one active
\* connection.  @return Error if invocation is not allowed, null otherwise".
\* As constructed the method returns neither: it throws.
InvocationAllowedWhenInitialized ==
    (clientState = "INITIALIZED_ON_CLUSTER" /\ activeConnections # <<>>)
        => CheckIfInvocationAllowed = NULL

=============================================================================
