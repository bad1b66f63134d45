--------------------- MODULE ClusterViewListenerService ---------------------
(***************************************************************************)
(* The keeper of the cluster view subscription                             *)
(* (src/listener/ClusterViewListenerService.ts) on top of the connection   *)
(* registry: at most one connection carries the subscription, and the      *)
(* service moves it when that connection goes or refuses.                  *)
(*                                                                         *)
(* The client runs on one execution context.  A handler and everything it  *)
(* calls synchronously is one step; the completion of the registration     *)
(* invocation is a step of its own.  A handler may be entered several      *)
(* times within one step (the membership tracker closes several            *)
(* connections in a row), so the handlers are operators from the state     *)
(* they find to the state they leave, and an action installs the result.   *)
(*                                                                         *)
(* The transport (ClientConnectionManager) is not part of the sources: it  *)
(* is modelled from the specification as the caller that keeps the         *)
(* registry and announces connectionAdded and connectionRemoved            *)
(* synchronously.  Its getRandomConnection answers the connection of the   *)
(* member the load balancer proposes, or else any connection: which one,   *)
(* the environment chooses, as an order of preference among the members    *)
(* that holds for one chain of handlers.                                   *)
(***************************************************************************)
EXTENDS Naturals, Sequences, FiniteSets
LOCAL INSTANCE SequencesExt

CONSTANTS
    Uuids,              \* identities of cluster members
    Connections,        \* connection objects; each is opened at most once
    ConnectionStrategy, \* configuration of the registry
    NULL,
    MaxFailures         \* bound: registrations refused on a live connection

VARIABLES
    clientState,             \* owned by the lifecycle, untouched here
    activeConnections,       \* the registry
    listenerAddedConnection, \* the connection that carries the subscription
    pending,                 \* connection -> registrations in flight on it
    handlers,                \* connection -> registrations the member accepted
    opened,                  \* the connection objects created so far
    failures                 \* registrations refused on a live connection so far

listenerVars == <<listenerAddedConnection, pending, handlers, opened, failures>>
vars == <<clientState, activeConnections, listenerVars>>

Registry == INSTANCE ConnectionRegistry

IsActive(connection) ==
    \E i \in DOMAIN activeConnections : activeConnections[i].conn = connection

-----------------------------------------------------------------------------
(* The handlers, as functions of the state they work on *)

\* The orders in which getRandomConnection may prefer the members.
Orders == SetToSeqs(Uuids)

\* What a chain of handlers reads and writes; cleared records that the chain
\* called clusterService.clearMemberListVersion(), order is the preference
\* of getRandomConnection while the chain runs.
Now ==
    [connections |-> activeConnections,
     holder      |-> listenerAddedConnection,
     pending     |-> pending,
     cleared     |-> FALSE,
     order       |-> <<>>]

Choosing(order) == [Now EXCEPT !.order = order]

\* connectionManager.getRandomConnection(): null only without a connection.
GetRandomConnection(s) ==
    LET connected == SelectSeq(s.order, LAMBDA uuid :
                         Registry!GetConnectionIn(s.connections, uuid) # NULL)
    IN  IF connected = <<>> THEN NULL
        ELSE Registry!GetConnectionIn(s.connections, Head(connected))

Becomes(s) ==
    /\ activeConnections' = s.connections
    /\ listenerAddedConnection' = s.holder
    /\ pending' = s.pending

\* A faulty tryRegister that forgets to clear the member list version.
TryRegisterKeepingVersion(s, connection) ==
    IF s.holder # NULL THEN s
    ELSE [s EXCEPT !.holder = connection, !.pending[connection] = @ + 1]

\* A faulty tryRegister that takes the subscription over whoever holds it.
TryRegisterAlways(s, connection) ==
    [s EXCEPT !.holder = connection, !.cleared = TRUE, !.pending[connection] = @ + 1]

TryRegister(s, connection) ==
    IF s.holder # NULL
    THEN s
    ELSE [s EXCEPT !.holder = connection,
                   !.cleared = TRUE,
                   !.pending[connection] = @ + 1]

\* A faulty tryRegisterToRandomConnection without the identity check: every
\* failure and every removal re-registers.
TryRegisterToRandomConnectionUnguarded(s, oldConnection) ==
    LET newConnection == GetRandomConnection(s)
    IN  IF newConnection = NULL THEN [s EXCEPT !.holder = NULL]
        ELSE TryRegister([s EXCEPT !.holder = NULL], newConnection)

\* A faulty tryRegisterToRandomConnection that releases the holder only once
\* it has found a replacement.
TryRegisterToRandomConnectionKeepingHolder(s, oldConnection) ==
    LET newConnection == GetRandomConnection(s)
    IN  IF s.holder # oldConnection \/ newConnection = NULL THEN s
        ELSE TryRegister([s EXCEPT !.holder = NULL], newConnection)

TryRegisterToRandomConnection(s, oldConnection) ==
    LET released      == [s EXCEPT !.holder = NULL]
        newConnection == GetRandomConnection(s)
    IN  CASE s.holder # oldConnection -> s
          [] newConnection = NULL     -> released
          [] OTHER                    -> TryRegister(released, newConnection)

\* connection.close() of the connection to a member, if there is one: the
\* transport deletes it from the registry and emits connectionRemoved.
Close(s, uuid) ==
    LET connection == Registry!GetConnectionIn(s.connections, uuid)
        deleted    == [s EXCEPT !.connections = Registry!DeleteConnectionIn(@, uuid)]
    IN  IF connection = NULL THEN s
        ELSE TryRegisterToRandomConnection(deleted, connection)

\* The closes detectMembershipEvents makes for the members that left, in order.
CloseAll(uuids, order) == FoldLeft(Close, Choosing(order), uuids)

\* The transport registers a new connection and emits connectionAdded.
Added(connection, uuid) ==
    TryRegister([Now EXCEPT !.connections =
                     Registry!SetConnectionIn(@, uuid, connection)], connection)

\* A faulty catch handler that gives the registration up.
FailedWithoutRetry(connection, order) ==
    [Now EXCEPT !.pending[connection] = @ - 1]

\* The registration on a connection is rejected: the catch handler runs.
Failed(connection, order) ==
    TryRegisterToRandomConnection(
        [Choosing(order) EXCEPT !.pending[connection] = @ - 1], connection)

-----------------------------------------------------------------------------
(* Steps *)

Init ==
    /\ Registry!Init
    /\ listenerAddedConnection = NULL
    /\ pending = [c \in Connections |-> 0]
    /\ handlers = [c \in Connections |-> 0]
    /\ opened = {}
    /\ failures = 0

\* The transport connects to a member it has no connection to.
ConnectionAdded(connection, uuid) ==
    /\ connection \notin opened
    /\ Registry!GetConnectionIn(activeConnections, uuid) = NULL
    /\ opened' = opened \cup {connection}
    /\ Becomes(Added(connection, uuid))
    /\ UNCHANGED <<clientState, handlers, failures>>

\* A connection is lost or closed.
ConnectionRemoved(uuid, order) ==
    /\ Registry!GetConnectionIn(activeConnections, uuid) # NULL
    /\ Becomes(Close(Choosing(order), uuid))
    /\ UNCHANGED <<clientState, handlers, opened, failures>>

\* The membership tracker closes the connections to the members a view has
\* dropped, in the order of its member list and within its handler: every
\* close is announced, and the subscription moved, before the next is made.
\* A member without a connection is passed over by the loop, so the lists
\* of connected members are all there is to try.
MembersLeft(uuids, order) ==
    /\ \A i \in DOMAIN uuids :
           Registry!GetConnectionIn(activeConnections, uuids[i]) # NULL
    /\ Becomes(CloseAll(uuids, order))
    /\ UNCHANGED <<clientState, handlers, opened, failures>>

\* The member answers the registration: from now on it feeds the handler of
\* this invocation.  The then() callback only logs.
RegistrationSucceeds(connection) ==
    /\ pending[connection] > 0
    /\ IsActive(connection)
    /\ pending' = [pending EXCEPT ![connection] = @ - 1]
    /\ handlers' = [handlers EXCEPT ![connection] = @ + 1]
    /\ UNCHANGED <<clientState, activeConnections, listenerAddedConnection,
                   opened, failures>>

\* The invocation is rejected: because its connection is gone, or, at most
\* MaxFailures times, although it is there.
RegistrationFails(connection, order) ==
    /\ pending[connection] > 0
    /\ IsActive(connection) => failures < MaxFailures
    /\ failures' = IF IsActive(connection) THEN failures + 1 ELSE failures
    /\ Becomes(Failed(connection, order))
    /\ UNCHANGED <<clientState, handlers, opened>>

Next ==
    \/ \E connection \in Connections, uuid \in Uuids : ConnectionAdded(connection, uuid)
    \/ \E uuid \in Uuids, order \in Orders : ConnectionRemoved(uuid, order)
    \/ \E uuids \in SetToAllKPermutations(Uuids), order \in Orders :
           Len(uuids) > 1 /\ MembersLeft(uuids, order)
    \/ \E connection \in Connections : RegistrationSucceeds(connection)
    \/ \E connection \in Connections, order \in Orders :
           RegistrationFails(connection, order)

\* The member behind a live connection answers the registration sent to it.
Fairness ==
    WF_vars(\E connection \in Connections : RegistrationSucceeds(connection))

Spec == Init /\ [][Next]_vars

FairSpec == Spec /\ Fairness

-----------------------------------------------------------------------------
(* Properties *)

TypeOK ==
    /\ Registry!TypeOK
    /\ listenerAddedConnection \in Connections \cup {NULL}
    /\ pending \in [Connections -> {0, 1}]
    /\ handlers \in [Connections -> {0, 1}]
    /\ opened \subseteq Connections
    /\ failures \in 0..MaxFailures

\* The subscription has a carrier exactly when the client has a connection,
\* and the carrier is a connection of the registry: a removal or a failed
\* registration never leaves the holder on a connection that is gone, and
\* never leaves it empty while another connection could take over
\* (connectionRemoved, the catch handler of tryRegister and
\* tryRegisterToRandomConnection).
HolderTracksPool ==
    IF activeConnections = <<>>
    THEN listenerAddedConnection = NULL
    ELSE listenerAddedConnection # NULL /\ IsActive(listenerAddedConnection)

\* No duplicate subscription: on the live connections there is exactly one
\* registration, in flight or accepted, and it is on the holder.  The late
\* failure of a registration that has been superseded must not start another
\* one (the identity check of tryRegisterToRandomConnection), and the
\* failure of the current one must start its successor (the catch handler).
SingleSubscription ==
    \A i \in DOMAIN activeConnections :
        LET connection == activeConnections[i].conn
        IN  pending[connection] + handlers[connection] =
                IF connection = listenerAddedConnection THEN 1 ELSE 0

\* The service implements Subscription: the holder is the carrier, the
\* connections of the registry are the live ones, and the subscription is
\* accepted when the member behind the holder has answered.  A connection
\* that is added never takes the subscription from a holder, and an accepted
\* subscription moves only when the holder's connection is removed
\* (connectionAdded, connectionRemoved and the completions of tryRegister).
Abstract ==
    INSTANCE Subscription WITH
        live     <- {activeConnections[i].conn : i \in DOMAIN activeConnections},
        carrier  <- listenerAddedConnection,
        accepted <- (listenerAddedConnection # NULL
                        /\ handlers[listenerAddedConnection] = 1)

ImplementsSubscription == Abstract!Spec

\* Whenever the client stays connected, the subscription ends up accepted by
\* the member behind the holder: registrations in flight do not linger and a
\* holder without a registration does not remain (tryRegister and its retry).
EventuallySubscribed ==
    <>[](activeConnections # <<>> => handlers[listenerAddedConnection] = 1)

=============================================================================
