---------------------------- MODULE ClientCluster ----------------------------
(***************************************************************************)
(* The client's picture of the cluster: the registry and the cluster view  *)
(* listener service (ClusterViewListenerService) together with the         *)
(* membership tracker (ClusterService), facing a cluster.                  *)
(*                                                                         *)
(* The two components call each other.  tryRegister calls                  *)
(* clearMemberListVersion; handleMembersViewEvent, called by the handler   *)
(* of the subscription, closes the connections of the members that left,   *)
(* which runs connectionRemoved and possibly tryRegister, all before       *)
(* handleMembersViewEvent returns.  A step of this module is the           *)
(* conjunction of what such a call chain does to each component.           *)
(*                                                                         *)
(* The cluster is modelled from the specification: it has one member list  *)
(* with a version, every member that accepted a subscription pushes the    *)
(* list it has not pushed yet, a membership change raises the version, and *)
(* a restart, which the client cannot be connected through, starts the     *)
(* versions again from 1.  A member may still push the list that drops it, *)
(* and a member may lag: it pushes the list before the current one, which  *)
(* it still believes in, and the current one later.                        *)
(***************************************************************************)
EXTENDS Integers, Sequences, FiniteSets

CONSTANTS
    Uuids, Connections, ConnectionStrategy, NULL, MaxFailures,  \* as in ClusterViewListenerService
    ListenerIds, MaxVersion, MaxResets,                         \* as in ClusterService
    MaxChanges      \* bound: membership changes and restarts of the cluster

VARIABLES
    clientState, activeConnections, listenerAddedConnection, pending, handlers,
    opened, failures,
    memberListSnapshot, listeners, initialListFetched, resolved, applying,
    clusterView,    \* [version, memberList] of the cluster
    previousView,   \* the one before it, which a member that lags still has
    delivered,      \* connection -> the version last pushed over it, 0 if none
    changes         \* membership changes and restarts so far

LS == INSTANCE ClusterViewListenerService
CS == INSTANCE ClusterService WITH Members <- Uuids

listenerSideVars == <<clientState, activeConnections, listenerAddedConnection,
                      pending, handlers, opened, failures>>
trackerVars     == <<memberListSnapshot, listeners, initialListFetched, resolved, applying>>
clusterSideVars == <<clusterView, previousView, delivered, changes>>
vars == <<listenerSideVars, trackerVars, clusterSideVars>>

-----------------------------------------------------------------------------

Init ==
    /\ LS!Init
    /\ CS!Init
    /\ clusterView \in [version : CS!Versions, memberList : CS!Views]
    /\ previousView = clusterView
    /\ delivered = [c \in Connections |-> 0]
    /\ changes = 0

\* What a chain of the listener service that ended in state s does to the
\* tracker: tryRegister, if it was reached, cleared the version.
Clears(s) ==
    IF s.cleared THEN CS!ClearMemberListVersion ELSE UNCHANGED trackerVars

ConnectionAdded(connection, uuid) ==
    /\ LS!ConnectionAdded(connection, uuid)
    /\ Clears(LS!Added(connection, uuid))
    /\ UNCHANGED clusterSideVars

ConnectionRemoved(uuid, order) ==
    /\ LS!ConnectionRemoved(uuid, order)
    /\ Clears(LS!Close(LS!Choosing(order), uuid))
    /\ UNCHANGED clusterSideVars

RegistrationSucceeds(connection) ==
    /\ LS!RegistrationSucceeds(connection)
    /\ UNCHANGED <<trackerVars, clusterSideVars>>

RegistrationFails(connection, order) ==
    /\ LS!RegistrationFails(connection, order)
    /\ Clears(LS!Failed(connection, order))
    /\ UNCHANGED clusterSideVars

\* The member behind an accepted subscription pushes a member list it has
\* not pushed yet, the cluster's or the one before: the handler of
\* createClusterViewEventHandler passes it to handleMembersViewEvent, whose
\* closes go through the listener service.
MembersViewEvent(connection, view, order) ==
    LET updates == /\ memberListSnapshot # CS!EMPTY_SNAPSHOT
                   /\ view.version >= memberListSnapshot.version
        closed  == IF updates
                   THEN LS!CloseAll(CS!DeadMembers(CS!GetMemberList, view.memberList),
                                    order)
                   ELSE LS!Now
    IN  /\ handlers[connection] > 0
        /\ LS!IsActive(connection)
        /\ delivered[connection] < view.version
        /\ delivered' = [delivered EXCEPT ![connection] = view.version]
        /\ CS!HandleMembersViewEvent(view.version, view.memberList, closed.cleared)
        /\ LS!Becomes(closed)
        /\ UNCHANGED <<clientState, handlers, opened, failures,
                       clusterView, previousView, changes>>

\* getLocalClient: the client as the cluster knows it.  Its local address is
\* that of the connection getRandomConnection answers, null without one;
\* the uuid, the labels and the name never change and are left out.
GetLocalClient(order) ==
    LET connection == LS!GetRandomConnection(LS!Choosing(order))
    IN  [localAddress |-> IF connection # NULL THEN <<"local", connection>> ELSE NULL]

\* The steps of the tracker that concern nobody else.
TrackerStep ==
    /\ \/ \E deferred \in CS!Deferreds : CS!InitialStateApplied(deferred)
       \/ \E deferred \in CS!Deferreds : CS!InitialStateFailed(deferred)
       \/ \E id \in ListenerIds, kind \in CS!ListenerKinds :
              CS!AddMembershipListener(id, kind)
       \/ \E id \in DOMAIN listeners : CS!RemoveMembershipListener(id)
    /\ UNCHANGED <<listenerSideVars, clusterSideVars>>

\* reset() is called on a cluster switch, when no connection is left.
ClusterSwitch ==
    /\ activeConnections = <<>>
    /\ CS!Reset
    /\ UNCHANGED <<listenerSideVars, clusterSideVars>>

MembershipChanges(memberList) ==
    /\ changes < MaxChanges
    /\ clusterView.version < MaxVersion
    /\ memberList # clusterView.memberList
    /\ clusterView' = [version |-> clusterView.version + 1, memberList |-> memberList]
    /\ previousView' = clusterView
    /\ changes' = changes + 1
    /\ UNCHANGED <<listenerSideVars, trackerVars, delivered>>

ClusterRestarts(memberList) ==
    /\ changes < MaxChanges
    /\ activeConnections = <<>>
    /\ clusterView' = [version |-> 1, memberList |-> memberList]
    /\ previousView' = clusterView'
    /\ changes' = changes + 1
    /\ UNCHANGED <<listenerSideVars, trackerVars, delivered>>

Next ==
    \/ \E connection \in Connections, uuid \in Uuids : ConnectionAdded(connection, uuid)
    \/ \E uuid \in Uuids, order \in LS!Orders : ConnectionRemoved(uuid, order)
    \/ \E connection \in Connections : RegistrationSucceeds(connection)
    \/ \E connection \in Connections, order \in LS!Orders :
           RegistrationFails(connection, order)
    \/ \E connection \in Connections, view \in {previousView, clusterView},
          order \in LS!Orders : MembersViewEvent(connection, view, order)
    \/ TrackerStep
    \/ ClusterSwitch
    \/ \E memberList \in CS!Views : MembershipChanges(memberList)
    \/ \E memberList \in CS!Views : ClusterRestarts(memberList)

\* The member behind a live connection answers the registration sent to it
\* and pushes its member list to its subscriber.
Fairness ==
    /\ WF_vars(\E connection \in Connections : RegistrationSucceeds(connection))
    /\ WF_vars(\E connection \in Connections, view \in {previousView, clusterView},
                  order \in LS!Orders : MembersViewEvent(connection, view, order))

Spec == Init /\ [][Next]_vars

FairSpec == Spec /\ Fairness

-----------------------------------------------------------------------------
(* Properties *)

TypeOK ==
    /\ LS!TypeOK
    /\ CS!TypeOK
    /\ clusterView \in [version : CS!Versions, memberList : CS!Views]
    /\ previousView \in [version : CS!Versions, memberList : CS!Views]
    /\ delivered \in [Connections -> 0..MaxVersion]
    /\ changes \in 0..MaxChanges

\* The first member list of every subscription is accepted: from the moment
\* a connection becomes the holder until its member has pushed a list, the
\* snapshot is empty or its version is 0, so no version the previous
\* subscription left behind can make the tracker ignore the new member
\* (clearMemberListVersion in tryRegister; handleMembersViewEvent installs
\* the snapshot before the closes that may re-register).
SubscriptionStartsWithOpenGate ==
    (listenerAddedConnection # NULL /\ delivered[listenerAddedConnection] = 0)
        => memberListSnapshot.version <= 0

\* The tracker never ignores a member list of its subscription.  The
\* version check of handleMembersViewEvent meets only versions it lets
\* through: tryRegister clears the version whenever the subscription moves,
\* and the lists of one subscription arrive in the order of their versions.
\* So a list pushed over the holder's connection is applied also after a
\* restart of the cluster has started the versions again, behind a member
\* that lags, and when the subscription moved from inside the handler.
ViewsOfTheSubscriptionAreApplied ==
    [][\A connection \in Connections, view \in {previousView, clusterView},
          order \in LS!Orders :
          MembersViewEvent(connection, view, order) =>
              \/ memberListSnapshot = CS!EMPTY_SNAPSHOT
              \/ view.version >= memberListSnapshot.version]_vars

\* The client converges to the cluster: once the cluster has stopped
\* changing, a client that stays connected ends up with the cluster's
\* member list, across lost holders, refused registrations, members that
\* lag, cluster restarts and cluster switches (ClusterViewListenerService
\* and handleMembersViewEvent together).  A client that ends without a
\* connection is not spoken of.
Converges ==
    <>[](activeConnections # <<>> => CS!GetMemberList = clusterView.memberList)

=============================================================================
