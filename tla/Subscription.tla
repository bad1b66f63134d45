----------------------------- MODULE Subscription -----------------------------
(***************************************************************************)
(* What the cluster view listener service promises, without saying how:    *)
(* the subscription is carried by one of the live connections, by one      *)
(* whenever there is any, and once the carrier's member has accepted it,   *)
(* it stays where it is until that connection is lost.                     *)
(***************************************************************************)
CONSTANTS Connections, NULL

VARIABLES
    live,       \* the connections that are open
    carrier,    \* the connection that carries the subscription, or NULL
    accepted    \* whether the carrier's member has accepted it

vars == <<live, carrier, accepted>>

Init ==
    /\ live = {}
    /\ carrier = NULL
    /\ accepted = FALSE

\* The carriers a set of live connections may have.
Carriers(connections) == IF connections = {} THEN {NULL} ELSE connections

\* A new connection carries the subscription only if nobody does.
Open(connection) ==
    /\ connection \notin live
    /\ live' = live \cup {connection}
    /\ carrier' = IF carrier = NULL THEN connection ELSE carrier
    /\ UNCHANGED accepted

\* Connections are lost, one or several at once; if the carrier is among
\* them, one of the remaining connections takes over and has to be accepted.
Lose(connections) ==
    /\ connections # {}
    /\ connections \subseteq live
    /\ live' = live \ connections
    /\ IF carrier \in connections
       THEN carrier' \in Carriers(live') /\ accepted' = FALSE
       ELSE UNCHANGED <<carrier, accepted>>

Accept ==
    /\ carrier # NULL
    /\ ~accepted
    /\ accepted' = TRUE
    /\ UNCHANGED <<live, carrier>>

\* The carrier's member refuses: a live connection, possibly the same, is
\* asked next.
Refuse ==
    /\ carrier # NULL
    /\ ~accepted
    /\ carrier' \in live
    /\ UNCHANGED <<live, accepted>>

Next ==
    \/ \E connection \in Connections : Open(connection)
    \/ \E connections \in SUBSET Connections : Lose(connections)
    \/ Accept
    \/ Refuse

Spec == Init /\ [][Next]_vars

=============================================================================
