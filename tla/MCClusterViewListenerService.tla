--------------------- MODULE MCClusterViewListenerService ---------------------
(***************************************************************************)
(* ClusterViewListenerService for TLC.  Three members and four connection  *)
(* objects let the client lose the holder while two other connections are  *)
(* open, so that the choice of the successor is a real one, reconnect to a *)
(* member it lost, and have the registration of a closed connection fail   *)
(* after its successor was chosen.                                         *)
(***************************************************************************)
EXTENDS ClusterViewListenerService

MCConnectionStrategy == [asyncStart |-> FALSE, reconnectMode |-> "ON"]

=============================================================================
