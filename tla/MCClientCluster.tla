--------------------------- MODULE MCClientCluster ---------------------------
(***************************************************************************)
(* ClientCluster for TLC.  Two members are enough for a list that drops    *)
(* the holder's member while another connection is open; three connection  *)
(* objects let the client lose everything and connect again after a        *)
(* restart of the cluster.                                                 *)
(***************************************************************************)
EXTENDS ClientCluster, TLC

MCConnectionStrategy == [asyncStart |-> FALSE, reconnectMode |-> "ON"]

MCSymmetry == Permutations(Uuids) \cup Permutations(Connections)
                  \cup Permutations(ListenerIds)

=============================================================================
