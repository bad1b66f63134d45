-------------------------- MODULE MCClusterService --------------------------
(***************************************************************************)
(* ClusterService for TLC.  Three members give views that remove and add   *)
(* in one step and lists whose order differs; two listeners let one        *)
(* register before and one after the first view; two resets let a refresh  *)
(* started under one deferred finish under the next but one.               *)
(***************************************************************************)
EXTENDS ClusterService, TLC

MCSymmetry == Permutations(Members) \cup Permutations(ListenerIds)

=============================================================================
