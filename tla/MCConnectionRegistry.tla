------------------------ MODULE MCConnectionRegistry ------------------------
(***************************************************************************)
(* ConnectionRegistry for TLC: three member identities and two connection  *)
(* objects, so that an identity is overwritten, deleted and re-inserted    *)
(* behind others.                                                          *)
(***************************************************************************)
EXTENDS ConnectionRegistry

MCConnectionStrategy == [asyncStart |-> FALSE, reconnectMode |-> "ON"]

=============================================================================
