--------------------------- MODULE MCSqlRowMetadata ---------------------------
(***************************************************************************)
(* SqlRowMetadata for TLC: three names, one of which every object          *)
(* inherits, and up to three columns, so that a name occurs twice with     *)
(* another one in between.                                                 *)
(***************************************************************************)
EXTENDS SqlRowMetadata

MCColumnNames    == {"__key", "this", "toString"}
MCInheritedNames == {"toString"}
MCColumnTypes    == {"VARCHAR", "OBJECT"}

=============================================================================
