--------------------------- MODULE MCCollections ---------------------------
(* A finite instance of Collections. *)
EXTENDS Collections
=============================================================================
