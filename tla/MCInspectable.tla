--------------------------- MODULE MCInspectable ---------------------------
(* A finite instance of Inspectable. *)
EXTENDS Inspectable
=============================================================================
