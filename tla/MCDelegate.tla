----------------------------- MODULE MCDelegate -----------------------------
(* A finite instance of Delegate. *)
EXTENDS Delegate
=============================================================================
