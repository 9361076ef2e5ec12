------------------------------ MODULE MCAwait ------------------------------
(* Finite instances of Await. *)
EXTENDS Await
=============================================================================
