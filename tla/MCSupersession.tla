--------------------------- MODULE MCSupersession ---------------------------
(* Four entities: enough for a chain of four, a branch, and a circle with a  *)
(* tail, out of three edges. *)
EXTENDS Supersession
=============================================================================
