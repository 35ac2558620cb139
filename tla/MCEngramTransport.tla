-------------------------- MODULE MCEngramTransport --------------------------
(* The engram transport for TLC. *)
EXTENDS EngramTransport
=============================================================================
