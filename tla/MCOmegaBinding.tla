--------------------------- MODULE MCOmegaBinding ---------------------------
(* OmegaBinding with two adapters, each made at most once, one background  *)
(* thread, corpora of one row and two attempts at a bind or a read.        *)
EXTENDS OmegaBinding
=============================================================================
