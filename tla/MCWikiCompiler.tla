--------------------------- MODULE MCWikiCompiler ---------------------------
(* Two notes, each with an article file of its own. *)
EXTENDS WikiCompiler

MCPaths  == {"a/b.md", "c.md"}
MCFiles  == {"a__b.md", "c.md"}
MCRank   == [n \in MCPaths |-> IF n = "a/b.md" THEN 1 ELSE 2]
MCFileOf == [n \in MCPaths |-> IF n = "a/b.md" THEN "a__b.md" ELSE n]
=============================================================================
