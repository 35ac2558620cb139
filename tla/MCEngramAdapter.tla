--------------------------- MODULE MCEngramAdapter ---------------------------
(* Two corpora that share a text with each other and within themselves.      *)
EXTENDS EngramAdapter

MCRows    == {"a", "b", "c", "x", "y"}
MCTexts   == {"t", "u"}
MCTextOf  == [r \in MCRows |-> CASE r \in {"a", "b", "y"} -> "t"
                                 [] r = "x" -> "u"
                                 [] r = "c" -> "blank"]
MCCorpora == << <<"a", "c", "b">>, <<"x", "y">> >>
=============================================================================
