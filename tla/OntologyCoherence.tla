-------------------------- MODULE OntologyCoherence --------------------------
(***************************************************************************)
(* Category 8 (src/sme/categories/ontology_coherence.py): the declared     *)
(* vocabulary against the snapshot's, and the claims of the documentation. *)
(*                                                                         *)
(* The type of an entity is the sequence of its parts ("drawer:hall" is    *)
(* <<drawer, hall>>); Fold[ty] is an edge type in lower case.              *)
(***************************************************************************)
EXTENDS GraphSnapshot, Sequences, SequencesExt

CONSTANTS
    Fold        \* edge types in lower case

EntityTypes(g) == {g.ents[x].type : x \in Nodes(g)}
EdgeTypes(g) == {e.type : e \in g.edges}

(* _types_match: the very type, or one of its refinements. *)
TypesMatch(d, ty) == d # <<>> /\ IsPrefix(d, ty)

FoundTypes(g, declared) == {d \in declared : \E ty \in EntityTypes(g) : TypesMatch(d, ty)}

(* Undeclared by the first part only: the refinement of a refinement that  *)
(* is declared counts for it and is undeclared all the same.               *)
UndeclaredTypes(g, declared) ==
    {ty \in EntityTypes(g) :
        ~ \E d \in declared : d = ty \/ (Len(d) = 1 /\ IsPrefix(d, ty))}

(* Edge types are found in any case, but declared in their own only. *)
FoundEdges(g, declared) ==
    {d \in declared : d \in EdgeTypes(g) \/ \E ty \in EdgeTypes(g) : Fold[d] = Fold[ty]}

UndeclaredEdges(g, declared) == EdgeTypes(g) \ declared

(* More than four fifths of the entities have one type. *)
Concentrated(g) ==
    \E ty \in EntityTypes(g) :
        5 * Cardinality({x \in Nodes(g) : g.ents[x].type = ty}) > 4 * Cardinality(Nodes(g))

Declared(o) == Cardinality(o.types) + Cardinality(o.edges)
Used(g, o) == Cardinality(FoundTypes(g, o.types)) + Cardinality(FoundEdges(g, o.edges))

-----------------------------------------------------------------------------
(* Claims *)

\* Fault: Every claim is tested against the first snapshot.
Routed_Never(c, primary, kg) == primary

(* The graph a claim is about: the knowledge graph when there is one. *)
Routed(c, primary, kg) == IF c.graph = "kg" /\ kg # <<>> THEN kg[1] ELSE primary

(* An undirected graph without edges has modularity, density and           *)
(* homogeneity zero; else Louvain's communities decide.                    *)
Topological(g, c) ==
    IF {{e.s, e.t} : e \in Kept(g)} = {} THEN {"fail"} ELSE {"pass", "fail"}

Most(g, S) == IF g.edges # {} /\ 2 * Cardinality(S) > Cardinality(g.edges)
              THEN {"pass"} ELSE {"fail"}

(* _score_claim, in the order of its tests: the denylist, a definition of  *)
(* the claim's own, the library; data of other categories may be missing.  *)
NoData == {"skipped"}

Statuses(primary, kg, c, data) ==
    CASE c.kind \in {"denied", "unmatched", "unknown"} -> {"untestable"}
      [] c.kind = "topology" -> Topological(Routed(c, primary, kg), c)
      [] c.kind \in {"override", "retrieval"} /\ ~data -> NoData
      [] c.kind \in {"override", "retrieval"} /\ data -> {"pass", "fail"}
      [] c.kind = "dated" -> Most(primary, {e \in primary.edges : e.dated})

(* The rate is over passed and failed claims, zero when there are none. *)
ClaimReport(st) ==
    [tested     |-> Cardinality({c \in DOMAIN st : st[c] \in {"pass", "fail"}}),
     passed     |-> Cardinality({c \in DOMAIN st : st[c] = "pass"}),
     untestable |-> Cardinality({c \in DOMAIN st : st[c] = "untestable"})]

(* score_cat8 *)
Cat8(g, o, st) ==
    [declared     |-> Declared(o),
     used         |-> Used(g, o),
     undeclared   |-> Cardinality(UndeclaredTypes(g, o.types))
                          + Cardinality(UndeclaredEdges(g, o.edges)),
     concentrated |-> Concentrated(g),
     claims       |-> ClaimReport(st)]

=============================================================================
