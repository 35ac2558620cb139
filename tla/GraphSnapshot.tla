---------------------------- MODULE GraphSnapshot ----------------------------
(***************************************************************************)
(* What an adapter's get_graph_snapshot() returns, and the readings        *)
(* TopologyAnalyzer (src/sme/topology/analyzer.py) takes of it.            *)
(*                                                                         *)
(* A snapshot g has g.ents, a function from the ids of the entities to     *)
(* their name and type, and g.edges, edges with a source s, a target t, a  *)
(* type and the note they were taken from.  Parallel edges, self loops and *)
(* edges with an end that is no entity are all possible.                   *)
(***************************************************************************)
EXTENDS Naturals, FiniteSets

Nodes(g) == DOMAIN g.ents

(* The multigraph: an edge with an unknown end is dropped without a word. *)
Kept(g) == {e \in g.edges : e.s \in Nodes(g) /\ e.t \in Nodes(g)}

(* No edge leads out of S. *)
Sealed(g, S) == \A e \in Kept(g) : e.s \in S <=> e.t \in S

(* The connected component of x: what no sealed set separates from it. *)
Component(g, x) ==
    {y \in Nodes(g) : \A S \in SUBSET Nodes(g) : x \in S /\ Sealed(g, S) => y \in S}

Components(g) == {Component(g, x) : x \in Nodes(g)}

Largest(C) == IF C = {} THEN 0
              ELSE CHOOSE n \in {Cardinality(c) : c \in C} :
                       \A c \in C : Cardinality(c) <= n

(* filtered_subgraph: every node, the edges of the wanted types. *)
WithTypes(g, types) == [g EXCEPT !.edges = {e \in @ : e.type \in types}]

(* edge_type_components: also types only dropped edges have. *)
TypeComponents(g) ==
    [ty \in {e.type : e \in g.edges} |-> Cardinality(Components(WithTypes(g, {ty})))]

(* structural_health: a node is isolated when it has no edge at all. *)
Health(g) ==
    LET C == Components(g)
    IN  [nodes      |-> Cardinality(Nodes(g)),
         edges      |-> Cardinality(Kept(g)),
         components |-> Cardinality(C),
         largest    |-> Largest(C),
         isolated   |-> Cardinality({x \in Nodes(g) :
                            \A e \in Kept(g) : x \notin {e.s, e.t}}),
         types      |-> [ty \in {e.type : e \in Kept(g)} |->
                            Cardinality({e \in Kept(g) : e.type = ty})]]

(* The simple undirected graph, without self loops or parallel edges. *)
Simple(g) == {{e.s, e.t} : e \in Kept(g)} \ {{x} : x \in Nodes(g)}

(* betti_numbers over a component: none below three nodes, skipped above   *)
(* the limit, else loops of hops, of which there are at most as many as    *)
(* independent cycles.                                                     *)
CycleRank(g, C) ==
    LET m == Cardinality({p \in Simple(g) : p \subseteq C})
    IN  IF C = {} THEN 0 ELSE (m + 1) - Cardinality(C)

Betti(g, C, maxNodes) ==
    IF Cardinality(C) < 3 THEN [skipped : {FALSE}, loops : {0}]
    ELSE IF Cardinality(C) > maxNodes THEN [skipped : {TRUE}, loops : {0}]
    ELSE [skipped : {FALSE}, loops : 0 .. CycleRank(g, C)]

=============================================================================
