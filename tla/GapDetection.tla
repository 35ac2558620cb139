---------------------------- MODULE GapDetection ----------------------------
(***************************************************************************)
(* Category 5 (src/sme/categories/gap_detection.py): components, isolates, *)
(* bridges and candidate gaps, pairs of components that share entity types *)
(* and so may lack an edge.                                                *)
(***************************************************************************)
EXTENDS GraphSnapshot, Sequences

(* score_gap_detection counts a component of one node as isolated, also    *)
(* when the node has an edge to itself.                                    *)
Isolates(g) == {c \in Components(g) : Cardinality(c) = 1}

SameComponent(g, x, y) == y \in Component(g, x)

\* Fault: the projection keeps the self loops out but not the pair itself.
Without_Keeps(g, p) == g

Without(g, p) == [g EXCEPT !.edges = {e \in @ : {e.s, e.t} # p}]

(* _structural_bridges: bridges of the simple graph. *)
Bridges(g) ==
    {p \in Simple(g) : \E x, y \in p : ~SameComponent(Without(g, p), x, y)}

-----------------------------------------------------------------------------
(* Candidate gaps *)

Sized(g, min) == {c \in Components(g) : Cardinality(c) >= min}

TypesIn(g, c) == {g.ents[x].type : x \in c} \ {<<>>}

Occurrences(S, g, ty) == Cardinality({c \in S : ty \in TypesIn(g, c)})

(* At most half of the sized components have the type; with two or fewer   *)
(* of them every shared type counts (flat rarity).                         *)
Discriminating(S, g, ty) ==
    Cardinality(S) <= 2 \/ 2 * Occurrences(S, g, ty) <= Cardinality(S)

RareShared(S, g, p) ==
    {ty \in UNION {TypesIn(g, c) : c \in p} :
        /\ \A c \in p : ty \in TypesIn(g, c)
        /\ Discriminating(S, g, ty)}

(* The pairs in front of which no other has both more shared rare types    *)
(* and larger components come first: what is left of the score.            *)
Pairs(S) == {p \in SUBSET S : Cardinality(p) = 2}

Smaller(p) == CHOOSE n \in {Cardinality(c) : c \in p} : \A c \in p : n <= Cardinality(c)

Outranks(S, g, p, q) ==
    /\ Smaller(p) >= Smaller(q) /\ RareShared(S, g, q) \subseteq RareShared(S, g, p)
    /\ Smaller(p) > Smaller(q) \/ RareShared(S, g, p) # RareShared(S, g, q)

Candidates(g, min) ==
    LET S == Sized(g, min)
    IN  {p \in Pairs(S) : RareShared(S, g, p) # {}}

(* The report has the first top of them, in any order the score leaves. *)
Reported(g, min, top) ==
    LET C == Candidates(g, min)
        n == IF Cardinality(C) <= top THEN Cardinality(C) ELSE top
    IN  {R \in SUBSET C :
            /\ Cardinality(R) = n
            /\ \A p \in R, q \in C : Outranks(Sized(g, min), g, q, p) => q \in R}

-----------------------------------------------------------------------------
(* Scores against seeded gaps *)

Known(g, seeds) == {q \in seeds : q[1] \in Nodes(g) /\ q[2] \in Nodes(g)}

PairOf(g, q) == {Component(g, q[1]), Component(g, q[2])}

Recalled(g, seeds, R) ==
    {q \in Known(g, seeds) : ~SameComponent(g, q[1], q[2]) /\ PairOf(g, q) \in R}

(* Recall is over every seed whose ends are known, precision over the      *)
(* reported pairs; a fraction is kept as numerator and denominator.        *)
SeedScore(g, seeds, R) ==
    [recalled |-> Cardinality(Recalled(g, seeds, R)),
     seeded   |-> Cardinality(Known(g, seeds)),
     reported |-> Cardinality(R)]

(* Of a largest component, any of them; of none for an empty graph. *)
Homology(g, maxNodes) ==
    UNION {Betti(g, C, maxNodes) :
               C \in {c \in Components(g) \cup {{}} : Cardinality(c) = Largest(Components(g))}}

Cat5(g, min, R, seeds, betti) ==
    [nodes      |-> Cardinality(Nodes(g)),
     edges      |-> Cardinality(Kept(g)),
     components |-> Cardinality(Components(g)),
     largest    |-> Largest(Components(g)),
     isolated   |-> Cardinality(Isolates(g)),
     bridges    |-> Bridges(g),
     considered |-> Cardinality(Pairs(Sized(g, min))),
     gaps       |-> R,
     betti      |-> betti,
     score      |-> SeedScore(g, seeds, R)]

=============================================================================
