------------------------- MODULE IngestionIntegrity -------------------------
(***************************************************************************)
(* Category 4 (src/sme/categories/ingestion_integrity.py): entities whose  *)
(* names canonicalize to the same key, entities without a name or a type,  *)
(* the vocabulary of edge types; and the B-Cubed score of the collision    *)
(* groups against a registry of aliases (src/sme/categories/_bcubed.py).   *)
(***************************************************************************)
EXTENDS GraphSnapshot

CONSTANTS
    Canon,      \* Canon[n]: a name in lower case, spaces collapsed
    NoName,     \* no name
    Blank,      \* what Canon has for a name of spaces
    NoType

(* default_canonical_key: <<>> for no name and for one of spaces only. *)
Key(e) == IF e.name = NoName \/ Canon[e.name] = Blank THEN <<>>
          ELSE <<e.type, Canon[e.name]>>

Keys(g) == {Key(g.ents[x]) : x \in Nodes(g)} \ {<<>>}

IdsOf(g, k) == {x \in Nodes(g) : Key(g.ents[x]) = k}

Groups(g) == {IdsOf(g, k) : k \in {j \in Keys(g) : Cardinality(IdsOf(g, j)) > 1}}

\* Fault: The first id of a key is counted too.
Collisions_All(g) == Cardinality(UNION Groups(g))

(* Every id beyond the first of a key. *)
Collisions(g) ==
    Cardinality(UNION {{x \in c : \E y \in c : y < x} : c \in Groups(g)})

(* The report lists the largest groups first and has at most limit. *)
Shown(g, limit) ==
    LET n == IF Cardinality(Groups(g)) <= limit THEN Cardinality(Groups(g)) ELSE limit
    IN  {R \in [1 .. n -> Groups(g)] :
            /\ \A i, j \in 1 .. n : i < j =>
                   R[i] # R[j] /\ Cardinality(R[i]) >= Cardinality(R[j])
            /\ \A i \in 1 .. n, d \in Groups(g) :
                   Cardinality(d) > Cardinality(R[i]) => \E j \in 1 .. n : R[j] = d}

(* Required fields: a name, be it of spaces, and a type. *)
Gaps(g) == {x \in Nodes(g) : g.ents[x].name = NoName \/ g.ents[x].type = <<>>}

(* The exact counts of a server, when it has any, else those of the edges. *)
Vocabulary(g, exact) ==
    IF exact # <<>> THEN exact
    ELSE [ty \in {e.type : e \in g.edges} \ {NoType} |->
             Cardinality({e \in g.edges : e.type = ty})]

Cat4(g, exact, R) ==
    [entities   |-> Cardinality(Nodes(g)),
     edges      |-> Cardinality(g.edges),
     keys       |-> Cardinality(Keys(g)),
     collisions |-> Collisions(g),
     groups     |-> R,
     gaps       |-> Cardinality(Gaps(g)),
     types      |-> Vocabulary(g, exact),
     components |-> TypeComponents(g)]

-----------------------------------------------------------------------------
(* B-Cubed against a registry of aliases, a set of sets of names *)

NamesIn(g) == {g.ents[x].name : x \in Nodes(g)} \ {NoName}

Scope(g, gold) == {n \in UNION {c \in gold : Cardinality(c) > 1} : n \in NamesIn(g)}

(* A listed group is a cluster of names when two of its ids have names in  *)
(* scope, also twice the same one; a name in two of them goes to the later *)
(* one, and an earlier one is left to the names it still has; names in     *)
(* none stay alone.                                                        *)
InScope(g, gold, c) == {x \in c : g.ents[x].name \in Scope(g, gold)}

Clusters(g, gold, R) ==
    LET names(i) == IF Cardinality(InScope(g, gold, R[i])) > 1
                    THEN {g.ents[x].name : x \in InScope(g, gold, R[i])} ELSE {}
    IN  {names(i) : i \in {k \in DOMAIN R : \E n \in names(k) :
                               \A j \in DOMAIN R : j > k => n \notin names(j)}}

\* Fault: Names of no group are left out.
Predicted_Groups(g, gold, R) == Clusters(g, gold, R)

Predicted(g, gold, R) ==
    Clusters(g, gold, R) \cup {{n} : n \in Scope(g, gold) \ UNION Clusters(g, gold, R)}

GoldClusters(g, gold) ==
    {c \cap NamesIn(g) : c \in {d \in gold : Cardinality(d) > 1}} \ {{}}

Partition(P) == \A c, d \in P : c # d => c \cap d = {}

(* bcubed_score: the items' precisions and recalls, each as its parts of a *)
(* unit, which are counted; raises for clusters that overlap or cover      *)
(* different items.                                                        *)
Raises(P, T) == ~Partition(P) \/ ~Partition(T) \/ UNION P # UNION T \/ P = {} \/ T = {}

ClusterOf(P, n) == CHOOSE c \in P : n \in c

BCubed(P, T, unit) ==
    LET Shared(n) == Cardinality(ClusterOf(P, n) \cap ClusterOf(T, n))
        Parts(C) == {q \in (UNION C) \X (1 .. unit) :
                         q[2] <= (unit * Shared(q[1])) \div Cardinality(ClusterOf(C, q[1]))}
    IN  [kind |-> "scored", items |-> Cardinality(UNION P),
         precision |-> Cardinality(Parts(P)), recall |-> Cardinality(Parts(T))]

(* score_alias_resolution_against_gold, over the listed groups. *)
AliasScore(g, gold, R, unit) ==
    LET P == Predicted(g, gold, R)
        T == GoldClusters(g, gold)
    IN  IF Scope(g, gold) = {} THEN [kind |-> "none"]
        ELSE IF Raises(P, T) THEN [kind |-> "raises"]
        ELSE BCubed(P, T, unit)

=============================================================================
