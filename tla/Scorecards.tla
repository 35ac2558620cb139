----------------------------- MODULE Scorecards -----------------------------
(***************************************************************************)
(* The structural commands of sme-eval (src/sme/cli.py): analyze, check,   *)
(* cat4, cat5, cat8 and the phantom edge reading, each over a snapshot of  *)
(* its own.  None of them writes to the graph.                             *)
(*                                                                         *)
(* A palace daemon has two graphs, the scaffold of wings and rooms and the *)
(* knowledge graph; its adapter shows one of them, and the commands do not *)
(* ask for the same one.  Any other adapter has one graph only.            *)
(***************************************************************************)
EXTENDS GapDetection, IngestionIntegrity, PhantomEdges, OntologyCoherence

CONSTANTS
    Ids,            \* ids of entities; Ghost is an id of none
    Ghost,
    Kinds,          \* a sequence of entities
    Wires,          \* edges without their ends
    Scaffold,       \* the scaffold of a palace daemon
    MaxDrawn,       \* MaxDrawn[n]: a bound on the edges of n entities
    MaxLost,        \* a bound on the edges a sample leaves out
    Gold,           \* a registry of aliases
    Unit,           \* one, in the sums of the alias score
    MaxNodes,       \* --betti-max-nodes
    Seeds,          \* seeded gaps
    Sizes,          \* --min-component-size
    Top,            \* gaps listed
    Limits,         \* lengths of the list of collision groups (10 in the code)
    Ontologies      \* declared vocabularies with their claims

VARIABLES
    g,              \* the graph the adapter reads (the knowledge graph)
    daemon,         \* the adapter is that of a palace daemon
    report          \* the report of the command, none before it

scoresvars == <<g, daemon, report>>

(* What an adapter may answer: entities and edges, whose ends may be       *)
(* entities or not.                                                        *)
Readable(h) ==
    /\ h = [ents |-> h.ents, edges |-> h.edges]
    /\ Nodes(h) \subseteq Ids /\ IsFiniteSet(h.edges)
    /\ \A e \in h.edges :
          /\ e = [s |-> e.s, t |-> e.t, type |-> e.type, note |-> e.note,
                  flag |-> e.flag, dated |-> e.dated]
          /\ {e.s, e.t} \subseteq Ids \cup {Ghost}

(* No name is an alias in two entries of the registry. *)
ASSUME ScorecardsAssumption ==
    /\ Ids \subseteq Nat \ {0} /\ IsFiniteSet(Ids) /\ \A n \in Ids : 1 .. n \subseteq Ids
    /\ Ghost \notin Ids
    /\ Readable(Scaffold)
    /\ Unit \in Nat \ {0} /\ Limits \subseteq Nat
    /\ \A c, d \in Gold : c # d => c \cap d = {}
    /\ IsFiniteSet(Seeds)
    /\ \A o \in Ontologies :
          /\ IsFiniteSet(o.types) /\ IsFiniteSet(o.edges) /\ IsFiniteSet(o.claims)
          /\ \A d \in o.types : d \in Seq(Range(d))

NoReport == [cmd |-> "none"]

(* Any graph of a few entities and edges, listed kind by kind. *)
SomeGraphs ==
    UNION {{[ents |-> [x \in 1 .. n |-> Kinds[k[x]]], edges |-> {}] :
                k \in {f \in [1 .. n -> DOMAIN Kinds] :
                          \A i, j \in 1 .. n : i < j => f[i] <= f[j]}} : n \in Ids}

Wired(p, w) == [s |-> p[1], t |-> p[2], type |-> w.type, note |-> w.note,
               flag |-> w.flag, dated |-> w.dated]

(* One wire for the edges from the first entity and one for the others; a  *)
(* self loop, an edge to no entity and both directions of a pair occur.    *)
WireUp(h) ==
    LET ends  == {p \in Nodes(h) \X (Nodes(h) \cup {Ghost}) :
                     \/ p[1] < p[2] /\ (p[2] = Ghost => p[1] = 1)
                     \/ p[2] = 1 /\ p[1] \in {1, 2}}
        pairs == {P \in SUBSET ends : Cardinality(P) <= MaxDrawn[Cardinality(Nodes(h))]}
    IN  {{Wired(p, IF p[1] = 1 THEN w ELSE v) : p \in P} : P \in pairs, w \in Wires, v \in Wires}

ScoresInit ==
    /\ \E h \in SomeGraphs : \E E \in WireUp(h) : g = [h EXCEPT !.edges = E]
    /\ daemon \in BOOLEAN
    /\ report = NoReport

-----------------------------------------------------------------------------
(* Commands *)

(* graph_kg_only: set by cat4, cat5 and check unless they are told to read *)
(* the scaffold, by cat8 only when it is told to, never by analyze.        *)
KgOnly(cmd, flag) ==
    CASE cmd \in {"cat4", "cat5", "check"} -> ~flag
      [] cmd = "cat8" -> flag
      [] cmd = "analyze" -> FALSE

(* A daemon answers with a sample of the knowledge graph's edges. *)
Snapshots(cmd, flag) ==
    IF ~daemon THEN {g}
    ELSE IF KgOnly(cmd, flag) THEN {[g EXCEPT !.edges = @ \ E] :
                               E \in {D \in SUBSET g.edges : Cardinality(D) <= MaxLost}}
    ELSE {Scaffold}

(* The exact counts of a daemon, for cat4 over the knowledge graph; cat4   *)
(* does without them when they cannot be fetched.                          *)
Exact(flag) == {<<>>} \cup IF daemon /\ ~flag THEN {Vocabulary(g, <<>>)} ELSE {}

(* No command writes anything, so one report at a time is enough. *)
Idle == report = NoReport

Say(cmd, h, flag, body) ==
    /\ report' = [cmd |-> cmd, over |-> h, flag |-> flag, body |-> body]
    /\ UNCHANGED <<g, daemon>>

Analyze ==
    /\ Idle
    /\ \E h \in Snapshots("analyze", FALSE) : Say("analyze", h, FALSE, Health(h))

(* cmd_cat4, with the alias score when a registry is given. *)
RunCat4(flag) ==
    /\ Idle
    /\ \E h \in Snapshots("cat4", flag), exact \in Exact(flag), limit \in Limits :
       \E R \in Shown(h, limit) :
        Say("cat4", h, flag,
            [cat4 |-> Cat4(h, exact, R), alias |-> AliasScore(h, Gold, R, Unit)])

(* cmd_check: Category 4 over the edges of the snapshot, then Category 5. *)
Check(flag) ==
    /\ Idle
    /\ \E h \in Snapshots("check", flag), limit \in Limits :
       \E R \in Shown(h, limit), G \in Reported(h, 3, Top), betti \in Homology(h, MaxNodes) :
        Say("check", h, flag,
            [cat4 |-> Cat4(h, <<>>, R), cat5 |-> Cat5(h, 3, G, {}, betti)])

RunCat5(flag) ==
    /\ Idle
    /\ \E h \in Snapshots("cat5", flag), min \in Sizes :
       \E R \in Reported(h, min, Top), betti \in Homology(h, MaxNodes) :
        Say("cat5", h, flag, [cat5 |-> Cat5(h, min, R, Seeds, betti), min |-> min])

(* cmd_cat8: a second snapshot for claims about the knowledge graph, unless *)
(* the first is it or no claim asks; reading it may fail.                  *)
KgFor(h, flag, o) ==
    IF flag THEN {<<h>>}
    ELSE IF daemon /\ \E c \in o.claims : c.graph = "kg"
         THEN {<<>>} \cup {<<k>> : k \in Snapshots("cat8", TRUE)}
    ELSE {<<>>}

RunCat8(flag) ==
    /\ Idle
    /\ \E h \in Snapshots("cat8", flag), o \in Ontologies, data \in BOOLEAN :
       \E kg \in KgFor(h, flag, o) :
       \E st \in {f \in [o.claims -> {"pass", "fail", "skipped", "untestable"}] :
                  \A c \in o.claims : f[c] \in Statuses(h, kg, c, data)} :
        Say("cat8", h, flag,
            [cat8 |-> Cat8(h, o, st), o |-> o, kg |-> kg, status |-> st])

ReadPhantoms == Idle /\ Say("phantom", g, FALSE, Phantom(g))

ScoresNext ==
    \/ Analyze \/ ReadPhantoms
    \/ \E flag \in BOOLEAN : RunCat4(flag) \/ RunCat5(flag) \/ Check(flag) \/ RunCat8(flag)

ScoresSpec == ScoresInit /\ [][ScoresNext]_scoresvars

-----------------------------------------------------------------------------
(* Two commands over the same snapshot say the same of it, up to what      *)
(* their counts really count: cat5 takes a node whose only edges are to    *)
(* itself for isolated and analyze does not, cat4 counts edges without an  *)
(* entity at one end and its vocabulary is the server's in a daemon, and   *)
(* such edges, when their note is known, are always phantom.               *)
OnlyLoops(h) == {x \in Nodes(h) : /\ \E e \in h.edges : e.s = x /\ e.t = x
                                  /\ \A e \in Kept(h) : x \in {e.s, e.t} => e.s = e.t}

ReadingsAgree ==
    LET h == report.over
        b == report.body
    IN  /\ report.cmd = "cat5" =>
            LET a == Health(h)
                s == b.cat5
            IN  /\ <<a.nodes, a.edges, a.components, a.largest>>
                     = <<s.nodes, s.edges, s.components, s.largest>>
                /\ s.isolated = a.isolated + Cardinality(OnlyLoops(h))
        /\ report.cmd = "check" =>
            /\ b.cat4.edges - b.cat5.edges
                 = Cardinality({e \in h.edges : e.s = Ghost \/ e.t = Ghost
                                   \/ {e.s, e.t} \cap (Ids \ Nodes(h)) # {}})
            /\ b.cat4.keys + b.cat4.collisions
                   + Cardinality({x \in Nodes(h) : Key(h.ents[x]) = <<>>}) = b.cat5.nodes
        /\ report.cmd = "cat4" =>
            (b.cat4.types # Vocabulary(h, <<>>) => daemon /\ ~report.flag)
        /\ report.cmd = "phantom" =>
            b.checked - b.grounded >= Cardinality({e \in h.edges \ Kept(h) : HasBody(e)})

(* h with one edge more. *)
Linked(h, x, y, w) == [h EXCEPT !.edges = @ \cup {Wired(<<x, y>>, w)}]

(* The lists of cat5 mean what they say: linking the two components of a   *)
(* candidate gap anywhere leaves one component fewer and every other as it *)
(* is; a pair is a bridge exactly when the graph falls apart without all   *)
(* its edges; precision passes one only when two seeds name one pair of    *)
(* components; and three sized components have no candidate gap, since a   *)
(* type two of them share is in more than half of them.                    *)
GapsAreReal ==
    report.cmd = "cat5" =>
        LET h == report.over
            b == report.body.cat5
            C == Components(h)
        IN  /\ \A p \in b.gaps : \A x, y \in UNION p : \A w \in Wires :
                   ~SameComponent(h, x, y) =>
                       Components(Linked(h, x, y, w)) = (C \ p) \cup {UNION p}
            /\ \A q \in Simple(h) :
                   q \in b.bridges <=>
                       Cardinality(Components([h EXCEPT !.edges = {e \in @ : {e.s, e.t} # q}]))
                           > Cardinality(C)
            /\ b.betti.loops > 0 => Simple(h) \ b.bridges # {}
            /\ b.score.recalled > b.score.reported =>
                   \E q, r \in Known(h, Seeds) : q # r /\ PairOf(h, q) = PairOf(h, r)
            /\ Cardinality(Sized(h, report.body.min)) = 3 => b.gaps = {}

(* The alias score raises only when two listed groups share a name.  As    *)
(* long as no group is cut off the list, names of one canonical form and   *)
(* type are one cluster, unless a group of another type has one of them;   *)
(* the score is full exactly when the clusters are those of the registry,  *)
(* and recall is when they only join them.                                 *)
AliasesScored ==
    report.cmd = "cat4" =>
        LET h == report.over
            R == report.body.cat4.groups
            a == report.body.alias
            P == Predicted(h, Gold, R)
            T == GoldClusters(h, Gold)
        IN  /\ a.kind = "raises" =>
                   \E i, j \in DOMAIN R : \E x \in R[i], y \in R[j] :
                       i # j /\ h.ents[x].name = h.ents[y].name
            /\ (a.kind = "scored" /\ Cardinality(Groups(h)) = Len(R)) =>
                   \A x, y \in Nodes(h) :
                       LET both == {h.ents[x].name, h.ents[y].name}
                       IN  (/\ both \subseteq Scope(h, Gold)
                            /\ Key(h.ents[x]) = Key(h.ents[y]) /\ Key(h.ents[x]) # <<>>)
                           => \/ \E c \in P : both \subseteq c
                              \/ \E c \in Groups(h) : x \notin c
                                     /\ \E z \in c : h.ents[z].name \in both
            /\ a.kind = "scored" =>
                   /\ a.recall = Unit * a.items <=> \A d \in T : \E c \in P : d \subseteq c
                   /\ a.precision = Unit * a.items <=> \A c \in P : \E d \in T : c \subseteq d

(* Every declared name is found or missing and every claim counted once;   *)
(* a type is both found and undeclared only when what is declared is a     *)
(* refinement itself, or an edge type in another case; and a claim about   *)
(* the knowledge graph passes over a snapshot without edges only when that *)
(* graph was not read.                                                     *)
OntologyAccounts ==
    report.cmd = "cat8" =>
        LET h == report.over
            b == report.body
            f(S) == Cardinality({c \in b.o.claims : b.status[c] \in S})
        IN  /\ b.cat8.used <= b.cat8.declared
            /\ \A ty \in UndeclaredTypes(h, b.o.types) : \A d \in b.o.types :
                   TypesMatch(d, ty) => Len(d) > 1
            /\ \A ty \in UndeclaredEdges(h, b.o.edges) : \A d \in b.o.edges :
                   Fold[d] = Fold[ty] => d # ty
            /\ b.cat8.claims.tested + b.cat8.claims.untestable + f({"skipped"})
                 = Cardinality(b.o.claims)
            /\ \A c \in b.o.claims :
                   (c.kind = "topology" /\ c.graph = "kg" /\ b.status[c] = "pass") =>
                       b.kg = <<>> \/ Kept(b.kg[1]) # {}

=============================================================================
