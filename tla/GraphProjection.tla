--------------------------- MODULE GraphProjection ---------------------------
(***************************************************************************)
(* How the adapters turn what a backend answers into entities and edges:   *)
(* project_graph (src/sme/adapters/_graph_mapping.py) for the /graph       *)
(* payload of palace-daemon, and the projections the other adapters write  *)
(* for themselves.                                                         *)
(*                                                                         *)
(* A node is <<kind, n>>, for the id "kind:n"; names are numbers, so that  *)
(* sorted() is their order, and 0 is a name that is missing or empty.  A   *)
(* drawer d has d.id, d.wing, d.room and d.file; a relation r has r.from,  *)
(* r.type and r.to.  A graph keeps its ids and edges as sets: counts and   *)
(* the other properties of entities are left out.                          *)
(***************************************************************************)
EXTENDS Integers, Sequences, SequencesExt, FiniteSets

General == 1      \* the catch-all room, kept out of the structure

Graph(N, E) == [nodes |-> N, edges |-> E]
Nothing == Graph({}, {})
Edge(f, ty, t) == [from |-> f, type |-> ty, to |-> t]
Merged(g, h) == Graph(g.nodes \cup h.nodes, g.edges \cup h.edges)

Ends(E) == UNION {{e.from, e.to} : e \in E}
Closed(g) == Ends(g.edges) \subseteq g.nodes

(* Every end that no entity was read for becomes an entity of its own. *)
WithEnds(g) == Graph(g.nodes \cup Ends(g.edges), g.edges)

(* An edge is kept when both its ends were read. *)
Within(g) == Graph(g.nodes, {e \in g.edges : {e.from, e.to} \subseteq g.nodes})

-----------------------------------------------------------------------------
(* The structure: wings, the rooms in them, tunnels between wings *)

Filed(D) == {d \in D : d.wing # 0}
Wings(D) == {d.wing : d \in Filed(D)}
Rooms(D) == {<<d.wing, d.room>> : d \in Filed(D)}
IsTopic(r) == r \notin {0, General}

(* The wings of each room in W are joined pairwise. *)
Tunnels(W) ==
    {Edge(<<"wing", p[1][1]>>, "tunnel", <<"wing", p[2][1]>>) :
        p \in {q \in W \X W : q[1][2] = q[2][2] /\ q[1][1] < q[2][1]}}

(* wings, <<wing, room>> pairs, and pairs for the rooms listed as tunnels. *)
Structure(W, R, T) ==
    LET topics == {p \in R : IsTopic(p[2])}
    IN  Graph({<<"wing", w>> : w \in W} \cup {<<"room", p[2]>> : p \in topics},
              {Edge(<<"room", p[2]>>, "member_of", <<"wing", p[1]>>) : p \in topics}
                  \cup Tunnels(T))

-----------------------------------------------------------------------------
(* The knowledge graph *)

(* The relations as they stand, ... *)
Related(R) == {Edge(<<"kg", r.from>>, r.type, <<"kg", r.to>>) : r \in R}

(* ... and those that have both ends. *)
Whole(R) == {r \in R : r.from # 0 /\ r.to # 0}

Knowledge(E, R) == Graph({<<"kg", e>> : e \in E \ {0}}, Related(Whole(R)))

(* project_graph.  kgOnly leaves the structure out, and then the sample of *)
(* the entities is completed from the sample of the relations.             *)
Project(body, kgOnly) ==
    LET kg == Knowledge(body.ents, body.rels)
    IN  IF kgOnly THEN WithEnds(kg)
        ELSE Merged(Structure(body.wings, body.rooms, body.tunnels), kg)

-----------------------------------------------------------------------------
(* The palace on disk, read by the adapter itself *)

(* A drawer is filed in its room, and linked to the first drawer read from *)
(* the same file.                                                          *)
Siblings(s, I) ==
    LET Hub(i) == CHOOSE h \in I : /\ s[h].file = s[i].file
                                   /\ \A j \in I : s[j].file = s[i].file => h <= j
    IN  {Edge(<<"drawer", s[Hub(i)].id>>, "same_file", <<"drawer", s[i].id>>) :
            i \in {j \in I : s[j].file # 0 /\ Hub(j) # j}}

Drawers(s, I) ==
    Graph({<<"drawer", s[i].id>> : i \in I},
          {Edge(<<"drawer", s[i].id>>, "filed_in", <<"room", s[i].room>>) : i \in I}
              \cup Siblings(s, I))

(* s: the drawers in the order they were read; most: max_drawer_nodes. *)
FromDrawers(s, drawers, most) ==
    LET topics == {i \in DOMAIN s : s[i].wing # 0 /\ IsTopic(s[i].room)}
        pairs == {<<s[i].wing, s[i].room>> : i \in topics}
        structure == Structure(Wings(ToSet(s)), pairs, pairs)
    IN  IF drawers /\ Cardinality(topics) <= most THEN Merged(structure, Drawers(s, topics))
        ELSE structure

(* _read_kg: the tables as they stand. *)
Tables(E, R) == Graph({<<"kg", e>> : e \in E}, Related(R))

-----------------------------------------------------------------------------
(* Category 3 *)

(* The pairs some "contradicts" edge joins, in either direction. *)
Contradictions(E) == {{e.from, e.to} : e \in {d \in E : d.type = "contradicts"}}

(* score_cat3: detection and precision, each as <<part, whole>>. *)
Score(E, surfaced) ==
    LET seeded == Contradictions(E)
        both == Cardinality(seeded \cap surfaced)
    IN  [detection |-> <<both, Cardinality(seeded)>>,
         precision |-> <<both, Cardinality(surfaced)>>]
=============================================================================
