---------------------------- MODULE Supersession ----------------------------
(***************************************************************************)
(* How a "supersedes" edge of a graph snapshot becomes a Category 6 score: *)
(* annotate_superseded_edges of sme/adapters/base.py stamps the edges in   *)
(* place, score_cat6 of sme/categories/supersession.py reads the stamps    *)
(* back and rebuilds the chains of what replaced what.  Backends add edges *)
(* in any order, may supersede an entity twice or in a circle, and not     *)
(* every adapter calls the annotation before its snapshot is scored.       *)
(***************************************************************************)
EXTENDS Naturals, Sequences, SequencesExt

CONSTANTS
  Entities,   \* entity ids, numbers from 1 so that sorted() is their order
  MaxEdges    \* bound on the edges of the snapshot

ASSUME SupersessionAssumption == /\ Entities \subseteq Nat \ {0}
                                 /\ MaxEdges \in Nat

VARIABLES
  edges,      \* the snapshot
  fresh,      \* history: it was annotated after its last edge was added
  pc,         \* "graph", or where score_cat6 is
  by,         \* superseded_by of score_cat6
  resolved,   \* its counter
  heads,      \* the loop of _build_chains: heads to come,
  chain,      \*   the chain being walked,
  frontier,   \*   what it still has to visit
  chains      \*   and the chains built

walk == <<heads, chain, frontier, chains>>
vars == <<edges, fresh, pc, by, resolved, walk>>

\* supersedes: the normalised type is one of _SUPERSEDES_PREDICATES, the passive
\* "superseded_by" and "replaced_by" included, and read in the same direction.
\* mark is _superseded_by, 0 if absent; stamped: _superseded_target_by is set.
Edge == [src : Entities, tgt : Entities, supersedes : BOOLEAN,
         mark : Entities \cup {0}, stamped : BOOLEAN]

Init == /\ edges = <<>>
        /\ fresh = FALSE
        /\ pc = "graph"
        /\ by = <<>> /\ resolved = 0
        /\ heads = {} /\ chain = <<>> /\ frontier = <<>> /\ chains = <<>>

-----------------------------------------------------------------------------
(* The snapshot and its annotation.                                        *)

\* A backend's edge joins the snapshot, as the adapter projects it.
AddEdge ==
  /\ pc \in {"graph", "scored"}
  /\ Len(edges) < MaxEdges
  /\ \E s, t \in Entities, sup \in BOOLEAN :
       edges' = Append(edges, [src |-> s, tgt |-> t, supersedes |-> sup,
                               mark |-> 0, stamped |-> FALSE])
  /\ fresh' = FALSE
  /\ pc' = "graph"
  /\ UNCHANGED <<by, resolved, walk>>

\* The map both functions build by walking the edges: the last edge about an
\* entity decides what replaced it.
Seeded     == {i \in DOMAIN edges : edges[i].supersedes}
Superseded == {edges[i].tgt : i \in Seeded}
Replacement(t) == edges[Max({i \in Seeded : edges[i].tgt = t})].src

\* Fault: a mark once set is kept, as the stamps are.
Annotated_KeepMark(e) ==
  [e EXCEPT !.mark    = IF e.supersedes \/ e.src \notin Superseded \/ @ # 0
                          THEN @ ELSE Replacement(e.src),
            !.stamped = @ \/ e.supersedes]

Annotated(e) ==
  [e EXCEPT !.mark    = IF e.supersedes \/ e.src \notin Superseded
                          THEN @ ELSE Replacement(e.src),
            !.stamped = @ \/ e.supersedes]

Annotate ==
  /\ pc \in {"graph", "scored"}
  /\ edges' = [i \in DOMAIN edges |-> Annotated(edges[i])]
  /\ fresh' = TRUE
  /\ UNCHANGED <<pc, by, resolved, walk>>

-----------------------------------------------------------------------------
(* score_cat6.  The edge's own endpoints stand in for missing stamps, so   *)
(* every seeded edge counts as resolved; marks can only add to the map.    *)

Carriers == {i \in DOMAIN edges : edges[i].mark # 0}
Marked   == {edges[i].src : i \in Carriers} \ Superseded
MarkOf(s) == edges[Min({i \in Carriers : edges[i].src = s})].mark

\* Fault: every entity that replaced another starts a chain.
Heads_AllReplacing(m) == {m[e] : e \in DOMAIN m}
Heads(m)              == {m[e] : e \in DOMAIN m} \ DOMAIN m

Score ==
  /\ pc = "graph"
  /\ by' = [e \in Superseded \cup Marked |->
              IF e \in Superseded THEN Replacement(e) ELSE MarkOf(e)]
  /\ resolved' = Cardinality(Seeded)
  /\ heads' = Heads(by')
  /\ chains' = <<>>
  /\ pc' = "heads"
  /\ UNCHANGED <<edges, fresh, chain, frontier>>

\* sorted(): each element at the place of its rank.
Sorted(S) ==
  [i \in 1..Cardinality(S) |-> CHOOSE x \in S : Cardinality({y \in S : y < x}) = i - 1]

\* sorted(replaced[e]): the entities that e replaced.
Replaced(e) == Sorted({x \in DOMAIN by : by[x] = e})

TakeHead ==
  /\ pc = "heads"
  /\ \E h \in heads :
       /\ \A k \in heads : h <= k
       /\ heads' = heads \ {h}
       /\ chain' = <<h>>
       /\ frontier' = Replaced(h)
  /\ pc' = "walk"
  /\ UNCHANGED <<edges, fresh, by, resolved, chains>>

\* Depth first: what a node replaced is visited before its siblings.
VisitNode ==
  /\ pc = "walk"
  /\ frontier # <<>>
  /\ LET node == Head(frontier) IN
       IF node \in Range(chain)
         THEN /\ frontier' = Tail(frontier)
              /\ UNCHANGED chain
         ELSE /\ chain' = Append(chain, node)
              /\ frontier' = Replaced(node) \o Tail(frontier)
  /\ UNCHANGED <<edges, fresh, pc, by, resolved, heads, chains>>

EndChain ==
  /\ pc = "walk"
  /\ frontier = <<>>
  /\ chains' = IF Len(chain) >= 2 THEN Append(chains, Reverse(chain)) ELSE chains
  /\ pc' = "heads"
  /\ UNCHANGED <<edges, fresh, by, resolved, heads, chain, frontier>>

Report ==
  /\ pc = "heads"
  /\ heads = {}
  /\ pc' = "scored"
  /\ UNCHANGED <<edges, fresh, by, resolved, walk>>

Next == \/ AddEdge \/ Annotate
        \/ Score \/ TakeHead \/ VisitNode \/ EndChain \/ Report

Spec == Init /\ [][Next]_vars

-----------------------------------------------------------------------------
(* Properties.                                                             *)

\* After an annotation, however many came before it and whatever was added in
\* between, a claim is marked as superseded exactly when the score says its
\* source is, and by the same entity.
MarksAgree ==
  pc = "scored" /\ fresh =>
    \A i \in DOMAIN edges \ Seeded :
      edges[i].mark = IF edges[i].src \in DOMAIN by THEN by[edges[i].src] ELSE 0

\* In a chain what was replaced comes before what replaced it, and the entity
\* that is current comes last.
OldestFirst(c) ==
  /\ Last(c) \notin DOMAIN by
  /\ \A i \in 1..(Len(c) - 1) : \E j \in (i + 1)..Len(c) : by[c[i]] = c[j]

\* The entities whose replacements never end: those replaced in a circle, and those
\* whose replacements lead into one.
Circular == UNION {C \in SUBSET DOMAIN by : \A e \in C : by[e] \in C}

\* The chains run from the oldest entity to the current one, and hold, once each and
\* in one chain only, the entities whose replacements lead to one that is current,
\* with that one; an entity replaced in a circle is in none.
ChainsComplete ==
  pc = "scored" =>
    LET ended == DOMAIN by \ Circular
    IN /\ \A c \in Range(chains) : OldestFirst(c) /\ IsInjective(c)
       /\ \A i, j \in DOMAIN chains : Range(chains[i]) \cap Range(chains[j]) # {} => i = j
       /\ UNION {Range(c) : c \in Range(chains)} = ended \cup {by[e] : e \in ended}
=============================================================================
