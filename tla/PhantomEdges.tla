---------------------------- MODULE PhantomEdges ----------------------------
(***************************************************************************)
(* src/sme/categories/phantom_edge.py: edges whose ends are not both named *)
(* in the note they were taken from.                                       *)
(***************************************************************************)
EXTENDS GraphSnapshot

CONSTANTS
    Bodies,     \* Bodies[n]: the names whose words the note n has
    StopNames   \* names of stop words only, which nothing can show

HasBody(e) == e.note \in DOMAIN Bodies

(* _check: an end without an entity is missing, one with a name of stop    *)
(* words only cannot be checked and counts as missing.                     *)
Present(g, x, note) ==
    x \in Nodes(g) /\ g.ents[x].name \notin StopNames /\ g.ents[x].name \in Bodies[note]

Uncheckable(g, x) == x \in Nodes(g) /\ g.ents[x].name \in StopNames

Checked(g) == {e \in g.edges : HasBody(e)}
Grounded(g) == {e \in Checked(g) : Present(g, e.s, e.note) /\ Present(g, e.t, e.note)}
Phantoms(g) == Checked(g) \ Grounded(g)

Phantom(g) ==
    [total       |-> Cardinality(g.edges),
     checked     |-> Cardinality(Checked(g)),
     nosource    |-> Cardinality(g.edges \ Checked(g)),
     grounded    |-> Cardinality(Grounded(g)),
     phantom     |-> Cardinality(Checked(g)) - Cardinality(Grounded(g)),
     types       |-> [ty \in {e.type : e \in Checked(g)} |->
                         <<Cardinality({e \in Phantoms(g) : e.type = ty}),
                           Cardinality({e \in Checked(g) : e.type = ty})>>],
     flagged     |-> Cardinality({e \in Phantoms(g) : e.flag}),
     unflagged   |-> Cardinality({e \in Phantoms(g) : ~e.flag}),
     uncheckable |-> Cardinality({e \in Phantoms(g) :
                         Uncheckable(g, e.s) \/ Uncheckable(g, e.t)})]

=============================================================================
