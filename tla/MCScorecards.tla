---------------------------- MODULE MCScorecards ----------------------------
(* Scorecards over graphs of at most four entities and three edges, with   *)
(* names in two spellings and two types, a name of spaces and no name.     *)
EXTENDS Scorecards, TLC

CONSTANTS ab, AB, cd, sp, no, thing, place, t, tt, note

CanonOf == (ab :> ab) @@ (AB :> ab) @@ (cd :> cd) @@ (sp :> sp) @@ (no :> no)
FoldOf == (t :> t) @@ (tt :> t)
BodiesOf == note :> {ab, cd}
KindsOf == <<[name |-> ab, type |-> <<thing>>], [name |-> AB, type |-> <<thing>>],
             [name |-> AB, type |-> <<thing, place>>],
             [name |-> sp, type |-> <<>>]>>
WiresOf == {[type |-> t, note |-> note, flag |-> TRUE, dated |-> FALSE],
            [type |-> tt, note |-> no, flag |-> FALSE, dated |-> TRUE]}
MaxDrawnOf == <<2, 2, 3, 1>>
ScaffoldOf == [ents |-> <<[name |-> cd, type |-> <<place>>], [name |-> ab, type |-> <<place>>]>>,
               edges |-> {Wired(<<1, 2>>, [type |-> t, note |-> no, flag |-> FALSE, dated |-> FALSE])}]
GoldOf == {{ab, AB}, {cd}}
SeedsOf == {<<1, 3>>, <<2, 3>>}
OntologiesOf ==
    {[types |-> {<<thing>>, <<thing, place>>}, edges |-> {t},
      claims |-> {[kind |-> "topology", graph |-> "kg"],
                  [kind |-> "retrieval", graph |-> "structural"]}],
     [types |-> {<<thing, place>>}, edges |-> {tt},
      claims |-> {[kind |-> "dated", graph |-> "structural"],
                  [kind |-> "denied", graph |-> "structural"]}]}
=============================================================================
