--------------------------- MODULE MCLiveCommands --------------------------
(***************************************************************************)
(* Small instances of PalaceReads and ToolLoop: at most three drawers,     *)
(* three entities (the third in a log table) and two writes during a       *)
(* command; two models, two questions, two turns of two tool uses.         *)
(***************************************************************************)
EXTENDS ToolLoop

Mined(id, wing, room, file) == [id |-> id, wing |-> wing, room |-> room, file |-> file]
Fact(f, ty, t) == [from |-> f, type |-> ty, to |-> t]
Held(drawers, ents, rels, noted) ==
    [drawers |-> drawers, ents |-> ents, rels |-> rels, noted |-> noted]

MCKind == <<"Note", "Person", "Log">>

MCFacts == {Fact(1, "contradicts", 2), Fact(2, "knows", 3)}

\* The room 2 in two wings, a file in two drawers; a drawer in the catch-all
\* room; the room 2 with spaces around its name, a nameless entity; nothing
\* at all.
MCStores ==
    {Held(<<Mined(1, 1, 2, 1), Mined(2, 2, 2, 1), Mined(3, 1, 3, 0)>>,
          {1, 2}, {Fact(1, "contradicts", 2)}, {{1, 2}}),
     Held(<<Mined(1, 1, 3, 1), Mined(2, 2, General, 1)>>,
          {1, 2, 3}, MCFacts, {}),
     Held(<<Mined(2, 0, 4, 0)>>, {0, 1}, {Fact(0, "knows", 1), Fact(1, "knows", 3)}, {{0, 1}}),
     Held(<<>>, {}, {}, {})}

MCStripped == [r \in {4} |-> 2]

\* The first drawer and the third again, in another wing.
MCFilings == {Mined(1, 2, 3, 1), Mined(3, 2, 3, 0)}

MCQuestions == {[names |-> {2}, expects |-> {1}], [names |-> {2, 3}, expects |-> {2}],
                [names |-> {}, expects |-> {3}]}

Plain(cmd, adapter) ==
    [cmd |-> cmd, adapter |-> adapter, graph |-> TRUE, kgOnly |-> FALSE, drawers |-> TRUE,
     kg |-> TRUE, route |-> FALSE, tables |-> {}, shared |-> FALSE]

Snapshots == {Plain("cat5", a) : a \in Adapters}
                 \cup {[Plain("cat5", "mempalace") EXCEPT !.drawers = FALSE, !.kg = FALSE]}
                 \cup {[Plain("cat5", "daemon") EXCEPT !.kgOnly = TRUE],
                       [Plain("cat5", "daemon") EXCEPT !.graph = FALSE]}
                 \cup {[Plain("cat5", a) EXCEPT !.tables = {"Note", "Log"}] :
                          a \in {"ladybug", "ladybug-file"}}
                 \cup {[Plain("cat5", a) EXCEPT !.shared = TRUE] : a \in {"ladybug", "ladybug-file"}}

Contradicting == {Plain("cat3", a) : a \in Adapters}
                     \cup {[Plain("cat3", "mempalace") EXCEPT !.kg = FALSE]}

Probing == {Plain("cat9", a) : a \in {"mempalace", "server", "engram", "familiar"}}
               \cup {[Plain("cat9", "mempalace") EXCEPT !.kg = FALSE]}

Retrieving == {Plain("retrieve", a) : a \in Adapters}
                  \cup {[Plain("retrieve", "mempalace") EXCEPT !.route = TRUE]}

Invoking == {Plain("cat9a", "daemon")}

MCConfigs == Snapshots \cup Contradicting \cup Probing \cup Retrieving \cup Invoking

MCLadder == <<"ollama", "bedrock">>

MCQuiz == <<{1}, {1, 2}>>
=============================================================================
