---------------------------- MODULE PalaceReads ----------------------------
(***************************************************************************)
(* One sme-eval command reading one live memory store.  The categories     *)
(* take the graph the adapter's get_graph_snapshot() returns; but behind   *)
(* it the adapter asks a running backend many things one after another,    *)
(* any of which may fail, while agents go on writing.  retrieve asks one   *)
(* question after another of the same adapter, cat3 reads the graph twice, *)
(* cat9 calls each surface the adapter declares.                           *)
(*                                                                         *)
(* The backends (palace-daemon, the MemPalace servers, ChromaDB, SQLite,   *)
(* LadybugDB, hindsight) are external: each answers one request from the   *)
(* store as it is at that moment.                                          *)
(***************************************************************************)
EXTENDS GraphProjection

CONSTANTS
    Configs,    \* what may be run: see Config
    Stores,     \* what the store may hold at the start
    Filings,    \* drawers an agent may file
    Facts,      \* relations an agent may add
    Writes,     \* writes during a command
    Batch,      \* BATCH of MemPalaceAdapter
    MaxDrawers, \* max_drawer_nodes
    Limit,      \* entities a backend returns at once; twice as many relations
    Kind,       \* Kind[e]: the LadybugDB node table of the entity e
    Logs,       \* INFRASTRUCTURE_TABLES
    Stripped,   \* Stripped[r]: the room r without the spaces around its name,
                \* for the rooms that have some
    Questions,  \* questions: the rooms each one names, the drawers it expects
    Asked       \* questions in a set

Commands == {"cat5", "cat3", "cat9", "retrieve", "cat9a"}
Adapters == {"mempalace", "daemon", "familiar", "server", "engram", "ladybug",
             "ladybug-file", "hindsight", "good-dog"}

\* An adapter and its options: prefer_graph_endpoint, graph_kg_only,
\* include_drawers, whether there is a KG file, route, LadybugDB's node tables (none:
\* all) and whether its relations share one table with an edge_type column.
Config == [cmd : Commands, adapter : Adapters, graph : BOOLEAN, kgOnly : BOOLEAN,
           drawers : BOOLEAN, kg : BOOLEAN, route : BOOLEAN,
           tables : SUBSET {Kind[e] : e \in DOMAIN Kind},
           shared : BOOLEAN]

Drawer == [id : Nat, wing : Nat, room : Nat, file : Nat]
Relation == [from : Nat, type : STRING, to : Nat]
Store == [drawers : Seq(Drawer), ents : SUBSET Nat, rels : SUBSET Relation,
          noted : SUBSET SUBSET Nat]

ASSUME PalaceReadsAssumption ==
    /\ Batch \in Nat \ {0} /\ Limit \in Nat /\ MaxDrawers \in Nat
    /\ Writes \in Nat /\ Asked \in Nat
    /\ Configs \subseteq Config /\ Stores \subseteq Store
    /\ Filings \subseteq Drawer /\ Facts \subseteq Relation
    /\ \A e \in DOMAIN Kind : Kind[e] \in STRING
    /\ Stripped \in [DOMAIN Stripped -> Nat] /\ DOMAIN Stripped \subseteq Nat
    /\ Questions \subseteq [names : SUBSET Nat, expects : SUBSET Nat]

VARIABLES
    store,      \* drawers in the order of the collection, entities, relations,
                \* and the contradictions engram keeps in a table of their own
    conf,       \* the command that runs
    pc,         \* the request it makes next
    got,        \* the answers of this read so far
    graph,      \* the snapshot, once read
    pairs,      \* the contradictions surfaced, once read
    rooms,      \* _distinct_rooms_cache, once looked up, and the drawers there
                \* were when it was
    rows,       \* questions scored, or surfaces probed
    writes,     \* writes so far
    clean,      \* nothing was written, failed or cut short since the start
    past        \* every node and edge there has been since the start

reading == <<pc, got, graph, pairs>>
asking == <<rooms, rows>>
vars == <<store, conf, reading, asking, writes, clean, past>>

Is(a) == conf.adapter = a
Pending == Graph({<<"none", 0>>}, {})
NoPairs == {{}}
NoRooms == [looked |-> FALSE, known |-> {}, saw |-> {}]
Fresh == [total |-> 0, drawers |-> <<>>, wings |-> {}, pairs |-> {}, ents |-> {},
          rels |-> {}, types |-> {}, left |-> {}]

-----------------------------------------------------------------------------
(* The store *)

Topics(s) == {p \in Rooms(ToSet(s.drawers)) : IsTopic(p[2])}

(* list_tunnels: a room in two wings or more. *)
Shared(s) == {p \in Topics(s) : \E q \in Topics(s) : q[2] = p[2] /\ q[1] # p[1]}

(* Whatever any adapter could call a node or an edge of s. *)
Content(s) ==
    LET D == ToSet(s.drawers)
    IN  Graph({<<"wing", w>> : w \in Wings(D)} \cup {<<"room", p[2]>> : p \in Topics(s)}
                  \cup {<<"drawer", d.id>> : d \in D} \cup {<<"kg", e>> : e \in s.ents}
                  \cup Ends(Related(s.rels)),
              Structure(Wings(D), Topics(s), Shared(s)).edges \cup Related(s.rels)
                  \cup {Edge(<<"drawer", d.id>>, "filed_in", <<"room", d.room>>) : d \in D}
                  \cup {Edge(<<"drawer", p[1].id>>, "same_file", <<"drawer", p[2].id>>) :
                          p \in {q \in D \X D : q[1].file = q[2].file}})

(* A search of cat9a may find anything, so nothing is written under it.    *)
UsesDrawers ==
    \/ conf.adapter \in {"mempalace", "daemon", "familiar", "server"} /\ conf.cmd # "cat9a"
    \/ conf.adapter \in {"engram", "ladybug", "hindsight"} /\ conf.cmd = "retrieve"
UsesFacts == /\ conf.adapter \notin {"ladybug-file", "good-dog"}
             /\ conf.cmd \notin {"retrieve", "cat9a"}
Over == pc \in {"done", "raised"}

Written(s) ==
    /\ ~Over /\ writes < Writes
    /\ writes' = writes + 1 /\ clean' = FALSE
    /\ store' = s /\ past' = Merged(past, Content(s))
    /\ UNCHANGED <<conf, reading, asking>>

(* mine or a hook files a drawer, at the end of the collection; mining a   *)
(* file again first deletes its drawers.                                   *)
File(d) ==
    /\ UsesDrawers /\ \A i \in DOMAIN store.drawers : store.drawers[i].id # d.id
    /\ Written([store EXCEPT !.drawers = Append(@, d)])

Delete(i) ==
    /\ UsesDrawers
    /\ Written([store EXCEPT !.drawers = RemoveAt(@, i)])

Learn(r) ==
    /\ UsesFacts /\ r \notin store.rels
    /\ Written([store EXCEPT !.ents = @ \cup {r.from, r.to}, !.rels = @ \cup {r}])

(* An entity goes with its relations. *)
Forget(e) ==
    /\ UsesFacts
    /\ Written([store EXCEPT !.ents = @ \ {e},
                             !.rels = {r \in @ : e \notin {r.from, r.to}}])

Write ==
    \/ \E d \in Filings : File(d)
    \/ \E i \in DOMAIN store.drawers : Delete(i)
    \/ \E r \in Facts : Learn(r)
    \/ \E e \in store.ents : Forget(e)

-----------------------------------------------------------------------------
(* Requests *)

(* get_graph_snapshot begins with ... *)
FirstRequest(c) ==
    CASE c.adapter = "mempalace" -> "count"
      [] c.adapter = "daemon"    -> IF c.graph THEN "graph" ELSE "wings"
      [] c.adapter = "server"    -> "search"
      [] c.adapter = "engram"    -> "ents"
      [] c.adapter = "ladybug"   -> "tables"
      [] OTHER                   -> "graph"

(* get_contradiction_pairs: the base class takes another snapshot;         *)
(* MemPalaceAdapter reads the KG alone, EngramAdapter a table of its own.  *)
PairsRequest(c) ==
    CASE c.adapter = "mempalace" -> IF c.kg THEN "ents" ELSE "done"
      [] c.adapter = "engram"    -> "noted"
      [] OTHER                   -> FirstRequest(c)

Begin(c) == CASE c.cmd = "retrieve" -> "ask"
              [] c.cmd = "cat9"     -> "probe"
              [] c.cmd = "cat9a"    -> "driver"
              [] OTHER              -> FirstRequest(c)

(* A read is complete: the command ends, or cat3 reads again. *)
Complete(g) ==
    /\ got' = Fresh
    /\ IF graph = Pending
       THEN /\ graph' = g
            /\ pc' = IF conf.cmd = "cat3" THEN PairsRequest(conf) ELSE "done"
            /\ pairs' = IF conf.cmd = "cat3" /\ pc' = "done" THEN {} ELSE pairs
       ELSE /\ graph' = graph
            /\ pc' = "done"
            /\ pairs' = Contradictions(g.edges)

(* The next request of this read. *)
Proceed(at, g) == pc' = at /\ got' = g /\ UNCHANGED <<graph, pairs>>

Unwritten == UNCHANGED <<store, conf, asking, writes, past>>
Heard == UNCHANGED clean
Missed == clean' = FALSE

(* In the order of their names. *)
Least(S) == CHOOSE a \in S : \A b \in S : a <= b

(* Some at most k of S: a LIMIT without an order. *)
Sample(S, k) == IF Cardinality(S) <= k THEN {S}
                ELSE {T \in SUBSET S : Cardinality(T) = k}

-----------------------------------------------------------------------------
(* MemPalaceAdapter *)

(* The drawers are counted once ... *)
Count ==
    /\ pc = "count"
    /\ Proceed("page", [got EXCEPT !.total = Len(store.drawers)])
    /\ Heard /\ Unwritten

FromPalace(ents, rels) ==
    IF graph = Pending
    THEN Merged(FromDrawers(got.drawers, conf.drawers, MaxDrawers), Tables(ents, rels))
    ELSE Tables(ents, rels)

AfterDrawers == IF conf.kg THEN Proceed("ents", got) ELSE Complete(FromPalace({}, {}))

Batched(first) == SubSeq(store.drawers, first, Min({first + Batch - 1, Len(store.drawers)}))

\* Fault: an empty page does not end the loop.
Page_Spins ==
    /\ pc = "page"
    /\ LET n == Len(got.drawers)
           batch == Batched(n + 1)
       IN  IF n >= got.total THEN AfterDrawers
           ELSE Proceed("page", [got EXCEPT !.drawers = @ \o batch])
    /\ Heard /\ Unwritten

\* Fault: the offset starts behind the last drawer of the page before.
Page_Gap ==
    /\ pc = "page"
    /\ LET n == Len(got.drawers)
           batch == Batched(n + 2)
       IN  IF n >= got.total \/ batch = <<>> THEN AfterDrawers
           ELSE Proceed("page", [got EXCEPT !.drawers = @ \o batch])
    /\ Heard /\ Unwritten

(* ... and read page by page, by their place in the collection. *)
Page ==
    /\ pc = "page"
    /\ LET n == Len(got.drawers)
           batch == Batched(n + 1)
       IN  IF n >= got.total \/ batch = <<>> THEN AfterDrawers
           ELSE Proceed("page", [got EXCEPT !.drawers = @ \o batch])
    /\ Heard /\ Unwritten

(* ChromaDB raises, or an answer of the MCP tools is no JSON, and so does  *)
(* the command.                                                            *)
Raise ==
    /\ pc \in {"count", "page", "wings", "rooms"}
    /\ pc' = "raised"
    /\ Missed /\ Unwritten /\ UNCHANGED <<got, graph, pairs>>

(* The two tables of a KG on disk are read one after the other; engram's   *)
(* are completed, and with no entities table its graph is empty.  Of the   *)
(* errors MemPalaceAdapter meets only a missing table leaves it the other. *)
FromTables(E, R) == IF Is("engram") THEN WithEnds(Knowledge(E, R)) ELSE FromPalace(E, R)

Entities ==
    /\ pc = "ents"
    /\ \/ Proceed("rels", [got EXCEPT !.ents = store.ents]) /\ Heard
       \/ /\ IF Is("engram") THEN Complete(Nothing) ELSE Proceed("rels", got)
          /\ Missed
    /\ Unwritten

Relations ==
    /\ pc = "rels"
    /\ \/ Complete(FromTables(got.ents, store.rels)) /\ Heard
       \/ Complete(FromTables(got.ents, {})) /\ Missed
       \/ ~Is("engram") /\ Complete(FromPalace({}, {})) /\ Missed
    /\ Unwritten

(* EngramAdapter.get_contradiction_pairs *)
Noted ==
    /\ pc = "noted"
    /\ pc' = "done" /\ got' = Fresh /\ UNCHANGED graph
    /\ \/ pairs' = {p \in store.noted : 0 \notin p} /\ Heard
       \/ pairs' = {} /\ Missed
    /\ Unwritten

-----------------------------------------------------------------------------
(* One request for the whole graph *)

Payload(s, E, R) ==
    [wings |-> Wings(ToSet(s.drawers)), rooms |-> Rooms(ToSet(s.drawers)),
     tunnels |-> Shared(s), ents |-> E, rels |-> R]

(* LadybugDB's log tables are left out; on a file, unless asked for. *)
Selected ==
    LET known == {Kind[e] : e \in DOMAIN Kind}
    IN  IF conf.tables = {} THEN known \ Logs
        ELSE IF Is("ladybug-file") THEN conf.tables
        ELSE conf.tables \ Logs

InTables(E) == {e \in E : e \in DOMAIN Kind /\ Kind[e] \in Selected}

(* The relations with rows, a table for each type or one that holds all. *)
Linked(s) == {r \in s.rels : {r.from, r.to} \subseteq s.ents \cap DOMAIN Kind}
RelTables(s) == IF conf.shared THEN {Linked(s)}
                ELSE {{q \in Linked(s) : q.type = r.type} : r \in Linked(s)}

(* Of a table that joins several pairs of labels only the pair that        *)
(* SHOW_CONNECTION names first is read.                                    *)
OnePair(T) == IF T = {} THEN {{}}
              ELSE {{q \in T : Kind[q.from] = Kind[r.from] /\ Kind[q.to] = Kind[r.to]} : r \in T}
OnePairEach(Ts) == {UNION Range(f) : f \in
                       {g \in [Ts -> UNION {OnePair(T) : T \in Ts}] : \A T \in Ts : g[T] \in OnePair(T)}}

(* A LadybugDB file and a vault's notes are read with nobody writing. *)
FromFile(E, R) == Within(Tables(InTables(E), R))
FromVault(E, R) == Knowledge(E, R)

(* What hindsight says of a bank. *)
FromStats(E, R) == Tables(E, R)

(* What the adapter makes of the answer. *)
FromGraph(s, E, R) ==
    CASE Is("daemon")       -> Project(Payload(s, E, R), conf.kgOnly)
      [] Is("familiar")     -> Project(Payload(s, E, R), FALSE)
      [] Is("hindsight")    -> FromStats(E, R)
      [] Is("good-dog")     -> FromVault(E, R)
      [] Is("ladybug-file") -> FromFile(E, R)

All(s) == <<s.ents, IF Is("ladybug-file") THEN Linked(s) ELSE s.rels>>

(* palace-daemon samples entities and relations apart from each other. *)
Samples(s) == IF conf.adapter \in {"daemon", "familiar"}
              THEN Sample(s.ents, Limit) \X Sample(s.rels, 2 * Limit)
              ELSE IF Is("ladybug-file") THEN {s.ents} \X OnePairEach(RelTables(s))
              ELSE {All(s)}

GraphAnswers ==
    /\ pc = "graph"
    /\ \E p \in Samples(store) :
        /\ Complete(FromGraph(store, p[1], p[2]))
        /\ clean' = (clean /\ p = All(store))
    /\ Unwritten

(* The daemon's adapter then walks the MCP tools, whatever the failure was;*)
(* the others have nothing to return.                                      *)
GraphFails ==
    /\ pc = "graph" /\ conf.adapter \in {"daemon", "familiar", "hindsight"}
    /\ IF Is("daemon") THEN Proceed("wings", got) ELSE Complete(Nothing)
    /\ Missed /\ Unwritten

-----------------------------------------------------------------------------
(* The walk of the MCP tools *)

ListWings ==
    /\ pc = "wings"
    /\ \/ LET W == Wings(ToSet(store.drawers))
          IN  Proceed("rooms", [got EXCEPT !.wings = W, !.left = W])
          /\ Heard
       \/ Complete(Nothing) /\ Missed
    /\ Unwritten

ListRooms ==
    /\ pc = "rooms" /\ got.left # {}
    /\ LET w == Least(got.left)
           after == [got EXCEPT !.left = @ \ {w}]
           R == {p \in Rooms(ToSet(store.drawers)) : p[1] = w}
       IN  \/ Proceed("rooms", [after EXCEPT !.pairs = @ \cup R]) /\ Heard
           \/ Proceed("rooms", after) /\ Missed
    /\ Unwritten

\* Fault: the tunnels are derived from the rooms that were walked.
Walked_Derived(T) == Project([wings |-> got.wings, rooms |-> got.pairs, tunnels |-> got.pairs,
                              ents |-> {}, rels |-> {}], conf.kgOnly)

Walked(T) == Project([wings |-> got.wings, rooms |-> got.pairs, tunnels |-> T,
                      ents |-> {}, rels |-> {}], conf.kgOnly)

ListTunnels ==
    /\ pc = "rooms" /\ got.left = {}
    /\ \/ Complete(Walked(Shared(store))) /\ Heard
       \/ Complete(Walked({})) /\ Missed
    /\ Unwritten

-----------------------------------------------------------------------------
(* MemPalaceServerAdapter *)

(* Some entities are listed, each one's relations are then asked for; with *)
(* no entities at all the taxonomy stands in for the graph.                *)
Search ==
    /\ pc = "search"
    /\ \/ \E E \in Sample(store.ents, Limit) :
            /\ IF E \ {0} = {} THEN Proceed("taxonomy", got)
               ELSE Proceed("entity", [got EXCEPT !.ents = E \ {0}, !.left = E \ {0}])
            /\ clean' = (clean /\ E = store.ents)
       \/ Proceed("taxonomy", got) /\ Missed
    /\ Unwritten

Touching(e) == {r \in store.rels : e \in {r.from, r.to}}

(* An entity that is gone by now answers nothing. *)
GetEntity ==
    /\ pc = "entity" /\ got.left # {}
    /\ LET e == Least(got.left)
           after == [got EXCEPT !.left = @ \ {e}]
       IN  \/ /\ Proceed("entity", [after EXCEPT !.rels = @ \cup Touching(e)])
              /\ Heard
           \/ Proceed("entity", after) /\ Missed
    /\ Unwritten

Listed == WithEnds(Knowledge(got.ents, got.rels))

AllEntities ==
    /\ pc = "entity" /\ got.left = {}
    /\ Complete(Listed)
    /\ Heard /\ Unwritten

Taxonomy ==
    /\ pc = "taxonomy"
    /\ \/ LET D == ToSet(store.drawers)
          IN  Complete(Structure(Wings(D), Rooms(D), {})) /\ Heard
       \/ Complete(Nothing) /\ Missed
    /\ Unwritten

-----------------------------------------------------------------------------
(* LadybugDBAdapter over its API *)

(* show_tables(): the node tables, and a relation table for each type, or  *)
(* one that holds them all.  A request that fails returns no rows.         *)
ShowTables ==
    /\ pc = "tables"
    /\ \/ /\ Proceed("nodes", [got EXCEPT !.left = Selected, !.types =
                               IF conf.shared THEN {"link"} ELSE {r.type : r \in store.rels}])
          /\ Heard
       \/ Complete(Nothing) /\ Missed
    /\ Unwritten

PullNodes ==
    /\ pc = "nodes"
    /\ IF got.left = {}
       THEN Proceed("edges", [got EXCEPT !.left = got.types]) /\ Heard
       ELSE \E t \in got.left :
                LET after == [got EXCEPT !.left = @ \ {t}]
                    E == {e \in InTables(store.ents) : Kind[e] = t}
                IN  \/ Proceed("nodes", [after EXCEPT !.ents = @ \cup E]) /\ Heard
                    \/ Proceed("nodes", after) /\ Missed
    /\ Unwritten

(* A relation table's ends, columns and rows.  Without its columns the     *)
(* name of the table stands for the type of each edge.                     *)
PullEdges ==
    /\ pc = "edges"
    /\ \E t \in got.left :
        LET after == [got EXCEPT !.left = @ \ {t}]
            T == {r \in Linked(store) : conf.shared \/ r.type = t}
        IN  \/ \E R \in OnePair(T) :
                 /\ \/ Proceed("edges", [after EXCEPT !.rels = @ \cup R])
                    \/ Proceed("edges", [after EXCEPT !.rels = @ \cup {[r EXCEPT !.type = t] : r \in R}])
                 /\ clean' = (clean /\ R = T /\ got'.rels = got.rels \cup T)
            \/ Proceed("edges", after) /\ Missed
    /\ Unwritten

\* Fault: edges are kept whatever their ends.
Pulled_Open == Tables(got.ents, got.rels)

Pulled == Within(Tables(got.ents, got.rels))

AllEdges ==
    /\ pc = "edges" /\ got.left = {}
    /\ Complete(Pulled)
    /\ Heard /\ Unwritten

-----------------------------------------------------------------------------
(* retrieve *)

(* The rooms a question is routed by are looked up once per adapter, by    *)
(* their names without spaces, and when that fails there are none for good.*)
Strip(r) == IF r \in DOMAIN Stripped THEN Stripped[r] ELSE r
Known == {Strip(d.room) : d \in ToSet(store.drawers)} \ {0, General}
LookedUp == IF ~Is("mempalace") \/ ~conf.route \/ rooms.looked THEN {rooms}
            ELSE {[looked |-> TRUE, known |-> K, saw |-> ToSet(store.drawers)] :
                    K \in {Known, {}}}

\* Fault: a question is routed to the room it names, whether there is one or not.
Routed_Unknown(q, known) == IF q.names = {} THEN 0 ELSE Least(q.names)

(* _infer_room: the first of the known rooms that match best, if any. *)
Routed(q, known) ==
    LET named == q.names \cap known
    IN  IF named = {} THEN 0 ELSE Least(named)

(* The filter compares the names as they were stored. *)
Scope(room) == {d \in ToSet(store.drawers) : room = 0 \/ d.room = room}

(* The replies of the adapters' query().  None of them raises. *)
Reply(found, error) == [found |-> found, error |-> error]
Failed == Reply({}, "failed")
Found(D) == Reply(D, IF D = {} THEN "NO_RESULTS" ELSE "none")

(* The nearest ones, of those the filter leaves. *)
FromChroma(room) ==
    {Found(D) : D \in {F \in SUBSET Scope(room) : F = {} => Scope(room) = {}}} \cup {Failed}

(* What the daemon leaves of kind "content", however few; its warnings are *)
(* an error beside what it found.                                          *)
FromDaemon(D) == {Found(F) : F \in SUBSET D} \cup {Reply(F, "WARN") : F \in SUBSET D} \cup {Failed}

(* familiar hands on what its server says, and calls nothing empty. *)
FromFamiliar(D) == {Reply(F, e) : F \in SUBSET D, e \in {"none", "WARN", "server"}} \cup {Failed}

(* A LadybugDB file has no search; the others' servers may find nothing. *)
FromSearch(D) == IF Is("ladybug-file") THEN {Reply({}, "NO_API_URL")}
                 ELSE {Found(F) : F \in SUBSET D} \cup {Failed}

(* The names in the notes of a vault are searched in memory, for the words *)
(* of the question, which may be in none.                                  *)
FromNotes(D) == {Found(F) : F \in SUBSET D}

Replies(q, known) ==
    LET D == ToSet(store.drawers)
    IN  CASE Is("mempalace") -> FromChroma(Routed(q, known))
          [] Is("daemon")    -> FromDaemon(D)
          [] Is("familiar")  -> FromFamiliar(D)
          [] Is("good-dog")  -> FromNotes(D)
          [] OTHER           -> FromSearch(D)

(* A query that fails is scored like one that finds nothing.  Beside the   *)
(* score: whether the lookup saw the room the question was routed to, and  *)
(* whether a drawer it saw filed under just that name is still there.      *)
Scored(q, r) ==
    LET room == Routed(q, rooms'.known)
    IN  [hit |-> {d.id : d \in r.found} \cap q.expects # {}, error |-> r.error,
         stock |-> Len(store.drawers),
         met |-> room # 0 /\ \E d \in rooms'.saw : Strip(d.room) = room,
         kept |-> \E d \in rooms'.saw \cap ToSet(store.drawers) : d.room = room]

Ask ==
    /\ pc = "ask" /\ Len(rows) < Asked
    /\ \E q \in Questions : \E looked \in LookedUp :
        /\ rooms' = looked
        /\ \E r \in Replies(q, looked.known) :
            /\ rows' = Append(rows, Scored(q, r))
            /\ clean' = (clean /\ r # Failed)
    /\ UNCHANGED <<store, conf, reading, writes, past>>

-----------------------------------------------------------------------------
(* cat9 *)

PalaceSurfaces == <<"search", "graph", "kg">>
ServerSurfaces == <<"mcp", "rest">>
EngramSurfaces == <<"recall">>

(* The others declare none. *)
Surfaces(c) == CASE c.adapter = "mempalace" -> PalaceSurfaces
                 [] c.adapter = "server"    -> ServerSurfaces
                 [] c.adapter = "engram"    -> EngramSurfaces
                 [] OTHER                   -> <<>>

(* What a probe may report.  MemPalaceAdapter's search fails with          *)
(* NO_RESULTS in a palace with no drawers; no KG file is no failure.       *)
Verdicts(s) ==
    CASE s = "search" /\ store.drawers = <<>> -> {FALSE}
      [] s = "kg" /\ ~conf.kg                 -> {TRUE}
      [] OTHER                                -> {TRUE, FALSE}

(* A probe that raises is a probe that fails. *)
Probe ==
    /\ pc = "probe" /\ Len(rows) < Len(Surfaces(conf))
    /\ \E ok \in Verdicts(Surfaces(conf)[Len(rows) + 1]) : rows' = Append(rows, ok)
    /\ UNCHANGED <<store, conf, reading, rooms, writes, clean, past>>

Finish == pc' = "done" /\ UNCHANGED <<got, graph, pairs, clean>> /\ Unwritten

(* Every question is scored, ... *)
Summary == pc = "ask" /\ Len(rows) = Asked /\ Finish

(* ... or every surface probed; no surface at all is no failure. *)
Tally == pc = "probe" /\ Len(rows) = Len(Surfaces(conf)) /\ Finish

-----------------------------------------------------------------------------

Init ==
    /\ store \in Stores /\ conf \in Configs
    /\ pc = Begin(conf) /\ got = Fresh /\ graph = Pending /\ pairs = NoPairs
    /\ rooms = NoRooms /\ rows = <<>>
    /\ writes = 0 /\ clean = TRUE /\ past = Content(store)

Read ==
    \/ Count \/ Page \/ Entities \/ Relations \/ Noted
    \/ GraphAnswers \/ GraphFails \/ ListWings \/ ListRooms \/ ListTunnels
    \/ Search \/ GetEntity \/ AllEntities \/ Taxonomy
    \/ ShowTables \/ PullNodes \/ PullEdges \/ AllEdges
    \/ Ask \/ Probe \/ Summary \/ Tally

(* The command is over. *)
Ended == Over /\ UNCHANGED vars

Next == Write \/ Read \/ Raise \/ Ended

Spec == Init /\ [][Next]_vars

(* Every request is answered, with an error if need be, or times out. *)
FairSpec == Spec /\ WF_vars(Read)

-----------------------------------------------------------------------------
(* Properties *)

(* The graph of the store s, taken at one moment. *)
GraphOf(s) ==
    CASE Is("mempalace") ->
            Merged(FromDrawers(s.drawers, conf.drawers, MaxDrawers),
                   IF conf.kg THEN Tables(s.ents, s.rels) ELSE Nothing)
      [] Is("daemon") /\ ~conf.graph ->
            IF conf.kgOnly THEN Nothing
            ELSE Project(Payload(s, {}, {}), FALSE)
      [] Is("server") ->
            IF s.ents \ {0} = {} THEN Structure(Wings(ToSet(s.drawers)), Topics(s), {})
            ELSE WithEnds(Knowledge(s.ents, {r \in s.rels : {r.from, r.to} \cap (s.ents \ {0}) # {}}))
      [] Is("engram") -> WithEnds(Knowledge(s.ents, s.rels))
      [] Is("ladybug") -> Within(Tables(InTables(s.ents), s.rels))
      [] OTHER -> FromGraph(s, s.ents, s.rels)

(* A snapshot that was read with no write between its requests, none of    *)
(* them failing and no answer cut short, is the graph of the store: no     *)
(* page is skipped or read twice, no wing or table left out.  Category 3,  *)
(* which reads the seeded pairs and the surfaced ones one after the other, *)
(* then finds the same ones, but for engram, which keeps them apart.       *)
QuietReadsAreWhole ==
    /\ clean /\ graph # Pending => graph = GraphOf(store)
    /\ clean /\ conf.cmd = "cat3" /\ pc = "done" /\ ~Is("engram") =>
        LET s == Score(graph.edges, pairs)
        IN  s.detection[1] = s.detection[2] /\ s.precision[1] = s.precision[2]

(* The graphs promised to be consistent (the KG-only projection, the       *)
(* server's, engram's and LadybugDB's) have no edge with an end that is no *)
(* entity, whatever was written between two of their requests and whatever *)
(* a sample left out.                                                      *)
EdgesEnd ==
    \/ graph = Pending
    \/ Is("daemon") /\ ~conf.kgOnly
    \/ conf.adapter \in {"mempalace", "familiar", "hindsight", "good-dog"}
    \/ Closed(graph)

(* A snapshot is put together from moments, yet every entity and edge of   *)
(* it existed at some moment of the read.  Only two kinds of edges can be  *)
(* made up: MemPalaceAdapter's tunnels and same-file links between drawers *)
(* that were never there together, and LadybugDB edges with the name of    *)
(* their table for a type.                                                 *)
NothingInvented == graph # Pending =>
    /\ graph.nodes \subseteq past.nodes
    /\ \A e \in graph.edges \ past.edges :
        \/ Is("mempalace") /\ e.type \in {"tunnel", "same_file"}
        \/ Is("ladybug") /\ e.type = "link" /\ \E p \in past.edges : p.from = e.from /\ p.to = e.to

(* MemPalaceAdapter says NO_RESULTS of a palace with drawers only when the *)
(* question was routed to a room, one that the lookup did see, and every   *)
(* drawer seen in just that room has gone since: a lookup that failed, a   *)
(* question that names no room, or a room that came later hide nothing.    *)
(* The drawers of a room with spaces around its name count as gone: it is  *)
(* looked up by one name and searched for under another.  What the others  *)
(* search for may be in no drawer of theirs.                               *)
NoResultsIsTrue ==
    conf.cmd = "retrieve" /\ Is("mempalace") => \A i \in DOMAIN rows :
        rows[i].error = "NO_RESULTS" /\ rows[i].stock > 0 => rows[i].met /\ ~rows[i].kept

(* However much is deleted under it, every read comes to an end. *)
CommandEnds == <>Over
=============================================================================
