------------------------- MODULE LiveCommandsProofs -------------------------
(***************************************************************************)
(* Theorems about ToolLoop and the PalaceReads it extends, for any stores, *)
(* commands, writes in between and questions, and for any ladder of models *)
(* and number of turns and tool uses.                                      *)
(***************************************************************************)
EXTENDS ToolLoop, FiniteSetTheorems, WellFoundedInduction, TLAPS

(***************************************************************************)
(* What the answers are made of.                                           *)
(***************************************************************************)

\* A sample, and what is read of a table that joins several labels, is a part.
LEMMA SampleIn ==
  ASSUME NEW S, NEW k, NEW T \in Sample(S, k)
  PROVE  T \subseteq S
BY DEF Sample

LEMMA PairIn ==
  ASSUME NEW T, NEW R \in OnePair(T)
  PROVE  R \subseteq T
BY DEF OnePair

LEMMA PairEachIn ==
  ASSUME NEW Ts, NEW R \in OnePairEach(Ts)
  PROVE  R \subseteq UNION Ts
<1>1. PICK g \in [Ts -> UNION {OnePair(T) : T \in Ts}] :
        (\A T \in Ts : g[T] \in OnePair(T)) /\ R = UNION Range(g)
  BY DEF OnePairEach
<1>2. \A T \in Ts : g[T] \subseteq T
  BY <1>1, PairIn
<1>3. Range(g) = {g[T] : T \in Ts}
  BY DEF Range
<1>4. QED
  BY <1>1, <1>2, <1>3

\* What the requests have answered so far, by the names of tables: "link" is that of the
\* table LadybugDB's relations may share.
Names == STRING \cup {"link"}
Link  == [from : Nat, type : Names, to : Nat]

Answers ==
  [total : Nat, drawers : Seq(Drawer), wings : SUBSET Nat, pairs : SUBSET (Nat \X Nat),
   ents : SUBSET Nat, rels : SUBSET Link, types : SUBSET Names,
   left : SUBSET (Nat \cup Names)]

ReadTypes ==
  /\ store \in Store /\ conf \in Config /\ got \in Answers
  /\ writes \in Nat /\ clean \in BOOLEAN

Reads == {"count", "page", "ents", "rels", "noted", "graph", "wings", "rooms",
          "search", "entity", "taxonomy", "tables", "nodes", "edges"}
Loops == {"driver", "turn", "tools", "save"}

\* Every request is one of the adapter and the command that are run; the relation
\* tables to be read are those that were shown.
Placed ==
  /\ pc \in Reads \cup Loops \cup {"ask", "probe", "done", "raised"}
  /\ pc \in Reads => conf.cmd \in {"cat5", "cat3"}
  /\ pc \in Loops => conf.cmd = "cat9a"
  /\ pc = "ask" => conf.cmd = "retrieve"
  /\ pc = "probe" => conf.cmd = "cat9"
  /\ pc \in {"count", "page"} => Is("mempalace") /\ graph = Pending
  /\ pc \in {"ents", "rels"} => Is("engram") \/ (Is("mempalace") /\ conf.kg)
  /\ pc = "noted" => Is("engram")
  /\ pc \in {"wings", "rooms"} => Is("daemon")
  /\ pc \in {"search", "entity", "taxonomy"} => Is("server")
  /\ pc \in {"tables", "nodes", "edges"} => Is("ladybug")
  /\ pc = "graph" => conf.adapter \in {"daemon", "familiar", "hindsight", "good-dog",
                                       "ladybug-file"}
  /\ pc = "edges" => got.left \subseteq got.types
  /\ pc \in {"nodes", "edges"} /\ conf.shared => got.types \subseteq {"link"}

LEMMA FreshTyped == Fresh \in Answers
<1>1. <<>> \in Seq(Drawer)
  OBVIOUS
<1>2. QED
  BY <1>1 DEF Fresh, Answers

LEMMA DrawersOf ==
  ASSUME NEW s \in Store
  PROVE  /\ ToSet(s.drawers) \subseteq Drawer
         /\ Wings(ToSet(s.drawers)) \subseteq Nat
         /\ Rooms(ToSet(s.drawers)) \subseteq Nat \X Nat
<1>1. ToSet(s.drawers) \subseteq Drawer
  BY DEF Store, ToSet
<1>2. QED
  BY <1>1 DEF Wings, Rooms, Filed, Drawer

LEMMA RelsIn ==
  ASSUME NEW s \in Store, NEW p \in Samples(s)
  PROVE  p[1] \subseteq s.ents /\ p[2] \subseteq s.rels
<1>1. Linked(s) \subseteq s.rels /\ UNION RelTables(s) \subseteq s.rels
  BY DEF Linked, RelTables
<1>2. CASE conf.adapter \in {"daemon", "familiar"}
  BY <1>2, SampleIn DEF Samples
<1>3. CASE conf.adapter \notin {"daemon", "familiar"} /\ Is("ladybug-file")
  <2>1. p[1] = s.ents /\ p[2] \in OnePairEach(RelTables(s))
    BY <1>3 DEF Samples
  <2>2. QED
    BY <1>1, <2>1, PairEachIn
<1>4. CASE conf.adapter \notin {"daemon", "familiar"} /\ ~Is("ladybug-file")
  BY <1>4 DEF Samples, All
<1>5. QED
  BY <1>2, <1>3, <1>4

\* A completed read leaves no answers behind and goes on to a request of its own.
LEMMA Completed ==
  ASSUME Placed, pc \in Reads, conf \in Config, NEW g, Complete(g), conf' = conf
  PROVE  got' \in Answers /\ Placed'
<1>1. got' \in Answers
  BY FreshTyped DEF Complete
<1>2. conf.cmd \in {"cat5", "cat3"}
  BY DEF Placed
<1>3. pc' = "done" \/ (conf.cmd = "cat3" /\ pc' = PairsRequest(conf))
  BY DEF Complete
<1>4. CASE pc' = "done"
  BY <1>1, <1>4 DEF Placed, Reads, Loops
<1>5. CASE conf.cmd = "cat3" /\ pc' = PairsRequest(conf)
  <2>1. conf.adapter \in Adapters /\ conf.graph \in BOOLEAN /\ conf.kg \in BOOLEAN
    BY DEF Config
  <2>2. CASE Is("mempalace")
    BY <1>1, <1>5, <2>1, <2>2 DEF PairsRequest, Placed, Is, Reads, Loops
  <2>3. CASE Is("engram")
    BY <1>1, <1>5, <2>1, <2>3 DEF PairsRequest, Placed, Is, Reads, Loops
  <2>4. CASE Is("daemon")
    BY <1>1, <1>5, <2>1, <2>4 DEF PairsRequest, FirstRequest, Placed, Is, Reads, Loops
  <2>5. CASE Is("server")
    BY <1>1, <1>5, <2>1, <2>5 DEF PairsRequest, FirstRequest, Placed, Is, Reads, Loops
  <2>6. CASE Is("ladybug")
    BY <1>1, <1>5, <2>1, <2>6 DEF PairsRequest, FirstRequest, Placed, Is, Reads, Loops
  <2>7. CASE conf.adapter \in {"familiar", "hindsight", "good-dog", "ladybug-file"}
    <3>1. pc' = "graph"
      BY <1>1, <1>5, <2>7 DEF PairsRequest, FirstRequest
    <3>2. QED
      BY <1>1, <1>5, <2>7, <3>1 DEF Placed, Is, Reads, Loops
  <2>8. QED
    BY <2>1, <2>2, <2>3, <2>4, <2>5, <2>6, <2>7 DEF Adapters, Is
<1>6. QED
  BY <1>1, <1>3, <1>4, <1>5

\* A read goes on to another request of its adapter.
LEMMA Proceeded ==
  ASSUME Placed, pc \in Reads, conf' = conf, NEW at, NEW g, Proceed(at, g),
         at \in {"page", "rels", "rooms", "entity", "taxonomy", "nodes", "edges"}
           \/ (at = "ents" /\ Is("mempalace") /\ conf.kg)
           \/ (at = "wings" /\ Is("daemon")),
         at = "page" => pc \in {"count", "page"},
         at = "rels" => pc = "ents",
         at = "rooms" => pc \in {"wings", "rooms"},
         at \in {"entity", "taxonomy"} => pc \in {"search", "entity"},
         at \in {"nodes", "edges"} => pc \in {"tables", "nodes", "edges"},
         at \in {"nodes", "edges"} /\ conf.shared => g.types \subseteq {"link"},
         at = "edges" => g.left \subseteq g.types
  PROVE  Placed'
BY DEF Placed, Proceed, Reads, Loops, Is

\* The requests keep their types and places.
ReadKeeps == ReadTypes' /\ Placed'

LEMMA WriteTyped ==
  ASSUME ReadTypes, Placed, Write
  PROVE  ReadKeeps
<1>1. ASSUME NEW s \in Store, Written(s) PROVE ReadKeeps
  <2>1. UNCHANGED <<conf, pc, got, graph>>
    BY <1>1 DEF Written, reading
  <2>2. store' = s /\ writes' = writes + 1 /\ clean' = FALSE
    BY <1>1 DEF Written
  <2>3. ReadTypes'
    <3>1. store' \in Store
      BY <2>2
    <3>2. conf' \in Config /\ got' \in Answers
      BY <2>1 DEF ReadTypes
    <3>3. writes' \in Nat
      BY <2>2 DEF ReadTypes
    <3>4. clean' \in BOOLEAN
      BY <2>2
    <3>5. QED
      BY <3>1, <3>2, <3>3, <3>4 DEF ReadTypes
  <2>4. Placed'
    BY <2>1 DEF Placed, Is, Pending
  <2>5. QED
    BY <2>3, <2>4 DEF ReadKeeps
<1>2. ASSUME NEW d \in Filings, File(d) PROVE ReadKeeps
  <2>1. d \in Drawer
    BY PalaceReadsAssumption
  <2>2. Append(store.drawers, d) \in Seq(Drawer)
    BY <2>1 DEF ReadTypes, Store
  <2>3. [store EXCEPT !.drawers = Append(@, d)] \in Store
    BY <2>2 DEF ReadTypes, Store
  <2>4. QED
    BY <1>1, <1>2, <2>3 DEF File
<1>3. ASSUME NEW i \in DOMAIN store.drawers, Delete(i) PROVE ReadKeeps
  <2>1. RemoveAt(store.drawers, i) \in Seq(Drawer)
    BY DEF ReadTypes, Store, RemoveAt
  <2>2. [store EXCEPT !.drawers = RemoveAt(@, i)] \in Store
    BY <2>1 DEF ReadTypes, Store
  <2>3. QED
    BY <1>1, <1>3, <2>2 DEF Delete
<1>4. ASSUME NEW r \in Facts, Learn(r) PROVE ReadKeeps
  <2>1. r \in Relation
    BY PalaceReadsAssumption
  <2>2. [store EXCEPT !.ents = @ \cup {r.from, r.to}, !.rels = @ \cup {r}] \in Store
    BY <2>1 DEF ReadTypes, Store, Relation
  <2>3. QED
    BY <1>1, <1>4, <2>2 DEF Learn
<1>5. ASSUME NEW e \in store.ents, Forget(e) PROVE ReadKeeps
  <2>1. [store EXCEPT !.ents = @ \ {e},
                      !.rels = {r \in @ : e \notin {r.from, r.to}}] \in Store
    BY DEF ReadTypes, Store
  <2>2. QED
    BY <1>1, <1>5, <2>1 DEF Forget
<1>6. QED
  BY <1>2, <1>3, <1>4, <1>5 DEF Write

\* A request that changes nothing but what was heard.
LEMMA HeardTyped ==
  ASSUME ReadTypes, Unwritten, got' \in Answers, clean' \in BOOLEAN
  PROVE  ReadTypes'
<1>1. store' = store /\ conf' = conf /\ writes' = writes
  BY DEF Unwritten
<1>2. store' \in Store /\ conf' \in Config /\ writes' \in Nat
  BY <1>1 DEF ReadTypes
<1>3. QED
  BY <1>2 DEF ReadTypes

LEMMA ClearTyped ==
  ASSUME ReadTypes
  PROVE  Heard => clean' \in BOOLEAN
BY DEF ReadTypes, Heard

LEMMA MissedTyped == Missed => clean' \in BOOLEAN
BY DEF Missed

LEMMA StoredTyped ==
  ASSUME ReadTypes
  PROVE  /\ store.drawers \in Seq(Drawer) /\ store.ents \in SUBSET Nat
         /\ store.rels \in SUBSET Link
<1>1. Relation \subseteq Link
  BY DEF Relation, Link, Names
<1>2. QED
  BY <1>1 DEF ReadTypes, Store

\* A request answered, and the read goes on or is complete.
LEMMA CompleteTyped ==
  ASSUME ReadTypes, Placed, pc \in Reads, Unwritten, clean' \in BOOLEAN, NEW g, Complete(g)
  PROVE  ReadKeeps
<1>1. conf \in Config /\ conf' = conf
  BY DEF ReadTypes, Unwritten
<1>2. got' \in Answers /\ Placed'
  BY <1>1, Completed
<1>3. QED
  BY <1>2, HeardTyped DEF ReadKeeps

LEMMA LesserOf ==
  ASSUME NEW a \in Int, NEW b \in Int
  PROVE  Min({a, b}) = IF a <= b THEN a ELSE b
<1>1. CASE a <= b
  <2>1. a \in {a, b} /\ \A y \in {a, b} : a <= y
    BY <1>1
  <2>2. \A x \in {a, b} : (\A y \in {a, b} : x <= y) => x = a
    BY <1>1
  <2>3. QED
    BY <1>1, <2>1, <2>2 DEF Min
<1>2. CASE ~(a <= b)
  <2>1. b \in {a, b} /\ \A y \in {a, b} : b <= y
    BY <1>2
  <2>2. \A x \in {a, b} : (\A y \in {a, b} : x <= y) => x = b
    BY <1>2
  <2>3. QED
    BY <1>2, <2>1, <2>2 DEF Min
<1>3. QED
  BY <1>1, <1>2

LEMMA PartOf ==
  ASSUME NEW S, NEW s \in Seq(S), NEW n \in Nat, NEW k \in Nat, k <= Len(s)
  PROVE  /\ SubSeq(s, n + 1, k) \in Seq(S)
         /\ Len(SubSeq(s, n + 1, k)) = IF n + 1 <= k THEN k - n ELSE 0
         /\ \A i \in 1..(k - n) : SubSeq(s, n + 1, k)[i] = s[n + i]
<1>1. CASE n + 1 <= k
  BY <1>1
<1>2. CASE ~(n + 1 <= k)
  <2>1. SubSeq(s, n + 1, k) = <<>>
    BY <1>2
  <2>2. QED
    BY <1>2, <2>1
<1>3. QED
  BY <1>1, <1>2

\* A page is some of the drawers that are there.
LEMMA BatchedTyped ==
  ASSUME ReadTypes, NEW n \in Nat
  PROVE  /\ Batched(n + 1) \in Seq(Drawer)
         /\ ToSet(Batched(n + 1)) \subseteq ToSet(store.drawers)
         /\ n <= Len(store.drawers) =>
              \E k \in Nat : /\ n <= k /\ k <= Len(store.drawers)
                             /\ n < Len(store.drawers) => n < k
                             /\ Batched(n + 1) = SubSeq(store.drawers, n + 1, k)
<1> DEFINE k == Min({n + 1 + Batch - 1, Len(store.drawers)})
<1>1. Batch \in Nat \ {0} /\ Len(store.drawers) \in Nat /\ store.drawers \in Seq(Drawer)
  BY PalaceReadsAssumption, StoredTyped
<1>2. k \in Nat /\ k <= Len(store.drawers) /\ k <= n + Batch
      /\ (k = n + Batch \/ k = Len(store.drawers))
  BY <1>1, LesserOf
<1>3. Batched(n + 1) = SubSeq(store.drawers, n + 1, k)
  BY DEF Batched
<1> HIDE DEF k
<1>4. /\ SubSeq(store.drawers, n + 1, k) \in Seq(Drawer)
      /\ Len(SubSeq(store.drawers, n + 1, k)) = IF n + 1 <= k THEN k - n ELSE 0
      /\ \A i \in 1..(k - n) : SubSeq(store.drawers, n + 1, k)[i] = store.drawers[n + i]
  <2> DEFINE stored == store.drawers
  <2>1. stored \in Seq(Drawer) /\ k <= Len(stored)
    BY <1>1, <1>2
  <2> HIDE DEF stored
  <2>2. /\ SubSeq(stored, n + 1, k) \in Seq(Drawer)
        /\ Len(SubSeq(stored, n + 1, k)) = IF n + 1 <= k THEN k - n ELSE 0
        /\ \A i \in 1..(k - n) : SubSeq(stored, n + 1, k)[i] = stored[n + i]
    BY <1>2, <2>1, PartOf
  <2>3. QED
    BY <2>2 DEF stored
<1>5. ToSet(Batched(n + 1)) \subseteq ToSet(store.drawers)
  <2> SUFFICES ASSUME NEW i \in DOMAIN Batched(n + 1)
               PROVE  Batched(n + 1)[i] \in ToSet(store.drawers)
    BY DEF ToSet
  <2>1. i \in 1..(k - n)
    BY <1>2, <1>3, <1>4
  <2>2. n + i \in 1..Len(store.drawers)
    BY <1>1, <1>2, <2>1
  <2>3. Batched(n + 1)[i] = store.drawers[n + i]
    BY <1>3, <1>4, <2>1
  <2>4. n + i \in DOMAIN store.drawers
    BY <1>1, <2>2
  <2>5. QED
    BY <2>3, <2>4 DEF ToSet
<1>6. QED
  <2>1. n <= Len(store.drawers) => n <= k /\ (n < Len(store.drawers) => n < k)
    BY <1>1, <1>2
  <2>2. Batched(n + 1) \in Seq(Drawer)
    BY <1>3, <1>4
  <2>3. n <= Len(store.drawers) =>
          /\ k \in Nat /\ n <= k /\ k <= Len(store.drawers)
          /\ n < Len(store.drawers) => n < k
          /\ Batched(n + 1) = SubSeq(store.drawers, n + 1, k)
    BY <1>2, <1>3, <2>1
  <2>4. QED
    BY <1>5, <2>2, <2>3

LEMMA PalaceTyped ==
  ASSUME ReadTypes, Placed, Count \/ Page \/ Raise \/ Entities \/ Relations \/ Noted
  PROVE  ReadKeeps
<1>0. Unwritten /\ pc \in Reads
  BY DEF Count, Page, Raise, Entities, Relations, Noted, Reads
<1>1. conf' = conf
  BY <1>0 DEF Unwritten
<1>2. CASE Count
  <2>1. clean' \in BOOLEAN
    BY <1>2, ClearTyped DEF Count
  <2>0. got' \in Answers
    <3>1. got' = [got EXCEPT !.total = Len(store.drawers)] /\ Len(store.drawers) \in Nat
      BY <1>2, StoredTyped DEF Count, Proceed
    <3>2. QED
      BY <3>1 DEF ReadTypes, Answers
  <2>2. Placed'
    BY <1>0, <1>1, <1>2, Proceeded DEF Count
  <2>3. QED
    BY <1>0, <2>0, <2>1, <2>2, HeardTyped DEF ReadKeeps
<1>3. CASE Page
  <2>1. clean' \in BOOLEAN
    BY <1>3, ClearTyped DEF Page
  <2>2. CASE AfterDrawers
    <3>1. CASE conf.kg
      <4>1. Proceed("ents", got)
        BY <2>2, <3>1 DEF AfterDrawers
      <4>2. Is("mempalace")
        BY <1>3 DEF Page, Placed
      <4>3. Placed'
        BY <1>0, <1>1, <3>1, <4>1, <4>2, Proceeded
      <4>4. QED
        BY <1>0, <2>1, <4>1, <4>3, HeardTyped DEF ReadKeeps, Proceed, ReadTypes
    <3>2. CASE ~conf.kg
      BY <1>0, <2>1, <2>2, <3>2, CompleteTyped DEF AfterDrawers
    <3>3. QED
      BY <3>1, <3>2
  <2>3. CASE Proceed("page", [got EXCEPT !.drawers = @ \o Batched(Len(got.drawers) + 1)])
    <3>1. Batched(Len(got.drawers) + 1) \in Seq(Drawer)
      BY BatchedTyped DEF ReadTypes, Answers
    <3>2. got' \in Answers
      <4>1. got.drawers \o Batched(Len(got.drawers) + 1) \in Seq(Drawer)
        BY <3>1 DEF ReadTypes, Answers
      <4>2. QED
        BY <2>3, <4>1 DEF Proceed, ReadTypes, Answers
    <3>3. Placed'
      BY <1>0, <1>1, <1>3, <2>3, Proceeded DEF Page
    <3>4. QED
      BY <1>0, <2>1, <3>2, <3>3, HeardTyped DEF ReadKeeps
  <2>4. QED
    BY <1>3, <2>2, <2>3 DEF Page
<1>4. CASE Raise
  <2>1. got' = got /\ pc' = "raised" /\ clean' \in BOOLEAN
    BY <1>4, MissedTyped DEF Raise
  <2>2. Placed'
    BY <1>1, <2>1 DEF Placed, Reads, Loops
  <2>3. got' \in Answers
    BY <2>1 DEF ReadTypes
  <2>4. QED
    BY <1>0, <2>1, <2>2, <2>3, HeardTyped DEF ReadKeeps
<1>5. CASE Entities
  <2>1. clean' \in BOOLEAN
    BY <1>5, ClearTyped, MissedTyped DEF Entities
  <2>2. ASSUME NEW g, g \in Answers, Proceed("rels", g) PROVE ReadKeeps
    <3>1. Placed'
      BY <1>0, <1>1, <1>5, <2>2, Proceeded DEF Entities
    <3>2. QED
      BY <1>0, <2>1, <2>2, <3>1, HeardTyped DEF ReadKeeps, Proceed
  <2>3. [got EXCEPT !.ents = store.ents] \in Answers /\ got \in Answers
    BY StoredTyped DEF ReadTypes, Answers
  <2>4. ASSUME Complete(Nothing) PROVE ReadKeeps
    BY <1>0, <2>1, <2>4, CompleteTyped
  <2>5. QED
    BY <1>5, <2>2, <2>3, <2>4 DEF Entities
<1>6. CASE Relations
  <2>1. clean' \in BOOLEAN
    BY <1>6, ClearTyped, MissedTyped DEF Relations
  <2>2. QED
    BY <1>0, <1>6, <2>1, CompleteTyped DEF Relations
<1>7. CASE Noted
  <2>1. got' = Fresh /\ pc' = "done" /\ clean' \in BOOLEAN
    BY <1>7, ClearTyped, MissedTyped DEF Noted
  <2>2. Placed'
    BY <1>1, <2>1 DEF Placed, Reads, Loops
  <2>3. QED
    BY <1>0, <2>1, <2>2, FreshTyped, HeardTyped DEF ReadKeeps
<1>8. QED
  BY <1>2, <1>3, <1>4, <1>5, <1>6, <1>7

\* A request answered, and another one made.
LEMMA ProceedTyped ==
  ASSUME ReadTypes, Placed, pc \in Reads, Unwritten, clean' \in BOOLEAN, NEW at,
         NEW g \in Answers, Proceed(at, g),
         at \in {"page", "rels", "rooms", "entity", "taxonomy", "nodes", "edges"}
           \/ (at = "ents" /\ Is("mempalace") /\ conf.kg)
           \/ (at = "wings" /\ Is("daemon")),
         at = "page" => pc \in {"count", "page"},
         at = "rels" => pc = "ents",
         at = "rooms" => pc \in {"wings", "rooms"},
         at \in {"entity", "taxonomy"} => pc \in {"search", "entity"},
         at \in {"nodes", "edges"} => pc \in {"tables", "nodes", "edges"},
         at \in {"nodes", "edges"} /\ conf.shared => g.types \subseteq {"link"},
         at = "edges" => g.left \subseteq g.types
  PROVE  ReadKeeps
<1>1. conf' = conf
  BY DEF Unwritten
<1>2. Placed'
  BY <1>1, Proceeded
<1>3. got' \in Answers
  BY DEF Proceed
<1>4. QED
  BY <1>2, <1>3, HeardTyped DEF ReadKeeps

LEMMA GraphTyped ==
  ASSUME ReadTypes, Placed, GraphAnswers \/ GraphFails
  PROVE  ReadKeeps
<1>0. Unwritten /\ pc \in Reads /\ got \in Answers
  BY DEF GraphAnswers, GraphFails, Reads, ReadTypes
<1>1. CASE GraphAnswers
  <2>1. PICK p \in Samples(store) : /\ Complete(FromGraph(store, p[1], p[2]))
                                    /\ clean' = (clean /\ p = All(store))
    BY <1>1 DEF GraphAnswers
  <2>2. clean' \in BOOLEAN
    BY <2>1
  <2>3. QED
    BY <1>0, <2>1, <2>2, CompleteTyped
<1>2. CASE GraphFails
  <2>1. clean' \in BOOLEAN
    BY <1>2, MissedTyped DEF GraphFails
  <2>2. CASE Is("daemon") /\ Proceed("wings", got)
    BY <1>0, <2>1, <2>2, ProceedTyped
  <2>3. CASE Complete(Nothing)
    BY <1>0, <2>1, <2>3, CompleteTyped
  <2>4. QED
    BY <1>2, <2>2, <2>3 DEF GraphFails
<1>3. QED
  BY <1>1, <1>2

LEMMA WalkTyped ==
  ASSUME ReadTypes, Placed, ListWings \/ ListRooms \/ ListTunnels
  PROVE  ReadKeeps
<1>0. Unwritten /\ pc \in Reads /\ got \in Answers
  BY DEF ListWings, ListRooms, ListTunnels, Reads, ReadTypes
<1>1. clean' \in BOOLEAN
  BY ClearTyped, MissedTyped DEF ListWings, ListRooms, ListTunnels
<1>2. /\ Wings(ToSet(store.drawers)) \subseteq Nat
      /\ Rooms(ToSet(store.drawers)) \subseteq Nat \X Nat
  BY DrawersOf DEF ReadTypes
<1>3. CASE ListWings
  <2>1. [got EXCEPT !.wings = Wings(ToSet(store.drawers)),
                    !.left = Wings(ToSet(store.drawers))] \in Answers
    BY <1>0, <1>2 DEF Answers
  <2>2. \/ Complete(Nothing)
        \/ Proceed("rooms", [got EXCEPT !.wings = Wings(ToSet(store.drawers)),
                                        !.left = Wings(ToSet(store.drawers))])
    BY <1>3 DEF ListWings
  <2>3. QED
    BY <1>0, <1>1, <1>3, <2>1, <2>2, ProceedTyped, CompleteTyped DEF ListWings
<1>4. CASE ListRooms
  <2> DEFINE after == [got EXCEPT !.left = @ \ {Least(got.left)}]
             R == {p \in Rooms(ToSet(store.drawers)) : p[1] = Least(got.left)}
  <2>1. after \in Answers
    BY <1>0 DEF Answers
  <2>2. [after EXCEPT !.pairs = @ \cup R] \in Answers
    BY <1>2, <2>1 DEF Answers
  <2>3. Proceed("rooms", [after EXCEPT !.pairs = @ \cup R]) \/ Proceed("rooms", after)
    BY <1>4 DEF ListRooms
  <2>4. pc = "rooms"
    BY <1>4 DEF ListRooms
  <2> HIDE DEF after, R
  <2>5. QED
    BY <1>0, <1>1, <2>1, <2>2, <2>3, <2>4, ProceedTyped
<1>5. CASE ListTunnels
  BY <1>0, <1>1, <1>5, CompleteTyped DEF ListTunnels
<1>6. QED
  BY <1>3, <1>4, <1>5

LEMMA ServerTyped ==
  ASSUME ReadTypes, Placed, Search \/ GetEntity \/ AllEntities \/ Taxonomy
  PROVE  ReadKeeps
<1>0. Unwritten /\ pc \in Reads /\ got \in Answers
  BY DEF Search, GetEntity, AllEntities, Taxonomy, Reads, ReadTypes
<1>1. CASE Search
  <2>1. pc = "search"
    BY <1>1 DEF Search
  <2>2. ASSUME NEW E \in Sample(store.ents, Limit),
               IF E \ {0} = {} THEN Proceed("taxonomy", got)
               ELSE Proceed("entity", [got EXCEPT !.ents = E \ {0}, !.left = E \ {0}]),
               clean' = (clean /\ E = store.ents)
        PROVE  ReadKeeps
    <3>1. clean' \in BOOLEAN
      BY <2>2
    <3>2. E \subseteq Nat
      BY SampleIn, StoredTyped
    <3>3. [got EXCEPT !.ents = E \ {0}, !.left = E \ {0}] \in Answers
      BY <1>0, <3>2 DEF Answers
    <3>4. QED
      BY <1>0, <2>1, <2>2, <3>1, <3>3, ProceedTyped
  <2>3. ASSUME Proceed("taxonomy", got), Missed PROVE ReadKeeps
    BY <1>0, <2>1, <2>3, MissedTyped, ProceedTyped
  <2>4. QED
    BY <1>1, <2>2, <2>3 DEF Search
<1>2. CASE GetEntity
  <2> DEFINE after == [got EXCEPT !.left = @ \ {Least(got.left)}]
             R == Touching(Least(got.left))
  <2>1. after \in Answers
    BY <1>0 DEF Answers
  <2>2. R \subseteq Link
    BY StoredTyped DEF Touching
  <2>3. Proceed("entity", [after EXCEPT !.rels = @ \cup R]) \/ Proceed("entity", after)
    BY <1>2 DEF GetEntity
  <2>4. pc = "entity" /\ clean' \in BOOLEAN
    BY <1>2, ClearTyped, MissedTyped DEF GetEntity
  <2> HIDE DEF after, R
  <2>5. [after EXCEPT !.rels = @ \cup R] \in Answers
    BY <2>1, <2>2 DEF Answers
  <2>6. QED
    BY <1>0, <2>1, <2>3, <2>4, <2>5, ProceedTyped
<1>3. CASE AllEntities
  BY <1>0, <1>3, ClearTyped, CompleteTyped DEF AllEntities
<1>4. CASE Taxonomy
  <2>1. clean' \in BOOLEAN
    BY <1>4, ClearTyped, MissedTyped DEF Taxonomy
  <2>2. QED
    BY <1>0, <1>4, <2>1, CompleteTyped DEF Taxonomy
<1>5. QED
  BY <1>1, <1>2, <1>3, <1>4

LEMMA TableNames == conf \in Config => Selected \subseteq Names
<1>1. Selected \subseteq {Kind[e] : e \in DOMAIN Kind} \cup conf.tables
  BY DEF Selected
<1>2. conf \in Config => conf.tables \subseteq {Kind[e] : e \in DOMAIN Kind}
  BY DEF Config
<1>3. {Kind[e] : e \in DOMAIN Kind} \subseteq Names
  BY PalaceReadsAssumption DEF Names
<1>4. QED
  BY <1>1, <1>2, <1>3

LEMMA LadybugTyped ==
  ASSUME ReadTypes, Placed, ShowTables \/ PullNodes \/ PullEdges \/ AllEdges
  PROVE  ReadKeeps
<1>0. Unwritten /\ pc \in Reads /\ got \in Answers
  BY DEF ShowTables, PullNodes, PullEdges, AllEdges, Reads, ReadTypes
<1>1. CASE ShowTables
  <2> DEFINE names == IF conf.shared THEN {"link"} ELSE {r.type : r \in store.rels}
             shown == [got EXCEPT !.left = Selected, !.types = names]
  <2>1. names \subseteq Names
    <3>1. \A r \in store.rels : r.type \in Names
      BY StoredTyped DEF Link
    <3>2. {r.type : r \in store.rels} \subseteq Names
      BY <3>1
    <3>3. "link" \in Names
      BY DEF Names
    <3>4. QED
      BY <3>2, <3>3
  <2>7. Selected \subseteq Names
    BY TableNames DEF ReadTypes
  <2>2. shown \in Answers
    BY <1>0, <2>1, <2>7 DEF Answers
  <2>3. Proceed("nodes", shown) \/ Complete(Nothing)
    BY <1>1 DEF ShowTables
  <2>4. pc = "tables" /\ clean' \in BOOLEAN
    BY <1>1, ClearTyped, MissedTyped DEF ShowTables
  <2>6. conf.shared => shown.types \subseteq {"link"}
    BY <1>0 DEF Answers
  <2> HIDE DEF shown
  <2>5. QED
    BY <1>0, <2>2, <2>3, <2>4, <2>6, ProceedTyped, CompleteTyped
<1>2. CASE PullNodes
  <2>1. pc = "nodes" /\ clean' \in BOOLEAN
    BY <1>2, ClearTyped, MissedTyped DEF PullNodes
  <2>2. conf.shared => got.types \subseteq {"link"}
    BY <2>1 DEF Placed
  <2>3. CASE Proceed("edges", [got EXCEPT !.left = got.types])
    <3> DEFINE g == [got EXCEPT !.left = got.types]
    <3>1. g \in Answers /\ g.types = got.types /\ g.left = got.types
      BY <1>0 DEF Answers
    <3>2. Proceed("edges", g)
      BY <2>3
    <3> HIDE DEF g
    <3>3. QED
      BY <1>0, <2>1, <2>2, <3>1, <3>2, ProceedTyped
  <2>4. ASSUME NEW t \in got.left,
               \/ Proceed("nodes", [[got EXCEPT !.left = @ \ {t}] EXCEPT
                                      !.ents = @ \cup {e \in InTables(store.ents) : Kind[e] = t}])
               \/ Proceed("nodes", [got EXCEPT !.left = @ \ {t}])
        PROVE  ReadKeeps
    <3> DEFINE after == [got EXCEPT !.left = @ \ {t}]
               E == {e \in InTables(store.ents) : Kind[e] = t}
               g == [after EXCEPT !.ents = @ \cup E]
    <3>1. after \in Answers /\ after.types = got.types
      BY <1>0 DEF Answers
    <3>2. E \subseteq Nat
      BY StoredTyped DEF InTables
    <3>3. Proceed("nodes", g) \/ Proceed("nodes", after)
      BY <2>4
    <3> HIDE DEF after, E
    <3>4. g \in Answers /\ g.types = got.types
      BY <3>1, <3>2 DEF Answers
    <3> HIDE DEF g
    <3>5. QED
      BY <1>0, <2>1, <2>2, <3>1, <3>3, <3>4, ProceedTyped
  <2>5. QED
    BY <1>2, <2>3, <2>4 DEF PullNodes
<1>3. CASE PullEdges
  <2>1. pc = "edges"
    BY <1>3 DEF PullEdges
  <2>2. got.left \subseteq got.types /\ (conf.shared => got.types \subseteq {"link"})
    BY <2>1 DEF Placed
  <2>3. PICK t \in got.left :
          LET after == [got EXCEPT !.left = @ \ {t}]
              T == {r \in Linked(store) : conf.shared \/ r.type = t}
          IN  \/ \E R \in OnePair(T) :
                   /\ \/ Proceed("edges", [after EXCEPT !.rels = @ \cup R])
                      \/ Proceed("edges", [after EXCEPT !.rels = @ \cup {[r EXCEPT !.type = t] : r \in R}])
                   /\ clean' = (clean /\ R = T /\ got'.rels = got.rels \cup T)
              \/ Proceed("edges", after) /\ Missed
    BY <1>3 DEF PullEdges
  <2> DEFINE after == [got EXCEPT !.left = @ \ {t}]
             T == {r \in Linked(store) : conf.shared \/ r.type = t}
             g(Q) == [after EXCEPT !.rels = @ \cup Q]
  <2>4. after \in Answers /\ after.types = got.types /\ after.left \subseteq got.types
    BY <1>0, <2>2 DEF Answers
  <2>5. T \subseteq Link
    BY StoredTyped DEF Linked
  <2> HIDE DEF after
  <2>6. ASSUME NEW Q \in SUBSET Link
        PROVE  g(Q) \in Answers /\ g(Q).types = got.types /\ g(Q).left \subseteq got.types
    BY <2>4 DEF Answers
  <2>7. ASSUME NEW Q \in SUBSET Link, Proceed("edges", g(Q)), clean' \in BOOLEAN
        PROVE  ReadKeeps
    <3>1. g(Q) \in Answers /\ g(Q).types = got.types /\ g(Q).left \subseteq got.types
      BY <2>6
    <3> HIDE DEF g
    <3>2. QED
      BY <1>0, <2>1, <2>2, <2>7, <3>1, ProceedTyped
  <2>8. CASE Proceed("edges", after) /\ Missed
    BY <1>0, <2>1, <2>2, <2>4, <2>8, MissedTyped, ProceedTyped
  <2>9. ASSUME NEW R \in OnePair(T),
               \/ Proceed("edges", g(R))
               \/ Proceed("edges", g({[r EXCEPT !.type = t] : r \in R})),
               clean' = (clean /\ R = T /\ got'.rels = got.rels \cup T)
        PROVE  ReadKeeps
    <3>1. clean' \in BOOLEAN
      BY <2>9
    <3>2. R \in SUBSET Link
      BY <2>5, PairIn
    <3>3. t \in Names
      BY <1>0, <2>2 DEF Answers
    <3>4. {[r EXCEPT !.type = t] : r \in R} \in SUBSET Link
      BY <3>2, <3>3 DEF Link
    <3> HIDE DEF g
    <3>5. QED
      BY <2>7, <2>9, <3>1, <3>2, <3>4
  <2>10. QED
    BY <2>3, <2>8, <2>9 DEF after
<1>4. CASE AllEdges
  BY <1>0, <1>4, ClearTyped, CompleteTyped DEF AllEdges
<1>5. QED
  BY <1>1, <1>2, <1>3, <1>4

\* A request of a question, a probe or the ladder, none of which reads a graph.
LEMMA AskTyped ==
  ASSUME ReadTypes, Placed, Ask \/ Probe \/ Summary \/ Tally
  PROVE  ReadKeeps
<1>1. CASE Ask \/ Probe
  <2>1. UNCHANGED <<store, conf, pc, got, graph, writes>>
    BY <1>1 DEF Ask, Probe, reading
  <2>2. clean' \in BOOLEAN
    <3>1. CASE Ask
      <4>1. PICK r : clean' = (clean /\ r # Failed)
        BY <3>1 DEF Ask
      <4>2. QED
        BY <4>1
    <3>2. CASE Probe
      BY <3>2 DEF Probe, ReadTypes
    <3>3. QED
      BY <1>1, <3>1, <3>2
  <2>3. store' \in Store /\ conf' \in Config /\ got' \in Answers /\ writes' \in Nat
    BY <2>1 DEF ReadTypes
  <2>4. Placed'
    BY <2>1 DEF Placed, Is, Pending
  <2>5. QED
    BY <2>2, <2>3, <2>4 DEF ReadKeeps, ReadTypes
<1>2. CASE Summary \/ Tally
  <2>1. pc' = "done" /\ UNCHANGED <<got, graph, clean>> /\ Unwritten
    BY <1>2 DEF Summary, Tally, Finish
  <2>2. got' \in Answers /\ clean' \in BOOLEAN
    BY <2>1 DEF ReadTypes
  <2>3. conf' = conf
    BY <2>1 DEF Unwritten
  <2>4. Placed'
    BY <2>1, <2>3 DEF Placed, Reads, Loops
  <2>5. QED
    BY <2>1, <2>2, <2>4, HeardTyped DEF ReadKeeps
<1>3. QED
  BY <1>1, <1>2

\* The ladder moves among requests of its own.
LEMMA LoopPlaces ==
  ASSUME LoopStep
  PROVE  Elsewhere /\ pc \in Loops /\ pc' \in Loops \cup {"done", "raised"}
<1>1. Driver \/ Save \/ SaveFails
        => Elsewhere /\ pc \in Loops /\ pc' \in Loops \cup {"done", "raised"}
  BY DEF Driver, Save, SaveFails, NextRung, Loops
<1>2. ASSUME NEW n, Answered(n) PROVE pc' \in Loops
  BY <1>2 DEF Answered, NextQuestion, Loops
<1>3. ASSUME Raised PROVE pc' \in Loops
  BY <1>3 DEF Raised, NextQuestion, Loops
<1>4. Turn \/ Capped \/ TurnFails
        => Elsewhere /\ pc \in Loops /\ pc' \in Loops
  <2>1. ASSUME Turn PROVE pc' \in Loops
    <3>1. pc' = "tools" \/ \E n : Answered(n)
      BY <2>1 DEF Turn
    <3>2. QED
      BY <1>2, <3>1 DEF Loops
  <2>2. ASSUME Capped PROVE pc' \in Loops
    BY <1>2, <2>2 DEF Capped
  <2>3. ASSUME TurnFails PROVE pc' \in Loops
    BY <1>3, <2>3 DEF TurnFails
  <2>4. Turn \/ Capped \/ TurnFails => Elsewhere /\ pc \in Loops
    BY DEF Turn, Capped, TurnFails, Loops
  <2>5. QED
    BY <2>1, <2>2, <2>3, <2>4
<1>5. Use \/ UseFails => Elsewhere /\ pc \in Loops /\ pc' \in Loops
  <2>1. Use => Elsewhere /\ pc = "tools" /\ pc' \in {pc, "turn"}
    BY DEF Use
  <2>2. UseFails => Elsewhere /\ pc = "tools" /\ Raised
    BY DEF UseFails
  <2>3. QED
    BY <1>3, <2>1, <2>2 DEF Loops
<1>6. QED
  BY <1>1, <1>4, <1>5 DEF LoopStep

LEMMA LoopTyped ==
  ASSUME ReadTypes, Placed, LoopStep
  PROVE  ReadKeeps
<1>1. UNCHANGED <<store, conf, got, graph, writes, clean>>
  BY LoopPlaces DEF Elsewhere
<1>2. pc \in Loops /\ pc' \in Loops \cup {"done", "raised"}
  BY LoopPlaces
<1>3. conf.cmd = "cat9a"
  BY <1>2 DEF Placed
<1>4. Placed'
  BY <1>1, <1>2, <1>3 DEF Placed, Reads, Loops
<1>5. /\ store' \in Store /\ conf' \in Config /\ got' \in Answers /\ writes' \in Nat
      /\ clean' \in BOOLEAN
  BY <1>1 DEF ReadTypes
<1>6. QED
  BY <1>4, <1>5 DEF ReadKeeps, ReadTypes

LEMMA IdleTyped ==
  ASSUME ReadTypes, Placed, UNCHANGED vars
  PROVE  ReadKeeps
<1>1. UNCHANGED <<store, conf, pc, got, graph, writes, clean>>
  BY DEF vars, reading
<1>2. /\ store' \in Store /\ conf' \in Config /\ got' \in Answers /\ writes' \in Nat
      /\ clean' \in BOOLEAN
  BY <1>1 DEF ReadTypes
<1>3. Placed'
  BY <1>1 DEF Placed, Is, Pending
<1>4. QED
  BY <1>2, <1>3 DEF ReadKeeps, ReadTypes

LEMMA TypeStep ==
  ASSUME ReadTypes, Placed, [LiveNext]_lvars
  PROVE  ReadTypes' /\ Placed'
<1>1. CASE Read
  BY <1>1, PalaceTyped, GraphTyped, WalkTyped, ServerTyped, LadybugTyped, AskTyped
     DEF Read, ReadKeeps
<1>2. CASE UNCHANGED vars
  BY <1>2, IdleTyped DEF ReadKeeps
<1>3. CASE LoopStep
  BY <1>3, LoopTyped DEF ReadKeeps
<1>4. CASE Write
  BY <1>4, WriteTyped DEF ReadKeeps
<1>5. CASE Raise
  BY <1>5, PalaceTyped DEF ReadKeeps
<1>6. QED
  BY <1>1, <1>2, <1>3, <1>4, <1>5 DEF LiveNext, Next, Ended, lvars

LEMMA TypeInit ==
  ASSUME LiveInit
  PROVE  ReadTypes /\ Placed
<1>1. /\ store \in Store /\ conf \in Config /\ pc = Begin(conf) /\ got = Fresh
      /\ graph = Pending /\ writes = 0 /\ clean = TRUE
  BY PalaceReadsAssumption DEF LiveInit, Init
<1>2. ReadTypes
  BY <1>1, FreshTyped DEF ReadTypes
<1>3. Placed
  <2>1. conf.cmd \in Commands /\ conf.adapter \in Adapters
    BY <1>1 DEF Config
  <2>2. CASE conf.cmd \in {"retrieve", "cat9", "cat9a"}
    BY <1>1, <2>2 DEF Begin, Placed, Reads, Loops
  <2>3. CASE conf.cmd \in {"cat5", "cat3"}
    <3>1. pc = FirstRequest(conf)
      BY <1>1, <2>3 DEF Begin
    <3>2. CASE conf.adapter \in {"mempalace", "server", "engram", "ladybug"}
      BY <1>1, <2>3, <3>1, <3>2 DEF FirstRequest, Placed, Is, Reads, Loops
    <3>3. CASE conf.adapter = "daemon"
      BY <1>1, <2>3, <3>1, <3>3 DEF FirstRequest, Placed, Is, Reads, Loops
    <3>4. CASE conf.adapter \in {"familiar", "hindsight", "good-dog", "ladybug-file"}
      BY <1>1, <2>3, <3>1, <3>4 DEF FirstRequest, Placed, Is, Reads, Loops
    <3>5. QED
      BY <2>1, <3>2, <3>3, <3>4 DEF Adapters
  <2>4. QED
    BY <2>1, <2>2, <2>3 DEF Commands
<1>4. QED
  BY <1>2, <1>3

\* The store, the command, its requests and what they have heard keep their types,
\* and a request is one of the command's adapter.
THEOREM LiveTypeCorrect == LiveSpec => [](ReadTypes /\ Placed)
<1>1. LiveInit => ReadTypes /\ Placed
  BY TypeInit
<1>2. ReadTypes /\ Placed /\ [LiveNext]_lvars => ReadTypes' /\ Placed'
  BY TypeStep
<1>3. QED
  BY <1>1, <1>2, PTL DEF LiveSpec

(***************************************************************************)
(* The graphs that are promised to be consistent.                          *)
(***************************************************************************)

LEMMA GraphParts ==
  ASSUME NEW N, NEW E
  PROVE  Graph(N, E).nodes = N /\ Graph(N, E).edges = E
BY DEF Graph

LEMMA NothingEnds == Closed(Nothing)
<1>1. Ends({}) = {}
  BY DEF Ends
<1>2. QED
  BY <1>1, GraphParts DEF Closed, Nothing

LEMMA CompletedEnds ==
  ASSUME NEW g
  PROVE  Closed(WithEnds(g)) /\ Closed(Within(g))
<1>1. Closed(WithEnds(g))
  BY GraphParts DEF Closed, WithEnds
<1>2. Closed(Within(g))
  <2> DEFINE E == {e \in g.edges : {e.from, e.to} \subseteq g.nodes}
  <2>1. Ends(E) \subseteq g.nodes
    BY DEF Ends
  <2>2. Within(g).nodes = g.nodes /\ Within(g).edges = E
    BY GraphParts DEF Within
  <2>3. QED
    BY <2>1, <2>2 DEF Closed
<1>3. QED
  BY <1>1, <1>2

LEMMA TaxonomyEnds ==
  ASSUME NEW D
  PROVE  Closed(Structure(Wings(D), Rooms(D), {}))
<1> DEFINE topics == {p \in Rooms(D) : IsTopic(p[2])}
           g == Structure(Wings(D), Rooms(D), {})
           member == {Edge(<<"room", p[2]>>, "member_of", <<"wing", p[1]>>) : p \in topics}
<1>1. Tunnels({}) = {}
  BY DEF Tunnels
<1>2. /\ g.nodes = {<<"wing", w>> : w \in Wings(D)} \cup {<<"room", p[2]>> : p \in topics}
      /\ g.edges = member
  BY <1>1, GraphParts DEF Structure
<1>3. \A p \in topics : p[1] \in Wings(D)
  BY DEF Rooms, Wings
<1>4. ASSUME NEW e \in member PROVE e.from \in g.nodes /\ e.to \in g.nodes
  <2>1. PICK p \in topics : e = Edge(<<"room", p[2]>>, "member_of", <<"wing", p[1]>>)
    BY <1>4
  <2>2. e.from = <<"room", p[2]>> /\ e.to = <<"wing", p[1]>>
    BY <2>1 DEF Edge
  <2>3. QED
    BY <1>2, <1>3, <2>2
<1>5. g.edges = member
  BY <1>2
<1> HIDE DEF g, member
<1>6. Closed(g)
  BY <1>4, <1>5 DEF Closed, Ends
<1>7. QED
  BY <1>6 DEF g

\* The command's adapter promises a graph whose edges have their ends.
MustEnd ==
  \/ Is("daemon") /\ conf.kgOnly
  \/ conf.adapter \in {"server", "engram", "ladybug", "ladybug-file"}

Ending(g) == MustEnd => Closed(g)

LEMMA ProjectEnds ==
  ASSUME MustEnd, NEW b
  PROVE  Is("daemon") => Closed(Project(b, conf.kgOnly))
BY CompletedEnds DEF MustEnd, Project, Is

\* A step leaves the graph as it is, or reads one whose edges end.
LEMMA GraphsEnd ==
  ASSUME ReadTypes, Placed, [LiveNext]_lvars
  PROVE  graph' = graph \/ Ending(graph')
<1> DEFINE Fine == graph' = graph \/ Ending(graph')
<1>1. ASSUME NEW g, Complete(g), Ending(g) PROVE Fine
  BY <1>1 DEF Complete
<1>2. ASSUME NEW at, NEW g, Proceed(at, g) PROVE Fine
  BY <1>2 DEF Proceed
<1>3. conf.adapter \in Adapters
  BY DEF ReadTypes, Config
<1>4. Ending(Nothing)
  BY NothingEnds DEF Ending
<1>5. CASE Count \/ Page \/ Raise
  <2>1. CASE Count
    BY <1>2, <2>1 DEF Count
  <2>2. CASE Page
    <3>1. Is("mempalace")
      BY <2>2 DEF Placed, Page
    <3>2. \A g : Ending(g)
      BY <3>1 DEF Ending, MustEnd, Is
    <3>3. QED
      BY <1>1, <1>2, <2>2, <3>2 DEF Page, AfterDrawers
  <2>3. CASE Raise
    BY <2>3 DEF Raise
  <2>4. QED
    BY <1>5, <2>1, <2>2, <2>3
<1>6. CASE Entities
  BY <1>1, <1>2, <1>4, <1>6 DEF Entities
<1>7. CASE Relations
  <2>1. \A E, R : Ending(FromTables(E, R))
    <3> TAKE E, R
    <3>1. CASE Is("engram")
      BY <3>1, CompletedEnds DEF FromTables, Ending
    <3>2. CASE Is("mempalace")
      BY <3>2 DEF Ending, MustEnd, Is
    <3>3. QED
      BY <1>7, <3>1, <3>2 DEF Relations, Placed
  <2>2. CASE \E R : Complete(FromTables(got.ents, R))
    BY <1>1, <2>1, <2>2
  <2>3. CASE ~Is("engram") /\ Complete(FromPalace({}, {}))
    <3>1. FromPalace({}, {}) = FromTables({}, {})
      BY <2>3 DEF FromTables
    <3>2. QED
      BY <1>1, <2>1, <2>3, <3>1
  <2>4. QED
    BY <1>7, <2>2, <2>3 DEF Relations
<1>8. CASE Noted
  BY <1>8 DEF Noted
<1>9. CASE GraphAnswers
  <2>1. PICK p \in Samples(store) : Complete(FromGraph(store, p[1], p[2]))
    BY <1>9 DEF GraphAnswers
  <2>2. pc = "graph"
    BY <1>9 DEF GraphAnswers
  <2>3. CASE Is("daemon")
    <3>1. FromGraph(store, p[1], p[2]) = Project(Payload(store, p[1], p[2]), conf.kgOnly)
      BY <2>3 DEF FromGraph, Is
    <3>2. QED
      BY <1>1, <2>1, <2>3, <3>1, ProjectEnds DEF Ending
  <2>4. CASE Is("ladybug-file")
    <3>1. FromGraph(store, p[1], p[2]) = FromFile(p[1], p[2])
      BY <2>4 DEF FromGraph, Is
    <3>2. QED
      BY <1>1, <2>1, <3>1, CompletedEnds DEF Ending, FromFile
  <2>5. CASE conf.adapter \in {"familiar", "hindsight", "good-dog"}
    BY <1>1, <2>1, <2>5 DEF Ending, MustEnd, Is
  <2>6. QED
    BY <2>2, <2>3, <2>4, <2>5 DEF Placed, Is
<1>10. CASE GraphFails
  BY <1>1, <1>2, <1>4, <1>10 DEF GraphFails
<1>11. CASE ListWings \/ ListRooms \/ ListTunnels
  <2>1. Is("daemon")
    BY <1>11 DEF ListWings, ListRooms, ListTunnels, Placed
  <2>2. \A T : Ending(Walked(T))
    BY <2>1, ProjectEnds DEF Ending, Walked
  <2>3. CASE ListWings
    BY <1>1, <1>2, <1>4, <2>3 DEF ListWings
  <2>4. CASE ListRooms
    BY <1>2, <2>4 DEF ListRooms
  <2>5. CASE ListTunnels
    BY <1>1, <2>2, <2>5 DEF ListTunnels
  <2>6. QED
    BY <1>11, <2>3, <2>4, <2>5
<1>12. CASE Search \/ GetEntity
  <2>1. CASE Search
    BY <1>2, <2>1 DEF Search
  <2>2. CASE GetEntity
    BY <1>2, <2>2 DEF GetEntity
  <2>3. QED
    BY <1>12, <2>1, <2>2
<1>13. CASE AllEntities
  <2>1. Ending(Listed)
    BY CompletedEnds DEF Ending, Listed
  <2>2. QED
    BY <1>1, <1>13, <2>1 DEF AllEntities
<1>14. CASE Taxonomy
  <2>1. \A D : Ending(Structure(Wings(D), Rooms(D), {}))
    BY TaxonomyEnds DEF Ending
  <2>2. QED
    BY <1>1, <1>4, <1>14, <2>1 DEF Taxonomy
<1>15. CASE ShowTables \/ PullNodes \/ PullEdges
  <2>1. CASE ShowTables
    BY <1>1, <1>2, <1>4, <2>1 DEF ShowTables
  <2>2. CASE PullNodes
    BY <1>2, <2>2 DEF PullNodes
  <2>3. CASE PullEdges
    BY <1>2, <2>3 DEF PullEdges
  <2>4. QED
    BY <1>15, <2>1, <2>2, <2>3
<1>16. CASE AllEdges
  <2>1. Ending(Pulled)
    BY CompletedEnds DEF Ending, Pulled
  <2>2. QED
    BY <1>1, <1>16, <2>1 DEF AllEdges
<1>17. CASE Ask \/ Probe \/ Summary \/ Tally
  BY <1>17 DEF Ask, Probe, Summary, Tally, Finish, reading
<1>18. CASE Write
  BY <1>18 DEF Write, File, Delete, Learn, Forget, Written, reading
<1>19. CASE LoopStep
  BY <1>19, LoopPlaces DEF Elsewhere
<1>20. CASE UNCHANGED vars
  BY <1>20 DEF vars, reading
<1> HIDE DEF Fine
<1>21. CASE Read
  BY <1>5, <1>6, <1>7, <1>8, <1>9, <1>10, <1>11, <1>12, <1>13, <1>14, <1>15, <1>16, <1>17,
     <1>21 DEF Read
<1>22. QED
  BY <1>5, <1>18, <1>19, <1>20, <1>21 DEF LiveNext, Next, Ended, lvars, Fine

\* No step runs another command.
LEMMA SameCommand ==
  ASSUME [LiveNext]_lvars
  PROVE  conf' = conf
<1>1. Unwritten => conf' = conf
  BY DEF Unwritten
<1>2. CASE Read
  BY <1>1, <1>2 DEF Read, Count, Page, Entities, Relations, Noted, GraphAnswers, GraphFails,
     ListWings, ListRooms, ListTunnels, Search, GetEntity, AllEntities, Taxonomy, ShowTables,
     PullNodes, PullEdges, AllEdges, Ask, Probe, Summary, Tally, Finish
<1>3. CASE Write
  BY <1>3 DEF Write, File, Delete, Learn, Forget, Written
<1>4. CASE Raise
  BY <1>1, <1>4 DEF Raise
<1>5. CASE LoopStep
  BY <1>5, LoopPlaces DEF Elsewhere
<1>6. CASE UNCHANGED vars
  BY <1>6 DEF vars
<1>7. QED
  BY <1>2, <1>3, <1>4, <1>5, <1>6 DEF LiveNext, Next, Ended, lvars

LEMMA EdgesStep ==
  ASSUME ReadTypes, Placed, EdgesEnd, [LiveNext]_lvars
  PROVE  EdgesEnd'
<1>1. conf' = conf
  BY SameCommand
<1>2. conf.adapter \in Adapters
  BY DEF ReadTypes, Config
<1>3. CASE graph' = graph
  BY <1>1, <1>3 DEF EdgesEnd, Is, Pending, Closed, Ends
<1>4. CASE Ending(graph')
  BY <1>1, <1>2, <1>4 DEF EdgesEnd, Ending, MustEnd, Is, Adapters
<1>5. QED
  BY <1>3, <1>4, GraphsEnd

\* The graphs promised to be consistent are: every edge of one has its ends among the
\* entities, whatever was written between the requests it was read with.
THEOREM EdgesEndHolds == LiveSpec => []EdgesEnd
<1>1. LiveInit => EdgesEnd
  BY DEF LiveInit, Init, EdgesEnd
<1>2. ReadTypes /\ Placed /\ EdgesEnd /\ [LiveNext]_lvars => EdgesEnd'
  BY EdgesStep
<1>3. QED
  BY <1>1, <1>2, LiveTypeCorrect, PTL DEF LiveSpec

(***************************************************************************)
(* What a routed question says of the palace.                              *)
(***************************************************************************)

\* The least of some names is one of them.
LEMMA LeastOf ==
  ASSUME NEW S \in SUBSET Nat, S # {}
  PROVE  Least(S) \in S
<1> DEFINE R == OpToRel(<, Nat)
<1>1. PICK k \in S : \A j \in S : ~(<<j, k>> \in R)
  <2> HIDE DEF R
  <2>1. IsWellFoundedOn(R, Nat)
    BY NatLessThanWellFounded DEF R
  <2>2. QED
    BY <2>1, WFMin
<1>2. \A i, j \in Nat : i < j => <<i, j>> \in R
  BY DEF OpToRel
<1> HIDE DEF R
<1>3. \A j \in S : k <= j
  <2> TAKE j \in S
  <2>1. j \in Nat /\ k \in Nat
    OBVIOUS
  <2>2. ~(j < k)
    BY <1>1, <1>2, <2>1
  <2>3. QED
    BY <2>1, <2>2
<1>4. QED
  BY <1>3 DEF Least

\* A scored question of MemPalaceAdapter, and one that tells the truth of the palace.
Rows == [hit : BOOLEAN, error : {"none", "NO_RESULTS", "failed"}, stock : Nat,
         met : BOOLEAN, kept : BOOLEAN]
True(row) == row.error = "NO_RESULTS" /\ row.stock > 0 => row.met /\ ~row.kept
Honest == {row \in Rows : True(row)}

SeenIn(known, saw) == \A k \in known : k # 0 /\ \E d \in saw : Strip(d.room) = k

\* Why: every room that is known was seen by the lookup.
RoomsSeen ==
  /\ SeenIn(rooms.known, rooms.saw)
  /\ conf.cmd = "retrieve" /\ Is("mempalace") => rows \in Seq(Honest)

LEMMA LookedUpSeen ==
  ASSUME RoomsSeen, NEW looked \in LookedUp
  PROVE  SeenIn(looked.known, looked.saw)
<1>1. CASE looked = rooms
  BY <1>1 DEF RoomsSeen
<1>2. CASE looked # rooms
  <2>1. PICK K \in {Known, {}} :
          looked = [looked |-> TRUE, known |-> K, saw |-> ToSet(store.drawers)]
    BY <1>2 DEF LookedUp
  <2>2. QED
    BY <2>1 DEF SeenIn, Known
<1>3. QED
  BY <1>1, <1>2

\* A question goes to the whole palace, or to a room that is known.
LEMMA RoutedKnown ==
  ASSUME NEW q \in Questions, NEW known, Routed(q, known) # 0
  PROVE  Routed(q, known) \in known
<1> DEFINE named == q.names \cap known
<1>1. named # {} /\ Routed(q, known) = Least(named)
  BY DEF Routed
<1>2. named \subseteq Nat
  BY PalaceReadsAssumption
<1>3. Least(named) \in named
  <2> HIDE DEF named
  <2>1. QED
    BY <1>1, <1>2, LeastOf
<1>4. QED
  BY <1>1, <1>3

LEMMA RepliesTrue ==
  ASSUME NEW room, NEW r \in FromChroma(room)
  PROVE  /\ r.error \in {"none", "NO_RESULTS", "failed"}
         /\ r.error = "NO_RESULTS" => Scope(room) = {}
<1>1. CASE r = Failed
  BY <1>1 DEF Failed, Reply
<1>2. CASE r # Failed
  <2>1. PICK F \in SUBSET Scope(room) : r = Found(F) /\ (F = {} => Scope(room) = {})
    BY <1>2 DEF FromChroma
  <2>2. r.error = IF F = {} THEN "NO_RESULTS" ELSE "none"
    BY <2>1 DEF Found, Reply
  <2>3. QED
    BY <2>1, <2>2
<1>3. QED
  BY <1>1, <1>2

LEMMA ScoredTrue ==
  ASSUME ReadTypes, RoomsSeen, Is("mempalace"), NEW q \in Questions,
         NEW looked \in LookedUp, rooms' = looked, NEW r \in Replies(q, looked.known)
  PROVE  Scored(q, r) \in Honest
<1> DEFINE room == Routed(q, looked.known)
           hit == {d.id : d \in r.found} \cap q.expects # {}
           stock == Len(store.drawers)
           met == room # 0 /\ \E d \in looked.saw : Strip(d.room) = room
           kept == \E d \in looked.saw \cap ToSet(store.drawers) : d.room = room
<1>1. Scored(q, r) = [hit |-> hit, error |-> r.error, stock |-> stock, met |-> met, kept |-> kept]
  BY DEF Scored
<1>2. r \in FromChroma(room)
  BY DEF Replies, Is
<1>3. store.drawers \in Seq(Drawer) /\ stock \in Nat
  BY StoredTyped
<1>4. r.error = "NO_RESULTS" /\ stock > 0 => met /\ ~kept
  <2> SUFFICES ASSUME r.error = "NO_RESULTS", stock > 0 PROVE met /\ ~kept
    OBVIOUS
  <2>1. Scope(room) = {}
    <3> HIDE DEF room
    <3>1. QED
      BY <1>2, RepliesTrue
  <2>2. store.drawers[1] \in ToSet(store.drawers)
    BY <1>3 DEF ToSet
  <2>3. room # 0
    <3> HIDE DEF room
    <3>1. QED
      BY <2>1, <2>2 DEF Scope
  <2>4. met
    BY <2>3, LookedUpSeen, RoutedKnown DEF SeenIn
  <2>5. ~kept
    <3> HIDE DEF room
    <3>1. QED
      BY <2>1 DEF Scope
  <2>6. QED
    BY <2>4, <2>5
<1>5. hit \in BOOLEAN /\ met \in BOOLEAN /\ kept \in BOOLEAN
  OBVIOUS
<1>6. r.error \in {"none", "NO_RESULTS", "failed"}
  BY <1>2, RepliesTrue
<1> HIDE DEF hit, stock, met, kept
<1>7. Scored(q, r) \in Rows
  BY <1>1, <1>3, <1>5, <1>6 DEF Rows
<1>8. True(Scored(q, r))
  BY <1>1, <1>4 DEF True
<1>9. QED
  BY <1>7, <1>8 DEF Honest

\* No other step looks rooms up or asks anything.
LEMMA RoomsStep ==
  ASSUME ReadTypes, Placed, RoomsSeen, [LiveNext]_lvars
  PROVE  RoomsSeen'
<1>1. conf' = conf
  BY SameCommand
<1>2. ASSUME UNCHANGED asking PROVE RoomsSeen'
  BY <1>1, <1>2 DEF RoomsSeen, asking, Is
<1>3. CASE Ask
  <2>1. PICK q \in Questions, looked \in LookedUp :
          /\ rooms' = looked
          /\ \E r \in Replies(q, looked.known) : rows' = Append(rows, Scored(q, r))
    BY <1>3 DEF Ask
  <2>2. conf.cmd = "retrieve"
    BY <1>3 DEF Ask, Placed
  <2>3. Is("mempalace") => rows' \in Seq(Honest)
    BY <2>1, <2>2, ScoredTrue DEF RoomsSeen
  <2>4. SeenIn(rooms'.known, rooms'.saw)
    BY <2>1, LookedUpSeen
  <2>5. QED
    BY <1>1, <2>3, <2>4 DEF RoomsSeen, Is
<1>4. CASE Probe
  <2>1. rooms' = rooms /\ conf.cmd # "retrieve"
    BY <1>4 DEF Probe, Placed
  <2>2. QED
    BY <1>1, <2>1 DEF RoomsSeen
<1>5. CASE Write
  BY <1>2, <1>5 DEF Write, File, Delete, Learn, Forget, Written
<1>6. Unwritten => UNCHANGED asking
  BY DEF Unwritten
<1>7. CASE Read
  BY <1>2, <1>3, <1>4, <1>6, <1>7 DEF Read, Count, Page, Entities, Relations, Noted,
     GraphAnswers, GraphFails, ListWings, ListRooms, ListTunnels, Search, GetEntity,
     AllEntities, Taxonomy, ShowTables, PullNodes, PullEdges, AllEdges, Summary, Tally, Finish
<1>8. CASE Raise
  BY <1>2, <1>6, <1>8 DEF Raise
<1>9. CASE LoopStep
  BY <1>2, <1>9, LoopPlaces DEF Elsewhere
<1>10. CASE UNCHANGED vars
  BY <1>2, <1>10 DEF vars
<1>11. QED
  BY <1>5, <1>7, <1>8, <1>9, <1>10 DEF LiveNext, Next, Ended, lvars

\* A question that MemPalaceAdapter answers with NO_RESULTS of a palace with drawers was
\* routed to a room that the lookup saw, and no drawer seen in just that room is left:
\* no failed lookup, unplaced question or later room can make it, for any palace, any
\* names and any writes in between.
THEOREM NoResultsHolds == LiveSpec => []NoResultsIsTrue
<1>1. LiveInit => RoomsSeen
  <2> SUFFICES ASSUME LiveInit PROVE RoomsSeen
    OBVIOUS
  <2>1. rooms = NoRooms /\ rows = <<>>
    BY DEF LiveInit, Init
  <2>2. <<>> \in Seq(Honest)
    OBVIOUS
  <2>3. QED
    BY <2>1, <2>2 DEF RoomsSeen, NoRooms, SeenIn
<1>2. ReadTypes /\ Placed /\ RoomsSeen /\ [LiveNext]_lvars => RoomsSeen'
  BY RoomsStep
<1>3. RoomsSeen => NoResultsIsTrue
  <2> SUFFICES ASSUME RoomsSeen, conf.cmd = "retrieve", Is("mempalace"), NEW i \in DOMAIN rows
               PROVE  True(rows[i])
    BY DEF NoResultsIsTrue, True
  <2>1. rows \in Seq(Honest)
    BY DEF RoomsSeen
  <2>2. rows[i] \in Honest
    BY <2>1
  <2>3. QED
    BY <2>2 DEF Honest
<1>4. QED
  BY <1>1, <1>2, <1>3, LiveTypeCorrect, PTL DEF LiveSpec

(***************************************************************************)
(* The calls a ladder of models makes.                                     *)
(***************************************************************************)

\* A question that is through, one that is not, and a row of the matrix.
Credited == {r \in [calls : Nat, error : BOOLEAN, spoken : SUBSET Nat, matched : SUBSET Nat] :
               r.calls = 0 => r.matched \subseteq r.spoken}
Heeded == {n \in [calls : Nat, captured : SUBSET Nat, spoken : SUBSET Nat] :
               n.calls = 0 => n.captured = {}}
Ranked == {r \in [rung : Nat, total : Nat, calls : Nat, gets : Nat, errored : Nat] :
               /\ r.total = Len(Quiz) /\ r.calls <= r.gets
               /\ r.errored = 0 => r.calls = r.gets}

Errors(s) == {i \in DOMAIN s : s[i].error}

LoopTypes ==
  /\ rung \in Nat /\ gets \in Nat
  /\ readings \in Seq(Credited) /\ now \in Heeded /\ matrix \in Seq(Ranked)

\* Why: a question is through when the last but one was, a model when the last one was.
LoopPlaced ==
  /\ pc \in {"driver", "save"} => now = Blank
  /\ pc \in {"turn", "tools"} => Len(readings) < Len(Quiz)
  /\ pc = "save" => Len(readings) = Len(Quiz)

\* Why: every call counted so far was asked of the backend of this model, and only a
\* question with an error takes back its calls.
Counted ==
  /\ IsFiniteSet(Calls(readings)) /\ Cardinality(Calls(readings)) \in Nat
  /\ pc \in {"turn", "tools", "save"} =>
       /\ Cardinality(Calls(readings)) + now.calls <= gets
       /\ Errors(readings) = {} => Cardinality(Calls(readings)) + now.calls = gets

\* Why: the rows are of earlier models, in their order.
Ordered ==
  \A i \in DOMAIN matrix : /\ matrix[i].rung < rung
                           /\ \A j \in 1..(i - 1) : matrix[j].rung < matrix[i].rung

LadderInv == LoopTypes /\ LoopPlaced /\ Counted /\ Ordered

\* A question more adds its calls.
LEMMA CallsOfMore ==
  ASSUME NEW s \in Seq(Credited), NEW r \in Credited, IsFiniteSet(Calls(s)),
         Cardinality(Calls(s)) \in Nat
  PROVE  /\ IsFiniteSet(Calls(Append(s, r)))
         /\ Cardinality(Calls(Append(s, r))) = Cardinality(Calls(s)) + r.calls
         /\ Errors(Append(s, r)) = {} => Errors(s) = {} /\ ~r.error
<1> DEFINE n == Len(s) + 1
           t == Append(s, r)
           More == {n} \X (1..r.calls)
<1>1. /\ n \in Nat \ {0} /\ r.calls \in Nat /\ DOMAIN s = 1..(n - 1) /\ DOMAIN t = 1..n
      /\ t[n] = r /\ \A i \in 1..(n - 1) : t[i] = s[i]
  BY DEF Credited
<1>2. Calls(s) = UNION {{i} \X (1..s[i].calls) : i \in 1..(n - 1)}
  BY <1>1 DEF Calls
<1>3. Calls(t) = UNION {{i} \X (1..t[i].calls) : i \in 1..n}
  BY <1>1 DEF Calls
<1> HIDE DEF n, t
<1>4. Calls(t) = Calls(s) \cup More
  <2>1. ASSUME NEW c \in Calls(t) PROVE c \in Calls(s) \cup More
    <3>1. PICK i \in 1..n : c \in {i} \X (1..t[i].calls)
      BY <1>3
    <3>2. CASE i = n
      BY <1>1, <3>1, <3>2
    <3>3. CASE i # n
      <4>1. i \in 1..(n - 1) /\ t[i] = s[i]
        BY <1>1, <3>3
      <4>2. c \in {i} \X (1..s[i].calls)
        BY <3>1, <4>1
      <4>3. QED
        BY <1>2, <4>1, <4>2
    <3>4. QED
      BY <3>2, <3>3
  <2>2. ASSUME NEW c \in Calls(s) PROVE c \in Calls(t)
    <3>1. PICK i \in 1..(n - 1) : c \in {i} \X (1..s[i].calls)
      BY <1>2
    <3>2. i \in 1..n /\ t[i] = s[i]
      BY <1>1
    <3>3. c \in {i} \X (1..t[i].calls)
      BY <3>1, <3>2
    <3>4. QED
      BY <1>3, <3>2, <3>3
  <2>3. More \subseteq Calls(t)
    <3>1. n \in 1..n
      BY <1>1
    <3>2. ASSUME NEW c \in More PROVE c \in {n} \X (1..t[n].calls)
      BY <1>1, <3>2
    <3>3. QED
      BY <1>3, <3>1, <3>2
  <2>4. QED
    BY <2>1, <2>2, <2>3
<1>5. Calls(s) \cap More = {}
  <2> SUFFICES ASSUME NEW c \in Calls(s), c \in More PROVE FALSE
    OBVIOUS
  <2>1. PICK i \in 1..(n - 1) : c \in {i} \X (1..s[i].calls)
    BY <1>2
  <2>2. c[1] = i /\ c[1] = n
    BY <2>1
  <2>3. QED
    BY <1>1, <2>2
<1>6. IsFiniteSet(More) /\ Cardinality(More) = r.calls
  <2>1. IsFiniteSet({n}) /\ Cardinality({n}) = 1
    BY FS_Singleton
  <2>2. IsFiniteSet(1..r.calls) /\ Cardinality(1..r.calls) = r.calls
    <3>1. 1 \in Int /\ r.calls \in Int
      BY <1>1
    <3>2. /\ IsFiniteSet(1..r.calls)
          /\ Cardinality(1..r.calls) = IF 1 > r.calls THEN 0 ELSE r.calls - 1 + 1
      BY <3>1, FS_Interval
    <3>3. QED
      BY <1>1, <3>2
  <2>3. IsFiniteSet(More) /\ Cardinality(More) = Cardinality({n}) * Cardinality(1..r.calls)
    BY <2>1, <2>2, FS_Product
  <2>4. QED
    BY <1>1, <2>1, <2>2, <2>3
<1>7. IsFiniteSet(Calls(t)) /\ Cardinality(Calls(t)) = Cardinality(Calls(s)) + r.calls
  <2>1. /\ IsFiniteSet(Calls(s) \cup More)
        /\ Cardinality(Calls(s) \cup More)
             = Cardinality(Calls(s)) + Cardinality(More) - Cardinality(Calls(s) \cap More)
    BY <1>6, FS_Union
  <2>2. Cardinality(Calls(s) \cap More) = 0
    BY <1>5, FS_EmptySet
  <2>3. QED
    BY <1>1, <1>4, <1>6, <2>1, <2>2
<1>8. Errors(t) = {} => Errors(s) = {} /\ ~r.error
  <2>1. ASSUME Errors(t) = {} PROVE Errors(s) = {} /\ ~r.error
    <3>1. \A i \in 1..n : ~t[i].error
      BY <1>1, <2>1 DEF Errors
    <3>0. n \in 1..n /\ t[n] = r
      BY <1>1
    <3>2. ~r.error
      BY <3>0, <3>1
    <3>3. \A i \in 1..(n - 1) : ~s[i].error
      BY <1>1, <3>1
    <3>4. QED
      BY <1>1, <3>2, <3>3 DEF Errors
  <2>2. QED
    BY <2>1
<1>9. QED
  BY <1>7, <1>8 DEF t

LEMMA BlankHeeded == Blank \in Heeded /\ Blank.calls = 0
BY DEF Blank, Heeded

\* A question is through: it is counted with no more calls than it made, and with as many
\* if nothing was raised.
LEMMA Through ==
  ASSUME LadderInv, pc \in {"turn", "tools"}, NEW r \in Credited,
         readings' = Append(readings, r), NextQuestion, UNCHANGED <<rung, matrix>>,
         gets' \in Nat, gets <= gets', r.calls <= now.calls,
         ~r.error => r.calls = now.calls /\ gets' = gets
  PROVE  LadderInv'
<1> DEFINE c == Cardinality(Calls(readings))
<1>1. /\ readings \in Seq(Credited) /\ gets \in Nat /\ rung \in Nat /\ matrix \in Seq(Ranked)
      /\ IsFiniteSet(Calls(readings)) /\ c \in Nat
      /\ r.calls \in Nat /\ now.calls \in Nat /\ Len(Quiz) \in Nat
  BY LadderAssumption DEF LadderInv, LoopTypes, Counted, Credited, Heeded
<1>2. Len(readings) < Len(Quiz)
  BY DEF LadderInv, LoopPlaced
<1>3. c + now.calls <= gets /\ (Errors(readings) = {} => c + now.calls = gets)
  BY DEF LadderInv, Counted
<1>4. /\ IsFiniteSet(Calls(readings')) /\ Cardinality(Calls(readings')) = c + r.calls
      /\ Errors(readings') = {} => Errors(readings) = {} /\ ~r.error
  BY <1>1, CallsOfMore
<1>5. now' = Blank /\ pc' = IF Len(readings') = Len(Quiz) THEN "save" ELSE "turn"
  BY DEF NextQuestion
<1>6. readings' \in Seq(Credited) /\ Len(readings') = Len(readings) + 1
  BY <1>1
<1>7. LoopTypes'
  BY <1>1, <1>5, <1>6, BlankHeeded DEF LoopTypes
<1>8. LoopPlaced'
  BY <1>1, <1>2, <1>5, <1>6 DEF LoopPlaced
<1>9. Counted'
  <2> HIDE DEF c
  <2>1. now'.calls = 0
    BY <1>5, BlankHeeded
  <2>2. c + r.calls \in Nat /\ c + r.calls + 0 <= gets'
    BY <1>1, <1>3
  <2>3. Errors(readings') = {} => c + r.calls + 0 = gets'
    BY <1>1, <1>3, <1>4
  <2>4. QED
    BY <1>4, <2>1, <2>2, <2>3 DEF Counted
<1>10. Ordered'
  BY DEF LadderInv, Ordered
<1>11. QED
  BY <1>7, <1>8, <1>9, <1>10 DEF LadderInv

LEMMA AnsweredKeeps ==
  ASSUME LadderInv, pc = "turn", NEW n \in Heeded, n.calls = now.calls, Answered(n),
         UNCHANGED <<rung, gets, matrix>>
  PROVE  LadderInv'
<1> DEFINE r == [calls |-> n.calls, error |-> FALSE, spoken |-> n.spoken,
                 matched |-> expected \cap (n.captured \cup n.spoken)]
<1>1. readings \in Seq(Credited) /\ Len(readings) < Len(Quiz) /\ gets \in Nat
  BY DEF LadderInv, LoopTypes, LoopPlaced
<1>2. expected \in SUBSET Nat
  <2>1. Len(readings) + 1 \in 1..Len(Quiz) /\ Quiz \in Seq(SUBSET Nat)
    BY <1>1, LadderAssumption
  <2>2. QED
    BY <2>1 DEF expected
<1>3. n \in [calls : Nat, captured : SUBSET Nat, spoken : SUBSET Nat]
      /\ (n.calls = 0 => n.captured = {})
  BY DEF Heeded
<1>4. r \in [calls : Nat, error : BOOLEAN, spoken : SUBSET Nat, matched : SUBSET Nat]
  <2>1. expected \cap (n.captured \cup n.spoken) \in SUBSET Nat
    BY <1>2
  <2>2. QED
    BY <1>3, <2>1
<1>5. r.calls = 0 => r.matched \subseteq r.spoken
  BY <1>3
<1>6. r.calls = now.calls /\ readings' = Append(readings, r) /\ NextQuestion
  BY DEF Answered
<1>7. now.calls \in Nat
  BY DEF LadderInv, LoopTypes, Heeded
<1>8. r \in Credited
  BY <1>4, <1>5 DEF Credited
<1> HIDE DEF r
<1>9. QED
  BY <1>1, <1>6, <1>7, <1>8, Through

LEMMA RaisedKeeps ==
  ASSUME LadderInv, pc \in {"turn", "tools"}, Raised, gets' \in {gets, gets + 1},
         UNCHANGED <<rung, matrix>>
  PROVE  LadderInv'
<1> DEFINE r == [calls |-> 0, error |-> TRUE, spoken |-> {}, matched |-> {}]
<1>1. r \in Credited /\ r.calls = 0 /\ r.error
  <2>1. r \in [calls : Nat, error : BOOLEAN, spoken : SUBSET Nat, matched : SUBSET Nat]
    OBVIOUS
  <2>2. QED
    BY <2>1 DEF Credited
<1>2. readings' = Append(readings, r) /\ NextQuestion
  BY DEF Raised
<1>3. now.calls \in Nat /\ gets \in Nat
  BY DEF LadderInv, LoopTypes, Heeded
<1> HIDE DEF r
<1>4. QED
  BY <1>1, <1>2, <1>3, Through

LEMMA TurnKeeps ==
  ASSUME LadderInv, Turn
  PROVE  LadderInv'
<1>1. PICK text \in {{}, expected}, uses \in 0..Uses, stops \in BOOLEAN :
        LET said == [now EXCEPT !.spoken = @ \cup text]
        IN  IF uses = 0 \/ stops THEN Answered(said)
            ELSE /\ now' = said /\ left' = uses /\ pc' = "tools"
                 /\ UNCHANGED <<readings, turn>>
  BY DEF Turn
<1>2. pc = "turn" /\ UNCHANGED <<rung, gets, matrix>>
  BY DEF Turn
<1> DEFINE said == [now EXCEPT !.spoken = @ \cup text]
<1>3. readings \in Seq(Credited) /\ Len(readings) < Len(Quiz) /\ now \in Heeded
  BY <1>2 DEF LadderInv, LoopTypes, LoopPlaced
<1>4. text \in SUBSET Nat
  <2>1. Len(readings) + 1 \in 1..Len(Quiz) /\ Quiz \in Seq(SUBSET Nat)
    BY <1>3, LadderAssumption
  <2>2. QED
    BY <2>1 DEF expected
<1>5. said \in Heeded /\ said.calls = now.calls
  BY <1>3, <1>4 DEF Heeded
<1>6. \/ Answered(said)
      \/ now' = said /\ pc' = "tools" /\ readings' = readings
  BY <1>1
<1> HIDE DEF said
<1>7. CASE Answered(said)
  BY <1>2, <1>5, <1>7, AnsweredKeeps
<1>8. CASE now' = said /\ pc' = "tools" /\ readings' = readings
  <2>1. LoopTypes' /\ LoopPlaced'
    BY <1>2, <1>3, <1>5, <1>8 DEF LadderInv, LoopTypes, LoopPlaced
  <2>2. Counted'
    BY <1>2, <1>5, <1>8 DEF LadderInv, Counted, Calls, Errors
  <2>3. Ordered'
    BY <1>2 DEF LadderInv, Ordered
  <2>4. QED
    BY <2>1, <2>2, <2>3 DEF LadderInv
<1>9. QED
  BY <1>6, <1>7, <1>8

LEMMA UseKeeps ==
  ASSUME LadderInv, ReadTypes, Use
  PROVE  LadderInv'
<1>1. PICK R \in Sample(ToSet(store.drawers), Limit) \cup {{}} :
        now' = [now EXCEPT !.calls = @ + 1,
                           !.captured = @ \cup ({d.file : d \in R} \ {0})]
  BY DEF Use
<1>2. /\ pc = "tools" /\ gets' = gets + 1 /\ pc' \in {"turn", "tools"}
      /\ UNCHANGED <<rung, readings, matrix>>
  BY DEF Use
<1>3. /\ readings \in Seq(Credited) /\ now \in Heeded /\ now.calls \in Nat /\ gets \in Nat
      /\ rung \in Nat /\ matrix \in Seq(Ranked)
  BY DEF LadderInv, LoopTypes, Heeded
<1>4. R \subseteq Drawer
  <2>1. ToSet(store.drawers) \subseteq Drawer
    BY DrawersOf DEF ReadTypes
  <2>2. R \subseteq ToSet(store.drawers)
    BY SampleIn
  <2>3. QED
    BY <2>1, <2>2
<1>5. now' \in Heeded /\ now'.calls = now.calls + 1
  <2> DEFINE F == {d.file : d \in R} \ {0}
  <2>1. F \subseteq Nat
    BY <1>4 DEF Drawer
  <2>2. now' = [now EXCEPT !.calls = @ + 1, !.captured = @ \cup F]
    BY <1>1
  <2> HIDE DEF F
  <2>3. now \in [calls : Nat, captured : SUBSET Nat, spoken : SUBSET Nat]
    BY <1>3 DEF Heeded
  <2>7. now'.calls = now.calls + 1 /\ now'.captured = now.captured \cup F
        /\ now'.spoken = now.spoken
    BY <2>2, <2>3
  <2>8. now' = [calls |-> now.calls + 1, captured |-> now.captured \cup F,
                spoken |-> now.spoken]
    BY <2>2, <2>3
  <2>9. now.calls + 1 \in Nat
    BY <1>3
  <2>10. now.captured \subseteq Nat /\ now.spoken \in SUBSET Nat
    BY <2>3
  <2>11. now.captured \cup F \in SUBSET Nat
    BY <2>1, <2>10
  <2>4. now' \in [calls : Nat, captured : SUBSET Nat, spoken : SUBSET Nat]
    BY <2>8, <2>9, <2>10, <2>11
  <2>5. now'.calls # 0
    BY <1>3, <2>7
  <2>6. QED
    BY <2>4, <2>5, <2>7 DEF Heeded
<1>6. LoopTypes' /\ LoopPlaced'
  BY <1>2, <1>3, <1>5 DEF LadderInv, LoopTypes, LoopPlaced
<1>7. Counted'
  <2> DEFINE c == Cardinality(Calls(readings))
  <2>1. /\ IsFiniteSet(Calls(readings)) /\ c \in Nat
        /\ c + now.calls <= gets /\ (Errors(readings) = {} => c + now.calls = gets)
    BY <1>2 DEF LadderInv, Counted
  <2>2. Calls(readings') = Calls(readings) /\ Errors(readings') = Errors(readings)
    BY <1>2
  <2> HIDE DEF c
  <2>5. now'.calls = now.calls + 1 /\ gets' = gets + 1
    BY <1>2, <1>5
  <2>3. /\ c + now'.calls <= gets'
        /\ Errors(readings) = {} => c + now'.calls = gets'
    BY <1>3, <2>1, <2>5
  <2>4. QED
    BY <2>1, <2>2, <2>3 DEF Counted, c
<1>8. Ordered'
  BY <1>2 DEF LadderInv, Ordered
<1>9. QED
  BY <1>6, <1>7, <1>8 DEF LadderInv

LEMMA NoCalls ==
  /\ IsFiniteSet(Calls(<<>>)) /\ Cardinality(Calls(<<>>)) = 0 /\ Errors(<<>>) = {}
  /\ <<>> \in Seq(Credited) /\ Len(<<>>) = 0
<1>1. DOMAIN <<>> = {}
  OBVIOUS
<1>2. Calls(<<>>) = {} /\ Errors(<<>>) = {}
  BY <1>1 DEF Calls, Errors
<1>3. QED
  BY <1>2, FS_EmptySet

LEMMA DriverKeeps ==
  ASSUME LadderInv, Driver
  PROVE  LadderInv'
<1>1. /\ pc = "driver" /\ gets' = 0 /\ readings' = <<>> /\ now' = now /\ matrix' = matrix
      /\ \/ pc' = "turn" /\ rung' = rung
         \/ pc' \in {"done", "driver"} /\ rung' = rung + 1
  BY DEF Driver, NextRung
<1>2. now = Blank /\ rung \in Nat /\ now \in Heeded /\ matrix \in Seq(Ranked)
  BY <1>1 DEF LadderInv, LoopPlaced, LoopTypes
<1>3. 0 < Len(Quiz)
  BY LadderAssumption
<1>4. LoopTypes' /\ LoopPlaced'
  BY <1>1, <1>2, <1>3, NoCalls DEF LoopTypes, LoopPlaced
<1>5. Counted'
  <2>1. now'.calls = 0
    BY <1>1, <1>2, BlankHeeded
  <2>2. /\ IsFiniteSet(Calls(readings')) /\ Cardinality(Calls(readings')) = 0
        /\ Errors(readings') = {}
    BY <1>1, NoCalls
  <2>3. Cardinality(Calls(readings')) + now'.calls = gets'
    BY <1>1, <2>1, <2>2
  <2>4. QED
    BY <1>1, <2>2, <2>3 DEF Counted
<1>6. Ordered'
  <2>1. \A i \in DOMAIN matrix : matrix[i].rung \in Nat
    BY <1>2 DEF Ranked
  <2>2. QED
    BY <1>1, <1>2, <2>1 DEF LadderInv, Ordered
<1>7. QED
  BY <1>4, <1>5, <1>6 DEF LadderInv

LEMMA RowRanked ==
  ASSUME LadderInv, pc = "save"
  PROVE  Row \in Ranked /\ Row.rung = rung
<1> DEFINE c == Cardinality(Calls(readings))
           e == Cardinality(Errors(readings))
<1>1. Row = [rung |-> rung, total |-> Len(readings), calls |-> c, gets |-> gets, errored |-> e]
  BY DEF Row, Errors
<1>2. /\ readings \in Seq(Credited) /\ rung \in Nat /\ gets \in Nat /\ now = Blank
      /\ Len(readings) = Len(Quiz) /\ Len(readings) \in Nat
  BY DEF LadderInv, LoopTypes, LoopPlaced
<1>3. c \in Nat /\ c + now.calls <= gets /\ (Errors(readings) = {} => c + now.calls = gets)
  BY DEF LadderInv, Counted
<1>4. IsFiniteSet(Errors(readings)) /\ e \in Nat
  <2>1. Errors(readings) \in SUBSET (1..Len(readings))
    BY <1>2 DEF Errors
  <2>2. IsFiniteSet(1..Len(readings))
    <3>1. 1 \in Int /\ Len(readings) \in Int
      BY <1>2
    <3>2. QED
      BY <3>1, FS_Interval
  <2>3. QED
    BY <2>1, <2>2, FS_Subset, FS_CardinalityType
<1>5. e = 0 => Errors(readings) = {}
  BY <1>4, FS_EmptySet
<1>6. now.calls = 0
  BY <1>2, BlankHeeded
<1> HIDE DEF c, e
<1>7. c <= gets /\ (e = 0 => c = gets)
  BY <1>2, <1>3, <1>5, <1>6
<1>8. QED
  BY <1>1, <1>2, <1>3, <1>4, <1>7 DEF Ranked

LEMMA SaveKeeps ==
  ASSUME LadderInv, Save
  PROVE  LadderInv'
<1>1. /\ pc = "save" /\ matrix' = Append(matrix, Row) /\ readings' = <<>>
      /\ rung' = rung + 1 /\ pc' \in {"done", "driver"} /\ gets' = gets /\ now' = now
  BY DEF Save, NextRung
<1>2. /\ rung \in Nat /\ gets \in Nat /\ now \in Heeded /\ now = Blank
      /\ matrix \in Seq(Ranked)
  BY <1>1 DEF LadderInv, LoopTypes, LoopPlaced
<1>3. Row \in Ranked /\ Row.rung = rung
  BY <1>1, RowRanked
<1>4. LoopTypes' /\ LoopPlaced'
  BY <1>1, <1>2, <1>3, NoCalls DEF LoopTypes, LoopPlaced
<1>5. Counted'
  BY <1>1, NoCalls DEF Counted
<1>6. Ordered'
  <2> DEFINE n == Len(matrix) + 1
  <2>1. /\ n \in Nat /\ DOMAIN matrix = 1..(n - 1) /\ DOMAIN matrix' = 1..n
        /\ matrix'[n] = Row /\ \A i \in 1..(n - 1) : matrix'[i] = matrix[i]
    BY <1>1, <1>2, <1>3
  <2> HIDE DEF n
  <2>5. \A i \in 1..(n - 1) : matrix[i].rung \in Nat
    <3>1. \A i \in 1..(n - 1) : matrix[i] \in Ranked
      BY <1>2, <2>1
    <3>2. QED
      BY <3>1 DEF Ranked
  <2>6. \A i \in 1..(n - 1) : /\ matrix[i].rung < rung
                              /\ \A j \in 1..(i - 1) : matrix[j].rung < matrix[i].rung
    BY <2>1 DEF LadderInv, Ordered
  <2>2. rung < rung'
    BY <1>1, <1>2
  <2> SUFFICES ASSUME NEW i \in 1..n
               PROVE  /\ matrix'[i].rung < rung'
                      /\ \A j \in 1..(i - 1) : matrix'[j].rung < matrix'[i].rung
    BY <2>1 DEF Ordered
  <2>3. CASE i = n
    <3>1. matrix'[i].rung = rung
      BY <1>3, <2>1, <2>3
    <3>2. \A j \in 1..(n - 1) : matrix'[j].rung < rung
      BY <2>1, <2>6
    <3>3. QED
      BY <2>2, <2>3, <3>1, <3>2
  <2>4. CASE i # n
    <3>1. i \in 1..(n - 1)
      BY <2>1, <2>4
    <3>2. \A j \in 1..(i - 1) : j \in 1..(n - 1)
      BY <2>1, <3>1
    <3>3. matrix'[i].rung < rung'
      BY <1>1, <1>2, <2>1, <2>5, <2>6, <3>1
    <3>4. QED
      BY <2>1, <2>6, <3>1, <3>2, <3>3
  <2>7. QED
    BY <2>3, <2>4
<1>7. QED
  BY <1>4, <1>5, <1>6 DEF LadderInv

\* No other request is made while the ladder runs.
LEMMA Aside ==
  ASSUME ReadTypes, Placed, Next, UNCHANGED loop
  PROVE  pc' = pc \/ pc' \notin Loops
<1>1. [LiveNext]_lvars
  BY DEF LiveNext
<1>2. conf' = conf /\ Placed'
  BY <1>1, SameCommand, TypeStep
<1>3. CASE Write
  BY <1>3 DEF Write, File, Delete, Learn, Forget, Written, reading
<1>4. CASE Read \/ Raise
  <2>1. pc \in Reads \cup {"ask", "probe"}
    BY <1>4 DEF Read, Raise, Count, Page, Entities, Relations, Noted, GraphAnswers, GraphFails,
       ListWings, ListRooms, ListTunnels, Search, GetEntity, AllEntities, Taxonomy, ShowTables,
       PullNodes, PullEdges, AllEdges, Ask, Probe, Summary, Tally, Reads
  <2>2. conf.cmd # "cat9a"
    BY <2>1 DEF Placed
  <2>3. QED
    BY <1>2, <2>2 DEF Placed
<1>5. CASE UNCHANGED vars
  BY <1>5 DEF vars, reading
<1>6. QED
  BY <1>3, <1>4, <1>5 DEF Next, Ended

\* A change of the request alone, away from the ladder's.
LEMMA StillKeeps ==
  ASSUME LadderInv, UNCHANGED loop, pc' = pc \/ pc' \notin Loops
  PROVE  LadderInv'
<1>1. /\ rung' = rung /\ gets' = gets /\ readings' = readings /\ now' = now
      /\ matrix' = matrix
  BY DEF loop
<1>2. LoopTypes' /\ Ordered'
  BY <1>1 DEF LadderInv, LoopTypes, Ordered
<1>3. LoopPlaced'
  BY <1>1 DEF LadderInv, LoopPlaced, Loops
<1>4. Counted'
  BY <1>1 DEF LadderInv, Counted, Calls, Errors, Loops
<1>5. QED
  BY <1>2, <1>3, <1>4 DEF LadderInv

LEMMA LadderStep ==
  ASSUME ReadTypes, Placed, LadderInv, [LiveNext]_lvars
  PROVE  LadderInv'
<1>1. CASE Next /\ UNCHANGED loop
  BY <1>1, Aside, StillKeeps
<1>2. CASE Driver
  BY <1>2, DriverKeeps
<1>3. CASE Turn
  BY <1>3, TurnKeeps
<1>4. CASE Capped
  <2>1. pc = "turn" /\ Answered(now) /\ UNCHANGED <<rung, gets, matrix>>
    BY <1>4 DEF Capped
  <2>2. now \in Heeded
    BY DEF LadderInv, LoopTypes
  <2>3. QED
    BY <2>1, <2>2, AnsweredKeeps
<1>5. CASE TurnFails
  <2>1. pc = "turn" /\ Raised /\ gets' \in {gets, gets + 1} /\ UNCHANGED <<rung, matrix>>
    BY <1>5 DEF TurnFails
  <2>2. QED
    BY <2>1, RaisedKeeps
<1>6. CASE Use
  BY <1>6, UseKeeps
<1>7. CASE UseFails
  <2>1. pc = "tools" /\ Raised /\ gets' \in {gets, gets + 1} /\ UNCHANGED <<rung, matrix>>
    BY <1>7 DEF UseFails
  <2>2. QED
    BY <2>1, RaisedKeeps
<1>8. CASE Save
  BY <1>8, SaveKeeps
<1>9. CASE SaveFails
  <2>1. UNCHANGED loop /\ pc' \notin Loops
    BY <1>9 DEF SaveFails, Loops
  <2>2. QED
    BY <2>1, StillKeeps
<1>10. CASE UNCHANGED lvars
  <2>1. UNCHANGED loop /\ pc' = pc
    BY <1>10 DEF lvars, vars, reading
  <2>2. QED
    BY <2>1, StillKeeps
<1>11. QED
  BY <1>1, <1>2, <1>3, <1>4, <1>5, <1>6, <1>7, <1>8, <1>9, <1>10 DEF LiveNext, LoopStep

LEMMA LadderInit ==
  ASSUME LiveInit
  PROVE  LadderInv
<1>1. /\ rung = 1 /\ gets = 0 /\ readings = <<>> /\ now = Blank /\ matrix = <<>>
      /\ pc = Begin(conf)
  BY DEF LiveInit, Init, LoopInit
<1>2. pc \notin {"turn", "tools", "save"}
  BY <1>1 DEF Begin, FirstRequest
<1>3. <<>> \in Seq(Ranked)
  OBVIOUS
<1>4. LoopTypes
  BY <1>1, <1>3, NoCalls, BlankHeeded DEF LoopTypes
<1>5. LoopPlaced
  BY <1>1, <1>2 DEF LoopPlaced
<1>6. Counted
  BY <1>1, <1>2, NoCalls DEF Counted
<1>7. Ordered
  BY <1>1 DEF Ordered
<1>8. QED
  BY <1>4, <1>5, <1>6, <1>7 DEF LadderInv

\* The invocations reported of a model are searches its own backend was asked, all of them
\* if no question ended in an error, whatever was raised and however many turns and tool
\* uses there are; a model is in the matrix once, asked every question, and a source that
\* is credited without a call is one the model named.
THEOREM CallsAreSearchesHolds == LiveSpec => []CallsAreSearches
<1>1. LiveInit => LadderInv
  BY LadderInit
<1>2. ReadTypes /\ Placed /\ LadderInv /\ [LiveNext]_lvars => LadderInv'
  BY LadderStep
<1>3. LadderInv => CallsAreSearches
  <2> SUFFICES ASSUME LadderInv PROVE CallsAreSearches
    OBVIOUS
  <2>1. readings \in Seq(Credited) /\ matrix \in Seq(Ranked)
    BY DEF LadderInv, LoopTypes
  <2>2. ASSUME NEW i \in DOMAIN readings
        PROVE  readings[i].calls = 0 => readings[i].matched \subseteq readings[i].spoken
    <3>1. readings[i] \in Credited
      BY <2>1, <2>2
    <3>2. QED
      BY <3>1 DEF Credited
  <2>3. ASSUME NEW i \in DOMAIN matrix
        PROVE  /\ matrix[i].total = Len(Quiz) /\ matrix[i].calls <= matrix[i].gets
               /\ matrix[i].errored = 0 => matrix[i].calls = matrix[i].gets
               /\ \A j \in 1..(i - 1) : matrix[j].rung < matrix[i].rung
    <3>1. matrix[i] \in Ranked
      BY <2>1, <2>3
    <3>2. \A j \in 1..(i - 1) : matrix[j].rung < matrix[i].rung
      BY <2>3 DEF LadderInv, Ordered
    <3>3. QED
      BY <3>1, <3>2 DEF Ranked
  <2>4. QED
    BY <2>2, <2>3 DEF CallsAreSearches
<1>4. QED
  BY <1>1, <1>2, <1>3, LiveTypeCorrect, PTL DEF LiveSpec

(***************************************************************************)
(* What a snapshot may hold: only what there was.                          *)
(***************************************************************************)

RelEdge(r) == Edge(<<"kg", r.from>>, r.type, <<"kg", r.to>>)

\* The edges of P, and the two kinds that can be made up.
EdgeSeen(e, P) ==
  \/ e \in P.edges
  \/ Is("mempalace") /\ e.type \in {"tunnel", "same_file"}
  \/ Is("ladybug") /\ e.type = "link" /\ \E p \in P.edges : p.from = e.from /\ p.to = e.to

GraphSeen(g, P) == g.nodes \subseteq P.nodes /\ \A e \in g.edges : EdgeSeen(e, P)

WingSeen(w, P) == <<"wing", w>> \in P.nodes
RoomSeen(p, P) == IsTopic(p[2]) =>
  /\ <<"room", p[2]>> \in P.nodes
  /\ Edge(<<"room", p[2]>>, "member_of", <<"wing", p[1]>>) \in P.edges
DrawerSeen(d, P) ==
  /\ d.wing # 0 => WingSeen(d.wing, P) /\ RoomSeen(<<d.wing, d.room>>, P)
  /\ <<"drawer", d.id>> \in P.nodes
  /\ Edge(<<"drawer", d.id>>, "filed_in", <<"room", d.room>>) \in P.edges
EntSeen(e, P) == <<"kg", e>> \in P.nodes
RelSeen(r, P) ==
  /\ <<"kg", r.from>> \in P.nodes /\ <<"kg", r.to>> \in P.nodes
  /\ EdgeSeen(RelEdge(r), P)

\* Each thing that was answered was there.
AnswersSeen(a, P) ==
  /\ \A d \in ToSet(a.drawers) : DrawerSeen(d, P)
  /\ \A w \in a.wings : WingSeen(w, P)
  /\ \A p \in a.pairs : RoomSeen(p, P)
  /\ \A e \in a.ents : EntSeen(e, P)
  /\ \A r \in a.rels : RelSeen(r, P)

InPast(g) == g.nodes \subseteq past.nodes /\ g.edges \subseteq past.edges

\* Why: what is there is part of the past, and so is what was answered and what is
\* made of it.
Remembered ==
  /\ InPast(Content(store))
  /\ AnswersSeen(got, past)
  /\ graph # Pending => GraphSeen(graph, past)

\* What was seen stays seen.
LEMMA SeenStays ==
  ASSUME NEW P, NEW Q, P.nodes \subseteq Q.nodes, P.edges \subseteq Q.edges
  PROVE  /\ \A g : GraphSeen(g, P) => GraphSeen(g, Q)
         /\ \A a : AnswersSeen(a, P) => AnswersSeen(a, Q)
<1>1. \A e : EdgeSeen(e, P) => EdgeSeen(e, Q)
  BY DEF EdgeSeen
<1>2. \A w : WingSeen(w, P) => WingSeen(w, Q)
  BY DEF WingSeen
<1>3. \A p : RoomSeen(p, P) => RoomSeen(p, Q)
  BY DEF RoomSeen
<1>4. \A d : DrawerSeen(d, P) => DrawerSeen(d, Q)
  BY <1>2, <1>3 DEF DrawerSeen
<1>5. \A e : EntSeen(e, P) => EntSeen(e, Q)
  BY DEF EntSeen
<1>6. \A r : RelSeen(r, P) => RelSeen(r, Q)
  BY <1>1 DEF RelSeen
<1>7. \A g : GraphSeen(g, P) => GraphSeen(g, Q)
  BY <1>1 DEF GraphSeen
<1>8. \A a : AnswersSeen(a, P) => AnswersSeen(a, Q)
  BY <1>2, <1>3, <1>4, <1>5, <1>6 DEF AnswersSeen
<1>9. QED
  BY <1>7, <1>8

\* What the content of a store names.
LEMMA ContentHolds ==
  ASSUME NEW s
  PROVE  LET C == Content(s)
             D == ToSet(s.drawers)
         IN  /\ \A w \in Wings(D) : <<"wing", w>> \in C.nodes
             /\ \A p \in Topics(s) :
                  /\ <<"room", p[2]>> \in C.nodes
                  /\ Edge(<<"room", p[2]>>, "member_of", <<"wing", p[1]>>) \in C.edges
             /\ Tunnels(Shared(s)) \subseteq C.edges
             /\ \A d \in D :
                  /\ <<"drawer", d.id>> \in C.nodes
                  /\ Edge(<<"drawer", d.id>>, "filed_in", <<"room", d.room>>) \in C.edges
             /\ \A e \in s.ents : <<"kg", e>> \in C.nodes
             /\ Related(s.rels) \subseteq C.edges /\ Ends(Related(s.rels)) \subseteq C.nodes
<1> DEFINE C == Content(s)
           D == ToSet(s.drawers)
<1>1. C.nodes = {<<"wing", w>> : w \in Wings(D)} \cup {<<"room", p[2]>> : p \in Topics(s)}
                  \cup {<<"drawer", d.id>> : d \in D} \cup {<<"kg", e>> : e \in s.ents}
                  \cup Ends(Related(s.rels))
  BY GraphParts DEF Content
<1>2. C.edges = Structure(Wings(D), Topics(s), Shared(s)).edges \cup Related(s.rels)
                  \cup {Edge(<<"drawer", d.id>>, "filed_in", <<"room", d.room>>) : d \in D}
                  \cup {Edge(<<"drawer", p[1].id>>, "same_file", <<"drawer", p[2].id>>) :
                          p \in {q \in D \X D : q[1].file = q[2].file}}
  BY GraphParts DEF Content
<1>3. Structure(Wings(D), Topics(s), Shared(s)).edges
        = {Edge(<<"room", p[2]>>, "member_of", <<"wing", p[1]>>) : p \in Topics(s)}
            \cup Tunnels(Shared(s))
  <2>1. {p \in Topics(s) : IsTopic(p[2])} = Topics(s)
    BY DEF Topics
  <2>2. QED
    BY ZenonT(40), <2>1, GraphParts DEF Structure
<1> HIDE DEF C, D
<1>4. /\ \A w \in Wings(D) : <<"wing", w>> \in C.nodes
      /\ \A p \in Topics(s) : <<"room", p[2]>> \in C.nodes
      /\ \A d \in D : <<"drawer", d.id>> \in C.nodes
      /\ \A e \in s.ents : <<"kg", e>> \in C.nodes
      /\ Ends(Related(s.rels)) \subseteq C.nodes
  BY <1>1
<1>5. /\ \A p \in Topics(s) : Edge(<<"room", p[2]>>, "member_of", <<"wing", p[1]>>) \in C.edges
      /\ Tunnels(Shared(s)) \subseteq C.edges
      /\ \A d \in D : Edge(<<"drawer", d.id>>, "filed_in", <<"room", d.room>>) \in C.edges
      /\ Related(s.rels) \subseteq C.edges
  BY <1>2, <1>3
<1>6. QED
  BY <1>4, <1>5 DEF C, D

LEMMA RelatedHas ==
  ASSUME NEW R, NEW r \in R
  PROVE  /\ RelEdge(r) \in Related(R)
         /\ RelEdge(r).from = <<"kg", r.from>> /\ RelEdge(r).to = <<"kg", r.to>>
         /\ RelEdge(r).type = r.type
         /\ <<"kg", r.from>> \in Ends(Related(R)) /\ <<"kg", r.to>> \in Ends(Related(R))
<1>1. RelEdge(r) \in Related(R)
  BY DEF RelEdge, Related
<1>2. /\ RelEdge(r).from = <<"kg", r.from>> /\ RelEdge(r).to = <<"kg", r.to>>
      /\ RelEdge(r).type = r.type
  BY DEF RelEdge, Edge
<1>3. {RelEdge(r).from, RelEdge(r).to} \subseteq Ends(Related(R))
  BY <1>1 DEF Ends
<1>4. QED
  BY <1>1, <1>2, <1>3

\* Whatever is in the store has been seen.
LEMMA StoreSeen ==
  ASSUME InPast(Content(store))
  PROVE  /\ \A d \in ToSet(store.drawers) : DrawerSeen(d, past)
         /\ \A w \in Wings(ToSet(store.drawers)) : WingSeen(w, past)
         /\ \A p \in Rooms(ToSet(store.drawers)) : RoomSeen(p, past)
         /\ \A e \in store.ents : EntSeen(e, past)
         /\ \A r \in store.rels : RelSeen(r, past) /\ RelEdge(r) \in past.edges
         /\ Tunnels(Shared(store)) \subseteq past.edges
<1> DEFINE D == ToSet(store.drawers)
<1>0. /\ \A w \in Wings(D) : <<"wing", w>> \in past.nodes
      /\ \A p \in Topics(store) :
           /\ <<"room", p[2]>> \in past.nodes
           /\ Edge(<<"room", p[2]>>, "member_of", <<"wing", p[1]>>) \in past.edges
      /\ Tunnels(Shared(store)) \subseteq past.edges
      /\ \A d \in D :
           /\ <<"drawer", d.id>> \in past.nodes
           /\ Edge(<<"drawer", d.id>>, "filed_in", <<"room", d.room>>) \in past.edges
      /\ \A e \in store.ents : <<"kg", e>> \in past.nodes
      /\ Related(store.rels) \subseteq past.edges /\ Ends(Related(store.rels)) \subseteq past.nodes
  BY ContentHolds DEF InPast
<1>1. \A w \in Wings(D) : WingSeen(w, past)
  BY <1>0 DEF WingSeen
<1>2. \A p \in Rooms(D) : RoomSeen(p, past)
  BY <1>0 DEF RoomSeen, Topics
<1>3. \A d \in D : DrawerSeen(d, past)
  <2> TAKE d \in D
  <2>1. d.wing # 0 => d.wing \in Wings(D) /\ <<d.wing, d.room>> \in Rooms(D)
    BY DEF Wings, Rooms, Filed
  <2> HIDE DEF D
  <2>2. QED
    BY <1>0, <1>1, <1>2, <2>1 DEF DrawerSeen
<1>4. \A e \in store.ents : EntSeen(e, past)
  BY <1>0 DEF EntSeen
<1>5. \A r \in store.rels : RelSeen(r, past) /\ RelEdge(r) \in past.edges
  BY <1>0, RelatedHas DEF RelSeen, EdgeSeen
<1>6. QED
  BY <1>0, <1>1, <1>2, <1>3, <1>4, <1>5

\* A graph made of what was seen.
LEMMA StructureSeen ==
  ASSUME NEW W, NEW R, NEW T, NEW P, \A w \in W : WingSeen(w, P), \A p \in R : RoomSeen(p, P),
         \A e \in Tunnels(T) : EdgeSeen(e, P)
  PROVE  GraphSeen(Structure(W, R, T), P)
<1> DEFINE topics == {p \in R : IsTopic(p[2])}
           g == Structure(W, R, T)
<1>1. /\ g.nodes = {<<"wing", w>> : w \in W} \cup {<<"room", p[2]>> : p \in topics}
      /\ g.edges = {Edge(<<"room", p[2]>>, "member_of", <<"wing", p[1]>>) : p \in topics}
                     \cup Tunnels(T)
  BY GraphParts DEF Structure
<1>2. \A p \in topics : /\ <<"room", p[2]>> \in P.nodes
                        /\ Edge(<<"room", p[2]>>, "member_of", <<"wing", p[1]>>) \in P.edges
  BY DEF RoomSeen
<1> HIDE DEF g
<1>3. g.nodes \subseteq P.nodes
  BY <1>1, <1>2 DEF WingSeen
<1>4. \A e \in g.edges : EdgeSeen(e, P)
  <2>1. \A p \in topics : EdgeSeen(Edge(<<"room", p[2]>>, "member_of", <<"wing", p[1]>>), P)
    BY <1>2 DEF EdgeSeen
  <2>2. QED
    BY <1>1, <2>1
<1>5. QED
  BY <1>3, <1>4 DEF GraphSeen, g

LEMMA TablesSeen ==
  ASSUME NEW E, NEW R, NEW P, \A e \in E : EntSeen(e, P), \A r \in R : RelSeen(r, P)
  PROVE  /\ GraphSeen(Tables(E, R), P) /\ GraphSeen(Within(Tables(E, R)), P)
         /\ GraphSeen(Knowledge(E, R), P) /\ GraphSeen(WithEnds(Knowledge(E, R)), P)
<1>1. /\ Tables(E, R).nodes = {<<"kg", e>> : e \in E}
      /\ Tables(E, R).edges = Related(R)
      /\ Knowledge(E, R).nodes = {<<"kg", e>> : e \in E \ {0}}
      /\ Knowledge(E, R).edges = Related(Whole(R))
  BY GraphParts DEF Tables, Knowledge
<1>2. \A e \in Related(R) : EdgeSeen(e, P) /\ e.from \in P.nodes /\ e.to \in P.nodes
  <2> TAKE e \in Related(R)
  <2>1. PICK r \in R : e = RelEdge(r)
    BY DEF Related, RelEdge
  <2>2. QED
    BY <2>1, RelatedHas DEF RelSeen
<1>3. Related(Whole(R)) \subseteq Related(R)
  BY DEF Related, Whole
<1>4. GraphSeen(Tables(E, R), P)
  BY <1>1, <1>2 DEF GraphSeen, EntSeen
<1>5. GraphSeen(Knowledge(E, R), P)
  BY <1>1, <1>2, <1>3 DEF GraphSeen, EntSeen
<1>6. GraphSeen(Within(Tables(E, R)), P)
  <2>1. /\ Within(Tables(E, R)).nodes = Tables(E, R).nodes
        /\ Within(Tables(E, R)).edges \subseteq Tables(E, R).edges
    BY GraphParts DEF Within
  <2>2. QED
    BY <1>4, <2>1 DEF GraphSeen
<1>7. GraphSeen(WithEnds(Knowledge(E, R)), P)
  <2> DEFINE k == Knowledge(E, R)
  <2>1. /\ WithEnds(k).nodes = k.nodes \cup Ends(k.edges) /\ WithEnds(k).edges = k.edges
    BY GraphParts DEF WithEnds
  <2>2. Ends(k.edges) \subseteq P.nodes
    BY <1>1, <1>2, <1>3 DEF Ends
  <2> HIDE DEF k
  <2>3. QED
    BY <1>5, <2>1, <2>2 DEF GraphSeen, k
<1>8. QED
  BY <1>4, <1>5, <1>6, <1>7

LEMMA MergedSeen ==
  ASSUME NEW g, NEW h, NEW P, GraphSeen(g, P), GraphSeen(h, P)
  PROVE  GraphSeen(Merged(g, h), P)
BY GraphParts DEF GraphSeen, Merged

LEMMA NothingSeen == \A P : GraphSeen(Nothing, P) /\ AnswersSeen(Fresh, P)
<1>1. ToSet(<<>>) = {}
  BY DEF ToSet
<1>2. QED
  BY <1>1, GraphParts DEF GraphSeen, Nothing, AnswersSeen, Fresh

LEMMA PalaceSeen ==
  ASSUME Is("mempalace"), NEW P, NEW s \in Seq(Drawer), \A d \in ToSet(s) : DrawerSeen(d, P),
         NEW drawers, NEW most
  PROVE  GraphSeen(FromDrawers(s, drawers, most), P)
<1> DEFINE topics == {i \in DOMAIN s : s[i].wing # 0 /\ IsTopic(s[i].room)}
           two == {<<s[i].wing, s[i].room>> : i \in topics}
           structure == Structure(Wings(ToSet(s)), two, two)
<1>1. \A i \in DOMAIN s : DrawerSeen(s[i], P)
  BY DEF ToSet
<1>2. GraphSeen(structure, P)
  <2>1. \A w \in Wings(ToSet(s)) : WingSeen(w, P)
    BY DEF Wings, Filed, DrawerSeen
  <2>2. \A p \in two : RoomSeen(p, P)
    BY <1>1 DEF DrawerSeen
  <2>3. \A e \in Tunnels(two) : e.type = "tunnel"
    BY DEF Tunnels, Edge
  <2>4. \A e \in Tunnels(two) : EdgeSeen(e, P)
    BY <2>3 DEF EdgeSeen
  <2> HIDE DEF two
  <2>5. QED
    BY <2>1, <2>2, <2>4, StructureSeen
<1>3. GraphSeen(Drawers(s, topics), P)
  <2>1. /\ Drawers(s, topics).nodes = {<<"drawer", s[i].id>> : i \in topics}
        /\ Drawers(s, topics).edges
             = {Edge(<<"drawer", s[i].id>>, "filed_in", <<"room", s[i].room>>) : i \in topics}
                 \cup Siblings(s, topics)
    BY GraphParts DEF Drawers
  <2>2. \A e \in Siblings(s, topics) : e.type = "same_file"
    BY DEF Siblings, Edge
  <2>3. \A e \in Siblings(s, topics) : EdgeSeen(e, P)
    BY <2>2 DEF EdgeSeen
  <2>4. \A i \in topics :
          EdgeSeen(Edge(<<"drawer", s[i].id>>, "filed_in", <<"room", s[i].room>>), P)
    BY <1>1 DEF DrawerSeen, EdgeSeen
  <2>5. Drawers(s, topics).nodes \subseteq P.nodes
    BY <1>1, <2>1 DEF DrawerSeen
  <2> HIDE DEF topics
  <2>6. QED
    BY <2>1, <2>3, <2>4, <2>5 DEF GraphSeen
<1>4. FromDrawers(s, drawers, most) \in {structure, Merged(structure, Drawers(s, topics))}
  BY DEF FromDrawers
<1> HIDE DEF structure, topics
<1>5. QED
  BY <1>2, <1>3, <1>4, MergedSeen

LEMMA ProjectSeen ==
  ASSUME NEW b, NEW P, NEW kgOnly,
         \A w \in b.wings : WingSeen(w, P), \A p \in b.rooms : RoomSeen(p, P),
         \A e \in Tunnels(b.tunnels) : EdgeSeen(e, P),
         \A e \in b.ents : EntSeen(e, P), \A r \in b.rels : RelSeen(r, P)
  PROVE  GraphSeen(Project(b, kgOnly), P)
<1>1. /\ GraphSeen(Knowledge(b.ents, b.rels), P)
      /\ GraphSeen(WithEnds(Knowledge(b.ents, b.rels)), P)
  BY TablesSeen
<1>2. GraphSeen(Structure(b.wings, b.rooms, b.tunnels), P)
  BY StructureSeen
<1>3. Project(b, kgOnly) \in {WithEnds(Knowledge(b.ents, b.rels)),
                             Merged(Structure(b.wings, b.rooms, b.tunnels),
                                    Knowledge(b.ents, b.rels))}
  BY DEF Project
<1>4. QED
  BY <1>1, <1>2, <1>3, MergedSeen

\* A graph asked for at once.
LEMMA AnswerSeen ==
  ASSUME ReadTypes, Placed, pc = "graph", InPast(Content(store)), NEW p \in Samples(store)
  PROVE  GraphSeen(FromGraph(store, p[1], p[2]), past)
<1> DEFINE E == p[1]
           R == p[2]
           b == Payload(store, E, R)
<1>1. \A e \in E : EntSeen(e, past)
  BY RelsIn, StoreSeen DEF ReadTypes
<1>2. \A r \in R : RelSeen(r, past)
  BY RelsIn, StoreSeen DEF ReadTypes
<1>3. \A k : GraphSeen(Project(b, k), past)
  <2>1. /\ b.wings = Wings(ToSet(store.drawers)) /\ b.rooms = Rooms(ToSet(store.drawers))
        /\ b.tunnels = Shared(store) /\ b.ents = E /\ b.rels = R
    BY DEF Payload
  <2>2. \A e \in Tunnels(Shared(store)) : EdgeSeen(e, past)
    BY StoreSeen DEF EdgeSeen
  <2> HIDE DEF b, E, R
  <2>3. QED
    BY <1>1, <1>2, <2>1, <2>2, StoreSeen, ProjectSeen
<1>4. /\ GraphSeen(Tables(E, R), past) /\ GraphSeen(Knowledge(E, R), past)
  BY <1>1, <1>2, TablesSeen
<1>5. GraphSeen(Within(Tables(InTables(E), R)), past)
  <2>1. \A e \in InTables(E) : EntSeen(e, past)
    BY <1>1 DEF InTables
  <2>2. QED
    BY <1>2, <2>1, TablesSeen
<1>6. conf.adapter \in {"daemon", "familiar", "hindsight", "good-dog", "ladybug-file"}
  BY DEF Placed
<1> HIDE DEF b, E, R
<1>7. FromGraph(store, E, R) \in {Project(b, conf.kgOnly), Project(b, FALSE), Tables(E, R),
                                  Knowledge(E, R), Within(Tables(InTables(E), R))}
  BY <1>6 DEF FromGraph, FromStats, FromVault, FromFile, Is, b, E, R
<1>8. GraphSeen(FromGraph(store, E, R), past)
  BY <1>3, <1>4, <1>5, <1>7
<1>9. QED
  BY <1>8 DEF E, R

\* A request answered leaves what is remembered.
LEMMA RememberedRead ==
  ASSUME Remembered, Unwritten, AnswersSeen(got', past),
         graph' = graph \/ GraphSeen(graph', past)
  PROVE  Remembered'
<1>1. store' = store /\ conf' = conf /\ past' = past
  BY DEF Unwritten
<1>2. InPast(Content(store))'
  BY <1>1 DEF Remembered, InPast
<1>3. AnswersSeen(got', past)
  OBVIOUS
<1>4. AnswersSeen(got, past)'
  BY <1>1, <1>3 DEF AnswersSeen, DrawerSeen, WingSeen, RoomSeen, EntSeen, RelSeen, EdgeSeen, Is
<1>5. graph' # Pending => GraphSeen(graph', past)
  BY DEF Remembered
<1>6. (graph # Pending => GraphSeen(graph, past))'
  BY <1>1, <1>5 DEF GraphSeen, EdgeSeen, Is, Pending
<1>7. QED
  BY <1>2, <1>4, <1>6 DEF Remembered

LEMMA CompleteSeen ==
  ASSUME Remembered, Unwritten, NEW g, GraphSeen(g, past), Complete(g)
  PROVE  Remembered'
<1>1. got' = Fresh /\ (graph' = graph \/ graph' = g)
  BY DEF Complete
<1>2. AnswersSeen(got', past)
  BY <1>1, NothingSeen
<1>3. QED
  BY <1>1, <1>2, RememberedRead

LEMMA ProceedSeen ==
  ASSUME Remembered, Unwritten, NEW at, NEW g, AnswersSeen(g, past), Proceed(at, g)
  PROVE  Remembered'
<1>1. got' = g /\ graph' = graph
  BY DEF Proceed
<1>2. QED
  BY <1>1, RememberedRead

\* A write adds to the past what is there now.
LEMMA WriteSeen ==
  ASSUME Remembered, Write
  PROVE  Remembered'
<1>1. PICK s : Written(s)
  BY DEF Write, File, Delete, Learn, Forget
<1>2. /\ store' = s /\ past' = Merged(past, Content(s))
      /\ conf' = conf /\ got' = got /\ graph' = graph
  BY <1>1 DEF Written, reading
<1>3. /\ past'.nodes = past.nodes \cup Content(s).nodes
      /\ past'.edges = past.edges \cup Content(s).edges
  BY <1>2, GraphParts DEF Merged
<1>4. InPast(Content(store))'
  BY <1>2, <1>3 DEF InPast
<1>5. /\ \A g : GraphSeen(g, past) => GraphSeen(g, past')
      /\ \A a : AnswersSeen(a, past) => AnswersSeen(a, past')
  BY <1>3, SeenStays
<1>6. AnswersSeen(got', past') /\ (graph' # Pending => GraphSeen(graph', past'))
  BY <1>2, <1>5 DEF Remembered
<1>7. AnswersSeen(got, past)'
  BY <1>2, <1>6 DEF AnswersSeen, DrawerSeen, WingSeen, RoomSeen, EntSeen, RelSeen, EdgeSeen, Is
<1>8. (graph # Pending => GraphSeen(graph, past))'
  BY <1>2, <1>6 DEF GraphSeen, EdgeSeen, Is, Pending
<1>9. QED
  BY <1>4, <1>7, <1>8 DEF Remembered

LEMMA PalaceRemembered ==
  ASSUME ReadTypes, Placed, Remembered, Count \/ Page \/ Raise \/ Entities \/ Relations \/ Noted
  PROVE  Remembered'
<1>0. Unwritten /\ got \in Answers /\ AnswersSeen(got, past) /\ AnswersSeen(Fresh, past)
  BY NothingSeen DEF Count, Page, Raise, Entities, Relations, Noted, ReadTypes, Remembered
<1>1. /\ \A d \in ToSet(store.drawers) : DrawerSeen(d, past)
      /\ \A e \in store.ents : EntSeen(e, past)
      /\ \A r \in store.rels : RelSeen(r, past)
  BY StoreSeen DEF Remembered
<1>2. ASSUME Is("mempalace"), NEW E, NEW R, \A e \in E : EntSeen(e, past),
             \A r \in R : RelSeen(r, past)
      PROVE  GraphSeen(FromPalace(E, R), past)
  <2>1. GraphSeen(Tables(E, R), past)
    BY <1>2, TablesSeen
  <2>2. got.drawers \in Seq(Drawer) /\ \A d \in ToSet(got.drawers) : DrawerSeen(d, past)
    BY <1>0 DEF AnswersSeen, Answers
  <2>3. GraphSeen(FromDrawers(got.drawers, conf.drawers, MaxDrawers), past)
    BY <1>2, <2>2, PalaceSeen
  <2>4. QED
    BY <2>1, <2>3, MergedSeen DEF FromPalace
<1>3. CASE Count
  <2> DEFINE g == [got EXCEPT !.total = Len(store.drawers)]
  <2>1. Proceed("page", g)
    BY <1>3 DEF Count
  <2>2. /\ g.drawers = got.drawers /\ g.wings = got.wings /\ g.pairs = got.pairs
        /\ g.ents = got.ents /\ g.rels = got.rels
    BY <1>0 DEF Answers
  <2> HIDE DEF g
  <2>3. AnswersSeen(g, past)
    BY <1>0, <2>2 DEF AnswersSeen
  <2>4. QED
    BY <1>0, <2>1, <2>3, ProceedSeen
<1>4. CASE Page
  <2>1. CASE AfterDrawers
    <3>1. Is("mempalace")
      BY <1>4 DEF Page, Placed
    <3>2. GraphSeen(FromPalace({}, {}), past)
      BY <1>2, <3>1
    <3>3. QED
      BY <1>0, <2>1, <3>2, CompleteSeen, ProceedSeen DEF AfterDrawers
  <2>2. CASE Proceed("page", [got EXCEPT !.drawers = @ \o Batched(Len(got.drawers) + 1)])
    <3> DEFINE batch == Batched(Len(got.drawers) + 1)
               g == [got EXCEPT !.drawers = @ \o batch]
    <3>1. batch \in Seq(Drawer) /\ ToSet(batch) \subseteq ToSet(store.drawers)
      BY <1>0, BatchedTyped DEF Answers
    <3>2. Proceed("page", g)
      BY <2>2
    <3> HIDE DEF batch
    <3>3. /\ g.drawers = got.drawers \o batch /\ g.wings = got.wings /\ g.pairs = got.pairs
          /\ g.ents = got.ents /\ g.rels = got.rels /\ got.drawers \in Seq(Drawer)
      BY <1>0 DEF Answers
    <3> HIDE DEF g
    <3>4. ToSet(got.drawers \o batch) \subseteq ToSet(got.drawers) \cup ToSet(batch)
      <4> SUFFICES ASSUME NEW i \in DOMAIN (got.drawers \o batch)
                   PROVE  (got.drawers \o batch)[i] \in ToSet(got.drawers) \cup ToSet(batch)
        BY DEF ToSet
      <4>1. CASE i <= Len(got.drawers)
        <5>1. i \in DOMAIN got.drawers /\ (got.drawers \o batch)[i] = got.drawers[i]
          BY <3>1, <3>3, <4>1
        <5>2. QED
          BY <5>1 DEF ToSet
      <4>2. CASE ~(i <= Len(got.drawers))
        <5>1. /\ i - Len(got.drawers) \in DOMAIN batch
              /\ (got.drawers \o batch)[i] = batch[i - Len(got.drawers)]
          BY <3>1, <3>3, <4>2
        <5>2. QED
          BY <5>1 DEF ToSet
      <4>3. QED
        BY <4>1, <4>2
    <3>5. \A d \in ToSet(g.drawers) : DrawerSeen(d, past)
      BY <1>0, <1>1, <3>1, <3>3, <3>4 DEF AnswersSeen
    <3>6. AnswersSeen(g, past)
      BY <1>0, <3>3, <3>5 DEF AnswersSeen
    <3>7. QED
      BY <1>0, <3>2, <3>6, ProceedSeen
  <2>3. QED
    BY <1>4, <2>1, <2>2 DEF Page
<1>5. CASE Raise
  BY <1>0, <1>5, RememberedRead DEF Raise
<1>6. CASE Entities
  <2> DEFINE g == [got EXCEPT !.ents = store.ents]
  <2>1. Proceed("rels", g) \/ Proceed("rels", got) \/ Complete(Nothing)
    BY <1>6 DEF Entities
  <2>2. /\ g.drawers = got.drawers /\ g.wings = got.wings /\ g.pairs = got.pairs
        /\ g.ents = store.ents /\ g.rels = got.rels
    BY <1>0 DEF Answers
  <2> HIDE DEF g
  <2>3. AnswersSeen(g, past)
    BY <1>0, <1>1, <2>2 DEF AnswersSeen
  <2>4. QED
    BY <1>0, <2>1, <2>3, NothingSeen, ProceedSeen, CompleteSeen
<1>7. CASE Relations
  <2>1. PICK E \in SUBSET got.ents, R \in SUBSET store.rels : Complete(FromTables(E, R))
    <3>1. CASE \E R \in SUBSET store.rels : Complete(FromTables(got.ents, R))
      BY <3>1
    <3>2. CASE ~Is("engram") /\ Complete(FromPalace({}, {}))
      <4>1. Complete(FromTables({}, {}))
        BY <3>2 DEF FromTables
      <4>2. QED
        BY <4>1
    <3>3. QED
      BY <1>7, <3>1, <3>2 DEF Relations
  <2>2. /\ \A e \in E : EntSeen(e, past)
        /\ \A r \in R : RelSeen(r, past)
    BY <1>0, <1>1 DEF AnswersSeen
  <2>3. CASE Is("engram")
    <3>1. GraphSeen(WithEnds(Knowledge(E, R)), past)
      BY <2>2, TablesSeen
    <3>2. QED
      BY <1>0, <2>1, <2>3, <3>1, CompleteSeen DEF FromTables
  <2>4. CASE ~Is("engram")
    <3>1. Is("mempalace")
      BY <1>7, <2>4 DEF Relations, Placed
    <3>2. GraphSeen(FromPalace(E, R), past)
      BY <1>2, <2>2, <3>1
    <3>3. QED
      BY <1>0, <2>1, <2>4, <3>2, CompleteSeen DEF FromTables
  <2>5. QED
    BY <2>3, <2>4
<1>8. CASE Noted
  BY <1>0, <1>8, RememberedRead DEF Noted
<1>9. QED
  BY <1>3, <1>4, <1>5, <1>6, <1>7, <1>8

LEMMA WalkRemembered ==
  ASSUME ReadTypes, Placed, Remembered, ListWings \/ ListRooms \/ ListTunnels
  PROVE  Remembered'
<1>0. Unwritten /\ got \in Answers /\ AnswersSeen(got, past)
  BY DEF ListWings, ListRooms, ListTunnels, ReadTypes, Remembered
<1>1. /\ \A w \in Wings(ToSet(store.drawers)) : WingSeen(w, past)
      /\ \A p \in Rooms(ToSet(store.drawers)) : RoomSeen(p, past)
      /\ Tunnels(Shared(store)) \subseteq past.edges
  BY StoreSeen DEF Remembered
<1>2. CASE ListWings
  <2> DEFINE W == Wings(ToSet(store.drawers))
             g == [got EXCEPT !.wings = W, !.left = W]
  <2>1. Proceed("rooms", g) \/ Complete(Nothing)
    BY <1>2 DEF ListWings
  <2>2. /\ g.drawers = got.drawers /\ g.wings = W /\ g.pairs = got.pairs
        /\ g.ents = got.ents /\ g.rels = got.rels
    BY <1>0 DEF Answers
  <2> HIDE DEF g
  <2>3. AnswersSeen(g, past)
    BY <1>0, <1>1, <2>2 DEF AnswersSeen
  <2>4. QED
    BY <1>0, <2>1, <2>3, NothingSeen, ProceedSeen, CompleteSeen
<1>3. CASE ListRooms
  <2> DEFINE after == [got EXCEPT !.left = @ \ {Least(got.left)}]
             R == {p \in Rooms(ToSet(store.drawers)) : p[1] = Least(got.left)}
             g == [after EXCEPT !.pairs = @ \cup R]
  <2>1. Proceed("rooms", g) \/ Proceed("rooms", after)
    BY <1>3 DEF ListRooms
  <2>2. \A p \in R : RoomSeen(p, past)
    BY <1>1
  <2>3. /\ after.drawers = got.drawers /\ after.wings = got.wings /\ after.pairs = got.pairs
        /\ after.ents = got.ents /\ after.rels = got.rels
    BY <1>0 DEF Answers
  <2>4. /\ g.drawers = after.drawers /\ g.wings = after.wings /\ g.pairs = after.pairs \cup R
        /\ g.ents = after.ents /\ g.rels = after.rels
    BY <1>0 DEF Answers
  <2> HIDE DEF g, after, R
  <2>5. AnswersSeen(after, past)
    BY <1>0, <2>3 DEF AnswersSeen
  <2>6. AnswersSeen(g, past)
    BY <2>2, <2>4, <2>5 DEF AnswersSeen
  <2>7. QED
    BY <1>0, <2>1, <2>5, <2>6, ProceedSeen
<1>4. CASE ListTunnels
  <2>1. PICK T : Complete(Walked(T)) /\ (T = Shared(store) \/ T = {})
    BY <1>4 DEF ListTunnels
  <2>2. Tunnels({}) = {}
    BY DEF Tunnels
  <2>3. \A e \in Tunnels(T) : EdgeSeen(e, past)
    BY <1>1, <2>1, <2>2 DEF EdgeSeen
  <2> DEFINE b == [wings |-> got.wings, rooms |-> got.pairs, tunnels |-> T,
                   ents |-> {}, rels |-> {}]
  <2>4. /\ b.wings = got.wings /\ b.rooms = got.pairs /\ b.tunnels = T
        /\ b.ents = {} /\ b.rels = {}
    OBVIOUS
  <2>5. Walked(T) = Project(b, conf.kgOnly)
    BY DEF Walked
  <2> HIDE DEF b
  <2>6. GraphSeen(Walked(T), past)
    BY <1>0, <2>3, <2>4, <2>5, ProjectSeen DEF AnswersSeen
  <2>7. QED
    BY <1>0, <2>1, <2>6, CompleteSeen
<1>5. QED
  BY <1>2, <1>3, <1>4

LEMMA ServerRemembered ==
  ASSUME ReadTypes, Placed, Remembered, Search \/ GetEntity \/ AllEntities \/ Taxonomy
  PROVE  Remembered'
<1>0. Unwritten /\ got \in Answers /\ AnswersSeen(got, past)
  BY DEF Search, GetEntity, AllEntities, Taxonomy, ReadTypes, Remembered
<1>1. /\ \A w \in Wings(ToSet(store.drawers)) : WingSeen(w, past)
      /\ \A p \in Rooms(ToSet(store.drawers)) : RoomSeen(p, past)
      /\ \A e \in store.ents : EntSeen(e, past)
      /\ \A r \in store.rels : RelSeen(r, past)
  BY StoreSeen DEF Remembered
<1>2. CASE Search
  <2>1. ASSUME NEW E \in Sample(store.ents, Limit),
               Proceed("entity", [got EXCEPT !.ents = E \ {0}, !.left = E \ {0}])
        PROVE  Remembered'
    <3> DEFINE g == [got EXCEPT !.ents = E \ {0}, !.left = E \ {0}]
    <3>1. Proceed("entity", g)
      BY <2>1
    <3>2. \A e \in E : EntSeen(e, past)
      BY <1>1, SampleIn
    <3>3. /\ g.drawers = got.drawers /\ g.wings = got.wings /\ g.pairs = got.pairs
          /\ g.ents = E \ {0} /\ g.rels = got.rels
      BY <1>0 DEF Answers
    <3> HIDE DEF g
    <3>4. AnswersSeen(g, past)
      BY <1>0, <3>2, <3>3 DEF AnswersSeen
    <3>5. QED
      BY <1>0, <3>1, <3>4, ProceedSeen
  <2>2. CASE Proceed("taxonomy", got)
    BY <1>0, <2>2, ProceedSeen
  <2>3. QED
    BY <1>2, <2>1, <2>2 DEF Search
<1>3. CASE GetEntity
  <2> DEFINE after == [got EXCEPT !.left = @ \ {Least(got.left)}]
             R == Touching(Least(got.left))
             g == [after EXCEPT !.rels = @ \cup R]
  <2>1. Proceed("entity", g) \/ Proceed("entity", after)
    BY <1>3 DEF GetEntity
  <2>2. \A r \in R : RelSeen(r, past)
    BY <1>1 DEF Touching
  <2>3. /\ after.drawers = got.drawers /\ after.wings = got.wings /\ after.pairs = got.pairs
        /\ after.ents = got.ents /\ after.rels = got.rels
    BY <1>0 DEF Answers
  <2>4. /\ g.drawers = after.drawers /\ g.wings = after.wings /\ g.pairs = after.pairs
        /\ g.ents = after.ents /\ g.rels = after.rels \cup R
    BY <1>0 DEF Answers
  <2> HIDE DEF g, after, R
  <2>5. AnswersSeen(after, past)
    BY <1>0, <2>3 DEF AnswersSeen
  <2>6. AnswersSeen(g, past)
    BY <2>2, <2>4, <2>5 DEF AnswersSeen
  <2>7. QED
    BY <1>0, <2>1, <2>5, <2>6, ProceedSeen
<1>4. CASE AllEntities
  <2>1. GraphSeen(Listed, past)
    BY <1>0, TablesSeen DEF AnswersSeen, Listed
  <2>2. QED
    BY <1>0, <1>4, <2>1, CompleteSeen DEF AllEntities
<1>5. CASE Taxonomy
  <2> DEFINE D == ToSet(store.drawers)
  <2>1. Tunnels({}) = {}
    BY DEF Tunnels
  <2>2. GraphSeen(Structure(Wings(D), Rooms(D), {}), past)
    BY <1>1, <2>1, StructureSeen
  <2>3. QED
    BY <1>0, <1>5, <2>2, NothingSeen, CompleteSeen DEF Taxonomy
<1>6. QED
  BY <1>2, <1>3, <1>4, <1>5

LEMMA LadybugRemembered ==
  ASSUME ReadTypes, Placed, Remembered, ShowTables \/ PullNodes \/ PullEdges \/ AllEdges
  PROVE  Remembered'
<1>0. Unwritten /\ got \in Answers /\ AnswersSeen(got, past) /\ Is("ladybug")
  BY DEF ShowTables, PullNodes, PullEdges, AllEdges, ReadTypes, Remembered, Placed
<1>1. /\ \A e \in store.ents : EntSeen(e, past)
      /\ \A r \in store.rels : RelSeen(r, past) /\ RelEdge(r) \in past.edges
  BY StoreSeen DEF Remembered
<1>2. ASSUME NEW g, g.drawers = got.drawers, g.wings = got.wings, g.pairs = got.pairs,
             \A e \in g.ents : EntSeen(e, past), \A r \in g.rels : RelSeen(r, past)
      PROVE  AnswersSeen(g, past)
  BY <1>0, <1>2 DEF AnswersSeen
<1>3. /\ \A e \in got.ents : EntSeen(e, past)
      /\ \A r \in got.rels : RelSeen(r, past)
  BY <1>0 DEF AnswersSeen
<1>4. CASE ShowTables
  <2> DEFINE names == IF conf.shared THEN {"link"} ELSE {r.type : r \in store.rels}
             g == [got EXCEPT !.left = Selected, !.types = names]
  <2>1. Proceed("nodes", g) \/ Complete(Nothing)
    BY <1>4 DEF ShowTables
  <2>2. /\ g.drawers = got.drawers /\ g.wings = got.wings /\ g.pairs = got.pairs
        /\ g.ents = got.ents /\ g.rels = got.rels
    BY <1>0 DEF Answers
  <2> HIDE DEF g
  <2>3. QED
    BY <1>0, <1>2, <1>3, <2>1, <2>2, NothingSeen, ProceedSeen, CompleteSeen
<1>5. CASE PullNodes
  <2>1. CASE Proceed("edges", [got EXCEPT !.left = got.types])
    <3> DEFINE g == [got EXCEPT !.left = got.types]
    <3>1. Proceed("edges", g)
      BY <2>1
    <3>2. /\ g.drawers = got.drawers /\ g.wings = got.wings /\ g.pairs = got.pairs
          /\ g.ents = got.ents /\ g.rels = got.rels
      BY <1>0 DEF Answers
    <3> HIDE DEF g
    <3>3. QED
      BY <1>0, <1>2, <1>3, <3>1, <3>2, ProceedSeen
  <2>2. ASSUME NEW t \in got.left,
               \/ Proceed("nodes", [[got EXCEPT !.left = @ \ {t}] EXCEPT
                                      !.ents = @ \cup {e \in InTables(store.ents) : Kind[e] = t}])
               \/ Proceed("nodes", [got EXCEPT !.left = @ \ {t}])
        PROVE  Remembered'
    <3> DEFINE after == [got EXCEPT !.left = @ \ {t}]
               E == {e \in InTables(store.ents) : Kind[e] = t}
               g == [after EXCEPT !.ents = @ \cup E]
    <3>1. Proceed("nodes", g) \/ Proceed("nodes", after)
      BY <2>2
    <3>2. \A e \in E : EntSeen(e, past)
      BY <1>1 DEF InTables
    <3>3. /\ after.drawers = got.drawers /\ after.wings = got.wings /\ after.pairs = got.pairs
          /\ after.ents = got.ents /\ after.rels = got.rels
      BY <1>0 DEF Answers
    <3>4. /\ g.drawers = after.drawers /\ g.wings = after.wings /\ g.pairs = after.pairs
          /\ g.ents = after.ents \cup E /\ g.rels = after.rels
      BY <1>0 DEF Answers
    <3> HIDE DEF g, after, E
    <3>5. AnswersSeen(after, past)
      BY <1>2, <1>3, <3>3
    <3>6. AnswersSeen(g, past)
      BY <1>2, <1>3, <3>2, <3>3, <3>4
    <3>7. QED
      BY <1>0, <3>1, <3>5, <3>6, ProceedSeen
  <2>3. QED
    BY <1>5, <2>1, <2>2 DEF PullNodes
<1>6. CASE PullEdges
  <2>1. got.left \subseteq got.types /\ (conf.shared => got.types \subseteq {"link"})
    BY <1>6 DEF PullEdges, Placed
  <2>2. PICK t \in got.left :
          LET after == [got EXCEPT !.left = @ \ {t}]
              T == {r \in Linked(store) : conf.shared \/ r.type = t}
          IN  \/ \E R \in OnePair(T) :
                   /\ \/ Proceed("edges", [after EXCEPT !.rels = @ \cup R])
                      \/ Proceed("edges", [after EXCEPT !.rels = @ \cup {[r EXCEPT !.type = t] : r \in R}])
                   /\ clean' = (clean /\ R = T /\ got'.rels = got.rels \cup T)
              \/ Proceed("edges", after) /\ Missed
    BY <1>6 DEF PullEdges
  <2> DEFINE after == [got EXCEPT !.left = @ \ {t}]
             T == {r \in Linked(store) : conf.shared \/ r.type = t}
             g(Q) == [after EXCEPT !.rels = @ \cup Q]
             Named(R) == {[r EXCEPT !.type = t] : r \in R}
  <2>3. /\ after.drawers = got.drawers /\ after.wings = got.wings /\ after.pairs = got.pairs
        /\ after.ents = got.ents /\ after.rels = got.rels
    BY <1>0 DEF Answers
  <2>4. ASSUME NEW Q
        PROVE  /\ g(Q).drawers = after.drawers /\ g(Q).wings = after.wings
               /\ g(Q).pairs = after.pairs /\ g(Q).ents = after.ents
               /\ g(Q).rels = after.rels \cup Q
    BY <1>0 DEF Answers
  <2>5. T \subseteq store.rels
    BY DEF Linked
  <2>6. \A r \in T : RelSeen([r EXCEPT !.type = t], past)
    <3> TAKE r \in T
    <3> DEFINE q == [r EXCEPT !.type = t]
    <3>1. r \in Relation /\ r \in store.rels
      BY <2>5 DEF ReadTypes, Store
    <3>2. q.from = r.from /\ q.to = r.to /\ q.type = t
      BY <3>1 DEF Relation
    <3>3. CASE r.type = t
      <4>1. q = r
        BY <3>1, <3>3 DEF Relation
      <4>2. QED
        BY <1>1, <3>1, <4>1
    <3>4. CASE r.type # t
      <4>1. t = "link"
        BY <2>1, <3>4
      <4> HIDE DEF q
      <4>2. /\ RelEdge(q).type = "link"
            /\ RelEdge(q).from = <<"kg", r.from>> /\ RelEdge(q).to = <<"kg", r.to>>
        BY <3>2, <4>1 DEF RelEdge, Edge
      <4>3. /\ RelEdge(r) \in past.edges
            /\ RelEdge(r).from = <<"kg", r.from>> /\ RelEdge(r).to = <<"kg", r.to>>
        BY <1>1, <3>1 DEF RelEdge, Edge
      <4>4. EdgeSeen(RelEdge(q), past)
        BY <1>0, <4>2, <4>3 DEF EdgeSeen
      <4>5. RelSeen(r, past)
        BY <1>1, <3>1
      <4>6. QED
        BY <3>2, <4>4, <4>5 DEF RelSeen, q
    <3>5. QED
      BY <3>3, <3>4
  <2> HIDE DEF after, T
  <2>7. ASSUME NEW Q, \A r \in Q : RelSeen(r, past), Proceed("edges", g(Q)) PROVE Remembered'
    <3>1. AnswersSeen(g(Q), past)
      <4>1. /\ g(Q).drawers = got.drawers /\ g(Q).wings = got.wings /\ g(Q).pairs = got.pairs
            /\ g(Q).ents = got.ents /\ g(Q).rels = got.rels \cup Q
        BY <2>3, <2>4
      <4> HIDE DEF g
      <4>2. QED
        BY <1>2, <1>3, <2>7, <4>1
    <3> HIDE DEF g
    <3>2. QED
      BY <1>0, <2>7, <3>1, ProceedSeen
  <2>8. CASE Proceed("edges", after)
    <3>1. AnswersSeen(after, past)
      BY <1>2, <1>3, <2>3
    <3>2. QED
      BY <1>0, <2>8, <3>1, ProceedSeen
  <2>9. ASSUME NEW R \in OnePair(T), Proceed("edges", g(R)) \/ Proceed("edges", g(Named(R)))
        PROVE  Remembered'
    <3>1. R \subseteq T
      BY PairIn
    <3>2. \A r \in R : RelSeen(r, past)
      BY <1>1, <2>5, <3>1
    <3>3. \A r \in Named(R) : RelSeen(r, past)
      BY <2>6, <3>1
    <3> HIDE DEF g, Named
    <3>4. QED
      BY <2>7, <2>9, <3>2, <3>3
  <2>10. QED
    BY <2>2, <2>8, <2>9 DEF after, T
<1>7. CASE AllEdges
  <2>1. GraphSeen(Pulled, past)
    BY <1>3, TablesSeen DEF Pulled
  <2>2. QED
    BY <1>0, <1>7, <2>1, CompleteSeen DEF AllEdges
<1>8. QED
  BY <1>4, <1>5, <1>6, <1>7

LEMMA StillRemembered ==
  ASSUME Remembered, UNCHANGED <<store, conf, got, graph, past>>
  PROVE  Remembered'
BY DEF Remembered, InPast, AnswersSeen, GraphSeen, DrawerSeen, WingSeen, RoomSeen, EntSeen,
       RelSeen, EdgeSeen, Is, Pending

LEMMA RememberedStep ==
  ASSUME ReadTypes, Placed, Remembered, [LiveNext]_lvars
  PROVE  Remembered'
<1>1. CASE GraphAnswers
  <2>1. PICK p \in Samples(store) : Complete(FromGraph(store, p[1], p[2]))
    BY <1>1 DEF GraphAnswers
  <2>2. pc = "graph" /\ Unwritten /\ InPast(Content(store))
    BY <1>1 DEF GraphAnswers, Remembered
  <2>3. GraphSeen(FromGraph(store, p[1], p[2]), past)
    BY <2>2, AnswerSeen
  <2>4. QED
    BY <2>1, <2>2, <2>3, CompleteSeen
<1>2. CASE GraphFails
  <2>1. Unwritten /\ (Proceed("wings", got) \/ Complete(Nothing)) /\ AnswersSeen(got, past)
    BY <1>2 DEF GraphFails, Remembered
  <2>2. QED
    BY <2>1, NothingSeen, ProceedSeen, CompleteSeen
<1>3. CASE Ask \/ Probe \/ Summary \/ Tally
  <2>1. UNCHANGED <<store, conf, got, graph, past>>
    BY <1>3 DEF Ask, Probe, Summary, Tally, Finish, Unwritten, reading
  <2>2. QED
    BY <2>1, StillRemembered
<1>4. CASE Read
  BY <1>1, <1>2, <1>3, <1>4, PalaceRemembered, WalkRemembered, ServerRemembered,
     LadybugRemembered DEF Read
<1>5. CASE Raise
  BY <1>5, PalaceRemembered
<1>6. CASE Write
  BY <1>6, WriteSeen
<1>7. CASE LoopStep
  <2>1. UNCHANGED <<store, conf, got, graph, past>>
    BY <1>7, LoopPlaces DEF Elsewhere
  <2>2. QED
    BY <2>1, StillRemembered
<1>8. CASE UNCHANGED vars
  <2>1. UNCHANGED <<store, conf, got, graph, past>>
    BY <1>8 DEF vars, reading
  <2>2. QED
    BY <2>1, StillRemembered
<1>9. QED
  BY <1>4, <1>5, <1>6, <1>7, <1>8 DEF LiveNext, Next, Ended, lvars

\* Every entity and every edge of a snapshot was there at some moment of the read, but for
\* the two kinds of edges that can be made up, whatever is written between the requests and
\* whichever of them fail.
THEOREM NothingInventedHolds == LiveSpec => []NothingInvented
<1>1. LiveInit => Remembered
  <2> SUFFICES ASSUME LiveInit PROVE Remembered
    OBVIOUS
  <2>1. past = Content(store) /\ got = Fresh /\ graph = Pending
    BY DEF LiveInit, Init
  <2>2. QED
    BY <2>1, NothingSeen DEF Remembered, InPast
<1>2. ReadTypes /\ Placed /\ Remembered /\ [LiveNext]_lvars => Remembered'
  BY RememberedStep
<1>3. Remembered => NothingInvented
  BY DEF Remembered, NothingInvented, GraphSeen, EdgeSeen
<1>4. QED
  BY <1>1, <1>2, <1>3, LiveTypeCorrect, PTL DEF LiveSpec

(***************************************************************************)
(* What a snapshot holds when nobody writes and nothing fails.             *)
(***************************************************************************)

\* The relation table r is in.
Table(r) == IF conf.shared THEN "link" ELSE r.type

\* What a read without a write, a failure or a sample has heard before its request at.
PalaceSoFar(at, g) ==
  /\ at = "page" => /\ g.total = Len(store.drawers)
                    /\ \E n \in 0..Len(store.drawers) : g.drawers = SubSeq(store.drawers, 1, n)
  /\ at \in {"ents", "rels"} /\ Is("mempalace") /\ graph = Pending => g.drawers = store.drawers
  /\ at = "rels" => g.ents = store.ents

WalkSoFar(at, g) ==
  /\ at \in {"wings", "rooms"} => ~conf.graph
  /\ at = "rooms" => /\ g.wings = Wings(ToSet(store.drawers)) /\ g.left \subseteq g.wings
                     /\ g.pairs = {p \in Rooms(ToSet(store.drawers)) : p[1] \notin g.left}

ServerSoFar(at, g) ==
  /\ at = "entity" =>
       /\ g.ents = store.ents \ {0} /\ g.ents # {} /\ g.left \subseteq g.ents
       /\ g.rels = {r \in store.rels : {r.from, r.to} \cap (g.ents \ g.left) # {}}
  /\ at = "taxonomy" => store.ents \ {0} = {}

LadybugSoFar(at, g) ==
  /\ at = "nodes" => /\ \A r \in store.rels : Table(r) \in g.types
                     /\ g.ents = {e \in InTables(store.ents) : Kind[e] \notin g.left}
                     /\ g.rels = {}
  /\ at = "edges" => /\ g.ents = InTables(store.ents)
                     /\ g.rels = {r \in Linked(store) : Table(r) \notin g.left}

SoFar(at, g) ==
  /\ at \in {"count", "graph", "wings", "search", "tables"} => g = Fresh
  /\ PalaceSoFar(at, g) /\ WalkSoFar(at, g) /\ ServerSoFar(at, g) /\ LadybugSoFar(at, g)

\* Why: the answers so far are those of the store as it stands, and the graph they were
\* put together to is the graph of the store.
Quiet ==
  /\ pc = "graph" /\ Is("daemon") => conf.graph
  /\ clean =>
       /\ SoFar(pc, got)
       /\ graph # Pending => graph = GraphOf(store)
       /\ conf.cmd = "cat3" /\ pc = "done" /\ ~Is("engram") =>
            pairs = Contradictions(graph.edges)

\* The store and the command stay as they are, and so does the graph of the store.
LEMMA SameGraphOf ==
  ASSUME store' = store, conf' = conf
  PROVE  GraphOf(store)' = GraphOf(store)
BY DEF GraphOf, FromGraph, FromFile, FromVault, FromStats, InTables, Selected, Is

LEMMA SameSoFar ==
  ASSUME store' = store, conf' = conf, graph' = graph, SoFar(pc', got')
  PROVE  SoFar(pc, got)'
<1>1. PalaceSoFar(pc, got)'
  BY DEF SoFar, PalaceSoFar, Is, Pending
<1>2. WalkSoFar(pc, got)'
  BY DEF SoFar, WalkSoFar
<1>3. ServerSoFar(pc, got)'
  BY DEF SoFar, ServerSoFar
<1>4. LadybugSoFar(pc, got)'
  BY DEF SoFar, LadybugSoFar, InTables, Selected, Table, Linked, Is
<1>5. QED
  BY <1>1, <1>2, <1>3, <1>4 DEF SoFar, Fresh

\* A request answered, and another one made.
LEMMA ProceedQuiet ==
  ASSUME Quiet, Unwritten, NEW at, NEW g, Proceed(at, g), at # "graph", at # "done",
         clean' \in BOOLEAN, clean' => clean /\ SoFar(at, g)
  PROVE  Quiet'
<1>1. store' = store /\ conf' = conf /\ pc' = at /\ got' = g /\ graph' = graph
  BY DEF Unwritten, Proceed
<1>2. CASE clean'
  <2>1. SoFar(pc', got')
    BY <1>1, <1>2
  <2>2. SoFar(pc, got)'
    BY <1>1, <2>1, SameSoFar
  <2>3. (graph # Pending => graph = GraphOf(store))'
    BY <1>1, <1>2, SameGraphOf DEF Quiet, Pending
  <2>4. QED
    BY <1>1, <2>2, <2>3 DEF Quiet
<1>3. CASE ~clean'
  BY <1>1, <1>3 DEF Quiet
<1>4. QED
  BY <1>2, <1>3

\* The command is over, or goes on with no request of a read.
LEMMA StillQuiet ==
  ASSUME Quiet, UNCHANGED <<store, conf, got, graph>>, clean' => clean, clean' \in BOOLEAN,
         \/ UNCHANGED <<pc, pairs>>
         \/ pc' \in {"ask", "done", "raised"} \cup Loops /\ conf.cmd # "cat3"
         \/ pc' = "raised"
  PROVE  Quiet'
<1>1. CASE UNCHANGED <<pc, pairs>> /\ clean'
  <2>1. SoFar(pc', got')
    BY <1>1 DEF Quiet
  <2>2. SoFar(pc, got)'
    BY <2>1, SameSoFar
  <2>3. QED
    BY <1>1, <2>2, SameGraphOf DEF Quiet, Is, Pending
<1>2. CASE pc' \in {"ask", "done", "raised"} \cup Loops /\ (conf.cmd # "cat3" \/ pc' = "raised")
           /\ clean'
  <2>1. SoFar(pc', got')
    BY <1>2 DEF SoFar, PalaceSoFar, WalkSoFar, ServerSoFar, LadybugSoFar, Loops
  <2>2. SoFar(pc, got)'
    BY <2>1, SameSoFar
  <2>3. pc' # "graph" /\ (conf'.cmd # "cat3" \/ pc' # "done")
    BY <1>2 DEF Loops
  <2>4. (graph # Pending => graph = GraphOf(store))'
    BY <1>2, SameGraphOf DEF Quiet, Pending
  <2>5. QED
    BY <2>2, <2>3, <2>4 DEF Quiet
<1>3. CASE ~clean'
  <2>1. pc' = "graph" /\ Is("daemon")' => conf'.graph
    BY DEF Quiet, Is, Loops
  <2>2. QED
    BY <1>3, <2>1 DEF Quiet
<1>4. QED
  BY <1>1, <1>2, <1>3

\* No edge of a palace's structure is a contradiction.
LEMMA NoContradiction ==
  ASSUME NEW s, NEW drawers, NEW most
  PROVE  /\ Contradictions(FromDrawers(s, drawers, most).edges) = {}
         /\ <<"none", 0>> \notin FromDrawers(s, drawers, most).nodes
<1> DEFINE topics == {i \in DOMAIN s : s[i].wing # 0 /\ IsTopic(s[i].room)}
           two == {<<s[i].wing, s[i].room>> : i \in topics}
           structure == Structure(Wings(ToSet(s)), two, two)
           kinds == {"member_of", "tunnel", "filed_in", "same_file"}
<1>1. /\ \A e \in structure.edges : e.type \in kinds
      /\ <<"none", 0>> \notin structure.nodes
  <2> DEFINE tops == {p \in two : IsTopic(p[2])}
  <2>1. /\ structure.nodes = {<<"wing", w>> : w \in Wings(ToSet(s))}
                               \cup {<<"room", p[2]>> : p \in tops}
        /\ structure.edges = {Edge(<<"room", p[2]>>, "member_of", <<"wing", p[1]>>) : p \in tops}
                               \cup Tunnels(two)
    BY GraphParts DEF Structure
  <2>2. \A e \in Tunnels(two) : e.type = "tunnel"
    BY DEF Tunnels, Edge
  <2>3. \A f, t : Edge(f, "member_of", t).type = "member_of"
    BY DEF Edge
  <2> HIDE DEF tops, two, structure
  <2>4. QED
    BY <2>1, <2>2, <2>3
<1>2. /\ \A e \in Drawers(s, topics).edges : e.type \in kinds
      /\ <<"none", 0>> \notin Drawers(s, topics).nodes
  <2>1. /\ Drawers(s, topics).nodes = {<<"drawer", s[i].id>> : i \in topics}
        /\ Drawers(s, topics).edges
             = {Edge(<<"drawer", s[i].id>>, "filed_in", <<"room", s[i].room>>) : i \in topics}
                 \cup Siblings(s, topics)
    BY GraphParts DEF Drawers
  <2>2. \A e \in Siblings(s, topics) : e.type = "same_file"
    BY DEF Siblings, Edge
  <2>3. \A f, t : Edge(f, "filed_in", t).type = "filed_in"
    BY DEF Edge
  <2> HIDE DEF topics
  <2>4. QED
    BY <2>1, <2>2, <2>3
<1>3. FromDrawers(s, drawers, most) \in {structure, Merged(structure, Drawers(s, topics))}
  BY DEF FromDrawers
<1> HIDE DEF structure, topics
<1>4. /\ \A e \in FromDrawers(s, drawers, most).edges : e.type \in kinds
      /\ <<"none", 0>> \notin FromDrawers(s, drawers, most).nodes
  BY <1>1, <1>2, <1>3, GraphParts DEF Merged
<1>5. QED
  BY <1>4 DEF Contradictions

\* Only relations between entities that were read stay in LadybugDB's graph.
LEMMA LinkedEnough ==
  Within(Tables(InTables(store.ents), Linked(store)))
    = Within(Tables(InTables(store.ents), store.rels))
<1> DEFINE N == {<<"kg", e>> : e \in InTables(store.ents)}
           Kept(R) == {e \in Related(R) : {e.from, e.to} \subseteq N}
<1>1. \A R : Within(Tables(InTables(store.ents), R)) = Graph(N, Kept(R))
  <2> TAKE R
  <2>1. /\ Tables(InTables(store.ents), R).nodes = N
        /\ Tables(InTables(store.ents), R).edges = Related(R)
    BY GraphParts DEF Tables
  <2> HIDE DEF N
  <2>2. QED
    BY <2>1 DEF Within
<1>2. Linked(store) \subseteq store.rels
  BY DEF Linked
<1>3. Kept(Linked(store)) \subseteq Kept(store.rels)
  BY <1>2 DEF Related
<1>4. ASSUME NEW e \in Kept(store.rels) PROVE e \in Kept(Linked(store))
  <2>1. PICK r \in store.rels : e = RelEdge(r)
    BY <1>4 DEF Related, RelEdge
  <2>2. e.from = <<"kg", r.from>> /\ e.to = <<"kg", r.to>>
    BY <2>1 DEF RelEdge, Edge
  <2>3. r.from \in InTables(store.ents) /\ r.to \in InTables(store.ents)
    BY <1>4, <2>2
  <2>4. r \in Linked(store)
    BY <2>3 DEF Linked, InTables
  <2>5. e \in Related(Linked(store))
    BY <2>1, <2>4, RelatedHas
  <2>6. QED
    BY <1>4, <2>5
<1>5. Kept(Linked(store)) = Kept(store.rels)
  BY <1>3, <1>4
<1> HIDE DEF Kept, N
<1>6. QED
  BY <1>1, <1>5

\* The graph a quiet read ends with; the second one of MemPalaceAdapter is of the KG alone.
Right(g) ==
  /\ IF Is("mempalace") /\ graph # Pending
     THEN Contradictions(g.edges) = Contradictions(GraphOf(store).edges)
     ELSE g = GraphOf(store)
  /\ Is("mempalace") /\ ~conf.kg => Contradictions(g.edges) = {}

\* A read is complete with the graph of the store.
LEMMA CompleteQuiet ==
  ASSUME ReadTypes, Placed, Quiet, pc \in Reads, Unwritten, clean' \in BOOLEAN, NEW g, Complete(g),
         clean' => clean /\ Right(g), Is("mempalace") /\ graph = Pending => g # Pending
  PROVE  Quiet'
<1>1. store' = store /\ conf' = conf /\ got' = Fresh
  BY DEF Unwritten, Complete
<1>2. /\ graph = Pending => /\ graph' = g
                            /\ pc' = IF conf.cmd = "cat3" THEN PairsRequest(conf) ELSE "done"
                            /\ conf.cmd = "cat3" /\ pc' = "done" => pairs' = {}
      /\ graph # Pending => graph' = graph /\ pc' = "done" /\ pairs' = Contradictions(g.edges)
  BY DEF Complete
<1>3. /\ conf.adapter \in Adapters /\ conf.graph \in BOOLEAN /\ conf.kg \in BOOLEAN
  BY DEF ReadTypes, Config
<1>4. /\ pc' \in {"done", "ents", "noted", "graph", "wings", "search", "tables"}
      /\ pc' = "graph" /\ Is("daemon") => conf.graph
      /\ pc' = "wings" => ~conf.graph
      /\ conf.cmd = "cat3" /\ pc' = "done" /\ graph = Pending => Is("mempalace") /\ ~conf.kg
  <2>1. CASE pc' = "done" /\ ~(graph = Pending /\ conf.cmd = "cat3")
    BY <2>1
  <2>2. CASE graph = Pending /\ conf.cmd = "cat3" /\ pc' = PairsRequest(conf)
    <3>1. CASE Is("mempalace")
      BY <1>3, <2>2, <3>1 DEF PairsRequest, Is
    <3>2. CASE Is("engram")
      BY <2>2, <3>2 DEF PairsRequest, Is
    <3>3. CASE Is("daemon")
      BY <1>3, <2>2, <3>3 DEF PairsRequest, FirstRequest, Is
    <3>4. CASE Is("server") \/ Is("ladybug")
      BY <2>2, <3>4 DEF PairsRequest, FirstRequest, Is
    <3>5. CASE conf.adapter \in {"familiar", "hindsight", "good-dog", "ladybug-file"}
      <4>1. pc' = "graph"
        BY <2>2, <3>5 DEF PairsRequest, FirstRequest
      <4>2. QED
        BY <3>5, <4>1 DEF Is
    <3>6. QED
      BY <1>3, <3>1, <3>2, <3>3, <3>4, <3>5 DEF Adapters, Is
  <2>3. QED
    BY <1>2, <2>1, <2>2
<1>5. CASE clean'
  <2>1. Right(g) /\ (graph # Pending => graph = GraphOf(store))
    BY <1>5 DEF Quiet
  <2>2. Is("mempalace") => graph' # Pending
    BY <1>2
  <2>3. PalaceSoFar(pc, got)'
    BY <1>1, <1>4, <2>2 DEF PalaceSoFar, Is, Pending
  <2>4. WalkSoFar(pc, got)' /\ ServerSoFar(pc, got)' /\ LadybugSoFar(pc, got)'
    BY <1>1, <1>4 DEF WalkSoFar, ServerSoFar, LadybugSoFar
  <2>5. SoFar(pc, got)'
    BY <1>1, <2>3, <2>4 DEF SoFar, Fresh
  <2>6. graph' # Pending => graph' = GraphOf(store)
    BY <1>2, <2>1 DEF Right
  <2>7. (graph # Pending => graph = GraphOf(store))'
    BY <1>1, <2>6, SameGraphOf DEF Pending
  <2>8. ASSUME conf.cmd = "cat3", pc' = "done", ~Is("engram")
        PROVE  pairs' = Contradictions(graph'.edges)
    <3>1. CASE graph = Pending
      BY <1>2, <1>4, <2>1, <2>8, <3>1 DEF Right
    <3>2. CASE graph # Pending
      <4>1. graph' = GraphOf(store) /\ pairs' = Contradictions(g.edges)
        BY <1>2, <2>1, <3>2
      <4>2. Contradictions(g.edges) = Contradictions(GraphOf(store).edges)
        BY <2>1 DEF Right
      <4>3. QED
        BY <4>1, <4>2
    <3>3. QED
      BY <3>1, <3>2
  <2>9. (conf.cmd = "cat3" /\ pc = "done" /\ ~Is("engram") =>
            pairs = Contradictions(graph.edges))'
    BY <1>1, <2>8 DEF Contradictions, Is
  <2>10. (pc = "graph" /\ Is("daemon") => conf.graph)'
    BY <1>1, <1>4 DEF Is
  <2>11. QED
    BY <2>5, <2>7, <2>9, <2>10 DEF Quiet
<1>6. CASE ~clean'
  <2>1. (pc = "graph" /\ Is("daemon") => conf.graph)'
    BY <1>1, <1>4 DEF Is
  <2>2. QED
    BY <1>6, <2>1 DEF Quiet
<1>7. QED
  BY <1>5, <1>6

LEMMA JoinedParts ==
  ASSUME NEW S, NEW a \in Seq(S), NEW b \in Seq(S)
  PROVE  /\ a \o b \in Seq(S) /\ Len(a \o b) = Len(a) + Len(b)
         /\ \A i \in 1..Len(a) : (a \o b)[i] = a[i]
         /\ \A i \in (Len(a) + 1)..(Len(a) + Len(b)) : (a \o b)[i] = b[i - Len(a)]
OBVIOUS

LEMMA PageJoined ==
  ASSUME NEW S, NEW s \in Seq(S), NEW m \in Nat, NEW k \in Nat, m <= k, k <= Len(s)
  PROVE  /\ Len(SubSeq(s, 1, m)) = m
         /\ SubSeq(s, m + 1, k) = <<>> => k = m
         /\ m = Len(s) => SubSeq(s, 1, m) = s
         /\ SubSeq(s, 1, m) \o SubSeq(s, m + 1, k) = SubSeq(s, 1, k)
<1> DEFINE d == SubSeq(s, 1, m)
           b == SubSeq(s, m + 1, k)
           t == SubSeq(s, 1, k)
<1>1. d \in Seq(S) /\ Len(d) = m /\ \A i \in 1..m : d[i] = s[i]
  OBVIOUS
<1>2. t \in Seq(S) /\ Len(t) = k /\ \A i \in 1..k : t[i] = s[i]
  OBVIOUS
<1>3. b \in Seq(S) /\ Len(b) = k - m /\ \A i \in 1..(k - m) : b[i] = s[m + i]
  <2>1. /\ b \in Seq(S) /\ Len(b) = IF m + 1 <= k THEN k - m ELSE 0
        /\ \A i \in 1..(k - m) : b[i] = s[m + i]
    BY PartOf
  <2> HIDE DEF b
  <2>2. QED
    BY <2>1
<1> HIDE DEF d, b, t
<1>4. /\ d \o b \in Seq(S) /\ Len(d \o b) = k
      /\ \A i \in 1..m : (d \o b)[i] = d[i]
      /\ \A i \in (m + 1)..k : (d \o b)[i] = b[i - m]
  <2>1. /\ d \o b \in Seq(S) /\ Len(d \o b) = Len(d) + Len(b)
        /\ \A i \in 1..Len(d) : (d \o b)[i] = d[i]
        /\ \A i \in (Len(d) + 1)..(Len(d) + Len(b)) : (d \o b)[i] = b[i - Len(d)]
    BY <1>1, <1>3, JoinedParts
  <2>2. Len(d) = m /\ Len(d) + Len(b) = k
    BY <1>1, <1>3
  <2>3. QED
    BY <2>1, <2>2
<1>5. \A i \in 1..k : (d \o b)[i] = t[i]
  <2> TAKE i \in 1..k
  <2>1. CASE i <= m
    BY <1>1, <1>2, <1>4, <2>1
  <2>2. CASE ~(i <= m)
    <3>1. i \in (m + 1)..k /\ i - m \in 1..(k - m) /\ m + (i - m) = i
      BY <2>2
    <3>2. QED
      BY <1>2, <1>3, <1>4, <3>1
  <2>3. QED
    BY <2>1, <2>2
<1>6. d \o b = t
  BY <1>2, <1>4, <1>5
<1>7. b = <<>> => k = m
  BY <1>3
<1>8. m = Len(s) => d = s
  BY DEF d
<1>9. QED
  BY <1>1, <1>6, <1>7, <1>8 DEF d, b, t

\* The pages read so far are the first drawers; the read is over when they are all there.
LEMMA PagesQuiet ==
  ASSUME ReadTypes, NEW g \in Answers, PalaceSoFar("page", g)
  PROVE  LET batch == Batched(Len(g.drawers) + 1)
         IN  /\ Len(g.drawers) >= g.total \/ batch = <<>> => g.drawers = store.drawers
             /\ \E k \in 0..Len(store.drawers) : g.drawers \o batch = SubSeq(store.drawers, 1, k)
<1>1. store.drawers \in Seq(Drawer) /\ Len(store.drawers) \in Nat
  BY StoredTyped
<1>2. PICK m \in 0..Len(store.drawers) : g.drawers = SubSeq(store.drawers, 1, m)
  BY DEF PalaceSoFar
<1>3. g.total = Len(store.drawers)
  BY DEF PalaceSoFar
<1>4. m \in Nat /\ m <= Len(store.drawers)
  BY <1>1
<1>5. PICK k \in Nat : /\ m <= k /\ k <= Len(store.drawers)
                       /\ m < Len(store.drawers) => m < k
                       /\ Batched(m + 1) = SubSeq(store.drawers, m + 1, k)
  BY <1>4, BatchedTyped
<1>7. /\ Len(g.drawers) = m
      /\ Batched(m + 1) = <<>> => k = m
      /\ m = Len(store.drawers) => g.drawers = store.drawers
      /\ g.drawers \o Batched(m + 1) = SubSeq(store.drawers, 1, k)
  BY <1>1, <1>2, <1>4, <1>5, PageJoined
<1>8. k \in 0..Len(store.drawers)
  BY <1>1, <1>5
<1>9. m >= g.total \/ Batched(m + 1) = <<>> => m = Len(store.drawers)
  <2>1. m < Len(store.drawers) => m < k
    BY <1>5
  <2>2. QED
    BY <1>1, <1>3, <1>4, <1>7, <2>1
<1>6. QED
  BY <1>7, <1>8, <1>9

\* The palace's own projection: its contradictions are those of the KG.
LEMMA MergedContradictions ==
  ASSUME NEW f, NEW t, Contradictions(f.edges) = {}
  PROVE  Contradictions(Merged(f, t).edges) = Contradictions(t.edges)
<1>1. Merged(f, t).edges = f.edges \cup t.edges
  BY GraphParts DEF Merged
<1>2. \A e \in f.edges : e.type # "contradicts"
  BY DEF Contradictions
<1>3. {e \in f.edges \cup t.edges : e.type = "contradicts"} = {e \in t.edges : e.type = "contradicts"}
  BY <1>2
<1>4. QED
  BY <1>1, <1>3 DEF Contradictions

LEMMA PalaceGraph ==
  ASSUME NEW E, NEW R
  PROVE  LET f == FromDrawers(got.drawers, conf.drawers, MaxDrawers)
         IN  /\ graph = Pending => /\ FromPalace(E, R) = Merged(f, Tables(E, R))
                                   /\ FromPalace(E, R) # Pending
             /\ graph # Pending => FromPalace(E, R) = Tables(E, R)
             /\ Contradictions(FromPalace(E, R).edges) = Contradictions(Tables(E, R).edges)
<1> DEFINE f == FromDrawers(got.drawers, conf.drawers, MaxDrawers)
           t == Tables(E, R)
<1>1. Contradictions(f.edges) = {} /\ <<"none", 0>> \notin f.nodes
  BY NoContradiction
<1>2. /\ graph = Pending => FromPalace(E, R) = Merged(f, t)
      /\ graph # Pending => FromPalace(E, R) = t
  BY DEF FromPalace
<1>3. <<"none", 0>> \notin t.nodes
  BY GraphParts DEF Tables
<1> HIDE DEF f, t
<1>4. Merged(f, t).nodes = f.nodes \cup t.nodes
  BY GraphParts DEF Merged
<1>5. Pending.nodes = {<<"none", 0>>}
  BY GraphParts DEF Pending
<1>6. Merged(f, t) # Pending
  BY <1>1, <1>3, <1>4, <1>5
<1>7. Contradictions(Merged(f, t).edges) = Contradictions(t.edges)
  BY <1>1, MergedContradictions
<1>8. QED
  BY <1>2, <1>6, <1>7 DEF f, t

LEMMA PalaceRight ==
  ASSUME Is("mempalace"), NEW E, NEW R,
         graph = Pending => got.drawers = store.drawers,
         graph # Pending => conf.kg,
         IF conf.kg THEN E = store.ents /\ R = store.rels ELSE E = {} /\ R = {}
  PROVE  Right(FromPalace(E, R))
<1> DEFINE f == FromDrawers(store.drawers, conf.drawers, MaxDrawers)
           t == Tables(E, R)
<1>1. Tables({}, {}) = Nothing
  BY DEF Tables, Nothing, Related
<1>2. t = IF conf.kg THEN Tables(store.ents, store.rels) ELSE Nothing
  BY <1>1
<1>3. GraphOf(store) = Merged(f, t)
  <2>1. GraphOf(store) = Merged(f, IF conf.kg THEN Tables(store.ents, store.rels) ELSE Nothing)
    BY DEF GraphOf, Is
  <2> HIDE DEF t
  <2>2. QED
    BY <1>2, <2>1
<1>4. Contradictions(f.edges) = {}
  BY NoContradiction
<1> HIDE DEF f, t
<1>5. Contradictions(GraphOf(store).edges) = Contradictions(t.edges)
  BY <1>3, <1>4, MergedContradictions
<1>6. Contradictions(FromPalace(E, R).edges) = Contradictions(t.edges)
  BY PalaceGraph DEF t
<1>7. graph = Pending => FromPalace(E, R) = Merged(f, t)
  BY PalaceGraph DEF f, t
<1>8. ~conf.kg => Contradictions(t.edges) = {}
  BY <1>2 DEF Nothing, Graph, Contradictions
<1>9. QED
  BY <1>3, <1>5, <1>6, <1>7, <1>8 DEF Right

\* MemPalaceAdapter and EngramAdapter on disk.
LEMMA PalaceQuiet ==
  ASSUME ReadTypes, Placed, Quiet, Count \/ Page \/ Raise \/ Entities \/ Relations \/ Noted
  PROVE  Quiet'
<1>0. /\ Unwritten /\ got \in Answers /\ clean \in BOOLEAN
      /\ clean => SoFar(pc, got)
  BY DEF Count, Page, Raise, Entities, Relations, Noted, ReadTypes, Quiet
<1>1. CASE Count
  <2> DEFINE g == [got EXCEPT !.total = Len(store.drawers)]
  <2>1. Proceed("page", g) /\ clean' = clean /\ pc = "count"
    BY <1>1 DEF Count, Heard
  <2>2. g.total = Len(store.drawers) /\ g.drawers = got.drawers
    BY <1>0 DEF Answers
  <2>3. store.drawers \in Seq(Drawer) /\ Len(store.drawers) \in Nat
    BY StoredTyped
  <2> HIDE DEF g
  <2>4. clean => g.drawers = <<>>
    BY <1>0, <2>1, <2>2 DEF SoFar, Fresh
  <2>5. 0 \in 0..Len(store.drawers) /\ SubSeq(store.drawers, 1, 0) = <<>>
    BY <2>3
  <2>6. clean => PalaceSoFar("page", g)
    BY <2>2, <2>4, <2>5 DEF PalaceSoFar
  <2>7. clean => SoFar("page", g)
    BY <2>6 DEF SoFar, WalkSoFar, ServerSoFar, LadybugSoFar
  <2>8. QED
    BY <1>0, <2>1, <2>7, ProceedQuiet
<1>2. CASE Page
  <2> DEFINE batch == Batched(Len(got.drawers) + 1)
             g == [got EXCEPT !.drawers = @ \o batch]
  <2>1. pc = "page" /\ clean' = clean /\ Is("mempalace") /\ graph = Pending
    BY <1>2 DEF Page, Heard, Placed
  <2>2. \/ (Len(got.drawers) >= got.total \/ batch = <<>>) /\ AfterDrawers
        \/ Proceed("page", g)
    BY <1>2 DEF Page
  <2>3. clean => PalaceSoFar("page", got)
    BY <1>0, <2>1 DEF SoFar
  <2>4. clean => /\ Len(got.drawers) >= got.total \/ batch = <<>> => got.drawers = store.drawers
                 /\ \E k \in 0..Len(store.drawers) :
                      got.drawers \o batch = SubSeq(store.drawers, 1, k)
    BY <1>0, <2>3, PagesQuiet
  <2>5. g.drawers = got.drawers \o batch /\ g.total = got.total
    BY <1>0 DEF Answers
  <2> HIDE DEF batch, g
  <2>6. CASE Proceed("page", g)
    <3>1. clean => PalaceSoFar("page", g)
      BY <2>3, <2>4, <2>5 DEF PalaceSoFar
    <3>2. clean => SoFar("page", g)
      BY <3>1 DEF SoFar, WalkSoFar, ServerSoFar, LadybugSoFar
    <3>3. QED
      BY <1>0, <2>1, <2>6, <3>2, ProceedQuiet
  <2>7. CASE (clean => got.drawers = store.drawers) /\ conf.kg /\ Proceed("ents", got)
    <3>1. clean => SoFar("ents", got)
      BY <2>7 DEF SoFar, PalaceSoFar, WalkSoFar, ServerSoFar, LadybugSoFar
    <3>2. QED
      BY <1>0, <2>1, <2>7, <3>1, ProceedQuiet
  <2>8. CASE (clean => got.drawers = store.drawers) /\ ~conf.kg /\ Complete(FromPalace({}, {}))
    <3>1. clean => Right(FromPalace({}, {}))
      BY <2>1, <2>8, PalaceRight
    <3>2. FromPalace({}, {}) # Pending
      BY <2>1, PalaceGraph
    <3>3. pc \in Reads
      BY <2>1 DEF Reads
    <3>4. QED
      BY <1>0, <2>1, <2>8, <3>1, <3>2, <3>3, CompleteQuiet
  <2>9. AfterDrawers => \/ conf.kg /\ Proceed("ents", got)
                        \/ ~conf.kg /\ Complete(FromPalace({}, {}))
    BY DEF AfterDrawers
  <2>10. QED
    BY <2>2, <2>4, <2>6, <2>7, <2>8, <2>9
<1>3. CASE Raise
  <2>1. pc' = "raised" /\ clean' = FALSE /\ UNCHANGED <<store, conf, got, graph>>
    BY <1>0, <1>3 DEF Raise, Missed, Unwritten
  <2>2. QED
    BY <2>1, StillQuiet
<1>4. CASE Entities
  <2> DEFINE g == [got EXCEPT !.ents = store.ents]
  <2>1. pc = "ents" /\ (Is("engram") \/ (Is("mempalace") /\ conf.kg))
    BY <1>4 DEF Entities, Placed
  <2>2. \/ Proceed("rels", g) /\ clean' = clean
        \/ clean' = FALSE /\ (Proceed("rels", got) \/ (Is("engram") /\ Complete(Nothing)))
    BY <1>4 DEF Entities, Heard, Missed
  <2>3. g.ents = store.ents /\ g.drawers = got.drawers
    BY <1>0 DEF Answers
  <2> HIDE DEF g
  <2>4. clean => SoFar("rels", g)
    <3>1. clean => PalaceSoFar("ents", got)
      BY <1>0, <2>1 DEF SoFar
    <3>2. clean => PalaceSoFar("rels", g)
      BY <2>3, <3>1 DEF PalaceSoFar
    <3>3. QED
      BY <3>2 DEF SoFar, WalkSoFar, ServerSoFar, LadybugSoFar
  <2>5. CASE Proceed("rels", g) /\ clean' = clean
    BY <1>0, <2>4, <2>5, ProceedQuiet
  <2>6. CASE Proceed("rels", got) /\ clean' = FALSE
    BY <1>0, <2>6, ProceedQuiet
  <2>7. CASE clean' = FALSE /\ Is("engram") /\ Complete(Nothing)
    <3>1. pc \in Reads /\ ~Is("mempalace")
      BY <2>1, <2>7 DEF Reads, Is
    <3>2. QED
      BY <1>0, <2>7, <3>1, CompleteQuiet
  <2>8. QED
    BY <2>2, <2>5, <2>6, <2>7
<1>5. CASE Relations
  <2>1. pc = "rels" /\ (Is("engram") \/ (Is("mempalace") /\ conf.kg)) /\ pc \in Reads
    BY <1>5 DEF Relations, Placed, Reads
  <2>2. \/ Complete(FromTables(got.ents, store.rels)) /\ clean' = clean
        \/ Complete(FromTables(got.ents, {})) /\ clean' = FALSE
        \/ ~Is("engram") /\ Complete(FromPalace({}, {})) /\ clean' = FALSE
    BY <1>5 DEF Relations, Heard, Missed
  <2>3. clean => PalaceSoFar("rels", got)
    BY <1>0, <2>1 DEF SoFar
  <2>4. CASE Is("engram")
    <3>1. ~Is("mempalace") /\ \A E, R : FromTables(E, R) = WithEnds(Knowledge(E, R))
      BY <2>4 DEF Is, FromTables
    <3>2. GraphOf(store) = WithEnds(Knowledge(store.ents, store.rels))
      BY <2>4 DEF GraphOf, Is
    <3>3. clean => Right(FromTables(got.ents, store.rels))
      BY <2>3, <3>1, <3>2 DEF Right, PalaceSoFar
    <3>4. CASE Complete(FromTables(got.ents, store.rels)) /\ clean' = clean
      BY <1>0, <2>1, <3>1, <3>3, <3>4, CompleteQuiet
    <3>5. CASE Complete(FromTables(got.ents, {})) /\ clean' = FALSE
      BY <1>0, <2>1, <3>1, <3>5, CompleteQuiet
    <3>6. QED
      BY <2>2, <2>4, <3>4, <3>5
  <2>5. CASE ~Is("engram")
    <3>1. Is("mempalace") /\ conf.kg /\ \A E, R : FromTables(E, R) = FromPalace(E, R)
      BY <2>1, <2>5 DEF FromTables
    <3>2. clean => got.ents = store.ents /\ (graph = Pending => got.drawers = store.drawers)
      BY <2>3, <3>1 DEF PalaceSoFar
    <3>3. clean => Right(FromPalace(got.ents, store.rels))
      BY <3>1, <3>2, PalaceRight
    <3>4. \A E, R : graph = Pending => FromPalace(E, R) # Pending
      BY PalaceGraph
    <3>5. CASE Complete(FromPalace(got.ents, store.rels)) /\ clean' = clean
      BY <1>0, <2>1, <3>3, <3>4, <3>5, CompleteQuiet
    <3>6. CASE Complete(FromPalace(got.ents, {})) /\ clean' = FALSE
      BY <1>0, <2>1, <3>4, <3>6, CompleteQuiet
    <3>7. CASE Complete(FromPalace({}, {})) /\ clean' = FALSE
      BY <1>0, <2>1, <3>4, <3>7, CompleteQuiet
    <3>8. QED
      BY <2>2, <3>1, <3>5, <3>6, <3>7
  <2>6. QED
    BY <2>4, <2>5
<1>6. CASE Noted
  <2>1. /\ pc' = "done" /\ got' = Fresh /\ graph' = graph /\ Is("engram")
        /\ clean' => clean
    BY <1>6 DEF Noted, Heard, Missed, Placed
  <2>2. store' = store /\ conf' = conf
    BY <1>0 DEF Unwritten
  <2>3. SoFar(pc', got')
    BY <2>1 DEF SoFar, PalaceSoFar, WalkSoFar, ServerSoFar, LadybugSoFar
  <2>4. SoFar(pc, got)'
    BY <2>1, <2>2, <2>3, SameSoFar
  <2>5. clean' => (graph # Pending => graph = GraphOf(store))'
    BY <2>1, <2>2, SameGraphOf DEF Quiet, Pending
  <2>6. QED
    BY <2>1, <2>2, <2>4, <2>5 DEF Quiet, Is
<1>7. QED
  BY <1>1, <1>2, <1>3, <1>4, <1>5, <1>6

\* One request for the whole graph.
LEMMA GraphQuiet ==
  ASSUME ReadTypes, Placed, Quiet, GraphAnswers \/ GraphFails
  PROVE  Quiet'
<1>0. /\ Unwritten /\ pc = "graph" /\ pc \in Reads /\ clean \in BOOLEAN /\ ~Is("mempalace")
  BY DEF GraphAnswers, GraphFails, Reads, ReadTypes, Placed, Is
<1>1. CASE GraphAnswers
  <2>1. PICK p \in Samples(store) : /\ Complete(FromGraph(store, p[1], p[2]))
                                    /\ clean' = (clean /\ p = All(store))
    BY <1>1 DEF GraphAnswers
  <2>2. /\ conf.adapter \in {"daemon", "familiar", "hindsight", "good-dog", "ladybug-file"}
        /\ Is("daemon") => conf.graph
    BY <1>0 DEF Placed, Quiet
  <2>3. GraphOf(store) = FromGraph(store, store.ents, store.rels)
    BY <2>2 DEF GraphOf, Is
  <2>4. p = All(store) => FromGraph(store, p[1], p[2]) = GraphOf(store)
    <3>1. CASE Is("ladybug-file")
      <4>1. \A E, R : FromGraph(store, E, R) = Within(Tables(InTables(E), R))
        BY <3>1 DEF FromGraph, FromFile, Is
      <4>2. p = All(store) => p[1] = store.ents /\ p[2] = Linked(store)
        BY <3>1 DEF All
      <4>3. QED
        BY <2>3, <4>1, <4>2, LinkedEnough
    <3>2. CASE ~Is("ladybug-file")
      <4>1. p = All(store) => p[1] = store.ents /\ p[2] = store.rels
        BY <3>2 DEF All
      <4>2. QED
        BY <2>3, <4>1
    <3>3. QED
      BY <3>1, <3>2
  <2>5. clean' \in BOOLEAN /\ (clean' => clean /\ p = All(store))
    BY <2>1
  <2>6. clean' => clean /\ Right(FromGraph(store, p[1], p[2]))
    BY <1>0, <2>4, <2>5 DEF Right
  <2>7. QED
    BY <1>0, <2>1, <2>5, <2>6, CompleteQuiet
<1>2. CASE GraphFails
  <2>1. clean' = FALSE
    BY <1>2 DEF GraphFails, Missed
  <2>2. CASE Proceed("wings", got)
    BY <1>0, <2>1, <2>2, ProceedQuiet
  <2>3. CASE Complete(Nothing)
    BY <1>0, <2>1, <2>3, CompleteQuiet
  <2>4. QED
    BY <1>2, <2>2, <2>3 DEF GraphFails
<1>3. QED
  BY <1>1, <1>2

\* The walk of the MCP tools.
LEMMA WalkQuiet ==
  ASSUME ReadTypes, Placed, Quiet, ListWings \/ ListRooms \/ ListTunnels
  PROVE  Quiet'
<1>0. /\ Unwritten /\ got \in Answers /\ pc \in Reads /\ clean \in BOOLEAN
      /\ Is("daemon") /\ ~Is("mempalace")
      /\ clean => SoFar(pc, got) /\ ~conf.graph
  BY DEF ListWings, ListRooms, ListTunnels, Reads, ReadTypes, Placed, Quiet, SoFar, WalkSoFar, Is
<1>1. CASE ListWings
  <2> DEFINE W == Wings(ToSet(store.drawers))
             g == [got EXCEPT !.wings = W, !.left = W]
  <2>1. /\ pc = "wings"
        /\ \/ Proceed("rooms", g) /\ clean' = clean
           \/ Complete(Nothing) /\ clean' = FALSE
    BY <1>1 DEF ListWings, Heard, Missed
  <2>2. g.wings = W /\ g.left = W /\ g.pairs = got.pairs
    BY <1>0 DEF Answers
  <2>3. \A p \in Rooms(ToSet(store.drawers)) : p[1] \in W
    BY DEF Rooms, Wings
  <2> HIDE DEF g
  <2>4. clean => got.pairs = {}
    BY <1>0, <2>1 DEF SoFar, Fresh
  <2>5. clean => WalkSoFar("rooms", g)
    BY <1>0, <2>2, <2>3, <2>4 DEF WalkSoFar
  <2>6. clean => SoFar("rooms", g)
    BY <2>5 DEF SoFar, PalaceSoFar, ServerSoFar, LadybugSoFar
  <2>7. CASE Proceed("rooms", g) /\ clean' = clean
    BY <1>0, <2>6, <2>7, ProceedQuiet
  <2>8. CASE Complete(Nothing) /\ clean' = FALSE
    BY <1>0, <2>8, CompleteQuiet
  <2>9. QED
    BY <2>1, <2>7, <2>8
<1>2. CASE ListRooms
  <2> DEFINE w == Least(got.left)
             after == [got EXCEPT !.left = @ \ {w}]
             R == {p \in Rooms(ToSet(store.drawers)) : p[1] = w}
             g == [after EXCEPT !.pairs = @ \cup R]
  <2>1. /\ pc = "rooms"
        /\ \/ Proceed("rooms", g) /\ clean' = clean
           \/ Proceed("rooms", after) /\ clean' = FALSE
    BY <1>2 DEF ListRooms, Heard, Missed
  <2>2. /\ g.left = got.left \ {w} /\ g.pairs = got.pairs \cup R /\ g.wings = got.wings
    BY <1>0 DEF Answers
  <2> HIDE DEF w, after, g
  <2>3. clean => WalkSoFar("rooms", got)
    BY <1>0, <2>1 DEF SoFar
  <2>4. clean => WalkSoFar("rooms", g)
    BY <2>2, <2>3 DEF WalkSoFar
  <2>5. clean => SoFar("rooms", g)
    BY <2>4 DEF SoFar, PalaceSoFar, ServerSoFar, LadybugSoFar
  <2>6. CASE Proceed("rooms", g) /\ clean' = clean
    BY <1>0, <2>5, <2>6, ProceedQuiet
  <2>7. CASE Proceed("rooms", after) /\ clean' = FALSE
    BY <1>0, <2>7, ProceedQuiet
  <2>8. QED
    BY <2>1, <2>6, <2>7
<1>3. CASE ListTunnels
  <2>1. /\ pc = "rooms" /\ got.left = {}
        /\ \/ Complete(Walked(Shared(store))) /\ clean' = clean
           \/ Complete(Walked({})) /\ clean' = FALSE
    BY <1>3 DEF ListTunnels, Heard, Missed
  <2>2. clean => WalkSoFar("rooms", got)
    BY <1>0, <2>1 DEF SoFar
  <2>3. clean => /\ got.wings = Wings(ToSet(store.drawers))
                 /\ got.pairs = Rooms(ToSet(store.drawers))
    BY <2>1, <2>2 DEF WalkSoFar
  <2>4. clean => Walked(Shared(store)) = Project(Payload(store, {}, {}), conf.kgOnly)
    BY <2>3 DEF Walked, Payload
  <2>5. clean => GraphOf(store) = IF conf.kgOnly THEN Nothing
                                  ELSE Project(Payload(store, {}, {}), FALSE)
    BY <1>0 DEF GraphOf, Is
  <2>6. conf.kgOnly => Project(Payload(store, {}, {}), conf.kgOnly) = Nothing
    <3>1. /\ Payload(store, {}, {}).ents = {} /\ Payload(store, {}, {}).rels = {}
      BY DEF Payload
    <3>2. Knowledge({}, {}) = Nothing
      BY DEF Knowledge, Related, Whole, Nothing
    <3>3. WithEnds(Nothing) = Nothing
      <4>1. Nothing.nodes = {} /\ Nothing.edges = {}
        BY DEF Nothing, Graph
      <4>2. Ends({}) = {}
        BY DEF Ends
      <4>3. QED
        BY <4>1, <4>2 DEF WithEnds, Nothing
    <3>4. QED
      BY <3>1, <3>2, <3>3 DEF Project
  <2>7. ~conf.kgOnly => Project(Payload(store, {}, {}), conf.kgOnly)
                          = Project(Payload(store, {}, {}), FALSE)
    BY DEF Project
  <2>8. clean => Right(Walked(Shared(store)))
    BY <1>0, <2>4, <2>5, <2>6, <2>7 DEF Right
  <2>9. CASE Complete(Walked(Shared(store))) /\ clean' = clean
    BY <1>0, <2>8, <2>9, CompleteQuiet
  <2>10. CASE Complete(Walked({})) /\ clean' = FALSE
    BY <1>0, <2>10, CompleteQuiet
  <2>11. QED
    BY <2>1, <2>9, <2>10
<1>4. QED
  BY <1>1, <1>2, <1>3

\* MemPalaceServerAdapter.
LEMMA ServerQuiet ==
  ASSUME ReadTypes, Placed, Quiet, Search \/ GetEntity \/ AllEntities \/ Taxonomy
  PROVE  Quiet'
<1>0. /\ Unwritten /\ got \in Answers /\ pc \in Reads /\ clean \in BOOLEAN
      /\ Is("server") /\ ~Is("mempalace")
      /\ clean => SoFar(pc, got)
  BY DEF Search, GetEntity, AllEntities, Taxonomy, Reads, ReadTypes, Placed, Quiet, Is
<1>01. GraphOf(store) =
         IF store.ents \ {0} = {} THEN Structure(Wings(ToSet(store.drawers)), Topics(store), {})
         ELSE WithEnds(Knowledge(store.ents,
                         {r \in store.rels : {r.from, r.to} \cap (store.ents \ {0}) # {}}))
  BY <1>0 DEF GraphOf, Is
<1>1. CASE Search
  <2>1. pc = "search"
    BY <1>1 DEF Search
  <2>2. ASSUME NEW E \in Sample(store.ents, Limit),
               IF E \ {0} = {} THEN Proceed("taxonomy", got)
               ELSE Proceed("entity", [got EXCEPT !.ents = E \ {0}, !.left = E \ {0}]),
               clean' = (clean /\ E = store.ents)
        PROVE  Quiet'
    <3> DEFINE g == [got EXCEPT !.ents = E \ {0}, !.left = E \ {0}]
    <3>1. clean' \in BOOLEAN /\ (clean' => clean /\ E = store.ents)
      BY <2>2
    <3>2. g.ents = E \ {0} /\ g.left = E \ {0} /\ g.rels = got.rels
      BY <1>0 DEF Answers
    <3>3. CASE E \ {0} = {} /\ Proceed("taxonomy", got)
      <4>1. clean' => SoFar("taxonomy", got)
        BY <3>1, <3>3 DEF SoFar, PalaceSoFar, WalkSoFar, ServerSoFar, LadybugSoFar
      <4>2. QED
        BY <1>0, <3>1, <3>3, <4>1, ProceedQuiet
    <3>4. CASE E \ {0} # {} /\ Proceed("entity", g)
      <4> HIDE DEF g
      <4>1. clean => got.rels = {}
        BY <1>0, <2>1 DEF SoFar, Fresh
      <4>2. clean' => ServerSoFar("entity", g)
        BY <3>1, <3>2, <3>4, <4>1 DEF ServerSoFar
      <4>3. clean' => SoFar("entity", g)
        BY <4>2 DEF SoFar, PalaceSoFar, WalkSoFar, LadybugSoFar
      <4>4. QED
        BY <1>0, <3>1, <3>4, <4>3, ProceedQuiet
    <3>5. QED
      BY <2>2, <3>3, <3>4
  <2>3. ASSUME Proceed("taxonomy", got), Missed PROVE Quiet'
    <3>1. clean' = FALSE
      BY <2>3 DEF Missed
    <3>2. QED
      BY <1>0, <2>3, <3>1, ProceedQuiet
  <2>4. QED
    BY <1>1, <2>2, <2>3 DEF Search
<1>2. CASE GetEntity
  <2> DEFINE e == Least(got.left)
             after == [got EXCEPT !.left = @ \ {e}]
             g == [after EXCEPT !.rels = @ \cup Touching(e)]
  <2>1. /\ pc = "entity" /\ got.left # {}
        /\ \/ Proceed("entity", g) /\ clean' = clean
           \/ Proceed("entity", after) /\ clean' = FALSE
    BY <1>2 DEF GetEntity, Heard, Missed
  <2>2. g.left = got.left \ {e} /\ g.rels = got.rels \cup Touching(e) /\ g.ents = got.ents
    BY <1>0 DEF Answers
  <2>3. clean => ServerSoFar("entity", got)
    BY <1>0, <2>1 DEF SoFar
  <2>4. clean => e \in got.left
    <3>1. got.ents \subseteq Nat
      BY <1>0 DEF Answers
    <3>2. clean => got.left \subseteq Nat
      BY <2>3, <3>1 DEF ServerSoFar
    <3>3. QED
      BY <2>1, <3>2, LeastOf
  <2> HIDE DEF e, after, g
  <2>5. clean => ServerSoFar("entity", g)
    <3>1. clean => g.left \subseteq g.ents /\ g.ents = store.ents \ {0} /\ g.ents # {}
      BY <2>2, <2>3 DEF ServerSoFar
    <3>2. clean => got.rels = {r \in store.rels : {r.from, r.to} \cap (got.ents \ got.left) # {}}
      BY <2>3 DEF ServerSoFar
    <3>3. clean => g.ents \ g.left = (got.ents \ got.left) \cup {e}
      BY <2>2, <2>3, <2>4 DEF ServerSoFar
    <3>4. clean => g.rels = {r \in store.rels : {r.from, r.to} \cap (g.ents \ g.left) # {}}
      BY <2>2, <3>2, <3>3 DEF Touching
    <3>5. QED
      BY <3>1, <3>4 DEF ServerSoFar
  <2>6. clean => SoFar("entity", g)
    BY <2>5 DEF SoFar, PalaceSoFar, WalkSoFar, LadybugSoFar
  <2>7. CASE Proceed("entity", g) /\ clean' = clean
    BY <1>0, <2>6, <2>7, ProceedQuiet
  <2>8. CASE Proceed("entity", after) /\ clean' = FALSE
    BY <1>0, <2>8, ProceedQuiet
  <2>9. QED
    BY <2>1, <2>7, <2>8
<1>3. CASE AllEntities
  <2>1. pc = "entity" /\ got.left = {} /\ Complete(Listed) /\ clean' = clean
    BY <1>3 DEF AllEntities, Heard
  <2>2. clean => ServerSoFar("entity", got)
    BY <1>0, <2>1 DEF SoFar
  <2>3. clean => /\ got.ents = store.ents \ {0} /\ store.ents \ {0} # {}
                 /\ got.rels = {r \in store.rels : {r.from, r.to} \cap (store.ents \ {0}) # {}}
    BY <2>1, <2>2 DEF ServerSoFar
  <2>4. \A E, R : Knowledge(E \ {0}, R) = Knowledge(E, R)
    BY DEF Knowledge
  <2>5. clean => Right(Listed)
    BY <1>0, <1>01, <2>3, <2>4 DEF Right, Listed
  <2>6. QED
    BY <1>0, <2>1, <2>5, CompleteQuiet
<1>4. CASE Taxonomy
  <2> DEFINE g == Structure(Wings(ToSet(store.drawers)), Rooms(ToSet(store.drawers)), {})
  <2>1. /\ pc = "taxonomy"
        /\ \/ Complete(g) /\ clean' = clean
           \/ Complete(Nothing) /\ clean' = FALSE
    BY <1>4 DEF Taxonomy, Heard, Missed
  <2>2. clean => store.ents \ {0} = {}
    BY <1>0, <2>1 DEF SoFar, ServerSoFar
  <2>3. g = Structure(Wings(ToSet(store.drawers)), Topics(store), {})
    BY DEF Structure, Topics
  <2> HIDE DEF g
  <2>4. clean => Right(g)
    BY <1>0, <1>01, <2>2, <2>3 DEF Right
  <2>5. CASE Complete(g) /\ clean' = clean
    BY <1>0, <2>4, <2>5, CompleteQuiet
  <2>6. CASE Complete(Nothing) /\ clean' = FALSE
    BY <1>0, <2>6, CompleteQuiet
  <2>7. QED
    BY <2>1, <2>5, <2>6
<1>5. QED
  BY <1>1, <1>2, <1>3, <1>4

\* LadybugDBAdapter over its API.
LEMMA LadybugQuiet ==
  ASSUME ReadTypes, Placed, Quiet, ShowTables \/ PullNodes \/ PullEdges \/ AllEdges
  PROVE  Quiet'
<1>0. /\ Unwritten /\ got \in Answers /\ pc \in Reads /\ clean \in BOOLEAN
      /\ Is("ladybug") /\ ~Is("mempalace")
      /\ clean => SoFar(pc, got)
  BY DEF ShowTables, PullNodes, PullEdges, AllEdges, Reads, ReadTypes, Placed, Quiet, Is
<1>1. CASE ShowTables
  <2> DEFINE names == IF conf.shared THEN {"link"} ELSE {r.type : r \in store.rels}
             g == [got EXCEPT !.left = Selected, !.types = names]
  <2>1. /\ pc = "tables"
        /\ \/ Proceed("nodes", g) /\ clean' = clean
           \/ Complete(Nothing) /\ clean' = FALSE
    BY <1>1 DEF ShowTables, Heard, Missed
  <2>2. g.left = Selected /\ g.types = names /\ g.ents = got.ents /\ g.rels = got.rels
    BY <1>0 DEF Answers
  <2>3. \A r \in store.rels : Table(r) \in names
    BY DEF Table
  <2> HIDE DEF g, names
  <2>4. clean => got.ents = {} /\ got.rels = {}
    BY <1>0, <2>1 DEF SoFar, Fresh
  <2>5. clean => LadybugSoFar("nodes", g)
    BY <2>2, <2>3, <2>4 DEF LadybugSoFar, InTables
  <2>6. clean => SoFar("nodes", g)
    BY <2>5 DEF SoFar, PalaceSoFar, WalkSoFar, ServerSoFar
  <2>7. CASE Proceed("nodes", g) /\ clean' = clean
    BY <1>0, <2>6, <2>7, ProceedQuiet
  <2>8. CASE Complete(Nothing) /\ clean' = FALSE
    BY <1>0, <2>8, CompleteQuiet
  <2>9. QED
    BY <2>1, <2>7, <2>8
<1>2. CASE PullNodes
  <2>1. pc = "nodes" /\ (clean => LadybugSoFar("nodes", got))
    BY <1>0, <1>2 DEF PullNodes, SoFar
  <2>2. CASE got.left = {} /\ Proceed("edges", [got EXCEPT !.left = got.types]) /\ clean' = clean
    <3> DEFINE g == [got EXCEPT !.left = got.types]
    <3>1. g.left = got.types /\ g.ents = got.ents /\ g.rels = got.rels
      BY <1>0 DEF Answers
    <3>2. Proceed("edges", g)
      BY <2>2
    <3> HIDE DEF g
    <3>3. clean => LadybugSoFar("edges", g)
      BY <2>1, <2>2, <3>1 DEF LadybugSoFar, Linked
    <3>4. clean => SoFar("edges", g)
      BY <3>3 DEF SoFar, PalaceSoFar, WalkSoFar, ServerSoFar
    <3>5. QED
      BY <1>0, <2>2, <3>2, <3>4, ProceedQuiet
  <2>3. ASSUME NEW t \in got.left,
               \/ /\ Proceed("nodes", [[got EXCEPT !.left = @ \ {t}] EXCEPT
                                      !.ents = @ \cup {e \in InTables(store.ents) : Kind[e] = t}])
                  /\ Heard
               \/ Proceed("nodes", [got EXCEPT !.left = @ \ {t}]) /\ Missed
        PROVE  Quiet'
    <3> DEFINE after == [got EXCEPT !.left = @ \ {t}]
               E == {e \in InTables(store.ents) : Kind[e] = t}
               g == [after EXCEPT !.ents = @ \cup E]
    <3>1. \/ Proceed("nodes", g) /\ clean' = clean
          \/ Proceed("nodes", after) /\ clean' = FALSE
      BY <2>3 DEF Heard, Missed
    <3>2. /\ g.left = got.left \ {t} /\ g.ents = got.ents \cup E
          /\ g.types = got.types /\ g.rels = got.rels
      BY <1>0 DEF Answers
    <3> HIDE DEF after, g
    <3>3. clean => LadybugSoFar("nodes", g)
      BY <2>1, <3>2 DEF LadybugSoFar
    <3>4. clean => SoFar("nodes", g)
      BY <3>3 DEF SoFar, PalaceSoFar, WalkSoFar, ServerSoFar
    <3>5. CASE Proceed("nodes", g) /\ clean' = clean
      BY <1>0, <3>4, <3>5, ProceedQuiet
    <3>6. CASE Proceed("nodes", after) /\ clean' = FALSE
      BY <1>0, <3>6, ProceedQuiet
    <3>7. QED
      BY <3>1, <3>5, <3>6
  <2>4. QED
    BY <1>2, <2>2, <2>3 DEF PullNodes, Heard
<1>3. CASE PullEdges
  <2>1. /\ pc = "edges" /\ (clean => LadybugSoFar("edges", got))
        /\ got.left \subseteq got.types /\ (conf.shared => got.types \subseteq {"link"})
    BY <1>0, <1>3 DEF PullEdges, SoFar, Placed
  <2>2. PICK t \in got.left :
          LET after == [got EXCEPT !.left = @ \ {t}]
              T == {r \in Linked(store) : conf.shared \/ r.type = t}
          IN  \/ \E R \in OnePair(T) :
                   /\ \/ Proceed("edges", [after EXCEPT !.rels = @ \cup R])
                      \/ Proceed("edges", [after EXCEPT !.rels = @ \cup {[r EXCEPT !.type = t] : r \in R}])
                   /\ clean' = (clean /\ R = T /\ got'.rels = got.rels \cup T)
              \/ Proceed("edges", after) /\ Missed
    BY <1>3 DEF PullEdges
  <2> DEFINE after == [got EXCEPT !.left = @ \ {t}]
             T == {r \in Linked(store) : conf.shared \/ r.type = t}
             g(Q) == [after EXCEPT !.rels = @ \cup Q]
  <2>3. \A r \in Linked(store) : r \in T <=> Table(r) = t
    BY <2>1 DEF Table
  <2>4. \A Q : g(Q).left = got.left \ {t} /\ g(Q).ents = got.ents
    BY <1>0 DEF Answers
  <2>5. T \subseteq Linked(store)
    OBVIOUS
  <2> HIDE DEF T
  <2>6. ASSUME NEW Q, Proceed("edges", g(Q)), clean' \in BOOLEAN,
               clean' => clean /\ got'.rels = got.rels \cup T
        PROVE  Quiet'
    <3>1. got' = g(Q)
      BY <2>6 DEF Proceed
    <3>2. g(Q).left = got.left \ {t} /\ g(Q).ents = got.ents
      BY <2>4
    <3> HIDE DEF g
    <3>3. clean' => g(Q).rels = got.rels \cup T
      BY <2>6, <3>1
    <3>4. clean' => LadybugSoFar("edges", g(Q))
      BY <2>1, <2>3, <2>5, <2>6, <3>2, <3>3 DEF LadybugSoFar
    <3>5. clean' => SoFar("edges", g(Q))
      BY <3>4 DEF SoFar, PalaceSoFar, WalkSoFar, ServerSoFar
    <3>6. QED
      BY <1>0, <2>6, <3>5, ProceedQuiet
  <2>7. CASE Proceed("edges", after) /\ Missed
    <3>1. clean' = FALSE
      BY <2>7 DEF Missed
    <3>2. QED
      BY <1>0, <2>7, <3>1, ProceedQuiet
  <2>8. ASSUME NEW R \in OnePair(T),
               \/ Proceed("edges", g(R))
               \/ Proceed("edges", g({[r EXCEPT !.type = t] : r \in R})),
               clean' = (clean /\ R = T /\ got'.rels = got.rels \cup T)
        PROVE  Quiet'
    <3>1. clean' \in BOOLEAN /\ (clean' => clean /\ got'.rels = got.rels \cup T)
      BY <2>8
    <3> HIDE DEF g
    <3>2. QED
      BY <2>6, <2>8, <3>1
  <2>9. QED
    BY <2>2, <2>7, <2>8 DEF T
<1>4. CASE AllEdges
  <2>1. pc = "edges" /\ got.left = {} /\ Complete(Pulled) /\ clean' = clean
    BY <1>4 DEF AllEdges, Heard
  <2>2. clean => LadybugSoFar("edges", got)
    BY <1>0, <2>1 DEF SoFar
  <2>3. clean => got.ents = InTables(store.ents) /\ got.rels = Linked(store)
    BY <2>1, <2>2 DEF LadybugSoFar
  <2>4. GraphOf(store) = Within(Tables(InTables(store.ents), store.rels))
    BY <1>0 DEF GraphOf, Is
  <2>5. clean => Right(Pulled)
    BY <1>0, <2>3, <2>4, LinkedEnough DEF Right, Pulled
  <2>6. QED
    BY <1>0, <2>1, <2>5, CompleteQuiet
<1>5. QED
  BY <1>1, <1>2, <1>3, <1>4

\* A question, a probe or the ladder reads no graph.
LEMMA AsideQuiet ==
  ASSUME ReadTypes, Placed, Quiet, Ask \/ Probe \/ Summary \/ Tally \/ LoopStep
  PROVE  Quiet'
<1>1. CASE Ask \/ Probe
  <2>1. UNCHANGED <<store, conf, got, graph>> /\ UNCHANGED <<pc, pairs>>
    BY <1>1 DEF Ask, Probe, reading
  <2>2. clean \in BOOLEAN
    BY DEF ReadTypes
  <2>3. clean' \in BOOLEAN /\ (clean' => clean)
    <3>1. CASE Ask
      <4>1. PICK r : clean' = (clean /\ r # Failed)
        BY <3>1 DEF Ask
      <4>2. QED
        BY <4>1
    <3>2. CASE Probe
      <4>1. clean' = clean
        BY <3>2 DEF Probe
      <4>2. QED
        BY <2>2, <4>1
    <3>3. QED
      BY <1>1, <3>1, <3>2
  <2>4. QED
    BY <2>1, <2>3, StillQuiet
<1>2. CASE Summary \/ Tally
  <2>1. /\ pc' = "done" /\ UNCHANGED <<store, conf, got, graph>> /\ clean' = clean
        /\ conf.cmd # "cat3"
    BY <1>2 DEF Summary, Tally, Finish, Unwritten, Placed
  <2>2. clean' \in BOOLEAN
    BY <2>1 DEF ReadTypes
  <2>3. QED
    BY <2>1, <2>2, StillQuiet
<1>3. CASE LoopStep
  <2>1. /\ UNCHANGED <<store, conf, got, graph>> /\ clean' = clean
        /\ pc \in Loops /\ pc' \in Loops \cup {"done", "raised"}
    BY <1>3, LoopPlaces DEF Elsewhere
  <2>2. conf.cmd # "cat3"
    BY <2>1 DEF Placed
  <2>3. clean' \in BOOLEAN
    BY <2>1 DEF ReadTypes
  <2>4. QED
    BY <2>1, <2>2, <2>3, StillQuiet
<1>4. QED
  BY <1>1, <1>2, <1>3

LEMMA QuietStep ==
  ASSUME ReadTypes, Placed, Quiet, [LiveNext]_lvars
  PROVE  Quiet'
<1>1. CASE Read
  BY <1>1, PalaceQuiet, GraphQuiet, WalkQuiet, ServerQuiet, LadybugQuiet, AsideQuiet DEF Read
<1>2. CASE Raise
  BY <1>2, PalaceQuiet
<1>3. CASE Write
  <2>1. PICK s : Written(s)
    BY <1>3 DEF Write, File, Delete, Learn, Forget
  <2>2. clean' = FALSE /\ pc' = pc /\ conf' = conf
    BY <2>1 DEF Written, reading
  <2>3. QED
    BY <2>2 DEF Quiet, Is
<1>4. CASE LoopStep
  BY <1>4, AsideQuiet
<1>5. CASE UNCHANGED vars
  <2>1. UNCHANGED <<store, conf, got, graph>> /\ UNCHANGED <<pc, pairs>> /\ clean' = clean
    BY <1>5 DEF vars, reading
  <2>2. clean' \in BOOLEAN
    BY <2>1 DEF ReadTypes
  <2>3. QED
    BY <2>1, <2>2, StillQuiet
<1>6. QED
  BY <1>1, <1>2, <1>3, <1>4, <1>5 DEF LiveNext, Next, Ended, lvars

LEMMA QuietInit ==
  ASSUME LiveInit
  PROVE  Quiet
<1>1. /\ pc = Begin(conf) /\ got = Fresh /\ graph = Pending /\ conf \in Config
  BY PalaceReadsAssumption DEF LiveInit, Init
<1>2. conf.adapter \in Adapters /\ conf.graph \in BOOLEAN
  BY <1>1 DEF Config
<1>3. /\ pc \in {"ask", "probe", "driver", "count", "graph", "wings", "search", "ents", "tables"}
      /\ pc = "graph" /\ Is("daemon") => conf.graph
      /\ pc = "wings" => ~conf.graph
      /\ pc = "ents" => Is("engram")
  <2>1. CASE pc \in {"ask", "probe", "driver"}
    BY <2>1
  <2>2. CASE pc = FirstRequest(conf)
    <3>1. CASE conf.adapter \in {"mempalace", "server", "engram", "ladybug"}
      BY <2>2, <3>1 DEF FirstRequest, Is
    <3>2. CASE Is("daemon")
      BY <1>2, <2>2, <3>2 DEF FirstRequest, Is
    <3>3. CASE conf.adapter \notin {"mempalace", "server", "engram", "ladybug", "daemon"}
      <4>1. pc = "graph"
        BY <2>2, <3>3 DEF FirstRequest
      <4>2. QED
        BY <3>3, <4>1 DEF Is
    <3>4. QED
      BY <3>1, <3>2, <3>3 DEF Is
  <2>3. QED
    BY <1>1, <2>1, <2>2 DEF Begin
<1>4. PalaceSoFar(pc, got)
  BY <1>3 DEF PalaceSoFar, Is
<1>5. WalkSoFar(pc, got) /\ ServerSoFar(pc, got) /\ LadybugSoFar(pc, got)
  BY <1>3 DEF WalkSoFar, ServerSoFar, LadybugSoFar
<1>6. SoFar(pc, got)
  BY <1>1, <1>4, <1>5 DEF SoFar
<1>7. pc # "done"
  BY <1>3
<1>8. QED
  BY <1>1, <1>3, <1>6, <1>7 DEF Quiet

\* A snapshot read with no write between its requests, none of them failing and no answer cut
\* short, is the graph of the store, however many pages, wings, entities or tables it takes;
\* and the contradictions Category 3 then surfaces in a second read are the seeded ones.
THEOREM QuietReadsHold == LiveSpec => []QuietReadsAreWhole
<1>1. LiveInit => Quiet
  BY QuietInit
<1>2. ReadTypes /\ Placed /\ Quiet /\ [LiveNext]_lvars => Quiet'
  BY QuietStep
<1>3. Quiet => QuietReadsAreWhole
  <2> SUFFICES ASSUME Quiet PROVE QuietReadsAreWhole
    OBVIOUS
  <2>1. clean /\ graph # Pending => graph = GraphOf(store)
    BY DEF Quiet
  <2>2. ASSUME clean, conf.cmd = "cat3", pc = "done", ~Is("engram")
        PROVE  LET s == Score(graph.edges, pairs)
               IN  s.detection[1] = s.detection[2] /\ s.precision[1] = s.precision[2]
    <3>1. Contradictions(graph.edges) \cap pairs = Contradictions(graph.edges)
          /\ pairs = Contradictions(graph.edges)
      BY <2>2 DEF Quiet
    <3>2. QED
      BY <3>1 DEF Score
  <2>3. QED
    BY <2>1, <2>2 DEF QuietReadsAreWhole
<1>4. QED
  BY <1>1, <1>2, <1>3, LiveTypeCorrect, PTL DEF LiveSpec

=============================================================================
