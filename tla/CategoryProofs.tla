--------------------------- MODULE CategoryProofs ---------------------------
(***************************************************************************)
(* Theorems about the categories of src/sme/categories.                    *)
(*                                                                         *)
(* About Supersession (Category 6), for any entities and any number of     *)
(* edges: the stamps of the snapshot and the map of the score are made     *)
(* twice, by two functions, and agree; the walk of _build_chains finds     *)
(* each entity that has a current one, once, and its chains are complete.  *)
(*                                                                         *)
(* About Scorecards (Categories 4, 5, 8 and phantom edges), for any graph  *)
(* an adapter can answer with: what the reports list is so, and their      *)
(* counts agree.                                                           *)
(***************************************************************************)
EXTENDS Supersession, Scorecards, FiniteSetTheorems, WellFoundedInduction, TLAPS

TypesOK == edges \in Seq(Edge) /\ pc \in {"graph", "heads", "walk", "scored"}

(* Only claims of a superseded entity are marked, in every annotation. *)
MarksFollow ==
  \A i \in DOMAIN edges :
    edges[i].mark # 0 => ~edges[i].supersedes /\ edges[i].src \in Superseded

(* After an annotation every claim carries what its source was replaced by. *)
MarksFresh ==
  fresh =>
    \A i \in DOMAIN edges \ Seeded :
      edges[i].mark = IF edges[i].src \in Superseded THEN Replacement(edges[i].src) ELSE 0

(* What the score has read is what the edges say: no edge comes in between. *)
ReadTrue ==
  pc # "graph" => by = [e \in Superseded |-> Replacement(e)]

IInv == TypesOK /\ MarksFollow /\ MarksFresh /\ ReadTrue

-----------------------------------------------------------------------------
LEMMA LargestOf ==
  ASSUME NEW n \in Nat, NEW S \in SUBSET (1..n), S # {}
  PROVE  \E x \in S : \A y \in S : x >= y
<1> DEFINE T == {k \in 0..n : n - k \in S}
           R == OpToRel(<, Nat)
<1>1. T \subseteq Nat /\ T # {}
  <2>1. PICK s \in S : TRUE
    OBVIOUS
  <2>2. n - s \in 0..n /\ n - (n - s) = s
    BY <2>1
  <2>3. n - (n - s) \in S
    BY <2>1, <2>2
  <2>4. n - s \in T
    BY <2>2, <2>3
  <2>5. T \subseteq Nat
    OBVIOUS
  <2>6. QED
    BY <2>4, <2>5
<1>2. PICK k \in T : \A j \in T : ~(<<j, k>> \in R)
  <2> HIDE DEF R, T
  <2>1. IsWellFoundedOn(R, Nat)
    BY NatLessThanWellFounded DEF R
  <2>2. QED
    BY <1>1, <2>1, WFMin
<1>3. \A i, j \in Nat : i < j => <<i, j>> \in R
  BY DEF OpToRel
<1> HIDE DEF R
<1>4. ASSUME NEW s \in S PROVE n - k >= s
  <2>1. n - s \in T
    OBVIOUS
  <2>2. ~(n - s < k)
    BY <1>1, <1>2, <1>3, <2>1
  <2>3. QED
    BY <2>2
<1>5. n - k \in S
  BY <1>2
<1>6. QED
  BY <1>4, <1>5

LEMMA LargestIndex ==
  ASSUME NEW n \in Nat, NEW S \in SUBSET (1..n), S # {}
  PROVE  Max(S) \in S
BY LargestOf DEF Max

LEMMA Edges ==
  ASSUME TypesOK
  PROVE  /\ Len(edges) \in Nat /\ DOMAIN edges = 1..Len(edges)
         /\ \A i \in DOMAIN edges : edges[i] \in Edge
BY DEF TypesOK

\* An entity that was superseded was so by an entity.
LEMMA ReplacementType ==
  ASSUME TypesOK, NEW e \in Superseded
  PROVE  Replacement(e) \in Entities
<1> DEFINE S == {i \in Seeded : edges[i].tgt = e}
<1>1. S \in SUBSET (1..Len(edges)) /\ S # {}
  BY Edges DEF Superseded, Seeded
<1>2. Max(S) \in S
  <2> HIDE DEF S
  <2>1. QED
    BY <1>1, Edges, LargestIndex
<1>3. Max(S) \in DOMAIN edges
  BY <1>2 DEF Seeded
<1>4. edges[Max(S)].src \in Entities
  BY <1>3, Edges DEF Edge
<1>5. QED
  BY <1>4 DEF Replacement

\* The map is made of the edges' ends and kinds only.
LEMMA SameMap ==
  ASSUME TypesOK, DOMAIN edges' = DOMAIN edges,
         \A i \in DOMAIN edges : /\ edges'[i].src = edges[i].src
                                 /\ edges'[i].tgt = edges[i].tgt
                                 /\ edges'[i].supersedes = edges[i].supersedes
  PROVE  /\ Seeded' = Seeded /\ Superseded' = Superseded
         /\ \A e \in Superseded : Replacement(e)' = Replacement(e)
<1>1. Seeded' = Seeded
  BY DEF Seeded
<1>2. Superseded' = Superseded
  BY <1>1 DEF Superseded, Seeded
<1>3. ASSUME NEW e \in Superseded PROVE Replacement(e)' = Replacement(e)
  <2> DEFINE S == {i \in Seeded : edges[i].tgt = e}
  <2>1. S' = S
    BY <1>1 DEF Seeded
  <2>2. S \in SUBSET (1..Len(edges)) /\ S # {}
    BY <1>3, Edges DEF Superseded, Seeded
  <2>3. S \subseteq DOMAIN edges
    BY DEF Seeded
  <2>4. Replacement(e) = edges[Max(S)].src /\ Replacement(e)' = edges'[Max(S')].src
    BY DEF Replacement
  <2> HIDE DEF S
  <2>5. Max(S) \in DOMAIN edges
    BY <2>2, <2>3, Edges, LargestIndex
  <2>6. QED
    BY <2>1, <2>4, <2>5
<1>4. QED
  BY <1>1, <1>2, <1>3

LEMMA Initially == Init => IInv
BY DEF Init, IInv, TypesOK, MarksFollow, MarksFresh, ReadTrue

\* An annotation leaves the ends and kinds alone, and the marks of claims right.
LEMMA AnnotateStep ==
  ASSUME IInv, Annotate
  PROVE  IInv'
<1> USE DEF IInv
<1>1. /\ edges' = [i \in DOMAIN edges |-> Annotated(edges[i])]
      /\ UNCHANGED <<pc, by>>
  BY DEF Annotate
<1>2. ASSUME NEW i \in DOMAIN edges
      PROVE  /\ edges'[i].src = edges[i].src /\ edges'[i].tgt = edges[i].tgt
             /\ edges'[i].supersedes = edges[i].supersedes
             /\ edges'[i].mark = IF edges[i].supersedes \/ edges[i].src \notin Superseded
                                   THEN edges[i].mark ELSE Replacement(edges[i].src)
             /\ edges'[i] \in Edge
  <2> DEFINE e == edges[i]
             m == IF e.supersedes \/ e.src \notin Superseded
                    THEN e.mark ELSE Replacement(e.src)
             s == e.stamped \/ e.supersedes
  <2>1. e \in Edge
    BY Edges
  <2>2. m \in Entities \cup {0} /\ s \in BOOLEAN
    BY <2>1, ReplacementType DEF Edge
  <2>3. edges'[i] = [e EXCEPT !.mark = m, !.stamped = s]
    BY <1>1 DEF Annotated
  <2> HIDE DEF e, m, s
  <2>4. /\ edges'[i].src = e.src /\ edges'[i].tgt = e.tgt
        /\ edges'[i].supersedes = e.supersedes /\ edges'[i].mark = m
        /\ edges'[i] \in Edge
    BY <2>1, <2>2, <2>3 DEF Edge
  <2>5. QED
    BY <2>4 DEF e, m
<1>3. DOMAIN edges' = DOMAIN edges
  BY <1>1
<1>4. TypesOK'
  <2>1. edges' \in Seq(Edge)
    BY <1>1, <1>2, Edges
  <2>2. QED
    BY <1>1, <2>1 DEF TypesOK
<1>5. /\ Seeded' = Seeded /\ Superseded' = Superseded
      /\ \A e \in Superseded : Replacement(e)' = Replacement(e)
  BY <1>2, <1>3, SameMap
<1>6. MarksFollow'
  BY <1>2, <1>3, <1>5 DEF MarksFollow
<1>7. MarksFresh'
  <2> SUFFICES ASSUME NEW i \in DOMAIN edges \ Seeded
               PROVE  edges'[i].mark = IF edges[i].src \in Superseded
                                         THEN Replacement(edges[i].src) ELSE 0
    BY <1>2, <1>3, <1>5 DEF MarksFresh
  <2>1. ~edges[i].supersedes
    BY DEF Seeded
  <2>2. QED
    BY <1>2, <2>1 DEF MarksFollow
<1>8. ReadTrue'
  BY <1>1, <1>5 DEF ReadTrue
<1>9. QED
  BY <1>4, <1>6, <1>7, <1>8

\* A new edge can only add to what is superseded.
LEMMA AddEdgeStep ==
  ASSUME IInv, AddEdge
  PROVE  IInv'
<1> USE DEF IInv
<1>1. PICK s, t \in Entities, sup \in BOOLEAN :
             edges' = Append(edges, [src |-> s, tgt |-> t, supersedes |-> sup,
                                     mark |-> 0, stamped |-> FALSE])
  BY DEF AddEdge
<1> DEFINE e == [src |-> s, tgt |-> t, supersedes |-> sup, mark |-> 0, stamped |-> FALSE]
           n == Len(edges)
<1>2. e \in Edge /\ e.mark = 0
  BY DEF Edge
<1> HIDE DEF e
<1>3. /\ edges' \in Seq(Edge) /\ n \in Nat
      /\ DOMAIN edges = 1..n /\ DOMAIN edges' = 1..(n + 1)
      /\ edges'[n + 1] = e /\ \A i \in 1..n : edges'[i] = edges[i]
  BY <1>1, <1>2 DEF TypesOK, e
<1>4. pc' = "graph" /\ fresh' = FALSE
  BY DEF AddEdge
<1>5. Superseded \subseteq Superseded'
  BY <1>3 DEF Superseded, Seeded
<1>6. MarksFollow'
  <2> SUFFICES ASSUME NEW i \in 1..(n + 1), edges'[i].mark # 0
               PROVE  ~edges'[i].supersedes /\ edges'[i].src \in Superseded'
    BY <1>3 DEF MarksFollow
  <2>1. i \in 1..n /\ edges'[i] = edges[i]
    BY <1>2, <1>3
  <2>2. QED
    BY <1>3, <1>5, <2>1 DEF MarksFollow
<1>7. QED
  BY <1>3, <1>4, <1>6 DEF TypesOK, MarksFresh, ReadTrue

\* The stamps add nothing to the map that score_cat6 builds from the edges.
LEMMA ScoreStep ==
  ASSUME IInv, Score
  PROVE  IInv'
<1> USE DEF IInv
<1>1. /\ UNCHANGED <<edges, fresh>> /\ pc' = "heads"
      /\ by' = [e \in Superseded \cup Marked |->
                  IF e \in Superseded THEN Replacement(e) ELSE MarkOf(e)]
  BY DEF Score
<1>2. Superseded \cup Marked = Superseded
  BY DEF MarksFollow, Marked, Carriers
<1>3. by' = [e \in Superseded |-> Replacement(e)]
  BY <1>1, <1>2
<1>4. /\ Superseded' = Superseded /\ Seeded' = Seeded
      /\ \A e \in Superseded : Replacement(e)' = Replacement(e)
  BY <1>1 DEF Superseded, Seeded, Replacement
<1>5. MarksFollow' /\ MarksFresh'
  BY <1>1, <1>4 DEF MarksFollow, MarksFresh
<1>6. ReadTrue' /\ TypesOK'
  BY <1>1, <1>3, <1>4 DEF ReadTrue, TypesOK
<1>7. QED
  BY <1>5, <1>6

LEMMA OtherStep ==
  ASSUME IInv, TakeHead \/ VisitNode \/ EndChain \/ Report \/ UNCHANGED vars
  PROVE  IInv'
<1>1. /\ UNCHANGED <<edges, fresh, by>>
      /\ \/ pc # "graph" /\ pc' \in {"heads", "walk", "scored"}
         \/ UNCHANGED pc
  BY DEF TakeHead, VisitNode, EndChain, Report, vars, walk
<1>2. /\ Superseded' = Superseded /\ Seeded' = Seeded
      /\ \A e \in Superseded : Replacement(e)' = Replacement(e)
  BY <1>1 DEF Superseded, Seeded, Replacement
<1>3. MarksFollow' /\ MarksFresh'
  BY <1>1, <1>2 DEF IInv, MarksFollow, MarksFresh
<1>4. ReadTrue' /\ TypesOK'
  BY <1>1, <1>2 DEF IInv, ReadTrue, TypesOK
<1>5. QED
  BY <1>3, <1>4 DEF IInv

(***************************************************************************)
(* annotate_superseded_edges and score_cat6 agree: whatever edges a        *)
(* backend added since, and however often the snapshot was annotated, the  *)
(* last annotation marks just the claims the score counts as superseded,   *)
(* with the entity the score replaces their source by.                     *)
(***************************************************************************)
THEOREM StampsAgree == Spec => []MarksAgree
<1>1. IInv /\ [Next]_vars => IInv'
  BY AnnotateStep, AddEdgeStep, ScoreStep, OtherStep DEF Next
<1>2. IInv => MarksAgree
  BY DEF IInv, MarksAgree, MarksFresh, ReadTrue, Seeded
<1>3. QED
  BY Initially, <1>1, <1>2, PTL DEF Spec

-----------------------------------------------------------------------------
(* The walk of _build_chains.                                              *)

(* It goes from an entity that is current to what led to it, ... *)
Walked(c) ==
  /\ c \in Seq(Entities) /\ c # <<>> /\ c[1] \notin DOMAIN by /\ IsInjective(c)
  /\ \A i \in DOMAIN c \ {1} :
       c[i] \in DOMAIN by /\ \E j \in 1..(i - 1) : by[c[i]] = c[j]

(* ... what is to be visited was replaced by what was visited, ... *)
Open ==
  /\ frontier \in Seq(DOMAIN by)
  /\ \A e \in Range(frontier) : by[e] \in Range(chain)

(* ... and all that was replaced by it was visited, or is going to be. *)
Reached ==
  \A e \in DOMAIN by : by[e] \in Range(chain) => e \in Range(chain) \cup Range(frontier)

(* A chain that was built is in order, and misses nothing that leads into it. *)
Complete(c) ==
  /\ c \in Seq(Entities) /\ Len(c) >= 2 /\ OldestFirst(c) /\ IsInjective(c)
  /\ \A i \in 1..(Len(c) - 1) : c[i] \in DOMAIN by
  /\ \A e \in DOMAIN by : by[e] \in Range(c) => e \in Range(c)

Walking ==
  pc = "walk" => /\ Walked(chain) /\ Open /\ Reached
                 /\ chain[1] \in Heads(by) \ heads
                 /\ \A i \in DOMAIN chains : Last(chains[i]) # chain[1]

(* An entity that is current is a head to come, or where the walk began, or the *)
(* last of one chain. *)
HeadsShared ==
  /\ heads \subseteq Heads(by)
  /\ \A i \in DOMAIN chains : Last(chains[i]) \in Heads(by) \ heads
  /\ \A i, j \in DOMAIN chains : Last(chains[i]) = Last(chains[j]) => i = j
  /\ \A h \in Heads(by) : \/ h \in heads
                          \/ pc = "walk" /\ h = chain[1]
                          \/ \E i \in DOMAIN chains : Last(chains[i]) = h

ChainsInv ==
  pc # "graph" =>
    /\ chains \in Seq(Seq(Entities))
    /\ \A i \in DOMAIN chains : Complete(chains[i])
    /\ Walking /\ HeadsShared
    /\ pc = "scored" => heads = {}

\* Sorting loses nothing and adds nothing: the ranks of n numbers are 1 to n.
LEMMA SortedRange ==
  ASSUME NEW S \in SUBSET Nat, IsFiniteSet(S)
  PROVE  Sorted(S) \in Seq(S) /\ Range(Sorted(S)) = S
<1> DEFINE n == Cardinality(S)
           Below(x) == {y \in S : y < x}
           rank == [x \in S |-> Cardinality(Below(x)) + 1]
<1>1. n \in Nat
  BY FS_CardinalityType
<1>2. ASSUME NEW x \in S
      PROVE  /\ IsFiniteSet(Below(x)) /\ Cardinality(Below(x)) \in Nat
             /\ Cardinality(Below(x)) < n
  <2>1. Below(x) \in SUBSET S /\ Below(x) # S
    BY <1>2
  <2> HIDE DEF Below
  <2>2. IsFiniteSet(Below(x)) /\ Cardinality(Below(x)) <= n /\ Cardinality(Below(x)) # n
    BY <2>1, FS_Subset
  <2>3. QED
    BY <1>1, <2>2, FS_CardinalityType
<1>3. ASSUME NEW x \in S, NEW z \in S, x < z
      PROVE  Cardinality(Below(x)) < Cardinality(Below(z))
  <2>1. x \in Nat /\ z \in Nat /\ ~(x < x) /\ \A y \in S : y < x => y < z
    BY <1>3
  <2>2. Below(x) \in SUBSET Below(z) /\ x \in Below(z) /\ x \notin Below(x)
    BY <1>3, <2>1
  <2> HIDE DEF Below
  <2>3. /\ Cardinality(Below(x)) <= Cardinality(Below(z))
        /\ Cardinality(Below(x)) # Cardinality(Below(z))
    BY <1>2, <2>2, FS_Subset
  <2>4. QED
    BY <1>2, <2>3
<1> HIDE DEF Below
<1>4. \A x, z \in S : Cardinality(Below(x)) = Cardinality(Below(z)) => x = z
  <2> SUFFICES ASSUME NEW x \in S, NEW z \in S, x # z
               PROVE  Cardinality(Below(x)) # Cardinality(Below(z))
    OBVIOUS
  <2>1. x < z \/ z < x
    OBVIOUS
  <2>2. QED
    BY <1>2, <1>3, <2>1
<1>5. rank \in [S -> 1..n] /\ \A x \in S : rank[x] = Cardinality(Below(x)) + 1
  BY <1>1, <1>2
<1> HIDE DEF rank
<1>6. rank \in Injection(S, 1..n)
  BY <1>2, <1>4, <1>5 DEF Injection, IsInjective
<1>7. rank \in Surjection(S, 1..n)
  <2>1. IsFiniteSet(1..n) /\ Cardinality(1..n) = n
    BY <1>1, FS_Interval
  <2> HIDE DEF n
  <2>2. QED
    BY <1>6, <2>1, FS_Injection DEF n
<1>8. \A i \in 1..n : \E x \in S : Cardinality(Below(x)) = i - 1
  <2> SUFFICES ASSUME NEW i \in 1..n PROVE \E x \in S : Cardinality(Below(x)) = i - 1
    OBVIOUS
  <2>1. PICK x \in S : rank[x] = i
    BY <1>7 DEF Surjection
  <2>2. QED
    BY <1>2, <1>5, <2>1
<1>9. ASSUME NEW i \in 1..n
      PROVE  Sorted(S)[i] \in S /\ Cardinality(Below(Sorted(S)[i])) = i - 1
  <2>1. Sorted(S)[i] = CHOOSE x \in S : Cardinality(Below(x)) = i - 1
    BY DEF Sorted, Below
  <2>2. QED
    BY <1>8, <2>1
<1>10. DOMAIN Sorted(S) = 1..n /\ Sorted(S) \in Seq(S)
  <2>1. Sorted(S) = [i \in 1..n |-> Sorted(S)[i]]
    BY DEF Sorted
  <2> HIDE DEF n
  <2>2. QED
    BY <1>1, <1>9, <2>1
<1>11. ASSUME NEW x \in S PROVE x \in Range(Sorted(S))
  <2>1. rank[x] \in 1..n
    BY <1>5
  <2> DEFINE z == Sorted(S)[rank[x]]
  <2>2. z \in S /\ Cardinality(Below(z)) = rank[x] - 1
    BY <1>9, <2>1
  <2> HIDE DEF z
  <2>3. rank[x] = Cardinality(Below(x)) + 1 /\ Cardinality(Below(x)) \in Nat
    BY <1>2, <1>5
  <2>4. Cardinality(Below(z)) = Cardinality(Below(x))
    BY <2>2, <2>3
  <2>5. Sorted(S)[rank[x]] = x
    BY <1>4, <2>2, <2>4 DEF z
  <2>6. QED
    BY <1>10, <2>1, <2>5 DEF Range
<1>12. QED
  BY <1>9, <1>10, <1>11 DEF Range

\* The elements of a sequence that is taken from and added to.
LEMMA Elements ==
  ASSUME NEW S, NEW s \in Seq(S)
  PROVE  /\ \A x \in Range(s) : x \in S
         /\ s # <<>> => /\ Head(s) \in S /\ Tail(s) \in Seq(S)
                        /\ Range(s) = {Head(s)} \cup Range(Tail(s))
<1>1. \A x \in Range(s) : x \in S
  BY DEF Range
<1>2. ASSUME s # <<>>
      PROVE  /\ Head(s) \in S /\ Tail(s) \in Seq(S)
             /\ Range(s) = {Head(s)} \cup Range(Tail(s))
  <2>1. /\ Head(s) = s[1] /\ Head(s) \in S /\ Tail(s) \in Seq(S)
        /\ Len(s) \in Nat \ {0} /\ DOMAIN s = 1..Len(s)
        /\ DOMAIN Tail(s) = 1..(Len(s) - 1)
        /\ \A i \in 1..(Len(s) - 1) : Tail(s)[i] = s[i + 1]
    BY <1>2
  <2>2. Range(Tail(s)) \subseteq Range(s) /\ Head(s) \in Range(s)
    BY <2>1 DEF Range
  <2>3. ASSUME NEW i \in DOMAIN s PROVE s[i] \in {Head(s)} \cup Range(Tail(s))
    <3>1. CASE i = 1
      BY <2>1, <3>1
    <3>2. CASE i # 1
      <4>1. i - 1 \in 1..(Len(s) - 1) /\ (i - 1) + 1 = i
        BY <2>1, <3>2
      <4>2. Tail(s)[i - 1] = s[i]
        BY <2>1, <4>1
      <4>3. QED
        BY <2>1, <4>1, <4>2 DEF Range
    <3>3. QED
      BY <3>1, <3>2
  <2>4. QED
    BY <2>1, <2>2, <2>3 DEF Range
<1>3. QED
  BY <1>1, <1>2

LEMMA JoinedElements ==
  ASSUME NEW S, NEW s \in Seq(S), NEW t \in Seq(S)
  PROVE  s \o t \in Seq(S) /\ Range(s \o t) = Range(s) \cup Range(t)
<1>1. /\ Len(s) \in Nat /\ Len(t) \in Nat
      /\ DOMAIN s = 1..Len(s) /\ DOMAIN t = 1..Len(t)
      /\ s \o t \in Seq(S) /\ DOMAIN (s \o t) = 1..(Len(s) + Len(t))
      /\ \A i \in 1..(Len(s) + Len(t)) :
           (s \o t)[i] = IF i <= Len(s) THEN s[i] ELSE t[i - Len(s)]
  OBVIOUS
<1>2. Range(s \o t) \subseteq Range(s) \cup Range(t)
  <2> SUFFICES ASSUME NEW i \in 1..(Len(s) + Len(t))
               PROVE  (s \o t)[i] \in Range(s) \cup Range(t)
    BY <1>1 DEF Range
  <2>1. CASE i <= Len(s)
    BY <1>1, <2>1 DEF Range
  <2>2. CASE ~(i <= Len(s))
    <3>1. i - Len(s) \in DOMAIN t /\ (s \o t)[i] = t[i - Len(s)]
      BY <1>1, <2>2
    <3>2. QED
      BY <3>1 DEF Range
  <2>3. QED
    BY <2>1, <2>2
<1>3. Range(s) \subseteq Range(s \o t)
  BY <1>1 DEF Range
<1>4. ASSUME NEW i \in DOMAIN t PROVE t[i] \in Range(s \o t)
  <2>1. /\ Len(s) + i \in 1..(Len(s) + Len(t)) /\ ~(Len(s) + i <= Len(s))
        /\ (Len(s) + i) - Len(s) = i
    BY <1>1
  <2>2. (s \o t)[Len(s) + i] = t[i]
    BY <1>1, <2>1
  <2>3. QED
    BY <1>1, <2>1, <2>2 DEF Range
<1>5. QED
  BY <1>1, <1>2, <1>3, <1>4 DEF Range

LEMMA AddedElement ==
  ASSUME NEW S, NEW s \in Seq(S), NEW e \in S
  PROVE  /\ Append(s, e) \in Seq(S) /\ Len(s) \in Nat /\ DOMAIN s = 1..Len(s)
         /\ Len(Append(s, e)) = Len(s) + 1 /\ DOMAIN Append(s, e) = 1..(Len(s) + 1)
         /\ \A i \in DOMAIN s : Append(s, e)[i] = s[i]
         /\ Append(s, e)[Len(s) + 1] = e
         /\ Range(Append(s, e)) = Range(s) \cup {e}
<1>1. /\ Append(s, e) \in Seq(S) /\ Len(s) \in Nat /\ DOMAIN s = 1..Len(s)
      /\ Len(Append(s, e)) = Len(s) + 1 /\ DOMAIN Append(s, e) = 1..(Len(s) + 1)
      /\ \A i \in DOMAIN s : Append(s, e)[i] = s[i]
      /\ Append(s, e)[Len(s) + 1] = e
  OBVIOUS
<1>2. Range(Append(s, e)) = Range(s) \cup {e}
  <2> DEFINE a == Append(s, e)
  <2> HIDE DEF a
  <2>1. /\ DOMAIN a = DOMAIN s \cup {Len(s) + 1} /\ \A i \in DOMAIN s : a[i] = s[i]
        /\ a[Len(s) + 1] = e
    BY <1>1 DEF a
  <2>2. QED
    BY <2>1 DEF Range, a
<1>3. QED
  BY <1>1, <1>2

LEMMA MapTypes ==
  ASSUME IInv, pc # "graph"
  PROVE  /\ IsFiniteSet(DOMAIN by) /\ DOMAIN by \subseteq Entities
         /\ \A e \in DOMAIN by : by[e] \in Entities
<1> USE DEF IInv
<1>1. DOMAIN by = Superseded /\ \A e \in Superseded : by[e] = Replacement(e)
  BY DEF ReadTrue
<1>2. Superseded \subseteq Entities
  BY Edges DEF Superseded, Seeded, Edge
<1>3. IsFiniteSet(Superseded)
  <2> DEFINE f == [i \in Seeded |-> edges[i].tgt]
  <2>1. Seeded \in SUBSET (1..Len(edges)) /\ IsFiniteSet(1..Len(edges))
    BY Edges, FS_Interval DEF Seeded
  <2>2. IsFiniteSet(Seeded)
    BY <2>1, FS_Subset
  <2>3. f \in Surjection(Seeded, Superseded)
    BY DEF Surjection, Superseded
  <2>4. QED
    BY <2>2, <2>3, FS_Surjection
<1>4. QED
  BY <1>1, <1>2, <1>3, ReplacementType

LEMMA SameBy ==
  ASSUME by' = by
  PROVE  /\ Heads(by)' = Heads(by)
         /\ \A c : Walked(c)' <=> Walked(c)
         /\ \A c : Complete(c)' <=> Complete(c)
<1>1. \A c : OldestFirst(c)' <=> OldestFirst(c)
  BY DEF OldestFirst
<1>2. QED
  BY <1>1 DEF Heads, Walked, Complete

\* The entities that e replaced are to be visited next.
LEMMA ReplacedTypes ==
  ASSUME IInv, pc # "graph", NEW e
  PROVE  /\ Replaced(e) \in Seq(DOMAIN by)
         /\ \A x : x \in Range(Replaced(e)) <=> x \in DOMAIN by /\ by[x] = e
<1> DEFINE S == {x \in DOMAIN by : by[x] = e}
<1>1. S \in SUBSET Nat /\ IsFiniteSet(S) /\ S \subseteq DOMAIN by
  <2>1. DOMAIN by \subseteq Nat /\ IsFiniteSet(DOMAIN by)
    BY MapTypes, SupersessionAssumption
  <2>2. S \in SUBSET DOMAIN by
    OBVIOUS
  <2> HIDE DEF S
  <2>3. QED
    BY <2>1, <2>2, FS_Subset
<1>2. Replaced(e) = Sorted(S)
  BY DEF Replaced
<1>3. \A x : x \in S <=> x \in DOMAIN by /\ by[x] = e
  OBVIOUS
<1> HIDE DEF S
<1>4. Replaced(e) \in Seq(S) /\ Range(Replaced(e)) = S
  BY <1>1, <1>2, SortedRange
<1>5. Replaced(e) \in Seq(DOMAIN by)
  <2> DEFINE r == Replaced(e)
             D == DOMAIN by
  <2>1. r \in Seq(S) /\ S \subseteq D
    BY <1>1, <1>4
  <2> HIDE DEF r, D
  <2>2. Len(r) \in Nat /\ r = [i \in 1..Len(r) |-> r[i]] /\ \A i \in 1..Len(r) : r[i] \in D
    BY <2>1
  <2>3. r \in Seq(D)
    BY <2>2
  <2>4. QED
    BY <2>3 DEF r, D
<1>6. QED
  BY <1>3, <1>4, <1>5

-----------------------------------------------------------------------------
LEMMA TakeHeadChains ==
  ASSUME IInv, ChainsInv, TakeHead
  PROVE  ChainsInv'
<1>1. PICK h \in heads : /\ heads' = heads \ {h} /\ chain' = <<h>>
                         /\ frontier' = Replaced(h)
  BY DEF TakeHead
<1>2. pc = "heads" /\ pc' = "walk" /\ by' = by /\ chains' = chains
  BY DEF TakeHead
<1>3. /\ Heads(by)' = Heads(by)
      /\ \A c : Walked(c)' <=> Walked(c)
      /\ \A c : Complete(c)' <=> Complete(c)
  BY <1>2, SameBy
<1>4. /\ chains \in Seq(Seq(Entities)) /\ HeadsShared
      /\ \A i \in DOMAIN chains : Complete(chains[i])
  BY <1>2 DEF ChainsInv
<1>5. h \in Heads(by) /\ h \in Entities /\ h \notin DOMAIN by
  BY <1>2, <1>4, MapTypes DEF HeadsShared, Heads
<1>6. DOMAIN <<h>> = {1} /\ <<h>>[1] = h /\ Range(<<h>>) = {h} /\ <<h>> \in Seq(Entities)
  BY <1>5 DEF Range
<1>7. Walked(<<h>>)
  BY <1>5, <1>6 DEF Walked, IsInjective
<1>8. /\ Replaced(h) \in Seq(DOMAIN by)
      /\ \A x : x \in Range(Replaced(h)) <=> x \in DOMAIN by /\ by[x] = h
  BY <1>2, ReplacedTypes
<1>9. Walking'
  <2>1. Walked(chain)'
    BY <1>1, <1>2, <1>7 DEF Walked
  <2>2. Open' /\ Reached'
    BY <1>1, <1>2, <1>6, <1>8 DEF Open, Reached
  <2>3. /\ chain'[1] \in Heads(by)' \ heads'
        /\ \A i \in DOMAIN chains' : Last(chains'[i]) # chain'[1]
    BY <1>1, <1>2, <1>3, <1>4, <1>5 DEF HeadsShared
  <2>4. QED
    BY <2>1, <2>2, <2>3 DEF Walking
<1>10. HeadsShared'
  BY <1>1, <1>2, <1>3, <1>4 DEF HeadsShared
<1>11. QED
  BY <1>2, <1>3, <1>4, <1>9, <1>10 DEF ChainsInv

\* A node already in the chain would be dropped; another joins it, and what it
\* replaced is to be visited.
LEMMA VisitNodeChains ==
  ASSUME IInv, ChainsInv, VisitNode
  PROVE  ChainsInv'
<1> DEFINE node == Head(frontier)
<1>1. /\ pc = "walk" /\ pc' = "walk" /\ by' = by /\ chains' = chains /\ heads' = heads
      /\ frontier # <<>>
  BY DEF VisitNode
<1>2. /\ Heads(by)' = Heads(by)
      /\ \A c : Walked(c)' <=> Walked(c)
      /\ \A c : Complete(c)' <=> Complete(c)
  BY <1>1, SameBy
<1>3. /\ chains \in Seq(Seq(Entities)) /\ HeadsShared
      /\ \A i \in DOMAIN chains : Complete(chains[i])
      /\ Walked(chain) /\ Open /\ Reached
      /\ chain[1] \in Heads(by) \ heads
      /\ \A i \in DOMAIN chains : Last(chains[i]) # chain[1]
  BY <1>1 DEF ChainsInv, Walking
<1>4. /\ node \in DOMAIN by /\ Tail(frontier) \in Seq(DOMAIN by)
      /\ Range(frontier) = {node} \cup Range(Tail(frontier))
  BY <1>1, <1>3, Elements DEF Open
<1>5. /\ node \in Entities /\ by[node] \in Range(chain)
  BY <1>1, <1>3, <1>4, MapTypes DEF Open
<1> HIDE DEF node
<1>6. /\ chain \in Seq(Entities) /\ Len(chain) \in Nat /\ Len(chain) > 0
      /\ DOMAIN chain = 1..Len(chain)
  BY <1>3 DEF Walked
<1>7. Walked(chain)' /\ Open' /\ Reached' /\ chain'[1] = chain[1]
  <2>1. CASE node \in Range(chain)
    <3>1. chain' = chain /\ frontier' = Tail(frontier)
      BY <2>1 DEF VisitNode, node
    <3>2. Walked(chain)'
      BY <1>1, <1>3, <3>1 DEF Walked
    <3>3. Open' /\ Reached'
      BY <1>1, <1>3, <1>4, <2>1, <3>1 DEF Open, Reached
    <3>4. QED
      BY <3>1, <3>2, <3>3
  <2>2. CASE node \notin Range(chain)
    <3> DEFINE c == Append(chain, node)
               f == Replaced(node) \o Tail(frontier)
    <3>1. chain' = c /\ frontier' = f
      BY <2>2 DEF VisitNode, node
    <3>2. /\ c \in Seq(Entities) /\ DOMAIN c = 1..(Len(chain) + 1)
          /\ \A i \in DOMAIN chain : c[i] = chain[i]
          /\ c[Len(chain) + 1] = node
          /\ Range(c) = Range(chain) \cup {node}
      BY <1>5, <1>6, AddedElement
    <3>3. /\ Replaced(node) \in Seq(DOMAIN by)
          /\ \A x : x \in Range(Replaced(node)) <=> x \in DOMAIN by /\ by[x] = node
      BY <1>1, ReplacedTypes
    <3> HIDE DEF c, f
    <3>4. f \in Seq(DOMAIN by) /\ Range(f) = Range(Replaced(node)) \cup Range(Tail(frontier))
      <4> DEFINE s == Replaced(node)
                 t == Tail(frontier)
      <4>1. s \in Seq(DOMAIN by) /\ t \in Seq(DOMAIN by) /\ f = s \o t
        BY <1>4, <3>3 DEF f
      <4> HIDE DEF s, t
      <4>2. f \in Seq(DOMAIN by) /\ Range(f) = Range(s) \cup Range(t)
        BY <4>1, JoinedElements
      <4>3. QED
        BY <4>2 DEF s, t
    <3>5. Walked(c)
      <4>1. c # <<>> /\ c[1] \notin DOMAIN by
        <5>1. 1 \in DOMAIN chain /\ 1 \in DOMAIN c
          BY <1>6, <3>2
        <5>2. c[1] = chain[1] /\ chain[1] \notin DOMAIN by
          BY <1>3, <3>2, <5>1 DEF Walked
        <5>3. DOMAIN c # {}
          BY <5>1
        <5>4. QED
          BY <5>2, <5>3
      <4>2. IsInjective(c)
        <5> SUFFICES ASSUME NEW i \in DOMAIN c, NEW j \in DOMAIN c, c[i] = c[j]
                     PROVE  i = j
          BY DEF IsInjective
        <5>1. \A k \in DOMAIN chain : c[k] \in Range(chain) /\ c[k] # node
          BY <2>2, <3>2 DEF Range
        <5>2. CASE i \in DOMAIN chain /\ j \in DOMAIN chain
          BY <1>3, <3>2, <5>2 DEF Walked, IsInjective
        <5>3. CASE i \notin DOMAIN chain \/ j \notin DOMAIN chain
          BY <1>6, <3>2, <5>1, <5>3
        <5>4. QED
          BY <5>2, <5>3
      <4>3. ASSUME NEW i \in DOMAIN c \ {1}
            PROVE  c[i] \in DOMAIN by /\ \E j \in 1..(i - 1) : by[c[i]] = c[j]
        <5>1. CASE i \in DOMAIN chain
          <6>1. c[i] = chain[i] /\ 1..(i - 1) \subseteq DOMAIN chain
            BY <1>6, <3>2, <5>1
          <6>2. c[i] \in DOMAIN by /\ \E j \in 1..(i - 1) : by[c[i]] = chain[j]
            BY <1>3, <5>1, <6>1 DEF Walked
          <6>3. QED
            BY <3>2, <6>1, <6>2
        <5>2. CASE i \notin DOMAIN chain
          <6>1. i = Len(chain) + 1 /\ 1..(i - 1) = DOMAIN chain /\ c[i] = node
            BY <1>6, <3>2, <5>2
          <6>2. PICK j \in DOMAIN chain : by[node] = chain[j]
            BY <1>5 DEF Range
          <6>3. QED
            BY <1>4, <3>2, <6>1, <6>2
        <5>3. QED
          BY <5>1, <5>2
      <4>4. QED
        BY <3>2, <4>1, <4>2, <4>3 DEF Walked
    <3>6. Walked(chain)'
      BY <1>1, <3>1, <3>5 DEF Walked
    <3>7. Open'
      BY <1>1, <1>3, <1>4, <3>1, <3>2, <3>3, <3>4 DEF Open
    <3>8. Reached'
      BY <1>1, <1>3, <1>4, <3>1, <3>2, <3>3, <3>4 DEF Reached
    <3>9. chain'[1] = chain[1]
      BY <1>6, <3>1, <3>2
    <3>10. QED
      BY <3>6, <3>7, <3>8, <3>9
  <2>3. QED
    BY <2>1, <2>2
<1>8. Walking'
  BY <1>1, <1>2, <1>3, <1>7 DEF Walking
<1>9. HeadsShared'
  BY <1>1, <1>2, <1>3, <1>7 DEF HeadsShared
<1>10. QED
  BY <1>1, <1>2, <1>3, <1>8, <1>9 DEF ChainsInv

\* A walk that has nothing left to visit, read backwards, is a chain.
LEMMA ReverseWhole ==
  ASSUME NEW c, Walked(c), \E e \in DOMAIN by : by[e] = c[1],
         \A e \in DOMAIN by : by[e] \in Range(c) => e \in Range(c)
  PROVE  Len(c) >= 2 /\ Complete(Reverse(c)) /\ Last(Reverse(c)) = c[1]
<1> DEFINE n == Len(c)
           r == Reverse(c)
<1>1. /\ c \in Seq(Entities) /\ n \in Nat \ {0} /\ DOMAIN c = 1..n
      /\ c[1] \notin DOMAIN by
      /\ \A i \in 2..n : c[i] \in DOMAIN by /\ \E j \in 1..(i - 1) : by[c[i]] = c[j]
  BY DEF Walked
<1>2. \A i, j \in DOMAIN c : c[i] = c[j] => i = j
  BY DEF Walked, IsInjective
<1>3. n >= 2
  <2>1. PICK e \in DOMAIN by : by[e] = c[1]
    OBVIOUS
  <2>2. c[1] \in Range(c)
    BY <1>1 DEF Range
  <2>3. PICK i \in DOMAIN c : c[i] = e
    BY <2>1, <2>2 DEF Range
  <2>4. i # 1
    BY <1>1, <2>1, <2>3
  <2>5. QED
    BY <1>1, <2>3, <2>4
<1>4. /\ r = [i \in 1..n |-> c[(n - i) + 1]]
  BY DEF Reverse
<1>5. /\ r \in Seq(Entities) /\ Len(r) = n /\ DOMAIN r = 1..n
      /\ \A i \in 1..n : r[i] = c[(n - i) + 1] /\ (n - i) + 1 \in 1..n
  <2> HIDE DEF n, r
  <2>1. \A i \in 1..n : (n - i) + 1 \in 1..n /\ c[(n - i) + 1] \in Entities
    BY <1>1
  <2>2. DOMAIN r = 1..n /\ \A i \in 1..n : r[i] = c[(n - i) + 1]
    BY <1>4
  <2>3. r \in [1..n -> Entities]
    BY <1>4, <2>1
  <2>4. r \in Seq(Entities) /\ Len(r) = n
    BY <1>1, <2>2, <2>3
  <2>5. QED
    BY <2>1, <2>2, <2>4
<1> HIDE DEF n, r
<1>6. \A i \in 1..n : c[i] = r[(n - i) + 1] /\ (n - i) + 1 \in 1..n
  <2> SUFFICES ASSUME NEW i \in 1..n
               PROVE  c[i] = r[(n - i) + 1] /\ (n - i) + 1 \in 1..n
    OBVIOUS
  <2>1. (n - i) + 1 \in 1..n /\ (n - ((n - i) + 1)) + 1 = i
    BY <1>1
  <2>2. QED
    BY <1>5, <2>1
<1>7. Last(r) = c[1]
  <2>1. n \in 1..n /\ (n - n) + 1 = 1
    BY <1>1
  <2>2. r[n] = c[1]
    BY <1>5, <2>1
  <2>3. QED
    BY <1>5, <2>2 DEF Last
<1>8. Range(r) = Range(c)
  <2>1. \A i \in 1..n : \E j \in 1..n : r[i] = c[j]
    BY <1>5
  <2>2. \A i \in 1..n : \E j \in 1..n : c[i] = r[j]
    BY <1>6
  <2>3. Range(r) = {r[i] : i \in 1..n} /\ Range(c) = {c[i] : i \in 1..n}
    BY <1>1, <1>5 DEF Range
  <2>4. QED
    BY <2>1, <2>2, <2>3
<1>9. OldestFirst(r) /\ \A i \in 1..(Len(r) - 1) : r[i] \in DOMAIN by
  <2>1. ASSUME NEW i \in 1..(n - 1)
        PROVE  r[i] \in DOMAIN by /\ \E j \in (i + 1)..n : by[r[i]] = r[j]
    <3>1. /\ i \in 1..n /\ (n - i) + 1 \in 2..n /\ r[i] = c[(n - i) + 1]
      BY <1>1, <1>5
    <3>2. PICK k \in 1..(((n - i) + 1) - 1) : by[c[(n - i) + 1]] = c[k]
      BY <1>1, <3>1
    <3>3. k \in 1..n /\ (n - k) + 1 \in (i + 1)..n
      BY <1>1, <3>1, <3>2
    <3>4. c[k] = r[(n - k) + 1]
      BY <1>6, <3>3
    <3>5. QED
      BY <1>1, <3>1, <3>2, <3>3, <3>4
  <2>2. QED
    BY <1>1, <1>5, <1>7, <2>1 DEF OldestFirst
<1>10. IsInjective(r)
  <2> SUFFICES ASSUME NEW i \in 1..n, NEW j \in 1..n, r[i] = r[j]
               PROVE  i = j
    BY <1>5 DEF IsInjective
  <2> DEFINE a == (n - i) + 1
             b == (n - j) + 1
  <2>1. a \in DOMAIN c /\ b \in DOMAIN c /\ c[a] = c[b]
    BY <1>1, <1>5
  <2> HIDE DEF a, b
  <2>2. a = b
    BY <1>2, <2>1
  <2>3. QED
    BY <1>1, <2>2 DEF a, b
<1>11. Complete(r)
  BY <1>3, <1>5, <1>8, <1>9, <1>10 DEF Complete
<1>12. QED
  BY <1>3, <1>7, <1>11 DEF n, r

LEMMA EndChainChains ==
  ASSUME IInv, ChainsInv, EndChain
  PROVE  ChainsInv'
<1> DEFINE r == Reverse(chain)
<1>1. /\ pc = "walk" /\ pc' = "heads" /\ by' = by /\ heads' = heads /\ frontier = <<>>
      /\ chains' = IF Len(chain) >= 2 THEN Append(chains, r) ELSE chains
  BY DEF EndChain
<1>2. /\ Heads(by)' = Heads(by)
      /\ \A c : Complete(c)' <=> Complete(c)
  BY <1>1, SameBy
<1>3. /\ chains \in Seq(Seq(Entities)) /\ HeadsShared
      /\ \A i \in DOMAIN chains : Complete(chains[i])
      /\ Walked(chain) /\ Reached
      /\ chain[1] \in Heads(by) \ heads
      /\ \A i \in DOMAIN chains : Last(chains[i]) # chain[1]
  BY <1>1 DEF ChainsInv, Walking
<1>4. \A e \in DOMAIN by : by[e] \in Range(chain) => e \in Range(chain)
  BY <1>1, <1>3 DEF Reached, Range
<1>5. \E e \in DOMAIN by : by[e] = chain[1]
  BY <1>3 DEF Heads
<1>6. Len(chain) >= 2 /\ Complete(r) /\ Last(r) = chain[1]
  BY <1>3, <1>4, <1>5, ReverseWhole
<1>7. r \in Seq(Entities)
  BY <1>6 DEF Complete
<1> HIDE DEF r
<1>8. /\ chains' \in Seq(Seq(Entities)) /\ Len(chains) \in Nat
      /\ DOMAIN chains = 1..Len(chains) /\ DOMAIN chains' = 1..(Len(chains) + 1)
      /\ \A i \in DOMAIN chains : chains'[i] = chains[i]
      /\ chains'[Len(chains) + 1] = r
  BY <1>1, <1>3, <1>6, <1>7, AddedElement
<1>9. /\ DOMAIN chains' = DOMAIN chains \cup {Len(chains) + 1}
      /\ Len(chains) + 1 \notin DOMAIN chains
  BY <1>8
<1>10. \A i \in DOMAIN chains' : Complete(chains'[i])
  BY <1>3, <1>6, <1>8, <1>9
<1>11. HeadsShared'
  <2>1. heads' \subseteq Heads(by)'
    BY <1>1, <1>2, <1>3 DEF HeadsShared
  <2>2. \A i \in DOMAIN chains' : Last(chains'[i]) \in Heads(by)' \ heads'
    BY <1>1, <1>2, <1>3, <1>6, <1>8, <1>9 DEF HeadsShared
  <2>3. \A i, j \in DOMAIN chains' : Last(chains'[i]) = Last(chains'[j]) => i = j
    BY <1>3, <1>6, <1>8, <1>9 DEF HeadsShared
  <2>4. ASSUME NEW h \in Heads(by)
        PROVE  h \in heads' \/ \E i \in DOMAIN chains' : Last(chains'[i]) = h
    <3>1. CASE h = chain[1]
      BY <1>6, <1>8, <1>9, <3>1
    <3>2. CASE h # chain[1]
      BY <1>1, <1>3, <1>8, <1>9, <3>2 DEF HeadsShared
    <3>3. QED
      BY <3>1, <3>2
  <2>5. QED
    BY <1>2, <2>1, <2>2, <2>3, <2>4 DEF HeadsShared
<1>12. QED
  BY <1>1, <1>2, <1>8, <1>10, <1>11 DEF ChainsInv, Walking

LEMMA OtherChains ==
  ASSUME IInv, ChainsInv, AddEdge \/ Annotate \/ Score \/ Report \/ UNCHANGED vars
  PROVE  ChainsInv'
<1>1. CASE AddEdge
  BY <1>1 DEF AddEdge, ChainsInv
<1>2. CASE Score
  <2>1. pc' = "heads" /\ chains' = <<>> /\ heads' = Heads(by')
    BY <1>2 DEF Score
  <2>2. Heads(by)' = Heads(by')
    BY DEF Heads
  <2>3. DOMAIN chains' = {} /\ chains' \in Seq(Seq(Entities))
    BY <2>1
  <2>4. HeadsShared'
    BY <2>1, <2>2, <2>3 DEF HeadsShared
  <2>5. QED
    BY <2>1, <2>3, <2>4 DEF ChainsInv, Walking
<1>3. CASE Annotate \/ Report \/ UNCHANGED vars
  <2>1. /\ UNCHANGED <<by, walk>>
        /\ \/ pc = "heads" /\ heads = {} /\ pc' = "scored"
           \/ UNCHANGED pc
    BY <1>3 DEF Annotate, Report, vars
  <2>2. /\ Heads(by)' = Heads(by)
        /\ \A c : Walked(c)' <=> Walked(c)
        /\ \A c : Complete(c)' <=> Complete(c)
    BY <2>1, SameBy
  <2> SUFFICES ASSUME pc' # "graph" PROVE ChainsInv'
    BY DEF ChainsInv
  <2>3. /\ chains \in Seq(Seq(Entities)) /\ Walking /\ HeadsShared
        /\ \A i \in DOMAIN chains : Complete(chains[i])
        /\ pc' = "scored" => heads = {}
    BY <2>1 DEF ChainsInv
  <2>4. Walking'
    <3> SUFFICES ASSUME pc' = "walk" PROVE Walking'
      BY DEF Walking
    <3>1. pc = "walk"
      BY <2>1
    <3>2. Walked(chain)' /\ Open' /\ Reached'
      BY <2>1, <2>3, <3>1 DEF Walking, Walked, Open, Reached, walk
    <3>3. /\ chain'[1] \in Heads(by)' \ heads'
          /\ \A i \in DOMAIN chains' : Last(chains'[i]) # chain'[1]
      BY <2>1, <2>2, <2>3, <3>1 DEF Walking, walk
    <3>4. QED
      BY <3>2, <3>3 DEF Walking
  <2>5. HeadsShared'
    BY <2>1, <2>2, <2>3 DEF HeadsShared, walk
  <2>6. QED
    BY <2>1, <2>2, <2>3, <2>4, <2>5 DEF ChainsInv, walk
<1>4. QED
  BY <1>1, <1>2, <1>3

-----------------------------------------------------------------------------
\* Within a chain replacements stay in it, and only the last is current.
LEMMA WholeClosed ==
  ASSUME NEW c, Complete(c)
  PROVE  /\ \A e \in Range(c) : IF e \in DOMAIN by THEN by[e] \in Range(c) ELSE e = Last(c)
         /\ Last(c) \in Range(c) /\ Last(c) \notin DOMAIN by
         /\ \E e \in Range(c) : e \in DOMAIN by /\ by[e] = Last(c)
<1>1. /\ Len(c) \in Nat /\ Len(c) >= 2 /\ DOMAIN c = 1..Len(c)
      /\ \A i \in 1..(Len(c) - 1) : c[i] \in DOMAIN by
      /\ \A i \in 1..(Len(c) - 1) : \E j \in (i + 1)..Len(c) : by[c[i]] = c[j]
      /\ Last(c) = c[Len(c)] /\ Last(c) \notin DOMAIN by
  BY DEF Complete, OldestFirst, Last
<1>2. ASSUME NEW i \in DOMAIN c
      PROVE  IF c[i] \in DOMAIN by THEN by[c[i]] \in Range(c) ELSE c[i] = Last(c)
  <2>1. CASE i = Len(c)
    BY <1>1, <2>1
  <2>2. CASE i # Len(c)
    <3>1. i \in 1..(Len(c) - 1)
      BY <1>1, <2>2
    <3>2. PICK j \in (i + 1)..Len(c) : by[c[i]] = c[j]
      BY <1>1, <3>1
    <3>3. j \in DOMAIN c
      BY <1>1, <3>1
    <3>4. QED
      BY <1>1, <3>1, <3>2, <3>3 DEF Range
  <2>3. QED
    BY <2>1, <2>2
<1>3. \A e \in Range(c) : IF e \in DOMAIN by THEN by[e] \in Range(c) ELSE e = Last(c)
  BY <1>2 DEF Range
<1>4. Last(c) \in Range(c)
  BY <1>1 DEF Range
<1>5. \E e \in Range(c) : e \in DOMAIN by /\ by[e] = Last(c)
  <2> DEFINE i == Len(c) - 1
  <2>1. i \in 1..(Len(c) - 1) /\ (i + 1)..Len(c) = {Len(c)} /\ i \in DOMAIN c
    BY <1>1
  <2>2. c[i] \in DOMAIN by /\ by[c[i]] = Last(c)
    BY <1>1, <2>1
  <2>3. QED
    BY <2>1, <2>2 DEF Range
<1>6. QED
  BY <1>1, <1>3, <1>4, <1>5

\* What meets a chain, and holds the replacements of what it shares with it, holds
\* its last entity.
LEMMA MeetsAtEnd ==
  ASSUME NEW c, Complete(c), NEW X, X \cap Range(c) # {},
         \A e \in X \cap Range(c) : e \in DOMAIN by => by[e] \in X
  PROVE  Last(c) \in X
<1> DEFINE n == Len(c)
           S == {i \in 1..n : c[i] \in X}
<1>1. /\ n \in Nat /\ n >= 2 /\ DOMAIN c = 1..n /\ Last(c) = c[n]
      /\ \A i \in 1..(n - 1) : c[i] \in DOMAIN by
      /\ \A i \in 1..(n - 1) : \E j \in (i + 1)..n : by[c[i]] = c[j]
  BY DEF Complete, OldestFirst, Last
<1> HIDE DEF n
<1>2. S \in SUBSET (1..n) /\ S # {}
  BY <1>1 DEF Range
<1>3. PICK m \in S : \A i \in S : i <= m
  <2> HIDE DEF S
  <2>1. QED
    BY <1>1, <1>2, LargestOf
<1>4. CASE m = n
  BY <1>1, <1>3, <1>4
<1>5. CASE m # n
  <2>1. m \in 1..(n - 1) /\ c[m] \in X
    BY <1>1, <1>3, <1>5
  <2>2. c[m] \in X \cap Range(c) /\ c[m] \in DOMAIN by
    BY <1>1, <2>1 DEF Range
  <2>3. PICK j \in (m + 1)..n : by[c[m]] = c[j]
    BY <1>1, <2>1
  <2>4. j \in S
    BY <1>1, <2>1, <2>2, <2>3
  <2>5. QED
    BY <1>1, <1>3, <2>1, <2>3, <2>4
<1>6. QED
  BY <1>4, <1>5

LEMMA ChainsAreComplete ==
  ASSUME IInv, ChainsInv
  PROVE  ChainsComplete
<1> SUFFICES ASSUME pc = "scored" PROVE ChainsComplete
  BY DEF ChainsComplete
<1> DEFINE D == DOMAIN by
           U == UNION {Range(c) : c \in Range(chains)}
           ended == D \ Circular
<1>1. /\ \A i \in DOMAIN chains : Complete(chains[i])
      /\ \A i \in DOMAIN chains : Last(chains[i]) \in Heads(by)
      /\ \A i, j \in DOMAIN chains : Last(chains[i]) = Last(chains[j]) => i = j
      /\ \A h \in Heads(by) : \E i \in DOMAIN chains : Last(chains[i]) = h
  BY DEF ChainsInv, HeadsShared
<1>2. \A c \in Range(chains) : Complete(c)
  BY <1>1 DEF Range
<1>3. \A e : e \in U <=> \E c \in Range(chains) : e \in Range(c)
  OBVIOUS
<1>4. ASSUME NEW e \in D PROVE e \in U <=> by[e] \in U
  <2>1. e \in U => by[e] \in U
    BY <1>2, <1>3, WholeClosed
  <2>2. by[e] \in U => e \in U
    BY <1>2, <1>3 DEF Complete
  <2>3. QED
    BY <2>1, <2>2
<1>5. \A i, j \in DOMAIN chains : Range(chains[i]) \cap Range(chains[j]) # {} => i = j
  <2> SUFFICES ASSUME NEW i \in DOMAIN chains, NEW j \in DOMAIN chains,
                      Range(chains[i]) \cap Range(chains[j]) # {}
               PROVE  Last(chains[i]) = Last(chains[j])
    BY <1>1
  <2> DEFINE X == Range(chains[j])
  <2>1. Complete(chains[i]) /\ Complete(chains[j])
    BY <1>1
  <2>2. \A e \in X \cap Range(chains[i]) : e \in D => by[e] \in X
    BY <2>1, WholeClosed
  <2>3. Last(chains[i]) \in X
    BY <2>1, <2>2, MeetsAtEnd
  <2>4. Last(chains[i]) \notin D
    BY <2>1, WholeClosed
  <2>5. QED
    BY <2>1, <2>3, <2>4, WholeClosed
<1>6. ASSUME NEW e \in U PROVE e \notin Circular
  <2> SUFFICES ASSUME NEW C \in SUBSET D, \A x \in C : by[x] \in C, e \in C
               PROVE  FALSE
    BY DEF Circular
  <2>1. PICK c \in Range(chains) : e \in Range(c)
    BY <1>3
  <2>2. Complete(c)
    BY <1>2
  <2>3. Last(c) \in C
    BY <2>1, <2>2, MeetsAtEnd
  <2>4. QED
    BY <2>2, <2>3, WholeClosed
<1>7. D \ U \subseteq Circular
  <2>1. ASSUME NEW e \in D \ U PROVE by[e] \in D \ U
    <3>1. by[e] \notin U
      BY <1>4
    <3>2. by[e] \in D
      <4> SUFFICES ASSUME by[e] \notin D PROVE FALSE
        OBVIOUS
      <4>1. by[e] \in Heads(by)
        BY DEF Heads
      <4>2. PICK i \in DOMAIN chains : Last(chains[i]) = by[e]
        BY <1>1, <4>1
      <4>3. chains[i] \in Range(chains) /\ by[e] \in Range(chains[i])
        BY <1>1, <4>2, WholeClosed DEF Range
      <4>4. QED
        BY <1>3, <3>1, <4>3
    <3>3. QED
      BY <3>1, <3>2
  <2> HIDE DEF U
  <2>2. D \ U \in SUBSET D
    OBVIOUS
  <2>3. QED
    BY <2>1, <2>2 DEF Circular
<1>8. U = ended \cup {by[e] : e \in ended}
  <2>1. \A e \in D : e \in ended <=> e \in U
    BY <1>6, <1>7
  <2>2. ASSUME NEW e \in U PROVE e \in ended \cup {by[x] : x \in ended}
    <3>1. CASE e \in D
      BY <2>1, <3>1
    <3>2. CASE e \notin D
      <4>1. PICK c \in Range(chains) : e \in Range(c)
        BY <1>3
      <4>2. PICK x \in Range(c) : x \in D /\ by[x] = e
        BY <1>2, <3>2, <4>1, WholeClosed
      <4>3. x \in U
        BY <1>3, <4>1, <4>2
      <4>4. QED
        BY <2>1, <4>2, <4>3
    <3>3. QED
      BY <3>1, <3>2
  <2>3. \A e \in ended : e \in U /\ by[e] \in U
    BY <1>4, <2>1
  <2> HIDE DEF U, ended
  <2>4. QED
    BY <2>2, <2>3
<1>9. \A c \in Range(chains) : OldestFirst(c) /\ IsInjective(c)
  BY <1>2 DEF Complete
<1>10. QED
  BY <1>5, <1>8, <1>9 DEF ChainsComplete

(***************************************************************************)
(* _build_chains, whatever edges the snapshot holds: every chain runs from *)
(* the oldest entity to the current one, the chains share no entity and    *)
(* repeat none, and they hold just the entities whose replacements come to *)
(* an end, and that end; one replaced in a circle is in none of them.      *)
(***************************************************************************)
THEOREM ChainsHold == Spec => []ChainsComplete
<1>1. Init => ChainsInv
  BY DEF Init, ChainsInv
<1>2. IInv /\ [Next]_vars => IInv'
  BY AnnotateStep, AddEdgeStep, ScoreStep, OtherStep DEF Next
<1>3. IInv /\ ChainsInv /\ [Next]_vars => ChainsInv'
  BY TakeHeadChains, VisitNodeChains, EndChainChains, OtherChains DEF Next
<1>4. QED
  BY Initially, ChainsAreComplete, <1>1, <1>2, <1>3, PTL DEF Spec

-----------------------------------------------------------------------------
(* Components.                                                             *)

LEMMA OwnComponent ==
  ASSUME NEW h, NEW x \in Nodes(h)
  PROVE  /\ x \in Component(h, x) /\ Component(h, x) \subseteq Nodes(h)
         /\ Component(h, x) \in Components(h)
BY DEF Component, Components

LEMMA ComponentLeast ==
  ASSUME NEW h, NEW x, NEW S \in SUBSET Nodes(h), x \in S, Sealed(h, S)
  PROVE  Component(h, x) \subseteq S
BY DEF Component

LEMMA ComponentSealed ==
  ASSUME NEW h, NEW x
  PROVE  Sealed(h, Component(h, x))
<1> SUFFICES ASSUME NEW e \in Kept(h)
             PROVE  e.s \in Component(h, x) <=> e.t \in Component(h, x)
  BY DEF Sealed
<1>1. e.s \in Nodes(h) /\ e.t \in Nodes(h)
  BY DEF Kept
<1>2. \A S \in SUBSET Nodes(h) : Sealed(h, S) => (e.s \in S <=> e.t \in S)
  BY DEF Sealed
<1>3. QED
  BY <1>1, <1>2 DEF Component

\* A component is that of each of its nodes.
LEMMA ComponentSame ==
  ASSUME NEW h, NEW x \in Nodes(h), NEW y \in Component(h, x)
  PROVE  Component(h, y) = Component(h, x)
<1> DEFINE X == Component(h, x)
           Y == Component(h, y)
<1>1. /\ X \subseteq Nodes(h) /\ Sealed(h, X) /\ x \in X /\ y \in X
      /\ Y \subseteq Nodes(h) /\ Sealed(h, Y) /\ y \in Y
  <2>1. X \subseteq Nodes(h) /\ x \in X
    BY OwnComponent
  <2>2. y \in Nodes(h)
    BY <2>1
  <2>3. QED
    BY <2>1, <2>2, OwnComponent, ComponentSealed
<1>2. Y \subseteq X
  BY <1>1, ComponentLeast
<1>3. x \in Y
  <2> SUFFICES ASSUME x \notin Y PROVE FALSE
    OBVIOUS
  <2> HIDE DEF X, Y
  <2>1. Sealed(h, X \ Y)
    BY <1>1 DEF Sealed
  <2>2. x \in X \ Y /\ X \ Y \in SUBSET Nodes(h)
    BY <1>1
  <2>3. X \subseteq X \ Y
    BY <2>1, <2>2, ComponentLeast DEF X
  <2>4. QED
    BY <1>1, <2>3
<1>4. X \subseteq Y
  BY <1>1, <1>3, ComponentLeast
<1>5. QED
  BY <1>2, <1>4

\* The components part the nodes.
LEMMA ComponentsPart ==
  ASSUME NEW h
  PROVE  /\ \A c \in Components(h) :
               /\ c \subseteq Nodes(h) /\ c # {} /\ Sealed(h, c)
               /\ \A x \in c : c = Component(h, x)
         /\ \A x \in Nodes(h) : \A c \in Components(h) : x \in c <=> c = Component(h, x)
         /\ \A c, d \in Components(h) : c # d => c \cap d = {}
         /\ UNION Components(h) = Nodes(h)
<1>1. ASSUME NEW c \in Components(h)
      PROVE  /\ c \subseteq Nodes(h) /\ c # {} /\ Sealed(h, c)
             /\ \A x \in c : c = Component(h, x)
  <2>1. PICK x \in Nodes(h) : c = Component(h, x)
    BY DEF Components
  <2>2. c \subseteq Nodes(h) /\ x \in c /\ Sealed(h, c)
    BY <2>1, OwnComponent, ComponentSealed
  <2>3. \A y \in c : c = Component(h, y)
    BY <2>1, ComponentSame
  <2>4. QED
    BY <2>2, <2>3
<1>2. \A x \in Nodes(h) : x \in Component(h, x) /\ Component(h, x) \in Components(h)
  BY OwnComponent
<1>3. \A x \in Nodes(h) : \A c \in Components(h) : x \in c <=> c = Component(h, x)
  BY <1>1, <1>2
<1>4. \A c, d \in Components(h) : c # d => c \cap d = {}
  <2> SUFFICES ASSUME NEW c \in Components(h), NEW d \in Components(h), NEW x \in c \cap d
               PROVE  c = d
    OBVIOUS
  <2>1. c = Component(h, x) /\ d = Component(h, x)
    BY <1>1
  <2>2. QED
    BY <2>1
<1>5. UNION Components(h) = Nodes(h)
  BY <1>1, <1>2
<1>6. QED
  BY <1>1, <1>3, <1>4, <1>5

\* More edges join more.
LEMMA ComponentGrows ==
  ASSUME NEW h, NEW k, Nodes(k) = Nodes(h), Kept(h) \subseteq Kept(k), NEW x
  PROVE  Component(h, x) \subseteq Component(k, x)
<1>1. \A S : Sealed(k, S) => Sealed(h, S)
  BY DEF Sealed
<1>2. QED
  BY <1>1 DEF Component

LEMMA ReadableGraph ==
  ASSUME NEW h, Readable(h)
  PROVE  /\ IsFiniteSet(Nodes(h)) /\ IsFiniteSet(h.edges) /\ IsFiniteSet(Kept(h))
         /\ Nodes(h) \subseteq Ids
         /\ IsFiniteSet(Components(h)) /\ Cardinality(Components(h)) \in Nat
         /\ Cardinality(Nodes(h)) \in Nat
         /\ \A c \in Components(h) : IsFiniteSet(c) /\ Cardinality(c) \in Nat
<1>1. IsFiniteSet(Nodes(h)) /\ IsFiniteSet(h.edges) /\ Nodes(h) \subseteq Ids
  BY ScorecardsAssumption, FS_Subset DEF Readable
<1>2. IsFiniteSet(Kept(h))
  BY <1>1, FS_Subset DEF Kept
<1>3. IsFiniteSet(Components(h))
  <2> DEFINE f == [x \in Nodes(h) |-> Component(h, x)]
  <2>1. f \in Surjection(Nodes(h), Components(h))
    BY DEF Surjection, Components
  <2>2. QED
    BY <1>1, <2>1, FS_Surjection
<1>4. \A c \in Components(h) : IsFiniteSet(c)
  BY <1>1, ComponentsPart, FS_Subset
<1>5. QED
  BY <1>1, <1>2, <1>3, <1>4, FS_CardinalityType

-----------------------------------------------------------------------------
(* A link joins two components and leaves the others.                      *)

LEMMA LinkedGraph ==
  ASSUME NEW h, Readable(h), NEW x \in Nodes(h), NEW y \in Nodes(h), NEW w
  PROVE  LET k == Linked(h, x, y, w)
             e == Wired(<<x, y>>, w)
         IN  /\ k.ents = h.ents /\ Nodes(k) = Nodes(h) /\ k.edges = h.edges \cup {e}
             /\ Readable(k)
             /\ Kept(k) = Kept(h) \cup {e} /\ e.s = x /\ e.t = y
<1> DEFINE e == Wired(<<x, y>>, w)
           k == Linked(h, x, y, w)
<1>1. /\ e.s = x /\ e.t = y
      /\ e = [s |-> e.s, t |-> e.t, type |-> e.type, note |-> e.note,
              flag |-> e.flag, dated |-> e.dated]
  BY DEF Wired
<1>2. k = [h EXCEPT !.edges = @ \cup {e}]
  BY DEF Linked
<1> HIDE DEF e, k
<1>3. /\ k = [ents |-> h.ents, edges |-> h.edges \cup {e}]
      /\ k.ents = h.ents /\ k.edges = h.edges \cup {e}
  <2>1. h = [ents |-> h.ents, edges |-> h.edges]
    BY DEF Readable
  <2>2. QED
    BY <1>2, <2>1
<1>4. Nodes(k) = Nodes(h)
  BY <1>3 DEF Nodes
<1>5. Kept(k) = Kept(h) \cup {e}
  BY <1>1, <1>3, <1>4 DEF Kept
<1>6. Readable(k)
  <2>1. IsFiniteSet(k.edges)
    BY <1>3, FS_AddElement DEF Readable
  <2>2. x \in Ids /\ y \in Ids
    BY DEF Readable
  <2>3. QED
    BY <1>1, <1>3, <1>4, <2>1, <2>2 DEF Readable
<1>7. QED
  BY <1>1, <1>3, <1>4, <1>5, <1>6 DEF e, k

LEMMA LinkJoins ==
  ASSUME NEW h, Readable(h), NEW x \in Nodes(h), NEW y \in Nodes(h), NEW w,
         NEW c, c = Component(h, x), NEW d, d = Component(h, y), c # d
  PROVE  Components(Linked(h, x, y, w)) = (Components(h) \ {c, d}) \cup {c \cup d}
<1> DEFINE k == Linked(h, x, y, w)
           e == Wired(<<x, y>>, w)
<1>1. Nodes(k) = Nodes(h) /\ Kept(k) = Kept(h) \cup {e} /\ e.s = x /\ e.t = y
  BY LinkedGraph
<1> HIDE DEF k, e
<1>2. /\ c \in Components(h) /\ d \in Components(h) /\ x \in c /\ y \in d
      /\ c \subseteq Nodes(h) /\ d \subseteq Nodes(h) /\ c \cap d = {}
      /\ Sealed(h, c) /\ Sealed(h, d)
  BY OwnComponent, ComponentsPart
<1>3. ASSUME NEW b \in Components(h), b \notin {c, d}
      PROVE  \A z \in b : Component(k, z) = b
  <2>1. b \subseteq Nodes(h) /\ Sealed(h, b) /\ x \notin b /\ y \notin b
    BY <1>2, <1>3, ComponentsPart
  <2>2. Sealed(k, b)
    BY <1>1, <2>1 DEF Sealed
  <2> SUFFICES ASSUME NEW z \in b PROVE Component(k, z) = b
    OBVIOUS
  <2>3. Component(k, z) \subseteq b
    BY <1>1, <2>1, <2>2, ComponentLeast
  <2>4. Component(h, z) = b
    BY ComponentsPart
  <2>5. Component(h, z) \subseteq Component(k, z)
    BY <1>1, ComponentGrows
  <2>6. QED
    BY <2>3, <2>4, <2>5
<1>4. ASSUME NEW z \in c \cup d PROVE Component(k, z) = c \cup d
  <2>1. Sealed(k, c \cup d)
    BY <1>1, <1>2 DEF Sealed
  <2>2. Component(k, z) \subseteq c \cup d
    BY <1>1, <1>2, <2>1, ComponentLeast
  <2>3. /\ Component(h, x) \subseteq Component(k, x)
        /\ Component(h, y) \subseteq Component(k, y)
    BY <1>1, ComponentGrows
  <2>4. Component(k, x) = Component(k, y)
    <3>1. Sealed(k, Component(k, x)) /\ x \in Component(k, x)
      BY <1>1, ComponentSealed, OwnComponent
    <3>2. y \in Component(k, x)
      BY <1>1, <3>1 DEF Sealed
    <3>3. QED
      BY <1>1, <3>2, ComponentSame
  <2>5. c \cup d \subseteq Component(k, x)
    BY <2>3, <2>4
  <2>6. Component(k, z) = Component(k, x)
    BY <1>1, <2>5, ComponentSame
  <2>7. QED
    BY <2>2, <2>5, <2>6
<1>5. Components(k) = {Component(k, z) : z \in Nodes(h)}
  BY <1>1 DEF Components
<1>6. ASSUME NEW z \in Nodes(h)
      PROVE  Component(k, z) \in (Components(h) \ {c, d}) \cup {c \cup d}
  <2>1. CASE z \in c \cup d
    BY <1>4, <2>1
  <2>2. CASE z \notin c \cup d
    <3>1. Component(h, z) \in Components(h) /\ z \in Component(h, z)
      BY OwnComponent
    <3>2. QED
      BY <1>3, <2>2, <3>1
  <2>3. QED
    BY <2>1, <2>2
<1>7. ASSUME NEW b \in (Components(h) \ {c, d}) \cup {c \cup d}
      PROVE  \E z \in Nodes(h) : b = Component(k, z)
  <2>1. CASE b = c \cup d
    BY <1>2, <1>4, <2>1
  <2>2. CASE b # c \cup d
    <3>1. b \in Components(h) /\ b \notin {c, d} /\ b # {} /\ b \subseteq Nodes(h)
      BY <2>2, ComponentsPart
    <3>2. QED
      BY <1>3, <3>1
  <2>3. QED
    BY <2>1, <2>2
<1>8. QED
  BY <1>5, <1>6, <1>7 DEF k

-----------------------------------------------------------------------------
(* Bridges and loops.                                                      *)

LEMMA WithoutGraph ==
  ASSUME NEW h, Readable(h), NEW p
  PROVE  LET k == Without(h, p)
         IN  /\ Nodes(k) = Nodes(h) /\ Readable(k)
             /\ Kept(k) = {e \in Kept(h) : {e.s, e.t} # p}
             /\ Simple(k) = Simple(h) \ {p}
<1> DEFINE k == Without(h, p)
<1>1. k = [h EXCEPT !.edges = {e \in @ : {e.s, e.t} # p}]
  BY DEF Without
<1> HIDE DEF k
<1>2. /\ k = [ents |-> h.ents, edges |-> {e \in h.edges : {e.s, e.t} # p}]
      /\ k.ents = h.ents /\ k.edges = {e \in h.edges : {e.s, e.t} # p}
  <2>1. h = [ents |-> h.ents, edges |-> h.edges]
    BY DEF Readable
  <2>2. QED
    BY <1>1, <2>1
<1>3. Nodes(k) = Nodes(h)
  BY <1>2 DEF Nodes
<1>4. Kept(k) = {e \in Kept(h) : {e.s, e.t} # p}
  BY <1>2, <1>3 DEF Kept
<1>5. Readable(k)
  <2>1. IsFiniteSet(k.edges)
    BY <1>2, FS_Subset DEF Readable
  <2>2. QED
    BY <1>2, <1>3, <2>1 DEF Readable
<1>6. Simple(k) = Simple(h) \ {p}
  BY <1>3, <1>4 DEF Simple
<1>7. QED
  BY <1>3, <1>4, <1>5, <1>6 DEF k

\* Fewer edges leave more components, strictly more when they separate two nodes.
LEMMA FewerEdges ==
  ASSUME NEW h, Readable(h), NEW k, Readable(k),
         Nodes(k) = Nodes(h), Kept(k) \subseteq Kept(h)
  PROVE  /\ Cardinality(Components(h)) <= Cardinality(Components(k))
         /\ \A x \in Nodes(h) : \A y \in Component(h, x) :
              y \notin Component(k, x) =>
                Cardinality(Components(h)) < Cardinality(Components(k))
<1> DEFINE f == [c \in Components(k) |-> UNION {d \in Components(h) : c \cap d # {}}]
<1>1. ASSUME NEW x \in Nodes(h)
      PROVE  /\ Component(k, x) \in Components(k) /\ Component(h, x) \in Components(h)
             /\ f[Component(k, x)] = Component(h, x)
  <2>1. /\ Component(k, x) \in Components(k) /\ Component(h, x) \in Components(h)
        /\ x \in Component(k, x) /\ x \in Component(h, x)
        /\ Component(k, x) \subseteq Component(h, x)
    BY OwnComponent, ComponentGrows
  <2>2. \A d \in Components(h) : Component(k, x) \cap d # {} <=> d = Component(h, x)
    BY <2>1, ComponentsPart
  <2>3. {d \in Components(h) : Component(k, x) \cap d # {}} = {Component(h, x)}
    BY <2>1, <2>2
  <2>4. QED
    BY <2>1, <2>3
<1>2. /\ \A c \in Components(k) : \E x \in Nodes(h) : c = Component(k, x)
      /\ \A c \in Components(h) : \E x \in Nodes(h) : c = Component(h, x)
  BY DEF Components
<1>3. f \in [Components(k) -> Components(h)]
  <2>1. \A c \in Components(k) : f[c] \in Components(h)
    BY <1>1, <1>2
  <2>2. QED
    BY <2>1
<1> HIDE DEF f
<1>4. f \in Surjection(Components(k), Components(h))
  BY <1>1, <1>2, <1>3 DEF Surjection
<1>5. /\ Cardinality(Components(h)) <= Cardinality(Components(k))
      /\ Cardinality(Components(h)) = Cardinality(Components(k)) =>
           f \in Injection(Components(k), Components(h))
  BY <1>4, ReadableGraph, FS_Surjection
<1>6. ASSUME NEW x \in Nodes(h), NEW y \in Component(h, x), y \notin Component(k, x)
      PROVE  Cardinality(Components(h)) < Cardinality(Components(k))
  <2>1. y \in Nodes(h) /\ Component(h, y) = Component(h, x)
    BY OwnComponent, ComponentSame
  <2>2. Component(k, y) # Component(k, x)
    BY <1>6, <2>1, OwnComponent
  <2>3. f[Component(k, y)] = f[Component(k, x)]
    BY <1>1, <2>1
  <2>4. f \notin Injection(Components(k), Components(h))
    BY <1>1, <1>3, <2>1, <2>2, <2>3 DEF Injection, IsInjective
  <2>5. QED
    BY <1>5, <2>4, ReadableGraph
<1>7. QED
  BY <1>5, <1>6

\* The ends of an edge are in one component.
LEMMA SimpleEdge ==
  ASSUME NEW h, NEW q \in Simple(h)
  PROVE  /\ q \subseteq Nodes(h) /\ q # {}
         /\ \A x, y \in q : y \in Component(h, x)
         /\ \E a, b \in q : a # b /\ q = {a, b}
<1>1. PICK e \in Kept(h) : q = {e.s, e.t}
  BY DEF Simple
<1>2. e.s \in Nodes(h) /\ e.t \in Nodes(h) /\ e.s # e.t
  BY <1>1 DEF Kept, Simple
<1>3. \A x \in Nodes(h) : e.s \in Component(h, x) <=> e.t \in Component(h, x)
  BY ComponentSealed DEF Sealed
<1>4. QED
  BY <1>1, <1>2, <1>3, OwnComponent

\* A pair is a bridge just when the graph has more components without it.
LEMMA BridgesSplit ==
  ASSUME NEW h, Readable(h), NEW q \in Simple(h)
  PROVE  q \in Bridges(h)
           <=> Cardinality(Components(Without(h, q))) > Cardinality(Components(h))
<1> DEFINE k == Without(h, q)
<1>1. /\ Nodes(k) = Nodes(h) /\ Readable(k)
      /\ Kept(k) = {e \in Kept(h) : {e.s, e.t} # q}
  BY WithoutGraph
<1>2. q \in Bridges(h) <=> \E x, y \in q : y \notin Component(k, x)
  BY DEF Bridges, SameComponent
<1> HIDE DEF k
<1>3. ASSUME NEW x \in q, NEW y \in q, y \notin Component(k, x)
      PROVE  Cardinality(Components(k)) > Cardinality(Components(h))
  <2>1. x \in Nodes(h) /\ y \in Component(h, x)
    BY SimpleEdge
  <2>2. Cardinality(Components(h)) < Cardinality(Components(k))
    BY <1>1, <1>3, <2>1, FewerEdges
  <2>3. QED
    BY <1>1, <2>2, ReadableGraph
<1>4. ASSUME \A x, y \in q : y \in Component(k, x)
      PROVE  Components(k) = Components(h)
  <2>1. ASSUME NEW z \in Nodes(h) PROVE Component(k, z) = Component(h, z)
    <3>1. Sealed(k, Component(k, z)) /\ z \in Component(k, z) /\ Component(k, z) \subseteq Nodes(h)
      BY <1>1, OwnComponent, ComponentSealed
    <3>2. \A x, y \in q : x \in Component(k, z) => y \in Component(k, z)
      BY <1>1, <1>4, SimpleEdge, ComponentSame
    <3>3. Sealed(h, Component(k, z))
      <4> SUFFICES ASSUME NEW e \in Kept(h)
                   PROVE  e.s \in Component(k, z) <=> e.t \in Component(k, z)
        BY DEF Sealed
      <4>1. CASE {e.s, e.t} # q
        BY <1>1, <3>1, <4>1 DEF Sealed
      <4>2. CASE {e.s, e.t} = q
        BY <3>2, <4>2
      <4>3. QED
        BY <4>1, <4>2
    <3>4. Component(h, z) \subseteq Component(k, z)
      BY <3>1, <3>3, ComponentLeast
    <3>5. Component(k, z) \subseteq Component(h, z)
      BY <1>1, ComponentGrows
    <3>6. QED
      BY <3>4, <3>5
  <2>2. QED
    BY <1>1, <2>1 DEF Components
<1>5. QED
  <2>1. CASE \E x, y \in q : y \notin Component(k, x)
    BY <1>2, <1>3, <2>1 DEF k
  <2>2. CASE \A x, y \in q : y \in Component(k, x)
    <3>1. ~(Cardinality(Components(k)) > Cardinality(Components(h)))
      BY <1>4, <2>2, ReadableGraph
    <3>2. QED
      BY <1>2, <2>2, <3>1 DEF k
  <2>3. QED
    BY <2>1, <2>2

LEMMA SimpleFinite ==
  ASSUME NEW h, Readable(h)
  PROVE  IsFiniteSet(Simple(h)) /\ Cardinality(Simple(h)) \in Nat
<1> DEFINE E == {{e.s, e.t} : e \in Kept(h)}
           f == [e \in Kept(h) |-> {e.s, e.t}]
<1>1. f \in Surjection(Kept(h), E)
  BY DEF Surjection
<1>2. IsFiniteSet(Kept(h))
  BY ReadableGraph
<1>3. IsFiniteSet(E)
  BY <1>1, <1>2, FS_Surjection
<1>4. IsFiniteSet(Simple(h))
  BY <1>3, FS_Subset DEF Simple
<1>5. QED
  BY <1>4, FS_CardinalityType

\* A bridge stays one when other edges go.
LEMMA BridgesStay ==
  ASSUME NEW h, Readable(h), NEW k, Readable(k),
         Nodes(k) = Nodes(h), Kept(k) \subseteq Kept(h),
         NEW q \in Bridges(h), q \in Simple(k)
  PROVE  q \in Bridges(k)
<1>1. PICK x, y \in q : y \notin Component(Without(h, q), x)
  BY DEF Bridges, SameComponent
<1>2. /\ Nodes(Without(h, q)) = Nodes(h) /\ Nodes(Without(k, q)) = Nodes(h)
      /\ Kept(Without(k, q)) \subseteq Kept(Without(h, q))
  BY WithoutGraph
<1>3. Component(Without(k, q), x) \subseteq Component(Without(h, q), x)
  BY <1>2, ComponentGrows
<1>4. QED
  BY <1>1, <1>3 DEF Bridges, SameComponent

\* A graph of bridges has no more edges than a forest.
Forest(h) == Readable(h) /\ Simple(h) \subseteq Bridges(h)

WithinNodes(h) == Cardinality(Simple(h)) + Cardinality(Components(h)) <= Cardinality(Nodes(h))

LEMMA ForestStep ==
  ASSUME NEW h, Forest(h), Simple(h) # {}
  PROVE  \E k : /\ Forest(k) /\ Cardinality(Simple(k)) = Cardinality(Simple(h)) - 1
                /\ WithinNodes(k) => WithinNodes(h)
<1>1. PICK q \in Simple(h) : TRUE
  OBVIOUS
<1> DEFINE k == Without(h, q)
<1>2. Readable(h) /\ Simple(h) \subseteq Bridges(h)
  BY DEF Forest
<1>3. /\ Nodes(k) = Nodes(h) /\ Readable(k) /\ Kept(k) \subseteq Kept(h)
      /\ Simple(k) = Simple(h) \ {q}
  BY <1>2, WithoutGraph
<1>4. Cardinality(Components(k)) > Cardinality(Components(h))
  BY <1>1, <1>2, BridgesSplit
<1> HIDE DEF k
<1>5. Forest(k)
  <2>1. \A p \in Simple(k) : p \in Bridges(h)
    BY <1>2, <1>3
  <2>2. \A p \in Simple(k) : p \in Bridges(k)
    BY <1>2, <1>3, <2>1, BridgesStay
  <2>3. QED
    BY <1>3, <2>2 DEF Forest
<1>6. /\ Cardinality(Simple(k)) = Cardinality(Simple(h)) - 1
      /\ Cardinality(Simple(h)) \in Nat /\ Cardinality(Simple(k)) \in Nat
  BY <1>1, <1>2, <1>3, SimpleFinite, FS_RemoveElement
<1>7. /\ Cardinality(Components(k)) \in Nat /\ Cardinality(Components(h)) \in Nat
      /\ Cardinality(Nodes(h)) \in Nat
  BY <1>2, <1>3, ReadableGraph
<1>8. WithinNodes(k) => WithinNodes(h)
  BY <1>3, <1>4, <1>6, <1>7 DEF WithinNodes
<1>9. QED
  BY <1>5, <1>6, <1>8

LEMMA ForestBound ==
  ASSUME NEW h, Forest(h)
  PROVE  WithinNodes(h)
<1> DEFINE T == {n \in Nat : \E k : Forest(k) /\ ~WithinNodes(k) /\ Cardinality(Simple(k)) = n}
           R == OpToRel(<, Nat)
<1> SUFFICES ASSUME ~WithinNodes(h) PROVE FALSE
  OBVIOUS
<1>1. Cardinality(Simple(h)) \in T
  BY SimpleFinite DEF Forest
<1>2. PICK n \in T : \A m \in T : ~(<<m, n>> \in R)
  <2> HIDE DEF R, T
  <2>1. IsWellFoundedOn(R, Nat)
    BY NatLessThanWellFounded DEF R
  <2>2. T \subseteq Nat /\ T # {}
    BY <1>1 DEF T
  <2>3. QED
    BY <2>1, <2>2, WFMin
<1>3. PICK k : Forest(k) /\ ~WithinNodes(k) /\ Cardinality(Simple(k)) = n
  BY <1>2
<1>4. CASE Simple(k) = {}
  <2> DEFINE f == [x \in Nodes(k) |-> Component(k, x)]
  <2>1. f \in Surjection(Nodes(k), Components(k))
    BY DEF Surjection, Components
  <2>2. Readable(k)
    BY <1>3 DEF Forest
  <2>3. Cardinality(Components(k)) <= Cardinality(Nodes(k))
    BY <2>1, <2>2, ReadableGraph, FS_Surjection
  <2>4. Cardinality(Simple(k)) = 0 /\ Cardinality(Components(k)) \in Nat
    BY <1>4, <2>2, FS_EmptySet, ReadableGraph
  <2>5. QED
    BY <1>3, <2>3, <2>4 DEF WithinNodes
<1>5. CASE Simple(k) # {}
  <2>1. PICK j : /\ Forest(j) /\ Cardinality(Simple(j)) = n - 1
                 /\ WithinNodes(j) => WithinNodes(k)
    BY <1>3, <1>5, ForestStep
  <2>2. Cardinality(Simple(j)) \in Nat
    BY <2>1, SimpleFinite DEF Forest
  <2>3. n - 1 \in T
    BY <1>3, <2>1, <2>2
  <2>4. <<n - 1, n>> \in R
    BY <1>2, <2>1, <2>2 DEF OpToRel
  <2>5. QED
    BY <1>2, <2>3, <2>4
<1>6. QED
  BY <1>4, <1>5

\* In a component whose edges are all bridges there are no loops.
LEMMA ForestRank ==
  ASSUME NEW h, Forest(h), NEW C \in Components(h)
  PROVE  CycleRank(h, C) <= 0
<1> DEFINE k == [ents |-> h.ents, edges |-> {e \in Kept(h) : {e.s, e.t} \subseteq C}]
           m == Cardinality({p \in Simple(h) : p \subseteq C})
<1>1. Readable(h) /\ Simple(h) \subseteq Bridges(h)
  BY DEF Forest
<1>2. C \subseteq Nodes(h) /\ C # {}
  BY ComponentsPart
<1>3. /\ Nodes(k) = Nodes(h) /\ k.ents = h.ents
      /\ k.edges = {e \in Kept(h) : {e.s, e.t} \subseteq C}
      /\ k = [ents |-> k.ents, edges |-> k.edges]
  BY DEF Nodes
<1> HIDE DEF k
<1>4. Kept(k) = k.edges /\ Kept(k) \subseteq Kept(h)
  BY <1>3 DEF Kept
<1>5. Readable(k)
  <2>1. IsFiniteSet(k.edges) /\ \A e \in k.edges : e \in h.edges
    BY <1>1, <1>3, ReadableGraph, FS_Subset DEF Kept
  <2>2. QED
    BY <1>1, <1>3, <2>1 DEF Readable
<1>6. Simple(k) = {p \in Simple(h) : p \subseteq C}
  BY <1>3, <1>4 DEF Simple
<1>7. Forest(k)
  <2>1. \A q \in Simple(k) : q \in Bridges(h)
    BY <1>1, <1>6
  <2>2. \A q \in Simple(k) : q \in Bridges(k)
    BY <1>1, <1>3, <1>4, <1>5, <2>1, BridgesStay
  <2>3. QED
    BY <1>5, <2>2 DEF Forest
<1>8. WithinNodes(k)
  BY <1>7, ForestBound
<1>9. PICK o \in C : TRUE
  BY <1>2
<1> DEFINE D == (Nodes(h) \ C) \cup {o}
           f == [z \in D |-> Component(k, z)]
<1>10. \A z \in Nodes(h) \ C : Component(k, z) = {z}
  <2> SUFFICES ASSUME NEW z \in Nodes(h) \ C PROVE Component(k, z) = {z}
    OBVIOUS
  <2>1. Sealed(k, {z}) /\ {z} \in SUBSET Nodes(k)
    BY <1>3, <1>4 DEF Sealed
  <2>2. Component(k, z) \subseteq {z}
    BY <2>1, ComponentLeast
  <2>3. z \in Component(k, z)
    BY <1>3, OwnComponent
  <2>4. QED
    BY <2>2, <2>3
<1>11. f \in Injection(D, Components(k))
  <2>1. f \in [D -> Components(k)] /\ \A z \in D : z \in f[z]
    BY <1>2, <1>3, OwnComponent
  <2>2. \A z \in D : z # o => f[z] = {z}
    BY <1>10
  <2> HIDE DEF f, D
  <2>3. \A y, z \in D : f[y] = f[z] => y = z
    <3> SUFFICES ASSUME NEW y \in D, NEW z \in D, f[y] = f[z] PROVE y = z
      OBVIOUS
    <3>1. CASE y # o
      BY <2>1, <2>2, <3>1
    <3>2. CASE y = o
      BY <2>1, <2>2, <3>2
    <3>3. QED
      BY <3>1, <3>2
  <2>4. DOMAIN f = D
    BY <2>1
  <2>5. QED
    BY <2>1, <2>3, <2>4 DEF Injection, IsInjective
<1>12. Cardinality(D) <= Cardinality(Components(k))
  BY <1>5, <1>11, ReadableGraph, FS_Injection
<1>13. /\ Cardinality(D) = (Cardinality(Nodes(h)) - Cardinality(C)) + 1
       /\ Cardinality(C) \in Nat /\ Cardinality(Nodes(h)) \in Nat
  <2>1. IsFiniteSet(Nodes(h)) /\ IsFiniteSet(C)
    BY <1>1, <1>2, ReadableGraph, FS_Subset
  <2>2. Nodes(h) \cap C = C /\ o \notin Nodes(h) \ C
    BY <1>2, <1>9
  <2>3. /\ IsFiniteSet(Nodes(h) \ C)
        /\ Cardinality(Nodes(h) \ C) = Cardinality(Nodes(h)) - Cardinality(C)
    BY <2>1, <2>2, FS_Difference
  <2>4. Cardinality(D) = Cardinality(Nodes(h) \ C) + 1
    BY <2>2, <2>3, FS_AddElement
  <2>5. QED
    BY <2>1, <2>3, <2>4, FS_CardinalityType
<1>14. /\ m \in Nat /\ Cardinality(Components(k)) \in Nat
       /\ m + Cardinality(Components(k)) <= Cardinality(Nodes(h))
  BY <1>3, <1>5, <1>6, <1>8, SimpleFinite, ReadableGraph DEF WithinNodes
<1> HIDE DEF m, D
<1>15. (m + 1) - Cardinality(C) <= 0
  BY <1>12, <1>13, <1>14
<1>16. QED
  BY <1>2, <1>15 DEF CycleRank, m

LEMMA LoopsNeedCycle ==
  ASSUME NEW h, Readable(h), NEW betti \in Homology(h, MaxNodes), betti.loops > 0
  PROVE  Simple(h) \ Bridges(h) # {}
<1> SUFFICES ASSUME Simple(h) \subseteq Bridges(h) PROVE FALSE
  OBVIOUS
<1>1. PICK C \in Components(h) \cup {{}} : betti \in Betti(h, C, MaxNodes)
  BY DEF Homology
<1>2. /\ ~(Cardinality(C) < 3)
      /\ betti \in [skipped : {FALSE}, loops : 0 .. CycleRank(h, C)]
  <2>1. \A S : betti \in [skipped : S, loops : {0}] => betti.loops = 0
    OBVIOUS
  <2>2. CASE Cardinality(C) < 3
    <3>1. Betti(h, C, MaxNodes) = [skipped : {FALSE}, loops : {0}]
      BY <2>2 DEF Betti
    <3>2. QED
      BY <1>1, <2>1, <3>1
  <2>3. CASE ~(Cardinality(C) < 3) /\ Cardinality(C) > MaxNodes
    <3>1. Betti(h, C, MaxNodes) = [skipped : {TRUE}, loops : {0}]
      BY <2>3 DEF Betti
    <3>2. QED
      BY <1>1, <2>1, <3>1
  <2>4. CASE ~(Cardinality(C) < 3) /\ ~(Cardinality(C) > MaxNodes)
    BY <1>1, <2>4 DEF Betti
  <2>5. QED
    BY <2>2, <2>3, <2>4
<1>3. C \in Components(h)
  BY <1>1, <1>2, FS_EmptySet
<1>4. betti.loops \in 0 .. CycleRank(h, C)
  BY <1>2
<1>5. CycleRank(h, C) <= 0
  BY <1>3, ForestRank DEF Forest
<1>6. CycleRank(h, C) \in Int
  <2>1. IsFiniteSet({p \in Simple(h) : p \subseteq C})
    BY SimpleFinite, FS_Subset
  <2>2. Cardinality({p \in Simple(h) : p \subseteq C}) \in Nat /\ Cardinality(C) \in Nat
    BY <1>3, <2>1, FS_CardinalityType, ReadableGraph
  <2>3. QED
    BY <2>2 DEF CycleRank
<1>7. QED
  BY <1>4, <1>5, <1>6

-----------------------------------------------------------------------------
(* Candidate gaps.                                                         *)

LEMMA PairOfTwo ==
  ASSUME NEW p, IsFiniteSet(p), Cardinality(p) = 2
  PROVE  \E c, d : c # d /\ p = {c, d}
<1>1. p # {}
  BY FS_EmptySet
<1>2. PICK c \in p : TRUE
  BY <1>1
<1>3. IsFiniteSet(p \ {c}) /\ Cardinality(p \ {c}) = 1
  BY <1>2, FS_RemoveElement
<1>4. PICK d : p \ {c} = {d}
  BY <1>3, FS_Singleton
<1>5. QED
  BY <1>2, <1>4

LEMMA CandidatePair ==
  ASSUME NEW h, Readable(h), NEW min, NEW p \in Candidates(h, min)
  PROVE  \E c, d \in Components(h) : c # d /\ p = {c, d}
<1>1. p \subseteq Components(h) /\ Cardinality(p) = 2
  BY DEF Candidates, Pairs, Sized
<1>2. IsFiniteSet(p)
  BY <1>1, ReadableGraph, FS_Subset
<1>3. QED
  BY <1>1, <1>2, PairOfTwo

LEMMA CandidatesFinite ==
  ASSUME NEW h, Readable(h), NEW min
  PROVE  IsFiniteSet(Candidates(h, min))
<1>1. IsFiniteSet(SUBSET Components(h))
  BY ReadableGraph, FS_SUBSET
<1>2. Candidates(h, min) \in SUBSET (SUBSET Components(h))
  BY DEF Candidates, Pairs, Sized
<1>3. QED
  BY <1>1, <1>2, FS_Subset

\* Of three components two make more than half.
LEMMA ThreeHaveNoGap ==
  ASSUME NEW h, Readable(h), NEW min, Cardinality(Sized(h, min)) = 3
  PROVE  Candidates(h, min) = {}
<1> DEFINE S == Sized(h, min)
<1> SUFFICES ASSUME NEW p \in Candidates(h, min) PROVE FALSE
  OBVIOUS
<1>1. p \subseteq S /\ Cardinality(p) = 2 /\ RareShared(S, h, p) # {}
  BY DEF Candidates, Pairs
<1>2. PICK ty : /\ \A c \in p : ty \in TypesIn(h, c)
                /\ Discriminating(S, h, ty)
  BY <1>1 DEF RareShared
<1> DEFINE T == {c \in S : ty \in TypesIn(h, c)}
<1>3. IsFiniteSet(S)
  BY ReadableGraph, FS_Subset DEF Sized
<1>4. IsFiniteSet(T) /\ p \subseteq T
  BY <1>1, <1>2, <1>3, FS_Subset
<1> HIDE DEF T
<1>5. Cardinality(p) <= Cardinality(T) /\ Cardinality(T) \in Nat
  BY <1>4, FS_Subset, FS_CardinalityType
<1>6. 2 * Cardinality(T) <= 3
  BY <1>2 DEF Discriminating, Occurrences, T
<1>7. QED
  BY <1>1, <1>5, <1>6

\* More seeds than pairs found: two of them name one pair.
LEMMA SeedsShare ==
  ASSUME NEW h, Readable(h), NEW R, IsFiniteSet(R),
         Cardinality(Recalled(h, Seeds, R)) > Cardinality(R)
  PROVE  \E q, r \in Known(h, Seeds) : q # r /\ PairOf(h, q) = PairOf(h, r)
<1> DEFINE S == Recalled(h, Seeds, R)
           f == [q \in S |-> PairOf(h, q)]
<1>1. /\ S \subseteq Known(h, Seeds) /\ S \subseteq Seeds
      /\ \A q \in S : PairOf(h, q) \in R
  BY DEF Recalled, Known
<1>2. IsFiniteSet(S)
  BY <1>1, ScorecardsAssumption, FS_Subset
<1>3. f \in [S -> R] /\ \A q \in S : f[q] = PairOf(h, q)
  BY <1>1
<1> HIDE DEF f
<1>4. Cardinality(R) < Cardinality(S)
  BY <1>2, FS_CardinalityType
<1> HIDE DEF S
<1>5. \E q, r \in S : q # r /\ f[q] = f[r]
  BY <1>2, <1>3, <1>4, FS_PigeonHole
<1>6. QED
  BY <1>1, <1>3, <1>5

-----------------------------------------------------------------------------
(* What the commands were given, and what they say of it.                  *)

ToldCat4 ==
  report.cmd = "cat4" =>
    \E exact \in Exact(report.flag) : \E R :
       /\ \E limit \in Limits : R \in Shown(report.over, limit)
       /\ report.body = [cat4 |-> Cat4(report.over, exact, R),
                         alias |-> AliasScore(report.over, Gold, R, Unit)]

ToldBy(r) ==
  LET h == r.over
      b == r.body
  IN  /\ r.cmd \in {"none", "analyze", "cat4", "check", "cat5", "cat8", "phantom"}
      /\ r.cmd # "none" => Readable(h)
      /\ r.cmd = "check" =>
           \E R, G, betti : b = [cat4 |-> Cat4(h, <<>>, R), cat5 |-> Cat5(h, 3, G, {}, betti)]
      /\ r.cmd = "cat5" =>
           \E min \in Sizes : \E R \in SUBSET Candidates(h, min) :
           \E betti \in Homology(h, MaxNodes) :
             b = [cat5 |-> Cat5(h, min, R, Seeds, betti), min |-> min]
      /\ r.cmd = "cat8" =>
           \E o \in Ontologies, data \in BOOLEAN : \E kg :
           \E st \in [o.claims -> {"pass", "fail", "skipped", "untestable"}] :
             /\ \A c \in o.claims : st[c] \in Statuses(h, kg, c, data)
             /\ b = [cat8 |-> Cat8(h, o, st), o |-> o, kg |-> kg, status |-> st]
      /\ r.cmd = "phantom" => b = Phantom(h)

Told == ToldBy(report)

ScoresInv == Readable(g) /\ Told /\ ToldCat4

LEMMA DrawnGraphs ==
  ASSUME ScoresInit
  PROVE  ScoresInv
<1>1. PICK h \in SomeGraphs : \E E \in WireUp(h) : g = [h EXCEPT !.edges = E]
  BY DEF ScoresInit
<1>2. PICK E \in WireUp(h) : g = [h EXCEPT !.edges = E]
  BY <1>1
<1>3. PICK n \in Ids : \E k : h = [ents |-> [x \in 1 .. n |-> Kinds[k[x]]], edges |-> {}]
  BY DEF SomeGraphs
<1>4. PICK k : h = [ents |-> [x \in 1 .. n |-> Kinds[k[x]]], edges |-> {}]
  BY <1>3
<1> DEFINE G == [ents |-> h.ents, edges |-> E]
<1>5. g = G /\ Nodes(h) = 1 .. n /\ Nodes(h) \subseteq Ids
  BY <1>2, <1>4, ScorecardsAssumption DEF Nodes
<1> DEFINE ends == Nodes(h) \X (Nodes(h) \cup {Ghost})
<1>6. IsFiniteSet(ends)
  <2>1. IsFiniteSet(Nodes(h))
    BY <1>5, ScorecardsAssumption, FS_Subset
  <2>2. IsFiniteSet(Nodes(h) \cup {Ghost})
    BY <2>1, FS_AddElement
  <2>3. QED
    BY <2>1, <2>2, FS_Product
<1>7. PICK P \in SUBSET ends : \E w, v \in Wires :
             E = {Wired(p, IF p[1] = 1 THEN w ELSE v) : p \in P}
  BY DEF WireUp
<1>8. PICK w, v \in Wires : E = {Wired(p, IF p[1] = 1 THEN w ELSE v) : p \in P}
  BY <1>7
<1>9. IsFiniteSet(E)
  <2> DEFINE f == [p \in P |-> Wired(p, IF p[1] = 1 THEN w ELSE v)]
  <2>1. IsFiniteSet(P)
    BY <1>6, FS_Subset
  <2>2. f \in Surjection(P, E)
    BY <1>8 DEF Surjection
  <2>3. QED
    BY <2>1, <2>2, FS_Surjection
<1>10. ASSUME NEW e \in E
       PROVE  /\ e = [s |-> e.s, t |-> e.t, type |-> e.type, note |-> e.note,
                      flag |-> e.flag, dated |-> e.dated]
              /\ {e.s, e.t} \subseteq Ids \cup {Ghost}
  <2>1. PICK p \in P : e = Wired(p, IF p[1] = 1 THEN w ELSE v)
    BY <1>8
  <2>2. p[1] \in Ids /\ p[2] \in Ids \cup {Ghost}
    BY <1>5
  <2>3. QED
    BY <2>1, <2>2 DEF Wired
<1>11. Readable(g)
  BY <1>5, <1>9, <1>10 DEF Readable, Nodes
<1>12. report = [cmd |-> "none"]
  BY DEF ScoresInit, NoReport
<1>13. Told /\ ToldCat4
  BY <1>12 DEF Told, ToldBy, ToldCat4
<1>14. QED
  BY <1>11, <1>13 DEF ScoresInv

LEMMA SnapshotsReadable ==
  ASSUME Readable(g), NEW cmd, NEW flag, NEW h \in Snapshots(cmd, flag)
  PROVE  Readable(h)
<1>1. CASE h = g
  BY <1>1
<1>2. CASE h = Scaffold
  BY <1>2, ScorecardsAssumption
<1>3. ASSUME NEW E \in SUBSET g.edges, h = [g EXCEPT !.edges = @ \ E]
      PROVE  Readable(h)
  <2>1. g = [ents |-> g.ents, edges |-> g.edges]
    BY DEF Readable
  <2>2. /\ h = [ents |-> g.ents, edges |-> g.edges \ E]
        /\ h.ents = g.ents /\ h.edges = g.edges \ E
    BY <1>3, <2>1
  <2>3. IsFiniteSet(h.edges)
    BY <2>2, FS_Subset DEF Readable
  <2>4. QED
    BY <2>2, <2>3 DEF Readable, Nodes
<1>4. QED
  BY <1>1, <1>2, <1>3 DEF Snapshots

\* What a command says is of a graph it was given.
LEMMA CommandStep ==
  ASSUME ScoresInv,
         \/ Analyze \/ ReadPhantoms
         \/ \E flag \in BOOLEAN : RunCat4(flag) \/ RunCat5(flag) \/ Check(flag) \/ RunCat8(flag)
  PROVE  ScoresInv'
<1> USE DEF ScoresInv
<1>1. UNCHANGED <<g, daemon>>
  BY DEF Analyze, ReadPhantoms, RunCat4, RunCat5, Check, RunCat8, Say
<1>2. Readable(g)'
  BY <1>1 DEF Readable, Nodes
<1>3. \A flag : Exact(flag)' = Exact(flag)
  BY <1>1 DEF Exact
<1>4. CASE Analyze
  <2>1. PICK h \in Snapshots("analyze", FALSE) : Say("analyze", h, FALSE, Health(h))
    BY <1>4 DEF Analyze
  <2>2. report'.cmd = "analyze" /\ report'.over = h
    BY <2>1 DEF Say
  <2>3. Readable(h)
    BY SnapshotsReadable
  <2>4. QED
    BY <1>2, <2>2, <2>3 DEF Told, ToldBy, ToldCat4
<1>5. CASE ReadPhantoms
  <2>1. report'.cmd = "phantom" /\ report'.over = g /\ report'.body = Phantom(g)
    BY <1>5 DEF ReadPhantoms, Say
  <2>2. QED
    BY <1>2, <2>1 DEF Told, ToldBy, ToldCat4
<1>6. ASSUME NEW flag \in BOOLEAN, RunCat4(flag) PROVE ScoresInv'
  <2>1. PICK h \in Snapshots("cat4", flag), exact \in Exact(flag), limit \in Limits :
             \E R \in Shown(h, limit) :
               Say("cat4", h, flag, [cat4 |-> Cat4(h, exact, R),
                                     alias |-> AliasScore(h, Gold, R, Unit)])
    BY <1>6 DEF RunCat4
  <2>2. PICK R \in Shown(h, limit) :
               Say("cat4", h, flag, [cat4 |-> Cat4(h, exact, R),
                                     alias |-> AliasScore(h, Gold, R, Unit)])
    BY <2>1
  <2>3. /\ report'.cmd = "cat4" /\ report'.over = h /\ report'.flag = flag
        /\ report'.body = [cat4 |-> Cat4(h, exact, R),
                           alias |-> AliasScore(h, Gold, R, Unit)]
    BY <2>2 DEF Say
  <2>4. Readable(h)
    BY SnapshotsReadable
  <2>5. QED
    BY <1>2, <1>3, <2>1, <2>2, <2>3, <2>4 DEF Told, ToldBy, ToldCat4
<1>7. ASSUME NEW flag \in BOOLEAN, RunCat5(flag) PROVE ScoresInv'
  <2>1. PICK h \in Snapshots("cat5", flag), min \in Sizes :
             \E R \in Reported(h, min, Top), betti \in Homology(h, MaxNodes) :
               Say("cat5", h, flag, [cat5 |-> Cat5(h, min, R, Seeds, betti), min |-> min])
    BY <1>7 DEF RunCat5
  <2>2. PICK R \in Reported(h, min, Top), betti \in Homology(h, MaxNodes) :
               Say("cat5", h, flag, [cat5 |-> Cat5(h, min, R, Seeds, betti), min |-> min])
    BY <2>1
  <2>3. /\ report'.cmd = "cat5" /\ report'.over = h
        /\ report'.body = [cat5 |-> Cat5(h, min, R, Seeds, betti), min |-> min]
    BY <2>2 DEF Say
  <2>4. Readable(h) /\ R \in SUBSET Candidates(h, min)
    BY SnapshotsReadable DEF Reported
  <2>5. QED
    BY <1>2, <2>1, <2>2, <2>3, <2>4 DEF Told, ToldBy, ToldCat4
<1>8. ASSUME NEW flag \in BOOLEAN, Check(flag) PROVE ScoresInv'
  <2>1. PICK h \in Snapshots("check", flag) : \E R, G, betti :
               Say("check", h, flag, [cat4 |-> Cat4(h, <<>>, R),
                                      cat5 |-> Cat5(h, 3, G, {}, betti)])
    BY <1>8 DEF Check
  <2>2. PICK R, G, betti :
               Say("check", h, flag, [cat4 |-> Cat4(h, <<>>, R),
                                      cat5 |-> Cat5(h, 3, G, {}, betti)])
    BY <2>1
  <2>3. /\ report'.cmd = "check" /\ report'.over = h
        /\ report'.body = [cat4 |-> Cat4(h, <<>>, R), cat5 |-> Cat5(h, 3, G, {}, betti)]
    BY <2>2 DEF Say
  <2>4. Readable(h)
    BY SnapshotsReadable
  <2>5. QED
    BY <1>2, <2>3, <2>4 DEF Told, ToldBy, ToldCat4
<1>9. ASSUME NEW flag \in BOOLEAN, RunCat8(flag) PROVE ScoresInv'
  <2>1. PICK h \in Snapshots("cat8", flag), o \in Ontologies, data \in BOOLEAN :
             \E kg : \E st \in [o.claims -> {"pass", "fail", "skipped", "untestable"}] :
               /\ \A c \in o.claims : st[c] \in Statuses(h, kg, c, data)
               /\ Say("cat8", h, flag, [cat8 |-> Cat8(h, o, st), o |-> o, kg |-> kg,
                                        status |-> st])
    BY <1>9 DEF RunCat8
  <2>2. PICK kg : \E st \in [o.claims -> {"pass", "fail", "skipped", "untestable"}] :
               /\ \A c \in o.claims : st[c] \in Statuses(h, kg, c, data)
               /\ Say("cat8", h, flag, [cat8 |-> Cat8(h, o, st), o |-> o, kg |-> kg,
                                        status |-> st])
    BY <2>1
  <2>3. PICK st \in [o.claims -> {"pass", "fail", "skipped", "untestable"}] :
               /\ \A c \in o.claims : st[c] \in Statuses(h, kg, c, data)
               /\ Say("cat8", h, flag, [cat8 |-> Cat8(h, o, st), o |-> o, kg |-> kg,
                                        status |-> st])
    BY <2>2
  <2>4. /\ report'.cmd = "cat8" /\ report'.over = h
        /\ report'.body = [cat8 |-> Cat8(h, o, st), o |-> o, kg |-> kg, status |-> st]
    BY <2>3 DEF Say
  <2>5. Readable(h)
    BY SnapshotsReadable
  <2>6. QED
    BY <1>2, <2>3, <2>4, <2>5 DEF Told, ToldBy, ToldCat4
<1>10. QED
  BY <1>4, <1>5, <1>6, <1>7, <1>8, <1>9

LEMMA ScoresStep ==
  ASSUME ScoresInv, [ScoresNext]_scoresvars
  PROVE  ScoresInv'
<1>1. CASE ScoresNext
  BY <1>1, CommandStep DEF ScoresNext
<1>2. CASE UNCHANGED scoresvars
  <2>1. \A flag : Exact(flag)' = Exact(flag)
    BY <1>2 DEF Exact, scoresvars
  <2>2. ToldCat4'
    BY <1>2, <2>1 DEF ScoresInv, scoresvars, ToldCat4
  <2>3. report' = report /\ g' = g
    BY <1>2 DEF scoresvars
  <2>4. Told'
    <3>1. Told
      BY DEF ScoresInv
    <3>2. QED
      BY <2>3, <3>1 DEF Told
  <2>5. Readable(g)'
    BY <2>3 DEF ScoresInv, Readable, Nodes
  <2>6. QED
    BY <2>2, <2>4, <2>5 DEF ScoresInv
<1>3. QED
  BY <1>1, <1>2

-----------------------------------------------------------------------------
(* What Category 5 lists is there.                                         *)

LEMMA GapLinked ==
  ASSUME NEW h, Readable(h), NEW min, NEW p \in Candidates(h, min),
         NEW x \in UNION p, NEW y \in UNION p, NEW w, ~SameComponent(h, x, y)
  PROVE  Components(Linked(h, x, y, w)) = (Components(h) \ p) \cup {UNION p}
<1>1. PICK c, d \in Components(h) : c # d /\ p = {c, d}
  BY CandidatePair
<1>2. UNION p = c \cup d
  BY <1>1
<1>3. /\ \A z \in c : z \in Nodes(h) /\ c = Component(h, z)
      /\ \A z \in d : z \in Nodes(h) /\ d = Component(h, z)
  BY ComponentsPart
<1>4. y \notin Component(h, x)
  BY DEF SameComponent
<1>5. CASE x \in c /\ y \in d
  <2>1. Components(Linked(h, x, y, w)) = (Components(h) \ {c, d}) \cup {c \cup d}
    BY <1>1, <1>3, <1>5, LinkJoins
  <2>2. QED
    BY <1>1, <1>2, <2>1
<1>6. CASE x \in d /\ y \in c
  <2>1. Components(Linked(h, x, y, w)) = (Components(h) \ {d, c}) \cup {d \cup c}
    BY <1>1, <1>3, <1>6, LinkJoins
  <2>2. d \cup c = UNION p /\ {d, c} = p
    BY <1>1
  <2>3. QED
    BY <2>1, <2>2
<1>7. QED
  BY <1>2, <1>3, <1>4, <1>5, <1>6

LEMMA ToldGaps ==
  ASSUME Told, report.cmd = "cat5"
  PROVE  GapsAreReal
<1> DEFINE h == report.over
           b == report.body.cat5
<1>1. PICK min \in Sizes : \E R \in SUBSET Candidates(h, min) :
             \E betti \in Homology(h, MaxNodes) :
               report.body = [cat5 |-> Cat5(h, min, R, Seeds, betti), min |-> min]
  BY DEF Told, ToldBy
<1>2. PICK R \in SUBSET Candidates(h, min) : \E betti \in Homology(h, MaxNodes) :
             report.body = [cat5 |-> Cat5(h, min, R, Seeds, betti), min |-> min]
  BY <1>1
<1>3. PICK betti \in Homology(h, MaxNodes) :
             report.body = [cat5 |-> Cat5(h, min, R, Seeds, betti), min |-> min]
  BY <1>2
<1>4. /\ report.body.min = min /\ b.gaps = R /\ b.bridges = Bridges(h) /\ b.betti = betti
      /\ b.score.recalled = Cardinality(Recalled(h, Seeds, R))
      /\ b.score.reported = Cardinality(R)
  BY <1>3 DEF Cat5, SeedScore
<1>5. Readable(h)
  BY DEF Told, ToldBy
<1> HIDE DEF h, b
<1>6. \A p \in R : \A x, y \in UNION p : \A w \in Wires :
        ~SameComponent(h, x, y) =>
          Components(Linked(h, x, y, w)) = (Components(h) \ p) \cup {UNION p}
  BY <1>5, GapLinked
<1>7. \A q \in Simple(h) :
        q \in Bridges(h) <=>
          Cardinality(Components([h EXCEPT !.edges = {e \in @ : {e.s, e.t} # q}]))
            > Cardinality(Components(h))
  BY <1>5, BridgesSplit DEF Without
<1>8. betti.loops > 0 => Simple(h) \ Bridges(h) # {}
  BY <1>5, LoopsNeedCycle
<1>9. Cardinality(Recalled(h, Seeds, R)) > Cardinality(R) =>
        \E q, r \in Known(h, Seeds) : q # r /\ PairOf(h, q) = PairOf(h, r)
  <2>1. IsFiniteSet(R)
    BY <1>5, CandidatesFinite, FS_Subset
  <2>2. QED
    BY <1>5, <2>1, SeedsShare
<1>10. Cardinality(Sized(h, min)) = 3 => R = {}
  BY <1>5, ThreeHaveNoGap
<1>11. QED
  BY <1>4, <1>6, <1>7, <1>8, <1>9, <1>10 DEF GapsAreReal, h, b

\* What cat5 lists as gaps, bridges, loops and recall is so in the graph it
\* was given, for every graph, registry of seeds and size of component.
THEOREM GapsHold == ScoresSpec => []GapsAreReal
<1>1. ScoresInit => ScoresInv
  BY DrawnGraphs
<1>2. ScoresInv /\ [ScoresNext]_scoresvars => ScoresInv'
  BY ScoresStep
<1>3. ScoresInv => GapsAreReal
  BY ToldGaps DEF ScoresInv, GapsAreReal
<1>4. QED
  BY <1>1, <1>2, <1>3, PTL DEF ScoresSpec

-----------------------------------------------------------------------------
(* What Category 8 counts adds up.                                         *)

\* Parts of a finite set that leave nothing out and nothing twice.
LEMMA ThreeParts ==
  ASSUME NEW S, IsFiniteSet(S), NEW A, NEW B, NEW C, S = A \cup B \cup C,
         A \cap B = {}, A \cap C = {}, B \cap C = {}
  PROVE  /\ Cardinality(A) \in Nat /\ Cardinality(B) \in Nat /\ Cardinality(C) \in Nat
         /\ Cardinality(A) + Cardinality(B) + Cardinality(C) = Cardinality(S)
<1>1. IsFiniteSet(A) /\ IsFiniteSet(B) /\ IsFiniteSet(C)
  BY FS_Subset
<1>2. /\ Cardinality(A) \in Nat /\ Cardinality(B) \in Nat /\ Cardinality(C) \in Nat
      /\ Cardinality({}) = 0
  BY <1>1, FS_CardinalityType, FS_EmptySet
<1>3. /\ IsFiniteSet(A \cup B)
      /\ Cardinality(A \cup B) = Cardinality(A) + Cardinality(B) - Cardinality({})
  BY <1>1, FS_Union
<1>4. Cardinality((A \cup B) \cup C)
        = Cardinality(A \cup B) + Cardinality(C) - Cardinality((A \cup B) \cap C)
  BY <1>1, <1>3, FS_Union
<1>5. (A \cup B) \cap C = {} /\ (A \cup B) \cup C = S
  OBVIOUS
<1>6. Cardinality(S) = Cardinality(A \cup B) + Cardinality(C) - Cardinality({})
  BY <1>4, <1>5
<1>7. QED
  BY <1>2, <1>3, <1>6

\* A graph without an edge shows no claim about its shape.
LEMMA TopologyNeedsEdges ==
  ASSUME NEW h, NEW kg, NEW c, NEW data, c.kind = "topology", c.graph = "kg",
         "pass" \in Statuses(h, kg, c, data), kg # <<>>
  PROVE  Kept(kg[1]) # {}
<1>1. Statuses(h, kg, c, data) = Topological(kg[1], c)
  BY DEF Statuses, Routed
<1>2. {{e.s, e.t} : e \in Kept(kg[1])} # {}
  <2>1. ASSUME {{e.s, e.t} : e \in Kept(kg[1])} = {} PROVE FALSE
    <3>1. Topological(kg[1], c) = {"fail"}
      BY <2>1 DEF Topological
    <3>2. QED
      BY <1>1, <3>1
  <2>2. QED
    BY <2>1
<1>3. QED
  BY <1>2

LEMMA ToldOntology ==
  ASSUME Told, report.cmd = "cat8"
  PROVE  OntologyAccounts
<1> DEFINE h == report.over
           b == report.body
           All == {"pass", "fail", "skipped", "untestable"}
<1>1. PICK o \in Ontologies, data \in BOOLEAN : \E kg : \E st \in [o.claims -> All] :
             /\ \A c \in o.claims : st[c] \in Statuses(h, kg, c, data)
             /\ b = [cat8 |-> Cat8(h, o, st), o |-> o, kg |-> kg, status |-> st]
  BY DEF Told, ToldBy
<1>2. PICK kg : \E st \in [o.claims -> All] :
             /\ \A c \in o.claims : st[c] \in Statuses(h, kg, c, data)
             /\ b = [cat8 |-> Cat8(h, o, st), o |-> o, kg |-> kg, status |-> st]
  BY <1>1
<1>3. PICK st \in [o.claims -> All] :
             /\ \A c \in o.claims : st[c] \in Statuses(h, kg, c, data)
             /\ b = [cat8 |-> Cat8(h, o, st), o |-> o, kg |-> kg, status |-> st]
  BY <1>2
<1> DEFINE f(S) == Cardinality({c \in o.claims : st[c] \in S})
<1>4. /\ b.o = o /\ b.kg = kg /\ b.status = st
      /\ b.cat8.used = Used(h, o) /\ b.cat8.declared = Declared(o)
      /\ b.cat8.claims.tested = Cardinality({c \in DOMAIN st : st[c] \in {"pass", "fail"}})
      /\ b.cat8.claims.untestable = Cardinality({c \in DOMAIN st : st[c] = "untestable"})
  BY <1>3 DEF Cat8, ClaimReport
<1>5. /\ IsFiniteSet(o.types) /\ IsFiniteSet(o.edges) /\ IsFiniteSet(o.claims)
      /\ \A d \in o.types : d \in Seq(Range(d))
  BY ScorecardsAssumption
<1> HIDE DEF h, b
<1>6. Used(h, o) <= Declared(o)
  <2>1. FoundTypes(h, o.types) \subseteq o.types /\ FoundEdges(h, o.edges) \subseteq o.edges
    BY DEF FoundTypes, FoundEdges
  <2>2. /\ IsFiniteSet(FoundTypes(h, o.types)) /\ IsFiniteSet(FoundEdges(h, o.edges))
        /\ Cardinality(FoundTypes(h, o.types)) <= Cardinality(o.types)
        /\ Cardinality(FoundEdges(h, o.edges)) <= Cardinality(o.edges)
    BY <1>5, <2>1, FS_Subset
  <2>3. /\ Cardinality(FoundTypes(h, o.types)) \in Nat /\ Cardinality(o.types) \in Nat
        /\ Cardinality(FoundEdges(h, o.edges)) \in Nat /\ Cardinality(o.edges) \in Nat
    BY <1>5, <2>2, FS_CardinalityType
  <2>4. QED
    BY <2>2, <2>3 DEF Used, Declared
<1>7. ASSUME NEW ty \in UndeclaredTypes(h, o.types), NEW d \in o.types, TypesMatch(d, ty)
      PROVE  Len(d) > 1
  <2>1. d # <<>> /\ IsPrefix(d, ty) /\ d \in Seq(Range(d))
    BY <1>5, <1>7 DEF TypesMatch
  <2>2. Len(d) # 1
    BY <2>1 DEF UndeclaredTypes
  <2>3. Len(d) \in Nat /\ Len(d) # 0
    BY <2>1
  <2> DEFINE n == Len(d)
  <2>4. n \in Nat /\ n # 0 /\ n # 1
    BY <2>2, <2>3
  <2> HIDE DEF n
  <2>5. n > 1
    BY <2>4
  <2>6. QED
    BY <2>5 DEF n
<1>8. \A ty \in UndeclaredEdges(h, o.edges) : \A d \in o.edges : Fold[d] = Fold[ty] => d # ty
  BY DEF UndeclaredEdges
<1>9. b.cat8.claims.tested + b.cat8.claims.untestable + f({"skipped"}) = Cardinality(o.claims)
  <2> DEFINE A == {c \in o.claims : st[c] \in {"pass", "fail"}}
             B == {c \in o.claims : st[c] = "untestable"}
             C == {c \in o.claims : st[c] \in {"skipped"}}
  <2>1. /\ o.claims = A \cup B \cup C
        /\ A \cap B = {} /\ A \cap C = {} /\ B \cap C = {}
    BY <1>3
  <2>2. DOMAIN st = o.claims
    BY <1>3
  <2>3. b.cat8.claims.tested = Cardinality(A) /\ b.cat8.claims.untestable = Cardinality(B)
    BY <1>4, <2>2
  <2> DEFINE S == o.claims
  <2>4. IsFiniteSet(S) /\ S = A \cup B \cup C
    BY <1>5, <2>1
  <2> HIDE DEF A, B, C, S
  <2>5. Cardinality(A) + Cardinality(B) + Cardinality(C) = Cardinality(S)
    BY <2>1, <2>4, ThreeParts
  <2>6. QED
    BY <2>3, <2>5 DEF C, S
<1>10. \A c \in o.claims :
         (c.kind = "topology" /\ c.graph = "kg" /\ st[c] = "pass") =>
           kg = <<>> \/ Kept(kg[1]) # {}
  BY <1>3, TopologyNeedsEdges
<1>11. QED
  BY <1>4, <1>6, <1>7, <1>8, <1>9, <1>10 DEF OntologyAccounts, h, b

\* cat8 counts every declared name as used at most once and every claim as
\* tested, untestable or skipped, and a claim about the knowledge graph passes
\* for its shape only over a graph with edges or when that graph was not read.
THEOREM OntologyHold == ScoresSpec => []OntologyAccounts
<1>1. ScoresInit => ScoresInv
  BY DrawnGraphs
<1>2. ScoresInv /\ [ScoresNext]_scoresvars => ScoresInv'
  BY ScoresStep
<1>3. ScoresInv => OntologyAccounts
  BY ToldOntology DEF ScoresInv, OntologyAccounts
<1>4. QED
  BY <1>1, <1>2, <1>3, PTL DEF ScoresSpec

-----------------------------------------------------------------------------
(* Two readings of one graph.                                              *)

LEMMA LeastId ==
  ASSUME NEW S \in SUBSET Nat, S # {}
  PROVE  \E k \in S : \A j \in S : k <= j
<1> DEFINE R == OpToRel(<, Nat)
<1>1. PICK k \in S : \A j \in S : ~(<<j, k>> \in R)
  <2> HIDE DEF R
  <2>1. IsWellFoundedOn(R, Nat)
    BY NatLessThanWellFounded DEF R
  <2>2. QED
    BY <2>1, WFMin
<1>2. \A i, j \in Nat : i < j => <<i, j>> \in R
  BY DEF OpToRel
<1> HIDE DEF R
<1>3. \A j \in S : ~(j < k)
  BY <1>1, <1>2
<1>4. QED
  BY <1>3

\* Of two sets, one is as large as its image under a map that tells its members apart.
LEMMA SameSize ==
  ASSUME NEW S, IsFiniteSet(S), NEW T, NEW f \in Bijection(S, T)
  PROVE  IsFiniteSet(T) /\ Cardinality(T) = Cardinality(S)
BY FS_Bijection DEF ExistsBijection

\* A component of one node: no edge at all, or edges to itself only.
LEMMA AloneComponent ==
  ASSUME NEW h, NEW x \in Nodes(h)
  PROVE  Component(h, x) = {x} <=> \A e \in Kept(h) : x \in {e.s, e.t} => e.s = e.t
<1>1. Sealed(h, {x}) <=> \A e \in Kept(h) : x \in {e.s, e.t} => e.s = e.t
  BY DEF Sealed
<1>2. Sealed(h, {x}) => Component(h, x) = {x}
  BY OwnComponent, ComponentLeast
<1>3. Component(h, x) = {x} => Sealed(h, {x})
  BY ComponentSealed
<1>4. QED
  BY <1>1, <1>2, <1>3

LEMMA IsolatesCounted ==
  ASSUME NEW h, Readable(h)
  PROVE  Cardinality(Isolates(h)) = Health(h).isolated + Cardinality(OnlyLoops(h))
<1> DEFINE A == {x \in Nodes(h) : \A e \in Kept(h) : x \notin {e.s, e.t}}
           B == OnlyLoops(h)
           S == {x \in Nodes(h) : Component(h, x) = {x}}
           f == [x \in S |-> {x}]
<1>1. Health(h).isolated = Cardinality(A)
  BY DEF Health
<1>2. S = A \cup B /\ A \cap B = {}
  <2>1. \A x \in B : \E e \in Kept(h) : e.s = x /\ e.t = x
    BY DEF OnlyLoops, Kept
  <2>2. \A x \in B : x \in S
    BY AloneComponent DEF OnlyLoops
  <2>3. \A x \in A : x \in S
    BY AloneComponent
  <2>4. \A x \in S : x \in A \cup B
    BY AloneComponent DEF OnlyLoops, Kept
  <2>5. A \cap B = {}
    BY <2>1
  <2>6. A \subseteq S /\ B \subseteq S /\ S \subseteq A \cup B
    BY <2>2, <2>3, <2>4
  <2> HIDE DEF A, B, S
  <2>7. QED
    BY <2>5, <2>6
<1>3. IsFiniteSet(S) /\ IsFiniteSet({})
  BY ReadableGraph, FS_Subset, FS_EmptySet
<1>4. Isolates(h) = {{x} : x \in S}
  <2>1. ASSUME NEW c \in Isolates(h) PROVE \E x \in S : c = {x}
    <3>1. c \in Components(h) /\ Cardinality(c) = 1 /\ IsFiniteSet(c)
      BY ReadableGraph DEF Isolates
    <3>2. PICK x : c = {x}
      BY <3>1, FS_Singleton
    <3>3. x \in Nodes(h) /\ c = Component(h, x)
      BY <3>1, <3>2, ComponentsPart
    <3>4. QED
      BY <3>2, <3>3
  <2>2. ASSUME NEW x \in S PROVE {x} \in Isolates(h)
    BY FS_Singleton DEF Isolates, Components
  <2> HIDE DEF S
  <2>3. QED
    BY <2>1, <2>2
<1> HIDE DEF S
<1>5. f \in Bijection(S, Isolates(h))
  BY <1>4 DEF Bijection, Injection, IsInjective, Surjection
<1>6. Cardinality(Isolates(h)) = Cardinality(S)
  BY <1>3, <1>5, SameSize
<1>7. /\ Cardinality(A) \in Nat /\ Cardinality(B) \in Nat /\ Cardinality({}) = 0
      /\ Cardinality(A) + Cardinality(B) + Cardinality({}) = Cardinality(S)
  <2> HIDE DEF A, B
  <2>1. S = A \cup B \cup {} /\ A \cap {} = {} /\ B \cap {} = {}
    BY <1>2
  <2>2. QED
    BY <1>2, <1>3, <2>1, ThreeParts, FS_EmptySet
<1>8. QED
  BY <1>1, <1>6, <1>7

\* Edges that are dropped lack an entity at one end.
LEMMA DanglingEdges ==
  ASSUME NEW h, Readable(h)
  PROVE  h.edges \ Kept(h) = {e \in h.edges : e.s = Ghost \/ e.t = Ghost
                                 \/ {e.s, e.t} \cap (Ids \ Nodes(h)) # {}}
<1>1. Ghost \notin Nodes(h)
  BY ScorecardsAssumption DEF Readable
<1>2. \A e \in h.edges : e.s \in Ids \cup {Ghost} /\ e.t \in Ids \cup {Ghost}
  BY DEF Readable
<1>3. QED
  BY <1>1, <1>2 DEF Kept

\* The ids that collide: each has an earlier one of its key.
LaterIds(h) ==
  {x \in Nodes(h) : /\ Key(h.ents[x]) # <<>>
                    /\ \E y \in Nodes(h) : Key(h.ents[y]) = Key(h.ents[x]) /\ y < x}

LEMMA CollisionsAre ==
  ASSUME NEW h, Readable(h)
  PROVE  Collisions(h) = Cardinality(LaterIds(h)) /\ IsFiniteSet(LaterIds(h))
<1> DEFINE N == Nodes(h)
           key(x) == Key(h.ents[x])
           D == {x \in N : key(x) # <<>> /\ \E y \in N : key(y) = key(x) /\ y < x}
<1>1. IsFiniteSet(N) /\ N \subseteq Nat
  BY ReadableGraph, ScorecardsAssumption
<1>2. Keys(h) = {key(x) : x \in N} \ {<<>>}
  BY DEF Keys
<1>3. UNION {{x \in c : \E y \in c : y < x} : c \in Groups(h)} = D
  <2>1. ASSUME NEW c \in Groups(h), NEW x \in c, NEW y \in c, y < x
        PROVE  x \in D
    <3>1. PICK k \in Keys(h) : c = IdsOf(h, k)
      BY DEF Groups
    <3>2. k # <<>> /\ x \in N /\ y \in N /\ key(x) = k /\ key(y) = k
      BY <3>1 DEF Keys, IdsOf
    <3>3. QED
      BY <2>1, <3>2
  <2>2. ASSUME NEW x \in D
        PROVE  \E c \in Groups(h) : x \in c /\ \E y \in c : y < x
    <3> DEFINE c == IdsOf(h, key(x))
    <3>1. PICK y \in N : key(y) = key(x) /\ y < x
      OBVIOUS
    <3>2. x \in c /\ y \in c /\ c \subseteq N /\ key(x) \in Keys(h)
      BY <1>2, <3>1 DEF IdsOf
    <3>3. x # y
      BY <1>1, <3>1
    <3>4. Cardinality(c) > 1
      <4> HIDE DEF c
      <4>1. IsFiniteSet(c)
        BY <1>1, <3>2, FS_Subset
      <4>2. Cardinality(c) \in Nat
        BY <4>1, FS_CardinalityType
      <4>3. Cardinality(c) # 0
        BY <3>2, <4>1, FS_EmptySet
      <4>4. Cardinality(c) # 1
        BY <3>2, <3>3, <4>1, FS_Singleton
      <4>5. QED
        BY <4>2, <4>3, <4>4
    <3>5. c \in Groups(h)
      BY <3>2, <3>4 DEF Groups
    <3>6. QED
      BY <3>1, <3>2, <3>5
  <2> HIDE DEF D
  <2>3. QED
    BY <2>1, <2>2
<1>4. D = LaterIds(h) /\ IsFiniteSet(D)
  BY <1>1, FS_Subset DEF LaterIds
<1> HIDE DEF D
<1>5. QED
  BY <1>3, <1>4 DEF Collisions

\* Every entity with a key is the first of its key or collides with it.
LEMMA KeysCounted ==
  ASSUME NEW h, Readable(h)
  PROVE  Cardinality(Keys(h)) + Collisions(h)
           + Cardinality({x \in Nodes(h) : Key(h.ents[x]) = <<>>}) = Cardinality(Nodes(h))
<1> DEFINE N == Nodes(h)
           key(x) == Key(h.ents[x])
           U == {x \in N : key(x) = <<>>}
           F == {x \in N : key(x) # <<>> /\ \A y \in N : key(y) = key(x) => x <= y}
           D == {x \in N : key(x) # <<>> /\ \E y \in N : key(y) = key(x) /\ y < x}
           f == [x \in F |-> key(x)]
<1>1. IsFiniteSet(N) /\ N \subseteq Nat
  BY ReadableGraph, ScorecardsAssumption
<1>2. N = F \cup D \cup U /\ F \cap D = {} /\ F \cap U = {} /\ D \cap U = {}
  <2>1. \A x, y \in N : x <= y <=> ~(y < x)
    BY <1>1
  <2> HIDE DEF N, key
  <2>2. F \cap U = {} /\ D \cap U = {}
    OBVIOUS
  <2>3. F \cap D = {}
    BY <2>1
  <2>4. N \subseteq F \cup D \cup U
    BY <2>1
  <2>5. F \cup D \cup U \subseteq N
    OBVIOUS
  <2> HIDE DEF F, D, U
  <2>6. QED
    BY <2>2, <2>3, <2>4, <2>5
<1>3. Cardinality(F) + Cardinality(D) + Cardinality(U) = Cardinality(N)
  <2> HIDE DEF F, D, U, N
  <2>1. QED
    BY <1>1, <1>2, ThreeParts
<1>4. Keys(h) = {key(x) : x \in N} \ {<<>>}
  BY DEF Keys
<1>5. Cardinality(Keys(h)) = Cardinality(F)
  <2>1. IsFiniteSet(F)
    BY <1>1, FS_Subset
  <2>2. \A x \in F : f[x] = key(x) /\ f[x] \in Keys(h)
    BY <1>4
  <2>3. \A x, y \in F : f[x] = f[y] => x = y
    <3>1. \A x, y \in F : key(x) = key(y) => x <= y /\ y <= x
      OBVIOUS
    <3>2. \A x, y \in N : x <= y /\ y <= x => x = y
      BY <1>1
    <3> HIDE DEF N, key
    <3>3. QED
      BY <2>2, <3>1, <3>2
  <2>4. ASSUME NEW k \in Keys(h) PROVE \E x \in F : f[x] = k
    <3> DEFINE S == {x \in N : key(x) = k}
    <3>1. S # {} /\ S \in SUBSET Nat /\ k # <<>>
      BY <1>1, <1>4
    <3>2. PICK x \in S : \A y \in S : x <= y
      <4> HIDE DEF S
      <4>1. QED
        BY <3>1, LeastId
    <3>3. x \in F /\ key(x) = k
      BY <3>1, <3>2
    <3>4. QED
      BY <2>2, <3>3
  <2>5. DOMAIN f = F /\ f \in [F -> Keys(h)]
    BY <2>2
  <2> HIDE DEF f, F
  <2>6. f \in Bijection(F, Keys(h))
    BY <2>3, <2>4, <2>5 DEF Bijection, Injection, IsInjective, Surjection
  <2>7. QED
    BY <2>1, <2>6, SameSize
<1>6. Collisions(h) = Cardinality(D)
  BY CollisionsAre DEF LaterIds
<1>7. QED
  BY <1>3, <1>5, <1>6

\* An edge without an entity at one end is grounded in no note.
LEMMA DanglingArePhantom ==
  ASSUME NEW h, Readable(h)
  PROVE  Cardinality(Checked(h)) - Cardinality(Grounded(h))
           >= Cardinality({e \in h.edges \ Kept(h) : HasBody(e)})
<1> DEFINE C == Checked(h)
           G == Grounded(h)
           D == {e \in h.edges \ Kept(h) : HasBody(e)}
<1>1. G \subseteq C /\ C \subseteq h.edges
  BY DEF Grounded, Checked
<1>2. \A e \in G : e \in Kept(h)
  BY DEF Grounded, Checked, Present, Kept
<1>3. D \subseteq C \ G
  BY <1>2 DEF Checked
<1>4. IsFiniteSet(C)
  BY <1>1, ReadableGraph, FS_Subset
<1> HIDE DEF C, G, D
<1>5. /\ IsFiniteSet(C \ G)
      /\ Cardinality(C \ G) = Cardinality(C) - Cardinality(C \cap G)
  BY <1>4, FS_Difference
<1>6. C \cap G = G
  BY <1>1
<1>7. Cardinality(D) <= Cardinality(C \ G)
  BY <1>3, <1>5, FS_Subset
<1>8. /\ IsFiniteSet(G) /\ IsFiniteSet(D)
      /\ Cardinality(C) \in Nat /\ Cardinality(G) \in Nat /\ Cardinality(D) \in Nat
  <2>1. IsFiniteSet(G) /\ IsFiniteSet(D)
    BY <1>1, <1>3, <1>4, <1>5, FS_Subset
  <2>2. QED
    BY <2>1, <1>4, FS_CardinalityType
<1>9. Cardinality(C) - Cardinality(G) >= Cardinality(D)
  BY <1>5, <1>6, <1>7, <1>8
<1>10. QED
  BY <1>9 DEF C, G, D

LEMMA ToldReadings ==
  ASSUME Told, ToldCat4
  PROVE  ReadingsAgree
<1> DEFINE h == report.over
           b == report.body
<1>1. ASSUME report.cmd = "cat5"
      PROVE  LET a == Health(h)
                 s == b.cat5
             IN  /\ <<a.nodes, a.edges, a.components, a.largest>>
                      = <<s.nodes, s.edges, s.components, s.largest>>
                 /\ s.isolated = a.isolated + Cardinality(OnlyLoops(h))
  <2>1. PICK min, R, betti :
               b = [cat5 |-> Cat5(h, min, R, Seeds, betti), min |-> min]
    BY <1>1 DEF Told, ToldBy
  <2>2. /\ b.cat5.nodes = Cardinality(Nodes(h)) /\ b.cat5.edges = Cardinality(Kept(h))
        /\ b.cat5.components = Cardinality(Components(h))
        /\ b.cat5.largest = Largest(Components(h))
        /\ b.cat5.isolated = Cardinality(Isolates(h))
    BY <2>1 DEF Cat5
  <2>3. Cardinality(Isolates(h)) = Health(h).isolated + Cardinality(OnlyLoops(h))
    BY <1>1, IsolatesCounted DEF Told, ToldBy
  <2>4. /\ Health(h).nodes = Cardinality(Nodes(h)) /\ Health(h).edges = Cardinality(Kept(h))
        /\ Health(h).components = Cardinality(Components(h))
        /\ Health(h).largest = Largest(Components(h))
    BY DEF Health
  <2> HIDE DEF b
  <2>5. QED
    BY <2>2, <2>3, <2>4
<1>2. ASSUME report.cmd = "check"
      PROVE  /\ b.cat4.edges - b.cat5.edges
                  = Cardinality({e \in h.edges : e.s = Ghost \/ e.t = Ghost
                                    \/ {e.s, e.t} \cap (Ids \ Nodes(h)) # {}})
             /\ b.cat4.keys + b.cat4.collisions
                  + Cardinality({x \in Nodes(h) : Key(h.ents[x]) = <<>>}) = b.cat5.nodes
  <2>1. PICK R, G, betti :
               b = [cat4 |-> Cat4(h, <<>>, R), cat5 |-> Cat5(h, 3, G, {}, betti)]
    BY <1>2 DEF Told, ToldBy
  <2>2. /\ b.cat4.edges = Cardinality(h.edges) /\ b.cat5.edges = Cardinality(Kept(h))
        /\ b.cat4.keys = Cardinality(Keys(h)) /\ b.cat4.collisions = Collisions(h)
        /\ b.cat5.nodes = Cardinality(Nodes(h))
    BY <2>1 DEF Cat4, Cat5
  <2>3. Readable(h)
    BY <1>2 DEF Told, ToldBy
  <2> HIDE DEF h, b
  <2>4. Cardinality(h.edges \ Kept(h)) = Cardinality(h.edges) - Cardinality(h.edges \cap Kept(h))
    BY <2>3, ReadableGraph, FS_Difference
  <2>5. h.edges \cap Kept(h) = Kept(h)
    BY DEF Kept
  <2>6. b.cat4.edges - b.cat5.edges = Cardinality(h.edges \ Kept(h))
    BY <2>2, <2>4, <2>5
  <2>7. b.cat4.keys + b.cat4.collisions
          + Cardinality({x \in Nodes(h) : Key(h.ents[x]) = <<>>}) = b.cat5.nodes
    BY <2>2, <2>3, KeysCounted
  <2>8. QED
    BY <2>3, <2>6, <2>7, DanglingEdges
<1>3. ASSUME report.cmd = "cat4", b.cat4.types # Vocabulary(h, <<>>)
      PROVE  daemon /\ ~report.flag
  <2>0. PICK exact \in Exact(report.flag) : \E R :
               b = [cat4 |-> Cat4(h, exact, R), alias |-> AliasScore(h, Gold, R, Unit)]
    BY <1>3 DEF ToldCat4
  <2>1. PICK R : b = [cat4 |-> Cat4(h, exact, R), alias |-> AliasScore(h, Gold, R, Unit)]
    BY <2>0
  <2>2. b.cat4.types = Vocabulary(h, exact)
    BY <2>1 DEF Cat4
  <2>3. exact # <<>>
    BY <1>3, <2>2
  <2>4. QED
    BY <2>3 DEF Exact
<1>4. ASSUME report.cmd = "phantom"
      PROVE  b.checked - b.grounded >= Cardinality({e \in h.edges \ Kept(h) : HasBody(e)})
  <2>1. b.checked = Cardinality(Checked(h)) /\ b.grounded = Cardinality(Grounded(h))
    BY <1>4 DEF Told, ToldBy, Phantom
  <2>2. QED
    BY <1>4, <2>1, DanglingArePhantom DEF Told, ToldBy
<1> HIDE DEF h, b
<1>5. QED
  BY <1>1, <1>2, <1>3, <1>4 DEF ReadingsAgree, h, b

\* The commands count one graph alike, up to self loops, edges without an
\* entity and the vocabulary a daemon counts itself.
THEOREM ReadingsHold == ScoresSpec => []ReadingsAgree
<1>1. ScoresInit => ScoresInv
  BY DrawnGraphs
<1>2. ScoresInv /\ [ScoresNext]_scoresvars => ScoresInv'
  BY ScoresStep
<1>3. ScoresInv => ReadingsAgree
  BY ToldReadings DEF ScoresInv
<1>4. QED
  BY <1>1, <1>2, <1>3, PTL DEF ScoresSpec

-----------------------------------------------------------------------------
(* The alias score.                                                        *)

\* The names a listed group is a cluster of.
NamesOf(h, gold, R, i) ==
  IF Cardinality(InScope(h, gold, R[i])) > 1
  THEN {h.ents[x].name : x \in InScope(h, gold, R[i])} ELSE {}

LEMMA NamesFrom ==
  ASSUME NEW h, NEW gold, NEW R, NEW i, NEW n \in NamesOf(h, gold, R, i)
  PROVE  n \in Scope(h, gold) /\ \E x \in R[i] : h.ents[x].name = n
BY DEF NamesOf, InScope

LEMMA ClustersOf ==
  ASSUME NEW h, NEW gold, NEW R
  PROVE  /\ \A c \in Clusters(h, gold, R) :
              /\ c # {} /\ c \subseteq Scope(h, gold)
              /\ \E i \in DOMAIN R : c = NamesOf(h, gold, R, i)
         /\ \A i \in DOMAIN R :
              (\E n \in NamesOf(h, gold, R, i) :
                 \A j \in DOMAIN R : j > i => n \notin NamesOf(h, gold, R, j))
              => NamesOf(h, gold, R, i) \in Clusters(h, gold, R)
<1> DEFINE names(i) == NamesOf(h, gold, R, i)
<1>1. \A i : names(i) \subseteq Scope(h, gold)
  BY NamesFrom
<1>3. Clusters(h, gold, R)
        = {names(i) : i \in {k \in DOMAIN R : \E n \in names(k) :
                               \A j \in DOMAIN R : j > k => n \notin names(j)}}
  BY DEF Clusters, NamesOf
<1> HIDE DEF names
<1>4. \A c \in Clusters(h, gold, R) :
        c # {} /\ c \subseteq Scope(h, gold) /\ \E i \in DOMAIN R : c = names(i)
  BY <1>1, <1>3
<1>5. \A i \in DOMAIN R :
        (\E n \in names(i) : \A j \in DOMAIN R : j > i => n \notin names(j))
        => names(i) \in Clusters(h, gold, R)
  BY <1>3
<1>6. QED
  BY <1>4, <1>5 DEF names

LEMMA PredictedCovers ==
  ASSUME NEW h, NEW gold, NEW R
  PROVE  /\ UNION Predicted(h, gold, R) = Scope(h, gold)
         /\ {} \notin Predicted(h, gold, R)
<1> DEFINE C == Clusters(h, gold, R)
           S == Scope(h, gold)
<1>1. \A c \in C : c # {} /\ c \subseteq S
  BY ClustersOf
<1>2. Predicted(h, gold, R) = C \cup {{n} : n \in S \ UNION C}
  BY DEF Predicted
<1> HIDE DEF C, S
<1>3. UNION Predicted(h, gold, R) = S
  <2>1. UNION Predicted(h, gold, R) \subseteq S
    BY <1>1, <1>2
  <2>2. ASSUME NEW n \in S PROVE n \in UNION Predicted(h, gold, R)
    BY <1>2
  <2>3. QED
    BY <2>1, <2>2
<1>4. {} \notin Predicted(h, gold, R)
  BY <1>1, <1>2
<1>5. QED
  BY <1>3, <1>4 DEF S

LEMMA GoldCovers ==
  ASSUME NEW h, NEW gold, \A c, d \in gold : c # d => c \cap d = {}
  PROVE  /\ UNION GoldClusters(h, gold) = Scope(h, gold)
         /\ {} \notin GoldClusters(h, gold)
         /\ Partition(GoldClusters(h, gold))
<1>1. UNION GoldClusters(h, gold) = Scope(h, gold)
  <2>1. ASSUME NEW n \in Scope(h, gold) PROVE n \in UNION GoldClusters(h, gold)
    <3>1. PICK c \in gold : Cardinality(c) > 1 /\ n \in c /\ n \in NamesIn(h)
      BY DEF Scope
    <3>2. n \in c \cap NamesIn(h) /\ c \cap NamesIn(h) \in GoldClusters(h, gold)
      BY <3>1 DEF GoldClusters
    <3>3. QED
      BY <3>2
  <2>2. ASSUME NEW n \in UNION GoldClusters(h, gold) PROVE n \in Scope(h, gold)
    BY DEF Scope, GoldClusters
  <2>3. QED
    BY <2>1, <2>2
<1>2. {} \notin GoldClusters(h, gold)
  BY DEF GoldClusters
<1>3. Partition(GoldClusters(h, gold))
  <2> SUFFICES ASSUME NEW c \in GoldClusters(h, gold), NEW d \in GoldClusters(h, gold), c # d
               PROVE  c \cap d = {}
    BY DEF Partition
  <2>1. PICK a \in gold : c = a \cap NamesIn(h)
    BY DEF GoldClusters
  <2>2. PICK b \in gold : d = b \cap NamesIn(h)
    BY DEF GoldClusters
  <2>3. a \cap b = {}
    BY <2>1, <2>2
  <2>4. QED
    BY <2>1, <2>2, <2>3
<1>4. QED
  BY <1>1, <1>2, <1>3

\* Only listed groups that share a name overlap.
LEMMA PredictedParts ==
  ASSUME NEW h, NEW gold, NEW R,
         \A i, j \in DOMAIN R : \A x \in R[i] : \A y \in R[j] :
           i # j => h.ents[x].name # h.ents[y].name
  PROVE  Partition(Predicted(h, gold, R))
<1> DEFINE names(i) == NamesOf(h, gold, R, i)
           C == Clusters(h, gold, R)
<1>1. \A i, j \in DOMAIN R : i # j => names(i) \cap names(j) = {}
  <2> SUFFICES ASSUME NEW i \in DOMAIN R, NEW j \in DOMAIN R, i # j,
                      NEW n \in names(i) \cap names(j)
               PROVE  FALSE
    OBVIOUS
  <2>1. (\E x \in R[i] : h.ents[x].name = n) /\ (\E y \in R[j] : h.ents[y].name = n)
    BY NamesFrom
  <2>2. QED
    BY <2>1
<1>2. \A c \in C : \E i \in DOMAIN R : c = names(i)
  BY ClustersOf
<1> HIDE DEF names
<1>3. \A c, d \in C : c # d => c \cap d = {}
  BY <1>1, <1>2
<1>4. Predicted(h, gold, R) = C \cup {{n} : n \in Scope(h, gold) \ UNION C}
  BY DEF Predicted
<1> HIDE DEF C
<1>5. QED
  BY <1>3, <1>4 DEF Partition

LEMMA AliasRaises ==
  ASSUME NEW h, NEW gold, \A c, d \in gold : c # d => c \cap d = {}, NEW R, NEW unit,
         AliasScore(h, gold, R, unit).kind = "raises"
  PROVE  \E i, j \in DOMAIN R : \E x \in R[i], y \in R[j] :
           i # j /\ h.ents[x].name = h.ents[y].name
<1> SUFFICES ASSUME \A i, j \in DOMAIN R : \A x \in R[i] : \A y \in R[j] :
                      i # j => h.ents[x].name # h.ents[y].name
             PROVE  FALSE
  OBVIOUS
<1>1. Partition(Predicted(h, gold, R))
  BY PredictedParts
<1>2. /\ UNION Predicted(h, gold, R) = Scope(h, gold)
      /\ UNION GoldClusters(h, gold) = Scope(h, gold)
      /\ Partition(GoldClusters(h, gold))
  BY PredictedCovers, GoldCovers
<1>3. CASE Scope(h, gold) = {}
  BY <1>3 DEF AliasScore
<1>4. CASE Scope(h, gold) # {}
  <2>1. Predicted(h, gold, R) # {} /\ GoldClusters(h, gold) # {}
    BY <1>2, <1>4
  <2>2. ~Raises(Predicted(h, gold, R), GoldClusters(h, gold))
    BY <1>1, <1>2, <2>1 DEF Raises
  <2>3. AliasScore(h, gold, R, unit)
          = BCubed(Predicted(h, gold, R), GoldClusters(h, gold), unit)
    BY <1>4, <2>2 DEF AliasScore
  <2>4. AliasScore(h, gold, R, unit).kind = "scored"
    BY <2>3 DEF BCubed
  <2>5. QED
    BY <2>4
<1>5. QED
  BY <1>3, <1>4

\* A share of a unit is the whole of it just when nothing is missing.
LEMMA FullShare ==
  ASSUME NEW u \in Nat \ {0}, NEW k \in Nat \ {0}, NEW s \in 0 .. k
  PROVE  (u * s) \div k >= u <=> s = k
<1> DEFINE q == (u * s) \div k
<1>1. q \in Int /\ k * q <= u * s /\ u * s < k * (q + 1)
  <2>1. u * s \in Nat
    OBVIOUS
  <2> DEFINE v == u * s
  <2> HIDE DEF v
  <2>2. \A w \in Nat : w \div k \in Int /\ k * (w \div k) <= w /\ w < k * ((w \div k) + 1)
    OBVIOUS
  <2>3. QED
    BY <2>1, <2>2
<1> HIDE DEF q
<1>2. CASE s = k
  <2>1. k * u < k * (q + 1)
    BY <1>1, <1>2
  <2>2. u < q + 1
    BY <1>1, <2>1
  <2>3. QED
    BY <1>1, <1>2, <2>2 DEF q
<1>3. CASE s < k
  <2>1. u * s < u * k
    BY <1>3
  <2>2. k * q < k * u
    BY <1>1, <2>1
  <2>3. q < u
    BY <1>1, <2>2
  <2>4. QED
    BY <1>1, <1>3, <2>3 DEF q
<1>4. QED
  BY <1>2, <1>3

LEMMA ClusterIs ==
  ASSUME NEW P, Partition(P), NEW c \in P, NEW n \in c
  PROVE  ClusterOf(P, n) = c
BY DEF ClusterOf, Partition

LEMMA ClusterHas ==
  ASSUME NEW P, NEW n \in UNION P
  PROVE  ClusterOf(P, n) \in P /\ n \in ClusterOf(P, n)
BY DEF ClusterOf

\* The share of a unit the items of C have in common with their cluster of D.
PartsOf(C, D, unit) ==
  {q \in (UNION C) \X (1 .. unit) :
     q[2] <= (unit * Cardinality(ClusterOf(C, q[1]) \cap ClusterOf(D, q[1])))
               \div Cardinality(ClusterOf(C, q[1]))}

LEMMA FullParts ==
  ASSUME NEW C, NEW D, Partition(C), Partition(D), UNION C = UNION D, {} \notin C,
         IsFiniteSet(UNION C), NEW unit \in Nat \ {0}
  PROVE  Cardinality(PartsOf(C, D, unit)) = unit * Cardinality(UNION C)
           <=> \A c \in C : \E d \in D : c \subseteq d
<1> DEFINE U == UNION C
           F == U \X (1 .. unit)
           Shared(n) == Cardinality(ClusterOf(C, n) \cap ClusterOf(D, n))
           Size(n) == Cardinality(ClusterOf(C, n))
           Q == PartsOf(C, D, unit)
<1>1. /\ IsFiniteSet(F) /\ Cardinality(F) = unit * Cardinality(U)
  <2>1. IsFiniteSet(1 .. unit) /\ Cardinality(1 .. unit) = unit
    BY FS_Interval
  <2>2. IsFiniteSet(F) /\ Cardinality(F) = Cardinality(U) * Cardinality(1 .. unit)
    <3> HIDE DEF U
    <3>1. IsFiniteSet(U)
      BY DEF U
    <3>2. QED
      BY <2>1, <3>1, FS_Product
  <2>3. Cardinality(U) \in Nat
    BY FS_CardinalityType
  <2> HIDE DEF U, F
  <2>4. QED
    BY <2>1, <2>2, <2>3
<1>2. Q = {q \in F : q[2] <= (unit * Shared(q[1])) \div Size(q[1])}
  BY DEF PartsOf
<1>3. Cardinality(Q) = unit * Cardinality(U) <=> Q = F
  <2>1. Q \in SUBSET F
    BY <1>2
  <2> HIDE DEF Q, F, U
  <2>2. QED
    BY <1>1, <2>1, FS_Subset
<1>4. ASSUME NEW n \in U
      PROVE  /\ ClusterOf(C, n) \in C /\ n \in ClusterOf(C, n)
             /\ ClusterOf(D, n) \in D /\ n \in ClusterOf(D, n)
             /\ Size(n) \in Nat \ {0} /\ Shared(n) \in 0 .. Size(n)
             /\ Shared(n) = Size(n) <=> ClusterOf(C, n) \subseteq ClusterOf(D, n)
  <2>1. /\ ClusterOf(C, n) \in C /\ n \in ClusterOf(C, n)
        /\ ClusterOf(D, n) \in D /\ n \in ClusterOf(D, n)
    BY ClusterHas
  <2> DEFINE c == ClusterOf(C, n)
             d == ClusterOf(D, n)
  <2>2. c \subseteq UNION C /\ n \in c
    BY <2>1
  <2> HIDE DEF c, d
  <2>3. IsFiniteSet(c)
    BY <2>2, FS_Subset
  <2>4. Cardinality(c) \in Nat /\ Cardinality(c) # 0
    BY <2>2, <2>3, FS_CardinalityType, FS_EmptySet
  <2>5. /\ IsFiniteSet(c \cap d) /\ Cardinality(c \cap d) <= Cardinality(c)
        /\ Cardinality(c) = Cardinality(c \cap d) => c = c \cap d
    BY <2>3, FS_Subset
  <2>6. Cardinality(c \cap d) \in Nat
    BY <2>5, FS_CardinalityType
  <2>7. Cardinality(c \cap d) = Cardinality(c) <=> c \subseteq d
    <3>1. CASE c \subseteq d
      <4>1. c \cap d = c
        BY <3>1
      <4>2. QED
        BY <3>1, <4>1
    <3>2. CASE ~(c \subseteq d)
      BY <2>5, <3>2
    <3>3. QED
      BY <3>1, <3>2
  <2>8. Cardinality(c) \in Nat \ {0} /\ Cardinality(c \cap d) \in 0 .. Cardinality(c)
    BY <2>4, <2>5, <2>6
  <2>9. QED
    BY <2>1, <2>7, <2>8 DEF c, d
<1>5. Q = F <=> \A n \in U : (unit * Shared(n)) \div Size(n) >= unit
  <2>1. ASSUME Q = F, NEW n \in U PROVE (unit * Shared(n)) \div Size(n) >= unit
    <3>1. <<n, unit>> \in F
      OBVIOUS
    <3>2. <<n, unit>> \in Q
      BY <2>1, <3>1
    <3>3. unit <= (unit * Shared(n)) \div Size(n)
      BY <1>2, <3>2
    <3>4. (unit * Shared(n)) \div Size(n) \in Int
      BY <1>4
    <3>5. QED
      BY <3>3, <3>4
  <2>2. ASSUME \A n \in U : (unit * Shared(n)) \div Size(n) >= unit, NEW q \in F
        PROVE  q \in Q
    <3>1. q[1] \in U /\ q[2] \in 1 .. unit
      OBVIOUS
    <3> DEFINE v == (unit * Shared(q[1])) \div Size(q[1])
    <3>2. v >= unit /\ v \in Int
      BY <1>4, <2>2, <3>1
    <3> HIDE DEF v
    <3>3. q[2] <= v
      BY <3>1, <3>2
    <3>4. QED
      BY <1>2, <3>3 DEF v
  <2>3. Q \subseteq F
    BY <1>2
  <2> HIDE DEF Q, F, U, Shared, Size
  <2>4. QED
    BY <2>1, <2>2, <2>3
<1>6. \A n \in U : (unit * Shared(n)) \div Size(n) >= unit
                     <=> ClusterOf(C, n) \subseteq ClusterOf(D, n)
  <2> SUFFICES ASSUME NEW n \in U
               PROVE  (unit * Shared(n)) \div Size(n) >= unit
                        <=> ClusterOf(C, n) \subseteq ClusterOf(D, n)
    OBVIOUS
  <2>1. /\ Size(n) \in Nat \ {0} /\ Shared(n) \in 0 .. Size(n)
        /\ Shared(n) = Size(n) <=> ClusterOf(C, n) \subseteq ClusterOf(D, n)
    BY <1>4
  <2> HIDE DEF Size, Shared
  <2>2. (unit * Shared(n)) \div Size(n) >= unit <=> Shared(n) = Size(n)
    BY <2>1, FullShare
  <2>3. QED
    BY <2>1, <2>2
<1>7. (\A n \in U : ClusterOf(C, n) \subseteq ClusterOf(D, n))
        <=> \A c \in C : \E d \in D : c \subseteq d
  <2>1. ASSUME \A n \in U : ClusterOf(C, n) \subseteq ClusterOf(D, n), NEW c \in C
        PROVE  \E d \in D : c \subseteq d
    <3>1. PICK n \in c : TRUE
      OBVIOUS
    <3>2. ClusterOf(C, n) = c /\ n \in U
      BY ClusterIs
    <3>3. QED
      BY <1>4, <2>1, <3>2
  <2>2. ASSUME \A c \in C : \E d \in D : c \subseteq d, NEW n \in U
        PROVE  ClusterOf(C, n) \subseteq ClusterOf(D, n)
    <3>1. ClusterOf(C, n) \in C /\ n \in ClusterOf(C, n)
      BY <1>4
    <3>2. PICK d \in D : ClusterOf(C, n) \subseteq d
      BY <2>2, <3>1
    <3>3. ClusterOf(D, n) = d
      BY <3>1, <3>2, ClusterIs
    <3>4. QED
      BY <3>2, <3>3
  <2> HIDE DEF U
  <2>3. QED
    BY <2>1, <2>2
<1> HIDE DEF U, F, Shared, Size, Q
<1>8. Cardinality(Q) = unit * Cardinality(U) <=> \A c \in C : \E d \in D : c \subseteq d
  BY <1>3, <1>5, <1>6, <1>7
<1>9. QED
  BY <1>8 DEF Q, U

LEMMA ScopeFinite ==
  ASSUME NEW h, Readable(h), NEW gold
  PROVE  IsFiniteSet(Scope(h, gold))
<1> DEFINE f == [x \in Nodes(h) |-> h.ents[x].name]
           T == {h.ents[x].name : x \in Nodes(h)}
<1>1. f \in Surjection(Nodes(h), T)
  BY DEF Surjection
<1>2. IsFiniteSet(T)
  BY <1>1, ReadableGraph, FS_Surjection
<1>3. Scope(h, gold) \subseteq T
  BY DEF Scope, NamesIn
<1>4. QED
  BY <1>2, <1>3, FS_Subset

\* The score is full when the clusters say no more, or no less, than the registry.
LEMMA AliasFull ==
  ASSUME NEW h, Readable(h), NEW gold, NEW R, NEW unit \in Nat \ {0},
         \A c, d \in gold : c # d => c \cap d = {},
         AliasScore(h, gold, R, unit).kind = "scored"
  PROVE  LET a == AliasScore(h, gold, R, unit)
             P == Predicted(h, gold, R)
             T == GoldClusters(h, gold)
         IN  /\ Partition(P)
             /\ a.recall = unit * a.items <=> \A d \in T : \E c \in P : d \subseteq c
             /\ a.precision = unit * a.items <=> \A c \in P : \E d \in T : c \subseteq d
<1> DEFINE a == AliasScore(h, gold, R, unit)
           P == Predicted(h, gold, R)
           T == GoldClusters(h, gold)
<1>1. a = BCubed(P, T, unit) /\ Partition(P)
  <2>1. CASE Scope(h, gold) = {}
    BY <2>1 DEF AliasScore
  <2>2. CASE Scope(h, gold) # {} /\ Raises(P, T)
    BY <2>2 DEF AliasScore
  <2>3. CASE Scope(h, gold) # {} /\ ~Raises(P, T)
    <3>1. a = BCubed(P, T, unit)
      BY <2>3 DEF AliasScore
    <3>2. Partition(P)
      BY <2>3 DEF Raises
    <3>3. QED
      BY <3>1, <3>2
  <2>4. QED
    BY <2>1, <2>2, <2>3
<1>2. /\ UNION P = UNION T /\ {} \notin P /\ {} \notin T /\ Partition(T)
      /\ IsFiniteSet(UNION P)
  <2>1. UNION P = Scope(h, gold) /\ {} \notin P
    BY PredictedCovers
  <2>2. UNION T = Scope(h, gold) /\ {} \notin T /\ Partition(T)
    BY GoldCovers
  <2>3. IsFiniteSet(Scope(h, gold))
    BY ScopeFinite
  <2> HIDE DEF P, T
  <2>4. QED
    BY <2>1, <2>2, <2>3
<1> HIDE DEF a, P, T
<1>3. /\ a.items = Cardinality(UNION P)
      /\ a.precision = Cardinality(PartsOf(P, T, unit))
      /\ a.recall = Cardinality(PartsOf(T, P, unit))
  <2>1. PartsOf(T, P, unit)
          = {q \in (UNION T) \X (1 .. unit) :
               q[2] <= (unit * Cardinality(ClusterOf(P, q[1]) \cap ClusterOf(T, q[1])))
                         \div Cardinality(ClusterOf(T, q[1]))}
    <3>1. \A n : ClusterOf(T, n) \cap ClusterOf(P, n) = ClusterOf(P, n) \cap ClusterOf(T, n)
      OBVIOUS
    <3>2. QED
      BY <3>1 DEF PartsOf
  <2>2. PartsOf(P, T, unit)
          = {q \in (UNION P) \X (1 .. unit) :
               q[2] <= (unit * Cardinality(ClusterOf(P, q[1]) \cap ClusterOf(T, q[1])))
                         \div Cardinality(ClusterOf(P, q[1]))}
    BY DEF PartsOf
  <2> DEFINE A == PartsOf(P, T, unit)
             B == PartsOf(T, P, unit)
  <2>3. BCubed(P, T, unit) = [kind |-> "scored", items |-> Cardinality(UNION P),
                              precision |-> Cardinality(A), recall |-> Cardinality(B)]
    BY <2>1, <2>2 DEF BCubed
  <2> HIDE DEF A, B
  <2>4. /\ a.items = Cardinality(UNION P)
        /\ a.precision = Cardinality(A) /\ a.recall = Cardinality(B)
    BY <1>1, <2>3
  <2>5. QED
    BY <2>4 DEF A, B
<1>4. a.precision = unit * a.items <=> \A c \in P : \E d \in T : c \subseteq d
  BY <1>1, <1>2, <1>3, FullParts
<1>5. a.recall = unit * a.items <=> \A d \in T : \E c \in P : d \subseteq c
  <2>1. IsFiniteSet(UNION T)
    BY <1>2
  <2>2. Cardinality(PartsOf(T, P, unit)) = unit * Cardinality(UNION T)
          <=> \A d \in T : \E c \in P : d \subseteq c
    BY <1>1, <1>2, <2>1, FullParts
  <2>3. QED
    BY <1>2, <1>3, <2>2
<1>6. QED
  BY <1>1, <1>4, <1>5 DEF a, P, T

\* A list as long as there are groups has them all.
LEMMA AllShown ==
  ASSUME NEW h, Readable(h), NEW limit \in Nat, NEW R \in Shown(h, limit),
         Cardinality(Groups(h)) = Len(R)
  PROVE  \A c \in Groups(h) : \E i \in DOMAIN R : R[i] = c
<1> DEFINE n == IF Cardinality(Groups(h)) <= limit THEN Cardinality(Groups(h)) ELSE limit
<1>1. IsFiniteSet(Groups(h))
  <2>1. Groups(h) \subseteq SUBSET Nodes(h)
    BY DEF Groups, IdsOf
  <2>2. IsFiniteSet(SUBSET Nodes(h))
    BY ReadableGraph, FS_SUBSET
  <2>3. QED
    BY <2>1, <2>2, FS_Subset
<1>2. Cardinality(Groups(h)) \in Nat
  BY <1>1, FS_CardinalityType
<1>3. /\ R \in [1 .. n -> Groups(h)]
      /\ \A i, j \in 1 .. n : i < j => R[i] # R[j]
  BY DEF Shown
<1>4. n \in Nat
  BY <1>2
<1> HIDE DEF n
<1>5. DOMAIN R = 1 .. n /\ Len(R) = n
  BY <1>3, <1>4
<1>6. \A i, j \in 1 .. n : R[i] = R[j] => i = j
  <2> SUFFICES ASSUME NEW i \in 1 .. n, NEW j \in 1 .. n, R[i] = R[j] PROVE i = j
    OBVIOUS
  <2>1. ~(i < j) /\ ~(j < i)
    BY <1>3
  <2>2. QED
    BY <1>4, <2>1
<1>7. R \in Injection(1 .. n, Groups(h))
  BY <1>3, <1>5, <1>6 DEF Injection, IsInjective
<1>8. Cardinality(1 .. n) = Cardinality(Groups(h))
  <2>1. Cardinality(1 .. n) = n
    BY <1>4, FS_Interval
  <2>2. QED
    BY <1>5, <2>1
<1>9. R \in Surjection(1 .. n, Groups(h))
  BY <1>1, <1>7, <1>8, FS_Injection
<1>10. QED
  BY <1>5, <1>9 DEF Surjection

\* Two ids of one group, all listed: their names are in one cluster unless
\* another group has one of them.
LEMMA OneCluster ==
  ASSUME NEW h, Readable(h), NEW gold, NEW limit \in Nat, NEW R \in Shown(h, limit),
         Cardinality(Groups(h)) = Len(R),
         NEW x \in Nodes(h), NEW y \in Nodes(h),
         h.ents[x].name \in Scope(h, gold), h.ents[y].name \in Scope(h, gold),
         Key(h.ents[x]) = Key(h.ents[y]), Key(h.ents[x]) # <<>>,
         \A c \in Groups(h) : x \notin c =>
           \A z \in c : h.ents[z].name \notin {h.ents[x].name, h.ents[y].name}
  PROVE  \E c \in Predicted(h, gold, R) : {h.ents[x].name, h.ents[y].name} \subseteq c
<1> DEFINE nx == h.ents[x].name
           ny == h.ents[y].name
           k == Key(h.ents[x])
           c == IdsOf(h, k)
<1>1. CASE nx = ny
  <2>1. PICK d \in Predicted(h, gold, R) : nx \in d
    BY PredictedCovers
  <2>2. QED
    BY <1>1, <2>1
<1>2. CASE nx # ny
  <2>1. x \in c /\ y \in c /\ x # y /\ c \subseteq Nodes(h) /\ k \in Keys(h)
    BY <1>2 DEF IdsOf, Keys
  <2>2. ASSUME NEW S, S \subseteq Nodes(h), x \in S, y \in S PROVE Cardinality(S) > 1
    <3>1. IsFiniteSet(S)
      BY <2>2, ReadableGraph, FS_Subset
    <3>2. Cardinality(S) \in Nat
      BY <3>1, FS_CardinalityType
    <3>3. Cardinality(S) # 0
      BY <2>2, <3>1, FS_EmptySet
    <3>4. Cardinality(S) # 1
      BY <2>1, <2>2, <3>1, FS_Singleton
    <3>5. QED
      BY <3>2, <3>3, <3>4
  <2>3. c \in Groups(h)
    <3>1. Cardinality(c) > 1
      BY <2>1, <2>2
    <3>2. QED
      BY <2>1, <3>1 DEF Groups
  <2>4. PICK i \in DOMAIN R : R[i] = c
    BY <2>3, AllShown
  <2>5. nx \in NamesOf(h, gold, R, i) /\ ny \in NamesOf(h, gold, R, i)
    <3> DEFINE S == InScope(h, gold, R[i])
    <3>1. x \in S /\ y \in S /\ S \subseteq Nodes(h)
      BY <2>1, <2>4 DEF InScope
    <3>2. Cardinality(S) > 1
      <4> HIDE DEF S
      <4>1. QED
        BY <2>2, <3>1
    <3>3. NamesOf(h, gold, R, i) = {h.ents[z].name : z \in S}
      BY <3>2 DEF NamesOf
    <3> HIDE DEF S
    <3>4. QED
      BY <3>1, <3>3
  <2>6. ASSUME NEW j \in DOMAIN R, j > i PROVE nx \notin NamesOf(h, gold, R, j)
    <3>1. R[j] \in Groups(h) /\ R[j] # c
      <4> DEFINE n == IF Cardinality(Groups(h)) <= limit THEN Cardinality(Groups(h))
                      ELSE limit
      <4>1. /\ R \in [1 .. n -> Groups(h)]
            /\ \A a, b \in 1 .. n : a < b => R[a] # R[b]
        BY DEF Shown
      <4> HIDE DEF n
      <4>2. i \in 1 .. n /\ j \in 1 .. n /\ i < j
        BY <2>6, <4>1
      <4>3. QED
        BY <2>4, <4>1, <4>2
    <3>2. x \notin R[j]
      BY <3>1 DEF Groups, IdsOf
    <3>3. QED
      BY <3>1, <3>2, NamesFrom
  <2>7. NamesOf(h, gold, R, i) \in Clusters(h, gold, R)
    BY <2>5, <2>6, ClustersOf
  <2>8. QED
    BY <2>5, <2>7 DEF Predicted
<1>3. QED
  BY <1>1, <1>2

LEMMA ToldAliases ==
  ASSUME Told, ToldCat4
  PROVE  AliasesScored
<1> SUFFICES ASSUME report.cmd = "cat4" PROVE AliasesScored
  BY DEF AliasesScored
<1> DEFINE h == report.over
           a == report.body.alias
           T == GoldClusters(h, Gold)
<1>1. PICK exact, R : /\ \E limit \in Limits : R \in Shown(h, limit)
                      /\ report.body = [cat4 |-> Cat4(h, exact, R),
                                        alias |-> AliasScore(h, Gold, R, Unit)]
  BY DEF ToldCat4
<1>2. PICK limit \in Limits : R \in Shown(h, limit)
  BY <1>1
<1> DEFINE P == Predicted(h, Gold, R)
<1>3. report.body.cat4.groups = R /\ a = AliasScore(h, Gold, R, Unit)
  BY <1>1 DEF Cat4
<1>4. Readable(h) /\ limit \in Nat /\ Unit \in Nat \ {0}
  BY ScorecardsAssumption DEF Told, ToldBy
<1>5. \A c, d \in Gold : c # d => c \cap d = {}
  BY ScorecardsAssumption
<1> HIDE DEF h, a
<1>6. a.kind = "raises" =>
        \E i, j \in DOMAIN R : \E x \in R[i], y \in R[j] :
          i # j /\ h.ents[x].name = h.ents[y].name
  BY <1>3, <1>5, AliasRaises
<1>7. ASSUME Cardinality(Groups(h)) = Len(R), NEW x \in Nodes(h), NEW y \in Nodes(h),
             {h.ents[x].name, h.ents[y].name} \subseteq Scope(h, Gold),
             Key(h.ents[x]) = Key(h.ents[y]), Key(h.ents[x]) # <<>>
      PROVE  \/ \E c \in P : {h.ents[x].name, h.ents[y].name} \subseteq c
             \/ \E c \in Groups(h) : x \notin c
                  /\ \E z \in c : h.ents[z].name \in {h.ents[x].name, h.ents[y].name}
  <2> SUFFICES ASSUME \A c \in Groups(h) : x \notin c =>
                        \A z \in c : h.ents[z].name \notin {h.ents[x].name, h.ents[y].name}
               PROVE  \E c \in P : {h.ents[x].name, h.ents[y].name} \subseteq c
    OBVIOUS
  <2>1. h.ents[x].name \in Scope(h, Gold) /\ h.ents[y].name \in Scope(h, Gold)
    BY <1>7
  <2>2. QED
    BY <1>2, <1>4, <1>7, <2>1, OneCluster
<1>8. a.kind = "scored" =>
        /\ a.recall = Unit * a.items <=> \A d \in T : \E c \in P : d \subseteq c
        /\ a.precision = Unit * a.items <=> \A c \in P : \E d \in T : c \subseteq d
  BY <1>3, <1>4, <1>5, AliasFull
<1> HIDE DEF P, T
<1>9. QED
  BY <1>3, <1>6, <1>7, <1>8 DEF AliasesScored, h, a, P, T

\* The alias score of cat4 raises only over listed groups that share a name,
\* puts the names of a group together when all groups are listed, and is full
\* just when the clusters and the registry say the same.
THEOREM AliasesHold == ScoresSpec => []AliasesScored
<1>1. ScoresInit => ScoresInv
  BY DrawnGraphs
<1>2. ScoresInv /\ [ScoresNext]_scoresvars => ScoresInv'
  BY ScoresStep
<1>3. ScoresInv => AliasesScored
  BY ToldAliases DEF ScoresInv
<1>4. QED
  BY <1>1, <1>2, <1>3, PTL DEF ScoresSpec

=============================================================================
