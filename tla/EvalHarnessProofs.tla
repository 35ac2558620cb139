------------------------- MODULE EvalHarnessProofs -------------------------
(***************************************************************************)
(* Theorems about EvalHarness, for any files, any histories of runs and    *)
(* any matrix of readers.                                                  *)
(***************************************************************************)
EXTENDS EvalHarness, FiniteSetTheorems, WellFoundedInduction, TLAPS

(***************************************************************************)
(* The folds of Corpora.  A fold is the value of a function that is        *)
(* defined by recursion over the sets of numbers up to the length of the   *)
(* sequence, and chosen: so it is shown to exist first, by induction on    *)
(* the length, and then to take one element after another.                 *)
(***************************************************************************)

\* What holds of zero, and of a number when it holds of the one before, holds up to n.
LEMMA UpTo ==
  ASSUME NEW n \in Nat, NEW T, 0 \in T, \A k \in 0..(n - 1) : k \in T => k + 1 \in T
  PROVE  0..n \subseteq T
<1> DEFINE Missed == (0..n) \ T
           R == OpToRel(LAMBDA x, y : x < y, Nat)
<1>1. SUFFICES ASSUME Missed # {} PROVE FALSE
  OBVIOUS
<1>2. PICK k \in Missed : \A j \in Missed : ~(<<j, k>> \in R)
  <2>1. IsWellFoundedOn(R, Nat)
    BY NatLessThanWellFounded
  <2>2. Missed \subseteq Nat
    OBVIOUS
  <2> HIDE DEF R, Missed
  <2>3. QED
    BY <1>1, <2>1, <2>2, WFMin
<1>3. \A i, j \in Nat : i < j => <<i, j>> \in R
  BY DEF OpToRel
<1> HIDE DEF R
<1>4. PICK j : j = k - 1
  OBVIOUS
<1>5. k \in 0..n /\ k \notin T
  BY <1>2
<1>6. j \in 0..(n - 1) /\ j \in 0..n /\ j < k /\ j + 1 = k
  BY <1>4, <1>5
<1>7. <<j, k>> \in R
  BY <1>3, <1>5, <1>6
<1>8. j \notin Missed
  BY <1>2, <1>7
<1>9. QED
  BY <1>5, <1>6, <1>8

LEMMA LastOf ==
  ASSUME NEW k \in Nat \ {0}
  PROVE  /\ 1..k # {} /\ Max(1..k) = k /\ (1..k) \ {k} = 1..(k - 1)
<1>1. k \in 1..k /\ \A y \in 1..k : k >= y
  OBVIOUS
<1>2. Max(1..k) = k
  BY <1>1 DEF Max
<1>3. QED
  BY <1>1, <1>2

\* What a fold over the numbers up to n computes, with the step G.
IsFold(f, n, V, base, G) ==
  /\ f \in [SUBSET (1..n) -> V]
  /\ \A s \in SUBSET (1..n) :
       /\ s # {} => Max(s) \in 1..n
       /\ f[s] = IF s = {} THEN base ELSE G[<<Max(s), f[s \ {Max(s)}]>>]

LEMMA FoldExists ==
  ASSUME NEW n \in Nat, NEW V, NEW base \in V, NEW G \in [(1..n) \X V -> V]
  PROVE  \E f : IsFold(f, n, V, base, G)
<1> DEFINE T == {k \in 0..n : \E f : IsFold(f, k, V, base, G)}
<1>1. 0 \in T
  <2> DEFINE f == [s \in SUBSET (1..0) |-> base]
  <2>1. f \in [SUBSET (1..0) -> V] /\ \A s \in SUBSET (1..0) : s = {}
    OBVIOUS
  <2>2. IsFold(f, 0, V, base, G)
    BY <2>1 DEF IsFold
  <2>3. 0 \in 0..n
    OBVIOUS
  <2> HIDE DEF f
  <2>4. QED
    BY <2>2, <2>3
<1>2. ASSUME NEW k \in 0..(n - 1), k \in T
      PROVE  k + 1 \in T
  <2>1. PICK f : IsFold(f, k, V, base, G)
    BY <1>2
  <2> DEFINE m == k + 1
             g == [s \in SUBSET (1..m) |-> IF m \in s THEN G[<<m, f[s \ {m}]>>] ELSE f[s]]
  <2>2. /\ m \in 1..n /\ m \in 0..n
        /\ \A s \in SUBSET (1..m) : s \ {m} \in SUBSET (1..k) /\ (m \notin s => s \in SUBSET (1..k))
        /\ SUBSET (1..k) \subseteq SUBSET (1..m)
    OBVIOUS
  <2> HIDE DEF m
  <2>3. g \in [SUBSET (1..m) -> V]
    BY <2>1, <2>2 DEF IsFold
  <2>4. ASSUME NEW s \in SUBSET (1..m)
        PROVE  /\ s # {} => Max(s) \in 1..m
               /\ g[s] = IF s = {} THEN base ELSE G[<<Max(s), g[s \ {Max(s)}]>>]
    <3>1. CASE m \in s
      <4>1. Max(s) = m
        <5>1. \A y \in s : m >= y
          BY <2>2
        <5>2. \A x \in s : (\A y \in s : x >= y) => x = m
          BY <2>2, <3>1, <5>1
        <5>3. QED
          BY <3>1, <5>1, <5>2 DEF Max
      <4>2. g[s \ {m}] = f[s \ {m}]
        BY <2>2
      <4>3. QED
        BY <2>2, <3>1, <4>1, <4>2
    <3>2. CASE m \notin s
      <4>1. g[s] = f[s] /\ g[s \ {Max(s)}] = f[s \ {Max(s)}]
        BY <2>2, <3>2
      <4>2. s # {} => Max(s) \in 1..m
        <5>1. s \in SUBSET (1..k) /\ 1..k \subseteq 1..m
          BY <2>2, <3>2
        <5>2. QED
          BY <2>1, <5>1 DEF IsFold
      <4>3. QED
        BY <2>1, <2>2, <3>2, <4>1, <4>2 DEF IsFold
    <3>3. QED
      BY <3>1, <3>2
  <2> HIDE DEF g
  <2>5. IsFold(g, m, V, base, G)
    BY <2>3, <2>4 DEF IsFold
  <2>6. QED
    BY <2>2, <2>5 DEF m
<1>3. n \in T
  <2> HIDE DEF T
  <2>1. 0..n \subseteq T
    BY <1>1, <1>2, UpTo
  <2>2. QED
    BY <2>1
<1>4. QED
  BY <1>3

\* The values of a fold over the first numbers, one after another.
AreSteps(h, n, V, base, G) ==
  /\ h \in [0..n -> V]
  /\ h[0] = base
  /\ \A k \in 1..n : h[k] = G[<<k, h[k - 1]>>]

LEMMA FoldSteps ==
  ASSUME NEW n \in Nat, NEW V, NEW base \in V, NEW G \in [(1..n) \X V -> V],
         NEW f, f[{}] = base,
         \A k \in 1..n : f[1..(k - 1)] \in V => f[1..k] = G[<<k, f[1..(k - 1)]>>]
  PROVE  AreSteps([k \in 0..n |-> f[1..k]], n, V, base, G)
<1> DEFINE h == [k \in 0..n |-> f[1..k]]
           T == {k \in 0..n : h[k] \in V}
<1>1. h[0] = base
  <2>1. 1..0 = {}
    OBVIOUS
  <2>2. QED
    BY <2>1
<1>2. 0 \in T
  BY <1>1
<1>3. \A k \in 0..(n - 1) : k \in T => k + 1 \in T
  <2>1. \A k \in 0..(n - 1) : k + 1 \in 1..n /\ k + 1 \in 0..n /\ k \in 0..n /\ (k + 1) - 1 = k
    OBVIOUS
  <2>2. QED
    BY <2>1
<1>4. 0..n \subseteq T
  <2> HIDE DEF T
  <2>1. QED
    BY <1>2, <1>3, UpTo
<1>5. h \in [0..n -> V]
  BY <1>4
<1>6. ASSUME NEW k \in 1..n PROVE h[k] = G[<<k, h[k - 1]>>]
  <2>1. k \in 0..n /\ k - 1 \in 0..n
    OBVIOUS
  <2>2. f[1..(k - 1)] \in V
    BY <1>4, <2>1
  <2>3. QED
    BY <2>1, <2>2
<1> HIDE DEF h
<1>7. AreSteps(h, n, V, base, G)
  BY <1>1, <1>5, <1>6 DEF AreSteps
<1>8. QED
  BY <1>7 DEF h

\* Flattened joins one part after another.
Joining(S, seqs) ==
  [x \in (1..Len(seqs)) \X Seq(S) |-> x[2] \o seqs[x[1]]]

LEMMA FlattenedSteps ==
  ASSUME NEW S, NEW seqs \in Seq(Seq(S))
  PROVE  \E h : /\ AreSteps(h, Len(seqs), Seq(S), <<>>, Joining(S, seqs))
                /\ Flattened(seqs) = h[Len(seqs)]
<1> DEFINE n == Len(seqs)
           G == Joining(S, seqs)
           Op(v, x) == v \o x
           Unfolds(f) == f = [s \in SUBSET DOMAIN seqs |->
                                IF s = {} THEN <<>> ELSE Op(f[s \ {Max(s)}], seqs[Max(s)])]
<1>1. Flattened(seqs) = (CHOOSE f : Unfolds(f))[DOMAIN seqs]
  BY Zenon DEF Flattened, FoldLeft, MapThenFoldSet
<1>2. /\ n \in Nat /\ DOMAIN seqs = 1..n /\ <<>> \in Seq(S)
      /\ G \in [(1..n) \X Seq(S) -> Seq(S)]
      /\ \A k \in 1..n : \A v \in Seq(S) : G[<<k, v>>] = Op(v, seqs[k])
  <2>1. G \in [(1..n) \X Seq(S) -> Seq(S)]
    BY DEF Joining
  <2>2. \A k \in 1..n : \A v \in Seq(S) : G[<<k, v>>] = Op(v, seqs[k])
    BY DEF Joining
  <2> HIDE DEF G, Op
  <2>3. QED
    BY <2>1, <2>2
<1> HIDE DEF n, G
<1>3. \E f : Unfolds(f)
  <2>1. PICK f : IsFold(f, n, Seq(S), <<>>, G)
    BY <1>2, FoldExists
  <2>2. \A s \in SUBSET (1..n) : s # {} =>
          G[<<Max(s), f[s \ {Max(s)}]>>] = Op(f[s \ {Max(s)}], seqs[Max(s)])
    BY <1>2, <2>1 DEF IsFold
  <2>3. Unfolds(f)
    BY <1>2, <2>1, <2>2 DEF IsFold
  <2>4. QED
    BY <2>3
<1>4. PICK f : Unfolds(f) /\ Flattened(seqs) = f[1..n]
  BY <1>1, <1>2, <1>3
<1>5. f[{}] = <<>>
  BY <1>2, <1>4
<1>6. ASSUME NEW k \in 1..n, f[1..(k - 1)] \in Seq(S)
      PROVE  f[1..k] = G[<<k, f[1..(k - 1)]>>]
  <2>1. 1..k \in SUBSET (1..n) /\ k \in Nat \ {0}
    BY <1>2
  <2>2. f[1..k] = Op(f[(1..k) \ {Max(1..k)}], seqs[Max(1..k)])
    BY <1>2, <1>4, <2>1, LastOf
  <2>3. Max(1..k) = k /\ (1..k) \ {Max(1..k)} = 1..(k - 1)
    BY <2>1, LastOf
  <2>4. f[1..k] = Op(f[1..(k - 1)], seqs[k])
    BY <2>2, <2>3, Zenon
  <2>5. QED
    BY <1>2, <1>6, <2>4
<1>7. AreSteps([k \in 0..n |-> f[1..k]], n, Seq(S), <<>>, G)
  <2> HIDE DEF Unfolds
  <2>1. QED
    BY <1>2, <1>5, <1>6, FoldSteps
<1>8. [k \in 0..n |-> f[1..k]][n] = f[1..n]
  BY <1>2
<1>9. QED
  BY <1>4, <1>7, <1>8 DEF n, G

\* Among takes one element after another.
Keeping(S, T, seq) ==
  [x \in (1..Len(seq)) \X Seq(S) |-> IF seq[x[1]] \in T THEN Append(x[2], seq[x[1]]) ELSE x[2]]

LEMMA AmongSteps ==
  ASSUME NEW S, NEW T, NEW seq \in Seq(S)
  PROVE  \E h : /\ AreSteps(h, Len(seq), Seq(S), <<>>, Keeping(S, T, seq))
                /\ Among(seq, T) = h[Len(seq)]
<1> DEFINE n == Len(seq)
           G == Keeping(S, T, seq)
           Op(v, x) == IF x \in T THEN Append(v, x) ELSE v
           Unfolds(f) == f = [s \in SUBSET DOMAIN seq |->
                                IF s = {} THEN <<>> ELSE Op(f[s \ {Max(s)}], seq[Max(s)])]
<1>1. Among(seq, T) = (CHOOSE f : Unfolds(f))[DOMAIN seq]
  BY Zenon DEF Among, FoldLeft, MapThenFoldSet
<1>2. /\ n \in Nat /\ DOMAIN seq = 1..n /\ <<>> \in Seq(S)
      /\ G \in [(1..n) \X Seq(S) -> Seq(S)]
      /\ \A k \in 1..n : \A v \in Seq(S) : G[<<k, v>>] = Op(v, seq[k])
  <2>1. G \in [(1..n) \X Seq(S) -> Seq(S)]
    BY DEF Keeping
  <2>2. \A k \in 1..n : \A v \in Seq(S) : G[<<k, v>>] = Op(v, seq[k])
    BY DEF Keeping
  <2> HIDE DEF G, Op
  <2>3. QED
    BY <2>1, <2>2
<1> HIDE DEF n, G
<1>3. \E f : Unfolds(f)
  <2>1. PICK f : IsFold(f, n, Seq(S), <<>>, G)
    BY <1>2, FoldExists
  <2>2. \A s \in SUBSET (1..n) : s # {} =>
          G[<<Max(s), f[s \ {Max(s)}]>>] = Op(f[s \ {Max(s)}], seq[Max(s)])
    BY <1>2, <2>1 DEF IsFold
  <2>3. Unfolds(f)
    BY <1>2, <2>1, <2>2 DEF IsFold
  <2>4. QED
    BY <2>3
<1>4. PICK f : Unfolds(f) /\ Among(seq, T) = f[1..n]
  BY <1>1, <1>2, <1>3
<1>5. f[{}] = <<>>
  BY <1>2, <1>4
<1>6. ASSUME NEW k \in 1..n, f[1..(k - 1)] \in Seq(S)
      PROVE  f[1..k] = G[<<k, f[1..(k - 1)]>>]
  <2>1. 1..k \in SUBSET (1..n) /\ k \in Nat \ {0}
    BY <1>2
  <2>2. f[1..k] = Op(f[(1..k) \ {Max(1..k)}], seq[Max(1..k)])
    BY <1>2, <1>4, <2>1, LastOf
  <2>3. Max(1..k) = k /\ (1..k) \ {Max(1..k)} = 1..(k - 1)
    BY <2>1, LastOf
  <2>4. f[1..k] = Op(f[1..(k - 1)], seq[k])
    BY <2>2, <2>3, Zenon
  <2>5. QED
    BY <1>2, <1>6, <2>4
<1>7. AreSteps([k \in 0..n |-> f[1..k]], n, Seq(S), <<>>, G)
  <2> HIDE DEF Unfolds
  <2>1. QED
    BY <1>2, <1>5, <1>6, FoldSteps
<1>8. [k \in 0..n |-> f[1..k]][n] = f[1..n]
  BY <1>2
<1>9. QED
  BY <1>4, <1>7, <1>8 DEF n, G

\* EvidenceSessions takes one turn after another.
Naming(N, dias) ==
  [x \in (1..Len(dias)) \X Seq(N) |->
     IF dias[x[1]].turn = "malformed" \/ Contains(x[2], Name("D", dias[x[1]].session)) THEN x[2]
     ELSE Append(x[2], Name("D", dias[x[1]].session))]

LEMMA EvidenceSteps ==
  ASSUME NEW N, NEW D, NEW dias \in Seq(D), \A x \in D : Name("D", x.session) \in N
  PROVE  \E h : /\ AreSteps(h, Len(dias), Seq(N), <<>>, Naming(N, dias))
                /\ EvidenceSessions(dias) = h[Len(dias)]
<1> DEFINE n == Len(dias)
           G == Naming(N, dias)
           Op(v, x) == IF x.turn = "malformed" \/ Contains(v, Name("D", x.session)) THEN v
                       ELSE Append(v, Name("D", x.session))
           Unfolds(f) == f = [s \in SUBSET DOMAIN dias |->
                                IF s = {} THEN <<>> ELSE Op(f[s \ {Max(s)}], dias[Max(s)])]
<1>1. EvidenceSessions(dias) = (CHOOSE f : Unfolds(f))[DOMAIN dias]
  BY Zenon DEF EvidenceSessions, FoldLeft, MapThenFoldSet
<1>2. /\ n \in Nat /\ DOMAIN dias = 1..n /\ <<>> \in Seq(N)
      /\ G \in [(1..n) \X Seq(N) -> Seq(N)]
      /\ \A k \in 1..n : \A v \in Seq(N) : G[<<k, v>>] = Op(v, dias[k])
  <2>1. G \in [(1..n) \X Seq(N) -> Seq(N)]
    BY DEF Naming
  <2>2. \A k \in 1..n : \A v \in Seq(N) : G[<<k, v>>] = Op(v, dias[k])
    BY DEF Naming
  <2> HIDE DEF G, Op
  <2>3. QED
    BY <2>1, <2>2
<1> HIDE DEF n, G
<1>3. \E f : Unfolds(f)
  <2>1. PICK f : IsFold(f, n, Seq(N), <<>>, G)
    BY <1>2, FoldExists
  <2>2. \A s \in SUBSET (1..n) : s # {} =>
          G[<<Max(s), f[s \ {Max(s)}]>>] = Op(f[s \ {Max(s)}], dias[Max(s)])
    BY <1>2, <2>1 DEF IsFold
  <2>3. Unfolds(f)
    BY <1>2, <2>1, <2>2 DEF IsFold
  <2>4. QED
    BY <2>3
<1>4. PICK f : Unfolds(f) /\ EvidenceSessions(dias) = f[1..n]
  BY <1>1, <1>2, <1>3
<1>5. f[{}] = <<>>
  BY <1>2, <1>4
<1>6. ASSUME NEW k \in 1..n, f[1..(k - 1)] \in Seq(N)
      PROVE  f[1..k] = G[<<k, f[1..(k - 1)]>>]
  <2>1. 1..k \in SUBSET (1..n) /\ k \in Nat \ {0}
    BY <1>2
  <2>2. f[1..k] = Op(f[(1..k) \ {Max(1..k)}], dias[Max(1..k)])
    BY <1>2, <1>4, <2>1, LastOf
  <2>3. Max(1..k) = k /\ (1..k) \ {Max(1..k)} = 1..(k - 1)
    BY <2>1, LastOf
  <2>4. f[1..k] = Op(f[1..(k - 1)], dias[k])
    BY <2>2, <2>3, Zenon
  <2>5. QED
    BY <1>2, <1>6, <2>4
<1>7. AreSteps([k \in 0..n |-> f[1..k]], n, Seq(N), <<>>, G)
  <2> HIDE DEF Unfolds
  <2>1. QED
    BY <1>2, <1>5, <1>6, FoldSteps
<1>8. [k \in 0..n |-> f[1..k]][n] = f[1..n]
  BY <1>2
<1>9. QED
  BY <1>4, <1>7, <1>8 DEF n, G

\* VaultsMet meets the vault of one question after another.
Meeting(N, qs) ==
  [x \in (1..Len(qs)) \X Seq(N) |-> IF Contains(x[2], qs[x[1]].vault) THEN x[2] ELSE Append(x[2], qs[x[1]].vault)]

LEMMA MetSteps ==
  ASSUME NEW N, NEW Q, NEW qs \in Seq(Q), \A q \in Q : q.vault \in N
  PROVE  \E h : /\ AreSteps(h, Len(qs), Seq(N), <<>>, Meeting(N, qs))
                /\ VaultsMet(qs) = h[Len(qs)]
<1> DEFINE n == Len(qs)
           G == Meeting(N, qs)
           Op(v, x) == IF Contains(v, x.vault) THEN v ELSE Append(v, x.vault)
           Unfolds(f) == f = [s \in SUBSET DOMAIN qs |->
                                IF s = {} THEN <<>> ELSE Op(f[s \ {Max(s)}], qs[Max(s)])]
<1>1. VaultsMet(qs) = (CHOOSE f : Unfolds(f))[DOMAIN qs]
  BY Zenon DEF VaultsMet, FoldLeft, MapThenFoldSet
<1>2. /\ n \in Nat /\ DOMAIN qs = 1..n /\ <<>> \in Seq(N)
      /\ G \in [(1..n) \X Seq(N) -> Seq(N)]
      /\ \A k \in 1..n : \A v \in Seq(N) : G[<<k, v>>] = Op(v, qs[k])
  <2>1. G \in [(1..n) \X Seq(N) -> Seq(N)]
    BY DEF Meeting
  <2>2. \A k \in 1..n : \A v \in Seq(N) : G[<<k, v>>] = Op(v, qs[k])
    BY DEF Meeting
  <2> HIDE DEF G, Op
  <2>3. QED
    BY <2>1, <2>2
<1> HIDE DEF n, G
<1>3. \E f : Unfolds(f)
  <2>1. PICK f : IsFold(f, n, Seq(N), <<>>, G)
    BY <1>2, FoldExists
  <2>2. \A s \in SUBSET (1..n) : s # {} =>
          G[<<Max(s), f[s \ {Max(s)}]>>] = Op(f[s \ {Max(s)}], qs[Max(s)])
    BY <1>2, <2>1 DEF IsFold
  <2>3. Unfolds(f)
    BY <1>2, <2>1, <2>2 DEF IsFold
  <2>4. QED
    BY <2>3
<1>4. PICK f : Unfolds(f) /\ VaultsMet(qs) = f[1..n]
  BY <1>1, <1>2, <1>3
<1>5. f[{}] = <<>>
  BY <1>2, <1>4
<1>6. ASSUME NEW k \in 1..n, f[1..(k - 1)] \in Seq(N)
      PROVE  f[1..k] = G[<<k, f[1..(k - 1)]>>]
  <2>1. 1..k \in SUBSET (1..n) /\ k \in Nat \ {0}
    BY <1>2
  <2>2. f[1..k] = Op(f[(1..k) \ {Max(1..k)}], qs[Max(1..k)])
    BY <1>2, <1>4, <2>1, LastOf
  <2>3. Max(1..k) = k /\ (1..k) \ {Max(1..k)} = 1..(k - 1)
    BY <2>1, LastOf
  <2>4. f[1..k] = Op(f[1..(k - 1)], qs[k])
    BY <2>2, <2>3, Zenon
  <2>5. QED
    BY <1>2, <1>6, <2>4
<1>7. AreSteps([k \in 0..n |-> f[1..k]], n, Seq(N), <<>>, G)
  <2> HIDE DEF Unfolds
  <2>1. QED
    BY <1>2, <1>5, <1>6, FoldSteps
<1>8. [k \in 0..n |-> f[1..k]][n] = f[1..n]
  BY <1>2
<1>9. QED
  BY <1>4, <1>7, <1>8 DEF n, G

\* What they give.
LEMMA FlattenedIn ==
  ASSUME NEW S, NEW seqs \in Seq(Seq(S))
  PROVE  Flattened(seqs) \in Seq(S)
<1>1. PICK h : /\ AreSteps(h, Len(seqs), Seq(S), <<>>, Joining(S, seqs))
               /\ Flattened(seqs) = h[Len(seqs)]
  BY FlattenedSteps
<1>2. Len(seqs) \in 0..Len(seqs)
  OBVIOUS
<1>3. QED
  BY <1>1, <1>2 DEF AreSteps

LEMMA EvidenceIn ==
  ASSUME NEW N, NEW D, NEW dias \in Seq(D), \A x \in D : Name("D", x.session) \in N
  PROVE  EvidenceSessions(dias) \in Seq(N)
<1>1. PICK h : /\ AreSteps(h, Len(dias), Seq(N), <<>>, Naming(N, dias))
               /\ EvidenceSessions(dias) = h[Len(dias)]
  BY EvidenceSteps
<1>2. Len(dias) \in 0..Len(dias)
  OBVIOUS
<1>3. QED
  BY <1>1, <1>2 DEF AreSteps

LEMMA VaultsMetIn ==
  ASSUME NEW N, NEW Q, NEW qs \in Seq(Q), \A q \in Q : q.vault \in N
  PROVE  VaultsMet(qs) \in Seq(N)
<1>1. PICK h : /\ AreSteps(h, Len(qs), Seq(N), <<>>, Meeting(N, qs))
               /\ VaultsMet(qs) = h[Len(qs)]
  BY MetSteps
<1>2. Len(qs) \in 0..Len(qs)
  OBVIOUS
<1>3. QED
  BY <1>1, <1>2 DEF AreSteps

LEMMA AppendedSet ==
  ASSUME NEW S, NEW s \in Seq(S), NEW x \in S
  PROVE  ToSet(Append(s, x)) = ToSet(s) \cup {x}
<1> DEFINE n == Len(s)
           a == Append(s, x)
<1>1. /\ DOMAIN s = 1..n /\ DOMAIN a = 1..(n + 1) /\ n \in Nat
      /\ a[n + 1] = x /\ \A i \in 1..n : a[i] = s[i]
  OBVIOUS
<1> HIDE DEF n, a
<1>2. \A y : y \in ToSet(a) <=> y \in ToSet(s) \/ y = x
  BY <1>1 DEF ToSet
<1>3. QED
  BY <1>2 DEF a

LEMMA AmongIn ==
  ASSUME NEW S, NEW T, NEW seq \in Seq(S)
  PROVE  /\ Among(seq, T) \in Seq(S)
         /\ ToSet(Among(seq, T)) = ToSet(seq) \cap T
<1> DEFINE n == Len(seq)
<1>1. PICK h : /\ AreSteps(h, n, Seq(S), <<>>, Keeping(S, T, seq))
               /\ Among(seq, T) = h[n]
  BY AmongSteps
<1>2. n \in Nat /\ n \in 0..n
  OBVIOUS
<1>3. /\ h \in [0..n -> Seq(S)] /\ h[0] = <<>>
      /\ \A k \in 1..n : h[k] = Keeping(S, T, seq)[<<k, h[k - 1]>>]
  BY <1>1 DEF AreSteps
<1> DEFINE First(k) == {seq[i] : i \in 1..k}
           Done == {k \in 0..n : ToSet(h[k]) = First(k) \cap T}
<1>4. 0 \in Done
  BY <1>2, <1>3 DEF ToSet
<1>5. ASSUME NEW k \in 0..(n - 1), k \in Done
      PROVE  k + 1 \in Done
  <2> DEFINE m == k + 1
  <2>1. m \in 1..n /\ m \in 0..n /\ k \in 0..n /\ m - 1 = k /\ 1..m = (1..k) \cup {m}
    OBVIOUS
  <2> HIDE DEF m, n
  <2>2. h[m] = IF seq[m] \in T THEN Append(h[k], seq[m]) ELSE h[k]
    BY <1>3, <2>1 DEF Keeping, n
  <2>3. h[k] \in Seq(S) /\ seq[m] \in S
    BY <1>3, <2>1 DEF n
  <2>4. ToSet(h[m]) = IF seq[m] \in T THEN ToSet(h[k]) \cup {seq[m]} ELSE ToSet(h[k])
    <3>1. ToSet(Append(h[k], seq[m])) = ToSet(h[k]) \cup {seq[m]}
      BY <2>3, AppendedSet
    <3>2. QED
      BY <2>2, <3>1
  <2>5. First(m) = First(k) \cup {seq[m]}
    BY <2>1
  <2>6. ToSet(h[k]) = First(k) \cap T
    BY <1>5
  <2> HIDE DEF First
  <2>7. ToSet(h[m]) = First(m) \cap T
    BY <2>4, <2>5, <2>6
  <2>8. QED
    BY <2>1, <2>7 DEF m
<1>6. 0..n \subseteq Done
  <2> HIDE DEF Done, n
  <2>1. QED
    BY <1>2, <1>4, <1>5, UpTo
<1>7. First(n) = ToSet(seq)
  BY DEF ToSet
<1>8. QED
  BY <1>1, <1>2, <1>3, <1>6, <1>7

(***************************************************************************)
(* The questions of a file.                                                *)
(***************************************************************************)

QuestionsOf(ds) == ToSet(Loaded(Files[ds]))
AllQuestions    == UNION {QuestionsOf(ds) : ds \in DOMAIN Files}

\* What the loader of the corpus makes of a record.
Made(ds) ==
  LET rows == Files[ds].records
  IN CASE Files[ds].corpus = "longmemeval" -> {FromLongMemEval(rows[i]) : i \in DOMAIN rows}
       [] Files[ds].corpus = "locomo" -> UNION {ToSet(FromLoCoMo(rows[i])) : i \in DOMAIN rows}
       [] Files[ds].corpus = "beam" -> UNION {ToSet(FromBeam(rows[i])) : i \in DOMAIN rows}

\* A question for each qa of a LoCoMo sample.
LEMMA LoCoMoQuestions ==
  ASSUME NEW sample
  PROVE  /\ DOMAIN FromLoCoMo(sample) = DOMAIN sample.qa
         /\ FromLoCoMo(sample) = [k \in DOMAIN sample.qa |-> FromLoCoMo(sample)[k]]
BY Zenon DEF FromLoCoMo

LEMMA SeqOfSet ==
  ASSUME NEW s, NEW n \in Nat, DOMAIN s = 1..n, s = [i \in 1..n |-> s[i]],
         NEW S, \A i \in 1..n : s[i] \in S
  PROVE  s \in Seq(S)
OBVIOUS

LEMMA SeqOfOwn ==
  ASSUME NEW S, NEW s \in Seq(S)
  PROVE  s \in Seq(ToSet(s)) /\ ToSet(s) \subseteq S
<1>1. Len(s) \in Nat /\ DOMAIN s = 1..Len(s) /\ s = [i \in 1..Len(s) |-> s[i]]
  OBVIOUS
<1>2. \A i \in 1..Len(s) : s[i] \in ToSet(s)
  BY <1>1 DEF ToSet
<1>3. s \in Seq(ToSet(s))
  BY <1>1, <1>2, SeqOfSet
<1>4. QED
  BY <1>3 DEF ToSet

LEMMA LoadedIn ==
  ASSUME NEW ds \in DOMAIN Files
  PROVE  /\ Loaded(Files[ds]) \in Seq(Made(ds))
         /\ QuestionsOf(ds) \subseteq Made(ds)
         /\ Loaded(Files[ds]) \in Seq(QuestionsOf(ds))
<1> DEFINE rs == Files[ds].records
<1>1. /\ rs \in Seq(ToSet(rs)) /\ Files[ds].corpus \in {"longmemeval", "locomo", "beam"}
      /\ \A i \in DOMAIN rs : OfFile(Files[ds].corpus, rs[i])
  BY FilesAssumption
<1>2. Len(rs) \in Nat /\ DOMAIN rs = 1..Len(rs)
  BY <1>1
<1>3. CASE Files[ds].corpus = "longmemeval"
  <2>1. /\ Loaded(Files[ds]) = [i \in DOMAIN rs |-> FromLongMemEval(rs[i])]
        /\ Made(ds) = {FromLongMemEval(rs[i]) : i \in DOMAIN rs}
    BY <1>3 DEF Loaded, Made
  <2> HIDE DEF rs
  <2>2. Loaded(Files[ds]) \in Seq(Made(ds))
    BY <1>2, <2>1
  <2>3. QED
    BY <2>2, SeqOfOwn DEF QuestionsOf
<1>4. CASE Files[ds].corpus = "locomo"
  <2> DEFINE parts == [i \in DOMAIN rs |-> FromLoCoMo(rs[i])]
  <2>1. /\ Loaded(Files[ds]) = Flattened(parts)
        /\ Made(ds) = UNION {ToSet(FromLoCoMo(rs[i])) : i \in DOMAIN rs}
    BY <1>4 DEF Loaded, Made
  <2>2. ASSUME NEW i \in DOMAIN rs
        PROVE  FromLoCoMo(rs[i]) \in Seq(Made(ds))
    <3> DEFINE qs == FromLoCoMo(rs[i])
               m == Len(rs[i].qa)
    <3>1. rs[i].qa \in Seq(ToSet(rs[i].qa))
      BY <1>1, <1>4 DEF OfFile
    <3>2. /\ m \in Nat /\ DOMAIN qs = 1..m /\ qs = [k \in 1..m |-> qs[k]]
      <4>1. m \in Nat /\ DOMAIN rs[i].qa = 1..m
        BY <3>1
      <4>2. DOMAIN qs = DOMAIN rs[i].qa /\ qs = [k \in DOMAIN rs[i].qa |-> qs[k]]
        BY Zenon, LoCoMoQuestions
      <4> HIDE DEF qs, m
      <4>3. QED
        BY Zenon, <4>1, <4>2
    <3> HIDE DEF m
    <3>3. \A k \in 1..m : qs[k] \in ToSet(qs)
      BY <3>2 DEF ToSet
    <3>4. ToSet(qs) \subseteq Made(ds)
      BY <2>1
    <3> HIDE DEF qs
    <3>5. qs \in Seq(Made(ds))
      BY <3>2, <3>3, <3>4, SeqOfSet
    <3>6. QED
      BY <3>5 DEF qs
  <2> HIDE DEF rs
  <2>3. parts \in Seq(Seq(Made(ds)))
    BY <1>2, <2>2
  <2> HIDE DEF parts
  <2>4. Loaded(Files[ds]) \in Seq(Made(ds))
    BY <2>1, <2>3, FlattenedIn
  <2>5. QED
    BY <2>4, SeqOfOwn DEF QuestionsOf
<1>5. CASE Files[ds].corpus = "beam"
  <2> DEFINE parts == [i \in DOMAIN rs |-> FromBeam(rs[i])]
  <2>1. /\ Loaded(Files[ds]) = Flattened(parts)
        /\ Made(ds) = UNION {ToSet(FromBeam(rs[i])) : i \in DOMAIN rs}
    BY <1>5 DEF Loaded, Made
  <2>2. ASSUME NEW i \in DOMAIN rs
        PROVE  FromBeam(rs[i]) \in Seq(Made(ds))
    <3> DEFINE qs == FromBeam(rs[i])
               m == Len(rs[i].items)
    <3>1. rs[i].items \in Seq(ToSet(rs[i].items))
      BY <1>1, <1>5 DEF OfFile
    <3>2. /\ m \in Nat /\ DOMAIN qs = 1..m /\ qs = [k \in 1..m |-> qs[k]]
      BY <3>1 DEF FromBeam
    <3> HIDE DEF m
    <3>3. \A k \in 1..m : qs[k] \in ToSet(qs)
      BY <3>2 DEF ToSet
    <3>4. ToSet(qs) \subseteq Made(ds)
      BY <2>1
    <3> HIDE DEF qs
    <3>5. qs \in Seq(Made(ds))
      BY <3>2, <3>3, <3>4, SeqOfSet
    <3>6. QED
      BY <3>5 DEF qs
  <2> HIDE DEF rs
  <2>3. parts \in Seq(Seq(Made(ds)))
    BY <1>2, <2>2
  <2> HIDE DEF parts
  <2>4. Loaded(Files[ds]) \in Seq(Made(ds))
    BY <2>1, <2>3, FlattenedIn
  <2>5. QED
    BY <2>4, SeqOfOwn DEF QuestionsOf
<1>6. QED
  BY <1>1, <1>3, <1>4, <1>5

\* The names a memory system makes up for what it holds.
Unnamed == {"omega", "mempalace-daemon", "familiar"}

\* What the run and the sweep rely on in a question.
Sound(q) ==
  /\ q.abs \in BOOLEAN
  /\ q.type = "abstention" => q.abs
  /\ q.judgedAs = "abstention" => q.abs
  /\ q.hay \in Seq(ToSet(q.hay))
  /\ q.expected \in Seq(ToSet(q.expected))
  /\ \A s \in ToSet(q.expected) : s[1] \notin Unnamed

LEMMA LongMemEvalSound ==
  ASSUME NEW r, OfFile("longmemeval", r)
  PROVE  Sound(FromLongMemEval(r))
BY DEF OfFile, FromLongMemEval, Sound, Unnamed

LEMMA LoCoMoSound ==
  ASSUME NEW r, OfFile("locomo", r), NEW k \in DOMAIN r.qa
  PROVE  Sound(FromLoCoMo(r)[k])
<1> DEFINE qa == r.qa[k]
           q == FromLoCoMo(r)[k]
           Named(D) == {Name("D", x.session) : x \in D}
<1>1. /\ r.sessions \in Seq(ToSet(r.sessions))
      /\ qa.category \in 1..5 /\ qa.evidence \in Seq(ToSet(qa.evidence))
  <2>1. qa \in ToSet(r.qa)
    BY DEF ToSet
  <2>2. QED
    BY <2>1 DEF OfFile
<1>2. /\ q.hay = r.sessions /\ q.abs = (qa.category = 5)
      /\ q.type = LoCoMoType[qa.category] /\ q.judgedAs = JudgeType(LoCoMoType[qa.category])
      /\ q.expected = EvidenceSessions(qa.evidence)
  BY DEF FromLoCoMo
<1> HIDE DEF qa, q
<1>3. q.type # "abstention" /\ q.judgedAs # "abstention"
  BY <1>1, <1>2 DEF LoCoMoType, JudgeType
<1>4. q.expected \in Seq(Named(ToSet(qa.evidence)))
  <2>1. \A x \in ToSet(qa.evidence) : Name("D", x.session) \in Named(ToSet(qa.evidence))
    OBVIOUS
  <2> HIDE DEF Named
  <2>2. QED
    BY <1>1, <1>2, <2>1, EvidenceIn
<1>5. /\ q.expected \in Seq(ToSet(q.expected))
      /\ \A s \in ToSet(q.expected) : s \in Named(ToSet(qa.evidence))
  <2> HIDE DEF Named
  <2>1. QED
    BY <1>4, SeqOfOwn
<1>6. \A s \in ToSet(q.expected) : s[1] \notin Unnamed
  BY <1>5 DEF Name, Unnamed
<1>7. QED
  BY <1>1, <1>2, <1>3, <1>5, <1>6 DEF Sound, q

LEMMA BeamSound ==
  ASSUME NEW r, OfFile("beam", r), NEW k \in DOMAIN r.items
  PROVE  Sound(FromBeam(r)[k])
<1> DEFINE item == r.items[k]
           q == FromBeam(r)[k]
           T == {x \in ToSet(r.sessions) : x.turns \cap item.turns # {}}
           Holding == Among(r.sessions, T)
<1>1. /\ r.sessions \in Seq(ToSet(r.sessions))
      /\ \A x \in ToSet(r.sessions) : x.id[1] \notin Unnamed
  BY DEF OfFile, Unnamed
<1>2. /\ q.hay = r.sessions /\ q.abs = (item.ability = "abstention")
      /\ q.type = item.ability /\ q.judgedAs = item.ability
      /\ q.expected = [i \in DOMAIN Holding |-> Holding[i].id]
  BY DEF FromBeam, SessionsOfTurns
<1>3. Holding \in Seq(ToSet(r.sessions))
  BY <1>1, AmongIn
<1> HIDE DEF item, q, Holding
<1>4. q.expected \in Seq({x.id : x \in ToSet(r.sessions)})
  BY <1>2, <1>3
<1>5. /\ q.expected \in Seq(ToSet(q.expected))
      /\ \A s \in ToSet(q.expected) : \E x \in ToSet(r.sessions) : s = x.id
  BY <1>4, SeqOfOwn
<1>6. \A s \in ToSet(q.expected) : s[1] \notin Unnamed
  BY <1>1, <1>5
<1>7. QED
  BY <1>1, <1>2, <1>5, <1>6 DEF Sound, q

\* The questions of a vault have the same haystack.
LEMMA MadeSound ==
  ASSUME NEW ds \in DOMAIN Files
  PROVE  /\ \A q \in Made(ds) : Sound(q)
         /\ \A q, p \in Made(ds) : q.vault = p.vault => q.hay = p.hay
<1> DEFINE rs == Files[ds].records
<1>1. /\ Files[ds].corpus \in {"longmemeval", "locomo", "beam"}
      /\ \A i \in DOMAIN rs : OfFile(Files[ds].corpus, rs[i])
      /\ \A i, j \in DOMAIN rs : rs[i].id = rs[j].id => i = j
  BY FilesAssumption
<1>2. CASE Files[ds].corpus = "longmemeval"
  <2>1. Made(ds) = {FromLongMemEval(rs[i]) : i \in DOMAIN rs}
    BY <1>2 DEF Made
  <2>2. \A i \in DOMAIN rs : /\ FromLongMemEval(rs[i]).vault = rs[i].id
                             /\ FromLongMemEval(rs[i]).hay = rs[i].sessions
    BY DEF FromLongMemEval
  <2> HIDE DEF rs
  <2>3. QED
    BY <1>1, <1>2, <2>1, <2>2, LongMemEvalSound
<1>3. CASE Files[ds].corpus = "locomo"
  <2>1. \A q \in Made(ds) : \E i \in DOMAIN rs : \E k \in DOMAIN rs[i].qa :
          q = FromLoCoMo(rs[i])[k]
    BY <1>3, LoCoMoQuestions DEF Made, ToSet
  <2>2. \A i \in DOMAIN rs : \A k \in DOMAIN rs[i].qa :
          /\ FromLoCoMo(rs[i])[k].vault = rs[i].id
          /\ FromLoCoMo(rs[i])[k].hay = rs[i].sessions
    BY DEF FromLoCoMo
  <2> HIDE DEF rs
  <2>3. QED
    BY <1>1, <1>3, <2>1, <2>2, LoCoMoSound
<1>4. CASE Files[ds].corpus = "beam"
  <2>1. \A q \in Made(ds) : \E i \in DOMAIN rs : \E k \in DOMAIN rs[i].items :
          q = FromBeam(rs[i])[k]
    BY <1>4 DEF Made, ToSet, FromBeam
  <2>2. \A i \in DOMAIN rs : \A k \in DOMAIN rs[i].items :
          /\ FromBeam(rs[i])[k].vault = rs[i].id
          /\ FromBeam(rs[i])[k].hay = rs[i].sessions
    BY DEF FromBeam
  <2> HIDE DEF rs
  <2>3. QED
    BY <1>1, <1>4, <2>1, <2>2, BeamSound
<1>5. QED
  BY <1>1, <1>2, <1>3, <1>4

\* A verdict agrees with what kind of question it is of.
Fits(q, l) == (l = "ABSTAIN" => q.abs) /\ (l = "CORRECT" => ~q.abs)

LEMMA QuestionFits ==
  \A q \in AllQuestions : \A reply : Fits(q, Graded(AskedAgainAs(q), reply))
<1> SUFFICES ASSUME NEW q \in AllQuestions, NEW reply
             PROVE  Fits(q, Graded(AskedAgainAs(q), reply))
  OBVIOUS
<1>1. Sound(q)
  BY LoadedIn, MadeSound DEF AllQuestions
<1>2. QED
  BY <1>1 DEF Sound, Fits, Graded, AskedAgainAs, Template

(***************************************************************************)
(* The questions a run takes.                                              *)
(***************************************************************************)

LEMMA Beginning ==
  ASSUME NEW S, NEW s \in Seq(S), NEW n \in Nat
  PROVE  SubSeq(s, 1, IF Len(s) < n THEN Len(s) ELSE n) \in Seq(S)
<1> DEFINE m == IF Len(s) < n THEN Len(s) ELSE n
<1>1. m \in Nat /\ m <= Len(s)
  OBVIOUS
<1> HIDE DEF m
<1>2. SubSeq(s, 1, m) \in Seq(S)
  BY <1>1
<1>3. QED
  BY <1>2 DEF m

LEMMA RoundIn ==
  ASSUME NEW S, NEW qs \in Seq(S), NEW types, types \in Seq(ToSet(types)), NEW k \in Nat \ {0}
  PROVE  Round(qs, types, k) \in Seq(S)
<1> DEFINE T == {t \in ToSet(types) : Len(OfType(qs, t)) >= k}
           Giving == Among(types, T)
<1>1. Giving \in Seq(ToSet(types)) /\ ToSet(Giving) = ToSet(types) \cap T
  BY AmongIn
<1>2. Round(qs, types, k) = [i \in DOMAIN Giving |-> OfType(qs, Giving[i])[k]]
  BY DEF Round
<1>3. ASSUME NEW i \in DOMAIN Giving
      PROVE  OfType(qs, Giving[i])[k] \in S
  <2>1. Giving[i] \in T
    <3>1. Giving[i] \in ToSet(Giving)
      BY DEF ToSet
    <3>2. QED
      BY <1>1, <3>1
  <2> DEFINE of == OfType(qs, Giving[i])
  <2>2. of \in Seq(S)
    BY AmongIn DEF OfType
  <2>3. Len(of) >= k
    BY <2>1
  <2> HIDE DEF of
  <2>4. of[k] \in S
    BY <2>2, <2>3
  <2>5. QED
    BY <2>4 DEF of
<1> HIDE DEF Giving
<1>4. Len(Giving) \in Nat /\ DOMAIN Giving = 1..Len(Giving)
  BY <1>1
<1>5. QED
  BY <1>2, <1>3, <1>4

LEMMA SelectedIn ==
  ASSUME NEW p \in Plan
  PROVE  Selected(p) \in Seq(QuestionsOf(p.ds))
<1>1. p.ds \in DOMAIN Files /\ p.cap \in Nat
  BY DEF Plan
<1> DEFINE qs == Questions(p)
           Q == QuestionsOf(p.ds)
<1>2. qs \in Seq(Q)
  BY <1>1, LoadedIn DEF Questions
<1> HIDE DEF qs, Q
<1>3. Capped(qs, p.cap) \in Seq(Q)
  BY <1>1, <1>2, Beginning DEF Capped
<1>4. Stratified(qs, TypeOrder, p.cap) \in Seq(Q)
  <2> DEFINE parts == [k \in DOMAIN qs |-> Round(qs, TypeOrder, k)]
  <2>1. Len(qs) \in Nat /\ DOMAIN qs = 1..Len(qs)
    BY <1>2
  <2>2. \A k \in 1..Len(qs) : Round(qs, TypeOrder, k) \in Seq(Q)
    BY <1>2, <2>1, RoundIn, PlansAssumption
  <2>3. parts \in Seq(Seq(Q))
    BY <2>1, <2>2
  <2> HIDE DEF parts
  <2>4. Flattened(parts) \in Seq(Q)
    BY <2>3, FlattenedIn
  <2>5. QED
    BY <1>1, <2>4, Beginning DEF Stratified, parts
<1>5. QED
  BY <1>3, <1>4 DEF Selected, qs, Q

\* A group: questions of one vault.
GroupsOf(ds) ==
  {g \in Seq(QuestionsOf(ds)) : g # <<>> /\ \A i, j \in DOMAIN g : g[i].vault = g[j].vault}

LEMMA GroupsIn ==
  ASSUME NEW ds, NEW corpus, NEW qs \in Seq(QuestionsOf(ds))
  PROVE  Groups(corpus, qs) \in Seq(GroupsOf(ds))
<1> DEFINE Q == ToSet(qs)
<1>1. qs \in Seq(Q) /\ Q \subseteq QuestionsOf(ds)
  BY SeqOfOwn
<1>2. CASE corpus = "longmemeval"
  <2>1. \A i \in DOMAIN qs : <<qs[i]>> \in GroupsOf(ds)
    BY DEF GroupsOf
  <2>2. Groups(corpus, qs) = [i \in DOMAIN qs |-> <<qs[i]>>]
    BY <1>2 DEF Groups
  <2>3. QED
    BY <2>1, <2>2
<1>3. CASE corpus # "longmemeval"
  <2> DEFINE N == {q.vault : q \in Q}
             vaults == VaultsMet(qs)
             Part(i) == Among(qs, {q \in Q : q.vault = vaults[i]})
  <2>1. vaults \in Seq(N)
    <3>1. \A q \in Q : q.vault \in N
      OBVIOUS
    <3> HIDE DEF N, Q
    <3>2. QED
      BY <1>1, <3>1, VaultsMetIn
  <2>2. Groups(corpus, qs) = [i \in DOMAIN vaults |-> Part(i)]
    BY <1>3 DEF Groups
  <2>3. ASSUME NEW i \in DOMAIN vaults
        PROVE  Part(i) \in GroupsOf(ds)
    <3> DEFINE V == {q \in Q : q.vault = vaults[i]}
               g == Among(qs, V)
    <3>1. g \in Seq(QuestionsOf(ds)) /\ ToSet(g) = Q \cap V
      BY AmongIn
    <3>2. PICK q \in Q : q.vault = vaults[i]
      BY <2>1
    <3>3. q \in ToSet(g)
      BY <3>1, <3>2
    <3> HIDE DEF g, vaults
    <3>4. g # <<>>
      BY <3>3 DEF ToSet
    <3>5. \A j \in DOMAIN g : g[j].vault = vaults[i]
      BY <3>1 DEF ToSet
    <3>6. QED
      BY <3>1, <3>4, <3>5 DEF GroupsOf, g
  <2> HIDE DEF vaults, Part
  <2>4. QED
    BY <2>1, <2>2, <2>3
<1>4. QED
  BY <1>2, <1>3

(***************************************************************************)
(* Counting the records of a sweep by where they are.                      *)
(***************************************************************************)

LEMMA CountTypes ==
  ASSUME NEW n \in Nat, NEW X \in SUBSET (1..n)
  PROVE  IsFiniteSet(X) /\ Cardinality(X) \in Nat
<1>1. IsFiniteSet(1..n)
  BY FS_Interval
<1>2. QED
  BY <1>1, FS_Subset, FS_CardinalityType

--------------------------------------------------------------------------------
(* The inductive invariant of the sweep. *)

SweepTypes ==
  /\ stage \in {"off", "on", "raised", "done"}
  /\ pins \in Seq(AllQuestions)
  /\ next \in 1..(Len(pins) + 1)
  /\ at \in [1..Len(pins) -> Stages]
  /\ label \in [1..Len(pins) -> Labels]
  /\ results \in Seq([1..Len(pins) -> [q : AllQuestions, label : Labels]])
  /\ cache \in [Lanes -> {"none", "client", "null"}]
  /\ deprecated \subseteq Models
  /\ rejected \in [Models -> Nat]
  /\ built \in [Lanes -> Nat]
  /\ stage = "off" => pins = <<>> /\ results = <<>>
  /\ stage = "on" => Len(results) < Len(Configs)

Working == {"build", "client", "ask", "warm", "plain", "judge"}

\* The main thread waits in the order of the records.  The serial loop begins a
\* record when it is through with the one before; the pool is left only when
\* every record was carried out.
InOrder ==
  /\ \A i \in 1..Len(pins) : i < next => at[i] = "done"
  /\ stage = "done" => /\ \A i \in 1..Len(pins) : at[i] = "done"
                       /\ Len(results) = Len(Configs)
  /\ Serial => \A i \in 1..Len(pins) : i > next => at[i] = "queued"
  /\ stage = "raised" => \A i \in 1..Len(pins) : at[i] \notin Working
  /\ stage = "raised" /\ ~Serial => \A i \in 1..Len(pins) : at[i] # "queued"

RowsFit ==
  /\ \A i \in 1..Len(pins) : Fits(pins[i], label[i])
  /\ \A c \in 1..Len(results) : \A i \in 1..Len(pins) :
       results[c][i].q = pins[i] /\ Fits(pins[i], results[c][i].label)

At(K)    == {i \in 1..Len(pins) : at[i] \in K}
Underway == Cardinality(At(Working))
Asking   == Cardinality(At({"warm"}))
Building == Cardinality(At({"build"}))

\* What a model has refused, and a lane has had built, is bounded together with the
\* records that are about to ask or to build.
Bounded ==
  /\ Underway <= Concurrency
  /\ \A m \in Models :
       /\ m \notin deprecated => rejected[m] = 0
       /\ rejected[m] <= Concurrency
       /\ m \in deprecated /\ stage = "on" /\ config.model = m =>
            rejected[m] + Asking <= Concurrency
  /\ \A l \in Lanes :
       /\ cache[l] = "none" => built[l] = 0
       /\ built[l] <= Concurrency
       /\ cache[l] # "none" /\ stage = "on" /\ config.lane = l =>
            built[l] + Building <= Concurrency

SweepInv == SweepTypes /\ InOrder /\ RowsFit /\ Bounded

--------------------------------------------------------------------------------
(* Its types. *)

LEMMA ConfigKnown ==
  ASSUME SweepTypes, stage = "on"
  PROVE  config.model \in Models /\ config.lane \in Lanes /\ config.refuses \in BOOLEAN
<1>1. Len(results) + 1 \in DOMAIN Configs
  BY SweepAssumption DEF SweepTypes
<1>2. QED
  BY <1>1, SweepAssumption DEF config, Models

\* A worker moves only its own record, which is one of the pinned.
LEMMA WorkHere ==
  ASSUME SweepTypes, InOrder, NEW i \in DOMAIN at, Work(i)
  PROVE  /\ stage = "on" /\ i \in 1..Len(pins) /\ Len(pins) \in Nat
         /\ UNCHANGED <<stage, pins, results, next>>
         /\ \E s \in Stages : at' = [at EXCEPT ![i] = s]
<1>1. i \in 1..Len(pins) /\ Len(pins) \in Nat
  BY DEF SweepTypes
<1>2. at[i] \in Working \cup {"queued"}
  BY DEF Work, Take, Build, Client, Request, Refused, Reply, Grade, Working
<1>3. stage = "on"
  <2>1. at[i] = "queued" => Take(i)
    BY DEF Work, Take, Build, Client, Request, Refused, Reply, Grade
  <2>2. at[i] = "queued" => stage = "on"
    BY <2>1 DEF Take
  <2>3. stage # "off"
    BY <1>1 DEF SweepTypes
  <2>4. at[i] \in Working => stage # "raised" /\ stage # "done"
    BY <1>1 DEF InOrder, Working
  <2>5. QED
    BY <1>2, <2>2, <2>3, <2>4 DEF SweepTypes
<1>4. UNCHANGED <<stage, pins, results, next>>
  BY DEF Work, Take, Build, Client, Request, Refused, Reply, Grade, Here
<1>5. \E s \in Stages : at' = [at EXCEPT ![i] = s]
  BY DEF Work, Take, Build, Client, Request, Refused, Reply, Grade, Moves, Stages
<1>6. QED
  BY <1>1, <1>3, <1>4, <1>5

LEMMA GradedLabels ==
  \A asked, reply : Graded(asked, reply) \in Labels
BY DEF Graded, Labels

LEMMA WorkTypes ==
  ASSUME SweepTypes, InOrder, NEW i \in DOMAIN at, Work(i)
  PROVE  SweepTypes'
<1>1. /\ stage = "on" /\ i \in 1..Len(pins) /\ Len(pins) \in Nat
      /\ UNCHANGED <<stage, pins, results, next>>
  BY WorkHere
<1>2. at' \in [1..Len(pins) -> Stages]
  <2>1. PICK s \in Stages : at' = [at EXCEPT ![i] = s]
    BY WorkHere
  <2>2. QED
    BY <2>1 DEF SweepTypes
<1>3. config.model \in Models /\ config.lane \in Lanes /\ config.refuses \in BOOLEAN
  BY <1>1, ConfigKnown
<1>4. label' \in [1..Len(pins) -> Labels]
  <2>1. UNCHANGED label \/ \E l \in Labels : label' = [label EXCEPT ![i] = l]
    BY GradedLabels DEF Work, Take, Build, Client, Request, Refused, Reply, Grade
  <2>2. QED
    BY <2>1 DEF SweepTypes
<1>5. cache' \in [Lanes -> {"none", "client", "null"}] /\ built' \in [Lanes -> Nat]
  <2>1. \/ UNCHANGED <<cache, built>>
        \/ /\ \E c \in {"client", "null"} : cache' = [cache EXCEPT ![config.lane] = c]
           /\ built' = [built EXCEPT ![config.lane] = @ + 1]
    BY DEF Work, Take, Build, Client, Request, Refused, Reply, Grade
  <2> DEFINE l == config.lane
  <2>2. l \in Lanes /\ built[l] + 1 \in Nat
    BY <1>3 DEF SweepTypes
  <2> HIDE DEF l
  <2>3. QED
    BY <2>1, <2>2 DEF SweepTypes, l
<1>6. deprecated' \subseteq Models /\ rejected' \in [Models -> Nat]
  <2>1. \/ UNCHANGED <<deprecated, rejected>>
        \/ /\ deprecated' = deprecated \cup {config.model}
           /\ rejected' = [rejected EXCEPT ![config.model] = @ + 1]
    BY DEF Work, Take, Build, Client, Request, Refused, Reply, Grade
  <2>2. QED
    BY <1>3, <2>1 DEF SweepTypes
<1>7. QED
  BY <1>1, <1>2, <1>4, <1>5, <1>6 DEF SweepTypes

\* What a sweep starts with.
LEMMA SweepStarts ==
  ASSUME SweepTypes, Bounded, NEW pinned \in Seq(AllQuestions), Sweep(pinned)
  PROVE  SweepTypes' /\ InOrder' /\ RowsFit' /\ Bounded'
<1> DEFINE n == Len(pinned)
<1>1. /\ n \in Nat \ {0} /\ pins' = pinned /\ stage' = "on" /\ stage = "off"
      /\ next' = 1 /\ results' = <<>> /\ pins = <<>>
      /\ UNCHANGED <<cache, deprecated, rejected, built>>
  <2>1. pinned # <<>> /\ n \in Nat
    BY DEF Sweep
  <2>2. n # 0
    BY <2>1
  <2>3. QED
    BY <2>1, <2>2 DEF Sweep, Submitted, SweepTypes
<1>2. /\ at' = [i \in 1..n |-> "queued"]
      /\ label' = [i \in 1..n |-> "ERROR"]
  BY DEF Sweep, Submitted
<1>3. SweepTypes'
  <2>1. Len(results') < Len(Configs)
    BY <1>1, SweepAssumption
  <2>2. results' \in Seq([1..n -> [q : AllQuestions, label : Labels]])
    BY <1>1
  <2> HIDE DEF n
  <2>3. /\ at' \in [1..n -> Stages] /\ label' \in [1..n -> Labels]
        /\ next' \in 1..(n + 1)
    BY <1>1, <1>2 DEF Stages, Labels
  <2>4. QED
    BY <1>1, <2>1, <2>2, <2>3 DEF SweepTypes, n
<1>4. InOrder'
  BY <1>1, <1>2 DEF InOrder, Serial
<1>5. RowsFit'
  BY <1>1, <1>2 DEF RowsFit, Fits
<1>6. Bounded'
  <2>1. \A K : "queued" \notin K => At(K)' = {}
    BY <1>1, <1>2 DEF At
  <2>2. Underway' = 0 /\ Asking' = 0 /\ Building' = 0
    BY <2>1, FS_EmptySet DEF Working, Underway, Asking, Building
  <2>3. QED
    BY <1>1, <2>2, SweepAssumption DEF Bounded, SweepTypes
<1>7. QED
  BY <1>3, <1>4, <1>5, <1>6

\* The last row of a configuration.
LEMMA ConfigEnds ==
  ASSUME SweepTypes, InOrder, RowsFit, NextConfig
  PROVE  /\ Len(pins) \in Nat /\ Len(results) \in Nat /\ stage = "on"
         /\ \A i \in 1..Len(pins) : at[i] = "done"
         /\ results' \in Seq([1..Len(pins) -> [q : AllQuestions, label : Labels]])
         /\ Len(results') = Len(results) + 1
         /\ \A c \in 1..Len(results') : \A i \in 1..Len(pins) :
              results'[c][i].q = pins[i] /\ Fits(pins[i], results'[c][i].label)
<1> DEFINE rows == [i \in DOMAIN pins |-> Row(i)]
<1>1. /\ Len(pins) \in Nat /\ Len(results) \in Nat /\ stage = "on" /\ next > Len(pins)
      /\ results' = Append(results, rows)
  BY DEF NextConfig, SweepTypes
<1>2. \A i \in 1..Len(pins) : at[i] = "done"
  BY <1>1 DEF InOrder, SweepTypes
<1>3. DOMAIN pins = 1..Len(pins) /\ \A i \in 1..Len(pins) : pins[i] \in AllQuestions
  BY DEF SweepTypes
<1>4. rows \in [1..Len(pins) -> [q : AllQuestions, label : Labels]]
  BY <1>3 DEF SweepTypes, Row
<1>5. \A i \in 1..Len(pins) : rows[i].q = pins[i] /\ Fits(pins[i], rows[i].label)
  BY <1>3 DEF Row, RowsFit
<1> HIDE DEF rows
<1>6. /\ results' \in Seq([1..Len(pins) -> [q : AllQuestions, label : Labels]])
      /\ Len(results') = Len(results) + 1
      /\ results'[Len(results) + 1] = rows
      /\ \A c \in 1..Len(results) : results'[c] = results[c]
  BY <1>1, <1>4 DEF SweepTypes
<1>7. ASSUME NEW c \in 1..Len(results'), NEW i \in 1..Len(pins)
      PROVE  results'[c][i].q = pins[i] /\ Fits(pins[i], results'[c][i].label)
  <2>1. CASE c = Len(results) + 1
    BY <1>5, <1>6, <2>1
  <2>2. CASE c \in 1..Len(results)
    BY <1>6, <2>2 DEF RowsFit
  <2>3. QED
    BY <1>1, <1>6, <2>1, <2>2
<1>8. QED
  BY <1>1, <1>2, <1>6, <1>7

LEMMA MainTypes ==
  ASSUME SweepTypes, InOrder, RowsFit, Await \/ Raise \/ NextConfig
  PROVE  SweepTypes'
<1>1. CASE Await
  <2>1. Len(pins) \in Nat /\ next' \in 1..(Len(pins) + 1)
    BY <1>1 DEF Await, SweepTypes
  <2>2. QED
    BY <1>1, <2>1 DEF Await, SweepTypes
<1>2. CASE Raise
  BY <1>2 DEF Raise, SweepTypes
<1>3. CASE NextConfig
  <2>1. /\ Len(pins) \in Nat /\ Len(results) \in Nat /\ stage = "on"
        /\ results' \in Seq([1..Len(pins) -> [q : AllQuestions, label : Labels]])
        /\ Len(results') = Len(results) + 1
    BY <1>3, ConfigEnds
  <2>2. UNCHANGED <<pins, cache, deprecated, rejected, built>>
    BY <1>3 DEF NextConfig
  <2>3. CASE Len(results') = Len(Configs)
    BY <1>3, <2>1, <2>2, <2>3 DEF NextConfig, SweepTypes
  <2>4. CASE Len(results') # Len(Configs)
    <3>1. Submitted(Len(pins)) /\ UNCHANGED stage
      BY <1>3, <2>4 DEF NextConfig
    <3>2. /\ at' \in [1..Len(pins) -> Stages] /\ label' \in [1..Len(pins) -> Labels]
          /\ next' \in 1..(Len(pins) + 1)
      <4> DEFINE n == Len(pins)
      <4>1. /\ n \in Nat /\ next' = 1
            /\ at' = [i \in 1..n |-> "queued"] /\ label' = [i \in 1..n |-> "ERROR"]
        BY <2>1, <3>1 DEF Submitted
      <4> HIDE DEF n
      <4>2. /\ at' \in [1..n -> Stages] /\ label' \in [1..n -> Labels]
            /\ next' \in 1..(n + 1)
        BY <4>1 DEF Stages, Labels
      <4>3. QED
        BY <4>2 DEF n
    <3>3. Len(Configs) \in Nat
      BY SweepAssumption
    <3>4. Len(results') < Len(Configs)
      BY <2>1, <2>4, <3>3 DEF SweepTypes
    <3>5. QED
      BY <2>1, <2>2, <3>1, <3>2, <3>4 DEF SweepTypes
  <2>5. QED
    BY <2>3, <2>4
<1>4. QED
  BY <1>1, <1>2, <1>3

--------------------------------------------------------------------------------
(* Its order. *)

LEMMA MainInOrder ==
  ASSUME SweepTypes, InOrder, RowsFit, Await \/ Raise \/ NextConfig
  PROVE  InOrder'
<1>1. Len(pins) \in Nat /\ next \in Nat
  BY DEF SweepTypes
<1>2. CASE Await
  BY <1>1, <1>2 DEF Await, InOrder, Serial
<1>3. CASE Raise
  BY <1>1, <1>3 DEF Raise, InOrder, Serial, Working
<1>4. CASE NextConfig
  <2>1. /\ stage = "on" /\ UNCHANGED pins
        /\ \A i \in 1..Len(pins) : at[i] = "done"
    BY <1>4, ConfigEnds DEF NextConfig
  <2>2. CASE Len(results') = Len(Configs)
    <3>1. stage' = "done" /\ UNCHANGED <<next, at>>
      BY <1>4, <2>2 DEF NextConfig
    <3>2. QED
      BY <1>1, <2>1, <2>2, <3>1 DEF InOrder, Serial
  <2>3. CASE Len(results') # Len(Configs)
    <3>1. /\ at' = [i \in 1..Len(pins) |-> "queued"] /\ next' = 1
          /\ stage' = "on"
      BY <1>4, <2>1, <2>3 DEF NextConfig, Submitted
    <3>2. QED
      BY <1>1, <2>1, <3>1 DEF InOrder, Serial
  <2>4. QED
    BY <2>2, <2>3
<1>5. QED
  BY <1>2, <1>3, <1>4

LEMMA WorkInOrder ==
  ASSUME SweepTypes, InOrder, NEW i \in DOMAIN at, Work(i)
  PROVE  InOrder'
<1>1. /\ stage = "on" /\ i \in 1..Len(pins) /\ Len(pins) \in Nat /\ next \in Nat
      /\ UNCHANGED <<stage, pins, results, next>>
  BY WorkHere DEF SweepTypes
<1>2. PICK s \in Stages : at' = [at EXCEPT ![i] = s]
  BY WorkHere
<1>3. at[i] # "done"
  BY DEF Work, Take, Build, Client, Request, Refused, Reply, Grade
<1>4. Serial => i <= next
  <2>1. at[i] = "queued" => Take(i)
    BY DEF Work, Build, Client, Request, Refused, Reply, Grade
  <2>2. Serial /\ at[i] = "queued" => i = next
    BY <2>1 DEF Take
  <2>3. QED
    BY <1>1, <2>2 DEF InOrder
<1>5. \A j \in 1..Len(pins) : j # i => at'[j] = at[j]
  BY <1>1, <1>2 DEF SweepTypes
<1>6. Serial' <=> Serial
  BY <1>1 DEF Serial
<1>7. \A j \in 1..Len(pins) : j < next => at'[j] = "done"
  BY <1>1, <1>3, <1>5 DEF InOrder
<1>8. Serial => \A j \in 1..Len(pins) : j > next => at'[j] = "queued"
  BY <1>1, <1>4, <1>5 DEF InOrder
<1>9. QED
  BY <1>1, <1>6, <1>7, <1>8 DEF InOrder

--------------------------------------------------------------------------------
(* Its rows. *)

LEMMA MainRows ==
  ASSUME SweepTypes, InOrder, RowsFit, Await \/ Raise \/ NextConfig
  PROVE  RowsFit'
<1>1. CASE Await \/ Raise
  BY <1>1 DEF Await, Raise, RowsFit
<1>2. CASE NextConfig
  <2>1. /\ UNCHANGED pins
        /\ \A c \in 1..Len(results') : \A i \in 1..Len(pins) :
             results'[c][i].q = pins[i] /\ Fits(pins[i], results'[c][i].label)
    BY <1>2, ConfigEnds DEF NextConfig
  <2>2. UNCHANGED label \/ \A i \in 1..Len(pins) : label'[i] = "ERROR"
    BY <1>2 DEF NextConfig, Submitted
  <2>3. \A i \in 1..Len(pins) : Fits(pins[i], label'[i])
    BY <2>2 DEF RowsFit, Fits
  <2>4. QED
    BY <2>1, <2>3 DEF RowsFit, Fits
<1>3. QED
  BY <1>1, <1>2

LEMMA WorkRows ==
  ASSUME SweepTypes, InOrder, RowsFit, NEW i \in DOMAIN at, Work(i),
         \A q \in AllQuestions : \A reply : Fits(q, Graded(AskedAgainAs(q), reply))
  PROVE  RowsFit'
<1>1. i \in 1..Len(pins) /\ UNCHANGED <<pins, results>>
  BY WorkHere
<1>2. pins[i] \in AllQuestions
  BY <1>1 DEF SweepTypes
<1>3. \/ UNCHANGED label
      \/ \E reply : label' = [label EXCEPT ![i] = Graded(AskedAgainAs(pins[i]), reply)]
  BY DEF Work, Take, Build, Client, Request, Refused, Reply, Grade
<1>4. \A j \in 1..Len(pins) : Fits(pins[j], label'[j])
  <2>1. CASE UNCHANGED label
    BY <2>1 DEF RowsFit
  <2>2. ASSUME NEW reply, label' = [label EXCEPT ![i] = Graded(AskedAgainAs(pins[i]), reply)]
        PROVE  \A j \in 1..Len(pins) : Fits(pins[j], label'[j])
    <3> DEFINE l == Graded(AskedAgainAs(pins[i]), reply)
    <3>1. Fits(pins[i], l)
      BY <1>2
    <3> HIDE DEF l
    <3>2. label' = [label EXCEPT ![i] = l]
      BY <2>2 DEF l
    <3>3. QED
      BY <3>1, <3>2 DEF RowsFit, SweepTypes
  <2>3. QED
    BY <1>3, <2>1, <2>2
<1>5. QED
  BY <1>1, <1>4 DEF RowsFit, Fits

--------------------------------------------------------------------------------
(* Its counts. *)

LEMMA CountsKnown ==
  ASSUME SweepTypes, NEW K
  PROVE  /\ Cardinality(At(K)) \in Nat
         /\ K \subseteq Working => Cardinality(At(K)) <= Cardinality(At(Working))
<1>1. Len(pins) \in Nat
  BY DEF SweepTypes
<1>2. At(K) \subseteq 1..Len(pins) /\ At(Working) \subseteq 1..Len(pins)
  BY DEF At
<1>3. IsFiniteSet(At(Working)) /\ Cardinality(At(K)) \in Nat
  BY <1>1, <1>2, CountTypes
<1>4. ASSUME K \subseteq Working PROVE At(K) \subseteq At(Working)
  BY <1>4 DEF At
<1>5. QED
  BY <1>3, <1>4, FS_Subset

\* How a worker's step changes the counts.
LEMMA CountsMove ==
  ASSUME SweepTypes, SweepTypes', NEW i \in 1..Len(pins), NEW s \in Stages, NEW K,
         at' = [at EXCEPT ![i] = s], UNCHANGED pins
  PROVE  /\ Cardinality(At(K)) \in Nat /\ Cardinality(At(K)') \in Nat
         /\ Cardinality(At(K)') = Cardinality(At(K)) + (IF s \in K THEN 1 ELSE 0)
                                                     - (IF at[i] \in K THEN 1 ELSE 0)
<1> DEFINE n == Len(pins)
           X == At(K)
           Y == At(K)'
<1>1. n \in Nat /\ at \in [1..n -> Stages] /\ i \in 1..n
  BY DEF SweepTypes
<1>2. X \subseteq 1..n /\ Y \subseteq 1..n
  BY DEF At
<1>3. \A j \in 1..n : j # i => (j \in X <=> j \in Y)
  BY <1>1 DEF At
<1>4. (i \in X <=> at[i] \in K) /\ (i \in Y <=> s \in K)
  BY <1>1 DEF At
<1>5. /\ IsFiniteSet(X) /\ Cardinality(X) \in Nat
      /\ IsFiniteSet(Y) /\ Cardinality(Y) \in Nat
  BY <1>1, <1>2, CountTypes
<1> HIDE DEF n, X, Y
<1>6. CASE s \in K <=> at[i] \in K
  <2>1. \A j : j \in X <=> j \in Y
    BY <1>2, <1>3, <1>4, <1>6
  <2>2. X = Y
    BY <2>1
  <2>3. Cardinality(X) = Cardinality(Y)
    BY <2>2, Zenon
  <2>4. QED
    BY <1>5, <1>6, <2>3 DEF X, Y
<1>7. CASE s \in K /\ at[i] \notin K
  <2>1. i \notin X /\ \A j : j \in Y <=> j \in X \/ j = i
    BY <1>1, <1>2, <1>3, <1>4, <1>7
  <2>2. Y = X \cup {i}
    BY <2>1
  <2>3. Cardinality(Y) = Cardinality(X) + 1
    BY <1>5, <2>1, <2>2, FS_AddElement
  <2>4. QED
    BY <1>5, <1>7, <2>3 DEF X, Y
<1>8. CASE s \notin K /\ at[i] \in K
  <2>1. i \in X /\ \A j : j \in Y <=> j \in X /\ j # i
    BY <1>1, <1>2, <1>3, <1>4, <1>8
  <2>2. Y = X \ {i}
    BY <2>1
  <2>3. Cardinality(Y) = Cardinality(X) - 1
    BY <1>5, <2>1, <2>2, FS_RemoveElement
  <2>4. QED
    BY <1>5, <1>8, <2>3 DEF X, Y
<1>9. QED
  BY <1>6, <1>7, <1>8

\* The three counts that Bounded is about, before and after a worker's step.
LEMMA ThreeCounts ==
  ASSUME SweepTypes, SweepTypes', NEW i \in 1..Len(pins), NEW s \in Stages,
         at' = [at EXCEPT ![i] = s], UNCHANGED pins
  PROVE  /\ Underway \in Nat /\ Asking \in Nat /\ Building \in Nat
         /\ Underway' \in Nat /\ Asking' \in Nat /\ Building' \in Nat
         /\ Asking <= Underway /\ Building <= Underway
         /\ at[i] \in Working => Underway' <= Underway
         /\ at[i] = "queued" => Underway' <= Underway + 1
         /\ Asking' = Asking + (IF s = "warm" THEN 1 ELSE 0)
                             - (IF at[i] = "warm" THEN 1 ELSE 0)
         /\ Building' = Building + (IF s = "build" THEN 1 ELSE 0)
                                 - (IF at[i] = "build" THEN 1 ELSE 0)
<1>1. /\ Underway \in Nat /\ Underway' \in Nat
      /\ Underway' = Underway + (IF s \in Working THEN 1 ELSE 0)
                              - (IF at[i] \in Working THEN 1 ELSE 0)
  BY CountsMove DEF Underway
<1>2. /\ Asking \in Nat /\ Asking' \in Nat
      /\ Asking' = Asking + (IF s \in {"warm"} THEN 1 ELSE 0)
                          - (IF at[i] \in {"warm"} THEN 1 ELSE 0)
  BY CountsMove DEF Asking
<1>3. /\ Building \in Nat /\ Building' \in Nat
      /\ Building' = Building + (IF s \in {"build"} THEN 1 ELSE 0)
                              - (IF at[i] \in {"build"} THEN 1 ELSE 0)
  BY CountsMove DEF Building
<1>4. Asking <= Underway /\ Building <= Underway
  <2>1. {"warm"} \subseteq Working /\ {"build"} \subseteq Working
    BY DEF Working
  <2>2. QED
    BY <2>1, CountsKnown DEF Underway, Asking, Building
<1>5. (at[i] = "queued" => at[i] \notin Working) /\ (at[i] \in Working => Underway' <= Underway)
  BY <1>1 DEF Working
<1>6. at[i] = "queued" => Underway' <= Underway + 1
  BY <1>1
<1>7. QED
  BY <1>1, <1>2, <1>3, <1>4, <1>5, <1>6

--------------------------------------------------------------------------------
(* Its bounds. *)

\* A record that is begun finds a place free.
LEMMA PlaceFree ==
  ASSUME SweepTypes, InOrder, NEW i \in 1..Len(pins), Take(i)
  PROVE  Underway + 1 <= Concurrency
<1>1. Len(pins) \in Nat /\ Concurrency \in Nat \ {0}
  BY SweepAssumption DEF SweepTypes
<1>2. CASE Serial
  <2>1. i = next /\ at[i] = "queued"
    BY <1>2 DEF Take
  <2>2. \A j \in 1..Len(pins) : at[j] \notin Working
    BY <1>1, <1>2, <2>1 DEF InOrder, Working, SweepTypes
  <2>3. At(Working) = {}
    BY <2>2 DEF At
  <2>4. Underway = 0
    BY <2>3, FS_EmptySet DEF Underway
  <2>5. QED
    BY <1>1, <2>4
<1>3. CASE ~Serial
  <2>1. Cardinality(Active) < Concurrency
    BY <1>3 DEF Take
  <2>2. \A j : j \in Active <=> j \in At(Working)
    BY <1>1 DEF Active, At, Working, SweepTypes, Stages
  <2>3. Active = At(Working)
    BY <2>2
  <2>4. Underway < Concurrency /\ Underway \in Nat
    <3>1. Underway \in Nat
      BY CountsKnown DEF Underway
    <3>2. QED
      BY <2>1, <2>3, <3>1 DEF Underway
  <2>5. QED
    BY <1>1, <2>4
<1>4. QED
  BY <1>2, <1>3

LEMMA TakeBounded ==
  ASSUME SweepTypes, SweepTypes', InOrder, Bounded, NEW i \in 1..Len(pins), Take(i)
  PROVE  Bounded'
<1>1. PICK s \in Stages : /\ s = IF cache[config.lane] = "none" THEN "build" ELSE "client"
                          /\ at' = [at EXCEPT ![i] = s]
  BY DEF Take, Moves, Stages
<1>2. /\ stage = "on" /\ at[i] = "queued"
      /\ UNCHANGED <<stage, pins, results, cache, deprecated, rejected, built>>
  BY DEF Take, Here
<1>3. Underway + 1 <= Concurrency
  BY PlaceFree
<1>4. /\ Underway \in Nat /\ Asking \in Nat /\ Building \in Nat
      /\ Underway' \in Nat /\ Underway' <= Underway + 1
      /\ Asking' = Asking + (IF s = "warm" THEN 1 ELSE 0)
                          - (IF at[i] = "warm" THEN 1 ELSE 0)
      /\ Building' = Building + (IF s = "build" THEN 1 ELSE 0)
                              - (IF at[i] = "build" THEN 1 ELSE 0)
  BY <1>1, <1>2, ThreeCounts
<1>5. /\ Underway' <= Concurrency /\ Asking' = Asking
      /\ cache[config.lane] # "none" => Building' = Building
  BY <1>1, <1>2, <1>3, <1>4, SweepAssumption
<1>6. UNCHANGED config
  BY <1>2 DEF config
<1>7. QED
  BY <1>2, <1>5, <1>6 DEF Bounded

LEMMA BuildBounded ==
  ASSUME SweepTypes, SweepTypes', Bounded, stage = "on", NEW i \in 1..Len(pins), Build(i)
  PROVE  Bounded'
<1>1. PICK s \in {"client", "raised"} : at' = [at EXCEPT ![i] = s]
  BY DEF Build, Moves
<1>2. /\ s \in Stages /\ at[i] = "build" /\ at[i] \in Working
      /\ UNCHANGED <<stage, pins, results, deprecated, rejected>>
  BY <1>1 DEF Build, Here, Stages, Working
<1>3. /\ Underway \in Nat /\ Asking \in Nat /\ Building \in Nat
      /\ Underway' \in Nat /\ Building' \in Nat
      /\ Underway' <= Underway /\ Building <= Underway
      /\ Asking' = Asking + (IF s = "warm" THEN 1 ELSE 0)
                          - (IF at[i] = "warm" THEN 1 ELSE 0)
      /\ Building' = Building + (IF s = "build" THEN 1 ELSE 0)
                              - (IF at[i] = "build" THEN 1 ELSE 0)
  BY <1>1, <1>2, ThreeCounts
<1>4. Underway' <= Concurrency /\ Asking' = Asking /\ Building = Building' + 1
      /\ Building <= Concurrency
  BY <1>1, <1>2, <1>3, SweepAssumption DEF Bounded
<1>5. UNCHANGED config
  BY <1>2 DEF config
<1>6. ASSUME NEW l \in Lanes
      PROVE  /\ cache'[l] = "none" => built'[l] = 0
             /\ built'[l] <= Concurrency
             /\ cache'[l] # "none" /\ stage' = "on" /\ config'.lane = l =>
                  built'[l] + Building' <= Concurrency
  <2>1. CASE UNCHANGED <<cache, built>>
    BY <1>2, <1>3, <1>4, <1>5, <2>1, SweepAssumption DEF Bounded, SweepTypes
  <2>2. CASE \E c \in {"client", "null"} : cache' = [cache EXCEPT ![config.lane] = c]
                                           /\ built' = [built EXCEPT ![config.lane] = @ + 1]
    <3>1. CASE l = config.lane
      <4>1. /\ cache'[l] # "none" /\ built'[l] = built[l] + 1 /\ built[l] \in Nat
            /\ cache[l] = "none" => built[l] = 0
            /\ cache[l] # "none" => built[l] + Building <= Concurrency
        BY <2>2, <3>1 DEF SweepTypes, Bounded
      <4>2. built[l] + Building <= Concurrency
        BY SMTT(30), <1>3, <1>4, <4>1
      <4>3. QED
        BY <1>3, <1>4, <4>1, <4>2, SweepAssumption
    <3>2. CASE l # config.lane
      <4>1. cache'[l] = cache[l] /\ built'[l] = built[l]
        BY <2>2, <3>2 DEF SweepTypes
      <4>2. QED
        BY <1>5, <3>2, <4>1 DEF Bounded
    <3>3. QED
      BY <3>1, <3>2
  <2>3. QED
    BY <2>1, <2>2 DEF Build
<1>7. QED
  BY <1>2, <1>4, <1>5, <1>6 DEF Bounded

LEMMA RefusedBounded ==
  ASSUME SweepTypes, SweepTypes', Bounded, stage = "on", NEW i \in 1..Len(pins), Refused(i)
  PROVE  Bounded'
<1>1. /\ at' = [at EXCEPT ![i] = "plain"] /\ "plain" \in Stages
      /\ at[i] = "warm" /\ at[i] \in Working
      /\ deprecated' = deprecated \cup {config.model}
      /\ rejected' = [rejected EXCEPT ![config.model] = @ + 1]
      /\ UNCHANGED <<stage, pins, results, cache, built>>
  BY DEF Refused, Moves, Here, Stages, Working
<1>2. PICK s \in Stages : s = "plain" /\ at' = [at EXCEPT ![i] = s]
  BY <1>1
<1>3. /\ Underway \in Nat /\ Asking \in Nat /\ Building \in Nat
      /\ Underway' \in Nat /\ Asking' \in Nat
      /\ Underway' <= Underway /\ Asking <= Underway
      /\ Asking' = Asking + (IF s = "warm" THEN 1 ELSE 0)
                          - (IF at[i] = "warm" THEN 1 ELSE 0)
      /\ Building' = Building + (IF s = "build" THEN 1 ELSE 0)
                              - (IF at[i] = "build" THEN 1 ELSE 0)
  BY <1>1, <1>2, ThreeCounts
<1>4. /\ Underway' <= Concurrency /\ Building' = Building /\ Asking = Asking' + 1
      /\ Asking <= Concurrency
  BY <1>1, <1>2, <1>3, SweepAssumption DEF Bounded
<1>5. UNCHANGED config
  BY <1>1 DEF config
<1>6. ASSUME NEW m \in Models
      PROVE  /\ m \notin deprecated' => rejected'[m] = 0
             /\ rejected'[m] <= Concurrency
             /\ m \in deprecated' /\ stage' = "on" /\ config'.model = m =>
                  rejected'[m] + Asking' <= Concurrency
  <2>1. CASE m = config.model
    <3>1. /\ rejected'[m] = rejected[m] + 1 /\ rejected[m] \in Nat /\ m \in deprecated'
          /\ m \notin deprecated => rejected[m] = 0
          /\ m \in deprecated => rejected[m] + Asking <= Concurrency
      BY <1>1, <2>1 DEF SweepTypes, Bounded
    <3>2. rejected[m] + Asking <= Concurrency
      BY SMTT(20), <1>3, <1>4, <3>1
    <3>3. QED
      BY <1>3, <1>4, <3>1, <3>2, SweepAssumption
  <2>2. CASE m # config.model
    <3>1. rejected'[m] = rejected[m] /\ (m \in deprecated' <=> m \in deprecated)
      BY <1>1, <2>2 DEF SweepTypes
    <3>2. QED
      BY <1>5, <2>2, <3>1 DEF Bounded
  <2>3. QED
    BY <2>1, <2>2
<1>7. QED
  BY <1>1, <1>4, <1>5, <1>6 DEF Bounded

\* The other steps build nothing and are refused nothing, and a model that was
\* refused is not asked with its temperature again.
LEMMA OthersBounded ==
  ASSUME SweepTypes, SweepTypes', Bounded, stage = "on", NEW i \in 1..Len(pins),
         Client(i) \/ Request(i) \/ Reply(i) \/ Grade(i)
  PROVE  Bounded'
<1>1. PICK s \in {"ask", "judge", "plain", "warm", "done", "raised"} :
           /\ at' = [at EXCEPT ![i] = s]
           /\ s = "warm" => Request(i) /\ config.model \notin deprecated
  BY DEF Client, Request, Reply, Grade, Moves
<1>2. /\ s \in Stages /\ at[i] \in Working /\ at[i] # "build"
      /\ UNCHANGED <<stage, pins, results, cache, deprecated, rejected, built>>
  BY <1>1 DEF Client, Request, Reply, Grade, Here, Stages, Working
<1>3. /\ Underway \in Nat /\ Asking \in Nat /\ Building \in Nat
      /\ Underway' \in Nat /\ Asking' \in Nat
      /\ Underway' <= Underway
      /\ Asking' = Asking + (IF s = "warm" THEN 1 ELSE 0)
                          - (IF at[i] = "warm" THEN 1 ELSE 0)
      /\ Building' = Building + (IF s = "build" THEN 1 ELSE 0)
                              - (IF at[i] = "build" THEN 1 ELSE 0)
  BY <1>1, <1>2, ThreeCounts
<1>4. /\ Underway' <= Concurrency /\ Building' = Building
      /\ config.model \in deprecated => Asking' <= Asking
  BY <1>1, <1>2, <1>3, SweepAssumption DEF Bounded
<1>5. UNCHANGED config
  BY <1>2 DEF config
<1>6. ASSUME NEW m \in deprecated, config.model = m
      PROVE  rejected[m] + Asking' <= Concurrency
  BY SMTT(30), <1>3, <1>4, <1>6, SweepAssumption DEF Bounded, SweepTypes
<1>7. QED
  BY SMTT(30), <1>2, <1>4, <1>5, <1>6 DEF Bounded

LEMMA WorkBounded ==
  ASSUME SweepTypes, SweepTypes', InOrder, Bounded, NEW i \in DOMAIN at, Work(i)
  PROVE  Bounded'
<1>1. stage = "on" /\ i \in 1..Len(pins)
  BY WorkHere
<1>2. QED
  BY <1>1, TakeBounded, BuildBounded, RefusedBounded, OthersBounded DEF Work

LEMMA MainBounded ==
  ASSUME SweepTypes, InOrder, RowsFit, Bounded, Await \/ Raise \/ NextConfig
  PROVE  Bounded'
<1>1. CASE Await
  BY <1>1 DEF Await, Bounded, Underway, Asking, Building, At, config
<1>2. CASE Raise
  BY <1>2 DEF Raise, Bounded, Underway, Asking, Building, At, config
<1>3. CASE NextConfig
  <2>1. /\ UNCHANGED <<pins, cache, deprecated, rejected, built>>
        /\ \A i \in 1..Len(pins) : at[i] = "done"
    BY <1>3, ConfigEnds DEF NextConfig
  <2>2. UNCHANGED at \/ at' = [i \in 1..Len(pins) |-> "queued"]
    BY <1>3 DEF NextConfig, Submitted
  <2>3. \A i \in 1..Len(pins) : at'[i] \in {"done", "queued"}
    BY <2>1, <2>2
  <2>4. At(Working)' = {} /\ At({"warm"})' = {} /\ At({"build"})' = {}
    BY <2>1, <2>3 DEF At, Working
  <2>5. Underway' = 0 /\ Asking' = 0 /\ Building' = 0
    BY <2>4, FS_EmptySet DEF Underway, Asking, Building
  <2>6. QED
    BY <2>1, <2>5, SweepAssumption DEF Bounded, SweepTypes
<1>4. QED
  BY <1>1, <1>2, <1>3

--------------------------------------------------------------------------------
(* The sweep's step. *)

LEMMA SweepInitInv ==
  ASSUME SweepInit
  PROVE  SweepInv
<1>1. /\ stage = "off" /\ next = 1 /\ Len(pins) = 0 /\ Len(results) = 0
      /\ pins = <<>> /\ results = <<>> /\ at = <<>> /\ label = <<>>
      /\ cache = [l \in Lanes |-> "none"] /\ deprecated = {}
      /\ rejected = [m \in Models |-> 0] /\ built = [l \in Lanes |-> 0]
  BY DEF SweepInit
<1>2. SweepTypes
  <2>1. \A S : at \in [1..0 -> S] /\ label \in [1..0 -> S]
    BY <1>1
  <2>2. pins \in Seq(AllQuestions)
    BY <1>1
  <2>3. results \in Seq([1..Len(pins) -> [q : AllQuestions, label : Labels]])
    BY <1>1
  <2>4. /\ cache \in [Lanes -> {"none", "client", "null"}]
        /\ rejected \in [Models -> Nat] /\ built \in [Lanes -> Nat]
    BY <1>1
  <2>5. QED
    BY <1>1, <2>1, <2>2, <2>3, <2>4 DEF SweepTypes
<1>3. InOrder /\ RowsFit
  BY <1>1 DEF InOrder, RowsFit
<1>4. Bounded
  <2>1. At(Working) = {}
    BY <1>1 DEF At
  <2>2. Underway = 0
    BY <2>1, FS_EmptySet DEF Underway
  <2>3. QED
    BY <1>1, <2>2, SweepAssumption DEF Bounded
<1>5. QED
  BY <1>2, <1>3, <1>4 DEF SweepInv

\* What a step of the sweep does, if the verdict on a question of whatever kind is
\* one that fits it.
LEMMA SweepStepInv ==
  ASSUME SweepInv, SweepStep,
         \A q \in AllQuestions : \A reply : Fits(q, Graded(AskedAgainAs(q), reply))
  PROVE  SweepInv'
<1>1. CASE Await \/ Raise \/ NextConfig
  BY <1>1, MainTypes, MainInOrder, MainRows, MainBounded DEF SweepInv
<1>2. ASSUME NEW i \in DOMAIN at, Work(i)
      PROVE  SweepInv'
  <2>1. SweepTypes /\ InOrder /\ RowsFit /\ Bounded
    BY DEF SweepInv
  <2>2. SweepTypes'
    BY <1>2, <2>1, WorkTypes
  <2>3. QED
    BY <1>2, <2>1, <2>2, WorkInOrder, WorkRows, WorkBounded DEF SweepInv
<1>3. QED
  BY <1>1, <1>2 DEF SweepStep

LEMMA SweepKeeps ==
  ASSUME SweepInv, UNCHANGED svars
  PROVE  SweepInv'
<1>1. SweepTypes'
  BY DEF svars, SweepInv, SweepTypes
<1>2. InOrder' /\ RowsFit'
  BY DEF svars, SweepInv, InOrder, Serial, RowsFit
<1>3. Bounded'
  <2>1. /\ Underway' = Underway /\ Asking' = Asking /\ Building' = Building
        /\ UNCHANGED <<config, stage, cache, deprecated, rejected, built>>
    BY DEF svars, Underway, Asking, Building, At, config
  <2>2. QED
    BY <2>1 DEF SweepInv, Bounded
<1>4. QED
  BY <1>1, <1>2, <1>3 DEF SweepInv

(***************************************************************************)
(* The runs.                                                               *)
(***************************************************************************)

\* The adapters that can be built.
Opened == Whole \cup {"flat", "omega", "hindsight", "postgres", "mempalace-server",
                      "mempalace-daemon", "familiar"}

\* What is recorded of a run, and what the report keeps of it.
RecordsOf(rs, p) ==
  /\ rs \in Seq(ToSet(rs))
  /\ \A i \in DOMAIN rs : rs[i].q \in QuestionsOf(p.ds)

ReportOf(rep) == rep.whole => rep.plan \in Plan /\ RecordsOf(rep.records, rep.plan)

RunTypes ==
  /\ history \in Seq(Plan)
  /\ runs \in 0..Len(history)
  /\ phase \in {"idle", "run"}
  /\ open \in BOOLEAN
  /\ phase = "idle" => todo = <<>> /\ records = <<>> /\ ~open
  /\ phase = "run" => runs # 0 /\ todo \in Seq(GroupsOf(plan.ds))
  /\ open => todo # <<>> /\ plan.backend \in Opened
  /\ RecordsOf(records, plan)
  /\ ReportOf(report)

LEMMA EmptyIsSeq ==
  \A S : <<>> \in Seq(S)
OBVIOUS

LEMMA NoRecords ==
  \A p : RecordsOf(<<>>, p)
<1>1. <<>> \in Seq(ToSet(<<>>)) /\ DOMAIN <<>> = {}
  BY EmptyIsSeq
<1>2. QED
  BY <1>1 DEF RecordsOf

LEMMA RunInitTypes ==
  ASSUME Init
  PROVE  RunTypes
<1>1. history \in Seq(Plan) /\ Len(history) \in Nat
  BY PlansAssumption DEF Init
<1>2. records = <<>> /\ ~report.whole
  BY DEF Init, NoReport
<1>3. RecordsOf(records, plan) /\ ReportOf(report)
  BY <1>2, NoRecords DEF ReportOf
<1>4. runs \in 0..Len(history) /\ phase = "idle" /\ todo = <<>> /\ records = <<>>
  BY <1>1 DEF Init
<1>5. open = FALSE
  BY DEF Init
<1>6. phase \in {"idle", "run"} /\ phase # "run"
  BY <1>4
<1>7. QED
  BY <1>1, <1>3, <1>4, <1>5, <1>6, Zenon DEF RunTypes

\* The plan of a run.
LEMMA PlanKnown ==
  ASSUME RunTypes, phase = "run"
  PROVE  plan \in Plan /\ plan.ds \in DOMAIN Files
<1>1. runs \in 1..Len(history)
  BY DEF RunTypes
<1>2. plan \in Plan
  BY <1>1 DEF RunTypes, plan
<1>3. QED
  BY <1>2 DEF Plan

LEMMA StartTypes ==
  ASSUME RunTypes, Start
  PROVE  RunTypes'
<1> DEFINE p == history[runs + 1]
<1>1. /\ phase = "idle" /\ phase' = "run" /\ runs' = runs + 1 /\ runs + 1 \in 1..Len(history)
      /\ UNCHANGED <<history, open, records>> /\ report' = NoReport
      /\ todo' = Groups(Corpus(p), Selected(p))
  BY DEF Start, RunTypes
<1>2. p \in Plan /\ plan' = p
  BY <1>1 DEF RunTypes, plan
<1> HIDE DEF p
<1>3. todo' \in Seq(GroupsOf(p.ds))
  BY <1>1, <1>2, SelectedIn, GroupsIn
<1>4. records' = <<>> /\ ~open /\ ~report'.whole
  BY <1>1 DEF RunTypes, NoReport
<1>5. RecordsOf(records, plan)' /\ ReportOf(report)'
  BY <1>4, NoRecords DEF ReportOf
<1>6. QED
  BY <1>1, <1>2, <1>3, <1>4, <1>5 DEF RunTypes

LEMMA OpeningTypes ==
  ASSUME RunTypes, NEW b \in Opened, Opening(b)
  PROVE  RunTypes'
<1>1. /\ phase = "run" /\ todo # <<>> /\ plan.backend = b /\ open'
      /\ UNCHANGED <<history, phase, runs, todo, records, report, plan>>
  BY DEF Opening, busy, plan
<1>2. QED
  BY <1>1 DEF RunTypes

LEMMA OverTypes ==
  ASSUME RunTypes, NEW d, Over(d), UNCHANGED report
  PROVE  RunTypes'
<1>1. records' = <<>> /\ todo' = <<>> /\ phase' = "idle" /\ open' = FALSE
      /\ UNCHANGED <<history, runs, report>>
  BY DEF Over
<1>2. RecordsOf(records, plan)' /\ ReportOf(report)'
  BY <1>1, NoRecords DEF RunTypes
<1>3. QED
  BY <1>1, <1>2 DEF RunTypes

LEMMA FinishTypes ==
  ASSUME RunTypes, Finish
  PROVE  RunTypes'
<1>1. /\ phase = "run" /\ records' = <<>> /\ todo' = <<>> /\ phase' = "idle"
      /\ open' = FALSE /\ UNCHANGED <<history, runs>>
      /\ report'.plan = plan /\ report'.records = records
  BY DEF Finish, Over
<1>2. plan \in Plan
  BY <1>1, PlanKnown
<1>3. RecordsOf(records, plan)' /\ ReportOf(report)'
  BY <1>1, <1>2, NoRecords DEF RunTypes, ReportOf
<1>4. QED
  BY <1>1, <1>3 DEF RunTypes

\* The question asked, and what is left to ask.
LEMMA QuestionKnown ==
  ASSUME RunTypes, busy
  PROVE  /\ phase = "run" /\ plan.ds \in DOMAIN Files /\ plan \in Plan
         /\ group \in GroupsOf(plan.ds)
         /\ question \in QuestionsOf(plan.ds) /\ vault = question.vault /\ vault \in Vaults
         /\ Tail(todo) \in Seq(GroupsOf(plan.ds))
         /\ Len(group) > 1 =>
              /\ Tail(group) \in GroupsOf(plan.ds)
              /\ Head(Tail(group)).vault = question.vault
<1>1. phase = "run" /\ todo # <<>> /\ todo \in Seq(GroupsOf(plan.ds))
  BY DEF busy, RunTypes
<1>2. plan.ds \in DOMAIN Files /\ plan \in Plan
  BY <1>1, PlanKnown
<1>3. group \in GroupsOf(plan.ds) /\ Tail(todo) \in Seq(GroupsOf(plan.ds))
  BY <1>1 DEF group
<1> DEFINE g == group
           Q == QuestionsOf(plan.ds)
<1>4. g \in Seq(Q) /\ g # <<>> /\ \A i, j \in DOMAIN g : g[i].vault = g[j].vault
  BY <1>3 DEF GroupsOf
<1> HIDE DEF g, Q
<1>5. Head(g) \in Q
  BY <1>4
<1>6. ASSUME Len(g) > 1
      PROVE  Tail(g) \in GroupsOf(plan.ds) /\ Head(Tail(g)).vault = Head(g).vault
  <2> DEFINE t == Tail(g)
             n == Len(g) - 1
  <2>1. /\ n \in Nat \ {0} /\ t \in Seq(Q) /\ Len(t) = n
        /\ \A i \in 1..n : t[i] = g[i + 1]
    BY <1>4, <1>6
  <2>2. \A i \in 1..n : i + 1 \in DOMAIN g /\ 1 \in DOMAIN g
    BY <1>4, <1>6
  <2> HIDE DEF t, n
  <2>3. t # <<>> /\ DOMAIN t = 1..n /\ Head(t) = t[1] /\ 1 \in 1..n
    BY <2>1
  <2>4. \A i, j \in DOMAIN t : t[i].vault = t[j].vault
    BY <1>4, <2>1, <2>2, <2>3
  <2>5. t[1].vault = g[1].vault
    BY <1>4, <2>1, <2>2, <2>3
  <2>6. Head(g) = g[1]
    BY <1>4
  <2>7. QED
    BY <2>1, <2>3, <2>4, <2>5, <2>6 DEF GroupsOf, t, Q
<1>7. Head(g).vault \in Vaults
  BY <1>2, <1>5 DEF Vaults, Q, QuestionsOf
<1>8. QED
  BY <1>1, <1>2, <1>3, <1>5, <1>6, <1>7 DEF question, vault, g, Q

LEMMA AnsweredTypes ==
  ASSUME RunTypes, busy, open, NEW r, r.q = question, Answered(r)
  PROVE  /\ RunTypes'
         /\ records' \in Seq(ToSet(records')) /\ Len(records') = Len(records) + 1
         /\ records'[Len(records) + 1] = r
         /\ \A i \in 1..Len(records) : records'[i] = records[i]
         /\ UNCHANGED <<history, phase, runs, report, stores, plan>>
         /\ open' => /\ todo' # <<>> /\ question'.vault = question.vault
<1>1. /\ records' = Append(records, r)
      /\ UNCHANGED <<history, phase, runs, report, stores, plan>>
  BY DEF Answered, plan
<1>2. /\ records' \in Seq(ToSet(records')) /\ Len(records') = Len(records) + 1
      /\ records'[Len(records) + 1] = r
      /\ \A i \in 1..Len(records) : records'[i] = records[i]
  <2>1. records \in Seq(ToSet(records) \cup {r})
    <3>1. records \in Seq(ToSet(records))
      BY DEF RunTypes, RecordsOf
    <3>2. QED
      BY <3>1
  <2>2. Append(records, r) \in Seq(ToSet(records) \cup {r})
    BY <2>1
  <2>3. records' \in Seq(ToSet(records'))
    BY <1>1, <2>2, SeqOfOwn
  <2>4. QED
    BY <1>1, <2>1, <2>3
<1>3. /\ phase = "run" /\ group \in GroupsOf(plan.ds) /\ question \in QuestionsOf(plan.ds)
      /\ Tail(todo) \in Seq(GroupsOf(plan.ds))
      /\ Len(group) > 1 =>
              /\ Tail(group) \in GroupsOf(plan.ds)
              /\ Head(Tail(group)).vault = question.vault
  BY QuestionKnown
<1>4. /\ todo' \in Seq(GroupsOf(plan.ds)) /\ open' \in BOOLEAN
      /\ open' => todo' # <<>> /\ question'.vault = question.vault
  <2>1. CASE Len(group) > 1
    <3>1. todo' = <<Tail(group)>> \o Tail(todo) /\ open' = open
      BY <2>1 DEF Answered
    <3>2. todo' \in Seq(GroupsOf(plan.ds)) /\ todo' # <<>> /\ Head(todo') = Tail(group)
      BY <1>3, <2>1, <3>1
    <3>3. question' = Head(Tail(group))
      BY <3>2 DEF question, group
    <3>4. QED
      BY <1>3, <2>1, <3>1, <3>2, <3>3
  <2>2. CASE ~(Len(group) > 1)
    BY <1>3, <2>2 DEF Answered
  <2>3. QED
    BY <2>1, <2>2
<1>5. RecordsOf(records, plan)'
  <2>1. DOMAIN records' = 1..(Len(records) + 1) /\ DOMAIN records = 1..Len(records)
        /\ Len(records) \in Nat /\ RecordsOf(records, plan)
    BY <1>2 DEF RunTypes, RecordsOf
  <2>2. \A i \in DOMAIN records' : records'[i].q \in QuestionsOf(plan.ds)
    BY <1>2, <1>3, <2>1 DEF RecordsOf
  <2>3. QED
    BY <1>1, <1>2, <2>2 DEF RecordsOf
<1>6. RunTypes'
  BY <1>1, <1>3, <1>4, <1>5 DEF RunTypes
<1>7. QED
  BY <1>1, <1>2, <1>4, <1>6

LEMMA RunStepTypes ==
  ASSUME RunTypes, Step
  PROVE  RunTypes'
<1>1. CASE Start
  BY <1>1, StartTypes
<1>2. ASSUME NEW b \in Opened, Opening(b)
      PROVE  RunTypes'
  BY <1>2, OpeningTypes
<1>3. CASE OpenFiles \/ OpenOmega \/ OpenHindsight \/ OpenPostgres \/ OpenServer \/ OpenPalace
  <2>1. PICK b \in Opened : Opening(b)
    BY <1>3 DEF OpenFiles, OpenOmega, OpenHindsight, OpenPostgres, OpenServer, OpenPalace,
                Opened
  <2>2. QED
    BY <1>2, <2>1
<1>4. CASE OpenRaises
  <2>1. PICK d : Over(d) /\ UNCHANGED report
    BY <1>4 DEF OpenRaises
  <2>2. QED
    BY <2>1, OverTypes
<1>5. CASE Die
  <2>1. Over(disk) /\ UNCHANGED report
    BY <1>5 DEF Die
  <2>2. QED
    BY <2>1, OverTypes
<1>6. CASE Ask \/ AskInVain
  <2>1. PICK hits, failed, reply : Answered(Scored(hits, failed, reply)) /\ busy /\ open
    BY <1>6 DEF Ask, AskInVain
  <2>2. Scored(hits, failed, reply).q = question
    BY DEF Scored
  <2>3. QED
    BY <2>1, <2>2, AnsweredTypes
<1>7. CASE Finish
  BY <1>7, FinishTypes
<1>8. QED
  BY <1>1, <1>3, <1>4, <1>5, <1>6, <1>7 DEF Step

\* The questions of a report are pinned.
LEMMA PinsKnown ==
  ASSUME RunTypes, report.whole
  PROVE  [i \in DOMAIN report.records |-> report.records[i].q] \in Seq(AllQuestions)
<1> DEFINE rs == report.records
           n == Len(rs)
<1>1. rs \in Seq(ToSet(rs)) /\ report.plan.ds \in DOMAIN Files
      /\ \A i \in DOMAIN rs : rs[i].q \in QuestionsOf(report.plan.ds)
  BY DEF RunTypes, ReportOf, RecordsOf, Plan
<1> HIDE DEF rs
<1>2. n \in Nat /\ DOMAIN rs = 1..n
  BY <1>1
<1>3. \A i \in 1..n : rs[i].q \in AllQuestions
  BY <1>1, <1>2 DEF AllQuestions
<1> HIDE DEF n
<1>4. [i \in 1..n |-> rs[i].q] \in Seq(AllQuestions)
  BY <1>2, <1>3
<1>5. QED
  BY <1>2, <1>4 DEF rs

LEMMA StartSweepTypes ==
  ASSUME RunTypes, StartSweep
  PROVE  RunTypes'
<1>1. /\ history' = <<>> /\ runs' = 0 /\ phase' = "idle" /\ ~report'.whole
      /\ todo' = <<>> /\ open' = FALSE /\ records' = <<>>
  BY DEF StartSweep, RunTypes, NoReport
<1>2. RecordsOf(records, plan)' /\ ReportOf(report)'
  BY <1>1, NoRecords DEF ReportOf
<1>3. history' \in Seq(Plan) /\ runs' \in 0..Len(history') /\ phase' \in {"idle", "run"}
  BY <1>1, EmptyIsSeq
<1>4. phase' # "run"
  BY <1>1
<1>5. QED
  BY <1>1, <1>2, <1>3, <1>4, Zenon DEF RunTypes

--------------------------------------------------------------------------------
(* The runs and the sweep together. *)

Types == SweepInv /\ RunTypes

LEMMA TypesStep ==
  ASSUME Types, [Next]_vars
  PROVE  Types'
<1>1. CASE Step /\ UNCHANGED svars
  BY <1>1, RunStepTypes, SweepKeeps DEF Types
<1>2. CASE StartSweep
  <2>1. report.whole /\ Sweep([i \in DOMAIN report.records |-> report.records[i].q])
    BY <1>2 DEF StartSweep
  <2>2. SweepInv'
    <3> DEFINE asked == [i \in DOMAIN report.records |-> report.records[i].q]
    <3>1. asked \in Seq(AllQuestions) /\ Sweep(asked)
      BY <2>1, PinsKnown DEF Types
    <3> HIDE DEF asked
    <3>2. QED
      BY <3>1, SweepStarts DEF Types, SweepInv
  <2>3. QED
    BY <1>2, <2>2, StartSweepTypes DEF Types
<1>3. CASE SweepStep /\ UNCHANGED cvars
  <2>1. SweepInv'
    BY <1>3, SweepStepInv, QuestionFits DEF Types
  <2>2. RunTypes'
    BY <1>3 DEF Types, RunTypes, cvars, plan
  <2>3. QED
    BY <2>1, <2>2 DEF Types
<1>4. CASE UNCHANGED vars
  <2>1. UNCHANGED svars
    BY <1>4 DEF vars
  <2>2. RunTypes'
    BY <1>4 DEF Types, RunTypes, vars, cvars, plan
  <2>3. QED
    BY <2>1, <2>2, SweepKeeps DEF Types
<1>5. QED
  BY <1>1, <1>2, <1>3, <1>4 DEF Next

\* Every state of a specification is typed: the plans, the groups of a vault, the
\* records of known questions, and the sweep with its counters accounted for.
THEOREM TypesHold ==
  Spec => []Types
<1>1. EvalInit => Types
  BY SweepInitInv, RunInitTypes DEF EvalInit, Types
<1>2. QED
  BY <1>1, TypesStep, PTL DEF Spec

\* A model refuses its temperature, and a lane's client is built, at most once per
\* worker, although neither the cache nor the set has a lock.
THEOREM ChargesHold ==
  Spec => []Charges
<1>1. Types => Charges
  BY DEF Types, SweepInv, Bounded, Charges
<1>2. QED
  BY <1>1, TypesHold, PTL

\* A sweep that is through has the row of every record under every configuration,
\* and one that raised has carried out all that was handed to the pool.
THEOREM SweepWholeHolds ==
  Spec => []SweepWhole
<1>1. ASSUME Types
      PROVE  SweepWhole
  <2>1. SweepTypes /\ InOrder /\ RowsFit
    BY <1>1 DEF Types, SweepInv
  <2>2. DOMAIN pins = 1..Len(pins) /\ DOMAIN results = 1..Len(results)
    BY <2>1 DEF SweepTypes
  <2>3. ASSUME stage = "done", NEW c \in DOMAIN results, NEW i \in DOMAIN pins
        PROVE  /\ results[c][i].q = pins[i]
               /\ results[c][i].label = "ABSTAIN" => pins[i].abs
               /\ results[c][i].label = "CORRECT" => ~pins[i].abs
    BY <2>1, <2>2, <2>3 DEF RowsFit, Fits
  <2>4. stage = "done" => Len(results) = Len(Configs)
    BY <2>1 DEF InOrder
  <2>5. ASSUME stage = "raised", ~Serial, NEW i \in DOMAIN pins
        PROVE  at[i] \in {"done", "raised"}
    BY <2>1, <2>2, <2>5 DEF InOrder, SweepTypes, Stages, Working
  <2>6. QED
    BY <2>3, <2>4, <2>5 DEF SweepWhole
<1>2. QED
  BY <1>1, TypesHold, PTL

--------------------------------------------------------------------------------
(* The pool does what a loop does. *)

\* Every label is one the judge may come to, that of a record not judged included:
\* it is the one of a reply that never came.
Judgeable(q) == {Graded(AskedAgainAs(q), reply) : reply \in {"yes", "no", "none"}}
Given        == \A i \in 1..Len(pins) : label[i] \in Judgeable(pins[i])

LEMMA SameVerdicts == \A q : OneByOne!VerdictsOn(q) = Judgeable(q)
BY DEF OneByOne!VerdictsOn, OneByOne!Graded, OneByOne!AskedAgainAs, OneByOne!Template,
       Judgeable, Graded, AskedAgainAs, Template

LEMMA ErrorGiven == \A q : "ERROR" \in Judgeable(q)
BY DEF Judgeable, Graded

\* A worker leaves what was graded alone, and the labels of the other records.
LEMMA WorkTouches ==
  ASSUME NEW i \in DOMAIN at, Work(i)
  PROVE  /\ at[i] # "done"
         /\ UNCHANGED label \/ \E l \in Judgeable(pins[i]) : label' = [label EXCEPT ![i] = l]
<1>1. CASE Grade(i)
  BY <1>1 DEF Grade, Judgeable
<1>2. CASE Take(i) \/ Build(i) \/ Client(i) \/ Request(i) \/ Refused(i) \/ Reply(i)
  BY <1>2 DEF Take, Build, Client, Request, Refused, Reply
<1>3. QED
  BY <1>1, <1>2 DEF Work

LEMMA GivenStep ==
  ASSUME Types, Types', Given, [Next]_vars
  PROVE  Given'
<1> USE DEF Given
<1>1. CASE (Step /\ UNCHANGED svars) \/ UNCHANGED vars
  BY <1>1 DEF vars, svars
<1>2. CASE StartSweep
  <2>1. PICK asked : Sweep(asked)
    BY <1>2 DEF StartSweep
  <2>2. pins' = asked /\ label' = [i \in 1..Len(asked) |-> "ERROR"]
    BY <2>1 DEF Sweep, Submitted
  <2>3. QED
    BY <2>2, ErrorGiven
<1>3. CASE Await \/ Raise
  BY <1>3 DEF Await, Raise
<1>4. CASE NextConfig
  <2>1. /\ UNCHANGED pins
        /\ UNCHANGED label \/ Submitted(Len(pins))
    BY <1>4 DEF NextConfig
  <2>2. UNCHANGED label \/ label' = [i \in 1..Len(pins) |-> "ERROR"]
    BY <2>1 DEF Submitted
  <2>3. QED
    BY <2>1, <2>2, ErrorGiven
<1>5. ASSUME NEW i \in DOMAIN at, Work(i)
      PROVE  Given'
  <2>1. SweepTypes /\ UNCHANGED pins
    BY <1>5, WorkHere DEF Types, SweepInv
  <2>2. UNCHANGED label \/ \E l \in Judgeable(pins[i]) : label' = [label EXCEPT ![i] = l]
    BY <1>5, WorkTouches
  <2>3. QED
    BY <2>1, <2>2 DEF SweepTypes
<1>6. QED
  BY <1>1, <1>2, <1>3, <1>4, <1>5 DEF Next, SweepStep

LEMMA GivenHolds == Spec => []Given
<1>1. EvalInit => Given
  BY DEF EvalInit, SweepInit, Given
<1>2. QED
  BY <1>1, GivenStep, TypesHold, PTL DEF Spec

\* What the main thread has taken.
LEMMA TakenSoFar ==
  ASSUME SweepTypes
  PROVE  /\ Len(pins) \in Nat /\ next \in 1..(Len(pins) + 1)
         /\ Taken \in Seq([q : AllQuestions, label : Labels]) /\ Len(Taken) = next - 1
         /\ \A i \in 1..(next - 1) : Taken[i] = Row(i)
<1>1. Len(pins) \in Nat /\ next \in 1..(Len(pins) + 1)
  BY DEF SweepTypes
<1> DEFINE n == next - 1
<1>2. n \in Nat /\ \A i \in 1..n : i \in 1..Len(pins)
  BY <1>1
<1>3. ASSUME NEW i \in 1..n
      PROVE  Row(i) \in [q : AllQuestions, label : Labels]
  <2>1. i \in 1..Len(pins)
    BY <1>2
  <2>2. pins \in Seq(AllQuestions) /\ label \in [1..Len(pins) -> Labels]
    BY DEF SweepTypes
  <2>3. pins[i] \in AllQuestions /\ label[i] \in Labels
    BY <2>1, <2>2
  <2>4. QED
    BY <2>3 DEF Row
<1> HIDE DEF n
<1>4. [i \in 1..n |-> Row(i)] \in Seq([q : AllQuestions, label : Labels])
  BY <1>2, <1>3
<1>5. Taken = [i \in 1..n |-> Row(i)]
  BY DEF Taken, n
<1>6. QED
  BY <1>1, <1>2, <1>4, <1>5 DEF n

LEMMA SerialInitially == EvalInit => OneByOne!SerialInit
<1> SUFFICES ASSUME EvalInit
             PROVE  OneByOne!SerialInit
  OBVIOUS
<1>1. stage = "off" /\ pins = <<>> /\ results = <<>> /\ next = 1
  BY DEF EvalInit, SweepInit
<1>2. Taken = <<>>
  BY <1>1 DEF Taken
<1>3. QED
  BY <1>1, <1>2 DEF OneByOne!SerialInit

LEMMA SerialStep ==
  ASSUME Types, Types', Given, [Next]_vars
  PROVE  [OneByOne!SerialNext]_(OneByOne!serialVars)
<1>1. SweepTypes /\ SweepTypes' /\ InOrder
  BY DEF Types, SweepInv
<1> DEFINE Stutter == UNCHANGED <<stage, pins, Taken, results>>
<1>2. ASSUME UNCHANGED svars
      PROVE  Stutter
  BY <1>2 DEF svars, Taken, Row
<1>3. CASE StartSweep
  <2>0. PICK asked : Sweep(asked)
    BY <1>3 DEF StartSweep
  <2>1. /\ stage = "off" /\ stage' = "on" /\ pins' # <<>> /\ next' = 1
        /\ UNCHANGED results
    BY <2>0 DEF Sweep, Submitted
  <2>2. next = 1
    BY <1>1, <2>1 DEF SweepTypes
  <2>3. Taken = <<>> /\ Taken' = <<>>
    BY <2>1, <2>2 DEF Taken
  <2>4. QED
    BY <2>1, <2>3 DEF OneByOne!SerialNext, OneByOne!Pin
<1>4. CASE Await
  <2>1. /\ stage = "on" /\ next <= Len(pins) /\ next' = next + 1
        /\ UNCHANGED <<stage, pins, results, label>>
    BY <1>4 DEF Await
  <2>2. Len(Taken) + 1 = next /\ Len(Taken) < Len(pins)
    BY <1>1, <2>1, TakenSoFar
  <2> DEFINE r == [q |-> pins[next], label |-> label[next]]
  <2>3. Taken' = Append(Taken, r)
    <3> DEFINE n == next - 1
    <3>1. n \in Nat /\ next = n + 1 /\ next' = (n + 1) + 1
      BY <1>1, <2>1, TakenSoFar
    <3>2. Taken = [i \in 1..n |-> [q |-> pins[i], label |-> label[i]]]
      BY DEF Taken, Row
    <3>3. Taken' = [i \in 1..(next' - 1) |-> [q |-> pins[i], label |-> label[i]]]
      BY <2>1 DEF Taken, Row
    <3>4. next' - 1 = n + 1
      BY <3>1
    <3>5. r = [q |-> pins[n + 1], label |-> label[n + 1]]
      BY <3>1
    <3> HIDE DEF n, r
    <3>6. QED
      BY <3>1, <3>2, <3>3, <3>4, <3>5
  <2>4. label[next] \in OneByOne!VerdictsOn(pins[next])
    BY <1>1, <2>1, TakenSoFar, SameVerdicts DEF Given
  <2>5. QED
    BY <2>1, <2>2, <2>3, <2>4 DEF OneByOne!SerialNext, OneByOne!GradeNext
<1>5. CASE Raise
  <2>1. /\ stage = "on" /\ next <= Len(pins) /\ stage' = "raised"
        /\ UNCHANGED <<pins, results, next, label>>
    BY <1>5 DEF Raise
  <2>2. Len(Taken) < Len(pins)
    BY <1>1, <2>1, TakenSoFar
  <2>3. UNCHANGED Taken
    BY <2>1 DEF Taken, Row
  <2>4. QED
    BY <2>1, <2>2, <2>3 DEF OneByOne!SerialNext, OneByOne!GiveUp
<1>6. CASE NextConfig
  <2>1. stage = "on" /\ next > Len(pins) /\ UNCHANGED pins
        /\ results' = Append(results, [i \in DOMAIN pins |-> Row(i)])
    BY <1>6 DEF NextConfig
  <2>2. next - 1 = Len(pins)
    BY <1>1, <2>1, TakenSoFar
  <2>3. DOMAIN pins = 1..Len(pins)
    BY <1>1 DEF SweepTypes
  <2>4. Len(Taken) = Len(pins) /\ results' = Append(results, Taken)
    BY <1>1, <2>1, <2>2, <2>3, TakenSoFar DEF Taken
  <2>5. CASE Len(results') = Len(Configs)
    <3>1. stage' = "done" /\ UNCHANGED <<next, label>>
      BY <1>6, <2>5 DEF NextConfig
    <3>2. UNCHANGED Taken
      BY <2>1, <3>1 DEF Taken, Row
    <3>3. QED
      BY <2>1, <2>4, <2>5, <3>1, <3>2 DEF OneByOne!SerialNext, OneByOne!EndConfig
  <2>6. CASE Len(results') # Len(Configs)
    <3>0. UNCHANGED stage /\ Submitted(Len(pins))
      BY <1>6, <2>6 DEF NextConfig
    <3>1. UNCHANGED stage /\ next' = 1
      BY <3>0 DEF Submitted
    <3>2. Taken' = <<>>
      BY <3>1 DEF Taken
    <3>3. QED
      BY <2>1, <2>4, <2>6, <3>1, <3>2 DEF OneByOne!SerialNext, OneByOne!EndConfig
  <2>7. QED
    BY <2>5, <2>6
<1>7. ASSUME NEW i \in DOMAIN at, Work(i)
      PROVE  Stutter
  <2>1. i \in 1..Len(pins) /\ UNCHANGED <<stage, pins, results, next>>
    BY <1>1, <1>7, WorkHere
  <2>2. /\ at[i] # "done"
        /\ UNCHANGED label \/ \E l : label' = [label EXCEPT ![i] = l]
    BY <1>7, WorkTouches
  <2>3. \A j \in 1..(next - 1) : j \in 1..Len(pins) /\ j # i
    BY <1>1, <2>2, TakenSoFar DEF InOrder
  <2>4. \A j \in 1..Len(pins) : j # i => label'[j] = label[j]
    BY <1>1, <2>2 DEF SweepTypes
  <2>5. \A j \in 1..(next - 1) : label'[j] = label[j]
    BY <2>3, <2>4
  <2>6. UNCHANGED Taken
    BY <2>1, <2>5 DEF Taken, Row
  <2>7. QED
    BY <2>1, <2>6
<1>8. CASE Stutter
  BY <1>8 DEF OneByOne!serialVars
<1>9. QED
  BY <1>2, <1>3, <1>4, <1>5, <1>6, <1>7, <1>8 DEF Next, SweepStep, vars

\* The sweep of any number of threads implements the loop over the records: what
\* the main thread has taken is what the loop has graded, and no worker touches it.
THEOREM SweepAsSerial ==
  Spec => AsSerial
<1>1. EvalInit => OneByOne!SerialInit
  BY SerialInitially
<1>2. ASSUME Types, Types', Given, [Next]_vars
      PROVE  [OneByOne!SerialNext]_(OneByOne!serialVars)
  BY <1>2, SerialStep
<1>3. QED
  BY <1>1, <1>2, TypesHold, GivenHolds, PTL DEF Spec, AsSerial, OneByOne!SerialSpec

--------------------------------------------------------------------------------
(* What is in the stores. *)

DocsOf(ds) == UNION {Documents(ds, q, rules) : q \in QuestionsOf(ds),
                                              rules \in {"sme-rich", "upstream-exact"}}
AllDocs    == UNION {DocsOf(ds) : ds \in DOMAIN Files}

\* A document for the vault of one of these runs.
From(d, v, R) == d.v = v /\ \E r \in R : d \in DocsOf(history[r].ds)

Banking    == {r \in 1..runs : Banked(r)}
RunsOn(B)  == {r \in 1..runs : history[r].backend \in B}
KeepingTo(k) ==
  IF k THEN {r \in 1..runs : history[r].kept} ELSE IF phase = "run" THEN {runs} ELSE {}

\* A vault of a kept directory holds documents for it of runs that kept theirs, and
\* one of a temporary directory those of the run under way.
Shelved(d) ==
  /\ d \in [BOOLEAN -> [Vaults -> [files : SUBSET AllDocs, omega : SUBSET AllDocs]]]
  /\ \A k \in BOOLEAN : \A v \in Vaults :
       /\ IsFiniteSet(d[k][v].files)
       /\ \A x \in d[k][v].files \cup d[k][v].omega : From(x, v, KeepingTo(k))

DiskKnown == Shelved(disk)

BanksKnown ==
  /\ banks \in [Vaults -> SUBSET AllDocs]
  /\ \A v \in Vaults : \A d \in banks[v] : From(d, v, Banking)

PalaceKnown == \A w \in palace : From(w.doc, w.wing, RunsOn(Posting))

\* The stores that have no vaults hold what was loaded for the one in question, if
\* there was anything to load.
Scoped ==
  open =>
    /\ plan.backend = "postgres" => table \subseteq disk[plan.kept][vault].files
    /\ plan.backend = "mempalace-server" =>
         \/ \A d \in server : d \in Strays \/ d \in disk[plan.kept][vault].files
         \/ \A i \in DOMAIN question.hay : ~question.hay[i].user

StoresKnown == DiskKnown /\ BanksKnown /\ PalaceKnown /\ Scoped

LEMMA DocumentsKnown ==
  ASSUME NEW ds \in DOMAIN Files, NEW q \in QuestionsOf(ds),
         NEW rules \in {"sme-rich", "upstream-exact"}
  PROVE  /\ IsFiniteSet(Documents(ds, q, rules))
         /\ Documents(ds, q, rules) \subseteq DocsOf(ds)
         /\ Documents(ds, q, rules) \subseteq AllDocs
         /\ \A d \in Documents(ds, q, rules) : d.v = q.vault
         /\ \A i \in DOMAIN q.hay : Document(ds, q, q.hay[i], rules) \in Documents(ds, q, rules)
<1>1. q.hay \in Seq(ToSet(q.hay))
  BY LoadedIn, MadeSound DEF Sound
<1>2. IsFiniteSet(DOMAIN q.hay)
  <2>1. DOMAIN q.hay = 1..Len(q.hay) /\ Len(q.hay) \in Nat
    BY <1>1
  <2>2. IsFiniteSet(1..Len(q.hay))
    BY <2>1, FS_Interval
  <2>3. QED
    BY <2>1, <2>2
<1>3. IsFiniteSet(Documents(ds, q, rules))
  <2> DEFINE I == DOMAIN q.hay
             D == Documents(ds, q, rules)
             f == [i \in I |-> Document(ds, q, q.hay[i], rules)]
  <2>1. D = {f[i] : i \in I}
    BY DEF Documents
  <2>2. f \in Surjection(I, D)
    <3>1. f \in [I -> D] /\ \A d \in D : \E i \in I : f[i] = d
      BY <2>1
    <3> HIDE DEF f, I, D
    <3>2. QED
      BY <3>1 DEF Surjection
  <2> HIDE DEF I, D, f
  <2>3. IsFiniteSet(D)
    BY <1>2, <2>2, FS_Surjection DEF I
  <2>4. QED
    BY <2>3 DEF D
<1>4. Documents(ds, q, rules) \subseteq DocsOf(ds)
  BY DEF DocsOf
<1>5. Documents(ds, q, rules) \subseteq AllDocs
  BY <1>4 DEF AllDocs
<1>6. \A d \in Documents(ds, q, rules) : d.v = q.vault
  BY DEF Documents, Document
<1>7. \A i \in DOMAIN q.hay : Document(ds, q, q.hay[i], rules) \in Documents(ds, q, rules)
  BY DEF Documents
<1>8. QED
  BY <1>3, <1>4, <1>5, <1>6, <1>7

\* A document of a dataset for the vault of a question of it is of its haystack.
LEMMA OwnDocument ==
  ASSUME NEW ds \in DOMAIN Files, NEW q \in QuestionsOf(ds), NEW d \in DocsOf(ds),
         d.v = q.vault
  PROVE  d.ds = ds /\ \E i \in DOMAIN q.hay : q.hay[i].id = d.s
<1>1. PICK p \in QuestionsOf(ds), rules \in {"sme-rich", "upstream-exact"} :
        d \in Documents(ds, p, rules)
  BY DEF DocsOf
<1>2. PICK i \in DOMAIN p.hay : d = Document(ds, p, p.hay[i], rules)
  BY <1>1 DEF Documents
<1>3. d.ds = ds /\ d.v = p.vault /\ d.s = p.hay[i].id
  BY <1>2 DEF Document
<1>4. p.hay = q.hay
  <2>1. p \in Made(ds) /\ q \in Made(ds) /\ p.vault = q.vault
    BY <1>3, LoadedIn
  <2>2. \A a, b \in Made(ds) : a.vault = b.vault => a.hay = b.hay
    BY MadeSound
  <2>3. QED
    BY <2>1, <2>2
<1>5. QED
  BY <1>2, <1>3, <1>4

LEMMA UpsertKnown ==
  ASSUME NEW old, NEW new
  PROVE  /\ Upsert(old, new) \subseteq old \cup new
         /\ new \subseteq Upsert(old, new)
         /\ IsFiniteSet(old) /\ IsFiniteSet(new) => IsFiniteSet(Upsert(old, new))
<1>1. Upsert(old, new) \subseteq old \cup new /\ new \subseteq Upsert(old, new)
      /\ Upsert(old, new) \in SUBSET (old \cup new)
  BY DEF Upsert
<1>2. ASSUME IsFiniteSet(old), IsFiniteSet(new)
      PROVE  IsFiniteSet(Upsert(old, new))
  BY <1>1, <1>2, FS_Union, FS_Subset
<1>3. QED
  BY <1>1, <1>2

\* What a run that starts, or goes on, does to where a document may come from.
LEMMA FromMore ==
  ASSUME NEW d, NEW v, NEW R, NEW Q, R \subseteq Q, From(d, v, R), UNCHANGED history
  PROVE  From(d, v, Q) /\ From(d, v, Q)'
BY DEF From

LEMMA WrittenKnown ==
  ASSUME RunTypes, DiskKnown, busy
  PROVE  /\ plan.kept \in BOOLEAN /\ vault \in Vaults
         /\ IsFiniteSet(written) /\ written \subseteq AllDocs
         /\ \A d \in written : From(d, vault, KeepingTo(plan.kept))
         /\ own \subseteq written /\ own \subseteq DocsOf(plan.ds)
         /\ \A d \in own : d.v = vault
<1> DEFINE files == disk[plan.kept][vault].files
<1>1. /\ phase = "run" /\ plan.ds \in DOMAIN Files /\ plan \in Plan
      /\ question \in QuestionsOf(plan.ds) /\ vault = question.vault /\ vault \in Vaults
  BY QuestionKnown
<1>2. plan.kept \in BOOLEAN /\ plan.rules \in {"sme-rich", "upstream-exact"}
  BY <1>1 DEF Plan
<1>3. /\ IsFiniteSet(own) /\ own \subseteq DocsOf(plan.ds) /\ own \subseteq AllDocs
      /\ \A d \in own : d.v = vault
  BY <1>1, <1>2, DocumentsKnown DEF own
<1>4. /\ IsFiniteSet(files) /\ files \subseteq AllDocs
      /\ \A d \in files : From(d, vault, KeepingTo(plan.kept))
  BY <1>1, <1>2 DEF DiskKnown, Shelved
<1>5. \A d \in own : From(d, vault, KeepingTo(plan.kept))
  <2>1. runs \in 1..runs /\ plan = history[runs]
    BY <1>1 DEF RunTypes, plan
  <2>2. runs \in KeepingTo(plan.kept)
    BY <1>1, <1>2, <2>1 DEF KeepingTo
  <2>3. QED
    BY <1>3, <2>1, <2>2 DEF From
<1>6. written = Upsert(files, own)
  BY DEF written, Materialized, own
<1> HIDE DEF files
<1>7. QED
  BY <1>1, <1>2, <1>3, <1>4, <1>5, <1>6, UpsertKnown

\* The vault in question filled.
FilledWith(omega) == [disk EXCEPT ![plan.kept][vault] = [files |-> written, omega |-> omega]]

LEMMA FilledKnown ==
  ASSUME RunTypes, DiskKnown, busy,
         NEW omega \in SUBSET AllDocs, \A d \in omega : From(d, vault, KeepingTo(plan.kept))
  PROVE  Shelved(FilledWith(omega)) /\ FilledWith(omega)[plan.kept][vault].files = written
<1> DEFINE k == plan.kept
           v == vault
           w == written
           x == [files |-> w, omega |-> omega]
           S == [files : SUBSET AllDocs, omega : SUBSET AllDocs]
           D == FilledWith(omega)
<1>1. /\ k \in BOOLEAN /\ v \in Vaults /\ IsFiniteSet(w) /\ w \in SUBSET AllDocs
      /\ \A d \in w : From(d, v, KeepingTo(k))
  BY WrittenKnown
<1>2. D = [disk EXCEPT ![k][v] = x]
  BY DEF FilledWith
<1>3. /\ x \in S /\ IsFiniteSet(x.files) /\ x.files = w
      /\ \A d \in x.files \cup x.omega : From(d, v, KeepingTo(k))
  BY <1>1
<1>4. /\ disk \in [BOOLEAN -> [Vaults -> S]]
      /\ \A l \in BOOLEAN : \A u \in Vaults :
           /\ IsFiniteSet(disk[l][u].files)
           /\ \A d \in disk[l][u].files \cup disk[l][u].omega : From(d, u, KeepingTo(l))
  BY DEF DiskKnown, Shelved
<1> HIDE DEF k, v, w, x, S, D
<1>5. /\ D \in [BOOLEAN -> [Vaults -> S]]
      /\ D[k][v] = x
  BY <1>1, <1>2, <1>3, <1>4
<1>6. \A l \in BOOLEAN : \A u \in Vaults : (D[l][u] = x /\ l = k /\ u = v) \/ D[l][u] = disk[l][u]
  BY <1>1, <1>2, <1>3, <1>4
<1>7. \A l \in BOOLEAN : \A u \in Vaults :
           /\ IsFiniteSet(D[l][u].files)
           /\ \A d \in D[l][u].files \cup D[l][u].omega : From(d, u, KeepingTo(l))
  <2> TAKE l \in BOOLEAN
  <2> TAKE u \in Vaults
  <2>1. CASE D[l][u] = x /\ l = k /\ u = v
    BY <2>1, <1>3
  <2>2. CASE D[l][u] = disk[l][u]
    BY <2>2, <1>4
  <2>3. QED
    BY <1>6, <2>1, <2>2
<1>8. D[k][v].files = w
  BY <1>3, <1>5
<1>9. QED
  BY <1>5, <1>7, <1>8 DEF Shelved, S, D, k, v, w

\* Written is one way of filling it.
WrittenDisk == [disk EXCEPT ![plan.kept][vault].files = written]

LEMMA WrittenDiskKnown ==
  ASSUME RunTypes, DiskKnown, busy
  PROVE  Shelved(WrittenDisk) /\ WrittenDisk[plan.kept][vault].files = written
<1> DEFINE k == plan.kept
           v == vault
           w == written
           old == disk[k][v]
           S == [files : SUBSET AllDocs, omega : SUBSET AllDocs]
<1>1. k \in BOOLEAN /\ v \in Vaults
  BY WrittenKnown
<1>2. /\ disk \in [BOOLEAN -> [Vaults -> S]] /\ old \in S
      /\ \A d \in old.omega : From(d, v, KeepingTo(k))
  BY <1>1 DEF DiskKnown, Shelved
<1>3. WrittenDisk = [disk EXCEPT ![k][v] = [old EXCEPT !.files = w]]
  BY DEF WrittenDisk
<1>4. old.omega \in SUBSET AllDocs /\ [old EXCEPT !.files = w] = [files |-> w, omega |-> old.omega]
  BY SMTT(20), <1>2
<1>5. WrittenDisk = FilledWith(old.omega)
  BY <1>3, <1>4 DEF FilledWith
<1>6. QED
  BY <1>2, <1>4, <1>5, FilledKnown

--------------------------------------------------------------------------------
(* The stores through a run. *)

LEMMA StoresBegin ==
  ASSUME EvalInit
  PROVE  StoresKnown
<1> DEFINE D == [k \in BOOLEAN |-> EmptyDisk]
<1>1. disk = D /\ banks = [v \in Vaults |-> {}] /\ palace = {} /\ open = FALSE
  BY DEF EvalInit, Init
<1>2. Shelved(D)
  <2>1. /\ EmptyVault \in [files : SUBSET AllDocs, omega : SUBSET AllDocs]
        /\ EmptyVault.files = {} /\ EmptyVault.omega = {}
    BY DEF EmptyVault
  <2>2. \A k \in BOOLEAN : \A v \in Vaults : D[k][v] = EmptyVault
    BY DEF EmptyDisk
  <2>3. D \in [BOOLEAN -> [Vaults -> [files : SUBSET AllDocs, omega : SUBSET AllDocs]]]
    BY <2>1 DEF EmptyDisk
  <2> HIDE DEF D
  <2>4. QED
    BY <2>1, <2>2, <2>3, FS_EmptySet DEF Shelved
<1>3. QED
  BY <1>1, <1>2 DEF StoresKnown, DiskKnown, BanksKnown, PalaceKnown, Scoped

\* A run that starts adds itself to the runs a document may come from.
LEMMA StartStores ==
  ASSUME RunTypes, StoresKnown, Start
  PROVE  StoresKnown'
<1>1. /\ phase = "idle" /\ phase' = "run" /\ runs \in Nat /\ runs' = runs + 1 /\ ~open /\ ~open'
      /\ UNCHANGED <<history, disk, banks, palace>>
  BY DEF Start, stores, RunTypes
<1>2. 1..runs \subseteq 1..(runs + 1)
  BY <1>1
<1>3. /\ \A k \in BOOLEAN : KeepingTo(k) \subseteq KeepingTo(k)'
      /\ \A B : RunsOn(B) \subseteq RunsOn(B)'
  BY <1>1, <1>2 DEF KeepingTo, RunsOn
<1>4. DiskKnown'
  <2>1. \A k \in BOOLEAN : \A v \in Vaults : \A d \in disk[k][v].files \cup disk[k][v].omega :
          From(d, v, KeepingTo(k))'
    BY <1>1, <1>3 DEF StoresKnown, DiskKnown, Shelved, From
  <2>2. QED
    BY <1>1, <2>1 DEF StoresKnown, DiskKnown, Shelved
<1>5. BanksKnown'
  <2>1. \A r \in 1..runs : r..runs \subseteq r..(runs + 1)
    BY <1>1
  <2>2. Banking \subseteq Banking'
    BY <1>1, <1>2, <2>1 DEF Banking, Banked
  <2>3. QED
    BY <1>1, <2>2 DEF StoresKnown, BanksKnown, From
<1>6. PalaceKnown'
  BY <1>1, <1>3 DEF StoresKnown, PalaceKnown, From
<1>7. QED
  BY <1>1, <1>4, <1>5, <1>6 DEF StoresKnown, Scoped

\* A run that is over takes its temporary directory with it.
LEMMA OverStores ==
  ASSUME RunTypes, StoresKnown, NEW D, Shelved(D), Over(D), UNCHANGED <<banks, palace>>
  PROVE  StoresKnown'
<1> DEFINE S == [files : SUBSET AllDocs, omega : SUBSET AllDocs]
<1>1. /\ disk' = [D EXCEPT ![FALSE] = EmptyDisk] /\ phase' = "idle" /\ open' = FALSE
      /\ UNCHANGED <<history, runs, banks, palace>>
  BY DEF Over
<1>2. /\ EmptyDisk \in [Vaults -> S]
      /\ \A v \in Vaults : EmptyDisk[v].files = {} /\ EmptyDisk[v].omega = {}
  BY DEF EmptyDisk, EmptyVault
<1>3. D \in [BOOLEAN -> [Vaults -> S]]
  BY DEF Shelved
<1> HIDE DEF S
<1>4. /\ disk' \in [BOOLEAN -> [Vaults -> S]] /\ disk'[FALSE] = EmptyDisk
      /\ disk'[TRUE] = D[TRUE]
  BY <1>1, <1>2, <1>3
<1>5. /\ KeepingTo(TRUE)' = KeepingTo(TRUE)
      /\ Banking' = Banking /\ \A B : RunsOn(B)' = RunsOn(B)
  BY <1>1 DEF KeepingTo, RunsOn, Banking, Banked
<1>6. ASSUME NEW k \in BOOLEAN, NEW v \in Vaults
      PROVE  /\ IsFiniteSet(disk'[k][v].files)
             /\ \A d \in disk'[k][v].files \cup disk'[k][v].omega : From(d, v, KeepingTo(k))'
  <2>1. CASE k = FALSE
    BY <2>1, <1>2, <1>4, FS_EmptySet
  <2>2. CASE k = TRUE
    <3>1. disk'[k][v] = D[k][v] /\ KeepingTo(k)' = KeepingTo(k)
      BY <2>2, <1>4, <1>5
    <3>2. IsFiniteSet(D[k][v].files)
          /\ \A d \in D[k][v].files \cup D[k][v].omega : From(d, v, KeepingTo(k))
      BY DEF Shelved
    <3>3. QED
      BY <1>1, <3>1, <3>2 DEF From
  <2>3. QED
    BY <2>1, <2>2
<1>7. DiskKnown'
  BY <1>4, <1>6 DEF DiskKnown, Shelved, S
<1>8. BanksKnown' /\ PalaceKnown'
  BY <1>1, <1>5 DEF StoresKnown, BanksKnown, PalaceKnown, From
<1>9. QED
  BY <1>1, <1>7, <1>8 DEF StoresKnown, Scoped

\* An adapter that is built fills the vault, and a store of its own.
LEMMA OpeningStores ==
  ASSUME RunTypes, StoresKnown, NEW b, Opening(b), Shelved(disk'),
         disk'[plan.kept][vault].files = written, BanksKnown', PalaceKnown',
         b = "postgres" => table' \subseteq written,
         b = "mempalace-server" =>
           \/ \A d \in server' : d \in Strays \/ d \in written
           \/ \A i \in DOMAIN question.hay : ~question.hay[i].user
  PROVE  StoresKnown'
<1>1. /\ plan.backend = b
      /\ UNCHANGED <<history, phase, runs, todo, plan, vault, question>>
  BY DEF Opening, plan, vault, question, group
<1>2. DiskKnown'
  <2>1. \A k \in BOOLEAN : KeepingTo(k)' = KeepingTo(k)
    BY <1>1 DEF KeepingTo
  <2>2. QED
    BY <1>1, <2>1 DEF DiskKnown, Shelved, From
<1>3. Scoped'
  BY <1>1 DEF Scoped
<1>4. QED
  BY <1>2, <1>3 DEF StoresKnown

\* The stores that an opening leaves alone.
LEMMA AloneKnown ==
  ASSUME UNCHANGED <<history, runs, phase>>
  PROVE  /\ BanksKnown /\ UNCHANGED banks => BanksKnown'
         /\ PalaceKnown /\ UNCHANGED palace => PalaceKnown'
         /\ Banking' = Banking /\ \A B : RunsOn(B)' = RunsOn(B)
<1>1. Banking' = Banking /\ \A B : RunsOn(B)' = RunsOn(B)
  BY DEF RunsOn, Banking, Banked
<1>2. QED
  BY <1>1 DEF BanksKnown, PalaceKnown, From

\* A document of the run under way.
LEMMA FromThis ==
  ASSUME RunTypes, busy, NEW d \in DocsOf(plan.ds), d.v = vault, NEW B, plan.backend \in B
  PROVE  From(d, vault, RunsOn(B))
<1>1. runs \in 1..runs /\ plan = history[runs]
  BY DEF RunTypes, plan, busy
<1>2. QED
  BY <1>1 DEF From, RunsOn

LEMMA OpenFilesStores ==
  ASSUME RunTypes, StoresKnown, OpenFiles
  PROVE  StoresKnown'
<1>1. PICK b \in {"flat"} \cup Whole : Opening(b)
  BY DEF OpenFiles
<1>2. /\ disk' = WrittenDisk /\ UNCHANGED <<history, runs, phase, banks, palace>> /\ busy
  BY <1>1 DEF OpenFiles, Written, WrittenDisk, Opening
<1>3. Shelved(disk') /\ disk'[plan.kept][vault].files = written
  BY <1>2, WrittenDiskKnown DEF StoresKnown
<1>4. b # "postgres" /\ b # "mempalace-server"
  BY DEF Whole
<1>5. BanksKnown' /\ PalaceKnown'
  BY <1>2, AloneKnown DEF StoresKnown
<1>6. QED
  BY <1>1, <1>3, <1>4, <1>5, OpeningStores

LEMMA OpenOmegaStores ==
  ASSUME RunTypes, StoresKnown, OpenOmega
  PROVE  StoresKnown'
<1>1. PICK stored \in SUBSET Filled(written) :
        disk' = [disk EXCEPT ![plan.kept][vault]
                   = [files |-> written, omega |-> disk[plan.kept][vault].omega \cup stored]]
  BY DEF OpenOmega
<1> DEFINE omega == disk[plan.kept][vault].omega \cup stored
<1>2. /\ Opening("omega") /\ busy /\ UNCHANGED <<history, runs, phase, banks, palace>>
  BY DEF OpenOmega, Opening
<1>3. disk' = FilledWith(omega)
  BY <1>1 DEF FilledWith
<1>4. omega \in SUBSET AllDocs /\ \A d \in omega : From(d, vault, KeepingTo(plan.kept))
  <2>1. stored \subseteq written
    BY DEF Filled
  <2>2. /\ plan.kept \in BOOLEAN /\ vault \in Vaults
        /\ written \subseteq AllDocs /\ \A d \in written : From(d, vault, KeepingTo(plan.kept))
    BY <1>2, WrittenKnown DEF StoresKnown
  <2>3. /\ disk[plan.kept][vault].omega \subseteq AllDocs
        /\ \A d \in disk[plan.kept][vault].omega : From(d, vault, KeepingTo(plan.kept))
    BY <2>2 DEF StoresKnown, DiskKnown, Shelved
  <2>4. QED
    BY <2>1, <2>2, <2>3
<1> HIDE DEF omega
<1>5. Shelved(disk') /\ disk'[plan.kept][vault].files = written
  BY <1>2, <1>3, <1>4, FilledKnown DEF StoresKnown
<1>6. BanksKnown' /\ PalaceKnown'
  BY <1>2, AloneKnown DEF StoresKnown
<1>7. QED
  BY <1>2, <1>5, <1>6, OpeningStores

LEMMA OpenHindsightStores ==
  ASSUME RunTypes, StoresKnown, OpenHindsight
  PROVE  StoresKnown'
<1>1. PICK kept \in SUBSET Filled(written) :
        banks' = [banks EXCEPT ![vault] = Upsert(banks[vault], kept)]
  BY DEF OpenHindsight
<1>2. /\ Opening("hindsight") /\ busy /\ disk' = WrittenDisk
      /\ UNCHANGED <<history, runs, phase, palace>>
  BY DEF OpenHindsight, Opening, Written, WrittenDisk
<1>3. Shelved(disk') /\ disk'[plan.kept][vault].files = written
  BY <1>2, WrittenDiskKnown DEF StoresKnown
<1>4. PalaceKnown' /\ Banking' = Banking
  BY <1>2, AloneKnown DEF StoresKnown
<1>5. BanksKnown'
  <2> DEFINE v == vault
             bank == Upsert(banks[v], kept)
  <2>1. /\ v \in Vaults /\ kept \subseteq written /\ written \subseteq AllDocs
        /\ \A d \in written : From(d, v, KeepingTo(plan.kept))
    BY <1>2, WrittenKnown DEF StoresKnown, Filled
  <2>2. KeepingTo(plan.kept) \subseteq Banking
    <3>1. runs \in 1..runs /\ runs \in Nat /\ plan = history[runs] /\ plan.backend = "hindsight"
      BY <1>2 DEF RunTypes, plan, busy, Opening
    <3>2. ASSUME NEW r \in KeepingTo(plan.kept)
          PROVE  r \in 1..runs /\ runs \in r..runs
                 /\ (runs = r \/ (history[r].kept /\ history[runs].kept))
      BY <1>2, <3>1, <3>2 DEF KeepingTo, busy
    <3>3. QED
      BY <3>1, <3>2 DEF Banking, Banked
  <2>3. /\ banks \in [Vaults -> SUBSET AllDocs]
        /\ \A u \in Vaults : \A d \in banks[u] : From(d, u, Banking)
    BY DEF StoresKnown, BanksKnown
  <2>4. bank \in SUBSET AllDocs /\ \A d \in bank : From(d, v, Banking)
    <3>1. bank \subseteq banks[v] \cup kept
      BY UpsertKnown
    <3>2. \A d \in kept : From(d, v, Banking)
      BY <2>1, <2>2 DEF From
    <3> HIDE DEF v, bank
    <3>3. QED
      BY <2>1, <2>3, <3>1, <3>2
  <2>5. banks' = [banks EXCEPT ![v] = bank]
    BY <1>1
  <2> HIDE DEF v, bank
  <2>6. /\ banks' \in [Vaults -> SUBSET AllDocs]
        /\ \A u \in Vaults : \A d \in banks'[u] : From(d, u, Banking)
    BY <2>1, <2>3, <2>4, <2>5
  <2>7. QED
    BY <1>2, <1>4, <2>6 DEF BanksKnown, From
<1>6. QED
  BY <1>2, <1>3, <1>4, <1>5, OpeningStores

LEMMA OpenPostgresStores ==
  ASSUME RunTypes, StoresKnown, OpenPostgres
  PROVE  StoresKnown'
<1>1. /\ Opening("postgres") /\ busy /\ disk' = WrittenDisk /\ table' = Filled(written)
      /\ UNCHANGED <<history, runs, phase, banks, palace>>
  BY DEF OpenPostgres, Opening, Written, WrittenDisk
<1>2. Shelved(disk') /\ disk'[plan.kept][vault].files = written
  BY <1>1, WrittenDiskKnown DEF StoresKnown
<1>3. BanksKnown' /\ PalaceKnown'
  BY <1>1, AloneKnown DEF StoresKnown
<1>4. table' \subseteq written
  BY <1>1 DEF Filled
<1>5. QED
  BY <1>1, <1>2, <1>3, <1>4, OpeningStores

\* Where nothing is loaded the haystack is silent.
LEMMA SilentHaystack ==
  ASSUME RunTypes, DiskKnown, busy, Filled(written) = {}
  PROVE  \A i \in DOMAIN question.hay : ~question.hay[i].user
<1>1. /\ plan.ds \in DOMAIN Files /\ plan \in Plan /\ question \in QuestionsOf(plan.ds)
  BY QuestionKnown
<1>2. plan.rules \in {"sme-rich", "upstream-exact"}
  BY <1>1 DEF Plan
<1>3. ASSUME NEW i \in DOMAIN question.hay
      PROVE  ~question.hay[i].user
  <2> DEFINE d == Document(plan.ds, question, question.hay[i], plan.rules)
  <2>1. d \in own
    BY <1>1, <1>2, DocumentsKnown DEF own
  <2>2. d \in written
    BY <2>1, WrittenKnown
  <2>3. d.text = "blank"
    BY <2>2 DEF Filled
  <2>4. d.text = Text(question.hay[i], plan.rules)
    BY DEF Document
  <2>5. QED
    BY <2>3, <2>4 DEF Text
<1>4. QED
  BY <1>3

LEMMA OpenServerStores ==
  ASSUME RunTypes, StoresKnown, OpenServer
  PROVE  StoresKnown'
<1>1. /\ Opening("mempalace-server") /\ busy /\ disk' = WrittenDisk
      /\ server' = Emptied(Filled(written)) \cup Filled(written)
      /\ UNCHANGED <<history, runs, phase, banks, palace>>
  BY DEF OpenServer, Opening, Written, WrittenDisk
<1>2. Shelved(disk') /\ disk'[plan.kept][vault].files = written
  BY <1>1, WrittenDiskKnown DEF StoresKnown
<1>3. BanksKnown' /\ PalaceKnown'
  BY <1>1, AloneKnown DEF StoresKnown
<1>4. \/ \A d \in server' : d \in Strays \/ d \in written
      \/ \A i \in DOMAIN question.hay : ~question.hay[i].user
  <2>1. CASE Filled(written) = {}
    BY <1>1, <2>1, SilentHaystack DEF StoresKnown
  <2>2. CASE Filled(written) # {}
    BY <1>1, <2>2 DEF Emptied, Filled
  <2>3. QED
    BY <2>1, <2>2
<1>5. QED
  BY <1>1, <1>2, <1>3, <1>4, OpeningStores

LEMMA OpenPalaceStores ==
  ASSUME RunTypes, StoresKnown, OpenPalace
  PROVE  StoresKnown'
<1>1. PICK b \in {"mempalace-daemon", "familiar"} : Opening(b)
  BY DEF OpenPalace
<1>2. PICK stored \in SUBSET own :
        palace' = palace \cup {[wing |-> vault, doc |-> d] : d \in stored}
  BY DEF OpenPalace
<1>3. /\ busy /\ disk' = WrittenDisk /\ UNCHANGED <<history, runs, phase, banks>>
      /\ plan.backend \in Posting
  BY <1>1 DEF OpenPalace, Opening, Written, WrittenDisk, Posting
<1>4. Shelved(disk') /\ disk'[plan.kept][vault].files = written
  BY <1>3, WrittenDiskKnown DEF StoresKnown
<1>5. BanksKnown' /\ \A B : RunsOn(B)' = RunsOn(B)
  BY <1>3, AloneKnown DEF StoresKnown
<1>6. PalaceKnown'
  <2>1. \A d \in stored : From(d, vault, RunsOn(Posting))
    <3>1. own \subseteq DocsOf(plan.ds) /\ \A d \in own : d.v = vault
      BY <1>3, WrittenKnown DEF StoresKnown
    <3>2. QED
      BY <1>3, <3>1, FromThis
  <2>2. \A w \in palace' : From(w.doc, w.wing, RunsOn(Posting))
    BY <1>2, <2>1 DEF StoresKnown, PalaceKnown
  <2>3. QED
    BY <1>3, <1>5, <2>2 DEF PalaceKnown, From
<1>7. QED
  BY <1>1, <1>4, <1>5, <1>6, OpeningStores

LEMMA NextQuestion ==
  (RunTypes /\ busy => question \in QuestionsOf(plan.ds))'
<1>1. RunTypes /\ busy => question \in QuestionsOf(plan.ds)
  BY QuestionKnown
<1>2. QED
  BY <1>1, PTL

LEMMA AnsweredStores ==
  ASSUME RunTypes, StoresKnown, busy, open, NEW r, r.q = question, Answered(r)
  PROVE  StoresKnown'
<1>1. /\ UNCHANGED <<history, phase, runs, stores, plan>>
      /\ open' => todo' # <<>> /\ question'.vault = question.vault
      /\ RunTypes'
  BY AnsweredTypes
<1>2. /\ DiskKnown' /\ BanksKnown' /\ PalaceKnown'
  <2>1. \A k \in BOOLEAN : KeepingTo(k)' = KeepingTo(k)
    BY <1>1 DEF KeepingTo
  <2>2. QED
    BY <1>1, <2>1, AloneKnown DEF StoresKnown, DiskKnown, Shelved, From, stores
<1>3. Scoped'
  <2> SUFFICES ASSUME open'
               PROVE  Scoped'
    BY DEF Scoped
  <2>1. busy'
    BY <1>1 DEF busy
  <2>2. /\ plan.ds \in DOMAIN Files /\ question \in QuestionsOf(plan.ds)
    BY QuestionKnown
  <2>3. question' \in QuestionsOf(plan.ds)
    BY <1>1, <2>1, NextQuestion
  <2>4. question'.hay = question.hay
    <3>1. question \in Made(plan.ds) /\ question' \in Made(plan.ds)
      BY <2>2, <2>3, LoadedIn
    <3>2. \A p, q \in Made(plan.ds) : p.vault = q.vault => p.hay = q.hay
      BY <2>2, MadeSound
    <3>3. QED
      BY <1>1, <3>1, <3>2
  <2>5. vault' = vault
    BY <1>1 DEF vault
  <2>6. QED
    BY <1>1, <2>4, <2>5 DEF StoresKnown, Scoped, stores
<1>4. QED
  BY <1>2, <1>3 DEF StoresKnown

LEMMA StoresStep ==
  ASSUME RunTypes, StoresKnown, Step
  PROVE  StoresKnown'
<1>1. CASE Start
  BY <1>1, StartStores
<1>2. CASE OpenFiles \/ OpenOmega \/ OpenHindsight
  BY <1>2, OpenFilesStores, OpenOmegaStores, OpenHindsightStores
<1>3. CASE OpenPostgres \/ OpenServer \/ OpenPalace
  BY <1>3, OpenPostgresStores, OpenServerStores, OpenPalaceStores
<1>4. CASE OpenRaises
  <2>1. busy /\ Over(WrittenDisk) /\ UNCHANGED <<banks, palace>>
    BY <1>4 DEF OpenRaises, WrittenDisk
  <2>2. Shelved(WrittenDisk)
    BY <2>1, WrittenDiskKnown DEF StoresKnown
  <2>3. QED
    BY <2>1, <2>2, OverStores
<1>5. CASE Finish \/ Die
  <2>1. Over(disk) /\ UNCHANGED <<banks, palace>>
    BY <1>5 DEF Finish, Die
  <2>2. Shelved(disk)
    BY DEF StoresKnown, DiskKnown
  <2>3. QED
    BY <2>1, <2>2, OverStores
<1>6. CASE Ask \/ AskInVain
  <2>1. PICK hits, failed, reply : Answered(Scored(hits, failed, reply)) /\ busy /\ open
    BY <1>6 DEF Ask, AskInVain
  <2>2. Scored(hits, failed, reply).q = question
    BY DEF Scored
  <2>3. QED
    BY <2>1, <2>2, AnsweredStores
<1>7. QED
  BY <1>1, <1>2, <1>3, <1>4, <1>5, <1>6 DEF Step

\* A sequence made of a finite set holds what the set does.
LEMMA SortedIn ==
  ASSUME NEW S, IsFiniteSet(S)
  PROVE  ToSet(Sorted(S)) \subseteq S /\ DOMAIN Sorted(S) \subseteq Nat
<1> DEFINE n == Cardinality(S)
<1>1. n \in Nat /\ ExistsBijection(1..n, S)
  BY FS_CardinalityType
<1>2. PICK g : g \in Bijection(1..n, S)
  BY <1>1 DEF ExistsBijection
<1>3. g \in [1..n -> S] /\ IsInjective(g)
  BY <1>2 DEF Bijection, Injection, IsInjective
<1>4. \E f \in [1..n -> S] : IsInjective(f)
  BY <1>3
<1>5. Sorted(S) \in [1..n -> S]
  BY <1>4 DEF Sorted, SetToSeq
<1>6. QED
  BY <1>1, <1>5 DEF ToSet

LEMMA RetrievedIn ==
  ASSUME RunTypes, StoresKnown, busy, open, NEW hits \in Retrievals(plan.backend)
  PROVE  ToSet(hits) \subseteq Visible(plan.backend)
<1> DEFINE b == plan.backend
<1>1. CASE b \in Whole
  <2>1. hits = Sorted(Visible(b))
    BY <1>1 DEF Retrievals
  <2>2. Visible(b) = disk[plan.kept][vault].files
    BY <1>1 DEF Visible, Whole
  <2>3. IsFiniteSet(Visible(b))
    <3>1. plan.kept \in BOOLEAN /\ vault \in Vaults
      BY WrittenKnown DEF StoresKnown
    <3>2. QED
      BY <2>2, <3>1 DEF StoresKnown, DiskKnown, Shelved
  <2>4. QED
    BY <2>1, <2>3, SortedIn
<1>2. CASE b \notin Whole
  <2>1. hits \in Rankings(Visible(b))
    BY <1>2 DEF Retrievals
  <2>2. PICK k \in 1..TopK : hits \in [1..k -> Visible(b)]
    BY <2>1 DEF Rankings
  <2>3. QED
    BY <2>2 DEF ToSet
<1>3. QED
  BY <1>1, <1>2

\* A document of one of these runs is of the haystack, or an earlier run is of its
\* dataset.
LEMMA Provenance ==
  ASSUME RunTypes, busy, NEW d, NEW R, R \subseteq 1..runs, From(d, vault, R)
  PROVE  \/ IsOwn(d, question)
         \/ \E r \in R : r \in 1..(runs - 1) /\ history[r].ds = d.ds /\ d.v = question.vault
<1>1. PICK r \in R : d \in DocsOf(history[r].ds)
  BY DEF From
<1>2. /\ runs \in 1..Len(history) /\ plan = history[runs] /\ r \in 1..runs /\ r \in DOMAIN history
      /\ d.v = vault /\ vault = question.vault /\ question \in QuestionsOf(plan.ds)
      /\ plan.ds \in DOMAIN Files
  BY QuestionKnown DEF RunTypes, plan, busy, From
<1>3. CASE r = runs
  BY <1>1, <1>2, <1>3, OwnDocument DEF IsOwn
<1>4. CASE r # runs
  <2>1. d.ds = history[r].ds
    BY <1>1 DEF DocsOf, Documents, Document
  <2>2. QED
    BY <1>2, <1>4, <2>1
<1>5. QED
  BY <1>3, <1>4

LEMMA VisibleKnown ==
  ASSUME RunTypes, StoresKnown, busy, open, NEW d \in Visible(plan.backend)
  PROVE  IsOwn(d, question) \/ IsLeftover(d, question) \/ IsUnscoped(d, question)
<1> DEFINE b == plan.backend
           files == disk[plan.kept][vault].files
<1>1. /\ phase = "run" /\ plan.kept \in BOOLEAN /\ vault \in Vaults /\ b \in Opened
      /\ runs \in 1..runs /\ plan = history[runs]
  BY WrittenKnown DEF RunTypes, StoresKnown, busy, plan
<1>2. ASSUME From(d, vault, KeepingTo(plan.kept))
      PROVE  IsOwn(d, question) \/ IsLeftover(d, question)
  <2>1. KeepingTo(plan.kept) \subseteq 1..runs
    BY <1>1 DEF KeepingTo
  <2>2. \/ IsOwn(d, question)
        \/ \E r \in KeepingTo(plan.kept) :
             r \in 1..(runs - 1) /\ history[r].ds = d.ds /\ d.v = question.vault
    BY <1>2, <2>1, Provenance
  <2>3. \A r \in KeepingTo(plan.kept) : r \in 1..(runs - 1) => plan.kept /\ history[r].kept
    BY <1>1 DEF KeepingTo
  <2>4. QED
    BY <2>2, <2>3 DEF IsLeftover
<1>3. CASE b \in {"flat", "omega"} \cup Whole
  <2>1. d \in disk[plan.kept][vault].files \cup disk[plan.kept][vault].omega
    BY <1>3 DEF Visible, Whole
  <2>2. From(d, vault, KeepingTo(plan.kept))
    BY <1>1, <2>1 DEF StoresKnown, DiskKnown, Shelved
  <2>3. QED
    BY <1>2, <2>2
<1>4. CASE b = "hindsight"
  <2>1. d \in banks[vault]
    BY <1>4 DEF Visible, Whole
  <2>2. From(d, vault, Banking) /\ Banking \subseteq 1..runs
    BY <1>1, <2>1 DEF StoresKnown, BanksKnown, Banking
  <2>3. QED
    BY <1>4, <2>2, Provenance DEF IsLeftover, Banking
<1>5. CASE b \in {"postgres", "mempalace-server"}
  <2>1. CASE d \in files
    BY <1>1, <1>2, <2>1 DEF StoresKnown, DiskKnown, Shelved
  <2>2. CASE d \notin files
    <3>1. b = "postgres" => d \in table
      BY DEF Visible, Whole
    <3>2. b = "mempalace-server" => d \in server
      BY DEF Visible, Whole
    <3>3. QED
      BY <1>5, <2>2, <3>1, <3>2 DEF StoresKnown, Scoped, IsUnscoped
  <2>3. QED
    BY <2>1, <2>2
<1>6. CASE b = "mempalace-daemon"
  <2>1. PICK w \in palace : w.wing = vault /\ d = w.doc
    BY <1>6 DEF Visible, Whole
  <2>2. From(d, vault, RunsOn(Posting)) /\ RunsOn(Posting) \subseteq 1..runs
    BY <1>1, <2>1 DEF StoresKnown, PalaceKnown, RunsOn
  <2>3. QED
    BY <1>6, <2>2, Provenance DEF IsLeftover, RunsOn
<1>7. CASE b = "familiar"
  BY <1>7 DEF IsUnscoped
<1>8. QED
  BY <1>1, <1>3, <1>4, <1>5, <1>6, <1>7 DEF Opened

--------------------------------------------------------------------------------
(* What is recorded. *)

LEMMA SameContains ==
  ASSUME NEW s, s \in Seq(ToSet(s)), NEW e
  PROVE  Contains(s, e) <=> e \in ToSet(s)
<1>1. Len(s) \in Nat /\ DOMAIN s = 1..Len(s)
  OBVIOUS
<1>2. QED
  BY <1>1 DEF Contains, ToSet

\* The credit of a record of an adapter.
Earned(r, b) ==
  LET found == {d.s : d \in ToSet(r.hits)}
      first == {r.hits[k].s : k \in {n \in DOMAIN r.hits : n <= 5}}
      exact == ToSet(r.q.expected) \cap found
  IN /\ \A s \in r.matched : s \in found \/ \E n \in found : n # s /\ Within(s, n)
     /\ r.hit5 <=> ToSet(r.q.expected) \cap first # {} /\ b \in Identified
     /\ r.hit1 => r.hit5
     /\ \A s \in exact \ r.matched : \E d \in ToSet(r.hits) :
          d.s = s /\ (d.text # "rich" \/ b = "hindsight")

LabelsFit(rs) ==
  \A i \in DOMAIN rs : /\ rs[i].label \in Labels \cup {"skipped"}
                       /\ rs[i].label = "ABSTAIN" => rs[i].q.abs

LEMMA ScoredEarned ==
  ASSUME Sound(question), plan.backend \in Opened, NEW hits, DOMAIN hits \subseteq Nat,
         NEW failed, NEW reply
  PROVE  Earned(Scored(hits, failed, reply), plan.backend)
<1> DEFINE b == plan.backend
           r == Scored(hits, failed, reply)
           ids == Ids(b, hits)
           E == ToSet(question.expected)
           found == {d.s : d \in ToSet(hits)}
           first == {hits[k].s : k \in {n \in DOMAIN hits : n <= 5}}
<1>1. /\ r.q = question /\ r.hits = hits /\ r.matched = Matched(question.expected, Names(b, hits))
      /\ r.hit1 = HitAt(1, question.expected, ids)
      /\ r.hit5 = HitAt(5, question.expected, ids)
  BY DEF Scored
<1> HIDE DEF b, r, ids
<1>2. \A s \in r.matched : s \in found \/ \E n \in found : n # s /\ Within(s, n)
  BY <1>1 DEF Matched, Names
<1>3. \A e : Contains(question.expected, e) <=> e \in E
  BY SameContains DEF Sound
<1>4. /\ r.hit5 <=> \E i \in DOMAIN ids : i <= 5 /\ ids[i] \in E
      /\ r.hit1 <=> \E i \in DOMAIN ids : i <= 1 /\ ids[i] \in E
  BY <1>1, <1>3 DEF HitAt
<1>5. /\ DOMAIN ids \subseteq DOMAIN hits
      /\ b \in Identified => DOMAIN ids = DOMAIN hits /\ \A i \in DOMAIN ids : ids[i] = hits[i].s
      /\ b \notin Identified => \A i \in DOMAIN ids : ids[i][1] \in Unnamed
  BY DEF ids, Ids, b, Opened, Identified, Whole, Unnamed, Name
<1>6. \A e \in E : e[1] \notin Unnamed
  BY DEF Sound
<1>7. r.hit5 <=> E \cap first # {} /\ b \in Identified
  <2>1. CASE b \in Identified
    BY <1>4, <1>5, <2>1
  <2>2. CASE b \notin Identified
    BY <1>4, <1>5, <1>6, <2>2
  <2>3. QED
    BY <2>1, <2>2
<1>8. r.hit1 => r.hit5
  BY <1>4, <1>5
<1>9. ASSUME NEW s \in (E \cap found) \ r.matched
      PROVE  \E d \in ToSet(hits) : d.s = s /\ (d.text # "rich" \/ b = "hindsight")
  <2>1. PICK d \in ToSet(hits) : d.s = s
    OBVIOUS
  <2>2. s \notin Names(b, hits)
    BY <1>1, <1>9 DEF Matched, Within
  <2>3. QED
    BY <2>1, <2>2 DEF Names
<1>10. QED
  BY <1>1, <1>2, <1>7, <1>8, <1>9 DEF Earned, r, b

LEMMA ScoredFits ==
  ASSUME Sound(question), NEW hits, NEW failed, NEW reply
  PROVE  LET r == Scored(hits, failed, reply)
         IN /\ r.label \in Labels \cup {"skipped"}
            /\ r.label = "ABSTAIN" => r.q.abs
BY DEF Scored, Graded, AskedAs, Template, Sound, Labels

\* The records of the run under way are scored as its adapter's, and so were those
\* of the report.
RecordsKnown ==
  /\ Isolated
  /\ \A i \in DOMAIN records : Earned(records[i], plan.backend)
  /\ LabelsFit(records)
  /\ report.whole => LabelsFit(report.records) /\ report.summary = Summary(report.records)

Harness == Types /\ StoresKnown /\ RecordsKnown

LEMMA QuestionSound ==
  ASSUME RunTypes, busy
  PROVE  Sound(question)
<1>1. plan.ds \in DOMAIN Files /\ question \in Made(plan.ds)
  BY QuestionKnown, LoadedIn
<1>2. QED
  BY <1>1, MadeSound

LEMMA RetrievedAt ==
  ASSUME RunTypes, StoresKnown, busy, open, NEW hits \in Retrievals(plan.backend)
  PROVE  DOMAIN hits \subseteq Nat
<1> DEFINE b == plan.backend
<1>1. CASE b \in Whole
  <2>1. hits = Sorted(Visible(b))
    BY <1>1 DEF Retrievals
  <2>2. plan.kept \in BOOLEAN /\ vault \in Vaults
    BY WrittenKnown DEF StoresKnown
  <2>3. IsFiniteSet(Visible(b))
    BY <1>1, <2>2 DEF Visible, Whole, StoresKnown, DiskKnown, Shelved
  <2>4. QED
    BY <2>1, <2>3, SortedIn
<1>2. CASE b \notin Whole
  <2>1. hits \in Rankings(Visible(b))
    BY <1>2 DEF Retrievals
  <2>2. PICK k \in 1..TopK : hits \in [1..k -> Visible(b)]
    BY <2>1 DEF Rankings
  <2>3. QED
    BY <2>2, PlansAssumption
<1>3. QED
  BY <1>1, <1>2

LEMMA EmptyRecords ==
  ASSUME records' = <<>>
  PROVE  /\ Isolated' /\ LabelsFit(records)'
         /\ \A i \in DOMAIN records' : Earned(records[i], plan.backend)'
<1>1. DOMAIN records' = {}
  BY EmptyIsSeq
<1>2. QED
  BY <1>1 DEF Isolated, LabelsFit

LEMMA AnsweredRecords ==
  ASSUME RunTypes, RecordsKnown, busy, open, NEW r, r.q = question, Answered(r),
         Earned(r, plan.backend),
         r.label \in Labels \cup {"skipped"}, r.label = "ABSTAIN" => r.q.abs,
         \A d \in ToSet(r.hits) :
           IsOwn(d, question) \/ IsLeftover(d, question) \/ IsUnscoped(d, question)
  PROVE  RecordsKnown'
<1>1. /\ Len(records') = Len(records) + 1 /\ records'[Len(records) + 1] = r
      /\ records' \in Seq(ToSet(records'))
      /\ \A i \in 1..Len(records) : records'[i] = records[i]
      /\ UNCHANGED <<history, runs, report, plan>>
  BY AnsweredTypes
<1>2. /\ Len(records) \in Nat /\ DOMAIN records = 1..Len(records)
      /\ DOMAIN records' = 1..(Len(records) + 1)
  BY <1>1 DEF RunTypes, RecordsOf
<1>3. \A i \in DOMAIN records' :
        records'[i] = r \/ (i \in DOMAIN records /\ records'[i] = records[i])
  BY <1>1, <1>2
<1>4. Isolated'
  <2>1. \A d, q : /\ IsOwn(d, q) => IsOwn(d, q)'
                  /\ IsLeftover(d, q) => IsLeftover(d, q)'
    BY <1>1 DEF IsOwn, IsLeftover, Banked
  <2>2. plan.backend = "mempalace-server" \/ plan.backend # "mempalace-server"
    OBVIOUS
  <2>3. \A d, q : IsUnscoped(d, q) => IsUnscoped(d, q)'
    BY <1>1 DEF IsUnscoped
  <2>4. ASSUME NEW i \in DOMAIN records', NEW d \in ToSet(records'[i].hits)
        PROVE  (IsOwn(d, records[i].q) \/ IsLeftover(d, records[i].q)
                \/ IsUnscoped(d, records[i].q))'
    <3>1. CASE records'[i] = r
      BY <2>1, <2>3, <2>4, <3>1
    <3>2. CASE i \in DOMAIN records /\ records'[i] = records[i]
      BY <2>1, <2>3, <2>4, <3>2 DEF RecordsKnown, Isolated
    <3>3. QED
      BY <1>3, <3>1, <3>2
  <2>5. QED
    BY <2>4 DEF Isolated
<1>5. \A i \in DOMAIN records' : Earned(records'[i], plan.backend)
  BY <1>3 DEF RecordsKnown
<1>6. LabelsFit(records')
  BY <1>3 DEF RecordsKnown, LabelsFit
<1>7. QED
  BY <1>1, <1>4, <1>5, <1>6 DEF RecordsKnown

LEMMA RecordsStep ==
  ASSUME RunTypes, StoresKnown, RecordsKnown, Step
  PROVE  RecordsKnown'
<1>1. CASE Start
  <2>1. records' = <<>> /\ ~report'.whole
    BY <1>1 DEF Start, RunTypes, NoReport
  <2>2. QED
    BY <2>1, EmptyRecords DEF RecordsKnown
<1>2. ASSUME NEW b, Opening(b)
      PROVE  RecordsKnown'
  <2>1. UNCHANGED <<history, runs, records, report, plan>>
    BY <1>2 DEF Opening, plan
  <2>2. Isolated'
    BY <2>1 DEF RecordsKnown, Isolated, IsOwn, IsLeftover, Banked, IsUnscoped
  <2>3. QED
    BY <2>1, <2>2 DEF RecordsKnown
<1>3. CASE OpenFiles \/ OpenOmega \/ OpenHindsight \/ OpenPostgres \/ OpenServer \/ OpenPalace
  <2>1. PICK b : Opening(b)
    BY <1>3 DEF OpenFiles, OpenOmega, OpenHindsight, OpenPostgres, OpenServer, OpenPalace
  <2>2. QED
    BY <1>2, <2>1
<1>4. CASE OpenRaises \/ Die
  <2>1. PICK d : Over(d) /\ UNCHANGED report
    BY <1>4 DEF OpenRaises, Die
  <2>2. records' = <<>> /\ UNCHANGED report
    BY <2>1 DEF Over
  <2>3. QED
    BY <2>2, EmptyRecords DEF RecordsKnown
<1>5. CASE Finish
  <2>1. records' = <<>> /\ report'.records = records /\ report'.summary = Summary(records)
    BY <1>5 DEF Finish, Over
  <2>2. QED
    BY <2>1, EmptyRecords DEF RecordsKnown
<1>6. CASE Ask
  <2>0. PICK hits \in Retrievals(plan.backend) :
          \E reply : Answered(Scored(hits, FALSE, reply))
    BY <1>6 DEF Ask
  <2>1. PICK reply : Answered(Scored(hits, FALSE, reply))
    BY <2>0
  <2> DEFINE r == Scored(hits, FALSE, reply)
  <2>2. busy /\ open /\ Sound(question) /\ plan.backend \in Opened
    BY <1>6, QuestionSound DEF Ask, RunTypes
  <2>3. /\ r.q = question /\ r.hits = hits /\ Answered(r)
    BY <2>1 DEF Scored
  <2>4. DOMAIN hits \subseteq Nat
    BY <2>2, RetrievedAt
  <2>5. Earned(r, plan.backend)
    BY <2>2, <2>4, ScoredEarned
  <2>6. r.label \in Labels \cup {"skipped"} /\ (r.label = "ABSTAIN" => r.q.abs)
    BY <2>2, ScoredFits
  <2>7. \A d \in ToSet(hits) :
          IsOwn(d, question) \/ IsLeftover(d, question) \/ IsUnscoped(d, question)
    BY <2>2, RetrievedIn, VisibleKnown
  <2> HIDE DEF r
  <2>8. QED
    BY <2>2, <2>3, <2>5, <2>6, <2>7, AnsweredRecords
<1>7. CASE AskInVain
  <2>1. PICK reply : Answered(Scored(<<>>, TRUE, reply))
    BY <1>7 DEF AskInVain
  <2> DEFINE r == Scored(<<>>, TRUE, reply)
  <2>2. busy /\ open /\ Sound(question) /\ plan.backend \in Opened
    BY <1>7, QuestionSound DEF AskInVain, RunTypes
  <2>3. /\ r.q = question /\ r.hits = <<>> /\ Answered(r)
    BY <2>1 DEF Scored
  <2>4. DOMAIN <<>> = {}
    BY EmptyIsSeq
  <2>5. Earned(r, plan.backend)
    BY <2>2, <2>4, ScoredEarned
  <2>6. r.label \in Labels \cup {"skipped"} /\ (r.label = "ABSTAIN" => r.q.abs)
    BY <2>2, ScoredFits
  <2>7. ToSet(r.hits) = {}
    BY <2>3, <2>4 DEF ToSet
  <2> HIDE DEF r
  <2>8. QED
    BY <2>2, <2>3, <2>5, <2>6, <2>7, AnsweredRecords
<1>8. QED
  BY <1>1, <1>3, <1>4, <1>5, <1>6, <1>7 DEF Step

--------------------------------------------------------------------------------
(* The tallies. *)

Having(rs, L) == {i \in DOMAIN rs : rs[i].label \in L}
Of(rs, L)     == Cardinality(Having(rs, L))

LEMMA OfIsNat ==
  ASSUME NEW rs, rs \in Seq(ToSet(rs)), NEW L
  PROVE  IsFiniteSet(Having(rs, L)) /\ Of(rs, L) \in Nat
<1>1. Len(rs) \in Nat /\ DOMAIN rs = 1..Len(rs)
  OBVIOUS
<1>2. IsFiniteSet(DOMAIN rs)
  BY <1>1, FS_Interval
<1>3. Having(rs, L) \in SUBSET DOMAIN rs
  BY DEF Having
<1>4. IsFiniteSet(Having(rs, L))
  BY <1>2, <1>3, FS_Subset
<1>5. QED
  BY <1>4, FS_CardinalityType DEF Of

LEMMA OfBoth ==
  ASSUME NEW rs, rs \in Seq(ToSet(rs)), NEW L, NEW M, \A x \in L : x \notin M
  PROVE  Of(rs, L \cup M) = Of(rs, L) + Of(rs, M)
<1> DEFINE A == Having(rs, L)
           B == Having(rs, M)
<1>1. IsFiniteSet(A) /\ IsFiniteSet(B) /\ Cardinality(A) \in Nat /\ Cardinality(B) \in Nat
  BY OfIsNat DEF Of
<1>2. Having(rs, L \cup M) = A \cup B /\ \A i : i \notin A \cap B
  BY DEF Having
<1> HIDE DEF A, B
<1>3. A \cap B = {}
  BY <1>2, Zenon
<1>4. Cardinality(A \cap B) = 0
  BY <1>3, FS_EmptySet
<1>5. Cardinality(A \cup B) = Cardinality(A) + Cardinality(B) - Cardinality(A \cap B)
  BY <1>1, FS_Union
<1>6. Cardinality(A \cup B) = Cardinality(A) + Cardinality(B)
  BY <1>1, <1>4, <1>5
<1>7. QED
  BY <1>2, <1>6 DEF Of, A, B

\* The counts of a report are counts of labels.
LEMMA CountsOf ==
  ASSUME NEW rs
  PROVE  /\ QaAccuracy(rs) = <<Of(rs, {"CORRECT", "ABSTAIN"}),
                               Of(rs, {"CORRECT", "ABSTAIN", "INCORRECT"})>>
         /\ Count(rs, LAMBDA r : r.label \in {"ERROR", "skipped"}) = Of(rs, {"ERROR", "skipped"})
<1>1. Count(rs, LAMBDA r : Right(r.label)) = Of(rs, {"CORRECT", "ABSTAIN"})
  <2>1. {i \in DOMAIN rs : Right(rs[i].label)} = Having(rs, {"CORRECT", "ABSTAIN"})
    BY DEF Having, Right
  <2>2. QED
    BY <2>1 DEF Count, Of
<1>2. Count(rs, LAMBDA r : Judged(r.label)) = Of(rs, {"CORRECT", "ABSTAIN", "INCORRECT"})
  <2>1. {i \in DOMAIN rs : Judged(rs[i].label)} = Having(rs, {"CORRECT", "ABSTAIN", "INCORRECT"})
    BY DEF Having, Judged, Labels
  <2>2. QED
    BY <2>1 DEF Count, Of
<1>3. Count(rs, LAMBDA r : r.label \in {"ERROR", "skipped"}) = Of(rs, {"ERROR", "skipped"})
  <2>1. {i \in DOMAIN rs : rs[i].label \in {"ERROR", "skipped"}} = Having(rs, {"ERROR", "skipped"})
    BY DEF Having
  <2>2. QED
    BY <2>1 DEF Count, Of
<1>4. QED
  BY <1>1, <1>2, <1>3 DEF QaAccuracy

\* The rate of a category is its accuracy.
LEMMA RateIsAccuracy ==
  ASSUME NEW rs, rs \in Seq(ToSet(rs))
  PROVE  CorrectRate(Slot(rs)) = QaAccuracy(rs)
<1>1. \A x \in Labels : Slot(rs).of[x] = Of(rs, {x})
  <2> TAKE x \in Labels
  <2>1. Slot(rs).of[x] = Cardinality({i \in DOMAIN rs : rs[i].label = x})
    BY DEF Slot, Labels, Count
  <2>2. {i \in DOMAIN rs : rs[i].label = x} = Having(rs, {x})
    BY DEF Having
  <2>3. QED
    BY <2>1, <2>2 DEF Of
<1>2. Of(rs, {"CORRECT", "ABSTAIN"}) = Of(rs, {"CORRECT"}) + Of(rs, {"ABSTAIN"})
  <2>1. {"CORRECT"} \cup {"ABSTAIN"} = {"CORRECT", "ABSTAIN"}
    OBVIOUS
  <2>2. QED
    BY <2>1, OfBoth
<1>3. Of(rs, {"CORRECT", "ABSTAIN", "INCORRECT"})
        = Of(rs, {"CORRECT", "ABSTAIN"}) + Of(rs, {"INCORRECT"})
  <2>1. {"CORRECT", "ABSTAIN"} \cup {"INCORRECT"} = {"CORRECT", "ABSTAIN", "INCORRECT"}
    OBVIOUS
  <2>2. QED
    BY <2>1, OfBoth
<1>4. \A L : Of(rs, L) \in Nat
  BY OfIsNat
<1>5. /\ Slot(rs).of["CORRECT"] = Of(rs, {"CORRECT"})
      /\ Slot(rs).of["ABSTAIN"] = Of(rs, {"ABSTAIN"})
      /\ Slot(rs).of["INCORRECT"] = Of(rs, {"INCORRECT"})
  BY <1>1 DEF Labels
<1>6. QaAccuracy(rs) = <<Of(rs, {"CORRECT", "ABSTAIN"}),
                         Of(rs, {"CORRECT", "ABSTAIN", "INCORRECT"})>>
  BY CountsOf
<1> DEFINE c == Of(rs, {"CORRECT"})
           a == Of(rs, {"ABSTAIN"})
           w == Of(rs, {"INCORRECT"})
<1>7. c \in Nat /\ a \in Nat /\ w \in Nat
  BY <1>4
<1>8. CorrectRate(Slot(rs)) = <<c + a, c + w + a>>
  BY <1>5 DEF CorrectRate
<1>9. QaAccuracy(rs) = <<c + a, (c + a) + w>>
  BY <1>2, <1>3, <1>6
<1> HIDE DEF c, a, w
<1>10. c + w + a = (c + a) + w
  BY <1>7
<1>11. QED
  BY <1>8, <1>9, <1>10

LEMMA TalliesOf ==
  ASSUME NEW rs, rs \in Seq(ToSet(rs)), LabelsFit(rs)
  PROVE  /\ Summary(rs).rates = Summary(rs).dual
         /\ Summary(rs).overall[1] = QaAcc(rs)[1]
         /\ QaAcc(rs)[2] = Summary(rs).overall[2]
                           + Count(rs, LAMBDA r : r.label \in {"ERROR", "skipped"})
         /\ \A i \in Summary(rs).disagree : rs[i].label # "ERROR"
<1> DEFINE Part(c) == Among(rs, {r \in ToSet(rs) : r.q.category = c})
<1>1. \A c : CorrectRate(Slot(Part(c))) = QaAccuracy(Part(c))
  <2> TAKE c
  <2> DEFINE part == Part(c)
             T == {r \in ToSet(rs) : r.q.category = c}
  <2>1. part \in Seq(ToSet(rs))
    BY AmongIn
  <2> HIDE DEF part
  <2>2. part \in Seq(ToSet(part))
    BY <2>1, SeqOfOwn
  <2>3. CorrectRate(Slot(part)) = QaAccuracy(part)
    BY <2>2, RateIsAccuracy
  <2>4. QED
    BY <2>3 DEF part
<1>2. Summary(rs).rates = Summary(rs).dual
  <2> DEFINE rates == [c \in Categories(rs) |-> CorrectRate(Slot(Part(c)))]
             dual  == [c \in Categories(rs) |-> QaAccuracy(Part(c))]
  <2>1. Summary(rs).rates = rates /\ Summary(rs).dual = dual
    BY DEF Summary
  <2> HIDE DEF Part
  <2>2. rates = dual
    BY <1>1
  <2>3. QED
    BY <2>1, <2>2
<1>3. Summary(rs).overall = QaAccuracy(rs)
      /\ Summary(rs).disagree = {i \in DOMAIN rs : Disagrees(rs[i])}
  BY DEF Summary
<1>4. QaAcc(rs) = <<Of(rs, {"CORRECT", "ABSTAIN"}), Len(rs)>>
  <2>1. {i \in DOMAIN rs : rs[i].label = "CORRECT" \/ (rs[i].label = "ABSTAIN" /\ rs[i].q.abs)}
          = Having(rs, {"CORRECT", "ABSTAIN"})
    BY DEF LabelsFit, Having
  <2>2. QED
    BY <2>1 DEF QaAcc, Count, Of
<1>5. Len(rs) = Of(rs, {"CORRECT", "ABSTAIN", "INCORRECT"}) + Of(rs, {"ERROR", "skipped"})
  <2> DEFINE L == {"CORRECT", "ABSTAIN", "INCORRECT"}
             M == {"ERROR", "skipped"}
  <2>1. Len(rs) \in Nat /\ DOMAIN rs = 1..Len(rs)
    OBVIOUS
  <2>2. Having(rs, L \cup M) = 1..Len(rs)
    BY <2>1 DEF LabelsFit, Having, Labels
  <2>3. Of(rs, L \cup M) = Len(rs)
    BY <2>1, <2>2, FS_Interval DEF Of
  <2>4. QED
    BY <2>3, OfBoth
<1>6. \A i \in DOMAIN rs : Disagrees(rs[i]) => rs[i].label # "ERROR"
  BY DEF Disagrees, Judged
<1>7. QaAccuracy(rs) = <<Of(rs, {"CORRECT", "ABSTAIN"}),
                         Of(rs, {"CORRECT", "ABSTAIN", "INCORRECT"})>>
  BY CountsOf
<1>8. Count(rs, LAMBDA r : r.label \in {"ERROR", "skipped"}) = Of(rs, {"ERROR", "skipped"})
  BY CountsOf
<1>9. Summary(rs).overall[1] = QaAcc(rs)[1]
  BY <1>3, <1>4, <1>7
<1>10. QaAcc(rs)[2] = Summary(rs).overall[2]
                      + Count(rs, LAMBDA r : r.label \in {"ERROR", "skipped"})
  BY <1>3, <1>4, <1>5, <1>7, <1>8
<1>11. \A i \in Summary(rs).disagree : rs[i].label # "ERROR"
  BY <1>3, <1>6
<1>12. QED
  BY <1>2, <1>9, <1>10, <1>11

LEMMA HarnessBegins ==
  ASSUME EvalInit
  PROVE  Harness
<1>1. Types /\ StoresKnown
  BY SweepInitInv, RunInitTypes, StoresBegin DEF EvalInit, Types
<1>2. records = <<>> /\ ~report.whole
  BY DEF EvalInit, Init, NoReport
<1>3. DOMAIN records = {}
  BY <1>2, EmptyIsSeq
<1>4. RecordsKnown
  BY <1>2, <1>3 DEF RecordsKnown, Isolated, LabelsFit
<1>5. QED
  BY <1>1, <1>4 DEF Harness

LEMMA StartSweepForgets ==
  ASSUME RunTypes, StoresKnown, RecordsKnown, StartSweep
  PROVE  StoresKnown' /\ RecordsKnown'
<1> DEFINE D == [k \in BOOLEAN |-> EmptyDisk]
           S == [files : SUBSET AllDocs, omega : SUBSET AllDocs]
<1>1. /\ disk' = D /\ banks' = [v \in Vaults |-> {}] /\ palace' = {} /\ open' = FALSE
      /\ records' = <<>> /\ ~report'.whole
  BY DEF StartSweep, RunTypes, NoReport
<1>2. /\ EmptyVault \in S /\ EmptyVault.files = {} /\ EmptyVault.omega = {}
      /\ \A k \in BOOLEAN : \A v \in Vaults : D[k][v] = EmptyVault
      /\ D \in [BOOLEAN -> [Vaults -> S]]
  BY DEF EmptyVault, EmptyDisk
<1> HIDE DEF D
<1>3. Shelved(D)'
  BY <1>1, <1>2, FS_EmptySet DEF Shelved
<1>4. StoresKnown'
  BY <1>1, <1>3 DEF StoresKnown, DiskKnown, BanksKnown, PalaceKnown, Scoped
<1>5. RecordsKnown'
  BY <1>1, EmptyRecords DEF RecordsKnown
<1>6. QED
  BY <1>4, <1>5

LEMMA HarnessStep ==
  ASSUME Harness, [Next]_vars
  PROVE  Harness'
<1>1. Types'
  BY TypesStep DEF Harness
<1>2. CASE Step
  BY <1>1, <1>2, StoresStep, RecordsStep DEF Harness, Types
<1>3. CASE StartSweep
  BY <1>1, <1>3, StartSweepForgets DEF Harness, Types
<1>4. CASE UNCHANGED cvars
  <2>1. UNCHANGED <<history, phase, runs, todo, open, records, report, disk, banks, table, server,
                    palace, plan, vault, question>>
    BY <1>4 DEF cvars, stores, plan, vault, question, group
  <2>2. (\A k \in BOOLEAN : KeepingTo(k)' = KeepingTo(k)) /\ Banking' = Banking
        /\ RunsOn(Posting)' = RunsOn(Posting)
    BY <2>1 DEF KeepingTo, Banking, Banked, RunsOn, Posting
  <2>3. StoresKnown'
    BY <2>1, <2>2 DEF Harness, StoresKnown, DiskKnown, Shelved, BanksKnown, PalaceKnown, Scoped,
                      From
  <2>4. Isolated'
    BY <2>1 DEF Harness, RecordsKnown, Isolated, IsOwn, IsLeftover, Banked, IsUnscoped
  <2>5. RecordsKnown'
    BY <2>1, <2>4 DEF Harness, RecordsKnown, LabelsFit
  <2>6. QED
    BY <1>1, <2>3, <2>5 DEF Harness
<1>5. QED
  BY <1>2, <1>3, <1>4 DEF Next, vars

\* The inductive invariant of the harness: the types, what the stores hold and of
\* which runs, and the credit and the labels of the records.
THEOREM HarnessHolds ==
  Spec => []Harness
<1>1. QED
  BY HarnessBegins, HarnessStep, PTL DEF Spec

\* Whatever runs came before, a question is answered from its own haystack, from
\* what an earlier run left in a place that both use, or by a search without a scope.
THEOREM IsolatedHolds ==
  Spec => []Isolated
<1>1. Harness => Isolated
  BY DEF Harness, RecordsKnown
<1>2. QED
  BY <1>1, HarnessHolds, PTL

\* A retrieval is credited with what it found and with nothing else, in whichever of
\* the ways the adapters name their hits.
THEOREM CreditIsEarnedHolds ==
  Spec => []CreditIsEarned
<1>1. Harness => CreditIsEarned
  BY DEF Harness, RecordsKnown, Earned, CreditIsEarned
<1>2. QED
  BY <1>1, HarnessHolds, PTL

\* The tallies of a report and that of the sweep agree on every list of records the
\* judge can leave.
THEOREM TalliesAgreeHolds ==
  Spec => []TalliesAgree
<1>1. ASSUME Harness
      PROVE  TalliesAgree
  <2> SUFFICES ASSUME report.whole
               PROVE  TalliesAgree
    BY DEF TalliesAgree
  <2> DEFINE rs == report.records
  <2>1. rs \in Seq(ToSet(rs)) /\ LabelsFit(rs) /\ report.summary = Summary(rs)
    BY <1>1 DEF Harness, Types, RunTypes, ReportOf, RecordsOf, RecordsKnown
  <2>2. /\ Summary(rs).rates = Summary(rs).dual
        /\ Summary(rs).overall[1] = QaAcc(rs)[1]
        /\ QaAcc(rs)[2] = Summary(rs).overall[2]
                          + Count(rs, LAMBDA r : r.label \in {"ERROR", "skipped"})
        /\ \A i \in Summary(rs).disagree : rs[i].label # "ERROR"
    BY <2>1, TalliesOf
  <2>3. QED
    BY <2>1, <2>2 DEF TalliesAgree
<1>2. QED
  BY <1>1, HarnessHolds, PTL

(***************************************************************************)
(* Sequences that hold nothing twice.                                      *)
(***************************************************************************)

\* No two places of the parts hold the same.
Apart(parts) ==
  \A i, j \in DOMAIN parts : \A a \in DOMAIN parts[i], b \in DOMAIN parts[j] :
    parts[i][a] = parts[j][b] => i = j /\ a = b

\* What they hold together.
AllOf(parts) == UNION {ToSet(parts[i]) : i \in DOMAIN parts}

\* One that holds nothing twice is as long as it has elements.
LEMMA InjectiveLength ==
  ASSUME NEW S, NEW s \in Seq(S), IsInjective(s)
  PROVE  IsFiniteSet(ToSet(s)) /\ Cardinality(ToSet(s)) = Len(s)
<1> DEFINE n == Len(s)
           T == ToSet(s)
<1>1. n \in Nat /\ DOMAIN s = 1..n /\ s \in [1..n -> S]
  OBVIOUS
<1>2. T = {s[i] : i \in 1..n}
  BY <1>1 DEF ToSet
<1> HIDE DEF n, T
<1>3. s \in [1..n -> T]
  BY <1>1, <1>2
<1>4. s \in Surjection(1..n, T)
  BY <1>2, <1>3 DEF Surjection
<1>5. s \in Injection(1..n, T)
  BY <1>1, <1>3 DEF Injection, IsInjective
<1>6. IsFiniteSet(1..n) /\ Cardinality(1..n) = n
  BY <1>1, FS_Interval
<1>7. IsFiniteSet(T) /\ (Cardinality(T) = Cardinality(1..n) <=> s \in Injection(1..n, T))
  BY <1>4, <1>6, FS_Surjection
<1>8. QED
  BY <1>5, <1>6, <1>7 DEF n, T

LEMMA InjectiveShorter ==
  ASSUME NEW S, NEW s \in Seq(S), IsInjective(s),
         NEW R, NEW t \in Seq(R), IsInjective(t), ToSet(s) \subseteq ToSet(t)
  PROVE  Len(s) <= Len(t) /\ (ToSet(t) \subseteq ToSet(s) => Len(s) = Len(t))
<1> DEFINE A == ToSet(s)
           B == ToSet(t)
<1>1. IsFiniteSet(A) /\ Cardinality(A) = Len(s) /\ IsFiniteSet(B) /\ Cardinality(B) = Len(t)
  BY InjectiveLength
<1>2. A \in SUBSET B /\ (B \subseteq A => A = B)
  OBVIOUS
<1> HIDE DEF A, B
<1>3. Cardinality(A) <= Cardinality(B)
  BY <1>1, <1>2, FS_Subset
<1>4. QED
  BY <1>1, <1>2, <1>3 DEF A, B

\* One sequence after another.
LEMMA JoinedApart ==
  ASSUME NEW S, NEW s \in Seq(S), NEW t \in Seq(S)
  PROVE  /\ s \o t \in Seq(S) /\ ToSet(s \o t) = ToSet(s) \cup ToSet(t)
         /\ Len(s \o t) = Len(s) + Len(t) /\ Len(s) \in Nat /\ Len(t) \in Nat
         /\ \A i \in 1..Len(s) : (s \o t)[i] = s[i]
         /\ \A i \in 1..Len(t) : (s \o t)[Len(s) + i] = t[i]
<1> DEFINE m == Len(s)
           n == Len(t)
           u == s \o t
<1>1. /\ u \in Seq(S) /\ Len(u) = m + n /\ m \in Nat /\ n \in Nat
      /\ DOMAIN u = 1..(m + n) /\ DOMAIN s = 1..m /\ DOMAIN t = 1..n
  OBVIOUS
<1>2. \A i \in 1..m : u[i] = s[i]
  OBVIOUS
<1>3. \A i \in 1..n : u[m + i] = t[i]
  OBVIOUS
<1> HIDE DEF u, m, n
<1>4. ASSUME NEW y, y \in ToSet(u)
      PROVE  y \in ToSet(s) \cup ToSet(t)
  <2>1. PICK i \in 1..(m + n) : y = u[i]
    BY <1>1, <1>4 DEF ToSet
  <2>2. CASE i \in 1..m
    BY <1>1, <1>2, <2>1, <2>2 DEF ToSet
  <2>3. CASE i \notin 1..m
    <3>1. i - m \in 1..n /\ m + (i - m) = i
      BY <1>1, <2>3
    <3>2. u[i] = t[i - m]
      BY <1>3, <3>1
    <3>3. QED
      BY <1>1, <2>1, <3>1, <3>2 DEF ToSet
  <2>4. QED
    BY <2>2, <2>3
<1>5. ASSUME NEW y, y \in ToSet(s) \cup ToSet(t)
      PROVE  y \in ToSet(u)
  <2>1. CASE y \in ToSet(s)
    <3>1. PICK i \in 1..m : y = s[i]
      BY <1>1, <2>1 DEF ToSet
    <3>2. i \in 1..(m + n) /\ y = u[i]
      BY <1>1, <1>2, <3>1
    <3>3. QED
      BY <1>1, <3>2 DEF ToSet
  <2>2. CASE y \in ToSet(t)
    <3>1. PICK i \in 1..n : y = t[i]
      BY <1>1, <2>2 DEF ToSet
    <3>2. m + i \in 1..(m + n) /\ y = u[m + i]
      BY <1>1, <1>3, <3>1
    <3>3. QED
      BY <1>1, <3>2 DEF ToSet
  <2>3. QED
    BY <1>5, <2>1, <2>2
<1>6. ToSet(u) = ToSet(s) \cup ToSet(t)
  BY <1>4, <1>5
<1>7. QED
  BY <1>1, <1>2, <1>3, <1>6 DEF u, m, n

\* Of two places, the one of an earlier part is the earlier.
Ordered(s, parts) ==
  \A x, y \in DOMAIN s : \A i, j \in DOMAIN parts :
    s[x] \in ToSet(parts[i]) /\ s[y] \in ToSet(parts[j]) /\ i < j => x < y

\* Parts that are apart, joined: nothing is there twice, and the parts keep their order.
LEMMA FlattenedApart ==
  ASSUME NEW S, NEW parts \in Seq(Seq(S)), Apart(parts)
  PROVE  /\ Flattened(parts) \in Seq(S)
         /\ IsInjective(Flattened(parts))
         /\ ToSet(Flattened(parts)) = AllOf(parts)
         /\ Ordered(Flattened(parts), parts)
<1> DEFINE n == Len(parts)
<1>1. PICK h : /\ AreSteps(h, n, Seq(S), <<>>, Joining(S, parts))
               /\ Flattened(parts) = h[n]
  BY FlattenedSteps
<1>2. n \in Nat /\ n \in 0..n /\ DOMAIN parts = 1..n /\ \A k \in 1..n : parts[k] \in Seq(S)
  OBVIOUS
<1>3. /\ h \in [0..n -> Seq(S)] /\ h[0] = <<>>
      /\ \A k \in 1..n : h[k] = h[k - 1] \o parts[k]
  <2>1. /\ h \in [0..n -> Seq(S)] /\ h[0] = <<>>
        /\ \A k \in 1..n : h[k] = Joining(S, parts)[<<k, h[k - 1]>>]
    BY <1>1 DEF AreSteps
  <2> HIDE DEF n
  <2>2. \A k \in 1..n : k - 1 \in 0..n /\ h[k - 1] \in Seq(S)
    BY <1>2, <2>1
  <2>3. \A k \in 1..n : Joining(S, parts)[<<k, h[k - 1]>>] = h[k - 1] \o parts[k]
    BY <2>2 DEF Joining, n
  <2>4. QED
    BY <2>1, <2>3
<1> DEFINE First(k) == UNION {ToSet(parts[i]) : i \in 1..k}
           In(k)  == ToSet(h[k]) = First(k)
           Inj(k) == IsInjective(h[k])
           Ord(k) == \A x, y \in DOMAIN h[k] : \A i, j \in 1..n :
                       h[k][x] \in ToSet(parts[i]) /\ h[k][y] \in ToSet(parts[j]) /\ i < j => x < y
           Done == {k \in 0..n : In(k) /\ Inj(k) /\ Ord(k)}
<1>4. 0 \in Done
  <2>1. ToSet(<<>>) = {} /\ DOMAIN <<>> = {}
    BY DEF ToSet
  <2>2. In(0) /\ Inj(0) /\ Ord(0)
    BY <1>3, <2>1 DEF IsInjective
  <2>3. QED
    BY <1>2, <2>2
<1>5. ASSUME NEW k \in 0..(n - 1), k \in Done
      PROVE  k + 1 \in Done
  <2> DEFINE q == k + 1
             a == h[k]
             p == parts[q]
             u == h[q]
             m == Len(a)
             l == Len(p)
  <2>1. q \in 1..n /\ q \in 0..n /\ k \in 0..n /\ q - 1 = k /\ 1..q = (1..k) \cup {q} /\ q \notin 1..k
        /\ 1..k \subseteq 1..n
    BY <1>2
  <2>2. u = a \o p /\ a \in Seq(S) /\ p \in Seq(S)
    BY <1>2, <1>3, <2>1
  <2>3. In(k) /\ Inj(k) /\ Ord(k)
    BY <1>5
  <2>4. \A i, j \in 1..n : \A y : y \in ToSet(parts[i]) /\ y \in ToSet(parts[j]) => i = j
    BY <1>2 DEF Apart, ToSet
  <2>5. IsInjective(p)
    BY <1>2, <2>1 DEF Apart, IsInjective
  <2> HIDE DEF q, a, p, u, n
  <2>6. /\ ToSet(u) = ToSet(a) \cup ToSet(p)
        /\ Len(u) = m + l /\ m \in Nat /\ l \in Nat
        /\ \A i \in 1..m : u[i] = a[i]
        /\ \A i \in 1..l : u[m + i] = p[i]
    BY <2>2, JoinedApart
  <2>7. DOMAIN u = 1..(m + l) /\ DOMAIN a = 1..m /\ DOMAIN p = 1..l
    <3>1. u \in Seq(S)
      BY <2>2
    <3>2. QED
      BY <2>2, <2>6, <3>1
  <2> HIDE DEF m, l
  <2>8. \A i \in 1..m : a[i] \in ToSet(a)
    BY <2>7 DEF ToSet
  <2>9. \A y \in ToSet(a) : \E i \in 1..k : y \in ToSet(parts[i])
    BY <2>3 DEF a
  <2>10. \A x \in 1..(m + l) : \/ x \in 1..m /\ u[x] = a[x] /\ \E i \in 1..k : u[x] \in ToSet(parts[i])
                               \/ \E z \in 1..l : x = m + z /\ u[x] = p[z] /\ u[x] \in ToSet(parts[q])
    <3> TAKE x \in 1..(m + l)
    <3>1. CASE x \in 1..m
      BY <2>6, <2>8, <2>9, <3>1
    <3>2. CASE x \notin 1..m
      <4>1. x - m \in 1..l /\ x = m + (x - m)
        BY <2>6, <3>2
      <4>2. u[x] = p[x - m]
        BY <2>6, <4>1
      <4>3. p[x - m] \in ToSet(p)
        BY <2>7, <4>1 DEF ToSet
      <4>4. QED
        BY <4>1, <4>2, <4>3 DEF p
    <3>3. QED
      BY <3>1, <3>2
  <2>11. Inj(q)
    <3> SUFFICES ASSUME NEW x \in 1..(m + l), NEW y \in 1..(m + l), u[x] = u[y]
                 PROVE  x = y
      BY <2>7 DEF IsInjective, u
    <3>1. CASE x \in 1..m /\ u[x] = a[x] /\ \E i \in 1..k : u[x] \in ToSet(parts[i])
      <4>1. CASE y \in 1..m /\ u[y] = a[y]
        BY <2>3, <2>7, <3>1, <4>1 DEF IsInjective, a
      <4>2. u[y] \notin ToSet(parts[q])
        BY <2>1, <2>4, <3>1
      <4>3. QED
        BY <2>10, <4>1, <4>2
    <3>2. CASE \E z \in 1..l : x = m + z /\ u[x] = p[z] /\ u[x] \in ToSet(parts[q])
      <4>1. PICK z \in 1..l : x = m + z /\ u[x] = p[z]
        BY <3>2
      <4>2. ~\E i \in 1..k : u[y] \in ToSet(parts[i])
        BY <2>1, <2>4, <3>2
      <4>3. PICK w \in 1..l : y = m + w /\ u[y] = p[w]
        BY <2>10, <4>2
      <4>4. z = w
        BY <2>5, <2>7, <4>1, <4>3 DEF IsInjective
      <4>5. QED
        BY <4>1, <4>3, <4>4
    <3>3. QED
      BY <2>10, <3>1, <3>2
  <2>12. Ord(q)
    <3> SUFFICES ASSUME NEW x \in 1..(m + l), NEW y \in 1..(m + l), NEW i \in 1..n, NEW j \in 1..n,
                        u[x] \in ToSet(parts[i]), u[y] \in ToSet(parts[j]), i < j
                 PROVE  x < y
      BY <2>7 DEF u
    <3>1. CASE x \in 1..m /\ u[x] = a[x]
      <4>1. CASE y \in 1..m /\ u[y] = a[y]
        BY <2>3, <2>7, <3>1, <4>1 DEF a
      <4>2. CASE \E z \in 1..l : y = m + z
        BY <2>6, <3>1, <4>2
      <4>3. QED
        BY <2>10, <4>1, <4>2
    <3>2. CASE u[x] \in ToSet(parts[q])
      <4>1. i = q
        BY <2>1, <2>4, <3>2
      <4>2. \A r \in 1..q : j # r
        BY <1>2, <2>1, <4>1
      <4>3. CASE \E r \in 1..k : u[y] \in ToSet(parts[r])
        BY <2>1, <2>4, <4>2, <4>3
      <4>4. CASE u[y] \in ToSet(parts[q])
        BY <2>1, <2>4, <4>2, <4>4
      <4>5. QED
        BY <2>10, <4>3, <4>4
    <3>3. QED
      BY <2>10, <3>1, <3>2
  <2>13. In(q)
    <3>1. First(q) = First(k) \cup ToSet(parts[q])
      BY <2>1
    <3>2. ToSet(u) = ToSet(a) \cup ToSet(parts[q])
      BY <2>6 DEF p
    <3> HIDE DEF First
    <3>3. QED
      BY <2>3, <3>1, <3>2 DEF u, a
  <2> HIDE DEF In, Inj, Ord
  <2>14. QED
    BY <2>1, <2>11, <2>12, <2>13 DEF q
<1>6. 0..n \subseteq Done
  <2> HIDE DEF Done, n
  <2>1. QED
    BY <1>2, <1>4, <1>5, UpTo
<1>7. In(n) /\ Inj(n) /\ Ord(n)
  BY <1>2, <1>6
<1>8. First(n) = AllOf(parts)
  BY <1>2 DEF AllOf
<1>9. QED
  BY <1>1, <1>2, <1>3, <1>7, <1>8 DEF Ordered

\* The elements taken of a sequence are not there twice either.
LEMMA AmongInjective ==
  ASSUME NEW S, NEW T, NEW seq \in Seq(S), IsInjective(seq)
  PROVE  IsInjective(Among(seq, T))
<1> DEFINE n == Len(seq)
<1>1. PICK h : /\ AreSteps(h, n, Seq(S), <<>>, Keeping(S, T, seq))
               /\ Among(seq, T) = h[n]
  BY AmongSteps
<1>2. n \in Nat /\ n \in 0..n /\ DOMAIN seq = 1..n
  OBVIOUS
<1>3. /\ h \in [0..n -> Seq(S)] /\ h[0] = <<>>
      /\ \A k \in 1..n : h[k] = Keeping(S, T, seq)[<<k, h[k - 1]>>]
  BY <1>1 DEF AreSteps
<1> DEFINE Found(k) == \A y \in ToSet(h[k]) : \E i \in 1..k : y = seq[i]
           Inj(k)   == IsInjective(h[k])
           Done == {k \in 0..n : Found(k) /\ Inj(k)}
<1>4. 0 \in Done
  BY <1>2, <1>3 DEF ToSet, IsInjective
<1>5. ASSUME NEW k \in 0..(n - 1), k \in Done
      PROVE  k + 1 \in Done
  <2> DEFINE m == k + 1
  <2>1. m \in 1..n /\ m \in 0..n /\ k \in 0..n /\ m - 1 = k /\ 1..m = (1..k) \cup {m} /\ m \notin 1..k
        /\ 1..m \subseteq 1..n
    BY <1>2
  <2> HIDE DEF m, n
  <2>2. h[m] = IF seq[m] \in T THEN Append(h[k], seq[m]) ELSE h[k]
    BY <1>3, <2>1 DEF Keeping, n
  <2>3. h[k] \in Seq(S) /\ seq[m] \in S
    BY <1>3, <2>1 DEF n
  <2>4. Found(k) /\ Inj(k)
    BY <1>5
  <2>5. seq[m] \notin ToSet(h[k])
    BY <1>2, <2>1, <2>4 DEF IsInjective
  <2>6. CASE h[m] = h[k]
    BY <2>1, <2>4, <2>6 DEF m
  <2>7. CASE h[m] = Append(h[k], seq[m])
    <3> DEFINE a == h[k]
               l == Len(a)
               u == h[m]
    <3>1. /\ l \in Nat /\ DOMAIN a = 1..l /\ DOMAIN u = 1..(l + 1)
          /\ u[l + 1] = seq[m] /\ \A i \in 1..l : u[i] = a[i]
      BY <2>3, <2>7
    <3>2. \A i \in 1..l : a[i] \in ToSet(a)
      BY <3>1 DEF ToSet
    <3>3. ToSet(u) = ToSet(a) \cup {seq[m]}
      BY <2>3, <2>7, AppendedSet
    <3>4. Found(m)
      BY <2>1, <2>4, <3>3
    <3> HIDE DEF u, a, l
    <3>5. \A x \in 1..(l + 1) : x \in 1..l \/ x = l + 1
      BY <3>1
    <3>6. \A x, y \in 1..(l + 1) : u[x] = u[y] => x = y
      <4> SUFFICES ASSUME NEW x \in 1..(l + 1), NEW y \in 1..(l + 1), u[x] = u[y]
                   PROVE  x = y
        OBVIOUS
      <4>1. CASE x \in 1..l /\ y \in 1..l
        BY <2>4, <3>1, <4>1 DEF IsInjective, a
      <4>2. CASE x \in 1..l /\ y = l + 1
        BY <2>5, <3>1, <3>2, <4>2 DEF a
      <4>3. CASE x = l + 1 /\ y \in 1..l
        BY <2>5, <3>1, <3>2, <4>3 DEF a
      <4>4. QED
        BY <3>5, <4>1, <4>2, <4>3
    <3>7. Inj(m)
      BY <3>1, <3>6 DEF IsInjective, u
    <3> HIDE DEF Found, Inj
    <3>8. QED
      BY <2>1, <3>4, <3>7 DEF m
  <2>8. QED
    BY <2>2, <2>6, <2>7
<1>6. 0..n \subseteq Done
  <2> HIDE DEF Done, n
  <2>1. QED
    BY <1>2, <1>4, <1>5, UpTo
<1>7. QED
  BY <1>1, <1>2, <1>6

\* The first of a sequence.
LEMMA FirstOf ==
  ASSUME NEW S, NEW s \in Seq(S), NEW m \in 0..Len(s)
  PROVE  /\ SubSeq(s, 1, m) \in Seq(S) /\ Len(SubSeq(s, 1, m)) = m
         /\ ToSet(SubSeq(s, 1, m)) = {s[i] : i \in 1..m}
         /\ IsInjective(s) => IsInjective(SubSeq(s, 1, m))
<1> DEFINE u == SubSeq(s, 1, m)
<1>1. /\ u \in Seq(S) /\ Len(u) = m /\ m \in Nat /\ DOMAIN u = 1..m /\ DOMAIN s = 1..Len(s)
      /\ \A i \in 1..m : u[i] = s[i] /\ i \in 1..Len(s)
  OBVIOUS
<1> HIDE DEF u
<1>2. ToSet(u) = {s[i] : i \in 1..m}
  BY <1>1 DEF ToSet
<1>3. IsInjective(s) => IsInjective(u)
  BY <1>1 DEF IsInjective
<1>4. QED
  BY <1>1, <1>2, <1>3 DEF u

\* The questions of a type.
LEMMA OfTypeIn ==
  ASSUME NEW S, NEW qs \in Seq(S), IsInjective(qs), NEW t
  PROVE  /\ OfType(qs, t) \in Seq(ToSet(qs)) /\ IsInjective(OfType(qs, t))
         /\ ToSet(OfType(qs, t)) = {q \in ToSet(qs) : q.type = t}
         /\ Len(OfType(qs, t)) \in 0..Len(qs)
         /\ \A k \in 1..Len(OfType(qs, t)) : /\ OfType(qs, t)[k] \in ToSet(qs)
                                             /\ OfType(qs, t)[k].type = t
<1> DEFINE Q == ToSet(qs)
           T == {q \in Q : q.type = t}
           of == Among(qs, T)
<1>0. qs \in Seq(Q)
  BY SeqOfOwn
<1>1. of = OfType(qs, t)
  BY DEF OfType
<1>2. of \in Seq(Q) /\ ToSet(of) = Q \cap T /\ IsInjective(of)
  <2> HIDE DEF Q, T
  <2>1. of \in Seq(Q) /\ ToSet(of) = ToSet(qs) \cap T
    BY <1>0, AmongIn
  <2>2. IsInjective(of)
    BY <1>0, AmongInjective
  <2>3. QED
    BY <2>1, <2>2 DEF Q
<1> HIDE DEF of
<1>3. ToSet(of) = T /\ ToSet(of) \subseteq ToSet(qs)
  BY <1>2
<1>4. Len(of) <= Len(qs) /\ Len(of) \in Nat /\ Len(qs) \in Nat
  BY <1>0, <1>2, <1>3, InjectiveShorter
<1>5. \A k \in 1..Len(of) : of[k] \in T
  BY <1>2, <1>3 DEF ToSet
<1>6. QED
  BY <1>1, <1>2, <1>3, <1>4, <1>5

\* A round has the k-th question of every type that has one.
LEMMA RoundHolds ==
  ASSUME NEW S, NEW qs \in Seq(S), IsInjective(qs), NEW types, types \in Seq(ToSet(types)),
         IsInjective(types), NEW k \in Nat \ {0}
  PROVE  LET R == Round(qs, types, k)
         IN /\ R \in Seq(ToSet(qs))
            /\ \A a, b \in DOMAIN R : R[a].type = R[b].type => a = b
            /\ \A a \in DOMAIN R : /\ R[a].type \in ToSet(types) /\ k <= Len(OfType(qs, R[a].type))
                                   /\ R[a] = OfType(qs, R[a].type)[k]
            /\ \A t \in ToSet(types) :
                 k <= Len(OfType(qs, t)) => OfType(qs, t)[k] \in ToSet(R)
<1> DEFINE T == {t \in ToSet(types) : Len(OfType(qs, t)) >= k}
           Giving == Among(types, T)
           R == Round(qs, types, k)
<1>1. Giving \in Seq(ToSet(types)) /\ ToSet(Giving) = ToSet(types) \cap T /\ IsInjective(Giving)
  BY AmongIn, AmongInjective
<1>2. R = [i \in DOMAIN Giving |-> OfType(qs, Giving[i])[k]]
  BY DEF Round
<1>3. R \in Seq(ToSet(qs))
  BY RoundIn, SeqOfOwn
<1> HIDE DEF Giving, R
<1>4. \A t \in T : /\ t \in ToSet(types) /\ k <= Len(OfType(qs, t))
                   /\ OfType(qs, t)[k].type = t
  BY OfTypeIn
<1>5. \A a \in DOMAIN Giving : Giving[a] \in T
  BY <1>1 DEF ToSet
<1> HIDE DEF T
<1>6. \A a \in DOMAIN R : a \in DOMAIN Giving /\ R[a] = OfType(qs, Giving[a])[k]
                          /\ R[a].type = Giving[a]
  BY <1>2, <1>4, <1>5
<1>7. \A a, b \in DOMAIN R : R[a].type = R[b].type => a = b
  BY <1>1, <1>6 DEF IsInjective
<1>8. \A a \in DOMAIN R : /\ R[a].type \in ToSet(types) /\ k <= Len(OfType(qs, R[a].type))
                          /\ R[a] = OfType(qs, R[a].type)[k]
  BY <1>4, <1>5, <1>6
<1>9. ASSUME NEW t \in ToSet(types), k <= Len(OfType(qs, t))
      PROVE  OfType(qs, t)[k] \in ToSet(R)
  <2>1. t \in T
    BY <1>9, OfTypeIn DEF T
  <2>2. t \in ToSet(Giving)
    BY <1>1, <2>1
  <2>3. PICK a \in DOMAIN Giving : Giving[a] = t
    BY <2>2 DEF ToSet
  <2>4. a \in DOMAIN R /\ R[a] = OfType(qs, t)[k]
    BY <1>2, <2>3
  <2>5. QED
    BY <2>4 DEF ToSet
<1>10. QED
  BY <1>3, <1>7, <1>8, <1>9 DEF R

(***************************************************************************)
(* No question of a file is there twice.                                   *)
(***************************************************************************)

\* Parts whose elements have the name of the part and their own place in their ids.
LEMMA SampleApart ==
  ASSUME NEW n \in Nat, NEW ids, NEW parts, DOMAIN parts = 1..n,
         \A i, j \in 1..n : ids[i] = ids[j] => i = j,
         \A i \in 1..n : \A k \in DOMAIN parts[i] : parts[i][k].id = <<ids[i], k>>
  PROVE  Apart(parts)
<1> SUFFICES ASSUME NEW i \in 1..n, NEW j \in 1..n, NEW a \in DOMAIN parts[i],
                    NEW b \in DOMAIN parts[j], parts[i][a] = parts[j][b]
             PROVE  i = j /\ a = b
  BY DEF Apart
<1>1. <<ids[i], a>> = <<ids[j], b>>
  BY Zenon
<1>2. QED
  BY <1>1

LEMMA LoadedApart ==
  ASSUME NEW ds \in DOMAIN Files
  PROVE  /\ IsInjective(Loaded(Files[ds]))
         /\ Files[ds].corpus = "longmemeval" =>
              \A q \in QuestionsOf(ds) : q.type \in ToSet(TypeOrder)
<1> DEFINE rs == Files[ds].records
           ids == [i \in DOMAIN rs |-> rs[i].id]
<1>1. /\ rs \in Seq(ToSet(rs)) /\ Files[ds].corpus \in {"longmemeval", "locomo", "beam"}
      /\ \A i \in DOMAIN rs : OfFile(Files[ds].corpus, rs[i])
      /\ \A i, j \in DOMAIN rs : rs[i].id = rs[j].id => i = j
  BY FilesAssumption
<1>2. Len(rs) \in Nat /\ DOMAIN rs = 1..Len(rs)
  BY <1>1
<1>3. CASE Files[ds].corpus = "longmemeval"
  <2> DEFINE qs == Loaded(Files[ds])
  <2>1. /\ qs = [i \in DOMAIN rs |-> FromLongMemEval(rs[i])]
    BY <1>3 DEF Loaded
  <2>2. \A r : FromLongMemEval(r).id = <<r.id>> /\ FromLongMemEval(r).type = r.type
    BY DEF FromLongMemEval
  <2> HIDE DEF rs
  <2>3. IsInjective(qs)
    BY <1>1, <2>1, <2>2 DEF IsInjective
  <2>4. \A i \in DOMAIN rs : rs[i].type \in ToSet(TypeOrder)
    BY <1>1, <1>3 DEF OfFile
  <2>5. \A q \in ToSet(qs) : \E i \in DOMAIN rs : q.type = rs[i].type
    BY <2>1, <2>2 DEF ToSet
  <2>6. QED
    BY <2>3, <2>4, <2>5 DEF QuestionsOf
<1>4. CASE Files[ds].corpus = "locomo"
  <2> DEFINE parts == [i \in DOMAIN rs |-> FromLoCoMo(rs[i])]
             S == UNION {ToSet(FromLoCoMo(rs[i])) : i \in DOMAIN rs}
  <2>1. Loaded(Files[ds]) = Flattened(parts)
    BY <1>4 DEF Loaded
  <2>2. ASSUME NEW i \in DOMAIN rs
        PROVE  /\ FromLoCoMo(rs[i]) \in Seq(S)
               /\ \A k \in DOMAIN FromLoCoMo(rs[i]) : FromLoCoMo(rs[i])[k].id = <<rs[i].id, k>>
    <3> DEFINE qs == FromLoCoMo(rs[i])
               m == Len(rs[i].qa)
    <3>1. rs[i].qa \in Seq(ToSet(rs[i].qa))
      BY <1>1, <1>4 DEF OfFile
    <3>2. /\ m \in Nat /\ DOMAIN qs = 1..m /\ qs = [k \in 1..m |-> qs[k]]
      <4>1. m \in Nat /\ DOMAIN rs[i].qa = 1..m
        BY <3>1
      <4>2. DOMAIN qs = DOMAIN rs[i].qa /\ qs = [k \in DOMAIN rs[i].qa |-> qs[k]]
        BY Zenon, LoCoMoQuestions
      <4> HIDE DEF qs, m
      <4>3. QED
        BY Zenon, <4>1, <4>2
    <3>3. \A k \in DOMAIN qs : qs[k].id = <<rs[i].id, k>>
      BY DEF FromLoCoMo
    <3> HIDE DEF m
    <3>4. \A k \in 1..m : qs[k] \in ToSet(qs)
      BY <3>2 DEF ToSet
    <3>5. ToSet(qs) \subseteq S
      OBVIOUS
    <3> HIDE DEF qs, S
    <3>6. qs \in Seq(S)
      BY <3>2, <3>4, <3>5, SeqOfSet
    <3>7. QED
      BY <3>3, <3>6 DEF qs
  <2> HIDE DEF rs, S
  <2>3. parts \in Seq(Seq(S))
    BY <1>2, <2>2
  <2>4. \A i \in 1..Len(rs) : \A k \in DOMAIN parts[i] : parts[i][k].id = <<ids[i], k>>
    BY <1>2, <2>2
  <2>5. DOMAIN parts = 1..Len(rs) /\ \A i, j \in 1..Len(rs) : ids[i] = ids[j] => i = j
    BY <1>1, <1>2
  <2> DEFINE n == Len(rs)
  <2> HIDE DEF parts, ids
  <2>6. Apart(parts)
    <3>1. /\ n \in Nat /\ DOMAIN parts = 1..n /\ \A i, j \in 1..n : ids[i] = ids[j] => i = j
          /\ \A i \in 1..n : \A k \in DOMAIN parts[i] : parts[i][k].id = <<ids[i], k>>
      BY <1>2, <2>4, <2>5
    <3> HIDE DEF n
    <3>2. QED
      BY <3>1, SampleApart
  <2>7. QED
    BY <1>4, <2>1, <2>3, <2>6, FlattenedApart
<1>5. CASE Files[ds].corpus = "beam"
  <2> DEFINE parts == [i \in DOMAIN rs |-> FromBeam(rs[i])]
             S == UNION {ToSet(FromBeam(rs[i])) : i \in DOMAIN rs}
  <2>1. Loaded(Files[ds]) = Flattened(parts)
    BY <1>5 DEF Loaded
  <2>2. ASSUME NEW i \in DOMAIN rs
        PROVE  /\ FromBeam(rs[i]) \in Seq(S)
               /\ \A k \in DOMAIN FromBeam(rs[i]) : FromBeam(rs[i])[k].id = <<rs[i].id, k>>
    <3> DEFINE qs == FromBeam(rs[i])
               m == Len(rs[i].items)
    <3>1. rs[i].items \in Seq(ToSet(rs[i].items))
      BY <1>1, <1>5 DEF OfFile
    <3>2. /\ m \in Nat /\ DOMAIN qs = 1..m /\ qs = [k \in 1..m |-> qs[k]]
      BY SMTT(20), <3>1 DEF FromBeam
    <3>3. \A k \in DOMAIN qs : qs[k].id = <<rs[i].id, k>>
      BY DEF FromBeam
    <3> HIDE DEF m
    <3>4. \A k \in 1..m : qs[k] \in ToSet(qs)
      BY <3>2 DEF ToSet
    <3>5. ToSet(qs) \subseteq S
      OBVIOUS
    <3> HIDE DEF qs, S
    <3>6. qs \in Seq(S)
      BY <3>2, <3>4, <3>5, SeqOfSet
    <3>7. QED
      BY <3>3, <3>6 DEF qs
  <2> HIDE DEF rs, S
  <2>3. parts \in Seq(Seq(S))
    BY <1>2, <2>2
  <2>4. \A i \in 1..Len(rs) : \A k \in DOMAIN parts[i] : parts[i][k].id = <<ids[i], k>>
    BY <1>2, <2>2
  <2>5. DOMAIN parts = 1..Len(rs) /\ \A i, j \in 1..Len(rs) : ids[i] = ids[j] => i = j
    BY <1>1, <1>2
  <2> DEFINE n == Len(rs)
  <2> HIDE DEF parts, ids
  <2>6. Apart(parts)
    <3>1. /\ n \in Nat /\ DOMAIN parts = 1..n /\ \A i, j \in 1..n : ids[i] = ids[j] => i = j
          /\ \A i \in 1..n : \A k \in DOMAIN parts[i] : parts[i][k].id = <<ids[i], k>>
      BY <1>2, <2>4, <2>5
    <3> HIDE DEF n
    <3>2. QED
      BY <3>1, SampleApart
  <2>7. QED
    BY <1>5, <2>1, <2>3, <2>6, FlattenedApart
<1>6. QED
  BY <1>1, <1>3, <1>4, <1>5

(***************************************************************************)
(* What a run takes of them.                                               *)
(***************************************************************************)

\* The rounds over the types, one after another.
Rounds(qs, types) == [k \in DOMAIN qs |-> Round(qs, types, k)]

LEMMA RoundsHold ==
  ASSUME NEW S, NEW qs \in Seq(S), IsInjective(qs), NEW types, types \in Seq(ToSet(types)),
         IsInjective(types), \A q \in ToSet(qs) : q.type \in ToSet(types)
  PROVE  LET all == Flattened(Rounds(qs, types))
         IN /\ all \in Seq(ToSet(qs)) /\ IsInjective(all)
            /\ ToSet(all) = ToSet(qs) /\ Len(all) = Len(qs)
            /\ \A x, y \in DOMAIN all : \A t, u \in ToSet(types) :
                 \A j \in 1..Len(OfType(qs, t)), k \in 1..Len(OfType(qs, u)) :
                   all[x] = OfType(qs, t)[j] /\ all[y] = OfType(qs, u)[k] /\ j < k => x < y
<1> DEFINE parts == Rounds(qs, types)
           Q == ToSet(qs)
           n == Len(qs)
           all == Flattened(parts)
           R(k) == Round(qs, types, k)
           Typed(t) == OfType(qs, t)
<1>1. n \in Nat /\ DOMAIN qs = 1..n /\ DOMAIN parts = 1..n /\ \A k \in 1..n : parts[k] = R(k)
  BY DEF Rounds
<1>2. \A k \in 1..n :
        /\ R(k) \in Seq(Q)
        /\ \A a, b \in DOMAIN R(k) : R(k)[a].type = R(k)[b].type => a = b
        /\ \A a \in DOMAIN R(k) : /\ R(k)[a].type \in ToSet(types) /\ k <= Len(Typed(R(k)[a].type))
                                  /\ R(k)[a] = Typed(R(k)[a].type)[k]
        /\ \A t \in ToSet(types) : k <= Len(Typed(t)) => Typed(t)[k] \in ToSet(R(k))
  BY RoundHolds
<1>3. \A t : /\ Typed(t) \in Seq(Q) /\ IsInjective(Typed(t)) /\ Len(Typed(t)) \in 0..n
             /\ ToSet(Typed(t)) = {q \in Q : q.type = t}
             /\ DOMAIN Typed(t) = 1..Len(Typed(t))
  BY OfTypeIn
<1>4. \A q \in Q : q.type \in ToSet(types)
  OBVIOUS
<1>5. parts \in Seq(Seq(Q))
  <2>1. parts = [k \in 1..n |-> parts[k]]
    BY <1>1 DEF Rounds
  <2> HIDE DEF parts, Q, n, R
  <2>2. \A k \in 1..n : parts[k] \in Seq(Q)
    BY <1>1, <1>2
  <2>3. QED
    BY <1>1, <2>1, <2>2, SeqOfSet
<1> HIDE DEF parts, Q, n, R, Typed
<1>6. Apart(parts)
  <2> SUFFICES ASSUME NEW i \in 1..n, NEW j \in 1..n, NEW a \in DOMAIN R(i), NEW b \in DOMAIN R(j),
                      R(i)[a] = R(j)[b]
               PROVE  i = j /\ a = b
    BY <1>1 DEF Apart
  <2> DEFINE t == R(i)[a].type
  <2>1. Typed(t)[i] = Typed(t)[j] /\ i <= Len(Typed(t)) /\ j <= Len(Typed(t))
    BY <1>2
  <2>2. i \in DOMAIN Typed(t) /\ j \in DOMAIN Typed(t) /\ IsInjective(Typed(t))
    BY <1>1, <1>3, <2>1
  <2> HIDE DEF t
  <2>3. i = j
    BY <2>1, <2>2 DEF IsInjective
  <2>4. QED
    BY <1>2, <2>3
<1>7. all \in Seq(Q) /\ IsInjective(all) /\ ToSet(all) = AllOf(parts) /\ Ordered(all, parts)
  BY <1>5, <1>6, FlattenedApart
<1> HIDE DEF all
<1>8. \A t \in ToSet(types) : \A k \in 1..Len(Typed(t)) : k \in 1..n /\ Typed(t)[k] \in ToSet(parts[k])
  <2> TAKE t \in ToSet(types)
  <2> TAKE k \in 1..Len(Typed(t))
  <2>1. k \in 1..n
    BY <1>1, <1>3
  <2>2. QED
    BY <1>1, <1>2, <2>1
<1>9. ToSet(all) = Q
  <2>1. ToSet(all) \subseteq Q
    BY <1>7, SeqOfOwn
  <2>2. ASSUME NEW q \in Q
        PROVE  q \in ToSet(all)
    <3>1. q \in ToSet(Typed(q.type))
      BY <1>3
    <3>2. PICK k \in 1..Len(Typed(q.type)) : Typed(q.type)[k] = q
      BY <1>3, <3>1 DEF ToSet
    <3>3. k \in DOMAIN parts /\ q \in ToSet(parts[k])
      BY <1>1, <1>4, <1>8, <3>2
    <3>4. QED
      BY <1>7, <3>3 DEF AllOf
  <2>3. QED
    BY <2>1, <2>2
<1>10. Len(all) = Len(qs)
  <2>1. qs \in Seq(S) /\ IsInjective(qs) /\ all \in Seq(Q) /\ IsInjective(all)
        /\ ToSet(all) \subseteq ToSet(qs) /\ ToSet(qs) \subseteq ToSet(all)
    BY <1>7, <1>9 DEF Q
  <2>2. QED
    BY <2>1, InjectiveShorter
<1>11. ASSUME NEW x \in DOMAIN all, NEW y \in DOMAIN all,
              NEW t \in ToSet(types), NEW u \in ToSet(types),
              NEW j \in 1..Len(Typed(t)), NEW k \in 1..Len(Typed(u)),
              all[x] = Typed(t)[j], all[y] = Typed(u)[k], j < k
       PROVE  x < y
  <2>1. j \in DOMAIN parts /\ k \in DOMAIN parts /\ all[x] \in ToSet(parts[j])
        /\ all[y] \in ToSet(parts[k])
    BY <1>1, <1>8, <1>11
  <2>2. QED
    BY <1>7, <1>11, <2>1 DEF Ordered
<1>12. QED
  BY <1>7, <1>9, <1>10, <1>11 DEF all, parts, Q, Typed

\* A beginning of the rounds has as many of a type as of another, unless there are
\* no more of it.
LEMMA RoundsEven ==
  ASSUME NEW S, NEW qs \in Seq(S), IsInjective(qs), NEW types, types \in Seq(ToSet(types)),
         IsInjective(types), \A q \in ToSet(qs) : q.type \in ToSet(types),
         NEW m \in 0..Len(qs), NEW s \in ToSet(types), NEW t \in ToSet(types)
  PROVE  LET sel == SubSeq(Flattened(Rounds(qs, types)), 1, m)
         IN \/ Len(OfType(sel, s)) + 1 >= Len(OfType(sel, t))
            \/ Len(OfType(sel, s)) = Len(OfType(qs, s))
<1> DEFINE all == Flattened(Rounds(qs, types))
           sel == SubSeq(all, 1, m)
           Q == ToSet(qs)
           fs == OfType(qs, s)
           ft == OfType(qs, t)
           es == OfType(sel, s)
           et == OfType(sel, t)
           c == Len(es)
<1>1. /\ all \in Seq(Q) /\ IsInjective(all) /\ ToSet(all) = Q /\ Len(all) = Len(qs)
      /\ \A x, y \in DOMAIN all :
           \A j \in 1..Len(fs), k \in 1..Len(ft) :
             all[x] = fs[j] /\ all[y] = ft[k] /\ j < k => x < y
  BY RoundsHold
<1>2. Len(all) \in Nat /\ DOMAIN all = 1..Len(all) /\ m \in 0..Len(all)
  BY <1>1
<1> HIDE DEF all
<1>3. sel \in Seq(Q) /\ IsInjective(sel) /\ ToSet(sel) = {all[i] : i \in 1..m}
  <2>1. all \in Seq(Q) /\ IsInjective(all)
    BY <1>1
  <2> HIDE DEF Q
  <2>2. QED
    BY <1>2, <2>1, FirstOf
<1> HIDE DEF sel
<1>4. /\ es \in Seq(ToSet(sel)) /\ IsInjective(es) /\ ToSet(es) = {q \in ToSet(sel) : q.type = s}
      /\ et \in Seq(ToSet(sel)) /\ IsInjective(et) /\ ToSet(et) = {q \in ToSet(sel) : q.type = t}
      /\ Len(es) \in Nat /\ Len(et) \in Nat
  BY <1>3, OfTypeIn
<1>5. /\ fs \in Seq(Q) /\ IsInjective(fs) /\ ToSet(fs) = {q \in Q : q.type = s} /\ Len(fs) \in Nat
      /\ ft \in Seq(Q) /\ IsInjective(ft) /\ ToSet(ft) = {q \in Q : q.type = t} /\ Len(ft) \in Nat
      /\ DOMAIN fs = 1..Len(fs) /\ DOMAIN ft = 1..Len(ft)
  BY OfTypeIn
<1>6. ToSet(sel) \subseteq Q
  BY <1>3, SeqOfOwn
<1> HIDE DEF fs, ft, es, et
<1> SUFFICES ASSUME ~(c + 1 >= Len(et)), c # Len(fs)
             PROVE  FALSE
  BY DEF sel, all, fs, es, et
\* One of the type t is of a round after c + 1.
<1>7. ASSUME \A q \in ToSet(et) : \E k \in 1..(c + 1) : k \in 1..Len(ft) /\ q = ft[k]
      PROVE  FALSE
  <2> DEFINE d == IF Len(ft) < c + 1 THEN Len(ft) ELSE c + 1
             pre == SubSeq(ft, 1, d)
  <2>1. d \in 0..Len(ft) /\ d <= c + 1 /\ c \in Nat
        /\ \A k \in 1..(c + 1) : k \in 1..Len(ft) => k \in 1..d
    BY <1>4, <1>5
  <2> HIDE DEF d
  <2>2. /\ pre \in Seq(Q) /\ Len(pre) = d /\ IsInjective(pre)
        /\ ToSet(pre) = {ft[i] : i \in 1..d}
    BY <1>5, <2>1, FirstOf
  <2> HIDE DEF pre
  <2>3. ToSet(et) \subseteq ToSet(pre)
    BY <1>7, <2>1, <2>2
  <2>4. Len(et) <= d
    BY <1>4, <2>2, <2>3, InjectiveShorter
  <2>5. QED
    BY <1>4, <2>1, <2>4
<1>8. PICK q \in ToSet(et) : ~\E k \in 1..(c + 1) : k \in 1..Len(ft) /\ q = ft[k]
  BY <1>7
<1>9. q \in ToSet(sel) /\ q \in ToSet(ft)
  BY <1>4, <1>5, <1>6
<1>10. PICK k \in 1..Len(ft) : q = ft[k]
  BY <1>5, <1>9 DEF ToSet
<1>11. k > c + 1
  BY <1>4, <1>5, <1>8, <1>10
<1>12. PICK y \in 1..m : q = all[y]
  BY <1>3, <1>9
\* So those of the type s of the rounds up to c + 1 are all there.
<1>13. ASSUME NEW j \in 1..Len(fs), j <= c + 1
       PROVE  fs[j] \in ToSet(es)
  <2>1. fs[j] \in Q /\ fs[j].type = s
    BY <1>5 DEF ToSet
  <2>0. fs[j] \in ToSet(all)
    BY <1>1, <2>1
  <2>2. PICK x \in DOMAIN all : all[x] = fs[j]
    BY <2>0 DEF ToSet
  <2>3. y \in DOMAIN all
    BY <1>2
  <2>4. j < k
    BY <1>4, <1>11, <1>13
  <2>5. x < y
    BY <1>1, <1>10, <1>12, <2>2, <2>3, <2>4
  <2>6. x \in 1..m
    BY <1>2, <2>2, <2>5
  <2>7. QED
    BY <1>3, <1>4, <2>1, <2>2, <2>6
<1>14. c <= Len(fs)
  <2>1. ToSet(es) \subseteq ToSet(fs)
    BY <1>4, <1>5, <1>6
  <2>2. QED
    BY <1>4, <1>5, <2>1, InjectiveShorter
<1> DEFINE d == c + 1
           pre == SubSeq(fs, 1, d)
<1>15. d \in 0..Len(fs)
  BY <1>4, <1>5, <1>14
<1> HIDE DEF d
<1>16. /\ pre \in Seq(Q) /\ Len(pre) = d /\ IsInjective(pre)
       /\ ToSet(pre) = {fs[i] : i \in 1..d}
  BY <1>5, <1>15, FirstOf
<1> HIDE DEF pre
<1>17. ToSet(pre) \subseteq ToSet(es)
  BY <1>13, <1>15, <1>16 DEF d
<1>18. Len(pre) <= Len(es)
  BY <1>4, <1>16, <1>17, InjectiveShorter
<1>19. QED
  BY <1>4, <1>16, <1>18 DEF d

\* The questions of a run, with the cap, in either way.
LEMMA SelectedHolds ==
  ASSUME NEW p \in Plan
  PROVE  LET sel == Selected(p)
         IN /\ sel \in Seq(QuestionsOf(p.ds)) /\ IsInjective(sel)
            /\ ToSet(sel) \subseteq ToSet(Questions(p))
            /\ Len(sel) = p.cap \/ (Len(sel) < p.cap /\ Len(sel) = Len(Questions(p)))
            /\ p.stratify /\ Corpus(p) = "longmemeval" => Even(sel, Questions(p))
<1> DEFINE qs == Questions(p)
           S == QuestionsOf(p.ds)
           n == Len(qs)
           m == IF n < p.cap THEN n ELSE p.cap
           sel == Selected(p)
<1>1. p.ds \in DOMAIN Files /\ p.cap \in Nat
  BY DEF Plan
<1>2. qs \in Seq(S) /\ IsInjective(qs)
      /\ (Corpus(p) = "longmemeval" => \A q \in ToSet(qs) : q.type \in ToSet(TypeOrder))
  BY <1>1, LoadedIn, LoadedApart DEF Questions, Corpus, QuestionsOf
<1>3. n \in Nat /\ m \in 0..n /\ (m = p.cap \/ (m < p.cap /\ m = n))
  BY <1>1, <1>2
<1>4. sel \in Seq(S)
  BY SelectedIn
<1> HIDE DEF qs, S, n
<1>5. CASE ~(p.stratify /\ Corpus(p) = "longmemeval")
  <2>1. sel = SubSeq(qs, 1, m)
    BY <1>5 DEF Selected, Capped, qs, n
  <2> HIDE DEF m, sel
  <2>2. /\ Len(sel) = m /\ ToSet(sel) = {qs[i] : i \in 1..m} /\ IsInjective(sel)
    BY <1>2, <1>3, <2>1, FirstOf DEF n
  <2>3. ToSet(sel) \subseteq ToSet(qs)
    BY <1>2, <1>3, <2>2 DEF ToSet, n
  <2>4. QED
    BY <1>3, <1>4, <1>5, <2>2, <2>3 DEF qs, n, sel, S
<1>6. CASE p.stratify /\ Corpus(p) = "longmemeval"
  <2> DEFINE all == Flattened(Rounds(qs, TypeOrder))
             cut == IF Len(all) < p.cap THEN Len(all) ELSE p.cap
  <2>1. sel = SubSeq(all, 1, cut)
    BY <1>6 DEF Selected, Stratified, Rounds, qs
  <2>2. TypeOrder \in Seq(ToSet(TypeOrder)) /\ IsInjective(TypeOrder)
    BY PlansAssumption
  <2>3. \A q \in ToSet(qs) : q.type \in ToSet(TypeOrder)
    BY <1>2, <1>6
  <2>4. /\ all \in Seq(ToSet(qs)) /\ IsInjective(all)
        /\ ToSet(all) = ToSet(qs) /\ Len(all) = Len(qs)
    BY <1>2, <2>2, <2>3, RoundsHold
  <2>5. cut = m
    BY <2>4 DEF n
  <2> HIDE DEF m, cut, all, sel
  <2>6. sel = SubSeq(all, 1, m) /\ m \in 0..Len(all)
    BY <1>3, <2>1, <2>4, <2>5 DEF n
  <2>7. /\ Len(sel) = m /\ ToSet(sel) = {all[i] : i \in 1..m} /\ IsInjective(sel)
        /\ sel \in Seq(ToSet(qs))
    BY <2>4, <2>6, FirstOf
  <2>8. ToSet(sel) \subseteq ToSet(qs)
    BY <2>7, SeqOfOwn
  <2>9. m \in 0..Len(qs)
    BY <1>3 DEF n
  <2>10. \A s, t \in ToSet(TypeOrder) :
           \/ Len(OfType(sel, s)) + 1 >= Len(OfType(sel, t))
           \/ Len(OfType(sel, s)) = Len(OfType(qs, s))
    BY <1>2, <2>2, <2>3, <2>6, <2>9, RoundsEven DEF all
  <2>11. Even(sel, qs)
    BY <2>10 DEF Even
  <2>12. QED
    BY <1>3, <1>4, <2>7, <2>8, <2>11 DEF qs, n, sel, S
<1>7. QED
  BY <1>5, <1>6

\* The groups of a run.
LEMMA VaultsMetHold ==
  ASSUME NEW N, NEW Q, NEW qs \in Seq(Q), \A q \in Q : q.vault \in N
  PROVE  /\ VaultsMet(qs) \in Seq(N) /\ IsInjective(VaultsMet(qs))
         /\ \A q \in ToSet(qs) : q.vault \in ToSet(VaultsMet(qs))
<1> DEFINE n == Len(qs)
<1>1. PICK h : /\ AreSteps(h, n, Seq(N), <<>>, Meeting(N, qs))
               /\ VaultsMet(qs) = h[n]
  BY MetSteps
<1>2. n \in Nat /\ n \in 0..n /\ DOMAIN qs = 1..n /\ \A i \in 1..n : qs[i].vault \in N
  OBVIOUS
<1>3. /\ h \in [0..n -> Seq(N)] /\ h[0] = <<>>
      /\ \A k \in 1..n : h[k] = Meeting(N, qs)[<<k, h[k - 1]>>]
  BY <1>1 DEF AreSteps
<1> DEFINE Met(k) == \A i \in 1..k : qs[i].vault \in ToSet(h[k])
           Inj(k) == IsInjective(h[k])
           Done == {k \in 0..n : Met(k) /\ Inj(k)}
<1>4. 0 \in Done
  BY <1>2, <1>3 DEF IsInjective
<1>5. ASSUME NEW k \in 0..(n - 1), k \in Done
      PROVE  k + 1 \in Done
  <2> DEFINE m == k + 1
             v == qs[m].vault
  <2>1. m \in 1..n /\ m \in 0..n /\ k \in 0..n /\ m - 1 = k /\ 1..m = (1..k) \cup {m}
    BY <1>2
  <2> HIDE DEF m, n
  <2>2. h[m] = IF Contains(h[k], v) THEN h[k] ELSE Append(h[k], v)
    BY <1>3, <2>1 DEF Meeting, n
  <2>3. h[k] \in Seq(N) /\ v \in N
    BY <1>2, <1>3, <2>1
  <2>4. Met(k) /\ Inj(k)
    BY <1>5
  <2>5. CASE Contains(h[k], v)
    <3>1. h[m] = h[k] /\ v \in ToSet(h[k])
      BY <2>2, <2>5 DEF Contains, ToSet
    <3>2. QED
      BY <2>1, <2>4, <3>1 DEF m
  <2>6. CASE ~Contains(h[k], v)
    <3> DEFINE a == h[k]
               l == Len(a)
               u == h[m]
    <3>0. u = Append(a, v)
      BY <2>2, <2>6
    <3>1. /\ l \in Nat /\ DOMAIN a = 1..l /\ DOMAIN u = 1..(l + 1)
          /\ u[l + 1] = v /\ \A i \in 1..l : u[i] = a[i]
      BY <2>3, <3>0
    <3>2. \A i \in 1..l : a[i] # v
      BY <2>6, <3>1 DEF Contains
    <3>3. ToSet(u) = ToSet(a) \cup {v}
      BY <2>3, <3>0, AppendedSet
    <3>4. Met(m)
      BY <2>1, <2>4, <3>3
    <3> HIDE DEF u, a, l, v
    <3>5. \A x \in 1..(l + 1) : x \in 1..l \/ x = l + 1
      BY <3>1
    <3>6. \A x, y \in 1..(l + 1) : u[x] = u[y] => x = y
      <4> SUFFICES ASSUME NEW x \in 1..(l + 1), NEW y \in 1..(l + 1), u[x] = u[y]
                   PROVE  x = y
        OBVIOUS
      <4>1. CASE x \in 1..l /\ y \in 1..l
        BY <2>4, <3>1, <4>1 DEF IsInjective, a
      <4>2. CASE x \in 1..l /\ y = l + 1
        BY <3>1, <3>2, <4>2
      <4>3. CASE x = l + 1 /\ y \in 1..l
        BY <3>1, <3>2, <4>3
      <4>4. QED
        BY <3>5, <4>1, <4>2, <4>3
    <3>7. Inj(m)
      BY <3>1, <3>6 DEF IsInjective, u
    <3> HIDE DEF Met, Inj
    <3>8. QED
      BY <2>1, <3>4, <3>7 DEF m
  <2>7. QED
    BY <2>5, <2>6
<1>6. 0..n \subseteq Done
  <2> HIDE DEF Done, n
  <2>1. QED
    BY <1>2, <1>4, <1>5, UpTo
<1>7. Met(n) /\ Inj(n) /\ h[n] \in Seq(N)
  BY <1>2, <1>3, <1>6
<1>8. \A q \in ToSet(qs) : \E i \in 1..n : q = qs[i]
  BY <1>2 DEF ToSet
<1>9. QED
  BY <1>1, <1>7, <1>8

LEMMA GroupsApart ==
  ASSUME NEW S, NEW qs \in Seq(S), IsInjective(qs), NEW corpus
  PROVE  Apart(Groups(corpus, qs)) /\ AllOf(Groups(corpus, qs)) = ToSet(qs)
<1>0. DOMAIN qs = 1..Len(qs)
  OBVIOUS
<1>1. CASE corpus = "longmemeval"
  <2> DEFINE G == [i \in DOMAIN qs |-> <<qs[i]>>]
  <2>1. Groups(corpus, qs) = G
    BY <1>1 DEF Groups
  <2>2. \A i \in DOMAIN G : DOMAIN G[i] = {1} /\ G[i][1] = qs[i] /\ ToSet(G[i]) = {qs[i]}
    BY DEF ToSet
  <2>3. DOMAIN G = DOMAIN qs
    OBVIOUS
  <2> HIDE DEF G
  <2>4. Apart(G)
    BY <2>2, <2>3 DEF Apart, IsInjective
  <2>5. AllOf(G) = ToSet(qs)
    BY <2>2, <2>3 DEF AllOf, ToSet
  <2>6. QED
    BY <2>1, <2>4, <2>5
<1>2. CASE corpus # "longmemeval"
  <2> DEFINE Q == ToSet(qs)
             N == {q.vault : q \in Q}
             vaults == VaultsMet(qs)
             Own(i) == {q \in Q : q.vault = vaults[i]}
             Part(i) == Among(qs, Own(i))
             G == [i \in DOMAIN vaults |-> Part(i)]
  <2>1. Groups(corpus, qs) = G
    BY <1>2 DEF Groups
  <2>2. qs \in Seq(Q) /\ \A q \in Q : q.vault \in N
    BY SeqOfOwn
  <2>3. /\ vaults \in Seq(N) /\ IsInjective(vaults)
        /\ \A q \in Q : q.vault \in ToSet(vaults)
    <3> HIDE DEF N, Q
    <3>1. \A q \in ToSet(qs) : q.vault \in ToSet(VaultsMet(qs))
      BY <2>2, VaultsMetHold
    <3>2. QED
      BY <2>2, <3>1, VaultsMetHold DEF Q
  <2> HIDE DEF Q, vaults
  <2>4. \A i \in DOMAIN vaults : IsInjective(Part(i)) /\ ToSet(Part(i)) = Q \cap Own(i)
    <3> TAKE i \in DOMAIN vaults
    <3> DEFINE T == Own(i)
    <3> HIDE DEF T
    <3>1. IsInjective(Among(qs, T)) /\ ToSet(Among(qs, T)) = ToSet(qs) \cap T
      BY AmongIn, AmongInjective
    <3>2. QED
      BY <3>1 DEF T, Q
  <2>5. \A i \in DOMAIN vaults : \A q : q \in ToSet(Part(i)) <=> q \in Q /\ q.vault = vaults[i]
    BY <2>4
  <2> HIDE DEF Part
  <2>6. DOMAIN G = DOMAIN vaults /\ \A i \in DOMAIN vaults : G[i] = Part(i)
    OBVIOUS
  <2> HIDE DEF G
  <2>7. Apart(G)
    <3> SUFFICES ASSUME NEW i \in DOMAIN vaults, NEW j \in DOMAIN vaults,
                        NEW a \in DOMAIN Part(i), NEW b \in DOMAIN Part(j),
                        Part(i)[a] = Part(j)[b]
                 PROVE  i = j /\ a = b
      BY <2>6 DEF Apart
    <3>1. Part(i)[a] \in ToSet(Part(i)) /\ Part(j)[b] \in ToSet(Part(j))
      BY DEF ToSet
    <3>2. vaults[i] = vaults[j]
      BY <2>5, <3>1
    <3>3. i = j
      BY <2>3, <3>2 DEF IsInjective
    <3>4. QED
      BY <2>4, <3>3 DEF IsInjective
  <2>8. ASSUME NEW q \in Q
        PROVE  q \in AllOf(G)
    <3>1. PICK i \in DOMAIN vaults : vaults[i] = q.vault
      <4>1. q.vault \in ToSet(vaults)
        BY <2>3
      <4>2. QED
        BY <4>1 DEF ToSet
    <3>2. q \in ToSet(G[i]) /\ i \in DOMAIN G
      BY <2>5, <2>6, <3>1
    <3>3. QED
      BY <3>2 DEF AllOf
  <2>9. AllOf(G) \subseteq Q
    BY <2>5, <2>6 DEF AllOf
  <2>10. AllOf(G) = Q
    BY <2>8, <2>9
  <2>11. QED
    BY <2>1, <2>7, <2>10 DEF Q
<1>3. QED
  BY <1>1, <1>2

(***************************************************************************)
(* What a run has asked and what it has left.                              *)
(***************************************************************************)

Asked(rs) == [i \in DOMAIN rs |-> rs[i].q]

\* Every question taken was asked once or is left, once, in a group.
AccountedOf(rs, left, taken) ==
  /\ IsInjective(Asked(rs))
  /\ Apart(left)
  /\ \A i \in DOMAIN rs : rs[i].q \notin AllOf(left)
  /\ ToSet(Asked(rs)) \cup AllOf(left) = ToSet(taken)

Accounted == phase = "run" => AccountedOf(records, todo, Selected(plan))

\* A report holds every question that was taken, once.
ToldOf(rep) ==
  rep.whole => /\ IsInjective(Asked(rep.records))
               /\ ToSet(Asked(rep.records)) = ToSet(Selected(rep.plan))

LEMMA AllOfPlaces ==
  ASSUME NEW parts, NEW y
  PROVE  y \in AllOf(parts) <=> \E i \in DOMAIN parts : \E a \in DOMAIN parts[i] : y = parts[i][a]
BY DEF AllOf, ToSet

\* What is left when the first of the first part is taken, and others follow it,
IsRest(rest, parts, n, m) ==
  /\ n \in Nat \ {0} /\ DOMAIN parts = 1..n /\ DOMAIN rest = 1..n
  /\ m \in Nat \ {0} /\ DOMAIN parts[1] = 1..m /\ DOMAIN rest[1] = 1..(m - 1)
  /\ \A a \in 1..(m - 1) : rest[1][a] = parts[1][a + 1]
  /\ \A i \in 1..n : i # 1 => rest[i] = parts[i]

LEMMA FirstTaken ==
  ASSUME NEW n, NEW m, NEW parts, NEW rest, IsRest(rest, parts, n, m), Apart(parts)
  PROVE  Apart(rest) /\ AllOf(rest) = AllOf(parts) \ {parts[1][1]}
<1>0. /\ n \in Nat \ {0} /\ DOMAIN parts = 1..n /\ DOMAIN rest = 1..n
      /\ m \in Nat \ {0} /\ DOMAIN parts[1] = 1..m /\ DOMAIN rest[1] = 1..(m - 1)
      /\ \A a \in 1..(m - 1) : rest[1][a] = parts[1][a + 1]
      /\ \A i \in 1..n : i # 1 => rest[i] = parts[i]
  BY DEF IsRest
<1>1. 1 \in 1..n /\ 1 \in 1..m
  BY <1>0
<1>2. /\ \A a \in 1..(m - 1) : a + 1 \in 1..m /\ a + 1 # 1
      /\ \A a, b \in 1..(m - 1) : a + 1 = b + 1 => a = b
      /\ \A a \in 1..m : a # 1 => a - 1 \in 1..(m - 1) /\ (a - 1) + 1 = a
  BY <1>0
<1>3. \A i, j \in 1..n : \A a \in DOMAIN parts[i], b \in DOMAIN parts[j] :
        parts[i][a] = parts[j][b] => i = j /\ a = b
  BY <1>0 DEF Apart
<1> DEFINE Moved(i, a) == IF i = 1 THEN a + 1 ELSE a
<1>4. ASSUME NEW i \in 1..n, NEW a \in DOMAIN rest[i]
      PROVE  /\ Moved(i, a) \in DOMAIN parts[i]
             /\ rest[i][a] = parts[i][Moved(i, a)]
             /\ i # 1 \/ Moved(i, a) # 1
  BY <1>0, <1>2
<1>5. Apart(rest)
  <2> SUFFICES ASSUME NEW i \in 1..n, NEW j \in 1..n, NEW a \in DOMAIN rest[i],
                      NEW b \in DOMAIN rest[j], rest[i][a] = rest[j][b]
               PROVE  i = j /\ a = b
    BY <1>0 DEF Apart
  <2>1. i = j /\ Moved(i, a) = Moved(j, b)
    <3> HIDE DEF Moved
    <3>1. QED
      BY <1>3, <1>4
  <2>2. QED
    BY <1>0, <1>2, <2>1
<1>6. ASSUME NEW y \in AllOf(rest)
      PROVE  y \in AllOf(parts) /\ y # parts[1][1]
  <2>1. PICK i \in 1..n : \E a \in DOMAIN rest[i] : y = rest[i][a]
    BY <1>0, AllOfPlaces
  <2>2. PICK a \in DOMAIN rest[i] : y = rest[i][a]
    BY <2>1
  <2> HIDE DEF Moved
  <2>3. QED
    BY <1>0, <1>1, <1>3, <1>4, <2>2, AllOfPlaces
<1>7. ASSUME NEW y \in AllOf(parts), y # parts[1][1]
      PROVE  y \in AllOf(rest)
  <2>1. PICK i \in 1..n : \E a \in DOMAIN parts[i] : y = parts[i][a]
    BY <1>0, AllOfPlaces
  <2>2. PICK a \in DOMAIN parts[i] : y = parts[i][a]
    BY <2>1
  <2>3. CASE i = 1
    <3>1. a \in 1..m /\ a # 1
      BY <1>0, <1>7, <2>2, <2>3
    <3>2. a - 1 \in DOMAIN rest[1] /\ rest[1][a - 1] = y
      BY <1>0, <1>2, <2>2, <2>3, <3>1
    <3>3. QED
      BY <1>0, <1>1, <3>2, AllOfPlaces
  <2>4. CASE i # 1
    BY <1>0, <2>2, <2>4, AllOfPlaces
  <2>5. QED
    BY <2>3, <2>4
<1>8. QED
  BY <1>5, <1>6, <1>7

\* and when it was alone.
LEMMA LoneTaken ==
  ASSUME NEW n \in Nat \ {0}, NEW parts, NEW rest,
         DOMAIN parts = 1..n, DOMAIN parts[1] = {1}, Apart(parts),
         DOMAIN rest = 1..(n - 1), \A i \in 1..(n - 1) : rest[i] = parts[i + 1]
  PROVE  Apart(rest) /\ AllOf(rest) = AllOf(parts) \ {parts[1][1]}
<1>1. 1 \in 1..n
  OBVIOUS
<1>2. /\ \A i \in 1..(n - 1) : i + 1 \in 1..n /\ i + 1 # 1
      /\ \A i, j \in 1..(n - 1) : i + 1 = j + 1 => i = j
      /\ \A i \in 1..n : i # 1 => i - 1 \in 1..(n - 1) /\ (i - 1) + 1 = i
  OBVIOUS
<1>3. \A i, j \in 1..n : \A a \in DOMAIN parts[i], b \in DOMAIN parts[j] :
        parts[i][a] = parts[j][b] => i = j /\ a = b
  BY DEF Apart
<1>4. Apart(rest)
  <2> SUFFICES ASSUME NEW i \in 1..(n - 1), NEW j \in 1..(n - 1), NEW a \in DOMAIN rest[i],
                      NEW b \in DOMAIN rest[j], rest[i][a] = rest[j][b]
               PROVE  i = j /\ a = b
    BY DEF Apart
  <2>1. i + 1 = j + 1 /\ a = b
    <3>1. /\ a \in DOMAIN parts[i + 1] /\ b \in DOMAIN parts[j + 1]
          /\ parts[i + 1][a] = parts[j + 1][b] /\ i + 1 \in 1..n /\ j + 1 \in 1..n
      BY <1>2
    <3>2. QED
      BY <1>3, <3>1
  <2>2. QED
    BY <1>2, <2>1
<1>5. ASSUME NEW y \in AllOf(rest)
      PROVE  y \in AllOf(parts) /\ y # parts[1][1]
  <2>1. PICK i \in 1..(n - 1) : \E a \in DOMAIN rest[i] : y = rest[i][a]
    BY AllOfPlaces
  <2>2. PICK a \in DOMAIN rest[i] : y = rest[i][a]
    BY <2>1
  <2>3. i + 1 \in 1..n /\ i + 1 # 1 /\ a \in DOMAIN parts[i + 1] /\ y = parts[i + 1][a]
    BY <1>2, <2>2
  <2>4. y \in AllOf(parts)
    BY <2>3, AllOfPlaces
  <2>5. QED
    BY <1>1, <1>3, <2>3, <2>4
<1>6. ASSUME NEW y \in AllOf(parts), y # parts[1][1]
      PROVE  y \in AllOf(rest)
  <2>1. PICK i \in 1..n : \E a \in DOMAIN parts[i] : y = parts[i][a]
    BY AllOfPlaces
  <2>2. PICK a \in DOMAIN parts[i] : y = parts[i][a]
    BY <2>1
  <2>3. i # 1
    BY <1>6, <2>2
  <2>4. i - 1 \in 1..(n - 1) /\ rest[i - 1] = parts[i]
    BY <1>2, <2>3
  <2>5. QED
    BY <2>2, <2>4, AllOfPlaces
<1>7. QED
  BY <1>4, <1>5, <1>6

LEMMA HeadTaken ==
  ASSUME NEW S, NEW parts \in Seq(Seq(S)), parts # <<>>, Head(parts) # <<>>, Apart(parts)
  PROVE  LET rest == IF Len(Head(parts)) > 1 THEN <<Tail(Head(parts))>> \o Tail(parts)
                     ELSE Tail(parts)
         IN /\ Apart(rest)
            /\ AllOf(rest) = AllOf(parts) \ {Head(Head(parts))}
            /\ Head(Head(parts)) \in AllOf(parts)
<1> DEFINE n == Len(parts)
           g == Head(parts)
           m == Len(g)
           t == Tail(g)
           r == Tail(parts)
<1>1. /\ n \in Nat \ {0} /\ DOMAIN parts = 1..n /\ 1 \in 1..n /\ g = parts[1] /\ g \in Seq(S)
      /\ r \in Seq(Seq(S)) /\ Len(r) = n - 1 /\ DOMAIN r = 1..(n - 1)
      /\ \A i \in 1..(n - 1) : r[i] = parts[i + 1]
  OBVIOUS
<1>2. m \in Nat \ {0} /\ DOMAIN g = 1..m /\ 1 \in 1..m /\ Head(g) = g[1]
  BY <1>1
<1>3. Head(g) \in AllOf(parts)
  <2> HIDE DEF g, n, m
  <2>1. QED
    BY <1>1, <1>2, AllOfPlaces
<1>4. CASE m > 1
  <2> DEFINE rest == <<t>> \o r
  <2>1. /\ t \in Seq(S) /\ DOMAIN t = 1..(m - 1) /\ \A a \in 1..(m - 1) : t[a] = g[a + 1]
    BY <1>1, <1>2, <1>4
  <2> HIDE DEF t, r, n, g, m
  <2>2. /\ rest \in Seq(Seq(S)) /\ Len(rest) = n /\ rest[1] = t
        /\ \A i \in 1..(n - 1) : rest[i + 1] = r[i]
    BY <1>1, <2>1
  <2> HIDE DEF rest
  <2>3. DOMAIN rest = 1..n
    BY <2>2
  <2>4. ASSUME NEW i \in 1..n, i # 1
        PROVE  rest[i] = parts[i]
    <3>1. i - 1 \in 1..(n - 1) /\ (i - 1) + 1 = i
      BY <1>1, <2>4
    <3>2. rest[(i - 1) + 1] = r[i - 1] /\ r[i - 1] = parts[(i - 1) + 1]
      BY <1>1, <2>2, <3>1
    <3>3. QED
      BY <3>1, <3>2
  <2>5. DOMAIN parts[1] = 1..m /\ DOMAIN rest[1] = 1..(m - 1)
        /\ \A a \in 1..(m - 1) : rest[1][a] = parts[1][a + 1]
    BY <1>1, <1>2, <2>1, <2>2
  <2>6. Apart(rest) /\ AllOf(rest) = AllOf(parts) \ {parts[1][1]}
    <3>1. IsRest(rest, parts, n, m)
      BY <1>1, <1>2, <2>3, <2>4, <2>5 DEF IsRest
    <3>2. QED
      BY <3>1, FirstTaken
  <2>7. QED
    BY <1>1, <1>2, <1>3, <1>4, <2>6 DEF rest, t, r, g, m
<1>5. CASE ~(m > 1)
  <2> HIDE DEF t, r, n, g
  <2>1. DOMAIN parts[1] = {1}
    BY <1>1, <1>2, <1>5
  <2> HIDE DEF m
  <2>2. Apart(r) /\ AllOf(r) = AllOf(parts) \ {parts[1][1]}
    BY <1>1, <2>1, LoneTaken
  <2>3. QED
    BY <1>1, <1>2, <1>3, <1>5, <2>2 DEF r, g, m
<1>6. QED
  BY <1>4, <1>5

LEMMA AnsweredAccounted ==
  ASSUME RunTypes, Accounted, busy, open, NEW r, r.q = question, Answered(r)
  PROVE  Accounted'
<1> DEFINE n == Len(records)
<1>1. /\ phase = "run" /\ plan \in Plan /\ group \in GroupsOf(plan.ds)
      /\ todo \in Seq(GroupsOf(plan.ds)) /\ todo # <<>>
  BY QuestionKnown DEF RunTypes, busy
<1>2. AccountedOf(records, todo, Selected(plan))
  BY <1>1 DEF Accounted
<1>3. /\ records' \in Seq(ToSet(records')) /\ Len(records') = n + 1
      /\ records'[n + 1] = r /\ \A i \in 1..n : records'[i] = records[i]
      /\ UNCHANGED <<phase, plan>>
  BY AnsweredTypes
<1>4. records \in Seq(ToSet(records))
  BY DEF RunTypes, RecordsOf
<1>5. n \in Nat /\ DOMAIN records = 1..n /\ DOMAIN records' = 1..(n + 1)
  BY <1>3, <1>4
<1> DEFINE Q == QuestionsOf(plan.ds)
<1>6. GroupsOf(plan.ds) \subseteq Seq(Q) /\ \A g \in GroupsOf(plan.ds) : g # <<>>
  BY DEF GroupsOf
<1>7. todo \in Seq(Seq(Q)) /\ Head(todo) # <<>> /\ Apart(todo)
  <2>1. Head(todo) \in GroupsOf(plan.ds)
    BY <1>1 DEF group
  <2>2. todo \in Seq(Seq(Q))
    BY <1>1, <1>6
  <2>3. QED
    BY <1>2, <1>6, <2>1, <2>2 DEF AccountedOf
<1>8. todo' = IF Len(Head(todo)) > 1 THEN <<Tail(Head(todo))>> \o Tail(todo) ELSE Tail(todo)
  BY DEF Answered, group
<1>9. question = Head(Head(todo))
  BY DEF question, group
<1> HIDE DEF Q, n
<1>10. Apart(todo') /\ AllOf(todo') = AllOf(todo) \ {question} /\ question \in AllOf(todo)
  BY <1>1, <1>7, <1>8, <1>9, HeadTaken
<1>11. \A i \in 1..n : records'[i].q = records[i].q /\ records[i].q # question
  BY <1>2, <1>3, <1>5, <1>10 DEF AccountedOf
<1>12. records'[n + 1].q = question
  BY <1>3
<1>13. \A x \in 1..(n + 1) : x \in 1..n \/ x = n + 1
  BY <1>5
<1>14. \A i, j \in 1..n : records[i].q = records[j].q => i = j
  BY <1>2, <1>5 DEF AccountedOf, Asked, IsInjective
<1>15. \A i, j \in 1..(n + 1) : records'[i].q = records'[j].q => i = j
  <2> SUFFICES ASSUME NEW i \in 1..(n + 1), NEW j \in 1..(n + 1), records'[i].q = records'[j].q
               PROVE  i = j
    OBVIOUS
  <2>1. CASE i \in 1..n /\ j \in 1..n
    BY <1>11, <1>14, <2>1
  <2>2. CASE i \in 1..n /\ j = n + 1
    BY <1>11, <1>12, <2>2
  <2>3. CASE i = n + 1 /\ j \in 1..n
    BY <1>11, <1>12, <2>3
  <2>4. QED
    BY <1>13, <2>1, <2>2, <2>3
<1>16. IsInjective(Asked(records'))
  BY <1>5, <1>15 DEF IsInjective, Asked
<1>17. ToSet(Asked(records')) = ToSet(Asked(records)) \cup {question}
  <2>1. /\ ToSet(Asked(records)) = {records[i].q : i \in 1..n}
        /\ ToSet(Asked(records')) = {records'[i].q : i \in 1..(n + 1)}
    BY <1>5 DEF ToSet, Asked
  <2>2. 1..n \subseteq 1..(n + 1) /\ n + 1 \in 1..(n + 1)
    BY <1>5
  <2>3. QED
    BY <1>11, <1>12, <1>13, <2>1, <2>2
<1>18. \A i \in 1..(n + 1) : records'[i].q \notin AllOf(todo')
  BY <1>2, <1>5, <1>10, <1>11, <1>12, <1>13 DEF AccountedOf
<1>19. AccountedOf(records', todo', Selected(plan))
  BY <1>2, <1>5, <1>10, <1>16, <1>17, <1>18 DEF AccountedOf
<1>20. Selected(plan') = Selected(plan) /\ plan' = plan
  BY <1>3
<1>21. QED
  BY <1>19, <1>20 DEF Accounted

LEMMA StartAccounted ==
  ASSUME RunTypes, Start
  PROVE  Accounted'
<1> DEFINE p == history[runs + 1]
           sel == Selected(p)
<1>1. /\ phase = "idle" /\ runs' = runs + 1 /\ runs + 1 \in 1..Len(history)
      /\ UNCHANGED <<history, records>> /\ records = <<>>
      /\ todo' = Groups(Corpus(p), Selected(p))
  BY DEF Start, RunTypes
<1>2. p \in Plan /\ plan' = p
  BY <1>1 DEF RunTypes, plan
<1> HIDE DEF p
<1>3. sel \in Seq(QuestionsOf(p.ds)) /\ IsInjective(sel)
  BY <1>2, SelectedHolds
<1> HIDE DEF sel
<1>4. Apart(Groups(Corpus(p), sel)) /\ AllOf(Groups(Corpus(p), sel)) = ToSet(sel)
  BY <1>3, GroupsApart
<1>5. DOMAIN records' = {} /\ ToSet(Asked(records')) = {} /\ IsInjective(Asked(records'))
  BY <1>1 DEF ToSet, Asked, IsInjective
<1>6. AccountedOf(records', todo', sel)
  BY <1>1, <1>4, <1>5 DEF AccountedOf, sel
<1>7. QED
  BY <1>2, <1>6 DEF Accounted, sel

LEMMA AccountedStep ==
  ASSUME RunTypes, Accounted, ToldOf(report), Step
  PROVE  Accounted' /\ ToldOf(report)'
<1>1. CASE Start
  <2>1. ~report'.whole
    BY <1>1 DEF Start, NoReport
  <2>2. QED
    BY <1>1, <2>1, StartAccounted DEF ToldOf
<1>2. CASE OpenFiles \/ OpenOmega \/ OpenHindsight \/ OpenPostgres \/ OpenServer \/ OpenPalace
  <2>1. PICK b : Opening(b)
    BY <1>2 DEF OpenFiles, OpenOmega, OpenHindsight, OpenPostgres, OpenServer, OpenPalace
  <2>2. UNCHANGED <<phase, todo, records, report, plan>>
    BY <2>1 DEF Opening, plan
  <2>3. QED
    BY <2>2 DEF Accounted
<1>3. CASE OpenRaises \/ Die
  <2>1. PICK d : Over(d) /\ UNCHANGED report
    BY <1>3 DEF OpenRaises, Die
  <2>2. QED
    BY <2>1 DEF Over, Accounted
<1>4. CASE Ask \/ AskInVain
  <2>1. PICK hits, failed, reply : Answered(Scored(hits, failed, reply)) /\ busy /\ open
    BY <1>4 DEF Ask, AskInVain
  <2>2. Scored(hits, failed, reply).q = question
    BY DEF Scored
  <2>3. UNCHANGED report
    BY <2>1 DEF Answered
  <2>4. QED
    BY <2>1, <2>2, <2>3, AnsweredAccounted
<1>5. CASE Finish
  <2>1. /\ phase = "run" /\ phase' = "idle" /\ todo = <<>>
        /\ report'.plan = plan /\ report'.records = records
    BY <1>5 DEF Finish, Over
  <2>2. AllOf(todo) = {}
    BY <2>1 DEF AllOf
  <2>3. ToldOf(report')
    BY <2>1, <2>2 DEF Accounted, AccountedOf, ToldOf
  <2>4. QED
    BY <2>1, <2>3 DEF Accounted
<1>6. QED
  BY <1>1, <1>2, <1>3, <1>4, <1>5 DEF Step

\* A report of all that was taken is whole.
LEMMA ToldWhole ==
  ASSUME RunTypes, ToldOf(report)
  PROVE  ReportWhole
<1> SUFFICES ASSUME report.whole
             PROVE  ReportWhole
  BY DEF ReportWhole
<1> DEFINE p == report.plan
           rs == report.records
           asked == Asked(rs)
           sel == Selected(p)
           qs == Questions(p)
           S == QuestionsOf(p.ds)
<1>1. p \in Plan /\ rs \in Seq(ToSet(rs)) /\ \A i \in DOMAIN rs : rs[i].q \in S
  BY DEF RunTypes, ReportOf, RecordsOf
<1>2. IsInjective(asked) /\ ToSet(asked) = ToSet(sel)
  BY DEF ToldOf
<1>3. asked \in Seq(S) /\ Len(asked) \in Nat
  <2>1. Len(rs) \in Nat /\ DOMAIN rs = 1..Len(rs)
    BY <1>1
  <2> HIDE DEF rs, S
  <2>2. asked = [i \in 1..Len(rs) |-> rs[i].q]
    BY <2>1 DEF Asked
  <2>3. QED
    BY <1>1, <2>1, <2>2
<1>4. /\ sel \in Seq(S) /\ IsInjective(sel) /\ ToSet(sel) \subseteq ToSet(qs)
      /\ Len(sel) = p.cap \/ (Len(sel) < p.cap /\ Len(sel) = Len(qs))
      /\ p.stratify /\ Corpus(p) = "longmemeval" => Even(sel, qs)
  BY <1>1, SelectedHolds
<1> HIDE DEF asked, sel, qs, S
<1>5. Len(asked) = Len(sel)
  BY <1>2, <1>3, <1>4, InjectiveShorter
<1>6. \A t : Len(OfType(asked, t)) = Len(OfType(sel, t))
  <2> TAKE t
  <2> DEFINE oa == OfType(asked, t)
             os == OfType(sel, t)
  <2>1. /\ oa \in Seq(ToSet(asked)) /\ IsInjective(oa)
        /\ ToSet(oa) = {q \in ToSet(asked) : q.type = t}
    BY <1>2, <1>3, OfTypeIn
  <2>2. /\ os \in Seq(ToSet(sel)) /\ IsInjective(os)
        /\ ToSet(os) = {q \in ToSet(sel) : q.type = t}
    BY <1>4, OfTypeIn
  <2>3. ToSet(oa) = ToSet(os)
    BY <1>2, <2>1, <2>2
  <2> HIDE DEF oa, os
  <2>4. Len(oa) = Len(os)
    BY <2>1, <2>2, <2>3, InjectiveShorter
  <2>5. QED
    BY <2>4 DEF oa, os
<1>7. p.stratify /\ Corpus(p) = "longmemeval" => Even(asked, qs)
  BY <1>4, <1>6 DEF Even
<1>8. asked = [i \in DOMAIN report.records |-> report.records[i].q]
  BY DEF asked, Asked
<1>9. QED
  BY <1>2, <1>4, <1>5, <1>7, <1>8 DEF ReportWhole, qs

\* The step of the whole, with the types that it needs.
Account == Accounted /\ ToldOf(report)

LEMMA AccountBegins ==
  ASSUME EvalInit
  PROVE  Account
BY DEF EvalInit, Init, NoReport, Account, Accounted, ToldOf

LEMMA AccountStep ==
  ASSUME Harness, Account, [Next]_vars
  PROVE  Account'
<1>1. CASE Step
  BY <1>1, AccountedStep DEF Harness, Types, Account
<1>2. CASE StartSweep
  <2>1. phase' = "idle" /\ ~report'.whole
    BY <1>2 DEF StartSweep, NoReport
  <2>2. QED
    BY <2>1 DEF Account, Accounted, ToldOf
<1>3. CASE UNCHANGED cvars
  <2>1. UNCHANGED <<phase, todo, records, report, plan>>
    BY <1>3 DEF cvars, plan
  <2>2. QED
    BY <2>1 DEF Account, Accounted
<1>4. QED
  BY <1>1, <1>2, <1>3 DEF Next, vars

\* Until a run is over, every question that it took is either recorded or waiting in
\* one of its groups, and never twice; its report has them all.
THEOREM AccountHolds ==
  Spec => []Account
<1>1. QED
  BY AccountBegins, AccountStep, HarnessHolds, PTL DEF Spec

\* A report holds no question twice, as many as there are up to the cap, and as many
\* of every type when that was asked for, for any file and any cap.
THEOREM ReportWholeHolds ==
  Spec => []ReportWhole
<1>1. Harness /\ Account => ReportWhole
  BY ToldWhole DEF Harness, Types, Account
<1>2. QED
  BY <1>1, HarnessHolds, AccountHolds, PTL
=============================================================================
