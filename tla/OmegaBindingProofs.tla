------------------------- MODULE OmegaBindingProofs -------------------------
(***************************************************************************)
(* Theorems about OmegaBinding, for any number of adapters and background  *)
(* threads and any number of attempts, reads and rows.                     *)
(***************************************************************************)
EXTENDS OmegaBinding, TLAPS

Opened == [a : Adapters, prev : Homes \cup {Unset}]
Stores == [at : Homes \cup {None}, unlinked : BOOLEAN,
           listed : SUBSET Threads, stray : BOOLEAN]
Tried == [got : {"all", "rows", "none"},
          why : {"answered", "raised", "refused"}, lost : BOOLEAN]

(* An open adapter, and one with an operation under way, has a directory. *)
Made ==
    /\ \A i \in DOMAIN open : home[open[i].a] # None
    /\ pc # "idle" => home[me] # None

LEMMA RemoveAtType ==
  ASSUME NEW S, NEW s \in Seq(S), NEW i \in 1 .. Len(s)
  PROVE  RemoveAt(s, i) \in Seq(S)
BY DEF RemoveAt

LEMMA RemoveAtKeeps ==
  ASSUME NEW S, NEW s \in Seq(S), NEW i \in 1 .. Len(s),
         NEW j \in 1 .. Len(RemoveAt(s, i))
  PROVE  \E k \in 1 .. Len(s) : RemoveAt(s, i)[j] = s[k]
<1> DEFINE p == SubSeq(s, 1, i - 1)
           q == SubSeq(s, i + 1, Len(s))
<1>1. /\ p \in Seq(S) /\ Len(p) = i - 1
      /\ \A k \in 1 .. (i - 1) : p[k] = s[k]
  OBVIOUS
<1>2. /\ q \in Seq(S) /\ Len(q) = Len(s) - i
      /\ \A k \in 1 .. (Len(s) - i) : q[k] = s[k + i]
  OBVIOUS
<1>3. RemoveAt(s, i) = p \o q
  BY DEF RemoveAt
<1> HIDE DEF p, q
<1>4. CASE j < i
  BY <1>1, <1>2, <1>3, <1>4
<1>5. CASE j >= i
  <2>1. (p \o q)[j] = q[j - (i - 1)] /\ j - (i - 1) \in 1 .. (Len(s) - i)
    BY <1>1, <1>2, <1>3, <1>5
  <2>2. j + 1 \in 1 .. Len(s) /\ q[j - (i - 1)] = s[j + 1]
    BY <1>2, <2>1
  <2>3. QED
    BY <1>3, <2>1, <2>2
<1>6. QED
  BY <1>1, <1>2, <1>3, <1>4, <1>5

LEMMA RemoveLast ==
  ASSUME NEW S, NEW s \in Seq(S), Len(s) > 0
  PROVE  /\ Len(RemoveAt(s, Len(s))) = Len(s) - 1
         /\ \A j \in 1 .. (Len(s) - 1) : RemoveAt(s, Len(s))[j] = s[j]
BY DEF RemoveAt

LEMMA LastOf ==
  ASSUME NEW S, NEW s \in Seq(S), s # <<>>
  PROVE  Len(s) \in 1 .. Len(s) /\ s[Len(s)] \in S
<1>1. Len(s) \in Nat /\ Len(s) # 0
  OBVIOUS
<1>2. QED
  BY <1>1

LEMMA SomeOf ==
  ASSUME NEW S, NEW s \in Seq(S), NEW i \in DOMAIN s
  PROVE  Len(s) = 1 \/ Len(s) > 1
<1>1. Len(s) \in Nat /\ i \in 1 .. Len(s)
  OBVIOUS
<1>2. ASSUME NEW n \in Nat, NEW k \in 1 .. n PROVE n = 1 \/ n > 1
  OBVIOUS
<1>3. QED
  BY <1>1, <1>2

LEMMA Directories ==
  ASSUME OmegaAssumption, TypeOK
  PROVE  /\ Resolved(env) \in Homes
         /\ Resolved(env) # None
         /\ env # Unset => Resolved(env) = env
         /\ Got \in Stores
         /\ Got.at # None
         /\ Fresh(None) \in Stores
BY DEF OmegaAssumption, TypeOK, Homes, Resolved, Got, Fresh, Stores

LEMMA TypeStep == ASSUME TypeOK, Made, [Next]_vars PROVE TypeOK'
<1> USE OmegaAssumption DEF threads, use, results, main
<1>0. /\ Resolved(env) \in Homes /\ Got \in Stores /\ Fresh(None) \in Stores
      /\ \A h \in Homes : Fresh(h) \in Stores
      /\ Forgotten \subseteq Threads
  BY Directories DEF TypeOK, Fresh, Stores, Forgotten
<1>1. ASSUME NEW t \in Threads, Build(t) PROVE TypeOK'
  BY <1>0, <1>1 DEF TypeOK, Build
<1>2. ASSUME NEW t \in Threads, Install(t) PROVE TypeOK'
  <2>1. build[t] \in Homes
    BY <1>2 DEF TypeOK, Install
  <2>2. store' \in Stores
    BY <1>0, <1>2, <2>1 DEF Install, Stores, Fresh
  <2>3. QED
    BY <1>0, <1>2, <2>2 DEF TypeOK, Install, Stores
<1>3. ASSUME NEW t \in Threads, End(t) PROVE TypeOK'
  BY <1>3 DEF TypeOK, End
<1>4. ASSUME NEW a \in Adapters, Construct(a) PROVE TypeOK'
  <2>1. open' \in Seq(Opened)
    BY <1>4 DEF TypeOK, Construct, Opened
  <2>2. /\ env' \in Homes /\ home' \in [Adapters -> Homes \cup {None}]
    BY <1>0, <1>4 DEF TypeOK, Construct, Homes
  <2>3. store' \in Stores /\ lost' \subseteq Threads
    BY <1>0, <1>4 DEF Construct
  <2>4. seen' = <<>>
    BY <1>4 DEF Construct, NothingSeen
  <2>5. QED
    BY <1>4, <2>1, <2>2, <2>3, <2>4 DEF TypeOK, Construct, Opened, Stores
<1>5. ASSUME NEW a \in Adapters, ConstructFails(a) PROVE TypeOK'
  BY <1>5 DEF TypeOK, ConstructFails, Homes
<1>6. ASSUME NEW i \in DOMAIN open, Close(i) PROVE TypeOK'
  <2>1. i \in 1 .. Len(open) /\ open \in Seq(Opened)
    BY DEF TypeOK, Opened
  <2>2. open' \in Seq(Opened)
    BY <1>6, <2>1, RemoveAtType DEF Close
  <2>3. env' \in Homes \cup {Unset}
    <3>1. open[i] \in Opened
      BY <2>1
    <3>2. QED
      BY <1>6, <3>1 DEF Close, Restored, Opened
  <2>4. store' \in Stores /\ lost' \subseteq Threads
    BY <1>0, <1>6 DEF Close
  <2>5. seen' = <<>>
    BY <1>6 DEF Close, NothingSeen
  <2>6. strict' \in BOOLEAN
    BY <1>6 DEF Close, TypeOK
  <2>7. QED
    BY <1>6, <2>2, <2>3, <2>4, <2>5, <2>6 DEF TypeOK, Close, Opened, Stores
<1>7. ASSUME NEW a \in Adapters, Ingest(a) PROVE TypeOK'
  <2>1. env' \in Homes
    BY <1>7 DEF TypeOK, Ingest, Begin, IsOpen, Homes, Made
  <2>2. QED
    BY <1>7, <2>1 DEF TypeOK, Ingest, Begin, NothingSeen
<1>8. ASSUME Await PROVE TypeOK'
  <2>1. store' \in Stores /\ lost' \subseteq Threads /\ waited' \subseteq Threads
    BY <1>0, <1>8 DEF TypeOK, Await, Waited, Stores
  <2>2. QED
    BY <1>8, <2>1 DEF TypeOK, Await, Stores
<1>9. ASSUME Drop PROVE TypeOK'
  <2>1. /\ env' \in Homes /\ store' \in Stores
        /\ lost' \subseteq Threads /\ waited' \subseteq Threads
    BY <1>0, <1>9 DEF TypeOK, Drop, Made
  <2>2. QED
    BY <1>9, <2>1 DEF TypeOK, Drop, Stores
<1>10. ASSUME Verify PROVE TypeOK'
  BY <1>0, <1>10 DEF TypeOK, Verify, Stores
<1>11. ASSUME Store PROVE TypeOK'
  <2>1. rows' \in 0 .. Rows
    BY <1>11 DEF TypeOK, Store
  <2>2. store' \in Stores /\ work' \in [Threads -> Homes \cup {None}]
    <3>1. store \in Stores /\ work \in [Threads -> Homes \cup {None}]
      BY DEF TypeOK, Stores
    <3>2. \/ store' \in {Got, store} /\ work' = work
          \/ \E t \in Threads : /\ work' = [work EXCEPT ![t] = Got.at]
                               /\ store' = [Got EXCEPT !.listed = @ \cup {t}]
      BY <1>11 DEF Store
    <3>3. QED
      BY <1>0, <3>1, <3>2 DEF Stores
  <2>3. memories' \subseteq [of : Homes, at : Homes, stray : BOOLEAN]
    <3>1. home[me] \in Homes /\ Got.at \in Homes /\ Got.stray \in BOOLEAN
      BY <1>0, <1>11, Directories DEF TypeOK, Store, Stores, Made
    <3>2. QED
      BY <1>11, <3>1 DEF TypeOK, Store
  <2>4. QED
    BY <1>11, <2>1, <2>2, <2>3 DEF TypeOK, Store, Stores
<1>12. ASSUME Stored PROVE TypeOK'
  BY <1>12 DEF TypeOK, Stored
<1>13. ASSUME NEW a \in Adapters, Query(a) PROVE TypeOK'
  BY <1>0, <1>13 DEF TypeOK, Query, Stores
<1>14. ASSUME NEW a \in Adapters, Snapshot(a) PROVE TypeOK'
  BY <1>14 DEF TypeOK, Snapshot, Begin, NothingSeen
<1>15. ASSUME Read PROVE TypeOK'
  <2>1. /\ pc' \in {"idle", "look"} /\ tries' \in Nat
        /\ tries' <= Attempts \/ tries' <= Reads
        /\ me' \in Adapters \cup {None} /\ (pc' # "idle" => me' \in Adapters)
    BY <1>15 DEF TypeOK, Read, Retriable
  <2>2. seen' \in Seq(Tried)
    <3>1. PICK x \in Tried : seen' = Append(seen, x)
      <4>1. PICK got \in {"all", "rows", "none"},
                 why \in {"answered", "raised", "refused"} :
              seen' = Append(seen, [got |-> got, why |-> why,
                lost |-> {t \in Threads : work[t] = home[me]} \cap lost' # {}])
        BY <1>15 DEF Read
      <4>2. ({t \in Threads : work[t] = home[me]} \cap lost' # {}) \in BOOLEAN
        OBVIOUS
      <4>3. QED
        BY <4>1, <4>2 DEF Tried
    <3>2. QED
      BY <3>1 DEF TypeOK, Tried
  <2>3. QED
    BY <1>15, <2>1, <2>2 DEF TypeOK, Read, Tried
<1>16. ASSUME NEW a \in Adapters, Reset(a) PROVE TypeOK'
  <2>1. seen' = <<>> /\ memories' \subseteq memories
    BY <1>16 DEF Reset, NothingSeen
  <2>2. store' \in Stores
    BY <1>16 DEF TypeOK, Reset, Stores
  <2>3. QED
    BY <1>16, <2>1, <2>2 DEF TypeOK, Reset, Stores
<1>17. CASE UNCHANGED vars
  BY <1>17 DEF TypeOK, vars
<1>18. QED
  BY <1>1, <1>2, <1>3, <1>4, <1>5, <1>6, <1>7, <1>8, <1>9, <1>10, <1>11,
     <1>12, <1>13, <1>14, <1>15, <1>16, <1>17 DEF Next

LEMMA MadeStep == ASSUME TypeOK, Made, [Next]_vars PROVE Made'
<1> USE DEF threads, use, results, main
<1>0. open \in Seq(Opened)
  BY DEF TypeOK, Opened
<1>1. ASSUME NEW a \in Adapters, Construct(a) PROVE Made'
  <2>1. /\ home' \in [Adapters -> Homes \cup {None}] /\ home'[a] # None
        /\ \A b \in Adapters : b # a => home'[b] = home[b]
    <3>1. PICK h \in {a, Resolved(env)} : home' = [home EXCEPT ![a] = h]
      BY <1>1 DEF Construct
    <3>2. h \in Homes /\ h # None
      BY Directories, OmegaAssumption DEF Homes
    <3>3. QED
      BY <3>1, <3>2 DEF TypeOK
  <2>2. \A b \in Adapters : home[b] # None => home'[b] # None
    BY <2>1
  <2>3. open' = Append(open, [a |-> a, prev |-> env]) /\ pc' = "idle"
    BY <1>1 DEF Construct
  <2>4. ASSUME NEW i \in DOMAIN open' PROVE home'[open'[i].a] # None
    <3>1. CASE i = Len(open) + 1
      BY <1>0, <2>1, <2>3, <3>1
    <3>2. CASE i # Len(open) + 1
      <4>1. i \in DOMAIN open /\ open'[i] = open[i] /\ open[i] \in Opened
        BY <1>0, <2>3, <3>2
      <4>2. QED
        BY <2>2, <4>1 DEF Made, Opened
    <3>3. QED
      BY <3>1, <3>2
  <2>5. QED
    BY <2>3, <2>4 DEF Made
<1>2. ASSUME NEW i \in DOMAIN open, Close(i) PROVE Made'
  <2>1. i \in 1 .. Len(open) /\ open' = RemoveAt(open, i)
        /\ home' = home /\ pc' = "idle"
    BY <1>0, <1>2 DEF Close
  <2>2. open' \in Seq(Opened)
    BY <1>0, <2>1, RemoveAtType
  <2>3. \A j \in DOMAIN open' : \E k \in DOMAIN open : open'[j] = open[k]
    BY <1>0, <2>1, <2>2, RemoveAtKeeps
  <2>4. QED
    BY <2>1, <2>3 DEF Made
<1>3. ASSUME NEW a \in Adapters, Begin(a, "await") \/ Begin(a, "look"),
             UNCHANGED <<open, home>>
      PROVE  Made'
  BY <1>3 DEF Made, Begin, IsOpen
<1>4. ASSUME NEW a \in Adapters, Ingest(a) \/ Snapshot(a) PROVE Made'
  BY <1>3, <1>4 DEF Ingest, Snapshot
<1>5. CASE \E t \in Threads : Build(t) \/ Install(t) \/ End(t)
  BY <1>5 DEF Made, Build, Install, End
<1>6. CASE \E a \in Adapters : ConstructFails(a) \/ Query(a) \/ Reset(a)
  BY <1>6 DEF Made, ConstructFails, Query, Reset
<1>7. CASE Await \/ Drop \/ Verify \/ Store \/ Stored \/ Read
  BY <1>7 DEF Made, Await, Drop, Verify, Store, Stored, Read
<1>8. CASE UNCHANGED vars
  BY <1>8 DEF Made, vars
<1>9. QED
  BY <1>1, <1>2, <1>4, <1>5, <1>6, <1>7, <1>8 DEF Next

\* Every variable of the binding keeps its type, for every OmegaAssumption.
THEOREM BindingTypeCorrect == Spec => []TypeOK
<1>1. Init => TypeOK /\ Made
  <2> SUFFICES ASSUME Init PROVE TypeOK /\ Made
    OBVIOUS
  <2>1. /\ <<>> \in Seq(Opened) /\ Fresh(None) \in Stores
        /\ 0 \in 0 .. Rows /\ 0 \in Nat /\ 0 <= Attempts
        /\ NothingSeen \in Seq(Tried)
    BY OmegaAssumption DEF Fresh, Stores, NothingSeen
  <2>2. /\ env \in Homes \cup {Unset} /\ original \in {Unset, Default}
        /\ home \in [Adapters -> Homes \cup {None}] /\ me = None
        /\ work \in [Threads -> Homes \cup {None}]
        /\ build \in [Threads -> Homes \cup {None}]
        /\ store \in Stores /\ open \in Seq(Opened) /\ DOMAIN open = {}
    BY <2>1 DEF Init, Homes
  <2>3. QED
    BY <2>1, <2>2 DEF Init, TypeOK, Made, Opened, Stores, Tried
<1>2. TypeOK /\ Made /\ [Next]_vars => TypeOK' /\ Made'
  BY TypeStep, MadeStep
<1>3. QED
  BY <1>1, <1>2, PTL DEF Spec

-----------------------------------------------------------------------------
(* The environment variable and the store that follows it *)

(* A store that no thread put there is for the directory OMEGA_HOME names. *)
Placed == store.at # None /\ ~store.stray => store.at = Resolved(env)

Binding == pc \in {"await", "drop", "verify", "store"}

(* Used innermost first, each open adapter remembers the one below it. *)
Stacked ==
    strict =>
        /\ open = <<>> => leaked \/ env = original
        /\ open # <<>> => /\ env = home[Top] /\ Placed
                          /\ leaked \/ open[1].prev = original
        /\ \A i \in 2 .. Len(open) : open[i].prev = home[open[i - 1].a]
        /\ Binding => open # <<>> /\ me = Top

Bound == pc \in {"verify", "store"} => env = home[me] /\ Placed

LEMMA GotPlaced ==
  ASSUME TypeOK, store' = Got \/ store' = store
                 \/ (\E t \in Threads : store' = [Got EXCEPT !.listed = @ \cup {t}]),
         env' = env
  PROVE  Placed => Placed' /\ (Got.stray \/ Got.at = Resolved(env))
<1>1. Placed => Got.stray \/ Got.at = Resolved(env)
  BY DEF Got, Fresh, Placed
<1>2. Resolved(env)' = Resolved(env)
  BY DEF Resolved
<1>3. CASE store' = store
  BY <1>1, <1>2, <1>3 DEF Placed
<1>4. CASE store' = Got
  BY <1>1, <1>2, <1>4 DEF Placed
<1>5. ASSUME NEW t \in Threads, store' = [Got EXCEPT !.listed = @ \cup {t}]
      PROVE  Placed => Placed'
  <2>1. store'.at = Got.at /\ store'.stray = Got.stray
    BY <1>5 DEF Got, Fresh, TypeOK
  <2>2. QED
    BY <1>1, <1>2, <2>1 DEF Placed
<1>6. QED
  BY <1>1, <1>3, <1>4, <1>5

LEMMA StackedStep ==
  ASSUME TypeOK, Made, Stacked, [Next]_vars
  PROVE  Stacked'
<1> USE OmegaAssumption DEF threads, use, results, main
<1>0. /\ open \in Seq(Opened) /\ Len(open) \in Nat
      /\ open # <<>> => Len(open) \in 1 .. Len(open) /\ Top \in Adapters
      /\ strict \in BOOLEAN
  <2>1. open \in Seq(Opened) /\ strict \in BOOLEAN
    BY DEF TypeOK, Opened
  <2>2. ASSUME open # <<>> PROVE Len(open) \in 1 .. Len(open) /\ Top \in Adapters
    <3>1. Len(open) \in 1 .. Len(open) /\ open[Len(open)] \in Opened
      BY <2>1, <2>2, LastOf
    <3>2. QED
      BY <3>1 DEF Top, Opened
  <2>3. Len(open) \in Nat
    BY <2>1
  <2>4. QED
    BY <2>1, <2>2, <2>3
<1>1. ASSUME NEW a \in Adapters, Construct(a), strict PROVE Stacked'
  <2>1. PICK h \in {a, Resolved(env)} : home' = [home EXCEPT ![a] = h] /\ env' = h
    BY <1>1 DEF Construct
  <2>2. /\ home'[a] = env' /\ \A b \in Adapters : b # a => home'[b] = home[b]
    BY <2>1 DEF TypeOK
  <2>3. /\ open' = Append(open, [a |-> a, prev |-> env]) /\ pc' = "idle"
        /\ store'.at = None /\ leaked' = leaked /\ original' = original
        /\ strict' = strict /\ home[a] = None
    BY <1>1 DEF Construct, Fresh
  <2>4. /\ Len(open') = Len(open) + 1 /\ open' # <<>>
        /\ open'[Len(open')] = [a |-> a, prev |-> env]
        /\ \A i \in 1 .. Len(open) : open'[i] = open[i] /\ open[i] \in Opened
                                     /\ open[i].a # a
    BY <1>0, <2>3 DEF Made
  <2>5. ASSUME NEW i \in 2 .. Len(open') PROVE open'[i].prev = home'[open'[i - 1].a]
    <3>1. i - 1 \in 1 .. Len(open) /\ home'[open'[i - 1].a] = home[open[i - 1].a]
      BY <1>0, <2>2, <2>4 DEF Opened
    <3>2. CASE i = Len(open')
      <4>1. env = home[Top] /\ i - 1 = Len(open)
        BY <1>0, <1>1, <2>4, <3>1, <3>2 DEF Stacked
      <4>2. QED
        BY <2>4, <3>1, <3>2, <4>1 DEF Top
    <3>3. CASE i # Len(open')
      <4>1. i \in 2 .. Len(open) /\ open'[i] = open[i]
        BY <1>0, <2>4, <3>3
      <4>2. QED
        BY <1>1, <3>1, <4>1 DEF Stacked
    <3>4. QED
      BY <3>2, <3>3
  <2>6. leaked' \/ open'[1].prev = original'
    <3>1. CASE open = <<>>
      BY <1>1, <2>3, <3>1 DEF Stacked
    <3>2. CASE open # <<>>
      BY <1>0, <1>1, <2>3, <2>4, <3>2 DEF Stacked
    <3>3. QED
      BY <3>1, <3>2
  <2>7. env' = home'[Top']
    BY <2>2, <2>4 DEF Top
  <2>8. QED
    BY <2>3, <2>4, <2>5, <2>6, <2>7 DEF Stacked, Placed, Binding
<1>2. ASSUME NEW a \in Adapters, ConstructFails(a) PROVE Stacked'
  BY <1>0, <1>2 DEF Stacked, ConstructFails, Binding
<1>3. ASSUME NEW i \in DOMAIN open, Close(i), strict, i = Len(open) PROVE Stacked'
  <2>1. /\ open' = RemoveAt(open, Len(open)) /\ env' = open[Len(open)].prev
        /\ home' = home /\ store'.at = None /\ pc' = "idle" /\ Len(open) > 0
        /\ leaked' = leaked /\ original' = original
    BY <1>0, <1>3 DEF Close, Restored, Fresh
  <2>2. /\ open' \in Seq(Opened) /\ Len(open') = Len(open) - 1
        /\ \A j \in 1 .. (Len(open) - 1) : open'[j] = open[j]
    <3>1. Len(open) \in 1 .. Len(open)
      BY <1>0, <2>1
    <3>2. open' \in Seq(Opened)
      BY <1>0, <2>1, <3>1, RemoveAtType
    <3>3. QED
      BY <1>0, <2>1, <3>2, RemoveLast
  <2>3. CASE Len(open) = 1
    <3>1. open' = <<>> /\ (leaked \/ open[1].prev = original)
      BY <1>0, <1>3, <2>2, <2>3 DEF Stacked
    <3>2. QED
      BY <2>1, <2>3, <3>1 DEF Stacked, Binding
  <2>4. CASE Len(open) > 1
    <3>1. Len(open) \in 2 .. Len(open) /\ Len(open) - 1 \in 1 .. (Len(open) - 1)
      BY <1>0, <2>4
    <3>2. env' = home'[Top'] /\ open' # <<>>
      BY <1>0, <1>3, <2>1, <2>2, <3>1 DEF Stacked, Top
    <3>3. leaked' \/ open'[1].prev = original'
      BY <1>0, <1>3, <2>1, <2>2, <3>1 DEF Stacked
    <3>4. \A j \in 2 .. Len(open') : open'[j].prev = home'[open'[j - 1].a]
      BY <1>0, <1>3, <2>1, <2>2 DEF Stacked
    <3>5. QED
      BY <2>1, <3>2, <3>3, <3>4 DEF Stacked, Placed, Binding
  <2>5. QED
    BY <1>0, <2>3, <2>4, SomeOf
<1>4. ASSUME NEW a \in Adapters, Ingest(a), strict, IsOpen(a), a = Top PROVE Stacked'
  BY <1>0, <1>4 DEF Stacked, Ingest, Begin, IsOpen, Placed, Top, Binding
<1>5. ASSUME Drop PROVE Stacked'
  BY <1>0, <1>5 DEF Stacked, Drop, Fresh, Placed, Binding, Top
<1>6. ASSUME NEW t \in Threads, Install(t) PROVE Stacked'
  <2>1. Placed'
    BY <1>6 DEF Install, Fresh, Placed, Resolved
  <2>2. QED
    BY <1>6, <2>1 DEF Stacked, Install, Top, Binding
<1>7. ASSUME NEW t \in Threads, Build(t) \/ End(t) PROVE Stacked'
  <2>1. store'.at = store.at /\ store'.stray = store.stray /\ env' = env
    BY <1>7 DEF Build, End, TypeOK
  <2>2. QED
    BY <1>7, <2>1 DEF Stacked, Build, End, Top, Placed, Resolved, Binding
<1>8. ASSUME NEW a \in Adapters, Query(a) \/ Snapshot(a) \/ Reset(a)
      PROVE  Stacked'
  <2>1. Placed => Placed'
    BY <1>8 DEF Query, Snapshot, Reset, Got, Fresh, Placed, Resolved, TypeOK
  <2>2. QED
    BY <1>8, <2>1, <1>0
       DEF Stacked, Query, Snapshot, Reset, Begin, Top, Binding
<1>9. ASSUME Await \/ Verify \/ Store PROVE Stacked'
  <2>1. Placed => Placed'
    BY <1>9, GotPlaced DEF Await, Verify, Store
  <2>2. QED
    BY <1>9, <2>1, <1>0 DEF Stacked, Await, Verify, Store, Top, Binding
<1>10. CASE Stored \/ Read
  BY <1>10 DEF Stacked, Stored, Read, Top, Placed, Resolved, Binding
<1>11. CASE UNCHANGED vars
  BY <1>11 DEF Stacked, vars, Top, Placed, Resolved, Binding
<1>12. ASSUME NEW a \in Adapters, Construct(a) \/ Ingest(a) PROVE Stacked'
  BY <1>0, <1>1, <1>4, <1>12 DEF Stacked, Construct, Ingest, Begin
<1>13. ASSUME NEW i \in DOMAIN open, Close(i) PROVE Stacked'
  BY <1>0, <1>3, <1>13 DEF Stacked, Close
<1>14. QED
  BY <1>2, <1>5, <1>6, <1>7, <1>8, <1>9, <1>10, <1>11, <1>12, <1>13 DEF Next

LEMMA BoundStep ==
  ASSUME TypeOK, Made, Bound, OwnWrites, [Next]_vars
  PROVE  Bound' /\ OwnWrites'
<1> USE OmegaAssumption DEF threads, use, results, main
<1>1. ASSUME Drop PROVE Bound' /\ OwnWrites'
  BY <1>1 DEF Bound, OwnWrites, Drop, Placed, Fresh
<1>2. ASSUME Verify PROVE Bound' /\ OwnWrites'
  BY <1>2 DEF Bound, OwnWrites, Verify, Placed, Got, Fresh, Resolved
<1>3. ASSUME Store PROVE Bound' /\ OwnWrites'
  <2>1. env = home[me] /\ Placed /\ Resolved(env) = home[me]
    BY <1>3 DEF Bound, Store, Resolved, TypeOK, Homes, Made
  <2>2. Got.at = home[me] \/ Got.stray
    BY <1>3, <2>1, GotPlaced DEF Store
  <2>3. OwnWrites'
    BY <1>3, <2>2 DEF Store, OwnWrites
  <2>4. Placed'
    BY <1>3, <2>1, GotPlaced DEF Store
  <2>5. QED
    BY <1>3, <2>1, <2>3, <2>4 DEF Bound, Store
<1>4. ASSUME NEW t \in Threads, Install(t) PROVE Bound' /\ OwnWrites'
  <2>1. Placed'
    BY <1>4 DEF Install, Fresh, Placed, Resolved
  <2>2. QED
    BY <1>4, <2>1 DEF Bound, OwnWrites, Install
<1>5. ASSUME NEW t \in Threads, Build(t) \/ End(t) PROVE Bound' /\ OwnWrites'
  <2>1. store'.at = store.at /\ store'.stray = store.stray /\ env' = env
    BY <1>5 DEF Build, End, TypeOK
  <2>2. QED
    BY <1>5, <2>1 DEF Bound, OwnWrites, Build, End, Placed, Resolved
<1>6. ASSUME NEW a \in Adapters, \/ Construct(a) \/ ConstructFails(a) \/ Ingest(a)
                                 \/ Query(a) \/ Snapshot(a) \/ Reset(a)
      PROVE Bound' /\ OwnWrites'
  BY <1>6 DEF Bound, OwnWrites, Construct, ConstructFails, Ingest, Query, Snapshot,
              Reset, Begin, Live
<1>7. ASSUME NEW i \in DOMAIN open, Close(i) PROVE Bound' /\ OwnWrites'
  BY <1>7 DEF Bound, OwnWrites, Close
<1>8. CASE Await \/ Stored \/ Read
  BY <1>8 DEF Bound, OwnWrites, Await, Stored, Read
<1>9. CASE UNCHANGED vars
  BY <1>9 DEF Bound, OwnWrites, vars, Placed, Resolved
<1>10. QED
  BY <1>1, <1>2, <1>3, <1>4, <1>5, <1>6, <1>7, <1>8, <1>9 DEF Next

LEMMA Inductive ==
  Spec => [](TypeOK /\ Made /\ Stacked /\ Bound /\ OwnWrites)
<1>1. Init => Made /\ Stacked /\ Bound /\ OwnWrites
  BY DEF Init, Made, Stacked, Bound, OwnWrites, Binding
<1>2. TypeOK /\ Made /\ Stacked /\ Bound /\ OwnWrites /\ [Next]_vars
        => Made' /\ Stacked' /\ Bound' /\ OwnWrites'
  BY MadeStep, StackedStep, BoundStep
<1>3. QED
  BY <1>1, <1>2, BindingTypeCorrect, PTL DEF Spec

\* An ingest writes into its own adapter's directory, or into the store a
\* background thread put in place after the last drop.
THEOREM WritesAreOwn == Spec => []OwnWrites
BY Inductive, PTL

\* Used and closed innermost first, the variable is the newest adapter's
\* directory, and what it was at first once all are closed.
THEOREM EnvironmentFollows == Spec => []EnvFollows
<1>1. Stacked => EnvFollows
  BY DEF Stacked, EnvFollows
<1>2. QED
  BY <1>1, Inductive, PTL

\* A query reads its own adapter's directory although it does not bind.
THEOREM QueryReadsOwn == Spec => []ReadsOwn
<1>1. ASSUME TypeOK, Made, Stacked PROVE ReadsOwn
  <2> SUFFICES ASSUME open # <<>>, strict, ~store.stray PROVE Got.at = home[Top]
    BY DEF ReadsOwn, Hits
  <2>1. Top \in Adapters /\ home[Top] # None /\ env = home[Top] /\ Placed
    <3>0. open \in Seq(Opened)
      BY <1>1 DEF TypeOK, Opened
    <3>1. Len(open) \in DOMAIN open /\ open[Len(open)] \in Opened
      <4>1. Len(open) \in 1 .. Len(open) /\ open[Len(open)] \in Opened
        BY <3>0, LastOf
      <4>2. QED
        BY <3>0, <4>1
    <3>2. QED
      BY <1>1, <3>1 DEF Stacked, Made, Top, Opened
  <2>2. Resolved(env) = home[Top]
    BY <1>1, <2>1, OmegaAssumption DEF TypeOK, Homes, Resolved
  <2>3. QED
    BY <2>1, <2>2 DEF Got, Fresh, Placed
<1>2. QED
  BY <1>1, Inductive, PTL

-----------------------------------------------------------------------------
(* The threads a snapshot can wait for *)

(* A running thread is listed on the store, among those being joined, or   *)
(* lost; and once a snapshot reads, it is joined or lost.                  *)
Findable ==
    /\ \A t \in Threads : Alive(t) => t \in lost \cup store.listed \cup waited
    /\ pc = "read" => \A t \in Threads : Alive(t) => t \in lost \cup waited
    /\ pc \notin {"drop", "read"} => waited = {}
    /\ store.at = None => store.listed = {}

LEMMA FindableStep ==
  ASSUME TypeOK, Findable, [Next]_vars
  PROVE  Findable'
<1> USE DEF threads, use, results, main
<1>0. \A t \in Threads : Alive(t) => t \in Forgotten \cup waited
  BY DEF Findable, Forgotten
<1>1. ASSUME Await PROVE Findable'
  <2>1. /\ Got.listed = store.listed /\ Got.at # None /\ waited = {} /\ work' = work
    BY <1>1, Directories, OmegaAssumption DEF Findable, Await, Got, Fresh
  <2>2. QED
    BY <1>0, <1>1, <2>1 DEF Findable, Await, Waited, Alive
<1>2. ASSUME Drop PROVE Findable'
  BY <1>0, <1>2 DEF Findable, Drop, Fresh, Alive
<1>3. ASSUME Verify PROVE Findable'
  <2>1. Got.listed = store.listed /\ Got.at # None
    BY Directories, OmegaAssumption DEF Findable, Got, Fresh
  <2>2. QED
    BY <1>3, <2>1 DEF Findable, Verify, Alive
<1>4. ASSUME Store PROVE Findable'
  <2>1. Got.listed = store.listed /\ Got.at # None
    BY Directories, OmegaAssumption DEF Findable, Got, Fresh
  <2>2. CASE work' = work /\ store' \in {Got, store}
    BY <1>4, <2>1, <2>2 DEF Findable, Store, Alive
  <2>3. ASSUME NEW t \in Threads, work' = [work EXCEPT ![t] = Got.at],
               store' = [Got EXCEPT !.listed = @ \cup {t}]
        PROVE  Findable'
    <3>1. store'.at = Got.at /\ store'.listed = store.listed \cup {t}
      BY <2>1, <2>3 DEF Got, Fresh, TypeOK
    <3>2. \A u \in Threads : u # t => work'[u] = work[u]
      BY <2>3 DEF TypeOK
    <3>3. QED
      BY <1>4, <2>1, <3>1, <3>2 DEF Findable, Store, Alive
  <2>4. QED
    BY <1>4, <2>2, <2>3 DEF Store
<1>5. ASSUME Read PROVE Findable'
  BY <1>5 DEF Findable, Read, Alive
<1>6. ASSUME NEW t \in Threads, Install(t) PROVE Findable'
  <2>1. store'.listed = {} /\ lost' = Forgotten /\ waited' = waited
        /\ work' = work /\ pc' = pc
    BY <1>6 DEF Install, Fresh
  <2>2. pc = "read" => \A u \in Threads : Alive(u) => u \in lost' \cup waited'
    BY <1>0, <2>1
  <2>3. QED
    BY <1>0, <2>1, <2>2 DEF Findable, Alive
<1>7. ASSUME NEW t \in Threads, End(t) PROVE Findable'
  <2>1. store'.at = store.at /\ store'.listed = store.listed \ {t}
    BY <1>7 DEF End, TypeOK
  <2>2. ~Alive(t)' /\ \A u \in Threads : u # t => work'[u] = work[u]
    BY <1>7 DEF End, Alive, TypeOK
  <2>3. QED
    BY <1>7, <2>1, <2>2 DEF Findable, End, Alive
<1>8. ASSUME NEW a \in Adapters, Construct(a) PROVE Findable'
  BY <1>0, <1>8 DEF Findable, Construct, Fresh, Alive
<1>9. ASSUME NEW i \in DOMAIN open, Close(i) PROVE Findable'
  BY <1>0, <1>9 DEF Findable, Close, Fresh, Alive
<1>10. ASSUME NEW a \in Adapters, Query(a) PROVE Findable'
  <2>1. Got.listed = store.listed /\ Got.at # None
    BY Directories, OmegaAssumption DEF Findable, Got, Fresh
  <2>2. QED
    BY <1>10, <2>1 DEF Findable, Query, Alive
<1>11. ASSUME NEW a \in Adapters, Reset(a) PROVE Findable'
  <2>1. store'.listed = store.listed /\ store'.at = store.at
    BY <1>11 DEF Reset, TypeOK
  <2>2. QED
    BY <1>11, <2>1 DEF Findable, Reset, Alive
<1>12. CASE \E a \in Adapters : ConstructFails(a) \/ Ingest(a) \/ Snapshot(a)
  BY <1>12 DEF Findable, ConstructFails, Ingest, Snapshot, Begin, Alive
<1>13. CASE (\E t \in Threads : Build(t)) \/ Stored
  BY <1>13 DEF Findable, Build, Stored, Alive
<1>14. CASE UNCHANGED vars
  BY <1>14 DEF Findable, vars, Alive
<1>15. QED
  BY <1>1, <1>2, <1>3, <1>4, <1>5, <1>6, <1>7, <1>8, <1>9, <1>10, <1>11, <1>12,
     <1>13, <1>14 DEF Next

(* The attempts of the snapshot under way are counted; an ingest has none. *)
Counted ==
    /\ pc \in {"look", "read"} => Len(seen) + 1 = tries /\ tries <= Reads
    /\ Binding => seen = <<>>

\* One more attempt of the snapshot, whatever it comes to.
LEMMA ReadStep ==
  ASSUME TypeOK, Made, Findable, Counted, SnapshotWhole, Read
  PROVE  Counted' /\ SnapshotWhole'
<1> DEFINE W == {t \in Threads : work[t] = home[me]}
<1>1. PICK got \in {"all", "rows", "none"}, why \in {"answered", "raised", "refused"} :
        /\ why = "answered" => got = "all" \/ W # {}
        /\ seen' = Append(seen, [got |-> got, why |-> why, lost |-> W \cap lost' # {}])
        /\ \/ Retriable(why) /\ pc' = "look" /\ tries' = tries + 1
           \/ pc' = "idle" /\ (got = "none" => ~Retriable(why))
  BY DEF Read
<1>2. W \subseteq lost'
  BY DEF Read, Findable, Made, Alive
<1>3. seen \in Seq(Tried) /\ tries = Len(seen) + 1 /\ tries <= Reads
      /\ tries \in Nat /\ Reads \in Nat
  BY OmegaAssumption DEF TypeOK, Tried, Counted, Read
<1> DEFINE x == [got |-> got, why |-> why, lost |-> W \cap lost' # {}]
<1>4. /\ x.got = got /\ x.why = why
      /\ got # "all" => why # "answered" \/ x.lost
  BY <1>1, <1>2
<1> HIDE DEF W, x
<1>5. /\ seen' = Append(seen, x) /\ Len(seen') = tries /\ seen'[tries] = x
      /\ \A i \in DOMAIN seen' : i = tries \/ (i \in DOMAIN seen /\ seen'[i] = seen[i])
  <2>1. seen' = Append(seen, x)
    BY <1>1 DEF x
  <2>2. QED
    BY <1>3, <2>1
<1>6. \A i \in DOMAIN seen' :
        seen'[i].got # "all" => seen'[i].why # "answered" \/ seen'[i].lost
  BY <1>4, <1>5 DEF SnapshotWhole
<1>7. CASE Retriable(why) /\ pc' = "look" /\ tries' = tries + 1
  BY <1>3, <1>5, <1>6, <1>7 DEF Counted, SnapshotWhole, Retriable, Binding
<1>8. CASE pc' = "idle" /\ (got = "none" => ~Retriable(why))
  <2>1. got = "none" => why = "refused" \/ tries = Reads
    BY <1>3, <1>8 DEF Retriable
  <2>2. QED
    BY <1>4, <1>5, <1>6, <1>8, <2>1 DEF Counted, SnapshotWhole, Binding
<1>9. QED
  BY <1>1, <1>7, <1>8

LEMMA SnapshotStep ==
  ASSUME TypeOK, Made, Findable, Counted, SnapshotWhole, [Next]_vars
  PROVE  Counted' /\ SnapshotWhole'
<1> USE OmegaAssumption DEF threads, use, results, main
<1>1. CASE Read
  BY <1>1, ReadStep
<1>2. CASE \E a \in Adapters : Construct(a) \/ Ingest(a) \/ Snapshot(a) \/ Reset(a)
  BY <1>2 DEF Counted, SnapshotWhole, NothingSeen, Binding, Construct, Ingest, Snapshot,
              Reset, Begin
<1>3. CASE \E a \in Adapters : ConstructFails(a) \/ Query(a)
  BY <1>3 DEF Counted, SnapshotWhole, Binding, ConstructFails, Query
<1>4. CASE \E t \in Threads : Build(t) \/ Install(t) \/ End(t)
  BY <1>4 DEF Counted, SnapshotWhole, Binding, Build, Install, End
<1>5. CASE \E i \in DOMAIN open : Close(i)
  BY <1>5 DEF Counted, SnapshotWhole, Binding, Close, NothingSeen
<1>6. CASE Await \/ Drop \/ Verify \/ Store \/ Stored
  BY <1>6 DEF Counted, SnapshotWhole, Binding, Await, Drop, Verify, Store, Stored
<1>7. CASE UNCHANGED vars
  BY <1>7 DEF Counted, SnapshotWhole, Binding, vars
<1>8. QED
  BY <1>1, <1>2, <1>3, <1>4, <1>5, <1>6, <1>7 DEF Next

\* An attempt of a snapshot that the file answered falls short only because
\* of a thread its joins cannot reach or did not wait out, and a snapshot
\* comes back with nothing only from a file it cannot open or after all of
\* its attempts.
THEOREM SnapshotsWhole == Spec => []SnapshotWhole
<1>1. Init => Findable /\ Counted /\ SnapshotWhole
  BY DEF Init, Findable, Counted, Binding, SnapshotWhole, NothingSeen, Fresh, Alive
<1>2. TypeOK /\ Made /\ Findable /\ Counted /\ SnapshotWhole /\ [Next]_vars
        => Findable' /\ Counted' /\ SnapshotWhole'
  BY FindableStep, SnapshotStep
<1>3. QED
  BY <1>1, <1>2, Inductive, PTL DEF Spec
=============================================================================
