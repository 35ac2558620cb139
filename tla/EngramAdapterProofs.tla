------------------------ MODULE EngramAdapterProofs -------------------------
(***************************************************************************)
(* Theorems about EngramAdapter, for any corpora, any contents of the rows *)
(* and any number of calls.                                                *)
(***************************************************************************)
EXTENDS EngramAdapter, TLAPS, FiniteSetTheorems

Asks == {Recall} \cup [what : {"remember"}, row : Rows, corpus : Nat]

(* What the client and the server know of the calls. *)
CallsOK ==
  /\ call \in Nat /\ busy \in BOOLEAN
  /\ pending \subseteq 1 .. call /\ done \subseteq 1 .. call
  /\ \A c \in pending : c \notin done
  /\ busy => call \in 1 .. call
  /\ asked \in Seq(Asks) /\ Len(asked) = call

AdapterOK ==
  /\ corpus \in Nat
  /\ rows \in Seq(Rows)
  /\ report \in [created : Nat, existed : Nat, failed : SUBSET Rows]

(* Memories are numbered without gaps or repetitions, so the next number is *)
(* one the id map has never seen.                                          *)
StoreOK ==
  /\ IsFiniteSet(store)
  /\ \A m \in store : m.id \in 1 .. Cardinality(store) /\ m.corpus \in 0 .. corpus
  /\ \A m, n \in store : m.id = n.id => m = n
  /\ \A i \in DOMAIN idMap : i \in 1 .. Cardinality(store)
  /\ \A m \in store : m.id \in DOMAIN idMap => idMap[m.id] = m.row

(* A call that can still be executed belongs to the current corpus, because *)
(* reset stops the server; and unless it is the one the client waits for,  *)
(* its row has been reported.                                              *)
LiveCalls ==
  \A c \in 1 .. call :
    asked[c] # Recall =>
      /\ c \in pending \/ (busy /\ c = call) => asked[c].corpus = corpus
      /\ c \in pending => asked[c].row \in report.failed \/ (busy /\ c = call)

(* The answer the client is about to read created memory i. *)
Created(i) ==
  /\ busy /\ call \in done /\ asked[call] # Recall
  /\ answer[call].kind = "created" /\ answer[call].id = i

(* A memory of the current corpus is named, reported, or about to be named. *)
Known ==
  /\ busy /\ asked[call] # Recall => rows # <<>>
  /\ busy /\ call \in done /\ asked[call] # Recall /\ answer[call].kind = "created" =>
       \E m \in store : m.id = answer[call].id /\ m.row = asked[call].row
  /\ \A m \in store :
       m.corpus = corpus =>
         m.id \in DOMAIN idMap \/ m.row \in report.failed \/ Created(m.id)

IInv == CallsOK /\ AdapterOK /\ StoreOK /\ LiveCalls /\ Known /\ Isolation

LEMMA AskedRow ==
  ASSUME CallsOK, NEW c \in 1 .. call
  PROVE  /\ asked[c] \in Asks
         /\ asked[c] # Recall => asked[c].row \in Rows /\ asked[c].corpus \in Nat
<1>1. asked[c] \in Asks
  BY DEF CallsOK
<1>2. QED
  BY <1>1 DEF Asks

LEMMA Initially == Init => IInv
<1> SUFFICES ASSUME Init PROVE IInv
  OBVIOUS
<1> USE DEF Init, Remote!Init
<1>1. CallsOK
  <2>1. call \in Nat /\ busy \in BOOLEAN
    OBVIOUS
  <2>2. pending \subseteq 1 .. call /\ done \subseteq 1 .. call
    OBVIOUS
  <2>3. \A c \in pending : c \notin done
    OBVIOUS
  <2>4. asked \in Seq(Asks) /\ Len(asked) = call
    OBVIOUS
  <2>5. QED
    BY <2>1, <2>2, <2>3, <2>4 DEF CallsOK
<1>2. AdapterOK
  BY DEF AdapterOK, Nobody
<1>3. StoreOK
  BY FS_EmptySet DEF StoreOK
<1>4. LiveCalls /\ Known /\ Isolation
  BY DEF LiveCalls, Known, Isolation
<1>5. QED
  BY <1>1, <1>2, <1>3, <1>4 DEF IInv

LEMMA CallsStep == ASSUME IInv, [Next]_vars PROVE CallsOK'
<1> USE DEF IInv, CallsOK
<1>1. CASE StartIngest \/ ServerDies
  <2>1. pending' = {} /\ UNCHANGED <<call, busy, done, asked>>
    BY <1>1 DEF StartIngest, ServerDies, Remote!Lose
  <2>2. QED
    BY <2>1
<1>2. CASE SkipBlank
  BY <1>2 DEF SkipBlank, remote
<1>3. CASE Remember
  <2>1. Head(rows) \in Rows
    BY <1>3 DEF Remember, AdapterOK
  <2>2. [what |-> "remember", row |-> Head(rows), corpus |-> corpus] \in Asks
    BY <2>1 DEF AdapterOK, Asks
  <2>3. QED
    BY <1>3, <2>2 DEF Remember, Remote!Invoke
<1>4. CASE Query
  BY <1>4 DEF Query, Remote!Invoke, Asks
<1>5. CASE Send
  BY <1>5 DEF Send, Remote!Send
<1>6. CASE Answered \/ Failed
  BY <1>6 DEF Answered, Failed, Remote!Return, Remote!Raise
<1>7. ASSUME NEW c \in pending, Serve(c) PROVE CallsOK'
  BY <1>7 DEF Serve, Remote!Execute
<1>8. CASE UNCHANGED vars
  BY <1>8 DEF vars, remote
<1>9. QED
  BY <1>1, <1>2, <1>3, <1>4, <1>5, <1>6, <1>7, <1>8 DEF Next

LEMMA HeardType ==
  ASSUME NEW r \in Rows, NEW a, AdapterOK, Heard(r, a)
  PROVE  /\ report' \in [created : Nat, existed : Nat, failed : SUBSET Rows]
         /\ report.failed \subseteq report'.failed
         /\ a.kind = "refused" => r \in report'.failed
<1> DEFINE e == IF a.kind = "duplicate" THEN report.existed + 1 ELSE report.existed
           n == IF a.kind = "created" THEN report.created + 1 ELSE report.created
           f == IF a.kind = "refused" THEN report.failed \cup {r} ELSE report.failed
<1>1. e \in Nat /\ n \in Nat /\ f \in SUBSET Rows
  BY DEF AdapterOK
<1>2. /\ report.failed \subseteq f
      /\ a.kind = "refused" => r \in f
  OBVIOUS
<1>3. report' = [report EXCEPT !.existed = e, !.created = n, !.failed = f]
  BY DEF Heard
<1> HIDE DEF e, n, f
<1>4. QED
  BY <1>1, <1>2, <1>3 DEF AdapterOK

LEMMA AdapterStep == ASSUME IInv, [Next]_vars PROVE AdapterOK'
<1> USE DEF IInv, AdapterOK
<1>1. CASE StartIngest
  <2>1. corpus' \in 1 .. Len(Corpora) /\ Corpora[corpus'] \in Seq(Rows)
    BY <1>1, AdapterAssumption DEF StartIngest
  <2>2. CASE rows' = Corpora[corpus'] /\ report' = Nobody
    BY <2>1, <2>2 DEF Nobody
  <2>3. CASE rows' = <<>> /\ report' = [Nobody EXCEPT !.failed = Range(Corpora[corpus'])]
    <3>1. Range(Corpora[corpus']) \subseteq Rows
      BY <2>1 DEF Range
    <3>2. QED
      BY <2>1, <2>3, <3>1 DEF Nobody
  <2>4. QED
    BY <1>1, <2>2, <2>3 DEF StartIngest, Opened
<1>2. CASE SkipBlank
  BY <1>2 DEF SkipBlank
<1>3. CASE Remember \/ Query \/ Send \/ ServerDies
  BY <1>3 DEF Remember, Query, Send, ServerDies, adapter
<1>4. CASE Answered
  <2>1. CASE asked[call] = Recall
    BY <1>4, <2>1 DEF Answered
  <2>2. CASE asked[call] # Recall
    <3>1. asked[call].row \in Rows /\ rows # <<>>
      BY <1>4, <2>2, AskedRow DEF Answered, Remote!Return, CallsOK, Known
    <3>2. report' \in [created : Nat, existed : Nat, failed : SUBSET Rows]
      BY <1>4, <2>2, <3>1, HeardType DEF Answered
    <3>3. rows' = Tail(rows) /\ corpus' = corpus
      BY <1>4, <2>2 DEF Answered
    <3>4. QED
      BY <3>1, <3>2, <3>3
  <2>3. QED
    BY <2>1, <2>2
<1>5. CASE Failed
  <2>1. CASE asked[call] = Recall
    BY <1>5, <2>1 DEF Failed
  <2>2. CASE asked[call] # Recall
    <3>1. asked[call].row \in Rows /\ rows # <<>>
      BY <1>5, <2>2, AskedRow DEF Failed, Remote!Raise, CallsOK, Known
    <3>2. QED
      BY <1>5, <2>2, <3>1 DEF Failed
  <2>3. QED
    BY <2>1, <2>2
<1>6. ASSUME NEW c \in pending, Serve(c) PROVE AdapterOK'
  BY <1>6 DEF Serve, adapter
<1>7. CASE UNCHANGED vars
  BY <1>7 DEF vars, adapter
<1>8. QED
  BY <1>1, <1>2, <1>3, <1>4, <1>5, <1>6, <1>7 DEF Next

(* What a step of the server does to the store: nothing, or one memory more. *)
Added(c, m) ==
  /\ asked[c] # Recall
  /\ m.row = asked[c].row /\ m.corpus = asked[c].corpus /\ m.text = TextOf[m.row]
  /\ m.id = Cardinality(store) + 1
  /\ store' = store \cup {m}
  /\ answer'[c].kind = "created" /\ answer'[c].id = m.id

LEMMA Served ==
  ASSUME CallsOK, NEW c \in pending, Serve(c)
  PROVE  /\ UNCHANGED <<call, busy, asked, corpus, rows, idMap, report, wiped>>
         /\ c \in 1 .. call /\ c \notin done
         /\ pending' = pending \ {c} /\ done' = done \cup {c}
         /\ \A i \in done : answer'[i] = answer[i]
         /\ \/ /\ UNCHANGED store /\ answer'[c].kind # "created"
               /\ asked[c] # Recall => answer'[c].kind \in {"duplicate", "refused"}
               /\ answer'[c].kind = "duplicate" =>
                    \E m \in store : m.text = TextOf[asked[c].row]
            \/ \E m : Added(c, m)
<1>1. /\ UNCHANGED <<call, busy, asked, corpus, rows, idMap, report, wiped>>
      /\ c \in 1 .. call /\ c \notin done
      /\ pending' = pending \ {c} /\ done' = done \cup {c}
  BY DEF Serve, CallsOK, Remote!Execute, adapter
<1> DEFINE r == asked[c].row
           new == [id |-> Cardinality(store) + 1, text |-> TextOf[r],
                   row |-> r, corpus |-> asked[c].corpus]
           dup == \E m \in store : m.text = TextOf[r]
           reply(a) == answer' = [i \in done' |-> IF i = c THEN a ELSE answer[i]]
<1>2. ASSUME NEW a, reply(a)
      PROVE  answer'[c] = a /\ \A i \in done : answer'[i] = answer[i]
  BY <1>1, <1>2
<1>3. \/ /\ UNCHANGED store
         /\ reply([kind |-> "refused"]) \/ (asked[c] = Recall /\ reply([kind |-> "context"]))
      \/ UNCHANGED store /\ dup /\ reply([kind |-> "duplicate"])
      \/ /\ asked[c] # Recall /\ store' = store \cup {new}
         /\ reply([kind |-> "created", id |-> new.id])
  <2>1. CASE /\ asked[c] # Recall
             /\ store' = IF dup THEN store ELSE store \cup {new}
             /\ answer' = [i \in done' |->
                  IF i # c THEN answer[i]
                  ELSE IF dup THEN [kind |-> "duplicate"]
                       ELSE [kind |-> "created", id |-> new.id]]
    <3>1. CASE dup
      <4>1. reply([kind |-> "duplicate"])
        BY <2>1, <3>1
      <4>2. QED
        BY <2>1, <3>1, <4>1
    <3>2. CASE ~dup
      <4>1. reply([kind |-> "created", id |-> new.id])
        BY <2>1, <3>2
      <4>2. QED
        BY <2>1, <3>2, <4>1
    <3>3. QED
      BY <3>1, <3>2
  <2>2. QED
    BY <2>1 DEF Serve
<1> HIDE DEF reply
<1>4. CASE \/ /\ UNCHANGED store
              /\ reply([kind |-> "refused"]) \/ (asked[c] = Recall /\ reply([kind |-> "context"]))
           \/ UNCHANGED store /\ dup /\ reply([kind |-> "duplicate"])
  BY <1>1, <1>2, <1>4
<1>5. CASE /\ asked[c] # Recall /\ store' = store \cup {new}
           /\ reply([kind |-> "created", id |-> new.id])
  <2>1. Added(c, new)
    BY <1>2, <1>5 DEF Added
  <2>2. QED
    BY <1>1, <1>2, <1>5, <2>1
<1>6. QED
  BY <1>3, <1>4, <1>5

LEMMA StoreStep == ASSUME IInv, [Next]_vars PROVE StoreOK'
<1> USE DEF IInv
<1>1. CASE StartIngest
  <2>1. corpus \in Nat /\ corpus' = corpus + 1 /\ idMap' = <<>>
    BY <1>1 DEF AdapterOK, StartIngest
  <2>2. CASE store' = {}
    BY <2>1, <2>2, FS_EmptySet DEF StoreOK
  <2>3. CASE store' = store
    BY <2>1, <2>3 DEF StoreOK
  <2>4. QED
    BY <1>1, <2>2, <2>3 DEF StartIngest, Wipe
<1>2. CASE SkipBlank \/ Remember \/ Query \/ Send \/ Failed \/ ServerDies
  <2>1. UNCHANGED <<store, idMap, corpus>>
    BY <1>2 DEF SkipBlank, Remember, Query, Send, Failed, ServerDies, adapter
  <2>2. QED
    BY <2>1 DEF StoreOK
<1>3. CASE Answered
  <2>1. UNCHANGED <<store, corpus>>
    BY <1>3 DEF Answered
  <2>2. CASE asked[call] = Recall \/ answer[call].kind # "created"
    BY <1>3, <2>1, <2>2 DEF Answered, Mapped, StoreOK
  <2>3. CASE asked[call] # Recall /\ answer[call].kind = "created"
    <3>1. PICK m \in store : m.id = answer[call].id /\ m.row = asked[call].row
      BY <1>3, <2>3 DEF Answered, Remote!Return, Known
    <3>2. idMap' = [i \in DOMAIN idMap \cup {m.id} |-> IF i = m.id THEN m.row ELSE idMap[i]]
      BY <1>3, <2>3, <3>1 DEF Answered, Mapped
    <3>3. QED
      BY <2>1, <3>1, <3>2 DEF StoreOK
  <2>4. QED
    BY <2>2, <2>3
<1>4. ASSUME NEW c \in pending, Serve(c) PROVE StoreOK'
  <2>1. UNCHANGED <<corpus, idMap>>
    BY <1>4, Served
  <2>2. CASE UNCHANGED store
    BY <2>1, <2>2 DEF StoreOK
  <2>3. ASSUME NEW m, Added(c, m) PROVE StoreOK'
    <3>1. Cardinality(store) \in Nat
      BY FS_CardinalityType DEF StoreOK
    <3>2. m \notin store
      BY <2>3, <3>1 DEF Added, StoreOK
    <3>3. IsFiniteSet(store') /\ Cardinality(store') = Cardinality(store) + 1
      BY <2>3, <3>2, FS_AddElement DEF Added, StoreOK
    <3>4. m.corpus = corpus /\ corpus \in Nat
      BY <2>3 DEF Added, LiveCalls, CallsOK, AdapterOK
    <3> DEFINE n == Cardinality(store)
    <3>5. n \in Nat /\ Cardinality(store') = n + 1 /\ m.id = n + 1 /\ store' = store \cup {m}
      BY <2>3, <3>1, <3>3 DEF Added
    <3>6. /\ \A k \in store : k.id \in 1 .. n /\ k.corpus \in 0 .. corpus
          /\ \A k, l \in store : k.id = l.id => k = l
          /\ \A i \in DOMAIN idMap : i \in 1 .. n
          /\ \A k \in store : k.id \in DOMAIN idMap => idMap[k.id] = k.row
      BY DEF StoreOK
    <3> HIDE DEF n
    <3>7. \A k \in store' : k.id \in 1 .. (n + 1) /\ k.corpus \in 0 .. corpus
      BY <3>4, <3>5, <3>6
    <3>8. \A k, l \in store' : k.id = l.id => k = l
      BY <3>5, <3>6
    <3>9. /\ \A i \in DOMAIN idMap : i \in 1 .. (n + 1)
          /\ \A k \in store' : k.id \in DOMAIN idMap => idMap[k.id] = k.row
      BY <3>5, <3>6
    <3>10. QED
      BY <2>1, <3>3, <3>5, <3>7, <3>8, <3>9 DEF StoreOK
  <2>4. QED
    BY <1>4, <2>2, <2>3, Served
<1>5. CASE UNCHANGED vars
  BY <1>5 DEF vars, adapter, StoreOK
<1>6. QED
  BY <1>1, <1>2, <1>3, <1>4, <1>5 DEF Next

(* The steps of the client that name or report a row. *)

LEMMA Asking ==
  ASSUME CallsOK, NEW a \in Asks, Remote!Invoke, asked' = Append(asked, a)
  PROVE  /\ ~busy /\ busy' = TRUE /\ call' = call + 1 /\ call \in Nat
         /\ UNCHANGED <<pending, done>>
         /\ call' \notin pending /\ call' \notin done
         /\ asked'[call'] = a
         /\ \A c \in 1 .. call : asked'[c] = asked[c]
         /\ \A c \in 1 .. call' : c \in 1 .. call \/ c = call'
BY DEF CallsOK, Remote!Invoke

LEMMA Answering ==
  ASSUME IInv, Answered, asked[call] # Recall
  PROVE  /\ asked[call].row \in Rows
         /\ report.failed \subseteq report'.failed
         /\ DOMAIN idMap \subseteq DOMAIN idMap'
         /\ answer[call].kind = "created" => answer[call].id \in DOMAIN idMap'
<1>1. asked[call].row \in Rows
  BY AskedRow DEF IInv, CallsOK, Answered, Remote!Return
<1>2. report.failed \subseteq report'.failed
  BY <1>1, HeardType DEF Answered, IInv
<1>3. QED
  BY <1>1, <1>2 DEF Answered, Mapped

LEMMA Failing ==
  ASSUME IInv, Failed, asked[call] # Recall
  PROVE  /\ report'.failed = report.failed \cup {asked[call].row}
         /\ UNCHANGED <<corpus, idMap, store, asked, answer>>
BY DEF Failed, IInv, AdapterOK

LEMMA LiveStep == ASSUME IInv, [Next]_vars PROVE LiveCalls'
<1> USE DEF IInv, LiveCalls
<1>1. CASE StartIngest
  <2>1. pending' = {} /\ busy' = FALSE
    BY <1>1 DEF StartIngest, Remote!Lose, CallsOK
  <2>2. QED
    BY <2>1
<1>2. CASE SkipBlank
  BY <1>2 DEF SkipBlank, remote
<1>3. CASE Remember
  <2> DEFINE a == [what |-> "remember", row |-> Head(rows), corpus |-> corpus]
  <2>1. a \in Asks /\ a.corpus = corpus
    BY <1>3 DEF Remember, AdapterOK, Asks
  <2>2. UNCHANGED <<corpus, report>> /\ Remote!Invoke /\ asked' = Append(asked, a)
    BY <1>3 DEF Remember, adapter
  <2> HIDE DEF a
  <2>3. ASSUME NEW c \in 1 .. call', asked'[c] # Recall, c \in pending' \/ (busy' /\ c = call')
        PROVE  /\ asked'[c].corpus = corpus'
               /\ c \in pending' => asked'[c].row \in report'.failed
    <3>1. CASE c = call'
      BY <2>1, <2>2, <2>3, <3>1, Asking
    <3>2. CASE c \in 1 .. call /\ c # call'
      BY <2>1, <2>2, <2>3, <3>2, Asking
    <3>3. QED
      BY <2>1, <2>2, <3>1, <3>2, Asking
  <2>4. QED
    BY <2>3
<1>4. CASE Query
  <2>1. Recall \in Asks
    BY DEF Asks
  <2>2. UNCHANGED <<corpus, report>> /\ Remote!Invoke /\ asked' = Append(asked, Recall)
    BY <1>4 DEF Query, adapter
  <2>3. ASSUME NEW c \in 1 .. call', asked'[c] # Recall, c \in pending' \/ (busy' /\ c = call')
        PROVE  /\ asked'[c].corpus = corpus'
               /\ c \in pending' => asked'[c].row \in report'.failed
    <3>1. CASE c = call'
      BY <2>1, <2>2, <2>3, <3>1, Asking
    <3>2. CASE c \in 1 .. call /\ c # call'
      BY <2>1, <2>2, <2>3, <3>2, Asking
    <3>3. QED
      BY <2>1, <2>2, <3>1, <3>2, Asking
  <2>4. QED
    BY <2>3
<1>5. CASE Send
  BY <1>5 DEF Send, Remote!Send, adapter
<1>6. CASE Answered
  <2>1. /\ busy' = FALSE /\ call \in done
        /\ UNCHANGED <<call, pending, done, asked, corpus>>
    BY <1>6 DEF Answered, Remote!Return
  <2>2. report.failed \subseteq report'.failed
    BY <1>6, Answering DEF Answered
  <2>3. QED
    BY <2>1, <2>2 DEF CallsOK
<1>7. CASE Failed
  <2>1. busy' = FALSE /\ UNCHANGED <<call, pending, done, asked, corpus>>
    BY <1>7 DEF Failed, Remote!Raise
  <2>2. /\ report.failed \subseteq report'.failed
        /\ asked[call] # Recall => asked[call].row \in report'.failed
    BY <1>7, Failing DEF Failed
  <2>3. QED
    BY <2>1, <2>2
<1>8. ASSUME NEW c \in pending, Serve(c) PROVE LiveCalls'
  BY <1>8, Served
<1>9. CASE ServerDies
  <2>1. pending' = {} /\ UNCHANGED <<call, busy, asked, corpus, report>>
    BY <1>9 DEF ServerDies, Remote!Lose, adapter
  <2>2. QED
    BY <2>1
<1>10. CASE UNCHANGED vars
  BY <1>10 DEF vars, remote, adapter
<1>11. QED
  BY <1>1, <1>2, <1>3, <1>4, <1>5, <1>6, <1>7, <1>8, <1>9, <1>10 DEF Next

(* While the client asks, no answer is about to be read. *)
LEMMA KnownAsking ==
  ASSUME IInv, NEW a \in Asks, Remote!Invoke, asked' = Append(asked, a),
         a # Recall => rows # <<>>,
         UNCHANGED <<store, idMap, report, corpus, rows>>
  PROVE  Known'
<1>1. /\ ~busy /\ call' \notin done' /\ asked'[call'] = a
  BY Asking DEF IInv
<1>2. \A m \in store :
        m.corpus = corpus => m.id \in DOMAIN idMap \/ m.row \in report.failed
  BY <1>1 DEF IInv, Known, Created
<1>3. QED
  BY <1>1, <1>2 DEF Known

LEMMA KnownStep == ASSUME IInv, [Next]_vars PROVE Known'
<1> USE DEF IInv
<1>1. CASE StartIngest
  <2>1. busy' = FALSE
    BY <1>1 DEF StartIngest, Remote!Lose, CallsOK
  <2>2. \A m \in store' : m.corpus # corpus'
    <3>1. corpus' = corpus + 1 /\ (store' = {} \/ store' = store)
      BY <1>1 DEF StartIngest, Wipe
    <3>2. QED
      BY <3>1 DEF StoreOK, AdapterOK
  <2>3. QED
    BY <2>1, <2>2 DEF Known
<1>2. CASE SkipBlank
  BY <1>2 DEF SkipBlank, remote, Known, Created
<1>3. CASE Remember
  <2> DEFINE a == [what |-> "remember", row |-> Head(rows), corpus |-> corpus]
  <2>1. a \in Asks
    BY <1>3 DEF Remember, AdapterOK, Asks
  <2>2. /\ UNCHANGED <<store, idMap, report, corpus, rows>> /\ rows # <<>>
        /\ Remote!Invoke /\ asked' = Append(asked, a)
    BY <1>3 DEF Remember, adapter
  <2> HIDE DEF a
  <2>3. QED
    BY <2>1, <2>2, KnownAsking
<1>4. CASE Query
  <2>1. Recall \in Asks
    BY DEF Asks
  <2>2. /\ UNCHANGED <<store, idMap, report, corpus, rows>>
        /\ Remote!Invoke /\ asked' = Append(asked, Recall)
    BY <1>4 DEF Query, adapter
  <2>3. QED
    BY <2>1, <2>2, KnownAsking
<1>5. CASE Send \/ ServerDies
  BY <1>5 DEF Send, ServerDies, Remote!Send, Remote!Lose, adapter, Known, Created
<1>6. CASE Answered
  <2>1. busy' = FALSE /\ UNCHANGED <<store, corpus>>
    BY <1>6 DEF Answered, Remote!Return
  <2>2. ASSUME NEW m \in store, m.corpus = corpus
        PROVE  m.id \in DOMAIN idMap' \/ m.row \in report'.failed
    <3>1. m.id \in DOMAIN idMap \/ m.row \in report.failed \/ Created(m.id)
      BY <2>2 DEF Known
    <3>2. CASE asked[call] = Recall
      BY <1>6, <3>1, <3>2 DEF Answered, Created
    <3>3. CASE asked[call] # Recall
      BY <1>6, <3>1, <3>3, Answering DEF Created
    <3>4. QED
      BY <3>2, <3>3
  <2>3. QED
    BY <2>1, <2>2 DEF Known
<1>7. CASE Failed
  <2>1. busy' = FALSE /\ UNCHANGED <<store, corpus, idMap>>
    BY <1>7 DEF Failed, Remote!Raise
  <2>2. ASSUME NEW m \in store, m.corpus = corpus
        PROVE  m.id \in DOMAIN idMap' \/ m.row \in report'.failed
    <3>1. m.id \in DOMAIN idMap \/ m.row \in report.failed \/ Created(m.id)
      BY <2>2 DEF Known
    <3>2. CASE asked[call] = Recall
      BY <1>7, <2>1, <3>1, <3>2 DEF Failed, Created
    <3>3. CASE asked[call] # Recall
      <4>1. Created(m.id) => m.row = asked[call].row
        BY DEF Created, Known, StoreOK
      <4>2. QED
        BY <1>7, <2>1, <3>1, <3>3, <4>1, Failing
    <3>4. QED
      BY <3>2, <3>3
  <2>3. QED
    BY <2>1, <2>2 DEF Known
<1>8. ASSUME NEW c \in pending, Serve(c) PROVE Known'
  <2>1. /\ UNCHANGED <<call, busy, asked, corpus, rows, idMap, report>>
        /\ c \in 1 .. call /\ c \notin done /\ done' = done \cup {c}
        /\ \A i \in done : answer'[i] = answer[i]
    BY <1>8, Served
  <2>2. \A i : Created(i) => Created(i)'
    BY <2>1 DEF Created
  <2>3. \A m \in store :
          m.corpus = corpus =>
            m.id \in DOMAIN idMap \/ m.row \in report.failed \/ Created(m.id)'
    BY <2>2 DEF Known
  <2>4. CASE UNCHANGED store /\ answer'[c].kind # "created"
    BY <2>1, <2>3, <2>4 DEF Known
  <2>5. ASSUME NEW m, Added(c, m) PROVE Known'
    <3>1. m \in store' /\ store' = store \cup {m} /\ m.row = asked[c].row
      BY <2>5 DEF Added
    <3>2. m.row \in report.failed \/ Created(m.id)'
      BY <2>1, <2>5 DEF Added, LiveCalls, Created
    <3>3. busy /\ call \in done' /\ asked[call] # Recall /\ answer'[call].kind = "created" =>
            \E k \in store' : k.id = answer'[call].id /\ k.row = asked[call].row
      BY <2>1, <2>5, <3>1 DEF Added, Known
    <3>4. QED
      BY <2>1, <2>3, <3>1, <3>2, <3>3 DEF Known
  <2>6. QED
    BY <1>8, <2>4, <2>5, Served
<1>9. CASE UNCHANGED vars
  BY <1>9 DEF vars, remote, adapter, Known, Created
<1>10. QED
  BY <1>1, <1>2, <1>3, <1>4, <1>5, <1>6, <1>7, <1>8, <1>9 DEF Next

LEMMA IsolationStep == ASSUME IInv, [Next]_vars PROVE Isolation'
<1> USE DEF IInv, Isolation
<1>1. CASE StartIngest
  <2>1. \/ store' = {}
        \/ store' = store /\ wiped' = (store = {})
    BY <1>1 DEF StartIngest, Wipe
  <2>2. QED
    BY <2>1
<1>2. CASE SkipBlank \/ Remember \/ Query \/ Send \/ Answered \/ Failed \/ ServerDies
  BY <1>2 DEF SkipBlank, Remember, Query, Send, Answered, Failed, ServerDies, adapter
<1>3. ASSUME NEW c \in pending, Serve(c) PROVE Isolation'
  <2>1. UNCHANGED <<wiped, corpus>> /\ c \in 1 .. call
    BY <1>3, Served
  <2>2. ASSUME NEW m, Added(c, m) PROVE m.corpus = corpus /\ store' = store \cup {m}
    BY <2>1, <2>2 DEF Added, LiveCalls
  <2>3. QED
    BY <1>3, <2>1, <2>2, Served
<1>4. CASE UNCHANGED vars
  BY <1>4 DEF vars, adapter
<1>5. QED
  BY <1>1, <1>2, <1>3, <1>4 DEF Next

LEMMA Invariance == Spec => []IInv
<1>1. ASSUME IInv, [Next]_vars PROVE IInv'
  BY <1>1, CallsStep, AdapterStep, StoreStep, LiveStep, KnownStep, IsolationStep DEF IInv
<1>2. QED
  BY Initially, <1>1, PTL DEF Spec

-----------------------------------------------------------------------------
(* What the report of an ingest is worth.                                  *)

Got  == Len(Ingested) - Len(rows)
Past == {Ingested[j] : j \in 1 .. Got}

(* The rows left are the rest of the corpus, and the row asked for is next. *)
PlaceOK ==
  /\ Ingested \in Seq(Rows)
  /\ Got \in Nat
  /\ \A i \in 1 .. Len(rows) : rows[i] = Ingested[Got + i]
  /\ busy /\ asked[call] # Recall =>
       asked[call].row = Head(rows) /\ TextOf[Head(rows)] # Blank

(* Where the memories of the current corpus come from, and will come from:  *)
(* the rows behind, and the one the client is at.                          *)
SourcesOK ==
  /\ \A m \in store : m.text = TextOf[m.row] /\ m.text # Blank
  /\ \A m \in store : m.corpus = corpus => m.row \in Past \/ Created(m.id)
  /\ \A c \in pending : asked[c] # Recall =>
       TextOf[asked[c].row] # Blank /\ (asked[c].row \in Past \/ (busy /\ c = call))

Named      == {m \in store : m.id \in DOMAIN idMap}
Stored(r)  == \E m \in store : m.text = TextOf[r]
Waiting(K) == busy /\ call \in done /\ asked[call] # Recall /\ answer[call].kind \in K

CountsOK ==
  /\ report.created = Cardinality(Named)
  /\ \A i \in DOMAIN idMap : ~Created(i)

RowsOK ==
  /\ busy /\ call \in done /\ asked[call] # Recall => Waiting({"created", "duplicate", "refused"})
  /\ Waiting({"created", "duplicate"}) => Stored(asked[call].row)
  /\ \A j \in 1 .. Got : \/ TextOf[Ingested[j]] = Blank
                         \/ Ingested[j] \in report.failed
                         \/ Stored(Ingested[j])

UnlikeOK == wiped /\ Unlike(Ingested) => report.existed = 0 /\ ~Waiting({"duplicate"})

AddsUp == PlaceOK /\ SourcesOK /\ CountsOK /\ RowsOK /\ UnlikeOK

(* What the steps leave of what these are about. *)
Quiet == UNCHANGED <<corpus, rows, idMap, report, wiped, store, Got, Ingested, Past>>

LEMMA StaysQuiet ==
  ASSUME UNCHANGED <<corpus, rows, idMap, report, wiped, store>>
  PROVE  Quiet
BY DEF Quiet, Got, Ingested, Past

(* The next row. *)
LEMMA GoesOn ==
  ASSUME PlaceOK, rows \in Seq(Rows), rows # <<>>, rows' = Tail(rows), UNCHANGED corpus
  PROVE  /\ Ingested' = Ingested /\ Got' = Got + 1 /\ Got \in Nat
         /\ Ingested[Got + 1] = Head(rows)
         /\ \A i \in 1 .. Len(rows') : rows'[i] = Ingested[Got' + i]
         /\ Past' = Past \cup {Head(rows)}
<1> DEFINE n == Len(rows)
           g == Got
<1>1. /\ n \in Nat \ {0} /\ 1 \in 1 .. n /\ Head(rows) = rows[1]
      /\ Len(rows') = n - 1 /\ \A i \in 1 .. (n - 1) : rows'[i] = rows[i + 1] /\ i + 1 \in 1 .. n
  OBVIOUS
<1>2. Ingested' = Ingested
  BY DEF Ingested
<1>3. g \in Nat /\ Len(Ingested) \in Nat /\ g = Len(Ingested) - n
      /\ \A i \in 1 .. n : rows[i] = Ingested[g + i]
  BY DEF PlaceOK, Got
<1>4. Got' = Len(Ingested) - (n - 1)
  BY <1>1, <1>2 DEF Got
<1>5. Got' = g + 1
  BY <1>1, <1>3, <1>4
<1> HIDE DEF n, g
<1>6. \A i \in 1 .. (n - 1) : rows'[i] = Ingested[(g + 1) + i]
  <2> TAKE i \in 1 .. (n - 1)
  <2>1. g + (i + 1) = (g + 1) + i
    BY <1>1, <1>3
  <2>2. QED
    BY <1>1, <1>3, <2>1
<1>7. Ingested[g + 1] = Head(rows)
  BY <1>1, <1>3
<1>8. \A j : j \in 1 .. (g + 1) <=> j \in 1 .. g \/ j = g + 1
  BY <1>3
<1>9. \A r : r \in Past <=> \E j \in 1 .. g : Ingested[j] = r
  BY DEF Past, g
<1>10. \A r : r \in Past' <=> \E j \in 1 .. (g + 1) : Ingested[j] = r
  BY <1>2, <1>5 DEF Past
<1>11. Past' = Past \cup {Head(rows)}
  BY <1>7, <1>8, <1>9, <1>10
<1>12. QED
  BY <1>1, <1>2, <1>3, <1>5, <1>6, <1>7, <1>11 DEF g

(* The start of an ingest: of the rows behind, none without a transport,   *)
(* all are reported.                                                       *)
LEMMA StartsOver ==
  ASSUME IInv, StartIngest
  PROVE  /\ Ingested' \in Seq(Rows) /\ Got' \in Nat
         /\ \A i \in 1 .. Len(rows') : rows'[i] = Ingested'[Got' + i]
         /\ \A j \in 1 .. Got' : Ingested'[j] \in report'.failed
         /\ report'.created = 0 /\ report'.existed = 0
         /\ idMap' = <<>> /\ ~busy' /\ pending' = {}
         /\ \A m \in store' : m \in store /\ m.corpus # corpus'
<1> DEFINE c == Corpora[corpus']
<1>1. /\ corpus' \in 1 .. Len(Corpora) /\ corpus' = corpus + 1
      /\ \/ rows' = c /\ report' = Nobody
         \/ rows' = <<>> /\ report' = [Nobody EXCEPT !.failed = Range(c)]
  BY AdapterAssumption DEF StartIngest, Opened, IInv, AdapterOK
<1>2. c \in Seq(Rows) /\ Ingested' = c
  BY <1>1, AdapterAssumption DEF Ingested
<1> HIDE DEF c
<1>3. report'.created = 0 /\ report'.existed = 0
  BY <1>1 DEF Nobody
<1>4. /\ Got' \in Nat
      /\ \A i \in 1 .. Len(rows') : rows'[i] = Ingested'[Got' + i]
      /\ \A j \in 1 .. Got' : Ingested'[j] \in report'.failed
  <2>1. CASE rows' = c
    <3>1. Got' = 0
      BY <1>2, <2>1 DEF Got
    <3>2. QED
      BY <1>2, <2>1, <3>1
  <2>2. CASE rows' = <<>> /\ report' = [Nobody EXCEPT !.failed = Range(c)]
    <3>1. Got' = Len(c) /\ Len(rows') = 0
      BY <1>2, <2>2 DEF Got
    <3>2. report'.failed = Range(c)
      BY <2>2 DEF Nobody
    <3>3. \A j \in 1 .. Len(c) : c[j] \in Range(c)
      BY <1>2 DEF Range
    <3>4. QED
      BY <1>2, <3>1, <3>2, <3>3
  <2>3. QED
    BY <1>1, <2>1, <2>2
<1>5. idMap' = <<>> /\ ~busy' /\ pending' = {}
  BY DEF StartIngest, Remote!Lose
<1>6. \A m \in store' : m \in store
  BY DEF StartIngest, Wipe
<1>7. \A m \in store : m.corpus # corpus'
  BY <1>1 DEF IInv, StoreOK, AdapterOK
<1>8. QED
  BY <1>2, <1>3, <1>4, <1>5, <1>6, <1>7

(* A row whose call is over. *)
LEMMA RowOver ==
  ASSUME IInv, Answered \/ Failed, asked[call] # Recall
  PROVE  rows # <<>> /\ rows \in Seq(Rows) /\ rows' = Tail(rows) /\ UNCHANGED corpus /\ ~busy'
BY DEF IInv, Known, AdapterOK, Answered, Failed, Remote!Return, Remote!Raise

LEMMA AddsInitially == Init => AddsUp
<1> SUFFICES ASSUME Init PROVE AddsUp
  OBVIOUS
<1>1. /\ store = {} /\ pending = {} /\ busy = FALSE /\ idMap = <<>> /\ report = Nobody
      /\ Ingested = <<>> /\ rows = <<>>
  BY DEF Init, Remote!Init, Ingested
<1>2. <<>> \in Seq(Rows) /\ Len(<<>>) = 0
  OBVIOUS
<1>3. Got = 0
  BY <1>1, <1>2 DEF Got
<1>4. Named = {}
  BY <1>1 DEF Named
<1>5. Cardinality(Named) = 0
  BY <1>4, FS_EmptySet
<1>6. PlaceOK /\ SourcesOK /\ RowsOK /\ UnlikeOK
  BY <1>1, <1>2, <1>3 DEF PlaceOK, SourcesOK, RowsOK, UnlikeOK, Waiting, Nobody
<1>7. CountsOK
  BY <1>1, <1>5 DEF CountsOK, Nobody, Created
<1>8. QED
  BY <1>6, <1>7 DEF AddsUp

LEMMA PlaceStep == ASSUME IInv, PlaceOK, [Next]_vars PROVE PlaceOK'
<1>1. CASE StartIngest
  BY <1>1, StartsOver DEF PlaceOK
<1>2. CASE SkipBlank
  <2>1. /\ rows # <<>> /\ rows \in Seq(Rows) /\ rows' = Tail(rows)
        /\ UNCHANGED <<corpus, busy>> /\ ~busy
    BY <1>2 DEF SkipBlank, IInv, AdapterOK, remote
  <2>2. QED
    BY <2>1, GoesOn DEF PlaceOK
<1>3. CASE Remember
  <2> DEFINE a == [what |-> "remember", row |-> Head(rows), corpus |-> corpus]
  <2>1. a \in Asks /\ a.row = Head(rows)
    BY <1>3 DEF Remember, IInv, AdapterOK, Asks
  <2>2. /\ Remote!Invoke /\ asked' = Append(asked, a) /\ TextOf[Head(rows)] # Blank
        /\ UNCHANGED <<corpus, rows, idMap, report, wiped, store>>
    BY <1>3 DEF Remember, adapter
  <2> HIDE DEF a
  <2>3. asked'[call'] = a /\ Quiet
    BY <2>1, <2>2, Asking, StaysQuiet DEF IInv
  <2>4. QED
    BY <2>1, <2>2, <2>3 DEF PlaceOK, Quiet
<1>4. CASE Query
  <2>1. Recall \in Asks /\ Remote!Invoke /\ asked' = Append(asked, Recall)
        /\ UNCHANGED <<corpus, rows, idMap, report, wiped, store>>
    BY <1>4 DEF Query, adapter, Asks
  <2>2. asked'[call'] = Recall /\ Quiet
    BY <2>1, Asking, StaysQuiet DEF IInv
  <2>3. QED
    BY <2>2 DEF PlaceOK, Quiet
<1>5. CASE Send \/ ServerDies
  BY <1>5 DEF Send, ServerDies, Remote!Send, Remote!Lose, adapter, PlaceOK, Got, Ingested
<1>6. CASE Answered \/ Failed
  <2>1. CASE asked[call] = Recall
    <3>1. UNCHANGED <<corpus, rows>> /\ ~busy'
      BY <1>6, <2>1 DEF Answered, Failed, Remote!Return, Remote!Raise
    <3>2. QED
      BY <3>1 DEF PlaceOK, Got, Ingested
  <2>2. CASE asked[call] # Recall
    BY <1>6, <2>2, RowOver, GoesOn DEF PlaceOK
  <2>3. QED
    BY <2>1, <2>2
<1>7. ASSUME NEW c \in pending, Serve(c) PROVE PlaceOK'
  <2>1. UNCHANGED <<call, busy, asked, corpus, rows>>
    BY <1>7, Served DEF IInv
  <2>2. QED
    BY <2>1 DEF PlaceOK, Got, Ingested
<1>8. CASE UNCHANGED vars
  BY <1>8 DEF vars, remote, adapter, PlaceOK, Got, Ingested
<1>9. QED
  BY <1>1, <1>2, <1>3, <1>4, <1>5, <1>6, <1>7, <1>8 DEF Next

(* While the client asks, no answer is about to be read. *)
LEMMA AddsAsking ==
  ASSUME IInv, AddsUp, NEW a \in Asks, Remote!Invoke, asked' = Append(asked, a),
         UNCHANGED <<corpus, rows, idMap, report, wiped, store>>
  PROVE  SourcesOK' /\ CountsOK' /\ RowsOK' /\ UnlikeOK'
<1>1. /\ ~busy /\ call' \notin done' /\ UNCHANGED pending
      /\ \A c \in pending : c \in 1 .. call /\ asked'[c] = asked[c]
  BY Asking DEF IInv, CallsOK
<1>2. Quiet
  BY StaysQuiet
<1>3. \A i : ~Created(i) /\ ~Created(i)'
  BY <1>1 DEF Created
<1>4. \A K : ~Waiting(K) /\ ~Waiting(K)'
  BY <1>1 DEF Waiting
<1>5. SourcesOK'
  BY <1>1, <1>2, <1>3 DEF AddsUp, SourcesOK, Quiet
<1>6. CountsOK'
  BY <1>2, <1>3 DEF AddsUp, CountsOK, Named, Quiet
<1>7. RowsOK'
  BY <1>1, <1>2, <1>4 DEF AddsUp, RowsOK, Stored, Quiet
<1>8. UnlikeOK'
  BY <1>2, <1>4 DEF AddsUp, UnlikeOK, Unlike, Quiet
<1>9. QED
  BY <1>5, <1>6, <1>7, <1>8

LEMMA AddsAskingSteps ==
  ASSUME IInv, AddsUp, Remember \/ Query
  PROVE  SourcesOK' /\ CountsOK' /\ RowsOK' /\ UnlikeOK'
<1>1. CASE Remember
  <2> DEFINE a == [what |-> "remember", row |-> Head(rows), corpus |-> corpus]
  <2>1. a \in Asks
    BY <1>1 DEF Remember, IInv, AdapterOK, Asks
  <2>2. /\ Remote!Invoke /\ asked' = Append(asked, a)
        /\ UNCHANGED <<corpus, rows, idMap, report, wiped, store>>
    BY <1>1 DEF Remember, adapter
  <2> HIDE DEF a
  <2>3. QED
    BY <2>1, <2>2, AddsAsking
<1>2. CASE Query
  <2>1. /\ Recall \in Asks /\ Remote!Invoke /\ asked' = Append(asked, Recall)
        /\ UNCHANGED <<corpus, rows, idMap, report, wiped, store>>
    BY <1>2 DEF Query, adapter, Asks
  <2>2. QED
    BY <2>1, AddsAsking
<1>3. QED
  BY <1>1, <1>2

(* Steps that leave the answers, the report and the store alone. *)
LEMMA AddsIdle ==
  ASSUME AddsUp, UNCHANGED <<call, busy, done, asked, answer>>,
         UNCHANGED <<corpus, rows, idMap, report, wiped, store>>
  PROVE  CountsOK' /\ RowsOK' /\ UnlikeOK'
<1>1. Quiet
  BY StaysQuiet
<1>2. /\ \A i : Created(i)' <=> Created(i)
      /\ \A K : Waiting(K)' <=> Waiting(K)
  BY DEF Created, Waiting
<1>3. CountsOK'
  BY <1>1, <1>2 DEF AddsUp, CountsOK, Named, Quiet
<1>4. RowsOK'
  BY <1>1, <1>2 DEF AddsUp, RowsOK, Stored, Quiet
<1>5. UnlikeOK'
  BY <1>1, <1>2 DEF AddsUp, UnlikeOK, Unlike, Quiet
<1>6. QED
  BY <1>3, <1>4, <1>5

LEMMA SourcesStep == ASSUME IInv, AddsUp, [Next]_vars PROVE SourcesOK'
<1> USE DEF AddsUp
<1>1. CASE StartIngest
  <2>1. \A m \in store' : m \in store /\ m.corpus # corpus'
    BY <1>1, StartsOver
  <2>2. pending' = {}
    BY <1>1, StartsOver
  <2>3. QED
    BY <2>1, <2>2 DEF SourcesOK
<1>2. CASE SkipBlank
  <2>1. /\ rows # <<>> /\ rows \in Seq(Rows) /\ rows' = Tail(rows) /\ UNCHANGED corpus
        /\ UNCHANGED <<store, pending, asked, busy, call>> /\ ~busy
    BY <1>2 DEF SkipBlank, IInv, AdapterOK, remote
  <2>2. Past \subseteq Past'
    BY <2>1, GoesOn
  <2>3. QED
    BY <2>1, <2>2 DEF SourcesOK, Created
<1>3. CASE Remember \/ Query
  BY <1>3, AddsAskingSteps
<1>4. CASE Send
  <2>1. /\ UNCHANGED <<call, busy, done, asked, answer>> /\ pending' = pending \cup {call} /\ busy
        /\ UNCHANGED <<corpus, rows, idMap, report, wiped, store>>
    BY <1>4 DEF Send, Remote!Send, adapter
  <2>2. Quiet
    BY <2>1, StaysQuiet
  <2>3. \A i : Created(i)' <=> Created(i)
    BY <2>1 DEF Created
  <2>4. asked[call] # Recall => TextOf[asked[call].row] # Blank
    BY <2>1 DEF PlaceOK
  <2>5. QED
    BY <2>1, <2>2, <2>3, <2>4 DEF SourcesOK, Quiet
<1>5. CASE ServerDies
  <2>1. /\ UNCHANGED <<call, busy, done, asked, answer>> /\ pending' = {}
        /\ UNCHANGED <<corpus, rows, idMap, report, wiped, store>>
    BY <1>5 DEF ServerDies, Remote!Lose, adapter
  <2>2. Quiet
    BY <2>1, StaysQuiet
  <2>3. \A i : Created(i)' <=> Created(i)
    BY <2>1 DEF Created
  <2>4. QED
    BY <2>1, <2>2, <2>3 DEF SourcesOK, Quiet
<1>6. CASE Answered \/ Failed
  <2>1. /\ ~busy' /\ UNCHANGED <<call, pending, store, corpus, asked>>
    BY <1>6 DEF Answered, Failed, Remote!Return, Remote!Raise
  <2>2. CASE asked[call] = Recall
    <3>1. Past' = Past
      BY <1>6, <2>1, <2>2 DEF Answered, Failed, Past, Got, Ingested
    <3>2. \A i : ~Created(i)
      BY <2>2 DEF Created
    <3>3. QED
      BY <2>1, <2>2, <3>1, <3>2 DEF SourcesOK
  <2>3. CASE asked[call] # Recall
    <3>1. busy
      BY <1>6 DEF Answered, Failed, Remote!Return, Remote!Raise
    <3>2. asked[call].row = Head(rows)
      BY <2>3, <3>1 DEF PlaceOK
    <3>3. Past' = Past \cup {Head(rows)}
      BY <1>6, <2>3, RowOver, GoesOn
    <3>4. ASSUME NEW m \in store, Created(m.id) PROVE m.row = Head(rows)
      BY <3>2, <3>4 DEF Created, IInv, Known, StoreOK
    <3>5. \A m \in store : m.corpus = corpus => m.row \in Past'
      BY <3>3, <3>4 DEF SourcesOK
    <3>6. \A c \in pending : asked[c] # Recall =>
            TextOf[asked[c].row] # Blank /\ asked[c].row \in Past'
      BY <3>2, <3>3, <2>3 DEF SourcesOK
    <3>7. QED
      BY <2>1, <3>5, <3>6 DEF SourcesOK
  <2>4. QED
    BY <2>2, <2>3
<1>7. ASSUME NEW c \in pending, Serve(c) PROVE SourcesOK'
  <2>1. /\ UNCHANGED <<call, busy, asked, corpus, rows, idMap, report, wiped>>
        /\ c \in 1 .. call /\ c \notin done
        /\ pending' = pending \ {c} /\ done' = done \cup {c}
        /\ \A i \in done : answer'[i] = answer[i]
    BY <1>7, Served DEF IInv
  <2>2. Past' = Past
    BY <2>1 DEF Past, Got, Ingested
  <2>3. \A i : Created(i) => Created(i)'
    BY <2>1 DEF Created
  <2>4. \A d \in pending' : asked'[d] # Recall =>
          TextOf[asked'[d].row] # Blank /\ (asked'[d].row \in Past' \/ (busy' /\ d = call'))
    BY <2>1, <2>2 DEF SourcesOK
  <2>5. \A m \in store : /\ m.text = TextOf[m.row] /\ m.text # Blank
                         /\ m.corpus = corpus' => m.row \in Past' \/ Created(m.id)'
    BY <2>1, <2>2, <2>3 DEF SourcesOK
  <2>6. CASE UNCHANGED store
    BY <2>4, <2>5, <2>6 DEF SourcesOK
  <2>7. ASSUME NEW m, Added(c, m) PROVE SourcesOK'
    <3>1. store' = store \cup {m}
      BY <2>7 DEF Added
    <3>2. m.text = TextOf[m.row] /\ m.text # Blank
      BY <2>7 DEF Added, SourcesOK
    <3>3. m.row \in Past' \/ Created(m.id)'
      <4>1. CASE asked[c].row \in Past
        BY <2>2, <2>7, <4>1 DEF Added
      <4>2. CASE busy /\ c = call
        BY <2>1, <2>7, <4>2 DEF Added, Created
      <4>3. QED
        BY <2>7, <4>1, <4>2 DEF Added, SourcesOK
    <3>4. QED
      BY <2>4, <2>5, <3>1, <3>2, <3>3 DEF SourcesOK
  <2>8. QED
    BY <1>7, <2>6, <2>7, Served DEF IInv
<1>8. CASE UNCHANGED vars
  <2>1. /\ UNCHANGED <<call, busy, done, asked, answer, pending>>
        /\ UNCHANGED <<corpus, rows, idMap, report, wiped, store>>
    BY <1>8 DEF vars, remote, adapter
  <2>2. Quiet
    BY <2>1, StaysQuiet
  <2>3. \A i : Created(i)' <=> Created(i)
    BY <2>1 DEF Created
  <2>4. QED
    BY <2>1, <2>2, <2>3 DEF SourcesOK, Quiet
<1>9. QED
  BY <1>1, <1>2, <1>3, <1>4, <1>5, <1>6, <1>7, <1>8 DEF Next

(* What the server's step leaves of the answer the client waits for. *)
LEMMA AddsServed ==
  ASSUME IInv, NEW c \in pending, Serve(c)
  PROVE  /\ UNCHANGED <<call, busy, asked, corpus, rows, idMap, report, wiped, Got, Ingested>>
         /\ c \notin done /\ done' = done \cup {c} /\ store \subseteq store'
         /\ c # call => /\ \A i : Created(i)' <=> Created(i)
                        /\ \A K : Waiting(K)' <=> Waiting(K)
<1>1. /\ UNCHANGED <<call, busy, asked, corpus, rows, idMap, report, wiped>>
      /\ c \notin done /\ done' = done \cup {c}
      /\ \A i \in done : answer'[i] = answer[i]
  BY Served DEF IInv
<1>2. store \subseteq store'
  BY Served DEF IInv, Added
<1>3. c # call => /\ \A i : Created(i)' <=> Created(i)
                  /\ \A K : Waiting(K)' <=> Waiting(K)
  BY <1>1 DEF Created, Waiting
<1>4. UNCHANGED <<Got, Ingested>>
  BY <1>1 DEF Got, Ingested
<1>5. QED
  BY <1>1, <1>2, <1>3, <1>4

LEMMA CountsStep == ASSUME IInv, AddsUp, [Next]_vars PROVE CountsOK'
<1>1. CASE StartIngest
  <2>1. idMap' = <<>> /\ report'.created = 0
    BY <1>1, StartsOver
  <2>2. Named' = {}
    BY <2>1 DEF Named
  <2>3. Cardinality(Named') = 0
    BY <2>2, FS_EmptySet
  <2>4. QED
    BY <2>1, <2>3 DEF CountsOK
<1>2. CASE SkipBlank
  BY <1>2 DEF SkipBlank, remote, AddsUp, CountsOK, Named, Created
<1>3. CASE Remember \/ Query
  BY <1>3, AddsAskingSteps
<1>4. CASE Send \/ ServerDies
  <2>1. /\ UNCHANGED <<call, busy, done, asked, answer>>
        /\ UNCHANGED <<corpus, rows, idMap, report, wiped, store>>
    BY <1>4 DEF Send, ServerDies, Remote!Send, Remote!Lose, adapter
  <2>2. QED
    BY <2>1, AddsIdle
<1>5. CASE Answered
  <2>1. busy /\ call \in done /\ ~busy' /\ UNCHANGED store
    BY <1>5 DEF Answered, Remote!Return
  <2>2. \A i : ~Created(i)'
    BY <2>1 DEF Created
  <2>3. CASE asked[call] = Recall
    BY <1>5, <2>1, <2>2, <2>3 DEF Answered, AddsUp, CountsOK, Named
  <2>4. CASE asked[call] # Recall /\ answer[call].kind # "created"
    <3>1. UNCHANGED idMap /\ report'.created = report.created
      BY <1>5, <2>4 DEF Answered, Heard, Mapped, IInv, AdapterOK
    <3>2. QED
      BY <2>1, <2>2, <3>1 DEF AddsUp, CountsOK, Named
  <2>5. CASE asked[call] # Recall /\ answer[call].kind = "created"
    <3>1. PICK m \in store : m.id = answer[call].id
      BY <2>1, <2>5 DEF IInv, Known
    <3>2. m.id \notin DOMAIN idMap
      BY <2>1, <2>5, <3>1 DEF AddsUp, CountsOK, Created
    <3>3. DOMAIN idMap' = DOMAIN idMap \cup {m.id}
      BY <1>5, <2>5, <3>1 DEF Answered, Mapped
    <3>4. Named' = Named \cup {m} /\ m \notin Named
      BY <2>1, <3>1, <3>2, <3>3 DEF Named, IInv, StoreOK
    <3>5. IsFiniteSet(Named)
      BY FS_Subset DEF Named, IInv, StoreOK
    <3>6. Cardinality(Named') = Cardinality(Named) + 1
      BY <3>4, <3>5, FS_AddElement
    <3>7. report'.created = report.created + 1
      BY <1>5, <2>5 DEF Answered, Heard, IInv, AdapterOK
    <3>8. QED
      BY <2>2, <3>6, <3>7 DEF AddsUp, CountsOK
  <2>6. QED
    BY <2>3, <2>4, <2>5
<1>6. CASE Failed
  <2>1. ~busy' /\ UNCHANGED <<store, idMap>> /\ report'.created = report.created
    BY <1>6 DEF Failed, Remote!Raise, IInv, AdapterOK
  <2>2. QED
    BY <2>1 DEF AddsUp, CountsOK, Named, Created
<1>7. ASSUME NEW c \in pending, Serve(c) PROVE CountsOK'
  <2>1. UNCHANGED <<call, busy, asked, idMap, report>> /\ c \notin done /\ store \subseteq store'
        /\ (c # call => \A i : Created(i)' <=> Created(i))
    BY <1>7, AddsServed
  <2>2. CASE UNCHANGED store /\ answer'[c].kind # "created"
    <3>1. \A i : Created(i)' => Created(i)
      BY <2>1, <2>2 DEF Created
    <3>2. QED
      BY <2>1, <2>2, <3>1 DEF AddsUp, CountsOK, Named
  <2>3. ASSUME NEW m, Added(c, m) PROVE CountsOK'
    <3>1. Cardinality(store) \in Nat
      BY FS_CardinalityType DEF IInv, StoreOK
    <3>2. m.id \notin DOMAIN idMap /\ store' = store \cup {m}
      BY <2>3, <3>1 DEF Added, IInv, StoreOK
    <3>3. Named' = Named
      BY <2>1, <3>2 DEF Named
    <3>4. ASSUME NEW i \in DOMAIN idMap PROVE ~Created(i)'
      <4>1. CASE c = call
        BY <2>1, <2>3, <3>2, <4>1 DEF Added, Created
      <4>2. CASE c # call
        BY <2>1, <4>2 DEF AddsUp, CountsOK
      <4>3. QED
        BY <4>1, <4>2
    <3>5. QED
      BY <2>1, <3>3, <3>4 DEF AddsUp, CountsOK
  <2>4. QED
    BY <1>7, <2>2, <2>3, Served DEF IInv
<1>8. CASE UNCHANGED vars
  <2>1. /\ UNCHANGED <<call, busy, done, asked, answer>>
        /\ UNCHANGED <<corpus, rows, idMap, report, wiped, store>>
    BY <1>8 DEF vars, remote, adapter
  <2>2. QED
    BY <2>1, AddsIdle
<1>9. QED
  BY <1>1, <1>2, <1>3, <1>4, <1>5, <1>6, <1>7, <1>8 DEF Next

(* The row behind which the ingest has just got is accounted for. *)
LEMMA RowsGoOn ==
  ASSUME PlaceOK, RowsOK, rows \in Seq(Rows), rows # <<>>, rows' = Tail(rows), ~busy',
         UNCHANGED <<corpus, store>>, report.failed \subseteq report'.failed,
         \/ TextOf[Head(rows)] = Blank
         \/ Head(rows) \in report'.failed
         \/ Stored(Head(rows))
  PROVE  RowsOK'
<1>1. /\ Ingested' = Ingested /\ Got' = Got + 1 /\ Got \in Nat
      /\ Ingested[Got + 1] = Head(rows)
  BY GoesOn
<1>2. \A r : Stored(r)' <=> Stored(r)
  BY DEF Stored
<1>3. ASSUME NEW j \in 1 .. Got'
      PROVE  \/ TextOf[Ingested[j]] = Blank
             \/ Ingested[j] \in report'.failed
             \/ Stored(Ingested[j])
  <2>1. j \in 1 .. Got \/ j = Got + 1
    BY <1>1, <1>3
  <2>2. QED
    BY <1>1, <2>1 DEF RowsOK
<1>4. \A K : ~Waiting(K)'
  BY DEF Waiting
<1>5. QED
  BY <1>1, <1>2, <1>3, <1>4 DEF RowsOK, Stored

LEMMA RowsStep == ASSUME IInv, AddsUp, [Next]_vars PROVE RowsOK'
<1>1. CASE StartIngest
  BY <1>1, StartsOver DEF RowsOK, Waiting
<1>2. CASE SkipBlank
  <2>1. /\ rows # <<>> /\ rows \in Seq(Rows) /\ rows' = Tail(rows) /\ ~busy'
        /\ UNCHANGED <<corpus, store, report>> /\ TextOf[Head(rows)] = Blank
    BY <1>2 DEF SkipBlank, IInv, AdapterOK, remote
  <2>2. QED
    BY <2>1, RowsGoOn DEF AddsUp
<1>3. CASE Remember \/ Query
  BY <1>3, AddsAskingSteps
<1>4. CASE Send \/ ServerDies
  <2>1. /\ UNCHANGED <<call, busy, done, asked, answer>>
        /\ UNCHANGED <<corpus, rows, idMap, report, wiped, store>>
    BY <1>4 DEF Send, ServerDies, Remote!Send, Remote!Lose, adapter
  <2>2. QED
    BY <2>1, AddsIdle
<1>5. CASE (Answered \/ Failed) /\ asked[call] = Recall
  <2>1. ~busy' /\ UNCHANGED <<corpus, rows, store, report>>
    BY <1>5 DEF Answered, Failed, Remote!Return, Remote!Raise
  <2>2. UNCHANGED <<Got, Ingested>>
    BY <2>1 DEF Got, Ingested
  <2>3. QED
    BY <2>1, <2>2 DEF AddsUp, RowsOK, Stored, Waiting
<1>6. CASE (Answered \/ Failed) /\ asked[call] # Recall
  <2>1. rows # <<>> /\ rows \in Seq(Rows) /\ rows' = Tail(rows) /\ ~busy'
        /\ UNCHANGED <<corpus, store>> /\ busy
    BY <1>6, RowOver DEF Answered, Failed, Remote!Return, Remote!Raise
  <2>2. asked[call].row = Head(rows)
    BY <1>6, <2>1 DEF AddsUp, PlaceOK
  <2>3. /\ report.failed \subseteq report'.failed
        /\ Head(rows) \in report'.failed \/ Stored(Head(rows))
    <3>1. CASE Failed
      BY <1>6, <2>2, <3>1, Failing
    <3>2. CASE Answered
      <4>1. asked[call].row \in Rows /\ report.failed \subseteq report'.failed
        BY <1>6, <3>2, Answering
      <4>2. answer[call].kind = "refused" => asked[call].row \in report'.failed
        BY <1>6, <3>2, <4>1, HeardType DEF Answered, IInv
      <4>3. Waiting({"created", "duplicate", "refused"})
        BY <1>6, <2>1, <3>2 DEF Answered, Remote!Return, AddsUp, RowsOK
      <4>4. answer[call].kind # "refused" => Waiting({"created", "duplicate"})
        BY <4>3 DEF Waiting
      <4>5. answer[call].kind # "refused" => Stored(asked[call].row)
        BY <4>4 DEF AddsUp, RowsOK
      <4>6. QED
        BY <2>2, <4>1, <4>2, <4>5
    <3>3. QED
      BY <1>6, <3>1, <3>2
  <2>4. QED
    BY <2>1, <2>3, RowsGoOn DEF AddsUp
<1>7. ASSUME NEW c \in pending, Serve(c) PROVE RowsOK'
  <2>1. /\ UNCHANGED <<call, busy, asked, report, Got, Ingested>> /\ store \subseteq store'
        /\ (c # call => \A K : Waiting(K)' <=> Waiting(K))
    BY <1>7, AddsServed
  <2>2. \A r : Stored(r) => Stored(r)'
    BY <2>1 DEF Stored
  <2>3. CASE c # call
    <3>1. Waiting({"created", "duplicate"})' => Stored(asked[call].row)'
      <4> DEFINE r == asked[call].row
      <4>1. Waiting({"created", "duplicate"})' => Stored(r)
        BY <2>1, <2>3 DEF AddsUp, RowsOK
      <4>2. QED
        BY <2>1, <2>2, <4>1 DEF Stored
    <3>2. busy' /\ call' \in done' /\ asked'[call'] # Recall =>
            Waiting({"created", "duplicate", "refused"})'
      <4>1. call \in done' => call \in done
        BY <1>7, <2>3, AddsServed
      <4>2. QED
        BY <2>1, <2>3, <4>1 DEF AddsUp, RowsOK
    <3>3. QED
      BY <2>1, <2>2, <3>1, <3>2 DEF AddsUp, RowsOK, Stored
  <2>4. CASE c = call
    <3>1. asked[c] # Recall =>
            /\ answer'[c].kind \in {"created", "duplicate", "refused"}
            /\ answer'[c].kind \in {"created", "duplicate"} =>
                 \E m \in store' : m.text = TextOf[asked[c].row]
      BY <1>7, Served DEF IInv, Added
    <3>2. QED
      BY <2>1, <2>2, <2>4, <3>1 DEF AddsUp, RowsOK, Stored, Waiting
  <2>5. QED
    BY <2>3, <2>4
<1>8. CASE UNCHANGED vars
  <2>1. /\ UNCHANGED <<call, busy, done, asked, answer>>
        /\ UNCHANGED <<corpus, rows, idMap, report, wiped, store>>
    BY <1>8 DEF vars, remote, adapter
  <2>2. QED
    BY <2>1, AddsIdle
<1>9. QED
  BY <1>1, <1>2, <1>3, <1>4, <1>5, <1>6, <1>7, <1>8 DEF Next

(* A corpus that repeats no text, ingested into an empty store, meets no memory of *)
(* the text of its next row.                                                       *)
LEMMA NextIsNew ==
  ASSUME IInv, PlaceOK, SourcesOK, busy, call \notin done, asked[call] # Recall,
         wiped, Unlike(Ingested), NEW m \in store, m.text = TextOf[asked[call].row]
  PROVE  FALSE
<1>1. m.corpus = corpus
  BY DEF IInv, Isolation
<1>2. ~Created(m.id)
  BY DEF Created
<1>3. m.row \in Past /\ m.text = TextOf[m.row] /\ m.text # Blank
  BY <1>1, <1>2 DEF SourcesOK
<1>4. PICK j \in 1 .. Got : Ingested[j] = m.row
  BY <1>3 DEF Past
<1> DEFINE n == Len(rows)
           g == Got
<1>5. asked[call].row = Head(rows) /\ rows \in Seq(Rows) /\ rows # <<>>
  BY DEF PlaceOK, IInv, AdapterOK, Known
<1>6. /\ g \in Nat /\ Len(Ingested) \in Nat /\ g = Len(Ingested) - n /\ n \in Nat \ {0}
      /\ Head(rows) = rows[1] /\ DOMAIN Ingested = 1 .. Len(Ingested)
  BY <1>5 DEF PlaceOK, Got
<1>7. Ingested[g + 1] = Head(rows)
  BY <1>6 DEF PlaceOK
<1> HIDE DEF n, g
<1>8. j \in 1 .. g
  BY <1>4 DEF g
<1>9. g + 1 \in DOMAIN Ingested /\ j \in DOMAIN Ingested /\ j # g + 1
  BY <1>6, <1>8
<1>10. QED
  BY <1>3, <1>4, <1>5, <1>7, <1>9 DEF Unlike

LEMMA UnlikeStep == ASSUME IInv, AddsUp, [Next]_vars PROVE UnlikeOK'
<1>1. CASE StartIngest
  BY <1>1, StartsOver DEF UnlikeOK, Waiting
<1>2. CASE SkipBlank
  <2>1. UNCHANGED <<call, busy, done, asked, answer, corpus, report, wiped>>
    BY <1>2 DEF SkipBlank, remote
  <2>2. QED
    BY <2>1 DEF AddsUp, UnlikeOK, Unlike, Ingested, Waiting
<1>3. CASE Remember \/ Query
  BY <1>3, AddsAskingSteps
<1>4. CASE Send \/ ServerDies
  <2>1. /\ UNCHANGED <<call, busy, done, asked, answer>>
        /\ UNCHANGED <<corpus, rows, idMap, report, wiped, store>>
    BY <1>4 DEF Send, ServerDies, Remote!Send, Remote!Lose, adapter
  <2>2. QED
    BY <2>1, AddsIdle
<1>5. CASE Answered \/ Failed
  <2>1. ~busy' /\ UNCHANGED <<corpus, wiped>>
    BY <1>5 DEF Answered, Failed, Remote!Return, Remote!Raise
  <2>2. ~Waiting({"duplicate"}) => report'.existed = report.existed
    <3>1. CASE asked[call] = Recall
      BY <1>5, <3>1 DEF Answered, Failed
    <3>2. CASE Failed /\ asked[call] # Recall
      BY <3>2 DEF Failed, IInv, AdapterOK
    <3>3. CASE Answered /\ asked[call] # Recall
      BY <3>3 DEF Answered, Remote!Return, Heard, Waiting, IInv, AdapterOK
    <3>4. QED
      BY <1>5, <3>1, <3>2, <3>3
  <2>3. QED
    BY <2>1, <2>2 DEF AddsUp, UnlikeOK, Unlike, Ingested, Waiting
<1>6. ASSUME NEW c \in pending, Serve(c) PROVE UnlikeOK'
  <2>1. /\ UNCHANGED <<call, busy, asked, report, wiped, Ingested>> /\ c \notin done
        /\ (c # call => \A K : Waiting(K)' <=> Waiting(K))
    BY <1>6, AddsServed
  <2>2. CASE c # call
    BY <2>1, <2>2 DEF AddsUp, UnlikeOK, Unlike
  <2>3. CASE c = call
    <3>1. ASSUME wiped, Unlike(Ingested), Waiting({"duplicate"})'
          PROVE  FALSE
      <4>1. busy /\ asked[call] # Recall /\ answer'[call].kind = "duplicate"
        BY <2>1, <3>1 DEF Waiting
      <4>2. PICK m \in store : m.text = TextOf[asked[call].row]
        BY <1>6, <2>3, <4>1, Served DEF IInv, Added
      <4>3. QED
        BY <2>1, <2>3, <3>1, <4>1, <4>2, NextIsNew DEF AddsUp
    <3>2. QED
      BY <2>1, <3>1 DEF AddsUp, UnlikeOK, Unlike
  <2>4. QED
    BY <2>2, <2>3
<1>7. CASE UNCHANGED vars
  <2>1. /\ UNCHANGED <<call, busy, done, asked, answer>>
        /\ UNCHANGED <<corpus, rows, idMap, report, wiped, store>>
    BY <1>7 DEF vars, remote, adapter
  <2>2. QED
    BY <2>1, AddsIdle
<1>8. QED
  BY <1>1, <1>2, <1>3, <1>4, <1>5, <1>6, <1>7 DEF Next

LEMMA AddsUpHolds == Spec => []AddsUp
<1>1. ASSUME IInv, AddsUp, [Next]_vars PROVE AddsUp'
  BY <1>1, PlaceStep, SourcesStep, CountsStep, RowsStep, UnlikeStep DEF AddsUp
<1>2. QED
  BY Invariance, AddsInitially, <1>1, PTL DEF Spec

(***************************************************************************)
(* A recalled memory of the current corpus carries the id of the row that  *)
(* asked for it, and one the adapter cannot name is of a row the ingest    *)
(* reported as failed: ingest_corpus and query of EngramAdapter, whatever  *)
(* corpora are ingested in turn and whichever calls come in late.          *)
(***************************************************************************)
THEOREM AdapterAttributes == Spec => []Attribution
<1>1. IInv => Attribution
  BY DEF IInv, StoreOK, Known, Created, Attribution
<1>2. QED
  BY Invariance, <1>1, PTL

(***************************************************************************)
(* After a wipe that worked, no memory of an earlier corpus is in engram's *)
(* store, not even one a timed-out call of that corpus was to commit: the  *)
(* reset of EngramAdapter, which stops the server before it wipes.         *)
(***************************************************************************)
THEOREM AdapterIsolates == Spec => []Isolation
<1>1. IInv => Isolation
  BY DEF IInv
<1>2. QED
  BY Invariance, <1>1, PTL

(***************************************************************************)
(* The report of ingest_corpus adds up: created are the memories the id    *)
(* map names, every row with a text is reported or its text is stored, and *)
(* a corpus that repeats nothing meets no duplicate unless the reset       *)
(* before it failed, whatever the server answers and when.                 *)
(***************************************************************************)
THEOREM AdapterAddsUp == Spec => []ReportAddsUp
<1>1. ASSUME IInv, AddsUp PROVE ReportAddsUp
  <2>1. report.created = Cardinality({m \in store : m.id \in DOMAIN idMap})
    BY <1>1 DEF AddsUp, CountsOK, Named
  <2>2. ASSUME rows = <<>>, NEW i \in DOMAIN Ingested
        PROVE  \/ TextOf[Ingested[i]] = Blank
               \/ Ingested[i] \in report.failed
               \/ \E m \in store : m.text = TextOf[Ingested[i]]
    <3>1. i \in 1 .. Got
      BY <1>1, <2>2 DEF AddsUp, PlaceOK, Got
    <3>2. QED
      BY <1>1, <3>1 DEF AddsUp, RowsOK, Stored
  <2>3. wiped /\ Unlike(Ingested) => report.existed = 0
    BY <1>1 DEF AddsUp, UnlikeOK
  <2>4. QED
    BY <2>1, <2>2, <2>3 DEF ReportAddsUp
<1>2. QED
  BY Invariance, AddsUpHolds, <1>1, PTL
=============================================================================
