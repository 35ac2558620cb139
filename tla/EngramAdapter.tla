---------------------------- MODULE EngramAdapter ----------------------------
(***************************************************************************)
(* EngramAdapter of sme/adapters/engram_adapter.py, the part that keeps    *)
(* one corpus apart from the next and gives retrieved memories back their  *)
(* corpus ids.  Its calls to the server are those of RemoteCall: a call    *)
(* that raises may have been executed, may still be executed, or never     *)
(* will be.                                                                *)
(*                                                                         *)
(* The store is engram's; a memory remembers here which row asked for it,  *)
(* which the adapter can only know through _id_map.                        *)
(***************************************************************************)
EXTENDS Naturals, Sequences, FiniteSets, Functions

CONSTANTS
  MaxCalls,      \* bound on the remote calls
  Rows,          \* corpus row ids
  Texts,         \* row contents the server tells apart
  Blank,         \* the content that str.strip() empties
  TextOf,        \* [Rows -> Texts \cup {Blank}]
  Corpora        \* the corpora ingested in turn, each a sequence of rows

ASSUME AdapterAssumption == /\ MaxCalls \in Nat \ {0}
                            /\ Blank \notin Texts
                            /\ TextOf \in [Rows -> Texts \cup {Blank}]
                            /\ Corpora \in Seq(Seq(Rows))

VARIABLES
  entry,      \* self._entry: engram_path is given
  call, busy, pending, done, verdict,  \* the client's calls: see RemoteCall
  asked,      \* what each call asks for: a row to remember, or a recall
  answer,     \* the server's answer to each executed call
  store,      \* engram's memories
  corpus,     \* number of the corpus ingested last
  rows,       \* rows of it that ingest_corpus has not got to
  idMap,      \* self._id_map
  report,     \* the counters and errors of ingest_corpus
  wiped       \* history: whether the last reset left an empty store

remote  == <<call, busy, pending, done, verdict>>
adapter == <<entry, corpus, rows, idMap, report, wiped>>
vars    == <<remote, adapter, asked, answer, store>>

Remote == INSTANCE RemoteCall

Recall  == [what |-> "recall"]
Nobody  == [created |-> 0, existed |-> 0, failed |-> {}]

Init == /\ entry \in BOOLEAN
        /\ Remote!Init
        /\ asked = <<>> /\ answer = <<>>
        /\ store = {}
        /\ corpus = 0 /\ rows = <<>>
        /\ idMap = <<>>
        /\ report = Nobody
        /\ wiped = TRUE

-----------------------------------------------------------------------------
(* reset and the start of an ingest.                                       *)

\* The wipe succeeds, fails in a way reset swallows (an os.remove or a DELETE
\* that raises, a database that does not open), or raises from commit, which
\* ingest_corpus turns into a warning before it goes on.
Wipe == \/ /\ store' = {}
           /\ wiped' = TRUE
        \/ /\ UNCHANGED store
           /\ wiped' = (store = {})

\* Without engram_path there is no transport: no row is got to, and the one error
\* that is reported stands for them all.
Opened == /\ UNCHANGED entry
          /\ \/ entry /\ rows' = Corpora[corpus'] /\ report' = Nobody
             \/ /\ ~entry /\ rows' = <<>>
                /\ report' = [Nobody EXCEPT !.failed = Range(Corpora[corpus'])]

\* Faults: the id map is kept; the server is left running.
StartIngest_KeepIds ==
  /\ ~busy /\ rows = <<>> /\ corpus < Len(Corpora)
  /\ Remote!Lose
  /\ UNCHANGED idMap
  /\ Wipe
  /\ corpus' = corpus + 1
  /\ Opened
  /\ UNCHANGED <<asked, answer>>
StartIngest_KeepServer ==
  /\ ~busy /\ rows = <<>> /\ corpus < Len(Corpora)
  /\ UNCHANGED remote
  /\ idMap' = <<>>
  /\ Wipe
  /\ corpus' = corpus + 1
  /\ Opened
  /\ UNCHANGED <<asked, answer>>

\* ingest_corpus begins by reset(): the server is stopped, with what it had
\* not executed; the id map is emptied; the store is wiped, if it can be.
StartIngest ==
  /\ ~busy /\ rows = <<>> /\ corpus < Len(Corpora)
  /\ Remote!Lose
  /\ idMap' = <<>>
  /\ Wipe
  /\ corpus' = corpus + 1
  /\ Opened
  /\ UNCHANGED <<asked, answer>>

-----------------------------------------------------------------------------
(* Rows, queries and their answers.                                        *)

SkipBlank ==
  /\ ~busy /\ rows # <<>> /\ TextOf[Head(rows)] = Blank
  /\ rows' = Tail(rows)
  /\ UNCHANGED <<entry, remote, asked, answer, store, corpus, idMap, report, wiped>>

Remember ==
  /\ ~busy /\ rows # <<>> /\ TextOf[Head(rows)] # Blank
  /\ Remote!Invoke
  /\ asked' = Append(asked, [what |-> "remember", row |-> Head(rows), corpus |-> corpus])
  /\ UNCHANGED <<answer, store, adapter>>

\* A query without a transport is answered with its error.
Query ==
  /\ entry /\ ~busy /\ rows = <<>>
  /\ Remote!Invoke
  /\ asked' = Append(asked, Recall)
  /\ UNCHANGED <<answer, store, adapter>>

Send == Remote!Send /\ UNCHANGED <<asked, answer, store, adapter>>

\* Fault: an engram answer is looked at for its success before its "duplicate".
Heard_Success(r, a) ==
  report' = [report EXCEPT
    !.created = IF a.kind \in {"created", "duplicate"} THEN @ + 1 ELSE @,
    !.failed  = IF a.kind = "refused" THEN @ \cup {r} ELSE @]

\* The answer to a remember.  A row counts once, as created, existing or failed.
Heard(r, a) ==
  report' = [report EXCEPT
    !.existed = IF a.kind = "duplicate" THEN @ + 1 ELSE @,
    !.created = IF a.kind = "created" THEN @ + 1 ELSE @,
    !.failed  = IF a.kind = "refused" THEN @ \cup {r} ELSE @]

Mapped(r, a) ==
  idMap' = IF a.kind = "created"
             THEN [i \in DOMAIN idMap \cup {a.id} |-> IF i = a.id THEN r ELSE idMap[i]]
             ELSE idMap

Answered ==
  /\ Remote!Return
  /\ IF asked[call] = Recall
       THEN UNCHANGED <<rows, report, idMap>>
       ELSE /\ Heard(asked[call].row, answer[call])
            /\ Mapped(asked[call].row, answer[call])
            /\ rows' = Tail(rows)
  /\ UNCHANGED <<entry, asked, answer, store, corpus, wiped>>

\* A call that raises: the row is reported and the loop goes on.
Failed ==
  /\ Remote!Raise
  /\ IF asked[call] = Recall
       THEN UNCHANGED <<rows, report>>
       ELSE /\ report' = [report EXCEPT !.failed = @ \cup {asked[call].row}]
            /\ rows' = Tail(rows)
  /\ UNCHANGED <<entry, asked, answer, store, corpus, idMap, wiped>>

-----------------------------------------------------------------------------
(* The server, as the adapter meets it: it refuses what it likes, keeps one *)
(* memory per text, and numbers memories from 1 in an empty store.          *)

Serve(c) ==
  /\ Remote!Execute(c)
  /\ \/ /\ asked[c] = Recall
        /\ answer' = [i \in done' |-> IF i = c THEN [kind |-> "context"] ELSE answer[i]]
        /\ UNCHANGED store
     \/ /\ asked[c] # Recall
        /\ answer' = [i \in done' |-> IF i = c THEN [kind |-> "refused"] ELSE answer[i]]
        /\ UNCHANGED store
     \/ /\ asked[c] # Recall
        /\ LET r   == asked[c].row
               new == [id |-> Cardinality(store) + 1, text |-> TextOf[r],
                       row |-> r, corpus |-> asked[c].corpus]
               dup == \E m \in store : m.text = TextOf[r] IN
             /\ store' = IF dup THEN store ELSE store \cup {new}
             /\ answer' = [i \in done' |->
                  IF i # c THEN answer[i]
                  ELSE IF dup THEN [kind |-> "duplicate"]
                       ELSE [kind |-> "created", id |-> new.id]]
  /\ UNCHANGED <<asked, adapter>>

ServerDies == Remote!Lose /\ pending # {} /\ UNCHANGED <<asked, answer, store, adapter>>

Next == \/ StartIngest \/ SkipBlank \/ Remember \/ Query
        \/ Send \/ Answered \/ Failed
        \/ \E c \in pending : Serve(c)
        \/ ServerDies

Spec == Init /\ [][Next]_vars

-----------------------------------------------------------------------------
(* Properties.                                                             *)

\* A memory of the current corpus that the id map names is named after the row
\* that asked for it: a recall never scores one row's memory as another's, not
\* even when an earlier corpus used the same memory id or a call came in late.
\* One that it does not name, once the ingest is over, is of a row reported as
\* failed, though it may have been stored after the report.
Attribution ==
  \A m \in store :
    /\ m.id \in DOMAIN idMap => idMap[m.id] = m.row
    /\ m.corpus = corpus /\ rows = <<>> /\ ~busy =>
         m.id \in DOMAIN idMap \/ m.row \in report.failed

\* After a wipe that worked the store holds nothing of an earlier corpus, late
\* commits of calls that had timed out included.
Isolation ==
  wiped => \A m \in store : m.corpus = corpus

\* The rows of the corpus ingested last, and whether no text of it is there twice.
Ingested  == IF corpus = 0 THEN <<>> ELSE Corpora[corpus]
Unlike(c) == \A i, j \in DOMAIN c :
               TextOf[c[i]] = TextOf[c[j]] /\ TextOf[c[i]] # Blank => i = j

\* The report of an ingest adds up.  It counts as created the memories that the id
\* map names; a row with a text is in the store, if not by itself then by another of
\* its text, or reported; and nothing is skipped as a duplicate of a corpus that
\* repeats nothing, unless the reset before it failed: so a wipe whose failure reset
\* swallowed shows in the duplicates (ingest_corpus, reset of engram_adapter.py).
ReportAddsUp ==
  /\ report.created = Cardinality({m \in store : m.id \in DOMAIN idMap})
  /\ rows = <<>> /\ ~busy =>
       \A i \in DOMAIN Ingested :
         \/ TextOf[Ingested[i]] = Blank
         \/ Ingested[i] \in report.failed
         \/ \E m \in store : m.text = TextOf[Ingested[i]]
  /\ wiped /\ Unlike(Ingested) => report.existed = 0
=============================================================================
