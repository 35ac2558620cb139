--------------------------- MODULE CrossValidate ---------------------------
(***************************************************************************)
(* scripts/cross_validate_longmemeval.py and run_longmemeval_mempalace.py: *)
(* a run takes the questions of a dataset vault by vault, writes the       *)
(* sessions of the vault to files, builds an adapter, which loads them     *)
(* into its memory system, asks the questions, scores what is retrieved    *)
(* and has the answers judged; at the end it aggregates the records into a *)
(* report.  The records are only in memory until then.                     *)
(*                                                                         *)
(* Runs follow one another.  What outlives one, and may leak into the      *)
(* next: a work directory that is kept, the banks of the Hindsight server, *)
(* the postgres table, the drawers of the MemPalace server, the wings of   *)
(* the palace daemon.                                                      *)
(***************************************************************************)
EXTENDS Verdicts

CONSTANTS
  Files,      \* the datasets: a name |-> [corpus, records]
  TypeOrder,  \* the types of the questions, in the order of their names
  Strays,     \* documents in the MemPalace server that no run put there
  TopK,       \* n_results
  Histories   \* sequences of the plans of the runs started one after another

\* A plan: the dataset, the adapter, --work-dir, --content-rules, --skip-judge,
\* --max-questions, --stratify-by and --pin-context-out.
Plan == [ds : DOMAIN Files, backend : STRING, kept : BOOLEAN, rules : {"sme-rich", "upstream-exact"},
         judge : BOOLEAN, cap : Nat, stratify : BOOLEAN, pin : BOOLEAN]

ASSUME PlansAssumption ==
  /\ TopK \in Nat \ {0}
  /\ TypeOrder \in Seq(ToSet(TypeOrder)) /\ IsInjective(TypeOrder)
  /\ \A h \in Histories :
       /\ h \in Seq(Plan)
       /\ \A r \in DOMAIN h : Files[h[r].ds].corpus # "longmemeval" =>
            h[r].rules = "sme-rich" /\ h[r].backend \notin {"mempalace-daemon", "familiar"}

\* What the published files are like: an id names one record, the types of
\* LongMemEval are those in TypeOrder, no question is of a type "abstention" but
\* BEAM's, which are abstentions, and the names of sessions are none that a memory
\* system makes up.
OfFile(corpus, record) ==
  LET IsName(s) == s[1] \notin {"omega", "mempalace-daemon", "familiar"}
  IN /\ record.sessions \in Seq(ToSet(record.sessions))
     /\ corpus = "longmemeval" =>
          /\ record.type # "abstention" /\ record.type \in ToSet(TypeOrder)
          /\ record.abs \in BOOLEAN
          /\ record.answers \in Seq(ToSet(record.answers))
          /\ \A s \in ToSet(record.answers) : IsName(s)
     /\ corpus = "locomo" =>
          /\ record.qa \in Seq(ToSet(record.qa))
          /\ \A qa \in ToSet(record.qa) :
               qa.category \in 1..5 /\ qa.evidence \in Seq(ToSet(qa.evidence))
     /\ corpus = "beam" =>
          /\ record.items \in Seq(ToSet(record.items))
          /\ \A session \in ToSet(record.sessions) : IsName(session.id)

ASSUME FilesAssumption ==
  \A ds \in DOMAIN Files :
    LET records == Files[ds].records
    IN /\ Files[ds].corpus \in {"longmemeval", "locomo", "beam"}
       /\ records \in Seq(ToSet(records))
       /\ \A i, j \in DOMAIN records : records[i].id = records[j].id => i = j
       /\ \A i \in DOMAIN records : OfFile(Files[ds].corpus, records[i])

VARIABLES
  history,  \* the plans
  phase,    \* "idle", or "run"
  runs,     \* how many runs were started
  todo,     \* the questions to ask, in groups of a vault
  open,     \* the adapter of the first group is built
  records,
  report,   \* of the last run, NoReport until it is written
  disk,     \* the vaults of a kept work directory, and of a temporary one
  banks, table, server, palace  \* the stores of Hindsight, postgres, MemPalace, the daemon

stores == <<disk, banks, table, server, palace>>
cvars  == <<history, phase, runs, todo, open, records, report, stores>>

NoReport == [whole |-> FALSE]

Corpus(p)    == Files[p.ds].corpus
Questions(p) == Loaded(Files[p.ds])

\* The questions a run takes; only LongMemEval has the stratified cap.
Selected(p) ==
  IF p.stratify /\ Corpus(p) = "longmemeval" THEN Stratified(Questions(p), TypeOrder, p.cap)
  ELSE Capped(Questions(p), p.cap)

Vaults == UNION {{q.vault : q \in ToSet(Loaded(Files[ds]))} : ds \in DOMAIN Files}

busy    == phase = "run" /\ todo # <<>>
plan    == history[runs]
group   == Head(todo)

\* The question asked next, its vault and the documents of its haystack.
question == Head(group)
vault    == question.vault
own      == Documents(plan.ds, question, plan.rules)

EmptyVault == [files |-> {}, omega |-> {}]
EmptyDisk  == [v \in Vaults |-> EmptyVault]

Filled(docs) == {d \in docs : d.text # "blank"}

--------------------------------------------------------------------------------
(* What the adapters read. *)

Whole      == {"full-context", "karpathy-compiled"}
Identified == {"flat", "postgres", "hindsight", "mempalace-server"}
Labelled   == {"flat", "postgres", "mempalace-server"} \cup Whole

\* The documents a query may retrieve.  The search of the MemPalace server names
\* no wing, nor does familiar.
Visible(b) ==
  CASE b \in {"flat"} \cup Whole -> disk[plan.kept][vault].files
    [] b = "omega"               -> disk[plan.kept][vault].omega
    [] b = "hindsight"           -> banks[vault]
    [] b = "postgres"            -> table
    [] b = "mempalace-server"    -> server
    [] b = "mempalace-daemon"    -> {w.doc : w \in {x \in palace : x.wing = vault}}
    [] b = "familiar"            -> {w.doc : w \in palace}

\* The ranking is the system's own.
Rankings(docs) ==
  UNION {{r \in [1..k -> docs] : IsInjective(r)} : k \in 1..TopK}

Sorted(docs) == SetToSeq(docs)

Retrievals(b) == IF b \in Whole THEN {Sorted(Visible(b))} \ {<<>>} ELSE Rankings(Visible(b))

\* Fault: the prefix is left on the ids.
Ids_Chunk(b, hits) ==
  IF b \in Whole THEN <<>> ELSE [i \in DOMAIN hits |-> Name("chunk:", i)]

\* The ids of the entities retrieved, the prefix "chunk:" taken off.  An id of
\* OMEGA or of the palace is no name of a session.
Ids(b, hits) ==
  IF b \in Whole THEN <<>>
  ELSE [i \in DOMAIN hits |-> IF b \in Identified THEN hits[i].s ELSE Name(b, i)]

\* The names of sessions in the context: the label of a hit, or its text.
Names(b, hits) ==
  {d.s : d \in {e \in ToSet(hits) : \/ b \in Labelled
                                    \/ e.text = "rich" /\ b # "hindsight"}}

--------------------------------------------------------------------------------
(* The run. *)

Init ==
  /\ history \in Histories
  /\ phase = "idle"
  /\ runs = 0
  /\ todo = <<>>
  /\ open = FALSE
  /\ records = <<>>
  /\ report = NoReport
  /\ disk = [kept \in BOOLEAN |-> EmptyDisk]
  /\ banks = [v \in Vaults |-> {}]
  /\ table = {}
  /\ server = Strays
  /\ palace = {}

Start ==
  /\ phase = "idle"
  /\ runs < Len(history)
  /\ phase' = "run"
  /\ runs' = runs + 1
  /\ todo' = LET p == history[runs + 1] IN Groups(Corpus(p), Selected(p))
  /\ report' = NoReport
  /\ UNCHANGED <<history, open, records, stores>>

\* The files of the vault, written before the adapter is built.
written == Materialized(disk[plan.kept][vault].files, plan.ds, question, plan.rules)
Written == disk' = [disk EXCEPT ![plan.kept][vault].files = written]

Opening(b) ==
  /\ busy /\ ~open
  /\ plan.backend = b
  /\ open' = TRUE
  /\ UNCHANGED <<history, phase, runs, todo, records, report>>

\* The collection of the flat baseline is beside the files and holds what they
\* hold; the other two read the files, or articles made of them.
OpenFiles ==
  /\ \E b \in {"flat"} \cup Whole : Opening(b)
  /\ Written
  /\ UNCHANGED <<banks, table, server, palace>>

\* OMEGA keeps every memory stored under the home in the vault; a row whose store
\* fails is only counted.
OpenOmega ==
  /\ Opening("omega")
  /\ \E stored \in SUBSET Filled(written) :
       disk' = [disk EXCEPT ![plan.kept][vault] = [files |-> written, omega |-> @.omega \cup stored]]
  /\ UNCHANGED <<banks, table, server, palace>>

\* A bank is named after the vault.  A row that fails to be retained is only
\* counted; one of a document id that is there replaces it.
OpenHindsight ==
  /\ Opening("hindsight")
  /\ Written
  /\ \E kept \in SUBSET Filled(written) : banks' = [banks EXCEPT ![vault] = Upsert(@, kept)]
  /\ UNCHANGED <<table, server, palace>>

\* TRUNCATE, then all rows.
OpenPostgres ==
  /\ Opening("postgres")
  /\ Written
  /\ table' = Filled(written)
  /\ UNCHANGED <<banks, server, palace>>

\* Fault: the wing is filled without being emptied.
Emptied_Not(corpus) == server

\* The wing of the adapter is emptied drawer by drawer and filled again; nothing
\* of this is done without a corpus.
Emptied(corpus) == IF corpus = {} THEN server ELSE Strays

OpenServer ==
  /\ Opening("mempalace-server")
  /\ Written
  /\ server' = Emptied(Filled(written)) \cup Filled(written)
  /\ UNCHANGED <<banks, table, palace>>

\* ingest_question_haystack: the sessions themselves are posted, and those whose
\* post fails are counted; the wing is not emptied first.
OpenPalace ==
  /\ \E b \in {"mempalace-daemon", "familiar"} : Opening(b)
  /\ Written
  /\ \E stored \in SUBSET own :
       palace' = palace \cup {[wing |-> vault, doc |-> d] : d \in stored}
  /\ UNCHANGED <<banks, table, server>>

\* What a question leaves: its record is added and, after the last of the group,
\* the adapter is closed.
Scored(hits, failed, reply) ==
  LET b == plan.backend
      ids == Ids(b, hits)
  IN [q       |-> question,
      hits    |-> hits,
      failed  |-> failed,
      matched |-> Matched(question.expected, Names(b, hits)),
      hit1    |-> HitAt(1, question.expected, ids),
      hit5    |-> HitAt(5, question.expected, ids),
      label   |-> IF plan.judge THEN Graded(AskedAs(question), reply) ELSE "skipped"]

Replies == IF plan.judge THEN {"yes", "no", "none"} ELSE {"none"}

Answered(record) ==
  /\ records' = Append(records, record)
  /\ IF Len(group) > 1
     THEN todo' = <<Tail(group)>> \o Tail(todo) /\ UNCHANGED open
     ELSE todo' = Tail(todo) /\ open' = FALSE
  /\ UNCHANGED <<history, phase, runs, report, stores>>

Ask ==
  /\ busy /\ open
  /\ \E hits \in Retrievals(plan.backend), reply \in Replies :
       Answered(Scored(hits, FALSE, reply))

\* The system is unreachable or fails, or has nothing: the record holds the error
\* and an empty context.
AskInVain ==
  /\ busy /\ open
  /\ \E reply \in Replies : Answered(Scored(<<>>, TRUE, reply))

\* The end of a run, in whatever way: a temporary work directory is gone, and the
\* records are.
Over(d) ==
  /\ phase' = "idle"
  /\ todo' = <<>>
  /\ open' = FALSE
  /\ records' = <<>>
  /\ disk' = [d EXCEPT ![FALSE] = EmptyDisk]
  /\ UNCHANGED <<history, runs>>

Finish ==
  /\ phase = "run"
  /\ todo = <<>>
  /\ Over(disk)
  /\ report' = [whole |-> TRUE, plan |-> plan, records |-> records, summary |-> Summary(records)]
  /\ UNCHANGED <<banks, table, server, palace>>

\* The factory raises, which nothing in a run catches.  It does so for mempalace,
\* and for the MemPalace server whenever a drawer was not deleted or not added;
\* the table is truncated before the rows are inserted.
OpenRaises ==
  /\ busy /\ ~open
  /\ Over([disk EXCEPT ![plan.kept][vault].files = written])
  /\ \/ /\ plan.backend = "mempalace"
        /\ UNCHANGED <<table, server>>
     \/ /\ plan.backend = "postgres"
        /\ table' \in {table, {}}
        /\ UNCHANGED server
     \/ /\ plan.backend = "mempalace-server"
        /\ Filled(written) # {}
        /\ \E left \in SUBSET (server \ Strays), put \in SUBSET Filled(written) :
             /\ left # {} \/ put # Filled(written)
             /\ server' = Strays \cup left \cup put
        /\ UNCHANGED table
  /\ UNCHANGED <<report, banks, palace>>

\* The run is killed, or a client cannot be built.
Die ==
  /\ busy
  /\ Over(disk)
  /\ UNCHANGED <<report, banks, table, server, palace>>

Step == \/ Start \/ OpenFiles \/ OpenOmega \/ OpenHindsight \/ OpenPostgres
        \/ OpenServer \/ OpenPalace \/ OpenRaises \/ Ask \/ AskInVain \/ Finish \/ Die
================================================================================
