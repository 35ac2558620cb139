---------------------------- MODULE EvalHarness ----------------------------
(***************************************************************************)
(* The evaluation in its two phases: runs of the cross-validation, one     *)
(* after another, and a sweep of readers over the contexts that the last   *)
(* of them pinned.  The sweep is another process, and of what the runs     *)
(* left it reads nothing but the pinned file.                              *)
(***************************************************************************)
EXTENDS CrossValidate, ReaderSweep

CONSTANT MaxPins  \* bound on the records of a pinned file

vars == <<cvars, svars>>

EvalInit == Init /\ SweepInit

\* The pinned file is written after the report.  The model forgets the runs.
StartSweep ==
  /\ phase = "idle"
  /\ report.whole
  /\ report.plan.pin
  /\ Sweep([i \in DOMAIN report.records |-> report.records[i].q])
  /\ history' = <<>>
  /\ runs' = 0
  /\ report' = NoReport
  /\ disk' = [kept \in BOOLEAN |-> EmptyDisk]
  /\ banks' = [v \in Vaults |-> {}]
  /\ table' = {}
  /\ server' = Strays
  /\ palace' = {}
  /\ UNCHANGED <<phase, todo, open, records>>

Next ==
  \/ stage = "off" /\ Step /\ UNCHANGED svars
  \/ StartSweep
  \/ SweepStep /\ UNCHANGED cvars

\* Every thread goes on, the main one and the workers; every call of a client
\* ends, and so does a backoff.
Fairness ==
  /\ WF_vars((Await \/ Raise \/ NextConfig) /\ UNCHANGED cvars)
  /\ \A i \in 1..MaxPins : WF_vars(i \in DOMAIN at /\ Work(i) /\ UNCHANGED cvars)

Spec == EvalInit /\ [][Next]_vars /\ Fairness

--------------------------------------------------------------------------------
(* Properties of the runs. *)

\* The documents a question should find: those of its haystack.
IsOwn(d, q) == d.ds = plan.ds /\ d.v = q.vault /\ \E i \in DOMAIN q.hay : q.hay[i].id = d.s

\* The runs that load the palace of the daemon: familiar reads it as well.
Posting == {"mempalace-daemon", "familiar"}

\* What a run loaded may be in a bank: it retained it itself, or left it in a work
\* directory for a run that did.
Banked(r) ==
  \E h \in r..runs : /\ history[h].backend = "hindsight"
                     /\ h = r \/ (history[r].kept /\ history[h].kept)

\* A document of an earlier dataset, for the same vault, in a place that earlier
\* run left: the work directory both were given, or the server's bank or wing.
IsLeftover(d, q) ==
  /\ d.v = q.vault
  /\ \E r \in 1..(runs - 1) :
       /\ history[r].ds = d.ds
       /\ \/ plan.kept /\ history[r].kept
          \/ plan.backend = "hindsight" /\ Banked(r)
          \/ plan.backend = "mempalace-daemon" /\ history[r].backend \in Posting

\* What a search of the whole server finds: what no run put there, and, when
\* there was nothing to load and so nothing was emptied, the last haystack.
IsUnscoped(d, q) ==
  \/ plan.backend = "familiar"
  \/ /\ plan.backend = "mempalace-server"
     /\ d \in Strays \/ \A i \in DOMAIN q.hay : ~q.hay[i].user

\* Every question is answered from its own haystack, whatever ran before, but for
\* the leftovers and the searches without a scope that are named above
\* (the factories of cross_validate_longmemeval.py, 124-408).
Isolated ==
  \A i \in DOMAIN records : \A d \in ToSet(records[i].hits) :
    IsOwn(d, records[i].q) \/ IsLeftover(d, records[i].q) \/ IsUnscoped(d, records[i].q)

\* A source is credited when a document of that name was retrieved, or one whose
\* name begins with it; a hit is credited exactly when one of the first five is a
\* source and the adapter's ids are the names of sessions; and a source retrieved
\* is in the context as well, unless the text alone would name it and does not
\* (_score_and_judge, 560-683).
CreditIsEarned ==
  \A i \in DOMAIN records :
    LET r == records[i]
        found == {d.s : d \in ToSet(r.hits)}
        first == {r.hits[k].s : k \in {n \in DOMAIN r.hits : n <= 5}}
        exact == ToSet(r.q.expected) \cap found
    IN /\ \A s \in r.matched : s \in found \/ \E n \in found : n # s /\ Within(s, n)
       /\ r.hit5 <=> ToSet(r.q.expected) \cap first # {} /\ plan.backend \in Identified
       /\ r.hit1 => r.hit5
       /\ \A s \in exact \ r.matched : \E d \in ToSet(r.hits) :
            d.s = s /\ (d.text # "rich" \/ plan.backend = "hindsight")

\* As many questions of a type as of another, unless there are no more of it.
Even(qs, all) ==
  \A s, t \in ToSet(TypeOrder) :
    \/ Len(OfType(qs, s)) + 1 >= Len(OfType(qs, t))
    \/ Len(OfType(qs, s)) = Len(OfType(all, s))

\* A report holds no question twice, as many as there are up to the cap, and as
\* many of every type when that was asked for (run of the cross-validation and of
\* run_longmemeval_mempalace.py, _stratified_cap).
ReportWhole ==
  report.whole =>
    LET p == report.plan
        asked == [i \in DOMAIN report.records |-> report.records[i].q]
    IN /\ IsInjective(asked)
       /\ ToSet(asked) \subseteq ToSet(Questions(p))
       /\ Len(asked) = p.cap \/ (Len(asked) < p.cap /\ Len(asked) = Len(Questions(p)))
       /\ p.stratify /\ Corpus(p) = "longmemeval" => Even(asked, Questions(p))

\* The three tallies of the verdicts agree: the two of a report, and the one the
\* sweep would make of the same rows, which counts an abstention as right only where
\* one was asked for, and errors among the rows; and no error is a disagreement
\* (aggregate 968-1067, dual_metric.py, aggregate_labels of reader_sweep.py).
TalliesAgree ==
  report.whole =>
    LET rs == report.records
    IN /\ report.summary.rates = report.summary.dual
       /\ report.summary.overall[1] = QaAcc(rs)[1]
       /\ QaAcc(rs)[2] = report.summary.overall[2]
                         + Count(rs, LAMBDA r : r.label \in {"ERROR", "skipped"})
       /\ \A i \in report.summary.disagree : rs[i].label # "ERROR"

--------------------------------------------------------------------------------
(* Properties of the sweep. *)

\* What the missing locks cost: a model refuses its temperature at most once per
\* worker, in all configurations together, and not once per record; a lane's
\* client is built at most once per worker (answer_generator.py 149-230).
Charges ==
  /\ \A m \in Models : rejected[m] <= Concurrency
  /\ \A l \in Lanes : built[l] <= Concurrency

\* A sweep that is through has a row of every record under every configuration, in
\* their order; of one that raised nothing is kept although every record that was
\* handed to the pool has been carried out (run_one_config 304-365).
SweepWhole ==
  /\ stage = "done" => /\ Len(results) = Len(Configs)
                       /\ \A c \in DOMAIN results : \A i \in DOMAIN pins :
                            /\ results[c][i].q = pins[i]
                            /\ results[c][i].label = "ABSTAIN" => pins[i].abs
                            /\ results[c][i].label = "CORRECT" => ~pins[i].abs
  /\ stage = "raised" /\ ~Serial => \A i \in DOMAIN pins : at[i] \in {"done", "raised"}

\* With any number of threads a sweep does what it does without: rows appear in the
\* order of the records, each with a verdict on its own record that later steps do
\* not change, configurations follow one another, and the first record in that
\* order that raises ends it ("identical to serial regardless of K": run_one_config
\* 320-324).
Taken    == [i \in 1..(next - 1) |-> Row(i)]
OneByOne == INSTANCE SerialSweep WITH rows <- Taken
AsSerial == OneByOne!SerialSpec

\* A sweep ends, with its results or with the exception of a record.
SweepEnds == stage = "on" ~> stage \in {"raised", "done"}
================================================================================
