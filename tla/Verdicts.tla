------------------------------ MODULE Verdicts ------------------------------
(***************************************************************************)
(* sme/eval: what a retrieval is credited with, what the judge makes of an *)
(* answer, and the three tallies of the verdicts: aggregate of the cross-  *)
(* validation, aggregate_dual_metric, and aggregate_labels of the reader   *)
(* sweep.  Fractions are pairs of numbers, left as they are.               *)
(***************************************************************************)
EXTENDS Corpora, FiniteSets

Labels == {"CORRECT", "INCORRECT", "ABSTAIN", "ERROR"}

--------------------------------------------------------------------------------
(* The judge. *)

\* _template_for_question_type.
Template(type, abstain) ==
  IF abstain \/ type = "abstention" THEN "abstention"
  ELSE IF type \in {"temporal-reasoning", "knowledge-update", "single-session-preference"}
       THEN type ELSE "base"

\* What the judge is told of a question: an abstention is asked about as such,
\* whatever its type.
AskedAs(q) == IF q.abs THEN "abstention" ELSE q.judgedAs

\* The sweep asks the judge by the type in the record, which for LoCoMo is not the
\* one that the run told it.
AskedAgainAs(q) == IF q.abs THEN "abstention" ELSE q.type

\* grade_answer: a reply with "yes" in it, one without, or none after the retries
\* or without a client.
Graded(asked, reply) ==
  CASE reply = "none" -> "ERROR"
    [] reply = "yes" -> IF Template(asked, asked = "abstention") = "abstention"
                        THEN "ABSTAIN" ELSE "CORRECT"
    [] OTHER -> "INCORRECT"

Count(seq, P(_)) == Cardinality({i \in DOMAIN seq : P(seq[i])})

--------------------------------------------------------------------------------
(* The credit of a retrieval. *)

\* sme_substring_recall: the sources expected whose names are in the context.
Matched(expected, names) == {s \in ToSet(expected) : \E n \in names : Within(s, n)}

\* hit_at_K of the ids retrieved, in the order they were.
HitAt(k, expected, ids) ==
  \E i \in DOMAIN ids : i <= k /\ Contains(expected, ids[i])

\* sme_recall >= 0.5; a question that expects nothing has none.
Recalls(r) == r.q.expected # <<>> /\ 2 * Cardinality(r.matched) >= Len(r.q.expected)

\* judge_label_to_correct.
Right(label) == label \in {"CORRECT", "ABSTAIN"}

\* Fault: an error counts as judged.
Judged_Error(label) == label \in Labels

\* judge_label_to_qa_correct: not None.
Judged(label) == label \in Labels \ {"ERROR"}

\* _is_disagreement.
Disagrees(r) == Judged(r.label) /\ Recalls(r) # Right(r.label)

--------------------------------------------------------------------------------
(* The tallies. *)

Categories(records) == {records[i].q.category : i \in DOMAIN records}

\* The slot of a category: how many records, and of each label.
Slot(records) ==
  [n  |-> Len(records),
   of |-> [x \in Labels \cup {"skipped"} |-> Count(records, LAMBDA r : r.label = x)]]

\* aggregate: judge_correct_rate of a category.
CorrectRate(slot) == <<slot.of["CORRECT"] + slot.of["ABSTAIN"],
                       slot.of["CORRECT"] + slot.of["INCORRECT"] + slot.of["ABSTAIN"]>>

\* aggregate_dual_metric: qa_accuracy of a category or of all; a label of no
\* slot, and a missing one, is an error.
QaAccuracy(records) ==
  <<Count(records, LAMBDA r : Right(r.label)), Count(records, LAMBDA r : Judged(r.label))>>

\* aggregate_labels: qa_acc, of rows with their abstention flag; an error is one
\* of the rows.
QaAcc(rows) ==
  <<Count(rows, LAMBDA r : r.label = "CORRECT" \/ (r.label = "ABSTAIN" /\ r.q.abs)), Len(rows)>>

\* Every question whose first entity is none expected, or that has none.
RankOneMisses(records) == {i \in DOMAIN records : ~records[i].hit1}

Summary(records) ==
  LET Of(c) == Among(records, {r \in ToSet(records) : r.q.category = c})
  IN [slots    |-> [c \in Categories(records) |-> Slot(Of(c))],
      rates    |-> [c \in Categories(records) |-> CorrectRate(Slot(Of(c)))],
      dual     |-> [c \in Categories(records) |-> QaAccuracy(Of(c))],
      overall  |-> QaAccuracy(records),
      disagree |-> {i \in DOMAIN records : Disagrees(records[i])},
      missed   |-> RankOneMisses(records)]
================================================================================
