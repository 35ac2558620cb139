------------------------------ MODULE Corpora ------------------------------
(***************************************************************************)
(* sme/corpora: the loaders of LongMemEval, LoCoMo and BEAM, which turn a  *)
(* record of the dataset into questions, each with the sessions of its     *)
(* haystack and the sessions its answer is in, and write the sessions as   *)
(* markdown files for an adapter to read.  A LongMemEval question has a    *)
(* haystack of its own; the questions of a LoCoMo sample or a BEAM         *)
(* conversation share one.                                                 *)
(*                                                                         *)
(* A session is named by a prefix and a number: D1 of LoCoMo, S1 of BEAM,  *)
(* answer_..._1 of LongMemEval.                                            *)
(***************************************************************************)
EXTENDS Naturals, Sequences, SequencesExt

Name(prefix, k) == <<prefix, k>>

\* The name a is a substring of the name b: D1 of D1, and of D10 to D19.
Within(a, b) == /\ a[1] = b[1]
                /\ \/ a[2] = b[2]
                   \/ b[2] >= 10 /\ a[2] = b[2] \div 10

--------------------------------------------------------------------------------
(* A session rendered.  "rich" is the text with the front matter, which     *)
(* holds the name of the session; "plain" the turns of the user and nothing *)
(* else, as upstream writes it; and "blank" is plain where the user says    *)
(* nothing.                                                                 *)

Text(session, rules) ==
  IF rules = "sme-rich" THEN "rich"
  ELSE IF session.user THEN "plain" ELSE "blank"

Document(ds, q, session, rules) ==
  [ds |-> ds, v |-> q.vault, s |-> session.id, text |-> Text(session, rules)]

Documents(ds, q, rules) == {Document(ds, q, q.hay[i], rules) : i \in DOMAIN q.hay}

\* Files or rows that are replaced by those of the same name, and kept when there
\* is none: write_text into a directory that exists, an upsert.
Upsert(old, new) == {d \in old : \A e \in new : e.s # d.s} \cup new

\* materialize_sme_corpus for one question of the vault: a file for every session
\* is written, and no file is removed.
Materialized(files, ds, q, rules) == Upsert(files, Documents(ds, q, rules))

--------------------------------------------------------------------------------
(* The loaders. *)

\* The elements of seq that are in S, in their order: SelectSeq, as a fold.
Among(seq, S) ==
  FoldLeft(LAMBDA kept, x : IF x \in S THEN Append(kept, x) ELSE kept, <<>>, seq)

\* The category of a LongMemEval question is that of its type, unless its id ends
\* in _abs.
FromLongMemEval(record) ==
  [id       |-> <<record.id>>,
   vault    |-> record.id,
   type     |-> record.type,
   judgedAs |-> record.type,
   category |-> IF record.abs THEN "cat_1_negative" ELSE record.category,
   abs      |-> record.abs,
   hay      |-> record.sessions,
   expected |-> record.answers]

\* Evidence that is no D<session>:<turn> is skipped, a session is named once.
EvidenceSessions(dias) ==
  LET Step(seen, dia) ==
        IF dia.turn = "malformed" \/ Contains(seen, Name("D", dia.session)) THEN seen
        ELSE Append(seen, Name("D", dia.session))
  IN FoldLeft(Step, <<>>, dias)

\* The types of LoCoMo, and the type the judge is told instead.
LoCoMoType == <<"multi-hop", "single-hop", "temporal", "open-domain", "adversarial">>

JudgeType(type) ==
  CASE type = "single-hop" -> "single-session-user"
    [] type \in {"multi-hop", "open-domain"} -> "multi-session"
    [] type = "temporal" -> "temporal-reasoning"
    [] OTHER -> type

LoCoMoCategory == <<"cat_2c", "cat_1", "cat_6", "unmapped", "cat_1_negative">>

\* Every question of a sample carries all its sessions.
FromLoCoMo(sample) ==
  LET Question(i, qa) ==
        [id       |-> <<sample.id, i>>,
         vault    |-> sample.id,
         type     |-> LoCoMoType[qa.category],
         judgedAs |-> JudgeType(LoCoMoType[qa.category]),
         category |-> LoCoMoCategory[qa.category],
         abs      |-> qa.category = 5,
         hay      |-> sample.sessions,
         expected |-> EvidenceSessions(qa.evidence)]
  IN [i \in DOMAIN sample.qa |-> Question(i, sample.qa[i])]

\* A BEAM question names turns; its sessions are those that hold one of them, in
\* the order of the conversation.  Its type is the ability it probes.
SessionsOfTurns(sessions, turns) ==
  LET Holding == Among(sessions, {x \in ToSet(sessions) : x.turns \cap turns # {}})
  IN [i \in DOMAIN Holding |-> Holding[i].id]

FromBeam(conv) ==
  LET Question(i, item) ==
        [id       |-> <<conv.id, i>>,
         vault    |-> conv.id,
         type     |-> item.ability,
         judgedAs |-> item.ability,
         category |-> item.category,
         abs      |-> item.ability = "abstention",
         hay      |-> conv.sessions,
         expected |-> SessionsOfTurns(conv.sessions, item.turns)]
  IN [i \in DOMAIN conv.items |-> Question(i, conv.items[i])]

Flattened(seqs) == FoldLeft(LAMBDA a, b : a \o b, <<>>, seqs)

\* load_questions of the three loaders; the file names the corpus it is of.
Loaded(file) ==
  CASE file.corpus = "longmemeval" ->
         [i \in DOMAIN file.records |-> FromLongMemEval(file.records[i])]
    [] file.corpus = "locomo" ->
         Flattened([i \in DOMAIN file.records |-> FromLoCoMo(file.records[i])])
    [] file.corpus = "beam" ->
         Flattened([i \in DOMAIN file.records |-> FromBeam(file.records[i])])

--------------------------------------------------------------------------------
(* What a run takes of them. *)

OfType(qs, type) == Among(qs, {q \in ToSet(qs) : q.type = type})

\* Fault: every round gives the first question of its types.
Round_First(qs, types, k) ==
  LET Giving == Among(types, {t \in ToSet(types) : Len(OfType(qs, t)) >= k})
  IN [i \in DOMAIN Giving |-> OfType(qs, Giving[i])[1]]

\* _stratified_cap: rounds over the types, each giving its next question, until
\* n are taken.  The types come in the order of their names.
Round(qs, types, k) ==
  LET Giving == Among(types, {t \in ToSet(types) : Len(OfType(qs, t)) >= k})
  IN [i \in DOMAIN Giving |-> OfType(qs, Giving[i])[k]]

Stratified(qs, types, n) ==
  LET all == Flattened([k \in DOMAIN qs |-> Round(qs, types, k)])
  IN SubSeq(all, 1, IF Len(all) < n THEN Len(all) ELSE n)

Capped(qs, n) == SubSeq(qs, 1, IF Len(qs) < n THEN Len(qs) ELSE n)

\* The vaults of the questions, in the order they are first met.
VaultsMet(qs) ==
  LET Met(seen, q) == IF Contains(seen, q.vault) THEN seen ELSE Append(seen, q.vault)
  IN FoldLeft(Met, <<>>, qs)

\* LoCoMo and BEAM: the questions capped are grouped by their vault; a LongMemEval
\* question is a group of its own.
Groups(corpus, qs) ==
  IF corpus = "longmemeval" THEN [i \in DOMAIN qs |-> <<qs[i]>>]
  ELSE LET vaults == VaultsMet(qs)
       IN [i \in DOMAIN vaults |-> Among(qs, {q \in ToSet(qs) : q.vault = vaults[i]})]
================================================================================
