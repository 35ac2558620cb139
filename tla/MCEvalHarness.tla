--------------------------- MODULE MCEvalHarness ---------------------------
(* EvalHarness with six small datasets: two of LongMemEval and its oracle, *)
(* which holds fewer sessions of the same questions, a LoCoMo file of two  *)
(* samples, and two buckets of BEAM with the same conversation; up to      *)
(* three runs, chosen for what the first may leave to the others.          *)
EXTENDS EvalHarness

Session(prefix, k) == [id |-> Name(prefix, k), user |-> TRUE]
Silent(prefix, k)  == [id |-> Name(prefix, k), user |-> FALSE]

LongRecord(id, type, abs, sessions, answers) ==
  [id |-> id, type |-> type, category |-> IF type = "temporal-reasoning" THEN "cat_6" ELSE "cat_2c",
   abs |-> abs, sessions |-> sessions, answers |-> answers]

LongS == <<
  LongRecord("qa", "multi-session", FALSE,
             <<Session("a", 1), Session("a", 2)>>, <<Name("a", 1), Name("a", 2)>>),
  LongRecord("qb_abs", "multi-session", TRUE, <<Silent("b", 1)>>, <<>>)>>

Oracle == <<
  LongRecord("qa", "multi-session", FALSE, <<Session("a", 1)>>, <<Name("a", 1)>>)>>

LongM == <<
  LongRecord("qc", "multi-session", FALSE, <<Session("c", 1)>>, <<Name("c", 1)>>),
  LongRecord("qd_abs", "multi-session", TRUE, <<Session("d", 1)>>, <<>>),
  LongRecord("qf", "multi-session", FALSE, <<Session("f", 1)>>, <<Name("f", 1)>>),
  LongRecord("qe", "temporal-reasoning", FALSE, <<Session("e", 1)>>, <<Name("e", 1)>>)>>

Dia(session)  == [session |-> session, turn |-> "1"]
Malformed     == [session |-> 0, turn |-> "malformed"]

Samples == <<
  [id |-> "conv-26", sessions |-> <<Session("D", 1), Session("D", 10)>>,
   qa |-> <<[category |-> 3, evidence |-> <<Dia(1), Malformed, Dia(1)>>],
            [category |-> 5, evidence |-> <<Dia(10)>>]>>],
  [id |-> "conv-30", sessions |-> <<Session("D", 1)>>,
   qa |-> <<[category |-> 1, evidence |-> <<Dia(1)>>]>>]>>

Turns(session, turns) == [id |-> session.id, user |-> TRUE, turns |-> turns]

Conversation(sessions, items) == <<[id |-> "1", sessions |-> sessions, items |-> items]>>
Item(turns) == [ability |-> "multi_session_reasoning", category |-> "cat_2c", turns |-> turns]

FilesOf ==
  [S      |-> [corpus |-> "longmemeval", records |-> LongS],
   oracle |-> [corpus |-> "longmemeval", records |-> Oracle],
   M      |-> [corpus |-> "longmemeval", records |-> LongM],
   locomo |-> [corpus |-> "locomo", records |-> Samples],
   small  |-> [corpus |-> "beam",
               records |-> Conversation(<<Turns(Session("S", 0), {1})>>, <<Item({1})>>)],
   large  |-> [corpus |-> "beam",
               records |-> Conversation(<<Turns(Session("S", 0), {1}), Turns(Session("S", 1), {2})>>,
                                        <<Item({2}),
                                          [ability |-> "abstention",
                                           category |-> "cat_1_negative", turns |-> {}]>>)]]

TypesOf == <<"multi-session", "temporal-reasoning">>

StraysOf == {[ds |-> "elsewhere", v |-> "elsewhere", s |-> Name("x", 1), text |-> "rich"]}

Run(ds, backend) ==
  [ds |-> ds, backend |-> backend, kept |-> FALSE, rules |-> "sme-rich", judge |-> FALSE,
   cap |-> 3, stratify |-> FALSE, pin |-> FALSE]

Kept(p)   == [p EXCEPT !.kept = TRUE]
Plain(p)  == [p EXCEPT !.rules = "upstream-exact"]
Judging(p) == [p EXCEPT !.judge = TRUE]
Pinning(p) == [p EXCEPT !.pin = TRUE]

HistoriesOf ==
  { <<Kept(Run("S", "flat")), Judging(Kept(Run("oracle", "flat")))>>,
    <<Kept(Run("S", "omega")), Kept(Plain(Run("oracle", "omega")))>>,
    <<Kept(Run("large", "full-context")), Kept(Run("small", "karpathy-compiled"))>>,
    <<Run("large", "hindsight"), Judging(Run("small", "hindsight"))>>,
    <<Kept(Run("large", "flat")), Kept(Run("small", "hindsight")), Run("small", "hindsight")>>,
    <<Run("S", "postgres"), Judging(Plain(Run("S", "postgres")))>>,
    <<Run("locomo", "mempalace-server"), Judging(Plain(Run("S", "mempalace-server")))>>,
    <<Run("S", "mempalace-daemon"), Run("oracle", "mempalace-daemon")>>,
    <<Run("S", "familiar"), Run("oracle", "mempalace-daemon")>>,
    <<Judging(Run("locomo", "flat"))>>,
    <<Judging([Run("M", "flat") EXCEPT !.stratify = TRUE])>>,
    <<Run("S", "mempalace"), Pinning(Plain(Run("M", "mempalace-daemon")))>> }

ConfigsOf == <<[lane |-> "bedrock", model |-> "opus", refuses |-> TRUE],
               [lane |-> "bedrock", model |-> "opus", refuses |-> TRUE]>>
=============================================================================
