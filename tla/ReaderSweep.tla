---------------------------- MODULE ReaderSweep ----------------------------
(***************************************************************************)
(* sme/eval/reader_sweep.py: the contexts pinned by a run are answered and *)
(* graded again by one reader configuration after another, each fanning    *)
(* its records out over a pool of threads.  The workers share the cache of *)
(* clients and the set of models known to refuse `temperature', both of    *)
(* answer_generator.py and both without a lock.                            *)
(*                                                                         *)
(* The judge is of another lane than the readers.                          *)
(***************************************************************************)
EXTENDS Verdicts

CONSTANTS
  Concurrency,  \* --concurrency
  Configs,      \* of the matrix: [lane, model, refuses]
  Lanes         \* bedrock, ollama, default

ASSUME SweepAssumption ==
  /\ Concurrency \in Nat \ {0}
  /\ Configs \in Seq(ToSet(Configs)) /\ Configs # <<>>
  /\ \A i \in DOMAIN Configs : Configs[i].lane \in Lanes /\ Configs[i].refuses \in BOOLEAN

VARIABLES
  stage,       \* of the sweep: "off", "on", "raised", "done"
  pins,        \* the questions of the pinned file
  results,     \* the rows of the configurations that are through
  next,        \* the future the main thread waits for
  at,          \* where every record is
  answer,      \* its hypothesis, "" or "text"
  label,
  cache,       \* _provider_cache
  deprecated,  \* _TEMPERATURE_DEPRECATED
  rejected,    \* history: calls each model refused because of its temperature
  built        \* history: clients built in each lane

svars == <<stage, pins, results, next, at, answer, label, cache, deprecated, rejected, built>>

Stages == {"queued", "build", "client", "ask", "warm", "plain", "judge", "done", "raised"}

config == Configs[Len(results) + 1]
Models == {Configs[i].model : i \in DOMAIN Configs}
\* Fault: a worker whose record raised never gives its place back.
Active_Raised == {i \in DOMAIN pins : at[i] \notin {"queued", "done"}}

Active == {i \in DOMAIN pins : at[i] \notin {"queued", "done", "raised"}}
Serial == Concurrency = 1 \/ Len(pins) <= 1

SweepInit ==
  /\ stage = "off"
  /\ pins = <<>> /\ results = <<>> /\ at = <<>> /\ answer = <<>> /\ label = <<>>
  /\ next = 1
  /\ cache = [l \in Lanes |-> "none"]
  /\ deprecated = {}
  /\ rejected = [m \in Models |-> 0]
  /\ built = [l \in Lanes |-> 0]

\* Every record of a configuration is handed in before the first is waited for.
Submitted(n) ==
  /\ at' = [i \in 1..n |-> "queued"]
  /\ answer' = [i \in 1..n |-> ""]
  /\ label' = [i \in 1..n |-> "ERROR"]
  /\ next' = 1

\* load_pinned_context refuses a file without records, or with one that has no
\* context; an empty context is one.
Sweep(records) ==
  /\ stage = "off"
  /\ records # <<>>
  /\ stage' = "on"
  /\ pins' = records
  /\ Submitted(Len(records))
  /\ UNCHANGED <<results, cache, deprecated, rejected, built>>

Moves(i, s) == at' = [at EXCEPT ![i] = s]

Here == UNCHANGED <<stage, pins, results, next>>

--------------------------------------------------------------------------------
(* A worker, with the record i. *)

\* _client_for_model looks into the cache ...
Take(i) ==
  /\ stage = "on"
  /\ at[i] = "queued"
  /\ \A j \in 1..(i - 1) : at[j] # "queued"
  /\ IF Serial THEN next = i ELSE Cardinality(Active) < Concurrency
  /\ Moves(i, IF cache[config.lane] = "none" THEN "build" ELSE "client")
  /\ Here /\ UNCHANGED <<answer, label, cache, deprecated, rejected, built>>

\* ... builds a client if there was none, or raises, or finds that there can be
\* none, which is kept as well ...
Build(i) ==
  /\ at[i] = "build"
  /\ \/ /\ \E c \in {"client", "null"} : cache' = [cache EXCEPT ![config.lane] = c]
        /\ built' = [built EXCEPT ![config.lane] = @ + 1]
        /\ Moves(i, "client")
     \/ /\ UNCHANGED <<cache, built>>
        /\ Moves(i, "raised")
  /\ Here /\ UNCHANGED <<answer, label, deprecated, rejected>>

\* ... and takes what is in the cache now: without a client the answer is "".
Client(i) ==
  /\ at[i] = "client"
  /\ Moves(i, IF cache[config.lane] = "null" THEN "judge" ELSE "ask")
  /\ Here /\ UNCHANGED <<answer, label, cache, deprecated, rejected, built>>

\* The temperature is sent unless the model is known to refuse it.
Request(i) ==
  /\ at[i] = "ask"
  /\ Moves(i, IF config.model \in deprecated THEN "plain" ELSE "warm")
  /\ Here /\ UNCHANGED <<answer, label, cache, deprecated, rejected, built>>

\* Fault: the refusal is not remembered.
Refused_Forgets(i) ==
  /\ at[i] = "warm"
  /\ config.refuses
  /\ rejected' = [rejected EXCEPT ![config.model] = @ + 1]
  /\ Moves(i, "plain")
  /\ Here /\ UNCHANGED <<answer, label, cache, deprecated, built>>

\* The model refuses: it is remembered, and the call made again without.
Refused(i) ==
  /\ at[i] = "warm"
  /\ config.refuses
  /\ deprecated' = deprecated \cup {config.model}
  /\ rejected' = [rejected EXCEPT ![config.model] = @ + 1]
  /\ Moves(i, "plain")
  /\ Here /\ UNCHANGED <<answer, label, cache, built>>

\* An answer, or a failure, whose answer is "".
Reply(i) ==
  /\ at[i] \in {"warm", "plain"}
  /\ \E text \in IF at[i] = "warm" /\ config.refuses THEN {""} ELSE {"", "text"} :
       answer' = [answer EXCEPT ![i] = text]
  /\ Moves(i, "judge")
  /\ Here /\ UNCHANGED <<label, cache, deprecated, rejected, built>>

\* grade_answer: the judge's client is built for every record, which may raise or
\* give none, and the call is retried; there is a reply in the end, or none.
Grade(i) ==
  /\ at[i] = "judge"
  /\ \/ /\ Moves(i, "raised")
        /\ UNCHANGED label
     \/ /\ \E reply \in {"yes", "no", "none"} :
             label' = [label EXCEPT ![i] = Graded(AskedAgainAs(pins[i]), reply)]
        /\ Moves(i, "done")
  /\ Here /\ UNCHANGED <<answer, cache, deprecated, rejected, built>>

Work(i) == Take(i) \/ Build(i) \/ Client(i) \/ Request(i) \/ Refused(i) \/ Reply(i) \/ Grade(i)

--------------------------------------------------------------------------------
(* The main thread. *)

\* Fault: a row is taken from a record that is still with the judge.
Await_Early ==
  /\ stage = "on"
  /\ next <= Len(pins)
  /\ at[next] \in {"judge", "done"}
  /\ next' = next + 1
  /\ UNCHANGED <<stage, pins, results, at, answer, label, cache, deprecated, rejected, built>>

Await ==
  /\ stage = "on"
  /\ next <= Len(pins)
  /\ at[next] = "done"
  /\ next' = next + 1
  /\ UNCHANGED <<stage, pins, results, at, answer, label, cache, deprecated, rejected, built>>

\* Fault: the pool is left without waiting for its threads.
Raise_AtOnce ==
  /\ stage = "on"
  /\ next <= Len(pins)
  /\ at[next] = "raised"
  /\ stage' = "raised"
  /\ UNCHANGED <<pins, results, next, at, answer, label, cache, deprecated, rejected, built>>

\* A future that raises leaves the pool, whose exit waits for all the others: they
\* are carried out, and dropped.  The serial loop just ends.
Raise ==
  /\ stage = "on"
  /\ next <= Len(pins)
  /\ at[next] = "raised"
  /\ Serial \/ \A i \in DOMAIN pins : at[i] \in {"done", "raised"}
  /\ stage' = "raised"
  /\ UNCHANGED <<pins, results, next, at, answer, label, cache, deprecated, rejected, built>>

\* The rows are in the order of the records.
Row(i) == [q |-> pins[i], label |-> label[i]]

NextConfig ==
  /\ stage = "on"
  /\ next > Len(pins)
  /\ results' = Append(results, [i \in DOMAIN pins |-> Row(i)])
  /\ IF Len(results') = Len(Configs)
     THEN stage' = "done" /\ UNCHANGED <<next, at, answer, label>>
     ELSE Submitted(Len(pins)) /\ UNCHANGED stage
  /\ UNCHANGED <<pins, cache, deprecated, rejected, built>>

SweepStep == Await \/ Raise \/ NextConfig \/ \E i \in DOMAIN at : Work(i)
================================================================================
