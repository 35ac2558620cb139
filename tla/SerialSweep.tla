---------------------------- MODULE SerialSweep ----------------------------
(***************************************************************************)
(* What run_one_config and run_sweep of sme/eval/reader_sweep.py promise   *)
(* for any number of threads: the results of the loop that grades one      *)
(* record after another, one configuration after another, and stops at the *)
(* first record that raises.                                               *)
(*                                                                         *)
(* EvalHarness, with the pool of ReaderSweep, implements this.             *)
(***************************************************************************)
EXTENDS Verdicts

CONSTANT Configs   \* of the matrix: only their number matters here

VARIABLES
  stage,     \* of the sweep: "off", "on", "raised", "done"
  pins,      \* the questions of the pinned file
  rows,      \* the rows of the configuration under way, in the order of the records
  results    \* the rows of the configurations that are through

serialVars == <<stage, pins, rows, results>>

\* The verdicts that the judge may come to.
VerdictsOn(q) == {Graded(AskedAgainAs(q), reply) : reply \in {"yes", "no", "none"}}

SerialInit == stage = "off" /\ pins = <<>> /\ rows = <<>> /\ results = <<>>

\* A file of pinned contexts is read, whichever.
Pin ==
  /\ stage = "off"
  /\ stage' = "on"
  /\ pins' # <<>>
  /\ UNCHANGED <<rows, results>>

GradeNext ==
  /\ stage = "on" /\ Len(rows) < Len(pins)
  /\ LET q == pins[Len(rows) + 1]
     IN \E l \in VerdictsOn(q) : rows' = Append(rows, [q |-> q, label |-> l])
  /\ UNCHANGED <<stage, pins, results>>

\* The next record raises, and the loop with it.
GiveUp ==
  /\ stage = "on" /\ Len(rows) < Len(pins)
  /\ stage' = "raised"
  /\ UNCHANGED <<pins, rows, results>>

EndConfig ==
  /\ stage = "on" /\ Len(rows) = Len(pins)
  /\ results' = Append(results, rows)
  /\ IF Len(results') = Len(Configs)
     THEN stage' = "done" /\ UNCHANGED rows
     ELSE rows' = <<>> /\ UNCHANGED stage
  /\ UNCHANGED pins

SerialNext == Pin \/ GradeNext \/ GiveUp \/ EndConfig

SerialSpec == SerialInit /\ [][SerialNext]_serialVars
=============================================================================
