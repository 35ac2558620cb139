------------------------------ MODULE ToolLoop ------------------------------
(***************************************************************************)
(* Category 9a: a ladder of models, each asked every question with the     *)
(* palace's search as a tool (scripts/cat9a_invocation_rate.py,            *)
(* sme/eval/cat9a_orchestrators.py, run_cat9a of harness_integration.py).  *)
(* It is the command "cat9a" of PalaceReads, over the same live store.     *)
(*                                                                         *)
(* The models and the daemon's /search are external.                       *)
(***************************************************************************)
EXTENDS PalaceReads

CONSTANTS
    Ladder,  \* the models in order: the lane of each one's driver
    Quiz,    \* the questions in order: the files each one expects
    Turns,   \* _MAX_TOOL_ITERATIONS
    Uses     \* tool uses in one turn

ASSUME LadderAssumption ==
    /\ Ladder \in Seq({"bedrock", "ollama"}) /\ Ladder # <<>>
    /\ Quiz \in Seq(SUBSET Nat) /\ Quiz # <<>>
    /\ Turns \in Nat \ {0} /\ Uses \in Nat

VARIABLES
    rung,      \* the model in turn
    gets,      \* backend.queries: searches this model's backend was asked
    readings,  \* of the questions this model is through with
    turn,      \* of the question
    left,      \* tool uses of this turn still to run
    now,       \* the question so far: tool_calls, captured, answer_parts
    matrix     \* a row for every model that is through

loop == <<rung, gets, readings, turn, left, now, matrix>>
lvars == <<vars, loop>>

Blank == [calls |-> 0, captured |-> {}, spoken |-> {}]

LoopInit ==
    /\ rung = 1 /\ gets = 0 /\ readings = <<>> /\ turn = 1 /\ left = 0 /\ now = Blank
    /\ matrix = <<>>

Elsewhere == UNCHANGED <<store, conf, got, graph, pairs, asking, writes, clean, past>>

(* The model after this one; after the last the matrix is written. *)
NextRung ==
    /\ rung' = rung + 1
    /\ pc' = IF rung = Len(Ladder) THEN "done" ELSE "driver"

(* The next question, or the end of run_cat9a. *)
NextQuestion ==
    /\ turn' = 1 /\ left' = 0 /\ now' = Blank
    /\ pc' = IF Len(readings') = Len(Quiz) THEN "save" ELSE "turn"

expected == Quiz[Len(readings) + 1]

(* The sources are looked for in what was captured and in what the model   *)
(* itself said, which is part of the context.                              *)
Answered(n) ==
    /\ readings' = Append(readings, [calls |-> n.calls, error |-> FALSE, spoken |-> n.spoken,
                                     matched |-> expected \cap (n.captured \cup n.spoken)])
    /\ NextQuestion

(* A driver that raises has made no call, whatever it searched for. *)
Raised ==
    /\ readings' = Append(readings, [calls |-> 0, error |-> TRUE, spoken |-> {},
                                     matched |-> {}])
    /\ NextQuestion

-----------------------------------------------------------------------------

\* Fault: one backend, and one log of searches, for the whole ladder.
Driver_Shared ==
    /\ pc = "driver"
    /\ readings' = <<>>
    /\ \/ pc' = "turn" /\ UNCHANGED rung
       \/ NextRung
    /\ Elsewhere /\ UNCHANGED <<gets, turn, left, now, matrix>>

(* make_orchestrator, over a backend of its own; a model whose client      *)
(* cannot be built is left out of the matrix.                              *)
Driver ==
    /\ pc = "driver"
    /\ gets' = 0 /\ readings' = <<>>
    /\ \/ pc' = "turn" /\ UNCHANGED rung
       \/ NextRung
    /\ Elsewhere /\ UNCHANGED <<turn, left, now, matrix>>

(* The model replies, with text or none and with tool uses or none.  A     *)
(* Claude model may stop for another reason than its tool uses, which are  *)
(* then neither run nor counted.                                           *)
Turn ==
    /\ pc = "turn" /\ turn <= Turns
    /\ \E text \in {{}, expected}, uses \in 0..Uses, stops \in BOOLEAN :
        /\ stops => Ladder[rung] = "bedrock"
        /\ LET said == [now EXCEPT !.spoken = @ \cup text]
           IN  IF uses = 0 \/ stops THEN Answered(said)
               ELSE /\ now' = said /\ left' = uses /\ pc' = "tools"
                    /\ UNCHANGED <<readings, turn>>
    /\ Elsewhere /\ UNCHANGED <<rung, gets, matrix>>

(* The results of the last turn are never shown to the model. *)
Capped ==
    /\ pc = "turn" /\ turn > Turns
    /\ Answered(now)
    /\ Elsewhere /\ UNCHANGED <<rung, gets, matrix>>

(* The call of the model fails. *)
TurnFails ==
    /\ pc = "turn" /\ turn <= Turns
    /\ Raised
    /\ Elsewhere /\ UNCHANGED <<rung, gets, matrix>>

(* One tool use is run.  A daemon that cannot be reached is an answer of   *)
(* one row without a source; in Ollama's lane malformed arguments search   *)
(* for the question itself.                                                *)
Use ==
    /\ pc = "tools"
    /\ \E R \in Sample(ToSet(store.drawers), Limit) \cup {{}} :
        now' = [now EXCEPT !.calls = @ + 1,
                           !.captured = @ \cup ({d.file : d \in R} \ {0})]
    /\ gets' = gets + 1
    /\ left' = left - 1
    /\ IF left = 1 THEN turn' = turn + 1 /\ pc' = "turn" ELSE UNCHANGED <<turn, pc>>
    /\ Elsewhere /\ UNCHANGED <<rung, readings, matrix>>

(* Arguments that are no object, a limit that is no number, or, once the   *)
(* search was asked, an answer that is no JSON object.                     *)
UseFails ==
    /\ pc = "tools"
    /\ gets' \in {gets, gets + 1}
    /\ Raised
    /\ Elsewhere /\ UNCHANGED <<rung, matrix>>

(* The calls of every question, one by one. *)
Calls(s) == UNION {{i} \X (1..s[i].calls) : i \in DOMAIN s}

(* The scorecard of the model, with the number of searches for the audit. *)
Row == [rung |-> rung, total |-> Len(readings), calls |-> Cardinality(Calls(readings)), gets |-> gets,
        errored |-> Cardinality({i \in DOMAIN readings : readings[i].error})]

Save ==
    /\ pc = "save"
    /\ matrix' = Append(matrix, Row)
    /\ readings' = <<>>
    /\ NextRung
    /\ Elsewhere /\ UNCHANGED <<gets, turn, left, now>>

(* The file cannot be written: the matrix never is. *)
SaveFails ==
    /\ pc = "save"
    /\ pc' = "raised"
    /\ Elsewhere /\ UNCHANGED loop

-----------------------------------------------------------------------------

LoopStep == Driver \/ Turn \/ Capped \/ TurnFails \/ Use \/ UseFails \/ Save \/ SaveFails

LiveInit == Init /\ LoopInit

LiveNext == (Next /\ UNCHANGED loop) \/ LoopStep

(* A model answers or its client gives up. *)
LiveSpec == /\ LiveInit /\ [][LiveNext]_lvars
            /\ WF_lvars(Read /\ UNCHANGED loop) /\ WF_lvars(LoopStep)

-----------------------------------------------------------------------------
(* Properties *)

(* A model in the matrix is there once and was asked every question,       *)
(* whatever was raised meanwhile.  The invocations reported of it are      *)
(* searches that its own backend was asked, which is what the run prints   *)
(* to prove that it only reads: as many without an error, and with one the *)
(* log may hold more.  A source credited without a call is one the model   *)
(* named itself.                                                           *)
CallsAreSearches ==
    /\ \A i \in DOMAIN matrix :
        LET r == matrix[i]
        IN  /\ r.total = Len(Quiz)
            /\ r.calls <= r.gets
            /\ r.errored = 0 => r.calls = r.gets
            /\ \A j \in 1..(i - 1) : matrix[j].rung < r.rung
    /\ \A i \in DOMAIN readings :
        readings[i].calls = 0 => readings[i].matched \subseteq readings[i].spoken
=============================================================================
