-------------------------- MODULE MCDaemonPipeline --------------------------
(* Two conversations for TLC; the name of a session occurs in both.         *)
EXTENDS DaemonPipeline
CONSTANTS convA, convB, D1, D2
MCSample  == {convA, convB}
MCSession == {D1, D2}
MCPosts   == <<<<convA, D1>>, <<convA, D2>>, <<convB, D1>>>>
Asking(sample, evidence) == [sample |-> sample, evidence |-> evidence]
MCQuestions == <<Asking(convA, {D1}), Asking(convB, {D1})>>
=============================================================================
