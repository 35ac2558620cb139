----------------------------- MODULE RemoteCall -----------------------------
(***************************************************************************)
(* What a caller of engram's MCP client may rely on, without processes,    *)
(* pipes or message ids.  A call is sent at most once, the server executes *)
(* it at most once and may do so after the caller has given up on it, and  *)
(* a call that returns a value has been executed.                          *)
(*                                                                         *)
(* EngramTransport implements this specification; EngramAdapter is built   *)
(* on it.                                                                  *)
(***************************************************************************)
EXTENDS Naturals

CONSTANT MaxCalls     \* bound on the calls a behaviour makes

VARIABLES
  call,      \* number of the current or last call; 0 before the first
  busy,      \* a call is running
  pending,   \* calls handed to the server that it has not executed
  done,      \* calls the server has executed
  verdict    \* how the last call ended: "none", "ok" or "error"

remoteVars == <<call, busy, pending, done, verdict>>

Init == /\ call = 0
        /\ busy = FALSE
        /\ pending = {}
        /\ done = {}
        /\ verdict = "none"

Invoke == /\ ~busy
          /\ call < MaxCalls
          /\ call' = call + 1
          /\ busy' = TRUE
          /\ verdict' = "none"
          /\ UNCHANGED <<pending, done>>

Send == /\ busy
        /\ call \notin pending \cup done
        /\ pending' = pending \cup {call}
        /\ UNCHANGED <<call, busy, done, verdict>>

\* The server's side of a call.  Nothing ties it to the caller: the call may
\* be an old one the caller has already reported as failed.
Execute(c) == /\ c \in pending
              /\ pending' = pending \ {c}
              /\ done' = done \cup {c}
              /\ UNCHANGED <<call, busy, verdict>>

Return == /\ busy
          /\ call \in done
          /\ busy' = FALSE
          /\ verdict' = "ok"
          /\ UNCHANGED <<call, pending, done>>

\* A call that raises says nothing about whether it was, or will be, executed.
Raise == /\ busy
         /\ busy' = FALSE
         /\ verdict' = "error"
         /\ UNCHANGED <<call, pending, done>>

\* The server died: what it had not executed it never will.
Lose == /\ pending' = {}
        /\ UNCHANGED <<call, busy, done, verdict>>

Next == \/ Invoke
        \/ Send
        \/ \E c \in pending : Execute(c)
        \/ Return
        \/ Raise
        \/ Lose

Spec == Init /\ [][Next]_remoteVars
=============================================================================
