--------------------------- MODULE EngramTransport ---------------------------
(***************************************************************************)
(* EngramStdioTransport of sme/adapters/engram_adapter.py: a JSON-RPC      *)
(* client that spawns the engram server lazily and speaks to it over two   *)
(* pipes.  The client is one thread; it runs against a child process that  *)
(* may be slow, answer out of order or after the client has given up, emit *)
(* stray lines, stop reading, or die in the middle of a line.              *)
(*                                                                         *)
(* The byte streams are cut where the code can observe a cut: a line is    *)
(* two cells, its text and its newline, and os.read may return any prefix. *)
(* A request is one unit of the stdin pipe.  What a request asks for is    *)
(* its tag (which call, which method); the server copies it into replies,  *)
(* so the properties can tell whose answer a reply is without trusting the *)
(* ids the client matches on.                                              *)
(***************************************************************************)
EXTENDS Naturals, Sequences

CONSTANTS
  MaxCalls,   \* bound on the calls made on one transport object
  InCap,      \* requests the stdin pipe holds before a write blocks
  OutCap      \* cells the stdout pipe holds before the child blocks

ASSUME TransportAssumption == /\ MaxCalls \in Nat \ {0}
                              /\ InCap \in Nat \ {0}
                              /\ OutCap \in Nat \ {0}

VARIABLES
  proc,       \* self._proc is not None
  started,    \* self._started
  nextId,     \* self._next_id
  buf,        \* self._buf, as cells
  pc,         \* where the thread inside call() is
  expected,   \* expected_id of the running _read_result
  expired,    \* its deadline has passed
  call,       \* number of the current or last call
  outcome,    \* how the last call ended, and whose answer it returned
  alive,      \* the child runs
  stdin,      \* requests written and not yet read by the child
  work,       \* requests the child has read and not answered
  torn,       \* the line, if any, the child has written without its newline
  stdout,     \* cells written by the child and not yet read
  greeted,    \* history: this child has answered an initialize
  done        \* history: calls a child has carried out

client == <<proc, started, nextId, buf, pc, expected, expired, call, outcome>>
child  == <<alive, stdin, work, torn, stdout, greeted, done>>
vars   == <<client, child>>

Methods == {"none", "initialize", "notifications/initialized", "tools/call"}
Tag     == [call : Nat, method : Methods]
NoTag   == [call |-> 0, method |-> "none"]
Request == [id : Nat, for : Tag]
Line    == [id : Nat, for : Tag, kind : {"result", "empty", "error", "note"}]
Cell    == [msg : Line, nl : BOOLEAN]

\* A line that is no answer: a JSON-RPC notification, a banner, a blank line.
\* Ids count from 1, so 0 is the id of a message that has none.
Stray == [id |-> 0, for |-> NoTag, kind |-> "note"]

Sending  == {"sendInit", "sendNote", "sendCall"}
Awaiting == {"awaitInit", "awaitCall"}

FlagsOK == {proc, started, expired, alive, greeted} \subseteq BOOLEAN

ClientOK == /\ nextId \in Nat /\ expected \in Nat /\ call \in Nat
            /\ pc \in {"idle", "spawn"} \cup Sending \cup Awaiting
            /\ outcome \in [kind : {"none", "ok", "error"}, for : Tag]
            /\ buf \in Seq(Cell)

ChildOK == /\ stdin \in Seq(Request)
           /\ work \subseteq Request
           /\ torn \subseteq Line
           /\ stdout \in Seq(Cell)
           /\ done \subseteq Nat

TypeOK == FlagsOK /\ ClientOK /\ ChildOK

Init == /\ proc = FALSE /\ started = FALSE
        /\ nextId = 0 /\ expected = 0 /\ expired = FALSE
        /\ buf = <<>>
        /\ pc = "idle"
        /\ call = 0
        /\ outcome = [kind |-> "none", for |-> NoTag]
        /\ alive = FALSE
        /\ stdin = <<>> /\ work = {} /\ torn = {} /\ stdout = <<>>
        /\ greeted = FALSE /\ done = {}

-----------------------------------------------------------------------------
(* The client.                                                             *)

\* _new_id: every request takes the next id, whether or not it gets sent.
NewId == nextId' = nextId + 1

Raise == /\ pc' = "idle"
         /\ outcome' = [kind |-> "error", for |-> NoTag]

\* call() is entered: _ensure_started decides what has to happen first.
BeginCall ==
  /\ pc = "idle"
  /\ call < MaxCalls
  /\ call' = call + 1
  /\ outcome' = [kind |-> "none", for |-> NoTag]
  /\ \/ started  /\ pc' = "sendCall" /\ NewId
     \/ ~started /\ proc  /\ pc' = "sendInit" /\ NewId
     \/ ~started /\ ~proc /\ pc' = "spawn" /\ UNCHANGED nextId
  /\ UNCHANGED <<proc, started, buf, expected, expired, child>>

\* _spawn gives the transport fresh pipes; _buf stays as it was.
Spawn ==
  /\ pc = "spawn"
  /\ proc' = TRUE
  /\ pc' = "sendInit"
  /\ NewId
  /\ alive' = TRUE
  /\ stdin' = <<>> /\ stdout' = <<>> /\ work' = {} /\ torn' = {}
  /\ greeted' = FALSE
  /\ UNCHANGED <<started, buf, expected, expired, call, outcome, done>>

SpawnFails ==
  /\ pc = "spawn"
  /\ Raise
  /\ UNCHANGED <<proc, started, nextId, buf, expected, expired, call, child>>

\* _send writes to a blocking pipe: no room, no step, and no deadline either.
Write(id, method) ==
  /\ alive
  /\ Len(stdin) < InCap
  /\ stdin' = Append(stdin, [id |-> id, for |-> [call |-> call, method |-> method]])

\* The entry of _read_result: a fresh deadline for the id just sent.
Await(stage) == /\ pc' = stage
                /\ expected' = nextId
                /\ expired' = FALSE

SendInit ==
  /\ pc = "sendInit"
  /\ Write(nextId, "initialize")
  /\ Await("awaitInit")
  /\ UNCHANGED <<proc, started, nextId, buf, call, outcome,
                 alive, work, torn, stdout, greeted, done>>

SendInitialized ==
  /\ pc = "sendNote"
  /\ Write(0, "notifications/initialized")
  /\ started' = TRUE
  /\ pc' = "sendCall"
  /\ NewId
  /\ UNCHANGED <<proc, buf, expected, expired, call, outcome,
                 alive, work, torn, stdout, greeted, done>>

SendCall ==
  /\ pc = "sendCall"
  /\ Write(nextId, "tools/call")
  /\ Await("awaitCall")
  /\ UNCHANGED <<proc, started, nextId, buf, call, outcome,
                 alive, work, torn, stdout, greeted, done>>

\* poll() says the child has exited, or the write meets a broken pipe.
SendFails ==
  /\ pc \in Sending
  /\ ~alive
  /\ Raise
  /\ UNCHANGED <<proc, started, nextId, buf, expected, expired, call, child>>

\* The n-th buffered cell is the first newline.
LineEnds(n) == /\ buf[n].nl
               /\ \A i \in 1..(n - 1) : ~buf[i].nl

HasLine    == \E n \in 1..Len(buf) : LineEnds(n)
LineLength == CHOOSE n \in 1..Len(buf) : LineEnds(n)

\* A line parses when it is the text of one message; a text left over from
\* before, glued in front of it, makes it a non-protocol line.
Parsed == IF LineLength = 2 THEN buf[1].msg ELSE Stray

\* Faults: the id is not looked at; any id up to the current one will do.
Answers_Unchecked(m) == TRUE
Answers_Older(m)     == m.id \in 1..expected

\* _next_message returns a buffered line before it looks at the clock, and
\* _read_result keeps the message only when its id is the expected one.
Answers(m) == m.id = expected

SkipLine ==
  /\ pc \in Awaiting
  /\ HasLine
  /\ ~Answers(Parsed)
  /\ buf' = SubSeq(buf, LineLength + 1, Len(buf))
  /\ UNCHANGED <<proc, started, nextId, pc, expected, expired, call, outcome, child>>

\* The awaited message: an error raises; a result ends the handshake's wait, or
\* is the call's value, which must have content.
TakeAnswer ==
  /\ pc \in Awaiting
  /\ HasLine
  /\ Answers(Parsed)
  /\ buf' = SubSeq(buf, LineLength + 1, Len(buf))
  /\ \/ /\ pc = "awaitInit" /\ Parsed.kind # "error"
        /\ pc' = "sendNote"
        /\ UNCHANGED outcome
     \/ /\ pc = "awaitCall" /\ Parsed.kind \notin {"error", "empty"}
        /\ pc' = "idle"
        /\ outcome' = [kind |-> "ok", for |-> Parsed.for]
     \/ /\ \/ Parsed.kind = "error"
           \/ pc = "awaitCall" /\ Parsed.kind = "empty"
        /\ Raise
  /\ UNCHANGED <<proc, started, nextId, expected, expired, call, child>>

\* Fault: the deadline is looked at only when the pipe has nothing to read.
ReadChunk_NoDeadline ==
  /\ pc \in Awaiting
  /\ ~HasLine
  /\ \E k \in 1..Len(stdout) :
       /\ buf' = buf \o SubSeq(stdout, 1, k)
       /\ stdout' = SubSeq(stdout, k + 1, Len(stdout))
  /\ UNCHANGED <<proc, started, nextId, pc, expected, expired, call, outcome,
                 alive, stdin, work, torn, greeted, done>>

\* No complete line is buffered: select says the pipe is readable, and os.read
\* returns what is there or a part of it.
ReadChunk ==
  /\ pc \in Awaiting
  /\ ~HasLine
  /\ ~expired
  /\ \E k \in 1..Len(stdout) :
       /\ buf' = buf \o SubSeq(stdout, 1, k)
       /\ stdout' = SubSeq(stdout, k + 1, Len(stdout))
  /\ UNCHANGED <<proc, started, nextId, pc, expected, expired, call, outcome,
                 alive, stdin, work, torn, greeted, done>>

ReadEof ==
  /\ pc \in Awaiting
  /\ ~HasLine
  /\ ~expired
  /\ stdout = <<>>
  /\ ~alive
  /\ Raise
  /\ UNCHANGED <<proc, started, nextId, buf, expected, expired, call, child>>

\* The clock, not the client, decides when the deadline passes.
DeadlinePasses ==
  /\ pc \in Awaiting
  /\ ~expired
  /\ expired' = TRUE
  /\ UNCHANGED <<proc, started, nextId, buf, pc, expected, call, outcome, child>>

\* Nothing is undone: the request stays sent, the child stays as it is.
TimeOut ==
  /\ pc \in Awaiting
  /\ ~HasLine
  /\ expired
  /\ Raise
  /\ UNCHANGED <<proc, started, nextId, buf, expected, expired, call, child>>

\* close(): kill the child, drop both pipes.  _next_id and _buf survive.
Close ==
  /\ pc = "idle"
  /\ proc
  /\ proc' = FALSE
  /\ started' = FALSE
  /\ alive' = FALSE
  /\ stdin' = <<>> /\ stdout' = <<>> /\ work' = {} /\ torn' = {}
  /\ UNCHANGED <<nextId, buf, pc, expected, expired, call, outcome, greeted, done>>

-----------------------------------------------------------------------------
(* The child: the engram server, known here only by what the client can    *)
(* meet.  Its stdout writes are synchronous and its handlers are not.      *)

ChildReads ==
  /\ alive
  /\ stdin # <<>>
  /\ LET r == Head(stdin) IN
       /\ work' = IF r.id = 0 THEN work ELSE work \cup {r}
       /\ done' = IF r.for.method = "tools/call" THEN done \cup {r.for.call} ELSE done
  /\ stdin' = Tail(stdin)
  /\ UNCHANGED <<client, alive, torn, stdout, greeted>>

ChildWrites(m) ==
  /\ alive
  /\ torn = {}
  /\ Len(stdout) < OutCap
  /\ torn' = {m}
  /\ stdout' = Append(stdout, [msg |-> m, nl |-> FALSE])

ChildReplies ==
  /\ \E r \in work, k \in {"result", "empty", "error"} :
       /\ ChildWrites([id |-> r.id, for |-> r.for, kind |-> k])
       /\ work' = work \ {r}
       /\ greeted' = (greeted \/ (r.for.method = "initialize" /\ k # "error"))
  /\ UNCHANGED <<client, alive, stdin, done>>

ChildStrays ==
  /\ ChildWrites(Stray)
  /\ UNCHANGED <<client, alive, stdin, work, greeted, done>>

ChildEndsLine ==
  /\ alive
  /\ Len(stdout) < OutCap
  /\ \E m \in torn : stdout' = Append(stdout, [msg |-> m, nl |-> TRUE])
  /\ torn' = {}
  /\ UNCHANGED <<client, alive, stdin, work, greeted, done>>

\* What it has written can still be read; what it has not read is lost.
ChildDies ==
  /\ alive
  /\ alive' = FALSE
  /\ stdin' = <<>> /\ work' = {} /\ torn' = {}
  /\ UNCHANGED <<client, stdout, greeted, done>>

-----------------------------------------------------------------------------
ClientStep == \/ Spawn \/ SpawnFails
              \/ SendInit \/ SendInitialized \/ SendCall \/ SendFails
              \/ SkipLine \/ TakeAnswer
              \/ ReadChunk \/ ReadEof \/ TimeOut

ChildStep == \/ ChildReads \/ ChildReplies \/ ChildStrays
             \/ ChildEndsLine \/ ChildDies

Next == BeginCall \/ Close \/ DeadlinePasses \/ ClientStep \/ ChildStep

Spec == Init /\ [][Next]_vars

\* The thread inside call() runs whenever it can and time goes on.  Nothing is
\* assumed of the child: timeouts exist because it may do nothing at all.
FairSpec == Spec /\ WF_vars(ClientStep) /\ WF_vars(DeadlinePasses)

-----------------------------------------------------------------------------
(* Properties.                                                             *)

\* A call that returns a value returns the answer to its own request: never
\* the late answer to a call that timed out, a stray line, or an answer a
\* previous process left in the buffer.  _read_result has only the id to go by.
AnswerIsOurs ==
  outcome.kind = "ok" => outcome.for = [call |-> call, method |-> "tools/call"]

\* No tools/call reaches a process that has not itself answered initialize,
\* whatever an earlier process or an earlier, timed-out handshake left behind.
HandshakeFirst ==
  (alive /\ \E i \in 1..Len(stdin) : stdin[i].for.method = "tools/call") => greeted

\* A wait for an answer ends: the deadline is looked at often enough that even
\* a child that never stops writing unrelated lines cannot hold the client.
WaitEnds == pc \in Awaiting ~> pc \notin Awaiting

\* What the adapter builds on: see RemoteCall.  The calls in the pipe are the
\* pending ones.
IsCall(m) == m.for.method = "tools/call"
Calls(s)  == {s[i].for.call : i \in {j \in 1..Len(s) : IsCall(s[j])}}

Remote == INSTANCE RemoteCall WITH
  busy    <- pc # "idle",
  pending <- Calls(stdin),
  verdict <- outcome.kind

ImplementsRemoteCall == Remote!Spec

\* The constructor documents startup_timeout / call_timeout as the handshake's
\* and the call's limits: a call is over, one way or the other, in bounded time.
CallEnds == pc # "idle" ~> pc = "idle"
=============================================================================
