----------------------- MODULE EngramTransportProofs -----------------------
(***************************************************************************)
(* Theorems about EngramTransport, for any number of calls and any pipe    *)
(* capacities.                                                             *)
(***************************************************************************)
EXTENDS EngramTransport, TLAPS

LEMMA Tags ==
  /\ NoTag \in Tag
  /\ Stray \in Line
  /\ \A n \in Nat, m \in Methods : [call |-> n, method |-> m] \in Tag
  BY DEF NoTag, Tag, Methods, Stray, Line

LEMMA Messages ==
  /\ \A n \in Nat, t \in Tag : [id |-> n, for |-> t] \in Request
  /\ \A r \in Request, k \in {"result", "empty", "error", "note"} :
       /\ r.id \in Nat
       /\ r.for \in Tag
       /\ [id |-> r.id, for |-> r.for, kind |-> k] \in Line
  /\ \A m \in Line, b \in BOOLEAN : [msg |-> m, nl |-> b] \in Cell
  /\ \A m \in Line : m.id \in Nat /\ m.for \in Tag
  /\ \A c \in Cell : c.msg \in Line /\ c.nl \in BOOLEAN
  /\ \A t \in Tag : t.call \in Nat /\ t.method \in Methods
  BY DEF Request, Line, Cell, Tag

LEMMA Verdicts ==
  \A k \in {"none", "ok", "error"}, t \in Tag :
    [kind |-> k, for |-> t] \in [kind : {"none", "ok", "error"}, for : Tag]
  OBVIOUS

LEMMA Pipes ==
  /\ <<>> \in Seq(Request) /\ <<>> \in Seq(Cell)
  /\ \A s \in Seq(Request), r \in Request : Append(s, r) \in Seq(Request)
  /\ \A s \in Seq(Cell), c \in Cell : Append(s, c) \in Seq(Cell)
  OBVIOUS

\* A buffer with a newline has a first line, and removing it leaves a buffer.
LEMMA FirstLine ==
  ASSUME buf \in Seq(Cell), HasLine
  PROVE  /\ LineLength \in 1..Len(buf)
         /\ LineEnds(LineLength)
         /\ buf[1].msg \in Line
         /\ Parsed \in Line
         /\ SubSeq(buf, LineLength + 1, Len(buf)) \in Seq(Cell)
<1>1. LineLength \in 1..Len(buf) /\ LineEnds(LineLength)
  BY DEF HasLine, LineLength
<1>2. Len(buf) \in Nat /\ 1 \in 1..Len(buf)
  BY <1>1
<1>3. buf[1].msg \in Line
  BY <1>2, Messages
<1>4. Parsed \in Line
  BY <1>3, Tags DEF Parsed
<1>5. SubSeq(buf, LineLength + 1, Len(buf)) \in Seq(Cell)
  BY <1>1, <1>2
<1>6. QED
  BY <1>1, <1>3, <1>4, <1>5

-----------------------------------------------------------------------------
(* Type correctness, part by part: the flags change by themselves, the     *)
(* client's data and the child's data by sequence and record operations.   *)

LEMMA FlagsStep == ASSUME FlagsOK, [Next]_vars PROVE FlagsOK'
<1>1. CASE Next
  BY <1>1, Zenon DEF FlagsOK, Next, ClientStep, ChildStep, BeginCall, Close,
     DeadlinePasses, Spawn, SpawnFails, SendInit, SendInitialized, SendCall,
     SendFails, SkipLine, TakeAnswer, ReadChunk, ReadEof, TimeOut, ChildReads,
     ChildReplies, ChildStrays, ChildEndsLine, ChildDies, Await, client, child
<1>2. CASE UNCHANGED vars
  BY <1>2 DEF FlagsOK, vars, client, child
<1>3. QED
  BY <1>1, <1>2

LEMMA ClientOKStep == ASSUME TypeOK, [Next]_vars PROVE ClientOK'
<1> USE DEF TypeOK, ClientOK, Sending, Awaiting
<1>1. CASE BeginCall
  BY <1>1, Tags, Verdicts DEF BeginCall, NewId
<1>2. CASE Close \/ DeadlinePasses
  BY <1>2 DEF Close, DeadlinePasses
<1>3. CASE Spawn
  BY <1>3 DEF Spawn, NewId
<1>4. CASE SpawnFails \/ SendFails \/ ReadEof \/ TimeOut
  BY <1>4, Tags, Verdicts DEF SpawnFails, SendFails, ReadEof, TimeOut, Raise
<1>5. CASE SendInit \/ SendInitialized \/ SendCall
  BY <1>5 DEF SendInit, SendInitialized, SendCall, Await, NewId
<1>6. CASE SkipLine
  BY <1>6, FirstLine DEF SkipLine
<1>7. CASE TakeAnswer
  BY <1>7, FirstLine, Tags, Messages, Verdicts DEF TakeAnswer, Raise
<1>8. CASE ReadChunk
  BY <1>8 DEF ReadChunk, ChildOK
<1>9. CASE ChildStep
  BY <1>9 DEF ChildStep, ChildReads, ChildReplies, ChildStrays, ChildEndsLine,
     ChildDies, client
<1>10. CASE UNCHANGED vars
  BY <1>10 DEF vars, client
<1>11. QED
  BY <1>1, <1>2, <1>3, <1>4, <1>5, <1>6, <1>7, <1>8, <1>9, <1>10
     DEF Next, ClientStep

LEMMA ChildOKStep == ASSUME TypeOK, [Next]_vars PROVE ChildOK'
<1> USE DEF TypeOK, ChildOK
<1>1. CASE Close \/ Spawn
  BY <1>1, Pipes DEF Close, Spawn
<1>2. CASE SendInit \/ SendInitialized \/ SendCall
  <2> DEFINE Sent(id, method) == [id |-> id, for |-> [call |-> call, method |-> method]]
  <2>1. \A id \in Nat, method \in Methods : Sent(id, method) \in Request
    BY Tags, Messages DEF ClientOK
  <2>2. /\ Sent(nextId, "initialize") \in Request
        /\ Sent(0, "notifications/initialized") \in Request
        /\ Sent(nextId, "tools/call") \in Request
    BY <2>1 DEF ClientOK, Methods
  <2>3. QED
    BY <1>2, <2>2, Pipes DEF SendInit, SendInitialized, SendCall, Write
<1>3. CASE ReadChunk
  BY <1>3 DEF ReadChunk
<1>4. CASE ChildReads
  <2>1. Head(stdin) \in Request /\ Tail(stdin) \in Seq(Request)
    BY <1>4 DEF ChildReads
  <2>2. QED
    BY <1>4, <2>1, Messages DEF ChildReads
<1>5. CASE ChildReplies
  <2>1. PICK r \in work, k \in {"result", "empty", "error"} :
               /\ ChildWrites([id |-> r.id, for |-> r.for, kind |-> k])
               /\ work' = work \ {r}
    BY <1>5 DEF ChildReplies
  <2> DEFINE m == [id |-> r.id, for |-> r.for, kind |-> k]
  <2>2. m \in Line
    BY Messages
  <2>3. stdin' = stdin /\ done' = done
    BY <1>5 DEF ChildReplies
  <2> HIDE DEF m
  <2>4. torn' \subseteq Line /\ stdout' \in Seq(Cell)
    BY <2>1, <2>2, Messages, Pipes DEF ChildWrites, m
  <2>5. QED
    BY <2>1, <2>3, <2>4
<1>6. CASE ChildStrays
  BY <1>6, Tags, Messages, Pipes DEF ChildStrays, ChildWrites
<1>7. CASE ChildEndsLine
  BY <1>7, Messages, Pipes DEF ChildEndsLine
<1>8. CASE ChildDies
  BY <1>8 DEF ChildDies
<1>9. CASE \/ BeginCall \/ DeadlinePasses \/ SpawnFails \/ SendFails
           \/ SkipLine \/ TakeAnswer \/ ReadEof \/ TimeOut
  BY <1>9 DEF BeginCall, DeadlinePasses, SpawnFails, SendFails, SkipLine,
     TakeAnswer, ReadEof, TimeOut, child
<1>10. CASE UNCHANGED vars
  BY <1>10 DEF vars, child
<1>11. QED
  BY <1>1, <1>2, <1>3, <1>4, <1>5, <1>6, <1>7, <1>8, <1>9, <1>10
     DEF Next, ClientStep, ChildStep

\* The transport's variables always have their types.
THEOREM TypeCorrect == Spec => []TypeOK
<1>1. Init => TypeOK
  <2> SUFFICES ASSUME Init PROVE TypeOK
    OBVIOUS
  <2>1. FlagsOK
    BY Zenon DEF Init, FlagsOK
  <2>2. ClientOK
    BY Tags, Verdicts DEF Init, ClientOK
  <2>3. ChildOK
    BY DEF Init, ChildOK
  <2>4. QED
    BY <2>1, <2>2, <2>3 DEF TypeOK
<1>2. TypeOK /\ [Next]_vars => TypeOK'
  BY FlagsStep, ClientOKStep, ChildOKStep DEF TypeOK
<1>3. QED
  BY <1>1, <1>2, PTL DEF Spec

-----------------------------------------------------------------------------
(* Whose answer a call returns.  AnswerIsOurs is not inductive: what keeps *)
(* it true is that no message anywhere between the client and the child    *)
(* carries an id the client has not used, and that only answers to the     *)
(* request being awaited carry the id it waits for.                        *)

CurrentTag ==
  [call   |-> call,
   method |-> IF pc \in {"sendInit", "awaitInit"} THEN "initialize" ELSE "tools/call"]

Honest(m) == /\ m.id <= nextId
             /\ pc \in Awaiting /\ m.id = nextId => m.for = CurrentTag
             /\ pc \in {"sendInit", "sendCall"} => m.id < nextId

AnswerInv == /\ pc \in Awaiting => expected = nextId
             /\ pc \in Awaiting \cup {"sendInit", "sendCall"} => nextId > 0
             /\ \A i \in 1..Len(stdin) : Honest(stdin[i])
             /\ \A r \in work : Honest(r)
             /\ \A m \in torn : Honest(m)
             /\ \A i \in 1..Len(stdout) : Honest(stdout[i].msg)
             /\ \A i \in 1..Len(buf) : Honest(buf[i].msg)
             /\ AnswerIsOurs

\* A message that is honest stays honest: ids only grow, and an id is awaited
\* only by the request that was given it.
LEMMA Kept ==
  ASSUME TypeOK, AnswerInv, [Next]_vars, NEW m, m.id \in Nat, Honest(m)
  PROVE  Honest(m)'
<1> USE DEF Honest, CurrentTag, Sending, Awaiting, TypeOK, ClientOK
<1>1. CASE BeginCall
  BY <1>1 DEF BeginCall, NewId
<1>2. CASE Close \/ DeadlinePasses
  BY <1>2 DEF Close, DeadlinePasses
<1>3. CASE Spawn
  BY <1>3 DEF Spawn, NewId
<1>4. CASE SpawnFails \/ SendFails \/ ReadEof \/ TimeOut
  BY <1>4 DEF SpawnFails, SendFails, ReadEof, TimeOut, Raise
<1>5. CASE SendInit
  BY <1>5 DEF SendInit, Await
<1>6. CASE SendInitialized
  BY <1>6 DEF SendInitialized, NewId
<1>7. CASE SendCall
  BY <1>7 DEF SendCall, Await
<1>8. CASE SkipLine \/ ReadChunk
  BY <1>8 DEF SkipLine, ReadChunk
<1>9. CASE TakeAnswer
  BY <1>9 DEF TakeAnswer, Raise
<1>10. CASE ChildStep
  BY <1>10 DEF ChildStep, ChildReads, ChildReplies, ChildStrays, ChildEndsLine,
     ChildDies, client
<1>11. CASE UNCHANGED vars
  BY <1>11 DEF vars, client
<1>12. QED
  BY <1>1, <1>2, <1>3, <1>4, <1>5, <1>6, <1>7, <1>8, <1>9, <1>10, <1>11
     DEF Next, ClientStep

\* Where the elements of a sequence built from others come from.
LEMMA AppendElements ==
  ASSUME NEW S, NEW s \in Seq(S), NEW e \in S
  PROVE  \A i \in 1..Len(Append(s, e)) :
           Append(s, e)[i] = e \/ \E j \in 1..Len(s) : Append(s, e)[i] = s[j]
  OBVIOUS

LEMMA CellAppended ==
  ASSUME NEW c \in Cell, stdout \in Seq(Cell), stdout' = Append(stdout, c)
  PROVE  \A i \in 1..Len(stdout') :
           stdout'[i] = c \/ \E j \in 1..Len(stdout) : stdout'[i] = stdout[j]
  BY AppendElements

LEMMA RequestAppended ==
  ASSUME NEW r \in Request, stdin \in Seq(Request), stdin' = Append(stdin, r)
  PROVE  \A i \in 1..Len(stdin') :
           stdin'[i] = r \/ \E j \in 1..Len(stdin) : stdin'[i] = stdin[j]
  BY AppendElements

LEMMA ConcatElements ==
  ASSUME NEW S, NEW s \in Seq(S), NEW t \in Seq(S)
  PROVE  \A i \in 1..Len(s \o t) :
           \/ \E j \in 1..Len(s) : (s \o t)[i] = s[j]
           \/ \E j \in 1..Len(t) : (s \o t)[i] = t[j]
<1> TAKE i \in 1..Len(s \o t)
<1>1. CASE i <= Len(s)
  BY <1>1
<1>2. CASE i > Len(s)
  <2>1. i - Len(s) \in 1..Len(t) /\ (s \o t)[i] = t[i - Len(s)]
    BY <1>2
  <2>2. QED
    BY <2>1
<1>3. QED
  BY <1>1, <1>2

LEMMA SubSeqElements ==
  ASSUME NEW S, NEW s \in Seq(S), NEW a \in 1..(Len(s) + 1)
  PROVE  \A i \in 1..Len(SubSeq(s, a, Len(s))) :
           \E j \in 1..Len(s) : SubSeq(s, a, Len(s))[i] = s[j]
<1> TAKE i \in 1..Len(SubSeq(s, a, Len(s)))
<1>1. a + i - 1 \in 1..Len(s) /\ SubSeq(s, a, Len(s))[i] = s[a + i - 1]
  OBVIOUS
<1>2. QED
  BY <1>1

LEMMA TailElements ==
  ASSUME NEW S, NEW s \in Seq(S), s # <<>>
  PROVE  /\ Head(s) = s[1] /\ 1 \in 1..Len(s)
         /\ \A i \in 1..Len(Tail(s)) : \E j \in 1..Len(s) : Tail(s)[i] = s[j]
<1>1. Head(s) = s[1] /\ 1 \in 1..Len(s)
  OBVIOUS
<1>2. ASSUME NEW i \in 1..Len(Tail(s))
      PROVE  i + 1 \in 1..Len(s) /\ Tail(s)[i] = s[i + 1]
  OBVIOUS
<1>3. QED
  BY <1>1, <1>2

\* Where the messages of the next state come from: requests are written by the
\* three sends, everything else is passed on.
LEMMA Passed ==
  ASSUME TypeOK, [Next]_vars
  PROVE  /\ \A r \in work' : r \in work \/ \E j \in 1..Len(stdin) : r = stdin[j]
         /\ \A m \in torn' :
              \/ m \in torn
              \/ m = Stray
              \/ \E r \in work : \E k \in {"result", "empty", "error"} :
                   m = [id |-> r.id, for |-> r.for, kind |-> k]
         /\ \A i \in 1..Len(stdout') :
              \/ \E j \in 1..Len(stdout) : stdout'[i] = stdout[j]
              \/ stdout'[i].msg \in torn \cup torn'
         /\ \A i \in 1..Len(buf') :
              \/ \E j \in 1..Len(buf) : buf'[i] = buf[j]
              \/ \E j \in 1..Len(stdout) : buf'[i] = stdout[j]
<1>0. stdout \in Seq(Cell)
  BY DEF TypeOK, ChildOK
<1> USE DEF TypeOK, ClientOK, ChildOK
<1>1. CASE Close \/ Spawn
  BY <1>1 DEF Close, Spawn
<1>2. CASE SkipLine \/ TakeAnswer
  <2>1. /\ buf' = SubSeq(buf, LineLength + 1, Len(buf))
        /\ UNCHANGED child
        /\ HasLine
    BY <1>2 DEF SkipLine, TakeAnswer
  <2>2. LineLength \in 1..Len(buf) /\ Len(buf) \in Nat
    BY <2>1, FirstLine
  <2>3. LineLength + 1 \in 1..(Len(buf) + 1)
    BY <2>2
  <2>4. \A i \in 1..Len(buf') : \E j \in 1..Len(buf) : buf'[i] = buf[j]
    <3>1. buf \in Seq(Cell)
      OBVIOUS
    <3>2. \A i \in 1..Len(SubSeq(buf, LineLength + 1, Len(buf))) :
            \E j \in 1..Len(buf) : SubSeq(buf, LineLength + 1, Len(buf))[i] = buf[j]
      BY <2>3, <3>1, SubSeqElements
    <3>3. QED
      BY <2>1, <3>2
  <2>5. QED
    BY <2>1, <2>4 DEF child
<1>3. CASE ReadChunk
  <2>1. PICK k \in 1..Len(stdout) :
               /\ buf' = buf \o SubSeq(stdout, 1, k)
               /\ stdout' = SubSeq(stdout, k + 1, Len(stdout))
    BY <1>3 DEF ReadChunk
  <2> DEFINE c == SubSeq(stdout, 1, k)
  <2>2. c \in Seq(Cell)
    OBVIOUS
  <2>4. \A i \in 1..Len(c) : c[i] = stdout[i] /\ i \in 1..Len(stdout)
    OBVIOUS
  <2>5. \A i \in 1..Len(stdout') : stdout'[i] = stdout[k + i] /\ k + i \in 1..Len(stdout)
    BY <2>1
  <2> HIDE DEF c
  <2>6. \A i \in 1..Len(buf') : \/ \E j \in 1..Len(buf) : buf'[i] = buf[j]
                                \/ \E j \in 1..Len(c) : buf'[i] = c[j]
    <3>1. buf' = buf \o c
      BY <2>1 DEF c
    <3>2. QED
      BY <3>1, <2>2, ConcatElements
  <2>7. work' = work /\ torn' = torn
    BY <1>3 DEF ReadChunk
  <2>8. QED
    BY <2>4, <2>5, <2>6, <2>7
<1>4. CASE ChildReads
  <2>1. stdin # <<>> /\ UNCHANGED <<torn, stdout, buf>> /\ work' \subseteq work \cup {Head(stdin)}
    BY <1>4 DEF ChildReads, client
  <2>2. Head(stdin) = stdin[1] /\ 1 \in 1..Len(stdin)
    BY <2>1
  <2>3. QED
    BY <2>1, <2>2
<1>5. CASE ChildReplies
  <2>1. PICK r \in work, k \in {"result", "empty", "error"} :
               /\ ChildWrites([id |-> r.id, for |-> r.for, kind |-> k])
               /\ work' = work \ {r}
    BY <1>5 DEF ChildReplies
  <2> DEFINE m == [id |-> r.id, for |-> r.for, kind |-> k]
  <2> DEFINE c == [msg |-> m, nl |-> FALSE]
  <2>2. buf' = buf
    BY <1>5 DEF ChildReplies, client
  <2>3. torn' = {m} /\ stdout' = Append(stdout, c) /\ c.msg = m
    BY <2>1 DEF ChildWrites
  <2>4. c \in Cell
    BY Messages
  <2>5. \A x \in torn' : x = m
    BY <2>3
  <2>6. m \in torn'
    BY <2>3
  <2> HIDE DEF c
  <2>7. \A i \in 1..Len(stdout') :
          stdout'[i] = c \/ \E j \in 1..Len(stdout) : stdout'[i] = stdout[j]
    BY <2>3, <2>4, <1>0, CellAppended
  <2>8. \A x \in torn' : \E q \in work : \E l \in {"result", "empty", "error"} :
          x = [id |-> q.id, for |-> q.for, kind |-> l]
    BY <2>5
  <2> HIDE DEF m
  <2>9. \A i \in 1..Len(stdout') :
              \/ \E j \in 1..Len(stdout) : stdout'[i] = stdout[j]
              \/ stdout'[i].msg \in torn \cup torn'
    BY <2>3, <2>6, <2>7
  <2>10. QED
    BY <2>1, <2>2, <2>8, <2>9
<1>6. CASE ChildStrays
  <2> DEFINE c == [msg |-> Stray, nl |-> FALSE]
  <2>1. c \in Cell /\ c.msg = Stray
    BY Tags, Messages
  <2>2. torn' = {Stray} /\ stdout' = Append(stdout, c) /\ buf' = buf /\ work' = work
    BY <1>6 DEF ChildStrays, ChildWrites, client
  <2> HIDE DEF c
  <2>3. \A i \in 1..Len(stdout') :
          stdout'[i] = c \/ \E j \in 1..Len(stdout) : stdout'[i] = stdout[j]
    BY <2>1, <2>2, <1>0, CellAppended
  <2>4. QED
    BY <2>1, <2>2, <2>3
<1>7. CASE ChildEndsLine
  <2>1. PICK m \in torn : stdout' = Append(stdout, [msg |-> m, nl |-> TRUE])
    BY <1>7 DEF ChildEndsLine
  <2> DEFINE c == [msg |-> m, nl |-> TRUE]
  <2>2. c \in Cell /\ c.msg = m
    BY Messages
  <2>3. torn' = {} /\ stdout' = Append(stdout, c) /\ buf' = buf /\ work' = work
    BY <1>7, <2>1 DEF ChildEndsLine, client
  <2> HIDE DEF c
  <2>4. \A i \in 1..Len(stdout') :
          stdout'[i] = c \/ \E j \in 1..Len(stdout) : stdout'[i] = stdout[j]
    BY <2>2, <2>3, <1>0, CellAppended
  <2>5. QED
    BY <2>2, <2>3, <2>4
<1>8. CASE ChildDies
  BY <1>8 DEF ChildDies, client
<1>9. CASE \/ BeginCall \/ DeadlinePasses \/ SpawnFails \/ SendFails \/ ReadEof
           \/ TimeOut \/ SendInit \/ SendInitialized \/ SendCall \/ UNCHANGED vars
  <2>1. UNCHANGED <<buf, work, torn, stdout>>
    BY <1>9 DEF BeginCall, DeadlinePasses, SpawnFails, SendFails, ReadEof, TimeOut,
       SendInit, SendInitialized, SendCall, child, client, vars
  <2>2. QED
    BY <2>1
<1>10. QED
  BY <1>1, <1>2, <1>3, <1>4, <1>5, <1>6, <1>7, <1>8, <1>9
     DEF Next, ClientStep, ChildStep

\* The id of the request in hand: what a send writes is honest.
LEMMA Cursor ==
  ASSUME TypeOK, AnswerInv, [Next]_vars
  PROVE  /\ (pc \in Awaiting => expected = nextId)'
         /\ (pc \in Awaiting \cup {"sendInit", "sendCall"} => nextId > 0)'
<1> USE DEF TypeOK, ClientOK, AnswerInv, Sending, Awaiting
<1>1. CASE BeginCall
  BY <1>1 DEF BeginCall, NewId
<1>2. CASE Close \/ DeadlinePasses
  BY <1>2 DEF Close, DeadlinePasses
<1>3. CASE Spawn \/ SendInitialized
  BY <1>3 DEF Spawn, SendInitialized, NewId
<1>4. CASE SpawnFails \/ SendFails \/ ReadEof \/ TimeOut
  BY <1>4 DEF SpawnFails, SendFails, ReadEof, TimeOut, Raise
<1>5. CASE SendInit \/ SendCall
  BY <1>5 DEF SendInit, SendCall, Await
<1>6. CASE SkipLine \/ ReadChunk
  BY <1>6 DEF SkipLine, ReadChunk
<1>7. CASE TakeAnswer
  BY <1>7 DEF TakeAnswer, Raise
<1>8. CASE ChildStep \/ UNCHANGED vars
  BY <1>8 DEF ChildStep, ChildReads, ChildReplies, ChildStrays, ChildEndsLine,
     ChildDies, client, vars
<1>9. QED
  BY <1>1, <1>2, <1>3, <1>4, <1>5, <1>6, <1>7, <1>8 DEF Next, ClientStep

LEMMA StdinHonest ==
  ASSUME TypeOK, AnswerInv, [Next]_vars
  PROVE  \A i \in 1..Len(stdin') : Honest(stdin[i])'
<1> USE DEF TypeOK, ClientOK, ChildOK
<1>2. ASSUME NEW m, \E j \in 1..Len(stdin) : m = stdin[j]
      PROVE  Honest(m)'
  <2>1. m \in Request
    BY <1>2
  <2>2. m.id \in Nat
    BY <2>1, Messages DEF Request
  <2>3. Honest(m)
    BY <1>2 DEF AnswerInv, Honest
  <2>4. QED
    BY <2>2, <2>3, Kept
<1>3. CASE SendInit \/ SendInitialized \/ SendCall
  <2>1. \E r : r \in Request /\ stdin' = Append(stdin, r) /\ Honest(r)'
    <3> DEFINE sent(id, k) == [id |-> id, for |-> [call |-> call, method |-> k]]
    <3>1. \A id \in Nat, k \in Methods : sent(id, k) \in Request
      BY Tags, Messages
    <3>2. CASE SendInit
      <4>1. sent(nextId, "initialize") \in Request
        BY <3>1 DEF Methods
      <4>2. stdin' = Append(stdin, sent(nextId, "initialize"))
        BY <3>2 DEF SendInit, Write
      <4>3. \A r : r = sent(nextId, "initialize") => Honest(r)'
        BY <3>2 DEF SendInit, Await, Honest, CurrentTag, Awaiting
      <4>4. QED
        BY <4>1, <4>2, <4>3
    <3>3. CASE SendInitialized
      <4>1. sent(0, "notifications/initialized") \in Request
        BY <3>1 DEF Methods
      <4>2. stdin' = Append(stdin, sent(0, "notifications/initialized"))
        BY <3>3 DEF SendInitialized, Write
      <4>3. \A r : r = sent(0, "notifications/initialized") => Honest(r)'
        BY <3>3 DEF SendInitialized, NewId, Honest, CurrentTag, Awaiting
      <4>4. QED
        BY <4>1, <4>2, <4>3
    <3>4. CASE SendCall
      <4>1. sent(nextId, "tools/call") \in Request
        BY <3>1 DEF Methods
      <4>2. stdin' = Append(stdin, sent(nextId, "tools/call"))
        BY <3>4 DEF SendCall, Write
      <4>3. \A r : r = sent(nextId, "tools/call") => Honest(r)'
        BY <3>4 DEF SendCall, Await, Honest, CurrentTag, Awaiting
      <4>4. QED
        BY <4>1, <4>2, <4>3
    <3>5. QED
      BY <1>3, <3>2, <3>3, <3>4
  <2>2. PICK r : r \in Request /\ stdin' = Append(stdin, r) /\ Honest(r)'
    BY <2>1
  <2>3. stdin \in Seq(Request)
    OBVIOUS
  <2>4. \A i \in 1..Len(stdin') :
          stdin'[i] = r \/ \E j \in 1..Len(stdin) : stdin'[i] = stdin[j]
    BY <2>2, <2>3, RequestAppended
  <2>5. \A m : (\E i \in 1..Len(stdin') : m = stdin'[i]) => Honest(m)'
    BY <1>2, <2>2, <2>4
  <2>6. QED
    BY <2>5 DEF Honest
<1>4. CASE ChildReads
  <2>1. stdin \in Seq(Request) /\ stdin # <<>> /\ stdin' = Tail(stdin)
    BY <1>4 DEF ChildReads
  <2>2. \A i \in 1..Len(stdin') : \E j \in 1..Len(stdin) : stdin'[i] = stdin[j]
    BY <2>1, TailElements
  <2>3. QED
    BY <1>2, <2>2
<1>5. CASE Spawn \/ Close \/ ChildDies
  BY <1>5 DEF Spawn, Close, ChildDies
<1>6. CASE \/ BeginCall \/ DeadlinePasses \/ SpawnFails \/ SendFails \/ SkipLine
           \/ TakeAnswer \/ ReadChunk \/ ReadEof \/ TimeOut \/ ChildReplies
           \/ ChildStrays \/ ChildEndsLine \/ UNCHANGED vars
  <2>1. stdin' = stdin
    BY <1>6 DEF BeginCall, DeadlinePasses, SpawnFails, SendFails, SkipLine,
       TakeAnswer, ReadChunk, ReadEof, TimeOut, ChildReplies, ChildStrays,
       ChildEndsLine, child, vars
  <2>2. QED
    BY <1>2, <2>1
<1>7. QED
  BY <1>3, <1>4, <1>5, <1>6 DEF Next, ClientStep, ChildStep

LEMMA ChildHonest ==
  ASSUME TypeOK, TypeOK', AnswerInv, [Next]_vars
  PROVE  /\ \A r \in work' : Honest(r)'
         /\ \A m \in torn' : Honest(m)'
         /\ \A i \in 1..Len(stdout') : Honest(stdout[i].msg)'
         /\ \A i \in 1..Len(buf') : Honest(buf[i].msg)'
<1>1. ASSUME NEW r, r \in work \/ \E j \in 1..Len(stdin) : r = stdin[j]
      PROVE  Honest(r)'
  <2>1. r \in Request
    BY <1>1 DEF TypeOK, ChildOK
  <2>2. r.id \in Nat
    BY <2>1, Messages DEF Request
  <2>3. Honest(r)
    BY <1>1 DEF AnswerInv, Honest
  <2>4. QED
    BY <2>2, <2>3, Kept
<1>2. ASSUME NEW m, \/ m \in torn
                    \/ \E j \in 1..Len(stdout) : m = stdout[j].msg
                    \/ \E j \in 1..Len(buf) : m = buf[j].msg
      PROVE  Honest(m)'
  <2>1. m \in Line
    BY <1>2, Messages DEF TypeOK, ClientOK, ChildOK
  <2>2. m.id \in Nat
    BY <2>1, Messages
  <2>3. Honest(m)
    BY <1>2 DEF AnswerInv, Honest
  <2>4. QED
    BY <2>2, <2>3, Kept
<1>3. \A m : m = Stray => Honest(m)'
  BY Cursor DEF Honest, Stray, TypeOK, ClientOK
<1>4. ASSUME NEW r \in work, NEW k, NEW m, m = [id |-> r.id, for |-> r.for, kind |-> k]
      PROVE  Honest(m)'
  <2>1. PICK q : q = r
    OBVIOUS
  <2>2. Honest(q)'
    BY <1>1, <2>1
  <2>3. m.id = q.id /\ m.for = q.for
    BY <1>4, <2>1
  <2>4. QED
    BY <2>2, <2>3 DEF Honest
<1>5. \A m \in torn' : Honest(m)'
  BY <1>2, <1>3, <1>4, Passed
<1>6. \A r \in work' : Honest(r)'
  BY <1>1, Passed
<1>7. \A i \in 1..Len(stdout') : Honest(stdout[i].msg)'
  <2>1. \A m : (\E i \in 1..Len(stdout') : m = stdout'[i].msg) => Honest(m)'
    BY <1>2, <1>5, Passed
  <2>2. QED
    BY <2>1 DEF Honest
<1>8. \A i \in 1..Len(buf') : Honest(buf[i].msg)'
  <2>1. \A m : (\E i \in 1..Len(buf') : m = buf'[i].msg) => Honest(m)'
    BY <1>2, Passed
  <2>2. QED
    BY <2>1 DEF Honest
<1>9. QED
  BY <1>5, <1>6, <1>7, <1>8

LEMMA AnswerStep ==
  ASSUME TypeOK, AnswerInv, [Next]_vars
  PROVE  AnswerIsOurs'
<1> USE DEF AnswerIsOurs
<1>1. CASE TakeAnswer
  <2>1. CASE outcome' = [kind |-> "ok", for |-> Parsed.for] /\ pc = "awaitCall"
    <3>1. HasLine /\ Parsed.id = expected /\ call' = call
      BY <1>1 DEF TakeAnswer, Answers
    <3>2. expected = nextId /\ nextId > 0
      BY <2>1 DEF AnswerInv, Awaiting
    <3>3. Parsed = buf[1].msg /\ 1 \in 1..Len(buf)
      <4>1. Stray.id = 0
        BY DEF Stray
      <4>2. LineLength \in 1..Len(buf) /\ Len(buf) \in Nat
        BY <3>1, FirstLine DEF TypeOK, ClientOK
      <4>3. QED
        BY <3>1, <3>2, <4>1, <4>2 DEF Parsed
    <3>4. Parsed.for = CurrentTag
      BY <2>1, <3>1, <3>2, <3>3 DEF AnswerInv, Honest, Awaiting
    <3>5. QED
      BY <2>1, <3>1, <3>4 DEF CurrentTag
  <2>2. CASE outcome'.kind # "ok"
    BY <2>2
  <2>3. CASE UNCHANGED <<outcome, call>>
    BY <2>3 DEF AnswerInv
  <2>4. QED
    BY <1>1, <2>1, <2>2, <2>3 DEF TakeAnswer, Raise
<1>2. CASE BeginCall
  BY <1>2 DEF BeginCall
<1>3. CASE SpawnFails \/ SendFails \/ ReadEof \/ TimeOut
  BY <1>3 DEF SpawnFails, SendFails, ReadEof, TimeOut, Raise
<1>4. CASE \/ Close \/ DeadlinePasses \/ Spawn \/ SendInit \/ SendInitialized
           \/ SendCall \/ SkipLine \/ ReadChunk \/ ChildStep \/ UNCHANGED vars
  <2>1. UNCHANGED <<outcome, call>>
    BY <1>4 DEF Close, DeadlinePasses, Spawn, SendInit, SendInitialized, SendCall,
       SkipLine, ReadChunk, ChildStep, ChildReads, ChildReplies, ChildStrays,
       ChildEndsLine, ChildDies, client, vars
  <2>2. QED
    BY <2>1 DEF AnswerInv
<1>5. QED
  BY <1>1, <1>2, <1>3, <1>4 DEF Next, ClientStep

LEMMA AnswerInvStep ==
  ASSUME TypeOK, TypeOK', AnswerInv, [Next]_vars
  PROVE  AnswerInv'
  BY Cursor, StdinHonest, ChildHonest, AnswerStep DEF AnswerInv

\* For any number of calls, a value is only ever the answer to its own call.
THEOREM AnswerSafety == Spec => []AnswerIsOurs
<1>1. Init => AnswerInv
  BY DEF Init, AnswerInv, AnswerIsOurs, Awaiting
<1>2. TypeOK /\ TypeOK' /\ AnswerInv /\ [Next]_vars => AnswerInv'
  BY AnswerInvStep
<1>3. AnswerInv => AnswerIsOurs
  BY DEF AnswerInv
<1>4. QED
  BY <1>1, <1>2, <1>3, TypeCorrect, PTL DEF Spec

-----------------------------------------------------------------------------
(* Why a call finds a greeted child: the only answer that ends a handshake *)
(* carries the handshake's own id, so it was written by this child.        *)

Greeting(m) == m.for.method = "initialize" /\ m.kind # "error"

HandshakeInv == /\ started /\ alive => greeted
                /\ pc = "sendNote" /\ alive => greeted
                /\ pc \in {"sendCall", "awaitCall"} => started
                /\ pc = "spawn" => ~started
                /\ \A m \in torn : Greeting(m) => greeted
                /\ \A i \in 1..Len(stdout) : Greeting(stdout[i].msg) => greeted
                /\ \A i \in 1..Len(buf) :
                     /\ pc = "awaitInit"
                     /\ buf[i].msg.id = nextId
                     /\ Greeting(buf[i].msg)
                     => greeted
                /\ HandshakeFirst

\* The handshake ends only on the answer of the child that is running now.
LEMMA HandshakeEnds ==
  ASSUME TypeOK, AnswerInv, HandshakeInv, TakeAnswer, pc' = "sendNote"
  PROVE  greeted
<1>1. /\ pc = "awaitInit" /\ Parsed.kind # "error"
      /\ HasLine /\ Parsed.id = expected
  BY DEF TakeAnswer, Raise, Answers
<1>2. expected = nextId /\ nextId > 0
  BY <1>1 DEF AnswerInv, Awaiting
<1>3. Parsed = buf[1].msg /\ 1 \in 1..Len(buf)
  <2>1. Stray.id = 0
    BY DEF Stray
  <2>2. LineLength \in 1..Len(buf) /\ Len(buf) \in Nat
    BY <1>1, FirstLine DEF TypeOK, ClientOK
  <2>3. QED
    BY <1>1, <1>2, <2>1, <2>2 DEF Parsed
<1>4. Parsed.for = CurrentTag
  BY <1>1, <1>2, <1>3 DEF AnswerInv, Honest, Awaiting
<1>5. Greeting(buf[1].msg)
  BY <1>1, <1>3, <1>4 DEF Greeting, CurrentTag
<1>6. QED
  BY <1>1, <1>2, <1>3, <1>5 DEF HandshakeInv

LEMMA StartedStep ==
  ASSUME TypeOK, AnswerInv, HandshakeInv, [Next]_vars
  PROVE  /\ (started /\ alive => greeted)'
         /\ (pc = "sendNote" /\ alive => greeted)'
         /\ (pc \in {"sendCall", "awaitCall"} => started)'
         /\ (pc = "spawn" => ~started)'
<1> DEFINE I == /\ started /\ alive => greeted
                /\ pc = "sendNote" /\ alive => greeted
                /\ pc \in {"sendCall", "awaitCall"} => started
                /\ pc = "spawn" => ~started
<1>1. I
  BY DEF HandshakeInv
<1>2. CASE TakeAnswer
  <2>1. pc' = "sendNote" => greeted
    BY <1>2, HandshakeEnds
  <2>2. /\ pc' \in {"sendNote", "idle"}
        /\ UNCHANGED <<started, alive, greeted>>
    BY <1>2 DEF TakeAnswer, Raise, child
  <2>3. QED
    BY <1>1, <2>1, <2>2
<1>3. CASE BeginCall
  BY <1>1, <1>3 DEF BeginCall, child
<1>4. CASE Close \/ Spawn
  BY <1>1, <1>4 DEF Close, Spawn
<1>5. CASE DeadlinePasses \/ SpawnFails \/ SendFails \/ ReadEof \/ TimeOut
  BY <1>1, <1>5 DEF DeadlinePasses, SpawnFails, SendFails, ReadEof, TimeOut, Raise, child
<1>6. CASE SendInit \/ SendInitialized \/ SendCall
  BY <1>1, <1>6 DEF SendInit, SendInitialized, SendCall, Await
<1>7. CASE SkipLine \/ ReadChunk
  BY <1>1, <1>7 DEF SkipLine, ReadChunk, child
<1>8. CASE ChildStep
  <2>1. UNCHANGED <<started, pc>>
    BY <1>8 DEF ChildStep, ChildReads, ChildReplies, ChildStrays, ChildEndsLine,
       ChildDies, client
  <2>2. (greeted => greeted') /\ (alive' => alive)
    <3>1. CASE ChildReplies
      BY <3>1, Zenon DEF ChildReplies
    <3>2. CASE ChildReads \/ ChildStrays \/ ChildEndsLine \/ ChildDies
      BY <3>2 DEF ChildReads, ChildStrays, ChildEndsLine, ChildDies
    <3>3. QED
      BY <1>8, <3>1, <3>2 DEF ChildStep
  <2>3. QED
    BY <1>1, <2>1, <2>2
<1>9. CASE UNCHANGED vars
  BY <1>1, <1>9 DEF vars, client, child
<1>10. QED
  BY <1>2, <1>3, <1>4, <1>5, <1>6, <1>7, <1>8, <1>9 DEF Next, ClientStep

\* Every greeting on its way was written by the child that is running, or by
\* one whose answer the client is not waiting for.
LEMMA GreetingStep ==
  ASSUME TypeOK, AnswerInv, HandshakeInv, [Next]_vars
  PROVE  /\ \A m \in torn' : Greeting(m) => greeted'
         /\ \A i \in 1..Len(stdout') : Greeting(stdout'[i].msg) => greeted'
         /\ \A i \in 1..Len(buf') :
              pc' = "awaitInit" /\ buf'[i].msg.id = nextId' /\ Greeting(buf'[i].msg)
              => greeted'
<1>1. CASE Spawn
  <2>1. torn' = {} /\ stdout' = <<>> /\ pc' # "awaitInit"
    BY <1>1 DEF Spawn
  <2>2. QED
    BY <2>1
<1>2. CASE ~Spawn
  <2>1. greeted => greeted'
    <3>1. CASE ChildReplies
      BY <3>1, Zenon DEF ChildReplies
    <3>2. CASE ~ChildReplies
      BY <1>2, <3>2 DEF Next, ClientStep, ChildStep, BeginCall, Close,
         DeadlinePasses, SpawnFails, SendInit, SendInitialized, SendCall, SendFails,
         SkipLine, TakeAnswer, ReadChunk, ReadEof, TimeOut, ChildReads, ChildStrays,
         ChildEndsLine, ChildDies, child, vars
    <3>3. QED
      BY <3>1, <3>2
  <2>2. ASSUME NEW m \in torn', Greeting(m) PROVE greeted'
    <3>1. CASE ChildReplies
      <4>1. PICK r \in work, k \in {"result", "empty", "error"} :
                   /\ torn' = {[id |-> r.id, for |-> r.for, kind |-> k]}
                   /\ greeted' = (greeted \/ (r.for.method = "initialize" /\ k # "error"))
        BY <3>1 DEF ChildReplies, ChildWrites
      <4>2. m.for = r.for /\ m.kind = k
        BY <2>2, <4>1
      <4>3. r.for.method = "initialize" /\ k # "error"
        BY <2>2, <4>2 DEF Greeting
      <4>4. QED
        BY <4>1, <4>3, Zenon
    <3>2. CASE ChildStrays
      BY <2>2, <3>2 DEF ChildStrays, ChildWrites, Stray, NoTag, Greeting
    <3>3. CASE ~ChildReplies /\ ~ChildStrays
      <4>1. torn' \subseteq torn
        BY <1>2, <3>3 DEF Next, ClientStep, ChildStep, BeginCall, Close,
           DeadlinePasses, SpawnFails, SendInit, SendInitialized, SendCall,
           SendFails, SkipLine, TakeAnswer, ReadChunk, ReadEof, TimeOut,
           ChildReads, ChildEndsLine, ChildDies, child, vars
      <4>2. QED
        BY <2>1, <2>2, <4>1 DEF HandshakeInv
    <3>4. QED
      BY <3>1, <3>2, <3>3
  <2>3. ASSUME NEW i \in 1..Len(stdout'), Greeting(stdout'[i].msg) PROVE greeted'
    <3>1. CASE \E j \in 1..Len(stdout) : stdout'[i] = stdout[j]
      BY <2>1, <2>3, <3>1 DEF HandshakeInv, Greeting
    <3>2. CASE stdout'[i].msg \in torn
      BY <2>1, <2>3, <3>2 DEF HandshakeInv, Greeting
    <3>3. CASE stdout'[i].msg \in torn'
      BY <2>2, <2>3, <3>3
    <3>4. QED
      BY <3>1, <3>2, <3>3, Passed
  <2>4. ASSUME NEW i \in 1..Len(buf'), pc' = "awaitInit",
               buf'[i].msg.id = nextId', Greeting(buf'[i].msg)
        PROVE  greeted'
    <3>1. CASE \E j \in 1..Len(stdout) : buf'[i] = stdout[j]
      BY <2>1, <2>4, <3>1 DEF HandshakeInv, Greeting
    <3>2. CASE \E j \in 1..Len(buf) : buf'[i] = buf[j]
      <4>1. PICK j \in 1..Len(buf) : buf'[i] = buf[j]
        BY <3>2
      <4>2. CASE pc = "awaitInit" /\ nextId' = nextId
        BY <2>1, <2>4, <4>1, <4>2 DEF HandshakeInv, Greeting
      <4>3. CASE pc = "sendInit" /\ nextId' = nextId
        <5>1. buf[j].msg.id < nextId /\ nextId \in Nat
          BY <4>3 DEF AnswerInv, Honest, TypeOK, ClientOK
        <5>2. QED
          BY <2>4, <4>1, <4>3, <5>1
      <4>4. pc \in {"awaitInit", "sendInit"} /\ nextId' = nextId
        BY <2>4 DEF Next, ClientStep, ChildStep, BeginCall, Close, DeadlinePasses,
           Spawn, SpawnFails, SendInit, SendInitialized, SendCall, SendFails,
           SkipLine, TakeAnswer, ReadChunk, ReadEof, TimeOut, Raise, Await, NewId,
           ChildReads, ChildReplies, ChildStrays, ChildEndsLine, ChildDies,
           client, vars
      <4>5. QED
        BY <4>2, <4>3, <4>4
    <3>3. QED
      BY <3>1, <3>2, Passed
  <2>5. QED
    BY <2>2, <2>3, <2>4
<1>3. QED
  BY <1>1, <1>2

LEMMA FirstCallStep ==
  ASSUME TypeOK, AnswerInv, HandshakeInv, [Next]_vars
  PROVE  HandshakeFirst'
<1> USE DEF HandshakeFirst
<1>1. CASE Spawn \/ Close \/ ChildDies
  BY <1>1 DEF Spawn, Close, ChildDies
<1>2. CASE SendCall
  <2>1. alive /\ started /\ greeted' = greeted
    BY <1>2 DEF SendCall, Write, HandshakeInv
  <2>2. QED
    BY <2>1 DEF HandshakeInv
<1>3. CASE SendInit \/ SendInitialized
  <2>1. PICK r : /\ r \in Request /\ r.for.method # "tools/call"
                 /\ stdin' = Append(stdin, r)
                 /\ UNCHANGED <<alive, greeted>>
    <3> DEFINE sent(id, k) == [id |-> id, for |-> [call |-> call, method |-> k]]
    <3>1. \A id \in Nat, k \in Methods : sent(id, k) \in Request
      BY Tags, Messages DEF TypeOK, ClientOK
    <3>2. /\ sent(nextId, "initialize") \in Request
          /\ sent(0, "notifications/initialized") \in Request
      BY <3>1 DEF Methods, TypeOK, ClientOK
    <3>3. QED
      BY <1>3, <3>2 DEF SendInit, SendInitialized, Write
  <2>2. stdin \in Seq(Request)
    BY DEF TypeOK, ChildOK
  <2>3. \A i \in 1..Len(stdin') : stdin'[i] = r \/ \E j \in 1..Len(stdin) : stdin'[i] = stdin[j]
    BY <2>1, <2>2, RequestAppended
  <2>4. QED
    BY <2>1, <2>3 DEF HandshakeInv
<1>4. CASE ChildReads
  <2>1. stdin \in Seq(Request) /\ stdin # <<>> /\ stdin' = Tail(stdin)
    BY <1>4 DEF ChildReads, TypeOK, ChildOK
  <2>2. \A i \in 1..Len(stdin') : \E j \in 1..Len(stdin) : stdin'[i] = stdin[j]
    BY <2>1, TailElements
  <2>3. UNCHANGED <<alive, greeted>>
    BY <1>4 DEF ChildReads
  <2>4. QED
    BY <2>2, <2>3 DEF HandshakeInv
<1>5. CASE ChildReplies
  <2>1. UNCHANGED <<alive, stdin>>
    BY <1>5 DEF ChildReplies
  <2>2. greeted => greeted'
    BY <1>5, Zenon DEF ChildReplies
  <2>3. QED
    BY <2>1, <2>2 DEF HandshakeInv
<1>6. CASE \/ BeginCall \/ DeadlinePasses \/ SpawnFails \/ SendFails \/ SkipLine
           \/ TakeAnswer \/ ReadChunk \/ ReadEof \/ TimeOut \/ ChildStrays
           \/ ChildEndsLine \/ UNCHANGED vars
  <2>1. UNCHANGED <<alive, stdin, greeted>>
    BY <1>6 DEF BeginCall, DeadlinePasses, SpawnFails, SendFails, SkipLine,
       TakeAnswer, ReadChunk, ReadEof, TimeOut, ChildStrays, ChildEndsLine,
       child, vars
  <2>2. QED
    BY <2>1 DEF HandshakeInv
<1>7. QED
  BY <1>1, <1>2, <1>3, <1>4, <1>5, <1>6 DEF Next, ClientStep, ChildStep

LEMMA HandshakeInvStep ==
  ASSUME TypeOK, AnswerInv, HandshakeInv, [Next]_vars
  PROVE  HandshakeInv'
  BY StartedStep, GreetingStep, FirstCallStep DEF HandshakeInv, Greeting

\* For any number of calls, a process is asked to do work only after it has
\* answered its own handshake.
THEOREM HandshakeSafety == Spec => []HandshakeFirst
<1>1. Init => AnswerInv
  BY DEF Init, AnswerInv, AnswerIsOurs, Awaiting
<1>2. Init => HandshakeInv
  BY DEF Init, HandshakeInv, HandshakeFirst
<1>3. TypeOK /\ TypeOK' /\ AnswerInv /\ [Next]_vars => AnswerInv'
  BY AnswerInvStep
<1>4. TypeOK /\ AnswerInv /\ HandshakeInv /\ [Next]_vars => HandshakeInv'
  BY HandshakeInvStep
<1>5. HandshakeInv => HandshakeFirst
  BY DEF HandshakeInv
<1>6. QED
  BY <1>1, <1>2, <1>3, <1>4, <1>5, TypeCorrect, PTL DEF Spec
-----------------------------------------------------------------------------
(***************************************************************************)
(* EngramTransport implements RemoteCall, for any number of calls and any  *)
(* pipe capacities: what EngramAdapter assumes of its transport holds.     *)
(***************************************************************************)
Distinct(s) == \A i, j \in 1..Len(s) :
                 IsCall(s[i]) /\ IsCall(s[j]) /\ s[i].for.call = s[j].for.call => i = j

(* A call is written once, and not again once the child has read it. *)
Outgoing ==
  /\ Distinct(stdin)
  /\ \A c \in Calls(stdin) : c \in 1..call /\ c \notin done
  /\ \A c \in done : c <= call
  /\ pc \in {"spawn", "sendInit", "awaitInit", "sendNote", "sendCall"} =>
       call \notin Calls(stdin) /\ call \notin done
  /\ pc # "idle" => call > 0

(* What bears a call's tag on the way back was made after the child read it. *)
Carried ==
  /\ \A r \in work : IsCall(r) => r.for.call \in done
  /\ \A m \in torn : IsCall(m) => m.for.call \in done
  /\ \A i \in 1..Len(stdout) : IsCall(stdout[i].msg) => stdout[i].msg.for.call \in done
  /\ \A i \in 1..Len(buf) : IsCall(buf[i].msg) => buf[i].msg.for.call \in done

CallInv == Outgoing /\ Carried

-----------------------------------------------------------------------------
(* The pipe, as a set of calls.                                            *)

LEMMA CallsOfNone == Calls(<<>>) = {} /\ Distinct(<<>>)
BY DEF Calls, Distinct

LEMMA CallsAppend ==
  ASSUME NEW s \in Seq(Request), NEW r \in Request
  PROVE  /\ IsCall(r) => Calls(Append(s, r)) = Calls(s) \cup {r.for.call}
         /\ ~IsCall(r) => Calls(Append(s, r)) = Calls(s)
         /\ Distinct(s) /\ (IsCall(r) => r.for.call \notin Calls(s)) =>
              Distinct(Append(s, r))
<1> DEFINE t == Append(s, r)
           n == Len(s)
<1>1. n \in Nat /\ Len(t) = n + 1 /\ t[n + 1] = r /\ \A i \in 1..n : t[i] = s[i]
  OBVIOUS
<1>2. \A i \in 1..(n + 1) : i \in 1..n \/ i = n + 1
  BY <1>1
<1>3. 1..n \subseteq 1..(n + 1) /\ n + 1 \in 1..(n + 1) /\ n + 1 \notin 1..n
  BY <1>1
<1> HIDE DEF t
<1>4. \A c : c \in Calls(t) <=> c \in Calls(s) \/ (IsCall(r) /\ c = r.for.call)
  BY <1>1, <1>2, <1>3 DEF Calls
<1>5. Distinct(s) /\ (IsCall(r) => r.for.call \notin Calls(s)) => Distinct(t)
  BY <1>1, <1>2, <1>3 DEF Calls, Distinct
<1>6. QED
  BY <1>4, <1>5 DEF t

LEMMA CallsTail ==
  ASSUME NEW s \in Seq(Request), s # <<>>, Distinct(s)
  PROVE  /\ IsCall(Head(s)) =>
              /\ Head(s).for.call \in Calls(s)
              /\ Calls(Tail(s)) = Calls(s) \ {Head(s).for.call}
         /\ ~IsCall(Head(s)) => Calls(Tail(s)) = Calls(s)
         /\ Distinct(Tail(s))
<1> DEFINE t == Tail(s)
           n == Len(t)
<1>1. n \in Nat /\ Len(s) = n + 1 /\ Head(s) = s[1] /\ \A i \in 1..n : t[i] = s[i + 1]
  OBVIOUS
<1>2. /\ \A i \in 1..(n + 1) : i = 1 \/ (i - 1 \in 1..n /\ (i - 1) + 1 = i)
      /\ \A i \in 1..n : i + 1 \in 1..(n + 1) /\ i + 1 # 1
      /\ 1 \in 1..(n + 1)
  BY <1>1
<1>3. \A i, j \in 1..n : i + 1 = j + 1 => i = j
  BY <1>1
<1> HIDE DEF t, n
<1>4. Distinct(t)
  <2> SUFFICES ASSUME NEW i \in 1..n, NEW j \in 1..n,
                      IsCall(t[i]), IsCall(t[j]), t[i].for.call = t[j].for.call
               PROVE  i = j
    BY DEF Distinct, n
  <2>1. /\ i + 1 \in 1..Len(s) /\ j + 1 \in 1..Len(s)
        /\ t[i] = s[i + 1] /\ t[j] = s[j + 1]
    BY <1>1, <1>2
  <2>2. i + 1 = j + 1
    BY <2>1 DEF Distinct
  <2>3. QED
    BY <1>3, <2>2
<1>5. \A c : c \in Calls(t) => \E i \in 1..n :
               /\ IsCall(s[i + 1]) /\ c = s[i + 1].for.call
               /\ i + 1 \in 1..Len(s) /\ i + 1 # 1
  BY <1>1, <1>2 DEF Calls, n
<1>6. \A c : c \in Calls(s) => c \in Calls(t) \/ (IsCall(s[1]) /\ c = s[1].for.call)
  <2> SUFFICES ASSUME NEW c, NEW i \in 1..Len(s), IsCall(s[i]), c = s[i].for.call, i # 1
               PROVE  c \in Calls(t)
    BY DEF Calls
  <2>1. i - 1 \in 1..n /\ t[i - 1] = s[i]
    BY <1>1, <1>2
  <2>2. QED
    BY <2>1 DEF Calls, n
<1>7. \A c : c \in Calls(t) => c \in Calls(s) /\ (IsCall(s[1]) => c # s[1].for.call)
  <2> SUFFICES ASSUME NEW c \in Calls(t)
               PROVE  c \in Calls(s) /\ (IsCall(s[1]) => c # s[1].for.call)
    OBVIOUS
  <2>1. PICK i \in 1..n : /\ IsCall(s[i + 1]) /\ c = s[i + 1].for.call
                          /\ i + 1 \in 1..Len(s) /\ i + 1 # 1
    BY <1>5
  <2>2. c \in Calls(s)
    BY <2>1 DEF Calls
  <2>3. IsCall(s[1]) => c # s[1].for.call
    BY <1>1, <1>2, <2>1 DEF Distinct
  <2>4. QED
    BY <2>2, <2>3
<1>8. IsCall(s[1]) => s[1].for.call \in Calls(s)
  BY <1>1, <1>2 DEF Calls
<1>9. IsCall(s[1]) => Calls(t) = Calls(s) \ {s[1].for.call}
  BY <1>6, <1>7
<1>10. ~IsCall(s[1]) => Calls(t) = Calls(s)
  BY <1>6, <1>7
<1>11. Head(s) = s[1] /\ t = Tail(s)
  BY <1>1 DEF t
<1>12. QED
  BY <1>4, <1>8, <1>9, <1>10, <1>11, Zenon

-----------------------------------------------------------------------------
(* CallInv is inductive, part by part: the pipe to the child, and what the *)
(* child has made of it.                                                   *)

LEMMA OutgoingStep ==
  ASSUME TypeOK, AnswerInv, CallInv, [Next]_vars
  PROVE  Outgoing'
<1> USE DEF TypeOK, ClientOK, ChildOK
<1>0. Outgoing
  BY DEF CallInv
<1>1. CASE BeginCall
  <2>1. call' = call + 1 /\ UNCHANGED <<stdin, done>>
    BY <1>1 DEF BeginCall, child
  <2>2. QED
    BY <1>0, <2>1 DEF Outgoing
<1>2. CASE Spawn
  <2>1. /\ stdin' = <<>> /\ UNCHANGED <<call, done>>
        /\ pc = "spawn"
    BY <1>2 DEF Spawn
  <2>2. Calls(stdin') = {} /\ Distinct(stdin')
    BY <2>1, CallsOfNone
  <2>3. QED
    BY <1>0, <2>1, <2>2 DEF Outgoing
<1>3. CASE Close \/ ChildDies
  <2>1. stdin' = <<>> /\ UNCHANGED <<call, done, pc>>
    BY <1>3 DEF Close, ChildDies, client
  <2>2. Calls(stdin') = {} /\ Distinct(stdin')
    BY <2>1, CallsOfNone
  <2>3. QED
    BY <1>0, <2>1, <2>2 DEF Outgoing
<1>4. CASE SendInit \/ SendInitialized
  <2>1. PICK r \in Request : ~IsCall(r) /\ stdin' = Append(stdin, r)
    <3> DEFINE sent(id, k) == [id |-> id, for |-> [call |-> call, method |-> k]]
    <3>1. \A id \in Nat, k \in Methods : sent(id, k) \in Request
      BY Tags, Messages
    <3>2. /\ sent(nextId, "initialize") \in Request
          /\ sent(0, "notifications/initialized") \in Request
      BY <3>1 DEF Methods
    <3>3. QED
      BY <1>4, <3>2 DEF SendInit, SendInitialized, Write, IsCall
  <2>2. Calls(stdin') = Calls(stdin) /\ Distinct(stdin')
    BY <1>0, <2>1, CallsAppend DEF Outgoing
  <2>3. /\ UNCHANGED <<call, done>>
        /\ pc \in {"sendInit", "sendNote"}
    BY <1>4 DEF SendInit, SendInitialized
  <2>4. QED
    BY <1>0, <2>2, <2>3 DEF Outgoing
<1>5. CASE SendCall
  <2> DEFINE r == [id |-> nextId, for |-> [call |-> call, method |-> "tools/call"]]
  <2>1. r \in Request /\ IsCall(r) /\ r.for.call = call
    BY Tags, Messages DEF Methods, IsCall
  <2>2. stdin' = Append(stdin, r) /\ pc = "sendCall" /\ pc' = "awaitCall"
        /\ UNCHANGED <<call, done>>
    BY <1>5 DEF SendCall, Write, Await
  <2> HIDE DEF r
  <2>3. call \notin Calls(stdin) /\ call \notin done /\ call \in 1..call
    BY <1>0, <2>2 DEF Outgoing
  <2>4. Calls(stdin') = Calls(stdin) \cup {call} /\ Distinct(stdin')
    BY <1>0, <2>1, <2>2, <2>3, CallsAppend DEF Outgoing
  <2>5. QED
    BY <1>0, <2>2, <2>3, <2>4 DEF Outgoing
<1>6. CASE ChildReads
  <2> DEFINE r == Head(stdin)
  <2>1. /\ stdin # <<>> /\ stdin' = Tail(stdin) /\ UNCHANGED <<call, pc>>
        /\ done' = IF IsCall(r) THEN done \cup {r.for.call} ELSE done
    BY <1>6 DEF ChildReads, client, IsCall
  <2>2. Distinct(stdin')
    BY <1>0, <2>1, CallsTail DEF Outgoing
  <2> HIDE DEF r
  <2>3. CASE IsCall(r)
    <3>1. r.for.call \in Calls(stdin) /\ Calls(stdin') = Calls(stdin) \ {r.for.call}
      BY <1>0, <2>1, <2>3, CallsTail DEF Outgoing, r
    <3>2. r.for.call \in 1..call
      BY <1>0, <3>1 DEF Outgoing
    <3>3. \A c \in done' : c <= call
      BY <1>0, <2>1, <2>3, <3>2 DEF Outgoing
    <3>4. \A c \in Calls(stdin') : c \in 1..call /\ c \notin done'
      BY <1>0, <2>1, <2>3, <3>1 DEF Outgoing
    <3>5. QED
      BY <1>0, <2>1, <2>2, <2>3, <3>1, <3>3, <3>4 DEF Outgoing
  <2>4. CASE ~IsCall(r)
    <3>1. Calls(stdin') = Calls(stdin)
      BY <1>0, <2>1, <2>4, CallsTail DEF Outgoing, r
    <3>2. QED
      BY <1>0, <2>1, <2>2, <2>4, <3>1 DEF Outgoing
  <2>5. QED
    BY <2>3, <2>4
<1>7. CASE TakeAnswer
  <2>1. /\ pc \in Awaiting /\ pc' \in {"sendNote", "idle"}
        /\ pc' = "sendNote" => pc = "awaitInit"
        /\ UNCHANGED <<stdin, call, done>>
    BY <1>7 DEF TakeAnswer, Raise, child, Awaiting
  <2>2. QED
    BY <1>0, <2>1 DEF Outgoing
<1>8. CASE SpawnFails \/ SendFails \/ ReadEof \/ TimeOut
  <2>1. pc' = "idle" /\ UNCHANGED <<stdin, call, done>>
    BY <1>8 DEF SpawnFails, SendFails, ReadEof, TimeOut, Raise, child
  <2>2. QED
    BY <1>0, <2>1 DEF Outgoing
<1>9. CASE \/ DeadlinePasses \/ SkipLine \/ ReadChunk \/ ChildReplies
           \/ ChildStrays \/ ChildEndsLine \/ UNCHANGED vars
  <2>1. UNCHANGED <<pc, stdin, call, done>>
    BY <1>9 DEF DeadlinePasses, SkipLine, ReadChunk, ChildReplies, ChildStrays,
       ChildEndsLine, client, child, vars
  <2>2. QED
    BY <1>0, <2>1 DEF Outgoing
<1>10. QED
  BY <1>1, <1>2, <1>3, <1>4, <1>5, <1>6, <1>7, <1>8, <1>9
     DEF Next, ClientStep, ChildStep

LEMMA CarriedStep ==
  ASSUME TypeOK, CallInv, [Next]_vars
  PROVE  Carried'
<1> DEFINE Paid(m) == IsCall(m) => m.for.call \in done
<1>1. done \subseteq done'
  <2>1. CASE ChildReads
    BY <2>1 DEF ChildReads
  <2>2. CASE ~ChildReads
    BY <2>2 DEF Next, ClientStep, ChildStep, BeginCall, Close, DeadlinePasses,
       Spawn, SpawnFails, SendInit, SendInitialized, SendCall, SendFails, SkipLine,
       TakeAnswer, ReadChunk, ReadEof, TimeOut, ChildReplies, ChildStrays,
       ChildEndsLine, ChildDies, child, vars
  <2>3. QED
    BY <2>1, <2>2
<1>2. \A m : Paid(m) => Paid(m)'
  BY <1>1
<1>3. \A r \in work' : Paid(r)'
  <2>1. CASE ChildReads
    <3>1. /\ work' \subseteq work \cup {Head(stdin)}
          /\ IsCall(Head(stdin)) => Head(stdin).for.call \in done'
      BY <2>1 DEF ChildReads, IsCall
    <3>2. QED
      BY <1>2, <3>1 DEF CallInv, Carried
  <2>2. CASE ~ChildReads
    <3>1. work' \subseteq work
      BY <2>2 DEF Next, ClientStep, ChildStep, BeginCall, Close, DeadlinePasses,
         Spawn, SpawnFails, SendInit, SendInitialized, SendCall, SendFails, SkipLine,
         TakeAnswer, ReadChunk, ReadEof, TimeOut, ChildReplies, ChildStrays,
         ChildEndsLine, ChildDies, child, vars
    <3>2. QED
      BY <1>2, <3>1 DEF CallInv, Carried
  <2>3. QED
    BY <2>1, <2>2
<1>4. \A m \in torn' : Paid(m)'
  <2>1. ASSUME NEW m, NEW r \in work, NEW k, m = [id |-> r.id, for |-> r.for, kind |-> k]
        PROVE  Paid(m)'
    <3>1. Paid(r) /\ m.for = r.for
      BY <2>1 DEF CallInv, Carried
    <3>2. Paid(m)
      BY <3>1 DEF IsCall
    <3>3. QED
      BY <1>2, <3>2
  <2>2. Paid(Stray)'
    BY DEF Stray, NoTag, IsCall
  <2>3. \A m \in torn : Paid(m)'
    BY <1>2 DEF CallInv, Carried
  <2>4. QED
    BY <2>1, <2>2, <2>3, Passed
<1>5. \A m : (\E i \in 1..Len(stdout') : m = stdout'[i].msg) => Paid(m)'
  <2>1. \A m : (\E i \in 1..Len(stdout) : m = stdout[i].msg) => Paid(m)'
    BY <1>2 DEF CallInv, Carried
  <2>2. \A m \in torn : Paid(m)'
    BY <1>2 DEF CallInv, Carried
  <2>3. QED
    BY <1>4, <2>1, <2>2, Passed
<1>6. \A m : (\E i \in 1..Len(buf') : m = buf'[i].msg) => Paid(m)'
  <2>1. \A m : \/ \E i \in 1..Len(stdout) : m = stdout[i].msg
               \/ \E i \in 1..Len(buf) : m = buf[i].msg
               => Paid(m)'
    BY <1>2 DEF CallInv, Carried
  <2>2. QED
    BY <2>1, Passed
<1>7. QED
  BY <1>3, <1>4, <1>5, <1>6 DEF Carried

-----------------------------------------------------------------------------
(* Every step of the transport is a step of RemoteCall, or none.           *)

\* A call that returns a value was carried out: the value is the answer to it.
LEMMA Returned ==
  ASSUME TypeOK, CallInv, AnswerInv, TakeAnswer, outcome'.kind = "ok", pc = "awaitCall"
  PROVE  call \in done
<1>1. /\ HasLine /\ Parsed.id = expected
      /\ expected = nextId /\ nextId > 0
  BY DEF TakeAnswer, Answers, AnswerInv, Awaiting
<1>2. Parsed = buf[1].msg /\ 1 \in 1..Len(buf)
  <2>1. Stray.id = 0
    BY DEF Stray
  <2>2. LineLength \in 1..Len(buf) /\ Len(buf) \in Nat
    BY <1>1, FirstLine DEF TypeOK, ClientOK
  <2>3. QED
    BY <1>1, <2>1, <2>2 DEF Parsed
<1>3. buf[1].msg.for = CurrentTag
  BY <1>1, <1>2 DEF AnswerInv, Honest, Awaiting
<1>4. IsCall(buf[1].msg) /\ buf[1].msg.for.call = call
  BY <1>3 DEF CurrentTag, IsCall
<1>5. QED
  BY <1>2, <1>4 DEF CallInv, Carried

LEMMA RemoteStep ==
  ASSUME TypeOK, AnswerInv, CallInv, [Next]_vars
  PROVE  [Remote!Next]_Remote!remoteVars
<1> USE DEF TypeOK, ClientOK, ChildOK
<1>0. Outgoing
  BY DEF CallInv
<1>1. CASE BeginCall
  <2>1. /\ pc = "idle" /\ pc' # "idle" /\ call < MaxCalls /\ call' = call + 1
        /\ outcome'.kind = "none" /\ UNCHANGED <<stdin, done>>
    BY <1>1 DEF BeginCall, child
  <2>2. Remote!Invoke
    BY <2>1 DEF Remote!Invoke
  <2>3. QED
    BY <2>2 DEF Remote!Next
<1>2. CASE Spawn \/ Close \/ ChildDies
  <2>1. stdin' = <<>> /\ UNCHANGED <<call, done, outcome>>
        /\ (pc = "idle") = (pc' = "idle")
    BY <1>2 DEF Spawn, Close, ChildDies, client
  <2>2. Calls(stdin') = {}
    BY <2>1, CallsOfNone
  <2>3. Remote!Lose
    BY <2>1, <2>2 DEF Remote!Lose
  <2>4. QED
    BY <2>3 DEF Remote!Next
<1>3. CASE SpawnFails \/ SendFails \/ ReadEof \/ TimeOut
  <2>1. /\ pc # "idle" /\ pc' = "idle" /\ outcome'.kind = "error"
        /\ UNCHANGED <<call, stdin, done>>
    BY <1>3 DEF SpawnFails, SendFails, ReadEof, TimeOut, Raise, Sending, Awaiting, child
  <2>2. Remote!Raise
    BY <2>1 DEF Remote!Raise
  <2>3. QED
    BY <2>2 DEF Remote!Next
<1>4. CASE SendInit \/ SendInitialized
  <2>1. PICK r \in Request : ~IsCall(r) /\ stdin' = Append(stdin, r)
    <3> DEFINE sent(id, k) == [id |-> id, for |-> [call |-> call, method |-> k]]
    <3>1. \A id \in Nat, k \in Methods : sent(id, k) \in Request
      BY Tags, Messages
    <3>2. /\ sent(nextId, "initialize") \in Request
          /\ sent(0, "notifications/initialized") \in Request
      BY <3>1 DEF Methods
    <3>3. QED
      BY <1>4, <3>2 DEF SendInit, SendInitialized, Write, IsCall
  <2>2. Calls(stdin') = Calls(stdin)
    BY <2>1, CallsAppend
  <2>3. pc # "idle" /\ pc' # "idle" /\ UNCHANGED <<call, done, outcome>>
    BY <1>4 DEF SendInit, SendInitialized, Await
  <2>4. QED
    BY <2>2, <2>3 DEF Remote!remoteVars
<1>5. CASE SendCall
  <2> DEFINE r == [id |-> nextId, for |-> [call |-> call, method |-> "tools/call"]]
  <2>1. r \in Request /\ IsCall(r) /\ r.for.call = call
    BY Tags, Messages DEF Methods, IsCall
  <2>2. /\ stdin' = Append(stdin, r) /\ pc = "sendCall" /\ pc' = "awaitCall"
        /\ UNCHANGED <<call, done, outcome>>
    BY <1>5 DEF SendCall, Write, Await
  <2> HIDE DEF r
  <2>3. call \notin Calls(stdin) /\ call \notin done
    BY <1>0, <2>2 DEF Outgoing
  <2>4. Calls(stdin') = Calls(stdin) \cup {call}
    BY <2>1, <2>2, CallsAppend
  <2>5. Remote!Send
    BY <2>2, <2>3, <2>4 DEF Remote!Send
  <2>6. QED
    BY <2>5 DEF Remote!Next
<1>6. CASE ChildReads
  <2> DEFINE r == Head(stdin)
  <2>1. /\ stdin # <<>> /\ stdin' = Tail(stdin) /\ UNCHANGED <<call, pc, outcome>>
        /\ done' = IF IsCall(r) THEN done \cup {r.for.call} ELSE done
    BY <1>6 DEF ChildReads, client, IsCall
  <2> HIDE DEF r
  <2>2. CASE IsCall(r)
    <3>1. r.for.call \in Calls(stdin) /\ Calls(stdin') = Calls(stdin) \ {r.for.call}
      BY <1>0, <2>1, <2>2, CallsTail DEF Outgoing, r
    <3>2. Remote!Execute(r.for.call)
      BY <2>1, <2>2, <3>1 DEF Remote!Execute
    <3>3. QED
      BY <3>1, <3>2 DEF Remote!Next
  <2>3. CASE ~IsCall(r)
    <3>1. Calls(stdin') = Calls(stdin)
      BY <1>0, <2>1, <2>3, CallsTail DEF Outgoing, r
    <3>2. QED
      BY <2>1, <2>3, <3>1 DEF Remote!remoteVars
  <2>4. QED
    BY <2>2, <2>3
<1>7. CASE TakeAnswer
  <2>1. pc # "idle" /\ UNCHANGED <<call, stdin, done>>
    BY <1>7 DEF TakeAnswer, Awaiting, child
  <2>2. CASE pc' = "sendNote" /\ UNCHANGED outcome
    BY <2>1, <2>2 DEF Remote!remoteVars
  <2>3. CASE pc' = "idle" /\ outcome'.kind = "ok" /\ pc = "awaitCall"
    <3>1. call \in done
      BY <1>7, <2>3, Returned
    <3>2. Remote!Return
      BY <2>1, <2>3, <3>1 DEF Remote!Return
    <3>3. QED
      BY <3>2 DEF Remote!Next
  <2>4. CASE Raise
    <3>1. Remote!Raise
      BY <2>1, <2>4 DEF Raise, Remote!Raise
    <3>2. QED
      BY <3>1 DEF Remote!Next
  <2>5. QED
    BY <1>7, <2>2, <2>3, <2>4 DEF TakeAnswer
<1>8. CASE \/ DeadlinePasses \/ SkipLine \/ ReadChunk \/ ChildReplies
           \/ ChildStrays \/ ChildEndsLine \/ UNCHANGED vars
  <2>1. UNCHANGED <<pc, outcome, stdin, call, done>>
    BY <1>8 DEF DeadlinePasses, SkipLine, ReadChunk, ChildReplies, ChildStrays,
       ChildEndsLine, client, child, vars
  <2>2. QED
    BY <2>1 DEF Remote!remoteVars
<1>9. QED
  BY <1>1, <1>2, <1>3, <1>4, <1>5, <1>6, <1>7, <1>8 DEF Next, ClientStep, ChildStep

(***************************************************************************)
(* EngramStdioTransport is the remote call its callers take it for: at     *)
(* most one execution for a call, possibly after the caller gave up, and   *)
(* none unreported behind a value.                                         *)
(***************************************************************************)
THEOREM TransportImplements == Spec => ImplementsRemoteCall
<1>1. Init => AnswerInv
  BY DEF Init, AnswerInv, AnswerIsOurs, Awaiting
<1>2. Init => CallInv
  BY CallsOfNone DEF Init, CallInv, Outgoing, Carried
<1>3. Init => Remote!Init
  BY CallsOfNone DEF Init, Remote!Init
<1>4. TypeOK /\ TypeOK' /\ AnswerInv /\ [Next]_vars => AnswerInv'
  BY AnswerInvStep
<1>5. TypeOK /\ AnswerInv /\ CallInv /\ [Next]_vars => CallInv'
  BY OutgoingStep, CarriedStep DEF CallInv
<1>6. TypeOK /\ AnswerInv /\ CallInv /\ [Next]_vars => [Remote!Next]_Remote!remoteVars
  BY RemoteStep
<1>7. QED
  BY <1>1, <1>2, <1>3, <1>4, <1>5, <1>6, TypeCorrect, PTL
     DEF Spec, ImplementsRemoteCall, Remote!Spec
=============================================================================
