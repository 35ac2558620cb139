--------------------------- MODULE DaemonPipeline ---------------------------
(***************************************************************************)
(* scripts/run_locomo_mempalace_daemon.py: conversations are posted to a   *)
(* scratch palace daemon, each under a wing of its own, the daemon builds  *)
(* its graph, and every question is asked in its conversation's wing.  A   *)
(* question counts as a hit when a retrieved drawer is one of those its    *)
(* evidence was stored in, going by the ids the daemon gave them.          *)
(*                                                                         *)
(* A request may be carried out although its answer is lost, and later     *)
(* than the client stopped waiting for it; a run may end anywhere, killed  *)
(* or by an exception that main does not catch, and be started again.      *)
(***************************************************************************)
EXTENDS Naturals, Sequences, FiniteSets

CONSTANTS
  Sample, Session,
  Posts,      \* what ingest_all_samples posts, in order: <<sample, session>>
  Questions,  \* in the order asked: [sample, evidence]
  TopK,       \* how many chunks a search returns at most (n_results)
  MaxRuns     \* bound on the runs started

ASSUME PipelineAssumption ==
  /\ Posts \in Seq(Sample \X Session)
  /\ \A i, j \in DOMAIN Posts : Posts[i] = Posts[j] => i = j
  /\ Questions \in Seq([sample : Sample, evidence : SUBSET Session])
  /\ TopK \in Nat \ {0}
  /\ MaxRuns \in Nat

VARIABLES
  pc,       \* the stage of the run, or "off"
  run,      \* how many runs were started
  n,        \* the next post, or the next question
  posted,   \* the counts of ingest_total
  errors,
  s2d,      \* session_to_drawer of every sample: [sample, session, drawer]
  status,   \* of backfill_info
  due,      \* poll_timeout_s have passed
  record,   \* the record appended last
  drawers,  \* the daemon's store
  late,     \* requests nobody waits for and the daemon may yet carry out, or not
  job,      \* the daemon's backfill
  strays    \* history: the late requests there were when the guard passed

local  == <<n, posted, errors, s2d, status, due, record>>
client == <<pc, run, local, strays>>
daemon == <<drawers, late, job>>
vars   == <<client, daemon>>

Stages   == {"off", "guard", "ingest", "backfill", "poll", "query"}
Request  == [sample : Sample, session : Session, run : 1..MaxRuns]
NoRecord == [hits |-> <<>>]

\* Every request that is carried out makes a drawer with an id of its own; the
\* id of a chunk of the drawer has a suffix (_chunk_000000).
DrawerId(req) == <<req>>
ChunkId(req)  == <<req, 0>>

\* An entry of session_to_drawer.
Entry(req, id) == [sample |-> req.sample, session |-> req.session, drawer |-> id]

TypeOK ==
  /\ pc \in Stages
  /\ run \in 0..MaxRuns
  /\ n \in 1..(Len(Posts) + Len(Questions) + 1)
  /\ posted \in 0..Len(Posts) /\ errors \in 0..Len(Posts)
  /\ \A m \in s2d : \E req \in Request : m = Entry(req, DrawerId(req))
  /\ status \in {"none", "skipped", "over", "timeout"}
  /\ due \in BOOLEAN
  /\ \A i \in DOMAIN record.hits :
       \E req \in Request : record.hits[i] \in {DrawerId(req), ChunkId(req)}
  /\ drawers \subseteq [from : Request, heard : BOOLEAN]
  /\ late \subseteq Request /\ strays \subseteq Request
  /\ job \in {"none", "running", "over"}

Init ==
  /\ pc = "off" /\ run = 0 /\ n = 1
  /\ posted = 0 /\ errors = 0 /\ s2d = {}
  /\ status = "none" /\ due = FALSE
  /\ record = NoRecord
  /\ drawers = {} /\ late = {} /\ job = "none"
  /\ strays = {}

-----------------------------------------------------------------------------
(* The daemon's side of a request.                                         *)

\* heard says whether the client gets to know the drawer's id.
Stored(req, heard) == drawers \cup {[from |-> req, heard |-> heard]}

\* A request nobody waits for is carried out after all.
CarryOut(req) ==
  /\ req \in late
  /\ late' = late \ {req}
  /\ drawers' = Stored(req, FALSE)
  /\ UNCHANGED <<client, job>>

JobEnds ==
  /\ job = "running"
  /\ job' = "over"
  /\ UNCHANGED <<client, drawers, late>>

\* Somebody sets up a new scratch daemon between two runs.
Provision ==
  /\ pc = "off"
  /\ drawers' = {} /\ late' = {} /\ job' = "none"
  /\ UNCHANGED client

-----------------------------------------------------------------------------
(* The run.                                                                *)

StartRun ==
  /\ pc = "off"
  /\ run < MaxRuns
  /\ run' = run + 1
  /\ pc' = "guard"
  /\ UNCHANGED <<local, strays, daemon>>

\* The process ends, and its variables with it.
Exit ==
  /\ pc' = "off"
  /\ n' = 1 /\ posted' = 0 /\ errors' = 0 /\ s2d' = {}
  /\ status' = "none" /\ due' = FALSE
  /\ record' = NoRecord /\ strays' = {}
  /\ UNCHANGED run

\* Fault: a palace whose drawers could not be counted is taken for empty.
Guard_Unverified ==
  /\ pc = "guard"
  /\ pc' = "ingest" /\ strays' = late
  /\ UNCHANGED <<run, local, daemon>>

\* isolation_guard: the palace holds no drawer; one that holds any, or cannot
\* be counted, ends the run.
Guard ==
  /\ pc = "guard"
  /\ \/ drawers = {} /\ pc' = "ingest" /\ strays' = late /\ UNCHANGED <<run, local>>
     \/ Exit
  /\ UNCHANGED daemon

\* The request for the next session.
NextPost == [sample |-> Posts[n][1], session |-> Posts[n][2], run |-> run]

\* 200 or 201, with the new drawer's id, or without one.
Acknowledged(req) ==
  /\ posted' = posted + 1
  /\ \/ /\ drawers' = Stored(req, TRUE)
        /\ s2d' = s2d \cup {Entry(req, DrawerId(req))}
     \/ /\ drawers' = Stored(req, FALSE)
        /\ UNCHANGED s2d
  /\ UNCHANGED <<errors, late>>

\* Another status, or no answer: the daemon refused the session and never
\* stores it, or has it and does.
NotAcknowledged(req) ==
  /\ errors' = errors + 1
  /\ late' = late \cup {req}
  /\ UNCHANGED <<posted, drawers, s2d>>

\* ingest_sample, one session.
Post ==
  /\ pc = "ingest" /\ n <= Len(Posts)
  /\ Acknowledged(NextPost) \/ NotAcknowledged(NextPost)
  /\ n' = n + 1
  /\ UNCHANGED <<pc, run, status, due, record, strays, job>>

\* The last sample is in: post_flush follows, whose outcome nobody looks at,
\* and the backfill, unless the run was started with --skip-backfill.
Flush ==
  /\ pc = "ingest" /\ n > Len(Posts)
  /\ n' = 1
  /\ \/ pc' = "backfill" /\ UNCHANGED status
     \/ pc' = "query" /\ status' = "skipped"
  /\ UNCHANGED <<run, posted, errors, s2d, due, record, strays, daemon>>

\* POST /backfill-age; one that fails ends the run, and is a Crash.
StartBackfill ==
  /\ pc = "backfill"
  /\ job' = "running"
  /\ pc' = "poll"
  /\ UNCHANGED <<run, n, posted, errors, s2d, status, due, record, strays, drawers, late>>

\* poll_timeout_s have passed.
DeadlinePasses ==
  /\ pc = "poll" /\ ~due
  /\ due' = TRUE
  /\ UNCHANGED <<pc, run, n, posted, errors, s2d, status, record, strays, daemon>>

\* A poll is answered and the backfill is no longer in progress.  One that
\* fails, or is told that it is, changes nothing.
PollOver ==
  /\ pc = "poll" /\ job # "running"
  /\ status' = "over" /\ pc' = "query" /\ due' = FALSE
  /\ UNCHANGED <<run, n, posted, errors, s2d, record, strays, daemon>>

\* Fault: the loop looks at the answers only.
PollTimeout_Never ==
  /\ pc = "poll" /\ due /\ job # "running"
  /\ status' = "timeout" /\ pc' = "query" /\ due' = FALSE
  /\ UNCHANGED <<run, n, posted, errors, s2d, record, strays, daemon>>

\* The loop sees that its time is up, and the questions are asked anyway.
PollTimeout ==
  /\ pc = "poll" /\ due
  /\ status' = "timeout" /\ pc' = "query" /\ due' = FALSE
  /\ UNCHANGED <<run, n, posted, errors, s2d, record, strays, daemon>>

-----------------------------------------------------------------------------
(* query_all_samples.                                                      *)

\* Fault: the drawer's own chunks are not recognised.
ParentId_Unstripped(id) == id

\* _drawer_parent_id.
ParentId(id) == <<id[1]>>

ExpectedDrawers(q) ==
  {m.drawer : m \in {x \in s2d : x.sample = q.sample /\ x.session \in q.evidence}}

\* What a search in the wing may return, best first: drawers of it and chunks
\* of them, a drawer more than once; nothing when it fails.
Retrievable(wing) ==
  LET reqs == {d.from : d \in {x \in drawers : x.from.sample = wing}}
      ids  == {DrawerId(r) : r \in reqs} \cup {ChunkId(r) : r \in reqs}
  IN  UNION {[1..k -> ids] : k \in 0..TopK}

Scored(q, hits) ==
  LET parents  == [i \in DOMAIN hits |-> ParentId(hits[i])]
      expected == ExpectedDrawers(q)
  IN  [question |-> q, hits |-> hits,
       hitAt1 |-> 1 \in DOMAIN parents /\ parents[1] \in expected,
       hitAt5 |-> \E i \in DOMAIN parents : parents[i] \in expected]

Query ==
  /\ pc = "query" /\ n <= Len(Questions)
  /\ \E hits \in Retrievable(Questions[n].sample) :
       record' = Scored(Questions[n], hits)
  /\ n' = n + 1
  /\ UNCHANGED <<pc, run, posted, errors, s2d, status, due, strays, daemon>>

\* The report is written, and the process ends.
Finish ==
  /\ pc = "query" /\ n > Len(Questions)
  /\ Exit
  /\ UNCHANGED daemon

\* The run is killed, or ends in an exception; a request it was waiting for
\* may still be carried out.
Crash ==
  /\ pc # "off"
  /\ Exit
  /\ late' = IF pc = "ingest" /\ n <= Len(Posts) THEN late \cup {NextPost} ELSE late
  /\ job'  \in {job} \cup (IF pc = "backfill" THEN {"running"} ELSE {})
  /\ UNCHANGED drawers

-----------------------------------------------------------------------------
Run == \/ StartRun \/ Guard \/ Post \/ Flush \/ StartBackfill \/ PollOver
       \/ PollTimeout \/ Query \/ Finish

Next == \/ Run \/ DeadlinePasses \/ Crash
        \/ (\E req \in late : CarryOut(req)) \/ JobEnds \/ Provision

Spec == Init /\ [][Next]_vars

\* The run takes its next step, every request of it having a timeout, and the
\* clock moves on.  Nothing is assumed of the daemon.
FairSpec == Spec /\ WF_vars(Run) /\ WF_vars(DeadlinePasses)

-----------------------------------------------------------------------------
(* Properties.                                                             *)

Hits  == {record.hits[i] : i \in DOMAIN record.hits}
Heard(id) == [from |-> id[1], heard |-> TRUE] \in drawers
Evidence(id) == /\ id[1].sample = record.question.sample
                /\ id[1].session \in record.question.evidence

\* A hit is credited only when a session that holds the evidence, of the
\* conversation the question is about, is among what was retrieved, and at
\* rank 1 only when it came first: whatever ids, chunks, duplicates and lost
\* answers there were.
HitIsReal ==
  pc = "query" /\ record # NoRecord =>
    /\ record.hitAt5 => \E id \in Hits : Evidence(id)
    /\ record.hitAt1 => Evidence(record.hits[1])

\* A miss is recorded only when no evidence was retrieved, but for drawers
\* whose id never reached the run: an answer without one or no answer, or
\* a drawer of an earlier run.
MissIsReal ==
  pc = "query" /\ record # NoRecord /\ ~record.hitAt5 =>
    \A id \in Hits : Evidence(id) => ~Heard(id) \/ id[1].run # run

\* The score of a question, read off the ids of the search and of the ingest,
\* is right both ways.
ScoreIsReal == HitIsReal /\ MissIsReal

\* The palace a run asks holds its own drawers only, but for requests of an
\* earlier run that were on their way when the guard counted none.
NoForeignDrawers ==
  pc \in {"ingest", "backfill", "poll", "query"} =>
    \A d \in drawers : d.from.run = run \/ d.from \in strays

\* The wait for the backfill ends, though the backfill may not.
PollEnds == pc = "poll" ~> pc # "poll"
=============================================================================
