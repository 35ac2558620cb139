# Verification of multipass-structural-memory-eval

`sme` measures memory systems: it ingests a corpus into a system, queries it,
takes a snapshot of its graph and scores both.  The systems are foreign and
live in other processes, so the code that decides whether a score can be
trusted is the code between them and the scorers: clients that match answers to
questions, resets that keep one corpus out of the next, caches, in-place
annotations.  The modules here model that code in TLA+, check it with TLC and
prove the most important part of it with TLAPS.

## The system's parts

| part | state it keeps | operations | what is hard | what makes it correct |
|---|---|---|---|---|
| Engram stdio transport (`sme/adapters/engram_adapter.py`) | child process, handshake flag, next id, line buffer | `call`, `close` | two pipes, late answers, dead and silent servers, deadlines | an answer is the answer to its own call; handshake first; waits end |
| Engram adapter (same file) | transport, id map, its database | `ingest_corpus`, `query`, `reset`, snapshot, `close` | calls that raise and are carried out all the same; wipes that fail | one corpus at a time; hits named after the right row; a report that adds up |
| Wiki compiler (`sme/conditions/wiki_compiler.py`) | article files, manifest, index | `compile_vault` | crashes between writes, failed writes, edits meanwhile | a cached article was made from the note as it is |
| Compiled-wiki and full-context readers (`sme/conditions`) | a cached context | `query` | the directory changes under the cache | the context is that of the last compilation |
| Supersession plumbing, Category 6 (`sme/adapters/base.py`, `sme/categories/supersession.py`) | marks on the edges of a snapshot | annotate, score | repeated annotation, duplicate, branching and circular replacements | marks and score agree; chains in order and complete |
| Contradiction plumbing, Category 3 | none | extract pairs, score | duplicates, self-pairs | pairs and score agree |
| OMEGA adapter (`sme/adapters/omega.py`) | `OMEGA_HOME`, a process-wide store singleton | construct, bind, ingest, snapshot, `close` | background threads, several adapters in one process | writes land in the adapter's own store; the home is put back |
| Palace daemon adapter and pipelines (`scripts/run_*_mempalace*.py`) | session-to-drawer map, records | guard, ingest, flush, backfill, query, score | lost acknowledgements, polling, the order of stages | hits are scored against what is stored; no foreign drawers |
| Bench runner (`scripts/bench_runner.sh`) | marker files on the daemon's host, a heartbeat | acquire, run, release | several supervisors, crashes, lost ssh calls, an age-based reaper | one ingest bench at a time; markers come and go with their benches |
| MemPalace adapters, other adapters (`sme/adapters`) | few: project counters, wings, banks | ingest, query, snapshot, reset | isolation by naming, paged deletion | one corpus at a time |
| Reader sweep, answer generator, judge (`sme/eval`) | per-question results of a thread pool | sweep, grade, vote | failures in the pool, retries | results independent of the pool; every call accounted for |
| Harness integration, Category 9 (`sme/eval/cat9a_orchestrators.py`) | tool-call counters | tool loop, probes | failures half-way | the count is of calls made |
| Graph categories, topology (`sme/categories`, `sme/topology`) | none | reports over a snapshot | boundaries, ties, two graphs behind one adapter | what a report calls a gap is one; two commands over one graph agree |
| Cross-validation and loaders (`scripts/cross_validate_longmemeval.py`, `sme/corpora`) | vault directories, records | materialise, load, query, score, judge, report | stores that outlive a question or a run | a question is answered from its own haystack; credit is for what was retrieved |
| Live reads (`sme/cli.py` with each adapter's `get_graph_snapshot`) | a lookup cache | cat3, cat5, cat9, retrieve | a store that is written to and fails between two requests | a snapshot is of what was there |
| Corpus doctor, statistics | none | pure functions | thresholds, floating point | agreement with a reference definition |

Calls go down: command line and scripts call adapters and scorers, an adapter
calls its transport, the transport its child process.  Snapshots and results
come back by value, except that `annotate_superseded_edges` changes the edges
it is given; the scorers read what it left there.

## Modules

| module | models | composed of |
|---|---|---|
| `RemoteCall` | what a caller of the transport may rely on (abstract) | |
| `EngramTransport` | `EngramStdioTransport`, with its child process | implements `RemoteCall` |
| `EngramTransportProofs` | theorems about `EngramTransport`, among them that it implements `RemoteCall` | |
| `EngramAdapter` | `EngramAdapter.ingest_corpus`, `query`, `reset`, the id map | its calls are `RemoteCall`'s |
| `EngramAdapterProofs` | theorems about `EngramAdapter` | |
| `WikiCompiler` | `compile_vault` with vault, articles, manifest, index | |
| `WikiCompilerProofs` | theorems about `WikiCompiler` | |
| `Supersession` | `annotate_superseded_edges`, `score_cat6`, `_build_chains` | |
| `BenchLock` | `bench_runner.sh`: markers, gate, heartbeat, release; the daemon's reaper | |
| `DaemonPipeline` | `run_locomo_mempalace_daemon.py`: guard, ingest, backfill, queries, drawer scoring | |
| `BenchProofs` | theorems about `BenchLock` and `DaemonPipeline` | over both |
| `OmegaBinding` | `OmegaAdapter`: `OMEGA_HOME`, the process's store, background threads | |
| `OmegaBindingProofs` | theorems about `OmegaBinding` | |
| `GraphSnapshot` | what a snapshot is, `TopologyAnalyzer.structural_health` | |
| `GapDetection`, `IngestionIntegrity`, `PhantomEdges`, `OntologyCoherence` | the scores of Categories 5, 4, phantom edges and 8 | over `GraphSnapshot` |
| `Scorecards` | the commands that score a graph | the four above |
| `CategoryProofs` | theorems about `Supersession` and `Scorecards` | over both |
| `Corpora` | the loaders of LongMemEval, LoCoMo and BEAM | |
| `Verdicts` | credit, judge labels and the three tallies | over `Corpora` |
| `CrossValidate` | the cross-validation run, its adapters and what they leave behind | over `Verdicts` |
| `SerialSweep` | the sweep as a loop over the records, which its results are promised to equal (abstract) | over `Verdicts` |
| `ReaderSweep` | `run_one_config`, the answer generator's clients, the pool | over `Verdicts` |
| `EvalHarness` | runs, then a sweep over the contexts they pinned | `CrossValidate` and `ReaderSweep`; implements `SerialSweep` |
| `EvalHarnessProofs` | theorems about `EvalHarness` and what it is made of | |
| `GraphProjection` | what each adapter makes of a backend's answers; Category 3's score | |
| `PalaceReads` | one command over a store that changes: requests, caches, probes, questions | over `GraphProjection` |
| `ToolLoop` | the ladder of Category 9a | over `PalaceReads` |
| `LiveCommandsProofs` | theorems about `ToolLoop` and `PalaceReads` | |
| `MC...` | the instances TLC checks | |

A definition that ends in `_Something` after the name of another one is a
faulty variant of that one: the property it is meant for must fail on it, which
shows that the property says something about the code.  They take no part in
any specification.

### EngramTransport

One thread runs inside `call`; `pc` is the line it is at, `spawn`, a write
(`sendInit`, `sendNote`, `sendCall`) or a wait (`awaitInit`, `awaitCall`).
`proc`, `started`, `nextId` and `buf` are the object's attributes.  A line is
two cells, its text and its newline, so that `os.read` can return half a line
and a process can die in the middle of one; a message glued to the torn text
of an earlier process does not parse, as in `_next_message`.  `_next_message` takes a buffered line before it
looks at the clock, and looks at the clock before it selects; that order is
kept, since `WaitEnds` hangs on it.  A request carries a tag, the call and
method it is for; the server copies it to its reply.  The client never
looks at tags: it has the id to go by, and the properties say that this is
enough.

The child is only what the pipes allow: it may read, answer any request it has
read in any order, fail it, print something else, stop in the middle of a line,
stop altogether, or die.  It does not answer what it was not asked, does not
answer twice, and copies ids correctly.

`close()` is called between calls, which is how the adapter calls it.  Not
modelled: that `close()` first waits for the process to end (it returns in at
most ten seconds, having killed it), the contents of answers beyond "result",
"no content" and "error", and ids that do not fit an integer.

### EngramAdapter

A call is in one of the states of `RemoteCall`, which it instantiates over its
own variables, so that every step of a call is a step the transport may make.
`store` is engram's table of memories, `wiped` is history: whether the last reset left it empty.  A memory remembers which row and corpus
asked for it; the adapter does not see this and has only `idMap`.  The server
keeps one memory per text and numbers memories from 1 in an empty store, so ids
come back after a wipe.  `Wipe` covers both branches of `reset`: it works, or it leaves the
store as it is without saying so (`os.remove`, a `DELETE` or the opening of the
database fail), or raises from `commit`, which `ingest_corpus` turns into a warning.
A wipe that removes some tables and not others counts as failed.
`entry` says whether `engram_path` was given: without it `_get_transport` raises, an ingest
resets and then reports one error for all its rows (`Opened`), and a query returns the error.
`ReportAddsUp` is what the counters of the report are good for: an ingest that goes on over a
wipe that failed cannot be told from the wipe's own report, but from the duplicates of a
corpus that has none.  Counters of relationships and `close()` are not modelled; the snapshot is in `PalaceReads`.

### WikiCompiler

`pc` follows a run from note to note.  `write_text` is two steps, since opening
empties the file; `Stop` may come between any two steps, as a dead process or
as an exception that leaves `compile_vault` (a note that vanished between
`rglob` and `read_text`, a full disk under the manifest).  `Edit` changes the
vault at any time, `Tidy` removes an article between runs.  A body stands for
its text and its hash, which assumes that SHA-256 does not collide; an article
is the note and the body it was made from, so that the properties can say what
the model summarised without modelling the summary.  A manifest that was opened
and not written does not parse, and an unparsable manifest is an empty one.  The size
counters of the report are left out.

### Supersession

`AddEdge` is the adapter's projection, in any order, `Annotate` may run any
number of times, also on a snapshot that grew.  An edge is its two ends,
whether its normalised type is one of the supersedes predicates, and the two
properties the annotation sets.  The walk of `_build_chains` is one step per
node, because it is the walk's order that the properties are about.  An entity is a
number, since `_build_chains` sorts ids; `Sorted` lists a set by the rank of its
elements.  `Circular` is the union of the sets of replaced entities that hold the
replacement of each of theirs: replacements that lead into one never end.

### BenchLock

`place[b]` is where supervisor `b` is in `bench_acquire` and `bench_release`:
`mkdir`, `count`, `gate`, `touch` are the steps with an ssh call each, `touched` lies
between the touch and the trap, `running` is the wrapped command, and
`release` the rm and rmdir.  `count` is the script's local variable, `heart` the set of
background loops, `dir` and `markers` what lies on the daemon's host.  Every ssh
call may fail before or after the remote command is done, and the script sees the
same.  A heartbeat is on its way (`flight`) until it arrives or is lost, also
after its loop was killed; the age of a marker is counted in heartbeat periods.
`Reap` is the daemon's and external: it drops markers of `StaleAge` periods.
`reaped` and `met` are history, for the properties.  A supervisor that is killed
leaves its loop running; `MaxKills` bounds how many are.  The free memory of the
host is any number.  Not modelled: the wrapped command, and retries of whoever
starts the script.

### DaemonPipeline

`pc` is the stage `main` is at, `n` the next session or question in it; `posted`,
`errors`, `s2d` and `status` are `ingest_total`, `session_to_drawer` and
`backfill_info`, and `record` the record appended last, since a record does not
change later.  A request is a session of a conversation and the run that sends
it; it stands for the drawer's id too, because every request that is carried
out makes a drawer with an id of its own, and a chunk's id is the drawer's with a
suffix.  A request that was not acknowledged goes to `late`: the daemon
carries it out some time (`CarryOut`) or never.  `Crash` is a kill or one of the
exceptions `main` does not catch, at any stage; the session being posted may then
be stored or go to `late`.  `StartRun` starts the script again on the same
daemon, `Provision` sets up an empty one between two runs.  A search returns any
drawers and chunks of its wing, in any order and more than once, or nothing,
which is also what a query that raises amounts to.  `strays` is history: the late
requests there were when the guard passed.

Assumed of the daemon, which is not in the repository: that its reply to `GET
/list` holds the number of drawers, that a backfill is in progress from the moment
its POST is answered, that a search in a wing stays in it, and that wings of
different conversations are different ones.  Not modelled here: the templates and verdicts of the
judge and the report's averages (see `Verdicts`), the outcome of the flush, which
the code ignores, and the selection of questions.

### OmegaBinding

The main thread runs one method of one adapter at a time; `pc` is where it is in
the bind (`await`, `drop`, `verify`), a `store` call, or a read (`look`, `read`).
`store` is OMEGA's process-wide singleton with the directory it was built for, and
`Got` what the next caller is given: the store there is, or a new one for what
`OMEGA_HOME` says.  A background thread is a slot with a directory it writes to; it
may find no store and build one in two steps (`Build`, `Install`), so that the
variable can change in between.  `Await` joins the threads listed on the store that
is there at that moment; the others, and those whose join times out, are `lost`.
`open` remembers each adapter's previous `OMEGA_HOME` in the order of
construction; `strict` is history: adapters were used and closed innermost first.
An adapter is constructed at most once.  A snapshot reads the file on a connection of its
own, in attempts: `seen` lists what each came to.  The file may not open (`refused`, which
ends the snapshot), a `SELECT` may raise (`raised`, tried again), or both answer, with rows or
edges missing while a thread writes there (`answered`).  Parsing of OMEGA's text output is
abstracted to hits; the row's contents are left out.

### GapDetection, IngestionIntegrity, PhantomEdges, OntologyCoherence, Scorecards

The scores are operators over a snapshot (`GraphSnapshot`), a record of entities
and edges that may dangle, loop or run in parallel.  `Scorecards` makes them
commands: `Analyze`, `Check`, `RunCat4`, `RunCat5`, `RunCat8`, `ReadPhantoms` each
read a snapshot of their own.  For a palace daemon, commands
differ in which of two graphs they read by default, a reading may be a sample, and the
exact counts `cat4` asks the daemon for may not come (`Exact`).  The remediation texts of a
report ask a maintainer to change the graph by hand; no command does it, so there is no action
for it.
Ratios are kept as pairs of integers; the B-Cubed score is a sum in units of
`1/Unit`, which the sizes of clusters that occur divide.  A component is the least set
of entities around one that no edge leaves (`Sealed`), a collision is counted as the
size of its group; both say what the code's loops compute without a recursion of their
own, so that they can be reasoned about.  `Readable` is what an adapter may answer with,
and `ScorecardsAssumption` says of the scaffold what it says of any graph, and that no
alias is in two entries of the registry.  The specification is `ScoresSpec`.  Colours,
bands and texts are left out, as are modularity, entropy and latency.

### Corpora, Verdicts, CrossValidate, ReaderSweep, EvalHarness

A session is a name, a prefix and a number, since `D1` is a substring of `D10` and
the code compares names that way.  A plan is the command line of a run.  `todo` is
its questions grouped by vault, and `Open...` builds the adapter of the first
group: it materialises the vault and loads it, each kind of adapter into the store it
has (`disk`, `banks`, `table`, `server`, `palace`), any of which may lose rows or
fail where the factory lets it.  `Ask` retrieves at most `TopK` documents the store
holds, in any order, and `Scored` is `_score_and_judge`.  Records are in memory
until the report; a factory that raises ends the run without one.  `ReaderSweep`
has one place per record in `at`: building a client, asking with and without a
temperature, judging.  Workers interleave at every access to the shared cache and
set; the main thread waits for the futures in order, and an exception leaves the
pool only after all workers are through.  `SerialSweep` is the same with one record after
another; it knows no workers, clients or temperatures.  Its `rows` are what the main thread
has taken, the records before `next` (`Taken`).

`StartSweep` forgets the runs, which are another process, and keeps only the pinned
questions: the product of both would be out of reach.

### GraphProjection, PalaceReads, ToolLoop

`GraphProjection` is what an adapter makes of answers: drawers, wings and rooms,
tables of a knowledge graph, and the pairs Category 3 looks for.  In `PalaceReads`,
`pc` is the next request of the command's adapter, and `got` what it heard so far;
an agent writes between any two requests (`Write`: file a drawer, delete one, add or
remove a relation).  Every request may fail, and what then happens is the
adapter's: fall back, skip, give up, raise.  `retrieve` routes by room names without the
spaces around them and searches for the names as stored (`Strip`, `Scope`).  ChromaDB has
an answer whenever its filter leaves a drawer; every other search may find nothing in a store
that has some, since it filters by kind, matches words, or is a server's.  Nine adapters are modelled: MemPalace over
ChromaDB and SQLite, the palace daemon with its `/graph` endpoint and its walk, the
MemPalace server, engram, LadybugDB over its API and from a file, familiar,
hindsight and the good-dog graph.  `past`, `clean` and `rooms.saw` are history.
`ToolLoop` is the command `cat9a`: a ladder of models, a driver each, questions,
turns and tool uses, each of which may fail.  A model says what it likes and
a search returns any sources, whatever the store holds.  Nothing is
written during `cat9a`.

## Runs

| run | bounds | shows |
|---|---|---|
| `engram_transport` | 3 calls, 2 requests and 4 cells of pipe | `AnswerIsOurs`, `HandshakeFirst`, `WaitEnds`, and that every step is a step of `RemoteCall` or none |
| `engram_hang` | 3 calls, pipes of 2 | `CallEnds` fails: the write in `_send` has no deadline |
| `engram_adapter` | 6 calls, corpora of 3 and 2 rows that share a text | `Attribution`, `Isolation`, `ReportAddsUp` |
| `wiki_compiler` | 2 notes, 2 bodies, 3 runs, 2 edits | `CacheTruthUnlessSuspect`, `ForceRepairs` |
| `supersession` | 4 entities, 3 edges | `MarksAgree`, `ChainsComplete` |
| `bench_lock` | 3 supervisors, one that only retrieves and one with the opt-in; cap 2, age limit 2, 1 kill | `KeepsMarker`, `AdmittedWithin`, `MarkersGo` |
| `bench_gate` | 2 ingest benches without the opt-in, no kill | `SecondRefused` fails: both count before either touches |
| `daemon_pipeline` | 2 conversations, 3 sessions, 2 questions, 2 chunks per search, 2 runs | `ScoreIsReal`, `NoForeignDrawers`, `PollEnds` |
| `omega` | 2 adapters, 1 background thread, corpora of 1 row, 2 binds, 2 reads | `OwnWrites`, `EnvFollows`, `ReadsOwn`, `SnapshotWhole` |
| `scorecards` | graphs of at most 4 entities and 3 edges, 4 kinds of entities, 2 kinds of edges, 1 gap listed | `ReadingsAgree`, `GapsAreReal`, `AliasesScored`, `OntologyAccounts` |
| `eval` | 6 datasets, 12 histories of up to three runs, 2 documents per search, 2 threads, 2 configurations, 3 pinned records | `Isolated`, `CreditIsEarned`, `ReportWhole`, `TalliesAgree`, `Charges`, `SweepWhole`, `SweepEnds`, and that the sweep is one of `SerialSweep` (`AsSerial`) |
| `live_commands` | 3 drawers, 3 entities, 2 writes per command, pages of 1, 2 questions; 2 models, 2 questions, 2 turns of 2 tool uses | `QuietReadsAreWhole`, `EdgesEnd`, `NothingInvented`, `NoResultsIsTrue`, `CallsAreSearches`, `CommandEnds` |

The type invariants of `EngramTransport`, `BenchLock` (`LockTypeOK`), `DaemonPipeline`,
`OmegaBinding`, the evaluation and the live commands are proved and not run.

Why the bounds are enough.  Three calls let an answer be late by two calls and
let a close and a second process come in between; four cells hold two lines, so
a stale line can precede the awaited one in the pipe while a torn one is in the
buffer; two requests let a note and a call wait together.  Six remote calls
are the four remembers of both corpora and two recalls; `b` repeats the text of
`a` and `y` that of both, so a duplicate occurs within a corpus and, after a
wipe that failed, across corpora.  Three runs are one to establish a cache, one
to damage it and one to be misled; two edits change a note and change it back.
Three edges over four entities give a chain of four, a branch, a circle with a
tail, and an entity replaced twice.  Two ingest benches are a race, the third
supervisor a marker that is no ingest bench's; a cap of two makes both refusals
occur; an age limit of two lets a heartbeat be missed once without harm and
twice with it.  The same session name occurs in both conversations, so that a hit
in the wrong wing would be taken for one; two sessions of one conversation are
one with the evidence and one without; two chunks per search let a hit be at rank
1, at rank 2, or double; the second run meets what the first left behind.

Two OMEGA adapters are an inner and an outer one, in either order of closing; one
thread is enough to build a store at the wrong moment, since the theorems cover
more of them.  Four entities give two components of two, three components with one
isolate, a bridge and a cycle; two spellings of one name, two types of which one
refines the other, a name of spaces and an edge to no entity are what the keys and
vocabularies are about.  The histories of `eval` pair every kind of adapter with the
dataset whose leftovers would show: the oracle file has fewer sessions of the same
question, the two BEAM buckets share a conversation id, the LoCoMo sample holds `D1`
and `D10`.  Two threads and two configurations of one model let one worker find the
cache half filled by the other, and the second configuration find it full.  Three
drawers, read one by one, let one be deleted before, at and after the page being read,
and be filed again elsewhere; the stores hold a room in two wings, a room with
spaces around its name, a nameless entity, an entity in a log table, a relation the sample cuts off, and nothing at all.

`CHECK_DEADLOCK FALSE` is set because every behaviour is bounded: when the
calls, runs or edges are used up, or all benches have ended, the system may rest.
`live_commands` checks for deadlock: a command that is over stutters explicitly.

### Fairness

`EngramTransport!FairSpec` assumes that the client's thread takes its next step
when it can and that the clock moves on.  Both hold for a thread of a running
Python process.  Nothing is assumed of the child, which is why
`WaitEnds` is worth having and why `CallEnds` fails.

`BenchLock!FairLockSpec` assumes that time passes for a loop and a marker, that a touch
on its way arrives or is lost, and that the daemon looks at the ages of markers.
No supervisor need make progress: `MarkersGo` is about those that ended.

`DaemonPipeline!FairSpec` assumes that the run takes its next step, which holds
because every request of it has a timeout, and that the clock moves on.  The
daemon may do nothing: a backfill that never ends is among the behaviours
`PollEnds` is about.

`EvalHarness!Fairness` assumes that the main thread and every worker of the pool go
on, one by one: each call of a client has a timeout and a bounded number of retries.
A worker that waits for its place in the pool is not owed one; `SweepEnds` has to show
that it gets it.

`ToolLoop!LiveSpec` assumes that a request of a command is answered, with an error
if need be, or times out, and that a model answers or its client gives up.  Agents
need not write, and need not stop before `Writes` is used up.

All other properties are of safety and need no fairness.

## Where code and documentation disagree

* `_send` blocks in a write for as long as the server does not read
  (`engram_adapter.py:180`), though the timeouts are documented as the
  handshake's and the call's limits (line 282).  Run `engram_hang`.
* A wipe that fails is swallowed (`engram_adapter.py:684-697`) and
  `ingest_corpus` goes on, though `reset_before_ingest` is documented as
  per-corpus isolation (lines 280-281): what holds is `Isolation`, after a wipe that
  worked, and `ReportAddsUp`: duplicates of a corpus that has none give it away.
* A stopped run leaves articles its manifest does not describe
  (`wiki_compiler.py:165` and `204`), and the next one serves them, though the
  cache "keys each compiled article by the SHA256 of its raw source" (lines
  27-28).  The damage is limited: `CacheTruthUnlessSuspect`
  and `ForceRepairs` hold.
* `score_cat6` says that it verifies the plumbing, "not just that the edges
  exist" (`supersession.py:116-117`), and counts edges that were never
  annotated (lines 128-132).
* `bench_acquire` counts the markers (`bench_runner.sh:109`) before it touches its
  own (line 131), and a count that ssh did not answer is zero (line 88), so two
  ingest benches may run at a time, though `README-concurrency.md:60-61` says that a
  second one is refused by default.  Run `bench_gate`.  What does hold is
  `AdmittedWithin`: a bench is not admitted next to one it could have seen.
* The daemon run of LoCoMo judges temporal questions with the base template,
  because `query_all_samples` does not pass `judge_question_type`
  (`run_locomo_mempalace_daemon.py:269`), though its header (lines 22-25) and the
  report's metadata (lines 462-463) say that a temporal answer may be off by one;
  the flat run passes it (`cross_validate_longmemeval.py:775`).
* `close` of an OMEGA adapter restores what `OMEGA_HOME` was when it was opened, "so we
  never leave the process pointed at our isolated benchmark store" (`omega.py:522-523`);
  when the older of two adapters is closed first, the process is left at the directory of
  one that is closed.  `EnvFollows` is what holds otherwise.
* `ingest_corpus` says that dropping the store "makes the next store() land in this
  adapter's db deterministically" (`omega.py:259-260`); a thread of the dropped store may put
  another in place after the check (line 158).  `OwnWrites` says that
  nothing else can.
* The help of `--structural-projection` says of Categories 4, 5 and 8 that the "Default is
  the real KG" (`cli.py:1051-1052`); `cat8` counts the scaffold (lines 683-690).
* `_infer_room` calls it better "to return unfiltered results than to mis-route"
  (`mempalace.py:314-315`), but strips the rooms it routes to (lines 278-284), and the
  filter compares the stored name: a question routed to a room with a space around its name
  finds nothing.  `NoResultsIsTrue` says when else it can happen.

Those with a run are checked as violations.  The others, and the following, are
what the models do because the code does; each bounds what a property can say,
and the property's exceptions name it.

Of the OMEGA adapter: a constructor that fails has already set `OMEGA_HOME`; `reset`
deletes files under a store that keeps them open; a snapshot of a file that does not open,
or whose `SELECT` raises as often as it is tried, is empty without an error.

Of the structural commands:

* Three sized components never have a candidate gap, since a type two of them share
  is in more than half of them (`gap_detection.py:169-205`).
* Gap precision passes 1 when two seeds fall in one pair of components (line 395), and
  connecting the components of a recalled seed lowers recall.
* A node whose only edge is to itself is isolated for `cat5` and not for `analyze`.
* A name of spaces is neither keyed nor a required-field gap, though a comment says it
  is "handled below" (`ingestion_integrity.py:205`).
* The alias score raises when two listed groups name the same entity name, and groups
  beyond the tenth count as unresolved.
* `analyze` and `cat8` read a daemon's scaffold by default where `cat4`, `cat5` and `check`
  read its knowledge graph; a sample of it makes gaps of connected components.
* Remediations name commands that do not exist (`sme-eval gap`, `ingest`, `ontology`).

Of the evaluation:

* `D1` is credited when only `D10` was retrieved (`cross_validate_longmemeval.py:426`).
  OMEGA's ids never equal a session's name, so its `hit_at_K` is always false.
* A kept work directory keeps the files of the last dataset; BEAM's conversation ids
  repeat from bucket to bucket, and so do the Hindsight banks named after them; a
  haystack of blank sessions leaves the last one in the MemPalace server.
* The Hindsight and OMEGA factories drop the errors of single rows.  A factory that
  raises loses the records of the whole run.
* `ABSTAIN` is right in two tallies whatever the question is, in the third only for
  abstentions; errors are in the denominator of the third only.
* `_client_for_model` "builds each client at most once" and only "the FIRST call pays"
  for a temperature refused: up to one per thread does (`Charges`).  A failed
  build can replace a client that worked.
* One record that raises loses its configuration (`reader_sweep.py:357`).

Of the live commands:

* `cat3` reads the graph twice, so a write in between costs detection or precision;
  without one both are full by construction, except for engram.
* A drawer deleted during the paged read makes it skip another; one filed again is
  read twice; tunnels join rooms of drawers that never were there together.
* The daemon's adapter falls back to the walk on any failure of `/graph`, and the walk
  skips wings that fail; with `graph_kg_only` the fallback is an empty graph.
* The rooms MemPalace routes by are looked up once; a failed lookup turns routing off
  for good.  `_probe_search` fails on `NO_RESULTS`, though its comment counts no hits as
  success.
* LadybugDB's reader uses the first pair of labels of a relation table only, and
  types edges by the table when its columns could not be listed.
* The daemon's warnings are an error beside the hits they come with, and the summary
  of `retrieve` counts an error as recall 0.
* A driver of Category 9a that raises has 0 calls whatever it searched; Bedrock does not
  count tool uses of a turn that did not stop for them, Ollama counts all; the last
  turn's results are never shown to the model; a daemon that cannot be reached is
  captured as a source.  The matrix is written only at the end.

## Theorems

`EngramTransportProofs` proves, for every number of calls and every capacity of
the pipes (`TransportAssumption`: they are positive):

* `TypeCorrect`: `Spec => []TypeOK`.
* `AnswerSafety`: `Spec => []AnswerIsOurs`.  The property is not inductive: it
  speaks of the last outcome only, while the danger is in messages that are
  still on their way.  `AnswerInv` follows a request through all the places it
  can be in, stdin, the server's work, a torn line, stdout and the buffer.
  Every message there that bears an id was tagged when that id was given out;
  ids are never given out twice, not even after `close()`, so the message with
  the current id has the current call's tag.  `Messages` and the lemmas on
  sequences show that moving, cutting and joining the pipes brings no new
  message about.
* `HandshakeSafety`: `Spec => []HandshakeFirst`.  `HandshakeInv` adds that
  `started`, and being past the greeting, implies a greeted process while it
  lives, which rests on `AnswerInv`: the answer that ended the handshake's wait
  was this process's answer, because its id is too new for another's.

It also proves the refinement, `TransportImplements`: `Spec => ImplementsRemoteCall`, so that what `EngramAdapter` is built on is what the transport
does.  `RemoteCall`'s `pending` is the set of `tools/call` requests in the stdin pipe, its
`busy` is `pc # "idle"`; `BeginCall` is `Invoke`, `SendCall` is `Send`, the child's read of a
call is `Execute`, an answer taken is `Return`, an error `Raise`, and what empties the pipe
is `Lose`.  Two facts carry it.  `Outgoing`: a call is in the pipe at most once, and not
after it was read, so that a read takes just one call out of `pending`.  `Carried`: a
message with a call's tag exists only once the child has read the call; with `AnswerInv`,
the answer taken has the current call's tag, so a call that returns was executed.

`EngramAdapterProofs` proves, for any rows, contents, corpora and number of calls
(`AdapterAssumption`):

* `AdapterAttributes`: `Spec => []Attribution`.  `StoreOK` says that memories are numbered
  without a gap, so that a new one's id is not in the id map; `LiveCalls` that a call
  which can still be executed is of the current corpus, and is the one the client waits
  for or has been reported; `Known` that an unnamed memory is of a reported row or is in
  the answer about to be read.
* `AdapterIsolates`: `Spec => []Isolation`, from `LiveCalls`: no call survives a reset.
* `AdapterAddsUp`: `Spec => []ReportAddsUp`.  `PlaceOK` says where in the corpus the ingest
  is and that the row asked for is the next one, `SourcesOK` that the memories of the
  corpus, and those that pending calls will make, are of rows it has passed or is at,
  `CountsOK` that the memory about to be counted is not in the id map yet, `RowsOK` that a
  row passed is blank, reported or stored.  `UnlikeOK` is the duplicates: a memory of the
  text of the next row would be of this corpus (`Isolation`) and of a row passed, and the
  corpus repeats no text (`NextIsNew`).

`WikiCompilerProofs` proves, when no two notes share an article file (`OwnFiles`; with
`a/b.md` and `a__b.md` in one vault both theorems would be false):

* `CacheIsTrue`: `Spec => []CacheTruthUnlessSuspect`.  A run has two manifests, its own and
  the one on disk, and `ManTrue` and `DiskTrue` say for each which notes it is right
  about: its own for what it has compiled, the one on disk for what it has not.  When
  the run returns the first becomes the second; when it dies the second counts, and what
  the run compiled is suspect.  `Progress` says that no note is visited twice.
* `ForceIsEnough`: `Spec => []ForceRepairs`: a forced run's manifest names only what it
  compiled.

`CategoryProofs` proves of `Supersession`, for any entities and edges:

* `StampsAgree`: `Spec => []MarksAgree`.  `MarksFollow` says that a mark, however old,
  is on a claim of an entity that is superseded still, so that the marks add nothing to
  the map of the score; `MarksFresh` that after an annotation they are those of the map.
  That the map has a value for every superseded entity needs a largest index, which
  `LargestIndex` gets from the well-foundedness of `<`.
* `ChainsHold`: `Spec => []ChainsComplete`.  `Walking` says of the walk that every entity
  it has taken comes after the one that replaced it (`Walked`), that what is on the
  frontier was replaced by one it has taken (`Open`), and that all that these replaced is
  taken or on the frontier (`Reached`); when the frontier is empty the chain is
  `Complete`.  `HeadsShared` says that a current entity is a head to come, the one the walk
  began with, or the last of one chain.  So at the end the replaced entities in
  no chain have replacements in no chain, which are replaced too: they are `Circular`.

It proves of `Scorecards`, under `ScorecardsAssumption`, for any graph, registry, seeds,
ontologies and sizes of a component:

* `GapsHold`, `ReadingsHold`, `AliasesHold`, `OntologyHold`: `ScoresSpec => []` of
  `GapsAreReal`, `ReadingsAgree`, `AliasesScored` and `OntologyAccounts`.

The invariant of all four, `ScoresInv`, is short: the graph is one an adapter may
answer with, and a report is what its command makes of a graph of that kind (`Told`).
The work is in the lemmas on graphs it leaves to be shown.  `LinkJoins`: an edge between
two components makes one of them and leaves the others.  `FewerEdges` and `BridgesSplit` say that without an edge
there are at least as many components, and without a bridge more.  `ForestBound`: a graph all
of whose edges are bridges has no more edges than entities less components, and so no
loop; the induction is over the number of edges, by a least counterexample.  `KeysCounted` counts collision groups by their least members.
`FullShare` and `FullParts`: a B-Cubed sum reaches its bound only if every term does,
that is, when each cluster lies in one of the registry, or the other way round.  More seeds recalled than
gaps listed is the pigeonhole principle.

`EvalHarnessProofs` proves, for any files, histories of runs, readers, number of threads
and size of a search (`FilesAssumption`, that an id names one record of a file and a
question is of its own record and, in LongMemEval, of a type in `TypeOrder`, which the code
lists from the data; `PlansAssumption`; `SweepAssumption`):

* `TypesHold`, the types of runs and sweep.
* `IsolatedHolds`: `Spec => []Isolated`, and `CreditIsEarnedHolds`: `Spec =>
  []CreditIsEarned`.  Their invariant `Harness` says of every store whose documents it
  can hold (`StoresKnown`: `DiskKnown` of the work directory, `BanksKnown` of the Hindsight
  banks, `PalaceKnown` of the servers and the daemon, `Scoped` of what a search of this
  run can reach), and of every record under way what the two properties and the judge's
  labels need (`RecordsKnown`).  What is left over is passed on: a kept directory is loaded
  into a bank which the run after the next finds.
* `TalliesAgreeHolds`: `Spec => []TalliesAgree`, of every list of records that the judge can
  leave.
* `ChargesHold`: `Spec => []Charges`.  `Bounded` counts what a model has refused, and a lane has
  had built, together with the workers that are about to ask or to build.
* `ReportWholeHolds`: `Spec => []ReportWhole`, from `AccountHolds`: `Spec => []Account`.  The
  property is about the report alone.  `Account` follows every question that the run took: it
  is recorded or in one of the groups that are left, in one place only, and together they
  are those of the command line.  Grouping by vault, taking the first of a group, and closing
  an empty one keep it (`AccountStep`).  What the command line selects is shown apart from the
  run (`SelectedHolds`): the rounds of the stratified cap take each question once
  (`RoundsHold`), the question of a later round comes later (`Ordered`), so any beginning of
  them is even (`RoundsEven`); a sequence without repetitions into a set is no longer than one
  that fills it (`InjectiveShorter`).
* `SweepAsSerial`: `Spec => AsSerial`, the refinement: a sweep with any number of threads is
  one of `SerialSweep`.  `Await` is its `GradeNext`, `Raise` its `GiveUp`, `NextConfig` its
  `EndConfig`, `StartSweep` its `Pin`, and every step of a worker is a stutter, since a worker
  has a record the main thread has not taken (`InOrder`, `WorkTouches`).  `Given` adds that
  labels are verdicts the judge may come to on the question of their record.
* `SweepWholeHolds`: `Spec => []SweepWhole`.  `InOrder` says that the main thread
  takes the futures in the order of the records and that the pool is left only when all
  were carried out, `RowsFit` that each row is its own record's.

The code's loops over records are folds, whose definition is a recursive function that
is chosen.  `FoldExists` shows that there is one, by induction over the length (`UpTo`), and
`FoldSteps` that its values follow one another, element by element; the loops of the
loaders and of the run are shown to do so one by one (`EvidenceSteps`, `MetSteps`, and so
on).

`LiveCommandsProofs` proves, for any stores, writes, failures, sizes of pages and samples,
adapters, questions and ladders (`PalaceReadsAssumption`, `LadderAssumption`):

* `LiveTypeCorrect`: `LiveSpec => [](ReadTypes /\ Placed)`: a request is one of the
  command's adapter.
* `EdgesEndHolds`: `LiveSpec => []EdgesEnd`.  `GraphsEnd`: a step leaves the graph as
  it is or ends a read with one whose edges end, since the code adds the ends of an edge
  along with it or drops the edge.
* `NothingInventedHolds`: `LiveSpec => []NothingInvented`.  `Remembered` says that the content of
  the store at any moment of the read is in `past`, `AnswersSeen` that every answer
  is made of such content, `GraphSeen` that the graph built from them is.
* `NoResultsHolds`: `LiveSpec => []NoResultsIsTrue`, of MemPalace, the only adapter whose
  search has an answer whenever its filter leaves a drawer.  `RoomsSeen` says that the rooms
  known are names of drawers there were at the lookup (`SeenIn`) and that every row so far
  is honest: a palace with drawers had no results only for a room the lookup saw, all of
  whose drawers under just that name have gone.
* `QuietReadsHold`: `LiveSpec => []QuietReadsAreWhole`.  `SoFar` says of each adapter
  what a read without a write in between has heard of the store after as many
  pages, wings, entities or tables as it has taken; `Right` that what it makes of all of them is
  the whole graph, and that Category 3 finds the pairs that were seeded.
* `CallsAreSearchesHolds`: `LiveSpec => []CallsAreSearches`.  `LadderInv` adds that the
  calls counted in a question are among the searches made in it (`Counted`) and the rows
  of the matrix are of earlier models, in the order of the ladder (`Ordered`).

`BenchProofs` proves, for any finite set of supervisors of either kind, any
cap, age limit and number of kills (`BenchAssumption`):

* `LockTypeCorrect`: `LockSpec => []LockTypeOK`.
* `MarkerSafety`: `LockSpec => []KeepsMarker`.  Together with `LockTypeOK` it is inductive:
  the own release and the daemon are the only ones to remove a marker.
* `GateSafety`: `LockSpec => []AdmittedWithin`.  `AdmittedInv` adds what the gate
  compares: the benches met at the count are at most `count`, which follows from
  `KeepsMarker` (they have markers, and more markers may stand there), and a bench
  past the gate was not refused.

It proves, for any conversations, questions, number of runs and
size of a search of the daemon's pipeline (`PipelineAssumption`):

* `PipelineTypeCorrect`: `Spec => []TypeOK`, along `Ledger`, which keeps
  the counts of the ingest and the next post in step.
* `PalaceIsOwn`: `Spec => []NoForeignDrawers`.  `Isolated` says of the
  requests still on their way what the property says of the drawers.
* `ScoresAreReal`: `Spec => []ScoreIsReal`, by `HitsAreReal` and
  `MissesAreReal`, one for each half of it: no hit without evidence retrieved,
  no miss with it, but for drawers whose id the run was not told.  Both are about the record appended last and follow from
  `ScoringInv`: a record is what scoring its hits against the map comes to
  (`Recorded`), as the map stays as it is once questions are asked, and a
  drawer whose id the run was told is in the map (`Known`, which needs that
  nothing is of a run yet to come).

`OmegaBindingProofs` proves, for any number of adapters, background threads, binds,
reads and rows (`OmegaAssumption`: the names of directories differ):

* `BindingTypeCorrect`: `Spec => []TypeOK`, along `Made`: an adapter that is open or
  at work has a directory.
* `WritesAreOwn`: `Spec => []OwnWrites`.  The property is about rows written; the
  invariant is about the moment before: `Bound` says that once the bind has dropped the
  store, the variable is the adapter's directory and the store, if there is one, was
  built for it (`Placed`) unless a thread put it there.
* `EnvironmentFollows` and `QueryReadsOwn`: `Stacked` says that what each open adapter
  remembers is the directory of the one below it, and the lowest one the variable's
  original value; so a close in order restores what the new top wants, and `Placed`
  carries over to the store it reads.
* `SnapshotsWhole`: `Spec => []SnapshotWhole`, of what every attempt came to, the file that
  does not open and the `SELECT` that raises included.  `Findable` says that a thread which
  writes to the directory being read is either listed on the store of that directory, or
  lost; `Counted` that a snapshot under way has made the attempts it counts.

Two properties were corrected because their proof failed.

* `AliasesScored` said that names with one canonical form are in one cluster when all
  groups are listed.  TLC's graphs are too small to refute it: a name without a key is in
  no group, and a group of another type may hold the same name and take it.  The property
  now says so.
* What a run left may reach a bank through another run: files kept by a flat run are
  loaded by a Hindsight run that keeps its banks, which the next one finds.  The
  histories that TLC runs through did not tell.

Only model-checked: `WaitEnds`, `MarkersGo`, `PollEnds`, `SweepEnds` and `CommandEnds`,
since liveness under fairness is beyond the prover.  Every other property of a passing run is
a theorem.

## Not modelled, and what could follow

* `run_longmemeval_bench.sh` and `preflight_bench.sh` are sequences of read-only checks
  before the bench runner is started.
* The corpus doctor transforms texts and scores detectors on them; what can go wrong
  lies in its regular expressions and thresholds.
* `multi_hop`, `latency`, modularity, entropy, bootstrap, false-discovery control and
  prices are floating-point by nature.
* The adapters of mem0, agentmemory, ai_memory, adaptmem, longhand and rlm translate
  requests one to one; the oracle and random retrievers have no state.  agentmemory's
  counter of projects starts again in every process, against a server that keeps them
  (`agentmemory.py:68`).
* HotpotQA, the ablations and offline analyses under `scripts/`: each reads files and
  prints numbers.
* Printing, argument parsing, embeddings, prompts and the contents of corpora.

Next would be the posts of one question of `run_longmemeval_mempalace.py` as steps of their
own, and the voting of several judges.
