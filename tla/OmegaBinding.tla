---------------------------- MODULE OmegaBinding ----------------------------
(***************************************************************************)
(* The OMEGA adapter (src/sme/adapters/omega.py).  OMEGA keeps ONE store   *)
(* for the whole process, built on demand for the directory the variable   *)
(* OMEGA_HOME names at that moment; every adapter wants its own directory, *)
(* so it sets the variable and drops the store, and puts the variable back *)
(* when it is closed.  store() leaves background threads behind, which are *)
(* listed on the store object they came from and rebuild the process's     *)
(* store when they find none.                                              *)
(*                                                                         *)
(* The main thread runs one operation of an adapter at a time; the         *)
(* background threads run between any two of its steps.                    *)
(***************************************************************************)
EXTENDS Naturals, Sequences, SequencesExt

CONSTANTS
    Adapters,   \* adapter objects; each one's own directory has its name
    Threads,    \* slots for background threads
    Default,    \* ~/.omega
    Unset,      \* OMEGA_HOME is not set
    None,
    Attempts,   \* binds tried by an ingest
    Reads,      \* reads tried by a snapshot
    Rows        \* rows of a corpus

ASSUME OmegaAssumption ==
    /\ Attempts \in Nat \ {0} /\ Reads \in Nat \ {0} /\ Rows \in Nat
    /\ Default \notin Adapters
    /\ Unset \notin Adapters \cup {Default}
    /\ None \notin Adapters \cup {Default, Unset}

Homes == Adapters \cup {Default}

VARIABLES
    env,        \* OMEGA_HOME
    store,      \* the process's store: its directory (None: dropped), whether
                \* its files were deleted under it, the threads it lists, and
                \* whether a thread put it in place for another directory
    work,       \* work[t]: the directory the thread t writes to, or None
    build,      \* build[t]: the directory of the store t is building, or None
    lost,       \* threads nobody can join, or whose join timed out
    open,       \* the open adapters, oldest first, with what each remembers
    home,       \* home[a]: the directory of the adapter a, None before it is made
    strict,     \* only the newest open adapter was used and closed
    original,   \* OMEGA_HOME before any adapter
    leaked,     \* a constructor failed with no adapter open
    pc, me,     \* what the main thread does, and for which adapter
    tries, rows,\* binds or reads begun, rows left
    waited,     \* the threads the main thread joins
    memories,   \* rows in files: the directory they were meant for, the one
                \* they are in, whether the store was stray
    seen        \* what each attempt of the last snapshot came to: what it
                \* got, how the file answered, whether a lost thread was
                \* writing there

threads == <<work, build>>
use == <<open, home, strict, original, leaked>>
results == <<memories, seen>>
main == <<pc, me, tries, rows, waited>>
vars == <<env, store, threads, lost, use, results, main>>

Resolved(e) == IF e = Unset THEN Default ELSE e
Alive(t) == work[t] # None
IsOpen(a) == \E i \in DOMAIN open : open[i].a = a
Top == open[Len(open)].a
Live(h) == {m \in memories : m.at = h}

Fresh(h) == [at |-> h, unlinked |-> FALSE, listed |-> {}, stray |-> FALSE]
NothingSeen == <<>>

Init ==
    /\ original \in {Unset, Default} /\ env = original
    /\ store = Fresh(None)
    /\ work = [t \in Threads |-> None] /\ build = [t \in Threads |-> None]
    /\ lost = {}
    /\ open = <<>> /\ home = [a \in Adapters |-> None]
    /\ strict = TRUE /\ leaked = FALSE
    /\ pc = "idle" /\ me = None /\ tries = 0 /\ rows = 0 /\ waited = {}
    /\ memories = {} /\ seen = NothingSeen

-----------------------------------------------------------------------------
(* OMEGA *)

(* _get_store on the main thread: the store there is, or one for OMEGA_HOME. *)
Got == IF store.at = None THEN Fresh(Resolved(env)) ELSE store

(* A store goes away: its threads that still run can no longer be found. *)
Forgotten == lost \cup {t \in store.listed : Alive(t)}

(* A background thread finds no store and begins to build one ... *)
Build(t) ==
    /\ Alive(t) /\ build[t] = None /\ store.at = None
    /\ build' = [build EXCEPT ![t] = Resolved(env)]
    /\ UNCHANGED <<env, store, work, lost, use, results, main>>

(* ... and puts it in place, over whatever is there by then. *)
Install(t) ==
    /\ build[t] # None
    /\ store' = [Fresh(build[t]) EXCEPT !.stray = build[t] # Resolved(env)]
    /\ lost' = Forgotten
    /\ build' = [build EXCEPT ![t] = None]
    /\ UNCHANGED <<env, work, use, results, main>>

(* A background thread has written its edges. *)
End(t) ==
    /\ Alive(t) /\ build[t] = None
    /\ work' = [work EXCEPT ![t] = None]
    /\ lost' = lost \ {t} /\ waited' = waited \ {t}
    /\ store' = [store EXCEPT !.listed = @ \ {t}]
    /\ UNCHANGED <<env, build, use, results, pc, me, tries, rows>>

-----------------------------------------------------------------------------
(* Opening and closing an adapter *)

(* __init__: remember OMEGA_HOME, set it, drop the store.  An adapter that *)
(* is given no directory takes the one OMEGA_HOME names.                   *)
Construct(a) ==
    /\ pc = "idle" /\ home[a] = None
    /\ \E h \in {a, Resolved(env)} :
        /\ home' = [home EXCEPT ![a] = h]
        /\ env' = h
    /\ open' = Append(open, [a |-> a, prev |-> env])
    /\ store' = Fresh(None) /\ lost' = Forgotten
    /\ seen' = NothingSeen
    /\ UNCHANGED <<threads, strict, original, leaked, memories, main>>

(* omega cannot be imported: OMEGA_HOME is set by then and stays set. *)
ConstructFails(a) ==
    /\ pc = "idle" /\ home[a] = None
    /\ env' = a
    /\ leaked' = (leaked \/ open = <<>>)
    /\ strict' = (strict /\ open = <<>>)
    /\ UNCHANGED <<store, threads, lost, open, home, original, memories, seen, main>>

\* Fault: close() leaves OMEGA_HOME as it is.
Restored_Not(i) == env

(* close: OMEGA_HOME is what the adapter remembers, the store is dropped; *)
(* nobody waits for the threads.                                          *)
Restored(i) == open[i].prev

\* Fault: close() puts the variable back and leaves the store.
Close_Keeps(i) ==
    /\ pc = "idle" /\ i \in DOMAIN open
    /\ env' = Restored(i)
    /\ open' = RemoveAt(open, i)
    /\ strict' = (strict /\ i = Len(open))
    /\ seen' = NothingSeen
    /\ UNCHANGED <<store, lost, threads, home, original, leaked, memories, main>>

Close(i) ==
    /\ pc = "idle" /\ i \in DOMAIN open
    /\ env' = Restored(i)
    /\ open' = RemoveAt(open, i)
    /\ strict' = (strict /\ i = Len(open))
    /\ store' = Fresh(None) /\ lost' = Forgotten
    /\ seen' = NothingSeen
    /\ UNCHANGED <<threads, home, original, leaked, memories, main>>

-----------------------------------------------------------------------------
(* ingest_corpus *)

Begin(a, first) ==
    /\ pc = "idle" /\ IsOpen(a)
    /\ pc' = first /\ me' = a /\ tries' = 1 /\ waited' = {}

Ingest(a) ==
    /\ Begin(a, "await")
    /\ env' = home[a]
    /\ strict' = (strict /\ a = Top)
    /\ rows' = Rows
    /\ seen' = NothingSeen
    /\ UNCHANGED <<store, threads, lost, open, home, original, leaked, memories>>

\* Fault: Nobody is joined.
Waited_None == {}

(* _await_omega_background: take the threads listed on the store there is  *)
(* (looking may build it), or none when _get_store raises; then join each, *)
(* at most for the timeout.                                                *)
Waited == Got.listed

Await ==
    /\ pc \in {"await", "look"}
    /\ \/ store' = Got /\ waited' = Waited /\ UNCHANGED lost
       \/ UNCHANGED store /\ waited' = {} /\ lost' = Forgotten
    /\ pc' = IF pc = "await" THEN "drop" ELSE "read"
    /\ UNCHANGED <<env, threads, use, results, me, tries, rows>>

\* Fault: The bind trusts the variable and leaves the store as it is.
Drop_Keeps ==
    /\ pc = "drop"
    /\ env' = home[me]
    /\ lost' = lost \cup waited
    /\ pc' = "verify" /\ waited' = {}
    /\ UNCHANGED <<store, threads, use, results, me, tries, rows>>

(* _bind_store_to_home: drop the store and set OMEGA_HOME again (only the  *)
(* main thread sets it) ...                                                *)
Drop ==
    /\ pc = "drop"
    /\ store' = Fresh(None)
    /\ env' = home[me]
    /\ lost' = Forgotten \cup waited
    /\ pc' = "verify" /\ waited' = {}
    /\ UNCHANGED <<threads, use, results, me, tries, rows>>

(* ... then build one and compare its directory.  After the last attempt,  *)
(* or when _get_store raises, the ingest goes on all the same.             *)
Mismatch(s) == s.at # home[me]

Verify ==
    /\ pc = "verify"
    /\ \/ /\ store' = Got
          /\ LET again == Mismatch(Got) /\ tries < Attempts
             IN  /\ pc' = IF again THEN "await" ELSE "store"
                 /\ tries' = IF again THEN tries + 1 ELSE tries
       \/ pc' = "store" /\ UNCHANGED <<store, tries>>
    /\ UNCHANGED <<env, threads, lost, use, results, me, rows, waited>>

(* A row: it lands where the store is and may leave a thread behind.  One  *)
(* whose store() raises is recorded and skipped; a TypeError ends them.    *)
Store ==
    /\ pc = "store" /\ rows > 0
    /\ \/ /\ memories' = IF Got.unlinked THEN memories ELSE
               memories \cup {[of |-> home[me], at |-> Got.at, stray |-> Got.stray]}
          /\ \/ store' = Got /\ UNCHANGED work
             \/ \E t \in Threads :
                  /\ ~Alive(t)
                  /\ work' = [work EXCEPT ![t] = Got.at]
                  /\ store' = [Got EXCEPT !.listed = @ \cup {t}]
          /\ rows' = rows - 1
       \/ /\ rows' \in {0, rows - 1}
          /\ UNCHANGED <<store, memories, work>>
    /\ UNCHANGED <<env, build, lost, use, seen, pc, me, tries, waited>>

Stored ==
    /\ pc = "store" /\ rows = 0
    /\ pc' = "idle" /\ me' = None /\ tries' = 0
    /\ UNCHANGED <<env, store, threads, lost, use, results, rows, waited>>

-----------------------------------------------------------------------------
(* query, get_graph_snapshot, reset *)

(* query: from the store there is.  OMEGA_HOME is not set again. *)
Hits == Live(Got.at)

Query(a) ==
    /\ pc = "idle" /\ IsOpen(a)
    /\ store' = Got
    /\ strict' = (strict /\ a = Top)
    /\ UNCHANGED <<env, threads, lost, open, home, original, leaked, results, main>>

Snapshot(a) ==
    /\ Begin(a, "look")
    /\ seen' = NothingSeen
    /\ UNCHANGED <<env, store, threads, lost, use, memories, rows>>

(* An attempt that got no rows is made again, also when a SELECT raised,   *)
(* but for the last, and not when the file could not be opened.            *)
Retriable(why) == tries < Reads /\ why # "refused"

(* The file is read on a connection of its own.  It may not open, and a    *)
(* SELECT may raise: then there is nothing.  While a thread writes to it   *)
(* an attempt may get no rows, or the rows without all the edges.  No file *)
(* (looked for once, before the first attempt) is an empty snapshot.       *)
Read ==
    /\ pc = "read"
    /\ lost' = lost \cup waited /\ waited' = {}
    /\ \E got \in {"all", "rows", "none"}, why \in {"answered", "raised", "refused"} :
        LET writers == {t \in Threads : work[t] = home[me]}
            empty == got = "none" \/ Live(home[me]) = {}
            missing == tries = 1 /\ empty /\ got = "all"
        IN  /\ why = "answered" => got = "all" \/ writers # {}
            /\ why # "answered" => got = "none"
            /\ seen' = Append(seen, [got |-> got, why |-> why,
                                     lost |-> writers \cap lost' # {}])
            /\ \/ /\ empty /\ Retriable(why)
                  /\ pc' = "look" /\ tries' = tries + 1 /\ UNCHANGED me
               \/ /\ ~empty \/ ~Retriable(why) \/ missing
                  /\ pc' = "idle" /\ me' = None /\ tries' = 0
    /\ UNCHANGED <<env, store, threads, use, memories, rows>>

(* reset: the files are deleted, never those of ~/.omega; the store that   *)
(* has them open is not dropped.                                           *)
Reset(a) ==
    /\ pc = "idle" /\ IsOpen(a) /\ home[a] # Default
    /\ memories' = memories \ Live(home[a])
    /\ store' = IF store.at = home[a] THEN [store EXCEPT !.unlinked = TRUE] ELSE store
    /\ seen' = NothingSeen
    /\ UNCHANGED <<env, threads, lost, use, main>>

Next ==
    \/ \E t \in Threads : Build(t) \/ Install(t) \/ End(t)
    \/ \E a \in Adapters : \/ Construct(a) \/ ConstructFails(a) \/ Ingest(a)
                           \/ Query(a) \/ Snapshot(a) \/ Reset(a)
    \/ \E i \in DOMAIN open : Close(i)
    \/ Await \/ Drop \/ Verify \/ Store \/ Stored \/ Read

Spec == Init /\ [][Next]_vars

-----------------------------------------------------------------------------
(* Every variable keeps its type; an operation under way is an adapter's. *)
TypeOK ==
    /\ env \in Homes \cup {Unset} /\ original \in {Unset, Default}
    /\ store \in [at : Homes \cup {None}, unlinked : BOOLEAN,
                  listed : SUBSET Threads, stray : BOOLEAN]
    /\ work \in [Threads -> Homes \cup {None}]
    /\ build \in [Threads -> Homes \cup {None}]
    /\ lost \subseteq Threads /\ waited \subseteq Threads
    /\ open \in Seq([a : Adapters, prev : Homes \cup {Unset}])
    /\ home \in [Adapters -> Homes \cup {None}]
    /\ strict \in BOOLEAN /\ leaked \in BOOLEAN
    /\ pc \in {"idle", "await", "drop", "verify", "store", "look", "read"}
    /\ me \in Adapters \cup {None} /\ (pc # "idle" => me \in Adapters)
    /\ tries \in Nat /\ (tries <= Attempts \/ tries <= Reads) /\ rows \in 0 .. Rows
    /\ memories \subseteq [of : Homes, at : Homes, stray : BOOLEAN]
    /\ seen \in Seq([got : {"all", "rows", "none"},
                     why : {"answered", "raised", "refused"}, lost : BOOLEAN])

(* An ingest writes into its own adapter's directory, whatever the threads *)
(* of earlier stores do, unless one of them put a store of another         *)
(* directory in place after the bind's last drop: what _bind_store_to_home *)
(* is for, also when adapters are used in turn.                            *)
OwnWrites == \A m \in memories : m.at = m.of \/ m.stray

(* OMEGA_HOME follows a stack: as long as adapters are used and closed     *)
(* innermost first it is the newest open one's directory, and what it was  *)
(* before any of them once all are closed (unless a constructor failed     *)
(* with none open: it sets the variable before it can fail).               *)
EnvFollows ==
    strict => IF open = <<>> THEN leaked \/ env = original
                             ELSE env = home[Top]

(* A query, which does not bind, still reads exactly the rows in its own   *)
(* adapter's directory, also after an inner adapter was opened, filled and *)
(* closed, unless a thread's store is in place or the files were deleted   *)
(* under the store.                                                        *)
ReadsOwn ==
    (pc = "idle" /\ open # <<>> /\ strict /\ ~store.stray /\ ~store.unlinked)
        => Hits = Live(home[Top])

(* What a snapshot leaves out has a reason: an attempt that the file       *)
(* answered falls short only because of a thread that the joins cannot     *)
(* reach or did not wait out; and a snapshot that comes back with nothing  *)
(* could not open the file at the last, or fell short as often as it may.  *)
SnapshotWhole ==
    /\ \A i \in DOMAIN seen :
          seen[i].got # "all" => seen[i].why # "answered" \/ seen[i].lost
    /\ pc = "idle" /\ seen # <<>> =>
          LET n == Len(seen)
          IN  seen[n].got = "none" => seen[n].why = "refused" \/ n = Reads

=============================================================================
