------------------------------ MODULE BenchLock ------------------------------
(***************************************************************************)
(* scripts/bench_runner.sh: supervisors register a benchmark with the      *)
(* palace daemon by touching a marker file in a directory on the daemon's  *)
(* host, reached over ssh, and keep it fresh from a background loop.  The  *)
(* daemon removes markers by age.                                          *)
(*                                                                         *)
(* An ssh call may fail before the remote command runs or after it did;    *)
(* the script sees the same failure.  A supervisor may be killed at any    *)
(* point; the background loop is another process and does not die with it. *)
(***************************************************************************)
EXTENDS Naturals, FiniteSets

CONSTANTS
  Bench,      \* the supervisors, one marker each
  Ingest,     \* those started with --kind ingest
  Allowed,    \* those started with SME_BENCH_ALLOW_CONCURRENT_INGEST=1
  MaxIngest,  \* SME_BENCH_MAX_INGEST
  StaleAge,   \* heartbeat periods after which the daemon drops a marker
  MaxKills    \* bound on the supervisors that are killed

ASSUME BenchAssumption == /\ IsFiniteSet(Bench)
                          /\ Ingest \subseteq Bench
                          /\ Allowed \subseteq Bench
                          /\ MaxIngest \in Nat \ {0}
                          /\ StaleAge \in Nat \ {0}
                          /\ MaxKills \in Nat

VARIABLES
  place,    \* where each supervisor is
  count,    \* its local count, in bench_acquire
  heart,    \* the supervisors whose background loop runs
  flight,   \* those with a touch on its way that nobody waits for
  dir,      \* the lock directory exists
  markers,  \* whose marker file exists
  age,      \* heartbeat periods since the marker was last touched
  reaped,   \* history: whose marker the daemon has dropped, and not seen since
  met,      \* history: the benches under way when the count was answered
  kills

remote   == <<dir, markers, age, reaped>>
lockvars == <<place, count, heart, flight, remote, met, kills>>

\* A bench under way has registered itself and not begun to release.
UnderWay == {"touched", "running"}

LockTypeOK ==
  /\ place \in [Bench -> {"mkdir", "count", "gate", "touch"} \cup UnderWay
                        \cup {"release", "ended", "dead"}]
  /\ count \in [Bench -> Nat]
  /\ heart \subseteq Bench /\ flight \subseteq Bench
  /\ dir \in BOOLEAN
  /\ markers \subseteq Bench /\ reaped \subseteq Bench
  /\ age \in [Bench -> 0..StaleAge]
  /\ met \in [Bench -> SUBSET Bench]
  /\ kills \in 0..MaxKills

LockInit ==
  /\ place = [b \in Bench |-> "mkdir"]
  /\ count = [b \in Bench |-> 0]
  /\ heart = {} /\ flight = {}
  /\ dir = FALSE /\ markers = {} /\ reaped = {}
  /\ age = [b \in Bench |-> 0]
  /\ met = [b \in Bench |-> {}]
  /\ kills = 0

Goto(b, label) == place' = [place EXCEPT ![b] = label]

-----------------------------------------------------------------------------
(* bench_acquire.                                                          *)

\* mkdir -p; when ssh fails, the directory may have been made all the same.
MakeDir(b) ==
  /\ place[b] = "mkdir"
  /\ \/ dir' = TRUE /\ Goto(b, IF b \in Ingest THEN "count" ELSE "touch")
     \/ dir' \in {dir, TRUE} /\ Goto(b, "ended")
  /\ UNCHANGED <<count, heart, flight, markers, age, reaped, met, kills>>

\* _bench_refcount: every marker counts, whatever its kind and age; a failed
\* ssh counts as none.
Count(b) ==
  /\ place[b] = "count"
  /\ \/ /\ count' = [count EXCEPT ![b] = Cardinality(markers)]
        /\ met' = [met EXCEPT ![b] = {c \in Bench : place[c] \in UnderWay} \ reaped]
     \/ /\ count' = [count EXCEPT ![b] = 0]
        /\ met' = [met EXCEPT ![b] = {}]
  /\ Goto(b, "gate")
  /\ UNCHANGED <<heart, flight, remote, kills>>

\* Fault: the default gate lets a second one pass.
Refused_OffByOne(b) == \/ count[b] > 1 /\ b \notin Allowed
                       \/ count[b] >= MaxIngest

\* Exit 4 and exit 2: another bench without the flag, the cap with it.
Refused(b) == \/ count[b] >= 1 /\ b \notin Allowed
              \/ count[b] >= MaxIngest

\* The gate looks at the count first and at the free memory, which is any
\* number, afterwards (exit 3); a failed ssh reads as no memory.
Gate(b) ==
  /\ place[b] = "gate"
  /\ \/ Refused(b) /\ Goto(b, "ended")
     \/ ~Refused(b) /\ Goto(b, "ended")
     \/ ~Refused(b) /\ Goto(b, "touch")
  /\ UNCHANGED <<count, heart, flight, remote, met, kills>>

\* What touch does at the host: nothing, when the directory is gone.
Touched(b) == /\ markers' = IF dir THEN markers \cup {b} ELSE markers
              /\ age' = IF dir THEN [age EXCEPT ![b] = 0] ELSE age
              /\ reaped' = IF dir THEN reaped \ {b} ELSE reaped
              /\ UNCHANGED dir

\* The marker is written; or ssh fails, before or after.
Touch(b) ==
  /\ place[b] = "touch"
  /\ \/ dir /\ Touched(b) /\ Goto(b, "touched")
     \/ Touched(b) /\ Goto(b, "ended")
     \/ UNCHANGED remote /\ Goto(b, "ended")
  /\ UNCHANGED <<count, heart, flight, met, kills>>

\* The trap is set and the background loop started.
Arm(b) ==
  /\ place[b] = "touched"
  /\ heart' = heart \cup {b}
  /\ Goto(b, "running")
  /\ UNCHANGED <<count, flight, remote, met, kills>>

-----------------------------------------------------------------------------
(* bench_release, by the wrapper or by the trap.                           *)

\* Fault: the loop is left to itself.
StopHeart_Forgets(b) ==
  /\ place[b] = "running"
  /\ Goto(b, "release")
  /\ UNCHANGED <<count, heart, flight, remote, met, kills>>

\* The command has ended, by itself or by the signal that runs the trap.  The
\* loop is killed, a touch it has under way is not.
StopHeart(b) ==
  /\ place[b] = "running"
  /\ heart' = heart \ {b}
  /\ Goto(b, "release")
  /\ UNCHANGED <<count, flight, remote, met, kills>>

\* Fault: rm -rf instead of rm and rmdir.
Removed_Tree(b) == /\ markers' = {}
                   /\ dir' = FALSE

\* rm -f of the own marker, rmdir of the directory if that leaves it empty.
Removed(b) == /\ markers' = markers \ {b}
              /\ dir' = (dir /\ markers' # {})

\* Whatever ssh says, the script goes on.
Release(b) ==
  /\ place[b] = "release"
  /\ \/ Removed(b)
     \/ UNCHANGED <<markers, dir>>
  /\ Goto(b, "ended")
  /\ UNCHANGED <<count, heart, flight, age, reaped, met, kills>>

-----------------------------------------------------------------------------
(* Around the script.                                                      *)

\* Before the trap is set any signal ends the script, afterwards SIGKILL.  A
\* mkdir or touch it was waiting for may still arrive.
Kill(b) ==
  /\ place[b] \notin {"ended", "dead"}
  /\ kills < MaxKills
  /\ kills' = kills + 1
  /\ flight' \in {flight} \cup (IF place[b] = "touch" THEN {flight \cup {b}} ELSE {})
  /\ dir' \in {dir, dir \/ place[b] = "mkdir"}
  /\ Goto(b, "dead")
  /\ UNCHANGED <<count, heart, markers, age, reaped, met>>

\* A heartbeat period passes: the loop sends a touch, if it is not waiting for
\* the one before, and the marker grows older.
Period(b) ==
  /\ b \in markers \cup heart
  /\ age' = [age EXCEPT ![b] = IF @ < StaleAge THEN @ + 1 ELSE @]
  /\ flight' = flight \cup ({b} \cap heart)
  /\ UNCHANGED <<place, count, heart, dir, markers, reaped, met, kills>>

\* The touch arrives, or is lost.
Beat(b) ==
  /\ b \in flight
  /\ flight' = flight \ {b}
  /\ Touched(b) \/ UNCHANGED remote
  /\ UNCHANGED <<place, count, heart, met, kills>>

\* The daemon drops a marker that is too old.
Reap(b) ==
  /\ b \in markers
  /\ age[b] = StaleAge
  /\ markers' = markers \ {b}
  /\ reaped' = reaped \cup {b}
  /\ UNCHANGED <<place, count, heart, flight, dir, age, met, kills>>

-----------------------------------------------------------------------------
Script(b) == \/ MakeDir(b) \/ Count(b) \/ Gate(b) \/ Touch(b) \/ Arm(b)
             \/ StopHeart(b) \/ Release(b)

LockNext == \E b \in Bench : Script(b) \/ Kill(b) \/ Period(b) \/ Beat(b) \/ Reap(b)

LockSpec == LockInit /\ [][LockNext]_lockvars

\* Time passes, a touch that is under way arrives or is lost, and the daemon
\* looks at the ages.  No supervisor is assumed to make progress.
FairLockSpec ==
  /\ LockSpec
  /\ \A b \in Bench : WF_lockvars(Period(b)) /\ WF_lockvars(Beat(b)) /\ WF_lockvars(Reap(b))

-----------------------------------------------------------------------------
(* Properties.                                                             *)

\* While a bench is under way its marker stands, unless the daemon found it
\* too old: no other bench's release, gate or failure takes it away, so that
\* mining does not resume under a bench (the rmdir of bench_release).
KeepsMarker ==
  \A b \in Bench : place[b] \in UnderWay => b \in markers \cup reaped

\* The gate admits an ingest bench only when the benches that were under way
\* at its count allow it: none without the flag, fewer than the cap with it.
\* A count that ssh did not answer saw nothing, and is not covered.
AdmittedWithin ==
  \A b \in Ingest :
    place[b] \in {"touch"} \cup UnderWay =>
      /\ Cardinality(met[b]) < MaxIngest
      /\ b \notin Allowed => met[b] = {}

\* "This wrapper REFUSES a 2nd concurrent ingest bench by default" (the header of
\* bench_runner.sh): of two ingest benches without the flag, one is past the gate.
\* It is not so: the count and the touch are two calls, and nothing is looked at
\* again after the touch, so two benches that count before either touches are
\* both admitted, as is one whose count fails.
SecondRefused ==
  \A b, c \in Ingest \ Allowed :
    b # c => ~({place[b], place[c]} \subseteq {"touch"} \cup UnderWay)

\* A bench that ended, having released, been refused or failed, leaves no
\* marker for good, though its rm may be lost, a touch it was told had failed
\* may have been done, and a heartbeat may arrive after the rm.
MarkersGo ==
  \A b \in Bench : place[b] = "ended" ~> [](b \notin markers)

=============================================================================
