----------------------------- MODULE BenchProofs -----------------------------
(***************************************************************************)
(* Theorems about a bench: BenchLock, the lock it runs under, for any      *)
(* number of supervisors, any cap, any age limit and any number of kills;  *)
(* and DaemonPipeline, for any conversations, questions and number of runs:*)
(* what is called a hit or a miss is one, and the palace is the run's own. *)
(***************************************************************************)
EXTENDS BenchLock, DaemonPipeline, FiniteSetTheorems, TLAPS

(***************************************************************************)
(* The lock.                                                               *)
(***************************************************************************)


LEMMA Counting ==
  ASSUME LockTypeOK
  PROVE  Cardinality(markers) \in Nat
<1>1. IsFiniteSet(markers)
  BY BenchAssumption, FS_Subset DEF LockTypeOK
<1>2. QED
  BY <1>1, FS_CardinalityType

\* Every variable of the lock keeps its type.
LEMMA LockTypeStep == ASSUME LockTypeOK, [LockNext]_lockvars PROVE LockTypeOK'
<1> USE BenchAssumption DEF LockTypeOK, UnderWay, Goto, remote
<1>1. ASSUME NEW b \in Bench, MakeDir(b) PROVE LockTypeOK'
  BY <1>1 DEF MakeDir
<1>2. ASSUME NEW b \in Bench, Count(b) PROVE LockTypeOK'
  BY <1>2, Counting DEF Count
<1>3. ASSUME NEW b \in Bench, Gate(b) PROVE LockTypeOK'
  BY <1>3 DEF Gate
<1>4. ASSUME NEW b \in Bench, Touch(b) PROVE LockTypeOK'
  BY <1>4 DEF Touch, Touched
<1>5. ASSUME NEW b \in Bench, Arm(b) PROVE LockTypeOK'
  BY <1>5 DEF Arm
<1>6. ASSUME NEW b \in Bench, StopHeart(b) PROVE LockTypeOK'
  BY <1>6 DEF StopHeart
<1>7. ASSUME NEW b \in Bench, Release(b) PROVE LockTypeOK'
  BY <1>7 DEF Release, Removed
<1>8. ASSUME NEW b \in Bench, Kill(b) PROVE LockTypeOK'
  <2>1. dir' \in BOOLEAN
    BY <1>8 DEF Kill
  <2>2. flight' \subseteq Bench /\ kills' \in 0..MaxKills
    BY <1>8 DEF Kill
  <2>3. QED
    BY <1>8, <2>1, <2>2 DEF Kill
<1>9. ASSUME NEW b \in Bench, Period(b) PROVE LockTypeOK'
  BY <1>9 DEF Period
<1>10. ASSUME NEW b \in Bench, Beat(b) PROVE LockTypeOK'
  BY <1>10 DEF Beat, Touched
<1>11. ASSUME NEW b \in Bench, Reap(b) PROVE LockTypeOK'
  BY <1>11 DEF Reap
<1>12. CASE UNCHANGED lockvars
  BY <1>12 DEF lockvars
<1>13. QED
  BY <1>1, <1>2, <1>3, <1>4, <1>5, <1>6, <1>7, <1>8, <1>9, <1>10, <1>11, <1>12
     DEF LockNext, Script

\* The lock's variables keep their types, for every BenchAssumption.
THEOREM LockTypeCorrect == LockSpec => []LockTypeOK
<1>1. LockInit => LockTypeOK
  <2> SUFFICES ASSUME LockInit PROVE LockTypeOK
    OBVIOUS
  <2>1. 0 \in 0..StaleAge /\ 0 \in 0..MaxKills
    BY BenchAssumption
  <2>2. /\ place \in [Bench -> {"mkdir"}]
        /\ count \in [Bench -> Nat]
        /\ age \in [Bench -> 0..StaleAge]
        /\ met \in [Bench -> SUBSET Bench]
    BY <2>1 DEF LockInit
  <2>3. QED
    BY <2>1, <2>2 DEF LockInit, LockTypeOK
<1>2. LockTypeOK /\ [LockNext]_lockvars => LockTypeOK'
  BY LockTypeStep
<1>3. QED
  BY <1>1, <1>2, PTL DEF LockSpec

-----------------------------------------------------------------------------
\* Only an own release and the daemon remove a marker.
LEMMA MarkerStep ==
  ASSUME LockTypeOK, KeepsMarker, [LockNext]_lockvars
  PROVE  KeepsMarker'
<1> USE DEF LockTypeOK, KeepsMarker, UnderWay, Goto, remote
<1>1. ASSUME NEW b \in Bench, MakeDir(b) \/ Count(b) \/ Gate(b) PROVE KeepsMarker'
  BY <1>1 DEF MakeDir, Count, Gate
<1>2. ASSUME NEW b \in Bench, Touch(b) PROVE KeepsMarker'
  BY <1>2 DEF Touch, Touched
<1>3. ASSUME NEW b \in Bench, Arm(b) \/ StopHeart(b) PROVE KeepsMarker'
  BY <1>3 DEF Arm, StopHeart
<1>4. ASSUME NEW b \in Bench, Release(b) PROVE KeepsMarker'
  <2>1. place[b] = "release" /\ place'[b] = "ended"
    BY <1>4 DEF Release
  <2>2. \A c \in Bench : c # b => place'[c] = place[c]
    BY <1>4 DEF Release
  <2>3. markers \ {b} \subseteq markers' /\ reaped' = reaped
    BY <1>4 DEF Release, Removed
  <2>4. QED
    BY <2>1, <2>2, <2>3
<1>5. ASSUME NEW b \in Bench, Kill(b) \/ Period(b) PROVE KeepsMarker'
  BY <1>5 DEF Kill, Period
<1>6. ASSUME NEW b \in Bench, Beat(b) PROVE KeepsMarker'
  BY <1>6 DEF Beat, Touched
<1>7. ASSUME NEW b \in Bench, Reap(b) PROVE KeepsMarker'
  BY <1>7 DEF Reap
<1>8. CASE UNCHANGED lockvars
  BY <1>8 DEF lockvars
<1>9. QED
  BY <1>1, <1>2, <1>3, <1>4, <1>5, <1>6, <1>7, <1>8 DEF LockNext, Script

\* A bench under way has its marker, or the daemon found it too old.
THEOREM MarkerSafety == LockSpec => []KeepsMarker
<1>1. LockInit => KeepsMarker
  BY DEF LockInit, KeepsMarker, UnderWay
<1>2. LockTypeOK /\ KeepsMarker /\ [LockNext]_lockvars => KeepsMarker'
  BY MarkerStep
<1>3. QED
  BY <1>1, <1>2, LockTypeCorrect, PTL DEF LockSpec

-----------------------------------------------------------------------------
\* A bench that has counted knows of as many markers as benches it met, and one
\* past the gate was not refused.
AdmittedInv ==
  \A b \in Ingest :
    /\ place[b] \in {"gate", "touch"} \cup UnderWay => Cardinality(met[b]) <= count[b]
    /\ place[b] \in {"touch"} \cup UnderWay => ~Refused(b)

\* What an answered count counts includes every bench it met.
LEMMA MetCounted ==
  ASSUME LockTypeOK, KeepsMarker, NEW b \in Bench, Count(b)
  PROVE  Cardinality(met'[b]) <= count'[b]
<1> DEFINE seen == {c \in Bench : place[c] \in UnderWay} \ reaped
<1>1. CASE count' = [count EXCEPT ![b] = Cardinality(markers)]
           /\ met' = [met EXCEPT ![b] = seen]
  <2>1. seen \subseteq markers
    BY DEF KeepsMarker
  <2>2. IsFiniteSet(markers)
    BY BenchAssumption, FS_Subset DEF LockTypeOK
  <2>3. Cardinality(seen) <= Cardinality(markers)
    BY <2>1, <2>2, FS_Subset
  <2>4. met'[b] = seen /\ count'[b] = Cardinality(markers)
    BY <1>1 DEF LockTypeOK
  <2>5. QED
    BY <2>3, <2>4
<1>2. CASE count' = [count EXCEPT ![b] = 0] /\ met' = [met EXCEPT ![b] = {}]
  <2>1. met'[b] = {} /\ count'[b] = 0
    BY <1>2 DEF LockTypeOK
  <2>2. QED
    BY <2>1, FS_EmptySet
<1>3. QED
  BY <1>1, <1>2 DEF Count

\* A step other than a count leaves a bench with what it has counted and met,
\* and takes it past the gate only if it is not refused.
LEMMA Onwards ==
  ASSUME LockTypeOK, [LockNext]_lockvars, NEW a \in Ingest, ~Count(a)
  PROVE  /\ met'[a] = met[a] /\ count'[a] = count[a]
         /\ place'[a] \in {"gate", "touch"} \cup UnderWay => place[a] \in {"gate", "touch"} \cup UnderWay
         /\ place'[a] \in {"touch"} \cup UnderWay =>
              \/ place[a] \in {"touch"} \cup UnderWay
              \/ place[a] = "gate" /\ ~Refused(a)
<1> USE DEF LockTypeOK, UnderWay, Goto
<1>0. a \in Bench
  BY BenchAssumption
<1>1. ASSUME NEW b \in Bench, MakeDir(b)
      PROVE  met' = met /\ count' = count /\ \/ place'[a] = place[a]
                                             \/ place'[a] \in {"count", "ended"}
  BY <1>0, <1>1 DEF MakeDir
<1>2. ASSUME NEW b \in Bench, Count(b)
      PROVE  met'[a] = met[a] /\ count'[a] = count[a] /\ place'[a] = place[a]
  <2>1. a # b
    BY <1>2
  <2>2. QED
    BY <1>0, <1>2, <2>1 DEF Count
<1>3. ASSUME NEW b \in Bench, Gate(b)
      PROVE  met' = met /\ count' = count /\ \/ place'[a] = place[a]
                                             \/ place'[a] = "ended"
                                             \/ place[a] = "gate" /\ ~Refused(a)
  BY <1>0, <1>3 DEF Gate
<1>4. ASSUME NEW b \in Bench, Touch(b) \/ Arm(b) \/ StopHeart(b)
      PROVE  met' = met /\ count' = count /\ \/ place'[a] = place[a]
                                             \/ place[a] \in {"touch"} \cup UnderWay
  BY <1>0, <1>4 DEF Touch, Arm, StopHeart
<1>5. ASSUME NEW b \in Bench, Release(b) \/ Kill(b)
      PROVE  met' = met /\ count' = count /\ \/ place'[a] = place[a]
                                             \/ place'[a] \in {"ended", "dead"}
  BY <1>0, <1>5 DEF Release, Kill
<1>6. ASSUME NEW b \in Bench, Period(b) \/ Beat(b) \/ Reap(b)
      PROVE  met' = met /\ count' = count /\ place' = place
  BY <1>6 DEF Period, Beat, Reap
<1>7. CASE UNCHANGED lockvars
  BY <1>7 DEF lockvars
<1>8. QED
  BY <1>1, <1>2, <1>3, <1>4, <1>5, <1>6, <1>7 DEF LockNext, Script

LEMMA AdmittedStep ==
  ASSUME LockTypeOK, KeepsMarker, AdmittedInv, [LockNext]_lockvars
  PROVE  AdmittedInv'
<1> SUFFICES ASSUME NEW a \in Ingest
             PROVE  /\ (place[a] \in {"gate", "touch"} \cup UnderWay
                          => Cardinality(met[a]) <= count[a])'
                    /\ (place[a] \in {"touch"} \cup UnderWay => ~Refused(a))'
  BY DEF AdmittedInv
<1>1. a \in Bench
  BY BenchAssumption
<1>2. CASE Count(a)
  <2>1. place'[a] = "gate"
    BY <1>1, <1>2 DEF Count, Goto, LockTypeOK
  <2>2. QED
    BY <1>1, <1>2, <2>1, MetCounted DEF UnderWay
<1>3. CASE ~Count(a)
  <2>1. /\ met'[a] = met[a] /\ count'[a] = count[a]
        /\ place'[a] \in {"gate", "touch"} \cup UnderWay => place[a] \in {"gate", "touch"} \cup UnderWay
        /\ place'[a] \in {"touch"} \cup UnderWay =>
             \/ place[a] \in {"touch"} \cup UnderWay
             \/ place[a] = "gate" /\ ~Refused(a)
    BY <1>3, Onwards
  <2>2. Refused(a)' = Refused(a)
    BY <2>1 DEF Refused
  <2>3. QED
    BY <2>1, <2>2 DEF AdmittedInv
<1>4. QED
  BY <1>2, <1>3

\* The gate admits an ingest bench only when the benches that were under way at
\* its count, if ssh answered, leave room for it.
THEOREM GateSafety == LockSpec => []AdmittedWithin
<1>1. LockInit => AdmittedInv
  BY BenchAssumption DEF LockInit, AdmittedInv, UnderWay
<1>2. LockTypeOK /\ KeepsMarker /\ AdmittedInv /\ [LockNext]_lockvars => AdmittedInv'
  BY AdmittedStep
<1>3. LockTypeOK /\ AdmittedInv => AdmittedWithin
  <2> SUFFICES ASSUME LockTypeOK, AdmittedInv, NEW b \in Ingest,
                      place[b] \in {"touch"} \cup UnderWay
               PROVE  /\ Cardinality(met[b]) < MaxIngest
                      /\ b \notin Allowed => met[b] = {}
    BY DEF AdmittedWithin
  <2>1. b \in Bench /\ met[b] \subseteq Bench /\ count[b] \in Nat
    BY BenchAssumption DEF LockTypeOK
  <2>2. IsFiniteSet(met[b])
    BY <2>1, BenchAssumption, FS_Subset
  <2>3. Cardinality(met[b]) \in Nat /\ (Cardinality(met[b]) = 0 <=> met[b] = {})
    BY <2>2, FS_CardinalityType, FS_EmptySet
  <2>4. Cardinality(met[b]) <= count[b] /\ ~Refused(b)
    BY DEF AdmittedInv
  <2>5. QED
    BY <2>1, <2>3, <2>4, BenchAssumption DEF Refused
<1>4. QED
  BY <1>1, <1>2, <1>3, LockTypeCorrect, MarkerSafety, PTL DEF LockSpec

(***************************************************************************)
(* The pipeline.                                                           *)
(***************************************************************************)

\* The request of the next post is one.
LEMMA NextPostIsRequest ==
  ASSUME TypeOK, run # 0, n <= Len(Posts)
  PROVE  NextPost \in Request
<1>1. Posts[n] \in Sample \X Session
  BY PipelineAssumption DEF TypeOK
<1>2. run \in 1..MaxRuns
  BY PipelineAssumption DEF TypeOK
<1> QED
  BY <1>1, <1>2 DEF NextPost, Request

\* A search in a wing returns ids of drawers of that wing.
LEMMA RetrievedIds ==
  ASSUME TypeOK, NEW wing, NEW hits \in Retrievable(wing), NEW i \in DOMAIN hits
  PROVE  \E req \in Request : /\ req.sample = wing
                              /\ hits[i] \in {DrawerId(req), ChunkId(req)}
<1> DEFINE reqs == {d.from : d \in {x \in drawers : x.from.sample = wing}}
           ids  == {DrawerId(r) : r \in reqs} \cup {ChunkId(r) : r \in reqs}
<1>1. PICK k \in 0..TopK : hits \in [1..k -> ids]
  BY DEF Retrievable
<1>2. hits[i] \in ids
  BY <1>1
<1>3. PICK r \in reqs : hits[i] \in {DrawerId(r), ChunkId(r)}
  BY <1>2
<1>4. r \in Request /\ r.sample = wing
  BY DEF TypeOK
<1> QED
  BY <1>3, <1>4

-----------------------------------------------------------------------------
(* Types.                                                                  *)

\* What the types rest on: a process has been counted, and the two counts of
\* the ingest add up to the posts made so far.
Ledger ==
  /\ pc # "off" => run # 0
  /\ pc \in {"off", "guard"} => n = 1 /\ posted = 0 /\ errors = 0
  /\ pc = "ingest" => posted + errors = n - 1 /\ n <= Len(Posts) + 1
  /\ pc \in {"backfill", "poll", "query"} => posted + errors = Len(Posts)

TypeInv == TypeOK /\ Ledger

LEMMA Lengths == Len(Posts) \in Nat /\ Len(Questions) \in Nat /\ MaxRuns \in Nat
  BY PipelineAssumption

\* What a request stores has the type of a drawer.
LEMMA StoredTyped ==
  ASSUME drawers \subseteq [from : Request, heard : BOOLEAN],
         NEW req \in Request, NEW heard \in BOOLEAN
  PROVE  Stored(req, heard) \subseteq [from : Request, heard : BOOLEAN]
<1>1. [from |-> req, heard |-> heard] \in [from : Request, heard : BOOLEAN]
  OBVIOUS
<1> QED
  BY <1>1 DEF Stored

\* A process that ends leaves everything typed, whatever the daemon does.
LEMMA ExitTyped ==
  ASSUME TypeInv, Exit,
         drawers' \subseteq [from : Request, heard : BOOLEAN],
         late' \subseteq Request, job' \in {"none", "running", "over"}
  PROVE  TypeInv'
<1>1. DOMAIN record'.hits = {}
  BY DEF Exit, NoRecord
<1>2. TypeOK'
  <2>1. n' \in 1..(Len(Posts) + Len(Questions) + 1) /\ run' \in 0..MaxRuns
    BY Lengths DEF TypeInv, TypeOK, Exit
  <2>2. posted' \in 0..Len(Posts) /\ errors' \in 0..Len(Posts)
    BY Lengths DEF Exit
  <2>3. pc' \in Stages /\ s2d' = {} /\ strays' \subseteq Request
    BY DEF Exit, Stages
  <2>4. status' \in {"none", "skipped", "over", "timeout"} /\ due' \in BOOLEAN
    BY DEF Exit
  <2> QED
    BY <1>1, <2>1, <2>2, <2>3, <2>4 DEF TypeOK
<1>3. Ledger'
  BY DEF Exit, Ledger
<1> QED
  BY <1>2, <1>3 DEF TypeInv

LEMMA PostTyped ==
  ASSUME TypeInv, Post PROVE TypeInv'
<1>1. /\ n <= Len(Posts) /\ pc = "ingest" /\ n' = n + 1 /\ run # 0
      /\ UNCHANGED <<pc, run, status, due, record, strays, job>>
      /\ posted + errors = n - 1
  BY DEF Post, TypeInv, Ledger
<1>2. NextPost \in Request
  BY <1>1, NextPostIsRequest DEF TypeInv
<1>3. CASE Acknowledged(NextPost)
  <2>1. posted' = posted + 1 /\ errors' = errors /\ late' = late
    BY <1>3 DEF Acknowledged
  <2>2. drawers' \subseteq [from : Request, heard : BOOLEAN]
    BY <1>2, <1>3, StoredTyped DEF Acknowledged, TypeInv, TypeOK
  <2>3. \A m \in s2d' : \E req \in Request : m = Entry(req, DrawerId(req))
    <3>1. s2d' \in {s2d, s2d \cup {Entry(NextPost, DrawerId(NextPost))}}
      BY <1>3 DEF Acknowledged
    <3> QED
      BY <1>2, <3>1 DEF TypeInv, TypeOK
  <2>4. TypeOK'
    BY <1>1, <2>1, <2>2, <2>3, Lengths DEF TypeInv, TypeOK
  <2>5. Ledger'
    BY <1>1, <2>1, Lengths DEF Ledger, TypeInv, TypeOK
  <2> QED
    BY <2>4, <2>5 DEF TypeInv
<1>4. CASE NotAcknowledged(NextPost)
  <2>1. TypeOK'
    BY <1>1, <1>2, <1>4, Lengths DEF NotAcknowledged, TypeInv, TypeOK
  <2>2. Ledger'
    BY <1>1, <1>4, Lengths DEF NotAcknowledged, Ledger, TypeInv, TypeOK
  <2> QED
    BY <2>1, <2>2 DEF TypeInv
<1> QED
  BY <1>3, <1>4 DEF Post

LEMMA QueryTyped ==
  ASSUME TypeInv, Query PROVE TypeInv'
<1>1. PICK hits \in Retrievable(Questions[n].sample) : record' = Scored(Questions[n], hits)
  BY DEF Query
<1>2. record'.hits = hits
  BY <1>1 DEF Scored
<1>3. \A i \in DOMAIN record'.hits :
        \E req \in Request : record'.hits[i] \in {DrawerId(req), ChunkId(req)}
  BY <1>2, RetrievedIds DEF TypeInv
<1>4. TypeOK'
  BY <1>3, Lengths DEF Query, daemon, TypeInv, TypeOK
<1>5. Ledger'
  BY Lengths DEF Query, Ledger, TypeInv, TypeOK
<1> QED
  BY <1>4, <1>5 DEF TypeInv

LEMMA TypeStep ==
  ASSUME TypeInv, [Next]_vars PROVE TypeInv'
<1> USE Lengths DEF TypeInv
<1>1. CASE StartRun
  BY <1>1 DEF StartRun, TypeOK, Stages, Ledger, local, daemon
<1>2. CASE Guard
  <2>1. CASE Exit
    BY <1>2, <2>1, ExitTyped DEF Guard, daemon, TypeOK
  <2>2. CASE pc' = "ingest" /\ strays' = late /\ UNCHANGED <<run, local>>
    BY <1>2, <2>2 DEF Guard, TypeOK, Stages, Ledger, local, daemon
  <2> QED
    BY <1>2, <2>1, <2>2 DEF Guard
<1>3. CASE Post
  BY <1>3, PostTyped
<1>4. CASE Flush
  <2>1. n' \in 1..(Len(Posts) + Len(Questions) + 1)
    BY <1>4 DEF Flush
  <2>2. status' \in {"none", "skipped", "over", "timeout"} /\ pc' \in Stages
    BY <1>4 DEF Flush, TypeOK, Stages
  <2>3. TypeOK'
    BY <1>4, <2>1, <2>2 DEF Flush, TypeOK, daemon
  <2>4. Ledger'
    BY <1>4 DEF Flush, Ledger, TypeOK
  <2> QED
    BY <2>3, <2>4
<1>5. CASE StartBackfill
  BY <1>5 DEF StartBackfill, TypeOK, Stages, Ledger
<1>6. CASE PollOver
  BY <1>6 DEF PollOver, TypeOK, Stages, Ledger, daemon
<1>7. CASE PollTimeout
  BY <1>7 DEF PollTimeout, TypeOK, Stages, Ledger, daemon
<1>8. CASE Query
  BY <1>8, QueryTyped
<1>9. CASE Finish
  BY <1>9, ExitTyped DEF Finish, daemon, TypeOK
<1>10. CASE DeadlinePasses
  BY <1>10 DEF DeadlinePasses, TypeOK, Stages, Ledger, daemon
<1>11. CASE Crash
  <2>1. late' \subseteq Request
    <3>1. CASE pc = "ingest" /\ n <= Len(Posts)
      BY <1>11, <3>1, NextPostIsRequest DEF Crash, TypeOK, Ledger
    <3> QED
      BY <1>11, <3>1 DEF Crash, TypeOK
  <2> QED
    BY <1>11, <2>1, ExitTyped DEF Crash, TypeOK
<1>12. CASE \E req \in late : CarryOut(req)
  <2>1. PICK req \in late : CarryOut(req)
    BY <1>12
  <2>2. drawers' \subseteq [from : Request, heard : BOOLEAN]
    BY <2>1, StoredTyped DEF CarryOut, TypeOK
  <2> QED
    BY <2>1, <2>2 DEF CarryOut, TypeOK, Ledger, client, local
<1>13. CASE JobEnds
  BY <1>13 DEF JobEnds, TypeOK, Ledger, client, local
<1>14. CASE Provision
  BY <1>14 DEF Provision, TypeOK, Ledger, client, local
<1>15. CASE UNCHANGED vars
  BY <1>15 DEF vars, client, local, daemon, TypeOK, Ledger
<1> QED
  BY <1>1, <1>2, <1>3, <1>4, <1>5, <1>6, <1>7, <1>8, <1>9, <1>10, <1>11, <1>12,
     <1>13, <1>14, <1>15 DEF Next, Run

LEMMA TypeInvariant == Spec => []TypeInv
<1>1. Init => TypeInv
  <2>1. Init => DOMAIN record.hits = {}
    BY DEF Init, NoRecord
  <2>2. Init => n \in 1..(Len(Posts) + Len(Questions) + 1) /\ run \in 0..MaxRuns
    BY Lengths DEF Init
  <2>3. Init => posted \in 0..Len(Posts) /\ errors \in 0..Len(Posts)
    BY Lengths DEF Init
  <2>4. Init => TypeOK
    BY <2>1, <2>2, <2>3 DEF Init, TypeOK, Stages
  <2> QED
    BY <2>4 DEF Init, TypeInv, Ledger
<1> QED
  BY <1>1, TypeStep, PTL DEF Spec

\* Every variable keeps its type; in particular the map from sessions to
\* drawers only ever holds ids the daemon gave to requests for those sessions.
THEOREM PipelineTypeCorrect == Spec => []TypeOK
  BY TypeInvariant, PTL DEF TypeInv

-----------------------------------------------------------------------------
(* Whose drawers the palace holds.                                         *)

\* What may reach the palace of a run is the run's own, or was on its way when
\* the guard found the palace empty.
Isolated ==
  pc \in {"ingest", "backfill", "poll", "query"} =>
    /\ \A d \in drawers : d.from.run = run \/ d.from \in strays
    /\ \A req \in late : req.run = run \/ req \in strays

LEMMA NextPostIsOwn == NextPost.run = run
  BY DEF NextPost

LEMMA IsolatedStep ==
  ASSUME Isolated, [Next]_vars PROVE Isolated'
<1>1. CASE StartRun
  BY <1>1 DEF StartRun, Isolated
<1>2. CASE Guard
  <2>1. CASE Exit
    BY <2>1 DEF Exit, Isolated
  <2>2. CASE drawers = {} /\ pc' = "ingest" /\ strays' = late
    BY <1>2, <2>2 DEF Guard, Isolated, daemon
  <2> QED
    BY <1>2, <2>1, <2>2 DEF Guard
<1>3. CASE Post
  <2>1. /\ UNCHANGED <<pc, run, strays>> /\ pc = "ingest"
        /\ late' \subseteq late \cup {NextPost}
    BY <1>3 DEF Post, Acknowledged, NotAcknowledged
  <2>2. \A d \in drawers' : d \in drawers \/ d.from = NextPost
    BY <1>3 DEF Post, Acknowledged, NotAcknowledged, Stored
  <2> QED
    BY <2>1, <2>2, NextPostIsOwn DEF Isolated
<1>4. CASE Flush
  BY <1>4 DEF Flush, Isolated, daemon
<1>5. CASE StartBackfill
  BY <1>5 DEF StartBackfill, Isolated
<1>6. CASE PollOver
  BY <1>6 DEF PollOver, Isolated, daemon
<1>7. CASE PollTimeout
  BY <1>7 DEF PollTimeout, Isolated, daemon
<1>8. CASE Query
  BY <1>8 DEF Query, Isolated, daemon
<1>9. CASE Finish
  BY <1>9 DEF Finish, Exit, Isolated
<1>10. CASE DeadlinePasses
  BY <1>10 DEF DeadlinePasses, Isolated, daemon
<1>11. CASE Crash
  BY <1>11 DEF Crash, Exit, Isolated
<1>12. CASE \E req \in late : CarryOut(req)
  <2>1. PICK req \in late : CarryOut(req)
    BY <1>12
  <2>2. UNCHANGED <<pc, run, strays>> /\ late' \subseteq late
    BY <2>1 DEF CarryOut, client
  <2>3. \A d \in drawers' : d \in drawers \/ d.from = req
    BY <2>1 DEF CarryOut, Stored
  <2> QED
    BY <2>2, <2>3 DEF Isolated
<1>13. CASE JobEnds
  BY <1>13 DEF JobEnds, Isolated, client
<1>14. CASE Provision
  BY <1>14 DEF Provision, Isolated, client
<1>15. CASE UNCHANGED vars
  BY <1>15 DEF vars, client, daemon, Isolated
<1> QED
  BY <1>1, <1>2, <1>3, <1>4, <1>5, <1>6, <1>7, <1>8, <1>9, <1>10, <1>11, <1>12,
     <1>13, <1>14, <1>15 DEF Next, Run

\* isolation_guard: what a run asks about is its own conversations, whatever
\* runs there were before it on the same daemon and however they ended, but for
\* requests of theirs that were on their way when it counted.
THEOREM PalaceIsOwn == Spec => []NoForeignDrawers
<1>1. Init => Isolated
  BY DEF Init, Isolated
<1>2. Isolated => NoForeignDrawers
  BY DEF Isolated, NoForeignDrawers
<1> QED
  BY <1>1, <1>2, IsolatedStep, PTL DEF Spec

-----------------------------------------------------------------------------
(* What the run knows of the palace.                                       *)

\* Nothing is of a run yet to come, and a drawer whose id the run was told is
\* in its map.
Known ==
  /\ \A d \in drawers : d.from.run <= run
  /\ \A req \in late : req.run <= run
  /\ pc # "off" => \A d \in drawers :
       d.heard /\ d.from.run = run => Entry(d.from, DrawerId(d.from)) \in s2d

LEMMA KnownStep ==
  ASSUME TypeInv, Known, [Next]_vars PROVE Known'
<1> run \in Nat
  BY Lengths DEF TypeInv, TypeOK
<1>1. CASE StartRun
  BY <1>1 DEF StartRun, Known, local, daemon, TypeInv, TypeOK, Request
<1>2. CASE Guard
  BY <1>2 DEF Guard, Exit, Known, local, daemon
<1>3. CASE Post
  <2>1. UNCHANGED <<pc, run>> /\ late' \subseteq late \cup {NextPost} /\ s2d \subseteq s2d'
    BY <1>3 DEF Post, Acknowledged, NotAcknowledged
  <2>2. \A d \in drawers' : \/ d \in drawers
                             \/ /\ d.from = NextPost
                                /\ d.heard => Entry(NextPost, DrawerId(NextPost)) \in s2d'
    BY <1>3 DEF Post, Acknowledged, NotAcknowledged, Stored
  <2> QED
    BY <2>1, <2>2, NextPostIsOwn DEF Known
<1>4. CASE Flush
  BY <1>4 DEF Flush, Known, daemon
<1>5. CASE StartBackfill
  BY <1>5 DEF StartBackfill, Known
<1>6. CASE PollOver
  BY <1>6 DEF PollOver, Known, daemon
<1>7. CASE PollTimeout
  BY <1>7 DEF PollTimeout, Known, daemon
<1>8. CASE Query
  BY <1>8 DEF Query, Known, daemon
<1>9. CASE Finish
  BY <1>9 DEF Finish, Exit, Known, daemon
<1>10. CASE DeadlinePasses
  BY <1>10 DEF DeadlinePasses, Known, daemon
<1>11. CASE Crash
  BY <1>11, NextPostIsOwn DEF Crash, Exit, Known
<1>12. CASE \E req \in late : CarryOut(req)
  <2>1. PICK req \in late : CarryOut(req)
    BY <1>12
  <2>2. UNCHANGED <<pc, run, s2d>> /\ late' \subseteq late
    BY <2>1 DEF CarryOut, client, local
  <2>3. \A d \in drawers' : d \in drawers \/ (d.from = req /\ d.heard = FALSE)
    BY <2>1 DEF CarryOut, Stored
  <2> QED
    BY <2>2, <2>3 DEF Known
<1>13. CASE JobEnds
  BY <1>13 DEF JobEnds, Known, client, local
<1>14. CASE Provision
  BY <1>14 DEF Provision, Known, client, local
<1>15. CASE UNCHANGED vars
  BY <1>15 DEF vars, client, local, daemon, Known
<1> QED
  BY <1>1, <1>2, <1>3, <1>4, <1>5, <1>6, <1>7, <1>8, <1>9, <1>10, <1>11, <1>12,
     <1>13, <1>14, <1>15 DEF Next, Run

\* A record is what scoring its hits against the map as it is comes to: the map
\* does not change once questions are asked.
Recorded ==
  record # NoRecord => pc = "query" /\ record = Scored(record.question, record.hits)

\* Scoring looks at the map only.
LEMMA ScoredSame ==
  ASSUME UNCHANGED s2d, NEW q, NEW hits
  PROVE  Scored(q, hits)' = Scored(q, hits)
  BY DEF Scored, ExpectedDrawers, ParentId

LEMMA RecordedStep ==
  ASSUME Recorded, [Next]_vars PROVE Recorded'
<1>1. CASE UNCHANGED <<record, s2d>> /\ (pc = "query" => pc' = "query")
  BY <1>1, ScoredSame DEF Recorded
<1>2. CASE Exit
  BY <1>2 DEF Exit, Recorded
<1>3. CASE Post
  BY <1>3 DEF Post, Recorded
<1>4. CASE Query
  <2>1. PICK hits : record' = Scored(Questions[n], hits)
    BY <1>4 DEF Query
  <2>2. record'.question = Questions[n] /\ record'.hits = hits
    BY <2>1 DEF Scored
  <2>3. UNCHANGED <<pc, s2d>> /\ pc = "query"
    BY <1>4 DEF Query
  <2> QED
    BY <2>1, <2>2, <2>3, ScoredSame DEF Recorded
<1> QED
  BY <1>1, <1>2, <1>3, <1>4
  DEF Next, Run, StartRun, Guard, Flush, StartBackfill, PollOver, PollTimeout, Finish,
      DeadlinePasses, Crash, CarryOut, JobEnds, Provision, vars, client, local

\* The strengthening of HitIsReal and MissIsReal: neither follows from itself
\* one step on, for a record says nothing of the map it was scored against.
ScoringInv == TypeInv /\ Known /\ Recorded

LEMMA ScoringInvariant == Spec => []ScoringInv
<1>1. Init => Known /\ Recorded
  BY DEF Init, Known, Recorded
<1>2. TypeInv /\ Known /\ Recorded /\ [Next]_vars => Known' /\ Recorded'
  BY KnownStep, RecordedStep
<1> QED
  BY <1>1, <1>2, TypeInvariant, PTL DEF Spec, ScoringInv

\* What was retrieved is a drawer, or a chunk, of a request; its parent is the
\* drawer.
LEMMA ParentOfHit ==
  ASSUME TypeOK, NEW i \in DOMAIN record.hits
  PROVE  /\ record.hits[i][1] \in Request
         /\ ParentId(record.hits[i]) = DrawerId(record.hits[i][1])
<1>1. PICK req \in Request : record.hits[i] \in {DrawerId(req), ChunkId(req)}
  BY DEF TypeOK
<1>2. record.hits[i][1] = req
  BY <1>1 DEF DrawerId, ChunkId
<1> QED
  BY <1>2 DEF ParentId, DrawerId

\* A drawer is expected for a question only if it holds evidence for it.
LEMMA ExpectedIsEvidence ==
  ASSUME TypeOK, NEW req \in Request, NEW q, DrawerId(req) \in ExpectedDrawers(q)
  PROVE  req.sample = q.sample /\ req.session \in q.evidence
<1>1. PICK m \in s2d : /\ m.sample = q.sample /\ m.session \in q.evidence
                       /\ m.drawer = DrawerId(req)
  BY DEF ExpectedDrawers
<1>2. PICK r \in Request : m = Entry(r, DrawerId(r))
  BY DEF TypeOK
<1>3. r = req /\ m.sample = r.sample /\ m.session = r.session
  <2>1. m.drawer = DrawerId(r) /\ m.sample = r.sample /\ m.session = r.session
    BY <1>2 DEF Entry
  <2> QED
    BY <1>1, <2>1 DEF DrawerId
<1> QED
  BY <1>1, <1>3

\* What a score says of the hits it is given.
LEMMA ScoreOfHits ==
  ASSUME NEW q, NEW hits
  PROVE  /\ Scored(q, hits).hitAt5 =>
              \E i \in DOMAIN hits : ParentId(hits[i]) \in ExpectedDrawers(q)
         /\ Scored(q, hits).hitAt1 =>
              1 \in DOMAIN hits /\ ParentId(hits[1]) \in ExpectedDrawers(q)
<1> DEFINE parents == [i \in DOMAIN hits |-> ParentId(hits[i])]
           any   == \E i \in DOMAIN parents : parents[i] \in ExpectedDrawers(q)
           first == 1 \in DOMAIN parents /\ parents[1] \in ExpectedDrawers(q)
<1>1. any => \E i \in DOMAIN hits : ParentId(hits[i]) \in ExpectedDrawers(q)
  OBVIOUS
<1>2. first => 1 \in DOMAIN hits /\ ParentId(hits[1]) \in ExpectedDrawers(q)
  OBVIOUS
<1>3. Scored(q, hits).hitAt5 = any /\ Scored(q, hits).hitAt1 = first
  BY DEF Scored
<1> HIDE DEF any, first
<1> QED
  BY <1>1, <1>2, <1>3

\* query_all_samples: a hit is credited, and at rank 1, only for a drawer that
\* holds evidence of the conversation the question is about.
THEOREM HitsAreReal == Spec => []HitIsReal
<1>1. ASSUME ScoringInv PROVE HitIsReal
  <2> SUFFICES ASSUME pc = "query", record # NoRecord
               PROVE  /\ record.hitAt5 => \E id \in Hits : Evidence(id)
                      /\ record.hitAt1 => Evidence(record.hits[1])
    BY DEF HitIsReal
  <2>1. record = Scored(record.question, record.hits)
    BY <1>1 DEF ScoringInv, Recorded
  <2>2. \A i \in DOMAIN record.hits :
          ParentId(record.hits[i]) \in ExpectedDrawers(record.question) =>
            Evidence(record.hits[i])
    BY <1>1, ParentOfHit, ExpectedIsEvidence DEF ScoringInv, TypeInv, Evidence
  <2>3. /\ record.hitAt5 => \E i \in DOMAIN record.hits :
                              ParentId(record.hits[i]) \in ExpectedDrawers(record.question)
        /\ record.hitAt1 => /\ 1 \in DOMAIN record.hits
                            /\ ParentId(record.hits[1]) \in ExpectedDrawers(record.question)
    BY <2>1, ScoreOfHits
  <2> QED
    BY <2>2, <2>3 DEF Hits
<1> QED
  BY <1>1, ScoringInvariant, PTL

\* query_all_samples: evidence that was retrieved is missed only when the run was
\* never told the id of its drawer, or when the drawer is of another run.
THEOREM MissesAreReal == Spec => []MissIsReal
<1>1. ASSUME ScoringInv PROVE MissIsReal
  <2> SUFFICES ASSUME pc = "query", record # NoRecord, ~record.hitAt5,
                      NEW i \in DOMAIN record.hits, Evidence(record.hits[i]),
                      Heard(record.hits[i]), record.hits[i][1].run = run
               PROVE  FALSE
    BY DEF MissIsReal, Hits
  <2> DEFINE req == record.hits[i][1]
  <2>1. record = Scored(record.question, record.hits)
    BY <1>1 DEF ScoringInv, Recorded
  <2>2. req \in Request /\ ParentId(record.hits[i]) = DrawerId(req)
    BY <1>1, ParentOfHit DEF ScoringInv, TypeInv
  <2>3. Entry(req, DrawerId(req)) \in s2d
    BY <1>1 DEF ScoringInv, Known, Heard
  <2>4. DrawerId(req) \in ExpectedDrawers(record.question)
    BY <2>3 DEF Evidence, Entry, ExpectedDrawers
  <2> QED
    BY <2>1, <2>2, <2>4 DEF Scored
<1> QED
  BY <1>1, ScoringInvariant, PTL

\* query_all_samples: the score of a question is right both ways, whatever was
\* retrieved and whichever answers of the ingest were lost.
THEOREM ScoresAreReal == Spec => []ScoreIsReal
<1>1. HitIsReal /\ MissIsReal => ScoreIsReal
  BY DEF ScoreIsReal
<1> QED
  BY <1>1, HitsAreReal, MissesAreReal, PTL
=============================================================================
