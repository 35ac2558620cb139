------------------------- MODULE WikiCompilerProofs -------------------------
(***************************************************************************)
(* Theorems about WikiCompiler, for any vault whose notes have article     *)
(* files of their own, and any number of runs and edits.                   *)
(***************************************************************************)
EXTENDS WikiCompiler, TLAPS

OwnFiles == \A m, n \in Paths : FileOf[m] = FileOf[n] => m = n

(* The article of note n, if it exists, was made from body b. *)
Holds(n, b) ==
  FileOf[n] \in DOMAIN wiki => wiki[FileOf[n]] = [note |-> n, body |-> b]

(* The article of n is half written. *)
Open(n) == pc = "writing" /\ note = n

InNote == pc \in {"llm", "writing"}

TypesOK ==
  /\ note \in Paths /\ todo \subseteq Paths
  /\ DOMAIN man \subseteq Paths /\ DOMAIN manifest \subseteq Paths
  /\ report \in [compiled : SUBSET Paths, cached : SUBSET Paths, failed : SUBSET Paths]

(* A run visits each note once, and settles it once. *)
Progress ==
  /\ InNote => note \notin todo /\ note \notin report.compiled /\ note \notin report.cached
  /\ pc \in Working =>
       /\ \A n \in todo : n \notin report.compiled /\ n \notin report.cached
       /\ force => DOMAIN man \subseteq report.compiled
  /\ \A n \in report.compiled : n \notin report.cached
  /\ force => report.cached = {}
  /\ pc = "done" /\ force => suspect = {}

(* What the run's own manifest says of a note it has compiled, or one nothing *)
(* has happened to, is what its article holds.                             *)
ManTrue ==
  pc \in Working =>
    \A n \in DOMAIN man :
      n \in report.compiled \/ (n \notin suspect /\ ~Open(n)) => Holds(n, man[n])

(* So does the manifest on disk, for notes the run has not touched. *)
DiskTrue ==
  \A n \in DOMAIN manifest :
    n \notin suspect /\ (pc \in Working => n \notin report.compiled /\ ~Open(n)) =>
      Holds(n, manifest[n])

(* A note found in the cache has been read, and has a summary. *)
Found == report.cached \subseteq DOMAIN seen /\ report.cached \subseteq DOMAIN summaries

IInv == TypesOK /\ Progress /\ ManTrue /\ DiskTrue /\ Found /\ CacheTruthUnlessSuspect

LEMMA WithFacts ==
  ASSUME NEW f, NEW x, NEW y
  PROVE  /\ DOMAIN With(f, x, y) = DOMAIN f \cup {x}
         /\ With(f, x, y)[x] = y
         /\ \A z \in DOMAIN f : z # x => With(f, x, y)[z] = f[z]
BY DEF With

LEMMA Initially == Init => IInv
<1> SUFFICES ASSUME Init PROVE IInv
  OBVIOUS
<1> USE DEF Init
<1>1. TypesOK
  BY DEF TypesOK, Fresh
<1>2. Progress
  BY DEF Progress, Fresh, Working, InNote
<1>3. ManTrue /\ DiskTrue
  BY DEF ManTrue, DiskTrue, Working
<1>4. Found /\ CacheTruthUnlessSuspect
  BY DEF Found, CacheTruthUnlessSuspect, Fresh
<1>5. QED
  BY <1>1, <1>2, <1>3, <1>4 DEF IInv

LEMMA TypesStep == ASSUME TypesOK, [Next]_vars PROVE TypesOK'
<1> USE DEF TypesOK
<1>1. CASE Begin
  BY <1>1 DEF Begin, Fresh, disk
<1>2. CASE Visit
  BY <1>2 DEF Visit, disk
<1>3. CASE LlmFails \/ WriteFails
  <2>1. /\ report' = [report EXCEPT !.failed = @ \cup {note}]
        /\ UNCHANGED <<note, todo, man, manifest>>
    BY <1>3 DEF LlmFails, WriteFails, NoteFails, disk, local
  <2>2. QED
    BY <2>1
<1>4. CASE CloseArticle
  BY <1>4 DEF With, CloseArticle
<1>5. CASE OpenManifest \/ Return
  BY <1>5 DEF OpenManifest, Return, local
<1>6. CASE \/ OpenArticle \/ NotesDone \/ OpenIndex \/ CloseIndex \/ Stop
           \/ Edit \/ Tidy \/ UNCHANGED vars
  <2>1. UNCHANGED <<note, todo, man, manifest, report>>
    BY <1>6 DEF OpenArticle, NotesDone, OpenIndex, CloseIndex, Stop, Edit, Tidy,
       vars, disk, local
  <2>2. QED
    BY <2>1
<1>7. QED
  BY <1>1, <1>2, <1>3, <1>4, <1>5, <1>6 DEF Next, Run

LEMMA ProgressStep == ASSUME TypesOK, Progress, [Next]_vars PROVE Progress'
<1> USE DEF TypesOK, Progress, InNote, Working
<1>1. CASE Begin
  BY <1>1 DEF Begin, Fresh
<1>2. CASE Visit
  <2>1. PICK n \in todo :
          /\ note' = n /\ todo' = todo \ {n}
          /\ \/ Hit(n) /\ report' = [report EXCEPT !.cached = @ \cup {n}] /\ UNCHANGED pc
             \/ pc' = "llm" /\ UNCHANGED report
    BY <1>2 DEF Visit
  <2>2. pc = "next" /\ UNCHANGED <<force, man, suspect>>
    BY <1>2 DEF Visit
  <2>3. CASE Hit(n) /\ report' = [report EXCEPT !.cached = @ \cup {n}] /\ UNCHANGED pc
    <3>1. /\ ~force
          /\ report'.cached = report.cached \cup {n} /\ report'.compiled = report.compiled
      BY <2>3 DEF Hit
    <3>2. QED
      BY <2>1, <2>2, <2>3, <3>1
  <2>4. CASE pc' = "llm" /\ UNCHANGED report
    BY <2>1, <2>2, <2>4
  <2>5. QED
    BY <2>1, <2>3, <2>4
<1>3. CASE LlmFails \/ WriteFails
  <2>1. /\ pc \in {"llm", "writing"} /\ pc' = "next" /\ UNCHANGED <<force, todo, note, man>>
        /\ report'.compiled = report.compiled /\ report'.cached = report.cached
    BY <1>3 DEF LlmFails, WriteFails, NoteFails, local
  <2>2. QED
    BY <2>1
<1>4. CASE OpenArticle
  BY <1>4 DEF OpenArticle, local
<1>5. CASE CloseArticle
  <2>1. /\ pc = "writing" /\ pc' = "next" /\ UNCHANGED <<force, todo, note, suspect>>
        /\ report'.compiled = report.compiled \cup {note} /\ report'.cached = report.cached
        /\ DOMAIN man' = DOMAIN man \cup {note}
    BY <1>5, WithFacts DEF CloseArticle
  <2>2. QED
    BY <2>1
<1>6. CASE NotesDone \/ OpenIndex \/ CloseIndex \/ OpenManifest
  <2>1. /\ pc \in Working /\ pc' \in {"index", "indexing", "manifest", "saving"}
        /\ UNCHANGED <<force, todo, man, report, suspect>>
    BY <1>6 DEF NotesDone, OpenIndex, CloseIndex, OpenManifest, local
  <2>2. QED
    BY <2>1
<1>7. CASE Return
  BY <1>7 DEF Return, local
<1>8. CASE Stop
  BY <1>8 DEF Stop, local
<1>9. CASE Edit \/ Tidy \/ UNCHANGED vars
  BY <1>9 DEF Edit, Tidy, vars, local
<1>10. QED
  BY <1>1, <1>2, <1>3, <1>4, <1>5, <1>6, <1>7, <1>8, <1>9 DEF Next, Run

-----------------------------------------------------------------------------
(* The article files.                                                      *)

LEMMA HoldsKept ==
  ASSUME OwnFiles, NEW n \in Paths, NEW m \in Paths, n # m, NEW a, NEW b,
         wiki' = With(wiki, FileOf[m], a), Holds(n, b)
  PROVE  Holds(n, b)'
<1>1. FileOf[n] # FileOf[m]
  BY DEF OwnFiles
<1>2. QED
  BY <1>1 DEF With, Holds

\* What touches neither the files nor what is said about them.
LEMMA FilesKept ==
  ASSUME ManTrue, DiskTrue,
         UNCHANGED <<wiki, man, manifest>>,
         suspect \subseteq suspect', report'.compiled = report.compiled,
         pc \in Working => pc' \in Working,
         pc' \in Working => pc \in Working,
         pc' # "writing",
         pc = "writing" => note \in suspect' /\ note \notin report.compiled
  PROVE  ManTrue' /\ DiskTrue'
BY DEF ManTrue, DiskTrue, Open, Holds, Working

LEMMA FilesStep ==
  ASSUME OwnFiles, IInv, [Next]_vars
  PROVE  ManTrue' /\ DiskTrue'
<1> USE DEF IInv, TypesOK
<1>1. CASE Begin
  <2>1. /\ pc \notin Working /\ pc' = "next" /\ report'.compiled = {}
        /\ (man' = <<>> \/ man' = manifest)
        /\ UNCHANGED <<wiki, manifest, suspect>>
    BY <1>1 DEF Begin, Fresh, disk
  <2>2. \A n \in DOMAIN manifest : n \notin suspect => Holds(n, manifest[n])'
    BY <2>1 DEF DiskTrue, Holds
  <2>3. DiskTrue'
    BY <2>1, <2>2 DEF DiskTrue
  <2>4. ManTrue'
    BY <2>1, <2>2 DEF ManTrue
  <2>5. QED
    BY <2>3, <2>4
<1>2. CASE \/ Visit \/ LlmFails \/ WriteFails
           \/ NotesDone \/ OpenIndex \/ CloseIndex \/ Edit
  <2>1. /\ UNCHANGED <<wiki, man, manifest>> /\ suspect \subseteq suspect'
        /\ report'.compiled = report.compiled
    BY <1>2 DEF Visit, LlmFails, WriteFails, NoteFails, NotesDone, OpenIndex,
       CloseIndex, Edit, disk, local
  <2>2. CASE Edit
    <3>1. UNCHANGED <<note, suspect, pc, report>>
      BY <2>2 DEF Edit, local
    <3>2. QED
      BY <2>1, <3>1 DEF ManTrue, DiskTrue, Holds, Open
  <2>3. CASE ~Edit
    <3>1. /\ pc \in Working /\ pc' \in Working /\ pc' # "writing"
          /\ pc = "writing" => note \in suspect' /\ note \notin report.compiled
      BY <1>2, <2>3 DEF Visit, LlmFails, WriteFails, NoteFails, NotesDone, OpenIndex,
         CloseIndex, Working, Progress, InNote
    <3>2. QED
      BY <2>1, <3>1, FilesKept
  <2>4. QED
    BY <2>2, <2>3
<1>3. CASE OpenArticle
  <2>1. /\ pc = "llm" /\ pc' = "writing"
        /\ UNCHANGED <<manifest, man, note, report, suspect>>
        /\ \E a : wiki' = With(wiki, FileOf[note], a)
    BY <1>3 DEF OpenArticle, local
  <2>2. note \notin report.compiled
    BY <2>1 DEF Progress, InNote
  <2>3. \A n \in Paths : \A b : n # note /\ Holds(n, b) => Holds(n, b)'
    BY <2>1, HoldsKept
  <2>4. ManTrue'
    <3> SUFFICES ASSUME NEW n \in DOMAIN man, n # note,
                        n \in report.compiled \/ n \notin suspect
                 PROVE  Holds(n, man[n])'
      BY <2>1, <2>2 DEF ManTrue, Open
    <3>1. Holds(n, man[n])
      BY <2>1 DEF ManTrue, Open, Working
    <3>2. PICK b : b = man[n]
      OBVIOUS
    <3>3. Holds(n, b)'
      BY <2>3, <3>1, <3>2
    <3>4. QED
      BY <2>1, <3>2, <3>3 DEF Holds
  <2>5. DiskTrue'
    <3> SUFFICES ASSUME NEW n \in DOMAIN manifest, n # note,
                        n \notin suspect, n \notin report.compiled
                 PROVE  Holds(n, manifest[n])'
      BY <2>1 DEF DiskTrue, Open, Working
    <3>1. Holds(n, manifest[n])
      BY <2>1 DEF DiskTrue, Open, Working
    <3>2. PICK b : b = manifest[n]
      OBVIOUS
    <3>3. Holds(n, b)'
      BY <2>3, <3>1, <3>2
    <3>4. QED
      BY <2>1, <3>2, <3>3 DEF Holds
  <2>6. QED
    BY <2>4, <2>5
<1>4. CASE CloseArticle
  <2>1. /\ pc = "writing" /\ pc' = "next"
        /\ UNCHANGED <<manifest, note, suspect>>
        /\ report'.compiled = report.compiled \cup {note}
        /\ wiki' = With(wiki, FileOf[note], [note |-> note, body |-> seen[note]])
        /\ man' = With(man, note, seen[note])
    BY <1>4 DEF CloseArticle
  <2>2. note \notin report.compiled
    BY <2>1 DEF Progress, InNote
  <2>3. \A n \in Paths : \A b : n # note /\ Holds(n, b) => Holds(n, b)'
    BY <2>1, HoldsKept
  <2>4. ASSUME NEW n \in DOMAIN man', n \in report'.compiled \/ (n \notin suspect' /\ ~Open(n)')
        PROVE  Holds(n, man[n])'
    <3>1. CASE n = note
      <4>1. wiki'[FileOf[n]] = [note |-> n, body |-> man'[n]]
        BY <2>1, <3>1 DEF With
      <4>2. QED
        BY <4>1 DEF Holds
    <3>2. CASE n # note
      <4>1. n \in DOMAIN man /\ man'[n] = man[n]
        BY <2>1, <3>2 DEF With
      <4>2. Holds(n, man[n])
        BY <2>1, <2>4, <3>2, <4>1 DEF ManTrue, Open, Working
      <4>3. PICK b : b = man[n]
        OBVIOUS
      <4>4. Holds(n, b)'
        BY <2>3, <3>2, <4>1, <4>2, <4>3
      <4>5. QED
        BY <4>1, <4>3, <4>4 DEF Holds
    <3>3. QED
      BY <3>1, <3>2
  <2>5. DiskTrue'
    <3> SUFFICES ASSUME NEW n \in DOMAIN manifest, n # note,
                        n \notin suspect, n \notin report.compiled
                 PROVE  Holds(n, manifest[n])'
      BY <2>1 DEF DiskTrue, Open, Working
    <3>1. Holds(n, manifest[n])
      BY <2>1 DEF DiskTrue, Open, Working
    <3>2. PICK b : b = manifest[n]
      OBVIOUS
    <3>3. Holds(n, b)'
      BY <2>3, <3>1, <3>2
    <3>4. QED
      BY <2>1, <3>2, <3>3 DEF Holds
  <2>6. QED
    BY <2>4, <2>5 DEF ManTrue
<1>5. CASE OpenManifest
  <2>1. /\ pc = "manifest" /\ pc' = "saving" /\ manifest' = <<>>
        /\ UNCHANGED <<wiki, man, report, suspect>>
    BY <1>5 DEF OpenManifest, local
  <2>2. QED
    BY <2>1 DEF ManTrue, DiskTrue, Holds, Open, Working
<1>6. CASE Return
  <2>1. /\ pc = "saving" /\ pc' = "done" /\ manifest' = man
        /\ suspect' = IF force THEN {} ELSE suspect \ report.compiled
        /\ UNCHANGED <<wiki, report>>
    BY <1>6 DEF Return, local
  <2>2. \A n \in DOMAIN man : n \notin suspect' => n \in report.compiled \/ n \notin suspect
    BY <2>1 DEF Progress, Working
  <2>3. \A n \in DOMAIN man : n \notin suspect' => Holds(n, man[n])
    BY <2>1, <2>2 DEF ManTrue, Open, Working
  <2>4. QED
    BY <2>1, <2>3 DEF ManTrue, DiskTrue, Holds, Working
<1>7. CASE Stop
  <2>1. /\ pc \in Working /\ pc' = "dead" /\ UNCHANGED <<wiki, manifest, man, report, note>>
        /\ suspect' = suspect \cup report.compiled
                              \cup (IF pc = "writing" THEN {note} ELSE {})
    BY <1>7 DEF Stop, disk, local
  <2>2. QED
    BY <2>1 DEF ManTrue, DiskTrue, Holds, Open, Working
<1>8. CASE Tidy
  <2>1. /\ pc \notin Working /\ UNCHANGED <<manifest, pc, man, report, note, suspect>>
        /\ \A g \in DOMAIN wiki' : g \in DOMAIN wiki /\ wiki'[g] = wiki[g]
    BY <1>8 DEF Tidy, local
  <2>2. QED
    BY <2>1 DEF ManTrue, DiskTrue, Holds
<1>9. CASE UNCHANGED vars
  BY <1>9 DEF vars, disk, local, ManTrue, DiskTrue, Holds, Open
<1>10. QED
  BY <1>1, <1>2, <1>3, <1>4, <1>5, <1>6, <1>7, <1>8, <1>9 DEF Next, Run

-----------------------------------------------------------------------------
(* What is said of the notes found in the cache.                           *)

LEMMA CacheStep ==
  ASSUME IInv, [Next]_vars
  PROVE  Found' /\ CacheTruthUnlessSuspect'
<1> USE DEF IInv, TypesOK, Found, CacheTruthUnlessSuspect, MadeFrom
<1>1. CASE Begin
  BY <1>1 DEF Begin, Fresh
<1>2. CASE Visit
  <2>1. PICK n \in todo :
          /\ seen' = With(seen, n, vault[n])
          /\ \/ /\ Hit(n) /\ report' = [report EXCEPT !.cached = @ \cup {n}]
                /\ summaries' = With(summaries, n, wiki[FileOf[n]])
             \/ UNCHANGED <<summaries, report>>
    BY <1>2 DEF Visit
  <2>2. /\ pc = "next" /\ UNCHANGED suspect
        /\ n \notin report.cached /\ n \notin report.compiled
    BY <1>2 DEF Visit, Progress, Working
  <2>3. /\ DOMAIN seen' = DOMAIN seen \cup {n} /\ seen'[n] = vault[n]
        /\ \A m \in report.cached : m # n /\ seen'[m] = seen[m]
    BY <2>1, <2>2 DEF With
  <2>4. CASE UNCHANGED <<summaries, report>>
    BY <2>2, <2>3, <2>4
  <2>5. CASE /\ Hit(n) /\ report' = [report EXCEPT !.cached = @ \cup {n}]
             /\ summaries' = With(summaries, n, wiki[FileOf[n]])
    <3>1. report'.cached = report.cached \cup {n}
      BY <2>5
    <3>2. /\ DOMAIN summaries' = DOMAIN summaries \cup {n}
          /\ summaries'[n] = wiki[FileOf[n]]
          /\ \A m \in report.cached : summaries'[m] = summaries[m]
      BY <2>3, <2>5 DEF With
    <3>3. n \notin suspect => wiki[FileOf[n]] = [note |-> n, body |-> vault[n]]
      BY <2>2, <2>5 DEF Hit, ManTrue, Holds, Open, Working
    <3>4. QED
      BY <2>2, <2>3, <3>1, <3>2, <3>3
  <2>6. QED
    BY <2>1, <2>4, <2>5
<1>3. CASE CloseArticle
  <2>1. /\ UNCHANGED <<seen, suspect>> /\ report'.cached = report.cached
        /\ \E a : summaries' = With(summaries, note, a)
        /\ note \notin report.cached
    BY <1>3 DEF CloseArticle, Progress, InNote
  <2>2. /\ DOMAIN summaries \subseteq DOMAIN summaries'
        /\ \A m \in report.cached : summaries'[m] = summaries[m]
    BY <2>1 DEF With
  <2>3. QED
    BY <2>1, <2>2
<1>4. CASE Return
  <2>1. /\ UNCHANGED <<seen, summaries, report>> /\ pc \in Working
        /\ suspect' = IF force THEN {} ELSE suspect \ report.compiled
    BY <1>4 DEF Return, local, Working
  <2>2. \A n \in report.cached : n \notin suspect' => n \notin suspect
    BY <2>1 DEF Progress
  <2>3. QED
    BY <2>1, <2>2
<1>5. CASE \/ LlmFails \/ OpenArticle \/ WriteFails \/ NotesDone \/ OpenIndex
           \/ CloseIndex \/ OpenManifest \/ Stop \/ Edit \/ Tidy \/ UNCHANGED vars
  <2>1. /\ UNCHANGED <<seen, summaries>> /\ report'.cached = report.cached
        /\ suspect \subseteq suspect'
    BY <1>5 DEF LlmFails, OpenArticle, WriteFails, NoteFails, NotesDone, OpenIndex,
       CloseIndex, OpenManifest, Stop, Edit, Tidy, local, vars
  <2>2. QED
    BY <2>1
<1>6. QED
  BY <1>1, <1>2, <1>3, <1>4, <1>5 DEF Next, Run

LEMMA Invariance == ASSUME OwnFiles PROVE Spec => []IInv
<1>1. ASSUME IInv, [Next]_vars PROVE IInv'
  BY <1>1, TypesStep, ProgressStep, FilesStep, CacheStep DEF IInv
<1>2. QED
  BY Initially, <1>1, PTL DEF Spec

(***************************************************************************)
(* compile_vault serves an unchanged note from the cache only with the     *)
(* article made from what the note holds, except where a run was           *)
(* interrupted or a write failed on that very note: whenever notes change, *)
(* runs die and article files are deleted.                                 *)
(***************************************************************************)
THEOREM CacheIsTrue == ASSUME OwnFiles PROVE Spec => []CacheTruthUnlessSuspect
<1>1. IInv => CacheTruthUnlessSuspect
  BY DEF IInv
<1>2. QED
  BY Invariance, <1>1, PTL

(***************************************************************************)
(* A run of compile_vault with force that returns leaves a manifest and    *)
(* articles that agree, whatever the runs before it left behind.           *)
(***************************************************************************)
THEOREM ForceIsEnough == ASSUME OwnFiles PROVE Spec => []ForceRepairs
<1>1. IInv => ForceRepairs
  BY DEF IInv, ForceRepairs, Progress, DiskTrue, Holds, Working
<1>2. QED
  BY Invariance, <1>1, PTL
=============================================================================
