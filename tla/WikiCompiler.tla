---------------------------- MODULE WikiCompiler ----------------------------
(***************************************************************************)
(* compile_vault of sme/conditions/wiki_compiler.py: notes are summarised  *)
(* by a language model into articles, and a manifest remembers the hash of *)
(* the note each article was made from, so that an unchanged note is not   *)
(* summarised again.  Articles are written as the run goes, the manifest   *)
(* at its end, each with a plain write_text: a run that stops half-way, or *)
(* an article whose write fails, leaves them disagreeing.  The vault is    *)
(* edited by its owner, before, between and during runs.                   *)
(*                                                                         *)
(* A body stands for its text and its hash.  An article is known by the    *)
(* note and the body it was made from.                                     *)
(***************************************************************************)
EXTENDS Naturals

CONSTANTS
  Paths,      \* the notes' paths
  Rank,       \* their order under sorted(): [path -> number]
  Bodies,     \* what a note can hold
  Files,      \* names of article files
  FileOf,     \* _safe_wiki_relpath: [path -> file name]
  Absent,     \* stands for "no such file", in the vault
  Torn,       \* stands for the content of a file whose writing stopped
  MaxRuns,    \* bound on the runs
  MaxEdits    \* bound on the edits of the vault

ASSUME WikiAssumption == /\ Rank \in [Paths -> Nat]
                         /\ FileOf \in [Paths -> Files]
                         /\ Absent \notin Bodies
                         /\ Torn \notin Bodies
                         /\ MaxRuns \in Nat /\ MaxEdits \in Nat

VARIABLES
  vault,      \* the notes
  wiki,       \* the article files that exist
  manifest,   \* _manifest.json: [path -> hash]; empty if missing or unreadable
  index,      \* index.md: the summaries it was made from
  pc,         \* where compile_vault is; "done": returned, "dead": it did not
  force,      \* its argument
  todo,       \* the notes it has still to visit, and
  note,       \* the one it is at
  seen,       \* the bodies it has read
  man,        \* its manifest
  summaries,  \* its article_summaries
  report,     \* its CompileReport
  suspect,    \* history: notes whose article was written or torn by a run
              \* that did not record it
  runs, edits

disk  == <<wiki, manifest, index>>
local == <<force, todo, note, seen, man, summaries>>
vars  == <<vault, disk, pc, local, report, suspect, runs, edits>>

With(f, x, y) == [z \in DOMAIN f \cup {x} |-> IF z = x THEN y ELSE f[z]]

Working == {"next", "llm", "writing", "index", "indexing", "manifest", "saving"}

Fresh == [compiled |-> {}, cached |-> {}, failed |-> {}]

Init == /\ vault \in [Paths -> Bodies]
        /\ wiki = <<>> /\ manifest = <<>> /\ index = <<>>
        /\ pc = "done"
        /\ force = FALSE /\ todo = {} /\ note \in Paths /\ seen = <<>> /\ man = <<>> /\ summaries = <<>>
        /\ report = Fresh
        /\ suspect = {}
        /\ runs = 0 /\ edits = 0

-----------------------------------------------------------------------------
(* A run.                                                                  *)

\* Fault: a forced run starts from the old manifest.
Begin_KeepManifest ==
  /\ pc \notin Working
  /\ runs < MaxRuns
  /\ runs' = runs + 1
  /\ force' \in BOOLEAN
  /\ man' = manifest
  /\ todo' = {n \in Paths : vault[n] # Absent}
  /\ seen' = <<>> /\ summaries' = <<>>
  /\ report' = Fresh
  /\ pc' = "next"
  /\ UNCHANGED <<vault, disk, note, suspect, edits>>

Begin ==
  /\ pc \notin Working
  /\ runs < MaxRuns
  /\ runs' = runs + 1
  /\ force' \in BOOLEAN
  /\ man' = IF force' THEN <<>> ELSE manifest
  /\ todo' = {n \in Paths : vault[n] # Absent}
  /\ seen' = <<>> /\ summaries' = <<>>
  /\ report' = Fresh
  /\ pc' = "next"
  /\ UNCHANGED <<vault, disk, note, suspect, edits>>

\* Fault: the hash is not looked at.
Hit_AnyArticle(n) == /\ ~force
                     /\ n \in DOMAIN man
                     /\ FileOf[n] \in DOMAIN wiki

Hit(n) == /\ ~force
          /\ n \in DOMAIN man
          /\ man[n] = vault[n]
          /\ FileOf[n] \in DOMAIN wiki

\* The next note is read and either found in the cache or sent to the model.
Visit ==
  /\ pc = "next"
  /\ \E n \in todo :
       /\ \A m \in todo : Rank[n] <= Rank[m]
       /\ vault[n] # Absent
       /\ note' = n
       /\ todo' = todo \ {n}
       /\ seen' = With(seen, n, vault[n])
       /\ \/ /\ Hit(n)
             /\ summaries' = With(summaries, n, wiki[FileOf[n]])
             /\ report' = [report EXCEPT !.cached = @ \cup {n}]
             /\ UNCHANGED pc
          \/ /\ ~Hit(n)
             /\ pc' = "llm"
             /\ UNCHANGED <<summaries, report>>
  /\ UNCHANGED <<vault, disk, force, man, suspect, runs, edits>>

\* An exception inside the note's try block: reported, and on to the next note.
NoteFails ==
  /\ report' = [report EXCEPT !.failed = @ \cup {note}]
  /\ pc' = "next"
  /\ UNCHANGED <<vault, disk, local, runs, edits>>

LlmFails == pc = "llm" /\ NoteFails /\ UNCHANGED suspect

\* write_text opens the file, which empties it, and then writes.
OpenArticle ==
  /\ pc = "llm"
  /\ wiki' = With(wiki, FileOf[note], [note |-> note, body |-> Torn])
  /\ pc' = "writing"
  /\ UNCHANGED <<vault, manifest, index, local, report, suspect, runs, edits>>

WriteFails == /\ pc = "writing"
              /\ NoteFails
              /\ suspect' = suspect \cup {note}

CloseArticle ==
  /\ pc = "writing"
  /\ LET article == [note |-> note, body |-> seen[note]] IN
       /\ wiki' = With(wiki, FileOf[note], article)
       /\ summaries' = With(summaries, note, article)
  /\ man' = With(man, note, seen[note])
  /\ report' = [report EXCEPT !.compiled = @ \cup {note}]
  /\ pc' = "next"
  /\ UNCHANGED <<vault, manifest, index, force, todo, note, seen, suspect, runs, edits>>

\* All notes visited: the index is remade only if some article survived.
NotesDone ==
  /\ pc = "next"
  /\ todo = {}
  /\ pc' = IF summaries = <<>> THEN "manifest" ELSE "index"
  /\ UNCHANGED <<vault, disk, local, report, suspect, runs, edits>>

OpenIndex ==
  /\ pc = "index"
  /\ index' = <<>>
  /\ pc' = "indexing"
  /\ UNCHANGED <<vault, wiki, manifest, local, report, suspect, runs, edits>>

\* By the model, or by _stub_index when the model fails: from the same list.
CloseIndex ==
  /\ pc = "indexing"
  /\ index' = summaries
  /\ pc' = "manifest"
  /\ UNCHANGED <<vault, wiki, manifest, local, report, suspect, runs, edits>>

\* A manifest that has been opened and not written does not parse, and the
\* next run ignores it.
OpenManifest ==
  /\ pc = "manifest"
  /\ manifest' = <<>>
  /\ pc' = "saving"
  /\ UNCHANGED <<vault, wiki, index, local, report, suspect, runs, edits>>

\* The run returns: what it compiled is now on record, and a forced run has
\* forgotten everything else.
Return ==
  /\ pc = "saving"
  /\ manifest' = man
  /\ pc' = "done"
  /\ suspect' = IF force THEN {} ELSE suspect \ report.compiled
  /\ UNCHANGED <<vault, wiki, index, local, report, runs, edits>>

\* The process dies, or an exception leaves compile_vault: reading a note is
\* outside the try block, and a note may be gone by the time it is read.
Stop ==
  /\ pc \in Working
  /\ pc' = "dead"
  /\ suspect' = suspect \cup report.compiled
                        \cup (IF pc = "writing" THEN {note} ELSE {})
  /\ UNCHANGED <<vault, disk, local, report, runs, edits>>

-----------------------------------------------------------------------------
(* The owner of the vault and of the output directory.                     *)

Edit ==
  /\ edits < MaxEdits
  /\ edits' = edits + 1
  /\ \E n \in Paths, b \in Bodies \cup {Absent} :
       b # vault[n] /\ vault' = [vault EXCEPT ![n] = b]
  /\ UNCHANGED <<disk, pc, local, report, suspect, runs>>

\* An article file is deleted between two runs.
Tidy ==
  /\ pc \notin Working
  /\ edits < MaxEdits
  /\ edits' = edits + 1
  /\ \E f \in DOMAIN wiki : wiki' = [g \in DOMAIN wiki \ {f} |-> wiki[g]]
  /\ UNCHANGED <<vault, manifest, index, pc, local, report, suspect, runs>>

Run == \/ Visit \/ LlmFails \/ OpenArticle \/ WriteFails \/ CloseArticle
       \/ NotesDone \/ OpenIndex \/ CloseIndex \/ OpenManifest \/ Return

Next == Begin \/ Run \/ Stop \/ Edit \/ Tidy

Spec == Init /\ [][Next]_vars

-----------------------------------------------------------------------------
(* Properties.                                                             *)

MadeFrom(n, a) == a = [note |-> n, body |-> seen[n]]

\* A note found in the cache gets the article made from the body it has now,
\* except if an interrupted run or a failed write touched its article and no
\* run has recorded it since: the damage stays with the notes that met it.
CacheTruthUnlessSuspect ==
  \A n \in report.cached \ suspect : MadeFrom(n, summaries[n])

\* A forced run that returns leaves nothing behind of what went wrong before
\* it: what its manifest names is what its articles were made from.
ForceRepairs ==
  pc = "done" /\ force =>
    \A n \in DOMAIN manifest :
      FileOf[n] \in DOMAIN wiki => wiki[FileOf[n]] = [note |-> n, body |-> manifest[n]]
=============================================================================
