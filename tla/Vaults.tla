-------------------------------- MODULE Vaults --------------------------------
(***************************************************************************)
(* The notes of one vault: the handlers of PUT and DELETE on a note, each  *)
(* a sequence of file system calls that nothing serialises, and POST       *)
(* /api/vaults, whose directory is there before it is set up.              *)
(*                                                                         *)
(* A note is its text and the `cid` of its frontmatter, the hash of the    *)
(* text below the frontmatter (the text itself here).  A file that is      *)
(* being written over is empty in between.  Every jj command snapshots the *)
(* working copy, and may fail.                                             *)
(*                                                                         *)
(* Abstracted: folders, titles, links, the fields of the frontmatter, and  *)
(* the reads that derive trees, graphs and collections from the files.     *)
(***************************************************************************)
EXTENDS Naturals, FiniteSets

CONSTANTS
  Writer,      \* the handlers
  NotePath,    \* paths that name notes
  Text,        \* texts of notes
  NoNote,      \* no file, no text, no expected cid
  IoFails      \* whether writes and jj commands may fail

\* inject_content_hash, and note_document of what it has written
Addressed(text) == [text |-> text, cid |-> text]
Truncated == [text |-> NoNote, cid |-> NoNote]
Notes == {Addressed(t) : t \in Text} \cup {Truncated}

ASSUME VaultAssumption == NoNote \notin Text \cup Notes /\ IoFails \in BOOLEAN

VARIABLES
  vault,       \* "none", "made" (its directory), "ready"
  file,        \* [NotePath -> note or NoNote]
  asked,       \* [Writer -> the request]
  step,        \* [Writer -> where its handler is]
  was,         \* history: [Writer -> file, when its handler began], but NoNote
               \* when another handler has overlapped it
  broken,      \* history: handlers that an I/O error or a jj error ended
  wiped        \* history: the set-up of the vault has failed

vaultVars == <<vault, file, asked, step, was, broken, wiped>>

-----------------------------------------------------------------------------
(***************************************************************************)
(* Requests.                                                               *)
(***************************************************************************)
NoteRequest(do, p, q, t, create, cid) ==
  [do |-> do, path |-> p, target |-> q, text |-> t, create |-> create, cid |-> cid]
WriteRequest(p, q, t, create, cid) == NoteRequest("write", p, q, t, create, cid)
\* A creation names no base: one that did would be refused.
Requests ==
  {WriteRequest(p, q, t, TRUE, NoNote) : p, q \in NotePath, t \in Text \cup {NoNote}}
  \cup {WriteRequest(p, q, t, FALSE, e) : p, q \in NotePath, t, e \in Text \cup {NoNote}}
  \cup {NoteRequest("delete", p, p, NoNote, FALSE, NoNote) : p \in NotePath}

Exists(p) == file[p] # NoNote
Moves(w)  == asked[w].target # asked[w].path

Running == {w \in Writer : step[w] \notin {"idle", "ok", "refused"}}

Steps(w, from, to) == step[w] = from /\ step' = [step EXCEPT ![w] = to]
IoError(w, from) == IoFails /\ Steps(w, from, "refused") /\ broken' = broken \cup {w}

VaultsInit ==
  /\ vault \in {"none", "ready"}
  /\ file \in [NotePath -> Notes \cup {NoNote}]
  /\ \A p \in NotePath : file[p] # Truncated /\ (vault = "none" => file[p] = NoNote)
  /\ asked = [w \in Writer |-> NoNote] /\ step = [w \in Writer |-> "idle"]
  /\ was = [w \in Writer |-> NoNote] /\ broken = {} /\ wiped = FALSE

-----------------------------------------------------------------------------
(***************************************************************************)
(* create_vault: the directory, unique by create_dir; then the metadata    *)
(* and jj, and when those fail, the directory goes with what is in it.     *)
(***************************************************************************)
CreateVault ==
  /\ \/ vault = "none" /\ vault' = "made" /\ UNCHANGED <<file, wiped>>
     \/ vault = "made" /\ vault' = "ready" /\ UNCHANGED <<file, wiped>>
     \/ /\ IoFails /\ vault = "made" /\ vault' = "none" /\ wiped' = TRUE
        /\ file' = [p \in NotePath |-> NoNote]
  /\ UNCHANGED <<asked, step, was, broken>>

-----------------------------------------------------------------------------
(***************************************************************************)
(* write_note.                                                             *)
(***************************************************************************)
\* The paths are valid, the vault exists.
BeginNote(w) ==
  /\ vault # "none" /\ step[w] = "idle"
  /\ \E r \in Requests :
       /\ asked' = [asked EXCEPT ![w] = r]
       /\ step' = [step EXCEPT ![w] = IF r.do = "delete" THEN "find" ELSE "base"]
  /\ was' = IF Running = {} THEN [was EXCEPT ![w] = file]
            ELSE [v \in Writer |-> IF v \in Running THEN NoNote ELSE was[v]]
  /\ UNCHANGED <<vault, file, broken, wiped>>

\* The note has the cid that the draft was based on.
CheckBase(w) ==
  LET e == asked[w].cid IN
  /\ Steps(w, "base", IF e = NoNote \/ (Exists(asked[w].path) /\ file[asked[w].path].cid = e)
                      THEN "free" ELSE "refused")
  /\ UNCHANGED <<vault, file, asked, was, broken, wiped>>

\* Neither path is taken, for a creation; the target is free, for a rename.
CheckFree(w) ==
  LET taken == \/ asked[w].create /\ Exists(asked[w].path)
               \/ (asked[w].create \/ Moves(w)) /\ Exists(asked[w].target)
  IN  /\ Steps(w, "free", IF taken THEN "refused" ELSE "move")
      /\ UNCHANGED <<vault, file, asked, was, broken, wiped>>

\* rename replaces what is at the target by then.
MoveNote(w) ==
  /\ Steps(w, "move", "write")
  /\ file' = IF Moves(w) /\ Exists(asked[w].path)
             THEN [file EXCEPT ![asked[w].target] = file[asked[w].path],
                               ![asked[w].path] = NoNote]
             ELSE file
  /\ UNCHANGED <<vault, asked, was, broken, wiped>>

\* Fault: a creation opens the file like any write.
OpensAnyway(r) == TRUE

\* A creation opens with create_new.
Opens(r) == ~(r.create /\ Exists(r.target))

\* Without a text there has to be a note; a write over a note empties it first.
OpenNote(w) ==
  LET r == asked[w] IN
  /\ step[w] = "write" /\ UNCHANGED broken
  /\ \/ /\ r.text = NoNote /\ UNCHANGED file
        /\ Steps(w, "write", IF Exists(r.target) THEN "snapshot" ELSE "refused")
     \/ r.text # NoNote /\ ~Opens(r) /\ Steps(w, "write", "refused") /\ UNCHANGED file
     \/ /\ r.text # NoNote /\ Opens(r) /\ Steps(w, "write", "fill")
        /\ file' = [file EXCEPT ![r.target] = Truncated]

\* The text is written to the open file, which another handler may have
\* removed or replaced since; a creation that fails removes the file.
FillNote(w) ==
  LET r == asked[w] IN
  \/ /\ Steps(w, "fill", "snapshot") /\ UNCHANGED broken
     /\ file' = IF Exists(r.target) THEN [file EXCEPT ![r.target] = Addressed(r.text)] ELSE file
  \/ /\ IoError(w, "fill")
     /\ file' = IF r.create THEN [file EXCEPT ![r.target] = NoNote] ELSE file

\* Fault: a creation that jj refuses leaves its file.
SnapshotKeeping(w) ==
  \/ Steps(w, "snapshot", "ok") /\ UNCHANGED <<file, broken>>
  \/ IoError(w, "snapshot") /\ UNCHANGED file

\* jj describe; a creation that it refuses is removed. Then the note is read.
Snapshot(w) ==
  LET r == asked[w] IN
  \/ /\ Steps(w, "snapshot", IF r.do = "delete" \/ Exists(r.target) THEN "ok" ELSE "refused")
     /\ UNCHANGED <<file, broken>>
  \/ /\ IoError(w, "snapshot")
     /\ file' = IF r.create THEN [file EXCEPT ![r.target] = NoNote] ELSE file

\* delete_note
DeleteNote(w) ==
  \/ /\ Steps(w, "find", IF Exists(asked[w].path) THEN "remove" ELSE "refused")
     /\ UNCHANGED <<file, broken>>
  \/ /\ Steps(w, "remove", IF Exists(asked[w].path) THEN "snapshot" ELSE "refused")
     /\ file' = [file EXCEPT ![asked[w].path] = NoNote] /\ UNCHANGED broken

WriteStep(w) ==
  /\ OpenNote(w) \/ FillNote(w) \/ Snapshot(w) \/ DeleteNote(w)
  /\ UNCHANGED <<vault, asked, was, wiped>>

VaultsNext ==
  \/ CreateVault
  \/ \E w \in Writer : BeginNote(w) \/ CheckBase(w) \/ CheckFree(w) \/ MoveNote(w) \/ WriteStep(w)

VaultsSpec == VaultsInit /\ [][VaultsNext]_vaultVars

-----------------------------------------------------------------------------
(***************************************************************************)
(* Properties.                                                             *)
(***************************************************************************)
\* Every variable has its type.
VaultsTypeOK ==
  /\ vault \in {"none", "made", "ready"} /\ file \in [NotePath -> Notes \cup {NoNote}]
  /\ asked \in [Writer -> Requests \cup {NoNote}]
  /\ step \in [Writer -> {"idle", "base", "free", "move", "write", "fill", "find", "remove",
                          "snapshot", "ok", "refused"}]
  /\ was \in [Writer -> [NotePath -> Notes \cup {NoNote}] \cup {NoNote}]
  /\ broken \subseteq Writer /\ wiped \in BOOLEAN

\* One without a text that overlaps another takes its note for its own.
Creates(w) ==
  asked[w].do = "write" /\ asked[w].create /\ asked[w].text # NoNote /\ ~Moves(w)
Created(w, p) == step[w] = "ok" /\ asked[w].target = p

\* Creations race for a path, and at most one succeeds ("note already exists",
\* vault.rs): its note is there, whatever became of the others.
CreatesAreExact ==
  ~wiped /\ (\A w \in Writer : step[w] # "idle" => Creates(w)) =>
    \A w \in Writer : \A p \in NotePath : Created(w, p) =>
      /\ file[p] = Addressed(asked[w].text)
      /\ \A v \in Writer : Created(v, p) => v = w

\* A request that a check has refused, or a creation that has failed, has
\* changed nothing when nothing overlapped it.
RefusalUnseen ==
  \A w \in Writer :
    was[w] # NoNote /\ step[w] # "refused" /\ step'[w] = "refused"
      /\ (w \notin broken' \/ Creates(w)) /\ ~wiped
    => file' = was[w]
RefusedIsUnseen == [][RefusalUnseen]_vaultVars
=============================================================================
