---------------------------- MODULE InputIngest -----------------------------
(***************************************************************************)
(* InputIngestor.ingest (ingest.py): the attachments of a task are copied  *)
(* one after the other into the workspace of the run and listed as its     *)
(* artifacts.  An attempt may end with the process, or be refused; while   *)
(* the run has no workspace in its state, a recovery or an answer makes    *)
(* its graph ingest again, into the same directory, and an operator may    *)
(* meanwhile edit or remove the files that the attachments name.           *)
(*                                                                         *)
(* A path is the sequence of its parts, a content is a value that stands   *)
(* for the bytes and for their sha256.                                     *)
(***************************************************************************)
EXTENDS Integers, FiniteSets, SequencesExt

CONSTANTS
  Lists,      \* the attachment lists a task may have
  Sources,    \* the files that attachments name or hold
  Contents,
  MaxReplays, \* bound on further attempts of the same run
  MaxEdits    \* bound on edits and removals of a source file

Entry == [source : Sources, below : Seq(STRING), link : BOOLEAN]

\* kind: a file, a directory, an archive, or a reference that is refused as a
\* whole (unknown, outside the roots, over a limit, an unacceptable archive).
\* name: what it is called in the workspace.  entries: its files, with their
\* paths below that name, none for a single file.
Attachment ==
  [kind : {"file", "dir", "zip", "refused"}, name : STRING, entries : Seq(Entry)]

ASSUME InputAssumption ==
  /\ Lists \subseteq Seq(Attachment)
  /\ \A list \in Lists : \A i \in DOMAIN list : \A k \in DOMAIN list[i].entries :
       list[i].kind = "file" => list[i].entries[k].below = <<>>
  /\ MaxReplays \in Nat /\ MaxEdits \in Nat

VARIABLES
  list,      \* the task's attachments, as they are in the input roots
  stored,    \* the content of each source
  phase,     \* "idle", "copying", "done", "refused", "raised"
  at,        \* the attachment that is copied, and the entry of it
  workspace, \* path |-> content
  artifacts, \* the InputArtifacts listed so far: [path, content]
  gone,      \* history: paths at which attempts put files that were removed since
  replays,
  edits

ingestVars == <<list, stored, phase, at, workspace, artifacts, gone, replays, edits>>

IngestInit ==
  /\ list \in Lists
  /\ stored = [s \in Sources |-> s]
  /\ phase = "idle" /\ at = <<1, 1>>
  /\ workspace = <<>> /\ artifacts = <<>> /\ gone = {}
  /\ replays = 0 /\ edits = 0

Ends(verdict) ==
  /\ phase' = verdict
  /\ UNCHANGED <<list, stored, at, workspace, artifacts, gone, replays, edits>>

Begin ==
  /\ phase = "idle"
  /\ phase' = "copying" /\ at' = <<1, 1>> /\ artifacts' = <<>>
  /\ UNCHANGED <<list, stored, workspace, gone, replays, edits>>

\* A file of the attachments: attachment and entry.
EntryAt(f) == list[f[1]].entries[f[2]]

TargetOf(f) == <<list[f[1]].name>> \o EntryAt(f).below

\* Where copy2 puts it when its target is a directory.
InsideTarget(f) == Append(TargetOf(f), EntryAt(f).source)

IsDir(path) ==
  \E p \in DOMAIN workspace : Len(p) > Len(path) /\ SubSeq(p, 1, Len(path)) = path

\* A file stands where a directory of the path should be.
ParentIsFile(path) ==
  \E n \in 1..(Len(path) - 1) : SubSeq(path, 1, n) \in DOMAIN workspace

\* The workspace once a file is written, or written over.
Written(path, content) ==
  [p \in DOMAIN workspace \cup {path} |-> IF p = path THEN content ELSE workspace[p]]

Copying == phase = "copying" /\ at[1] <= Len(list)

Current == list[at[1]]

AtEntry == Copying /\ Current.kind # "refused" /\ at[2] <= Len(Current.entries)

\* IngestError before the attachment is touched, or at a link in a directory.
\* (A broken archive raises an exception of zipfile here, to the same effect.)
Refuse ==
  /\ Copying
  /\ Current.kind = "refused" \/ (AtEntry /\ Current.kind = "dir" /\ EntryAt(at).link)
  /\ Ends("refused")

\* Faulty: the hash is the one the source had when the task was submitted.
CopySourceHash ==
  /\ AtEntry /\ ~EntryAt(at).link
  /\ ~ParentIsFile(TargetOf(at)) /\ ~IsDir(TargetOf(at))
  /\ workspace' = Written(TargetOf(at), stored[EntryAt(at).source])
  /\ artifacts' = Append(artifacts, [path |-> TargetOf(at), content |-> EntryAt(at).source])
  /\ at' = <<at[1], at[2] + 1>>
  /\ UNCHANGED <<list, stored, phase, gone, replays, edits>>

\* One file is written and listed with the hash of what was written.
Copy ==
  /\ AtEntry /\ ~EntryAt(at).link
  /\ ~ParentIsFile(TargetOf(at)) /\ ~IsDir(TargetOf(at))
  /\ workspace' = Written(TargetOf(at), stored[EntryAt(at).source])
  /\ artifacts' =
       Append(artifacts, [path |-> TargetOf(at), content |-> workspace'[TargetOf(at)]])
  /\ at' = <<at[1], at[2] + 1>>
  /\ UNCHANGED <<list, stored, phase, gone, replays, edits>>

\* A file meets a directory or a directory a file: OSError out of the node.
\* copy2 then has put its file inside the directory, if it could.
Clash ==
  /\ AtEntry /\ ~EntryAt(at).link
  /\ ParentIsFile(TargetOf(at)) \/ IsDir(TargetOf(at))
  /\ workspace' =
       IF Current.kind = "zip" \/ ParentIsFile(TargetOf(at)) \/ IsDir(InsideTarget(at))
         THEN workspace
         ELSE Written(InsideTarget(at), stored[EntryAt(at).source])
  /\ phase' = "raised"
  /\ UNCHANGED <<list, stored, at, artifacts, gone, replays, edits>>

\* Faulty: the position in the entries is not reset.
NextAttachmentSamePlace ==
  /\ Copying /\ Current.kind # "refused" /\ at[2] > Len(Current.entries)
  /\ at' = <<at[1] + 1, at[2]>>
  /\ UNCHANGED <<list, stored, phase, workspace, artifacts, gone, replays, edits>>

NextAttachment ==
  /\ Copying /\ Current.kind # "refused" /\ at[2] > Len(Current.entries)
  /\ at' = <<at[1] + 1, 1>>
  /\ UNCHANGED <<list, stored, phase, workspace, artifacts, gone, replays, edits>>

\* ingest returns and its node stores the workspace and the artifacts.
Finish ==
  /\ phase = "copying" /\ at[1] > Len(list)
  /\ Ends("done")

\* The graph starts over without a workspace in its state: after a crash in the
\* attempt, or when a run whose attempt was refused is recovered or answered.  An
\* exception ends the run in its first task, but not in one that recovers it.
Replay ==
  /\ replays < MaxReplays
  /\ phase \in {"copying", "refused"} \/ (phase = "raised" /\ replays > 0)
  /\ phase' = "idle" /\ replays' = replays + 1
  /\ UNCHANGED <<list, stored, at, workspace, artifacts, gone, edits>>

\* The operator edits a file under the input root.
Edit ==
  /\ edits < MaxEdits
  /\ \E s \in Sources, c \in Contents : stored' = [stored EXCEPT ![s] = c]
  /\ edits' = edits + 1
  /\ UNCHANGED <<list, phase, at, workspace, artifacts, gone, replays>>

\* The operator removes file k of attachment i, which the attempt under way has
\* not come to.  What earlier attempts copied of it stays in the workspace.
RemoveFile(i, k) ==
  /\ edits < MaxEdits /\ phase # "done" /\ (phase = "copying" => i > at[1])
  /\ list' = [list EXCEPT ![i].entries = RemoveAt(@, k),
                          ![i].kind = IF @ = "file" THEN "refused" ELSE @]
  /\ gone' = gone \cup ({TargetOf(<<i, k>>), InsideTarget(<<i, k>>)} \cap DOMAIN workspace)
  /\ edits' = edits + 1
  /\ UNCHANGED <<stored, phase, at, workspace, artifacts, replays>>

IngestNext ==
  \/ Begin \/ Refuse \/ Copy \/ Clash \/ NextAttachment \/ Finish \/ Replay \/ Edit
  \/ \E i \in DOMAIN list : \E k \in DOMAIN list[i].entries : RemoveFile(i, k)

IngestSpec == IngestInit /\ [][IngestNext]_ingestVars
-----------------------------------------------------------------------------
IngestTypeOK ==
  /\ list \in Seq(Attachment)
  /\ stored \in [Sources -> Sources \cup Contents]
  /\ phase \in {"idle", "copying", "done", "refused", "raised"}
  /\ at \in (1..(Len(list) + 1)) \X (Nat \ {0})
  /\ Copying => at[2] <= Len(Current.entries) + 1
  /\ \A p \in DOMAIN workspace : workspace[p] \in Sources \cup Contents
  /\ artifacts \in Seq([path : Seq(STRING), content : Sources \cup Contents])
  /\ gone \subseteq DOMAIN workspace
  /\ replays \in 0..MaxReplays /\ edits \in 0..MaxEdits

Files == UNION {{i} \X (1..Len(list[i].entries)) : i \in 1..Len(list)}

\* The files that come before file f, in the order in which they are copied.
Before(f) == {g \in Files : g[1] < f[1] \/ (g[1] = f[1] /\ g[2] < f[2])}

Place(f) == Cardinality(Before(f)) + 1

\* Nothing listed further on has the path of artifact i.
IsLatest(i) ==
  \A j \in (i + 1)..Len(artifacts) : artifacts[j].path # artifacts[i].path

\* What ingest returns agrees with the workspace, although an earlier attempt and
\* an operator's edit may have left other versions there.  Every file of the
\* attachments is listed, once and in order; the workspace has what is listed,
\* and beyond it at most files that were removed between the attempts; the latest
\* artifact of a path describes the file that is there.  (An earlier one of the
\* same path has the hash of a file that was overwritten.)
InventoryMatches ==
  phase = "done" =>
    /\ Len(artifacts) = Cardinality(Files)
    /\ \A f \in Files : artifacts[Place(f)].path = TargetOf(f)
    /\ \A i \in DOMAIN artifacts : artifacts[i].path \in DOMAIN workspace
    /\ \A p \in DOMAIN workspace : p \in gone \/ \E f \in Files : p = TargetOf(f)
    /\ \A i \in DOMAIN artifacts :
         IsLatest(i) => artifacts[i].content = workspace[artifacts[i].path]
=============================================================================
