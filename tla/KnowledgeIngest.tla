--------------------------- MODULE KnowledgeIngest ---------------------------
(***************************************************************************)
(* scripts/ingest_knowledge.py: one run after the other, each with its own *)
(* settings and options, writes the ATT&CK documents to the collection in  *)
(* batches and notes in a checkpoint file which ids are done.  A run may   *)
(* end between any two of its steps.                                       *)
(*                                                                         *)
(* A document is its memory id; a vector is what it was computed from: the *)
(* embedding model, "random" in demo mode, and the ATT&CK version.         *)
(***************************************************************************)
EXTENDS VectorMemory, Sequences

LOCAL INSTANCE SequencesExt

CONSTANTS
  DomainDocs,  \* all_documents of each ATT&CK domain, in their order
  Configs,     \* settings and options of the runs
  BatchSize,   \* BATCH_SIZE, 10
  MaxRuns,     \* bound on runs of the script
  MaxAborts    \* bound on runs that end in the middle

VARIABLES
  script,   \* the running or last run: its program counter, settings and locals
  file,     \* data/ingest_checkpoint.json: None, or its fingerprint and ids
  runs,     \* runs begun
  aborts,   \* runs that ended in the middle
  embedded, \* ghost: how often each id was embedded since the checkpoint began anew
  torn      \* ghost: the collection was changed and the file not brought along

ASSUME IngestAssumption ==
  /\ BatchSize \in Nat \ {0} /\ {MaxRuns, MaxAborts} \subseteq Nat
  /\ None \notin Configs /\ None \notin Collections

ingestVars == <<script, file, runs, aborts, embedded, torn>>

\* The documents of the domains in order, the first limit of them.
DocsOf(c) ==
  LET all == FlattenSeq([i \in DOMAIN c.domains |-> DomainDocs[c.domains[i]]])
  IN  {all[i] : i \in {j \in DOMAIN all : j <= c.limit}}

\* Faulty: whatever the settings, it is the same file.
FingerprintOfDomains(c) == [domains |-> c.domains]

\* Neither the demo mode nor the ATT&CK version is part of it.
Fingerprint(c) == [domains |-> c.domains, model |-> c.model, size |-> c.size]

VectorOf(c) == [model |-> IF c.demo THEN "random" ELSE c.model, version |-> c.version]

\* Every configuration selects documents and has a vector size; a checkpoint is
\* not None.
ASSUME ConfigAssumption ==
  \A c \in Configs : /\ DocsOf(c) \subseteq Ids /\ VectorOf(c) \in Vectors
                      /\ c.size \in Sizes /\ {c.demo, c.clear} \subseteq BOOLEAN
                      /\ \A ids \in SUBSET Ids : None # [print |-> Fingerprint(c), ids |-> ids]

Pcs == {"idle", "open", "clear", "reopen", "unlink", "load", "embed", "upsert", "write",
        "save", "done", "failed"}

Ended == {"idle", "done", "failed"}

NeverEmbedded == [i \in Ids |-> 0]

IngestInit ==
  /\ script = [pc |-> "idle", cfg |-> None, completed |-> {}, pending |-> {}, batch |-> {}]
  /\ file = None
  /\ runs = 0 /\ aborts = 0
  /\ embedded = NeverEmbedded /\ torn = FALSE

Goto(pc) == script' = [script EXCEPT !.pc = pc]

StartRun(c) ==
  /\ script.pc \in Ended /\ runs < MaxRuns
  /\ script' = [pc |-> "open", cfg |-> c, completed |-> {}, pending |-> {}, batch |-> {}]
  /\ runs' = runs + 1
  /\ UNCHANGED <<file, aborts, embedded, torn, storeVars>>

Ensuring == script.pc \in {"open", "reopen", "upsert"}

Look ==
  /\ Ensuring
  /\ EnsureLooks("script")
  /\ UNCHANGED ingestVars

\* ensure_collection returns: at the start, after --clear's deletion and
\* within batch_upsert.
Open ==
  /\ Ensuring
  /\ EnsureReturns("script", script.cfg.size)
  /\ Goto(CASE script.pc = "open"   -> IF script.cfg.clear THEN "clear" ELSE "load"
            [] script.pc = "reopen" -> "unlink"
            [] script.pc = "upsert" -> "write")
  /\ UNCHANGED <<file, runs, aborts, embedded, torn>>

OpenRaises ==
  /\ Ensuring
  /\ EnsureRaises("script", script.cfg.size)
  /\ Goto("failed")
  /\ UNCHANGED <<file, runs, aborts, embedded, torn>>

\* --clear deletes the collection, then the checkpoint file.
Clear ==
  /\ script.pc = "clear"
  /\ DropCollection
  /\ Goto("reopen")
  /\ torn' = TRUE
  /\ UNCHANGED <<file, runs, aborts, embedded>>

\* The file is gone, and what it said with it.
Unlink ==
  /\ script.pc = "unlink"
  /\ file' = None /\ torn' = FALSE /\ embedded' = NeverEmbedded
  /\ Goto("load")
  /\ UNCHANGED <<runs, aborts, storeVars>>

NextBatch(pending) == IF pending = {} THEN "done" ELSE "embed"

\* Faulty: the documents already stored are done again.
LoadNothing ==
  /\ script.pc = "load"
  /\ LET pending == DocsOf(script.cfg)
     IN  script' = [script EXCEPT !.pending = pending, !.pc = NextBatch(pending)]
  /\ UNCHANGED <<file, runs, aborts, embedded, torn, storeVars>>

OwnFile == file # None /\ file.print = Fingerprint(script.cfg)
OtherFile == file # None /\ file.print # Fingerprint(script.cfg)

\* The ids of a checkpoint with this run's fingerprint are done; one with
\* another fingerprint is passed over, and replaced at the first save.
Load ==
  /\ script.pc = "load"
  /\ LET completed == IF OwnFile THEN file.ids ELSE {}
         pending   == DocsOf(script.cfg) \ completed
     IN  script' = [script EXCEPT !.completed = completed, !.pending = pending,
                                  !.pc = NextBatch(pending)]
  /\ embedded' = IF OtherFile THEN NeverEmbedded ELSE embedded
  /\ UNCHANGED <<file, runs, aborts, torn, storeVars>>

\* Faulty: the last batch takes all that is left.
EmbedTheRest ==
  /\ script.pc = "embed"
  /\ script' = [script EXCEPT !.pc = "upsert", !.batch = script.pending]
  /\ embedded' = [i \in Ids |-> embedded[i] + IF i \in script.pending THEN 1 ELSE 0]
  /\ UNCHANGED <<file, runs, aborts, torn, storeVars>>

\* The vectors of the next documents (their order is left open).
Embed ==
  /\ script.pc = "embed"
  /\ \E batch \in SUBSET script.pending :
       /\ batch = script.pending \/ Cardinality(batch) = BatchSize
       /\ Cardinality(batch) <= BatchSize
       /\ script' = [script EXCEPT !.pc = "upsert", !.batch = batch]
       /\ embedded' = [i \in Ids |-> embedded[i] + IF i \in batch THEN 1 ELSE 0]
  /\ UNCHANGED <<file, runs, aborts, torn, storeVars>>

\* ModelGatewayError: sys.exit(1).
EmbedFails ==
  /\ script.pc = "embed" /\ ~script.cfg.demo
  /\ Goto("failed")
  /\ UNCHANGED <<file, runs, aborts, embedded, torn, storeVars>>

Write ==
  /\ script.pc = "write"
  /\ PutPoints(script.batch, VectorOf(script.cfg))
  /\ Goto("save")
  /\ torn' = (torn \/ OtherFile)
  /\ UNCHANGED <<file, runs, aborts, embedded>>

\* Faulty: the file says more than the run has written.
SaveAll ==
  /\ script.pc = "save"
  /\ LET completed == script.completed \cup script.pending
         pending   == script.pending \ script.batch
     IN  /\ script' = [script EXCEPT !.completed = completed, !.pending = pending,
                                     !.batch = {}, !.pc = NextBatch(pending)]
         /\ file' = [print |-> Fingerprint(script.cfg), ids |-> completed]
  /\ torn' = (torn /\ script.completed # {})
  /\ UNCHANGED <<runs, aborts, embedded, storeVars>>

\* A temporary file replaces the checkpoint: the step is atomic.
Save ==
  /\ script.pc = "save"
  /\ LET completed == script.completed \cup script.batch
         pending   == script.pending \ script.batch
     IN  /\ script' = [script EXCEPT !.completed = completed, !.pending = pending,
                                     !.batch = {}, !.pc = NextBatch(pending)]
         /\ file' = [print |-> Fingerprint(script.cfg), ids |-> completed]
  /\ torn' = (torn /\ script.completed # {})
  /\ UNCHANGED <<runs, aborts, embedded, storeVars>>

\* The run ends here: killed, or by an error of the server or the disk.
Abort ==
  /\ script.pc \notin Ended /\ aborts < MaxAborts
  /\ aborts' = aborts + 1
  /\ Goto("failed")
  /\ Leave("script")
  /\ UNCHANGED <<file, runs, embedded, torn>>

Work == Look \/ Open \/ OpenRaises \/ Clear \/ Unlink \/ Load \/ Embed \/ Write \/ Save

IngestNext == (\E c \in Configs : StartRun(c)) \/ Work \/ EmbedFails \/ Abort
=============================================================================
