---------------------------- MODULE KnowledgeBase ----------------------------
(***************************************************************************)
(* The knowledge base as a whole: the ingestion script fills a collection  *)
(* that agents and consoles search at the same time.                       *)
(***************************************************************************)
EXTENDS KnowledgeIngest, KnowledgeSearch

\* The ingestion script is a process of its own.
ASSUME ProcessAssumption == "script" \notin Searchers

vars == <<storeVars, ingestVars, searchVars>>

Init == StoreInit /\ IngestInit /\ SearchInit

Next == \/ IngestNext /\ UNCHANGED searchVars
        \/ SearchNext /\ UNCHANGED ingestVars

Spec == Init /\ [][Next]_vars
-----------------------------------------------------------------------------
TypeOK ==
  /\ collection \in Collections \cup {None}
  /\ creating \subseteq Searchers \cup {"script"}
  /\ script.pc \in Pcs /\ script.cfg \in Configs \cup {None}
  /\ script.cfg = None <=> script.pc = "idle"
  /\ {script.completed, script.pending, script.batch} \subseteq SUBSET Ids
  /\ script.batch \subseteq script.pending /\ Cardinality(script.batch) <= BatchSize
  /\ file # None => file.ids \subseteq Ids
  /\ runs \in 0..MaxRuns /\ aborts \in 0..MaxAborts
  /\ embedded \in [Ids -> Nat] /\ torn \in BOOLEAN
  /\ search \in [Searchers -> {"idle", "embed", "find", "query", "log", "done"}]
  /\ logged \in [Searchers -> BOOLEAN]
  /\ searches \in [Searchers -> 0..MaxSearches]

\* The vectors that runs under the embedding model of settings c make.  Demo runs,
\* whose vectors are random, and runs on another ATT&CK version are among them.
VectorsUnder(c) == {VectorOf(d) : d \in {e \in Configs : e.model = c.model}}

\* The ids are in the collection, with vectors made under c's embedding model.
StoredFor(ids, c) ==
  ids \subseteq Stored /\ \A i \in ids : collection.points[i] \in VectorsUnder(c)

\* A run that prints that it is finished leaves every document it was asked for
\* in the collection, none with the vectors of another embedding model ("a change
\* of the model uses a new checkpoint fingerprint", README.md:112), wherever
\* earlier runs stopped and whoever searches.  It does not say that the vectors
\* are those the run itself would make: after a demo run, or one on another
\* ATT&CK version, a run finishes over the vectors it finds.  Nor does it hold
\* (torn) if a run stopped between the deletion of --clear and that of the
\* checkpoint file, or between its first upsert and the save that replaces the
\* file of another model: the next run believes a file the collection has left.
FinishedIsStored ==
  script.pc = "done" /\ ~torn => StoredFor(DocsOf(script.cfg), script.cfg)

\* The checkpoint promises what the collection holds, at every moment at which
\* the script could be interrupted (but for those of torn): a rerun that skips
\* its ids, because its settings have the file's fingerprint, finds them stored
\* under its own embedding model (as for FinishedIsStored, not by its own kind
\* of run).
CheckpointIsStored ==
  file # None /\ ~torn =>
    \A c \in Configs : Fingerprint(c) = file.print => StoredFor(file.ids, c)

\* A rerun with the same settings pays for a document again only if a run was
\* interrupted while it was at that batch.
NoRework == \A i \in Ids : embedded[i] <= 1 + aborts
=============================================================================
