------------------------ MODULE KnowledgeBaseProofs ------------------------
(***************************************************************************)
(* Types, and that checkpoint file and finished runs tell the truth about  *)
(* the collection, up to what the fingerprint leaves out and unless torn   *)
(* says otherwise: for any number of searchers, documents and settings,    *)
(* and for runs that stop anywhere.                                        *)
(*                                                                         *)
(* PaidInv is about the work a run does again, and is the simpler one: a *)
(* document is embedded once, and once more for every run that was aborted *)
(* before the file listed it.                                              *)
(***************************************************************************)
EXTENDS KnowledgeBase, FiniteSetTheorems, TLAPS

\* Where a run is at a batch, or may have stopped at one.
InBatch == {"upsert", "write", "save", "failed"}

\* What TypeOK needs to be inductive: from the start of a run on its settings
\* are known, and counters stay numbers.
ScriptType ==
  /\ script = [pc |-> script.pc, cfg |-> script.cfg, completed |-> script.completed,
               pending |-> script.pending, batch |-> script.batch]
  /\ script.pc # "idle" => script.cfg \in Configs
  /\ script.pc \notin InBatch => script.batch = {}

TypeInv == TypeOK /\ ScriptType

\* The file is true for whoever believes it.
FileInv ==
  file # None /\ ~torn =>
    \A c \in Configs : Fingerprint(c) = file.print => StoredFor(file.ids, c)

\* Once it has loaded, what is not on the run's list is still to be done, and
\* what is on it is stored.
ListInv ==
  script.pc \in {"embed", "upsert", "write", "save", "done"} =>
    /\ DocsOf(script.cfg) \subseteq script.completed \cup script.pending
    /\ ~torn => StoredFor(script.completed, script.cfg)

DoneInv ==
  /\ FileInv /\ ListInv
  /\ script.pc = "save" => StoredFor(script.batch, script.cfg)
  /\ script.pc = "done" => script.pending = {}

-----------------------------------------------------------------------------
\* An empty collection of a known size is a collection.
LEMMA EmptyIsCollection ==
  ASSUME NEW size \in Sizes
  PROVE  EmptyCollection(size) \in Collections
<1>1. {} \in SUBSET Ids /\ [i \in {} |-> None] \in [{} -> Vectors]
  OBVIOUS
<1> QED
  BY <1>1 DEF EmptyCollection, Collections

\* ensure_collection, as it returns or raises, keeps the collection one.
LEMMA EnsureTypes ==
  ASSUME collection \in Collections \cup {None}, creating \subseteq Searchers \cup {"script"},
         NEW p \in Searchers \cup {"script"}, NEW size \in Sizes,
         EnsureLooks(p) \/ EnsureReturns(p, size) \/ EnsureRaises(p, size) \/ Leave(p)
  PROVE  /\ collection' \in Collections \cup {None}
         /\ creating' \subseteq Searchers \cup {"script"}
BY EmptyIsCollection DEF EnsureLooks, EnsureReturns, EnsureRaises, Leave, storeVars

LEMMA PutTypes ==
  ASSUME collection \in Collections \cup {None}, NEW ids \in SUBSET Ids, NEW v \in Vectors,
         PutPoints(ids, v)
  PROVE  /\ collection' \in Collections \cup {None}
         /\ Stored' = ids \cup Stored
<1>1. PICK S \in SUBSET Ids : collection.size \in Sizes /\ collection.points \in [S -> Vectors]
  BY DEF PutPoints, Collections
<1>2. Stored = S /\ collection \in Collections
  BY <1>1 DEF Stored, PutPoints
<1> DEFINE pts == [i \in ids \cup Stored |-> IF i \in ids THEN v ELSE collection.points[i]]
<1>3. ids \cup S \in SUBSET Ids /\ pts \in [ids \cup S -> Vectors]
  BY <1>1, <1>2
<1>4. collection' = [size |-> collection.size, points |-> pts]
  BY <1>2 DEF PutPoints, Collections
<1>5. collection' \in Collections
  BY <1>1, <1>3, <1>4 DEF Collections
<1>6. collection' # None
  BY <1>5, IngestAssumption
<1> QED
  BY <1>2, <1>4, <1>5, <1>6 DEF Stored

-----------------------------------------------------------------------------
LEMMA InitTypes == Init => TypeInv
<1> SUFFICES ASSUME Init PROVE TypeInv
  OBVIOUS
<1>1. Cardinality({}) = 0
  BY FS_EmptySet
<1>2. embedded \in [Ids -> Nat] /\ torn \in BOOLEAN
  BY DEF Init, IngestInit, NeverEmbedded
<1> QED
  BY <1>1, <1>2, IngestAssumption, SearchAssumption
  DEF Init, StoreInit, IngestInit, SearchInit, TypeInv, TypeOK, ScriptType, Pcs, InBatch

\* A step of a search moves only that search.
LEMMA SearchTypes ==
  ASSUME TypeInv, SearchNext, UNCHANGED ingestVars
  PROVE  TypeInv'
<1>1. PICK s \in Searchers : Ask(s) \/ Seek(s)
  BY DEF SearchNext
<1>2. /\ collection' \in Collections \cup {None}
      /\ creating' \subseteq Searchers \cup {"script"}
  BY <1>1, EnsureTypes, SearchAssumption
  DEF TypeInv, TypeOK, Ask, Seek, EmbedQuestion, EmbedRaises, LookFor, Find, FindRaises, Query,
      QueryRaises, LogQuery, LogRaises, storeVars
<1>3. \E to \in {"embed", "find", "query", "log", "done"} : Step(s, to) \/ search' = search
  BY <1>1
  DEF Ask, Seek, EmbedQuestion, EmbedRaises, LookFor, Find, FindRaises, Query, QueryRaises,
      LogQuery, LogRaises, GiveUp, searchVars
<1>4. search' \in [Searchers -> {"idle", "embed", "find", "query", "log", "done"}]
  BY <1>3 DEF TypeInv, TypeOK, Step
<1>5. logged' \in {logged, [logged EXCEPT ![s] = TRUE], [logged EXCEPT ![s] = FALSE]}
  BY <1>1
  DEF Ask, Seek, EmbedQuestion, EmbedRaises, LookFor, Find, FindRaises, Query, QueryRaises,
      LogQuery, LogRaises, GiveUp, searchVars
<1>6. \/ searches' = searches
      \/ searches[s] < MaxSearches /\ searches' = [searches EXCEPT ![s] = searches[s] + 1]
  BY <1>1
  DEF Ask, Seek, EmbedQuestion, EmbedRaises, LookFor, Find, FindRaises, Query, QueryRaises,
      LogQuery, LogRaises, GiveUp, searchVars
<1>7. searches' \in [Searchers -> 0..MaxSearches]
  BY <1>6, SearchAssumption DEF TypeInv, TypeOK
<1>8. logged' \in [Searchers -> BOOLEAN]
  BY <1>5 DEF TypeInv, TypeOK
<1> QED
  BY <1>2, <1>4, <1>7, <1>8 DEF TypeInv, TypeOK, ScriptType, ingestVars

\* A step of the script, or its end, keeps its locals in range.
LEMMA ScriptTypes ==
  ASSUME TypeInv, IngestNext, UNCHANGED searchVars
  PROVE  TypeInv'
<1> DEFINE Frame == /\ runs' \in 0..MaxRuns /\ aborts' \in 0..MaxAborts
                    /\ embedded' \in [Ids -> Nat] /\ (file' # None => file'.ids \subseteq Ids)
                    /\ torn' \in BOOLEAN
           Locals == /\ script'.pc \in Pcs \ {"idle"} /\ script'.cfg \in Configs
                     /\ script' = [pc |-> script'.pc, cfg |-> script'.cfg,
                                   completed |-> script'.completed,
                                   pending |-> script'.pending, batch |-> script'.batch]
                     /\ {script'.completed, script'.pending, script'.batch} \subseteq SUBSET Ids
                     /\ script'.batch \subseteq script'.pending
                     /\ Cardinality(script'.batch) <= BatchSize
                     /\ script'.pc \notin InBatch => script'.batch = {}
           Store == /\ collection' \in Collections \cup {None}
                    /\ creating' \subseteq Searchers \cup {"script"}
<1>1. SUFFICES Store /\ Frame /\ Locals
  BY IngestAssumption DEF TypeInv, TypeOK, ScriptType, searchVars
<1>2. /\ collection \in Collections \cup {None} /\ creating \subseteq Searchers \cup {"script"}
      /\ runs \in 0..MaxRuns /\ aborts \in 0..MaxAborts /\ embedded \in [Ids -> Nat]
      /\ torn \in BOOLEAN /\ NeverEmbedded \in [Ids -> Nat]
      /\ (file # None => file.ids \subseteq Ids) /\ ScriptType /\ script.pc \in Pcs
      /\ script.completed \subseteq Ids /\ script.pending \subseteq Ids
      /\ script.batch \subseteq script.pending /\ Cardinality(script.batch) <= BatchSize
  BY DEF TypeInv, TypeOK, NeverEmbedded
<1>3. Cardinality({}) = 0 /\ BatchSize \in Nat /\ MaxRuns \in Nat /\ MaxAborts \in Nat
  BY FS_EmptySet, IngestAssumption
<1>4. ASSUME NEW c \in Configs, StartRun(c) PROVE Store /\ Frame /\ Locals
  BY <1>2, <1>3, <1>4 DEF StartRun, storeVars, Pcs
<1>5. ASSUME NEW pc \in Pcs \ {"idle"}, Goto(pc), script.pc # "idle",
             pc \in InBatch \/ script.pc \notin InBatch
      PROVE  Locals
  BY <1>2, <1>5 DEF Goto, ScriptType
<1>6. CASE Look
  BY <1>2, <1>6, EnsureTypes, ConfigAssumption
  DEF Look, Ensuring, EnsureLooks, ingestVars, ScriptType, Pcs
<1>7. CASE Open
  <2>1. script.pc # "idle" /\ script.cfg \in Configs /\ script.cfg.size \in Sizes
    BY <1>2, <1>7, ConfigAssumption DEF Open, Ensuring, ScriptType
  <2>2. Store
    BY <1>2, <1>7, <2>1, EnsureTypes DEF Open
  <2>3. \E pc \in Pcs \ {"idle"} : Goto(pc) /\ (pc \in InBatch \/ script.pc \notin InBatch)
    BY <1>7 DEF Open, Ensuring, Pcs, InBatch
  <2> QED
    BY <1>2, <1>5, <1>7, <2>1, <2>2, <2>3 DEF Open
<1>8. CASE OpenRaises
  <2>1. script.pc # "idle" /\ script.cfg \in Configs /\ script.cfg.size \in Sizes
    BY <1>2, <1>8, ConfigAssumption DEF OpenRaises, Ensuring, ScriptType
  <2>2. Store
    BY <1>2, <1>8, <2>1, EnsureTypes DEF OpenRaises
  <2> QED
    BY <1>2, <1>5, <1>8, <2>1, <2>2 DEF OpenRaises, Pcs, InBatch
<1>9. CASE Clear \/ Unlink \/ EmbedFails
  BY <1>2, <1>5, <1>9 DEF Clear, Unlink, EmbedFails, DropCollection, storeVars, Pcs,
       InBatch
<1>10. CASE Load
  <2>1. script.cfg \in Configs /\ DocsOf(script.cfg) \subseteq Ids
    BY <1>2, <1>10, ConfigAssumption DEF Load, ScriptType
  <2>2. script.pc = "load" /\ Store /\ Frame
    BY <1>2, <1>10 DEF Load, storeVars
  <2>3. PICK done \in SUBSET Ids :
          script' = [script EXCEPT !.completed = done, !.pending = DocsOf(script.cfg) \ done,
                                   !.pc = NextBatch(DocsOf(script.cfg) \ done)]
    BY <1>2, <1>10 DEF Load, OwnFile
  <2> DEFINE left == DocsOf(script.cfg) \ done
  <2>4. script' = [pc |-> NextBatch(left), cfg |-> script.cfg, completed |-> done,
                   pending |-> left, batch |-> script.batch]
    BY <1>2, <2>3 DEF ScriptType
  <2>5. script.batch = {}
    BY <1>2, <2>2 DEF ScriptType, InBatch
  <2> QED
    BY <1>2, <2>1, <2>2, <2>4, <2>5 DEF NextBatch, Pcs
<1>11. CASE Embed
  <2>1. PICK batch \in SUBSET script.pending :
          /\ Cardinality(batch) <= BatchSize
          /\ script' = [script EXCEPT !.pc = "upsert", !.batch = batch]
          /\ embedded' = [i \in Ids |-> embedded[i] + IF i \in batch THEN 1 ELSE 0]
    BY <1>11 DEF Embed
  <2>2. script' = [pc |-> "upsert", cfg |-> script.cfg, completed |-> script.completed,
                   pending |-> script.pending, batch |-> batch] /\ script.cfg \in Configs
    BY <1>2, <1>11, <2>1 DEF Embed, ScriptType
  <2>3. Locals
    <3>1. /\ script.completed \subseteq Ids /\ script.pending \subseteq Ids
          /\ batch \subseteq script.pending
      BY <1>2
    <3> QED
      BY <2>1, <2>2, <3>1 DEF Pcs, InBatch
  <2>4. embedded' \in [Ids -> Nat]
    BY <1>2, <2>1
  <2> QED
    BY <1>2, <1>11, <2>3, <2>4 DEF Embed, storeVars
<1>12. CASE Write
  <2>1. script.pc = "write" /\ script.cfg \in Configs /\ VectorOf(script.cfg) \in Vectors
    BY <1>2, <1>12, ConfigAssumption DEF Write, ScriptType
  <2>2. script.batch \in SUBSET Ids
    BY <1>2
  <2>3. Store
    BY <1>2, <1>12, <2>1, <2>2, PutTypes DEF Write, PutPoints
  <2> QED
    BY <1>2, <1>5, <1>12, <2>1, <2>3 DEF Write, Pcs, InBatch
<1>13. CASE Save
  <2>1. script.pc = "save" /\ script.cfg \in Configs
    BY <1>2, <1>13 DEF Save, ScriptType
  <2> DEFINE done == script.completed \cup script.batch
             left == script.pending \ script.batch
  <2>2. /\ script' = [script EXCEPT !.completed = done, !.pending = left, !.batch = {},
                                    !.pc = NextBatch(left)]
        /\ file' = [print |-> Fingerprint(script.cfg), ids |-> done]
        /\ torn' = (torn /\ script.completed # {})
        /\ UNCHANGED <<runs, aborts, embedded, storeVars>>
    BY <1>13 DEF Save
  <2>3. done \subseteq Ids /\ left \subseteq Ids
    BY <1>2
  <2>4. script' = [pc |-> NextBatch(left), cfg |-> script.cfg, completed |-> done,
                   pending |-> left, batch |-> {}]
    BY <1>2, <2>2 DEF ScriptType
  <2> HIDE DEF done, left
  <2>5. Locals
    BY <1>3, <2>1, <2>3, <2>4 DEF NextBatch, Pcs
  <2>6. Frame /\ Store
    BY <1>2, <2>2, <2>3 DEF storeVars
  <2> QED
    BY <2>5, <2>6
<1>14. CASE Abort
  <2>1. Store
    BY <1>2, <1>14 DEF Abort, Leave
  <2> QED
    BY <1>2, <1>3, <1>5, <1>14, <2>1 DEF Abort, Ended, Pcs, InBatch
<1> QED
  BY <1>4, <1>6, <1>7, <1>8, <1>9, <1>10, <1>11, <1>12, <1>13, <1>14 DEF IngestNext, Work

LEMMA TypeStep == TypeInv /\ [Next]_vars => TypeInv'
<1> SUFFICES ASSUME TypeInv, [Next]_vars PROVE TypeInv'
  OBVIOUS
<1>1. CASE UNCHANGED vars
  BY <1>1 DEF vars, storeVars, ingestVars, searchVars, TypeInv, TypeOK, ScriptType
<1> QED
  BY <1>1, ScriptTypes, SearchTypes DEF Next

LEMMA TypeInvariance == Spec => []TypeInv
BY InitTypes, TypeStep, PTL DEF Spec

\* The collection holds vectors of the configured kinds only, a batch is part
\* of what is still to be done, and every process is at one of its steps.
THEOREM TypeCorrect == Spec => []TypeOK
<1>1. TypeInv => TypeOK
  BY DEF TypeInv
<1> QED
  BY <1>1, TypeInvariance, PTL

-----------------------------------------------------------------------------
\* What ensure_collection does to a collection, it takes no document out of
\* one and changes no vector: it creates where there is none.
LEMMA EnsureKeeps ==
  ASSUME NEW p, NEW size,
         EnsureLooks(p) \/ EnsureReturns(p, size) \/ EnsureRaises(p, size) \/ Leave(p),
         NEW ids, NEW c, StoredFor(ids, c)
  PROVE  StoredFor(ids, c)'
<1>1. CASE collection' = collection
  BY <1>1 DEF StoredFor, Stored, VectorsUnder, VectorOf
<1>2. CASE collection = None
  <2>1. ids = {}
    BY <1>2 DEF StoredFor, Stored
  <2> QED
    BY <2>1 DEF StoredFor
<1> QED
  BY <1>1, <1>2 DEF EnsureLooks, EnsureReturns, EnsureRaises, Leave, storeVars

\* A step that keeps what is stored, the file and the run's place in it.
LEMMA Undisturbed ==
  ASSUME DoneInv, file' = file, torn' = torn,
         script'.cfg = script.cfg, script'.completed = script.completed,
         script'.pending = script.pending, script'.batch = script.batch,
         \/ script'.pc = script.pc
         \/ script'.pc \in {"open", "clear", "reopen", "unlink", "load", "failed"}
         \/ script'.pc = "write" /\ script.pc = "upsert",
         \A ids, c : StoredFor(ids, c) => StoredFor(ids, c)'
  PROVE  DoneInv'
<1>1. FileInv'
  BY DEF DoneInv, FileInv, Fingerprint
<1>2. ListInv'
  BY DEF DoneInv, ListInv, DocsOf
<1> QED
  BY <1>1, <1>2 DEF DoneInv

\* A search leaves what the script and the file say true.
LEMMA SearchKeeps ==
  ASSUME DoneInv, SearchNext, UNCHANGED ingestVars
  PROVE  DoneInv'
<1>1. ASSUME NEW ids, NEW c, StoredFor(ids, c) PROVE StoredFor(ids, c)'
  <2>1. PICK s \in Searchers : Ask(s) \/ Seek(s)
    BY DEF SearchNext
  <2>2. CASE UNCHANGED storeVars
    BY <1>1, <2>2 DEF storeVars, StoredFor, Stored, VectorsUnder, VectorOf
  <2>3. CASE LookFor(s) \/ Find(s) \/ FindRaises(s)
    BY <1>1, <2>3, EnsureKeeps DEF LookFor, Find, FindRaises
  <2> QED
    BY <2>1, <2>2, <2>3
    DEF Ask, Seek, EmbedQuestion, EmbedRaises, Query, QueryRaises, LogQuery, LogRaises
<1> QED
  BY <1>1, Undisturbed DEF ingestVars

\* An upsert stores its ids under its model, and leaves what is stored under it.
LEMMA PutStores ==
  ASSUME TypeInv, NEW ids \in SUBSET Ids, NEW c \in Configs, PutPoints(ids, VectorOf(c))
  PROVE  /\ StoredFor(ids, c)'
         /\ \A old, d : StoredFor(old, d) /\ d.model = c.model => StoredFor(old, d)'
<1>1. PICK S \in SUBSET Ids : collection.size \in Sizes /\ collection.points \in [S -> Vectors]
  BY DEF PutPoints, Collections, TypeInv, TypeOK
<1>2. collection \in Collections /\ Stored = S
  BY <1>1 DEF TypeInv, TypeOK, PutPoints, Stored
<1> DEFINE v == VectorOf(c)
           pts == [i \in ids \cup Stored |-> IF i \in ids THEN v ELSE collection.points[i]]
<1>3. collection' = [size |-> collection.size, points |-> pts]
  BY <1>2 DEF PutPoints, Collections
<1>4. Stored' = ids \cup Stored
  BY ConfigAssumption, PutTypes DEF TypeInv, TypeOK
<1>5. /\ \A i \in ids : collection'.points[i] = v
      /\ \A i \in Stored \ ids : collection'.points[i] = collection.points[i]
  BY <1>3
<1>6. \A d : VectorsUnder(d)' = VectorsUnder(d)
  BY DEF VectorsUnder, VectorOf
<1>7. \A d : d.model = c.model => v \in VectorsUnder(d)
  BY DEF VectorsUnder
<1>8. v \in VectorsUnder(c)
  BY <1>7
<1>9. StoredFor(ids, c)'
  BY <1>4, <1>5, <1>6, <1>8 DEF StoredFor
<1>10. ASSUME NEW old, NEW d, StoredFor(old, d), d.model = c.model PROVE StoredFor(old, d)'
  <2>1. old \subseteq Stored'
    BY <1>4, <1>10 DEF StoredFor
  <2>2. ASSUME NEW i \in old PROVE collection'.points[i] \in VectorsUnder(d)
    <3>1. CASE i \in ids
      BY <1>5, <1>7, <1>10, <3>1
    <3>2. CASE i \notin ids
      BY <1>5, <1>10, <3>2 DEF StoredFor
    <3> QED
      BY <3>1, <3>2
  <2> QED
    BY <1>6, <2>1, <2>2 DEF StoredFor
<1> QED
  BY <1>9, <1>10

\* A step of the script: the run notes only what it has written, and whoever
\* takes a document away, or gives it another vector, tears.
LEMMA ScriptKeeps ==
  ASSUME TypeInv, DoneInv, IngestNext
  PROVE  DoneInv'
<1>1. /\ script = [pc |-> script.pc, cfg |-> script.cfg, completed |-> script.completed,
                   pending |-> script.pending, batch |-> script.batch]
      /\ script.pc # "idle" => script.cfg \in Configs
      /\ torn \in BOOLEAN
  BY DEF TypeInv, TypeOK, ScriptType
<1>2. ASSUME UNCHANGED storeVars, NEW ids, NEW c, StoredFor(ids, c) PROVE StoredFor(ids, c)'
  BY <1>2 DEF storeVars, StoredFor, Stored, VectorsUnder, VectorOf
<1>3. ASSUME NEW c \in Configs, StartRun(c) PROVE DoneInv'
  <2>1. script'.pc = "open" /\ file' = file /\ torn' = torn /\ UNCHANGED storeVars
    BY <1>3 DEF StartRun
  <2>2. FileInv'
    BY <1>2, <2>1 DEF DoneInv, FileInv, Fingerprint
  <2> QED
    BY <2>1, <2>2 DEF DoneInv, ListInv
<1>4. ASSUME NEW pc, Goto(pc), UNCHANGED <<file, torn>>,
             \A ids, c : StoredFor(ids, c) => StoredFor(ids, c)',
             \/ pc \in {"open", "clear", "reopen", "unlink", "load", "failed"}
             \/ pc = "write" /\ script.pc = "upsert"
      PROVE  DoneInv'
  <2>1. script' = [pc |-> pc, cfg |-> script.cfg, completed |-> script.completed,
                   pending |-> script.pending, batch |-> script.batch]
    BY <1>1, <1>4 DEF Goto
  <2> QED
    BY <1>4, <2>1, Undisturbed
<1>5. CASE Look
  <2>1. \A ids, c : StoredFor(ids, c) => StoredFor(ids, c)'
    BY <1>5, EnsureKeeps DEF Look
  <2> QED
    BY <1>5, <2>1, Undisturbed DEF Look, ingestVars
<1>6. CASE Open
  <2>1. \A ids, c : StoredFor(ids, c) => StoredFor(ids, c)'
    BY <1>6, EnsureKeeps DEF Open
  <2>2. CASE script.pc = "open"
    BY <1>4, <1>6, <2>1, <2>2 DEF Open
  <2>3. CASE script.pc = "reopen"
    BY <1>4, <1>6, <2>1, <2>3 DEF Open
  <2>4. CASE script.pc = "upsert"
    BY <1>4, <1>6, <2>1, <2>4 DEF Open
  <2> QED
    BY <1>6, <2>2, <2>3, <2>4 DEF Open, Ensuring
<1>7. CASE OpenRaises
  <2>1. \A ids, c : StoredFor(ids, c) => StoredFor(ids, c)'
    BY <1>7, EnsureKeeps DEF OpenRaises
  <2> QED
    BY <1>4, <1>7, <2>1 DEF OpenRaises
<1>8. CASE Clear
  <2>1. script'.pc = "reopen" /\ torn'
    BY <1>1, <1>8 DEF Clear, Goto
  <2> QED
    BY <2>1 DEF DoneInv, FileInv, ListInv
<1>9. CASE Unlink
  <2>1. script'.pc = "load" /\ file' = None
    BY <1>1, <1>9 DEF Unlink, Goto
  <2> QED
    BY <2>1 DEF DoneInv, FileInv, ListInv
<1>10. CASE Load
  <2> DEFINE done == IF OwnFile THEN file.ids ELSE {}
             left == DocsOf(script.cfg) \ done
  <2>1. /\ script' = [script EXCEPT !.completed = done, !.pending = left, !.pc = NextBatch(left)]
        /\ script.pc = "load" /\ file' = file /\ torn' = torn /\ UNCHANGED storeVars
    BY <1>10 DEF Load
  <2>2. script' = [pc |-> NextBatch(left), cfg |-> script.cfg, completed |-> done,
                   pending |-> left, batch |-> script.batch]
    BY <1>1, <2>1
  <2>3. DocsOf(script.cfg) \subseteq done \cup left
    OBVIOUS
  <2>4. ~torn => StoredFor(done, script.cfg)
    BY <1>1, <2>1 DEF DoneInv, FileInv, OwnFile, StoredFor
  <2> HIDE DEF done, left
  <2>5. FileInv'
    BY <1>2, <2>1 DEF DoneInv, FileInv, Fingerprint
  <2>6. ListInv'
    BY <1>2, <2>1, <2>2, <2>3, <2>4 DEF ListInv, DocsOf
  <2> QED
    BY <2>2, <2>5, <2>6 DEF DoneInv, NextBatch
<1>11. CASE Embed
  <2>1. PICK batch \in SUBSET script.pending :
          script' = [script EXCEPT !.pc = "upsert", !.batch = batch]
    BY <1>11 DEF Embed
  <2>2. script' = [pc |-> "upsert", cfg |-> script.cfg, completed |-> script.completed,
                   pending |-> script.pending, batch |-> batch]
    BY <1>1, <2>1
  <2>3. script.pc = "embed" /\ file' = file /\ torn' = torn /\ UNCHANGED storeVars
    BY <1>11 DEF Embed
  <2>4. FileInv'
    BY <1>2, <2>3 DEF DoneInv, FileInv, Fingerprint
  <2>5. ListInv'
    BY <1>2, <2>2, <2>3 DEF DoneInv, ListInv, DocsOf
  <2> QED
    BY <2>2, <2>4, <2>5 DEF DoneInv
<1>12. CASE EmbedFails
  BY <1>2, <1>4, <1>12 DEF EmbedFails
<1>13. CASE Write
  <2>1. script.pc = "write" /\ script.cfg \in Configs /\ script.batch \in SUBSET Ids
    BY <1>1, <1>13 DEF Write, TypeInv, TypeOK
  <2>2. script' = [pc |-> "save", cfg |-> script.cfg, completed |-> script.completed,
                   pending |-> script.pending, batch |-> script.batch]
    BY <1>1, <1>13 DEF Write, Goto
  <2>3. /\ StoredFor(script.batch, script.cfg)'
        /\ \A old, d : StoredFor(old, d) /\ d.model = script.cfg.model => StoredFor(old, d)'
    <3>1. PutPoints(script.batch, VectorOf(script.cfg))
      BY <1>13 DEF Write
    <3> QED
      BY <2>1, <2>2, <3>1, PutStores
  <2>4. file' = file /\ (~torn' => ~torn /\ ~OtherFile)
    BY <1>1, <1>13 DEF Write
  <2>5. FileInv'
    BY <2>1, <2>3, <2>4 DEF DoneInv, FileInv, OtherFile, Fingerprint
  <2>6. ListInv'
    BY <2>1, <2>2, <2>3, <2>4 DEF DoneInv, ListInv, DocsOf
  <2> QED
    BY <2>2, <2>3, <2>5, <2>6 DEF DoneInv
<1>14. CASE Save
  <2>1. PICK done, left :
          /\ done = script.completed \cup script.batch /\ left = script.pending \ script.batch
          /\ script' = [script EXCEPT !.completed = done, !.pending = left, !.batch = {},
                                      !.pc = NextBatch(left)]
          /\ file' = [print |-> Fingerprint(script.cfg), ids |-> done]
    BY <1>14 DEF Save
  <2>2. /\ script.pc = "save" /\ script.cfg \in Configs
        /\ torn' = (torn /\ script.completed # {}) /\ UNCHANGED storeVars
    BY <1>1, <1>14 DEF Save
  <2>3. script' = [pc |-> NextBatch(left), cfg |-> script.cfg, completed |-> done,
                   pending |-> left, batch |-> {}]
    BY <1>1, <2>1
  <2>4. DocsOf(script.cfg) \subseteq done \cup left
    BY <2>1, <2>2 DEF DoneInv, ListInv
  <2>5. ~torn' => StoredFor(done, script.cfg)
    BY <1>1, <2>1, <2>2 DEF DoneInv, ListInv, StoredFor
  <2>6. ASSUME ~torn', NEW c \in Configs, Fingerprint(c) = Fingerprint(script.cfg)
        PROVE  StoredFor(done, c)'
    <3>1. VectorsUnder(c) = VectorsUnder(script.cfg)
      BY <2>6 DEF Fingerprint, VectorsUnder
    <3>2. StoredFor(done, c)
      BY <2>5, <2>6, <3>1 DEF StoredFor
    <3> QED
      BY <1>2, <2>2, <3>2
  <2>7. FileInv'
    BY <2>1, <2>6 DEF FileInv, Fingerprint
  <2>8. ListInv'
    BY <2>1, <2>2, <2>3, <2>4, <2>6 DEF ListInv, DocsOf
  <2> QED
    BY <2>3, <2>7, <2>8 DEF DoneInv, NextBatch
<1>15. CASE Abort
  <2>1. \A ids, c : StoredFor(ids, c) => StoredFor(ids, c)'
    BY <1>15, EnsureKeeps DEF Abort
  <2> QED
    BY <1>4, <1>15, <2>1 DEF Abort
<1> QED
  BY <1>3, <1>5, <1>6, <1>7, <1>8, <1>9, <1>10, <1>11, <1>12, <1>13, <1>14, <1>15
  DEF IngestNext, Work

LEMMA DoneInit == Init => DoneInv
BY DEF Init, IngestInit, StoreInit, DoneInv, FileInv, ListInv

LEMMA DoneStep == TypeInv /\ DoneInv /\ [Next]_vars => DoneInv'
<1>1. ASSUME DoneInv, UNCHANGED vars PROVE DoneInv'
  <2>1. \A ids, c : StoredFor(ids, c) => StoredFor(ids, c)'
    BY <1>1 DEF vars, storeVars, StoredFor, Stored, VectorsUnder, VectorOf
  <2> QED
    BY <1>1, <2>1, Undisturbed DEF vars, ingestVars
<1> QED
  BY <1>1, ScriptKeeps, SearchKeeps DEF Next

LEMMA DoneInvariance == Spec => []DoneInv
BY DoneInit, DoneStep, TypeInvariance, PTL DEF Spec

\* A run that says it is finished left all its documents in the collection, none
\* of them with the vectors of another embedding model, unless torn: wherever
\* earlier runs stopped, with --clear, with other settings, and whoever searched.
THEOREM FinishedStored == Spec => []FinishedIsStored
<1>1. DoneInv => FinishedIsStored
  BY DEF DoneInv, ListInv, FinishedIsStored, StoredFor
<1> QED
  BY <1>1, DoneInvariance, PTL

\* The checkpoint file is true for every run that may believe it, at every point
\* at which a run may stop: its ids are stored under that run's model.
THEOREM CheckpointStored == Spec => []CheckpointIsStored
<1>1. DoneInv => CheckpointIsStored
  BY DEF DoneInv, FileInv, CheckpointIsStored
<1> QED
  BY <1>1, DoneInvariance, PTL
-----------------------------------------------------------------------------
(***************************************************************************)
(* What is paid for.  Between two runs an id was embedded once if the file *)
(* names it, and once more for each interruption; within a run the run's   *)
(* own list takes the place of the file, and the batch in hand counts as   *)
(* listed.  A batch is given up by an interruption only: ensure_collection *)
(* cannot raise while a batch is in hand, because the collection is there, *)
(* fits, and only the script deletes it.                                   *)
(***************************************************************************)

HasCollection == {"clear", "unlink", "load", "embed", "upsert", "write", "save"}

OpenInv ==
  script.pc \in HasCollection =>
    collection # None /\ collection.size = script.cfg.size /\ "script" \notin creating

Listing == {"embed", "upsert", "write", "save"}

InHand == IF script.pc \in {"upsert", "write", "save"} THEN script.batch ELSE {}

FileIds == IF file = None THEN {} ELSE file.ids

PaidFor(ids) ==
  \A i \in Ids : embedded[i] <= aborts + IF i \in ids \cup InHand THEN 1 ELSE 0

PaidInv ==
  /\ OpenInv /\ PaidFor(FileIds)
  /\ script.pc \in Listing => /\ script.completed \cap script.pending = {}
                              /\ script.completed \subseteq FileIds
                              /\ PaidFor(script.completed)

\* No search takes the collection away from a run.
LEMMA SearchLeavesOpen ==
  ASSUME OpenInv, SearchNext, UNCHANGED ingestVars
  PROVE  OpenInv'
<1>1. PICK s \in Searchers : Ask(s) \/ Seek(s)
  BY DEF SearchNext
<1>2. s # "script"
  BY ProcessAssumption
<1>3. CASE UNCHANGED storeVars
  BY <1>3 DEF OpenInv, ingestVars, storeVars
<1>4. CASE LookFor(s) \/ Find(s) \/ FindRaises(s)
  BY <1>2, <1>4 DEF OpenInv, ingestVars, storeVars, LookFor, Find, FindRaises, EnsureLooks,
                    EnsureReturns, EnsureRaises
<1> QED
  BY <1>1, <1>3, <1>4
  DEF Ask, Seek, EmbedQuestion, EmbedRaises, Query, QueryRaises, LogQuery, LogRaises

\* From the moment ensure_collection returned, the collection is there and fits,
\* until --clear deletes it.
LEMMA ScriptLeavesOpen ==
  ASSUME TypeInv, OpenInv, IngestNext
  PROVE  OpenInv'
<1>1. /\ script = [pc |-> script.pc, cfg |-> script.cfg, completed |-> script.completed,
                   pending |-> script.pending, batch |-> script.batch]
      /\ script.pc # "idle" => script.cfg \in Configs
  BY DEF TypeInv, ScriptType
<1>2. CASE \/ \E c \in Configs : StartRun(c)
           \/ OpenRaises \/ Clear \/ EmbedFails \/ Abort
  <2>1. script'.pc \in {"open", "failed", "reopen"}
    BY <1>1, <1>2 DEF StartRun, OpenRaises, Clear, EmbedFails, Abort, Goto
  <2> QED
    BY <2>1 DEF OpenInv, HasCollection
<1>3. CASE Look
  BY <1>3 DEF Look, EnsureLooks, Ensuring, OpenInv, HasCollection, ingestVars
<1>4. CASE Open
  <2>1. script'.cfg = script.cfg /\ script.cfg.size \in Sizes
    BY <1>1, <1>4, ConfigAssumption DEF Open, Ensuring, Goto
  <2>2. EmptyCollection(script.cfg.size) # None
        /\ EmptyCollection(script.cfg.size).size = script.cfg.size
    <3>1. EmptyCollection(script.cfg.size) # None
      BY <2>1, EmptyIsCollection, IngestAssumption
    <3> QED
      BY <3>1 DEF EmptyCollection
  <2>3. collection' # None /\ collection'.size = script.cfg.size /\ "script" \notin creating'
    BY <1>4, <2>2 DEF Open, EnsureReturns, storeVars
  <2> QED
    BY <2>1, <2>3 DEF OpenInv
<1>5. CASE Unlink \/ Load \/ Embed \/ Save
  <2>1. UNCHANGED storeVars /\ script'.cfg = script.cfg /\ script.pc \in HasCollection
    BY <1>1, <1>5 DEF Unlink, Load, Embed, Save, Goto, HasCollection
  <2> QED
    BY <2>1 DEF OpenInv, storeVars
<1>6. CASE Write
  <2>1. script.pc = "write" /\ script.cfg \in Configs /\ script.batch \in SUBSET Ids
        /\ PutPoints(script.batch, VectorOf(script.cfg))
    BY <1>1, <1>6 DEF Write, TypeInv, TypeOK
  <2>2. collection' \in Collections \cup {None} /\ collection \in Collections
    BY <2>1, PutTypes, ConfigAssumption DEF TypeInv, TypeOK, PutPoints
  <2>3. collection'.size = collection.size /\ collection' # None
    <3> DEFINE pts == [i \in script.batch \cup Stored |->
                         IF i \in script.batch THEN VectorOf(script.cfg)
                                               ELSE collection.points[i]]
    <3>1. collection' = [collection EXCEPT !.points = pts]
      BY <2>1, <2>2 DEF PutPoints, Collections
    <3> HIDE DEF pts
    <3>2. collection' = [size |-> collection.size, points |-> pts]
      BY <2>2, <3>1 DEF Collections
    <3>3. pts \in [script.batch \cup Stored -> Vectors]
      <4>1. VectorOf(script.cfg) \in Vectors
        BY <2>1, ConfigAssumption
      <4>2. \A i \in Stored : collection.points[i] \in Vectors
        BY <2>2 DEF Stored, Collections
      <4> QED
        BY <4>1, <4>2 DEF pts
    <3>4. Stored \in SUBSET Ids
      BY <2>2 DEF Stored, Collections
    <3>5. script.batch \cup Stored \in SUBSET Ids
      BY <2>1, <3>4
    <3>6. collection.size \in Sizes
      BY <2>2 DEF Collections
    <3>7. collection' \in Collections
      BY <3>2, <3>3, <3>5, <3>6 DEF Collections
    <3> QED
      BY <3>2, <3>7, IngestAssumption
  <2>4. script'.cfg = script.cfg /\ creating' = creating
    BY <1>1, <1>6, <2>1 DEF Write, Goto, PutPoints
  <2> QED
    BY <2>1, <2>3, <2>4 DEF OpenInv, HasCollection
<1> QED
  BY <1>2, <1>3, <1>4, <1>5, <1>6 DEF IngestNext, Work

\* A step that neither embeds nor stops nor touches the list keeps the account.
LEMMA SameAccount ==
  ASSUME PaidInv, OpenInv', embedded' = embedded, aborts' = aborts, file' = file,
         script'.completed = script.completed, script'.pending = script.pending,
         InHand' = InHand, script'.pc \in Listing => script.pc \in Listing
  PROVE  PaidInv'
BY DEF PaidInv, PaidFor, FileIds

\* Each step of the script pays once at most for what is not listed.
LEMMA ScriptPays ==
  ASSUME TypeInv, PaidInv, IngestNext
  PROVE  PaidInv'
<1>0. OpenInv'
  BY ScriptLeavesOpen DEF PaidInv
<1>1. /\ script = [pc |-> script.pc, cfg |-> script.cfg, completed |-> script.completed,
                   pending |-> script.pending, batch |-> script.batch]
      /\ script.batch \subseteq script.pending /\ script.pending \subseteq Ids
      /\ embedded \in [Ids -> Nat] /\ aborts \in Nat
      /\ script.pc # "idle" => script.cfg \in Configs
  BY IngestAssumption DEF TypeInv, TypeOK, ScriptType
<1>2. ASSUME NEW c \in Configs, StartRun(c) PROVE PaidInv'
  BY <1>0, <1>2 DEF StartRun, PaidInv, PaidFor, FileIds, InHand, Ended, Listing
<1>3. ASSUME NEW pc, Goto(pc), UNCHANGED <<embedded, aborts, file>>,
             \/ pc \notin Listing /\ script.pc \notin {"upsert", "write", "save"}
             \/ script.pc \in {"upsert", "write"} /\ pc \in {"write", "save"}
      PROVE  PaidInv'
  <2>1. script' = [pc |-> pc, cfg |-> script.cfg, completed |-> script.completed,
                   pending |-> script.pending, batch |-> script.batch]
    BY <1>1, <1>3 DEF Goto
  <2>2. InHand' = InHand /\ (pc \in Listing => script.pc \in Listing)
    BY <1>3, <2>1 DEF InHand, Listing
  <2> QED
    BY <1>0, <1>3, <2>1, <2>2, SameAccount
<1>4. CASE Look
  BY <1>0, <1>4, SameAccount DEF Look, ingestVars, InHand
<1>5. CASE Open
  <2>1. CASE script.pc = "open"
    BY <1>3, <1>5, <2>1 DEF Open, Listing
  <2>2. CASE script.pc = "reopen"
    BY <1>3, <1>5, <2>2 DEF Open, Listing
  <2>3. CASE script.pc = "upsert"
    BY <1>3, <1>5, <2>3 DEF Open, Listing
  <2> QED
    BY <1>5, <2>1, <2>2, <2>3 DEF Open, Ensuring
<1>6. CASE OpenRaises
  <2>1. script.pc # "upsert"
    BY <1>6 DEF OpenRaises, EnsureRaises, WrongSize, Conflict, PaidInv, OpenInv, HasCollection
  <2> QED
    BY <1>3, <1>6, <2>1 DEF OpenRaises, Ensuring, Listing
<1>7. CASE Clear
  BY <1>3, <1>7 DEF Clear, Listing
<1>8. CASE Unlink
  <2>1. script'.pc = "load" /\ embedded' = NeverEmbedded /\ aborts' = aborts
    BY <1>1, <1>8 DEF Unlink, Goto
  <2> QED
    BY <1>0, <1>1, <2>1 DEF PaidInv, PaidFor, NeverEmbedded, Listing
<1>9. CASE Load
  <2>1. PICK done, left :
          /\ done = (IF OwnFile THEN file.ids ELSE {}) /\ left = DocsOf(script.cfg) \ done
          /\ script' = [script EXCEPT !.completed = done, !.pending = left,
                                      !.pc = NextBatch(left)]
    BY <1>9 DEF Load
  <2>2. script' = [pc |-> NextBatch(left), cfg |-> script.cfg, completed |-> done,
                   pending |-> left, batch |-> script.batch]
    BY <1>1, <2>1
  <2>3. /\ script.pc = "load" /\ aborts' = aborts /\ FileIds' = FileIds
        /\ embedded' = IF OtherFile THEN NeverEmbedded ELSE embedded
    BY <1>9 DEF Load, FileIds
  <2>4. InHand = {} /\ InHand' = {}
    BY <2>2, <2>3 DEF InHand, NextBatch
  <2>5. done \subseteq FileIds /\ (~OtherFile => done = FileIds) /\ done \cap left = {}
    BY <2>1 DEF OwnFile, OtherFile, FileIds
  <2>6. \A i \in Ids : embedded'[i] <= aborts + IF i \in done THEN 1 ELSE 0
    BY <1>1, <2>3, <2>4, <2>5 DEF PaidInv, PaidFor, NeverEmbedded
  <2>7. \A i \in Ids : embedded'[i] <= aborts + IF i \in FileIds THEN 1 ELSE 0
    BY <1>1, <2>3, <2>4, <2>5 DEF PaidInv, PaidFor, NeverEmbedded
  <2>8. PaidFor(FileIds)' /\ PaidFor(script.completed)'
    BY <2>2, <2>3, <2>4, <2>6, <2>7 DEF PaidFor
  <2> QED
    BY <1>0, <2>2, <2>3, <2>5, <2>8 DEF PaidInv
<1>10. CASE Embed
  <2>1. PICK batch \in SUBSET script.pending :
          /\ script' = [script EXCEPT !.pc = "upsert", !.batch = batch]
          /\ embedded' = [i \in Ids |-> embedded[i] + IF i \in batch THEN 1 ELSE 0]
    BY <1>10 DEF Embed
  <2>2. script' = [pc |-> "upsert", cfg |-> script.cfg, completed |-> script.completed,
                   pending |-> script.pending, batch |-> batch]
    BY <1>1, <2>1
  <2>3. script.pc = "embed" /\ file' = file /\ aborts' = aborts /\ FileIds' = FileIds
    BY <1>10 DEF Embed, FileIds
  <2>4. InHand = {} /\ InHand' = batch
    BY <2>2, <2>3 DEF InHand
  <2>5. /\ script.completed \cap batch = {} /\ script.completed \subseteq FileIds
        /\ \A i \in Ids : embedded[i] <= aborts + IF i \in script.completed THEN 1 ELSE 0
    BY <2>1, <2>3, <2>4 DEF PaidInv, PaidFor, Listing
  <2>6. \A i \in Ids : embedded'[i] <= aborts + IF i \in script.completed \cup batch THEN 1 ELSE 0
    BY <1>1, <2>1, <2>5
  <2>7. \A i \in Ids : embedded'[i] <= aborts + IF i \in FileIds \cup batch THEN 1 ELSE 0
    <3>1. \A i \in Ids : embedded'[i] \in Nat
      BY <1>1, <2>1
    <3> QED
      BY <1>1, <2>5, <2>6, <3>1
  <2>8. PaidFor(FileIds)' /\ PaidFor(script.completed)'
    BY <2>2, <2>3, <2>4, <2>6, <2>7 DEF PaidFor
  <2>9. script.completed \cap script.pending = {}
    BY <2>3 DEF PaidInv, Listing
  <2> QED
    BY <1>0, <2>2, <2>3, <2>5, <2>8, <2>9 DEF PaidInv
<1>11. CASE EmbedFails
  BY <1>3, <1>11 DEF EmbedFails, Listing
<1>12. CASE Write
  BY <1>3, <1>12 DEF Write
<1>13. CASE Save
  <2>1. PICK done, left :
          /\ done = script.completed \cup script.batch /\ left = script.pending \ script.batch
          /\ script' = [script EXCEPT !.completed = done, !.pending = left, !.batch = {},
                                      !.pc = NextBatch(left)]
          /\ file' = [print |-> Fingerprint(script.cfg), ids |-> done]
    BY <1>13 DEF Save
  <2>2. script' = [pc |-> NextBatch(left), cfg |-> script.cfg, completed |-> done,
                   pending |-> left, batch |-> {}]
    BY <1>1, <2>1
  <2>3. script.pc = "save" /\ embedded' = embedded /\ aborts' = aborts
    BY <1>13 DEF Save
  <2>4. InHand = script.batch /\ InHand' = {}
    BY <2>2, <2>3 DEF InHand
  <2>5. /\ script.completed \cap script.pending = {}
        /\ \A i \in Ids : embedded[i] <= aborts + IF i \in done THEN 1 ELSE 0
    BY <2>1, <2>3, <2>4 DEF PaidInv, PaidFor, Listing
  <2>6. FileIds' = done
    <3>1. script.cfg \in Configs /\ done \in SUBSET Ids
      BY <1>1, <2>1, <2>3 DEF TypeInv, TypeOK
    <3>2. file' # None
      BY <2>1, <3>1, ConfigAssumption
    <3> QED
      BY <2>1, <3>2 DEF FileIds
  <2>7. PaidFor(FileIds)' /\ PaidFor(script.completed)'
    BY <2>2, <2>3, <2>4, <2>5, <2>6 DEF PaidFor
  <2>8. done \cap left = {}
    BY <2>1, <2>5
  <2> QED
    BY <1>0, <2>2, <2>6, <2>7, <2>8 DEF PaidInv
<1>14. CASE Abort
  <2>1. script'.pc = "failed" /\ embedded' = embedded /\ aborts' = aborts + 1
    BY <1>1, <1>14 DEF Abort, Goto
  <2>2. \A i \in Ids : embedded'[i] <= aborts'
    BY <1>1, <2>1 DEF PaidInv, PaidFor
  <2> QED
    BY <1>0, <1>1, <2>1, <2>2 DEF PaidInv, PaidFor, Listing
<1> QED
  BY <1>2, <1>4, <1>5, <1>6, <1>7, <1>8, <1>9, <1>10, <1>11, <1>12, <1>13, <1>14
  DEF IngestNext, Work

LEMMA PaidInit == Init => PaidInv
BY DEF Init, IngestInit, PaidInv, OpenInv, PaidFor, NeverEmbedded, HasCollection, Listing

LEMMA PaidStep == TypeInv /\ PaidInv /\ [Next]_vars => PaidInv'
<1>1. ASSUME PaidInv, SearchNext, UNCHANGED ingestVars PROVE PaidInv'
  <2>1. OpenInv'
    BY <1>1, SearchLeavesOpen DEF PaidInv
  <2> QED
    BY <1>1, <2>1, SameAccount DEF ingestVars, InHand
<1>2. ASSUME PaidInv, UNCHANGED vars PROVE PaidInv'
  <2>1. OpenInv'
    BY <1>2 DEF PaidInv, OpenInv, vars, ingestVars, storeVars
  <2> QED
    BY <1>2, <2>1, SameAccount DEF vars, ingestVars, InHand
<1> QED
  BY <1>1, <1>2, ScriptPays DEF Next

\* The account of the embedded documents is right in every state.
THEOREM PaidInvariance == Spec => []PaidInv
BY PaidInit, PaidStep, TypeInvariance, PTL DEF Spec

\* A document is paid for once, and once more for each interruption, however
\* many runs with whatever settings and options follow one another and whoever
\* creates or searches the collection.
THEOREM NothingIsReworked == Spec => []NoRework
<1>1. TypeInv /\ PaidInv => NoRework
  <2> SUFFICES ASSUME TypeInv, PaidInv, NEW i \in Ids PROVE embedded[i] <= 1 + aborts
    BY DEF NoRework
  <2>1. embedded[i] \in Nat /\ aborts \in Nat
    BY IngestAssumption DEF TypeInv, TypeOK
  <2> QED
    BY <2>1 DEF PaidInv, PaidFor
<1> QED
  BY <1>1, TypeInvariance, PaidInvariance, PTL
=============================================================================
