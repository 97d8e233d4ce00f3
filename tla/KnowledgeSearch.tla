--------------------------- MODULE KnowledgeSearch ---------------------------
(***************************************************************************)
(* Searches of the knowledge collection: the retrieve_context node of a    *)
(* run (Agents) and scripts/search_knowledge.py (Consoles).  A search      *)
(* embeds the question, makes sure that the collection exists, queries it  *)
(* and stores a row in query_logs.                                         *)
(*                                                                         *)
(* What a query returns, and the row's contents, are left out.             *)
(***************************************************************************)
EXTENDS VectorMemory

CONSTANTS
  Agents,
  Consoles,
  SearchSize,  \* the searchers' qdrant_vector_size
  MaxSearches  \* bound on the searches of each

VARIABLES
  search,   \* each searcher's step: "idle", "embed", "find", "query", "log", "done"
  logged,   \* the last search has a row in query_logs
  searches  \* searches it has begun

ASSUME SearchAssumption == SearchSize \in Sizes /\ MaxSearches \in Nat

searchVars == <<search, logged, searches>>

Searchers == Agents \cup Consoles

SearchInit ==
  /\ search = [s \in Searchers |-> "idle"]
  /\ logged = [s \in Searchers |-> FALSE]
  /\ searches = [s \in Searchers |-> 0]

Step(s, to) == search' = [search EXCEPT ![s] = to]

Ask(s) ==
  /\ search[s] \in {"idle", "done"} /\ searches[s] < MaxSearches
  /\ Step(s, "embed")
  /\ searches' = [searches EXCEPT ![s] = @ + 1]
  /\ logged' = [logged EXCEPT ![s] = FALSE]
  /\ UNCHANGED storeVars

\* A vector, from the model or at random.  A console that gets none from the
\* model takes a random one.
EmbedQuestion(s) ==
  /\ search[s] = "embed"
  /\ Step(s, "find")
  /\ UNCHANGED <<logged, searches, storeVars>>

\* A failed search: a console stores it with no hits, an agent goes on with a
\* decision record and without a row.
GiveUp(s) ==
  /\ Step(s, IF s \in Consoles THEN "log" ELSE "done")
  /\ UNCHANGED <<logged, searches>>

EmbedRaises(s) ==
  /\ search[s] = "embed" /\ s \in Agents
  /\ GiveUp(s)
  /\ UNCHANGED storeVars

LookFor(s) ==
  /\ search[s] = "find"
  /\ EnsureLooks(s)
  /\ UNCHANGED searchVars

Find(s) ==
  /\ search[s] = "find"
  /\ EnsureReturns(s, SearchSize)
  /\ Step(s, "query")
  /\ UNCHANGED <<logged, searches>>

FindRaises(s) ==
  /\ search[s] = "find"
  /\ EnsureRaises(s, SearchSize)
  /\ GiveUp(s)

Query(s) ==
  /\ search[s] = "query" /\ collection # None
  /\ Step(s, "log")
  /\ UNCHANGED <<logged, searches, storeVars>>

\* The server is gone, or the collection.
QueryRaises(s) ==
  /\ search[s] = "query"
  /\ GiveUp(s)
  /\ UNCHANGED storeVars

LogQuery(s) ==
  /\ search[s] = "log"
  /\ logged' = [logged EXCEPT ![s] = TRUE]
  /\ Step(s, "done")
  /\ UNCHANGED <<searches, storeVars>>

\* A row that cannot be stored is passed over in silence.
LogRaises(s) ==
  /\ search[s] = "log"
  /\ Step(s, "done")
  /\ UNCHANGED <<logged, searches, storeVars>>

Seek(s) == \/ EmbedQuestion(s) \/ EmbedRaises(s) \/ LookFor(s) \/ Find(s) \/ FindRaises(s)
           \/ Query(s) \/ QueryRaises(s) \/ LogQuery(s) \/ LogRaises(s)

SearchNext == \E s \in Searchers : Ask(s) \/ Seek(s)
=============================================================================
