---------------------------- MODULE VectorMemory ----------------------------
(***************************************************************************)
(* QdrantVectorStore (memory.py) over the collection of a Qdrant server    *)
(* that several processes use.  A request to the server is atomic; the     *)
(* store's methods are several requests, so ensure_collection looks first  *)
(* and creates later.                                                      *)
(*                                                                         *)
(* The operators are parts of the actions of the modules that EXTEND this  *)
(* one: p is the process that calls the store, size its vector size.       *)
(***************************************************************************)
EXTENDS Integers, FiniteSets

CONSTANTS
  Ids,      \* the memory ids of the documents
  Vectors,  \* what a vector was made from
  Sizes,
  None

VARIABLES
  collection,  \* None, or its vector size and the vector of every stored id
  creating     \* the processes that looked, found nothing and will create it

storeVars == <<collection, creating>>

StoreInit == collection = None /\ creating = {}

Collections == [size : Sizes, points : UNION {[S -> Vectors] : S \in SUBSET Ids}]

Stored == IF collection = None THEN {} ELSE DOMAIN collection.points

EmptyCollection(size) == [size |-> size, points |-> [i \in {} |-> None]]

\* collection_exists says no.
EnsureLooks(p) ==
  /\ p \notin creating /\ collection = None
  /\ creating' = creating \cup {p}
  /\ UNCHANGED collection

\* The collection is there and fits, or it is created now.
EnsureReturns(p, size) ==
  \/ /\ p \notin creating /\ collection # None /\ collection.size = size
     /\ UNCHANGED storeVars
  \/ /\ p \in creating /\ collection = None
     /\ collection' = EmptyCollection(size)
     /\ creating' = creating \ {p}

\* The collection has vectors of another size: ValueError.
WrongSize(p, size) == p \notin creating /\ collection # None /\ collection.size # size

\* create_collection refuses a collection that somebody created meanwhile.
Conflict(p) == p \in creating /\ collection # None

EnsureRaises(p, size) ==
  /\ WrongSize(p, size) \/ Conflict(p)
  /\ creating' = creating \ {p}
  /\ UNCHANGED collection

\* The upsert request of batch_upsert: a stored id gets the new vector.
PutPoints(ids, vector) ==
  /\ collection # None
  /\ collection' = [collection EXCEPT !.points =
       [i \in ids \cup Stored |-> IF i \in ids THEN vector ELSE @[i]]]
  /\ UNCHANGED creating

DropCollection ==
  /\ collection # None
  /\ collection' = None
  /\ UNCHANGED creating

\* A process that ends creates nothing any more.
Leave(p) == creating' = creating \ {p} /\ UNCHANGED collection
=============================================================================
