------------------------------- MODULE Ledger -------------------------------
(***************************************************************************)
(* The ledger of one run (ledger.py) with several writers: tasks of one    *)
(* process, which share the lock of the run, and of other processes on the *)
(* same database, which do not.  A writer works as the graph's nodes do    *)
(* (_checkpoint): it commits the state of the run, then appends an event,  *)
(* each in a transaction of its own.                                       *)
(*                                                                         *)
(* append reads the latest row and inserts its successor; the database     *)
(* refuses a sequence number that is taken.  An event is who wrote it and  *)
(* the number of his step; a hash is what it is computed from.             *)
(***************************************************************************)
EXTENDS Integers, Sequences, FiniteSets

CONSTANTS
  Writers,
  Processes,
  ProcessOf,   \* the process of each writer
  None,
  MaxWrites,   \* bound on the states a writer stores
  MaxCrashes,  \* bound on crashes of a process
  MaxFaults    \* bound on rows that storage loses or alters

ASSUME LedgerAssumption ==
  /\ ProcessOf \in [Writers -> Processes] /\ None \notin Writers
  /\ MaxWrites \in Nat /\ MaxCrashes \in Nat /\ MaxFaults \in Nat

VARIABLES
  rows,     \* the event rows: sequence number |-> [event, prev, hash]
  row,      \* the run row: the step whose state it holds, None before
  lock,     \* the writer that holds the lock of the run in each process
  pc,       \* each writer: "idle", "append", "insert", "raised"
  latest,   \* the [sequence, hash] it read
  written,  \* states it has stored
  history,  \* ghost: the events in the order of their commits
  crashes,
  faults

vars == <<rows, row, lock, pc, latest, written, history, crashes, faults>>

Events == Writers \X (1..MaxWrites)

ZeroHash == <<>>

Digest(sequence, event, prev) == <<sequence, event, prev>>

Sequence == DOMAIN rows

NoRow == [sequence |-> 0, hash |-> ZeroHash]

Highest(S) == CHOOSE i \in S : \A j \in S : j <= i

LastRow ==
  IF Sequence = {} THEN NoRow
  ELSE [sequence |-> Highest(Sequence), hash |-> rows[Highest(Sequence)].hash]

Init ==
  /\ rows = <<>> /\ row = None /\ history = <<>>
  /\ lock = [p \in Processes |-> None]
  /\ pc = [w \in Writers |-> "idle"]
  /\ latest = [w \in Writers |-> NoRow]
  /\ written = [w \in Writers |-> 0]
  /\ crashes = 0 /\ faults = 0

\* save_state: the run row is overwritten, under the lock.
SaveState(w) ==
  /\ pc[w] = "idle" /\ written[w] < MaxWrites
  /\ lock[ProcessOf[w]] = None
  /\ written' = [written EXCEPT ![w] = @ + 1]
  /\ row' = <<w, written'[w]>>
  /\ pc' = [pc EXCEPT ![w] = "append"]
  /\ UNCHANGED <<rows, lock, latest, history, crashes, faults>>

\* Faulty: without the lock.
ReadUnlocked(w) ==
  /\ pc[w] = "append"
  /\ latest' = [latest EXCEPT ![w] = LastRow]
  /\ pc' = [pc EXCEPT ![w] = "insert"]
  /\ UNCHANGED <<rows, row, lock, written, history, crashes, faults>>

\* append takes the lock and reads the row with the highest number.
ReadLatest(w) ==
  /\ pc[w] = "append"
  /\ lock[ProcessOf[w]] = None
  /\ lock' = [lock EXCEPT ![ProcessOf[w]] = w]
  /\ latest' = [latest EXCEPT ![w] = LastRow]
  /\ pc' = [pc EXCEPT ![w] = "insert"]
  /\ UNCHANGED <<rows, row, written, history, crashes, faults>>

\* Faulty: the numbers are not counted up.
NewSequenceAgain(w) == latest[w].sequence

NewSequence(w) == latest[w].sequence + 1

\* Faulty: the previous hash is left out of the digest's input and the row.
UnchainedRow(w) ==
  [event |-> <<w, written[w]>>, prev |-> ZeroHash,
   hash |-> Digest(NewSequence(w), <<w, written[w]>>, ZeroHash)]

NewRow(w) ==
  [event |-> <<w, written[w]>>, prev |-> latest[w].hash,
   hash |-> Digest(NewSequence(w), <<w, written[w]>>, latest[w].hash)]

\* The with statement gives the lock back, if its writer holds it.
Release(w) == lock' = [p \in Processes |-> IF lock[p] = w THEN None ELSE lock[p]]

\* Faulty: a row with the same number is replaced.
InsertOrReplace(w) ==
  /\ pc[w] = "insert"
  /\ rows' = [i \in Sequence \cup {NewSequence(w)} |->
                IF i = NewSequence(w) THEN NewRow(w) ELSE rows[i]]
  /\ history' = Append(history, <<w, written[w]>>)
  /\ Release(w)
  /\ pc' = [pc EXCEPT ![w] = "idle"]
  /\ UNCHANGED <<row, latest, written, crashes, faults>>

Insert(w) ==
  /\ pc[w] = "insert" /\ NewSequence(w) \notin Sequence
  /\ rows' = [i \in Sequence \cup {NewSequence(w)} |->
                IF i = NewSequence(w) THEN NewRow(w) ELSE rows[i]]
  /\ history' = Append(history, <<w, written[w]>>)
  /\ Release(w)
  /\ pc' = [pc EXCEPT ![w] = "idle"]
  /\ UNCHANGED <<row, latest, written, crashes, faults>>

\* Faulty: the exception leaves the lock taken.
InsertRaisesLocked(w) ==
  /\ pc[w] = "insert" /\ NewSequence(w) \in Sequence
  /\ pc' = [pc EXCEPT ![w] = "raised"]
  /\ UNCHANGED <<rows, row, lock, latest, written, history, crashes, faults>>

\* UNIQUE(run_id, sequence): IntegrityError out of the node.
InsertRaises(w) ==
  /\ pc[w] = "insert" /\ NewSequence(w) \in Sequence
  /\ Release(w)
  /\ pc' = [pc EXCEPT ![w] = "raised"]
  /\ UNCHANGED <<rows, row, latest, written, history, crashes, faults>>

\* The process stops: open transactions are rolled back, its lock is gone.
Crash(p) ==
  /\ crashes < MaxCrashes
  /\ \E w \in Writers : ProcessOf[w] = p /\ pc[w] \in {"append", "insert"}
  /\ pc' = [w \in Writers |-> IF ProcessOf[w] = p THEN "idle" ELSE pc[w]]
  /\ lock' = [lock EXCEPT ![p] = None]
  /\ crashes' = crashes + 1
  /\ UNCHANGED <<rows, row, latest, written, history, faults>>

\* A stored payload changes under the ledger, or a row is gone.
Alter(i) ==
  /\ faults < MaxFaults /\ i \in Sequence
  /\ \E e \in Events \ {rows[i].event} : rows' = [rows EXCEPT ![i].event = e]
  /\ faults' = faults + 1
  /\ UNCHANGED <<row, lock, pc, latest, written, history, crashes>>

Lose(i) ==
  /\ faults < MaxFaults /\ i \in Sequence
  /\ rows' = [j \in Sequence \ {i} |-> rows[j]]
  /\ faults' = faults + 1
  /\ UNCHANGED <<row, lock, pc, latest, written, history, crashes>>

Write(w) == ReadLatest(w) \/ Insert(w) \/ InsertRaises(w)

Next == \/ \E w \in Writers : SaveState(w) \/ Write(w)
        \/ \E p \in Processes : Crash(p)
        \/ \E i \in Sequence : Alter(i) \/ Lose(i)

\* A writer that can go on does.
Fairness == \A w \in Writers : WF_vars(Write(w))

Spec == Init /\ [][Next]_vars /\ Fairness
-----------------------------------------------------------------------------
\* Faulty: the link to the previous row is not compared.
VerifyDigestsOnly ==
  \A i \in Sequence : rows[i].hash = Digest(i, rows[i].event, rows[i].prev)

\* LedgerStore.verify: the rows in the order of their numbers, each linked to
\* the one before and with the digest of its own contents.
Verify ==
  \A i \in Sequence :
    LET before == {j \in Sequence : j < i}
    IN  /\ rows[i].hash = Digest(i, rows[i].event, rows[i].prev)
        /\ rows[i].prev = IF before = {} THEN ZeroHash ELSE rows[Highest(before)].hash

TypeOK ==
  /\ Sequence \subseteq 1..Len(history)
  /\ \A i \in Sequence : rows[i].event \in Events
  /\ row \in Events \cup {None}
  /\ lock \in [Processes -> Writers \cup {None}]
  /\ pc \in [Writers -> {"idle", "append", "insert", "raised"}]
  /\ \A w \in Writers : latest[w].sequence \in 0..Len(history)
  /\ written \in [Writers -> 0..MaxWrites]
  /\ history \in Seq(Events)
  /\ crashes \in 0..MaxCrashes /\ faults \in 0..MaxFaults

\* While nobody touches the stored rows their numbers have no gap and the
\* chain verifies, although processes that append at the same time read the
\* same latest row.
ChainIntact == faults = 0 => Sequence = 1..Cardinality(Sequence) /\ Verify

\* An append fails only because of another process: writers of one process
\* wait for each other.
OnlyRivalsCollide ==
  \A w \in Writers :
    pc[w] = "raised" /\ faults = 0 =>
      ProcessOf[rows[NewSequence(w)].event[1]] # ProcessOf[w]

\* Nobody waits for ever for the lock of the run: not for a writer whose insert
\* was refused, nor for a process that stopped.
AppendEnds ==
  \A w \in Writers : (pc[w] \in {"append", "insert"}) ~> (pc[w] \in {"idle", "raised"})

\* The events in the order of their numbers, as the readers get them.
LogRows == [i \in 1..Cardinality(Sequence) |-> rows[i].event]

\* To its readers the ledger is an append-only list of events, each of them
\* whole or absent: while nobody else touches the rows, every step of a writer
\* or a process is one of the abstract log, or changes nothing there.
Log == INSTANCE EventLog WITH log <- LogRows
AppendsOnly == Log!Init /\ [][faults' = 0 => Log!Next \/ UNCHANGED LogRows]_vars

\* A ledger that verifies tells the truth, if not the whole of it: none of its
\* events was altered, none is missing between two others, and they are in the
\* order in which they were recorded.
VerifiedIsTrue ==
  Verify =>
    /\ Sequence = 1..Cardinality(Sequence)
    /\ \E place \in [Sequence -> DOMAIN history] :
         /\ \A i \in Sequence : history[place[i]] = rows[i].event
         /\ \A i, j \in Sequence : i < j => place[i] < place[j]
=============================================================================
