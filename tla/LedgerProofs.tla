---------------------------- MODULE LedgerProofs ----------------------------
(***************************************************************************)
(* The chain of a run is gapless and linked, a process collides with other *)
(* processes only, and until a storage fault the ledger implements the     *)
(* append-only log: for any number of writers, processes and crashes.      *)
(*                                                                         *)
(* Core holds until a stored row is touched: the rows are the history, and *)
(* what a writer has read is the row before all that followed it.          *)
(*                                                                         *)
(* TruthInv holds through storage faults too: every hash a row or a writer *)
(* holds was made of recorded events, in the order they were recorded.  It *)
(* is what a ledger that verifies owes its truth to.                       *)
(***************************************************************************)
EXTENDS Ledger, FiniteSetTheorems, WellFoundedInduction, TLAPS

N == Len(history)

HashAt(i) == IF i = 0 THEN ZeroHash ELSE rows[i].hash

\* Every row is its event of the history, linked to the row before.
RowsInv ==
  /\ Sequence = 1..N
  /\ \A i \in 1..N : rows[i] = [event |-> history[i], prev |-> HashAt(i - 1),
                                hash |-> Digest(i, history[i], HashAt(i - 1))]

\* A writer remembers a row of the chain, and at its insert holds the lock.
ReadInv ==
  \A w \in Writers :
    /\ latest[w].sequence \in 0..N
    /\ latest[w].hash = HashAt(latest[w].sequence)
    /\ pc[w] = "insert" => lock[ProcessOf[w]] = w

\* What was appended after a writer's read comes from other processes; one of
\* them took the number of a writer that failed.
RivalInv ==
  \A w \in Writers :
    /\ pc[w] = "insert" =>
         \A i \in (latest[w].sequence + 1)..N : ProcessOf[history[i][1]] # ProcessOf[w]
    /\ pc[w] = "raised" =>
         NewSequence(w) <= N /\ ProcessOf[history[NewSequence(w)][1]] # ProcessOf[w]

Types ==
  /\ history \in Seq(Events)
  /\ pc \in [Writers -> {"idle", "append", "insert", "raised"}]
  /\ written \in [Writers -> 0..MaxWrites]
  /\ \A w \in Writers : pc[w] \in {"append", "insert"} => written[w] \in 1..MaxWrites
  /\ latest = [w \in Writers |-> latest[w]]
  /\ lock \in [Processes -> Writers \cup {None}]
  /\ faults \in 0..MaxFaults

Core == RowsInv /\ ReadInv /\ RivalInv

IInv == Types /\ (faults = 0 => Core)

-----------------------------------------------------------------------------
LEMMA HighestIs ==
  ASSUME NEW S \in SUBSET Int, NEW m \in S, \A j \in S : j <= m
  PROVE  Highest(S) = m
<1>1. \A i \in S : (\A j \in S : j <= i) => i = m
  OBVIOUS
<1> QED
  BY <1>1 DEF Highest

\* The latest row of a gapless ledger is the one numbered by its length.
LEMMA LastOfChain ==
  ASSUME Types, RowsInv
  PROVE  LastRow = [sequence |-> N, hash |-> HashAt(N)]
<1>1. N \in Nat
  BY DEF Types, N
<1>2. CASE N = 0
  BY <1>1, <1>2 DEF LastRow, RowsInv, NoRow, HashAt
<1>3. CASE N > 0
  <2>1. N \in Sequence /\ \A j \in Sequence : j <= N
    BY <1>1, <1>3 DEF RowsInv
  <2>2. Sequence \in SUBSET Int
    BY <1>1 DEF RowsInv
  <2>3. Highest(Sequence) = N
    BY <2>1, <2>2, HighestIs
  <2> QED
    BY <1>1, <1>3, <2>1, <2>3 DEF LastRow, HashAt
<1> QED
  BY <1>1, <1>2, <1>3

\* A chain as RowsInv says is one that verify accepts.
LEMMA ChainVerifies ==
  ASSUME Types, RowsInv
  PROVE  Verify
<1>1. N \in Nat /\ Sequence = 1..N
  BY DEF Types, N, RowsInv
<1>2. SUFFICES ASSUME NEW i \in 1..N
      PROVE  LET before == {j \in Sequence : j < i}
             IN  /\ rows[i].hash = Digest(i, rows[i].event, rows[i].prev)
                 /\ rows[i].prev = IF before = {} THEN ZeroHash ELSE rows[Highest(before)].hash
  BY <1>1 DEF Verify
<1> DEFINE before == {j \in Sequence : j < i}
<1>3. rows[i] = [event |-> history[i], prev |-> HashAt(i - 1),
                 hash |-> Digest(i, history[i], HashAt(i - 1))]
  BY DEF RowsInv
<1>4. CASE i = 1
  <2>1. before = {}
    BY <1>1, <1>4
  <2> QED
    BY <1>3, <1>4, <2>1 DEF HashAt
<1>5. CASE i # 1
  <2>1. /\ i - 1 \in before /\ i - 1 # 0
        /\ before \in SUBSET Int /\ \A k \in before : k <= i - 1
    BY <1>1, <1>5
  <2> HIDE DEF before
  <2>2. Highest(before) = i - 1
    BY <2>1, HighestIs
  <2>3. before # {} /\ HashAt(i - 1) = rows[i - 1].hash
    BY <2>1 DEF HashAt
  <2>4. /\ rows[i].hash = Digest(i, rows[i].event, rows[i].prev)
        /\ rows[i].prev = HashAt(i - 1)
    BY <1>3
  <2> QED
    BY <2>2, <2>3, <2>4 DEF before
<1> QED
  BY <1>4, <1>5

\* Steps that touch no row, no history and only one writer's place.
LEMMA RowsKeep ==
  ASSUME RowsInv, rows' = rows, history' = history
  PROVE  RowsInv'
BY DEF RowsInv, N, HashAt, Sequence

LEMMA InitInv == Init => IInv
<1> SUFFICES ASSUME Init PROVE IInv
  OBVIOUS
<1>1. N = 0
  BY DEF Init, N
<1>2. Types
  BY LedgerAssumption DEF Init, Types
<1>3. RowsInv
  BY <1>1 DEF Init, RowsInv, Sequence
<1>4. ReadInv /\ RivalInv
  BY <1>1 DEF Init, ReadInv, RivalInv, NoRow, HashAt
<1> QED
  BY <1>2, <1>3, <1>4 DEF IInv, Core

LEMMA TypeStep == Types /\ [Next]_vars => Types'
<1> SUFFICES ASSUME Types, [Next]_vars PROVE Types'
  OBVIOUS
<1> USE LedgerAssumption DEF Types
<1>1. ASSUME NEW w \in Writers, SaveState(w) PROVE Types'
  BY <1>1 DEF SaveState
<1>2. ASSUME NEW w \in Writers, ReadLatest(w) PROVE Types'
  BY <1>2 DEF ReadLatest
<1>3. ASSUME NEW w \in Writers, Insert(w) PROVE Types'
  <2>1. <<w, written[w]>> \in Events
    BY <1>3 DEF Insert, Events
  <2>2. history' \in Seq(Events)
    BY <1>3, <2>1 DEF Insert
  <2> QED
    BY <1>3, <2>2 DEF Insert, Release
<1>4. ASSUME NEW w \in Writers, InsertRaises(w) PROVE Types'
  BY <1>4 DEF InsertRaises, Release
<1>5. ASSUME NEW p \in Processes, Crash(p) PROVE Types'
  BY <1>5 DEF Crash
<1>6. ASSUME NEW i \in Sequence, Alter(i) \/ Lose(i) PROVE Types'
  BY <1>6 DEF Alter, Lose
<1>7. CASE UNCHANGED vars
  BY <1>7 DEF vars
<1> QED
  BY <1>1, <1>2, <1>3, <1>4, <1>5, <1>6, <1>7 DEF Next, Write

\* The steps that add no row: at most the writer's own place changes.
LEMMA CoreQuietStep ==
  ASSUME Types, Core,
         \/ \E w \in Writers : SaveState(w) \/ ReadLatest(w) \/ InsertRaises(w)
         \/ \E p \in Processes : Crash(p)
         \/ UNCHANGED vars
  PROVE  Core'
<1>1. rows' = rows /\ history' = history
  BY DEF SaveState, ReadLatest, InsertRaises, Crash, vars
<1>2. RowsInv' /\ N' = N /\ N \in Nat /\ (\A i : HashAt(i)' = HashAt(i))
  BY <1>1, RowsKeep DEF Core, N, HashAt, Types
<1>3. ASSUME NEW w \in Writers, SaveState(w) PROVE ReadInv' /\ RivalInv'
  BY <1>1, <1>2, <1>3 DEF SaveState, Core, Types, ReadInv, RivalInv, NewSequence
<1>4. ASSUME NEW w \in Writers, ReadLatest(w) PROVE ReadInv' /\ RivalInv'
  <2>1. LastRow = [sequence |-> N, hash |-> HashAt(N)]
    BY LastOfChain DEF Core
  <2>2. /\ latest'[w].sequence = N /\ latest'[w].hash = HashAt(N)
        /\ pc'[w] = "insert" /\ lock'[ProcessOf[w]] = w
    BY <1>4, <2>1, LedgerAssumption DEF ReadLatest, Types
  <2>3. \A v \in Writers \ {w} : latest'[v] = latest[v] /\ pc'[v] = pc[v]
    BY <1>4 DEF ReadLatest, Types
  <2>4. \A v \in Writers \ {w} : pc[v] = "insert" => lock'[ProcessOf[v]] = v
    BY <1>4, LedgerAssumption DEF ReadLatest, Types, Core, ReadInv
  <2>5. ReadInv'
    BY <1>2, <2>2, <2>3, <2>4 DEF Core, ReadInv
  <2>6. ASSUME NEW v \in Writers
        PROVE  /\ pc'[v] = "insert" =>
                    \A i \in (latest'[v].sequence + 1)..N :
                      ProcessOf[history[i][1]] # ProcessOf[v]
               /\ pc'[v] = "raised" =>
                    /\ latest'[v].sequence + 1 <= N
                    /\ ProcessOf[history[latest'[v].sequence + 1][1]] # ProcessOf[v]
    <3>1. CASE v = w
      BY <1>2, <2>2, <3>1
    <3>2. CASE v # w
      BY <2>3, <3>2 DEF Core, RivalInv, NewSequence
    <3> QED
      BY <3>1, <3>2
  <2> QED
    BY <1>1, <1>2, <2>5, <2>6 DEF RivalInv, NewSequence
<1>5. ASSUME NEW w \in Writers, InsertRaises(w) PROVE ReadInv' /\ RivalInv'
  <2>1. NewSequence(w) \in (latest[w].sequence + 1)..N
    BY <1>2, <1>5 DEF InsertRaises, Core, RowsInv, ReadInv, NewSequence
  <2>2. NewSequence(w) <= N /\ ProcessOf[history[NewSequence(w)][1]] # ProcessOf[w]
    BY <1>2, <1>5, <2>1 DEF InsertRaises, Core, RivalInv, ReadInv
  <2>3. /\ latest' = latest /\ pc'[w] = "raised"
        /\ \A v \in Writers \ {w} : pc'[v] = pc[v]
    BY <1>5 DEF InsertRaises, Types
  <2>4. \A v \in Writers \ {w} : pc[v] = "insert" => lock'[ProcessOf[v]] = v
    BY <1>5, LedgerAssumption DEF InsertRaises, Release, Types, Core, ReadInv
  <2>5. ReadInv'
    BY <1>2, <2>3, <2>4 DEF Core, ReadInv
  <2> QED
    BY <1>1, <1>2, <2>2, <2>3, <2>5 DEF Core, RivalInv, NewSequence
<1>6. ASSUME NEW p \in Processes, Crash(p) PROVE ReadInv' /\ RivalInv'
  <2>1. /\ latest' = latest
        /\ \A v \in Writers : pc'[v] # "idle" => pc'[v] = pc[v] /\ ProcessOf[v] # p
    BY <1>6 DEF Crash
  <2>2. \A v \in Writers : pc'[v] = "insert" => lock'[ProcessOf[v]] = v
    BY <1>6, <2>1, LedgerAssumption DEF Crash, Types, Core, ReadInv
  <2>3. ReadInv'
    BY <1>2, <2>1, <2>2 DEF Core, ReadInv
  <2> QED
    BY <1>1, <1>2, <2>1, <2>3 DEF Core, RivalInv, NewSequence
<1>7. CASE UNCHANGED vars
  BY <1>1, <1>2, <1>7 DEF vars, Core, ReadInv, RivalInv, NewSequence
<1> QED
  BY <1>2, <1>3, <1>4, <1>5, <1>6, <1>7 DEF Core

\* An insert that the database accepts continues the chain: what its writer has
\* read is the latest row still.
LEMMA InsertContinues ==
  ASSUME Types, Core, NEW w \in Writers, Insert(w)
  PROVE  /\ NewSequence(w) = N + 1 /\ latest[w].hash = HashAt(N)
         /\ N \in Nat /\ N' = N + 1 /\ Sequence' = 1..(N + 1)
         /\ rows'[N + 1] = NewRow(w) /\ \A i \in 1..N : rows'[i] = rows[i]
         /\ history'[N + 1] = <<w, written[w]>>
         /\ \A i \in 1..N : history'[i] = history[i]
<1>1. N \in Nat /\ Sequence = 1..N
  BY DEF Types, N, Core, RowsInv
<1>2. latest[w].sequence \in 0..N /\ latest[w].hash = HashAt(latest[w].sequence)
  BY DEF Core, ReadInv
<1>3. NewSequence(w) \notin 1..N /\ NewSequence(w) = latest[w].sequence + 1
  BY <1>1 DEF Insert, NewSequence
<1>4. NewSequence(w) = N + 1 /\ latest[w].sequence = N
  BY <1>1, <1>2, <1>3
<1>5. Sequence \cup {NewSequence(w)} = 1..(N + 1)
  BY <1>1, <1>4
<1>6. rows' = [i \in 1..(N + 1) |-> IF i = N + 1 THEN NewRow(w) ELSE rows[i]]
  BY <1>4, <1>5 DEF Insert
<1>7. /\ Sequence' = 1..(N + 1)
      /\ rows'[N + 1] = NewRow(w) /\ \A i \in 1..N : rows'[i] = rows[i]
  BY <1>1, <1>6 DEF Sequence
<1>8. /\ N' = N + 1 /\ history'[N + 1] = <<w, written[w]>>
      /\ \A i \in 1..N : history'[i] = history[i]
  <2>1. <<w, written[w]>> \in Events /\ history \in Seq(Events)
    BY DEF Insert, Events, Types
  <2> QED
    BY <2>1 DEF Insert, N
<1> QED
  BY <1>1, <1>2, <1>4, <1>7, <1>8

LEMMA CoreInsert ==
  ASSUME Types, Core, NEW w \in Writers, Insert(w)
  PROVE  Core'
<1>1. /\ NewSequence(w) = N + 1 /\ latest[w].hash = HashAt(N)
      /\ N \in Nat /\ N' = N + 1 /\ Sequence' = 1..(N + 1)
      /\ rows'[N + 1] = NewRow(w) /\ \A i \in 1..N : rows'[i] = rows[i]
      /\ history'[N + 1] = <<w, written[w]>>
      /\ \A i \in 1..N : history'[i] = history[i]
  BY InsertContinues
<1>2. \A i \in 0..N : HashAt(i)' = HashAt(i)
  BY <1>1 DEF HashAt
<1>3. RowsInv'
  <2>1. ASSUME NEW i \in 1..(N + 1)
        PROVE  rows'[i] = [event |-> history'[i], prev |-> HashAt(i - 1)',
                           hash |-> Digest(i, history'[i], HashAt(i - 1)')]
    <3>1. CASE i \in 1..N
      <4>1. rows[i] = [event |-> history[i], prev |-> HashAt(i - 1),
                       hash |-> Digest(i, history[i], HashAt(i - 1))]
        BY <3>1 DEF Core, RowsInv
      <4>2. HashAt(i - 1)' = HashAt(i - 1)
        BY <1>1, <1>2, <3>1
      <4> QED
        BY <1>1, <3>1, <4>1, <4>2
    <3>2. CASE i = N + 1
      <4>1. i - 1 \in 0..N /\ i - 1 = N
        BY <1>1, <3>2
      <4>2. HashAt(i - 1)' = HashAt(i - 1) /\ HashAt(i - 1) = HashAt(N)
        BY <1>2, <4>1
      <4>3. rows'[i] = [event |-> <<w, written[w]>>, prev |-> HashAt(N),
                        hash |-> Digest(i, <<w, written[w]>>, HashAt(N))]
        BY <1>1, <3>2 DEF NewRow
      <4>4. history'[i] = <<w, written[w]>>
        BY <1>1, <3>2
      <4> QED
        BY <4>2, <4>3, <4>4
    <3> QED
      BY <1>1, <3>1, <3>2
  <2> QED
    BY <1>1, <2>1 DEF RowsInv
<1>4. /\ latest' = latest /\ pc'[w] = "idle"
      /\ \A v \in Writers \ {w} : pc'[v] = pc[v]
  BY DEF Insert, Types
<1>5. \A v \in Writers \ {w} : pc[v] = "insert" =>
        ProcessOf[v] # ProcessOf[w] /\ lock'[ProcessOf[v]] = v
  BY LedgerAssumption DEF Insert, Release, Types, Core, ReadInv
<1>6. ReadInv'
  <2>1. ASSUME NEW v \in Writers
        PROVE  /\ latest[v].sequence \in 0..(N + 1)
               /\ latest'[v].hash = HashAt(latest[v].sequence)'
    <3>1. PICK k \in 0..N : k = latest[v].sequence
      BY DEF Core, ReadInv
    <3>2. HashAt(k)' = HashAt(k) /\ latest[v].hash = HashAt(k)
      BY <1>2, <3>1 DEF Core, ReadInv
    <3>3. latest'[v].sequence = k /\ latest'[v].hash = HashAt(k)
      BY <1>4, <3>1, <3>2
    <3>4. HashAt(latest[v].sequence)' = HashAt(k)'
      BY <3>3 DEF HashAt
    <3> QED
      BY <1>1, <3>1, <3>2, <3>3, <3>4
  <2> QED
    BY <1>1, <1>4, <1>5, <2>1 DEF ReadInv
<1>7. RivalInv'
  <2>1. ASSUME NEW v \in Writers, pc'[v] = "insert",
               NEW i \in (latest[v].sequence + 1)..(N + 1)
        PROVE  ProcessOf[history'[i][1]] # ProcessOf[v]
    <3>1. v # w /\ pc[v] = "insert" /\ latest[v].sequence \in 0..N
      BY <1>4, <2>1 DEF Core, ReadInv
    <3>2. CASE i = N + 1
      BY <1>1, <1>5, <3>1, <3>2
    <3>3. CASE i # N + 1
      <4>1. i \in (latest[v].sequence + 1)..N /\ i \in 1..N
        BY <1>1, <3>1, <3>3
      <4> QED
        BY <1>1, <3>1, <4>1 DEF Core, RivalInv
    <3> QED
      BY <3>2, <3>3
  <2>2. ASSUME NEW v \in Writers, pc'[v] = "raised"
        PROVE  /\ NewSequence(v) <= N + 1
               /\ ProcessOf[history'[NewSequence(v)][1]] # ProcessOf[v]
    <3>1. pc[v] = "raised" /\ latest[v].sequence \in 0..N
      BY <1>4, <2>2 DEF Core, ReadInv
    <3>2. /\ NewSequence(v) \in 1..N
          /\ ProcessOf[history[NewSequence(v)][1]] # ProcessOf[v]
      BY <1>1, <3>1 DEF Core, RivalInv, NewSequence
    <3> QED
      BY <1>1, <3>2
  <2>3. \A v \in Writers : NewSequence(v)' = NewSequence(v)
    BY <1>4 DEF NewSequence
  <2> QED
    BY <1>1, <1>4, <2>1, <2>2, <2>3 DEF RivalInv
<1> QED
  BY <1>3, <1>6, <1>7 DEF Core

LEMMA IInvStep == IInv /\ [Next]_vars => IInv'
<1> SUFFICES ASSUME IInv, [Next]_vars PROVE IInv'
  OBVIOUS
<1>1. Types /\ Types' /\ (faults = 0 => Core)
  BY TypeStep DEF IInv
<1>2. SUFFICES ASSUME faults' = 0 PROVE Core'
  BY <1>1 DEF IInv
<1>3. ASSUME NEW w \in Writers, Insert(w) PROVE Core'
  <2>1. faults = 0
    BY <1>2, <1>3 DEF Insert
  <2> QED
    BY <1>1, <1>3, <2>1, CoreInsert
<1>4. ASSUME NEW i \in Sequence, Alter(i) \/ Lose(i) PROVE FALSE
  BY <1>1, <1>2, <1>4 DEF Alter, Lose, Types
<1>5. ASSUME \/ \E w \in Writers : SaveState(w) \/ ReadLatest(w) \/ InsertRaises(w)
             \/ \E p \in Processes : Crash(p)
             \/ UNCHANGED vars
      PROVE  Core'
  <2>1. faults = 0
    BY <1>2, <1>5 DEF SaveState, ReadLatest, InsertRaises, Crash, vars
  <2> QED
    BY <1>1, <1>5, <2>1, CoreQuietStep
<1> QED
  BY <1>3, <1>4, <1>5 DEF Next, Write

THEOREM Invariance == Spec => []IInv
<1> QED
  BY InitInv, IInvStep, PTL DEF Spec

\* Untouched rows are numbered without a gap and verify, however the appends of
\* any number of writers and processes interleave and wherever they crash
\* (LedgerStore.append and verify).
THEOREM ChainIsIntact == Spec => []ChainIntact
<1>1. IInv => ChainIntact
  <2> SUFFICES ASSUME IInv, faults = 0
               PROVE  Sequence = 1..Cardinality(Sequence) /\ Verify
    BY DEF ChainIntact
  <2>1. Types /\ RowsInv /\ N \in Nat
    BY DEF IInv, Core, Types, N
  <2>2. Cardinality(1..N) = N
    BY <2>1, FS_Interval
  <2> QED
    BY <2>1, <2>2, ChainVerifies DEF RowsInv
<1> QED
  BY <1>1, Invariance, PTL

\* append raises only because a process without the lock took the number: the
\* writers of one process never collide.
THEOREM RivalsOnly == Spec => []OnlyRivalsCollide
<1>1. IInv => OnlyRivalsCollide
  <2> SUFFICES ASSUME IInv, faults = 0, NEW w \in Writers, pc[w] = "raised"
               PROVE  ProcessOf[rows[NewSequence(w)].event[1]] # ProcessOf[w]
    BY DEF OnlyRivalsCollide
  <2>1. Types /\ RowsInv /\ ReadInv /\ RivalInv
    BY DEF IInv, Core
  <2>2. NewSequence(w) \in 1..N
    BY <2>1 DEF ReadInv, RivalInv, NewSequence, Types, N
  <2>3. ASSUME NEW i \in 1..N PROVE rows[i].event = history[i]
    <3>1. rows[i] = [event |-> history[i], prev |-> HashAt(i - 1),
                     hash |-> Digest(i, history[i], HashAt(i - 1))]
      BY <2>1 DEF RowsInv
    <3> QED
      BY <3>1
  <2> QED
    BY <2>1, <2>2, <2>3 DEF RivalInv
<1> QED
  BY <1>1, Invariance, PTL

RecordsHistory == LogRows = history

LEMMA RecordedIsHistory == IInv /\ faults = 0 => RecordsHistory
<1> SUFFICES ASSUME IInv, faults = 0 PROVE LogRows = history
  BY DEF RecordsHistory
<1>1. Types /\ RowsInv /\ N \in Nat
  BY DEF IInv, Core, Types, N
<1>2. Cardinality(Sequence) = N
  BY <1>1, FS_Interval DEF RowsInv
<1>3. ASSUME NEW i \in 1..N PROVE rows[i].event = history[i]
  <2>1. rows[i] = [event |-> history[i], prev |-> HashAt(i - 1),
                   hash |-> Digest(i, history[i], HashAt(i - 1))]
    BY <1>1 DEF RowsInv
  <2> QED
    BY <2>1
<1>4. history = [i \in 1..N |-> history[i]]
  BY DEF IInv, Types, N
<1> QED
  BY <1>2, <1>3, <1>4 DEF LogRows

LEMMA NoFaultBefore == ASSUME Types, [Next]_vars, faults' = 0 PROVE faults = 0
<1>1. ASSUME NEW w \in Writers, SaveState(w) \/ Write(w) PROVE faults' = faults
  BY <1>1 DEF Write, SaveState, ReadLatest, Insert, InsertRaises
<1>2. ASSUME NEW i \in Sequence, Alter(i) \/ Lose(i) PROVE faults' = faults + 1
  BY <1>2 DEF Alter, Lose
<1>3. ASSUME \/ \E p \in Processes : Crash(p)
             \/ UNCHANGED vars
      PROVE  faults' = faults
  BY <1>3 DEF Crash, vars
<1>4. faults \in Nat
  BY LedgerAssumption DEF Types
<1> QED
  BY <1>1, <1>2, <1>3, <1>4 DEF Next

\* While nobody else touches the rows the ledger implements the append-only log:
\* no step of any writer, no refused insert and no crash changes or removes an
\* event.
THEOREM ImplementsLog == Spec => AppendsOnly
<1>1. Init => Log!Init
  <2> SUFFICES ASSUME Init PROVE LogRows = <<>>
    BY DEF Log!Init
  <2> QED
    BY InitInv, RecordedIsHistory DEF Init, RecordsHistory
<1>2. ASSUME IInv, IInv', [Next]_vars, faults' = 0
      PROVE  LogRows' = LogRows \/ \E e \in Events : LogRows' = Append(LogRows, e)
  <2>1. ASSUME NEW w \in Writers, Insert(w)
        PROVE  \E e \in Events : history' = Append(history, e)
    BY <1>2, <2>1 DEF Insert, Events, IInv, Types
  <2>2. ASSUME \/ \E w \in Writers : SaveState(w) \/ ReadLatest(w) \/ InsertRaises(w)
               \/ \E p \in Processes : Crash(p)
               \/ \E i \in Sequence : Alter(i) \/ Lose(i)
               \/ UNCHANGED vars
        PROVE  history' = history
    BY <2>2 DEF SaveState, ReadLatest, InsertRaises, Crash, Alter, Lose, vars
  <2>3. faults = 0
    BY <1>2, NoFaultBefore DEF IInv
  <2>4. LogRows = history
    BY <1>2, <2>3, RecordedIsHistory DEF RecordsHistory
  <2>5. (IInv /\ faults = 0 => RecordsHistory)'
    BY RecordedIsHistory, PTL
  <2>6. LogRows' = history'
    BY <1>2, <2>5 DEF RecordsHistory
  <2> QED
    BY <1>2, <2>1, <2>2, <2>4, <2>6 DEF Next, Write
<1>3. IInv /\ IInv' /\ [Next]_vars => [faults' = 0 => Log!Next \/ UNCHANGED LogRows]_vars
  BY <1>2 DEF Log!Next
<1> QED
  BY <1>1, <1>3, Invariance, PTL DEF AppendsOnly, Spec
-----------------------------------------------------------------------------
(***************************************************************************)
(* What holds of rows that were altered or lost, too.  Storage changes the *)
(* event of a row and takes whole rows away; the hash of a row that is     *)
(* there is still the one computed when it was written, over an event of   *)
(* the history and the hash of a row that was written before.              *)
(***************************************************************************)

RowTypes ==
  /\ Sequence \subseteq 1..N
  /\ \A i \in Sequence :
       /\ rows[i] = [event |-> rows[i].event, prev |-> rows[i].prev, hash |-> rows[i].hash]
       /\ rows[i].event \in Events
  /\ row \in Events \cup {None}
  /\ \A w \in Writers : latest[w].sequence \in 0..N
  /\ crashes \in 0..MaxCrashes

\* The hash of number seq was computed over one of the first events.
Made(hash, seq, last) ==
  IF seq = 0 THEN hash = ZeroHash
  ELSE \E j \in 1..last : hash = Digest(seq, history[j], hash[3])

\* No step is recorded twice.
RecordedOnce ==
  /\ \A j, k \in 1..N : history[j] = history[k] => j = k
  /\ \A w \in Writers, k \in 1..N :
       history[k][1] = w =>
         /\ history[k][2] <= written[w]
         /\ pc[w] \in {"append", "insert"} => history[k][2] < written[w]

ReadTrue ==
  \A w \in Writers : pc[w] = "insert" => Made(latest[w].hash, latest[w].sequence, N)

RowsTrue ==
  \A i \in Sequence : \E k \in 1..N :
    /\ rows[i].hash = Digest(i, history[k], rows[i].prev)
    /\ Made(rows[i].prev, i - 1, k - 1)

TruthInv == RecordedOnce /\ ReadTrue /\ RowsTrue

\* A nonempty set of natural numbers has a smallest one.
LEMMA Smallest ==
  ASSUME NEW S, S \subseteq Nat, S # {}
  PROVE  \E m \in S : \A n \in S : m <= n
<1> DEFINE R == {pair \in Nat \X Nat : pair[1] < pair[2]}
<1>1. IsWellFoundedOn(R, Nat)
  BY NatLessThanWellFounded DEF OpToRel
<1>2. PICK m \in S : \A n \in S : <<n, m>> \notin R
  BY <1>1, WFMin
<1>3. ASSUME NEW n \in S PROVE m <= n
  <2>1. <<n, m>> \in Nat \X Nat /\ <<n, m>> \notin R /\ m \in Nat /\ n \in Nat
    BY <1>2
  <2> QED
    BY <2>1
<1> QED
  BY <1>3

\* A nonempty set of numbers up to n has a highest one.
LEMMA HighestExists ==
  ASSUME NEW n \in Nat, NEW S, S \subseteq 1..n, S # {}
  PROVE  Highest(S) \in S /\ \A i \in S : i <= Highest(S)
<1> DEFINE B == {b \in Nat : \A i \in S : i <= b}
<1>1. n \in B
  OBVIOUS
<1>2. PICK m \in B : \A b \in B : m <= b
  BY <1>1, Smallest
<1>3. m \in S
  <2> SUFFICES ASSUME m \notin S PROVE FALSE
    OBVIOUS
  <2>1. \A i \in S : i \in Nat /\ i >= 1 /\ i <= m /\ i # m
    BY <1>2
  <2>2. m \in Nat /\ m >= 1 /\ \A i \in S : i <= m - 1
    <3>1. m \in Nat
      BY <1>2
    <3>2. PICK i \in S : TRUE
      OBVIOUS
    <3> QED
      BY <2>1, <3>1, <3>2
  <2>3. m - 1 \in B
    BY <2>2
  <2> QED
    BY <1>2, <2>2, <2>3
<1>4. Highest(S) = m
  BY <1>2, <1>3, HighestIs
<1> QED
  BY <1>2, <1>3, <1>4

\* The latest row is the one with the highest number.
LEMMA LastRowIs ==
  ASSUME N \in Nat, Sequence \subseteq 1..N
  PROVE  /\ LastRow.sequence \in 0..N
         /\ Sequence = {} => LastRow.sequence = 0 /\ LastRow.hash = ZeroHash
         /\ Sequence # {} => /\ LastRow.sequence \in Sequence
                             /\ LastRow.hash = rows[LastRow.sequence].hash
<1>1. CASE Sequence = {}
  BY <1>1 DEF LastRow, NoRow
<1>2. CASE Sequence # {}
  <2>1. Highest(Sequence) \in Sequence
    BY <1>2, HighestExists
  <2>2. LastRow.sequence = Highest(Sequence) /\ LastRow.hash = rows[Highest(Sequence)].hash
    BY <1>2 DEF LastRow
  <2>3. Highest(Sequence) \in 0..N
    <3> DEFINE h == Highest(Sequence)
    <3>1. h \in 1..N
      BY <2>1
    <3> HIDE DEF h
    <3>2. h \in 0..N
      BY <3>1
    <3> QED
      BY <3>2 DEF h
  <2> QED
    BY <1>2, <2>1, <2>2, <2>3
<1> QED
  BY <1>1, <1>2

\* The history only grows.
LEMMA HistoryGrows ==
  ASSUME Types,
         history' = history \/ \E e \in Events : history' = Append(history, e)
  PROVE  /\ N \in Nat /\ N' \in Nat /\ N <= N' /\ DOMAIN history = 1..N
         /\ DOMAIN history' = 1..N' /\ \A k \in 1..N : history'[k] = history[k]
BY DEF Types, N

\* What was computed over an event stays computed over it.
LEMMA MadeStays ==
  ASSUME Types, history' = history \/ \E e \in Events : history' = Append(history, e),
         NEW hash, NEW seq, NEW last \in 0..N, NEW more \in Nat, last <= more,
         Made(hash, seq, last)
  PROVE  IF seq = 0 THEN hash = ZeroHash
         ELSE \E j \in 1..more : hash = Digest(seq, history'[j], hash[3])
BY HistoryGrows DEF Made

\* Every step of a writer or a process, and every fault, either leaves the
\* history alone or adds the event of an insert.
LEMMA HistorySteps ==
  ASSUME Types, [Next]_vars
  PROVE  history' = history \/ \E e \in Events : history' = Append(history, e)
<1>1. ASSUME NEW w \in Writers, Insert(w) PROVE <<w, written[w]>> \in Events
  BY <1>1 DEF Types, Insert, Events
<1>2. ASSUME NEW w \in Writers, Insert(w) PROVE history' = Append(history, <<w, written[w]>>)
  BY <1>2 DEF Insert
<1> QED
  BY <1>1, <1>2
  DEF Next, Write, SaveState, ReadLatest, InsertRaises, Crash, Alter, Lose, vars

\* What an insert does to the rows.
LEMMA InsertRows ==
  ASSUME Types, RowTypes, NEW w \in Writers, Insert(w)
  PROVE  LET new == NewSequence(w) IN
         /\ new \in 1..(N + 1) /\ new \notin Sequence
         /\ N \in Nat /\ N' = N + 1 /\ Sequence' = Sequence \cup {new}
         /\ rows'[new] = NewRow(w) /\ \A i \in Sequence : rows'[i] = rows[i]
         /\ history' = Append(history, <<w, written[w]>>)
         /\ history'[N + 1] = <<w, written[w]>> /\ <<w, written[w]>> \in Events
<1> DEFINE new == NewSequence(w)
<1>1. /\ new \notin Sequence /\ history' = Append(history, <<w, written[w]>>)
      /\ rows' = [i \in Sequence \cup {new} |-> IF i = new THEN NewRow(w) ELSE rows[i]]
  BY DEF Insert
<1>2. <<w, written[w]>> \in Events /\ history \in Seq(Events)
  BY DEF Types, Insert, Events
<1>3. N \in Nat /\ N' = N + 1 /\ history'[N + 1] = <<w, written[w]>>
  BY <1>1, <1>2 DEF N
<1>4. new \in 1..(N + 1)
  BY <1>3 DEF NewSequence, RowTypes
<1> HIDE DEF new
<1>5. /\ DOMAIN rows' = Sequence \cup {new} /\ rows'[new] = NewRow(w)
      /\ \A i \in Sequence : rows'[i] = rows[i]
  BY <1>1
<1> QED
  BY <1>1, <1>2, <1>3, <1>4, <1>5 DEF new, Sequence

\* What a fault does to the rows: their hashes and links are as before.
LEMMA FaultRows ==
  ASSUME RowTypes, NEW i \in Sequence, Alter(i) \/ Lose(i)
  PROVE  /\ Sequence' \subseteq Sequence
         /\ \A j \in Sequence' :
              /\ rows'[j].hash = rows[j].hash /\ rows'[j].prev = rows[j].prev
              /\ rows'[j] = [event |-> rows'[j].event, prev |-> rows'[j].prev,
                             hash |-> rows'[j].hash]
              /\ rows'[j].event \in Events
<1>1. CASE Alter(i)
  <2>1. PICK e \in Events : rows' = [rows EXCEPT ![i] = [rows[i] EXCEPT !.event = e]]
    BY <1>1 DEF Alter
  <2> DEFINE r == [event |-> e, prev |-> rows[i].prev, hash |-> rows[i].hash]
  <2>2. [rows[i] EXCEPT !.event = e] = r
    <3>1. PICK a, b, c : rows[i] = [event |-> a, prev |-> b, hash |-> c]
      BY DEF RowTypes
    <3> QED
      BY <3>1
  <2>3. /\ DOMAIN rows' = Sequence /\ rows'[i] = r
        /\ \A j \in Sequence \ {i} : rows'[j] = rows[j]
    BY <2>1, <2>2 DEF Sequence
  <2> QED
    BY <2>3 DEF RowTypes, Sequence
<1>2. CASE Lose(i)
  <2>1. DOMAIN rows' = Sequence \ {i} /\ \A j \in Sequence \ {i} : rows'[j] = rows[j]
    BY <1>2 DEF Lose
  <2> QED
    BY <2>1 DEF RowTypes, Sequence
<1> QED
  BY <1>1, <1>2

LEMMA RowTypesInit == Init => RowTypes /\ TruthInv
<1> SUFFICES ASSUME Init PROVE RowTypes /\ TruthInv
  OBVIOUS
<1>1. N = 0 /\ Sequence = {} /\ history = <<>>
  BY DEF Init, N, Sequence
<1>2. RowTypes
  BY <1>1, LedgerAssumption DEF Init, RowTypes, NoRow
<1>3. TruthInv
  BY <1>1 DEF Init, TruthInv, RecordedOnce, ReadTrue, RowsTrue
<1> QED
  BY <1>2, <1>3

\* Rows come from inserts alone, whose number follows the one read.
LEMMA RowTypesStep == Types /\ RowTypes /\ [Next]_vars => RowTypes'
<1> SUFFICES ASSUME Types, RowTypes, [Next]_vars PROVE RowTypes'
  OBVIOUS
<1>1. /\ N \in Nat /\ N' \in Nat /\ N <= N'
      /\ \A x \in 0..N : x \in 0..N'
      /\ \A x \in 1..N : x \in 1..N'
  BY HistorySteps, HistoryGrows
<1>2. ASSUME NEW w \in Writers, SaveState(w) PROVE RowTypes'
  <2>1. /\ written[w] \in 0..MaxWrites /\ written[w] < MaxWrites
        /\ written'[w] = written[w] + 1 /\ row' = <<w, written'[w]>>
    BY <1>2 DEF SaveState, Types
  <2>2. row' \in Events
    BY <2>1, LedgerAssumption DEF Events
  <2> QED
    BY <1>2, <2>2 DEF SaveState, RowTypes, N, Sequence
<1>3. ASSUME NEW w \in Writers, ReadLatest(w) PROVE RowTypes'
  <2>1. LastRow.sequence \in 0..N
    BY <1>1, LastRowIs DEF RowTypes
  <2>2. latest' = [latest EXCEPT ![w] = LastRow] /\ UNCHANGED <<rows, row, history, crashes>>
    BY <1>3 DEF ReadLatest
  <2>3. \A v \in Writers : latest'[v].sequence \in 0..N
    BY <2>1, <2>2 DEF Types, RowTypes
  <2> QED
    BY <2>2, <2>3 DEF RowTypes, N, Sequence
<1>4. ASSUME NEW w \in Writers, Insert(w) PROVE RowTypes'
  <2> DEFINE new == NewSequence(w)
  <2>1. /\ new \in 1..(N + 1) /\ N' = N + 1 /\ Sequence' = Sequence \cup {new}
        /\ rows'[new] = NewRow(w) /\ \A i \in Sequence : rows'[i] = rows[i]
        /\ <<w, written[w]>> \in Events
    BY <1>4, InsertRows
  <2>2. UNCHANGED <<row, latest, crashes>>
    BY <1>4 DEF Insert
  <2> HIDE DEF new
  <2>3. Sequence' \subseteq 1..N'
    BY <1>1, <2>1 DEF RowTypes
  <2>4. ASSUME NEW i \in Sequence'
        PROVE  /\ rows'[i] = [event |-> rows'[i].event, prev |-> rows'[i].prev,
                              hash |-> rows'[i].hash]
               /\ rows'[i].event \in Events
    BY <2>1, <2>4 DEF RowTypes, NewRow
  <2> QED
    BY <1>1, <2>2, <2>3, <2>4 DEF RowTypes
<1>5. ASSUME NEW w \in Writers, InsertRaises(w) PROVE RowTypes'
  BY <1>5 DEF InsertRaises, RowTypes, N, Sequence
<1>6. ASSUME NEW p \in Processes, Crash(p) PROVE RowTypes'
  BY <1>6, LedgerAssumption DEF Crash, RowTypes, N, Sequence
<1>7. ASSUME NEW i \in Sequence, Alter(i) \/ Lose(i) PROVE RowTypes'
  <2>1. UNCHANGED <<row, latest, history, crashes>>
    BY <1>7 DEF Alter, Lose
  <2> QED
    BY <1>7, <2>1, FaultRows DEF RowTypes, N
<1>8. CASE UNCHANGED vars
  BY <1>8 DEF vars, RowTypes, N, Sequence
<1> QED
  BY <1>2, <1>3, <1>4, <1>5, <1>6, <1>7, <1>8 DEF Next, Write

\* A step is recorded by the writer that took it, and once.
LEMMA RecordedOnceStep == Types /\ RowTypes /\ RecordedOnce /\ [Next]_vars => RecordedOnce'
<1> SUFFICES ASSUME Types, RowTypes, RecordedOnce, [Next]_vars PROVE RecordedOnce'
  OBVIOUS
<1>1. \A w \in Writers : written[w] \in Nat
  BY LedgerAssumption DEF Types
<1>2. \A k \in 1..N : history[k][1] \in Writers /\ history[k][2] \in Nat
  <2>1. \A k \in 1..N : history[k] \in Events
    BY DEF Types, N
  <2> QED
    BY <2>1, LedgerAssumption DEF Events
<1>3. ASSUME NEW w \in Writers, SaveState(w) PROVE RecordedOnce'
  <2>1. /\ written' = [written EXCEPT ![w] = written[w] + 1]
        /\ pc' = [pc EXCEPT ![w] = "append"] /\ history' = history
    BY <1>3 DEF SaveState
  <2>2. \A v \in Writers : written'[v] = (IF v = w THEN written[w] + 1 ELSE written[v])
                           /\ (v # w => pc'[v] = pc[v])
    BY <2>1 DEF Types
  <2> QED
    BY <1>1, <1>2, <2>1, <2>2 DEF RecordedOnce, N
<1>4. ASSUME NEW w \in Writers, Insert(w) PROVE RecordedOnce'
  <2>1. /\ N \in Nat /\ N' = N + 1 /\ history'[N + 1] = <<w, written[w]>>
        /\ \A k \in 1..N : history'[k] = history[k]
    BY <1>4, InsertRows, HistorySteps, HistoryGrows
  <2>2. pc[w] = "insert" /\ pc' = [pc EXCEPT ![w] = "idle"] /\ written' = written
    BY <1>4 DEF Insert
  <2>3. pc'[w] = "idle" /\ \A v \in Writers : v # w => pc'[v] = pc[v]
    BY <2>2 DEF Types
  <2>4. \A k \in 1..N : history[k] # <<w, written[w]>>
    BY <1>1, <1>2, <2>2 DEF RecordedOnce
  <2>5. ASSUME NEW j \in 1..(N + 1), NEW k \in 1..(N + 1), history'[j] = history'[k]
        PROVE  j = k
    BY <2>1, <2>4, <2>5 DEF RecordedOnce
  <2>6. ASSUME NEW v \in Writers, NEW k \in 1..(N + 1), history'[k][1] = v
        PROVE  /\ history'[k][2] <= written[v]
               /\ pc'[v] \in {"append", "insert"} => history'[k][2] < written[v]
    <3>1. CASE k \in 1..N
      BY <2>1, <2>3, <2>6, <3>1 DEF RecordedOnce
    <3>2. CASE k = N + 1
      BY <1>1, <2>1, <2>3, <2>6, <3>2
    <3> QED
      BY <2>1, <3>1, <3>2
  <2> QED
    BY <2>1, <2>2, <2>5, <2>6 DEF RecordedOnce
<1>5. ASSUME UNCHANGED <<history, written>>,
             \A v \in Writers : pc'[v] \in {"append", "insert"} => pc[v] \in {"append", "insert"}
      PROVE  RecordedOnce'
  BY <1>5 DEF RecordedOnce, N
<1>6. ASSUME NEW w \in Writers, ReadLatest(w) \/ InsertRaises(w) PROVE RecordedOnce'
  BY <1>5, <1>6 DEF ReadLatest, InsertRaises, Types
<1>7. ASSUME NEW p \in Processes, Crash(p) PROVE RecordedOnce'
  BY <1>5, <1>7 DEF Crash
<1>8. ASSUME NEW i \in Sequence, Alter(i) \/ Lose(i) PROVE RecordedOnce'
  BY <1>5, <1>8 DEF Alter, Lose
<1>9. CASE UNCHANGED vars
  BY <1>5, <1>9 DEF vars
<1> QED
  BY <1>3, <1>4, <1>6, <1>7, <1>8, <1>9 DEF Next, Write

\* What a writer is about to chain to was computed over the history.
LEMMA ReadTrueStep ==
  Types /\ RowTypes /\ ReadTrue /\ RowsTrue /\ [Next]_vars => ReadTrue'
<1> SUFFICES ASSUME Types, RowTypes, ReadTrue, RowsTrue, [Next]_vars,
                    NEW w \in Writers, pc'[w] = "insert"
             PROVE  Made(latest[w].hash, latest[w].sequence, N)'
  BY DEF ReadTrue
<1>1. N \in Nat /\ N' \in Nat /\ N <= N' /\ N \in 0..N
  BY HistorySteps, HistoryGrows
<1>2. CASE ReadLatest(w)
  <2>1. latest'[w] = LastRow /\ history' = history /\ N' = N
    BY <1>2 DEF ReadLatest, Types, N
  <2>2. Made(LastRow.hash, LastRow.sequence, N)
    <3>1. CASE Sequence = {}
      BY <1>1, <3>1, LastRowIs DEF RowTypes, Made
    <3>2. CASE Sequence # {}
      <4> DEFINE i == LastRow.sequence
      <4>1. i \in Sequence /\ LastRow.hash = rows[i].hash /\ i # 0
        BY <1>1, <3>2, LastRowIs DEF RowTypes
      <4> HIDE DEF i
      <4>2. PICK k \in 1..N : rows[i].hash = Digest(i, history[k], rows[i].prev)
        BY <4>1 DEF RowsTrue
      <4>3. rows[i].hash[3] = rows[i].prev
        BY <4>2 DEF Digest
      <4>4. Made(rows[i].hash, i, N)
        BY <4>1, <4>2, <4>3 DEF Made
      <4> QED
        BY <4>1, <4>4 DEF i
    <3> QED
      BY <3>1, <3>2
  <2> QED
    BY <2>1, <2>2 DEF Made
<1>3. CASE ~ReadLatest(w)
  <2>1. pc[w] = "insert" /\ latest'[w] = latest[w]
    BY <1>3 DEF Next, Write, SaveState, ReadLatest, Insert, InsertRaises, Crash, Alter, Lose,
                vars, Types
  <2>2. Made(latest[w].hash, latest[w].sequence, N)
    BY <2>1 DEF ReadTrue
  <2> DEFINE hash == latest[w].hash
             seq == latest[w].sequence
  <2> HIDE DEF hash, seq
  <2>3. Made(hash, seq, N)
    BY <2>2 DEF hash, seq
  <2>4. IF seq = 0 THEN hash = ZeroHash
        ELSE \E j \in 1..N' : hash = Digest(seq, history'[j], hash[3])
    BY <1>1, <2>3, HistorySteps, MadeStays
  <2> QED
    BY <2>1, <2>4 DEF hash, seq, Made
<1> QED
  BY <1>2, <1>3

\* Every row is still the one written, but for its event.
LEMMA RowsTrueStep ==
  Types /\ RowTypes /\ ReadTrue /\ RowsTrue /\ [Next]_vars => RowsTrue'
<1> SUFFICES ASSUME Types, RowTypes, ReadTrue, RowsTrue, [Next]_vars, NEW i \in Sequence'
             PROVE  \E k \in 1..N' :
                      /\ rows'[i].hash = Digest(i, history'[k], rows'[i].prev)
                      /\ Made(rows[i].prev, i - 1, k - 1)'
  BY DEF RowsTrue, Digest
<1>1. /\ N \in Nat /\ N' \in Nat /\ N <= N'
      /\ history' = history \/ \E e \in Events : history' = Append(history, e)
      /\ \A k \in 1..N : history'[k] = history[k]
  BY HistorySteps, HistoryGrows
<1>2. ASSUME i \in Sequence, rows'[i].hash = rows[i].hash, rows'[i].prev = rows[i].prev
      PROVE  \E k \in 1..N' :
               /\ rows'[i].hash = Digest(i, history'[k], rows'[i].prev)
               /\ Made(rows[i].prev, i - 1, k - 1)'
  <2>1. PICK k \in 1..N : /\ rows[i].hash = Digest(i, history[k], rows[i].prev)
                          /\ Made(rows[i].prev, i - 1, k - 1)
    BY <1>2 DEF RowsTrue
  <2> DEFINE prev == rows[i].prev
  <2> HIDE DEF prev
  <2>2. k - 1 \in 0..N /\ k - 1 \in Nat /\ k \in 1..N' /\ Made(prev, i - 1, k - 1)
    BY <1>1, <2>1 DEF prev
  <2>3. IF i - 1 = 0 THEN prev = ZeroHash
        ELSE \E j \in 1..(k - 1) : prev = Digest(i - 1, history'[j], prev[3])
    <3> DEFINE seq == i - 1
               last == k - 1
    <3>1. last \in 0..N /\ last \in Nat /\ last <= last /\ Made(prev, seq, last)
      BY <2>2
    <3> HIDE DEF seq, last
    <3>2. IF seq = 0 THEN prev = ZeroHash
          ELSE \E j \in 1..last : prev = Digest(seq, history'[j], prev[3])
      BY <1>1, <3>1, MadeStays
    <3> QED
      BY <3>2 DEF seq, last
  <2>4. Made(rows[i].prev, i - 1, k - 1)'
    BY <1>2, <2>3 DEF Made, prev
  <2> QED
    BY <1>1, <1>2, <2>1, <2>2, <2>4
<1>3. ASSUME NEW w \in Writers, Insert(w)
      PROVE  \E k \in 1..N' :
               /\ rows'[i].hash = Digest(i, history'[k], rows'[i].prev)
               /\ Made(rows[i].prev, i - 1, k - 1)'
  <2> DEFINE new == NewSequence(w)
  <2>1. /\ N' = N + 1 /\ Sequence' = Sequence \cup {new} /\ rows'[new] = NewRow(w)
        /\ \A x \in Sequence : rows'[x] = rows[x]
        /\ history'[N + 1] = <<w, written[w]>>
    BY <1>3, InsertRows
  <2>2. CASE i \in Sequence
    BY <1>2, <2>1, <2>2
  <2>3. CASE i = new
    <3> DEFINE hash == latest[w].hash
               seq == latest[w].sequence
    <3>1. /\ rows'[i].prev = hash /\ i = seq + 1
          /\ rows'[i].hash = Digest(i, <<w, written[w]>>, hash)
      BY <2>1, <2>3 DEF NewRow, NewSequence
    <3>2. seq \in Nat /\ Made(hash, seq, N)
      <4>1. pc[w] = "insert"
        BY <1>3 DEF Insert
      <4> QED
        BY <1>1, <4>1 DEF ReadTrue, RowTypes
    <3> HIDE DEF hash, seq
    <3>3. IF seq = 0 THEN hash = ZeroHash
          ELSE \E j \in 1..N : hash = Digest(seq, history'[j], hash[3])
      <4>1. N \in 0..N /\ N <= N
        BY <1>1
      <4> QED
        BY <1>1, <3>2, <4>1, MadeStays
    <3>4. i - 1 = seq /\ (N + 1) - 1 = N /\ N + 1 \in 1..N'
      BY <1>1, <2>1, <3>1, <3>2
    <3> QED
      BY <2>1, <3>1, <3>3, <3>4 DEF Made
  <2> QED
    BY <2>1, <2>2, <2>3
<1>4. ASSUME NEW x \in Sequence, Alter(x) \/ Lose(x)
      PROVE  i \in Sequence /\ rows'[i].hash = rows[i].hash /\ rows'[i].prev = rows[i].prev
  BY <1>4, FaultRows
<1>5. ASSUME rows' = rows
      PROVE  i \in Sequence /\ rows'[i].hash = rows[i].hash /\ rows'[i].prev = rows[i].prev
  BY <1>5 DEF Sequence
<1> QED
  BY <1>2, <1>3, <1>4, <1>5
  DEF Next, Write, SaveState, ReadLatest, InsertRaises, Crash, vars

LEMMA TruthStep == Types /\ RowTypes /\ TruthInv /\ [Next]_vars => TruthInv'
BY RecordedOnceStep, ReadTrueStep, RowsTrueStep DEF TruthInv

\* The rows are typed, and their hashes those of the history, whatever storage
\* did to events and rows.
THEOREM TruthInvariance == Spec => [](Types /\ RowTypes /\ TruthInv)
<1>1. Init => Types /\ RowTypes /\ TruthInv
  BY InitInv, RowTypesInit DEF IInv
<1>2. Types /\ RowTypes /\ TruthInv /\ [Next]_vars => (Types /\ RowTypes /\ TruthInv)'
  BY TypeStep, RowTypesStep, TruthStep
<1> QED
  BY <1>1, <1>2, PTL DEF Spec

\* Sequence numbers follow the history, rows hold events of the run, and the
\* lock is some writer's: after faults, too.
THEOREM TypeCorrect == Spec => []TypeOK
<1>1. Types /\ RowTypes => TypeOK
  BY DEF Types, RowTypes, TypeOK, N
<1> QED
  BY <1>1, TruthInvariance, PTL

\* In a ledger that verifies, the event of a row is the one its hash was
\* computed over.
LEMMA EventIsRecorded ==
  ASSUME RowsTrue, Verify, NEW i \in Sequence
  PROVE  \E k \in 1..N : history[k] = rows[i].event /\ Made(rows[i].prev, i - 1, k - 1)
<1>1. PICK k \in 1..N : /\ rows[i].hash = Digest(i, history[k], rows[i].prev)
                        /\ Made(rows[i].prev, i - 1, k - 1)
  BY DEF RowsTrue
<1>2. rows[i].hash = Digest(i, rows[i].event, rows[i].prev)
  BY DEF Verify
<1> QED
  BY <1>1, <1>2 DEF Digest

\* In a ledger that verifies, every row but the first follows the one before.
LEMMA LinkedToLast ==
  ASSUME Types, RowTypes, RowsTrue, Verify, NEW i \in Sequence, i # 1
  PROVE  i - 1 \in Sequence /\ rows[i].prev = rows[i - 1].hash
<1> DEFINE before == {j \in Sequence : j < i}
<1>1. N \in Nat /\ i \in 1..N /\ i - 1 # 0 /\ before \subseteq 1..N
  BY DEF Types, RowTypes, N
<1>2. PICK k \in 1..N : Made(rows[i].prev, i - 1, k - 1)
  BY EventIsRecorded
<1>3. PICK j \in 1..(k - 1) : rows[i].prev = Digest(i - 1, history[j], rows[i].prev[3])
  BY <1>1, <1>2 DEF Made
<1>4. rows[i].prev = IF before = {} THEN ZeroHash ELSE rows[Highest(before)].hash
  BY DEF Verify
<1>5. before # {}
  <2> SUFFICES ASSUME before = {} PROVE FALSE
    OBVIOUS
  <2>1. ZeroHash = Digest(i - 1, history[j], rows[i].prev[3])
    BY <1>3, <1>4
  <2> QED
    BY <2>1 DEF ZeroHash, Digest
<1>6. Highest(before) \in before
  BY <1>1, <1>5, HighestExists
<1> DEFINE h == Highest(before)
<1>7. rows[h].hash = Digest(h, rows[h].event, rows[h].prev) /\ rows[h].hash = rows[i].prev
  BY <1>4, <1>5, <1>6 DEF Verify
<1>8. h = i - 1
  BY <1>3, <1>7 DEF Digest
<1> QED
  BY <1>6, <1>7, <1>8

\* In a ledger that verifies, the numbers have no gap.
LEMMA NoGap ==
  ASSUME Types, RowTypes, RowsTrue, Verify
  PROVE  Sequence = 1..Cardinality(Sequence)
<1>1. N \in Nat /\ Sequence \subseteq 1..N
  BY DEF Types, RowTypes, N
<1>2. CASE Sequence = {}
  <2>1. Cardinality(Sequence) = 0
    BY <1>2, FS_EmptySet
  <2> QED
    BY <1>2, <2>1
<1>3. CASE Sequence # {}
  <2> DEFINE m == Highest(Sequence)
  <2>1. m \in Sequence /\ \A i \in Sequence : i <= m
    BY <1>1, <1>3, HighestExists
  <2> HIDE DEF m
  <2>2. m \in Nat /\ Sequence \subseteq 1..m
    BY <1>1, <2>1
  <2>3. ASSUME NEW k \in 1..m, k \notin Sequence PROVE FALSE
    <3> DEFINE J == {j \in Sequence : k < j}
    <3>1. m \in J
      BY <2>1, <2>2, <2>3
    <3>2. J \subseteq Nat
      <4>1. \A x \in Sequence : x \in Nat
        BY <2>2
      <4> QED
        BY <4>1
    <3>3. PICK j \in J : \A x \in J : j <= x
      BY <3>1, <3>2, Smallest
    <3>4. j \in Sequence /\ j \in Nat /\ j # 1 /\ k < j /\ k \in Nat
      BY <2>3, <3>2, <3>3
    <3>5. j - 1 \in Sequence
      BY <3>4, LinkedToLast
    <3>6. j - 1 \in J
      BY <2>3, <3>4, <3>5
    <3> QED
      BY <3>3, <3>4, <3>6
  <2>4. Sequence = 1..m
    BY <2>2, <2>3
  <2>5. Cardinality(1..m) = m
    BY <2>2, FS_Interval
  <2> QED
    BY <2>4, <2>5
<1> QED
  BY <1>2, <1>3

\* A ledger that verifies was not tampered with in the middle: whatever was
\* altered or lost, the events it shows are the recorded ones, without a gap and
\* in the order in which they were recorded (LedgerStore.verify).
THEOREM VerifiedTellsTheTruth == Spec => []VerifiedIsTrue
<1>1. Types /\ RowTypes /\ TruthInv => VerifiedIsTrue
  <2> SUFFICES ASSUME Types, RowTypes, TruthInv, Verify
               PROVE  /\ Sequence = 1..Cardinality(Sequence)
                      /\ \E place \in [Sequence -> DOMAIN history] :
                           /\ \A i \in Sequence : history[place[i]] = rows[i].event
                           /\ \A i, j \in Sequence : i < j => place[i] < place[j]
    BY DEF VerifiedIsTrue
  <2>1. /\ RowsTrue /\ \A j, k \in 1..N : history[j] = history[k] => j = k
        /\ N \in Nat /\ DOMAIN history = 1..N /\ Sequence \subseteq 1..N
    BY DEF TruthInv, RecordedOnce, Types, RowTypes, N
  <2> DEFINE place == [i \in Sequence |-> CHOOSE k \in 1..N : history[k] = rows[i].event]
  <2>2. \A i \in Sequence : place[i] \in 1..N /\ history[place[i]] = rows[i].event
    BY <2>1, EventIsRecorded
  <2>3. place \in [Sequence -> 1..N]
    BY <2>2
  <2> HIDE DEF place
  <2>4. ASSUME NEW i \in Sequence, i # 1 PROVE place[i - 1] < place[i]
    <3>1. i - 1 \in Sequence /\ rows[i].prev = rows[i - 1].hash
      BY <2>1, <2>4, LinkedToLast
    <3>2. PICK k \in 1..N : history[k] = rows[i].event /\ Made(rows[i].prev, i - 1, k - 1)
      BY <2>1, EventIsRecorded
    <3>3. k = place[i]
      BY <2>1, <2>2, <3>2
    <3>4. i \in 1..N /\ i - 1 # 0
      BY <2>1, <2>4
    <3>5. PICK j \in 1..(k - 1) : rows[i].prev = Digest(i - 1, history[j], rows[i].prev[3])
      BY <3>2, <3>4 DEF Made
    <3>6. rows[i - 1].hash = Digest(i - 1, rows[i - 1].event, rows[i - 1].prev)
      BY <3>1 DEF Verify
    <3>7. history[j] = rows[i - 1].event
      BY <3>1, <3>5, <3>6 DEF Digest
    <3>8. j = place[i - 1]
      <4>1. j \in 1..N
        BY <2>1, <3>5
      <4> QED
        BY <2>1, <2>2, <3>1, <3>7, <4>1
    <3> QED
      BY <3>3, <3>5, <3>8
  <2>5. ASSUME NEW i \in Sequence, NEW j \in Sequence, i < j PROVE place[i] < place[j]
    <3> SUFFICES ASSUME ~(place[i] < place[j]) PROVE FALSE
      OBVIOUS
    <3> DEFINE B == {x \in Sequence : i < x /\ ~(place[i] < place[x])}
    <3>1. j \in B /\ B \subseteq Nat
      <4>1. \A x \in Sequence : x \in Nat
        BY <2>1
      <4>2. j \in B
        BY <2>5
      <4>3. B \subseteq Sequence
        OBVIOUS
      <4> QED
        BY <4>1, <4>2, <4>3
    <3>2. PICK b \in B : \A x \in B : b <= x
      BY <3>1, Smallest
    <3>3. b \in Sequence /\ i < b /\ b \in Nat /\ i \in Nat /\ i >= 1 /\ b # 1
      BY <2>1, <3>1, <3>2
    <3>4. b - 1 \in Sequence /\ place[b - 1] < place[b]
      BY <2>1, <2>4, <3>3, LinkedToLast
    <3>5. place[i] < place[b]
      <4>1. CASE b - 1 = i
        BY <3>4, <4>1
      <4>2. CASE b - 1 # i
        <5>1. b - 1 \notin B
          BY <3>2, <3>3
        <5>2. place[i] < place[b - 1]
          BY <3>3, <3>4, <4>2, <5>1
        <5>3. place[i] \in Nat /\ place[b - 1] \in Nat /\ place[b] \in Nat
          BY <2>1, <2>2, <3>3, <3>4
        <5> QED
          BY <3>4, <5>2, <5>3
      <4> QED
        BY <4>1, <4>2
    <3> QED
      BY <3>2, <3>5
  <2> QED
    BY <2>1, <2>2, <2>3, <2>5, NoGap
<1> QED
  BY <1>1, TruthInvariance, PTL
=============================================================================
