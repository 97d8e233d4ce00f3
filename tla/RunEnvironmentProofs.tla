------------------------ MODULE RunEnvironmentProofs ------------------------
(***************************************************************************)
(* What a run does outside its process: the containers of its tool calls   *)
(* and the files in its workspace.                                         *)
(*                                                                         *)
(* The containers of a step are bounded, and a success was read to its     *)
(* end: for any number of calls, attempts and restarts.                    *)
(* Neither is inductive by itself.  StartsInv counts the containers ever   *)
(* started, one for each invocation, against attempts and restarts, and    *)
(* ClientInv says what the exit of a client tells of its container.        *)
(*                                                                         *)
(* An ingest that is done lists what the workspace holds: for any          *)
(* attachments, any files in them, and any replays, edits and removals.    *)
(* Progress says what is listed and written when an attempt has come to    *)
(* entry "at"; Contained says where the other files of the workspace come  *)
(* from, also while no attempt is under way.                               *)
(***************************************************************************)
EXTENDS Sandbox, InputIngest, FiniteSetTheorems, TLAPS

StartsInv ==
  \A c \in Calls :
    /\ started[c] <= attempt[c] + crashes
    /\ pc[c] = "planned" \/ mine[c] = 0 => started[c] <= attempt[c] + crashes - 1

ClientInv ==
  \A c \in Calls :
    /\ client[c] = "live" => pc[c] = "run"
    /\ pc[c] = "run" /\ client[c] \in ExitCodes => mine[c] \notin live[c]
    /\ pc[c] \in {"image", "run", "killed"} => status[c] # "success"

IInv == TypeOK /\ StartsInv /\ ClientInv /\ SuccessIsWhole
-----------------------------------------------------------------------------
LEMMA InitInv == Init => IInv
BY SandboxAssumption
   DEF Init, IInv, TypeOK, StartsInv, ClientInv, SuccessIsWhole, ExitCodes, Statuses

LEMMA TypeStep == TypeOK /\ [Next]_vars => TypeOK'
<1> SUFFICES ASSUME TypeOK, [Next]_vars PROVE TypeOK'
  OBVIOUS
<1> USE SandboxAssumption DEF TypeOK, ExitCodes, Statuses
<1>1. ASSUME NEW c \in Calls, Invoke(c) PROVE TypeOK'
  BY <1>1 DEF Invoke
<1>2. ASSUME NEW c \in Calls, ImageFound(c) PROVE TypeOK'
  BY <1>2 DEF ImageFound
<1>3. ASSUME NEW c \in Calls, ImageMissing(c) \/ DockerMissing(c) PROVE TypeOK'
  BY <1>3 DEF ImageMissing, DockerMissing
<1>4. ASSUME NEW c \in Calls, Return(c) PROVE TypeOK'
  BY <1>4 DEF Return
<1>5. ASSUME NEW c \in Calls, TimeOut(c) PROVE TypeOK'
  BY <1>5 DEF TimeOut
<1>6. ASSUME NEW c \in Calls, Reap(c) PROVE TypeOK'
  BY <1>6 DEF Reap
<1>7. ASSUME NEW c \in Calls, Verify(c) PROVE TypeOK'
  BY <1>7 DEF Verify
<1>8. ASSUME NEW c \in Calls, ContainerStarts(c) PROVE TypeOK'
  BY <1>8 DEF ContainerStarts
<1>9. ASSUME NEW c \in Calls, NEW i \in live[c], ContainerEnds(c, i) PROVE TypeOK'
  BY <1>9 DEF ContainerEnds
<1>10. ASSUME NEW c \in Calls, RunRefused(c) PROVE TypeOK'
  BY <1>10 DEF RunRefused
<1>11. ASSUME ImageChanges PROVE TypeOK'
  BY <1>11 DEF ImageChanges
<1>12. ASSUME Crash PROVE TypeOK'
  BY <1>12 DEF Crash
<1>13. CASE UNCHANGED vars
  BY <1>13 DEF vars
<1> QED
  BY <1>1, <1>2, <1>3, <1>4, <1>5, <1>6, <1>7, <1>8, <1>9, <1>10, <1>11, <1>12, <1>13
     DEF Next, Work, Daemon

\* An invocation counts its container when it starts; a retry and a restart
\* make room for one more.
LEMMA StartsStep == TypeOK /\ ClientInv /\ StartsInv /\ [Next]_vars => StartsInv'
<1> SUFFICES ASSUME TypeOK, ClientInv, StartsInv, [Next]_vars PROVE StartsInv'
  OBVIOUS
<1> USE SandboxAssumption DEF TypeOK, StartsInv
<1>1. ASSUME NEW c \in Calls, Invoke(c) PROVE StartsInv'
  BY <1>1 DEF Invoke
<1>2. ASSUME NEW c \in Calls,
             \/ ImageFound(c) \/ ImageMissing(c) \/ DockerMissing(c) \/ Return(c)
             \/ TimeOut(c) \/ Reap(c) \/ RunRefused(c) \/ \E i \in live[c] : ContainerEnds(c, i)
      PROVE  StartsInv'
  BY <1>2 DEF ImageFound, ImageMissing, DockerMissing, Return, TimeOut, Reap, RunRefused,
     ContainerEnds
<1>3. ASSUME NEW c \in Calls, Verify(c) PROVE StartsInv'
  BY <1>3 DEF Verify
<1>4. ASSUME NEW c \in Calls, ContainerStarts(c) PROVE StartsInv'
  <2>1. pc[c] = "run" /\ mine[c] = 0
    BY <1>4 DEF ContainerStarts, ClientInv
  <2> QED
    BY <1>4, <2>1 DEF ContainerStarts
<1>5. ASSUME Crash PROVE StartsInv'
  BY <1>5 DEF Crash
<1>6. CASE ImageChanges \/ UNCHANGED vars
  BY <1>6 DEF ImageChanges, vars
<1> QED
  BY <1>1, <1>2, <1>3, <1>4, <1>5, <1>6 DEF Next, Work, Daemon

LEMMA ClientStep ==
  TypeOK /\ ClientInv /\ SuccessIsWhole /\ [Next]_vars => ClientInv' /\ SuccessIsWhole'
<1> SUFFICES ASSUME TypeOK, ClientInv, SuccessIsWhole, [Next]_vars
             PROVE  ClientInv' /\ SuccessIsWhole'
  OBVIOUS
<1> USE SandboxAssumption DEF TypeOK, ClientInv, SuccessIsWhole, ExitCodes, Statuses
<1>1. ASSUME NEW c \in Calls, Invoke(c) PROVE ClientInv' /\ SuccessIsWhole'
  BY <1>1 DEF Invoke
<1>2. ASSUME NEW c \in Calls, ImageFound(c) PROVE ClientInv' /\ SuccessIsWhole'
  BY <1>2 DEF ImageFound
<1>3. ASSUME NEW c \in Calls, ImageMissing(c) \/ DockerMissing(c)
      PROVE  ClientInv' /\ SuccessIsWhole'
  BY <1>3 DEF ImageMissing, DockerMissing
<1>4. ASSUME NEW c \in Calls, Return(c) PROVE ClientInv' /\ SuccessIsWhole'
  BY <1>4 DEF Return
<1>5. ASSUME NEW c \in Calls, TimeOut(c) PROVE ClientInv' /\ SuccessIsWhole'
  BY <1>5 DEF TimeOut
<1>6. ASSUME NEW c \in Calls, Reap(c) PROVE ClientInv' /\ SuccessIsWhole'
  BY <1>6 DEF Reap
<1>7. ASSUME NEW c \in Calls, Verify(c) PROVE ClientInv' /\ SuccessIsWhole'
  BY <1>7 DEF Verify
<1>8. ASSUME NEW c \in Calls, ContainerStarts(c) PROVE ClientInv' /\ SuccessIsWhole'
  BY <1>8 DEF ContainerStarts
<1>9. ASSUME NEW c \in Calls, NEW i \in live[c], ContainerEnds(c, i)
      PROVE  ClientInv' /\ SuccessIsWhole'
  BY <1>9 DEF ContainerEnds
<1>10. ASSUME NEW c \in Calls, RunRefused(c) PROVE ClientInv' /\ SuccessIsWhole'
  BY <1>10 DEF RunRefused
<1>11. ASSUME Crash PROVE ClientInv' /\ SuccessIsWhole'
  BY <1>11 DEF Crash
<1>12. CASE ImageChanges \/ UNCHANGED vars
  BY <1>12 DEF ImageChanges, vars
<1> QED
  BY <1>1, <1>2, <1>3, <1>4, <1>5, <1>6, <1>7, <1>8, <1>9, <1>10, <1>11, <1>12
     DEF Next, Work, Daemon

THEOREM Invariance == Spec => []IInv
<1>1. IInv /\ [Next]_vars => IInv'
  BY TypeStep, StartsStep, ClientStep DEF IInv
<1> QED
  BY InitInv, <1>1, PTL DEF Spec

\* The variables keep their types; a step's running containers are among those
\* it has started.
THEOREM TypeCorrect == Spec => []TypeOK
<1>1. IInv => TypeOK
  BY DEF IInv
<1> QED
  BY <1>1, Invariance, PTL

\* However often the process restarts, a step runs at most one container for
\* each attempt it has and each restart (execute, and the graph's verify node).
THEOREM ContainersBounded == Spec => []ContainersBound
<1>1. IInv => ContainersBound
  <2> SUFFICES ASSUME IInv, NEW c \in Calls
               PROVE  Cardinality(live[c]) <= MaxAttempts + crashes
    BY DEF ContainersBound
  <2>1. /\ started[c] \in Nat /\ live[c] \subseteq 1..started[c]
        /\ started[c] <= MaxAttempts + crashes /\ crashes \in Nat
    BY SandboxAssumption DEF IInv, TypeOK, StartsInv
  <2>2. IsFiniteSet(1..started[c]) /\ Cardinality(1..started[c]) = started[c]
    BY <2>1, FS_Interval
  <2>3. Cardinality(live[c]) \in Nat /\ Cardinality(live[c]) <= started[c]
    BY <2>1, <2>2, FS_Subset, FS_CardinalityType
  <2> QED
    BY <2>1, <2>3, SandboxAssumption
<1> QED
  BY <1>1, Invariance, PTL

\* A tool never reports success while the container it waited for still runs:
\* a client that was killed counts as a failure, one that ended was read to the
\* end of its output.
THEOREM SuccessWhole == Spec => []SuccessIsWhole
<1>1. IInv => SuccessIsWhole
  BY DEF IInv
<1> QED
  BY <1>1, Invariance, PTL
-----------------------------------------------------------------------------
Progress ==
  phase \in {"copying", "done"} =>
    /\ IsFiniteSet(Before(at)) /\ Len(artifacts) = Cardinality(Before(at))
    /\ \A f \in Before(at) : artifacts[Place(f)].path = TargetOf(f)
    /\ \A i \in DOMAIN artifacts : artifacts[i].path \in DOMAIN workspace
    /\ \A i \in DOMAIN artifacts :
         IsLatest(i) => artifacts[i].content = workspace[artifacts[i].path]
    /\ phase = "done" => at[1] > Len(list)

\* A file inside a directory that stands at the target of f: f cannot be copied.
Stray(p, f) ==
  /\ p = InsideTarget(f) /\ IsDir(TargetOf(f))
  /\ phase \in {"copying", "done"} => f \notin Before(at)

Contained ==
  \A p \in DOMAIN workspace :
    p \in gone \/ \E f \in Files : p = TargetOf(f) \/ Stray(p, f)

IngestInv == IngestTypeOK /\ Progress /\ Contained
-----------------------------------------------------------------------------
LEMMA InFiles ==
  ASSUME NEW f \in Files
  PROVE  /\ f = <<f[1], f[2]>>
         /\ f[1] \in 1..Len(list) /\ f[2] \in 1..Len(list[f[1]].entries)
BY DEF Files

LEMMA FileIn ==
  ASSUME NEW i \in 1..Len(list), NEW k \in 1..Len(list[i].entries)
  PROVE  <<i, k>> \in Files
BY DEF Files

\* What a file of the attachments is.
LEMMA FileType ==
  ASSUME IngestTypeOK, NEW f \in Files
  PROVE  /\ list[f[1]] \in Attachment
         /\ EntryAt(f) \in Entry
         /\ TargetOf(f) \in Seq(STRING)
<1>1. list \in Seq(Attachment) /\ f[1] \in 1..Len(list)
  BY InFiles DEF IngestTypeOK
<1>2. list[f[1]] \in Attachment
  BY <1>1
<1>3. /\ list[f[1]].name \in STRING
      /\ list[f[1]].entries \in Seq(Entry)
  BY <1>2 DEF Attachment
<1>4. f[2] \in 1..Len(list[f[1]].entries)
  BY InFiles
<1>5. EntryAt(f) \in Entry
  BY <1>3, <1>4 DEF EntryAt
<1>6. EntryAt(f).below \in Seq(STRING) /\ <<list[f[1]].name>> \in Seq(STRING)
  BY <1>3, <1>5 DEF Entry
<1>7. TargetOf(f) \in Seq(STRING)
  BY <1>6 DEF TargetOf
<1> QED
  BY <1>2, <1>5, <1>7

LEMMA CurrentFile ==
  ASSUME IngestTypeOK, AtEntry
  PROVE  at \in Files /\ at = <<at[1], at[2]>> /\ Current = list[at[1]]
<1>1. at \in (1..(Len(list) + 1)) \X (Nat \ {0}) /\ list \in Seq(Attachment)
  BY DEF IngestTypeOK
<1>2. at = <<at[1], at[2]>> /\ at[1] \in 1..(Len(list) + 1) /\ at[2] \in Nat \ {0}
  BY <1>1
<1>3. at[1] <= Len(list) /\ at[2] <= Len(list[at[1]].entries)
  BY DEF AtEntry, Copying, Current
<1>4. at[1] \in 1..Len(list) /\ Len(list) \in Nat
  BY <1>1, <1>2, <1>3
<1>5. list[at[1]] \in Attachment
  BY <1>1, <1>4
<1>6. Len(list[at[1]].entries) \in Nat
  BY <1>5 DEF Attachment
<1>7. at[2] \in 1..Len(list[at[1]].entries)
  BY <1>2, <1>3, <1>6
<1> QED
  BY <1>2, <1>4, <1>7, FileIn DEF Current

\* A file has its place among those before a point of the copy.
LEMMA PlaceBefore ==
  ASSUME IngestTypeOK, NEW h \in Int \X Int, IsFiniteSet(Before(h)), NEW f \in Before(h)
  PROVE  IsFiniteSet(Before(f)) /\ Place(f) \in 1..Cardinality(Before(h))
<1>1. f \in Files /\ (f[1] < h[1] \/ (f[1] = h[1] /\ f[2] < h[2]))
  BY DEF Before
<1>2. f[1] \in Int /\ f[2] \in Int
  <2>1. f[1] \in 1..Len(list) /\ f[2] \in 1..Len(list[f[1]].entries)
    BY <1>1, InFiles
  <2> QED
    BY <2>1
<1>3. ASSUME NEW g \in Before(f) PROVE g \in Before(h) /\ g # f
  <2>1. g \in Files /\ (g[1] < f[1] \/ (g[1] = f[1] /\ g[2] < f[2]))
    BY <1>3 DEF Before
  <2>2. g[1] \in 1..Len(list) /\ g[2] \in 1..Len(list[g[1]].entries)
    BY <2>1, InFiles
  <2>3. g[1] \in Int /\ g[2] \in Int /\ h[1] \in Int /\ h[2] \in Int
    BY <2>2
  <2>4. g[1] < h[1] \/ (g[1] = h[1] /\ g[2] < h[2])
    BY <1>1, <1>2, <2>1, <2>3
  <2> QED
    BY <1>2, <2>1, <2>3, <2>4 DEF Before
<1>4. Before(f) \subseteq Before(h) /\ Before(f) \subseteq Before(h) \ {f}
  BY <1>3
<1>5. /\ IsFiniteSet(Before(h) \ {f})
      /\ Cardinality(Before(h) \ {f}) = Cardinality(Before(h)) - 1
  BY FS_RemoveElement
<1>6. IsFiniteSet(Before(f)) /\ Cardinality(Before(f)) <= Cardinality(Before(h) \ {f})
  BY <1>4, <1>5, FS_Subset
<1>7. Cardinality(Before(f)) \in Nat /\ Cardinality(Before(h)) \in Nat
  BY <1>6, FS_CardinalityType
<1> QED
  BY <1>5, <1>6, <1>7 DEF Place

\* What depends only on the attachments stays with them.
LEMMA SameFiles ==
  ASSUME list' = list
  PROVE  /\ Files' = Files
         /\ \A f : /\ TargetOf(f)' = TargetOf(f) /\ InsideTarget(f)' = InsideTarget(f)
                   /\ Before(f)' = Before(f) /\ Place(f)' = Place(f)
<1>1. Files' = Files
  BY DEF Files
<1>2. ASSUME NEW f
      PROVE  /\ TargetOf(f)' = TargetOf(f) /\ InsideTarget(f)' = InsideTarget(f)
             /\ Before(f)' = Before(f)
  BY <1>1 DEF TargetOf, InsideTarget, EntryAt, Before
<1> QED
  BY <1>1, <1>2 DEF Place
-----------------------------------------------------------------------------
LEMMA IngestInitInv == IngestInit => IngestInv
<1> SUFFICES ASSUME IngestInit PROVE IngestInv
  OBVIOUS
<1>1. DOMAIN workspace = {} /\ artifacts \in Seq([path : Seq(STRING), content : Sources \cup Contents])
  BY DEF IngestInit
<1>2. list \in Seq(Attachment) /\ Len(list) \in Nat
  BY InputAssumption DEF IngestInit
<1>3. IngestTypeOK
  BY <1>1, <1>2, InputAssumption DEF IngestInit, IngestTypeOK, Copying
<1> QED
  BY <1>1, <1>3 DEF IngestInit, IngestInv, Progress, Contained

LEMMA CopyType == IngestTypeOK /\ Copy => IngestTypeOK'
<1> SUFFICES ASSUME IngestTypeOK, Copy PROVE IngestTypeOK'
  OBVIOUS
<1> DEFINE T == TargetOf(at)
           c == stored[EntryAt(at).source]
<1>1. AtEntry /\ at \in Files /\ T \in Seq(STRING) /\ EntryAt(at) \in Entry
  BY CurrentFile, FileType DEF Copy
<1>2. c \in Sources \cup Contents
  BY <1>1 DEF IngestTypeOK, Entry
<1>3. /\ DOMAIN workspace' = DOMAIN workspace \cup {T} /\ workspace'[T] = c
      /\ \A p \in DOMAIN workspace \ {T} : workspace'[p] = workspace[p]
  BY DEF Copy, Written
<1>4. \A p \in DOMAIN workspace' : workspace'[p] \in Sources \cup Contents
  BY <1>2, <1>3 DEF IngestTypeOK
<1>5. (artifacts \in Seq([path : Seq(STRING), content : Sources \cup Contents]))'
  <2> DEFINE S == [path : Seq(STRING), content : Sources \cup Contents]
  <2>1. [path |-> T, content |-> workspace'[T]] \in S
    BY <1>1, <1>2, <1>3
  <2>2. artifacts \in Seq(S) /\ artifacts' = Append(artifacts, [path |-> T, content |-> workspace'[T]])
    BY DEF IngestTypeOK, Copy
  <2> HIDE DEF S
  <2>3. artifacts' \in Seq(S)
    BY <2>1, <2>2
  <2> QED
    BY <2>3 DEF S
<1>6. gone' \subseteq DOMAIN workspace'
  BY <1>3 DEF IngestTypeOK, Copy
<1>7. at' = <<at[1], at[2] + 1>> /\ list' = list /\ phase' = phase
  BY DEF Copy
<1>8. at[1] \in 1..(Len(list) + 1) /\ at[2] \in Nat \ {0}
  BY DEF IngestTypeOK
<1>9. (at \in (1..(Len(list) + 1)) \X (Nat \ {0}))' /\ at'[1] = at[1] /\ at'[2] = at[2] + 1
  BY <1>7, <1>8
<1>10. at[2] \in 1..Len(list[at[1]].entries)
  BY <1>1, InFiles
<1>11. (Copying => at[2] <= Len(Current.entries) + 1)'
  BY <1>7, <1>9, <1>10 DEF Current
<1> QED
  BY <1>4, <1>5, <1>6, <1>7, <1>9, <1>11 DEF IngestTypeOK, Copy

LEMMA ClashType == IngestTypeOK /\ Clash => IngestTypeOK'
<1> SUFFICES ASSUME IngestTypeOK, Clash PROVE IngestTypeOK'
  OBVIOUS
<1> DEFINE T == InsideTarget(at)
           c == stored[EntryAt(at).source]
<1>1. EntryAt(at) \in Entry
  BY CurrentFile, FileType DEF Clash
<1>2. c \in Sources \cup Contents
  BY <1>1 DEF IngestTypeOK, Entry
<1>3. workspace' = workspace \/ workspace' = Written(T, c)
  BY DEF Clash
<1>4. /\ DOMAIN workspace \subseteq DOMAIN workspace'
      /\ \A p \in DOMAIN workspace' : workspace'[p] \in Sources \cup Contents
  BY <1>2, <1>3 DEF IngestTypeOK, Written
<1> QED
  BY <1>4 DEF IngestTypeOK, Clash, Copying

LEMMA RemoveAtType ==
  ASSUME NEW S, NEW s \in Seq(S), NEW k \in 1..Len(s)
  PROVE  /\ RemoveAt(s, k) \in Seq(S) /\ Len(RemoveAt(s, k)) = Len(s) - 1
         /\ \A j \in 1..(Len(s) - 1) :
              RemoveAt(s, k)[j] = IF j < k THEN s[j] ELSE s[j + 1]
<1> DEFINE a == SubSeq(s, 1, k - 1)
           b == SubSeq(s, k + 1, Len(s))
<1>1. a \in Seq(S) /\ Len(a) = k - 1 /\ \A j \in 1..(k - 1) : a[j] = s[j]
  OBVIOUS
<1>2. b \in Seq(S) /\ Len(b) = Len(s) - k /\ \A j \in 1..(Len(s) - k) : b[j] = s[k + j]
  OBVIOUS
<1> HIDE DEF a, b
<1>3. a \o b \in Seq(S) /\ Len(a \o b) = Len(s) - 1
  <2>1. a \in Seq(S) /\ b \in Seq(S)
    BY <1>1, <1>2
  <2>2. a \o b \in Seq(S)
    BY <2>1
  <2>3. Len(a \o b) = Len(a) + Len(b)
    BY <2>1
  <2>4. Len(s) \in Nat /\ k \in Int
    OBVIOUS
  <2>5. (k - 1) + (Len(s) - k) = Len(s) - 1
    BY <2>4
  <2> QED
    BY <1>1, <1>2, <2>2, <2>3, <2>5
<1>4. ASSUME NEW j \in 1..(Len(s) - 1)
      PROVE  (a \o b)[j] = IF j < k THEN s[j] ELSE s[j + 1]
  <2>1. CASE j < k
    BY <1>1, <1>2, <2>1
  <2>2. CASE ~(j < k)
    <3>1. (a \o b)[j] = b[j - (k - 1)] /\ j - (k - 1) \in 1..(Len(s) - k)
      BY <1>1, <1>2, <2>2
    <3>2. b[j - (k - 1)] = s[k + (j - (k - 1))] /\ k + (j - (k - 1)) = j + 1
      BY <1>2, <3>1
    <3> QED
      BY <2>2, <3>1, <3>2
  <2> QED
    BY <2>1, <2>2
<1> QED
  BY <1>3, <1>4 DEF RemoveAt, a, b

\* What RemoveFile makes of the attachments.
LEMMA RemovedList ==
  ASSUME IngestTypeOK, NEW i \in DOMAIN list, NEW k \in DOMAIN list[i].entries,
         RemoveFile(i, k)
  PROVE  /\ list' \in Seq(Attachment) /\ Len(list') = Len(list)
         /\ \A j \in 1..Len(list) :
              /\ list'[j].name = list[j].name
              /\ j # i => list'[j] = list[j]
         /\ list[i].entries \in Seq(Entry)
         /\ list'[i].entries = RemoveAt(list[i].entries, k)
<1>1. list \in Seq(Attachment) /\ i \in 1..Len(list) /\ list[i] \in Attachment
  BY DEF IngestTypeOK
<1>2. list[i].entries \in Seq(Entry)
  BY <1>1 DEF Attachment
<1>3. RemoveAt(list[i].entries, k) \in Seq(Entry)
  BY <1>2, RemoveAtType
<1> DEFINE a == [list[i] EXCEPT !.entries = RemoveAt(@, k),
                                !.kind = IF @ = "file" THEN "refused" ELSE @]
<1>4. /\ a \in Attachment /\ a.name = list[i].name
      /\ a.entries = RemoveAt(list[i].entries, k)
  BY <1>1, <1>3 DEF Attachment
<1>5. list' = [list EXCEPT ![i] = a]
  BY <1>1 DEF RemoveFile, Attachment
<1> HIDE DEF a
<1>6. list' \in Seq(Attachment) /\ Len(list') = Len(list) /\ list'[i] = a
  BY <1>1, <1>4, <1>5
<1>7. \A j \in 1..Len(list) : j # i => list'[j] = list[j]
  BY <1>1, <1>5
<1> QED
  BY <1>2, <1>4, <1>6, <1>7

LEMMA RemoveType ==
  ASSUME IngestTypeOK, NEW i \in DOMAIN list, NEW k \in DOMAIN list[i].entries,
         RemoveFile(i, k)
  PROVE  IngestTypeOK'
<1>1. list' \in Seq(Attachment) /\ Len(list') = Len(list)
  BY RemovedList
<1>2. ASSUME Copying' PROVE at'[2] <= Len(Current'.entries) + 1
  <2>1. phase = "copying" /\ at' = at /\ at[1] <= Len(list) /\ at[1] < i
    <3>1. phase = "copying" /\ at' = at /\ at[1] <= Len(list)
      BY <1>1, <1>2 DEF RemoveFile, Copying
    <3> QED
      BY <3>1 DEF RemoveFile
  <2>2. at[1] \in 1..Len(list) /\ at[1] # i
    BY <2>1 DEF IngestTypeOK
  <2>3. list'[at[1]] = list[at[1]]
    BY <2>2, RemovedList
  <2> QED
    BY <2>1, <2>3 DEF IngestTypeOK, Copying, Current
<1>3. gone' \subseteq DOMAIN workspace'
  BY DEF IngestTypeOK, RemoveFile
<1>4. edits' \in 0..MaxEdits
  BY InputAssumption DEF IngestTypeOK, RemoveFile
<1> QED
  BY <1>1, <1>2, <1>3, <1>4 DEF IngestTypeOK, RemoveFile

LEMMA IngestTypeStep == IngestTypeOK /\ [IngestNext]_ingestVars => IngestTypeOK'
<1> SUFFICES ASSUME IngestTypeOK, [IngestNext]_ingestVars PROVE IngestTypeOK'
  OBVIOUS
<1>1. ASSUME Begin PROVE IngestTypeOK'
  <2>1. at'[1] = 1 /\ at'[2] = 1 /\ at' \in (1..(Len(list) + 1)) \X (Nat \ {0})
    BY <1>1 DEF Begin, IngestTypeOK
  <2>2. ASSUME Copying' PROVE at'[2] <= Len(Current'.entries) + 1
    <3>1. 1 \in 1..Len(list) /\ list' = list
      BY <1>1, <2>1, <2>2 DEF Begin, Copying, IngestTypeOK
    <3>2. list[1] \in Attachment
      BY <3>1 DEF IngestTypeOK
    <3>3. Len(list[1].entries) \in Nat
      BY <3>2 DEF Attachment
    <3> QED
      BY <2>1, <3>1, <3>3 DEF Current
  <2> QED
    BY <1>1, <2>1, <2>2 DEF Begin, IngestTypeOK
<1>2. ASSUME Refuse PROVE IngestTypeOK'
  BY <1>2 DEF Refuse, Ends, IngestTypeOK, Copying
<1>3. ASSUME NextAttachment PROVE IngestTypeOK'
  <2>1. at[1] \in 1..Len(list) /\ list' = list
    BY <1>3 DEF NextAttachment, Copying, IngestTypeOK
  <2>2. /\ at'[1] = at[1] + 1 /\ at'[2] = 1
        /\ at' \in (1..(Len(list) + 1)) \X (Nat \ {0})
    BY <1>3, <2>1 DEF NextAttachment, IngestTypeOK
  <2>3. ASSUME Copying' PROVE at'[2] <= Len(Current'.entries) + 1
    <3>1. at'[1] \in 1..Len(list)
      BY <2>1, <2>2, <2>3 DEF Copying, IngestTypeOK
    <3>2. list[at'[1]] \in Attachment
      BY <3>1 DEF IngestTypeOK
    <3>3. Len(list[at'[1]].entries) \in Nat
      BY <3>2 DEF Attachment
    <3> QED
      BY <2>1, <2>2, <3>3 DEF Current
  <2> QED
    BY <1>3, <2>1, <2>2, <2>3 DEF NextAttachment, IngestTypeOK
<1>4. ASSUME Finish PROVE IngestTypeOK'
  BY <1>4 DEF Finish, Ends, IngestTypeOK, Copying
<1>5. ASSUME Replay PROVE IngestTypeOK'
  BY <1>5, InputAssumption DEF Replay, IngestTypeOK, Copying
<1>6. ASSUME Edit PROVE IngestTypeOK'
  <2>1. /\ (stored \in [Sources -> Sources \cup Contents])'
        /\ (edits \in 0..MaxEdits)'
    BY <1>6, InputAssumption DEF Edit, IngestTypeOK
  <2> QED
    BY <1>6, <2>1 DEF Edit, IngestTypeOK, Copying, Current
<1>7. CASE UNCHANGED ingestVars
  BY <1>7 DEF ingestVars, IngestTypeOK, Copying, Current
<1> QED
  BY <1>1, <1>2, <1>3, <1>4, <1>5, <1>6, <1>7, CopyType, ClashType, RemoveType
     DEF IngestNext
-----------------------------------------------------------------------------
\* A step that lists nothing and comes to no other file.
LEMMA ProgressFrame ==
  ASSUME Progress, phase \in {"copying", "done"},
         Before(at)' = Before(at),
         \A f \in Before(at) : TargetOf(f)' = TargetOf(f) /\ Place(f)' = Place(f),
         UNCHANGED <<artifacts, workspace>>,
         phase' = "done" => at'[1] > Len(list')
  PROVE  Progress'
<1>1. /\ IsFiniteSet(Before(at)') /\ Len(artifacts') = Cardinality(Before(at)')
      /\ \A f \in Before(at)' : artifacts'[Place(f)'].path = TargetOf(f)'
  BY DEF Progress
<1>2. /\ \A i \in DOMAIN artifacts' : artifacts'[i].path \in DOMAIN workspace'
      /\ \A i \in DOMAIN artifacts' :
           IsLatest(i)' => artifacts'[i].content = workspace'[artifacts'[i].path]
  BY DEF Progress, IsLatest
<1> QED
  BY <1>1, <1>2 DEF Progress

LEMMA SamePlaces ==
  ASSUME Progress, phase \in {"copying", "done"}, UNCHANGED <<list, at, artifacts, workspace>>,
         phase' = "done" => at[1] > Len(list)
  PROVE  Progress'
<1>1. \A f : TargetOf(f)' = TargetOf(f) /\ Place(f)' = Place(f)
  BY SameFiles
<1>2. Before(at)' = Before(at)
  BY DEF Before, Files
<1> QED
  BY <1>1, <1>2, ProgressFrame

\* How the set of the files that are dealt with grows.
LEMMA BeginBefore == Begin => Before(at)' = {}
<1> SUFFICES ASSUME Begin PROVE Before(at)' = {}
  OBVIOUS
<1>1. at' = <<1, 1>> /\ list' = list
  BY DEF Begin
<1>2. SUFFICES ASSUME NEW f \in Files,
                      f[1] < at'[1] \/ (f[1] = at'[1] /\ f[2] < at'[2])
               PROVE  FALSE
  BY <1>1, SameFiles DEF Before
<1>3. f[1] \in Nat \ {0} /\ f[2] \in Nat \ {0}
  BY InFiles
<1> QED
  BY <1>1, <1>2, <1>3

LEMMA BeginProgress == IngestTypeOK /\ Begin => Progress'
<1> SUFFICES ASSUME IngestTypeOK, Begin PROVE Progress'
  OBVIOUS
<1>1. at' = <<1, 1>> /\ artifacts' = <<>> /\ phase' = "copying" /\ list' = list
  BY DEF Begin
<1>2. Before(at)' = {}
  BY BeginBefore
<1>3. IsFiniteSet(Before(at)') /\ Cardinality(Before(at)') = 0
  BY <1>2, FS_EmptySet
<1> QED
  BY <1>1, <1>2, <1>3 DEF Progress

LEMMA NextBefore == IngestTypeOK /\ NextAttachment => Before(at)' = Before(at)
<1> SUFFICES ASSUME IngestTypeOK, NextAttachment PROVE Before(at)' = Before(at)
  OBVIOUS
<1>1. /\ list' = list /\ at[1] <= Len(list)
      /\ at' = <<at[1] + 1, 1>> /\ at[2] > Len(list[at[1]].entries)
  BY DEF NextAttachment, Copying, Current
<1>2. at[1] \in 1..Len(list) /\ at[2] \in Nat
  BY <1>1 DEF IngestTypeOK
<1>3. ASSUME NEW f \in Files
      PROVE  (f[1] < at'[1] \/ (f[1] = at'[1] /\ f[2] < at'[2]))
               <=> (f[1] < at[1] \/ (f[1] = at[1] /\ f[2] < at[2]))
  <2>1. f[1] \in 1..Len(list) /\ f[2] \in 1..Len(list[f[1]].entries)
    BY InFiles
  <2>2. at'[1] = at[1] + 1 /\ at'[2] = 1
    BY <1>1
  <2>3. list[at[1]] \in Attachment
    BY <1>2 DEF IngestTypeOK
  <2>4. Len(list[at[1]].entries) \in Nat
    BY <2>3 DEF Attachment
  <2>5. f[1] = at[1] => f[2] < at[2]
    BY <1>1, <1>2, <2>1, <2>4
  <2>6. f[1] < at'[1] <=> f[1] <= at[1]
    BY <1>2, <2>1, <2>2
  <2>7. ~(f[2] < at'[2])
    BY <2>1, <2>2
  <2> QED
    BY <1>2, <2>1, <2>5, <2>6, <2>7
<1> QED
  BY <1>1, <1>3, SameFiles DEF Before

LEMMA NextProgress == IngestTypeOK /\ Progress /\ NextAttachment => Progress'
<1> SUFFICES ASSUME IngestTypeOK, Progress, NextAttachment PROVE Progress'
  OBVIOUS
<1>1. /\ phase = "copying" /\ phase' = phase /\ list' = list
      /\ UNCHANGED <<artifacts, workspace>>
  BY DEF NextAttachment, Copying
<1> QED
  BY <1>1, NextBefore, SameFiles, ProgressFrame

LEMMA CopyBefore == IngestTypeOK /\ Copy => Before(at)' = Before(at) \cup {at}
<1> SUFFICES ASSUME IngestTypeOK, Copy PROVE Before(at)' = Before(at) \cup {at}
  OBVIOUS
<1>1. at \in Files /\ list' = list /\ at' = <<at[1], at[2] + 1>>
  BY CurrentFile DEF Copy
<1>2. at[1] \in Nat /\ at[2] \in Nat /\ at = <<at[1], at[2]>>
  BY DEF IngestTypeOK
<1>3. at'[1] = at[1] /\ at'[2] = at[2] + 1
  BY <1>1
<1>4. ASSUME NEW f \in Files
      PROVE  (f[1] < at'[1] \/ (f[1] = at'[1] /\ f[2] < at'[2]))
               <=> ((f[1] < at[1] \/ (f[1] = at[1] /\ f[2] < at[2])) \/ f = at)
  <2>1. f[1] \in Int /\ f[2] \in Int /\ f = <<f[1], f[2]>>
    <3>1. f[1] \in 1..Len(list) /\ f[2] \in 1..Len(list[f[1]].entries) /\ f = <<f[1], f[2]>>
      BY InFiles
    <3> QED
      BY <3>1
  <2>2. f = at <=> (f[1] = at[1] /\ f[2] = at[2])
    BY <1>2, <2>1
  <2>3. f[2] < at[2] + 1 <=> (f[2] < at[2] \/ f[2] = at[2])
    BY <1>2, <2>1
  <2> QED
    BY <1>3, <2>2, <2>3
<1>5. \A f : f \in Before(at)' <=> f \in Before(at) \/ f = at
  BY <1>1, <1>4, SameFiles DEF Before
<1> QED
  BY <1>5

LEMMA CopyProgress == IngestTypeOK /\ Progress /\ Copy => Progress'
<1> SUFFICES ASSUME IngestTypeOK, Progress, Copy PROVE Progress'
  OBVIOUS
<1> DEFINE T == TargetOf(at)
           n == Len(artifacts)
           new == [path |-> T, content |-> workspace'[T]]
<1>1. /\ at \in Files /\ phase = "copying" /\ phase' = "copying" /\ list' = list
      /\ at' = <<at[1], at[2] + 1>> /\ artifacts' = Append(artifacts, new)
  BY CurrentFile DEF Copy, AtEntry, Copying
<1>2. at[1] \in Nat /\ at[2] \in Nat /\ at = <<at[1], at[2]>> /\ at \in Int \X Int
  BY DEF IngestTypeOK
<1>5. Before(at)' = Before(at) \cup {at}
  BY CopyBefore
<1>6. at \notin Before(at)
  BY <1>2 DEF Before
<1>7. IsFiniteSet(Before(at)) /\ n = Cardinality(Before(at)) /\ n \in Nat
  BY <1>1, FS_CardinalityType DEF Progress
<1>8. IsFiniteSet(Before(at)') /\ Cardinality(Before(at)') = n + 1
  BY <1>5, <1>6, <1>7, FS_AddElement
<1>9. artifacts \in Seq([path : Seq(STRING), content : Sources \cup Contents])
  BY DEF IngestTypeOK
<1>10. /\ Len(artifacts') = n + 1 /\ DOMAIN artifacts' = 1..(n + 1)
       /\ DOMAIN artifacts = 1..n
       /\ artifacts'[n + 1] = new /\ \A i \in 1..n : artifacts'[i] = artifacts[i]
  <2> HIDE DEF new
  <2> QED
    BY <1>1, <1>7, <1>9
<1>11. ASSUME NEW f \in Before(at)' PROVE artifacts'[Place(f)'].path = TargetOf(f)'
  <2>1. Place(f)' = Place(f) /\ TargetOf(f)' = TargetOf(f)
    BY <1>1, SameFiles
  <2>2. CASE f \in Before(at)
    <3>1. Place(f) \in 1..n
      BY <1>2, <1>7, <2>2, PlaceBefore
    <3>2. artifacts[Place(f)].path = TargetOf(f)
      BY <1>1, <2>2 DEF Progress
    <3> QED
      BY <1>10, <2>1, <3>1, <3>2
  <2>3. CASE f = at
    <3>1. Place(at) = n + 1
      BY <1>7 DEF Place
    <3>2. artifacts'[Place(at)].path = TargetOf(at)
      BY <1>10, <3>1
    <3> QED
      BY <2>1, <2>3, <3>2
  <2> QED
    BY <1>5, <2>2, <2>3
<1>12. /\ DOMAIN workspace' = DOMAIN workspace \cup {T}
       /\ \A p \in DOMAIN workspace \ {T} : workspace'[p] = workspace[p]
  BY DEF Copy, Written
<1>13. ASSUME NEW i \in DOMAIN artifacts'
       PROVE  /\ artifacts'[i].path \in DOMAIN workspace'
              /\ IsLatest(i)' => artifacts'[i].content = workspace'[artifacts'[i].path]
  <2>1. CASE i = n + 1
    <3>1. artifacts'[i] = new
      BY <1>10, <2>1
    <3>2. artifacts'[i].path = T /\ artifacts'[i].content = workspace'[T]
      BY <3>1
    <3> QED
      BY <1>12, <3>2
  <2>2. CASE i \in 1..n
    <3>1. artifacts'[i] = artifacts[i] /\ artifacts[i].path \in DOMAIN workspace
      BY <1>1, <1>10, <2>2 DEF Progress
    <3>2. ASSUME IsLatest(i)'
          PROVE  artifacts[i].path # T /\ IsLatest(i)
      <4>1. \A j \in (i + 1)..(n + 1) : artifacts'[j].path # artifacts'[i].path
        BY <1>10, <3>2 DEF IsLatest
      <4>2. n + 1 \in (i + 1)..(n + 1) /\ artifacts'[n + 1].path = T
        BY <1>7, <1>10, <2>2
      <4>3. ASSUME NEW j \in (i + 1)..n PROVE artifacts[j].path # artifacts[i].path
        <5>1. j \in (i + 1)..(n + 1) /\ j \in 1..n
          BY <1>7, <2>2, <4>3
        <5> QED
          BY <1>10, <3>1, <4>1, <5>1
      <4> QED
        BY <3>1, <4>1, <4>2, <4>3 DEF IsLatest
    <3>3. IsLatest(i) => artifacts[i].content = workspace[artifacts[i].path]
      BY <1>1, <1>10, <2>2 DEF Progress
    <3> QED
      BY <1>12, <3>1, <3>2, <3>3
  <2> QED
    BY <1>7, <1>10, <2>1, <2>2
<1> QED
  BY <1>1, <1>8, <1>10, <1>11, <1>13 DEF Progress

\* A removal leaves alone what comes before the attachment it touches.
LEMMA RemoveFurtherOn ==
  ASSUME IngestTypeOK, NEW i \in DOMAIN list, NEW k \in DOMAIN list[i].entries,
         RemoveFile(i, k)
  PROVE  /\ \A f : f[1] \in 1..Len(list) /\ f[1] # i => (f \in Files' <=> f \in Files)
         /\ \A f : f[1] \in 1..Len(list) /\ f[1] < i =>
              Before(f)' = Before(f) /\ Place(f)' = Place(f) /\ TargetOf(f)' = TargetOf(f)
<1>1. /\ Len(list') = Len(list)
      /\ \A j \in 1..Len(list) : j # i => list'[j] = list[j]
  BY RemovedList
<1>2. i \in 1..Len(list) /\ Len(list) \in Nat
  BY DEF IngestTypeOK
<1>3. ASSUME NEW f, f[1] \in 1..Len(list), f[1] # i
      PROVE  f \in Files' <=> f \in Files
  <2>1. list'[f[1]] = list[f[1]]
    BY <1>1, <1>3
  <2>2. f \in Files' <=> f \in {f[1]} \X (1..Len(list'[f[1]].entries))
    BY <1>1, <1>3 DEF Files
  <2>3. f \in Files <=> f \in {f[1]} \X (1..Len(list[f[1]].entries))
    BY <1>3 DEF Files
  <2> QED
    BY <2>1, <2>2, <2>3
<1>4. ASSUME NEW f, f[1] \in 1..Len(list), f[1] < i
      PROVE  Before(f)' = Before(f) /\ Place(f)' = Place(f) /\ TargetOf(f)' = TargetOf(f)
  <2>1. ASSUME NEW g, g[1] < f[1] \/ (g[1] = f[1] /\ g[2] < f[2])
        PROVE  g \in Files' <=> g \in Files
    <3>1. ASSUME g \in Files \/ g \in Files' PROVE g[1] \in 1..Len(list) /\ g[1] # i
      <4>1. g[1] \in 1..Len(list)
        BY <1>1, <3>1 DEF Files
      <4> QED
        BY <1>2, <1>4, <2>1, <4>1
    <3> QED
      BY <1>3, <3>1
  <2>2. Before(f)' = Before(f)
    BY <2>1 DEF Before
  <2>3. list'[f[1]] = list[f[1]]
    BY <1>1, <1>2, <1>4
  <2>4. TargetOf(f)' = TargetOf(f)
    BY <2>3 DEF TargetOf, EntryAt
  <2> QED
    BY <2>2, <2>4 DEF Place
<1> QED
  BY <1>3, <1>4

LEMMA RemoveProgress ==
  ASSUME IngestTypeOK, Progress, NEW i \in DOMAIN list, NEW k \in DOMAIN list[i].entries,
         RemoveFile(i, k)
  PROVE  Progress'
<1>1. /\ phase # "done" /\ phase' = phase /\ at' = at
      /\ phase = "copying" => at[1] < i
      /\ UNCHANGED <<artifacts, workspace>>
  BY DEF RemoveFile
<1>2. CASE phase = "copying"
  <2>1. i \in 1..Len(list) /\ at[1] \in Nat \ {0} /\ Len(list) \in Nat
    BY DEF IngestTypeOK
  <2>2. at[1] \in 1..Len(list) /\ at[1] < i
    BY <1>1, <1>2, <2>1
  <2>3. Before(at)' = Before(at)
    BY <1>1, <2>2, RemoveFurtherOn DEF Before
  <2>4. ASSUME NEW f \in Before(at)
        PROVE  TargetOf(f)' = TargetOf(f) /\ Place(f)' = Place(f)
    <3>1. f \in Files /\ (f[1] < at[1] \/ f[1] = at[1])
      BY <2>4 DEF Before
    <3>2. f[1] \in 1..Len(list)
      BY <3>1, InFiles
    <3>3. f[1] < i
      BY <2>1, <2>2, <3>1, <3>2
    <3> QED
      BY <3>2, <3>3, RemoveFurtherOn
  <2> QED
    BY <1>1, <1>2, <2>3, <2>4, ProgressFrame
<1>3. CASE phase # "copying"
  BY <1>1, <1>3 DEF Progress
<1> QED
  BY <1>2, <1>3

LEMMA ProgressStep == IngestTypeOK /\ Progress /\ [IngestNext]_ingestVars => Progress'
<1> SUFFICES ASSUME IngestTypeOK, Progress, [IngestNext]_ingestVars PROVE Progress'
  OBVIOUS
<1>1. ASSUME Refuse \/ Clash \/ Replay PROVE Progress'
  BY <1>1 DEF Refuse, Ends, Clash, Replay, Progress
<1>2. ASSUME Finish PROVE Progress'
  BY <1>2, SamePlaces DEF Finish, Ends
<1>3. ASSUME Edit PROVE Progress'
  <2>1. UNCHANGED <<list, phase, at, artifacts, workspace>>
    BY <1>3 DEF Edit
  <2> QED
    BY <2>1, SamePlaces DEF Progress
<1>4. CASE UNCHANGED ingestVars
  <2>1. UNCHANGED <<list, phase, at, artifacts, workspace>>
    BY <1>4 DEF ingestVars
  <2> QED
    BY <2>1, SamePlaces DEF Progress
<1> QED
  BY <1>1, <1>2, <1>3, <1>4, BeginProgress, CopyProgress, NextProgress, RemoveProgress
     DEF IngestNext
-----------------------------------------------------------------------------
\* A file of the workspace is accounted for after a step that leaves the
\* attachments alone, removes nothing, and does not pass a file that it cannot copy.
LEMMA ContainedFrame ==
  ASSUME Contained, list' = list, gone \subseteq gone',
         DOMAIN workspace \subseteq DOMAIN workspace',
         \A f \in Files :
           /\ IsDir(TargetOf(f))
           /\ phase \in {"copying", "done"} => f \notin Before(at)
           => (phase' \in {"copying", "done"} => f \notin Before(at)'),
         NEW p \in DOMAIN workspace
  PROVE  p \in gone' \/ \E f \in Files' : p = TargetOf(f)' \/ Stray(p, f)'
<1>1. CASE p \in gone
  BY <1>1
<1>2. CASE p \notin gone
  <2>1. PICK f \in Files : p = TargetOf(f) \/ Stray(p, f)
    BY <1>2 DEF Contained
  <2>2. f \in Files' /\ TargetOf(f)' = TargetOf(f) /\ InsideTarget(f)' = InsideTarget(f)
    BY <2>1, SameFiles
  <2>3. CASE p = TargetOf(f)
    BY <2>2, <2>3
  <2>4. CASE Stray(p, f)
    <3>1. IsDir(TargetOf(f)) /\ p = InsideTarget(f)
      BY <2>4 DEF Stray
    <3>2. IsDir(TargetOf(f))'
      <4>1. \E q \in DOMAIN workspace' :
              Len(q) > Len(TargetOf(f)) /\ SubSeq(q, 1, Len(TargetOf(f))) = TargetOf(f)
        BY <3>1 DEF IsDir
      <4> QED
        BY <2>2, <4>1 DEF IsDir
    <3>3. phase' \in {"copying", "done"} => f \notin Before(at)'
      BY <2>1, <2>4, <3>1 DEF Stray
    <3> QED
      BY <2>2, <3>1, <3>2, <3>3 DEF Stray
  <2> QED
    BY <2>1, <2>3, <2>4
<1> QED
  BY <1>1, <1>2

LEMMA SameWorkspace ==
  ASSUME Contained, UNCHANGED <<list, workspace, gone>>,
         \A f \in Files :
           /\ IsDir(TargetOf(f))
           /\ phase \in {"copying", "done"} => f \notin Before(at)
           => (phase' \in {"copying", "done"} => f \notin Before(at)')
  PROVE  Contained'
BY ContainedFrame DEF Contained

LEMMA CopyContained == IngestTypeOK /\ Contained /\ Copy => Contained'
<1> SUFFICES ASSUME IngestTypeOK, Contained, Copy PROVE Contained'
  OBVIOUS
<1>1. /\ at \in Files /\ ~IsDir(TargetOf(at)) /\ list' = list /\ gone' = gone
      /\ phase' = phase /\ DOMAIN workspace' = DOMAIN workspace \cup {TargetOf(at)}
  BY CurrentFile DEF Copy, Written
<1>2. ASSUME NEW f \in Files, IsDir(TargetOf(f)),
             phase \in {"copying", "done"} => f \notin Before(at)
      PROVE  phase' \in {"copying", "done"} => f \notin Before(at)'
  <2>1. f # at
    BY <1>1, <1>2
  <2> QED
    BY <1>1, <1>2, <2>1, CopyBefore
<1>3. ASSUME NEW p \in DOMAIN workspace
      PROVE  p \in gone' \/ \E f \in Files' : p = TargetOf(f)' \/ Stray(p, f)'
  BY <1>1, <1>2, ContainedFrame
<1>4. \E f \in Files' : TargetOf(at) = TargetOf(f)'
  BY <1>1, SameFiles
<1> QED
  BY <1>1, <1>3, <1>4 DEF Contained

LEMMA ClashContained == IngestTypeOK /\ Contained /\ Clash => Contained'
<1> SUFFICES ASSUME IngestTypeOK, Contained, Clash PROVE Contained'
  OBVIOUS
<1>1. at \in Files /\ list' = list /\ gone' = gone /\ phase' = "raised"
  BY CurrentFile DEF Clash
<1>2. CASE workspace' = workspace
  BY <1>1, <1>2, SameWorkspace
<1>3. CASE workspace' # workspace
  <2>1. PICK h : h = at
    OBVIOUS
  <2>2. PICK q : q = InsideTarget(h)
    OBVIOUS
  <2>3. DOMAIN workspace' = DOMAIN workspace \cup {q} /\ IsDir(TargetOf(h))
    BY <1>3, <2>1, <2>2 DEF Clash, Written
  <2>4. ASSUME NEW p \in DOMAIN workspace
        PROVE  p \in gone' \/ \E f \in Files' : p = TargetOf(f)' \/ Stray(p, f)'
    BY <1>1, <2>3, ContainedFrame
  <2>5. h \in Files' /\ TargetOf(h)' = TargetOf(h) /\ q = InsideTarget(h)'
    BY <1>1, <2>1, <2>2, SameFiles
  <2>6. IsDir(TargetOf(h))'
    <3>1. \E r \in DOMAIN workspace' :
            Len(r) > Len(TargetOf(h)) /\ SubSeq(r, 1, Len(TargetOf(h))) = TargetOf(h)
      BY <2>3 DEF IsDir
    <3> QED
      BY <2>5, <3>1 DEF IsDir
  <2>7. Stray(q, h)'
    BY <1>1, <2>5, <2>6 DEF Stray
  <2> QED
    BY <2>3, <2>4, <2>5, <2>7 DEF Contained
<1> QED
  BY <1>2, <1>3

\* A file that is not the one removed is still among the attachments.
LEMMA OthersStay ==
  ASSUME IngestTypeOK, NEW i \in DOMAIN list, NEW k \in DOMAIN list[i].entries,
         RemoveFile(i, k), NEW f \in Files, f # <<i, k>>
  PROVE  \E g \in Files' : /\ g[1] = f[1] /\ (f[1] # i => g = f)
                           /\ TargetOf(g)' = TargetOf(f) /\ InsideTarget(g)' = InsideTarget(f)
<1>1. /\ Len(list') = Len(list) /\ list[i].entries \in Seq(Entry)
      /\ \A j \in 1..Len(list) : list'[j].name = list[j].name /\ (j # i => list'[j] = list[j])
      /\ list'[i].entries = RemoveAt(list[i].entries, k)
  BY RemovedList
<1>2. f = <<f[1], f[2]>> /\ f[1] \in 1..Len(list) /\ f[2] \in 1..Len(list[f[1]].entries)
  BY InFiles
<1>3. CASE f[1] # i
  <2>1. f \in Files'
    BY <1>2, <1>3, RemoveFurtherOn
  <2>2. TargetOf(f)' = TargetOf(f) /\ InsideTarget(f)' = InsideTarget(f)
    BY <1>1, <1>2, <1>3 DEF TargetOf, InsideTarget, EntryAt
  <2> QED
    BY <2>1, <2>2
<1>4. CASE f[1] = i
  <2> DEFINE s == list[i].entries
             j == IF f[2] < k THEN f[2] ELSE f[2] - 1
  <2>1. s \in Seq(Entry) /\ k \in 1..Len(s) /\ f[2] \in 1..Len(s) /\ f[2] # k /\ Len(s) \in Nat
    BY <1>1, <1>2, <1>4
  <2>2. j \in 1..(Len(s) - 1) /\ (IF j < k THEN j = f[2] ELSE j + 1 = f[2])
    BY <2>1
  <2>3. RemoveAt(s, k)[j] = s[f[2]] /\ Len(RemoveAt(s, k)) = Len(s) - 1
    <3> HIDE DEF j
    <3>1. /\ RemoveAt(s, k)[j] = IF j < k THEN s[j] ELSE s[j + 1]
          /\ Len(RemoveAt(s, k)) = Len(s) - 1
      BY <2>1, <2>2, RemoveAtType
    <3> QED
      BY <2>2, <3>1
  <2> HIDE DEF j
  <2>4. PICK g : g = <<i, j>>
    OBVIOUS
  <2>5. g \in Files'
    <3>1. j \in 1..Len(list'[i].entries) /\ i \in 1..Len(list')
      BY <1>1, <1>2, <1>4, <2>2, <2>3
    <3> QED
      BY <2>4, <3>1 DEF Files
  <2>6. EntryAt(g)' = EntryAt(f) /\ list'[g[1]].name = list[f[1]].name
    BY <1>1, <1>2, <1>4, <2>3, <2>4 DEF EntryAt
  <2>7. TargetOf(g)' = TargetOf(f) /\ InsideTarget(g)' = InsideTarget(f)
    BY <2>6 DEF TargetOf, InsideTarget
  <2> QED
    BY <1>4, <2>4, <2>5, <2>7
<1> QED
  BY <1>3, <1>4

LEMMA RemoveContained ==
  ASSUME IngestTypeOK, Contained, NEW i \in DOMAIN list, NEW k \in DOMAIN list[i].entries,
         RemoveFile(i, k)
  PROVE  Contained'
<1>1. /\ phase # "done" /\ phase' = phase /\ at' = at /\ workspace' = workspace
      /\ phase = "copying" => at[1] < i
      /\ gone' = gone \cup ({TargetOf(<<i, k>>), InsideTarget(<<i, k>>)} \cap DOMAIN workspace)
  BY DEF RemoveFile
<1>2. SUFFICES ASSUME NEW p \in DOMAIN workspace, p \notin gone'
               PROVE  \E g \in Files' : p = TargetOf(g)' \/ Stray(p, g)'
  BY <1>1 DEF Contained
<1>3. PICK f \in Files : p = TargetOf(f) \/ Stray(p, f)
  BY <1>1, <1>2 DEF Contained
<1>4. f # <<i, k>>
  BY <1>1, <1>2, <1>3 DEF Stray
<1>5. PICK g \in Files' : /\ g[1] = f[1] /\ (f[1] # i => g = f)
                          /\ TargetOf(g)' = TargetOf(f) /\ InsideTarget(g)' = InsideTarget(f)
  BY <1>4, OthersStay
<1>6. CASE p = TargetOf(f)
  BY <1>5, <1>6
<1>7. CASE Stray(p, f)
  <2>1. p = InsideTarget(g)' /\ IsDir(TargetOf(g))'
    <3>1. p = InsideTarget(f) /\ IsDir(TargetOf(f))
      BY <1>7 DEF Stray
    <3>2. \E q \in DOMAIN workspace' :
            Len(q) > Len(TargetOf(f)) /\ SubSeq(q, 1, Len(TargetOf(f))) = TargetOf(f)
      BY <1>1, <3>1 DEF IsDir
    <3> QED
      BY <1>5, <3>1, <3>2 DEF IsDir
  <2>2. ASSUME phase' \in {"copying", "done"} PROVE g \notin Before(at)'
    <3>1. phase = "copying" /\ at[1] < i /\ f \notin Before(at)
      BY <1>1, <1>7, <2>2 DEF Stray
    <3>2. at[1] \in 1..Len(list) /\ at[1] \in Int /\ i \in Int
      BY <3>1 DEF IngestTypeOK
    <3>3. CASE f[1] = i
      <4>1. ~(g[1] < at'[1] \/ (g[1] = at'[1] /\ g[2] < at'[2]))
        BY <1>1, <1>5, <3>1, <3>2, <3>3
      <4> QED
        BY <4>1 DEF Before
    <3>4. CASE f[1] # i
      BY <1>1, <1>3, <1>5, <3>1, <3>4 DEF Before
    <3> QED
      BY <3>3, <3>4
  <2> QED
    BY <2>1, <2>2 DEF Stray
<1> QED
  BY <1>3, <1>6, <1>7

LEMMA ContainedStep == IngestTypeOK /\ Contained /\ [IngestNext]_ingestVars => Contained'
<1> SUFFICES ASSUME IngestTypeOK, Contained, [IngestNext]_ingestVars PROVE Contained'
  OBVIOUS
<1>1. ASSUME Begin PROVE Contained'
  <2>1. UNCHANGED <<list, workspace, gone>> /\ Before(at)' = {}
    BY <1>1, BeginBefore DEF Begin
  <2> QED
    BY <2>1, SameWorkspace
<1>2. ASSUME Refuse \/ Replay PROVE Contained'
  <2>1. UNCHANGED <<list, workspace, gone>> /\ phase' \notin {"copying", "done"}
    BY <1>2 DEF Refuse, Replay, Ends
  <2> QED
    BY <2>1, SameWorkspace
<1>3. ASSUME NextAttachment PROVE Contained'
  <2>1. UNCHANGED <<list, workspace, gone, phase>> /\ Before(at)' = Before(at)
    BY <1>3, NextBefore DEF NextAttachment
  <2> QED
    BY <2>1, SameWorkspace
<1>4. ASSUME Finish \/ Edit \/ UNCHANGED ingestVars PROVE Contained'
  <2>1. /\ UNCHANGED <<list, workspace, gone, at>>
        /\ phase' \in {"copying", "done"} => phase \in {"copying", "done"}
    BY <1>4 DEF Finish, Ends, Edit, ingestVars
  <2>2. Before(at)' = Before(at)
    BY <2>1 DEF Before, Files
  <2> QED
    BY <2>1, <2>2, SameWorkspace
<1> QED
  BY <1>1, <1>2, <1>3, <1>4, CopyContained, ClashContained, RemoveContained DEF IngestNext
-----------------------------------------------------------------------------
LEMMA IngestStep == IngestInv /\ [IngestNext]_ingestVars => IngestInv'
BY IngestTypeStep, ProgressStep, ContainedStep DEF IngestInv

LEMMA InventoryHolds == IngestInv => InventoryMatches
<1> SUFFICES ASSUME IngestInv, phase = "done" PROVE InventoryMatches
  BY DEF InventoryMatches
<1>1. IngestTypeOK /\ Progress /\ Contained /\ at[1] > Len(list)
  BY DEF IngestInv, Progress
<1>2. at[1] \in Nat /\ Len(list) \in Nat
  BY <1>1 DEF IngestTypeOK
<1>3. Before(at) = Files
  <2>1. \A f \in Files : f[1] < at[1]
    <3>1. \A f \in Files : f[1] \in 1..Len(list)
      BY InFiles
    <3> QED
      BY <1>1, <1>2, <3>1
  <2> QED
    BY <2>1 DEF Before
<1>4. /\ Len(artifacts) = Cardinality(Files)
      /\ \A f \in Files : artifacts[Place(f)].path = TargetOf(f)
  BY <1>1, <1>3 DEF Progress
<1>5. /\ \A i \in DOMAIN artifacts : artifacts[i].path \in DOMAIN workspace
      /\ \A i \in DOMAIN artifacts :
           IsLatest(i) => artifacts[i].content = workspace[artifacts[i].path]
  BY <1>1 DEF Progress
<1>6. \A p \in DOMAIN workspace : p \in gone \/ \E f \in Files : p = TargetOf(f)
  BY <1>1, <1>3 DEF Contained, Stray
<1> QED
  BY <1>4, <1>5, <1>6 DEF InventoryMatches

LEMMA IngestInvariant == IngestSpec => []IngestInv
BY IngestInitInv, IngestStep, PTL DEF IngestSpec

\* ingest stays within the attachments and what they name, in any number of attempts.
THEOREM IngestTypeCorrect == IngestSpec => []IngestTypeOK
<1>1. IngestInv => IngestTypeOK
  BY DEF IngestInv
<1> QED
  BY <1>1, IngestInvariant, PTL

\* What ingest returns lists the workspace as it is, file by file, whatever earlier
\* attempts left there and whatever is edited or removed meanwhile.
THEOREM InventoryTrue == IngestSpec => []InventoryMatches
BY InventoryHolds, IngestInvariant, PTL
=============================================================================
