-------------------------- MODULE RunServiceProofs --------------------------
(***************************************************************************)
(* Five inductive invariants of RunService.                                *)
(*                                                                         *)
(* ServiceInv holds always: the row, the checkpoint and every task hold an *)
(* agent state that the node they are at, or will go to, can rely on.      *)
(*                                                                         *)
(* TokenInv and SingleInv hold until somebody answers a request twice      *)
(* (AnsweredOnce).  TokenInv: at most one task moves at a time, whatever   *)
(* stale ones store behind its back.  SingleInv: until an answer overtakes *)
(* the call that asked, there is one task, and the row is its state.       *)
(*                                                                         *)
(* UngrantedInv and PaidInv hold always, repeated answers or not: no       *)
(* approval is at work before the operator gave one, and the calls that    *)
(* all tasks may yet begin are paid for.                                   *)
(***************************************************************************)
EXTENDS RunService, AgentNodesProofs

LOCAL INSTANCE SequencesExt

\* An agent state a run has ended with: its report is made.
Ended(s) == s.status \in Terminal /\ s.report # None

\* What a place of the graph, or its end, finds.
PlaceInv(place, s) ==
  /\ NodeInv(place, s)
  /\ place \in {"memory_commit", "end"} => Ended(s)

\* A task, at every place it can be at.
TaskInv(task) ==
  /\ task \in [kind : {"start", "replay", "recover"} \cup Resuming,
               at : GraphNodes \cup {"load", "call", "returned"},
               agent : AgentState, left : 0..RecursionLimit,
               answer : ApprovalResponse \cup {None}]
  /\ task.kind \in Resuming => task.answer # None
  /\ task.at = "load" => task.kind \in {"start", "resume", "recover"}
  /\ task.at = "load" /\ task.kind = "start" => PlaceInv("ingest", task.agent)
  /\ task.at \in GraphNodes => PlaceInv(task.at, task.agent)
  /\ task.at = "call" => /\ PlaceInv("execute", task.agent) /\ ToolBudgetLeft(task.agent)
                         /\ task.kind \in Resuming \/ task.left > 0
  /\ task.at = "returned" =>
       PlaceInv("interrupt", task.agent) \/ PlaceInv("end", task.agent)

\* A stored state: the request it shows is the one its step would ask.
RowInv(s) ==
  /\ StateInv(s)
  /\ s.pending_approval # None =>
       /\ NodeInv("approval", [s EXCEPT !.status = "waiting_approval"])
       /\ s.status \in {"waiting_approval", "failed"}
  /\ s.pending_approval = None => s.status # "waiting_approval"

CheckpointInv(c) == c.route \in GraphNodes \cup {"end"} /\ PlaceInv(c.route, c.agent)

Known ==
  /\ snap # None => RowInv(snap)
  /\ snap = None => Live = {} /\ cp = None /\ started = <<>>
  /\ cp # None => CheckpointInv(cp)
  /\ DOMAIN tasks = Slots
  /\ \A t \in Live : TaskInv(tasks[t])

\* A task that has yet to load the row is the only one, and the row is what it
\* was when the task was spawned.
LoadsAlone ==
  \A t \in Slots : At(t, "recover", "load") \/ At(t, "start", "load") =>
    /\ Live = {t} /\ cp = None
    /\ snap.pending_approval = None
    /\ tasks[t].agent = snap

Records ==
  /\ {up, lost, eager} \subseteq BOOLEAN /\ crashes \in 0..MaxCrashes
  /\ ~up => Live = {} /\ cp = None /\ crashes > 0
  /\ answers \in Seq(AnswerRecord)
  /\ started \in Seq([step_id : StepIds, tool : Tools, inputs : Inputs])

\* A task that will still store a state of the run, or die over it.
WillStore(task) == task.kind \notin Resuming \/ task.at \notin {"load", "returned"}

\* A run that needs no task any more, or has lost it.
AtRest ==
  \/ snap = None \/ lost \/ ~up \/ Settled(snap)
  \/ crashes > 0 /\ snap.status \in Terminal \cup {"pending"}

Attended == AtRest \/ \E t \in Live : WillStore(tasks[t])

ServiceInv == Known /\ LoadsAlone /\ Records /\ Attended
-----------------------------------------------------------------------------
(***************************************************************************)
(* What nodes and answers make of a place, a row and a slot.               *)
(***************************************************************************)

\* The recursion limit is a natural number.
LEMMA LimitIsNat == RecursionLimit \in Nat \ {0}
BY BudgetAssumption DEF RecursionLimit

\* A fresh run is a row that asks nothing.
LEMMA NewRow ==
  ASSUME NEW task \in Scenarios
  PROVE  LET s == NewAgent(task) IN
         /\ PlaceInv("ingest", s) /\ RowInv(s) /\ s \in AgentState
         /\ s.pending_approval = None /\ s.report = None /\ s.approvals = <<>>
         /\ s.steps_used = 0 /\ s.status = "pending"
<1> DEFINE s == NewAgent(task)
<1>1. /\ NodeInv("ingest", s)
      /\ s.pending_approval = None /\ s.report = None /\ s.approvals = <<>>
      /\ s.steps_used = 0 /\ s.status = "pending"
  BY NewAgentPasses
<1> HIDE DEF s
<1>2. StateInv(s) /\ s \in AgentState
  BY <1>1 DEF NodeInv, StateInv
<1> QED
  BY <1>1, <1>2 DEF PlaceInv, RowInv, s

\* The node contract, with the report that an end has.
LEMMA PlacePasses ==
  ASSUME NEW n \in GraphNodes \ {"approval"}, NEW s, PlaceInv(n, s), NEW o \in Node(n, s)
  PROVE  /\ o.route \in GraphNodes \cup {"end", "raise"}
         /\ PlaceInv(o.route, o.agent)
<1>1. NodeInv(o.route, o.agent) /\ s \in AgentState
  BY NodePasses DEF PlaceInv, NodeInv, StateInv
<1>2. /\ o.route \in GraphNodes \cup {"end", "raise"}
      /\ o.route = "memory_commit" => n = "report"
      /\ o.route = "end" => n = "memory_commit"
  BY NodeRoutes
<1>3. o.route = "memory_commit" => Ended(o.agent)
  <2> SUFFICES ASSUME o.route = "memory_commit" PROVE Ended(o.agent)
    OBVIOUS
  <2>1. o \in Report(s)
    BY <1>2 DEF Node
  <2>2. o.agent.report = o.agent.status /\ o.agent.status \in Terminal
    BY <1>1, <2>1, ReportSettles
  <2> QED
    BY <2>2, NoneAssumption DEF Ended, Terminal, RunStatus
<1>4. o.route = "end" => Ended(o.agent)
  <2> SUFFICES ASSUME o.route = "end" PROVE Ended(o.agent)
    OBVIOUS
  <2>1. n = "memory_commit"
    BY <1>2
  <2>2. o.agent = s
    BY <2>1 DEF Node, MemoryCommit, Go
  <2> QED
    BY <2>1, <2>2 DEF PlaceInv
<1> QED
  BY <1>1, <1>2, <1>3, <1>4 DEF PlaceInv

\* What a place holds may be stored as the row.
LEMMA PlaceIsRow ==
  ASSUME NEW n, NEW s, PlaceInv(n, s)
  PROVE  RowInv(s) /\ s \in AgentState
<1>1. StateInv(s) /\ s \in AgentState /\ NodeInv(n, s)
  BY DEF PlaceInv, NodeInv, StateInv
<1>2. CASE n \in Asking
  <2>1. s.status = "waiting_approval" /\ s.pending_approval # None
    BY <1>1, <1>2 DEF NodeInv
  <2>2. [s EXCEPT !.status = "waiting_approval"] = s
    BY <1>1, <2>1 DEF AgentState
  <2>3. NodeInv("approval", s)
    BY <1>1, <1>2 DEF NodeInv, Asking, BeforeCall, AfterCall
  <2> QED
    BY <1>1, <2>1, <2>2, <2>3 DEF RowInv
<1>3. CASE n \notin Asking
  BY <1>1, <1>3 DEF NodeInv, RowInv
<1> QED
  BY <1>2, <1>3

\* A run stored as failed keeps the request it shows.
LEMMA FailedRow ==
  ASSUME NEW s, RowInv(s)
  PROVE  LET t == [s EXCEPT !.status = "failed", !.last_error = TRUE] IN
         /\ RowInv(t) /\ t \in AgentState /\ t.status = "failed"
         /\ t.pending_approval = s.pending_approval /\ t.steps_used = s.steps_used
         /\ t.approvals = s.approvals /\ t.report = s.report
<1> DEFINE t == [s EXCEPT !.status = "failed", !.last_error = TRUE]
           a == [s EXCEPT !.status = "waiting_approval"]
           b == [t EXCEPT !.status = "waiting_approval"]
<1>1. s \in AgentState /\ StateInv(s)
  BY DEF RowInv, StateInv
<1>2. t \in AgentState /\ b \in AgentState /\ a \in AgentState
  BY <1>1 DEF AgentState, RunStatus
<1>3. /\ t.current_step_index = s.current_step_index /\ t.plan = s.plan
      /\ t.observations = s.observations /\ t.tool_calls_used = s.tool_calls_used
      /\ t.steps_used = s.steps_used /\ t.approvals = s.approvals
      /\ t.pending_approval = s.pending_approval /\ t.report = s.report
      /\ t.status = "failed"
  BY <1>1 DEF AgentState
<1>4. /\ b.current_step_index = a.current_step_index /\ b.plan = a.plan
      /\ b.observations = a.observations /\ b.tool_calls_used = a.tool_calls_used
      /\ b.steps_used = a.steps_used /\ b.approvals = a.approvals
      /\ b.pending_approval = a.pending_approval /\ b.status = "waiting_approval"
      /\ a.status = "waiting_approval"
  BY <1>1 DEF AgentState
<1> HIDE DEF t, a, b
<1>5. StateInv(t)
  BY <1>1, <1>2, <1>3, SameFrame DEF StateInv
<1>6. NodeInv("approval", a) => NodeInv("approval", b)
  <2> SUFFICES ASSUME NodeInv("approval", a) PROVE NodeInv("approval", b)
    OBVIOUS
  <2>1. StateInv(b)
    BY <1>2, <1>4, SameFrame DEF NodeInv, StateInv
  <2> QED
    BY <1>4, <2>1 DEF NodeInv, StepOf, BeforeCall, AfterCall, Asking
<1> QED
  BY <1>2, <1>3, <1>5, <1>6 DEF RowInv, a, b, t

\* The answer to the request a row shows makes it a state to start from.
LEMMA AnswerPlace ==
  ASSUME NEW s, RowInv(s), s.pending_approval # None, NEW a \in ApprovalResponse
  PROVE  LET t == Answered(s, a) IN
         /\ PlaceInv("ingest", t) /\ t \in AgentState /\ t.pending_approval = None
         /\ t.steps_used = s.steps_used /\ t.report = s.report
         /\ t.approvals = Append(s.approvals, [step_id |-> s.pending_approval,
                                               decision |-> a.decision])
<1> DEFINE r == [s EXCEPT !.status = "waiting_approval"]
           t == Answered(s, a)
<1>1. s \in AgentState /\ NodeInv("approval", r)
  BY DEF RowInv, StateInv
<1>2. /\ r.pending_approval = s.pending_approval /\ r.steps_used = s.steps_used
      /\ r.approvals = s.approvals /\ r.plan = s.plan /\ r.report = s.report
      /\ r.current_step_index = s.current_step_index /\ r \in AgentState
  BY <1>1 DEF AgentState, RunStatus
<1>3. Answered(r, a) = t
  <2> DEFINE i == s.current_step_index + 1
             edits == a.decision = "edit" /\ a.edited_parameters # None
             plan == IF edits THEN [s.plan EXCEPT ![i].inputs = a.edited_parameters] ELSE s.plan
             status == IF a.decision = "deny" THEN "denied" ELSE "running"
             approvals == Append(s.approvals, [step_id |-> s.pending_approval,
                                               decision |-> a.decision])
  <2>1. t = [s EXCEPT !.approvals = approvals, !.pending_approval = None,
                      !.plan = plan, !.status = status]
    BY DEF Answered
  <2>2. Answered(r, a) = [r EXCEPT !.approvals = approvals, !.pending_approval = None,
                                   !.plan = plan, !.status = status]
    BY <1>2 DEF Answered
  <2> HIDE DEF plan, status, approvals
  <2> QED
    BY <1>1, <2>1, <2>2, ZenonT(30) DEF AgentState
<1> HIDE DEF r, t
<1>4. /\ StateInv(t) /\ t.pending_approval = None /\ t.status # "waiting_approval"
      /\ t.steps_used = s.steps_used
  <2>1. StateInv(Answered(r, a)) /\ Answered(r, a).pending_approval = None
        /\ Answered(r, a).steps_used = r.steps_used
        /\ Answered(r, a).status = IF a.decision = "deny" THEN "denied" ELSE "running"
    BY <1>1, AnsweredState
  <2> QED
    BY <1>2, <1>3, <2>1
<1>5. t \in AgentState
  BY <1>4 DEF StateInv
<1>6. t.report = s.report
  BY <1>1 DEF t, Answered, AgentState
<1>7. t.approvals = Append(s.approvals, [step_id |-> s.pending_approval,
                                         decision |-> a.decision])
  BY <1>1, AnsweredKeeps DEF t, AgentState
<1> QED
  BY <1>4, <1>5, <1>6, <1>7 DEF PlaceInv, NodeInv, Asking, BeforeCall, AfterCall, t

\* A change of one slot leaves the others.
LEMMA SlotChange ==
  ASSUME DOMAIN tasks = Slots, NEW t \in Slots, NEW x, tasks' = [tasks EXCEPT ![t] = x]
  PROVE  /\ DOMAIN tasks' = Slots /\ tasks'[t] = x
         /\ \A u \in Slots \ {t} : tasks'[u] = tasks[u]
         /\ Live' \subseteq Live \cup {t} /\ Live \subseteq Live' \cup {t}
         /\ t \in Live' <=> x # Free
BY DEF Live, Free

\* The first task is the only one.
LEMMA FirstTask ==
  ASSUME DOMAIN tasks = Slots, Live = {}, NEW t \in Slots, NEW x, x # Free,
         tasks' = [tasks EXCEPT ![t] = x]
  PROVE  Live' = {t} /\ tasks'[t] = x /\ DOMAIN tasks' = Slots
<1>1. /\ DOMAIN tasks' = Slots /\ tasks'[t] = x
      /\ Live' \subseteq Live \cup {t} /\ t \in Live'
  BY SlotChange
<1> QED
  BY <1>1

\* A spawned task gets a slot that was free.
LEMMA SpawnSlot ==
  ASSUME NEW x, Spawn(x)
  PROVE  \E t \in Slots : tasks[t] = Free /\ tasks' = [tasks EXCEPT ![t] = x]
<1> DEFINE free == {t \in Slots : tasks[t] = Free}
           c == CHOOSE t \in free : \A u \in free : t <= u
<1>1. free # {} /\ free \subseteq Nat
  BY ServiceAssumption DEF Spawn
<1>2. c \in free
  BY <1>1, Smallest
<1>3. tasks' = [tasks EXCEPT ![c] = x]
  BY DEF Spawn
<1> QED
  BY <1>2, <1>3

\* A task is not a free slot.
LEMMA TaskIsLive == ASSUME NEW x, TaskInv(x) PROVE x # Free
<1>1. x.kind # "free"
  BY DEF TaskInv, Resuming
<1>2. Free.kind = "free"
  BY DEF Free
<1> QED
  BY <1>1, <1>2

\* A step of a task: what it must show of the row, the checkpoint and its slot.
LEMMA StepInv ==
  ASSUME ServiceInv, NEW t \in Live, NEW x, x = Free \/ (TaskInv(x) /\ x.at # "load"),
         tasks' = [tasks EXCEPT ![t] = x],
         RowInv(snap'), snap' # None, cp' = cp \/ CheckpointInv(cp'),
         UNCHANGED <<up, crashes, answers, eager>>, lost' \in BOOLEAN,
         started' \in Seq([step_id : StepIds, tool : Tools, inputs : Inputs]),
         \/ lost' \/ Settled(snap')
         \/ x # Free /\ WillStore(x)
         \/ ~WillStore(tasks[t]) /\ UNCHANGED <<snap, lost>>
  PROVE  ServiceInv'
<1>1. t \in Slots /\ DOMAIN tasks = Slots /\ up
  BY DEF Live, ServiceInv, Known, Records
<1>2. /\ DOMAIN tasks' = Slots /\ tasks'[t] = x
      /\ \A u \in Slots \ {t} : tasks'[u] = tasks[u]
      /\ Live' \subseteq Live \cup {t} /\ Live \subseteq Live' \cup {t}
      /\ t \in Live' <=> x # Free
  BY <1>1, SlotChange
<1>3. Known'
  <2>1. ASSUME NEW u \in Live' PROVE TaskInv(tasks'[u])
    <3>1. CASE u = t
      BY <1>2, <2>1, <3>1
    <3>2. CASE u # t
      <4>1. u \in Live /\ u \in Slots
        BY <1>2, <2>1, <3>2 DEF Live
      <4> QED
        BY <1>2, <3>2, <4>1 DEF ServiceInv, Known
    <3> QED
      BY <3>1, <3>2
  <2> QED
    BY <1>2, <2>1 DEF ServiceInv, Known
<1>4. LoadsAlone'
  <2>1. ASSUME NEW u \in Slots, (At(u, "recover", "load") \/ At(u, "start", "load"))'
        PROVE  FALSE
    <3>1. tasks'[u] # Free /\ tasks'[u].at = "load"
      BY <2>1 DEF At
    <3>2. u # t
      BY <1>2, <3>1
    <3>3. At(u, "recover", "load") \/ At(u, "start", "load")
      BY <1>2, <2>1, <3>2 DEF At
    <3>4. Live = {u}
      BY <3>3 DEF ServiceInv, LoadsAlone
    <3> QED
      BY <3>2, <3>4
  <2> QED
    BY <2>1 DEF LoadsAlone
<1>5. Records'
  BY <1>1 DEF ServiceInv, Records
<1>6. Attended'
  <2>1. CASE lost' \/ Settled(snap')
    <3>1. Settled(snap') => AtRest'
      BY DEF AtRest, Settled
    <3>2. lost' => AtRest'
      BY DEF AtRest
    <3> QED
      BY <2>1, <3>1, <3>2 DEF Attended
  <2>2. CASE x # Free /\ WillStore(x)
    BY <1>2, <2>2 DEF Attended, WillStore
  <2>3. CASE ~WillStore(tasks[t]) /\ UNCHANGED <<snap, lost>>
    <3>1. AtRest => AtRest'
      BY <2>3 DEF AtRest, Settled
    <3>2. ASSUME NEW u \in Live, WillStore(tasks[u])
          PROVE  u \in Live' /\ WillStore(tasks'[u])
      <4>1. u # t /\ u \in Slots
        BY <2>3, <3>2 DEF Live
      <4> QED
        BY <1>2, <3>2, <4>1
    <3> QED
      BY <3>1, <3>2 DEF ServiceInv, Attended, WillStore
  <2> QED
    BY <2>1, <2>2, <2>3
<1> QED
  BY <1>3, <1>4, <1>5, <1>6 DEF ServiceInv

\* The row and the task of a slot that is taken.
LEMMA LiveFacts ==
  ASSUME ServiceInv, NEW t \in Live
  PROVE  /\ t \in Slots /\ TaskInv(tasks[t]) /\ snap # None /\ RowInv(snap)
         /\ DOMAIN tasks = Slots /\ up
BY DEF ServiceInv, Known, Live, Records

\* A replay starts from a row that asks, with the answer of the task applied.
LEMMA ReplayInv ==
  ASSUME ServiceInv, NEW t \in Live, tasks[t].kind \in Resuming,
         NEW r, RowInv(r), r.pending_approval # None, Replay(t, r, tasks[t].answer),
         UNCHANGED <<cp, up, crashes, answers, started, eager>>
  PROVE  ServiceInv'
<1> DEFINE a == tasks[t].answer
           s == Answered(r, a)
           x == Task("replay", "ingest", s, RecursionLimit, None)
<1>1. TaskInv(tasks[t])
  BY LiveFacts
<1>2. started' \in Seq([step_id : StepIds, tool : Tools, inputs : Inputs]) /\ lost \in BOOLEAN
  BY DEF ServiceInv, Records
<1>3. snap' = s /\ tasks' = [tasks EXCEPT ![t] = x] /\ lost' = lost
  BY DEF Replay
<1>4. a \in ApprovalResponse
  BY <1>1 DEF TaskInv
<1>5. PlaceInv("ingest", s) /\ s \in AgentState
  BY <1>4, AnswerPlace
<1> HIDE DEF s
<1>6. RowInv(s)
  BY <1>5, PlaceIsRow
<1>7. s # None
  BY <1>5, ServiceAssumption
<1>8. TaskInv(x) /\ x.at # "load" /\ WillStore(x) /\ x # Free
  <2>1. TaskInv(x)
    BY <1>5, LimitIsNat DEF TaskInv, Task, Resuming, GraphNodes
  <2> QED
    BY <2>1, TaskIsLive DEF Task, WillStore, Resuming
<1> HIDE DEF x
<1> QED
  BY <1>2, <1>3, <1>6, <1>7, <1>8, StepInv

\* An exception stores a failed run, replays an answered one or loses the task.
LEMMA FailedInv ==
  ASSUME ServiceInv, NEW t \in Live, Failed(t),
         UNCHANGED <<cp, up, crashes, answers, started, eager>>
  PROVE  ServiceInv'
<1>1. t \in Slots /\ TaskInv(tasks[t]) /\ snap # None /\ RowInv(snap)
  BY LiveFacts
<1>2. started' \in Seq([step_id : StepIds, tool : Tools, inputs : Inputs]) /\ lost \in BOOLEAN
  BY DEF ServiceInv, Records
<1>3. CASE tasks[t].kind = "start"
  <2> DEFINE s == [snap EXCEPT !.status = "failed", !.last_error = TRUE]
  <2>1. snap' = s /\ tasks' = [tasks EXCEPT ![t] = Free] /\ lost' = lost
    BY <1>3 DEF Failed, Resuming
  <2>2. RowInv(s) /\ s \in AgentState /\ s.status = "failed"
    BY <1>1, FailedRow
  <2>3. s # None
    BY <2>2, ServiceAssumption
  <2> HIDE DEF s
  <2>4. Settled(snap')
    BY <2>1, <2>2 DEF Settled
  <2> QED
    BY <1>2, <2>1, <2>2, <2>3, <2>4, StepInv
<1>4. ASSUME Die(t) PROVE ServiceInv'
  <2>1. snap' = snap /\ tasks' = [tasks EXCEPT ![t] = Free] /\ lost' = TRUE
    BY <1>4 DEF Die
  <2> QED
    BY <1>1, <1>2, <2>1, StepInv
<1>5. CASE tasks[t].kind \in Resuming /\ snap.pending_approval # None
  <2>1. Replay(t, snap, tasks[t].answer)
    BY <1>5 DEF Failed, Resuming
  <2> QED
    BY <1>1, <1>5, <2>1, ReplayInv
<1> QED
  BY <1>3, <1>4, <1>5 DEF Failed

\* Taking the outcome of a node: the row and the checkpoint are its state, and
\* the task goes where the outcome leads.
LEMMA TakeInv ==
  ASSUME ServiceInv, NEW t \in Live, tasks[t].at \in GraphNodes \cup {"call"},
         tasks[t].kind \in Resuming \/ tasks[t].left > 0,
         NEW o, Take(t, o),
         o.route \in GraphNodes \cup {"end", "interrupt", "raise"},
         o.route # "raise" => PlaceInv(o.route, o.agent),
         UNCHANGED <<up, crashes, answers, started, eager>>
  PROVE  ServiceInv'
<1>1. t \in Slots /\ TaskInv(tasks[t]) /\ snap # None /\ RowInv(snap)
  BY LiveFacts
<1>2. CASE o.route = "raise"
  BY <1>2, FailedInv DEF Take
<1>3. CASE o.route # "raise"
  <2> DEFINE kind == IF tasks[t].kind = "resume" THEN "resumed" ELSE tasks[t].kind
             at == IF o.route \in {"interrupt", "end"} THEN "returned" ELSE o.route
             left == IF tasks[t].kind \in Resuming THEN tasks[t].left ELSE tasks[t].left - 1
             x == Task(kind, at, o.agent, left, tasks[t].answer)
  <2>1. snap' = o.agent /\ tasks' = [tasks EXCEPT ![t] = x] /\ lost' = lost
        /\ (o.route # "interrupt" => cp' = o)
        /\ (o.route = "interrupt" => cp' = [agent |-> o.agent, route |-> "approval"])
    BY <1>3 DEF Take
  <2>2. PlaceInv(o.route, o.agent) /\ RowInv(o.agent) /\ o.agent \in AgentState
    BY <1>3, PlaceIsRow
  <2>3. CheckpointInv(cp')
    <3>1. CASE o.route = "interrupt"
      <4>1. NodeInv("approval", o.agent)
        BY <2>2, <3>1 DEF PlaceInv, NodeInv, Asking, BeforeCall, AfterCall
      <4> QED
        BY <2>1, <3>1, <4>1 DEF CheckpointInv, PlaceInv, GraphNodes
    <3>2. CASE o.route # "interrupt"
      BY <1>3, <2>1, <2>2, <3>2 DEF CheckpointInv
    <3> QED
      BY <3>1, <3>2
  <2>4. left \in 0..RecursionLimit
    BY <1>1, LimitIsNat DEF TaskInv
  <2>5. /\ kind \in {"start", "replay", "recover"} \cup Resuming
        /\ kind \in Resuming => tasks[t].answer # None
        /\ tasks[t].answer \in ApprovalResponse \cup {None}
    BY <1>1 DEF TaskInv, Resuming
  <2>6. at \in GraphNodes \cup {"returned"} /\ at \notin {"load", "call"}
    BY <1>3 DEF GraphNodes
  <2>7. TaskInv(x)
    <3>1. at \in GraphNodes => PlaceInv(at, o.agent)
      BY <2>2 DEF GraphNodes
    <3>2. at = "returned" => PlaceInv("interrupt", o.agent) \/ PlaceInv("end", o.agent)
      BY <2>2 DEF GraphNodes
    <3> HIDE DEF left, at, kind
    <3> QED
      BY <2>2, <2>4, <2>5, <2>6, <3>1, <3>2 DEF TaskInv, Task
  <2>8. x # Free /\ x.at # "load"
    BY <2>6, <2>7, TaskIsLive DEF Task
  <2>9. Settled(snap') \/ WillStore(x)
    <3>1. CASE o.route \in {"interrupt", "end"}
      <4>1. Settled(o.agent)
        BY <2>2, <3>1 DEF PlaceInv, NodeInv, Asking, Ended, Settled
      <4> QED
        BY <2>1, <4>1
    <3>2. CASE o.route \notin {"interrupt", "end"}
      BY <2>6, <3>2 DEF WillStore, Task, GraphNodes
    <3> QED
      BY <3>1, <3>2
  <2>10. started' \in Seq([step_id : StepIds, tool : Tools, inputs : Inputs]) /\ lost \in BOOLEAN
    BY DEF ServiceInv, Records
  <2>11. o.agent # None
    BY <2>2, ServiceAssumption
  <2> HIDE DEF x
  <2> QED
    BY <2>1, <2>2, <2>3, <2>7, <2>8, <2>9, <2>10, <2>11, StepInv
<1> QED
  BY <1>2, <1>3

\* Tool calls begun are recorded with the step they are made for.
LEMMA CallTyped ==
  ASSUME NEW s, NodeInv("execute", s)
  PROVE  LET step == StepOf(s) IN
         /\ step \in PlanStep /\ step.tool_candidates[1] \in Tools
         /\ Risk[step.tool_candidates[1]] # 3
<1> DEFINE step == StepOf(s)
<1>1. /\ s \in AgentState /\ s.current_step_index < Len(s.plan)
      /\ \A i \in DOMAIN s.plan : Elements(s.plan[i].tool_candidates) \subseteq Tools
      /\ step.tool_candidates # <<>> /\ Risk[step.tool_candidates[1]] # 3
  BY DEF NodeInv, StateInv, BeforeCall, Asking
<1>2. s.plan \in Seq(PlanStep) /\ s.current_step_index \in Nat
  BY <1>1 DEF AgentState
<1>3. s.current_step_index + 1 \in DOMAIN s.plan
  BY <1>1, <1>2
<1>4. step \in PlanStep /\ Elements(step.tool_candidates) \subseteq Tools
  BY <1>1, <1>2, <1>3 DEF StepOf
<1>5. step.tool_candidates \in Seq(ToolNames)
  BY <1>4 DEF PlanStep
<1>6. 1 \in DOMAIN step.tool_candidates
  BY <1>1, <1>5
<1> QED
  BY <1>1, <1>4, <1>6 DEF Elements

\* What a tool call returns is an outcome of the execute node.
LEMMA ReturnsFromExecute ==
  ASSUME NEW s, ToolBudgetLeft(s), NEW r \in ToolResults[StepOf(s).tool_candidates[1]]
  PROVE  ToolReturns(s, r) \in Node("execute", s)
BY DEF Node, Execute

\* The approval node asks and ends the call; or it takes the answer of the task;
\* or it cannot read that answer, and the task turns to a replay.
LEMMA ApprovalStep ==
  ASSUME NEW t \in Slots, TaskInv(tasks[t]), RunApproval(t)
  PROVE  LET task == tasks[t]
             a == task.answer
             next == IF a.decision = "deny" THEN "record_denial" ELSE "execute"
         IN  /\ task.at = "approval"
             /\ task.kind \in Resuming \/ task.left > 0
             /\ PlaceInv("approval", task.agent) /\ RowInv(task.agent)
             /\ task.agent.pending_approval # None
             /\ UNCHANGED <<up, crashes, answers, started, eager>>
             /\ \/ task.kind # "resume" /\ Take(t, Go(task.agent, "interrupt"))
                \/ /\ task.kind = "resume" /\ a \in ApprovalResponse
                   /\ \/ /\ PlaceInv(next, Answered(task.agent, a))
                         /\ Take(t, Go(Answered(task.agent, a), next))
                      \/ /\ a.decision = "edit"
                         /\ Replay(t, task.agent, a) /\ UNCHANGED cp
<1> DEFINE task == tasks[t]
           a == IF task.kind = "resume" THEN task.answer ELSE None
           next == IF task.answer.decision = "deny" THEN "record_denial" ELSE "execute"
           c == Answered(task.agent, task.answer)
<1>1. /\ task.at = "approval" /\ task.at \in GraphNodes
      /\ task.kind \in Resuming \/ task.left > 0
      /\ UNCHANGED <<up, crashes, answers, started, eager>>
  BY DEF RunApproval, MayRun, GraphNodes
<1>2. PlaceInv("approval", task.agent) /\ RowInv(task.agent)
      /\ task.agent.pending_approval # None /\ NodeInv("approval", task.agent)
  BY <1>1, PlaceIsRow DEF TaskInv, PlaceInv, NodeInv, Asking
<1>3. PICK o \in Approval(task.agent, a) :
        IF o.route = "raise" THEN Replay(t, task.agent, a) /\ UNCHANGED cp ELSE Take(t, o)
  BY DEF RunApproval
<1>4. CASE task.kind # "resume"
  <2>1. o = Go(task.agent, "interrupt") /\ o.route = "interrupt"
    BY <1>2, <1>3, <1>4 DEF Approval, Go
  <2> QED
    BY <1>1, <1>2, <1>3, <1>4, <2>1
<1>5. CASE task.kind = "resume"
  <2>1. a = task.answer /\ a \in ApprovalResponse
    BY <1>5 DEF TaskInv, Resuming
  <2>2. o = IF Unvalidated(a) THEN Go(task.agent, "raise") ELSE Go(c, next)
    BY <1>2, <1>3, <2>1, ApprovalOutcome
  <2>3. CASE Unvalidated(a)
    <3>1. a.decision = "edit" /\ o.route = "raise"
      BY <2>2, <2>3 DEF Unvalidated, Go
    <3> QED
      BY <1>1, <1>2, <1>3, <1>5, <2>1, <3>1
  <2>4. CASE ~Unvalidated(a)
    <3>1. o = Go(c, next) /\ o.route = next /\ o.agent = c /\ next # "raise"
      BY <2>2, <2>4 DEF Go
    <3>2. NodeInv(next, c)
      BY <1>2, <1>3, <2>1, <3>1, ApprovalPasses
    <3>3. PlaceInv(next, c)
      BY <3>2 DEF PlaceInv
    <3> HIDE DEF c, next
    <3>4. Take(t, Go(c, next))
      BY <1>3, <3>1
    <3> QED
      BY <1>1, <1>2, <1>5, <2>1, <3>3, <3>4 DEF c, next
  <2> QED
    BY <2>3, <2>4
<1> QED
  BY <1>4, <1>5

\* Every step of a task keeps the invariant.
LEMMA WorkInv ==
  ASSUME ServiceInv, NEW t \in Slots, Work(t)
  PROVE  ServiceInv'
<1>1. t \in Live
  BY DEF Work, Start, Resume, Recover, RunNode, RunApproval, BeginCall, EndCall, NoCallLeft,
         OutOfSteps, Return, MayRun, At, Live
<1>2. /\ TaskInv(tasks[t]) /\ snap # None /\ RowInv(snap) /\ DOMAIN tasks = Slots
      /\ started \in Seq([step_id : StepIds, tool : Tools, inputs : Inputs])
      /\ lost \in BOOLEAN
  BY <1>1, LiveFacts DEF ServiceInv, Records
<1> DEFINE task == tasks[t]
<1>3. CASE Start(t)
  <2> DEFINE x == [task EXCEPT !.at = "ingest"]
  <2>1. tasks' = [tasks EXCEPT ![t] = x] /\ snap' = task.agent /\ task.at = "load"
        /\ task.kind = "start" /\ UNCHANGED <<cp, up, crashes, answers, started, lost, eager>>
    BY <1>3 DEF Start, At
  <2>2. PlaceInv("ingest", task.agent) /\ RowInv(task.agent) /\ task.agent # None
    BY <1>2, <2>1, PlaceIsRow, ServiceAssumption DEF TaskInv
  <2>3. TaskInv(x) /\ x.at = "ingest" /\ WillStore(x)
    BY <1>2, <2>1, <2>2 DEF TaskInv, WillStore, Resuming, GraphNodes
  <2> HIDE DEF x
  <2> QED
    BY <1>1, <1>2, <2>1, <2>2, <2>3, TaskIsLive, StepInv
<1>4. CASE Resume(t)
  <2>1. task.kind = "resume" /\ task.at = "load" /\ ~WillStore(task)
    BY <1>4 DEF Resume, At, WillStore, Resuming
  <2>2. UNCHANGED <<cp, up, crashes, answers, started, eager>>
    BY <1>4 DEF Resume
  <2>3. CASE cp = None
    BY <1>1, <1>4, <2>2, <2>3, FailedInv DEF Resume
  <2>4. CASE cp # None
    <3> DEFINE at == IF cp.route = "end" THEN "returned" ELSE cp.route
               x == [task EXCEPT !.at = at, !.agent = cp.agent]
    <3>1. tasks' = [tasks EXCEPT ![t] = x] /\ UNCHANGED <<snap, lost>>
      BY <1>4, <2>4 DEF Resume
    <3>2. CheckpointInv(cp)
      BY <2>4 DEF ServiceInv, Known
    <3>3. cp.agent \in AgentState
      BY <3>2, PlaceIsRow DEF CheckpointInv
    <3>4. TaskInv(x) /\ x.at # "load"
      <4>1. at \in GraphNodes \cup {"returned"} /\ at \notin {"load", "call"}
        BY <3>2 DEF CheckpointInv, GraphNodes
      <4>2. (at \in GraphNodes => PlaceInv(at, cp.agent))
            /\ (at = "returned" => PlaceInv("end", cp.agent))
        BY <3>2 DEF CheckpointInv, GraphNodes
      <4> HIDE DEF at
      <4> QED
        BY <1>2, <2>1, <3>3, <4>1, <4>2 DEF TaskInv, Resuming
    <3> HIDE DEF x
    <3> QED
      BY <1>1, <1>2, <2>1, <2>2, <3>1, <3>4, StepInv
  <2> QED
    BY <2>3, <2>4
<1>5. CASE Recover(t)
  <2>1. /\ task.kind = "recover" /\ task.at = "load" /\ At(t, "recover", "load")
        /\ UNCHANGED <<snap, cp, up, crashes, answers, started, lost, eager>>
    BY <1>5 DEF Recover, At
  <2>2. CASE snap.status = "waiting_approval"
    <3>1. tasks' = [tasks EXCEPT ![t] = Free] /\ Settled(snap)
      BY <1>5, <2>2 DEF Recover, Settled
    <3> QED
      BY <1>1, <1>2, <2>1, <3>1, StepInv
  <2>3. CASE snap.status # "waiting_approval"
    <3> DEFINE x == Task("recover", "ingest", snap, RecursionLimit, None)
    <3>1. tasks' = [tasks EXCEPT ![t] = x]
      BY <1>5, <2>3 DEF Recover
    <3>2. snap.pending_approval = None /\ StateInv(snap) /\ snap \in AgentState
      BY <1>2, <2>1 DEF ServiceInv, LoadsAlone, RowInv, StateInv
    <3>3. PlaceInv("ingest", snap)
      BY <2>3, <3>2 DEF PlaceInv, NodeInv, Asking, BeforeCall, AfterCall
    <3>4. TaskInv(x) /\ x.at # "load" /\ WillStore(x)
      BY <3>2, <3>3, LimitIsNat DEF TaskInv, Task, WillStore, Resuming, GraphNodes
    <3> HIDE DEF x
    <3> QED
      BY <1>1, <1>2, <2>1, <3>1, <3>4, TaskIsLive, StepInv
  <2> QED
    BY <2>2, <2>3
<1>6. CASE RunNode(t)
  <2>1. PICK o \in Node(task.at, task.agent) : Take(t, o)
    BY <1>6 DEF RunNode
  <2>2. /\ task.at \in GraphNodes \ {"approval"}
        /\ task.kind \in Resuming \/ task.left > 0
        /\ UNCHANGED <<up, crashes, answers, started, eager>>
    BY <1>6 DEF RunNode, OneStepNodes, MayRun
  <2>3. PlaceInv(task.at, task.agent)
    BY <1>2, <2>2 DEF TaskInv
  <2>4. o.route \in GraphNodes \cup {"end", "raise"} /\ PlaceInv(o.route, o.agent)
    BY <2>1, <2>2, <2>3, PlacePasses
  <2> QED
    BY <1>1, <2>1, <2>2, <2>4, TakeInv
<1>7. CASE RunApproval(t)
  <2> DEFINE next == IF task.answer.decision = "deny" THEN "record_denial" ELSE "execute"
             c == Answered(task.agent, task.answer)
  <2>1. /\ task.at \in GraphNodes \cup {"call"}
        /\ task.kind \in Resuming \/ task.left > 0
        /\ PlaceInv("approval", task.agent) /\ RowInv(task.agent)
        /\ task.agent.pending_approval # None
        /\ UNCHANGED <<up, crashes, answers, started, eager>>
    BY <1>2, <1>7, ApprovalStep DEF GraphNodes
  <2>2. CASE Take(t, Go(task.agent, "interrupt"))
    <3>1. PlaceInv("interrupt", task.agent)
      BY <2>1 DEF PlaceInv, NodeInv, Asking, BeforeCall, AfterCall
    <3> QED
      BY <1>1, <2>1, <2>2, <3>1, TakeInv DEF Go
  <2>3. CASE PlaceInv(next, c) /\ Take(t, Go(c, next))
    <3>1. next \in GraphNodes
      BY DEF GraphNodes
    <3> HIDE DEF next, c
    <3> QED
      BY <1>1, <2>1, <2>3, <3>1, TakeInv DEF Go
  <2>4. CASE task.kind = "resume" /\ Replay(t, task.agent, task.answer) /\ UNCHANGED cp
    BY <1>1, <2>1, <2>4, ReplayInv DEF Resuming
  <2> QED
    BY <1>2, <1>7, <2>2, <2>3, <2>4, ApprovalStep
<1>8. CASE BeginCall(t)
  <2> DEFINE x == [task EXCEPT !.at = "call"]
             step == StepOf(task.agent)
  <2>1. /\ tasks' = [tasks EXCEPT ![t] = x] /\ task.at = "execute"
        /\ task.kind \in Resuming \/ task.left > 0
        /\ ToolBudgetLeft(task.agent)
        /\ UNCHANGED <<snap, cp, up, crashes, answers, lost, eager>>
        /\ started' = Append(started, [step_id |-> step.step_id, inputs |-> step.inputs,
                                       tool |-> step.tool_candidates[1]])
    BY <1>8 DEF BeginCall, MayRun
  <2>2. PlaceInv("execute", task.agent)
    BY <1>2, <2>1 DEF TaskInv, GraphNodes
  <2>3. step \in PlanStep /\ step.tool_candidates[1] \in Tools
    BY <2>2, CallTyped DEF PlaceInv
  <2>4. started' \in Seq([step_id : StepIds, tool : Tools, inputs : Inputs])
    BY <1>2, <2>1, <2>3 DEF PlanStep
  <2>5. TaskInv(x) /\ x.at # "load" /\ WillStore(x)
    BY <1>2, <2>1, <2>2 DEF TaskInv, WillStore, Resuming, GraphNodes
  <2> HIDE DEF x
  <2> QED
    BY <1>1, <1>2, <2>1, <2>4, <2>5, TaskIsLive, StepInv
<1>9. CASE EndCall(t)
  <2>1. PICK r \in ToolResults[StepOf(task.agent).tool_candidates[1]] :
          Take(t, ToolReturns(task.agent, r))
    BY <1>9 DEF EndCall
  <2> DEFINE o == ToolReturns(task.agent, r)
  <2>2. task.at = "call" /\ UNCHANGED <<up, crashes, answers, started, eager>>
    BY <1>9 DEF EndCall
  <2>3. /\ PlaceInv("execute", task.agent) /\ ToolBudgetLeft(task.agent)
        /\ task.kind \in Resuming \/ task.left > 0
    BY <1>2, <2>2 DEF TaskInv
  <2>4. o \in Node("execute", task.agent)
    BY <2>3, ReturnsFromExecute
  <2> HIDE DEF o
  <2>5. o.route \in GraphNodes \cup {"end", "raise"} /\ PlaceInv(o.route, o.agent)
    BY <2>3, <2>4, PlacePasses DEF GraphNodes
  <2>6. Take(t, o)
    BY <2>1 DEF o
  <2> QED
    BY <1>1, <2>2, <2>3, <2>5, <2>6, TakeInv
<1>10. CASE NoCallLeft(t)
  <2>1. PICK o \in Execute(task.agent) : Take(t, o)
    BY <1>10 DEF NoCallLeft
  <2>2. /\ task.at = "execute"
        /\ task.kind \in Resuming \/ task.left > 0
        /\ UNCHANGED <<up, crashes, answers, started, eager>>
    BY <1>10 DEF NoCallLeft, MayRun
  <2>3. PlaceInv("execute", task.agent) /\ o \in Node("execute", task.agent)
    BY <1>2, <2>1, <2>2 DEF TaskInv, GraphNodes, Node
  <2>4. o.route \in GraphNodes \cup {"end", "raise"} /\ PlaceInv(o.route, o.agent)
    BY <2>3, PlacePasses DEF GraphNodes
  <2> QED
    BY <1>1, <2>1, <2>2, <2>4, TakeInv DEF GraphNodes
<1>11. CASE OutOfSteps(t)
  BY <1>1, <1>11, FailedInv DEF OutOfSteps
<1>12. CASE Return(t)
  <2>1. /\ task.at = "returned" /\ tasks' = [tasks EXCEPT ![t] = Free]
        /\ snap' = IF task.kind \in Resuming THEN snap ELSE task.agent
        /\ UNCHANGED <<cp, up, crashes, answers, started, lost, eager>>
    BY <1>12 DEF Return
  <2>2. CASE task.kind \in Resuming
    <3>1. ~WillStore(task) /\ UNCHANGED <<snap, lost>>
      BY <2>1, <2>2 DEF WillStore
    <3> QED
      BY <1>1, <1>2, <2>1, <3>1, StepInv
  <2>3. CASE task.kind \notin Resuming
    <3>1. PlaceInv("interrupt", task.agent) \/ PlaceInv("end", task.agent)
      BY <1>2, <2>1 DEF TaskInv
    <3>2. snap' = task.agent /\ RowInv(task.agent) /\ task.agent # None
      BY <2>1, <2>3, <3>1, PlaceIsRow, ServiceAssumption
    <3>3. Settled(task.agent)
      BY <3>1 DEF PlaceInv, NodeInv, Asking, Ended, Settled
    <3> QED
      BY <1>1, <1>2, <2>1, <3>2, <3>3, StepInv
  <2> QED
    BY <2>2, <2>3
<1> QED
  BY <1>3, <1>4, <1>5, <1>6, <1>7, <1>8, <1>9, <1>10, <1>11, <1>12 DEF Work

\* A run submitted is the first task, and one that waits for nobody.
LEMMA SubmitInv ==
  ASSUME ServiceInv, NEW job \in Submissions, Submit(job)
  PROVE  ServiceInv'
<1> DEFINE s == NewAgent(job)
           x == Task("start", "load", s, RecursionLimit, None)
<1>1. /\ up /\ snap = None /\ snap' = s /\ Spawn(x)
      /\ UNCHANGED <<cp, up, crashes, answers, started, lost, eager>>
  BY DEF Submit
<1>2. PICK t \in Slots : tasks[t] = Free /\ tasks' = [tasks EXCEPT ![t] = x]
  BY <1>1, SpawnSlot
<1>3. Live = {} /\ cp = None /\ DOMAIN tasks = Slots
  BY <1>1 DEF ServiceInv, Known
<1>4. PlaceInv("ingest", s) /\ RowInv(s) /\ s \in AgentState /\ s.pending_approval = None
  BY NewRow, ServiceAssumption
<1>5. TaskInv(x) /\ s # None /\ x.agent = s /\ WillStore(x)
  <2> HIDE DEF s
  <2>1. TaskInv(x)
    BY <1>4, LimitIsNat DEF TaskInv, Task, Resuming, GraphNodes
  <2> QED
    BY <1>4, <2>1, ServiceAssumption DEF Task, WillStore, Resuming
<1> HIDE DEF x, s
<1>6. Live' = {t} /\ tasks'[t] = x /\ DOMAIN tasks' = Slots
  <2>1. x # Free
    BY <1>5, TaskIsLive
  <2> QED
    BY <1>2, <1>3, <2>1, FirstTask
<1>7. Known'
  BY <1>1, <1>3, <1>4, <1>5, <1>6 DEF Known
<1>8. LoadsAlone'
  <2>1. \A u \in Slots : At(u, "recover", "load")' \/ At(u, "start", "load")' => u = t
    BY <1>6 DEF At, Live
  <2> QED
    BY <1>1, <1>3, <1>4, <1>5, <1>6, <2>1 DEF LoadsAlone
<1>9. Records'
  BY <1>1 DEF ServiceInv, Records
<1>10. Attended'
  BY <1>5, <1>6 DEF Attended
<1> QED
  BY <1>7, <1>8, <1>9, <1>10 DEF ServiceInv

\* An accepted answer starts a task that stores nothing by itself.
LEMMA PostAnswerInv ==
  ASSUME ServiceInv, NEW a \in ApprovalResponse, PostAnswer(a)
  PROVE  ServiceInv'
<1> DEFINE x == Task("resume", "load", snap, 0, a)
           record == [request |-> RequestOf(snap), step_id |-> snap.pending_approval,
                      decision |-> a.decision, life |-> crashes,
                      after |-> Len(snap.approvals)]
<1>1. /\ up /\ snap # None /\ snap.pending_approval # None /\ Spawn(x)
      /\ answers' = Append(answers, record)
      /\ eager' = (eager \/ \E t \in Live : tasks[t].at # "load")
      /\ UNCHANGED <<snap, cp, up, crashes, started, lost>>
  BY DEF PostAnswer
<1>2. PICK t \in Slots : tasks[t] = Free /\ tasks' = [tasks EXCEPT ![t] = x]
  BY <1>1, SpawnSlot
<1>3. DOMAIN tasks = Slots /\ RowInv(snap) /\ snap \in AgentState /\ crashes \in Nat
  BY <1>1 DEF ServiceInv, Known, RowInv, StateInv, Records
<1>4. TaskInv(x)
  BY <1>3, LimitIsNat, NoneAssumption DEF TaskInv, Task, Resuming, GraphNodes
<1>5. record \in AnswerRecord
  BY <1>1, <1>3 DEF AnswerRecord, AgentState, RequestOf, ApprovalResponse
<1> HIDE DEF record
<1>6. answers' \in Seq(AnswerRecord)
  BY <1>1, <1>5 DEF ServiceInv, Records
<1>7. x.kind = "resume"
  BY DEF Task
<1> HIDE DEF x
<1>8. /\ DOMAIN tasks' = Slots /\ tasks'[t] = x
      /\ \A u \in Slots \ {t} : tasks'[u] = tasks[u]
      /\ Live' = Live \cup {t}
  <2>1. x # Free
    BY <1>4, TaskIsLive
  <2>2. /\ DOMAIN tasks' = Slots /\ tasks'[t] = x
        /\ \A u \in Slots \ {t} : tasks'[u] = tasks[u]
        /\ Live' \subseteq Live \cup {t} /\ Live \subseteq Live' \cup {t}
        /\ t \in Live' <=> x # Free
    BY <1>2, <1>3, SlotChange
  <2> QED
    BY <2>1, <2>2
<1>9. Known'
  <2>1. ASSUME NEW u \in Live' PROVE TaskInv(tasks'[u])
    BY <1>4, <1>8 DEF ServiceInv, Known, Live
  <2> QED
    BY <1>1, <1>8, <2>1 DEF ServiceInv, Known
<1>10. LoadsAlone'
  <2>1. ASSUME NEW u \in Slots, At(u, "recover", "load")' \/ At(u, "start", "load")'
        PROVE  FALSE
    <3>1. u # t
      BY <1>7, <1>8, <2>1 DEF At
    <3>2. At(u, "recover", "load") \/ At(u, "start", "load")
      BY <1>8, <2>1, <3>1 DEF At
    <3> QED
      BY <1>1, <3>2 DEF ServiceInv, LoadsAlone
  <2> QED
    BY <2>1 DEF LoadsAlone
<1>11. Records'
  BY <1>1, <1>6 DEF ServiceInv, Records
<1>12. Attended'
  <2>1. AtRest => AtRest'
    BY <1>1 DEF AtRest, Settled
  <2>2. ASSUME NEW u \in Live, WillStore(tasks[u]) PROVE u \in Live' /\ WillStore(tasks'[u])
    BY <1>2, <1>8, <2>2 DEF Live
  <2> QED
    BY <2>1, <2>2 DEF ServiceInv, Attended, WillStore
<1> QED
  BY <1>9, <1>10, <1>11, <1>12 DEF ServiceInv

\* A crash leaves the row and nothing else.
LEMMA CrashInv ==
  ASSUME ServiceInv, Crash
  PROVE  ServiceInv'
<1>1. /\ ~up' /\ cp' = None /\ tasks' = [t \in Slots |-> Free] /\ crashes < MaxCrashes
      /\ crashes' = crashes + 1 /\ UNCHANGED <<snap, answers, started, lost, eager>>
      /\ up' = FALSE
  BY DEF Crash
<1>2. Live' = {} /\ DOMAIN tasks' = Slots
  BY <1>1 DEF Live
<1>3. Known'
  BY <1>1, <1>2 DEF ServiceInv, Known
<1>4. LoadsAlone'
  BY <1>2 DEF LoadsAlone, At, Live
<1>5. Records'
  <2>1. crashes' \in 0..MaxCrashes /\ crashes' > 0
    BY <1>1, ServiceAssumption DEF ServiceInv, Records
  <2> QED
    BY <1>1, <1>2, <2>1 DEF ServiceInv, Records
<1>6. Attended'
  BY <1>1 DEF Attended, AtRest
<1> QED
  BY <1>3, <1>4, <1>5, <1>6 DEF ServiceInv

\* Recovery takes up a run that neither ended nor waits nor is queued, and no
\* other is left to anybody.
LEMMA RestartInv ==
  ASSUME ServiceInv, Restart
  PROVE  ServiceInv'
<1>1. /\ ~up /\ up' = TRUE /\ UNCHANGED <<snap, cp, crashes, answers, started, lost, eager>>
      /\ Live = {} /\ cp = None /\ crashes > 0 /\ DOMAIN tasks = Slots
  BY DEF Restart, ServiceInv, Records, Known
<1>2. Records'
  BY <1>1 DEF ServiceInv, Records
<1>3. CASE snap # None /\ snap.status \notin Terminal \cup {"pending", "waiting_approval"}
  <2> DEFINE x == Task("recover", "load", snap, RecursionLimit, None)
  <2>1. Spawn(x)
    BY <1>3 DEF Restart
  <2>2. PICK t \in Slots : tasks[t] = Free /\ tasks' = [tasks EXCEPT ![t] = x]
    BY <2>1, SpawnSlot
  <2>3. RowInv(snap) /\ snap \in AgentState
    BY <1>3 DEF ServiceInv, Known, RowInv, StateInv
  <2>4. snap.pending_approval = None
    BY <1>3, <2>3 DEF RowInv, Terminal
  <2>5. TaskInv(x) /\ WillStore(x) /\ x.agent = snap
    BY <2>3, LimitIsNat DEF TaskInv, Task, Resuming, GraphNodes, WillStore
  <2> HIDE DEF x
  <2>6. Live' = {t} /\ tasks'[t] = x /\ DOMAIN tasks' = Slots
    <3>1. x # Free
      BY <2>5, TaskIsLive
    <3> QED
      BY <1>1, <2>2, <3>1, FirstTask
  <2>7. Known'
    BY <1>1, <1>3, <2>5, <2>6 DEF ServiceInv, Known
  <2>8. LoadsAlone'
    <3>1. \A u \in Slots : At(u, "recover", "load")' \/ At(u, "start", "load")' => u = t
      BY <2>6 DEF At, Live
    <3> QED
      BY <1>1, <2>4, <2>5, <2>6, <3>1 DEF LoadsAlone
  <2>9. Attended'
    BY <2>5, <2>6 DEF Attended
  <2> QED
    BY <1>2, <2>7, <2>8, <2>9 DEF ServiceInv
<1>4. CASE ~(snap # None /\ snap.status \notin Terminal \cup {"pending", "waiting_approval"})
  <2>1. tasks' = tasks
    BY <1>4 DEF Restart
  <2>2. Live' = Live
    BY <2>1 DEF Live
  <2>3. Known' /\ LoadsAlone'
    BY <1>1, <2>1, <2>2 DEF ServiceInv, Known, LoadsAlone, At
  <2>4. AtRest'
    BY <1>1, <1>4 DEF AtRest, Settled
  <2> QED
    BY <1>2, <2>3, <2>4 DEF ServiceInv, Attended
<1> QED
  BY <1>3, <1>4

\* Before the run is submitted nothing is known and nothing is owed.
LEMMA InitService == Init => ServiceInv
<1> SUFFICES ASSUME Init PROVE ServiceInv
  OBVIOUS
<1>1. Live = {} /\ DOMAIN tasks = Slots
  BY DEF Init, Live
<1>2. Known
  BY <1>1 DEF Init, Known
<1>3. LoadsAlone
  BY <1>1 DEF LoadsAlone, At, Live
<1>4. Records
  <2>1. crashes \in 0..MaxCrashes
    BY ServiceAssumption DEF Init
  <2>2. answers = <<>> /\ started = <<>> /\ up /\ {up, lost, eager} \subseteq BOOLEAN
    BY DEF Init
  <2> QED
    BY <2>1, <2>2 DEF Records
<1>5. Attended
  BY DEF Init, Attended, AtRest
<1> QED
  BY <1>2, <1>3, <1>4, <1>5 DEF ServiceInv

\* Every step of the service keeps the invariant.
LEMMA NextService == ServiceInv /\ [Next]_vars => ServiceInv'
<1> SUFFICES ASSUME ServiceInv, [Next]_vars PROVE ServiceInv'
  OBVIOUS
<1>1. CASE UNCHANGED vars
  BY <1>1 DEF vars, ServiceInv, Known, LoadsAlone, Records, Attended, AtRest, Live, At
<1> QED
  BY <1>1, SubmitInv, PostAnswerInv, WorkInv, CrashInv, RestartInv DEF Next

\* Whatever tasks, crashes and answers interleave: every state that is stored
\* or worked on is one its node can rely on.
THEOREM ServiceInvariance == Spec => []ServiceInv
BY InitService, NextService, PTL DEF Spec

\* The run row, the checkpoint and the tasks keep the schema of AgentState
\* (schemas.py), over all crashes, replays and overlapping tasks of service.py.
THEOREM TypeCorrect == Spec => []TypeOK
<1>1. ServiceInv => TypeOK
  <2> SUFFICES ASSUME ServiceInv PROVE TypeOK
    OBVIOUS
  <2>1. snap \in AgentState \cup {None}
    BY DEF ServiceInv, Known, RowInv, StateInv
  <2>2. cp = None \/ (cp.agent \in AgentState /\ cp.route \in GraphNodes \cup {"end"})
    BY PlaceIsRow DEF ServiceInv, Known, CheckpointInv
  <2>3. ASSUME NEW t \in Slots, tasks[t] # Free
        PROVE  /\ tasks[t].kind \in {"start", "replay", "recover"} \cup Resuming
               /\ tasks[t].at \in GraphNodes \cup {"load", "call", "returned"}
               /\ tasks[t].agent \in AgentState /\ tasks[t].left \in 0..RecursionLimit
               /\ tasks[t].answer \in ApprovalResponse \cup {None}
    BY <2>3 DEF ServiceInv, Known, Live, TaskInv
  <2> QED
    BY <2>1, <2>2, <2>3 DEF TypeOK, ServiceInv, Records
<1> QED
  BY <1>1, ServiceInvariance, PTL

\* A run stored as waiting shows its request, so recovery may pass it by
\* (incomplete_run_ids); the only other row that shows one is a run that the
\* recursion limit failed at its question (service.py:79).
THEOREM WaitingRowsAsk == Spec => []WaitingRowAsks
<1>1. ServiceInv => WaitingRowAsks
  BY DEF ServiceInv, Known, RowInv, WaitingRowAsks
<1> QED
  BY <1>1, ServiceInvariance, PTL

\* A run that no task works on is over or asks, but for a lost task and for
\* what a crash leaves of queued and unreported runs (service.py:113).
THEOREM IdleRunsAreSettled == Spec => []IdleIsSettled
<1>1. ServiceInv => IdleIsSettled
  BY DEF ServiceInv, Attended, AtRest, IdleIsSettled, Idle
<1> QED
  BY <1>1, ServiceInvariance, PTL
-----------------------------------------------------------------------------
(***************************************************************************)
(* Until a request is answered twice in one life of the process: a task    *)
(* moves while it has work to do or an answer to give.  A call that asked  *)
(* and has not returned yet is stale once its question was answered: it    *)
(* stores the question again, in the row and in the checkpoint, but it     *)
(* does not move, and whoever picks that state up finds a question that    *)
(* the operator granted.                                                   *)
(***************************************************************************)

\* No request was answered twice in one life of the process.
AnsweredOnce ==
  \A i, j \in DOMAIN answers : i # j =>
    answers[i].request # answers[j].request \/ answers[i].life # answers[j].life

\* The agent states that are stored or worked on.
Copies ==
  ({snap} \ {None}) \cup {c.agent : c \in {cp} \ {None}}
    \cup {tasks[t].agent : t \in {u \in Live : tasks[u].at # "load"}}

\* Those that ask.
Asked == {s \in Copies : s.pending_approval # None}

\* An answer to the request was accepted in this life of the process.
AnsweredNow(s) == \E a \in Elements(answers) : a.request = RequestOf(s) /\ a.life = crashes

Granted(id) == Allowed([step_id |-> id])

Past(s) == AnsweredNow(s) /\ Granted(s.pending_approval)

Alike(r, s) == RequestOf(r) = RequestOf(s) /\ r.pending_approval = s.pending_approval

Moves(task) ==
  IF task.kind = "resume" THEN task.at # "returned" ELSE task.at \notin {"approval", "returned"}

\* A task that takes a refusal to the report.
Refused(task) == \/ task.kind = "resume" /\ task.answer.decision = "deny"
                 \/ task.at \in Exit

OneMover == \A t, u \in Live : Moves(tasks[t]) /\ Moves(tasks[u]) => t = u

GivenIn(s) == \A a \in Elements(s.approvals) :
  a.decision \in {"approve", "edit"} => Granted(a.step_id)

\* What else is asked while a task moves was answered, and granted unless the
\* task takes a refusal away.
MoversPast == \A t \in Live : \A s \in Asked : Moves(tasks[t]) =>
  AnsweredNow(s) /\ (Refused(tasks[t]) \/ Granted(s.pending_approval))

\* At most one question is open.
OneOpen == \A r, s \in Asked : Past(r) \/ Past(s) \/ Alike(r, s)

\* An answer finds the graph at the question, or no checkpoint.
AnswerRoute ==
  (\/ \E s \in Asked : ~AnsweredNow(s)
   \/ \E t \in Live : tasks[t].kind = "resume" /\ tasks[t].at = "load")
    => cp = None \/ cp.route = "approval"

PlaceOf(task) ==
  /\ task.kind = "resume" => task.at \in {"load", "approval", "returned"}
  /\ task.kind = "resumed" /\ task.answer.decision = "deny" => task.at \in Exit \cup {"returned"}

TokenInv ==
  /\ OneMover
  /\ \A s \in Copies : GivenIn(s)
  /\ MoversPast
  /\ OneOpen
  /\ AnswerRoute
  /\ \A t \in Live : PlaceOf(tasks[t])
  /\ cp = None => \A t \in Live : tasks[t].at \in {"load", "ingest"}
  /\ StartedAuthorized

\* A step of one task: c is the one state it may store that was not known
\* before.  Either c asks nothing new, or the task that asks moves no more.
LEMMA TokenStep ==
  ASSUME ServiceInv, TokenInv, NEW t \in Live, NEW x, x = Free \/ (PlaceOf(x) /\ x.at # "load"),
         tasks' = [tasks EXCEPT ![t] = x], UNCHANGED <<answers, crashes>>,
         x # Free /\ Moves(x) => Moves(tasks[t]) /\ (Refused(tasks[t]) => Refused(x)),
         NEW c, \A s \in Copies' : s \in Copies \/ s = c,
         GivenIn(c),
         NEW asks, asks \in BOOLEAN,
         ~asks => c.pending_approval = None \/ \E r \in Asked : Alike(r, c),
         asks => Moves(tasks[t]) /\ ~Refused(tasks[t]) /\ ~(x # Free /\ Moves(x)),
         asks => cp' # None /\ cp'.route = "approval",
         cp' = cp \/ (cp' # None /\ cp'.route = "approval") \/ Moves(tasks[t]),
         cp' = None => cp = None /\ (x = Free \/ x.at = "ingest"),
         StartedAuthorized'
  PROVE  TokenInv'
<1>1. /\ tasks'[t] = x /\ \A u \in Slots \ {t} : tasks'[u] = tasks[u]
      /\ Live' \subseteq Live \cup {t} /\ (t \in Live' <=> x # Free)
      /\ t \in Slots
  <2>1. t \in Slots /\ DOMAIN tasks = Slots
    BY DEF Live, ServiceInv, Known
  <2> QED
    BY <2>1, SlotChange
<1>2. ASSUME NEW u \in Live' PROVE u = t \/ (u # t /\ u \in Live /\ tasks'[u] = tasks[u])
  BY <1>1, <1>2 DEF Live
<1>3. /\ \A s : AnsweredNow(s)' <=> AnsweredNow(s)
      /\ \A id : Granted(id)' <=> Granted(id)
  BY DEF AnsweredNow, Granted, Allowed
<1>4. \A u \in Live' : Moves(tasks'[u]) => u \in Live /\ Moves(tasks[u])
  BY <1>1, <1>2
<1>5. \A s \in Asked' : s \in Asked \/ (s = c /\ c.pending_approval # None)
  BY DEF Asked
<1>6. OneMover'
  BY <1>4 DEF TokenInv, OneMover
<1>7. \A s \in Copies' : GivenIn(s)'
  BY <1>3 DEF TokenInv, GivenIn
<1>8. ASSUME NEW r \in Asked, Alike(r, c)
      PROVE  (AnsweredNow(r) <=> AnsweredNow(c)) /\ r.pending_approval = c.pending_approval
  BY <1>8 DEF Alike, AnsweredNow
<1>9. MoversPast'
  <2> SUFFICES ASSUME NEW u \in Live', NEW s \in Asked', Moves(tasks'[u])
               PROVE  AnsweredNow(s)' /\ (Refused(tasks'[u]) \/ Granted(s.pending_approval)')
    BY DEF MoversPast, Moves, Refused
  <2>1. u \in Live /\ Moves(tasks[u]) /\ (Refused(tasks[u]) => Refused(tasks'[u]))
    BY <1>1, <1>2, <1>4
  <2>2. \A r \in Asked : AnsweredNow(r) /\ (Refused(tasks'[u]) \/ Granted(r.pending_approval))
    BY <2>1 DEF TokenInv, MoversPast
  <2>3. CASE s \in Asked
    BY <1>3, <2>2, <2>3
  <2>4. CASE s \notin Asked
    <3>1. s = c /\ c.pending_approval # None
      BY <1>5, <2>4
    <3>2. ~asks
      BY <1>1, <1>2, <2>1 DEF TokenInv, OneMover
    <3>3. PICK r \in Asked : Alike(r, c)
      BY <3>1, <3>2
    <3> QED
      BY <1>3, <1>8, <2>2, <3>1, <3>3
  <2> QED
    BY <2>3, <2>4
<1>10. OneOpen'
  <2>1. \A r : Past(r)' <=> Past(r)
    BY <1>3 DEF Past
  <2>2. CASE asks
    <3>1. \A r \in Asked : Past(r)
      BY <2>2 DEF TokenInv, MoversPast, Past
    <3> QED
      BY <1>5, <2>1, <3>1 DEF OneOpen, Alike, RequestOf
  <2>3. CASE ~asks
    <3>1. \A s \in Asked' : \E r \in Asked : (Past(r) <=> Past(s)) /\ Alike(r, s)
      <4> SUFFICES ASSUME NEW s \in Asked'
                   PROVE  \E r \in Asked : (Past(r) <=> Past(s)) /\ Alike(r, s)
        OBVIOUS
      <4>1. CASE s \in Asked
        BY <4>1 DEF Alike
      <4>2. CASE s \notin Asked
        <5>1. s = c /\ c.pending_approval # None
          BY <1>5, <4>2
        <5>2. PICK r \in Asked : Alike(r, c)
          BY <2>3, <5>1
        <5> QED
          BY <1>8, <5>1, <5>2 DEF Past
      <4> QED
        BY <4>1, <4>2
    <3> QED
      BY <2>1, <3>1 DEF TokenInv, OneOpen, Alike, RequestOf
  <2> QED
    BY <2>2, <2>3
<1>11. AnswerRoute'
  <2> SUFFICES ASSUME ~(cp' # None /\ cp'.route = "approval"),
                      \/ \E s \in Asked' : ~AnsweredNow(s)'
                      \/ \E u \in Live' : tasks'[u].kind = "resume" /\ tasks'[u].at = "load"
               PROVE  cp' = None \/ cp'.route = "approval"
    BY DEF AnswerRoute
  <2>1. ~asks
    OBVIOUS
  <2>2. ASSUME NEW s \in Asked', ~AnsweredNow(s)' PROVE \E r \in Asked : ~AnsweredNow(r)
    BY <1>3, <1>5, <1>8, <2>1, <2>2
  <2>3. ASSUME NEW u \in Live', tasks'[u].kind = "resume", tasks'[u].at = "load"
        PROVE  u # t /\ u \in Live /\ tasks[u] = tasks'[u]
    BY <1>1, <1>2, <2>3
  <2>4. CASE Moves(tasks[t])
    <3>1. \A r \in Asked : AnsweredNow(r)
      BY <2>4 DEF TokenInv, MoversPast
    <3>2. PICK u \in Live' : tasks'[u].kind = "resume" /\ tasks'[u].at = "load"
      BY <2>2, <3>1
    <3>3. Moves(tasks[u]) /\ u # t /\ u \in Live
      BY <2>3, <3>2 DEF Moves
    <3> QED
      BY <2>4, <3>3 DEF TokenInv, OneMover
  <2>5. CASE ~Moves(tasks[t])
    <3>1. cp' = cp
      BY <2>5
    <3> QED
      BY <2>2, <2>3, <3>1 DEF TokenInv, AnswerRoute
  <2> QED
    BY <2>4, <2>5
<1>12. \A u \in Live' : PlaceOf(tasks'[u])
  BY <1>1, <1>2 DEF TokenInv
<1>13. cp' = None => \A u \in Live' : tasks'[u].at \in {"load", "ingest"}
  BY <1>1, <1>2 DEF TokenInv
<1> QED
  BY <1>6, <1>7, <1>9, <1>10, <1>11, <1>12, <1>13 DEF TokenInv, PlaceOf, GivenIn

\* Where the state of a live task is among the copies.
LEMMA CopyFacts ==
  /\ snap # None => snap \in Copies
  /\ cp # None => cp.agent \in Copies
  /\ \A t \in Live : tasks[t].at # "load" => tasks[t].agent \in Copies
BY DEF Copies

\* Nor is a new copy anything but what the step stores.
LEMMA NewCopies ==
  ASSUME NEW t \in Slots, DOMAIN tasks = Slots, NEW x, tasks' = [tasks EXCEPT ![t] = x],
         NEW s \in Copies'
  PROVE  \/ s \in Copies
         \/ s = snap' /\ snap' # snap
         \/ cp' # cp /\ cp' # None /\ s = cp'.agent
         \/ x # Free /\ x.at # "load" /\ s = x.agent
<1>1. /\ tasks'[t] = x /\ \A u \in Slots \ {t} : tasks'[u] = tasks[u]
      /\ Live' \subseteq Live \cup {t} /\ (t \in Live' <=> x # Free)
  BY SlotChange
<1>2. CASE s \in {snap'} \ {None}
  BY <1>2 DEF Copies
<1>3. CASE \E c \in {cp'} \ {None} : s = c.agent
  BY <1>3 DEF Copies
<1>4. CASE \E u \in Live' : tasks'[u].at # "load" /\ s = tasks'[u].agent
  <2>1. PICK u \in Live' : tasks'[u].at # "load" /\ s = tasks'[u].agent
    BY <1>4
  <2>2. CASE u = t
    BY <1>1, <2>1, <2>2
  <2>3. CASE u # t
    <3>1. u \in Live /\ tasks'[u] = tasks[u]
      BY <1>1, <2>3 DEF Live
    <3> QED
      BY <2>1, <3>1 DEF Copies
  <2> QED
    BY <2>2, <2>3
<1> QED
  BY <1>2, <1>3, <1>4 DEF Copies

\* A step that stores only what was known.
LEMMA TokenKnown ==
  ASSUME ServiceInv, TokenInv, NEW t \in Live, NEW x, x = Free \/ (PlaceOf(x) /\ x.at # "load"),
         tasks' = [tasks EXCEPT ![t] = x], UNCHANGED <<answers, crashes, cp>>,
         x # Free /\ Moves(x) => Moves(tasks[t]) /\ (Refused(tasks[t]) => Refused(x)),
         snap' \in Copies, x # Free => x.agent \in Copies,
         cp = None => x = Free \/ x.at = "ingest",
         StartedAuthorized'
  PROVE  TokenInv'
<1>1. t \in Slots /\ DOMAIN tasks = Slots /\ snap # None
  BY LiveFacts
<1>2. \A s \in Copies' : s \in Copies \/ s = snap
  BY <1>1, NewCopies
<1>3. snap \in Copies
  BY <1>1, CopyFacts
<1>4. snap.pending_approval = None \/ \E r \in Asked : Alike(r, snap)
  BY <1>3 DEF Asked, Alike
<1>5. GivenIn(snap)
  BY <1>3 DEF TokenInv
<1> QED
  BY <1>2, <1>4, <1>5, TokenStep

\* The calls begun stay authorized while none begins.
LEMMA NoCallBegun == ASSUME TokenInv, UNCHANGED <<answers, started>> PROVE StartedAuthorized'
BY DEF TokenInv, StartedAuthorized, Allowed

\* The answer recorded in a state was given if it grants anything.
LEMMA AnsweredGiven ==
  ASSUME NEW s, RowInv(s), s.pending_approval # None, GivenIn(s), NEW a \in ApprovalResponse,
         a.decision # "deny" => Granted(s.pending_approval)
  PROVE  GivenIn(Answered(s, a))
<1> DEFINE record == [step_id |-> s.pending_approval, decision |-> a.decision]
           S == [step_id : StepIds, decision : {"approve", "deny", "edit"}]
           c == Answered(s, a)
<1>1. s \in AgentState
  BY DEF RowInv, StateInv
<1>2. s.approvals \in Seq(S) /\ record \in S
  BY <1>1 DEF AgentState, ApprovalResponse
<1>3. record.decision # "deny" => Granted(record.step_id)
  OBVIOUS
<1>4. c.approvals = Append(s.approvals, record)
  BY AnswerPlace
<1> HIDE DEF record, S, c
<1>5. \A e \in Elements(Append(s.approvals, record)) :
        e \in Elements(s.approvals) \/ e = record
  BY <1>2, ElementsAppend
<1> QED
  BY <1>3, <1>4, <1>5 DEF GivenIn, c

\* A replay applies an answer that was given to the step its row asks for.
LEMMA TokenReplay ==
  ASSUME ServiceInv, TokenInv, NEW t \in Live, tasks[t].kind \in Resuming,
         Moves(tasks[t]), tasks[t].answer.decision # "deny" => ~Refused(tasks[t]),
         Refused(tasks[t]) => cp = None /\ tasks[t].kind = "resume" /\ tasks[t].at = "load",
         NEW r \in Copies, RowInv(r), r.pending_approval # None,
         Replay(t, r, tasks[t].answer),
         UNCHANGED <<cp, up, crashes, answers, started, eager>>
  PROVE  TokenInv'
<1> DEFINE a == tasks[t].answer
           c == Answered(r, a)
           x == Task("replay", "ingest", c, RecursionLimit, None)
<1>1. /\ t \in Slots /\ DOMAIN tasks = Slots /\ a \in ApprovalResponse /\ StartedAuthorized'
      /\ r \in Asked /\ GivenIn(r)
  BY LiveFacts, NoCallBegun DEF TaskInv, Asked, TokenInv
<1>2. snap' = c /\ tasks' = [tasks EXCEPT ![t] = x]
  BY DEF Replay
<1>3. c \in AgentState /\ c.pending_approval = None
  BY <1>1, AnswerPlace
<1>4. a.decision # "deny" => Granted(r.pending_approval)
  <2>1. Refused(tasks[t]) \/ Granted(r.pending_approval)
    BY <1>1 DEF TokenInv, MoversPast
  <2> QED
    BY <2>1
<1>5. GivenIn(c)
  BY <1>1, <1>4, AnsweredGiven
<1>6. x.kind = "replay" /\ x.at = "ingest" /\ x.agent = c /\ x # Free
  <2>1. Free.kind = "free"
    BY DEF Free
  <2> QED
    BY <2>1 DEF Task
<1> HIDE DEF c, x
<1>7. \A s \in Copies' : s \in Copies \/ s = c
  BY <1>1, <1>2, <1>6, NewCopies
<1>8. PlaceOf(x) /\ ~Refused(x)
  BY <1>6 DEF PlaceOf, Refused, Exit
<1>9. CASE ~Refused(tasks[t])
  BY <1>1, <1>2, <1>3, <1>5, <1>6, <1>7, <1>8, <1>9, TokenStep
<1>10. CASE Refused(tasks[t])
  <2>1. \A u \in Live : u = t
    <3>1. \A u \in Live : Moves(tasks[u])
      BY <1>10 DEF TokenInv, Moves
    <3> QED
      BY <3>1 DEF TokenInv, OneMover
  <2>2. Live' = {t} /\ tasks'[t] = x
    <3>1. Live = {t}
      BY <2>1
    <3>2. Live' \subseteq Live \cup {t} /\ t \in Live' /\ tasks'[t] = x
      BY <1>1, <1>2, <1>6, SlotChange
    <3> QED
      BY <3>1, <3>2
  <2>3. Copies' \subseteq {c}
    BY <1>2, <1>6, <1>10, <2>2 DEF Copies
  <2>4. Asked' = {}
    BY <1>3, <2>3 DEF Asked
  <2>5. \A s \in Copies' : GivenIn(s)'
    BY <1>5, <2>3 DEF GivenIn, Granted, Allowed
  <2> QED
    BY <1>1, <1>6, <1>8, <1>10, <2>2, <2>4, <2>5
       DEF TokenInv, OneMover, MoversPast, OneOpen, AnswerRoute, PlaceOf
<1> QED
  BY <1>9, <1>10

\* What an exception stores asks nothing new, or is a replay's.
LEMMA TokenFailed ==
  ASSUME ServiceInv, TokenInv, NEW t \in Live, Failed(t),
         tasks[t].kind \in Resuming =>
           \/ tasks[t].kind = "resume" /\ tasks[t].at = "load" /\ cp = None
           \/ /\ tasks[t].kind = "resumed"
              /\ tasks[t].at \notin Exit \cup {"approval", "load", "returned"},
         UNCHANGED <<cp, up, crashes, answers, started, eager>>
  PROVE  TokenInv'
<1>1. t \in Slots /\ TaskInv(tasks[t]) /\ snap # None /\ RowInv(snap) /\ DOMAIN tasks = Slots
  BY LiveFacts
<1>2. StartedAuthorized'
  BY NoCallBegun
<1>3. snap \in Copies /\ GivenIn(snap)
  BY <1>1, CopyFacts DEF TokenInv
<1>4. CASE tasks[t].kind = "start"
  <2> DEFINE c == [snap EXCEPT !.status = "failed", !.last_error = TRUE]
  <2>1. snap' = c /\ tasks' = [tasks EXCEPT ![t] = Free]
    BY <1>4 DEF Failed, Resuming
  <2>2. /\ c.pending_approval = snap.pending_approval /\ c.steps_used = snap.steps_used
        /\ c.approvals = snap.approvals
    BY <1>1, FailedRow
  <2> HIDE DEF c
  <2>3. \A s \in Copies' : s \in Copies \/ s = c
    BY <1>1, <2>1, NewCopies
  <2>4. GivenIn(c)
    BY <1>3, <2>2 DEF GivenIn
  <2>5. c.pending_approval = None \/ \E r \in Asked : Alike(r, c)
    BY <1>3, <2>2 DEF Asked, Alike, RequestOf
  <2> QED
    BY <1>2, <2>1, <2>3, <2>4, <2>5, TokenStep
<1>5. ASSUME Die(t) PROVE TokenInv'
  <2>1. snap' = snap /\ tasks' = [tasks EXCEPT ![t] = Free]
    BY <1>5 DEF Die
  <2> QED
    BY <1>2, <1>3, <2>1, TokenKnown
<1>6. CASE tasks[t].kind \in Resuming /\ snap.pending_approval # None
  <2>1. Replay(t, snap, tasks[t].answer)
    BY <1>6 DEF Failed, Resuming
  <2>2. /\ Moves(tasks[t])
        /\ tasks[t].answer.decision # "deny" => ~Refused(tasks[t])
        /\ Refused(tasks[t]) => cp = None /\ tasks[t].kind = "resume" /\ tasks[t].at = "load"
    BY <1>6 DEF Moves, Refused, Resuming, Exit
  <2> QED
    BY <1>1, <1>3, <1>6, <2>1, <2>2, TokenReplay
<1> QED
  BY <1>4, <1>5, <1>6 DEF Failed, Resuming

\* An outcome is a state and a route; one way out of a node asks.
LEMMA Asks ==
  ASSUME NEW n \in GraphNodes \ {"approval"}, NEW s, PlaceInv(n, s), NEW o \in Node(n, s)
  PROVE  /\ o.agent.approvals = s.approvals
         /\ o.route # "approval" => o.agent.pending_approval = None
         /\ n \in Exit => o.route \in (Exit \cup {"end"}) \ {"record_denial"}
<1>1. NodeInv(o.route, o.agent) /\ o.route \in GraphNodes \cup {"end", "raise"}
  BY PlacePasses DEF PlaceInv
<1>2. s \in AgentState
  BY DEF PlaceInv, NodeInv, StateInv
<1>3. o.route \notin Asking \/ o.route = "approval"
  BY <1>1 DEF Asking, GraphNodes
<1>4. o.route # "approval" => o.agent.pending_approval = None
  BY <1>1, <1>3 DEF NodeInv
<1>5. o.agent.approvals = s.approvals
  BY <1>2, NodeKeeps DEF Keeps
<1>6. n \in Exit => o.route \in (Exit \cup {"end"}) \ {"record_denial"}
  BY ExitRoutes DEF Exit, Go
<1> QED
  BY <1>4, <1>5, <1>6

\* The task that takes a node's outcome moves until it asks or ends.
LEMMA TokenTake ==
  ASSUME ServiceInv, TokenInv, NEW t \in Live, NEW n \in GraphNodes \ {"approval"},
         tasks[t].at = n \/ (n = "execute" /\ tasks[t].at = "call"),
         NEW o \in Node(n, tasks[t].agent), Take(t, o),
         UNCHANGED <<up, crashes, answers, started, eager>>
  PROVE  TokenInv'
<1> DEFINE task == tasks[t]
<1>1. t \in Slots /\ TaskInv(task) /\ snap # None /\ DOMAIN tasks = Slots
  BY LiveFacts
<1>2. PlaceInv(n, task.agent) /\ task.at \notin {"load", "approval", "returned"}
  BY <1>1 DEF TaskInv, GraphNodes
<1>3. task.kind # "resume" /\ Moves(task) /\ (Refused(task) => n \in Exit)
  BY <1>2 DEF TokenInv, PlaceOf, Moves, Refused, Exit
<1>4. /\ o.route \in GraphNodes \cup {"end", "raise"} /\ PlaceInv(o.route, o.agent)
      /\ o.agent.approvals = task.agent.approvals
      /\ o.route # "approval" => o.agent.pending_approval = None
      /\ n \in Exit => o.route \in (Exit \cup {"end"}) \ {"record_denial"}
  BY <1>2, PlacePasses, Asks
<1>5. CASE o.route = "raise"
  <2>1. n \notin Exit
    BY <1>4, <1>5 DEF Exit
  <2>2. task.kind \in Resuming =>
          /\ task.kind = "resumed"
          /\ task.at \notin Exit \cup {"approval", "load", "returned"}
    BY <1>2, <1>3, <2>1 DEF Resuming, Exit
  <2>3. Failed(t) /\ UNCHANGED cp
    BY <1>5 DEF Take
  <2> QED
    BY <2>2, <2>3, TokenFailed
<1>6. CASE o.route # "raise"
  <2> DEFINE at == IF o.route \in {"interrupt", "end"} THEN "returned" ELSE o.route
             left == IF task.kind \in Resuming THEN task.left ELSE task.left - 1
             x == Task(task.kind, at, o.agent, left, task.answer)
             c == o.agent
  <2>1. o.route # "interrupt"
    BY <1>4 DEF GraphNodes
  <2>2. snap' = c /\ cp' = o /\ tasks' = [tasks EXCEPT ![t] = x]
    BY <1>3, <1>6, <2>1 DEF Take
  <2>3. x.kind = task.kind /\ x.at = at /\ x.agent = c /\ x.answer = task.answer
    BY DEF Task
  <2> HIDE DEF x
  <2>4. \A s \in Copies' : s \in Copies \/ s = c
    BY <1>1, <2>2, <2>3, NewCopies
  <2>5. task.agent \in Copies
    BY <1>2, CopyFacts
  <2>6. GivenIn(c)
    BY <1>4, <2>5 DEF TokenInv, GivenIn
  <2>7. at # "load" /\ (n \in Exit => at \in Exit \cup {"returned"})
    BY <1>4, <1>6 DEF GraphNodes
  <2>8. PlaceOf(x)
    <3>1. x.kind = "resumed" /\ x.answer.decision = "deny" => n \in Exit
      BY <1>2, <2>3 DEF TokenInv, PlaceOf, Exit
    <3> QED
      BY <1>3, <2>3, <2>7, <3>1 DEF PlaceOf
  <2>9. x # Free /\ Moves(x) => Moves(task) /\ (Refused(task) => Refused(x))
    BY <1>3, <2>3, <2>7 DEF Moves, Refused
  <2>10. at = "approval" <=> o.route = "approval"
    OBVIOUS
  <2>11. o.route = "approval" => ~Refused(task) /\ ~Moves(x)
    BY <1>3, <1>4, <2>3, <2>10 DEF Moves, Exit
  <2>12. cp' # None
    <3>1. o.agent \in AgentState
      BY <1>4, PlaceIsRow
    <3>2. o = Go(o.agent, o.route)
      BY NodeGoes
    <3>3. o.route \in GraphNodes \cup {"end"}
      BY <1>4, <1>6
    <3>4. o \in [agent : AgentState, route : GraphNodes \cup {"end"}]
      BY <3>1, <3>2, <3>3 DEF Go
    <3> QED
      BY <2>2, <3>4, ServiceAssumption
  <2>13. StartedAuthorized'
    BY NoCallBegun
  <2>14. x.at # "load"
    BY <2>3, <2>7
  <2> HIDE DEF c, at
  <2>15. CASE o.route = "approval"
    <3> DEFINE asks == TRUE
    <3>1. asks \in BOOLEAN /\ asks /\ cp'.route = "approval"
      BY <2>2, <2>15
    <3> QED
      BY <1>3, <2>2, <2>4, <2>6, <2>8, <2>9, <2>11, <2>12, <2>13, <2>14, <2>15, <3>1, TokenStep
  <2>16. CASE o.route # "approval"
    <3>1. c.pending_approval = None
      BY <1>4, <2>16 DEF c
    <3> QED
      BY <1>3, <2>2, <2>4, <2>6, <2>8, <2>9, <2>12, <2>13, <2>14, <3>1, TokenStep
  <2> QED
    BY <2>15, <2>16
<1> QED
  BY <1>5, <1>6

\* Every step of a task keeps the invariant.
LEMMA TokenWork ==
  ASSUME ServiceInv, TokenInv, NEW t \in Slots, Work(t)
  PROVE  TokenInv'
<1>1. t \in Live
  BY DEF Work, Start, Resume, Recover, RunNode, RunApproval, BeginCall, EndCall, NoCallLeft,
         OutOfSteps, Return, MayRun, At, Live
<1> DEFINE task == tasks[t]
<1>2. TaskInv(task) /\ snap # None /\ RowInv(snap) /\ snap \in Copies /\ PlaceOf(task)
  BY <1>1, LiveFacts, CopyFacts DEF TokenInv
<1>3. CASE Start(t)
  <2> DEFINE x == [task EXCEPT !.at = "ingest"]
  <2>1. /\ tasks' = [tasks EXCEPT ![t] = x] /\ snap' = task.agent /\ task.at = "load"
        /\ task.kind = "start" /\ UNCHANGED <<cp, up, crashes, answers, started, lost, eager>>
    BY <1>3 DEF Start, At
  <2>2. task.agent = snap
    BY <1>3 DEF Start, ServiceInv, LoadsAlone
  <2>3. x.at = "ingest" /\ x.kind = "start" /\ x.agent = task.agent
    BY <1>2, <2>1 DEF TaskInv
  <2> HIDE DEF x
  <2>4. PlaceOf(x) /\ Moves(task) /\ ~Refused(task)
    BY <2>1, <2>3 DEF PlaceOf, Moves, Refused, Exit
  <2>5. StartedAuthorized'
    BY <2>1, NoCallBegun
  <2> QED
    BY <1>1, <1>2, <2>1, <2>2, <2>3, <2>4, <2>5, TokenKnown
<1>4. CASE Resume(t)
  <2>1. task.kind = "resume" /\ task.at = "load"
        /\ UNCHANGED <<cp, up, crashes, answers, started, eager>>
    BY <1>4 DEF Resume, At
  <2>2. CASE cp = None
    BY <1>1, <1>4, <2>1, <2>2, TokenFailed DEF Resume
  <2>3. CASE cp # None
    <3> DEFINE x == [task EXCEPT !.at = "approval", !.agent = cp.agent]
    <3>1. cp.route = "approval"
      BY <1>1, <2>1, <2>3 DEF TokenInv, AnswerRoute
    <3>2. tasks' = [tasks EXCEPT ![t] = x] /\ UNCHANGED <<snap, lost>>
      BY <1>4, <2>3, <3>1 DEF Resume
    <3>3. x.at = "approval" /\ x.kind = "resume" /\ x.agent = cp.agent /\ x.answer = task.answer
      BY <1>2, <2>1 DEF TaskInv
    <3>4. cp.agent \in Copies
      BY <2>3, CopyFacts
    <3> HIDE DEF x
    <3>5. PlaceOf(x) /\ Moves(task) /\ (Refused(task) => Refused(x))
      BY <2>1, <3>3 DEF PlaceOf, Moves, Refused, Exit
    <3>6. StartedAuthorized'
      BY <2>1, NoCallBegun
    <3> QED
      BY <1>1, <1>2, <2>1, <2>3, <3>2, <3>3, <3>4, <3>5, <3>6, TokenKnown
  <2> QED
    BY <2>2, <2>3
<1>5. CASE Recover(t)
  <2>1. /\ task.kind = "recover" /\ task.at = "load"
        /\ UNCHANGED <<snap, cp, up, crashes, answers, started, lost, eager>>
    BY <1>5 DEF Recover, At
  <2>2. StartedAuthorized'
    BY <2>1, NoCallBegun
  <2>3. CASE snap.status = "waiting_approval"
    <3>1. tasks' = [tasks EXCEPT ![t] = Free]
      BY <1>5, <2>3 DEF Recover
    <3> QED
      BY <1>1, <1>2, <2>1, <2>2, <3>1, TokenKnown
  <2>4. CASE snap.status # "waiting_approval"
    <3> DEFINE x == Task("recover", "ingest", snap, RecursionLimit, None)
    <3>1. tasks' = [tasks EXCEPT ![t] = x]
      BY <1>5, <2>4 DEF Recover
    <3>2. x.at = "ingest" /\ x.kind = "recover" /\ x.agent = snap
      BY DEF Task
    <3> HIDE DEF x
    <3>3. PlaceOf(x) /\ Moves(task) /\ ~Refused(task)
      BY <2>1, <3>2 DEF PlaceOf, Moves, Refused, Exit
    <3> QED
      BY <1>1, <1>2, <2>1, <2>2, <3>1, <3>2, <3>3, TokenKnown
  <2> QED
    BY <2>3, <2>4
<1>6. CASE RunNode(t)
  <2>1. PICK o \in Node(task.at, task.agent) : Take(t, o)
    BY <1>6 DEF RunNode
  <2>2. /\ task.at \in GraphNodes \ {"approval"}
        /\ UNCHANGED <<up, crashes, answers, started, eager>>
    BY <1>6 DEF RunNode, OneStepNodes
  <2> QED
    BY <1>1, <2>1, <2>2, TokenTake
<1>7. CASE RunApproval(t)
  <2> DEFINE a == task.answer
             next == IF a.decision = "deny" THEN "record_denial" ELSE "execute"
             c == Answered(task.agent, a)
  <2>1. t \in Slots /\ DOMAIN tasks = Slots
    BY <1>1, LiveFacts
  <2>2. /\ task.at = "approval" /\ UNCHANGED <<up, crashes, answers, started, eager>>
        /\ RowInv(task.agent) /\ task.agent.pending_approval # None
    BY <1>2, <1>7, <2>1, ApprovalStep
  <2>3. task.agent \in Copies /\ task.agent \in Asked /\ GivenIn(task.agent)
    BY <1>1, <2>2, CopyFacts DEF Asked, TokenInv
  <2>4. StartedAuthorized'
    BY <2>2, NoCallBegun
  <2>5. task.kind = "resume" => Moves(task) /\ (Refused(task) <=> a.decision = "deny")
    BY <2>2 DEF Moves, Refused, Exit
  <2>6. CASE /\ task.kind = "resume" /\ a \in ApprovalResponse
             /\ Take(t, Go(c, next))
    <3> DEFINE x == Task("resumed", next, c, task.left, a)
               o == Go(c, next)
    <3>1. snap' = c /\ cp' = o /\ tasks' = [tasks EXCEPT ![t] = x]
      BY <2>6 DEF Take, Resuming, Go
    <3>2. /\ x.kind = "resumed" /\ x.at = next /\ x.agent = c /\ x.answer = a
          /\ o.agent = c
      BY DEF Task, Go
    <3>3. c \in AgentState /\ c.pending_approval = None
      BY <2>2, <2>6, AnswerPlace
    <3>4. a.decision # "deny" => Granted(task.agent.pending_approval)
      BY <1>1, <2>3, <2>5, <2>6 DEF TokenInv, MoversPast
    <3>5. GivenIn(c)
      BY <2>2, <2>3, <2>6, <3>4, AnsweredGiven
    <3>6. cp' # None
      <4>1. o \in [agent : AgentState, route : GraphNodes \cup {"end"}]
        BY <3>3 DEF Go, GraphNodes
      <4> QED
        BY <3>1, <4>1, ServiceAssumption
    <3> HIDE DEF c, x, o
    <3>7. \A s \in Copies' : s \in Copies \/ s = c
      BY <2>1, <3>1, <3>2, NewCopies
    <3>8. PlaceOf(x) /\ x.at # "load" /\ (Refused(task) => Refused(x))
      BY <2>5, <2>6, <3>2 DEF PlaceOf, Refused, Exit
    <3> QED
      BY <1>1, <2>2, <2>4, <2>5, <2>6, <3>1, <3>3, <3>5, <3>6, <3>7, <3>8, TokenStep
  <2>7. CASE task.kind # "resume" /\ Take(t, Go(task.agent, "interrupt"))
    <3> DEFINE left == IF task.kind \in Resuming THEN task.left ELSE task.left - 1
               x == Task(task.kind, "returned", task.agent, left, task.answer)
    <3>1. /\ snap' = task.agent /\ tasks' = [tasks EXCEPT ![t] = x]
          /\ cp' = [agent |-> task.agent, route |-> "approval"]
      BY <2>7 DEF Take, Go
    <3>2. x.kind = task.kind /\ x.at = "returned" /\ x.agent = task.agent
      BY DEF Task
    <3> HIDE DEF x
    <3>3. PlaceOf(x) /\ ~Moves(x)
      BY <2>7, <3>2 DEF PlaceOf, Moves
    <3>4. cp' # None /\ cp'.route = "approval" /\ cp'.agent = task.agent
      <4>1. cp' \in [agent : AgentState, route : GraphNodes \cup {"end"}]
        BY <1>2, <3>1 DEF TaskInv, GraphNodes
      <4> QED
        BY <3>1, <4>1, ServiceAssumption
    <3>5. \A s \in Copies' : s \in Copies \/ s = task.agent
      BY <2>1, <3>1, <3>2, <3>4, NewCopies
    <3>6. \E r \in Asked : Alike(r, task.agent)
      BY <2>3 DEF Alike
    <3> QED
      BY <1>1, <2>2, <2>3, <2>4, <3>1, <3>2, <3>3, <3>4, <3>5, <3>6, TokenStep
  <2>8. CASE task.kind = "resume" /\ a.decision = "edit" /\ Replay(t, task.agent, a)
             /\ UNCHANGED cp
    <3>1. task.kind \in Resuming /\ Moves(task) /\ ~Refused(task)
      BY <2>5, <2>8 DEF Resuming
    <3> QED
      BY <1>1, <2>2, <2>3, <2>8, <3>1, TokenReplay
  <2> QED
    BY <1>2, <1>7, <2>1, <2>6, <2>7, <2>8, ApprovalStep
<1>8. CASE BeginCall(t)
  <2> DEFINE x == [task EXCEPT !.at = "call"]
             step == StepOf(task.agent)
             call == [step_id |-> step.step_id, inputs |-> step.inputs,
                      tool |-> step.tool_candidates[1]]
  <2>1. /\ tasks' = [tasks EXCEPT ![t] = x] /\ task.at = "execute"
        /\ UNCHANGED <<snap, cp, up, crashes, answers, lost, eager>>
        /\ started' = Append(started, call)
    BY <1>8 DEF BeginCall
  <2>2. PlaceInv("execute", task.agent) /\ task.agent \in Copies
    BY <1>1, <1>2, <2>1, CopyFacts DEF TaskInv, GraphNodes
  <2>3. step \in PlanStep /\ step.tool_candidates[1] \in Tools /\ Risk[call.tool] # 3
    BY <2>2, CallTyped DEF PlaceInv
  <2>4. Evaluate(call.tool, call.inputs) = "allow" \/ Granted(call.step_id)
    <3>1. \/ Evaluate(call.tool, call.inputs) = "allow"
          \/ Approved(task.agent, call.step_id)
      BY <2>2 DEF PlaceInv, NodeInv
    <3>2. GivenIn(task.agent)
      BY <2>2 DEF TokenInv
    <3> QED
      BY <3>1, <3>2 DEF Approved, GivenIn
  <2>5. StartedAuthorized'
    <3>1. started \in Seq([step_id : StepIds, tool : Tools, inputs : Inputs])
      BY DEF ServiceInv, Records
    <3> HIDE DEF call
    <3>2. \A i \in DOMAIN started' : i \in DOMAIN started \/ i = Len(started) + 1
      BY <2>1, <3>1
    <3>3. \A i \in DOMAIN started : started'[i] = started[i]
      BY <2>1, <3>1
    <3>4. started'[Len(started) + 1] = call
      BY <2>1, <3>1
    <3>5. Allowed(call) <=> Granted(call.step_id)
      BY DEF Granted, Allowed
    <3>6. \A e : Allowed(e)' <=> Allowed(e)
      BY <2>1 DEF Allowed
    <3> QED
      BY <2>3, <2>4, <3>2, <3>3, <3>4, <3>5, <3>6 DEF TokenInv, StartedAuthorized
  <2>6. x.at = "call" /\ x.kind = task.kind /\ x.agent = task.agent /\ x.answer = task.answer
    BY <1>2 DEF TaskInv
  <2>7. cp # None
    BY <1>1, <2>1 DEF TokenInv
  <2> HIDE DEF x
  <2>8. PlaceOf(x) /\ Moves(task) /\ ~Refused(task)
    BY <1>2, <2>1, <2>6 DEF PlaceOf, Moves, Refused, Exit
  <2> QED
    BY <1>1, <1>2, <2>1, <2>2, <2>5, <2>6, <2>7, <2>8, TokenKnown
<1>9. CASE EndCall(t)
  <2>1. PICK r \in ToolResults[StepOf(task.agent).tool_candidates[1]] :
          Take(t, ToolReturns(task.agent, r))
    BY <1>9 DEF EndCall
  <2>2. task.at = "call" /\ UNCHANGED <<up, crashes, answers, started, eager>>
    BY <1>9 DEF EndCall
  <2>3. ToolReturns(task.agent, r) \in Node("execute", task.agent)
    BY <1>2, <2>2, ReturnsFromExecute DEF TaskInv
  <2>4. "execute" \in GraphNodes \ {"approval"}
    BY DEF GraphNodes
  <2> QED
    BY <1>1, <2>1, <2>2, <2>3, <2>4, TokenTake
<1>10. CASE NoCallLeft(t)
  <2>1. PICK o \in Execute(task.agent) : Take(t, o)
    BY <1>10 DEF NoCallLeft
  <2>2. task.at = "execute" /\ UNCHANGED <<up, crashes, answers, started, eager>>
    BY <1>10 DEF NoCallLeft
  <2>3. o \in Node("execute", task.agent) /\ "execute" \in GraphNodes \ {"approval"}
    BY <2>1 DEF Node, GraphNodes
  <2> QED
    BY <1>1, <2>1, <2>2, <2>3, TokenTake
<1>11. CASE OutOfSteps(t)
  <2>1. Failed(t) /\ task.kind \notin Resuming
        /\ UNCHANGED <<cp, up, crashes, answers, started, eager>>
    BY <1>11 DEF OutOfSteps, MayRun
  <2> QED
    BY <1>1, <2>1, TokenFailed
<1>12. CASE Return(t)
  <2>1. /\ task.at = "returned" /\ tasks' = [tasks EXCEPT ![t] = Free]
        /\ snap' \in {snap, task.agent}
        /\ UNCHANGED <<cp, up, crashes, answers, started, lost, eager>>
    BY <1>12 DEF Return
  <2>2. task.agent \in Copies
    BY <1>1, <2>1, CopyFacts
  <2>3. StartedAuthorized'
    BY <2>1, NoCallBegun
  <2> QED
    BY <1>1, <1>2, <2>1, <2>2, <2>3, TokenKnown
<1> QED
  BY <1>3, <1>4, <1>5, <1>6, <1>7, <1>8, <1>9, <1>10, <1>11, <1>12 DEF Work

\* A fresh run asks nothing.
LEMMA TokenSubmit ==
  ASSUME ServiceInv, TokenInv, NEW job \in Submissions, Submit(job)
  PROVE  TokenInv'
<1> DEFINE s == NewAgent(job)
           x == Task("start", "load", s, RecursionLimit, None)
<1>1. /\ snap = None /\ snap' = s /\ Spawn(x)
      /\ UNCHANGED <<cp, up, crashes, answers, started, lost, eager>>
  BY DEF Submit
<1>2. PICK t \in Slots : tasks[t] = Free /\ tasks' = [tasks EXCEPT ![t] = x]
  BY <1>1, SpawnSlot
<1>3. Live = {} /\ cp = None /\ DOMAIN tasks = Slots
  BY <1>1 DEF ServiceInv, Known
<1>4. s.pending_approval = None /\ s.approvals = <<>>
  BY NewRow, ServiceAssumption
<1>5. x.kind = "start" /\ x.at = "load" /\ x # Free
  <2>1. Free.kind = "free"
    BY DEF Free
  <2> QED
    BY <2>1 DEF Task
<1> HIDE DEF x, s
<1>6. Live' = {t} /\ tasks'[t] = x
  BY <1>2, <1>3, <1>5, FirstTask
<1>7. Copies' \subseteq {s}
  BY <1>1, <1>3, <1>5, <1>6 DEF Copies
<1>8. Asked' = {} /\ \A c \in Copies' : GivenIn(c)'
  BY <1>4, <1>7 DEF Asked, GivenIn, Elements
<1>9. PlaceOf(x)
  BY <1>5 DEF PlaceOf
<1>10. StartedAuthorized'
  BY <1>1, NoCallBegun
<1> QED
  BY <1>5, <1>6, <1>8, <1>9, <1>10
     DEF TokenInv, OneMover, MoversPast, OneOpen, AnswerRoute, PlaceOf, GivenIn

\* An answer is the only one to its request if no other was given before it.
LEMMA FreshAnswer ==
  ASSUME ServiceInv, NEW a \in ApprovalResponse, PostAnswer(a)
  PROVE  AnsweredOnce' <=>
           /\ AnsweredOnce
           /\ \A e \in Elements(answers) : e.request # RequestOf(snap) \/ e.life # crashes
<1> DEFINE record == [request |-> RequestOf(snap), step_id |-> snap.pending_approval,
                      decision |-> a.decision, life |-> crashes,
                      after |-> Len(snap.approvals)]
<1>1. answers' = Append(answers, record) /\ answers \in Seq(AnswerRecord)
  BY DEF PostAnswer, ServiceInv, Records
<1>2. record.request = RequestOf(snap) /\ record.life = crashes
  OBVIOUS
<1> HIDE DEF record
<1> DEFINE n == Len(answers) + 1
<1>3. /\ DOMAIN answers' = DOMAIN answers \cup {n} /\ n \notin DOMAIN answers
      /\ answers'[n] = record /\ \A i \in DOMAIN answers : answers'[i] = answers[i]
  BY <1>1
<1> HIDE DEF n
<1>4. \A e : e \in Elements(answers) <=> \E i \in DOMAIN answers : e = answers[i]
  BY DEF Elements
<1> QED
  BY <1>2, <1>3, <1>4 DEF AnsweredOnce

\* Nothing else answers, so what was answered twice stays so.
LEMMA OnceBefore == ServiceInv /\ [Next]_vars /\ AnsweredOnce' => AnsweredOnce
<1> SUFFICES ASSUME ServiceInv, [Next]_vars, AnsweredOnce' PROVE AnsweredOnce
  OBVIOUS
<1>1. ASSUME NEW a \in ApprovalResponse, PostAnswer(a) PROVE AnsweredOnce
  BY <1>1, FreshAnswer
<1>2. ASSUME answers' = answers PROVE AnsweredOnce
  BY <1>2 DEF AnsweredOnce
<1>3. ASSUME NEW t \in Slots, Work(t) PROVE answers' = answers
  BY <1>3 DEF Work, Start, Resume, Recover, RunNode, RunApproval, BeginCall, EndCall,
              NoCallLeft, OutOfSteps, Return
<1> QED
  BY <1>1, <1>2, <1>3 DEF Next, Submit, Crash, Restart, vars

\* An answer is taken when no task moves; it closes the one open question.
LEMMA TokenPostAnswer ==
  ASSUME ServiceInv, TokenInv, AnsweredOnce', NEW a \in ApprovalResponse, PostAnswer(a)
  PROVE  TokenInv'
<1> DEFINE x == Task("resume", "load", snap, 0, a)
           record == [request |-> RequestOf(snap), step_id |-> snap.pending_approval,
                      decision |-> a.decision, life |-> crashes,
                      after |-> Len(snap.approvals)]
<1>1. /\ snap # None /\ snap.pending_approval # None /\ Spawn(x)
      /\ answers' = Append(answers, record)
      /\ UNCHANGED <<snap, cp, up, crashes, started, lost>>
      /\ \A e \in Elements(answers) : e.request # RequestOf(snap) \/ e.life # crashes
  BY FreshAnswer DEF PostAnswer
<1>2. PICK t \in Slots : tasks[t] = Free /\ tasks' = [tasks EXCEPT ![t] = x]
  BY <1>1, SpawnSlot
<1>3. DOMAIN tasks = Slots /\ snap \in AgentState /\ crashes \in Nat
      /\ answers \in Seq(AnswerRecord)
  BY <1>1 DEF ServiceInv, Known, RowInv, StateInv, Records
<1>4. record \in AnswerRecord
  BY <1>1, <1>3 DEF AnswerRecord, AgentState, RequestOf, ApprovalResponse
<1>5. /\ record.request = RequestOf(snap) /\ record.life = crashes
      /\ record.step_id = snap.pending_approval /\ record.decision = a.decision
  OBVIOUS
<1>6. /\ x.kind = "resume" /\ x.at = "load" /\ x.answer = a /\ x # Free
  <2>1. Free.kind = "free"
    BY DEF Free
  <2> QED
    BY <2>1 DEF Task
<1> HIDE DEF record, x
<1>7. /\ Elements(answers) \subseteq Elements(answers') /\ record \in Elements(answers')
  BY <1>1, <1>3, <1>4, ElementsAppend
<1>8. /\ \A s : AnsweredNow(s) => AnsweredNow(s)'
      /\ \A id : Granted(id) => Granted(id)'
      /\ \A s : Past(s) => Past(s)'
  BY <1>1, <1>7 DEF AnsweredNow, Granted, Allowed, Past
<1>9. /\ tasks'[t] = x /\ \A u \in Slots \ {t} : tasks'[u] = tasks[u]
      /\ Live' = Live \cup {t}
  <2>1. t \in Slots /\ DOMAIN tasks = Slots /\ tasks' = [tasks EXCEPT ![t] = x] /\ x # Free
    BY <1>2, <1>3, <1>6
  <2>2. /\ tasks'[t] = x /\ \A u \in Slots \ {t} : tasks'[u] = tasks[u]
        /\ t \in Live'
        /\ Live' \subseteq Live \cup {t} /\ Live \subseteq Live' \cup {t}
    BY <2>1, SlotChange
  <2> QED
    BY <2>2
<1>10. t \notin Live /\ \A u \in Live : u \in Slots /\ tasks'[u] = tasks[u]
  BY <1>2, <1>9 DEF Live
<1>11. Copies' = Copies /\ Asked' = Asked
  <2>1. {u \in Live' : tasks'[u].at # "load"} = {u \in Live : tasks[u].at # "load"}
    BY <1>6, <1>9, <1>10
  <2>2. Copies' = Copies
    <3>1. \A u \in {v \in Live : tasks[v].at # "load"} : tasks'[u] = tasks[u]
      BY <1>10
    <3> QED
      BY <1>1, <2>1, <3>1 DEF Copies
  <2> QED
    BY <2>2 DEF Asked
<1>12. snap \in Asked /\ ~AnsweredNow(snap)
  BY <1>1, CopyFacts DEF Asked, AnsweredNow
<1>13. \A u \in Live : ~Moves(tasks[u])
  BY <1>12 DEF TokenInv, MoversPast
<1>14. \A u \in Live' : Moves(tasks'[u]) => u = t
  BY <1>9, <1>10, <1>13
<1>15. ASSUME NEW s \in Asked, ~Past(s)
       PROVE  AnsweredNow(s)' /\ (a.decision = "deny" \/ Granted(s.pending_approval)')
  <2>1. Alike(s, snap)
    BY <1>12, <1>15 DEF TokenInv, OneOpen, Past
  <2>2. AnsweredNow(s)'
    BY <1>1, <1>5, <1>7, <2>1 DEF Alike, AnsweredNow
  <2>3. a.decision # "deny" => Granted(s.pending_approval)'
    BY <1>5, <1>7, <2>1 DEF Alike, Granted, Allowed, ApprovalResponse
  <2> QED
    BY <2>2, <2>3
<1>16. OneMover'
  BY <1>14 DEF OneMover
<1>17. \A s \in Copies' : GivenIn(s)'
  BY <1>8, <1>11 DEF TokenInv, GivenIn
<1>18. MoversPast'
  <2> SUFFICES ASSUME NEW s \in Asked
               PROVE  AnsweredNow(s)' /\ (Refused(x) \/ Granted(s.pending_approval)')
    BY <1>9, <1>11, <1>14 DEF MoversPast, Moves, Refused
  <2>1. a.decision = "deny" => Refused(x)
    BY <1>6 DEF Refused
  <2>2. CASE Past(s)
    BY <1>8, <2>2 DEF Past
  <2> QED
    BY <1>15, <2>1, <2>2
<1>19. OneOpen'
  BY <1>8, <1>11 DEF TokenInv, OneOpen, Alike, RequestOf
<1>20. cp = None \/ cp.route = "approval"
  BY <1>12 DEF TokenInv, AnswerRoute
<1>21. AnswerRoute'
  BY <1>1, <1>20 DEF AnswerRoute
<1>22. \A u \in Live' : PlaceOf(tasks'[u])
  BY <1>6, <1>9, <1>10 DEF TokenInv, PlaceOf
<1>23. cp' = None => \A u \in Live' : tasks'[u].at \in {"load", "ingest"}
  BY <1>1, <1>6, <1>9, <1>10 DEF TokenInv
<1>24. StartedAuthorized'
  BY <1>1, <1>7 DEF TokenInv, StartedAuthorized, Allowed
<1> QED
  BY <1>16, <1>17, <1>18, <1>19, <1>21, <1>22, <1>23, <1>24 DEF TokenInv, PlaceOf, GivenIn

\* After a crash the row is the only state left, and only it asks.
LEMMA TokenCrash ==
  ASSUME ServiceInv, TokenInv, Crash
  PROVE  TokenInv'
<1>1. /\ cp' = None /\ tasks' = [t \in Slots |-> Free]
      /\ UNCHANGED <<snap, answers, started, lost, eager>>
  BY DEF Crash
<1>2. Live' = {}
  BY <1>1 DEF Live
<1>3. Copies' \subseteq {snap} /\ Copies' \subseteq Copies
  BY <1>1, <1>2 DEF Copies
<1>4. \A s \in Copies' : GivenIn(s)'
  BY <1>1, <1>3 DEF TokenInv, GivenIn, Granted, Allowed
<1>5. OneOpen'
  BY <1>3 DEF OneOpen, Asked, Alike, RequestOf
<1>6. StartedAuthorized'
  BY <1>1, NoCallBegun
<1> QED
  BY <1>1, <1>2, <1>4, <1>5, <1>6 DEF TokenInv, OneMover, MoversPast, AnswerRoute, PlaceOf, GivenIn

\* A run that recovery takes up asks nothing.
LEMMA TokenRestart ==
  ASSUME ServiceInv, TokenInv, Restart
  PROVE  TokenInv'
<1>1. /\ UNCHANGED <<snap, cp, crashes, answers, started, lost, eager>>
      /\ Live = {} /\ cp = None /\ DOMAIN tasks = Slots
  BY DEF Restart, ServiceInv, Records, Known
<1>2. StartedAuthorized'
  BY <1>1, NoCallBegun
<1>3. CASE snap # None /\ snap.status \notin Terminal \cup {"pending", "waiting_approval"}
  <2> DEFINE x == Task("recover", "load", snap, RecursionLimit, None)
  <2>1. Spawn(x)
    BY <1>3 DEF Restart
  <2>2. PICK t \in Slots : tasks[t] = Free /\ tasks' = [tasks EXCEPT ![t] = x]
    BY <2>1, SpawnSlot
  <2>3. snap.pending_approval = None
    BY <1>3 DEF ServiceInv, Known, RowInv, Terminal
  <2>4. x.kind = "recover" /\ x.at = "load" /\ x # Free
    <3>1. Free.kind = "free"
      BY DEF Free
    <3> QED
      BY <3>1 DEF Task
  <2> HIDE DEF x
  <2>5. Live' = {t} /\ tasks'[t] = x
    <3>1. t \in Slots /\ DOMAIN tasks = Slots /\ tasks' = [tasks EXCEPT ![t] = x] /\ x # Free
      BY <1>1, <2>2, <2>4
    <3>2. /\ tasks'[t] = x /\ t \in Live'
          /\ Live' \subseteq Live \cup {t} /\ Live \subseteq Live' \cup {t}
      BY <3>1, SlotChange
    <3> QED
      BY <1>1, <3>2
  <2>6. Copies' \subseteq {snap} /\ Copies' \subseteq Copies
    BY <1>1, <2>4, <2>5 DEF Copies
  <2>7. Asked' = {}
    BY <2>3, <2>6 DEF Asked
  <2>8. \A c \in Copies' : GivenIn(c)'
    BY <1>1, <2>6 DEF TokenInv, GivenIn, Granted, Allowed
  <2>9. PlaceOf(x)
    BY <2>4 DEF PlaceOf
  <2> QED
    BY <1>2, <2>4, <2>5, <2>7, <2>8, <2>9
       DEF TokenInv, OneMover, MoversPast, OneOpen, AnswerRoute, PlaceOf, GivenIn
<1>4. CASE ~(snap # None /\ snap.status \notin Terminal \cup {"pending", "waiting_approval"})
  <2>1. tasks' = tasks
    BY <1>4 DEF Restart
  <2>2. Live' = {}
    BY <1>1, <2>1 DEF Live
  <2>3. Copies' = Copies
    BY <1>1, <2>1, <2>2 DEF Copies
  <2>4. \A s \in Copies' : GivenIn(s)'
    BY <1>1, <2>3 DEF TokenInv, GivenIn, Granted, Allowed
  <2>5. OneOpen'
    BY <1>1, <2>3 DEF TokenInv, OneOpen, Asked, Alike, RequestOf, Past, AnsweredNow, Granted, Allowed
  <2> QED
    BY <1>1, <1>2, <2>2, <2>4, <2>5 DEF TokenInv, OneMover, MoversPast, AnswerRoute, PlaceOf, GivenIn
<1> QED
  BY <1>3, <1>4

\* Nothing is asked, answered or called yet.
LEMMA InitToken == Init => TokenInv
<1> SUFFICES ASSUME Init PROVE TokenInv
  OBVIOUS
<1>1. Live = {} /\ Copies = {} /\ started = <<>> /\ cp = None
  BY DEF Init, Live, Copies
<1>2. StartedAuthorized
  BY <1>1 DEF StartedAuthorized
<1> QED
  BY <1>1, <1>2 DEF TokenInv, OneMover, MoversPast, OneOpen, AnswerRoute, Asked

\* Every step of the service keeps the invariant.
LEMMA NextToken == AnsweredOnce' /\ ServiceInv /\ TokenInv /\ [Next]_vars => TokenInv'
<1> SUFFICES ASSUME AnsweredOnce', ServiceInv, TokenInv, [Next]_vars PROVE TokenInv'
  OBVIOUS
<1>1. CASE UNCHANGED vars
  BY <1>1 DEF vars, TokenInv, OneMover, MoversPast, OneOpen, AnswerRoute, StartedAuthorized,
              Copies, Asked, Live, PlaceOf, GivenIn, Past, Alike, AnsweredNow, Granted,
              Allowed, Moves, Refused, RequestOf
<1> QED
  BY <1>1, TokenSubmit, TokenPostAnswer, TokenWork, TokenCrash, TokenRestart DEF Next

\* Until an operator answers a request again while it is shown, one task moves
\* at a time, over all the tasks, crashes and replays.
THEOREM TokenInvariance == Spec => [](AnsweredOnce => TokenInv)
<1>1. ServiceInv /\ (AnsweredOnce => TokenInv) /\ [Next]_vars => (AnsweredOnce => TokenInv)'
  BY NextToken, OnceBefore
<1> QED
  BY <1>1, InitToken, ServiceInvariance, PTL DEF Spec

\* A service whose operator does not repeat answers is one of those.
THEOREM AnswersAreOnce == ~Repeats => (Spec => []AnsweredOnce)
<1> SUFFICES ASSUME ~Repeats PROVE Spec => []AnsweredOnce
  OBVIOUS
<1>1. Init => AnsweredOnce
  BY DEF Init, AnsweredOnce
<1>2. ServiceInv /\ AnsweredOnce /\ [Next]_vars => AnsweredOnce'
  <2> SUFFICES ASSUME ServiceInv, AnsweredOnce, [Next]_vars PROVE AnsweredOnce'
    OBVIOUS
  <2>1. ASSUME NEW a \in ApprovalResponse, PostAnswer(a) PROVE AnsweredOnce'
    BY <2>1, FreshAnswer DEF PostAnswer
  <2>2. ASSUME answers' = answers PROVE AnsweredOnce'
    BY <2>2 DEF AnsweredOnce
  <2>3. ASSUME NEW t \in Slots, Work(t) PROVE answers' = answers
    BY <2>3 DEF Work, Start, Resume, Recover, RunNode, RunApproval, BeginCall, EndCall,
                NoCallLeft, OutOfSteps, Return
  <2> QED
    BY <2>1, <2>2, <2>3 DEF Next, Submit, Crash, Restart, vars
<1> QED
  BY <1>1, <1>2, ServiceInvariance, PTL DEF Spec

\* No tool call begins that the rules do not allow or the operator did not
\* grant, whatever crashes, replays and stale tasks lie between the answer and
\* the call (resolve_approval, service.py), until a request is answered again:
\* nothing is assumed of the operator before that.
THEOREM AuthorizedUntilRepeated == Spec => [](AnsweredOnce => StartedAuthorized)
<1>1. TokenInv => StartedAuthorized
  BY DEF TokenInv
<1> QED
  BY <1>1, TokenInvariance, PTL

\* So none begins if no request is ever answered again.
THEOREM StartsAreAuthorized == ~Repeats => (Spec => []StartedAuthorized)
<1> SUFFICES ASSUME ~Repeats PROVE Spec => []StartedAuthorized
  OBVIOUS
<1>1. Spec => []AnsweredOnce
  BY AnswersAreOnce
<1> QED
  BY <1>1, AuthorizedUntilRepeated, PTL

\* Nor are two calls in flight: the double call that the runs exhibit
\* (one_answer_twice) needs a request that was answered twice.
THEOREM OneCallUntilRepeated == Spec => [](AnsweredOnce => OneCallAtATime)
<1>1. TokenInv => OneCallAtATime
  <2> SUFFICES ASSUME TokenInv PROVE OneCallAtATime
    OBVIOUS
  <2> DEFINE calls == {t \in Live : tasks[t].at = "call"}
  <2>1. \A t \in calls : Moves(tasks[t])
    BY DEF TokenInv, PlaceOf, Moves
  <2>2. \A t, u \in calls : t = u
    BY <2>1 DEF TokenInv, OneMover
  <2> HIDE DEF calls
  <2>3. Cardinality(calls) <= 1
    BY <2>2, AtMostOne
  <2> QED
    BY <2>3 DEF OneCallAtATime, calls
<1> QED
  BY <1>1, TokenInvariance, PTL
-----------------------------------------------------------------------------
(***************************************************************************)
(* Until an answer overtakes the call that asked there is one task, and    *)
(* what the row says of the run is what the task's own state says.         *)
(***************************************************************************)

\* What the row must not lose.
Same(r, s) ==
  /\ s.steps_used = r.steps_used /\ s.approvals = r.approvals
  /\ s.report = r.report /\ s.pending_approval = r.pending_approval

\* A call is begun for a counted step: one step is left for the call that a
\* question, or a node before the call, leads to.
CallsCounted(calls, s, before) ==
  /\ calls <= s.steps_used
  /\ before \/ s.pending_approval # None => calls < s.steps_used

SingleInv == ~eager =>
  /\ \A t, u \in Live : t = u
  /\ \A t \in Live : Same(snap, tasks[t].agent)
  /\ \A t \in Live : tasks[t].kind = "resume" /\ tasks[t].at = "load"
                       => snap.pending_approval # None
  /\ cp # None /\ snap.pending_approval # None => Same(snap, cp.agent)
  /\ snap # None => CallsCounted(Len(started), snap,
                                 \E t \in Live : tasks[t].at \in BeforeCall)
  /\ snap # None /\ snap.report # None =>
       /\ snap.pending_approval = None /\ snap.status \in Terminal
       /\ \A t \in Live : tasks[t].at \in {"memory_commit", "returned"}

\* From row r to row s nothing is lost.
Grows(r, s) ==
  /\ s.steps_used >= r.steps_used
  /\ IsPrefix(r.approvals, s.approvals)
  /\ r.report # None => s.report = r.report

\* A list with an approval added begins as it did.
LEMMA PrefixAppend ==
  ASSUME NEW S, NEW seq \in Seq(S), NEW e \in S
  PROVE  IsPrefix(seq, seq) /\ IsPrefix(seq, Append(seq, e))
BY DEF IsPrefix

\* A state that says the same has lost nothing.
LEMMA SameGrows ==
  ASSUME NEW r \in AgentState, NEW s, Same(r, s)
  PROVE  Grows(r, s)
<1>1. r.steps_used \in Nat
  BY DEF AgentState
<1>2. r.approvals \in Seq([step_id : StepIds, decision : {"approve", "deny", "edit"}])
  BY DEF AgentState
<1>3. IsPrefix(r.approvals, r.approvals)
  BY <1>2 DEF IsPrefix
<1> QED
  BY <1>1, <1>3 DEF Same, Grows

\* An answer adds its approval.
LEMMA AnswerGrows ==
  ASSUME NEW r \in AgentState, r.pending_approval # None, NEW a \in ApprovalResponse, NEW s,
         s.approvals = Append(r.approvals, [step_id |-> r.pending_approval,
                                            decision |-> a.decision]),
         s.steps_used = r.steps_used, s.report = r.report
  PROVE  Grows(r, s)
<1> DEFINE S == [step_id : StepIds, decision : {"approve", "deny", "edit"}]
           e == [step_id |-> r.pending_approval, decision |-> a.decision]
<1>1. r.approvals \in Seq(S) /\ e \in S /\ r.steps_used \in Nat
  BY DEF AgentState, ApprovalResponse
<1> HIDE DEF S
<1>2. IsPrefix(r.approvals, Append(r.approvals, e))
  BY <1>1, PrefixAppend
<1> QED
  BY <1>1, <1>2 DEF Grows

\* A step of the one task: what it stores must agree with where it goes.
LEMMA SingleStep ==
  ASSUME ServiceInv, SingleInv, ~eager, NEW t \in Live, NEW x,
         x = Free \/ x.at # "load",
         tasks' = [tasks EXCEPT ![t] = x],
         x # Free => Same(snap', x.agent),
         cp' # None /\ snap'.pending_approval # None => Same(snap', cp'.agent),
         CallsCounted(Len(started'), snap', x # Free /\ x.at \in BeforeCall),
         snap'.report # None =>
           /\ snap'.pending_approval = None /\ snap'.status \in Terminal
           /\ x # Free => x.at \in {"memory_commit", "returned"}
  PROVE  SingleInv'
<1>1. /\ t \in Slots /\ DOMAIN tasks = Slots /\ Live = {t}
  BY LiveFacts DEF SingleInv
<1>2. /\ tasks'[t] = x /\ Live' \subseteq {t} /\ (t \in Live' <=> x # Free)
  <2>1. t \in Slots /\ DOMAIN tasks = Slots
    BY <1>1
  <2>2. /\ tasks'[t] = x /\ Live' \subseteq Live \cup {t} /\ (t \in Live' <=> x # Free)
    BY <2>1, SlotChange
  <2> QED
    BY <1>1, <2>2
<1>3. (\E u \in Live' : tasks'[u].at \in BeforeCall) <=> (x # Free /\ x.at \in BeforeCall)
  BY <1>2
<1>4. CallsCounted(Len(started'), snap', \E u \in Live' : tasks'[u].at \in BeforeCall)
  BY <1>3 DEF CallsCounted
<1>5. \A u, w \in Live' : u = w
  BY <1>2
<1>6. \A u \in Live' : /\ Same(snap', tasks'[u].agent) /\ tasks'[u].at # "load"
                       /\ snap'.report # None => tasks'[u].at \in {"memory_commit", "returned"}
  BY <1>2
<1> QED
  BY <1>4, <1>5, <1>6 DEF SingleInv, Same

\* Grows along two steps, the first of which says the same.
LEMMA GrowsFrom ==
  ASSUME NEW r, NEW q, NEW s, Same(r, q), Grows(q, s)
  PROVE  Grows(r, s)
BY DEF Same, Grows

\* A replay starts from a row that says what the run's row said, with the answer
\* of the task applied.
LEMMA SingleReplay ==
  ASSUME ServiceInv, SingleInv, ~eager, NEW t \in Live, tasks[t].kind \in Resuming,
         NEW r, RowInv(r), r.pending_approval # None, Same(snap, r),
         Replay(t, r, tasks[t].answer), UNCHANGED <<cp, started, eager>>
  PROVE  SingleInv' /\ Grows(snap, snap')
<1> DEFINE a == tasks[t].answer
           c == Answered(r, a)
           x == Task("replay", "ingest", c, RecursionLimit, None)
<1>1. /\ TaskInv(tasks[t]) /\ snap # None /\ r \in AgentState
      /\ CallsCounted(Len(started), snap, FALSE)
      /\ snap.report # None => snap.pending_approval = None
  BY LiveFacts DEF SingleInv, CallsCounted, RowInv, StateInv
<1>2. snap' = c /\ tasks' = [tasks EXCEPT ![t] = x]
  BY DEF Replay
<1>3. a \in ApprovalResponse
  BY <1>1 DEF TaskInv
<1>4. /\ c.pending_approval = None /\ c.steps_used = r.steps_used
      /\ c.report = r.report
      /\ c.approvals = Append(r.approvals, [step_id |-> r.pending_approval,
                                            decision |-> a.decision])
  BY <1>3, AnswerPlace
<1>5. Grows(r, c)
  BY <1>1, <1>3, <1>4, AnswerGrows
<1>6. x.at = "ingest" /\ x.agent = c
  BY DEF Task
<1>7. c.report = None
  BY <1>1, <1>4 DEF Same
<1> HIDE DEF c, x, a
<1>8. CallsCounted(Len(started'), snap', x # Free /\ x.at \in BeforeCall)
  BY <1>1, <1>2, <1>4, <1>6 DEF CallsCounted, BeforeCall, Asking, Same
<1>9. Same(snap', x.agent) /\ snap'.report = None /\ snap'.pending_approval = None
  BY <1>2, <1>4, <1>6, <1>7 DEF Same
<1>10. SingleInv'
  BY <1>2, <1>6, <1>8, <1>9, SingleStep
<1> QED
  BY <1>2, <1>5, <1>10, GrowsFrom

\* An exception stores a failed run, makes a replay of the task or ends it.
LEMMA SingleFailed ==
  ASSUME ServiceInv, SingleInv, ~eager, NEW t \in Live, Failed(t),
         UNCHANGED <<cp, started, eager>>
  PROVE  SingleInv' /\ Grows(snap, snap')
<1>1. /\ t \in Slots /\ TaskInv(tasks[t]) /\ snap # None /\ RowInv(snap) /\ snap \in AgentState
  BY LiveFacts DEF RowInv, StateInv
<1>2. CallsCounted(Len(started), snap, FALSE)
  BY <1>1 DEF SingleInv, CallsCounted
<1>3. cp # None /\ snap.pending_approval # None => Same(snap, cp.agent)
  BY DEF SingleInv
<1>4. snap.report # None => snap.pending_approval = None /\ snap.status \in Terminal
  BY <1>1 DEF SingleInv
<1>5. CASE tasks[t].kind = "start"
  <2> DEFINE c == [snap EXCEPT !.status = "failed", !.last_error = TRUE]
  <2>1. snap' = c /\ tasks' = [tasks EXCEPT ![t] = Free]
    BY <1>5 DEF Failed, Resuming
  <2>2. /\ c.pending_approval = snap.pending_approval /\ c.steps_used = snap.steps_used
        /\ c.approvals = snap.approvals /\ c.report = snap.report /\ c.status = "failed"
    BY <1>1, FailedRow
  <2> HIDE DEF c
  <2>3. Same(snap, c)
    BY <2>2 DEF Same
  <2>4. CallsCounted(Len(started'), snap', FALSE)
    BY <1>2, <2>1, <2>2 DEF CallsCounted
  <2>5. cp' # None /\ snap'.pending_approval # None => Same(snap', cp'.agent)
    BY <1>3, <2>1, <2>2 DEF Same
  <2>6. snap'.report # None => snap'.pending_approval = None /\ snap'.status \in Terminal
    BY <1>4, <2>1, <2>2 DEF Terminal
  <2> QED
    BY <1>1, <2>1, <2>3, <2>4, <2>5, <2>6, SingleStep, SameGrows
<1>6. ASSUME Die(t) PROVE SingleInv' /\ Grows(snap, snap')
  <2>1. snap' = snap /\ tasks' = [tasks EXCEPT ![t] = Free]
    BY <1>6 DEF Die
  <2>2. Same(snap, snap')
    BY <2>1 DEF Same
  <2> QED
    BY <1>1, <1>2, <1>3, <1>4, <2>1, <2>2, SingleStep, SameGrows
<1>7. CASE tasks[t].kind \in Resuming /\ snap.pending_approval # None
  <2>1. Replay(t, snap, tasks[t].answer) /\ Same(snap, snap)
    BY <1>7 DEF Failed, Resuming, Same
  <2> QED
    BY <1>1, <1>7, <2>1, SingleReplay
<1> QED
  BY <1>5, <1>6, <1>7 DEF Failed

\* A node's outcome: the row, the checkpoint and the task take the new state.
LEMMA SingleTake ==
  ASSUME ServiceInv, SingleInv, ~eager, NEW t \in Live,
         NEW n \in GraphNodes \ {"approval"}, tasks[t].at \in {n, "call"},
         tasks[t].at = "call" => n = "execute",
         NEW o \in Node(n, tasks[t].agent), Take(t, o), UNCHANGED <<started, eager>>
  PROVE  SingleInv' /\ Grows(snap, snap')
<1> DEFINE task == tasks[t]
<1>1. /\ t \in Slots /\ TaskInv(task) /\ snap # None /\ RowInv(snap) /\ snap \in AgentState
  BY LiveFacts DEF RowInv, StateInv
<1>2. PlaceInv(n, task.agent) /\ task.agent \in AgentState
  BY <1>1 DEF TaskInv
<1>3. o.route \in GraphNodes \cup {"end", "raise"} /\ PlaceInv(o.route, o.agent)
  BY <1>2, PlacePasses
<1>4. Same(snap, task.agent)
  BY DEF SingleInv
<1>5. CallsCounted(Len(started), task.agent, task.at \in BeforeCall)
  BY <1>1, <1>4 DEF SingleInv, CallsCounted, Same
<1>6. CASE o.route = "raise"
  BY <1>6, SingleFailed DEF Take
<1>7. CASE o.route # "raise"
  <2> DEFINE kind == IF task.kind = "resume" THEN "resumed" ELSE task.kind
             at == IF o.route \in {"interrupt", "end"} THEN "returned" ELSE o.route
             left == IF task.kind \in Resuming THEN task.left ELSE task.left - 1
             x == Task(kind, at, o.agent, left, task.answer)
  <2>1. /\ snap' = o.agent /\ cp' = o /\ tasks' = [tasks EXCEPT ![t] = x]
    BY <1>3, <1>7 DEF Take, GraphNodes
  <2>2. x.at = at /\ x.agent = o.agent
    BY DEF Task
  <2>3. /\ Writes(n, task.agent, o.agent) /\ o.agent.approvals = task.agent.approvals
        /\ o.route = "guardrail" => n = "select_step"
        /\ o.route \in {"approval", "execute"} => n = "guardrail"
        /\ o.route = "memory_commit" => n = "report"
        /\ o.route = "end" => n = "memory_commit"
    BY <1>2, NodeWrites, NodeKeeps, CameFrom, NodeRoutes DEF Keeps
  <2>4. IF n = "select_step" /\ o.route = "guardrail"
          THEN o.agent.steps_used = task.agent.steps_used + 1
          ELSE o.agent.steps_used = task.agent.steps_used
    BY <1>2, <2>3, SelectCounts DEF Node, Writes
  <2>5. task.agent.steps_used \in Nat /\ Len(started) \in Nat
    <3>1. started \in Seq([step_id : StepIds, tool : Tools, inputs : Inputs])
      BY DEF ServiceInv, Records
    <3>2. Len(started) \in Nat
      BY <3>1
    <3>3. task.agent.steps_used \in Nat
      BY <1>2 DEF AgentState
    <3> QED
      BY <3>2, <3>3
  <2>6. n = "guardrail" => task.at \in BeforeCall
    BY DEF BeforeCall
  <2>7. o.agent.pending_approval # None <=> o.route = "approval"
    BY <1>3 DEF PlaceInv, NodeInv, Asking, GraphNodes
  <2>8. at \in BeforeCall <=> o.route \in {"guardrail", "execute", "approval"}
    BY <1>3 DEF BeforeCall, Asking, GraphNodes
  <2>9. CallsCounted(Len(started), o.agent, at \in BeforeCall)
    <3>1. o.route = "guardrail" => Len(started) < o.agent.steps_used
      BY <1>5, <2>3, <2>4, <2>5 DEF CallsCounted
    <3>2. o.route \in {"approval", "execute"} => Len(started) < o.agent.steps_used
      BY <1>5, <2>3, <2>4, <2>6 DEF CallsCounted
    <3>3. Len(started) <= o.agent.steps_used
      BY <1>5, <2>4, <2>5 DEF CallsCounted
    <3> QED
      BY <2>7, <2>8, <3>1, <3>2, <3>3 DEF CallsCounted
  <2>10. task.agent.report # None => n = "memory_commit"
    <3>1. task.agent.report # None => task.at \in {"memory_commit", "returned"}
      BY <1>1, <1>4 DEF SingleInv, Same
    <3> QED
      BY <3>1 DEF GraphNodes
  <2>11. o.agent.report # None =>
           /\ o.agent.pending_approval = None /\ o.agent.status \in Terminal
           /\ at \in {"memory_commit", "returned"}
    <3> SUFFICES ASSUME o.agent.report # None
                 PROVE  /\ o.agent.pending_approval = None /\ o.agent.status \in Terminal
                        /\ at \in {"memory_commit", "returned"}
      OBVIOUS
    <3>1. n \in {"report", "memory_commit"}
      BY <2>3, <2>10 DEF Writes
    <3>2. o.route \in {"memory_commit", "end"}
      <4>1. n = "report" => o.route = "memory_commit"
        BY DEF Node, Report, Go
      <4>2. n = "memory_commit" => o.route = "end"
        BY DEF Node, MemoryCommit, Go
      <4> QED
        BY <3>1, <4>1, <4>2
    <3> QED
      BY <1>3, <2>7, <3>2 DEF PlaceInv, Ended
  <2>12. Grows(task.agent, o.agent)
    <3>1. IsPrefix(task.agent.approvals, o.agent.approvals)
      <4>1. Grows(task.agent, task.agent)
        BY <1>2, SameGrows DEF Same
      <4> QED
        BY <2>3, <4>1 DEF Grows
    <3>2. o.agent.steps_used >= task.agent.steps_used
      BY <2>4, <2>5
    <3>3. task.agent.report # None => o.agent.report = task.agent.report
      <4>1. "memory_commit" # "report"
        OBVIOUS
      <4> QED
        BY <2>3, <2>10, <4>1 DEF Writes
    <3> QED
      BY <3>1, <3>2, <3>3 DEF Grows
  <2>13. at # "load"
    BY <1>3 DEF GraphNodes
  <2> HIDE DEF at, x
  <2>14. CallsCounted(Len(started'), snap', x # Free /\ x.at \in BeforeCall)
    BY <2>1, <2>2, <2>9 DEF CallsCounted
  <2>15. SingleInv'
    <3>1. Same(snap', x.agent) /\ Same(snap', cp'.agent)
      BY <2>1, <2>2 DEF Same
    <3>2. snap'.report # None =>
            /\ snap'.pending_approval = None /\ snap'.status \in Terminal
            /\ x # Free => x.at \in {"memory_commit", "returned"}
      BY <2>1, <2>2, <2>11
    <3> QED
      BY <2>1, <2>2, <2>13, <2>14, <3>1, <3>2, SingleStep
  <2> QED
    BY <1>4, <2>1, <2>12, <2>15, GrowsFrom
<1> QED
  BY <1>6, <1>7

\* The approval node records the answer, or asks and ends the call.
LEMMA SingleApproval ==
  ASSUME ServiceInv, SingleInv, ~eager, NEW t \in Live, RunApproval(t)
  PROVE  SingleInv' /\ Grows(snap, snap')
<1> DEFINE task == tasks[t]
           a == task.answer
           next == IF a.decision = "deny" THEN "record_denial" ELSE "execute"
           c == Answered(task.agent, a)
<1>1. /\ t \in Slots /\ TaskInv(task) /\ snap # None /\ RowInv(snap) /\ snap \in AgentState
  BY LiveFacts DEF RowInv, StateInv
<1>2. /\ task.at = "approval" /\ UNCHANGED <<started, eager>>
      /\ RowInv(task.agent) /\ task.agent.pending_approval # None
      /\ task.agent \in AgentState
  BY <1>1, ApprovalStep DEF RowInv, StateInv
<1>3. Same(snap, task.agent)
  BY DEF SingleInv
<1>4. Len(started) < task.agent.steps_used /\ Len(started) <= task.agent.steps_used
      /\ task.agent.report = None
  <2>1. CallsCounted(Len(started), snap, TRUE)
    BY <1>1, <1>2 DEF SingleInv, CallsCounted, BeforeCall, Asking
  <2>2. snap.report = None
    BY <1>1, <1>2, <1>3 DEF SingleInv, Same
  <2> QED
    BY <1>3, <2>1, <2>2 DEF CallsCounted, Same
<1>5. CASE /\ task.kind = "resume" /\ a \in ApprovalResponse
           /\ Take(t, Go(c, next))
  <2> DEFINE x == Task("resumed", next, c, task.left, a)
             o == Go(c, next)
  <2>1. snap' = c /\ cp' = o /\ tasks' = [tasks EXCEPT ![t] = x]
    BY <1>5 DEF Take, Resuming, Go
  <2>2. x.at = next /\ x.agent = c /\ x.at # "load" /\ o.agent = c
    BY DEF Task, Go
  <2>3. /\ c.pending_approval = None /\ c.steps_used = task.agent.steps_used
        /\ c.report = task.agent.report
        /\ c.approvals = Append(task.agent.approvals,
                                [step_id |-> task.agent.pending_approval,
                                 decision |-> a.decision])
    BY <1>2, <1>5, AnswerPlace
  <2>4. Grows(task.agent, c)
    BY <1>2, <1>5, <2>3, AnswerGrows
  <2> HIDE DEF c, x, a, next, o
  <2>5. CallsCounted(Len(started'), snap', x # Free /\ x.at \in BeforeCall)
    BY <1>2, <1>4, <2>1, <2>3 DEF CallsCounted
  <2>6. Same(snap', x.agent) /\ snap'.report = None /\ snap'.pending_approval = None
    BY <1>4, <2>1, <2>2, <2>3 DEF Same
  <2>7. SingleInv'
    BY <2>1, <2>2, <2>5, <2>6, SingleStep
  <2> QED
    BY <1>3, <2>1, <2>4, <2>7, GrowsFrom
<1>6. CASE task.kind # "resume" /\ Take(t, Go(task.agent, "interrupt"))
  <2> DEFINE left == IF task.kind \in Resuming THEN task.left ELSE task.left - 1
             x == Task(task.kind, "returned", task.agent, left, task.answer)
  <2>1. /\ snap' = task.agent /\ tasks' = [tasks EXCEPT ![t] = x]
        /\ cp' = [agent |-> task.agent, route |-> "approval"]
    BY <1>6 DEF Take, Go
  <2>2. x.at = "returned" /\ x.agent = task.agent
    BY DEF Task
  <2> HIDE DEF x
  <2>3. CallsCounted(Len(started'), snap', x # Free /\ x.at \in BeforeCall)
    BY <1>2, <1>4, <2>1 DEF CallsCounted
  <2>4. Same(snap', x.agent) /\ Same(snap', cp'.agent) /\ snap'.report = None
    BY <1>4, <2>1, <2>2 DEF Same
  <2>5. SingleInv'
    BY <2>1, <2>2, <2>3, <2>4, SingleStep
  <2>6. Grows(snap, snap')
    BY <1>1, <1>3, <2>1, SameGrows
  <2> QED
    BY <2>5, <2>6
<1>7. CASE task.kind = "resume" /\ Replay(t, task.agent, a) /\ UNCHANGED cp
  BY <1>2, <1>3, <1>7, SingleReplay DEF Resuming
<1> QED
  BY <1>1, <1>5, <1>6, <1>7, ApprovalStep

\* Every step of the one task.
LEMMA SingleWork ==
  ASSUME ServiceInv, TokenInv, SingleInv, ~eager, NEW t \in Slots, Work(t)
  PROVE  SingleInv' /\ Grows(snap, snap')
<1>1. t \in Live
  BY DEF Work, Start, Resume, Recover, RunNode, RunApproval, BeginCall, EndCall, NoCallLeft,
         OutOfSteps, Return, MayRun, At, Live
<1> DEFINE task == tasks[t]
<1>2. /\ TaskInv(task) /\ snap # None /\ RowInv(snap) /\ snap \in AgentState
  BY <1>1, LiveFacts DEF RowInv, StateInv
<1>3. Same(snap, task.agent)
  BY <1>1 DEF SingleInv
<1>4. /\ CallsCounted(Len(started), snap, task.at \in BeforeCall)
      /\ cp # None /\ snap.pending_approval # None => Same(snap, cp.agent)
      /\ snap.report # None =>
           /\ snap.pending_approval = None /\ snap.status \in Terminal
           /\ task.at \in {"memory_commit", "returned"}
  BY <1>1, <1>2 DEF SingleInv, CallsCounted
<1>5. Same(snap, snap)
  BY DEF Same
<1>6. CASE Start(t)
  <2> DEFINE x == [task EXCEPT !.at = "ingest"]
  <2>1. /\ tasks' = [tasks EXCEPT ![t] = x] /\ snap' = task.agent /\ task.at = "load"
        /\ UNCHANGED <<cp, started, eager>>
    BY <1>6 DEF Start, At
  <2>2. task.agent = snap
    BY <1>6 DEF Start, ServiceInv, LoadsAlone
  <2>3. x.at = "ingest" /\ x.agent = snap
    BY <1>2, <2>2 DEF TaskInv
  <2> HIDE DEF x
  <2>4. CallsCounted(Len(started'), snap', x # Free /\ x.at \in BeforeCall)
    BY <1>4, <2>1, <2>2, <2>3 DEF CallsCounted, BeforeCall, Asking
  <2>5. snap.report = None
    BY <1>4, <2>1
  <2>6. SingleInv'
    BY <1>1, <1>4, <1>5, <2>1, <2>2, <2>3, <2>4, <2>5, SingleStep
  <2> QED
    BY <1>2, <1>5, <2>1, <2>2, <2>6, SameGrows
<1>7. CASE Resume(t)
  <2>1. /\ task.kind = "resume" /\ task.at = "load" /\ UNCHANGED <<cp, started, eager>>
    BY <1>7 DEF Resume, At
  <2>2. CASE cp = None
    BY <1>1, <1>7, <2>1, <2>2, SingleFailed DEF Resume
  <2>3. CASE cp # None
    <3> DEFINE x == [task EXCEPT !.at = "approval", !.agent = cp.agent]
    <3>1. cp.route = "approval"
      BY <1>1, <2>1, <2>3 DEF TokenInv, AnswerRoute
    <3>2. tasks' = [tasks EXCEPT ![t] = x] /\ snap' = snap
      BY <1>7, <2>3, <3>1 DEF Resume
    <3>3. x.at = "approval" /\ x.agent = cp.agent
      BY <1>2, <2>1 DEF TaskInv
    <3>4. snap.pending_approval # None
      BY <1>1, <2>1 DEF SingleInv
    <3> HIDE DEF x
    <3>5. Same(snap, cp.agent) /\ snap.report = None
      BY <1>4, <2>3, <3>4
    <3>6. CallsCounted(Len(started'), snap', x # Free /\ x.at \in BeforeCall)
      BY <1>4, <2>1, <3>2, <3>4 DEF CallsCounted
    <3>7. SingleInv'
      BY <1>1, <2>1, <3>2, <3>3, <3>5, <3>6, SingleStep
    <3> QED
      BY <1>2, <1>5, <3>2, <3>7, SameGrows
  <2> QED
    BY <2>2, <2>3
<1>8. CASE Recover(t)
  <2>1. task.at = "load" /\ UNCHANGED <<snap, cp, started, eager>>
    BY <1>8 DEF Recover, At
  <2>2. snap.report = None
    BY <1>4, <2>1
  <2> DEFINE x == IF snap.status = "waiting_approval" THEN Free
                  ELSE Task("recover", "ingest", snap, RecursionLimit, None)
  <2>3. tasks' = [tasks EXCEPT ![t] = x]
    BY <1>8 DEF Recover
  <2>4. x = Free \/ (x.at = "ingest" /\ x.agent = snap)
    BY DEF Task
  <2> HIDE DEF x
  <2>5. CallsCounted(Len(started'), snap', x # Free /\ x.at \in BeforeCall)
    BY <1>4, <2>1, <2>4 DEF CallsCounted, BeforeCall, Asking
  <2>6. SingleInv'
    BY <1>1, <1>4, <1>5, <2>1, <2>2, <2>3, <2>4, <2>5, SingleStep
  <2> QED
    BY <1>2, <1>5, <2>1, <2>6, SameGrows
<1>9. CASE RunNode(t)
  <2>1. PICK o \in Node(task.at, task.agent) : Take(t, o)
    BY <1>9 DEF RunNode
  <2>2. task.at \in GraphNodes \ {"approval"} /\ UNCHANGED <<started, eager>>
    BY <1>9 DEF RunNode, OneStepNodes
  <2>3. task.at # "call"
    BY <2>2 DEF GraphNodes
  <2> QED
    BY <1>1, <2>1, <2>2, <2>3, SingleTake
<1>10. CASE RunApproval(t)
  BY <1>1, <1>10, SingleApproval
<1>11. CASE BeginCall(t)
  <2> DEFINE x == [task EXCEPT !.at = "call"]
  <2>1. /\ tasks' = [tasks EXCEPT ![t] = x] /\ task.at = "execute"
        /\ UNCHANGED <<snap, cp, eager>>
        /\ \E e \in [step_id : StepIds, tool : Tools, inputs : Inputs] :
             started' = Append(started, e)
    <3>1. PlaceInv("execute", task.agent)
      BY <1>2, <1>11 DEF BeginCall, TaskInv, GraphNodes
    <3>2. StepOf(task.agent) \in PlanStep /\ StepOf(task.agent).tool_candidates[1] \in Tools
      BY <3>1, CallTyped DEF PlaceInv
    <3>3. StepOf(task.agent).step_id \in StepIds /\ StepOf(task.agent).inputs \in Inputs
      BY <3>2 DEF PlanStep
    <3> QED
      BY <1>11, <3>2, <3>3 DEF BeginCall
  <2>2. Len(started') = Len(started) + 1 /\ Len(started) \in Nat
    <3>1. started \in Seq([step_id : StepIds, tool : Tools, inputs : Inputs])
      BY DEF ServiceInv, Records
    <3> QED
      BY <2>1, <3>1
  <2>3. snap.steps_used \in Nat
    BY <1>2 DEF AgentState
  <2>4. x.at = "call" /\ x.agent = task.agent
    BY <1>2 DEF TaskInv
  <2>5. snap.report = None /\ snap.pending_approval = None
    <3>1. NodeInv("execute", task.agent)
      BY <1>2, <2>1 DEF TaskInv, GraphNodes, PlaceInv
    <3>2. task.agent.pending_approval = None
      BY <3>1 DEF NodeInv, Asking
    <3> QED
      BY <1>3, <1>4, <2>1, <3>2 DEF Same
  <2> HIDE DEF x
  <2>6. CallsCounted(Len(started'), snap', x # Free /\ x.at \in BeforeCall)
    <3>1. Len(started) < snap.steps_used
      BY <1>4, <2>1 DEF CallsCounted, BeforeCall, Asking
    <3>2. Len(started') <= snap.steps_used
      BY <2>2, <2>3, <3>1
    <3> QED
      BY <2>1, <2>4, <2>5, <3>2 DEF CallsCounted, BeforeCall, Asking
  <2>7. SingleInv'
    BY <1>1, <1>3, <2>1, <2>4, <2>5, <2>6, SingleStep
  <2> QED
    BY <1>2, <1>5, <2>1, <2>7, SameGrows
<1>12. CASE EndCall(t)
  <2>1. PICK r \in ToolResults[StepOf(task.agent).tool_candidates[1]] :
          Take(t, ToolReturns(task.agent, r))
    BY <1>12 DEF EndCall
  <2>2. task.at = "call" /\ UNCHANGED <<started, eager>>
    BY <1>12 DEF EndCall
  <2>3. ToolReturns(task.agent, r) \in Node("execute", task.agent)
    BY <1>2, <2>2, ReturnsFromExecute DEF TaskInv
  <2>4. "execute" \in GraphNodes \ {"approval"}
    BY DEF GraphNodes
  <2> QED
    BY <1>1, <2>1, <2>2, <2>3, <2>4, SingleTake
<1>13. CASE NoCallLeft(t)
  <2>1. PICK o \in Execute(task.agent) : Take(t, o)
    BY <1>13 DEF NoCallLeft
  <2>2. task.at = "execute" /\ UNCHANGED <<started, eager>>
    BY <1>13 DEF NoCallLeft
  <2>3. o \in Node("execute", task.agent) /\ "execute" \in GraphNodes \ {"approval"}
    BY <2>1 DEF Node, GraphNodes
  <2> QED
    BY <1>1, <2>1, <2>2, <2>3, SingleTake
<1>14. CASE OutOfSteps(t)
  BY <1>1, <1>14, SingleFailed DEF OutOfSteps
<1>15. CASE Return(t)
  <2>1. /\ task.at = "returned" /\ tasks' = [tasks EXCEPT ![t] = Free]
        /\ snap' \in {snap, task.agent} /\ UNCHANGED <<cp, started, eager>>
    BY <1>15 DEF Return
  <2>2. Same(snap, snap')
    BY <1>3, <1>5, <2>1
  <2>3. snap'.report # None => snap'.status \in Terminal
    <3>1. CASE snap' = snap
      BY <1>4, <3>1
    <3>2. CASE snap' = task.agent
      <4> SUFFICES ASSUME snap'.report # None PROVE task.agent.status \in Terminal
        BY <3>2
      <4>1. task.agent.pending_approval = None
        BY <1>3, <1>4, <3>2 DEF Same
      <4>2. PlaceInv("interrupt", task.agent) \/ PlaceInv("end", task.agent)
        BY <1>2, <2>1 DEF TaskInv
      <4>3. ~PlaceInv("interrupt", task.agent)
        BY <4>1 DEF PlaceInv, NodeInv, Asking
      <4> QED
        BY <4>2, <4>3 DEF PlaceInv, Ended
    <3> QED
      BY <2>1, <3>1, <3>2
  <2>4. cp' # None /\ snap'.pending_approval # None => Same(snap', cp'.agent)
    BY <1>4, <2>1, <2>2 DEF Same
  <2>5. CallsCounted(Len(started'), snap', FALSE)
    BY <1>4, <2>1, <2>2 DEF CallsCounted, Same
  <2>6. snap'.report # None => snap'.pending_approval = None
    BY <1>4, <2>2 DEF Same
  <2>7. SingleInv'
    BY <1>1, <2>1, <2>3, <2>4, <2>5, <2>6, SingleStep
  <2> QED
    BY <1>2, <2>2, <2>7, SameGrows
<1> QED
  BY <1>6, <1>7, <1>8, <1>9, <1>10, <1>11, <1>12, <1>13, <1>14, <1>15 DEF Work

\* A fresh run has begun no call.
LEMMA SingleSubmit ==
  ASSUME ServiceInv, NEW job \in Submissions, Submit(job)
  PROVE  SingleInv'
<1> DEFINE s == NewAgent(job)
           x == Task("start", "load", s, RecursionLimit, None)
<1>1. /\ snap = None /\ snap' = s /\ Spawn(x) /\ UNCHANGED <<cp, started>>
  BY DEF Submit
<1>2. PICK t \in Slots : tasks[t] = Free /\ tasks' = [tasks EXCEPT ![t] = x]
  BY <1>1, SpawnSlot
<1>3. Live = {} /\ cp = None /\ DOMAIN tasks = Slots /\ started = <<>>
  BY <1>1 DEF ServiceInv, Known
<1>4. s.pending_approval = None /\ s.report = None /\ s.steps_used = 0
  BY NewRow, ServiceAssumption
<1>5. x.kind = "start" /\ x.at = "load" /\ x.agent = s
  BY DEF Task
<1> HIDE DEF x, s
<1>6. tasks'[t] = x /\ Live' \subseteq {t}
  <2>1. t \in Slots /\ DOMAIN tasks = Slots
    BY <1>2, <1>3
  <2>2. tasks'[t] = x /\ Live' \subseteq Live \cup {t}
    BY <1>2, <2>1, SlotChange
  <2> QED
    BY <1>3, <2>2
<1>7. \A u \in Live' : tasks'[u] = x
  BY <1>6
<1>8. CallsCounted(Len(started'), snap', \E u \in Live' : tasks'[u].at \in BeforeCall)
  BY <1>1, <1>3, <1>4, <1>5, <1>7 DEF CallsCounted, BeforeCall, Asking
<1>9. \A u \in Live' : Same(snap', tasks'[u].agent)
  BY <1>1, <1>5, <1>7 DEF Same
<1> QED
  BY <1>1, <1>3, <1>4, <1>5, <1>6, <1>7, <1>8, <1>9 DEF SingleInv, Same

\* An answer is taken while a task is left only if that task's call asked and
\* has not returned, and then the answer is eager.
LEMMA SinglePostAnswer ==
  ASSUME ServiceInv, TokenInv, SingleInv, AnsweredOnce', NEW a \in ApprovalResponse, PostAnswer(a)
  PROVE  SingleInv'
<1> SUFFICES ASSUME ~eager' PROVE SingleInv'
  BY DEF SingleInv
<1> DEFINE x == Task("resume", "load", snap, 0, a)
<1>1. /\ snap # None /\ snap.pending_approval # None /\ Spawn(x)
      /\ UNCHANGED <<snap, cp, crashes, started>>
      /\ \A e \in Elements(answers) : e.request # RequestOf(snap) \/ e.life # crashes
      /\ ~eager /\ \A u \in Live : tasks[u].at = "load"
  BY FreshAnswer DEF PostAnswer, ServiceInv, Records
<1>2. PICK t \in Slots : tasks[t] = Free /\ tasks' = [tasks EXCEPT ![t] = x]
  BY <1>1, SpawnSlot
<1>3. Live = {} /\ DOMAIN tasks = Slots
  <2>1. snap \in Asked /\ ~AnsweredNow(snap)
    BY <1>1, CopyFacts DEF Asked, AnsweredNow
  <2>2. ASSUME NEW u \in Live PROVE FALSE
    <3>1. TaskInv(tasks[u]) /\ u \in Slots /\ tasks[u].at = "load" /\ tasks[u] # Free
      BY <1>1, LiveFacts DEF Live
    <3>2. CASE tasks[u].kind = "resume"
      <4>1. Moves(tasks[u])
        BY <3>1, <3>2 DEF Moves
      <4> QED
        BY <2>1, <4>1 DEF TokenInv, MoversPast
    <3>3. CASE tasks[u].kind \in {"start", "recover"}
      <4>1. At(u, "recover", "load") \/ At(u, "start", "load")
        BY <3>1, <3>3 DEF At
      <4> QED
        BY <1>1, <3>1, <4>1 DEF ServiceInv, LoadsAlone
    <3> QED
      BY <3>1, <3>2, <3>3 DEF TaskInv
  <2> QED
    BY <2>2 DEF ServiceInv, Known
<1>4. x.kind = "resume" /\ x.at = "load" /\ x.agent = snap
  BY DEF Task
<1> HIDE DEF x
<1>5. tasks'[t] = x /\ Live' \subseteq {t}
  <2>1. t \in Slots /\ DOMAIN tasks = Slots
    BY <1>2, <1>3
  <2>2. tasks'[t] = x /\ Live' \subseteq Live \cup {t}
    BY <1>2, <2>1, SlotChange
  <2> QED
    BY <1>3, <2>2
<1>6. \A u \in Live' : tasks'[u] = x
  BY <1>5
<1>7. CallsCounted(Len(started'), snap', \E u \in Live' : tasks'[u].at \in BeforeCall)
  BY <1>1, <1>4, <1>6 DEF SingleInv, CallsCounted, BeforeCall, Asking
<1>8. \A u \in Live' : Same(snap', tasks'[u].agent)
  BY <1>1, <1>4, <1>6 DEF Same
<1>9. cp' # None => Same(snap', cp'.agent)
  BY <1>1 DEF SingleInv, Same
<1>10. snap'.report = None
  BY <1>1 DEF SingleInv
<1> QED
  BY <1>1, <1>4, <1>5, <1>6, <1>7, <1>8, <1>9, <1>10 DEF SingleInv, Same

\* A crash leaves the row, and recovery takes up what the row says.
LEMMA SingleCrash ==
  ASSUME ServiceInv, SingleInv, Crash \/ Restart
  PROVE  SingleInv' /\ snap' = snap
<1> SUFFICES ASSUME ~eager' PROVE SingleInv' /\ snap' = snap
  BY DEF SingleInv, Crash, Restart
<1>1. UNCHANGED <<snap, started, eager>> /\ cp' = None
  BY DEF Crash, Restart, ServiceInv, Records
<1>2. snap # None =>
        /\ CallsCounted(Len(started), snap, FALSE)
        /\ snap.report # None => snap.pending_approval = None /\ snap.status \in Terminal
  BY <1>1 DEF SingleInv, CallsCounted
<1>3. CASE Live' = {}
  <2>1. CallsCounted(Len(started), snap, \E u \in Live' : tasks'[u].at \in BeforeCall)
          <=> CallsCounted(Len(started), snap, FALSE)
    BY <1>3 DEF CallsCounted
  <2> QED
    BY <1>1, <1>2, <1>3, <2>1 DEF SingleInv
<1>4. CASE Live' # {}
  <2>1. Restart
    BY <1>4 DEF Crash, Live
  <2>2. Live = {} /\ DOMAIN tasks = Slots
    BY <2>1 DEF Restart, ServiceInv, Records, Known
  <2> DEFINE x == Task("recover", "load", snap, RecursionLimit, None)
  <2>3. snap # None /\ snap.status \notin Terminal /\ Spawn(x)
    <3>1. tasks' # tasks
      BY <1>4, <2>2 DEF Live
    <3> QED
      BY <2>1, <3>1 DEF Restart
  <2>4. PICK t \in Slots : tasks[t] = Free /\ tasks' = [tasks EXCEPT ![t] = x]
    BY <2>3, SpawnSlot
  <2>5. x.kind = "recover" /\ x.at = "load" /\ x.agent = snap
    BY DEF Task
  <2> HIDE DEF x
  <2>6. tasks'[t] = x /\ Live' \subseteq {t}
    <3>1. t \in Slots /\ DOMAIN tasks = Slots
      BY <2>2, <2>4
    <3>2. tasks'[t] = x /\ Live' \subseteq Live \cup {t}
      BY <2>4, <3>1, SlotChange
    <3> QED
      BY <2>2, <3>2
  <2>7. \A u \in Live' : tasks'[u] = x
    BY <2>6
  <2>8. CallsCounted(Len(started'), snap', \E u \in Live' : tasks'[u].at \in BeforeCall)
    BY <1>1, <1>2, <2>3, <2>5, <2>7 DEF CallsCounted, BeforeCall, Asking
  <2>9. \A u \in Live' : Same(snap', tasks'[u].agent)
    BY <1>1, <2>5, <2>7 DEF Same
  <2>10. snap.report = None
    BY <1>2, <2>3
  <2> QED
    BY <1>1, <2>5, <2>6, <2>7, <2>8, <2>9, <2>10 DEF SingleInv
<1> QED
  BY <1>1, <1>3, <1>4

\* Every step of the service.
LEMMA NextSingle ==
  ASSUME AnsweredOnce', ServiceInv, TokenInv, SingleInv, [Next]_vars
  PROVE  SingleInv' /\ (snap # None /\ ~eager' => Grows(snap, snap'))
<1>1. snap # None => snap \in AgentState
  BY DEF ServiceInv, Known, RowInv, StateInv
<1>2. snap' = snap => (snap # None => Grows(snap, snap'))
  BY <1>1, SameGrows DEF Same
<1>3. CASE UNCHANGED vars
  BY <1>2, <1>3 DEF vars, SingleInv, Live, Same
<1>4. ASSUME NEW job \in Submissions, Submit(job)
      PROVE  SingleInv' /\ snap = None
  BY <1>4, SingleSubmit DEF Submit
<1>5. ASSUME NEW a \in ApprovalResponse, PostAnswer(a)
      PROVE  SingleInv' /\ snap' = snap
  BY <1>5, SinglePostAnswer DEF PostAnswer
<1>6. ASSUME NEW t \in Slots, Work(t)
      PROVE  SingleInv' /\ (~eager' => Grows(snap, snap'))
  <2>1. eager' = eager
    BY <1>6 DEF Work, Start, Resume, Recover, RunNode, RunApproval, BeginCall, EndCall,
                NoCallLeft, OutOfSteps, Return
  <2>2. ~eager => SingleInv' /\ Grows(snap, snap')
    BY <1>6, SingleWork
  <2> QED
    BY <2>1, <2>2 DEF SingleInv
<1>7. ASSUME Crash \/ Restart
      PROVE  SingleInv' /\ snap' = snap
  BY <1>7, SingleCrash
<1> QED
  BY <1>2, <1>3, <1>4, <1>5, <1>6, <1>7 DEF Next

\* No run, no task, no call.
LEMMA InitSingle == Init => SingleInv
BY DEF Init, SingleInv, Live, Free

\* Until a request is answered twice, SingleInv holds.
THEOREM SingleInvariance == Spec => [](AnsweredOnce => SingleInv)
<1>1. /\ ServiceInv /\ (AnsweredOnce => TokenInv) /\ (AnsweredOnce => SingleInv)
      /\ [Next]_vars
      => (AnsweredOnce => SingleInv)'
  BY NextSingle, OnceBefore
<1> QED
  BY <1>1, InitSingle, ServiceInvariance, TokenInvariance, PTL DEF Spec

\* The tool calls begun over all lives of the run stay within its step budget
\* (max_steps, orchestrator.py) until a request is answered again: recovery and
\* replay start from the row, and the row knows of every step that was chosen.
THEOREM BoundedUntilRepeated == Spec => [](AnsweredOnce => StartsBounded)
<1>1. ServiceInv /\ SingleInv => StartsBounded
  <2> SUFFICES ASSUME ServiceInv, SingleInv, ~eager PROVE Len(started) <= MaxSteps
    BY DEF StartsBounded
  <2>1. MaxSteps \in Nat
    BY BudgetAssumption
  <2>2. CASE snap = None
    BY <2>1, <2>2 DEF ServiceInv, Known
  <2>3. CASE snap # None
    <3>1. Len(started) <= snap.steps_used /\ snap.steps_used <= MaxSteps
          /\ snap.steps_used \in Nat
      BY <2>3 DEF SingleInv, CallsCounted, ServiceInv, Known, RowInv, StateInv, AgentState
    <3>2. Len(started) \in Nat
      <4>1. started \in Seq([step_id : StepIds, tool : Tools, inputs : Inputs])
        BY DEF ServiceInv, Records
      <4> QED
        BY <4>1
    <3> QED
      BY <2>1, <3>1, <3>2
  <2> QED
    BY <2>2, <2>3
<1> QED
  BY <1>1, SingleInvariance, ServiceInvariance, PTL

\* So they stay within it if no request is ever answered again.
THEOREM StartsAreBounded == ~Repeats => (Spec => []StartsBounded)
<1> SUFFICES ASSUME ~Repeats PROVE Spec => []StartsBounded
  OBVIOUS
<1>1. Spec => []AnsweredOnce
  BY AnswersAreOnce
<1> QED
  BY <1>1, BoundedUntilRepeated, PTL

\* The run row loses no step, no approval and no report to any of the tasks
\* that store it (save_run, ledger.py), nor to a crash between two of them,
\* until a request is answered again.
THEOREM RowsKeepUntilRepeated ==
  Spec => [][snap # None /\ ~eager' /\ AnsweredOnce' => Grows(snap, snap')]_vars
<1>1. /\ ServiceInv /\ (AnsweredOnce => TokenInv) /\ (AnsweredOnce => SingleInv)
      /\ [Next]_vars
      => [snap # None /\ ~eager' /\ AnsweredOnce' => Grows(snap, snap')]_vars
  BY NextSingle, OnceBefore
<1> QED
  BY <1>1, ServiceInvariance, TokenInvariance, SingleInvariance, PTL DEF Spec

\* So it loses none if no request is ever answered again.
THEOREM RowsKeep == ~Repeats => (Spec => RowKeeps)
<1> SUFFICES ASSUME ~Repeats PROVE Spec => RowKeeps
  OBVIOUS
<1>1. /\ AnsweredOnce'
      /\ [snap # None /\ ~eager' /\ AnsweredOnce' => Grows(snap, snap')]_vars
      => [snap # None /\ ~eager' =>
            /\ snap'.steps_used >= snap.steps_used
            /\ IsPrefix(snap.approvals, snap'.approvals)
            /\ snap.report # None => snap'.report = snap.report]_vars
  BY DEF Grows
<1>2. Spec => []AnsweredOnce
  BY AnswersAreOnce
<1> QED
  BY <1>1, <1>2, RowsKeepUntilRepeated, PTL DEF RowKeeps
-----------------------------------------------------------------------------
(***************************************************************************)
(* What holds however often requests are answered again.  Two tasks may    *)
(* then work at the run, from copies of its state, and store over each     *)
(* other.  No call begins that the rules forbid, none that needs an        *)
(* approval before the operator gave a first one (UngrantedInv), and each  *)
(* life of the process and each answer pays for a budget of steps          *)
(* (PaidInv).                                                              *)
(***************************************************************************)

\* The operator has approved something.
Granting == \E a \in Elements(answers) : a.decision \in {"approve", "edit"}

UngrantedInv ==
  /\ \A i \in DOMAIN started : Risk[started[i].tool] # 3
  /\ ~Granting =>
       /\ \A s \in Copies : \A a \in Elements(s.approvals) : a.decision = "deny"
       /\ \A t \in Live : tasks[t].kind \in Resuming => tasks[t].answer.decision = "deny"
       /\ \A i \in DOMAIN started : Evaluate(started[i].tool, started[i].inputs) = "allow"

\* The calls a task may yet begin: one for each step it may count, one for the
\* step it has counted, and those of the replay that resume may turn to.
CallsLeft(task) ==
  IF task = Free \/ task.at = "returned" THEN 0
  ELSE IF task.at = "load" THEN IF task.kind = "resume" THEN 2 * MaxSteps ELSE MaxSteps
  ELSE (IF task.kind \in Resuming THEN MaxSteps ELSE 0)
         + (MaxSteps - task.agent.steps_used) + (IF task.at \in BeforeCall THEN 1 ELSE 0)

\* The calls that all tasks may yet begin, one element for each.
Units == {c \in Slots \X (1..(2 * MaxSteps)) : c[2] <= CallsLeft(tasks[c[1]])}

\* The lives of the process in which the run was, or can be, worked on.
Lives == IF up THEN crashes + 1 ELSE crashes

PaidInv ==
  /\ IsFiniteSet(Units)
  /\ Len(started) + Cardinality(Units) <= MaxSteps * (Lives + 2 * Len(answers))

\* The approvals of c are those of a state that is known, and the answer of the
\* task at t if it carries one.
GivenBy(t, c) == \E s \in Copies : \A a \in Elements(c.approvals) :
  \/ a \in Elements(s.approvals)
  \/ tasks[t].kind \in Resuming /\ a.decision = tasks[t].answer.decision

\* A step of the task at t: it becomes x, and c is the one state that it may
\* store and that was not known before.
Does(t, x, c) ==
  /\ tasks' = [tasks EXCEPT ![t] = x]
  /\ UNCHANGED <<up, crashes, answers>>
  /\ \A s \in Copies' : s \in Copies \/ s = c
  /\ GivenBy(t, c)
  /\ x # Free /\ x.kind \in Resuming =>
       tasks[t].kind \in Resuming /\ x.answer = tasks[t].answer
  /\ \/ started' = started /\ CallsLeft(x) <= CallsLeft(tasks[t])
     \/ /\ tasks[t].at = "execute"
        /\ LET step == StepOf(tasks[t].agent)
           IN  started' = Append(started, [step_id |-> step.step_id, inputs |-> step.inputs,
                                           tool |-> step.tool_candidates[1]])
        /\ CallsLeft(x) + 1 <= CallsLeft(tasks[t])

\* What a task may yet begin is bounded: by its budget, and for resume by that
\* of the replay too.
LEMMA LeftBounds ==
  ASSUME NEW x, x = Free \/ TaskInv(x)
  PROVE  /\ CallsLeft(x) \in 0..(2 * MaxSteps)
         /\ x # Free /\ x.at # "returned" /\ x.kind \in Resuming => CallsLeft(x) >= MaxSteps
         /\ x # Free /\ x.at = "ingest" /\ x.kind \notin Resuming => CallsLeft(x) <= MaxSteps
<1>1. MaxSteps \in Nat
  BY BudgetAssumption
<1>2. CASE x = Free \/ x.at = "returned"
  BY <1>1, <1>2 DEF CallsLeft
<1>3. CASE x # Free /\ x.at = "load"
  BY <1>1, <1>3 DEF CallsLeft, TaskInv, Resuming
<1>4. CASE x # Free /\ x.at \notin {"load", "returned"}
  <2> DEFINE used == x.agent.steps_used
  <2>1. /\ TaskInv(x) /\ x.at \in GraphNodes \cup {"call"}
        /\ StateInv(x.agent) /\ x.agent \in AgentState
        /\ x.at \in BeforeCall => x.agent.tool_calls_used < used
    BY <1>4 DEF TaskInv, PlaceInv, NodeInv, StateInv, BeforeCall, Asking
  <2>2. used \in Nat /\ used <= MaxSteps /\ x.agent.tool_calls_used \in Nat
    BY <2>1 DEF StateInv, AgentState
  <2>3. x.at \in BeforeCall => used >= 1
    BY <2>1, <2>2
  <2>4. CallsLeft(x) = (IF x.kind \in Resuming THEN MaxSteps ELSE 0)
                         + (MaxSteps - used) + (IF x.at \in BeforeCall THEN 1 ELSE 0)
    BY <1>4 DEF CallsLeft
  <2>5. x.at = "ingest" => x.at \notin BeforeCall
    BY DEF BeforeCall, Asking
  <2> HIDE DEF used
  <2> QED
    BY <1>1, <1>4, <2>2, <2>3, <2>4, <2>5
<1> QED
  BY <1>2, <1>3, <1>4

\* A step that stores only what is known is given by nobody.
LEMMA KnownGiven ==
  ASSUME NEW t, NEW c, NEW s \in Copies, c.approvals = s.approvals
  PROVE  GivenBy(t, c)
BY DEF GivenBy

\* The answer of a task is the one approval it adds.
LEMMA AnswerGiven ==
  ASSUME NEW t, tasks[t].kind \in Resuming, tasks[t].answer \in ApprovalResponse,
         NEW s \in Copies, RowInv(s), s.pending_approval # None
  PROVE  GivenBy(t, Answered(s, tasks[t].answer))
<1>1. s \in AgentState /\ s.pending_approval \in StepIds
  BY DEF RowInv, StateInv, AgentState
<1>2. \A a \in Elements(Answered(s, tasks[t].answer).approvals) :
        a \in Elements(s.approvals)
          \/ a = [step_id |-> s.pending_approval, decision |-> tasks[t].answer.decision]
  BY <1>1, AnsweredKeeps
<1> QED
  BY <1>2 DEF GivenBy

\* A replay may begin at most what was left to the task that resumed.
LEMMA ReplayDoes ==
  ASSUME ServiceInv, NEW t \in Live, tasks[t].kind \in Resuming, tasks[t].at # "returned",
         NEW r \in Copies, RowInv(r), r.pending_approval # None,
         Replay(t, r, tasks[t].answer), UNCHANGED <<cp, up, crashes, answers, started>>
  PROVE  \E x, c : Does(t, x, c)
<1> DEFINE a == tasks[t].answer
           c == Answered(r, a)
           x == Task("replay", "ingest", c, RecursionLimit, None)
<1>1. /\ t \in Slots /\ TaskInv(tasks[t]) /\ DOMAIN tasks = Slots /\ a \in ApprovalResponse
  BY LiveFacts DEF TaskInv
<1>2. snap' = c /\ tasks' = [tasks EXCEPT ![t] = x]
  BY DEF Replay
<1>3. GivenBy(t, c)
  BY <1>1, AnswerGiven
<1>4. PlaceInv("ingest", c) /\ c \in AgentState
  BY <1>1, AnswerPlace
<1> HIDE DEF c
<1>5. TaskInv(x) /\ x.kind = "replay" /\ x.at = "ingest" /\ x.agent = c
  BY <1>4, LimitIsNat DEF TaskInv, Task, Resuming, GraphNodes
<1>6. x # Free /\ x.kind \notin Resuming
  BY <1>5, TaskIsLive DEF Resuming
<1> HIDE DEF x
<1>7. CallsLeft(x) <= CallsLeft(tasks[t])
  <2>1. CallsLeft(x) <= MaxSteps /\ CallsLeft(x) \in Nat
    BY <1>5, <1>6, LeftBounds, BudgetAssumption
  <2>2. CallsLeft(tasks[t]) >= MaxSteps /\ CallsLeft(tasks[t]) \in Nat
    BY <1>1, LeftBounds, TaskIsLive, BudgetAssumption
  <2> QED
    BY <2>1, <2>2, BudgetAssumption
<1>8. \A s \in Copies' : s \in Copies \/ s = c
  BY <1>1, <1>2, <1>5, NewCopies
<1> QED
  BY <1>2, <1>3, <1>6, <1>7, <1>8 DEF Does

\* An exception ends the task, or makes a replay of it, with a budget at most.
LEMMA FailedDoes ==
  ASSUME ServiceInv, NEW t \in Live, Failed(t), tasks[t].at # "returned",
         UNCHANGED <<cp, up, crashes, answers, started>>
  PROVE  \E x, c : Does(t, x, c)
<1>1. /\ t \in Slots /\ TaskInv(tasks[t]) /\ snap # None /\ RowInv(snap)
      /\ DOMAIN tasks = Slots /\ snap \in Copies
  BY LiveFacts, CopyFacts
<1>2. CallsLeft(Free) = 0 /\ CallsLeft(tasks[t]) \in Nat
  BY <1>1, LeftBounds, BudgetAssumption DEF CallsLeft
<1>3. ASSUME NEW c, snap' = c, tasks' = [tasks EXCEPT ![t] = Free], c.approvals = snap.approvals
      PROVE  Does(t, Free, c)
  <2>1. \A s \in Copies' : s \in Copies \/ s = c
    BY <1>1, <1>3, NewCopies
  <2>2. GivenBy(t, c)
    BY <1>1, <1>3, KnownGiven
  <2>3. started' = started /\ CallsLeft(Free) <= CallsLeft(tasks[t])
    BY <1>2
  <2> QED
    BY <1>3, <2>1, <2>2, <2>3 DEF Does
<1>4. CASE tasks[t].kind = "start"
  <2> DEFINE c == [snap EXCEPT !.status = "failed", !.last_error = TRUE]
  <2>1. snap' = c /\ tasks' = [tasks EXCEPT ![t] = Free]
    BY <1>4 DEF Failed, Resuming
  <2>2. c.approvals = snap.approvals
    BY <1>1, FailedRow
  <2> HIDE DEF c
  <2> QED
    BY <1>3, <2>1, <2>2
<1>5. ASSUME Die(t) PROVE \E x, c : Does(t, x, c)
  <2>1. snap' = snap /\ tasks' = [tasks EXCEPT ![t] = Free]
    BY <1>5 DEF Die
  <2> QED
    BY <1>3, <2>1
<1>6. CASE tasks[t].kind \in Resuming /\ snap.pending_approval # None
  <2>1. Replay(t, snap, tasks[t].answer)
    BY <1>6 DEF Failed, Resuming
  <2> QED
    BY <1>1, <1>6, <2>1, ReplayDoes
<1> QED
  BY <1>4, <1>5, <1>6 DEF Failed

\* A node's outcome uses up the step that it counts or the call that it made.
LEMMA TakeDoes ==
  ASSUME ServiceInv, NEW t \in Live,
         NEW n \in GraphNodes \ {"approval"}, tasks[t].at \in {n, "call"},
         tasks[t].at = "call" => n = "execute",
         NEW o \in Node(n, tasks[t].agent), Take(t, o),
         UNCHANGED <<up, crashes, answers, started>>
  PROVE  \E x, c : Does(t, x, c)
<1> DEFINE task == tasks[t]
<1>1. /\ t \in Slots /\ TaskInv(task) /\ snap # None /\ DOMAIN tasks = Slots
      /\ task.at \notin {"load", "returned", "approval"}
  BY LiveFacts DEF GraphNodes
<1>2. PlaceInv(n, task.agent) /\ task.agent \in AgentState /\ task.agent \in Copies
  BY <1>1, CopyFacts DEF TaskInv
<1>3. /\ o.route \in GraphNodes \cup {"end", "raise"} /\ PlaceInv(o.route, o.agent)
      /\ o.agent.approvals = task.agent.approvals
  BY <1>2, PlacePasses, Asks
<1>4. CASE o.route = "raise"
  BY <1>1, <1>4, FailedDoes DEF Take
<1>5. CASE o.route # "raise"
  <2> DEFINE kind == IF task.kind = "resume" THEN "resumed" ELSE task.kind
             at == IF o.route \in {"interrupt", "end"} THEN "returned" ELSE o.route
             left == IF task.kind \in Resuming THEN task.left ELSE task.left - 1
             x == Task(kind, at, o.agent, left, task.answer)
  <2>1. /\ snap' = o.agent /\ cp' = o /\ tasks' = [tasks EXCEPT ![t] = x]
    BY <1>3, <1>5 DEF Take, GraphNodes
  <2>2. x.at = at /\ x.agent = o.agent /\ x.answer = task.answer /\ x.kind = kind
    BY DEF Task
  <2>3. kind \in Resuming <=> task.kind \in Resuming
    BY DEF Resuming
  <2>4. x # Free
    <3>1. kind # "free"
      BY <1>1 DEF TaskInv, Resuming
    <3> QED
      BY <2>2, <3>1 DEF Free
  <2>5. \A s \in Copies' : s \in Copies \/ s = o.agent
    BY <1>1, <2>1, <2>2, NewCopies
  <2>6. GivenBy(t, o.agent)
    BY <1>2, <1>3, KnownGiven
  <2>7. CallsLeft(x) <= CallsLeft(task)
    <3> DEFINE used == task.agent.steps_used
               more == IF task.kind \in Resuming THEN MaxSteps ELSE 0
    <3>1. /\ Writes(n, task.agent, o.agent)
          /\ o.route = "guardrail" => n = "select_step"
          /\ o.route \in {"approval", "execute"} => n = "guardrail"
      BY <1>2, NodeWrites, CameFrom
    <3>2. IF n = "select_step" /\ o.route = "guardrail"
            THEN o.agent.steps_used = used + 1
            ELSE o.agent.steps_used = used
      BY <1>2, <3>1, SelectCounts DEF Node, Writes
    <3>3. used \in Nat /\ MaxSteps \in Nat /\ more \in {0, MaxSteps}
      <4>1. used \in Nat
        BY <1>2 DEF AgentState
      <4>2. MaxSteps \in Nat
        BY BudgetAssumption
      <4> QED
        BY <4>1, <4>2
    <3>4. n = "guardrail" => task.at \in BeforeCall
      BY DEF BeforeCall
    <3>5. CallsLeft(task) = more + (MaxSteps - used) + (IF task.at \in BeforeCall THEN 1 ELSE 0)
      BY <1>1, TaskIsLive DEF CallsLeft
    <3>6. at \in BeforeCall <=> o.route \in {"guardrail", "execute", "approval"}
      BY <1>3 DEF BeforeCall, Asking, GraphNodes
    <3>7. CASE at = "returned"
      <4>1. CallsLeft(x) = 0
        BY <2>2, <3>7 DEF CallsLeft
      <4>2. CallsLeft(task) \in 0..(2 * MaxSteps)
        BY <1>1, LeftBounds
      <4> QED
        BY <3>3, <4>1, <4>2
    <3>8. CASE at # "returned"
      <4>1. at # "load"
        BY <1>3 DEF GraphNodes
      <4> HIDE DEF at, kind, x
      <4>2. CallsLeft(x) = more + (MaxSteps - o.agent.steps_used)
                             + (IF at \in BeforeCall THEN 1 ELSE 0)
        BY <2>2, <2>3, <2>4, <3>8, <4>1 DEF CallsLeft
      <4> HIDE DEF used, more
      <4> QED
        BY <3>1, <3>2, <3>3, <3>4, <3>5, <3>6, <4>2
    <3> QED
      BY <3>7, <3>8
  <2> HIDE DEF x, at, kind
  <2> QED
    BY <2>1, <2>2, <2>3, <2>5, <2>6, <2>7 DEF Does
<1> QED
  BY <1>4, <1>5

\* The approval node turns the answer into the state that it calls the tool
\* from, or ends the call of the graph with its question.
LEMMA ApprovalDoes ==
  ASSUME ServiceInv, NEW t \in Live, RunApproval(t)
  PROVE  \E x, c : Does(t, x, c)
<1> DEFINE task == tasks[t]
           a == task.answer
           next == IF a.decision = "deny" THEN "record_denial" ELSE "execute"
           c == Answered(task.agent, a)
<1>1. /\ t \in Slots /\ TaskInv(task) /\ snap # None /\ DOMAIN tasks = Slots /\ task # Free
  BY LiveFacts, TaskIsLive
<1>2. /\ task.at = "approval" /\ UNCHANGED <<up, crashes, answers, started>>
      /\ RowInv(task.agent) /\ task.agent.pending_approval # None
  BY <1>1, ApprovalStep
<1>3. task.agent \in AgentState /\ task.agent \in Copies
  BY <1>1, <1>2, CopyFacts DEF TaskInv
<1>4. CASE /\ task.kind = "resume" /\ a \in ApprovalResponse
           /\ Take(t, Go(c, next))
  <2> DEFINE x == Task("resumed", next, c, task.left, a)
             o == Go(c, next)
  <2>1. snap' = c /\ cp' = o /\ tasks' = [tasks EXCEPT ![t] = x]
    BY <1>4 DEF Take, Resuming, Go
  <2>2. /\ x.at = next /\ x.agent = c /\ x.kind = "resumed" /\ x.answer = a
        /\ x # Free /\ o.agent = c
    <3>1. Free.kind = "free"
      BY DEF Free
    <3> QED
      BY <3>1 DEF Task, Go
  <2>3. c.steps_used = task.agent.steps_used
    BY <1>2, <1>4, AnswerPlace
  <2>4. GivenBy(t, c)
    BY <1>2, <1>3, <1>4, AnswerGiven DEF Resuming
  <2> HIDE DEF x, c, o
  <2>5. CallsLeft(x) <= CallsLeft(task)
    <3> DEFINE used == task.agent.steps_used
    <3>1. used \in Nat
      BY <1>3 DEF AgentState
    <3>2. CallsLeft(task) = MaxSteps + (MaxSteps - used) + 1
      BY <1>1, <1>2, <1>4 DEF CallsLeft, Resuming, BeforeCall, Asking
    <3>3. CallsLeft(x) = MaxSteps + (MaxSteps - used) + (IF x.at \in BeforeCall THEN 1 ELSE 0)
      BY <2>2, <2>3 DEF CallsLeft, Resuming
    <3> HIDE DEF used
    <3> QED
      BY <3>1, <3>2, <3>3, BudgetAssumption
  <2>6. \A s \in Copies' : s \in Copies \/ s = c
    BY <1>1, <2>1, <2>2, NewCopies
  <2> QED
    BY <1>2, <1>4, <2>1, <2>2, <2>4, <2>5, <2>6 DEF Does, Resuming
<1>5. CASE task.kind # "resume" /\ Take(t, Go(task.agent, "interrupt"))
  <2> DEFINE left == IF task.kind \in Resuming THEN task.left ELSE task.left - 1
             x == Task(task.kind, "returned", task.agent, left, a)
  <2>1. /\ snap' = task.agent /\ tasks' = [tasks EXCEPT ![t] = x]
        /\ cp' = [agent |-> task.agent, route |-> "approval"]
    BY <1>5 DEF Take, Go
  <2>2. x.kind = task.kind /\ x.at = "returned" /\ x.agent = task.agent /\ x.answer = a
    BY DEF Task
  <2> HIDE DEF x
  <2>3. CallsLeft(x) <= CallsLeft(task)
    <3>1. CallsLeft(x) = 0 /\ CallsLeft(task) \in 0..(2 * MaxSteps)
      BY <1>1, <2>2, LeftBounds DEF CallsLeft
    <3> QED
      BY <3>1, BudgetAssumption
  <2>4. \A s \in Copies' : s \in Copies \/ s = task.agent
    <3>1. cp'.agent = task.agent
      BY <2>1
    <3> QED
      BY <1>1, <2>1, <2>2, <3>1, NewCopies
  <2>5. GivenBy(t, task.agent)
    BY <1>3, KnownGiven
  <2> QED
    BY <1>2, <2>1, <2>2, <2>3, <2>4, <2>5 DEF Does
<1>6. CASE task.kind = "resume" /\ Replay(t, task.agent, a) /\ UNCHANGED cp
  BY <1>2, <1>3, <1>6, ReplayDoes DEF Resuming
<1> QED
  BY <1>1, <1>4, <1>5, <1>6, ApprovalStep

\* Every step of a task.
LEMMA WorkDoes ==
  ASSUME ServiceInv, NEW t \in Slots, Work(t)
  PROVE  t \in Live /\ \E x, c : Does(t, x, c)
<1>1. t \in Live
  BY DEF Work, Start, Resume, Recover, RunNode, RunApproval, BeginCall, EndCall, NoCallLeft,
         OutOfSteps, Return, MayRun, At, Live
<1> SUFFICES \E x, c : Does(t, x, c)
  BY <1>1
<1> DEFINE task == tasks[t]
<1>2. /\ TaskInv(task) /\ task # Free /\ snap # None /\ RowInv(snap) /\ snap \in Copies
      /\ snap \in AgentState /\ DOMAIN tasks = Slots
  BY <1>1, LiveFacts, CopyFacts, TaskIsLive DEF RowInv, StateInv
<1>3. CallsLeft(task) \in 0..(2 * MaxSteps) /\ MaxSteps \in Nat
  BY <1>2, LeftBounds, BudgetAssumption
<1>4. ServiceInv'
  BY WorkInv
\* A step that stores nothing but c, whose approvals are known, and begins no call.
<1>5. ASSUME NEW x, NEW c, tasks' = [tasks EXCEPT ![t] = x],
             UNCHANGED <<up, crashes, answers, started>>,
             snap' \in Copies \/ snap' = c, cp' = cp,
             x = Free \/ x.agent \in Copies \/ x.agent = c,
             NEW s \in Copies, c.approvals = s.approvals,
             x # Free => x.kind = task.kind /\ x.answer = task.answer,
             CallsLeft(x) <= CallsLeft(task)
      PROVE  \E y, d : Does(t, y, d)
  <2>1. ASSUME NEW r \in Copies' PROVE r \in Copies \/ r = c
    <3>1. \/ r \in Copies
          \/ r = snap' /\ snap' # snap
          \/ cp' # cp /\ cp' # None /\ r = cp'.agent
          \/ x # Free /\ x.at # "load" /\ r = x.agent
      BY <1>2, <1>5, <2>1, NewCopies
    <3> QED
      BY <1>5, <3>1
  <2>2. GivenBy(t, c)
    BY <1>5, KnownGiven
  <2> QED
    BY <1>5, <2>1, <2>2 DEF Does
<1>6. CASE Start(t)
  <2> DEFINE x == [task EXCEPT !.at = "ingest"]
  <2>1. /\ tasks' = [tasks EXCEPT ![t] = x] /\ snap' = task.agent /\ task.at = "load"
        /\ task.kind = "start" /\ UNCHANGED <<cp, up, crashes, answers, started>>
    BY <1>6 DEF Start, At
  <2>2. task.agent = snap
    BY <1>6 DEF Start, ServiceInv, LoadsAlone
  <2>3. /\ x.at = "ingest" /\ x.kind = task.kind /\ x.agent = snap /\ x.answer = task.answer
        /\ x = Free \/ TaskInv(x)
    <3>1. t \in Live' => TaskInv(tasks'[t])
      BY <1>4 DEF ServiceInv, Known
    <3>2. tasks'[t] = x /\ (t \in Live' <=> x # Free)
      BY <1>2, <2>1, SlotChange
    <3> QED
      BY <1>2, <2>2, <3>1, <3>2 DEF TaskInv
  <2> HIDE DEF x
  <2>4. CallsLeft(x) <= CallsLeft(task)
    <3>1. CallsLeft(task) = MaxSteps
      BY <1>2, <2>1 DEF CallsLeft
    <3>2. CallsLeft(x) <= MaxSteps
      BY <1>3, <2>1, <2>3, LeftBounds DEF Resuming, CallsLeft
    <3> QED
      BY <3>1, <3>2
  <2> QED
    BY <1>2, <1>5, <2>1, <2>2, <2>3, <2>4
<1>7. CASE Resume(t)
  <2>1. task.kind = "resume" /\ task.at = "load"
        /\ UNCHANGED <<cp, up, crashes, answers, started, eager>>
    BY <1>7 DEF Resume, At
  <2>2. CASE cp = None
    BY <1>1, <1>7, <2>1, <2>2, FailedDoes DEF Resume
  <2>3. CASE cp # None
    <3> DEFINE at == IF cp.route = "end" THEN "returned" ELSE cp.route
               x == [task EXCEPT !.at = at, !.agent = cp.agent]
    <3>1. tasks' = [tasks EXCEPT ![t] = x] /\ snap' = snap
      BY <1>7, <2>3 DEF Resume
    <3>2. x.at = at /\ x.kind = task.kind /\ x.agent = cp.agent /\ x.answer = task.answer
      BY <1>2 DEF TaskInv
    <3>3. x = Free \/ TaskInv(x)
      <4>1. t \in Live' => TaskInv(tasks'[t])
        BY <1>4 DEF ServiceInv, Known
      <4>2. tasks'[t] = x /\ (t \in Live' <=> x # Free)
        BY <1>2, <3>1, SlotChange
      <4> QED
        BY <4>1, <4>2
    <3>4. cp.agent \in Copies
      BY <2>3, CopyFacts
    <3> HIDE DEF x, at
    <3>5. CallsLeft(x) <= CallsLeft(task)
      <4>1. CallsLeft(task) = 2 * MaxSteps
        BY <1>2, <2>1 DEF CallsLeft
      <4>2. CallsLeft(x) \in 0..(2 * MaxSteps)
        BY <3>3, LeftBounds
      <4> QED
        BY <4>1, <4>2
    <3> QED
      BY <1>2, <1>5, <2>1, <3>1, <3>2, <3>4, <3>5
  <2> QED
    BY <2>2, <2>3
<1>8. CASE Recover(t)
  <2> DEFINE y == Task("recover", "ingest", snap, RecursionLimit, None)
             x == IF snap.status = "waiting_approval" THEN Free ELSE y
  <2>1. /\ task.kind = "recover" /\ task.at = "load" /\ tasks' = [tasks EXCEPT ![t] = x]
        /\ UNCHANGED <<snap, cp, up, crashes, answers, started>>
    BY <1>8 DEF Recover, At
  <2>2. y.kind = "recover" /\ y.agent = snap /\ y.at = "ingest"
    BY DEF Task
  <2>3. x = Free \/ (TaskInv(x) /\ x = y)
    <3>1. t \in Live' => TaskInv(tasks'[t])
      BY <1>4 DEF ServiceInv, Known
    <3>2. tasks'[t] = x /\ (t \in Live' <=> x # Free)
      BY <1>2, <2>1, SlotChange
    <3> QED
      BY <3>1, <3>2
  <2> HIDE DEF y, x
  <2>4. CallsLeft(x) <= CallsLeft(task)
    <3>1. CallsLeft(task) = MaxSteps
      BY <1>2, <2>1 DEF CallsLeft
    <3>2. CallsLeft(x) <= MaxSteps
      BY <1>3, <2>2, <2>3, LeftBounds DEF Resuming, CallsLeft
    <3> QED
      BY <3>1, <3>2
  <2>5. \A s \in Copies' : s \in Copies \/ s = snap
    BY <1>2, <2>1, <2>2, <2>3, NewCopies
  <2>6. GivenBy(t, snap)
    BY <1>2, KnownGiven
  <2>7. x # Free => x.kind \notin Resuming
    BY <2>2, <2>3 DEF Resuming
  <2> QED
    BY <2>1, <2>4, <2>5, <2>6, <2>7 DEF Does
<1>9. CASE RunNode(t)
  <2>1. PICK o \in Node(task.at, task.agent) : Take(t, o)
    BY <1>9 DEF RunNode
  <2>2. task.at \in GraphNodes \ {"approval"} /\ UNCHANGED <<up, crashes, answers, started>>
    BY <1>9 DEF RunNode, OneStepNodes
  <2>3. task.at # "call"
    BY <2>2 DEF GraphNodes
  <2> QED
    BY <1>1, <2>1, <2>2, <2>3, TakeDoes
<1>10. CASE RunApproval(t)
  BY <1>1, <1>10, ApprovalDoes
<1>11. CASE BeginCall(t)
  <2> DEFINE x == [task EXCEPT !.at = "call"]
             step == StepOf(task.agent)
             call == [step_id |-> step.step_id, inputs |-> step.inputs,
                      tool |-> step.tool_candidates[1]]
  <2>1. /\ tasks' = [tasks EXCEPT ![t] = x] /\ task.at = "execute"
        /\ UNCHANGED <<snap, cp, up, crashes, answers>>
        /\ started' = Append(started, call)
    BY <1>11 DEF BeginCall
  <2>2. x.at = "call" /\ x.agent = task.agent /\ x.kind = task.kind /\ x.answer = task.answer
    BY <1>2 DEF TaskInv
  <2>3. task.agent \in Copies /\ task.agent.steps_used \in Nat
    BY <1>1, <1>2, <2>1, CopyFacts DEF TaskInv, AgentState
  <2>4. x # Free
    <3>1. Free.kind = "free" /\ task.kind # "free"
      BY <1>2 DEF Free, TaskInv, Resuming
    <3> QED
      BY <2>2, <3>1
  <2> HIDE DEF x
  <2>5. CallsLeft(x) + 1 <= CallsLeft(task)
    <3> DEFINE used == task.agent.steps_used
               more == IF task.kind \in Resuming THEN MaxSteps ELSE 0
    <3>1. CallsLeft(task) = more + (MaxSteps - used) + 1
      BY <1>2, <2>1 DEF CallsLeft, BeforeCall, Asking
    <3>2. CallsLeft(x) = more + (MaxSteps - used) + 0
      BY <2>2, <2>4 DEF CallsLeft, BeforeCall, Asking
    <3>3. more \in Nat /\ used \in Nat
      BY <1>3, <2>3
    <3> HIDE DEF more, used
    <3> QED
      BY <1>3, <3>1, <3>2, <3>3
  <2>6. \A s \in Copies' : s \in Copies \/ s = task.agent
    BY <1>2, <2>1, <2>2, NewCopies
  <2>7. GivenBy(t, task.agent)
    BY <2>3, KnownGiven
  <2> QED
    BY <2>1, <2>2, <2>5, <2>6, <2>7 DEF Does
<1>12. CASE EndCall(t)
  <2>1. PICK r \in ToolResults[StepOf(task.agent).tool_candidates[1]] :
          Take(t, ToolReturns(task.agent, r))
    BY <1>12 DEF EndCall
  <2>2. task.at = "call" /\ UNCHANGED <<up, crashes, answers, started>>
    BY <1>12 DEF EndCall
  <2>3. ToolReturns(task.agent, r) \in Node("execute", task.agent)
    BY <1>2, <2>2, ReturnsFromExecute DEF TaskInv
  <2>4. "execute" \in GraphNodes \ {"approval"}
    BY DEF GraphNodes
  <2> QED
    BY <1>1, <2>1, <2>2, <2>3, <2>4, TakeDoes
<1>13. CASE NoCallLeft(t)
  <2>1. PICK o \in Execute(task.agent) : Take(t, o)
    BY <1>13 DEF NoCallLeft
  <2>2. task.at = "execute" /\ UNCHANGED <<up, crashes, answers, started>>
    BY <1>13 DEF NoCallLeft
  <2>3. o \in Node("execute", task.agent) /\ "execute" \in GraphNodes \ {"approval"}
    BY <2>1 DEF Node, GraphNodes
  <2> QED
    BY <1>1, <2>1, <2>2, <2>3, TakeDoes
<1>14. CASE OutOfSteps(t)
  <2>1. /\ Failed(t) /\ task.at # "returned" /\ UNCHANGED <<cp, up, crashes, answers, started>>
    BY <1>14 DEF OutOfSteps, GraphNodes
  <2> QED
    BY <1>1, <2>1, FailedDoes
<1>15. CASE Return(t)
  <2>1. /\ task.at = "returned" /\ tasks' = [tasks EXCEPT ![t] = Free]
        /\ snap' \in {snap, task.agent} /\ UNCHANGED <<cp, up, crashes, answers, started>>
    BY <1>15 DEF Return
  <2>2. task.agent \in Copies
    BY <1>1, <2>1, CopyFacts
  <2>3. CallsLeft(Free) <= CallsLeft(task)
    BY <1>3 DEF CallsLeft
  <2> QED
    BY <1>2, <1>5, <2>1, <2>2, <2>3
<1> QED
  BY <1>1, <1>6, <1>7, <1>8, <1>9, <1>10, <1>11, <1>12, <1>13, <1>14, <1>15 DEF Work

\* A step of a task stores no approval of its own, and begins a call only with
\* one that is known or the rules' leave.
LEMMA UngrantedWork ==
  ASSUME ServiceInv, UngrantedInv, NEW t \in Slots, Work(t)
  PROVE  UngrantedInv'
<1>1. t \in Live
  BY WorkDoes
<1>2. PICK x, c : Does(t, x, c)
  BY WorkDoes
<1>3. /\ TaskInv(tasks[t]) /\ DOMAIN tasks = Slots
      /\ tasks' = [tasks EXCEPT ![t] = x] /\ answers' = answers
  BY <1>1, <1>2, LiveFacts DEF Does
<1>4. /\ tasks'[t] = x /\ \A u \in Slots \ {t} : tasks'[u] = tasks[u]
      /\ Live' \subseteq Live \cup {t} /\ (t \in Live' <=> x # Free)
  BY <1>3, SlotChange
<1>5. Granting' <=> Granting
  BY <1>3 DEF Granting
<1>6. ASSUME ~Granting, NEW s \in Copies', NEW a \in Elements(s.approvals)
      PROVE  a.decision = "deny"
  <2>1. CASE s \in Copies
    BY <1>6, <2>1 DEF UngrantedInv
  <2>2. CASE s = c
    <3>1. PICK r \in Copies : \/ a \in Elements(r.approvals)
                              \/ tasks[t].kind \in Resuming /\ a.decision = tasks[t].answer.decision
      BY <1>2, <1>6, <2>2 DEF Does, GivenBy
    <3> QED
      BY <1>1, <1>6, <3>1 DEF UngrantedInv
  <2> QED
    BY <1>2, <1>6, <2>1, <2>2 DEF Does
<1>7. ASSUME ~Granting, NEW u \in Live', tasks'[u].kind \in Resuming
      PROVE  tasks'[u].answer.decision = "deny"
  <2>1. CASE u = t
    BY <1>1, <1>2, <1>4, <1>7, <2>1 DEF Does, UngrantedInv
  <2>2. CASE u # t
    <3>1. u \in Live /\ tasks'[u] = tasks[u]
      BY <1>4, <1>7, <2>2 DEF Live
    <3> QED
      BY <1>7, <3>1 DEF UngrantedInv
  <2> QED
    BY <2>1, <2>2
<1>8. CASE started' = started
  BY <1>5, <1>6, <1>7, <1>8 DEF UngrantedInv
<1>9. CASE started' # started
  <2> DEFINE step == StepOf(tasks[t].agent)
             call == [step_id |-> step.step_id, inputs |-> step.inputs,
                      tool |-> step.tool_candidates[1]]
  <2>1. started' = Append(started, call) /\ tasks[t].at = "execute"
    BY <1>2, <1>9 DEF Does
  <2>2. PlaceInv("execute", tasks[t].agent) /\ tasks[t].agent \in Copies
    BY <1>1, <1>3, <2>1, CopyFacts DEF TaskInv, GraphNodes
  <2>3. Risk[call.tool] # 3
    BY <2>2, CallTyped DEF PlaceInv
  <2>4. ~Granting => Evaluate(call.tool, call.inputs) = "allow"
    <3>1. \/ Evaluate(call.tool, call.inputs) = "allow"
          \/ Approved(tasks[t].agent, call.step_id)
      BY <2>2 DEF PlaceInv, NodeInv
    <3>2. ~Granting => \A a \in Elements(tasks[t].agent.approvals) : a.decision = "deny"
      BY <2>2 DEF UngrantedInv
    <3> QED
      BY <3>1, <3>2 DEF Approved
  <2>5. started \in Seq([step_id : StepIds, tool : Tools, inputs : Inputs])
    BY DEF ServiceInv, Records
  <2> HIDE DEF call
  <2>6. /\ \A i \in DOMAIN started' : i \in DOMAIN started \/ i = Len(started) + 1
        /\ \A i \in DOMAIN started : started'[i] = started[i]
        /\ started'[Len(started) + 1] = call
    BY <2>1, <2>5
  <2> QED
    BY <1>5, <1>6, <1>7, <2>3, <2>4, <2>6 DEF UngrantedInv
<1> QED
  BY <1>8, <1>9

\* An answer that grants nothing is a refusal.
LEMMA UngrantedPostAnswer ==
  ASSUME ServiceInv, UngrantedInv, NEW a \in ApprovalResponse, PostAnswer(a)
  PROVE  UngrantedInv'
<1> DEFINE x == Task("resume", "load", snap, 0, a)
           record == [request |-> RequestOf(snap), step_id |-> snap.pending_approval,
                      decision |-> a.decision, life |-> crashes,
                      after |-> Len(snap.approvals)]
<1>1. /\ snap # None /\ snap.pending_approval # None /\ Spawn(x)
      /\ answers' = Append(answers, record)
      /\ UNCHANGED <<snap, cp, started>>
  BY DEF PostAnswer
<1>2. PICK t \in Slots : tasks[t] = Free /\ tasks' = [tasks EXCEPT ![t] = x]
  BY <1>1, SpawnSlot
<1>3. DOMAIN tasks = Slots /\ snap \in AgentState /\ crashes \in Nat
      /\ answers \in Seq(AnswerRecord)
  BY <1>1 DEF ServiceInv, Known, RowInv, StateInv, Records
<1>4. record \in AnswerRecord
  BY <1>1, <1>3 DEF AnswerRecord, AgentState, RequestOf, ApprovalResponse
<1>5. record.decision = a.decision
  OBVIOUS
<1>6. x.at = "load" /\ x.answer = a /\ x # Free
  <2>1. Free.kind = "free"
    BY DEF Free
  <2> QED
    BY <2>1 DEF Task
<1> HIDE DEF record, x
<1>7. Elements(answers) \subseteq Elements(answers') /\ record \in Elements(answers')
  BY <1>1, <1>3, <1>4, ElementsAppend
<1>8. ~Granting' => ~Granting /\ a.decision = "deny"
  BY <1>5, <1>7 DEF Granting, ApprovalResponse
<1>9. /\ tasks'[t] = x /\ \A u \in Slots \ {t} : tasks'[u] = tasks[u]
      /\ Live' \subseteq Live \cup {t}
  BY <1>2, <1>3, SlotChange
<1>10. ASSUME NEW s \in Copies' PROVE s \in Copies
  BY <1>1, <1>2, <1>3, <1>6, <1>10, NewCopies
<1>11. ASSUME ~Granting', NEW u \in Live', tasks'[u].kind \in Resuming
       PROVE  tasks'[u].answer.decision = "deny"
  <2>1. CASE u = t
    BY <1>6, <1>8, <1>9, <1>11, <2>1
  <2>2. CASE u # t
    <3>1. u \in Live /\ tasks'[u] = tasks[u]
      BY <1>9, <1>11, <2>2 DEF Live
    <3> QED
      BY <1>8, <1>11, <3>1 DEF UngrantedInv
  <2> QED
    BY <2>1, <2>2
<1> QED
  BY <1>1, <1>8, <1>10, <1>11 DEF UngrantedInv

\* Whoever else spawns or ends tasks leaves none that carries an answer, and
\* the states that were known.
LEMMA UngrantedRest ==
  ASSUME ServiceInv, UngrantedInv, Crash \/ Restart
  PROVE  UngrantedInv'
<1>1. UNCHANGED <<snap, answers, started>> /\ DOMAIN tasks = Slots
  BY DEF Crash, Restart, ServiceInv, Known
<1> SUFFICES /\ \A s \in Copies' : s \in Copies
             /\ \A u \in Live' : tasks'[u].kind \notin Resuming
  BY <1>1 DEF UngrantedInv, Granting
<1>2. CASE Crash
  <2>1. Live' = {} /\ cp' = None
    BY <1>2 DEF Crash, Live
  <2> QED
    BY <1>1, <2>1 DEF Copies
<1>3. CASE Restart
  <2>1. Live = {} /\ cp' = cp
    BY <1>3 DEF Restart, ServiceInv, Records
  <2>2. CASE tasks' = tasks
    <3>1. Live' = {}
      BY <2>1, <2>2 DEF Live
    <3> QED
      BY <1>1, <2>1, <2>2, <3>1 DEF Copies
  <2>3. CASE tasks' # tasks
    <3> DEFINE x == Task("recover", "load", snap, RecursionLimit, None)
    <3>1. Spawn(x)
      BY <1>3, <2>3 DEF Restart
    <3>2. PICK t \in Slots : tasks[t] = Free /\ tasks' = [tasks EXCEPT ![t] = x]
      BY <3>1, SpawnSlot
    <3>3. x.kind = "recover" /\ x.at = "load"
      BY DEF Task
    <3> HIDE DEF x
    <3>4. tasks'[t] = x /\ Live' \subseteq Live \cup {t}
      BY <1>1, <3>2, SlotChange
    <3>5. \A s \in Copies' : s \in Copies
      BY <1>1, <2>1, <3>2, <3>3, NewCopies
    <3> QED
      BY <2>1, <3>3, <3>4, <3>5 DEF Resuming
  <2> QED
    BY <2>2, <2>3
<1> QED
  BY <1>2, <1>3

\* A submitted run has no approvals.
LEMMA UngrantedSubmit ==
  ASSUME ServiceInv, UngrantedInv, NEW job \in Submissions, Submit(job)
  PROVE  UngrantedInv'
<1> DEFINE s == NewAgent(job)
           x == Task("start", "load", s, RecursionLimit, None)
<1>1. /\ snap = None /\ snap' = s /\ Spawn(x) /\ UNCHANGED <<cp, answers, started>>
  BY DEF Submit
<1>2. PICK t \in Slots : tasks[t] = Free /\ tasks' = [tasks EXCEPT ![t] = x]
  BY <1>1, SpawnSlot
<1>3. Live = {} /\ cp = None /\ DOMAIN tasks = Slots
  BY <1>1 DEF ServiceInv, Known
<1>4. s.approvals = <<>>
  BY NewRow, ServiceAssumption
<1>5. x.kind = "start" /\ x.at = "load"
  BY DEF Task
<1> HIDE DEF x, s
<1>6. tasks'[t] = x /\ Live' \subseteq {t}
  BY <1>2, <1>3, SlotChange
<1>7. \A r \in Copies' : r \in Copies \/ r = s
  BY <1>1, <1>2, <1>3, <1>5, NewCopies
<1>8. Elements(s.approvals) = {}
  BY <1>4 DEF Elements
<1>9. \A u \in Live' : tasks'[u].kind \notin Resuming
  BY <1>5, <1>6 DEF Resuming
<1> QED
  BY <1>1, <1>7, <1>8, <1>9 DEF UngrantedInv, Granting

\* Before the operator has approved anything, no call begins but those the
\* rules allow for their parameters, and a forbidden tool is never called: by
\* whichever of the tasks, from whichever copy of the run, and however often
\* requests are answered again.
THEOREM NothingRiskyUngranted ==
  Spec => [](\A i \in DOMAIN started :
               /\ Risk[started[i].tool] # 3
               /\ Evaluate(started[i].tool, started[i].inputs) = "allow" \/ Granting)
<1>1. Init => UngrantedInv
  <2> SUFFICES ASSUME Init PROVE UngrantedInv
    OBVIOUS
  <2>1. Live = {} /\ Copies = {} /\ DOMAIN started = {}
    BY DEF Init, Live, Copies
  <2> QED
    BY <2>1 DEF UngrantedInv
<1>2. ServiceInv /\ UngrantedInv /\ [Next]_vars => UngrantedInv'
  <2> SUFFICES ASSUME ServiceInv, UngrantedInv, [Next]_vars PROVE UngrantedInv'
    OBVIOUS
  <2>1. CASE UNCHANGED vars
    BY <2>1 DEF vars, UngrantedInv, Granting, Copies, Live
  <2> QED
    BY <2>1, UngrantedWork, UngrantedPostAnswer, UngrantedRest, UngrantedSubmit DEF Next
<1>3. UngrantedInv =>
        \A i \in DOMAIN started :
          /\ Risk[started[i].tool] # 3
          /\ Evaluate(started[i].tool, started[i].inputs) = "allow" \/ Granting
  BY DEF UngrantedInv
<1> QED
  BY <1>1, <1>2, <1>3, ServiceInvariance, PTL DEF Spec

\* The calls left to the task of one slot are counted apart from the others'.
LEMMA UnitsChange ==
  ASSUME DOMAIN tasks = Slots, NEW t \in Slots, NEW x, tasks' = [tasks EXCEPT ![t] = x],
         CallsLeft(tasks[t]) \in 0..(2 * MaxSteps), CallsLeft(x) \in 0..(2 * MaxSteps),
         IsFiniteSet(Units)
  PROVE  /\ IsFiniteSet(Units')
         /\ Cardinality(Units) \in Nat /\ Cardinality(Units') \in Nat
         /\ Cardinality(Units') + CallsLeft(tasks[t]) = Cardinality(Units) + CallsLeft(x)
<1> DEFINE Rest == {c \in Units : c[1] # t}
           Own(n) == {t} \X (1..n)
<1>1. IsFiniteSet(Rest) /\ Cardinality(Rest) \in Nat
  <2>1. Rest \in SUBSET Units
    OBVIOUS
  <2>2. IsFiniteSet(Rest)
    BY <2>1, FS_Subset
  <2> QED
    BY <2>2, FS_CardinalityType
<1>2. MaxSteps \in Nat
  BY BudgetAssumption
<1>3. ASSUME NEW n \in 0..(2 * MaxSteps)
      PROVE  /\ IsFiniteSet(Rest \cup Own(n))
             /\ Cardinality(Rest \cup Own(n)) = Cardinality(Rest) + n
  <2>1. IsFiniteSet(1..n) /\ Cardinality(1..n) = n
    <3>1. n \in Int /\ 1 \in Int /\ n >= 0
      BY <1>2
    <3>2. IsFiniteSet(1..n) /\ Cardinality(1..n) = IF 1 > n THEN 0 ELSE n - 1 + 1
      BY <3>1, FS_Interval
    <3> QED
      BY <3>1, <3>2
  <2>2. IsFiniteSet({t}) /\ Cardinality({t}) = 1
    BY FS_Singleton
  <2>3. IsFiniteSet(Own(n)) /\ Cardinality(Own(n)) = Cardinality({t}) * Cardinality(1..n)
    BY <2>1, <2>2, FS_Product
  <2>4. Cardinality(Own(n)) = n
    BY <1>2, <2>1, <2>2, <2>3
  <2>5. Rest \cap Own(n) = {}
    OBVIOUS
  <2>6. Cardinality(Rest \cap Own(n)) = 0
    BY <2>5, FS_EmptySet
  <2> HIDE DEF Rest, Own
  <2>7. /\ IsFiniteSet(Rest \cup Own(n))
        /\ Cardinality(Rest \cup Own(n))
             = Cardinality(Rest) + Cardinality(Own(n)) - Cardinality(Rest \cap Own(n))
    BY <1>1, <2>3, FS_Union
  <2> QED
    BY <1>1, <1>2, <2>4, <2>6, <2>7
<1>4. Units = Rest \cup Own(CallsLeft(tasks[t]))
  <2>1. \A c \in Own(CallsLeft(tasks[t])) : c \in Units
    BY <1>2 DEF Units
  <2>2. \A c \in Units : c \in Rest \/ c \in Own(CallsLeft(tasks[t]))
    BY <1>2 DEF Units
  <2> QED
    BY <2>1, <2>2
<1>5. tasks'[t] = x /\ \A u \in Slots \ {t} : tasks'[u] = tasks[u]
  BY SlotChange
<1>6. Units' = {c \in Slots \X (1..(2 * MaxSteps)) : c[2] <= CallsLeft(tasks'[c[1]])}
  BY DEF Units, CallsLeft, Free, Resuming, BeforeCall, Asking
<1>7. Units' = Rest \cup Own(CallsLeft(x))
  <2>1. \A c \in Own(CallsLeft(x)) : c \in Units'
    BY <1>2, <1>5, <1>6
  <2>2. \A c \in Units' : c \in Rest \/ c \in Own(CallsLeft(x))
    BY <1>2, <1>5, <1>6 DEF Units
  <2>3. \A c \in Rest : c \in Units'
    BY <1>5, <1>6 DEF Units
  <2> QED
    BY <2>1, <2>2, <2>3
<1> HIDE DEF Rest, Own
<1> QED
  BY <1>1, <1>2, <1>3, <1>4, <1>7

\* A task makes its calls from what was left to it.
LEMMA PaidWork ==
  ASSUME ServiceInv, PaidInv, NEW t \in Slots, Work(t)
  PROVE  PaidInv'
<1>1. t \in Live /\ ServiceInv'
  BY WorkDoes, WorkInv
<1>2. PICK x, c : Does(t, x, c)
  BY WorkDoes
<1>3. /\ TaskInv(tasks[t]) /\ DOMAIN tasks = Slots
      /\ tasks' = [tasks EXCEPT ![t] = x] /\ UNCHANGED <<up, crashes, answers>>
  BY <1>1, <1>2, LiveFacts DEF Does
<1>4. x = Free \/ TaskInv(x)
  <2>1. tasks'[t] = x /\ (t \in Live' <=> x # Free)
    BY <1>3, SlotChange
  <2>2. t \in Live' => TaskInv(tasks'[t])
    BY <1>1 DEF ServiceInv, Known
  <2> QED
    BY <2>1, <2>2
<1>5. CallsLeft(tasks[t]) \in 0..(2 * MaxSteps) /\ CallsLeft(x) \in 0..(2 * MaxSteps)
  BY <1>3, <1>4, LeftBounds
<1>6. /\ IsFiniteSet(Units') /\ Cardinality(Units) \in Nat /\ Cardinality(Units') \in Nat
      /\ Cardinality(Units') + CallsLeft(tasks[t]) = Cardinality(Units) + CallsLeft(x)
  BY <1>3, <1>5, UnitsChange DEF PaidInv
<1>7. Len(started) \in Nat
  BY DEF ServiceInv, Records
<1>8. \/ started' = started /\ CallsLeft(x) <= CallsLeft(tasks[t])
      \/ Len(started') = Len(started) + 1 /\ CallsLeft(x) + 1 <= CallsLeft(tasks[t])
  <2>1. CASE started' = started /\ CallsLeft(x) <= CallsLeft(tasks[t])
    BY <2>1
  <2>2. ASSUME NEW e, started' = Append(started, e) PROVE Len(started') = Len(started) + 1
    BY <2>2 DEF ServiceInv, Records
  <2> QED
    BY <1>2, <2>2 DEF Does
<1>9. MaxSteps \in Nat /\ Lives' = Lives
  BY <1>3, BudgetAssumption DEF Lives
<1>10. Len(started') + Cardinality(Units') <= Len(started) + Cardinality(Units)
  BY <1>5, <1>6, <1>7, <1>8, <1>9
<1>11. Len(started') \in Nat
  BY <1>7, <1>8
<1>12. MaxSteps * (Lives' + 2 * Len(answers')) = MaxSteps * (Lives + 2 * Len(answers))
  BY <1>3, <1>9
<1>13. MaxSteps * (Lives + 2 * Len(answers)) \in Nat
  BY <1>9 DEF ServiceInv, Records, Lives
<1> QED
  BY <1>6, <1>7, <1>10, <1>11, <1>12, <1>13 DEF PaidInv

\* One life more pays for a budget, one answer more for two.
LEMMA Pays ==
  ASSUME NEW m \in Nat, NEW k \in Nat
  PROVE  m * k \in Nat /\ m * (k + 1) = m * k + m /\ m * (k + 2) = m * k + 2 * m
OBVIOUS

\* An answer pays for what the resume task and its replay may call.
LEMMA PaidPostAnswer ==
  ASSUME ServiceInv, PaidInv, NEW a \in ApprovalResponse, PostAnswer(a)
  PROVE  PaidInv'
<1> DEFINE x == Task("resume", "load", snap, 0, a)
           k == Lives + 2 * Len(answers)
<1>1. Spawn(x) /\ UNCHANGED <<up, crashes, started>>
  BY DEF PostAnswer
<1>2. PICK t \in Slots : tasks[t] = Free /\ tasks' = [tasks EXCEPT ![t] = x]
  BY <1>1, SpawnSlot
<1>3. /\ DOMAIN tasks = Slots /\ MaxSteps \in Nat /\ Len(answers) \in Nat /\ Lives \in Nat
      /\ Len(started) \in Nat
  BY BudgetAssumption DEF ServiceInv, Known, Records, Lives
<1>4. Len(answers') = Len(answers) + 1
  BY DEF PostAnswer, ServiceInv, Records
<1>5. CallsLeft(x) = 2 * MaxSteps
  <2>1. x.kind = "resume" /\ x.at = "load" /\ Free.kind = "free"
    BY DEF Task, Free
  <2> HIDE DEF x
  <2> QED
    BY <2>1 DEF CallsLeft
<1>6. CallsLeft(tasks[t]) = 0
  BY <1>2 DEF CallsLeft
<1> HIDE DEF x
<1>7. /\ IsFiniteSet(Units') /\ Cardinality(Units) \in Nat /\ Cardinality(Units') \in Nat
      /\ Cardinality(Units') + CallsLeft(tasks[t]) = Cardinality(Units) + CallsLeft(x)
  <2>1. CallsLeft(tasks[t]) \in 0..(2 * MaxSteps) /\ CallsLeft(x) \in 0..(2 * MaxSteps)
    BY <1>3, <1>5, <1>6
  <2> QED
    BY <1>2, <1>3, <2>1, UnitsChange DEF PaidInv
<1>8. Lives' + 2 * Len(answers') = k + 2 /\ k \in Nat
  <2>1. Lives' = Lives
    BY <1>1 DEF Lives
  <2> QED
    BY <1>3, <1>4, <2>1
<1>9. MaxSteps * (k + 2) = MaxSteps * k + 2 * MaxSteps /\ MaxSteps * k \in Nat
  BY <1>3, <1>8, Pays
<1>10. Len(started) + Cardinality(Units) <= MaxSteps * k
  BY DEF PaidInv
<1> HIDE DEF k
<1>11. Len(started') + Cardinality(Units') <= MaxSteps * (k + 2)
  BY <1>1, <1>3, <1>5, <1>6, <1>7, <1>9, <1>10
<1> QED
  BY <1>7, <1>8, <1>11 DEF PaidInv

\* The first life pays for the start of the run.
LEMMA PaidSubmit ==
  ASSUME ServiceInv, PaidInv, NEW job \in Submissions, Submit(job)
  PROVE  PaidInv'
<1> DEFINE x == Task("start", "load", NewAgent(job), RecursionLimit, None)
           k == crashes + 2 * Len(answers)
<1>1. Spawn(x) /\ up /\ snap = None /\ UNCHANGED <<up, crashes, started, answers>>
  BY DEF Submit
<1>2. PICK t \in Slots : tasks[t] = Free /\ tasks' = [tasks EXCEPT ![t] = x]
  BY <1>1, SpawnSlot
<1>3. /\ DOMAIN tasks = Slots /\ MaxSteps \in Nat /\ Len(answers) \in Nat /\ crashes \in Nat
      /\ started = <<>> /\ Live = {}
  BY <1>1, BudgetAssumption DEF ServiceInv, Known, Records
<1>4. CallsLeft(x) = MaxSteps
  <2>1. x.kind = "start" /\ x.at = "load" /\ Free.kind = "free"
    BY DEF Task, Free
  <2> HIDE DEF x
  <2> QED
    BY <2>1 DEF CallsLeft
<1>5. \A u \in Slots : CallsLeft(tasks[u]) = 0
  BY <1>3 DEF CallsLeft, Live
<1> HIDE DEF x
<1>6. Units = {}
  BY <1>3, <1>5 DEF Units
<1>7. Cardinality(Units) = 0
  BY <1>6, FS_EmptySet
<1>8. /\ IsFiniteSet(Units') /\ Cardinality(Units') \in Nat
      /\ Cardinality(Units') + CallsLeft(tasks[t]) = Cardinality(Units) + CallsLeft(x)
  <2>1. CallsLeft(tasks[t]) \in 0..(2 * MaxSteps) /\ CallsLeft(x) \in 0..(2 * MaxSteps)
    BY <1>3, <1>4, <1>5
  <2> QED
    BY <1>2, <1>3, <2>1, UnitsChange DEF PaidInv
<1>9. Lives' + 2 * Len(answers') = k + 1 /\ k \in Nat
  BY <1>1, <1>3 DEF Lives
<1>10. MaxSteps * (k + 1) = MaxSteps * k + MaxSteps /\ MaxSteps * k \in Nat
  BY <1>3, <1>9, Pays
<1>11. Len(started') = 0
  BY <1>1, <1>3
<1> HIDE DEF k
<1>12. Len(started') + Cardinality(Units') <= MaxSteps * (k + 1)
  BY <1>3, <1>4, <1>5, <1>7, <1>8, <1>10, <1>11
<1> QED
  BY <1>8, <1>9, <1>12 DEF PaidInv

\* What the tasks of a life may yet call ends with it.
LEMMA PaidCrash ==
  ASSUME ServiceInv, PaidInv, Crash
  PROVE  PaidInv'
<1>1. tasks' = [t \in Slots |-> Free] /\ UNCHANGED <<answers, started>> /\ Lives' = Lives
  BY DEF Crash, Lives
<1>2. Units' = {}
  <2>1. \A u \in Slots : (CallsLeft(tasks[u]))' = 0
    BY <1>1 DEF CallsLeft
  <2>2. MaxSteps \in Nat
    BY BudgetAssumption
  <2> QED
    BY <2>1, <2>2 DEF Units
<1>3. IsFiniteSet(Units') /\ Cardinality(Units') = 0 /\ Cardinality(Units) \in Nat
  BY <1>2, FS_EmptySet, FS_CardinalityType DEF PaidInv
<1>4. Len(started) \in Nat
  BY DEF ServiceInv, Records
<1>5. MaxSteps * (Lives + 2 * Len(answers)) \in Nat
  BY BudgetAssumption DEF ServiceInv, Records, Lives
<1>6. Len(started') + Cardinality(Units') <= MaxSteps * (Lives + 2 * Len(answers))
  BY <1>1, <1>3, <1>4, <1>5 DEF PaidInv
<1> QED
  BY <1>1, <1>3, <1>6 DEF PaidInv

\* The next life pays for the replay that recovery starts.
LEMMA PaidRestart ==
  ASSUME ServiceInv, PaidInv, Restart
  PROVE  PaidInv'
<1> DEFINE x == Task("recover", "load", snap, RecursionLimit, None)
           k == Lives + 2 * Len(answers)
<1>1. /\ UNCHANGED <<crashes, answers, started>> /\ DOMAIN tasks = Slots
      /\ MaxSteps \in Nat /\ Len(answers) \in Nat /\ crashes \in Nat /\ Len(started) \in Nat
  BY BudgetAssumption DEF Restart, ServiceInv, Records, Known
<1>2. Lives' + 2 * Len(answers') = k + 1 /\ k \in Nat
  BY <1>1 DEF Lives, Restart
<1>3. MaxSteps * (k + 1) = MaxSteps * k + MaxSteps /\ MaxSteps * k \in Nat
  BY <1>1, <1>2, Pays
<1>4. Len(started) + Cardinality(Units) <= MaxSteps * k
  BY DEF PaidInv
<1> HIDE DEF k
<1>5. CASE tasks' = tasks
  <2>1. Units' = Units
    BY <1>5 DEF Units, CallsLeft
  <2>2. Cardinality(Units) \in Nat
    BY FS_CardinalityType DEF PaidInv
  <2>3. Len(started') + Cardinality(Units') <= MaxSteps * (k + 1)
    BY <1>1, <1>3, <1>4, <2>1, <2>2
  <2> QED
    BY <1>2, <2>1, <2>3 DEF PaidInv
<1>6. CASE tasks' # tasks
  <2>1. Spawn(x)
    BY <1>6 DEF Restart
  <2>2. PICK t \in Slots : tasks[t] = Free /\ tasks' = [tasks EXCEPT ![t] = x]
    BY <2>1, SpawnSlot
  <2>3. CallsLeft(x) = MaxSteps
    <3>1. x.kind = "recover" /\ x.at = "load" /\ Free.kind = "free"
      BY DEF Task, Free
    <3> HIDE DEF x
    <3> QED
      BY <3>1 DEF CallsLeft
  <2>4. CallsLeft(tasks[t]) = 0
    BY <2>2 DEF CallsLeft
  <2> HIDE DEF x
  <2>5. /\ IsFiniteSet(Units') /\ Cardinality(Units) \in Nat /\ Cardinality(Units') \in Nat
        /\ Cardinality(Units') + CallsLeft(tasks[t]) = Cardinality(Units) + CallsLeft(x)
    <3>1. CallsLeft(tasks[t]) \in 0..(2 * MaxSteps) /\ CallsLeft(x) \in 0..(2 * MaxSteps)
      BY <1>1, <2>3, <2>4
    <3> QED
      BY <1>1, <2>2, <3>1, UnitsChange DEF PaidInv
  <2>6. Len(started') + Cardinality(Units') <= MaxSteps * (k + 1)
    BY <1>1, <1>3, <1>4, <2>3, <2>4, <2>5
  <2> QED
    BY <1>2, <2>5, <2>6 DEF PaidInv
<1> QED
  BY <1>5, <1>6

\* However often requests are answered again, and whatever copies of the run
\* tasks store over each other, the calls begun stay within a step budget for
\* each life of the process and two for each answer.
THEOREM CallsArePaidFor ==
  Spec => [](Len(started) <= MaxSteps * (1 + crashes + 2 * Len(answers)))
<1>1. Init => PaidInv
  <2> SUFFICES ASSUME Init PROVE PaidInv
    OBVIOUS
  <2>1. MaxSteps \in Nat
    BY BudgetAssumption
  <2>2. Units = {}
    <3>1. \A u \in Slots : CallsLeft(tasks[u]) = 0
      BY DEF Init, CallsLeft
    <3> QED
      BY <2>1, <3>1 DEF Units
  <2>3. IsFiniteSet(Units) /\ Cardinality(Units) = 0
    BY <2>2, FS_EmptySet
  <2>4. Len(started) = 0 /\ Lives + 2 * Len(answers) = 1
    BY DEF Init, Lives
  <2> QED
    BY <2>1, <2>3, <2>4 DEF PaidInv
<1>2. ServiceInv /\ PaidInv /\ [Next]_vars => PaidInv'
  <2> SUFFICES ASSUME ServiceInv, PaidInv, [Next]_vars PROVE PaidInv'
    OBVIOUS
  <2>1. CASE UNCHANGED vars
    BY <2>1 DEF vars, PaidInv, Units, CallsLeft, Lives
  <2> QED
    BY <2>1, PaidWork, PaidPostAnswer, PaidSubmit, PaidCrash, PaidRestart DEF Next
<1>3. ServiceInv /\ PaidInv => Len(started) <= MaxSteps * (1 + crashes + 2 * Len(answers))
  <2> SUFFICES ASSUME ServiceInv, PaidInv
               PROVE  Len(started) <= MaxSteps * (1 + crashes + 2 * Len(answers))
    OBVIOUS
  <2> DEFINE k == crashes + 2 * Len(answers)
  <2>1. Len(started) \in Nat /\ k \in Nat /\ MaxSteps \in Nat /\ Cardinality(Units) \in Nat
    BY BudgetAssumption, FS_CardinalityType DEF ServiceInv, Records, PaidInv
  <2>2. Lives + 2 * Len(answers) \in {k, k + 1}
    <3>1. crashes \in Nat /\ Len(answers) \in Nat
      BY DEF ServiceInv, Records
    <3> QED
      BY <3>1 DEF Lives
  <2>3. 1 + crashes + 2 * Len(answers) = k + 1
    BY <2>1 DEF ServiceInv, Records
  <2>4. MaxSteps * (k + 1) = MaxSteps * k + MaxSteps /\ MaxSteps * k \in Nat
    BY <2>1, Pays
  <2>5. Len(started) <= MaxSteps * (Lives + 2 * Len(answers))
    <3>1. MaxSteps * (Lives + 2 * Len(answers)) \in Nat
      BY <2>1, <2>2, <2>4
    <3> QED
      BY <2>1, <3>1 DEF PaidInv
  <2> HIDE DEF k
  <2> QED
    BY <2>1, <2>2, <2>3, <2>4, <2>5
<1> QED
  BY <1>1, <1>2, <1>3, ServiceInvariance, PTL DEF Spec
=============================================================================
