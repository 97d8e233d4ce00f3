----------------------------- MODULE RunService -----------------------------
(***************************************************************************)
(* One run across crashes: RunService (service.py) and the entry points of *)
(* SecMindOrchestrator it spawns as asyncio tasks, over two stores of the  *)
(* agent state.  The run row (ledger.py) survives a crash; the LangGraph   *)
(* checkpoint (InMemorySaver) does not.                                    *)
(*                                                                         *)
(* A task runs the graph on a state of its own: it loads one at its first  *)
(* step and does not look at the stores again, so two tasks of one run do  *)
(* not see each other.  A step of this module is what a task does between  *)
(* two awaits that suspend it; a tool call is two steps.  Any ready task   *)
(* may be the next to step.  Runs share nothing, so there is one.          *)
(*                                                                         *)
(* External: LangGraph keeps the state and the next node of the latest     *)
(* node of any task of the run, resumes there with the answer for the      *)
(* first node only, and raises when it has no checkpoint.                  *)
(***************************************************************************)
EXTENDS AgentNodes, FiniteSets

LOCAL INSTANCE SequencesExt

CONSTANTS
  Submissions,  \* tasks that may be submitted
  Slots,        \* 1..n: at most n asyncio tasks at a time
  MaxCrashes,   \* bound on process crashes
  MaxAnswers,   \* bound on accepted answers
  Repeats       \* may an operator answer a request again while it is shown?

ASSUME ServiceAssumption ==
  /\ Submissions \subseteq Scenarios
  /\ Slots \subseteq Nat /\ IsFiniteSet(Slots)
  /\ MaxCrashes \in Nat /\ MaxAnswers \in Nat /\ Repeats \in BOOLEAN
  /\ None \notin AgentState
  /\ None \notin [agent : AgentState, route : GraphNodes \cup {"end"}]

VARIABLES
  snap,     \* the run row: an agent state, None before submit
  cp,       \* LangGraph's checkpoint: [agent, route], None without one
  tasks,    \* the asyncio tasks: Free, or what the task is doing
  up,       \* the process runs
  crashes,  \* crashes so far
  answers,  \* the accepted answers: [request, step_id, decision, life, after]
  started,  \* the tool calls begun: [step_id, tool, inputs]
  lost,     \* a task died of an exception nobody handles
  eager     \* an answer arrived before the call that asked had returned

vars == <<snap, cp, tasks, up, crashes, answers, started, lost, eager>>

RecursionLimit == MaxSteps * 4

\* kind: the coroutine ("resumed": resume, its answer given to the graph); at:
\* "load" before its first step, a graph node, "call" inside a tool call,
\* "returned" from the graph; answer: what resume carries, to its end.
Free == [kind |-> "free"]
Task(kind, at, s, left, answer) ==
  [kind |-> kind, at |-> at, agent |-> s, left |-> left, answer |-> answer]

Resuming == {"resume", "resumed"}

Live == {t \in Slots : tasks[t] # Free}

\* _spawn: the task waits in the lowest free slot for its first step.
Spawn(task) ==
  LET free == {t \in Slots : tasks[t] = Free}
  IN  /\ free # {}
      /\ tasks' = [tasks EXCEPT ![CHOOSE t \in free : \A u \in free : t <= u] = task]

Init == /\ snap = None /\ cp = None /\ up = TRUE /\ crashes = 0
        /\ tasks = [t \in Slots |-> Free]
        /\ answers = <<>> /\ started = <<>> /\ lost = FALSE /\ eager = FALSE
-----------------------------------------------------------------------------
\* RunService.submit: the queued run is stored, then its start task spawned.
Submit(task) ==
  /\ up /\ snap = None
  /\ snap' = NewAgent(task)
  /\ Spawn(Task("start", "load", NewAgent(task), RecursionLimit, None))
  /\ UNCHANGED <<cp, up, crashes, answers, started, lost, eager>>

\* A request_id: each passing of the guardrail follows a counted step.
RequestOf(s) == s.steps_used

\* resolve_approval and submit_approval: the answer names a request and is
\* accepted while the run row shows it; a resume task takes it from there.
\* (life and after, for the properties: the process life it was given in and
\* the approvals recorded before it.)
PostAnswer(response) ==
  /\ up /\ snap # None /\ snap.pending_approval # None
  /\ Len(answers) < MaxAnswers
  /\ Repeats \/ \A a \in Elements(answers) : a.request # RequestOf(snap) \/ a.life # crashes
  /\ answers' = Append(answers, [request |-> RequestOf(snap),
                                 step_id |-> snap.pending_approval,
                                 decision |-> response.decision,
                                 life |-> crashes, after |-> Len(snap.approvals)])
  /\ Spawn(Task("resume", "load", snap, 0, response))
  /\ eager' = (eager \/ \E t \in Live : tasks[t].at # "load")
  /\ UNCHANGED <<snap, cp, up, crashes, started, lost>>

At(t, kind, at) == tasks[t] # Free /\ tasks[t].kind = kind /\ tasks[t].at = at

\* start: the fresh state is stored again and the graph called.
Start(t) ==
  /\ At(t, "start", "load")
  /\ snap' = tasks[t].agent
  /\ tasks' = [tasks EXCEPT ![t].at = "ingest"]
  /\ UNCHANGED <<cp, up, crashes, answers, started, lost, eager>>

\* A task whose exception reaches nobody.
Die(t) == /\ tasks' = [tasks EXCEPT ![t] = Free]
          /\ lost' = TRUE
          /\ UNCHANGED snap

\* Faulty: the replay forgets to record the answer.
ReplayUnrecorded(t, row, response) ==
  LET s == [Answered(row, response) EXCEPT !.approvals = row.approvals]
  IN  /\ snap' = s
      /\ tasks' = [tasks EXCEPT ![t] = Task("replay", "ingest", s, RecursionLimit, None)]
      /\ UNCHANGED lost

\* The answer applied to the stored row, and the graph called from its start.
Replay(t, row, response) ==
  LET s == Answered(row, response)
  IN  /\ snap' = s
      /\ tasks' = [tasks EXCEPT ![t] = Task("replay", "ingest", s, RecursionLimit, None)]
      /\ UNCHANGED lost

\* Faulty: _start swallows the exception.
FailedUnstored(t) ==
  /\ tasks' = [tasks EXCEPT ![t] = Free]
  /\ UNCHANGED <<snap, lost>>

\* An exception leaves the graph call: _start stores a failed run, resume
\* replays if the run row still shows a request, the others die.
Failed(t) ==
  CASE tasks[t].kind = "start" ->
         /\ snap' = [snap EXCEPT !.status = "failed", !.last_error = TRUE]
         /\ tasks' = [tasks EXCEPT ![t] = Free]
         /\ UNCHANGED lost
    [] tasks[t].kind \in Resuming ->
         IF snap.pending_approval # None THEN Replay(t, snap, tasks[t].answer) ELSE Die(t)
    [] OTHER -> Die(t)

\* resume: the graph call continues the checkpoint, or raises without one.
Resume(t) ==
  /\ At(t, "resume", "load")
  /\ IF cp = None THEN Failed(t)
     ELSE /\ tasks' = [tasks EXCEPT ![t].at = IF cp.route = "end" THEN "returned" ELSE cp.route,
                                  ![t].agent = cp.agent]
          /\ UNCHANGED <<snap, lost>>
  /\ UNCHANGED <<cp, up, crashes, answers, started, eager>>

\* Faulty: the run is started afresh instead of from its row.
RecoverAfresh(t) ==
  /\ At(t, "recover", "load")
  /\ tasks' = [tasks EXCEPT ![t] = Task("recover", "ingest", NewAgent(snap.task),
                                         RecursionLimit, None)]
  /\ UNCHANGED <<snap, cp, up, crashes, answers, started, lost, eager>>

\* Faulty: the run is given its budgets anew.
RecoverRebudgeted(t) ==
  /\ At(t, "recover", "load")
  /\ LET s == [snap EXCEPT !.steps_used = 0, !.tool_calls_used = 0]
     IN  tasks' = [tasks EXCEPT ![t] = Task("recover", "ingest", s, RecursionLimit, None)]
  /\ UNCHANGED <<snap, cp, up, crashes, answers, started, lost, eager>>

\* recover: a waiting run is left alone, any other is replayed from its row.
Recover(t) ==
  /\ At(t, "recover", "load")
  /\ tasks' = [tasks EXCEPT
       ![t] = IF snap.status = "waiting_approval" THEN Free
              ELSE Task("recover", "ingest", snap, RecursionLimit, None)]
  /\ UNCHANGED <<snap, cp, up, crashes, answers, started, lost, eager>>

\* A node's outcome: _checkpoint stores the state and LangGraph its own copy.
\* The graph call of resume is the one without a recursion limit.
Take(t, outcome) ==
  IF outcome.route = "raise" THEN Failed(t) /\ UNCHANGED cp
  ELSE /\ snap' = outcome.agent
       /\ cp' = IF outcome.route = "interrupt" THEN [agent |-> outcome.agent, route |-> "approval"]
                ELSE outcome
       /\ tasks' = [tasks EXCEPT
            ![t] = Task(IF @.kind = "resume" THEN "resumed" ELSE @.kind,
                        IF outcome.route \in {"interrupt", "end"} THEN "returned"
                        ELSE outcome.route,
                        outcome.agent,
                        IF @.kind \in Resuming THEN @.left ELSE @.left - 1,
                        @.answer)]
       /\ UNCHANGED lost

MayRun(t) == tasks[t] # Free /\ (tasks[t].kind \in Resuming \/ tasks[t].left > 0)

OneStepNodes == GraphNodes \ {"approval", "execute"}

RunNode(t) ==
  /\ MayRun(t) /\ tasks[t].at \in OneStepNodes
  /\ \E outcome \in Node(tasks[t].at, tasks[t].agent) : Take(t, outcome)
  /\ UNCHANGED <<up, crashes, answers, started, eager>>

\* The approval node stores its state before interrupt() returns or raises; the
\* answer is for the first node of the resumed call only.  If the node cannot
\* read the answer, resume replays the row that the node has just stored.
RunApproval(t) ==
  /\ MayRun(t) /\ tasks[t].at = "approval"
  /\ LET answer == IF tasks[t].kind = "resume" THEN tasks[t].answer ELSE None
     IN  \E outcome \in Approval(tasks[t].agent, answer) :
           IF outcome.route = "raise"
             THEN Replay(t, tasks[t].agent, answer) /\ UNCHANGED cp
             ELSE Take(t, outcome)
  /\ UNCHANGED <<up, crashes, answers, started, eager>>

BeginCall(t) ==
  /\ MayRun(t) /\ tasks[t].at = "execute" /\ ToolBudgetLeft(tasks[t].agent)
  /\ LET step == StepOf(tasks[t].agent)
     IN  started' = Append(started, [step_id |-> step.step_id, inputs |-> step.inputs,
                                     tool |-> step.tool_candidates[1]])
  /\ tasks' = [tasks EXCEPT ![t].at = "call"]
  /\ UNCHANGED <<snap, cp, up, crashes, answers, lost, eager>>

EndCall(t) ==
  /\ tasks[t] # Free /\ tasks[t].at = "call"
  /\ \E result \in ToolResults[StepOf(tasks[t].agent).tool_candidates[1]] :
       Take(t, ToolReturns(tasks[t].agent, result))
  /\ UNCHANGED <<up, crashes, answers, started, eager>>

NoCallLeft(t) ==
  /\ MayRun(t) /\ tasks[t].at = "execute" /\ ~ToolBudgetLeft(tasks[t].agent)
  /\ \E outcome \in Execute(tasks[t].agent) : Take(t, outcome)
  /\ UNCHANGED <<up, crashes, answers, started, eager>>

OutOfSteps(t) ==
  /\ tasks[t] # Free /\ tasks[t].at \in GraphNodes /\ ~MayRun(t)
  /\ Failed(t)
  /\ UNCHANGED <<cp, up, crashes, answers, started, eager>>

\* _invoke stores the state the graph returned once more; resume's own graph
\* call returns it to nobody.
Return(t) ==
  /\ tasks[t] # Free /\ tasks[t].at = "returned"
  /\ snap' = IF tasks[t].kind \in Resuming THEN snap ELSE tasks[t].agent
  /\ tasks' = [tasks EXCEPT ![t] = Free]
  /\ UNCHANGED <<cp, up, crashes, answers, started, lost, eager>>

\* A crash, or shutdown: a cancelled task stores nothing more.
Crash ==
  /\ up /\ crashes < MaxCrashes
  /\ up' = FALSE /\ crashes' = crashes + 1 /\ cp' = None
  /\ tasks' = [t \in Slots |-> Free]
  /\ UNCHANGED <<snap, answers, started, lost, eager>>

\* lifespan and recover_incomplete: before the API serves anything, a task is
\* spawned for each stored run that neither ended nor waits nor is queued.
Restart ==
  /\ ~up /\ up' = TRUE
  /\ IF snap # None /\ snap.status \notin Terminal \cup {"pending", "waiting_approval"}
       THEN Spawn(Task("recover", "load", snap, RecursionLimit, None))
       ELSE UNCHANGED tasks
  /\ UNCHANGED <<snap, cp, crashes, answers, started, lost, eager>>

Work(t) == \/ Start(t) \/ Resume(t) \/ Recover(t) \/ RunNode(t) \/ RunApproval(t)
           \/ BeginCall(t) \/ EndCall(t) \/ NoCallLeft(t) \/ OutOfSteps(t) \/ Return(t)

Next == \/ \E task \in Submissions : Submit(task)
        \/ \E response \in ApprovalResponse : PostAnswer(response)
        \/ \E t \in Slots : Work(t)
        \/ Crash
        \/ Restart

\* The event loop steps every ready task, a tool call ends (sandboxes and
\* subprocesses have timeouts), and a stopped service is started again.
Fairness == WF_vars(Restart) /\ \A t \in Slots : WF_vars(Work(t))

Spec == Init /\ [][Next]_vars /\ Fairness
-----------------------------------------------------------------------------
AnswerRecord == [request : Nat, step_id : StepIds, life : Nat, after : Nat,
                 decision : {"approve", "deny", "edit"}]

TypeOK ==
  /\ snap \in AgentState \cup {None}
  /\ cp = None \/ (cp.agent \in AgentState /\ cp.route \in GraphNodes \cup {"end"})
  /\ \A t \in Slots : tasks[t] = Free \/
       /\ tasks[t].kind \in {"start", "replay", "recover"} \cup Resuming
       /\ tasks[t].at \in GraphNodes \cup {"load", "call", "returned"}
       /\ tasks[t].agent \in AgentState /\ tasks[t].left \in 0..RecursionLimit
       /\ tasks[t].answer \in ApprovalResponse \cup {None}
  /\ {up, lost, eager} \subseteq BOOLEAN /\ crashes \in 0..MaxCrashes
  /\ answers \in Seq(AnswerRecord)
  /\ started \in Seq([step_id : StepIds, tool : Tools, inputs : Inputs])

\* The operator answered a request of the call's step with an approval.
Allowed(c) == \E a \in Elements(answers) :
  a.step_id = c.step_id /\ a.decision \in {"approve", "edit"}

\* No tool call begins unless the rules allow it for its parameters or the
\* operator approved its step in an answer the API accepted, whatever crashes
\* and replays lie between the answer and the call.
StartedAuthorized ==
  \A i \in DOMAIN started :
    /\ Risk[started[i].tool] # 3
    /\ Evaluate(started[i].tool, started[i].inputs) = "allow" \/ Allowed(started[i])

\* Crashes give no budget back: the tool calls begun over all lives of the run
\* stay within the step budget.  (The tool budget is not kept this way: the
\* count of a call that a crash cuts off was never stored.  An answer that
\* overtakes the call that asked makes two tasks work at the run.)
StartsBounded == eager \/ Len(started) <= MaxSteps

\* One accepted answer calls the approved tool once ("assert tool.calls == 1",
\* test_orchestrator.py:115): a run has one call in flight.
OneCallAtATime == Cardinality({t \in Live : tasks[t].at = "call"}) <= 1

\* A run whose row says it waits shows the request the API accepts an answer
\* by, so recovery may leave it alone.  A row shows a request otherwise only if
\* the first call met the recursion limit at the question: the run is stored as
\* failed, its request stays, and an answer starts the failed run again.
WaitingRowAsks ==
  snap # None =>
    /\ snap.status = "waiting_approval" => snap.pending_approval # None
    /\ snap.pending_approval # None => snap.status \in {"waiting_approval", "failed"}

RowStatus == IF snap = None THEN "none" ELSE snap.status
RowApprovals == IF snap = None THEN <<>> ELSE snap.approvals

\* A run stored as running gets to a question or an end, unless the process
\* stops or a task of it dies of an exception that resume and recover leave
\* unhandled (then the row says running until the next restart).
RunSettles == (up /\ RowStatus = "running") ~> (RowStatus # "running" \/ lost \/ ~up)

\* An accepted answer ("accepted": true) reaches the run row's approvals,
\* unless the process stops first: by the checkpoint or by the replay.
AnswersRecorded ==
  \A k \in 1..MaxAnswers :
    (Len(answers) = k /\ up /\ answers[k].life = crashes)
      ~> (~up \/ eager \/ (k \in DOMAIN answers /\ Len(RowApprovals) > answers[k].after))

\* The run row loses nothing, over all the tasks that write it: no step given
\* back, no approval withdrawn, no report replaced.  An answer that overtakes
\* the call that asked is the exception: that call stores the question again.
RowKeeps ==
  [][snap # None /\ ~eager' =>
       /\ snap'.steps_used >= snap.steps_used
       /\ IsPrefix(snap.approvals, snap'.approvals)
       /\ snap.report # None => snap'.report = snap.report]_vars

\* The process runs and no task of the run is left.
Idle == up /\ Live = {}

\* Over, with a report unless an exception ended it; or waiting for an answer.
Settled(s) == \/ s.status = "waiting_approval"
              \/ s.status = "failed"
              \/ s.status \in Terminal /\ s.report # None

\* A run nobody works on any more is over, with a report to fetch, or asks a
\* question.  A crash leaves two kinds behind that recovery does not take up
\* (service.py:113): a run that was still queued, and one whose row names its
\* end although the report node had not run yet.
IdleIsSettled ==
  Idle /\ ~lost /\ snap # None =>
    Settled(snap) \/ (crashes > 0 /\ snap.status \in Terminal \cup {"pending"})
=============================================================================
