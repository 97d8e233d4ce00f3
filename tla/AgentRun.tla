------------------------------ MODULE AgentRun ------------------------------
(***************************************************************************)
(* One run in one process that does not crash: the graph of                *)
(* SecMindOrchestrator walked node by node, interrupted for approvals and  *)
(* resumed by the operator's answer.                                       *)
(*                                                                         *)
(* "next" is the node the graph runs next, or "interrupt" (the run waits    *)
(* for an answer), "end" (the run is over) or "dead" (a call raised and    *)
(* nobody handled it).  The graph calls made by _invoke are given a        *)
(* recursion limit; the one that carries an answer runs with LangGraph's   *)
(* own default, which is not in this code and is taken as no limit.  An    *)
(* aborted call ends the run here; RunService has what may follow.         *)
(***************************************************************************)
EXTENDS AgentNodes, FiniteSets

VARIABLES agent,   \* the agent state of the latest checkpoint
          next,    \* see above
          call,    \* the graph call in progress: "start", "resume" or "replay"
          left     \* nodes a call with a recursion limit may still run

vars == <<agent, next, call, left>>

\* _invoke's "recursion_limit".
RecursionLimit == MaxSteps * 4

Init == /\ agent \in {NewAgent(task) : task \in Scenarios}
        /\ next = "ingest"
        /\ call = "start"
        /\ left = RecursionLimit

\* RunService._start turns an exception into a failed run; the calls made for
\* an answer have no handler, and a run that shows its request waits on.
Abort == /\ IF call = "start"
              THEN /\ agent' = [agent EXCEPT !.status = "failed", !.last_error = TRUE]
                   /\ next' = "end"
              ELSE /\ agent' = agent
                   /\ next' = IF agent.pending_approval # None THEN "interrupt" ELSE "dead"
         /\ UNCHANGED <<call, left>>

\* An outcome of a node: its state is checkpointed, or the call is aborted.
Take(outcome) ==
  IF outcome.route = "raise" THEN Abort
  ELSE /\ agent' = outcome.agent
       /\ next' = outcome.route
       /\ left' = IF call = "resume" THEN left ELSE left - 1
       /\ call' = call

Run(node) == /\ next = node
             /\ left > 0
             /\ \E outcome \in Node(node, agent) : Take(outcome)

RunIngest == Run("ingest")
RunClassify == Run("classify")
RunRetrieveContext == Run("retrieve_context")
RunPlan == Run("plan")
RunValidatePlan == Run("validate_plan")
RunSelectStep == Run("select_step")
RunGuardrail == Run("guardrail")
RunRecordDenial == Run("record_denial")
RunExecute == Run("execute")
RunObserve == Run("observe")
RunAnalyze == Run("analyze")
RunVerify == Run("verify")
RunReflect == Run("reflect")
RunReport == Run("report")
RunMemoryCommit == Run("memory_commit")

\* The approval node asks and ends the call.
AskApproval == /\ next = "approval"
               /\ left > 0
               /\ \E outcome \in Approval(agent, None) : Take(outcome)

\* LangGraph raises GraphRecursionError when the limit leaves nodes to run.
OutOfSteps == next \in GraphNodes /\ left = 0 /\ Abort

\* The operator's answer: a new graph call runs the approval node again, from
\* its first line, and now the interrupt returns the answer.  If the node cannot
\* read it, resume takes the exception for a lost checkpoint: it applies the
\* answer to the stored state itself and calls the graph from its start.
Answer(response) ==
  /\ next = "interrupt"
  /\ \E outcome \in Approval(agent, response) :
       IF outcome.route = "raise"
         THEN agent' = Answered(agent, response) /\ next' = "ingest" /\ call' = "replay"
         ELSE agent' = outcome.agent /\ next' = outcome.route /\ call' = "resume"
  /\ left' = RecursionLimit

Work == \/ RunIngest \/ RunClassify \/ RunRetrieveContext \/ RunPlan \/ RunValidatePlan
        \/ RunSelectStep \/ RunGuardrail \/ AskApproval \/ RunRecordDenial \/ RunExecute
        \/ RunObserve \/ RunAnalyze \/ RunVerify \/ RunReflect \/ RunReport
        \/ RunMemoryCommit \/ OutOfSteps

Next == Work \/ \E response \in ApprovalResponse : Answer(response)

\* The event loop runs a ready coroutine; nothing makes an operator answer.
Fairness == WF_vars(Work)

Spec == Init /\ [][Next]_vars /\ Fairness
-----------------------------------------------------------------------------
TypeOK == /\ agent \in AgentState
          /\ next \in GraphNodes \cup {"interrupt", "end", "dead"}
          /\ call \in {"start", "resume", "replay"}
          /\ left \in 0..RecursionLimit

\* Every tool call was allowed by the rules for the parameters it ran with, or
\* the operator approved its step; a risk-3 tool never runs.  The rules are
\* evaluated before the question is put and the answer may change the
\* parameters; a retry passes the rules again but not the operator.
CallsAuthorized == \A o \in Elements(agent.observations) : Authorized(agent, o)

\* The budgets bound what really ran: each stored result is a counted call,
\* each call follows a counted step, and neither count passes its limit.
BudgetsBound ==
  /\ Len(agent.observations) = agent.tool_calls_used
  /\ agent.tool_calls_used <= agent.steps_used
  /\ agent.steps_used <= MaxSteps
  /\ agent.tool_calls_used <= MaxToolCalls

CallsOf(id) == {i \in DOMAIN agent.observations : agent.observations[i].step_id = id}

\* A step's tool is called at most max_attempts times, counted over the
\* stored results and not by the retry counter verify and reflect share.
AttemptsBound ==
  \A i \in DOMAIN agent.plan :
    Cardinality(CallsOf(agent.plan[i].step_id)) <= agent.plan[i].max_attempts

\* Steps run in plan order: before a step's tool is called, every earlier step
\* of the plan had a successful call.
StepsInOrder ==
  \A i \in DOMAIN agent.observations, k \in DOMAIN agent.plan :
    agent.plan[k].step_id = agent.observations[i].step_id =>
      \A earlier \in 1..(k - 1) : \E j \in 1..(i - 1) :
        /\ agent.observations[j].step_id = agent.plan[earlier].step_id
        /\ agent.observations[j].result.status = "success"

\* A result's findings and evidence enter the report once, unless the tool
\* budget ran out: then execute falls through to analyze without a new result.
AnalyzedOnce ==
  agent.tool_calls_used < MaxToolCalls =>
    \A i, j \in DOMAIN agent.analyzed : agent.analyzed[i] = agent.analyzed[j] => i = j

\* The run shows the operator a question exactly while it waits for one: the
\* API's check (a pending request), the status recovery looks at and the
\* graph's interrupt agree.  Over, a run waits for nobody.
WaitingIsAsking ==
  LET waits == agent.status = "waiting_approval"
  IN  IF next \in {"end", "dead"} THEN ~waits
      ELSE /\ next \in Asking <=> agent.pending_approval # None
           /\ next \in Asking <=> waits

\* A run that ended by itself carries a report, and the report has the run's
\* final status; only an exception in the first call ends a run without one.
EndIsReported ==
  next = "end" => \/ agent.report = agent.status /\ agent.status \in Terminal
                  \/ call = "start" /\ agent.status = "failed"

\* The inductive invariant: at each node the state that node relies on.
IInv == /\ next \in GraphNodes \cup {"interrupt", "end", "dead"}
        /\ call \in {"start", "resume", "replay"}
        /\ left \in 0..RecursionLimit
        /\ call = "resume" => left = RecursionLimit
        /\ IF next \in {"end", "dead"}
             THEN StateInv(agent) /\ agent.status # "waiting_approval"
             ELSE NodeInv(next, agent)

\* What an observer of the run sees of it.
Phase == CASE next = "interrupt" -> "waiting"
           [] next \in {"end", "dead"} -> "closed"
           [] OTHER -> "working"

Calls == Len(agent.observations)

Refused == \E a \in Elements(agent.approvals) : a.decision = "deny"

Verdict == CASE next = "end" -> agent.status
             [] next = "dead" -> "lost"
             [] OTHER -> "open"

Lifecycle == INSTANCE RunLifecycle WITH
  MaxCalls <- MaxToolCalls, phase <- Phase, calls <- Calls,
  refused <- Refused, verdict <- Verdict

\* The graph keeps the promise of RunLifecycle: whatever its nodes do to the
\* state, a denied run calls no tool, a completed one called some, and a
\* working run asks or closes.
KeepsLifecycle == Lifecycle!Spec

\* "Only verified completed runs may enter long-term memory"
\* (orchestrator.py:579): a run memory_commit accepts ran every step of its
\* plan and its last verification left no error.
AcceptedIsVerified ==
  next = "end" /\ Accepted(agent) =>
    agent.current_step_index = Len(agent.plan) /\ ~agent.last_error
=============================================================================
