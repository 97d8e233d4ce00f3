----------------------------- MODULE AgentNodes -----------------------------
(***************************************************************************)
(* The nodes of the agent graph (SecMindOrchestrator in orchestrator.py    *)
(* and the agents it calls) as operators on one agent state.               *)
(*                                                                         *)
(* A node takes the agent state and yields the set of its outcomes; an     *)
(* outcome is the agent state the node checkpoints and the node the graph  *)
(* runs next.  The route "raise" stands for an exception leaving the node: *)
(* nothing was checkpointed and the graph call fails.                      *)
(*                                                                         *)
(* Kept: every field of AgentState that a guard, a route or a report       *)
(* reads.  Abstracted: texts, timestamps, decision records, knowledge hits *)
(* (no guard reads them); a task is the scenario its text and files imply; *)
(* a list of findings is the class the verifier tells apart.               *)
(***************************************************************************)
EXTENDS Integers, Sequences

CONSTANTS
  None,          \* Python's None
  StepIds,       \* identifiers a plan may give its steps
  ToolNames,     \* tool names a plan may mention
  Tools,         \* names in the tool registry
  Risk,          \* manifest risk level of each registered tool, 0..3
  ToolResults,   \* results each registered tool can return (Raise: it raises)
  Inputs,        \* parameter dictionaries a step may carry
  BlockedInputs, \* those whose text holds one of Guardrail.BLOCKED_TERMS
  Policy,        \* the task's autonomy_policy
  MaxSteps,      \* settings.max_steps
  MaxToolCalls,  \* settings.max_tool_calls
  DemoMode,      \* settings.demo_mode: plan without a model
  DefaultPlan,   \* PlannerAgent._create_default_plan, <<>> where it is None
  ModelPlans     \* plans a model may answer with (schema-valid, else unknown)

Scenarios == {"code_audit", "log_analysis", "incident_response",
              "penetration_test", "unknown"}

RunStatus == {"pending", "running", "waiting_approval",
              "completed", "partial", "denied", "failed"}

\* The statuses LedgerStore.incomplete_run_ids regards as terminal.
Terminal == {"completed", "partial", "denied", "failed"}

PlanStep == [step_id : StepIds, tool_candidates : Seq(ToolNames),
             dependencies : SUBSET StepIds, inputs : Inputs, max_attempts : 1..5]

\* What the verifier can tell of a result's findings: each cites captured
\* evidence, some cites none, or one does not even validate as a Finding.
FindingsClass == {"cited", "uncited", "malformed"}

ToolResult == [status : {"success", "error", "timeout", "denied"},
               findings : FindingsClass]

Raise == [status |-> "raise", findings |-> "cited"]

\* A stored observation; step, tool and inputs of the call are kept with it.
Observation == [step_id : StepIds, tool : Tools, inputs : Inputs, result : ToolResult]

\* Parameters may come with any decision; they are read for an edit only.
ApprovalResponse ==
  {r \in [decision : {"approve", "deny", "edit"}, edited_parameters : Inputs \cup {None}] :
     r.edited_parameters # None => r.decision = "edit"}

AgentState ==
  [task : Scenarios, scenario : Scenarios, status : RunStatus,
   workspace : BOOLEAN,                 \* set: the inputs were ingested
   plan : Seq(PlanStep), current_step_index : Nat,
   steps_used : Nat, tool_calls_used : Nat, retry_counts : [StepIds -> Nat],
   approvals : Seq([step_id : StepIds, decision : {"approve", "deny", "edit"}]),
   pending_approval : StepIds \cup {None},
   observations : Seq(Observation),
   analyzed : Seq(Nat),   \* the observations whose findings and evidence were added
   last_error : BOOLEAN, report : RunStatus \cup {None}]

ASSUME BudgetAssumption == MaxSteps \in 1..100 /\ MaxToolCalls \in 1..100
ASSUME ToolAssumption ==
  /\ Tools \subseteq ToolNames
  /\ Risk \in [Tools -> 0..3]
  /\ ToolResults \in [Tools -> SUBSET (ToolResult \cup {Raise})]
ASSUME PlanAssumption ==
  /\ DefaultPlan \in [Scenarios -> Seq(PlanStep)]
  /\ ModelPlans \subseteq Seq(PlanStep)
  /\ DemoMode \in BOOLEAN
ASSUME NoneAssumption ==
  None \notin StepIds \cup Inputs \cup RunStatus \cup ApprovalResponse
ASSUME PolicyAssumption ==
  /\ Policy \in {"graded", "approval_all", "automatic"}
  /\ BlockedInputs \subseteq Inputs

\* AgentState(run_id=..., task=..., budget=...) with the schema's defaults.
NewAgent(task) ==
  [task |-> task, scenario |-> "unknown", status |-> "pending", workspace |-> FALSE,
   plan |-> <<>>, current_step_index |-> 0, steps_used |-> 0, tool_calls_used |-> 0,
   retry_counts |-> [i \in StepIds |-> 0], approvals |-> <<>>, pending_approval |-> None,
   observations |-> <<>>, analyzed |-> <<>>, last_error |-> FALSE, report |-> None]
-----------------------------------------------------------------------------
Go(s, node) == [agent |-> s, route |-> node]

Elements(seq) == {seq[i] : i \in DOMAIN seq}

StepOf(s) == s.plan[s.current_step_index + 1]

Latest(s) == s.observations[Len(s.observations)]

\* Guardrail.evaluate: the rules in their order.
Evaluate(tool, inputs) ==
  IF Risk[tool] = 3 \/ inputs \in BlockedInputs THEN "deny"
  ELSE IF Policy = "approval_all" \/ Risk[tool] = 2 THEN "require_approval"
  ELSE "allow"

\* Faulty: any answer to the step counts.
ApprovedByAnyAnswer(s, id) == \E a \in Elements(s.approvals) : a.step_id = id

\* The operator approved the step, as planned or with edited parameters.
Approved(s, id) ==
  \E a \in Elements(s.approvals) : a.step_id = id /\ a.decision \in {"approve", "edit"}

\* After an IngestError the run skips its plan; any other exception (a broken
\* archive) leaves the node.
Ingest(s) ==
  LET running == [s EXCEPT !.status = "running"]
  IN  IF s.workspace THEN {Go(running, "classify")}
      ELSE {Go([running EXCEPT !.workspace = TRUE], "classify"),
            Go([running EXCEPT !.status = "failed", !.last_error = TRUE], "classify"),
            Go(s, "raise")}

Classify(s) == {Go([s EXCEPT !.scenario = s.task], "retrieve_context")}

\* The knowledge hits decorate findings and the report: no guard reads them.
RetrieveContext(s) == {Go(s, "plan")}

\* PlannerAgent.run: no default plan, no plan; a model answers with a plan of
\* its own or degrades to the default one and leaves last_error set.
PlannerRun(s) ==
  LET default == DefaultPlan[s.scenario]
  IN  IF default = <<>> THEN {s}
      ELSE IF DemoMode THEN {[s EXCEPT !.plan = default]}
      ELSE {[s EXCEPT !.plan = p] : p \in ModelPlans}
             \cup {[s EXCEPT !.plan = default, !.last_error = TRUE]}

Plan(s) ==
  {Go(t, "validate_plan") : t \in IF s.plan = <<>> THEN PlannerRun(s) ELSE {s}}

ValidPlan(plan) ==
  LET ids == {step.step_id : step \in Elements(plan)}
  IN  /\ \A i, j \in DOMAIN plan : plan[i].step_id = plan[j].step_id => i = j
      /\ Len(plan) <= MaxSteps
      /\ \A step \in Elements(plan) :
           step.dependencies \subseteq ids /\ Elements(step.tool_candidates) \subseteq Tools

ValidatePlan(s) ==
  IF s.status = "failed" THEN {Go(s, "report")}
  ELSE IF ~ValidPlan(s.plan)
    THEN {Go([s EXCEPT !.status = "failed", !.last_error = TRUE], "report")}
  ELSE {Go(s, IF s.plan = <<>> THEN "report" ELSE "select_step")}

SelectStep(s) ==
  IF s.current_step_index >= Len(s.plan) THEN {Go(s, "report")}
  ELSE IF s.steps_used >= MaxSteps
    THEN {Go([s EXCEPT !.status = "partial", !.last_error = TRUE], "report")}
  ELSE {Go([s EXCEPT !.steps_used = @ + 1], "guardrail")}

\* Faulty: only denials stop a step.
GuardrailNeverAsks(s) ==
  IF StepOf(s).tool_candidates = <<>>
    THEN {Go([s EXCEPT !.status = "failed", !.last_error = TRUE], "record_denial")}
  ELSE IF Evaluate(StepOf(s).tool_candidates[1], StepOf(s).inputs) = "deny"
    THEN {Go([s EXCEPT !.status = "denied"], "record_denial")}
  ELSE {Go(s, "execute")}

Guardrail(s) ==
  LET step == StepOf(s)
      action == Evaluate(step.tool_candidates[1], step.inputs)
  IN  IF step.tool_candidates = <<>>
        THEN {Go([s EXCEPT !.status = "failed", !.last_error = TRUE], "record_denial")}
      ELSE IF action = "deny" THEN {Go([s EXCEPT !.status = "denied"], "record_denial")}
      ELSE IF action = "require_approval" /\ ~Approved(s, step.step_id)
        THEN {Go([s EXCEPT !.status = "waiting_approval", !.pending_approval = step.step_id],
                 "approval")}
      ELSE {Go(s, "execute")}

\* Faulty: the request is still shown after its answer; it is cleared before
\* its step is noted.
AnsweredStillPending(s, answer) ==
  [s EXCEPT
    !.approvals = Append(@, [step_id |-> s.pending_approval, decision |-> answer.decision]),
    !.status = IF answer.decision = "deny" THEN "denied" ELSE "running"]
AnsweredClearedFirst(s, answer) ==
  [s EXCEPT
    !.approvals = Append(@, [step_id |-> None, decision |-> answer.decision]),
    !.pending_approval = None,
    !.status = IF answer.decision = "deny" THEN "denied" ELSE "running"]

\* What an answer does to a state: the approval record, the edited inputs.  An
\* edit without parameters changes nothing and is recorded as an edit, which the
\* guardrail takes for an approval; only a replay gets here with one.
Answered(s, answer) ==
  LET i == s.current_step_index + 1
      edits == answer.decision = "edit" /\ answer.edited_parameters # None
  IN  [s EXCEPT
        !.approvals = Append(@, [step_id |-> s.pending_approval, decision |-> answer.decision]),
        !.pending_approval = None,
        !.plan = IF edits THEN [@ EXCEPT ![i].inputs = answer.edited_parameters] ELSE @,
        !.status = IF answer.decision = "deny" THEN "denied" ELSE "running"]

\* The schema's validator runs on parameters that are given: the API accepts an
\* edit that leaves them out, and resume passes it on with an explicit None.
Unvalidated(answer) == answer.decision = "edit" /\ answer.edited_parameters = None

\* The approval node: None as the answer is the interrupt() that ends the call,
\* and the node validates the answer it gets.
Approval(s, answer) ==
  IF s.pending_approval = None
    THEN {Go([s EXCEPT !.status = "failed", !.last_error = TRUE], "record_denial")}
  ELSE IF answer = None THEN {Go(s, "interrupt")}
  ELSE IF Unvalidated(answer) THEN {Go(s, "raise")}
  ELSE {Go(Answered(s, answer), IF answer.decision = "deny" THEN "record_denial" ELSE "execute")}

RecordDenial(s) ==
  {Go([s EXCEPT !.status = IF @ = "failed" THEN @ ELSE "denied"], "report")}

\* Faulty: off by one.
ToolBudgetLeftLate(s) == s.tool_calls_used <= MaxToolCalls

\* Execute up to the tool call: the call is counted in the node's own state.
ToolBudgetLeft(s) == s.tool_calls_used < MaxToolCalls

\* Execute after the tool call: its result is stored, or its exception leaves.
ToolReturns(s, result) ==
  LET step == StepOf(s)
      o == [step_id |-> step.step_id, tool |-> step.tool_candidates[1],
            inputs |-> step.inputs, result |-> result]
  IN  IF result = Raise THEN Go(s, "raise")
      ELSE Go([s EXCEPT !.tool_calls_used = @ + 1, !.observations = Append(@, o)], "observe")

Execute(s) ==
  IF ~ToolBudgetLeft(s)
    THEN {Go([s EXCEPT !.status = "partial", !.last_error = TRUE], "observe")}
    ELSE {ToolReturns(s, r) : r \in ToolResults[StepOf(s).tool_candidates[1]]}

\* observations[-1] of an empty list raises.
Observe(s) == {Go(s, IF s.observations = <<>> THEN "raise" ELSE "analyze")}

\* AnalystAgent.run: the latest result's findings and evidence are added.
Analyze(s) ==
  IF s.observations = <<>> \/ Latest(s).result.status # "success" THEN {Go(s, "verify")}
  ELSE IF Latest(s).result.findings = "malformed" THEN {Go(s, "raise")}
  ELSE {Go([s EXCEPT !.analyzed = Append(@, Len(s.observations))], "verify")}

\* VerifierAgent.run: every finding gathered so far must cite evidence.
VerifierRejects(s) ==
  \E i \in Elements(s.analyzed) : s.observations[i].result.findings = "uncited"

\* Faulty: a failed step is passed over as a successful one.
VerifyPassesAll(s) ==
  LET next == s.current_step_index + 1
  IN  {Go([s EXCEPT !.current_step_index = next],
          IF next < Len(s.plan) THEN "select_step" ELSE "report")}

Verify(s) ==
  LET v == [s EXCEPT !.last_error = @ \/ VerifierRejects(s)]
      step == StepOf(s)
      next == s.current_step_index + 1
  IN  IF Latest(s).result.status = "success" /\ ~v.last_error
        THEN {Go([v EXCEPT !.current_step_index = next],
                 IF next < Len(s.plan) THEN "select_step" ELSE "report")}
      ELSE IF s.retry_counts[step.step_id] + 1 < step.max_attempts /\ s.steps_used < MaxSteps
        THEN {Go(v, "reflect")}
      ELSE {Go([v EXCEPT !.status = "partial"], "report")}

\* Faulty: the retry is not counted; the old result is analysed once more.
ReflectUncounted(s) == {Go([s EXCEPT !.last_error = FALSE], "select_step")}
ReflectReanalyzes(s) ==
  {Go([s EXCEPT !.retry_counts[StepOf(s).step_id] = @ + 1, !.last_error = FALSE], "analyze")}

Reflect(s) ==
  {Go([s EXCEPT !.retry_counts[StepOf(s).step_id] = @ + 1, !.last_error = FALSE],
      "select_step")}

\* Faulty: a success outweighs a denial.
FinalStatusBySuccess(s) ==
  IF s.scenario = "code_audit" /\ \E o \in Elements(s.observations) : o.result.status = "success"
    THEN "completed"
  ELSE IF s.status \in {"denied", "failed"} THEN s.status ELSE "partial"

\* ReporterAgent.run: the status the report carries and the run ends with.
FinalStatus(s) ==
  IF s.status \in {"denied", "failed"} THEN s.status
  ELSE IF /\ s.scenario = "code_audit"
          /\ \E o \in Elements(s.observations) : o.result.status = "success"
    THEN "completed"
  ELSE "partial"

\* Faulty: the run keeps the status it came with.
ReportLeavesStatus(s) == {Go([s EXCEPT !.report = FinalStatus(s)], "memory_commit")}

Report(s) ==
  {Go([s EXCEPT !.status = FinalStatus(s), !.report = FinalStatus(s)], "memory_commit")}

MemoryCommit(s) == {Go(s, "end")}

\* memory_commit's verdict: the run may enter long-term memory.
Accepted(s) == s.status = "completed" /\ s.report # None

GraphNodes == {"ingest", "classify", "retrieve_context", "plan", "validate_plan",
               "select_step", "guardrail", "approval", "record_denial", "execute",
               "observe", "analyze", "verify", "reflect", "report", "memory_commit"}

\* The graph's nodes that take the agent state alone.
Node(n, s) ==
  CASE n = "ingest" -> Ingest(s)
    [] n = "classify" -> Classify(s)
    [] n = "retrieve_context" -> RetrieveContext(s)
    [] n = "plan" -> Plan(s)
    [] n = "validate_plan" -> ValidatePlan(s)
    [] n = "select_step" -> SelectStep(s)
    [] n = "guardrail" -> Guardrail(s)
    [] n = "record_denial" -> RecordDenial(s)
    [] n = "execute" -> Execute(s)
    [] n = "observe" -> Observe(s)
    [] n = "analyze" -> Analyze(s)
    [] n = "verify" -> Verify(s)
    [] n = "reflect" -> Reflect(s)
    [] n = "report" -> Report(s)
    [] n = "memory_commit" -> MemoryCommit(s)
-----------------------------------------------------------------------------
(***************************************************************************)
(* What the graph owes every node: the part of the state each node relies  *)
(* on without checking it.  The proofs show that every node passes on to   *)
(* its successor what the successor relies on.                             *)
(***************************************************************************)

\* A call was allowed by the rules or its step was approved; never at risk 3.
Authorized(s, o) ==
  /\ Risk[o.tool] # 3
  /\ Evaluate(o.tool, o.inputs) = "allow" \/ Approved(s, o.step_id)

StateInv(s) ==
  /\ s \in AgentState
  /\ s.current_step_index <= Len(s.plan)
  /\ Len(s.observations) = s.tool_calls_used
  /\ s.tool_calls_used <= s.steps_used
  /\ s.steps_used <= MaxSteps
  /\ s.tool_calls_used <= MaxToolCalls
  /\ \A o \in Elements(s.observations) : Authorized(s, o)

\* The nodes before and after the tool call of a step, and those that ask.
Asking == {"approval", "interrupt"}
BeforeCall == {"guardrail", "execute"} \cup Asking
AfterCall == {"observe", "analyze", "verify", "reflect"}

NodeInv(n, s) ==
  /\ StateInv(s)
  /\ n \in Asking <=> s.pending_approval # None
  /\ n \in Asking <=> s.status = "waiting_approval"
  /\ n \in {"select_step"} \cup BeforeCall \cup AfterCall =>
       \A i \in DOMAIN s.plan : Elements(s.plan[i].tool_candidates) \subseteq Tools
  /\ n \in BeforeCall \cup AfterCall => s.current_step_index < Len(s.plan)
  /\ n \in BeforeCall => s.tool_calls_used < s.steps_used
  /\ n \in BeforeCall \ {"guardrail"} =>
       /\ StepOf(s).tool_candidates # <<>>
       /\ Risk[StepOf(s).tool_candidates[1]] # 3
  /\ n \in Asking => s.pending_approval = StepOf(s).step_id
  /\ n = "execute" =>
       \/ Evaluate(StepOf(s).tool_candidates[1], StepOf(s).inputs) = "allow"
       \/ Approved(s, StepOf(s).step_id)
  /\ n \in AfterCall => s.observations # <<>>
=============================================================================
