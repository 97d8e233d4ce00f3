-------------------------- MODULE AgentNodesProofs --------------------------
(***************************************************************************)
(* Every node of the agent graph passes on to its successor the state that *)
(* successor relies on: NodeInv(n, s) and an outcome of node n give        *)
(* NodeInv(outcome.route, outcome.agent).  One lemma per node; they are    *)
(* about the nodes alone, so every module that runs the graph can use them.*)
(* At the end: what a node may do to single fields, and general facts.     *)
(***************************************************************************)
EXTENDS AgentNodes, TLAPS, FiniteSetTheorems, WellFoundedInduction

\* A state with the same calls, no step budget given back and no approval
\* withdrawn keeps what StateInv says.
LEMMA Frame ==
  ASSUME NEW s, StateInv(s), NEW t \in AgentState,
         t.observations = s.observations,
         t.tool_calls_used = s.tool_calls_used,
         s.steps_used <= t.steps_used, t.steps_used <= MaxSteps,
         t.current_step_index <= Len(t.plan),
         Elements(s.approvals) \subseteq Elements(t.approvals)
  PROVE  StateInv(t)
<1>1. \A o \in Elements(s.observations) : Authorized(t, o)
  BY DEF StateInv, Authorized, Approved
<1>2. t.tool_calls_used <= t.steps_used
  BY BudgetAssumption DEF StateInv, AgentState
<1> QED
  BY <1>1, <1>2 DEF StateInv

\* The common case: the budgets and the approvals are those of before.
LEMMA SameFrame ==
  ASSUME NEW s, StateInv(s), NEW t \in AgentState,
         t.observations = s.observations,
         t.tool_calls_used = s.tool_calls_used,
         t.steps_used = s.steps_used,
         t.approvals = s.approvals,
         t.current_step_index <= Len(t.plan)
  PROVE  StateInv(t)
<1>1. s.steps_used \in Nat /\ s.steps_used <= MaxSteps
  BY DEF StateInv, AgentState
<1>2. s.steps_used <= t.steps_used /\ t.steps_used <= MaxSteps
  BY <1>1, BudgetAssumption
<1> QED
  BY <1>2, Frame

\* What ingest changes of the state, if it returns.
LEMMA IngestReads ==
  ASSUME NEW s \in AgentState, NEW o \in Ingest(s), o # Go(s, "raise")
  PROVE  \E w \in BOOLEAN, e \in BOOLEAN, st \in {"running", "failed"} :
           o = Go([s EXCEPT !.workspace = w, !.last_error = e, !.status = st], "classify")
<1> DEFINE t(w, e, st) == [s EXCEPT !.workspace = w, !.last_error = e, !.status = st]
<1>1. s.workspace \in BOOLEAN /\ s.last_error \in BOOLEAN
  BY DEF AgentState
<1>2. CASE s.workspace
  <2>1. [s EXCEPT !.status = "running"] = t(s.workspace, s.last_error, "running")
    BY DEF AgentState
  <2> QED
    BY <1>1, <1>2, <2>1 DEF Ingest
<1>3. CASE ~s.workspace
  <2> DEFINE running == [s EXCEPT !.status = "running"]
  <2>1. [running EXCEPT !.workspace = TRUE] = t(TRUE, s.last_error, "running")
    BY DEF AgentState
  <2>2. [running EXCEPT !.status = "failed", !.last_error = TRUE]
          = t(s.workspace, TRUE, "failed")
    BY DEF AgentState
  <2>3. \/ o = Go(t(TRUE, s.last_error, "running"), "classify")
        \/ o = Go(t(s.workspace, TRUE, "failed"), "classify")
    BY <1>3, <2>1, <2>2 DEF Ingest
  <2> HIDE DEF t
  <2>4. \E w \in BOOLEAN, e \in BOOLEAN, st \in {"running", "failed"} :
          o = Go(t(w, e, st), "classify")
    BY <1>1, <2>3
  <2> QED
    BY <2>4 DEF t
<1> QED
  BY <1>2, <1>3

\* The nodes before a plan exists pass the state on with a status, a task's
\* scenario or a workspace changed.
LEMMA IngestPasses ==
  ASSUME NEW s, NodeInv("ingest", s), NEW o \in Ingest(s)
  PROVE  NodeInv(o.route, o.agent)
<1>1. s \in AgentState /\ StateInv(s) /\ s.pending_approval = None
  BY DEF NodeInv, StateInv, Asking
<1>2. CASE o = Go(s, "raise")
  BY <1>2 DEF NodeInv, Asking, BeforeCall, AfterCall, Go
<1>3. CASE o # Go(s, "raise")
  <2>1. PICK w \in BOOLEAN, e \in BOOLEAN, st \in {"running", "failed"} :
          o = Go([s EXCEPT !.workspace = w, !.last_error = e, !.status = st], "classify")
    BY <1>1, <1>3, IngestReads
  <2> DEFINE t == [s EXCEPT !.workspace = w, !.last_error = e, !.status = st]
  <2>2. t \in AgentState
    <3>1. w \in BOOLEAN /\ e \in BOOLEAN /\ st \in RunStatus
      BY DEF RunStatus
    <3> QED
      BY <1>1, <3>1 DEF AgentState
  <2>3. /\ t.current_step_index = s.current_step_index /\ t.plan = s.plan
        /\ t.observations = s.observations /\ t.tool_calls_used = s.tool_calls_used
        /\ t.steps_used = s.steps_used /\ t.approvals = s.approvals
        /\ t.pending_approval = s.pending_approval /\ t.status = st
    BY <1>1 DEF AgentState
  <2>4. o.route = "classify" /\ o.agent = t
    BY <2>1 DEF Go
  <2> HIDE DEF t
  <2>5. StateInv(t)
    BY <1>1, <2>2, <2>3, SameFrame DEF StateInv
  <2> QED
    BY <1>1, <2>3, <2>4, <2>5 DEF NodeInv, Asking, BeforeCall, AfterCall
<1> QED
  BY <1>2, <1>3

\* Classification changes the scenario alone.
LEMMA ClassifyPasses ==
  ASSUME NEW s, NodeInv("classify", s), NEW o \in Classify(s)
  PROVE  NodeInv(o.route, o.agent)
<1> DEFINE t == [s EXCEPT !.scenario = s.task]
<1>1. s \in AgentState /\ StateInv(s)
  BY DEF NodeInv, StateInv
<1>2. t \in AgentState
  BY <1>1 DEF AgentState
<1>3. /\ t.current_step_index = s.current_step_index /\ t.plan = s.plan
      /\ t.observations = s.observations /\ t.tool_calls_used = s.tool_calls_used
      /\ t.steps_used = s.steps_used /\ t.approvals = s.approvals
      /\ t.pending_approval = s.pending_approval /\ t.status = s.status
  BY <1>1 DEF AgentState
<1>4. o.route = "retrieve_context" /\ o.agent = t
  BY DEF Classify, Go
<1> HIDE DEF t
<1>5. StateInv(t)
  BY <1>1, <1>2, <1>3, SameFrame DEF StateInv
<1> QED
  BY <1>3, <1>4, <1>5 DEF NodeInv, Asking, BeforeCall, AfterCall

\* Retrieval changes nothing a later node relies on.
LEMMA RetrieveContextPasses ==
  ASSUME NEW s, NodeInv("retrieve_context", s), NEW o \in RetrieveContext(s)
  PROVE  NodeInv(o.route, o.agent)
<1>1. o.route = "plan" /\ o.agent = s
  BY DEF RetrieveContext, Go
<1> QED
  BY <1>1 DEF NodeInv, Asking, BeforeCall, AfterCall

\* A plan is only made where there is none, and then no step was done yet.
LEMMA PlanPasses ==
  ASSUME NEW s, NodeInv("plan", s), NEW o \in Plan(s)
  PROVE  NodeInv(o.route, o.agent)
<1>1. s \in AgentState /\ StateInv(s)
  BY DEF NodeInv, StateInv
<1>2. PICK t \in IF s.plan = <<>> THEN PlannerRun(s) ELSE {s} : o = Go(t, "validate_plan")
  BY DEF Plan
<1>3. CASE t = s
  <2>1. o.route = "validate_plan" /\ o.agent = s
    BY <1>2, <1>3 DEF Go
  <2> QED
    BY <2>1 DEF NodeInv, Asking, BeforeCall, AfterCall
<1>4. CASE t # s
  <2>1. PICK p \in Seq(PlanStep), e \in BOOLEAN :
          s.plan = <<>> /\ t = [s EXCEPT !.plan = p, !.last_error = e]
    <3>1. s.plan = <<>> /\ t \in PlannerRun(s)
      BY <1>2, <1>4
    <3>2. DefaultPlan[s.scenario] \in Seq(PlanStep)
      BY <1>1, PlanAssumption DEF AgentState
    <3>3. CASE t = [s EXCEPT !.plan = DefaultPlan[s.scenario]]
      BY <1>1, <3>1, <3>2, <3>3 DEF AgentState
    <3>4. CASE t = [s EXCEPT !.plan = DefaultPlan[s.scenario], !.last_error = TRUE]
      BY <1>1, <3>1, <3>2, <3>4 DEF AgentState
    <3>5. CASE \E p \in ModelPlans : t = [s EXCEPT !.plan = p]
      <4>1. PICK p \in ModelPlans : t = [s EXCEPT !.plan = p]
        BY <3>5
      <4>2. p \in Seq(PlanStep) /\ s.last_error \in BOOLEAN
        BY <1>1, PlanAssumption DEF AgentState
      <4>3. t = [s EXCEPT !.plan = p, !.last_error = s.last_error]
        BY <1>1, <4>1 DEF AgentState
      <4> QED
        BY <3>1, <4>2, <4>3
    <3> QED
      BY <1>4, <3>1, <3>3, <3>4, <3>5 DEF PlannerRun
  <2>2. t \in AgentState
    BY <1>1, <2>1 DEF AgentState
  <2>3. /\ t.current_step_index = s.current_step_index
        /\ t.observations = s.observations /\ t.tool_calls_used = s.tool_calls_used
        /\ t.steps_used = s.steps_used /\ t.approvals = s.approvals
        /\ t.pending_approval = s.pending_approval /\ t.status = s.status
    BY <1>1, <2>1 DEF AgentState
  <2>4. t.current_step_index <= Len(t.plan)
    BY <1>1, <2>1, <2>2, <2>3 DEF StateInv, AgentState
  <2>5. StateInv(t)
    BY <1>1, <2>2, <2>3, <2>4, SameFrame
  <2>6. o.route = "validate_plan" /\ o.agent = t
    BY <1>2 DEF Go
  <2> QED
    BY <2>3, <2>5, <2>6 DEF NodeInv, Asking, BeforeCall, AfterCall
<1> QED
  BY <1>3, <1>4

\* A plan that passes names registered tools only.
LEMMA ValidatePlanPasses ==
  ASSUME NEW s, NodeInv("validate_plan", s), NEW o \in ValidatePlan(s)
  PROVE  NodeInv(o.route, o.agent)
<1>1. s \in AgentState /\ StateInv(s) /\ s.status # "waiting_approval"
  BY DEF NodeInv, StateInv, Asking
<1>2. CASE o = Go([s EXCEPT !.status = "failed", !.last_error = TRUE], "report")
  <2> DEFINE t == [s EXCEPT !.status = "failed", !.last_error = TRUE]
  <2>1. t \in AgentState
    BY <1>1 DEF AgentState, RunStatus
  <2>2. /\ t.current_step_index = s.current_step_index /\ t.plan = s.plan
        /\ t.observations = s.observations /\ t.tool_calls_used = s.tool_calls_used
        /\ t.steps_used = s.steps_used /\ t.approvals = s.approvals
        /\ t.pending_approval = s.pending_approval /\ t.status = "failed"
    BY <1>1 DEF AgentState
  <2>3. o.route = "report" /\ o.agent = t
    BY <1>2 DEF Go
  <2> HIDE DEF t
  <2>4. StateInv(t)
    BY <1>1, <2>1, <2>2, SameFrame DEF StateInv
  <2> QED
    BY <2>2, <2>3, <2>4 DEF NodeInv, Asking, BeforeCall, AfterCall
<1>3. CASE o = Go(s, "report")
  BY <1>3 DEF NodeInv, Asking, BeforeCall, AfterCall, Go
<1>4. CASE o = Go(s, "select_step") /\ ValidPlan(s.plan)
  <2>1. \A i \in DOMAIN s.plan : Elements(s.plan[i].tool_candidates) \subseteq Tools
    BY <1>4 DEF ValidPlan, Elements
  <2> QED
    BY <1>4, <2>1 DEF NodeInv, Asking, BeforeCall, AfterCall, Go
<1> QED
  BY <1>2, <1>3, <1>4 DEF ValidatePlan

\* A selected step has a counted step that no call used yet.
LEMMA SelectStepPasses ==
  ASSUME NEW s, NodeInv("select_step", s), NEW o \in SelectStep(s)
  PROVE  NodeInv(o.route, o.agent)
<1>1. s \in AgentState /\ StateInv(s) /\ s.status # "waiting_approval"
  BY DEF NodeInv, StateInv, Asking
<1>2. CASE o = Go(s, "report")
  BY <1>2 DEF NodeInv, Asking, BeforeCall, AfterCall, Go
<1>3. CASE o = Go([s EXCEPT !.status = "partial", !.last_error = TRUE], "report")
  <2> DEFINE t == [s EXCEPT !.status = "partial", !.last_error = TRUE]
  <2>1. t \in AgentState
    BY <1>1 DEF AgentState, RunStatus
  <2>2. /\ t.current_step_index = s.current_step_index /\ t.plan = s.plan
        /\ t.observations = s.observations /\ t.tool_calls_used = s.tool_calls_used
        /\ t.steps_used = s.steps_used /\ t.approvals = s.approvals
        /\ t.pending_approval = s.pending_approval /\ t.status = "partial"
    BY <1>1 DEF AgentState
  <2>3. o.route = "report" /\ o.agent = t
    BY <1>3 DEF Go
  <2> HIDE DEF t
  <2>4. StateInv(t)
    BY <1>1, <2>1, <2>2, SameFrame DEF StateInv
  <2> QED
    BY <2>2, <2>3, <2>4 DEF NodeInv, Asking, BeforeCall, AfterCall
<1>4. CASE /\ o = Go([s EXCEPT !.steps_used = @ + 1], "guardrail")
           /\ ~(s.current_step_index >= Len(s.plan)) /\ ~(s.steps_used >= MaxSteps)
  <2> DEFINE t == [s EXCEPT !.steps_used = @ + 1]
  <2>1. /\ s.steps_used \in Nat /\ s.tool_calls_used \in Nat
        /\ s.current_step_index \in Nat /\ Len(s.plan) \in Nat
    BY <1>1 DEF AgentState
  <2>2. t \in AgentState
    <3>1. \A n \in Nat : [s EXCEPT !.steps_used = n] \in AgentState
      BY <1>1 DEF AgentState
    <3>2. s.steps_used + 1 \in Nat
      BY <2>1
    <3> QED
      BY <3>1, <3>2
  <2>3. /\ t.current_step_index = s.current_step_index /\ t.plan = s.plan
        /\ t.observations = s.observations /\ t.tool_calls_used = s.tool_calls_used
        /\ t.steps_used = s.steps_used + 1 /\ t.approvals = s.approvals
        /\ t.pending_approval = s.pending_approval /\ t.status = s.status
    BY <1>1 DEF AgentState
  <2>4. o.route = "guardrail" /\ o.agent = t
    BY <1>4 DEF Go
  <2> HIDE DEF t
  <2>5. /\ s.steps_used <= t.steps_used /\ t.steps_used <= MaxSteps
        /\ t.tool_calls_used < t.steps_used /\ t.current_step_index < Len(t.plan)
        /\ t.current_step_index <= Len(t.plan)
    <3>1. s.tool_calls_used <= s.steps_used
      BY <1>1 DEF StateInv
    <3>2. s.steps_used < MaxSteps /\ s.current_step_index < Len(s.plan)
      <4>1. ~(s.steps_used >= MaxSteps) /\ ~(s.current_step_index >= Len(s.plan))
        BY <1>4
      <4>2. MaxSteps \in Int
        BY BudgetAssumption
      <4> QED
        BY <2>1, <4>1, <4>2
    <3> QED
      BY <2>1, <2>3, <3>1, <3>2, BudgetAssumption
  <2>6. StateInv(t)
    BY <1>1, <2>2, <2>3, <2>5, Frame
  <2> QED
    BY <2>3, <2>4, <2>5, <2>6 DEF NodeInv, Asking, BeforeCall, AfterCall
<1> QED
  BY <1>2, <1>3, <1>4 DEF SelectStep

\* The guardrail lets a step pass to execute only if the rules allow it or the
\* operator approved it, and asks for nothing the rules deny.
LEMMA GuardrailPasses ==
  ASSUME NEW s, NodeInv("guardrail", s), NEW o \in Guardrail(s)
  PROVE  NodeInv(o.route, o.agent)
<1> DEFINE step == StepOf(s)
           action == Evaluate(step.tool_candidates[1], step.inputs)
<1>1. s \in AgentState /\ StateInv(s) /\ s.status # "waiting_approval"
  BY DEF NodeInv, StateInv, Asking
<1>2. step \in PlanStep
  BY <1>1 DEF NodeInv, BeforeCall, AgentState, StepOf
<1>3. ASSUME NEW st \in {"failed", "denied"}, NEW e \in BOOLEAN,
             o = Go([s EXCEPT !.status = st, !.last_error = e], "record_denial")
      PROVE  NodeInv(o.route, o.agent)
  <2> DEFINE t == [s EXCEPT !.status = st, !.last_error = e]
  <2>1. t \in AgentState
    BY <1>1, <1>3 DEF AgentState, RunStatus
  <2>2. /\ t.current_step_index = s.current_step_index /\ t.plan = s.plan
        /\ t.observations = s.observations /\ t.tool_calls_used = s.tool_calls_used
        /\ t.steps_used = s.steps_used /\ t.approvals = s.approvals
        /\ t.pending_approval = s.pending_approval /\ t.status = st
    BY <1>1 DEF AgentState
  <2>3. o.route = "record_denial" /\ o.agent = t
    BY <1>3 DEF Go
  <2> HIDE DEF t
  <2>4. StateInv(t)
    BY <1>1, <2>1, <2>2, SameFrame DEF StateInv
  <2> QED
    BY <1>3, <2>2, <2>3, <2>4 DEF NodeInv, Asking, BeforeCall, AfterCall
<1>4. CASE step.tool_candidates = <<>>
  BY <1>1, <1>3, <1>4 DEF Guardrail
<1>5. CASE step.tool_candidates # <<>> /\ action = "deny"
  <2>1. [s EXCEPT !.status = "denied"]
          = [s EXCEPT !.status = "denied", !.last_error = s.last_error]
    BY <1>1 DEF AgentState
  <2>2. o = Go([s EXCEPT !.status = "denied"], "record_denial")
    BY <1>5 DEF Guardrail
  <2>3. s.last_error \in BOOLEAN
    BY <1>1 DEF AgentState
  <2> QED
    BY <1>3, <2>1, <2>2, <2>3
<1>6. CASE /\ step.tool_candidates # <<>> /\ action # "deny"
           /\ action = "require_approval" /\ ~Approved(s, step.step_id)
  <2> DEFINE t == [s EXCEPT !.status = "waiting_approval", !.pending_approval = step.step_id]
  <2>1. t \in AgentState
    BY <1>1, <1>2 DEF AgentState, RunStatus, PlanStep
  <2>2. /\ t.current_step_index = s.current_step_index /\ t.plan = s.plan
        /\ t.observations = s.observations /\ t.tool_calls_used = s.tool_calls_used
        /\ t.steps_used = s.steps_used /\ t.approvals = s.approvals
        /\ t.pending_approval = step.step_id /\ t.status = "waiting_approval"
    BY <1>1 DEF AgentState
  <2>3. o.route = "approval" /\ o.agent = t
    BY <1>6 DEF Guardrail, Go
  <2>4. Risk[step.tool_candidates[1]] # 3 /\ step.step_id # None
    BY <1>2, <1>6, NoneAssumption DEF Evaluate, PlanStep
  <2> HIDE DEF t, step, action
  <2>5. StateInv(t)
    BY <1>1, <2>1, <2>2, SameFrame DEF StateInv
  <2>6. StepOf(t) = step
    BY <2>2 DEF StepOf, step
  <2> QED
    BY <1>6, <2>2, <2>3, <2>4, <2>5, <2>6 DEF NodeInv, Asking, BeforeCall, AfterCall
<1>7. CASE /\ step.tool_candidates # <<>> /\ action # "deny"
           /\ ~(action = "require_approval" /\ ~Approved(s, step.step_id))
  <2>1. o.route = "execute" /\ o.agent = s
    BY <1>7 DEF Guardrail, Go
  <2>2. /\ Risk[step.tool_candidates[1]] # 3
        /\ action = "allow" \/ Approved(s, step.step_id)
    BY <1>7 DEF Evaluate
  <2> QED
    BY <1>7, <2>1, <2>2 DEF NodeInv, Asking, BeforeCall, AfterCall
<1> QED
  BY <1>4, <1>5, <1>6, <1>7

\* The elements of a sequence with one appended.
LEMMA ElementsAppend ==
  ASSUME NEW S, NEW seq \in Seq(S), NEW e \in S
  PROVE  /\ Elements(seq) \subseteq Elements(Append(seq, e))
         /\ e \in Elements(Append(seq, e))
         /\ \A x \in Elements(Append(seq, e)) : x \in Elements(seq) \/ x = e
<1>1. /\ DOMAIN Append(seq, e) = 1..(Len(seq) + 1)
      /\ DOMAIN seq = 1..Len(seq) /\ Len(seq) \in Nat
      /\ \A i \in 1..Len(seq) : Append(seq, e)[i] = seq[i]
      /\ Append(seq, e)[Len(seq) + 1] = e
  OBVIOUS
<1> QED
  BY <1>1 DEF Elements

\* The answer leaves the step's tool alone, records itself for that step and
\* withdraws no earlier approval.
LEMMA AnsweredState ==
  ASSUME NEW s, NodeInv("approval", s), NEW a \in ApprovalResponse
  PROVE  LET t == Answered(s, a) IN
         /\ StateInv(t)
         /\ t.pending_approval = None
         /\ t.status = IF a.decision = "deny" THEN "denied" ELSE "running"
         /\ t.current_step_index = s.current_step_index
         /\ t.tool_calls_used = s.tool_calls_used /\ t.steps_used = s.steps_used
         /\ Len(t.plan) = Len(s.plan)
         /\ \A i \in DOMAIN s.plan : /\ i \in DOMAIN t.plan
                                     /\ t.plan[i].tool_candidates = s.plan[i].tool_candidates
                                     /\ t.plan[i].step_id = s.plan[i].step_id
                                     /\ t.plan[i].max_attempts = s.plan[i].max_attempts
         /\ t.observations = s.observations /\ t.analyzed = s.analyzed
         /\ t.retry_counts = s.retry_counts
         /\ a.decision # "deny" => Approved(t, StepOf(t).step_id)
<1> DEFINE i == s.current_step_index + 1
           record == [step_id |-> s.pending_approval, decision |-> a.decision]
           edits == a.decision = "edit" /\ a.edited_parameters # None
           plan == IF edits THEN [s.plan EXCEPT ![i].inputs = a.edited_parameters] ELSE s.plan
           status == IF a.decision = "deny" THEN "denied" ELSE "running"
           approvals == Append(s.approvals, record)
           Records == [step_id : StepIds, decision : {"approve", "deny", "edit"}]
           t == [s EXCEPT !.approvals = approvals, !.pending_approval = None,
                          !.plan = plan, !.status = status]
<1>1. s \in AgentState /\ StateInv(s) /\ s.pending_approval = StepOf(s).step_id
  BY DEF NodeInv, StateInv, Asking
<1>2. /\ s.plan \in Seq(PlanStep) /\ s.approvals \in Seq(Records)
      /\ s.current_step_index \in Nat /\ i \in 1..Len(s.plan) /\ i \in DOMAIN s.plan
  BY <1>1 DEF NodeInv, BeforeCall, Asking, AgentState
<1>3. s.plan[i] \in PlanStep
  BY <1>2
<1>4. record \in Records
  BY <1>1, <1>3 DEF StepOf, PlanStep, ApprovalResponse
<1>5. /\ plan \in Seq(PlanStep) /\ Len(plan) = Len(s.plan) /\ DOMAIN plan = DOMAIN s.plan
      /\ \A j \in DOMAIN s.plan : /\ plan[j].tool_candidates = s.plan[j].tool_candidates
                                  /\ plan[j].step_id = s.plan[j].step_id
                                  /\ plan[j].max_attempts = s.plan[j].max_attempts
  <2>1. CASE ~edits
    BY <1>2, <2>1
  <2>2. CASE edits
    <3> DEFINE step == [s.plan[i] EXCEPT !.inputs = a.edited_parameters]
    <3>1. a.edited_parameters \in Inputs
      BY <2>2 DEF ApprovalResponse
    <3>2. /\ step \in PlanStep /\ step.tool_candidates = s.plan[i].tool_candidates
          /\ step.step_id = s.plan[i].step_id
          /\ step.max_attempts = s.plan[i].max_attempts
      BY <1>3, <3>1 DEF PlanStep
    <3>3. plan = [s.plan EXCEPT ![i] = step]
      BY <2>2
    <3> HIDE DEF step, plan
    <3>4. plan \in Seq(PlanStep) /\ Len(plan) = Len(s.plan) /\ DOMAIN plan = DOMAIN s.plan
      BY <1>2, <3>2, <3>3
    <3>5. \A j \in DOMAIN s.plan : plan[j] = IF j = i THEN step ELSE s.plan[j]
      BY <1>2, <3>3
    <3> QED
      BY <3>2, <3>4, <3>5
  <2> QED
    BY <2>1, <2>2
<1>6. Answered(s, a) = t
  BY <1>1 DEF Answered, AgentState
<1>7. /\ Elements(s.approvals) \subseteq Elements(approvals)
      /\ record \in Elements(approvals) /\ approvals \in Seq(Records)
  <2> HIDE DEF record, Records
  <2>1. approvals \in Seq(Records)
    BY <1>2, <1>4
  <2> QED
    BY <1>2, <1>4, <2>1, ElementsAppend
<1> HIDE DEF plan, approvals, edits
<1>8. t \in AgentState
  BY <1>1, <1>5, <1>7 DEF AgentState, RunStatus
<1>9. /\ t.approvals = approvals /\ t.plan = plan /\ t.status = status
      /\ t.pending_approval = None /\ t.current_step_index = s.current_step_index
      /\ t.observations = s.observations /\ t.tool_calls_used = s.tool_calls_used
      /\ t.steps_used = s.steps_used /\ t.analyzed = s.analyzed
      /\ t.retry_counts = s.retry_counts
  BY <1>1 DEF AgentState
<1> HIDE DEF t
<1>10. StateInv(t)
  <2>1. /\ s.steps_used <= t.steps_used /\ t.steps_used <= MaxSteps
    BY <1>1, <1>9, BudgetAssumption DEF StateInv, AgentState
  <2>2. t.current_step_index <= Len(t.plan)
    BY <1>1, <1>5, <1>9 DEF StateInv
  <2> QED
    BY <1>1, <1>7, <1>8, <1>9, <2>1, <2>2, Frame
<1>11. a.decision # "deny" => Approved(t, StepOf(t).step_id)
  <2>1. StepOf(t).step_id = s.pending_approval
    BY <1>1, <1>2, <1>5, <1>9 DEF StepOf
  <2>2. a.decision # "deny" => a.decision \in {"approve", "edit"}
    BY DEF ApprovalResponse
  <2>3. record.step_id = s.pending_approval /\ record.decision = a.decision
    OBVIOUS
  <2> HIDE DEF record
  <2> QED
    BY <1>7, <1>9, <2>1, <2>2, <2>3 DEF Approved
<1> QED
  BY <1>5, <1>6, <1>9, <1>10, <1>11

\* What the node does with an answer to the request it shows.
LEMMA ApprovalOutcome ==
  ASSUME NEW s, s.pending_approval # None, NEW a \in ApprovalResponse, NEW o \in Approval(s, a)
  PROVE  o = IF Unvalidated(a) THEN Go(s, "raise")
             ELSE Go(Answered(s, a), IF a.decision = "deny" THEN "record_denial" ELSE "execute")
<1>1. a # None
  BY NoneAssumption
<1> QED
  BY <1>1 DEF Approval

\* The answer leads on to the tool call or to the recorded denial.
LEMMA ApprovalPasses ==
  ASSUME NEW s, NodeInv("approval", s),
         NEW a \in ApprovalResponse \cup {None}, NEW o \in Approval(s, a), o.route # "raise"
  PROVE  NodeInv(o.route, o.agent)
<1>1. s.pending_approval # None
  BY DEF NodeInv, Asking
<1>2. CASE a = None
  <2>1. o.route = "interrupt" /\ o.agent = s
    BY <1>1, <1>2 DEF Approval, Go
  <2> QED
    BY <2>1 DEF NodeInv, Asking, BeforeCall, AfterCall
<1>3. CASE a # None
  <2> DEFINE t == Answered(s, a)
  <2>1. a \in ApprovalResponse
    BY <1>3
  <2>2. /\ o.agent = t
        /\ o.route = IF a.decision = "deny" THEN "record_denial" ELSE "execute"
    BY <1>1, <2>1, ApprovalOutcome DEF Go
  <2>3. /\ StateInv(t) /\ t.pending_approval = None /\ t.status # "waiting_approval"
        /\ t.current_step_index = s.current_step_index
        /\ t.tool_calls_used = s.tool_calls_used /\ t.steps_used = s.steps_used
        /\ Len(t.plan) = Len(s.plan)
        /\ \A i \in DOMAIN s.plan : /\ i \in DOMAIN t.plan
                                    /\ t.plan[i].tool_candidates = s.plan[i].tool_candidates
                                    /\ t.plan[i].step_id = s.plan[i].step_id
        /\ a.decision # "deny" => Approved(t, StepOf(t).step_id)
    BY <2>1, AnsweredState
  <2>4. s \in AgentState /\ t \in AgentState
    BY <2>3 DEF NodeInv, StateInv
  <2> HIDE DEF t
  <2>5. DOMAIN s.plan = DOMAIN t.plan /\ s.current_step_index + 1 \in DOMAIN s.plan
    BY <2>3, <2>4 DEF NodeInv, BeforeCall, Asking, AgentState
  <2>6. /\ StepOf(t).tool_candidates = StepOf(s).tool_candidates
        /\ \A i \in DOMAIN t.plan : Elements(t.plan[i].tool_candidates) \subseteq Tools
    BY <2>3, <2>5 DEF NodeInv, BeforeCall, Asking, StepOf
  <2> QED
    BY <2>2, <2>3, <2>6 DEF NodeInv, Asking, BeforeCall, AfterCall
<1> QED
  BY <1>2, <1>3

\* A state with an answer applied to it suits the graph's first node.
LEMMA ReplayPasses ==
  ASSUME NEW s, NodeInv("approval", s), NEW a \in ApprovalResponse
  PROVE  NodeInv("ingest", Answered(s, a))
BY AnsweredState DEF NodeInv, Asking, BeforeCall, AfterCall

\* A recorded denial changes the status alone.
LEMMA RecordDenialPasses ==
  ASSUME NEW s, NodeInv("record_denial", s), NEW o \in RecordDenial(s)
  PROVE  NodeInv(o.route, o.agent)
<1> DEFINE status == IF s.status = "failed" THEN s.status ELSE "denied"
           t == [s EXCEPT !.status = status]
<1>1. s \in AgentState /\ StateInv(s)
  BY DEF NodeInv, StateInv
<1>2. o.route = "report" /\ o.agent = t
  BY <1>1 DEF RecordDenial, Go, AgentState
<1>3. t \in AgentState
  BY <1>1 DEF AgentState, RunStatus
<1>4. /\ t.current_step_index = s.current_step_index /\ t.plan = s.plan
      /\ t.observations = s.observations /\ t.tool_calls_used = s.tool_calls_used
      /\ t.steps_used = s.steps_used /\ t.approvals = s.approvals
      /\ t.pending_approval = s.pending_approval /\ t.status # "waiting_approval"
  BY <1>1 DEF AgentState
<1> HIDE DEF t
<1>5. StateInv(t)
  BY <1>1, <1>3, <1>4, SameFrame DEF StateInv
<1> QED
  BY <1>2, <1>4, <1>5 DEF NodeInv, Asking, BeforeCall, AfterCall

\* A call is one more result and one more counted call, of a step already
\* counted; without budget the latest result is still there to look at.
LEMMA ExecutePasses ==
  ASSUME NEW s, NodeInv("execute", s), NEW o \in Execute(s)
  PROVE  NodeInv(o.route, o.agent)
<1> DEFINE step == StepOf(s)
           tool == step.tool_candidates[1]
<1>1. s \in AgentState /\ StateInv(s) /\ s.pending_approval = None
      /\ s.status # "waiting_approval"
  BY DEF NodeInv, StateInv, Asking
<1>2. /\ s.tool_calls_used \in Nat /\ s.steps_used \in Nat
      /\ s.observations \in Seq(Observation) /\ Len(s.observations) = s.tool_calls_used
      /\ s.tool_calls_used < s.steps_used
  BY <1>1 DEF NodeInv, StateInv, BeforeCall, AgentState
<1>3. /\ s.current_step_index + 1 \in DOMAIN s.plan /\ step \in PlanStep
      /\ step.tool_candidates # <<>>
  BY <1>1 DEF NodeInv, BeforeCall, Asking, StepOf, AgentState
<1>4. tool \in Tools
  <2>1. Elements(step.tool_candidates) \subseteq Tools
    BY <1>3 DEF NodeInv, BeforeCall, StepOf
  <2>2. 1 \in DOMAIN step.tool_candidates
    BY <1>3 DEF PlanStep
  <2> QED
    BY <2>1, <2>2 DEF Elements
<1>5. CASE /\ ~ToolBudgetLeft(s)
           /\ o = Go([s EXCEPT !.status = "partial", !.last_error = TRUE], "observe")
  <2> DEFINE t == [s EXCEPT !.status = "partial", !.last_error = TRUE]
  <2>1. t \in AgentState
    BY <1>1 DEF AgentState, RunStatus
  <2>2. /\ t.current_step_index = s.current_step_index /\ t.plan = s.plan
        /\ t.observations = s.observations /\ t.tool_calls_used = s.tool_calls_used
        /\ t.steps_used = s.steps_used /\ t.approvals = s.approvals
        /\ t.pending_approval = s.pending_approval /\ t.status = "partial"
    BY <1>1 DEF AgentState
  <2>3. o.route = "observe" /\ o.agent = t
    BY <1>5 DEF Go
  <2> HIDE DEF t
  <2>4. StateInv(t)
    BY <1>1, <2>1, <2>2, SameFrame DEF StateInv
  <2>5. s.observations # <<>>
    <3>1. MaxToolCalls \in Int /\ MaxToolCalls >= 1
      BY BudgetAssumption
    <3>2. ~(s.tool_calls_used < MaxToolCalls)
      BY <1>5 DEF ToolBudgetLeft
    <3> QED
      BY <1>2, <3>1, <3>2
  <2> QED
    BY <1>1, <2>2, <2>3, <2>4, <2>5 DEF NodeInv, Asking, BeforeCall, AfterCall
<1>6. CASE /\ ToolBudgetLeft(s)
           /\ \E r \in ToolResults[tool] : o = ToolReturns(s, r)
  <2>1. PICK r \in ToolResults[tool] : o = ToolReturns(s, r)
    BY <1>6
  <2>2. CASE r = Raise
    <3>1. o.route = "raise" /\ o.agent = s
      BY <2>1, <2>2 DEF ToolReturns, Go
    <3> QED
      BY <1>1, <3>1 DEF NodeInv, Asking, BeforeCall, AfterCall
  <2>3. CASE r # Raise
    <3> DEFINE obs == [step_id |-> step.step_id, tool |-> tool,
                       inputs |-> step.inputs, result |-> r]
               n == s.tool_calls_used + 1
               all == Append(s.observations, obs)
               t == [s EXCEPT !.tool_calls_used = n, !.observations = all]
    <3>1. r \in ToolResult
      BY <1>4, <2>3, ToolAssumption
    <3>2. obs \in Observation
      BY <1>3, <1>4, <3>1 DEF Observation, PlanStep
    <3>3. o.route = "observe" /\ o.agent = t
      BY <1>1, <2>1, <2>3 DEF ToolReturns, Go, AgentState
    <3>4. /\ obs.step_id = step.step_id /\ obs.tool = tool /\ obs.inputs = step.inputs
      OBVIOUS
    <3> HIDE DEF obs
    <3>5. /\ all \in Seq(Observation) /\ n \in Nat /\ Len(all) = n /\ all # <<>>
          /\ \A x \in Elements(all) : x \in Elements(s.observations) \/ x = obs
      <4>1. all \in Seq(Observation) /\ Len(all) = Len(s.observations) + 1
        BY <1>2, <3>2
      <4>2. \A x \in Elements(all) : x \in Elements(s.observations) \/ x = obs
        BY <1>2, <3>2, ElementsAppend
      <4> HIDE DEF all
      <4>3. n \in Nat /\ Len(all) = n /\ all # <<>>
        BY <1>2, <4>1
      <4> QED
        BY <4>1, <4>2, <4>3
    <3> HIDE DEF all, n
    <3>6. t \in AgentState
      BY <1>1, <3>5 DEF AgentState
    <3>7. /\ t.current_step_index = s.current_step_index /\ t.plan = s.plan
          /\ t.observations = all /\ t.tool_calls_used = n
          /\ t.steps_used = s.steps_used /\ t.approvals = s.approvals
          /\ t.pending_approval = s.pending_approval /\ t.status = s.status
      BY <1>1 DEF AgentState
    <3> HIDE DEF t
    <3>8. Authorized(t, obs)
      BY <3>4, <3>7 DEF NodeInv, BeforeCall, Asking, Authorized, Approved
    <3>9. \A x \in Elements(all) : Authorized(t, x)
      BY <1>1, <3>5, <3>7, <3>8 DEF StateInv, Authorized, Approved
    <3>10. n <= s.steps_used /\ n <= MaxToolCalls
      <4>1. s.tool_calls_used < MaxToolCalls /\ MaxToolCalls \in Int
        BY <1>6, BudgetAssumption DEF ToolBudgetLeft
      <4> QED
        BY <1>2, <4>1 DEF n
    <3>11. StateInv(t)
      BY <1>1, <3>5, <3>6, <3>7, <3>9, <3>10 DEF StateInv
    <3> QED
      BY <1>1, <3>3, <3>5, <3>7, <3>11 DEF NodeInv, Asking, BeforeCall, AfterCall
  <2> QED
    BY <2>2, <2>3
<1> QED
  BY <1>5, <1>6 DEF Execute

\* The latest result is still there to analyse.
LEMMA ObservePasses ==
  ASSUME NEW s, NodeInv("observe", s), NEW o \in Observe(s)
  PROVE  NodeInv(o.route, o.agent)
<1>1. o.route = "analyze" /\ o.agent = s
  BY DEF NodeInv, AfterCall, Observe, Go
<1> QED
  BY <1>1 DEF NodeInv, Asking, BeforeCall, AfterCall

\* Analysis adds to the findings and leaves the calls alone.
LEMMA AnalyzePasses ==
  ASSUME NEW s, NodeInv("analyze", s), NEW o \in Analyze(s)
  PROVE  NodeInv(o.route, o.agent)
<1>1. CASE o = Go(s, "verify") \/ o = Go(s, "raise")
  BY <1>1 DEF NodeInv, Asking, BeforeCall, AfterCall, Go
<1>2. CASE o = Go([s EXCEPT !.analyzed = Append(@, Len(s.observations))], "verify")
  <2> DEFINE analyzed == Append(s.analyzed, Len(s.observations))
             t == [s EXCEPT !.analyzed = analyzed]
  <2>1. s \in AgentState /\ StateInv(s)
    BY DEF NodeInv, StateInv
  <2>2. s.analyzed \in Seq(Nat) /\ Len(s.observations) \in Nat
    BY <2>1 DEF AgentState
  <2>3. analyzed \in Seq(Nat)
    BY <2>2
  <2>4. o.route = "verify" /\ o.agent = t
    BY <1>2, <2>1 DEF Go, AgentState
  <2> HIDE DEF analyzed
  <2>5. t \in AgentState
    BY <2>1, <2>3 DEF AgentState
  <2>6. /\ t.current_step_index = s.current_step_index /\ t.plan = s.plan
        /\ t.observations = s.observations /\ t.tool_calls_used = s.tool_calls_used
        /\ t.steps_used = s.steps_used /\ t.approvals = s.approvals
        /\ t.pending_approval = s.pending_approval /\ t.status = s.status
    BY <2>1 DEF AgentState
  <2> HIDE DEF t
  <2>7. StateInv(t)
    BY <2>1, <2>5, <2>6, SameFrame DEF StateInv
  <2> QED
    BY <2>4, <2>6, <2>7 DEF NodeInv, Asking, BeforeCall, AfterCall
<1> QED
  BY <1>1, <1>2 DEF Analyze

\* Verification moves the run to its next step, to a retry or to the report; a
\* run that is not past its plan has a step to go to.
LEMMA VerifyPasses ==
  ASSUME NEW s, NodeInv("verify", s), NEW o \in Verify(s)
  PROVE  NodeInv(o.route, o.agent)
<1> DEFINE e == s.last_error \/ VerifierRejects(s)
           v == [s EXCEPT !.last_error = e]
           next == s.current_step_index + 1
<1>1. s \in AgentState /\ StateInv(s)
  BY DEF NodeInv, StateInv
<1>2. e \in BOOLEAN
  BY <1>1 DEF AgentState, VerifierRejects
<1>3. /\ s.current_step_index \in Nat /\ next \in Nat /\ Len(s.plan) \in Nat
      /\ next <= Len(s.plan)
  BY <1>1 DEF NodeInv, AfterCall, AgentState
<1>4. v = [s EXCEPT !.last_error = @ \/ VerifierRejects(s)]
  BY <1>1 DEF AgentState
<1>5. \/ o = Go([v EXCEPT !.current_step_index = next],
                IF next < Len(s.plan) THEN "select_step" ELSE "report")
      \/ o = Go(v, "reflect")
      \/ o = Go([v EXCEPT !.status = "partial"], "report")
  BY <1>4 DEF Verify
<1> HIDE DEF e, next
<1>6. PICK k \in {s.current_step_index, next}, st \in {s.status, "partial"},
           r \in {"select_step", "reflect", "report"} :
        o = Go([s EXCEPT !.last_error = e, !.current_step_index = k, !.status = st], r)
  <2>1. /\ v = [s EXCEPT !.last_error = e, !.current_step_index = s.current_step_index,
                         !.status = s.status]
        /\ [v EXCEPT !.current_step_index = next]
             = [s EXCEPT !.last_error = e, !.current_step_index = next, !.status = s.status]
        /\ [v EXCEPT !.status = "partial"]
             = [s EXCEPT !.last_error = e, !.current_step_index = s.current_step_index,
                         !.status = "partial"]
    BY <1>1 DEF AgentState
  <2> HIDE DEF v
  <2> QED
    BY <1>5, <2>1
<1> DEFINE t == [s EXCEPT !.last_error = e, !.current_step_index = k, !.status = st]
<1>7. t \in AgentState
  BY <1>1, <1>2, <1>3 DEF AgentState, RunStatus
<1>8. /\ t.current_step_index = k /\ t.plan = s.plan
      /\ t.observations = s.observations /\ t.tool_calls_used = s.tool_calls_used
      /\ t.steps_used = s.steps_used /\ t.approvals = s.approvals
      /\ t.pending_approval = s.pending_approval /\ t.status = st
  BY <1>1 DEF AgentState
<1>9. o.route = r /\ o.agent = t
  BY <1>6 DEF Go
<1>10. r = "reflect" => k = s.current_step_index
  <2>1. CASE r = "reflect" /\ k = next
    <3>1. [v EXCEPT !.current_step_index = next].current_step_index = next
          /\ v.current_step_index = s.current_step_index
          /\ [v EXCEPT !.status = "partial"].current_step_index = s.current_step_index
      BY <1>1 DEF AgentState
    <3>2. o.route = "reflect" => o.agent = v
      BY <1>5 DEF Go
    <3> QED
      BY <1>8, <1>9, <2>1, <3>1, <3>2
  <2> QED
    BY <2>1
<1> HIDE DEF t, v
<1>11. StateInv(t)
  BY <1>1, <1>3, <1>7, <1>8, SameFrame DEF StateInv
<1>12. s.status # "waiting_approval" /\ s.pending_approval = None
  BY DEF NodeInv, Asking
<1> QED
  BY <1>8, <1>9, <1>10, <1>11, <1>12 DEF NodeInv, Asking, BeforeCall, AfterCall

\* A retry counts itself and gives no step budget back.
LEMMA ReflectPasses ==
  ASSUME NEW s, NodeInv("reflect", s), NEW o \in Reflect(s)
  PROVE  NodeInv(o.route, o.agent)
<1> DEFINE id == StepOf(s).step_id
           counts == [s.retry_counts EXCEPT ![id] = @ + 1]
           t == [s EXCEPT !.retry_counts = counts, !.last_error = FALSE]
<1>1. s \in AgentState /\ StateInv(s)
  BY DEF NodeInv, StateInv
<1>2. counts \in [StepIds -> Nat]
  <2>1. s.retry_counts \in [StepIds -> Nat]
    BY <1>1 DEF AgentState
  <2> HIDE DEF id
  <2>2. \A n \in Nat : n + 1 \in Nat
    OBVIOUS
  <2> QED
    BY <2>1, <2>2
<1>3. o.route = "select_step" /\ o.agent = t
  BY <1>1 DEF Reflect, Go, AgentState
<1> HIDE DEF counts, id
<1>4. t \in AgentState
  BY <1>1, <1>2 DEF AgentState
<1>5. /\ t.current_step_index = s.current_step_index /\ t.plan = s.plan
      /\ t.observations = s.observations /\ t.tool_calls_used = s.tool_calls_used
      /\ t.steps_used = s.steps_used /\ t.approvals = s.approvals
      /\ t.pending_approval = s.pending_approval /\ t.status = s.status
  BY <1>1 DEF AgentState
<1> HIDE DEF t
<1>6. StateInv(t)
  BY <1>1, <1>4, <1>5, SameFrame DEF StateInv
<1> QED
  BY <1>3, <1>5, <1>6 DEF NodeInv, Asking, BeforeCall, AfterCall

\* The report settles the status and asks for nothing.
LEMMA ReportPasses ==
  ASSUME NEW s, NodeInv("report", s), NEW o \in Report(s)
  PROVE  NodeInv(o.route, o.agent)
<1> DEFINE final == FinalStatus(s)
           t == [s EXCEPT !.status = final, !.report = final]
<1>1. s \in AgentState /\ StateInv(s)
  BY DEF NodeInv, StateInv
<1>2. final \in Terminal
  BY DEF FinalStatus, Terminal
<1>3. o.route = "memory_commit" /\ o.agent = t
  BY DEF Report, Go
<1> HIDE DEF final
<1>4. t \in AgentState
  BY <1>1, <1>2 DEF AgentState, RunStatus, Terminal
<1>5. /\ t.current_step_index = s.current_step_index /\ t.plan = s.plan
      /\ t.observations = s.observations /\ t.tool_calls_used = s.tool_calls_used
      /\ t.steps_used = s.steps_used /\ t.approvals = s.approvals
      /\ t.pending_approval = s.pending_approval /\ t.status # "waiting_approval"
  BY <1>1, <1>2 DEF AgentState, Terminal
<1> HIDE DEF t
<1>6. StateInv(t)
  BY <1>1, <1>4, <1>5, SameFrame DEF StateInv
<1> QED
  BY <1>3, <1>5, <1>6 DEF NodeInv, Asking, BeforeCall, AfterCall

\* The last node leaves the state as it is.
LEMMA MemoryCommitPasses ==
  ASSUME NEW s, NodeInv("memory_commit", s), NEW o \in MemoryCommit(s)
  PROVE  NodeInv(o.route, o.agent)
<1>1. o.route = "end" /\ o.agent = s
  BY DEF MemoryCommit, Go
<1> QED
  BY <1>1 DEF NodeInv, Asking, BeforeCall, AfterCall

\* Every node but approval, which takes the operator's answer as well.
THEOREM NodePasses ==
  ASSUME NEW n \in GraphNodes \ {"approval"}, NEW s, NodeInv(n, s), NEW o \in Node(n, s)
  PROVE  NodeInv(o.route, o.agent)
<1>1. CASE n = "ingest"
  BY <1>1, IngestPasses DEF Node
<1>2. CASE n = "classify"
  BY <1>2, ClassifyPasses DEF Node
<1>3. CASE n = "retrieve_context"
  BY <1>3, RetrieveContextPasses DEF Node
<1>4. CASE n = "plan"
  BY <1>4, PlanPasses DEF Node
<1>5. CASE n = "validate_plan"
  BY <1>5, ValidatePlanPasses DEF Node
<1>6. CASE n = "select_step"
  BY <1>6, SelectStepPasses DEF Node
<1>7. CASE n = "guardrail"
  BY <1>7, GuardrailPasses DEF Node
<1>8. CASE n = "record_denial"
  BY <1>8, RecordDenialPasses DEF Node
<1>9. CASE n = "execute"
  BY <1>9, ExecutePasses DEF Node
<1>10. CASE n = "observe"
  BY <1>10, ObservePasses DEF Node
<1>11. CASE n = "analyze"
  BY <1>11, AnalyzePasses DEF Node
<1>12. CASE n = "verify"
  BY <1>12, VerifyPasses DEF Node
<1>13. CASE n = "reflect"
  BY <1>13, ReflectPasses DEF Node
<1>14. CASE n = "report"
  BY <1>14, ReportPasses DEF Node
<1>15. CASE n = "memory_commit"
  BY <1>15, MemoryCommitPasses DEF Node
<1> QED
  BY <1>1, <1>2, <1>3, <1>4, <1>5, <1>6, <1>7, <1>8, <1>9, <1>10, <1>11, <1>12, <1>13,
     <1>14, <1>15 DEF GraphNodes

\* A fresh state is what the first node relies on.
LEMMA NewAgentPasses ==
  ASSUME NEW task \in Scenarios
  PROVE  LET s == NewAgent(task) IN
         /\ NodeInv("ingest", s)
         /\ s.pending_approval = None /\ s.report = None /\ s.approvals = <<>>
         /\ s.steps_used = 0 /\ s.status = "pending"
<1> DEFINE s == NewAgent(task)
<1>1. s \in AgentState
  BY NoneAssumption DEF NewAgent, AgentState, RunStatus, Scenarios
<1>2. /\ s.plan = <<>> /\ s.current_step_index = 0 /\ s.observations = <<>>
      /\ s.tool_calls_used = 0 /\ s.steps_used = 0 /\ s.approvals = <<>>
      /\ s.pending_approval = None /\ s.status = "pending" /\ s.report = None
  BY DEF NewAgent
<1> HIDE DEF s
<1>3. StateInv(s)
  <2>1. MaxSteps \in Int /\ MaxSteps >= 1 /\ MaxToolCalls \in Int /\ MaxToolCalls >= 1
    BY BudgetAssumption
  <2> QED
    BY <1>1, <1>2, <2>1 DEF StateInv, Elements
<1>4. NodeInv("ingest", s)
  BY <1>2, <1>3 DEF NodeInv, Asking, BeforeCall, AfterCall
<1> QED
  BY <1>2, <1>4 DEF s

\* The graph has no edge out of its nodes but to a node, its end, an interrupt
\* or an exception.
LEMMA NodeRoutes ==
  ASSUME NEW n \in GraphNodes \ {"approval"}, NEW s, NEW o \in Node(n, s)
  PROVE  /\ o.route \in (GraphNodes \cup {"raise", "end"})
         /\ o.route = "memory_commit" => n = "report"
         /\ o.route = "end" => n = "memory_commit"
<1>1. CASE n = "ingest"
  BY <1>1 DEF Node, Ingest, Go, GraphNodes
<1>2. CASE n = "classify"
  BY <1>2 DEF Node, Classify, Go, GraphNodes
<1>3. CASE n = "retrieve_context"
  BY <1>3 DEF Node, RetrieveContext, Go, GraphNodes
<1>4. CASE n = "plan"
  BY <1>4 DEF Node, Plan, Go, GraphNodes
<1>5. CASE n = "validate_plan"
  BY <1>5 DEF Node, ValidatePlan, Go, GraphNodes
<1>6. CASE n = "select_step"
  BY <1>6 DEF Node, SelectStep, Go, GraphNodes
<1>7. CASE n = "guardrail"
  BY <1>7 DEF Node, Guardrail, Go, GraphNodes
<1>8. CASE n = "record_denial"
  BY <1>8 DEF Node, RecordDenial, Go, GraphNodes
<1>9. CASE n = "execute"
  <2>1. CASE ~ToolBudgetLeft(s)
    BY <1>9, <2>1 DEF Node, Execute, Go, GraphNodes
  <2>2. CASE ToolBudgetLeft(s)
    <3>1. PICK r \in ToolResults[StepOf(s).tool_candidates[1]] : o = ToolReturns(s, r)
      BY <1>9, <2>2 DEF Node, Execute
    <3>2. o.route = "raise" \/ o.route = "observe"
      BY <3>1 DEF ToolReturns, Go
    <3> QED
      BY <3>2 DEF GraphNodes
  <2> QED
    BY <2>1, <2>2
<1>10. CASE n = "observe"
  BY <1>10 DEF Node, Observe, Go, GraphNodes
<1>11. CASE n = "analyze"
  BY <1>11 DEF Node, Analyze, Go, GraphNodes
<1>12. CASE n = "verify"
  BY <1>12 DEF Node, Verify, Go, GraphNodes
<1>13. CASE n = "reflect"
  BY <1>13 DEF Node, Reflect, Go, GraphNodes
<1>14. CASE n = "report"
  BY <1>14 DEF Node, Report, Go, GraphNodes
<1>15. CASE n = "memory_commit"
  BY <1>15 DEF Node, MemoryCommit, Go, GraphNodes
<1> QED
  BY <1>1, <1>2, <1>3, <1>4, <1>5, <1>6, <1>7, <1>8, <1>9, <1>10, <1>11, <1>12, <1>13,
     <1>14, <1>15 DEF GraphNodes

\* An outcome is a state and a route.
LEMMA NodeGoes ==
  ASSUME NEW n \in GraphNodes \ {"approval"}, NEW s, NEW o \in Node(n, s)
  PROVE  o = Go(o.agent, o.route)
<1>1. CASE n = "execute"
  <2>1. ASSUME NEW r PROVE LET p == ToolReturns(s, r) IN p = Go(p.agent, p.route)
    BY DEF ToolReturns, Go
  <2> QED
    BY <1>1, <2>1 DEF Node, Execute, Go
<1>2. CASE n \in {"ingest", "classify", "retrieve_context", "plan", "validate_plan"}
  BY <1>2 DEF Node, Ingest, Classify, RetrieveContext, Plan, ValidatePlan, Go
<1>3. CASE n \in {"select_step", "guardrail", "record_denial", "observe", "analyze"}
  BY <1>3 DEF Node, SelectStep, Guardrail, RecordDenial, Observe, Analyze, Go
<1>4. CASE n \in {"verify", "reflect", "report", "memory_commit"}
  BY <1>4 DEF Node, Verify, Reflect, Report, MemoryCommit, Go
<1> QED
  BY <1>1, <1>2, <1>3, <1>4 DEF GraphNodes

\* The nodes a refused run still passes.
Exit == {"record_denial", "report", "memory_commit"}

\* What a node other than approval may do to the fields the life of a run is
\* read from: only a call adds a result, only the report completes a run, and
\* a denial stays one on its way out.
Keeps(n, s, t) ==
  /\ t.approvals = s.approvals
  /\ n # "execute" => t.observations = s.observations
  /\ t.status = "completed" => s.status = "completed" \/ n = "report"
  /\ n \in Exit /\ s.status = "denied"
       => t.status = "denied"

\* Setting the status and the error disturbs nothing of this.
LEMMA StatusKeeps ==
  ASSUME NEW s \in AgentState, NEW v \in RunStatus \ {"completed"}, NEW e, NEW n,
         n \notin Exit \/ v = "denied",
         NEW t, \/ t = [s EXCEPT !.status = v, !.last_error = e]
                \/ t = [s EXCEPT !.status = v]
                \/ t = [s EXCEPT !.last_error = e]
  PROVE  Keeps(n, s, t)
<1>1. /\ t.approvals = s.approvals /\ t.observations = s.observations
      /\ t.status = v \/ t.status = s.status
  BY DEF AgentState
<1> QED
  BY <1>1 DEF Keeps, Exit

\* Ingestion stores the workspace or fails the run; it completes nothing.
LEMMA IngestKeeps ==
  ASSUME NEW s \in AgentState, NEW o \in Ingest(s)
  PROVE  Keeps("ingest", s, o.agent)
<1>1. CASE o = Go(s, "raise")
  BY <1>1 DEF Go, Keeps, Exit
<1>2. CASE o # Go(s, "raise")
  <2>1. PICK w \in BOOLEAN, e \in BOOLEAN, st \in {"running", "failed"} :
          o = Go([s EXCEPT !.workspace = w, !.last_error = e, !.status = st], "classify")
    BY <1>2 DEF Ingest, AgentState
  <2> DEFINE t == [s EXCEPT !.workspace = w, !.last_error = e, !.status = st]
  <2>2. o.agent = t
    BY <2>1 DEF Go
  <2>3. t.approvals = s.approvals /\ t.observations = s.observations /\ t.status = st
    BY DEF AgentState
  <2> QED
    BY <2>2, <2>3 DEF Keeps, Exit
<1> QED
  BY <1>1, <1>2

\* A plan that does not validate fails the run.
LEMMA ValidatePlanKeeps ==
  ASSUME NEW s \in AgentState, NEW o \in ValidatePlan(s)
  PROVE  Keeps("validate_plan", s, o.agent)
<1> DEFINE t == [s EXCEPT !.status = "failed", !.last_error = TRUE]
<1>1. o.agent = s \/ o.agent = t
  BY DEF ValidatePlan, Go
<1>2. Keeps("validate_plan", s, t)
  BY StatusKeeps DEF RunStatus, Exit
<1> QED
  BY <1>1, <1>2 DEF Keeps, Exit

\* Choosing a step counts it, or ends the run as partial without budget.
LEMMA SelectStepKeeps ==
  ASSUME NEW s \in AgentState, NEW o \in SelectStep(s)
  PROVE  Keeps("select_step", s, o.agent)
<1> DEFINE t == [s EXCEPT !.status = "partial", !.last_error = TRUE]
           u == [s EXCEPT !.steps_used = @ + 1]
<1>1. o.agent = s \/ o.agent = t \/ o.agent = u
  BY DEF SelectStep, Go
<1>2. Keeps("select_step", s, t)
  BY StatusKeeps DEF RunStatus, Exit
<1>3. u.approvals = s.approvals /\ u.observations = s.observations /\ u.status = s.status
  BY DEF AgentState
<1>4. Keeps("select_step", s, u)
  BY <1>3 DEF Keeps, Exit
<1> QED
  BY <1>1, <1>2, <1>4 DEF Keeps, Exit

\* The guardrail fails, denies or suspends the run, or lets the step pass.
LEMMA GuardrailKeeps ==
  ASSUME NEW s \in AgentState, NEW o \in Guardrail(s)
  PROVE  Keeps("guardrail", s, o.agent)
<1> DEFINE t == [s EXCEPT !.status = "failed", !.last_error = TRUE]
           u == [s EXCEPT !.status = "denied"]
           w == [s EXCEPT !.status = "waiting_approval",
                          !.pending_approval = StepOf(s).step_id]
<1>1. o.agent = s \/ o.agent = t \/ o.agent = u \/ o.agent = w
  BY DEF Guardrail, Go
<1>2. Keeps("guardrail", s, t)
  BY StatusKeeps DEF RunStatus, Exit
<1>3. Keeps("guardrail", s, u)
  BY StatusKeeps DEF RunStatus, Exit
<1>4. w.approvals = s.approvals /\ w.observations = s.observations
      /\ w.status = "waiting_approval"
  BY DEF AgentState
<1>5. Keeps("guardrail", s, w)
  BY <1>4 DEF Keeps, Exit
<1> QED
  BY <1>1, <1>2, <1>3, <1>5 DEF Keeps, Exit

\* A call adds one result while the budget lasts; without budget, or when it
\* raises, it adds none.
LEMMA ExecuteKeeps ==
  ASSUME NEW s \in AgentState, NEW o \in Execute(s)
  PROVE  /\ Keeps("execute", s, o.agent)
         /\ \/ o.agent.observations = s.observations
            \/ ToolBudgetLeft(s) /\ Len(o.agent.observations) = Len(s.observations) + 1
<1>1. CASE ~ToolBudgetLeft(s)
  <2> DEFINE t == [s EXCEPT !.status = "partial", !.last_error = TRUE]
  <2>1. o.agent = t
    BY <1>1 DEF Execute, Go
  <2>2. Keeps("execute", s, t)
    BY StatusKeeps DEF RunStatus, Exit
  <2>3. t.observations = s.observations
    BY DEF AgentState
  <2> QED
    BY <2>1, <2>2, <2>3
<1>2. CASE ToolBudgetLeft(s)
  <2>1. PICK r \in ToolResults[StepOf(s).tool_candidates[1]] : o = ToolReturns(s, r)
    BY <1>2 DEF Execute
  <2>2. CASE r = Raise
    BY <2>1, <2>2 DEF ToolReturns, Go, Keeps, Exit
  <2>3. CASE r # Raise
    <3> DEFINE obs == [step_id |-> StepOf(s).step_id, tool |-> StepOf(s).tool_candidates[1],
                       inputs |-> StepOf(s).inputs, result |-> r]
               n == s.tool_calls_used + 1
               os == Append(s.observations, obs)
               t == [s EXCEPT !.tool_calls_used = n, !.observations = os]
    <3>1. o.agent = t
      BY <2>1, <2>3 DEF ToolReturns, Go
    <3>2. s.observations \in Seq(Observation)
      BY DEF AgentState
    <3>3. Len(os) = Len(s.observations) + 1
      BY <3>2
    <3> HIDE DEF obs, n, os
    <3>4. t.approvals = s.approvals /\ t.status = s.status /\ t.observations = os
      BY DEF AgentState
    <3> QED
      BY <1>2, <3>1, <3>3, <3>4 DEF Keeps, Exit
  <2> QED
    BY <2>2, <2>3
<1> QED
  BY <1>1, <1>2

\* Verification goes on to the next step, to a retry, or gives up as partial.
LEMMA VerifyKeeps ==
  ASSUME NEW s \in AgentState, NEW o \in Verify(s)
  PROVE  Keeps("verify", s, o.agent)
<1> DEFINE e == s.last_error \/ VerifierRejects(s)
           v == [s EXCEPT !.last_error = e]
           after == s.current_step_index + 1
           t == [v EXCEPT !.current_step_index = after]
           u == [v EXCEPT !.status = "partial"]
<1>1. o.agent = t \/ o.agent = v \/ o.agent = u
  BY DEF Verify, Go
<1> HIDE DEF e, after
<1>2. v.approvals = s.approvals /\ v.observations = s.observations /\ v.status = s.status
  BY DEF AgentState
<1>3. t.approvals = s.approvals /\ t.observations = s.observations /\ t.status = s.status
  BY DEF AgentState
<1>4. u.approvals = s.approvals /\ u.observations = s.observations /\ u.status = "partial"
  BY DEF AgentState
<1> QED
  BY <1>1, <1>2, <1>3, <1>4 DEF Keeps, Exit

\* A retry is counted and clears the error.
LEMMA ReflectKeeps ==
  ASSUME NEW s \in AgentState, NEW o \in Reflect(s)
  PROVE  Keeps("reflect", s, o.agent)
<1> DEFINE rc == [s.retry_counts EXCEPT ![StepOf(s).step_id] = @ + 1]
           t == [s EXCEPT !.retry_counts = rc, !.last_error = FALSE]
<1>1. o.agent = t
  BY DEF Reflect, Go
<1> HIDE DEF rc
<1>2. t.approvals = s.approvals /\ t.observations = s.observations /\ t.status = s.status
  BY DEF AgentState
<1> QED
  BY <1>1, <1>2 DEF Keeps, Exit

\* What the report settles: the status is the report's and final, and it is
\* "completed" only where some call returned a result.
LEMMA ReportSettles ==
  ASSUME NEW s \in AgentState, NEW o \in Report(s)
  PROVE  /\ Keeps("report", s, o.agent)
         /\ o.agent.report = o.agent.status /\ o.agent.status \in Terminal
         /\ o.agent.status = "completed" => s.observations # <<>>
<1> DEFINE f == FinalStatus(s)
           t == [s EXCEPT !.status = f, !.report = f]
<1>1. o.agent = t
  BY DEF Report, Go
<1>2. f \in Terminal
  BY DEF FinalStatus, Terminal
<1>3. f = "completed" => s.observations # <<>>
  BY DEF FinalStatus, Elements
<1>4. s.status = "denied" => f = "denied"
  BY DEF FinalStatus
<1> HIDE DEF f
<1>5. /\ t.approvals = s.approvals /\ t.observations = s.observations
      /\ t.status = f /\ t.report = f
  BY DEF AgentState
<1> QED
  BY <1>1, <1>2, <1>3, <1>4, <1>5 DEF Keeps, Exit

\* All nodes together.
LEMMA NodeKeeps ==
  ASSUME NEW n \in GraphNodes \ {"approval"}, NEW s \in AgentState, NEW o \in Node(n, s)
  PROVE  Keeps(n, s, o.agent)
<1>1. CASE n = "ingest"
  BY <1>1, IngestKeeps DEF Node
<1>2. CASE n = "classify"
  <2> DEFINE t == [s EXCEPT !.scenario = s.task]
  <2>1. o.agent = t
    BY <1>2 DEF Node, Classify, Go
  <2>2. t.approvals = s.approvals /\ t.observations = s.observations /\ t.status = s.status
    BY DEF AgentState
  <2> QED
    BY <1>2, <2>1, <2>2 DEF Keeps, Exit
<1>3. CASE n = "plan"
  <2>1. PICK t \in (IF s.plan = <<>> THEN PlannerRun(s) ELSE {s}) : o = Go(t, "validate_plan")
    BY <1>3 DEF Node, Plan
  <2>2. t.approvals = s.approvals /\ t.observations = s.observations /\ t.status = s.status
    BY <2>1 DEF PlannerRun, AgentState
  <2> QED
    BY <1>3, <2>1, <2>2 DEF Go, Keeps, Exit
<1>4. CASE n = "validate_plan"
  BY <1>4, ValidatePlanKeeps DEF Node
<1>5. CASE n = "select_step"
  BY <1>5, SelectStepKeeps DEF Node
<1>6. CASE n = "guardrail"
  BY <1>6, GuardrailKeeps DEF Node
<1>7. CASE n = "record_denial"
  <2> DEFINE v == IF s.status = "failed" THEN s.status ELSE "denied"
             t == [s EXCEPT !.status = v]
  <2>1. o.agent = t
    BY <1>7 DEF Node, RecordDenial, Go
  <2> HIDE DEF v
  <2>2. t.approvals = s.approvals /\ t.observations = s.observations /\ t.status = v
    BY DEF AgentState
  <2>3. v # "completed" /\ (s.status = "denied" => v = "denied")
    BY DEF v
  <2> QED
    BY <1>7, <2>1, <2>2, <2>3 DEF Keeps, Exit
<1>8. CASE n = "execute"
  BY <1>8, ExecuteKeeps DEF Node
<1>9. CASE n = "analyze"
  <2> DEFINE a == Append(s.analyzed, Len(s.observations))
             t == [s EXCEPT !.analyzed = a]
  <2>1. o.agent = s \/ o.agent = t
    BY <1>9 DEF Node, Analyze, Go
  <2> HIDE DEF a
  <2>2. t.approvals = s.approvals /\ t.observations = s.observations /\ t.status = s.status
    BY DEF AgentState
  <2> QED
    BY <1>9, <2>1, <2>2 DEF Keeps, Exit
<1>10. CASE n = "verify"
  BY <1>10, VerifyKeeps DEF Node
<1>11. CASE n = "reflect"
  BY <1>11, ReflectKeeps DEF Node
<1>12. CASE n = "report"
  BY <1>12, ReportSettles DEF Node
<1>13. CASE n \in {"retrieve_context", "observe", "memory_commit"}
  BY <1>13 DEF Node, RetrieveContext, Observe, MemoryCommit, Go, Keeps, Exit
<1> QED
  BY <1>1, <1>2, <1>3, <1>4, <1>5, <1>6, <1>7, <1>8, <1>9, <1>10, <1>11, <1>12, <1>13
     DEF GraphNodes

\* By which node a node of the step loop is reached.
LEMMA CameFrom ==
  ASSUME NEW n \in GraphNodes \ {"approval"}, NEW s, NEW o \in Node(n, s)
  PROVE  /\ o.route = "select_step" => n \in {"validate_plan", "verify", "reflect"}
         /\ o.route = "guardrail" => n = "select_step"
         /\ o.route \in {"approval", "execute"} => n = "guardrail"
         /\ o.route = "observe" => n = "execute"
         /\ o.route = "analyze" => n = "observe"
         /\ o.route = "verify" => n = "analyze"
         /\ o.route = "reflect" => n = "verify"
<1>1. CASE n \in {"ingest", "classify", "retrieve_context", "plan", "validate_plan"}
  BY <1>1 DEF Node, Ingest, Classify, RetrieveContext, Plan, ValidatePlan, Go
<1>2. CASE n = "execute"
  <2>1. CASE ~ToolBudgetLeft(s)
    BY <1>2, <2>1 DEF Node, Execute, Go
  <2>2. CASE ToolBudgetLeft(s)
    <3>1. PICK r \in ToolResults[StepOf(s).tool_candidates[1]] : o = ToolReturns(s, r)
      BY <1>2, <2>2 DEF Node, Execute
    <3> QED
      BY <1>2, <3>1 DEF ToolReturns, Go
  <2> QED
    BY <2>1, <2>2
<1>3. CASE n \in {"select_step", "guardrail", "record_denial"}
  BY <1>3 DEF Node, SelectStep, Guardrail, RecordDenial, Go
<1>4. CASE n \in {"observe", "analyze", "verify"}
  BY <1>4 DEF Node, Observe, Analyze, Verify, Go
<1>5. CASE n \in {"reflect", "report", "memory_commit"}
  BY <1>5 DEF Node, Reflect, Report, MemoryCommit, Go
<1> QED
  BY <1>1, <1>2, <1>3, <1>4, <1>5 DEF GraphNodes

\* Every field of the state has few nodes that write it.
Writes(n, s, t) ==
  /\ n # "report" => t.report = s.report
  /\ n # "select_step" => t.steps_used = s.steps_used
  /\ n # "execute" => t.tool_calls_used = s.tool_calls_used
  /\ n # "verify" => t.current_step_index = s.current_step_index
  /\ n # "reflect" => t.retry_counts = s.retry_counts
  /\ n # "analyze" => t.analyzed = s.analyzed
  /\ n # "plan" \/ s.plan # <<>> => t.plan = s.plan

\* The nodes that write the status, the error and one field more at most.
LEMMA NodeWrites ==
  ASSUME NEW n \in GraphNodes \ {"approval"}, NEW s \in AgentState, NEW o \in Node(n, s)
  PROVE  Writes(n, s, o.agent)
<1>0. ASSUME NEW v, NEW e, NEW w,
             o.agent = s \/ o.agent = [s EXCEPT !.status = v]
               \/ o.agent = [s EXCEPT !.status = v, !.last_error = e]
               \/ o.agent = [s EXCEPT !.workspace = w, !.last_error = e, !.status = v]
      PROVE  Writes(n, s, o.agent)
  <2>1. CASE o.agent = s
    BY <2>1 DEF Writes
  <2>2. CASE o.agent = [s EXCEPT !.status = v]
    BY <2>2 DEF AgentState, Writes
  <2>3. CASE o.agent = [s EXCEPT !.status = v, !.last_error = e]
    BY <2>3 DEF AgentState, Writes
  <2>4. CASE o.agent = [s EXCEPT !.workspace = w, !.last_error = e, !.status = v]
    BY <2>4 DEF AgentState, Writes
  <2> QED
    BY <1>0, <2>1, <2>2, <2>3, <2>4
<1>1. CASE n = "ingest"
  <2>1. CASE o = Go(s, "raise")
    BY <2>1 DEF Go, Writes
  <2>2. CASE o # Go(s, "raise")
    <3>1. PICK w \in BOOLEAN, e \in BOOLEAN, v \in {"running", "failed"} :
            o = Go([s EXCEPT !.workspace = w, !.last_error = e, !.status = v], "classify")
      BY <1>1, <2>2, IngestReads DEF Node
    <3>2. o.agent = [s EXCEPT !.workspace = w, !.last_error = e, !.status = v]
      BY <3>1 DEF Go
    <3> QED
      BY <1>0, <3>2
  <2> QED
    BY <2>1, <2>2
<1>2. CASE n \in {"classify", "retrieve_context"}
  <2>1. o.agent \in {s, [s EXCEPT !.scenario = s.task]}
    BY <1>2 DEF Node, Classify, RetrieveContext, Go
  <2> QED
    BY <2>1 DEF AgentState, Writes
<1>3. CASE n = "plan"
  <2>1. PICK t \in (IF s.plan = <<>> THEN PlannerRun(s) ELSE {s}) : o = Go(t, "validate_plan")
    BY <1>3 DEF Node, Plan
  <2>2. CASE t = s
    BY <1>0, <2>1, <2>2 DEF Go
  <2>3. CASE t # s
    <3>1. s.plan = <<>> /\ t \in PlannerRun(s)
      BY <2>1, <2>3
    <3>2. \E p, e : t = [s EXCEPT !.plan = p] \/ t = [s EXCEPT !.plan = p, !.last_error = e]
      BY <2>3, <3>1 DEF PlannerRun
    <3>3. o.agent = t
      BY <2>1 DEF Go
    <3> QED
      BY <1>3, <3>1, <3>2, <3>3 DEF AgentState, Writes
  <2> QED
    BY <2>2, <2>3
<1>4. CASE n = "select_step"
  <2> DEFINE m == s.steps_used + 1
  <2>1. \/ o.agent = s \/ o.agent = [s EXCEPT !.status = "partial", !.last_error = TRUE]
        \/ o.agent = [s EXCEPT !.steps_used = m]
    BY <1>4 DEF Node, SelectStep, Go
  <2> HIDE DEF m
  <2>2. o.agent = [s EXCEPT !.steps_used = m] => Writes(n, s, o.agent)
    BY <1>4 DEF AgentState, Writes
  <2> QED
    BY <1>0, <2>1, <2>2
<1>5. CASE n \in {"guardrail", "validate_plan"}
  <2> DEFINE id == StepOf(s).step_id
  <2>1. \/ o.agent = s \/ o.agent = [s EXCEPT !.status = "failed", !.last_error = TRUE]
        \/ o.agent = [s EXCEPT !.status = "denied"]
        \/ o.agent = [s EXCEPT !.status = "waiting_approval", !.pending_approval = id]
    BY <1>5 DEF Node, Guardrail, ValidatePlan, Go
  <2> HIDE DEF id
  <2>2. o.agent = [s EXCEPT !.status = "waiting_approval", !.pending_approval = id]
          => Writes(n, s, o.agent)
    BY DEF AgentState, Writes
  <2> QED
    BY <1>0, <2>1, <2>2
<1>6. CASE n = "execute"
  <2>1. CASE ~ToolBudgetLeft(s)
    <3>1. o.agent = [s EXCEPT !.status = "partial", !.last_error = TRUE]
      BY <1>6, <2>1 DEF Node, Execute, Go
    <3> QED
      BY <1>0, <3>1
  <2>2. CASE ToolBudgetLeft(s)
    <3>1. PICK r \in ToolResults[StepOf(s).tool_candidates[1]] : o = ToolReturns(s, r)
      BY <1>6, <2>2 DEF Node, Execute
    <3> DEFINE m == s.tool_calls_used + 1
               os == Append(s.observations,
                            [step_id |-> StepOf(s).step_id, result |-> r,
                             tool |-> StepOf(s).tool_candidates[1], inputs |-> StepOf(s).inputs])
    <3>2. o.agent = s \/ o.agent = [s EXCEPT !.tool_calls_used = m, !.observations = os]
      BY <3>1 DEF ToolReturns, Go
    <3> HIDE DEF m, os
    <3>3. o.agent = [s EXCEPT !.tool_calls_used = m, !.observations = os]
            => Writes(n, s, o.agent)
      BY <1>6 DEF AgentState, Writes
    <3> QED
      BY <1>0, <3>2, <3>3
  <2> QED
    BY <2>1, <2>2
<1>7. CASE n = "analyze"
  <2> DEFINE a == Append(s.analyzed, Len(s.observations))
  <2>1. o.agent \in {s, [s EXCEPT !.analyzed = a]}
    BY <1>7 DEF Node, Analyze, Go
  <2> HIDE DEF a
  <2> QED
    BY <1>7, <2>1 DEF AgentState, Writes
<1>8. CASE n = "verify"
  <2> DEFINE e == s.last_error \/ VerifierRejects(s)
             v == [s EXCEPT !.last_error = e]
             after == s.current_step_index + 1
  <2>1. o.agent \in {v, [v EXCEPT !.current_step_index = after], [v EXCEPT !.status = "partial"]}
    BY <1>8 DEF Node, Verify, Go
  <2> HIDE DEF e, after
  <2> QED
    BY <1>8, <2>1 DEF AgentState, Writes
<1>9. CASE n = "reflect"
  <2> DEFINE rc == [s.retry_counts EXCEPT ![StepOf(s).step_id] = @ + 1]
  <2>1. o.agent = [s EXCEPT !.retry_counts = rc, !.last_error = FALSE]
    BY <1>9 DEF Node, Reflect, Go
  <2> HIDE DEF rc
  <2> QED
    BY <1>9, <2>1 DEF AgentState, Writes
<1>10. CASE n = "report"
  <2> DEFINE f == FinalStatus(s)
  <2>1. o.agent = [s EXCEPT !.status = f, !.report = f]
    BY <1>10 DEF Node, Report, Go
  <2> HIDE DEF f
  <2> QED
    BY <1>10, <2>1 DEF AgentState, Writes
<1>11. CASE n \in {"observe", "memory_commit"}
  <2>1. o.agent = s
    BY <1>11 DEF Node, Observe, MemoryCommit, Go
  <2> QED
    BY <2>1 DEF Writes
<1>12. CASE n = "record_denial"
  <2>1. \E v : o.agent = [s EXCEPT !.status = v]
    BY <1>12 DEF Node, RecordDenial, Go
  <2> QED
    BY <1>0, <2>1
<1> QED
  BY <1>1, <1>2, <1>3, <1>4, <1>5, <1>6, <1>7, <1>8, <1>9, <1>10, <1>11, <1>12
     DEF GraphNodes

\* A step chosen is counted.
LEMMA SelectCounts ==
  ASSUME NEW s \in AgentState, NEW o \in SelectStep(s)
  PROVE  IF o.route = "guardrail"
           THEN o.agent.steps_used = s.steps_used + 1 /\ s.current_step_index < Len(s.plan)
           ELSE o.agent.steps_used = s.steps_used
<1>1. CASE o.route = "guardrail"
  <2> DEFINE m == s.steps_used + 1
  <2>1. o.agent = [s EXCEPT !.steps_used = m] /\ ~(s.current_step_index >= Len(s.plan))
    BY <1>1 DEF SelectStep, Go
  <2>2. s.current_step_index \in Nat /\ Len(s.plan) \in Nat
    BY DEF AgentState
  <2> HIDE DEF m
  <2>3. o.agent.steps_used = m
    BY <2>1 DEF AgentState
  <2> QED
    BY <1>1, <2>1, <2>2, <2>3 DEF m
<1>2. CASE o.route # "guardrail"
  <2>1. o.agent \in {s, [s EXCEPT !.status = "partial", !.last_error = TRUE]}
    BY <1>2 DEF SelectStep, Go
  <2> QED
    BY <1>2, <2>1 DEF AgentState
<1> QED
  BY <1>1, <1>2

\* A refused run goes to the report, memory_commit and its end.
LEMMA ExitRoutes ==
  ASSUME NEW n \in Exit, NEW s, NEW o \in Node(n, s)
  PROVE  /\ n = "record_denial" => o.route = "report"
         /\ n = "report" => o.route = "memory_commit"
         /\ n = "memory_commit" => o = Go(s, "end")
<1>1. CASE n = "record_denial"
  BY <1>1 DEF Node, RecordDenial, Go
<1>2. CASE n = "report"
  BY <1>2 DEF Node, Report, Go
<1>3. CASE n = "memory_commit"
  BY <1>3 DEF Node, MemoryCommit
<1> QED
  BY <1>1, <1>2, <1>3 DEF Exit

\* The answer is recorded; nothing is called.
LEMMA AnsweredKeeps ==
  ASSUME NEW s \in AgentState, s.pending_approval \in StepIds, NEW a \in ApprovalResponse
  PROVE  LET t == Answered(s, a)
             record == [step_id |-> s.pending_approval, decision |-> a.decision]
         IN  /\ t.approvals = Append(s.approvals, record)
             /\ t.observations = s.observations
             /\ t.status = IF a.decision = "deny" THEN "denied" ELSE "running"
             /\ \A x \in Elements(t.approvals) : x \in Elements(s.approvals) \/ x = record
             /\ record \in Elements(t.approvals)
<1> DEFINE i == s.current_step_index + 1
           record == [step_id |-> s.pending_approval, decision |-> a.decision]
           Records == [step_id : StepIds, decision : {"approve", "deny", "edit"}]
           ap == Append(s.approvals, record)
           pl == IF a.decision = "edit" /\ a.edited_parameters # None
                   THEN [s.plan EXCEPT ![i].inputs = a.edited_parameters] ELSE s.plan
           st == IF a.decision = "deny" THEN "denied" ELSE "running"
           t == [s EXCEPT !.approvals = ap, !.pending_approval = None, !.plan = pl,
                          !.status = st]
<1>1. Answered(s, a) = t
  BY DEF Answered
<1>2. s.approvals \in Seq(Records) /\ record \in Records
  BY DEF AgentState, ApprovalResponse
<1>3. /\ \A x \in Elements(ap) : x \in Elements(s.approvals) \/ x = record
      /\ record \in Elements(ap)
  <2> HIDE DEF record, Records
  <2> QED
    BY <1>2, ElementsAppend
<1> HIDE DEF pl, st, ap
<1>4. t.approvals = ap /\ t.observations = s.observations /\ t.status = st
  BY DEF AgentState
<1> QED
  BY <1>1, <1>3, <1>4 DEF ap, st

\* A nonempty set of natural numbers has a smallest one.
LEMMA Smallest ==
  ASSUME NEW S, S \subseteq Nat, S # {}
  PROVE  \E m \in S : \A n \in S : m <= n
<1> DEFINE R == {pair \in Nat \X Nat : pair[1] < pair[2]}
<1>1. IsWellFoundedOn(R, Nat)
  BY NatLessThanWellFounded DEF OpToRel
<1>2. PICK m \in S : \A n \in S : <<n, m>> \notin R
  BY <1>1, WFMin
<1>3. ASSUME NEW n \in S PROVE m <= n
  <2>1. <<n, m>> \in Nat \X Nat /\ <<n, m>> \notin R /\ m \in Nat /\ n \in Nat
    BY <1>2
  <2>2. ~(n < m)
    BY <2>1
  <2> QED
    BY <2>1, <2>2
<1> QED
  BY <1>3

\* A set without two different elements has at most one.
LEMMA AtMostOne ==
  ASSUME NEW S, \A x, y \in S : x = y
  PROVE  Cardinality(S) <= 1
<1>1. CASE S = {}
  <2>1. Cardinality(S) = 0
    BY <1>1, FS_EmptySet
  <2> QED
    BY <2>1
<1>2. CASE S # {}
  <2>1. PICK x \in S : S = {x}
    BY <1>2
  <2>2. Cardinality(S) = 1
    BY <2>1, FS_Singleton
  <2> QED
    BY <2>2
<1> QED
  BY <1>1, <1>2
=============================================================================
