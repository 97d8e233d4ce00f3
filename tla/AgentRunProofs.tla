--------------------------- MODULE AgentRunProofs ---------------------------
(***************************************************************************)
(* IInv is an inductive invariant of AgentRun, and what follows from it.   *)
(* The step proof rests on the node contract (AgentNodesProofs): one step  *)
(* per action of the run, and the contract does the rest.                  *)
(*                                                                         *)
(* The second part shows that a run implements RunLifecycle.  The third is *)
(* about the step loop: LoopInv counts, for every step of the plan, the    *)
(* observations the state already holds of it.                             *)
(***************************************************************************)
EXTENDS AgentRun, AgentNodesProofs

\* The recursion limit is a positive integer.
LEMMA LimitIsNat == RecursionLimit \in Nat \ {0}
BY BudgetAssumption DEF RecursionLimit

\* A run starts at ingest with a fresh state, which ingest relies on.
LEMMA InitInv == Init => IInv
BY NewAgentPasses, LimitIsNat DEF Init, IInv, GraphNodes

\* An aborted call leaves a state that waits for nobody, or one that still asks.
LEMMA AbortInv ==
  ASSUME IInv, next \in GraphNodes, Abort
  PROVE  IInv'
<1>0. /\ StateInv(agent) /\ call \in {"start", "resume", "replay"}
      /\ left \in 0..RecursionLimit /\ (call = "resume" => left = RecursionLimit)
      /\ NodeInv(next, agent)
  BY DEF IInv, NodeInv, GraphNodes
<1>1. CASE call = "start"
  <2> DEFINE t == [agent EXCEPT !.status = "failed", !.last_error = TRUE]
  <2>1. agent' = t /\ next' = "end" /\ call' = call /\ left' = left
    BY <1>1 DEF Abort
  <2>2. t \in AgentState
    BY <1>0 DEF StateInv, AgentState, RunStatus
  <2>3. /\ t.current_step_index = agent.current_step_index /\ t.plan = agent.plan
        /\ t.observations = agent.observations
        /\ t.tool_calls_used = agent.tool_calls_used
        /\ t.steps_used = agent.steps_used /\ t.approvals = agent.approvals
        /\ t.status = "failed"
    BY <1>0 DEF StateInv, AgentState
  <2> HIDE DEF t
  <2>4. StateInv(t)
    BY <1>0, <2>2, <2>3, SameFrame DEF StateInv
  <2> QED
    BY <1>0, <2>1, <2>3, <2>4 DEF IInv
<1>2. CASE call # "start"
  <2>1. agent' = agent /\ call' = call /\ left' = left
        /\ next' = IF agent.pending_approval # None THEN "interrupt" ELSE "dead"
    BY <1>2 DEF Abort
  <2>2. CASE agent.pending_approval # None
    <3>1. next = "approval"
      BY <1>0, <2>2 DEF NodeInv, Asking, GraphNodes
    <3>2. NodeInv("interrupt", agent)
      BY <1>0, <3>1 DEF NodeInv, Asking, BeforeCall, AfterCall
    <3> QED
      BY <1>0, <2>1, <2>2, <3>2 DEF IInv
  <2>3. CASE agent.pending_approval = None
    <3>1. agent.status # "waiting_approval"
      BY <1>0, <2>3 DEF NodeInv
    <3> QED
      BY <1>0, <2>1, <2>3, <3>1 DEF IInv
  <2> QED
    BY <2>2, <2>3
<1> QED
  BY <1>1, <1>2

\* Whatever a node's outcome is, taking it keeps the invariant.
LEMMA RunInv ==
  ASSUME IInv, NEW node \in GraphNodes \ {"approval"}, Run(node)
  PROVE  IInv'
<1>1. PICK outcome \in Node(node, agent) : Take(outcome)
  BY DEF Run
<1>2. /\ next = node /\ left \in 0..RecursionLimit /\ left > 0
      /\ call \in {"start", "resume", "replay"} /\ (call = "resume" => left = RecursionLimit)
  BY DEF Run, IInv
<1>3. NodeInv(node, agent)
  BY <1>2 DEF IInv, GraphNodes
<1>4. NodeInv(outcome.route, outcome.agent)
  BY <1>1, <1>3, NodePasses
<1>5. outcome.route \in GraphNodes \cup {"raise", "end"}
  BY <1>1, NodeRoutes
<1>6. CASE outcome.route = "raise"
  BY <1>1, <1>2, <1>6, AbortInv DEF Take
<1>7. CASE outcome.route # "raise"
  <2>1. /\ agent' = outcome.agent /\ next' = outcome.route /\ call' = call
        /\ left' = IF call = "resume" THEN left ELSE left - 1
    BY <1>1, <1>7 DEF Take
  <2>2. left' \in 0..RecursionLimit
    BY <1>2, <2>1, LimitIsNat
  <2>3. StateInv(outcome.agent)
        /\ (outcome.route = "end" => outcome.agent.status # "waiting_approval")
    BY <1>4 DEF NodeInv, Asking
  <2> QED
    BY <1>2, <1>4, <1>5, <1>7, <2>1, <2>2, <2>3 DEF IInv, GraphNodes
<1> QED
  BY <1>6, <1>7

\* Every step of a run keeps the invariant.
LEMMA NextInv == IInv /\ [Next]_vars => IInv'
<1> SUFFICES ASSUME IInv, [Next]_vars PROVE IInv'
  OBVIOUS
<1>1. ASSUME NEW node \in GraphNodes \ {"approval"}, Run(node) PROVE IInv'
  BY <1>1, RunInv
<1>2. CASE AskApproval
  <2>1. PICK outcome \in Approval(agent, None) : Take(outcome)
    BY <1>2 DEF AskApproval
  <2>2. next = "approval" /\ left \in 0..RecursionLimit /\ left > 0
        /\ call \in {"start", "resume", "replay"} /\ (call = "resume" => left = RecursionLimit)
        /\ NodeInv("approval", agent)
    BY <1>2 DEF AskApproval, IInv
  <2>3. agent.pending_approval # None
    BY <2>2 DEF NodeInv, Asking
  <2>4. outcome = Go(agent, "interrupt")
    BY <2>1, <2>3 DEF Approval
  <2>5. /\ agent' = agent /\ next' = "interrupt" /\ call' = call
        /\ left' = IF call = "resume" THEN left ELSE left - 1
    BY <2>1, <2>4 DEF Take, Go
  <2>6. left' \in 0..RecursionLimit
    BY <2>2, <2>5, LimitIsNat
  <2>7. NodeInv("interrupt", agent)
    BY <2>2 DEF NodeInv, Asking, BeforeCall, AfterCall
  <2> QED
    BY <2>2, <2>5, <2>6, <2>7 DEF IInv
<1>3. CASE OutOfSteps
  BY <1>3, AbortInv DEF OutOfSteps
<1>4. ASSUME NEW response \in ApprovalResponse, Answer(response) PROVE IInv'
  <2>1. PICK outcome \in Approval(agent, response) :
          IF outcome.route = "raise"
            THEN agent' = Answered(agent, response) /\ next' = "ingest" /\ call' = "replay"
            ELSE agent' = outcome.agent /\ next' = outcome.route /\ call' = "resume"
    BY <1>4 DEF Answer
  <2>2. next = "interrupt" /\ left' = RecursionLimit /\ left' \in 0..RecursionLimit
    BY <1>4, LimitIsNat DEF Answer
  <2>3. NodeInv("approval", agent)
    BY <2>2 DEF IInv, NodeInv, Asking, BeforeCall, AfterCall
  <2>4. agent.pending_approval # None
    BY <2>3 DEF NodeInv, Asking
  <2>5. CASE outcome.route = "raise"
    <3>1. NodeInv("ingest", Answered(agent, response))
      BY <2>3, ReplayPasses
    <3> QED
      BY <2>1, <2>2, <2>5, <3>1 DEF IInv, GraphNodes
  <2>6. CASE outcome.route # "raise"
    <3>1. NodeInv(outcome.route, outcome.agent)
      BY <2>1, <2>3, <2>6, ApprovalPasses
    <3>2. outcome.route \in {"record_denial", "execute"}
      BY <2>1, <2>4, <2>6, ApprovalOutcome DEF Go
    <3> QED
      BY <2>1, <2>2, <2>6, <3>1, <3>2 DEF IInv, GraphNodes
  <2> QED
    BY <2>5, <2>6
<1>5. CASE UNCHANGED vars
  BY <1>5 DEF IInv, vars
<1>6. CASE Work
  BY <1>1, <1>2, <1>3, <1>6
     DEF Work, GraphNodes, RunIngest, RunClassify, RunRetrieveContext, RunPlan,
         RunValidatePlan, RunSelectStep, RunGuardrail, RunRecordDenial, RunExecute,
         RunObserve, RunAnalyze, RunVerify, RunReflect, RunReport, RunMemoryCommit
<1> QED
  BY <1>4, <1>5, <1>6 DEF Next

\* At every reachable state of a run, the node that is next finds what it
\* relies on without checking it.
THEOREM Invariance == Spec => []IInv
BY InitInv, NextInv, PTL DEF Spec

\* The agent state keeps the schema of AgentState (schemas.py) and the run's
\* control stays within its nodes and its recursion limit.
THEOREM TypeCorrect == Spec => []TypeOK
<1>1. IInv => TypeOK
  BY DEF IInv, TypeOK, NodeInv, StateInv
<1> QED
  BY <1>1, Invariance, PTL

\* No tool call is unauthorized: every call was allowed by the guardrail for
\* the parameters it ran with or approved by the operator, never at risk 3.
THEOREM CallsAreAuthorized == Spec => []CallsAuthorized
<1>1. IInv => CallsAuthorized
  BY DEF IInv, CallsAuthorized, NodeInv, StateInv
<1> QED
  BY <1>1, Invariance, PTL

\* The step and tool budgets bound what really ran, for every budget.
THEOREM BudgetsHold == Spec => []BudgetsBound
<1>1. IInv => BudgetsBound
  BY DEF IInv, BudgetsBound, NodeInv, StateInv
<1> QED
  BY <1>1, Invariance, PTL

\* The API's pending request and the graph's interrupt agree at every state.
THEOREM WaitingMeansAsking == Spec => []WaitingIsAsking
<1>1. IInv => WaitingIsAsking
  BY DEF IInv, WaitingIsAsking, NodeInv
<1> QED
  BY <1>1, Invariance, PTL
-----------------------------------------------------------------------------
\* The inductive invariant: IInv says nothing of approvals and reports, and the
\* life of a run needs both.  A denial was given in a resumed call and leads
\* straight out; only the report completes a run, and it settles the status.
LifeInv ==
  /\ IInv
  /\ Refused => agent.status = "denied" /\ next \in Exit \cup {"end"} /\ call = "resume"
  /\ agent.status = "completed" =>
       next \in {"memory_commit", "end", "dead"} /\ agent.observations # <<>>
  /\ next = "memory_commit" => agent.report = agent.status /\ agent.status \in Terminal
  /\ EndIsReported

\* A new run was refused nothing and has reported nothing.
LEMMA InitLife == Init => LifeInv
<1> SUFFICES ASSUME Init PROVE LifeInv
  OBVIOUS
<1>1. PICK task \in Scenarios : agent = NewAgent(task)
  BY DEF Init
<1>2. agent.approvals = <<>> /\ agent.status = "pending"
  BY <1>1 DEF NewAgent
<1>3. ~Refused
  BY <1>2 DEF Refused, Elements
<1> QED
  BY <1>2, <1>3, InitInv DEF Init, LifeInv, EndIsReported

\* A call that is aborted leaves a run nobody refused.
LEMMA AbortLife ==
  ASSUME LifeInv, Abort, IInv', ~Refused
  PROVE  LifeInv'
<1>1. CASE call = "start"
  <2> DEFINE t == [agent EXCEPT !.status = "failed", !.last_error = TRUE]
  <2>1. agent' = t /\ next' = "end" /\ call' = "start"
    BY <1>1 DEF Abort
  <2>2. agent \in AgentState
    BY DEF LifeInv, IInv, NodeInv, StateInv
  <2>3. t.approvals = agent.approvals /\ t.status = "failed"
    BY <2>2 DEF AgentState
  <2> HIDE DEF t
  <2>4. ~Refused'
    BY <2>1, <2>3 DEF Refused
  <2> QED
    BY <2>1, <2>3, <2>4 DEF LifeInv, EndIsReported
<1>2. CASE call # "start"
  <2>1. agent' = agent /\ next' \in {"interrupt", "dead"}
    BY <1>2 DEF Abort
  <2>2. next' = "interrupt" => agent'.status = "waiting_approval"
    BY DEF IInv, NodeInv, Asking
  <2>3. ~Refused'
    BY <2>1 DEF Refused
  <2> QED
    BY <2>1, <2>2, <2>3 DEF LifeInv, EndIsReported
<1> QED
  BY <1>1, <1>2

\* One node of the graph, its exception included, keeps the invariant.
LEMMA RunLife ==
  ASSUME LifeInv, IInv', NEW node \in GraphNodes \ {"approval"}, Run(node)
  PROVE  LifeInv'
<1>1. PICK o \in Node(node, agent) : Take(o)
  BY DEF Run
<1>2. next = node /\ agent \in AgentState
  BY DEF Run, LifeInv, IInv, NodeInv, StateInv
<1>3. Keeps(node, agent, o.agent)
  BY <1>1, <1>2, NodeKeeps
<1>4. Refused => node \in Exit /\ agent.status = "denied" /\ call = "resume"
  BY <1>2 DEF LifeInv, GraphNodes
<1>5. agent.status = "completed" => node = "memory_commit"
  BY <1>2 DEF LifeInv, GraphNodes
<1>6. CASE o.route = "raise"
  <2>1. node \notin Exit
    BY <1>1, <1>6, ExitRoutes DEF Exit, Go
  <2> QED
    BY <1>1, <1>4, <1>5, <1>6, <2>1, AbortLife DEF Take, Exit
<1>7. CASE o.route # "raise"
  <2>1. agent' = o.agent /\ next' = o.route /\ call' = call
    BY <1>1, <1>7 DEF Take
  <2>2. Refused' => Refused
    BY <1>3, <2>1 DEF Keeps, Refused
  <2>3. Refused' => agent'.status = "denied" /\ next' \in Exit \cup {"end"} /\ call' = "resume"
    <3>1. Refused' => node \in Exit /\ agent'.status = "denied" /\ call' = "resume"
      BY <1>3, <1>4, <2>1, <2>2 DEF Keeps
    <3>2. node \in Exit => next' \in Exit \cup {"end"}
      BY <1>1, <2>1, ExitRoutes DEF Exit, Go
    <3> QED
      BY <3>1, <3>2
  <2>4. CASE node = "report"
    <3>1. o \in Report(agent)
      BY <1>1, <2>4 DEF Node
    <3>2. next' = "memory_commit"
      BY <1>1, <2>1, <2>4, ExitRoutes DEF Exit
    <3>3. /\ agent'.report = agent'.status /\ agent'.status \in Terminal
          /\ agent'.status = "completed" => agent'.observations # <<>>
      BY <1>2, <1>3, <2>1, <2>4, <3>1, ReportSettles DEF Keeps
    <3> QED
      BY <2>3, <3>2, <3>3 DEF LifeInv, EndIsReported
  <2>5. CASE node = "memory_commit"
    <3>1. next' = "end" /\ agent' = agent
      BY <1>1, <2>1, <2>5, ExitRoutes DEF Exit, Go
    <3> QED
      BY <1>2, <2>3, <2>5, <3>1 DEF LifeInv, EndIsReported
  <2>6. CASE node \notin {"report", "memory_commit"}
    <3>1. next' # "memory_commit" /\ next' # "end"
      BY <1>1, <2>1, <2>6, NodeRoutes
    <3>2. agent'.status # "completed"
      BY <1>3, <1>5, <2>1, <2>6 DEF Keeps
    <3> QED
      BY <2>3, <3>1, <3>2 DEF LifeInv, EndIsReported
  <2> QED
    BY <2>4, <2>5, <2>6
<1> QED
  BY <1>6, <1>7

\* What an answer does: it is applied to the state, by the node or by resume.
LEMMA AnswerGoes ==
  ASSUME NEW response \in ApprovalResponse, Answer(response), agent.pending_approval # None
  PROVE  /\ agent' = Answered(agent, response)
         /\ IF Unvalidated(response)
              THEN next' = "ingest" /\ call' = "replay" /\ response.decision = "edit"
              ELSE /\ next' = IF response.decision = "deny" THEN "record_denial" ELSE "execute"
                   /\ call' = "resume"
<1>1. PICK o \in Approval(agent, response) :
        IF o.route = "raise"
          THEN agent' = Answered(agent, response) /\ next' = "ingest" /\ call' = "replay"
          ELSE agent' = o.agent /\ next' = o.route /\ call' = "resume"
  BY DEF Answer
<1>2. o = IF Unvalidated(response) THEN Go(agent, "raise")
          ELSE Go(Answered(agent, response),
                  IF response.decision = "deny" THEN "record_denial" ELSE "execute")
  BY ApprovalOutcome
<1>3. CASE Unvalidated(response)
  <2>1. response.decision = "edit" /\ o.route = "raise"
    BY <1>2, <1>3 DEF Unvalidated, Go
  <2> QED
    BY <1>1, <1>3, <2>1
<1>4. CASE ~Unvalidated(response)
  <2>1. /\ o.agent = Answered(agent, response)
        /\ o.route = IF response.decision = "deny" THEN "record_denial" ELSE "execute"
    BY <1>2, <1>4 DEF Go
  <2> QED
    BY <1>1, <1>4, <2>1
<1> QED
  BY <1>3, <1>4

\* The answer's effect on what LifeInv and the life of a run are about.
LEMMA AnswerEffect ==
  ASSUME LifeInv, NEW response \in ApprovalResponse, Answer(response)
  PROVE  /\ next = "interrupt" /\ ~Refused
         /\ agent'.observations = agent.observations
         /\ Refused' <=> response.decision = "deny"
         /\ agent'.status = IF response.decision = "deny" THEN "denied" ELSE "running"
         /\ IF response.decision = "deny" THEN next' = "record_denial" /\ call' = "resume"
                                          ELSE next' \in {"execute", "ingest"}
<1>1. next = "interrupt" /\ ~Refused
  BY DEF Answer, LifeInv, Exit
<1>2. agent \in AgentState /\ agent.pending_approval # None
  BY <1>1 DEF LifeInv, IInv, NodeInv, StateInv, Asking
<1>3. agent.pending_approval \in StepIds
  BY <1>2 DEF AgentState
<1> DEFINE t == Answered(agent, response)
           record == [step_id |-> agent.pending_approval, decision |-> response.decision]
<1>6. /\ agent' = t
      /\ IF response.decision = "deny" THEN next' = "record_denial" /\ call' = "resume"
                                       ELSE next' \in {"execute", "ingest"}
  BY <1>2, AnswerGoes
<1>7. /\ t.observations = agent.observations
      /\ t.status = IF response.decision = "deny" THEN "denied" ELSE "running"
      /\ \A x \in Elements(t.approvals) : x \in Elements(agent.approvals) \/ x = record
      /\ record \in Elements(t.approvals)
  BY <1>2, <1>3, AnsweredKeeps
<1>8. record.decision = response.decision
  OBVIOUS
<1> HIDE DEF t, record
<1>9. Refused' <=> response.decision = "deny"
  BY <1>1, <1>6, <1>7, <1>8 DEF Refused
<1> QED
  BY <1>1, <1>6, <1>7, <1>9

\* Asking changes the control alone.
LEMMA AskEffect ==
  ASSUME LifeInv, AskApproval
  PROVE  next = "approval" /\ next' = "interrupt" /\ agent' = agent /\ call' = call /\ ~Refused
<1>1. next = "approval" /\ ~Refused
  BY DEF AskApproval, LifeInv, Exit
<1>2. agent.pending_approval # None
  BY <1>1 DEF LifeInv, IInv, NodeInv, Asking
<1>3. PICK o \in Approval(agent, None) : Take(o)
  BY DEF AskApproval
<1>4. o = Go(agent, "interrupt")
  BY <1>2, <1>3 DEF Approval
<1> QED
  BY <1>1, <1>3, <1>4 DEF Take, Go

\* The limit is met in a call that nobody's denial resumed.
LEMMA OutOfStepsEffect ==
  ASSUME LifeInv, OutOfSteps
  PROVE  next \in GraphNodes /\ Abort /\ call # "resume" /\ ~Refused
BY LimitIsNat DEF OutOfSteps, LifeInv, IInv

\* Every step of a run keeps the invariant.
LEMMA NextLife == LifeInv /\ [Next]_vars => LifeInv'
<1> SUFFICES ASSUME LifeInv, [Next]_vars PROVE LifeInv'
  OBVIOUS
<1>1. IInv'
  BY NextInv DEF LifeInv
<1>2. ASSUME NEW node \in GraphNodes \ {"approval"}, Run(node) PROVE LifeInv'
  BY <1>1, <1>2, RunLife
<1>3. CASE AskApproval
  <2>1. next = "approval" /\ next' = "interrupt" /\ agent' = agent /\ ~Refused
    BY <1>3, AskEffect
  <2>2. ~Refused'
    BY <2>1 DEF Refused
  <2> QED
    BY <1>1, <2>1, <2>2 DEF LifeInv, EndIsReported
<1>4. CASE OutOfSteps
  BY <1>1, <1>4, OutOfStepsEffect, AbortLife
<1>5. ASSUME NEW response \in ApprovalResponse, Answer(response) PROVE LifeInv'
  <2>1. /\ Refused' <=> response.decision = "deny"
        /\ agent'.status = IF response.decision = "deny" THEN "denied" ELSE "running"
        /\ IF response.decision = "deny" THEN next' = "record_denial" /\ call' = "resume"
                                         ELSE next' \in {"execute", "ingest"}
    BY <1>5, AnswerEffect
  <2> QED
    BY <1>1, <2>1 DEF LifeInv, EndIsReported, Exit
<1>6. CASE UNCHANGED vars
  BY <1>1, <1>6 DEF vars, LifeInv, EndIsReported, Refused
<1>7. CASE Work
  BY <1>2, <1>3, <1>4, <1>7
     DEF Work, GraphNodes, RunIngest, RunClassify, RunRetrieveContext, RunPlan,
         RunValidatePlan, RunSelectStep, RunGuardrail, RunRecordDenial, RunExecute,
         RunObserve, RunAnalyze, RunVerify, RunReflect, RunReport, RunMemoryCommit
<1> QED
  BY <1>5, <1>6, <1>7 DEF Next

\* LifeInv holds at every state of a run.
LEMMA LifeInvariance == Spec => []LifeInv
BY InitLife, NextLife, PTL DEF Spec

\* A run that ended by itself carries a report with its final status; only an
\* exception in the first call ends a run without one.
THEOREM EndsAreReported == Spec => []EndIsReported
<1>1. LifeInv => EndIsReported
  BY DEF LifeInv
<1> QED
  BY <1>1, LifeInvariance, PTL

\* A run begins as RunLifecycle says.
LEMMA LifeBegins == Init => Lifecycle!Init
<1> SUFFICES ASSUME Init PROVE Lifecycle!Init
  OBVIOUS
<1>1. PICK task \in Scenarios : agent = NewAgent(task)
  BY DEF Init
<1>2. agent.approvals = <<>> /\ agent.observations = <<>>
  BY <1>1 DEF NewAgent
<1>3. next = "ingest"
  BY DEF Init
<1>4. ~Refused /\ Calls = 0
  BY <1>2 DEF Refused, Elements, Calls
<1>5. Refused = FALSE
  BY <1>4 DEF Refused
<1> QED
  BY <1>3, <1>4, <1>5 DEF Lifecycle!Init, Phase, Verdict

\* The phase and the verdict of a run, read from its control ...
LEMMA PhaseOf ==
  /\ next \in GraphNodes => Phase = "working" /\ Verdict = "open"
  /\ next = "interrupt" => Phase = "waiting" /\ Verdict = "open"
  /\ next = "end" => Phase = "closed" /\ Verdict = agent.status
  /\ next = "dead" => Phase = "closed" /\ Verdict = "lost"
BY DEF Phase, Verdict, GraphNodes

\* ... and after a step.
LEMMA NextPhaseOf ==
  /\ next' \in GraphNodes => Phase' = "working" /\ Verdict' = "open"
  /\ next' = "interrupt" => Phase' = "waiting" /\ Verdict' = "open"
  /\ next' = "end" => Phase' = "closed" /\ Verdict' = agent'.status
  /\ next' = "dead" => Phase' = "closed" /\ Verdict' = "lost"
BY DEF Phase, Verdict, GraphNodes

\* An aborted call closes the run as failed or lost, or leaves it asking.
LEMMA AbortCloses ==
  ASSUME LifeInv, next \in GraphNodes, Abort, ~Refused
  PROVE  Lifecycle!Next
<1>1. agent \in AgentState
  BY DEF LifeInv, IInv, NodeInv, StateInv, GraphNodes
<1> DEFINE t == [agent EXCEPT !.status = "failed", !.last_error = TRUE]
<1>2. \/ agent' = t /\ next' = "end"
      \/ agent' = agent /\ next' \in {"dead", "interrupt"}
  BY DEF Abort
<1>3. /\ t.approvals = agent.approvals /\ t.observations = agent.observations
      /\ t.status = "failed"
  BY <1>1 DEF AgentState
<1> HIDE DEF t
<1>4. Calls' = Calls
  BY <1>2, <1>3 DEF Calls
<1>5. Refused' = Refused
  BY <1>2, <1>3 DEF Refused
<1>6. Phase = "working" /\ Verdict = "open"
  BY PhaseOf
<1>7. CASE next' = "interrupt"
  <2>1. Phase' = "waiting" /\ Verdict' = "open"
    BY <1>7, NextPhaseOf
  <2>2. Lifecycle!Ask
    BY <1>4, <1>5, <1>6, <2>1 DEF Lifecycle!Ask
  <2> QED
    BY <2>2 DEF Lifecycle!Next
<1>8. CASE next' # "interrupt"
  <2>1. Phase' = "closed" /\ Verdict' \in {"failed", "lost"}
    BY <1>2, <1>3, <1>8, NextPhaseOf
  <2>2. Lifecycle!Close(Verdict')
    BY <1>4, <1>5, <1>6, <2>1 DEF Lifecycle!Close
  <2> QED
    BY <2>1, <2>2 DEF Lifecycle!Next, Lifecycle!Verdicts
<1> QED
  BY <1>7, <1>8

\* One node of the graph is a step of the run's life or leaves it alone.
LEMMA RunLives ==
  ASSUME LifeInv, NEW node \in GraphNodes \ {"approval"}, Run(node)
  PROVE  Lifecycle!Next \/ UNCHANGED Lifecycle!vars
<1>1. PICK o \in Node(node, agent) : Take(o)
  BY DEF Run
<1>2. /\ next = node /\ StateInv(agent) /\ agent \in AgentState
      /\ Phase = "working" /\ Verdict = "open"
  BY PhaseOf DEF Run, LifeInv, IInv, NodeInv, StateInv, GraphNodes
<1>3. Keeps(node, agent, o.agent)
  BY <1>1, <1>2, NodeKeeps
<1>4. CASE o.route = "raise"
  <2>1. node \notin Exit
    BY <1>1, <1>4, ExitRoutes DEF Exit, Go
  <2>2. ~Refused
    BY <1>2, <2>1 DEF LifeInv, GraphNodes
  <2> QED
    BY <1>1, <1>2, <1>4, <2>2, AbortCloses DEF Take
<1>5. CASE o.route # "raise"
  <2>1. agent' = o.agent /\ next' = o.route
    BY <1>1, <1>5 DEF Take
  <2>2. Refused' = Refused
    BY <1>3, <2>1 DEF Refused, Keeps
  <2>3. CASE node = "memory_commit"
    <3>1. next' = "end" /\ agent' = agent
      BY <1>1, <2>1, <2>3, ExitRoutes DEF Exit, Go
    <3>2. Phase' = "closed" /\ Verdict' = agent.status /\ Calls' = Calls
      BY <3>1, NextPhaseOf DEF Calls
    <3>3. agent.status \in Terminal
      BY <1>2, <2>3 DEF LifeInv
    <3>4. agent.status = "completed" => Calls > 0 /\ ~Refused
      <4>1. agent.status = "completed" => agent.observations # <<>> /\ ~Refused
        BY DEF LifeInv
      <4>2. agent.observations \in Seq(Observation)
        BY <1>2 DEF AgentState
      <4> QED
        BY <4>1, <4>2 DEF Calls
    <3>5. Lifecycle!Close(agent.status)
      BY <1>2, <2>2, <3>2, <3>4 DEF Lifecycle!Close
    <3> QED
      BY <3>3, <3>5 DEF Lifecycle!Next, Lifecycle!Verdicts, Terminal
  <2>4. CASE node # "memory_commit"
    <3>1. next' \in GraphNodes
      BY <1>1, <1>5, <2>1, <2>4, NodeRoutes
    <3>2. Phase' = "working" /\ Verdict' = "open"
      BY <3>1, NextPhaseOf
    <3>3. CASE agent'.observations = agent.observations
      <4>1. Calls' = Calls
        BY <3>3 DEF Calls
      <4> QED
        BY <1>2, <2>2, <3>2, <4>1 DEF Lifecycle!vars
    <3>4. CASE agent'.observations # agent.observations
      <4>1. node = "execute"
        BY <1>3, <2>1, <3>4 DEF Keeps
      <4>2. ToolBudgetLeft(agent) /\ Len(agent'.observations) = Len(agent.observations) + 1
        BY <1>1, <1>2, <2>1, <3>4, <4>1, ExecuteKeeps DEF Node
      <4>3. Calls < MaxToolCalls /\ Calls' = Calls + 1
        BY <1>2, <4>2 DEF ToolBudgetLeft, StateInv, Calls
      <4>4. ~Refused
        BY <1>2, <4>1 DEF LifeInv, Exit
      <4>5. Lifecycle!CallTool
        BY <1>2, <2>2, <3>2, <4>3, <4>4 DEF Lifecycle!CallTool
      <4> QED
        BY <4>5 DEF Lifecycle!Next
    <3> QED
      BY <3>3, <3>4
  <2> QED
    BY <2>3, <2>4
<1> QED
  BY <1>4, <1>5

\* Every step of a run is a step of its life or leaves its life alone.
LEMMA LifeSteps == LifeInv /\ [Next]_vars => Lifecycle!Next \/ UNCHANGED Lifecycle!vars
<1> SUFFICES ASSUME LifeInv, [Next]_vars
             PROVE  Lifecycle!Next \/ UNCHANGED Lifecycle!vars
  OBVIOUS
<1>1. ASSUME NEW node \in GraphNodes \ {"approval"}, Run(node)
      PROVE  Lifecycle!Next \/ UNCHANGED Lifecycle!vars
  BY <1>1, RunLives
<1>2. CASE AskApproval
  <2>1. next = "approval" /\ next' = "interrupt" /\ agent' = agent /\ ~Refused
    BY <1>2, AskEffect
  <2>2. Phase = "working" /\ Phase' = "waiting" /\ Verdict' = Verdict
    BY <2>1, PhaseOf, NextPhaseOf DEF GraphNodes
  <2>3. Calls' = Calls
    BY <2>1 DEF Calls
  <2>4. Refused' = Refused
    BY <2>1 DEF Refused
  <2>5. Lifecycle!Ask
    BY <2>1, <2>2, <2>3, <2>4 DEF Lifecycle!Ask
  <2> QED
    BY <2>5 DEF Lifecycle!Next
<1>3. CASE OutOfSteps
  BY <1>3, OutOfStepsEffect, AbortCloses
<1>4. ASSUME NEW response \in ApprovalResponse, Answer(response)
      PROVE  Lifecycle!Next \/ UNCHANGED Lifecycle!vars
  <2> DEFINE approved == response.decision # "deny"
  <2>1. /\ next = "interrupt" /\ agent'.observations = agent.observations
        /\ Refused' <=> response.decision = "deny"
        /\ next' \in {"record_denial", "execute", "ingest"}
    BY <1>4, AnswerEffect
  <2>2. Phase = "waiting" /\ Phase' = "working" /\ Verdict' = Verdict
    BY <2>1, PhaseOf, NextPhaseOf DEF GraphNodes
  <2>3. Calls' = Calls
    BY <2>1 DEF Calls
  <2>4. Refused' = ~approved
    BY <2>1 DEF Refused
  <2>5. Lifecycle!GiveAnswer(approved)
    BY <2>2, <2>3, <2>4 DEF Lifecycle!GiveAnswer
  <2> QED
    BY <2>5 DEF Lifecycle!Next
<1>5. CASE UNCHANGED vars
  <2>1. agent' = agent /\ next' = next
    BY <1>5 DEF vars
  <2> QED
    BY <2>1 DEF Lifecycle!vars, Phase, Calls, Refused, Verdict
<1>6. CASE Work
  BY <1>1, <1>2, <1>3, <1>6
     DEF Work, GraphNodes, RunIngest, RunClassify, RunRetrieveContext, RunPlan,
         RunValidatePlan, RunSelectStep, RunGuardrail, RunRecordDenial, RunExecute,
         RunObserve, RunAnalyze, RunVerify, RunReflect, RunReport, RunMemoryCommit
<1> QED
  BY <1>4, <1>5, <1>6 DEF Next

\* A run keeps the safety part of its promise, for every registry, plan, policy
\* and budget: once refused it calls no tool and asks nothing more, it closes
\* once, and as completed only if some tool was called and nothing was refused.
THEOREM LivesAsPromised ==
  Spec => Lifecycle!Init /\ [][Lifecycle!Next]_(Lifecycle!vars)
BY LifeBegins, LifeSteps, LifeInvariance, PTL DEF Spec
-----------------------------------------------------------------------------
(***************************************************************************)
(* What the run did at the steps of its plan.  LoopInv(n, s) says what the *)
(* step loop of the graph keeps: which steps were tried, how often, and    *)
(* which of them succeeded, seen from node n with state s.                 *)
(***************************************************************************)

CallsIn(s, id) == {i \in DOMAIN s.observations : s.observations[i].step_id = id}

SucceededBy(s, id, last) ==
  \E j \in 1..last : /\ s.observations[j].step_id = id
                     /\ s.observations[j].result.status = "success"

DistinctSteps(plan) == \A i, j \in DOMAIN plan : plan[i].step_id = plan[j].step_id => i = j

AttemptsKept(s) ==
  \A i \in DOMAIN s.plan : Cardinality(CallsIn(s, s.plan[i].step_id)) <= s.plan[i].max_attempts

OrderKept(s) ==
  \A i \in DOMAIN s.observations, k \in DOMAIN s.plan :
    s.plan[k].step_id = s.observations[i].step_id =>
      \A e \in 1..(k - 1) : SucceededBy(s, s.plan[e].step_id, i - 1)

\* Until the tool budget is spent, a result that has not been analysed yet is
\* new.
AnalysesKept(n, s) ==
  s.tool_calls_used < MaxToolCalls =>
    /\ \A i, j \in DOMAIN s.analyzed : s.analyzed[i] = s.analyzed[j] => i = j
    /\ \A i \in DOMAIN s.analyzed :
         /\ s.analyzed[i] <= Len(s.observations)
         /\ n \in {"observe", "analyze"} => s.analyzed[i] < Len(s.observations)

Unplanned == {"ingest", "classify", "retrieve_context", "plan", "validate_plan"}
InLoop == {"select_step"} \cup BeforeCall \cup AfterCall

Untried(s, k) ==
  s.retry_counts[s.plan[k].step_id] = 0 /\ CallsIn(s, s.plan[k].step_id) = {}

Retries(s) == s.retry_counts[StepOf(s).step_id]

\* The current step: each of its calls but the first was a counted retry.
Trying(n, s) ==
  LET calls == Cardinality(CallsIn(s, StepOf(s).step_id))
  IN  /\ Retries(s) < StepOf(s).max_attempts
      /\ calls <= IF n \in AfterCall THEN Retries(s) + 1 ELSE Retries(s)
      /\ n = "reflect" => Retries(s) + 1 < StepOf(s).max_attempts

\* Nothing was tried yet.
Fresh(s) == /\ s.observations = <<>> /\ s.analyzed = <<>> /\ s.current_step_index = 0
            /\ \A id \in StepIds : s.retry_counts[id] = 0

\* The plan is walked, and n is where the walk is.
InPlan(n, s) ==
  /\ DistinctSteps(s.plan)
  /\ \A k \in DOMAIN s.plan : k > s.current_step_index + 1 => Untried(s, k)
  /\ s.current_step_index < Len(s.plan) => Trying(n, s)
  /\ \A e \in 1..s.current_step_index :
       SucceededBy(s, s.plan[e].step_id, Len(s.observations))
  /\ n \in {"observe", "analyze", "verify"} =>
       s.last_error \/ Latest(s).step_id = StepOf(s).step_id

\* A run comes to the nodes before the loop with nothing tried, or in a replay
\* with a plan it walks already.
LoopInv(n, s) ==
  /\ AttemptsKept(s) /\ OrderKept(s) /\ AnalysesKept(n, s)
  /\ n \in Unplanned => Fresh(s) \/ (s.plan # <<>> /\ InPlan("select_step", s))
  /\ n \in InLoop => InPlan(n, s)

\* What a node that is not about the steps leaves of them: the results, what
\* was analysed, and of the plan the names of the steps and their attempts.
SameSteps(s, t) ==
  /\ t.observations = s.observations /\ t.analyzed = s.analyzed
  /\ t.tool_calls_used = s.tool_calls_used
  /\ DOMAIN t.plan = DOMAIN s.plan /\ Len(t.plan) = Len(s.plan)
  /\ \A i \in DOMAIN s.plan : /\ t.plan[i].step_id = s.plan[i].step_id
                              /\ t.plan[i].max_attempts = s.plan[i].max_attempts

\* The facts about a state that the lemmas below keep needing.
LEMMA StateFacts ==
  ASSUME NEW s \in AgentState
  PROVE  /\ s.current_step_index \in Nat /\ Len(s.plan) \in Nat
         /\ DOMAIN s.plan = 1..Len(s.plan)
         /\ \A k \in DOMAIN s.plan : s.plan[k] \in PlanStep /\ s.plan[k].step_id \in StepIds
                                     /\ s.plan[k].max_attempts \in 1..5
         /\ Len(s.observations) \in Nat /\ DOMAIN s.observations = 1..Len(s.observations)
         /\ s.retry_counts \in [StepIds -> Nat] /\ s.tool_calls_used \in Nat
         /\ s.analyzed \in Seq(Nat)
<1>1. s.plan \in Seq(PlanStep) /\ s.observations \in Seq(Observation)
  BY DEF AgentState
<1>2. \A k \in DOMAIN s.plan : s.plan[k] \in PlanStep
  BY <1>1
<1>3. \A step \in PlanStep : step.step_id \in StepIds /\ step.max_attempts \in 1..5
  BY DEF PlanStep
<1> QED
  BY <1>1, <1>2, <1>3 DEF AgentState

\* The current step is one of the plan's.
LEMMA StepFacts ==
  ASSUME NEW s \in AgentState, s.current_step_index < Len(s.plan)
  PROVE  /\ s.current_step_index + 1 \in DOMAIN s.plan
         /\ StepOf(s) = s.plan[s.current_step_index + 1]
         /\ StepOf(s).step_id \in StepIds /\ StepOf(s).max_attempts \in 1..5
         /\ Retries(s) \in Nat
<1>1. s.current_step_index + 1 \in DOMAIN s.plan
  BY StateFacts
<1> QED
  BY <1>1, StateFacts DEF StepOf, Retries

\* The calls of a step are finitely many.
LEMMA CallsFinite ==
  ASSUME NEW s \in AgentState, NEW id
  PROVE  IsFiniteSet(CallsIn(s, id)) /\ Cardinality(CallsIn(s, id)) \in Nat
<1>1. CallsIn(s, id) \subseteq 1..Len(s.observations) /\ Len(s.observations) \in Nat
  BY StateFacts DEF CallsIn
<1>2. IsFiniteSet(1..Len(s.observations))
  BY <1>1, FS_Interval
<1>3. IsFiniteSet(CallsIn(s, id))
  BY <1>1, <1>2, FS_Subset
<1> QED
  BY <1>3, FS_CardinalityType

\* What was kept stays kept.
LEMMA StepsFrame ==
  ASSUME NEW n, NEW s \in AgentState, LoopInv(n, s), NEW t \in AgentState, SameSteps(s, t),
         NEW m, m \in {"observe", "analyze"} => n \in {"observe", "analyze"}
  PROVE  /\ AttemptsKept(t) /\ OrderKept(t) /\ AnalysesKept(m, t)
         /\ \A id : CallsIn(t, id) = CallsIn(s, id)
         /\ \A id, last : SucceededBy(t, id, last) <=> SucceededBy(s, id, last)
<1>1. /\ \A id : CallsIn(t, id) = CallsIn(s, id)
      /\ \A id, last : SucceededBy(t, id, last) <=> SucceededBy(s, id, last)
  BY DEF SameSteps, CallsIn, SucceededBy
<1>2. AttemptsKept(t)
  BY <1>1 DEF LoopInv, AttemptsKept, SameSteps
<1>3. OrderKept(t)
  <2> SUFFICES ASSUME NEW i \in DOMAIN t.observations, NEW k \in DOMAIN t.plan,
                      t.plan[k].step_id = t.observations[i].step_id,
                      NEW e \in 1..(k - 1)
               PROVE  SucceededBy(t, t.plan[e].step_id, i - 1)
    BY DEF OrderKept
  <2>1. k \in DOMAIN s.plan /\ i \in DOMAIN s.observations
        /\ s.plan[k].step_id = s.observations[i].step_id
    BY DEF SameSteps
  <2>2. SucceededBy(s, s.plan[e].step_id, i - 1)
    BY <2>1 DEF LoopInv, OrderKept
  <2>3. e \in DOMAIN s.plan
    BY <2>1, StateFacts
  <2> QED
    BY <1>1, <2>2, <2>3 DEF SameSteps
<1>4. AnalysesKept(m, t)
  BY DEF LoopInv, AnalysesKept, SameSteps
<1> QED
  BY <1>1, <1>2, <1>3, <1>4

\* A node that leaves the loop.
LEMMA LoopLeaves ==
  ASSUME NEW n, NEW s \in AgentState, LoopInv(n, s), NEW t \in AgentState, SameSteps(s, t),
         NEW m, m \notin Unplanned \cup InLoop
  PROVE  LoopInv(m, t)
<1>1. m \notin {"observe", "analyze"}
  BY DEF InLoop, AfterCall
<1> QED
  BY <1>1, StepsFrame DEF LoopInv

\* A node within the loop that leaves the steps as they are.
LEMMA LoopGoesOn ==
  ASSUME NEW n \in InLoop, NEW s, StateInv(s), LoopInv(n, s),
         NEW t \in AgentState, SameSteps(s, t), NEW m \in InLoop,
         t.current_step_index = s.current_step_index, t.retry_counts = s.retry_counts,
         n \in AfterCall => m \in AfterCall,
         m = "reflect" => Retries(s) + 1 < StepOf(s).max_attempts
                          /\ s.current_step_index < Len(s.plan),
         m \in {"observe", "analyze"} => n \in {"observe", "analyze"},
         m \in {"observe", "analyze", "verify"} =>
           /\ n \in {"observe", "analyze", "verify"} /\ (s.last_error => t.last_error)
           /\ s.current_step_index < Len(s.plan)
  PROVE  LoopInv(m, t)
<1> s \in AgentState /\ s.current_step_index <= Len(s.plan)
  BY DEF StateInv
<1>1. /\ AttemptsKept(t) /\ OrderKept(t) /\ AnalysesKept(m, t)
      /\ \A id : CallsIn(t, id) = CallsIn(s, id)
      /\ \A id, last : SucceededBy(t, id, last) <=> SucceededBy(s, id, last)
  BY StepsFrame
<1>2. /\ DistinctSteps(s.plan)
      /\ \A k \in DOMAIN s.plan : k > s.current_step_index + 1 => Untried(s, k)
      /\ s.current_step_index < Len(s.plan) => Trying(n, s)
      /\ \A e \in 1..s.current_step_index :
           SucceededBy(s, s.plan[e].step_id, Len(s.observations))
  BY DEF LoopInv, InPlan
<1>3. DistinctSteps(t.plan)
  BY <1>2 DEF DistinctSteps, SameSteps
<1>4. \A k \in DOMAIN t.plan : k > t.current_step_index + 1 => Untried(t, k)
  BY <1>1, <1>2 DEF Untried, SameSteps
<1>5. s.current_step_index < Len(s.plan) =>
        /\ StepOf(t).step_id = StepOf(s).step_id
        /\ StepOf(t).max_attempts = StepOf(s).max_attempts
        /\ Retries(t) = Retries(s) /\ Retries(s) \in Nat
        /\ Cardinality(CallsIn(s, StepOf(s).step_id)) \in Nat
  BY StepFacts, CallsFinite DEF SameSteps, StepOf, Retries
<1>6. t.current_step_index < Len(t.plan) => Trying(m, t)
  <2> SUFFICES ASSUME s.current_step_index < Len(s.plan) PROVE Trying(m, t)
    BY DEF SameSteps
  <2> DEFINE calls == Cardinality(CallsIn(s, StepOf(s).step_id))
             max == StepOf(s).max_attempts
  <2>1. /\ Retries(s) < max /\ Retries(s) \in Nat /\ calls \in Nat
        /\ calls <= IF n \in AfterCall THEN Retries(s) + 1 ELSE Retries(s)
    BY <1>2, <1>5 DEF Trying
  <2>2. /\ Retries(t) = Retries(s) /\ StepOf(t).max_attempts = max
        /\ Cardinality(CallsIn(t, StepOf(t).step_id)) = calls
    BY <1>1, <1>5
  <2> HIDE DEF calls, max
  <2>3. calls <= IF m \in AfterCall THEN Retries(s) + 1 ELSE Retries(s)
    BY <2>1
  <2>4. m = "reflect" => Retries(s) + 1 < max
    BY DEF max
  <2> QED
    BY <2>1, <2>2, <2>3, <2>4 DEF Trying
<1>7. \A e \in 1..t.current_step_index :
        SucceededBy(t, t.plan[e].step_id, Len(t.observations))
  <2> SUFFICES ASSUME NEW e \in 1..s.current_step_index
               PROVE  SucceededBy(t, t.plan[e].step_id, Len(t.observations))
    OBVIOUS
  <2>1. SucceededBy(s, s.plan[e].step_id, Len(s.observations))
    BY <1>2
  <2>2. t.plan[e].step_id = s.plan[e].step_id
    <3>1. e \in DOMAIN s.plan
      BY StateFacts
    <3> QED
      BY <3>1 DEF SameSteps
  <2> QED
    BY <1>1, <2>1, <2>2 DEF SameSteps
<1>8. m \in {"observe", "analyze", "verify"} =>
        t.last_error \/ Latest(t).step_id = StepOf(t).step_id
  BY <1>5 DEF LoopInv, InPlan, SameSteps, Latest
<1>9. m \notin Unplanned
  BY DEF Unplanned, InLoop, BeforeCall, AfterCall, Asking
<1> QED
  BY <1>1, <1>3, <1>4, <1>6, <1>7, <1>8, <1>9 DEF LoopInv, InPlan

\* A call adds its result to the current step; without tool budget the node
\* adds nothing and leaves an error.
LEMMA LoopExecutes ==
  ASSUME NEW s, NodeInv("execute", s), LoopInv("execute", s),
         NEW o \in Execute(s), o.agent \in AgentState
  PROVE  o.route = "raise" \/ (o.route = "observe" /\ LoopInv("observe", o.agent))
<1> DEFINE c == s.current_step_index
           id == StepOf(s).step_id
           t == o.agent
           Loop == {"observe", "analyze", "verify"}
<1>1. s \in AgentState /\ StateInv(s) /\ c < Len(s.plan) /\ c \in Nat
  BY StateFacts DEF NodeInv, StateInv, BeforeCall
<1>2. /\ c + 1 \in DOMAIN s.plan /\ StepOf(s) = s.plan[c + 1] /\ id \in StepIds
      /\ StepOf(s).max_attempts \in 1..5 /\ Retries(s) \in Nat
      /\ Cardinality(CallsIn(s, id)) \in Nat /\ IsFiniteSet(CallsIn(s, id))
      /\ DOMAIN s.plan = 1..Len(s.plan) /\ DOMAIN s.observations = 1..Len(s.observations)
      /\ Len(s.observations) \in Nat
  BY <1>1, StepFacts, StateFacts, CallsFinite
<1>3. /\ DistinctSteps(s.plan)
      /\ \A k \in DOMAIN s.plan : k > c + 1 => Untried(s, k)
      /\ Retries(s) < StepOf(s).max_attempts /\ Cardinality(CallsIn(s, id)) <= Retries(s)
      /\ \A e \in 1..c : SucceededBy(s, s.plan[e].step_id, Len(s.observations))
  BY <1>1 DEF LoopInv, InPlan, InLoop, BeforeCall, AfterCall, Asking, Trying
<1>4. CASE ~ToolBudgetLeft(s)
  <2>1. t = [s EXCEPT !.status = "partial", !.last_error = TRUE] /\ o.route = "observe"
    BY <1>4 DEF Execute, Go
  <2>2. /\ SameSteps(s, t) /\ t.current_step_index = c /\ t.retry_counts = s.retry_counts
        /\ t.plan = s.plan /\ t.last_error /\ t.tool_calls_used = s.tool_calls_used
    BY <1>1, <2>1 DEF AgentState, SameSteps
  <2> HIDE DEF t
  <2>3. /\ AttemptsKept(t) /\ OrderKept(t)
        /\ \A x : CallsIn(t, x) = CallsIn(s, x)
        /\ \A x, last : SucceededBy(t, x, last) <=> SucceededBy(s, x, last)
    <3>1. "verify" \notin {"observe", "analyze"}
      OBVIOUS
    <3> QED
      BY <1>1, <2>2, <3>1, StepsFrame DEF t
  <2>4. AnalysesKept("observe", t)
    <3>1. ~(t.tool_calls_used < MaxToolCalls)
      BY <1>4, <2>2 DEF ToolBudgetLeft
    <3> QED
      BY <3>1 DEF AnalysesKept
  <2>5. Trying("observe", t)
    <3>1. /\ Retries(t) = Retries(s) /\ StepOf(t) = StepOf(s)
          /\ CallsIn(t, id) = CallsIn(s, id)
      BY <2>2, <2>3 DEF Retries, StepOf
    <3> QED
      BY <1>2, <1>3, <3>1 DEF Trying, AfterCall
  <2>6. \A k \in DOMAIN t.plan : k > c + 1 => Untried(t, k)
    BY <1>3, <2>2, <2>3 DEF Untried
  <2>7. \A e \in 1..c : SucceededBy(t, t.plan[e].step_id, Len(t.observations))
    BY <1>3, <2>2, <2>3 DEF SameSteps
  <2> QED
    BY <1>3, <2>1, <2>2, <2>3, <2>4, <2>5, <2>6, <2>7 DEF LoopInv, InPlan, Unplanned, t
<1>5. CASE ToolBudgetLeft(s)
  <2>1. PICK r \in ToolResults[StepOf(s).tool_candidates[1]] : o = ToolReturns(s, r)
    BY <1>5 DEF Execute
  <2>2. CASE r = Raise
    BY <2>1, <2>2 DEF ToolReturns, Go
  <2>3. CASE r # Raise
    <3> DEFINE ob == [step_id |-> id, tool |-> StepOf(s).tool_candidates[1],
                      inputs |-> StepOf(s).inputs, result |-> r]
               obs == Append(s.observations, ob)
               m == s.tool_calls_used + 1
               N == Len(s.observations)
    <3>1. t = [s EXCEPT !.tool_calls_used = m, !.observations = obs] /\ o.route = "observe"
      BY <2>1, <2>3 DEF ToolReturns, Go
    <3>2. ob.step_id = id
      OBVIOUS
    <3>3. /\ DOMAIN obs = 1..(N + 1) /\ Len(obs) = N + 1 /\ obs[N + 1] = ob
          /\ \A i \in 1..N : obs[i] = s.observations[i]
      <4>1. s.observations \in Seq(Observation)
        BY <1>1 DEF AgentState
      <4> HIDE DEF ob
      <4> QED
        BY <4>1
    <3> HIDE DEF ob, obs, m
    <3>4. /\ t.observations = obs /\ t.tool_calls_used = m /\ t.plan = s.plan
          /\ t.analyzed = s.analyzed /\ t.current_step_index = c
          /\ t.retry_counts = s.retry_counts
      BY <1>1, <3>1 DEF AgentState
    <3> HIDE DEF t
    <3>5. \A x : x # id => CallsIn(t, x) = CallsIn(s, x)
      BY <1>2, <3>2, <3>3, <3>4, SMTT(30) DEF CallsIn
    <3>6. CallsIn(t, id) = CallsIn(s, id) \cup {N + 1} /\ N + 1 \notin CallsIn(s, id)
      BY <1>2, <3>2, <3>3, <3>4, SMTT(30) DEF CallsIn
    <3>7. Cardinality(CallsIn(t, id)) = Cardinality(CallsIn(s, id)) + 1
      BY <1>2, <3>6, FS_AddElement
    <3>8. \A x, last : last \in 0..N /\ SucceededBy(s, x, last) => SucceededBy(t, x, last)
      BY <1>2, <3>3, <3>4 DEF SucceededBy
    <3>9. \A x, last : last \in Nat /\ SucceededBy(t, x, last) => SucceededBy(t, x, last + 1)
      BY DEF SucceededBy
    <3>10. \A k \in DOMAIN s.plan : k # c + 1 => s.plan[k].step_id # id
      BY <1>2, <1>3 DEF DistinctSteps
    <3>11. AttemptsKept(t)
      <4> SUFFICES ASSUME NEW k \in DOMAIN s.plan
                   PROVE  Cardinality(CallsIn(t, s.plan[k].step_id)) <= s.plan[k].max_attempts
        BY <3>4 DEF AttemptsKept
      <4>1. CASE k = c + 1
        BY <1>2, <1>3, <3>7, <4>1, SMTT(30)
      <4>2. CASE k # c + 1
        BY <3>5, <3>10, <4>2 DEF LoopInv, AttemptsKept
      <4> QED
        BY <4>1, <4>2
    <3>12. OrderKept(t)
      <4> SUFFICES ASSUME NEW i \in 1..(N + 1), NEW k \in DOMAIN s.plan,
                          s.plan[k].step_id = obs[i].step_id, NEW e \in 1..(k - 1)
                   PROVE  SucceededBy(t, s.plan[e].step_id, i - 1)
        BY <3>3, <3>4 DEF OrderKept
      <4>1. CASE i \in 1..N
        <5>1. SucceededBy(s, s.plan[e].step_id, i - 1)
          BY <1>2, <3>3, <4>1 DEF LoopInv, OrderKept
        <5>2. i - 1 \in 0..N
          BY <1>2, <4>1
        <5> QED
          BY <3>8, <5>1, <5>2
      <4>2. CASE i = N + 1
        <5>1. k = c + 1
          BY <3>2, <3>3, <3>10, <4>2
        <5>2. SucceededBy(s, s.plan[e].step_id, N)
          BY <1>1, <1>3, <5>1
        <5>3. i - 1 = N /\ N \in 0..N
          BY <1>2, <4>2
        <5> QED
          BY <3>8, <5>2, <5>3
      <4> QED
        BY <1>2, <4>1, <4>2, SMTT(30)
    <3>13. AnalysesKept("observe", t)
      <4> SUFFICES ASSUME m < MaxToolCalls
                   PROVE  /\ \A i, j \in DOMAIN s.analyzed :
                               s.analyzed[i] = s.analyzed[j] => i = j
                          /\ \A i \in DOMAIN s.analyzed : s.analyzed[i] < N + 1
                                                           /\ s.analyzed[i] <= N + 1
        BY <3>3, <3>4 DEF AnalysesKept
      <4>1. s.tool_calls_used < MaxToolCalls
        BY <1>5 DEF ToolBudgetLeft
      <4>2. /\ \A i, j \in DOMAIN s.analyzed : s.analyzed[i] = s.analyzed[j] => i = j
            /\ \A i \in DOMAIN s.analyzed : s.analyzed[i] <= N
        BY <4>1 DEF LoopInv, AnalysesKept
      <4>3. \A i \in DOMAIN s.analyzed : s.analyzed[i] \in Nat
        BY <1>1, StateFacts
      <4> QED
        BY <1>2, <4>2, <4>3
    <3>14. \A k \in DOMAIN s.plan : k > c + 1 => Untried(t, k)
      <4> SUFFICES ASSUME NEW k \in DOMAIN s.plan, k > c + 1 PROVE Untried(t, k)
        OBVIOUS
      <4>1. k # c + 1
        BY <1>1, <1>2
      <4>2. CallsIn(t, s.plan[k].step_id) = CallsIn(s, s.plan[k].step_id) /\ Untried(s, k)
        BY <1>3, <3>5, <3>10, <4>1
      <4> QED
        BY <3>4, <4>2 DEF Untried
    <3>15. Trying("observe", t)
      <4>1. /\ Retries(t) = Retries(s) /\ StepOf(t) = StepOf(s)
        BY <3>4 DEF Retries, StepOf
      <4> QED
        BY <1>2, <1>3, <3>7, <4>1 DEF Trying, AfterCall
    <3>16. \A e \in 1..c : SucceededBy(t, s.plan[e].step_id, N + 1)
      <4> SUFFICES ASSUME NEW e \in 1..c PROVE SucceededBy(t, s.plan[e].step_id, N + 1)
        OBVIOUS
      <4>1. N \in 0..N /\ N \in Nat
        BY <1>2
      <4>2. SucceededBy(t, s.plan[e].step_id, N)
        BY <1>3, <3>8, <4>1
      <4> QED
        BY <3>9, <4>1, <4>2
    <3>17. Latest(t).step_id = StepOf(t).step_id
      BY <3>2, <3>3, <3>4 DEF Latest, StepOf
    <3> QED
      BY <1>3, <3>1, <3>3, <3>4, <3>11, <3>12, <3>13, <3>14, <3>15, <3>16, <3>17
         DEF LoopInv, InPlan, Unplanned, t
  <2> QED
    BY <2>2, <2>3
<1> QED
  BY <1>4, <1>5

\* The latest result is analysed, which it was not before.
LEMMA LoopAnalyzes ==
  ASSUME NEW s, NodeInv("analyze", s), LoopInv("analyze", s),
         NEW o \in Analyze(s), o.agent \in AgentState
  PROVE  o.route = "raise" \/ (o.route = "verify" /\ LoopInv("verify", o.agent))
<1> DEFINE a == Append(s.analyzed, Len(s.observations))
           t == [s EXCEPT !.analyzed = a]
<1>1. s \in AgentState /\ StateInv(s) /\ s.current_step_index < Len(s.plan)
  BY DEF NodeInv, StateInv, AfterCall
<1>2. CASE o.agent = s /\ o.route = "verify"
  <2>1. SameSteps(s, s)
    BY DEF SameSteps
  <2> QED
    BY <1>1, <1>2, <2>1, LoopGoesOn DEF InLoop, AfterCall
<1>3. CASE o.agent = t /\ o.route = "verify"
  <2>1. /\ s.analyzed \in Seq(Nat) /\ Len(s.observations) \in Nat
    BY <1>1, StateFacts
  <2>2. /\ DOMAIN a = 1..(Len(s.analyzed) + 1) /\ DOMAIN s.analyzed = 1..Len(s.analyzed)
        /\ Len(s.analyzed) \in Nat /\ a[Len(s.analyzed) + 1] = Len(s.observations)
        /\ \A i \in DOMAIN s.analyzed : a[i] = s.analyzed[i] /\ s.analyzed[i] \in Nat
    BY <2>1
  <2> HIDE DEF a
  <2>3. /\ t.observations = s.observations /\ t.tool_calls_used = s.tool_calls_used
        /\ t.plan = s.plan /\ t.current_step_index = s.current_step_index
        /\ t.retry_counts = s.retry_counts /\ t.last_error = s.last_error /\ t.analyzed = a
    BY <1>1 DEF AgentState
  <2> HIDE DEF t
  <2>4. AnalysesKept("verify", t)
    <3> SUFFICES ASSUME s.tool_calls_used < MaxToolCalls
                 PROVE  /\ \A i, j \in DOMAIN a : a[i] = a[j] => i = j
                        /\ \A i \in DOMAIN a : a[i] <= Len(s.observations)
      BY <2>3 DEF AnalysesKept
    <3>1. /\ \A i, j \in DOMAIN s.analyzed : s.analyzed[i] = s.analyzed[j] => i = j
          /\ \A i \in DOMAIN s.analyzed : s.analyzed[i] < Len(s.observations)
      BY DEF LoopInv, AnalysesKept
    <3>2. \A i \in DOMAIN a : i \in DOMAIN s.analyzed \/ i = Len(s.analyzed) + 1
      BY <2>2
    <3>3. \A i \in DOMAIN s.analyzed : a[i] < Len(s.observations) /\ a[i] \in Nat
      BY <2>2, <3>1
    <3>4. \A i \in DOMAIN a : a[i] <= Len(s.observations)
      BY <2>1, <2>2, <3>2, <3>3
    <3>5. ASSUME NEW i \in DOMAIN a, NEW j \in DOMAIN a, a[i] = a[j] PROVE i = j
      <4>1. CASE i \in DOMAIN s.analyzed /\ j \in DOMAIN s.analyzed
        BY <2>2, <3>1, <3>5, <4>1
      <4>2. CASE i \notin DOMAIN s.analyzed
        <5>1. a[j] = Len(s.observations)
          BY <2>2, <3>2, <3>5, <4>2
        <5>2. j \notin DOMAIN s.analyzed
          BY <2>1, <3>3, <5>1
        <5> QED
          BY <3>2, <4>2, <5>2
      <4>3. CASE j \notin DOMAIN s.analyzed
        <5>1. a[i] = Len(s.observations)
          BY <2>2, <3>2, <3>5, <4>3
        <5>2. i \notin DOMAIN s.analyzed
          BY <2>1, <3>3, <5>1
        <5> QED
          BY <3>2, <4>3, <5>2
      <4> QED
        BY <4>1, <4>2, <4>3
    <3> QED
      BY <3>4, <3>5
  <2>5. AttemptsKept(t) /\ OrderKept(t)
    BY <2>3 DEF LoopInv, AttemptsKept, OrderKept, CallsIn, SucceededBy
  <2>6. \A k \in DOMAIN t.plan : k > t.current_step_index + 1 => Untried(t, k)
    BY <2>3 DEF LoopInv, InPlan, InLoop, AfterCall, Untried, CallsIn
  <2>7. Trying("verify", t)
    <3>1. Trying("analyze", s)
      BY <1>1 DEF LoopInv, InPlan, InLoop, AfterCall
    <3>2. StepOf(t) = StepOf(s) /\ Retries(t) = Retries(s)
          /\ CallsIn(t, StepOf(s).step_id) = CallsIn(s, StepOf(s).step_id)
      BY <2>3 DEF StepOf, Retries, CallsIn
    <3> QED
      BY <3>1, <3>2 DEF Trying, AfterCall
  <2>8. \A e \in 1..t.current_step_index :
          SucceededBy(t, t.plan[e].step_id, Len(t.observations))
    BY <2>3 DEF LoopInv, InPlan, InLoop, AfterCall, SucceededBy
  <2>9. DistinctSteps(t.plan)
    BY <2>3 DEF LoopInv, InPlan, InLoop, AfterCall
  <2>10. t.last_error \/ Latest(t).step_id = StepOf(t).step_id
    BY <2>3 DEF LoopInv, InPlan, InLoop, AfterCall, Latest, StepOf
  <2> QED
    BY <1>3, <2>4, <2>5, <2>6, <2>7, <2>8, <2>9, <2>10 DEF LoopInv, InPlan, Unplanned
<1> QED
  BY <1>2, <1>3 DEF Analyze, Go

\* A verified success goes on to a step not tried yet; a failure is tried again
\* while the step has attempts left.
LEMMA LoopVerifies ==
  ASSUME NEW s, NodeInv("verify", s), LoopInv("verify", s),
         NEW o \in Verify(s), o.agent \in AgentState
  PROVE  LoopInv(o.route, o.agent)
<1> DEFINE c == s.current_step_index
           e == s.last_error \/ VerifierRejects(s)
           v == [s EXCEPT !.last_error = e]
           after == c + 1
           id == StepOf(s).step_id
           N == Len(s.observations)
<1>1. s \in AgentState /\ StateInv(s) /\ c < Len(s.plan) /\ c \in Nat /\ s.observations # <<>>
  BY StateFacts DEF NodeInv, StateInv, AfterCall
<1>2. /\ c + 1 \in DOMAIN s.plan /\ StepOf(s) = s.plan[c + 1] /\ id \in StepIds
      /\ Retries(s) \in Nat /\ DOMAIN s.plan = 1..Len(s.plan) /\ Len(s.plan) \in Nat
      /\ N \in Nat /\ DOMAIN s.observations = 1..N
  BY <1>1, StepFacts, StateFacts
<1>3. /\ DistinctSteps(s.plan)
      /\ \A k \in DOMAIN s.plan : k > c + 1 => Untried(s, k)
      /\ \A f \in 1..c : SucceededBy(s, s.plan[f].step_id, N)
      /\ s.last_error \/ Latest(s).step_id = id
  BY <1>1 DEF LoopInv, InPlan, InLoop, AfterCall
<1>4. CASE o = Go([v EXCEPT !.status = "partial"], "report")
  <2>1. SameSteps(s, o.agent) /\ o.route = "report"
    <3> HIDE DEF e
    <3> QED
      BY <1>1, <1>4 DEF Go, SameSteps, AgentState
  <2> QED
    BY <1>1, <2>1, LoopLeaves DEF Unplanned, InLoop, BeforeCall, AfterCall, Asking
<1>5. CASE o = Go(v, "reflect") /\ Retries(s) + 1 < StepOf(s).max_attempts
  <2>1. /\ SameSteps(s, o.agent) /\ o.route = "reflect" /\ o.agent.current_step_index = c
        /\ o.agent.retry_counts = s.retry_counts
    <3> HIDE DEF e
    <3> QED
      BY <1>1, <1>5 DEF Go, SameSteps, AgentState
  <2> QED
    BY <1>1, <1>5, <2>1, LoopGoesOn DEF InLoop, AfterCall
<1>6. CASE /\ o = Go([v EXCEPT !.current_step_index = after],
                     IF after < Len(s.plan) THEN "select_step" ELSE "report")
           /\ Latest(s).result.status = "success" /\ ~s.last_error
  <2> DEFINE t == o.agent
  <2>1. /\ SameSteps(s, t) /\ t.current_step_index = after
        /\ t.retry_counts = s.retry_counts /\ t.plan = s.plan
        /\ t.observations = s.observations
        /\ o.route = IF after < Len(s.plan) THEN "select_step" ELSE "report"
    <3> HIDE DEF e, after
    <3> QED
      BY <1>1, <1>6 DEF Go, SameSteps, AgentState
  <2> HIDE DEF t
  <2>2. CASE o.route = "report"
    BY <1>1, <2>1, <2>2, LoopLeaves DEF t, Unplanned, InLoop, BeforeCall, AfterCall, Asking
  <2>3. CASE o.route = "select_step"
    <3>1. /\ AttemptsKept(t) /\ OrderKept(t) /\ AnalysesKept("select_step", t)
          /\ \A x : CallsIn(t, x) = CallsIn(s, x)
          /\ \A x, last : SucceededBy(t, x, last) <=> SucceededBy(s, x, last)
      <4>1. "select_step" \notin {"observe", "analyze"}
        OBVIOUS
      <4> QED
        BY <1>1, <2>1, <4>1, StepsFrame DEF t
    <3>2. after + 1 \in DOMAIN s.plan
      BY <1>1, <1>2, <2>1, <2>3
    <3>3. \A k \in DOMAIN s.plan : k > after => Untried(t, k)
      BY <1>3, <2>1, <3>1 DEF Untried
    <3>4. \A k \in DOMAIN t.plan : k > after + 1 => Untried(t, k)
      BY <1>1, <1>2, <2>1, <3>3
    <3>5. Trying("select_step", t)
      <4>1. Untried(t, after + 1)
        BY <1>1, <3>2, <3>3
      <4>2. StepOf(t) = t.plan[after + 1] /\ StepOf(t).max_attempts \in 1..5
        BY <1>1, <2>1, <3>2, StateFacts DEF StepOf
      <4>3. Retries(t) = 0 /\ CallsIn(t, StepOf(t).step_id) = {}
        BY <4>1, <4>2 DEF Untried, Retries
      <4>4. Cardinality(CallsIn(t, StepOf(t).step_id)) = 0
        BY <4>3, FS_EmptySet
      <4> QED
        BY <4>2, <4>3, <4>4 DEF Trying, AfterCall
    <3>6. \A f \in 1..after : SucceededBy(t, t.plan[f].step_id, Len(t.observations))
      <4> SUFFICES ASSUME NEW f \in 1..after PROVE SucceededBy(s, s.plan[f].step_id, N)
        BY <2>1, <3>1
      <4>1. CASE f \in 1..c
        BY <1>3, <4>1
      <4>2. CASE f = c + 1
        <5>1. N \in 1..N
          BY <1>1, <1>2
        <5>2. /\ s.observations[N].step_id = s.plan[f].step_id
              /\ s.observations[N].result.status = "success"
          BY <1>2, <1>3, <1>6, <4>2 DEF Latest
        <5> QED
          BY <5>1, <5>2 DEF SucceededBy
      <4> QED
        BY <1>1, <4>1, <4>2
    <3>7. DistinctSteps(t.plan)
      BY <1>3, <2>1
    <3> HIDE DEF after
    <3> QED
      BY <2>1, <2>3, <3>1, <3>4, <3>5, <3>6, <3>7 DEF LoopInv, InPlan, Unplanned, t, AfterCall
  <2> QED
    BY <2>1, <2>2, <2>3
<1> QED
  <2>1. v.plan = s.plan /\ (v.last_error <=> e) /\ v.retry_counts = s.retry_counts
    <3> HIDE DEF e
    <3>1. v.plan = s.plan /\ v.last_error = e /\ v.retry_counts = s.retry_counts
      BY <1>1 DEF AgentState
    <3> QED
      BY <3>1
  <2> QED
    BY <1>4, <1>5, <1>6, <2>1 DEF Verify, Retries

\* A retry is counted before the step is tried again.
LEMMA LoopReflects ==
  ASSUME NEW s, NodeInv("reflect", s), LoopInv("reflect", s),
         NEW o \in Reflect(s), o.agent \in AgentState
  PROVE  o.route = "select_step" /\ LoopInv("select_step", o.agent)
<1> DEFINE c == s.current_step_index
           id == StepOf(s).step_id
           rc == [s.retry_counts EXCEPT ![id] = @ + 1]
           t == o.agent
<1>1. s \in AgentState /\ StateInv(s) /\ c < Len(s.plan) /\ c \in Nat
  BY StateFacts DEF NodeInv, StateInv, AfterCall
<1>2. /\ c + 1 \in DOMAIN s.plan /\ StepOf(s) = s.plan[c + 1] /\ id \in StepIds
      /\ Retries(s) \in Nat /\ s.retry_counts \in [StepIds -> Nat]
      /\ DOMAIN s.plan = 1..Len(s.plan)
      /\ \A k \in DOMAIN s.plan : s.plan[k].step_id \in StepIds
  BY <1>1, StepFacts, StateFacts
<1>3. /\ DistinctSteps(s.plan)
      /\ \A k \in DOMAIN s.plan : k > c + 1 => Untried(s, k)
      /\ \A e \in 1..c : SucceededBy(s, s.plan[e].step_id, Len(s.observations))
      /\ Retries(s) + 1 < StepOf(s).max_attempts
      /\ Cardinality(CallsIn(s, id)) <= Retries(s) + 1
  BY <1>1 DEF LoopInv, InPlan, InLoop, AfterCall, Trying
<1>4. /\ rc[id] = Retries(s) + 1 /\ \A x \in StepIds : x # id => rc[x] = s.retry_counts[x]
  BY <1>2 DEF Retries
<1>5. t = [s EXCEPT !.retry_counts = rc, !.last_error = FALSE] /\ o.route = "select_step"
  BY DEF Reflect, Go
<1> HIDE DEF rc
<1>6. /\ SameSteps(s, t) /\ t.current_step_index = c /\ t.plan = s.plan
      /\ t.retry_counts = rc /\ t.observations = s.observations
  BY <1>1, <1>5 DEF SameSteps, AgentState
<1> HIDE DEF t
<1>7. /\ AttemptsKept(t) /\ OrderKept(t) /\ AnalysesKept("select_step", t)
      /\ \A x : CallsIn(t, x) = CallsIn(s, x)
      /\ \A x, last : SucceededBy(t, x, last) <=> SucceededBy(s, x, last)
  <2>1. "select_step" \notin {"observe", "analyze"}
    OBVIOUS
  <2> QED
    BY <1>1, <1>6, <2>1, StepsFrame DEF t
<1>8. \A k \in DOMAIN s.plan : k > c + 1 => Untried(t, k)
  <2> SUFFICES ASSUME NEW k \in DOMAIN s.plan, k > c + 1 PROVE Untried(t, k)
    OBVIOUS
  <2>1. s.plan[k].step_id # id
    BY <1>1, <1>2, <1>3 DEF DistinctSteps
  <2>2. Untried(s, k)
    BY <1>3
  <2>3. rc[s.plan[k].step_id] = s.retry_counts[s.plan[k].step_id]
    BY <1>2, <1>4, <2>1
  <2> QED
    BY <1>6, <1>7, <2>2, <2>3 DEF Untried
<1>9. Trying("select_step", t)
  <2>1. StepOf(t) = StepOf(s) /\ Retries(t) = Retries(s) + 1
        /\ CallsIn(t, id) = CallsIn(s, id)
    BY <1>4, <1>6, <1>7 DEF StepOf, Retries
  <2> QED
    BY <1>3, <2>1 DEF Trying, AfterCall
<1>10. \A e \in 1..c : SucceededBy(t, t.plan[e].step_id, Len(t.observations))
  BY <1>3, <1>6, <1>7
<1> QED
  BY <1>3, <1>5, <1>6, <1>7, <1>8, <1>9, <1>10 DEF LoopInv, InPlan, Unplanned, t, AfterCall

\* Nothing was called yet: nothing to keep.
LEMMA LoopFresh ==
  ASSUME NEW t \in AgentState, t.observations = <<>>, t.analyzed = <<>>, NEW m
  PROVE  /\ AttemptsKept(t) /\ OrderKept(t) /\ AnalysesKept(m, t)
         /\ \A id : CallsIn(t, id) = {}
<1>1. \A id : CallsIn(t, id) = {}
  BY DEF CallsIn
<1>2. AttemptsKept(t)
  <2> SUFFICES ASSUME NEW k \in DOMAIN t.plan
               PROVE  Cardinality(CallsIn(t, t.plan[k].step_id)) <= t.plan[k].max_attempts
    BY DEF AttemptsKept
  <2>1. t.plan[k].max_attempts \in 1..5
    BY StateFacts
  <2>2. CallsIn(t, t.plan[k].step_id) = {}
    BY <1>1
  <2>3. Cardinality(CallsIn(t, t.plan[k].step_id)) = 0
    BY <2>2, FS_EmptySet
  <2> QED
    BY <2>1, <2>3
<1> QED
  BY <1>1, <1>2 DEF OrderKept, AnalysesKept

\* A plan that validates names each of its steps once, and none was tried.
LEMMA LoopPlanned ==
  ASSUME NEW s, NodeInv("validate_plan", s), Fresh(s),
         NEW o \in ValidatePlan(s), o.agent \in AgentState
  PROVE  LoopInv(o.route, o.agent)
<1>1. s \in AgentState /\ s.observations = <<>> /\ s.analyzed = <<>>
      /\ s.current_step_index = 0 /\ \A id \in StepIds : s.retry_counts[id] = 0
  BY DEF NodeInv, StateInv, Fresh
<1>2. CASE o.route = "report"
  <2>1. o.agent.observations = <<>> /\ o.agent.analyzed = <<>>
    <3>1. o.agent \in {s, [s EXCEPT !.status = "failed", !.last_error = TRUE]}
      BY <1>2 DEF ValidatePlan, Go
    <3> QED
      BY <1>1, <3>1 DEF AgentState
  <2> QED
    BY <1>2, <2>1, LoopFresh
       DEF LoopInv, InPlan, Unplanned, InLoop, BeforeCall, AfterCall, Asking
<1>3. CASE o.route = "select_step"
  <2>1. o.agent = s /\ ValidPlan(s.plan) /\ s.plan # <<>>
    BY <1>3 DEF ValidatePlan, Go
  <2>2. DistinctSteps(s.plan)
    BY <2>1 DEF ValidPlan, DistinctSteps
  <2>3. /\ AttemptsKept(s) /\ OrderKept(s) /\ AnalysesKept("select_step", s)
        /\ \A id : CallsIn(s, id) = {}
    BY <1>1, LoopFresh
  <2>4. \A k \in DOMAIN s.plan : Untried(s, k)
    BY <1>1, <2>3, StateFacts DEF Untried
  <2>5. s.current_step_index < Len(s.plan) => Trying("select_step", s)
    <3> SUFFICES ASSUME s.current_step_index < Len(s.plan) PROVE Trying("select_step", s)
      OBVIOUS
    <3>1. StepOf(s).max_attempts \in 1..5 /\ StepOf(s).step_id \in StepIds
      BY <1>1, StepFacts
    <3>2. Retries(s) = 0 /\ Cardinality(CallsIn(s, StepOf(s).step_id)) = 0
      BY <1>1, <2>3, <3>1, FS_EmptySet DEF Retries
    <3> QED
      BY <3>1, <3>2 DEF Trying, AfterCall
  <2> QED
    BY <1>1, <1>3, <2>1, <2>2, <2>3, <2>4, <2>5 DEF LoopInv, InPlan, Unplanned
<1> QED
  BY <1>2, <1>3 DEF ValidatePlan, Go

\* The nodes that leave the steps as they are.
LEMMA StepsUntouched ==
  ASSUME NEW n \in GraphNodes \ {"approval", "execute", "analyze", "verify", "reflect"},
         NEW s \in AgentState, s.plan # <<>> \/ n # "plan", NEW o \in Node(n, s)
  PROVE  /\ SameSteps(s, o.agent)
         /\ o.agent.current_step_index = s.current_step_index
         /\ o.agent.retry_counts = s.retry_counts
<1>1. Writes(n, s, o.agent) /\ Keeps(n, s, o.agent)
  BY NodeWrites, NodeKeeps DEF GraphNodes
<1> QED
  BY <1>1 DEF Writes, Keeps, SameSteps

\* The nodes before the loop leave a plan that is walked already as it is.
LEMMA LoopUnderway ==
  ASSUME NEW n \in Unplanned, NEW s, NodeInv(n, s), LoopInv(n, s),
         s.plan # <<>>, InPlan("select_step", s),
         NEW o \in Node(n, s), o.agent \in AgentState, o.route # "raise"
  PROVE  LoopInv(o.route, o.agent)
<1>1. StateInv(s) /\ s \in AgentState
  BY DEF NodeInv, StateInv
<1>2. /\ SameSteps(s, o.agent)
      /\ o.agent.current_step_index = s.current_step_index
      /\ o.agent.retry_counts = s.retry_counts
  BY <1>1, StepsUntouched DEF Unplanned, GraphNodes
<1>3. LoopInv("select_step", s)
  BY DEF LoopInv, AnalysesKept, Unplanned, InLoop
<1>4. LoopInv("select_step", o.agent)
  BY <1>1, <1>2, <1>3, LoopGoesOn DEF InLoop, AfterCall
<1>5. o.agent.plan # <<>>
  <2>1. Len(o.agent.plan) = Len(s.plan) /\ s.plan \in Seq(PlanStep)
    BY <1>1, <1>2 DEF SameSteps, AgentState
  <2> QED
    BY <2>1
<1>6. o.route \in Unplanned \cup {"select_step", "report"}
  BY DEF Unplanned, Node, Ingest, Classify, RetrieveContext, Plan, ValidatePlan, Go
<1>7. CASE o.route \in Unplanned
  BY <1>4, <1>5, <1>7
     DEF LoopInv, AnalysesKept, Unplanned, InLoop, BeforeCall, AfterCall, Asking
<1>8. CASE o.route = "report"
  BY <1>1, <1>2, <1>3, <1>8, LoopLeaves DEF Unplanned, InLoop, BeforeCall, AfterCall, Asking
<1> QED
  BY <1>4, <1>6, <1>7, <1>8

\* Every node passes on what its successor relies on.
LEMMA LoopPasses ==
  ASSUME NEW n \in GraphNodes \ {"approval"}, NEW s, NodeInv(n, s), LoopInv(n, s),
         NEW o \in Node(n, s), o.route # "raise"
  PROVE  LoopInv(o.route, o.agent)
<1>1. s \in AgentState /\ StateInv(s) /\ o.agent \in AgentState
  <2>1. NodeInv(o.route, o.agent)
    BY NodePasses
  <2> QED
    BY <2>1 DEF NodeInv, StateInv
<1>2. CASE n \in {"ingest", "classify", "retrieve_context", "plan"} /\ Fresh(s)
  <2>1. o.route \in Unplanned
    BY <1>2 DEF Unplanned, Node, Ingest, Classify, RetrieveContext, Plan, Go
  <2>2. Writes(n, s, o.agent) /\ Keeps(n, s, o.agent)
    BY <1>1, NodeWrites, NodeKeeps
  <2>3. /\ s.observations = <<>> /\ s.analyzed = <<>> /\ s.current_step_index = 0
        /\ \A id \in StepIds : s.retry_counts[id] = 0
    BY <1>2 DEF Fresh
  <2>4. /\ o.agent.observations = <<>> /\ o.agent.analyzed = <<>>
        /\ o.agent.current_step_index = 0
        /\ \A id \in StepIds : o.agent.retry_counts[id] = 0
    BY <1>2, <2>2, <2>3 DEF Writes, Keeps
  <2>5. AttemptsKept(o.agent) /\ OrderKept(o.agent) /\ AnalysesKept(o.route, o.agent)
    BY <1>1, <2>4, LoopFresh
  <2>6. o.route \notin InLoop
    BY <2>1 DEF Unplanned, InLoop, BeforeCall, AfterCall, Asking
  <2> QED
    BY <2>4, <2>5, <2>6 DEF LoopInv, Fresh
<1>3. CASE n = "validate_plan" /\ Fresh(s)
  BY <1>1, <1>3, LoopPlanned DEF Node
<1>11. CASE n \in Unplanned /\ ~Fresh(s)
  BY <1>1, <1>11, LoopUnderway DEF LoopInv
<1>4. CASE n \in {"select_step", "guardrail", "observe"} /\ o.route \in InLoop
  <2>1. o.route \notin AfterCall \/ (n = "observe" /\ o.route = "analyze" /\ o.agent = s)
    BY <1>4, CameFrom DEF Node, Observe, Go, AfterCall
  <2>2. n = "observe" => o.route = "analyze"
    BY <1>4 DEF Node, Observe, Go, InLoop, BeforeCall, AfterCall, Asking
  <2>3. n = "observe" => s.current_step_index < Len(s.plan)
    BY DEF NodeInv, AfterCall
  <2>4. /\ SameSteps(s, o.agent) /\ o.agent.current_step_index = s.current_step_index
        /\ o.agent.retry_counts = s.retry_counts
    BY <1>1, <1>4, StepsUntouched
  <2>5. CASE n = "observe"
    BY <1>1, <1>4, <2>1, <2>2, <2>3, <2>4, <2>5, LoopGoesOn DEF InLoop, AfterCall
  <2>6. CASE n # "observe"
    <3>1. n \in InLoop /\ n \notin AfterCall /\ o.route \notin AfterCall
      BY <1>4, <2>1, <2>6 DEF InLoop, BeforeCall, AfterCall
    <3> QED
      BY <1>1, <1>4, <2>4, <3>1, LoopGoesOn DEF AfterCall
  <2> QED
    BY <2>5, <2>6
<1>5. CASE n \in {"select_step", "guardrail", "observe"} /\ o.route \notin InLoop
  <2>1. o.route \notin Unplanned
    BY <1>5 DEF Node, SelectStep, Guardrail, Observe, Go, Unplanned
  <2> QED
    BY <1>1, <1>5, <2>1, StepsUntouched, LoopLeaves
<1>6. CASE n = "execute"
  BY <1>1, <1>6, LoopExecutes DEF Node
<1>7. CASE n = "analyze"
  BY <1>1, <1>7, LoopAnalyzes DEF Node
<1>8. CASE n = "verify"
  BY <1>1, <1>8, LoopVerifies DEF Node
<1>9. CASE n = "reflect"
  BY <1>1, <1>9, LoopReflects DEF Node
<1>10. CASE n \in {"record_denial", "report", "memory_commit"}
  <2>1. o.route \in {"report", "memory_commit", "end"}
    BY <1>10 DEF Node, RecordDenial, Report, MemoryCommit, Go
  <2>2. o.route \notin Unplanned \cup InLoop
    BY <2>1 DEF Unplanned, InLoop, BeforeCall, AfterCall, Asking
  <2> QED
    BY <1>1, <1>10, <2>2, StepsUntouched, LoopLeaves
<1> QED
  BY <1>2, <1>3, <1>4, <1>5, <1>6, <1>7, <1>8, <1>9, <1>10, <1>11
     DEF GraphNodes, Unplanned

\* A run starts with nothing called and nothing tried.
LEMMA InitLoop == Init => LoopInv(next, agent)
<1> SUFFICES ASSUME NEW task \in Scenarios, agent = NewAgent(task), next = "ingest"
             PROVE  LoopInv(next, agent)
  BY DEF Init
<1>1. agent \in AgentState
  BY NewAgentPasses DEF NodeInv, StateInv
<1>2. /\ agent.observations = <<>> /\ agent.analyzed = <<>> /\ agent.current_step_index = 0
      /\ \A id \in StepIds : agent.retry_counts[id] = 0
  BY DEF NewAgent
<1>3. AttemptsKept(agent) /\ OrderKept(agent) /\ AnalysesKept(next, agent)
  BY <1>1, <1>2, LoopFresh
<1> QED
  BY <1>2, <1>3 DEF LoopInv, Fresh, InLoop, BeforeCall, AfterCall, Asking

\* An aborted call ends the run, or leaves it waiting if it shows its request,
\* and leaves the steps as they are.
LEMMA AbortLoop ==
  ASSUME IInv, next \in GraphNodes, LoopInv(next, agent), Abort
  PROVE  LoopInv(next', agent')
<1>0. StateInv(agent) /\ agent \in AgentState /\ NodeInv(next, agent)
  BY DEF IInv, NodeInv, StateInv, GraphNodes
<1>1. /\ next' \in {"end", "dead", "interrupt"} /\ SameSteps(agent, agent')
      /\ next' = "interrupt" => agent' = agent /\ agent.pending_approval # None
  BY <1>0 DEF Abort, SameSteps, AgentState
<1>2. agent' \in AgentState
  <2>1. agent' \in {agent, [agent EXCEPT !.status = "failed", !.last_error = TRUE]}
    BY DEF Abort
  <2>2. [agent EXCEPT !.status = "failed", !.last_error = TRUE] \in AgentState
    BY <1>0 DEF AgentState, RunStatus
  <2> QED
    BY <1>0, <2>1, <2>2
<1>3. CASE next' # "interrupt"
  <2>1. next' \notin Unplanned \cup InLoop
    BY <1>1, <1>3 DEF Unplanned, InLoop, BeforeCall, AfterCall, Asking
  <2> QED
    BY <1>0, <1>1, <1>2, <2>1, LoopLeaves
<1>4. CASE next' = "interrupt"
  <2>1. next = "approval"
    BY <1>0, <1>1, <1>4 DEF NodeInv, Asking, GraphNodes
  <2> QED
    BY <1>0, <1>1, <1>4, <2>1, LoopGoesOn DEF InLoop, BeforeCall, AfterCall, Asking
<1> QED
  BY <1>3, <1>4

\* The answer may change the inputs of the step, nothing the attempts, the order
\* and the analyses are about.
LEMMA AnswerLoop ==
  ASSUME IInv, LoopInv(next, agent), NEW response \in ApprovalResponse, Answer(response)
  PROVE  LoopInv(next', agent')
<1> DEFINE t == Answered(agent, response)
<1>1. next = "interrupt" /\ NodeInv("interrupt", agent)
  BY DEF Answer, IInv
<1>2. NodeInv("approval", agent) /\ agent.pending_approval # None
  BY <1>1 DEF NodeInv, Asking, BeforeCall, AfterCall
<1>4. /\ agent' = t
      /\ IF Unvalidated(response) THEN next' = "ingest"
         ELSE next' = IF response.decision = "deny" THEN "record_denial" ELSE "execute"
  BY <1>2, AnswerGoes
<1>5. /\ StateInv(t) /\ t.current_step_index = agent.current_step_index
      /\ t.tool_calls_used = agent.tool_calls_used /\ Len(t.plan) = Len(agent.plan)
      /\ \A i \in DOMAIN agent.plan : /\ t.plan[i].step_id = agent.plan[i].step_id
                                      /\ t.plan[i].max_attempts = agent.plan[i].max_attempts
      /\ t.observations = agent.observations /\ t.analyzed = agent.analyzed
      /\ t.retry_counts = agent.retry_counts
  BY <1>2, AnsweredState
<1> HIDE DEF t
<1>6. t \in AgentState /\ agent \in AgentState /\ StateInv(agent)
  BY <1>1, <1>5 DEF StateInv, NodeInv
<1>7. SameSteps(agent, t)
  BY <1>5, <1>6, StateFacts DEF SameSteps
<1>8. CASE next' = "record_denial"
  BY <1>1, <1>4, <1>6, <1>7, <1>8, LoopLeaves
     DEF Unplanned, InLoop, BeforeCall, AfterCall, Asking
<1>9. CASE next' = "execute"
  BY <1>1, <1>4, <1>5, <1>6, <1>7, <1>9, LoopGoesOn DEF InLoop, BeforeCall, AfterCall, Asking
<1>10. CASE next' = "ingest"
  <2>1. LoopInv("select_step", t)
    BY <1>1, <1>5, <1>6, <1>7, LoopGoesOn DEF InLoop, BeforeCall, AfterCall, Asking
  <2>2. t.plan # <<>>
    BY <1>1, <1>5, <1>6, StateFacts DEF NodeInv, BeforeCall, Asking
  <2> QED
    BY <1>4, <1>10, <2>1, <2>2
       DEF LoopInv, AnalysesKept, Unplanned, InLoop, BeforeCall, AfterCall, Asking
<1> QED
  BY <1>4, <1>8, <1>9, <1>10

\* Every step of a run keeps the invariant of the step loop.
LEMMA NextLoop == IInv /\ LoopInv(next, agent) /\ [Next]_vars => LoopInv(next', agent')
<1> SUFFICES ASSUME IInv, LoopInv(next, agent), [Next]_vars PROVE LoopInv(next', agent')
  OBVIOUS
<1>0. agent \in AgentState
  BY DEF IInv, NodeInv, StateInv
<1>1. ASSUME NEW node \in GraphNodes \ {"approval"}, Run(node) PROVE LoopInv(next', agent')
  <2>1. PICK o \in Node(node, agent) : Take(o)
    BY <1>1 DEF Run
  <2>2. next = node /\ NodeInv(node, agent)
    BY <1>1 DEF Run, IInv, GraphNodes
  <2>3. CASE o.route = "raise"
    BY <2>1, <2>2, <2>3, AbortLoop DEF Take
  <2>4. CASE o.route # "raise"
    BY <2>1, <2>2, <2>4, LoopPasses DEF Take
  <2> QED
    BY <2>3, <2>4
<1>2. CASE AskApproval
  <2>1. next = "approval" /\ NodeInv("approval", agent) /\ agent.pending_approval # None
    BY <1>2 DEF AskApproval, IInv, NodeInv, Asking
  <2>2. PICK o \in Approval(agent, None) : Take(o)
    BY <1>2 DEF AskApproval
  <2>3. agent' = agent /\ next' = "interrupt"
    BY <2>1, <2>2 DEF Approval, Take, Go
  <2>4. SameSteps(agent, agent) /\ StateInv(agent)
    BY <2>1 DEF SameSteps, NodeInv
  <2> QED
    BY <1>0, <2>1, <2>3, <2>4, LoopGoesOn DEF InLoop, BeforeCall, AfterCall, Asking
<1>3. CASE OutOfSteps
  BY <1>3, AbortLoop DEF OutOfSteps
<1>4. ASSUME NEW response \in ApprovalResponse, Answer(response) PROVE LoopInv(next', agent')
  BY <1>4, AnswerLoop
<1>5. CASE UNCHANGED vars
  BY <1>5 DEF vars
<1>6. CASE Work
  BY <1>1, <1>2, <1>3, <1>6
     DEF Work, GraphNodes, RunIngest, RunClassify, RunRetrieveContext, RunPlan,
         RunValidatePlan, RunSelectStep, RunGuardrail, RunRecordDenial, RunExecute,
         RunObserve, RunAnalyze, RunVerify, RunReflect, RunReport, RunMemoryCommit
<1> QED
  BY <1>4, <1>5, <1>6 DEF Next

\* At every reachable state, what the loop over the steps of a plan keeps: the
\* calls of the current step against its retries, the steps before it done, the
\* steps after it untouched.
THEOREM LoopInvariance == Spec => []LoopInv(next, agent)
<1>1. LoopInv(next, agent) /\ IInv /\ [Next]_vars => LoopInv(next, agent)'
  <2>1. LoopInv(next', agent') => LoopInv(next, agent)'
    BY DEF LoopInv
  <2> QED
    BY <2>1, NextLoop
<1> QED
  BY <1>1, InitLoop, Invariance, PTL DEF Spec

\* A step's tool is never called more often than its max_attempts, whatever
\* tools, plans, answers and budgets there are.
THEOREM AttemptsAreBounded == Spec => []AttemptsBound
<1>1. LoopInv(next, agent) => AttemptsBound
  BY DEF LoopInv, AttemptsKept, CallsIn, AttemptsBound, CallsOf
<1> QED
  BY <1>1, LoopInvariance, PTL

\* No step's tool is called before every earlier step of the plan succeeded.
THEOREM StepsRunInOrder == Spec => []StepsInOrder
<1>1. LoopInv(next, agent) => StepsInOrder
  BY DEF LoopInv, OrderKept, SucceededBy, StepsInOrder
<1> QED
  BY <1>1, LoopInvariance, PTL

\* With tool budget left, no result was analysed twice.
THEOREM AnalyzesOnce == Spec => []AnalyzedOnce
<1>1. LoopInv(next, agent) => AnalyzedOnce
  BY DEF LoopInv, AnalysesKept, AnalyzedOnce
<1> QED
  BY <1>1, LoopInvariance, PTL
=============================================================================
