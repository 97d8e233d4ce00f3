----------------------------- MODULE MCAgentRun -----------------------------
(***************************************************************************)
(* AgentRun over the shipped tools and default plans, with a few plans a   *)
(* model may answer with: two audits in a row, a plan that needs approval  *)
(* between two audits, and the plans validation and the guardrail refuse.  *)
(***************************************************************************)
EXTENDS AgentRun, DefaultPlans

ModelStepIds == {"s1", "s2", "s3"}
MCStepIds == DefaultStepIds \cup ModelStepIds
MCToolNames == RegistryTools \cup {"unregistered"}
OutOfPolicy == "out_of_policy"
MCInputs == {TargetDot, NoParameters, Edited, OutOfPolicy}
MCBlockedInputs == {OutOfPolicy}

Audit(id) == Step(id, <<"bandit_python_audit">>, TargetDot)

MCModelPlans ==
  {<<Audit("s1"), [Audit("s2") EXCEPT !.max_attempts = 1]>>,
   <<Audit("s1"), Step("s2", <<"nmap_scan">>, TargetDot), Audit("s3")>>,
   <<>>,
   <<Audit("s1"), Audit("s1")>>,
   <<[Audit("s1") EXCEPT !.dependencies = {"s2"}]>>,
   <<Step("s1", <<"unregistered">>, TargetDot)>>,
   <<Step("s1", <<>>, NoParameters)>>,
   <<Step("s1", <<"bandit_python_audit">>, OutOfPolicy)>>}
=============================================================================
