---------------------------- MODULE MCRunService ----------------------------
(***************************************************************************)
(* RunService over the shipped tools, for a penetration test with the      *)
(* shipped plan (two steps that need approval, taken after the model       *)
(* failed) or a model's: an audit, then a step that needs approval.  After *)
(* a retried audit the question meets the recursion limit of the first     *)
(* call.  At most two tasks of the run at a time.                          *)
(***************************************************************************)
EXTENDS RunService, DefaultPlans

MCStepIds == DefaultStepIds \cup {"audit", "scan"}
MCInputs == {TargetDot, NoParameters}
MCSlots == 1..2
MCSubmissions == {"penetration_test"}

\* Every failure of the audit is treated alike; of the scanners, the one both
\* plans call may raise.
MCResults ==
  [RegistryResults EXCEPT
     !["bandit_python_audit"] =
       {Result("success", "cited"), Result("error", "cited"), Result("raise", "cited")},
     !["gobuster_dir"] = {Result("success", "cited"), Result("error", "cited")}]

MCModelPlans ==
  {<<[Step("audit", <<"bandit_python_audit">>, TargetDot) EXCEPT !.max_attempts = 3],
     Step("scan", <<"nmap_scan">>, TargetDot)>>}
=============================================================================
