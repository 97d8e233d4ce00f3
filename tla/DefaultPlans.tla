---------------------------- MODULE DefaultPlans ----------------------------
(***************************************************************************)
(* The data the program is shipped with: the tools default_registry        *)
(* registers with their risk levels and results, and the plans             *)
(* PlannerAgent falls back to.  The MC modules give these values to the    *)
(* constants of AgentNodes.                                                *)
(***************************************************************************)
EXTENDS Integers, Sequences

\* A parameter dictionary: {"target": "."}, {}, or what an operator edits in.
TargetDot == "target_dot"
NoParameters == "no_parameters"
Edited == "edited"

\* Manifest risk levels of the tools default_registry registers.
ManifestRisk ==
  [bandit_python_audit |-> 1, log_inspector |-> 1, nmap_scan |-> 2, nuclei_scan |-> 2,
   gobuster_dir |-> 2, whatweb_identify |-> 1, searchsploit_query |-> 1]

RegistryTools == DOMAIN ManifestRisk

Result(status, findings) == [status |-> status, findings |-> findings]

Failures == {Result(status, "cited") : status \in {"error", "timeout", "denied"}}

\* BanditTool.invoke: every finding cites its evidence, and a severity outside
\* the Finding literal raises a ValidationError.
BanditResults == Failures \cup {Result("success", "cited"), Result("raise", "cited")}

\* LogAnalysisTool.invoke: its findings cite no evidence; none is fine too.  A
\* max_lines that is no number raises.
LogResults == {Result("success", "cited"), Result("success", "uncited"),
               Result("denied", "cited"), Result("raise", "cited")}

\* The tools in a sandbox return no findings.  They turn a SandboxError into an
\* error, but without a docker binary the exception is another one.
SandboxResults == {Result(status, "cited") : status \in {"success", "error", "raise"}}

\* NucleiTool.invoke: it returns the scanner's own records as findings, which
\* lack the fields a Finding requires.
NucleiResults == SandboxResults \cup {Result("success", "malformed")}

RegistryResults ==
  [tool \in RegistryTools |->
     CASE tool = "bandit_python_audit" -> BanditResults
       [] tool = "log_inspector" -> LogResults
       [] tool = "nuclei_scan" -> NucleiResults
       [] OTHER -> SandboxResults]

Step(id, candidates, inputs) ==
  [step_id |-> id, tool_candidates |-> candidates, dependencies |-> {},
   inputs |-> inputs, max_attempts |-> 2]

\* PlannerAgent._create_default_plan; <<>> stands for its None.
CreateDefaultPlan ==
  [scenario \in {"code_audit", "log_analysis", "incident_response",
                 "penetration_test", "unknown"} |->
     CASE scenario = "code_audit" ->
            <<Step("audit-python-bandit", <<"bandit_python_audit">>, TargetDot)>>
       [] scenario = "penetration_test" ->
            <<Step("pentest-recon", <<"nmap_scan", "whatweb_identify">>, TargetDot),
              Step("pentest-enumerate", <<"gobuster_dir", "nuclei_scan">>, NoParameters)>>
       [] scenario = "log_analysis" ->
            <<Step("log-inspect", <<"log_inspector">>, TargetDot)>>
       [] OTHER -> <<>>]

DefaultStepIds == {"audit-python-bandit", "pentest-recon", "pentest-enumerate", "log-inspect"}
=============================================================================
