----------------------------- MODULE MCGateway -----------------------------
(***************************************************************************)
(* Two runs plan at the same time, with the planner's model and the        *)
(* fallback model of config.py.                                            *)
(***************************************************************************)
EXTENDS Gateway

MCCallers == {"run1", "run2"}
MCModels == {"qwen-plus", "qwen-max"}
MCCandidates == [c \in MCCallers |-> <<"qwen-plus", "qwen-max">>]
=============================================================================
