---------------------------- MODULE RunLifecycle ----------------------------
(***************************************************************************)
(* What a run promises its operator, without the graph: it works, stops to *)
(* ask, works on after the answer, and closes with a verdict.  A run the   *)
(* operator refused calls no further tool and asks nothing more, and it    *)
(* closes as completed only after some tool was called.  A working run     *)
(* does not work for ever.                                                 *)
(***************************************************************************)
EXTENDS Naturals

CONSTANT MaxCalls

VARIABLES phase,    \* "working", "waiting" or "closed"
          calls,    \* tool calls that returned a result
          refused,  \* the operator denied a request of the run
          verdict   \* what the run closed with, "open" before

vars == <<phase, calls, refused, verdict>>

Verdicts == {"completed", "partial", "denied", "failed", "lost"}

Init == phase = "working" /\ calls = 0 /\ refused = FALSE /\ verdict = "open"

CallTool == /\ phase = "working" /\ ~refused /\ calls < MaxCalls
            /\ calls' = calls + 1
            /\ UNCHANGED <<phase, refused, verdict>>

Ask == /\ phase = "working" /\ ~refused
       /\ phase' = "waiting"
       /\ UNCHANGED <<calls, refused, verdict>>

GiveAnswer(approved) == /\ phase = "waiting"
                        /\ phase' = "working"
                        /\ refused' = ~approved
                        /\ UNCHANGED <<calls, verdict>>

Close(v) == /\ phase = "working"
            /\ v = "completed" => calls > 0 /\ ~refused
            /\ phase' = "closed"
            /\ verdict' = v
            /\ UNCHANGED <<calls, refused>>

Next == \/ CallTool
        \/ Ask
        \/ \E approved \in BOOLEAN : GiveAnswer(approved)
        \/ \E v \in Verdicts : Close(v)

Spec == /\ Init /\ [][Next]_vars
        /\ WF_vars(Ask \/ \E v \in Verdicts : Close(v))
=============================================================================
