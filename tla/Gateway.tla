------------------------------ MODULE Gateway ------------------------------
(***************************************************************************)
(* QwenGateway.structured (llm.py): the planner calls of concurrent runs   *)
(* share the failure counts and the circuit breakers of the models.  A     *)
(* call tries the model of its role and then the fallback model; a model   *)
(* is asked up to Attempts times while it answers 429, 5xx or not in time. *)
(*                                                                         *)
(* A caller's step is what lies between two awaits: choosing a model and   *)
(* sending the request, or taking the answer.  The clock is abstract: the  *)
(* 60 seconds of a breaker may be over at any time.                        *)
(***************************************************************************)
EXTENDS Integers, Sequences, FiniteSets

CONSTANTS
  Callers,
  Models,
  Candidates,  \* each caller's models: its role's, then the fallback if another
  Attempts,    \* stop_after_attempt, 3
  Threshold    \* failed calls that open a breaker, 3

ASSUME GatewayAssumption ==
  /\ IsFiniteSet(Callers)
  /\ Candidates \in [Callers -> Seq(Models) \ {<<>>}]
  /\ \A c \in Callers : \A i, j \in DOMAIN Candidates[c] :
       Candidates[c][i] = Candidates[c][j] => i = j
  /\ Attempts \in Nat \ {0} /\ Threshold \in Nat \ {0}

VARIABLES
  call,      \* each caller's call: "idle", "choosing", "asking" or its result
  index,     \* the candidate it is at
  attempt,   \* requests it has sent to that candidate
  failures,  \* _failures, which nothing tells apart beyond Threshold
  open,      \* the models whose _open_until lies ahead
  sent,      \* ghost: the requests of the call to each model
  skipped,   \* ghost: the models the call passed over
  late       \* ghost: requests to a model while its breaker is open

vars == <<call, index, attempt, failures, open, sent, skipped, late>>

Results == {"parsed", "failed", "timeout", "broken"}

NoneSent == [m \in Models |-> 0]

Init == /\ call = [c \in Callers |-> "idle"]
        /\ index = [c \in Callers |-> 1]
        /\ attempt = [c \in Callers |-> 0]
        /\ failures = [m \in Models |-> 0]
        /\ open = {}
        /\ sent = [c \in Callers |-> NoneSent]
        /\ skipped = [c \in Callers |-> {}]
        /\ late = NoneSent

Elements(s) == {s[i] : i \in DOMAIN s}

Model(c) == Candidates[c][index[c]]

Begin(c) ==
  /\ call[c] \in {"idle"} \cup Results
  /\ call' = [call EXCEPT ![c] = "choosing"]
  /\ index' = [index EXCEPT ![c] = 1]
  /\ attempt' = [attempt EXCEPT ![c] = 0]
  /\ sent' = [sent EXCEPT ![c] = NoneSent]
  /\ skipped' = [skipped EXCEPT ![c] = {}]
  /\ UNCHANGED <<failures, open, late>>

\* Faulty: without the last candidate.
AdvanceTooShort(c) ==
  /\ attempt' = [attempt EXCEPT ![c] = 0]
  /\ IF index[c] + 1 < Len(Candidates[c])
       THEN /\ index' = [index EXCEPT ![c] = @ + 1]
            /\ call' = [call EXCEPT ![c] = "choosing"]
       ELSE call' = [call EXCEPT ![c] = "failed"] /\ UNCHANGED index

\* Faulty: after the last candidate comes the first.
AdvanceAround(c) ==
  /\ attempt' = [attempt EXCEPT ![c] = 0]
  /\ index' = [index EXCEPT ![c] = 1 + (@ % Len(Candidates[c]))]
  /\ call' = [call EXCEPT ![c] = "choosing"]

\* On to the next candidate, or out of the loop without one.
Advance(c) ==
  /\ attempt' = [attempt EXCEPT ![c] = 0]
  /\ IF index[c] < Len(Candidates[c])
       THEN /\ index' = [index EXCEPT ![c] = @ + 1]
            /\ call' = [call EXCEPT ![c] = "choosing"]
       ELSE call' = [call EXCEPT ![c] = "failed"] /\ UNCHANGED index

\* A model with an open breaker is passed over.
Skip(c) ==
  /\ call[c] = "choosing" /\ Model(c) \in open
  /\ Advance(c)
  /\ skipped' = [skipped EXCEPT ![c] = @ \cup {Model(c)}]
  /\ UNCHANGED <<failures, open, sent, late>>

Send(c) ==
  /\ attempt' = [attempt EXCEPT ![c] = @ + 1]
  /\ sent' = [sent EXCEPT ![c][Model(c)] = @ + 1]
  /\ late' = IF Model(c) \in open THEN [late EXCEPT ![Model(c)] = @ + 1] ELSE late

\* Faulty: the breaker is not read.
AskAnyway(c) ==
  /\ call[c] = "choosing"
  /\ Send(c)
  /\ call' = [call EXCEPT ![c] = "asking"]
  /\ UNCHANGED <<index, failures, open, skipped>>

Ask(c) ==
  /\ call[c] = "choosing" /\ Model(c) \notin open
  /\ Send(c)
  /\ call' = [call EXCEPT ![c] = "asking"]
  /\ UNCHANGED <<index, failures, open, skipped>>

\* Faulty: one attempt too many.
AskAgainOnceMore(c) ==
  /\ call[c] = "asking" /\ attempt[c] <= Attempts
  /\ Send(c)
  /\ UNCHANGED <<call, index, failures, open, skipped>>

\* 408, 409, 429, 5xx or a timeout, and attempts are left.  The breaker is not
\* looked at again.
AskAgain(c) ==
  /\ call[c] = "asking" /\ attempt[c] < Attempts
  /\ Send(c)
  /\ UNCHANGED <<call, index, failures, open, skipped>>

\* An answer that fits the schema.  It closes no breaker that others opened.
Answer(c) ==
  /\ call[c] = "asking"
  /\ call' = [call EXCEPT ![c] = "parsed"]
  /\ failures' = [failures EXCEPT ![Model(c)] = 0]
  /\ UNCHANGED <<index, attempt, open, sent, skipped, late>>

\* A failed call of the model: from the third in a row on, each opens its
\* breaker for 60 seconds.
CountFailure(m) ==
  /\ failures' = [failures EXCEPT ![m] = IF @ < Threshold THEN @ + 1 ELSE @]
  /\ open' = IF failures'[m] >= Threshold THEN open \cup {m} ELSE open

\* Retryable answers to the last attempt, another 4xx, a malformed body or one
\* the schema refuses: ModelGatewayError, ValidationError or JSONDecodeError.
Refuse(c) ==
  /\ call[c] = "asking"
  /\ CountFailure(Model(c))
  /\ Advance(c)
  /\ UNCHANGED <<sent, skipped, late>>

\* A timeout of the last attempt is raised again as it is; the candidate loop
\* does not catch it.
TimeOut(c) ==
  /\ call[c] = "asking" /\ attempt[c] = Attempts
  /\ call' = [call EXCEPT ![c] = "timeout"]
  /\ UNCHANGED <<index, attempt, failures, open, sent, skipped, late>>

\* Any other transport error is neither retried nor caught.
Break(c) ==
  /\ call[c] = "asking"
  /\ call' = [call EXCEPT ![c] = "broken"]
  /\ UNCHANGED <<index, attempt, failures, open, sent, skipped, late>>

\* The 60 seconds of a breaker are over; the failure count stays.
CoolDown(m) ==
  /\ m \in open
  /\ open' = open \ {m}
  /\ late' = [late EXCEPT ![m] = 0]
  /\ UNCHANGED <<call, index, attempt, failures, sent, skipped>>

Work(c) == \/ Skip(c) \/ Ask(c) \/ AskAgain(c) \/ Answer(c) \/ Refuse(c)
           \/ TimeOut(c) \/ Break(c)

Next == \/ \E c \in Callers : Begin(c) \/ Work(c)
        \/ \E m \in Models : CoolDown(m)

\* The client has a timeout and tenacity a last attempt: a call goes on.
Fairness == \A c \in Callers : WF_vars(Work(c))

Spec == Init /\ [][Next]_vars /\ Fairness
-----------------------------------------------------------------------------
TypeOK ==
  /\ call \in [Callers -> {"idle", "choosing", "asking"} \cup Results]
  /\ index \in [Callers -> Nat]
  /\ \A c \in Callers : index[c] \in DOMAIN Candidates[c]
  /\ attempt \in [Callers -> 0..Attempts]
  /\ failures \in [Models -> 0..Threshold]
  /\ open \subseteq Models
  /\ sent \in [Callers -> [Models -> Nat]]
  /\ skipped \in [Callers -> SUBSET Models]
  /\ late \in [Models -> Nat]

\* The call gave this model up: it passed it over without a request, or asked
\* it at least once and at most Attempts times.
InVain(c, m) == \/ m \in skipped[c] /\ sent[c][m] = 0
                \/ m \notin skipped[c] /\ sent[c][m] \in 1..Attempts

\* A call turns to a candidate only when all before it were given up, has not
\* touched those after it, and raises "All configured models failed" only when
\* every one was given up.
FailsInVain ==
  \A c \in Callers : \A i \in DOMAIN Candidates[c] :
    /\ i < index[c] \/ call[c] = "failed" => InVain(c, Candidates[c][i])
    /\ i > index[c] => sent[c][Candidates[c][i]] = 0

\* A breaker takes effect for calls that share the gateway: once it is open, a
\* model gets only the retries of the calls that were already asking it.
LateRequestsBound ==
  \A m \in open :
    late[m] <= (Cardinality({c \in Callers : m \in Elements(Candidates[c])}) - 1) * (Attempts - 1)

\* Every call returns, whatever the models answer or fail to answer.
CallReturns == \A c \in Callers : (call[c] \in {"choosing", "asking"}) ~> (call[c] \in Results)
=============================================================================
