--------------------------- MODULE GatewayProofs ---------------------------
(***************************************************************************)
(* A gateway call gives up a candidate only in vain, for every number of   *)
(* callers, models and attempts.  CallInv adds what a call knows of the    *)
(* candidate it is at: its requests are the attempts, and nothing was sent *)
(* to it or to a later one before its turn.                                *)
(*                                                                         *)
(* LateInv bounds the requests that reach a model after its circuit opened *)
(* by the attempts the calls that were under way still have.               *)
(***************************************************************************)
EXTENDS Gateway, TLAPS, FiniteSetTheorems

\* What holds of one call.  Of the candidates after the current one nothing is
\* known to the models yet.
CallInv(c) ==
  /\ call[c] = "choosing" =>
       /\ attempt[c] = 0 /\ sent[c][Model(c)] = 0
       /\ Model(c) \notin skipped[c]
  /\ call[c] = "asking" =>
       /\ attempt[c] \in 1..Attempts /\ sent[c][Model(c)] = attempt[c]
       /\ Model(c) \notin skipped[c]
  /\ \A i \in DOMAIN Candidates[c] :
       /\ i < index[c] \/ call[c] = "failed" => InVain(c, Candidates[c][i])
       /\ i > index[c] => /\ sent[c][Candidates[c][i]] = 0
                          /\ Candidates[c][i] \notin skipped[c]

IInv == TypeOK /\ \A c \in Callers : CallInv(c)

\* A caller has candidates, each of them a model and all different.
LEMMA CandidateFacts ==
  ASSUME NEW c \in Callers
  PROVE  /\ Len(Candidates[c]) \in Nat /\ Len(Candidates[c]) >= 1
         /\ DOMAIN Candidates[c] = 1..Len(Candidates[c])
         /\ \A i \in DOMAIN Candidates[c] : Candidates[c][i] \in Models
         /\ \A i, j \in DOMAIN Candidates[c] : Candidates[c][i] = Candidates[c][j] => i = j
<1>1. Candidates[c] \in Seq(Models) /\ Candidates[c] # <<>>
  BY GatewayAssumption
<1> QED
  BY <1>1, GatewayAssumption

\* Calls that a step leaves alone keep what held of them.
LEMMA OthersKeep ==
  ASSUME NEW d \in Callers, CallInv(d),
         call'[d] = call[d], index'[d] = index[d], attempt'[d] = attempt[d],
         sent'[d] = sent[d], skipped'[d] = skipped[d]
  PROVE  CallInv(d)'
BY DEF CallInv, InVain, Model

\* Everybody is idle at the start.
LEMMA InitInv == Init => IInv
<1> SUFFICES ASSUME Init PROVE IInv
  OBVIOUS
<1>1. TypeOK
  BY GatewayAssumption, CandidateFacts DEF Init, TypeOK, NoneSent
<1>2. ASSUME NEW c \in Callers PROVE CallInv(c)
  BY CandidateFacts DEF Init, CallInv, NoneSent
<1> QED
  BY <1>1, <1>2 DEF IInv

LEMMA BoundsAreNat == Attempts \in Nat \ {0} /\ Threshold \in Nat \ {0}
BY GatewayAssumption

\* The candidate a call is at is one of the models.
LEMMA ModelIsModel ==
  ASSUME TypeOK, NEW c \in Callers
  PROVE  Model(c) \in Models /\ index[c] \in 1..Len(Candidates[c])
BY CandidateFacts DEF TypeOK, Model

\* A new index stays in range if it is the first or Advance's.
LEMMA AdvanceTypes ==
  ASSUME TypeOK, NEW c \in Callers, Advance(c)
  PROVE  /\ call' \in [Callers -> {"idle", "choosing", "asking"} \cup Results]
         /\ index' \in [Callers -> Nat]
         /\ \A d \in Callers : index'[d] \in DOMAIN Candidates[d]
         /\ attempt' \in [Callers -> 0..Attempts]
<1>1. index[c] \in 1..Len(Candidates[c]) /\ Len(Candidates[c]) \in Nat
  BY ModelIsModel, CandidateFacts
<1>2. attempt' \in [Callers -> 0..Attempts]
  BY BoundsAreNat DEF Advance, TypeOK
<1>3. call' \in [Callers -> {"idle", "choosing", "asking"} \cup Results]
  <2>1. \/ call' = [call EXCEPT ![c] = "choosing"]
        \/ call' = [call EXCEPT ![c] = "failed"]
    BY DEF Advance
  <2> QED
    BY <2>1 DEF TypeOK, Results
<1>4. CASE index[c] < Len(Candidates[c])
  <2>1. index' = [index EXCEPT ![c] = index[c] + 1] /\ index[c] + 1 \in 1..Len(Candidates[c])
    BY <1>1, <1>4 DEF Advance
  <2>2. index' \in [Callers -> Nat]
    BY <2>1 DEF TypeOK
  <2>3. \A d \in Callers : index'[d] \in DOMAIN Candidates[d]
    BY <2>1, CandidateFacts DEF TypeOK
  <2> QED
    BY <1>2, <1>3, <2>2, <2>3
<1>5. CASE ~(index[c] < Len(Candidates[c]))
  <2>1. index' = index
    BY <1>5 DEF Advance
  <2> QED
    BY <1>2, <1>3, <2>1 DEF TypeOK
<1> QED
  BY <1>4, <1>5

\* A request counts as an attempt, which must be left.
LEMMA SendTypes ==
  ASSUME TypeOK, NEW c \in Callers, Send(c), attempt[c] < Attempts
  PROVE  /\ attempt' \in [Callers -> 0..Attempts]
         /\ sent' \in [Callers -> [Models -> Nat]]
         /\ late' \in [Models -> Nat]
<1>1. Model(c) \in Models
  BY ModelIsModel
<1> DEFINE m == Model(c)
<1>2. attempt' = [attempt EXCEPT ![c] = attempt[c] + 1] /\ attempt[c] + 1 \in 0..Attempts
  BY BoundsAreNat DEF Send, TypeOK
<1>3. sent' = [sent EXCEPT ![c] = [sent[c] EXCEPT ![m] = sent[c][m] + 1]]
  BY DEF Send, TypeOK
<1>4. late' \in {late, [late EXCEPT ![m] = late[m] + 1]}
  BY DEF Send
<1> HIDE DEF m
<1>5. [sent[c] EXCEPT ![m] = sent[c][m] + 1] \in [Models -> Nat]
  BY <1>1 DEF TypeOK, m
<1>6. late' \in [Models -> Nat]
  BY <1>1, <1>4 DEF TypeOK, m
<1>7. sent' \in [Callers -> [Models -> Nat]]
  BY <1>3, <1>5 DEF TypeOK
<1> QED
  BY <1>2, <1>6, <1>7 DEF TypeOK

\* Each action keeps the ranges.
LEMMA TypeStep == IInv /\ [Next]_vars => TypeOK'
<1> SUFFICES ASSUME IInv, [Next]_vars PROVE TypeOK'
  OBVIOUS
<1>0. TypeOK
  BY DEF IInv
<1>1. ASSUME NEW c \in Callers, Begin(c) PROVE TypeOK'
  <2>1. 1 \in DOMAIN Candidates[c]
    BY CandidateFacts
  <2> QED
    BY <1>0, <1>1, <2>1, BoundsAreNat DEF Begin, TypeOK, NoneSent, Results
<1>2. ASSUME NEW c \in Callers, Skip(c) PROVE TypeOK'
  <2>1. Model(c) \in Models /\ Advance(c)
    BY <1>0, <1>2, ModelIsModel DEF Skip
  <2>2. skipped' \in [Callers -> SUBSET Models]
    BY <1>0, <1>2, <2>1 DEF Skip, TypeOK
  <2> QED
    BY <1>0, <1>2, <2>1, <2>2, AdvanceTypes DEF Skip, TypeOK
<1>3. ASSUME NEW c \in Callers, Ask(c) PROVE TypeOK'
  <2>1. Send(c) /\ attempt[c] < Attempts
    BY <1>3, BoundsAreNat DEF Ask, IInv, CallInv
  <2> QED
    BY <1>0, <1>3, <2>1, SendTypes DEF Ask, TypeOK
<1>4. ASSUME NEW c \in Callers, AskAgain(c) PROVE TypeOK'
  BY <1>0, <1>4, SendTypes DEF AskAgain, TypeOK
<1>5. ASSUME NEW c \in Callers, Answer(c) PROVE TypeOK'
  <2>1. failures' \in [Models -> 0..Threshold]
    BY <1>0, <1>5, ModelIsModel, BoundsAreNat DEF Answer, TypeOK
  <2> QED
    BY <1>0, <1>5, <2>1 DEF Answer, TypeOK, Results
<1>6. ASSUME NEW c \in Callers, Refuse(c) PROVE TypeOK'
  <2>1. Model(c) \in Models /\ Advance(c) /\ CountFailure(Model(c))
    BY <1>0, <1>6, ModelIsModel DEF Refuse
  <2>2. failures' \in [Models -> 0..Threshold]
    BY <1>0, <2>1, BoundsAreNat DEF CountFailure, TypeOK
  <2>3. open' \subseteq Models
    BY <1>0, <2>1 DEF CountFailure, TypeOK
  <2> QED
    BY <1>0, <1>6, <2>1, <2>2, <2>3, AdvanceTypes DEF Refuse, TypeOK
<1>7. ASSUME NEW c \in Callers, TimeOut(c) \/ Break(c) PROVE TypeOK'
  BY <1>0, <1>7 DEF TimeOut, Break, TypeOK, Results
<1>8. ASSUME NEW m \in Models, CoolDown(m) PROVE TypeOK'
  BY <1>0, <1>8 DEF CoolDown, TypeOK
<1>9. CASE UNCHANGED vars
  BY <1>0, <1>9 DEF vars, TypeOK
<1> QED
  BY <1>1, <1>2, <1>3, <1>4, <1>5, <1>6, <1>7, <1>8, <1>9 DEF Next, Work

\* A candidate given up leaves the call at the next one, which it has not
\* touched, or at its end.
LEMMA AdvanceKeeps ==
  ASSUME IInv, NEW c \in Callers, Advance(c), call[c] # "failed",
         \A i \in DOMAIN Candidates[c] \ {index[c]} :
            /\ sent'[c][Candidates[c][i]] = sent[c][Candidates[c][i]]
            /\ Candidates[c][i] \in skipped'[c] <=> Candidates[c][i] \in skipped[c],
         LET m == Model(c) IN
           \/ m \in skipped'[c] /\ sent'[c][m] = 0
           \/ m \notin skipped'[c] /\ sent'[c][m] \in 1..Attempts
  PROVE  CallInv(c)'
<1> DEFINE n == Len(Candidates[c])
           k == index[c]
<1>1. TypeOK /\ CallInv(c)
  BY DEF IInv
<1>2. n \in Nat /\ k \in 1..n /\ DOMAIN Candidates[c] = 1..n
  BY <1>1, ModelIsModel, CandidateFacts
<1>3. \A i \in 1..k : InVain(c, Candidates[c][i])'
  BY <1>1, <1>2 DEF CallInv, InVain, Model
<1>4. \A i \in 1..n : i > k => /\ sent'[c][Candidates[c][i]] = 0
                               /\ Candidates[c][i] \notin skipped'[c]
  BY <1>1, <1>2 DEF CallInv
<1>5. CASE k < n
  <2>1. index'[c] = k + 1 /\ call'[c] = "choosing" /\ attempt'[c] = 0
    BY <1>1, <1>5 DEF Advance, TypeOK
  <2>2. Model(c)' = Candidates[c][k + 1]
    BY <2>1 DEF Model
  <2> QED
    BY <1>2, <1>3, <1>4, <1>5, <2>1, <2>2 DEF CallInv
<1>6. CASE ~(k < n)
  <2>1. index'[c] = k /\ call'[c] = "failed" /\ k = n
    BY <1>1, <1>2, <1>6 DEF Advance, TypeOK
  <2> QED
    BY <1>2, <1>3, <2>1 DEF CallInv
<1> QED
  BY <1>5, <1>6

\* Every step of a caller keeps what holds of its call.
LEMMA CallStep ==
  ASSUME IInv, NEW c \in Callers, Begin(c) \/ Work(c)
  PROVE  CallInv(c)'
<1>1. TypeOK /\ CallInv(c)
  BY DEF IInv
<1>2. /\ Model(c) \in Models /\ index[c] \in 1..Len(Candidates[c])
      /\ DOMAIN Candidates[c] = 1..Len(Candidates[c])
  BY <1>1, ModelIsModel, CandidateFacts
<1>3. \A i \in DOMAIN Candidates[c] \ {index[c]} : Candidates[c][i] # Model(c)
  BY <1>2, CandidateFacts DEF Model
<1>4. CASE Begin(c)
  <2>1. /\ call'[c] = "choosing" /\ index'[c] = 1 /\ attempt'[c] = 0
        /\ sent'[c] = NoneSent /\ skipped'[c] = {}
    BY <1>1, <1>4 DEF Begin, TypeOK
  <2>2. \A i \in DOMAIN Candidates[c] : sent'[c][Candidates[c][i]] = 0
    BY <2>1, CandidateFacts DEF NoneSent
  <2> QED
    BY <1>2, <2>1, <2>2, CandidateFacts DEF CallInv, Model
<1>5. CASE Skip(c)
  <2>1. call[c] = "choosing" /\ Advance(c) /\ sent' = sent
    BY <1>5 DEF Skip
  <2>2. skipped'[c] = skipped[c] \cup {Model(c)}
    BY <1>1, <1>5 DEF Skip, TypeOK
  <2>3. sent[c][Model(c)] = 0
    BY <1>1, <2>1 DEF CallInv
  <2> QED
    BY <1>3, <2>1, <2>2, <2>3, AdvanceKeeps
<1>6. ASSUME Send(c), call'[c] = "asking", call[c] \in {"choosing", "asking"},
             attempt[c] < Attempts, index' = index, skipped' = skipped
      PROVE  CallInv(c)'
  <2>1. attempt'[c] = attempt[c] + 1 /\ sent'[c][Model(c)] = sent[c][Model(c)] + 1
    BY <1>1, <1>2, <1>6 DEF Send, TypeOK
  <2>2. \A i \in DOMAIN Candidates[c] \ {index[c]} :
          sent'[c][Candidates[c][i]] = sent[c][Candidates[c][i]]
    BY <1>1, <1>3, <1>6, CandidateFacts DEF Send, TypeOK
  <2>3. attempt[c] \in 0..Attempts /\ Attempts \in Nat /\ sent[c][Model(c)] = attempt[c]
    BY <1>1, <1>6, BoundsAreNat DEF CallInv, TypeOK
  <2>4. attempt'[c] \in 1..Attempts /\ sent'[c][Model(c)] = attempt'[c] /\ Model(c)' = Model(c)
    BY <1>6, <2>1, <2>3 DEF Model
  <2>5. Model(c) \notin skipped'[c]
    BY <1>1, <1>6 DEF CallInv
  <2>6. \A i \in DOMAIN Candidates[c] :
          /\ i < index[c] => InVain(c, Candidates[c][i])'
          /\ i > index[c] => /\ sent'[c][Candidates[c][i]] = 0
                             /\ Candidates[c][i] \notin skipped'[c]
    BY <1>1, <1>2, <1>6, <2>2 DEF CallInv, InVain
  <2> QED
    BY <1>6, <2>4, <2>5, <2>6 DEF CallInv
<1>7. CASE Ask(c)
  <2>1. call'[c] = "asking" /\ attempt[c] < Attempts
    BY <1>1, <1>7, BoundsAreNat DEF Ask, CallInv, TypeOK
  <2> QED
    BY <1>6, <1>7, <2>1 DEF Ask
<1>8. CASE AskAgain(c)
  BY <1>6, <1>8 DEF AskAgain
<1>9. CASE Refuse(c)
  <2>1. /\ call[c] = "asking" /\ Advance(c) /\ sent' = sent /\ skipped' = skipped
    BY <1>9 DEF Refuse
  <2>2. Model(c) \notin skipped[c] /\ sent[c][Model(c)] \in 1..Attempts
    BY <1>1, <2>1 DEF CallInv
  <2> QED
    BY <2>1, <2>2, AdvanceKeeps
<1>10. CASE Answer(c) \/ TimeOut(c) \/ Break(c)
  <2>1. /\ call'[c] \in {"parsed", "timeout", "broken"} /\ call[c] # "failed"
        /\ index' = index /\ sent' = sent /\ skipped' = skipped
    BY <1>1, <1>10 DEF Answer, TimeOut, Break, TypeOK
  <2> QED
    BY <1>1, <2>1 DEF CallInv, InVain
<1> QED
  BY <1>4, <1>5, <1>7, <1>8, <1>9, <1>10 DEF Work

\* A step of one caller is no step of another's call.
LEMMA StepInv == IInv /\ [Next]_vars => IInv'
<1> SUFFICES ASSUME IInv, [Next]_vars PROVE IInv'
  OBVIOUS
<1>1. TypeOK'
  BY TypeStep
<1>2. ASSUME NEW c \in Callers, Begin(c) \/ Work(c), NEW d \in Callers \ {c}
      PROVE  CallInv(d)'
  <2>1. /\ call'[d] = call[d] /\ index'[d] = index[d] /\ attempt'[d] = attempt[d]
        /\ sent'[d] = sent[d] /\ skipped'[d] = skipped[d]
    BY <1>2 DEF IInv, TypeOK, Work, Begin, Skip, Ask, AskAgain, Answer, Refuse, TimeOut,
                Break, Advance, Send
  <2> QED
    BY <2>1, OthersKeep DEF IInv
<1>3. ASSUME (\E m \in Models : CoolDown(m)) \/ UNCHANGED vars, NEW d \in Callers
      PROVE  CallInv(d)'
  BY <1>3, OthersKeep DEF CoolDown, vars, IInv
<1> QED
  BY <1>1, <1>2, <1>3, CallStep DEF IInv, Next

\* Every call of the gateway finds and leaves its bookkeeping as it should be.
THEOREM Invariance == Spec => []IInv
BY InitInv, StepInv, PTL DEF Spec

\* The gateway's variables keep their ranges: an index names a candidate, and
\* no model is asked more than Attempts times in a row.
THEOREM TypeCorrect == Spec => []TypeOK
<1>1. IInv => TypeOK
  BY DEF IInv
<1> QED
  BY <1>1, Invariance, PTL

\* "All configured models failed" is raised only when every candidate was
\* asked at most Attempts times or passed over for its breaker, the fallback
\* model is not touched before its turn.
THEOREM FailsOnlyInVain == Spec => []FailsInVain
<1>1. IInv => FailsInVain
  BY DEF IInv, CallInv, FailsInVain
<1> QED
  BY <1>1, Invariance, PTL
-----------------------------------------------------------------------------
(***************************************************************************)
(* The requests that an open breaker does not hold back.  A call that asks *)
(* the model has retries left, counted as pairs of the caller and the      *)
(* number of the attempt.  Each late request uses one up and nobody gets   *)
(* new ones; the call that opened the breaker has none any more.           *)
(***************************************************************************)

Users(m) == {c \in Callers : m \in Elements(Candidates[c])}

RetriesLeft(m) ==
  {retry \in Callers \X (2..Attempts) :
     /\ call[retry[1]] = "asking" /\ Model(retry[1]) = m
     /\ attempt[retry[1]] < retry[2]}

Others(m) == (Cardinality(Users(m)) - 1) * (Attempts - 1)

LateOf(m) == IF m \in open THEN late[m] + Cardinality(RetriesLeft(m)) <= Others(m)
                           ELSE late[m] = 0

LateInv == IInv /\ \A m \in Models : LateOf(m)

\* The retries are finitely many.
LEMMA RetriesFinite ==
  ASSUME NEW m
  PROVE  IsFiniteSet(RetriesLeft(m)) /\ Cardinality(RetriesLeft(m)) \in Nat
<1>1. IsFiniteSet(Callers) /\ IsFiniteSet(2..Attempts)
  BY GatewayAssumption, FS_Interval
<1>2. IsFiniteSet(Callers \X (2..Attempts))
  BY <1>1, FS_Product
<1>3. RetriesLeft(m) \subseteq Callers \X (2..Attempts)
  BY DEF RetriesLeft
<1>4. IsFiniteSet(RetriesLeft(m))
  BY <1>2, <1>3, FS_Subset
<1> QED
  BY <1>4, FS_CardinalityType

\* At most the callers of a model without the one that gave it up have retries.
LEMMA OthersRetries ==
  ASSUME NEW m, NEW c \in Users(m),
         NEW R, R \subseteq (Users(m) \ {c}) \X (2..Attempts)
  PROVE  Cardinality(R) <= Others(m)
<1>1. Users(m) \subseteq Callers /\ IsFiniteSet(Callers) /\ Attempts \in Nat \ {0}
  BY GatewayAssumption DEF Users
<1>2. IsFiniteSet(Users(m))
  BY <1>1, FS_Subset
<1>3. /\ IsFiniteSet(Users(m) \ {c})
      /\ Cardinality(Users(m) \ {c}) = Cardinality(Users(m)) - 1
  BY <1>2, FS_RemoveElement
<1>4. IsFiniteSet(2..Attempts) /\ Cardinality(2..Attempts) = Attempts - 1
  BY <1>1, FS_Interval
<1>5. /\ IsFiniteSet((Users(m) \ {c}) \X (2..Attempts))
      /\ Cardinality((Users(m) \ {c}) \X (2..Attempts)) = Others(m)
  BY <1>3, <1>4, FS_Product DEF Others
<1> QED
  BY <1>5, FS_Subset

\* Retries that are not used up stay as many or become fewer.
LEMMA NoMoreRetries ==
  ASSUME NEW m, m \in open, m \in open', LateOf(m), late[m] \in Nat, late'[m] = late[m],
         RetriesLeft(m)' \subseteq RetriesLeft(m)
  PROVE  LateOf(m)'
<1>1. /\ Cardinality(RetriesLeft(m)') \in Nat /\ Cardinality(RetriesLeft(m)) \in Nat
      /\ Cardinality(RetriesLeft(m)') <= Cardinality(RetriesLeft(m))
  <2>1. IsFiniteSet(RetriesLeft(m)) /\ Cardinality(RetriesLeft(m)) \in Nat
    BY RetriesFinite
  <2> QED
    BY <2>1, FS_Subset, FS_CardinalityType
<1>2. Others(m) \in Int /\ Others(m)' = Others(m)
  <2>1. IsFiniteSet(Users(m))
    BY GatewayAssumption, FS_Subset DEF Users
  <2> QED
    BY <2>1, BoundsAreNat, FS_CardinalityType DEF Others, Users
<1> QED
  BY <1>1, <1>2 DEF LateOf

\* A retry of a model with an open breaker is late, and one less is left.
LEMMA RetryUsesUp ==
  ASSUME LateInv, NEW c \in Callers, AskAgain(c), Model(c) \in open
  PROVE  LateOf(Model(c))'
<1> DEFINE m == Model(c)
           retry == <<c, attempt[c] + 1>>
<1>1. TypeOK /\ m \in Models /\ LateOf(m) /\ CallInv(c)
  BY ModelIsModel DEF LateInv, IInv
<1>2. /\ call[c] = "asking" /\ attempt[c] < Attempts /\ attempt[c] \in 1..Attempts
      /\ Attempts \in Nat
  BY <1>1, BoundsAreNat DEF AskAgain, CallInv
<1>3. /\ call' = call /\ index' = index /\ open' = open
      /\ attempt' = [attempt EXCEPT ![c] = attempt[c] + 1]
      /\ late'[m] = late[m] + 1 /\ late[m] \in Nat
  BY <1>1 DEF AskAgain, Send, TypeOK
<1>4. m' = m
  BY <1>3 DEF Model
<1> HIDE DEF m
<1>5. RetriesLeft(m)' = RetriesLeft(m) \ {retry} /\ retry \in RetriesLeft(m)
  <2>1. retry \in RetriesLeft(m)
    BY <1>2 DEF RetriesLeft, m
  <2>2. ASSUME NEW d \in Callers, NEW k \in 2..Attempts
        PROVE  attempt'[d] < k <=> attempt[d] < k /\ <<d, k>> # retry
    <3>1. attempt \in [Callers -> 0..Attempts] /\ Attempts \in Nat
      BY <1>1, <1>2 DEF TypeOK
    <3>2. attempt[d] \in Nat /\ attempt'[d] = IF d = c THEN attempt[c] + 1 ELSE attempt[d]
      BY <1>3, <3>1
    <3>3. <<d, k>> = retry <=> d = c /\ k = attempt[c] + 1
      OBVIOUS
    <3> QED
      BY <3>2, <3>3
  <2>3. ASSUME NEW p \in Callers \X (2..Attempts)
        PROVE  attempt'[p[1]] < p[2] <=> attempt[p[1]] < p[2] /\ p # retry
    BY <2>2
  <2>4. \A d : Model(d)' = Model(d)
    BY <1>3 DEF Model
  <2> QED
    BY <1>3, <1>4, <2>1, <2>3, <2>4 DEF RetriesLeft
<1>6. Cardinality(RetriesLeft(m)') = Cardinality(RetriesLeft(m)) - 1
  <2>1. Cardinality(RetriesLeft(m) \ {retry}) = Cardinality(RetriesLeft(m)) - 1
    <3>1. IsFiniteSet(RetriesLeft(m)) /\ retry \in RetriesLeft(m)
      BY <1>5, RetriesFinite
    <3> HIDE DEF retry
    <3> QED
      BY <3>1, FS_RemoveElement
  <2> QED
    BY <1>5, <2>1
<1>7. Cardinality(RetriesLeft(m)) \in Nat
  BY RetriesFinite
<1>8. LateOf(m)'
  <2>1. m \in open /\ m' \in open' /\ Others(m)' = Others(m)
    BY <1>3, <1>4 DEF m, Others, Users
  <2>2. Others(m) \in Int
    BY GatewayAssumption, BoundsAreNat, FS_Subset, FS_CardinalityType DEF Others, Users
  <2> QED
    BY <1>1, <1>3, <1>4, <1>6, <1>7, <2>1, <2>2 DEF LateOf
<1> QED
  BY <1>8 DEF m

\* The failed call that opens a breaker has no retry any more.
LEMMA BreakerOpens ==
  ASSUME LateInv, NEW c \in Callers, Refuse(c), Model(c) \notin open, Model(c) \in open',
         NEW m, m = Model(c)
  PROVE  LateOf(m)'
<1>1. TypeOK /\ m \in Models /\ LateOf(m) /\ index[c] \in DOMAIN Candidates[c]
  BY ModelIsModel, CandidateFacts DEF LateInv, IInv
<1>2. late' = late /\ late[m] = 0
  BY <1>1 DEF Refuse, LateOf
<1>3. call'[c] # "asking" /\ \A d \in Callers \ {c} :
        call'[d] = call[d] /\ index'[d] = index[d] /\ attempt'[d] = attempt[d]
  BY <1>1 DEF Refuse, Advance, TypeOK
<1>4. c \in Users(m)
  BY <1>1 DEF Users, Elements, Model
<1>5. \A d \in Callers : Model(d) = m => d \in Users(m)
  BY <1>1 DEF TypeOK, Users, Elements, Model
<1>6. RetriesLeft(m)' \subseteq (Users(m) \ {c}) \X (2..Attempts)
  BY <1>3, <1>5 DEF RetriesLeft, Model
<1>7. Cardinality(RetriesLeft(m)') <= Others(m) /\ Others(m)' = Others(m)
  BY <1>4, <1>6, OthersRetries DEF Others, Users
<1>8. Cardinality(RetriesLeft(m)') \in Nat
  <2>1. IsFiniteSet((Users(m) \ {c}) \X (2..Attempts))
    <3>1. IsFiniteSet(Users(m) \ {c}) /\ IsFiniteSet(2..Attempts)
      BY GatewayAssumption, BoundsAreNat, FS_Subset, FS_Interval DEF Users
    <3> QED
      BY <3>1, FS_Product
  <2> QED
    BY <1>6, <2>1, FS_Subset, FS_CardinalityType
<1> QED
  BY <1>2, <1>7, <1>8 DEF LateOf

\* Nobody asks a model whose breaker is closed late, nor one that cools down.
LEMMA InitLate == Init => LateInv
<1>1. Init => \A m \in Models : LateOf(m)
  BY DEF Init, NoneSent, LateOf
<1> QED
  BY <1>1, InitInv DEF LateInv

\* Every step keeps the late requests of every model in bounds.
LEMMA StepLate == LateInv /\ [Next]_vars => LateInv'
<1> SUFFICES ASSUME LateInv, [Next]_vars, NEW m \in Models PROVE LateOf(m)'
  BY StepInv DEF LateInv
<1>1. TypeOK /\ IInv /\ LateOf(m) /\ late[m] \in Nat
  BY DEF LateInv, IInv, TypeOK
<1>2. CASE m \in open /\ m \notin open'
  <2>1. PICK x \in Models : CoolDown(x)
    BY <1>2 DEF Next, Work, Begin, Skip, Ask, AskAgain, Answer, Refuse, CountFailure,
                TimeOut, Break, vars
  <2>2. late'[m] = 0
    BY <1>1, <1>2, <2>1 DEF CoolDown, TypeOK
  <2> QED
    BY <1>2, <2>2 DEF LateOf
<1>3. CASE m \notin open /\ m \notin open'
  <2>1. late'[m] = late[m]
    <3>1. ASSUME NEW c \in Callers, Send(c) PROVE late'[m] = late[m]
      BY <1>1, <1>3, <3>1, ModelIsModel DEF Send, TypeOK
    <3>2. ASSUME NEW x \in Models, CoolDown(x) PROVE late'[m] = late[m]
      BY <1>1, <1>3, <3>2 DEF CoolDown, TypeOK
    <3> QED
      BY <3>1, <3>2 DEF Next, Work, Begin, Skip, Ask, AskAgain, Answer, Refuse, TimeOut,
                        Break, vars
  <2> QED
    BY <1>1, <1>3, <2>1 DEF LateOf
<1>4. CASE m \notin open /\ m \in open'
  <2>1. PICK c \in Callers : Refuse(c)
    BY <1>4 DEF Next, Work, Begin, Skip, Ask, AskAgain, Answer, TimeOut, Break, CoolDown, vars
  <2>2. m = Model(c)
    BY <1>4, <2>1 DEF Refuse, CountFailure
  <2> QED
    BY <1>4, <2>1, <2>2, BreakerOpens
<1>5. CASE m \in open /\ m \in open'
  <2>1. ASSUME NEW c \in Callers, AskAgain(c) PROVE LateOf(m)'
    <3>1. CASE Model(c) = m
      <4>1. index' = index
        BY <2>1 DEF AskAgain
      <4>2. LateOf(Model(c))'
        BY <1>5, <2>1, <3>1, RetryUsesUp
      <4> QED
        BY <3>1, <4>1, <4>2 DEF LateOf, RetriesLeft, Others, Users, Model
    <3>2. CASE Model(c) # m
      <4>1. call' = call /\ index' = index
            /\ \A d \in Callers : d # c => attempt'[d] = attempt[d]
        BY <1>1, <2>1 DEF AskAgain, Send, TypeOK
      <4>2. RetriesLeft(m)' \subseteq RetriesLeft(m)
        BY <3>2, <4>1 DEF RetriesLeft, Model
      <4>3. late'[m] = late[m]
        BY <1>1, <2>1, <3>2, ModelIsModel DEF AskAgain, Send, TypeOK
      <4> QED
        BY <1>1, <1>5, <4>2, <4>3, NoMoreRetries
    <3> QED
      BY <3>1, <3>2
  <2>2. ASSUME NEW c \in Callers,
               Begin(c) \/ Skip(c) \/ Ask(c) \/ Answer(c) \/ Refuse(c) \/ TimeOut(c) \/ Break(c)
        PROVE  LateOf(m)'
    <3>1. late'[m] = late[m]
      BY <2>2 DEF Begin, Skip, Ask, Send, Answer, Refuse, TimeOut, Break
    <3>2. \A d \in Callers \ {c} :
            call'[d] = call[d] /\ index'[d] = index[d] /\ attempt'[d] = attempt[d]
      BY <1>1, <2>2 DEF Begin, Skip, Ask, Send, Answer, Refuse, TimeOut, Break, Advance, TypeOK
    <3>3. call'[c] = "asking" => Ask(c)
      BY <1>1, <2>2 DEF Begin, Skip, Answer, Refuse, TimeOut, Break, Advance, TypeOK
    <3>4. Ask(c) => Model(c)' # m
      BY <1>5 DEF Ask, Model
    <3>5. RetriesLeft(m)' \subseteq RetriesLeft(m)
      BY <3>2, <3>3, <3>4 DEF RetriesLeft, Model
    <3> QED
      BY <1>1, <1>5, <3>1, <3>5, NoMoreRetries
  <2>3. ASSUME (\E x \in Models : CoolDown(x)) \/ UNCHANGED vars PROVE LateOf(m)'
    <3>1. late'[m] = late[m]
      BY <1>1, <1>5, <2>3 DEF CoolDown, TypeOK, vars
    <3>2. RetriesLeft(m)' \subseteq RetriesLeft(m)
      BY <2>3 DEF CoolDown, vars, RetriesLeft, Model
    <3> QED
      BY <1>1, <1>5, <3>1, <3>2, NoMoreRetries
  <2> QED
    BY <2>1, <2>2, <2>3 DEF Next, Work
<1> QED
  BY <1>2, <1>3, <1>4, <1>5

\* The retries of the calls at a model are counted right in every state.
THEOREM LateInvariance == Spec => []LateInv
BY InitLate, StepLate, PTL DEF Spec

\* An open breaker lets no new call through: the model gets at most the retries
\* that the other callers of the model had left when it opened.
THEOREM LateRequestsAreBounded == Spec => []LateRequestsBound
<1>1. LateInv => LateRequestsBound
  <2> SUFFICES ASSUME LateInv, NEW m \in open PROVE late[m] <= Others(m)
    BY DEF LateRequestsBound, Others, Users
  <2>1. m \in Models /\ late[m] \in Nat /\ LateOf(m)
    BY DEF LateInv, IInv, TypeOK
  <2>2. Cardinality(RetriesLeft(m)) \in Nat
    BY RetriesFinite
  <2>3. Others(m) \in Int
    BY GatewayAssumption, BoundsAreNat, FS_Subset, FS_CardinalityType DEF Others, Users
  <2> QED
    BY <2>1, <2>2, <2>3 DEF LateOf
<1> QED
  BY <1>1, LateInvariance, PTL
=============================================================================
