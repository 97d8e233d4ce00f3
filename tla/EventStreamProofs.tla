------------------------- MODULE EventStreamProofs -------------------------
(***************************************************************************)
(* A client receives events in order and none twice, for any number of     *)
(* clients, events and connections and any limit and queue size.           *)
(*                                                                         *)
(* SeenInOrder is not inductive: what a handler has yet to send must be    *)
(* newer than all its client has seen, over a switch from stored to live   *)
(* events and over connections.  Pending says what it is, OrderInv that it *)
(* is in order, newer than what was seen and not beyond the ledger.        *)
(***************************************************************************)
EXTENDS EventStream, TLAPS

Increasing(s) == \A i, j \in DOMAIN s : i < j => s[i] < s[j]

\* What a handler still has for its client.
Pending(c) == IF conn[c] = "live" THEN queue[c] ELSE replay[c]

\* A client that saw s and is about to be sent p, of n events.
Fresh(s, p, n) ==
  /\ Increasing(s) /\ Increasing(p)
  /\ \A i \in DOMAIN s : s[i] <= n
  /\ \A k \in DOMAIN p : p[k] <= n /\ \A i \in DOMAIN s : s[i] < p[k]

ClientInv(c) ==
  /\ Fresh(seen[c], Pending(c), ledger)
  /\ after[c] <= ledger
  /\ conn[c] = "accepted" => \A i \in DOMAIN seen[c] : seen[c][i] <= after[c]
  /\ conn[c] # "live" => queue[c] = <<>>
  /\ conn[c] # "replaying" => replay[c] = <<>>

OrderInv == \A c \in Clients : ClientInv(c)

IInv == TypeOK /\ OrderInv
-----------------------------------------------------------------------------
LEMMA TailFacts ==
  ASSUME NEW S, NEW s \in Seq(S), s # <<>>
  PROVE  /\ Head(s) \in S /\ Tail(s) \in Seq(S) /\ Len(Tail(s)) = Len(s) - 1
         /\ 1 \in DOMAIN s /\ Head(s) = s[1]
         /\ \A i \in DOMAIN Tail(s) : i + 1 \in DOMAIN s /\ Tail(s)[i] = s[i + 1]
OBVIOUS

LEMMA TailIncreasing ==
  ASSUME NEW s \in Seq(Nat), s # <<>>, Increasing(s)
  PROVE  Increasing(Tail(s)) /\ \A i \in DOMAIN Tail(s) : Head(s) < Tail(s)[i]
BY TailFacts, SMTT(30) DEF Increasing

LEMMA SeqOfIts ==
  ASSUME NEW S, NEW s \in Seq(Nat), \A i \in DOMAIN s : s[i] \in S
  PROVE  s \in Seq(S)
OBVIOUS

LEMMA ItsElements ==
  ASSUME NEW S, NEW s \in Seq(S)
  PROVE  \A i \in DOMAIN s : s[i] \in S
OBVIOUS

LEMMA AppendIncreasing ==
  ASSUME NEW s \in Seq(Nat), NEW n \in Nat, Increasing(s),
         \A i \in DOMAIN s : s[i] < n
  PROVE  Increasing(Append(s, n))
BY DEF Increasing

\* The stored events of one query.
LEMMA NumbersAre ==
  ASSUME NEW from \in Nat, NEW to \in Nat
  PROVE  LET s == Numbers(from, to)
         IN  /\ Increasing(s)
             /\ \A i \in DOMAIN s : s[i] \in from..to
             /\ from <= to + 1 => s \in Seq(from..to) /\ Len(s) = to - from + 1
<1> DEFINE s == Numbers(from, to)
<1>1. s = [i \in 1..(to - from + 1) |-> from + i - 1]
  BY DEF Numbers
<1>2. \A i \in DOMAIN s : s[i] \in from..to /\ s[i] = from + i - 1 /\ i \in Nat
  BY <1>1
<1>3. Increasing(s)
  BY <1>2 DEF Increasing
<1>4. from <= to + 1 => s \in Seq(from..to) /\ Len(s) = to - from + 1
  BY <1>1, <1>2
<1> HIDE DEF s
<1> QED
  BY <1>2, <1>3, <1>4 DEF s

\* A full queue loses its oldest event; the new one is the newest.
LEMMA OfferKeeps ==
  ASSUME NEW q \in Seq(Nat), NEW n \in Nat, Increasing(q), \A i \in DOMAIN q : q[i] < n
  PROVE  /\ Offer(q, n) \in Seq(Nat) /\ Increasing(Offer(q, n))
         /\ \A i \in DOMAIN Offer(q, n) :
              Offer(q, n)[i] = n \/ \E k \in DOMAIN q : Offer(q, n)[i] = q[k]
         /\ Len(q) <= QueueSize => Len(Offer(q, n)) <= QueueSize
<1> DEFINE base == IF Len(q) = QueueSize THEN Tail(q) ELSE q
<1>1. QueueSize \in Nat \ {0}
  BY StreamAssumption
<1>2. /\ base \in Seq(Nat) /\ Increasing(base)
      /\ \A i \in DOMAIN base : \E k \in DOMAIN q : base[i] = q[k]
      /\ Len(q) <= QueueSize => Len(base) < QueueSize
  <2>1. CASE Len(q) = QueueSize
    BY <1>1, <2>1, TailFacts, TailIncreasing, SMTT(30)
  <2>2. CASE Len(q) # QueueSize
    BY <1>1, <2>2
  <2> QED
    BY <2>1, <2>2
<1> HIDE DEF base
<1>3. \A i \in DOMAIN base : base[i] < n
  BY <1>2
<1>4. Increasing(Append(base, n))
  BY <1>2, <1>3, AppendIncreasing
<1>5. Offer(q, n) = Append(base, n)
  BY DEF Offer, base
<1> QED
  BY <1>1, <1>2, <1>4, <1>5

\* A client names an event that is not older than any it has.
LEMMA LastSeenIs ==
  ASSUME NEW c \in Clients, seen[c] \in Seq(1..MaxEvents), Increasing(seen[c])
  PROVE  /\ LastSeen(c) \in {0} \cup {seen[c][i] : i \in DOMAIN seen[c]}
         /\ \A i \in DOMAIN seen[c] : seen[c][i] <= LastSeen(c)
<1> DEFINE S == {0} \cup {seen[c][i] : i \in DOMAIN seen[c]}
<1>1. MaxEvents \in Nat
  BY StreamAssumption
<1>2. \E m \in S : \A x \in S : m >= x
  <2>1. CASE seen[c] = <<>>
    BY <2>1
  <2>2. CASE seen[c] # <<>>
    <3> DEFINE n == Len(seen[c])
    <3>1. n \in Nat \ {0} /\ DOMAIN seen[c] = 1..n
      BY <2>2
    <3>2. \A i \in 1..n : seen[c][i] \in Nat
      BY <1>1, <3>1
    <3>3. n \in 1..n
      BY <3>1
    <3>4. \A i \in 1..n : i = n \/ i < n
      BY <3>1
    <3> HIDE DEF n
    <3>5. \A i \in 1..n : seen[c][i] <= seen[c][n]
      BY <3>1, <3>2, <3>3, <3>4 DEF Increasing
    <3>6. seen[c][n] \in S
      BY <3>1, <3>3
    <3> QED
      BY <3>1, <3>2, <3>3, <3>5, <3>6, SMTT(30)
  <2> QED
    BY <2>1, <2>2
<1>3. LastSeen(c) = CHOOSE m \in S : \A x \in S : m >= x
  BY DEF LastSeen, Max
<1>4. LastSeen(c) \in S /\ \A x \in S : LastSeen(c) >= x
  BY <1>2, <1>3
<1> QED
  BY <1>4

\* One event sent: seen gains what pending loses.
LEMMA SendKeeps ==
  ASSUME NEW s \in Seq(Nat), NEW p \in Seq(Nat), NEW n \in Nat, p # <<>>, Fresh(s, p, n)
  PROVE  Fresh(Append(s, Head(p)), Tail(p), n)
<1>1. /\ Head(p) \in Nat /\ Head(p) <= n /\ \A i \in DOMAIN s : s[i] < Head(p)
      /\ Tail(p) \in Seq(Nat)
  BY TailFacts DEF Fresh
<1>2. Increasing(Tail(p)) /\ \A k \in DOMAIN Tail(p) : Head(p) < Tail(p)[k]
  BY TailIncreasing DEF Fresh
<1>3. Increasing(Append(s, Head(p)))
  BY <1>1, AppendIncreasing DEF Fresh
<1>4. \A k \in DOMAIN Tail(p) : Tail(p)[k] <= n /\ \A i \in DOMAIN s : s[i] < Tail(p)[k]
  BY TailFacts DEF Fresh
<1>5. \A i \in DOMAIN Append(s, Head(p)) :
        Append(s, Head(p))[i] = Head(p) \/ \E j \in DOMAIN s : Append(s, Head(p))[i] = s[j]
  BY <1>1
<1>6. \A i \in DOMAIN Append(s, Head(p)) : Append(s, Head(p))[i] <= n
  BY <1>1, <1>5 DEF Fresh
<1> QED
  BY <1>2, <1>3, <1>4, <1>5, <1>6 DEF Fresh
-----------------------------------------------------------------------------
LEMMA InitInv == Init => TypeOK /\ OrderInv
<1> SUFFICES ASSUME Init PROVE TypeOK /\ OrderInv
  OBVIOUS
<1>1. /\ 1 \in 1..MaxEvents /\ 0 \in 0..MaxEvents /\ 0 \in 0..MaxConnects
      /\ 0 <= QueueSize /\ 0 <= ReplayLimit
  BY StreamAssumption
<1>2. \A c \in Clients : seen[c] = <<>> /\ replay[c] = <<>> /\ queue[c] = <<>>
  BY DEF Init
<1>3. OrderInv
  BY <1>2 DEF Init, OrderInv, ClientInv, Fresh, Increasing, Pending
<1>4. <<>> \in Seq(1..MaxEvents) /\ Len(<<>>) = 0
  OBVIOUS
<1>5. TypeOK
  BY <1>1, <1>4 DEF Init, TypeOK
<1> QED
  BY <1>3, <1>5

\* The types as the steps below use them.
LEMMA TypeFacts ==
  ASSUME TypeOK
  PROVE  /\ {MaxEvents, MaxConnects} \subseteq Nat /\ {QueueSize, ReplayLimit} \subseteq Nat \ {0}
         /\ ledger \in 1..MaxEvents
         /\ \A c \in Clients :
              /\ seen[c] \in Seq(1..MaxEvents) /\ seen[c] \in Seq(Nat)
              /\ replay[c] \in Seq(1..MaxEvents) /\ replay[c] \in Seq(Nat)
              /\ queue[c] \in Seq(1..MaxEvents) /\ queue[c] \in Seq(Nat)
              /\ after[c] \in 0..MaxEvents /\ connects[c] \in 0..MaxConnects
              /\ Len(queue[c]) <= QueueSize /\ Len(replay[c]) <= ReplayLimit
<1>1. {MaxEvents, MaxConnects} \subseteq Nat /\ {QueueSize, ReplayLimit} \subseteq Nat \ {0}
  BY StreamAssumption
<1>2. \A c \in Clients : /\ seen[c] \in Seq(1..MaxEvents) /\ replay[c] \in Seq(1..MaxEvents)
                         /\ queue[c] \in Seq(1..MaxEvents)
  BY DEF TypeOK
<1>3. \A s : s \in Seq(1..MaxEvents) => s \in Seq(Nat)
  BY <1>1
<1> QED
  BY <1>1, <1>2, <1>3 DEF TypeOK

\* Only the handler of c takes a step: the other clients keep what they have.
LEMMA OthersKeep ==
  ASSUME IInv, NEW c \in Clients, ledger' = ledger,
         \A d \in Clients \ {c} :
           /\ conn'[d] = conn[d] /\ after'[d] = after[d] /\ replay'[d] = replay[d]
           /\ queue'[d] = queue[d] /\ seen'[d] = seen[d],
         ClientInv(c)'
  PROVE  OrderInv'
<1> SUFFICES ASSUME NEW d \in Clients, d # c PROVE ClientInv(d)'
  BY DEF OrderInv
<1>1. Pending(d)' = Pending(d)
  BY DEF Pending
<1> QED
  BY <1>1 DEF IInv, OrderInv, ClientInv

LEMMA ConnectKeeps ==
  ASSUME IInv, NEW c \in Clients, Connect(c)
  PROVE  IInv'
<1> USE DEF Connect
<1>1. ClientInv(c) /\ TypeOK
  BY DEF IInv, OrderInv
<1>2. /\ LastSeen(c) \in {0} \cup {seen[c][i] : i \in DOMAIN seen[c]}
      /\ \A i \in DOMAIN seen[c] : seen[c][i] <= LastSeen(c)
  BY <1>1, TypeFacts, LastSeenIs DEF ClientInv, Fresh
<1>3. LastSeen(c) \in 0..MaxEvents /\ LastSeen(c) <= ledger
  BY <1>1, <1>2, TypeFacts, SMTT(30) DEF ClientInv, Fresh
<1>4. /\ conn'[c] = "accepted" /\ after'[c] = LastSeen(c) /\ replay[c] = <<>> /\ queue[c] = <<>>
  BY <1>1 DEF TypeOK, ClientInv
<1>5. Pending(c)' = Pending(c)
  BY <1>1, <1>4 DEF Pending
<1>6. ClientInv(c)'
  BY <1>1, <1>2, <1>3, <1>4, <1>5 DEF ClientInv
<1>7. OrderInv'
  BY <1>1, <1>6, OthersKeep DEF TypeOK
<1>8. connects[c] + 1 \in 0..MaxConnects
  BY <1>1, TypeFacts
<1>9. TypeOK'
  BY <1>1, <1>3, <1>8 DEF TypeOK
<1> QED
  BY <1>7, <1>9 DEF IInv

LEMMA ReadStoredKeeps ==
  ASSUME IInv, NEW c \in Clients, ReadStored(c)
  PROVE  IInv'
<1> USE DEF ReadStored
<1> DEFINE to == Min({ledger, after[c] + ReplayLimit})
           s == Numbers(after[c] + 1, to)
<1>1. ClientInv(c) /\ TypeOK
  BY DEF IInv, OrderInv
<1>2. /\ ledger \in 1..MaxEvents /\ after[c] \in 0..ledger
      /\ MaxEvents \in Nat /\ ReplayLimit \in Nat \ {0}
  BY <1>1, TypeFacts DEF ClientInv
<1>3. to \in after[c]..ledger /\ to <= after[c] + ReplayLimit
  <2> DEFINE S == {ledger, after[c] + ReplayLimit}
  <2>1. \E m \in S : \A x \in S : x >= m
    BY <1>2
  <2>2. to = CHOOSE m \in S : \A x \in S : x >= m
    BY DEF Min
  <2>3. to \in S /\ \A x \in S : x >= to
    BY <2>1, <2>2
  <2> HIDE DEF to
  <2> QED
    BY <1>2, <2>3
<1> HIDE DEF to
<1>4. /\ Increasing(s) /\ \A i \in DOMAIN s : s[i] \in (after[c] + 1)..to
      /\ s \in Seq((after[c] + 1)..to) /\ Len(s) = to - after[c]
  <2> DEFINE from == after[c] + 1
  <2>1. from \in Nat /\ to \in Nat /\ from <= to + 1 /\ to - from + 1 = to - after[c]
    BY <1>2, <1>3
  <2>2. /\ Increasing(Numbers(from, to)) /\ \A i \in DOMAIN Numbers(from, to) : Numbers(from, to)[i] \in from..to
        /\ Numbers(from, to) \in Seq(from..to) /\ Len(Numbers(from, to)) = to - from + 1
    <3> HIDE DEF from
    <3> QED
      BY <2>1, NumbersAre
  <2> QED
    BY <2>1, <2>2
<1> HIDE DEF s
<1>5. s \in Seq(1..MaxEvents) /\ Len(s) <= ReplayLimit
  BY <1>2, <1>3, <1>4, SMTT(30)
<1>6. conn'[c] = "replaying" /\ replay' = [replay EXCEPT ![c] = s] /\ replay'[c] = s
  BY <1>1 DEF TypeOK, s, to
<1>7. Pending(c)' = s
  BY <1>6 DEF Pending
<1>8. Fresh(seen[c], s, ledger)
  <2>1. Increasing(seen[c]) /\ \A i \in DOMAIN seen[c] : seen[c][i] <= ledger /\ seen[c][i] <= after[c]
    BY <1>1 DEF ClientInv, Fresh
  <2>2. seen[c] \in Seq(Nat) /\ \A i \in DOMAIN seen[c] : seen[c][i] \in Nat
    BY <1>1, TypeFacts, SMTT(30)
  <2>3. \A k \in DOMAIN s : s[k] \in Nat /\ s[k] <= ledger /\ after[c] < s[k]
    BY <1>2, <1>3, <1>4, SMTT(30)
  <2>4. \A k \in DOMAIN s : \A i \in DOMAIN seen[c] : seen[c][i] < s[k]
    BY <1>2, <2>1, <2>2, <2>3
  <2> QED
    BY <1>4, <2>1, <2>3, <2>4 DEF Fresh
<1>9. ClientInv(c)'
  BY <1>1, <1>6, <1>7, <1>8 DEF ClientInv
<1>10. OrderInv'
  BY <1>1, <1>6, <1>9, OthersKeep DEF TypeOK
<1>11. replay' \in [Clients -> Seq(1..MaxEvents)] /\ conn' \in [Clients -> {"none", "accepted", "replaying", "live"}]
  BY <1>1, <1>5, <1>6 DEF TypeOK
<1>12. \A d \in Clients : Len(replay'[d]) <= ReplayLimit
  BY <1>1, <1>5, <1>6 DEF TypeOK
<1>13. TypeOK'
  <2>1. queue' \in [Clients -> Seq(1..MaxEvents)] /\ seen' \in [Clients -> Seq(1..MaxEvents)]
    BY <1>1 DEF TypeOK
  <2>2. \A d \in Clients : Len(queue'[d]) <= QueueSize
    BY <1>1 DEF TypeOK
  <2>3. ledger' \in 1..MaxEvents /\ after' \in [Clients -> 0..MaxEvents]
        /\ connects' \in [Clients -> 0..MaxConnects]
    BY <1>1 DEF TypeOK
  <2> HIDE DEF ReadStored
  <2> QED
    BY <1>11, <1>12, <2>1, <2>2, <2>3 DEF TypeOK
<1> QED
  BY <1>10, <1>13 DEF IInv

LEMMA SendStoredKeeps ==
  ASSUME IInv, NEW c \in Clients, SendStored(c)
  PROVE  IInv'
<1> USE DEF SendStored
<1>1. ClientInv(c) /\ TypeOK
  BY DEF IInv, OrderInv
<1>2. Pending(c) = replay[c] /\ Pending(c)' = Tail(replay[c])
  BY <1>1 DEF Pending, TypeOK
<1>3. seen'[c] = Append(seen[c], Head(replay[c])) /\ replay'[c] = Tail(replay[c])
  BY <1>1 DEF TypeOK
<1>4. Fresh(Append(seen[c], Head(replay[c])), Tail(replay[c]), ledger)
  <2>1. Fresh(seen[c], replay[c], ledger) /\ replay[c] # <<>>
    BY <1>1, <1>2 DEF ClientInv
  <2>2. seen[c] \in Seq(Nat) /\ replay[c] \in Seq(Nat) /\ ledger \in Nat
    BY <1>1, TypeFacts
  <2> QED
    BY <2>1, <2>2, SendKeeps
<1>5. ClientInv(c)'
  BY <1>1, <1>2, <1>3, <1>4 DEF ClientInv
<1>6. OrderInv'
  BY <1>1, <1>3, <1>5, OthersKeep DEF TypeOK
<1>7. /\ Head(replay[c]) \in 1..MaxEvents /\ Tail(replay[c]) \in Seq(1..MaxEvents)
      /\ Len(Tail(replay[c])) <= ReplayLimit
  <2>1. replay[c] \in Seq(1..MaxEvents) /\ replay[c] # <<>> /\ Len(replay[c]) <= ReplayLimit /\ ReplayLimit \in Nat
    BY <1>1, TypeFacts
  <2>2. /\ Head(replay[c]) \in 1..MaxEvents /\ Tail(replay[c]) \in Seq(1..MaxEvents)
        /\ Len(Tail(replay[c])) = Len(replay[c]) - 1 /\ Len(replay[c]) \in Nat
    <3> DEFINE S == 1..MaxEvents
    <3>1. replay[c] \in Seq(S)
      BY <2>1
    <3> HIDE DEF S
    <3>2. /\ Head(replay[c]) \in S /\ Tail(replay[c]) \in Seq(S)
          /\ Len(Tail(replay[c])) = Len(replay[c]) - 1 /\ Len(replay[c]) \in Nat
      BY <2>1, <3>1, TailFacts
    <3> QED
      BY <3>2 DEF S
  <2> QED
    BY <2>1, <2>2
<1>8. Append(seen[c], Head(replay[c])) \in Seq(1..MaxEvents)
  BY <1>1, <1>7, TypeFacts
<1>9. TypeOK'
  BY <1>1, <1>7, <1>8 DEF TypeOK
<1> QED
  BY <1>6, <1>9 DEF IInv

LEMMA SubscribeKeeps ==
  ASSUME IInv, NEW c \in Clients, Subscribe(c)
  PROVE  IInv'
<1> USE DEF Subscribe
<1>1. ClientInv(c) /\ TypeOK
  BY DEF IInv, OrderInv
<1>2. Pending(c) = replay[c] /\ conn'[c] = "live" /\ Pending(c)' = queue[c] /\ queue[c] = replay[c]
  BY <1>1 DEF Pending, TypeOK, ClientInv
<1>3. ClientInv(c)'
  BY <1>1, <1>2 DEF ClientInv
<1>4. OrderInv'
  BY <1>1, <1>3, OthersKeep DEF TypeOK
<1>5. TypeOK'
  BY <1>1 DEF TypeOK
<1> QED
  BY <1>4, <1>5 DEF IInv

LEMMA SendLiveKeeps ==
  ASSUME IInv, NEW c \in Clients, SendLive(c)
  PROVE  IInv'
<1> USE DEF SendLive
<1>1. ClientInv(c) /\ TypeOK
  BY DEF IInv, OrderInv
<1>2. Pending(c) = queue[c] /\ Pending(c)' = Tail(queue[c])
  BY <1>1 DEF Pending, TypeOK
<1>3. seen'[c] = Append(seen[c], Head(queue[c])) /\ queue'[c] = Tail(queue[c])
  BY <1>1 DEF TypeOK
<1>4. Fresh(Append(seen[c], Head(queue[c])), Tail(queue[c]), ledger)
  <2>1. Fresh(seen[c], queue[c], ledger) /\ queue[c] # <<>>
    BY <1>1, <1>2 DEF ClientInv
  <2>2. seen[c] \in Seq(Nat) /\ queue[c] \in Seq(Nat) /\ ledger \in Nat
    BY <1>1, TypeFacts
  <2> QED
    BY <2>1, <2>2, SendKeeps
<1>5. ClientInv(c)'
  BY <1>1, <1>2, <1>3, <1>4 DEF ClientInv
<1>6. OrderInv'
  BY <1>1, <1>3, <1>5, OthersKeep DEF TypeOK
<1>7. /\ Head(queue[c]) \in 1..MaxEvents /\ Tail(queue[c]) \in Seq(1..MaxEvents)
      /\ Len(Tail(queue[c])) <= QueueSize
  <2>1. queue[c] \in Seq(1..MaxEvents) /\ queue[c] # <<>> /\ Len(queue[c]) <= QueueSize /\ QueueSize \in Nat
    BY <1>1, TypeFacts
  <2>2. /\ Head(queue[c]) \in 1..MaxEvents /\ Tail(queue[c]) \in Seq(1..MaxEvents)
        /\ Len(Tail(queue[c])) = Len(queue[c]) - 1 /\ Len(queue[c]) \in Nat
    <3> DEFINE S == 1..MaxEvents
    <3>1. queue[c] \in Seq(S)
      BY <2>1
    <3> HIDE DEF S
    <3>2. /\ Head(queue[c]) \in S /\ Tail(queue[c]) \in Seq(S)
          /\ Len(Tail(queue[c])) = Len(queue[c]) - 1 /\ Len(queue[c]) \in Nat
      BY <2>1, <3>1, TailFacts
    <3> QED
      BY <3>2 DEF S
  <2> QED
    BY <2>1, <2>2
<1>8. Append(seen[c], Head(queue[c])) \in Seq(1..MaxEvents)
  BY <1>1, <1>7, TypeFacts
<1>9. TypeOK'
  BY <1>1, <1>7, <1>8 DEF TypeOK
<1> QED
  BY <1>6, <1>9 DEF IInv

LEMMA DisconnectKeeps ==
  ASSUME IInv, NEW c \in Clients, Disconnect(c)
  PROVE  IInv'
<1> USE DEF Disconnect
<1>1. ClientInv(c) /\ TypeOK
  BY DEF IInv, OrderInv
<1>2. conn'[c] = "none" /\ replay'[c] = <<>> /\ queue'[c] = <<>> /\ Pending(c)' = <<>>
  BY <1>1 DEF Pending, TypeOK
<1>3. Fresh(seen[c], <<>>, ledger)
  BY <1>1 DEF ClientInv, Fresh, Increasing
<1>4. ClientInv(c)'
  BY <1>1, <1>2, <1>3 DEF ClientInv
<1>5. OrderInv'
  BY <1>1, <1>4, OthersKeep DEF TypeOK
<1>6. TypeOK'
  BY <1>1, TypeFacts DEF TypeOK
<1> QED
  BY <1>5, <1>6 DEF IInv

\* The new event is newer than all a client saw or is about to be sent.
LEMMA RecordKeeps ==
  ASSUME IInv, Record
  PROVE  IInv'
<1> USE DEF Record
<1>1. TypeOK /\ ledger \in 1..MaxEvents /\ ledger + 1 \in 1..MaxEvents /\ MaxEvents \in Nat
  BY TypeFacts DEF IInv
<1>2. ASSUME NEW c \in Clients
      PROVE  /\ ClientInv(c)' /\ queue'[c] \in Seq(1..MaxEvents) /\ Len(queue'[c]) <= QueueSize
  <2> DEFINE n == ledger + 1
             q == Offer(queue[c], n)
  <2>1. ClientInv(c) /\ seen[c] \in Seq(Nat) /\ replay[c] \in Seq(Nat)
    BY <1>1, TypeFacts DEF IInv, OrderInv
  <2>2. CASE conn[c] # "live"
    <3>1. queue'[c] = queue[c] /\ Pending(c) = replay[c] /\ Pending(c)' = replay[c]
      BY <2>2 DEF Pending
    <3>2. Fresh(seen[c], replay[c], ledger + 1)
      BY <1>1, <2>1, <3>1 DEF ClientInv, Fresh
    <3>3. after[c] <= ledger + 1
      BY <1>1, <2>1, TypeFacts, SMTT(30) DEF ClientInv
    <3>4. ClientInv(c)'
      BY <2>1, <3>1, <3>2, <3>3 DEF ClientInv
    <3> QED
      BY <1>1, <3>1, <3>4, TypeFacts
  <2>3. CASE conn[c] = "live"
    <3>1. Pending(c) = queue[c] /\ queue'[c] = q /\ Pending(c)' = q
      BY <2>3 DEF Pending
    <3>2. /\ queue[c] \in Seq(Nat) /\ Increasing(queue[c]) /\ \A k \in DOMAIN queue[c] : queue[c][k] < n
          /\ queue[c] \in Seq(1..MaxEvents) /\ n \in Nat /\ Len(queue[c]) <= QueueSize
      BY <1>1, <2>1, <3>1, TypeFacts DEF ClientInv, Fresh
    <3>3. /\ q \in Seq(Nat) /\ Increasing(q) /\ Len(q) <= QueueSize
          /\ \A i \in DOMAIN q : q[i] = n \/ \E k \in DOMAIN queue[c] : q[i] = queue[c][k]
      BY <3>2, OfferKeeps
    <3> HIDE DEF q
    <3>4. \A i \in DOMAIN q : /\ q[i] <= n /\ q[i] \in 1..MaxEvents
                              /\ \A j \in DOMAIN seen[c] : seen[c][j] < q[i]
      <4>1. /\ \A k \in DOMAIN queue[c] : /\ queue[c][k] <= ledger /\ queue[c][k] \in 1..MaxEvents
                                          /\ \A j \in DOMAIN seen[c] : seen[c][j] < queue[c][k]
            /\ \A j \in DOMAIN seen[c] : seen[c][j] <= ledger /\ seen[c][j] \in Nat
        <5>1. \A k \in DOMAIN queue[c] : queue[c][k] \in 1..MaxEvents
          BY <3>2, ItsElements
        <5>2. \A j \in DOMAIN seen[c] : seen[c][j] \in Nat
          BY <2>1
        <5>3. Fresh(seen[c], queue[c], ledger)
          BY <2>1, <3>1 DEF ClientInv
        <5> QED
          BY <5>1, <5>2, <5>3 DEF Fresh
      <4>2. \A j \in DOMAIN seen[c] : seen[c][j] < n
        BY <1>1, <4>1
      <4>3. \A k \in DOMAIN queue[c] : queue[c][k] <= n
        BY <1>1, <4>1
      <4>4. n <= n /\ n \in 1..MaxEvents
        BY <1>1
      <4> HIDE DEF n
      <4> QED
        BY <3>3, <4>1, <4>2, <4>3, <4>4
    <3>5. Fresh(seen[c], q, n)
      BY <1>1, <2>1, <3>3, <3>4 DEF ClientInv, Fresh
    <3>6. q \in Seq(1..MaxEvents)
      BY <3>3, <3>4, SeqOfIts
    <3>7. after[c] <= n
      BY <1>1, <2>1, TypeFacts, SMTT(30) DEF ClientInv
    <3>8. ClientInv(c)'
      BY <2>1, <2>3, <3>1, <3>5, <3>7 DEF ClientInv
    <3> QED
      BY <3>1, <3>3, <3>6, <3>8
  <2> QED
    BY <2>2, <2>3
<1>3. TypeOK'
  BY <1>1, <1>2 DEF TypeOK
<1> QED
  BY <1>2, <1>3 DEF IInv, OrderInv

LEMMA StepInv == IInv /\ [Next]_vars => IInv'
<1> SUFFICES ASSUME IInv, [Next]_vars PROVE IInv'
  OBVIOUS
<1>1. CASE Record
  BY <1>1, RecordKeeps
<1>2. ASSUME NEW c \in Clients, Connect(c) \/ Serve(c) \/ Disconnect(c)
      PROVE  IInv'
  BY <1>2, ConnectKeeps, ReadStoredKeeps, SendStoredKeeps, SubscribeKeeps, SendLiveKeeps,
     DisconnectKeeps DEF Serve
<1>3. CASE UNCHANGED vars
  BY <1>3 DEF IInv, TypeOK, OrderInv, ClientInv, Pending, vars
<1> QED
  BY <1>1, <1>2, <1>3 DEF Next

LEMMA Invariance == Spec => []IInv
<1>1. Init => IInv
  BY InitInv DEF IInv
<1> QED
  BY <1>1, StepInv, PTL DEF Spec

\* Queues and replays stay within their limits: publish never blocks and a
\* slow client costs the service QueueSize events, not more.
THEOREM TypeCorrect == Spec => []TypeOK
<1>1. IInv => TypeOK
  BY DEF IInv
<1> QED
  BY <1>1, Invariance, PTL

\* A client receives events in the order the ledger numbered them and none
\* twice, over any number of connections and dropped events.
THEOREM SeenOrdered == Spec => []SeenInOrder
<1>1. IInv => SeenInOrder
  BY DEF IInv, OrderInv, ClientInv, Fresh, Increasing, SeenInOrder
<1> QED
  BY <1>1, Invariance, PTL
=============================================================================
