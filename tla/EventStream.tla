---------------------------- MODULE EventStream ----------------------------
(***************************************************************************)
(* The events of one run and the clients that follow them: the ledger      *)
(* numbers the events (LedgerStore.append), EventHub hands each one to the *)
(* subscribers of the moment, and the WebSocket handler events_socket      *)
(* sends a client the stored events after the one it names and then the    *)
(* live ones.                                                              *)
(*                                                                         *)
(* An event is its sequence number: append counts up under the run's lock, *)
(* so the ledger is its last number.  publish and subscribe never wait     *)
(* (the hub's lock is not held across an await), so recording an event and *)
(* queueing it is one step; every send is a step, because it awaits.       *)
(***************************************************************************)
EXTENDS Integers, Sequences, FiniteSetsExt

CONSTANTS
  Clients,
  ReplayLimit,  \* LedgerStore.events' limit, 1000
  QueueSize,    \* the subscriber queue's maxsize, 500
  MaxEvents,    \* bound on recorded events
  MaxConnects   \* bound on each client's connections

ASSUME StreamAssumption ==
  {ReplayLimit, QueueSize, MaxEvents} \subseteq Nat \ {0} /\ MaxConnects \in Nat

VARIABLES
  ledger,   \* the sequence of the latest event
  conn,     \* each client's handler: "none", "accepted", "replaying" or "live"
  after,    \* the after_sequence of its connection
  replay,   \* the stored events it read and has not sent yet
  queue,    \* its queue in the hub
  seen,     \* what the client received, in order of arrival
  connects  \* connections it has made

vars == <<ledger, conn, after, replay, queue, seen, connects>>

Init == /\ ledger = 1  \* "run.queued", recorded before a client knows the run
        /\ conn = [c \in Clients |-> "none"]
        /\ after = [c \in Clients |-> 0]
        /\ replay = [c \in Clients |-> <<>>]
        /\ queue = [c \in Clients |-> <<>>]
        /\ seen = [c \in Clients |-> <<>>]
        /\ connects = [c \in Clients |-> 0]

Numbers(from, to) == [i \in 1..(to - from + 1) |-> from + i - 1]

\* Faulty: a queue without a bound.
OfferUnbounded(q, event) == Append(q, event)

\* Faulty: a full queue refuses the new event.
OfferDroppingNewest(q, event) == IF Len(q) = QueueSize THEN q ELSE Append(q, event)

\* EventHub.publish to one subscriber: a full queue loses its oldest event.
Offer(q, event) == Append(IF Len(q) = QueueSize THEN Tail(q) ELSE q, event)

\* _event: append to the ledger, then publish to whoever is subscribed now.
Record ==
  /\ ledger < MaxEvents
  /\ ledger' = ledger + 1
  /\ queue' = [c \in Clients |->
                 IF conn[c] = "live" THEN Offer(queue[c], ledger + 1) ELSE queue[c]]
  /\ UNCHANGED <<conn, after, replay, seen, connects>>

LastSeen(c) == Max({0} \cup {seen[c][i] : i \in DOMAIN seen[c]})

\* The client names the last event it has; the handler accepts.
Connect(c) ==
  /\ conn[c] = "none" /\ connects[c] < MaxConnects
  /\ conn' = [conn EXCEPT ![c] = "accepted"]
  /\ after' = [after EXCEPT ![c] = LastSeen(c)]
  /\ connects' = [connects EXCEPT ![c] = @ + 1]
  /\ UNCHANGED <<ledger, replay, queue, seen>>

\* One query reads the stored events after it, up to the limit.
ReadStored(c) ==
  /\ conn[c] = "accepted"
  /\ conn' = [conn EXCEPT ![c] = "replaying"]
  /\ replay' = [replay EXCEPT
       ![c] = Numbers(after[c] + 1, Min({ledger, after[c] + ReplayLimit}))]
  /\ UNCHANGED <<ledger, after, queue, seen, connects>>

SendStored(c) ==
  /\ conn[c] = "replaying" /\ replay[c] # <<>>
  /\ seen' = [seen EXCEPT ![c] = Append(@, Head(replay[c]))]
  /\ replay' = [replay EXCEPT ![c] = Tail(@)]
  /\ UNCHANGED <<ledger, conn, after, queue, connects>>

\* EventHub.subscribe, after the last stored event is sent: an empty queue.
Subscribe(c) ==
  /\ conn[c] = "replaying" /\ replay[c] = <<>>
  /\ conn' = [conn EXCEPT ![c] = "live"]
  /\ UNCHANGED <<ledger, after, replay, queue, seen, connects>>

SendLive(c) ==
  /\ conn[c] = "live" /\ queue[c] # <<>>
  /\ seen' = [seen EXCEPT ![c] = Append(@, Head(queue[c]))]
  /\ queue' = [queue EXCEPT ![c] = Tail(@)]
  /\ UNCHANGED <<ledger, conn, after, replay, connects>>

\* Faulty: the subscription, and what it queued, outlives its connection.
DisconnectKeepingQueue(c) ==
  /\ conn[c] # "none"
  /\ conn' = [conn EXCEPT ![c] = "none"]
  /\ replay' = [replay EXCEPT ![c] = <<>>]
  /\ UNCHANGED <<ledger, after, queue, seen, connects>>

\* The connection is gone; the handler learns of it at its next send, which
\* reaches nobody.  Its queue goes with it.
Disconnect(c) ==
  /\ conn[c] # "none"
  /\ conn' = [conn EXCEPT ![c] = "none"]
  /\ replay' = [replay EXCEPT ![c] = <<>>]
  /\ queue' = [queue EXCEPT ![c] = <<>>]
  /\ UNCHANGED <<ledger, after, seen, connects>>

Serve(c) == ReadStored(c) \/ SendStored(c) \/ Subscribe(c) \/ SendLive(c)

Next == \/ Record
        \/ \E c \in Clients : Connect(c) \/ Serve(c) \/ Disconnect(c)

\* A handler that can go on does; nothing else has to happen.
Fairness == \A c \in Clients : WF_vars(Serve(c))

Spec == Init /\ [][Next]_vars /\ Fairness
-----------------------------------------------------------------------------
TypeOK ==
  /\ ledger \in 1..MaxEvents
  /\ conn \in [Clients -> {"none", "accepted", "replaying", "live"}]
  /\ after \in [Clients -> 0..MaxEvents]
  /\ {replay, queue, seen} \subseteq [Clients -> Seq(1..MaxEvents)]
  /\ connects \in [Clients -> 0..MaxConnects]
  /\ \A c \in Clients : Len(queue[c]) <= QueueSize /\ Len(replay[c]) <= ReplayLimit

\* A client that names its last event when it connects again receives events
\* in the order of their numbers and none twice, over all its connections and
\* across the switch from stored to live events.
SeenInOrder ==
  \A c \in Clients : \A i, j \in DOMAIN seen[c] : i < j => seen[c][i] < seen[c][j]

\* An event recorded while the client is subscribed is not the last thing it
\* misses: that event or a later one arrives, whatever the queue dropped.
LatestArrives ==
  \A c \in Clients, n \in 2..MaxEvents :
    (ledger = n /\ conn[c] = "live" /\ queue[c] # <<>>) ~> (LastSeen(c) >= n \/ conn[c] # "live")

\* "after_sequence replays the events of a lost connection" (contracts.md:13):
\* a client that names its last event when it connects misses none.
NoneMissed ==
  \A c \in Clients : \A i \in DOMAIN seen[c] : seen[c][i] = i
=============================================================================
