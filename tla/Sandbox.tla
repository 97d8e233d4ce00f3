------------------------------ MODULE Sandbox -------------------------------
(***************************************************************************)
(* The containers behind the tools of tools_pentagi.py.  A call is one     *)
(* step of some run, invoked until it succeeds or its attempts are used up *)
(* (the graph's verify and reflect nodes), and again when a restarted      *)
(* process replays its run.  An invocation looks for the image             *)
(* (SandboxExecutor.ensure_image), then waits for docker run, with a       *)
(* timeout, in SandboxExecutor.execute.                                    *)
(*                                                                         *)
(* The docker client is a process of its own, which execute can kill; the  *)
(* containers belong to the daemon, which removes one when its command     *)
(* ends (--rm).  Daemon, containers and image are external.                *)
(***************************************************************************)
EXTENDS Integers, FiniteSets

CONSTANTS
  Calls,
  MaxAttempts, \* PlanStep.max_attempts
  MaxCrashes,  \* bound on restarts of the process
  None

VARIABLES
  image,   \* the daemon has the sandbox image
  pc,      \* each call: "planned", "image", "run", "killed", "returned", "settled";
           \* "raised": its exception ended the graph call
  status,  \* of its latest invocation's ToolResult, None before
  attempt, \* its invocations as retry_counts has them
  client,  \* the docker client: None, "live", "killed" or the exit code's kind
  started, \* containers the call has started: 1..started
  mine,    \* the container of the latest invocation, 0 before
  live,    \* the containers that run
  crashes

vars == <<image, pc, status, attempt, client, started, mine, live, crashes>>

Statuses == {"success", "not_ready", "sandbox_failed"}

ExitCodes == {"zero", "nonzero"}

ASSUME SandboxAssumption ==
  /\ MaxAttempts \in 1..5 /\ MaxCrashes \in Nat
  /\ None \notin Statuses \cup ExitCodes \cup {"live"}

Init ==
  /\ image \in BOOLEAN
  /\ pc = [c \in Calls |-> "planned"]
  /\ status = [c \in Calls |-> None]
  /\ attempt = [c \in Calls |-> 1]
  /\ client = [c \in Calls |-> None]
  /\ started = [c \in Calls |-> 0]
  /\ mine = [c \in Calls |-> 0]
  /\ live = [c \in Calls |-> {}]
  /\ crashes = 0

Invoke(c) ==
  /\ pc[c] = "planned"
  /\ pc' = [pc EXCEPT ![c] = "image"]
  /\ status' = [status EXCEPT ![c] = None]
  /\ mine' = [mine EXCEPT ![c] = 0]
  /\ UNCHANGED <<image, attempt, client, started, live, crashes>>

\* ensure_image finds the image and execute starts docker run.
ImageFound(c) ==
  /\ pc[c] = "image" /\ image
  /\ pc' = [pc EXCEPT ![c] = "run"]
  /\ client' = [client EXCEPT ![c] = "live"]
  /\ UNCHANGED <<image, status, attempt, started, mine, live, crashes>>

ImageMissing(c) ==
  /\ pc[c] = "image" /\ ~image
  /\ status' = [status EXCEPT ![c] = "not_ready"]
  /\ pc' = [pc EXCEPT ![c] = "returned"]
  /\ UNCHANGED <<image, attempt, client, started, mine, live, crashes>>

\* Without a docker binary ensure_image or execute raises what no tool catches.
DockerMissing(c) ==
  /\ pc[c] = "image"
  /\ pc' = [pc EXCEPT ![c] = "raised"]
  /\ UNCHANGED <<image, status, attempt, client, started, mine, live, crashes>>

\* What was printed is parsed, whatever the exit code.
Return(c) ==
  /\ pc[c] = "run" /\ client[c] \in ExitCodes
  /\ status' = [status EXCEPT ![c] = "success"]
  /\ pc' = [pc EXCEPT ![c] = "returned"]
  /\ UNCHANGED <<image, attempt, client, started, mine, live, crashes>>

\* Faulty: only a client that never got its container is given up.
TimeOutUnstarted(c) ==
  /\ pc[c] = "run" /\ client[c] = "live" /\ mine[c] = 0
  /\ client' = [client EXCEPT ![c] = "killed"]
  /\ pc' = [pc EXCEPT ![c] = "killed"]
  /\ UNCHANGED <<image, status, attempt, started, mine, live, crashes>>

\* wait_for expires: process.kill() ends the client.
TimeOut(c) ==
  /\ pc[c] = "run" /\ client[c] = "live"
  /\ client' = [client EXCEPT ![c] = "killed"]
  /\ pc' = [pc EXCEPT ![c] = "killed"]
  /\ UNCHANGED <<image, status, attempt, started, mine, live, crashes>>

\* Faulty: what was printed so far is a result.
ReapWithOutput(c) ==
  /\ pc[c] = "killed"
  /\ status' = [status EXCEPT ![c] = "success"]
  /\ pc' = [pc EXCEPT ![c] = "returned"]
  /\ UNCHANGED <<image, attempt, client, started, mine, live, crashes>>

\* communicate() returns and SandboxError becomes the tool's result.
Reap(c) ==
  /\ pc[c] = "killed"
  /\ status' = [status EXCEPT ![c] = "sandbox_failed"]
  /\ pc' = [pc EXCEPT ![c] = "returned"]
  /\ UNCHANGED <<image, attempt, client, started, mine, live, crashes>>

\* The graph's verify node: on, back for another attempt, or to the report.
Verify(c) ==
  /\ pc[c] = "returned"
  /\ IF status[c] # "success" /\ attempt[c] < MaxAttempts
       THEN /\ pc' = [pc EXCEPT ![c] = "planned"]
            /\ attempt' = [attempt EXCEPT ![c] = @ + 1]
       ELSE /\ pc' = [pc EXCEPT ![c] = "settled"]
            /\ UNCHANGED attempt
  /\ UNCHANGED <<image, status, client, started, mine, live, crashes>>

\* The daemon starts the container a client asks for.
ContainerStarts(c) ==
  /\ client[c] = "live" /\ mine[c] = 0 /\ image
  /\ started' = [started EXCEPT ![c] = @ + 1]
  /\ mine' = [mine EXCEPT ![c] = started[c] + 1]
  /\ live' = [live EXCEPT ![c] = @ \cup {started[c] + 1}]
  /\ UNCHANGED <<image, pc, status, attempt, client, crashes>>

\* Its command ends; the client that waits for it ends with the exit code.
ContainerEnds(c, i) ==
  /\ i \in live[c]
  /\ live' = [live EXCEPT ![c] = @ \ {i}]
  /\ IF i = mine[c] /\ client[c] = "live"
       THEN \E code \in ExitCodes : client' = [client EXCEPT ![c] = code]
       ELSE UNCHANGED client
  /\ UNCHANGED <<image, pc, status, attempt, started, mine, crashes>>

\* docker run fails before there is a container: exit code 125.
RunRefused(c) ==
  /\ client[c] = "live" /\ mine[c] = 0
  /\ client' = [client EXCEPT ![c] = "nonzero"]
  /\ UNCHANGED <<image, pc, status, attempt, started, mine, live, crashes>>

\* Somebody builds or removes the image.
ImageChanges ==
  /\ image' = ~image
  /\ UNCHANGED <<pc, status, attempt, client, started, mine, live, crashes>>

\* The process and its clients end; recovery replays the steps that are not
\* settled, with the retry counts of the snapshot.  A step that raised is replayed
\* if its run was not stored as failed.
Crash ==
  /\ crashes < MaxCrashes /\ \E c \in Calls : pc[c] # "settled"
  /\ crashes' = crashes + 1
  /\ \E replayed \in SUBSET Calls :
       /\ \A c \in Calls : pc[c] = "settled" => c \notin replayed
       /\ \A c \in Calls : pc[c] \notin {"settled", "raised"} => c \in replayed
       /\ pc' = [c \in Calls |-> IF c \in replayed THEN "planned" ELSE pc[c]]
  /\ client' = [c \in Calls |-> IF client[c] = "live" THEN "killed" ELSE client[c]]
  /\ UNCHANGED <<image, status, attempt, started, mine, live>>

Work(c) == Invoke(c) \/ ImageFound(c) \/ ImageMissing(c) \/ DockerMissing(c)
           \/ Return(c) \/ TimeOut(c) \/ Reap(c) \/ Verify(c)

Daemon(c) == ContainerStarts(c) \/ RunRefused(c) \/ \E i \in live[c] : ContainerEnds(c, i)

Next == (\E c \in Calls : Work(c) \/ Daemon(c)) \/ ImageChanges \/ Crash

\* The event loop and its timer go on.  Nothing is asked of a container: it may
\* never start and never end.
Fairness == \A c \in Calls : WF_vars(Work(c))

Spec == Init /\ [][Next]_vars /\ Fairness
-----------------------------------------------------------------------------
TypeOK ==
  /\ image \in BOOLEAN
  /\ pc \in [Calls -> {"planned", "image", "run", "killed", "returned", "settled",
                    "raised"}]
  /\ status \in [Calls -> Statuses \cup {None}]
  /\ attempt \in [Calls -> 1..MaxAttempts]
  /\ client \in [Calls -> ExitCodes \cup {"live", "killed", None}]
  /\ started \in [Calls -> Nat] /\ mine \in [Calls -> Nat]
  /\ live \in [Calls -> SUBSET Nat]
  /\ \A c \in Calls : mine[c] <= started[c] /\ live[c] \subseteq 1..started[c]
  /\ crashes \in 0..MaxCrashes

\* "Each tool invocation creates a temporary container that is destroyed after
\* execution" (sandbox.py:76): when an invocation has returned to its tool, the
\* container it started does not run.
ContainerDestroyed ==
  \A c \in Calls : pc[c] \in {"returned", "settled"} => mine[c] \notin live[c]

\* What there is of it: a timeout or a restart leaves a container behind, but the
\* containers of a step never outnumber the attempts it has and the restarts.
ContainersBound ==
  \A c \in Calls : Cardinality(live[c]) <= MaxAttempts + crashes

\* A result that counts as success was parsed from everything the command
\* printed: its container has ended, or there was none.  (A docker run that was
\* refused has none, and counts as a success: nothing looks at the exit code.)
SuccessIsWhole ==
  \A c \in Calls : status[c] = "success" => mine[c] \notin live[c]

\* Every step is settled, or its exception ended the graph call, whether its
\* containers end or not; and again after a restart that replays it.
CallSettles == \A c \in Calls : []<>(pc[c] \in {"settled", "raised"})
=============================================================================
