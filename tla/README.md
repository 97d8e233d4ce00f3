# SecMind: a verification development

TLA+ models of the SecMind agent runtime (`src/src/secmind`), the TLC runs that
check them and the theorems about them that TLAPS proves. Every definition is
translated from the source; `PROJECT.json` names the lines behind each one. Paths
below are relative to `src/src/secmind` unless they say otherwise.

## The system

An operator submits a task over HTTP; the service stores a run and starts an
asyncio task that walks a LangGraph graph of sixteen nodes: ingest the inputs,
classify the scenario, retrieve knowledge, plan, validate the plan, and then for
each step select, guard, perhaps ask for approval, execute a tool, observe,
analyze, verify, perhaps reflect and retry; at the end report and judge whether
the run may enter memory. Every node loads the agent state from the graph's
value, changes it, saves it in the run's row and records an event.

| Component | State it keeps | Operations | Model |
|---|---|---|---|
| Agent graph (`orchestrator.py`) | the agent state of the current graph call; LangGraph's in-memory checkpoint | the sixteen nodes; `start`, `resume`, `recover` | `AgentNodes`, `AgentRun`, `RunService` |
| Specialist agents (`agents.py`) | none, they change the agent state | interpret, plan, analyze, verify, report | `AgentNodes`, `DefaultPlans` |
| Guardrail (`guardrail.py`) | none | `evaluate` | `AgentNodes` (`Evaluate`) |
| Run service and API (`service.py`, `api.py`) | the set of asyncio tasks | submit, approve, recover, shut down | `RunService` |
| Event hub and socket (`service.py`, `api.py`) | a bounded queue per subscriber | publish, subscribe, replay | `EventStream` |
| Ledger (`ledger.py`) | run rows, numbered and hash-chained events, query logs | append, save, load, verify, export | chain in `Ledger`, rows in `RunService`, numbers in `EventStream`, query logs in `KnowledgeSearch` |
| Tools (`tools.py`, `tools_pentagi.py`) | a registry | register, invoke | results and risk levels in `DefaultPlans`, container calls in `Sandbox` |
| Sandbox (`sandbox.py`) | a docker client, containers of the daemon | ensure the image, run with a timeout | `Sandbox` |
| Model gateway (`llm.py`) | failure counts and circuits per model | structured output, embeddings | `Gateway` |
| Input ingestion (`ingest.py`) | the run's workspace | copy, extract | `InputIngest`; its outcomes for a run in `AgentNodes` |
| Vector memory (`memory.py`) | a Qdrant collection | ensure, upsert in batches, search | `VectorMemory` |
| `scripts/ingest_knowledge.py` | a checkpoint file | ingest in batches, `--clear` | `KnowledgeIngest`, `KnowledgeBase` |
| `scripts/search_knowledge.py` | query logs | search, show and export logs | `KnowledgeSearch`, `KnowledgeBase` |
| Skills loader (`skills_loader.py`) | a directory anyone may write | discover, load, register | not modelled |
| ATT&CK data (`attck.py`) | read-only data | documents, lookups | its documents are a constant of `KnowledgeIngest` |

Interactions: the API calls the service; the service spawns tasks that call the
orchestrator; nodes call agents, guardrail and tools; every node writes the run
row, which the API, `resume` and `recover` read; every event goes to the ledger
and the hub, which the socket handlers read. All runs of a process share one
gateway; all processes on a host share the database, the Qdrant collection, the
checkpoint file and the docker daemon.

### What is hard here, and what makes it correct

* The graph: control depends on a status, an error text, counters and stored
  results that different nodes set. Correct means: no tool call without the
  rules or the operator, budgets and retries that bound what really ran, steps in
  order, one question at a time, a report that agrees with the run.
* The service: three records say where a run is (the row, LangGraph's checkpoint,
  the tasks), a crash keeps the first only, and four kinds of tasks may overlap.
  Correct means: answers are not lost, no row goes back, no double work, every
  run gets to a question or an end.
* The event stream: stored and live events meet in a handler that awaits at every
  send, behind a queue that drops. Correct means: order, no duplicates, no gaps.
* The gateway: retries inside a loop over models, next to breakers that
  concurrent calls open. Correct means: no model given up without being asked or
  barred, an open breaker bars, every call returns.
* The knowledge base: a script that may stop anywhere, a checkpoint file that a
  later run with other settings reads, a collection that searches create too.
  Correct means: what is called finished is stored, under the embedding model the
  run names, and nothing is paid for twice.
* The ledger: two transactions per node, a lock that only one process knows.
  Correct means: a whole chain, no writer hurt by one of its own process, a
  verification that means something.
* The sandbox: a client that can be killed in front of a container that cannot.
  Correct means: nothing left behind, no success from half an output, every call
  settled. (The first is what the code promises and does not keep.)
* Ingestion: names that collide, a replay over what the first attempt left.
  Correct means: the list agrees with the files.

`PROJECT.json` lists each hazard at its line with the properties that cover it.

## Modules

`AgentNodes` has the agent state and every node as an operator from a state to
the set of its outcomes (the state it checkpoints and the node that runs next;
the route "raise" is an exception). Both `AgentRun` and `RunService` run these
operators, so the nodes are translated once. Kept are all fields that a guard, a
route or the report's status reads; a task is the scenario it implies, the
findings of a result are one of three classes the verifier and the analyst tell
apart, a parameter dictionary is a name. The module ends with the contract
`NodeInv(n, s)`: what node `n` relies on without checking it.

`DefaultPlans` holds the shipped data: registered tools, their risk levels, the
results their `invoke` can return, the planner's default plans.

`AgentRun` is one run in one process: the variables are the state of the latest
checkpoint, the next node, the graph call in progress and the node executions it
has left. One action per node, plus the question, the answer and the recursion
limit. An answer that is an edit without parameters raises in the approval node
(`Unvalidated`; `resume` hands it the response as dumped, with an explicit None),
and `resume` records it and replays the run from its first node, under the limit
of a first call (`call = "replay"`), with the graph's checkpoint still alive.

`RunLifecycle` is the abstract specification of a run for its operator: it works,
asks, is answered, closes with a verdict; a refused run calls no tool, a
completed one called some, no run works for ever. `AgentRun` implements it under
the mapping `Phase`, `Calls`, `Refused`, `Verdict` (the property
`KeepsLifecycle`).

`RunService` is one run across crashes: the row `snap`, LangGraph's checkpoint
`cp`, the asyncio tasks, each with an agent state of its own, and the answers
and tool calls so far. `Replay` is the second half of `resume`: it is reached when
the checkpoint is lost and when an answer does not pass the approval node's
validation, and the replayed guardrail takes the recorded answer. A step is what a task does between two awaits that
suspend it. `_checkpoint` awaits only a hub lock that nobody holds across an
await, so a node with its save and its event is one step; a tool call suspends
and is two. Runs share nothing, so one is modelled.

`EventStream` is the ledger's numbers, the hub's queues and the socket handlers of
a few clients that lose and renew their connections.

`Gateway` is `QwenGateway.structured` for concurrent callers: which candidate a
call is at, how often it asked, the failure counts and open breakers they share.
A step is what lies between two awaits. The clock is abstract: a breaker's 60
seconds may be over at any time, and the wait between attempts is no state.

`VectorMemory` has the requests of `QdrantVectorStore` as parts of actions:
`ensure_collection` is a look and, later, a creation. `KnowledgeIngest` is the
ingestion script, one step per request and per file operation, each run with
settings of its own; a vector is what it was computed from. The ghost `torn` says
that the collection was changed and the checkpoint file not brought along. `KnowledgeSearch` has
the searches of runs and consoles, with their query log rows. `KnowledgeBase`
puts script and searches on the same collection and states what both promise.

`Ledger` has writers that do what `_checkpoint` does, in one process and in several:
the run row is committed, then an event is appended under the lock of the
process. A hash is the tuple it is computed from. Crashes roll back what is open;
faults alter and lose rows below the code. `EventLog` is the abstract
specification, a list that is only appended to; `Ledger` implements it under
`log <- the events in the order of their numbers` (the property `AppendsOnly`).

`Sandbox` is what happens behind a scanner's tool step: image check, docker client,
timeout, the retry of the graph's verify node, a restart of the process that
replays the step, a docker binary that is missing (`DockerMissing`, which no tool
catches). The daemon's containers live on their own.

`InputIngest` is `ingest`'s loop over attachments, file by file, with what an
earlier attempt left in the workspace and with files that are edited or removed
meanwhile. Its node ingests again (`Replay`) while the state has no workspace:
after a crash, after a refusal, and, in a run that was recovered, after an
exception. `gone` is history: the paths of removed files that attempts had copied.

The `MC` modules give the constants their values. Operators marked "Faulty" are
mutated forms of the definition they precede; nothing in the specifications uses
them, they show that each property can fail.

### Taken from outside the source

LangGraph is not part of the repository. The models take from how the code uses
it that it keeps the latest node's state and successor, that `Command(resume=...)`
runs the interrupted node again from its first line with the answer, that it
raises without a checkpoint, and that it raises when the recursion limit leaves
nodes to run. The exact off-by-one of that limit does not matter to the
properties. `resume`'s own call is given no limit by this code and has none in
the models.

Of tenacity the code's use says that it repeats up to the third attempt and then
raises what was raised last (`reraise=True`); of Qdrant that a request is atomic
and that creating a collection that exists is refused; of docker that `--rm`
removes a container when its command ends and that killing the client does not
end it; of the database that a transaction is atomic and the key of run and
number is unique.

## Runs

| Run | Question | Distinct states |
|---|---|---|
| `agent_run` | does a run without crashes keep its promises | 4,241 |
| `run_service` | do row, checkpoint and tasks agree across a crash | 349,907 |
| `event_stream` | what do clients receive | 86,000 |
| `gateway` | do concurrent calls use all their models, and end | 184,000 |
| `knowledge_base` | do checkpoint and collection agree while runs with different settings stop and others search | 1,369,754 |
| `ledger` | is the chain whole, and what does a ledger that verifies prove | 501,000 |
| `sandbox` | do steps settle, and what counts as a success, over timeouts, retries and restarts | 243,514 |
| `input_ingest` | does the artifact list agree with the workspace | 1,029,000 |
| `accepted_is_verified` | `AgentRun` against its own comment on long-term memory | violated |
| `one_answer_twice` | `RunService` against the test of an approved step | violated |
| `none_missed` | `EventStream` against `contracts.md` | violated |
| `container_left` | `Sandbox` against its own comment and `CHANGELOG.md` | violated |

Every passing run but `sandbox`, whose types are proved, also checks its module's
`TypeOK`. Beyond that:

| Run | Properties |
|---|---|
| `agent_run` | `CallsAuthorized`, `BudgetsBound`, `AttemptsBound`, `StepsInOrder`, `AnalyzedOnce`, `WaitingIsAsking`, `EndIsReported`, `KeepsLifecycle` |
| `run_service` | `StartedAuthorized`, `StartsBounded`, `WaitingRowAsks`, `IdleIsSettled`, `RunSettles`, `AnswersRecorded`, `RowKeeps` |
| `event_stream` | `SeenInOrder`, `LatestArrives` |
| `gateway` | `FailsInVain`, `LateRequestsBound`, `CallReturns` |
| `knowledge_base` | `FinishedIsStored`, `CheckpointIsStored`, `NoRework` |
| `ledger` | `ChainIntact`, `OnlyRivalsCollide`, `VerifiedIsTrue`, `AppendEnds`, `AppendsOnly` |
| `sandbox` | `SuccessIsWhole`, `CallSettles` |
| `input_ingest` | `InventoryMatches` |

Each is explained at its definition. What the violated properties show
(`findings` has the details): a code audit with one success is reported as
completed and accepted for long-term memory whatever verify decided; an answer
sent twice runs the tool twice at the same time; an event recorded between replay
and subscription is lost to the client; the container of a scanner that runs into
its timeout goes on.

### Divergences seen while modelling

The passing properties say what the code keeps, and name their exceptions. Each
exception is something a document or comment does not mention:

| Where | What the code does | Where the models say so |
|---|---|---|
| `orchestrator.py:196` | a plan within the step budget may need more node executions than its graph call has: the run fails without a report | the exception in `EndIsReported` |
| `orchestrator.py:441` | an edit without parameters raises in the approval node; `resume` takes that for a lost checkpoint and replays the run from its first node, where the recorded edit passes for an approval of the planned parameters | `Unvalidated`; `AgentRun`'s `Answer`, `RunService`'s `RunApproval` and `Replay` |
| `orchestrator.py:392` | edited parameters are executed without asking the rules; a replay asks them | "or its step was approved" in `CallsAuthorized` |
| `orchestrator.py:471` | with the tool budget spent a result is analysed again | `AnalyzedOnce` speaks of calls left |
| `orchestrator.py:174` | a denial given after a restart is recorded, then the replay asks the question again | `Replay`, `Answered`; `AnswersRecorded` says no more than that it is recorded |
| `service.py:113` | a run that was queued when the process stopped is never started | `crashes > 0` in `IdleIsSettled` |
| `api.py:142` | an answer repeated before its resume task has run, and resumed when the graph already asks for the next step, approves that step unseen | `AnsweredOnce`, up to which four properties are proved |
| `service.py:79` | a first call that meets the recursion limit at its question is stored as failed, its request stays, and an answer starts the failed run again | "or failed" in `WaitingRowAsks` |
| `ledger.py:190` | a run stopped between its final status and its report never gets one | `crashes > 0` in `IdleIsSettled` |
| `service.py:90` | an exception in a resume or recover task leaves the row as it is | `lost` in `RunSettles` and `IdleIsSettled` |
| `orchestrator.py:209` | a crash leaves a stored state without its event | two steps in `Ledger` |
| `ingest_knowledge.py:135` | a `--clear` that stops between collection and file, also because a search created the collection anew, leaves a file that is believed | `torn` |
| `ingest_knowledge.py:195` | a run with another model that stops before its first save leaves its vectors under the old file | `torn` |
| `ingest_knowledge.py:151` | the fingerprint leaves out the demo mode and the ATT&CK version: a run after a demo, or on a newer version, passes over every document and finishes over the vectors it finds. `docs/operations-guide.md:748` says that configuring a key and ingesting again is enough (only `--clear` is) | `VectorsUnder`: `FinishedIsStored` and `CheckpointIsStored` ask for vectors of the same embedding model, the runs have both cases |
| `ingest_knowledge.py:128` | `--clear` cannot delete a collection of another vector size | `OpenRaises` at `open`, before `Clear` |
| `orchestrator.py:311` | a run's failed retrieval leaves no row in the query log | `GiveUp` |
| `sandbox.py:128` | a container outlives its timeout, beside that of the retry | `container_left`; `ContainersBounded` bounds them by attempts and restarts |
| `sandbox.py:140` | a refused `docker run` counts as a success | "or there was none" in `SuccessIsWhole` |
| `sandbox.py:158` | a missing image is not built | `ImageMissing` |
| `ingest.py:45` | the artifact of a file that another attachment overwrote keeps the old hash | `IsLatest` in `InventoryMatches` |
| `ingest.py:31` | the workspace is not cleared before it is filled again: a file removed between two attempts stays in it, unlisted, and the tools scan the workspace | `gone` in `InventoryMatches` |

### Bounds, and why they are enough

* `agent_run`: `MaxSteps = 5`, `MaxToolCalls = 3`. Five steps cover a plan of two
  with a retry each and the budget's end; three calls let the tool budget end
  before the steps do; the recursion limit of 20 ends before a plan of three is
  through. The plans a model may answer with are the ones the guards tell
  apart: two audits (one without a retry), a step that needs approval between
  two others, an empty plan, a duplicate step, an unknown dependency, an
  unregistered tool, a step without tools, a blocked parameter.
* `run_service`: `MaxSteps = 5`, `MaxToolCalls = 4`, one crash, two answers, two task
  slots. The penetration test takes the shipped plan (two steps that both ask,
  so an answer can come before and after the crash) when the model fails, or a
  model's: an audit with three attempts, whose tool may raise, then a scan that
  asks. After two failed audits the question meets the recursion limit of the
  first call. Two slots are enough for each pair of overlapping coroutines; when
  both are taken, a third task waits for one to end. Parameters, planned or edited
  in, are the two the plans have, and an edit may come without any. The audit's
  failures have one representative; its exception and that of `nmap_scan`, which
  both plans call, leave their nodes. `Repeats = FALSE` lets each
  request be answered once per process life; with TRUE the run
  `one_answer_twice` shows what a repeated answer does.
* `event_stream`: five events, queue and replay limit of two, two connections per
  client: the queue overflows, the replay is cut short, and a second connection
  resumes after a gap. `none_missed` has a replay limit above the number of
  events, so that the gap it finds is not the limit's.
* `gateway`: two callers with the planner's model and the fallback, three
  attempts and a threshold of three, as in the code. Both callers may begin
  again and again, so failures add up over calls and a breaker opens while the
  other caller is asking.
* `knowledge_base`: three documents in two domains, batches of two: a last batch
  that is not full, a limit that cuts the list; three runs, one of which may stop
  anywhere: one to fill the collection, one to be interrupted, one to believe or
  pass over the file. The configurations are a plain one and five that differ
  from it in `--clear` and limit, in model, in vector size, and, with the same
  fingerprint, in the demo mode and in the ATT&CK version. A run's search and
  a console's, one each, with the vector size of the plain one.
* `ledger`: two writers of one process and one of another, two writes each, a
  crash: collisions within and across processes, a lock that is orphaned. One
  fault alters or loses a row while writers still hold what they have read.
* `sandbox`: two calls with two attempts and one restart: containers of an
  earlier attempt and of an earlier process run beside the latest.
  `container_left` has the same constants.
* `input_ingest`: every list of up to three of seven attachments (two files of one
  name, a file with a directory's name, a directory, an archive that shares a
  path with it, a directory with a link, a refused reference), two further attempts,
  two edits or removals: an attempt can meet what two others, of other versions
  of the files, have left, and a clash can go away because a file was removed.

Deadlock is checked for `gateway` and `sandbox`, where somebody can always go on.
It is not for the others: a closed run, an operator who never answers, a client
that is up to date, a finished ingestion and writers that have written all are
states where the system rightly stops.

### Fairness

* `AgentRun`: weak fairness of the graph's work. The event loop runs a ready
  coroutine; nothing makes an operator answer.
* `RunService`: weak fairness of each task's work and of the restart: a tool call
  ends, because every subprocess and sandbox has a timeout, and a stopped service is started
  again. Crashes and answers are not fair.
* `EventStream`: weak fairness of each handler; nothing is assumed of clients,
  connections or the recording of events.
* `Gateway`: weak fairness of each call's work: the HTTP client has a timeout and
  tenacity a last attempt. Models answer what they like, breakers need not cool.
* `Ledger`: weak fairness of each writer that has begun to append.
* `Sandbox`: weak fairness of each call's own steps: the timeout ends the wait.
  Nothing is asked of containers, images or the daemon, except that it answers
  the listing of images, for which the code sets no timeout.

`InputIngest` and `KnowledgeBase` have safety properties only and need none.

`RunSettles` and `AnswersRecorded` exempt a process that stopped and, for the
first and `IdleIsSettled`, a task that died of an unhandled exception (`lost`): there the code
promises nothing, and the row may say running until the next restart. The ghost
`eager` marks an answer accepted before the call that asked had returned; its late
save then stores the question over the answer's state. `StartsBounded`,
`AnswersRecorded` and `RowKeeps` leave that order out.

## Proofs

`AgentNodesProofs` shows `NodePasses`: a node in a state that satisfies its
contract yields only outcomes that satisfy the contract of the node they lead to.
One lemma per node; `Frame` and `SameFrame` say which fields a node may touch
without disturbing the part about calls and budgets.

`AgentRunProofs` shows that `IInv` is inductive, and from it:

* `TypeCorrect`: `Spec => []TypeOK`
* `CallsAreAuthorized`: `Spec => []CallsAuthorized`
* `BudgetsHold`: `Spec => []BudgetsBound`
* `WaitingMeansAsking`: `Spec => []WaitingIsAsking`

None of these is inductive by itself. A call is authorized because the guardrail
let the step pass or the operator approved it, which must still hold when execute
reads the step; the call budget holds because between guardrail and execute one
counted step has no call yet (`tool_calls_used < steps_used`); and execute and
verify index the plan, which is only safe inside a step. `IInv` therefore says,
for the node that is next, what that node relies on (`NodeInv`), and keeps the
rest for runs that are over.

Its second part relates a run to its promise, `RunLifecycle`:

* `EndsAreReported`: `Spec => []EndIsReported`
* `LivesAsPromised`: `Spec => Lifecycle!Init /\ [][Lifecycle!Next]_(Lifecycle!vars)`,
  the safety half of `KeepsLifecycle`

`IInv` is too weak for both: it says nothing of approvals or of the report. A step
of a run maps to `Close("completed")` only if nothing was refused and some tool
was called, and a call maps to `CallTool` only if nothing was refused; both look
back over the whole run. `LifeInv` adds what carries this forward: a refused run
is denied and its next node is one of `record_denial`, `report`, `memory_commit`,
so no call can follow; only the report completes a run, and only where results
are stored; after it, report and status agree. `Keeps` says what each node may do
to the fields this is about, one lemma per node.

Its third part is about the steps of a plan:

* `AttemptsAreBounded`: `Spec => []AttemptsBound`
* `StepsRunInOrder`: `Spec => []StepsInOrder`
* `AnalyzesOnce`: `Spec => []AnalyzedOnce`

The three compare stored results with a plan and an index that other nodes
advance, so `LoopInv` has to say what each node of the loop finds: before the
loop either nothing was called or, in a replay, the plan is one that is already
walked; inside the loop the step names differ, steps after
the current one are untried, steps before it succeeded, each call of the current
one but the first was a counted retry, and between execute and verify the latest
result is the current step's, or there is an error. The step counter is not
enough: a call is counted by `execute`, its retry by `reflect`, and the left-over
error of a failed planner makes `verify` reject a call that succeeded.

`RunServiceProofs` has five invariants.

* `ServiceInv` holds always, and is inductive on the node contract: the row, the
  checkpoint and every task hold a state that the node they are at, or lead to,
  can rely on. Tasks do not see each other, so each is a run of its own; what
  relates them is what `resume` and `recover` load. From it `TypeCorrect`,
  `WaitingRowsAsk` and `IdleRunsAreSettled`.
* `TokenInv` holds until a request is answered twice in one life of the process
  (`AnsweredOnce`). Until then at most one
  task moves, although several may exist: a task that asked has yet to store
  its question again, behind the back of the task that carries the answer. What
  it stores is stale, and harmless, because the question in it was answered, and
  granted unless the one task that moves takes a refusal to the report; whoever
  loads the stale state finds a question that the operator settled. From it
  `AuthorizedUntilRepeated` and `OneCallUntilRepeated`.
* `SingleInv` holds, under the same condition, until an answer overtakes the call
  that asked (`eager`): there is one task, the row says of steps, approvals, report
  and question what the task's own state says, and each call begun is a counted
  step. From it `BoundedUntilRepeated` and `RowsKeepUntilRepeated`.
* `UngrantedInv` holds always: as long as the operator has approved nothing, no
  state that is stored or worked on has an approval, no task carries one, and the
  calls begun are those the rules allow. From it `NothingRiskyUngranted`.
* `PaidInv` holds always: `CallsLeft` says of each task how many calls it may yet
  begin, from the steps its own state has not counted and the replay `resume` may
  turn to; these calls and those begun stay within `MaxSteps` for each life of the
  process and twice that for each answer, which the task spawned for it brings. It
  speaks of the tasks alone, so it does not matter which of two tasks stores the row
  last. From it `CallsArePaidFor`.

`AnsweredOnce` is a condition on the behaviour so far, not an assumption about the
operator: up to the first repetition the theorems hold whatever comes later.
`AnswersAreOnce` shows that it holds throughout where `Repeats = FALSE`, as in the run,
so `StartsAreAuthorized`, `StartsAreBounded` and `RowsKeep` state the run's properties
under that hypothesis. The condition is needed: with `Repeats = TRUE` TLC finds the
four properties violated. Two answers to one request make two movers
(`one_answer_twice`); the second may reach the graph at the next question and
approve that. The last two invariants say what is left then: an approval the
operator gave may be used for another step or twice, but none comes from nowhere,
and the calls are bounded.

What the proofs found in the models: an answer may meet a failed run that still
shows its request, which the earlier form of `WaitingRowAsks` excluded; a model no
caller uses made the earlier bound of `LateRequestsBound` negative, so it now
speaks of open breakers; `ServiceAssumption` and `ConfigAssumption` have to say that
None is no stored value, and `ProcessAssumption` that no searcher is the script.

The theorems hold for every set of tools, plans, policy and budget that satisfies
the assumptions of `AgentNodes` (`BudgetAssumption` from the settings' bounds,
`ToolAssumption`, `PlanAssumption`, `PolicyAssumption`, and `NoneAssumption`,
that None is none of the data). TLC evaluates the assumptions in each run.

`EventStreamProofs` shows `TypeCorrect` and `SeenOrdered` (`Spec => []SeenInOrder`)
for every number of clients and events, queue size and replay limit. What a
client saw is in order because what the handler still has for it (`Pending`) is in
order and later than all it saw; `ClientInv` says so, and that no number is
ahead of the ledger, which is why a recorded event may join a queue.

`GatewayProofs` shows `TypeCorrect` and `FailsOnlyInVain` (`Spec => []FailsInVain`).
`CallInv` counts: the requests to the current candidate are the attempts, and
nothing was sent to it before its turn. `LateRequestsAreBounded` counts retries: an
open breaker bars new calls, so the requests that still reach the model come
from calls that were asking. `LateInv` says that the requests so far and the
retries these calls have left, a finite set of pairs of caller and attempt,
stay within the bound: a late request uses one pair up, nobody gets a new one,
and the call that opened the breaker has none. It needs `IsFiniteSet(Callers)`.

`KnowledgeBaseProofs` shows `TypeCorrect`, `FinishedStored` and `CheckpointStored`,
for any settings: nothing is assumed of what a fingerprint tells, which is why both
speak of vectors made under the run's embedding model and not of its own. `DoneInv` relates the file, the run's list of
finished ids, its pending ids and the collection at each step of the script. It
is kept because an upsert under another fingerprint tears, because what the next
save writes replaces the file whole, and because searches only ever add an empty
collection where there is none.

`NothingIsReworked` is `Spec => []NoRework`. `PaidInv` says that a
document was embedded at most once per aborted run, and once more only if the file
lists it or the run has it in hand; and that a run passes over all the file it
believes lists.

`LedgerProofs` shows `ChainIsIntact`, `RivalsOnly` and `ImplementsLog`
(`Spec => AppendsOnly`, the refinement of `EventLog` until a row is touched). `Core`
holds that long: the rows are the history, each linked to the one before; what a
writer has read is a row of the chain; and what was appended after its read comes
from other processes, because it holds its own process's lock.

`VerifiedTellsTheTruth` (`Spec => []VerifiedIsTrue`) holds beyond faults, where the
chain proves nothing about itself. `TruthInv` says what no fault can undo, because
a hash is made of what it hashes: an event is recorded once, the hash of a row
is that of a recorded event, and the previous hash a row or a writer holds was
made of an event recorded before its own. A row that verifies is linked to the row
before it, so its place in the history is after that row's; a least counterexample
carries this from neighbours to all pairs, and a least missing number shows
there is no gap.

`RunEnvironmentProofs` is about what surrounds a run's nodes: its tools' containers
and its workspace.

Of `Sandbox` it shows `TypeCorrect`, `SuccessWhole` and, since what the code says of
its containers does not hold, the bound that does, `ContainersBounded`. A bound
on what runs follows from one on what was started: `StartsInv` counts one
container for each invocation, an invocation for each attempt and each restart;
`ClientInv` says that a client exits by itself only after its container.

Of `InputIngest` it shows `IngestTypeCorrect` and `InventoryTrue`
(`IngestSpec => []InventoryMatches`), by `IngestInv`. What `ingest` returns has to be
right over a workspace that earlier attempts filled from other versions of the
same attachments, so the invariant has two parts. `Progress` is about the attempt
under way: the artifacts are the files before the current one, the n-th has the
path of the n-th file, and the last one of a path has the content that is there
now, because a path is written only by the copy that lists it. `Contained` is about
all attempts: a path of the workspace is a target of a file, was put inside the
directory a file met, or is in `gone`. Of the second kind none is left when an attempt returns: the directory still
stands at the target of that file (`Stray`), so no attempt gets past it, and one
that returns got past all its files. `Place` counts the files
before a file; the lemmas on it are by cardinality, the order of files being that
of pairs.

The theorems hold for every value of the constants that satisfies the module's
named assumptions, which TLC evaluates in each run.

Only model-checked: the liveness half of `KeepsLifecycle` and the other liveness
properties (`RunSettles`, `AnswersRecorded`, `LatestArrives`, `CallReturns`,
`AppendEnds`, `CallSettles`): liveness and ENABLED are out of the prover's reach and
stay with TLC. Every safety property of a passing run is also a theorem.

## Not modelled

* Texts, timestamps, decision records, redaction; what scanners find and how their
  output is parsed; knowledge hits, which decorate findings and the report but
  which no guard reads.
* Uploads, health, export and the query-log endpoints and options: they read, or
  write a file nobody reads back.
* `upsert`, `get`, `update_payload`, `scroll` and `delete` of the vector store: nothing
  in the source calls them. `--dry-run` changes nothing.
* The lookups of `attck.py`: functions of read-only data.
* `skills_loader.py` and the registry it fills: one pass over a sorted list of files
  at start, beside nothing else; what is registered is a constant of `AgentNodes`.
* The graph's use of the gateway and the sandbox is modelled by their outcomes,
  once in `AgentNodes` and once, from inside, in the component's own module. A
  missing docker binary is in both: `DockerMissing` in `Sandbox`, and "raise" among
  the scanners' results in `DefaultPlans`.
* Two runs in one `RunService`: they share the gateway, the ledger and the docker
  daemon, each of which has a module with several callers, and nothing else.
* `max_model_calls` and `max_runtime_seconds` are stored by the code and read
  nowhere.

## Plan

1. Done: the graph, its contract and proofs; the service across crashes; the
   event stream; gateway, knowledge base, ledger, sandbox and input ingestion;
   every safety property of a passing run proved.
2. Done: what of `RunService` survives a request that is answered twice:
   everything up to the repetition, `NothingRiskyUngranted` and `CallsArePaidFor`
   after it.
3. Left: between the two, a bound on how often one granted step may be called.
