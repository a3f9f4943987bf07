# IncidentPilot: specifications, model checking and proofs

IncidentPilot takes an incident, has a language model investigate it with read-only
tools, makes and tests a patch in a sandbox, waits for a human to approve it, and opens a
pull request. Runs are rows of a PostgreSQL table; workers claim them with leases, may die
at any point, and hand them over to each other. The specifications here are about that:
what survives a crash, a lost lease, a late request or a lost answer.

Paths below are relative to `src/src/incidentpilot/`; documents are relative to `src/`.

## 1. The system

### Components, their state and their operations

| Component | State | Operations | Talks to |
|---|---|---|---|
| Job queue (`persistence/jobs.py`) | columns of `agent_runs`: status, worker, attempt count, lease, next attempt | admit, claim, renew, release, retry, expire | called by the API and the workers |
| Fencing (`persistence/ownership.py`) | the claim in a ContextVar; row lock of an open transaction; advisory lock of a connection | `fence`, `workflow_lock` | every write of an attempt |
| Worker (`worker.py`) | tasks and heartbeats of the claims it has | poll, execute, heartbeat, fail, stop | queue, executor |
| Executor (`agent/executor.py`) | `_tasks`, one slot per run (mode without a worker) | submit, submit_resume, execute, resume, halt, recover | graph, run service |
| Run service and decision (`services/incidents.py`) | status, decision, incident status | `mark_status`, `mark_running`, `decide` | API, graph, executor |
| Agent graph (`agent/graph.py`) | graph state, checkpoint, sandbox handle, gateway budget | eleven nodes, `run_agent_workflow` | tools, model, sandbox, checkpointer, tables |
| Tool gateway (`tools/gateway.py`) | budget | `call` with its retry loop | tools, over MCP or fakes |
| Decisions and evidence (`agent/decision.py`, `evidence.py`) | none | prompts, `valid_evidence` | model |
| Sandbox (`sandbox/`) | workspaces with base commit, containers, process groups | create, apply, test, export, destroy | git, docker |
| Approved delivery (`agent/approval_resume.py`) | `external_side_effects` row | look up, authorize, record, finish | GitHub integration |
| GitHub integration (`github/integration.py`) | none of its own | query, verify, push, open | GitHub |
| SQL guard (`tools/sql_guard.py`) | none | accept or reject a statement | database tool |
| Model provider (`llm/provider.py`) | usage totals | structured completion with repair rounds and request retries | HTTP |
| MCP session (`tools/mcp_adapter.py`) | session, server process | connect, call_tool, disconnect | operations MCP server |
| Operations MCP server (`src/ops_mcp`) | none | read metrics, logs, source, Git, database | reference service, files |
| Reference service (`src/reference`) | active fault, metrics registry, log file | orders, set and reset fault, metrics | harness, MCP server |
| Benchmark harness (`eval/harness.py`) | case, samples, outcomes | reproduce, run, reset, score | reference service, executor |
| API (`api/app.py`) | none | admit, decide, list | queue, services |
| Scoring, load scripts, observability, configuration, migrations | - | - | - |

### How they interact

A request inserts a `PENDING` row under an advisory lock that makes admissions count the
queue one at a time. A worker claims a due row (`FOR UPDATE SKIP LOCKED`), which sets a
lease and increments the attempt count; the pair run and attempt count identifies the
claim from then on. The task of a claim runs the graph, or, if the run has been approved,
the delivery; next to it a heartbeat renews the lease. Every write of the task starts with
`fence`, an UPDATE that matches only while the claim is current and that keeps the row
locked until the commit. The graph saves checkpoints in the background; an attempt that
takes over a `RUNNING` run continues from the last one. The last two transactions of an
investigation store its artifacts and set its final status, `WAITING_APPROVAL` if there is
a patch. A decision re-queues the run (approve) or ends it (reject). Delivery looks up a
side-effect row, queries GitHub before it writes, fences before every mutating request,
and records the outcome.

Development and test deployments have no worker. The API process itself then creates an
asyncio task for every admitted or approved run, and after a restart finds out from the
table which tasks are missing.

Inside the graph a patch is made in a workspace, a copy of the reference repository named
after the commit it is taken to be, and tested there in a container or a process group.
Tools are called through the gateway, which pays for every try, and in the benchmark's
real tiers through an MCP session whose server is a process of its own. The harness
injects a fault into the reference service, samples orders before and after, lets a run
investigate, and resets the fault.

### What is hard

* A task outlives its lease: two attempts of a run act at once, maybe of one worker.
* A renewal, release or retry of an old claim reaches the database late.
* A decision arrives while the attempt that parked the run has not released it.
* Requests to GitHub are served late, their answers are lost, main moves, people merge or
  close the pull request and delete its branch in between.
* A process dies between two transactions, inside a node, between a node and its
  checkpoint; the workspace dies with it, the reference repository may have moved.
* Budgets live in memory and are rebuilt from what happens to be in the checkpoint.
* Limits meet: attempts, queue length, tool calls, retries, steps, patches.
* Without a worker, the request that committed a run dies before it creates the task, both
  tasks of a run share one slot, and a halt writes by a status it read earlier.
* The repository is edited, committed or pulled while it is copied; tests hang, scribble in
  the copy, and their container is created after the client that asked for it was killed.
* A request, an injection or a reset that its client gave up is carried out under the next
  case; the set-up and the reset of a fault fail; a session is cut between starting its
  server and owning it.

### What makes each part correct

* Queue: no run is stranded; only the current attempt writes; the queue bound holds; legal
  transitions; every run ends; statuses agree with the human decision.
* Delivery: a pull request for the approved commit only, opened by attempts that looked
  for one and found none; RESOLVED implies that it exists; nothing is sent again after
  completion; a found pull request is recovered.
* Graph: budgets hold over recoveries; a parked artifact is the tested one on the tested
  base; patches rest on verified evidence; a finished run keeps its evidence.
* Gateway: tries are paid for; a call returns what its callers assume.
* Executor without a worker: an active run is served by the task its decision calls for, or
  there is a reason why not; the slot names live tasks; transitions are legal; runs settle.
* Sandbox: what is exported is what was tested, on the base the patch was written for;
  what is left behind has a cause; a test run ends.
* Provider: an error means that the model was heard, or lost, as often as it says.
* Benchmark: an investigation sees requests of its own case, from before the fault and
  under it; faults and servers do not outlive their case without a cause; the benchmark
  ends with an outcome per case.

`PROJECT.json` lists every hazard with the line where it bites and the properties that
would catch it.

## 2. The modules

| Module | What it is |
|---|---|
| `RunStatus` | the statuses, `RUN_TRANSITIONS`, and the outcomes of a workflow and a resume |
| `RunLifecycle` | abstract: what the users of a run see, without workers and leases, with or without the tasks of an API process (`Embedded`) |
| `LeaseQueue` | queue, fencing, workers, executor under a claim, decision |
| `EmbeddedExecutor` | the executor in the API process, without claims |
| `Delivery` | abstract: what an approved run promises about the remote repository |
| `ApprovalDelivery` | attempts that deliver an approval, their client, the remote repository |
| `ToolCalls` | abstract: what a tool call returns and costs |
| `ToolGateway` | the call with its retry loop |
| `ModelProvider` | a structured model call with repair rounds and request retries |
| `AgentGraph` | the investigation of one run over its attempts, with checkpoints and recovery |
| `Sandbox` | the workspace of one run, its patches and tests, and the export |
| `Benchmark` | composition: harness, reference service, MCP session, gateway, provider |
| `MCLeaseQueue`, `MCApprovalDelivery`, `MCAgentGraph` | instances for TLC that need symmetry or a constraint |
| `MCDeployments` | the API in its two deployments, for TLC: `EmbeddedExecutor`, or `LeaseQueue` with two runs |
| `RunLifecycleProofs`, `LeaseQueueProofs`, `EmbeddedExecutorProofs`, `ApprovalDeliveryProofs`, `AgentGraphProofs`, `CallProofs`, `SandboxProofs`, `BenchmarkProofs` | the theorems about each; `CallProofs` has those of `ToolGateway` and `ModelProvider` |

The parts meet at these seams. The row of a run is the same in four modules: `LeaseQueue`
and `EmbeddedExecutor` implement `RunLifecycle`, and the rows of `AgentGraph` (undecided)
and of `ApprovalDelivery` (approved) move along it, so that they agree on what a claim, a
retry, an expiry and a final write do. `ApprovalDelivery` and `AgentGraph` take a fenced
transaction as one step, which `LockedRowKeepsOwner` of `LeaseQueue` justifies.
`ApprovalDelivery` lets the lease of the current attempt run out and come back, which is
what `LeaseQueue` shows a late renewal can do. `AgentGraph` assumes the contract
`ToolCalls!Results`, which `ToolGateway` keeps. `AgentGraph` takes a test run as one
choice and a workspace as its base commit; `Sandbox` has what is inside. `Benchmark`
EXTENDS `ToolGateway` and `ModelProvider` and uses their actions, under a session that
can die and a timeout that cancels them.

### LeaseQueue

The columns of a row are functions of the run: `status`, `worker`, `attempt`, `lease`,
`nextAttempt`, `decision` (the `approvals` row), and `stored`, the attempt whose artifacts
were committed last. `rowLock` is the attempt whose open transaction holds the row lock.
`phase`, `owner` and `beat` describe the task of every claim: where it is, on which worker,
and how old the clock reading of its pending renewal is. Time columns are timers.

Actions are the operations of the code: `AdmitCount`, `AdmitCommit`, `AdmitAbort` (the
transaction of `create_incident_and_run`), `Decide`, `ExpireExhausted`, `Claim`,
`Dispatch`, `Fence` and `FenceFails`, `Progress` (guarded nodes), `PersistArtifacts`,
`MarkStatus`, `Return`, `TimeOut`, `HaltSkips`, `Fail`, `RejectInput`, `Release`, `Retry`,
`RetryTooLate`, `Abandon` (crash or shutdown), `ReadClock` and `Renew` (the two halves of
`renew_lease`), `HeartbeatEnds`, `Tick`.

### EmbeddedExecutor

`phase[r]` has the place of both tasks of a run, `run` and `resume`; `entry[r]` is the one
slot `_tasks[run_id]`, which each task pops when it ends, whoever holds it. `request[r]` is
the request that has committed and must still submit. `seen` is the status `_halt()` has
read and will compare with. A crash empties the process; `Start` is
`recover_non_terminal`, which looks up the decision of a run before it picks the task.
`checkpoint` and `durable` decide whether recovery may continue a `RUNNING` run.
`stranded` is a history variable: runs whose request died, or whose halt could not write.

### ApprovalDelivery

One run that has been approved, with the attempts it has left. Fenced transactions are
single steps; between them the client is at one of its requests. `effect` is the
side-effect row, `holder` the advisory lock, `wire` the requests that are sent and not yet
served, and `branch`, `pullHead`, `pullState`, `moved` the remote repository. Commits are
named by the attempt that made them, all with the approved tree; `Foreign` is any other.
GitHub is the environment: it serves requests at any time and refuses a taken name or a
second open pull request. People merge, with a merge commit or by a squash, close the pull
request unmerged, delete its branch and move main. `late` counts what an attempt sends
after it was superseded.

That is why a run may see two pull requests: an attempt that has found none is superseded
before its POST is served, the next attempt opens one, people deal with it, and the late
POST opens another from the branch. No check of the client could prevent this. What the
client does guarantee is that an attempt opens one only if its last query, which asks for
`state=all`, found none, and then one at most; `Opening` is the set of attempts that are
past that query, `willing` in `Delivery`. A closed pull request counts as found, so that a
recovery records the delivery as done (`github/integration.py:181`).

### AgentGraph

The nodes and edges of `_run_with_langgraph` for one run. `s` is the graph state, reduced
to what routes it or is persisted; `ckpt` the last checkpoint, which `Save` may write at
any node boundary or never (the checkpointer writes in the background); `sandbox` the base
commit of the workspace that lives in the process; `budget` the gateway's counters. A
crash drops all but the tables and the checkpoint. `Claim` takes the row and `Start` starts
the graph: from the checkpoint if the row was `RUNNING`, afresh after `retry_claim` made it
`PENDING`.
`GraphFails` is the `except` of `_execute_graph`; `Requeue` is the `retry_claim` that follows
a failure outside the graph, or a heartbeat that raises and has the execution cancelled
inside any node (`worker.py:130-134`).
Answers of the model and of the tools are choices. Evidence is the set of its distinct
contents, as `valid_evidence` leaves it; a patch is known by its number. `taken` is a
history variable.

### ToolGateway and ModelProvider

One call after the other. Gateway: `Deny`, `Admit`, `Succeed`, `FailTry`, `Retry`; the
handler's outcome is a choice over the categories of `classify_tool_error`. Provider:
`Ask` begins a call, a request is answered, lost or refused (`ReadAnswer`, `LoseRequest`,
`RefuseRequest`), `Resend` follows the backoff, `Repair` begins the next round with the
errors of the last answer. Whether an answer satisfies the schema is a choice.

### Sandbox

The content of a copy is a record: the version of the source tree it was made from, the
commit it is named after, the edits applied, whether tests wrote into it (`junk`), whether
the source moved while it was copied (`moved`). `create_workspace` is three steps, `Copy`,
`ReadHead` and `AfterStatus`, and the source may be edited, committed or pulled between
them. `apply_patch` writes edit by edit and may fail after any. A test run is a client
(`cli`) and a container (`box`) that the daemon creates and starts on its own time; `cli`
and container end, or the time limit stops the client, and then `docker rm` runs, too
early, in time, or not to its end. `setup` has the three settings that change the paths:
the source has Git, the environment is protected, tests run in Docker. `strays`, `dirs`
and `cut` record what is left behind and why.

### Benchmark

`stage` is where the harness is in a case. A request for orders is known by the case it was
sent for and the case whose fault was active when it was served, `late` if its client had
given up. `inflight` has the requests that were given up and are still to be carried out:
for orders, to inject a fault (which clears the registry and begins a new window of the
log whenever it is served) or to reset it. `disturbed` is a history variable: what came
between since the harness last set or reset the fault. `metrics` is the
registry, `log` the tail of the log file that `read_logs` looks at. `session` is the MCP
session with its server process. `ToolSucceeds` and `ToolFails` let the gateway's `Succeed`
and `FailTry` happen with the effect and the error categories an MCP session has;
`RunTimesOut` cancels gateway and provider wherever they are. A restart of the service
loses fault and metrics but not the log file.

## 3. What is checked

| Run | Specification | Bounds | Distinct states |
|---|---|---|---|
| `LeaseQueueOneRun` | `LeaseQueue!Spec` | 1 run, 2 workers, 3 attempts, lease of 2 ticks, heartbeat 1 | 337,460 |
| `Deployments` | `MCDeployments!DeploymentSpec` | without a worker: 1 run, 2 crashes; with one: 2 runs, 1 worker with 1 slot, 2 attempts, queue of 1 | 36,403 |
| `ApprovalDelivery` | `ApprovalDelivery!Spec` | 2 attempts | 265,938 |
| `AgentGraph` | `AgentGraph!Spec` | 4 steps, 5 tool calls, 2 tries, 2 patches, 2 attempts, 2 heads, 4 contents of 2 tools | 2,281,702 |
| `Sandbox` | `Sandbox!FairSpec` | 2 patches of 2 edits, 2 changes of the source tree, 2 crashes | 383,562 |
| `Benchmark` | `Benchmark!FairBenchmarkSpec` | 2 cases, 1 + 2 samples, 2 tries, 3 tool calls, 3 rounds of 3 requests, 4 of 5 log lines, 1 restart | 1,014,599 |
| `LeaseQueueQueuedServed`, `LeaseQueueExpiredLease`, `ApprovalDeliveryStaleBase`, `AgentGraphStepBudget`, `AgentGraphFailedEvidence`, `BenchmarkBaseline` | - | small | a counterexample each |

**LeaseQueueOneRun.** All interleavings of up to three claims of a run. `NoStrandedRun`: a
`RUNNING` row has a worker and a lease, else nothing would ever pick it up.
`LockedRowKeepsOwner`: between a fence and the commit of its write nobody else changes the
row. `ParkedByArtifactWriter`: what a human is shown was stored by the attempt that parked
the run. `DecisionRespected`: statuses agree with the decision. `ArtifactsFenced`: no
superseded attempt commits artifacts. `OnlyTheOwnerEnds`: a row leaves `RUNNING` by a step
of its current task or because its last attempt lost its lease. `ImplementsLifecycle`:
refinement of `RunLifecycle`. Three attempts are the default and the least with a superseded claim, a
current one and an attempt left; two ticks let a renewal be older than zero and younger
than the lease.

**Deployments.** The API reads `embedded_worker_enabled` when it starts and then either
executes the runs it admits itself or leaves them to workers. `MCDeployments` makes this
choice in its initial state and takes the steps of `EmbeddedExecutor` or of `LeaseQueue`.
Nothing reaches the other one, and in its initial state no step of it is fair, so that its
properties hold of it trivially and what the run shows is about the deployment chosen.

*With a worker.* `FreshQueueBounded`: admissions keep the queue bound although they
race. `InvestigationEnds` and `ApprovedRunEnds` under `Fairness`: time passes; some worker
keeps polling, so an eligible row is claimed and an exhausted one expired; an admission
transaction ends; a task does not stay for ever, because `run_timeout_seconds` bounds the
execution and what follows it is a few statements. The fairness of a task is of "a step of
it or its death", so a crash is always allowed. Nothing is assumed of people. Two runs are
what it takes for one admission to overtake another, for the claim order to matter, and
for one run to have to wait until the worker is done with the other.

*Without a worker.* Runs share nothing but the process, so one run with both its tasks is
enough; two crashes make a recovery fail in its turn. `ActiveRunIsServed`: a `PENDING` or
`RUNNING` run has the task its decision calls for, or a request that will create it, or is
stranded for one of the two reasons the code has. `TasksRespectDecision`: an approved run
is not investigated again and an undecided one not delivered, over all restarts.
`TaskTableSound`: what the one slot per run still tells although two tasks share it.
`ImplementsLifecycle`: also when both tasks write, and with halts that compare a status
read earlier. `ActiveRunSettles` under fairness of the tasks (`wait_for` bounds both
workflows), of the request, and of a restart.

**ApprovalDelivery.** `ImplementsDelivery`: a branch that was free, the approved commit,
pull requests only by attempts that had found none, one each, and `RESOLVED` only when one
exists.
`AtMostOneLateRequest`: fencing before every mutating request leaves a superseded attempt
one request. `NoRedelivery`: once the effect is completed no owner is in the client.
`CompletedIsFinal`: an old attempt does not turn `COMPLETED` back. Two attempts are what
the default limit of three leaves after the investigation took one; the theorems are for
any number.

**AgentGraph.** `ToolBudgetHolds`: over all recoveries the tools are called
`max_tool_calls` times at most on the way to any graph state. `ParkedIsApprovable`: the
artifact that a parked run names has its row and a passed test of the same patch on the
same base, whatever was replayed. `PatchNeedsEvidence`: a patch has a verified cause with
three contents from two tools behind it. `PatchesBounded`: patches share one base and their
limit. With these bounds an attempt can be lost in or after any node, both ways to start
again happen, an export is replayed after its artifact was stored, tests fail and pass, the
repository moves once, and a second hypothesis is verified after a rejection. Symmetry is
over contents of one tool, which the module treats alike.

**Sandbox.** `ArtifactIsTested`: the exported artifact is the whole latest patch and nothing
else, on a copy its tests left alone, whose tree is that of its base commit; the
exceptions are a source without Git and a source that moved while it was copied.
`PatchKeepsItsBase`: a recovery that copies again refuses another base.
`ProtectedBaseIsCommit`: with its exception, a source that is no repository at all.
`LitterIsExplained`: a container left behind has a crash, an early or an unfinished
`docker rm` as its cause. `TestRunEnds` under fairness of the time limit and the removal
only: the tests themselves may hang. Two patches of two edits allow a patch half applied
and a second one after a first that failed; two changes of the tree with a commit between
them allow a clean copy that is not the named commit.

**Benchmark.** `ObservationsAreOfTheCase`: what an investigation reads was sent for its own
case and served under its own fault or none, and the metrics do show the fault while it is
the one the harness set. The exceptions are requests the harness gave up after 10 s, which
the service carries out whenever it comes to them (an injection among them changes the
fault), and a restart of the service, which loses the fault. `FaultEndsWithCase`: a fault
that is still active under the next baseline has a case with an error before it, or an
injection that came late. What the investigation should find and does not, the samples from
before the fault, is the counterexample `BenchmarkBaseline`.
`ServersStopped`. `KeepsContract` and
`ModelCallKeepsContract` in the composition. `BenchmarkEnds` under fairness of the
harness's requests, which have timeouts, of `connect` and `disconnect`, and of the timeout
of `execute()`; the graph need not end by itself. The second case is the one that can
suffer from the first; five log lines are fewer than a case writes, so lines are lost.

`LeaseQueueOneRun` checks deadlock (`Tick` is always possible); in the others the run ends,
its attempts are gone or the benchmark is over, and they say `CHECK_DEADLOCK FALSE`.

Every property of these runs has a mutant in `PROJECT.json`: a variant of the code that
breaks it. The variants stand next to what they vary and are named `Variant` in a comment.

### Disagreements between code and documents

| Run | Property | What happens |
|---|---|---|
| `LeaseQueueQueuedServed` | `QueuedRunIsServed` | a run parked by its last attempt and then approved is `PENDING` with no attempt left: no claim takes it and expiry looks at `RUNNING` rows only |
| `LeaseQueueExpiredLease` | `ExpiredLeaseStaysExpired` | `renew_lease` reads the clock, waits for the row lock, and revives a lease that ran out meanwhile |
| `ApprovalDeliveryStaleBase` | `FoundPullIsRecovered` | the base check stands before the use of the pull request that was found, so a recovery after main moved fails the run |
| `AgentGraphStepBudget` | `StepBudgetHolds` | a rejected hypothesis overwrites the result that carries the step count, and a recovery starts to count at zero |
| `AgentGraphFailedEvidence` | `FinishedRunKeepsEvidence` | an exception in the graph puts the initial state in place of the checkpointed one: the run is finished without its evidence |
| `BenchmarkBaseline` | `BeforeAndAfterAreLeft` | the harness samples a baseline so that the agent can compare before and after, but setting the fault clears the registry and `read_logs` begins there: when the investigation starts nothing from before is left |

`ApprovalDeliveryStaleBase` has an action constraint that leaves out `Refused`, so that
the failure it shows comes from the base check and from nothing else.
The safety of the system survives all six: they cost progress, budget, records or what an
investigation has to go by.

## 4. What is proved

Every safety invariant and every safety action property that a passing run checks is a
theorem, for every value of the constants. The assumptions are those the modules name:
finitely many runs, positive limits and times, `NULL` is no worker (`LeaseQueue`); the
number of attempts, of tries, of cases and so on is a natural number, positive where the
code needs it to be.

| Module | Theorems |
|---|---|
| `RunLifecycleProofs` | `StatusesTellDecisions`, `DecisionsAreMadeOnce`, `TransitionsAreLegal`, `TerminalRunsStay`, `DecidedRunsNeverAskAgain` |
| `LeaseQueueProofs` | `Invariance`, `TypeCorrect`, `RunsNotStranded`, `FencedRowsKeepOwner`, `ParkedRunsHaveArtifacts`, `DecisionsAreRespected`, `FreshQueueStaysBounded`, `UndecidedRunsStayClaimable`; `StaleArtifactsAreFenced`, `OnlyOwnersEnd`, `TasksNeverGoBack` (action properties); `QueueImplementsLifecycle` (refinement), and through it `TransitionsAreLegal`, `DecidedAndEndedRunsStay` |
| `EmbeddedExecutorProofs` | `InvHolds`, `TypesHold`, `ActiveRunsAreServed`, `DecisionsAreRespected`, `TaskTableIsSound`, `ResolvedRunsAreDelivered`; `TasksStayTheirOwn`, `CompletedEffectIsFinal` (action properties); `ExecutorImplementsLifecycle` (refinement), and through it `TransitionsAreLegal`, `DecidedAndEndedRunsStay` |
| `ApprovalDeliveryProofs` | `InvHolds`, `TypesHold`, `OneLateRequest`, `NothingIsRedelivered`; `CompletedEffectIsFinal`, `RowsFollowLifecycle` (action properties); `DeliveryIsImplemented` (refinement), and through it `PullRequestsAgree`, `ForeignBranchesAreLeftAlone`, `OnlyThoseWhoFoundNoneOpen`, `OutcomesAreFinal` |
| `AgentGraphProofs` | `InvHolds`, `TypesHold`, `ToolBudgetIsKept`, `ParkedRunsAreApprovable`, `PatchesNeedEvidence`, `PatchesAreBounded`, `NodesAreBounded`; `RowsFollowLifecycle`, `GraphNeverGoesBack` (action properties) |
| `SandboxProofs` | `InvHolds`, `TypesHold`, `ArtifactsAreTested`, `PatchesKeepTheirBase`, `ProtectedBasesAreCommits`, `LitterHasACause` |
| `CallProofs` | `BudgetIsRespected`, `CallsKeepContract`, `ModelCallsKeepContract` |
| `BenchmarkProofs` | `BenchmarkInvHolds`, `BenchmarkTypesHold`, `ContractsHoldInBenchmark`, `ObservationsStayInTheCase`, `FaultsEndWithTheirCase`, `ServersAreStopped`; `HarnessNeverGoesBack` (action property) |

Hardly any of the properties is inductive as it stands. Each component's module has the
invariant that is, named `Inv` (`BenchmarkInv`, `ModelInv`), and the proofs have one lemma
per action that keeps it. TLC has checked each of them before, and also the properties
that are stated by a theorem and by no run. `PROJECT.json` lists the theorems without
those that only state an inductive invariant.

**The life cycle.** What users may rely on is proved once, about `RunLifecycle`: with its
types, `StatusTellsDecision` is inductive, and the action properties follow from how one
step changes one run. `LeaseQueueProofs` and `EmbeddedExecutorProofs` take these theorems
as an instance (`Promise`) and apply them through their refinements. So it is true of the
workers with their leases and of the tasks without any that a run is decided once, about
a change that waits, and that nothing late moves it out of a terminal status.

**The queue.** That a parked run has the artifacts of its attempt depends on where the
task of that attempt is. `Inv` is `TypeOK` with `RowInv` for every row and `TaskInv` for
every claim. `TaskInv` ties the phase of a task to its row as long as no later claim was
made: a task that executes has stored nothing, one that persisted has stored its attempt,
one that returned has left a row that is not `RUNNING`, one that resumes has an approval,
and a row lock belongs to a fenced task of the current claim. An old task is constrained by
nothing but its attempt being smaller, and that is the point: all it can do is fail its
fence. Nearly every action changes one run, so a lemma (`OneRunChanges`) reduces `Inv'` to
that run. The refinement uses `Inv` to show that each concrete write is a step of the life
cycle or a stutter. The queue bound has an invariant of its own (`AdmissionInv`): at most
one transaction has counted the queue, and if there is one there is room for its run.
`UndecidedRunsAreClaimable` is why the first counterexample of section 3 needs an approval:
an undecided run in the queue always has an attempt left. `TasksAdvance` gives the phases
of a task an order that every step respects, and bounds them by the attempts; with the
fairness of tasks this is the reason that claims end. `OnlyTheOwnerEnds` needs `TaskInv`
to know that the task whose step it is belongs to the current attempt.

**The executor without a worker.** `Inv` is a conjunction over runs. Its parts say who may
still decide and what each decision leaves of the run (`DecisionAgrees`), how far the
delivery is in the effect and in the status (`DeliveryAgrees`), and that the status a halt
has read leads legally to its target (`HaltsAreLegal`), which is why its late
compare-and-set is harmless. The refinement maps every write to a step of the life cycle,
and the two halts that a claim could never make, of a queued and of a parked run, to
`HaltQueued` and `HaltParked`. `TasksAreNotReplaced` follows from who may still create a
task: `submit()` itself does not look for one.

**Delivery.** `ReadIsGood` says what an attempt's reading of the remote repository still
guarantees when it uses it: a pull request once seen exists, a verified branch is not
somebody else's, because a name that is taken is never given away. `LateOnce` ties the
late request to an authorization given before the takeover. `AsksOnce` says that an attempt
whose POST pulls is on the wire is past its queries, so that a query that finds none is the
only way into `willing` and the request served the way out. `RemoteAgrees` relates effect
and pull request; it says nothing of the branch, which people delete. `Delivery` carries an
invariant of its own, `PullsAgree`; what it implies about foreign branches, about who may
still open a pull request and about final outcomes is proved of the abstract steps and
holds of the attempts through the refinement. None of it is the environment's doing: GitHub
as modelled opens a pull request from any branch that has none open and something to merge,
somebody else's too.

**The graph.** `StateInv` is what has to be true of the graph state and of the checkpoint,
since a recovery swaps one for the other; `At` adds what is special at each node, and
`ProcessInv` what only the living process knows, above all that the budget in memory
counts no less than the state (`ToolBudgetHolds`). `NodesAt` counts the nodes an
invocation can still run: three tries of a hypothesis, and a reflection, a patch and its
tests for each patch left. It never exceeds `3 * max(max_patch_attempts, 1) + 12`, also
where a checkpoint or a replay puts the graph, and every finished node lowers it
(`GraphNeverGoesBack`; the rounds inside `collect_evidence` are bounded by the step
budget). That is 21 nodes with the default of three patches (`config.py:48`), below the
`recursion_limit` of 50 (`agent/graph.py:969`), which could cut an investigation off only
from `max_patch_attempts = 13` on.

**The sandbox.** `CopyingInv` follows the copy through its three steps; `EnterInv` says
what a node finds between steps and after a crash, `WorkInv` how many edits a copy may
have in the middle of one. The properties follow from what `Export` finds.

**Gateway and provider.** When a try runs, the budget has been charged for it and for all
before it. In a round of the provider, the requests lost in earlier rounds are fewer than
`RetryAttempts` for each.

**The benchmark.** `ServiceInv` says that from the injection on the registry, and the part
of the log behind the last injection, hold requests of the current case only, up to late
ones and what `disturbed` names. The window of `read_logs` never reaches behind that injection if it is
still in the lines looked at; if it was pushed out, all that is left is of the case, since
the log only loses its oldest line. The contracts of gateway and provider are imported
from their own modules (`ContractFollows`). `HarnessAdvances` says that no stage and no
sample is taken twice and that a case ends with one outcome; `BenchmarkEnds` adds the
fairness.

Only model-checked: the liveness properties (`InvestigationEnds`, `ApprovedRunEnds`,
`ActiveRunSettles`, `TestRunEnds`, `BenchmarkEnds`), which need fairness and `ENABLED`, and
the six counterexamples.

## 5. What is not modelled

* SQL guard: a stateless walk over the syntax tree of a parser library.
* The evaluation strategies and `investigation_only`, which end in `INVESTIGATION_COMPLETE`
  inside the graph (as an outcome it is in `LeaseQueue`).
* Contents: prompts, patches, path policy, redaction, JSON. What the model or a tool says
  is a choice; whether a patch parses or applies is one too.
* Tools that read Git, source files and the database: they keep no state. Token totals and
  the fake provider.
* The test file a fault oracle adds, and the Windows variant of `run_process`.
* `hypotheses` and `patch_attempts` rows, the incident's own status, audit records,
  `finished_at`: nothing reads them to decide anything. An attempt that dies between its
  last two transactions leaves the former twice, a rejected run keeps `finished_at` NULL
  (`services/incidents.py:165`), and a crash after `decide()` leaves the incident behind
  its run (`services/incidents.py:202`).
* GitHub beyond branches and pull requests of the run; a push by somebody else to the
  branch between its verification and POST pulls (`github/integration.py:188`); people who
  reopen a closed pull request or restore a deleted branch.
* Configuration, authentication, rendering, observability, migrations, scoring, load and
  chaos scripts.

## 6. Design notes

What the models make visible and no property forbids, because nothing in the repository
promises otherwise:

* Approved and retried runs become `PENDING` without the admission lock
  (`persistence/jobs.py:51`), so `MAX_QUEUED_RUNS` bounds the never claimed runs only.
* If the last attempt dies after the effect is `COMPLETED` and before `RESOLVED` is written
  (`agent/approval_resume.py:146`), expiry hands a delivered run to a human.
* `retry_claim` makes a row `PENDING`, and the next attempt starts the graph and its budget
  afresh (`persistence/jobs.py:197`).
* The parking task's tail (`agent/graph.py:304`) can end a run that was approved
  meanwhile while its delivery goes on (mode without a worker).
* Without a worker a run can become `FAILED` from `PENDING`, and be handed to a human from
  `WAITING_APPROVAL` by the timeout of the task that parked it. `RunLifecycle` has these
  two steps under `Embedded` only; everything else is the same for both modes.
* `max_patch_attempts = 0` still makes one patch (`agent/graph.py:732`).
* `StructuredOutputError` in `executor.py:165-171` cannot come out of the graph, whose own
  handler (`graph.py:326-338`) is earlier.
* In MCP mode every error of the server is a `ValueError` to the gateway
  (`mcp_adapter.py:93-107`), so its retries for connection, rate limit and server errors
  do not apply, and a session whose server died is not opened again.
* The window of 50 log lines may push out faulted samples when an investigation asks often
  for metrics, whose requests are logged too.
* After people have dealt with a pull request, the late POST of a superseded attempt may
  open a second one (section 2).
* `docker run` exiting with 125 counts as tests that failed.
* The rows the harness creates are `PENDING` and could be claimed by a worker that shares
  its database.

## 7. What is left

1. **An abstract test cycle for the sandbox** (edit, test, export or give up) that `Sandbox`
   implements, so that the test run and the workspace `AgentGraph` takes as choices are
   justified by a refinement, as its tool calls are by `ToolCalls`.
2. **Graph and sandbox composed**, with the workspace of `Sandbox` in the place of the
   base commit in `AgentGraph`.
3. **Pure parts.** `valid_evidence`, the decision rules, the path policy and the scoring
   as operators over bounded inputs, each against a reference definition, in one instance.
4. **The approval's reject path and the artifact binding** with a concurrent retry.
