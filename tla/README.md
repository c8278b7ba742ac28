# nonlinear-nn-agent: a TLA+ model of its control

The repository is a harness that lets LLM workers plan, code, run and report
neural-network experiments. The package `src/src/nonlinear_agent` (Python,
asyncio and threads) holds the program; the numerical work is in tools it
calls. This directory models what the harness itself is responsible for: which
worker runs when, what is persisted when, what happens when something fails,
times out, is cancelled or crashes, and what a client or a human is told.

Paths below are relative to the repository root `src/`; `pkg/` stands for
`src/nonlinear_agent/`.

## 1. Inventory

### The system's parts and how they interact

    HTTP client ── server.py ── Fixed Workflow ── runtime.py ── tools.py ── tools
        │  SSE        │                             │  session.py (JSON file)
        │             │                             │  trace.py (JSONL)
        │             │                             └─ control_plane.py (SQLite)
        │             ├── Agent run ── loop.py (async generator) ── llm.py, experiment tools
        │             ├── Comparison ── compare_runner.py ── search/*, domains/*
        │             ├── Multi-agent run ── supervisor_graph.py (LangGraph, a thread)
        │             │                        ├ multi_agent_runtime.py: plan / code /
        │             │                        │ execute / write workers
        │             │                        ├ coding_agent.py, writing_agent.py,
        │             │                        │ plan_gate.py, reporting/*
        │             │                        ├ model_router.py: models and budget
        │             │                        └ approval.py: waits for a human
        └─ cancel, approve / reject ──> the run's cancel event, its approval controller
    CLI, benchmarks ── action_loop.py ── tools.py, memory/* ;  execution_queue.py

| Part (source) | State it keeps | Operations | What is hard |
|---|---|---|---|
| Supervisor graphs (`pkg/supervisor_graph.py`, `pkg/failure_handoff.py`) | the graph state: status, error, round, replans, plan, code, results, report, terminal | one node at a time, then a conditional edge | status strings decide the edges; replans and rounds share nodes; a cancel arrives at any time; LangGraph's own step limit |
| Model router (`pkg/model_router.py`) | usage and budget | `complete`, `budget_exceeded` | overspending inside a worker |
| Control plane (`pkg/control_plane.py`) | SQLite tables of requests, jobs, events | enqueue, claim, complete, fail; record, read | leases and clocks, several threads, processes that die |
| Harness runtime (`pkg/runtime.py`, `pkg/session.py`, `pkg/tools.py`, `pkg/trace.py`, `pkg/run_control.py`) | a session in memory and in a file, a trace | `run` (async generator), save, load | what is saved when; retries; consumers that leave; two runs of one session |
| SSE streams (`pkg/server.py`, `pkg/sse_replay.py`) | an id counter per session in memory | stream, replay after `Last-Event-ID` | two numberings of one sequence; broken connections; restarts |
| Approval (`pkg/approval.py`) | pending reviews | review, decide | decision against timeout |
| Session registries (`pkg/server.py`) | cancel events and approval controllers by session id | start, cancel, disconnect | concurrent runs under one id |
| Multi-agent workers (`pkg/multi_agent_runtime.py`, `pkg/plan_gate.py`, `pkg/planner_validation.py`, `pkg/coding_agent.py`, `pkg/writing_agent.py`, `pkg/reporting`, `pkg/model_plugins`) | a worktree per candidate, published artifacts, outcomes, the call budget | plan, repair, gate, code, execute, publish, report | repair loops in repair loops; policy, projection and anchor in an order; ids shortened, prefixed and suffixed; a failure after publication |
| Planner loop (`pkg/loop.py`, `pkg/llm.py`, `pkg/context_memory.py`, `pkg/reflection.py`, `pkg/benchmark*.py`, `pkg/run_artifacts.py`) | history, quota, run directory, one HTTP connection | run, run_streaming, complete, summarize | two forms of one loop; recoveries; watchdog threads that outlive their request; floating-point corner values |
| Search and comparison (`pkg/compare_runner.py`, `pkg/search`, `pkg/domains`, `pkg/evaluation_*.py`) | rows, each strategy's memory, files by trial name, one fitted model per process | suggest, trial, observe, summarize | overlapping comparisons; exhausted strategies; what counts as a trial |
| Action loop (`pkg/action_loop.py`, `pkg/actions.py`, `pkg/agent_benchmark*.py`) | history, the unresolved failure, the workspace | plan, guard, run a tool, remember | failures must be answered; a tool that timed out goes on |
| Typed memory (`pkg/memory`) | rows by namespace and id, an index | write, query, invalidate, delete, build context | two backends that differ; ids used twice |
| Execution queue and agent (`pkg/execution_queue.py`, `pkg/execution_agent.py`) | completed ids, execution count | run, execute | check, await, act |
| Knowledge, reporting, domains, CLI, dashboards | none, or files | pure computation, rendering, drivers | floating point and text: outside TLC's reach |

`PROJECT.json` lists every component with its sources and status, and, under
`hazards`, each place where this code is hard to test with the properties that
watch it.

### What makes each part correct

* **Supervisors**: the planner is called a bounded number of times; whatever
  order failures, rejections and cancels come in, one terminal record is
  produced; rounds run in order; facts of an earlier failure do not reach a
  later pass; only a completed run has a report, and it rests on the best
  experiment; after a cancel was read no plan, code or search experiment is added;
  a worker that overspends is the last one.
* **Leases**: no two holders; bounded attempts; settled jobs are not handed out;
  a job that is polled is handed out until it is settled or its attempts are used up.
* **Event log**: gapless numbers in commit order; a reader that resumes misses
  nothing.
* **Stream**: ids a client can resume from; a bound on what a break costs.
* **Approval**: silence does not approve; a rejection is not turned into an
  approval; every review returns; a run whose client is gone cannot be approved.
* **Session registries**: a run loses its entries only to another run of its
  session; a cancelled stream stops at the next event; who stays is told all.
* **Workers**: what is trained keeps to the run's policy; what is executed is the
  code that passed for it; a report shows the numbers of the trainings it names.
* **Planner loop**: quotas hold over every nesting of recoveries; the planner is
  told what it is to correct; a best experiment, a hit, a correction and the
  token count are what their names say.
* **Comparison**: equal budgets; a row describes its own candidate, unless somebody
  else wrote where its trial worked; strategies learn from their failures.
* **Action loop, memory, queue**: a failure is answered before the next tool;
  memories are isolated, withdrawn and deleted as asked; a task runs once.
* **Session**: what was shown is saved; what is saved is traced; success is
  complete but for steps a caller left out; every run ends.

## 2. The modules

| Module | Models | Extends / uses |
|---|---|---|
| `RunStatus` | the status vocabulary of both graphs and the terminal record | |
| `Supervisor` | `build_multi_agent_graph`: the single-plan graph | `RunStatus`, instance of `RunLifecycle` |
| `BatchSupervisor` | `_build_batch_multi_agent_graph`: rounds, candidate batches, reviews, final evaluation | `RunStatus` |
| `RunLifecycle` | the abstract run a caller is promised | `RunStatus` |
| `JobLeases` | the jobs table of the control plane | |
| `EventLog` | the events table for one session | |
| `EventStream` | `stream_sse_events`, the id counter and the resuming client | |
| `Approval` | `ApprovalController` in review mode | |
| `RunRegistry` | the server's registries, streams and producer threads for the runs of one session | `Approval` |
| `HarnessRun` | the runs of one session: runtime, retries, session file, trace | |
| `PlanPolicy` | one reply of the planner: policy, capacity projection, anchor, references, plan gate (operators) | |
| `CandidateCode` | one reply of the coding model: paths, normalisation, static gates, what loading and running can end in (operators) | |
| `ReportEvidence` | report source, evidence bundle, narrative checks and fallback, report tool's checks (operators) | |
| `Workers` | the workers of `MultiAgentRuntime` under the batch graph, step by step | the three above, instance of `BatchSupervisor` |
| `FloatMetrics` | what Python's `min` finds among numbers and NaN (operators) | |
| `LLMClient` | `OpenAICompatibleClient.complete` with its watchdog threads | |
| `LoopMetrics` | records, reflection, history compression, benchmark scoring (operators) | |
| `PlannerLoop` | `ExperimentPlannerLoop.run` and `run_streaming` | `LLMClient`, `LoopMetrics` |
| `TrialStatistics` | rows of a comparison and the summary of a method (operators) | |
| `SearchStrategies` | suggest and observe of every strategy (operators) | `TrialStatistics` |
| `CompareRun` | comparisons that run at once, with their trials' tools | `SearchStrategies` |
| `MemoryStore` | the memory port with its two backends, the planner's context | |
| `ActionLoop` | `ActionPlannerLoop.run`, its tools and the benchmark's scoring | `MemoryStore` |
| `ExecutionQueue` | `ExecutionQueue.run` and `ExecutionAgent.execute` | |
| `MC...` | the instances TLC checks | the module they name |
| `...Proofs` | theorems and proofs; `ControlPlaneProofs` those of `JobLeases`, `EventLog`, `EventStream`, `HarnessRun` and `RunRegistry`, `FloatMetricsProofs` lemmas about least positions, `ToolClientsProofs` those of `ActionLoop`, `MemoryStore` and `ExecutionQueue` | the module they name, `TLAPS` |

Compositions. `EventStream` composes the runtime's order of recording and
yielding, the server's numbering and the client's `collect_until`; `HarnessRun`
the runtime, the tool registry's retry loop, the session store and the trace;
`RunRegistry` the handlers, the graph's thread and the approval controller;
`Workers` the planner, the coding agent, the runner, the writer and the graph;
`PlannerLoop` the loop and the model client; `ActionLoop` the loop, the tool
registry's abandoned threads, the workspace and the memory store.
`PROJECT.json` maps each definition to the lines it models.

Conventions. One action is one node, handler or critical section with every
change it makes; what the code does between two suspensions (`yield`, `await`,
lock, node boundary) is one step. A definition marked *Mutant* is a plausible
mistake in the one below it: exchanging the two must break a property, which
shows that the property depends on that piece of code. Nothing else uses them.

### Supervisor and RunLifecycle

`node` is what LangGraph runs next. A node is two actions: `Enter` reads the cancel
event (`EnterCancelled` is the early return when it is set), and the node's own
action (`IdeaPlan`, `Coding`, ...) is its return, followed by its conditional edge
(`AfterIdea`, `AfterGate`, ...). The event may be set at any moment, also between the
two while a worker runs, and nobody looks at it then: a run whose writer was at work
ends as "completed". A worker is its result: it returns something usable, something
unusable, or raises; what it spends is the monotone flag `overBudget`. An execution result
carries a `FailureHandoff` classification, and only the retryable ones lead
back to the planner. `Abort` is LangGraph's recursion limit, an exception
instead of a terminal record; it is external and stands for
`GraphRecursionError`.

`RunLifecycle` says the same without a graph: planning passes below a bound, an
outcome decided once, one publication, or the engine's abandonment where its limit
may be too small. What it promises of a cancel is what the code can keep: a piece of
work that has begun (`busy`) may still decide any outcome, but none is begun after a
cancel, and a run that has no outcome then is decided `cancelled`. `Supervisor`
implements it (`ImplementsLifecycle`) with `busy` the node that was entered,
`outcome` the status once it is terminal, `published` the terminal record's status,
`MaxPasses` one more than the replans.

### BatchSupervisor

The same with rounds and a set of candidates. An experiment is its score or
`Failed`; `records` is what `round_records` accumulates. With `ReviewMode` the
approval gate may reject at each of the four role boundaries; a rejection of a
plan or of code draws on the same replan budget as an invalid plan. The edges
of this graph test two statuses only, so an `error` or `cancelled` may be
routed on to a node; the model follows the code and `Misroutes` counts those
returns to the planner that neither a round nor a budgeted replan pays for.

### JobLeases

`claim_job` is two steps, because it reads the clock before it enters the lock.
`Claimable` is the `WHERE` clause of the `UPDATE`, which SQLite runs
atomically. `complete_job` and `fail_job` are given a job id and overwrite the
status; only a worker that was granted the job calls them, however late. A crash
loses what the worker knew and leaves the row. `FailIfMaxAttempts` may be called or
not: nothing in the package does so.

### EventLog

`record_event` is a `SELECT` and an `INSERT` in the lock of its instance.
`InstanceOf` says through which instance a thread records; the run and the
theorems are about threads that share one (as the server's event loop and
`pkg/stress.py` do). `InsertFails` covers a busy database and a death between
the two statements.

### EventStream

One client and its connections to one session. `transit` holds the messages on
the way and is lost with the connection. Persisted events have sequence numbers
from 0, live ids come from a counter of the process that starts at 1, and the
counter takes over a replayed id only when the generator is resumed. After a
replay the request is executed again from the start, as `stream_sse_events`
does.

### Approval

The thread that waits in `review` is outside the lock between the end of
`signal.wait` and the removal of the record, so the wake-up, the reading of the
decision, the timeout and the removal are separate steps, and `decide` may come
between any two of them. `acked` remembers what callers of `decide` were told.

### RunRegistry

Several runs of one session, each an agent run (a generator the client drives,
`PostAgent` to `AgentEnd`) or a multi-agent run (`PostGraph`, `StartGraph`; its
graph is a thread that puts roles and reviews on the queue, `PutRole`,
`BeginReview`, `PutLast`; the response takes them off, `Deliver`). `cancelOf` and
`ctrlOf` are the entries of `_cancel_events` and `app.state.approval_controllers`
under the session's id: the last run that was posted owns them, and the run that
ends removes whatever is there. A client may `Leave` at any time; the thread goes
on. `CancelRun` and `DecideApproval` reach the run that has the entry. `late` and
`orphans` are history variables.

### HarnessRun

A run moves between two suspensions: `between` steps and inside a `tool`. The
output of a step, its `tool_end` record, the save and the yield are one action
(`ToolSucceeds`) for the other runs of the session, since all run on one event
loop; a crash may nevertheless fall inside it (`CrashRun` keeps or loses the trace
record and keeps the old file or leaves a torn one). Each run has the copy of
the session it loaded. `Retries` and `Retryable` are the call's `retries` and
retry policy. A caller may resume at any step, of a fresh session too
(`ResumePoints`), since the runtime takes `resume_from_step` as it is; the server
always passes 1. `skipped` remembers the steps that a run resumed behind although its
session had not done them (history): a run that leaves some out still ends as
"succeeded", as the runtime's tests have it, and `SucceededIsComplete` and `NoGap`
except exactly these steps.

### Workers, PlanPolicy, CandidateCode, ReportEvidence

`Workers` is `BatchSupervisor` one level down: `g` is the graph's state, `work`
what the worker of the current node has done so far. `idea_plan` is up to
`PlannerRepairs + 1` replies (`PlanRefused`, `PlanAccepted`, `PlanRaises`), each
put through `PlanPolicy`: canonical references, validation, normalisation of the
epochs, projection to the parameter ceiling field by field, the round's mix, and
last the registered anchor in place of the first candidate. `coding` takes the
candidates one after the other; a generated one gets attempts (`CodeAttempt`)
whose replies `CandidateCode` turns into files, written into the candidate's
directory after it was cleared. `Execute` trains, publishes under the child run
id and writes the memory, which may fail afterwards. `FinalEvaluate` trains the
best candidate again under its id with `-final`. `Write` takes two drafts and the
fallback through `ReportEvidence`. A model call is charged to the budget; the
graph looks at it after `idea_plan`.

Ids are `[tags, name, final]`: the prefixes of `_scoped_candidate` and the suffix
of the final evaluation are what tells them apart, and `LongNames` those whose
directory name is cut before the suffix. A package is a function from paths to a few
facts about a file. Metrics are small integers.

`Implements` maps this state to `BatchSupervisor` without a cancel: steps between two
nodes are stutters; `Verdict` is what the gate will say of the stored plan,
`PassedCodes` the candidates for which passed code is found under their id,
`RoundRecords` the numbers of every round, `Evaluated` the place (`Where`) of the
outcome the final evaluation repeats. `NoPlan` differs from every reply that can be
stored, a plan without candidates included.

### PlannerLoop, LLMClient, LoopMetrics

`mode` selects one of the two forms of the loop, which differ in what they do
with an exception of the planner, when they save, and in the reader who may
leave. A round is `StartRound`, the model call, the plan's experiments one by
one (`Execute`, `Reject`, `QuotaReached`), a recovery after a rejection
(`RetryArrives`, `RetryFails`, `ExecuteRetry`), and `EndRound` with its
reflection. `caused` and `prompt` are what the next prompt is built from,
computed by `LoopMetrics` as the compressor and the reflection do, 0 dB and NaN
included. `disk` is the run directory, in which an earlier run of the case left
its result. `LLMClient` has the tries of one call, the connection that all calls
share and the threads the watchdog gave up: `dying` ones had their socket closed,
`leaked` ones did not, because an earlier thread had dropped the connection.
Whether the provider charges for a request that is refused, times out or breaks off
is the provider's matter: `Refused` may add to `billed` or not, and `Answer` may be a
reply without a usage, which counts nothing. `lost` counts both (history).

Of the events a record cites, `caused` keeps the first: the others are failures too
and nothing reads them, since a correction is counted by the first cited event.
`records` is the set of positions the round's records have in the history. What
Python's `min` finds by a key is `First`: the first position if its key is not a
number, else the first of the least numbers.

### CompareRun, SearchStrategies, TrialStatistics

`run[r]` is one comparison: its position (method, trial), the rows of each method so
far and the strategy's memory. `task` counts the methods, and a method's rows are
`rows[task]`. A trial is `Suggest` (guard included), the tools one by one
(`Configure`, `StartTraining`, `EndTraining`, `Verify`, or `Fit` and `Evaluate` of
the synthetic domain), and a row. A *place* is where a trial works: the session
directory named by method, seed and number, or the synthetic domain's one model.
Two comparisons in one place mark each other's rows `shared` (history). A tool that
is given up goes on in its thread: a training or fit whose client left, or a fit that
exceeded its time (`FitTimesOut`, a failed trial). `late` are these threads, and
`LateEnd` is the write of one, during a later trial of the same comparison or of
another one. `OtherFit` is a run that is no comparison and fits a synthetic model in
the same process. Both mark the trials at work there. A strategy's sampling is a choice; Optuna's
sampler is external (any accepted candidate), what it is told is not.
`_execute_trial` takes its constraints, the threshold included, from the domain
and ignores the protocol's `nmse_threshold_db`.

### MemoryStore and ActionLoop

`rows` and `index` are the tables of the backend chosen by `backend`. An id is
the session and the number of the action, so a session that runs again writes its
ids again. `withdrawn` and `erased` remember what was asked (history). Runs of
the loop come one after the other: the command line, the only caller with a
store that persists, uses the fixed session id `action-cli`. A
run plans with a context from the store, proposes an action that the guard
rejects or lets through, runs its tool and writes the memory. A tool that times
out leaves a thread in `abandoned` which may write its files at any later time
(`ThreadWrites`). `Operator` invalidates or deletes through the port; nothing in
the package does so.

### ExecutionQueue

`job[<<c, i>>]` is task `i` of call `c`: looked up in `completed` when it starts,
waiting in `line[c]`, running, ended. A call makes its own semaphore. An exception
(an unregistered tool, the limit) ends the call while its other tasks go on, and
the caller may run the queue again. `count` is incremented after the tool ended.

## 3. The runs

Most runs end within seconds, `Batch` within half a minute, `Server`, `Workers`,
`Planner`, `Search` and `Actions` within two to three minutes with two TLC workers. The properties of a
run are conjunctions of named parts; the table gives the parts.

| Run | Instance | Property: its parts |
|---|---|---|
| `Batch` | 2 candidates (symmetric), 2 scores, 2 rounds, 1 replan, reviews, final evaluation, limit 18 | `Accounted`: `ReplanBudget`, `StepsPaidFor`, `AbortExplained`; `RoundLedger`; `FactsFresh`; `PublicationSound`: `ReportIffCompleted`, `FinalIsBest`; `CancelStopsSearch` |
| `BatchCancel` | 1 candidate, 2 rounds | refutes `CancelledIsTerminal` |
| `Supervisor` | 5 replans, limit 25 | `Accounted`: `PassesBudgeted`, `AbortExplained`; `WorkersStartSound`: `BudgetIsFinal`, `HandoffSound`; `ImplementsLifecycle` (with liveness) |
| `Leases` | 2 workers, 1 job, lease 2, 3 attempts | `LeasesSound`: `LeaseExclusive`, `AttemptsBounded`; `SettledSound`: `NeverReclaimed`, `OverwriteExplained`; `PolledIsHandedOut` |
| `EventLog` | 3 threads, 1 instance, 9 events | `LogSound`: `GaplessLog`; `ResumeComplete` |
| `Stream` | 3 events, 3 executions, 2 restarts | `IdsSound`: `IdsIncrease`, `LastIdPersisted`; `AtMostOneLostPerConnection` |
| `Harness` | 2 runs, 3 steps, 1 retry, timeouts retried | `ClaimsSound`: `SavedIsTraced`, `SucceededIsComplete`; `NothingLost`: `DeliveredIsSaved`, `NoGap`; `HarnessRunsEnd` |
| `Server` | 2 runs of one session, 1 review, 1 role, 2 loop events | `ReviewsSound`: `ApprovalIsHuman`, `RejectionStands`, `OnlyCurrentPending`, `OrphansRejected`; `StreamsSound`: `ClosedIsTold`, `CancelIsPrompt`, `LeakExplained`; `LosesEntryToAnother`; `AllEnd`: `RunsEnd`, `ReviewsReturn` |
| `Workers` | 2 candidates, 2 rounds, 1 replan, 1 repair each, budget 3, limit 11 | `PolicyHolds`: `EpochsExplained`, `MixExplained`, `BudgetHolds`, `OverspendBounded`; `CodeIsGated`: `RunsGatedCode`, `TreeIsPackage`; `ReportSound`: `ReportIsTrue`, `DisputedNotPublished`, `FallbackSuffices`; `Implements`; `RunEnds` |
| `Planner` | 2 rounds, 2 experiments, 2 planner retries, 1 client retry, 2 hung or lost requests | `SpendingExplained`: `QuotaHolds`, `TokensExplained`, `HungSocketsClosed`; `PromptsTell`: `LastRoundShown`, `RejectionShown`; `ResultExplained`: `BestExplained`, `HitExplained`, `CorrectionsExplained`, `DiskExplained`; `LoopEnds` |
| `Search` | 2 comparisons at once, 4 pairs of protocols, 2 model types, 2 grid values, 1 tool given up at a time | `TrialsFair`: `BudgetIsFair`, `RunIdsExplained`, `MetricIsOwn`; `SummaryExplained`: `BestExplained`, `RatesExplained`, `TokensExplained`; `StrategiesLearn`: `FailedTypesAvoided`, `RepeatsExplained`, `ToldExplained`; `ComparisonsEnd` |
| `Actions` | 3 runs of the loop with either backend, or 2 calls of the queue | `HistoryTrue`: `FailureAnswered`, `OwedOnce`, `VerifyExplained`, `RecoveryExplained`, `PassExplained`; `MemoryKept`: `DeletedGone`, `EpisodeKept`; `ContextSound`: `ContextValid`, `ContextIsolated`, `CrowdingExplained`; `QueueSound`: `RunsOnceExplained`, `ResumedIsDone`, `OvershootExplained`; `AllEnd` |

The type invariant of each module is a part of one of its properties. A part
called *...Explained* states what the code promises together with every exception
it makes, so that it holds of the code and breaks if an exception is added.

### The bounds and why they are enough

* `Batch`: two rounds are the least with a next round and a last one that can be
  repeated after a rejected report; two candidates and two scores the least
  with a best one and a tie; one replan the least that can be used up and then
  overdrawn. The limit of 18 cuts long runs short, so that `AbortExplained` is
  not vacuous, and leaves room for two rounds (4 + 7) with a replan (6).
* `Supervisor`: a replan costs four supersteps, so five replans need 26 and the
  default limit of 25 is reached by one superstep: both ends are seen.
* `Leases`: two workers and a lease of 2 let a claim decide on a clock reading
  that is older than the lease; three attempts allow a slow worker, its
  successor and a crash. Jobs do not interact, so one is enough.
  `Tick` stops when no lease of a queued job is running: time matters to nothing
  else.
* `EventLog`: three threads; `MaxEvents` bounds only the length of the log.
* `Stream`: three executions with breaks in each give two reconnections, the
  second with a replay that crosses an execution boundary; two restarts reset
  the counter before and after a replay. `MaxRuns` and `MaxRestarts` are guards
  of `StartExecution` and `Restart`.
* `Server`: a second run of the session is what can replace and remove the
  entries of the first; each may be of either kind. One review of the first run
  waits while everything else happens; two loop events (`Roles`) let a cancel
  arrive between them. `Roles` bounds the events of a run.
* `Workers`: two candidates are the least that can collide, share a directory or
  break the mix; the second round is high-fidelity, the first is not. The plans
  and packages of `MCWorkers` break each rule of the policy and each gate once.
  The budget of 3 calls is overspent within a pass, and the limit of 11
  supersteps leaves two rounds (4 + 7) and cuts replanned runs short.
* `Planner`: two rounds for what a prompt says of the round before, two
  experiments so that the quota can be used up by a recovery, one experiment in
  the window of the compressor so that a rejection can leave it. The metrics are
  below and above the target, 0 dB and NaN. `MaxLosses` bounds the requests that
  hang or are charged for and lost, and `LongestPlan` the experiments of one plan.
* `Search`: the pairs of protocols put each strategy beside another one; a budget
  of 2 lets the second trial learn from the first, and meet the fit of the first one
  that was given up. `MaxLate` bounds the tools given up that still run; with one, a
  thread already writes into the next trial and into the other comparison's. Other
  runs (`OtherModels`) fit one candidate, and only between a fit and its evaluation,
  where alone their model is read by somebody else. `Lowest` and `Highest` are the ends
  of the grid, between which the real model may propose anything. `AttemptFactor` is 2 instead
  of the code's 5: it bounds the rejected proposals only. Scores include a crash,
  a diverged model and a candidate whose specification cannot be built.
* `Actions`: three runs let an id be written in two namespaces and then again;
  three actions a failure, a rejected answer and an answer. Three old rows, two
  of them withdrawn, can crowd a context of one (`Window` * `TopK` is 3). The
  queue has two permits and a limit of two, so that two tasks can pass the check
  together; its second call overlaps with the first one's remaining tasks.
* `Harness`: two runs overlap, or the second resumes after the first was cut
  short, or leaves steps out; with three steps it can resume at the first, in the
  middle, at the last and behind it.

Deadlock checking is off where the modelled system stops: a run is over, all
reviews have returned, all jobs are settled, or the bound on events is reached.
`Workers`, `Planner`, `Search` and `Actions` have a `Finished` step instead and
are checked for deadlock.

### What the runs disagree with

`BatchCancel` refutes a sentence of the documentation (`findings` in
`PROJECT.json` quotes the lines): the execution node of the batch graph records a
cancel, but its edge leads to the final evaluation, which does not look at the
status: the run is published as completed, with the error "cancelled by user".

Other places where the program does less than its documentation says are pinned
down by a property that allows exactly this and nothing more:

* `BatchSupervisor!AbortExplained`: a writing worker that fails sends the run back
  to the planner without charging the replan budget, until LangGraph gives up
  and no terminal state is produced (`README.md:26`: replanning has a budget and
  one terminal state).
* `OverwriteExplained`: `complete_job` and `fail_job` test nothing, so a worker
  whose lease ran out overwrites the end another one reported (`README.md:30`: a
  unique terminal state).
* `AtMostOneLostPerConnection`: live ids start at 1, sequence numbers at 0;
  replaying after id n leaves out the event with sequence number n, which the
  client has not seen (`pkg/server.py:274`: no event is lost).
* `DeliveredIsSaved` is stated for a file that is not torn: the session file is
  overwritten in place, and a crash in that moment leaves a file no later run can
  load (`pkg/session.py:6`: it can be restored at any time).
* `DiskExplained`: `run` lets an exception of the planner out and saves nothing,
  where `run_streaming`, documented as the same loop, saves a result
  (`pkg/loop.py:373`).

### Fairness

* `Supervisor`: weak fairness of `Step`, the entry or the return of a node.
  LangGraph calls the next node when the previous one has returned, and every worker
  returns or raises (its model calls and tools have timeouts). No fairness of the
  cancel.
* `JobLeases`: time passes, and nothing is assumed of the workers: they may stop
  polling, crash with every lease, never report. `PolledIsHandedOut` has the polling
  as its premise instead: a job that claims are made for again and again is settled,
  or handed out until its attempts are used up. That such a spent job is ever settled
  is not claimed: only `fail_job_if_max_attempts` would do it, which nothing calls.
* `RunRegistry`: weak fairness of each run's graph thread and of each stream: the
  event loop and the thread run, and a review's wait has a finite timeout. No
  fairness of requests: nobody has to post, decide, cancel or stay.
* `HarnessRun`: weak fairness of each run's steps: the event loop resumes a run
  whose consumer asks for more, and every attempt is ended by `wait_for`. The
  outcome of an attempt is not assumed fair: a tool may fail for ever.
* `Workers`, `PlannerLoop`, `CompareRun`, `ActionLoop` and `ExecutionQueue` need
  none: `RunEnds`, `LoopEnds`, `ComparisonsEnd` and the two parts of `AllEnd` say
  that every step uses up some of a bounded measure. With the check for deadlock
  this is termination under any scheduling, and it fails as soon as a loop in the
  code is not counted.

`BatchSupervisor`, `EventLog` and `EventStream` are checked for safety only.

## 4. What is proved

TLAPS checks the following for every value of the constants that satisfies the
module's named assumption (`SupervisorAssumption`, `BatchAssumption`,
`LeaseAssumption`, `EventLogAssumption`, `EventStreamAssumption`,
`HarnessAssumption`, `ApprovalAssumption`, `RegistryAssumption`, `QueueAssumption`,
`MemoryAssumption`, `LoopAssumption` of either loop, `ClientAssumption`,
`MetricsAssumption`, `StrategyAssumption`, `CompareAssumption`, `WorkersAssumption`
and those of the three modules `Workers` extends: ranges and shapes of the
parameters, nothing about behaviour). TLC evaluates the assumptions in the runs.
The properties of the runs that are conjunctions are proved part by part; the
last theorems of a module (`RunsAreAccountedFor`, `PublicationIsSound`,
`WorkersStartSoundly`, `LeasesAreSound`, `SettledIsSound`, `SharedLogIsSound`,
`IdsAreSound`, `ClaimsAreSound`, `NothingIsLost`, `ReviewsAreSound`,
`StreamsAreSound`, `ReportsSound`, `GatedCodeRuns`, `PolicyKept`, `QueueIsSound`,
`HistoriesTrue`, `MemoriesKept`, `ContextsSound`, `SpendingIsExplained`,
`ResultIsExplained`, `TrialsAlwaysFair`, `SummaryAlwaysExplained`,
`StrategiesAlwaysLearn`) put the parts together.

**SupervisorProofs.** `StatusAtNode` says which statuses are possible at which
node; everything else rests on it, since the edges test the status. `Established`
adds what the earlier nodes have produced. From these: `PassesAreBudgeted`,
`AbortsAreExplained` (each replan costs four supersteps, and a pass at most six),
`OverspendingStops`, `HandoffsAreSound`, and `ImplementsSafety`: `StepRefines`
shows case by case that a node's entry begins a piece of work of `RunLifecycle` or
stops the run, and its return ends that work, whatever was cancelled in between. The run
checks the same refinement with its liveness part.

**BatchSupervisorProofs.** `ReplansAreBudgeted` and `RoundsInOrder` are inductive
with the types; `RunsAreShort` carries the potential
`4 * (roundIndex - 1) + Offset[node] + 6 * (replanCount + Misroutes)` through each
node, and `AbortsAreExplained` reads the abort off it. `FactsAreFresh` needs
nothing more. `ReportsOnlyCompleted` rests on `ReportAtNode` (where a report may
exist), `FinalIsBestOfAll` on `FinalKept` (from the final evaluation on, `final`
is a best experiment of records that no longer change). `CancelStops` is an
action property, proved from the actions.

**ControlPlaneProofs, leases.** `LeaseInv`: a claim's clock value is not ahead of time; a
lease that a worker still believes in is the row's lease with that worker as
owner. Hence a claim that finds the lease expired at its *old* clock value finds
it expired now, and `LeasesExclude` follows. `AttemptsAreBounded` and
`SettledStays` need the `WHERE` clause only. `OverwritesAreExplained` rests on
`GrantInv`: a job that was handed out once has one holder at most, and none after
that one has reported.

**ControlPlaneProofs, event log.** `LogInv`: a selected number is the length of the log as long
as its thread holds the lock. The theorems assume `Shared`, that all threads
record through one instance; without it they are false.

**ControlPlaneProofs, session file.** Three invariants, one on top of the other. `TracedInv`: the
file *and every run's memory* claim only traced steps, so whatever is saved is
traced; it holds for overlapping runs. `SuccessInv`: what a run has left behind
(`Behind`: resumed past, or executed) its session has completed or it is `skipped`, so
a run with nothing remaining has completed all steps but those. `AloneInv`, with `TornInv`: while runs do not
overlap there is one active run, whose memory agrees with the file; hence
`DeliveredStays` and `CompletedIsPrefix`.

**ControlPlaneProofs, event stream.** `StreamInv`: what is in transit and then what is still to
be replayed are, in order, the log behind `Read`, the last event the client has
read; no id is ahead of its event's place in the log (`Window`), the last id is
not ahead of `Read` (`Stages`), and until a restart the counter is the length of
the log (`Counters`). `IdsAreSound` is read off it. For `AtMostOneIsLost`,
`NothingLostOnTheWay` shows that only the end of a connection loses events, and
`CloseLosesOne` that it loses none but the event behind `Read`; this needs that
no event is in the log twice (`Distinct`). The cardinality follows by
`FS_AddElement` and `FS_Subset`.

**ControlPlaneProofs, registries.** `KindInv`, with the types: a run is posted once, as one
kind. `EntryInv`: no registry entry is that of a stream that has ended.
`ReviewInv`: what a review's phase says about its record, and that the reviews of
a run follow one another; `OrphanInv`: nobody has decided a review that began
after its client had gone, because its controller can no longer be reached.
Hence `ReviewsAreSound`. `ToldInv` follows a graph's events from the queue into
the stream, up to the sentinel; with `EntryInv` it gives `StreamsAreSound`.
`EntriesAreLostToAnother` is an action property, proved from the actions.

**WorkersProofs.** `ShapeHolds` gives every node the shape of the graph's state and
of the worker's own (`GraphOK`, `WorkOK`: how far the repairs, the candidates and
the results are). `WorkersEnd` reads off them that the measure of `RunEnds` falls
with every step. `PolicyKept` is about epochs, a round's mix, the parameter ceiling
and overspending, with the anchor and epochs that are no integer excepted, and says
nothing of references; it needs three more invariants: `SpentOK` (calls beyond
the budget where the graph has just looked at it, plus what a worker may add before
it looks again), `PlanOK` (the plan being executed is one reply the policy took, as
it was delivered) and `OutcomesOK` (the fields of an outcome). That the capacity
projection keeps the ceiling is an argument about the order of its cuts
(`ShrinkTight`). `GatedCodeRuns` is `CodesOK`: results of code stand in the
candidates' order, and one that passed and was generated holds one package of the
planned model. `ReportsSound` is about the numbers a report shows, not about which
candidate it calls the best (which one is evaluated finally is `FinalIsBest`'s
matter); it adds `ClosedOK` (only the end says that a run is
complete, and then nothing is in dispute), `FinalOK` (where an outcome of the final
evaluation comes from, and when a pass may repeat it) and `EvidenceOK`: each
published number belongs to an outcome that is recorded, in the worker's hands or
the final evaluation's, or was replaced by a repeated pass. The last case was found
by this proof: `ReportIsTrue` did not name it before. What the code selects as a
first or best entry is taken as a least element (`LeastExists`, `LeastEntry`), so no
induction over sequences is needed.

`WorkersImplement` is the refinement. `StepImplements` has one case per node: each
`...Implements` lemma shows that the node's return is one the graph allows
(`RejectionTurns`, `ReplanTurns`, `ReturnTurns` for the counters, which all nodes
share), and `WorkStutters` that the steps inside a node are invisible. Two cases need
more than the actions: a round's record (`RoundRecorded`: an outcome with a number
had code that passed, `NumbersOK`, found under an id that stands at the candidate's
own place, `CodesOK`), and the final evaluation (`ValidIs`: the outcomes with a
number are exactly the numbers in the records, `PlaceIs` and `WhereIs` being inverse
to each other; `BestIs`). The proof showed that the mapping was wrong for a plan
without candidates, which no instance of the runs accepts: it was mapped to "no
plan", although the gate answers it. `WorkersKeepPromises` then carries the theorems
of `BatchSupervisorProofs` over to the workers: `G` is that module under the same
mapping, its assumption follows from the workers' (`GraphAssumed`), and what it says
of rounds, replans, length and report holds of what the workers do.

**ToolClientsProofs, queue.** `QueueIsSound` rests on four invariants: types;
`LinesOK`, a job waits in the line of its own call and once; `CallsOK`, a call that
was followed by another is over and has no more running jobs than permits; `DoneOK`,
what was completed is known, and who passed the check knew of no success of its
task unless an exception let a call end. Permits of overlapping calls are added up
over the calls that raised (`OverBounded`, by a least counterexample).
`QueueCallsEnd`: the jobs' remaining steps are a finite set of pairs that loses one
with every step (`StepsFall`); that the head of a line is a job that still waits
needs `LinesOK`.

**ToolClientsProofs, action loop.** One inductive invariant, `LoopInv`, in three
layers. `HistoryInv`: runs come one after another (`OrderOK`), and of each run, as
statements about its values (`StageAt`, `RecordsAt`, `DebtAt`, `AnsweredAt`,
`OwedAt`), that records come from one planner call each and in order, that the debt
is the last failure no tool has followed, and that an action which runs has paid it.
`TrainingInv`: the files hold the last training or a late one (`DiskOK`), and so
does what was verified (`VerifyOK`). `MemoryInv`: one row for an id, in the home of
its run (`RowsOK`, `OriginOK`), of actions that are over (`PastOK`, so nothing is
withdrawn or erased before it is written), with `WithdrawnOK`, `DeletedGone` and
`EpisodeKept`. `HistoriesTrue` and `MemoriesKept` are read off it; that a passed
case recovered from a failure it had seen is the first success after the fault
(`FirstSuccess`). `ContextsSound` are action properties: only `Plan` gives a
context, and `Crowding` counts the rows of the window. `LoopRunsEnd` is the measure
argument of the queue for the runs, where a tool that is given up costs one of the
two steps its run comes nearer to its end, and the thread's end the other.

**PlannerLoopProofs.** One inductive invariant, `LoopInv`. `HistoryInv` is about the
history (`HistoryOK`): only a tool chain leaves a metric (`RecordOK`); experiments
come in the order of their rounds; a record cites a failure that came before it, of
an earlier round if there is one (`CitesFirst`); a reflection names all failures of
its round and calls best what `BestExplained` says (`ReflectionOK`). That
`records` are the experiments of the round that is on, and that a reflection closes
its round, keeps a finished round as it was reflected on (`ExperimentJoins`,
`QuietJoins`, `ReflectionJoins`: what an experiment, a recovery's rejections and a
reflection change in a history). `QuotaInv`: as many are executed as the history
counts, and a recovery has room for one. `ClientInv`: each open socket and each
uncounted reply has its cause. `DiskInv` is `DiskExplained` with the round that is
on. `AnswerInv` and `PromptsTell` itself complete it; `VisibleIs` says what a
prompt shows of a history. `SpendingIsExplained`, `PromptsTellAll` and
`ResultIsExplained` are read off `LoopInv`: the best of a history by `FirstIs` (what
Python's `min` finds, from `LeastKey`, by a least counterexample again), the hit by
`ToolChainTells`, the corrections by `FailureIs` (the last failure of the event a
record cites comes before the record, whenever it is of an earlier round).
`LoopComesToEnd` is an arithmetic argument about `Left`: the round that begins pays
for its plan call and the longest plan, an experiment for a recovery with all its
calls.

**CompareRunProofs.** One inductive invariant, `CompareInv`. `RunOK` is about one
comparison. Each method's rows are a history of trials (`HistoryOK`): a row's metric
and hash are its candidate's unless its place was shared, the id of an executed
trial is the number of rows before it, and each candidate may follow the rows before
it in the way it was proposed (`MayFollow`). The methods before the current one are
over (`Fair`), those after it have no rows, and the counters are the numbers of rows
and of trials (`CountsOK`). What makes the rows inductive is the memory of the
strategy that proposes the next one (`MemoryOK`): a sampling strategy remembers what
it proposed (`Knows`), one with reflection the types that failed (`Learned`), the
study what it was told (`StudyOK`), the client the tokens of its calls (`BillOK`).
While a trial is under way the memory is one candidate ahead of the rows
(`UnderWay`). `TrialOK` ties that trial to its place: the configuration and the model
that stand there are those of its candidate, unless it knows that it shares the
place, and `Overlap` says that of two trials that work in one place both know.
`CompareSteps` takes each action through the three, and `IntrudeKeeps` the writes of tools given up and of other
runs, of which `LateOK` says that they concern a place of some trial and a model that
could be fitted: a trial at work there is marked. The theorems are
read off `CompareInv`; the best value by `FirstIs`, as in the planner loop.
`EveryComparisonEnds` needs `CountsOK` and `Fair` to know that a method that ends and
a trial that begins lower `Left`: attempts left over all methods weigh 8, the method
8 more, and `Weight` is what the trial under way has left; what is written elsewhere
changes nobody's (`ElsewhereStays`).

Only model-checked: all liveness (`PolledIsHandedOut`, `AllEnd` of the server,
`HarnessRunsEnd`, the liveness part of `ImplementsLifecycle`), which is outside the
prover's reach, like `ENABLED`.

## 5. Abstractions a reader should know

* Texts (plans, code, facts, reports, reasons) are tags for what the control
  tells apart. The text of `error` is the tag of who set it.
* Scores are integers; `_select_best_outcome` compares them only.
* Model usage is the flag `overBudget`, which a worker may raise and nothing
  lowers.
* A tool is its outcomes: success, timeout, another error. Metrics are small
  integers with 0 dB, NaN and a missing value where the code tells them apart.
* A file is what the gates look at; a path is a sequence of names; an id is its
  name with the prefixes and suffixes that are put on it.
* Sampling (random search, Optuna, a language model) is a choice. Optuna, the
  HTTP server, LangGraph and `asyncio` are external: modelled from how the code
  uses them.
* SQLite statements are atomic; a crash between two statements is modelled. So is
  an operation of a memory backend.
* The session id is fixed where sessions share nothing but the database file. The
  command line's LangGraph store lives in memory, so only the persistent backend
  can hold rows of an earlier process; `OldRows` gives them to both. The operator's
  steps are unbounded in `ActionLoop`; `MCActionLoop` ends them (`OperatorActs`) when
  a memory of the runs was withdrawn or deleted, since old rows alone go on for ever.
* The fault fixture of the action benchmark and its fixture tool may both inject a
  fault; the model has the fixture's record in the initial history and tools that
  may fail at any time.

## 6. Not modelled, and why

* `register_request`: one `INSERT OR IGNORE`; nothing calls it or reads its table.
* Knowledge retrieval: scores in floating point over an index that is built once.
* Statistics beyond best, hits and rates (bootstrap intervals, paired deltas),
  training, metrics: floating-point arithmetic without control state.
* Report rendering (figures, HTML, PDF), dashboards, web UI, command line: layout
  and argument parsing.
* The stress driver: it measures what `JobLeases` and `EventLog` state; apart from
  it and the tests nothing uses the jobs table.
* MCP bridge: one request, one answer, no state.
* `supervisor.py`, `single_agent_adapter.py`: the earlier sequential supervisor;
  nothing in the package constructs it. `build_supervisor_graph`
  (`pkg/supervisor_graph.py:81`): a graph of one node, which calls a model once and
  validates its plan; only the tests build it.
* Streaming replies and the SDK variant of the model client; the `kind` filter and
  `list_namespaces` of the memory port; metrics and artifacts in the records of the
  action loop.
* How long a step takes: `planner.plan` is synchronous inside an async generator
  and keeps the event loop from all other streams meanwhile.

## 7. Plan

Every invariant and action property of the runs is proved, and of the refinements
all but the liveness part of `ImplementsLifecycle`; the model checker keeps liveness
(section 4).

What would be worth modelling next: the subprocess protocol of the candidate
runner, streaming replies of the model client, and the approval gate inside
`Workers` (its reviews are in `BatchSupervisor` and `RunRegistry` only).
