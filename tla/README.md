# Verification of dsh-task-dispatcher

TLA+ models of the task dispatcher, the TLC runs that check them on small
instances, and TLAPS proofs of what holds for every instance.  The code is
JavaScript; paths below are relative to the repository.

Contents: 1 the system, 2 the modules and how they follow the code, 3 the runs,
4 the proofs, 5 where code and documentation disagree, 6 what is not
modelled, 7 the plan.

## 1. The system

A client submits a task to a **lane** (a policy).  A coordinator validates it and
runs it as a **pipeline**: one worker and one verifier in a loop (legacy), a
planner with an ordered list of steps (adaptive), or a tree of delegated subtasks
(orchestrated).  Coordinator and pipeline live in one process, or coordinators
enqueue into a PostgreSQL table and workers in other processes claim from it.

| Component | Source | State it keeps | Operations | Talks to |
|---|---|---|---|---|
| Durable task store | `distributed-store.js` | the rows of `dsh_dispatcher_tasks`: state, owner, generation, claim count, lease, deadline, cancellation, outcome, completion identity | enqueue, claim, heartbeat, complete, cancel, get, listBySession; a second implementation keeps the rows in memory | called by workers and coordinators; its clock is the database's |
| Distributed worker | `distributed-worker.js` | per claim loop: the record of the task it runs, guards, the heartbeat in flight | claim loop, heartbeat loop, lease and deadline guards, execute, completeWithRetry, dispose | requests to the store; the pipeline through `execute` |
| Grant ledger | `orchestration.js` | per root task: tree of grants and reservations, budgets, slots in use, admission queue, permits | createRootGrant, reserve, refund, start/resume (and waiting forms), suspend, consumeModelRuns, settle, revoke, cancelTask | called by every pipeline of the tree; wakes waiters by promise |
| Orchestrated pipeline | `dispatcher.js` 2151–2806 | per node: plan, running children, credits per wave, abort signal, whether it holds a slot | plan, start ready children, join, replan, verify, drain, finish | ledger, child pipelines, model runs |
| Subtask proposals, plan patches | `orchestration.js`, `dispatcher.js` | none | validation, patch application | pipeline |
| Ready scheduler | `ready-scheduler.js` | none | rank ready nodes under quotas | pipeline |
| Adaptive and legacy pipelines | `dispatcher.js` 1350–1752, 1184–1293 | plan, cursor, run budget | plan, review, execute, verify, replan, final verify, remediate | model runs |
| Child runner | `dispatcher-child-runner.js` | one model child: started, published, disposed, timed out | start, wait, abort, dispose with a bound, quarantine | agent host |
| Process coordinator | `dispatcher.js` 3773–3961 | jobs, workspace locks, circuit breaker | execute, control, run, shut down | pipelines, job host |
| Distributed coordinator | `dispatcher.js` 3468–3770 | store handle and the attempt to open it, worker and its fiber, monitors | initialise with back-off, install the worker, enqueue, status, cancel, monitor, dispose | store, worker, host services, telemetry |
| Configuration proposals | `config-proposals.js` | proposals and their states, overlays, flights, audit | stage, approve, apply once, roll back once, expire | audit sink, configuration host |
| Workspace isolation | `workspace-isolation.js` | path leases, candidate transactions | acquire, release, plan Git commands | pipelines |
| Telemetry | `dispatcher-telemetry.js` | the tasks of every session with their ends and order, a revision per session, listeners, watches | start, change and finish a task; prune; snapshot; watch | pipelines and coordinators report to it; the browser's snapshot and watch calls |
| Browser: dashboard | `src/client/source.ts`, `TaskDispatcherAction.tsx` | per session: the last snapshot, the call under way | subscribe, snapshot, watch, retry, evict; derive roots and plan progress | telemetry RPC |
| Browser: settings | `src/client/config-controller.ts`, `TaskDispatcherSettingsTab.tsx` | snapshot, draft, loads and saves under way | load, edit, discard, reset, save, reload after a reconnect | settings RPC |
| Policy | `dispatcher-policy.js` | the stored settings and their revision | validate, snapshot, save | settings host |
| Macro planning, contracts, tools | `macro-planning.js`, `dispatcher-contracts.js`, `dispatcher-tools.js` | none | normalise, validate, register | everything, for formats |

What is hard, and what makes each part correct:

* **Store.** Statements of many processes commit in any order; each reads
  `clock_timestamp()` when it begins and may wait for a row lock before it commits;
  requests are retried after lost replies.  Correct: only the newest generation
  publishes, an accepted cancellation decides the outcome, no sequence of
  statements produces a row the schema's CHECKs refuse or that the two store
  implementations would settle differently.
* **Worker.** Its clock is local, its requests are delayed, lost or executed
  after it gave up on them, its guards are timers, it may stop at any point.
  Correct: an execution is aborted before the store may grant its task to another,
  an acknowledged completion is durable, an enqueued task ends.
* **Ledger.** Callers of one tree interleave at every `await`; a woken waiter
  continues in a later turn of the event loop, by which time the slot's promise, its
  signal, its parent or the whole task may have changed.  Correct: budgets are
  conserved, authority ends downwards, nothing settles above live work, a promise of
  a slot is used or passed on, admission is first come first served.
* **Orchestrated pipeline.** A parent must give its slot up before it launches, win
  it back before it replans or verifies, and settle last; failures, aborts and
  timeouts cut across all of that.  Correct: it never deadlocks, never replans over
  work in flight, always settles joined, and ends.
* **Child runner and process coordinator.** The agent host starts a child late or never,
  and disposes of it late, with an error or never; cancellation, time-out, unload and
  reload cut across.  Correct: two tasks of overlapping workspaces never have a
  child that may live at once, a workspace is only released after a confirmed cleanup,
  and every task ends whatever the host does.
* **Configuration proposals.** State is read before an audit is awaited and written after
  it, by callers that do not know of each other; the settings' answer may be lost.
  Correct: a receipt says what the settings store did, a settled proposal stays settled,
  an overlay is built on what its predecessor left.
* **Telemetry and dashboard.** A read model that forgets by age and by count, whose
  revisions are collected with their sessions and start anew with the host; a browser that
  polls, sleeps and reconnects.  Correct: nobody sleeps over a change, a view never turns
  back and catches up, trees are kept or dropped whole.
* **Settings tab.** A draft made against one revision, while others save, the host restarts
  and loads supersede each other.  Correct: nothing unseen is overwritten, the draft survives.
* **Distributed coordinator.** A loop, monitors and calls share one attempt to open the store; database and
  host services come and go; each wait of the disposal has a bound, so what it waited for may end
  later.  Correct: one worker at a time, everything recovers by itself, the end of a followed task is shown,
  an unload leaves nothing behind.
* **Adaptive pipeline.** One budget pays for planning, review, execution, verification and
  what is optional: protocol retries, revisions, replans, remediation.  Patches replace the
  pending suffix of a plan that has been partly carried out.  Correct: what is optional never
  spends what is mandatory, completed work is not touched, no effect is repeated under
  another name, and acceptance covers every criterion.
* **Subtask plans, scheduler.** A wave is paid from credits that later tasks, reviews and the
  verification need too; patches replace the pending part of a graph in execution; admission
  meets limits of several kinds.  Correct: what was accepted is never refused for want of
  credits, an id means one task, the scheduler never overcommits and never idles.

`PROJECT.json` lists each hazard at its line, with the properties that cover it.
The hazards without properties are admitted by the code; sections 2 and 5 say how, with a configuration that
exhibits each of them but the late observation of a task's placement.

## 2. Modules

### The durable store: `TaskRows`, `TaskStore`, `MemoryStore`, `TaskLedger`

`TaskRows` is one row: the tests of the statements' WHERE clauses (`Claimable`,
`Holds`, `Terminalizable`, `Requeueable`) and the row each SET list writes
(`Granted`, `Renewed`, `Published`, `Closed`, `Requeued`, `CancelMarked`), and the SQL
housekeeping statements run in sequence (`Housekept`).

`MemoryStore` is the second implementation, `MemoryTaskStore`, "with the same at-least-once
lease contract": each of its operations is one turn, so each is an operator from a record to
the record it leaves and the answer it gives.  `TaskStore!StoresAgree` compares the two on
every row the store reaches, at every instant and for every lease ever issued.  It does not
compare the order in which claims choose among candidates (the memory store's sweep resets
`availableAt` of a requeued task, the SQL orders by the instant it became eligible), nor which of
two refusals a completion gets when both apply; it does compare whether it is refused.

`TaskStore` is `PostgresTaskStore`: `rows`, the database clock `now`, and the ghost
`issued`, every lease a claim returned.  One action is one statement or transaction,
atomic at its commit.  The instant `at` it compares and writes with was read when it
began and is up to `MaxLag` old: that is what waiting for a row lock does to
`clock_timestamp()`.  A claim sees any set of rows locked (SKIP LOCKED).  Clients are
arbitrary: any lease in `issued` is presented to `heartbeat` or `complete` at any time,
any number of times.  That covers retries, duplicates, lost replies and crashed
clients.  The identifiers' format, payloads, sessions and scopes are left out; an
idempotent re-submission changes nothing and is not a step.

`TaskLedger` is what the store promises, without clocks and leases: a task is
granted one generation at a time, a bounded number of times; only the newest generation
publishes, only a cancelled result once cancellation was requested; terminal is final.
`TaskStore!ImplementsLedger` states the refinement.

### The worker: `LeaseWorker`

EXTENDS `TaskStore` with `slot[s]`, what claim loop `s` is doing, and `wire`, requests
whose clients gave up and that may still reach the database.

| `pc` | In the code |
|---|---|
| `off` | disposed, crashed or not started |
| `idle` | the loop is between claims |
| `claiming` | `store.claim` is awaited |
| `running` | `execute` runs, guards are armed, the heartbeat loop waits or awaits the store |
| `aborted` | aborted while a heartbeat is in flight, which is drained |
| `settled` | `execute` settled, the heartbeat is drained before publishing |
| `publishing` | `completeWithRetry` |

A request is a record that travels through the statements the store runs for it:
`sweep`, `grant` for a claim; `renew`, and after a miss `close`, `requeue` for a
heartbeat; `publish` for a completion.  Any steps lie between sending, each statement
and the reply.  `Fail` is a client error or query time-out; `GivesUp` moves what is
left of the request to `wire`, or loses it.  Local clocks differ from the database's by
a constant `Skew`; `MapServerInstant` converts as the code does.  The lease guard's timer
is at most `MaxLate` late.  Waits between polls, heartbeats and retries are left open,
which admits every interval the code could choose.

Two branches at the head of `runClaim` have no action because no claim can reach them:
the claim statement returns no cancelled row, and caps a lease at the deadline, so a
lease with time left has a deadline ahead of it.  A row without a deadline is refused by
the worker's `validateLease`; coordinators always set one, and `LeaseWorker` assumes so.

`Validated` is `validateLease` with its conversion of the store's instants, and `Final` what is
published when the task was cancelled or ran out of time while the heartbeat was drained.

### The grant ledger: `Grants`, `GrantLedger`

`Grants` has each method of `OrchestrationGrantLedger` as an operator from the ledger's
value to the value it leaves, so that a caller's turn, which runs to its next `await`
without interruption, is a composition of them.  A reservation token and the grant
minted from it are one `Token`.  `waitForStart` and `waitForResume` are two turns:
`Entered` (the call) and `Continued` (after its promise resolved).  `woken` is the
queue of resolved, not yet continued waiters, in promise order; `permits` is
`admissionPermits`.

`Grants` also declares the two variables its users share, `ledger` and the `clock` they read.
`GrantLedger` puts arbitrary callers over it: any method, any argument it accepts,
any order.  Its specification is `LedgerSpec`.  The ghosts are `spent` (runs charged) and `arrival` (who waits, by call).

### The pipeline tree: `Orchestration`

The tree of `runOrchestratedTaskPipeline` instances over one ledger.  One action is one
event-loop turn.  `pc[t]` is where node `t`'s pipeline awaits: `starting`
(`waitForStart`), `hosting` (a planner, worker or verifier runs), `joining` (the
scheduling loop awaits a child), `resuming` (`waitForResume`), `draining`
(`settleRemaining`), `closing` (returned, grant not settled), `closed`, `joined`
(the parent took the outcome).  A turn of the loop is `Join`: it takes one child's
outcome and then, in one step, starts more, keeps waiting, drains, resumes for a host
phase or finishes, as the code does.  `StartReady` reserves, suspends, and runs the
first turns of the launched children in order.

Which plan tasks exist and are ready, verdicts, and what a charge costs are left open,
so the model has more behaviours than the code: a call may fail for want of runs
whenever it could, and after any join the loop may or may not refill.  `Stops` is the loop's
catch block: whatever still runs is aborted and awaited.  `Close` settles what a child was
granted, `CloseRoot` the tree; a refused settlement makes the result an error.  Budgets are
`GrantLedger`'s subject, on the same operators; plans and credits are `SubtaskPlan`'s.

`FailFast` is the set of depths whose lane has `failureMode: 'fail-fast'`.

### One pipeline's plan: `ReadyScheduler`, `PlanProgress`, `SubtaskPlan`

`ReadyScheduler` is `scheduleReadyNodes` on a graph, the statuses of its nodes and limits:
the topological order and critical paths, effective statuses (`Effective`, `BlockedBy`), the
order of the ready nodes (`Precedes`), their admission in that order (`Admitted`: a node is let in beside what
runs and what was let in ahead of it) with the constraints of those deferred, the diagnosis and the overcommitment of what runs.  A node's
provider, model, resource class and workspace are the members of one set of resources it `needs`.

`PlanProgress` is `derivePlanProgress` of the dashboard: the display state of every step from the
published plan and what the telemetry shows of the steps' child tasks.

`SubtaskPlan` is the plan of one `runOrchestratedTaskPipeline`: the proposal
(`ValidProposal`), the waves (`WaveAllocation` is `orchestrationWaveAllocations`), rolling
refills and the checkpoint that stops them (`Settle`), patches (`ValidPatch` is
`parseSubtaskPlanPatch`), reviews and the final verification, with what each charges.  `pc` is the
phase: `planning`, `retrying`, `reviewing`, `scheduling`, `replanned`, `patching`,
`verifying`, and the results.  `refused` is any error for want of runs, credits or slots, or
of the scheduler.  A child's lane is a floor and a cap on runs and nodes; all children have one
lane, as in the code.  The validators are written as what they accept; `covers` stands for
criteria and deliverables, and contracts between subtasks for their dependencies.

### Children and local tasks: `ChildRunner`, `LocalTasks`

`ChildRunner` is `runStructuredChild` for one child at a time of each task, and the host
it calls.  `place[t]` is where the call is, `child[t]` what became of its child.

| `place` | In the code |
|---|---|
| `idle` | no call |
| `starting`, `running` | `waitForSignal` on the start, on `run.result` |
| `thrown` | one of them rejected, the catch block is to run |
| `cleanup`, `unwinding` | `boundedSettlement(disposeOnce())` after a result, in the catch block |
| `returning` | the catch block had no `run` to dispose of and awaits only promise turns |

`child` goes from `starting` to `refused` or `alive`, then `disposing`, then `gone` or
`unsure` (`dispose()` rejected).  The bound on disposal is a timer, so a call in `cleanup` or
`unwinding` may return with the child in any of the last three.  Between `returning` and the
return lie promise turns and no timer; `SettlesInCatch` says whether a start may settle
in them.  The ghost `strays` keeps a task whose earlier child was unconfirmed when it starts another.

`LocalTasks` puts `DispatcherRuntime` and `runLegacyTaskPipeline` over it.  `locks` and
`circuits` are the process state that outlives a plugin instance.  `Accept` is `execute`
up to the lock (synchronous) and the registered job; `JobFails` the case that `jobs.start`
throws, before or after it called `run`, with everything the catch block does; `Begin` the
pipeline's first turn; `Return` takes a child's result to the next child or, through `Finish`,
to the recorded result and the released or retained lock; `Cancel`, `Unload` and `Load` are the
job's cancellation, the plugin's `dispose` and a new instance.  A task id is used once.
Reservation keys are opaque: `Overlaps` says which distinct ones nest.  Verdicts and
`assertTaskBoundary` are left open, so a pipeline may end after any child.

### The adaptive pipeline: `MasterPlan`

`runMasterPlanPipeline` is one sequential program, so `pc` is the phase whose child runs
and one action takes that child's result to the next child or to the end.

| `pc` | Phase of the code |
|---|---|
| `planning`, `reviewing` | `initial-plan`, `initial-plan-review`; `retried` for their protocol retry |
| `executing`, `verifying` | `step-executor`, `step-verifier` of the first pending step |
| `replanning`, `patch-reviewing` | `replan`, `plan-patch-review`; `trigger` is `step-completed` or `final-review-gap` |
| `final` | `final-verification` |

`Call` is `runPhase` with its two refusals.  `Loop` is the head of the `for (;;)`: with
pending steps it counts an attempt and starts an executor, otherwise the final verifier.
The result `exhausted` is the error `runPhase` returns when no run is left.  The ghost `ran`
counts the executor runs of each step id.

A plan is its ordered steps, each with an id, what it covers, whether it is completed and its
attempts; `seen` is `seenStepIds`.  `Criterion` stands for criteria and deliverables alike.
`Outlines` is what `normalizePlanSteps` accepts, `Patches` what `parsePlanPatch` does,
`Patched` is `applyPlanPatch`.  Titles, objectives and evidence are left out, so a
replacement of the same ids and coverage counts as changed, which admits more patches than
the code does.  Reports are left open: any child may fail, and any verdict may be given.

### Proposals to change the settings: `ConfigProposals`

`ConfigProposalAuthority` with arbitrary concurrent callers.  `call[c]` is where caller `c`
awaits: an audit (`creating`, `expiring`, `approving`, `intending`, `disposing`, `staging`) or the
settings' transaction (`transacting`).  An action is one turn, so what a turn read may have changed
when the next one writes.  A digest is what it is a digest of: the set of proposals whose changes are in.
`Fails` is a refused audit or a lost answer; the transaction provider is external and, as its
contract in the code says, compares and swaps and answers a repeated mutation as before
(`carriedOut`).  The ghost `contested` holds the proposals approved by two calls at once and the
subjects whose overlay two calls changed at once.  Rules and triggers are opaque objects.

### Telemetry and dashboard: `Telemetry`, `Dashboard`

`Telemetry` has the operations of `createDispatcherTelemetry` on its process-wide state as
operators: starting, changing and finishing a task, retention (`Retained`, `Pruned`), revisions
(`NextRevision`, `Collected`), `Snapshot`, and what the dashboard lists as roots (`TopLevel`).  Of a
task it keeps state, parent, version, the instant and the order of its end.

`Dashboard` runs it: a mutation with the listeners it notifies and what they prune is one turn
(`Turns` picks the order in which sessions are published).  `calls` holds the snapshot and watch calls
under way with their answers; `viewer[v]` is a `DispatcherSessionSource`: its `generation`,
what its loop awaits (`run`) and the last snapshot.  Answers, failures and aborts travel by themselves, so
they arrive in any order.  `Restart` and `Disconnect` are external: a restarted host has new
tasks and counts from zero, and a lost connection or a restart fails every call in flight.
The component that shows a source subscribes to it in the turn it obtains it.

### The distributed coordinator: `Coordinator`

`DistributedDispatcherRuntime` of one plugin instance of the role `hybrid`, which does what coordinators and
workers do.

| Variable | In the code |
|---|---|
| `attempt` | `initializing`: `createStore`, the turn after `initialize`, the closing of a late store |
| `runtime` | `storeReady` (`published`), `disposed`, `worker`, `workerFiber` |
| `loop` | where `initializeUntilReady` awaits; its catch block's `fiber` and `worker` |
| `monitors`, `calls` | where each monitor and each tool's call awaits, and the record it read |
| `live` | workers that started and were not disposed of: their loops claim tasks |
| `shown` | telemetry's status of a task, as `observe` leaves it |
| `disposal` | the wait of `dispose` |
| `outside`, `rows`, `store`, `fibers` | external: whether database and `agentPresets` are there, the tasks, the connection pool, the host's fibers |

`ensureStore` is split where it awaits: `Ensured` is what its caller gets at once or waits for, `Attempted` the
attempt it begins, `Settle` the turn in which all its callers continue.  `Install` runs up to the fiber's await,
`Mounted` from there to the catch block's first disposal, `UndoWorker` and `Undone` are its two awaits.
A fiber is `loading`, `active`, `waiting` for its service, `failed`, `disposing` or `gone`; `Mount` is the code's
`mount`, called by the host once or again when the service returns, `Unmount` the disposer of its effect.  A mount
may throw after its worker has started.  Every bounded wait may end at any time, as if
by its time-out, so a disposal's next step does not wait for what the one before it asked for; the two waits
before the store's closing are one step, because nothing happens between them.

Delays, back-off and jitter are left open.  A monitor reads rows that only go from absent to open to terminal,
and observes what it read in a later turn.  Of a record the model keeps the state: the lease and the placement
that `observe` also copies may be shown older than they are after a task's end (`dispatcher.js:3647`), which nothing
corrects.  The branch without `ctx.inject`, for hosts without fibers, and missing configuration (an error at every
attempt) are left out.

### The settings tab: `SettingsTab`

`DispatcherConfigController`, what a mounted tab lets its user do, and the host's
revisioned settings, which count from zero in every process.  `load` is the one load that was not
superseded; `saves` are the saves under way, `orphan` after a reconnect.  A save that the host
committed may fail for the browser.  Policies are sets of edits.  `Pages` runs it beside `Dashboard`: the two
pages share no state, so a behaviour follows one of them.

## 3. Runs

| Run | Instance | States | Shows |
|---|---|---|---|
| `store` | 2 tasks, 2 workers, 2 claims each, lease 2, lag 1, clock to 4, with and without deadline | 245,877 | fencing, cancellation, the memory store and the SQL agree; implements `TaskLedger` |
| `worker_exclusive` | 1 task, 2 loops of one worker, lease 6, heartbeat 2, lag 1, one stray request | 2,650,911 | punctual guards: one execution at a time, executors hold their lease, owners are never refused |
| `worker_fenced` | 1 task, 2 workers, one steady, guards up to 9 late | 282,522 | acknowledgements are true however late the guards are; every task ends |
| `grants` | 3 tokens over the root, depth 2, 2 slots, 3 runs, 2 waiting calls, clock to 2 | 633,363 | budgets, authority, joined settlement, no lost promise, first come first served |
| `orchestration` | 4 tokens, depth 3, 2 slots, waves to 3, fail-fast at depth 0, clock to 1 | 166,592 | clean closing, work in slots only and replans at quiescent boundaries, the root's task ends |
| `planning` | up to 4 subtasks of 5 ids, 2 patches, 2 lanes, 15 runs, 4 node credits, 2 slots; one demand for resources under 3 limits | 2,581,669 | what was accepted is paid for, covered and keeps its ids; checkpoints come; the scheduler and the dashboard's picture match a reference |
| `local_tasks` | 3 tasks, two of one workspace and one nested in it, 2 attempts, clock to 1 | 101,976 | one task per tree, confirmed cleanup, and every task ends |
| `master_plan` | 5 step ids, 2 criteria, 13 runs, 3 steps, 2 patches, 2 attempts | 165,907 | the budget suffices, effects are bounded, acceptance covers |
| `config_proposals` | 2 proposals, 1 subject, 2 objects, 2 callers, clock to 1 | 5,567,632 | receipts are true; settled proposals and overlays are disturbed only by who contests them |
| `dashboard` | 2 sessions, 3 tasks, 1 viewer, 1 watch, 2 tasks retained, 2 events; or the settings page, 1 edit, 2 saves, 2 revisions, 1 restart | 418,580 | nobody sleeps over a change, trees stay whole, views never turn back and catch up; no save overwrites what its user did not see |
| `coordinator` | 1 task, 1 caller, 2 troubles | 640,682 | one worker at a time, recovery, ends are shown, complete disposal |
| `local_late` | as `local_tasks`, with `SettlesInCatch` | violation | section 5 |

`MCOrchestrationSlots.cfg`, `MCLocalTasksCircuits.cfg` and `MCSettingsTab.cfg` are three more configurations, run by hand
(`tlc -config MCOrchestrationSlots.cfg MCOrchestration`); section 5 says what they exhibit.

**Bounds.** `MaxClock`, `LastEnqueue`, `MaxWire`, `MaxCalls`, `MaxWave`, `MaxEvents`, `MaxTask`,
`MaxSaves`, `MaxRevision`, `MaxRestarts` and `MaxTroubles` only bound the search; they appear in guards of `Tick`,
`Coordinate`, `GivesUp`, `Wait`, `StartReady`, `Event`, `StartTask`, `Save`, `EditElsewhere`, `Restart`,
`Outage`, `ServiceLost` and `Activate`.  Why they are enough: two tasks are the fewest for claim ordering and for
batches that split; two claims the fewest for a fenced old owner and an exhausted row;
a clock of twice the lease reaches expiry, requeue and second expiry.  Three tokens
give a chain root–child–grandchild and two siblings; two slots with three competitors
give a waiter, a woken call and an arrival at once; one slot makes parents and children
compete for the same one.  The two allocations of `grants` are a leaf and an
orchestrator of exactly the budget that exhausts the root.  Three tasks give a lock's holder,
a competitor of the same key and one of a nested key; two attempts a task that retries once
and stops at its limit.  `master_plan` has runs for a plan of three steps with a replan or for a
shorter one with retry, revision, replan and remediation; two patches are the fewest for an id to
be dropped by one and asked for by the next, and five ids leave some never seen.  `planning` has
four tasks, the fewest for two to run, a third to fill a freed slot and a fourth to wait for the
checkpoint; its credits are exactly the least of one lane and its runs leave room for two patches or none,
by the lane.  Two callers and two proposals are the fewest for two approvals at once and for a
conflict.  Three tasks are the fewest for a tree with a child and a task beside it of the same or the other session;
two events admit every pair of an update, a subscription, a lost connection, a restart and a tick.
Two troubles of `coordinator` are any two of an outage, a lost service and a mount that fails half-way, beside a
database or a service that is missing from the start; processes meet only in the store's attempt and in `dispose`, so one
monitor and one caller show each pair (two callers with one trouble, 1,871,389 states, keep the type invariant too).  With one task the
monitors' capacity is not reached; a task beyond it is not followed, and nothing is claimed of it.  `MaxTotalChildRuns`,
`MaxPlanSteps`, `MaxPlanPatches` and `MaxAttempts` are the lane's own limits.

**Symmetry** is used for safety only.  `orchestration`, `worker_fenced`, `local_tasks`, `dashboard` and
`coordinator` check liveness and use none.

**Deadlock** is checked for `orchestration` and `planning`, where a stuck state would be the bug
looked for; a finished tree stutters by `Finished`.  It is checked for `LocalTasks` too, where a plugin
can always be unloaded or loaded, so that only `TasksEnd` says that nobody is stuck.  The pipeline of `master_plan` ends, and so does an unloaded `coordinator`.  In the other runs the clock or the bound on events
ends the behaviour, and nothing waits for anyone inside the model.

**Fairness.** `worker_fenced` assumes for the one steady worker: its event loop runs
what is ready, a request is answered or runs into the pool's `query_timeout`, the closing
batch tried at every claim does not fail for ever (the only strong fairness: the batch is advisory and retried at each claim), and time passes.  Nothing is assumed of the other worker, of
executions or of coordinators.  `orchestration` assumes that resolved promises
continue and that each pipeline's next turn comes, which holds because every model call has
a child time-out; deadlines, expiry, cancellation and the clock have no fairness, so the
tree does not end with their help.  `local_tasks` assumes that the event loop runs what is ready
(`Begin`, `CatchBlock`, `Return`, whose guard becomes true when the disposal's timer fires at
the latest) and that the child's time-out fires; nothing is assumed of the host's starts, results and
disposals, of users, or of plugin reloads.  A job service that defers a job is assumed to get to
it.  `dashboard` assumes of each viewer that the host answers or its timer fires, that signals arrive and
that the browser's loop goes on (`Progress`); nothing of tasks, of the clock or of who subscribes.
`coordinator` assumes that the runtime's promises settle (each attempt and each wait is bounded by the pool's time-outs or by
`disposeTimeoutMs`) and its timers fire, that the host settles each fiber, that an outage of the database ends, that a task
ends (`EveryTaskEnds`) and that a closing pool closes; the service need not return, and nobody need call or unload.

**Timing.** `ExclusiveExecution` holds when `MaxLag + MaxLate < SafetyMs`.  An
abandoned heartbeat that read its clock early can commit after a later renewal and
shorten `lease_until` again by at most its lag; the safety margin has to absorb that and
the guard's lateness.  The run's numbers satisfy it (1 + 0 < 2).  In the code the pool's `statement_timeout` and
`query_timeout` are 5 s and the margin is a third of the lease or one heartbeat, whichever
is less, at least 1 s; with the shortest configurable heartbeats the condition is an
assumption about lock waits and not a consequence of the settings.

Type invariants are checked by hand or proved; no run spends time on them.  `UnloadReachesAll`, `QuarantineIsForGood`
and `CompletedIsImmutable`, which section 4 proves, are not repeated by the runs either, nor is `SlotsPassOn`, which TLC
checked by hand on the configuration of `grants`.

`PROJECT.json` names for every property of every passing run a plausible slip in the
code (the definitions commented `Faulty`) under which TLC finds it violated.

## 4. Proofs

The first part of `LeaseWorkerProofs` (TLAPS), about the store, for any sets of tasks, workers and time-outs, any lease,
lag and claim limit allowed by `RowAssumption` and `StoreAssumption`:

| Theorem | Statement |
|---|---|
| `TypeCorrect` | `Spec => []TypeOK` |
| `ChecksAlwaysHold` | `Spec => []ChecksHold` |
| `CompletionsAreFenced` | `Spec => []CompletionFenced` |
| `CancellationWins` | `Spec => []CancelWins` |
| `LeasesAreUnique` | `Spec => []LeasesUnique` |
| `StoresAreOne` | `Spec => []StoresAgree` |
| `StoreImplementsLedger` | `Spec => ImplementsLedger` |

`ChecksHold` (the schema's CHECKs) and `LeasesUnique` are the strengthenings the others rest on.

The argument.  None of the invariants is inductive: a claim of a row is only safe because the
row's generation bounds every lease issued for it, and the two stores agree
only because a lease never outlives its deadline.  `IInv` is `TypeOK`, `RowInv` of every
row and `IssuedInv`.  `RowInv` adds to the CHECKs that a running row's lease ends by its
deadline, that claim count and generation are equal and bounded, and that a completion
names the row's own generation; it is what each SET list preserves under its WHERE
clause, one lemma per assignment (`GrantedOK`, `RenewedOK`, `ClosedOK`, ...).  `IssuedInv`
relates `issued` to the rows: no lease is newer than its row, generations are unique.
`RewriteOK` lifts a row lemma to any set of rows; `NextIInv` has one step per statement.
The refinement maps each row to a ledger entry (`Shown`), one lemma per assignment, and
each statement to one ledger action or a stutter.  `StoresAreOne` is a fact about rows that keep
`RowInv`: the memory store's sweep leaves the row that the SQL housekeeping leaves
(`SweptIsHousekept`), after which claims and completions take the same decision
(`ClaimsAgree`, `CompletionsAgree`); `SweptHolds` says the sweep keeps every lease that is still held.

`LocalTasksProofs`, for any tasks, workspaces, overlaps and limits allowed by
`LocalAssumption`, and under `Punctual`, which is `SettlesInCatch = FALSE`:

| Theorem | Statement |
|---|---|
| `LocalTypeCorrect` | `Spec => []LocalTypeOK` |
| `OneTaskAtATime` | `Spec => []OneTaskPerTree` |
| `CleanupIsConfirmed` | `Spec => []CleanupConfirmed` |
| `UnloadIsComplete` | `Spec => []UnloadReachesAll` |
| `QuarantineIsKept` | `Spec => QuarantineIsForGood` |

The argument.  `OneTaskPerTree` speaks of children and says nothing of locks; what every
step preserves is `Locked`: a child that may live is locked by its task, and no two keys
held conflict.  To know that a lock is given up only when the child is gone, `Placed` ties the
place of a call to its child, its task's phase and its lock, and `Stopped` ties an abort to the call it
stopped.  One lemma per action shows that `IInv` is kept; `StopSteps` is shared by
cancellation, time-out and unload, `FinishStep` and `StartStep` by the pipeline's turns.
`Punctual` is needed: without it the run `local_late` refutes `CleanupConfirmed`, so the
theorems say that this race is the only way to lose the fence.  `TasksEnd` stays with TLC.

`MasterPlanProofs`, for any finite sets of ids and criteria, at least five runs, and any
limits allowed by `PlanAssumption`:

| Theorem | Statement |
|---|---|
| `PlanTypeCorrect` | `Spec => []PlanTypeOK` |
| `RunsAlwaysSuffice` | `Spec => []RunsSuffice` |
| `EffectsBounded` | `Spec => []EffectsAreBounded` |
| `AcceptanceIsCovered` | `Spec => []AcceptedIsCovered` |
| `CompletedStays` | `Spec => CompletedIsImmutable` |

The argument.  That no phase is refused a run cannot be seen from the phase alone: `Funded`
says what each phase leaves for the rest, twice the pending steps after a verifier, one more
while a replanner runs.  `LoopOK` is the one place where the price of all that must follow
is paid in; every guard for something optional is shown to leave that price.  `Formed` is what
every plan of a lane is like, `Counted` relates its attempts to the runs that were made, also of
ids it no longer names.  A patch keeps `Counted` because a patch is only applied when no pending step
has been tried (`Untried`) and no id that was seen and dropped may return.  One lemma per
operator on plans (`CompletesOK`, `AttemptedOK`, `CreatedOK`, `PatchedOK`) and one per turn.

`ConfigProposalsProofs`, for any proposals, callers, subjects, settings and times to live:

| Theorem | Statement |
|---|---|
| `ReceiptsStayTrue` | `Spec => []ReceiptsAreTrue` |
| `UncontestedStays` | `Spec => UncontestedIsFinal` |
| `UncontestedBuildsUp` | `IsFiniteSet(Object)` gives `Spec => UncontestedOverlaysBuildUp` |

The argument is about who may still write a proposal's state after its audit.  `FlightsAreAlone`: a
mutation has one flight at a time and none once its conflict is recorded, so a conflict is not
reported over a flight that may still commit.  `RepliesHold`: an answer of the configuration's transaction
still holds when its call continues.  `InOrder`: of a proposal neither expired nor contested, a call
finds the state it read before it awaited.  `Placed` says which proposals exist.  For overlays
`OverlaysInOrder` says the same of the candidate a stage carries: it builds on what is stored.
One lemma per turn.  Objects are finite because the property counts them.

The first part of `PagesProofs`, about the dashboard, for any tasks, sessions, sources, watches, times to live and
limits of retention allowed by `TelemetryAssumption` and `DashboardAssumption`:

| Theorem | Statement |
|---|---|
| `DashboardInvHolds` | `Spec => []DashboardInv` |
| `TreesAreWhole` | `Spec => []TreesStayWhole` |
| `SleepersMissNothing` | `Spec => []NobodySleepsOverAChange` |
| `PagesNeverGoBack` | `Spec => TasksNeverGoBack` |

The argument.  `DashboardInv` has three parts.  `Trees` is about one value of the telemetry.  `Family` says what a subtask and
its parent have in common: a task that is kept has a parent that is kept, one that runs a parent that runs, and under an
ended parent a subtask has its place in the order of ends and did not end later.  `Whole` is the property's own content,
extended to the trees of running tasks, which it does not mention but which end sometime.  The ancestors of a task (`Above`)
are a recursive function; as a subtask is younger than its parent, a claim that passes from parent to child is shown of
the least task it would be false of (`Inherited`), and `AncestorsAre` gives what a whole line has in common.
`PruneKeepsTrees` is the heart: if the quotas keep a task they keep what is newer in its session (`RetainedUp`), so a
tree that stays beside an older one has lost only what expired.  `FinishKeepsTrees` follows the descendants that an end takes along.

`Numbers` and `Views` are about revisions.  A revision alone names nothing: revisions are collected when a session
has no task and no watch, and given out again after a restart.  `Cached` says what one is worth: while a snapshot's revision is the
session's, its tasks are the session's.  `Past` says that a snapshot is no further than the host, `Since` that an answer to a source's
present run is no older than what the source shows, and `Single` that a run has one call at a time.  From these a
waiting watch, whose revision `Fits` ties to the present one, is of a source that shows the present.  `Past` survives a restart only
because ids of tasks are never used again and what is gone stays gone.

A turn of the host is a mutation, the listeners it notifies in some order, the prunes they make and the collection of
revisions.  `PublishedIs` shows of the fold over the listeners that whatever their order every published session has a
revision above all earlier ones and the others keep theirs; `Tells` says which sessions have to be published,
and `MutationTells`, `StartTells` and `ReadsTurn` that each turn publishes them: those it changed or pruned, unless
nobody waits for them and nothing of them is left.  `HostKeeps` serves all mutations, `RunKeeps` all steps of a source and
`FailuresKeep` lost connections and restarts.  TLC checked `DashboardInv` on the run's configuration, and on one with
two sources, before it was proved.

Its second part, about the settings tab, for any edits and numbers of saves, and natural numbers of revisions and restarts:

| Theorem | Statement |
|---|---|
| `BrowserIsCurrent` | `Tab!Spec => []TabInv` |
| `SavesReplaceWhatWasSeen` | `Tab!Spec => NothingUnseenIsOverwritten` |
| `PagesKeepApart` | `PagesSpec => Spec /\ Tab!Spec` |

A revision does not name a state of the host, as every process counts from zero.  `CurrentInv` says that
whatever the browser holds, or is answered, is of the running process, in which a revision names one value;
a reconnect drops everything else.  So the revision check of a save compares what it seems to compare.
`PagesKeepApart` carries both parts to the specification that the run `dashboard` checks.

The first part of `OrchestrationProofs`, about the ledger alone, for any finite set of tokens and any limits, budget, allocations and lifetime allowed by
`LedgerAssumption`:

| Theorem | Statement |
|---|---|
| `LedgerTypes` | `LedgerSpec => []LedgerTypeOK` |
| `CreditsAreConserved` | `LedgerSpec => []BudgetsConserved` |
| `AuthorityIsBounded` | `LedgerSpec => []AuthorityFlowsDown` |
| `SettledTreesStayJoined` | `LedgerSpec => []SettledTreesAreJoined` |
| `WaitersHaveSomebody` | `LedgerSpec => []NobodyWaitsForNobody` |
| `WaitersAreWoken` | `LedgerSpec => SlotsPassOn` |
| `SlotsAreTakenInTurn` | `LedgerSpec => NoOvertaking` |

The argument.  The invariant has four parts, each a predicate of a ledger's value, so that one lemma per operator of
`Grants` serves every composition of them.  `TreeInv`: `above` is closed under parents (every node above one is its
parent or the parent of another above it), which is what lets a revocation of a forest, and a join, speak for all
descendants; `AuthorityInv` and `JoinInv` then hold of whole chains.  `Counted` and `Admits` say that the counters are
exact and the limit kept; they are apart because a continuation first gives its permit back and only then
takes a slot.  `InLine` relates the ghost `arrival` to the code's two queues: first the woken calls, then
the waiting ones, so the first promise to continue is the oldest call.  `BudgetInv` says that nodes and runs
are conserved as sums over all nodes, that a reserved child can pay its own start, and that slots are children not refunded.
The lemmas from `SmallestSubset` to `TotalSplit` prove what a sum over a finite set does when one summand or
many change.  The library's induction cannot be instantiated here; they choose instead, by well-foundedness of the
natural numbers, a smallest set that would be an exception and derive a contradiction from it.
`WaitersHaveSomebody` does not say that no slot is free while somebody waits, which is false (section 5).  `WaitersAreWoken`
says how far that can go: what is given up while a call waits is promised on in the same step, and a call is queued only behind
another, behind a promise, or when every slot is in use; so a slot is free beside a waiter only if it was given up
with an empty queue, and the first that waits came while a call woken earlier had not gone on.

Its second part, about the pipelines, for any finite set of tokens (numbered from 1), any limits, allocations, lifetime, fail-fast
depths and waves allowed by `LedgerAssumption` and `OrchestrationAssumption`:

| Theorem | Statement |
|---|---|
| `PipelinesKeepOrder` | `Spec => []OInv` |
| `PipelinesTyped` | `Spec => []OrchestrationTypeOK` |
| `PipelinesKeepTheLedger` | `Spec => [](NobodyWaitsForNobody /\ AuthorityFlowsDown /\ SettledTreesAreJoined)` |
| `AuthorityIsClosed` | `Spec => []AuthorityClosesCleanly` |
| `BoundariesAreQuiet` | `Spec => []QuiescentBoundary` |

The argument.  Each property alone is not inductive: that a pipeline which ends can settle rests on its children having
settled, which rests on where their pipelines are, which rests on who may still be admitted.  `Orderly` ties the three
together.  `Placed` says what grant a pipeline's place implies, and that a slot is held only by one that hosts or
closes.  `Quiet` is the boundary itself, for all descendants: unless its pipeline awaits children, everything below a node
was taken by its parent.  `Clean` is its counterpart on grants, one level deep.  `Nested` says that only an
orchestrator has children, which is why a leaf's return has nothing to join.  `Matched` says that the line of
admission calls holds a node at most once, and only while its pipeline awaits admission; the line is a
witness, since the pipelines keep no such ghost.  A turn is a composition of ledger operations, so `Orderly` is a
predicate of values and every operator of `Grants` that a turn uses has one lemma over the lemmas of the first part:
`IssuesOrderly` for a reservation with the parent's suspension, then `EnterOrderly` for each child's first turn, put together
by `LaunchOrderly` for a wave of any length, `SilencedOrderly` for an abort, and so on.  Most of them end in `OrderlyStep`: a step
that issues nothing keeps order if the tree keeps its shape, no grant opens, no taken pipeline comes back, and a node
that stops awaiting its children has none in flight.  A `FoldLeft` is a recursion over sets of positions; `LaunchedInOrder` and
`PassedInOrder` turn it into one from position to position.  The branch of `Settles` in which the ledger refuses is shown
to be unreachable.  TLC checked the parts of the invariant on the run's configuration before they were proved.
`PipelinesKeepTheLedger` says that the callers of the ledger that the code really has keep its promises in every turn,
not only the arbitrary single calls of `GrantLedger`.

The second part of `LeaseWorkerProofs`, about the workers, for any tasks, workers and finite set of loops, any skews, lease, heartbeat, lags and delays
allowed by `WorkerAssumption` (beside the store's assumptions: `None` is no loop and no lease, and every task has a
deadline, which `validateLease` insists on):

| Theorem | Statement |
|---|---|
| `WorkerInvariance` | `WorkerSpec => []WorkerInv` |
| `WorkerTypeCorrect` | `WorkerSpec => []WorkerTypeOK` |
| `AcknowledgementsAreDurable` | `WorkerSpec => []AcknowledgedIsDurable` |
| `TimedInvariance` | `ASSUME Punctual PROVE WorkerSpec => [](WorkerInv /\ TimedInv)` |
| `OwnersAreHeard` | `ASSUME Punctual PROVE WorkerSpec => []OwnersAreNeverRefused` |
| `ExecutorsHoldTheirLease` | `ASSUME Punctual PROVE WorkerSpec => []ExecutorsHold` |
| `ExecutionIsExclusive` | `ASSUME Punctual PROVE WorkerSpec => []ExclusiveExecution` |

`WorkerInv` extends the store's invariant and mentions no time but that no request is sent in the future.  `Fits`
says what a loop may be waiting for, and what its reply may say of the rows; `Alone`, that no two loops have the same
lease, counting the one a loop is about to read; `Harmless`, that a completion abandoned on the way is the
one its loop is publishing again, or one that a cancellation makes the store refuse.  Without the last, an old request
could end the task with another outcome than the one acknowledged.  Durability follows, however late the guards are.

`TimedInv` says what each loop believes (`Believes`): until its guard must have fired, the row has its lease, and the
boundary is at most the row's, give or take `MaxLag`.  The slack is needed: a renewal whose statement read the clock
early and committed late may write an earlier `lease_until` than the row had, while the worker keeps the
later boundary.  So the loops are safe when `Punctual == MaxLag + MaxLate < SafetyMs`: the safety margin
covers both the timer and the statement.  `MCLeaseWorkerExclusive.cfg` has 1 + 0 < 2.  The conversion
`MapServerInstant` enters through `RoundTrip`: a statement's clock reading is not before the request was
sent, so the converted boundary is not after the store's own.

A statement's effect on rows is one of a few (`Move`, or `PublishedBy`), proved per statement, and a loop
that is not served sees only those; a loop that is served sees its own request answered (`Ran`).  So each action
needs its own lemma only for the one loop that moves.  TLC checked `WorkerInv` and `TimedInv` on both
configurations before they were proved.

`CoordinatorProofs`, for any tasks, callers, capacity of monitors and number of troubles:

| Theorem | Statement |
|---|---|
| `CoordinatorTypeCorrect` | `Spec => []CoordinatorTypeOK` |
| `WorkersAreOne` | `Spec => []OneWorkerClaims` |
| `FollowedTasksExist` | `Spec => []RowsKnown` |

A mount asks whether the runtime knows a worker, and the catch block of `installWorker` forgets the runtime's
worker before it is disposed of; so the guard alone shows nothing.  `WorkersKnown` says whose the worker that lives is
(`Known`: the runtime's, or the catch block's while it undoes one), and that only the runtime's fiber can mount, which
is given up in the same turn as its worker.  `HostOK` and `TaskOK` split the state into what the loop and the fibers
change and what monitors and calls do; one lemma per action.

`SubtaskPlanProofs`, for any ids, duties, costs, lanes, budgets and limits allowed by `SubtaskAssumption`:

| Theorem | Statement |
|---|---|
| `PlansAreSound` | `Spec => []IInv` |
| `PlansAreFunded` | `Spec => []NothingPlannedIsRefused` |
| `VerdictsAreCovered` | `Spec => []VerdictIsCovered` |
| `CheckpointsAreReached` | `Spec => []CheckpointsComeSoon` |
| `IdsNameOneTask` | `Spec => IdsKeepTheirMeaning` |

The argument.  That nothing planned is refused is not inductive: a wave is refused when the grant is too small for it,
and what is left of the grant depends on every charge before.  `Affords` says for each phase what the grant must still
hold (`Funds`): a lane's runs, nodes and a slot for each pending task, one run for the final verification, and one more for
each optional patch that was promised.  `WaveLeavesTheRest` is its heart: what `orchestrationWaveAllocations` hands out beyond the floors is
bounded by what is left above the floors of the later tasks (`AllocatedWithin`), so the rest stays paid for.
New tasks come with a proposal or a patch, and the capacity it was validated against pays for them (`CapacityPays`).
`Replaces` carries a patch through its review: the ids it keeps, and that it covers what the replaced tasks covered.
`InOrder` says that nothing started before what it depends on completed; of the scheduler the proofs use only
`WaveIsReady`, that it starts ready tasks.  `Rhythm` ties `refills` to the checkpoint: a second refill finds admission closed.
The assumption that an expandable lane's floor is within its cap is what `validateDispatcherConfig` refuses to load otherwise
(`dispatcher-policy.js:405`).  The parts of the invariant were checked by TLC on the run's configuration before they were proved.

The type-correctness theorems (`LedgerTypes` and `PipelinesTyped` among them), `PipelinesKeepOrder`, `PlansAreSound`, `ChecksAlwaysHold`, `LeasesAreUnique`, `FollowedTasksExist`,
`BrowserIsCurrent`, `DashboardInvHolds`, `WorkerInvariance` and `TimedInvariance` state strengthenings;
they, `UnloadIsComplete`, `QuarantineIsKept`, `CompletedStays` and `WaitersAreWoken` are proved and no run spends time on them.

Only model-checked: liveness (`EveryTaskEnds`, `RootCloses`, `TasksEnd`, `ViewsCatchUp`, and three of
`Coordinator`'s properties)
and what recursive definitions compute for every input (`SchedulerIsRight`: `ReadyScheduler`'s graphs and admission)
are out of this prover's reach.

## 5. Where code and documentation disagree

**A released slot may stay free.**  `docs/architecture.md:147`: "When one Worker settles while another remains in flight, the
Host immediately admits newly ready work into the released slot."  
`ReleasedSlotsAreUsed` (`MCOrchestrationSlots.cfg`) states that while anybody waits and no admission is under way, all
slots are in use, and TLC refutes it in six states.  A caller queues whenever a woken
waiter has not continued yet (`orchestration.js:568`), and only a release wakes the queue.
With two slots: B settles and wakes C; before C continues, the orchestrator A suspends,
finds nobody to wake, and queues its own child behind C's permit.  C takes one slot; the
other stays free, and the child waits until C releases.  It is a delay and no deadlock:
`NobodyWaitsForNobody` and `RootCloses` hold, and `WaitersAreWoken`
proves when alone it can begin.

**A circuit closes before it has cooled down.**  `docs/configuration.md:193` says of
`circuitCooldownMs`: "How long an open circuit rejects new work."  `record`
(`dispatcher.js:3798`) deletes the lane's circuit for every result that is not an
infrastructure failure.  Two tasks of a lane run in different workspaces; one fails and
opens the circuit, the other ends accepted, rejected or cancelled a moment later and the
lane accepts work again (`CircuitsCoolDown`, `MCLocalTasksCircuits.cfg`).

**A late start can escape the fence.**  `docs/architecture.md:192`: "If local child cleanup
cannot be confirmed, the result sets `workspaceQuarantined: true` and the process keeps that
workspace reserved".  The catch block of `runStructuredChild` awaits
`boundedSettlement(disposeOnce())` (`dispatcher-child-runner.js:249`), which resolves within a few promise
turns when there is no `run` yet, and only then asks whether the start is unresolved (253).
A start that settles in those turns sets `run`; its handler begins a disposal in the
background, and the call returns with neither a confirmed cleanup nor a quarantine.  The
workspace is released over a child that may live (run `local_late`, seven states).  The
window is a few promise turns; testing `startSettled` before the await, or disposing again
after it, closes it.

**A draft is lost after a reconnect.**  The comment on `refreshAfterReconnect`
(`config-controller.ts:322`): "A dirty draft survives for explicit reconciliation".  Its reload keeps the
draft, but every load supersedes the one before it, and the load that a tab starts when it is mounted
without a snapshot (289) keeps nothing.  When the tab is left and mounted again while the reconnect's load is
under way, that load is discarded and the other's answer replaces the draft (`DraftsSurviveReloads`, `MCSettingsTab.cfg`).

**The final tree is not always whole.**  `dispatcher-telemetry.js:779` says that retention keeps the
whole final tree inspectable.  Descendants that ended more than the retention time before their
root do not: they are kept while the root is active, and vanish in the turn in which it ends.
`TreesStayWhole` therefore excepts what has expired by itself.

**Settled proposals and overlays may be disturbed.**  `config-proposals.js` says of `apply`: "Apply an
approved proposal once; exact retries return the cached receipt".  The settings are indeed changed
once.  The proposal's state is not as stable: the later of two concurrent approvals sets a committed
proposal back to approved (878), an expiry that awaited its audit overwrites a proposal committed meanwhile (841), and of
two concurrent stages of a subject one is lost (727).  `UncontestedIsFinal` and
`UncontestedOverlaysBuildUp` state exactly when none of this happens.

**Differences without a document.**  The two stores refuse the same completions with different codes
when both a stale lease and a cancellation apply; a repeated enqueue returns the row unswept in SQL and swept in
memory.  A child that never won a slot leaves no telemetry, so the dashboard shows its failed step as
ready.

## 6. Not modelled

* Schema creation, migration and connection handling of the store: I/O.
* Formats: prompts, reports, plan JSON, the decoding of snapshots and settings, rendering.  What a format
  decides about control (what a plan or patch must satisfy, what ends a task) is in the models.
* Workspace isolation: external Git commands and file system paths.  How path keys conflict is a constant (`Overlaps`).
* Macro planning (`macro-planning.js`) and the validation of the policy's schema: pure checks of documents, without state.
* Tools, shared helpers: registration and wrappers around the operations that are modelled.
* The generated client bundle `lib/client.js`: built from the sources in `src/client`.
* The rest of section 7.

## 7. Plan

In order; each module is written with constants and named assumptions, one action per
operation, and no RECURSIVE operator where proofs follow.

1. Done: `TaskRows`, `TaskStore`, `MemoryStore`, `TaskLedger`, `LeaseWorker`, `LeaseWorkerProofs`,
   `Grants`, `GrantLedger`, `Orchestration`, `OrchestrationProofs`, `ReadyScheduler`, `PlanProgress`, `SubtaskPlan`, `SubtaskPlanProofs`,
   `ChildRunner`, `LocalTasks`, `LocalTasksProofs`, `MasterPlan`, `MasterPlanProofs`,
   `ConfigProposals`, `ConfigProposalsProofs`, `Telemetry`, `Dashboard`, `SettingsTab`, `Pages`, `PagesProofs`,
   `Coordinator`, `CoordinatorProofs`.
2. `PathLeases`: the leases of overlapping paths, in place of the constant `Overlaps`.
3. `SubtaskPlan` composed into `Orchestration` in place of its open choices.
4. Done: proofs of every invariant and action property of the runs but `SchedulerIsRight` (section 4).
