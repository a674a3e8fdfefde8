# LLM-RIO: verification project

TLA+ models of the parts of LLM-RIO (`src/src/llm_rio/`) whose correctness depends on the order in
which things happen, the TLC runs that check them on small instances, and TLAPS proofs that hold
for every instance. Paths without a directory below are in `src/src/llm_rio/`.

Contents: 1 the system, 2 the modules, 3 the runs, 4 fairness, 5 the proofs, 6 disagreements
between the code and what it says of itself, 7 what is not modelled, 8 the plan.

## 1. The system

LLM-RIO is one asyncio process that serves chat completions from local inference engines
(vLLM, llama-server), each of them a child process on a set of GPUs. Everything that changes state
runs in one event loop: a step of the system is the code between two `await`s.

| component | state | operations | hard behaviour | what makes it correct |
|---|---|---|---|---|
| worker supervisor (`workers.py`) | `workers`, processes, admissions, `_drain_to_sleep`, the supervisor lock, a transition lock per worker | launch, readiness, monitor, admit, release, sleep, wake, drain, watchdog, stop, stop_all | a dozen coroutines move one worker, most await an engine or a process in between; engines die by themselves; shutdown cancels | no admitted request is offloaded or stopped, drains end, COLD means the process group is dead, GPUs hold no more engines than allowed |
| HTTP handler (`api/routes_inference.py`) | the request between reservation and settlement | reserve, record, enqueue, serve, finish, reject, stream finalizer | clients disconnect at any await, database writes fail | each reservation is settled once, each lease released |
| scheduler runtime (`runtime.py`) | `queues`, `_request_leases`, `_validation_gpu_uuids`, `_maintenance_requested`, one-time warms, the state lock, the service mode in the database | enqueue, route, release, expire, reap, worker events, measuring pressure, carrying out plans, maintenance, validation GPU leases | the router awaits between admission and lease; plans are carried out after awaits; the mode is read and written outside the lock | admissions, leases and rows agree, no waiter is forgotten, no engine is started beside a probe or in maintenance |
| admission queue (`queueing.py`) | per-tenant lines, deficits, a counter | put, pop, remove, drain | deficits, rotation and removals interact | capacities are kept, no tenant is overtaken without bound |
| storage (`storage.py`, `usage_summary.py`) | accounts, reservations, request rows, summaries, service mode, workers table, jobs | reserve, settle, quota edits, resets, summaries, recovery | settlements from many paths, edits and summaries in between, a crash between two transactions | tokens are conserved, charges are capped, lifetime usage survives deletion |
| planner (`planner.py`) | none: a function of workers, pressures, profiles and the clock | `plan()`: three planners (own GPUs, shared GPUs, shared GPUs with parked engines) | works on a snapshot; its decisions follow each other for hours | what it puts on a GPU fits, parked engines are used first, demand is served in the end |
| registration (`registration.py`, `api/routes_staff.py`) | `model_jobs`, `model_catalog`, a task per job, the validation lock | register, stages, retry, disable, complete, fail, resume | retries and restarts between commit and task | one validation at a time, no job without a task |
| validation (`validation.py`) | the probe engine and its GPUs | borrow GPUs, start, generate, sleep and wake, terminate | demand arrives in the middle, an engine that never starts | alone on its GPUs, yields to demand |
| profiles (`profiles.py`, `api/routes_admin.py`) | `model_profiles` | edit, switch, clone, replace | the context limit is a copy, kept by four writers; the host changes | limits match profiles, profiles are local |
| recovery (`recovery.py`, lifespan of `api/app.py`) | workers table against surviving processes | terminate recorded workers, recover rows | pids are reused, children outlive parents | nothing alien is killed, no engine is orphaned |
| the rest: API of administrators and staff, keys, configuration, inventory, engine patches, TUI, CLI, demos | | | | pure functions, input and output |

How they interact: the handler reserves quota and creates the row, puts the request in the queue
and waits on a future; the scheduler task pops it, admits it to a READY worker, marks the row and
puts a lease in the future; the handler calls the engine, settles and releases the lease, which
releases the admission at the worker, which may end a drain. The planner's actions (start, wake,
sleep, drain) are calls of the supervisor, and so are maintenance, validation and shutdown. A
failed engine is reported back to the scheduler, which refunds its leases. A registration job
borrows GPUs from the scheduler for a probe engine of its own and turns what it measures into
profiles, from which the planner chooses.

The hazards of the code, each at its line and with the properties that cover it, are listed in
`PROJECT.json`.

## 2. The modules

| module | models | proofs | instance |
|---|---|---|---|
| `WorkerContract` | what others rely on about a worker: phases, and which may hold requests | (is implemented) | |
| `WorkerSupervisor` | `workers.py`, `close()` of `runtime.py` | `WorkerSupervisorProofs` | `MCWorkerSupervisor` |
| `RequestLifecycle` | the path of a request: `routes_inference.py`, `runtime.py`, rows of `storage.py` | `RequestLifecycleProofs` | `MCRequestLifecycle` |
| `QuotaLedger` | quota methods of `storage.py`, `usage_summary.py` | `QuotaLedgerProofs` | `MCQuotaLedger` |
| `FairQueue` | `queueing.py` | `FairQueueProofs` | `MCFairQueue` |
| `Residency` | the scheduler's loop, maintenance and validation leases of `runtime.py`, `validation.py` | `ResidencyProofs` | `MCResidency` |
| `Planner` | `planner.py`, and the pressures and plans of `runtime.py` | `PlannerProofs` | `MCPlanner` |
| `ModelCatalog` | `registration.py`, `profiles.py`, `routes_staff.py`, profile handlers of `routes_admin.py`, their tables in `storage.py` | `ModelCatalogProofs` | `MCModelCatalog` |
| `SetTheorems` | no code: lemmas about minima and sums over finite sets, used by four of the proof modules | | |

How they compose: `WorkerSupervisor` implements `WorkerContract` (`ImplementsContract`, an INSTANCE with a
refinement mapping), and `Residency` EXTENDS `WorkerContract`: its workers move by the contract's
actions. What `Residency` says of the scheduler, the validator and the administrator therefore holds
for the workers the supervisor really has, without its coroutines and locks.

Each component module keeps its mutants (`Mut...`: the definition that follows with a plausible
bug) next to the definitions they stand for; they are used by no specification.

### WorkerSupervisor

State: for each worker id its `state` ("ABSENT" until `launch()` registers it), `gpus`,
`admitted` requests, whether it is in `drainToSleep`; the `engine`'s process group as the operating
system has it; and the control state of the coroutines: `launching` (whose launch keeps the
supervisor lock), `starting` (`_await_ready` polls), `monitored` (`_monitor` waits), `waiting`
(calls blocked on the transition lock), `holder` (the call that has it, and its phase), `writing` (a
`drain()` of an idle worker that writes its row before it stops it), `closed`. `unrecorded` is a history
variable: the workers that a raising write has left in the middle of a drain, an offload or a wake, until
another call takes them on.

* Launch: `Launch` is `launch()` up to its first await, `Spawn` and `LaunchRecorded` or
  `LaunchFailed` the rest. The supervisor lock is kept all along, so every other operation that
  takes it has `LockFree` in its guard.
* `EngineHealthy`, `StartupFails` are the ends of `_await_ready`; `EngineExits` is the process,
  `MonitorReports` is `_monitor`. `Fail` is `_fail` up to its first await, after which nothing it
  does can be seen by the others but the report (modelled in RequestLifecycle).
* `Admit`, `Release`, `Sleep`, `Drain` are the methods of that name up to the call of a transition,
  which they put in `waiting`; `Command` is a call from outside (planner, validation, watchdog).
* `drain()` of an idle worker sets DRAINING, then writes row and event, and only then stops:
  `DrainRecorded` and `DrainUnrecorded` (the write raised, nobody stops it, later drains return at once)
  are the two ends of the write.
* `BeginOffload`, `CallEngine`, `OffloadDone` and `BeginWake`, `CallEngine`, `WakeDone` are `_offload` and
  `wake` around the write and the engine call, with `TransitionUnrecorded` and `EngineCallFails` for what raises;
  `BeginStop`, `SignalStop`, `FinishStop` are `_stop` around its two awaits. A parent whose exit is
  already collected is not waited for.
* `Close` is `ResidencyScheduler.close()`: it cancels the scheduler task and with it any number of the
  transitions that run in it (`Cancelled`), and calls `stop_all(force=True)`.

Process groups: "parentless" is an exited API parent that may have left tensor-parallel children.
`stop()` only reads the exit status that the event loop has collected; the model lets it be
collected at once, and `MonitorReports` later.

### RequestLifecycle

State: the handler of each HTTP attempt (`pc`, `future`); the rows (`reservation`, `row`, `mode`);
the scheduler (`queue`, `drained`, `router`, `lease`, and `releasing`: release calls on their way);
of the supervisor what a request can tell (`up`, `admitted`, `failing`, `freeing`); refunds under
way (`failed`, `evicted`). `forgotten` is a history variable: waiters that a maintenance call took off the
queues and did not tell, because a refund before theirs raised.

An attempt has a request id `RidOf[a]`, which the client chooses, so two attempts (a retry) may
share one. Where a database call has no reader in between, it is one action with the code up to the
next await; the admission of a request (`RouterAdmit`, `RouterMark`, `RouterGrant`, and on errors
`RouterUndo`, `RouterRefund`, `RouterOrphan`) is split at every await. `Between` says that the
scheduler task is not inside the router, that is, that the state lock is free and that the other
phases of `_reconcile()` may run. `Cancel` is a disconnect at each of the awaits of the handler.
`Finish` is `_finish_lease` in its own task; the settlement may fail, the release is done anyway.
Each other refund may raise as well: that of the handler (`Reject`; the handler ends "unrefunded", with its
row and reservation open), those of the router (`RouterRefund`, `RouterOrphan`), and those of
`enter_maintenance()` (`RejectDrained`), where the exception ends the loop for all waiters after it.
`FailureEvent` is `worker_event("failed")`: its snapshot of the leases may miss one the router is about to
make, a failed write in `_fail()` may drop it, and a refund that raises ends its loop (`FailRequest`).
The queue is a set here (any request may be next): its order is `FairQueue`'s subject. Worker transitions are those of `WorkerSupervisor` as far as requests can
tell: `Drain` covers `sleep()` and `drain()`, whoever calls them, the drains of
`enter_maintenance()` among them; `Watchdog` is the forced stop.

`Restart` is a crash at any step followed by `recover_orphaned_state()`.

### QuotaLedger

One action per storage method that touches quota, each one SQLite transaction: `Reserve`, `Settle`
(with no use: `release_reservation`), `UpdateQuota`, `ResetUsage`, `AdminJoins` (`create_key` for an
administrator on an existing account makes it unlimited), `Summarize` (`summarize_usage`). `Lifetime`
is the view `account_lifetime_usage`. The cutoff of a summary is any set of settled rows, which
covers every order of settlement times. A summarized row is gone, so its id may be used again, as
in the code. `MaxLifetime` bounds how many tokens an account is ever charged: a bound of the model.

### FairQueue

`Put`, `Pop`, `RemoveRequest`, `Drain` are `put`, `pop`, `remove`, `drain`. The loop of `pop` visits
tenants in turn; the model computes the round and the place at which it returns (`LastRound`,
`LastPlace`, from the number of `Visits` each tenant needs) and what every tenant has collected by then
(`Credited`). `overtaken` is a history variable: how often `u`
was served while one and the same request was the head of `t`'s line. `MaxDeficit` bounds the
deficits, which have no bound in the code.

### WorkerContract

Two variables, the `phase` of a worker and the requests it is `serving`, and one action per move the
rest of the system can observe. It says what may be relied on: only a READY worker admits, parking and
waking happen to workers that serve nothing, COLD is the end. It does not say who moves a worker or how
long it takes. `WorkerSupervisor!Contract` maps `state` and `admitted` to it; every step of a coroutine
is one of these moves or a stutter.

### Residency

Three tasks that share the GPUs. `_reconcile` is split where it awaits: `ReadMode`, then `DecideDraining` and
`MarkReady` (read and write of the mode are outside the lock), or `Route`, `MakePlan` and one action per
planned action (`SleepOrDrain`, `WakeIfActive`, `LaunchIfActive`, the last two with the second look
`StillActive` under the lock), `PlanEnds` (also when an action raises). A plan is any set of actions
of one kind that the snapshot admits: which one is `Planner`'s subject. The validator: `Borrow` takes the
lease, `ClearWorker` parks or stops what is on the GPUs, `Recheck` goes on or gives up, then the stages of
`_probe_vllm` (`WaitForHealth`, `GenerationContract`, `SleepWakeContract`, `ProbeEnds`), each of which may
fail and where the code looks whether it is to yield (`ShouldYield`). The administrator:
`EnterMaintenance`, `DrainForMaintenance` (its loop over workers, after the lock), `Resume`. Three variables
keep what raising writes leave behind: `stuck` (workers in a transition that no call goes on with), `undrained`
(a history variable: the last `enter_maintenance()` broke off, or left a worker out that nobody will stop) and
`leaked` (GPUs on loan to a validation that has ended, since `validate_vllm` calls `acquire` outside its
`try`). `Restart` is a crash at any step. `Recheck` waits for the sleeps of a plan made before the lease was taken: they are called
in the loop's next round, at the latest while the validator waits for the workers it parks itself.

### Planner

`plan()` is a pure function; here a planner is the set of decisions it may take (`NativeFor`, `PrismFor`,
`CachedFor`, chosen by `planner`). What the code orders by time stamps or by the order of a stored list is left
open, and what it reads off the clock is a parameter (`Clock`): who is past its minimum residency, who has
been idle, who has had a fair share, whose requests have starved. `Fitting`, `First`, `Cheapest` are the
loops over profiles, GPU sets and subsets of blockers, with the code's orders as predicates. `Reconcile`
carries a decision out in one step, since only this loop starts, parks and wakes engines;
`LaunchAllowed` is the supervisor's own check. Around it: `Route`, `Measure` (`_pressures()` and preloads),
clients, `Proceed` and `Fail` of engines. The per-GPU vectors of a profile are equal over its GPUs, and
a request is one unit of token work. The two loops of the code whose iterations depend on each other (filling free
GPUs, waking one engine after the other) are sequences in which each element is chosen in view of those
before it and which end where nothing more can be chosen (`Fill`, `CachedWakes`).

Nothing is assumed of what a parked engine keeps: validation records it and compares it with nothing, an edited
profile is not validated again, and `prism_sleep_gpu_reserve_mib` is any number. The planner, on the other hand, parks an
engine without a look at its residual. `MemoryFits` is therefore about what the planner does control: it counts a
parked engine with its residual, but with no more than its footprint awake, and holds without any assumption.
`ResidualsFit` counts the residual whatever it is, as the text of the repository has it, and is refuted (section 6).

### ModelCatalog

The tables as the database has them (`catalog`, `job`, `stage`, `limit`, `stored` and `active` profiles), the
control state of each job's `task` (what it has still to try, what it has found), the validation
lock (`prober`), the handlers of registrations, retries and of a cloning, and two history variables: `broken`
(jobs whose failure could not be recorded, or whose handler was lost after its commit) and `missed` (jobs that were
started while their last task was warming, for which `start()` does nothing). A transaction is one action. A profile is
what identifies it here: model, host, shape, context length. `Advance` are the commits of `_run`, `Lock`,
`Probed`, `Preempted` those of `_validate_with_requeue`, `Complete` its last transaction, `Warmed` the call of
`warm_model_once` after it, `Fail` the end by an exception, which `_record_failure` records unless it raises itself. A
registration is two actions (`RegisterModel`, `Start`), a retry three (`RetryCheck`, `RetryCommit`, `Start`),
and `HandlerLost` is an exception or a cancellation before or after the commit; a cloning is two. `Restart` may change the host. Workers are not in this module: the drains that a
profile handler asks for afterwards are `WorkerSupervisor`'s.

## 3. The runs

| run | instance | what it shows |
|---|---|---|
| `worker_supervisor` | 2 workers, 1 request, GPU sets {g1}, {g2}, no sharing, at most 2 calls under way | The supervisor's invariants and its lifecycle under every interleaving, failed writes and shutdown included (1.65 million states). |
| `worker_liveness` | 1 worker, 2 requests, any calls, fair | The supervisor implements `WorkerContract`; no hand-over of a drain and no parking intent is lost; every drain ends unless a write of its transition raised, `stop_all(force=True)` ends (9,500 states). |
| `worker_shutdown` | 1 worker, 1 request, stops of the scheduler task only; **violation** | A shutdown in the middle of `_stop` leaves engine processes behind. |
| `request_lifecycle` | 2 attempts with ids of their own, 1 worker, capacity 2, fair | Rows, leases, admissions and waiters agree under cancellation, failure, maintenance and restart, every refund and settlement that raises included; every admission ends, unless its refund could not be written (94,000 states). |
| `request_retry` | 2 attempts with one id; **violation** | A retry takes away the admission of the attempt that is served. |
| `quota_ledger` | 1 account, 3 reservations, estimates 1 and 3, limits 2 and 4, lifetime at most 6 | Tokens are conserved, charges capped, totals survive summaries. |
| `fair_queue` | 3 tenants, 4 requests, costs 1 and 5, quantum 2, capacities 3 and 2, deficits up to 12 | The counter, the rotation and the bound on overtaking. |
| `residency` | 2 workers, 1 request, plans of one action, with the weight cache on {g1}, without it on {g1} and {g2}, fair | A probe is alone on its GPUs, MAINTENANCE_READY means cold, validation yields, a drain of the service ends unless a failed write or a parking stands in its way (170,000 states). |
| `planner` | 3 engines, 2 GPUs, 2 models (one engine per GPU; one across both; one residual above its footprint), all three planners, every clock | What is planned fits each GPU's memory, parked engines are woken before new ones are started (85,000 states). |
| `planner_reserve` | 2 engines, 1 GPU, 2 models with a residual above the footprint, weight cache; **violation** | Idle engines are parked although what they keep does not fit. |
| `planner_demand` | 3 engines, 1 GPU, 3 models, weight cache, fair; **violation** | A parked model that does not fit beside other parked ones is never served. |
| `catalog` | 1 uploaded model, 1 clone, context lengths 1 and 2, 2 hosts, 2 retries at a time, 2 profile rows | Limits, profiles, catalogue and jobs agree with each other and with the tasks (545,000 states). |

Why these bounds are enough to be interesting. Supervisor: the races are between the coroutines of
one worker and one request; two workers meet only in the supervisor lock and in the GPUs, hence two
of each; with one request per worker a drain has something to wait for, and the second request in
the liveness run lets one be released while the other remains. `MCFewCalls` bounds the calls under way in the
two-worker run (`MCMaxCalls`, not counting the forced stops of a shutdown): the code's races are between
pairs of calls, a third one queues behind them; `worker_liveness` has no such bound, and the theorems
none at all. `SchedulerSpec` of the shutdown run restricts the behaviours to those of a service in which
nobody but the scheduler task stops workers, since that task is the one that `close()` cancels, and in which the engine
does not exit between its signal and the shutdown: a counterexample is then one the code can take. The instance has exclusive GPUs; a
shared pool needs three workers to be exceeded, which is out of TLC's reach here, and is covered by
the theorem `GpuPoolsAreBounded`. Lifecycle: one worker is the hard case, since all admissions
compete for it and it may be drained, parked, woken and lost; with two attempts one of them may be served,
withdrawn or rejected while the other waits, and a maintenance call that breaks off forgets one; the theorems
cover any number. Ledger: estimates that do and do not fit the limits, so that
requests are refused and a limit can be lowered below what is reserved. Accounts do not interact in
any action, so one is enough. Queue: cost 5 needs three rounds of quantum 2, cost 1 leaves a
remainder that accumulates, and the bound of three overtakings is reached (2 is refuted).

Residency: one request is enough for demand to be there or not, and plans of one action for a late one. With the
cache two workers on one GPU are the hard case (both are parked for a probe, and may be woken); without it workers never
share a GPU, and two GPUs let a plan and a lease be about the same or about different ones (`MCPlacement`). The
theorems cover plans of any size and overlapping GPU sets. Planner: footprints, residuals and ceilings
are chosen so that the models exclude each other awake, and that a parked engine leaves room on one GPU and
not on the other, where it keeps more than it needs awake; in `planner_demand` one GPU holds one engine awake and the three do not all fit
around the largest. Catalog: one clone and one upload meet in every table; two retries race; two rows
allow one profile to be edited into another. The second candidate shape is covered by the theorems
only (`Shape = {1}` in the instance).

Symmetry is used over workers and GPUs of the supervisor, reservations, tenants and requests, engines of the planner,
hosts and retries, in safety runs only. Deadlock is checked except for the supervisor, which may stop for
good: worker ids are finite in the model and a closed service has nothing left to do.

Every property has a mutant of the code in `PROJECT.json` that violates it in the same run.

## 4. Fairness

Safety is checked and proved without fairness. The liveness runs assume:

* The event loop runs every task that is ready: weak fairness of each coroutine step; strong where
  the step needs a lock others take again and again (`asyncio.Lock` is fair to its waiters), and for
  the scheduler's reaper, which runs every tick (`scheduler_tick_seconds`) but only between
  routings.
* Of drains that are called again for ever one is recorded (strong fairness of `DrainRecorded`); that a given
  write succeeds is not assumed. What follows a write that raised is exempt from the properties, by name (below).
* Engine calls and process waits end: `prism_transition_timeout_seconds`, and the timeouts of 5 and
  30 seconds with SIGKILL behind them in `_stop`. An engine is healthy or fails in the end; with
  the default `worker_startup_timeout_seconds = None` a hanging start is not bounded by the code,
  so for LOADING this is an assumption about the engine. `DrainCompletes` and `ShutdownEnds` do not
  need it: a stop does not wait for the start.
* Serving ends (`Release` in WorkerSupervisor, `Finish` in RequestLifecycle): the client goes away,
  the engine answers, or a timeout strikes. With the default `worker_request_timeout_seconds = None`
  that is an assumption about engine and client, not a guarantee of the code.

* `residency`: in addition the service dies finitely often, and the validator's task goes on where the code
  lets it: a probe engine may be starting for ever, except that the loop that polls it looks whether to
  yield. That is what makes `ValidationYields` say something: it fails when the loop does not look.
* `planner_demand`: the behaviours most favourable to demand, so that its violation is not an artefact: no engine
  fails, no client gives up, every clock has run out.

Nothing is assumed of clients, administrators, what a plan contains, or restarts: they may act at any time or
never. Nor of failures, but for the drains above: any write may raise at any time. Where the code then stops short, the model does too, and the
property says so by an exemption whose cause is a variable of the model, so that nothing else is exempt:

| property | exempt | because |
|---|---|---|
| `NoStrandedDrain`, `DrainCompletes` | `unrecorded` | a raising write in `drain()`, `_offload()` or `wake()` leaves the worker where it is; only a stop by watchdog, validation or shutdown, or a later engine exit, goes on with it |
| `NoLostWaiter` | `forgotten` | a raising refund ends the loop of `enter_maintenance()` |
| `AdmissionEnds` | handlers that end "unrefunded" | the reaper takes only leases whose row has ended |
| `MaintenanceCompletes` | `undrained`, `leaked` | the loop of `enter_maintenance()` broke off or met a worker that is being parked; GPUs on loan keep the service from being ready |
| `ValidationYields` | `leaked` | a lease whose event could not be written is nobody's |
| `JobIsRun` | `broken`, `missed` | the failure of a job is itself written to the database; `start()` takes a warming task for a running one |

None of these states is repaired by the code before the next restart, resume, retry or stop by others; each is a
hazard in `PROJECT.json`.

## 5. The proofs

tlapm checks every theorem with Z3, Zenon and, for the temporal steps, LS4. All have the form
`Spec => []Inv`, `Spec => [][A]_vars` or, for the refinement, `Spec => ImplementsContract`, with no bound on any
constant beyond the named assumptions (`SupervisorAssumption`, `QuotaAssumption`, `RequestAssumption`, `QueueAssumption`,
`CatalogAssumption`, and `ProfileAssumption`, `PlannerAssumption` of the planner), which TLC
evaluates in each run. Every invariant and every action property of the passing runs is proved.

**SetTheorems** has the arithmetic of finite sets that the others cite. A sum (`SumFunctionOnSet`) is a fold that takes the
elements in an unspecified order, and the library's induction over finite sets cannot be used here; the lemmas
go by a least counterexample instead: subsets of a finite set are well founded, so among the subsets for which
a statement fails there is a least one, and removing an element from it gives a contradiction. In this way sums exist,
do not depend on the order (`SumRemove`), split (`SumUnion`), are monotone (`SumMonotone`) and follow a change of one
summand (`SumChange`).

**WorkerSupervisorProofs** proves every safety property of the run. They are not inductive alone;
`IInv` adds: a worker that is being launched is in no other coroutine's hands (`LaunchIsPrivate`),
what has calls or tasks is registered (`KnownWorker`), before shutdown a STOPPING worker is held by a
`_stop` (`StoppingIsHeld`), an `_offload` is queued only for a worker that serves, drains or ends
(`OffloadWaits`), and a live worker is watched by launch, monitor or stop (`Watched`). The GPU bound is an argument of its own on cardinalities: only `Launch` adds a
live worker to a GPU, and `CanShare` has counted the others. `DrainIsHandedOver` is the hand-over of a drain across
the write in `drain()`: between DRAINING and the stop the worker is in `writing`, and the only other way for it to be
without a call is a write that raised. `SupervisorImplementsContract` takes the same
invariant: its lemma `ContractStep` names, for each action, the move of the contract it makes.

**QuotaLedgerProofs** proves every property of the run. `IInv` is `TypeOK`, that only finitely many rows exist at a time
(`FiniteRows`: without it the sums mean nothing; the number has no bound) and the three invariants. For each
operation a lemma says what it moves between balance, open reservations and usage (`ReserveMoves`, `SettleMoves`,
`SummarizeMoves`, `RowsUntouched`); `TokensAreConserved` and `LifetimeIsMonotone` add these up, and
`PeriodUsageNeverNegative` follows, since a baseline is copied from a lifetime that never goes down.

**FairQueueProofs** proves the three properties of the run for any number of tenants. The bound on overtaking needs to know
why it holds: `PassedIsPaid` says that whoever was overtaken p times by one tenant has been visited at least p - 1
times since, p times if that tenant is ahead of it again (`Passed`), that each visit has added a quantum to its
deficit, and that the deficit still does not cover its head request. So (p - 1) quanta are less than the cost.
The steps rest on lemmas about sequences of tenants (rotation, removal, joining: who is `Ahead` of whom
afterwards) and about rounds (in the round in which `pop()` returns nobody before its place is covered).

**RequestLifecycleProofs** proves type correctness in general and the four invariants under
`Injective` (attempts have request ids of their own); without it two of them are false, which is
what `request_retry` shows for one of them. `IInv` adds what is true of a request before it is
recorded, queued and admitted (`EarlyIsUntouched`, `EarlyIsUnsettled`, `QueuedIsUntouched`), that the
router's request is in nobody else's hands (`RouterOwns`), also when its refund raises, that a request is admitted at one worker
at most (`OneAdmission`), that a lease is released only when its request is over (`ReleasedIsOver`),
and that a lease in a future already is an admission, unless its worker is lost
(`GrantedIsAdmitted`).

**ResidencyProofs** proves the three invariants of the run. `ResidencyInv` adds: only a worker that is or was
open to requests has any (`QuietUnlessOpen`); only draining workers are to be parked, and only with the cache
(`ParkingDrains`), nor does a plan put others to sleep (`PlannedToSleep`); an idle validator holds nothing
(`IdleHoldsNothing`); on the GPUs of a probe nobody serves and nobody is to be parked by a plan or a drain
(`ProbeUndisturbed`); and between the decision that all is cold and the write of the mode nothing is
started, since the one task that could is the one that writes (`ColdWhenMarked`). Its type invariant also accounts
for the GPUs on loan: they are those the validator holds and those that leaked, and no GPU is both.

**ModelCatalogProofs** proves the five invariants. `CatalogInv` adds: one prober (`OneProber`), a task that locks or probes
has a candidate left (`CandidateLeft`), a warming task means a weight cache (`WarmingIsCached`), rows belong to
registered models (`RowsAreKnown`), what a cloning has read is of this host (`CloneIsLocal`). That no job is stranded is proved for both cache
modes, with failures that are not recorded and handlers that are lost: `NotLeftToTheWarming` and `Started` follow
a job from its commit to the task, through the starts of other handlers (`StartsOfOthers`). The limit needs a minimum of
a finite set of lengths, from the well-foundedness of the naturals.

**PlannerProofs** proves the three properties of the run for any fleet, profiles and limits. What the engines hold and serve
is counted by functions on all worker slots (`Held`, `Share`), in which a slot that does not count contributes
nothing, so that a step changes a function at some slots and the set stays the same. `IInv` adds that requests are
bounded whoever serves them (`RequestsBounded`), that there is room for what is held by every engine on a GPU,
stated per ceiling (`RoomOnGpus`), that only the weight cache parks engines and only those it can share
(`OnlyCacheParks`), and that preloads are of models nobody asks for (`WarmingIsUnasked`). `PlanDecides` goes through the
three planners and says what a decision can be (`Decided`): nothing, engines to park, to drain, a chain of wakes, or
engines to start. Parking and draining make no engine heavier (`RoomKept`). A start fits by the planner's own
sum, which is an upper bound of what is held (`RoomFor`). Of a chain of wakes the last one on a GPU was seen to fit among
all the others that hold memory there, those woken before it included (`RoomToWake`). What a parked engine
counts for is at most its residual, which the planner adds up, and at most its footprint, so that parking never
makes an engine heavier: this is what takes the place of an assumption on residuals. `ParkedBeforeStarted` needs that a parked
engine is of a profile that the planner considers, which is where `OnlyCacheParks` comes in.

Only model-checked: the liveness properties (`DrainCompletes`, `ShutdownEnds`, `AdmissionEnds`, `ValidationYields`,
`MaintenanceCompletes`), because TLAPS does not handle ENABLED, on which fairness rests. The four properties of section 6 are
refuted by TLC.

## 6. Where the code disagrees with what it says

1. **Shutdown leaves engines** (`worker_shutdown`). `close()` cancels the scheduler task; if it is in
   the wait of `_stop()` (workers.py:675), the `finally` clause declares the worker COLD without the
   SIGKILL that "Reap that exact group before declaring it COLD" announces, and `stop_all()` skips
   COLD workers. The run: launch, readiness, a drain by the planner, its row written, SIGTERM, `Close`,
   and only then the parent exits and leaves its children.
2. **Retry under the same request id** (`request_retry`). The second attempt's failed admission is
   undone at the worker under the id both share; the worker may then be offloaded while it serves
   (README.md:67: "The scheduler never offloads a worker with an admitted request.").
3. **A parked model is starved** (`planner_demand`). "When the latter is full, real demand evicts the
   least-recently-used sleeping process" (README.md:70): only for a model that has no parked engine
   itself. One that has is woken or waits (planner.py:325-355), and parked engines of models nobody
   asks for may keep it from ever fitting.

4. **Parked memory is not bounded** (`planner_reserve`). "The planner accounts for [...] each sleeping worker's
   measured residual allocation, against the strictest colocated `gpu_memory_utilization` ceiling" (README.md:75),
   and a placement must pass "VRAM-reclamation checks" (README.md:62). The residuals are added up when an engine is
   started or woken, not when one is parked, and no check compares memory asleep with memory awake.

The properties that fail hold, and are checked or proved, where their cause is absent: `ServedIsAdmitted` for ids
that are not shared, `ColdIsReaped` until shutdown, `MemoryFits` for what an engine keeps up to its footprint.

Weaknesses met on the way without a text of the repository that they contradict clearly are hazards in
`PROJECT.json`: a quota saved while a request is in flight makes its reservation available twice; a crash
between reservation and row lets a retry with the same id be served on the settled reservation; a worker that
was being parked when maintenance began stays asleep and holds it up; with the weight cache, a retry while the
finished task is still warming its model writes QUEUED and starts nothing, after which retries are refused (409) until
the next restart; and what the raising writes of section 4
leave behind.

## 7. Not modelled

* The HTTP exchange with an engine, streaming and parsing: an engine call succeeds or fails.
* Prompt estimation and the validation of bodies: an estimate is a number from a set.
* The refunds `close()` makes before `stop_all`: `Restart` settles the same reservations.
* Keys, groups and grants: they decide whether a request arrives at all.
* `quota_ledger`: an audit trail nobody reads.
* Inventory, engine patches (`prism*.py`, `kvcached*`), TUI, CLI, demo scripts: input and output or
  third-party behaviour. TUI and CLI are a fifth of the source and keep no state of the service.
* `recovery.py`: which process may be killed depends on command lines in `/proc` and on reused pids; a model
  would be one of the operating system. The database side of a restart is in the `Restart` actions.
* Measurements, log parsing and command lines of `validation.py`; `llama_validation.py`, which has no caller.
* Usage windows and per-model columns of summaries: shown, never decided on.
* Engines that are STOPPING in `MemoryFits`: the planner does not count them, although they still hold memory.
* Time: residencies, idle windows and fair shares are nondeterministic (`Clock`), timeouts may strike at any time.

## 8. What could follow

1. `Recovery`: a process table with pids that are reused, and crashes at each await of `launch()` and `_stop()`.
2. `Planner` over `WorkerContract`, with a second specification in which its decisions are carried out action by
   action, so that `Residency` and `Planner` share one loop.
3. `RequestLifecycle` over `WorkerContract`, as `Residency` is: its `up` and `admitted` are the contract's.
