# Verification of eval-harness

TLA+ models of eval-harness, the TLC configurations that check them on small
instances, and theorems about them that TLAPS proves for every instance. The
source is `src/eval_harness/` of the repository; line numbers are of that tree,
and documents are those under `docs/`.

`PROJECT.json` says for each definition which lines it models (`map`), for each
run what it checks (`runs`), for each property a plausible bug that it catches
(`mutants`), what is hard to test in this code (`hazards`), what is proved
(`theorems`) and where the code does not do what its documents say (`findings`).

    tlc -workers 2 -config Workspaces.cfg MCWorkspaces    # one run
    tlapm WorkspacesProofs.tla                            # one module of proofs

## The system

`evalh run` reads `eval.yaml`, builds a plan (the matrix cases × variants) and
gives each cell to an executor. For each cell the executor runs a system under
test, perhaps in a workspace of files, enriches and saves the trace, lets the
evaluators judge it, saves the verdicts, and counts the outcome; at the end a
summary is saved. Later commands (`run --retry-only-failed`, `re-evaluate`,
`compare`, `drift`, `promote`, `inspect`) read, and some of them extend, the run
directory.

| Component | State | Operations | Hard behaviour |
|---|---|---|---|
| Run loop: `runner/run_eval.py`, `core/executors/local.py`, `runner/summary.py`, `runner/cost_accumulator.py` | coroutine per cell, semaphores, exit stack, running cost, aggregator, `sink_errors` | open, dispatch, `_run_one`, short-circuit, ingest, save summary, close | interleaved cells, cancellation at each await, one cell's exception reaching all, cost read before it is added |
| Task executors: `ray/celery/modal_executor.py`, `_worker.py` | handles, `_we_initialised_ray`, default thread pool, tasks of the backend | init, submit, get, ingest, shutdown, worker | blocking SDK calls in a bounded pool, timeouts with late answers, crashed workers, Ctrl-C while a thread works |
| Kubernetes executor: `k8s_executor.py`, `_worker_main.py` | Job and ConfigMap per cell, object under the cell's key | create, poll, read, delete; the pod | names and keys outlive an attempt, cleanup in `finally` under cancellation, TTL |
| Run directory: `local_files_store.py`, `run_reader.py`, `cli/commands/run.py`, `re_evaluate.py`, `plan_builder.py` | `traces.jsonl`, `results.jsonl`, `config.yaml`, `summary.yaml` | save, retry, re-evaluate | crashes between and inside writes, append-only files read by later commands, a dataset that changed |
| Databases: `sqlite_store.py`, `postgres_store.py` | rows keyed by cell, one shared connection or a pool | open, five saves, streams of rows, close | a transaction shared by coroutines, read-then-write without a lock, cancelled saves, a pool that streams hold |
| Workspaces: `adapters/workspace/*` | directory, git repository, docker volume, helper containers, manifests | prepare, collect, cleanup | threads that outlive the await, systems that outlive their timeout, swallowed docker errors |
| Services: `docker_adapter.py`, `git_branch_adapter.py` | container, process, worktree, port | start, health check, inner adapter, stop | teardown order, Ctrl-C between an effect and its callback, somebody else on the port |
| Calls of the system: `adapters/system/*` | one HTTP call or stream, process, thread, conversation | run | truncated streams, two timeouts on one process, a conversation that breaks in the middle |
| Evaluators: `evaluators/*`, `core/llm_backends/*` | none between cells | judge one trace | models, embedders and processes that fail or hang, failed cells, cost limits |
| Platforms: `_platforms/*`, the datasets, sinks and enrichers on them | registries of clients with reference counts, span queues | acquire, search, poll, push, flush, release | clients shared across adapters and runs, releases that miss their entry |
| Comparison: `compare.py`, `drift.py`, `promote.py`, `_deltas.py`, `baseline.py` | two run directories, a symlink | deltas, drift, promote | several rows for one cell, concurrent and killed promotes |
| Dataset files, reports, inspect, configuration, factories | none | — | pure |

They interact by `await`ed calls inside one event loop; by
`asyncio.to_thread`, whose threads go on when the coroutine is cancelled; with
workers through the backend; with platforms through shared clients; and with
earlier and later invocations through files and databases. What makes them
correct:

- run loop: permits are conserved on every path; a verdict follows its trace; the
  summary agrees with the canonical sink and names every sink that lost a trace;
  the budget is overshot only by what was in flight; every run ends;
- executors: `dispatch_all` returns an outcome of every cell or does not return,
  and a Ray that the process had is not shut down, one that a run started is; a Job that is polled is the
  attempt's own; a run that returns has left no object in the cluster;
- run directory: a retry that reports nothing left to do is right; what succeeded
  is not executed again; nothing on disk rests on a trace that is not there;
- databases: a save that answered is durable; an error does not replace a success
  that was there first; no call waits for ever;
- workspaces: an artifact shows all of the work of its own cell and nobody else's, but for
  what a shared volume or an uncommitted fixture lets in; nothing is left on disk; no helper container stays behind;
- services: nothing that was started is left; what is taken down is taken down in
  order; the service that is asked is the one that was started;
- calls and evaluators: a trace accounts for the whole call; a check passes only
  on what the trace holds; every cell is judged and every evaluator gets a row;
- platforms: nobody's client is shut down by somebody else's release, and what was
  saved arrives;
- comparison: the numbers of a report agree with each other and with the other
  report; a baseline is replaced in one step.

## Modules

| Module | Models | State ↔ code | Actions ↔ code |
|---|---|---|---|
| `RunContract` | what a run promises of its cells | sets of cells on the canonical sink | abstract |
| `LocalExecutor` | `run_eval` with the local executor | `pc[c]` is the await the coroutine of cell c is suspended in, `run` and `depth` the driver and its exit stack, `permits` the semaphores, `disk`/`results` the canonical sink, `mirrored`/`sinkErrors` the others, `kill`/`exc` a CancelledError or exception on its way | an action runs from one await to the next |
| `ExecutorContract` | what `run_eval` relies on in an executor | outcomes obtained and counted | abstract |
| `RemoteExecutor` | Ray, Celery, Modal, the shared worker | `waiting`/`busy` are the queue and the threads of the default pool, `task` the backend, `ray` the process's Ray and `owned` who started it, `struck` where Ctrl-C came | an SDK call starts and returns in separate steps |
| `JobsExecutor` | Kubernetes executor, pod, cluster | `job`, `maps`, `pod`, `stored` the cluster and the object store, `call[c]` the await, `attempt` the invocation | one API call per step |
| `RunDirectory` | one directory over several commands | `traced`, `judged`, `config`, `summary`, `torn` the files, `pc`, `plan`, `stage` the process | one write per step; `Dies` between and inside any of them |
| `TraceDatabases` | one run in SQLite or Postgres, written by several processes | `db` the committed rows, `pending` the open transaction of a process, `call[w]` the await of a coroutine, `reading` the open cursors, of streams and of SELECTs that were cut short | one statement or commit per step; a crash (`Die`), a cancellation (`Cancelled`) and a lock timeout (`Locked`) at each |
| `Workspaces` | the three workspace adapters around a system | `dir`, `vol`, `repo`, `extracted` what is on disk as functions from paths to contents, `helpers` the containers, `at[c]` the await, `abandoned` the threads nobody awaits | one await, one docker command of a thread, or one write of the system |
| `Services` | docker and git_branch adapters of one run | `load` and `tree` the container or process and its worktree, `holder` who listens on a port, `turn`/`at` the adapter and the await the run is in, `struck` where Ctrl-C came, `stuck` and `littered` what docker, git or the disk refused | one await, one effect of a thread, or one event of the host |
| `SharedClients` (its `ClientsSpec`) | platform clients and whoever shares them, over several runs of one process | `registry`, `otel` the entries with their counts, `holds` the reference of each adapter, `nested`, `closed`, `down` the clients, `queue`/`arrived` the spans | one construction, await, exit or collection per step |
| `SystemCalls` | the system adapters inside one cell | `pc` the await of `adapter.run`, `messages`, `replies`, `costs`, `tools` the local variables of a conversation, `log`/`stream` a stream, `conn`, `proc`, `thread` what is held | one answer, line, exit or failure per step; `Cut` is the runner's timeout |
| `Evaluators` | what each evaluator makes of what it sees | — | operators |
| `CellPipeline` | `SystemCalls`, then the evaluators gathered over its trace | `at[e]` the await of an evaluator, `row[e]` its result, `paid[e]`, `command[e]` | one await per step |
| `Deltas` | the arithmetic of `drift` and of `compare` | — | operators over bags of rows |
| `Baselines` | promote and drift beside other commands | `link`, `tmp` the symlinks, `results`, `exists` the run directories, `promote[p]`, `drift` the commands | one system call per step |
| `MC*` | constants for TLC | | |
| `*Proofs` | theorems and their lemmas | | |

`LocalExecutor` implements `RunContract`; `RemoteExecutor` and `JobsExecutor`
implement `ExecutorContract`, the latter once per attempt. The other modules
refine what `LocalExecutor` calls by one name: `Workspaces` preparing, collecting
and cleanup; `CellPipeline` (`SystemCalls` with `Evaluators`) the call and the
gather; `Services` and `SharedClients` opening and closing; `RunDirectory` and
`TraceDatabases` saving. They stand alone so that each stays checkable: in
`Workspaces` a cell's remaining stages are single steps that may raise, in
`RunDirectory` cells are recorded in any order.

## Runs

Twelve runs, each of which ends in less than five minutes with two workers.

| Run | Instance | Shows |
|---|---|---|
| `LocalBudget` | 3 cells; one variant capped at 1, the other enriched and on a pool of 1; a limit of 1 and cells that cost 0 or 1; failing adapters and a failing secondary sink | the overshoot is at most one cell per permit (`OvershootBounded`); the summary counts what the sink holds (`SummaryAgreesWithSink`); soft failures never keep a run from its summary (`RunPublishes`) |
| `LocalHard` | 2 cells on 1 permit, a workspace, a secondary sink; Ctrl-C at each await; canonical-sink, evaluator-normalisation, prepare, cleanup, open and close failures | `PermitsConserved`, `SummaryNamesLossySinks`, `UncancelledCellRemovesWorkspace`, `RunEnds`, and the refinement `ImplementsContract` |
| `Remote` | Ray and Celery, 3 cells, 2 threads, 2 slots, all failures, Ctrl-C at each await, a Ray that is up or not | `RayIsLeftAsFound`; `RunEnds` with threads joined, or for ever in `ray.get`; `ImplementsExecutor` |
| `Jobs` | 2 cells, one with a ConfigMap, 2 attempts, Ctrl-C in the first, all failures | `ReturnedRunIsCleanedUp`, `WatchedJobIsOwn`, `AttemptEnds`, `ImplementsExecutor` |
| `RunDirectory` | 2 cases, 1 variant, 4 commands or edits, a crash anywhere | `AmendedRunIsRecorded`, `RestsOnTraces`, `SuccessIsNotRepeated` |
| `Databases` | 1 cell; two coroutines of a run and one of a retry; 3 calls, 3 opens, a pool of 1; either database; cancellation, lock timeouts, crashes | `AnsweredIsDurable`, `OnlyRacesReplaceSuccess`, `CallsEnd` |
| `Workspaces` | 2 cells, a tracked and an ignored path, three types, with and without a fixture, which is no repository or one with uncommitted work; a late system, all failures but Ctrl-C | `DiffIsOwnWork`, `NothingIsLeft`, `CellsEnd` |
| `Services` | 2 adapters of either type, 3 ports, one stranger, one Ctrl-C, all failures | `NothingLeft`, `NoProcessLosesItsTree`, `OpensOnItsContainer`, `RunCloses` |
| `Clients` | 2 runs of a dataset adapter, a trace store and 2 enrichers; six kinds of target; with and without a key; searches that fail, runs cut short in planning and opening | `RegistryServesHolders`, `NoEnrichmentDies`, `SpansArrive`, `RunsEnd` |
| `CellPipeline` | 1 cell; six kinds of call, alone or (stream, sync, replay) in a conversation of 2 turns; targets that report metrics of a stream, embedded traces that succeeded or failed; 19 configured evaluators, one at a time | `ConversationIsWhole`, `StreamAccountsForItself`, `NothingLeftRunning`, `PassesOnlyOnEvidence`, `JudgeWithinLimit`, `CellIsJudged` |
| `Comparison` | 2 runs with 3 rows between them, 2 promotes that may overlap or be killed, one drift, deletions | `ReportAddsUp`, `PromoteIsAtomic` |
| `RetryCrashed` (violated) | as `RunDirectory`, 2 commands | `CrashedRunIsRetried`: Concurrency.md:299 says that what a run which crashed in the middle left is valid and a retry picks up its missing cells. `RunReader` refuses a directory without `summary.yaml` (run_reader.py:50), though `config.yaml` and every line are whole, one cell is recorded and one is missing |

The type invariants are in no run, as they are theorems (that of `Baselines`, which
only documents its variables, apart).

### Bounds, and why they are enough

- *Cells*: one to three. Each interaction in the code is pairwise (a permit, a
  thread, a volume, an exception that cancels the rest); `LocalBudget` has three
  because the overshoot needs two in flight and one refused, `Remote` three so
  that two blocked gets leave a call waiting for a thread. Rows of different cells
  do not meet in a database, but for the shared transaction, which `Databases`
  exercises with two coroutines of one process.
- *Faults*: the constant `Faults` (`ClientFaults`) names which failures an instance
  may have. The Local runs share them out, because all of them together exceed the time of a
  run: soft ones on a budget, hard ones with Ctrl-C.
- *MaxCost, CostLimit* 1 each: a cell costs nothing or reaches the limit alone, and
  with the two permits two cells pass the guard before either has paid.
- *MaxAttempts* 2 and *Interrupted* = {1}: what an attempt may meet is what one
  earlier attempt left; older leftovers have the same names.
- *MaxInvocations* 4: run, crash or edit, retry, and a command on what that left.
- *Databases*: 3 calls, so that a write can fall between the read and the write of
  another while a third waits; 3 opens, so that a process that crashed comes back
  beside the other; a pool of 1 is the one that can be exhausted. `Ops` are the two
  saves of a trace, the only ones with a key in common.
- *Paths* of `Workspaces`: `Touched` lets a system write both paths under git, and one
  otherwise, since only the git adapter treats an ignored path in another way.
  Contents say who wrote a file, which is all that `DiffIsOwnWork` tells apart.
  `SomeHeads`: the fixture is no repository, or one whose code was never committed and
  whose ignored file was, and is gone.
- *`Workspaces` without `"cancel"` in `Faults`*: a Ctrl-C at any moment is left out to
  keep the run small. The same action (every live cell is cancelled at its await,
  its thread goes on) still fires whenever a cell raised, which is at every stage.
  The theorems hold for any `Faults`, so with it. `SharedVolume` is FALSE:
  `NothingIsLeft` is about cells with volumes of their own, as docker does not remove one
  that another cell holds. `DiffIsOwnWork` is a theorem for either value.
- *Kinds* of `Remote`: Modal differs from Celery in names only.
- *Services*: two adapters give the exit stack an order; a stranger takes one port,
  once. One Ctrl-C: the second kills the process.
- *Clients*: a process is configured for one target, so a registry has one entry;
  two runs, as what the second finds is what the first left. `Attempts` 2: one retry.
- *CellPipeline*: `MaxEvents` 2 lines of a stream are enough for one line before and
  one after the end marker; `MaxTurns` 2 and `StopTurns` 1 for a conversation that
  stops early, at its limit, or breaks in its second turn. Inside a conversation a
  stream comes as raw chunks only (`InnerFormats`), since every format is there in the
  calls that stand alone and the conversation keeps nothing of the difference. Evaluators
  share nothing, so one at a time; prices 0 to 2 around a limit of 1.
- *Comparison*: three rows put a fall, a rise and a case of one run only into one
  report. Drift reads two bags, so what it reports is checked as an invariant of any
  two runs in every state.

### Fairness

Weak fairness of each coroutine and of the driver: the event loop is fair and no
coroutine runs for ever between awaits. An await ends because `wait_for` bounds the
system (`LocalExecutor`, `Workspaces`), docker commands and k8s polling have
timeouts of their own, a broker call answers or raises, and a file operation
ends.

- Nowhere is fairness assumed of Ctrl-C, of failures, of the system under test after it
  was given up (`LateSystemEnds`), of the cluster (`AttemptEnds` holds on one that
  never runs a pod), or of a worker. A Celery or Modal task that never answers does not
  keep the run; a Ray task does, as neither `ray.get` nor the worker has a timeout
  (ray_executor.py:202, 277), and `RunEnds` says that nothing else does: the run ends or
  waits in such a get for ever. `ray.init`, `ray.shutdown` and the calls of a broker are
  taken to answer or raise.
- `Services`: nothing is assumed of a service or of a health check's answer; the
  deadline of the polling is. A process that got SIGKILL is reaped.
- `SharedClients`: nothing is ever ingested, and nothing sent before it is flushed, for
  certain; the clock reaches the end of a wait.
- `CellPipeline`: no peer of the call has to answer, since `Cut` (the timeout of
  `wait_for`) does; `CellIsJudged` exempts a synchronous target on the event loop
  (python_function_adapter.py:110), where no timer fires. Evaluators run under no
  timeout of the runner, so models and embedders are taken to answer or fail.
- `TraceDatabases`: a statement answers or gives up after SQLite's busy timeout; a
  consumer of a stream ends it. `CallsEnd` needs the latter, as the pool may be of one.

## Proofs

Eight modules, each for all values of the constants that the named ASSUMEs allow.

- `LocalExecutorProofs`: `TypeInvariant`; `PermitsInvariant` (permits left plus
  cells inside make the capacity; a sum over a finite set that changes by the one
  cell that moves) and with it `CapRespected`; `JudgedInvariant` and
  `RefinesContract`. The last two need `Phases`, because "a verdict stands beside its
  trace" is not inductive: a coroutine about to save a verdict must be known to
  have saved the trace. `Phases` says so at each await, under each exception and
  cancellation, and the steps of `RunContract` follow from it.
  `SummaryInvariant`, `LossInvariant` and `WorkspaceRemoved` rest on `Books`: at each
  await what a coroutine holds in memory is what the sinks have of its cell, each
  secondary sink has its trace or is on the list of errors, the tally counts exactly
  the cells that are done, and what was published is the tally when all were.
  `OvershootInvariant` rests on `Budget`: the total leaves room, below the limit plus one
  cell's cost per permit, for every cell past the guard that has not paid. As each has a
  permit of its own there are at most `Capacity` of them, which is an injection
  of the cells inside into the finitely many `Slots`; for that the variants are taken to be
  finitely many, as those of a plan are.
- `RemoteExecutorProofs`: `TypeInvariant` (calls in threads never exceed the
  threads), `RayInvariant`, `RefinesExecutor`. Its `Phases`: a submit that returned
  has no call left, waiting or in a thread, that could start its task again, so
  what the driver got stays what the worker answered; the aggregator holds the counts
  of all cells exactly when `dispatch_all` returned. `RayFits` follows the calls of
  `ray.init` and `ray.shutdown` through the queue of the pool: neither is on its way
  when the process had a Ray, and a Ray that is up belongs to the process, to the
  executor, or to nobody because Ctrl-C came in one of the two.
- `JobsExecutorProofs`: `TypeInvariant`, `WatchedJobInvariant`, `CleanupInvariant`,
  `RefinesExecutor`. Its `Phases`: a handle stands for a Job of this attempt, and a
  coroutine past a delete call has nothing left to delete.
- `RunDirectoryProofs`: `TypeInvariant`, `AmendedInvariant`, `RestsInvariant`,
  `NotRepeated`. Its `Phases`: while an invocation runs it knows which of its cells
  are recorded, those it left out were good when it was planned, and those it still
  has to do need it; nothing is ever removed from the append-only files.
  The same module proves `ReportInvariant` and `AtomicPromotes` of `Baselines`. The first
  is arithmetic: the results are finite bags in every reachable state, and for finite bags
  the difference of two cardinalities over a union is that of the improvements and the
  regressions.
  The second rests on `PromoteInv`: a promote that is not `shared` is the only active
  one, so what it has seen of the temporary symlink is still so.
- `WorkspacesProofs`: `TypeInvariant`, `DirectoryInvariant`, `HelpersInvariant`,
  `VolumeInvariant` for cells with volumes of their own, and `NothingInvariant`, which
  is the three together. The invariant has three parts. `Order`: a cell is cancelled
  at most once, so it leaves at most one thread, and a cancelled cell is in its cleanup
  or ended. `Storage`: a directory or volume is there while a cell or a left thread
  needs it (a volume with a helper cannot be removed). `HelpersAwaited`: a helper
  stands for a thread past its start, which is why no helper of the cell holds the
  volume when an uncancelled cell reaches its cleanup. `DiffInvariant` adds `OwnWorks`:
  a volume holds the fixture and the work of the cells that name it, a directory that of its
  own cell; what is extracted, seen and collected at each await is what was there, and the
  commit of a git workspace is one that its fixture came with or that records what `prepare`
  saw. It has no hypothesis on the configuration: what a shared `volume_name` and
  uncommitted work of the fixture let into a diff is part of the statement.
- `TraceDatabasesProofs`: `TypeInvariant`, `DurableInvariant`. That an answered write
  is durable is not inductive, since coroutines of a process share a transaction that
  any of them may commit or roll back. The invariant adds: at most one process has
  rows pending (the database lock); stamps come from the clock, and what is pending is
  newer than what is committed, so a commit by anybody replaces no row by an older one;
  the row that a coroutine waits to commit is in the open transaction of its process or
  already, as itself or as a newer one, in the database.
  `RacesInvariant` adds `Knowing`, because whether a success may be replaced is decided
  before the write: what a call knew of a success when it began is no newer than what
  it sees now, and what it is about to write, or has pending, does not replace the very
  success it knew. `AsksAgain` tells the store that looks a second time from the one that
  does not.
- `CellPipelineProofs`: `TypeInvariant`, `StreamInvariant`, `ConversationInvariant`,
  `NothingRunsInvariant`, `EvidenceInvariant`, `LimitInvariant`. The invariant has a half for
  the call (`CallInv`) and one for the checks (`CheckInv`). In the first, a thread, a process and a connection
  belong to the place of the coroutine that awaits them, the counters follow the log while
  `pc = "stream"`, and the trace of a failed call is empty, unless a failure is what was
  replayed. The second needs that a call which
  is over changes its trace no more (`OverIsOver`), that an evaluator which has not called
  its model has paid nothing, and that one which has was not refused. The conversation has
  `TalkInv`: users and assistants alternate, the place tells how many messages, costs and
  replies of the stop judge there are, no turn so far met the criterion, and `sums` adds the
  costs up turn by turn. The running total is a variable of the model, as `sum_cost` is of
  the code, since what a fold returns cannot be proved here.
- `ServicesProofs` on `Services`: `Invariant`, `TypeInvariant`, `NothingLeftInvariant`,
  `TreesOutlive`, `OpensOnItsOwn`. Its `IInv` follows a load from the command that starts it
  to the one that takes it down: it is on the exit stack, in the hands of a thread, or left for one of the
  reasons that `NothingLeft` names (`WillGo`). That this goes on until the stacks are
  empty rests on `Strikes`: a Ctrl-C is followed by nothing but the unwinding.
  `Served`: a docker container that is up listens on the port of its adapter.
- `ServicesProofs` on `SharedClients`: `ClientsInvariant`, `RegistryInvariant`,
  `EnrichmentsInvariant`, `SpansInvariant`. That a registry serves its holders is not
  inductive, as an acquire would have to know how many clients there were and a release whose
  entry it drops. `Borrowed` says who holds a reference by how far the run is, be it planned or refused, `Registered`
  that everybody who holds something holds what the registry has, and that a nested OTel client
  goes down only with its owner, `Created` that a run creates at most one client of either kind.
  `Piped`: what is queued for a client waits while its store holds it, and every saved trace is
  queued or has arrived. `Closings`: a client that an enricher closed stays in the registry
  only for a run that was cut short.

Lemmas on `Cardinality` and sums come from `FiniteSetTheorems`; `Deltas` takes the bags
of `Bags` under a name (`B`), since the prover's copy of that module and `FiniteSets`
define the same names.

Every invariant and action property that a run checks is a theorem. What stays
model-checked is the liveness, which is out of the prover's reach: `RunEnds` (of
`LocalExecutor` and of `RemoteExecutor`), `RunPublishes`, `AttemptEnds`, `CellsEnd`, `CallsEnd`,
`RunCloses`, `CellIsJudged`, `RunsEnd`; and `CrashedRunIsRetried`, which is violated.

## Assumptions

- One invocation at a time works on a run directory (run ids have a resolution of one
  second). `Databases` does without this assumption.
- Case ids are distinct; the loaders do not check it (local.py:143 would give two cells
  of one key to the sinks).
- Pool capacities and `max_concurrency` are positive (`CapAssumption`); the configuration
  does not reject 0, and a cell of such a semaphore waits for ever (local.py:239).
- Kubernetes names are distinct for distinct cells; a Job that is still polled outlives
  its TTL; API calls do not queue for threads; the API server grants deletes for a
  whole run or refuses them for a whole run.
- The result of a walk, a copy or a git operation is atomic. `DiffIsOwnWork` speaks of
  systems that are over, for which it makes no difference.
- The limit of a judge and the `min_calls` of a `tool_called` check are not negative
  (`ConfigAssumption`); `validate_config` does not check their sign.
- A process has adapters for one target of one vendor.
- Enrichers change nothing that an evaluator of `CellPipeline` looks at: the error trace
  of a failed call names no upstream trace, so they raise on it; replayed traces are
  taken not to be enriched.

## Divergences

Met while modelling; those without a run follow in one step from the code, so a run
would show nothing, or share a run's place with a property that says more.

Run loop.
- Adapters.md:116, close comes "after all cases complete": `gather` hands on the first
  exception while other cells run, and the exit stack closes their adapters (local.py:161).
- Concurrency.md:32 bounds the cells in adapters by `max_concurrency`; pools and
  per-variant caps each count on their own and their sum may exceed it (local.py:231).
- Concurrency.md:240-242 promises a partial summary and removed workspaces on Ctrl-C; no
  summary is written, and a cell cancelled inside `prepare` leaves its directory and volume.
- Concurrency.md:33: an exception of `prepare`, of the canonical sink or of
  `collect_artifacts` aborts the run.
- Concurrency.md:224: a cell with an error is judged like any other and may pass. A replayed
  trace that was recorded as a failure keeps its answer, tool calls and metrics
  (replay_adapter.py:68-88), so even a check for their presence may pass on it;
  inside `user_simulator` the error of such a turn is dropped.
- ConfigSchema.md:78: the price table fills the cost after the trace was saved and judged
  (local.py:218). No `http` trace has a cost of its own, so `cost_under` fails every
  cell of examples/model_fleet/eval.yaml:99 with "cost not reported by adapter", under a
  summary that shows its cost.
- README.md:198: a secondary sink that fails in `save_summary` is noted after the
  summary was written (run_eval.py:133).
- `run.retry.on`: nothing retries. A `RetriableError` becomes an `adapter_error` trace;
  `runner/retry.py` has no caller.

Executors.
- Executors.md:11, results are written through the configured store: no distributed
  executor opens the store, and the run fails after all its work (run_eval.py:133).
- `run_eval` builds every executor with `pools` alone (run_eval.py:118), so those that
  need a broker, an app or an object store cannot be constructed by the CLI.
- Celery and Modal send the cell without `case_dict` and `eval_config_dict`
  (celery_executor.py:172); no worker applies the per-case timeout (Concurrency.md:225,
  ray_executor.py:277).
- PRD.md:93: one crashed worker aborts the run.
- k8s_executor.py:295, the read picks up what "the pod" wrote: the key names the cell, not
  the attempt, so an outcome of an earlier attempt is taken (line 298).
- When the Kubernetes timeout passes, an outcome that is already stored is not read
  (line 290); a Job that is gone when its status is polled raises (line 481). A Job create
  that fails leaves its ConfigMap (Executors.md:176-178).
- k8s_executor.py:631-641 says that ids which differ only in punctuation never collide;
  up to 50 characters they do.

Run directory and databases.
- CLI.md:37, a retry re-executes only the failed cells of the run: a fresh run id seeds
  another sample (plan_builder.py:109), so the retry of a sampled run takes other cases.
  `AmendedRunIsRecorded` therefore leaves sampled datasets out.
- A retry that dies between the trace and the verdicts of a cell leaves a good trace that
  no later retry judges (run_eval.py:383).
- Roadmap.md:165: `save_trace_idempotent` has no caller. Adapters.md:544-553 and
  Executors.md:80 describe overwriting and a WHERE clause; local files append, and
  postgres upserts unconditionally (its docstring, postgres_store.py:180-183, says
  otherwise). Adapters.md:564 speaks of WAL mode, which sqlite is not put into, and of
  safe writes, which races are excepted from. A plain `save_trace` sets `cell_id` to null
  again. `list_run_ids` lists the runs with a trace in sqlite (sqlite_store.py:275) and
  every run that was opened in postgres.
- The error row of a cell stays after a successful retry, so the next retry takes it again.
- `evalh retry-failed` does not exist; `re-evaluate` appends to `results.jsonl`.
- DataModel.md:345 calls the summary safe to delete; the reader refuses without it.

Comparison.
- `compare` and `drift` AND all rows of a case, those before a retry or a re-evaluation
  included, so neither ever clears a case that failed once.
- CLI.md:91 says that both share `_deltas`; `compare` has an arithmetic of its own. A case
  that the second run lacks is a regression for `drift` and no difference for `compare`.
- A baseline whose run was deleted counts as no baseline: `drift` exits with 0, although
  `list_baselines` calls it an operator bug that drift surfaces explicitly.
- The temporary symlink of `promote` has a fixed name; two promotes at a time may raise or
  answer for each other (baseline.py:70).
- `RunSummary.comparison` is always `ad_hoc` (comparison_writer.py), so the drift section of
  the webhook's message (_platforms/webhook.py:90) never appears.

Workspaces.
- Filesystem.md:226, "The system can't fight the evaluator (it's already done)": a
  synchronous `python_function` target, or a cli process whose await the runner cancels, goes on.
- Filesystem.md:180, 240: `artifacts_path` is not a copy but the live directory, and
  evaluators run before the teardown. The directory a docker volume was extracted to is
  never removed, though cleanup is "mandatory" (Filesystem.md:249).
- Filesystem.md:207: under git the diff leaves out ignored files and contains what was
  dirty in the fixture before the run.
- Filesystem.md:246, "No shared state": cells with a configured `volume_name` share it.
- No system adapter reads `metadata.volume_name`; what a system writes to the path it is
  given is not in the volume that is inspected.
- With an object storage, `artifacts_path` is a URL and the command evaluator finds no
  directory. The factories never pass an object storage.

Systems, evaluators and platforms.
- Adapters.md:329, the target is called "directly": one that is a plain function is called
  on the event loop first and again in a thread (python_function_adapter.py:110-114).
- Variants.md:112-114 has git_branch clone, install and capture the port; it adds a
  worktree, and picks a port before the command binds it. `_find_free_port` trusts that
  the command "will fail loudly" when somebody else has the port; a command that goes on
  is not noticed and the stranger is asked (git_branch_adapter.py:198-205). A worktree that
  git would not add leaves its temporary directory, and one that it would not remove is
  left without a word (git_branch_adapter.py:246-271).
- Adapters.md:315 has failed streams emit a trace with `error`: a stream that the server
  cuts short is a trace without one, and only `stream_completed` is false. Inside
  `user_simulator` that flag is lost.
- Adapters.md:270 wants the time to the first output token; the first event of a stream
  counts, whatever it says (http_adapter.py:291).
- The documented `stream_tool_call_field: $.choices[0].delta.tool_calls` finds a list, and
  only a dict is taken.
- Adapters.md:436: `cost_limit_usd` of `user_simulator` reaches a backend that ignores it,
  and what its models and judges cost is not in `cost_usd`.
- Evaluators.md:148, a required assertion fails the evaluator: not with `majority` or `k_of_n`.
- Evaluators.md:346 has `tokens_per_second_above` compare with `>`; it compares with `>=`, and
  a stream that came within a millisecond fails it as "not streaming".
- phoenix.py:304 has the last release close the client. A plan that is refused after its enrichers, or a trace
  store on an SDK, were built (plan_builder.py:142-156) never gives their references back; and
  with an api_key (arize: or a
  space_id) a release does not find its entry, and nothing is ever given back
  (phoenix.py:307, arize.py:381).

## Not modelled

Each with its reason in `PROJECT.json`, `components`. In short:

- dataset files, configuration, factories, reports and `inspect` are pure functions of
  files; the models start from what they produce;
- the webhook store posts one message when a run ends and is a secondary sink that may
  raise for `LocalExecutor`; `runner/retry.py` has no caller;
- payloads, formats, price tables, masking and authentication change no control; where a
  number is compared with a threshold the models leave the outcome open;
- `list_run_ids`, `load_summary` and the single-cell getters of the stores and of the reader.

## Plan

Done, in this order: `RunContract` and `LocalExecutor`; `ExecutorContract` with
`RemoteExecutor` and `JobsExecutor`; `RunDirectory`; `Workspaces`; `Services`;
`SharedClients`; `SystemCalls`, `Evaluators` and `CellPipeline`; `TraceDatabases`;
`Deltas` and `Baselines`. What would come next:

1. An abstract specification of a system adapter (one trace or an exception, nothing held
   afterwards) that `SystemCalls` and `Services` implement, and that `LocalExecutor` is
   composed with.
2. Theorems on how the parts combine: what `NothingIsLeft`, `NothingLeft` and the refinements
   say of one run when `LocalExecutor` calls the parts.
