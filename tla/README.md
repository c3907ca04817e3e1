# Verification of oz-agent-worker

`oz-agent-worker` is a daemon that connects to a server over a WebSocket,
accepts task assignments and prewarm requests, runs them on one of four backends
(Docker, Kubernetes, direct subprocess, operator-supplied command), and reports
what became of them. These modules model the process's own concurrency: the
reader, the goroutine of each task, the goroutine of each cancellation, standby
sandboxes and their exit watcher, the outbound queue, the connection's loops and
the way out through shutdown; and the four backends against what they run on: a
Kubernetes cluster that loses answers and replaces Jobs, a Docker daemon whose
volumes and containers outlive the worker, subprocesses that leave others behind.
They are checked with TLC on small instances, and every safety property is proved
with TLAPS for every configuration.

Paths below are relative to the repository root; `worker.go` stands for
`internal/worker/worker.go`.

## 1. Inventory

| Component | State | Operations | Talks to |
|---|---|---|---|
| Task admission and execution (`worker.go` 513-1085) | `activeTasks`, `completedTasks` with its FIFO `completedExecutions`, `taskSemaphore`, `taskWG`, `oneShot` | `handleTaskAssignment`, `executeTask` and its deferred bookkeeping | reader, `Backend.ExecuteTask`, outbound queue |
| Task cancellation (`worker.go` 564-652) | the entry's `cancellationSource`, `done`, `cancellationStarted`; `cancellationWG` | `handleTaskCancellation`, `cancelTaskOnBackend` with retries | reader, `Backend.CancelTask` |
| Standby sandboxes (`standby.go`) | `standbys`, `standbySemaphore` (or the tasks'), `standbyExits` with its FIFO | create, destroy, run, exit, the watcher's callback | reader, backend, outbound queue |
| Shutdown (`worker.go` 1240-1349) | `shuttingDown`, the wait with its timeout | `shutdownTasks`, `shutdownBackend` | all of the above |
| Connection (`worker.go` 277-511) | one socket, three loops in an error group, backoff | `Run`, `connect`, `serveConnection`, `readLoop`, `writeLoop`, `heartbeatLoop`, `gracefullyCloseConnection` | server, outbound queue |
| Outbound queue (`outbound_queue.go`) | bounded channel, `closed`, a mutex held through `Send` | `Send`, `Close` | every goroutine that reports; the writer |
| Kubernetes backend (`kubernetes*.go`) | Jobs and Pods in the cluster, watches | run and observe a Job, stop, expire and delete it under UID preconditions, standby Jobs that outlive the process, setup events | Kubernetes API |
| Docker backend (`docker.go`) | containers, images, sidecar volumes | run, cancel, pull policies, populate and reuse volumes | Docker daemon |
| Direct and command backends (`direct.go`, `command.go`) | workspaces, process groups; nothing | setup, run, teardown; dispatch and cancel hooks | subprocesses |
| Task telemetry (`internal/tasktelemetry`) | bounded buffers, OTLP sessions | write, flush, shut down | OTLP endpoint |
| Configuration, messages, metrics, logging | none that the rest reads back | parsing, formatting, counting | - |

Where the difficulty lies:

* **Admission is not atomic.** An assignment is accepted in one critical section
  of `tasksMutex`, takes a semaphore unit outside it, and is inserted in a
  second. The signal and `shutdownTasks` may fall between. Every way out has to
  undo exactly what was taken: the `WaitGroup`, the unit, the one-shot
  acceptance.
* **Who stopped the task?** A failed execution is reported as failed, cancelled,
  `graceful_shutdown`, or not at all, from flags that the signal, a user and
  `shutdownTasks` write concurrently with the execution's own end.
* **Cancellation outlives execution.** It waits for `ExecuteTask` to return, is
  retried for as long as the worker lives, and needs the entry the execution
  would otherwise delete.
* **Redelivery.** The server repeats assignments and cancellations; a bounded
  cache decides whether one is a duplicate.
* **Preserving backends** (Kubernetes, command) leave tasks running on shutdown,
  so shutdown stops the *observation*, and the error this causes is not the
  task's.
* **Two producers of one message.** A standby's exit is reported by its
  goroutine or by the backend's watcher.
* **The queue outlives connections,** and its mutex is held by a sender that
  waits for room, so closing it waits for a connection that may be down.
* **A Job is known by name and must be meant by UID.** Between a read and the
  write that follows it the Job may finish, be deleted, or be replaced by
  another under the same name; watches replay, go silent and close; a request
  may be carried out and its answer lost.
* **What becomes of the Job** when `ExecuteTask` leaves depends on the context,
  its cause, the result, and how much of the pod's end has been seen.
* **A volume exists before it is filled.** Docker tasks share one volume for each
  sidecar digest. Its population takes many requests, each of which may fail, hang
  or be cancelled, while other tasks wait for the same volume.
* **Objects outlive the process.** Standby Jobs are found again by the next
  process; what the last one knew about them (reported or not, dirty or not) is
  gone.
* **A killed command is not all of its processes.** What it has started may hold
  its pipes open, and `Wait` waits for the pipes.
* **Snapshots arrive late, twice and out of order,** and setup phases are to be
  reported once and with the right times all the same.

`PROJECT.json` lists each hazard at its line with the properties that would
catch it.

## 2. Modules

| Module | Models |
|---|---|
| `WorkerState` | what tasks and standbys share: the worker context, `shuttingDown`, `taskSemaphore`, `taskWG`, the reader; the configuration constants and their assumption |
| `WorkerTasks` | assignment, execution, cancellation, the completed cache, one-shot state |
| `WorkerStandbys` | standby create, destroy, run, exit reporting, the exit watcher's callback |
| `Worker` | the composition, the signal, `Run`'s way out; the properties and the inductive invariant |
| `TaskLifecycle` | the abstract specification: what the worker promises about executions |
| `Connection` | `Run`, `serveConnection`, the three loops, the outbound queue |
| `WorkerProofs` | type correctness of `Worker` |
| `WorkerSafety` | the inductive invariant on executions and the theorems that follow from it |
| `WorkerAccounting` | the semaphores and `taskWG`, the one-shot task, the drain |
| `WorkerRefinement` | the two bounded caches, spawned tasks, and that `Worker` implements `TaskLifecycle` |
| `ConnectionProofs` | the invariant of `Connection` and its safety theorems |
| `KubernetesJob` | `ExecuteTask` and `CancelTask` of the Kubernetes backend, and the cluster they work against (external) |
| `KubernetesProofs` | the invariants on UIDs and on stopping, and the theorems that follow from them |
| `BackendConfig` | which backend a process runs and the settings that change what it does (`main.go`, the `New...Backend` functions) |
| `DockerBackend` | `ExecuteTask` and `CancelTask` of the Docker backend: images, sidecar volumes, the container; the daemon and the registry (external) |
| `Subprocess` | a command under a context, and the processes it leaves behind |
| `DirectBackend` | workspaces, setup, agent and teardown commands, `Shutdown` |
| `CommandBackend` | the dispatch and cancel commands under their time limits |
| `KubernetesStandby` | `WatchStandbyExits`, its callback and `runStandby`, over worker processes |
| `SetupEvents` | the setup phase tracker over the snapshots of a pod |
| `Backends` | the composition of these backends under one configuration, and its fairness |
| `BackendProofs` | theorems about `KubernetesStandby`, `DirectBackend` and `SetupEvents` |
| `DockerProofs` | theorems about `DockerBackend` |
| `MCWorker`, `MCConnection`, `MCKubernetesJob`, `MCBackends` | instances for TLC |

### State and actions

Every critical section of `tasksMutex` is one action; what a goroutine does
between two of them that another goroutine can observe is an action of its own.
The reader runs one handler at a time, so its position is one variable
(`reader.at`): `idle`, `accepted` (past the first critical section), `acquired`
(holding a unit), `claiming` (entry inserted, "claimed" not yet sent),
`creating` (a standby inserted), `stopped`.

A task's goroutine is `exec[k]`: `claiming`, `executing`, then what `ExecuteTask`
returned (`completed`, `spawned`, or an error), then `finishing` or
`interrupted`, then `none`. What remains after the bookkeeping (release the
unit, signal one-shot completion, `taskWG.Done`) is the same for every execution
and is counted in `tail`, so that a redelivered key may run while an older
goroutine of the same key is still leaving.

The entry `activeTasks[k]` carries the source of a cancellation, the spawned
mark, whether `done` is closed, and where its cancelling goroutine stands
(`none`, `waiting` for `done`, `calling` the backend, `backoff`, `stopped`).
Contexts are predicates: `TaskCtxDone` and `BackendCtxDone` say whether the
task's context and the one `ExecuteTask` gets have ended, `interrupted` that the
cause of the second is `errObservationInterrupted`. The first cause of a context
wins, so a task the user cancelled is not interrupted by a later shutdown.

`status[k]` is the last status message sent for the current run of `k`. `exitLog`
holds the sandboxes of the last `CacheSize + 1` exits that were handed to `Send`,
one more than the cache `standbyExitIDs` remembers; nothing is removed from it but
the oldest.

The backend is its contract: `ExecuteTask` may return any outcome at any time,
the `task_cancelled` error only when its context has ended; `CancelTask` may
fail any number of times.

In `Connection` each of three messages is one `Send`: called, waiting for the
mutex, in the select with the mutex held, sent or failed. The socket is `open`,
`broken` (the peer or the network is gone, which one more write may fail to
notice), `closed`, `none`, or `never` before the first dial succeeds. Run's
position distinguishes the steps of `gracefullyCloseConnection` (`closing`,
`flushing`, `cancelled`). The histories `accepted`, `written` and `lost` are there
for the properties.

`KubernetesJob` has one execution, of a task or of a standby (`standby`, which
`Init` leaves open). `job` is what the API server stores under the
Job's name, with UID and `resourceVersion`; `pods` has one pod for each UID, since
`backoffLimit` is zero. `jobEvents` and `podEvents` are what the two watches have
still to deliver. ExecuteTask's position is `step`: every request to the API
server is one step, so that the cluster may move between any two. `observed` is
the variable `job` of the code, the snapshot it goes by; `fetched` the one that
`expireAbandonedJob` reads again. The worker's part is `ContextEnds`, with the
cause `cancelled` or `interrupted` (`errObservationInterrupted`). ExecuteTask ends
as `returned`, `detached` (the context had ended and the Job is left alone),
`stop_failed` (the error says that the Job may still be active) or `delete_failed`
(its delete failed, which is only logged). `created` is set
as soon as the Job exists, also when ExecuteTask does not learn of it; `writes`
is the history of the worker's patches and deletes. For a task, the worker calls
CancelTask when ExecuteTask has returned; for a standby, `handlePrewarmDestroy` ends
the context and calls it at once, so that it runs beside ExecuteTask. `overtaken`
remembers that it began before Create was answered.

`DockerBackend` has a call of ExecuteTask for each of `DockerRuns`; `docker[p]`
holds its position, its context and its locals, and they are forgotten when it
returns. Every request to the daemon is one step, which succeeds, fails, or is
carried out and its answer lost. A volume is its content, a digest, and whether it
is complete; its name is the repository and the digest that was read. `gate` (the
set of runs that hold it, at most one) and `dirty` are the two fields of
`sidecarVolumeState`. `taskContainers` tells whether
the worker knows a container's ID, only that one may exist, or nothing.
`CrashDocker` starts another process with the same daemon: gates, marks and
tracked containers are gone.

`Subprocess` is a command's own process and whether others hold its pipes.
`runTaskCommandReturns` is the condition under which `runTaskCommand` comes back:
with a log reporter the pipes are closed or `WaitDelay` is over; without one the
output goes to the worker's own files, and only input that nobody reads can hold
it up. `DirectBackend` has two or more runs, their directories and the command
each waits for; `SweepWorkspaces` is `Shutdown`, which the worker calls when every
run's context has ended but not every run need have returned. `CommandBackend` has
one task, because tasks share nothing there.

`KubernetesStandby` keeps the Jobs of the sandboxes over several processes.
`exitEvents` is what the open watch has still to deliver, `exitsReported` the map
`reported` of `WatchStandbyExits`, `exitCall` the exit it is handling: the report and
the delete are two steps, between which the shutdown may begin. `localStandbys` is
where `runStandby` stands for the sandboxes this process has made; its ExecuteTask
may also return while the Job runs (`StandbyFails`). `sendStandbyExit` hands an exit
to `Send` once in a process (`exitsHanded`), and `Send` takes it (`exitsSent`) or
refuses it (`sendsFailed`), which the code only logs.

In `SetupEvents` the pod's states so far are a sequence, and `observePod(n)` shows
the tracker any of them at any time, in any order and any number of times. `Shown`
says, from the order of the pod's containers, which phases a pod has gone through:
that of the sidecars lasts from the start of the first copy to the end of the one
with which they end, and so on. The tracker takes minima and maxima over all
containers' times instead; `Shown` is the reference that what it reports is compared
with.

`Backends` runs one of them, as `config` says. Its parts share no variable but
`config`, so that the variables of the other backends keep their initial values.

### Abstractions

* Payloads, task parameters, environment, logs, traces, metrics and messages of
  rejection are left out: nothing in the modelled state depends on them. A
  duplicate or rejected assignment that changes nothing is no action.
* The second duplicate test of `handleTaskAssignment` is the guard `~Known(k)` of
  `Claim`; the theorem `Admission` shows that it never fails, so its branch needs
  no action.
* `executeTask` reads the context's cause and then the cancellation source; the
  two reads are one action. The source only moves from empty to one value, and
  the cause is set under the same lock.
* The waits of `shutdownTasks` for the watcher goroutine and for the log and
  trace sessions only take time.
* In `Worker` a lost connection is a reader that receives nothing; `Connection`
  has the sockets. A handler that is running when its connection ends finishes,
  as in the code, because the loops are waited for. `Connection` lets
  `shutdownTasks` take any time and return.
* The watcher reports one exit at a time (its loop is sequential), and one
  destroy per sandbox is outstanding at a time.
* In `KubernetesJob` a pod is one of six states; `failing` stands for every
  condition `inspectPodFailureAt` calls a failure although the phase is not
  `Failed` (a container that exited, cannot pull its image, is evicted or
  unschedulable). Which of them it is only matters for the report.
* A request is carried out, if at all, before its caller stops waiting for it: one
  that arrives at the API server or the daemon only after its time limit is not
  modelled.
* The retries inside one read or delete are one step that succeeds or fails: a
  retried read changes nothing, and a retried delete has the same precondition.
  The retries of `requestJobExecutionStop`, which read again, are modelled.
* Zero parallelism, a deadline of one second and `suspend: false` are `expired`:
  the Job starts no pod, and Kubernetes ends what runs.
* `NoCleanup` of the Kubernetes backend only leaves out the delete after success.
  Kubernetes' own TTL controller is not modelled: it deletes finished Jobs long
  after the steps that are.
* In `DockerBackend` a pull is one step that may replace the local image and fail
  all the same, or resolve to an image of another platform. The extraction ends
  well only while the worker feeds it. What a container writes into a volume that
  is mounted read-write is left out, as is what `tar` makes of an export that
  breaks off at the end of a record.
* A worker process is in only one of the parts `exits` and `setup` of the Kubernetes
  configuration: the two share no state.
* Native sidecars do not restart in `SetupEvents`, and pods are not replaced
  (`restartPolicy` is Never and `backoffLimit` zero).
* An active standby Job's watch events are passed over by the code without effect
  and are not modelled.

## 3. Runs

| Run | Instance | Shows |
|---|---|---|
| `docker` | cancelling backend, two executions of one run on two slots, a sandbox on a slot of its own, cache of one | semaphore units are balanced; a goroutine runs exactly while its entry is open; a redelivered execution is refused unless evicted; the cache's map and list agree; the queue is closed only after the tasks; nobody adds to `taskWG` after the flag; `TaskLifecycle` is implemented |
| `kubernetes` | preserving backend, an execution and three sandboxes on one shared slot, exit cache of two | `taskWG` counts exactly who has still to leave; a task's `CancelTask` never overlaps its `ExecuteTask`; shutdown reaches everybody; no preserved task is reported failed; units balance; of three exits in a row that are handed to `Send` no two are of one sandbox |
| `oneshot` | one-shot worker with a cancelling backend, offered two executions | one is claimed; completion follows its report; the worker then exits, if it is connected or gets a connection again |
| `drain` | spawning backend whose `CancelTask` may fail for ever, one of two keys without execution ID | spawned entries stay until the backend accepts a cancellation; `TaskLifecycle` is implemented; a signal ends the process; if the backend keeps its contract, a user's cancellation is carried out or the worker stops |
| `queue` | three senders, capacity one, one-shot | no send on a closed channel, order kept over reconnections, one writer, a graceful close over a live connection flushes; a signal ends `Run`, dead connections are left, every `Send` returns |
| `oneshot_exit` | as `queue` | *violation*, see Findings |
| `job` | a task's or a standby's Job, two UIDs, two attempts to stop it | the worker writes to no Job but its own; a returned failure leaves nothing that can run; a cancellation reported as done has removed the Job or, for a standby whose `CancelTask` overtook `Create`, left it to ExecuteTask; a stopped observation leaves it alone for good; ExecuteTask returns after its context's end and after the Job's, with watches that may be silent |
| `lost_create` | as `job`, one attempt | *violation*, see Findings |
| `backends` | each backend and each of its settings; see Bounds | no run mounts a half-filled volume, short of a crash while it is filled; a successful `CancelTask` leaves no container of the run; no run's workspace is removed by another; each process reports a standby's exit once, never deletes a Job whose exit was neither handed to `Send` nor left to `runStandby`, and every exit is sent by some process unless `Send` refuses it or `lost_exit` happens; the tracker reports exactly the phases the newest snapshot shows, but for `native_anchor`; every backend call returns once its context has ended, but for `dispatch_limit` |
| `lost_exit` | Kubernetes, one process | *violation*, see Findings |
| `native_anchor` | Kubernetes, the pods of `backends` | *violation*, see Findings |
| `dispatch_limit` | Command, one task | *violation*, see Findings |

### Bounds

* Two executions of the same run are enough for every pair of interleavings the
  mutex allows (admission against execution, cancellation or finish of another),
  and for a cache of one to evict. The execution-less cancellation needs two keys
  of one run. `MCLegacy` has a key without execution ID, which is never
  remembered.
* `CacheSize` is 1 or 2 instead of 4096 (`completedExecutionCacheSize` and
  `standbyExitCacheSize`), so that eviction happens.
* `MaxGoroutines` caps `taskWG`: without it, goroutines that the scheduler never
  runs could pile up behind redelivered assignments. With two or three an
  old goroutine that is on its way out overlaps with a new admission; where there is
  one slot, it does so after it has given the slot back.
* Three messages and a queue of one: one queued, one sender waiting for room, one
  waiting behind it for the mutex.
* `MaxUID` is 2: either a predecessor whose pod is still there with the
  execution's label and the execution's own Job, or the execution's own Job and a
  replacement. The proofs of `OwnJobOnly` and `CancelRemoves` have no bound.
* `MaxAttempts` is 1 or 2 instead of `kubernetesAPIBackoff`'s: two are enough for
  an attempt with a fresh snapshot to follow one with a stale one. `MaxEvents`
  bounds how far a pod watch lags; the initial events of a reopened watch may
  exceed it.
* In `backends` a Docker task and a sandbox use one image both as the task's image
  and as a sidecar: one gate is then contended, and the pull for the task's image
  may move the tag under the sidecar's volume. `MaxDigest` is 2, a tag and its
  successor; `MaxCrashes` is 1, so that a second process meets what the first has
  left.
* Two Direct runs of one task, a legacy one and an execution, are the pair whose
  directories could coincide. One dispatched task stands for all.
* Two sandboxes and `MaxProcesses` 2: an exit handled while another is waiting, and
  a process that finds what its predecessor has left.
* `InitLists`: a native sidecar before two copies, the setup command before a
  container of the template, and no init container.
* Three sandboxes and an exit cache of two in `kubernetes`: three exits fill the
  log of three, and each may come again once the cache has forgotten it. The
  sandboxes are interchangeable and the run has invariants only, so that it uses
  their symmetry (`MCSandboxSymmetry`). The other runs use none: where there is a
  set to permute they have liveness properties, or too few elements to gain by it.

### Fairness

`Scheduling` is weak fairness of each goroutine's own steps: the reader's current
handler, each execution past `ExecuteTask`, each canceller (its attempts have
deadlines and its backoff a timer), each standby past `ExecuteTask`, the watcher
once it is about to send, and `Run`, which leaves the service of connections for
the end of its context. Nothing makes `ExecuteTask` return, `CancelTask` succeed, or
the server send. `drain` and `oneshot` assume only this;
that is why the timeout of `shutdownTasks` is needed, and a mutant without it
fails. `BackendAnswers`, the premise of `CancellationResolves` alone, adds the
contract of `backend.go`: `ExecuteTask` returns once its context has ended, and a
`CancelTask` that is repeated for ever succeeds in the end. `ConnectionServed` is the
premise of `OneShotExits` alone: `Run` looks at the one-shot completion only while it
serves a connection, so one must be there or come back; without it the property
fails, which is half of `oneshot_exit`.

`Connection`'s `Fairness` is weak fairness of each loop, of `Run` and of a sender
that holds the mutex (it has a timeout), and strong fairness for those that wait
for the mutex, since Go's mutex does not starve a waiter. Dials need not succeed
and connections may break at any moment.

`KubernetesJob`'s `Fairness` is weak fairness of each request of ExecuteTask, which
has a timeout or a context and so ends in an answer or an error, and of the poll,
whose ticker runs; and strong fairness of `ContextDone`, because a select in which
the ended context is ready again and again takes that branch (Go chooses at
random). Watches need deliver nothing and the cluster need do nothing.
`ExecutionEnds` is the half of `BackendAnswers` about `ExecuteTask` that the
Kubernetes backend owes the worker; `CallsReturn` in `Backends` is the same for the
other three.

`Backends`' `Fairness` is weak fairness of a Docker run's steps once its context has
ended, because every request takes that context or one with a timeout, and of
nothing in a run whose context is live, since the daemon may hang; of what the
worker and `os/exec` do for a Direct run or a dispatched task, timers included; and
of the exit watcher and each `runStandby`. Strong fairness, that a watch that is
opened again and again delivers an exit that is new at some time, is what the
retry loop of `WatchStandbyExits` relies on. Processes and containers need never
exit and extractions never end.

## 4. Proofs

Every safety property of the passing runs is a theorem,
`Spec => []P` or `Spec => P`, for every value of the constants that satisfies the
modules' assumptions. No single property is inductive; each module states the
invariant that is (`Inv`, `AccountInv`, `LoopInv`, ...), next to the properties it
explains, and TLC has checked each of those on the runs' instances.

### Worker

The theorems of `WorkerProofs`, `WorkerSafety`, `WorkerAccounting` and
`WorkerRefinement` are about `Worker` and hold for any set of executions and
sandboxes and every configuration that satisfies `ConfigAssumption`: the constants
are numbers and Booleans, a one-shot worker has one slot and a cancelling backend,
and only a preserving backend without standbys spawns. Those are the combinations
`New` and the backends' `Capabilities` allow.

* `WorkerProofs!TypeCorrect`: `Spec => []TypeOK`, one lemma per group of actions.
* `WorkerSafety!InvCorrect`: `Spec => []Inv`, and from it `Tracking`,
  `CancellationOrder`, `Admission`, `ShutdownReach`, `Remembered` and
  `Preservation`. Each but `Admission` states a property some run checks;
  `WaitGroupStable` is the action property `NoAddAfterWait`.

`Inv` is `TaskInv(k)` for every execution and three conjuncts about the cache's
bound, the reader's key and the standbys. The properties are not inductive one by
one; what each needs of the others is the content of `TaskInv`:

* *Goroutine and entry.* `Live(k) <=> ~done`. That an admission does not start a
  second goroutine needs `Known(k)` to be false in the second critical section,
  which needs it to stay false between the two: only the reader inserts keys, and
  the reader is inside this admission (`reader.at`, `reader.key`).
* *Cancellation.* A canceller past `waiting` implies `done`, and `done` never
  reopens while the entry lives, because a key in the map is not admitted.
* *Shutdown.* A live execution under `shuttingDown` has an ended context. The
  steps that could break it are `Claim`, which tests `Stopping` in the critical
  section that inserts, and `stopObservations`, which leaves out executions
  already cancelled: those have ended contexts.
* *Remembered.* A finished execution is either still tracked, in the cache, or
  was evicted, and an eviction leaves the cache full; the cache never shrinks.
  This needs the messages to follow the goroutine (no terminal status before the
  goroutine reports).
* *Preservation.* For a preserving backend only a user cancels a task's context,
  so an execution with a `task_cancelled` error was interrupted (and is not
  reported) or has source `user` (and is reported as cancelled).

`WorkerAccounting` proves `SlotAccounting` and `WaitGroupAccounting` (`Slots`,
`WaitGroup`), which are inductive together with `Inv` and the finiteness of the sets
they count: each action adds one element to a set, removes one or leaves it, and
the lemmas say by how much the sums then differ. `ClaimTask` and
`FinishExecution` move a unit from one summand to another. `OneShotSafe` follows from `OneShotInv`,
in which the acceptance, the admission, the execution, the goroutine's tail and the
`done` channel hold the one task in turn; `Drained` from `DrainInv`, which says that
the wait of `shutdownTasks` covers every execution there is when it begins, and
that none begins later.

`WorkerRefinement!Refinement` is the implementation of `TaskLifecycle`: initial
states map to initial states, and each action is a step of one execution's
abstract life or a stutter, by one lemma for each group of actions. What is hard
in it is the cache. A bounded FIFO with its map is treated once (`Listed`,
`Distinct`, the effect of appending and of dropping the oldest), and `Cache`
follows for `rememberCompletedLocked`. `ExitsOnce` is `ExitReportedOnce`: of the last
`CacheSize + 1` exits handed to `Send` no two are of one sandbox. Its invariant
(`ExitInv`) says that the exit cache is the log without its oldest entry once the log
is full (`Trimmed`), so that an exit which the cache does not hold is at most the one
that leaves the log. A sandbox whose exit comes again after `CacheSize` others is
reported again; the code does not prevent it.
`SpawnedKept` is an action property: only the end of a call of `CancelTask` takes
the mark away.

### Connection

`ConnectionCorrect` proves `ConnectionInv`, for any number of messages and of
connections and any capacity: the types, `OrderInv` and `LoopInv`. The first says
that `Outgoing`, what is written, with the writer and queued, is the accepted
sequence without the lost messages; each step moves a message within it, appends
one that was not accepted before, or takes out the one that is lost. The second
says that an open connection has its writer until the queue is closed and empty,
which is why the graceful close flushes. `SendSafe`, `Ordered`, `LoopsEnd` and
`Flushed` follow.

Of `SignalEndsRun` two parts are proved that need no fairness. `WayOut` is the action
property `SignalledRunAdvances`: after a signal, each step of `Run` lowers a bound on
those it has left (`StepsLeft`); in particular it does not dial again. `NobodyStuck`
is `NoCircularWait`. `Close` waits for the mutex of a sender, the sender for the writer
to make room, the writer for a message or for the group to be cancelled, the graceful
close for the writer and then for the group, and the group for its loops; in every
reachable state somebody in that chain can go on, unless an open connection is served
and nobody ends it. `WaitInv` is what this needs: a reader or heartbeat that has
returned has cancelled the group, `flushing` is reached with the queue closed and
`cancelled` with the group cancelled. The prover knows no `ENABLED`, so that the waits
are written out; `WaitsAreGuards` of `MCConnection` says that they are the guards of the
actions, and TLC has checked it with `WaitInv`, `NoCircularWait` and
`SignalledRunAdvances` on the instance of `queue`. What is left to `SignalEndsRun` is
that one who can go on does.

### Kubernetes

`KubernetesProofs!IdentityCorrect` proves `IdentityInv` of `KubernetesJob`, for any
number of Jobs that come and go, and from it `OwnJobOnly` and `CancelRemoves`. The
two properties are about writes and rest on what was read before: UIDs are given
out once and in order (`job.uid <= lastUID`), so a UID that was read names the
same Job or none, for good; until it decides to stop the Job, ExecuteTask takes
over no snapshot with another UID (`observed.uid = created`), and the Job it
patches is one it compared (`fetched.uid = created`); what CancelTask has read
carries the execution's labels as long as it is there. A standby's CancelTask may
find no Job because Create is still on its way. It has then `overtaken` ExecuteTask,
whose context has ended and which never comes to stopping the Job by a patch;
`CancelledIsGone` says that the Job is gone or is ExecuteTask's to delete
(`LeftToExecuteTask`), and names the ways in which it may stay: the interruption came
first, the delete failed, or Create's answer was lost. The lemmas follow the actors:
the cluster, ExecuteTask, CancelTask.

`StopCorrect` adds `StopInv`: a Job that some snapshot shows as finished, be it one
the worker holds or one a watch has still to deliver, has finished (`NotAhead`), so
that a decision not to stop the Job is right although its ground is stale. From it
follows `FailureStops`; and, since the cleanup asks for the cause of the context's
end before it writes, that an interrupted ExecuteTask stays in a set of states from
which it writes nothing (`ShutdownPreserves`).

`BackendProofs` has `WatcherInv` of `KubernetesStandby` for any number of sandboxes
and processes: the watcher's map forgets a sandbox it has reported only when the Job
is deleted and no watch shows it as finished any more; what the watcher is about to
delete has been handed to `Send`, by this process or an earlier one, or was left to
`runStandby`, unless the watcher is stopping. Whether `Send` took the exit is open:
a refused one is deleted all the same. `ExitOnce` and `NoBlindDelete` follow.

`SetupCorrect` proves `SetupInv` of `SetupEvents` for any lists of init containers,
and `PhasesMatch` is the conjunct `PhasesMatchPod` of it. The argument has three
parts:

* *The pod.* In every state of a pod a container starts after those before it have
  passed, and the task after all of them (`PodOrder`); between two states of one pod
  a time that is set stays as it is (`Later`). Both rest on `LastTime`, the maximum of
  the times so far, being a bound on each of them.
* *One snapshot.* What the tracker measures in a pod that satisfies `PodOrder` is what
  `Shown` says (`MeasuredIsShown`): the earliest start of a copy is that of the first
  copy, the latest end that of the ending one, the latest end of an init container that
  of the last step. This is where the minima and maxima over times are compared with
  those over positions in the list; that they exist is taken from the well-ordering of
  the naturals (`WFMin`).
* *Several snapshots.* A phase that an earlier state shows is shown by each later one,
  unchanged (`PhasesStay`), so an old snapshot has nothing to add to a newer one, and a
  newer one changes nothing that was reported. That a phase is sent once needs that it
  is one phase (`OnePhase`) and that, until `finish`, `reported` holds just the events
  sent.

The exception, `container_start` after the end of a native sidecar, is bounded as
well: what is reported then still ends with the task's own start (`EndsWithStart`,
`NewestStart`).

`SetupAssumption` says that a list has at most one setup container; the setup container
is found by its name, and the API server refuses a pod in which two init containers
have one name.

### Docker and Direct

`DockerProofs` is about any number of runs with any lists of sidecars, any digests
and any number of crashes. `DockerTypeCorrect` comes first, since a volume's name is
computed from what the daemon answers. `VolumeInv` then says that the run that holds
a volume's gate is the only one that works on it, that the volume is dirty from the
moment it is found missing to the moment it is filled or removed again, that a volume
which is neither dirty nor left by a crash is complete, and that an extraction that
ends well was fed by the holder, also when an extraction that a former holder has
abandoned still runs. Two lemmas carry the proof: a step of a run that holds no gate
(`OutsideStep`), and one of the holder, which may change its own volume only
(`HolderStep`). `Mounted` follows. `ContainerInv` says that a container that may
still run is tracked for as long as somebody may have to remove it, and `CancelRemoved`
follows; that one run's bookkeeping does not touch another's needs keys to be distinct
(`OwnUnit`).

`Workspaces` follows from `WorkspaceInv`, in which each run whose command may run has
the directory that its parameters determine, and from `OwnDirectory`: without a
target directory two runs never have the same.

The assumptions are about IDs, which are the server's: the runs are distinct
(`DockerRuns` and `DirectRuns` are sets), a standby has no task or execution ID
(`Params`; `prepareStandbyTaskParams` sets neither), and a sandbox's ID is not that of a task
without an execution ID (`UnitAssumption`), since both would be one key of
`taskContainers`.

### Model-checked only

The liveness properties, with fairness and `ENABLED`, are outside what the prover
handles: `OneShotExits`, `ShutdownTerminates`, `CancellationResolves`,
`SignalEndsRun`, `DeadConnectionLeft`, `SendReturns`, `ExecutionEnds`, `CallsReturn`
and `StandbyExitSeen`. The parts of `SignalEndsRun` that need
no fairness are theorems (see Connection above).

## 5. Findings

* `oneshot_exit`. `README.md:161-162` says that one-shot workers "exit after that task
  succeeds, fails, or is cancelled", and `README.md:179-181` that they flush queued
  status messages before. `Run` sees the completion only in `serveConnection`
  (`worker.go:410`): with the connection lost and the server unreachable, the loop of
  dials and backoffs (`worker.go:284-318`) goes on for ever. And when the task
  completes while the connection is failing and the loops have not all returned, the
  graceful close runs with a writer that has already gone, and the worker exits with
  the status queued. TLC refutes each half by itself too.
* `lost_create`. `README.md:404` says that on task failure the worker expires a Job
  whose execution is still possible or unknown. If the answer to the one `Create`
  request is lost, ExecuteTask returns at `kubernetes.go:400`, before its cleanup is
  deferred: the task is reported as failed and its Job runs on. (A cancellation
  still finds it: `CancelledIsGone` covers this case.)
* `lost_exit`. The comment at `kubernetes_standby.go:80` says that
  `WatchStandbyExits` reports each standby Job that completes or fails once. For a
  standby of its own process it leaves the report to `runStandby`
  (`standby.go:253`) and deletes the Job; if the shutdown interrupts `runStandby`
  before it has seen the end, it takes the sandbox to be running on
  (`standby.go:143`). No process can find the exit any more.
* `native_anchor`. The comment at `kubernetes_setup_events.go:284-285` says that native
  sidecars "never terminate and therefore never move the anchor". The kubelet stops
  them after the task. A tracker whose first snapshot of the task's start is taken
  then has the sidecar's end for an anchor (`kubernetes_setup_events.go:288-291`): the
  phase `container_start` is passed over as inverted or begins at the wrong time.
* `dispatch_limit`. `README.md:243` says that "a dispatch that exceeds
  `dispatch_timeout` marks the task failed". The limit kills the command's shell only,
  and without a log reporter there is no `WaitDelay` (`subprocess.go:12-15`): a process
  left behind that holds the standard input and does not read a payload larger than
  the pipe keeps ExecuteTask from returning.

Two more disagreements of this kind were met while modelling and have no run: a
task of a cancelling backend that notices the signal through `w.ctx` before
`shutdownTasks` has marked its source is reported as `task_cancelled`, where the
comment at `worker.go:1036` says `graceful_shutdown`; and the digest that names a
sidecar's volume is read in one request and the image copied by its tag in later ones,
so that a pull by another task in between fills the volume of the old digest with the
new image, where the comment at `docker.go:788` says that the digest ensures
uniqueness.

Properties that hold with an exception say so, and these are all:

| Property | Exception |
|---|---|
| `ExitReportedOnce` | speaks of the last `CacheSize + 1` exits: the code remembers `standbyExitCacheSize` of them |
| `OneShotExits` | supposes `ConnectionServed`; see `oneshot_exit` |
| `CancelledIsGone` | a standby's `CancelTask` that overtook `Create` leaves the Job to ExecuteTask (`backend.go:212` allows the overlap) |
| `MountedComplete` | volumes that a crash found half filled: the dirty marks live in memory |
| `CancelRemovesContainer` | standbys, whose container ExecuteTask removes itself |
| `WorkspaceKept` | after `Shutdown`, which sweeps the workspaces on purpose |
| `DeletedExitIsKnown` | counts an exit that `Send` refused as known: the code only logs it (`standby.go:281-283`) |
| `StandbyExitSeen` | an exit that `Send` refused, and `lost_exit` |
| `PhasesMatchPod` | `container_start` after the end of a native sidecar; see `native_anchor` |
| `CallsReturn` | a large payload that nobody reads, without a log reporter; see `dispatch_limit` |

## 6. Not modelled, and the plan

Left out for good: message types, argument building, image remapping, metrics and
logging, and the parsing and validation of the configuration, which are sequential
data transformations or observability that nothing reads back; of the Kubernetes
backend the pod specification and what is collected to explain a failure
(`kubernetes_failure_details.go`, logs); sending setup events over HTTP; credentials
and log following of the Docker backend. Left for later, in this order:

1. *Telemetry.* The reporter's shutdown and the line writer's limits.
2. *Failure classification.* `errors.go` and the backends' classification as operators
   against a reference.
3. *The preflight Job* of the Kubernetes backend, which runs once before the worker
   connects.

Running: `tlc -config MCWorker_docker.cfg MCWorker` (likewise the other
configurations with `MCWorker`, `MCConnection`, `MCKubernetesJob` and `MCBackends`),
and `tlapm` on `WorkerProofs`, `WorkerSafety`, `WorkerAccounting`, `WorkerRefinement`,
`ConnectionProofs`, `KubernetesProofs`, `BackendProofs` and `DockerProofs`.
