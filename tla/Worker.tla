------------------------------- MODULE Worker -------------------------------
(***************************************************************************)
(* The whole Worker process: tasks and standbys sharing one mutex, one     *)
(* reader, taskWG and (optionally) one semaphore, and Run's way out        *)
(* through shutdownTasks, gracefullyCloseConnection and shutdownBackend    *)
(* (internal/worker/worker.go).  Connections come and go in the Connection *)
(* module; here a lost connection is a reader that receives nothing.       *)
(***************************************************************************)
EXTENDS WorkerTasks, WorkerStandbys

VARIABLES
    run,            \* how far Run has got
    outboundClosed, \* w.outbound is closed: no status message goes out
    awaiting,       \* what the wait at the end of shutdownTasks is for
    timedOut        \* that wait ended by BackendShutdownTimeout

runVars == <<run, outboundClosed, awaiting, timedOut>>
vars == <<sharedVars, taskVars, standbyVars, runVars>>

RunSteps == {"serving", "draining", "drained", "closing", "returned",
             "exited"}

\* Nothing to wait for.
NoWait == [group |-> FALSE, tasks |-> {}, standbys |-> {}]

-----------------------------------------------------------------------------

\* The signal handler cancels w.ctx.
CancelContext ==
    /\ ~ctxDone
    /\ ctxDone' = TRUE
    /\ UNCHANGED <<shuttingDown, taskSlots, taskWG, reader, taskVars,
                   standbyVars, runVars>>

\* shutdownTasks, up to the end of its critical section: from the serving loop
\* once w.ctx is cancelled, or from the deferred shutdownBackend.
shutdownTasks ==
    /\ \/ run = "serving" /\ ctxDone
       \/ run = "returned"
    /\ ~shuttingDown
    /\ shuttingDown' = TRUE
    /\ shutdownActiveTasks
    /\ stopStandbys
    /\ run' = "draining"
    /\ awaiting' =
           IF PreservesTasks
           THEN [group |-> FALSE, tasks |-> TaskObservers,
                 standbys |-> StandbyObservers]
           ELSE [NoWait EXCEPT
                    !.group = \/ \E k \in Executions : Tracked(k)
                              \/ \E s \in StandbyIDs : Local(s)]
    /\ UNCHANGED <<ctxDone, taskSlots, taskWG, reader, outboundClosed,
                   timedOut>>

\* Mutation: taskWG is not waited for.
WaitOverAtOnce ==
    /\ \A k \in awaiting.tasks : activeTasks[k].done
    /\ \A s \in awaiting.standbys : ~Local(s)

\* Every done channel collected is closed, or taskWG.Wait returned.
WaitOver ==
    /\ \A k \in awaiting.tasks : activeTasks[k].done
    /\ \A s \in awaiting.standbys : ~Local(s)
    /\ awaiting.group => taskWG = 0

TasksDone ==
    /\ run = "draining"
    /\ WaitOver
    /\ run' = "drained"
    /\ awaiting' = NoWait
    /\ UNCHANGED <<sharedVars, taskVars, standbyVars, outboundClosed, timedOut>>

\* Mutation: the wait has no timeout.
ShutdownWaitsForever == FALSE /\ UNCHANGED vars

ShutdownTimeout ==
    /\ run = "draining"
    /\ ~WaitOver
    /\ run' = "drained"
    /\ awaiting' = NoWait
    /\ timedOut' = TRUE
    /\ UNCHANGED <<sharedVars, taskVars, standbyVars, outboundClosed>>

\* Mutation: serveConnection does not select on the one-shot channel.
CloseOnlyAfterShutdown ==
    /\ run = "drained" /\ ~outboundClosed
    /\ outboundClosed' = TRUE
    /\ run' = "closing"
    /\ UNCHANGED <<sharedVars, taskVars, standbyVars, awaiting, timedOut>>

\* gracefullyCloseConnection closes the queue first: after shutdownTasks, or
\* when the one-shot task is complete.
CloseOutbound ==
    /\ \/ run = "drained" /\ ~outboundClosed
       \/ run = "serving" /\ oneShot.done
    /\ outboundClosed' = TRUE
    /\ run' = "closing"
    /\ UNCHANGED <<sharedVars, taskVars, standbyVars, awaiting, timedOut>>

\* The reader's current handler has ended and <-groupDone returns.
ReaderStops ==
    /\ run = "closing"
    /\ reader = Idle
    /\ ReaderAt("stopped")
    /\ run' = "returned"
    /\ UNCHANGED <<ctxDone, shuttingDown, taskSlots, taskWG, taskVars,
                   standbyVars, outboundClosed, awaiting, timedOut>>

\* shutdownBackend: cancellationWG.Wait, then backend.Shutdown.
shutdownBackend ==
    /\ run \in {"returned", "drained"}
    /\ shuttingDown
    /\ outboundClosed
    /\ \A k \in Executions : ~Cancelling(k)
    /\ destroying = {}
    /\ run' = "exited"
    /\ UNCHANGED <<sharedVars, taskVars, standbyVars, outboundClosed,
                   awaiting, timedOut>>

RunNext ==
    \/ shutdownTasks \/ TasksDone \/ ShutdownTimeout
    \/ CloseOutbound \/ ReaderStops \/ shutdownBackend

-----------------------------------------------------------------------------

Init ==
    /\ SharedInit
    /\ TasksInit
    /\ StandbysInit
    /\ run = "serving"
    /\ outboundClosed = FALSE
    /\ awaiting = NoWait
    /\ timedOut = FALSE

\* The process is gone once Run has returned and main exits.
Exited == run = "exited" /\ UNCHANGED vars

Next ==
    \/ /\ run # "exited"
       /\ \/ TasksNext /\ UNCHANGED <<standbyVars, runVars>>
          \/ StandbysNext /\ UNCHANGED <<taskVars, runVars>>
          \/ CancelContext
          \/ RunNext
    \/ Exited

Spec == Init /\ [][Next]_vars

\* What the Go scheduler and the timeouts in the code guarantee: a handler, a
\* goroutine and Run itself keep going, a canceller's wait and backoff end, and
\* backend.CancelTask answers because every attempt has a deadline.  Nothing
\* makes ExecuteTask return, CancelTask succeed, or the server send anything,
\* and nothing but its context takes Run out of the loop that dials the server.
Step(A) == run # "exited" /\ A /\ UNCHANGED runVars

Scheduling ==
    /\ WF_vars(Step(UNCHANGED standbyVars /\ (AcquireSlot \/ RejectAtCapacity
                   \/ RejectShuttingDown \/ ClaimTask \/ StartExecution)))
    /\ WF_vars(Step(UNCHANGED standbyVars /\ TaskTail))
    /\ \A k \in Executions :
          /\ WF_vars(Step(UNCHANGED standbyVars
                /\ (AbandonObservation(k) \/ ReportError(k)
                    \/ ReportCompleted(k) \/ MarkSpawned(k)
                    \/ FinishExecution(k))))
          /\ WF_vars(Step(UNCHANGED standbyVars /\ TaskCanceller(k)))
    /\ \A s \in StandbyIDs :
          /\ WF_vars(Step(UNCHANGED taskVars /\ (StartStandby(s)
                \/ CheckStandbyCause(s) \/ ReportStandbyExit(s)
                \/ ReleaseStandby(s) \/ ForgetStandby(s))))
          /\ WF_vars(Step(UNCHANGED taskVars /\ DestroyReturns(s)))
          /\ WF_vars(Step(UNCHANGED taskVars /\ WatcherSends(s)))
    /\ WF_vars(run # "exited" /\ (run = "serving" => ctxDone) /\ RunNext)

\* The Backend contract on top: ExecuteTask returns once its context has ended,
\* and an attempt repeated for ever is accepted in the end.
BackendAnswers ==
    \A k \in Executions :
        /\ WF_vars(Step(UNCHANGED standbyVars /\ BackendCtxDone(k)
              /\ \E r \in Errors \cup {Success} : ExecuteTaskReturns(k, r)))
        /\ SF_vars(Step(UNCHANGED standbyVars /\ CancelTaskSucceeds(k)))

\* What the one-shot exit needs of the server: oneShot.done is looked at only in
\* serveConnection, so a connection must be there when it is or come back later.
ConnectionServed == WF_vars(run = "serving" /\ CloseOutbound)

ScheduledSpec == Spec /\ Scheduling

-----------------------------------------------------------------------------

\* Every variable of the worker has its type; in particular the goroutine
\* counters of tail never go below zero.
TypeOK ==
    /\ SharedTypeOK
    /\ TasksTypeOK
    /\ StandbysTypeOK
    /\ run \in RunSteps
    /\ outboundClosed \in BOOLEAN
    /\ awaiting \in [group : BOOLEAN, tasks : SUBSET Executions,
                     standbys : SUBSET StandbyIDs]
    /\ timedOut \in BOOLEAN

Live(k) == exec[k] # "none"
Pending == reader.at \in {"accepted", "acquired"}
TailCount == tail.release + tail.leave
Running == {k \in Executions : Live(k)}
StandbyHolders == {s \in StandbyIDs : Local(s) /\ standbys[s].at # "released"}

One(b) == IF b THEN 1 ELSE 0

\* Every unit of the task semaphore in use is held by exactly one admission,
\* one execution, one goroutine about to release it, or (without a semaphore of
\* their own) one standby; the same for the standbys' semaphore.  Neither
\* exceeds its limit.
SlotAccounting ==
    /\ taskSlots = IF Limited
                   THEN Cardinality(Running) + One(reader.at = "acquired")
                        + tail.release
                        + (IF OwnSlots THEN 0 ELSE Cardinality(StandbyHolders))
                   ELSE 0
    /\ Limited => taskSlots <= MaxConcurrentTasks
    /\ standbySlots = IF OwnSlots THEN Cardinality(StandbyHolders) ELSE 0
    /\ OwnSlots => standbySlots <= MaxPrewarmedSandboxes

\* taskWG counts exactly the admissions, executions, standbys and goroutines
\* that have still to leave it, so that its Wait ends when they have.
WaitGroupAccounting ==
    taskWG = Cardinality(Running) + One(Pending) + TailCount
             + Cardinality(StandbyObservers)

\* Once shutdownTasks may be waiting on taskWG nobody calls taskWG.Add: a
\* WaitGroup must not be reused while a Wait is in progress.
NoAddAfterWait == [][shuttingDown => taskWG' <= taskWG]_vars

\* An execution's goroutine runs exactly while its entry is in activeTasks with
\* done still open: the deferred close(task.done) never closes a channel twice,
\* no second goroutine runs the same execution, and no entry's done stays open.
TrackedWhileRunning ==
    \A k \in Executions : Live(k) <=> (Tracked(k) /\ ~activeTasks[k].done)

\* A task that was handed to a remote runtime keeps its entry, so that it can be
\* cancelled, until the backend has accepted a cancellation.
SpawnedUntilCancelled ==
    [][\A k \in Executions :
          activeTasks[k].spawned /\ ~activeTasks'[k].spawned
              => activeTasks[k].canceller = "calling"]_vars

\* backend.CancelTask is never called while the execution's ExecuteTask may
\* still be creating resources.
CancelAfterExecute ==
    \A k \in Executions : activeTasks[k].canceller \in {"calling", "backoff"}
                              => ~Live(k)

\* The duplicate test of the second critical section never finds anything: an
\* assignment that passed the first is still unknown at the second.
AdmissionStaysUnknown ==
    Pending => ~Known(reader.key)

\* After shutdownTasks every execution and standby still running has been told:
\* its context is cancelled or its observation is stopped.  None slips in.
ShutdownReachesAll ==
    shuttingDown =>
        /\ \A k \in Executions : Live(k) => BackendCtxDone(k)
        /\ \A s \in StandbyIDs :
               Local(s) => StandbyCtxDone(s)

\* An execution with an ID that reached a terminal status is still known, so a
\* redelivered assignment cannot run it again, unless the cache is full.
TerminalIsRemembered ==
    \A k \in Executions :
        /\ executionID(k) # Legacy
        /\ status[k] \in Terminal
        /\ ~Live(k)
        => Known(k) \/ Len(completedExecutions) = CacheSize

\* completedExecutions lists the remembered executions once each, within the
\* bound, and never a legacy one.
CacheConsistent ==
    /\ Len(completedExecutions) <= CacheSize
    /\ \A k \in Executions :
           completedTasks[k] # "no" <=>
               \E i \in 1..Len(completedExecutions) : completedExecutions[i] = k
    /\ \A i, j \in 1..Len(completedExecutions) :
           completedExecutions[i] = completedExecutions[j] => i = j
    /\ \A k \in Executions :
           executionID(k) = Legacy => completedTasks[k] = "no"

\* A one-shot worker claims one task, and its completion is signalled only when
\* that task has reported, left activeTasks' running set and given up its slot.
OneShotSingle ==
    OneShot =>
        /\ \A j, k \in Executions :
               status[j] # "none" /\ status[k] # "none" => j = k
        /\ oneShot.done =>
               /\ Running = {} /\ ~Pending /\ taskSlots = 0
               /\ \E k \in Executions : status[k] \in Terminal

\* The outbound queue is not closed under an execution that has still to report
\* or to finish its bookkeeping, except when the shutdown wait timed out.
DrainedBeforeClose == outboundClosed /\ ~timedOut => Running = {}

\* A backend that preserves tasks never has one reported as failed because the
\* worker shut down.
PreservedNotFailed ==
    PreservesTasks =>
        \A k \in Executions :
            status[k] \notin {"task_cancelled", "graceful_shutdown"}

\* Among any CacheSize + 1 exit messages in a row no sandbox has two, whoever
\* reports them: the goroutine that ran it, a later goroutine for the same
\* sandbox or the exit watcher.  A message repeated has at least CacheSize
\* others between, the only case in which the cache may have forgotten it.
ExitReportedOnce ==
    \A i, j \in 1..Len(exitLog) : exitLog[i] = exitLog[j] => i = j

-----------------------------------------------------------------------------
\* The inductive invariant behind the task properties, one execution at a time.

\* Steps of the goroutine before its status message is decided.
Unreported == {"executing", "completed", "spawned", "interrupted"} \cup Errors

TaskInv(k) ==
    /\ Live(k) <=> ~activeTasks[k].done
    /\ activeTasks[k].canceller \in {"calling", "backoff"} => activeTasks[k].done
    \* the reader and the goroutine agree on which execution is being claimed
    /\ exec[k] = "claiming" <=> reader.at = "claiming" /\ reader.key = k
    /\ Pending /\ reader.key = k => ~Known(k)
    \* the messages sent follow the goroutine
    /\ exec[k] = "claiming" => status[k] = "none"
    /\ exec[k] \in Unreported => status[k] = "claimed"
    /\ shuttingDown /\ Live(k) => BackendCtxDone(k)
    /\ executionID(k) # Legacy /\ status[k] \in Terminal /\ ~Live(k)
           => Known(k) \/ Len(completedExecutions) = CacheSize
    \* only a user cancels the context of a preserved task
    /\ PreservesTasks =>
           /\ activeTasks[k].source # "shutdown"
           /\ Live(k) /\ cancelled[k] => activeTasks[k].source = "user"
           /\ exec[k] = "task_cancelled" => interrupted[k] \/ cancelled[k]
           /\ status[k] \notin {"task_cancelled", "graceful_shutdown"}

\* TaskInv of every execution, the cache's bound, the reader's key while it
\* admits, and every standby told of the shutdown.
Inv ==
    /\ \A k \in Executions : TaskInv(k)
    /\ Len(completedExecutions) <= CacheSize
    /\ reader.at \in {"accepted", "acquired", "claiming"}
           => reader.key \in Executions
    /\ shuttingDown => \A s \in StandbyIDs : Local(s) => StandbyCtxDone(s)

\* The accounting, with the sets it counts finite.
AccountInv ==
    /\ IsFiniteSet(Running)
    /\ IsFiniteSet(StandbyObservers)
    /\ SlotAccounting
    /\ WaitGroupAccounting

\* A one-shot worker's single task: the acceptance, the admission, the
\* execution, the goroutine's tail and the done channel hold it in turn.
Untouched(k) == status[k] = "none" /\ ~Live(k)

OneShotInv ==
    OneShot =>
        /\ \A s \in StandbyIDs : ~Local(s)
        /\ \A k \in Executions :
               /\ ~interrupted[k]
               /\ exec[k] \notin {"spawned", "interrupted"}
               /\ exec[k] = "finishing" => status[k] \in Terminal
        /\ \A j, k \in Executions : ~Untouched(j) /\ ~Untouched(k) => j = k
        /\ ~oneShot.accepted => ~Pending
        /\ Pending \/ ~oneShot.accepted =>
               /\ \A k \in Executions : Untouched(k)
               /\ TailCount = 0
               /\ ~oneShot.done
        /\ TailCount > 0 \/ oneShot.done =>
               /\ Running = {}
               /\ TailCount = One(~oneShot.done)
               /\ \E k \in Executions : status[k] \in Terminal

\* What the wait of shutdownTasks covers, and what it leaves behind.
DrainInv ==
    /\ oneShot.done => OneShot
    /\ run \in {"draining", "drained"} => shuttingDown
    /\ run = "draining" => awaiting.group \/ Running \subseteq awaiting.tasks
    /\ run = "drained" /\ ~timedOut => Running = {}
    /\ outboundClosed => shuttingDown \/ oneShot.done
    /\ DrainedBeforeClose

\* The exit cache is the tail of the log, so that a sandbox it does not hold is
\* not among the latest CacheSize exits.
ExitInv ==
    /\ Len(exitLog) <= CacheSize + 1
    /\ standbyExitIDs = Trimmed(exitLog, CacheSize)
    /\ ExitReportedOnce

\* What the refinement of TaskLifecycle needs besides: the known executions are
\* finitely many, an observation is interrupted only by shutdownTasks, and a
\* goroutine that finishes has at least announced its execution.
KnownExecutions == {k \in Executions : Known(k)}

RefineInv ==
    /\ CacheConsistent
    /\ IsFiniteSet(KnownExecutions)
    /\ \A k \in Executions :
           /\ interrupted[k] \/ exec[k] = "interrupted" => shuttingDown
           /\ exec[k] = "finishing" => status[k] # "none"

-----------------------------------------------------------------------------

\* A signal makes Run return even when a backend never does.
ShutdownTerminates == ctxDone ~> run = "exited"

\* The end of a one-shot task makes the process exit, provided that the worker
\* is connected or gets a connection again: Run's loop of dials and backoffs
\* does not look at oneShot.done.
OneShotExits == ConnectionServed => (oneShot.done ~> run = "exited")

\* A user's cancellation ends with the backend having accepted it, unless the
\* worker stops first, if the backend keeps its contract.
CancellationResolves ==
    BackendAnswers =>
        \A k \in Executions :
            activeTasks[k].source = "user" ~> (~Tracked(k) \/ Stopping)

-----------------------------------------------------------------------------
\* The worker as the server sees its tasks.

Lifecycle == INSTANCE TaskLifecycle WITH
    known <- KnownExecutions,
    running <- Running,
    stopped <- shuttingDown

ImplementsLifecycle == Lifecycle!Spec

=============================================================================
