---------------------------- MODULE WorkerTasks ----------------------------
(***************************************************************************)
(* Task assignments, executions and cancellations of the Worker            *)
(* (internal/worker/worker.go).  One assignment is admitted by the reader  *)
(* in two critical sections with the semaphore between them, runs in a     *)
(* goroutine of its own, and may meanwhile be cancelled by a second        *)
(* goroutine that retries backend.CancelTask until the backend accepts.    *)
(***************************************************************************)
EXTENDS WorkerState

VARIABLES
    activeTasks,         \* w.activeTasks: key -> entry, NoTask when absent
    exec,                \* where the goroutine of the current execution stands
    cancelled,           \* taskCancel was called on the execution's context
    interrupted,         \* cause of observationCtx is errObservationInterrupted
    completedTasks,      \* w.completedTasks: key -> "no", or how it ended
    completedExecutions, \* w.completedExecutions, oldest first
    status,              \* the last status message sent for this execution
    tail,                \* goroutines past their bookkeeping, by what is left
    oneShot              \* w.oneShot: accepted flag and the done channel

taskVars == <<activeTasks, exec, cancelled, interrupted, completedTasks,
              completedExecutions, status, tail, oneShot>>

-----------------------------------------------------------------------------

NoTask == [source |-> "absent", spawned |-> FALSE, done |-> TRUE,
           canceller |-> "none"]

\* The entry handleTaskAssignment inserts, and the one handleTaskCancellation
\* inserts for an execution that has already completed (its done is closed).
NewTask == [source |-> "", spawned |-> FALSE, done |-> FALSE,
            canceller |-> "none"]
FinishedTask == [NewTask EXCEPT !.done = TRUE]

Sources == {"", "user", "shutdown"}
CancellerSteps == {"none", "waiting", "calling", "backoff", "stopped"}
Entries == [source : Sources, spawned : BOOLEAN, done : BOOLEAN,
            canceller : CancellerSteps]

\* What backend.ExecuteTask can return: success (one of two outcomes), an
\* error of the work itself, one whose exit code is sigtermExitCode, or the
\* task_cancelled error of a backend that saw its context end.
Errors == {"error", "sigterm", "task_cancelled"}
Success == IF SpawnsTasks THEN "spawned" ELSE "completed"
ExecSteps == {"none", "claiming", "executing", "completed", "spawned",
              "finishing", "interrupted"} \cup Errors
Terminal == {"completed", "cancelled", "failed", "task_cancelled",
             "graceful_shutdown"}
Statuses == {"none", "claimed"} \cup Terminal

Tracked(k) == activeTasks[k] # NoTask
Known(k) == Tracked(k) \/ completedTasks[k] # "no"

\* The execution's own context, and the context ExecuteTask runs under.  A
\* backend that preserves tasks detaches the first from w.ctx.
TaskCtxDone(k) == cancelled[k] \/ (ctxDone /\ ~PreservesTasks)
BackendCtxDone(k) == interrupted[k] \/ TaskCtxDone(k)

-----------------------------------------------------------------------------

\* rememberCompletedLocked: a bounded FIFO of executions that carry an ID.
RememberedOrder(k) ==
    IF completedTasks[k] # "no" THEN completedExecutions
    ELSE LET grown == Append(completedExecutions, k)
         IN  IF Len(grown) > CacheSize THEN Tail(grown) ELSE grown

\* Mutation: the evicted key stays in the map.
RememberedWithoutEviction(k, how) == [completedTasks EXCEPT ![k] = how]

RememberedTasks(k, how) ==
    [j \in Executions |->
        IF j = k THEN how
        ELSE IF /\ completedTasks[k] = "no"
                /\ Len(completedExecutions) >= CacheSize
                /\ j = Head(completedExecutions)
             THEN "no"
             ELSE completedTasks[j]]

\* Mutation: nothing is remembered.
rememberNothing(k, how) == UNCHANGED <<completedTasks, completedExecutions>>

rememberCompleted(k, how) ==
    IF executionID(k) = Legacy
    THEN UNCHANGED <<completedTasks, completedExecutions>>
    ELSE /\ completedTasks' = RememberedTasks(k, how)
         /\ completedExecutions' = RememberedOrder(k)

-----------------------------------------------------------------------------
\* handleTaskAssignment, run by the reader.  A duplicate, and a rejection in
\* the first critical section, change nothing but the message sent.

resetAcceptance == oneShot' = [accepted |-> FALSE, done |-> oneShot.done]

\* taskWG.Add(1), with the one-shot acceptance taken.
Reserve(k) ==
    /\ taskWG < MaxGoroutines
    /\ oneShot' = [accepted |-> OneShot, done |-> oneShot.done]
    /\ taskWG' = taskWG + 1
    /\ reader' = [at |-> "accepted", key |-> k]
    /\ UNCHANGED <<ctxDone, shuttingDown, taskSlots, activeTasks, exec,
                   cancelled, interrupted, completedTasks,
                   completedExecutions, status, tail>>

\* Mutations: the shutdown test or the one-shot test is missing.
AcceptWhileStopping(k) ==
    reader = Idle /\ ~Known(k) /\ (OneShot => ~oneShot.accepted) /\ Reserve(k)
AcceptSecondTask(k) == reader = Idle /\ ~Known(k) /\ ~Stopping /\ Reserve(k)

\* First critical section: not a duplicate, not stopping, and a one-shot
\* worker has not accepted another task.
AcceptAssignment(k) ==
    /\ reader = Idle
    /\ ~Known(k)
    /\ ~Stopping
    /\ OneShot => ~oneShot.accepted
    /\ Reserve(k)

AcquireSlot ==
    /\ reader.at = "accepted"
    /\ SlotFree
    /\ Acquire
    /\ ReaderAt("acquired")
    /\ UNCHANGED <<ctxDone, shuttingDown, taskWG, taskVars>>

\* Mutation: the rejection forgets taskWG.Done.
RejectWithoutDone ==
    /\ reader.at = "accepted"
    /\ ~SlotFree
    /\ resetAcceptance
    /\ reader' = Idle
    /\ UNCHANGED <<ctxDone, shuttingDown, taskSlots, taskWG, activeTasks, exec,
                   cancelled, interrupted, completedTasks,
                   completedExecutions, status, tail>>

RejectAtCapacity ==
    /\ reader.at = "accepted"
    /\ ~SlotFree
    /\ resetAcceptance
    /\ taskWG' = taskWG - 1
    /\ reader' = Idle
    /\ UNCHANGED <<ctxDone, shuttingDown, taskSlots, activeTasks, exec,
                   cancelled, interrupted, completedTasks,
                   completedExecutions, status, tail>>

\* Second critical section.

\* Mutation: the rejection keeps the slot.
RejectWithoutRelease ==
    /\ reader.at = "acquired"
    /\ Stopping
    /\ resetAcceptance
    /\ taskWG' = taskWG - 1
    /\ reader' = Idle
    /\ UNCHANGED <<ctxDone, shuttingDown, taskSlots, activeTasks, exec,
                   cancelled, interrupted, completedTasks,
                   completedExecutions, status, tail>>

RejectShuttingDown ==
    /\ reader.at = "acquired"
    /\ Stopping
    /\ resetAcceptance
    /\ Release
    /\ taskWG' = taskWG - 1
    /\ reader' = Idle
    /\ UNCHANGED <<ctxDone, shuttingDown, activeTasks, exec, cancelled,
                   interrupted, completedTasks, completedExecutions, status,
                   tail>>

\* The entry goes in, with fresh contexts.
Claim ==
    /\ reader.at = "acquired"
    /\ LET k == reader.key
       IN  /\ ~Known(k)
           /\ activeTasks' = [activeTasks EXCEPT ![k] = NewTask]
           /\ exec' = [exec EXCEPT ![k] = "claiming"]
           /\ cancelled' = [cancelled EXCEPT ![k] = FALSE]
           /\ interrupted' = [interrupted EXCEPT ![k] = FALSE]
           /\ status' = [status EXCEPT ![k] = "none"]
    /\ ReaderAt("claiming")
    /\ UNCHANGED <<ctxDone, shuttingDown, taskSlots, taskWG, completedTasks,
                   completedExecutions, tail, oneShot>>

\* Mutation: shutdown is not tested again.
ClaimWhileStopping == Claim

ClaimTask == ~Stopping /\ Claim

\* sendTaskClaimed, then the goroutine starts.
StartExecution ==
    /\ reader.at = "claiming"
    /\ status' = [status EXCEPT ![reader.key] = "claimed"]
    /\ exec' = [exec EXCEPT ![reader.key] = "executing"]
    /\ reader' = Idle
    /\ UNCHANGED <<ctxDone, shuttingDown, taskSlots, taskWG, activeTasks,
                   cancelled, interrupted, completedTasks,
                   completedExecutions, tail, oneShot>>

-----------------------------------------------------------------------------
\* executeTask, run by the execution's goroutine.

\* backend.ExecuteTask returns r.
ExecuteTaskReturns(k, r) ==
    /\ exec[k] = "executing"
    /\ r \in Errors \cup {Success}
    /\ r = "task_cancelled" => BackendCtxDone(k)
    /\ exec' = [exec EXCEPT ![k] = r]
    /\ UNCHANGED <<sharedVars, activeTasks, cancelled, interrupted,
                   completedTasks, completedExecutions, status, tail, oneShot>>

\* w.cancellationSource(key).
cancellationSource(k) == IF Tracked(k) THEN activeTasks[k].source ELSE ""

\* The message a returned error becomes: a user's cancellation, a failure
\* reclassified as graceful_shutdown, or the failure's own reason.
ErrorStatus(k, r) ==
    CASE TaskCtxDone(k) /\ cancellationSource(k) = "user" -> "cancelled"
      [] /\ ~(TaskCtxDone(k) /\ cancellationSource(k) = "user")
         /\ cancellationSource(k) = "shutdown"
         /\ r \in {"task_cancelled", "sigterm"} -> "graceful_shutdown"
      [] OTHER -> IF r = "task_cancelled" THEN "task_cancelled" ELSE "failed"

\* A preserved task whose observation the worker itself stopped ends with an
\* error that says nothing about the task: no message is sent.
AbandonObservation(k) ==
    /\ exec[k] \in Errors
    /\ interrupted[k]
    /\ exec' = [exec EXCEPT ![k] = "interrupted"]
    /\ UNCHANGED <<sharedVars, activeTasks, cancelled, interrupted,
                   completedTasks, completedExecutions, status, tail, oneShot>>

\* Mutation: a stopped observation is reported like any error.
ReportInterrupted(k) ==
    /\ exec[k] \in Errors
    /\ status' = [status EXCEPT ![k] = ErrorStatus(k, exec[k])]
    /\ exec' = [exec EXCEPT ![k] = "finishing"]
    /\ UNCHANGED <<sharedVars, activeTasks, cancelled, interrupted,
                   completedTasks, completedExecutions, tail, oneShot>>

\* Mutation: no return after the failure is sent.
ReportAndFallThrough(k) ==
    /\ exec[k] \in Errors
    /\ ~interrupted[k]
    /\ status' = [status EXCEPT ![k] = ErrorStatus(k, exec[k])]
    /\ exec' = [exec EXCEPT ![k] = "completed"]
    /\ UNCHANGED <<sharedVars, activeTasks, cancelled, interrupted,
                   completedTasks, completedExecutions, tail, oneShot>>

ReportError(k) ==
    /\ exec[k] \in Errors
    /\ ~interrupted[k]
    /\ status' = [status EXCEPT ![k] = ErrorStatus(k, exec[k])]
    /\ exec' = [exec EXCEPT ![k] = "finishing"]
    /\ UNCHANGED <<sharedVars, activeTasks, cancelled, interrupted,
                   completedTasks, completedExecutions, tail, oneShot>>

ReportCompleted(k) ==
    /\ exec[k] = "completed"
    /\ status' = [status EXCEPT ![k] = "completed"]
    /\ exec' = [exec EXCEPT ![k] = "finishing"]
    /\ UNCHANGED <<sharedVars, activeTasks, cancelled, interrupted,
                   completedTasks, completedExecutions, tail, oneShot>>

\* A spawned task runs on remotely: its entry stays for later cancellation.
MarkSpawned(k) ==
    /\ exec[k] = "spawned"
    /\ activeTasks' = IF Tracked(k)
                      THEN [activeTasks EXCEPT ![k].spawned = TRUE]
                      ELSE activeTasks
    /\ exec' = [exec EXCEPT ![k] = "finishing"]
    /\ UNCHANGED <<sharedVars, cancelled, interrupted, completedTasks,
                   completedExecutions, status, tail, oneShot>>

\* The deferred bookkeeping: close(task.done), then forget the entry unless a
\* cancellation still needs it.

\* The entry is kept with its done channel closed (or open, in a mutation), or
\* deleted and remembered unless the observation was interrupted.
Keep(k, done) ==
    /\ activeTasks' = [activeTasks EXCEPT ![k].done = done]
    /\ UNCHANGED <<completedTasks, completedExecutions>>

Forget(k) ==
    /\ activeTasks' = [activeTasks EXCEPT ![k] = NoTask]
    /\ IF exec[k] = "interrupted"
       THEN UNCHANGED <<completedTasks, completedExecutions>>
       ELSE rememberCompleted(k, "completed")

\* Mutations: the kept entry's done channel is not closed; a spawned task's
\* entry is not kept.
SettleLeavingDoneOpen(k) ==
    IF activeTasks[k].spawned \/ activeTasks[k].source = "user"
    THEN Keep(k, FALSE) ELSE Forget(k)
SettleForgettingSpawned(k) ==
    IF activeTasks[k].source = "user" THEN Keep(k, TRUE) ELSE Forget(k)

Settle(k) ==
    IF activeTasks[k].spawned \/ activeTasks[k].source = "user"
    THEN Keep(k, TRUE) ELSE Forget(k)

FinishExecution(k) ==
    /\ exec[k] \in {"finishing", "interrupted"}
    /\ cancelled' = [cancelled EXCEPT ![k] = TRUE]
    /\ exec' = [exec EXCEPT ![k] = "none"]
    /\ IF Tracked(k)
       THEN Settle(k)
       ELSE UNCHANGED <<activeTasks, completedTasks, completedExecutions>>
    /\ tail' = [release |-> tail.release + 1, leave |-> tail.leave]
    /\ UNCHANGED <<sharedVars, interrupted, status, oneShot>>

\* What is left of a goroutine is the same for every execution: release the
\* slot, then signal one-shot completion and leave taskWG.
ReleaseSlot ==
    /\ tail.release > 0
    /\ Release
    /\ tail' = [release |-> tail.release - 1, leave |-> tail.leave + 1]
    /\ UNCHANGED <<ctxDone, shuttingDown, taskWG, reader, activeTasks, exec,
                   cancelled, interrupted, completedTasks,
                   completedExecutions, status, oneShot>>

\* Mutation: taskWG.Done once too often.
signalTwice ==
    /\ tail.leave >= 0
    /\ oneShot' = [accepted |-> oneShot.accepted, done |-> oneShot.done \/ OneShot]
    /\ tail' = [release |-> tail.release, leave |-> tail.leave - 1]
    /\ taskWG' = taskWG - 1
    /\ UNCHANGED <<ctxDone, shuttingDown, taskSlots, reader, activeTasks,
                   exec, cancelled, interrupted, completedTasks,
                   completedExecutions, status>>

signalOneShotComplete ==
    /\ tail.leave > 0
    /\ oneShot' = [accepted |-> oneShot.accepted, done |-> oneShot.done \/ OneShot]
    /\ tail' = [release |-> tail.release, leave |-> tail.leave - 1]
    /\ taskWG' = taskWG - 1
    /\ UNCHANGED <<ctxDone, shuttingDown, taskSlots, reader, activeTasks,
                   exec, cancelled, interrupted, completedTasks,
                   completedExecutions, status>>

-----------------------------------------------------------------------------
\* handleTaskCancellation, run by the reader.

\* startTaskCancellationLocked for every key of K: no effect on a key that is
\* not in tasks or that is already being cancelled.
startTaskCancellation(tasks, K) ==
    LET started == {k \in K : tasks[k] # NoTask /\ tasks[k].canceller = "none"}
    IN  /\ activeTasks' = [k \in Executions |->
               IF k \in started
               THEN [tasks[k] EXCEPT !.source = "user", !.canceller = "waiting"]
               ELSE tasks[k]]
        /\ cancelled' = [k \in Executions |-> cancelled[k] \/ k \in started]

\* A request that names an execution.  One that is known to have completed
\* without an accepted cancellation gets an entry again, so that the backend
\* can still clean up after it.
HandleCancellation(k) ==
    /\ reader = Idle
    /\ ~Stopping
    /\ executionID(k) # Legacy
    /\ completedTasks[k] # "cancelled"
    /\ startTaskCancellation(
           IF completedTasks[k] = "completed" /\ ~Tracked(k)
           THEN [activeTasks EXCEPT ![k] = FinishedTask]
           ELSE activeTasks, {k})
    /\ UNCHANGED <<sharedVars, exec, interrupted, completedTasks,
                   completedExecutions, status, tail, oneShot>>

\* A request without an execution ID cancels every active execution of task t.
HandleRunCancellation(t) ==
    /\ reader = Idle
    /\ ~Stopping
    /\ startTaskCancellation(activeTasks, {k \in Executions : taskID(k) = t})
    /\ UNCHANGED <<sharedVars, exec, interrupted, completedTasks,
                   completedExecutions, status, tail, oneShot>>

-----------------------------------------------------------------------------
\* cancelTaskOnBackend, run by the goroutine of one cancellation.  Its context
\* ends with w.ctx and with shutdownTasks.

SetCanceller(k, step) ==
    /\ activeTasks' = [activeTasks EXCEPT ![k].canceller = step]
    /\ UNCHANGED <<sharedVars, exec, cancelled, interrupted, completedTasks,
                   completedExecutions, status, tail, oneShot>>

\* Mutation: the first attempt does not wait for done.
AttemptAtOnce(k) ==
    /\ activeTasks[k].canceller \in {"waiting", "backoff"}
    /\ ~Stopping
    /\ SetCanceller(k, "calling")

\* ExecuteTask must have returned before the first attempt; a retry follows
\* the backoff timer.
CancellationAttempt(k) ==
    /\ \/ activeTasks[k].canceller = "waiting" /\ activeTasks[k].done
       \/ activeTasks[k].canceller = "backoff"
    /\ ~Stopping
    /\ SetCanceller(k, "calling")

CancelTaskFails(k) ==
    /\ activeTasks[k].canceller = "calling"
    /\ SetCanceller(k, "backoff")

CancelTaskSucceeds(k) ==
    /\ activeTasks[k].canceller = "calling"
    /\ rememberCompleted(k, "cancelled")
    /\ activeTasks' = [activeTasks EXCEPT ![k] = NoTask]
    /\ UNCHANGED <<sharedVars, exec, cancelled, interrupted, status, tail,
                   oneShot>>

CancellationStops(k) ==
    /\ activeTasks[k].canceller \in {"waiting", "backoff"}
    /\ Stopping
    /\ SetCanceller(k, "stopped")

Cancelling(k) == activeTasks[k].canceller \in {"waiting", "calling", "backoff"}

-----------------------------------------------------------------------------
\* The tasks' part of shutdownTasks' critical section.

\* Preserving backends only have their observers stopped; the first cause of
\* a context wins, so an execution the user cancelled earlier keeps that cause.
stopObservations ==
    /\ interrupted' = [k \in Executions |->
           interrupted[k] \/ (Tracked(k) /\ ~cancelled[k])]
    /\ UNCHANGED <<activeTasks, cancelled>>

cancelActiveTasks ==
    /\ activeTasks' = [k \in Executions |->
           IF Tracked(k) /\ activeTasks[k].source = ""
           THEN [activeTasks[k] EXCEPT !.source = "shutdown"]
           ELSE activeTasks[k]]
    /\ cancelled' = [k \in Executions |-> cancelled[k] \/ Tracked(k)]
    /\ UNCHANGED interrupted

shutdownActiveTasks ==
    /\ IF PreservesTasks THEN stopObservations ELSE cancelActiveTasks
    /\ UNCHANGED <<exec, completedTasks, completedExecutions, status, tail,
                   oneShot>>

\* The tasks whose done channel shutdownTasks collects.
TaskObservers == {k \in Executions : Tracked(k) /\ ~activeTasks[k].done}

-----------------------------------------------------------------------------

TasksInit ==
    /\ activeTasks = [k \in Executions |-> NoTask]
    /\ exec = [k \in Executions |-> "none"]
    /\ cancelled = [k \in Executions |-> FALSE]
    /\ interrupted = [k \in Executions |-> FALSE]
    /\ completedTasks = [k \in Executions |-> "no"]
    /\ completedExecutions = <<>>
    /\ status = [k \in Executions |-> "none"]
    /\ tail = [release |-> 0, leave |-> 0]
    /\ oneShot = [accepted |-> FALSE, done |-> FALSE]

TasksTypeOK ==
    /\ activeTasks \in [Executions -> Entries \cup {NoTask}]
    /\ exec \in [Executions -> ExecSteps]
    /\ cancelled \in [Executions -> BOOLEAN]
    /\ interrupted \in [Executions -> BOOLEAN]
    /\ completedTasks \in [Executions -> {"no", "completed", "cancelled"}]
    /\ completedExecutions \in Seq(Executions)
    /\ status \in [Executions -> Statuses]
    /\ tail \in [release : Nat, leave : Nat]
    /\ oneShot \in [accepted : BOOLEAN, done : BOOLEAN]

\* Steps of the reader, of the executions' goroutines, and of the cancellers.
TaskReader ==
    \/ \E k \in Executions : AcceptAssignment(k) \/ HandleCancellation(k)
    \/ \E t \in {taskID(k) : k \in Executions} : HandleRunCancellation(t)
    \/ AcquireSlot \/ RejectAtCapacity
    \/ RejectShuttingDown \/ ClaimTask \/ StartExecution

TaskGoroutine(k) ==
    \/ \E r \in Errors \cup {Success} : ExecuteTaskReturns(k, r)
    \/ AbandonObservation(k) \/ ReportError(k) \/ ReportCompleted(k)
    \/ MarkSpawned(k) \/ FinishExecution(k)

TaskTail == ReleaseSlot \/ signalOneShotComplete

TaskCanceller(k) ==
    \/ CancellationAttempt(k) \/ CancelTaskFails(k)
    \/ CancelTaskSucceeds(k) \/ CancellationStops(k)

TasksNext ==
    \/ TaskReader
    \/ TaskTail
    \/ \E k \in Executions : TaskGoroutine(k) \/ TaskCanceller(k)
=============================================================================
