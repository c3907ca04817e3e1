---------------------------- MODULE WorkerSafety ----------------------------
(***************************************************************************)
(* The safety theorem of Worker: Inv is inductive, and implies what the    *)
(* runs check about tracking, cancellation, admission, shutdown, the       *)
(* completed-execution cache and preserved tasks.                          *)
(***************************************************************************)
EXTENDS WorkerProofs

-----------------------------------------------------------------------------
\* What one step does to the variables Inv speaks of.

\* rememberCompletedLocked keeps the cache within its bound, never shrinks it,
\* remembers k unless k is legacy, and forgets another execution only by
\* leaving the cache full.
LEMMA RememberEffect ==
    ASSUME TasksTypeOK, Len(completedExecutions) <= CacheSize,
           NEW k \in Executions, NEW how \in {"completed", "cancelled"},
           rememberCompleted(k, how)
    PROVE  /\ Len(completedExecutions') <= CacheSize
           /\ Len(completedExecutions) = CacheSize
                  => Len(completedExecutions') = CacheSize
           /\ executionID(k) # Legacy => completedTasks'[k] # "no"
           /\ \A j \in Executions : j # k =>
                 /\ completedTasks[j] = "no" => completedTasks'[j] = "no"
                 /\ \/ completedTasks'[j] = completedTasks[j]
                    \/ Len(completedExecutions') = CacheSize
<1> DEFINE grown == Append(completedExecutions, k)
<1>0. /\ completedExecutions \in Seq(Executions)
      /\ completedTasks \in [Executions -> {"no", "completed", "cancelled"}]
      /\ CacheSize \in Nat \ {0}
  BY ConfigAssumption DEF TasksTypeOK
<1>1. CASE executionID(k) = Legacy
  BY <1>0, <1>1 DEF rememberCompleted
<1>2. CASE executionID(k) # Legacy
  <2>1. /\ completedTasks' = RememberedTasks(k, how)
        /\ completedExecutions' = RememberedOrder(k)
    BY <1>2 DEF rememberCompleted
  <2>2. /\ completedTasks'[k] = how
        /\ \A j \in Executions : j # k =>
              completedTasks'[j] = IF /\ completedTasks[k] = "no"
                                      /\ Len(completedExecutions) >= CacheSize
                                      /\ j = Head(completedExecutions)
                                   THEN "no" ELSE completedTasks[j]
    BY <2>1 DEF RememberedTasks
  <2>3. CASE completedTasks[k] # "no"
    BY <1>0, <2>1, <2>2, <2>3 DEF RememberedOrder
  <2>4. CASE completedTasks[k] = "no"
    <3>1. /\ grown \in Seq(Executions) /\ grown # <<>>
          /\ Len(grown) = Len(completedExecutions) + 1
      BY <1>0, AppendProperties
    <3>2. Len(Tail(grown)) = Len(grown) - 1
      BY <3>1
    <3>3. Len(completedExecutions) \in Nat
      BY <1>0
    <3>4. completedExecutions' =
              IF Len(grown) > CacheSize THEN Tail(grown) ELSE grown
      BY <2>1, <2>4 DEF RememberedOrder
    <3>5. CASE Len(completedExecutions) = CacheSize
      <4>1. Len(completedExecutions') = CacheSize
        BY <1>0, <3>1, <3>2, <3>3, <3>4, <3>5
      <4> QED
        BY <1>0, <2>2, <4>1
    <3>6. CASE Len(completedExecutions) < CacheSize
      <4>1. Len(completedExecutions') = Len(completedExecutions) + 1
        BY <1>0, <3>1, <3>3, <3>4, <3>6
      <4> QED
        BY <1>0, <2>2, <3>3, <3>6, <4>1
    <3> QED
      BY <1>0, <3>3, <3>5, <3>6
  <2> QED
    BY <2>3, <2>4
<1> QED
  BY <1>1, <1>2

\* startTaskCancellationLocked touches only source and canceller of tracked
\* entries, and cancels only contexts whose entry it marks as the user's.
LEMMA StartCancellationEffect ==
    ASSUME TasksTypeOK, NEW K,
           NEW tasks \in [Executions -> Entries \cup {NoTask}],
           startTaskCancellation(tasks, K), NEW j \in Executions
    PROVE  /\ activeTasks'[j].done = tasks[j].done
           /\ (activeTasks'[j] # NoTask) <=> (tasks[j] # NoTask)
           /\ activeTasks'[j].canceller \in {"calling", "backoff"}
                  => tasks[j].canceller \in {"calling", "backoff"}
           /\ activeTasks'[j].source \in {tasks[j].source, "user"}
           /\ cancelled[j] => cancelled'[j]
           /\ cancelled'[j] => cancelled[j] \/ activeTasks'[j].source = "user"
<1> DEFINE started == {k \in K : tasks[k] # NoTask /\ tasks[k].canceller = "none"}
<1>1. /\ activeTasks'[j] =
             IF j \in started
             THEN [tasks[j] EXCEPT !.source = "user", !.canceller = "waiting"]
             ELSE tasks[j]
      /\ cancelled'[j] = (cancelled[j] \/ j \in started)
  BY DEF startTaskCancellation
<1>2. CASE j \in started
  <2>1. tasks[j] \in Entries
    BY <1>2
  <2>2. /\ activeTasks'[j] =
             [tasks[j] EXCEPT !.source = "user", !.canceller = "waiting"]
        /\ cancelled'[j]
    BY <1>1, <1>2
  <2>3. /\ activeTasks'[j].done = tasks[j].done
        /\ activeTasks'[j].source = "user"
        /\ activeTasks'[j].canceller = "waiting"
    BY <2>1, <2>2 DEF Entries
  <2>4. NoTask.source = "absent"
    BY DEF NoTask
  <2>5. activeTasks'[j] # NoTask /\ tasks[j] # NoTask
    BY <1>2, <2>3, <2>4
  <2> QED
    BY <2>2, <2>3, <2>5
<1>3. CASE j \notin started
  <2>1. activeTasks'[j] = tasks[j] /\ cancelled'[j] = cancelled[j]
    <3> HIDE DEF started
    <3> QED
      BY <1>1, <1>3 DEF TasksTypeOK
  <2> QED
    BY <2>1
<1> QED
  BY <1>2, <1>3

\* The entry that stands for "no entry".
LEMMA NoTaskFields ==
    /\ NoTask.done = TRUE
    /\ NoTask.canceller = "none"
    /\ NoTask.source = "absent"
    /\ NewTask.done = FALSE
    /\ NewTask.canceller = "none"
    /\ NewTask.source = ""
    /\ NewTask # NoTask
    /\ FinishedTask.done = TRUE
    /\ FinishedTask.canceller = "none"
    /\ FinishedTask.source = ""
    /\ FinishedTask # NoTask
BY DEF NoTask, NewTask, FinishedTask

-----------------------------------------------------------------------------
\* Every step of the tasks' half preserves the invariant of any execution j.

\* Accepting and rejecting an assignment before the entry goes in: the key the
\* reader holds is unknown and stays so.
LEMMA AdmissionKeeps ==
    ASSUME TypeOK, Inv, NEW j \in Executions,
           \/ \E k \in Executions : AcceptAssignment(k)
           \/ AcquireSlot \/ RejectAtCapacity \/ RejectShuttingDown
    PROVE  TaskInv(j)'
<1>0. TaskInv(j)
  BY DEF Inv
<1>1. CASE \E k \in Executions : AcceptAssignment(k)
  BY <1>0, <1>1 DEF AcceptAssignment, Reserve, TaskInv, Live, Pending, Known, Tracked,
      BackendCtxDone, TaskCtxDone, Idle
<1>2. CASE AcquireSlot
  BY <1>0, <1>2 DEF AcquireSlot, taskVars, ReaderAt, TaskInv, Live, Pending,
      Known, Tracked, BackendCtxDone, TaskCtxDone
<1>3. CASE RejectAtCapacity \/ RejectShuttingDown
  BY <1>0, <1>3 DEF RejectAtCapacity, RejectShuttingDown, TaskInv, Live,
      Pending, Known, Tracked, BackendCtxDone, TaskCtxDone, Idle
<1> QED
  BY <1>1, <1>2, <1>3

\* Inserting the entry: a fresh, uncancelled context under a worker that is not
\* stopping.
LEMMA ClaimKeeps ==
    ASSUME TypeOK, Inv, NEW j \in Executions, ClaimTask
    PROVE  TaskInv(j)'
<1>0. TaskInv(j)
  BY DEF Inv
<1>1. reader.key \in Executions /\ reader.at = "acquired"
  BY DEF Inv, ClaimTask, Claim
<1>2. reader'.at = "claiming" /\ reader'.key = reader.key
  BY DEF ClaimTask, Claim, ReaderAt
<1>3. CASE j = reader.key
  <2>1. /\ activeTasks'[j] = NewTask /\ exec'[j] = "claiming"
        /\ status'[j] = "none" /\ cancelled'[j] = FALSE
    BY <1>1, <1>3 DEF ClaimTask, Claim, TypeOK, TasksTypeOK
  <2>2. ~shuttingDown'
    BY DEF ClaimTask, Claim, Stopping
  <2> QED
    BY <1>2, <1>3, <2>1, <2>2, NoTaskFields
    DEF TaskInv, Live, Pending, Unreported, Errors, Terminal
<1>4. CASE j # reader.key
  <2>1. /\ activeTasks'[j] = activeTasks[j] /\ exec'[j] = exec[j]
        /\ status'[j] = status[j] /\ cancelled'[j] = cancelled[j]
        /\ interrupted'[j] = interrupted[j]
        /\ UNCHANGED <<ctxDone, shuttingDown, completedTasks,
                       completedExecutions>>
    BY <1>1, <1>4 DEF ClaimTask, Claim, TypeOK, TasksTypeOK
  <2> QED
    BY <1>0, <1>1, <1>2, <1>4, <2>1 DEF TaskInv, Live, Pending, Known, Tracked,
        BackendCtxDone, TaskCtxDone
<1> QED
  BY <1>3, <1>4

\* Sending "claimed" and starting the goroutine.
LEMMA StartKeeps ==
    ASSUME TypeOK, Inv, NEW j \in Executions, StartExecution
    PROVE  TaskInv(j)'
<1>0. TaskInv(j)
  BY DEF Inv
<1>1. reader.key \in Executions /\ reader.at = "claiming"
  BY DEF Inv, StartExecution
<1>2. reader' = Idle /\ Idle.at = "idle"
  BY DEF StartExecution, Idle
<1>3. CASE j = reader.key
  <2>1. exec'[j] = "executing" /\ status'[j] = "claimed" /\ exec[j] = "claiming"
    BY <1>0, <1>1, <1>3 DEF StartExecution, TypeOK, TasksTypeOK, TaskInv
  <2> QED
    BY <1>0, <1>1, <1>2, <2>1 DEF StartExecution, TaskInv, Live, Pending,
        Unreported, Errors, Terminal, BackendCtxDone, TaskCtxDone
<1>4. CASE j # reader.key
  <2>1. exec'[j] = exec[j] /\ status'[j] = status[j]
    BY <1>1, <1>4 DEF StartExecution, TypeOK, TasksTypeOK
  <2> QED
    BY <1>0, <1>1, <1>2, <1>4, <2>1 DEF StartExecution, TaskInv, Live, Pending,
        Known, Tracked, BackendCtxDone, TaskCtxDone
<1> QED
  BY <1>3, <1>4

\* ExecuteTask returning, and a stopped observation being abandoned.
LEMMA ReturnKeeps ==
    ASSUME TypeOK, Inv, NEW j \in Executions, NEW k \in Executions,
           \/ \E r \in Errors \cup {Success} : ExecuteTaskReturns(k, r)
           \/ AbandonObservation(k)
    PROVE  TaskInv(j)'
<1>0. TaskInv(j)
  BY DEF Inv
<1>1. /\ UNCHANGED <<sharedVars, activeTasks, cancelled, interrupted,
                     completedTasks, completedExecutions, status>>
      /\ exec[k] \in {"executing"} \cup Errors
      /\ exec'[k] \in {"interrupted", Success} \cup Errors
      /\ exec'[k] = "task_cancelled" => BackendCtxDone(k)
      /\ j # k => exec'[j] = exec[j]
  BY DEF ExecuteTaskReturns, AbandonObservation, TypeOK, TasksTypeOK, Errors,
      Success
<1>2. CASE j = k
  <2>1. /\ exec'[j] \in {"interrupted", "completed", "spawned"} \cup Errors
        /\ exec[j] \in {"executing"} \cup Errors
    BY <1>1, <1>2 DEF Success
  <2> QED
    BY <1>0, <1>1, <1>2, <2>1 DEF TaskInv, Live, Pending, Known, Tracked,
        Unreported, Errors, BackendCtxDone, TaskCtxDone, sharedVars
<1>3. CASE j # k
  BY <1>0, <1>1, <1>3 DEF TaskInv, Live, Pending, Known, Tracked,
      BackendCtxDone, TaskCtxDone, sharedVars
<1> QED
  BY <1>2, <1>3

\* A preserved execution whose error is reported was cancelled by a user.
LEMMA PreservedErrorStatus ==
    ASSUME TypeOK, Inv, NEW k \in Executions, PreservesTasks, ReportError(k)
    PROVE  ErrorStatus(k, exec[k]) \notin {"task_cancelled", "graceful_shutdown"}
<1>0. TaskInv(k)
  BY DEF Inv
<1>1. exec[k] \in Errors /\ ~interrupted[k]
  BY DEF ReportError
<1>2. activeTasks[k].source # "shutdown"
  BY <1>0 DEF TaskInv
<1>3. cancellationSource(k) # "shutdown"
  BY <1>2 DEF cancellationSource
<1>4. ASSUME exec[k] = "task_cancelled"
      PROVE  TaskCtxDone(k) /\ cancellationSource(k) = "user"
  <2>1. cancelled[k]
    BY <1>0, <1>1, <1>4 DEF TaskInv
  <2>2. activeTasks[k].source = "user"
    BY <1>0, <1>4, <2>1 DEF TaskInv, Live
  <2>3. Tracked(k)
    BY <2>2, NoTaskFields DEF Tracked
  <2> QED
    BY <2>1, <2>2, <2>3 DEF TaskCtxDone, cancellationSource
<1> QED
  BY <1>3, <1>4 DEF ErrorStatus

\* Sending the terminal status of an execution.
LEMMA ReportKeeps ==
    ASSUME TypeOK, Inv, NEW j \in Executions, NEW k \in Executions,
           ReportError(k) \/ ReportCompleted(k)
    PROVE  TaskInv(j)'
<1>0. TaskInv(j)
  BY DEF Inv
<1>1. /\ UNCHANGED <<sharedVars, activeTasks, cancelled, interrupted,
                     completedTasks, completedExecutions>>
      /\ exec[k] \in {"completed"} \cup Errors
      /\ exec'[k] = "finishing"
      /\ j # k => exec'[j] = exec[j] /\ status'[j] = status[j]
  BY DEF ReportError, ReportCompleted, TypeOK, TasksTypeOK
<1>2. PreservesTasks => status'[k] \notin {"task_cancelled", "graceful_shutdown"}
  BY PreservedErrorStatus DEF ReportError, ReportCompleted, TypeOK, TasksTypeOK
<1>3. CASE j = k
  BY <1>0, <1>1, <1>2, <1>3 DEF TaskInv, Live, Pending, Known, Tracked,
      Unreported, Errors, BackendCtxDone, TaskCtxDone, sharedVars
<1>4. CASE j # k
  BY <1>0, <1>1, <1>4 DEF TaskInv, Live, Pending, Known, Tracked,
      BackendCtxDone, TaskCtxDone, sharedVars
<1> QED
  BY <1>3, <1>4

\* Marking a spawned task.
LEMMA SpawnKeeps ==
    ASSUME TypeOK, Inv, NEW j \in Executions, NEW k \in Executions,
           MarkSpawned(k)
    PROVE  TaskInv(j)'
<1>0. TaskInv(j)
  BY DEF Inv
<1>1. /\ UNCHANGED <<sharedVars, cancelled, interrupted, completedTasks,
                     completedExecutions, status>>
      /\ exec[k] = "spawned" /\ exec'[k] = "finishing"
      /\ j # k => exec'[j] = exec[j] /\ activeTasks'[j] = activeTasks[j]
  BY DEF MarkSpawned, TypeOK, TasksTypeOK
<1>2. CASE j = k
  <2>1. /\ activeTasks'[j].done = activeTasks[j].done
        /\ activeTasks'[j].canceller = activeTasks[j].canceller
        /\ activeTasks'[j].source = activeTasks[j].source
        /\ (activeTasks'[j] # NoTask) <=> (activeTasks[j] # NoTask)
    <3>1. CASE Tracked(k)
      <4>1. activeTasks[k] \in Entries
        BY <3>1 DEF Tracked, TypeOK, TasksTypeOK
      <4>2. activeTasks'[k] = [activeTasks[k] EXCEPT !.spawned = TRUE]
        BY <3>1 DEF MarkSpawned, TypeOK, TasksTypeOK
      <4>3. activeTasks'[k].spawned = TRUE /\ NoTask.spawned = FALSE
        BY <4>1, <4>2 DEF Entries, NoTask
      <4> QED
        BY <1>2, <3>1, <4>1, <4>2, <4>3 DEF Entries, Tracked
    <3>2. CASE ~Tracked(k)
      BY <1>2, <3>2 DEF MarkSpawned
    <3> QED
      BY <3>1, <3>2
  <2> QED
    BY <1>0, <1>1, <1>2, <2>1 DEF TaskInv, Live, Pending, Known, Tracked,
        Unreported, Errors, BackendCtxDone, TaskCtxDone, sharedVars, Terminal
<1>3. CASE j # k
  BY <1>0, <1>1, <1>3 DEF TaskInv, Live, Pending, Known, Tracked,
      BackendCtxDone, TaskCtxDone, sharedVars
<1> QED
  BY <1>2, <1>3

\* What any step does to the cache that remembers k or leaves it alone.
LEMMA CacheEffect ==
    ASSUME TypeOK, Inv, NEW k \in Executions,
           \/ UNCHANGED <<completedTasks, completedExecutions>>
           \/ \E how \in {"completed", "cancelled"} : rememberCompleted(k, how)
    PROVE  /\ Len(completedExecutions') <= CacheSize
           /\ Len(completedExecutions) = CacheSize
                  => Len(completedExecutions') = CacheSize
           /\ \A j \in Executions : j # k =>
                 /\ completedTasks[j] = "no" => completedTasks'[j] = "no"
                 /\ \/ completedTasks'[j] = completedTasks[j]
                    \/ Len(completedExecutions') = CacheSize
<1>1. CASE UNCHANGED <<completedTasks, completedExecutions>>
  BY <1>1 DEF Inv
<1>2. CASE \E how \in {"completed", "cancelled"} : rememberCompleted(k, how)
  BY <1>2, RememberEffect DEF Inv, TypeOK
<1> QED
  BY <1>1, <1>2

\* An execution that such a step is not about keeps its invariant.
LEMMA OtherKeeps ==
    ASSUME TypeOK, Inv, NEW k \in Executions, NEW j \in Executions, j # k,
           \/ UNCHANGED <<completedTasks, completedExecutions>>
           \/ \E how \in {"completed", "cancelled"} : rememberCompleted(k, how),
           UNCHANGED <<sharedVars, interrupted, status>>,
           activeTasks'[j] = activeTasks[j], exec'[j] = exec[j],
           cancelled'[j] = cancelled[j]
    PROVE  TaskInv(j)'
<1>0. TaskInv(j)
  BY DEF Inv
<1> QED
  BY <1>0, CacheEffect DEF TaskInv, Live, Pending, Known, Tracked,
      BackendCtxDone, TaskCtxDone, sharedVars

\* The deferred bookkeeping: done is closed and the execution is kept or
\* remembered; whatever is evicted leaves the cache full.
LEMMA FinishKeeps ==
    ASSUME TypeOK, Inv, NEW j \in Executions, NEW k \in Executions,
           FinishExecution(k)
    PROVE  TaskInv(j)' /\ Len(completedExecutions') <= CacheSize
<1>0. TaskInv(k)
  BY DEF Inv
<1>1. \/ UNCHANGED <<completedTasks, completedExecutions>>
      \/ \E how \in {"completed", "cancelled"} : rememberCompleted(k, how)
  BY DEF FinishExecution, Settle, Keep, Forget
<1>2. Len(completedExecutions') <= CacheSize
  BY <1>1, CacheEffect
<1>3. /\ UNCHANGED <<sharedVars, interrupted, status>>
      /\ exec[k] \in {"finishing", "interrupted"}
      /\ exec'[k] = "none"
      /\ j # k => /\ activeTasks'[j] = activeTasks[j]
                  /\ exec'[j] = exec[j] /\ cancelled'[j] = cancelled[j]
  BY DEF FinishExecution, Settle, Keep, Forget, TypeOK, TasksTypeOK
<1>4. CASE j = k
  <2>1. Tracked(k)
    BY <1>0, <1>3, NoTaskFields DEF TaskInv, Live, Tracked
  <2>2. ~(Pending /\ reader.key = k) /\ ~(reader.at = "claiming" /\ reader.key = k)
    BY <1>0, <1>3, <2>1 DEF TaskInv, Known
  <2>3. CASE activeTasks[k].spawned \/ activeTasks[k].source = "user"
    <3>1. activeTasks[k] \in Entries
      BY <2>1 DEF Tracked, TypeOK, TasksTypeOK
    <3>2. activeTasks'[k] = [activeTasks[k] EXCEPT !.done = TRUE]
      BY <2>1, <2>3 DEF FinishExecution, Settle, Keep, Forget, TypeOK, TasksTypeOK
    <3>3. /\ activeTasks'[k].done
          /\ activeTasks'[k].canceller = activeTasks[k].canceller
          /\ activeTasks'[k].source = activeTasks[k].source
          /\ activeTasks[k].source \in Sources
      BY <3>1, <3>2 DEF Entries
    <3>4. activeTasks'[k] # NoTask
      BY <3>3, NoTaskFields DEF Sources
    <3> QED
      BY <1>0, <1>2, <1>3, <1>4, <2>2, <3>3, <3>4 DEF TaskInv, Live, Pending,
          Known, Tracked, Unreported, Errors, sharedVars
  <2>4. CASE ~(activeTasks[k].spawned \/ activeTasks[k].source = "user")
    <3>1. activeTasks'[k] = NoTask
      BY <2>1, <2>4 DEF FinishExecution, Settle, Keep, Forget, TypeOK, TasksTypeOK
    <3>2. exec[k] = "interrupted" => status[k] = "claimed"
      BY <1>0 DEF TaskInv, Unreported
    <3>3. exec[k] # "interrupted" => rememberCompleted(k, "completed")
      BY <2>1, <2>4 DEF FinishExecution, Settle, Keep, Forget
    <3>4. exec[k] # "interrupted" /\ executionID(k) # Legacy
              => completedTasks'[k] # "no"
      BY <3>3, RememberEffect DEF TypeOK, Inv
    <3>5. status[k] \in Terminal /\ executionID(k) # Legacy
              => completedTasks'[k] # "no"
      BY <1>3, <3>2, <3>4 DEF Terminal
    <3> QED
      BY <1>0, <1>2, <1>3, <1>4, <2>2, <3>1, <3>5, NoTaskFields DEF TaskInv,
          Live, Pending, Known, Tracked, Unreported, Errors, sharedVars
  <2> QED
    BY <2>3, <2>4
<1>5. CASE j # k
  BY <1>1, <1>2, <1>3, <1>5, OtherKeeps
<1> QED
  BY <1>2, <1>4, <1>5

\* What a goroutine does after its bookkeeping touches no task.
LEMMA TailKeeps ==
    ASSUME TypeOK, Inv, NEW j \in Executions, TaskTail
    PROVE  TaskInv(j)'
<1>0. TaskInv(j)
  BY DEF Inv
<1> QED
  BY <1>0 DEF TaskTail, ReleaseSlot, signalOneShotComplete, TaskInv, Live,
      Pending, Known, Tracked, BackendCtxDone, TaskCtxDone

\* Every step of cancelTaskOnBackend: an attempt begins only after done.
LEMMA CancellerKeeps ==
    ASSUME TypeOK, Inv, NEW j \in Executions, NEW k \in Executions,
           TaskCanceller(k)
    PROVE  TaskInv(j)' /\ Len(completedExecutions') <= CacheSize
<1>0. TaskInv(k)
  BY DEF Inv
<1>1. Tracked(k)
  BY NoTaskFields DEF TaskCanceller, CancellationAttempt, CancelTaskFails,
      CancelTaskSucceeds, CancellationStops, Tracked
<1>2. ~(Pending /\ reader.key = k)
  BY <1>0, <1>1 DEF TaskInv, Known
<1>3. CASE CancelTaskSucceeds(k)
  <2>1. \E how \in {"completed", "cancelled"} : rememberCompleted(k, how)
    BY <1>3 DEF CancelTaskSucceeds
  <2>2. Len(completedExecutions') <= CacheSize
    BY <2>1, CacheEffect
  <2>3. /\ UNCHANGED <<sharedVars, exec, cancelled, interrupted, status>>
        /\ activeTasks'[k] = NoTask
        /\ j # k => activeTasks'[j] = activeTasks[j]
    BY <1>3 DEF CancelTaskSucceeds, TypeOK, TasksTypeOK
  <2>4. executionID(k) # Legacy => completedTasks'[k] # "no"
    BY <1>3, RememberEffect DEF CancelTaskSucceeds, TypeOK, Inv
  <2>5. activeTasks[k].done
    BY <1>0, <1>3 DEF CancelTaskSucceeds, TaskInv
  <2>6. CASE j = k
    BY <1>0, <1>2, <2>2, <2>3, <2>4, <2>5, <2>6, NoTaskFields DEF TaskInv,
        Live, Pending, Known, Tracked, BackendCtxDone, TaskCtxDone, sharedVars
  <2>7. CASE j # k
    BY <2>1, <2>2, <2>3, <2>7, OtherKeeps
  <2> QED
    BY <2>2, <2>6, <2>7
<1>4. CASE CancellationAttempt(k) \/ CancelTaskFails(k) \/ CancellationStops(k)
  <2>1. PICK step \in {"calling", "backoff", "stopped"} :
            /\ SetCanceller(k, step)
            /\ step \in {"calling", "backoff"} => activeTasks[k].done
    BY <1>0, <1>4 DEF CancellationAttempt, CancelTaskFails, CancellationStops,
        TaskInv
  <2>2. activeTasks[k] \in Entries
    BY <1>1 DEF Tracked, TypeOK, TasksTypeOK
  <2>3. /\ activeTasks'[k] = [activeTasks[k] EXCEPT !.canceller = step]
        /\ j # k => activeTasks'[j] = activeTasks[j]
        /\ UNCHANGED <<sharedVars, exec, cancelled, interrupted,
                       completedTasks, completedExecutions, status>>
    BY <2>1 DEF SetCanceller, TypeOK, TasksTypeOK
  <2>4. /\ activeTasks'[k].done = activeTasks[k].done
        /\ activeTasks'[k].source = activeTasks[k].source
        /\ activeTasks'[k].canceller = step
    BY <2>2, <2>3 DEF Entries
  <2>5. activeTasks'[k] # NoTask
    BY <2>1, <2>4, NoTaskFields
  <2>6. CASE j = k
    BY <1>0, <1>1, <1>2, <2>1, <2>3, <2>4, <2>5, <2>6 DEF TaskInv, Live,
        Pending, Known, Tracked, BackendCtxDone, TaskCtxDone, sharedVars, Inv
  <2>7. CASE j # k
    <3>1. Len(completedExecutions') <= CacheSize
      BY <2>3 DEF Inv
    <3> QED
      BY <2>3, <2>7, <3>1, OtherKeeps
  <2> QED
    BY <2>6, <2>7
<1> QED
  BY <1>3, <1>4 DEF TaskCanceller

\* handleTaskCancellation, in its two forms.
LEMMA CancellationKeeps ==
    ASSUME TypeOK, Inv, NEW j \in Executions,
           \/ \E k \in Executions : HandleCancellation(k)
           \/ \E t \in {taskID(k) : k \in Executions} : HandleRunCancellation(t)
    PROVE  TaskInv(j)'
<1>0. TaskInv(j) /\ TasksTypeOK
  BY DEF Inv, TypeOK
<1>1. PICK tasks \in [Executions -> Entries \cup {NoTask}],
          K \in SUBSET Executions :
          /\ startTaskCancellation(tasks, K)
          /\ \/ tasks[j] = activeTasks[j]
             \/ /\ tasks[j] = FinishedTask /\ activeTasks[j] = NoTask
                /\ completedTasks[j] = "completed"
  <2>1. CASE \E k \in Executions : HandleCancellation(k)
    <3> PICK k \in Executions : HandleCancellation(k)
      BY <2>1
    <3> DEFINE new == IF completedTasks[k] = "completed" /\ ~Tracked(k)
                      THEN [activeTasks EXCEPT ![k] = FinishedTask]
                      ELSE activeTasks
    <3>1. FinishedTask \in Entries
      BY DEF FinishedTask, NewTask, Entries, Sources, CancellerSteps
    <3>2. new \in [Executions -> Entries \cup {NoTask}]
      BY <1>0, <3>1 DEF TasksTypeOK
    <3>3. startTaskCancellation(new, {k})
      BY DEF HandleCancellation
    <3>4. \/ new[j] = activeTasks[j]
          \/ /\ new[j] = FinishedTask /\ activeTasks[j] = NoTask
             /\ completedTasks[j] = "completed"
      BY <1>0, <3>2 DEF TasksTypeOK, Tracked
    <3> HIDE DEF new
    <3> QED
      BY <3>2, <3>3, <3>4
  <2>2. CASE \E t \in {taskID(k) : k \in Executions} : HandleRunCancellation(t)
    BY <1>0, <2>2 DEF HandleRunCancellation, TasksTypeOK
  <2> QED
    BY <2>1, <2>2
<1>2. /\ UNCHANGED <<sharedVars, exec, interrupted, completedTasks,
                     completedExecutions, status>>
      /\ reader.at = "idle"
      /\ ~shuttingDown
  <2>1. CASE \E k \in Executions : HandleCancellation(k)
    BY <2>1 DEF HandleCancellation, Idle, Stopping
  <2>2. CASE \E t \in {taskID(k) : k \in Executions} : HandleRunCancellation(t)
    BY <2>2 DEF HandleRunCancellation, Idle, Stopping
  <2> QED
    BY <2>1, <2>2
<1>3. /\ tasks[j].done = activeTasks[j].done
      /\ (tasks[j] # NoTask) => (Tracked(j) \/ completedTasks[j] # "no")
      /\ Tracked(j) => tasks[j] # NoTask
      /\ tasks[j].canceller = activeTasks[j].canceller
      /\ tasks[j].source \in {activeTasks[j].source, ""}
  BY <1>1, NoTaskFields DEF Tracked
<1>4. /\ activeTasks'[j].done = tasks[j].done
      /\ (activeTasks'[j] # NoTask) <=> (tasks[j] # NoTask)
      /\ activeTasks'[j].canceller \in {"calling", "backoff"}
             => tasks[j].canceller \in {"calling", "backoff"}
      /\ activeTasks'[j].source \in {tasks[j].source, "user"}
      /\ cancelled[j] => cancelled'[j]
      /\ cancelled'[j] => cancelled[j] \/ activeTasks'[j].source = "user"
  BY <1>0, <1>1, StartCancellationEffect
<1>5. exec[j] # "none" => tasks[j] = activeTasks[j]
  BY <1>0, <1>1, NoTaskFields DEF TaskInv, Live
<1> QED
  BY <1>0, <1>2, <1>3, <1>4, <1>5 DEF TaskInv, Live, Pending, Known, Tracked,
      BackendCtxDone, TaskCtxDone, sharedVars

\* The steps of the tasks' half together.
LEMMA TasksKeep ==
    ASSUME TypeOK, Inv, TasksNext, UNCHANGED <<standbyVars, runVars>>
    PROVE  Inv'
<1>1. ASSUME NEW j \in Executions PROVE TaskInv(j)'
  BY <1>1, AdmissionKeeps, ClaimKeeps, StartKeeps, ReturnKeeps, ReportKeeps,
      SpawnKeeps, FinishKeeps, TailKeeps, CancellerKeeps, CancellationKeeps
  DEF TasksNext, TaskReader, TaskGoroutine
<1>2. Len(completedExecutions') <= CacheSize
  <2>1. CASE \E k \in Executions : FinishExecution(k) \/ TaskCanceller(k)
    BY <2>1, FinishKeeps, CancellerKeeps
  <2>2. CASE UNCHANGED completedExecutions
    BY <2>2 DEF Inv
  <2>3. \/ \E k \in Executions : FinishExecution(k) \/ TaskCanceller(k)
        \/ UNCHANGED completedExecutions
    <3>1. ASSUME TaskReader PROVE UNCHANGED completedExecutions
      BY <3>1 DEF TaskReader, AcceptAssignment, Reserve, HandleCancellation,
          HandleRunCancellation, AcquireSlot, RejectAtCapacity,
          RejectShuttingDown, ClaimTask, Claim, StartExecution, taskVars
    <3>2. ASSUME TaskTail PROVE UNCHANGED completedExecutions
      BY <3>2 DEF TaskTail, ReleaseSlot, signalOneShotComplete
    <3>3. ASSUME NEW k \in Executions, TaskGoroutine(k), ~FinishExecution(k)
          PROVE  UNCHANGED completedExecutions
      BY <3>3 DEF TaskGoroutine, ExecuteTaskReturns, AbandonObservation,
          ReportError, ReportCompleted, MarkSpawned
    <3> QED
      BY <3>1, <3>2, <3>3 DEF TasksNext
  <2> QED
    BY <2>1, <2>2, <2>3
<1>3. (reader.at \in {"accepted", "acquired", "claiming"}
           => reader.key \in Executions)'
  <2>1. ASSUME TaskReader
        PROVE  \/ reader'.at = "idle" \/ reader'.key \in Executions
               \/ UNCHANGED reader
    <3>1. CASE \E k \in Executions : AcceptAssignment(k)
      BY <3>1 DEF AcceptAssignment, Reserve
    <3>2. CASE \/ \E k \in Executions : HandleCancellation(k)
               \/ \E t \in {taskID(k) : k \in Executions} :
                      HandleRunCancellation(t)
      BY <3>2 DEF HandleCancellation, HandleRunCancellation, sharedVars
    <3>3. CASE AcquireSlot \/ ClaimTask
      BY <3>3 DEF AcquireSlot, ClaimTask, Claim, ReaderAt, Inv
    <3>4. CASE RejectAtCapacity \/ RejectShuttingDown \/ StartExecution
      BY <3>4 DEF RejectAtCapacity, RejectShuttingDown, StartExecution, Idle
    <3> QED
      BY <2>1, <3>1, <3>2, <3>3, <3>4 DEF TaskReader
  <2>2. ASSUME TaskTail PROVE UNCHANGED reader
    BY <2>2 DEF TaskTail, ReleaseSlot, signalOneShotComplete
  <2>3. ASSUME NEW k \in Executions, TaskGoroutine(k) \/ TaskCanceller(k)
        PROVE  UNCHANGED reader
    BY <2>3 DEF TaskGoroutine, ExecuteTaskReturns, AbandonObservation,
        ReportError, ReportCompleted, MarkSpawned, FinishExecution, Settle, Keep, Forget,
        TaskCanceller, CancellationAttempt, CancelTaskFails,
        CancelTaskSucceeds, CancellationStops, SetCanceller, sharedVars
  <2> QED
    BY <2>1, <2>2, <2>3 DEF Inv, TasksNext
<1>4. (shuttingDown => \A s \in StandbyIDs : Local(s) => StandbyCtxDone(s))'
  <2>1. UNCHANGED <<ctxDone, shuttingDown>>
    <3>1. ASSUME TaskReader PROVE UNCHANGED <<ctxDone, shuttingDown>>
      BY <3>1 DEF TaskReader, AcceptAssignment, Reserve, HandleCancellation,
          HandleRunCancellation, AcquireSlot, RejectAtCapacity,
          RejectShuttingDown, ClaimTask, Claim, StartExecution, sharedVars
    <3>2. ASSUME TaskTail PROVE UNCHANGED <<ctxDone, shuttingDown>>
      BY <3>2 DEF TaskTail, ReleaseSlot, signalOneShotComplete
    <3>3. ASSUME NEW k \in Executions, TaskGoroutine(k) \/ TaskCanceller(k)
          PROVE  UNCHANGED <<ctxDone, shuttingDown>>
      BY <3>3 DEF TaskGoroutine, ExecuteTaskReturns, AbandonObservation,
          ReportError, ReportCompleted, MarkSpawned, FinishExecution, Settle,
          Keep, Forget,
          TaskCanceller, CancellationAttempt, CancelTaskFails,
          CancelTaskSucceeds, CancellationStops, SetCanceller, sharedVars
    <3> QED
      BY <3>1, <3>2, <3>3 DEF TasksNext
  <2> QED
    BY <2>1 DEF Inv, Local, StandbyCtxDone, standbyVars
<1> QED
  BY <1>1, <1>2, <1>3, <1>4 DEF Inv

-----------------------------------------------------------------------------
\* The standbys' half: it only ever borrows the reader, and no standby's
\* context is uncancelled.

\* The standbys' steps leave the signal, the flag and a pending assignment alone.
LEMMA StandbyReaderFrame ==
    ASSUME NEW s \in StandbyIDs,
           \/ StandbyReader(s) \/ StandbyGoroutine(s) \/ StandbyWatcher(s)
           \/ DestroyReturns(s)
    PROVE  /\ UNCHANGED <<ctxDone, shuttingDown>>
           /\ \/ UNCHANGED reader
              \/ /\ reader.at \in {"idle", "creating"}
                 /\ reader'.at \in {"idle", "creating"}
<1>1. CASE PrewarmCreate(s)
  BY <1>1 DEF PrewarmCreate, ReaderAt, Idle
<1>2. CASE StartStandby(s)
  BY <1>2 DEF StartStandby, Idle
<1>3. CASE \/ PrewarmDestroy(s) \/ StandbyReturns(s) \/ CheckStandbyCause(s)
           \/ ReportStandbyExit(s) \/ DestroyReturns(s)
           \/ reportWatchedStandbyExit(s) \/ WatcherSends(s)
  BY <1>3 DEF PrewarmDestroy, StandbyReturns, CheckStandbyCause,
      ReportStandbyExit, DestroyReturns, reportWatchedStandbyExit,
      WatcherSends, SetStandby, sharedVars
<1>4. CASE ReleaseStandby(s) \/ ForgetStandby(s)
  BY <1>4 DEF ReleaseStandby, ForgetStandby
<1> QED
  BY <1>1, <1>2, <1>3, <1>4 DEF StandbyReader, StandbyGoroutine, StandbyWatcher

\* After shutdownTasks a standby that is still local stays told to stop.
LEMMA StandbyCancelKept ==
    ASSUME TypeOK, NEW s \in StandbyIDs, NEW i \in StandbyIDs,
           \/ StandbyReader(s) \/ StandbyGoroutine(s) \/ StandbyWatcher(s)
           \/ DestroyReturns(s),
           shuttingDown, Local(i) => StandbyCtxDone(i)
    PROVE  Local(i)' => StandbyCtxDone(i)'
<1>0. /\ standbys \in [StandbyIDs -> StandbyEntries \cup {NoStandby}]
      /\ UNCHANGED <<ctxDone, shuttingDown>>
  BY StandbyReaderFrame DEF TypeOK, StandbysTypeOK
<1>1. ~PrewarmCreate(s)
  BY DEF PrewarmCreate, Stopping
<1>2. ASSUME NEW step \in StandbySteps, standbys[s] \in StandbyEntries,
             standbys' = [standbys EXCEPT ![s].at = step]
      PROVE  Local(i)' => StandbyCtxDone(i)'
  <2>1. CASE i = s
    <3>1. /\ standbys'[s].cancelled = standbys[s].cancelled
          /\ standbys'[s].interrupted = standbys[s].interrupted
      <4>1. standbys'[s] = [standbys[s] EXCEPT !.at = step]
        BY <1>0, <1>2
      <4> QED
        BY <1>2, <4>1 DEF StandbyEntries
    <3>2. standbys[s] # NoStandby
      <4>1. NoStandby.at = "none"
        BY DEF NoStandby
      <4>2. standbys[s].at # "none"
        BY <1>2 DEF StandbyEntries, StandbySteps
      <4> QED
        BY <4>1, <4>2
    <3> QED
      BY <1>0, <2>1, <3>1, <3>2 DEF Local, StandbyCtxDone
  <2>2. CASE i # s
    BY <1>0, <1>2, <2>2 DEF Local, StandbyCtxDone
  <2> QED
    BY <2>1, <2>2
<1>3. standbys[s].at \in StandbySteps => standbys[s] \in StandbyEntries
  <2>1. NoStandby.at \notin StandbySteps
    BY DEF NoStandby, StandbySteps
  <2> QED
    BY <1>0, <2>1
<1>4. CASE StartStandby(s) \/ StandbyReturns(s) \/ CheckStandbyCause(s)
           \/ ReportStandbyExit(s)
  <2>1. /\ standbys[s].at \in StandbySteps
        /\ \E step \in StandbySteps : standbys' = [standbys EXCEPT ![s].at = step]
    BY <1>4 DEF StartStandby, StandbyReturns, CheckStandbyCause,
        ReportStandbyExit, SetStandby, StandbySteps
  <2> QED
    BY <1>2, <1>3, <2>1
<1>5. CASE DestroyReturns(s) \/ reportWatchedStandbyExit(s) \/ WatcherSends(s)
  <2>1. UNCHANGED standbys
    BY <1>5 DEF DestroyReturns, reportWatchedStandbyExit, WatcherSends
  <2> QED
    BY <1>0, <2>1 DEF Local, StandbyCtxDone
<1>6. CASE PrewarmDestroy(s)
  <2>1. CASE i = s /\ Local(s)
    <3>1. standbys[s] \in StandbyEntries
      BY <1>0, <2>1 DEF Local
    <3>2. standbys'[s] = [standbys[s] EXCEPT
              !.source = IF @ = "" THEN "user" ELSE @, !.cancelled = TRUE]
      BY <1>0, <1>6, <2>1 DEF PrewarmDestroy
    <3>3. standbys'[s].cancelled
      BY <3>1, <3>2 DEF StandbyEntries
    <3> QED
      BY <2>1, <3>3 DEF StandbyCtxDone
  <2>2. CASE ~(i = s /\ Local(s))
    <3>1. standbys'[i] = standbys[i]
      BY <1>0, <1>6, <2>2 DEF PrewarmDestroy
    <3> QED
      BY <1>0, <3>1 DEF Local, StandbyCtxDone
  <2> QED
    BY <2>1, <2>2
<1>7. CASE ReleaseStandby(s)
  <2>1. standbys[s] \in StandbyEntries
    BY <1>3, <1>7 DEF ReleaseStandby, StandbySteps
  <2>2. standbys' = [standbys EXCEPT ![s].at = "released", ![s].cancelled = TRUE]
    BY <1>7 DEF ReleaseStandby
  <2>3. standbys'[s].cancelled /\ (i # s => standbys'[i] = standbys[i])
    BY <1>0, <2>1, <2>2 DEF StandbyEntries
  <2> QED
    BY <1>0, <2>3 DEF Local, StandbyCtxDone
<1>8. CASE ForgetStandby(s)
  <2>1. standbys'[s] = NoStandby /\ (i # s => standbys'[i] = standbys[i])
    BY <1>0, <1>8 DEF ForgetStandby
  <2> QED
    BY <1>0, <2>1 DEF Local, StandbyCtxDone
<1> QED
  BY <1>1, <1>4, <1>5, <1>6, <1>7, <1>8 DEF StandbyReader, StandbyGoroutine,
      StandbyWatcher

\* Every step of the standbys' half preserves the invariant.
LEMMA StandbysKeep ==
    ASSUME TypeOK, Inv, StandbysNext, UNCHANGED <<taskVars, runVars>>
    PROVE  Inv'
<1> PICK s \in StandbyIDs :
        \/ StandbyReader(s) \/ StandbyGoroutine(s) \/ StandbyWatcher(s)
        \/ DestroyReturns(s)
  BY DEF StandbysNext
<1>1. /\ UNCHANGED <<ctxDone, shuttingDown>>
      /\ \/ UNCHANGED reader
         \/ /\ reader.at \in {"idle", "creating"}
            /\ reader'.at \in {"idle", "creating"}
  BY StandbyReaderFrame
<1>2. ASSUME NEW j \in Executions PROVE TaskInv(j)'
  <2>1. TaskInv(j)
    BY DEF Inv
  <2> QED
    BY <1>1, <2>1 DEF taskVars, TaskInv, Live, Pending, Known, Tracked,
        BackendCtxDone, TaskCtxDone
<1>3. (shuttingDown => \A i \in StandbyIDs : Local(i) => StandbyCtxDone(i))'
  BY <1>1, StandbyCancelKept DEF Inv
<1> QED
  BY <1>1, <1>2, <1>3 DEF Inv, taskVars

-----------------------------------------------------------------------------
\* The signal and Run's steps.

\* shutdownTasks' critical section establishes what the invariant says of a
\* worker that is shutting down.
LEMMA ShutdownKeeps ==
    ASSUME TypeOK, Inv, shutdownTasks
    PROVE  Inv'
<1>0. /\ UNCHANGED <<ctxDone, reader, exec, completedTasks,
                     completedExecutions, status>>
      /\ shuttingDown' = TRUE
  BY DEF shutdownTasks, shutdownActiveTasks
<1>1. ASSUME NEW j \in Executions PROVE TaskInv(j)'
  <2>0. TaskInv(j)
    BY DEF Inv
  <2>1. Live(j) => Tracked(j)
    BY <2>0, NoTaskFields DEF TaskInv, Tracked
  <2>2. CASE PreservesTasks
    <3>1. /\ UNCHANGED <<activeTasks, cancelled>>
          /\ interrupted'[j] = (interrupted[j] \/ (Tracked(j) /\ ~cancelled[j]))
      BY <2>2 DEF shutdownTasks, shutdownActiveTasks, stopObservations
    <3> QED
      BY <1>0, <2>0, <2>1, <2>2, <3>1 DEF TaskInv, Live, Pending, Known,
          Tracked, BackendCtxDone, TaskCtxDone
  <2>3. CASE ~PreservesTasks
    <3>1. /\ cancelled'[j] = (cancelled[j] \/ Tracked(j))
          /\ UNCHANGED interrupted
          /\ activeTasks'[j] = IF Tracked(j) /\ activeTasks[j].source = ""
                               THEN [activeTasks[j] EXCEPT !.source = "shutdown"]
                               ELSE activeTasks[j]
      BY <2>3 DEF shutdownTasks, shutdownActiveTasks, cancelActiveTasks
    <3>2. /\ activeTasks'[j].done = activeTasks[j].done
          /\ activeTasks'[j].canceller = activeTasks[j].canceller
          /\ Tracked(j)' <=> Tracked(j)
      <4>1. CASE Tracked(j) /\ activeTasks[j].source = ""
        <5>1. activeTasks[j] \in Entries
          BY <4>1 DEF Tracked, TypeOK, TasksTypeOK
        <5>2. activeTasks'[j] = [activeTasks[j] EXCEPT !.source = "shutdown"]
          BY <3>1, <4>1
        <5>3. /\ activeTasks'[j].source = "shutdown"
              /\ activeTasks'[j].done = activeTasks[j].done
              /\ activeTasks'[j].canceller = activeTasks[j].canceller
          BY <5>1, <5>2 DEF Entries
        <5> QED
          BY <4>1, <5>3, NoTaskFields DEF Tracked
      <4>2. CASE ~(Tracked(j) /\ activeTasks[j].source = "")
        BY <3>1, <4>2 DEF Tracked
      <4> QED
        BY <4>1, <4>2
    <3> QED
      BY <1>0, <2>0, <2>1, <2>3, <3>1, <3>2 DEF TaskInv, Live, Pending, Known,
          BackendCtxDone, TaskCtxDone
  <2> QED
    BY <2>2, <2>3
<1>2. ASSUME NEW s \in StandbyIDs PROVE Local(s)' => StandbyCtxDone(s)'
  <2>1. standbys'[s] =
           IF ~Local(s) THEN NoStandby
           ELSE IF PreservesTasks
                THEN [standbys[s] EXCEPT
                         !.interrupted = @ \/ ~standbys[s].cancelled]
                ELSE [standbys[s] EXCEPT
                         !.source = IF @ = "" THEN "shutdown" ELSE @,
                         !.cancelled = TRUE]
    BY DEF shutdownTasks, stopStandbys
  <2>2. CASE ~Local(s)
    BY <2>1, <2>2 DEF Local
  <2>3. CASE Local(s) /\ PreservesTasks
    <3>1. standbys[s] \in StandbyEntries
      BY <2>3 DEF Local, TypeOK, StandbysTypeOK
    <3>2. /\ standbys'[s].cancelled = standbys[s].cancelled
          /\ standbys'[s].interrupted =
                 (standbys[s].interrupted \/ ~standbys[s].cancelled)
      BY <2>1, <2>3, <3>1 DEF StandbyEntries
    <3> QED
      BY <3>2 DEF StandbyCtxDone
  <2>4. CASE Local(s) /\ ~PreservesTasks
    <3>1. standbys[s] \in StandbyEntries
      BY <2>4 DEF Local, TypeOK, StandbysTypeOK
    <3>2. standbys'[s].cancelled
      BY <2>1, <2>4, <3>1 DEF StandbyEntries
    <3> QED
      BY <3>2 DEF StandbyCtxDone
  <2> QED
    BY <2>2, <2>3, <2>4
<1> QED
  BY <1>0, <1>1, <1>2 DEF Inv

\* The signal and the rest of Run preserve the invariant.
LEMMA RunKeeps ==
    ASSUME TypeOK, Inv,
           \/ CancelContext \/ TasksDone \/ ShutdownTimeout \/ CloseOutbound
           \/ ReaderStops \/ shutdownBackend \/ UNCHANGED vars
    PROVE  Inv'
<1>1. /\ UNCHANGED <<shuttingDown, taskVars, standbyVars>>
      /\ ctxDone => ctxDone'
      /\ \/ UNCHANGED reader
         \/ reader.at = "idle" /\ reader'.at = "stopped"
  <2>1. CASE CancelContext
    BY <2>1 DEF CancelContext
  <2>2. CASE TasksDone \/ ShutdownTimeout
    BY <2>2 DEF TasksDone, ShutdownTimeout, sharedVars
  <2>3. CASE CloseOutbound \/ shutdownBackend
    BY <2>3 DEF CloseOutbound, shutdownBackend, sharedVars
  <2>4. CASE ReaderStops
    BY <2>4 DEF ReaderStops, ReaderAt, Idle
  <2>5. CASE UNCHANGED vars
    BY <2>5 DEF vars, sharedVars
  <2> QED
    BY <2>1, <2>2, <2>3, <2>4, <2>5
<1>2. ASSUME NEW j \in Executions PROVE TaskInv(j)'
  <2>1. TaskInv(j)
    BY DEF Inv
  <2> QED
    BY <1>1, <2>1 DEF taskVars, TaskInv, Live, Pending, Known, Tracked,
        BackendCtxDone, TaskCtxDone
<1>3. (shuttingDown => \A s \in StandbyIDs : Local(s) => StandbyCtxDone(s))'
  BY <1>1 DEF Inv, standbyVars, Local, StandbyCtxDone
<1> QED
  BY <1>1, <1>2, <1>3 DEF Inv, taskVars

-----------------------------------------------------------------------------

\* Inv holds of every reachable state of every configuration.
THEOREM InvCorrect == Spec => []Inv
<1>1. Init => Inv
  <2> SUFFICES ASSUME Init PROVE Inv
    OBVIOUS
  <2>1. ASSUME NEW j \in Executions PROVE TaskInv(j)
    BY NoTaskFields DEF Init, SharedInit, TasksInit, TaskInv, Live, Pending,
        Idle, Unreported, Errors, Terminal
  <2>2. Len(completedExecutions) <= CacheSize
    BY ConfigAssumption DEF Init, TasksInit
  <2> QED
    BY <2>1, <2>2 DEF Init, SharedInit, Idle, Inv
<1>2. TypeOK /\ Inv /\ [Next]_vars => Inv'
  BY TasksKeep, StandbysKeep, ShutdownKeeps, RunKeeps DEF Next, RunNext, Exited
<1> QED
  BY <1>1, <1>2, TypeCorrect, PTL DEF Spec

\* No execution is run twice at once, none is lost track of, and its done
\* channel is closed exactly once (executeTask's deferred bookkeeping).
THEOREM Tracking == Spec => []TrackedWhileRunning
<1>1. TypeOK /\ Inv => TrackedWhileRunning
  <2> SUFFICES ASSUME Inv, NEW k \in Executions
               PROVE  Live(k) <=> (Tracked(k) /\ ~activeTasks[k].done)
    BY DEF TrackedWhileRunning
  <2>1. Live(k) <=> ~activeTasks[k].done
    BY DEF Inv, TaskInv
  <2> QED
    BY <2>1, NoTaskFields DEF Tracked
<1> QED
  BY <1>1, TypeCorrect, InvCorrect, PTL

\* cancelTaskOnBackend never calls backend.CancelTask while ExecuteTask of the
\* same execution is running.
THEOREM CancellationOrder == Spec => []CancelAfterExecute
<1>1. Inv => CancelAfterExecute
  BY DEF Inv, TaskInv, CancelAfterExecute
<1> QED
  BY <1>1, InvCorrect, PTL

\* The second duplicate test of handleTaskAssignment is never what rejects.
THEOREM Admission == Spec => []AdmissionStaysUnknown
<1>1. Inv => AdmissionStaysUnknown
  BY DEF Inv, TaskInv, AdmissionStaysUnknown, Pending
<1> QED
  BY <1>1, InvCorrect, PTL

\* shutdownTasks leaves no execution and no standby running uninformed.
THEOREM ShutdownReach == Spec => []ShutdownReachesAll
<1>1. Inv => ShutdownReachesAll
  BY DEF Inv, TaskInv, ShutdownReachesAll
<1> QED
  BY <1>1, InvCorrect, PTL

\* A finished execution's redelivered assignment is a duplicate unless the
\* cache of rememberCompletedLocked is full.
THEOREM Remembered == Spec => []TerminalIsRemembered
<1>1. Inv => TerminalIsRemembered
  BY DEF Inv, TaskInv, TerminalIsRemembered
<1> QED
  BY <1>1, InvCorrect, PTL

\* Under a preserving backend no shutdown is ever reported as a failure.
THEOREM Preservation == Spec => []PreservedNotFailed
<1>1. Inv => PreservedNotFailed
  BY DEF Inv, TaskInv, PreservedNotFailed
<1> QED
  BY <1>1, InvCorrect, PTL

\* taskWG.Add is never called once shutdownTasks may be in taskWG.Wait.
THEOREM WaitGroupStable == Spec => NoAddAfterWait
<1>1. TypeOK /\ [Next]_vars => [shuttingDown => taskWG' <= taskWG]_vars
  <2> SUFFICES ASSUME TypeOK, Next, shuttingDown PROVE taskWG' <= taskWG
    OBVIOUS
  <2>0. taskWG \in Int
    BY DEF TypeOK, SharedTypeOK
  <2>1. CASE UNCHANGED taskWG
    BY <2>0, <2>1
  <2>2. CASE taskWG' = taskWG - 1
    BY <2>0, <2>2
  <2>3. TaskReader => taskWG' \in {taskWG, taskWG - 1}
    BY DEF TaskReader, AcceptAssignment, Stopping, HandleCancellation,
        HandleRunCancellation, AcquireSlot, RejectAtCapacity,
        RejectShuttingDown, ClaimTask, Claim, StartExecution, sharedVars
  <2>4. TaskTail => taskWG' \in {taskWG, taskWG - 1}
    BY DEF TaskTail, ReleaseSlot, signalOneShotComplete
  <2>5. ASSUME NEW k \in Executions, TaskGoroutine(k) \/ TaskCanceller(k)
        PROVE  UNCHANGED taskWG
    BY <2>5 DEF TaskGoroutine, ExecuteTaskReturns, AbandonObservation,
        ReportError, ReportCompleted, MarkSpawned, FinishExecution,
        TaskCanceller, CancellationAttempt, CancelTaskFails,
        CancelTaskSucceeds, CancellationStops, SetCanceller, sharedVars
  <2>6. StandbysNext => taskWG' \in {taskWG, taskWG - 1}
    <3> SUFFICES ASSUME NEW s \in StandbyIDs,
                        \/ StandbyReader(s) \/ StandbyGoroutine(s)
                        \/ StandbyWatcher(s) \/ DestroyReturns(s)
                 PROVE  taskWG' \in {taskWG, taskWG - 1}
      BY DEF StandbysNext
    <3>1. ~PrewarmCreate(s)
      BY DEF PrewarmCreate, Stopping
    <3>2. CASE StartStandby(s) \/ PrewarmDestroy(s) \/ DestroyReturns(s)
      BY <3>2 DEF StartStandby, PrewarmDestroy, DestroyReturns, sharedVars
    <3>3. CASE StandbyGoroutine(s)
      BY <3>3 DEF StandbyGoroutine, StandbyReturns, CheckStandbyCause,
          ReportStandbyExit, ReleaseStandby, ForgetStandby, SetStandby,
          sharedVars
    <3>4. CASE StandbyWatcher(s)
      BY <3>4 DEF StandbyWatcher, reportWatchedStandbyExit, WatcherSends,
          sharedVars
    <3> QED
      BY <3>1, <3>2, <3>3, <3>4 DEF StandbyReader
  <2>7. CancelContext \/ RunNext \/ Exited => UNCHANGED taskWG
    BY DEF CancelContext, RunNext, Exited, shutdownTasks, TasksDone,
        ShutdownTimeout, CloseOutbound, ReaderStops, shutdownBackend, vars,
        sharedVars
  <2> QED
    BY <2>1, <2>2, <2>3, <2>4, <2>5, <2>6, <2>7 DEF Next, TasksNext
<1> QED
  BY <1>1, TypeCorrect, PTL DEF Spec, NoAddAfterWait
=============================================================================
