---------------------------- MODULE WorkerProofs ----------------------------
(***************************************************************************)
(* Theorems about Worker, for every configuration the assumption allows    *)
(* and any number of executions and sandboxes.                             *)
(***************************************************************************)
EXTENDS Worker, SequenceTheorems, TLAPS

-----------------------------------------------------------------------------
\* Type correctness.

\* The bounded FIFO of rememberCompletedLocked stays a sequence of executions,
\* and the map keeps its type.
LEMMA RememberType ==
    ASSUME TasksTypeOK, NEW k \in Executions,
           NEW how \in {"completed", "cancelled"}, rememberCompleted(k, how)
    PROVE  /\ completedTasks' \in [Executions -> {"no", "completed", "cancelled"}]
           /\ completedExecutions' \in Seq(Executions)
<1>1. RememberedOrder(k) \in Seq(Executions)
  <2> DEFINE grown == Append(completedExecutions, k)
  <2>1. completedExecutions \in Seq(Executions)
    BY DEF TasksTypeOK
  <2>2. grown \in Seq(Executions) /\ grown # <<>>
    BY <2>1
  <2>3. Tail(grown) \in Seq(Executions)
    BY <2>2
  <2> QED
    BY <2>1, <2>2, <2>3 DEF RememberedOrder
<1>2. RememberedTasks(k, how) \in [Executions -> {"no", "completed", "cancelled"}]
  BY DEF RememberedTasks, TasksTypeOK
<1> QED
  BY <1>1, <1>2 DEF rememberCompleted, TasksTypeOK

\* Starting cancellations (startTaskCancellationLocked) leaves entries and flags
\* of the right type.
LEMMA StartCancellationType ==
    ASSUME TasksTypeOK, NEW K,
           NEW tasks \in [Executions -> Entries \cup {NoTask}],
           startTaskCancellation(tasks, K)
    PROVE  /\ activeTasks' \in [Executions -> Entries \cup {NoTask}]
           /\ cancelled' \in [Executions -> BOOLEAN]
<1> DEFINE started == {k \in K : tasks[k] # NoTask /\ tasks[k].canceller = "none"}
<1>1. \A k \in Executions : k \in started =>
          [tasks[k] EXCEPT !.source = "user", !.canceller = "waiting"] \in Entries
  BY DEF Entries, Sources, CancellerSteps
<1>2. activeTasks' = [k \in Executions |->
               IF k \in started
               THEN [tasks[k] EXCEPT !.source = "user", !.canceller = "waiting"]
               ELSE tasks[k]]
  BY DEF startTaskCancellation
<1>3. cancelled' = [k \in Executions |-> cancelled[k] \/ k \in started]
  BY DEF startTaskCancellation
<1>4. \A k \in Executions : (cancelled[k] \/ k \in started) \in BOOLEAN
  OBVIOUS
<1> QED
  <2>1. activeTasks' \in [Executions -> Entries \cup {NoTask}]
    BY <1>1, <1>2
  <2>2. cancelled' \in [Executions -> BOOLEAN]
    BY <1>3, <1>4
  <2> QED
    BY <2>1, <2>2

\* The message handlers of tasks keep the types.
LEMMA ReaderType ==
    ASSUME SharedTypeOK, TasksTypeOK, TaskReader
    PROVE  SharedTypeOK' /\ TasksTypeOK'
<1> USE ConfigAssumption DEF SharedTypeOK, TasksTypeOK, sharedVars, taskVars,
        ReaderSteps, Idle, Acquire, Release,
        ReaderAt, resetAcceptance
<1>1. CASE \E k \in Executions : AcceptAssignment(k)
  BY <1>1 DEF AcceptAssignment, Reserve
<1>2. CASE \E k \in Executions : HandleCancellation(k)
  <2> PICK k \in Executions : HandleCancellation(k)
    BY <1>2
  <2> DEFINE tasks == IF completedTasks[k] = "completed" /\ ~Tracked(k)
                      THEN [activeTasks EXCEPT ![k] = FinishedTask]
                      ELSE activeTasks
  <2>1. FinishedTask \in Entries
    BY DEF FinishedTask, NewTask, Entries, Sources, CancellerSteps
  <2>2. tasks \in [Executions -> Entries \cup {NoTask}]
    BY <2>1
  <2>3. startTaskCancellation(tasks, {k})
    BY DEF HandleCancellation
  <2> QED
    BY <2>2, <2>3, StartCancellationType DEF HandleCancellation
<1>3. CASE \E t \in {taskID(k) : k \in Executions} : HandleRunCancellation(t)
  BY <1>3, StartCancellationType DEF HandleRunCancellation
<1>4. CASE AcquireSlot
  BY <1>4 DEF AcquireSlot
<1>5. CASE RejectAtCapacity
  BY <1>5 DEF RejectAtCapacity
<1>6. CASE RejectShuttingDown
  BY <1>6 DEF RejectShuttingDown
<1>7. CASE ClaimTask
  BY <1>7 DEF ClaimTask, Claim, NewTask, Entries, Sources, CancellerSteps, ExecSteps,
      Statuses
<1>8. CASE StartExecution
  BY <1>8 DEF StartExecution, ExecSteps, Statuses
<1> QED
  BY <1>1, <1>2, <1>3, <1>4, <1>5, <1>6, <1>7, <1>8 DEF TaskReader

\* Changing a flag of an entry gives an entry.
LEMMA EntryFlags ==
    ASSUME NEW e \in Entries
    PROVE  /\ [e EXCEPT !.spawned = TRUE] \in Entries
           /\ [e EXCEPT !.done = TRUE] \in Entries
BY DEF Entries

\* Every step of executeTask keeps the types.
LEMMA GoroutineType ==
    ASSUME SharedTypeOK, TasksTypeOK,
           NEW k \in Executions, TaskGoroutine(k)
    PROVE  SharedTypeOK' /\ TasksTypeOK'
<1> USE DEF SharedTypeOK, TasksTypeOK, sharedVars
<1>1. CASE \E r \in Errors \cup {Success} : ExecuteTaskReturns(k, r)
  BY <1>1 DEF ExecuteTaskReturns, Success, ExecSteps
<1>2. CASE AbandonObservation(k)
  BY <1>2 DEF AbandonObservation, ExecSteps
<1>3. CASE ReportError(k)
  <2>1. ErrorStatus(k, exec[k]) \in Statuses
    BY DEF ErrorStatus, Statuses, Terminal
  <2> QED
    BY <1>3, <2>1 DEF ReportError, ExecSteps
<1>4. CASE ReportCompleted(k)
  BY <1>4 DEF ReportCompleted, ExecSteps, Statuses, Terminal
<1>5. CASE MarkSpawned(k)
  <2>0. Tracked(k) => activeTasks[k] \in Entries
    BY DEF Tracked
  <2>1. Tracked(k) => [activeTasks[k] EXCEPT !.spawned = TRUE] \in Entries
    BY <2>0, EntryFlags
  <2>2. activeTasks' \in [Executions -> Entries \cup {NoTask}]
    BY <1>5, <2>1 DEF MarkSpawned
  <2> QED
    BY <1>5, <2>2 DEF MarkSpawned, ExecSteps
<1>6. CASE FinishExecution(k)
  <2>0. Tracked(k) => activeTasks[k] \in Entries
    BY DEF Tracked
  <2>1. Tracked(k) => [activeTasks[k] EXCEPT !.done = TRUE] \in Entries
    BY <2>0, EntryFlags
  <2>2. activeTasks' \in [Executions -> Entries \cup {NoTask}]
    BY <1>6, <2>1 DEF FinishExecution, Settle, Keep, Forget
  <2>3. /\ completedTasks' \in [Executions -> {"no", "completed", "cancelled"}]
        /\ completedExecutions' \in Seq(Executions)
    BY <1>6, RememberType DEF FinishExecution, Settle, Keep, Forget
  <2>4. tail' \in [release : Nat, leave : Nat]
    BY <1>6 DEF FinishExecution, Settle, Keep, Forget
  <2>5. /\ exec' \in [Executions -> ExecSteps]
        /\ cancelled' \in [Executions -> BOOLEAN]
        /\ UNCHANGED <<sharedVars, interrupted, status, oneShot>>
    BY <1>6 DEF FinishExecution, Settle, Keep, Forget, ExecSteps
  <2> QED
    BY <2>2, <2>3, <2>4, <2>5
<1> QED
  BY <1>1, <1>2, <1>3, <1>4, <1>5, <1>6 DEF TaskGoroutine

\* Releasing the slot and leaving taskWG keep the types: the counters of
\* goroutines stay natural numbers.
LEMMA TailType ==
    ASSUME SharedTypeOK, TasksTypeOK, TaskTail
    PROVE  SharedTypeOK' /\ TasksTypeOK'
<1> USE ConfigAssumption DEF SharedTypeOK, TasksTypeOK
<1>1. CASE ReleaseSlot
  BY <1>1 DEF ReleaseSlot, Release
<1>2. CASE signalOneShotComplete
  <2>1. oneShot' \in [accepted : BOOLEAN, done : BOOLEAN]
    BY <1>2 DEF signalOneShotComplete
  <2>2. tail' \in [release : Nat, leave : Nat] /\ taskWG' \in Int
    BY <1>2 DEF signalOneShotComplete
  <2> QED
    BY <1>2, <2>1, <2>2 DEF signalOneShotComplete
<1> QED
  BY <1>1, <1>2 DEF TaskTail

\* Moving the canceller of a tracked task keeps the types.
LEMMA SetCancellerType ==
    ASSUME SharedTypeOK, TasksTypeOK, NEW k \in Executions, Tracked(k),
           NEW step \in CancellerSteps, SetCanceller(k, step)
    PROVE  SharedTypeOK' /\ TasksTypeOK'
<1>1. [activeTasks[k] EXCEPT !.canceller = step] \in Entries
  BY DEF TasksTypeOK, Tracked, Entries
<1>2. activeTasks' \in [Executions -> Entries \cup {NoTask}]
  BY <1>1 DEF SetCanceller, TasksTypeOK
<1> QED
  BY <1>2 DEF SetCanceller, sharedVars, SharedTypeOK, TasksTypeOK

\* Every step of cancelTaskOnBackend keeps the types.
LEMMA CancellerType ==
    ASSUME SharedTypeOK, TasksTypeOK,
           NEW k \in Executions, TaskCanceller(k)
    PROVE  SharedTypeOK' /\ TasksTypeOK'
<1>1. Tracked(k)
  BY DEF TaskCanceller, CancellationAttempt, CancelTaskFails,
      CancelTaskSucceeds, CancellationStops, Tracked, NoTask
<1>2. CASE CancelTaskSucceeds(k)
  <2>1. /\ completedTasks' \in [Executions -> {"no", "completed", "cancelled"}]
        /\ completedExecutions' \in Seq(Executions)
    BY <1>2, RememberType DEF CancelTaskSucceeds
  <2> QED
    BY <1>2, <2>1 DEF CancelTaskSucceeds, sharedVars, SharedTypeOK, TasksTypeOK
<1>3. CASE CancellationAttempt(k) \/ CancelTaskFails(k) \/ CancellationStops(k)
  BY <1>1, <1>3, SetCancellerType DEF CancellationAttempt, CancelTaskFails,
      CancellationStops, CancellerSteps
<1> QED
  BY <1>2, <1>3 DEF TaskCanceller

\* Every step of the tasks' half keeps the types.
LEMMA TasksType ==
    ASSUME SharedTypeOK, TasksTypeOK, TasksNext
    PROVE  SharedTypeOK' /\ TasksTypeOK'
BY ReaderType, GoroutineType, TailType, CancellerType DEF TasksNext

\* Updates of a standby entry give an entry.
LEMMA StandbyUpdates ==
    ASSUME NEW e \in StandbyEntries
    PROVE  /\ \A step \in StandbySteps : [e EXCEPT !.at = step] \in StandbyEntries
           /\ [e EXCEPT !.at = "released", !.cancelled = TRUE] \in StandbyEntries
           /\ \A source \in {"user", "shutdown"} :
                 [e EXCEPT !.source = IF @ = "" THEN source ELSE @,
                           !.cancelled = TRUE] \in StandbyEntries
           /\ \A b \in BOOLEAN : [e EXCEPT !.interrupted = b] \in StandbyEntries
BY DEF StandbyEntries, StandbySteps

\* Moving the goroutine of a local standby keeps the types.
LEMMA SetStandbyType ==
    ASSUME SharedTypeOK, StandbysTypeOK, NEW s \in StandbyIDs, Local(s),
           NEW step \in StandbySteps, SetStandby(s, step)
    PROVE  SharedTypeOK' /\ StandbysTypeOK'
<1>1. standbys[s] \in StandbyEntries
  BY DEF StandbysTypeOK, Local
<1>2. [standbys[s] EXCEPT !.at = step] \in StandbyEntries
  BY <1>1, StandbyUpdates
<1>3. standbys' \in [StandbyIDs -> StandbyEntries \cup {NoStandby}]
  BY <1>2 DEF SetStandby, StandbysTypeOK
<1> QED
  BY <1>3 DEF SetStandby, sharedVars, SharedTypeOK, StandbysTypeOK

\* A trimmed queue is a queue of the same entries.
LEMMA TrimmedType ==
    ASSUME NEW S, NEW q \in Seq(S), NEW x \in S, NEW n
    PROVE  Trimmed(Append(q, x), n) \in Seq(S)
<1>1. Append(q, x) \in Seq(S) /\ Append(q, x) # <<>>
  BY AppendProperties
<1>2. Tail(Append(q, x)) \in Seq(S)
  BY <1>1
<1> QED
  BY <1>1, <1>2 DEF Trimmed

\* sendStandbyExit keeps the exit cache and the log sequences of sandbox IDs.
LEMMA SendExitType ==
    ASSUME StandbysTypeOK, NEW s \in StandbyIDs, sendStandbyExit(s)
    PROVE  /\ standbyExitIDs' \in Seq(StandbyIDs)
           /\ exitLog' \in Seq(StandbyIDs)
<1>1. standbyExitIDs \in Seq(StandbyIDs) /\ exitLog \in Seq(StandbyIDs)
  BY DEF StandbysTypeOK
<1> QED
  BY <1>1, TrimmedType DEF sendStandbyExit, RecordExit

\* Every step of the standbys' half keeps the types.
LEMMA StandbysType ==
    ASSUME SharedTypeOK, StandbysTypeOK, StandbysNext
    PROVE  SharedTypeOK' /\ StandbysTypeOK'
<1> PICK s \in StandbyIDs :
        \/ StandbyReader(s) \/ StandbyGoroutine(s) \/ StandbyWatcher(s)
        \/ DestroyReturns(s)
  BY DEF StandbysNext
<1> USE ConfigAssumption DEF SharedTypeOK, StandbysTypeOK, sharedVars
<1>0. standbys[s].at \in StandbySteps => standbys[s] \in StandbyEntries
  <2>1. NoStandby.at \notin StandbySteps
    BY DEF NoStandby, StandbySteps
  <2> QED
    BY <2>1
<1>1. CASE PrewarmCreate(s)
  <2>1. [NoStandby EXCEPT !.at = "creating"] \in StandbyEntries
    BY DEF NoStandby, StandbyEntries, StandbySteps
  <2>2. standbys' \in [StandbyIDs -> StandbyEntries \cup {NoStandby}]
    BY <1>1, <2>1 DEF PrewarmCreate
  <2>3. taskSlots' \in Int /\ standbySlots' \in Int /\ taskWG' \in Int
    BY <1>1 DEF PrewarmCreate, AcquireStandbySlot, Acquire
  <2>4. reader' \in [at : ReaderSteps, key : Executions \cup {NoKey}]
    BY <1>1 DEF PrewarmCreate, ReaderAt, ReaderSteps
  <2> QED
    BY <1>1, <2>2, <2>3, <2>4 DEF PrewarmCreate
<1>2. CASE StartStandby(s)
  <2>1. standbys[s] \in StandbyEntries
    BY <1>0, <1>2 DEF StartStandby, StandbySteps
  <2>2. [standbys[s] EXCEPT !.at = "running"] \in StandbyEntries
    BY <2>1, StandbyUpdates DEF StandbySteps
  <2>3. standbys' \in [StandbyIDs -> StandbyEntries \cup {NoStandby}]
    BY <1>2, <2>2 DEF StartStandby
  <2> QED
    BY <1>2, <2>3 DEF StartStandby, Idle, ReaderSteps
<1>3. CASE PrewarmDestroy(s)
  <2>1. Local(s) => standbys[s] \in StandbyEntries
    BY DEF Local
  <2>2. Local(s) => [standbys[s] EXCEPT !.source = IF @ = "" THEN "user" ELSE @,
                                        !.cancelled = TRUE] \in StandbyEntries
    BY <2>1, StandbyUpdates
  <2>3. standbys' \in [StandbyIDs -> StandbyEntries \cup {NoStandby}]
    BY <1>3, <2>2 DEF PrewarmDestroy
  <2> QED
    BY <1>3, <2>3 DEF PrewarmDestroy
<1>4. CASE StandbyReturns(s) \/ CheckStandbyCause(s)
  <2>0. NoStandby.at = "none"
    BY DEF NoStandby
  <2>1. Local(s)
    BY <1>4, <2>0 DEF StandbyReturns, CheckStandbyCause, Local
  <2> QED
    BY <1>4, <2>1, SetStandbyType
    DEF StandbyReturns, CheckStandbyCause, StandbySteps
<1>5. CASE ReportStandbyExit(s)
  <2>1. [standbys[s] EXCEPT !.at = "releasing"] \in StandbyEntries
    BY <1>0, <1>5, StandbyUpdates DEF ReportStandbyExit, StandbySteps
  <2>2. standbys' \in [StandbyIDs -> StandbyEntries \cup {NoStandby}]
    BY <1>5, <2>1 DEF ReportStandbyExit
  <2> QED
    BY <1>5, <2>2, SendExitType DEF ReportStandbyExit
<1>6. CASE ReleaseStandby(s)
  <2>1. [standbys[s] EXCEPT !.at = "released", !.cancelled = TRUE]
            \in StandbyEntries
    BY <1>0, <1>6, StandbyUpdates DEF ReleaseStandby, StandbySteps
  <2>2. standbys' \in [StandbyIDs -> StandbyEntries \cup {NoStandby}]
    BY <1>6, <2>1 DEF ReleaseStandby
  <2>3. taskSlots' \in Int /\ standbySlots' \in Int
    BY <1>6 DEF ReleaseStandby, ReleaseStandbySlot, Release
  <2> QED
    BY <1>6, <2>2, <2>3 DEF ReleaseStandby
<1>7. CASE ForgetStandby(s)
  BY <1>7 DEF ForgetStandby
<1>8. CASE reportWatchedStandbyExit(s)
  BY <1>8 DEF reportWatchedStandbyExit
<1>9. CASE WatcherSends(s)
  BY <1>9, SendExitType DEF WatcherSends
<1>10. CASE DestroyReturns(s)
  BY <1>10 DEF DestroyReturns
<1> QED
  BY <1>1, <1>2, <1>3, <1>4, <1>5, <1>6, <1>7, <1>8, <1>9, <1>10
  DEF StandbyReader, StandbyGoroutine, StandbyWatcher

\* shutdownTasks' critical section keeps the types.
LEMMA ShutdownType ==
    ASSUME TypeOK, shutdownTasks
    PROVE  TypeOK'
<1> USE DEF TypeOK
<1>1. TasksTypeOK'
  <2>1. activeTasks' \in [Executions -> Entries \cup {NoTask}]
    <3>1. ASSUME NEW e \in Entries
          PROVE  [e EXCEPT !.source = "shutdown"] \in Entries
      BY DEF Entries, Sources
    <3>2. \A k \in Executions : Tracked(k) => activeTasks[k] \in Entries
      BY DEF TasksTypeOK, Tracked
    <3>3. CASE PreservesTasks
      BY <3>3 DEF shutdownTasks, shutdownActiveTasks, stopObservations,
          TasksTypeOK
    <3>4. CASE ~PreservesTasks
      <4>1. activeTasks' = [k \in Executions |->
               IF Tracked(k) /\ activeTasks[k].source = ""
               THEN [activeTasks[k] EXCEPT !.source = "shutdown"]
               ELSE activeTasks[k]]
        BY <3>4 DEF shutdownTasks, shutdownActiveTasks, cancelActiveTasks
      <4> QED
        BY <3>1, <3>2, <4>1 DEF TasksTypeOK
    <3> QED
      BY <3>3, <3>4
  <2>2. /\ cancelled' \in [Executions -> BOOLEAN]
        /\ interrupted' \in [Executions -> BOOLEAN]
    BY ZenonT(30) DEF shutdownTasks, shutdownActiveTasks, stopObservations,
        cancelActiveTasks, TasksTypeOK
  <2> QED
    BY <2>1, <2>2 DEF shutdownTasks, shutdownActiveTasks, TasksTypeOK
<1>2. StandbysTypeOK'
  <2>1. \A s \in StandbyIDs : Local(s) => standbys[s] \in StandbyEntries
    BY DEF StandbysTypeOK, Local
  <2>2. standbys' \in [StandbyIDs -> StandbyEntries \cup {NoStandby}]
    BY <2>1, StandbyUpdates DEF shutdownTasks, stopStandbys
  <2> QED
    BY <2>2 DEF shutdownTasks, stopStandbys, StandbysTypeOK
<1>3. awaiting' \in [group : BOOLEAN, tasks : SUBSET Executions,
                     standbys : SUBSET StandbyIDs]
  BY DEF shutdownTasks, NoWait, TaskObservers, StandbyObservers
<1> QED
  BY <1>1, <1>2, <1>3 DEF shutdownTasks, SharedTypeOK, RunSteps

\* Waiting for nothing is a wait.
LEMMA NoWaitType ==
    NoWait \in [group : BOOLEAN, tasks : SUBSET Executions,
                standbys : SUBSET StandbyIDs]
BY DEF NoWait

\* Every variable keeps its type, whatever the configuration.
THEOREM TypeCorrect == Spec => []TypeOK
<1>1. Init => TypeOK
  <2>1. SharedInit => SharedTypeOK
    <3>1. Idle \in [at : ReaderSteps, key : Executions \cup {NoKey}]
      BY DEF Idle, ReaderSteps
    <3>2. 0 \in Int
      OBVIOUS
    <3> QED
      BY <3>1, <3>2, Zenon DEF SharedInit, SharedTypeOK
  <2>2. TasksInit => TasksTypeOK
    BY DEF TasksInit, TasksTypeOK, ExecSteps, Statuses
  <2>3. StandbysInit => StandbysTypeOK
    BY DEF StandbysInit, StandbysTypeOK
  <2> QED
    BY <2>1, <2>2, <2>3, NoWaitType DEF Init, TypeOK, RunSteps
<1>2. TypeOK /\ [Next]_vars => TypeOK'
  <2> SUFFICES ASSUME TypeOK, [Next]_vars PROVE TypeOK'
    OBVIOUS
  <2>0. ASSUME UNCHANGED <<sharedVars, taskVars, standbyVars>>
        PROVE  SharedTypeOK' /\ TasksTypeOK' /\ StandbysTypeOK'
    <3>1. SharedTypeOK'
      BY <2>0 DEF TypeOK, SharedTypeOK, sharedVars
    <3>2. TasksTypeOK'
      BY <2>0 DEF TypeOK, TasksTypeOK, taskVars
    <3>3. StandbysTypeOK'
      BY <2>0 DEF TypeOK, StandbysTypeOK, standbyVars
    <3> QED
      BY <3>1, <3>2, <3>3
  <2>1. CASE TasksNext /\ UNCHANGED <<standbyVars, runVars>>
    BY <2>1, TasksType DEF TypeOK, StandbysTypeOK, standbyVars, runVars
  <2>2. CASE StandbysNext /\ UNCHANGED <<taskVars, runVars>>
    BY <2>2, StandbysType DEF TypeOK, TasksTypeOK, taskVars, runVars
  <2>3. CASE CancelContext
    <3>1. SharedTypeOK'
      BY <2>3 DEF CancelContext, TypeOK, SharedTypeOK
    <3>2. TasksTypeOK' /\ StandbysTypeOK'
      BY <2>3 DEF CancelContext, TypeOK, TasksTypeOK, StandbysTypeOK,
          taskVars, standbyVars
    <3> QED
      BY <2>3, <3>1, <3>2 DEF CancelContext, TypeOK, runVars
  <2>4. CASE shutdownTasks
    BY <2>4, ShutdownType
  <2>5. CASE TasksDone \/ ShutdownTimeout
    <3>1. SharedTypeOK' /\ TasksTypeOK' /\ StandbysTypeOK'
      BY <2>0, <2>5 DEF TasksDone, ShutdownTimeout
    <3> QED
      BY <2>5, <3>1, NoWaitType DEF TasksDone, ShutdownTimeout, TypeOK, RunSteps
  <2>6. CASE CloseOutbound \/ shutdownBackend
    <3>1. SharedTypeOK' /\ TasksTypeOK' /\ StandbysTypeOK'
      BY <2>0, <2>6 DEF CloseOutbound, shutdownBackend
    <3> QED
      BY <2>6, <3>1 DEF CloseOutbound, shutdownBackend, TypeOK, RunSteps
  <2>7. CASE ReaderStops
    BY <2>7 DEF ReaderStops, ReaderAt, TypeOK, SharedTypeOK, TasksTypeOK,
        StandbysTypeOK, taskVars, standbyVars, RunSteps, ReaderSteps
  <2>8. CASE UNCHANGED vars
    BY <2>8 DEF vars, sharedVars, taskVars, standbyVars, runVars, TypeOK,
        SharedTypeOK, TasksTypeOK, StandbysTypeOK
  <2> QED
    BY <2>1, <2>2, <2>3, <2>4, <2>5, <2>6, <2>7, <2>8 DEF Next, RunNext, Exited
<1> QED
  BY <1>1, <1>2, PTL DEF Spec
=============================================================================
