---------------------------- MODULE WorkerState ----------------------------
(***************************************************************************)
(* The part of the Worker struct (internal/worker/worker.go) that the task *)
(* half and the standby half share: the worker context, the shutdown flag, *)
(* the task semaphore, taskWG, and the connection's single reader          *)
(* goroutine, which runs every server message to completion before it      *)
(* reads the next one.                                                     *)
(*                                                                         *)
(* A critical section of tasksMutex is one action.  Every step outside the *)
(* mutex that another goroutine can observe is an action of its own.       *)
(***************************************************************************)
EXTENDS Integers, Sequences, FiniteSets

CONSTANTS
    Executions,             \* taskExecution keys <<taskID, executionID>>
    Legacy,                 \* the empty executionID of a pre-rollout server
    StandbyIDs,             \* sandbox IDs the server may prewarm
    NoKey,                  \* the reader is not inside an assignment
    MaxConcurrentTasks,     \* Config.MaxConcurrentTasks; 0 means unlimited
    MaxPrewarmedSandboxes,  \* Config.MaxPrewarmedSandboxes; 0 shares the above
    CacheSize,              \* completedExecutionCacheSize, standbyExitCacheSize
    MaxGoroutines,          \* bound: goroutines the scheduler may leave in taskWG
    OneShot,                \* Config.OneShot
    PreservesTasks,         \* backend.PreservesTasksOnShutdown()
    SpawnsTasks,            \* the backend answers ExecuteOutcomeSpawned
    SupportsStandbys        \* backendCapabilities.supportsStandbys

\* What New and the four backends' Capabilities allow: a one-shot worker is
\* forced to one slot and only the direct backend offers it, and only the
\* command backend spawns, which preserves its tasks and holds no standbys.
ASSUME ConfigAssumption ==
    /\ NoKey \notin Executions
    /\ MaxConcurrentTasks \in Nat
    /\ MaxPrewarmedSandboxes \in Nat
    /\ CacheSize \in Nat \ {0}
    /\ MaxGoroutines \in Nat
    /\ OneShot \in BOOLEAN
    /\ PreservesTasks \in BOOLEAN
    /\ SpawnsTasks \in BOOLEAN
    /\ SupportsStandbys \in BOOLEAN
    /\ OneShot => MaxConcurrentTasks = 1 /\ ~PreservesTasks
    /\ SpawnsTasks => PreservesTasks /\ ~SupportsStandbys

VARIABLES
    ctxDone,       \* w.ctx is cancelled (SIGINT or SIGTERM)
    shuttingDown,  \* w.shuttingDown
    taskSlots,     \* units of taskSemaphore in use
    taskWG,        \* counter of w.taskWG
    reader         \* [at, key]: where readLoop's current handler stands

sharedVars == <<ctxDone, shuttingDown, taskSlots, taskWG, reader>>

taskID(k) == k[1]
executionID(k) == k[2]

Idle == [at |-> "idle", key |-> NoKey]
ReaderSteps == {"idle", "accepted", "acquired", "claiming", "creating",
                "stopped"}

ReaderAt(step) == reader' = [at |-> step, key |-> reader.key]

\* The two-part test every admission and cancellation handler makes under the
\* mutex: w.shuttingDown || w.ctx.Err() != nil.
Stopping == shuttingDown \/ ctxDone

Limited == MaxConcurrentTasks > 0

\* taskSemaphore.TryAcquire(1) would succeed (a nil semaphore is unlimited).
SlotFree == Limited => taskSlots < MaxConcurrentTasks

Acquire == taskSlots' = IF Limited THEN taskSlots + 1 ELSE taskSlots
Release == taskSlots' = IF Limited THEN taskSlots - 1 ELSE taskSlots

SharedInit ==
    /\ ctxDone = FALSE
    /\ shuttingDown = FALSE
    /\ taskSlots = 0
    /\ taskWG = 0
    /\ reader = Idle

SharedTypeOK ==
    /\ ctxDone \in BOOLEAN
    /\ shuttingDown \in BOOLEAN
    /\ taskSlots \in Int
    /\ taskWG \in Int
    /\ reader \in [at : ReaderSteps, key : Executions \cup {NoKey}]
=============================================================================
