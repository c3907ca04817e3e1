--------------------------- MODULE WorkerStandbys ---------------------------
(***************************************************************************)
(* Prewarmed standby sandboxes of the Worker (internal/worker/standby.go). *)
(* A standby holds a slot of its own semaphore, or one of the tasks' when  *)
(* MaxPrewarmedSandboxes is zero, from the server's create until its       *)
(* goroutine releases it.  Its exit is reported by that goroutine or, for  *)
(* a sandbox this process does not run, by the backend's exit watcher.     *)
(***************************************************************************)
EXTENDS WorkerState

VARIABLES
    standbys,      \* w.standbys: sandbox -> entry, NoStandby when absent
    standbySlots,  \* units of standbySemaphore in use
    standbyExitIDs,\* w.standbyExitIDs, oldest first; w.standbyExits is its set
    watched,       \* sandboxes the watcher found not local and will report
    destroying,    \* sandboxes with a destroy goroutine in cancellationWG
    exitLog        \* history: the latest CacheSize + 1 exit messages handed to
                   \* Send, oldest first, one more than the cache remembers

standbyVars == <<standbys, standbySlots, standbyExitIDs, watched, destroying,
                 exitLog>>

-----------------------------------------------------------------------------

NoStandby == [at |-> "none", source |-> "", cancelled |-> FALSE,
              interrupted |-> FALSE]

\* "creating": the reader has inserted the entry and not yet answered.
StandbySteps == {"creating", "running", "returned", "reporting", "releasing",
                 "released"}
StandbyEntries == [at : StandbySteps, source : {"", "user", "shutdown"},
                   cancelled : BOOLEAN, interrupted : BOOLEAN]

Local(s) == standbys[s] # NoStandby
ExitReported(s) == \E i \in 1..Len(standbyExitIDs) : standbyExitIDs[i] = s

standbysSupported == SupportsStandbys /\ ~OneShot

\* standbySlotsLocked: the standbys' own semaphore, else the tasks'.
OwnSlots == MaxPrewarmedSandboxes > 0
StandbySlotFree ==
    IF OwnSlots THEN standbySlots < MaxPrewarmedSandboxes ELSE SlotFree
AcquireStandbySlot ==
    IF OwnSlots THEN standbySlots' = standbySlots + 1 /\ UNCHANGED taskSlots
                ELSE Acquire /\ UNCHANGED standbySlots
\* Mutation: the unit always goes back to the tasks' semaphore.
ReleaseTaskSlot == Release /\ UNCHANGED standbySlots
ReleaseStandbySlot ==
    IF OwnSlots THEN standbySlots' = standbySlots - 1 /\ UNCHANGED taskSlots
                ELSE Release /\ UNCHANGED standbySlots

StandbyCtxDone(s) ==
    \/ standbys[s].cancelled
    \/ standbys[s].interrupted
    \/ ctxDone /\ ~PreservesTasks

-----------------------------------------------------------------------------
\* handlePrewarmCreate, run by the reader.  Ignoring a duplicate and rejecting
\* a create change nothing but the message sent.

PrewarmCreate(s) ==
    /\ reader = Idle
    /\ ~Local(s)
    /\ ~ExitReported(s)
    /\ ~Stopping
    /\ standbysSupported
    /\ taskWG < MaxGoroutines
    /\ StandbySlotFree
    /\ AcquireStandbySlot
    /\ standbys' = [standbys EXCEPT ![s] = [NoStandby EXCEPT !.at = "creating"]]
    /\ taskWG' = taskWG + 1
    /\ ReaderAt("creating")
    /\ UNCHANGED <<ctxDone, shuttingDown, standbyExitIDs, watched, destroying,
                   exitLog>>

\* sendPrewarmCreated, then the goroutine starts.
StartStandby(s) ==
    /\ reader.at = "creating"
    /\ standbys[s].at = "creating"
    /\ standbys' = [standbys EXCEPT ![s].at = "running"]
    /\ reader' = Idle
    /\ UNCHANGED <<ctxDone, shuttingDown, taskSlots, taskWG, standbySlots,
                   standbyExitIDs, watched, destroying, exitLog>>

\* handlePrewarmDestroy: cancel a local standby, and in every case destroy the
\* sandbox on the backend from a goroutine of its own.
PrewarmDestroy(s) ==
    /\ reader = Idle
    /\ s \notin destroying
    /\ destroying' = destroying \cup {s}
    /\ standbys' =
           IF Local(s)
           THEN [standbys EXCEPT
                    ![s].source = IF @ = "" THEN "user" ELSE @,
                    ![s].cancelled = TRUE]
           ELSE standbys
    /\ UNCHANGED <<sharedVars, standbySlots, standbyExitIDs, watched, exitLog>>

\* The single backend.CancelTask attempt of a destroy, whatever its answer.
DestroyReturns(s) ==
    /\ s \in destroying
    /\ destroying' = destroying \ {s}
    /\ UNCHANGED <<sharedVars, standbys, standbySlots, standbyExitIDs,
                   watched, exitLog>>

-----------------------------------------------------------------------------
\* runStandby, run by the standby's goroutine.

SetStandby(s, step) ==
    /\ standbys' = [standbys EXCEPT ![s].at = step]
    /\ UNCHANGED <<sharedVars, standbySlots, standbyExitIDs, watched,
                   destroying, exitLog>>

\* backend.ExecuteTask returns: the sandbox ended, its deadline cap passed, or
\* its context did.
StandbyReturns(s) ==
    /\ standbys[s].at = "running"
    /\ SetStandby(s, "returned")

\* A standby whose observation the worker stopped keeps running and reports
\* nothing, whatever ExecuteTask returned.
CheckStandbyCause(s) ==
    /\ standbys[s].at = "returned"
    /\ SetStandby(s, IF standbys[s].interrupted THEN "releasing"
                                                ELSE "reporting")

\* A queue that has grown by one entry, without its oldest when over n.
Trimmed(q, n) == IF Len(q) > n THEN Tail(q) ELSE q

\* Remember the exit in the bounded cache and hand its message to Send, whose
\* failure (a queue full for the whole timeout, or closed) is only logged.
RecordExit(s) ==
    /\ standbyExitIDs' = Trimmed(Append(standbyExitIDs, s), CacheSize)
    /\ exitLog' = Trimmed(Append(exitLog, s), CacheSize + 1)

\* Mutation: the cache is not asked.
sendEveryExit(s) == RecordExit(s)

\* sendStandbyExit: nothing for a sandbox that the bounded cache remembers.
sendStandbyExit(s) ==
    IF ExitReported(s)
    THEN UNCHANGED <<standbyExitIDs, exitLog>>
    ELSE RecordExit(s)

ReportStandbyExit(s) ==
    /\ standbys[s].at = "reporting"
    /\ sendStandbyExit(s)
    /\ standbys' = [standbys EXCEPT ![s].at = "releasing"]
    /\ UNCHANGED <<sharedVars, standbySlots, watched, destroying>>

\* releaseStandby: the slot first, then the map entry and the done channel.
ReleaseStandby(s) ==
    /\ standbys[s].at = "releasing"
    /\ ReleaseStandbySlot
    /\ standbys' = [standbys EXCEPT ![s].at = "released",
                                    ![s].cancelled = TRUE]
    /\ UNCHANGED <<ctxDone, shuttingDown, taskWG, reader, standbyExitIDs,
                   watched, destroying, exitLog>>

ForgetStandby(s) ==
    /\ standbys[s].at = "released"
    /\ standbys' = [standbys EXCEPT ![s] = NoStandby]
    /\ taskWG' = taskWG - 1
    /\ UNCHANGED <<ctxDone, shuttingDown, taskSlots, reader, standbySlots,
                   standbyExitIDs, watched, destroying, exitLog>>

-----------------------------------------------------------------------------
\* The exit watcher.  Only the Kubernetes backend, which preserves standbys,
\* delivers exits through it: of this process's sandboxes and of earlier ones'.

reportWatchedStandbyExit(s) ==
    /\ PreservesTasks /\ standbysSupported
    /\ watched = {}
    /\ ~Local(s)
    /\ ~shuttingDown
    /\ watched' = {s}
    /\ UNCHANGED <<sharedVars, standbys, standbySlots, standbyExitIDs,
                   destroying, exitLog>>

WatcherSends(s) ==
    /\ s \in watched
    /\ sendStandbyExit(s)
    /\ watched' = watched \ {s}
    /\ UNCHANGED <<sharedVars, standbys, standbySlots, destroying>>

-----------------------------------------------------------------------------

\* stopStandbysLocked, the standbys' part of shutdownTasks' critical section.
stopStandbys ==
    /\ standbys' = [s \in StandbyIDs |->
           IF ~Local(s) THEN NoStandby
           ELSE IF PreservesTasks
                THEN [standbys[s] EXCEPT
                         !.interrupted = @ \/ ~standbys[s].cancelled]
                ELSE [standbys[s] EXCEPT
                         !.source = IF @ = "" THEN "shutdown" ELSE @,
                         !.cancelled = TRUE]]
    /\ UNCHANGED <<standbySlots, standbyExitIDs, watched, destroying, exitLog>>

StandbyObservers == {s \in StandbyIDs : Local(s)}

StandbysInit ==
    /\ standbys = [s \in StandbyIDs |-> NoStandby]
    /\ standbySlots = 0
    /\ standbyExitIDs = <<>>
    /\ watched = {}
    /\ destroying = {}
    /\ exitLog = <<>>

StandbysTypeOK ==
    /\ standbys \in [StandbyIDs -> StandbyEntries \cup {NoStandby}]
    /\ standbySlots \in Int
    /\ standbyExitIDs \in Seq(StandbyIDs)
    /\ watched \in SUBSET StandbyIDs
    /\ destroying \in SUBSET StandbyIDs
    /\ exitLog \in Seq(StandbyIDs)

StandbyReader(s) == PrewarmCreate(s) \/ StartStandby(s) \/ PrewarmDestroy(s)

StandbyGoroutine(s) ==
    \/ StandbyReturns(s) \/ CheckStandbyCause(s) \/ ReportStandbyExit(s)
    \/ ReleaseStandby(s) \/ ForgetStandby(s)

StandbyWatcher(s) == reportWatchedStandbyExit(s) \/ WatcherSends(s)

StandbysNext ==
    \E s \in StandbyIDs :
        \/ StandbyReader(s) \/ StandbyGoroutine(s) \/ StandbyWatcher(s)
        \/ DestroyReturns(s)
=============================================================================
