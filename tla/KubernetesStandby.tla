-------------------------- MODULE KubernetesStandby --------------------------
(***************************************************************************)
(* Standby exits on the Kubernetes backend: WatchStandbyExits              *)
(* (internal/worker/kubernetes_standby.go) watches the worker's standby    *)
(* Jobs, passes each one that has finished to the worker's                 *)
(* reportWatchedStandbyExit and deletes it.  A standby that this process   *)
(* has created is also observed by a goroutine of its own, runStandby      *)
(* (standby.go), which reports the exit unless a shutdown interrupts it.   *)
(* Jobs outlive the process; the next one finds them by their labels.  The *)
(* cluster is external: watches end, are opened again and then replay what *)
(* there is, and any request may fail.                                     *)
(***************************************************************************)
EXTENDS BackendConfig

CONSTANTS
    Sandboxes,    \* standby sandboxes; each has one Job
    MaxProcesses  \* bound: worker processes, one after the other

ASSUME StandbyAssumption == MaxProcesses \in Nat \ {0}

VARIABLES
    standbyJobs,   \* each Job: "none", "active", "finished" or "deleted"
    exitWatch,     \* the watch is open
    exitEvents,    \* what the watch has still to deliver: <<sandbox, type>>
    exitsReported, \* the map reported of WatchStandbyExits
    exitCall,      \* the exit being handled: <<sandbox, step>>, or <<>>
    localStandbys, \* w.standbys: where runStandby stands, or "none"
    stopping,      \* w.shuttingDown, set together with the end of the watcher's context
    process,       \* number of this process
    exitsHanded,   \* w.standbyExits: exits this process has handed to Send
    reportCalls,   \* history: calls of report in this process
    exitsSent,     \* history: sandboxes whose exit some process has sent
    sendsFailed,   \* history: sandboxes whose exit Send has refused
    leftToLocal,   \* history: exits that the watcher left to runStandby
    watcherDeleted,\* history: Jobs that the watcher has deleted
    destroyed      \* history: sandboxes that the server has destroyed

exitVars == <<exitWatch, exitEvents, exitsReported, exitCall>>
sendVars == <<exitsHanded, exitsSent, sendsFailed>>
exitHistory == <<reportCalls, sendVars, leftToLocal, watcherDeleted, destroyed>>
standbyVars == <<standbyJobs, exitVars, localStandbys, stopping, process, exitHistory>>

\* sendStandbyExit hands an exit to Send once in a process.  Send may refuse it,
\* its queue closed or full for the whole timeout, which is only logged.  (The
\* bound of standbyExits is in WorkerStandbys.)
sendStandbyExit(sb) ==
    IF sb \in exitsHanded
    THEN UNCHANGED sendVars
    ELSE /\ exitsHanded' = exitsHanded \cup {sb}
         /\ \/ exitsSent' = exitsSent \cup {sb} /\ UNCHANGED sendsFailed
            \/ sendsFailed' = sendsFailed \cup {sb} /\ UNCHANGED exitsSent

\* Store s as the state of a Job; an open watch will deliver it.
StoreJob(sb, s) ==
    /\ standbyJobs' = [standbyJobs EXCEPT ![sb] = s]
    /\ exitEvents' = IF exitWatch THEN exitEvents \cup {<<sb, s>>} ELSE exitEvents

\* ExecuteTask creates the Job.  (An active Job's events are passed over.)
CreateStandby(sb) ==
    /\ standbyJobs[sb] = "none"
    /\ ~stopping
    /\ standbyJobs' = [standbyJobs EXCEPT ![sb] = "active"]
    /\ localStandbys' = [localStandbys EXCEPT ![sb] = "observing"]
    /\ UNCHANGED <<exitVars, stopping, process, exitHistory>>

FinishStandby(sb) ==
    /\ standbyJobs[sb] = "active"
    /\ StoreJob(sb, "finished")
    /\ UNCHANGED <<exitWatch, exitsReported, exitCall, localStandbys, stopping, process,
                   exitHistory>>

\* prewarm_destroy: cancelStandby deletes the Job by its label.
DestroyStandby(sb) ==
    /\ standbyJobs[sb] \in {"active", "finished"}
    /\ StoreJob(sb, "deleted")
    /\ destroyed' = destroyed \cup {sb}
    /\ UNCHANGED <<exitWatch, exitsReported, exitCall, localStandbys, stopping, process,
                   reportCalls, sendVars, leftToLocal, watcherDeleted>>

-----------------------------------------------------------------------------
\* The watcher.

watcherRest == <<localStandbys, stopping, process, sendVars, leftToLocal, watcherDeleted,
                 destroyed>>

\* Mutations: the reported exits do not outlive a watch; a watch begins with
\* later events only.
OpenForgetful ==
    /\ ~exitWatch
    /\ ~stopping
    /\ exitWatch' = TRUE
    /\ exitEvents' = {e \in Sandboxes \X {"finished"} : standbyJobs[e[1]] = "finished"}
    /\ exitsReported' = {}
    /\ UNCHANGED <<standbyJobs, exitCall, reportCalls, watcherRest>>

OpenWithoutReplay ==
    /\ ~exitWatch
    /\ ~stopping
    /\ exitWatch' = TRUE
    /\ exitEvents' = {}
    /\ UNCHANGED <<standbyJobs, exitsReported, exitCall, reportCalls, watcherRest>>

\* watchStandbyJobs: a watch begins with the Jobs there are.
OpenExitWatch ==
    /\ ~exitWatch
    /\ ~stopping
    /\ exitWatch' = TRUE
    /\ exitEvents' = {e \in Sandboxes \X {"finished"} : standbyJobs[e[1]] = "finished"}
    /\ UNCHANGED <<standbyJobs, exitsReported, exitCall, reportCalls, watcherRest>>

\* The watch ends or delivers an error; the watcher's own end counts as that.
LoseExitWatch ==
    /\ exitWatch
    /\ exitCall = <<>>
    /\ exitWatch' = FALSE
    /\ exitEvents' = {}
    /\ UNCHANGED <<standbyJobs, exitsReported, exitCall, reportCalls, watcherRest>>

\* consumeStandbyJobEvents, which may still take an event after the end of its
\* context.
ReceiveExit(sb, type) ==
    /\ <<sb, type>> \in exitEvents
    /\ exitCall = <<>>
    /\ type = "deleted" => <<sb, "finished">> \notin exitEvents
    /\ exitEvents' = exitEvents \ {<<sb, type>>}
    /\ IF type = "deleted"
       THEN exitsReported' = exitsReported \ {sb} /\ UNCHANGED exitCall
       ELSE /\ exitsReported' = exitsReported \cup {sb}
            /\ exitCall' = IF sb \in exitsReported THEN <<>> ELSE <<sb, "report">>
    /\ UNCHANGED <<standbyJobs, exitWatch, reportCalls, watcherRest>>

\* reportWatchedStandbyExit: a local sandbox's exit is runStandby's to report,
\* and a stopping worker leaves it to the next process.
ReportExit ==
    /\ exitCall # <<>>
    /\ exitCall[2] = "report"
    /\ LET sb == exitCall[1]
           local == localStandbys[sb] # "none"
       IN  /\ reportCalls' = [reportCalls EXCEPT ![sb] = @ + 1]
           /\ IF local \/ stopping THEN UNCHANGED sendVars ELSE sendStandbyExit(sb)
           /\ leftToLocal' = IF local /\ ~stopping THEN leftToLocal \cup {sb} ELSE leftToLocal
           /\ exitCall' = <<sb, "delete">>
    /\ UNCHANGED <<standbyJobs, exitWatch, exitEvents, exitsReported, localStandbys, stopping,
                   process, watcherDeleted, destroyed>>

\* Mutation: the deletion goes on after the end of the watcher's context.
DeleteDetached ==
    /\ exitCall # <<>>
    /\ exitCall[2] = "delete"
    /\ exitCall' = <<>>
    /\ StoreJob(exitCall[1], "deleted")
    /\ watcherDeleted' = watcherDeleted \cup {exitCall[1]}
    /\ UNCHANGED <<exitWatch, exitsReported, localStandbys, stopping, process, reportCalls,
                   sendVars, leftToLocal, destroyed>>

\* kubernetesStandbyDeleteJob, under the watcher's context: it may fail, and it
\* does once the context has ended.
DeleteReportedJob ==
    /\ exitCall # <<>>
    /\ exitCall[2] = "delete"
    /\ exitCall' = <<>>
    /\ \/ /\ ~stopping
          /\ standbyJobs[exitCall[1]] = "finished"
          /\ StoreJob(exitCall[1], "deleted")
          /\ watcherDeleted' = watcherDeleted \cup {exitCall[1]}
       \/ UNCHANGED <<standbyJobs, exitEvents, watcherDeleted>>
    /\ UNCHANGED <<exitWatch, exitsReported, localStandbys, stopping, process, reportCalls,
                   sendVars, leftToLocal, destroyed>>

-----------------------------------------------------------------------------
\* runStandby and the worker.

\* ExecuteTask returns: the Job has finished or is gone.  It leaves a finished
\* Job to the watcher.
StandbyReturns(sb) ==
    /\ localStandbys[sb] = "observing"
    /\ standbyJobs[sb] \in {"finished", "deleted"}
    /\ localStandbys' = [localStandbys EXCEPT ![sb] = "returned"]
    /\ UNCHANGED <<standbyJobs, exitVars, stopping, process, exitHistory>>

\* ExecuteTask returns while the Job runs: at the deadline cap, which deletes the
\* Job, or after an API error, with the Job gone or left to its own deadline.
StandbyFails(sb) ==
    /\ localStandbys[sb] = "observing"
    /\ standbyJobs[sb] = "active"
    /\ localStandbys' = [localStandbys EXCEPT ![sb] = "returned"]
    /\ StoreJob(sb, "deleted") \/ UNCHANGED <<standbyJobs, exitEvents>>
    /\ UNCHANGED <<exitWatch, exitsReported, exitCall, stopping, process, exitHistory>>

\* reportStandbyExit and releaseStandby; an interrupted one is only released.
LeaveStandby(sb) ==
    /\ localStandbys[sb] \in {"returned", "interrupted"}
    /\ IF localStandbys[sb] = "returned" THEN sendStandbyExit(sb) ELSE UNCHANGED sendVars
    /\ localStandbys' = [localStandbys EXCEPT ![sb] = "none"]
    /\ UNCHANGED <<standbyJobs, exitVars, stopping, process, reportCalls, leftToLocal,
                   watcherDeleted, destroyed>>

\* shutdownTasks: shuttingDown, the watcher's end and the interruption of the
\* local standbys happen under one lock.
StopStandbys ==
    /\ ~stopping
    /\ stopping' = TRUE
    /\ localStandbys' = [sb \in Sandboxes |->
            IF localStandbys[sb] = "none" THEN "none" ELSE "interrupted"]
    /\ UNCHANGED <<standbyJobs, exitVars, process, exitHistory>>

\* The process ends, after a shutdown or by a crash, and the next one starts.
RestartWorker ==
    /\ process < MaxProcesses
    /\ process' = process + 1
    /\ exitWatch' = FALSE
    /\ exitEvents' = {}
    /\ exitsReported' = {}
    /\ exitCall' = <<>>
    /\ localStandbys' = [sb \in Sandboxes |-> "none"]
    /\ stopping' = FALSE
    /\ exitsHanded' = {}
    /\ reportCalls' = [sb \in Sandboxes |-> 0]
    /\ UNCHANGED <<standbyJobs, exitsSent, sendsFailed, leftToLocal, watcherDeleted, destroyed>>

StandbyInit ==
    /\ standbyJobs = [sb \in Sandboxes |-> "none"]
    /\ exitWatch = FALSE
    /\ exitEvents = {}
    /\ exitsReported = {}
    /\ exitCall = <<>>
    /\ localStandbys = [sb \in Sandboxes |-> "none"]
    /\ stopping = FALSE
    /\ process = 1
    /\ exitsHanded = {}
    /\ reportCalls = [sb \in Sandboxes |-> 0]
    /\ exitsSent = {}
    /\ sendsFailed = {}
    /\ leftToLocal = {}
    /\ watcherDeleted = {}
    /\ destroyed = {}

WatcherStep ==
    \/ OpenExitWatch \/ ReportExit \/ DeleteReportedJob
    \/ \E sb \in Sandboxes, type \in {"finished", "deleted"} : ReceiveExit(sb, type)

RunStandbyStep(sb) == StandbyReturns(sb) \/ LeaveStandby(sb)

StandbyNext ==
    \/ \E sb \in Sandboxes : \/ CreateStandby(sb) \/ FinishStandby(sb) \/ DestroyStandby(sb)
                             \/ StandbyFails(sb) \/ RunStandbyStep(sb)
    \/ WatcherStep \/ LoseExitWatch \/ StopStandbys \/ RestartWorker

-----------------------------------------------------------------------------
\* One process reports a Job's exit at most once, although each watch that is
\* opened shows it again while its deletion fails.
EachExitOnce == \A sb \in Sandboxes : reportCalls[sb] <= 1

\* Exits that some process has handed to Send, which took or refused them.
Reported == exitsSent \cup sendsFailed

\* The watcher deletes a Job only when its exit has been handed to Send or is
\* runStandby's to report: an exit that a shutdown made it pass over stays for
\* the next process, also when that shutdown comes while the exit is handled.
DeletedExitIsKnown == watcherDeleted \subseteq Reported \cup leftToLocal

\* Why the two hold: the watcher's map forgets a reported sandbox only when its
\* Job is deleted and no watch shows it as finished any more; and what the
\* watcher is about to delete it has accounted for, unless it is stopping.
WatcherInv ==
    /\ standbyJobs \in [Sandboxes -> {"none", "active", "finished", "deleted"}]
    /\ exitEvents \subseteq Sandboxes \X {"finished", "deleted"}
    /\ exitCall = <<>> \/ exitCall \in Sandboxes \X {"report", "delete"}
    /\ reportCalls \in [Sandboxes -> Nat]
    /\ \A sb \in Sandboxes :
          /\ <<sb, "finished">> \in exitEvents => standbyJobs[sb] \in {"finished", "deleted"}
          /\ <<sb, "deleted">> \in exitEvents => standbyJobs[sb] = "deleted"
          /\ exitCall = <<sb, "report">> => reportCalls[sb] = 0 /\ sb \in exitsReported
          /\ reportCalls[sb] # 0 =>
                \/ sb \in exitsReported
                \/ standbyJobs[sb] = "deleted" /\ <<sb, "finished">> \notin exitEvents
          /\ exitCall = <<sb, "delete">> /\ ~stopping => sb \in Reported \cup leftToLocal
    /\ exitsHanded \subseteq Reported
    /\ EachExitOnce
    /\ DeletedExitIsKnown

\* The watcher has deleted the Job, its exit was never handed to Send, and
\* nobody is left who would do so.
ExitLost(sb) ==
    /\ sb \in watcherDeleted \ Reported
    /\ localStandbys[sb] \in {"none", "interrupted"}

\* Every finished Job's exit is sent by this process or by a later one, as long
\* as one runs: a watch that ends is opened again, and a new process finds the
\* Jobs of the last one.  There are two exceptions: a Send that fails is not
\* repeated by its process, which deletes the Job all the same, and ExitLost.
StandbyExitSeen ==
    \A sb \in Sandboxes :
        standbyJobs[sb] = "finished" ~>
            \/ sb \in exitsSent \cup destroyed
            \/ stopping
            \/ sb \in sendsFailed
            \/ ExitLost(sb)

\* WatchStandbyExits reports each standby Job that completes or fails once.
NoExitLost == \A sb \in Sandboxes : ~ExitLost(sb)
=============================================================================
