---------------------------- MODULE BackendProofs ----------------------------
(***************************************************************************)
(* That the exit watcher of the Kubernetes backend reports an exit once    *)
(* and deletes no Job whose exit nobody knows, for any number of           *)
(* sandboxes and worker processes, that the Direct backend never removes a *)
(* directory in which a run is working, for any set of runs, and that the  *)
(* setup phases reported for a pod are the pod's own, for any lists of     *)
(* init containers.                                                        *)
(***************************************************************************)
EXTENDS Backends, FiniteSetTheorems, WellFoundedInduction, TLAPS

-----------------------------------------------------------------------------
\* Standby exits.

\* What a new state of a Job does to the Jobs and to the events of the watch.
LEMMA StoredJob ==
    ASSUME WatcherInv, NEW sb \in Sandboxes, NEW s \in {"finished", "deleted"},
           StoreJob(sb, s), standbyJobs[sb] \in {"active", "finished"},
           s = "finished" => standbyJobs[sb] = "active"
    PROVE  /\ standbyJobs' \in [Sandboxes -> {"none", "active", "finished", "deleted"}]
           /\ exitEvents' \subseteq Sandboxes \X {"finished", "deleted"}
           /\ \A r \in Sandboxes :
                 /\ <<r, "finished">> \in exitEvents' =>
                        standbyJobs'[r] \in {"finished", "deleted"}
                 /\ <<r, "deleted">> \in exitEvents' => standbyJobs'[r] = "deleted"
                 /\ standbyJobs[r] = "deleted" /\ <<r, "finished">> \notin exitEvents
                        => standbyJobs'[r] = "deleted" /\ <<r, "finished">> \notin exitEvents'
BY DEF StoreJob, WatcherInv

\* Whoever calls sendStandbyExit for a sandbox, its exit has then been handed to
\* Send, by this call or by an earlier one.
LEMMA SentIsReported ==
    ASSUME WatcherInv, NEW sb \in Sandboxes,
           sendStandbyExit(sb) \/ UNCHANGED sendVars
    PROVE  /\ Reported \subseteq Reported'
           /\ exitsHanded' \subseteq Reported'
           /\ sendStandbyExit(sb) => sb \in Reported'
BY DEF WatcherInv, sendStandbyExit, sendVars, Reported

\* Each step of the exit watcher, of runStandby, of the cluster and of the
\* process preserves the invariant.
LEMMA WatcherKeeps ==
    ASSUME WatcherInv, StandbyNext
    PROVE  WatcherInv'
<1> USE DEF exitVars, exitHistory, watcherRest, sendVars
<1>1. ASSUME NEW sb \in Sandboxes, CreateStandby(sb)
      PROVE  WatcherInv'
  BY <1>1 DEF CreateStandby, WatcherInv, EachExitOnce, DeletedExitIsKnown, Reported
<1>2. ASSUME NEW sb \in Sandboxes, FinishStandby(sb) \/ DestroyStandby(sb)
      PROVE  WatcherInv'
  <2>1. PICK s \in {"finished", "deleted"} :
            /\ StoreJob(sb, s)
            /\ standbyJobs[sb] \in {"active", "finished"}
            /\ s = "finished" => standbyJobs[sb] = "active"
    BY <1>2 DEF FinishStandby, DestroyStandby
  <2>2. UNCHANGED <<exitsReported, exitCall, stopping, reportCalls, sendVars, leftToLocal,
                    watcherDeleted>>
    BY <1>2 DEF FinishStandby, DestroyStandby
  <2> QED
    BY <2>1, <2>2, StoredJob DEF WatcherInv, EachExitOnce, DeletedExitIsKnown, Reported
<1>3. ASSUME NEW sb \in Sandboxes, RunStandbyStep(sb)
      PROVE  WatcherInv'
  <2>1. /\ UNCHANGED <<standbyJobs, exitVars, stopping, reportCalls, leftToLocal,
                       watcherDeleted>>
        /\ sendStandbyExit(sb) \/ UNCHANGED sendVars
    BY <1>3 DEF RunStandbyStep, StandbyReturns, LeaveStandby
  <2>2. Reported \subseteq Reported' /\ exitsHanded' \subseteq Reported'
    BY <2>1, SentIsReported
  <2> QED
    BY <2>1, <2>2 DEF WatcherInv, EachExitOnce, DeletedExitIsKnown, Reported
<1>4. CASE OpenExitWatch \/ LoseExitWatch
  <2>1. /\ UNCHANGED <<standbyJobs, exitsReported, exitCall, stopping, reportCalls, sendVars,
                       leftToLocal, watcherDeleted>>
        /\ exitEvents' \subseteq
              {e \in Sandboxes \X {"finished"} : standbyJobs[e[1]] = "finished"}
    BY <1>4 DEF OpenExitWatch, LoseExitWatch
  <2>2. \A r \in Sandboxes :
            /\ <<r, "finished">> \in exitEvents' => standbyJobs[r] = "finished"
            /\ <<r, "deleted">> \notin exitEvents'
    BY <2>1
  <2> QED
    BY <2>1, <2>2 DEF WatcherInv, EachExitOnce, DeletedExitIsKnown, Reported
<1>5. ASSUME NEW sb \in Sandboxes, ReceiveExit(sb, "deleted")
      PROVE  WatcherInv'
  <2>1. /\ <<sb, "deleted">> \in exitEvents /\ <<sb, "finished">> \notin exitEvents
        /\ exitEvents' = exitEvents \ {<<sb, "deleted">>}
        /\ exitsReported' = exitsReported \ {sb}
        /\ exitCall = <<>>
        /\ UNCHANGED <<standbyJobs, exitCall, stopping, reportCalls, sendVars, leftToLocal,
                       watcherDeleted>>
    BY <1>5 DEF ReceiveExit
  <2> QED
    BY <2>1 DEF WatcherInv, EachExitOnce, DeletedExitIsKnown, Reported
<1>6. ASSUME NEW sb \in Sandboxes, ReceiveExit(sb, "finished")
      PROVE  WatcherInv'
  <2>1. /\ <<sb, "finished">> \in exitEvents
        /\ exitEvents' = exitEvents \ {<<sb, "finished">>}
        /\ exitsReported' = exitsReported \cup {sb}
        /\ \/ sb \in exitsReported /\ exitCall' = <<>>
           \/ sb \notin exitsReported /\ exitCall' = <<sb, "report">>
        /\ UNCHANGED <<standbyJobs, stopping, reportCalls, sendVars, leftToLocal,
                       watcherDeleted>>
    BY <1>6 DEF ReceiveExit
  <2>2. sb \notin exitsReported => reportCalls[sb] = 0
    BY <2>1 DEF WatcherInv
  <2> QED
    BY <2>1, <2>2 DEF WatcherInv, EachExitOnce, DeletedExitIsKnown, Reported
<1>7. CASE ReportExit
  <2>1. PICK sb \in Sandboxes : exitCall = <<sb, "report">>
    BY <1>7 DEF ReportExit, WatcherInv
  <2>2. reportCalls[sb] = 0 /\ sb \in exitsReported
    BY <2>1 DEF WatcherInv
  <2>3. /\ reportCalls' = [reportCalls EXCEPT ![sb] = 1]
        /\ exitCall' = <<sb, "delete">>
        /\ leftToLocal \subseteq leftToLocal'
        /\ \/ sendStandbyExit(sb)
           \/ UNCHANGED sendVars /\ (stopping \/ sb \in leftToLocal')
        /\ UNCHANGED <<standbyJobs, exitEvents, exitsReported, stopping, watcherDeleted>>
    BY <1>7, <2>1, <2>2 DEF ReportExit, WatcherInv
  <2>4. /\ Reported \subseteq Reported' /\ exitsHanded' \subseteq Reported'
        /\ stopping \/ sb \in Reported' \cup leftToLocal'
    BY <2>3, SentIsReported
  <2> QED
    BY <2>2, <2>3, <2>4 DEF WatcherInv, EachExitOnce, DeletedExitIsKnown, Reported
<1>8. CASE DeleteReportedJob
  <2>1. PICK sb \in Sandboxes : exitCall = <<sb, "delete">>
    BY <1>8 DEF DeleteReportedJob, WatcherInv
  <2>2. /\ exitCall' = <<>>
        /\ \/ /\ ~stopping
              /\ standbyJobs[sb] = "finished"
              /\ StoreJob(sb, "deleted")
              /\ watcherDeleted' = watcherDeleted \cup {sb}
           \/ UNCHANGED <<standbyJobs, exitEvents, watcherDeleted>>
        /\ UNCHANGED <<exitsReported, stopping, reportCalls, sendVars, leftToLocal>>
    BY <1>8, <2>1 DEF DeleteReportedJob
  <2>3. CASE UNCHANGED <<standbyJobs, exitEvents, watcherDeleted>>
    BY <2>2, <2>3 DEF WatcherInv, EachExitOnce, DeletedExitIsKnown, Reported
  <2>4. CASE /\ ~stopping /\ standbyJobs[sb] = "finished" /\ StoreJob(sb, "deleted")
             /\ watcherDeleted' = watcherDeleted \cup {sb}
    <3>1. sb \in Reported \cup leftToLocal
      BY <2>1, <2>4 DEF WatcherInv
    <3> QED
      BY <2>2, <2>4, <3>1, StoredJob DEF WatcherInv, EachExitOnce, DeletedExitIsKnown, Reported
  <2> QED
    BY <2>2, <2>3, <2>4
<1>9. CASE StopStandbys
  BY <1>9 DEF StopStandbys, WatcherInv, EachExitOnce, DeletedExitIsKnown, Reported
<1>10. CASE RestartWorker
  BY <1>10 DEF RestartWorker, WatcherInv, EachExitOnce, DeletedExitIsKnown, Reported
<1>11. ASSUME NEW sb \in Sandboxes, StandbyFails(sb)
       PROVE  WatcherInv'
  <2>1. /\ standbyJobs[sb] = "active"
        /\ StoreJob(sb, "deleted") \/ UNCHANGED <<standbyJobs, exitEvents>>
        /\ UNCHANGED <<exitsReported, exitCall, stopping, reportCalls, sendVars, leftToLocal,
                       watcherDeleted>>
    BY <1>11 DEF StandbyFails
  <2>2. CASE StoreJob(sb, "deleted")
    BY <2>1, <2>2, StoredJob DEF WatcherInv, EachExitOnce, DeletedExitIsKnown, Reported
  <2>3. CASE UNCHANGED <<standbyJobs, exitEvents>>
    BY <2>1, <2>3 DEF WatcherInv, EachExitOnce, DeletedExitIsKnown, Reported
  <2> QED
    BY <2>1, <2>2, <2>3
<1> QED
  BY <1>1, <1>2, <1>3, <1>4, <1>5, <1>6, <1>7, <1>8, <1>9, <1>10, <1>11
     DEF StandbyNext, WatcherStep

\* The invariant of the exit watcher holds in every reachable state of the
\* Backends, in which only its own steps change its state.
THEOREM WatcherCorrect == Spec => []WatcherInv
<1>1. Init => WatcherInv
  BY DEF Init, StandbyInit, WatcherInv, EachExitOnce, DeletedExitIsKnown, Reported
<1>2. WatcherInv /\ [Next]_vars => WatcherInv'
  <2> SUFFICES ASSUME WatcherInv, [Next]_vars PROVE WatcherInv'
    OBVIOUS
  <2>1. CASE StandbyNext
    BY <2>1, WatcherKeeps
  <2>2. CASE UNCHANGED standbyVars
    BY <2>2 DEF standbyVars, exitVars, exitHistory, sendVars, WatcherInv, EachExitOnce, DeletedExitIsKnown, Reported
  <2>3. StandbyNext \/ UNCHANGED standbyVars
    BY Zenon DEF Next, vars, OnDocker, OnDirect, OnCommand, OnExits, OnSetup
  <2> QED
    BY <2>1, <2>2, <2>3
<1> QED
  BY <1>1, <1>2, PTL DEF Spec

\* WatchStandbyExits passes a Job's exit to its callback at most once in a
\* process, however often its watch is opened again and shows the Job.
THEOREM ExitOnce == Spec => []EachExitOnce
<1>1. WatcherInv => EachExitOnce
  BY DEF WatcherInv
<1> QED
  BY <1>1, WatcherCorrect, PTL

\* WatchStandbyExits deletes a Job only when its exit has been handed to Send,
\* which may refuse it, or was left to the runStandby that observes it, over
\* crashes and restarts.
THEOREM NoBlindDelete == Spec => []DeletedExitIsKnown
<1>1. WatcherInv => DeletedExitIsKnown
  BY DEF WatcherInv
<1> QED
  BY <1>1, WatcherCorrect, PTL

-----------------------------------------------------------------------------
\* Workspaces of the Direct backend.

\* Two runs have the same directory only when all runs share the target
\* directory: a legacy task's is named after the task, of which there is one
\* run, and MkdirTemp makes the others unique.
LEMMA OwnDirectory ==
    ASSUME NEW p \in DirectRuns, NEW q \in DirectRuns, ~config.targetDir,
           WorkspaceDir(p) = WorkspaceDir(q)
    PROVE  p = q
<1>1. /\ p \in [taskID : STRING, executionID : STRING, standbyID : STRING]
      /\ q \in [taskID : STRING, executionID : STRING, standbyID : STRING]
  BY DirectAssumption DEF Params
<1>2. p.taskID = q.taskID /\ p.executionID = q.executionID /\ p.standbyID = q.standbyID
  <2> DEFINE Legacy(r) == ~IsStandby(r) /\ r.executionID = Unset
             Unique(r) == <<r.taskID, r.executionID, r.standbyID>>
  <2>1. ASSUME NEW r \in {p, q}
        PROVE  WorkspaceDir(r) = IF Legacy(r) THEN <<r.taskID>> ELSE Unique(r)
    BY DEF WorkspaceDir
  <2>2. CASE Legacy(p) /\ Legacy(q)
    <3>1. <<p.taskID>> = <<q.taskID>>
      BY <2>1, <2>2
    <3> QED
      BY <2>2, <3>1 DEF IsStandby
  <2>3. CASE ~Legacy(p) /\ ~Legacy(q)
    <3>1. Unique(p) = Unique(q)
      BY <2>1, <2>3
    <3> QED
      BY <3>1
  <2>4. ASSUME NEW r \in {p, q}, NEW t \in {p, q} PROVE <<r.taskID>> # Unique(t)
    <3>1. Len(<<r.taskID>>) = 1 /\ Len(Unique(t)) = 3
      OBVIOUS
    <3> QED
      BY <3>1
  <2> HIDE DEF Legacy, Unique
  <2> QED
    BY <2>1, <2>2, <2>3, <2>4
<1> QED
  BY <1>1, <1>2

\* A run's record after a step of the run that changes pc only.
LEMMA DirectMoves ==
    ASSUME NEW p \in DirectRuns, direct \in [DirectRuns -> DirectCalls],
           NEW pc \in DirectSteps, At(p, pc)
    PROVE  /\ direct' \in [DirectRuns -> DirectCalls]
           /\ direct'[p].pc = pc
           /\ direct'[p].dir = direct[p].dir
           /\ direct'[p].outcome = direct[p].outcome
           /\ \A q \in DirectRuns \ {p} : direct'[q] = direct[q]
BY DEF DirectCalls, At

\* A step of run p within its workspace.
Within(p) ==
    /\ direct' \in [DirectRuns -> DirectCalls]
    /\ \A q \in DirectRuns \ {p} : direct'[q] = direct[q]
    /\ direct'[p].dir = direct[p].dir
    /\ direct[p].pc \in {"environment", "setup", "agent", "teardown"}
    /\ direct'[p].pc = "remove" => ~config.targetDir /\ direct'[p].outcome # "none"
    /\ direct'[p].pc = "teardown" => direct'[p].outcome # "none"

\* It preserves the invariant.
LEMMA WithinKeeps ==
    ASSUME WorkspaceInv, NEW p \in DirectRuns, Within(p), UNCHANGED <<config, directories, swept>>
    PROVE  WorkspaceInv'
<1>1. ASSUME NEW q \in DirectRuns
      PROVE  /\ direct'[q].pc \notin {"idle", "completed", "failed"} =>
                    direct'[q].dir = WorkspaceDir(q)'
             /\ direct'[q].pc = "remove" => ~config'.targetDir /\ direct'[q].outcome # "none"
             /\ direct'[q].pc = "teardown" => direct'[q].outcome # "none"
             /\ direct'[q].pc \in {"environment", "setup", "agent", "teardown"} =>
                    direct'[q].dir \in directories' \/ swept'
  <2>1. WorkspaceDir(q)' = WorkspaceDir(q)
    BY DEF WorkspaceDir
  <2>2. CASE q = p
    BY <2>1, <2>2 DEF WorkspaceInv, WorkspaceKept, Within
  <2>3. CASE q # p
    <3>1. direct'[q] = direct[q]
      BY <2>3 DEF Within
    <3> QED
      BY <2>1, <3>1 DEF WorkspaceInv, WorkspaceKept
  <2> QED
    BY <2>2, <2>3
<1>2. direct' \in [DirectRuns -> DirectCalls]
  BY DEF Within
<1> QED
  BY <1>1, <1>2 DEF WorkspaceInv, WorkspaceKept

\* The deferred cleanup begins within the workspace.
LEMMA LeaveWithin ==
    ASSUME WorkspaceInv, NEW p \in DirectRuns, NEW outcome \in {"completed", "failed"},
           direct[p].pc \in {"environment", "setup", "agent"}, LeaveWorkspace(p, outcome)
    PROVE  Within(p)
<1> DEFINE next == IF config.noCleanup /\ ~config.targetDir THEN outcome
                   ELSE IF config.hooks THEN "teardown"
                   ELSE IF config.targetDir THEN outcome ELSE "remove"
<1>1. direct' = [direct EXCEPT ![p].pc = next, ![p].outcome = outcome]
  BY DEF LeaveWorkspace
<1>2. next \in DirectSteps /\ (next = "remove" => ~config.targetDir)
  BY DEF DirectSteps
<1>3. direct \in [DirectRuns -> DirectCalls]
  BY DEF WorkspaceInv
<1> HIDE DEF next
<1>4. /\ direct' \in [DirectRuns -> DirectCalls]
      /\ direct'[p].pc = next /\ direct'[p].outcome = outcome /\ direct'[p].dir = direct[p].dir
      /\ \A q \in DirectRuns \ {p} : direct'[q] = direct[q]
  BY <1>1, <1>2, <1>3 DEF DirectCalls
<1> QED
  BY <1>2, <1>4 DEF Within

\* The agent is started within the workspace.
LEMMA AgentWithin ==
    ASSUME WorkspaceInv, NEW p \in DirectRuns,
           direct[p].pc \in {"environment", "setup", "agent"}, RunAgent(p)
    PROVE  Within(p)
<1>1. CASE At(p, "agent")
  <2>1. direct \in [DirectRuns -> DirectCalls] /\ "agent" \in DirectSteps
    BY DEF WorkspaceInv, DirectSteps
  <2> QED
    BY <1>1, <2>1, DirectMoves DEF Within
<1>2. CASE LeaveWorkspace(p, "failed")
  BY <1>2, LeaveWithin
<1> QED
  BY <1>1, <1>2 DEF RunAgent

\* Each step of a run, of its commands and of Shutdown preserves the invariant.
LEMMA WorkspaceKeeps ==
    ASSUME WorkspaceInv, DirectNext, UNCHANGED config
    PROVE  WorkspaceInv'
<1>0. \A q \in DirectRuns : WorkspaceDir(q)' = WorkspaceDir(q)
  BY DEF WorkspaceDir
<1>1. ASSUME NEW p \in DirectRuns, StartDirect(p)
      PROVE  WorkspaceInv'
  <2>1. WorkspaceDir(p) \in DirectNames
    BY DEF WorkspaceDir, DirectNames
  <2>2. CASE /\ direct' = [direct EXCEPT ![p].pc = "environment", ![p].dir = WorkspaceDir(p)]
             /\ directories' = directories \cup {WorkspaceDir(p)}
    <3>1. /\ direct' \in [DirectRuns -> DirectCalls]
          /\ direct'[p].pc = "environment" /\ direct'[p].dir = WorkspaceDir(p)
          /\ \A q \in DirectRuns \ {p} : direct'[q] = direct[q]
      <4>1. direct \in [DirectRuns -> DirectCalls] /\ "environment" \in DirectSteps
        BY DEF WorkspaceInv, DirectSteps
      <4> QED
        BY <2>1, <2>2, <4>1 DEF DirectCalls
    <3> QED
      BY <1>0, <1>1, <2>2, <3>1 DEF StartDirect, WorkspaceInv, WorkspaceKept
  <2>3. CASE At(p, "failed") /\ UNCHANGED directories
    <3>1. /\ direct' \in [DirectRuns -> DirectCalls]
          /\ direct'[p].pc = "failed"
          /\ \A q \in DirectRuns \ {p} : direct'[q] = direct[q]
      <4>1. direct \in [DirectRuns -> DirectCalls] /\ "failed" \in DirectSteps
        BY DEF WorkspaceInv, DirectSteps
      <4> QED
        BY <2>3, <4>1, DirectMoves
    <3> QED
      BY <1>0, <1>1, <2>3, <3>1 DEF StartDirect, WorkspaceInv, WorkspaceKept
  <2> QED
    BY <1>1, <2>2, <2>3 DEF StartDirect
<1>2. ASSUME NEW p \in DirectRuns, RunSetup(p)
      PROVE  WorkspaceInv'
  <2>1. CASE At(p, "setup")
    <3>1. Within(p)
      <4>1. direct \in [DirectRuns -> DirectCalls] /\ "setup" \in DirectSteps
        BY DEF WorkspaceInv, DirectSteps
      <4>2. direct[p].pc = "environment"
        BY <1>2 DEF RunSetup
      <4> QED
        BY <2>1, <4>1, <4>2, DirectMoves DEF Within
    <3> QED
      BY <1>2, <3>1, WithinKeeps DEF RunSetup
  <2>2. CASE RunAgent(p) \/ LeaveWorkspace(p, "failed")
    BY <1>2, <2>2, AgentWithin, LeaveWithin, WithinKeeps DEF RunSetup
  <2> QED
    BY <1>2, <2>1, <2>2 DEF RunSetup
<1>3. ASSUME NEW p \in DirectRuns, HostCommandReturns(p)
      PROVE  WorkspaceInv'
  <2>1. UNCHANGED <<directories, swept>>
    BY <1>3 DEF HostCommandReturns
  <2>2. CASE /\ direct[p].pc = "teardown"
             /\ At(p, IF config.targetDir THEN direct[p].outcome ELSE "remove")
    <3>1. direct[p].outcome \in {"completed", "failed"}
      BY <2>2 DEF WorkspaceInv, DirectCalls
    <3>2. Within(p)
      <4>1. PICK pc \in {"completed", "failed", "remove"} :
                At(p, pc) /\ (pc = "remove" => ~config.targetDir)
        <5>1. CASE config.targetDir
          BY <2>2, <3>1, <5>1
        <5>2. CASE ~config.targetDir
          BY <2>2, <5>2
        <5> QED
          BY <5>1, <5>2
      <4>2. direct \in [DirectRuns -> DirectCalls] /\ pc \in DirectSteps
        BY DEF WorkspaceInv, DirectSteps
      <4> QED
        BY <2>2, <3>1, <4>1, <4>2, DirectMoves DEF Within
    <3> QED
      BY <2>1, <3>2, WithinKeeps
  <2>3. CASE /\ direct[p].pc \in {"setup", "agent"}
             /\ RunAgent(p) \/ \E o \in {"completed", "failed"} : LeaveWorkspace(p, o)
    BY <2>1, <2>3, AgentWithin, LeaveWithin, WithinKeeps
  <2> QED
    BY <1>3, <2>2, <2>3 DEF HostCommandReturns
<1>4. ASSUME NEW p \in DirectRuns, RemoveWorkspace(p)
      PROVE  WorkspaceInv'
  <2>1. /\ direct[p].pc = "remove" /\ direct' = [direct EXCEPT ![p].pc = direct[p].outcome]
        /\ directories' \in {directories, directories \ {direct[p].dir}}
        /\ UNCHANGED swept
    BY <1>4 DEF RemoveWorkspace, At
  <2>2. /\ direct[p].outcome \in {"completed", "failed"}
        /\ ~config.targetDir
        /\ direct[p].dir = WorkspaceDir(p)
    BY <2>1 DEF WorkspaceInv, DirectCalls
  <2>3. /\ direct' \in [DirectRuns -> DirectCalls]
        /\ direct'[p].pc \in {"completed", "failed"}
        /\ \A q \in DirectRuns \ {p} : direct'[q] = direct[q]
    <3>1. direct \in [DirectRuns -> DirectCalls] /\ direct[p].outcome \in DirectSteps
      BY <2>2 DEF WorkspaceInv, DirectSteps
    <3>2. At(p, direct[p].outcome)
      BY <1>4 DEF RemoveWorkspace
    <3> QED
      BY <2>2, <3>1, <3>2, DirectMoves
  <2>4. ASSUME NEW q \in DirectRuns \ {p},
               direct[q].pc \in {"environment", "setup", "agent", "teardown"}
        PROVE  direct[q].dir \in directories' \/ swept'
    <3>1. direct[q].dir = WorkspaceDir(q)
      BY <2>4 DEF WorkspaceInv
    <3>2. WorkspaceDir(q) # WorkspaceDir(p)
      BY <2>2, OwnDirectory
    <3> QED
      BY <2>1, <2>2, <2>4, <3>1, <3>2 DEF WorkspaceInv, WorkspaceKept
  <2> QED
    BY <1>0, <2>3, <2>4 DEF WorkspaceInv, WorkspaceKept
<1>5. ASSUME NEW p \in DirectRuns, KillHostCommand(p) \/ HostProcessMoves(p)
      PROVE  WorkspaceInv'
  BY <1>0, <1>5 DEF KillHostCommand, HostProcessMoves, WorkspaceInv, WorkspaceKept
<1>6. ASSUME NEW p \in DirectRuns, EndDirectContext(p)
      PROVE  WorkspaceInv'
  <2>1. /\ direct' \in [DirectRuns -> DirectCalls]
        /\ \A q \in DirectRuns : /\ direct'[q].pc = direct[q].pc
                                 /\ direct'[q].dir = direct[q].dir
                                 /\ direct'[q].outcome = direct[q].outcome
        /\ UNCHANGED <<directories, swept>>
    BY <1>6 DEF EndDirectContext, WorkspaceInv, DirectCalls
  <2> QED
    BY <1>0, <2>1 DEF WorkspaceInv, WorkspaceKept
<1>7. CASE SweepWorkspaces
  BY <1>0, <1>7 DEF SweepWorkspaces, WorkspaceInv, WorkspaceKept
<1> QED
  BY <1>1, <1>2, <1>3, <1>4, <1>5, <1>6, <1>7 DEF DirectNext, DirectStep

\* The invariant on workspaces holds in every reachable state.
THEOREM WorkspaceCorrect == Spec => []WorkspaceInv
<1>1. Init => WorkspaceInv
  <2>1. <<>> \in DirectNames
    BY DEF DirectNames
  <2> QED
    BY <2>1 DEF Init, DirectInit, WorkspaceInv, WorkspaceKept, DirectCalls, DirectSteps
<1>2. WorkspaceInv /\ [Next]_vars => WorkspaceInv'
  <2> SUFFICES ASSUME WorkspaceInv, [Next]_vars PROVE WorkspaceInv'
    OBVIOUS
  <2>1. UNCHANGED config /\ (DirectNext \/ UNCHANGED directVars)
    BY Zenon DEF Next, vars, OnDocker, OnDirect, OnCommand, OnExits, OnSetup
  <2>2. CASE UNCHANGED directVars
    BY <2>1, <2>2 DEF directVars, WorkspaceInv, WorkspaceKept, WorkspaceDir
  <2> QED
    BY <2>1, <2>2, WorkspaceKeeps
<1> QED
  BY <1>1, <1>2, PTL DEF Spec

\* The cleanup of a Direct run never removes the directory in which another run
\* has a command running, whichever runs of a task or standby overlap.
THEOREM Workspaces == Spec => []WorkspaceKept
<1>1. WorkspaceInv => WorkspaceKept
  BY DEF WorkspaceInv
<1> QED
  BY <1>1, WorkspaceCorrect, PTL

-----------------------------------------------------------------------------
\* Minima, maxima and sequences of small sets.

\* A set of naturals has a least element, and a greatest one when it is bounded.
LEMMA LeastNatural ==
    ASSUME NEW S \in SUBSET Nat, S # {}
    PROVE  \E x \in S : \A y \in S : x <= y
<1> DEFINE less == {ss \in Nat \X Nat : ss[1] < ss[2]}
<1>1. IsWellFoundedOn(less, Nat)
  BY NatLessThanWellFounded, Zenon DEF OpToRel
<1>2. \A x, y \in Nat : y < x => <<y, x>> \in less
  OBVIOUS
<1> HIDE DEF less
<1>3. PICK x \in S : \A y \in S : ~(<<y, x>> \in less)
  BY <1>1, WFMin
<1>4. ASSUME NEW y \in S PROVE x <= y
  <2>1. x \in Nat /\ y \in Nat /\ ~(<<y, x>> \in less)
    BY <1>3
  <2> QED
    BY <1>2, <2>1
<1> QED
  BY <1>4

\* Min and Max are the elements that their names say.
LEMMA MinIs ==
    ASSUME NEW S \in SUBSET Nat, NEW x \in S, \A y \in S : x <= y
    PROVE  Min(S) = x
<1>1. Min(S) \in S /\ \A y \in S : Min(S) <= y
  BY Zenon DEF Min
<1>2. x \in Nat /\ Min(S) \in Nat /\ Min(S) <= x /\ x <= Min(S)
  BY <1>1
<1> QED
  BY <1>2

LEMMA MaxIs ==
    ASSUME NEW S \in SUBSET Nat, NEW x \in S, \A y \in S : y <= x
    PROVE  Max(S) = x
<1>1. \E z \in S : \A y \in S : z >= y
  OBVIOUS
<1>2. Max(S) \in S /\ \A y \in S : Max(S) >= y
  BY <1>1, Zenon DEF Max
<1>3. x \in Nat /\ Max(S) \in Nat /\ Max(S) <= x /\ x <= Max(S)
  BY <1>2
<1> QED
  BY <1>3

LEMMA GreatestNatural ==
    ASSUME NEW S \in SUBSET Nat, S # {}, NEW b \in Nat, \A x \in S : x <= b
    PROVE  \E x \in S : \A y \in S : x >= y
<1> DEFINE B == {n \in Nat : \A x \in S : x <= n}
<1>1. PICK m \in B : \A n \in B : m <= n
  BY LeastNatural
<1>2. m \in Nat /\ \A x \in S : x <= m
  BY <1>1
<1>3. ASSUME m \notin S PROVE FALSE
  <2>1. \A x \in S : x \in Nat /\ x <= m - 1
    BY <1>2, <1>3
  <2>2. m - 1 \in Nat
    <3>1. PICK x \in S : TRUE
      OBVIOUS
    <3>2. x \in Nat /\ x <= m - 1 /\ m \in Nat
      BY <1>2, <2>1
    <3> QED
      BY <3>2
  <2>3. m - 1 \in B
    BY <2>1, <2>2
  <2> HIDE DEF B
  <2> QED
    BY <1>1, <1>2, <2>3
<1> QED
  BY <1>2, <1>3

\* The values of a function on 1..n have a bound: a least k without one could be
\* neither 0 nor the successor of a k with one.
LEMMA ValuesBounded ==
    ASSUME NEW n \in Nat, NEW f \in [1..n -> Nat]
    PROVE  \E b \in Nat : \A i \in 1..n : f[i] <= b
<1> DEFINE Bounded(k) == \E b \in Nat : \A i \in 1..k : f[i] <= b
           T == {k \in 0..n : ~Bounded(k)}
<1>1. ASSUME T # {} PROVE FALSE
  <2> HIDE DEF Bounded
  <2>0. T \in SUBSET Nat
    OBVIOUS
  <2>1. PICK k \in T : \A j \in T : k <= j
    <3> HIDE DEF T
    <3> QED
      BY <1>1, <2>0, LeastNatural
  <2>2. Bounded(0)
    <3>1. \A i \in 1..0 : f[i] <= 0
      OBVIOUS
    <3> QED
      BY <3>1 DEF Bounded
  <2>3. k \in 1..n /\ ~Bounded(k)
    BY <2>1, <2>2
  <2>4. Bounded(k - 1)
    BY <2>1, <2>3
  <2>5. PICK b \in Nat : \A i \in 1..(k - 1) : f[i] <= b
    BY <2>4 DEF Bounded
  <2>6. PICK c \in Nat : b <= c /\ f[k] <= c
    <3>1. f[k] \in Nat
      BY <2>3
    <3>2. b <= b + f[k] /\ f[k] <= b + f[k] /\ b + f[k] \in Nat
      BY <3>1
    <3> QED BY <3>2
  <2>7. \A i \in 1..k : f[i] <= c
    <3> TAKE i \in 1..k
    <3>1. f[i] \in Nat
      BY <2>3
    <3>2. CASE i = k
      BY <2>6, <3>2
    <3>3. CASE i \in 1..(k - 1)
      BY <2>5, <2>6, <3>1, <3>3
    <3> QED
      BY <2>3, <3>2, <3>3
  <2> QED
    BY <2>3, <2>7 DEF Bounded
<1>2. n \notin T
  <2> HIDE DEF T
  <2> QED BY <1>1
<1> QED
  BY <1>2

LEMMA MinNat ==
    ASSUME NEW S \in SUBSET Nat, S # {}
    PROVE  Min(S) \in S /\ \A y \in S : Min(S) <= y
<1>1. PICK x \in S : \A y \in S : x <= y
  BY LeastNatural
<1> QED
  BY <1>1, MinIs

LEMMA MaxNat ==
    ASSUME NEW S \in SUBSET Nat, S # {}, NEW b \in Nat, \A x \in S : x <= b
    PROVE  Max(S) \in S /\ \A y \in S : y <= Max(S)
<1>1. PICK x \in S : \A y \in S : x >= y
  BY GreatestNatural
<1>2. \A y \in S : y <= x
  BY <1>1
<1> QED
  BY <1>2, MaxIs

\* SetToSeq of a set with at most one element.
LEMMA SeqOfNone == SetToSeq({}) = <<>>
<1>1. Cardinality({}) = 0
  BY FS_EmptySet
<1>2. \A f \in [1..0 -> {}] : f = <<>>
  OBVIOUS
<1>3. <<>> \in [1..0 -> {}] /\ IsInjective(<<>>)
  BY DEF IsInjective
<1> QED
  BY <1>1, <1>2, <1>3 DEF SetToSeq

LEMMA SeqOfOne == ASSUME NEW v PROVE SetToSeq({v}) = <<v>>
<1>1. Cardinality({v}) = 1
  BY FS_Singleton
<1>2. \A f \in [1..1 -> {v}] : f = <<v>>
  OBVIOUS
<1>3. <<v>> \in [1..1 -> {v}] /\ IsInjective(<<v>>)
  BY DEF IsInjective
<1> QED
  BY <1>1, <1>2, <1>3 DEF SetToSeq

-----------------------------------------------------------------------------
\* The pod of a task.

\* Six naturals have a bound.
LEMMA CommonBound ==
    ASSUME NEW a \in Nat, NEW b \in Nat, NEW c \in Nat, NEW d \in Nat, NEW e \in Nat,
           NEW f \in Nat
    PROVE  \E top \in Nat : /\ a <= top /\ b <= top /\ c <= top
                            /\ d <= top /\ e <= top /\ f <= top
<1>1. a + b + c + d + e + f \in Nat
  OBVIOUS
<1> QED
  BY <1>1

\* No time of the pod is after LastTime, of which the next change takes its own.
LEMMA LastTimeBounds ==
    ASSUME kinds \in Seq(Kinds), Pod \in PodStates
    PROVE  /\ LastTime \in Nat /\ LastTime >= Created
           /\ Pod.scheduled <= LastTime
           /\ Pod.task.started <= LastTime
           /\ \A i \in DOMAIN kinds :
                 Pod.init[i].started <= LastTime /\ Pod.init[i].finished <= LastTime
<1> DEFINE rest == {Created, Pod.scheduled, Pod.task.started, Pod.task.finished}
           started == {Pod.init[i].started : i \in DOMAIN kinds}
           finished == {Pod.init[i].finished : i \in DOMAIN kinds}
           all == UNION {rest, started, finished}
           N == Len(kinds)
           f == [i \in 1..N |-> Pod.init[i].started]
           g == [i \in 1..N |-> Pod.init[i].finished]
<1>1. N \in Nat /\ DOMAIN kinds = 1..N
  OBVIOUS
<1>2. /\ Pod.scheduled \in Nat /\ Pod.task.started \in Nat /\ Pod.task.finished \in Nat
      /\ Created \in Nat
      /\ \A i \in 1..N : Pod.init[i].started \in Nat /\ Pod.init[i].finished \in Nat
  BY <1>1 DEF PodStates, Containers, Created
<1>3. PICK b \in Nat : \A i \in 1..N : Pod.init[i].started <= b
  <2>1. f \in [1..N -> Nat]
    BY <1>2
  <2>2. PICK b \in Nat : \A i \in 1..N : f[i] <= b
    <3> HIDE DEF f, N
    <3> QED
      BY <1>1, <2>1, ValuesBounded
  <2> QED
    BY <2>2
<1>4. PICK c \in Nat : \A i \in 1..N : Pod.init[i].finished <= c
  <2>1. g \in [1..N -> Nat]
    BY <1>2
  <2>2. PICK c \in Nat : \A i \in 1..N : g[i] <= c
    <3> HIDE DEF g, N
    <3> QED
      BY <1>1, <2>1, ValuesBounded
  <2> QED
    BY <2>2
<1>5. PICK top \in Nat :
          b <= top /\ c <= top /\ \A x \in rest : x \in Nat /\ x <= top
  <2>1. PICK top \in Nat :
            /\ b <= top /\ c <= top /\ Created <= top
            /\ Pod.scheduled <= top /\ Pod.task.started <= top /\ Pod.task.finished <= top
    BY <1>2, CommonBound
  <2> QED
    BY <1>2, <2>1
<1>6. ASSUME NEW x \in all PROVE x \in Nat /\ x <= top
  <2> HIDE DEF N
  <2>1. CASE x \in rest
    BY <1>5, <2>1
  <2>2. CASE x \in started
    BY <1>1, <1>2, <1>3, <1>5, <2>2
  <2>3. CASE x \in finished
    BY <1>1, <1>2, <1>4, <1>5, <2>3
  <2> QED
    BY <1>6, <2>1, <2>2, <2>3
<1>7. Created \in all
  OBVIOUS
<1>8. Max(all) \in all /\ \A x \in all : x <= Max(all)
  <2> HIDE DEF all
  <2>1. all \in SUBSET Nat /\ all # {}
    BY <1>6, <1>7
  <2> QED
    BY <1>5, <1>6, <2>1, MaxNat
<1>9. LastTime = Max(all)
  BY DEF LastTime
<1>10. Max(all) \in Nat
  BY <1>6, <1>8
<1>11. /\ Pod.scheduled \in all /\ Pod.task.started \in all
       /\ \A i \in DOMAIN kinds : Pod.init[i].started \in all /\ Pod.init[i].finished \in all
  OBVIOUS
<1> HIDE DEF all
<1> QED
  BY <1>2, <1>7, <1>8, <1>9, <1>10, <1>11

\* A formula about a pod is about the same init containers after a step that
\* keeps them.
LEMMA SameKinds ==
    ASSUME kinds' = kinds
    PROVE  /\ PodStates' = PodStates
           /\ \A pod : PodOrder(pod)' = PodOrder(pod)
           /\ \A old, new : Later(old, new)' = Later(old, new)
BY DEF PodStates, Containers, PodOrder, PassedBy, InitPassed, Succeeded, Later

\* The history stays as it is when neither it nor the init containers change.
LEMMA SameHistory ==
    ASSUME HistoryInv, UNCHANGED <<kinds, history>>
    PROVE  HistoryInv'
<1>1. history' \in Seq(PodStates') /\ kinds' \in InitLists /\ history' # <<>>
  BY SameKinds DEF HistoryInv
<1>2. ASSUME NEW n \in DOMAIN history PROVE PodOrder(history[n])'
  <2>1. PodOrder(history[n])
    BY DEF HistoryInv
  <2> QED
    BY <2>1 DEF PodOrder, PassedBy, InitPassed, Succeeded
<1>3. ASSUME NEW m \in DOMAIN history, NEW n \in DOMAIN history, m <= n
      PROVE  Later(history[m], history[n])'
  <2>1. Later(history[m], history[n])
    BY <1>3 DEF HistoryInv
  <2> QED
    BY <2>1 DEF Later
<1> QED
  BY <1>1, <1>2, <1>3 DEF HistoryInv

\* A pod that follows the order and the pod before it may be added to the history.
LEMMA HistoryGrows ==
    ASSUME HistoryInv, NEW pod \in PodStates, PodOrder(pod), Later(Pod, pod), Change(pod)
    PROVE  /\ HistoryInv'
           /\ DOMAIN history \subseteq DOMAIN history' /\ Len(history) <= Len(history')
           /\ \A n \in DOMAIN history : history'[n] = history[n]
<1>1. history' = Append(history, pod) /\ kinds' = kinds
  BY DEF Change
<1>2. history \in Seq(PodStates) /\ Len(history) \in Nat \ {0}
  BY DEF HistoryInv
<1>3. /\ history' \in Seq(PodStates) /\ Len(history') = Len(history) + 1
      /\ history'[Len(history) + 1] = pod
      /\ \A n \in 1..Len(history) : history'[n] = history[n]
      /\ DOMAIN history = 1..Len(history) /\ DOMAIN history' = 1..(Len(history) + 1)
  BY <1>1, <1>2
<1>4. ASSUME NEW n \in DOMAIN history' PROVE PodOrder(history'[n])
  BY <1>2, <1>3 DEF HistoryInv
<1>5. ASSUME NEW m \in DOMAIN history', NEW n \in DOMAIN history', m <= n
      PROVE  Later(history'[m], history'[n])
  <2>1. CASE n \in DOMAIN history
    BY <1>2, <1>3, <1>5, <2>1 DEF HistoryInv
  <2>2. CASE m = Len(history) + 1 /\ n = Len(history) + 1
    BY <1>3, <2>2 DEF Later
  <2>3. CASE m \in DOMAIN history /\ n = Len(history) + 1
    <3>1. Later(history[m], Pod)
      <4>1. Len(history) \in DOMAIN history /\ m <= Len(history)
        BY <1>2, <1>3, <2>3
      <4> QED
        BY <2>3, <4>1 DEF HistoryInv, Pod, Last
    <3>2. history[m] \in PodStates /\ Pod \in PodStates
      <4>1. Len(history) \in DOMAIN history
        BY <1>2, <1>3
      <4> QED
        BY <1>2, <2>3, <4>1 DEF Pod, Last
    <3>3. Later(history[m], pod)
      BY <3>1, <3>2 DEF Later
    <3> QED
      BY <1>3, <2>3, <3>3
  <2> QED
    BY <1>2, <1>3, <1>5, <2>1, <2>2, <2>3
<1>6. history' # <<>> /\ kinds' \in InitLists
  BY <1>1, <1>2, <1>3 DEF HistoryInv
<1>7. history' \in Seq(PodStates')
  BY <1>1, <1>3, SameKinds
<1>8. \A n \in DOMAIN history' : PodOrder(history[n])'
  <2> TAKE n \in DOMAIN history'
  <2>1. PodOrder(history'[n])
    BY <1>4
  <2> QED
    BY <1>1, <2>1 DEF PodOrder, PassedBy, InitPassed, Succeeded
<1>9. \A m, n \in DOMAIN history' : m <= n => Later(history[m], history[n])'
  <2> TAKE m, n \in DOMAIN history'
  <2> QED
    BY <1>1, <1>5 DEF Later
<1> QED
  BY <1>2, <1>3, <1>6, <1>7, <1>8, <1>9 DEF HistoryInv

\* The steps of the scheduler and of the kubelet.
PodStep ==
    \/ SchedulePod \/ StartTask \/ EndTask
    \/ \E i \in DOMAIN kinds : \/ StartInit(i) \/ StopNative(i)
                               \/ \E failed \in BOOLEAN : EndInit(i, failed)

\* Each of them keeps the order of the pod's times, and those that are set.
LEMMA PodMoves ==
    ASSUME HistoryInv, PodStep
    PROVE  \E pod \in PodStates : PodOrder(pod) /\ Later(Pod, pod) /\ Change(pod)
<1>1. kinds \in Seq(Kinds) /\ Pod \in PodStates /\ PodOrder(Pod)
  <2>1. history \in Seq(PodStates) /\ Len(history) \in DOMAIN history
    BY DEF HistoryInv
  <2> QED
    BY <2>1, SetupAssumption DEF HistoryInv, Pod, Last
<1>2. \A now \in Times :
          /\ now \in Nat /\ now # 0
          /\ Pod.scheduled <= now
          /\ \A i \in DOMAIN kinds : Pod.init[i].started <= now /\ Pod.init[i].finished <= now
  BY <1>1, LastTimeBounds DEF Times, Created, PodStates, Containers
<1>3. \A i \in DOMAIN kinds : i \in Nat /\ \A j \in 1..(i - 1) : j \in DOMAIN kinds
  BY <1>1
<1>4. CASE SchedulePod
  <2>1. PICK now \in Times : Pod.scheduled = 0 /\ Change([Pod EXCEPT !.scheduled = now])
    BY <1>4 DEF SchedulePod
  <2> DEFINE pod == [Pod EXCEPT !.scheduled = now]
  <2>2. /\ pod \in PodStates /\ pod.scheduled = now
        /\ pod.init = Pod.init /\ pod.task = Pod.task
    BY <1>1, <1>2 DEF PodStates
  <2> HIDE DEF pod
  <2>3. PodOrder(pod) /\ Later(Pod, pod)
    BY <1>1, <2>1, <2>2 DEF PodOrder, PassedBy, InitPassed, Succeeded, Later
  <2> QED
    BY <2>1, <2>2, <2>3 DEF pod
<1>5. CASE StartTask
  <2>1. PICK now \in Times : /\ Pod.scheduled # 0 /\ Pod.task.started = 0
                             /\ \A i \in DOMAIN kinds : InitPassed(Pod, i)
                             /\ Change([Pod EXCEPT !.task.started = now])
    BY <1>5 DEF StartTask
  <2> DEFINE pod == [Pod EXCEPT !.task.started = now]
  <2>2. /\ pod \in PodStates /\ pod.scheduled = Pod.scheduled /\ pod.init = Pod.init
        /\ pod.task.started = now
    BY <1>1, <1>2 DEF PodStates, Containers
  <2> HIDE DEF pod
  <2>3. PodOrder(pod) /\ Later(Pod, pod)
    BY <1>1, <1>2, <2>1, <2>2 DEF PodOrder, PassedBy, InitPassed, Succeeded, Later
  <2> QED
    BY <2>1, <2>2, <2>3 DEF pod
<1>6. CASE EndTask
  <2>1. PICK now \in Times : Change([Pod EXCEPT !.task.finished = now])
    BY <1>6 DEF EndTask
  <2> DEFINE pod == [Pod EXCEPT !.task.finished = now]
  <2>2. /\ pod \in PodStates /\ pod.scheduled = Pod.scheduled /\ pod.init = Pod.init
        /\ pod.task.started = Pod.task.started
    BY <1>1, <1>2 DEF PodStates, Containers
  <2> HIDE DEF pod
  <2>3. PodOrder(pod) /\ Later(Pod, pod)
    BY <1>1, <2>1, <2>2 DEF PodOrder, PassedBy, InitPassed, Succeeded, Later
  <2> QED
    BY <2>1, <2>2, <2>3 DEF pod
<1>7. ASSUME NEW i \in DOMAIN kinds, StartInit(i)
      PROVE  \E pod \in PodStates : PodOrder(pod) /\ Later(Pod, pod) /\ Change(pod)
  <2>1. PICK now \in Times : /\ Pod.init[i].started = 0
                             /\ \A j \in 1..(i - 1) : InitPassed(Pod, j)
                             /\ Change([Pod EXCEPT !.init[i].started = now])
    BY <1>7 DEF StartInit
  <2> DEFINE pod == [Pod EXCEPT !.init[i].started = now]
  <2>2. /\ pod \in PodStates /\ pod.scheduled = Pod.scheduled /\ pod.task = Pod.task
        /\ pod.init[i].started = now /\ pod.init[i].finished = Pod.init[i].finished
        /\ pod.init[i].failed = Pod.init[i].failed
        /\ \A j \in DOMAIN kinds \ {i} : pod.init[j] = Pod.init[j]
    BY <1>1, <1>2 DEF PodStates, Containers
  <2> HIDE DEF pod
  <2>3. Pod.init[i].finished = 0 /\ ~InitPassed(Pod, i)
    BY <1>1, <2>1 DEF PodOrder, InitPassed, Succeeded
  <2>4. Later(Pod, pod)
    BY <2>1, <2>2, <2>3 DEF Later
  <2>5. ASSUME NEW k \in DOMAIN kinds, pod.init[k].started # 0, NEW j \in 1..(k - 1)
        PROVE  PassedBy(pod, j, pod.init[k].started)
    <3>1. j \in DOMAIN kinds /\ j # k
      BY <1>3
    <3>2. CASE k = i
      <4>1. InitPassed(Pod, j) /\ pod.init[j] = Pod.init[j]
        BY <2>1, <2>2, <3>1, <3>2
      <4> QED
        BY <1>2, <2>2, <3>1, <3>2, <4>1 DEF PassedBy, InitPassed
    <3>3. CASE k # i
      <4>1. PassedBy(Pod, j, Pod.init[k].started) /\ pod.init[k] = Pod.init[k]
        BY <1>1, <2>2, <2>5, <3>3 DEF PodOrder
      <4>2. pod.init[j] = Pod.init[j]
        BY <2>2, <2>3, <3>1, <4>1 DEF PassedBy
      <4> QED
        BY <4>1, <4>2 DEF PassedBy, InitPassed
    <3> QED
      BY <3>2, <3>3
  <2>6. ASSUME pod.task.started # 0, NEW j \in DOMAIN kinds
        PROVE  PassedBy(pod, j, pod.task.started)
    <3>1. PassedBy(Pod, j, Pod.task.started)
      BY <1>1, <2>2, <2>6 DEF PodOrder
    <3>2. pod.init[j] = Pod.init[j]
      BY <2>2, <2>3, <3>1 DEF PassedBy
    <3> QED
      BY <2>2, <3>1, <3>2 DEF PassedBy, InitPassed
  <2>7. PodOrder(pod)
    BY <1>1, <1>2, <2>1, <2>2, <2>3, <2>5, <2>6 DEF PodOrder
  <2> QED
    BY <2>1, <2>2, <2>4, <2>7 DEF pod
<1>8. ASSUME NEW i \in DOMAIN kinds, NEW failed \in BOOLEAN, EndInit(i, failed)
      PROVE  \E pod \in PodStates : PodOrder(pod) /\ Later(Pod, pod) /\ Change(pod)
  <2>1. PICK now \in Times :
            /\ Pod.init[i].started # 0 /\ Pod.init[i].finished = 0 /\ kinds[i] # "native"
            /\ Change([Pod EXCEPT !.init[i].finished = now, !.init[i].failed = failed])
    BY <1>8 DEF EndInit, Running
  <2> DEFINE pod == [Pod EXCEPT !.init[i].finished = now, !.init[i].failed = failed]
  <2>2. /\ pod \in PodStates /\ pod.scheduled = Pod.scheduled /\ pod.task = Pod.task
        /\ pod.init[i].started = Pod.init[i].started /\ pod.init[i].finished = now
        /\ \A j \in DOMAIN kinds \ {i} : pod.init[j] = Pod.init[j]
    BY <1>1, <1>2 DEF PodStates, Containers
  <2> HIDE DEF pod
  <2>3. ~InitPassed(Pod, i)
    BY <2>1 DEF InitPassed, Succeeded
  <2>4. Later(Pod, pod)
    BY <2>1, <2>2 DEF Later
  <2>5. ASSUME NEW k \in DOMAIN kinds, pod.init[k].started # 0, NEW j \in 1..(k - 1)
        PROVE  PassedBy(pod, j, pod.init[k].started)
    <3>1. j \in DOMAIN kinds /\ j # k
      BY <1>3
    <3>2. pod.init[k].started = Pod.init[k].started
      BY <2>2
    <3>3. PassedBy(Pod, j, Pod.init[k].started)
      BY <1>1, <2>5, <3>2 DEF PodOrder
    <3>4. pod.init[j] = Pod.init[j]
      BY <2>2, <2>3, <3>1, <3>3 DEF PassedBy
    <3> QED
      BY <3>2, <3>3, <3>4 DEF PassedBy, InitPassed
  <2>6. ASSUME pod.task.started # 0, NEW j \in DOMAIN kinds
        PROVE  PassedBy(pod, j, pod.task.started)
    <3>1. PassedBy(Pod, j, Pod.task.started)
      BY <1>1, <2>2, <2>6 DEF PodOrder
    <3>2. pod.init[j] = Pod.init[j]
      BY <2>2, <2>3, <3>1 DEF PassedBy
    <3> QED
      BY <2>2, <3>1, <3>2 DEF PassedBy, InitPassed
  <2>7. PodOrder(pod)
    BY <1>1, <1>2, <2>1, <2>2, <2>3, <2>5, <2>6 DEF PodOrder
  <2> QED
    BY <2>1, <2>2, <2>4, <2>7 DEF pod
<1>9. ASSUME NEW i \in DOMAIN kinds, StopNative(i)
      PROVE  \E pod \in PodStates : PodOrder(pod) /\ Later(Pod, pod) /\ Change(pod)
  <2>1. PICK now \in Times :
            /\ Pod.init[i].started # 0 /\ Pod.init[i].finished = 0 /\ kinds[i] = "native"
            /\ Change([Pod EXCEPT !.init[i].finished = now])
    BY <1>9 DEF StopNative, Running
  <2> DEFINE pod == [Pod EXCEPT !.init[i].finished = now]
  <2>2. /\ pod \in PodStates /\ pod.scheduled = Pod.scheduled /\ pod.task = Pod.task
        /\ pod.init[i].started = Pod.init[i].started /\ pod.init[i].finished = now
        /\ pod.init[i].failed = Pod.init[i].failed
        /\ \A j \in DOMAIN kinds \ {i} : pod.init[j] = Pod.init[j]
    BY <1>1, <1>2 DEF PodStates, Containers
  <2> HIDE DEF pod
  <2>4. Later(Pod, pod)
    BY <2>1, <2>2 DEF Later
  <2>5. ASSUME NEW j \in DOMAIN kinds, NEW time, PassedBy(Pod, j, time)
        PROVE  PassedBy(pod, j, time)
    <3>1. CASE j = i
      BY <2>1, <2>2, <2>5, <3>1 DEF PassedBy, InitPassed
    <3>2. CASE j # i
      BY <2>2, <2>5, <3>2 DEF PassedBy, InitPassed
    <3> QED
      BY <3>1, <3>2
  <2>6. ASSUME NEW k \in DOMAIN kinds, pod.init[k].started # 0, NEW j \in 1..(k - 1)
        PROVE  PassedBy(pod, j, pod.init[k].started)
    <3>1. pod.init[k].started = Pod.init[k].started /\ j \in DOMAIN kinds
      BY <1>3, <2>2
    <3>2. PassedBy(Pod, j, Pod.init[k].started)
      BY <1>1, <2>6, <3>1 DEF PodOrder
    <3> QED
      BY <2>5, <3>1, <3>2
  <2>7. PodOrder(pod)
    BY <1>1, <1>2, <2>1, <2>2, <2>5, <2>6 DEF PodOrder
  <2> QED
    BY <2>1, <2>2, <2>4, <2>7 DEF pod
<1> QED
  BY <1>4, <1>5, <1>6, <1>7, <1>8, <1>9 DEF PodStep

-----------------------------------------------------------------------------
\* The phases of a pod.

\* The phases for event e that a tracker which has reported none takes from the
\* pod.
Measured(pod, e) ==
    {v \in Intervals(pod) :
        v.key = <<e, 0>> /\ v.start # 0 /\ v.finish # 0 /\ v.finish >= v.start}

\* A call of observePod reports, for an event that has not been reported, what
\* the pod measures.
LEMMA NewlyReported ==
    ASSUME NEW pod, NEW e
    PROVE  {v \in Complete(Usable(tracker, Intervals(pod))) : v.key = <<e, 0>>} =
               IF <<e, 0>> \in tracker.reported THEN {} ELSE Measured(pod, e)
BY DEF Complete, Usable, Measured

\* The intervals of each observe method have its event for a key.
LEMMA EventKeys ==
    ASSUME NEW pod
    PROVE  /\ \A v \in SchedulePhase(pod) : v.key = <<"pod_schedule", 0>>
           /\ \A v \in SidecarPhase(pod) : v.key = <<"sidecar_prep", 0>>
           /\ \A v \in SetupPhase(pod) : v.key = <<"setup_command", 0>>
           /\ \A v \in TaskPhase(pod) : v.key = <<"container_start", 0>>
           /\ \A v \in InitIntervals(pod), e \in Events : v.key # <<e, 0>>
<1>1. \A v \in SchedulePhase(pod) : v.key = <<"pod_schedule", 0>>
  BY DEF SchedulePhase, Phase, Interval
<1>2. \A v \in SidecarPhase(pod) : v.key = <<"sidecar_prep", 0>>
  <2>1. \A v \in SidecarPhase(pod) : \E s, f, failed : v = Phase("sidecar_prep", s, f, failed)
    BY Zenon DEF SidecarPhase
  <2> QED
    BY <2>1 DEF Phase, Interval
<1>3. \A v \in SetupPhase(pod) : v.key = <<"setup_command", 0>>
  <2>1. \A v \in SetupPhase(pod) : \E s, f, failed : v = Phase("setup_command", s, f, failed)
    BY Zenon DEF SetupPhase
  <2> QED
    BY <2>1 DEF Phase, Interval
<1>4. \A v \in TaskPhase(pod) : v.key = <<"container_start", 0>>
  <2>1. \A v \in TaskPhase(pod) : \E s, f, failed : v = Phase("container_start", s, f, failed)
    BY Zenon DEF TaskPhase
  <2> QED
    BY <2>1 DEF Phase, Interval
<1>5. ASSUME NEW v \in InitIntervals(pod), NEW e \in Events PROVE v.key # <<e, 0>>
  <2>1. v.key[1] \in {"image_prepare", "init_container"}
    BY <1>5 DEF InitIntervals, Interval
  <2>2. <<e, 0>>[1] \notin {"image_prepare", "init_container"}
    BY DEF Events
  <2> QED
    BY <2>1, <2>2
<1> QED
  BY <1>1, <1>2, <1>3, <1>4, <1>5

\* The interval for an event comes from its observe method.
LEMMA IntervalsByEvent ==
    ASSUME NEW pod
    PROVE  \A v :
              /\ v \in Intervals(pod) /\ v.key = <<"pod_schedule", 0>> <=> v \in SchedulePhase(pod)
              /\ v \in Intervals(pod) /\ v.key = <<"sidecar_prep", 0>> <=> v \in SidecarPhase(pod)
              /\ v \in Intervals(pod) /\ v.key = <<"setup_command", 0>> <=> v \in SetupPhase(pod)
              /\ v \in Intervals(pod) /\ v.key = <<"container_start", 0>> <=> v \in TaskPhase(pod)
<1>1. \A v : v \in Intervals(pod) <=>
          \/ v \in SchedulePhase(pod) \/ v \in SidecarPhase(pod) \/ v \in SetupPhase(pod)
          \/ v \in TaskPhase(pod) \/ v \in InitIntervals(pod)
  BY DEF Intervals
<1>2. /\ <<"pod_schedule", 0>> # <<"sidecar_prep", 0>>
      /\ <<"pod_schedule", 0>> # <<"setup_command", 0>>
      /\ <<"pod_schedule", 0>> # <<"container_start", 0>>
      /\ <<"sidecar_prep", 0>> # <<"setup_command", 0>>
      /\ <<"sidecar_prep", 0>> # <<"container_start", 0>>
      /\ <<"setup_command", 0>> # <<"container_start", 0>>
  OBVIOUS
<1>3. \A v \in InitIntervals(pod) :
         /\ v.key # <<"pod_schedule", 0>> /\ v.key # <<"sidecar_prep", 0>>
         /\ v.key # <<"setup_command", 0>> /\ v.key # <<"container_start", 0>>
  BY EventKeys DEF Events
<1> QED
  BY <1>1, <1>2, <1>3, EventKeys, Zenon

\* observeSchedule measures the phase that the pod shows.
LEMMA ScheduleMeasured ==
    ASSUME NEW pod \in PodStates
    PROVE  Measured(pod, "pod_schedule") = Shown(pod, "pod_schedule")
<1> DEFINE phase == Phase("pod_schedule", Created, pod.scheduled, FALSE)
<1>1. /\ phase.start = Created /\ phase.finish = pod.scheduled
      /\ pod.scheduled \in Nat /\ Created = 1
  BY DEF Phase, Interval, PodStates, Created
<1>2. SchedulePhase(pod) = {phase}
  BY DEF SchedulePhase
<1>3. Shown(pod, "pod_schedule") = {phase : x \in {pod.scheduled} \ {0}}
  BY DEF Shown
<1> HIDE DEF phase
<1>4. Shown(pod, "pod_schedule") = IF pod.scheduled # 0 THEN {phase} ELSE {}
  BY <1>3
<1>5. \A v : v \in Measured(pod, "pod_schedule") <=> v = phase /\ pod.scheduled # 0
  BY <1>1, <1>2, IntervalsByEvent DEF Measured
<1> QED
  BY <1>4, <1>5

\* So does observeSetupCommand: a container that has ended has started before.
LEMMA SetupMeasured ==
    ASSUME NEW pod \in PodStates, PodOrder(pod)
    PROVE  Measured(pod, "setup_command") = Shown(pod, "setup_command")
<1> DEFINE phase(i) == Phase("setup_command", pod.init[i].started, pod.init[i].finished,
                             pod.init[i].failed)
           setups == {i \in DOMAIN kinds : kinds[i] = "setup"}
<1>1. \A i \in setups : /\ phase(i).start = pod.init[i].started
                        /\ phase(i).finish = pod.init[i].finished
                        /\ pod.init[i].finished # 0 =>
                              /\ pod.init[i].started # 0
                              /\ pod.init[i].finished >= pod.init[i].started
  BY DEF Phase, Interval, PodOrder, PodStates, Containers
<1>2. SetupPhase(pod) = {phase(i) : i \in setups}
  BY DEF SetupPhase
<1>3. Shown(pod, "setup_command") =
          {phase(i) : i \in {j \in DOMAIN kinds :
                                kinds[j] = "setup" /\ pod.init[j].finished # 0}}
  BY DEF Shown
<1>4. Shown(pod, "setup_command") = {phase(i) : i \in {j \in setups : pod.init[j].finished # 0}}
  BY <1>3
<1> HIDE DEF phase, setups
<1>5. \A v : v \in Measured(pod, "setup_command") <=>
          v \in SetupPhase(pod) /\ v.start # 0 /\ v.finish # 0 /\ v.finish >= v.start
  BY IntervalsByEvent DEF Measured
<1>6. \A v : v \in Measured(pod, "setup_command") <=>
          \E i \in setups : v = phase(i) /\ pod.init[i].finished # 0
  BY <1>1, <1>2, <1>5
<1> QED
  BY <1>4, <1>6

\* The last of some of the init containers.
LEMMA LastIndex ==
    ASSUME kinds \in Seq(Kinds), NEW S, S \subseteq DOMAIN kinds, S # {}
    PROVE  Max(S) \in S /\ \A i \in S : i <= Max(S)
<1>1. Len(kinds) \in Nat /\ S \in SUBSET Nat /\ \A i \in S : i <= Len(kinds)
  OBVIOUS
<1> QED
  BY <1>1, MaxNat

\* The anchor of the task start is the end of the last init container that is
\* not a native sidecar, as long as no native sidecar has stopped.
LEMMA TaskAnchor ==
    ASSUME kinds \in Seq(Kinds), NEW pod \in PodStates, PodOrder(pod), ~NativeStopped(pod),
           pod.task.started # 0,
           NEW steps, steps = {i \in DOMAIN kinds : kinds[i] # "native"}
    PROVE  /\ taskStartAnchor(pod) =
                 IF steps = {} THEN pod.scheduled ELSE pod.init[Max(steps)].finished
           /\ taskStartAnchor(pod) # 0 /\ taskStartAnchor(pod) <= pod.task.started
<1> DEFINE finished == {pod.init[i].finished : i \in DOMAIN kinds} \ {0}
<1>1. taskStartAnchor(pod) =
          IF finished # {} THEN Max(finished)
          ELSE IF pod.scheduled # 0 THEN pod.scheduled ELSE Created
  BY DEF taskStartAnchor
<1>2. pod.scheduled # 0 /\ pod.scheduled <= pod.task.started
  BY DEF PodOrder
<1>3. \A i \in steps : /\ pod.init[i].finished \in Nat \ {0}
                       /\ pod.init[i].finished <= pod.task.started
                       /\ i \in DOMAIN kinds
  BY DEF PodOrder, PassedBy, InitPassed, Succeeded, PodStates, Containers
<1>4. \A i \in DOMAIN kinds \ steps : pod.init[i].finished = 0
  BY DEF NativeStopped
<1>5. CASE steps = {}
  <2>1. finished = {}
    BY <1>4, <1>5
  <2> HIDE DEF finished
  <2> QED
    BY <1>1, <1>2, <1>5, <2>1
<1>6. CASE steps # {}
  <2> DEFINE z == Max(steps)
  <2>1. z \in steps /\ \A i \in steps : i <= z
    BY <1>6, LastIndex
  <2> HIDE DEF z
  <2>2. pod.init[z].finished \in finished
    BY <1>3, <2>1
  <2>3. ASSUME NEW i \in steps PROVE pod.init[i].finished <= pod.init[z].finished
    <3>1. CASE i = z
      BY <1>3, <2>1, <3>1
    <3>2. CASE i # z
      <4>1. i \in 1..(z - 1) /\ kinds[i] # "native"
        BY <1>3, <2>1, <3>2
      <4>2. /\ pod.init[z].started # 0 /\ pod.init[z].started <= pod.init[z].finished
            /\ pod.init[z].started \in Nat
        BY <1>3, <2>1 DEF PodOrder, PodStates, Containers
      <4>3. pod.init[i].finished <= pod.init[z].started
        BY <1>3, <2>1, <4>1, <4>2 DEF PodOrder, PassedBy
      <4> QED
        BY <1>3, <2>1, <4>2, <4>3
    <3> QED
      BY <3>1, <3>2
  <2>4. finished \in SUBSET Nat /\ \A y \in finished : y <= pod.init[z].finished
    <3>1. ASSUME NEW y \in finished PROVE y \in Nat /\ y <= pod.init[z].finished
      <4>1. PICK i \in DOMAIN kinds : y = pod.init[i].finished /\ y # 0
        OBVIOUS
      <4>2. i \in steps
        BY <1>4, <4>1
      <4> QED
        BY <1>3, <2>3, <4>1, <4>2
    <3> QED
      BY <3>1
  <2> HIDE DEF finished
  <2>5. Max(finished) = pod.init[z].finished
    BY <2>2, <2>4, MaxIs
  <2> QED
    BY <1>1, <1>3, <1>6, <2>1, <2>2, <2>5 DEF z
<1> QED
  BY <1>5, <1>6

\* observeTaskStart measures the phase that the pod shows, unless a native
\* sidecar has stopped.
LEMMA TaskMeasured ==
    ASSUME kinds \in Seq(Kinds), NEW pod \in PodStates, PodOrder(pod), ~NativeStopped(pod)
    PROVE  Measured(pod, "container_start") = Shown(pod, "container_start")
<1> DEFINE steps == {i \in DOMAIN kinds : kinds[i] # "native"}
           anchor == IF steps = {} THEN pod.scheduled ELSE pod.init[Max(steps)].finished
           phase == Phase("container_start", anchor, pod.task.started, FALSE)
           seen == Phase("container_start", taskStartAnchor(pod), pod.task.started, FALSE)
<1>1. Shown(pod, "container_start") = {phase : x \in {pod.task.started} \ {0}}
  BY DEF Shown
<1>2. TaskPhase(pod) = {seen} \/ (pod.task.started = 0 /\ TaskPhase(pod) = {})
  BY DEF TaskPhase
<1>3. /\ seen.start = taskStartAnchor(pod) /\ seen.finish = pod.task.started
      /\ pod.task.started \in Nat
  BY DEF Phase, Interval, PodStates, Containers
<1>4. pod.task.started # 0 =>
          /\ taskStartAnchor(pod) = anchor
          /\ taskStartAnchor(pod) # 0 /\ pod.task.started >= taskStartAnchor(pod)
  <2>1. \A x, y : x <= y => y >= x
    OBVIOUS
  <2> HIDE DEF anchor
  <2> QED
    BY TaskAnchor, <2>1 DEF anchor
<1>5. pod.task.started # 0 => seen = phase
  BY <1>4
<1> HIDE DEF phase, seen, anchor
<1>6. \A v : v \in Measured(pod, "container_start") <=>
          v \in TaskPhase(pod) /\ v.start # 0 /\ v.finish # 0 /\ v.finish >= v.start
  BY IntervalsByEvent DEF Measured
<1>7. \A v : v \in Measured(pod, "container_start") <=> v = phase /\ pod.task.started # 0
  BY <1>2, <1>3, <1>4, <1>5, <1>6
<1> QED
  BY <1>1, <1>7

\* Whatever it takes for the anchor, the phase ends with the task's start.
LEMMA StartMeasured ==
    ASSUME NEW pod
    PROVE  EndsWithStart(Measured(pod, "container_start"), pod)
<1>1. \A v \in Measured(pod, "container_start") : v \in TaskPhase(pod) /\ v.finish # 0
  BY IntervalsByEvent DEF Measured
<1>2. \A v \in TaskPhase(pod) : v.finish = pod.task.started
  <2>1. \A v \in TaskPhase(pod) :
            v = Phase("container_start", taskStartAnchor(pod), pod.task.started, FALSE)
    BY DEF TaskPhase
  <2> QED
    BY <2>1 DEF Phase, Interval
<1> QED
  BY <1>1, <1>2 DEF EndsWithStart

\* Of two copies, the later one starts after the earlier one has succeeded.
LEMMA CopiesInOrder ==
    ASSUME kinds \in Seq(Kinds), NEW pod \in PodStates, PodOrder(pod),
           NEW i \in CopyIndexes, NEW k \in CopyIndexes, i < k, pod.init[k].started # 0
    PROVE  /\ pod.init[i].started # 0 /\ pod.init[i].finished # 0 /\ ~pod.init[i].failed
           /\ pod.init[i].started <= pod.init[k].started
           /\ pod.init[i].finished <= pod.init[k].started
<1>1. i \in 1..(k - 1) /\ i \in DOMAIN kinds /\ kinds[i] # "native"
  BY DEF CopyIndexes
<1>2. PassedBy(pod, i, pod.init[k].started)
  BY <1>1 DEF PodOrder, CopyIndexes
<1> QED
  BY <1>1, <1>2 DEF PassedBy, InitPassed, Succeeded, PodOrder

\* The copy that ends the phase: the one that failed, or the last.
LEMMA SidecarEnd ==
    ASSUME kinds \in Seq(Kinds), NEW pod \in PodStates, PodOrder(pod), CopyIndexes # {},
           NEW last, last = EndingCopy(pod)
    PROVE  /\ last \in CopyIndexes
           /\ \A i \in FailedCopies(pod) : i = last
           /\ FailedCopies(pod) = {} => last = Max(CopyIndexes)
           /\ FailedCopies(pod) # {} => pod.init[last].failed /\ pod.init[last].finished # 0
           /\ pod.init[last].finished # 0 =>
                 \A i \in CopyIndexes : pod.init[i].finished <= pod.init[last].finished
           /\ pod.init[last].finished # 0 /\ FailedCopies(pod) = {} =>
                 \A i \in CopyIndexes : pod.init[i].finished # 0
<1> DEFINE failed == FailedCopies(pod)
<1>0. /\ \A i : i \in failed <=> i \in CopyIndexes /\ pod.init[i].failed
      /\ last = IF failed # {} THEN Min(failed) ELSE Max(CopyIndexes)
  BY DEF FailedCopies, EndingCopy
<1> HIDE DEF failed
<1>1. \A i \in CopyIndexes : /\ i \in Nat /\ i \in DOMAIN kinds
                             /\ pod.init[i].started \in Nat /\ pod.init[i].finished \in Nat
  BY DEF CopyIndexes, PodStates, Containers
<1>2. \A i \in CopyIndexes :
          /\ pod.init[i].finished # 0 =>
                pod.init[i].started # 0 /\ pod.init[i].started <= pod.init[i].finished
          /\ pod.init[i].failed => pod.init[i].finished # 0
  BY <1>1 DEF PodOrder
<1>3. ASSUME failed # {}
      PROVE  last \in failed /\ \A i \in CopyIndexes : i > last => pod.init[i].started = 0
  <2>1. failed \in SUBSET Nat
    BY <1>0, <1>1
  <2>2. last \in failed
    BY <1>0, <1>3, <2>1, MinNat
  <2> QED
    BY <1>0, <1>1, <2>2, CopiesInOrder
<1>4. ASSUME failed = {}
      PROVE  last \in CopyIndexes /\ \A i \in CopyIndexes : i <= last
  <2>1. CopyIndexes \subseteq DOMAIN kinds /\ last = Max(CopyIndexes)
    BY <1>0, <1>4 DEF CopyIndexes
  <2> QED
    BY <2>1, LastIndex
<1>5. last \in CopyIndexes
  BY <1>0, <1>3, <1>4
<1>6. ASSUME NEW i \in failed PROVE i = last
  <2>1. last \in failed /\ i \in CopyIndexes /\ i \in Nat /\ last \in Nat
    BY <1>0, <1>1, <1>3, <1>6
  <2>2. pod.init[i].started # 0 /\ pod.init[last].started # 0
    BY <1>0, <1>2, <1>6, <2>1
  <2>3. ~(i < last)
    BY <1>0, <1>6, <2>1, <2>2, CopiesInOrder
  <2> QED
    BY <1>3, <1>6, <2>1, <2>2, <2>3
<1>7. ASSUME pod.init[last].finished # 0, NEW i \in CopyIndexes
      PROVE  /\ pod.init[i].finished <= pod.init[last].finished
             /\ failed = {} => pod.init[i].finished # 0
  <2>1. pod.init[last].started # 0 /\ pod.init[last].started <= pod.init[last].finished
    BY <1>2, <1>5, <1>7
  <2> DEFINE s == pod.init[last].started
             f == pod.init[last].finished
             g == pod.init[i].finished
  <2>0. s \in Nat /\ f \in Nat /\ g \in Nat /\ i \in Nat /\ last \in Nat
    BY <1>1, <1>5
  <2>2. CASE i < last
    <3>1. g # 0 /\ g <= s /\ s <= f
      BY <1>5, <2>1, <2>2, CopiesInOrder
    <3> HIDE DEF s, f, g
    <3>2. g <= f
      BY <2>0, <3>1
    <3> QED
      BY <3>1, <3>2 DEF f, g
  <2>3. CASE i = last
    <3>1. g = f
      BY <2>3
    <3>2. f <= f
      BY <2>0
    <3> QED
      BY <1>7, <3>1, <3>2
  <2>4. CASE i > last
    <3>1. failed # {}
      <4>1. ~(i <= last)
        BY <2>0, <2>4
      <4> QED
        BY <1>4, <4>1
    <3>2. pod.init[i].started = 0
      BY <1>3, <2>4, <3>1
    <3>3. g = 0
      BY <1>2, <3>2
    <3>4. 0 <= f
      BY <2>0
    <3> QED
      BY <3>1, <3>3, <3>4
  <2>5. i < last \/ i = last \/ i > last
    BY <2>0
  <2> QED
    BY <2>2, <2>3, <2>4, <2>5
<1> QED
  BY <1>0, <1>2, <1>3, <1>4, <1>5, <1>6, <1>7 DEF failed

\* The first copy starts first.
LEMMA SidecarStart ==
    ASSUME kinds \in Seq(Kinds), NEW pod \in PodStates, PodOrder(pod),
           NEW i \in CopyIndexes, pod.init[i].started # 0
    PROVE  /\ Min(CopyIndexes) \in CopyIndexes
           /\ pod.init[Min(CopyIndexes)].started # 0
           /\ Earliest({c.started : c \in Copies(pod)}) = pod.init[Min(CopyIndexes)].started
           /\ pod.init[Min(CopyIndexes)].started <= pod.init[i].started
<1> DEFINE a == Min(CopyIndexes)
           starts == {c.started : c \in Copies(pod)}
<1>1. \A k \in CopyIndexes : k \in Nat /\ k \in DOMAIN kinds /\ pod.init[k].started \in Nat
  BY DEF CopyIndexes, PodStates, Containers
<1>2. a \in CopyIndexes /\ \A k \in CopyIndexes : a <= k
  <2>1. CopyIndexes \in SUBSET Nat
    BY <1>1
  <2> QED
    BY <2>1, MinNat
<1> HIDE DEF a
<1>3. ASSUME NEW k \in CopyIndexes, pod.init[k].started # 0
      PROVE  pod.init[a].started # 0 /\ pod.init[a].started <= pod.init[k].started
  <2>1. CASE a = k
    BY <1>1, <1>3, <2>1
  <2>2. CASE a # k
    <3>1. a < k
      BY <1>1, <1>2, <2>2
    <3> QED
      BY <1>2, <1>3, <3>1, CopiesInOrder
  <2> QED
    BY <2>1, <2>2
<1>4. \A s : s \in starts <=> \E k \in CopyIndexes : s = pod.init[k].started
  BY DEF Copies, CopyIndexes
<1> HIDE DEF starts
<1>5. pod.init[a].started # 0 /\ pod.init[a].started <= pod.init[i].started
  BY <1>3
<1>6. /\ starts \ {0} \in SUBSET Nat /\ pod.init[a].started \in starts \ {0}
      /\ \A s \in starts \ {0} : pod.init[a].started <= s
  <2>1. ASSUME NEW s \in starts \ {0} PROVE s \in Nat /\ pod.init[a].started <= s
    <3>1. PICK k \in CopyIndexes : s = pod.init[k].started
      BY <1>4
    <3> QED
      BY <1>1, <1>3, <3>1
  <2>2. pod.init[a].started \in starts \ {0}
    BY <1>2, <1>4, <1>5
  <2> QED
    BY <2>1, <2>2
<1>7. Min(starts \ {0}) = pod.init[a].started
  BY <1>6, MinIs
<1>8. Earliest(starts) = pod.init[a].started
  BY <1>6, <1>7 DEF Earliest
<1> QED
  BY <1>2, <1>5, <1>8 DEF a, starts

\* observeSidecarPrep measures the phase that the pod shows, although it looks at
\* the copies in no order.
LEMMA SidecarMeasured ==
    ASSUME kinds \in Seq(Kinds), NEW pod \in PodStates, PodOrder(pod)
    PROVE  Measured(pod, "sidecar_prep") = Shown(pod, "sidecar_prep")
<1> DEFINE failed == FailedCopies(pod)
           last == EndingCopy(pod)
           phase == Phase("sidecar_prep", pod.init[Min(CopyIndexes)].started,
                          pod.init[last].finished, failed # {})
           anyFailed == \E c \in Copies(pod) : c.failed
           over == anyFailed \/ \A c \in Copies(pod) : c.finished # 0
           start == Earliest({c.started : c \in Copies(pod)})
           end == Latest({c.finished : c \in Copies(pod)})
           seen == Phase("sidecar_prep", start, IF over THEN end ELSE 0, anyFailed)
<1>1. Shown(pod, "sidecar_prep") = {phase : x \in {j \in CopyIndexes : pod.init[last].finished # 0}}
  BY DEF Shown
<1>2. SidecarPhase(pod) = {seen}
  BY DEF SidecarPhase
<1>3. seen.start = start /\ seen.finish = IF over THEN end ELSE 0
  BY DEF Phase, Interval
<1>4. \A v : v \in Measured(pod, "sidecar_prep") <=>
          v = seen /\ start # 0 /\ over /\ end # 0 /\ end >= start
  <2> HIDE DEF seen, start, end, over
  <2>1. \A v : v \in Measured(pod, "sidecar_prep") <=>
            v \in SidecarPhase(pod) /\ v.start # 0 /\ v.finish # 0 /\ v.finish >= v.start
    BY IntervalsByEvent DEF Measured
  <2> QED
    BY <1>2, <1>3, <2>1
<1>5. Copies(pod) = {pod.init[i] : i \in CopyIndexes}
  BY DEF Copies, CopyIndexes
<1>6. anyFailed <=> failed # {}
  BY <1>5 DEF FailedCopies
<1>7. \A i \in CopyIndexes : /\ pod.init[i].started \in Nat /\ pod.init[i].finished \in Nat
                             /\ pod.init[i].finished # 0 =>
                                   /\ pod.init[i].started # 0
                                   /\ pod.init[i].started <= pod.init[i].finished
  BY DEF CopyIndexes, PodStates, Containers, PodOrder
<1>8. CASE CopyIndexes = {}
  <2>1. start = 0
    BY <1>5, <1>8 DEF Earliest
  <2> HIDE DEF seen, start, end, over
  <2> QED
    BY <1>1, <1>4, <1>8, <2>1
<1>9. CASE CopyIndexes # {}
  <2>1. /\ last \in CopyIndexes
        /\ failed # {} => pod.init[last].finished # 0
        /\ pod.init[last].finished # 0 =>
              \A i \in CopyIndexes : pod.init[i].finished <= pod.init[last].finished
        /\ pod.init[last].finished # 0 /\ failed = {} =>
              \A i \in CopyIndexes : pod.init[i].finished # 0
    BY <1>9, SidecarEnd
  <2>2. over <=> pod.init[last].finished # 0
    <3> HIDE DEF failed, last
    <3>1. over <=> failed # {} \/ \A i \in CopyIndexes : pod.init[i].finished # 0
      BY <1>5, <1>6
    <3> QED
      BY <2>1, <3>1
  <2> HIDE DEF failed, last
  <2>3. ASSUME pod.init[last].finished # 0
        PROVE  /\ start = pod.init[Min(CopyIndexes)].started
               /\ end = pod.init[last].finished
               /\ start # 0 /\ end >= start
    <3>1. pod.init[last].started # 0 /\ pod.init[last].started <= pod.init[last].finished
      BY <1>7, <2>1, <2>3
    <3>2. /\ start = pod.init[Min(CopyIndexes)].started /\ start # 0
          /\ start <= pod.init[last].started /\ start \in Nat
      BY <1>7, <2>1, <3>1, SidecarStart
    <3> DEFINE ends == {c.finished : c \in Copies(pod)} \cup {0}
    <3>3. \A y : y \in ends <=> y = 0 \/ \E i \in CopyIndexes : y = pod.init[i].finished
      BY <1>5
    <3>4. end = Max(ends)
      BY DEF Latest
    <3> HIDE DEF ends
    <3>5. /\ ends \in SUBSET Nat /\ pod.init[last].finished \in ends
          /\ \A y \in ends : y <= pod.init[last].finished
      BY <1>7, <2>1, <2>3, <3>3
    <3>6. end = pod.init[last].finished
      BY <3>4, <3>5, MaxIs
    <3> HIDE DEF start, end
    <3> QED
      BY <1>7, <2>1, <3>1, <3>2, <3>6
  <2>4. ASSUME pod.init[last].finished # 0 PROVE seen = phase
    <3>1. over /\ start = pod.init[Min(CopyIndexes)].started /\ end = pod.init[last].finished
      BY <2>2, <2>3, <2>4
    <3>2. anyFailed = (failed # {})
      BY <1>6
    <3> HIDE DEF over, start, end, anyFailed
    <3> QED
      BY <3>1, <3>2
  <2> HIDE DEF seen, phase, start, end, over
  <2>5. \A v : v \in Measured(pod, "sidecar_prep") <=> v = phase /\ pod.init[last].finished # 0
    BY <1>4, <2>2, <2>3, <2>4
  <2>6. \A v : v \in Shown(pod, "sidecar_prep") <=> v = phase /\ pod.init[last].finished # 0
    BY <1>1, <2>1
  <2> QED
    BY <2>5, <2>6
<1> QED
  BY <1>8, <1>9

\* What the tracker takes from a pod for an event is what the pod shows.
LEMMA MeasuredIsShown ==
    ASSUME kinds \in InitLists, NEW pod \in PodStates, PodOrder(pod), NEW e \in Events,
           e # "container_start" \/ ~NativeStopped(pod)
    PROVE  Measured(pod, e) = Shown(pod, e)
<1>1. kinds \in Seq(Kinds)
  BY SetupAssumption
<1> QED
  BY <1>1, ScheduleMeasured, SidecarMeasured, SetupMeasured, TaskMeasured DEF Events

\* A pod has one phase for an event.
LEMMA OnePhase ==
    ASSUME kinds \in InitLists, NEW pod, NEW e \in Events, NEW u \in Measured(pod, e),
           NEW v \in Measured(pod, e)
    PROVE  u = v
<1>1. \E w : SchedulePhase(pod) = {w}
  BY DEF SchedulePhase
<1>2. \E w : SidecarPhase(pod) = {w}
  BY Zenon DEF SidecarPhase
<1>3. \A x, y \in SetupPhase(pod) : x = y
  <2>1. \A i, j \in DOMAIN kinds : kinds[i] = "setup" /\ kinds[j] = "setup" => i = j
    BY SetupAssumption
  <2> QED
    BY <2>1 DEF SetupPhase
<1>4. \A x, y \in TaskPhase(pod) : x = y
  BY DEF TaskPhase
<1>5. /\ u \in Intervals(pod) /\ u.key = <<e, 0>>
      /\ v \in Intervals(pod) /\ v.key = <<e, 0>>
  BY DEF Measured
<1> QED
  BY <1>1, <1>2, <1>3, <1>4, <1>5, IntervalsByEvent DEF Events

\* A phase that a pod shows is shown by its later states.
LEMMA PhasesStay ==
    ASSUME kinds \in InitLists, NEW old \in PodStates, NEW new \in PodStates,
           PodOrder(old), PodOrder(new), Later(old, new), NEW e \in Events
    PROVE  Shown(old, e) \subseteq Shown(new, e)
<1>0. kinds \in Seq(Kinds)
  BY SetupAssumption
<1>1. CASE e = "pod_schedule"
  BY <1>1 DEF Shown, Later
<1>2. CASE e = "setup_command"
  <2> DEFINE ended(pod) == {j \in DOMAIN kinds : kinds[j] = "setup" /\ pod.init[j].finished # 0}
             phase(pod, i) == Phase("setup_command", pod.init[i].started,
                                    pod.init[i].finished, pod.init[i].failed)
  <2>1. /\ Shown(old, e) = {phase(old, i) : i \in ended(old)}
        /\ Shown(new, e) = {phase(new, i) : i \in ended(new)}
    BY <1>2 DEF Shown
  <2>2. \A i \in ended(old) : i \in ended(new) /\ phase(old, i) = phase(new, i)
    BY DEF Later
  <2> HIDE DEF ended, phase
  <2> QED
    BY <2>1, <2>2
<1>3. CASE e = "container_start"
  <2> DEFINE steps == {i \in DOMAIN kinds : kinds[i] # "native"}
             anchor(pod) == IF steps = {} THEN pod.scheduled ELSE pod.init[Max(steps)].finished
             phase(pod) == Phase("container_start", anchor(pod), pod.task.started, FALSE)
  <2>1. /\ Shown(old, e) = {phase(old) : x \in {old.task.started} \ {0}}
        /\ Shown(new, e) = {phase(new) : x \in {new.task.started} \ {0}}
    BY <1>3 DEF Shown
  <2>2. ASSUME old.task.started # 0
        PROVE  anchor(new) = anchor(old) /\ new.task.started = old.task.started
    <3>1. CASE steps = {}
      BY <2>2, <3>1 DEF PodOrder, Later
    <3>2. CASE steps # {}
      <4>1. Max(steps) \in steps
        BY <1>0, <3>2, LastIndex
      <4>2. old.init[Max(steps)].finished # 0
        BY <2>2, <4>1 DEF PodOrder, PassedBy, InitPassed, Succeeded
      <4>3. new.init[Max(steps)] = old.init[Max(steps)]
        BY <4>1, <4>2 DEF Later
      <4> QED
        BY <2>2, <3>2, <4>3 DEF Later
    <3> QED
      BY <3>1, <3>2
  <2>3. old.task.started # 0 => phase(old) = phase(new) /\ new.task.started # 0
    BY <2>2
  <2> HIDE DEF phase
  <2> QED
    BY <2>1, <2>3
<1>4. CASE e = "sidecar_prep"
  <2> DEFINE phase(pod) == Phase("sidecar_prep", pod.init[Min(CopyIndexes)].started,
                                 pod.init[EndingCopy(pod)].finished, FailedCopies(pod) # {})
  <2>1. /\ Shown(old, e) =
              {phase(old) : x \in {j \in CopyIndexes : old.init[EndingCopy(old)].finished # 0}}
        /\ Shown(new, e) =
              {phase(new) : x \in {j \in CopyIndexes : new.init[EndingCopy(new)].finished # 0}}
    BY <1>4 DEF Shown
  <2>2. ASSUME CopyIndexes # {}, old.init[EndingCopy(old)].finished # 0
        PROVE  phase(old) = phase(new) /\ new.init[EndingCopy(new)].finished # 0
    <3>0. CopyIndexes # {} /\ \A i \in CopyIndexes : i \in DOMAIN kinds
      BY <2>2 DEF CopyIndexes
    <3> DEFINE l == EndingCopy(old)
               m == EndingCopy(new)
               F == FailedCopies(old)
               G == FailedCopies(new)
    <3>1. /\ l \in CopyIndexes
          /\ F = {} => l = Max(CopyIndexes)
          /\ F # {} => old.init[l].failed
          /\ F = {} => \A i \in CopyIndexes : old.init[i].finished # 0
      BY <1>0, <2>2, <3>0, SidecarEnd
    <3>2. /\ m \in CopyIndexes
          /\ \A i \in G : i = m
          /\ G = {} => m = Max(CopyIndexes)
      BY <1>0, <3>0, SidecarEnd
    <3>3. F # {} <=> \E i \in CopyIndexes : old.init[i].failed
      BY DEF FailedCopies
    <3>4. \A i : i \in G <=> i \in CopyIndexes /\ new.init[i].failed
      BY DEF FailedCopies
    <3>5. old.init[l].finished # 0
      BY <2>2
    <3> HIDE DEF F, G, l, m
    <3>6. new.init[l] = old.init[l]
      BY <3>0, <3>1, <3>5 DEF Later
    <3>7. m = l /\ (F # {} <=> G # {})
      <4>1. CASE F # {}
        BY <3>1, <3>2, <3>4, <3>6, <4>1
      <4>2. CASE F = {}
        <5>1. \A i \in CopyIndexes : new.init[i] = old.init[i]
          BY <3>0, <3>1, <4>2 DEF Later
        <5>2. G = {}
          BY <3>3, <3>4, <4>2, <5>1
        <5> QED
          BY <3>1, <3>2, <4>2, <5>2
      <4> QED
        BY <4>1, <4>2
    <3>8. new.init[Min(CopyIndexes)].started = old.init[Min(CopyIndexes)].started
      <4>1. old.init[l].started # 0
        BY <3>0, <3>1, <3>5 DEF PodOrder
      <4>2. Min(CopyIndexes) \in CopyIndexes /\ old.init[Min(CopyIndexes)].started # 0
        BY <1>0, <3>1, <4>1, SidecarStart
      <4> QED
        BY <3>0, <4>2 DEF Later
    <3>9. (F # {}) = (G # {}) /\ new.init[m].finished = old.init[l].finished
      BY <3>6, <3>7
    <3> QED
      BY <3>5, <3>8, <3>9 DEF F, G, l, m
  <2> HIDE DEF phase
  <2> QED
    BY <2>1, <2>2
<1> QED
  BY <1>1, <1>2, <1>3, <1>4 DEF Events

-----------------------------------------------------------------------------
\* The tracker of setup phases.

\* A pod shows the same phases after a step that keeps it.
LEMMA SamePod ==
    ASSUME kinds' = kinds, NEW n, history'[n] = history[n], NEW e
    PROVE  /\ Shown(history[n], e)' = Shown(history[n], e)
           /\ NativeStopped(history[n])' = NativeStopped(history[n])
BY DEF Shown, CopyIndexes, FailedCopies, EndingCopy, Phase, Interval, NativeStopped

\* The phases still match when neither they nor the newest pod have changed.
LEMMA SamePhases ==
    ASSUME PhasesMatchPod, UNCHANGED <<kinds, phases, newest>>,
           newest # 0 => history'[newest] = history[newest]
    PROVE  PhasesMatchPod'
<1>1. CASE newest = 0
  BY <1>1 DEF PhasesMatchPod
<1>2. CASE newest # 0
  <2>1. \A e \in Events : /\ Shown(history[newest], e)' = Shown(history[newest], e)
                          /\ NativeStopped(history[newest])' = NativeStopped(history[newest])
    BY <1>2, SamePod
  <2> QED
    BY <1>2, <2>1 DEF PhasesMatchPod
<1> QED
  BY <1>1, <1>2

\* The steps of the pod preserve the invariant.
LEMMA PodStepKeeps ==
    ASSUME SetupInv, PodStep
    PROVE  SetupInv'
<1>1. PICK pod \in PodStates : PodOrder(pod) /\ Later(Pod, pod) /\ Change(pod)
  BY PodMoves DEF SetupInv
<1>2. /\ HistoryInv' /\ Len(history) <= Len(history')
      /\ \A n \in DOMAIN history : history'[n] = history[n]
  BY <1>1, HistoryGrows DEF SetupInv
<1>3. UNCHANGED <<kinds, tracker, phases, newest>>
  BY <1>1 DEF Change
<1>4. history \in Seq(PodStates) /\ history' \in Seq(PodStates')
  BY <1>2 DEF SetupInv, HistoryInv
<1>5. newest \in 0..Len(history') /\ (newest # 0 => newest \in DOMAIN history)
  <2>1. Len(history) \in Nat /\ Len(history') \in Nat /\ DOMAIN history = 1..Len(history)
    BY <1>4
  <2> QED
    BY <1>2, <2>1 DEF SetupInv
<1>6. PhasesMatchPod'
  BY <1>2, <1>3, <1>5, SamePhases DEF SetupInv
<1> QED
  BY <1>2, <1>3, <1>5, <1>6 DEF SetupInv

\* A sequence of one element.
LEMMA SequenceOfOne ==
    ASSUME NEW v
    PROVE  ToSet(<<v>>) = {v} /\ Len(<<v>>) = 1 /\ <<v>>[1] = v /\ <<v>> # <<>>
BY DEF ToSet

\* What a call of observePod adds to the phases.
LEMMA PhaseAdded ==
    ASSUME SetupInv, NEW n \in DOMAIN history, observePod(n), NEW e \in Events
    PROVE  /\ <<e, 0>> \in tracker.reported =>
                 phases'[e] = phases[e] /\ <<e, 0>> \in tracker'.reported
           /\ <<e, 0>> \notin tracker.reported =>
                 \/ /\ Measured(history[n], e) = {} /\ phases'[e] = <<>>
                    /\ <<e, 0>> \notin tracker'.reported
                 \/ \E v : /\ Measured(history[n], e) = {v} /\ phases'[e] = <<v>>
                           /\ <<e, 0>> \in tracker'.reported
<1> DEFINE seen == Complete(Usable(tracker, Intervals(history[n])))
           added == {v \in seen : v.key = <<e, 0>>}
<1>1. ~tracker.done /\ phases'[e] = phases[e] \o SetToSeq(added)
  BY DEF observePod
<1>2. <<e, 0>> \in tracker'.reported <=> <<e, 0>> \in tracker.reported \/ added # {}
  <2>1. tracker'.reported = tracker.reported \cup Keys(seen)
    BY DEF observePod, SetupInv
  <2>2. <<e, 0>> \in Keys(seen) <=> added # {}
    BY DEF Keys
  <2> HIDE DEF seen, added
  <2> QED
    BY <2>1, <2>2
<1>3. added = IF <<e, 0>> \in tracker.reported THEN {} ELSE Measured(history[n], e)
  BY NewlyReported
<1> HIDE DEF added
<1>4. CASE <<e, 0>> \in tracker.reported
  <2>1. phases'[e] = phases[e] \o <<>>
    BY <1>1, <1>3, <1>4, SeqOfNone
  <2>2. phases[e] = <<>> \/ phases[e] = <<phases[e][1]>>
    BY DEF SetupInv
  <2>3. phases[e] \o <<>> = phases[e]
    <3>1. <<>> \o <<>> = <<>> /\ \A v : <<v>> \o <<>> = <<v>>
      OBVIOUS
    <3> QED
      BY <2>2, <3>1
  <2> QED
    BY <1>2, <1>4, <2>1, <2>3
<1>5. CASE <<e, 0>> \notin tracker.reported
  <2>1. phases[e] = <<>> /\ added = Measured(history[n], e)
    BY <1>1, <1>3, <1>5 DEF SetupInv
  <2>2. CASE added = {}
    <3>1. phases'[e] = <<>> \o <<>>
      BY <1>1, <2>1, <2>2, SeqOfNone
    <3>2. phases'[e] = <<>>
      BY <3>1
    <3> QED
      BY <1>2, <1>5, <2>1, <2>2, <3>2
  <2>3. CASE added # {}
    <3>1. PICK v : v \in added
      BY <2>3
    <3>2. added = {v}
      BY <2>1, <3>1, OnePhase DEF SetupInv, HistoryInv
    <3>3. phases'[e] = <<>> \o <<v>>
      BY <1>1, <2>1, <3>2, SeqOfOne
    <3>4. phases'[e] = <<v>>
      BY <3>3
    <3> QED
      BY <1>2, <1>5, <2>1, <2>3, <3>2, <3>4
  <2> QED
    BY <2>2, <2>3
<1> QED
  BY <1>4, <1>5

\* What observePod has reported for the start of the task ends with it, in the
\* newest pod as in those before.
LEMMA NewestStart ==
    ASSUME SetupInv, NEW n \in DOMAIN history, observePod(n), newest' \in DOMAIN history,
           NEW pod, pod = history[newest'], n <= newest', newest <= newest'
    PROVE  EndsWithStart(ToSet(phases'["container_start"]), pod)
<1> DEFINE e == "container_start"
<1>0. /\ e \in Events /\ newest \in 0..Len(history) /\ history \in Seq(PodStates)
      /\ DOMAIN history = 1..Len(history) /\ Len(history) \in Nat
  BY DEF SetupInv, HistoryInv, Events
<1>1. ASSUME NEW m \in DOMAIN history, m <= newest', NEW intervals,
             EndsWithStart(intervals, history[m])
      PROVE  EndsWithStart(intervals, pod)
  <2>1. Later(history[m], pod)
    BY <1>0, <1>1 DEF SetupInv, HistoryInv
  <2> QED
    BY <1>1, <2>1 DEF EndsWithStart, Later
<1>2. CASE <<e, 0>> \in tracker.reported
  <2>1. phases'[e] = phases[e] /\ phases[e] # <<>> /\ newest # 0
    BY <1>0, <1>2, PhaseAdded DEF SetupInv, PhasesMatchPod, observePod
  <2>2. newest \in DOMAIN history
    BY <1>0, <2>1
  <2>3. EndsWithStart(ToSet(phases[e]), history[newest])
    <3>1. \A v \in Shown(history[newest], e) :
              /\ history[newest].task.started # 0
              /\ \E s, f : v = Phase(e, s, history[newest].task.started, f)
      BY DEF Shown
    <3>2. EndsWithStart(Shown(history[newest], e), history[newest])
      BY <3>1 DEF EndsWithStart, Phase, Interval
    <3> QED
      BY <1>0, <2>1, <3>2 DEF SetupInv, PhasesMatchPod
  <2> QED
    BY <1>1, <2>1, <2>2, <2>3
<1>3. CASE <<e, 0>> \notin tracker.reported
  <2>1. ToSet(<<>>) = {} /\ \A v : ToSet(<<v>>) = {v}
    BY SequenceOfOne DEF ToSet
  <2>2. ToSet(phases'[e]) = Measured(history[n], e)
    <3>1. CASE Measured(history[n], e) = {} /\ phases'[e] = <<>>
      BY <2>1, <3>1
    <3>2. CASE \E v : Measured(history[n], e) = {v} /\ phases'[e] = <<v>>
      BY <2>1, <3>2
    <3> QED
      BY <1>0, <1>3, <3>1, <3>2, PhaseAdded
  <2> QED
    BY <1>1, <2>2, StartMeasured
<1> QED
  BY <1>2, <1>3

\* observePod leaves the phases of the newest pod it has seen.
LEMMA NewestPhase ==
    ASSUME SetupInv, NEW n \in DOMAIN history, observePod(n), NEW e \in Events,
           newest' \in DOMAIN history, NEW pod, pod = history[newest'],
           newest' = n \/ (newest' = newest /\ n <= newest /\ newest # 0),
           newest <= newest'
    PROVE  \/ ToSet(phases'[e]) = Shown(pod, e)
           \/ /\ e = "container_start" /\ NativeStopped(pod)
              /\ EndsWithStart(ToSet(phases'[e]), pod)
<1> SUFFICES ASSUME e # "container_start" \/ ~NativeStopped(pod)
             PROVE  ToSet(phases'[e]) = Shown(pod, e)
  <2>1. history \in Seq(PodStates) /\ newest \in 0..Len(history) /\ n <= newest'
    BY DEF SetupInv, HistoryInv
  <2>2. EndsWithStart(ToSet(phases'["container_start"]), pod)
    BY <2>1, NewestStart
  <2> QED
    BY <2>2
<1>0. /\ history \in Seq(PodStates) /\ kinds \in InitLists
      /\ \A m \in DOMAIN history : history[m] \in PodStates /\ PodOrder(history[m])
      /\ newest \in 0..Len(history) /\ DOMAIN history = 1..Len(history) /\ Len(history) \in Nat
  BY DEF SetupInv, HistoryInv
<1>1. ASSUME NEW m \in DOMAIN history, m <= newest'
      PROVE  /\ Measured(history[m], e) = Shown(history[m], e)
             /\ Shown(history[m], e) \subseteq Shown(pod, e)
             /\ ~NativeStopped(history[m]) \/ e # "container_start"
  <2>1. Later(history[m], pod)
    BY <1>0, <1>1 DEF SetupInv, HistoryInv
  <2>2. ~NativeStopped(history[m]) \/ e # "container_start"
    BY <2>1 DEF NativeStopped, Later
  <2> QED
    BY <1>0, <2>1, <2>2, MeasuredIsShown, PhasesStay
<1>2. ToSet(<<>>) = {}
  BY DEF ToSet
<1>3. newest # 0 => ToSet(phases[e]) = Shown(history[newest], e) /\ newest \in DOMAIN history
  <2>1. newest # 0 => newest \in DOMAIN history
    BY <1>0
  <2> QED
    BY <1>1, <2>1 DEF SetupInv, PhasesMatchPod
<1>4. Measured(pod, e) = Shown(pod, e)
  BY <1>0, <1>1
<1>5. CASE <<e, 0>> \in tracker.reported
  <2>1. /\ phases'[e] = phases[e] /\ phases[e] # <<>> /\ newest # 0
        /\ phases[e] = <<phases[e][1]>>
    BY <1>5, PhaseAdded DEF SetupInv, PhasesMatchPod, observePod
  <2>2. ToSet(phases[e]) # {} /\ ToSet(phases[e]) \subseteq Shown(pod, e)
    <3>1. newest \in DOMAIN history /\ newest <= newest'
      BY <1>3, <2>1
    <3>2. Shown(history[newest], e) \subseteq Shown(pod, e)
      BY <1>1, <3>1
    <3>3. PICK v : phases[e] = <<v>>
      BY <2>1
    <3>4. ToSet(phases[e]) = {v}
      BY <3>3, SequenceOfOne
    <3> QED
      BY <1>3, <2>1, <3>2, <3>4
  <2>3. \A u, v \in Shown(pod, e) : u = v
    BY <1>0, <1>4, OnePhase
  <2> QED
    BY <2>1, <2>2, <2>3
<1>6. CASE <<e, 0>> \notin tracker.reported
  <2>0. phases[e] = <<>>
    BY <1>6 DEF SetupInv, observePod
  <2>1. ToSet(phases'[e]) = Measured(history[n], e)
    <3>1. CASE Measured(history[n], e) = {} /\ phases'[e] = <<>>
      BY <1>2, <3>1
    <3>2. CASE \E v : Measured(history[n], e) = {v} /\ phases'[e] = <<v>>
      BY <3>2, SequenceOfOne
    <3> QED
      BY <1>6, <3>1, <3>2, PhaseAdded
  <2>2. CASE newest' = n
    BY <1>4, <2>1, <2>2
  <2>3. CASE newest' = newest /\ n <= newest /\ newest # 0
    <3>1. Shown(pod, e) = {}
      BY <1>2, <1>3, <2>0, <2>3
    <3>2. Measured(history[n], e) = {}
      BY <1>1, <2>3, <3>1
    <3> QED
      BY <2>1, <3>1, <3>2
  <2> QED
    BY <2>2, <2>3
<1> QED
  BY <1>5, <1>6

\* observePod preserves the invariant, whichever state of the pod it is shown.
LEMMA ObserveKeeps ==
    ASSUME SetupInv, NEW n \in DOMAIN history, observePod(n)
    PROVE  SetupInv'
<1>1. history \in Seq(PodStates) /\ newest \in 0..Len(history) /\ UNCHANGED <<kinds, history>>
  BY DEF SetupInv, HistoryInv, observePod
<1>2. n \in Nat /\ newest \in Nat /\ Len(history) \in Nat /\ n # 0 /\ n <= Len(history)
  BY <1>1
<1>3. /\ newest' \in DOMAIN history /\ newest' \in 0..Len(history) /\ newest' # 0
      /\ newest <= newest'
      /\ newest' = n \/ (newest' = newest /\ n <= newest /\ newest # 0)
  <2>1. newest' = Max({newest, n})
    BY DEF observePod
  <2>2. CASE n <= newest
    <3>1. newest' = newest
      BY <1>2, <2>1, <2>2, MaxIs
    <3> QED
      BY <1>1, <1>2, <2>2, <3>1
  <2>3. CASE newest < n
    <3>1. newest' = n
      BY <1>2, <2>1, <2>3, MaxIs
    <3> QED
      BY <1>1, <1>2, <2>3, <3>1
  <2> QED
    BY <1>2, <2>2, <2>3
<1>4. HistoryInv'
  BY <1>1, SameHistory DEF SetupInv
<1>5. /\ DOMAIN tracker' = {"reported", "live", "execution", "done"} /\ ~tracker'.done
      /\ DOMAIN phases' = Events /\ ~tracker.done
  BY DEF SetupInv, observePod
<1>6. ASSUME NEW e \in Events
      PROVE  /\ phases'[e] # <<>> => phases'[e] = <<phases'[e][1]>>
             /\ <<e, 0>> \in tracker'.reported <=> phases'[e] # <<>>
             /\ Len(phases'[e]) <= 1
  <2>1. \/ phases'[e] = <<>> /\ <<e, 0>> \notin tracker'.reported
        \/ \E v : phases'[e] = <<v>> /\ <<e, 0>> \in tracker'.reported
    <3>1. CASE <<e, 0>> \in tracker.reported
      <4>1. phases'[e] = phases[e] /\ <<e, 0>> \in tracker'.reported
        BY <3>1, PhaseAdded
      <4>2. phases[e] = <<phases[e][1]>>
        BY <1>5, <3>1 DEF SetupInv
      <4> QED
        BY <4>1, <4>2
    <3>2. CASE <<e, 0>> \notin tracker.reported
      BY <3>2, PhaseAdded
    <3> QED
      BY <3>1, <3>2
  <2>2. CASE phases'[e] = <<>> /\ <<e, 0>> \notin tracker'.reported
    <3>1. Len(phases'[e]) = 0
      BY <2>2
    <3> QED
      BY <2>2, <3>1
  <2>3. ASSUME NEW v, phases'[e] = <<v>>, <<e, 0>> \in tracker'.reported
        PROVE  /\ phases'[e] = <<phases'[e][1]>> /\ phases'[e] # <<>> /\ Len(phases'[e]) = 1
    BY <2>3, SequenceOfOne
  <2> QED
    BY <2>1, <2>2, <2>3
<1>7. PhasesMatchPod'
  <2> DEFINE pod == history[newest']
  <2>1. ASSUME NEW e \in Events
        PROVE  \/ ToSet(phases'[e]) = Shown(pod, e)
               \/ /\ e = "container_start" /\ NativeStopped(pod)
                  /\ EndsWithStart(ToSet(phases'[e]), pod)
    BY <1>3, <2>1, NewestPhase
  <2>2. ASSUME NEW e \in Events
        PROVE  Shown(history[newest], e)' = Shown(pod, e)
               /\ NativeStopped(history[newest])' = NativeStopped(pod)
    BY <1>1 DEF Shown, CopyIndexes, FailedCopies, EndingCopy, Phase, Interval, NativeStopped
  <2>3. ASSUME NEW e \in Events
        PROVE  EndsWithStart(ToSet(phases[e]), history[newest])'
                   <=> EndsWithStart(ToSet(phases'[e]), pod)
    BY <1>1 DEF EndsWithStart, ToSet
  <2> HIDE DEF pod
  <2> QED
    BY <1>3, <1>6, <2>1, <2>2, <2>3 DEF PhasesMatchPod
<1> QED
  BY <1>1, <1>3, <1>4, <1>5, <1>6, <1>7 DEF SetupInv

\* So does finish.
LEMMA FinishKeeps ==
    ASSUME SetupInv, FinishTracking
    PROVE  SetupInv'
<1>1. UNCHANGED <<kinds, history, phases, newest>>
  BY DEF FinishTracking
<1>2. DOMAIN tracker' = {"reported", "live", "execution", "done"} /\ tracker'.done
  BY DEF FinishTracking
<1>3. HistoryInv'
  BY <1>1, SameHistory DEF SetupInv
<1>4. PhasesMatchPod'
  BY <1>1, SamePhases DEF SetupInv
<1> QED
  BY <1>1, <1>2, <1>3, <1>4 DEF SetupInv

\* The invariant of the setup phases holds in every reachable state, for any
\* lists of init containers.
THEOREM SetupCorrect == Spec => []SetupInv
<1>1. Init => SetupInv
  <2> SUFFICES ASSUME Init PROVE SetupInv
    OBVIOUS
  <2>1. kinds \in InitLists
    BY SetupAssumption DEF Init, SetupInit, InitialChoice
  <2>2. /\ history = <<NewPod>> /\ newest = 0
        /\ phases = [e \in Events |-> <<>>] /\ tracker = NewTracker
    BY DEF Init, SetupInit
  <2>3. NewPod \in PodStates /\ PodOrder(NewPod) /\ Later(NewPod, NewPod)
    BY DEF NewPod, Unstarted, PodStates, Containers, PodOrder, Later
  <2>4. HistoryInv
    <3>1. history \in Seq(PodStates) /\ DOMAIN history = {1} /\ history[1] = NewPod
      BY <2>2, <2>3
    <3> QED
      BY <2>1, <2>2, <2>3, <3>1 DEF HistoryInv
  <2> QED
    BY <2>2, <2>4 DEF SetupInv, NewTracker, PhasesMatchPod
<1>2. SetupInv /\ [Next]_vars => SetupInv'
  <2> SUFFICES ASSUME SetupInv, [Next]_vars PROVE SetupInv'
    OBVIOUS
  <2>1. SetupNext \/ UNCHANGED setupVars
    BY Zenon DEF Next, vars, OnDocker, OnDirect, OnCommand, OnExits, OnSetup
  <2>2. CASE UNCHANGED setupVars
    <3>1. UNCHANGED <<kinds, history, tracker, phases, newest>>
      BY <2>2 DEF setupVars
    <3>2. HistoryInv'
      BY <3>1, SameHistory DEF SetupInv
    <3>3. PhasesMatchPod'
      BY <3>1, SamePhases DEF SetupInv
    <3> QED
      BY <3>1, <3>2, <3>3 DEF SetupInv
  <2>3. CASE SetupNext
    BY <2>3, PodStepKeeps, ObserveKeeps, FinishKeeps DEF SetupNext, PodStep
  <2> QED
    BY <2>1, <2>2, <2>3
<1> QED
  BY <1>1, <1>2, PTL DEF Spec

\* Whatever states of the pod kubernetesSetupPhaseTracker is shown, and in
\* whatever order, it reports each phase once and exactly as the newest of them
\* shows it; only the start of the task container, once a native sidecar is shown
\* as stopped, may be missing or begin at the wrong time, and even then ends right.
THEOREM PhasesMatch == Spec => []PhasesMatchPod
<1>1. SetupInv => PhasesMatchPod
  BY DEF SetupInv
<1> QED
  BY <1>1, SetupCorrect, PTL
=============================================================================
