---------------------------- MODULE DirectBackend ----------------------------
(***************************************************************************)
(* Runs on the Direct backend (internal/worker/direct.go): ExecuteTask     *)
(* makes a workspace directory, runs the setup command, the agent and the  *)
(* teardown command in it as processes of the host, and removes it.        *)
(* CancelTask does nothing; the end of the run's context stops the run.    *)
(* Shutdown removes every directory below the workspace root.              *)
(***************************************************************************)
EXTENDS BackendConfig, Subprocess

CONSTANT DirectRuns  \* what the server asks the backend to run: see Params

ASSUME DirectAssumption == DirectRuns \subseteq Params

VARIABLES
    direct,      \* each run's call of ExecuteTask
    hostProcess, \* the command each run is waiting for
    directories, \* the workspaces that exist
    swept        \* Shutdown has emptied the workspace root

directVars == <<direct, hostProcess, directories, swept>>

TargetDir == <<"target_dir">>
Live(p) == direct[p].ctx = "live"

\* Mutation: all executions of a task have one directory.
SharedWorkspace(p) ==
    IF config.targetDir THEN TargetDir ELSE <<p.taskID, p.standbyID>>

\* A legacy task has a directory of its own name; executions and standbys get
\* one that MkdirTemp makes unique.
WorkspaceDir(p) ==
    IF config.targetDir THEN TargetDir
    ELSE IF ~IsStandby(p) /\ p.executionID = Unset THEN <<p.taskID>>
    ELSE <<p.taskID, p.executionID, p.standbyID>>

At(p, pc) == direct' = [direct EXCEPT ![p].pc = pc]

NoCommand(p) == hostProcess' = [hostProcess EXCEPT ![p] = NoProcess]

\* Run a command in the workspace.
Launch(p) ==
    \E proc \in Launched(Live(p) /\ direct[p].dir \in directories) :
        hostProcess' = [hostProcess EXCEPT ![p] = proc]

\* The deferred cleanup, with what ExecuteTask is to return: the teardown
\* command, unless NoCleanup keeps a workspace, then the removal.
LeaveWorkspace(p, outcome) ==
    LET kept == config.noCleanup /\ ~config.targetDir
        next == IF kept THEN outcome
                ELSE IF config.hooks THEN "teardown"
                ELSE IF config.targetDir THEN outcome ELSE "remove"
    IN  /\ direct' = [direct EXCEPT ![p].pc = next, ![p].outcome = outcome]
        /\ IF next = "teardown" THEN Launch(p) ELSE NoCommand(p)

\* The agent is started, unless the variables that setup wrote are refused.
RunAgent(p) ==
    \/ At(p, "agent") /\ Launch(p)
    \/ LeaveWorkspace(p, "failed")

\* ExecuteTask up to the workspace.  It fails for a standby in a shared
\* directory, for IDs that cannot be a path, and when a directory cannot be made.
StartDirect(p) ==
    /\ direct[p].pc = "idle"
    /\ ~swept
    /\ \/ /\ ~(config.targetDir /\ IsStandby(p))
          /\ direct' = [direct EXCEPT ![p].pc = "environment", ![p].dir = WorkspaceDir(p)]
          /\ directories' = directories \cup {WorkspaceDir(p)}
       \/ At(p, "failed") /\ UNCHANGED directories
    /\ UNCHANGED <<hostProcess, swept>>

\* The environment file is made in the workspace; then comes the setup command.
RunSetup(p) ==
    /\ direct[p].pc = "environment"
    /\ \/ /\ direct[p].dir \in directories
          /\ IF config.hooks THEN At(p, "setup") /\ Launch(p) ELSE RunAgent(p)
       \/ LeaveWorkspace(p, "failed")
    /\ UNCHANGED <<directories, swept>>

\* The command the run is waiting for has returned.
HostCommandReturns(p) ==
    /\ direct[p].pc \in {"setup", "agent", "teardown"}
    /\ runTaskCommandReturns(hostProcess[p], config.collect, FALSE)
    /\ LET ok == hostProcess[p].child = "ok"
       IN  \/ direct[p].pc = "setup" /\ ok /\ RunAgent(p)
           \/ direct[p].pc = "setup" /\ ~ok /\ LeaveWorkspace(p, "failed")
           \/ direct[p].pc = "agent" /\ LeaveWorkspace(p, IF ok THEN "completed" ELSE "failed")
           \/ /\ direct[p].pc = "teardown"
              /\ At(p, IF config.targetDir THEN direct[p].outcome ELSE "remove")
              /\ NoCommand(p)
    /\ UNCHANGED <<directories, swept>>

\* RemoveAll, which may fail.
RemoveWorkspace(p) ==
    /\ direct[p].pc = "remove"
    /\ At(p, direct[p].outcome)
    /\ directories' \in {directories, directories \ {direct[p].dir}}
    /\ UNCHANGED <<hostProcess, swept>>

\* os/exec kills the command's process when the run's context has ended.
KillHostCommand(p) ==
    /\ ~Live(p)
    /\ hostProcess[p].child = "running"
    /\ hostProcess' = [hostProcess EXCEPT ![p].child = "failed"]
    /\ UNCHANGED <<direct, directories, swept>>

HostProcessMoves(p) ==
    /\ \E proc \in ProcessMoves(hostProcess[p]) \ {hostProcess[p]} :
            hostProcess' = [hostProcess EXCEPT ![p] = proc]
    /\ UNCHANGED <<direct, directories, swept>>

EndDirectContext(p) ==
    /\ Live(p)
    /\ direct[p].pc \notin {"idle", "completed", "failed"}
    /\ direct' = [direct EXCEPT ![p].ctx = "done"]
    /\ UNCHANGED <<hostProcess, directories, swept>>

\* Shutdown.  The worker has ended every run's context and has waited for the
\* runs to return, but for no longer than BackendShutdownTimeout.
SweepWorkspaces ==
    /\ ~swept
    /\ \A p \in DirectRuns : direct[p].pc \in {"idle", "completed", "failed"} \/ ~Live(p)
    /\ swept' = TRUE
    /\ directories' = directories \cap {TargetDir}
    /\ UNCHANGED <<direct, hostProcess>>

DirectInit ==
    /\ direct = [p \in DirectRuns |-> [pc |-> "idle", ctx |-> "live", dir |-> <<>>,
                                       outcome |-> "none"]]
    /\ hostProcess = [p \in DirectRuns |-> NoProcess]
    /\ directories = {TargetDir}
    /\ swept = FALSE

\* What the worker itself does for a run.
DirectStep(p) ==
    RunSetup(p) \/ HostCommandReturns(p) \/ RemoveWorkspace(p) \/ KillHostCommand(p)

DirectNext ==
    \/ \E p \in DirectRuns : \/ StartDirect(p) \/ DirectStep(p)
                             \/ HostProcessMoves(p) \/ EndDirectContext(p)
    \/ SweepWorkspaces

-----------------------------------------------------------------------------
\* The directory in which a run has a command running exists until Shutdown
\* empties the workspace root: another run's cleanup never removes it.
WorkspaceKept ==
    \A p \in DirectRuns :
        direct[p].pc \in {"environment", "setup", "agent", "teardown"} =>
            direct[p].dir \in directories \/ swept

\* A run whose context has ended returns, even when its commands leave processes
\* behind that hold their output open.
DirectReturns ==
    []<>(\A p \in DirectRuns : ~Live(p) => direct[p].pc \in {"completed", "failed"})

\* Why WorkspaceKept holds: a run works in, and removes, the directory that is
\* its own, and a directory that runs share is never removed.
DirectSteps == {"idle", "environment", "setup", "agent", "teardown", "remove", "completed",
                "failed"}

DirectNames ==
    {<<>>, TargetDir} \cup {<<p.taskID>> : p \in DirectRuns}
        \cup {<<p.taskID, p.executionID, p.standbyID>> : p \in DirectRuns}

DirectCalls == [pc : DirectSteps, ctx : {"live", "done"}, dir : DirectNames,
                outcome : {"none", "completed", "failed"}]

WorkspaceInv ==
    /\ direct \in [DirectRuns -> DirectCalls]
    /\ \A p \in DirectRuns :
          /\ direct[p].pc \notin {"idle", "completed", "failed"} =>
                direct[p].dir = WorkspaceDir(p)
          /\ direct[p].pc = "remove" => ~config.targetDir /\ direct[p].outcome # "none"
          /\ direct[p].pc = "teardown" => direct[p].outcome # "none"
    /\ WorkspaceKept
=============================================================================
