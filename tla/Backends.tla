------------------------------ MODULE Backends ------------------------------
(***************************************************************************)
(* A worker process with the backend that its configuration selects.  The  *)
(* modules it is composed of have no variable in common but config, so     *)
(* that the variables of the other backends keep their initial values.     *)
(***************************************************************************)
EXTENDS DockerBackend, DirectBackend, CommandBackend, KubernetesStandby, SetupEvents

vars == <<config, dockerVars, directVars, commandVars, standbyVars, setupVars>>

\* The steps of each backend.
OnDocker(A) ==
    /\ config.backend = "docker"
    /\ A
    /\ UNCHANGED <<config, directVars, commandVars, standbyVars, setupVars>>

OnDirect(A) ==
    /\ config.backend = "direct"
    /\ A
    /\ UNCHANGED <<config, dockerVars, commandVars, standbyVars, setupVars>>

OnCommand(A) ==
    /\ config.backend = "command"
    /\ A
    /\ UNCHANGED <<config, dockerVars, directVars, standbyVars, setupVars>>

OnExits(A) ==
    /\ config.backend = "kubernetes"
    /\ config.part = "exits"
    /\ A
    /\ UNCHANGED <<config, dockerVars, directVars, commandVars, setupVars>>

OnSetup(A) ==
    /\ config.backend = "kubernetes"
    /\ config.part = "setup"
    /\ A
    /\ UNCHANGED <<config, dockerVars, directVars, commandVars, standbyVars>>

Init ==
    /\ ConfigInit
    /\ DockerInit
    /\ DirectInit
    /\ CommandInit
    /\ StandbyInit
    /\ SetupInit

Next ==
    \/ OnDocker(DockerNext)
    \/ OnDirect(DirectNext)
    \/ OnCommand(CommandNext)
    \/ OnExits(StandbyNext)
    \/ OnSetup(SetupNext)

Spec == Init /\ [][Next]_vars

\* Requests return once their context has ended, os/exec and timers do their
\* part, and goroutines are scheduled.  Nothing is assumed of the daemon, of the
\* processes or of the Jobs; of the watches, that one that is opened again and
\* again delivers what is new at some time.
Fairness ==
    /\ \A p \in DockerRuns : WF_vars(OnDocker(~CtxLive(p) /\ DockerStep(p)))
    /\ \A p \in DirectRuns : WF_vars(OnDirect(DirectStep(p)))
    /\ WF_vars(OnCommand(CommandStep))
    /\ WF_vars(OnExits(WatcherStep))
    /\ \A sb \in Sandboxes : WF_vars(OnExits(RunStandbyStep(sb)))
    /\ SF_vars(OnExits(\E sb \in Sandboxes \ exitsReported : ReceiveExit(sb, "finished")))

FairSpec == Spec /\ Fairness

\* A backend's ExecuteTask or CancelTask returns once its context has ended,
\* although another Docker run may hold the sidecar volume it waits for, and
\* although a command may leave processes behind that hold its output open.  The
\* exception is the one of DispatchEnds: a process left behind that does not read
\* a large payload holds up a dispatch without a log reporter.
CallsReturn == ExecutionReturns /\ DirectReturns /\ DispatchEnds
=============================================================================
