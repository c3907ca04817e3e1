SPECIFICATION Spec
CONSTANTS
    BackendTypes = {"kubernetes"}
    DockerRuns <- MCDockerRuns
    DirectRuns <- MCDirectRuns
    TaskImage = "agent"
    SidecarLists <- MCOneSidecar
    MaxDigest = 2
    MaxCrashes = 1
    Sandboxes = {"s1", "s2"}
    MaxProcesses = 1
    InitLists <- MCInitLists
INVARIANT NoExitLost
CHECK_DEADLOCK FALSE
