SPECIFICATION FairSpec
CONSTANTS
    BackendTypes = {"docker", "direct", "command", "kubernetes"}
    DockerRuns <- MCDockerRuns
    DirectRuns <- MCDirectRuns
    TaskImage = "agent"
    SidecarLists <- MCOneSidecar
    MaxDigest = 2
    MaxCrashes = 1
    Sandboxes = {"s1", "s2"}
    MaxProcesses = 2
    InitLists <- MCInitLists
INVARIANTS
    MountedComplete
    CancelRemovesContainer
    WorkspaceKept
    EachExitOnce
    DeletedExitIsKnown
    PhasesMatchPod
PROPERTIES
    CallsReturn
    StandbyExitSeen
CHECK_DEADLOCK FALSE
