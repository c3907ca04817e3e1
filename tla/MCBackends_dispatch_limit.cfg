SPECIFICATION FairSpec
CONSTANTS
    BackendTypes = {"command"}
    DockerRuns <- MCDockerRuns
    DirectRuns <- MCDirectRuns
    TaskImage = "agent"
    SidecarLists <- MCOneSidecar
    MaxDigest = 2
    MaxCrashes = 1
    Sandboxes = {"s1", "s2"}
    MaxProcesses = 1
    InitLists <- MCInitLists
PROPERTY DispatchIsLimited
CHECK_DEADLOCK FALSE
