CONSTANTS
    Executions <- MCOne
    Legacy = ""
    StandbyIDs = {s1, s2, s3}
    NoKey = NoKey
    MaxConcurrentTasks = 1
    MaxPrewarmedSandboxes = 0
    CacheSize = 2
    MaxGoroutines = 2
    OneShot = FALSE
    PreservesTasks = TRUE
    SpawnsTasks = FALSE
    SupportsStandbys = TRUE
SYMMETRY MCSandboxSymmetry
SPECIFICATION Spec
INVARIANTS
    TypeOK
    WaitGroupAccounting
    CancelAfterExecute
    ShutdownReachesAll
    PreservedNotFailed
    SlotAccounting
    ExitReportedOnce
