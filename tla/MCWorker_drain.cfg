CONSTANTS
    Executions <- MCLegacy
    Legacy = ""
    StandbyIDs = {}
    NoKey = NoKey
    MaxConcurrentTasks = 1
    MaxPrewarmedSandboxes = 0
    CacheSize = 2
    MaxGoroutines = 3
    OneShot = FALSE
    PreservesTasks = TRUE
    SpawnsTasks = TRUE
    SupportsStandbys = FALSE
SPECIFICATION ScheduledSpec
PROPERTIES
    SpawnedUntilCancelled
    ImplementsLifecycle
    ShutdownTerminates
    CancellationResolves
