CONSTANTS
    Executions <- MCTwo
    Legacy = ""
    StandbyIDs = {}
    NoKey = NoKey
    MaxConcurrentTasks = 1
    MaxPrewarmedSandboxes = 0
    CacheSize = 1
    MaxGoroutines = 2
    OneShot = TRUE
    PreservesTasks = FALSE
    SpawnsTasks = FALSE
    SupportsStandbys = TRUE
SPECIFICATION ScheduledSpec
INVARIANTS
    OneShotSingle
PROPERTIES
    OneShotExits
