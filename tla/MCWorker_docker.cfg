CONSTANTS
    Executions <- MCTwo
    Legacy = ""
    StandbyIDs = {"s1"}
    NoKey = NoKey
    MaxConcurrentTasks = 2
    MaxPrewarmedSandboxes = 1
    CacheSize = 1
    MaxGoroutines = 2
    OneShot = FALSE
    PreservesTasks = FALSE
    SpawnsTasks = FALSE
    SupportsStandbys = TRUE
SPECIFICATION Spec
INVARIANTS
    TrackedWhileRunning
    TerminalIsRemembered
    CacheConsistent
    DrainedBeforeClose
    SlotAccounting
PROPERTIES
    NoAddAfterWait
    ImplementsLifecycle
