CONSTANTS
    NoCleanup = FALSE
    MaxUID = 2
    MaxAttempts = 2
    MaxEvents = 1
SPECIFICATION FairSpec
INVARIANTS
    OnlyOwnJob
    FailureStopsJob
    CancelledIsGone
PROPERTIES
    ExecutionEnds
    ShutdownPreservesJob
