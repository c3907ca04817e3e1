CONSTANTS
    NoCleanup = FALSE
    MaxUID = 2
    MaxAttempts = 1
    MaxEvents = 1
SPECIFICATION Spec
INVARIANTS
    TaskFailureStopsJob
