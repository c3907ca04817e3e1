CONSTANTS
    m1 = m1
    m2 = m2
    m3 = m3
    Messages <- MCMessages
    Statuses <- MCStatuses
    Capacity = 1
    OneShot = TRUE
SPECIFICATION FairSpec
INVARIANTS
    NoSendOnClosed
    NothingReordered
    LoopsBelongToConnection
    GracefulCloseFlushes
PROPERTIES
    SignalEndsRun
    DeadConnectionLeft
    SendReturns
