---------------------------- MODULE MCConnection ----------------------------
(* Small instances of Connection for TLC. *)
EXTENDS Connection, TLC

CONSTANTS m1, m2, m3
MCMessages == {m1, m2, m3}
MCStatuses == {m1}

\* The waits of NoCircularWait are the guards of the actions.
WaitsAreGuards ==
    /\ RunCanStep <=> ENABLED RunNext
    /\ LoopCanStep <=> ENABLED (ReaderReturns \/ HeartbeatReturns \/ Writer)
    /\ GroupCanReturn <=> ENABLED GroupWaitReturns
    /\ SendCanStep <=> ENABLED (\E m \in Messages : Enqueue(m) \/ SendTimesOut(m))
=============================================================================
