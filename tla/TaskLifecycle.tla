--------------------------- MODULE TaskLifecycle ---------------------------
(***************************************************************************)
(* What the worker promises about task executions, without goroutines,     *)
(* semaphores or cancellation: an assignment of an execution that is still *)
(* known is ignored; a run sends "claimed", then at most one terminal      *)
(* status; and an execution is forgotten, and may therefore run again, only*)
(* when it has no ID, when the worker stops, or when CacheSize others are  *)
(* known.                                                                  *)
(***************************************************************************)
EXTENDS Integers, FiniteSets

CONSTANTS Executions, Legacy, CacheSize

VARIABLES
    known,    \* executions whose redelivered assignment is ignored
    running,  \* executions admitted and not yet retired
    status,   \* the last status message sent for the current run
    stopped   \* the worker takes no more assignments

vars == <<known, running, status, stopped>>

Terminal == {"completed", "cancelled", "failed", "task_cancelled",
             "graceful_shutdown"}

Init ==
    /\ known = {}
    /\ running = {}
    /\ status = [k \in Executions |-> "none"]
    /\ stopped = FALSE

Admit(k) ==
    /\ ~stopped
    /\ k \notin known
    /\ known' = known \cup {k}
    /\ running' = running \cup {k}
    /\ status' = [status EXCEPT ![k] = "none"]
    /\ UNCHANGED stopped

Announce(k) ==
    /\ k \in running
    /\ status[k] = "none"
    /\ status' = [status EXCEPT ![k] = "claimed"]
    /\ UNCHANGED <<known, running, stopped>>

Report(k, s) ==
    /\ k \in running
    /\ status[k] = "claimed"
    /\ status' = [status EXCEPT ![k] = s]
    /\ UNCHANGED <<known, running, stopped>>

MayForget(k) ==
    \/ k[2] = Legacy
    \/ stopped
    \/ Cardinality(known') >= CacheSize

\* Executions whose run is over retire, and some may be forgotten.
Settle ==
    /\ running' \in SUBSET running
    /\ \A k \in running \ running' : status[k] # "none"
    /\ known' \in SUBSET known
    /\ running' \subseteq known'
    /\ \A k \in known \ known' : MayForget(k)
    /\ UNCHANGED <<status, stopped>>

Stop == ~stopped /\ stopped' = TRUE /\ UNCHANGED <<known, running, status>>

Next ==
    \/ \E k \in Executions : Admit(k) \/ Announce(k)
    \/ \E k \in Executions, s \in Terminal : Report(k, s)
    \/ Settle
    \/ Stop

Spec == Init /\ [][Next]_vars
=============================================================================
