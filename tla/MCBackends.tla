----------------------------- MODULE MCBackends -----------------------------
(* Small instances of Backends for TLC. *)
EXTENDS Backends

Task(task, execution) == [taskID |-> task, executionID |-> execution, standbyID |-> ""]
Standby(sandbox) == [taskID |-> "", executionID |-> "", standbyID |-> sandbox]

MCDockerRuns == {Task("t1", "e1"), Standby("s1")}
MCDirectRuns == {Task("t1", ""), Task("t1", "e1")}

MCOneSidecar == {<<[image |-> "agent", mountPath |-> "/agent"]>>}

MCInitLists == {<<"native", "copy", "copy">>, <<"setup", "custom">>, <<>>}
=============================================================================
