------------------------------ MODULE MCWorker ------------------------------
(* Small instances of Worker for TLC. *)
EXTENDS Worker, TLC

\* Two executions of one run; the same with one from a server that sends no
\* execution IDs; and a single one.
MCTwo == {<<"t1", "e1">>, <<"t1", "e2">>}
MCLegacy == {<<"t1", "">>, <<"t1", "e1">>}
MCOne == {<<"t1", "e1">>}

\* Sandboxes are interchangeable: no definition tells one from another.
MCSandboxSymmetry == Permutations(StandbyIDs)
=============================================================================
