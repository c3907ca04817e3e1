-------------------------- MODULE MCKubernetesJob --------------------------
(* Small instances of KubernetesJob for TLC. *)
EXTENDS KubernetesJob, TLC
=============================================================================
