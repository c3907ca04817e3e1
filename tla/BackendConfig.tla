---------------------------- MODULE BackendConfig ----------------------------
(***************************************************************************)
(* Which backend a worker process runs, and the settings of it that change *)
(* what the backend does (main.go, mergeConfig; the New...Backend          *)
(* functions of internal/worker).  A process keeps one configuration for   *)
(* its whole life, and a restarted worker is given the same one.           *)
(***************************************************************************)
EXTENDS Integers, Sequences

CONSTANTS
    BackendTypes   \* the backends that are configured, for smaller instances

ASSUME BackendAssumption ==
    BackendTypes \subseteq {"docker", "direct", "command", "kubernetes"}

VARIABLE config

\* The empty string: a field that is not set.
Unset == ""

\* TaskParams, as far as the backends tell runs apart: a task's execution, or a
\* standby sandbox, which has neither a task nor an execution.
Params ==
    {p \in [taskID : STRING, executionID : STRING, standbyID : STRING] :
        p.standbyID # Unset => p.taskID = Unset /\ p.executionID = Unset}

IsStandby(p) == p.standbyID # Unset

-----------------------------------------------------------------------------
\* --backend wins over the keys of the file's backend section, which are tried
\* in this order; without either the backend is Docker.
backendType(flag, keys) ==
    LET order == <<"direct", "kubernetes", "command", "docker">>
        found == SelectSeq(order, LAMBDA b : b \in keys)
    IN  IF flag # "" THEN flag ELSE IF found # <<>> THEN found[1] ELSE "docker"

\* --no-cleanup can only turn the cleanup off; the file may do so as well.
noCleanup(flag, cleanup) == flag \/ cleanup = "false"

normalizeDockerPullPolicy(policy) ==
    IF policy \in {"IfNotPresent", "Never"} THEN policy ELSE "Always"

\* NewDockerBackend, NewDirectBackend and NewCommandBackend on what mergeConfig
\* passes them.  collect is CollectTaskLogs: tasks then have a log reporter.
DockerConfig(keep) ==
    {[backend |-> "docker", noCleanup |-> keep,
      pullPolicy |-> normalizeDockerPullPolicy(p)] :
        p \in {"", "IfNotPresent", "Never"}}

DirectConfig(keep) ==
    [backend : {"direct"}, noCleanup : {keep}, targetDir : BOOLEAN,
     hooks : BOOLEAN, collect : BOOLEAN]

CommandConfig == [backend : {"command"}, cancelCommand : BOOLEAN, collect : BOOLEAN]

\* What the Kubernetes backend does for standby exits and for setup events does
\* not share any state, so that a behaviour has one of the two.
KubernetesConfig == [backend : {"kubernetes"}, part : {"exits", "setup"}]

\* What a part of the state may be initially: one of S, or, where the part does
\* not matter under this configuration, one fixed value.
InitialChoice(matters, S) == IF matters THEN S ELSE {CHOOSE x \in S : TRUE}

ConfigInit ==
    \E flag \in {"", "direct"}, keys \in {{}, {"kubernetes"}, {"command"}, {"docker"}},
       keepFlag \in BOOLEAN, cleanup \in {"", "false"} :
        LET b == backendType(flag, keys)
            keep == noCleanup(keepFlag, cleanup)
        IN  /\ b \in BackendTypes
            /\ config \in CASE b = "docker" -> DockerConfig(keep)
                            [] b = "direct" -> DirectConfig(keep)
                            [] b = "command" -> CommandConfig
                            [] b = "kubernetes" -> KubernetesConfig
=============================================================================
