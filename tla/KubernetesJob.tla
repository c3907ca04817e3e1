--------------------------- MODULE KubernetesJob ---------------------------
(***************************************************************************)
(* One execution on the Kubernetes backend: ExecuteTask creates a Job,     *)
(* observes it through two watches and a safety poll, and decides on its   *)
(* way out what becomes of the Job; CancelTask deletes it                  *)
(* (internal/worker/kubernetes.go, kubernetes_api.go).  The cluster is     *)
(* external: its Job controller, the garbage collector and other clients   *)
(* that remove the Job or create another one under its name, and an API    *)
(* server that may fail any request or lose the answer to one it carried   *)
(* out.                                                                    *)
(***************************************************************************)
EXTENDS Integers, Sequences

CONSTANTS
    NoCleanup,    \* config.NoCleanup
    MaxUID,       \* bound: Jobs that ever exist under the name
    MaxAttempts,  \* attempts that kubernetesAPIBackoff allows
    MaxEvents     \* bound: pod changes a watch may hold undelivered

ASSUME KubernetesAssumption ==
    /\ NoCleanup \in BOOLEAN
    /\ MaxUID \in Nat \ {0}
    /\ MaxAttempts \in Nat \ {0}
    /\ MaxEvents \in Nat

VARIABLES
    job,         \* the Job stored under the execution's name, or NoJob
    pods,        \* the pod of each Job, by the Job's UID
    lastUID,     \* the UID given out last
    jobEvents,   \* Job snapshots the Job watch has still to deliver
    podEvents,   \* pod snapshots the pod watch has still to deliver
    standby,     \* params.StandbyID is set: the execution is a standby sandbox
    ctx,         \* ExecuteTask's context: "live", or the cause of its end
    step,        \* where ExecuteTask stands
    created,     \* UID of the Job that Create made, 0 before
    observed,    \* the variable job of ExecuteTask: the last snapshot handled
    fetched,     \* the Job expireAbandonedJob works on
    attempts,    \* failed attempts of requestJobExecutionStop
    result,      \* what ExecuteTask returns
    disposition, \* the failure's jobFailureDisposition
    cancelUID,   \* the UID CancelTask has read: 0 before, Gone when it is done
    overtaken,   \* history: CancelTask read the Job before Create made it
    writes       \* history: the worker's writes, as [by, uid, ours]

clusterVars == <<job, pods, lastUID>>
watchVars == <<jobEvents, podEvents>>
execVars == <<step, created, observed, fetched, attempts, result, disposition>>
callVars == <<standby, ctx>>
cancelVars == <<cancelUID, overtaken>>
vars == <<clusterVars, watchVars, callVars, execVars, cancelVars, writes>>

UIDs == 1..MaxUID
Gone == MaxUID + 1

\* ours: the Job carries this execution's labels.  version is resourceVersion.
Jobs == [uid : UIDs, version : Nat, state : {"active", "complete", "failed"},
         expired : BOOLEAN, ours : BOOLEAN]
NoJob == [uid |-> 0, version |-> 0, state |-> "absent", expired |-> FALSE,
          ours |-> FALSE]

\* "failing": a container has failed or cannot start although the pod's phase
\* is not Failed, so that it may still run.
PodStates == {"none", "waiting", "failing", "running", "failed", "succeeded"}
CanRun == {"waiting", "failing", "running"}

Steps == {"creating", "opening", "watching", "polling", "cleaning",
          "refreshing", "checking", "patching", "deleting", "returned",
          "detached", "stop_failed", "delete_failed"}
Watching == step \in {"watching", "polling"}
Over == {"returned", "detached", "stop_failed", "delete_failed"}

\* jobComplete or jobFailed.
Finished(j) == j.state \in {"complete", "failed"}

\* What a watch begins with when it is opened.  The execution's label selects
\* the pods, so that an earlier Job's pod may be among them.
CurrentJob == IF job = NoJob THEN <<>> ELSE <<job>>
CurrentPods ==
    SelectSeq([u \in UIDs |-> pods[u]], LAMBDA s : s # "none")

-----------------------------------------------------------------------------
\* The cluster.

\* Store j under the name; an open watch will deliver snapshot.
SetJob(j, snapshot) ==
    /\ job' = j
    /\ jobEvents' = IF Watching THEN Append(jobEvents, snapshot) ELSE jobEvents

Updated(j) == [j EXCEPT !.version = @ + 1]

NewJob(u, ours) == [uid |-> u, version |-> 1, state |-> "active",
                    expired |-> FALSE, ours |-> ours]

\* How a pod's state may change.
PodMoves == {<<"waiting", "failing">>, <<"waiting", "running">>,
             <<"failing", "running">>, <<"failing", "failed">>,
             <<"running", "failing">>, <<"running", "failed">>,
             <<"running", "succeeded">>}

\* Store s as the state of Job u's pod; an open watch will deliver it, and with
\* a deletion the pod's last state.
StorePod(u, s) ==
    /\ pods' = [pods EXCEPT ![u] = s]
    /\ IF Watching /\ s # pods[u]
       THEN /\ Len(podEvents) < MaxEvents
            /\ podEvents' = Append(podEvents, IF s = "none" THEN pods[u] ELSE s)
       ELSE UNCHANGED podEvents

SetPod(u, s) ==
    /\ StorePod(u, s)
    /\ UNCHANGED <<job, lastUID, jobEvents, callVars, execVars, cancelVars, writes>>

\* The Job controller starts the one pod that backoffLimit zero allows.  (The
\* pods of a Job that is not ours do not carry the execution's label.)
PodCreated ==
    /\ job.state = "active"
    /\ job.ours
    /\ ~job.expired
    /\ pods[job.uid] = "none"
    /\ SetPod(job.uid, "waiting")

PodChanges(u) == \E m \in PodMoves : pods[u] = m[1] /\ SetPod(u, m[2])

\* Background propagation: the pod of a Job that is gone is removed.
PodCollected(u) ==
    /\ u # job.uid
    /\ pods[u] # "none"
    /\ SetPod(u, "none")

JobFinishes ==
    /\ job.state = "active"
    /\ pods[job.uid] \in {"failed", "succeeded"}
    /\ LET j == [Updated(job) EXCEPT !.state =
                    IF pods[job.uid] = "failed" THEN "failed" ELSE "complete"]
       IN  SetJob(j, j)
    /\ UNCHANGED <<pods, lastUID, podEvents, callVars, execVars, cancelVars, writes>>

\* activeDeadlineSeconds passes: the Job fails and its active pod is deleted.
DeadlinePasses ==
    /\ job.state = "active"
    /\ LET j == [Updated(job) EXCEPT !.state = "failed"] IN SetJob(j, j)
    /\ StorePod(job.uid, IF pods[job.uid] \in CanRun THEN "none"
                         ELSE pods[job.uid])
    /\ UNCHANGED <<lastUID, callVars, execVars, cancelVars, writes>>

\* The TTL controller or an operator deletes the Job; a Deleted event carries
\* its last state.
JobRemoved ==
    /\ job # NoJob
    /\ SetJob(NoJob, job)
    /\ UNCHANGED <<pods, lastUID, podEvents, callVars, execVars, cancelVars, writes>>

\* Another client creates a Job under the same name.
JobReplaced(ours) ==
    /\ job = NoJob
    /\ lastUID < MaxUID
    /\ SetJob(NewJob(lastUID + 1, ours), NewJob(lastUID + 1, ours))
    /\ lastUID' = lastUID + 1
    /\ UNCHANGED <<pods, podEvents, callVars, execVars, cancelVars, writes>>

Cluster ==
    \/ PodCreated \/ JobFinishes \/ DeadlinePasses \/ JobRemoved
    \/ \E u \in UIDs : PodChanges(u) \/ PodCollected(u)
    \/ \E ours \in BOOLEAN : JobReplaced(ours)

\* The worker cancels the task, or only its observation.  The first cause wins.
ContextEnds(cause) ==
    /\ ctx = "live"
    /\ step \notin Over
    /\ ctx' = cause
    /\ UNCHANGED <<standby, clusterVars, watchVars, execVars, cancelVars, writes>>

-----------------------------------------------------------------------------
\* ExecuteTask: creation.

Goto(next) ==
    /\ step' = next
    /\ UNCHANGED <<clusterVars, watchVars, callVars, created, observed, fetched,
                   attempts, result, disposition, cancelVars, writes>>

\* A Create sent before the context ends may be answered after.
CreateSucceeds ==
    /\ step = "creating"
    /\ job = NoJob
    /\ lastUID < MaxUID
    /\ job' = NewJob(lastUID + 1, TRUE)
    /\ lastUID' = lastUID + 1
    /\ created' = lastUID + 1
    /\ observed' = job'
    /\ step' = "opening"
    /\ UNCHANGED <<pods, watchVars, callVars, fetched, attempts, result,
                   disposition, cancelVars, writes>>

\* The name is taken, the request fails, or its answer is lost (applied): in
\* every case the error is returned, and no cleanup has been deferred yet.
CreateFails(applied) ==
    /\ step = "creating"
    /\ applied => job = NoJob /\ lastUID < MaxUID
    /\ job' = IF applied THEN NewJob(lastUID + 1, TRUE) ELSE job
    /\ lastUID' = IF applied THEN lastUID + 1 ELSE lastUID
    /\ created' = IF applied THEN lastUID + 1 ELSE 0
    /\ result' = "create_failed"
    /\ step' = "returned"
    /\ UNCHANGED <<pods, watchVars, callVars, observed, fetched, attempts,
                   disposition, cancelVars, writes>>

-----------------------------------------------------------------------------
\* ExecuteTask: observation.

\* ExecuteTask decides to return r and runs its deferred functions, which stop
\* the watches first.
Decide(r, d) ==
    /\ result' = r
    /\ disposition' = d
    /\ step' = "cleaning"
    /\ jobEvents' = <<>>
    /\ podEvents' = <<>>
    /\ UNCHANGED <<clusterVars, callVars, created, fetched, attempts, cancelVars,
                   writes>>

\* Both watches open; each begins with what exists.
OpenWatches ==
    /\ step = "opening"
    /\ ctx = "live"
    /\ step' = "watching"
    /\ jobEvents' = CurrentJob
    /\ podEvents' = CurrentPods
    /\ UNCHANGED <<clusterVars, callVars, created, observed, fetched, attempts,
                   result, disposition, cancelVars, writes>>

\* A watch cannot be opened, or opened again, or the Job or the pods cannot be
\* read, after every retry or because the context has ended.
ObservationFails ==
    /\ step \in {"opening", "watching", "polling"}
    /\ Decide("failure", "termination_required")
    /\ UNCHANGED observed

\* A watch closes or reports an error, and is opened again.
JobWatchReopens ==
    /\ step = "watching"
    /\ ctx = "live"
    /\ jobEvents' = CurrentJob
    /\ UNCHANGED <<clusterVars, podEvents, callVars, execVars, cancelVars, writes>>

PodWatchReopens ==
    /\ step = "watching"
    /\ ctx = "live"
    /\ podEvents' = CurrentPods
    /\ UNCHANGED <<clusterVars, jobEvents, callVars, execVars, cancelVars, writes>>

ContextDone ==
    /\ step = "watching"
    /\ ctx # "live"
    /\ Decide("cancelled", "termination_required")
    /\ UNCHANGED observed

\* A snapshot of another Job ends the observation; handleJobStateAt ends it
\* when the Job is complete or has failed.
HandleJob(j, next) ==
    IF j.uid # created
    THEN Decide("failure", "termination_required") /\ UNCHANGED observed
    ELSE /\ observed' = j
         /\ \/ /\ j.state = "complete"
               /\ Decide("completed", "termination_required")
            \/ /\ j.state = "failed"
               /\ Decide("failure", "execution_stopped")
            \/ /\ j.state = "active"
               /\ next
               /\ UNCHANGED <<clusterVars, podEvents, callVars, created, fetched,
                              attempts, result, disposition, cancelVars, writes>>

JobEvent ==
    /\ step = "watching"
    /\ jobEvents # <<>>
    /\ HandleJob(Head(jobEvents),
                 jobEvents' = Tail(jobEvents) /\ UNCHANGED step)

\* inspectPodFailureAt: the failure a pod's snapshot amounts to.
PodFailure(s) ==
    /\ s \in {"failing", "failed"}
    /\ Decide("failure", IF s = "failed" \/ Finished(observed)
                         THEN "execution_stopped" ELSE "termination_required")
    /\ UNCHANGED observed

PodEvent ==
    /\ step = "watching"
    /\ podEvents # <<>>
    /\ \/ PodFailure(Head(podEvents))
       \/ /\ Head(podEvents) \notin {"failing", "failed"}
          /\ podEvents' = Tail(podEvents)
          /\ UNCHANGED <<clusterVars, jobEvents, callVars, execVars, cancelVars,
                         writes>>

\* Mutation: there is no poll.
PollNever == FALSE /\ UNCHANGED vars

\* The safety poll: the Job, then the pods.
PollJob ==
    /\ step = "watching"
    /\ IF job = NoJob
       THEN /\ Decide(IF ctx = "live" THEN "failure" ELSE "cancelled",
                      "termination_required")
            /\ UNCHANGED observed
       ELSE HandleJob(job, step' = "polling" /\ UNCHANGED jobEvents)

PollPods ==
    /\ step = "polling"
    /\ \/ \E u \in UIDs : PodFailure(pods[u])
       \/ /\ \A u \in UIDs : pods[u] \notin {"failing", "failed"}
          /\ Goto("watching")

-----------------------------------------------------------------------------
\* ExecuteTask: the deferred cleanup.

Record(by) ==
    writes' = writes \cup {[by |-> by, uid |-> job.uid, ours |-> job.ours]}

\* Mutation: a standby is deleted whatever ended its context.
CleanupIgnoresCause ==
    /\ step = "cleaning"
    /\ Goto(IF ctx # "live"
            THEN IF standby THEN "deleting" ELSE "detached"
            ELSE IF result = "completed"
            THEN IF standby \/ NoCleanup THEN "returned" ELSE "deleting"
            ELSE IF Finished(observed) THEN "returned" ELSE "refreshing")

\* A context that has ended only stops the observation, except that a standby
\* that was cancelled is deleted.  A failure stops the Job, unless it is seen
\* to have finished; success deletes it, but leaves a standby's to the exit
\* watcher.
BeginCleanup ==
    /\ step = "cleaning"
    /\ Goto(IF ctx # "live"
            THEN IF standby /\ ctx = "cancelled" THEN "deleting" ELSE "detached"
            ELSE IF result = "completed"
            THEN IF standby \/ NoCleanup THEN "returned" ELSE "deleting"
            ELSE IF Finished(observed) THEN "returned" ELSE "refreshing")

\* Mutation: the execution's label selects the pods.
jobPodsStoppedByLabel(j) == \E u \in UIDs : u <= j.uid /\ pods[u] = "failed"

\* jobPodsStopped: by the controller's UID, not by the execution's label.
jobPodsStopped(j) == pods[j.uid] = "failed"

\* expireAbandonedJob with the Job j it has read, or could not read.
Expire(j) ==
    /\ fetched' = j
    /\ step' = IF j.uid # observed.uid THEN "stop_failed"
               ELSE IF Finished(j) THEN "returned"
               ELSE IF disposition = "execution_stopped" THEN "checking"
               ELSE "patching"
    /\ UNCHANGED <<clusterVars, watchVars, callVars, created, observed, attempts,
                   result, disposition, cancelVars, writes>>

Refresh ==
    /\ step = "refreshing"
    /\ IF job = NoJob THEN Goto("returned") ELSE Expire(job)

RefreshFails ==
    /\ step = "refreshing"
    /\ Expire(observed)

\* Without the pods' list the Job is taken to be running.
CheckPods ==
    /\ step = "checking"
    /\ Goto(IF jobPodsStopped(fetched) THEN "returned" ELSE "patching")

CheckFails == step = "checking" /\ Goto("patching")

\* Another attempt after a conflict or a transient error, or none left.
Retry ==
    /\ attempts' = attempts + 1
    /\ step' = IF attempts + 1 < MaxAttempts THEN "refreshing" ELSE "stop_failed"

\* The merge patch names UID and resourceVersion, so it applies to the Job as
\* it was read or not at all.
PatchApplies(answered) ==
    /\ step = "patching"
    /\ job.uid = fetched.uid
    /\ job.version = fetched.version
    /\ job' = [Updated(job) EXCEPT !.expired = TRUE]
    /\ Record("ExecuteTask")
    /\ IF answered THEN step' = "returned" /\ UNCHANGED attempts ELSE Retry
    /\ UNCHANGED <<pods, lastUID, watchVars, callVars, created, observed, fetched,
                   result, disposition, cancelVars>>

PatchNotFound == step = "patching" /\ job = NoJob /\ Goto("returned")

PatchConflicts ==
    /\ step = "patching"
    /\ job # NoJob
    /\ job.uid # fetched.uid \/ job.version # fetched.version
    /\ Retry
    /\ UNCHANGED <<clusterVars, watchVars, callVars, created, observed, fetched,
                   result, disposition, cancelVars, writes>>

\* A transient error is retried; any other, and the cleanup's timeout, is not.
PatchFails(transient) ==
    /\ step = "patching"
    /\ IF transient THEN Retry ELSE step' = "stop_failed" /\ UNCHANGED attempts
    /\ UNCHANGED <<clusterVars, watchVars, callVars, created, observed, fetched,
                   result, disposition, cancelVars, writes>>

\* Mutation: no precondition.
DeleteUnfenced ==
    /\ step = "deleting"
    /\ job # NoJob
    /\ job' = NoJob
    /\ Record("ExecuteTask")
    /\ step' = "returned"
    /\ UNCHANGED <<pods, lastUID, watchVars, callVars, created, observed, fetched,
                   attempts, result, disposition, cancelVars>>

\* deleteTaskJob with the created Job's UID as a precondition.
DeleteApplies ==
    /\ step = "deleting"
    /\ job.uid = created
    /\ job' = NoJob
    /\ Record("ExecuteTask")
    /\ step' = "returned"
    /\ UNCHANGED <<pods, lastUID, watchVars, callVars, created, observed, fetched,
                   attempts, result, disposition, cancelVars>>

\* NotFound or a failed precondition; any other error is only logged.
DeleteMoot == step = "deleting" /\ job.uid # created /\ Goto("returned")
DeleteFails == step = "deleting" /\ Goto("delete_failed")

Executor ==
    \/ CreateSucceeds \/ \E applied \in BOOLEAN : CreateFails(applied)
    \/ OpenWatches \/ ObservationFails \/ JobWatchReopens
    \/ PodWatchReopens
    \/ ContextDone \/ JobEvent \/ PodEvent \/ PollJob \/ PollPods
    \/ BeginCleanup \/ Refresh \/ RefreshFails \/ CheckPods \/ CheckFails
    \/ \E answered \in BOOLEAN : PatchApplies(answered)
    \/ PatchNotFound \/ PatchConflicts
    \/ \E transient \in BOOLEAN : PatchFails(transient)
    \/ DeleteApplies \/ DeleteMoot \/ DeleteFails

-----------------------------------------------------------------------------
\* CancelTask, repeated while it fails.  For a task the worker calls it after
\* ExecuteTask has returned; for a standby, handlePrewarmDestroy cancels the
\* context and calls it at once, while ExecuteTask unwinds.  A Job with another
\* execution's labels is an error, except that cancelStandby selects by label
\* and does not see it.

SetCancel(u) ==
    /\ cancelUID' = u
    /\ UNCHANGED <<podEvents, callVars, execVars, pods, lastUID>>

CancelReads ==
    /\ step \in Over \/ (standby /\ ctx # "live")
    /\ cancelUID = 0
    /\ standby \/ job = NoJob \/ job.ours
    /\ SetCancel(IF job.ours THEN job.uid ELSE Gone)
    /\ overtaken' = (step = "creating")
    /\ UNCHANGED <<job, jobEvents, writes>>

CancelDeletes(answered) ==
    /\ cancelUID \in UIDs
    /\ job.uid = cancelUID
    /\ SetJob(NoJob, job)
    /\ Record("CancelTask")
    /\ SetCancel(IF answered THEN Gone ELSE 0)
    /\ UNCHANGED overtaken

CancelNotFound ==
    /\ cancelUID \in UIDs
    /\ job = NoJob
    /\ SetCancel(Gone)
    /\ UNCHANGED <<job, jobEvents, overtaken, writes>>

\* Mutation: the error is not returned.
CancelHidesError ==
    /\ cancelUID \in UIDs
    /\ SetCancel(Gone)
    /\ UNCHANGED <<job, jobEvents, overtaken, writes>>

\* The precondition fails, or there is no answer.
CancelFails ==
    /\ cancelUID \in UIDs
    /\ SetCancel(0)
    /\ UNCHANGED <<job, jobEvents, overtaken, writes>>

CancelTask ==
    \/ CancelReads \/ CancelNotFound \/ CancelFails
    \/ \E answered \in BOOLEAN : CancelDeletes(answered)

-----------------------------------------------------------------------------

\* An earlier run of the same execution may have left its pod behind.
Init ==
    /\ job = NoJob
    /\ lastUID \in {0, 1}
    /\ pods \in [UIDs -> {"none", "running", "failed"}]
    /\ \A u \in UIDs : u > lastUID => pods[u] = "none"
    /\ jobEvents = <<>>
    /\ podEvents = <<>>
    /\ standby \in BOOLEAN
    /\ ctx = "live"
    /\ step = "creating"
    /\ created = 0
    /\ observed = NoJob
    /\ fetched = NoJob
    /\ attempts = 0
    /\ result = "none"
    /\ disposition = "termination_required"
    /\ cancelUID = 0
    /\ overtaken = FALSE
    /\ writes = {}

Ended == step \in Over /\ cancelUID = Gone /\ UNCHANGED vars

Next ==
    \/ Cluster
    \/ Executor
    \/ CancelTask
    \/ \E cause \in {"cancelled", "interrupted"} : ContextEnds(cause)
    \/ Ended

Spec == Init /\ [][Next]_vars

\* Every request ends in an answer or a timeout, the ticker ticks, and a select
\* that finds the context done again and again takes that branch.  Watches need
\* not deliver anything.
Fairness ==
    /\ WF_vars(CreateSucceeds \/ CreateFails(FALSE))
    /\ WF_vars(step = "opening" /\ (OpenWatches \/ ObservationFails))
    /\ SF_vars(ContextDone)
    /\ WF_vars(PollJob)
    /\ WF_vars(PollPods)
    /\ WF_vars(BeginCleanup)
    /\ WF_vars(Refresh \/ RefreshFails)
    /\ WF_vars(CheckPods \/ CheckFails)
    /\ WF_vars(PatchNotFound \/ PatchConflicts
               \/ \E b \in BOOLEAN : PatchApplies(b) \/ PatchFails(b))
    /\ WF_vars(DeleteApplies \/ DeleteMoot \/ DeleteFails)

FairSpec == Spec /\ Fairness

-----------------------------------------------------------------------------

\* Every variable has its type, and the attempts stay within the backoff's.
TypeOK ==
    /\ job \in Jobs \cup {NoJob}
    /\ pods \in [UIDs -> PodStates]
    /\ lastUID \in 0..MaxUID
    /\ jobEvents \in Seq(Jobs)
    /\ podEvents \in Seq(PodStates \ {"none"})
    /\ standby \in BOOLEAN
    /\ ctx \in {"live", "cancelled", "interrupted"}
    /\ step \in Steps
    /\ created \in 0..MaxUID
    /\ observed \in Jobs \cup {NoJob}
    /\ fetched \in Jobs \cup {NoJob}
    /\ attempts \in 0..MaxAttempts
    /\ result \in {"none", "create_failed", "completed", "failure", "cancelled"}
    /\ disposition \in {"termination_required", "execution_stopped"}
    /\ cancelUID \in 0..Gone
    /\ overtaken \in BOOLEAN
    /\ writes \in SUBSET [by : {"ExecuteTask", "CancelTask"}, uid : UIDs,
                          ours : BOOLEAN]

\* The worker expires and deletes no Job but its own: ExecuteTask the one it
\* created, CancelTask one with the execution's labels, although Jobs come and
\* go under the name between a read and the write that follows it.
OnlyOwnJob ==
    \A w \in writes : /\ w.by = "ExecuteTask" => w.uid = created
                      /\ w.by = "CancelTask" => w.ours

\* The Job this execution created can still run something.
RunsOn ==
    /\ job.uid = created
    /\ job.state = "active"
    /\ ~job.expired
    /\ pods[created] # "failed"

\* A failure that ExecuteTask returns without an error about stopping leaves no
\* Job behind that can still run, however stale what it decided on was.
FailureStopsJob ==
    step = "returned" /\ result = "failure" /\ (standby => ctx = "live")
        => ~RunsOn

\* README: on task failure, if execution is still possible or unknown, the
\* worker expires the Job.
TaskFailureStopsJob ==
    /\ step = "returned"
    /\ result \in {"failure", "create_failed"}
    /\ standby => ctx = "live"
    => ~RunsOn

\* When the worker stops observing before ExecuteTask has come to a result's
\* cleanup, the Job is left alone for good.
ShutdownPreservesJob ==
    [](ctx = "interrupted" /\ step \in {"opening", "watching", "polling",
                                        "cleaning"}
          => [](\A w \in writes : w.by # "ExecuteTask"))

\* A standby's CancelTask overtook Create, and ExecuteTask, which then deletes
\* the Job itself, has not come to it, was interrupted, failed to, or never got
\* to know of the Job.
LeftToExecuteTask ==
    /\ overtaken
    /\ \/ step \notin Over \cup {"creating"}
       \/ step \in {"detached", "delete_failed"}
       \/ result = "create_failed"

\* A cancellation that CancelTask reports as done has removed the Job, also one
\* whose creation ExecuteTask believes to have failed.  When a standby's was
\* done before the Job was there, ExecuteTask removes it on its way out.
CancelledIsGone ==
    cancelUID = Gone /\ created # 0 => job.uid # created \/ LeftToExecuteTask

\* ExecuteTask returns once its context has ended, which the worker relies on,
\* and once its own Job has finished, even if neither watch delivers anything.
ExecutionEnds ==
    \/ ctx # "live"
    \/ step = "watching" /\ job.uid = created /\ Finished(job)
    ~> step \in Over

-----------------------------------------------------------------------------
\* Why OnlyOwnJob and CancelledIsGone hold: UIDs are given out once, ExecuteTask
\* works on snapshots of the Job it created, and what CancelTask has read as
\* ours is ours as long as it is the Job under the name.

\* ExecuteTask has created its Job and not returned.
Observing == {"opening", "watching", "polling", "cleaning", "refreshing",
              "checking", "patching"}

IdentityInv ==
    /\ job \in Jobs \cup {NoJob}
    /\ lastUID \in 0..MaxUID
    /\ job.uid <= lastUID
    /\ created \in 0..lastUID
    /\ created # 0 /\ job.uid = created => job.ours
    /\ cancelUID \in 0..Gone
    /\ cancelUID \in UIDs =>
           cancelUID <= lastUID /\ (job.uid = cancelUID => job.ours)
    /\ cancelUID # 0 /\ step = "creating" => overtaken
    /\ overtaken => /\ standby /\ ctx # "live"
                    /\ step \notin {"refreshing", "checking", "patching", "stop_failed"}
    /\ step = "creating" => created = 0
    /\ step \in Observing => created \in UIDs /\ observed.uid = created
    /\ step \in {"checking", "patching"} => fetched.uid = created
    /\ step = "creating" => \A w \in writes : w.by # "ExecuteTask"
    /\ OnlyOwnJob
    /\ CancelledIsGone

\* Why FailureStopsJob and ShutdownPreservesJob hold.  No snapshot that the
\* worker has, or that the Job watch will still deliver, is ahead of the Job: a
\* Job that a snapshot shows as finished has finished.
NotAhead(j) ==
    /\ j.uid <= lastUID
    /\ j.uid = job.uid /\ Finished(j) => Finished(job)

\* The deferred cleanup has not written yet.
BeforeCleanup == {"creating", "opening", "watching", "polling", "cleaning"}

StopInv ==
    /\ pods \in [UIDs -> PodStates]
    /\ jobEvents \in Seq(Jobs)
    /\ observed \in Jobs \cup {NoJob}
    /\ fetched \in Jobs \cup {NoJob}
    /\ \A i \in DOMAIN jobEvents : NotAhead(jobEvents[i])
    /\ NotAhead(observed)
    /\ NotAhead(fetched)
    /\ step \in BeforeCleanup \cup {"detached"} => \A w \in writes : w.by # "ExecuteTask"
    /\ step = "deleting" => result = "completed" \/ (standby /\ ctx = "cancelled")
    /\ FailureStopsJob
=============================================================================
