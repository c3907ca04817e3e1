-------------------------- MODULE KubernetesProofs --------------------------
(***************************************************************************)
(* That the worker never writes to a Job other than its own, that a        *)
(* cancellation reported as done has removed the Job or, for a standby,    *)
(* left it to ExecuteTask, and that failures and shutdowns leave the right *)
(* Jobs alone, for any number of Jobs that come and go under the name.     *)
(***************************************************************************)
EXTENDS KubernetesJob, TLAPS

\* A new version of a Job keeps its identity, whatever else changes.
LEMMA SameJob ==
    ASSUME NEW j \in Jobs, NEW s \in {"active", "complete", "failed"},
           NEW e \in BOOLEAN
    PROVE  /\ [Updated(j) EXCEPT !.state = s] \in Jobs
           /\ [Updated(j) EXCEPT !.state = s].uid = j.uid
           /\ [Updated(j) EXCEPT !.state = s].ours = j.ours
           /\ [Updated(j) EXCEPT !.expired = e] \in Jobs
           /\ [Updated(j) EXCEPT !.expired = e].uid = j.uid
           /\ [Updated(j) EXCEPT !.expired = e].ours = j.ours
<1>1. ASSUME NEW i \in Jobs, NEW v \in Nat
      PROVE  /\ [i EXCEPT !.version = v] \in Jobs
             /\ [i EXCEPT !.version = v].uid = i.uid
             /\ [i EXCEPT !.version = v].ours = i.ours
  BY DEF Jobs
<1>2. ASSUME NEW i \in Jobs
      PROVE  /\ [i EXCEPT !.state = s] \in Jobs
             /\ [i EXCEPT !.state = s].uid = i.uid
             /\ [i EXCEPT !.state = s].ours = i.ours
  BY DEF Jobs
<1>3. ASSUME NEW i \in Jobs
      PROVE  /\ [i EXCEPT !.expired = e] \in Jobs
             /\ [i EXCEPT !.expired = e].uid = i.uid
             /\ [i EXCEPT !.expired = e].ours = i.ours
  BY DEF Jobs
<1>4. j.version + 1 \in Nat
  BY DEF Jobs
<1>5. Updated(j) \in Jobs /\ Updated(j).uid = j.uid /\ Updated(j).ours = j.ours
  BY <1>1, <1>4 DEF Updated
<1> HIDE DEF Updated
<1> QED
  BY <1>2, <1>3, <1>5

\* A Job that has a state is no NoJob.
LEMMA RealJob ==
    ASSUME job \in Jobs \cup {NoJob},
           job # NoJob \/ job.uid # 0 \/ job.state = "active"
    PROVE  job \in Jobs /\ job.uid \in UIDs /\ job.ours \in BOOLEAN
BY DEF Jobs, NoJob

\* The Job a create stores has the next UID.
LEMMA FreshJob ==
    ASSUME lastUID \in 0..MaxUID, lastUID < MaxUID,
           NEW ours \in BOOLEAN
    PROVE  /\ NewJob(lastUID + 1, ours) \in Jobs
           /\ NewJob(lastUID + 1, ours).uid = lastUID + 1
           /\ NewJob(lastUID + 1, ours).ours = ours
BY KubernetesAssumption DEF NewJob, Jobs, UIDs

\* The cluster's own steps: a Job keeps its identity or gives way to one with
\* a UID that was never used.
LEMMA ClusterKeeps ==
    ASSUME IdentityInv, Cluster
    PROVE  IdentityInv'
<1> USE DEF IdentityInv, OnlyOwnJob, CancelledIsGone, LeftToExecuteTask, callVars,
            execVars, cancelVars, Observing, Over
<1>1. CASE PodCreated \/ \E u \in UIDs : PodChanges(u) \/ PodCollected(u)
  BY <1>1 DEF PodCreated, PodChanges, PodCollected, SetPod, StorePod
<1>2. CASE JobFinishes \/ DeadlinePasses
  <2>1. job \in Jobs
    BY <1>2, RealJob DEF JobFinishes, DeadlinePasses
  <2>2. /\ UNCHANGED <<lastUID, callVars, execVars, cancelVars, writes>>
        /\ \E s \in {"active", "complete", "failed"} :
               job' = [Updated(job) EXCEPT !.state = s]
    <3>1. CASE JobFinishes
      BY <3>1, Zenon DEF JobFinishes, SetJob
    <3>2. CASE DeadlinePasses
      BY <3>2, Zenon DEF DeadlinePasses, SetJob
    <3> QED
      BY <1>2, <3>1, <3>2
  <2>3. PICK t \in {"active", "complete", "failed"} :
            job' = [Updated(job) EXCEPT !.state = t]
    BY <2>2
  <2>4. job' \in Jobs /\ job'.uid = job.uid /\ job'.ours = job.ours
    BY <2>1, <2>3, SameJob, Zenon
  <2> QED
    BY <2>2, <2>4
<1>3. CASE JobRemoved
  BY <1>3, KubernetesAssumption DEF JobRemoved, SetJob, NoJob, UIDs
<1>4. CASE \E ours \in BOOLEAN : JobReplaced(ours)
  <2>1. /\ job' \in Jobs /\ job'.uid = lastUID + 1 /\ lastUID' = lastUID + 1
        /\ lastUID < MaxUID
        /\ UNCHANGED <<callVars, execVars, cancelVars, writes>>
    BY <1>4, FreshJob DEF JobReplaced, SetJob
  <2> QED
    BY <2>1, KubernetesAssumption DEF UIDs, Gone
<1> QED
  BY <1>1, <1>2, <1>3, <1>4 DEF Cluster

\* CancelTask deletes only what it has read as ours.
LEMMA CancelKeeps ==
    ASSUME IdentityInv, CancelTask
    PROVE  IdentityInv'
<1> USE KubernetesAssumption
    DEF IdentityInv, OnlyOwnJob, CancelledIsGone, LeftToExecuteTask, callVars, execVars,
        Observing, Over, SetCancel, UIDs, Gone, NoJob
<1>1. CASE CancelReads
  <2>0. /\ UNCHANGED <<job, lastUID, standby, ctx, step, created, observed, fetched, result,
                       writes>>
        /\ step \in Over \/ (standby /\ ctx # "live")
        /\ \/ cancelUID' = job.uid /\ job.ours
           \/ cancelUID' = Gone /\ ~job.ours
    BY <1>1 DEF CancelReads
  <2>0a. overtaken' <=> step = "creating"
    BY <1>1, Zenon DEF CancelReads
  <2>1. CASE job \in Jobs
    <3>1. job.uid \in 1..MaxUID
      BY <2>1 DEF Jobs
    <3> QED
      BY <2>0, <2>0a, <3>1
  <2>2. CASE job = NoJob
    BY <2>0, <2>0a, <2>2
  <2> QED
    BY <2>1, <2>2
<1>2. CASE \E answered \in BOOLEAN : CancelDeletes(answered)
  BY <1>2 DEF CancelDeletes, SetJob, Record
<1>3. CASE CancelNotFound
  BY <1>3 DEF CancelNotFound
<1>4. CASE CancelFails
  BY <1>4 DEF CancelFails
<1> QED
  BY <1>1, <1>2, <1>3, <1>4 DEF CancelTask

\* ExecuteTask: what it writes to is the Job it created, because every snapshot
\* it goes by was compared with that UID.
LEMMA ExecutorKeeps ==
    ASSUME IdentityInv, Executor
    PROVE  IdentityInv'
<1> USE DEF IdentityInv, OnlyOwnJob, CancelledIsGone, LeftToExecuteTask, Observing, Over,
            clusterVars, watchVars, callVars, execVars, cancelVars
<1>1. CASE CreateSucceeds \/ \E applied \in BOOLEAN : CreateFails(applied)
  <2>1. CASE CreateSucceeds
    <3>1. job' \in Jobs /\ job'.uid = lastUID + 1 /\ job'.ours
      BY <2>1, FreshJob DEF CreateSucceeds
    <3>2. /\ lastUID' = lastUID + 1 /\ lastUID < MaxUID
          /\ created' = lastUID + 1
          /\ observed' = job'
          /\ step = "creating" /\ step' = "opening"
          /\ UNCHANGED <<standby, ctx, fetched, cancelUID, overtaken, writes>>
      BY <2>1 DEF CreateSucceeds
    <3>3. cancelUID # 0 => overtaken
      BY <3>2
    <3> QED
      BY <3>1, <3>2, <3>3, KubernetesAssumption DEF UIDs, Gone
  <2>2. ASSUME CreateFails(TRUE)
        PROVE  IdentityInv'
    <3>1. job' \in Jobs /\ job'.uid = lastUID + 1 /\ job'.ours
      BY <2>2, FreshJob DEF CreateFails
    <3>2. /\ lastUID' = lastUID + 1 /\ lastUID < MaxUID
          /\ created' = lastUID + 1
          /\ step = "creating" /\ step' = "returned" /\ result' = "create_failed"
          /\ UNCHANGED <<standby, ctx, observed, fetched, cancelUID, overtaken, writes>>
      BY <2>2 DEF CreateFails
    <3>3. cancelUID # 0 => overtaken
      BY <3>2
    <3> QED
      BY <3>1, <3>2, <3>3, KubernetesAssumption DEF UIDs, Gone
  <2>3. ASSUME CreateFails(FALSE)
        PROVE  IdentityInv'
    BY <2>3, KubernetesAssumption DEF CreateFails, UIDs, Gone
  <2> QED
    BY <1>1, <2>1, <2>2, <2>3
<1>2. CASE OpenWatches \/ JobWatchReopens \/ PodWatchReopens
  BY <1>2 DEF OpenWatches, JobWatchReopens, PodWatchReopens
<1>3. CASE ObservationFails \/ ContextDone \/ PodEvent
  BY <1>3 DEF ObservationFails, ContextDone, PodEvent, PodFailure, Decide
<1>4. CASE JobEvent
  BY <1>4 DEF JobEvent, HandleJob, Decide
<1>5. CASE PollJob
  BY <1>5 DEF PollJob, HandleJob, Decide
<1>6. CASE PollPods
  BY <1>6 DEF PollPods, PodFailure, Decide, Goto
<1>7. CASE BeginCleanup
  BY <1>7 DEF BeginCleanup, Goto
<1>8. CASE Refresh \/ RefreshFails
  BY <1>8 DEF Refresh, RefreshFails, Expire, Goto
<1>9. CASE CheckPods \/ CheckFails
  BY <1>9 DEF CheckPods, CheckFails, Goto
<1>10. CASE \E answered \in BOOLEAN : PatchApplies(answered)
  <2>1. /\ step = "patching"
        /\ job.uid = fetched.uid
        /\ job' = [Updated(job) EXCEPT !.expired = TRUE]
        /\ step' \in {"returned", "refreshing", "stop_failed"}
        /\ writes' = writes \cup
               {[by |-> "ExecuteTask", uid |-> job.uid, ours |-> job.ours]}
        /\ UNCHANGED <<standby, ctx, lastUID, created, observed, fetched, cancelUID, overtaken>>
    BY <1>10, Zenon DEF PatchApplies, Record, Retry
  <2>2. job.uid = created /\ created \in UIDs
    BY <2>1
  <2>3. job \in Jobs
    BY <2>2, KubernetesAssumption DEF NoJob, UIDs
  <2>4. job' \in Jobs /\ job'.uid = job.uid /\ job'.ours = job.ours
    BY <2>1, <2>3, SameJob, Zenon
  <2> QED
    BY <2>1, <2>2, <2>4
<1>11. CASE PatchNotFound
  BY <1>11 DEF PatchNotFound, Goto
<1>12. CASE PatchConflicts \/ \E transient \in BOOLEAN : PatchFails(transient)
  BY <1>12 DEF PatchConflicts, PatchFails, Retry
<1>13. CASE DeleteApplies
  BY <1>13, KubernetesAssumption DEF DeleteApplies, Record, NoJob, UIDs, Gone
<1>14. CASE DeleteMoot \/ DeleteFails
  BY <1>14 DEF DeleteMoot, DeleteFails, Goto
<1> QED
  BY <1>1, <1>2, <1>3, <1>4, <1>5, <1>6, <1>7, <1>8, <1>9, <1>10, <1>11,
     <1>12, <1>13, <1>14 DEF Executor

\* The identity invariant holds in every reachable state: it holds initially,
\* and the cluster, ExecuteTask, CancelTask and the worker's cancellation of the
\* context all preserve it.
THEOREM IdentityCorrect == Spec => []IdentityInv
<1>1. Init => IdentityInv
  BY KubernetesAssumption
  DEF Init, IdentityInv, OnlyOwnJob, CancelledIsGone, NoJob, UIDs, Gone,
      Observing, Over
<1>2. IdentityInv /\ [Next]_vars => IdentityInv'
  <2> SUFFICES ASSUME IdentityInv, [Next]_vars PROVE IdentityInv'
    OBVIOUS
  <2>1. CASE \/ \E cause \in {"cancelled", "interrupted"} : ContextEnds(cause)
             \/ Ended \/ UNCHANGED vars
    BY <2>1 DEF ContextEnds, Ended, vars, clusterVars, watchVars, callVars, execVars, cancelVars,
                IdentityInv, OnlyOwnJob, CancelledIsGone, LeftToExecuteTask, Observing, Over
  <2> QED
    BY <2>1, ClusterKeeps, ExecutorKeeps, CancelKeeps DEF Next
<1> QED
  BY <1>1, <1>2, PTL DEF Spec

\* The worker expires and deletes no Job but its own, whatever Jobs other
\* clients put under the name between its reads and its writes.
THEOREM OwnJobOnly == Spec => []OnlyOwnJob
<1>1. IdentityInv => OnlyOwnJob
  BY DEF IdentityInv
<1> QED
  BY <1>1, IdentityCorrect, PTL

\* CancelTask returns without an error only when the Job this execution created
\* is gone for good or, for a standby whose CancelTask overtook Create, when
\* ExecuteTask is the one to delete it.
THEOREM CancelRemoves == Spec => []CancelledIsGone
<1>1. IdentityInv => CancelledIsGone
  BY DEF IdentityInv
<1> QED
  BY <1>1, IdentityCorrect, PTL

-----------------------------------------------------------------------------
\* How the Job under the name may change: it stays the same Job, which does not
\* come back to life, or is gone, or is one that never was there before.
Evolves ==
    /\ job \in Jobs \cup {NoJob}
    /\ job' \in Jobs \cup {NoJob}
    /\ lastUID \in Nat
    /\ lastUID' \in Nat
    /\ lastUID <= lastUID'
    /\ \/ job'.uid = job.uid /\ (Finished(job) => Finished(job'))
       \/ job' = NoJob
       \/ job'.uid > lastUID

\* No change of the Job puts a snapshot ahead of it.
LEMMA StaysBehind ==
    ASSUME Evolves, NEW j \in Jobs \cup {NoJob}, NotAhead(j)
    PROVE  NotAhead(j)'
BY DEF Evolves, NotAhead, Finished, Jobs, NoJob, UIDs

\* The snapshots stay behind the Job when it changes, and so does one that an
\* open watch adds.
LEMMA SnapshotsStayBehind ==
    ASSUME StopInv, Evolves, UNCHANGED <<observed, fetched>>,
           NEW j \in Jobs, NotAhead(j)',
           jobEvents' \in {jobEvents, <<>>, Append(jobEvents, j)}
    PROVE  /\ jobEvents' \in Seq(Jobs)
           /\ \A i \in DOMAIN jobEvents' : NotAhead(jobEvents[i])'
           /\ NotAhead(observed)'
           /\ NotAhead(fetched)'
<1>1. NotAhead(observed)' /\ NotAhead(fetched)'
  BY StaysBehind DEF StopInv, NotAhead
<1>2. ASSUME NEW i \in DOMAIN jobEvents
      PROVE  NotAhead(jobEvents[i])' \/ jobEvents' # jobEvents
  BY StaysBehind DEF StopInv, NotAhead
<1>3. CASE jobEvents' = jobEvents
  BY <1>1, <1>2, <1>3 DEF StopInv
<1>4. CASE jobEvents' = <<>>
  BY <1>1, <1>4
<1>5. CASE jobEvents' = Append(jobEvents, j)
  <2>1. ASSUME NEW i \in DOMAIN jobEvents'
        PROVE  NotAhead(jobEvents[i])'
    <3>1. CASE i \in DOMAIN jobEvents
      <4>1. jobEvents'[i] = jobEvents[i] /\ jobEvents[i] \in Jobs
        BY <1>5, <3>1 DEF StopInv
      <4>2. NotAhead(jobEvents[i])
        BY <3>1 DEF StopInv
      <4> QED
        BY <4>1, <4>2, StaysBehind DEF NotAhead
    <3>2. CASE i \notin DOMAIN jobEvents
      <4>1. jobEvents'[i] = j
        BY <1>5, <2>1, <3>2 DEF StopInv
      <4> QED
        BY <4>1 DEF NotAhead
    <3> QED
      BY <3>1, <3>2
  <2>2. jobEvents' \in Seq(Jobs)
    BY <1>5 DEF StopInv
  <2> QED
    BY <1>1, <2>1, <2>2
<1> QED
  BY <1>3, <1>4, <1>5

\* The cluster's own steps preserve the invariant: a finished Job stays
\* finished, and a failed pod is not replaced.
LEMMA ClusterStops ==
    ASSUME IdentityInv, StopInv, Cluster
    PROVE  StopInv'
<1>1. /\ UNCHANGED <<standby, ctx, step, created, observed, fetched, result, writes>>
      /\ lastUID \in 0..MaxUID /\ created \in 0..lastUID /\ job.uid <= lastUID
      /\ job \in Jobs \cup {NoJob}
  <2>1. CASE PodCreated \/ \E u \in UIDs : PodChanges(u) \/ PodCollected(u)
    BY <2>1 DEF PodCreated, PodChanges, PodCollected, SetPod, IdentityInv, execVars, callVars
  <2>2. CASE JobFinishes \/ DeadlinePasses \/ JobRemoved \/ \E ours \in BOOLEAN : JobReplaced(ours)
    BY <2>2, Zenon DEF JobFinishes, DeadlinePasses, JobRemoved, JobReplaced, IdentityInv,
                       execVars, callVars
  <2> QED
    BY <2>1, <2>2 DEF Cluster
<1>2. CASE PodCreated \/ \E u \in UIDs : PodChanges(u) \/ PodCollected(u)
  <2>1. /\ UNCHANGED <<job, lastUID, jobEvents>>
        /\ \E u \in UIDs, s \in PodStates :
              /\ pods' = [pods EXCEPT ![u] = s]
              /\ u = job.uid => pods[u] # "failed"
    <3>1. CASE PodCreated
      <4>1. job.uid \in UIDs
        BY <3>1, RealJob, <1>1 DEF PodCreated
      <4> QED
        BY <3>1, <4>1 DEF PodCreated, SetPod, StorePod, PodStates
    <3>2. CASE \E u \in UIDs : PodChanges(u)
      <4>1. PICK u \in UIDs, m \in PodMoves : pods[u] = m[1] /\ SetPod(u, m[2])
        BY <3>2 DEF PodChanges
      <4>2. m[2] \in PodStates /\ m[1] # "failed"
        BY DEF PodMoves, PodStates
      <4> QED
        BY <4>1, <4>2 DEF SetPod, StorePod
    <3>3. CASE \E u \in UIDs : PodCollected(u)
      BY <3>3 DEF PodCollected, SetPod, StorePod, PodStates
    <3> QED
      BY <1>2, <3>1, <3>2, <3>3
  <2>2. pods' \in [UIDs -> PodStates]
    BY <2>1 DEF StopInv
  <2>3. RunsOn' => RunsOn
    BY <1>1, <2>1 DEF RunsOn, StopInv
  <2> QED
    BY <1>1, <2>1, <2>2, <2>3 DEF StopInv, NotAhead, FailureStopsJob
<1>3. CASE JobFinishes \/ DeadlinePasses
  <2>1. job \in Jobs /\ job.uid \in UIDs
    BY <1>1, <1>3, RealJob DEF JobFinishes, DeadlinePasses
  <2>2. PICK t \in {"complete", "failed"} :
            /\ job' = [Updated(job) EXCEPT !.state = t]
            /\ jobEvents' \in {jobEvents, Append(jobEvents, job')}
            /\ UNCHANGED lastUID
    BY <1>3, Zenon DEF JobFinishes, DeadlinePasses, SetJob
  <2>3. job' \in Jobs /\ job'.uid = job.uid
    BY <2>1, <2>2, SameJob, Zenon
  <2>4. Finished(job')
    <3>1. Updated(job) \in Jobs
      <4>1. job.version + 1 \in Nat
        BY <2>1 DEF Jobs
      <4> QED
        BY <2>1, <4>1 DEF Updated, Jobs
    <3> HIDE DEF Updated
    <3> QED
      BY <2>2, <3>1 DEF Finished, Jobs
  <2>5. Evolves
    BY <1>1, <2>1, <2>2, <2>3, <2>4, KubernetesAssumption DEF Evolves
  <2>6. PICK j \in Jobs : j = job'
    BY <2>3
  <2>6a. NotAhead(j)'
    BY <1>1, <2>2, <2>3, <2>4, <2>6 DEF NotAhead
  <2>7. pods' \in [UIDs -> PodStates]
    <3>1. CASE JobFinishes
      BY <3>1 DEF JobFinishes, StopInv
    <3>2. CASE DeadlinePasses
      BY <3>2, <2>1 DEF DeadlinePasses, StorePod, StopInv, PodStates
    <3> QED
      BY <1>3, <3>1, <3>2
  <2>8. ~RunsOn'
    BY <2>4 DEF RunsOn, Finished
  <2>9. /\ jobEvents' \in Seq(Jobs)
        /\ \A i \in DOMAIN jobEvents' : NotAhead(jobEvents[i])'
        /\ NotAhead(observed)' /\ NotAhead(fetched)'
    BY <1>1, <2>2, <2>3, <2>5, <2>6, <2>6a, SnapshotsStayBehind
  <2> QED
    BY <1>1, <2>7, <2>8, <2>9 DEF StopInv, FailureStopsJob
<1>4. CASE JobRemoved
  <2>1. job \in Jobs /\ job' = NoJob /\ UNCHANGED <<lastUID, pods>>
        /\ jobEvents' \in {jobEvents, Append(jobEvents, job)}
    BY <1>1, <1>4, Zenon DEF JobRemoved, SetJob
  <2>2. Evolves
    BY <1>1, <2>1, KubernetesAssumption DEF Evolves
  <2>3. ASSUME NEW j \in Jobs, j = job PROVE NotAhead(j)'
    BY <1>1, <2>1, <2>3 DEF NotAhead, NoJob, Jobs, UIDs
  <2>4. ~RunsOn'
    BY <2>1 DEF RunsOn, NoJob
  <2>5. /\ jobEvents' \in Seq(Jobs)
        /\ \A i \in DOMAIN jobEvents' : NotAhead(jobEvents[i])'
        /\ NotAhead(observed)' /\ NotAhead(fetched)'
    <3>1. PICK j \in Jobs : j = job
      BY <2>1
    <3> QED
      BY <1>1, <2>1, <2>2, <2>3, <3>1, SnapshotsStayBehind
  <2> QED
    BY <1>1, <2>1, <2>4, <2>5 DEF StopInv, FailureStopsJob
<1>5. CASE \E ours \in BOOLEAN : JobReplaced(ours)
  <2>1. /\ job' \in Jobs /\ job'.uid = lastUID + 1 /\ lastUID' = lastUID + 1
        /\ lastUID < MaxUID /\ UNCHANGED pods
        /\ jobEvents' \in {jobEvents, Append(jobEvents, job')}
    BY <1>1, <1>5, FreshJob DEF JobReplaced, SetJob
  <2>2. Evolves
    BY <1>1, <2>1, KubernetesAssumption DEF Evolves
  <2>3. PICK j \in Jobs : j = job'
    BY <2>1
  <2>3a. NotAhead(j)'
    BY <1>1, <2>1, <2>3, KubernetesAssumption DEF NotAhead
  <2>4. ~RunsOn'
    BY <1>1, <2>1, KubernetesAssumption DEF RunsOn
  <2>5. /\ jobEvents' \in Seq(Jobs)
        /\ \A i \in DOMAIN jobEvents' : NotAhead(jobEvents[i])'
        /\ NotAhead(observed)' /\ NotAhead(fetched)'
    BY <1>1, <2>1, <2>2, <2>3, <2>3a, SnapshotsStayBehind
  <2> QED
    BY <1>1, <2>1, <2>4, <2>5 DEF StopInv, FailureStopsJob
<1> QED
  BY <1>2, <1>3, <1>4, <1>5 DEF Cluster

\* CancelTask only removes the Job.
LEMMA CancelStops ==
    ASSUME IdentityInv, StopInv, CancelTask
    PROVE  StopInv'
<1>1. /\ UNCHANGED <<pods, lastUID, standby, ctx, step, created, observed, fetched, result>>
      /\ \A w \in writes' \ writes : w.by # "ExecuteTask"
      /\ \/ UNCHANGED <<job, jobEvents>>
         \/ /\ job.uid \in UIDs /\ job' = NoJob
            /\ jobEvents' \in {jobEvents, Append(jobEvents, job)}
  <2>1. CASE CancelReads \/ CancelNotFound \/ CancelFails
    BY <2>1 DEF CancelReads, CancelNotFound, CancelFails, SetCancel, execVars, callVars
  <2>2. CASE \E answered \in BOOLEAN : CancelDeletes(answered)
    BY <2>2 DEF CancelDeletes, SetCancel, SetJob, Record, execVars, callVars
  <2> QED
    BY <2>1, <2>2 DEF CancelTask
<1>2. lastUID \in 0..MaxUID /\ job.uid <= lastUID /\ job \in Jobs \cup {NoJob}
  BY DEF IdentityInv
<1>3. CASE UNCHANGED <<job, jobEvents>>
  <2>1. \A j : NotAhead(j) => NotAhead(j)'
    BY <1>1, <1>3 DEF NotAhead
  <2> QED
    BY <1>1, <1>3, <2>1 DEF StopInv, NotAhead, FailureStopsJob, RunsOn
<1>4. CASE job.uid \in UIDs /\ job' = NoJob /\ jobEvents' \in {jobEvents, Append(jobEvents, job)}
  <2>1. job \in Jobs
    BY <1>2, <1>4 DEF NoJob, UIDs
  <2>2. Evolves
    BY <1>1, <1>2, <1>4, KubernetesAssumption DEF Evolves
  <2>3. ASSUME NEW j \in Jobs, j = job PROVE NotAhead(j)'
    BY <1>1, <1>2, <1>4, <2>3 DEF NotAhead, NoJob, Jobs, UIDs
  <2>4. ~RunsOn'
    BY <1>4 DEF RunsOn, NoJob
  <2>5. /\ jobEvents' \in Seq(Jobs)
        /\ \A i \in DOMAIN jobEvents' : NotAhead(jobEvents[i])'
        /\ NotAhead(observed)' /\ NotAhead(fetched)'
    <3>1. PICK j \in Jobs : j = job
      BY <2>1
    <3> QED
      BY <1>1, <1>4, <2>2, <2>3, <3>1, SnapshotsStayBehind
  <2> QED
    BY <1>1, <2>4, <2>5 DEF StopInv, FailureStopsJob
<1> QED
  BY <1>1, <1>3, <1>4

\* A step of ExecuteTask that leaves the cluster alone.
LEMMA QuietStep ==
    ASSUME StopInv,
           UNCHANGED <<job, lastUID, pods, created, standby, ctx, writes>>,
           jobEvents' \in Seq(Jobs),
           \A i \in DOMAIN jobEvents' : jobEvents'[i] = job \/
                \E k \in DOMAIN jobEvents : jobEvents'[i] = jobEvents[k],
           job.uid <= lastUID,
           \/ observed' \in {observed} \cup (Jobs \cap {job})
           \/ \E k \in DOMAIN jobEvents : observed' = jobEvents[k],
           fetched' \in {fetched, observed} \cup (Jobs \cap {job}),
           step' \in BeforeCleanup \cup {"detached"} =>
                step \in BeforeCleanup \cup {"detached"},
           step' = "deleting" =>
                result' = "completed" \/ (standby /\ ctx = "cancelled"),
           FailureStopsJob'
    PROVE  StopInv'
<1>1. ASSUME NEW j, NotAhead(j) PROVE NotAhead(j)'
  BY <1>1 DEF NotAhead
<1>2. NotAhead(job)
  BY DEF NotAhead
<1>3. NotAhead(observed)'
  <2>1. NotAhead(observed')
    BY <1>2 DEF StopInv
  <2> QED
    BY <2>1 DEF NotAhead
<1>4. NotAhead(fetched)'
  <2>1. NotAhead(fetched')
    BY <1>2 DEF StopInv
  <2> QED
    BY <2>1 DEF NotAhead
<1>5. ASSUME NEW i \in DOMAIN jobEvents' PROVE NotAhead(jobEvents[i])'
  <2>1. NotAhead(jobEvents'[i])
    BY <1>2 DEF StopInv
  <2> QED
    BY <2>1 DEF NotAhead
<1>6. observed' \in Jobs \cup {NoJob} /\ fetched' \in Jobs \cup {NoJob}
  BY DEF StopInv
<1> QED
  BY <1>3, <1>4, <1>5, <1>6 DEF StopInv

\* ExecuteTask: what it returns as stopped it has seen finished, has seen gone,
\* has expired, or has no pod that could run.
LEMMA ExecutorStops ==
    ASSUME IdentityInv, StopInv, Executor
    PROVE  StopInv'
<1> USE DEF clusterVars, watchVars, callVars, execVars, BeforeCleanup
<1>1. /\ lastUID \in 0..MaxUID /\ created \in 0..lastUID /\ job.uid <= lastUID
      /\ job \in Jobs \cup {NoJob}
      /\ jobEvents \in Seq(Jobs)
      /\ observed \in Jobs \cup {NoJob}
      /\ fetched \in Jobs \cup {NoJob}
      /\ step \in Observing => created \in UIDs /\ observed.uid = created
      /\ step \in {"checking", "patching"} => fetched.uid = created
  BY DEF IdentityInv, StopInv
<1>1a. ASSUME jobEvents' = jobEvents \/ jobEvents' = <<>>
       PROVE  /\ jobEvents' \in Seq(Jobs)
              /\ \A i \in DOMAIN jobEvents' :
                    \E k \in DOMAIN jobEvents : jobEvents'[i] = jobEvents[k]
  <2>1. CASE jobEvents' = jobEvents
    BY <1>1, <2>1
  <2>2. CASE jobEvents' = <<>>
    BY <2>2
  <2> QED
    BY <1>1a, <2>1, <2>2
<1>2. CASE CreateSucceeds \/ \E applied \in BOOLEAN : CreateFails(applied)
  <2>1. /\ UNCHANGED <<pods, jobEvents, fetched, standby, ctx, writes>>
        /\ step = "creating" /\ step' \in {"opening", "returned"}
        /\ step' = "returned" => result' = "create_failed"
        /\ observed' \in {observed, job'}
    BY <1>2 DEF CreateSucceeds, CreateFails
  <2>2. \/ UNCHANGED <<job, lastUID, observed>>
        \/ /\ job' \in Jobs /\ job'.uid = lastUID + 1
           /\ lastUID' = lastUID + 1
    <3>1. CASE CreateSucceeds
      BY <1>1, <3>1, FreshJob DEF CreateSucceeds
    <3>2. CASE CreateFails(TRUE)
      BY <1>1, <3>2, FreshJob DEF CreateFails
    <3>3. CASE CreateFails(FALSE)
      BY <3>3 DEF CreateFails
    <3> QED
      BY <1>2, <3>1, <3>2, <3>3
  <2>3. CASE UNCHANGED <<job, lastUID, observed>>
    BY <2>1, <2>3 DEF StopInv, NotAhead, FailureStopsJob
  <2>4. CASE job' \in Jobs /\ job'.uid = lastUID + 1 /\ lastUID' = lastUID + 1
    <3>1. Evolves
      BY <1>1, <2>4, KubernetesAssumption DEF Evolves
    <3>2. ASSUME NEW i \in DOMAIN jobEvents PROVE NotAhead(jobEvents[i])'
      BY <1>1, <2>1, <3>1, StaysBehind DEF StopInv, NotAhead
    <3>3. NotAhead(fetched)'
      BY <1>1, <2>1, <3>1, StaysBehind DEF StopInv, NotAhead
    <3>4. NotAhead(observed)'
      <4>1. CASE observed' = observed
        BY <1>1, <4>1, <3>1, StaysBehind DEF StopInv, NotAhead
      <4>2. CASE observed' = job'
        BY <1>1, <2>4, <4>2, KubernetesAssumption DEF NotAhead
      <4> QED
        BY <2>1, <4>1, <4>2
    <3>5. observed' \in Jobs \cup {NoJob}
      BY <1>1, <2>1, <2>4
    <3>6. FailureStopsJob'
      BY <2>1 DEF FailureStopsJob
    <3> QED
      BY <2>1, <3>2, <3>3, <3>4, <3>5, <3>6 DEF StopInv
  <2> QED
    BY <2>2, <2>3, <2>4
<1>3. CASE OpenWatches \/ JobWatchReopens \/ PodWatchReopens
  <2>1. /\ UNCHANGED <<job, lastUID, pods, created, standby, ctx, writes, observed, fetched>>
        /\ jobEvents' \in {jobEvents, CurrentJob}
        /\ step \in {"opening", "watching"} /\ step' = "watching"
    BY <1>3 DEF OpenWatches, JobWatchReopens, PodWatchReopens
  <2>2. CASE jobEvents' = jobEvents
    BY <1>1, <2>1, <2>2, QuietStep DEF FailureStopsJob
  <2>3. CASE jobEvents' = CurrentJob
    <3>1. CurrentJob \in Seq(Jobs) /\ \A i \in DOMAIN CurrentJob : CurrentJob[i] = job
      BY <1>1 DEF CurrentJob
    <3> QED
      BY <1>1, <2>1, <2>3, <3>1, QuietStep DEF FailureStopsJob
  <2> QED
    BY <2>1, <2>2, <2>3
<1>4. CASE ObservationFails \/ ContextDone \/ PodEvent \/ PollPods
  <2>1. /\ UNCHANGED <<job, lastUID, pods, created, standby, ctx, writes, observed, fetched>>
        /\ (jobEvents' = jobEvents \/ jobEvents' = <<>>)
        /\ step \in {"opening", "watching", "polling"} /\ step' \in {"watching", "cleaning"}
    BY <1>4 DEF ObservationFails, ContextDone, PodEvent, PollPods, PodFailure, Decide, Goto
  <2> QED
    BY <1>1, <1>1a, <2>1, QuietStep DEF FailureStopsJob
<1>5. CASE JobEvent
  <2>1. /\ UNCHANGED <<job, lastUID, pods, created, standby, ctx, writes, fetched>>
        /\ jobEvents # <<>> /\ (jobEvents' = <<>> \/ jobEvents' = Tail(jobEvents))
        /\ step = "watching" /\ step' \in {"watching", "cleaning"}
        /\ observed' \in {observed, Head(jobEvents)}
    BY <1>5 DEF JobEvent, HandleJob, Decide
  <2>2. /\ 1 \in DOMAIN jobEvents /\ Head(jobEvents) = jobEvents[1]
        /\ Tail(jobEvents) \in Seq(Jobs)
        /\ \A i \in DOMAIN Tail(jobEvents) :
              i + 1 \in DOMAIN jobEvents /\ Tail(jobEvents)[i] = jobEvents[i + 1]
    BY <1>1, <2>1
  <2>3. /\ jobEvents' \in Seq(Jobs)
        /\ \A i \in DOMAIN jobEvents' :
              \E k \in DOMAIN jobEvents : jobEvents'[i] = jobEvents[k]
    <3>1. CASE jobEvents' = <<>>
      BY <3>1, <1>1a
    <3>2. CASE jobEvents' = Tail(jobEvents)
      BY <2>2, <3>2
    <3> QED
      BY <2>1, <3>1, <3>2
  <2> QED
    BY <1>1, <2>1, <2>2, <2>3, QuietStep DEF FailureStopsJob
<1>6. CASE PollJob
  <2>1. /\ UNCHANGED <<job, lastUID, pods, created, standby, ctx, writes, fetched>>
        /\ (jobEvents' = jobEvents \/ jobEvents' = <<>>)
        /\ step = "watching" /\ step' \in {"polling", "cleaning"}
        /\ observed' = observed \/ (job # NoJob /\ observed' = job)
    <3>1. CASE job = NoJob
      BY <1>6, <3>1 DEF PollJob, Decide
    <3>2. CASE job # NoJob
      BY <1>6, <3>2 DEF PollJob, HandleJob, Decide
    <3> QED
      BY <3>1, <3>2
  <2> QED
    BY <1>1, <1>1a, <2>1, QuietStep DEF FailureStopsJob
<1>7. CASE BeginCleanup
  <2>1. /\ UNCHANGED <<job, lastUID, pods, created, standby, ctx, writes, jobEvents, observed,
                       fetched, result>>
        /\ step = "cleaning"
        /\ step' = "deleting" => result = "completed" \/ (standby /\ ctx = "cancelled")
        /\ step' = "returned" => result = "completed" \/ Finished(observed)
    BY <1>7 DEF BeginCleanup, Goto
  <2>2. Finished(observed) => ~RunsOn'
    <3>1. observed.uid = created
      BY <1>1, <2>1 DEF Observing
    <3> QED
      BY <2>1, <3>1 DEF StopInv, NotAhead, RunsOn, Finished
  <2>3. FailureStopsJob'
    BY <2>1, <2>2 DEF FailureStopsJob
  <2> QED
    BY <1>1, <2>1, <2>3, QuietStep
<1>8. CASE Refresh \/ RefreshFails
  <2>1. /\ UNCHANGED <<job, lastUID, pods, created, standby, ctx, writes, jobEvents, observed>>
        /\ step = "refreshing"
        /\ step' \in {"stop_failed", "returned", "checking", "patching"}
        /\ \/ job = NoJob /\ fetched' = fetched
           \/ job # NoJob /\ fetched' = job
              /\ (step' = "returned" => job.uid = observed.uid /\ Finished(job))
           \/ fetched' = observed
              /\ (step' = "returned" => Finished(observed))
    BY <1>8 DEF Refresh, RefreshFails, Expire, Goto
  <2>2. step' = "returned" => ~RunsOn'
    <3>1. observed.uid = created
      BY <1>1, <2>1 DEF Observing
    <3> QED
      BY <2>1, <3>1 DEF StopInv, NotAhead, RunsOn, Finished, NoJob
  <2>3. FailureStopsJob'
    BY <2>2 DEF FailureStopsJob
  <2> QED
    BY <1>1, <2>1, <2>3, QuietStep
<1>9. CASE CheckPods \/ CheckFails
  <2>1. /\ UNCHANGED <<job, lastUID, pods, created, standby, ctx, writes, jobEvents, observed,
                       fetched>>
        /\ step = "checking"
        /\ step' \in {"returned", "patching"}
        /\ step' = "returned" => pods[fetched.uid] = "failed"
    BY <1>9 DEF CheckPods, CheckFails, Goto, jobPodsStopped
  <2>2. FailureStopsJob'
    BY <1>1, <2>1 DEF FailureStopsJob, RunsOn
  <2> QED
    BY <1>1, <2>1, <2>2, QuietStep
<1>10. CASE \E answered \in BOOLEAN : PatchApplies(answered)
  <2>1. /\ step = "patching"
        /\ job.uid = fetched.uid
        /\ job' = [Updated(job) EXCEPT !.expired = TRUE]
        /\ step' \in {"returned", "refreshing", "stop_failed"}
        /\ UNCHANGED <<pods, lastUID, jobEvents, standby, ctx, created, observed, fetched,
                       result>>
    BY <1>10, Zenon DEF PatchApplies, Retry
  <2>2. job \in Jobs
    BY <1>1, <2>1, KubernetesAssumption DEF NoJob, UIDs, Observing
  <2>3. Updated(job) \in Jobs /\ Updated(job).uid = job.uid /\ Updated(job).state = job.state
    <3>1. job.version + 1 \in Nat
      BY <2>2 DEF Jobs
    <3> QED
      BY <2>2, <3>1 DEF Updated, Jobs
  <2>4. job' \in Jobs /\ job'.uid = job.uid /\ job'.state = job.state /\ job'.expired
    <3> HIDE DEF Updated
    <3> QED
      BY <2>1, <2>3 DEF Jobs
  <2>5. Evolves
    BY <1>1, <2>1, <2>4, KubernetesAssumption DEF Evolves, Finished
  <2>6. NotAhead(observed)' /\ NotAhead(fetched)'
    BY <1>1, <2>1, <2>5, StaysBehind DEF StopInv, NotAhead
  <2>7. ASSUME NEW i \in DOMAIN jobEvents PROVE NotAhead(jobEvents[i])'
    <3>1. jobEvents[i] \in Jobs /\ NotAhead(jobEvents[i]) /\ jobEvents' = jobEvents
      BY <1>1, <2>1 DEF StopInv
    <3> QED
      BY <2>5, <3>1, StaysBehind DEF NotAhead
  <2>8. FailureStopsJob'
    BY <2>4 DEF FailureStopsJob, RunsOn
  <2> QED
    BY <1>1, <2>1, <2>6, <2>7, <2>8 DEF StopInv
<1>11. CASE \/ PatchNotFound \/ PatchConflicts
            \/ \E transient \in BOOLEAN : PatchFails(transient)
  <2>1. /\ UNCHANGED <<job, lastUID, pods, created, standby, ctx, writes, jobEvents, observed,
                       fetched>>
        /\ step = "patching"
        /\ step' \in {"returned", "refreshing", "stop_failed"}
        /\ step' = "returned" => job = NoJob
    BY <1>11 DEF PatchNotFound, PatchConflicts, PatchFails, Retry, Goto
  <2>2. FailureStopsJob'
    BY <2>1 DEF FailureStopsJob, RunsOn, NoJob
  <2> QED
    BY <1>1, <2>1, <2>2, QuietStep
<1>12. CASE DeleteApplies
  <2>1. /\ step = "deleting" /\ step' = "returned" /\ job' = NoJob
        /\ UNCHANGED <<pods, lastUID, jobEvents, standby, ctx, created, observed, fetched>>
    BY <1>12 DEF DeleteApplies
  <2>2. Evolves
    BY <1>1, <2>1, KubernetesAssumption DEF Evolves
  <2>3. NotAhead(observed)' /\ NotAhead(fetched)'
    BY <1>1, <2>1, <2>2, StaysBehind DEF StopInv, NotAhead
  <2>4. ASSUME NEW i \in DOMAIN jobEvents PROVE NotAhead(jobEvents[i])'
    BY <1>1, <2>1, <2>2, StaysBehind DEF StopInv, NotAhead
  <2>5. FailureStopsJob'
    BY <2>1 DEF FailureStopsJob, RunsOn, NoJob
  <2> QED
    BY <1>1, <2>1, <2>3, <2>4, <2>5 DEF StopInv
<1>13. CASE DeleteMoot \/ DeleteFails
  <2>1. /\ UNCHANGED <<job, lastUID, pods, created, standby, ctx, writes, jobEvents, observed,
                       fetched, result>>
        /\ step = "deleting" /\ step' \in {"returned", "delete_failed"}
    BY <1>13 DEF DeleteMoot, DeleteFails, Goto
  <2>2. FailureStopsJob'
    BY <2>1 DEF FailureStopsJob, StopInv
  <2> QED
    BY <1>1, <2>1, <2>2, QuietStep
<1> QED
  BY <1>2, <1>3, <1>4, <1>5, <1>6, <1>7, <1>8, <1>9, <1>10, <1>11, <1>12, <1>13 DEF Executor

\* The invariant on snapshots holds in every reachable state.
THEOREM StopCorrect == Spec => []StopInv
<1>1. Init => StopInv
  <2> SUFFICES ASSUME Init PROVE StopInv
    OBVIOUS
  <2>1. jobEvents \in Seq(Jobs) /\ DOMAIN jobEvents = {}
    BY DEF Init
  <2>2. lastUID \in Nat
    BY DEF Init
  <2> QED
    BY <2>1, <2>2 DEF Init, StopInv, NotAhead, Finished, NoJob, PodStates, FailureStopsJob
<1>2. IdentityInv /\ StopInv /\ [Next]_vars => StopInv'
  <2> SUFFICES ASSUME IdentityInv, StopInv, [Next]_vars PROVE StopInv'
    OBVIOUS
  <2>1. CASE \E cause \in {"cancelled", "interrupted"} : ContextEnds(cause)
    <3>1. /\ UNCHANGED <<standby, clusterVars, watchVars, execVars, writes>>
          /\ ctx = "live"
      BY <2>1 DEF ContextEnds
    <3> QED
      BY <3>1 DEF StopInv, NotAhead, FailureStopsJob, RunsOn, clusterVars, watchVars, execVars
  <2>2. CASE Ended \/ UNCHANGED vars
    BY <2>2 DEF Ended, vars, clusterVars, watchVars, callVars, execVars, StopInv, NotAhead,
                FailureStopsJob, RunsOn
  <2> QED
    BY <2>1, <2>2, ClusterStops, ExecutorStops, CancelStops DEF Next
<1> QED
  BY <1>1, <1>2, IdentityCorrect, PTL DEF Spec

\* A failure that ExecuteTask returns leaves no Job behind that can still run,
\* although it decides on snapshots that are out of date by then.
THEOREM FailureStops == Spec => []FailureStopsJob
<1>1. StopInv => FailureStopsJob
  BY DEF StopInv
<1> QED
  BY <1>1, StopCorrect, PTL

\* The worker's shutdown has ended the observation, and ExecuteTask has written
\* to no Job.
Detaching ==
    /\ ctx = "interrupted"
    /\ step \in {"opening", "watching", "polling", "cleaning", "detached"}
    /\ \A w \in writes : w.by # "ExecuteTask"

\* Once a shutdown has interrupted ExecuteTask before its cleanup, ExecuteTask
\* never expires or deletes a Job: the cleanup itself asks for the cause.
THEOREM ShutdownPreserves == Spec => ShutdownPreservesJob
<1>1. StopInv /\ ctx = "interrupted" /\ step \in {"opening", "watching", "polling", "cleaning"}
        => Detaching
  BY DEF StopInv, Detaching, BeforeCleanup
<1>2. Detaching /\ [Next]_vars => Detaching'
  <2> SUFFICES ASSUME Detaching, [Next]_vars PROVE Detaching'
    OBVIOUS
  <2> USE DEF Detaching, clusterVars, watchVars, callVars, execVars
  <2>1. CASE Cluster
    <3>1. UNCHANGED <<ctx, step, writes>>
      <4>1. CASE PodCreated \/ \E u \in UIDs : PodChanges(u) \/ PodCollected(u)
        BY <4>1 DEF PodCreated, PodChanges, PodCollected, SetPod
      <4>2. CASE \/ JobFinishes \/ DeadlinePasses \/ JobRemoved
                 \/ \E ours \in BOOLEAN : JobReplaced(ours)
        BY <4>2, Zenon DEF JobFinishes, DeadlinePasses, JobRemoved, JobReplaced
      <4> QED
        BY <2>1, <4>1, <4>2 DEF Cluster
    <3> QED
      BY <3>1
  <2>2. CASE CancelTask
    BY <2>2 DEF CancelTask, CancelReads, CancelDeletes, CancelNotFound, CancelFails, SetCancel,
                Record
  <2>3. CASE Executor
    <3>1. CASE \/ OpenWatches \/ JobWatchReopens \/ PodWatchReopens \/ ObservationFails
               \/ ContextDone \/ PodEvent \/ PollPods
      BY <3>1 DEF OpenWatches, JobWatchReopens, PodWatchReopens, ObservationFails, ContextDone,
                  PodEvent, PollPods, PodFailure, Decide, Goto
    <3>2. CASE JobEvent \/ PollJob
      BY <3>2 DEF JobEvent, PollJob, HandleJob, Decide
    <3>3. CASE BeginCleanup
      BY <3>3 DEF BeginCleanup, Goto
    <3>4. CASE \/ CreateSucceeds \/ \E applied \in BOOLEAN : CreateFails(applied)
               \/ Refresh \/ RefreshFails \/ CheckPods \/ CheckFails
               \/ \E answered \in BOOLEAN : PatchApplies(answered)
               \/ PatchNotFound \/ PatchConflicts
               \/ \E transient \in BOOLEAN : PatchFails(transient)
               \/ DeleteApplies \/ DeleteMoot \/ DeleteFails
      BY <3>4 DEF CreateSucceeds, CreateFails, Refresh, RefreshFails, CheckPods, CheckFails,
                  PatchApplies, PatchNotFound, PatchConflicts, PatchFails, DeleteApplies,
                  DeleteMoot, DeleteFails
    <3> QED
      BY <2>3, <3>1, <3>2, <3>3, <3>4 DEF Executor
  <2>4. CASE \/ \E cause \in {"cancelled", "interrupted"} : ContextEnds(cause)
             \/ Ended \/ UNCHANGED vars
    BY <2>4 DEF ContextEnds, Ended, vars
  <2> QED
    BY <2>1, <2>2, <2>3, <2>4 DEF Next
<1>3. Detaching => \A w \in writes : w.by # "ExecuteTask"
  BY DEF Detaching
<1> QED
  BY <1>1, <1>2, <1>3, StopCorrect, PTL DEF Spec, ShutdownPreservesJob
=============================================================================
