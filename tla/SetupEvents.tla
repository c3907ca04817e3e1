----------------------------- MODULE SetupEvents -----------------------------
(***************************************************************************)
(* Setup phases of a task on the Kubernetes backend                        *)
(* (internal/worker/kubernetes_setup_events.go, setup_events.go):          *)
(* kubernetesSetupPhaseTracker derives each phase from the timestamps in   *)
(* the pod snapshots it is shown and reports it once.  The pod is          *)
(* external.  The tracker may be shown any of its past states, any number  *)
(* of times and in any order: a watch delivers late, a reopened one again, *)
(* and the safety poll overtakes both.                                     *)
(***************************************************************************)
EXTENDS BackendConfig, FiniteSets, SequencesExt

CONSTANT
    InitLists  \* the init containers a pod may have: sequences of kinds

\* A native sidecar, the copy of a sidecar image, the setup command, and the
\* other init containers of a pod template.
Kinds == {"native", "copy", "setup", "custom"}

\* The containers of a pod have different names, and one is named setup.
ASSUME SetupAssumption ==
    /\ InitLists # {} /\ InitLists \subseteq Seq(Kinds)
    /\ \A list \in InitLists : \A i, j \in DOMAIN list :
            list[i] = "setup" /\ list[j] = "setup" => i = j

VARIABLES
    kinds,    \* pod.Spec.InitContainers
    history,  \* the pod's states so far, the last one being the present
    tracker,  \* the kubernetesSetupPhaseTracker
    phases,   \* history: by event, the calls of reportPhase
    newest    \* history: the newest pod state shown to the tracker, 0 before

setupVars == <<kinds, history, tracker, phases, newest>>

Events == {"pod_schedule", "sidecar_prep", "setup_command", "container_start"}

-----------------------------------------------------------------------------
\* The pod.  Its times are in seconds, so that two changes may have the same
\* one; 0 is a time that is not set.

Unstarted == [started |-> 0, finished |-> 0, failed |-> FALSE]
NewPod == [scheduled |-> 0, init |-> [i \in DOMAIN kinds |-> Unstarted], task |-> Unstarted]
Created == 1

Pod == Last(history)
LastTime ==
    Max(UNION {{Created, Pod.scheduled, Pod.task.started, Pod.task.finished},
               {Pod.init[i].started : i \in DOMAIN kinds},
               {Pod.init[i].finished : i \in DOMAIN kinds}})
Times == LastTime..(LastTime + 1)
Change(pod) ==
    /\ history' = Append(history, pod)
    /\ UNCHANGED <<kinds, tracker, phases, newest>>

Succeeded(c) == c.finished # 0 /\ ~c.failed
Running(c) == c.started # 0 /\ c.finished = 0

\* The kubelet goes on past init container i: it has succeeded, or is a native
\* sidecar and runs.
InitPassed(pod, i) ==
    IF kinds[i] = "native" THEN pod.init[i].started # 0 ELSE Succeeded(pod.init[i])

SchedulePod ==
    /\ Pod.scheduled = 0
    /\ \E now \in Times : Change([Pod EXCEPT !.scheduled = now])

StartInit(i) ==
    /\ Pod.scheduled # 0
    /\ Pod.init[i].started = 0
    /\ \A j \in 1..(i - 1) : InitPassed(Pod, j)
    /\ \E now \in Times : Change([Pod EXCEPT !.init[i].started = now])

EndInit(i, failed) ==
    /\ Running(Pod.init[i])
    /\ kinds[i] # "native"
    /\ \E now \in Times : Change([Pod EXCEPT !.init[i].finished = now, !.init[i].failed = failed])

StartTask ==
    /\ Pod.scheduled # 0
    /\ Pod.task.started = 0
    /\ \A i \in DOMAIN kinds : InitPassed(Pod, i)
    /\ \E now \in Times : Change([Pod EXCEPT !.task.started = now])

EndTask ==
    /\ Running(Pod.task)
    /\ \E now \in Times : Change([Pod EXCEPT !.task.finished = now])

\* The kubelet stops native sidecars after the task container.
StopNative(i) ==
    /\ kinds[i] = "native"
    /\ Pod.task.finished # 0
    /\ Running(Pod.init[i])
    /\ \E now \in Times : Change([Pod EXCEPT !.init[i].finished = now])

-----------------------------------------------------------------------------
\* The tracker: what it has reported, its open spans, and whether the span of
\* the execution is open.

NewTracker == [reported |-> {}, live |-> {}, execution |-> FALSE, done |-> FALSE]

Interval(key, start, finish, failed) ==
    [key |-> key, start |-> start, finish |-> finish, failed |-> failed]
Phase(event, start, finish, failed) == Interval(<<event, 0>>, start, finish, failed)

\* The intervals that observeInterval does not pass over.
Usable(t, intervals) ==
    {v \in intervals : /\ v.key \notin t.reported
                       /\ v.start # 0
                       /\ v.finish = 0 \/ v.finish >= v.start}
Complete(intervals) == {v \in intervals : v.finish # 0}
Keys(intervals) == {v.key : v \in intervals}

\* observeSchedule.
SchedulePhase(pod) == {Phase("pod_schedule", Created, pod.scheduled, FALSE)}

\* observeInitContainers: image preparation from the end of what came before to
\* the container's start, and the run time of the template's own containers.
\* The loop stops at the first container that has not passed.
InitIntervals(pod) ==
    LET reached == {i \in DOMAIN kinds : \A j \in 1..(i - 1) : InitPassed(pod, j)}
        anchor(i) == IF i = 1 THEN pod.scheduled
                     ELSE IF kinds[i - 1] = "native" THEN pod.init[i - 1].started
                     ELSE pod.init[i - 1].finished
        own(i) == Interval(<<"init_container", i>>, pod.init[i].started,
                           pod.init[i].finished, pod.init[i].failed)
    IN  {Interval(<<"image_prepare", i>>, anchor(i), pod.init[i].started, FALSE) :
            i \in reached}
        \cup {own(i) : i \in {j \in reached : kinds[j] = "custom"}}

\* observeSidecarPrep: from the first copy's start to the last one's end, or to
\* the failure of one.
Copies(pod) == {pod.init[i] : i \in {j \in DOMAIN kinds : kinds[j] = "copy"}}
Earliest(S) == IF S \ {0} = {} THEN 0 ELSE Min(S \ {0})
Latest(S) == Max(S \cup {0})

\* Mutation: the phase ends with the first copy.
SidecarPhaseAtFirst(pod) ==
    LET failed == \E c \in Copies(pod) : c.failed
        over == failed \/ \E c \in Copies(pod) : c.finished # 0
    IN  {Phase("sidecar_prep", Earliest({c.started : c \in Copies(pod)}),
               IF over THEN Latest({c.finished : c \in Copies(pod)}) ELSE 0, failed)}

SidecarPhase(pod) ==
    LET failed == \E c \in Copies(pod) : c.failed
        over == failed \/ \A c \in Copies(pod) : c.finished # 0
    IN  {Phase("sidecar_prep", Earliest({c.started : c \in Copies(pod)}),
               IF over THEN Latest({c.finished : c \in Copies(pod)}) ELSE 0, failed)}

\* observeSetupCommand.
SetupPhase(pod) ==
    {Phase("setup_command", pod.init[i].started, pod.init[i].finished, pod.init[i].failed) :
        i \in {j \in DOMAIN kinds : kinds[j] = "setup"}}

taskInitFinished(pod) ==
    /\ \A i \in DOMAIN kinds : kinds[i] # "native" => Succeeded(pod.init[i])
    /\ pod.scheduled # 0

\* The end of the last init container, of a stopped native sidecar as well.
taskStartAnchor(pod) ==
    LET finished == {pod.init[i].finished : i \in DOMAIN kinds} \ {0}
    IN  IF finished # {} THEN Max(finished)
        ELSE IF pod.scheduled # 0 THEN pod.scheduled ELSE Created

\* observeTaskStart.
TaskPhase(pod) ==
    IF pod.task.started # 0 \/ taskInitFinished(pod)
    THEN {Phase("container_start", taskStartAnchor(pod), pod.task.started, FALSE)}
    ELSE {}

\* observePod: each phase whose end the snapshot shows is reported, unless it
\* has been.
Intervals(pod) ==
    UNION {SchedulePhase(pod), InitIntervals(pod), SidecarPhase(pod), SetupPhase(pod),
           TaskPhase(pod)}

observePod(n) ==
    LET pod == history[n]
        seen == Usable(tracker, Intervals(pod))
    IN  /\ ~tracker.done
        /\ tracker' = [tracker EXCEPT
                !.reported = @ \cup Keys(Complete(seen)),
                !.live = (@ \cup Keys(seen)) \ Keys(Complete(seen)),
                !.execution = @ \/ pod.task.started # 0]
        /\ phases' = [e \in Events |->
                phases[e] \o SetToSeq({v \in Complete(seen) : v.key = <<e, 0>>})]
        /\ newest' = Max({newest, n})
        /\ UNCHANGED <<kinds, history>>

\* finish: ExecuteTask returns, and the open spans are ended.
FinishTracking ==
    /\ ~tracker.done
    /\ tracker' = [reported |-> tracker.reported \cup tracker.live, live |-> {},
                   execution |-> FALSE, done |-> TRUE]
    /\ UNCHANGED <<kinds, history, phases, newest>>

SetupInit ==
    /\ kinds \in InitialChoice(config.backend = "kubernetes" /\ config.part = "setup", InitLists)
    /\ history = <<NewPod>>
    /\ tracker = NewTracker
    /\ phases = [e \in Events |-> <<>>]
    /\ newest = 0

SetupNext ==
    \/ SchedulePod \/ StartTask \/ EndTask
    \/ \E i \in DOMAIN kinds : \/ StartInit(i) \/ StopNative(i)
                               \/ \E failed \in BOOLEAN : EndInit(i, failed)
    \/ \E n \in DOMAIN history : observePod(n)
    \/ FinishTracking

-----------------------------------------------------------------------------
\* The copies among the init containers, and the one with which they end: the
\* one that has failed, or else the last.
CopyIndexes == {i \in DOMAIN kinds : kinds[i] = "copy"}
FailedCopies(pod) == {i \in CopyIndexes : pod.init[i].failed}
EndingCopy(pod) ==
    IF FailedCopies(pod) # {} THEN Min(FailedCopies(pod)) ELSE Max(CopyIndexes)

\* The phase of an event, if the pod has gone through it, from the order of the
\* pod's containers.
Shown(pod, e) ==
    LET last == EndingCopy(pod)
        steps == {i \in DOMAIN kinds : kinds[i] # "native"}
    IN  CASE e = "pod_schedule" ->
               {Phase(e, Created, pod.scheduled, FALSE) : x \in {pod.scheduled} \ {0}}
          [] e = "sidecar_prep" ->
               {Phase(e, pod.init[Min(CopyIndexes)].started, pod.init[last].finished,
                      FailedCopies(pod) # {}) :
                   x \in {j \in CopyIndexes : pod.init[last].finished # 0}}
          [] e = "setup_command" ->
               {Phase(e, pod.init[i].started, pod.init[i].finished, pod.init[i].failed) :
                   i \in {j \in DOMAIN kinds : kinds[j] = "setup" /\ pod.init[j].finished # 0}}
          [] e = "container_start" ->
               {Phase(e, IF steps = {} THEN pod.scheduled ELSE pod.init[Max(steps)].finished,
                      pod.task.started, FALSE) : x \in {pod.task.started} \ {0}}

NativeStopped(pod) == \E i \in DOMAIN kinds : kinds[i] = "native" /\ pod.init[i].finished # 0
EndsWithStart(intervals, pod) == \A v \in intervals : v.finish \in {pod.task.started} \ {0}

\* Whatever snapshots the tracker has been shown, and in whatever order, it has
\* reported exactly the phases that the newest of them shows, each once and with
\* the pod's own times.  The exception: when that snapshot shows a stopped native
\* sidecar, the start of the task container may be missing or measured from the
\* wrong time, but if it is there it ends with the task's own start.
PhasesMatchPod ==
    \A e \in Events :
        IF newest = 0 THEN phases[e] = <<>>
        ELSE /\ Len(phases[e]) <= 1
             /\ \/ ToSet(phases[e]) = Shown(history[newest], e)
                \/ /\ e = "container_start" /\ NativeStopped(history[newest])
                   /\ EndsWithStart(ToSet(phases[e]), history[newest])

\* Native sidecars never move the anchor of the task container's start, as
\* taskStartAnchor says of them: the phase is reported from the end of the last
\* ordinary init container, whichever snapshots the tracker has been shown.
NativesKeepAnchor ==
    newest # 0 =>
        ToSet(phases["container_start"]) = Shown(history[newest], "container_start")

-----------------------------------------------------------------------------
\* What keeps it so.  The times of a pod follow the order in which the kubelet
\* runs its containers: each after those before it, the task after all of them.
Containers == [started : Nat, finished : Nat, failed : BOOLEAN]
PodStates == [scheduled : Nat, init : [DOMAIN kinds -> Containers], task : Containers]

\* Init container i is out of the way of one that starts at this time.
PassedBy(pod, i, time) ==
    /\ InitPassed(pod, i)
    /\ pod.init[i].started <= time
    /\ kinds[i] # "native" => pod.init[i].finished <= time

PodOrder(pod) ==
    /\ \A i \in DOMAIN kinds :
          /\ pod.init[i].finished # 0 =>
                pod.init[i].started # 0 /\ pod.init[i].started <= pod.init[i].finished
          /\ pod.init[i].failed => pod.init[i].finished # 0
          /\ pod.init[i].started # 0 =>
                \A j \in 1..(i - 1) : PassedBy(pod, j, pod.init[i].started)
    /\ pod.task.started # 0 =>
          /\ pod.scheduled # 0 /\ pod.scheduled <= pod.task.started
          /\ \A i \in DOMAIN kinds : PassedBy(pod, i, pod.task.started)

\* A time that is set stays as it is.
Later(old, new) ==
    /\ old.scheduled # 0 => new.scheduled = old.scheduled
    /\ old.task.started # 0 => new.task.started = old.task.started
    /\ \A i \in DOMAIN kinds :
          /\ old.init[i].started # 0 => new.init[i].started = old.init[i].started
          /\ old.init[i].finished # 0 => new.init[i] = old.init[i]

HistoryInv ==
    /\ kinds \in InitLists
    /\ history \in Seq(PodStates) /\ history # <<>>
    /\ \A n \in DOMAIN history : PodOrder(history[n])
    /\ \A m, n \in DOMAIN history : m <= n => Later(history[m], history[n])

\* The invariant of the setup phases: until the tracker is finished, what it
\* holds for reported is what it has reported.
SetupInv ==
    /\ HistoryInv
    /\ DOMAIN tracker = {"reported", "live", "execution", "done"}
    /\ newest \in 0..Len(history)
    /\ DOMAIN phases = Events
    /\ \A e \in Events : phases[e] # <<>> => phases[e] = <<phases[e][1]>>
    /\ ~tracker.done => \A e \in Events : <<e, 0>> \in tracker.reported <=> phases[e] # <<>>
    /\ PhasesMatchPod
=============================================================================
