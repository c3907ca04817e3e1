---------------------------- MODULE DockerBackend ----------------------------
(***************************************************************************)
(* Runs on the Docker backend (internal/worker/docker.go): ExecuteTask     *)
(* resolves the task's image, fills one shared volume per sidecar image,   *)
(* and creates, starts and awaits a container, which CancelTask may have   *)
(* to remove later.  The Docker daemon is external: any request to it may  *)
(* fail, the answer to one it carried out may be lost, and containers and  *)
(* volumes outlive the worker process.  So is the registry, where a tag    *)
(* may move to another digest at any time.                                 *)
(***************************************************************************)
EXTENDS BackendConfig

CONSTANTS
    DockerRuns,    \* what the server asks the backend to run: see Params
    TaskImage,     \* params.DockerImage
    SidecarLists,  \* the params.Sidecars that a run may have
    MaxDigest,     \* bound: digests that a tag ever has
    MaxCrashes     \* bound: crashes of the worker process

ASSUME DockerAssumption ==
    /\ DockerRuns \subseteq Params
    /\ SidecarLists # {}
    /\ SidecarLists \subseteq Seq([image : STRING, mountPath : STRING])
    /\ MaxDigest \in Nat \ {0}
    /\ MaxCrashes \in Nat

VARIABLES
    registry,       \* the digest each tag has in the registry
    images,         \* the digest each tag has locally, or Absent
    volumes,        \* by name: what a volume holds, or NoVolume
    extraction,     \* by name: the extraction container mounting the volume
    containers,     \* each run's container
    docker,         \* each run's call of ExecuteTask
    gate,           \* sidecarVolumeState.gate: the run that holds it, if any
    dirty,          \* sidecarVolumeState.dirty: the volumes not known complete
    taskContainers, \* by key: "none", "unknown" (an empty ID) or "known"
    removed,        \* history: the runs for which CancelTask returned nil
    cut,            \* history: volumes a crash found half filled
    crashes         \* number of crashes

daemonVars == <<registry, images, volumes, extraction, containers>>
dockerVars == <<daemonVars, docker, gate, dirty, taskContainers, removed, cut, crashes>>

\* Digests are numbered in the order in which they were pushed.  A Foreign
\* image is one for another platform than the daemon's.
Absent == 0
Foreign == MaxDigest + 1
Empty == MaxDigest + 2
Digests == 1..MaxDigest

SidecarImages ==
    (UNION {{list[i].image : i \in DOMAIN list} : list \in SidecarLists}) \ {Unset}
Images == SidecarImages \cup {TaskImage}
Volumes == SidecarImages \X (Digests \cup {Foreign})

NoVolume == [content |-> Absent, complete |-> FALSE]

\* The label and key of a run's container.
dockerUnitIdentity(p) ==
    IF IsStandby(p) THEN <<p.standbyID, Unset>> ELSE <<p.taskID, p.executionID>>

\* The server gives out IDs once: a sandbox's is no task's.
ASSUME UnitAssumption ==
    \A p, q \in DockerRuns :
        IsStandby(p) /\ ~IsStandby(q) => dockerUnitIdentity(p) # dockerUnitIdentity(q)

Started == {p \in DockerRuns : docker[p].pc # "idle"}
Ended == {"completed", "failed", "lost"}
CtxLive(p) == docker[p].ctx = "live"

NewCall(sidecars) ==
    [pc |-> "idle", ctx |-> "live", sidecars |-> sidecars, next |-> 1, volume |-> <<>>,
     binds |-> {}, outcome |-> "none"]

\* Go on at pc, or return, which ends the call's context as well as its locals.
Goto(p, pc) == docker' = [docker EXCEPT ![p].pc = pc]
Returned(outcome) == [NewCall(<<>>) EXCEPT !.pc = outcome]
Return(p, outcome) == docker' = [docker EXCEPT ![p] = Returned(outcome)]
Fail(p) == Return(p, "failed")

-----------------------------------------------------------------------------
\* Images.

validateImagePlatform(digest) == digest \in Digests

\* What the local image may be after pullImage, with and without success.
\* Docker may resolve a pull to an image for another platform.
pullImage(im) == {registry[im], Foreign}

\* prepareImage of the configured pull policy: the pairs <<the local image, the
\* call succeeded>> it may end with.  A pull may fail after it has replaced the
\* image.
prepareImage(im) ==
    LET reuse == {<<images[im], validateImagePlatform(images[im])>>}
        pull == {<<d, validateImagePlatform(d)>> : d \in pullImage(im)}
                    \cup {<<d, FALSE>> : d \in pullImage(im)}
    IN  CASE config.pullPolicy = "Never" -> reuse
          [] config.pullPolicy = "IfNotPresent" /\ images[im] # Absent -> reuse
          [] OTHER -> pull

\* Run p resolves image im and goes on at pc.
ResolveImage(p, im, pc) ==
    \/ /\ CtxLive(p)
       /\ \E r \in prepareImage(im) :
            /\ images' = [images EXCEPT ![im] = r[1]]
            /\ IF r[2] THEN Goto(p, pc) ELSE Fail(p)
       /\ UNCHANGED <<registry, volumes, extraction, containers>>
    \/ /\ Fail(p)
       /\ UNCHANGED daemonVars

volumeVars == <<gate, dirty>>
trackVars == <<taskContainers, removed, cut, crashes>>

\* ExecuteTask.  Invalid IDs and conflicting variables fail before anything
\* is done.
StartDocker(p) ==
    /\ docker[p].pc = "idle"
    /\ Goto(p, "image")
    /\ UNCHANGED <<daemonVars, volumeVars, trackVars>>

PrepareTaskImage(p) ==
    /\ docker[p].pc = "image"
    /\ ResolveImage(p, TaskImage, "sidecar")
    /\ UNCHANGED <<volumeVars, trackVars>>

-----------------------------------------------------------------------------
\* Sidecar volumes: prepareSidecars takes the sidecars one after the other.

Sidecar(p) == docker[p].sidecars[docker[p].next]
InvalidSidecar(p) ==
    \/ Sidecar(p).image = Unset
    \/ Sidecar(p).mountPath = Unset
    \/ \E i \in 1..(docker[p].next - 1) :
            docker[p].sidecars[i].mountPath = Sidecar(p).mountPath

PrepareSidecar(p) ==
    /\ docker[p].pc = "sidecar"
    /\ IF docker[p].next > Len(docker[p].sidecars)
       THEN Goto(p, "create") /\ UNCHANGED daemonVars
       ELSE IF InvalidSidecar(p) THEN Fail(p) /\ UNCHANGED daemonVars
       ELSE ResolveImage(p, Sidecar(p).image, "digest")
    /\ UNCHANGED <<volumeVars, trackVars>>

\* The repository and the digest; another run may have pulled the tag again
\* since prepareImage.
sanitizeVolumeName(im, digest) == <<im, digest>>

ReadDigest(p) ==
    /\ docker[p].pc = "digest"
    /\ \/ /\ CtxLive(p)
          /\ images[Sidecar(p).image] # Absent
          /\ docker' = [docker EXCEPT
                ![p].volume = sanitizeVolumeName(Sidecar(p).image, images[Sidecar(p).image]),
                ![p].pc = "gate"]
       \/ Fail(p)
    /\ UNCHANGED <<daemonVars, volumeVars, trackVars>>

\* Mutation: the gate is waited for without the context.
AcquireForever(p) ==
    /\ docker[p].pc = "gate"
    /\ gate[docker[p].volume] = {}
    /\ gate' = [gate EXCEPT ![docker[p].volume] = {p}]
    /\ Goto(p, IF docker[p].volume \in dirty THEN "clean" ELSE "inspect")
    /\ UNCHANGED <<daemonVars, dirty, trackVars>>

AcquireGate(p) ==
    /\ docker[p].pc = "gate"
    /\ \/ /\ gate[docker[p].volume] = {}
          /\ gate' = [gate EXCEPT ![docker[p].volume] = {p}]
          /\ Goto(p, IF docker[p].volume \in dirty THEN "clean" ELSE "inspect")
       \/ /\ ~CtxLive(p)
          /\ Fail(p)
          /\ UNCHANGED gate
    /\ UNCHANGED <<daemonVars, dirty, trackVars>>

\* The deferred Release, as prepareSidecarVolume returns an error.
FailVolume(p) ==
    /\ Fail(p)
    /\ gate' = [gate EXCEPT ![docker[p].volume] = {}]

\* VolumeRemove: the daemon refuses it while a container mounts the volume.
RemoveVolume(v) ==
    /\ extraction[v] # "running"
    /\ volumes' = [volumes EXCEPT ![v] = NoVolume]
    /\ extraction' = [extraction EXCEPT ![v] = "none"]
    /\ UNCHANGED <<registry, images, containers>>

CleanVolume(p) ==
    /\ docker[p].pc = "clean"
    /\ \/ /\ CtxLive(p)
          /\ RemoveVolume(docker[p].volume)
          /\ \/ /\ dirty' = dirty \ {docker[p].volume}
                /\ Goto(p, "inspect")
                /\ UNCHANGED gate
             \/ FailVolume(p) /\ UNCHANGED dirty
       \/ FailVolume(p) /\ UNCHANGED <<daemonVars, dirty>>
    /\ UNCHANGED trackVars

\* The volume is bound, and the next sidecar's turn comes.
Bind(p) ==
    /\ gate' = [gate EXCEPT ![docker[p].volume] = {}]
    /\ docker' = [docker EXCEPT ![p].binds = @ \cup {docker[p].volume},
                                ![p].next = @ + 1, ![p].volume = <<>>,
                                ![p].pc = "sidecar"]

InspectVolume(p) ==
    /\ docker[p].pc = "inspect"
    /\ \/ /\ CtxLive(p)
          /\ volumes[docker[p].volume] # NoVolume
          /\ Bind(p)
          /\ UNCHANGED dirty
       \/ /\ CtxLive(p)
          /\ volumes[docker[p].volume] = NoVolume
          /\ dirty' = dirty \cup {docker[p].volume}
          /\ Goto(p, "make")
          /\ UNCHANGED gate
       \/ FailVolume(p) /\ UNCHANGED dirty
    /\ UNCHANGED <<daemonVars, trackVars>>

\* VolumeCreate, whose answer may be lost.  The new volume is empty.
CreateVolume(p) ==
    /\ docker[p].pc = "make"
    /\ \/ /\ CtxLive(p)
          /\ volumes' = [volumes EXCEPT ![docker[p].volume].content = Empty]
          /\ \/ Goto(p, "copy") /\ UNCHANGED gate
             \/ FailVolume(p)
       \/ FailVolume(p) /\ UNCHANGED volumes
    /\ UNCHANGED <<registry, images, extraction, containers, dirty, trackVars>>

\* copySidecarFilesystemToVolume: it exports a container of whatever image the
\* tag has now, and starts a second one that extracts the export.
StartCopy(p) ==
    /\ docker[p].pc = "copy"
    /\ \/ /\ CtxLive(p)
          /\ images[Sidecar(p).image] \in Digests
          /\ volumes' = [volumes EXCEPT ![docker[p].volume].content = images[Sidecar(p).image]]
          /\ extraction' = [extraction EXCEPT ![docker[p].volume] = "running"]
          /\ Goto(p, "extract")
       \/ /\ Goto(p, "discard")
          /\ UNCHANGED <<volumes, extraction>>
    /\ UNCHANGED <<registry, images, containers, volumeVars, trackVars>>

\* The extraction container exits: with success when the worker has fed it the
\* whole export, otherwise its input ends early.  It is removed by itself.
Fed(v) == \E p \in gate[v] : docker[p].pc = "extract"
ExtractionEnds(v, outcome) ==
    /\ extraction[v] = "running"
    /\ outcome = "ok" => Fed(v)
    /\ extraction' = [extraction EXCEPT ![v] = IF Fed(v) THEN outcome ELSE "none"]
    /\ volumes' = [volumes EXCEPT ![v].complete = (outcome = "ok")]
    /\ UNCHANGED <<registry, images, containers, docker, volumeVars, trackVars>>

\* ContainerWait on the extraction container; an error leaves it running.
WaitExtraction(p) ==
    /\ docker[p].pc = "extract"
    /\ \/ /\ CtxLive(p)
          /\ extraction[docker[p].volume] = "ok"
          /\ dirty' = dirty \ {docker[p].volume}
          /\ extraction' = [extraction EXCEPT ![docker[p].volume] = "none"]
          /\ Bind(p)
       \/ /\ \/ extraction[docker[p].volume] = "failed"
             \/ ~CtxLive(p)
             \/ extraction[docker[p].volume] = "running"
          /\ Goto(p, "discard")
          /\ UNCHANGED <<extraction, volumeVars>>
    /\ UNCHANGED <<registry, images, volumes, containers, trackVars>>

\* Mutation: the volume counts as clean although its removal failed.
DiscardUnchecked(p) ==
    /\ docker[p].pc = "discard"
    /\ \/ RemoveVolume(docker[p].volume)
       \/ UNCHANGED daemonVars
    /\ dirty' = dirty \ {docker[p].volume}
    /\ FailVolume(p)
    /\ UNCHANGED trackVars

\* The incomplete volume is removed under a context that the run's end does not
\* cancel; when that fails, too, the volume stays dirty.
DiscardVolume(p) ==
    /\ docker[p].pc = "discard"
    /\ \/ RemoveVolume(docker[p].volume) /\ dirty' \in {dirty, dirty \ {docker[p].volume}}
       \/ UNCHANGED <<daemonVars, dirty>>
    /\ FailVolume(p)
    /\ UNCHANGED trackVars

-----------------------------------------------------------------------------
\* The run's container.

Track(p, id) ==
    taskContainers' = [taskContainers EXCEPT ![dockerUnitIdentity(p)] = id]
SetContainer(p, s) ==
    /\ containers' = [containers EXCEPT ![p] = s]
    /\ UNCHANGED <<registry, images, volumes, extraction>>

\* Mutation: a failed create forgets the container.
CreateUntracked(p) ==
    /\ docker[p].pc = "create"
    /\ \/ CtxLive(p) /\ Track(p, "known") /\ SetContainer(p, "created") /\ Goto(p, "start")
       \/ Track(p, "none") /\ UNCHANGED daemonVars /\ Fail(p)
       \/ CtxLive(p) /\ Track(p, "none") /\ SetContainer(p, "created") /\ Fail(p)
    /\ UNCHANGED <<volumeVars, removed, cut, crashes>>

\* The key is stored with an empty ID first, and stays so unless the daemon
\* answers: with the ID, or with a refusal that shows that nothing was created.
CreateContainer(p) ==
    /\ docker[p].pc = "create"
    /\ \/ CtxLive(p) /\ Track(p, "known") /\ SetContainer(p, "created") /\ Goto(p, "start")
       \/ CtxLive(p) /\ Track(p, "none") /\ UNCHANGED daemonVars /\ Fail(p)
       \/ Track(p, "unknown") /\ UNCHANGED daemonVars /\ Fail(p)
       \/ CtxLive(p) /\ Track(p, "unknown") /\ SetContainer(p, "created") /\ Fail(p)
    /\ UNCHANGED <<volumeVars, removed, cut, crashes>>

\* ExecuteTask ends with this outcome once the deferred cleanup has run.
Cleanup(p, outcome) ==
    docker' = [docker EXCEPT ![p].pc = "cleanup", ![p].outcome = outcome]

StartContainer(p) ==
    /\ docker[p].pc = "start"
    /\ \/ CtxLive(p) /\ SetContainer(p, "running") /\ (Goto(p, "wait") \/ Cleanup(p, "failed"))
       \/ Cleanup(p, "failed") /\ UNCHANGED daemonVars
    /\ UNCHANGED <<volumeVars, trackVars>>

\* ContainerWait.  With NoCleanup an exited container is kept but no longer
\* tracked, unless the daemon could not tell how it exited.
AwaitContainer(p) ==
    /\ docker[p].pc = "wait"
    /\ \/ /\ CtxLive(p)
          /\ containers[p] = "exited"
          /\ \E outcome \in {"completed", "failed"} : Cleanup(p, outcome)
          /\ IF config.noCleanup
             THEN Track(p, "none") \/ UNCHANGED taskContainers
             ELSE UNCHANGED taskContainers
       \/ Cleanup(p, "failed") /\ UNCHANGED taskContainers
    /\ UNCHANGED <<daemonVars, volumeVars, removed, cut, crashes>>

\* ContainerRemove with Force.
RemoveContainer(p) == SetContainer(p, "none") /\ Track(p, "none")

CleanupContainer(p) ==
    /\ docker[p].pc = "cleanup"
    /\ Return(p, docker[p].outcome)
    /\ \/ ~config.noCleanup /\ RemoveContainer(p)
       \/ ~config.noCleanup /\ SetContainer(p, "none") /\ UNCHANGED taskContainers
       \/ UNCHANGED <<daemonVars, taskContainers>>
    /\ UNCHANGED <<volumeVars, removed, cut, crashes>>

\* CancelTask, which the worker calls once ExecuteTask has returned.  A standby
\* is left to the end of its context.
CancelDocker(p) ==
    /\ docker[p].pc \in {"completed", "failed"}
    /\ p \notin removed
    /\ \/ /\ IsStandby(p) \/ taskContainers[dockerUnitIdentity(p)] = "none"
          /\ UNCHANGED <<daemonVars, taskContainers>>
       \/ /\ ~IsStandby(p)
          /\ taskContainers[dockerUnitIdentity(p)] = "known"
          /\ RemoveContainer(p)
    /\ removed' = removed \cup {p}
    /\ UNCHANGED <<docker, volumeVars, cut, crashes>>

-----------------------------------------------------------------------------
\* The surroundings.

ContainerExits(p) ==
    /\ containers[p] = "running"
    /\ SetContainer(p, "exited")
    /\ UNCHANGED <<docker, volumeVars, trackVars>>

\* The run's context ends: it is cancelled, or the worker shuts down.
EndDockerContext(p) ==
    /\ CtxLive(p)
    /\ docker[p].pc \notin {"idle"} \cup Ended
    /\ docker' = [docker EXCEPT ![p].ctx = "done"]
    /\ UNCHANGED <<daemonVars, volumeVars, trackVars>>

PushTag(im) ==
    /\ registry[im] < MaxDigest
    /\ registry' = [registry EXCEPT ![im] = @ + 1]
    /\ UNCHANGED <<images, volumes, extraction, containers, docker, volumeVars, trackVars>>

\* The process dies and another one starts: gates, dirty marks and tracked
\* containers are gone, the daemon's objects are not.
CrashDocker ==
    /\ crashes < MaxCrashes
    /\ Started # {}
    /\ crashes' = crashes + 1
    /\ docker' = [p \in DockerRuns |->
                    IF p \in Started THEN Returned("lost") ELSE docker[p]]
    /\ gate' = [v \in Volumes |-> {}]
    /\ dirty' = {}
    /\ taskContainers' = [k \in DOMAIN taskContainers |-> "none"]
    /\ cut' = cut \cup {v \in Volumes : volumes[v] # NoVolume /\ ~volumes[v].complete}
    /\ UNCHANGED <<daemonVars, removed>>

DockerInit ==
    /\ registry = [im \in Images |-> 1]
    /\ images \in InitialChoice(config.backend = "docker", [Images -> {Absent, 1}])
    /\ volumes = [v \in Volumes |-> NoVolume]
    /\ extraction = [v \in Volumes |-> "none"]
    /\ containers = [p \in DockerRuns |-> "none"]
    /\ \E lists \in InitialChoice(config.backend = "docker", [DockerRuns -> SidecarLists]) :
            docker = [p \in DockerRuns |-> NewCall(lists[p])]
    /\ gate = [v \in Volumes |-> {}]
    /\ dirty = {}
    /\ taskContainers = [k \in {dockerUnitIdentity(p) : p \in DockerRuns} |-> "none"]
    /\ removed = {}
    /\ cut = {}
    /\ crashes = 0

\* A step of ExecuteTask that waits for nothing but the daemon and the gate.
DockerStep(p) ==
    \/ PrepareTaskImage(p) \/ PrepareSidecar(p) \/ ReadDigest(p) \/ AcquireGate(p)
    \/ CleanVolume(p) \/ InspectVolume(p) \/ CreateVolume(p) \/ StartCopy(p)
    \/ WaitExtraction(p) \/ DiscardVolume(p)
    \/ CreateContainer(p) \/ StartContainer(p) \/ AwaitContainer(p) \/ CleanupContainer(p)

DockerNext ==
    \/ \E p \in DockerRuns : \/ StartDocker(p) \/ DockerStep(p) \/ CancelDocker(p)
                       \/ ContainerExits(p) \/ EndDockerContext(p)
    \/ \E v \in Volumes, outcome \in {"ok", "failed"} : ExtractionEnds(v, outcome)
    \/ \E im \in SidecarImages : PushTag(im)
    \/ CrashDocker

-----------------------------------------------------------------------------
\* A volume that a run has bound, to mount it, is completely filled: no failed,
\* cancelled or running population of another run leaves one behind that is
\* taken for complete.  (A crash does: the dirty marks are not persistent.)
MountedComplete ==
    \A p \in DockerRuns : \A v \in docker[p].binds : volumes[v].complete \/ v \in cut

\* When CancelTask has returned nil for an execution, none of its containers
\* runs or can still be started, whatever the lost answers and the failed
\* cleanup before.
CancelRemovesContainer ==
    \A p \in removed : ~IsStandby(p) => containers[p] \notin {"created", "running"}

\* A run whose context has ended returns, even while the run that fills the
\* volume it waits for hangs.
ExecutionReturns ==
    []<>(\A p \in DockerRuns : ~CtxLive(p) => docker[p].pc \in Ended)

-----------------------------------------------------------------------------
\* Why MountedComplete and CancelRemovesContainer hold.

\* Steps of ExecuteTask at which it holds a volume's gate, and at which it has
\* not asked for a container yet.
Holding == {"clean", "inspect", "make", "copy", "extract", "discard"}
Preparing == {"idle", "image", "sidecar", "digest", "gate", "create"} \cup Holding
DockerSteps == Preparing \cup {"start", "wait", "cleanup"} \cup Ended

DockerCalls ==
    [pc : DockerSteps, ctx : {"live", "done"}, sidecars : SidecarLists \cup {<<>>},
     next : Nat \ {0}, volume : Volumes \cup {<<>>}, binds : SUBSET Volumes,
     outcome : {"none", "completed", "failed"}]

Units == {dockerUnitIdentity(p) : p \in DockerRuns}

\* Every variable has its type; a digest is resolved for a sidecar that is
\* there, and a gate waited for or held is a volume's.
DockerTypeOK ==
    /\ registry \in [Images -> Digests]
    /\ images \in [Images -> Digests \cup {Absent, Foreign}]
    /\ volumes \in [Volumes -> [content : Nat, complete : BOOLEAN]]
    /\ extraction \in [Volumes -> {"none", "running", "ok", "failed"}]
    /\ containers \in [DockerRuns -> {"none", "created", "running", "exited"}]
    /\ docker \in [DockerRuns -> DockerCalls]
    /\ gate \in [Volumes -> SUBSET DockerRuns]
    /\ dirty \subseteq Volumes
    /\ taskContainers \in [Units -> {"none", "unknown", "known"}]
    /\ removed \subseteq DockerRuns
    /\ cut \subseteq Volumes
    /\ \A p \in DockerRuns :
          /\ docker[p].pc = "digest" => Sidecar(p).image \in SidecarImages
          /\ docker[p].pc \in {"gate"} \cup Holding => docker[p].volume \in Volumes
          /\ docker[p].pc = "cleanup" => docker[p].outcome # "none"

\* The run that holds a volume's gate is the only one that works on the volume,
\* which is dirty meanwhile; a volume that is not dirty is complete.
RunVolumeInv(p) ==
    LET v == docker[p].volume
        pc == docker[p].pc
    IN  /\ pc \in Holding => gate[v] = {p} /\ (v \in dirty <=> pc # "inspect")
        /\ pc = "make" => volumes[v] = NoVolume
        /\ pc = "copy" => volumes[v] # NoVolume /\ ~volumes[v].complete
        /\ \A b \in docker[p].binds : b \in cut \/ (volumes[b].complete /\ b \notin dirty)

OneVolumeInv(v) ==
    /\ \A p \in gate[v] : docker[p].pc \in Holding /\ docker[p].volume = v
    /\ v \notin dirty /\ volumes[v] # NoVolume => volumes[v].complete \/ v \in cut
    /\ extraction[v] = "running" =>
          volumes[v] # NoVolume /\ ~volumes[v].complete /\ v \in dirty \cup cut
    /\ extraction[v] = "ok" => volumes[v].complete

VolumeInv ==
    /\ \A p \in DockerRuns : RunVolumeInv(p)
    /\ \A v \in Volumes : OneVolumeInv(v)

\* A container that may still run is tracked for as long as ExecuteTask or
\* CancelTask may have to remove it.
RunContainerInv(p) ==
    LET pc == docker[p].pc
        id == taskContainers[dockerUnitIdentity(p)]
        alive == containers[p] \in {"created", "running"}
    IN  /\ pc \in Preparing => containers[p] = "none"
        /\ pc \in {"start", "wait"} => id = "known"
        /\ pc = "cleanup" => id = "known" \/ containers[p] = "exited"
        /\ pc \in {"completed", "failed"} /\ alive => id # "none" \/ IsStandby(p)
        /\ p \in removed => pc \in Ended /\ (IsStandby(p) \/ ~alive)

ContainerInv == \A p \in DockerRuns : RunContainerInv(p)
=============================================================================
