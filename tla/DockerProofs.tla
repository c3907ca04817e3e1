---------------------------- MODULE DockerProofs ----------------------------
(***************************************************************************)
(* That the Docker backend binds no sidecar volume that is not completely  *)
(* filled, and that a cancellation reported as done leaves no container    *)
(* behind, for any set of runs, images and sidecars.                       *)
(***************************************************************************)
EXTENDS Backends, TLAPS

\* Only run p's call of ExecuteTask takes a step.
Others(p) == \A q \in DockerRuns \ {p} : docker'[q] = docker[q]

\* What the call's record is after each kind of step.
LEMMA GotoEffect ==
    ASSUME docker \in [DockerRuns -> DockerCalls], NEW p \in DockerRuns,
           NEW pc \in DockerSteps, Goto(p, pc)
    PROVE  /\ docker' \in [DockerRuns -> DockerCalls] /\ Others(p)
           /\ docker'[p].pc = pc
           /\ docker'[p].sidecars = docker[p].sidecars
           /\ docker'[p].next = docker[p].next
           /\ docker'[p].volume = docker[p].volume
           /\ docker'[p].binds = docker[p].binds
           /\ docker'[p].outcome = docker[p].outcome
BY DEF Goto, DockerCalls, Others

LEMMA ReturnedType ==
    ASSUME NEW outcome \in Ended
    PROVE  /\ Returned(outcome) \in DockerCalls
           /\ Returned(outcome).pc = outcome
           /\ Returned(outcome).binds = {}
<1>1. outcome \in DockerSteps
  BY DEF DockerSteps
<1> QED
  BY <1>1 DEF Returned, NewCall, DockerCalls

LEMMA ReturnEffect ==
    ASSUME docker \in [DockerRuns -> DockerCalls], NEW p \in DockerRuns,
           NEW outcome \in Ended, Return(p, outcome)
    PROVE  /\ docker' \in [DockerRuns -> DockerCalls] /\ Others(p)
           /\ docker'[p].pc = outcome
           /\ docker'[p].binds = {}
BY ReturnedType DEF Return, Others

LEMMA FailEffect ==
    ASSUME docker \in [DockerRuns -> DockerCalls], NEW p \in DockerRuns, Fail(p)
    PROVE  /\ docker' \in [DockerRuns -> DockerCalls] /\ Others(p)
           /\ docker'[p].pc = "failed"
           /\ docker'[p].binds = {}
BY ReturnEffect DEF Fail, Ended

LEMMA BindEffect ==
    ASSUME DockerTypeOK, NEW p \in DockerRuns, Bind(p), docker[p].volume \in Volumes
    PROVE  /\ docker' \in [DockerRuns -> DockerCalls] /\ Others(p)
           /\ docker'[p].pc = "sidecar"
           /\ docker'[p].binds = docker[p].binds \cup {docker[p].volume}
           /\ gate' = [gate EXCEPT ![docker[p].volume] = {}]
<1>1. "sidecar" \in DockerSteps
  BY DEF DockerSteps, Preparing
<1>2. docker \in [DockerRuns -> DockerCalls] /\ docker[p] \in DockerCalls
  BY DEF DockerTypeOK
<1>3. docker[p].next + 1 \in Nat \ {0} /\ docker[p].binds \cup {docker[p].volume} \in SUBSET Volumes
  BY <1>2 DEF DockerCalls
<1> DEFINE binds == docker[p].binds \cup {docker[p].volume}
           next == docker[p].next + 1
           call2 == [docker[p] EXCEPT !.binds = binds, !.next = next, !.volume = <<>>,
                                      !.pc = "sidecar"]
<1>4. docker' = [docker EXCEPT ![p] = call2]
  BY DEF Bind
<1>5. call2 \in DockerCalls /\ call2.pc = "sidecar" /\ call2.binds = binds
  <2> HIDE DEF binds, next
  <2> QED
    BY <1>1, <1>2, <1>3 DEF DockerCalls, binds, next
<1>6. gate' = [gate EXCEPT ![docker[p].volume] = {}]
  BY DEF Bind
<1> HIDE DEF call2
<1>7. docker' \in [DockerRuns -> DockerCalls] /\ Others(p) /\ docker'[p] = call2
  BY <1>2, <1>4, <1>5 DEF Others
<1> QED
  BY <1>5, <1>6, <1>7

LEMMA CleanupEffect ==
    ASSUME docker \in [DockerRuns -> DockerCalls], NEW p \in DockerRuns,
           NEW outcome \in {"completed", "failed"}, Cleanup(p, outcome)
    PROVE  /\ docker' \in [DockerRuns -> DockerCalls] /\ Others(p)
           /\ docker'[p].pc = "cleanup"
           /\ docker'[p].outcome = outcome
           /\ docker'[p].binds = docker[p].binds
<1> DEFINE call2 == [docker[p] EXCEPT !.pc = "cleanup", !.outcome = outcome]
<1>1. "cleanup" \in DockerSteps
  BY DEF DockerSteps
<1>2. docker' = [docker EXCEPT ![p] = call2]
  BY DEF Cleanup
<1>3. /\ call2 \in DockerCalls /\ call2.pc = "cleanup" /\ call2.outcome = outcome
      /\ call2.binds = docker[p].binds
  BY <1>1 DEF DockerCalls
<1> HIDE DEF call2
<1> QED
  BY <1>2, <1>3 DEF Others

\* The end of the context is not a step of the call.
LEMMA ContextEffect ==
    ASSUME docker \in [DockerRuns -> DockerCalls], NEW p \in DockerRuns, EndDockerContext(p)
    PROVE  /\ docker' \in [DockerRuns -> DockerCalls] /\ Others(p)
           /\ docker'[p].pc = docker[p].pc
           /\ docker'[p].sidecars = docker[p].sidecars
           /\ docker'[p].next = docker[p].next
           /\ docker'[p].volume = docker[p].volume
           /\ docker'[p].binds = docker[p].binds
           /\ docker'[p].outcome = docker[p].outcome
<1> DEFINE call2 == [docker[p] EXCEPT !.ctx = "done"]
<1>1. docker' = [docker EXCEPT ![p] = call2]
  BY DEF EndDockerContext
<1>2. /\ call2 \in DockerCalls /\ call2.pc = docker[p].pc
      /\ call2.sidecars = docker[p].sidecars /\ call2.next = docker[p].next
      /\ call2.volume = docker[p].volume /\ call2.binds = docker[p].binds
      /\ call2.outcome = docker[p].outcome
  BY DEF DockerCalls
<1> HIDE DEF call2
<1> QED
  BY <1>1, <1>2 DEF Others

-----------------------------------------------------------------------------
\* Types.

\* The image that run p resolves is one of the sidecars'.
LEMMA SidecarKnown ==
    ASSUME DockerTypeOK, NEW p \in DockerRuns,
           docker[p].next <= Len(docker[p].sidecars), ~InvalidSidecar(p)
    PROVE  Sidecar(p).image \in SidecarImages
<1>1. docker[p] \in DockerCalls
  BY DEF DockerTypeOK
<1>2. docker[p].sidecars \in SidecarLists \cup {<<>>} /\ docker[p].next \in Nat \ {0}
  BY <1>1 DEF DockerCalls
<1>3. docker[p].sidecars # <<>>
  BY <1>2
<1>4. docker[p].sidecars \in Seq([image : STRING, mountPath : STRING])
  BY <1>2, <1>3, DockerAssumption
<1>5. docker[p].next \in DOMAIN docker[p].sidecars
  <2>1. ASSUME NEW list \in Seq([image : STRING, mountPath : STRING]), NEW n \in Nat \ {0},
               n <= Len(list)
        PROVE  n \in DOMAIN list
    BY <2>1
  <2> QED
    BY <1>2, <1>4, <2>1
<1>6. Sidecar(p).image # Unset
  BY DEF InvalidSidecar
<1>7. PICK list \in SidecarLists : list = docker[p].sidecars
  BY <1>2, <1>3
<1>8. Sidecar(p).image \in {list[i].image : i \in DOMAIN list}
  BY <1>5, <1>7 DEF Sidecar
<1> QED
  BY <1>6, <1>8 DEF SidecarImages

\* What prepareImage leaves as the local image.
LEMMA PreparedImage ==
    ASSUME DockerTypeOK, NEW im \in Images, NEW r \in prepareImage(im)
    PROVE  r[1] \in Digests \cup {Absent, Foreign}
<1>1. images[im] \in Digests \cup {Absent, Foreign} /\ registry[im] \in Digests
  BY DEF DockerTypeOK
<1>2. pullImage(im) \subseteq Digests \cup {Foreign}
  BY <1>1 DEF pullImage
<1>3. \/ r \in {<<images[im], validateImagePlatform(images[im])>>}
      \/ r \in {<<d, validateImagePlatform(d)>> : d \in pullImage(im)}
      \/ r \in {<<d, FALSE>> : d \in pullImage(im)}
  <2>1. CASE config.pullPolicy = "Never"
    BY <2>1 DEF prepareImage
  <2>2. CASE config.pullPolicy = "IfNotPresent" /\ images[im] # Absent
    BY <2>2 DEF prepareImage
  <2>3. CASE /\ config.pullPolicy # "Never"
             /\ ~(config.pullPolicy = "IfNotPresent" /\ images[im] # Absent)
    BY <2>3 DEF prepareImage
  <2> QED
    BY <2>1, <2>2, <2>3
<1>4. CASE r \in {<<images[im], validateImagePlatform(images[im])>>}
  <2>1. r[1] = images[im]
    BY <1>4
  <2> QED
    BY <1>1, <2>1
<1>5. CASE r \in {<<d, validateImagePlatform(d)>> : d \in pullImage(im)}
  BY <1>2, <1>5
<1>6. CASE r \in {<<d, FALSE>> : d \in pullImage(im)}
  <2>1. PICK d \in pullImage(im) : r = <<d, FALSE>>
    BY <1>6
  <2>2. r[1] = d
    BY <2>1
  <2> QED
    BY <1>2, <2>2
<1> QED
  BY <1>3, <1>4, <1>5, <1>6

LEMMA ResolveEffect ==
    ASSUME DockerTypeOK, NEW p \in DockerRuns, NEW im \in Images,
           NEW pc \in DockerSteps, ResolveImage(p, im, pc)
    PROVE  /\ images' \in [Images -> Digests \cup {Absent, Foreign}]
           /\ UNCHANGED <<registry, volumes, extraction, containers>>
           /\ Goto(p, pc) \/ Fail(p)
<1>1. images \in [Images -> Digests \cup {Absent, Foreign}]
  BY DEF DockerTypeOK
<1>2. ASSUME NEW r \in prepareImage(im),
             images' = [images EXCEPT ![im] = r[1]]
      PROVE  images' \in [Images -> Digests \cup {Absent, Foreign}]
  BY <1>1, <1>2, PreparedImage
<1> QED
  BY <1>1, <1>2 DEF ResolveImage, daemonVars

\* A step of run p that leaves the other calls alone keeps the types, if the
\* variables it changes have theirs and the call's locals fit where it stands.
LEMMA RunType ==
    ASSUME DockerTypeOK, NEW p \in DockerRuns, Others(p),
           registry' = registry,
           images' \in [Images -> Digests \cup {Absent, Foreign}],
           volumes' \in [Volumes -> [content : Nat, complete : BOOLEAN]],
           extraction' \in [Volumes -> {"none", "running", "ok", "failed"}],
           containers' \in [DockerRuns -> {"none", "created", "running", "exited"}],
           docker' \in [DockerRuns -> DockerCalls],
           gate' \in [Volumes -> SUBSET DockerRuns],
           dirty' \subseteq Volumes,
           taskContainers' \in [Units -> {"none", "unknown", "known"}],
           removed' \subseteq DockerRuns,
           cut' \subseteq Volumes,
           docker'[p].pc = "digest" => Sidecar(p)'.image \in SidecarImages,
           docker'[p].pc \in {"gate"} \cup Holding => docker'[p].volume \in Volumes,
           docker'[p].pc = "cleanup" => docker'[p].outcome # "none"
    PROVE  DockerTypeOK'
<1>1. ASSUME NEW q \in DockerRuns
      PROVE  /\ docker'[q].pc = "digest" => Sidecar(q)'.image \in SidecarImages
             /\ docker'[q].pc \in {"gate"} \cup Holding => docker'[q].volume \in Volumes
             /\ docker'[q].pc = "cleanup" => docker'[q].outcome # "none"
  <2>1. CASE q = p
    BY <2>1
  <2>2. CASE q # p
    <3>1. docker'[q] = docker[q]
      BY <2>2 DEF Others
    <3> QED
      BY <3>1 DEF DockerTypeOK, Sidecar
  <2> QED
    BY <2>1, <2>2
<1>2. registry' \in [Images -> Digests]
  BY DEF DockerTypeOK
<1> QED
  BY <1>1, <1>2 DEF DockerTypeOK

\* The steps of ExecuteTask up to a volume's gate.
LEMMA PrepareType ==
    ASSUME DockerTypeOK, NEW p \in DockerRuns,
           \/ StartDocker(p) \/ PrepareTaskImage(p) \/ PrepareSidecar(p) \/ ReadDigest(p)
    PROVE  DockerTypeOK'
<1> USE DEF daemonVars, volumeVars, trackVars
<1>1. docker \in [DockerRuns -> DockerCalls] /\ docker[p] \in DockerCalls
  BY DEF DockerTypeOK
<1>2. {"image", "sidecar", "digest", "gate", "create", "failed"} \subseteq DockerSteps
  BY DEF DockerSteps, Preparing, Ended
<1>3. ASSUME Fail(p), UNCHANGED <<registry, volumes, extraction, containers, volumeVars, trackVars>>,
             images' \in [Images -> Digests \cup {Absent, Foreign}]
      PROVE  DockerTypeOK'
  <2>1. /\ docker' \in [DockerRuns -> DockerCalls] /\ Others(p)
        /\ docker'[p].pc = "failed"
    BY <1>1, <1>3, FailEffect
  <2> QED
    BY <1>3, <2>1, RunType DEF DockerTypeOK, Holding
<1>4. ASSUME NEW pc \in {"image", "sidecar", "digest", "create"}, Goto(p, pc),
             pc = "digest" => Sidecar(p).image \in SidecarImages,
             UNCHANGED <<registry, volumes, extraction, containers, volumeVars, trackVars>>,
             images' \in [Images -> Digests \cup {Absent, Foreign}]
      PROVE  DockerTypeOK'
  <2>1. /\ docker' \in [DockerRuns -> DockerCalls] /\ Others(p)
        /\ docker'[p].pc = pc
        /\ docker'[p].sidecars = docker[p].sidecars
        /\ docker'[p].next = docker[p].next
    BY <1>1, <1>2, <1>4, GotoEffect
  <2>2. Sidecar(p)' = Sidecar(p)
    BY <2>1 DEF Sidecar
  <2> QED
    BY <1>4, <2>1, <2>2, RunType DEF DockerTypeOK, Holding
<1>5. CASE StartDocker(p)
  BY <1>4, <1>5 DEF StartDocker, DockerTypeOK
<1>6. CASE PrepareTaskImage(p)
  <2>1. TaskImage \in Images
    BY DEF Images
  <2>2. ResolveImage(p, TaskImage, "sidecar") /\ UNCHANGED <<volumeVars, trackVars>>
    BY <1>6 DEF PrepareTaskImage
  <2> QED
    BY <1>2, <1>3, <1>4, <2>1, <2>2, ResolveEffect
<1>7. CASE PrepareSidecar(p)
  <2>1. CASE Goto(p, "create") /\ UNCHANGED daemonVars
    BY <1>4, <1>7, <2>1 DEF PrepareSidecar, DockerTypeOK
  <2>2. CASE Fail(p) /\ UNCHANGED daemonVars
    BY <1>3, <1>7, <2>2 DEF PrepareSidecar, DockerTypeOK
  <2>3. CASE /\ ~(docker[p].next > Len(docker[p].sidecars)) /\ ~InvalidSidecar(p)
             /\ ResolveImage(p, Sidecar(p).image, "digest")
    <3>1. docker[p].next \in Nat /\ Len(docker[p].sidecars) \in Nat
      <4>1. docker[p].sidecars \in SidecarLists \cup {<<>>} /\ docker[p].next \in Nat
        BY <1>1 DEF DockerCalls
      <4>2. CASE docker[p].sidecars = <<>>
        BY <4>1, <4>2
      <4>3. CASE docker[p].sidecars \in SidecarLists
        <5>1. docker[p].sidecars \in Seq([image : STRING, mountPath : STRING])
          BY <4>3, DockerAssumption
        <5>2. Len(docker[p].sidecars) \in Nat
          BY <5>1
        <5> QED
          BY <4>1, <5>2
      <4> QED
        BY <4>1, <4>2, <4>3
    <3>2. Sidecar(p).image \in SidecarImages
      BY <2>3, <3>1, SidecarKnown
    <3>3. Sidecar(p).image \in Images
      BY <3>2 DEF Images
    <3>4. UNCHANGED <<volumeVars, trackVars>>
      BY <1>7 DEF PrepareSidecar
    <3> QED
      BY <1>2, <1>3, <1>4, <2>3, <3>2, <3>3, <3>4, ResolveEffect
  <2> QED
    BY <1>7, <2>1, <2>2, <2>3 DEF PrepareSidecar
<1>8. CASE ReadDigest(p)
  <2>1. CASE Fail(p)
    BY <1>3, <1>8, <2>1 DEF ReadDigest, DockerTypeOK
  <2>2. CASE /\ images[Sidecar(p).image] # Absent
             /\ docker' = [docker EXCEPT
                   ![p].volume = sanitizeVolumeName(Sidecar(p).image, images[Sidecar(p).image]),
                   ![p].pc = "gate"]
    <3>1. Sidecar(p).image \in SidecarImages /\ Sidecar(p).image \in Images
      BY <1>8 DEF ReadDigest, DockerTypeOK, Images
    <3>2. PICK v \in Volumes :
              v = sanitizeVolumeName(Sidecar(p).image, images[Sidecar(p).image])
      BY <2>2, <3>1 DEF DockerTypeOK, sanitizeVolumeName, Volumes
    <3>3. /\ docker' \in [DockerRuns -> DockerCalls] /\ Others(p)
          /\ docker'[p].pc = "gate" /\ docker'[p].volume = v
      BY <1>1, <1>2, <2>2, <3>2 DEF DockerCalls, Others
    <3>4. UNCHANGED <<daemonVars, volumeVars, trackVars>>
      BY <1>8 DEF ReadDigest
    <3> QED
      BY <3>3, <3>4, RunType DEF DockerTypeOK, Holding
  <2> QED
    BY <1>8, <2>1, <2>2 DEF ReadDigest
<1> QED
  BY <1>5, <1>6, <1>7, <1>8

\* The steps that work on a volume.
LEMMA VolumeStepType ==
    ASSUME DockerTypeOK, NEW p \in DockerRuns,
           \/ AcquireGate(p) \/ CleanVolume(p) \/ InspectVolume(p) \/ CreateVolume(p)
           \/ StartCopy(p) \/ WaitExtraction(p) \/ DiscardVolume(p)
    PROVE  DockerTypeOK'
<1> USE DEF daemonVars, volumeVars, trackVars
<1>1. docker \in [DockerRuns -> DockerCalls] /\ docker[p].volume \in Volumes
  BY DEF DockerTypeOK, Holding, AcquireGate, CleanVolume, InspectVolume, CreateVolume,
         StartCopy, WaitExtraction, DiscardVolume
<1>2. PICK v \in Volumes : v = docker[p].volume
  BY <1>1
<1>3. Holding \subseteq DockerSteps
  BY DEF DockerSteps, Preparing
<1>4. /\ volumes' \in [Volumes -> [content : Nat, complete : BOOLEAN]]
      /\ extraction' \in [Volumes -> {"none", "running", "ok", "failed"}]
  <2>1. ASSUME RemoveVolume(v)
        PROVE  /\ volumes' \in [Volumes -> [content : Nat, complete : BOOLEAN]]
               /\ extraction' \in [Volumes -> {"none", "running", "ok", "failed"}]
    BY <2>1 DEF RemoveVolume, DockerTypeOK, NoVolume, Absent
  <2>2. CASE UNCHANGED <<volumes, extraction>>
    BY <2>2 DEF DockerTypeOK
  <2>3. CASE AcquireGate(p) \/ InspectVolume(p)
    BY <2>2, <2>3 DEF AcquireGate, InspectVolume
  <2>4. CASE CleanVolume(p) \/ DiscardVolume(p)
    BY <1>2, <2>1, <2>2, <2>4 DEF CleanVolume, DiscardVolume
  <2>5. CASE CreateVolume(p)
    <3>1. Empty \in Nat
      BY DockerAssumption DEF Empty
    <3>2. UNCHANGED extraction
      BY <2>5 DEF CreateVolume
    <3>3. volumes' = volumes \/ volumes' = [volumes EXCEPT ![v].content = Empty]
      BY <1>2, <2>5 DEF CreateVolume
    <3> QED
      BY <3>1, <3>2, <3>3 DEF DockerTypeOK
  <2>6. CASE StartCopy(p)
    <3>1. CASE UNCHANGED <<volumes, extraction>>
      BY <2>2, <3>1
    <3>2. CASE /\ images[Sidecar(p).image] \in Digests
               /\ volumes' = [volumes EXCEPT ![v].content = images[Sidecar(p).image]]
               /\ extraction' = [extraction EXCEPT ![v] = "running"]
      <4>1. images[Sidecar(p).image] \in Nat
        BY <3>2, DockerAssumption DEF Digests
      <4> QED
        BY <3>2, <4>1 DEF DockerTypeOK
    <3> QED
      BY <1>2, <2>6, <3>1, <3>2 DEF StartCopy
  <2>7. CASE WaitExtraction(p)
    BY <1>2, <2>7 DEF WaitExtraction, DockerTypeOK
  <2> QED
    BY <2>3, <2>4, <2>5, <2>6, <2>7
<1>5. gate' \in [Volumes -> SUBSET DockerRuns]
  <2>1. UNCHANGED gate \/ gate' = [gate EXCEPT ![v] = {p}] \/ gate' = [gate EXCEPT ![v] = {}]
    BY <1>2 DEF AcquireGate, CleanVolume, InspectVolume, CreateVolume, StartCopy,
                WaitExtraction, DiscardVolume, FailVolume, Bind
  <2> QED
    BY <2>1 DEF DockerTypeOK
<1>6. dirty' \subseteq Volumes
  BY <1>1 DEF AcquireGate, CleanVolume, InspectVolume, CreateVolume, StartCopy,
              WaitExtraction, DiscardVolume, DockerTypeOK
<1>7. UNCHANGED <<registry, images, containers, trackVars>>
  BY DEF AcquireGate, CleanVolume, InspectVolume, CreateVolume, StartCopy, WaitExtraction,
         DiscardVolume, RemoveVolume
<1>8. \/ Fail(p) \/ Bind(p)
      \/ \E pc \in Holding : Goto(p, pc)
  BY DEF AcquireGate, CleanVolume, InspectVolume, CreateVolume, StartCopy, WaitExtraction,
         DiscardVolume, FailVolume, Holding
<1>9. /\ docker' \in [DockerRuns -> DockerCalls] /\ Others(p)
      /\ \/ docker'[p].pc \in {"failed", "sidecar"}
         \/ docker'[p].pc \in Holding /\ docker'[p].volume = v
  <2>1. CASE Fail(p)
    BY <1>1, <2>1, FailEffect
  <2>2. CASE Bind(p)
    BY <1>1, <2>2, BindEffect
  <2>3. CASE \E pc \in Holding : Goto(p, pc)
    BY <1>1, <1>2, <1>3, <2>3, GotoEffect
  <2> QED
    BY <1>8, <2>1, <2>2, <2>3
<1>10. /\ docker'[p].pc \notin {"digest", "cleanup"}
       /\ docker'[p].pc \in {"gate"} \cup Holding => docker'[p].volume \in Volumes
  BY <1>9 DEF Holding
<1> QED
  BY <1>4, <1>5, <1>6, <1>7, <1>9, <1>10, RunType DEF DockerTypeOK

\* The steps that work on the run's container, CancelTask included.
LEMMA ContainerStepType ==
    ASSUME DockerTypeOK, NEW p \in DockerRuns,
           \/ CreateContainer(p) \/ StartContainer(p) \/ AwaitContainer(p)
           \/ CleanupContainer(p) \/ CancelDocker(p) \/ ContainerExits(p)
    PROVE  DockerTypeOK'
<1> USE DEF daemonVars, volumeVars, trackVars
<1>1. docker \in [DockerRuns -> DockerCalls] /\ docker[p] \in DockerCalls
  BY DEF DockerTypeOK
<1>2. dockerUnitIdentity(p) \in Units
  BY DEF Units
<1>3. taskContainers' \in [Units -> {"none", "unknown", "known"}]
  <2>1. \/ UNCHANGED taskContainers
        \/ \E id \in {"none", "unknown", "known"} : Track(p, id)
    BY DEF CreateContainer, StartContainer, AwaitContainer, CleanupContainer, CancelDocker,
           ContainerExits, RemoveContainer
  <2> QED
    BY <1>2, <2>1 DEF DockerTypeOK, Track
<1>4. /\ containers' \in [DockerRuns -> {"none", "created", "running", "exited"}]
      /\ UNCHANGED <<registry, images, volumes, extraction>>
  <2>1. \/ UNCHANGED daemonVars
        \/ \E s \in {"none", "created", "running", "exited"} : SetContainer(p, s)
    BY DEF CreateContainer, StartContainer, AwaitContainer, CleanupContainer, CancelDocker,
           ContainerExits, RemoveContainer
  <2> QED
    BY <2>1 DEF DockerTypeOK, SetContainer
<1>5. removed' \subseteq DockerRuns /\ UNCHANGED <<gate, dirty, cut>>
  BY DEF CreateContainer, StartContainer, AwaitContainer, CleanupContainer, CancelDocker,
         ContainerExits, DockerTypeOK
<1>6. CASE UNCHANGED docker
  BY <1>3, <1>4, <1>5, <1>6 DEF DockerTypeOK, Sidecar
<1>7. ASSUME Others(p), docker' \in [DockerRuns -> DockerCalls],
             docker'[p].pc \notin {"digest", "gate"} \cup Holding,
             docker'[p].pc = "cleanup" => docker'[p].outcome # "none"
      PROVE  DockerTypeOK'
  BY <1>3, <1>4, <1>5, <1>7, RunType DEF DockerTypeOK
<1>8. CASE \E pc \in {"start", "wait"} : Goto(p, pc)
  <2>1. PICK pc \in {"start", "wait"} : Goto(p, pc)
    BY <1>8
  <2>2. pc \in DockerSteps
    BY DEF DockerSteps
  <2> QED
    BY <1>1, <1>7, <2>1, <2>2, GotoEffect DEF Holding
<1>9. CASE \E outcome \in {"completed", "failed"} : Cleanup(p, outcome)
  BY <1>1, <1>7, <1>9, CleanupEffect DEF Holding
<1>10. CASE \E outcome \in {"completed", "failed"} : Return(p, outcome)
  BY <1>1, <1>7, <1>10, ReturnEffect DEF Holding, Ended
<1>11. CASE CreateContainer(p)
  BY <1>8, <1>10, <1>11 DEF CreateContainer, Fail
<1>12. CASE StartContainer(p)
  BY <1>8, <1>9, <1>12 DEF StartContainer
<1>13. CASE AwaitContainer(p)
  BY <1>9, <1>13 DEF AwaitContainer
<1>14. CASE CleanupContainer(p)
  <2>1. docker[p].outcome \in {"completed", "failed"}
    BY <1>1, <1>14 DEF CleanupContainer, DockerTypeOK, DockerCalls
  <2> QED
    BY <1>10, <1>14, <2>1 DEF CleanupContainer
<1>15. CASE CancelDocker(p) \/ ContainerExits(p)
  BY <1>6, <1>15 DEF CancelDocker, ContainerExits
<1> QED
  BY <1>11, <1>12, <1>13, <1>14, <1>15

\* What the surroundings do.
LEMMA SurroundingsType ==
    ASSUME DockerTypeOK,
           \/ \E p \in DockerRuns : EndDockerContext(p)
           \/ \E v \in Volumes, outcome \in {"ok", "failed"} : ExtractionEnds(v, outcome)
           \/ \E im \in SidecarImages : PushTag(im)
           \/ CrashDocker
    PROVE  DockerTypeOK'
<1> USE DEF daemonVars, volumeVars, trackVars
<1>1. docker \in [DockerRuns -> DockerCalls]
  BY DEF DockerTypeOK
<1>2. ASSUME NEW p \in DockerRuns, EndDockerContext(p)
      PROVE  DockerTypeOK'
  <2>1. /\ docker' \in [DockerRuns -> DockerCalls] /\ Others(p)
        /\ docker'[p].pc = docker[p].pc
        /\ docker'[p].sidecars = docker[p].sidecars
        /\ docker'[p].next = docker[p].next
        /\ docker'[p].volume = docker[p].volume
        /\ docker'[p].outcome = docker[p].outcome
    BY <1>1, <1>2, ContextEffect
  <2>2. Sidecar(p)' = Sidecar(p)
    BY <2>1 DEF Sidecar
  <2>3. UNCHANGED <<daemonVars, volumeVars, trackVars>>
    BY <1>2 DEF EndDockerContext
  <2>4. /\ docker[p].pc = "digest" => Sidecar(p).image \in SidecarImages
        /\ docker[p].pc \in {"gate"} \cup Holding => docker[p].volume \in Volumes
        /\ docker[p].pc = "cleanup" => docker[p].outcome # "none"
    BY DEF DockerTypeOK
  <2> QED
    BY <2>1, <2>2, <2>3, <2>4, RunType DEF DockerTypeOK
<1>3. ASSUME NEW v \in Volumes, NEW outcome \in {"ok", "failed"}, ExtractionEnds(v, outcome)
      PROVE  DockerTypeOK'
  <2>1. extraction' \in [Volumes -> {"none", "running", "ok", "failed"}]
    BY <1>3 DEF ExtractionEnds, DockerTypeOK
  <2>2. volumes' \in [Volumes -> [content : Nat, complete : BOOLEAN]]
    <3>1. /\ volumes \in [Volumes -> [content : Nat, complete : BOOLEAN]]
          /\ volumes' = [volumes EXCEPT ![v].complete = (outcome = "ok")]
      BY <1>3 DEF ExtractionEnds, DockerTypeOK
    <3>2. (outcome = "ok") \in BOOLEAN
      OBVIOUS
    <3> QED
      BY <3>1, <3>2
  <2>3. UNCHANGED <<registry, images, containers, docker, volumeVars, trackVars>>
    BY <1>3 DEF ExtractionEnds
  <2> QED
    BY <2>1, <2>2, <2>3 DEF DockerTypeOK, Sidecar
<1>4. ASSUME NEW im \in SidecarImages, PushTag(im)
      PROVE  DockerTypeOK'
  <2>1. im \in Images
    BY DEF Images
  <2>2. registry' \in [Images -> Digests]
    BY <1>4, <2>1, DockerAssumption DEF PushTag, DockerTypeOK, Digests
  <2>3. UNCHANGED <<images, volumes, extraction, containers, docker, volumeVars, trackVars>>
    BY <1>4 DEF PushTag
  <2> QED
    BY <2>2, <2>3 DEF DockerTypeOK, Sidecar
<1>5. CASE CrashDocker
  <2>1. /\ docker' = [p \in DockerRuns |->
                        IF p \in Started THEN Returned("lost") ELSE docker[p]]
        /\ gate' = [v \in Volumes |-> {}]
        /\ dirty' = {}
        /\ taskContainers' = [k \in DOMAIN taskContainers |-> "none"]
        /\ cut' \subseteq cut \cup Volumes
        /\ UNCHANGED <<daemonVars, removed>>
    BY <1>5 DEF CrashDocker
  <2>2. Returned("lost") \in DockerCalls /\ Returned("lost").pc = "lost"
    BY ReturnedType DEF Ended
  <2>3. docker' \in [DockerRuns -> DockerCalls]
    BY <1>1, <2>1, <2>2
  <2>4. ASSUME NEW p \in DockerRuns
        PROVE  docker'[p].pc \in {"idle", "lost"}
    BY <2>1, <2>2 DEF Started
  <2>5. \A p \in DockerRuns :
          /\ docker'[p].pc = "digest" => Sidecar(p)'.image \in SidecarImages
          /\ docker'[p].pc \in {"gate"} \cup Holding => docker'[p].volume \in Volumes
          /\ docker'[p].pc = "cleanup" => docker'[p].outcome # "none"
    BY <2>4 DEF Holding
  <2>6. /\ gate' \in [Volumes -> SUBSET DockerRuns]
        /\ dirty' \subseteq Volumes /\ cut' \subseteq Volumes
        /\ taskContainers' \in [Units -> {"none", "unknown", "known"}]
    BY <2>1 DEF DockerTypeOK
  <2> QED
    BY <2>1, <2>3, <2>5, <2>6 DEF DockerTypeOK
<1> QED
  BY <1>2, <1>3, <1>4, <1>5

\* Only Docker's own steps change its variables.
LEMMA DockerFrame ==
    ASSUME [Next]_vars
    PROVE  UNCHANGED config /\ (DockerNext \/ UNCHANGED dockerVars)
BY Zenon DEF Next, vars, OnDocker, OnDirect, OnCommand, OnExits, OnSetup

\* Every variable of the Docker backend has its type, and a run works on a
\* sidecar and on a volume that are there.
THEOREM DockerTypeCorrect == Spec => []DockerTypeOK
<1>1. Init => DockerTypeOK
  <2> SUFFICES ASSUME DockerInit PROVE DockerTypeOK
    BY DEF Init
  <2>1. 1 \in Digests
    BY DockerAssumption DEF Digests
  <2>2. ASSUME NEW b, NEW S, S # {}, NEW x \in InitialChoice(b, S)
        PROVE  x \in S
    BY <2>2 DEF InitialChoice
  <2>3. images \in [Images -> Digests \cup {Absent, Foreign}]
    <3>1. [im \in Images |-> Absent] \in [Images -> {Absent, 1}]
      OBVIOUS
    <3>2. images \in [Images -> {Absent, 1}]
      BY <2>2, <3>1 DEF DockerInit
    <3> QED
      BY <2>1, <3>2
  <2>4. docker \in [DockerRuns -> DockerCalls] /\ \A p \in DockerRuns : docker[p].pc = "idle"
    <3>1. PICK list \in SidecarLists : TRUE
      BY DockerAssumption
    <3>2. [p \in DockerRuns |-> list] \in [DockerRuns -> SidecarLists]
      OBVIOUS
    <3>3. PICK lists \in [DockerRuns -> SidecarLists] :
              docker = [p \in DockerRuns |-> NewCall(lists[p])]
      BY <2>2, <3>2 DEF DockerInit
    <3>4. "idle" \in DockerSteps
      BY DEF DockerSteps, Preparing
    <3>5. ASSUME NEW sidecars \in SidecarLists
          PROVE  NewCall(sidecars) \in DockerCalls /\ NewCall(sidecars).pc = "idle"
      BY <3>4 DEF NewCall, DockerCalls
    <3> QED
      BY <3>3, <3>5
  <2>5. /\ registry \in [Images -> Digests]
        /\ volumes \in [Volumes -> [content : Nat, complete : BOOLEAN]]
        /\ extraction \in [Volumes -> {"none", "running", "ok", "failed"}]
        /\ containers \in [DockerRuns -> {"none", "created", "running", "exited"}]
    BY <2>1 DEF DockerInit, NoVolume, Absent
  <2>6. /\ gate \in [Volumes -> SUBSET DockerRuns]
        /\ dirty \subseteq Volumes
        /\ taskContainers \in [Units -> {"none", "unknown", "known"}]
        /\ removed \subseteq DockerRuns
        /\ cut \subseteq Volumes
    BY DEF DockerInit, Units
  <2> QED
    BY <2>3, <2>4, <2>5, <2>6 DEF DockerTypeOK, Holding
<1>2. DockerTypeOK /\ [Next]_vars => DockerTypeOK'
  <2> SUFFICES ASSUME DockerTypeOK, [Next]_vars PROVE DockerTypeOK'
    OBVIOUS
  <2>1. CASE UNCHANGED dockerVars
    BY <2>1 DEF dockerVars, daemonVars, DockerTypeOK, Sidecar
  <2>2. CASE DockerNext
    BY <2>2, PrepareType, VolumeStepType, ContainerStepType, SurroundingsType
       DEF DockerNext, DockerStep
  <2> QED
    BY <2>1, <2>2, DockerFrame
<1> QED
  BY <1>1, <1>2, PTL DEF Spec

-----------------------------------------------------------------------------
\* Sidecar volumes.

\* A step of a run that holds no gate before or after it.
LEMMA OutsideStep ==
    ASSUME DockerTypeOK, VolumeInv, NEW p \in DockerRuns, Others(p),
           UNCHANGED <<volumes, extraction, gate, dirty, cut>>,
           docker[p].pc \notin Holding, docker'[p].pc \notin Holding,
           docker'[p].binds \subseteq docker[p].binds
    PROVE  VolumeInv'
<1>1. ASSUME NEW q \in DockerRuns
      PROVE  RunVolumeInv(q)'
  <2>1. RunVolumeInv(q)
    BY DEF VolumeInv
  <2>2. CASE q = p
    <3>1. docker'[p].pc \notin {"make", "copy"}
      BY DEF Holding
    <3> QED
      BY <2>1, <2>2, <3>1 DEF RunVolumeInv
  <2>3. CASE q # p
    <3>1. docker'[q] = docker[q]
      BY <2>3 DEF Others
    <3> QED
      BY <2>1, <3>1 DEF RunVolumeInv
  <2> QED
    BY <2>2, <2>3
<1>2. ASSUME NEW w \in Volumes
      PROVE  OneVolumeInv(w)'
  <2>1. OneVolumeInv(w)
    BY DEF VolumeInv
  <2>2. ASSUME NEW q \in gate[w]
        PROVE  docker'[q] = docker[q]
    <3>1. q \in DockerRuns /\ q # p
      BY <2>1 DEF OneVolumeInv, DockerTypeOK
    <3> QED
      BY <3>1 DEF Others
  <2> QED
    BY <2>1, <2>2 DEF OneVolumeInv
<1> QED
  BY <1>1, <1>2 DEF VolumeInv

\* A step of a run that keeps its place, or that only the daemon takes.
LEMMA IdleStep ==
    ASSUME VolumeInv,
           UNCHANGED <<volumes, extraction, gate, dirty, cut>>,
           DockerTypeOK,
           \A q \in DockerRuns : /\ docker'[q].pc = docker[q].pc
                                 /\ docker'[q].volume = docker[q].volume
                                 /\ docker'[q].binds = docker[q].binds
    PROVE  VolumeInv'
<1>1. ASSUME NEW q \in DockerRuns
      PROVE  RunVolumeInv(q)'
  BY DEF VolumeInv, RunVolumeInv
<1>2. ASSUME NEW w \in Volumes
      PROVE  OneVolumeInv(w)'
  <2>1. gate[w] \subseteq DockerRuns
    BY DEF DockerTypeOK
  <2> QED
    BY <2>1 DEF VolumeInv, OneVolumeInv
<1> QED
  BY <1>1, <1>2 DEF VolumeInv

\* Of the volumes only v changes.
OnlyVolume(v) ==
    /\ UNCHANGED cut
    /\ \A w \in Volumes \ {v} : /\ volumes'[w] = volumes[w]
                                /\ extraction'[w] = extraction[w]
                                /\ gate'[w] = gate[w]
                                /\ w \in dirty' <=> w \in dirty

\* The step does not spoil v for a run that has bound it.
StillBound(v) ==
    \A q \in DockerRuns : v \in docker[q].binds =>
        v \in cut \/ (volumes'[v].complete /\ v \notin dirty')

\* What OneVolumeInv says of the volume apart from its gate.
Sound(v) ==
    /\ v \notin dirty /\ volumes[v] # NoVolume => volumes[v].complete \/ v \in cut
    /\ extraction[v] = "running" =>
          volumes[v] # NoVolume /\ ~volumes[v].complete /\ v \in dirty \cup cut
    /\ extraction[v] = "ok" => volumes[v].complete

\* A step of the run that has the gate of v, or takes it, keeps the invariant,
\* if it does so for the run and the volume and spoils v for no run that has
\* bound it.
LEMMA HolderStep ==
    ASSUME DockerTypeOK, VolumeInv, NEW p \in DockerRuns, NEW v \in Volumes,
           docker[p].volume = v, gate[v] \in {{}, {p}}, Others(p), OnlyVolume(v),
           RunVolumeInv(p)', OneVolumeInv(v)', StillBound(v)
    PROVE  VolumeInv'
<1>1. ASSUME NEW q \in DockerRuns, q # p
      PROVE  RunVolumeInv(q)'
  <2>1. RunVolumeInv(q) /\ docker'[q] = docker[q] /\ UNCHANGED cut
    BY <1>1 DEF VolumeInv, OnlyVolume, Others
  <2>2. docker[q].binds \subseteq Volumes
    BY DEF DockerTypeOK, DockerCalls
  <2>3. ASSUME NEW b \in docker[q].binds
        PROVE  b \in cut \/ (volumes'[b].complete /\ b \notin dirty')
    <3>1. CASE b = v
      BY <3>1 DEF StillBound
    <3>2. CASE b # v
      BY <2>1, <2>2, <3>2 DEF OnlyVolume, RunVolumeInv
    <3> QED
      BY <3>1, <3>2
  <2>4. CASE docker[q].pc \in Holding
    <3>1. docker[q].volume \in Volumes /\ gate[docker[q].volume] = {q}
      BY <2>1, <2>4 DEF DockerTypeOK, RunVolumeInv
    <3>2. docker[q].volume # v
      BY <1>1, <3>1
    <3>3. PICK w \in Volumes \ {v} : w = docker[q].volume
      BY <3>1, <3>2
    <3>4. /\ volumes'[w] = volumes[w] /\ gate'[w] = gate[w]
          /\ w \in dirty' <=> w \in dirty
      BY DEF OnlyVolume
    <3> QED
      BY <2>1, <2>3, <3>3, <3>4 DEF RunVolumeInv
  <2>5. CASE docker[q].pc \notin Holding
    <3>1. docker[q].pc \notin {"make", "copy"}
      BY <2>5 DEF Holding
    <3> QED
      BY <2>1, <2>3, <2>5, <3>1 DEF RunVolumeInv
  <2> QED
    BY <2>4, <2>5
<1>2. ASSUME NEW w \in Volumes, w # v
      PROVE  OneVolumeInv(w)'
  <2>1. OneVolumeInv(w)
    BY DEF VolumeInv
  <2>2. /\ volumes'[w] = volumes[w] /\ extraction'[w] = extraction[w] /\ gate'[w] = gate[w]
        /\ w \in dirty' <=> w \in dirty
        /\ UNCHANGED cut
    BY <1>2 DEF OnlyVolume
  <2>3. ASSUME NEW q \in gate[w]
        PROVE  docker'[q] = docker[q]
    <3>1. q \in DockerRuns /\ q # p
      BY <1>2, <2>1 DEF OneVolumeInv, DockerTypeOK
    <3> QED
      BY <3>1 DEF Others
  <2> QED
    BY <2>1, <2>2, <2>3 DEF OneVolumeInv
<1> QED
  BY <1>1, <1>2 DEF VolumeInv

\* The run keeps the gate, or takes it, and goes on.
LEMMA HoldStep ==
    ASSUME DockerTypeOK, VolumeInv, NEW p \in DockerRuns, NEW v \in Volumes,
           docker[p].volume = v, gate[v] \in {{}, {p}}, OnlyVolume(v),
           gate'[v] = {p}, Sound(v)', StillBound(v),
           NEW pc \in Holding, Goto(p, pc),
           v \in dirty' <=> pc # "inspect",
           pc = "make" => volumes'[v] = NoVolume,
           pc = "copy" => volumes'[v] # NoVolume /\ ~volumes'[v].complete
    PROVE  VolumeInv'
<1>1. /\ Others(p) /\ docker'[p].pc = pc /\ docker'[p].volume = v
      /\ docker'[p].binds = docker[p].binds
  <2>1. docker \in [DockerRuns -> DockerCalls] /\ pc \in DockerSteps
    BY DEF DockerTypeOK, DockerSteps, Preparing
  <2> QED
    BY <2>1, GotoEffect
<1>2. OneVolumeInv(v)'
  BY <1>1 DEF OneVolumeInv, Sound
<1>3. ASSUME NEW b \in docker[p].binds
      PROVE  b \in cut' \/ (volumes'[b].complete /\ b \notin dirty')
  <2>1. b \in Volumes /\ RunVolumeInv(p)
    BY DEF DockerTypeOK, DockerCalls, VolumeInv
  <2>2. CASE b = v
    BY <2>2 DEF StillBound, OnlyVolume
  <2>3. CASE b # v
    BY <2>1, <2>3 DEF OnlyVolume, RunVolumeInv
  <2> QED
    BY <2>2, <2>3
<1>4. RunVolumeInv(p)'
  BY <1>1, <1>3 DEF RunVolumeInv
<1> QED
  BY <1>1, <1>2, <1>4, HolderStep

\* The run releases the gate, with the volume bound or with an error.
LEMMA ReleaseStep ==
    ASSUME DockerTypeOK, VolumeInv, NEW p \in DockerRuns, NEW v \in Volumes,
           docker[p].volume = v, gate[v] = {p}, OnlyVolume(v),
           gate'[v] = {}, Sound(v)', StillBound(v),
           \/ Fail(p)
           \/ Bind(p) /\ (v \in cut \/ (volumes'[v].complete /\ v \notin dirty'))
    PROVE  VolumeInv'
<1>1. docker \in [DockerRuns -> DockerCalls]
  BY DEF DockerTypeOK
<1>2. OneVolumeInv(v)'
  BY DEF OneVolumeInv, Sound
<1>3. CASE Fail(p)
  <2>1. Others(p) /\ docker'[p].pc = "failed" /\ docker'[p].binds = {}
    BY <1>1, <1>3, FailEffect
  <2>2. RunVolumeInv(p)'
    BY <2>1 DEF RunVolumeInv, Holding
  <2> QED
    BY <1>2, <2>1, <2>2, HolderStep
<1>4. CASE Bind(p) /\ (v \in cut \/ (volumes'[v].complete /\ v \notin dirty'))
  <2>1. /\ Others(p) /\ docker'[p].pc = "sidecar"
        /\ docker'[p].binds = docker[p].binds \cup {v}
    BY <1>4, BindEffect
  <2>2. ASSUME NEW b \in docker'[p].binds
        PROVE  b \in cut' \/ (volumes'[b].complete /\ b \notin dirty')
    <3>1. CASE b = v
      BY <1>4, <3>1 DEF OnlyVolume
    <3>2. CASE b # v
      <4>1. b \in docker[p].binds /\ b \in Volumes /\ RunVolumeInv(p)
        BY <2>1, <3>2 DEF DockerTypeOK, DockerCalls, VolumeInv
      <4> QED
        BY <3>2, <4>1 DEF OnlyVolume, RunVolumeInv
    <3> QED
      BY <3>1, <3>2
  <2>3. RunVolumeInv(p)'
    BY <2>1, <2>2 DEF RunVolumeInv, Holding
  <2> QED
    BY <1>2, <2>1, <2>3, HolderStep
<1> QED
  BY <1>3, <1>4

\* What is known of the volume that a run works on.
LEMMA HolderKnows ==
    ASSUME DockerTypeOK, VolumeInv, NEW p \in DockerRuns, docker[p].pc \in Holding,
           NEW v, v = docker[p].volume
    PROVE  /\ v \in Volumes /\ gate[v] = {p} /\ Sound(v)
           /\ v \in dirty <=> docker[p].pc # "inspect"
           /\ docker[p].pc = "make" => volumes[v] = NoVolume
           /\ docker[p].pc = "copy" => volumes[v] # NoVolume /\ ~volumes[v].complete
           /\ \A q \in DockerRuns : v \in docker[q].binds =>
                v \in cut \/ (volumes[v].complete /\ v \notin dirty)
<1>1. v \in Volumes
  BY DEF DockerTypeOK
<1>2. RunVolumeInv(p) /\ OneVolumeInv(v)
  BY <1>1 DEF VolumeInv
<1>3. \A q \in DockerRuns : v \in docker[q].binds =>
                v \in cut \/ (volumes[v].complete /\ v \notin dirty)
  BY DEF VolumeInv, RunVolumeInv
<1>4. Sound(v)
  BY <1>2 DEF OneVolumeInv, Sound
<1> QED
  BY <1>1, <1>2, <1>3, <1>4 DEF RunVolumeInv

LEMMA AcquireKeeps ==
    ASSUME DockerTypeOK, VolumeInv, NEW p \in DockerRuns, AcquireGate(p)
    PROVE  VolumeInv'
<1> USE DEF daemonVars, trackVars
<1>1. /\ docker[p].pc = "gate"
      /\ UNCHANGED <<volumes, extraction, dirty, cut>>
  BY DEF AcquireGate
<1>2. CASE Fail(p) /\ UNCHANGED gate
  <2>1. docker \in [DockerRuns -> DockerCalls]
    BY DEF DockerTypeOK
  <2>2. Others(p) /\ docker'[p].pc = "failed" /\ docker'[p].binds = {}
    BY <1>2, <2>1, FailEffect
  <2> QED
    BY <1>1, <1>2, <2>2, OutsideStep DEF Holding
<1>3. CASE /\ gate[docker[p].volume] = {}
           /\ gate' = [gate EXCEPT ![docker[p].volume] = {p}]
           /\ Goto(p, IF docker[p].volume \in dirty THEN "clean" ELSE "inspect")
  <2>1. docker[p].volume \in Volumes
    BY <1>1 DEF DockerTypeOK
  <2>2. PICK v \in Volumes : v = docker[p].volume
    BY <2>1
  <2>3. Sound(v)' /\ StillBound(v)
    <3>1. OneVolumeInv(v) /\ \A q \in DockerRuns : RunVolumeInv(q)
      BY DEF VolumeInv
    <3> QED
      BY <1>1, <3>1 DEF Sound, OneVolumeInv, RunVolumeInv, StillBound
  <2>4. gate'[v] = {p} /\ OnlyVolume(v)
    BY <1>1, <1>3, <2>2 DEF OnlyVolume, DockerTypeOK
  <2>5. PICK pc \in {"clean", "inspect"} : Goto(p, pc) /\ (v \in dirty' <=> pc # "inspect")
    <3>1. CASE v \in dirty
      BY <1>1, <1>3, <2>2, <3>1
    <3>2. CASE v \notin dirty
      BY <1>1, <1>3, <2>2, <3>2
    <3> QED
      BY <3>1, <3>2
  <2>6. pc \in Holding /\ pc \notin {"make", "copy"}
    BY DEF Holding
  <2> QED
    BY <1>3, <2>2, <2>3, <2>4, <2>5, <2>6, HoldStep
<1> QED
  BY <1>2, <1>3 DEF AcquireGate

\* Removing the volume under its gate leaves nothing to be wrong about.
LEMMA RemoveEffect ==
    ASSUME DockerTypeOK, NEW v \in Volumes, RemoveVolume(v)
    PROVE  /\ volumes'[v] = NoVolume /\ extraction'[v] = "none"
           /\ \A w \in Volumes \ {v} : volumes'[w] = volumes[w] /\ extraction'[w] = extraction[w]
           /\ Sound(v)'
<1>1. /\ volumes'[v] = NoVolume /\ extraction'[v] = "none"
      /\ \A w \in Volumes \ {v} : volumes'[w] = volumes[w] /\ extraction'[w] = extraction[w]
  BY DEF RemoveVolume, DockerTypeOK
<1> QED
  BY <1>1 DEF Sound

LEMMA CleanKeeps ==
    ASSUME DockerTypeOK, VolumeInv, NEW p \in DockerRuns, CleanVolume(p) \/ DiscardVolume(p)
    PROVE  VolumeInv'
<1> USE DEF daemonVars, trackVars
<1>1. docker[p].pc \in {"clean", "discard"} /\ UNCHANGED cut
  BY DEF CleanVolume, DiscardVolume
<1>2. PICK v \in Volumes : v = docker[p].volume
  BY <1>1, HolderKnows DEF Holding
<1>3. /\ gate[v] = {p} /\ Sound(v) /\ v \in dirty
      /\ \A q \in DockerRuns : v \in docker[q].binds => v \in cut
  BY <1>1, <1>2, HolderKnows DEF Holding
<1>4. StillBound(v)
  BY <1>3 DEF StillBound
<1>5. \/ RemoveVolume(v) /\ dirty' \in {dirty, dirty \ {v}}
      \/ UNCHANGED <<volumes, extraction, dirty>>
  BY <1>2 DEF CleanVolume, DiscardVolume
<1>6. Sound(v)' /\ \A w \in Volumes \ {v} : /\ volumes'[w] = volumes[w]
                                            /\ extraction'[w] = extraction[w]
                                            /\ w \in dirty' <=> w \in dirty
  <2>1. CASE RemoveVolume(v) /\ dirty' \in {dirty, dirty \ {v}}
    BY <2>1, RemoveEffect
  <2>2. CASE UNCHANGED <<volumes, extraction, dirty>>
    BY <1>1, <1>3, <2>2 DEF Sound
  <2> QED
    BY <1>5, <2>1, <2>2
<1>7. CASE FailVolume(p)
  <2>1. gate'[v] = {} /\ \A w \in Volumes \ {v} : gate'[w] = gate[w]
    BY <1>2, <1>7 DEF FailVolume, DockerTypeOK
  <2>2. OnlyVolume(v)
    BY <1>1, <1>6, <2>1 DEF OnlyVolume
  <2> QED
    BY <1>2, <1>3, <1>4, <1>6, <1>7, <2>1, <2>2, ReleaseStep DEF FailVolume
<1>8. CASE dirty' = dirty \ {v} /\ Goto(p, "inspect") /\ UNCHANGED gate
  <2>1. OnlyVolume(v)
    BY <1>1, <1>6, <1>8 DEF OnlyVolume
  <2>2. "inspect" \in Holding
    BY DEF Holding
  <2> QED
    BY <1>2, <1>3, <1>4, <1>6, <1>8, <2>1, <2>2, HoldStep
<1> QED
  BY <1>2, <1>7, <1>8 DEF CleanVolume, DiscardVolume

LEMMA InspectKeeps ==
    ASSUME DockerTypeOK, VolumeInv, NEW p \in DockerRuns, InspectVolume(p)
    PROVE  VolumeInv'
<1> USE DEF daemonVars, trackVars
<1>1. docker[p].pc = "inspect" /\ UNCHANGED <<volumes, extraction, cut>>
  BY DEF InspectVolume
<1>2. PICK v \in Volumes : v = docker[p].volume
  BY <1>1, HolderKnows DEF Holding
<1>3. /\ gate[v] = {p} /\ Sound(v) /\ v \notin dirty
      /\ \A q \in DockerRuns : v \in docker[q].binds => v \in cut \/ volumes[v].complete
  BY <1>1, <1>2, HolderKnows DEF Holding
<1>4. ASSUME gate' = [gate EXCEPT ![v] = {}], UNCHANGED dirty
      PROVE  gate'[v] = {} /\ OnlyVolume(v) /\ Sound(v)' /\ StillBound(v)
  BY <1>1, <1>3, <1>4 DEF OnlyVolume, Sound, StillBound, DockerTypeOK
<1>5. CASE volumes[v] # NoVolume /\ Bind(p) /\ UNCHANGED dirty
  <2>1. volumes[v].complete \/ v \in cut
    BY <1>3, <1>5 DEF Sound
  <2> QED
    BY <1>1, <1>2, <1>3, <1>4, <1>5, <2>1, ReleaseStep DEF Bind
<1>6. CASE FailVolume(p) /\ UNCHANGED dirty
  BY <1>1, <1>2, <1>3, <1>4, <1>6, ReleaseStep DEF FailVolume
<1>7. CASE /\ volumes[v] = NoVolume /\ dirty' = dirty \cup {v}
           /\ Goto(p, "make") /\ UNCHANGED gate
  <2>1. OnlyVolume(v)
    BY <1>1, <1>7 DEF OnlyVolume
  <2>2. Sound(v)' /\ StillBound(v)
    BY <1>1, <1>3, <1>7 DEF Sound, StillBound, NoVolume
  <2>3. "make" \in Holding
    BY DEF Holding
  <2> QED
    BY <1>1, <1>2, <1>3, <1>7, <2>1, <2>2, <2>3, HoldStep
<1> QED
  BY <1>2, <1>5, <1>6, <1>7 DEF InspectVolume

LEMMA CreateKeeps ==
    ASSUME DockerTypeOK, VolumeInv, NEW p \in DockerRuns, CreateVolume(p)
    PROVE  VolumeInv'
<1> USE DEF trackVars
<1>1. docker[p].pc = "make" /\ UNCHANGED <<extraction, dirty, cut>>
  BY DEF CreateVolume
<1>2. PICK v \in Volumes : v = docker[p].volume
  BY <1>1, HolderKnows DEF Holding
<1>3. /\ gate[v] = {p} /\ Sound(v) /\ v \in dirty /\ volumes[v] = NoVolume
      /\ \A q \in DockerRuns : v \in docker[q].binds => v \in cut
  BY <1>1, <1>2, HolderKnows DEF Holding
<1>4. StillBound(v)
  BY <1>3 DEF StillBound
<1>5. volumes' = volumes \/ volumes' = [volumes EXCEPT ![v].content = Empty]
  BY <1>2 DEF CreateVolume
<1>6. /\ \A w \in Volumes \ {v} : volumes'[w] = volumes[w]
      /\ ~volumes'[v].complete
      /\ volumes' # volumes => volumes'[v] # NoVolume
      /\ Sound(v)'
  <2>1. Empty # Absent
    BY DockerAssumption DEF Empty, Absent
  <2>2. CASE volumes' = volumes
    BY <1>1, <1>3, <2>2 DEF Sound, NoVolume
  <2>3. CASE volumes' = [volumes EXCEPT ![v].content = Empty]
    <3>1. /\ \A w \in Volumes \ {v} : volumes'[w] = volumes[w]
          /\ ~volumes'[v].complete /\ volumes'[v] # NoVolume
      BY <1>3, <2>1, <2>3 DEF NoVolume, DockerTypeOK
    <3> QED
      BY <1>1, <1>3, <3>1 DEF Sound, NoVolume
  <2> QED
    BY <1>5, <2>2, <2>3
<1>7. CASE FailVolume(p)
  <2>1. gate'[v] = {} /\ OnlyVolume(v)
    BY <1>1, <1>2, <1>6, <1>7 DEF OnlyVolume, FailVolume, DockerTypeOK
  <2> QED
    BY <1>2, <1>3, <1>4, <1>6, <1>7, <2>1, ReleaseStep DEF FailVolume
<1>8. CASE /\ volumes' = [volumes EXCEPT ![v].content = Empty]
           /\ Goto(p, "copy") /\ UNCHANGED gate
  <2>1. OnlyVolume(v) /\ "copy" \in Holding
    BY <1>1, <1>6, <1>8 DEF OnlyVolume, Holding
  <2>2. volumes'[v] # NoVolume
    BY <1>3, <1>8, DockerAssumption DEF Empty, Absent, NoVolume, DockerTypeOK
  <2> QED
    BY <1>1, <1>2, <1>3, <1>4, <1>6, <1>8, <2>1, <2>2, HoldStep
<1> QED
  BY <1>2, <1>7, <1>8 DEF CreateVolume

LEMMA CopyKeeps ==
    ASSUME DockerTypeOK, VolumeInv, NEW p \in DockerRuns, StartCopy(p)
    PROVE  VolumeInv'
<1> USE DEF volumeVars, trackVars
<1>1. docker[p].pc = "copy" /\ UNCHANGED <<gate, dirty, cut>>
  BY DEF StartCopy
<1>2. PICK v \in Volumes : v = docker[p].volume
  BY <1>1, HolderKnows DEF Holding
<1>3. /\ gate[v] = {p} /\ Sound(v) /\ v \in dirty
      /\ volumes[v] # NoVolume /\ ~volumes[v].complete
      /\ \A q \in DockerRuns : v \in docker[q].binds => v \in cut
  BY <1>1, <1>2, HolderKnows DEF Holding
<1>4. StillBound(v) /\ {"extract", "discard"} \subseteq Holding
  BY <1>3 DEF StillBound, Holding
<1>5. CASE Goto(p, "discard") /\ UNCHANGED <<volumes, extraction>>
  <2>1. OnlyVolume(v) /\ Sound(v)'
    BY <1>1, <1>3, <1>5 DEF OnlyVolume, Sound
  <2> QED
    BY <1>1, <1>2, <1>3, <1>4, <1>5, <2>1, HoldStep
<1>6. ASSUME NEW d \in Digests,
             volumes' = [volumes EXCEPT ![v].content = d],
             extraction' = [extraction EXCEPT ![v] = "running"],
             Goto(p, "extract")
      PROVE  VolumeInv'
  <2>1. /\ \A w \in Volumes \ {v} : volumes'[w] = volumes[w] /\ extraction'[w] = extraction[w]
        /\ volumes'[v].content = d /\ volumes'[v].complete = volumes[v].complete
        /\ extraction'[v] = "running"
    BY <1>6 DEF DockerTypeOK
  <2>2. volumes'[v] # NoVolume
    BY <2>1, DockerAssumption DEF NoVolume, Absent, Digests
  <2>3. OnlyVolume(v) /\ Sound(v)'
    BY <1>1, <1>3, <2>1, <2>2 DEF OnlyVolume, Sound
  <2> QED
    BY <1>1, <1>2, <1>3, <1>4, <1>6, <2>3, HoldStep
<1> QED
  BY <1>2, <1>5, <1>6 DEF StartCopy

LEMMA WaitKeeps ==
    ASSUME DockerTypeOK, VolumeInv, NEW p \in DockerRuns, WaitExtraction(p)
    PROVE  VolumeInv'
<1> USE DEF volumeVars, trackVars
<1>1. docker[p].pc = "extract" /\ UNCHANGED <<volumes, cut>>
  BY DEF WaitExtraction
<1>2. PICK v \in Volumes : v = docker[p].volume
  BY <1>1, HolderKnows DEF Holding
<1>3. /\ gate[v] = {p} /\ Sound(v) /\ v \in dirty
      /\ \A q \in DockerRuns : v \in docker[q].binds => v \in cut
  BY <1>1, <1>2, HolderKnows DEF Holding
<1>4. StillBound(v) /\ "discard" \in Holding
  BY <1>3 DEF StillBound, Holding
<1>5. CASE Goto(p, "discard") /\ UNCHANGED <<extraction, volumeVars>>
  <2>1. OnlyVolume(v) /\ Sound(v)'
    BY <1>1, <1>3, <1>5 DEF OnlyVolume, Sound
  <2> QED
    BY <1>1, <1>2, <1>3, <1>4, <1>5, <2>1, HoldStep
<1>6. CASE /\ extraction[v] = "ok" /\ dirty' = dirty \ {v}
           /\ extraction' = [extraction EXCEPT ![v] = "none"]
           /\ Bind(p)
  <2>1. volumes'[v].complete
    BY <1>1, <1>3, <1>6 DEF Sound
  <2>2. gate'[v] = {} /\ OnlyVolume(v) /\ Sound(v)'
    BY <1>1, <1>2, <1>6, <2>1 DEF OnlyVolume, Sound, Bind, DockerTypeOK
  <2> QED
    BY <1>2, <1>3, <1>4, <1>6, <2>1, <2>2, ReleaseStep
<1> QED
  BY <1>2, <1>5, <1>6 DEF WaitExtraction

\* The steps of ExecuteTask that work on no volume.
LEMMA ElsewhereKeeps ==
    ASSUME DockerTypeOK, VolumeInv, NEW p \in DockerRuns,
           \/ StartDocker(p) \/ PrepareTaskImage(p) \/ PrepareSidecar(p) \/ ReadDigest(p)
           \/ CreateContainer(p) \/ StartContainer(p) \/ AwaitContainer(p)
           \/ CleanupContainer(p)
    PROVE  VolumeInv'
<1> USE DEF daemonVars, volumeVars, trackVars
<1>1. docker \in [DockerRuns -> DockerCalls] /\ docker[p] \in DockerCalls
  BY DEF DockerTypeOK
<1>2. docker[p].pc \notin Holding
  BY DEF Holding, StartDocker, PrepareTaskImage, PrepareSidecar, ReadDigest,
         CreateContainer, StartContainer, AwaitContainer, CleanupContainer
<1>3. UNCHANGED <<volumes, extraction, gate, dirty, cut>>
  BY DEF StartDocker, PrepareTaskImage, PrepareSidecar, ReadDigest, CreateContainer,
         StartContainer, AwaitContainer, CleanupContainer, ResolveImage, SetContainer,
         RemoveContainer
<1>4. ASSUME Others(p), docker'[p].pc \notin Holding, docker'[p].binds \subseteq docker[p].binds
      PROVE  VolumeInv'
  BY <1>2, <1>3, <1>4, OutsideStep
<1>5. ASSUME NEW pc \in {"image", "sidecar", "digest", "create", "start", "wait"}, Goto(p, pc)
      PROVE  VolumeInv'
  <2>1. pc \in DockerSteps /\ pc \notin Holding
    BY DEF DockerSteps, Preparing, Holding
  <2> QED
    BY <1>1, <1>4, <1>5, <2>1, GotoEffect
<1>6. ASSUME NEW outcome \in {"completed", "failed"}, Return(p, outcome)
      PROVE  VolumeInv'
  BY <1>1, <1>4, <1>6, ReturnEffect DEF Ended, Holding
<1>7. ASSUME NEW outcome \in {"completed", "failed"}, Cleanup(p, outcome)
      PROVE  VolumeInv'
  BY <1>1, <1>4, <1>7, CleanupEffect DEF Holding
<1>8. CASE StartDocker(p) \/ PrepareTaskImage(p) \/ PrepareSidecar(p)
  BY <1>5, <1>6, <1>8 DEF StartDocker, PrepareTaskImage, PrepareSidecar, ResolveImage, Fail
<1>9. CASE CreateContainer(p) \/ StartContainer(p) \/ AwaitContainer(p)
  BY <1>5, <1>6, <1>7, <1>9 DEF CreateContainer, StartContainer, AwaitContainer, Fail
<1>10. CASE CleanupContainer(p)
  <2>1. docker[p].outcome \in {"completed", "failed"}
    BY <1>1, <1>10 DEF CleanupContainer, DockerTypeOK, DockerCalls
  <2> QED
    BY <1>6, <1>10, <2>1 DEF CleanupContainer
<1>11. CASE ReadDigest(p)
  <2>1. CASE Fail(p)
    BY <1>6, <2>1 DEF Fail
  <2>2. ASSUME NEW v, docker' = [docker EXCEPT ![p].volume = v, ![p].pc = "gate"]
        PROVE  VolumeInv'
    <3>1. Others(p) /\ docker'[p].pc = "gate" /\ docker'[p].binds = docker[p].binds
      BY <1>1, <2>2 DEF Others, DockerCalls
    <3> QED
      BY <1>4, <3>1 DEF Holding
  <2> QED
    BY <1>11, <2>1, <2>2 DEF ReadDigest
<1> QED
  BY <1>8, <1>9, <1>10, <1>11

\* An extraction that ends with success was fed by the run that holds the gate.
LEMMA ExtractionKeeps ==
    ASSUME DockerTypeOK, VolumeInv, NEW v \in Volumes, NEW outcome \in {"ok", "failed"},
           ExtractionEnds(v, outcome)
    PROVE  VolumeInv'
<1> USE DEF volumeVars, trackVars
<1>1. /\ extraction[v] = "running"
      /\ outcome = "ok" => Fed(v)
      /\ extraction'[v] \in {outcome, "none"}
      /\ volumes'[v].complete = (outcome = "ok")
      /\ volumes'[v].content = volumes[v].content
      /\ \A w \in Volumes \ {v} : volumes'[w] = volumes[w] /\ extraction'[w] = extraction[w]
      /\ UNCHANGED <<docker, gate, dirty, cut>>
  BY DEF ExtractionEnds, DockerTypeOK
<1>2. volumes[v] # NoVolume /\ ~volumes[v].complete /\ v \in dirty \cup cut
  BY <1>1 DEF VolumeInv, OneVolumeInv
<1>3. volumes'[v] # NoVolume
  <2>1. volumes[v] \in [content : Nat, complete : BOOLEAN]
    BY DEF DockerTypeOK
  <2>2. volumes[v].content # Absent
    BY <1>2, <2>1 DEF NoVolume
  <2> QED
    BY <1>1, <2>2 DEF NoVolume
<1>4. ASSUME NEW p \in DockerRuns
      PROVE  RunVolumeInv(p)'
  <2>1. RunVolumeInv(p)
    BY DEF VolumeInv
  <2>2. ASSUME NEW b \in docker[p].binds
        PROVE  b \in cut \/ (volumes'[b].complete /\ b \notin dirty)
    <3>1. b \in Volumes
      BY DEF DockerTypeOK, DockerCalls
    <3> QED
      BY <1>1, <1>2, <2>1, <3>1 DEF RunVolumeInv
  <2>3. CASE docker[p].pc \in Holding
    <3>1. PICK w \in Volumes : w = docker[p].volume
      BY <2>3 DEF DockerTypeOK
    <3>2. CASE w # v
      BY <1>1, <2>1, <2>2, <3>1, <3>2 DEF RunVolumeInv
    <3>3. CASE w = v
      <4>1. docker[p].pc # "make"
        BY <1>2, <2>1, <3>1, <3>3 DEF RunVolumeInv
      <4>2. docker[p].pc = "copy" => outcome # "ok"
        <5>1. gate[v] = {p}
          BY <2>1, <2>3, <3>1, <3>3 DEF RunVolumeInv
        <5> QED
          BY <1>1, <5>1 DEF Fed
      <4> QED
        BY <1>1, <1>3, <2>1, <2>2, <3>1, <3>3, <4>1, <4>2 DEF RunVolumeInv
    <3> QED
      BY <3>2, <3>3
  <2>4. CASE docker[p].pc \notin Holding
    <3>1. docker[p].pc \notin {"make", "copy"}
      BY <2>4 DEF Holding
    <3> QED
      BY <1>1, <2>2, <2>4, <3>1 DEF RunVolumeInv
  <2> QED
    BY <2>3, <2>4
<1>5. ASSUME NEW w \in Volumes
      PROVE  OneVolumeInv(w)'
  <2>1. OneVolumeInv(w)
    BY DEF VolumeInv
  <2>2. CASE w = v
    BY <1>1, <1>2, <2>1, <2>2 DEF OneVolumeInv
  <2>3. CASE w # v
    BY <1>1, <2>1, <2>3 DEF OneVolumeInv
  <2> QED
    BY <2>2, <2>3
<1> QED
  BY <1>4, <1>5 DEF VolumeInv

\* A crash leaves half-filled volumes behind, all of which are recorded in cut.
LEMMA CrashKeeps ==
    ASSUME DockerTypeOK, VolumeInv, CrashDocker
    PROVE  VolumeInv'
<1>1. /\ docker' = [p \in DockerRuns |->
                        IF p \in Started THEN Returned("lost") ELSE docker[p]]
      /\ gate' = [v \in Volumes |-> {}]
      /\ dirty' = {}
      /\ cut' = cut \cup {v \in Volumes : volumes[v] # NoVolume /\ ~volumes[v].complete}
      /\ UNCHANGED <<volumes, extraction>>
  BY DEF CrashDocker, daemonVars
<1>2. ASSUME NEW p \in DockerRuns
      PROVE  RunVolumeInv(p)'
  <2>1. docker'[p].pc \in {"idle", "lost"} /\ docker'[p].binds \subseteq docker[p].binds
    BY <1>1, ReturnedType DEF Started, Ended
  <2>2. docker'[p].pc \notin Holding \cup {"make", "copy"}
    BY <2>1 DEF Holding
  <2>3. \A b \in docker[p].binds : b \in cut \/ volumes[b].complete
    BY DEF VolumeInv, RunVolumeInv
  <2> QED
    BY <1>1, <2>1, <2>2, <2>3 DEF RunVolumeInv
<1>3. ASSUME NEW v \in Volumes
      PROVE  OneVolumeInv(v)'
  BY <1>1 DEF VolumeInv, OneVolumeInv
<1> QED
  BY <1>2, <1>3 DEF VolumeInv

\* The invariant on volumes holds in every reachable state.
THEOREM VolumeCorrect == Spec => []VolumeInv
<1>1. Init => VolumeInv
  <2> SUFFICES ASSUME DockerInit PROVE VolumeInv
    BY DEF Init
  <2>1. PICK lists : docker = [p \in DockerRuns |-> NewCall(lists[p])]
    BY DEF DockerInit
  <2>2. \A p \in DockerRuns : docker[p].pc = "idle" /\ docker[p].binds = {}
    BY <2>1 DEF NewCall
  <2>3. \A p \in DockerRuns : RunVolumeInv(p)
    BY <2>2 DEF RunVolumeInv, Holding
  <2>4. \A v \in Volumes : OneVolumeInv(v)
    BY DEF DockerInit, OneVolumeInv
  <2> QED
    BY <2>3, <2>4 DEF VolumeInv
<1>2. DockerTypeOK /\ VolumeInv /\ [Next]_vars => VolumeInv'
  <2> SUFFICES ASSUME DockerTypeOK, VolumeInv, [Next]_vars PROVE VolumeInv'
    OBVIOUS
  <2>1. CASE UNCHANGED <<docker, volumes, extraction, gate, dirty, cut>>
    BY <2>1, IdleStep
  <2>2. CASE UNCHANGED dockerVars
    BY <2>1, <2>2 DEF dockerVars, daemonVars
  <2>3. ASSUME NEW p \in DockerRuns, EndDockerContext(p)
        PROVE  VolumeInv'
    <3>1. docker \in [DockerRuns -> DockerCalls]
      BY DEF DockerTypeOK
    <3>2. \A q \in DockerRuns : /\ docker'[q].pc = docker[q].pc
                                /\ docker'[q].volume = docker[q].volume
                                /\ docker'[q].binds = docker[q].binds
      BY <2>3, <3>1, ContextEffect DEF Others
    <3>3. UNCHANGED <<volumes, extraction, gate, dirty, cut>>
      BY <2>3 DEF EndDockerContext, daemonVars, volumeVars, trackVars
    <3> QED
      BY <3>2, <3>3, IdleStep
  <2>4. ASSUME NEW p \in DockerRuns, CancelDocker(p) \/ ContainerExits(p)
        PROVE  VolumeInv'
    BY <2>1, <2>4 DEF CancelDocker, ContainerExits, SetContainer, RemoveContainer, daemonVars,
                      volumeVars, trackVars
  <2>5. ASSUME NEW im \in SidecarImages, PushTag(im)
        PROVE  VolumeInv'
    BY <2>1, <2>5 DEF PushTag, volumeVars, trackVars
  <2>6. CASE DockerNext
    BY <2>3, <2>4, <2>5, <2>6, ElsewhereKeeps, AcquireKeeps, CleanKeeps, InspectKeeps,
       CreateKeeps, CopyKeeps, WaitKeeps, ExtractionKeeps, CrashKeeps
       DEF DockerNext, DockerStep
  <2> QED
    BY <2>2, <2>6, DockerFrame
<1> QED
  BY <1>1, <1>2, DockerTypeCorrect, PTL DEF Spec

\* A volume that a run has bound, to mount it, is completely filled, whichever
\* runs fill, fail, wait or are cancelled in between; only what a crash of the
\* worker cut off may be mounted half filled.
THEOREM Mounted == Spec => []MountedComplete
<1>1. VolumeInv => MountedComplete
  BY DEF VolumeInv, RunVolumeInv, MountedComplete
<1> QED
  BY <1>1, VolumeCorrect, PTL

-----------------------------------------------------------------------------
\* Containers.

\* No two runs share the key under which a container is tracked.
LEMMA OwnUnit ==
    ASSUME NEW p \in DockerRuns, NEW q \in DockerRuns,
           dockerUnitIdentity(p) = dockerUnitIdentity(q)
    PROVE  p = q
<1>1. p \in Params /\ q \in Params
  BY DockerAssumption
<1>2. /\ p \in [taskID : STRING, executionID : STRING, standbyID : STRING]
      /\ q \in [taskID : STRING, executionID : STRING, standbyID : STRING]
      /\ p.standbyID # Unset => p.taskID = Unset /\ p.executionID = Unset
      /\ q.standbyID # Unset => q.taskID = Unset /\ q.executionID = Unset
  BY <1>1 DEF Params
<1>3. IsStandby(p) <=> IsStandby(q)
  BY UnitAssumption
<1>4. p.taskID = q.taskID /\ p.executionID = q.executionID /\ p.standbyID = q.standbyID
  <2>1. CASE IsStandby(p)
    BY <1>2, <1>3, <2>1 DEF dockerUnitIdentity, IsStandby
  <2>2. CASE ~IsStandby(p)
    BY <1>2, <1>3, <2>2 DEF dockerUnitIdentity, IsStandby
  <2> QED
    BY <2>1, <2>2
<1> QED
  BY <1>2, <1>4

\* A step that concerns run p's call and container only.
LEMMA ContainerStep ==
    ASSUME DockerTypeOK, ContainerInv, NEW p \in DockerRuns, Others(p),
           \A q \in DockerRuns \ {p} : containers'[q] = containers[q],
           UNCHANGED taskContainers \/ \E id : Track(p, id),
           removed' \subseteq removed \cup {p},
           RunContainerInv(p)'
    PROVE  ContainerInv'
<1>1. ASSUME NEW q \in DockerRuns, q # p
      PROVE  RunContainerInv(q)'
  <2>1. /\ RunContainerInv(q) /\ docker'[q] = docker[q] /\ containers'[q] = containers[q]
        /\ q \in removed' => q \in removed
    BY <1>1 DEF ContainerInv, Others
  <2>2. taskContainers'[dockerUnitIdentity(q)] = taskContainers[dockerUnitIdentity(q)]
    <3>1. dockerUnitIdentity(q) # dockerUnitIdentity(p) /\ dockerUnitIdentity(q) \in Units
      BY <1>1, OwnUnit DEF Units
    <3> QED
      BY <3>1 DEF Track, DockerTypeOK
  <2> QED
    BY <2>1, <2>2 DEF RunContainerInv
<1> QED
  BY <1>1 DEF ContainerInv

\* The steps before the run has asked for a container.
LEMMA PreparingKeeps ==
    ASSUME DockerTypeOK, ContainerInv, NEW p \in DockerRuns,
           \/ StartDocker(p) \/ PrepareTaskImage(p) \/ PrepareSidecar(p) \/ ReadDigest(p)
           \/ AcquireGate(p) \/ CleanVolume(p) \/ InspectVolume(p) \/ CreateVolume(p)
           \/ StartCopy(p) \/ WaitExtraction(p) \/ DiscardVolume(p)
    PROVE  ContainerInv'
<1> USE DEF daemonVars, volumeVars, trackVars
<1>1. docker \in [DockerRuns -> DockerCalls] /\ docker[p] \in DockerCalls
  BY DEF DockerTypeOK
<1>2. docker[p].pc \in Preparing
  BY DEF Preparing, Holding, StartDocker, PrepareTaskImage, PrepareSidecar, ReadDigest,
         AcquireGate, CleanVolume, InspectVolume, CreateVolume, StartCopy, WaitExtraction,
         DiscardVolume
<1>3. UNCHANGED <<containers, taskContainers, removed>>
  <2>1. CASE StartDocker(p) \/ PrepareTaskImage(p) \/ PrepareSidecar(p) \/ ReadDigest(p)
    BY <2>1 DEF StartDocker, PrepareTaskImage, PrepareSidecar, ReadDigest, ResolveImage
  <2>2. CASE \/ AcquireGate(p) \/ CleanVolume(p) \/ InspectVolume(p) \/ CreateVolume(p)
             \/ StartCopy(p) \/ WaitExtraction(p) \/ DiscardVolume(p)
    BY <2>2 DEF AcquireGate, CleanVolume, InspectVolume, CreateVolume, StartCopy,
                WaitExtraction, DiscardVolume, RemoveVolume
  <2> QED
    BY <2>1, <2>2
<1>4. containers[p] = "none" /\ p \notin removed
  <2>1. Preparing \cap Ended = {}
    BY DEF Preparing, Holding, Ended
  <2> QED
    BY <1>2, <2>1 DEF ContainerInv, RunContainerInv
<1>5. Others(p) /\ docker'[p].pc \in Preparing \cup {"failed"}
  <2>1. ASSUME NEW pc \in Preparing, Goto(p, pc)
        PROVE  Others(p) /\ docker'[p].pc \in Preparing
    BY <1>1, <2>1, GotoEffect DEF DockerSteps
  <2>2. CASE Fail(p)
    BY <1>1, <2>2, FailEffect
  <2>3. CASE Bind(p) /\ docker[p].pc \in Holding
    <3>1. docker[p].volume \in Volumes
      BY <2>3 DEF DockerTypeOK
    <3> QED
      BY <2>3, <3>1, BindEffect DEF Preparing
  <2>4. CASE StartDocker(p) \/ PrepareTaskImage(p) \/ PrepareSidecar(p)
    <3>1. {"image", "sidecar", "digest", "create"} \subseteq Preparing
      BY DEF Preparing
    <3> QED
      BY <2>1, <2>2, <2>4, <3>1 DEF StartDocker, PrepareTaskImage, PrepareSidecar, ResolveImage
  <2>5. CASE ReadDigest(p)
    <3>1. ASSUME NEW v, docker' = [docker EXCEPT ![p].volume = v, ![p].pc = "gate"]
          PROVE  Others(p) /\ docker'[p].pc \in Preparing
      BY <1>1, <3>1 DEF Others, DockerCalls, Preparing
    <3> QED
      BY <2>2, <2>5, <3>1 DEF ReadDigest
  <2>6. CASE \/ AcquireGate(p) \/ CleanVolume(p) \/ InspectVolume(p) \/ CreateVolume(p)
             \/ StartCopy(p) \/ WaitExtraction(p) \/ DiscardVolume(p)
    <3>1. Holding \subseteq Preparing
      BY DEF Preparing
    <3>2. Fail(p) \/ (Bind(p) /\ docker[p].pc \in Holding) \/ \E pc \in Holding : Goto(p, pc)
      BY <2>6 DEF AcquireGate, CleanVolume, InspectVolume, CreateVolume, StartCopy,
                  WaitExtraction, DiscardVolume, FailVolume, Holding
    <3> QED
      BY <2>1, <2>2, <2>3, <3>1, <3>2
  <2> QED
    BY <2>4, <2>5, <2>6
<1>6. RunContainerInv(p)'
  <2>1. docker'[p].pc \notin {"start", "wait", "cleanup"}
    BY <1>5 DEF Preparing, Holding
  <2> QED
    BY <1>3, <1>4, <2>1 DEF RunContainerInv
<1> QED
  BY <1>3, <1>5, <1>6, ContainerStep

\* What is tracked of run p's container, and what it is, after a step.
LEMMA TrackEffect ==
    ASSUME DockerTypeOK, NEW p \in DockerRuns, NEW id, Track(p, id)
    PROVE  taskContainers'[dockerUnitIdentity(p)] = id
<1>1. dockerUnitIdentity(p) \in Units
  BY DEF Units
<1> QED
  BY <1>1 DEF Track, DockerTypeOK

LEMMA SetEffect ==
    ASSUME DockerTypeOK, NEW p \in DockerRuns, NEW s, SetContainer(p, s)
    PROVE  containers'[p] = s /\ \A q \in DockerRuns \ {p} : containers'[q] = containers[q]
BY DEF SetContainer, DockerTypeOK

LEMMA CreateContainerKeeps ==
    ASSUME DockerTypeOK, ContainerInv, NEW p \in DockerRuns, CreateContainer(p)
    PROVE  ContainerInv'
<1> USE DEF daemonVars
<1>1. docker \in [DockerRuns -> DockerCalls] /\ "start" \in DockerSteps
  BY DEF DockerTypeOK, DockerSteps
<1>2. containers[p] = "none" /\ p \notin removed /\ UNCHANGED removed
  BY DEF CreateContainer, ContainerInv, RunContainerInv, Preparing, Ended
<1>3. CASE Track(p, "known") /\ SetContainer(p, "created") /\ Goto(p, "start")
  <2>1. Others(p) /\ docker'[p].pc = "start"
    BY <1>1, <1>3, GotoEffect
  <2>2. RunContainerInv(p)'
    BY <1>2, <1>3, <2>1, TrackEffect DEF RunContainerInv, Preparing, Holding
  <2> QED
    BY <1>2, <1>3, <2>1, <2>2, ContainerStep, SetEffect
<1>4. CASE /\ Fail(p)
           /\ \/ \E id \in {"none", "unknown"} : Track(p, id) /\ UNCHANGED daemonVars
              \/ Track(p, "unknown") /\ SetContainer(p, "created")
  <2>1. Others(p) /\ docker'[p].pc = "failed"
    BY <1>1, <1>4, FailEffect
  <2>2. CASE \E id \in {"none", "unknown"} : Track(p, id) /\ UNCHANGED daemonVars
    <3>1. RunContainerInv(p)'
      BY <1>2, <2>1, <2>2 DEF RunContainerInv
    <3> QED
      BY <1>2, <2>1, <2>2, <3>1, ContainerStep
  <2>3. CASE Track(p, "unknown") /\ SetContainer(p, "created")
    <3>1. RunContainerInv(p)'
      BY <1>2, <2>1, <2>3, TrackEffect DEF RunContainerInv, Preparing, Holding
    <3> QED
      BY <1>2, <2>1, <2>3, <3>1, ContainerStep, SetEffect
  <2> QED
    BY <1>4, <2>2, <2>3
<1> QED
  BY <1>3, <1>4 DEF CreateContainer

LEMMA RunningKeeps ==
    ASSUME DockerTypeOK, ContainerInv, NEW p \in DockerRuns,
           StartContainer(p) \/ AwaitContainer(p)
    PROVE  ContainerInv'
<1> USE DEF daemonVars, trackVars
<1>1. docker \in [DockerRuns -> DockerCalls] /\ "wait" \in DockerSteps
  BY DEF DockerTypeOK, DockerSteps
<1>2. /\ taskContainers[dockerUnitIdentity(p)] = "known" /\ p \notin removed
      /\ UNCHANGED removed
  BY DEF StartContainer, AwaitContainer, ContainerInv, RunContainerInv, Ended
<1>3. Others(p) /\ docker'[p].pc \in {"wait", "cleanup"}
  <2>1. CASE Goto(p, "wait")
    BY <1>1, <2>1, GotoEffect
  <2>2. CASE \E outcome \in {"completed", "failed"} : Cleanup(p, outcome)
    BY <1>1, <2>2, CleanupEffect
  <2> QED
    BY <2>1, <2>2 DEF StartContainer, AwaitContainer
<1>4. \A q \in DockerRuns \ {p} : containers'[q] = containers[q]
  BY SetEffect DEF StartContainer, AwaitContainer
<1>5. CASE UNCHANGED taskContainers
  <2>1. RunContainerInv(p)'
    BY <1>2, <1>3, <1>5 DEF RunContainerInv, Preparing, Holding
  <2> QED
    BY <1>2, <1>3, <1>4, <1>5, <2>1, ContainerStep
<1>6. CASE /\ containers[p] = "exited" /\ UNCHANGED containers /\ docker'[p].pc = "cleanup"
           /\ Track(p, "none")
  <2>1. RunContainerInv(p)'
    BY <1>2, <1>6 DEF RunContainerInv, Preparing, Holding
  <2> QED
    BY <1>2, <1>3, <1>4, <1>6, <2>1, ContainerStep
<1>7. \A outcome \in {"completed", "failed"} : Cleanup(p, outcome) => docker'[p].pc = "cleanup"
  BY <1>1, CleanupEffect
<1> QED
  BY <1>5, <1>6, <1>7 DEF StartContainer, AwaitContainer

LEMMA RemovalKeeps ==
    ASSUME DockerTypeOK, ContainerInv, NEW p \in DockerRuns,
           CleanupContainer(p) \/ CancelDocker(p) \/ ContainerExits(p)
    PROVE  ContainerInv'
<1> USE DEF daemonVars, trackVars
<1>1. docker \in [DockerRuns -> DockerCalls] /\ docker[p] \in DockerCalls
  BY DEF DockerTypeOK
<1>2. RunContainerInv(p)
  BY DEF ContainerInv
<1>3. CASE CleanupContainer(p)
  <2>1. docker[p].outcome \in {"completed", "failed"}
    BY <1>1, <1>3 DEF CleanupContainer, DockerTypeOK, DockerCalls
  <2>2. Others(p) /\ docker'[p].pc \in {"completed", "failed"}
    BY <1>1, <1>3, <2>1, ReturnEffect DEF CleanupContainer, Ended
  <2>3. /\ docker[p].pc = "cleanup" /\ UNCHANGED removed /\ p \notin removed
        /\ taskContainers[dockerUnitIdentity(p)] = "known" \/ containers[p] = "exited"
    BY <1>2, <1>3 DEF CleanupContainer, RunContainerInv, Ended
  <2>4. CASE SetContainer(p, "none") /\ (Track(p, "none") \/ UNCHANGED taskContainers)
    <3>1. RunContainerInv(p)'
      BY <2>2, <2>3, <2>4, SetEffect DEF RunContainerInv, Preparing, Holding
    <3> QED
      BY <2>2, <2>3, <2>4, <3>1, ContainerStep, SetEffect
  <2>5. CASE UNCHANGED <<containers, taskContainers>>
    <3>1. RunContainerInv(p)'
      BY <2>2, <2>3, <2>5 DEF RunContainerInv, Preparing, Holding
    <3> QED
      BY <2>2, <2>3, <2>5, <3>1, ContainerStep
  <2> QED
    BY <1>3, <2>4, <2>5 DEF CleanupContainer, RemoveContainer
<1>4. CASE CancelDocker(p)
  <2>1. /\ docker[p].pc \in {"completed", "failed"} /\ UNCHANGED docker
        /\ removed' = removed \cup {p}
    BY <1>4 DEF CancelDocker
  <2>2. Others(p)
    BY <2>1 DEF Others
  <2>3. CASE /\ IsStandby(p) \/ taskContainers[dockerUnitIdentity(p)] = "none"
             /\ UNCHANGED <<containers, taskContainers>>
    <3>1. RunContainerInv(p)'
      BY <1>2, <2>1, <2>3 DEF RunContainerInv, Ended
    <3> QED
      BY <2>1, <2>2, <2>3, <3>1, ContainerStep
  <2>4. CASE SetContainer(p, "none") /\ Track(p, "none")
    <3>1. RunContainerInv(p)'
      BY <2>1, <2>4, SetEffect DEF RunContainerInv, Ended
    <3> QED
      BY <2>1, <2>2, <2>4, <3>1, ContainerStep, SetEffect
  <2> QED
    BY <1>4, <2>3, <2>4 DEF CancelDocker, RemoveContainer
<1>5. CASE ContainerExits(p)
  <2>1. /\ containers[p] = "running" /\ SetContainer(p, "exited")
        /\ UNCHANGED <<docker, taskContainers, removed>>
    BY <1>5 DEF ContainerExits
  <2>2. Others(p)
    BY <2>1 DEF Others
  <2>3. RunContainerInv(p)'
    BY <1>2, <2>1, SetEffect DEF RunContainerInv
  <2> QED
    BY <2>1, <2>2, <2>3, ContainerStep, SetEffect
<1> QED
  BY <1>3, <1>4, <1>5

\* The invariant on containers holds in every reachable state.
THEOREM ContainerCorrect == Spec => []ContainerInv
<1>1. Init => ContainerInv
  <2> SUFFICES ASSUME DockerInit PROVE ContainerInv
    BY DEF Init
  <2>1. PICK lists : docker = [p \in DockerRuns |-> NewCall(lists[p])]
    BY DEF DockerInit
  <2>2. \A p \in DockerRuns : /\ docker[p].pc = "idle" /\ containers[p] = "none"
                              /\ p \notin removed
    BY <2>1 DEF NewCall, DockerInit
  <2> QED
    BY <2>2 DEF ContainerInv, RunContainerInv
<1>2. DockerTypeOK /\ ContainerInv /\ [Next]_vars => ContainerInv'
  <2> SUFFICES ASSUME DockerTypeOK, ContainerInv, [Next]_vars PROVE ContainerInv'
    OBVIOUS
  <2>1. ASSUME UNCHANGED <<containers, taskContainers, removed>>,
               \A q \in DockerRuns : docker'[q].pc = docker[q].pc
        PROVE  ContainerInv'
    BY <2>1 DEF ContainerInv, RunContainerInv
  <2>2. CASE UNCHANGED dockerVars
    BY <2>1, <2>2 DEF dockerVars, daemonVars
  <2>3. ASSUME NEW p \in DockerRuns, EndDockerContext(p)
        PROVE  ContainerInv'
    <3>1. docker \in [DockerRuns -> DockerCalls]
      BY DEF DockerTypeOK
    <3>2. \A q \in DockerRuns : docker'[q].pc = docker[q].pc
      BY <2>3, <3>1, ContextEffect DEF Others
    <3> QED
      BY <2>1, <2>3, <3>2 DEF EndDockerContext, daemonVars, trackVars
  <2>4. ASSUME \/ \E v \in Volumes, outcome \in {"ok", "failed"} : ExtractionEnds(v, outcome)
               \/ \E im \in SidecarImages : PushTag(im)
        PROVE  ContainerInv'
    BY <2>1, <2>4 DEF ExtractionEnds, PushTag, trackVars
  <2>5. CASE CrashDocker
    <3>1. /\ docker' = [p \in DockerRuns |->
                          IF p \in Started THEN Returned("lost") ELSE docker[p]]
          /\ UNCHANGED <<containers, removed>>
      BY <2>5 DEF CrashDocker, daemonVars
    <3>2. ASSUME NEW p \in DockerRuns
          PROVE  RunContainerInv(p)'
      <4>1. RunContainerInv(p)
        BY DEF ContainerInv
      <4>2. CASE docker[p].pc # "idle"
        <5>1. docker'[p].pc = "lost"
          BY <3>1, <4>2, ReturnedType DEF Started, Ended
        <5> QED
          BY <3>1, <4>1, <5>1 DEF RunContainerInv, Preparing, Holding, Ended
      <4>3. CASE docker[p].pc = "idle"
        <5>1. docker'[p] = docker[p]
          BY <3>1, <4>3 DEF Started
        <5> QED
          BY <3>1, <4>1, <4>3, <5>1 DEF RunContainerInv
      <4> QED
        BY <4>2, <4>3
    <3> QED
      BY <3>2 DEF ContainerInv
  <2>6. CASE DockerNext
    BY <2>3, <2>4, <2>5, <2>6, PreparingKeeps, CreateContainerKeeps, RunningKeeps, RemovalKeeps
       DEF DockerNext, DockerStep
  <2> QED
    BY <2>2, <2>6, DockerFrame
<1> QED
  BY <1>1, <1>2, DockerTypeCorrect, PTL DEF Spec

\* When CancelTask has returned nil for an execution, its container neither runs
\* nor can still be started, whichever answers of the daemon were lost.
THEOREM CancelRemoved == Spec => []CancelRemovesContainer
<1>1. DockerTypeOK /\ ContainerInv => CancelRemovesContainer
  BY DEF DockerTypeOK, ContainerInv, RunContainerInv, CancelRemovesContainer
<1> QED
  BY <1>1, DockerTypeCorrect, ContainerCorrect, PTL
=============================================================================
