-------------------------- MODULE WorkerAccounting --------------------------
(***************************************************************************)
(* Theorems about the counters of Worker: the semaphores and taskWG count  *)
(* exactly those that hold them, the queue is closed only after the drain, *)
(* and a one-shot worker runs one task.                                    *)
(***************************************************************************)
EXTENDS WorkerSafety, FiniteSetTheorems

-----------------------------------------------------------------------------
\* The semaphores and the wait group.

\* The numbers the accounting adds up.
LEMMA Numbers ==
    ASSUME TypeOK, AccountInv
    PROVE  /\ Cardinality(Running) \in Nat
           /\ Cardinality(StandbyObservers) \in Nat
           /\ IsFiniteSet(StandbyHolders)
           /\ Cardinality(StandbyHolders) \in Nat
           /\ tail.release \in Nat /\ tail.leave \in Nat
           /\ taskSlots \in Int /\ standbySlots \in Int /\ taskWG \in Int
           /\ MaxConcurrentTasks \in Nat /\ MaxPrewarmedSandboxes \in Nat
<1>1. StandbyHolders \in SUBSET StandbyObservers
  BY DEF StandbyHolders, StandbyObservers
<1>2. IsFiniteSet(StandbyHolders)
  BY <1>1, FS_Subset DEF AccountInv
<1>3. /\ Cardinality(Running) \in Nat /\ Cardinality(StandbyObservers) \in Nat
      /\ Cardinality(StandbyHolders) \in Nat
  BY <1>2, FS_CardinalityType DEF AccountInv
<1>4. /\ tail.release \in Nat /\ tail.leave \in Nat
      /\ taskSlots \in Int /\ standbySlots \in Int /\ taskWG \in Int
      /\ MaxConcurrentTasks \in Nat /\ MaxPrewarmedSandboxes \in Nat
  BY ConfigAssumption DEF TypeOK, SharedTypeOK, TasksTypeOK, StandbysTypeOK
<1> QED
  BY <1>2, <1>3, <1>4

\* A step that moves nothing between the holders keeps the accounting.
LEMMA CountsKept ==
    ASSUME AccountInv,
           UNCHANGED <<taskSlots, taskWG, standbySlots, tail>>,
           Running' = Running, StandbyHolders' = StandbyHolders,
           StandbyObservers' = StandbyObservers,
           \/ UNCHANGED reader
           \/ /\ reader.at \notin {"accepted", "acquired"}
              /\ reader'.at \notin {"accepted", "acquired"}
    PROVE  AccountInv'
<1>1. /\ One(reader.at = "acquired")' = One(reader.at = "acquired")
      /\ One(Pending)' = One(Pending)
  BY DEF One, Pending
<1>2. TailCount' = TailCount
  BY DEF TailCount
<1>3. SlotAccounting'
  BY <1>1 DEF AccountInv, SlotAccounting
<1>4. WaitGroupAccounting'
  BY <1>1, <1>2 DEF AccountInv, WaitGroupAccounting
<1> QED
  BY <1>3, <1>4 DEF AccountInv

\* The standbys' sets are functions of the standbys.
LEMMA StandbySetsKept ==
    ASSUME UNCHANGED standbyVars
    PROVE  /\ StandbyHolders' = StandbyHolders
           /\ StandbyObservers' = StandbyObservers
           /\ UNCHANGED standbySlots
BY DEF standbyVars, StandbyHolders, StandbyObservers, Local

\* The admission moves a unit of taskWG and of the semaphore from nobody to the
\* reader, or back.
LEMMA AdmissionCounts ==
    ASSUME TypeOK, AccountInv, UNCHANGED standbyVars,
           \/ \E k \in Executions : AcceptAssignment(k)
           \/ AcquireSlot \/ RejectAtCapacity \/ RejectShuttingDown
    PROVE  AccountInv'
<1> USE Numbers, StandbySetsKept
<1>0. /\ Running' = Running /\ UNCHANGED tail
      /\ StandbyHolders' = StandbyHolders
      /\ StandbyObservers' = StandbyObservers /\ UNCHANGED standbySlots
  BY DEF AcceptAssignment, Reserve, AcquireSlot, RejectAtCapacity,
      RejectShuttingDown, Running, Live, taskVars
<1>1. CASE \E k \in Executions : AcceptAssignment(k)
  <2>1. /\ reader.at = "idle" /\ reader'.at = "accepted"
        /\ taskWG' = taskWG + 1 /\ UNCHANGED taskSlots
    BY <1>1 DEF AcceptAssignment, Reserve, Idle
  <2> QED
    BY <1>0, <2>1 DEF AccountInv, SlotAccounting, WaitGroupAccounting, One,
        Pending, TailCount
<1>2. CASE AcquireSlot
  <2>1. /\ reader.at = "accepted" /\ reader'.at = "acquired" /\ UNCHANGED taskWG
        /\ Limited => taskSlots < MaxConcurrentTasks /\ taskSlots' = taskSlots + 1
        /\ ~Limited => taskSlots' = taskSlots
    BY <1>2 DEF AcquireSlot, ReaderAt, SlotFree, Acquire
  <2> QED
    BY <1>0, <2>1 DEF AccountInv, SlotAccounting, WaitGroupAccounting, One,
        Pending, TailCount
<1>3. CASE RejectAtCapacity
  <2>1. /\ reader.at = "accepted" /\ reader'.at = "idle"
        /\ taskWG' = taskWG - 1 /\ UNCHANGED taskSlots
    BY <1>3 DEF RejectAtCapacity, Idle
  <2> QED
    BY <1>0, <2>1 DEF AccountInv, SlotAccounting, WaitGroupAccounting, One,
        Pending, TailCount
<1>4. CASE RejectShuttingDown
  <2>1. /\ reader.at = "acquired" /\ reader'.at = "idle"
        /\ taskWG' = taskWG - 1
        /\ taskSlots' = IF Limited THEN taskSlots - 1 ELSE taskSlots
    BY <1>4 DEF RejectShuttingDown, Idle, Release
  <2> QED
    BY <1>0, <2>1 DEF AccountInv, SlotAccounting, WaitGroupAccounting, One,
        Pending, TailCount
<1> QED
  BY <1>1, <1>2, <1>3, <1>4

\* Inserting the entry hands both units to the execution.
LEMMA ClaimCounts ==
    ASSUME TypeOK, Inv, AccountInv, UNCHANGED standbyVars, ClaimTask
    PROVE  AccountInv'
<1> DEFINE k == reader.key
<1>1. /\ reader.at = "acquired" /\ reader'.at = "claiming" /\ k \in Executions
      /\ UNCHANGED <<taskSlots, taskWG, tail>>
  BY DEF ClaimTask, Claim, ReaderAt, Inv
<1>2. k \notin Running
  <2>1. ~Tracked(k) /\ TaskInv(k)
    BY <1>1 DEF Inv, TaskInv, Pending, Known
  <2> QED
    BY <2>1, NoTaskFields DEF TaskInv, Tracked, Running
<1>3. Running' = Running \cup {k}
  <2>1. exec' = [exec EXCEPT ![k] = "claiming"]
    BY DEF ClaimTask, Claim
  <2> QED
    BY <1>1, <2>1 DEF Running, Live, TypeOK, TasksTypeOK
<1>4. /\ IsFiniteSet(Running')
      /\ Cardinality(Running') = Cardinality(Running) + 1
  BY <1>2, <1>3, FS_AddElement DEF AccountInv
<1> QED
  BY <1>1, <1>4, Numbers, StandbySetsKept DEF AccountInv, SlotAccounting,
      WaitGroupAccounting, One, Pending, TailCount

\* The deferred bookkeeping hands them to the goroutine's tail.
LEMMA FinishCounts ==
    ASSUME TypeOK, AccountInv, UNCHANGED standbyVars, NEW k \in Executions,
           FinishExecution(k)
    PROVE  AccountInv'
<1>1. /\ UNCHANGED <<taskSlots, taskWG, reader>>
      /\ tail'.release = tail.release + 1 /\ tail'.leave = tail.leave
      /\ exec[k] # "none" /\ exec' = [exec EXCEPT ![k] = "none"]
  BY DEF FinishExecution, sharedVars
<1>2. k \in Running /\ Running' = Running \ {k}
  BY <1>1 DEF Running, Live, TypeOK, TasksTypeOK
<1>3. /\ IsFiniteSet(Running')
      /\ Cardinality(Running') = Cardinality(Running) - 1
  BY <1>2, FS_RemoveElement DEF AccountInv
<1> QED
  BY <1>1, <1>3, Numbers, StandbySetsKept DEF AccountInv, SlotAccounting,
      WaitGroupAccounting, One, Pending, TailCount

\* The tail gives the slot back, then leaves taskWG.
LEMMA TailCounts ==
    ASSUME TypeOK, AccountInv, UNCHANGED standbyVars, TaskTail
    PROVE  AccountInv'
<1>0. Running' = Running /\ UNCHANGED reader
  BY DEF TaskTail, ReleaseSlot, signalOneShotComplete, Running, Live
<1>1. CASE ReleaseSlot
  <2>1. /\ taskSlots' = IF Limited THEN taskSlots - 1 ELSE taskSlots
        /\ tail'.release = tail.release - 1 /\ tail'.leave = tail.leave + 1
        /\ UNCHANGED taskWG
    BY <1>1 DEF ReleaseSlot, Release
  <2> QED
    BY <1>0, <2>1, Numbers, StandbySetsKept DEF AccountInv, SlotAccounting,
        WaitGroupAccounting, One, Pending, TailCount
<1>2. CASE signalOneShotComplete
  <2>1. /\ taskWG' = taskWG - 1 /\ UNCHANGED taskSlots
        /\ tail'.release = tail.release /\ tail'.leave = tail.leave - 1
    BY <1>2 DEF signalOneShotComplete
  <2> QED
    BY <1>0, <2>1, Numbers, StandbySetsKept DEF AccountInv, SlotAccounting,
        WaitGroupAccounting, One, Pending, TailCount
<1> QED
  BY <1>1, <1>2 DEF TaskTail

\* The other steps of the tasks' half move no unit.
LEMMA TasksCounts ==
    ASSUME TypeOK, Inv, AccountInv, TasksNext, UNCHANGED standbyVars
    PROVE  AccountInv'
<1>1. CASE \/ \E k \in Executions : AcceptAssignment(k)
           \/ AcquireSlot \/ RejectAtCapacity \/ RejectShuttingDown
  BY <1>1, AdmissionCounts
<1>2. CASE ClaimTask \/ TaskTail \/ \E k \in Executions : FinishExecution(k)
  BY <1>2, ClaimCounts, TailCounts, FinishCounts
<1>3. CASE StartExecution
  <2>1. /\ reader.key \in Executions /\ exec[reader.key] = "claiming"
        /\ reader.at = "claiming" /\ reader'.at = "idle"
        /\ exec' = [exec EXCEPT ![reader.key] = "executing"]
        /\ UNCHANGED <<taskSlots, taskWG, tail>>
    BY <1>3 DEF StartExecution, Inv, TaskInv, Idle
  <2>2. Running' = Running
    BY <2>1 DEF Running, Live, TypeOK, TasksTypeOK
  <2> QED
    BY <2>1, <2>2, CountsKept, StandbySetsKept
<1>4. CASE \/ \E k \in Executions : HandleCancellation(k) \/ TaskCanceller(k)
           \/ \E t \in {taskID(k) : k \in Executions} : HandleRunCancellation(t)
  <2>1. UNCHANGED <<sharedVars, exec, tail>>
    BY <1>4 DEF HandleCancellation, HandleRunCancellation, TaskCanceller,
        CancellationAttempt, CancelTaskFails, CancelTaskSucceeds,
        CancellationStops, SetCanceller
  <2>2. Running' = Running
    BY <2>1 DEF Running, Live
  <2> QED
    BY <2>1, <2>2, CountsKept, StandbySetsKept DEF sharedVars
<1>5. ASSUME NEW k \in Executions, TaskGoroutine(k), ~FinishExecution(k)
      PROVE  AccountInv'
  <2>1. /\ UNCHANGED <<sharedVars, tail>> /\ exec[k] # "none"
        /\ \E step \in ExecSteps \ {"none"} : exec' = [exec EXCEPT ![k] = step]
    BY <1>5 DEF TaskGoroutine, ExecuteTaskReturns, AbandonObservation,
        ReportError, ReportCompleted, MarkSpawned, ExecSteps, Errors, Success
  <2>2. Running' = Running
    BY <2>1 DEF Running, Live, TypeOK, TasksTypeOK
  <2> QED
    BY <2>1, <2>2, CountsKept, StandbySetsKept DEF sharedVars
<1> QED
  BY <1>1, <1>2, <1>3, <1>4, <1>5 DEF TasksNext, TaskReader

\* What the standbys' sets become when one entry changes.
LEMMA EntryChange ==
    ASSUME StandbysTypeOK, NEW s \in StandbyIDs,
           NEW e \in StandbyEntries \cup {NoStandby},
           standbys' = [standbys EXCEPT ![s] = e]
    PROVE  /\ StandbyObservers' =
                  IF e = NoStandby THEN StandbyObservers \ {s}
                                   ELSE StandbyObservers \cup {s}
           /\ StandbyHolders' =
                  IF e = NoStandby \/ e.at = "released"
                  THEN StandbyHolders \ {s} ELSE StandbyHolders \cup {s}
<1>1. \A i \in StandbyIDs : standbys'[i] = IF i = s THEN e ELSE standbys[i]
  BY DEF StandbysTypeOK
<1> QED
  BY <1>1 DEF StandbyObservers, StandbyHolders, Local

\* A local standby's entry, and its slot.
LEMMA LocalEntry ==
    ASSUME StandbysTypeOK, NEW s \in StandbyIDs
    PROVE  /\ Local(s) => standbys[s] \in StandbyEntries
           /\ standbys[s].at # "none" => Local(s)
           /\ \A e \in StandbyEntries : e # NoStandby /\ e.at # "none"
           /\ s \in StandbyObservers <=> Local(s)
           /\ s \in StandbyHolders <=> Local(s) /\ standbys[s].at # "released"
<1>1. NoStandby.at = "none" /\ "none" \notin StandbySteps
  BY DEF NoStandby, StandbySteps
<1>2. \A e \in StandbyEntries : e # NoStandby /\ e.at # "none"
  BY <1>1 DEF StandbyEntries
<1> QED
  BY <1>1, <1>2 DEF StandbysTypeOK, Local, StandbyObservers, StandbyHolders

\* Moving a standby's goroutine writes the step and nothing else.
LEMMA StepUpdate ==
    ASSUME NEW e \in StandbyEntries, NEW step \in StandbySteps
    PROVE  /\ [e EXCEPT !.at = step] \in StandbyEntries
           /\ [e EXCEPT !.at = step].at = step
BY StandbyUpdates DEF StandbyEntries

\* Releasing it writes the step and cancels its context.
LEMMA ReleaseUpdate ==
    ASSUME NEW e \in StandbyEntries
    PROVE  /\ [e EXCEPT !.at = "released", !.cancelled = TRUE] \in StandbyEntries
           /\ [e EXCEPT !.at = "released", !.cancelled = TRUE].at = "released"
<1>1. [e EXCEPT !.at = "released", !.cancelled = TRUE] \in StandbyEntries
  BY StandbyUpdates
<1>2. [e EXCEPT !.at = "released", !.cancelled = TRUE].at = "released"
  BY DEF StandbyEntries
<1> QED
  BY <1>1, <1>2

\* Every step of the standbys' half.
LEMMA StandbysCounts ==
    ASSUME TypeOK, AccountInv, StandbysNext, UNCHANGED taskVars
    PROVE  AccountInv'
<1> PICK s \in StandbyIDs :
        \/ StandbyReader(s) \/ StandbyGoroutine(s) \/ StandbyWatcher(s)
        \/ DestroyReturns(s)
  BY DEF StandbysNext
<1>0. /\ Running' = Running /\ UNCHANGED tail /\ StandbysTypeOK
      /\ StandbySteps = {"creating", "running", "returned", "reporting",
                         "releasing", "released"}
  BY DEF taskVars, Running, Live, TypeOK, StandbySteps
<1>1. ASSUME NEW e \in StandbyEntries, Local(s),
             standbys' = [standbys EXCEPT ![s] = e],
             e.at = "released" <=> standbys[s].at = "released"
      PROVE  StandbyObservers' = StandbyObservers /\ StandbyHolders' = StandbyHolders
  <2>1. e # NoStandby
    BY <1>0, <1>1, LocalEntry
  <2>2. /\ StandbyObservers' = StandbyObservers \cup {s}
        /\ StandbyHolders' = IF e.at = "released" THEN StandbyHolders \ {s}
                                                  ELSE StandbyHolders \cup {s}
    BY <1>0, <1>1, <2>1, EntryChange
  <2>3. /\ s \in StandbyObservers
        /\ s \in StandbyHolders <=> e.at # "released"
    BY <1>0, <1>1, LocalEntry
  <2> QED
    BY <2>2, <2>3
<1>2. CASE PrewarmCreate(s)
  <2> DEFINE e == [NoStandby EXCEPT !.at = "creating"]
  <2>1. e \in StandbyEntries /\ e.at = "creating"
    BY DEF StandbyEntries, StandbySteps, NoStandby
  <2>2. ~Local(s) /\ standbys' = [standbys EXCEPT ![s] = e]
    BY <1>2 DEF PrewarmCreate
  <2> HIDE DEF e
  <2>3. /\ StandbyObservers' = StandbyObservers \cup {s}
        /\ StandbyHolders' = StandbyHolders \cup {s}
        /\ s \notin StandbyObservers /\ s \notin StandbyHolders
    BY <1>0, <2>1, <2>2, EntryChange, LocalEntry
  <2>4. /\ IsFiniteSet(StandbyObservers')
        /\ Cardinality(StandbyObservers') = Cardinality(StandbyObservers) + 1
        /\ Cardinality(StandbyHolders') = Cardinality(StandbyHolders) + 1
    BY <2>3, FS_AddElement, Numbers DEF AccountInv
  <2>5. /\ reader.at = "idle" /\ reader'.at = "creating"
        /\ taskWG' = taskWG + 1
        /\ IF OwnSlots
           THEN /\ standbySlots < MaxPrewarmedSandboxes
                /\ standbySlots' = standbySlots + 1 /\ UNCHANGED taskSlots
           ELSE /\ UNCHANGED standbySlots
                /\ Limited => taskSlots < MaxConcurrentTasks
                /\ taskSlots' = IF Limited THEN taskSlots + 1 ELSE taskSlots
    BY <1>2 DEF PrewarmCreate, Idle, ReaderAt, StandbySlotFree, SlotFree,
        AcquireStandbySlot, Acquire
  <2>6. SlotAccounting'
    <3>1. CASE OwnSlots
      BY <1>0, <2>4, <2>5, <3>1, Numbers DEF AccountInv, SlotAccounting, One
    <3>2. CASE ~OwnSlots
      BY <1>0, <2>4, <2>5, <3>2, Numbers DEF AccountInv, SlotAccounting, One
    <3> QED
      BY <3>1, <3>2
  <2>7. WaitGroupAccounting'
    BY <1>0, <2>4, <2>5, Numbers DEF AccountInv, WaitGroupAccounting, One,
        Pending, TailCount
  <2> QED
    BY <1>0, <2>4, <2>6, <2>7 DEF AccountInv
<1>3. CASE StartStandby(s)
  <2>1. Local(s) /\ standbys[s] \in StandbyEntries
    BY <1>0, <1>3, LocalEntry DEF StartStandby
  <2>2. /\ [standbys[s] EXCEPT !.at = "running"] \in StandbyEntries
        /\ [standbys[s] EXCEPT !.at = "running"].at = "running"
    BY <1>0, <2>1, StepUpdate
  <2>3. standbys' = [standbys EXCEPT ![s] = [standbys[s] EXCEPT !.at = "running"]]
    BY <1>0, <1>3 DEF StartStandby, StandbysTypeOK
  <2>4. standbys[s].at = "creating"
    BY <1>3 DEF StartStandby
  <2>5. StandbyObservers' = StandbyObservers /\ StandbyHolders' = StandbyHolders
    BY <1>1, <2>1, <2>2, <2>3, <2>4
  <2>6. /\ reader.at = "creating" /\ reader'.at = "idle"
        /\ UNCHANGED <<taskSlots, taskWG, standbySlots>>
    BY <1>3 DEF StartStandby, Idle
  <2> QED
    BY <1>0, <2>5, <2>6, CountsKept
<1>4. ASSUME NEW step \in StandbySteps \ {"released"}, SetStandby(s, step),
             Local(s), standbys[s].at # "released"
      PROVE  AccountInv'
  <2>1. standbys[s] \in StandbyEntries
    BY <1>0, <1>4, LocalEntry
  <2>2. /\ [standbys[s] EXCEPT !.at = step] \in StandbyEntries
        /\ [standbys[s] EXCEPT !.at = step].at = step
    BY <2>1, StepUpdate
  <2>3. standbys' = [standbys EXCEPT ![s] = [standbys[s] EXCEPT !.at = step]]
    BY <1>0, <1>4 DEF SetStandby, StandbysTypeOK
  <2>4. StandbyObservers' = StandbyObservers /\ StandbyHolders' = StandbyHolders
    BY <1>1, <1>4, <2>1, <2>2, <2>3
  <2> QED
    BY <1>0, <1>4, <2>4, CountsKept DEF SetStandby, sharedVars
<1>5. CASE StandbyReturns(s) \/ CheckStandbyCause(s)
  <2>1. Local(s) /\ standbys[s].at # "released"
    BY <1>0, <1>5, LocalEntry DEF StandbyReturns, CheckStandbyCause
  <2>2. \E step \in StandbySteps \ {"released"} : SetStandby(s, step)
    BY <1>5 DEF StandbyReturns, CheckStandbyCause, StandbySteps
  <2> QED
    BY <1>4, <2>1, <2>2
<1>6. CASE ReportStandbyExit(s)
  <2>1. Local(s) /\ standbys[s].at = "reporting" /\ standbys[s] \in StandbyEntries
    BY <1>0, <1>6, LocalEntry DEF ReportStandbyExit
  <2>2. /\ [standbys[s] EXCEPT !.at = "releasing"] \in StandbyEntries
        /\ [standbys[s] EXCEPT !.at = "releasing"].at = "releasing"
    BY <1>0, <2>1, StepUpdate
  <2>3. standbys' = [standbys EXCEPT ![s] = [standbys[s] EXCEPT !.at = "releasing"]]
    BY <1>0, <1>6 DEF ReportStandbyExit, StandbysTypeOK
  <2>4. StandbyObservers' = StandbyObservers /\ StandbyHolders' = StandbyHolders
    BY <1>1, <2>1, <2>2, <2>3
  <2>5. UNCHANGED <<reader, taskSlots, taskWG, standbySlots>>
    BY <1>6 DEF ReportStandbyExit, sharedVars
  <2> QED
    BY <1>0, <2>4, <2>5, CountsKept
<1>7. CASE PrewarmDestroy(s)
  <2>1. UNCHANGED <<reader, taskSlots, taskWG, standbySlots>>
    BY <1>7 DEF PrewarmDestroy, sharedVars
  <2>2. StandbyObservers' = StandbyObservers /\ StandbyHolders' = StandbyHolders
    <3>1. CASE ~Local(s)
      BY <1>7, <3>1 DEF PrewarmDestroy, StandbyObservers, StandbyHolders, Local
    <3>2. CASE Local(s)
      <4> DEFINE e == [standbys[s] EXCEPT !.source = IF @ = "" THEN "user" ELSE @,
                                          !.cancelled = TRUE]
      <4>1. standbys[s] \in StandbyEntries
        BY <1>0, <3>2, LocalEntry
      <4>2. e \in StandbyEntries /\ e.at = standbys[s].at
        BY <4>1, StandbyUpdates DEF StandbyEntries
      <4>3. standbys' = [standbys EXCEPT ![s] = e]
        BY <1>0, <1>7, <3>2 DEF PrewarmDestroy, StandbysTypeOK
      <4> HIDE DEF e
      <4> QED
        BY <1>1, <3>2, <4>2, <4>3
    <3> QED
      BY <3>1, <3>2
  <2> QED
    BY <1>0, <2>1, <2>2, CountsKept
<1>8. CASE DestroyReturns(s) \/ StandbyWatcher(s)
  <2>1. UNCHANGED <<reader, taskSlots, taskWG, standbySlots, standbys>>
    BY <1>8 DEF DestroyReturns, StandbyWatcher, reportWatchedStandbyExit,
        WatcherSends, sharedVars
  <2>2. StandbyObservers' = StandbyObservers /\ StandbyHolders' = StandbyHolders
    BY <2>1 DEF StandbyObservers, StandbyHolders, Local
  <2> QED
    BY <1>0, <2>1, <2>2, CountsKept
<1>9. CASE ReleaseStandby(s)
  <2> DEFINE e == [standbys[s] EXCEPT !.at = "released", !.cancelled = TRUE]
  <2>1. Local(s) /\ standbys[s].at = "releasing" /\ standbys[s] \in StandbyEntries
    BY <1>0, <1>9, LocalEntry DEF ReleaseStandby
  <2>2. e \in StandbyEntries /\ e.at = "released" /\ e # NoStandby
    BY <1>0, <2>1, ReleaseUpdate, LocalEntry
  <2>3. standbys' = [standbys EXCEPT ![s] = e]
    BY <1>0, <1>9 DEF ReleaseStandby, StandbysTypeOK
  <2> HIDE DEF e
  <2>4. /\ StandbyObservers' = StandbyObservers
        /\ StandbyHolders' = StandbyHolders \ {s} /\ s \in StandbyHolders
    BY <1>0, <2>1, <2>2, <2>3, EntryChange, LocalEntry
  <2>5. Cardinality(StandbyHolders') = Cardinality(StandbyHolders) - 1
    BY <2>4, Numbers, FS_RemoveElement
  <2>6. /\ UNCHANGED <<reader, taskWG>>
        /\ IF OwnSlots
           THEN standbySlots' = standbySlots - 1 /\ UNCHANGED taskSlots
           ELSE /\ UNCHANGED standbySlots
                /\ taskSlots' = IF Limited THEN taskSlots - 1 ELSE taskSlots
    BY <1>9 DEF ReleaseStandby, ReleaseStandbySlot, Release
  <2> QED
    BY <1>0, <2>4, <2>5, <2>6, Numbers DEF AccountInv, SlotAccounting,
        WaitGroupAccounting, One, Pending, TailCount
<1>10. CASE ForgetStandby(s)
  <2>1. Local(s) /\ standbys[s].at = "released"
    BY <1>0, <1>10, LocalEntry DEF ForgetStandby
  <2>2. standbys' = [standbys EXCEPT ![s] = NoStandby]
    BY <1>10 DEF ForgetStandby
  <2>3. /\ StandbyObservers' = StandbyObservers \ {s} /\ s \in StandbyObservers
        /\ StandbyHolders' = StandbyHolders
    <3>1. /\ StandbyObservers' = StandbyObservers \ {s}
          /\ StandbyHolders' = StandbyHolders \ {s}
      BY <1>0, <2>2, EntryChange
    <3>2. s \in StandbyObservers /\ s \notin StandbyHolders
      BY <2>1 DEF StandbyObservers, StandbyHolders
    <3> QED
      BY <3>1, <3>2
  <2>4. /\ IsFiniteSet(StandbyObservers')
        /\ Cardinality(StandbyObservers') = Cardinality(StandbyObservers) - 1
    BY <2>3, FS_RemoveElement DEF AccountInv
  <2>5. /\ UNCHANGED <<reader, taskSlots, standbySlots>> /\ taskWG' = taskWG - 1
    BY <1>10 DEF ForgetStandby
  <2> QED
    BY <1>0, <2>3, <2>4, <2>5, Numbers DEF AccountInv, SlotAccounting,
        WaitGroupAccounting, One, Pending, TailCount
<1> QED
  BY <1>2, <1>3, <1>5, <1>6, <1>7, <1>8, <1>9, <1>10 DEF StandbyReader,
      StandbyGoroutine

\* The signal and Run's steps, shutdownTasks' critical section included.
LEMMA RunCounts ==
    ASSUME TypeOK, AccountInv, CancelContext \/ RunNext \/ UNCHANGED vars
    PROVE  AccountInv'
<1>1. /\ UNCHANGED <<taskSlots, taskWG, tail, exec, standbySlots>>
      /\ \/ UNCHANGED reader
         \/ reader.at = "idle" /\ reader'.at = "stopped"
  <2>1. CASE CancelContext \/ shutdownTasks
    BY <2>1 DEF CancelContext, shutdownTasks, shutdownActiveTasks,
        stopStandbys, taskVars, standbyVars
  <2>2. CASE TasksDone \/ ShutdownTimeout \/ CloseOutbound \/ shutdownBackend
    BY <2>2 DEF TasksDone, ShutdownTimeout, CloseOutbound, shutdownBackend,
        sharedVars, taskVars, standbyVars
  <2>3. CASE ReaderStops
    BY <2>3 DEF ReaderStops, ReaderAt, Idle, taskVars, standbyVars
  <2>4. CASE UNCHANGED vars
    BY <2>4 DEF vars, sharedVars, taskVars, standbyVars
  <2> QED
    BY <2>1, <2>2, <2>3, <2>4 DEF RunNext
<1>2. Running' = Running
  BY <1>1 DEF Running, Live
<1>3. \A s \in StandbyIDs : /\ Local(s)' <=> Local(s)
                            /\ standbys'[s].at = standbys[s].at
  <2>1. CASE UNCHANGED standbys
    BY <2>1 DEF Local
  <2>2. CASE shutdownTasks
    <3> SUFFICES ASSUME NEW s \in StandbyIDs
                 PROVE  /\ Local(s)' <=> Local(s)
                        /\ standbys'[s].at = standbys[s].at
      OBVIOUS
    <3>1. standbys'[s] =
             IF ~Local(s) THEN NoStandby
             ELSE IF PreservesTasks
                  THEN [standbys[s] EXCEPT
                           !.interrupted = @ \/ ~standbys[s].cancelled]
                  ELSE [standbys[s] EXCEPT
                           !.source = IF @ = "" THEN "shutdown" ELSE @,
                           !.cancelled = TRUE]
      BY <2>2 DEF shutdownTasks, stopStandbys
    <3>2. CASE ~Local(s)
      BY <3>1, <3>2 DEF Local
    <3>3. CASE Local(s)
      <4>1. standbys[s] \in StandbyEntries
        BY <3>3, LocalEntry DEF TypeOK
      <4>2. standbys'[s].at = standbys[s].at
        BY <3>1, <3>3, <4>1 DEF StandbyEntries
      <4>3. standbys[s].at # "none" /\ NoStandby.at = "none"
        BY <4>1, LocalEntry DEF TypeOK, NoStandby
      <4> QED
        BY <3>3, <4>2, <4>3 DEF Local
    <3> QED
      BY <3>2, <3>3
  <2>3. shutdownTasks \/ UNCHANGED standbys
    BY DEF CancelContext, RunNext, TasksDone, ShutdownTimeout, CloseOutbound,
        ReaderStops, shutdownBackend, vars, standbyVars
  <2> QED
    BY <2>1, <2>2, <2>3
<1>4. StandbyObservers' = StandbyObservers /\ StandbyHolders' = StandbyHolders
  BY <1>3 DEF StandbyObservers, StandbyHolders
<1> QED
  BY <1>1, <1>2, <1>4, CountsKept

\* The accounting is exact in every reachable state.
THEOREM AccountCorrect == Spec => []AccountInv
<1>1. Init => AccountInv
  <2> SUFFICES ASSUME Init PROVE AccountInv
    OBVIOUS
  <2>1. Running = {} /\ StandbyObservers = {} /\ StandbyHolders = {}
    BY DEF Init, TasksInit, StandbysInit, Running, Live, StandbyObservers,
        StandbyHolders, Local
  <2>2. Cardinality(Running) = 0 /\ Cardinality(StandbyObservers) = 0
        /\ Cardinality(StandbyHolders) = 0
    BY <2>1, FS_EmptySet
  <2> QED
    BY <2>1, <2>2, FS_EmptySet, ConfigAssumption DEF Init, SharedInit,
        TasksInit, StandbysInit, Idle, AccountInv, SlotAccounting,
        WaitGroupAccounting, One, Pending, TailCount, Limited, OwnSlots
<1>2. TypeOK /\ Inv /\ AccountInv /\ [Next]_vars => AccountInv'
  BY TasksCounts, StandbysCounts, RunCounts DEF Next, Exited
<1> QED
  BY <1>1, <1>2, TypeCorrect, InvCorrect, PTL DEF Spec

\* Every unit of a semaphore has exactly one holder, and neither semaphore
\* exceeds its limit (taskSemaphore and standbySemaphore).
THEOREM Slots == Spec => []SlotAccounting
<1>1. AccountInv => SlotAccounting
  BY DEF AccountInv
<1> QED
  BY <1>1, AccountCorrect, PTL

\* taskWG counts exactly those that have still to leave it.
THEOREM WaitGroup == Spec => []WaitGroupAccounting
<1>1. AccountInv => WaitGroupAccounting
  BY DEF AccountInv
<1> QED
  BY <1>1, AccountCorrect, PTL

-----------------------------------------------------------------------------
\* The one-shot worker.

\* A one-shot worker neither preserves nor spawns tasks, and has no standbys.
LEMMA OneShotConfig ==
    ASSUME OneShot
    PROVE  ~PreservesTasks /\ Success = "completed" /\ ~standbysSupported
BY ConfigAssumption DEF Success, standbysSupported

\* While its task runs, the acceptance is taken, nothing is being admitted, no
\* goroutine is past its bookkeeping and every other execution is untouched.
LEMMA OneShotLive ==
    ASSUME TypeOK, OneShot, OneShotInv, NEW k \in Executions, ~Untouched(k)
    PROVE  /\ oneShot.accepted /\ ~Pending
           /\ \A j \in Executions : j # k => Untouched(j)
           /\ Live(k) => TailCount = 0 /\ ~oneShot.done
<1>1. TailCount \in Nat
  BY DEF TypeOK, TasksTypeOK, TailCount
<1>2. oneShot.accepted /\ ~Pending
  BY DEF OneShotInv
<1>3. \A j \in Executions : j # k => Untouched(j)
  BY DEF OneShotInv
<1>4. Live(k) => ~(TailCount > 0) /\ ~oneShot.done
  BY DEF OneShotInv, Running
<1> QED
  BY <1>1, <1>2, <1>3, <1>4

\* A step that leaves the execution, the messages and the acceptance alone.
LEMMA OneShotKept ==
    ASSUME OneShotInv,
           UNCHANGED <<exec, status, interrupted, tail, oneShot>>,
           \/ UNCHANGED reader
           \/ /\ reader.at \notin {"accepted", "acquired"}
              /\ reader'.at \notin {"accepted", "acquired"}
           \/ Pending /\ Pending',
           OneShot => \A s \in StandbyIDs : ~Local(s)'
    PROVE  OneShotInv'
<1>1. Pending' <=> Pending
  BY DEF Pending
<1>2. Running' = Running /\ TailCount' = TailCount
      /\ \A k \in Executions : Untouched(k)' <=> Untouched(k)
  BY DEF Running, Live, TailCount, Untouched
<1> QED
  BY <1>1, <1>2 DEF OneShotInv

\* Accepting, rejecting and claiming.
LEMMA OneShotAdmission ==
    ASSUME TypeOK, Inv, OneShotInv, UNCHANGED standbyVars,
           \/ \E k \in Executions : AcceptAssignment(k)
           \/ RejectAtCapacity \/ RejectShuttingDown \/ ClaimTask
    PROVE  OneShotInv'
<1> SUFFICES ASSUME OneShot PROVE OneShotInv'
  BY DEF OneShotInv
<1>0. /\ \A s \in StandbyIDs : ~Local(s)'
      /\ UNCHANGED tail /\ TailCount' = TailCount
      /\ oneShot'.done = oneShot.done
  BY DEF OneShotInv, standbyVars, Local, AcceptAssignment, Reserve,
      RejectAtCapacity, RejectShuttingDown, ClaimTask, Claim, resetAcceptance,
      TailCount
<1>1. CASE \/ \E k \in Executions : AcceptAssignment(k)
           \/ RejectAtCapacity \/ RejectShuttingDown
  <2>1. /\ UNCHANGED <<exec, status, interrupted>>
        /\ Pending \/ ~oneShot.accepted
        /\ oneShot'.accepted \/ ~Pending'
    BY <1>1 DEF AcceptAssignment, Reserve, RejectAtCapacity,
        RejectShuttingDown, Pending, Idle
  <2>2. Running' = Running
        /\ \A k \in Executions : Untouched(k)' <=> Untouched(k)
    BY <2>1 DEF Running, Live, Untouched
  <2> QED
    BY <1>0, <2>1, <2>2 DEF OneShotInv
<1>2. CASE ClaimTask
  <2> DEFINE k == reader.key
  <2>1. /\ Pending /\ ~Pending' /\ k \in Executions
        /\ oneShot' = oneShot
    BY <1>2 DEF ClaimTask, Claim, ReaderAt, Inv, Pending
  <2>2. /\ \A j \in Executions : Untouched(j)
        /\ TailCount = 0 /\ ~oneShot.done /\ oneShot.accepted
    BY <2>1 DEF OneShotInv
  <2>3. /\ exec' = [exec EXCEPT ![k] = "claiming"]
        /\ interrupted' = [interrupted EXCEPT ![k] = FALSE]
        /\ status' = [status EXCEPT ![k] = "none"]
    BY <1>2 DEF ClaimTask, Claim
  <2>4. \A j \in Executions : j # k => /\ Untouched(j)'
                                       /\ exec'[j] = exec[j]
                                       /\ interrupted'[j] = interrupted[j]
                                       /\ status'[j] = status[j]
    BY <2>1, <2>2, <2>3 DEF Untouched, Live, TypeOK, TasksTypeOK
  <2>5. exec'[k] = "claiming" /\ ~interrupted'[k]
    BY <2>1, <2>3 DEF TypeOK, TasksTypeOK
  <2> QED
    BY <1>0, <2>1, <2>2, <2>4, <2>5 DEF OneShotInv
<1> QED
  BY <1>1, <1>2

\* The execution itself, up to its terminal status.
LEMMA OneShotExecution ==
    ASSUME TypeOK, Inv, OneShotInv, UNCHANGED standbyVars, NEW k \in Executions,
           \/ StartExecution /\ k = reader.key
           \/ TaskGoroutine(k) /\ ~FinishExecution(k)
    PROVE  OneShotInv'
<1> SUFFICES ASSUME OneShot PROVE OneShotInv'
  BY DEF OneShotInv
<1>1. Live(k) /\ exec[k] \notin {"spawned", "interrupted"} /\ ~interrupted[k]
  BY DEF StartExecution, TaskGoroutine, ExecuteTaskReturns, AbandonObservation,
      ReportError, ReportCompleted, MarkSpawned, Errors, Inv, TaskInv, Live,
      OneShotInv
<1>2. /\ UNCHANGED <<tail, oneShot, interrupted>>
      /\ \/ UNCHANGED reader
         \/ reader'.at = "idle"
      /\ \E step \in {"executing", "completed", "finishing"} \cup Errors :
            exec' = [exec EXCEPT ![k] = step]
      /\ \/ UNCHANGED status
         \/ \E s \in {"claimed"} \cup Terminal : status' = [status EXCEPT ![k] = s]
      /\ exec'[k] = "finishing" => status'[k] \in Terminal
  <2>1. CASE StartExecution /\ k = reader.key
    BY <2>1 DEF StartExecution, Idle, TypeOK, TasksTypeOK
  <2>2. CASE \E r \in Errors \cup {Success} : ExecuteTaskReturns(k, r)
    BY <2>2, OneShotConfig DEF ExecuteTaskReturns, sharedVars, TypeOK,
        TasksTypeOK, Errors
  <2>3. CASE ReportError(k)
    <3>1. ErrorStatus(k, exec[k]) \in Terminal
      BY DEF ErrorStatus, Terminal
    <3> QED
      BY <2>3, <3>1 DEF ReportError, sharedVars, TypeOK, TasksTypeOK
  <2>4. CASE ReportCompleted(k)
    BY <2>4 DEF ReportCompleted, sharedVars, TypeOK, TasksTypeOK, Terminal
  <2>5. ~AbandonObservation(k) /\ ~MarkSpawned(k)
    BY <1>1 DEF AbandonObservation, MarkSpawned
  <2> QED
    BY <2>1, <2>2, <2>3, <2>4, <2>5 DEF TaskGoroutine
<1>3. /\ oneShot.accepted /\ ~Pending /\ TailCount = 0 /\ ~oneShot.done
      /\ \A j \in Executions : j # k => Untouched(j)
  BY <1>1, OneShotLive DEF Untouched
<1>4. \A j \in Executions : j # k => /\ Untouched(j)'
                                     /\ exec'[j] = exec[j]
                                     /\ status'[j] = status[j]
  BY <1>2, <1>3 DEF Untouched, Live, TypeOK, TasksTypeOK
<1>5. exec'[k] \in {"executing", "completed", "finishing"} \cup Errors
  BY <1>2 DEF TypeOK, TasksTypeOK
<1>6. /\ TailCount' = 0 /\ ~oneShot'.done /\ oneShot'.accepted /\ ~Pending'
      /\ \A s \in StandbyIDs : ~Local(s)'
  BY <1>2, <1>3 DEF TailCount, Pending, OneShotInv, standbyVars, Local
<1> QED
  BY <1>2, <1>4, <1>5, <1>6 DEF OneShotInv, Errors

\* The bookkeeping and the goroutine's tail.
LEMMA OneShotEnd ==
    ASSUME TypeOK, OneShotInv, UNCHANGED standbyVars,
           TaskTail \/ \E k \in Executions : FinishExecution(k)
    PROVE  OneShotInv'
<1> SUFFICES ASSUME OneShot PROVE OneShotInv'
  BY DEF OneShotInv
<1>0. /\ tail.release \in Nat /\ tail.leave \in Nat
      /\ UNCHANGED <<status, interrupted>> /\ (Pending' <=> Pending)
      /\ \A s \in StandbyIDs : ~Local(s)'
  BY DEF TaskTail, ReleaseSlot, signalOneShotComplete, FinishExecution,
      sharedVars, Pending, TypeOK, TasksTypeOK, OneShotInv, standbyVars, Local
<1>1. CASE \E k \in Executions : FinishExecution(k)
  <2> PICK k \in Executions : FinishExecution(k)
    BY <1>1
  <2>1. /\ exec[k] \in {"finishing", "interrupted"}
        /\ exec' = [exec EXCEPT ![k] = "none"] /\ UNCHANGED oneShot
        /\ TailCount' = TailCount + 1
    BY <1>0 DEF FinishExecution, TailCount
  <2>2. Live(k) /\ status[k] \in Terminal
    BY <2>1 DEF OneShotInv, Live
  <2>3. /\ oneShot.accepted /\ ~Pending /\ TailCount = 0 /\ ~oneShot.done
        /\ \A j \in Executions : j # k => Untouched(j)
    BY <2>2, OneShotLive DEF Untouched
  <2>4. \A j \in Executions : /\ exec'[j] = "none"
                              /\ j # k => Untouched(j)'
    BY <1>0, <2>1, <2>3 DEF Untouched, Live, TypeOK, TasksTypeOK
  <2>5. Running' = {}
    BY <2>4 DEF Running, Live
  <2>6. TailCount' = One(~oneShot.done)'
    BY <2>1, <2>3 DEF One
  <2> QED
    BY <1>0, <2>1, <2>2, <2>3, <2>4, <2>5, <2>6 DEF OneShotInv
<1>2. CASE TaskTail
  <2>1. UNCHANGED exec /\ oneShot'.accepted = oneShot.accepted
    BY <1>2 DEF TaskTail, ReleaseSlot, signalOneShotComplete
  <2>2. TailCount > 0
    BY <1>0, <1>2 DEF TaskTail, ReleaseSlot, signalOneShotComplete, TailCount
  <2>3. /\ Running = {} /\ TailCount = One(~oneShot.done)
        /\ \E k \in Executions : status[k] \in Terminal
        /\ ~(Pending \/ ~oneShot.accepted)
    BY <2>2 DEF OneShotInv
  <2>4. ~oneShot.done /\ TailCount = 1
    BY <2>2, <2>3 DEF One
  <2>5. TailCount' = One(~oneShot.done)'
    <3>1. CASE ReleaseSlot
      BY <1>0, <2>4, <3>1 DEF ReleaseSlot, TailCount, One
    <3>2. CASE signalOneShotComplete
      <4>1. /\ tail'.release = tail.release /\ tail'.leave = tail.leave - 1
            /\ oneShot'.done
        BY <3>2 DEF signalOneShotComplete
      <4>2. TailCount' = TailCount - 1
        BY <1>0, <4>1 DEF TailCount
      <4>3. One(~oneShot.done)' = 0
        BY <4>1 DEF One
      <4> QED
        BY <2>4, <4>2, <4>3
    <3> QED
      BY <1>2, <3>1, <3>2 DEF TaskTail
  <2>6. /\ Running' = Running
        /\ \A k \in Executions : Untouched(k)' <=> Untouched(k)
    BY <1>0, <2>1 DEF Running, Live, Untouched
  <2> QED
    BY <1>0, <2>1, <2>3, <2>5, <2>6 DEF OneShotInv
<1> QED
  BY <1>1, <1>2

\* Every step of the tasks' half.
LEMMA OneShotTasks ==
    ASSUME TypeOK, Inv, OneShotInv, TasksNext, UNCHANGED standbyVars
    PROVE  OneShotInv'
<1>0. OneShot => \A s \in StandbyIDs : ~Local(s)'
  BY DEF OneShotInv, standbyVars, Local
<1>1. CASE AcquireSlot
  BY <1>0, <1>1, OneShotKept DEF AcquireSlot, ReaderAt, taskVars, Pending
<1>2. CASE \/ \E k \in Executions : AcceptAssignment(k)
           \/ RejectAtCapacity \/ RejectShuttingDown \/ ClaimTask
  BY <1>2, OneShotAdmission
<1>3. CASE \/ \E k \in Executions : HandleCancellation(k) \/ TaskCanceller(k)
           \/ \E t \in {taskID(k) : k \in Executions} : HandleRunCancellation(t)
  <2>1. UNCHANGED <<reader, exec, status, interrupted, tail, oneShot>>
    BY <1>3 DEF HandleCancellation, HandleRunCancellation, TaskCanceller,
        CancellationAttempt, CancelTaskFails, CancelTaskSucceeds,
        CancellationStops, SetCanceller, sharedVars
  <2> QED
    BY <1>0, <2>1, OneShotKept
<1>4. CASE StartExecution
  <2>1. reader.key \in Executions
    BY <1>4 DEF StartExecution, Inv
  <2> QED
    BY <1>4, <2>1, OneShotExecution
<1>5. ASSUME NEW k \in Executions, TaskGoroutine(k) PROVE OneShotInv'
  BY <1>5, OneShotExecution, OneShotEnd
<1> QED
  BY <1>1, <1>2, <1>3, <1>4, <1>5, OneShotEnd DEF TasksNext, TaskReader

\* The standbys' half does nothing but destroy, and Run nothing to the task.
LEMMA OneShotOthers ==
    ASSUME TypeOK, OneShotInv,
           \/ StandbysNext /\ UNCHANGED taskVars
           \/ CancelContext \/ RunNext \/ UNCHANGED vars
    PROVE  OneShotInv'
<1> SUFFICES ASSUME OneShot PROVE OneShotInv'
  BY DEF OneShotInv
<1>0. \A s \in StandbyIDs : ~Local(s)
  BY DEF OneShotInv
<1>1. CASE StandbysNext /\ UNCHANGED taskVars
  <2> PICK s \in StandbyIDs :
          \/ StandbyReader(s) \/ StandbyGoroutine(s) \/ StandbyWatcher(s)
          \/ DestroyReturns(s)
    BY <1>1 DEF StandbysNext
  <2>1. standbys[s].at = "none" /\ ~Local(s)
    <3>1. NoStandby.at = "none"
      BY DEF NoStandby
    <3> QED
      BY <1>0, <3>1 DEF Local
  <2>2. UNCHANGED <<reader, standbys>>
    BY <2>1, OneShotConfig DEF StandbyReader, PrewarmCreate, StartStandby,
        PrewarmDestroy, StandbyGoroutine, StandbyReturns, CheckStandbyCause,
        ReportStandbyExit, ReleaseStandby, ForgetStandby, StandbyWatcher,
        reportWatchedStandbyExit, WatcherSends, DestroyReturns, sharedVars
  <2> QED
    BY <1>0, <1>1, <2>2, OneShotKept DEF taskVars, Local
<1>2. CASE shutdownTasks
  <2>1. /\ UNCHANGED <<reader, exec, status, interrupted, tail, oneShot>>
        /\ \A s \in StandbyIDs : standbys'[s] = NoStandby
    BY <1>0, <1>2, OneShotConfig DEF shutdownTasks, shutdownActiveTasks,
        cancelActiveTasks, stopStandbys
  <2> QED
    BY <2>1, OneShotKept DEF Local
<1>3. CASE \/ CancelContext \/ TasksDone \/ ShutdownTimeout \/ CloseOutbound
           \/ ReaderStops \/ shutdownBackend \/ UNCHANGED vars
  <2>1. /\ UNCHANGED <<taskVars, standbyVars>>
        /\ \/ UNCHANGED reader
           \/ reader.at = "idle" /\ reader'.at = "stopped"
    BY <1>3 DEF CancelContext, TasksDone, ShutdownTimeout, CloseOutbound,
        ReaderStops, shutdownBackend, vars, sharedVars, ReaderAt, Idle
  <2> QED
    BY <1>0, <2>1, OneShotKept DEF taskVars, standbyVars, Local
<1> QED
  BY <1>1, <1>2, <1>3 DEF RunNext

\* The one task of a one-shot worker is in one place at a time.
THEOREM OneShotCorrect == Spec => []OneShotInv
<1>1. Init => OneShotInv
  BY DEF Init, SharedInit, TasksInit, StandbysInit, OneShotInv, Local,
      Untouched, Live, Pending, Idle, TailCount, Running
<1>2. TypeOK /\ Inv /\ OneShotInv /\ [Next]_vars => OneShotInv'
  BY OneShotTasks, OneShotOthers DEF Next, Exited
<1> QED
  BY <1>1, <1>2, TypeCorrect, InvCorrect, PTL DEF Spec

\* A one-shot worker claims one task, and signals completion only when that task
\* has reported and given up its slot (signalOneShotComplete).
THEOREM OneShotSafe == Spec => []OneShotSingle
<1>1. TypeOK /\ AccountInv /\ OneShotInv => OneShotSingle
  <2> SUFFICES ASSUME TypeOK, AccountInv, OneShotInv, OneShot
               PROVE  OneShotSingle
    BY DEF OneShotSingle
  <2>1. \A j, k \in Executions :
            status[j] # "none" /\ status[k] # "none" => j = k
    BY DEF OneShotInv, Untouched
  <2>2. ASSUME oneShot.done
        PROVE  /\ Running = {} /\ ~Pending /\ taskSlots = 0
               /\ \E k \in Executions : status[k] \in Terminal
    <3>1. /\ Running = {} /\ ~Pending /\ TailCount = 0
          /\ \E k \in Executions : status[k] \in Terminal
      BY <2>2 DEF OneShotInv, One
    <3>2. StandbyHolders = {}
      BY DEF OneShotInv, StandbyHolders
    <3>3. Cardinality(Running) = 0 /\ Cardinality(StandbyHolders) = 0
      BY <3>1, <3>2, FS_EmptySet
    <3>4. tail.release = 0
      BY <3>1, Numbers DEF TailCount
    <3>5. One(reader.at = "acquired") = 0
      BY <3>1 DEF Pending, One
    <3>6. taskSlots = 0
      BY <3>3, <3>4, <3>5 DEF AccountInv, SlotAccounting
    <3> QED
      BY <3>1, <3>6
  <2> QED
    BY <2>1, <2>2 DEF OneShotSingle
<1> QED
  BY <1>1, TypeCorrect, AccountCorrect, OneShotCorrect, PTL

-----------------------------------------------------------------------------
\* The drain.

\* Only the second critical section of handleTaskAssignment starts an execution.
LEMMA OnlyClaimStarts ==
    ASSUME TypeOK, Inv, Next \/ UNCHANGED vars, ~ClaimTask
    PROVE  Running' \subseteq Running
<1>1. CASE TasksNext
  <2>1. ASSUME TaskReader PROVE Running' \subseteq Running
    <3>1. CASE StartExecution
      <4>1. /\ reader.key \in Executions /\ exec[reader.key] = "claiming"
            /\ exec' = [exec EXCEPT ![reader.key] = "executing"]
        BY <3>1 DEF StartExecution, Inv, TaskInv
      <4> QED
        BY <4>1 DEF Running, Live, TypeOK, TasksTypeOK
    <3>2. ~StartExecution => UNCHANGED exec
      BY <2>1 DEF TaskReader, AcceptAssignment, Reserve, HandleCancellation,
          HandleRunCancellation, AcquireSlot, RejectAtCapacity,
          RejectShuttingDown, taskVars
    <3> QED
      BY <3>1, <3>2 DEF Running, Live
  <2>2. ASSUME TaskTail PROVE UNCHANGED exec
    BY <2>2 DEF TaskTail, ReleaseSlot, signalOneShotComplete
  <2>3. ASSUME NEW k \in Executions, TaskCanceller(k) PROVE UNCHANGED exec
    BY <2>3 DEF TaskCanceller, CancellationAttempt, CancelTaskFails,
        CancelTaskSucceeds, CancellationStops, SetCanceller
  <2>4. ASSUME NEW k \in Executions, TaskGoroutine(k)
        PROVE  exec[k] # "none" /\ \E step \in ExecSteps :
                                       exec' = [exec EXCEPT ![k] = step]
    BY <2>4 DEF TaskGoroutine, ExecuteTaskReturns, AbandonObservation,
        ReportError, ReportCompleted, MarkSpawned, FinishExecution, ExecSteps,
        Errors, Success
  <2> QED
    BY <1>1, <2>1, <2>2, <2>3, <2>4 DEF TasksNext, Running, Live, TypeOK,
        TasksTypeOK
<1>2. CASE ~TasksNext
  <2>1. UNCHANGED exec
    BY <1>2 DEF Next, CancelContext, RunNext, Exited, shutdownTasks,
        shutdownActiveTasks, TasksDone, ShutdownTimeout, CloseOutbound,
        ReaderStops, shutdownBackend, vars, taskVars
  <2> QED
    BY <2>1 DEF Running, Live
<1> QED
  BY <1>1, <1>2

\* A step of a goroutine or a handler, under whatever Run is waiting for.
LEMMA DrainDuring ==
    ASSUME TypeOK, Inv, OneShotInv, DrainInv, Next \/ UNCHANGED vars,
           UNCHANGED <<runVars, shuttingDown>>,
           oneShot.done => oneShot'.done,
           oneShot'.done => oneShot.done \/ OneShot
    PROVE  DrainInv'
<1>1. CASE ClaimTask
  <2>1. ~shuttingDown /\ Pending
    BY <1>1 DEF ClaimTask, Claim, Stopping, Pending
  <2>2. ~oneShot.done
    BY <2>1 DEF DrainInv, OneShotInv
  <2> QED
    BY <2>1, <2>2 DEF DrainInv, DrainedBeforeClose, runVars
<1>2. CASE ~ClaimTask
  <2>1. Running' \subseteq Running
    BY <1>2, OnlyClaimStarts
  <2> QED
    BY <2>1 DEF DrainInv, DrainedBeforeClose, runVars
<1> QED
  BY <1>1, <1>2

\* Run's own steps: what shutdownTasks collects covers what is running.
LEMMA DrainRun ==
    ASSUME TypeOK, Inv, AccountInv, OneShotInv, DrainInv, RunNext
    PROVE  DrainInv'
<1>0. Running' = Running /\ UNCHANGED oneShot
  BY DEF RunNext, shutdownTasks, shutdownActiveTasks, TasksDone,
      ShutdownTimeout, CloseOutbound, ReaderStops, shutdownBackend, taskVars,
      Running, Live
<1>1. \A k \in Executions : Live(k) <=> Tracked(k) /\ ~activeTasks[k].done
  BY NoTaskFields DEF Inv, TaskInv, Tracked
<1>2. CASE shutdownTasks
  <2>1. /\ shuttingDown' /\ run' = "draining"
        /\ UNCHANGED <<outboundClosed, timedOut>>
    BY <1>2 DEF shutdownTasks
  <2>2. awaiting'.group \/ Running \subseteq awaiting'.tasks
    <3>1. CASE PreservesTasks
      <4>1. awaiting'.tasks = TaskObservers
        BY <1>2, <3>1 DEF shutdownTasks
      <4> QED
        BY <1>1, <4>1 DEF TaskObservers, Running
    <3>2. CASE ~PreservesTasks
      <4>1. awaiting'.group = (\/ \E k \in Executions : Tracked(k)
                               \/ \E s \in StandbyIDs : Local(s))
        BY <1>2, <3>2 DEF shutdownTasks, NoWait
      <4>2. CASE \E k \in Executions : Tracked(k)
        BY <4>1, <4>2
      <4>3. CASE ~\E k \in Executions : Tracked(k)
        BY <1>1, <4>3 DEF Running
      <4> QED
        BY <4>2, <4>3
    <3> QED
      BY <3>1, <3>2
  <2> QED
    BY <1>0, <2>1, <2>2 DEF DrainInv, DrainedBeforeClose
<1>3. CASE TasksDone
  <2>1. /\ run = "draining" /\ WaitOver /\ run' = "drained"
        /\ UNCHANGED <<shuttingDown, outboundClosed, timedOut>>
    BY <1>3 DEF TasksDone, sharedVars
  <2>2. Running = {}
    <3>1. CASE awaiting.group
      <4>1. taskWG = 0
        BY <2>1, <3>1 DEF WaitOver
      <4>2. Cardinality(Running) = 0
        BY <4>1, Numbers DEF AccountInv, WaitGroupAccounting, TailCount, One
      <4> QED
        BY <4>2, FS_EmptySet DEF AccountInv
    <3>2. CASE ~awaiting.group
      <4>1. Running \subseteq awaiting.tasks
        BY <2>1, <3>2 DEF DrainInv
      <4>2. \A k \in awaiting.tasks : activeTasks[k].done
        BY <2>1 DEF WaitOver
      <4> QED
        BY <1>1, <4>1, <4>2 DEF Running
    <3> QED
      BY <3>1, <3>2
  <2> QED
    BY <1>0, <2>1, <2>2 DEF DrainInv, DrainedBeforeClose
<1>4. CASE ShutdownTimeout
  BY <1>0, <1>4 DEF ShutdownTimeout, sharedVars, DrainInv, DrainedBeforeClose
<1>5. CASE CloseOutbound
  <2>1. /\ run' = "closing" /\ UNCHANGED <<shuttingDown, timedOut>>
        /\ run = "drained" \/ oneShot.done
    BY <1>5 DEF CloseOutbound, sharedVars
  <2>2. oneShot.done => Running = {}
    BY DEF DrainInv, OneShotInv
  <2> QED
    BY <1>0, <2>1, <2>2 DEF DrainInv, DrainedBeforeClose
<1>6. CASE ReaderStops \/ shutdownBackend
  BY <1>0, <1>6 DEF ReaderStops, shutdownBackend, sharedVars, DrainInv,
      DrainedBeforeClose
<1> QED
  BY <1>2, <1>3, <1>4, <1>5, <1>6 DEF RunNext

\* Whatever Run has left behind on its way out is drained, or timed out.
THEOREM DrainCorrect == Spec => []DrainInv
<1>1. Init => DrainInv
  BY DEF Init, SharedInit, TasksInit, DrainInv, DrainedBeforeClose
<1>2. TypeOK /\ Inv /\ AccountInv /\ OneShotInv /\ DrainInv /\ [Next]_vars
          => DrainInv'
  <2> SUFFICES ASSUME TypeOK, Inv, AccountInv, OneShotInv, DrainInv, [Next]_vars
               PROVE  DrainInv'
    OBVIOUS
  <2>1. CASE RunNext
    BY <2>1, DrainRun
  <2>2. CASE ~RunNext
    <3>1. UNCHANGED <<runVars, shuttingDown>>
      <4>1. ASSUME TaskReader \/ TaskTail PROVE UNCHANGED shuttingDown
        BY <4>1 DEF TaskReader, AcceptAssignment, Reserve, HandleCancellation,
            HandleRunCancellation, AcquireSlot, RejectAtCapacity,
            RejectShuttingDown, ClaimTask, Claim, StartExecution, TaskTail,
            ReleaseSlot, signalOneShotComplete, sharedVars
      <4>2. ASSUME NEW k \in Executions, TaskGoroutine(k) \/ TaskCanceller(k)
            PROVE  UNCHANGED shuttingDown
        BY <4>2 DEF TaskGoroutine, ExecuteTaskReturns, AbandonObservation,
            ReportError, ReportCompleted, MarkSpawned, FinishExecution,
            TaskCanceller, CancellationAttempt, CancelTaskFails,
            CancelTaskSucceeds, CancellationStops, SetCanceller, sharedVars
      <4>3. ASSUME StandbysNext PROVE UNCHANGED shuttingDown
        BY <4>3, StandbyReaderFrame DEF StandbysNext
      <4> QED
        BY <2>2, <4>1, <4>2, <4>3 DEF Next, TasksNext, CancelContext, Exited,
            vars, sharedVars
    <3>2. /\ oneShot.done => oneShot'.done
          /\ oneShot'.done => oneShot.done \/ OneShot
      <4>1. ASSUME TaskReader \/ ReleaseSlot PROVE oneShot'.done = oneShot.done
        <5>1. CASE \E k \in Executions : AcceptAssignment(k)
          BY <5>1 DEF AcceptAssignment, Reserve
        <5>2. CASE RejectAtCapacity \/ RejectShuttingDown
          BY <5>2 DEF RejectAtCapacity, RejectShuttingDown, resetAcceptance
        <5>3. CASE \/ \E k \in Executions : HandleCancellation(k)
                   \/ \E t \in {taskID(k) : k \in Executions} :
                          HandleRunCancellation(t)
          BY <5>3 DEF HandleCancellation, HandleRunCancellation
        <5>4. CASE AcquireSlot \/ ClaimTask \/ StartExecution \/ ReleaseSlot
          BY <5>4 DEF AcquireSlot, ClaimTask, Claim, StartExecution,
              ReleaseSlot, taskVars
        <5> QED
          BY <4>1, <5>1, <5>2, <5>3, <5>4 DEF TaskReader
      <4>2. ASSUME NEW k \in Executions, TaskGoroutine(k) \/ TaskCanceller(k)
            PROVE  UNCHANGED oneShot
        BY <4>2 DEF TaskGoroutine, ExecuteTaskReturns, AbandonObservation,
            ReportError, ReportCompleted, MarkSpawned, FinishExecution,
            TaskCanceller, CancellationAttempt, CancelTaskFails,
            CancelTaskSucceeds, CancellationStops, SetCanceller
      <4>3. ASSUME signalOneShotComplete
            PROVE  oneShot'.done = (oneShot.done \/ OneShot)
        BY <4>3 DEF signalOneShotComplete
      <4>4. UNCHANGED oneShot \/ TasksNext
        BY <2>2 DEF Next, CancelContext, Exited, vars, taskVars
      <4>5. \/ oneShot'.done = oneShot.done
            \/ oneShot'.done = (oneShot.done \/ OneShot)
        BY <4>1, <4>2, <4>3, <4>4 DEF TasksNext, TaskTail
      <4>6. CASE oneShot'.done = oneShot.done
        BY <4>6
      <4>7. CASE oneShot'.done = (oneShot.done \/ OneShot)
        BY <4>7
      <4> QED
        BY <4>5, <4>6, <4>7
    <3> QED
      BY <3>1, <3>2, DrainDuring
  <2> QED
    BY <2>1, <2>2
<1> QED
  BY <1>1, <1>2, TypeCorrect, InvCorrect, AccountCorrect, OneShotCorrect, PTL
  DEF Spec

\* gracefullyCloseConnection closes the queue only when no execution has still
\* to report, except after BackendShutdownTimeout.
THEOREM Drained == Spec => []DrainedBeforeClose
<1>1. DrainInv => DrainedBeforeClose
  BY DEF DrainInv
<1> QED
  BY <1>1, DrainCorrect, PTL
=============================================================================
