-------------------------- MODULE WorkerRefinement --------------------------
(***************************************************************************)
(* Theorems about what Worker remembers: the two bounded caches, spawned   *)
(* tasks, and that the worker implements TaskLifecycle.                    *)
(***************************************************************************)
EXTENDS WorkerSafety, FiniteSetTheorems

-----------------------------------------------------------------------------
\* The bounded FIFO behind rememberCompletedLocked and sendStandbyExit.

Listed(x, q) == \E i \in 1..Len(q) : q[i] = x
Distinct(q) == \A i, j \in 1..Len(q) : q[i] = q[j] => i = j
Pushed(q, x, n) ==
    LET grown == Append(q, x)
    IN  IF Len(grown) > n THEN Tail(grown) ELSE grown

\* The entries of a pushed queue: shifted by one when the oldest is evicted.
LEMMA PushedShape ==
    ASSUME NEW S, NEW q \in Seq(S), NEW x \in S, NEW n \in Nat \ {0},
           Len(q) <= n
    PROVE  /\ Pushed(q, x, n) \in Seq(S)
           /\ Len(q) < n => /\ Len(Pushed(q, x, n)) = Len(q) + 1
                            /\ \A i \in 1..(Len(q) + 1) : Pushed(q, x, n)[i] =
                                   IF i <= Len(q) THEN q[i] ELSE x
           /\ Len(q) = n => /\ Len(Pushed(q, x, n)) = n
                            /\ Head(q) = q[1]
                            /\ \A i \in 1..n : Pushed(q, x, n)[i] =
                                   IF i < n THEN q[i + 1] ELSE x
<1> DEFINE grown == Append(q, x)
<1>1. /\ grown \in Seq(S) /\ grown # <<>> /\ Len(grown) = Len(q) + 1
      /\ \A i \in 1..(Len(q) + 1) : grown[i] = IF i <= Len(q) THEN q[i] ELSE x
      /\ Len(q) \in Nat
  BY AppendProperties, LenProperties
<1>2. /\ Tail(grown) \in Seq(S) /\ Len(Tail(grown)) = Len(q)
      /\ \A i \in 1..Len(q) : Tail(grown)[i] = grown[i + 1]
  BY <1>1, HeadTailProperties
<1>3. Pushed(q, x, n) = IF Len(grown) > n THEN Tail(grown) ELSE grown
  BY DEF Pushed
<1>4. CASE Len(q) < n
  <2>1. Pushed(q, x, n) = grown
    BY <1>1, <1>3, <1>4
  <2> QED
    BY <1>1, <1>4, <2>1
<1>5. CASE Len(q) = n
  <2>1. Pushed(q, x, n) = Tail(grown)
    BY <1>1, <1>3, <1>5
  <2>2. \A i \in 1..n : Tail(grown)[i] = IF i < n THEN q[i + 1] ELSE x
    BY <1>1, <1>2, <1>5
  <2>3. Head(q) = q[1]
    OBVIOUS
  <2> QED
    BY <1>2, <1>5, <2>1, <2>2, <2>3
<1> QED
  BY <1>1, <1>4, <1>5

\* The pushed queue holds x and the old entries but for the evicted one, within
\* the bound.
LEMMA PushedListed ==
    ASSUME NEW S, NEW q \in Seq(S), NEW x \in S, NEW n \in Nat \ {0},
           Len(q) <= n, NEW y
    PROVE  /\ Len(Pushed(q, x, n)) <= n
           /\ Listed(x, Pushed(q, x, n))
           /\ Listed(y, Pushed(q, x, n)) => y = x \/ Listed(y, q)
           /\ Listed(y, q) /\ ~(Len(q) = n /\ y = Head(q))
                  => Listed(y, Pushed(q, x, n))
<1> DEFINE r == Pushed(q, x, n)
<1>0. Len(q) \in Nat /\ Head(q) = q[1]
  BY LenProperties
<1>1. CASE Len(q) < n
  <2>1. /\ Len(r) = Len(q) + 1
        /\ \A i \in 1..(Len(q) + 1) : r[i] = IF i <= Len(q) THEN q[i] ELSE x
    BY <1>1, PushedShape
  <2> HIDE DEF r
  <2>2. Listed(x, r)
    <3>1. Len(q) + 1 \in 1..Len(r) /\ r[Len(q) + 1] = x
      BY <1>0, <2>1
    <3> QED
      BY <3>1 DEF Listed
  <2>3. Listed(y, r) => y = x \/ Listed(y, q)
    BY <1>0, <2>1 DEF Listed
  <2>4. Listed(y, q) => Listed(y, r)
    BY <1>0, <2>1 DEF Listed
  <2> QED
    BY <1>0, <1>1, <2>1, <2>2, <2>3, <2>4 DEF r
<1>2. CASE Len(q) = n
  <2>1. /\ Len(r) = n
        /\ \A i \in 1..n : r[i] = IF i < n THEN q[i + 1] ELSE x
    BY <1>2, PushedShape
  <2> HIDE DEF r
  <2>2. Listed(x, r)
    <3>1. n \in 1..Len(r) /\ r[n] = x
      BY <2>1
    <3> QED
      BY <3>1 DEF Listed
  <2>3. Listed(y, r) => y = x \/ Listed(y, q)
    <3> SUFFICES ASSUME NEW i \in 1..n, r[i] = y, y # x PROVE Listed(y, q)
      BY <2>1 DEF Listed
    <3>1. i + 1 \in 1..Len(q) /\ q[i + 1] = y
      BY <1>2, <2>1
    <3> QED
      BY <3>1 DEF Listed
  <2>4. Listed(y, q) /\ y # Head(q) => Listed(y, r)
    <3> SUFFICES ASSUME NEW i \in 1..Len(q), q[i] = y, y # q[1]
                 PROVE  Listed(y, r)
      BY <1>0 DEF Listed
    <3>1. i - 1 \in 1..Len(r) /\ r[i - 1] = q[(i - 1) + 1] /\ (i - 1) + 1 = i
      <4>1. i # 1
        OBVIOUS
      <4>2. i - 1 \in 1..n /\ i - 1 < n /\ (i - 1) + 1 = i
        BY <1>0, <1>2, <4>1
      <4> QED
        BY <2>1, <4>2
    <3> QED
      BY <3>1 DEF Listed
  <2> QED
    BY <1>2, <2>1, <2>2, <2>3, <2>4 DEF r
<1> QED
  BY <1>0, <1>1, <1>2

\* A queue without duplicates stays so when a new entry is pushed, and what is
\* evicted is gone.
LEMMA PushedDistinct ==
    ASSUME NEW S, NEW q \in Seq(S), NEW x \in S, NEW n \in Nat \ {0},
           Len(q) <= n, Distinct(q), ~Listed(x, q)
    PROVE  /\ Distinct(Pushed(q, x, n))
           /\ Len(q) = n => ~Listed(Head(q), Pushed(q, x, n))
<1> DEFINE r == Pushed(q, x, n)
<1>0. Len(q) \in Nat /\ Head(q) = q[1]
  BY LenProperties
<1>1. CASE Len(q) < n
  <2>1. /\ Len(r) = Len(q) + 1
        /\ \A i \in 1..(Len(q) + 1) : r[i] = IF i <= Len(q) THEN q[i] ELSE x
    BY <1>1, PushedShape
  <2> HIDE DEF r
  <2>2. Distinct(r)
    <3> SUFFICES ASSUME NEW i \in 1..(Len(q) + 1), NEW j \in 1..(Len(q) + 1),
                        r[i] = r[j], i < j
                 PROVE  FALSE
      BY <1>0, <2>1 DEF Distinct
    <3>1. i \in 1..Len(q) /\ r[i] = q[i]
      BY <1>0, <2>1
    <3>2. CASE j \in 1..Len(q)
      <4>1. r[j] = q[j]
        BY <1>0, <2>1, <3>2
      <4>2. i = j
        BY <3>1, <3>2, <4>1 DEF Distinct
      <4> QED
        BY <4>2
    <3>3. CASE j = Len(q) + 1
      <4>1. r[j] = x
        BY <1>0, <2>1, <3>3
      <4> QED
        BY <3>1, <4>1 DEF Listed
    <3> QED
      BY <1>0, <3>2, <3>3
  <2> QED
    BY <1>0, <1>1, <2>2 DEF r
<1>2. CASE Len(q) = n
  <2>1. /\ Len(r) = n
        /\ \A i \in 1..n : r[i] = IF i < n THEN q[i + 1] ELSE x
    BY <1>2, PushedShape
  <2>2. 1 \in 1..Len(q)
    BY <1>2
  <2> HIDE DEF r
  <2>3. Distinct(r)
    <3> SUFFICES ASSUME NEW i \in 1..n, NEW j \in 1..n, r[i] = r[j], i < j
                 PROVE  FALSE
      BY <2>1 DEF Distinct
    <3>1. i + 1 \in 1..Len(q) /\ r[i] = q[i + 1]
      BY <1>2, <2>1
    <3>2. CASE j < n
      <4>1. j + 1 \in 1..Len(q) /\ r[j] = q[j + 1]
        BY <1>2, <2>1, <3>2
      <4>2. i + 1 = j + 1
        BY <3>1, <4>1 DEF Distinct
      <4> QED
        BY <4>2
    <3>3. CASE j = n
      <4>1. r[j] = x
        BY <2>1, <3>3
      <4> QED
        BY <3>1, <4>1 DEF Listed
    <3> QED
      BY <3>2, <3>3
  <2>4. ~Listed(q[1], r)
    <3> SUFFICES ASSUME NEW i \in 1..n, r[i] = q[1] PROVE FALSE
      BY <2>1 DEF Listed
    <3>1. CASE i < n
      <4>1. i + 1 \in 1..Len(q) /\ q[i + 1] = q[1]
        BY <1>2, <2>1, <3>1
      <4> QED
        BY <2>2, <4>1 DEF Distinct
    <3>2. CASE i = n
      BY <2>1, <2>2, <3>2 DEF Listed
    <3> QED
      BY <3>1, <3>2
  <2> QED
    BY <1>0, <2>3, <2>4 DEF r
<1> QED
  BY <1>0, <1>1, <1>2

-----------------------------------------------------------------------------
\* The completed-execution cache.

\* rememberCompletedLocked keeps the map and the list in agreement; whatever
\* else it forgets, it leaves CacheSize executions remembered.
LEMMA CacheKept ==
    ASSUME TypeOK, CacheConsistent, NEW k \in Executions,
           \/ UNCHANGED <<completedTasks, completedExecutions>>
           \/ \E how \in {"completed", "cancelled"} : rememberCompleted(k, how)
    PROVE  /\ CacheConsistent'
           /\ \A j \in Executions : j # k /\ completedTasks[j] = "no"
                  => completedTasks'[j] = "no"
           /\ \A j \in Executions : j # k /\ completedTasks'[j] = "no"
                  => completedTasks[j] = "no" \/ Len(completedExecutions') = CacheSize
<1> DEFINE q == completedExecutions
<1>0. /\ q \in Seq(Executions) /\ Len(q) \in Nat /\ Len(q) <= CacheSize
      /\ completedTasks \in [Executions -> {"no", "completed", "cancelled"}]
      /\ CacheSize \in Nat \ {0}
      /\ Distinct(q)
      /\ \A j \in Executions : completedTasks[j] # "no" <=> Listed(j, q)
  BY ConfigAssumption, LenProperties DEF TypeOK, TasksTypeOK, CacheConsistent,
      Distinct, Listed
<1>1. CASE UNCHANGED <<completedTasks, completedExecutions>>
  BY <1>1 DEF CacheConsistent
<1>2. ASSUME NEW how \in {"completed", "cancelled"}, rememberCompleted(k, how),
             executionID(k) # Legacy
      PROVE  /\ CacheConsistent'
             /\ \A j \in Executions : j # k /\ completedTasks[j] = "no"
                    => completedTasks'[j] = "no"
             /\ \A j \in Executions : j # k /\ completedTasks'[j] = "no"
                    => completedTasks[j] = "no" \/ Len(completedExecutions') = CacheSize
  <2>1. /\ completedTasks' = RememberedTasks(k, how)
        /\ completedExecutions' = RememberedOrder(k)
    BY <1>2 DEF rememberCompleted
  <2>2. /\ completedTasks'[k] = how
        /\ \A j \in Executions : j # k =>
              completedTasks'[j] = IF /\ completedTasks[k] = "no"
                                      /\ Len(q) >= CacheSize
                                      /\ j = Head(q)
                                   THEN "no" ELSE completedTasks[j]
    BY <2>1 DEF RememberedTasks
  <2>3. \A j \in Executions : executionID(j) = Legacy => completedTasks'[j] = "no"
    BY <1>2, <2>2 DEF CacheConsistent
  <2>4. CASE completedTasks[k] # "no"
    <3>1. /\ completedExecutions' = q
          /\ \A j \in Executions : completedTasks'[j] = "no" <=> completedTasks[j] = "no"
      BY <2>1, <2>2, <2>4 DEF RememberedOrder
    <3> QED
      BY <2>3, <3>1 DEF CacheConsistent
  <2>5. CASE completedTasks[k] = "no"
    <3> DEFINE r == Pushed(q, k, CacheSize)
    <3>1. completedExecutions' = r
      BY <2>1, <2>5 DEF RememberedOrder, Pushed
    <3>2. ~Listed(k, q)
      BY <1>0, <2>5
    <3>3. /\ Len(r) <= CacheSize /\ Distinct(r) /\ Listed(k, r)
          /\ Len(q) = CacheSize => ~Listed(Head(q), r)
      BY <1>0, <3>2, PushedListed, PushedDistinct
    <3>4. \A j \in Executions : j # k =>
              (Listed(j, r) <=> Listed(j, q) /\ ~(Len(q) = CacheSize /\ j = Head(q)))
      BY <1>0, <3>3, PushedListed
    <3>5. \A j \in Executions : completedTasks'[j] # "no" <=> Listed(j, r)
      <4>1. ASSUME NEW j \in Executions, j # k
            PROVE  completedTasks'[j] # "no" <=> Listed(j, r)
        <5>1. Len(q) >= CacheSize <=> Len(q) = CacheSize
          BY <1>0
        <5>2. completedTasks'[j] = IF Len(q) = CacheSize /\ j = Head(q)
                                   THEN "no" ELSE completedTasks[j]
          BY <2>2, <2>5, <4>1, <5>1
        <5> QED
          BY <1>0, <3>4, <4>1, <5>2
      <4> QED
        BY <2>2, <3>3, <4>1
    <3>6. Len(q) = CacheSize => Len(r) = CacheSize
      BY <1>0, PushedShape
    <3> HIDE DEF r
    <3>7. CacheConsistent'
      BY <2>3, <3>1, <3>3, <3>5 DEF CacheConsistent, Distinct, Listed
    <3>8. \A j \in Executions : j # k /\ completedTasks'[j] = "no"
              => completedTasks[j] = "no" \/ Len(completedExecutions') = CacheSize
      BY <1>0, <2>2, <3>1, <3>6
    <3> QED
      BY <2>2, <3>7, <3>8
  <2> QED
    BY <2>4, <2>5
<1>3. ASSUME NEW how \in {"completed", "cancelled"}, rememberCompleted(k, how),
             executionID(k) = Legacy
      PROVE  UNCHANGED <<completedTasks, completedExecutions>>
  BY <1>3 DEF rememberCompleted
<1> QED
  BY <1>1, <1>2, <1>3

\* A full, consistent cache accounts for CacheSize known executions.
LEMMA FullCache ==
    ASSUME TasksTypeOK', CacheConsistent', IsFiniteSet(KnownExecutions'),
           Len(completedExecutions') = CacheSize
    PROVE  Cardinality(KnownExecutions') >= CacheSize
<1> DEFINE q == completedExecutions'
           K == KnownExecutions'
<1>1. /\ q \in [1..CacheSize -> Executions] /\ CacheSize \in Nat
      /\ \A i, j \in 1..CacheSize : q[i] = q[j] => i = j
      /\ \A i \in 1..CacheSize : completedTasks'[q[i]] # "no"
  BY ConfigAssumption, LenProperties DEF TasksTypeOK, CacheConsistent
<1>2. \A i \in 1..CacheSize : q[i] \in K
  BY <1>1 DEF KnownExecutions, Known
<1>3. q \in [1..CacheSize -> K]
  BY <1>1, <1>2
<1> HIDE DEF q, K
<1>4. q \in Injection(1..CacheSize, K)
  BY <1>1, <1>3 DEF Injection, IsInjective
<1>5. Cardinality(1..CacheSize) <= Cardinality(K)
  BY <1>4, FS_Injection DEF K
<1>6. Cardinality(1..CacheSize) = CacheSize
  BY <1>1, FS_Interval
<1>7. Cardinality(K) \in Nat
  BY FS_CardinalityType DEF K
<1> QED
  BY <1>1, <1>5, <1>6, <1>7 DEF K

-----------------------------------------------------------------------------
\* The refinement, one group of actions at a time: each step keeps RefineInv and
\* is a step of TaskLifecycle or leaves its variables alone.

\* What TaskLifecycle sees.
LEMMA Abstraction ==
    ASSUME KnownExecutions' = KnownExecutions, Running' = Running,
           UNCHANGED <<status, shuttingDown>>
    PROVE  UNCHANGED Lifecycle!vars
BY DEF Lifecycle!vars

\* A step that changes neither the tracked executions nor the cache.
LEMMA QuietStep ==
    ASSUME RefineInv, Running' = Running,
           UNCHANGED <<status, shuttingDown, completedTasks,
                       completedExecutions>>,
           \A k \in Executions :
               /\ Known(k)' <=> Known(k)
               /\ interrupted'[k] \/ exec'[k] = "interrupted" => shuttingDown
               /\ exec'[k] = "finishing" => status[k] # "none"
    PROVE  RefineInv' /\ [Lifecycle!Next]_Lifecycle!vars
<1>1. KnownExecutions' = KnownExecutions
  BY DEF KnownExecutions
<1>2. CacheConsistent'
  BY DEF RefineInv, CacheConsistent
<1> QED
  BY <1>1, <1>2, Abstraction DEF RefineInv

\* Steps that leave every execution alone.
LEMMA IdleStep ==
    ASSUME RefineInv,
           UNCHANGED <<activeTasks, exec, interrupted, status, shuttingDown,
                       completedTasks, completedExecutions>>
    PROVE  RefineInv' /\ [Lifecycle!Next]_Lifecycle!vars
<1>1. Running' = Running
  BY DEF Running, Live
<1>2. \A k \in Executions :
          /\ Known(k)' <=> Known(k)
          /\ interrupted'[k] \/ exec'[k] = "interrupted" => shuttingDown
          /\ exec'[k] = "finishing" => status[k] # "none"
  BY DEF Known, Tracked, RefineInv
<1> QED
  BY <1>1, <1>2, QuietStep

\* The second critical section of handleTaskAssignment admits.
LEMMA ClaimAdmits ==
    ASSUME TypeOK, Inv, RefineInv, ClaimTask
    PROVE  RefineInv' /\ [Lifecycle!Next]_Lifecycle!vars
<1> DEFINE k == reader.key
<1>1. /\ k \in Executions /\ ~Known(k) /\ ~shuttingDown
      /\ activeTasks' = [activeTasks EXCEPT ![k] = NewTask]
      /\ exec' = [exec EXCEPT ![k] = "claiming"]
      /\ interrupted' = [interrupted EXCEPT ![k] = FALSE]
      /\ status' = [status EXCEPT ![k] = "none"]
      /\ UNCHANGED <<shuttingDown, completedTasks, completedExecutions>>
  BY DEF ClaimTask, Claim, Inv, Stopping
<1> HIDE DEF k
<1>2. \A j \in Executions : Known(j)' <=> Known(j) \/ j = k
  BY <1>1, NoTaskFields DEF Known, Tracked, TypeOK, TasksTypeOK
<1>3. KnownExecutions' = KnownExecutions \cup {k} /\ k \notin KnownExecutions
  BY <1>1, <1>2 DEF KnownExecutions
<1>4. Running' = Running \cup {k}
  BY <1>1 DEF Running, Live, TypeOK, TasksTypeOK
<1>5. Lifecycle!Admit(k)
  BY <1>1, <1>3, <1>4 DEF Lifecycle!Admit
<1>6. IsFiniteSet(KnownExecutions')
  BY <1>3, FS_AddElement DEF RefineInv
<1>7. \A j \in Executions :
          /\ (interrupted[j] \/ exec[j] = "interrupted" => shuttingDown)'
          /\ (exec[j] = "finishing" => status[j] # "none")'
  <2> SUFFICES ASSUME NEW j \in Executions
               PROVE  /\ (interrupted[j] \/ exec[j] = "interrupted" => shuttingDown)'
                      /\ (exec[j] = "finishing" => status[j] # "none")'
    OBVIOUS
  <2>1. CASE j = k
    BY <1>1, <2>1 DEF TypeOK, TasksTypeOK
  <2>2. CASE j # k
    <3>1. exec'[j] = exec[j] /\ interrupted'[j] = interrupted[j]
          /\ status'[j] = status[j]
      BY <1>1, <2>2 DEF TypeOK, TasksTypeOK
    <3> QED
      BY <1>1, <3>1 DEF RefineInv
  <2> QED
    BY <2>1, <2>2
<1>8. CacheConsistent'
  BY <1>1 DEF RefineInv, CacheConsistent
<1> QED
  BY <1>1, <1>5, <1>6, <1>7, <1>8 DEF RefineInv, Lifecycle!Next

\* A step that moves the goroutine of k and sends a status message.
LEMMA SpeakingStep ==
    ASSUME TypeOK, RefineInv, NEW k \in Executions, NEW s \in Statuses \ {"none"},
           NEW step \in ExecSteps \ {"none", "interrupted"}, Live(k),
           exec' = [exec EXCEPT ![k] = step], status' = [status EXCEPT ![k] = s],
           UNCHANGED <<activeTasks, interrupted, shuttingDown, completedTasks,
                       completedExecutions>>
    PROVE  /\ RefineInv'
           /\ UNCHANGED <<KnownExecutions, Running, shuttingDown>>
<1>1. KnownExecutions' = KnownExecutions
  BY DEF KnownExecutions, Known, Tracked
<1>2. Running' = Running
  BY DEF Running, Live, TypeOK, TasksTypeOK
<1>3. CacheConsistent'
  BY DEF RefineInv, CacheConsistent
<1>4. \A j \in Executions :
          /\ (interrupted[j] \/ exec[j] = "interrupted" => shuttingDown)'
          /\ (exec[j] = "finishing" => status[j] # "none")'
  BY DEF RefineInv, TypeOK, TasksTypeOK
<1> QED
  BY <1>1, <1>2, <1>3, <1>4 DEF RefineInv

\* sendTaskClaimed announces.
LEMMA StartAnnounces ==
    ASSUME TypeOK, Inv, RefineInv, StartExecution
    PROVE  RefineInv' /\ [Lifecycle!Next]_Lifecycle!vars
<1> DEFINE k == reader.key
<1>1. /\ k \in Executions /\ exec[k] = "claiming" /\ status[k] = "none"
      /\ exec' = [exec EXCEPT ![k] = "executing"]
      /\ status' = [status EXCEPT ![k] = "claimed"]
      /\ UNCHANGED <<activeTasks, interrupted, shuttingDown, completedTasks,
                     completedExecutions>>
  BY DEF StartExecution, Inv, TaskInv
<1> HIDE DEF k
<1>2. RefineInv' /\ UNCHANGED <<KnownExecutions, Running, shuttingDown>>
  BY <1>1, SpeakingStep DEF Statuses, ExecSteps, Live
<1>3. Lifecycle!Announce(k)
  BY <1>1, <1>2 DEF Lifecycle!Announce, Running, Live
<1> QED
  BY <1>1, <1>2, <1>3 DEF Lifecycle!Next

\* A terminal status message is the one report of its run.
LEMMA ReportReports ==
    ASSUME TypeOK, Inv, RefineInv, NEW k \in Executions,
           ReportError(k) \/ ReportCompleted(k)
    PROVE  RefineInv' /\ [Lifecycle!Next]_Lifecycle!vars
<1>1. PICK s \in Terminal : status' = [status EXCEPT ![k] = s]
  BY DEF ReportError, ReportCompleted, ErrorStatus, Terminal
<1>2. /\ exec[k] \in Errors \cup {"completed"}
      /\ exec' = [exec EXCEPT ![k] = "finishing"]
      /\ UNCHANGED <<activeTasks, interrupted, shuttingDown, completedTasks,
                     completedExecutions>>
  BY DEF ReportError, ReportCompleted, sharedVars
<1>3. Live(k) /\ status[k] = "claimed"
  BY <1>2 DEF Inv, TaskInv, Unreported, Errors, Live
<1>4. RefineInv' /\ UNCHANGED <<KnownExecutions, Running, shuttingDown>>
  BY <1>1, <1>2, <1>3, SpeakingStep DEF Statuses, Terminal, ExecSteps
<1>5. Lifecycle!Report(k, s)
  BY <1>1, <1>3, <1>4 DEF Lifecycle!Report, Running
<1>6. Lifecycle!Terminal = Terminal
  BY DEF Lifecycle!Terminal, Terminal
<1> QED
  BY <1>1, <1>4, <1>5, <1>6 DEF Lifecycle!Next

\* ExecuteTask returning, an abandoned observation and a spawned task are not
\* seen by the server.
LEMMA ReturnIsQuiet ==
    ASSUME TypeOK, Inv, RefineInv, NEW k \in Executions,
           \/ \E r \in Errors \cup {Success} : ExecuteTaskReturns(k, r)
           \/ AbandonObservation(k) \/ MarkSpawned(k)
    PROVE  RefineInv' /\ [Lifecycle!Next]_Lifecycle!vars
<1>1. /\ UNCHANGED <<interrupted, shuttingDown, completedTasks,
                     completedExecutions, status>>
      /\ exec[k] \in {"executing", "spawned"} \cup Errors
      /\ \E step \in ExecSteps \ {"none"} :
            /\ exec' = [exec EXCEPT ![k] = step]
            /\ step = "interrupted" => interrupted[k]
  BY DEF ExecuteTaskReturns, AbandonObservation, MarkSpawned, sharedVars,
      ExecSteps, Errors, Success
<1>2. status[k] = "claimed" /\ Live(k)
  BY <1>1 DEF Inv, TaskInv, Unreported, Live, Errors
<1>3. Running' = Running
  BY <1>1, <1>2 DEF Running, Live, TypeOK, TasksTypeOK
<1>4. \A j \in Executions : Known(j)' <=> Known(j)
  <2>1. CASE UNCHANGED activeTasks
    BY <1>1, <2>1 DEF Known, Tracked
  <2>2. CASE MarkSpawned(k) /\ Tracked(k)
    <3>1. activeTasks' = [activeTasks EXCEPT ![k].spawned = TRUE]
      BY <2>2 DEF MarkSpawned
    <3>2. activeTasks'[k].spawned = TRUE /\ NoTask.spawned = FALSE
      <4>1. activeTasks[k] \in Entries
        BY <2>2 DEF Tracked, TypeOK, TasksTypeOK
      <4> QED
        BY <3>1, <4>1 DEF Entries, NoTask, TypeOK, TasksTypeOK
    <3>3. activeTasks'[k] # NoTask
      BY <3>2
    <3>4. \A j \in Executions : j # k => activeTasks'[j] = activeTasks[j]
      BY <3>1 DEF TypeOK, TasksTypeOK
    <3> QED
      BY <1>1, <2>2, <3>3, <3>4 DEF Known, Tracked
  <2> QED
    BY <2>1, <2>2 DEF ExecuteTaskReturns, AbandonObservation, MarkSpawned
<1>5. ASSUME NEW j \in Executions
      PROVE  /\ interrupted'[j] \/ exec'[j] = "interrupted" => shuttingDown
             /\ exec'[j] = "finishing" => status[j] # "none"
  <2>1. CASE j = k
    BY <1>1, <1>2, <2>1 DEF RefineInv, TypeOK, TasksTypeOK
  <2>2. CASE j # k
    BY <1>1, <2>2 DEF RefineInv, TypeOK, TasksTypeOK
  <2> QED
    BY <2>1, <2>2
<1> QED
  BY <1>1, <1>3, <1>4, <1>5, QuietStep

\* Letting go of an execution, with the cache's eviction, settles.
LEMMA SettlingStep ==
    ASSUME TypeOK, TasksTypeOK', Inv, RefineInv, NEW k \in Executions,
           Tracked(k), exec'[k] = "none",
           exec[k] # "none" => status[k] # "none",
           ~Known(k)' => executionID(k) = Legacy \/ shuttingDown,
           \/ UNCHANGED <<completedTasks, completedExecutions>>
           \/ \E how \in {"completed", "cancelled"} : rememberCompleted(k, how),
           UNCHANGED <<status, shuttingDown, interrupted>>,
           \A j \in Executions : j # k =>
               activeTasks'[j] = activeTasks[j] /\ exec'[j] = exec[j]
    PROVE  RefineInv' /\ [Lifecycle!Next]_Lifecycle!vars
<1>1. /\ CacheConsistent'
      /\ \A j \in Executions : j # k /\ completedTasks[j] = "no"
             => completedTasks'[j] = "no"
      /\ \A j \in Executions : j # k /\ completedTasks'[j] = "no"
             => completedTasks[j] = "no" \/ Len(completedExecutions') = CacheSize
  BY CacheKept DEF RefineInv
<1>2. KnownExecutions' \subseteq KnownExecutions
  BY <1>1 DEF KnownExecutions, Known, Tracked
<1>3. IsFiniteSet(KnownExecutions')
  BY <1>2, FS_Subset DEF RefineInv
<1>4. Running' = Running \ {k}
  BY DEF Running, Live
<1>5. Running' \subseteq KnownExecutions'
  <2> SUFFICES ASSUME NEW j \in Executions, j # k, Live(j) PROVE Known(j)'
    BY <1>4 DEF Running, KnownExecutions
  <2>1. Tracked(j)
    BY NoTaskFields DEF Inv, TaskInv, Tracked
  <2> QED
    BY <2>1 DEF Known, Tracked
<1>6. ASSUME NEW j \in KnownExecutions \ KnownExecutions'
      PROVE  Lifecycle!MayForget(j)
  <2>1. j \in Executions /\ Known(j) /\ ~Known(j)'
    BY <1>6 DEF KnownExecutions
  <2>2. CASE j = k
    BY <2>1, <2>2 DEF Lifecycle!MayForget, executionID
  <2>3. CASE j # k
    <3>1. Len(completedExecutions') = CacheSize
      BY <1>1, <2>1, <2>3 DEF Known, Tracked
    <3>2. Cardinality(KnownExecutions') >= CacheSize
      BY <1>1, <1>3, <3>1, FullCache
    <3>3. Lifecycle!Cardinality(KnownExecutions') = Cardinality(KnownExecutions')
      BY DEF Lifecycle!Cardinality, Cardinality
    <3> QED
      BY <3>2, <3>3 DEF Lifecycle!MayForget
  <2> QED
    BY <2>2, <2>3
<1>7. \A j \in Running \ Running' : status[j] # "none"
  BY <1>4 DEF Running, Live
<1>8. Lifecycle!Settle
  BY <1>2, <1>4, <1>5, <1>6, <1>7 DEF Lifecycle!Settle
<1>9. \A j \in Executions :
          /\ (interrupted[j] \/ exec[j] = "interrupted" => shuttingDown)'
          /\ (exec[j] = "finishing" => status[j] # "none")'
  BY DEF RefineInv
<1> QED
  BY <1>1, <1>3, <1>8, <1>9 DEF RefineInv, Lifecycle!Next

\* The deferred bookkeeping of executeTask settles: an execution it does not
\* remember has no ID, or shutdownTasks stopped its observation.
LEMMA FinishSettles ==
    ASSUME TypeOK, TasksTypeOK', Inv, RefineInv, NEW k \in Executions,
           FinishExecution(k)
    PROVE  RefineInv' /\ [Lifecycle!Next]_Lifecycle!vars
<1>1. /\ exec[k] \in {"finishing", "interrupted"} /\ exec'[k] = "none"
      /\ UNCHANGED <<status, shuttingDown, interrupted>>
      /\ \A j \in Executions : j # k =>
            activeTasks'[j] = activeTasks[j] /\ exec'[j] = exec[j]
  BY DEF FinishExecution, Settle, Keep, Forget, sharedVars, TypeOK, TasksTypeOK
<1>2. Tracked(k)
  BY <1>1, NoTaskFields DEF Inv, TaskInv, Live, Tracked
<1>3. \/ UNCHANGED <<completedTasks, completedExecutions>>
      \/ \E how \in {"completed", "cancelled"} : rememberCompleted(k, how)
  BY DEF FinishExecution, Settle, Keep, Forget
<1>4. status[k] # "none"
  BY <1>1 DEF RefineInv, Inv, TaskInv, Unreported
<1>5. ~Known(k)' => executionID(k) = Legacy \/ shuttingDown
  <2>1. CASE activeTasks[k].spawned \/ activeTasks[k].source = "user"
    <3>1. activeTasks[k] \in Entries
      BY <1>2 DEF Tracked, TypeOK, TasksTypeOK
    <3>2. activeTasks'[k] = [activeTasks[k] EXCEPT !.done = TRUE]
      BY <1>2, <2>1 DEF FinishExecution, Settle, Keep, TypeOK, TasksTypeOK
    <3>3. activeTasks'[k].source \in Sources
      BY <3>1, <3>2 DEF Entries
    <3>4. activeTasks'[k] # NoTask
      BY <3>3, NoTaskFields DEF Sources
    <3> QED
      BY <3>4 DEF Known, Tracked
  <2>2. CASE ~(activeTasks[k].spawned \/ activeTasks[k].source = "user")
    <3>1. Forget(k)
      BY <1>2, <2>2 DEF FinishExecution, Settle
    <3>2. CASE exec[k] = "interrupted"
      BY <3>2 DEF RefineInv
    <3>3. CASE exec[k] # "interrupted"
      <4>1. rememberCompleted(k, "completed")
        BY <3>1, <3>3 DEF Forget
      <4>2. executionID(k) # Legacy => completedTasks'[k] # "no"
        BY <4>1, RememberEffect DEF TypeOK, Inv
      <4> QED
        BY <4>2 DEF Known
    <3> QED
      BY <3>2, <3>3
  <2> QED
    BY <2>1, <2>2
<1> QED
  BY <1>1, <1>2, <1>3, <1>4, <1>5, SettlingStep

\* So does an accepted cancellation; the canceller's other steps are not seen.
LEMMA CancellerSettles ==
    ASSUME TypeOK, TasksTypeOK', Inv, RefineInv, NEW k \in Executions,
           TaskCanceller(k)
    PROVE  RefineInv' /\ [Lifecycle!Next]_Lifecycle!vars
<1>1. Tracked(k)
  BY NoTaskFields DEF TaskCanceller, CancellationAttempt, CancelTaskFails,
      CancelTaskSucceeds, CancellationStops, Tracked
<1>2. CASE CancelTaskSucceeds(k)
  <2>1. /\ rememberCompleted(k, "cancelled")
        /\ UNCHANGED <<exec, status, shuttingDown, interrupted>>
        /\ \A j \in Executions : j # k => activeTasks'[j] = activeTasks[j]
    BY <1>2 DEF CancelTaskSucceeds, sharedVars, TypeOK, TasksTypeOK
  <2>2. exec[k] = "none"
    BY <1>2 DEF CancelTaskSucceeds, Inv, TaskInv, Live
  <2>3. executionID(k) # Legacy => completedTasks'[k] # "no"
    BY <2>1, RememberEffect DEF TypeOK, Inv
  <2> QED
    BY <1>1, <2>1, <2>2, <2>3, SettlingStep DEF Known
<1>3. CASE CancellationAttempt(k) \/ CancelTaskFails(k) \/ CancellationStops(k)
  <2>1. PICK step \in {"calling", "backoff", "stopped"} : SetCanceller(k, step)
    BY <1>3 DEF CancellationAttempt, CancelTaskFails, CancellationStops
  <2>2. /\ activeTasks' = [activeTasks EXCEPT ![k].canceller = step]
        /\ UNCHANGED <<exec, status, shuttingDown, interrupted,
                       completedTasks, completedExecutions>>
    BY <2>1 DEF SetCanceller, sharedVars
  <2>3. activeTasks'[k] # NoTask
    <3>1. activeTasks[k] \in Entries
      BY <1>1 DEF Tracked, TypeOK, TasksTypeOK
    <3>2. activeTasks'[k].canceller = step
      BY <2>2, <3>1 DEF Entries, TypeOK, TasksTypeOK
    <3> QED
      BY <3>2, NoTaskFields
  <2>4. \A j \in Executions : Known(j)' <=> Known(j)
    BY <1>1, <2>2, <2>3 DEF Known, Tracked, TypeOK, TasksTypeOK
  <2>5. Running' = Running
    BY <2>2 DEF Running, Live
  <2>6. \A j \in Executions :
            /\ interrupted'[j] \/ exec'[j] = "interrupted" => shuttingDown
            /\ exec'[j] = "finishing" => status[j] # "none"
    BY <2>2 DEF RefineInv
  <2> QED
    BY <2>2, <2>4, <2>5, <2>6, QuietStep
<1> QED
  BY <1>2, <1>3 DEF TaskCanceller

\* handleTaskCancellation gives an entry back only to a remembered execution.
LEMMA CancellationIsQuiet ==
    ASSUME TypeOK, Inv, RefineInv,
           \/ \E k \in Executions : HandleCancellation(k)
           \/ \E t \in {taskID(k) : k \in Executions} : HandleRunCancellation(t)
    PROVE  RefineInv' /\ [Lifecycle!Next]_Lifecycle!vars
<1>0. TasksTypeOK
  BY DEF TypeOK
<1>1. UNCHANGED <<exec, status, shuttingDown, interrupted, completedTasks,
                  completedExecutions>>
  <2>1. CASE \E k \in Executions : HandleCancellation(k)
    BY <2>1 DEF HandleCancellation, sharedVars
  <2>2. CASE \E t \in {taskID(k) : k \in Executions} : HandleRunCancellation(t)
    BY <2>2 DEF HandleRunCancellation, sharedVars
  <2> QED
    BY <2>1, <2>2
<1>2. ASSUME NEW j \in Executions PROVE Known(j)' <=> Known(j)
  <2>1. CASE \E k \in Executions : HandleCancellation(k)
    <3> PICK k \in Executions : HandleCancellation(k)
      BY <2>1
    <3> DEFINE new == IF completedTasks[k] = "completed" /\ ~Tracked(k)
                      THEN [activeTasks EXCEPT ![k] = FinishedTask]
                      ELSE activeTasks
    <3>1. FinishedTask \in Entries
      BY DEF FinishedTask, NewTask, Entries, Sources, CancellerSteps
    <3>2. new \in [Executions -> Entries \cup {NoTask}]
      BY <1>0, <3>1 DEF TasksTypeOK
    <3>3. startTaskCancellation(new, {k})
      BY DEF HandleCancellation
    <3>4. \/ new[j] = activeTasks[j]
          \/ new[j] # NoTask /\ completedTasks[j] = "completed"
      BY <1>0, <3>2, NoTaskFields DEF TasksTypeOK
    <3> HIDE DEF new
    <3>5. (activeTasks'[j] # NoTask) <=> (new[j] # NoTask)
      BY <1>0, <3>2, <3>3, StartCancellationEffect
    <3> QED
      BY <1>1, <3>4, <3>5 DEF Known, Tracked
  <2>2. CASE \E t \in {taskID(k) : k \in Executions} : HandleRunCancellation(t)
    <3>1. PICK K \in SUBSET Executions : startTaskCancellation(activeTasks, K)
      BY <2>2 DEF HandleRunCancellation
    <3>2. activeTasks \in [Executions -> Entries \cup {NoTask}]
      BY <1>0 DEF TasksTypeOK
    <3>3. (activeTasks'[j] # NoTask) <=> (activeTasks[j] # NoTask)
      BY <1>0, <3>1, <3>2, StartCancellationEffect
    <3> QED
      BY <1>1, <3>3 DEF Known, Tracked
  <2> QED
    BY <2>1, <2>2
<1>3. Running' = Running
  BY <1>1 DEF Running, Live
<1>4. \A j \in Executions :
          /\ interrupted'[j] \/ exec'[j] = "interrupted" => shuttingDown
          /\ exec'[j] = "finishing" => status[j] # "none"
  BY <1>1 DEF RefineInv
<1> QED
  BY <1>1, <1>2, <1>3, <1>4, QuietStep

\* shutdownTasks stops.
LEMMA ShutdownStops ==
    ASSUME TypeOK, Inv, RefineInv, shutdownTasks
    PROVE  RefineInv' /\ [Lifecycle!Next]_Lifecycle!vars
<1>1. /\ ~shuttingDown /\ shuttingDown' = TRUE
      /\ UNCHANGED <<exec, status, completedTasks, completedExecutions>>
  BY DEF shutdownTasks, shutdownActiveTasks
<1>2. ASSUME NEW j \in Executions PROVE Tracked(j)' <=> Tracked(j)
  <2>1. CASE UNCHANGED activeTasks
    BY <2>1 DEF Tracked
  <2>2. CASE cancelActiveTasks
    <3>1. activeTasks'[j] = IF Tracked(j) /\ activeTasks[j].source = ""
                            THEN [activeTasks[j] EXCEPT !.source = "shutdown"]
                            ELSE activeTasks[j]
      BY <2>2 DEF cancelActiveTasks
    <3>2. CASE Tracked(j) /\ activeTasks[j].source = ""
      <4>1. activeTasks[j] \in Entries
        BY <3>2 DEF Tracked, TypeOK, TasksTypeOK
      <4>2. activeTasks'[j].source = "shutdown"
        BY <3>1, <3>2, <4>1 DEF Entries
      <4> QED
        BY <3>2, <4>2, NoTaskFields DEF Tracked
    <3>3. CASE ~(Tracked(j) /\ activeTasks[j].source = "")
      BY <3>1, <3>3 DEF Tracked
    <3> QED
      BY <3>2, <3>3
  <2> QED
    BY <2>1, <2>2 DEF shutdownTasks, shutdownActiveTasks, stopObservations
<1>3. KnownExecutions' = KnownExecutions /\ Running' = Running
  BY <1>1, <1>2 DEF KnownExecutions, Known, Running, Live
<1>4. CacheConsistent'
  BY <1>1 DEF RefineInv, CacheConsistent
<1>5. Lifecycle!Stop
  BY <1>1, <1>3 DEF Lifecycle!Stop
<1> QED
  BY <1>1, <1>3, <1>4, <1>5 DEF RefineInv, Lifecycle!Next

\* Every step of the worker.
LEMMA StepRefines ==
    ASSUME TypeOK, TypeOK', Inv, RefineInv, [Next]_vars
    PROVE  RefineInv' /\ [Lifecycle!Next]_Lifecycle!vars
<1>0. TasksTypeOK'
  BY DEF TypeOK
<1>1. CASE TasksNext
  <2>1. CASE \/ \E k \in Executions : AcceptAssignment(k)
             \/ AcquireSlot \/ RejectAtCapacity \/ RejectShuttingDown \/ TaskTail
    <3>1. UNCHANGED <<activeTasks, exec, interrupted, status, shuttingDown,
                      completedTasks, completedExecutions>>
      BY <2>1 DEF AcceptAssignment, Reserve, AcquireSlot, RejectAtCapacity,
          RejectShuttingDown, TaskTail, ReleaseSlot, signalOneShotComplete,
          taskVars
    <3> QED
      BY <3>1, IdleStep
  <2>2. CASE ClaimTask
    BY <2>2, ClaimAdmits
  <2>3. CASE StartExecution
    BY <2>3, StartAnnounces
  <2>4. ASSUME NEW k \in Executions, TaskGoroutine(k)
        PROVE  RefineInv' /\ [Lifecycle!Next]_Lifecycle!vars
    BY <1>0, <2>4, ReturnIsQuiet, ReportReports, FinishSettles DEF TaskGoroutine
  <2>5. ASSUME NEW k \in Executions, TaskCanceller(k)
        PROVE  RefineInv' /\ [Lifecycle!Next]_Lifecycle!vars
    BY <1>0, <2>5, CancellerSettles
  <2>6. CASE \/ \E k \in Executions : HandleCancellation(k)
             \/ \E t \in {taskID(k) : k \in Executions} : HandleRunCancellation(t)
    BY <2>6, CancellationIsQuiet
  <2> QED
    BY <1>1, <2>1, <2>2, <2>3, <2>4, <2>5, <2>6 DEF TasksNext, TaskReader
<1>2. CASE shutdownTasks
  BY <1>2, ShutdownStops
<1>3. CASE StandbysNext /\ UNCHANGED taskVars
  <2>1. UNCHANGED shuttingDown
    BY <1>3, StandbyReaderFrame DEF StandbysNext
  <2> QED
    BY <1>3, <2>1, IdleStep DEF taskVars
<1>4. CASE \/ CancelContext \/ TasksDone \/ ShutdownTimeout \/ CloseOutbound
           \/ ReaderStops \/ shutdownBackend \/ UNCHANGED vars
  <2>1. UNCHANGED <<taskVars, shuttingDown>>
    BY <1>4 DEF CancelContext, TasksDone, ShutdownTimeout, CloseOutbound,
        ReaderStops, shutdownBackend, vars, sharedVars
  <2> QED
    BY <2>1, IdleStep DEF taskVars
<1> QED
  BY <1>1, <1>2, <1>3, <1>4 DEF Next, RunNext, Exited

-----------------------------------------------------------------------------

\* RefineInv holds of every reachable state.
THEOREM RefineInvCorrect == Spec => []RefineInv
<1>1. Init => RefineInv
  <2> SUFFICES ASSUME Init PROVE RefineInv
    OBVIOUS
  <2>1. KnownExecutions = {}
    BY DEF Init, TasksInit, KnownExecutions, Known, Tracked
  <2>2. CacheConsistent
    BY ConfigAssumption DEF Init, TasksInit, CacheConsistent
  <2> QED
    BY <2>1, <2>2, FS_EmptySet DEF Init, TasksInit, RefineInv
<1>2. TypeOK /\ TypeOK' /\ Inv /\ RefineInv /\ [Next]_vars => RefineInv'
  BY StepRefines
<1> QED
  BY <1>1, <1>2, TypeCorrect, InvCorrect, PTL DEF Spec

\* The map and the list of rememberCompletedLocked always agree.
THEOREM Cache == Spec => []CacheConsistent
<1>1. RefineInv => CacheConsistent
  BY DEF RefineInv
<1> QED
  BY <1>1, RefineInvCorrect, PTL

\* The worker implements TaskLifecycle: one "claimed" and at most one terminal
\* message per run, no second run of a known execution, and an execution is
\* forgotten only as TaskLifecycle allows.
THEOREM Refinement == Spec => ImplementsLifecycle
<1>1. Init => Lifecycle!Init
  <2> SUFFICES ASSUME Init PROVE Lifecycle!Init
    OBVIOUS
  <2>1. KnownExecutions = {} /\ Running = {}
    BY DEF Init, TasksInit, KnownExecutions, Known, Tracked, Running, Live
  <2> QED
    BY <2>1 DEF Init, SharedInit, TasksInit, Lifecycle!Init
<1>2. TypeOK /\ TypeOK' /\ Inv /\ RefineInv /\ [Next]_vars
          => [Lifecycle!Next]_Lifecycle!vars
  BY StepRefines
<1> QED
  BY <1>1, <1>2, TypeCorrect, InvCorrect, RefineInvCorrect, PTL
  DEF Spec, ImplementsLifecycle, Lifecycle!Spec

-----------------------------------------------------------------------------
\* The exit cache of sendStandbyExit.

\* Appending an entry that a queue without duplicates does not hold.
LEMMA AppendDistinct ==
    ASSUME NEW S, NEW q \in Seq(S), NEW x \in S, Distinct(q), ~Listed(x, q)
    PROVE  Distinct(Append(q, x))
<1>1. /\ Len(q) \in Nat /\ Len(Append(q, x)) = Len(q) + 1
      /\ \A i \in 1..(Len(q) + 1) :
             Append(q, x)[i] = IF i <= Len(q) THEN q[i] ELSE x
  BY AppendProperties, LenProperties
<1> QED
  BY <1>1 DEF Distinct, Listed

\* The oldest entry can be dropped before or after the newest is added.
LEMMA TailAppend ==
    ASSUME NEW S, NEW q \in Seq(S), NEW x \in S, q # <<>>
    PROVE  /\ Tail(q) \in Seq(S) /\ Len(Tail(q)) = Len(q) - 1
           /\ \A i \in 1..(Len(q) - 1) : Tail(q)[i] = q[i + 1]
           /\ Tail(Append(q, x)) = Append(Tail(q), x)
<1>1. /\ Tail(q) \in Seq(S) /\ Len(Tail(q)) = Len(q) - 1
      /\ \A i \in 1..(Len(q) - 1) : Tail(q)[i] = q[i + 1]
      /\ Len(q) \in Nat \ {0}
  BY HeadTailProperties, LenProperties, EmptySeq
<1> QED
  BY <1>1

\* sendStandbyExit logs only a sandbox that the cache does not hold, and shifts
\* cache and log alike.
LEMMA SendKeepsExits ==
    ASSUME TypeOK, ExitInv, NEW s \in StandbyIDs, sendStandbyExit(s)
    PROVE  ExitInv'
<1> DEFINE q == exitLog
           n == CacheSize
<1>0. /\ q \in Seq(StandbyIDs) /\ standbyExitIDs \in Seq(StandbyIDs)
      /\ n \in Nat \ {0} /\ Len(q) <= n + 1 /\ Len(q) \in Nat
      /\ standbyExitIDs = Trimmed(q, n) /\ Distinct(q)
      /\ ExitReported(s) <=> Listed(s, standbyExitIDs)
  BY ConfigAssumption, LenProperties DEF TypeOK, StandbysTypeOK, ExitInv,
      ExitReported, Listed, ExitReportedOnce, Distinct
<1>1. CASE ExitReported(s)
  BY <1>1 DEF sendStandbyExit, ExitInv, ExitReportedOnce
<1>2. CASE ~ExitReported(s)
  <2>1. /\ standbyExitIDs' = Trimmed(Append(standbyExitIDs, s), n)
        /\ exitLog' = Trimmed(Append(q, s), n + 1)
    BY <1>2 DEF sendStandbyExit, RecordExit
  <2>2. Len(Append(q, s)) = Len(q) + 1
    BY <1>0, AppendProperties
  <2>3. CASE Len(q) <= n
    <3>1. standbyExitIDs = q /\ exitLog' = Append(q, s)
      BY <1>0, <2>1, <2>2, <2>3 DEF Trimmed
    <3>2. Distinct(exitLog')
      BY <1>0, <1>2, <3>1, AppendDistinct
    <3>3. standbyExitIDs' = Trimmed(exitLog', n)
      BY <2>1, <3>1
    <3>4. Len(exitLog') <= n + 1
      BY <1>0, <2>2, <2>3, <3>1
    <3> QED
      BY <3>2, <3>3, <3>4 DEF ExitInv, ExitReportedOnce, Distinct
  <2>4. CASE Len(q) = n + 1
    <3>0. q # <<>>
      BY <1>0, <2>4
    <3>1. /\ Tail(q) \in Seq(StandbyIDs) /\ Len(Tail(q)) = n
          /\ \A i \in 1..n : Tail(q)[i] = q[i + 1]
          /\ Tail(Append(q, s)) = Append(Tail(q), s)
      BY <1>0, <2>4, <3>0, TailAppend
    <3>2. standbyExitIDs = Tail(q) /\ exitLog' = Append(Tail(q), s)
      BY <1>0, <2>1, <2>2, <2>4, <3>1 DEF Trimmed
    <3>3. Distinct(Tail(q))
      BY <1>0, <2>4, <3>1 DEF Distinct
    <3>4. Distinct(exitLog')
      BY <1>0, <1>2, <3>1, <3>2, <3>3, AppendDistinct
    <3>5. Len(exitLog') = n + 1
      BY <3>1, <3>2, AppendProperties
    <3>6. standbyExitIDs' = Trimmed(exitLog', n)
      BY <2>1, <3>2
    <3> QED
      BY <1>0, <3>4, <3>5, <3>6 DEF ExitInv, ExitReportedOnce, Distinct
  <2> QED
    BY <1>0, <2>3, <2>4
<1> QED
  BY <1>1, <1>2

\* The exit cache answers for the latest exits sent.
THEOREM ExitInvCorrect == Spec => []ExitInv
<1>1. Init => ExitInv
  BY ConfigAssumption DEF Init, StandbysInit, ExitInv, ExitReportedOnce, Trimmed
<1>2. TypeOK /\ ExitInv /\ [Next]_vars => ExitInv'
  <2> SUFFICES ASSUME TypeOK, ExitInv, [Next]_vars PROVE ExitInv'
    OBVIOUS
  <2>1. CASE UNCHANGED <<standbyExitIDs, exitLog>>
    BY <2>1 DEF ExitInv, ExitReportedOnce
  <2>2. ASSUME NEW s \in StandbyIDs, ReportStandbyExit(s) \/ WatcherSends(s)
        PROVE  ExitInv'
    BY <2>2, SendKeepsExits DEF ReportStandbyExit, WatcherSends
  <2>3. \/ UNCHANGED <<standbyExitIDs, exitLog>>
        \/ \E s \in StandbyIDs : ReportStandbyExit(s) \/ WatcherSends(s)
    <3>1. CASE StandbysNext
      BY <3>1 DEF StandbysNext, StandbyReader, StandbyGoroutine,
          StandbyWatcher, PrewarmCreate, StartStandby, PrewarmDestroy,
          StandbyReturns, CheckStandbyCause, SetStandby, ReleaseStandby,
          ForgetStandby, reportWatchedStandbyExit, DestroyReturns
    <3>2. CASE ~StandbysNext
      BY <3>2 DEF Next, CancelContext, RunNext, Exited, shutdownTasks,
          stopStandbys, TasksDone, ShutdownTimeout, CloseOutbound,
          ReaderStops, shutdownBackend, vars, standbyVars
    <3> QED
      BY <3>1, <3>2
  <2> QED
    BY <2>1, <2>2, <2>3
<1> QED
  BY <1>1, <1>2, TypeCorrect, PTL DEF Spec

\* Among any CacheSize + 1 exit messages in a row no sandbox has two, from the
\* goroutines that ran it and from the exit watcher together.
THEOREM ExitsOnce == Spec => []ExitReportedOnce
<1>1. ExitInv => ExitReportedOnce
  BY DEF ExitInv
<1> QED
  BY <1>1, ExitInvCorrect, PTL

-----------------------------------------------------------------------------

\* A spawned task's entry stays until the backend accepts its cancellation.
THEOREM SpawnedKept == Spec => SpawnedUntilCancelled
<1> DEFINE Held(k) == activeTasks[k].spawned /\ ~activeTasks'[k].spawned
                          => activeTasks[k].canceller = "calling"
<1>1. TypeOK /\ Inv /\ [Next]_vars => [\A k \in Executions : Held(k)]_vars
  <2> SUFFICES ASSUME TypeOK, Inv, Next, NEW j \in Executions
               PROVE  Held(j)
    OBVIOUS
  <2>0. TasksTypeOK /\ NoTask.spawned = FALSE
    BY DEF TypeOK, NoTask
  <2>1. CASE activeTasks'[j] = activeTasks[j]
    BY <2>1
  <2>2. CASE activeTasks'[j].spawned = activeTasks[j].spawned
    BY <2>2
  <2>3. CASE ClaimTask
    <3>1. ~Tracked(reader.key) /\ reader.key \in Executions
      BY <2>3 DEF ClaimTask, Claim, Known, Inv
    <3>2. j # reader.key => activeTasks'[j] = activeTasks[j]
      BY <2>0, <2>3, <3>1 DEF ClaimTask, Claim, TasksTypeOK
    <3> QED
      BY <2>0, <2>1, <3>1, <3>2 DEF Tracked
  <2>4. ASSUME NEW k \in Executions, MarkSpawned(k) PROVE Held(j)
    <3>1. CASE j # k \/ ~Tracked(k)
      BY <2>0, <2>1, <2>4, <3>1 DEF MarkSpawned, TasksTypeOK
    <3>2. CASE j = k /\ Tracked(k)
      <4>1. activeTasks[k] \in Entries
        BY <2>0, <3>2 DEF Tracked, TasksTypeOK
      <4>2. activeTasks'[k].spawned
        BY <2>0, <2>4, <3>2, <4>1 DEF MarkSpawned, Entries, TasksTypeOK
      <4> QED
        BY <3>2, <4>2
    <3> QED
      BY <3>1, <3>2
  <2>5. ASSUME NEW k \in Executions, FinishExecution(k) PROVE Held(j)
    <3>1. CASE j # k \/ ~Tracked(k)
      BY <2>0, <2>1, <2>5, <3>1 DEF FinishExecution, Settle, Keep, Forget,
          TasksTypeOK
    <3>2. CASE j = k /\ Tracked(k) /\ activeTasks[k].spawned
      <4>1. activeTasks[k] \in Entries
        BY <2>0, <3>2 DEF Tracked, TasksTypeOK
      <4>2. activeTasks'[k] = [activeTasks[k] EXCEPT !.done = TRUE]
        BY <2>0, <2>5, <3>2 DEF FinishExecution, Settle, Keep, TasksTypeOK
      <4>3. activeTasks'[k].spawned = activeTasks[k].spawned
        BY <4>1, <4>2 DEF Entries
      <4> QED
        BY <2>2, <3>2, <4>3
    <3>3. CASE j = k /\ ~activeTasks[k].spawned
      BY <3>3
    <3> QED
      BY <3>1, <3>2, <3>3
  <2>6. ASSUME NEW k \in Executions, TaskCanceller(k) PROVE Held(j)
    <3>1. CASE CancelTaskSucceeds(k)
      <4>1. CASE j = k
        BY <3>1, <4>1 DEF CancelTaskSucceeds
      <4>2. CASE j # k
        BY <2>0, <2>1, <3>1, <4>2 DEF CancelTaskSucceeds, TasksTypeOK
      <4> QED
        BY <4>1, <4>2
    <3>2. CASE \E step \in CancellerSteps : SetCanceller(k, step)
      <4>1. PICK step \in CancellerSteps :
                activeTasks' = [activeTasks EXCEPT ![k].canceller = step]
        BY <3>2 DEF SetCanceller
      <4>2. activeTasks'[j].spawned = activeTasks[j].spawned
        BY <2>0, <4>1 DEF TasksTypeOK, Entries, NoTask
      <4> QED
        BY <2>2, <4>2
    <3> QED
      BY <2>6, <3>1, <3>2 DEF TaskCanceller, CancellationAttempt,
          CancelTaskFails, CancellationStops, CancellerSteps
  <2>7. CASE \/ \E k \in Executions : HandleCancellation(k)
             \/ \E t \in {taskID(k) : k \in Executions} : HandleRunCancellation(t)
    <3>1. PICK tasks, K :
              /\ startTaskCancellation(tasks, K)
              /\ tasks \in [Executions -> Entries \cup {NoTask}]
              /\ tasks[j].spawned = activeTasks[j].spawned
      <4>1. CASE \E k \in Executions : HandleCancellation(k)
        <5> PICK k \in Executions : HandleCancellation(k)
          BY <4>1
        <5> DEFINE new == IF completedTasks[k] = "completed" /\ ~Tracked(k)
                          THEN [activeTasks EXCEPT ![k] = FinishedTask]
                          ELSE activeTasks
        <5>1. FinishedTask \in Entries /\ FinishedTask.spawned = FALSE
          BY DEF FinishedTask, NewTask, Entries, Sources, CancellerSteps
        <5>2. new \in [Executions -> Entries \cup {NoTask}]
          BY <2>0, <5>1 DEF TasksTypeOK
        <5>3. startTaskCancellation(new, {k})
          BY DEF HandleCancellation
        <5>4. new[j].spawned = activeTasks[j].spawned
          BY <2>0, <5>1 DEF TasksTypeOK, Tracked
        <5> HIDE DEF new
        <5> QED
          BY <5>2, <5>3, <5>4
      <4>2. CASE \E t \in {taskID(k) : k \in Executions} : HandleRunCancellation(t)
        BY <2>0, <4>2 DEF HandleRunCancellation, TasksTypeOK
      <4> QED
        BY <2>7, <4>1, <4>2
    <3>2. \/ activeTasks'[j] = tasks[j]
          \/ /\ tasks[j] # NoTask
             /\ activeTasks'[j] =
                   [tasks[j] EXCEPT !.source = "user", !.canceller = "waiting"]
      BY <3>1 DEF startTaskCancellation
    <3>3. activeTasks'[j].spawned = tasks[j].spawned
      BY <3>1, <3>2 DEF Entries
    <3> QED
      BY <2>2, <3>1, <3>3
  <2>8. CASE shutdownTasks
    <3>1. \/ activeTasks'[j] = activeTasks[j]
          \/ /\ Tracked(j)
             /\ activeTasks'[j] = [activeTasks[j] EXCEPT !.source = "shutdown"]
      BY <2>8 DEF shutdownTasks, shutdownActiveTasks, stopObservations,
          cancelActiveTasks
    <3>2. activeTasks'[j].spawned = activeTasks[j].spawned
      BY <2>0, <3>1 DEF Tracked, TasksTypeOK, Entries
    <3> QED
      BY <2>2, <3>2
  <2>9. CASE UNCHANGED activeTasks
    BY <2>1, <2>9
  <2>10. \/ UNCHANGED activeTasks \/ ClaimTask \/ shutdownTasks
         \/ \E k \in Executions : \/ HandleCancellation(k) \/ MarkSpawned(k)
                                 \/ FinishExecution(k) \/ TaskCanceller(k)
         \/ \E t \in {taskID(k) : k \in Executions} : HandleRunCancellation(t)
    <3>1. ASSUME TaskReader
          PROVE  \/ UNCHANGED activeTasks \/ ClaimTask
                 \/ \E k \in Executions : HandleCancellation(k)
                 \/ \E t \in {taskID(k) : k \in Executions} :
                        HandleRunCancellation(t)
      BY <3>1 DEF TaskReader, AcceptAssignment, Reserve, AcquireSlot,
          RejectAtCapacity, RejectShuttingDown, StartExecution, taskVars
    <3>2. ASSUME TaskTail PROVE UNCHANGED activeTasks
      BY <3>2 DEF TaskTail, ReleaseSlot, signalOneShotComplete
    <3>3. ASSUME NEW k \in Executions, TaskGoroutine(k)
          PROVE  UNCHANGED activeTasks \/ MarkSpawned(k) \/ FinishExecution(k)
      BY <3>3 DEF TaskGoroutine, ExecuteTaskReturns, AbandonObservation,
          ReportError, ReportCompleted
    <3>4. CASE ~TasksNext
      BY <3>4 DEF Next, CancelContext, RunNext, Exited, TasksDone,
          ShutdownTimeout, CloseOutbound, ReaderStops, shutdownBackend, vars,
          taskVars
    <3> QED
      BY <3>1, <3>2, <3>3, <3>4 DEF TasksNext
  <2> HIDE DEF Held
  <2> QED
    BY <2>3, <2>4, <2>5, <2>6, <2>7, <2>8, <2>9, <2>10
<1> QED
  BY <1>1, TypeCorrect, InvCorrect, PTL DEF Spec, SpawnedUntilCancelled
=============================================================================
