-------------------------- MODULE ConnectionProofs --------------------------
(***************************************************************************)
(* The safety theorems of Connection and its freedom from circular waits,  *)
(* for any number of messages, any capacity of the queue and any number of *)
(* connections.                                                            *)
(***************************************************************************)
EXTENDS Connection, SequenceTheorems, TLAPS

-----------------------------------------------------------------------------
\* Type correctness.

\* Send, the writer and the loops of a connection keep the types: the queue
\* never exceeds its capacity, and the writer takes a message only when it holds
\* none.
LEMMA QueueType ==
    ASSUME TypeOK, Senders \/ Writer
    PROVE  TypeOK'
<1> USE ConnectionAssumption DEF TypeOK, connVars, queueVars, writeVars, SenderSteps, SetSender,
        Leave, Loops
<1>1. ASSUME NEW m \in Messages, CallSend(m) \/ BeginSend(m) \/ SendTimesOut(m)
      PROVE  TypeOK'
  <2>1. CASE CallSend(m)
    BY <2>1 DEF CallSend
  <2>2. CASE BeginSend(m)
    BY <2>2 DEF BeginSend
  <2>3. CASE SendTimesOut(m)
    BY <2>3 DEF SendTimesOut
  <2> QED
    BY <1>1, <2>1, <2>2, <2>3
<1>2. ASSUME NEW m \in Messages, Enqueue(m)
      PROVE  TypeOK'
  <2>1. /\ Append(queue, m) \in Seq(Messages)
        /\ Len(Append(queue, m)) = Len(queue) + 1
        /\ Append(accepted, m) \in Seq(Messages)
    BY AppendProperties
  <2> QED
    BY <1>2, <2>1 DEF Enqueue
<1>3. CASE WriterTakes
  <2>1. /\ Head(queue) \in Messages
        /\ Tail(queue) \in Seq(Messages)
        /\ Len(Tail(queue)) = Len(queue) - 1
    BY <1>3, HeadTailProperties DEF WriterTakes
  <2>2. <<Head(queue)>> \in Seq(Messages) /\ Len(<<Head(queue)>>) = 1
    BY <2>1
  <2> QED
    BY <1>3, <2>1, <2>2 DEF WriterTakes
<1>4. CASE WriterReturns
  BY <1>4 DEF WriterReturns
<1>5. CASE WriteSucceeds
  <2>1. written \o writing \in Seq(Messages)
    BY ConcatProperties
  <2> QED
    BY <1>5, <2>1, EmptySeq DEF WriteSucceeds
<1>6. CASE WriteFails
  <2>1. lost \o writing \in Seq(Messages)
    BY ConcatProperties
  <2> QED
    BY <1>6, <2>1, EmptySeq DEF WriteFails
<1> QED
  BY <1>1, <1>2, <1>3, <1>4, <1>5, <1>6 DEF Senders, Writer

\* A loop that leaves does so with or without an error.
LEMMA LeaveType ==
    ASSUME TypeOK, NEW loop, NEW isError \in BOOLEAN, Leave(loop, isError)
    PROVE  /\ loops' \in SUBSET Loops
           /\ groupCancelled' \in BOOLEAN
           /\ groupDone' \in BOOLEAN
BY DEF TypeOK, Leave

\* Every step keeps the types.
LEMMA TypeKept ==
    ASSUME TypeOK, [Next]_vars
    PROVE  TypeOK'
<1> USE DEF connVars, queueVars, writeVars
<1>1. /\ ctxDone \in BOOLEAN /\ oneShotDone \in BOOLEAN /\ run \in RunSteps
      /\ conn \in {"never", "open", "broken", "closed", "none"}
      /\ loops \in SUBSET Loops /\ groupCancelled \in BOOLEAN /\ groupDone \in BOOLEAN
      /\ closed \in BOOLEAN
  BY DEF TypeOK
<1>2. ASSUME UNCHANGED <<queue, sender, accepted, writeVars>>, closed' \in BOOLEAN,
             ctxDone' \in BOOLEAN, oneShotDone' \in BOOLEAN, run' \in RunSteps,
             conn' \in {"never", "open", "broken", "closed", "none"},
             loops' \in SUBSET Loops, groupCancelled' \in BOOLEAN, groupDone' \in BOOLEAN
      PROVE  TypeOK'
  BY <1>2 DEF TypeOK
<1>3. CASE ReaderReturns \/ HeartbeatReturns
  <2>1. /\ loops' \in SUBSET Loops /\ groupCancelled' \in BOOLEAN /\ groupDone' \in BOOLEAN
    BY <1>1, <1>3, LeaveType DEF ReaderReturns, HeartbeatReturns
  <2> QED
    BY <1>1, <1>2, <1>3, <2>1 DEF ReaderReturns, HeartbeatReturns
<1>4. CASE CloseOnCancel \/ GroupWaitReturns
  BY <1>1, <1>2, <1>4 DEF CloseOnCancel, GroupWaitReturns
<1>5. CASE RunNext
  <2> USE DEF RunSteps, Loops, SetRun, CloseQueue
  <2>1. CASE Connect \/ DialFails \/ BackoffEnds
    BY <1>1, <1>2, <2>1 DEF Connect, DialFails, BackoffEnds
  <2>2. CASE DialSucceeds \/ Reconnect \/ ServerShutdown
    BY <1>1, <1>2, <2>2 DEF DialSucceeds, Reconnect, ServerShutdown
  <2>3. CASE ShutdownTasksReturns \/ OneShotComplete \/ CloseOutbound
    BY <1>1, <1>2, <2>3 DEF ShutdownTasksReturns, OneShotComplete, CloseOutbound
  <2>4. CASE WriterDone \/ ConnectionDone \/ LeaveUnconnected
    BY <1>1, <1>2, <2>4 DEF WriterDone, ConnectionDone, LeaveUnconnected
  <2> QED
    BY <1>5, <2>1, <2>2, <2>3, <2>4 DEF RunNext
<1>6. CASE CancelContext \/ ConnectionBreaks \/ TaskCompletes
  BY <1>1, <1>2, <1>6 DEF CancelContext, ConnectionBreaks, TaskCompletes
<1>7. CASE UNCHANGED vars
  BY <1>1, <1>2, <1>7 DEF vars
<1> QED
  BY <1>3, <1>4, <1>5, <1>6, <1>7, QueueType DEF Next, Returned

-----------------------------------------------------------------------------
\* The loops, the mutex and the graceful close.

\* Send calls keep LoopInv: a call that finds the queue closed does not reach the
\* select, and one that is in the select found it open.
LEMMA SendersKeepLoops ==
    ASSUME TypeOK, LoopInv, Senders
    PROVE  LoopInv'
<1> PICK m \in Messages : CallSend(m) \/ BeginSend(m) \/ Enqueue(m) \/ SendTimesOut(m)
  BY DEF Senders
<1>1. UNCHANGED <<run, connVars, closed, writing>>
  BY DEF CallSend, BeginSend, Enqueue, SendTimesOut, writeVars
<1>2. NoSendOnClosed'
  BY DEF CallSend, BeginSend, Enqueue, SendTimesOut, SetSender, NoSendOnClosed, Locked, LoopInv,
      TypeOK, SenderSteps
<1>3. closed => queue' = queue
  BY DEF CallSend, BeginSend, Enqueue, SendTimesOut, LoopInv, NoSendOnClosed, Locked
<1>4. CASE closed
  <2>1. UNCHANGED queue
    BY <1>3, <1>4
  <2> QED
    BY <1>1, <1>2, <2>1 DEF LoopInv, LoopsBelongToConnection, GracefulCloseFlushes, connVars
<1>5. CASE ~closed
  <2>1. conn = "open" => "writer" \in loops /\ run # "cancelled"
    BY <1>5 DEF LoopInv
  <2> QED
    BY <1>1, <1>2, <1>5, <2>1 DEF LoopInv, LoopsBelongToConnection, GracefulCloseFlushes,
        connVars
<1> QED
  BY <1>4, <1>5

\* The loops keep LoopInv: the writer leaves an open connection only when the
\* queue is closed and drained, since groupCtx ends with the connection.
LEMMA LoopsKeepLoops ==
    ASSUME TypeOK, LoopInv,
           \/ Writer \/ ReaderReturns \/ HeartbeatReturns
           \/ CloseOnCancel \/ GroupWaitReturns \/ ConnectionBreaks
    PROVE  LoopInv'
<1> USE DEF LoopInv, NoSendOnClosed, Locked, LoopsBelongToConnection, GracefulCloseFlushes,
        connVars, queueVars, writeVars, Leave
<1>1. CASE WriterTakes
  BY <1>1 DEF WriterTakes, Serving
<1>2. CASE WriterReturns
  BY <1>2 DEF WriterReturns, MayStop, Serving
<1>3. CASE WriteSucceeds
  BY <1>3 DEF WriteSucceeds, Serving
<1>4. CASE WriteFails
  BY <1>4 DEF WriteFails, Serving
<1>5. CASE ReaderReturns \/ HeartbeatReturns
  BY <1>5 DEF ReaderReturns, HeartbeatReturns, Serving
<1>6. CASE CloseOnCancel \/ GroupWaitReturns \/ ConnectionBreaks
  BY <1>6 DEF CloseOnCancel, GroupWaitReturns, ConnectionBreaks, Serving
<1> QED
  BY <1>1, <1>2, <1>3, <1>4, <1>5, <1>6 DEF Writer

\* Run keeps LoopInv: it leaves a connection only when group.Wait has returned,
\* and cancels the loops only when the writer has gone.
LEMMA RunKeepsLoops ==
    ASSUME TypeOK, LoopInv, RunNext
    PROVE  LoopInv'
<1> USE DEF LoopInv, NoSendOnClosed, Locked, LoopsBelongToConnection, GracefulCloseFlushes,
        connVars, queueVars, writeVars, Serving
<1>1. CASE Connect \/ DialFails \/ BackoffEnds
  BY <1>1 DEF Connect, DialFails, BackoffEnds, SetRun
<1>2. CASE DialSucceeds
  BY <1>2 DEF DialSucceeds, Loops
<1>3. CASE Reconnect \/ ConnectionDone
  BY <1>3 DEF Reconnect, ConnectionDone
<1>4. CASE ServerShutdown \/ ShutdownTasksReturns \/ OneShotComplete
  BY <1>4 DEF ServerShutdown, ShutdownTasksReturns, OneShotComplete, SetRun
<1>5. CASE CloseOutbound \/ LeaveUnconnected
  BY <1>5 DEF CloseOutbound, LeaveUnconnected, CloseQueue
<1>6. CASE WriterDone
  BY <1>6 DEF WriterDone
<1> QED
  BY <1>1, <1>2, <1>3, <1>4, <1>5, <1>6 DEF RunNext

\* Every step keeps LoopInv.
LEMMA LoopKept ==
    ASSUME TypeOK, LoopInv, [Next]_vars
    PROVE  LoopInv'
<1>1. CASE CancelContext \/ TaskCompletes \/ UNCHANGED vars
  BY <1>1 DEF CancelContext, TaskCompletes, vars, connVars, queueVars, writeVars, LoopInv,
      NoSendOnClosed, Locked, LoopsBelongToConnection, GracefulCloseFlushes
<1> QED
  BY <1>1, SendersKeepLoops, LoopsKeepLoops, RunKeepsLoops DEF Next, Returned

-----------------------------------------------------------------------------
\* The order of messages.

\* What is in a sequence that one element has been appended to.
LEMMA InAppended ==
    ASSUME NEW S, NEW seq \in Seq(S), NEW e \in S, NEW x
    PROVE  In(x, Append(seq, e)) <=> In(x, seq) \/ x = e
<1> DEFINE n == Len(seq)
           grown == Append(seq, e)
<1>1. /\ n \in Nat /\ Len(grown) = n + 1
      /\ \A i \in 1..n : grown[i] = seq[i]
      /\ grown[n + 1] = e
  BY AppendProperties, LenProperties
<1>2. ASSUME In(x, grown)
      PROVE  In(x, seq) \/ x = e
  <2>1. PICK i \in 1..Len(grown) : grown[i] = x
    BY <1>2 DEF In
  <2>2. CASE i = n + 1
    BY <1>1, <2>1, <2>2
  <2>3. CASE i \in 1..n
    BY <1>1, <2>1, <2>3 DEF In
  <2> QED
    BY <1>1, <2>1, <2>2, <2>3
<1>3. ASSUME In(x, seq)
      PROVE  In(x, grown)
  <2>1. PICK i \in 1..n : seq[i] = x
    BY <1>3 DEF In
  <2>2. i \in 1..Len(grown)
    BY <1>1
  <2> QED
    BY <1>1, <2>1, <2>2 DEF In
<1>4. ASSUME x = e
      PROVE  In(x, grown)
  <2>1. n + 1 \in 1..Len(grown)
    BY <1>1
  <2> QED
    BY <1>1, <1>4, <2>1 DEF In
<1> QED
  BY <1>2, <1>3, <1>4

\* The three sequences Outgoing consists of, by index.
LEMMA OutgoingShape ==
    ASSUME TypeOK
    PROVE  /\ Outgoing \in Seq(Messages)
           /\ Len(Outgoing) = Len(written) + Len(writing) + Len(queue)
           /\ \A i \in 1..Len(Outgoing) : Outgoing[i] =
                 IF i <= Len(written) THEN written[i]
                 ELSE IF i <= Len(written) + Len(writing) THEN writing[i - Len(written)]
                 ELSE queue[i - (Len(written) + Len(writing))]
<1>1. /\ written \in Seq(Messages) /\ writing \in Seq(Messages) /\ queue \in Seq(Messages)
      /\ Len(written) \in Nat /\ Len(writing) \in Nat /\ Len(queue) \in Nat
  BY LenProperties DEF TypeOK
<1>2. /\ written \o writing \in Seq(Messages)
      /\ Len(written \o writing) = Len(written) + Len(writing)
      /\ \A i \in 1..(Len(written) + Len(writing)) : (written \o writing)[i] =
            IF i <= Len(written) THEN written[i] ELSE writing[i - Len(written)]
  BY <1>1, ConcatProperties
<1>3. /\ Outgoing \in Seq(Messages)
      /\ Len(Outgoing) = Len(written \o writing) + Len(queue)
      /\ \A i \in 1..(Len(written \o writing) + Len(queue)) : Outgoing[i] =
            IF i <= Len(written \o writing) THEN (written \o writing)[i]
            ELSE queue[i - Len(written \o writing)]
  BY <1>1, <1>2, ConcatProperties DEF Outgoing
<1> QED
  BY <1>1, <1>2, <1>3

\* Concatenation of sequences of messages.
LEMMA Associative ==
    \A s, t, u \in Seq(Messages) : (s \o t) \o u = s \o (t \o u)
BY ConcatAssociative

\* Taking a message from the queue and writing it leave Outgoing as it is.
LEMMA OutgoingStable ==
    ASSUME TypeOK, WriterTakes \/ WriteSucceeds
    PROVE  Outgoing' = Outgoing
<1>1. written \in Seq(Messages) /\ writing \in Seq(Messages) /\ queue \in Seq(Messages)
  BY DEF TypeOK
<1>2. CASE WriterTakes
  <2>1. /\ Head(queue) \in Messages /\ Tail(queue) \in Seq(Messages)
        /\ Len(Tail(queue)) = Len(queue) - 1
        /\ \A i \in 1..Len(Tail(queue)) : Tail(queue)[i] = queue[i + 1]
    BY <1>1, <1>2, HeadTailProperties DEF WriterTakes
  <2>2. <<Head(queue)>> \in Seq(Messages)
    BY <2>1
  <2>3. <<Head(queue)>> \o Tail(queue) = queue
    BY <1>1, <1>2, <2>1 DEF WriterTakes
  <2>4. Outgoing' = (written \o <<Head(queue)>>) \o Tail(queue)
    BY <1>2 DEF WriterTakes, Outgoing
  <2>5. (written \o <<Head(queue)>>) \o Tail(queue) = written \o (<<Head(queue)>> \o Tail(queue))
    BY <1>1, <2>1, <2>2, Associative
  <2>6. Outgoing = written \o queue
    <3>1. writing = <<>> /\ written \o <<>> = written
      BY <1>1, <1>2, ConcatEmptySeq DEF WriterTakes
    <3> QED
      BY <3>1 DEF Outgoing
  <2> QED
    BY <2>1, <2>2, <2>3, <2>4, <2>5, <2>6
<1>3. CASE WriteSucceeds
  <2>1. written \o writing \in Seq(Messages)
    BY <1>1, ConcatProperties
  <2>2. (written \o writing) \o <<>> = written \o writing
    BY <2>1, ConcatEmptySeq
  <2> QED
    BY <1>3, <2>2 DEF WriteSucceeds, Outgoing, queueVars
<1> QED
  BY <1>2, <1>3

\* Send appends to what is accepted and to what goes out.
LEMMA OutgoingGrows ==
    ASSUME TypeOK, NEW m \in Messages, Enqueue(m)
    PROVE  Outgoing' = Append(Outgoing, m)
<1>1. written \in Seq(Messages) /\ writing \in Seq(Messages) /\ queue \in Seq(Messages)
  BY DEF TypeOK
<1>2. written \o writing \in Seq(Messages) /\ <<m>> \in Seq(Messages)
  BY <1>1, ConcatProperties
<1>3. Append(queue, m) = queue \o <<m>>
  BY <1>1, AppendIsConcat
<1>4. Outgoing' = (written \o writing) \o (queue \o <<m>>)
  BY <1>3 DEF Enqueue, Outgoing, writeVars
<1>5. Outgoing' = ((written \o writing) \o queue) \o <<m>>
  BY <1>1, <1>2, <1>4, ConcatAssociative
<1>6. Outgoing \in Seq(Messages)
  BY OutgoingShape
<1> QED
  BY <1>5, <1>6, AppendIsConcat DEF Outgoing

\* A step that changes neither histories nor Outgoing and takes no message back
\* keeps OrderInv.
LEMMA OrderStable ==
    ASSUME OrderInv, UNCHANGED <<accepted, lost>>, Outgoing' = Outgoing,
           \A m \in Messages : sender[m] = "sent" => sender'[m] = "sent"
    PROVE  OrderInv'
BY DEF OrderInv, NothingReordered, In

\* Accepting a message keeps OrderInv: it is the last one, and new.
LEMMA EnqueueKeepsOrder ==
    ASSUME TypeOK, OrderInv, NEW m \in Messages, Enqueue(m)
    PROVE  OrderInv'
<1>1. /\ Outgoing \in Seq(Messages) /\ Len(Outgoing) \in Nat
      /\ accepted \in Seq(Messages) /\ Len(accepted) \in Nat
  BY OutgoingShape, LenProperties DEF TypeOK
<1>2. /\ Outgoing' = Append(Outgoing, m)
      /\ accepted' = Append(accepted, m)
      /\ lost' = lost
      /\ sender'[m] = "sent"
      /\ \A n \in Messages : sender[n] = "sent" => sender'[n] = "sent"
  BY OutgoingGrows DEF Enqueue, SetSender, TypeOK, writeVars
<1>3. /\ Len(Outgoing') = Len(Outgoing) + 1
      /\ \A i \in 1..Len(Outgoing) : Outgoing'[i] = Outgoing[i]
      /\ Outgoing'[Len(Outgoing) + 1] = m
      /\ Len(accepted') = Len(accepted) + 1
      /\ \A i \in 1..Len(accepted) : accepted'[i] = accepted[i]
      /\ accepted'[Len(accepted) + 1] = m
  BY <1>1, <1>2, AppendProperties
<1>4. ~In(m, accepted) /\ ~In(m, Outgoing) /\ ~In(m, lost)
  BY DEF Enqueue, OrderInv, NothingReordered
<1>5. \A i, j \in 1..Len(accepted') : accepted'[i] = accepted'[j] => i = j
  <2> SUFFICES ASSUME NEW i \in 1..Len(accepted'), NEW j \in 1..Len(accepted'),
                      accepted'[i] = accepted'[j]
               PROVE  i = j
    OBVIOUS
  <2>1. \A p \in 1..Len(accepted) : accepted'[p] # m
    BY <1>3, <1>4 DEF In
  <2>2. /\ i \in 1..Len(accepted) \/ i = Len(accepted) + 1
        /\ j \in 1..Len(accepted) \/ j = Len(accepted) + 1
    BY <1>1, <1>3
  <2> QED
    BY <1>3, <2>1, <2>2 DEF OrderInv, NothingReordered
<1>6. \A n \in Messages : /\ In(n, accepted)' <=> In(n, accepted) \/ n = m
                          /\ In(n, Outgoing)' <=> In(n, Outgoing) \/ n = m
                          /\ In(n, lost)' <=> In(n, lost)
  <2>1. \A n \in Messages : In(n, accepted)' <=> In(n, Append(accepted, m))
    BY <1>2 DEF In
  <2>2. \A n \in Messages : In(n, Outgoing)' <=> In(n, Append(Outgoing, m))
    BY <1>2 DEF In
  <2>3. \A n \in Messages : /\ In(n, Append(accepted, m)) <=> In(n, accepted) \/ n = m
                            /\ In(n, Append(Outgoing, m)) <=> In(n, Outgoing) \/ n = m
    BY <1>1, InAppended
  <2>4. \A n \in Messages : In(n, lost)' <=> In(n, lost)
    BY <1>2 DEF In
  <2> QED
    BY <2>1, <2>2, <2>3, <2>4
<1>7. \A i, j \in 1..Len(Outgoing') :
          i < j => \E p, q \in 1..Len(accepted') :
                       p < q /\ accepted'[p] = Outgoing'[i] /\ accepted'[q] = Outgoing'[j]
  <2> SUFFICES ASSUME NEW i \in 1..Len(Outgoing'), NEW j \in 1..Len(Outgoing'), i < j
               PROVE  \E p, q \in 1..Len(accepted') :
                          /\ p < q
                          /\ accepted'[p] = Outgoing'[i]
                          /\ accepted'[q] = Outgoing'[j]
    OBVIOUS
  <2>1. i \in 1..Len(Outgoing)
    BY <1>1, <1>3
  <2>2. CASE j \in 1..Len(Outgoing)
    BY <1>1, <1>3, <2>1, <2>2 DEF OrderInv, NothingReordered
  <2>3. CASE j = Len(Outgoing) + 1
    <3>1. Outgoing[i] \in Messages /\ In(Outgoing[i], Outgoing)
      BY <1>1, <2>1, ElementOfSeq DEF In
    <3>2. PICK p \in 1..Len(accepted) : accepted[p] = Outgoing[i]
      BY <3>1 DEF OrderInv, NothingReordered, In
    <3>3. /\ p \in 1..Len(accepted') /\ Len(accepted) + 1 \in 1..Len(accepted')
          /\ p < Len(accepted) + 1
      BY <1>1, <1>3
    <3> QED
      BY <1>3, <2>1, <2>3, <3>2, <3>3
  <2> QED
    BY <1>1, <1>3, <2>2, <2>3
<1>8. \A n \in Messages : /\ In(n, accepted)' <=> In(n, Outgoing)' \/ In(n, lost)'
                          /\ ~(In(n, Outgoing)' /\ In(n, lost)')
                          /\ In(n, accepted)' => sender'[n] = "sent"
  BY <1>2, <1>4, <1>6 DEF OrderInv, NothingReordered
<1> QED
  BY <1>5, <1>7, <1>8 DEF OrderInv, NothingReordered

\* A failed write drops the message the writer holds and keeps the order of the
\* others.
LEMMA WriteFailsKeepsOrder ==
    ASSUME TypeOK, OrderInv, WriteFails
    PROVE  OrderInv'
<1> DEFINE n == Len(written)
           m == writing[1]
<1>1. /\ Outgoing \in Seq(Messages) /\ Len(Outgoing) \in Nat
      /\ accepted \in Seq(Messages) /\ lost \in Seq(Messages)
      /\ written \in Seq(Messages) /\ writing \in Seq(Messages) /\ queue \in Seq(Messages)
      /\ n \in Nat /\ Len(queue) \in Nat /\ Len(lost) \in Nat /\ Len(accepted) \in Nat
  BY OutgoingShape, LenProperties DEF TypeOK
<1>2. Len(writing) = 1 /\ m \in Messages
  <2>1. Len(writing) \in Nat /\ Len(writing) # 0 /\ Len(writing) <= 1
    BY <1>1, EmptySeq DEF WriteFails, TypeOK
  <2>2. Len(writing) = 1
    <3>1. \A x \in Nat : x # 0 /\ x <= 1 => x = 1
      OBVIOUS
    <3> QED
      BY <2>1, <3>1
  <2>3. 1 \in 1..Len(writing)
    BY <2>2
  <2>4. writing[1] \in Messages
    BY <1>1, <2>3, ElementOfSeq
  <2> QED
    BY <2>2, <2>4
<1>3. /\ Len(Outgoing) = n + 1 + Len(queue)
      /\ n + 1 \in 1..Len(Outgoing)
      /\ Outgoing[n + 1] = m
  BY <1>1, <1>2, OutgoingShape
<1>4. Outgoing' = written \o queue
  BY <1>1, ConcatEmptySeq DEF WriteFails, Outgoing, queueVars
<1>5. /\ Len(Outgoing') = n + Len(queue)
      /\ \A i \in 1..Len(Outgoing') : Outgoing'[i] =
            IF i <= n THEN written[i] ELSE queue[i - n]
  BY <1>1, <1>4, ConcatProperties
<1>6. \A i \in 1..Len(Outgoing') :
          Outgoing'[i] = IF i <= n THEN Outgoing[i] ELSE Outgoing[i + 1]
  <2> SUFFICES ASSUME NEW i \in 1..Len(Outgoing')
               PROVE  Outgoing'[i] = IF i <= n THEN Outgoing[i] ELSE Outgoing[i + 1]
    OBVIOUS
  <2>1. CASE i <= n
    <3>1. i \in 1..Len(Outgoing)
      BY <1>1, <1>3, <1>5
    <3> QED
      BY <1>5, <2>1, <3>1, OutgoingShape
  <2>2. CASE ~(i <= n)
    <3>1. /\ i + 1 \in 1..Len(Outgoing) /\ ~(i + 1 <= n) /\ ~(i + 1 <= n + Len(writing))
          /\ (i + 1) - (n + Len(writing)) = i - n
      BY <1>1, <1>2, <1>3, <1>5, <2>2
    <3>2. Outgoing[i + 1] = queue[i - n]
      BY <3>1, OutgoingShape
    <3> QED
      BY <1>5, <2>2, <3>2
  <2> QED
    BY <2>1, <2>2
<1>7. \A i, j \in 1..Len(Outgoing) : Outgoing[i] = Outgoing[j] => i = j
  <2> SUFFICES ASSUME NEW i \in 1..Len(Outgoing), NEW j \in 1..Len(Outgoing), i < j,
                      Outgoing[i] = Outgoing[j]
               PROVE  FALSE
    BY <1>1
  <2>1. PICK p \in 1..Len(accepted), q \in 1..Len(accepted) :
            p < q /\ accepted[p] = Outgoing[i] /\ accepted[q] = Outgoing[j]
    BY DEF OrderInv, NothingReordered
  <2> QED
    BY <1>1, <2>1 DEF OrderInv, NothingReordered
<1>8. lost' = Append(lost, m)
  <2>1. writing = <<m>>
    BY <1>1, <1>2
  <2>2. lost \o <<m>> = Append(lost, m)
    BY <1>1, <1>2, AppendIsConcat
  <2> QED
    BY <2>1, <2>2 DEF WriteFails
<1>9. UNCHANGED <<accepted, sender>>
  BY DEF WriteFails, queueVars
<1>10. \A x \in Messages : In(x, Outgoing)' <=> In(x, Outgoing) /\ x # m
  <2> SUFFICES ASSUME NEW x \in Messages
               PROVE  In(x, Outgoing)' <=> In(x, Outgoing) /\ x # m
    OBVIOUS
  <2>1. ASSUME NEW i \in 1..Len(Outgoing'), Outgoing'[i] = x
        PROVE  In(x, Outgoing) /\ x # m
    <3>1. CASE i <= n
      BY <1>1, <1>3, <1>5, <1>6, <1>7, <2>1, <3>1 DEF In
    <3>2. CASE i > n
      <4>1. i + 1 \in 1..Len(Outgoing) /\ Outgoing[i + 1] = x /\ i + 1 # n + 1
        BY <1>1, <1>3, <1>5, <1>6, <2>1, <3>2
      <4> QED
        BY <1>3, <1>7, <4>1 DEF In
    <3> QED
      BY <1>1, <1>5, <3>1, <3>2
  <2>2. ASSUME NEW i \in 1..Len(Outgoing), Outgoing[i] = x, x # m
        PROVE  In(x, Outgoing)'
    <3>1. i # n + 1
      BY <1>3, <2>2
    <3>2. CASE i <= n
      <4>1. i \in 1..Len(Outgoing') /\ Outgoing'[i] = x
        BY <1>1, <1>3, <1>5, <1>6, <2>2, <3>2
      <4> QED
        BY <4>1 DEF In
    <3>3. CASE i > n + 1
      <4>1. i - 1 \in 1..Len(Outgoing') /\ ~(i - 1 <= n) /\ (i - 1) + 1 = i
        BY <1>1, <1>3, <1>5, <3>3
      <4>2. Outgoing'[i - 1] = x
        BY <1>6, <2>2, <4>1
      <4> QED
        BY <4>1, <4>2 DEF In
    <3> QED
      BY <1>1, <1>3, <3>1, <3>2, <3>3
  <2> QED
    BY <2>1, <2>2 DEF In
<1>11. \A x \in Messages : In(x, lost)' <=> In(x, lost) \/ x = m
  <2>1. \A x \in Messages : In(x, lost)' <=> In(x, Append(lost, m))
    BY <1>8 DEF In
  <2> QED
    BY <1>1, <1>2, <2>1, InAppended
<1>12. \A i, j \in 1..Len(Outgoing') :
          i < j => \E p, q \in 1..Len(accepted) :
                       p < q /\ accepted[p] = Outgoing'[i] /\ accepted[q] = Outgoing'[j]
  <2> SUFFICES ASSUME NEW i \in 1..Len(Outgoing'), NEW j \in 1..Len(Outgoing'), i < j
               PROVE  \E p, q \in 1..Len(accepted) :
                          /\ p < q
                          /\ accepted[p] = Outgoing'[i]
                          /\ accepted[q] = Outgoing'[j]
    OBVIOUS
  <2> DEFINE from(x) == IF x <= n THEN x ELSE x + 1
  <2>1. from(i) \in 1..Len(Outgoing) /\ from(j) \in 1..Len(Outgoing) /\ from(i) < from(j)
    BY <1>1, <1>3, <1>5, <1>6
  <2>2. Outgoing'[i] = Outgoing[from(i)] /\ Outgoing'[j] = Outgoing[from(j)]
    BY <1>1, <1>3, <1>5, <1>6
  <2> HIDE DEF from
  <2> QED
    BY <2>1, <2>2 DEF OrderInv, NothingReordered
<1>13. In(m, Outgoing)
  BY <1>3 DEF In
<1>14. \A x \in Messages : In(x, accepted)' <=> In(x, accepted)
  BY <1>9 DEF In
<1> QED
  <2>1. \A x \in Messages : /\ In(x, accepted)' <=> In(x, Outgoing)' \/ In(x, lost)'
                            /\ ~(In(x, Outgoing)' /\ In(x, lost)')
    BY <1>2, <1>10, <1>11, <1>13, <1>14 DEF OrderInv, NothingReordered
  <2> QED
    BY <1>9, <1>12, <1>14, <2>1 DEF OrderInv, NothingReordered

\* Every step keeps OrderInv.
LEMMA OrderKept ==
    ASSUME TypeOK, OrderInv, [Next]_vars
    PROVE  OrderInv'
<1>1. CASE \E m \in Messages : Enqueue(m)
  BY <1>1, EnqueueKeepsOrder
<1>2. CASE WriteFails
  BY <1>2, WriteFailsKeepsOrder
<1>3. CASE WriterTakes \/ WriteSucceeds
  <2>1. UNCHANGED <<accepted, lost, sender>>
    BY <1>3 DEF WriterTakes, WriteSucceeds, queueVars
  <2> QED
    BY <1>3, <2>1, OutgoingStable, OrderStable
<1>4. CASE \E m \in Messages : CallSend(m) \/ BeginSend(m) \/ SendTimesOut(m)
  <2>1. UNCHANGED <<accepted, lost, written, writing, queue>>
    BY <1>4 DEF CallSend, BeginSend, SendTimesOut, writeVars
  <2>2. \A n \in Messages : sender[n] = "sent" => sender'[n] = "sent"
    BY <1>4 DEF CallSend, BeginSend, SendTimesOut, SetSender, TypeOK
  <2>3. Outgoing' = Outgoing
    BY <2>1 DEF Outgoing
  <2> QED
    BY <2>1, <2>2, <2>3, OrderStable
<1>5. CASE \/ WriterReturns \/ ReaderReturns \/ HeartbeatReturns \/ CloseOnCancel
           \/ GroupWaitReturns \/ RunNext \/ CancelContext \/ ConnectionBreaks
           \/ TaskCompletes \/ UNCHANGED vars
  <2>1. UNCHANGED <<accepted, lost, written, writing, queue, sender>>
    <3>1. CASE RunNext
      BY <3>1 DEF RunNext, Connect, DialFails, BackoffEnds, DialSucceeds, Reconnect,
          ServerShutdown, ShutdownTasksReturns, OneShotComplete, CloseOutbound,
          WriterDone, ConnectionDone, LeaveUnconnected, SetRun, CloseQueue, queueVars,
          writeVars
    <3> QED
      BY <1>5, <3>1 DEF WriterReturns, ReaderReturns, HeartbeatReturns, CloseOnCancel,
          GroupWaitReturns, CancelContext, ConnectionBreaks, TaskCompletes, vars, queueVars,
          writeVars
  <2>2. Outgoing' = Outgoing
    BY <2>1 DEF Outgoing
  <2> QED
    BY <2>1, <2>2, OrderStable
<1> QED
  BY <1>1, <1>2, <1>3, <1>4, <1>5 DEF Next, Senders, Writer, Returned

-----------------------------------------------------------------------------

\* The invariant of the connection and its queue holds in every reachable state.
THEOREM ConnectionCorrect == Spec => []ConnectionInv
<1>1. Init => ConnectionInv
  <2> SUFFICES ASSUME Init
               PROVE  ConnectionInv
    OBVIOUS
  <2>1. TypeOK
    <3>1. <<>> \in Seq(Messages) /\ Len(<<>>) = 0
      BY EmptySeq
    <3>2. Len(queue) <= Capacity /\ Len(writing) <= 1
      BY <3>1, ConnectionAssumption DEF Init
    <3> QED
      BY <3>1, <3>2 DEF Init, TypeOK, RunSteps, SenderSteps, Loops
  <2>2. Outgoing = <<>>
    BY DEF Init, Outgoing
  <2>3. OrderInv
    BY <2>2 DEF Init, OrderInv, NothingReordered, In
  <2>4. LoopInv
    BY DEF Init, LoopInv, NoSendOnClosed, Locked, LoopsBelongToConnection,
        GracefulCloseFlushes
  <2> QED
    BY <2>1, <2>3, <2>4 DEF ConnectionInv
<1>2. ConnectionInv /\ [Next]_vars => ConnectionInv'
  BY TypeKept, OrderKept, LoopKept DEF ConnectionInv
<1> QED
  BY <1>1, <1>2, PTL DEF Spec

\* outbound_queue.go: Close never closes the channel under a goroutine that
\* stands in Send's select.
THEOREM SendSafe == Spec => []NoSendOnClosed
<1>1. ConnectionInv => NoSendOnClosed
  BY DEF ConnectionInv, LoopInv
<1> QED
  BY <1>1, ConnectionCorrect, PTL

\* writeLoop and Send: no message is reordered, repeated or forgotten but those
\* whose write failed, over any number of connections.
THEOREM Ordered == Spec => []NothingReordered
<1>1. ConnectionInv => NothingReordered
  BY DEF ConnectionInv, OrderInv
<1> QED
  BY <1>1, ConnectionCorrect, PTL

\* serveConnection: no loop of a connection outlives it.
THEOREM LoopsEnd == Spec => []LoopsBelongToConnection
<1>1. ConnectionInv => LoopsBelongToConnection
  BY DEF ConnectionInv, LoopInv
<1> QED
  BY <1>1, ConnectionCorrect, PTL

\* gracefullyCloseConnection: the close frame follows everything Send accepted,
\* as long as the connection holds.
THEOREM Flushed == Spec => []GracefulCloseFlushes
<1>1. ConnectionInv => GracefulCloseFlushes
  BY DEF ConnectionInv, LoopInv
<1> QED
  BY <1>1, ConnectionCorrect, PTL

-----------------------------------------------------------------------------
\* Waiting.

\* Senders and the writer neither close a connection nor cancel its group but
\* when a write fails; they leave the reader and the heartbeat.
LEMMA QueueKeepsWaits ==
    ASSUME ConnectionInv, WaitInv, Senders \/ Writer
    PROVE  WaitInv'
<1> USE DEF WaitInv, connVars, queueVars, writeVars, Serving
<1>1. CASE Senders
  BY <1>1 DEF Senders, CallSend, BeginSend, Enqueue, SendTimesOut
<1>2. CASE Writer
  <2>1. /\ UNCHANGED <<run, conn, closed>>
        /\ groupCancelled => groupCancelled'
        /\ {"reader", "heartbeat"} \cap loops \subseteq loops'
    BY <1>2 DEF Writer, WriterTakes, WriterReturns, WriteSucceeds, WriteFails, Leave
  <2> QED
    BY <2>1
<1> QED
  BY <1>1, <1>2

\* The reader and the heartbeat cancel the group when they return, if it is not
\* cancelled yet.
LEMMA LoopsKeepWaits ==
    ASSUME ConnectionInv, WaitInv,
           ReaderReturns \/ HeartbeatReturns \/ CloseOnCancel \/ GroupWaitReturns
    PROVE  WaitInv'
<1> USE DEF WaitInv, connVars, queueVars, writeVars, Serving
<1>1. groupCancelled \in BOOLEAN
  BY DEF ConnectionInv, TypeOK
<1>2. CASE ReaderReturns
  BY <1>1, <1>2 DEF ReaderReturns, Leave
<1>3. CASE HeartbeatReturns
  BY <1>1, <1>3 DEF HeartbeatReturns, Leave
<1>4. CASE CloseOnCancel
  BY <1>4 DEF CloseOnCancel
<1>5. CASE GroupWaitReturns
  BY <1>5 DEF GroupWaitReturns
<1> QED
  BY <1>2, <1>3, <1>4, <1>5

\* Run serves a connection from its dial on, waits for the writer when it has
\* closed the queue and for the group when it has cancelled it.
LEMMA RunKeepsWaits ==
    ASSUME ConnectionInv, WaitInv, RunNext
    PROVE  WaitInv'
<1> USE DEF WaitInv, connVars, queueVars, writeVars, Serving, SetRun
<1>1. CASE Connect \/ DialFails \/ BackoffEnds \/ ServerShutdown \/ ShutdownTasksReturns
           \/ OneShotComplete
  BY <1>1 DEF Connect, DialFails, BackoffEnds, ServerShutdown, ShutdownTasksReturns,
        OneShotComplete
<1>2. CASE DialSucceeds
  BY <1>2 DEF DialSucceeds, Loops
<1>3. CASE CloseOutbound \/ LeaveUnconnected
  BY <1>3 DEF CloseOutbound, LeaveUnconnected, CloseQueue
<1>4. CASE Reconnect \/ WriterDone \/ ConnectionDone
  BY <1>4 DEF Reconnect, WriterDone, ConnectionDone
<1> QED
  BY <1>1, <1>2, <1>3, <1>4 DEF RunNext

\* In a state of the invariant whoever waits is waited for by nobody it waits
\* for: from each place of Run the chain of waits ends at one who can go on.
LEMMA ChainEnds ==
    ASSUME ConnectionInv, WaitInv
    PROVE  NoCircularWait
<1> SUFFICES ASSUME run # "returned"
             PROVE  \/ RunCanStep \/ LoopCanStep \/ GroupCanReturn \/ SendCanStep
                    \/ run = "serving" /\ conn = "open" /\ ~ctxDone
  BY DEF NoCircularWait
<1>1. run \in RunSteps /\ loops \in SUBSET Loops /\ Len(queue) <= Capacity
  BY DEF ConnectionInv, TypeOK
<1>2. CASE run \in {"starting", "dialing", "backoff", "draining"}
  BY <1>2 DEF RunCanStep
<1>3. CASE run \in {"closing", "leaving"}
  BY <1>1, <1>3 DEF RunCanStep, SendCanStep
<1>4. CASE run = "serving"
  <2>1. SUFFICES ASSUME conn # "open", loops # {}
                 PROVE  LoopCanStep
    BY <1>4, <2>1 DEF RunCanStep, GroupCanReturn, Serving
  <2>2. CASE {"reader", "heartbeat"} \cap loops # {}
    BY <2>1, <2>2 DEF LoopCanStep
  <2>3. CASE {"reader", "heartbeat"} \cap loops = {}
    <3>1. "writer" \in loops
      BY <1>1, <2>1, <2>3 DEF Loops
    <3>2. groupCancelled
      BY <1>4, <2>3 DEF WaitInv, Serving
    <3> QED
      BY <3>1, <3>2 DEF LoopCanStep, MayStop
  <2> QED
    BY <2>2, <2>3
<1>5. CASE run = "flushing"
  BY <1>5 DEF RunCanStep, LoopCanStep, MayStop, WaitInv
<1>6. CASE run = "cancelled"
  <2>1. groupCancelled /\ "writer" \notin loops
    BY <1>6 DEF WaitInv, ConnectionInv, LoopInv
  <2>2. CASE loops = {}
    BY <1>6, <2>2 DEF RunCanStep, GroupCanReturn
  <2>3. CASE loops # {}
    BY <1>1, <2>1, <2>3 DEF LoopCanStep, Loops
  <2> QED
    BY <2>2, <2>3
<1> QED
  BY <1>1, <1>2, <1>3, <1>4, <1>5, <1>6 DEF RunSteps

\* outbound_queue.go and serveConnection: the mutex that Send holds, the channel
\* the writer empties, the group that Wait waits for and the close that waits for
\* the writer never wait for one another in a circle.
THEOREM NobodyStuck == Spec => []NoCircularWait
<1>1. Init => WaitInv
  BY DEF Init, WaitInv, Serving
<1>2. ConnectionInv /\ WaitInv /\ [Next]_vars => WaitInv'
  <2> SUFFICES ASSUME ConnectionInv, WaitInv, [Next]_vars
               PROVE  WaitInv'
    OBVIOUS
  <2>1. CASE CancelContext \/ ConnectionBreaks \/ TaskCompletes \/ UNCHANGED vars
    BY <2>1 DEF CancelContext, ConnectionBreaks, TaskCompletes, WaitInv, vars, connVars,
        queueVars, writeVars, Serving
  <2> QED
    BY <2>1, QueueKeepsWaits, LoopsKeepWaits, RunKeepsWaits DEF Next, Returned
<1>3. ConnectionInv /\ WaitInv => NoCircularWait
  BY ChainEnds
<1> QED
  BY <1>1, <1>2, <1>3, ConnectionCorrect, PTL DEF Spec

\* Run: a signal leaves it at most six steps, in each of the places where it may
\* find it, so that what SignalEndsRun asks for is that each wait ends.
THEOREM WayOut == Spec => SignalledRunAdvances
<1>1. ConnectionInv /\ [Next]_vars
        => [ctxDone /\ run' # run => StepsLeft[run'] < StepsLeft[run]]_vars
  <2> SUFFICES ASSUME ConnectionInv, [Next]_vars, ctxDone, run' # run
               PROVE  StepsLeft[run'] < StepsLeft[run]
    OBVIOUS
  <2>1. RunNext
    BY DEF Next, Senders, CallSend, BeginSend, Enqueue, SendTimesOut, Writer, WriterTakes,
        WriterReturns, WriteSucceeds, WriteFails, ReaderReturns, HeartbeatReturns,
        CloseOnCancel, GroupWaitReturns, CancelContext, ConnectionBreaks, TaskCompletes,
        Returned, vars
  <2>2. \/ run = "starting" /\ run' = "leaving"
        \/ run = "backoff" /\ run' = "leaving"
        \/ run = "leaving" /\ run' = "returned"
        \/ run = "dialing" /\ run' \in {"leaving", "serving"}
        \/ run = "serving" /\ run' \in {"starting", "draining", "closing"}
        \/ run = "draining" /\ run' = "closing"
        \/ run = "closing" /\ run' = "flushing"
        \/ run = "flushing" /\ run' = "cancelled"
        \/ run = "cancelled" /\ run' = "returned"
    BY <2>1 DEF RunNext, Connect, DialFails, BackoffEnds, DialSucceeds, Reconnect,
        ServerShutdown, ShutdownTasksReturns, OneShotComplete, CloseOutbound, WriterDone,
        ConnectionDone, LeaveUnconnected, CloseQueue, SetRun
  <2> QED
    BY <2>2 DEF StepsLeft, RunSteps
<1> QED
  BY <1>1, ConnectionCorrect, PTL DEF Spec, SignalledRunAdvances
=============================================================================
