----------------------------- MODULE Connection -----------------------------
(***************************************************************************)
(* The worker's WebSocket connection (internal/worker/worker.go: Run,      *)
(* serveConnection and its reader, writer and heartbeat loops) and the     *)
(* outbound queue between the worker's goroutines and the writer           *)
(* (internal/worker/outbound_queue.go).  What the handlers and shutdownTasks*)
(* do to tasks is in Worker; here they are the goroutines that send and    *)
(* the time that passes.                                                   *)
(***************************************************************************)
EXTENDS Integers, Sequences, FiniteSets

CONSTANTS
    Messages,   \* the messages this process sends, each by one Send call
    Statuses,   \* those of them that are the one-shot task's own
    Capacity,   \* newOutboundQueue's capacity
    OneShot     \* Config.OneShot

ASSUME ConnectionAssumption ==
    /\ Statuses \subseteq Messages
    /\ Capacity \in Nat \ {0}
    /\ OneShot \in BOOLEAN

VARIABLES
    ctxDone,        \* w.ctx is cancelled
    oneShotDone,    \* w.oneShot.done is closed
    run,            \* where Run stands
    conn,           \* the socket: "open", "broken", "closed", "none", or
                    \* "never" before the first dial succeeds
    loops,          \* serveConnection's loops that have not returned
    groupCancelled, \* groupCtx is done
    groupDone,      \* group.Wait's result is in the groupDone channel
    queue,          \* contents of outbound.messages
    closed,         \* outbound.closed
    sender,         \* where each message's Send call stands
    writing,        \* messages the writer has taken and not yet written (0 or 1)
    accepted,       \* history: messages Send accepted, in order
    written,        \* history: messages WriteMessage accepted, in order
    lost            \* history: messages taken whose WriteMessage failed

connVars == <<conn, loops, groupCancelled, groupDone>>
queueVars == <<queue, closed, sender, accepted>>
writeVars == <<writing, written, lost>>
vars == <<ctxDone, oneShotDone, run, connVars, queueVars, writeVars>>

RunSteps == {"starting", "dialing", "backoff", "serving", "draining",
             "leaving", "closing", "flushing", "cancelled", "returned"}
Loops == {"reader", "writer", "heartbeat"}
Serving == {"serving", "draining", "closing", "flushing"}
SenderSteps == {"idle", "locking", "blocked", "sent", "failed"}

-----------------------------------------------------------------------------
\* outboundQueue.  Its mutex is held through the whole of Send.

Locked == \E m \in Messages : sender[m] = "blocked"

SetSender(m, step) == sender' = [sender EXCEPT ![m] = step]

\* The task's own messages follow an assignment that came over a connection.
CallSend(m) ==
    /\ sender[m] = "idle"
    /\ m \in Statuses => conn # "never"
    /\ SetSender(m, "locking")
    /\ UNCHANGED <<ctxDone, oneShotDone, run, connVars, queue, closed,
                   accepted, writeVars>>

\* Send takes the mutex and looks at closed.
BeginSend(m) ==
    /\ sender[m] = "locking"
    /\ ~Locked
    /\ SetSender(m, IF closed THEN "failed" ELSE "blocked")
    /\ UNCHANGED <<ctxDone, oneShotDone, run, connVars, queue, closed,
                   accepted, writeVars>>

Enqueue(m) ==
    /\ sender[m] = "blocked"
    /\ Len(queue) < Capacity
    /\ queue' = Append(queue, m)
    /\ accepted' = Append(accepted, m)
    /\ SetSender(m, "sent")
    /\ UNCHANGED <<ctxDone, oneShotDone, run, connVars, closed, writeVars>>

\* Mutation: Send has no timeout.
SendWaits(m) == FALSE /\ m \in Messages /\ UNCHANGED vars

\* outboundQueueSendTimeout passes with the channel full.
SendTimesOut(m) ==
    /\ sender[m] = "blocked"
    /\ Len(queue) = Capacity
    /\ SetSender(m, "failed")
    /\ UNCHANGED <<ctxDone, oneShotDone, run, connVars, queue, closed,
                   accepted, writeVars>>

\* Mutation: Close does not take the mutex.
CloseUnlocked(next) ==
    /\ closed' = TRUE
    /\ run' = next
    /\ UNCHANGED <<ctxDone, oneShotDone, connVars, queue, sender, accepted,
                   writeVars>>

\* Close, called by Run in the step next.
CloseQueue(next) ==
    /\ ~Locked
    /\ closed' = TRUE
    /\ run' = next
    /\ UNCHANGED <<ctxDone, oneShotDone, connVars, queue, sender, accepted,
                   writeVars>>

-----------------------------------------------------------------------------
\* The loops of one connection.  The first that returns an error cancels
\* groupCtx, which closes the socket and ends the others.

Leave(loop, isError) ==
    /\ loops' = loops \ {loop}
    /\ groupCancelled' = (groupCancelled \/ isError)
    /\ UNCHANGED groupDone

\* ReadMessage fails: the peer closed, the network did, or PongWait passed.
ReaderReturns ==
    /\ "reader" \in loops
    /\ conn # "open" \/ groupCancelled
    /\ Leave("reader", ~groupCancelled)
    /\ UNCHANGED <<ctxDone, oneShotDone, run, conn, queueVars, writeVars>>

\* A ping cannot be written, or groupCtx is done.
HeartbeatReturns ==
    /\ "heartbeat" \in loops
    /\ conn # "open" \/ groupCancelled
    /\ Leave("heartbeat", ~groupCancelled)
    /\ UNCHANGED <<ctxDone, oneShotDone, run, conn, queueVars, writeVars>>

\* writeLoop's select: when groupCtx is done and a message is there, either.
WriterTakes ==
    /\ "writer" \in loops
    /\ writing = <<>>
    /\ queue # <<>>
    /\ writing' = <<Head(queue)>>
    /\ queue' = Tail(queue)
    /\ UNCHANGED <<ctxDone, oneShotDone, run, connVars, closed, sender,
                   accepted, written, lost>>

\* Mutations: the writer ends when the queue is closed, drained or not; the
\* writer does not look at groupCtx.
MayStopUndrained == groupCancelled \/ closed
MayStopOnlyClosed == closed /\ queue = <<>>

MayStop == groupCancelled \/ (closed /\ queue = <<>>)

WriterReturns ==
    /\ "writer" \in loops
    /\ writing = <<>>
    /\ MayStop
    /\ Leave("writer", FALSE)
    /\ UNCHANGED <<ctxDone, oneShotDone, run, conn, queueVars, writeVars>>

\* A broken connection may go unnoticed by one write.
WriteSucceeds ==
    /\ writing # <<>>
    /\ conn # "closed"
    /\ written' = written \o writing
    /\ writing' = <<>>
    /\ UNCHANGED <<ctxDone, oneShotDone, run, connVars, queueVars, lost>>

\* Mutation: the failed message goes back to the end of the queue.
WriteFailsAndRequeues ==
    /\ writing # <<>>
    /\ conn # "open"
    /\ queue' = queue \o writing
    /\ writing' = <<>>
    /\ Leave("writer", TRUE)
    /\ UNCHANGED <<ctxDone, oneShotDone, run, conn, closed, sender, accepted,
                   written, lost>>

WriteFails ==
    /\ writing # <<>>
    /\ conn # "open"
    /\ lost' = lost \o writing
    /\ writing' = <<>>
    /\ Leave("writer", TRUE)
    /\ UNCHANGED <<ctxDone, oneShotDone, run, conn, queueVars, written>>

\* closeConnectionOnCancel.
CloseOnCancel ==
    /\ groupCancelled
    /\ conn \in {"open", "broken"}
    /\ conn' = "closed"
    /\ UNCHANGED <<ctxDone, oneShotDone, run, loops, groupCancelled, groupDone,
                   queueVars, writeVars>>

GroupWaitReturns ==
    /\ run \in {"serving", "draining", "closing", "flushing", "cancelled"}
    /\ loops = {}
    /\ ~groupDone
    /\ groupDone' = TRUE
    /\ UNCHANGED <<ctxDone, oneShotDone, run, conn, loops, groupCancelled,
                   queueVars, writeVars>>

-----------------------------------------------------------------------------
\* Run, and the select of serveConnection.

SetRun(next) ==
    /\ run' = next
    /\ UNCHANGED <<ctxDone, oneShotDone, connVars, queueVars, writeVars>>

Connect ==
    /\ run = "starting"
    /\ SetRun(IF ctxDone THEN "leaving" ELSE "dialing")

DialFails ==
    /\ run = "dialing"
    /\ SetRun(IF ctxDone THEN "leaving" ELSE "backoff")

BackoffEnds ==
    /\ run = "backoff"
    /\ SetRun(IF ctxDone THEN "leaving" ELSE "starting")

\* The dial takes no context: it may succeed after the signal.
DialSucceeds ==
    /\ run = "dialing"
    /\ run' = "serving"
    /\ conn' = "open"
    /\ loops' = Loops
    /\ groupCancelled' = FALSE
    /\ groupDone' = FALSE
    /\ UNCHANGED <<ctxDone, oneShotDone, queueVars, writeVars>>

\* Mutation: Run dials again as soon as a loop has failed.
ReconnectAtOnce ==
    /\ run = "serving"
    /\ groupCancelled
    /\ conn' = "none"
    /\ run' = "starting"
    /\ UNCHANGED <<ctxDone, oneShotDone, loops, groupCancelled, groupDone,
                   queueVars, writeVars>>

\* <-groupDone: the connection is gone, and Run dials again.
Reconnect ==
    /\ run = "serving"
    /\ groupDone
    /\ conn' = "none"
    /\ run' = "starting"
    /\ UNCHANGED <<ctxDone, oneShotDone, loops, groupCancelled, groupDone,
                   queueVars, writeVars>>

\* <-w.ctx.Done(): shutdownTasks, then the graceful close.
ServerShutdown == run = "serving" /\ ctxDone /\ SetRun("draining")
ShutdownTasksReturns == run = "draining" /\ SetRun("closing")

\* <-w.oneShot.doneChannel(), with groupDone not ready.
OneShotComplete ==
    /\ run = "serving"
    /\ oneShotDone
    /\ ~groupDone
    /\ SetRun("closing")

\* gracefullyCloseConnection: outbound.Close, writerWG.Wait, close frame and
\* connectionCancel, <-groupDone.
CloseOutbound == run = "closing" /\ CloseQueue("flushing")

\* Mutation: the close waits for all three loops before it cancels them.
AllLoopsDone ==
    /\ run = "flushing"
    /\ loops = {}
    /\ run' = "cancelled"
    /\ groupCancelled' = TRUE
    /\ UNCHANGED <<ctxDone, oneShotDone, conn, loops, groupDone, queueVars,
                   writeVars>>

WriterDone ==
    /\ run = "flushing"
    /\ "writer" \notin loops
    /\ run' = "cancelled"
    /\ groupCancelled' = TRUE
    /\ UNCHANGED <<ctxDone, oneShotDone, conn, loops, groupDone, queueVars,
                   writeVars>>

ConnectionDone ==
    /\ run = "cancelled"
    /\ groupDone
    /\ run' = "returned"
    /\ conn' = "none"
    /\ UNCHANGED <<ctxDone, oneShotDone, loops, groupCancelled, groupDone,
                   queueVars, writeVars>>

\* Without a connection: shutdownTasks, outbound.Close, return.
LeaveUnconnected == run = "leaving" /\ CloseQueue("returned")

RunNext ==
    \/ Connect \/ DialFails \/ BackoffEnds \/ DialSucceeds \/ Reconnect
    \/ ServerShutdown \/ ShutdownTasksReturns \/ OneShotComplete
    \/ CloseOutbound \/ WriterDone \/ ConnectionDone \/ LeaveUnconnected

-----------------------------------------------------------------------------
\* The environment: the signal, the network, and the end of the one-shot task,
\* whose status messages have all been sent by then.

CancelContext ==
    /\ ~ctxDone
    /\ ctxDone' = TRUE
    /\ UNCHANGED <<oneShotDone, run, connVars, queueVars, writeVars>>

ConnectionBreaks ==
    /\ conn = "open"
    /\ conn' = "broken"
    /\ UNCHANGED <<ctxDone, oneShotDone, run, loops, groupCancelled, groupDone,
                   queueVars, writeVars>>

TaskCompletes ==
    /\ OneShot
    /\ ~oneShotDone
    /\ \A m \in Statuses : sender[m] \in {"sent", "failed"}
    /\ oneShotDone' = TRUE
    /\ UNCHANGED <<ctxDone, run, connVars, queueVars, writeVars>>

Init ==
    /\ ctxDone = FALSE
    /\ oneShotDone = FALSE
    /\ run = "starting"
    /\ conn = "never"
    /\ loops = {}
    /\ groupCancelled = FALSE
    /\ groupDone = FALSE
    /\ queue = <<>>
    /\ closed = FALSE
    /\ sender = [m \in Messages |-> "idle"]
    /\ writing = <<>>
    /\ accepted = <<>>
    /\ written = <<>>
    /\ lost = <<>>

Senders ==
    \E m \in Messages :
        CallSend(m) \/ BeginSend(m) \/ Enqueue(m) \/ SendTimesOut(m)

Writer == WriterTakes \/ WriterReturns \/ WriteSucceeds \/ WriteFails

Returned == run = "returned" /\ UNCHANGED vars

Next ==
    \/ Senders \/ Writer \/ ReaderReturns \/ HeartbeatReturns
    \/ CloseOnCancel \/ GroupWaitReturns \/ RunNext
    \/ CancelContext \/ ConnectionBreaks \/ TaskCompletes
    \/ Returned

Spec == Init /\ [][Next]_vars

\* Every goroutine keeps running, every blocking call has a deadline (the dial's
\* handshake, WriteWait, PongWait, outboundQueueSendTimeout, the shutdown
\* timeouts), and the mutex is eventually granted.
Fairness ==
    /\ \A m \in Messages : /\ WF_vars(Enqueue(m) \/ SendTimesOut(m))
                           /\ SF_vars(BeginSend(m))
    /\ WF_vars(Writer)
    /\ WF_vars(ReaderReturns)
    /\ WF_vars(HeartbeatReturns)
    /\ WF_vars(CloseOnCancel)
    /\ WF_vars(GroupWaitReturns)
    /\ WF_vars(RunNext)
    /\ SF_vars(CloseOutbound \/ LeaveUnconnected)

FairSpec == Spec /\ Fairness

-----------------------------------------------------------------------------

\* Every variable has its type; the channel never holds more than its capacity
\* and the writer never more than one message.
TypeOK ==
    /\ ctxDone \in BOOLEAN
    /\ oneShotDone \in BOOLEAN
    /\ run \in RunSteps
    /\ conn \in {"never", "open", "broken", "closed", "none"}
    /\ loops \in SUBSET Loops
    /\ groupCancelled \in BOOLEAN
    /\ groupDone \in BOOLEAN
    /\ queue \in Seq(Messages) /\ Len(queue) <= Capacity
    /\ closed \in BOOLEAN
    /\ sender \in [Messages -> SenderSteps]
    /\ writing \in Seq(Messages) /\ Len(writing) <= 1
    /\ accepted \in Seq(Messages)
    /\ written \in Seq(Messages)
    /\ lost \in Seq(Messages)

\* No goroutine stands in Send's select when the channel is closed: a send on a
\* closed channel would panic.
NoSendOnClosed == closed => ~Locked

\* What has been written, and what is still to be, in order.
Outgoing == written \o writing \o queue
In(m, seq) == \E i \in 1..Len(seq) : seq[i] = m

\* Messages reach the socket in the order Send accepted them, across every
\* reconnection, each once: the messages that are written, with the writer or
\* queued are those accepted and not lost, none twice, and in the same order.
NothingReordered ==
    /\ \A i, j \in 1..Len(accepted) : accepted[i] = accepted[j] => i = j
    /\ \A m \in Messages :
           /\ In(m, accepted) <=> In(m, Outgoing) \/ In(m, lost)
           /\ ~(In(m, Outgoing) /\ In(m, lost))
    /\ \A i, j \in 1..Len(Outgoing) :
           i < j => \E p, q \in 1..Len(accepted) :
                        /\ p < q
                        /\ accepted[p] = Outgoing[i]
                        /\ accepted[q] = Outgoing[j]

\* A writer is never left over from an earlier connection, and no loop runs
\* without a socket: there is one writer of data frames at a time.
LoopsBelongToConnection ==
    (run \in {"starting", "dialing", "backoff", "leaving", "returned"})
        => loops = {} /\ writing = <<>>

\* A graceful close loses nothing as long as the connection it closes holds:
\* everything Send accepted is written before the close frame.
GracefulCloseFlushes ==
    run = "cancelled" /\ conn = "open" => queue = <<>> /\ writing = <<>>

\* The inductive invariant behind the four safety properties.  A message whose
\* Send call has not returned is not among the accepted ones.
OrderInv ==
    /\ NothingReordered
    /\ \A m \in Messages : In(m, accepted) => sender[m] = "sent"

\* A loop runs, and the writer holds a message, only while Run serves a
\* connection; one that is open keeps its writer until the queue is closed and
\* drained.
LoopInv ==
    /\ NoSendOnClosed
    /\ LoopsBelongToConnection
    /\ GracefulCloseFlushes
    /\ groupDone => loops = {}
    /\ writing # <<>> => "writer" \in loops
    /\ conn = "open" =>
           /\ run \in Serving \cup {"cancelled"}
           /\ groupCancelled => run = "cancelled"
           /\ "writer" \notin loops => closed /\ queue = <<>>
    /\ run = "cancelled" => "writer" \notin loops

ConnectionInv == TypeOK /\ OrderInv /\ LoopInv

\* The waits of the connection: when the one who waits may go on.
RunCanStep ==
    \/ run \in {"starting", "dialing", "backoff", "draining"}
    \/ run = "serving" /\ (ctxDone \/ oneShotDone \/ groupDone)
    \/ run \in {"closing", "leaving"} /\ ~Locked
    \/ run = "flushing" /\ "writer" \notin loops
    \/ run = "cancelled" /\ groupDone

LoopCanStep ==
    \/ writing # <<>>
    \/ "writer" \in loops /\ (queue # <<>> \/ MayStop)
    \/ {"reader", "heartbeat"} \cap loops # {} /\ (conn # "open" \/ groupCancelled)

GroupCanReturn == run \in Serving \cup {"cancelled"} /\ loops = {} /\ ~groupDone

\* The holder of the mutex has room in the channel, or its timer runs.
SendCanStep == Locked /\ Len(queue) <= Capacity

\* Until Run returns, the goroutines never wait for one another in a circle: one
\* of them can go on, unless Run serves an open connection that nobody ends.
NoCircularWait ==
    run # "returned" =>
        \/ RunCanStep \/ LoopCanStep \/ GroupCanReturn \/ SendCanStep
        \/ run = "serving" /\ conn = "open" /\ ~ctxDone

\* Why: a connection that is served is there, a loop that has returned on it has
\* cancelled the group, but for a writer that has drained a closed queue; who
\* waits for the writer has closed the queue, and who waits for the other loops
\* has cancelled them.
WaitInv ==
    /\ run \in Serving => conn \in {"open", "broken", "closed"}
    /\ run \in Serving /\ ~groupCancelled => {"reader", "heartbeat"} \subseteq loops
    /\ run = "flushing" => closed
    /\ run = "cancelled" => groupCancelled

\* The number of steps that Run has still to take at most after a signal.
StepsLeft ==
    [step \in RunSteps |->
        CASE step = "dialing" -> 6  [] step = "serving" -> 5   [] step = "draining" -> 4
          [] step = "closing" -> 3  [] step = "flushing" -> 2  [] step = "cancelled" -> 1
          [] step = "starting" -> 2 [] step = "backoff" -> 2   [] step = "leaving" -> 1
          [] step = "returned" -> 0]

\* After a signal each step of Run takes it closer to its return, in whatever
\* state the connection is: it does not dial again.
SignalledRunAdvances ==
    [][ctxDone /\ run' # run => StepsLeft[run'] < StepsLeft[run]]_vars

\* A signal makes the protocol end, whatever the connection does.
SignalEndsRun == ctxDone ~> run = "returned"

\* A dead connection is noticed and given up: Run dials again or goes.
DeadConnectionLeft == conn \in {"broken", "closed"} ~> conn \in {"open", "none"}

\* Every Send call returns, also while the connection is down for good.
SendReturns ==
    \A m \in Messages : sender[m] = "locking" ~> sender[m] \in {"sent", "failed"}

\* README on one-shot workers: they "accept one task and exit after that task
\* succeeds, fails, or is cancelled", and flush "queued task status messages
\* through the WebSocket writer before closing" the connection and exiting.
OneShotExitsFlushed ==
    oneShotDone ~>
        \/ ctxDone
        \/ run = "returned" /\ \A i \in 1..Len(queue) : queue[i] \notin Statuses
=============================================================================
