--------------------------- MODULE CommandBackend ---------------------------
(***************************************************************************)
(* One task on the Command backend (internal/worker/command.go):           *)
(* ExecuteTask runs the operator's dispatch command with the task on its   *)
(* standard input and under a time limit, and returns when the command has *)
(* exited; the remote runtime reports the rest to the server.  CancelTask  *)
(* runs the cancel command.  Tasks share nothing here, so that a single    *)
(* one shows all there is.                                                 *)
(***************************************************************************)
EXTENDS BackendConfig, Subprocess

VARIABLES
    call,           \* the running call: its step, or what it returned
    callCtx,        \* its context: "live", "expired" (the limit) or "cancelled"
    commandProcess, \* the command it runs
    largeInput      \* the payload is larger than a pipe holds

commandVars == <<call, callCtx, commandProcess, largeInput>>

Dispatched == {"spawned", "task_cancelled", "dispatch_timeout", "dispatch_command"}

\* ExecuteTask.
StartDispatch ==
    /\ call = "idle"
    /\ call' = "dispatching"
    /\ commandProcess' \in Launched(TRUE)
    /\ UNCHANGED <<callCtx, largeInput>>

\* How ExecuteTask tells why the command has failed: the task's own context is
\* looked at first, then the time limit.
DispatchFailure ==
    CASE callCtx = "cancelled" -> "task_cancelled"
      [] callCtx = "expired" -> "dispatch_timeout"
      [] OTHER -> "dispatch_command"

DispatchReturns ==
    /\ call = "dispatching"
    /\ runTaskCommandReturns(commandProcess, config.collect, largeInput)
    /\ call' = IF commandProcess.child = "ok" THEN "spawned" ELSE DispatchFailure
    /\ UNCHANGED <<callCtx, commandProcess, largeInput>>

\* CancelTask, called after ExecuteTask has returned, with a context and a
\* command of its own; the command's output goes to the worker's own files.
StartCancel ==
    /\ call \in Dispatched
    /\ callCtx' = "live"
    /\ IF config.cancelCommand
       THEN call' = "cancelling" /\ commandProcess' \in Launched(TRUE)
       ELSE call' = "cancelled" /\ UNCHANGED commandProcess
    /\ UNCHANGED largeInput

CancelReturns ==
    /\ call = "cancelling"
    /\ commandProcess.child \in {"ok", "failed"}
    /\ call' = IF commandProcess.child = "ok" THEN "cancelled" ELSE "cancel_failed"
    /\ UNCHANGED <<callCtx, commandProcess, largeInput>>

\* The time limit passes or the task is cancelled, which still decides how a
\* failure is classified when it comes second.
EndCallContext(cause) ==
    /\ call \in {"dispatching", "cancelling"}
    /\ callCtx = "live" \/ (callCtx = "expired" /\ cause = "cancelled")
    /\ callCtx' = cause
    /\ UNCHANGED <<call, commandProcess, largeInput>>

KillCommand ==
    /\ callCtx # "live"
    /\ commandProcess.child = "running"
    /\ commandProcess' = [commandProcess EXCEPT !.child = "failed"]
    /\ UNCHANGED <<call, callCtx, largeInput>>

CommandMoves ==
    /\ \E proc \in ProcessMoves(commandProcess) \ {commandProcess} : commandProcess' = proc
    /\ UNCHANGED <<call, callCtx, largeInput>>

CommandInit ==
    /\ call = "idle"
    /\ callCtx = "live"
    /\ commandProcess = NoProcess
    /\ largeInput \in InitialChoice(config.backend = "command", BOOLEAN)

\* What the worker itself does, its timer included.
CommandStep ==
    \/ DispatchReturns \/ CancelReturns \/ KillCommand
    \/ EndCallContext("expired")

CommandNext == StartDispatch \/ StartCancel \/ CommandStep \/ EndCallContext("cancelled")
                   \/ CommandMoves

-----------------------------------------------------------------------------
\* ExecuteTask and CancelTask return within their time limits, even when the
\* command hangs or leaves processes behind that hold its output open.  The one
\* exception: without a log reporter, and with a payload larger than a pipe
\* holds, a process left behind that does not read it holds up ExecuteTask.
DispatchEnds ==
    call \in {"dispatching", "cancelling"} ~>
        \/ call \notin {"dispatching", "cancelling"}
        \/ ~config.collect /\ largeInput /\ commandProcess.orphans

\* A dispatch that exceeds dispatch_timeout is over: ExecuteTask returns, with
\* the failure or with what the command came to at the last moment.
DispatchIsLimited ==
    call = "dispatching" /\ callCtx = "expired" ~> call \in Dispatched
=============================================================================
