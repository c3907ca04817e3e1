----------------------------- MODULE Subprocess -----------------------------
(***************************************************************************)
(* A command that the Direct and the Command backend run under a context   *)
(* (internal/worker/subprocess.go; os/exec is external).  The end of the   *)
(* context kills the command's own process and nothing else: what it has   *)
(* started may go on, and may hold the pipes that it has inherited open.   *)
(***************************************************************************)

\* child: the command's own process.  orphans: processes it has started hold
\* its pipes.
Processes == [child : {"none", "running", "ok", "failed"}, orphans : BOOLEAN]
NoProcess == [child |-> "none", orphans |-> FALSE]

\* What starting a command may result in.  possible: its context has not ended
\* and its directory is there.
Launched(possible) ==
    {[child |-> s, orphans |-> FALSE] : s \in {"failed"} \cup {r \in {"running"} : possible}}

\* A command's processes take a step by themselves.
ProcessMoves(proc) ==
    LET started == IF proc.child # "running" THEN {}
                   ELSE {[proc EXCEPT !.orphans = TRUE],
                         [proc EXCEPT !.child = "ok"],
                         [proc EXCEPT !.child = "failed"]}
    IN  started \cup {[proc EXCEPT !.orphans = FALSE]}

\* Mutation: there is no WaitDelay.
ReturnsAtEOF(proc, reporter, input) ==
    /\ proc.child \in {"ok", "failed"}
    /\ reporter \/ input => ~proc.orphans

\* runTaskCommand may return: the process has exited, and with a reporter the
\* pipes are closed or WaitDelay is over (which counts as success).  Without
\* one the output goes to the worker's own files; but input that is larger than
\* a pipe holds, and that nobody reads, is then waited for without a limit.
runTaskCommandReturns(proc, reporter, input) ==
    /\ proc.child \in {"ok", "failed"}
    /\ ~reporter /\ input => ~proc.orphans
=============================================================================
