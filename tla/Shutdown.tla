------------------------------ MODULE Shutdown ------------------------------
(***************************************************************************)
(* The end of the process: a signal drains the server and then closes the  *)
(* pool; an error of the listener, or a drain that takes too long, ends    *)
(* run() with its deferred calls, which stop the cleanup job and close the *)
(* pool in the other order, under the requests that are still served       *)
(* (main.go, server.go, dependency.go).                                    *)
(*                                                                         *)
(* The cleanup job shares the pool with the requests and has no deadline.  *)
(***************************************************************************)
EXTENDS ConnPool

CONSTANT Grace   \* shutdownTimeout, in ticks

ASSUME ShutdownConstantsOK == Grace \in Nat

VARIABLES
    main,        \* where the main goroutine is
    graceLeft,   \* what is left of shutdownTimeout, in a drain
    cancelled,   \* has cleanupCancel been called?
    job          \* the goroutine of the cleanup job

shutdownVars == <<main, graceLeft, cancelled, job>>

\* A crash is a panic in a goroutine that nobody recovers.
MainPhases ==
    {"serving", "draining", "closing", "returning", "abandoning", "exited", "crashed"}

JobPhases == {"asleep", "acquire", "running", "stopped"}

ShutdownTypeOK ==
    /\ main \in MainPhases
    /\ graceLeft \in 0 .. Grace
    /\ cancelled \in BOOLEAN
    /\ job \in [pc: JobPhases, conns: SUBSET Conns]

ShutdownInit ==
    /\ main = "serving"
    /\ graceLeft = 0
    /\ cancelled = FALSE
    /\ job = [pc |-> "asleep", conns |-> {}]

Ended == main \in {"exited", "crashed"}

-----------------------------------------------------------------------------
(***************************************************************************)
(* StartServerWithGracefulShutdown, and what run() defers.                 *)
(***************************************************************************)
Signal ==
    /\ main = "serving"
    /\ main' = "draining"
    /\ graceLeft' = Grace
    /\ UNCHANGED <<poolVars, cancelled, job>>

ListenFails ==
    /\ main = "serving"
    /\ main' = "abandoning"
    /\ UNCHANGED <<poolVars, graceLeft, cancelled, job>>

\* Mutant of Drained: srv.Close instead of srv.Shutdown.
Drained_AtOnce ==
    /\ main = "draining"
    /\ main' = "closing"
    /\ UNCHANGED <<poolVars, graceLeft, cancelled, job>>

\* srv.Shutdown waits until no request is served, but not for ever.
Drained ==
    /\ main = "draining"
    /\ \A w \in Workers : req[w].pc = "idle"
    /\ main' = "closing"
    /\ UNCHANGED <<poolVars, graceLeft, cancelled, job>>

DrainTimesOut ==
    /\ main = "draining" /\ graceLeft = 0
    /\ main' = "abandoning"
    /\ UNCHANGED <<poolVars, graceLeft, cancelled, job>>

\* run() returns, after a drain or without it.
Deferred == main \in {"returning", "abandoning"}

\* cleanupCancel of deps.Shutdown.
CancelJob ==
    /\ Deferred /\ ~cancelled
    /\ cancelled' = TRUE
    /\ UNCHANGED <<poolVars, main, graceLeft, job>>

\* db.Close, the first time it is called: Pool.Close lets nobody in any more
\* and waits for the connections that are out.
StartClose ==
    /\ main = "closing" \/ (Deferred /\ cancelled)
    /\ pool = "open"
    /\ pool' = "closing"
    /\ UNCHANGED <<free, req, shutdownVars>>

FinishClose ==
    /\ pool = "closing" /\ free = Conns
    /\ pool' = "gone"
    /\ main' = IF main = "closing" THEN "returning" ELSE main
    /\ UNCHANGED <<free, req, graceLeft, cancelled, job>>

Exit ==
    /\ Deferred /\ cancelled /\ pool = "gone"
    /\ main' = "exited"
    /\ UNCHANGED <<poolVars, graceLeft, cancelled, job>>

Stop == Drained \/ DrainTimesOut \/ CancelJob \/ StartClose \/ FinishClose \/ Exit

\* A tick of the clock, as far as the drain notices it.
DrainAge ==
    graceLeft' = IF main = "draining" /\ graceLeft > 0 THEN graceLeft - 1 ELSE graceLeft

-----------------------------------------------------------------------------
(***************************************************************************)
(* VerificationCleanupJob.Start.                                           *)
(***************************************************************************)
JobStops ==
    /\ ~Ended /\ job.pc = "asleep" /\ cancelled
    /\ job' = [job EXCEPT !.pc = "stopped"]
    /\ UNCHANGED <<poolVars, main, graceLeft, cancelled>>

\* At the start and at every tick of its ticker, also one that finds the context
\* cancelled: that is an error.  A nil pool is dereferenced.
JobRuns ==
    /\ ~Ended /\ job.pc = "asleep"
    /\ IF pool = "gone"
       THEN main' = "crashed" /\ UNCHANGED job
       ELSE /\ job' = [job EXCEPT !.pc = IF cancelled THEN "asleep" ELSE "acquire"]
            /\ UNCHANGED main
    /\ UNCHANGED <<poolVars, graceLeft, cancelled>>

JobAcquires ==
    /\ ~Ended /\ job.pc = "acquire" /\ pool = "open"
    /\ \E c \in free :
           /\ free' = free \ {c}
           /\ job' = [pc |-> "running", conns |-> {c}]
    /\ UNCHANGED <<pool, req, main, graceLeft, cancelled>>

\* The statement is done, or the wait is over: by an error if the context is
\* cancelled or the pool is closed.
JobEnds ==
    /\ ~Ended
    /\ \/ job.pc = "running"
       \/ job.pc = "acquire" /\ (cancelled \/ pool # "open")
    /\ free' = free \cup job.conns
    /\ job' = [pc |-> "asleep", conns |-> {}]
    /\ UNCHANGED <<pool, req, main, graceLeft, cancelled>>
=============================================================================
