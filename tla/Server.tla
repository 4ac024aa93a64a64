------------------------------- MODULE Server -------------------------------
(***************************************************************************)
(* The path of a request and the end of the process: the rate limiter lets *)
(* a request through, a goroutine serves it over the pool that it shares   *)
(* with the cleanup job and that a shutdown closes; one clock fills the    *)
(* buckets and runs the deadlines down.                                    *)
(***************************************************************************)
EXTENDS RateLimit, Shutdown

vars == <<limiterVars, poolVars, shutdownVars>>

TypeOK == LimiterTypeOK /\ PoolTypeOK /\ ShutdownTypeOK

Init == LimiterInit /\ PoolInit /\ ShutdownInit

\* A request of address i, which a free worker takes, or the limiter refuses.
Admit(i) ==
    /\ Pass(i)
    /\ \E w \in Workers, g \in 0 .. MaxGuards : Serve(w, g)

Turn(i) == Refuse(i) /\ UNCHANGED poolVars

\* Whoever has a connection may ask until the server has drained, also when the
\* listener is closed and run() returns.
Ask(i) ==
    /\ main \in {"serving", "draining", "abandoning"}
    /\ Admit(i) \/ Turn(i)
    /\ UNCHANGED shutdownVars

Tick ==
    /\ ~Ended
    /\ Age /\ CountDown /\ DrainAge
    /\ UNCHANGED <<main, cancelled, job>>

Cleanup == ~Ended /\ CleanupVisitors /\ UNCHANGED <<poolVars, shutdownVars>>

Work(w) == ~Ended /\ Step(w) /\ UNCHANGED <<limiterVars, shutdownVars>>

GiveUp(w) == ~Ended /\ Expire(w) /\ UNCHANGED <<limiterVars, shutdownVars>>

\* Any other error, or a client that goes away.
Fail(w) == ~Ended /\ Abort(w) /\ UNCHANGED <<limiterVars, shutdownVars>>

Main == (Signal \/ ListenFails \/ Stop) /\ UNCHANGED limiterVars

Job ==
    /\ JobStops \/ JobRuns \/ JobAcquires \/ JobEnds
    /\ UNCHANGED limiterVars

Next ==
    \/ Tick \/ Cleanup \/ Main \/ Job
    \/ \E i \in Ips : Ask(i)
    \/ \E w \in Workers : Work(w) \/ GiveUp(w) \/ Fail(w)

\* Time passes, the database answers, deadlines and closed pools are noticed,
\* run() goes on to its end; a client asks on.  The pool hands its connections
\* out in the order in which they were asked for: whoever waits while others
\* take what is given back has his turn.
Fairness ==
    /\ WF_vars(Tick)
    /\ \A w \in Workers : SF_vars(Work(w) \/ GiveUp(w))
    /\ WF_vars(JobEnds /\ UNCHANGED limiterVars)
    /\ WF_vars(Stop /\ UNCHANGED limiterVars)
    /\ \A i \in Ips : SF_vars(Ask(i))

Spec == Init /\ [][Next]_vars /\ Fairness
=============================================================================
