-------------------------- MODULE ServerProperties --------------------------
(***************************************************************************)
(* What the way through the server promises: to the database, that nobody  *)
(* is let in faster than agreed and no connection is lost; to the client,  *)
(* an answer; to whoever stops it, that it stops.                          *)
(***************************************************************************)
EXTENDS Server, FiniteSets

\* The limiter, with its whole tokens, its forgotten fractions of seconds and
\* the buckets it drops and makes again, lets nobody in whom an exact token
\* bucket, filled once a second, would refuse.
TB == INSTANCE TokenBucket
          WITH Clients <- Ips, Price <- Second, Burst <- Rps, level <- credit

ImplementsTokenBucket == TB!Bucket

\* What a request holds at a phase.
HeldAt(pc) ==
    CASE pc \in {"idle", "acquire", "begin"}                 -> 0
      [] pc \in {"reading", "tx", "acquire_inner", "commit"} -> 1
      [] pc = "reading_inner"                                -> 2

\* No connection is lost or given away twice, however a request or the cleanup
\* job ends and whenever the pool closes: each is free or in the hands of one of
\* them, who holds as many as its phase needs.
ConnectionsAccounted ==
    /\ Conns = free \cup job.conns \cup UNION {req[w].conns : w \in Workers}
    /\ job.conns \cap free = {}
    /\ Cardinality(job.conns) = IF job.pc = "running" THEN 1 ELSE 0
    /\ \A w \in Workers :
           /\ req[w].conns \cap (free \cup job.conns) = {}
           /\ \A v \in Workers \ {w} : req[w].conns \cap req[v].conns = {}
           /\ Cardinality(req[w].conns) = HeldAt(req[w].pc)

\* Somebody waits for a connection, and nobody but a deadline gives one back.
Standstill ==
    /\ pool = "open" /\ free = {}
    /\ job.pc # "running"
    /\ \A w \in Workers : req[w].pc # "idle" => Waiting(w)

\* The pool comes to a standstill in one way only: every connection is held by
\* an open transaction that waits for a second one, in makeQR.
StandstillIsNested ==
    Standstill =>
        \A c \in Conns : \E w \in Workers :
            c \in req[w].conns /\ req[w].pc = "acquire_inner"

\* The pool is closed under a request only when the stop was forced, which
\* calls off the cleanup job first: a drained server has answered everybody.
ClosedOnlyOnTheLate ==
    pool # "open" /\ ~cancelled => \A w \in Workers : req[w].pc = "idle"

\* Every request is answered before the process ends, or the process ends under
\* it.  A guard that waits for a connection has no deadline: those who hold the
\* connections do, so that even a pool that stands still moves again, and then
\* its turn comes.
AllAnswered == \A w \in Workers : req[w].pc # "idle" ~> req[w].pc = "idle" \/ Ended

\* Closing the pool waits for whoever holds a connection, without a deadline,
\* and yet the process ends once it was told to, whatever was being served.
StopsWhenTold == main # "serving" ~> Ended

\* A client that is refused and asks on gets in again, however often it asks.
RefusedGetsIn ==
    \A i \in Ips : answer[i] = "refused" ~> answer[i] = "passed" \/ main # "serving"
=============================================================================
