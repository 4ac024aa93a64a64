---------------------------- MODULE ServerProofs ----------------------------
(***************************************************************************)
(* The safety properties of the way through the server, proved for every   *)
(* number of addresses, workers and connections, every rate and every      *)
(* timeout.                                                                *)
(*                                                                         *)
(* Connections: each has one holder, and a request holds what its phase    *)
(* says.  Shutdown: the pool closes after the last answer or after the     *)
(* job's context is cancelled.  Limiter: the whole tokens of a bucket and  *)
(* the age of its last refill are never worth more than what an exact      *)
(* token bucket would hold, and a bucket in the map is never full.         *)
(***************************************************************************)
EXTENDS ServerProperties, FiniteSetTheorems, TLAPS

\* What a request holds, without counting.
Held(r) ==
    /\ r.pc \in {"idle", "acquire", "begin"} => r.conns = {}
    /\ r.pc \in {"reading", "tx", "acquire_inner", "commit"} => \E c \in Conns : r.conns = {c}
    /\ r.pc = "reading_inner" => \E c, d \in Conns : c # d /\ r.conns = {c, d}

JobHeld ==
    /\ job.pc # "running" => job.conns = {}
    /\ job.pc = "running" => \E c \in Conns : job.conns = {c}

\* Connection c has one holder.
Exclusive(c) ==
    /\ c \in free \/ c \in job.conns \/ \E w \in Workers : c \in req[w].conns
    /\ c \in free => c \notin job.conns
    /\ \A w \in Workers :
           c \in req[w].conns =>
               /\ c \notin free /\ c \notin job.conns
               /\ \A v \in Workers : v # w => c \notin req[v].conns

HoldersInv ==
    /\ \A w \in Workers : Held(req[w])
    /\ JobHeld
    /\ \A c \in Conns : Exclusive(c)

AllIdle == \A w \in Workers : req[w].pc = "idle"

StopInv ==
    /\ main \in {"serving", "draining"} => pool = "open" /\ ~cancelled
    /\ main \in {"closing", "returning"} => AllIdle
    /\ main = "abandoning" /\ pool # "open" => cancelled
    /\ pool # "open" /\ ~cancelled => AllIdle

\* A bucket in the map has given a token since it was last full.
Worth(i) ==
    LET b == bucket[i] IN
    /\ credit[i] <= Full
    /\ ~b.known => credit[i] = Full
    /\ b.known =>
           /\ b.tokens < Rps
           /\ AtMost(b.tokens * Second + b.sinceRefill, Full) <= credit[i]
           /\ AtMost(b.sinceSeen, Full) <= credit[i]

LimiterInv == \A i \in Ips : Worth(i)

-----------------------------------------------------------------------------
LEMMA Constants ==
    /\ Rps \in Nat /\ Rps > 0 /\ Second \in Nat /\ Second > 0 /\ IdleLimit \in Nat
    /\ MaxGuards \in Nat /\ Timeout \in Nat /\ Grace \in Nat
    /\ Full \in Nat /\ Full <= IdleLimit
<1>1. \A a, b \in Nat : a * b \in Nat
  OBVIOUS
<1> QED
  BY <1>1, LimiterConstantsOK, PoolConstantsOK, ShutdownConstantsOK DEF Full

LEMMA IdleRequest == Idle \in Request /\ Idle.pc = "idle" /\ Idle.conns = {} /\ Held(Idle)
  BY DEF Idle, Request, Phases, NoDeadline, Held

LEMMA ArmedType == ASSUME NEW g PROVE Armed(g) \in Nat \cup {NoDeadline}
  BY Constants DEF Armed

(***************************************************************************)
(* How connections move.                                                   *)
(***************************************************************************)
\* Worker w takes T and gives S back.
WorkerMoves(w, r, T, S) ==
    /\ req' = [req EXCEPT ![w] = r]
    /\ free' = (free \ T) \cup S
    /\ r.conns = (req[w].conns \cup T) \ S
    /\ UNCHANGED job

LEMMA WorkerMovesInv ==
    ASSUME TypeOK, HoldersInv, NEW w \in Workers, NEW r \in Request, Held(r),
           NEW T \in SUBSET free, NEW S \in SUBSET req[w].conns, WorkerMoves(w, r, T, S)
    PROVE  HoldersInv' /\ req' \in [Workers -> Request] /\ free' \in SUBSET Conns
<1>1. req \in [Workers -> Request] /\ free \in SUBSET Conns
  BY DEF TypeOK, PoolTypeOK
<1>2. /\ req'[w] = r
      /\ \A v \in Workers : v # w => req'[v] = req[v]
      /\ req' \in [Workers -> Request]
  BY <1>1 DEF WorkerMoves
<1>3. ASSUME NEW v \in Workers PROVE Held(req[v])'
  <2>1. CASE v = w
    BY <1>2, <2>1 DEF Held
  <2>2. CASE v # w
    BY <1>2, <2>2 DEF Held, HoldersInv
  <2> QED
    BY <2>1, <2>2
<1>4. JobHeld'
  BY DEF WorkerMoves, HoldersInv, JobHeld
<1>5. ASSUME NEW c \in Conns PROVE Exclusive(c)'
  <2>1. Exclusive(c)
    BY DEF HoldersInv
  <2>2. c \in T => c \notin S
    BY <2>1 DEF Exclusive
  <2>3. /\ c \in free' <=> (c \in free /\ c \notin T) \/ c \in S
        /\ c \in req'[w].conns <=> (c \in req[w].conns \/ c \in T) /\ c \notin S
        /\ job' = job
    BY <1>2 DEF WorkerMoves
  <2>4. c \in T => c \in free
    OBVIOUS
  <2>5. c \in S => c \in req[w].conns
    OBVIOUS
  <2>6. c \in free' \/ c \in job'.conns \/ \E v \in Workers : c \in req'[v].conns
    BY <1>2, <2>1, <2>3 DEF Exclusive
  <2>7. c \in free' => c \notin job'.conns
    BY <2>1, <2>3, <2>5 DEF Exclusive
  <2>8. ASSUME NEW v \in Workers, c \in req'[v].conns
        PROVE  /\ c \notin free' /\ c \notin job'.conns
               /\ \A u \in Workers : u # v => c \notin req'[u].conns
    <3>1. CASE v = w
      BY <1>2, <2>1, <2>2, <2>3, <2>4, <2>8, <3>1 DEF Exclusive
    <3>2. CASE v # w
      BY <1>2, <2>1, <2>2, <2>3, <2>4, <2>5, <2>8, <3>2 DEF Exclusive
    <3> QED
      BY <3>1, <3>2
  <2> QED
    BY <2>6, <2>7, <2>8 DEF Exclusive
<1>6. free' \in SUBSET Conns
  BY <1>1 DEF WorkerMoves, Request
<1>7. (\A v \in Workers : Held(req[v]))' /\ (\A c \in Conns : Exclusive(c))'
  BY <1>3, <1>5
<1> QED
  BY <1>2, <1>4, <1>6, <1>7 DEF HoldersInv

\* What a step of a worker does to the holders.
Moved == HoldersInv' /\ req' \in [Workers -> Request] /\ free' \in SUBSET Conns

\* A request takes a free connection and goes on to phase pc.
LEMMA TakeMoves ==
    ASSUME TypeOK, HoldersInv, UNCHANGED job, NEW w \in Workers, NEW pc \in Phases, Take(w, pc),
           \/ req[w].pc \in {"acquire", "begin"} /\ pc \in {"reading", "tx"}
           \/ req[w].pc = "acquire_inner" /\ pc = "reading_inner"
    PROVE  Moved
<1>1. PICK q \in Request : q = req[w] /\ Held(q)
  BY DEF TypeOK, PoolTypeOK, HoldersInv
<1>2. PICK c \in free :
          free' = free \ {c} /\ req' = [req EXCEPT ![w].pc = pc, ![w].conns = @ \cup {c}]
  BY DEF Take
<1>3. c \in Conns /\ c \notin q.conns
  BY <1>1 DEF TypeOK, PoolTypeOK, HoldersInv, Exclusive
<1> DEFINE r == [q EXCEPT !.pc = pc, !.conns = q.conns \cup {c}]
<1>4. r \in Request /\ r.pc = pc /\ r.conns = q.conns \cup {c}
  BY <1>1, <1>3 DEF Request
<1>5. req' = [req EXCEPT ![w] = r]
  BY <1>1, <1>2 DEF TypeOK, PoolTypeOK
<1> HIDE DEF r
<1>6. Held(r)
  <2>1. CASE q.pc \in {"acquire", "begin"} /\ pc \in {"reading", "tx"}
    BY <1>1, <1>3, <1>4, <2>1 DEF Held
  <2>2. CASE q.pc = "acquire_inner" /\ pc = "reading_inner"
    <3>1. PICK d \in Conns : q.conns = {d}
      BY <1>1, <2>2 DEF Held
    <3>2. r.conns = {d, c} /\ d # c
      BY <1>3, <1>4, <3>1
    <3> QED
      BY <1>3, <1>4, <2>2, <3>2 DEF Held
  <2> QED
    BY <1>1, <2>1, <2>2
<1>7. WorkerMoves(w, r, {c}, {})
  BY <1>1, <1>2, <1>4, <1>5 DEF WorkerMoves
<1> QED
  BY <1>4, <1>6, <1>7, WorkerMovesInv DEF Moved

\* A request gives one of its connections back.
LEMMA GiveBackMoves ==
    ASSUME TypeOK, HoldersInv, UNCHANGED job, NEW w \in Workers, NEW r0 \in Request,
           r0.conns = req[w].conns, GiveBack(w, r0),
           \/ req[w].pc = "reading" /\ r0.pc \in {"acquire", "begin"}
           \/ req[w].pc = "reading_inner" /\ r0.pc = "commit"
    PROVE  Moved
<1>1. PICK q \in Request : q = req[w] /\ Held(q)
  BY DEF TypeOK, PoolTypeOK, HoldersInv
<1>2. PICK c \in q.conns :
          free' = free \cup {c} /\ req' = [req EXCEPT ![w] = [r0 EXCEPT !.conns = @ \ {c}]]
  BY <1>1 DEF GiveBack
<1> DEFINE r == [r0 EXCEPT !.conns = r0.conns \ {c}]
<1>3. r \in Request /\ r.pc = r0.pc /\ r.conns = q.conns \ {c}
  BY <1>1 DEF Request
<1>4. req' = [req EXCEPT ![w] = r]
  BY <1>2
<1> HIDE DEF r
<1>5. Held(r)
  <2>1. CASE q.pc = "reading" /\ r0.pc \in {"acquire", "begin"}
    <3>1. PICK d \in Conns : q.conns = {d}
      BY <1>1, <2>1 DEF Held
    <3>2. r.conns = {}
      BY <1>3, <3>1
    <3> QED
      BY <1>3, <2>1, <3>2 DEF Held
  <2>2. CASE q.pc = "reading_inner" /\ r0.pc = "commit"
    <3>1. PICK d, e \in Conns : d # e /\ q.conns = {d, e}
      BY <1>1, <2>2 DEF Held
    <3>2. r.conns = {d} \/ r.conns = {e}
      BY <1>3, <3>1
    <3> QED
      BY <1>3, <2>2, <3>2 DEF Held
  <2> QED
    BY <1>1, <2>1, <2>2
<1>6. WorkerMoves(w, r, {}, {c})
  BY <1>1, <1>2, <1>3, <1>4 DEF WorkerMoves
<1>7. {c} \in SUBSET req[w].conns
  BY <1>1
<1> QED
  BY <1>3, <1>5, <1>6, <1>7, WorkerMovesInv DEF Moved

\* A request ends and gives everything back.
LEMMA ReturnMoves ==
    ASSUME TypeOK, HoldersInv, UNCHANGED job, NEW w \in Workers, Return(w)
    PROVE  Moved
<1>1. WorkerMoves(w, Idle, {}, req[w].conns)
  BY IdleRequest DEF WorkerMoves, Return
<1> QED
  BY <1>1, IdleRequest, WorkerMovesInv DEF Moved

\* A request goes on and holds what it held.
LEMMA PhaseMoves ==
    ASSUME TypeOK, HoldersInv, UNCHANGED <<free, job>>, NEW w \in Workers, NEW r \in Request,
           req' = [req EXCEPT ![w] = r], r.conns = req[w].conns, Held(r)
    PROVE  Moved
<1>1. WorkerMoves(w, r, {}, {})
  BY DEF WorkerMoves
<1> QED
  BY <1>1, WorkerMovesInv DEF Moved

LEMMA ServeMoves ==
    ASSUME TypeOK, HoldersInv, UNCHANGED job, NEW w \in Workers, NEW g \in 0 .. MaxGuards,
           Serve(w, g)
    PROVE  Moved
<1>0. g \in Nat
  BY Constants
<1>1. PICK l \in Nat \cup {NoDeadline} : l = Armed(g)
  BY ArmedType
<1> DEFINE r == [Idle EXCEPT !.pc = "acquire", !.guards = g, !.left = l]
<1>2. r \in Request /\ r.pc = "acquire" /\ r.conns = {}
  BY <1>0 DEF Idle, Request, Phases
<1>3. req' = [req EXCEPT ![w] = r] /\ UNCHANGED free
  BY <1>1 DEF Serve
<1> HIDE DEF r
<1>4. req[w].conns = {}
  BY DEF HoldersInv, Held, Serve
<1> QED
  BY <1>2, <1>3, <1>4, PhaseMoves DEF Held

LEMMA StepMoves ==
    ASSUME TypeOK, HoldersInv, UNCHANGED job, NEW w \in Workers, Step(w)
    PROVE  Moved
<1>1. PICK q \in Request : q = req[w]
  BY DEF TypeOK, PoolTypeOK
<1>2. CASE AcquireConn(w)
  BY <1>2, TakeMoves DEF AcquireConn, At, Phases
<1>3. CASE ReadDone(w)
  <2>1. CASE GuardPassed(w)
    <3>1. PICK n \in Nat : n = q.guards - 1
      BY <1>1, <2>1 DEF GuardPassed, Request
    <3>2. PICK l \in Nat \cup {NoDeadline} : l = Armed(n)
      BY ArmedType
    <3> DEFINE r == [q EXCEPT !.pc = "acquire", !.guards = n, !.left = l]
    <3>3. r \in Request /\ r.pc = "acquire" /\ r.conns = q.conns
      BY <1>1 DEF Request, Phases
    <3>4. GiveBack(w, r)
      BY <1>1, <2>1, <3>1, <3>2 DEF GuardPassed
    <3> HIDE DEF r
    <3> QED
      BY <1>1, <1>3, <3>3, <3>4, GiveBackMoves DEF ReadDone, At
  <2>2. CASE GoOn(w)
    <3>1. PICK pc \in {"acquire", "begin"} : GiveBack(w, [req[w] EXCEPT !.pc = pc])
      BY <2>2 DEF GoOn
    <3> DEFINE r == [q EXCEPT !.pc = pc]
    <3>2. r \in Request /\ r.pc = pc /\ r.conns = q.conns
      BY <1>1 DEF Request, Phases
    <3>3. GiveBack(w, r)
      BY <1>1, <3>1
    <3> HIDE DEF r
    <3> QED
      BY <1>1, <1>3, <3>2, <3>3, GiveBackMoves DEF ReadDone, At
  <2>3. CASE Return(w)
    BY <2>3, ReturnMoves
  <2> QED
    BY <1>3, <2>1, <2>2, <2>3 DEF ReadDone
<1>4. CASE BeginTx(w)
  BY <1>4, TakeMoves DEF BeginTx, At, Phases
<1>5. CASE CallFn(w)
  <2>0. PICK pc \in {"acquire_inner", "commit"} : req' = [req EXCEPT ![w].pc = pc]
    BY <1>5 DEF CallFn
  <2> DEFINE r == [q EXCEPT !.pc = pc]
  <2>1. r \in Request /\ r.pc \in {"acquire_inner", "commit"} /\ r.conns = q.conns
    BY <1>1 DEF Request, Phases
  <2>2. req' = [req EXCEPT ![w] = r] /\ UNCHANGED free /\ q.pc = "tx"
    BY <1>1, <1>5, <2>0 DEF CallFn, At, TypeOK, PoolTypeOK
  <2> HIDE DEF r
  <2>3. Held(r)
    BY <1>1, <2>1, <2>2 DEF HoldersInv, Held
  <2> QED
    BY <1>1, <2>1, <2>2, <2>3, PhaseMoves
<1>6. CASE AcquireInner(w)
  BY <1>6, TakeMoves DEF AcquireInner, At, Phases
<1>7. CASE InnerDone(w)
  <2> DEFINE r == [q EXCEPT !.pc = "commit"]
  <2>1. r \in Request /\ r.pc = "commit" /\ r.conns = q.conns
    BY <1>1 DEF Request, Phases
  <2>2. GiveBack(w, r) /\ q.pc = "reading_inner"
    BY <1>1, <1>7 DEF InnerDone, At
  <2> HIDE DEF r
  <2> QED
    BY <1>1, <2>1, <2>2, GiveBackMoves
<1>8. CASE CommitTx(w)
  BY <1>8, ReturnMoves DEF CommitTx
<1> QED
  BY <1>2, <1>3, <1>4, <1>5, <1>6, <1>7, <1>8 DEF Step

(***************************************************************************)
(* The job and the clock.                                                  *)
(***************************************************************************)
JobMoves(T, S) ==
    /\ free' = (free \ T) \cup S
    /\ job'.conns = (job.conns \cup T) \ S
    /\ UNCHANGED req

LEMMA JobMovesInv ==
    ASSUME TypeOK, HoldersInv, JobHeld', NEW T \in SUBSET free, NEW S \in SUBSET job.conns,
           JobMoves(T, S)
    PROVE  HoldersInv' /\ free' \in SUBSET Conns
<1>1. free \in SUBSET Conns /\ job.conns \in SUBSET Conns
  BY DEF TypeOK, PoolTypeOK, ShutdownTypeOK
<1>2. ASSUME NEW c \in Conns PROVE Exclusive(c)'
  <2>1. Exclusive(c)
    BY DEF HoldersInv
  <2>2. /\ c \in free' <=> (c \in free /\ c \notin T) \/ c \in S
        /\ c \in job'.conns <=> (c \in job.conns \/ c \in T) /\ c \notin S
        /\ req' = req
    BY DEF JobMoves
  <2>3. (c \in T => c \in free) /\ (c \in S => c \in job.conns)
    OBVIOUS
  <2>4. c \in free' \/ c \in job'.conns \/ \E w \in Workers : c \in req'[w].conns
    BY <2>1, <2>2, <2>3 DEF Exclusive
  <2>5. c \in free' => c \notin job'.conns
    BY <2>1, <2>2, <2>3 DEF Exclusive
  <2>6. ASSUME NEW w \in Workers, c \in req'[w].conns
        PROVE  /\ c \notin free' /\ c \notin job'.conns
               /\ \A v \in Workers : v # w => c \notin req'[v].conns
    BY <2>1, <2>2, <2>3, <2>6 DEF Exclusive
  <2> QED
    BY <2>4, <2>5, <2>6 DEF Exclusive
<1>3. (\A w \in Workers : Held(req[w]))'
  BY DEF HoldersInv, JobMoves, Held
<1>4. free' \in SUBSET Conns
  BY <1>1 DEF JobMoves
<1> QED
  BY <1>2, <1>3, <1>4 DEF HoldersInv

LEMMA JobMovesOn ==
    ASSUME TypeOK, HoldersInv, JobStops \/ JobRuns \/ JobAcquires \/ JobEnds
    PROVE  HoldersInv' /\ PoolTypeOK' /\ job' \in [pc : JobPhases, conns : SUBSET Conns]
<1>1. /\ pool \in {"open", "closing", "gone"} /\ free \in SUBSET Conns
      /\ req \in [Workers -> Request]
      /\ job \in [pc : JobPhases, conns : SUBSET Conns]
      /\ JobHeld
  BY DEF TypeOK, PoolTypeOK, ShutdownTypeOK, HoldersInv
<1>2. CASE JobStops
  <2>1. UNCHANGED <<pool, free, req>> /\ job.pc = "asleep"
        /\ job' \in [pc : JobPhases, conns : SUBSET Conns]
        /\ job'.pc = "stopped" /\ job'.conns = job.conns
    BY <1>1, <1>2 DEF JobStops, poolVars, JobPhases
  <2>2. JobHeld' /\ JobMoves({}, {})
    BY <1>1, <2>1 DEF JobHeld, JobMoves
  <2> QED
    BY <1>1, <2>1, <2>2, JobMovesInv DEF PoolTypeOK
<1>3. CASE JobRuns
  <2>1. UNCHANGED <<pool, free, req>> /\ job.pc = "asleep"
        /\ job' \in [pc : JobPhases, conns : SUBSET Conns]
        /\ job'.pc # "running" /\ job'.conns = job.conns
    BY <1>1, <1>3 DEF JobRuns, poolVars, JobPhases
  <2>2. JobHeld' /\ JobMoves({}, {})
    BY <1>1, <2>1 DEF JobHeld, JobMoves
  <2> QED
    BY <1>1, <2>1, <2>2, JobMovesInv DEF PoolTypeOK
<1>4. CASE JobAcquires
  <2>1. PICK c \in free : free' = free \ {c} /\ job' = [pc |-> "running", conns |-> {c}]
    BY <1>4 DEF JobAcquires
  <2>2. c \in Conns /\ job.conns = {} /\ UNCHANGED <<pool, req>>
    BY <1>1, <1>4 DEF JobAcquires, JobHeld
  <2>3. JobHeld' /\ JobMoves({c}, {})
    BY <2>1, <2>2 DEF JobHeld, JobMoves
  <2>4. job' \in [pc : JobPhases, conns : SUBSET Conns]
    BY <2>1, <2>2 DEF JobPhases
  <2> QED
    BY <1>1, <2>2, <2>3, <2>4, JobMovesInv DEF PoolTypeOK
<1>5. CASE JobEnds
  <2>1. /\ free' = free \cup job.conns /\ job' = [pc |-> "asleep", conns |-> {}]
        /\ UNCHANGED <<pool, req>>
    BY <1>5 DEF JobEnds
  <2>2. JobHeld' /\ JobMoves({}, job.conns)
    BY <2>1 DEF JobHeld, JobMoves
  <2>3. job' \in [pc : JobPhases, conns : SUBSET Conns]
    BY <2>1 DEF JobPhases
  <2> QED
    BY <1>1, <2>1, <2>2, <2>3, JobMovesInv DEF PoolTypeOK
<1> QED
  BY <1>2, <1>3, <1>4, <1>5

LEMMA CountDownMoves ==
    ASSUME TypeOK, HoldersInv, CountDown, UNCHANGED job PROVE HoldersInv' /\ PoolTypeOK'
<1>1. /\ pool \in {"open", "closing", "gone"} /\ free \in SUBSET Conns
      /\ req \in [Workers -> Request]
  BY DEF TypeOK, PoolTypeOK
<1>2. ASSUME NEW w \in Workers
      PROVE  req'[w] \in Request /\ req'[w].pc = req[w].pc /\ req'[w].conns = req[w].conns
  <2>1. PICK q \in Request : q = req[w]
    BY <1>1
  <2>2. req'[w] = IF q.left > 0 THEN [q EXCEPT !.left = q.left - 1] ELSE q
    BY <2>1 DEF CountDown
  <2>3. CASE q.left > 0
    <3>1. PICK n \in Nat : n = q.left - 1
      BY <2>1, <2>3 DEF Request, NoDeadline
    <3>2. req'[w] = [q EXCEPT !.left = n]
      BY <2>2, <2>3, <3>1
    <3> QED
      BY <2>1, <3>2 DEF Request
  <2>4. CASE ~(q.left > 0)
    BY <2>1, <2>2, <2>4
  <2> QED
    BY <2>3, <2>4
<1>3. req' \in [Workers -> Request] /\ UNCHANGED <<pool, free>>
  BY <1>2 DEF CountDown
<1>4. (\A w \in Workers : Held(req[w]))'
  BY <1>2 DEF Held, HoldersInv
<1>5. ASSUME NEW c \in Conns PROVE Exclusive(c)'
  <2>1. Exclusive(c) /\ free' = free /\ job' = job
    BY <1>3 DEF HoldersInv
  <2>2. \A w \in Workers : req'[w].conns = req[w].conns
    BY <1>2
  <2> QED
    BY <2>1, <2>2 DEF Exclusive
<1>6. JobHeld'
  BY DEF HoldersInv, JobHeld
<1> QED
  BY <1>1, <1>3, <1>4, <1>5, <1>6 DEF HoldersInv, PoolTypeOK

LEMMA HoldersStand ==
    ASSUME TypeOK, HoldersInv, UNCHANGED <<free, req, job>> PROVE HoldersInv'
  BY DEF HoldersInv, JobHeld, Held, Exclusive

-----------------------------------------------------------------------------
(***************************************************************************)
(* What a bucket is worth.                                                 *)
(***************************************************************************)
LEMMA WholeSeconds ==
    ASSUME NEW a \in Nat
    PROVE  /\ a \div Second \in Nat
           /\ (a \div Second) * Second <= a /\ a < (a \div Second) * Second + Second
<1>1. ASSUME NEW s \in Nat \ {0}
      PROVE  a \div s \in Nat /\ (a \div s) * s <= a /\ a < (a \div s) * s + s
  OBVIOUS
<1> QED
  BY <1>1, Constants

LEMMA Products ==
    ASSUME NEW a \in Nat, NEW b \in Nat
    PROVE  /\ a * Second \in Nat
           /\ (a + b) * Second = a * Second + b * Second
           /\ a <= b => a * Second <= b * Second
           /\ a > 0 => (a - 1) * Second = a * Second - Second
<1>1. ASSUME NEW s \in Nat
      PROVE  /\ a * s \in Nat /\ (a + b) * s = a * s + b * s
             /\ a <= b => a * s <= b * s
             /\ a > 0 => (a - 1) * s = a * s - s
  OBVIOUS
<1> QED
  BY <1>1, Constants

\* The tokens after a refill are paid for: a bucket that was not full has lost
\* nothing but fractions.
LEMMA Earned ==
    ASSUME NEW t \in Nat, NEW a \in Nat, NEW c \in Nat, t < Rps,
           AtMost(t * Second + a, Full) <= c,
           NEW k \in Nat, k = a \div Second, NEW u \in Nat, NEW f \in Nat,
           IF k > 0 THEN u = AtMost(t + k, Rps) /\ f = 0 ELSE u = t /\ f = a
    PROVE  u <= Rps /\ u * Second + f <= c
<1> DEFINE x == t * Second
           y == k * Second
           z == u * Second
<1>1. x \in Nat /\ y \in Nat /\ z \in Nat /\ Full \in Nat /\ Second \in Nat /\ Rps \in Nat
  BY Products, Constants
<1>2. y <= a /\ a < y + Second
  BY WholeSeconds
<1>3. u <= Rps
  BY Constants DEF AtMost
<1>4. CASE k > 0
  <2>1. z <= Full
    BY <1>3, Products, Constants DEF Full
  <2>2. z <= x + y
    <3>1. u <= t + k /\ t + k \in Nat
      BY <1>4, Constants DEF AtMost
    <3>2. z <= (t + k) * Second
      BY <3>1, Products
    <3> QED
      BY <3>2, Products
  <2> HIDE DEF x, y, z
  <2>3. AtMost(x + a, Full) <= c
    BY DEF x
  <2>4. z <= c
    BY <1>1, <1>2, <2>1, <2>2, <2>3 DEF AtMost
  <2> QED
    BY <1>1, <1>3, <1>4, <2>4 DEF z
<1>5. CASE k = 0
  <2>1. y = 0
    BY <1>5, Constants
  <2>2. x + Second <= Full
    <3>1. (t + 1) * Second <= Rps * Second /\ (t + 1) * Second = x + 1 * Second
      <4>1. t + 1 \in Nat /\ 1 \in Nat /\ t + 1 <= Rps
        BY Constants
      <4> QED
        BY <4>1, Products, Constants
    <3>2. 1 * Second = Second
      BY Constants
    <3> QED
      BY <3>1, <3>2 DEF Full
  <2>3. AtMost(x + a, Full) <= c
    OBVIOUS
  <2>4. u = t /\ f = a
    BY <1>5
  <2> HIDE DEF x, y, z
  <2>5. x + a <= c
    BY <1>1, <1>2, <2>1, <2>2, <2>3 DEF AtMost
  <2> QED
    BY <1>3, <2>4, <2>5 DEF x
<1> QED
  BY <1>4, <1>5

\* What a request finds in the bucket of its address.
LEMMA Found ==
    ASSUME LimiterTypeOK, LimiterInv, NEW i \in Ips
    PROVE  \E b \in Limiter :
               /\ b = Refilled(bucket[i]) /\ b.known /\ b.sinceSeen = 0
               /\ b.tokens <= Rps /\ b.tokens * Second + b.sinceRefill <= credit[i]
<1>1. PICK o \in Limiter, c \in Nat : o = bucket[i] /\ c = credit[i]
  BY DEF LimiterTypeOK
<1>2. Worth(i)
  BY DEF LimiterInv
<1>3. CASE ~o.known
  <2>1. NewRateLimiter \in Limiter
    BY Constants DEF NewRateLimiter, Limiter
  <2>2. Refilled(o) = NewRateLimiter
    BY <1>3 DEF Refilled
  <2>3. c = Full
    BY <1>1, <1>2, <1>3 DEF Worth
  <2>4. /\ NewRateLimiter.known /\ NewRateLimiter.sinceSeen = 0
        /\ NewRateLimiter.tokens = Rps /\ NewRateLimiter.sinceRefill = 0
    BY DEF NewRateLimiter
  <2>5. Rps * Second + 0 <= c
    BY <2>3, Constants DEF Full
  <2> QED
    BY <1>1, <2>1, <2>2, <2>4, <2>5, Constants
<1>4. CASE o.known
  <2>1. PICK t \in Nat, a \in Nat : t = o.tokens /\ a = o.sinceRefill
    BY DEF Limiter
  <2>2. PICK k \in Nat : k = a \div Second
    BY WholeSeconds
  <2>3. PICK u \in Nat, f \in Nat :
            IF k > 0 THEN u = AtMost(t + k, Rps) /\ f = 0 ELSE u = t /\ f = a
    <3>1. AtMost(t + k, Rps) \in Nat
      BY Constants DEF AtMost
    <3> QED
      BY <3>1
  <2>4. t < Rps /\ AtMost(t * Second + a, Full) <= c
    BY <1>1, <1>2, <1>4, <2>1 DEF Worth
  <2>5. u <= Rps /\ u * Second + f <= c
    BY <2>2, <2>3, <2>4, Earned
  <2>6. Refilled(o) = [o EXCEPT !.tokens = u, !.sinceRefill = f, !.sinceSeen = 0]
    BY <1>4, <2>1, <2>2, <2>3 DEF Refilled
  <2> DEFINE n == [o EXCEPT !.tokens = u, !.sinceRefill = f, !.sinceSeen = 0]
  <2>7. /\ n \in Limiter /\ n = Refilled(o) /\ n.known /\ n.sinceSeen = 0
        /\ n.tokens = u /\ n.sinceRefill = f
    BY <1>4, <2>6 DEF Limiter
  <2> HIDE DEF n
  <2> QED
    BY <1>1, <2>5, <2>7
<1> QED
  BY <1>3, <1>4

LEMMA PassWorth ==
    ASSUME LimiterTypeOK, LimiterInv, NEW i \in Ips, Pass(i)
    PROVE  LimiterTypeOK' /\ LimiterInv' /\ credit[i] >= Second
<1>1. PICK b \in Limiter :
          /\ b = Refilled(bucket[i]) /\ b.known /\ b.sinceSeen = 0
          /\ b.tokens <= Rps /\ b.tokens * Second + b.sinceRefill <= credit[i]
  BY Found
<1>2. PICK u \in Nat, f \in Nat, c \in Nat : u = b.tokens /\ f = b.sinceRefill /\ c = credit[i]
  BY DEF LimiterTypeOK, Limiter
<1>3. u > 0
  BY <1>1, <1>2 DEF Pass
<1>4. PICK t \in Nat : t = u - 1
  BY <1>3
<1>5. u * Second \in Nat /\ t * Second \in Nat /\ t * Second = u * Second - Second
  BY <1>3, <1>4, Products
<1>6. u * Second + f <= c
  BY <1>1, <1>2
<1>7. PICK d \in Nat : d = c - Second /\ t * Second + f <= d /\ Second <= c
  BY <1>5, <1>6, Constants
<1>8. c <= Full
  BY <1>2 DEF LimiterInv, Worth
<1> DEFINE n == [b EXCEPT !.tokens = t]
<1>9. n \in Limiter /\ n.known /\ n.tokens = t /\ n.sinceRefill = f /\ n.sinceSeen = 0
  BY <1>1, <1>2 DEF Limiter
<1>10. bucket' = [bucket EXCEPT ![i] = n] /\ credit' = [credit EXCEPT ![i] = d]
       /\ answer' = [answer EXCEPT ![i] = "passed"]
  BY <1>1, <1>2, <1>4, <1>7 DEF Pass, LimiterTypeOK
<1> HIDE DEF n
<1>11. LimiterTypeOK'
  BY <1>9, <1>10 DEF LimiterTypeOK
<1>12. Worth(i)'
  <2>1. bucket'[i] = n /\ credit'[i] = d
    BY <1>10 DEF LimiterTypeOK
  <2>2. t < Rps /\ d <= Full
    BY <1>1, <1>2, <1>4, <1>7, <1>8, Constants
  <2>3. AtMost(t * Second + f, Full) <= d /\ AtMost(0, Full) <= d
    BY <1>5, <1>7, Constants DEF AtMost
  <2> QED
    BY <1>9, <2>1, <2>2, <2>3 DEF Worth
<1>13. ASSUME NEW j \in Ips, j # i PROVE Worth(j)'
  <2>1. bucket'[j] = bucket[j] /\ credit'[j] = credit[j]
    BY <1>10, <1>13 DEF LimiterTypeOK
  <2> QED
    BY <2>1 DEF LimiterInv, Worth
<1> QED
  BY <1>2, <1>7, <1>11, <1>12, <1>13 DEF LimiterInv

LEMMA RefuseWorth ==
    ASSUME LimiterTypeOK, LimiterInv, NEW i \in Ips, Refuse(i)
    PROVE  LimiterTypeOK' /\ LimiterInv'
<1>1. PICK b \in Limiter :
          /\ b = Refilled(bucket[i]) /\ b.known /\ b.sinceSeen = 0
          /\ b.tokens <= Rps /\ b.tokens * Second + b.sinceRefill <= credit[i]
  BY Found
<1>2. PICK f \in Nat, c \in Nat : f = b.sinceRefill /\ c = credit[i]
  BY DEF LimiterTypeOK, Limiter
<1>3. b.tokens = 0 /\ bucket' = [bucket EXCEPT ![i] = b] /\ UNCHANGED credit
      /\ answer' = [answer EXCEPT ![i] = "refused"]
  BY <1>1 DEF Refuse
<1>4. 0 * Second + f <= c
  BY <1>1, <1>2, <1>3
<1>5. LimiterTypeOK'
  BY <1>3 DEF LimiterTypeOK
<1>6. Worth(i)'
  <2>1. bucket'[i] = b /\ credit'[i] = c
    BY <1>2, <1>3 DEF LimiterTypeOK
  <2>2. 0 * Second \in Nat
    BY Products
  <2>3. AtMost(0 * Second + f, Full) <= c /\ AtMost(0, Full) <= c
    BY <1>4, <2>2, Constants DEF AtMost
  <2>4. c <= Full /\ 0 < Rps
    BY <1>2, Constants DEF LimiterInv, Worth
  <2> QED
    BY <1>1, <1>2, <1>3, <2>1, <2>3, <2>4 DEF Worth
<1>7. ASSUME NEW j \in Ips, j # i PROVE Worth(j)'
  <2>1. bucket'[j] = bucket[j] /\ credit'[j] = credit[j]
    BY <1>3, <1>7 DEF LimiterTypeOK
  <2> QED
    BY <2>1 DEF LimiterInv, Worth
<1> QED
  BY <1>5, <1>6, <1>7 DEF LimiterInv

\* A bucket that is dropped is full.
LEMMA CleanupWorth ==
    ASSUME LimiterTypeOK, LimiterInv, CleanupVisitors
    PROVE  LimiterTypeOK' /\ LimiterInv'
<1>1. bucket \in [Ips -> Limiter] /\ credit \in [Ips -> Nat] /\ Absent \in Limiter
  BY DEF LimiterTypeOK, Absent, Limiter
<1>2. ASSUME NEW i \in Ips
      PROVE  /\ bucket'[i] = IF bucket[i].sinceSeen > IdleLimit THEN Absent ELSE bucket[i]
             /\ credit'[i] = credit[i]
  BY DEF CleanupVisitors
<1>3. LimiterTypeOK'
  <2>1. ASSUME NEW i \in Ips PROVE bucket'[i] \in Limiter
    BY <1>1, <1>2
  <2>2. bucket' = [i \in Ips |-> bucket'[i]] /\ UNCHANGED <<answer, credit>>
    BY DEF CleanupVisitors
  <2> QED
    BY <2>1, <2>2 DEF LimiterTypeOK
<1>4. ASSUME NEW i \in Ips PROVE Worth(i)'
  <2>1. Worth(i)
    BY DEF LimiterInv
  <2>2. CASE bucket[i].sinceSeen > IdleLimit
    <3>1. PICK s \in Nat, c \in Nat : s = bucket[i].sinceSeen /\ c = credit[i]
      BY <1>1 DEF Limiter
    <3>2. AtMost(s, Full) <= c \/ c = Full
      BY <2>1, <3>1 DEF Worth
    <3>3. c <= Full /\ s > IdleLimit
      BY <2>1, <2>2, <3>1 DEF Worth
    <3>4. c = Full
      BY <3>2, <3>3, Constants DEF AtMost
    <3>5. bucket'[i] = Absent /\ credit'[i] = Full /\ ~Absent.known
      BY <1>2, <2>2, <3>1, <3>4 DEF Absent
    <3> QED
      BY <3>5, Constants DEF Worth
  <2>3. CASE ~(bucket[i].sinceSeen > IdleLimit)
    <3>1. bucket'[i] = bucket[i] /\ credit'[i] = credit[i]
      BY <1>2, <2>3
    <3> QED
      BY <2>1, <3>1 DEF Worth
  <2> QED
    BY <2>2, <2>3
<1> QED
  BY <1>3, <1>4 DEF LimiterInv

\* A tick is worth the same to a bucket and to an exact one.
LEMMA AgeWorth ==
    ASSUME LimiterTypeOK, LimiterInv, Age
    PROVE  LimiterTypeOK' /\ LimiterInv'
<1>1. bucket \in [Ips -> Limiter] /\ credit \in [Ips -> Nat]
  BY DEF LimiterTypeOK
<1>2. ASSUME NEW i \in Ips
      PROVE  bucket'[i] \in Limiter /\ credit'[i] \in Nat /\ Worth(i)'
  <2>1. Worth(i)
    BY DEF LimiterInv
  <2>2. PICK o \in Limiter, c \in Nat : o = bucket[i] /\ c = credit[i]
    BY <1>1
  <2>3. PICK d \in Nat : d = AtMost(c + 1, Full)
    BY Constants DEF AtMost
  <2>4. credit'[i] = d
    BY <2>2, <2>3 DEF Age
  <2>5. c <= Full /\ d <= Full
    BY <2>1, <2>2, <2>3, Constants DEF Worth, AtMost
  <2>6. CASE ~o.known
    <3>1. bucket'[i] = o /\ c = Full
      BY <2>1, <2>2, <2>6 DEF Age, Worth
    <3>2. d = Full
      BY <2>3, <3>1, Constants DEF AtMost
    <3> QED
      BY <2>4, <2>5, <2>6, <3>1, <3>2 DEF Worth
  <2>7. CASE o.known
    <3>1. PICK t \in Nat, a \in Nat, e \in Nat :
              t = o.tokens /\ a = o.sinceRefill /\ e = o.sinceSeen
      BY DEF Limiter
    <3>2. PICK b \in Nat, g \in Nat : b = AtMost(a + 1, Full) /\ g = AtMost(e + 1, IdleLimit + 1)
      BY Constants DEF AtMost
    <3>3. bucket'[i] = [o EXCEPT !.sinceRefill = b, !.sinceSeen = g]
      BY <2>2, <2>7, <3>1, <3>2 DEF Age
    <3> DEFINE n == [o EXCEPT !.sinceRefill = b, !.sinceSeen = g]
    <3>4. n \in Limiter /\ n.known /\ n.tokens = t /\ n.sinceRefill = b /\ n.sinceSeen = g
      BY <2>7, <3>1 DEF Limiter
    <3>5. bucket'[i] = n
      BY <3>3
    <3> HIDE DEF n
    <3>6. PICK x \in Nat : x = t * Second
      BY Products
    <3>7. t < Rps /\ AtMost(x + a, Full) <= c /\ AtMost(e, Full) <= c
      BY <2>1, <2>2, <2>7, <3>1, <3>6 DEF Worth
    <3>8. AtMost(x + b, Full) <= d
      BY <2>3, <2>5, <3>2, <3>7, Constants DEF AtMost
    <3>9. AtMost(g, Full) <= d
      BY <2>3, <2>5, <3>2, <3>7, Constants DEF AtMost
    <3> QED
      BY <2>4, <2>5, <3>4, <3>5, <3>6, <3>7, <3>8, <3>9 DEF Worth
  <2> QED
    BY <2>6, <2>7
<1>3. bucket' = [i \in Ips |-> bucket'[i]] /\ credit' = [i \in Ips |-> credit'[i]]
      /\ UNCHANGED answer
  BY DEF Age
<1>4. LimiterTypeOK'
  BY <1>2, <1>3 DEF LimiterTypeOK
<1> QED
  BY <1>2, <1>4 DEF LimiterInv

LEMMA LimiterStands ==
    ASSUME LimiterTypeOK, LimiterInv, UNCHANGED limiterVars
    PROVE  LimiterTypeOK' /\ LimiterInv'
  BY DEF limiterVars, LimiterTypeOK, LimiterInv, Worth

-----------------------------------------------------------------------------
(***************************************************************************)
(* The invariant.                                                          *)
(***************************************************************************)
Inv == TypeOK /\ HoldersInv /\ LimiterInv /\ StopInv

LEMMA InitInv == Init => Inv
<1> SUFFICES ASSUME Init PROVE Inv
  OBVIOUS
<1>1. LimiterTypeOK /\ LimiterInv
  BY Constants DEF Init, LimiterInit, LimiterTypeOK, LimiterInv, Worth, Absent, Limiter
<1>2. PoolTypeOK
  BY IdleRequest DEF Init, PoolInit, PoolTypeOK
<1>3. ShutdownTypeOK
  <2>1. graceLeft \in 0 .. Grace
    BY Constants DEF Init, ShutdownInit
  <2>2. job \in [pc : JobPhases, conns : SUBSET Conns]
    BY DEF Init, ShutdownInit, JobPhases
  <2> QED
    BY <2>1, <2>2 DEF Init, ShutdownInit, ShutdownTypeOK, MainPhases
<1>4. HoldersInv
  BY IdleRequest DEF Init, PoolInit, ShutdownInit, HoldersInv, JobHeld, Exclusive
<1>5. StopInv
  BY DEF Init, PoolInit, ShutdownInit, StopInv
<1> QED
  BY <1>1, <1>2, <1>3, <1>4, <1>5 DEF Inv, TypeOK

\* Types and holders, one action at a time.
LEMMA TypeAndHolders == Inv /\ [Next]_vars => (TypeOK /\ HoldersInv /\ LimiterInv)'
<1> SUFFICES ASSUME Inv, [Next]_vars PROVE (TypeOK /\ HoldersInv /\ LimiterInv)'
  OBVIOUS
<1>1. /\ TypeOK /\ HoldersInv /\ LimiterInv
      /\ LimiterTypeOK /\ PoolTypeOK /\ ShutdownTypeOK
  BY DEF Inv, TypeOK
<1>2. ASSUME Moved, UNCHANGED pool, UNCHANGED shutdownVars, LimiterTypeOK', LimiterInv'
      PROVE  (TypeOK /\ HoldersInv /\ LimiterInv)'
  <2>1. PoolTypeOK' /\ ShutdownTypeOK'
    BY <1>1, <1>2 DEF Moved, PoolTypeOK, shutdownVars, ShutdownTypeOK
  <2> QED
    BY <1>2, <2>1 DEF Moved, TypeOK
<1>3. CASE Tick
  <2>1. LimiterTypeOK' /\ LimiterInv'
    BY <1>1, <1>3, AgeWorth DEF Tick
  <2>2. HoldersInv' /\ PoolTypeOK'
    BY <1>1, <1>3, CountDownMoves DEF Tick
  <2>3. ShutdownTypeOK'
    <3>1. PICK g \in 0 .. Grace : g = graceLeft
      BY <1>1 DEF ShutdownTypeOK
    <3>2. graceLeft' \in 0 .. Grace
      BY <1>3, <3>1, Constants DEF Tick, DrainAge
    <3> QED
      BY <1>1, <1>3, <3>2 DEF Tick, ShutdownTypeOK
  <2> QED
    BY <2>1, <2>2, <2>3 DEF TypeOK
<1>4. CASE Cleanup
  <2>1. LimiterTypeOK' /\ LimiterInv'
    BY <1>1, <1>4, CleanupWorth DEF Cleanup
  <2>2. PoolTypeOK' /\ ShutdownTypeOK' /\ HoldersInv'
    BY <1>1, <1>4, HoldersStand
       DEF Cleanup, poolVars, shutdownVars, PoolTypeOK, ShutdownTypeOK
  <2> QED
    BY <2>1, <2>2 DEF TypeOK
<1>5. CASE Main
  <2>1. LimiterTypeOK' /\ LimiterInv'
    BY <1>1, <1>5, LimiterStands DEF Main
  <2>2. UNCHANGED <<free, req, job>>
    BY <1>5 DEF Main, Signal, ListenFails, Stop, Drained, DrainTimesOut, Deferred, CancelJob,
           StartClose, FinishClose, Exit, poolVars, shutdownVars
  <2>3. Grace \in 0 .. Grace
    BY Constants
  <2>4. /\ main' \in MainPhases /\ cancelled' \in BOOLEAN /\ graceLeft' \in 0 .. Grace
        /\ pool' \in {"open", "closing", "gone"}
    BY <1>1, <1>5, <2>3 DEF Main, Signal, ListenFails, Stop, Drained, DrainTimesOut, Deferred,
           CancelJob, StartClose, FinishClose, Exit, poolVars, shutdownVars, MainPhases,
           ShutdownTypeOK, PoolTypeOK
  <2>5. PoolTypeOK' /\ ShutdownTypeOK' /\ HoldersInv'
    BY <1>1, <2>2, <2>4, HoldersStand DEF PoolTypeOK, ShutdownTypeOK
  <2> QED
    BY <2>1, <2>5 DEF TypeOK
<1>6. CASE Job
  <2>1. LimiterTypeOK' /\ LimiterInv'
    BY <1>1, <1>6, LimiterStands DEF Job
  <2>2. HoldersInv' /\ PoolTypeOK' /\ job' \in [pc : JobPhases, conns : SUBSET Conns]
    BY <1>1, <1>6, JobMovesOn DEF Job
  <2>3. main' \in MainPhases /\ UNCHANGED <<graceLeft, cancelled>>
    BY <1>1, <1>6 DEF Job, JobStops, JobRuns, JobAcquires, JobEnds, ShutdownTypeOK, MainPhases
  <2>4. ShutdownTypeOK'
    BY <1>1, <2>2, <2>3 DEF ShutdownTypeOK
  <2> QED
    BY <2>1, <2>2, <2>4 DEF TypeOK
<1>7. ASSUME NEW i \in Ips, Ask(i) PROVE (TypeOK /\ HoldersInv /\ LimiterInv)'
  <2>1. CASE Admit(i)
    <3>1. LimiterTypeOK' /\ LimiterInv'
      BY <1>1, <2>1, PassWorth DEF Admit
    <3>2. PICK w \in Workers, g \in 0 .. MaxGuards : Serve(w, g)
      BY <2>1 DEF Admit
    <3>3. UNCHANGED shutdownVars /\ UNCHANGED job /\ UNCHANGED pool
      BY <1>7, <3>2 DEF Ask, shutdownVars, Serve
    <3> QED
      BY <1>1, <1>2, <3>1, <3>2, <3>3, ServeMoves
  <2>2. CASE Turn(i)
    <3>1. LimiterTypeOK' /\ LimiterInv'
      BY <1>1, <2>2, RefuseWorth DEF Turn
    <3>2. PoolTypeOK' /\ ShutdownTypeOK' /\ HoldersInv'
      BY <1>1, <1>7, <2>2, HoldersStand
         DEF Ask, Turn, poolVars, shutdownVars, PoolTypeOK, ShutdownTypeOK
    <3> QED
      BY <3>1, <3>2 DEF TypeOK
  <2> QED
    BY <1>7, <2>1, <2>2 DEF Ask
<1>8. ASSUME NEW w \in Workers, Work(w) \/ GiveUp(w) \/ Fail(w)
      PROVE  (TypeOK /\ HoldersInv /\ LimiterInv)'
  <2>1. UNCHANGED limiterVars /\ UNCHANGED shutdownVars /\ UNCHANGED job
    BY <1>8 DEF Work, GiveUp, Fail, shutdownVars
  <2>2. LimiterTypeOK' /\ LimiterInv'
    BY <1>1, <2>1, LimiterStands
  <2>3. Step(w) \/ Return(w)
    BY <1>8 DEF Work, GiveUp, Fail, Expire, Abort
  <2>4. Moved
    BY <1>1, <2>1, <2>3, StepMoves, ReturnMoves
  <2>5. UNCHANGED pool
    BY <2>3 DEF Step, AcquireConn, ReadDone, GuardPassed, GoOn, BeginTx, CallFn, AcquireInner,
           InnerDone, CommitTx, Take, GiveBack, Return
  <2> QED
    BY <1>2, <2>1, <2>2, <2>4, <2>5
<1>9. CASE UNCHANGED vars
  <2>1. UNCHANGED limiterVars /\ UNCHANGED <<pool, free, req>> /\ UNCHANGED shutdownVars
    BY <1>9 DEF vars, poolVars
  <2>2. LimiterTypeOK' /\ LimiterInv'
    BY <1>1, <2>1, LimiterStands
  <2>3. PoolTypeOK' /\ ShutdownTypeOK' /\ HoldersInv'
    BY <1>1, <2>1, HoldersStand DEF shutdownVars, PoolTypeOK, ShutdownTypeOK
  <2> QED
    BY <2>2, <2>3 DEF TypeOK
<1> QED
  BY <1>3, <1>4, <1>5, <1>6, <1>7, <1>8, <1>9 DEF Next

\* While the server serves, the pool is open, and once it has drained nobody
\* is let in again.
LEMMA StopStep == Inv /\ [Next]_vars => StopInv'
<1> SUFFICES ASSUME Inv, [Next]_vars PROVE StopInv'
  OBVIOUS
<1>1. StopInv /\ req \in [Workers -> Request]
  BY DEF Inv, TypeOK, PoolTypeOK
<1>2. ASSUME UNCHANGED <<main, pool, cancelled>>, AllIdle => AllIdle' PROVE StopInv'
  BY <1>1, <1>2 DEF StopInv
<1>3. CASE Tick
  <2>1. \A w \in Workers : req'[w].pc = req[w].pc
    BY <1>1, <1>3 DEF Tick, CountDown, Request
  <2> QED
    BY <1>2, <1>3, <2>1 DEF Tick, CountDown, AllIdle
<1>4. CASE Cleanup
  BY <1>2, <1>4 DEF Cleanup, poolVars, shutdownVars, AllIdle
<1>5. CASE Main
  <2>1. UNCHANGED req
    BY <1>5 DEF Main, Signal, ListenFails, Stop, Drained, DrainTimesOut, Deferred, CancelJob,
           StartClose, FinishClose, Exit, poolVars
  <2>2. AllIdle' <=> AllIdle
    BY <2>1 DEF AllIdle
  <2>3. Drained => AllIdle
    BY DEF Drained, AllIdle
  <2> QED
    BY <1>1, <1>5, <2>2, <2>3 DEF Main, Signal, ListenFails, Stop, Drained, DrainTimesOut, Deferred,
       CancelJob, StartClose, FinishClose, Exit, poolVars, shutdownVars, StopInv
<1>6. CASE Job
  <2>1. UNCHANGED <<pool, req, cancelled>> /\ main' \in {main, "crashed"}
    BY <1>6 DEF Job, JobStops, JobRuns, JobAcquires, JobEnds, poolVars
  <2>2. AllIdle' <=> AllIdle
    BY <2>1 DEF AllIdle
  <2> QED
    BY <1>1, <2>1, <2>2 DEF StopInv
<1>7. ASSUME NEW i \in Ips, Ask(i) PROVE StopInv'
  <2>1. /\ UNCHANGED <<main, pool, cancelled>>
        /\ main \in {"serving", "draining", "abandoning"}
    BY <1>7 DEF Ask, Admit, Turn, Serve, poolVars, shutdownVars
  <2> QED
    BY <1>1, <2>1 DEF StopInv
<1>8. ASSUME NEW w \in Workers, Work(w) \/ GiveUp(w) \/ Fail(w) PROVE StopInv'
  <2>1. UNCHANGED <<main, cancelled>> /\ UNCHANGED pool
    BY <1>8 DEF Work, GiveUp, Fail, Expire, Abort, shutdownVars, Step, AcquireConn, ReadDone,
           GuardPassed, GoOn, BeginTx, CallFn, AcquireInner, InnerDone, CommitTx, Take, GiveBack, Return
  <2>2. ASSUME AllIdle PROVE AllIdle'
    <3>1. ~Step(w)
      BY <2>2 DEF AllIdle, Step, AcquireConn, ReadDone, BeginTx, CallFn, AcquireInner, InnerDone,
             CommitTx, At
    <3>2. req' = [req EXCEPT ![w] = Idle]
      BY <1>8, <3>1 DEF Work, GiveUp, Fail, Expire, Abort, Return
    <3> QED
      BY <1>1, <2>2, <3>2, IdleRequest DEF AllIdle
  <2> QED
    BY <1>2, <2>1, <2>2
<1>9. CASE UNCHANGED vars
  BY <1>2, <1>9 DEF vars, poolVars, shutdownVars, AllIdle
<1> QED
  BY <1>3, <1>4, <1>5, <1>6, <1>7, <1>8, <1>9 DEF Next

\* In every reachable state the invariant Inv holds: besides the types it gives
\* every connection one holder, follows run() to its end, and weighs what the
\* limiters hold against what an exact token bucket would.
THEOREM Invariance == Spec => []Inv
<1>1. Inv /\ [Next]_vars => Inv'
  BY TypeAndHolders, StopStep DEF Inv
<1> QED
  BY <1>1, InitInv, PTL DEF Spec

-----------------------------------------------------------------------------
\* Every variable keeps its type.
THEOREM TypeCorrect == Spec => []TypeOK
<1>1. Inv => TypeOK
  BY DEF Inv
<1> QED
  BY <1>1, Invariance, PTL

LEMMA Counts ==
    /\ Cardinality({}) = 0
    /\ \A c : Cardinality({c}) = 1
    /\ \A c, d : c # d => Cardinality({c, d}) = 2
<1>1. Cardinality({}) = 0 /\ IsFiniteSet({})
  BY FS_EmptySet
<1>2. ASSUME NEW c PROVE Cardinality({c}) = 1 /\ IsFiniteSet({c})
  BY FS_Singleton
<1>3. ASSUME NEW c, NEW d, c # d PROVE Cardinality({c, d}) = 2
  <2>1. {c, d} = {c} \cup {d} /\ d \notin {c}
    BY <1>3
  <2>2. Cardinality({c} \cup {d}) = Cardinality({c}) + 1
    BY <1>2, <2>1, FS_AddElement
  <2>3. Cardinality({c} \cup {d}) = 1 + 1
    BY <1>2, <2>2, Zenon
  <2>4. Cardinality({c, d}) = 1 + 1
    BY <2>1, <2>3, Zenon
  <2> QED
    BY <2>4
<1> QED
  BY <1>1, <1>2, <1>3

\* No connection is lost or in two hands, for every number of requests.
THEOREM NoConnectionLost == Spec => []ConnectionsAccounted
<1>1. ASSUME Inv PROVE ConnectionsAccounted
  <2>1. /\ free \in SUBSET Conns /\ job.conns \in SUBSET Conns
        /\ \A w \in Workers : req[w] \in Request /\ req[w].conns \in SUBSET Conns
    BY <1>1 DEF Inv, TypeOK, PoolTypeOK, ShutdownTypeOK, Request
  <2>2. HoldersInv
    BY <1>1 DEF Inv
  <2>3. Conns = free \cup job.conns \cup UNION {req[w].conns : w \in Workers}
    BY <2>1, <2>2 DEF HoldersInv, Exclusive
  <2>4. job.conns \cap free = {}
    BY <2>1, <2>2 DEF HoldersInv, Exclusive
  <2>5. Cardinality(job.conns) = IF job.pc = "running" THEN 1 ELSE 0
    BY <2>2, Counts DEF HoldersInv, JobHeld
  <2>6. ASSUME NEW w \in Workers
        PROVE  /\ req[w].conns \cap (free \cup job.conns) = {}
               /\ \A v \in Workers \ {w} : req[w].conns \cap req[v].conns = {}
    BY <2>1, <2>2 DEF HoldersInv, Exclusive
  <2>7. ASSUME NEW w \in Workers PROVE Cardinality(req[w].conns) = HeldAt(req[w].pc)
    <3>1. req[w].pc \in Phases /\ Held(req[w])
      BY <2>1, <2>2 DEF Request, HoldersInv
    <3>2. CASE req[w].pc \in {"idle", "acquire", "begin"}
      BY <3>1, <3>2, Counts DEF Held, HeldAt
    <3>3. CASE req[w].pc \in {"reading", "tx", "acquire_inner", "commit"}
      <4>1. PICK c : req[w].conns = {c}
        BY <3>1, <3>3 DEF Held
      <4>2. Cardinality(req[w].conns) = 1
        BY <4>1, Counts
      <4> QED
        BY <3>3, <4>2 DEF HeldAt
    <3>4. CASE req[w].pc = "reading_inner"
      <4>1. PICK c, d : c # d /\ req[w].conns = {c, d}
        BY <3>1, <3>4 DEF Held
      <4>2. Cardinality({c, d}) = 2
        BY <4>1, Counts
      <4>3. Cardinality(req[w].conns) = 2
        BY <4>1, <4>2, Zenon
      <4> QED
        BY <3>4, <4>3 DEF HeldAt
    <3> QED
      BY <3>1, <3>2, <3>3, <3>4 DEF Phases
  <2> QED
    BY <2>3, <2>4, <2>5, <2>6, <2>7 DEF ConnectionsAccounted
<1> QED
  BY <1>1, Invariance, PTL

LEMMA NestedStandstill == Inv => StandstillIsNested
<1>1. ASSUME Inv, Standstill, NEW c \in Conns
      PROVE  \E w \in Workers : c \in req[w].conns /\ req[w].pc = "acquire_inner"
  <2>1. HoldersInv
    BY <1>1 DEF Inv
  <2>2. c \notin free /\ c \notin job.conns
    BY <1>1, <2>1 DEF Standstill, HoldersInv, JobHeld
  <2>3. PICK w \in Workers : c \in req[w].conns
    BY <2>1, <2>2 DEF HoldersInv, Exclusive
  <2>4. Held(req[w])
    BY <2>1 DEF HoldersInv
  <2>5. req[w].pc # "idle" /\ Waiting(w)
    BY <1>1, <2>3, <2>4 DEF Held, Standstill
  <2> QED
    BY <2>3, <2>4, <2>5 DEF Held, Waiting
<1> QED
  BY <1>1 DEF StandstillIsNested

\* makeQR is the only way into a standstill, for every size of the pool.
THEOREM OnlyNestedReadsStandStill == Spec => []StandstillIsNested
  BY NestedStandstill, Invariance, PTL

\* The requests that wait for a second connection inside a transaction.
Nested == {w \in Workers : req[w].pc = "acquire_inner"}

\* How large the pool must be: it takes as many requests inside makeQR as there
\* are connections to bring it to a standstill.
THEOREM StandstillTakesThePool ==
    ASSUME IsFiniteSet(Workers)
    PROVE  Spec => [](Standstill => Cardinality(Conns) <= Cardinality(Nested))
<1>1. ASSUME Inv, Standstill PROVE Cardinality(Conns) <= Cardinality(Nested)
  <2>1. \A c \in Conns : \E w \in Nested : c \in req[w].conns
    BY <1>1, NestedStandstill DEF StandstillIsNested, Nested
  <2>2. PICK holder \in [Conns -> Nested] : \A c \in Conns : c \in req[holder[c]].conns
    <3> DEFINE f == [c \in Conns |-> CHOOSE w \in Nested : c \in req[w].conns]
    <3>1. \A c \in Conns : f[c] \in Nested /\ c \in req[f[c]].conns
      BY <2>1
    <3>2. f \in [Conns -> Nested]
      BY <3>1
    <3> HIDE DEF f
    <3> QED
      BY <3>1, <3>2
  <2>3. \A w \in Nested : \E c \in Conns : req[w].conns = {c}
    BY <1>1 DEF Inv, HoldersInv, Held, Nested
  <2>4. ASSUME NEW c \in Conns, NEW d \in Conns, holder[c] = holder[d] PROVE c = d
    BY <2>2, <2>3, <2>4
  <2>5. holder \in Injection(Conns, Nested)
    BY <2>2, <2>4 DEF Injection, IsInjective
  <2>6. IsFiniteSet(Nested)
    BY FS_Subset DEF Nested
  <2> QED
    BY <2>5, <2>6, FS_Injection
<1>2. Inv => (Standstill => Cardinality(Conns) <= Cardinality(Nested))
  BY <1>1
<1> QED
  BY <1>2, Invariance, PTL

\* With a connection more than there are requests at a time, the pool never comes
\* to a standstill.
THEOREM RoomForOneMore ==
    ASSUME IsFiniteSet(Workers), IsFiniteSet(Conns), Cardinality(Workers) < Cardinality(Conns)
    PROVE  Spec => []~Standstill
<1>1. IsFiniteSet(Nested) /\ Cardinality(Nested) <= Cardinality(Workers)
  BY FS_Subset DEF Nested
<1>2. Cardinality(Nested) \in Nat /\ Cardinality(Workers) \in Nat /\ Cardinality(Conns) \in Nat
  BY <1>1, FS_CardinalityType
<1>3. ~(Cardinality(Conns) <= Cardinality(Nested))
  BY <1>1, <1>2
<1>4. (Standstill => Cardinality(Conns) <= Cardinality(Nested)) => ~Standstill
  BY <1>3
<1> QED
  BY <1>4, StandstillTakesThePool, PTL

\* A drained server has answered everybody before its pool closes.
THEOREM DrainedBeforeClosed == Spec => []ClosedOnlyOnTheLate
<1>1. Inv => ClosedOnlyOnTheLate
  BY DEF Inv, StopInv, AllIdle, ClosedOnlyOnTheLate
<1> QED
  BY <1>1, Invariance, PTL

(***************************************************************************)
(* The limiter implements the token bucket: whoever passes pays.           *)
(***************************************************************************)
LEMMA TickEarns ==
    ASSUME Inv, Age PROVE TB!Earn
<1>1. ASSUME NEW i \in Ips
      PROVE  AtMost(credit[i] + 1, Full) = IF credit[i] < Rps * Second THEN credit[i] + 1 ELSE credit[i]
  <2>1. PICK c \in Nat : c = credit[i] /\ c <= Full
    BY DEF Inv, TypeOK, LimiterTypeOK, LimiterInv, Worth
  <2>2. Full = Rps * Second
    BY DEF Full
  <2>3. AtMost(c + 1, Full) = IF c < Full THEN c + 1 ELSE c
    BY <2>1, Constants DEF AtMost
  <2> QED
    BY <2>1, <2>2, <2>3
<1> QED
  BY <1>1 DEF Age, TB!Earn

\* For every rate: whole tokens, forgotten fractions and dropped buckets let
\* nobody in whom an exact token bucket would refuse.
THEOREM LimiterImplementsTokenBucket == Spec => ImplementsTokenBucket
<1>1. Init => TB!Start
  BY DEF Init, LimiterInit, TB!Start, Full
<1>2. Inv /\ [Next]_vars => [TB!Use]_credit
  <2> SUFFICES ASSUME Inv, [Next]_vars, credit' # credit
               PROVE  TB!Use
    OBVIOUS
  <2>1. Tick \/ \E i \in Ips : Ask(i)
    BY DEF Next, vars, limiterVars, Cleanup, CleanupVisitors, Main, Job, Work, GiveUp, Fail
  <2>2. CASE Tick
    BY <2>2, TickEarns DEF Tick, TB!Use
  <2>3. ASSUME NEW i \in Ips, Ask(i) PROVE TB!Spend(i)
    <3>1. Pass(i)
      BY <2>3 DEF Ask, Admit, Turn, Refuse
    <3>2. credit[i] >= Second
      BY <3>1, PassWorth DEF Inv, TypeOK
    <3> QED
      BY <3>1, <3>2 DEF Pass, TB!Spend
  <2> QED
    BY <2>1, <2>2, <2>3 DEF TB!Use
<1> QED
  BY <1>1, <1>2, Invariance, PTL DEF Spec, ImplementsTokenBucket, TB!Bucket
=============================================================================
