----------------------------- MODULE RateLimit -----------------------------
(***************************************************************************)
(* The rate limiter in front of every route: one token bucket per client   *)
(* address, made at the first request and dropped when the address has     *)
(* been silent (rate_limit.go).                                            *)
(*                                                                         *)
(* Times are ages, counted in ticks and no further than anything depends   *)
(* on them.  The lookup in the map and the call of allow() are one step:   *)
(* between them nothing waits, and the cleanup, which is the only one to   *)
(* take a bucket out of the map, leaves out what was just seen.            *)
(***************************************************************************)
EXTENDS Integers

CONSTANTS
    Ips,         \* client addresses
    Rps,         \* RATE_LIMIT_RPS
    Second,      \* refillRate, in ticks
    IdleLimit    \* the ten minutes of cleanupVisitors, in ticks

Full == Rps * Second

\* Ten minutes are 600 refills: more than fill a bucket unless it is larger.
ASSUME LimiterConstantsOK ==
    /\ Rps \in Nat \ {0} /\ Second \in Nat \ {0} /\ IdleLimit \in Nat
    /\ Full <= IdleLimit

VARIABLES
    bucket,   \* bucket[i]: the limiter of address i, if the map has one
    answer,   \* the last answer of the limiter to each address
    credit    \* history: what an exact token bucket would hold, in ticks

limiterVars == <<bucket, answer, credit>>

Limiter ==
    [known: BOOLEAN, tokens: Nat, sinceRefill: Nat, sinceSeen: Nat]

LimiterTypeOK ==
    /\ bucket \in [Ips -> Limiter]
    /\ answer \in [Ips -> {"none", "passed", "refused"}]
    /\ credit \in [Ips -> Nat]

Absent == [known |-> FALSE, tokens |-> 0, sinceRefill |-> 0, sinceSeen |-> 0]

LimiterInit ==
    /\ bucket = [i \in Ips |-> Absent]
    /\ answer = [i \in Ips |-> "none"]
    /\ credit = [i \in Ips |-> Full]

-----------------------------------------------------------------------------
AtMost(n, bound) == IF n < bound THEN n ELSE bound

NewRateLimiter == [known |-> TRUE, tokens |-> Rps, sinceRefill |-> 0, sinceSeen |-> 0]

\* Mutant of Refilled: a refill is not remembered.
Refilled_Again(b) ==
    LET refills == b.sinceRefill \div Second IN
    IF ~b.known THEN NewRateLimiter
    ELSE [b EXCEPT !.tokens = IF refills > 0 THEN AtMost(@ + refills, Rps) ELSE @,
                   !.sinceSeen = 0]

\* Mutant of Refilled: every request starts the second over.
Refilled_Restarting(b) ==
    LET refills == b.sinceRefill \div Second IN
    IF ~b.known THEN NewRateLimiter
    ELSE [b EXCEPT !.tokens = IF refills > 0 THEN AtMost(@ + refills, Rps) ELSE @,
                   !.sinceRefill = 0,
                   !.sinceSeen = 0]

\* The bucket of an address, with what its age has earned.  A refill forgets
\* the fraction of a second that has passed since.
Refilled(b) ==
    LET refills == b.sinceRefill \div Second IN
    IF ~b.known THEN NewRateLimiter
    ELSE [b EXCEPT !.tokens = IF refills > 0 THEN AtMost(@ + refills, Rps) ELSE @,
                   !.sinceRefill = IF refills > 0 THEN 0 ELSE @,
                   !.sinceSeen = 0]

Pass(i) ==
    LET b == Refilled(bucket[i]) IN
    /\ b.tokens > 0
    /\ bucket' = [bucket EXCEPT ![i] = [b EXCEPT !.tokens = @ - 1]]
    /\ answer' = [answer EXCEPT ![i] = "passed"]
    /\ credit' = [credit EXCEPT ![i] = @ - Second]

Refuse(i) ==
    LET b == Refilled(bucket[i]) IN
    /\ b.tokens = 0
    /\ bucket' = [bucket EXCEPT ![i] = b]
    /\ answer' = [answer EXCEPT ![i] = "refused"]
    /\ UNCHANGED credit

\* cleanupVisitors; the map is looked through every five minutes.
CleanupVisitors ==
    /\ \E i \in Ips : bucket[i].known /\ bucket[i].sinceSeen > IdleLimit
    /\ bucket' = [i \in Ips |->
           IF bucket[i].sinceSeen > IdleLimit THEN Absent ELSE bucket[i]]
    /\ UNCHANGED <<answer, credit>>

\* A tick of the clock, as far as buckets notice it.
Age ==
    /\ bucket' = [i \in Ips |->
           IF bucket[i].known
           THEN [bucket[i] EXCEPT !.sinceRefill = AtMost(@ + 1, Full),
                                  !.sinceSeen = AtMost(@ + 1, IdleLimit + 1)]
           ELSE bucket[i]]
    /\ credit' = [i \in Ips |-> AtMost(credit[i] + 1, Full)]
    /\ UNCHANGED answer
=============================================================================
