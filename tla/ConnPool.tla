------------------------------ MODULE ConnPool ------------------------------
(***************************************************************************)
(* The connections of the pool, as the requests use them: reads take one   *)
(* each, WithTransaction keeps one from BEGIN to COMMIT or ROLLBACK, and   *)
(* makeQR reads the settings through the pool while its caller's           *)
(* transaction is open, so that a request holds one connection and waits   *)
(* for another.                                                            *)
(*                                                                         *)
(* A service method arms its deadline; what is read before it does, by the *)
(* guards of the route and by the likes of ensureStaffActor, is read on    *)
(* the request's own context, which has none.                              *)
(***************************************************************************)
EXTENDS Integers

CONSTANTS
    Workers,    \* goroutines serving requests
    Conns,      \* the connections, DB_MAX_OPEN_CONNS of them
    MaxGuards,  \* the most reads that are made before the deadline is armed
    Timeout     \* service.DefaultTimeout, in ticks

ASSUME PoolConstantsOK == MaxGuards \in Nat /\ Timeout \in Nat

VARIABLES
    pool,   \* is the pool open, being closed, or gone?
    free,   \* connections nobody holds
    req     \* req[w]: where the request of worker w is

poolVars == <<pool, free, req>>

\* What a method waits for, a connection or the answer to a statement.
Phases ==
    {"idle", "acquire", "reading", "begin", "tx", "acquire_inner", "reading_inner", "commit"}

NoDeadline == -1

\* guards says how many guards have still to read, left how much time there is,
\* conns what the request holds.
Request ==
    [pc: Phases, guards: Nat, left: Nat \cup {NoDeadline}, conns: SUBSET Conns]

PoolTypeOK ==
    /\ pool \in {"open", "closing", "gone"}
    /\ free \in SUBSET Conns
    /\ req \in [Workers -> Request]

Idle == [pc |-> "idle", guards |-> 0, left |-> NoDeadline, conns |-> {}]

PoolInit ==
    /\ pool = "open"
    /\ free = Conns
    /\ req = [w \in Workers |-> Idle]

-----------------------------------------------------------------------------
\* What is left of the deadline while g guards have still to read.
Armed(g) == IF g = 0 THEN Timeout ELSE NoDeadline

\* A request comes in: g guards read before the method arms its deadline.
Serve(w, g) ==
    /\ req[w].pc = "idle"
    /\ req' = [req EXCEPT ![w] =
           [Idle EXCEPT !.pc = "acquire", !.guards = g, !.left = Armed(g)]]
    /\ UNCHANGED <<pool, free>>

At(w, pc) == req[w].pc = pc /\ req[w].left # 0

\* One connection more, if there is one.
Take(w, pc) ==
    /\ pool = "open"
    /\ \E c \in free :
           /\ free' = free \ {c}
           /\ req' = [req EXCEPT ![w].pc = pc, ![w].conns = @ \cup {c}]
    /\ UNCHANGED pool

\* One connection less.
GiveBack(w, r) ==
    /\ \E c \in req[w].conns :
           /\ free' = free \cup {c}
           /\ req' = [req EXCEPT ![w] = [r EXCEPT !.conns = @ \ {c}]]
    /\ UNCHANGED pool

\* Mutant of Return: a transaction that was not committed is not rolled back.
Return_NoRollback(w) ==
    /\ free' = IF req[w].pc \in {"tx", "acquire_inner"} THEN free ELSE free \cup req[w].conns
    /\ req' = [req EXCEPT ![w] = Idle]
    /\ UNCHANGED pool

\* The method returns, and holds nothing any more.
Return(w) ==
    /\ free' = free \cup req[w].conns
    /\ req' = [req EXCEPT ![w] = Idle]
    /\ UNCHANGED pool

AcquireConn(w) == At(w, "acquire") /\ Take(w, "reading")

\* A guard has read, and the last of them lets the method start.
GuardPassed(w) ==
    /\ req[w].guards > 0
    /\ GiveBack(w, [req[w] EXCEPT !.pc = "acquire", !.guards = @ - 1,
                                 !.left = Armed(req[w].guards - 1)])

\* Mutant of GoOn: the rows of the last read are not closed before the write.
GoOn_Unclosed(w) ==
    /\ req[w].guards = 0
    /\ req' = [req EXCEPT ![w].pc = "begin"]
    /\ UNCHANGED <<pool, free>>

\* The method has read, and reads again or writes.
GoOn(w) ==
    /\ req[w].guards = 0
    /\ \E pc \in {"acquire", "begin"} : GiveBack(w, [req[w] EXCEPT !.pc = pc])

\* The answer to a read; the request may be refused, or was only to read.
ReadDone(w) ==
    /\ At(w, "reading")
    /\ GuardPassed(w) \/ GoOn(w) \/ Return(w)

\* WithTransaction.
BeginTx(w) == At(w, "begin") /\ Take(w, "tx")

CallFn(w) ==
    /\ At(w, "tx")
    /\ \E pc \in {"acquire_inner", "commit"} : req' = [req EXCEPT ![w].pc = pc]
    /\ UNCHANGED <<pool, free>>

\* GetSociety of makeQR, with the context that has no transaction in it.
AcquireInner(w) == At(w, "acquire_inner") /\ Take(w, "reading_inner")

InnerDone(w) == At(w, "reading_inner") /\ GiveBack(w, [req[w] EXCEPT !.pc = "commit"])

\* Mutant of CommitTx: a phase nothing else knows.
CommitTx_Closing(w) ==
    /\ At(w, "commit")
    /\ req' = [req EXCEPT ![w].pc = "closing"]
    /\ UNCHANGED <<pool, free>>

CommitTx(w) == At(w, "commit") /\ Return(w)

\* The error of a wait, a query or fn; a transaction is rolled back.
Abort(w) == req[w].pc # "idle" /\ Return(w)

\* A connection is waited for.
Waiting(w) == req[w].pc \in {"acquire", "begin", "acquire_inner"}

\* Mutant of Expire: a wait inside a transaction has no deadline.
Expire_NotInner(w) ==
    /\ req[w].left = 0 \/ (Waiting(w) /\ pool # "open")
    /\ req[w].pc # "acquire_inner"
    /\ Abort(w)

\* The deadline, or a closed pool: whoever waits for it is told so.
Expire(w) ==
    /\ req[w].left = 0 \/ (Waiting(w) /\ pool # "open")
    /\ Abort(w)

\* A tick of the clock, as far as deadlines notice it.
CountDown ==
    /\ req' = [w \in Workers |->
           IF req[w].left > 0 THEN [req[w] EXCEPT !.left = @ - 1] ELSE req[w]]
    /\ UNCHANGED <<pool, free>>

Step(w) ==
    \/ AcquireConn(w) \/ ReadDone(w) \/ BeginTx(w) \/ CallFn(w)
    \/ AcquireInner(w) \/ InnerDone(w) \/ CommitTx(w)
=============================================================================
