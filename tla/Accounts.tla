------------------------------ MODULE Accounts ------------------------------
(***************************************************************************)
(* One user's account: registration, one-time codes, passwords, sessions   *)
(* (package authsvc), and the job that cleans the codes up.                *)
(*                                                                         *)
(* A request reads the user, then the code, compares, and writes in a      *)
(* transaction that repeats none of it.  Each round trip to the database   *)
(* is a step; a transaction is one.  Whether a guess is right is a choice: *)
(* a code matters by its row, not by its digits.                           *)
(*                                                                         *)
(* The server keeps no sessions: session[p] says until when the tokens     *)
(* pass that come from a login with password p.                            *)
(*                                                                         *)
(* closedAt, uses, replacedAt and blockedAt are history: no action reads   *)
(* them.                                                                   *)
(***************************************************************************)
EXTENDS Integers, FiniteSets

CONSTANTS
    Workers,                 \* goroutines serving requests
    Passwords, NoPassword,   \* what users.password_hash can be the hash of
    Codes, NoCode,           \* ids of user_verifications
    Operations,              \* the operations of an instance
    MaxAttempts,             \* max_attempts of every code
    OtpExpiry,               \* OTP_EXPIRY_SECONDS
    AccessExpiry,            \* lifetime of an access token
    RefreshExpiry,           \* lifetime of a refresh token
    Timeout,                 \* service.DefaultTimeout
    MaxTime                  \* bound on the clock

UserOps ==
    {"register", "register_resident", "verify", "resend", "forgot", "reset",
     "change", "login", "refresh"}

Purposes == {"email_verification", "password_reset"}

\* No deadline, and a time before every time that counts.
NoDeadline == -1
Never      == -(Timeout + 1)

ASSUME ConstantsOK ==
    /\ IsFiniteSet(Workers)
    /\ NoPassword \notin Passwords /\ NoCode \notin Codes
    /\ MaxAttempts \in Nat \ {0} /\ OtpExpiry \in Nat \ {0}
    /\ AccessExpiry \in Nat \ {0} /\ RefreshExpiry \in Nat \ {0}
    /\ Timeout \in Nat /\ MaxTime \in Nat

VARIABLES
    now,          \* the clock
    user,         \* the row of users
    code,         \* user_verifications
    session,      \* session[p]: until when tokens of password p pass
    closedAt,     \* when a code was last usable
    uses,         \* how many requests a code has verified the email or set a password for
    replacedAt,   \* when a password last stopped being the current one
    blockedAt,    \* when the account was last blocked
    req           \* req[w]: the request worker w is serving

userVars == <<user, replacedAt, blockedAt>>
codeVars == <<code, closedAt, uses>>
vars     == <<now, userVars, codeVars, session, req>>

-----------------------------------------------------------------------------
UserRow ==
    [status: {"none", "present"}, verified: BOOLEAN, blocked: BOOLEAN,
     password: Passwords \cup {NoPassword}]

\* The status `none' is a row that was never inserted.
CodeRow ==
    [status: {"none", "active", "used", "deleted"}, purpose: Purposes,
     attempts: Nat, expires: Nat]

Tokens == [access: Int, refresh: Int]

Request ==
    [op: UserOps \cup {"none"},
     pc: {"idle", "create", "code", "miss", "commit", "issue", "grant", "user"},
     code: Codes \cup {NoCode}, seen: Passwords \cup {NoPassword},
     new: Passwords \cup {NoPassword}, expires: Nat,
     deadline: Nat \cup {NoDeadline}]

TypeOK ==
    /\ now \in Nat
    /\ user \in UserRow /\ blockedAt \in Int /\ replacedAt \in [Passwords -> Int]
    /\ code \in [Codes -> CodeRow] /\ closedAt \in [Codes -> Int] /\ uses \in [Codes -> Nat]
    /\ session \in [Passwords -> Tokens]
    /\ req \in [Workers -> Request]

Idle ==
    [op |-> "none", pc |-> "idle", code |-> NoCode, seen |-> NoPassword,
     new |-> NoPassword, expires |-> 0, deadline |-> NoDeadline]

NoRow == [status |-> "none", purpose |-> "email_verification", attempts |-> 0, expires |-> 0]

Init ==
    /\ now = 0
    /\ user = [status |-> "none", verified |-> FALSE, blocked |-> FALSE,
               password |-> NoPassword]
    /\ blockedAt = Never /\ replacedAt = [p \in Passwords |-> Never]
    /\ code = [c \in Codes |-> NoRow]
    /\ closedAt = [c \in Codes |-> Never] /\ uses = [c \in Codes |-> 0]
    /\ session = [p \in Passwords |-> [access |-> Never, refresh |-> Never]]
    /\ req = [w \in Workers |-> Idle]

-----------------------------------------------------------------------------
(***************************************************************************)
(* Reading and writing the tables.                                         *)
(***************************************************************************)
\* Mutant of Usable: attempts are not compared.
Usable_AnyAttempts(row, t) ==
    /\ row.status = "active" /\ t < row.expires

\* What GetActiveVerification and the checks after it let through.
Usable(row, t) ==
    /\ row.status = "active" /\ t < row.expires
    /\ row.attempts < MaxAttempts

\* A change of the clock or of the codes, with its history.
Change(t, rows) ==
    /\ now' = t /\ code' = rows
    /\ closedAt' = [c \in Codes |->
           IF Usable(code[c], now) /\ ~Usable(rows[c], t) THEN now ELSE closedAt[c]]

WriteUser(row) ==
    /\ user' = row
    /\ replacedAt' = [p \in Passwords |->
           IF p = user.password /\ p # row.password THEN now ELSE replacedAt[p]]
    /\ blockedAt' = IF row.blocked /\ ~user.blocked THEN now ELSE blockedAt

\* DeleteActiveByPurpose and CreateVerification: the active codes of the
\* purpose are marked used, a new one is inserted.
Issue(purpose, expires) ==
    \E c \in Codes :
        /\ code[c].status = "none"
        /\ Change(now, [x \in Codes |->
               IF x = c
               THEN [status |-> "active", purpose |-> purpose, attempts |-> 0,
                     expires |-> expires]
               ELSE IF code[x].status = "active" /\ code[x].purpose = purpose
               THEN [code[x] EXCEPT !.status = "used"]
               ELSE code[x]])

\* Mutant of MarkAsUsed: a status nothing else knows.
MarkAsUsed_Misspelt(c) ==
    /\ Change(now, [code EXCEPT ![c].status = IF @ = "deleted" THEN @ ELSE "consumed"])
    /\ uses' = [uses EXCEPT ![c] = @ + 1]

\* Mutant of MarkAsUsed: the code stays active.
MarkAsUsed_Kept(c) ==
    /\ Change(now, code)
    /\ uses' = [uses EXCEPT ![c] = @ + 1]

\* MarkAsUsed: by id, whatever the row is by now; none to update is no error.
MarkAsUsed(c) ==
    /\ Change(now, [code EXCEPT ![c].status = IF @ = "deleted" THEN @ ELSE "used"])
    /\ uses' = [uses EXCEPT ![c] = @ + 1]

Tick ==
    /\ now < MaxTime
    /\ Change(now + 1, code)
    /\ UNCHANGED <<userVars, uses, session, req>>

\* VerificationCleanupJob.run, at any time.
DeleteUsedOrExpired ==
    /\ Change(now, [c \in Codes |->
           IF code[c].status = "used" \/ (code[c].status = "active" /\ code[c].expires < now)
           THEN [NoRow EXCEPT !.status = "deleted"] ELSE code[c]])
    /\ UNCHANGED <<userVars, uses, session, req>>

\* is_blocked and is_active are read by the code and written by hand.
Block ==
    /\ user.status = "present" /\ ~user.blocked
    /\ WriteUser([user EXCEPT !.blocked = TRUE])
    /\ UNCHANGED <<now, codeVars, session, req>>

-----------------------------------------------------------------------------
(***************************************************************************)
(* Arrivals: the deadline is armed and the user is read.                   *)
(***************************************************************************)
Start(w, op, pc, seen, new, expires) ==
    /\ op \in Operations
    /\ req[w].pc = "idle"
    /\ req' = [req EXCEPT ![w] =
           [op |-> op, pc |-> pc, code |-> NoCode, seen |-> seen, new |-> new,
            expires |-> expires, deadline |-> now + Timeout]]
    /\ UNCHANGED <<now, userVars, codeVars, session>>

\* EmailExists and PhoneExists.  The expiry of the code is set here.
Register(w, p) ==
    /\ user.status = "none"
    /\ Start(w, "register", "create", NoPassword, p, now + OtpExpiry)

RegisterResident(w, p) ==
    /\ user.status = "none"
    /\ Start(w, "register_resident", "create", NoPassword, p, 0)

\* A verified user is told so, and nothing happens.
VerifyEmail(w) ==
    /\ user.status = "present" /\ ~user.verified
    /\ Start(w, "verify", "code", NoPassword, NoPassword, 0)

ResendEmailOTP(w) ==
    /\ user.status = "present" /\ ~user.verified
    /\ Start(w, "resend", "issue", NoPassword, NoPassword, now + OtpExpiry)

ForgotPassword(w) ==
    /\ user.status = "present"
    /\ Start(w, "forgot", "issue", NoPassword, NoPassword, now + OtpExpiry)

\* rejectPasswordReuse compares with the hash that was read.
ResetPassword(w, p) ==
    /\ user.status = "present" /\ p # user.password
    /\ Start(w, "reset", "code", user.password, p, 0)

\* Anybody whose access token passes; the current password has to be right.
ChangePassword(w, p) ==
    /\ \E q \in Passwords : now < session[q].access
    /\ p # user.password
    /\ Start(w, "change", "commit", user.password, p, 0)

\* Mutant of Login: is_blocked is not looked at.
Login_Blocked(w) ==
    /\ user.status = "present" /\ user.verified
    /\ Start(w, "login", "grant", user.password, NoPassword, 0)

Login(w) ==
    /\ user.status = "present" /\ user.verified /\ ~user.blocked
    /\ Start(w, "login", "grant", user.password, NoPassword, 0)

\* Mutant of Refresh: a token that has run out passes.
Refresh_Expired(w, p) ==
    /\ Never < session[p].refresh
    /\ Start(w, "refresh", "user", p, NoPassword, 0)

\* The middleware looks at the token alone; the user is read by Reissue.
Refresh(w, p) ==
    /\ now < session[p].refresh
    /\ Start(w, "refresh", "user", p, NoPassword, 0)

-----------------------------------------------------------------------------
(***************************************************************************)
(* What follows, with what was read.                                       *)
(***************************************************************************)
\* Mutant of At: the deadline is not looked at.
At_NoDeadline(w, pc) == req[w].pc = pc

At(w, pc) == req[w].pc = pc /\ now <= req[w].deadline

Reply(w) == req' = [req EXCEPT ![w] = Idle]

\* Any error return, rollback, deadline or disconnect.
Fail(w) ==
    /\ req[w].pc # "idle"
    /\ Reply(w)
    /\ UNCHANGED <<now, userVars, codeVars, session>>

PurposeOf(op) ==
    IF op \in {"verify", "resend", "register"} THEN "email_verification" ELSE "password_reset"

\* Mutant of ReadCode: the expiry is not compared.
ReadCode_NoExpiry(w) ==
    /\ At(w, "code")
    /\ \E c \in Codes :
           /\ code[c].purpose = PurposeOf(req[w].op)
           /\ code[c].status = "active" /\ code[c].attempts < MaxAttempts
           /\ req' = [req EXCEPT ![w].pc = "commit", ![w].code = c]
    /\ UNCHANGED <<now, userVars, codeVars, session>>

\* GetActiveVerification, its checks, and the comparison with the guess; of a
\* request that guessed wrong nothing matters any more but the code.
Rejected(w, c) ==
    [Idle EXCEPT !.pc = "miss", !.code = c, !.deadline = req[w].deadline]

ReadCode(w) ==
    /\ At(w, "code")
    /\ \E c \in Codes :
           /\ code[c].purpose = PurposeOf(req[w].op) /\ Usable(code[c], now)
           /\ \/ req' = [req EXCEPT ![w].pc = "commit", ![w].code = c]
              \/ req' = [req EXCEPT ![w] = Rejected(w, c)]
    /\ UNCHANGED <<now, userVars, codeVars, session>>

IncrementAttempts(w) ==
    LET c == req[w].code IN
    /\ At(w, "miss")
    /\ Change(now, [code EXCEPT ![c].attempts = IF code[c].status = "deleted" THEN @ ELSE @ + 1])
    /\ Reply(w)
    /\ UNCHANGED <<userVars, uses, session>>

CommitVerify(w) ==
    /\ At(w, "commit") /\ req[w].op = "verify"
    /\ MarkAsUsed(req[w].code)
    /\ WriteUser([user EXCEPT !.verified = TRUE])
    /\ Reply(w)
    /\ UNCHANGED session

CommitReset(w) ==
    /\ At(w, "commit") /\ req[w].op = "reset"
    /\ MarkAsUsed(req[w].code)
    /\ WriteUser([user EXCEPT !.password = req[w].new])
    /\ Reply(w)
    /\ UNCHANGED session

CommitChange(w) ==
    /\ At(w, "commit") /\ req[w].op = "change"
    /\ WriteUser([user EXCEPT !.password = req[w].new])
    /\ Reply(w)
    /\ UNCHANGED <<now, codeVars, session>>

\* The mail goes out after the commit: an error then changes nothing back.
CommitIssue(w) ==
    /\ At(w, "issue")
    /\ Issue(PurposeOf(req[w].op), req[w].expires)
    /\ Reply(w)
    /\ UNCHANGED <<userVars, uses, session>>

\* users_email_unique lets one registration through.
CreateUser(p, verified) ==
    /\ user.status = "none"
    /\ WriteUser([status |-> "present", verified |-> verified, blocked |-> FALSE,
                  password |-> p])

CommitRegister(w) ==
    /\ At(w, "create") /\ req[w].op = "register"
    /\ CreateUser(req[w].new, FALSE)
    /\ Issue("email_verification", req[w].expires)
    /\ Reply(w)
    /\ UNCHANGED <<uses, session>>

\* No code: the account counts as verified, and is logged in by the next step.
CommitRegisterResident(w) ==
    /\ At(w, "create") /\ req[w].op = "register_resident"
    /\ CreateUser(req[w].new, TRUE)
    /\ req' = [req EXCEPT ![w].pc = "grant", ![w].seen = req[w].new]
    /\ UNCHANGED <<now, codeVars, session>>

\* UpdateLastLogin, and the two tokens.
Grant(w) ==
    /\ At(w, "grant")
    /\ session' = [session EXCEPT ![req[w].seen] =
           [access |-> now + AccessExpiry, refresh |-> now + RefreshExpiry]]
    /\ Reply(w)
    /\ UNCHANGED <<now, userVars, codeVars>>

\* GetByID and a new access token; the refresh token stays what it was.
Reissue(w) ==
    /\ At(w, "user")
    /\ ~user.blocked
    /\ session' = [session EXCEPT ![req[w].seen].access = now + AccessExpiry]
    /\ Reply(w)
    /\ UNCHANGED <<now, userVars, codeVars>>

-----------------------------------------------------------------------------
Arrival(w) ==
    \/ VerifyEmail(w) \/ ResendEmailOTP(w) \/ ForgotPassword(w) \/ Login(w)
    \/ \E p \in Passwords :
           \/ Register(w, p) \/ RegisterResident(w, p)
           \/ ResetPassword(w, p) \/ ChangePassword(w, p) \/ Refresh(w, p)

Step(w) ==
    \/ ReadCode(w) \/ IncrementAttempts(w)
    \/ CommitVerify(w) \/ CommitReset(w) \/ CommitChange(w) \/ CommitIssue(w)
    \/ CommitRegister(w) \/ CommitRegisterResident(w) \/ Grant(w) \/ Reissue(w)

Next ==
    \/ Tick \/ DeleteUsedOrExpired \/ Block
    \/ \E w \in Workers : Arrival(w) \/ Step(w) \/ Fail(w)

Spec == Init /\ [][Next]_vars
=============================================================================
