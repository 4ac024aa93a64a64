--------------------------- MODULE AccountsProofs ---------------------------
(***************************************************************************)
(* The properties of codes, passwords and tokens, proved for every value   *)
(* of the constants.                                                       *)
(*                                                                         *)
(* The inductive invariant says of every request in flight that what it    *)
(* read is still so, or stopped being so at most a timeout before the      *)
(* request's deadline, and of every token how long it can outlive the      *)
(* password it was given for.  Wrong guesses in flight count as attempts.  *)
(***************************************************************************)
EXTENDS AccountsProperties, FiniteSetTheorems, TLAPS

\* A request in flight has what its phase works on.
WellFormed(r) ==
    /\ r.pc # "idle" => r.deadline \in Nat /\ r.deadline <= now + Timeout
    /\ r.pc \in {"miss", "commit"} => (r.code \in Codes \/ r.op = "change")
    /\ r.pc \in {"code", "commit"} /\ r.op # "verify" => r.seen \in Passwords /\ r.new \in Passwords
    /\ r.pc = "create" => r.new \in Passwords
    /\ r.pc \in {"grant", "user"} => r.seen \in Passwords
    /\ r.pc \in {"code", "commit", "grant", "user"} => user.status = "present"
    /\ r.pc = "miss" => r.op = "none"
    /\ r.pc = "code" => r.op \in {"verify", "reset"}
    /\ r.pc = "commit" => r.op \in {"verify", "reset", "change"}

CodeFresh(r) ==
    r.pc = "commit" /\ r.code \in Codes =>
        Usable(code[r.code], now) \/ r.deadline <= closedAt[r.code] + Timeout

\* The password that was compared, or logged in with.
SeenFresh(r) ==
    r.pc = "grant" \/ (r.pc \in {"code", "commit"} /\ r.op # "verify") =>
        r.seen = user.password \/ r.deadline <= replacedAt[r.seen] + Timeout

BlockFresh(r) ==
    r.pc = "grant" /\ user.blocked => r.deadline <= blockedAt + Timeout

RefreshFresh(r) ==
    r.pc = "user" =>
        \/ r.seen = user.password
        \/ r.deadline <= replacedAt[r.seen] + 2 * Timeout + RefreshExpiry

Recent(r) ==
    WellFormed(r) /\ CodeFresh(r) /\ SeenFresh(r) /\ BlockFresh(r) /\ RefreshFresh(r)

UserOK == user.status = "present" => user.password \in Passwords

\* What the tokens of password p can still do.
TokensBounded(p) ==
    /\ session[p].access <= now + AccessExpiry
    /\ session[p].refresh <= now + RefreshExpiry
    /\ user.status = "none" => session[p].access < 0 /\ session[p].refresh < 0
    /\ p # user.password =>
           /\ session[p].refresh <= replacedAt[p] + Timeout + RefreshExpiry
           /\ session[p].access <= replacedAt[p] + 2 * Timeout + RefreshExpiry + AccessExpiry
    /\ user.blocked => session[p].access <= blockedAt + Timeout + AccessExpiry

\* Wrong guesses that are not counted yet.
Misses(c) == {w \in Workers : req[w].pc = "miss" /\ req[w].code = c}

AttemptsOK(c) == code[c].attempts + Cardinality(Misses(c)) <= MaxAttempts - 1 + Cardinality(Workers)

Inv ==
    /\ TypeOK /\ UserOK
    /\ \A p \in Passwords : TokensBounded(p)
    /\ \A w \in Workers : Recent(req[w])
    /\ \A c \in Codes : AttemptsOK(c)

-----------------------------------------------------------------------------
LEMMA Constants ==
    /\ Timeout \in Nat /\ OtpExpiry \in Nat /\ AccessExpiry \in Nat /\ RefreshExpiry \in Nat
    /\ MaxAttempts \in Nat /\ MaxAttempts > 0 /\ IsFiniteSet(Workers)
    /\ NoPassword \notin Passwords /\ NoCode \notin Codes
    /\ Never \in Int /\ Never < 0
  BY ConstantsOK DEF Never

LEMMA IdleRequest == Idle \in Request /\ Idle.pc = "idle"
  BY DEF Idle, Request, UserOps

LEMMA LaterBound ==
    ASSUME NEW a \in Int, NEW n \in Nat, NEW t \in Nat, n <= t, NEW d \in Nat, a <= n + d
    PROVE  a <= t + d
  OBVIOUS

LEMMA CountType == Cardinality(Workers) \in Nat
  BY Constants, FS_CardinalityType

LEMMA MissesCount ==
    ASSUME NEW c PROVE Cardinality(Misses(c)) \in Nat /\ Cardinality(Misses(c)) <= Cardinality(Workers)
  BY Constants, FS_Subset, FS_CardinalityType DEF Misses

LEMMA InitInv == Init => Inv
<1> SUFFICES ASSUME Init PROVE Inv
  OBVIOUS
<1>1. /\ Idle \in Request
      /\ NoRow \in CodeRow
      /\ [access |-> Never, refresh |-> Never] \in Tokens
      /\ user \in UserRow
  BY Constants, IdleRequest DEF Init, NoRow, CodeRow, Purposes, Tokens, UserRow
<1>2. TypeOK
  BY <1>1, Constants DEF Init, TypeOK
<1>3. UserOK
  BY DEF Init, UserOK
<1>4. \A p \in Passwords : TokensBounded(p)
  BY Constants DEF Init, TokensBounded
<1>5. \A w \in Workers : Recent(req[w])
  BY IdleRequest DEF Init, Recent, WellFormed, CodeFresh, SeenFresh, BlockFresh, RefreshFresh
<1>6. ASSUME NEW c \in Codes PROVE AttemptsOK(c)
  <2>1. code[c].attempts = 0
    BY DEF Init, NoRow
  <2> QED
    BY <2>1, MissesCount, Constants, CountType DEF AttemptsOK
<1> QED
  BY <1>2, <1>3, <1>4, <1>5, <1>6 DEF Inv

(***************************************************************************)
(* How the tables change in one step.                                      *)
(***************************************************************************)
CodesStep ==
    /\ uses' \in [Codes -> Nat]
    /\ \/ UNCHANGED <<now, code, closedAt>>
       \/ \E t \in Nat, rows \in [Codes -> CodeRow] : t >= now /\ Change(t, rows)

UserStep ==
    \/ UNCHANGED userVars
    \/ \E row \in UserRow :
           /\ row.status = "present" /\ row.password \in Passwords
           /\ WriteUser(row)

\* What a step does to the history.
CodeKept(c) ==
    \/ closedAt'[c] = now
    \/ closedAt'[c] = closedAt[c] /\ (Usable(code[c], now) => Usable(code[c], now)')

PasswordKept(p) ==
    \/ replacedAt'[p] = now
    \/ replacedAt'[p] = replacedAt[p] /\ (p = user.password => p = user.password')

BlockKept ==
    \/ blockedAt' = now
    \/ blockedAt' = blockedAt /\ (user.blocked' => user.blocked)

LEMMA CodesHistory ==
    ASSUME Inv, CodesStep
    PROVE  /\ now' \in Nat /\ now' >= now
           /\ code' \in [Codes -> CodeRow] /\ closedAt' \in [Codes -> Int]
           /\ uses' \in [Codes -> Nat]
           /\ \A c \in Codes : CodeKept(c)
<1>1. now \in Nat /\ code \in [Codes -> CodeRow] /\ closedAt \in [Codes -> Int]
  BY DEF Inv, TypeOK
<1>2. CASE UNCHANGED <<now, code, closedAt>>
  BY <1>1, <1>2 DEF CodesStep, CodeKept, Usable
<1>3. ASSUME NEW t \in Nat, NEW rows \in [Codes -> CodeRow], t >= now, Change(t, rows)
      PROVE  /\ now' \in Nat /\ now' >= now
             /\ code' \in [Codes -> CodeRow] /\ closedAt' \in [Codes -> Int]
             /\ \A c \in Codes : CodeKept(c)
  <2>1. now' = t /\ code' = rows /\ closedAt' \in [Codes -> Int]
    BY <1>1, <1>3 DEF Change
  <2>2. ASSUME NEW c \in Codes PROVE CodeKept(c)
    <3>1. closedAt'[c] = IF Usable(code[c], now) /\ ~Usable(rows[c], t)
                         THEN now ELSE closedAt[c]
      BY <1>3 DEF Change
    <3>2. Usable(code[c], now)' <=> Usable(rows[c], t)
      BY <2>1 DEF Usable
    <3> QED
      BY <3>1, <3>2 DEF CodeKept
  <2> QED
    BY <2>1, <2>2, <1>3
<1> QED
  BY <1>2, <1>3 DEF CodesStep

LEMMA UserHistory ==
    ASSUME Inv, UserStep
    PROVE  /\ user' \in UserRow /\ UserOK'
           /\ replacedAt' \in [Passwords -> Int] /\ blockedAt' \in Int
           /\ user.status = "present" => user'.status = "present"
           /\ \A p \in Passwords : PasswordKept(p)
           /\ BlockKept
<1>1. /\ user \in UserRow /\ UserOK /\ now \in Nat
      /\ replacedAt \in [Passwords -> Int] /\ blockedAt \in Int
  BY DEF Inv, TypeOK
<1>2. CASE UNCHANGED userVars
  BY <1>1, <1>2 DEF userVars, UserOK, PasswordKept, BlockKept
<1>3. ASSUME NEW row \in UserRow, row.status = "present", row.password \in Passwords,
             WriteUser(row)
      PROVE  /\ user' \in UserRow /\ UserOK'
             /\ replacedAt' \in [Passwords -> Int] /\ blockedAt' \in Int
             /\ user.status = "present" => user'.status = "present"
             /\ \A p \in Passwords : PasswordKept(p)
             /\ BlockKept
  <2>1. user' = row /\ UserOK'
    BY <1>3 DEF WriteUser, UserOK
  <2>2. replacedAt' \in [Passwords -> Int] /\ \A p \in Passwords : PasswordKept(p)
    BY <1>1, <1>3, <2>1 DEF WriteUser, PasswordKept
  <2>3. blockedAt' \in Int /\ BlockKept
    BY <1>1, <1>3, <2>1 DEF WriteUser, BlockKept
  <2> QED
    BY <2>1, <2>2, <2>3, <1>3
<1> QED
  BY <1>2, <1>3 DEF UserStep

\* A request that does not move stays recent, whatever the tables do.
LEMMA RecentStays ==
    ASSUME Inv, CodesStep, UserStep, NEW r \in Request, Recent(r)
    PROVE  Recent(r)'
<1>1. /\ now \in Nat /\ now' \in Nat /\ now' >= now
      /\ closedAt \in [Codes -> Int] /\ replacedAt \in [Passwords -> Int] /\ blockedAt \in Int
      /\ closedAt' \in [Codes -> Int] /\ replacedAt' \in [Passwords -> Int] /\ blockedAt' \in Int
  BY CodesHistory, UserHistory DEF Inv, TypeOK
<1>2. WellFormed(r)'
  BY <1>1, Constants, UserHistory DEF Recent, WellFormed
<1>3. CodeFresh(r)'
  <2> SUFFICES ASSUME r.pc = "commit", r.code \in Codes
               PROVE  Usable(code[r.code], now)' \/ r.deadline <= closedAt'[r.code] + Timeout
    BY DEF CodeFresh, Usable
  <2>1. CodeKept(r.code)
    BY CodesHistory
  <2>2. /\ Usable(code[r.code], now) \/ r.deadline <= closedAt[r.code] + Timeout
        /\ r.deadline \in Nat /\ r.deadline <= now + Timeout
    BY DEF Recent, CodeFresh, WellFormed
  <2> QED
    BY <1>1, <2>1, <2>2, Constants DEF CodeKept
<1>4. SeenFresh(r)'
  <2> SUFFICES ASSUME r.pc = "grant" \/ (r.pc \in {"code", "commit"} /\ r.op # "verify")
               PROVE  r.seen = user'.password \/ r.deadline <= replacedAt'[r.seen] + Timeout
    BY DEF SeenFresh
  <2>1. /\ r.seen = user.password \/ r.deadline <= replacedAt[r.seen] + Timeout
        /\ r.deadline \in Nat /\ r.deadline <= now + Timeout
        /\ r.seen \in Passwords
    BY DEF Recent, SeenFresh, WellFormed
  <2>2. PasswordKept(r.seen)
    BY <2>1, UserHistory
  <2> QED
    BY <1>1, <2>1, <2>2, Constants DEF PasswordKept
<1>5. BlockFresh(r)'
  <2> SUFFICES ASSUME r.pc = "grant", user'.blocked
               PROVE  r.deadline <= blockedAt' + Timeout
    BY DEF BlockFresh
  <2>1. /\ user.blocked => r.deadline <= blockedAt + Timeout
        /\ r.deadline \in Nat /\ r.deadline <= now + Timeout
    BY DEF Recent, BlockFresh, WellFormed
  <2> QED
    BY <1>1, <2>1, UserHistory, Constants DEF BlockKept
<1>6. RefreshFresh(r)'
  <2> SUFFICES ASSUME r.pc = "user"
               PROVE  \/ r.seen = user'.password
                      \/ r.deadline <= replacedAt'[r.seen] + 2 * Timeout + RefreshExpiry
    BY DEF RefreshFresh
  <2>1. /\ \/ r.seen = user.password
           \/ r.deadline <= replacedAt[r.seen] + 2 * Timeout + RefreshExpiry
        /\ r.deadline \in Nat /\ r.deadline <= now + Timeout
        /\ r.seen \in Passwords
    BY DEF Recent, RefreshFresh, WellFormed
  <2>2. PasswordKept(r.seen)
    BY <2>1, UserHistory
  <2> QED
    BY <1>1, <2>1, <2>2, Constants DEF PasswordKept
<1> QED
  BY <1>2, <1>3, <1>4, <1>5, <1>6 DEF Recent

\* Tokens that are not renewed stay bounded, whatever the tables do.
LEMMA TokensStay ==
    ASSUME Inv, CodesStep, UserStep, NEW p \in Passwords, session'[p] = session[p]
    PROVE  TokensBounded(p)'
<1>1. /\ now \in Nat /\ now' \in Nat /\ now' >= now
      /\ replacedAt \in [Passwords -> Int] /\ blockedAt \in Int
      /\ replacedAt' \in [Passwords -> Int] /\ blockedAt' \in Int
      /\ user \in UserRow /\ user' \in UserRow
      /\ PasswordKept(p) /\ BlockKept
      /\ user.status = "present" => user'.status = "present"
  BY CodesHistory, UserHistory DEF Inv, TypeOK
<1>2. PICK a \in Int, f \in Int : session[p].access = a /\ session[p].refresh = f
  BY DEF Inv, TypeOK, Tokens
<1>3. TokensBounded(p)
  BY DEF Inv
<1>4. /\ a <= now + AccessExpiry /\ f <= now + RefreshExpiry
      /\ user.status = "none" => a < 0 /\ f < 0
      /\ p # user.password =>
             /\ f <= replacedAt[p] + Timeout + RefreshExpiry
             /\ a <= replacedAt[p] + 2 * Timeout + RefreshExpiry + AccessExpiry
      /\ user.blocked => a <= blockedAt + Timeout + AccessExpiry
  BY <1>2, <1>3 DEF TokensBounded
<1>5. user'.status = "none" => a < 0 /\ f < 0
  <2>1. user.status = "none" \/ user.status = "present"
    BY <1>1 DEF UserRow
  <2> QED
    BY <2>1, <1>1, <1>4
<1>6. p # user'.password =>
          /\ f <= replacedAt'[p] + Timeout + RefreshExpiry
          /\ a <= replacedAt'[p] + 2 * Timeout + RefreshExpiry + AccessExpiry
  BY <1>1, <1>2, <1>4, Constants DEF PasswordKept
<1>7. ASSUME user'.blocked PROVE a <= blockedAt' + Timeout + AccessExpiry
  <2>1. PICK n \in Nat, b \in Int : n = now /\ b = blockedAt'
    BY <1>1
  <2>2. CASE b = n
    <3>1. a <= n + AccessExpiry
      BY <1>4, <2>1, Zenon
    <3>2. a <= b + Timeout + AccessExpiry
      BY <2>2, <3>1, Constants
    <3> QED
      BY <2>1, <3>2
  <2>3. CASE b = blockedAt /\ user.blocked
    BY <1>4, <2>1, <2>3, Zenon
  <2> QED
    BY <1>1, <1>7, <2>1, <2>2, <2>3 DEF BlockKept
<1>8. PICK n \in Nat, t \in Nat : n = now /\ t = now' /\ n <= t
  BY <1>1
<1>9. a <= n + AccessExpiry /\ f <= n + RefreshExpiry
  BY <1>4, <1>8, Zenon
<1>10. a <= t + AccessExpiry /\ f <= t + RefreshExpiry
  BY <1>8, <1>9, Constants, LaterBound
<1>11. a <= now' + AccessExpiry /\ f <= now' + RefreshExpiry
  BY <1>8, <1>10, Zenon
<1> QED
  BY <1>2, <1>5, <1>6, <1>7, <1>11 DEF TokensBounded

(***************************************************************************)
(* Counting wrong guesses.                                                 *)
(***************************************************************************)
\* A step after which no more guesses at c are in flight, nor counted.
LEMMA AttemptsStay ==
    ASSUME Inv, NEW c \in Codes, NEW w \in Workers, NEW r,
           req' = [req EXCEPT ![w] = r], ~(r.pc = "miss" /\ r.code = c),
           code' \in [Codes -> CodeRow], code'[c].attempts <= code[c].attempts
    PROVE  AttemptsOK(c)'
<1>1. Misses(c)' \subseteq Misses(c) /\ IsFiniteSet(Misses(c))
  <2>1. req \in [Workers -> Request]
    BY DEF Inv, TypeOK
  <2>2. IsFiniteSet(Misses(c))
    BY Constants, FS_Subset DEF Misses
  <2> QED
    BY <2>1, <2>2 DEF Misses
<1>2. PICK m \in Nat, k \in Nat : m = Cardinality(Misses(c)) /\ k = Cardinality(Misses(c)')
  BY <1>1, FS_Subset, FS_CardinalityType, MissesCount
<1>3. k <= m
  BY <1>1, <1>2, FS_Subset
<1>4. PICK a \in Nat, b \in Nat : a = code[c].attempts /\ b = code'[c].attempts
  BY DEF Inv, TypeOK, CodeRow
<1>5. a + m <= MaxAttempts - 1 + Cardinality(Workers)
  BY <1>2, <1>4 DEF Inv, AttemptsOK
<1>6. b + k <= MaxAttempts - 1 + Cardinality(Workers)
  BY <1>3, <1>4, <1>5, Constants, CountType
<1> QED
  BY <1>2, <1>4, <1>6 DEF AttemptsOK

\* A new wrong guess is at a code that has attempts left.
LEMMA AttemptsGuessed ==
    ASSUME Inv, NEW c \in Codes, code' = code, code[c].attempts < MaxAttempts
    PROVE  AttemptsOK(c)'
<1>1. Misses(c)' \subseteq Workers
  BY DEF Misses
<1>2. PICK k \in Nat, n \in Nat : k = Cardinality(Misses(c)') /\ n = Cardinality(Workers) /\ k <= n
  BY <1>1, Constants, FS_Subset, FS_CardinalityType
<1>3. PICK a \in Nat : a = code[c].attempts
  BY DEF Inv, TypeOK, CodeRow
<1>4. a + k <= MaxAttempts - 1 + n
  BY <1>2, <1>3, Constants
<1> QED
  BY <1>2, <1>3, <1>4 DEF AttemptsOK

\* A counted guess is in flight no more.
LEMMA AttemptsCounted ==
    ASSUME Inv, NEW w \in Workers, req[w].pc = "miss", NEW c \in Codes, req[w].code = c,
           req' = [req EXCEPT ![w] = Idle], code' \in [Codes -> CodeRow],
           code'[c].attempts <= code[c].attempts + 1
    PROVE  AttemptsOK(c)'
<1>1. w \in Misses(c) /\ IsFiniteSet(Misses(c)) /\ Misses(c)' = Misses(c) \ {w}
  <2>1. req \in [Workers -> Request]
    BY DEF Inv, TypeOK
  <2>2. IsFiniteSet(Misses(c))
    BY Constants, FS_Subset DEF Misses
  <2> QED
    BY <2>1, <2>2, IdleRequest DEF Misses
<1>2. PICK m \in Nat, k \in Nat :
          m = Cardinality(Misses(c)) /\ k = Cardinality(Misses(c)') /\ k = m - 1
  <2>1. PICK S : S = Misses(c)
    OBVIOUS
  <2>2. IsFiniteSet(S) /\ w \in S /\ Misses(c)' = S \ {w} /\ IsFiniteSet(S \ {w})
    BY <1>1, <2>1, FS_RemoveElement
  <2>3. Cardinality(S \ {w}) = Cardinality(S) - 1
    BY <2>2, FS_RemoveElement
  <2>4. Cardinality(S) \in Nat /\ Cardinality(S \ {w}) \in Nat
    BY <2>2, FS_CardinalityType
  <2> QED
    BY <2>1, <2>2, <2>3, <2>4
<1>3. PICK a \in Nat, b \in Nat : a = code[c].attempts /\ b = code'[c].attempts /\ b <= a + 1
  BY DEF Inv, TypeOK, CodeRow
<1>4. a + m <= MaxAttempts - 1 + Cardinality(Workers)
  BY <1>2, <1>3 DEF Inv, AttemptsOK
<1>5. b + k <= MaxAttempts - 1 + Cardinality(Workers)
  BY <1>2, <1>3, <1>4, Constants, CountType
<1> QED
  BY <1>2, <1>3, <1>5 DEF AttemptsOK

-----------------------------------------------------------------------------
(***************************************************************************)
(* A step that moves one request.                                          *)
(***************************************************************************)
LEMMA RequestMoves ==
    ASSUME Inv, CodesStep, UserStep, NEW w \in Workers, NEW r \in Request,
           req' = [req EXCEPT ![w] = r], Recent(r)',
           session' \in [Passwords -> Tokens], \A p \in Passwords : TokensBounded(p)',
           \A c \in Codes : AttemptsOK(c)'
    PROVE  Inv'
<1>1. TypeOK'
  BY CodesHistory, UserHistory DEF Inv, TypeOK
<1>2. ASSUME NEW v \in Workers PROVE Recent(req[v])'
  <2>1. req \in [Workers -> Request]
    BY DEF Inv, TypeOK
  <2>2. CASE v = w
    <3>1. req'[v] = r
      BY <2>1, <2>2
    <3> QED
      BY <3>1 DEF Recent, WellFormed, CodeFresh, SeenFresh, BlockFresh, RefreshFresh, Usable
  <2>3. CASE v # w
    <3>1. PICK q \in Request : q = req[v]
      BY <2>1
    <3>2. Recent(q)
      BY <3>1 DEF Inv
    <3>3. Recent(q)'
      BY <3>1, <3>2, RecentStays
    <3>4. req'[v] = q
      BY <2>1, <2>3, <3>1
    <3> QED
      BY <3>3, <3>4 DEF Recent, WellFormed, CodeFresh, SeenFresh, BlockFresh, RefreshFresh, Usable
  <2> QED
    BY <2>2, <2>3
<1>3. (\A v \in Workers : Recent(req[v]))'
  BY <1>2
<1> QED
  BY <1>1, <1>3, UserHistory DEF Inv

\* Most steps touch neither tokens nor attempts.
LEMMA RequestMovesOnly ==
    ASSUME Inv, CodesStep, UserStep, NEW w \in Workers, NEW r \in Request,
           req' = [req EXCEPT ![w] = r], Recent(r)', session' = session,
           \A c \in Codes : AttemptsOK(c)'
    PROVE  Inv'
<1>1. \A p \in Passwords : TokensBounded(p)'
  BY TokensStay
<1>2. session' \in [Passwords -> Tokens]
  BY DEF Inv, TypeOK
<1> QED
  BY <1>1, <1>2, RequestMoves

\* A step that replies.
LEMMA Replied ==
    ASSUME Inv, CodesStep, UserStep, NEW w \in Workers, Reply(w), session' = session,
           \A c \in Codes : AttemptsOK(c)'
    PROVE  Inv'
<1>1. Recent(Idle)'
  BY IdleRequest DEF Recent, WellFormed, CodeFresh, SeenFresh, BlockFresh, RefreshFresh
<1> QED
  BY <1>1, IdleRequest, RequestMovesOnly DEF Reply

-----------------------------------------------------------------------------
(***************************************************************************)
(* One action at a time.                                                   *)
(***************************************************************************)
TablesStand == UNCHANGED <<now, userVars, codeVars>>

LEMMA TablesStandStep ==
    ASSUME Inv, TablesStand
    PROVE  CodesStep /\ UserStep /\ code' \in [Codes -> CodeRow] /\ code' = code
  BY DEF TablesStand, CodesStep, UserStep, userVars, codeVars, Inv, TypeOK

\* A request is read or looked up, and nothing is written.
LEMMA OnlyMoves ==
    ASSUME Inv, TablesStand, session' = session, NEW w \in Workers, NEW r \in Request,
           req' = [req EXCEPT ![w] = r], Recent(r), r.pc # "miss"
    PROVE  Inv'
<1>1. Recent(r)'
  BY TablesStandStep, RecentStays
<1>2. ASSUME NEW c \in Codes PROVE AttemptsOK(c)'
  <2>1. code'[c].attempts <= code[c].attempts
    BY TablesStandStep DEF Inv, TypeOK, CodeRow
  <2> QED
    BY <2>1, TablesStandStep, AttemptsStay
<1> QED
  BY <1>1, <1>2, TablesStandStep, RequestMovesOnly

LEMMA FailInv == ASSUME Inv, NEW w \in Workers, Fail(w) PROVE Inv'
<1>1. Recent(Idle) /\ Idle.pc # "miss"
  BY IdleRequest DEF Recent, WellFormed, CodeFresh, SeenFresh, BlockFresh, RefreshFresh
<1> QED
  BY <1>1, IdleRequest, OnlyMoves DEF Fail, Reply, TablesStand

\* What an arrival writes down is so when it writes it.
LEMMA Arrived ==
    ASSUME Inv, TablesStand, session' = session, NEW w \in Workers, NEW op \in UserOps,
           NEW pc \in {"create", "code", "commit", "issue", "grant", "user"},
           NEW seen \in Passwords \cup {NoPassword}, NEW new \in Passwords \cup {NoPassword},
           NEW e \in Nat,
           req' = [req EXCEPT ![w] =
                      [op |-> op, pc |-> pc, code |-> NoCode, seen |-> seen, new |-> new,
                       expires |-> e, deadline |-> now + Timeout]],
           pc = "code" => op \in {"verify", "reset"},
           pc = "commit" => op = "change",
           pc \in {"code", "commit"} /\ op # "verify" =>
               seen = user.password /\ seen \in Passwords /\ new \in Passwords,
           pc = "create" => new \in Passwords,
           pc \in {"grant", "user"} => seen \in Passwords,
           pc \in {"code", "commit", "grant", "user"} => user.status = "present",
           pc = "grant" => seen = user.password /\ ~user.blocked,
           pc = "user" => \/ seen = user.password
                          \/ now <= replacedAt[seen] + Timeout + RefreshExpiry
    PROVE  Inv'
<1> DEFINE r == [op |-> op, pc |-> pc, code |-> NoCode, seen |-> seen, new |-> new,
                 expires |-> e, deadline |-> now + Timeout]
<1>1. now \in Nat /\ replacedAt \in [Passwords -> Int]
  BY DEF Inv, TypeOK
<1>2. r \in Request
  BY <1>1, Constants DEF Request
<1>3. WellFormed(r)
  BY <1>1, Constants DEF WellFormed
<1>4. CodeFresh(r) /\ SeenFresh(r) /\ BlockFresh(r)
  BY Constants DEF CodeFresh, SeenFresh, BlockFresh
<1>5. RefreshFresh(r)
  <2> SUFFICES ASSUME pc = "user", now <= replacedAt[seen] + Timeout + RefreshExpiry
               PROVE  now + Timeout <= replacedAt[seen] + 2 * Timeout + RefreshExpiry
    BY DEF RefreshFresh
  <2>1. replacedAt[seen] \in Int
    BY <1>1
  <2> QED
    BY <1>1, <2>1, Constants
<1>6. r.pc # "miss" /\ req' = [req EXCEPT ![w] = r]
  OBVIOUS
<1> HIDE DEF r
<1> QED
  BY <1>2, <1>3, <1>4, <1>5, <1>6, OnlyMoves DEF Recent

LEMMA ArrivalInv == ASSUME Inv, NEW w \in Workers, Arrival(w) PROVE Inv'
<1>1. /\ now \in Nat /\ now + OtpExpiry \in Nat /\ 0 \in Nat
      /\ user \in UserRow /\ UserOK
      /\ replacedAt \in [Passwords -> Int]
  BY Constants DEF Inv, TypeOK
<1>2. user.password \in Passwords \cup {NoPassword}
  BY <1>1 DEF UserRow
<1>3. ASSUME NEW p \in Passwords, Register(w, p) PROVE Inv'
  <2>1. /\ TablesStand /\ session' = session
        /\ req' = [req EXCEPT ![w] =
               [op |-> "register", pc |-> "create", code |-> NoCode, seen |-> NoPassword,
                new |-> p, expires |-> now + OtpExpiry, deadline |-> now + Timeout]]
    BY <1>3 DEF Register, Start, TablesStand
  <2> QED
    BY <1>1, <2>1, Arrived DEF UserOps
<1>4. ASSUME NEW p \in Passwords, RegisterResident(w, p) PROVE Inv'
  <2>1. /\ TablesStand /\ session' = session
        /\ req' = [req EXCEPT ![w] =
               [op |-> "register_resident", pc |-> "create", code |-> NoCode,
                seen |-> NoPassword, new |-> p, expires |-> 0, deadline |-> now + Timeout]]
    BY <1>4 DEF RegisterResident, Start, TablesStand
  <2> QED
    BY <1>1, <2>1, Arrived DEF UserOps
<1>5. CASE VerifyEmail(w)
  <2>1. /\ TablesStand /\ session' = session /\ user.status = "present"
        /\ req' = [req EXCEPT ![w] =
               [op |-> "verify", pc |-> "code", code |-> NoCode, seen |-> NoPassword,
                new |-> NoPassword, expires |-> 0, deadline |-> now + Timeout]]
    BY <1>5 DEF VerifyEmail, Start, TablesStand
  <2> QED
    BY <1>1, <2>1, Arrived DEF UserOps
<1>6. CASE ResendEmailOTP(w)
  <2>1. /\ TablesStand /\ session' = session
        /\ req' = [req EXCEPT ![w] =
               [op |-> "resend", pc |-> "issue", code |-> NoCode, seen |-> NoPassword,
                new |-> NoPassword, expires |-> now + OtpExpiry, deadline |-> now + Timeout]]
    BY <1>6 DEF ResendEmailOTP, Start, TablesStand
  <2> QED
    BY <1>1, <2>1, Arrived DEF UserOps
<1>7. CASE ForgotPassword(w)
  <2>1. /\ TablesStand /\ session' = session
        /\ req' = [req EXCEPT ![w] =
               [op |-> "forgot", pc |-> "issue", code |-> NoCode, seen |-> NoPassword,
                new |-> NoPassword, expires |-> now + OtpExpiry, deadline |-> now + Timeout]]
    BY <1>7 DEF ForgotPassword, Start, TablesStand
  <2> QED
    BY <1>1, <2>1, Arrived DEF UserOps
<1>8. ASSUME NEW p \in Passwords, ResetPassword(w, p) PROVE Inv'
  <2>1. /\ TablesStand /\ session' = session /\ user.status = "present"
        /\ req' = [req EXCEPT ![w] =
               [op |-> "reset", pc |-> "code", code |-> NoCode, seen |-> user.password,
                new |-> p, expires |-> 0, deadline |-> now + Timeout]]
    BY <1>8 DEF ResetPassword, Start, TablesStand
  <2> QED
    BY <1>1, <1>2, <2>1, Arrived DEF UserOps, UserOK
<1>9. ASSUME NEW p \in Passwords, ChangePassword(w, p) PROVE Inv'
  <2>1. /\ TablesStand /\ session' = session
        /\ req' = [req EXCEPT ![w] =
               [op |-> "change", pc |-> "commit", code |-> NoCode, seen |-> user.password,
                new |-> p, expires |-> 0, deadline |-> now + Timeout]]
    BY <1>9 DEF ChangePassword, Start, TablesStand
  <2>2. PICK q \in Passwords : now < session[q].access
    BY <1>9 DEF ChangePassword
  <2>3. TokensBounded(q) /\ session[q].access \in Int
    BY DEF Inv, TypeOK, Tokens
  <2>4. user.status = "present"
    BY <1>1, <2>2, <2>3 DEF TokensBounded, UserRow
  <2>5. PICK s \in Passwords : s = user.password
    BY <1>1, <2>4 DEF UserOK
  <2>6. req' = [req EXCEPT ![w] =
            [op |-> "change", pc |-> "commit", code |-> NoCode, seen |-> s, new |-> p,
             expires |-> 0, deadline |-> now + Timeout]]
    BY <2>1, <2>5
  <2>7. TablesStand /\ session' = session
    BY <2>1
  <2>8. "change" \in UserOps
    BY DEF UserOps
  <2> QED
    BY <2>4, <2>5, <2>6, <2>7, <2>8, Arrived, ZenonT(60)
<1>10. CASE Login(w)
  <2>1. /\ TablesStand /\ session' = session /\ user.status = "present" /\ ~user.blocked
        /\ req' = [req EXCEPT ![w] =
               [op |-> "login", pc |-> "grant", code |-> NoCode, seen |-> user.password,
                new |-> NoPassword, expires |-> 0, deadline |-> now + Timeout]]
    BY <1>10 DEF Login, Start, TablesStand
  <2> QED
    BY <1>1, <1>2, <2>1, Arrived DEF UserOps, UserOK
<1>11. ASSUME NEW p \in Passwords, Refresh(w, p) PROVE Inv'
  <2>1. /\ TablesStand /\ session' = session /\ now < session[p].refresh
        /\ req' = [req EXCEPT ![w] =
               [op |-> "refresh", pc |-> "user", code |-> NoCode, seen |-> p,
                new |-> NoPassword, expires |-> 0, deadline |-> now + Timeout]]
    BY <1>11 DEF Refresh, Start, TablesStand
  <2>2. TokensBounded(p) /\ session[p].refresh \in Int /\ replacedAt[p] \in Int
    BY DEF Inv, TypeOK, Tokens
  <2>3. /\ user.status = "present"
        /\ p = user.password \/ now <= replacedAt[p] + Timeout + RefreshExpiry
    BY <1>1, <2>1, <2>2, Constants DEF TokensBounded, UserRow
  <2> QED
    BY <1>1, <2>1, <2>3, Arrived DEF UserOps
<1> QED
  BY <1>3, <1>4, <1>5, <1>6, <1>7, <1>8, <1>9, <1>10, <1>11 DEF Arrival

LEMMA ReadCodeInv == ASSUME Inv, NEW w \in Workers, ReadCode(w) PROVE Inv'
<1>1. PICK q \in Request : q = req[w] /\ q.pc = "code" /\ Recent(q)
  BY DEF ReadCode, At, Inv, TypeOK
<1>2. TablesStand /\ session' = session
  BY DEF ReadCode, TablesStand
<1>3. PICK c \in Codes :
          /\ Usable(code[c], now)
          /\ \/ req' = [req EXCEPT ![w].pc = "commit", ![w].code = c]
             \/ req' = [req EXCEPT ![w] = Rejected(w, c)]
  BY DEF ReadCode
<1>4. q.deadline \in Nat /\ q.deadline <= now + Timeout /\ q.op \in {"verify", "reset"}
  BY <1>1 DEF Recent, WellFormed
<1>5. CASE req' = [req EXCEPT ![w].pc = "commit", ![w].code = c]
  <2> DEFINE r == [q EXCEPT !.pc = "commit", !.code = c]
  <2>1. r \in Request
    BY <1>1 DEF Request
  <2>2. r.pc = "commit" /\ r.code = c /\ r.op = q.op /\ r.seen = q.seen /\ r.new = q.new
        /\ r.deadline = q.deadline
    BY <1>1 DEF Request
  <2>3. req' = [req EXCEPT ![w] = r]
    BY <1>1, <1>5 DEF Inv, TypeOK
  <2> HIDE DEF r
  <2>4. WellFormed(r)
    BY <1>1, <1>4, <2>2 DEF Recent, WellFormed
  <2>5. CodeFresh(r) /\ BlockFresh(r) /\ RefreshFresh(r)
    BY <1>3, <2>2 DEF CodeFresh, BlockFresh, RefreshFresh
  <2>6. SeenFresh(r)
    BY <1>1, <2>2 DEF Recent, SeenFresh
  <2> QED
    BY <1>2, <2>1, <2>2, <2>3, <2>4, <2>5, <2>6, OnlyMoves DEF Recent
<1>6. CASE req' = [req EXCEPT ![w] = Rejected(w, c)]
  <2>1. Rejected(w, c) \in Request
    BY <1>1, <1>4 DEF Rejected, Idle, Request, UserOps
  <2>2. PICK r \in Request :
            /\ req' = [req EXCEPT ![w] = r]
            /\ r.pc = "miss" /\ r.code = c /\ r.op = "none" /\ r.deadline = q.deadline
    BY <1>1, <1>6, <2>1 DEF Rejected, Idle
  <2>4. WellFormed(r)
    BY <1>4, <2>2 DEF WellFormed
  <2>5. CodeFresh(r) /\ SeenFresh(r) /\ BlockFresh(r) /\ RefreshFresh(r)
    BY <2>2 DEF CodeFresh, SeenFresh, BlockFresh, RefreshFresh
  <2>6. Recent(r)'
    BY <1>2, <2>4, <2>5, TablesStandStep, RecentStays DEF Recent
  <2>7. ASSUME NEW d \in Codes PROVE AttemptsOK(d)'
    <3>1. code' = code /\ code'[d].attempts <= code[d].attempts /\ code' \in [Codes -> CodeRow]
      BY <1>2, TablesStandStep DEF Inv, TypeOK, CodeRow
    <3>2. CASE d = c
      BY <1>3, <3>1, <3>2, AttemptsGuessed DEF Usable
    <3>3. CASE d # c
      BY <2>2, <3>1, <3>3, AttemptsStay
    <3> QED
      BY <3>2, <3>3
  <2> QED
    BY <1>2, <2>2, <2>6, <2>7, TablesStandStep, RequestMovesOnly
<1> QED
  BY <1>3, <1>5, <1>6

LEMMA IncrementAttemptsInv == ASSUME Inv, NEW w \in Workers, IncrementAttempts(w) PROVE Inv'
<1> DEFINE c    == req[w].code
           rows == [code EXCEPT ![c].attempts = IF code[c].status = "deleted" THEN @ ELSE @ + 1]
<1>1. req[w].pc = "miss" /\ Change(now, rows) /\ req' = [req EXCEPT ![w] = Idle]
      /\ UNCHANGED userVars /\ session' = session
  BY DEF IncrementAttempts, At, Reply
<1>2. c \in Codes
  BY <1>1 DEF Inv, Recent, WellFormed
<1>3. code \in [Codes -> CodeRow] /\ now \in Nat
  BY DEF Inv, TypeOK
<1>4. /\ rows \in [Codes -> CodeRow]
      /\ rows[c].attempts <= code[c].attempts + 1
      /\ \A d \in Codes : d # c => rows[d].attempts <= code[d].attempts
  BY <1>2, <1>3 DEF CodeRow
<1> HIDE DEF rows
<1>5. CodesStep /\ UserStep /\ code' = rows
  <2>1. UserStep
    BY <1>1 DEF UserStep
  <2>2. CodesStep
    BY <1>1, <1>3, <1>4 DEF CodesStep, IncrementAttempts, Inv, TypeOK
  <2>3. code' = rows
    BY <1>1 DEF Change
  <2> QED
    BY <2>1, <2>2, <2>3
<1>6. ASSUME NEW d \in Codes PROVE AttemptsOK(d)'
  <2>1. CASE d = c
    BY <1>1, <1>4, <1>5, <2>1, AttemptsCounted
  <2>2. CASE d # c
    BY <1>1, <1>4, <1>5, <2>2, IdleRequest, AttemptsStay
  <2> QED
    BY <2>1, <2>2
<1> QED
  BY <1>1, <1>5, <1>6, Replied DEF Reply

\* Writes to the codes that add no attempts.
CodesKeepAttempts ==
    /\ uses' \in [Codes -> Nat]
    /\ \E rows \in [Codes -> CodeRow] :
           Change(now, rows) /\ \A c \in Codes : rows[c].attempts <= code[c].attempts

LEMMA CodesKeepAttemptsStep ==
    ASSUME Inv, CodesKeepAttempts \/ UNCHANGED <<now, codeVars>>
    PROVE  /\ CodesStep
           /\ code' \in [Codes -> CodeRow]
           /\ \A c \in Codes : code'[c].attempts <= code[c].attempts
<1>1. now \in Nat /\ code \in [Codes -> CodeRow] /\ uses \in [Codes -> Nat]
  BY DEF Inv, TypeOK
<1>2. CASE UNCHANGED <<now, codeVars>>
  BY <1>1, <1>2 DEF CodesStep, CodeRow, codeVars
<1>3. CASE CodesKeepAttempts
  BY <1>1, <1>3 DEF CodesKeepAttempts, CodesStep, Change
<1> QED
  BY <1>2, <1>3

LEMMA MarkAsUsedKeeps ==
    ASSUME Inv, NEW c, MarkAsUsed(c) PROVE CodesKeepAttempts
<1> DEFINE rows == [code EXCEPT ![c].status = IF @ = "deleted" THEN @ ELSE "used"]
<1>1. code \in [Codes -> CodeRow]
  BY DEF Inv, TypeOK
<1>2. ASSUME NEW x \in Codes PROVE rows[x] \in CodeRow /\ rows[x].attempts = code[x].attempts
  <2>1. code[x] \in CodeRow
    BY <1>1
  <2>2. rows[x] = code[x] \/ rows[x] = [code[x] EXCEPT !.status = code[x].status]
        \/ rows[x] = [code[x] EXCEPT !.status = "used"]
    BY <1>1
  <2> QED
    BY <2>1, <2>2 DEF CodeRow
<1>3. rows = [x \in Codes |-> rows[x]] /\ Change(now, rows)
  BY <1>1 DEF MarkAsUsed
<1>4. \A x \in Codes : code[x].attempts \in Nat
  BY <1>1 DEF CodeRow
<1>5. uses' \in [Codes -> Nat]
  <2>1. uses \in [Codes -> Nat] /\ uses' = [uses EXCEPT ![c] = uses[c] + 1]
    BY DEF MarkAsUsed, Inv, TypeOK
  <2>2. ASSUME NEW x \in Codes PROVE uses'[x] \in Nat
    <3>1. uses[x] \in Nat
      BY <2>1
    <3>2. uses'[x] = uses[x] \/ uses'[x] = uses[x] + 1
      BY <2>1
    <3> QED
      BY <3>1, <3>2
  <2>3. uses' = [x \in Codes |-> uses'[x]]
    BY <2>1
  <2> QED
    BY <2>2, <2>3
<1> HIDE DEF rows
<1>6. rows \in [Codes -> CodeRow] /\ \A x \in Codes : rows[x].attempts <= code[x].attempts
  BY <1>2, <1>3, <1>4
<1> QED
  BY <1>3, <1>5, <1>6 DEF CodesKeepAttempts

LEMMA IssueKeeps ==
    ASSUME Inv, NEW purpose \in Purposes, NEW e \in Nat, Issue(purpose, e), uses' = uses
    PROVE  CodesKeepAttempts
<1>1. code \in [Codes -> CodeRow]
  BY DEF Inv, TypeOK
<1>2. PICK c \in Codes :
          Change(now, [x \in Codes |->
               IF x = c
               THEN [status |-> "active", purpose |-> purpose, attempts |-> 0, expires |-> e]
               ELSE IF code[x].status = "active" /\ code[x].purpose = purpose
               THEN [code[x] EXCEPT !.status = "used"]
               ELSE code[x]])
  BY DEF Issue
<1> DEFINE rows == [x \in Codes |->
               IF x = c
               THEN [status |-> "active", purpose |-> purpose, attempts |-> 0, expires |-> e]
               ELSE IF code[x].status = "active" /\ code[x].purpose = purpose
               THEN [code[x] EXCEPT !.status = "used"]
               ELSE code[x]]
<1>3. ASSUME NEW x \in Codes PROVE rows[x] \in CodeRow /\ rows[x].attempts <= code[x].attempts
  <2>1. code[x] \in CodeRow
    BY <1>1
  <2> QED
    BY <2>1 DEF CodeRow
<1>4. rows \in [Codes -> CodeRow] /\ \A x \in Codes : rows[x].attempts <= code[x].attempts
  BY <1>3
<1> QED
  BY <1>2, <1>4 DEF CodesKeepAttempts, Inv, TypeOK

\* The requests that write and reply.
LEMMA CommitInv ==
    ASSUME Inv, NEW w \in Workers, UserStep, Reply(w), session' = session,
           CodesKeepAttempts \/ UNCHANGED <<now, codeVars>>
    PROVE  Inv'
<1>1. ASSUME NEW c \in Codes PROVE AttemptsOK(c)'
  BY IdleRequest, CodesKeepAttemptsStep, AttemptsStay DEF Reply
<1> QED
  BY <1>1, CodesKeepAttemptsStep, Replied

LEMMA WriteUserStep ==
    ASSUME NEW row \in UserRow, row.status = "present", row.password \in Passwords, WriteUser(row)
    PROVE  UserStep
  BY DEF UserStep

LEMMA CommitVerifyInv == ASSUME Inv, NEW w \in Workers, CommitVerify(w) PROVE Inv'
<1>1. user \in UserRow /\ UserOK /\ Recent(req[w])
  BY DEF Inv, TypeOK
<1>2. user.status = "present"
  BY <1>1 DEF CommitVerify, At, Recent, WellFormed
<1> DEFINE row == [user EXCEPT !.verified = TRUE]
<1>3. row \in UserRow /\ row.status = "present" /\ row.password \in Passwords
  BY <1>1, <1>2 DEF UserOK, UserRow
<1>4. WriteUser(row)
  BY DEF CommitVerify
<1> HIDE DEF row
<1>5. UserStep
  BY <1>3, <1>4, WriteUserStep
<1> QED
  BY <1>5, MarkAsUsedKeeps, CommitInv DEF CommitVerify

LEMMA NewPasswordRow ==
    ASSUME Inv, user.status = "present", NEW p \in Passwords, WriteUser([user EXCEPT !.password = p])
    PROVE  UserStep
<1>1. user \in UserRow
  BY DEF Inv, TypeOK
<1>2. PICK row \in UserRow : WriteUser(row) /\ row.status = "present" /\ row.password \in Passwords
  BY <1>1 DEF UserRow
<1> QED
  BY <1>2, WriteUserStep

LEMMA CommitResetInv == ASSUME Inv, NEW w \in Workers, CommitReset(w) PROVE Inv'
<1>1. user.status = "present" /\ req[w].new \in Passwords
  BY DEF CommitReset, At, Inv, Recent, WellFormed
<1> QED
  BY <1>1, NewPasswordRow, MarkAsUsedKeeps, CommitInv DEF CommitReset

LEMMA CommitChangeInv == ASSUME Inv, NEW w \in Workers, CommitChange(w) PROVE Inv'
<1>1. user.status = "present" /\ req[w].new \in Passwords
  BY DEF CommitChange, At, Inv, Recent, WellFormed
<1> QED
  BY <1>1, NewPasswordRow, CommitInv DEF CommitChange

LEMMA CommitIssueInv == ASSUME Inv, NEW w \in Workers, CommitIssue(w) PROVE Inv'
<1>1. req[w].expires \in Nat /\ PurposeOf(req[w].op) \in Purposes
  BY DEF Inv, TypeOK, Request, PurposeOf, Purposes
<1> QED
  BY <1>1, IssueKeeps, CommitInv DEF CommitIssue, UserStep

LEMMA CreateUserStep ==
    ASSUME NEW p \in Passwords, NEW verified \in BOOLEAN, CreateUser(p, verified)
    PROVE  UserStep /\ user'.status = "present" /\ user'.password = p /\ ~user'.blocked
<1> DEFINE row == [status |-> "present", verified |-> verified, blocked |-> FALSE, password |-> p]
<1>1. row \in UserRow /\ row.status = "present" /\ row.password = p /\ ~row.blocked
  BY DEF UserRow
<1>2. WriteUser(row) /\ user' = row
  BY DEF CreateUser, WriteUser
<1> HIDE DEF row
<1> QED
  BY <1>1, <1>2, WriteUserStep

LEMMA CommitRegisterInv == ASSUME Inv, NEW w \in Workers, CommitRegister(w) PROVE Inv'
<1>1. req[w].expires \in Nat /\ req[w].new \in Passwords
  BY DEF CommitRegister, At, Inv, TypeOK, Request, Recent, WellFormed
<1>2. UserStep
  BY <1>1, CreateUserStep DEF CommitRegister
<1>3. CodesKeepAttempts
  BY <1>1, IssueKeeps DEF CommitRegister, Purposes
<1> QED
  BY <1>2, <1>3, CommitInv DEF CommitRegister

LEMMA CommitRegisterResidentInv ==
    ASSUME Inv, NEW w \in Workers, CommitRegisterResident(w) PROVE Inv'
<1>1. PICK q \in Request : q = req[w] /\ q.pc = "create" /\ Recent(q)
  BY DEF CommitRegisterResident, At, Inv, TypeOK
<1>2. q.deadline \in Nat /\ q.deadline <= now + Timeout /\ q.new \in Passwords
  BY <1>1 DEF Recent, WellFormed
<1>3. UserStep /\ user'.status = "present" /\ user'.password = q.new /\ ~user'.blocked
  BY <1>1, <1>2, CreateUserStep DEF CommitRegisterResident
<1>4. UNCHANGED <<now, codeVars>> /\ UNCHANGED <<now, code>> /\ session' = session
  BY DEF CommitRegisterResident, codeVars
<1> DEFINE r == [q EXCEPT !.pc = "grant", !.seen = q.new]
<1>5. r \in Request
  BY <1>1 DEF Request
<1>6. r.pc = "grant" /\ r.seen = q.new /\ r.deadline = q.deadline
  BY <1>1 DEF Request
<1>7. req' = [req EXCEPT ![w] = r]
  BY <1>1 DEF CommitRegisterResident, Inv, TypeOK
<1> HIDE DEF r
<1>8. Recent(r)'
  <2>1. WellFormed(r)'
    BY <1>2, <1>3, <1>4, <1>6 DEF WellFormed
  <2>2. CodeFresh(r)' /\ SeenFresh(r)' /\ BlockFresh(r)' /\ RefreshFresh(r)'
    BY <1>3, <1>6 DEF CodeFresh, SeenFresh, BlockFresh, RefreshFresh
  <2> QED
    BY <2>1, <2>2 DEF Recent
<1>9. \A c \in Codes : AttemptsOK(c)'
  BY <1>4, <1>6, <1>7, CodesKeepAttemptsStep, AttemptsStay
<1> QED
  BY <1>3, <1>4, <1>5, <1>7, <1>8, <1>9, CodesKeepAttemptsStep, RequestMovesOnly

\* Tokens given to a request that is still recent.
LEMMA TokensGiven ==
    ASSUME Inv, TablesStand, NEW p \in Passwords, NEW a \in Int, NEW f \in Int,
           session'[p].access = a, session'[p].refresh = f,
           a <= now + AccessExpiry, f <= now + RefreshExpiry,
           user.status = "present",
           p # user.password =>
               /\ f <= replacedAt[p] + Timeout + RefreshExpiry
               /\ a <= replacedAt[p] + 2 * Timeout + RefreshExpiry + AccessExpiry,
           user.blocked => a <= blockedAt + Timeout + AccessExpiry
    PROVE  TokensBounded(p)'
<1>1. UNCHANGED <<now, user, replacedAt, blockedAt>>
  BY DEF TablesStand, userVars
<1> QED
  BY <1>1, Zenon DEF TokensBounded

\* Only the tokens of one password are given.
LEMMA OneSession ==
    ASSUME Inv, TablesStand, NEW p \in Passwords, NEW tok \in Tokens,
           session' = [session EXCEPT ![p] = tok], TokensBounded(p)'
    PROVE  session' \in [Passwords -> Tokens] /\ \A q \in Passwords : TokensBounded(q)'
<1>1. session \in [Passwords -> Tokens]
  BY DEF Inv, TypeOK
<1>2. session' \in [Passwords -> Tokens]
  BY <1>1
<1>3. ASSUME NEW q \in Passwords, q # p PROVE TokensBounded(q)'
  <2>1. session'[q] = session[q]
    BY <1>1, <1>3
  <2> QED
    BY <2>1, TablesStandStep, TokensStay
<1> QED
  BY <1>2, <1>3

LEMMA SessionInv ==
    ASSUME Inv, TablesStand, NEW w \in Workers, Reply(w), NEW p \in Passwords, NEW tok \in Tokens,
           session' = [session EXCEPT ![p] = tok], TokensBounded(p)'
    PROVE  Inv'
<1>1. Recent(Idle)'
  BY IdleRequest DEF Recent, WellFormed, CodeFresh, SeenFresh, BlockFresh, RefreshFresh
<1>2. \A c \in Codes : AttemptsOK(c)'
  BY IdleRequest, CodesKeepAttemptsStep, AttemptsStay DEF Reply, TablesStand
<1> QED
  BY <1>1, <1>2, IdleRequest, TablesStandStep, OneSession, RequestMoves DEF Reply

\* The arithmetic of the two steps that give tokens.
LEMMA GrantTimes ==
    ASSUME NEW n \in Nat, NEW d \in Nat, n <= d, NEW e \in Int, d <= e + Timeout
    PROVE  /\ n + RefreshExpiry <= e + Timeout + RefreshExpiry
           /\ n + AccessExpiry <= e + 2 * Timeout + RefreshExpiry + AccessExpiry
           /\ n + AccessExpiry <= e + Timeout + AccessExpiry
  BY Constants

LEMMA ReissueTimes ==
    ASSUME NEW n \in Nat, NEW d \in Nat, n <= d, NEW e \in Int,
           d <= e + 2 * Timeout + RefreshExpiry
    PROVE  n + AccessExpiry <= e + 2 * Timeout + RefreshExpiry + AccessExpiry
  BY Constants

LEMMA GrantInv == ASSUME Inv, NEW w \in Workers, Grant(w) PROVE Inv'
<1>1. PICK q \in Request : q = req[w] /\ q.pc = "grant" /\ now <= q.deadline /\ Recent(q)
  BY DEF Grant, At, Inv, TypeOK
<1>2. PICK p \in Passwords : p = q.seen
  BY <1>1 DEF Recent, WellFormed
<1>3. PICK d \in Nat : d = q.deadline
  BY <1>1 DEF Recent, WellFormed
<1>4. /\ user.status = "present"
      /\ p # user.password => d <= replacedAt[p] + Timeout
      /\ user.blocked => d <= blockedAt + Timeout
  BY <1>1, <1>2, <1>3 DEF Recent, WellFormed, SeenFresh, BlockFresh
<1>5. PICK n \in Nat, e \in Int, b \in Int : n = now /\ e = replacedAt[p] /\ b = blockedAt
  BY DEF Inv, TypeOK
<1>6. n <= d
  BY <1>1, <1>3, <1>5
<1>7. PICK a \in Int, f \in Int : a = n + AccessExpiry /\ f = n + RefreshExpiry
  BY <1>5, Constants
<1>8. /\ p # user.password =>
             f <= e + Timeout + RefreshExpiry /\ a <= e + 2 * Timeout + RefreshExpiry + AccessExpiry
      /\ user.blocked => a <= b + Timeout + AccessExpiry
  BY <1>4, <1>5, <1>6, <1>7, GrantTimes
<1>9. a <= now + AccessExpiry /\ f <= now + RefreshExpiry
  BY <1>5, <1>7, Constants
<1>10. session' = [session EXCEPT ![p] = [access |-> a, refresh |-> f]]
  BY <1>1, <1>2, <1>5, <1>7 DEF Grant
<1>11. session'[p].access = a /\ session'[p].refresh = f
  BY <1>10 DEF Inv, TypeOK
<1>12. TablesStand /\ Reply(w)
  BY DEF Grant, TablesStand
<1>13. TokensBounded(p)'
  BY <1>4, <1>5, <1>8, <1>9, <1>11, <1>12, TokensGiven
<1>14. [access |-> a, refresh |-> f] \in Tokens
  BY DEF Tokens
<1> QED
  BY <1>10, <1>12, <1>13, <1>14, SessionInv

LEMMA ReissueInv == ASSUME Inv, NEW w \in Workers, Reissue(w) PROVE Inv'
<1>1. PICK q \in Request :
          q = req[w] /\ q.pc = "user" /\ now <= q.deadline /\ Recent(q) /\ ~user.blocked
  BY DEF Reissue, At, Inv, TypeOK
<1>2. PICK p \in Passwords : p = q.seen
  BY <1>1 DEF Recent, WellFormed
<1>3. PICK d \in Nat : d = q.deadline
  BY <1>1 DEF Recent, WellFormed
<1>4. /\ user.status = "present"
      /\ p # user.password => d <= replacedAt[p] + 2 * Timeout + RefreshExpiry
  BY <1>1, <1>2, <1>3 DEF Recent, WellFormed, RefreshFresh
<1>5. PICK n \in Nat, e \in Int : n = now /\ e = replacedAt[p]
  BY DEF Inv, TypeOK
<1>6. n <= d
  BY <1>1, <1>3, <1>5
<1>7. PICK a \in Int, f \in Int : a = n + AccessExpiry /\ f = session[p].refresh
  BY <1>5, Constants DEF Inv, TypeOK, Tokens
<1>8. TokensBounded(p)
  BY DEF Inv
<1>9. /\ p # user.password => f <= e + Timeout + RefreshExpiry
      /\ f <= now + RefreshExpiry
  BY <1>5, <1>7, <1>8, Zenon DEF TokensBounded
<1>10. p # user.password => a <= e + 2 * Timeout + RefreshExpiry + AccessExpiry
  BY <1>4, <1>5, <1>6, <1>7, ReissueTimes
<1>11. a <= now + AccessExpiry
  BY <1>5, <1>7, Constants
<1>12. session' = [session EXCEPT ![p] = [access |-> a, refresh |-> f]]
  <2>1. session[p] \in Tokens
    BY DEF Inv, TypeOK
  <2>2. [session[p] EXCEPT !.access = a] = [access |-> a, refresh |-> f]
    BY <1>7, <2>1 DEF Tokens
  <2>3. session' = [session EXCEPT ![p] = [session[p] EXCEPT !.access = a]]
    BY <1>1, <1>2, <1>5, <1>7 DEF Reissue
  <2> QED
    BY <2>2, <2>3
<1>13. session'[p].access = a /\ session'[p].refresh = f
  BY <1>12 DEF Inv, TypeOK
<1>14. TablesStand /\ Reply(w)
  BY DEF Reissue, TablesStand
<1>15. TokensBounded(p)'
  BY <1>1, <1>4, <1>5, <1>9, <1>10, <1>11, <1>13, <1>14, TokensGiven
<1>16. [access |-> a, refresh |-> f] \in Tokens
  BY DEF Tokens
<1> QED
  BY <1>12, <1>14, <1>15, <1>16, SessionInv

-----------------------------------------------------------------------------
(***************************************************************************)
(* Steps of nobody's request.                                              *)
(***************************************************************************)
LEMMA TablesMove ==
    ASSUME Inv, CodesStep, UserStep, UNCHANGED <<session, req>>,
           \A c \in Codes : code'[c].attempts <= code[c].attempts
    PROVE  Inv'
<1>1. TypeOK'
  BY CodesHistory, UserHistory DEF Inv, TypeOK
<1>2. \A p \in Passwords : TokensBounded(p)'
  BY TokensStay
<1>3. ASSUME NEW w \in Workers PROVE Recent(req[w])'
  <2>1. PICK q \in Request : q = req[w] /\ Recent(q)
    BY DEF Inv, TypeOK
  <2>2. Recent(q)' /\ q = req'[w]
    BY <2>1, RecentStays
  <2> QED
    BY <2>2 DEF Recent, WellFormed, CodeFresh, SeenFresh, BlockFresh, RefreshFresh, Usable
<1>4. ASSUME NEW c \in Codes PROVE AttemptsOK(c)'
  <2>1. Misses(c)' = Misses(c)
    BY DEF Misses
  <2>2. PICK m \in Nat : m = Cardinality(Misses(c))
    BY MissesCount
  <2>3. PICK a \in Nat, b \in Nat : a = code[c].attempts /\ b = code'[c].attempts /\ b <= a
    BY CodesHistory DEF Inv, TypeOK, CodeRow
  <2>4. a + m <= MaxAttempts - 1 + Cardinality(Workers)
    BY <2>2, <2>3 DEF Inv, AttemptsOK
  <2>5. b + m <= MaxAttempts - 1 + Cardinality(Workers)
    BY <2>3, <2>4, Constants, CountType
  <2> QED
    BY <2>1, <2>2, <2>3, <2>5 DEF AttemptsOK
<1>5. (\A w \in Workers : Recent(req[w]))' /\ (\A c \in Codes : AttemptsOK(c))'
  BY <1>3, <1>4
<1> QED
  BY <1>1, <1>2, <1>5, UserHistory DEF Inv

LEMMA TickInv == ASSUME Inv, Tick PROVE Inv'
<1>1. now \in Nat /\ code \in [Codes -> CodeRow] /\ now + 1 \in Nat /\ now + 1 >= now
  BY DEF Inv, TypeOK
<1>2. CodesStep /\ code' = code
  BY <1>1 DEF Tick, CodesStep, Change, Inv, TypeOK
<1>3. \A c \in Codes : code'[c].attempts <= code[c].attempts
  BY <1>1, <1>2 DEF CodeRow
<1> QED
  BY <1>2, <1>3, TablesMove DEF Tick, UserStep

LEMMA DeleteInv == ASSUME Inv, DeleteUsedOrExpired PROVE Inv'
<1>1. code \in [Codes -> CodeRow]
  BY DEF Inv, TypeOK
<1> DEFINE Gone(c) == code[c].status = "used" \/ (code[c].status = "active" /\ code[c].expires < now)
           rows == [c \in Codes |-> IF Gone(c) THEN [NoRow EXCEPT !.status = "deleted"] ELSE code[c]]
<1>2. Change(now, rows)
  BY DEF DeleteUsedOrExpired
<1> HIDE DEF Gone
<1>3. ASSUME NEW c \in Codes PROVE rows[c] \in CodeRow /\ rows[c].attempts <= code[c].attempts
  <2>1. code[c] \in CodeRow
    BY <1>1
  <2>2. [NoRow EXCEPT !.status = "deleted"] \in CodeRow
        /\ [NoRow EXCEPT !.status = "deleted"].attempts = 0
    BY DEF NoRow, CodeRow, Purposes
  <2> QED
    BY <2>1, <2>2 DEF CodeRow
<1>4. rows \in [Codes -> CodeRow]
  BY <1>3
<1> HIDE DEF rows
<1>5. CodesKeepAttempts
  BY <1>2, <1>3, <1>4 DEF CodesKeepAttempts, DeleteUsedOrExpired, Inv, TypeOK
<1> QED
  BY <1>5, CodesKeepAttemptsStep, TablesMove DEF DeleteUsedOrExpired, UserStep

LEMMA BlockInv == ASSUME Inv, Block PROVE Inv'
<1>1. user \in UserRow /\ UserOK
  BY DEF Inv, TypeOK
<1> DEFINE row == [user EXCEPT !.blocked = TRUE]
<1>2. row \in UserRow /\ row.status = "present" /\ row.password \in Passwords
  BY <1>1 DEF Block, UserOK, UserRow
<1>3. WriteUser(row)
  BY DEF Block
<1> HIDE DEF row
<1>4. UserStep
  BY <1>2, <1>3, WriteUserStep
<1>5. /\ CodesStep
      /\ \A c \in Codes : code'[c].attempts <= code[c].attempts
  BY CodesKeepAttemptsStep DEF Block
<1> QED
  BY <1>4, <1>5, TablesMove DEF Block

LEMMA InvStep == Inv /\ [Next]_vars => Inv'
<1> SUFFICES ASSUME Inv, [Next]_vars PROVE Inv'
  OBVIOUS
<1>1. CASE UNCHANGED vars
  <2>1. UNCHANGED <<now, codeVars>> /\ UNCHANGED userVars /\ UNCHANGED <<session, req>>
    BY <1>1 DEF vars
  <2> QED
    BY <2>1, CodesKeepAttemptsStep, TablesMove DEF UserStep
<1>2. ASSUME NEW w \in Workers, Step(w) PROVE Inv'
  BY <1>2, ReadCodeInv, IncrementAttemptsInv, CommitVerifyInv, CommitResetInv, CommitChangeInv,
     CommitIssueInv, CommitRegisterInv, CommitRegisterResidentInv, GrantInv, ReissueInv DEF Step
<1>3. ASSUME NEW w \in Workers, Arrival(w) \/ Fail(w) PROVE Inv'
  BY <1>3, ArrivalInv, FailInv
<1> QED
  BY <1>1, <1>2, <1>3, TickInv, DeleteInv, BlockInv DEF Next

\* In every reachable state the invariant Inv holds: besides the types it says
\* how old what a request in flight has read can be, and counts the guesses that
\* were compared and are not yet written as attempts.
THEOREM Invariance == Spec => []Inv
<1> QED
  BY InitInv, InvStep, PTL DEF Spec

-----------------------------------------------------------------------------
\* Every variable keeps its type.
THEOREM TypeCorrect == Spec => []TypeOK
<1>1. Inv => TypeOK
  BY DEF Inv
<1> QED
  BY <1>1, Invariance, PTL

\* Guesses that race push a code past max_attempts by less than their number:
\* what is counted and what is in flight were all compared in time.
THEOREM GuessesBounded == Spec => []AttemptsBounded
<1>1. ASSUME Inv PROVE AttemptsBounded
  <2> SUFFICES ASSUME NEW c \in Codes
               PROVE  code[c].attempts <= MaxAttempts - 1 + Cardinality(Workers)
    BY DEF AttemptsBounded
  <2>1. PICK a \in Nat, m \in Nat : a = code[c].attempts /\ m = Cardinality(Misses(c))
    BY <1>1, MissesCount DEF Inv, TypeOK, CodeRow
  <2>2. a + m <= MaxAttempts - 1 + Cardinality(Workers)
    BY <1>1, <2>1 DEF Inv, AttemptsOK
  <2>3. a <= MaxAttempts - 1 + Cardinality(Workers)
    BY <2>1, <2>2, Constants, CountType
  <2> QED
    BY <2>1, <2>3
<1> QED
  BY <1>1, Invariance, PTL

\* Old passwords lock out: the bound is kept by what is in flight.
THEOREM OldPasswordsLockOut == Spec => []OldPasswordLockedOut
<1>1. Inv => OldPasswordLockedOut
  BY DEF Inv, TokensBounded, OldPasswordLockedOut
<1> QED
  BY <1>1, Invariance, PTL

\* A blocked account is out when one access token and one request have run out.
THEOREM BlockedLockOut == Spec => []BlockedLockedOut
<1>1. Inv => BlockedLockedOut
  BY DEF Inv, TokensBounded, BlockedLockedOut
<1> QED
  BY <1>1, Invariance, PTL

(***************************************************************************)
(* What a commit relies on is recent when it is made.                      *)
(***************************************************************************)
\* Only a commit in time moves a request at its commit and writes the user.
LEMMA Landing ==
    ASSUME Inv, [Next]_vars, NEW w \in Workers, req[w].pc = "commit", req'[w] # req[w],
           user' # user
    PROVE  now <= req[w].deadline
<1>1. req \in [Workers -> Request]
  BY DEF Inv, TypeOK
<1>2. ASSUME Next PROVE now <= req[w].deadline
  <2>1. \E v \in Workers : Arrival(v) \/ Step(v) \/ Fail(v)
    BY <1>2 DEF Next, Tick, DeleteUsedOrExpired, Block
  <2>2. PICK v \in Workers : Arrival(v) \/ Step(v) \/ Fail(v)
    BY <2>1
  <2>3. ~Arrival(v) /\ ~Fail(v)
    BY DEF Arrival, VerifyEmail, ResendEmailOTP, ForgotPassword, Login, Register, RegisterResident,
           ResetPassword, ChangePassword, Refresh, Start, Fail, userVars
  <2>4. Step(v)
    BY <2>2, <2>3
  <2>5. v = w
    BY <1>1, <2>4 DEF Step, ReadCode, IncrementAttempts, CommitVerify, CommitReset, CommitChange,
           CommitIssue, CommitRegister, CommitRegisterResident, Grant, Reissue, Reply
  <2> QED
    BY <2>4, <2>5 DEF Step, ReadCode, IncrementAttempts, CommitVerify, CommitReset, CommitChange,
           CommitIssue, CommitRegister, CommitRegisterResident, Grant, Reissue, At
<1> QED
  BY <1>2 DEF vars

LEMMA NotLater ==
    ASSUME NEW n \in Nat, NEW d \in Nat, n <= d, NEW e \in Int, d <= e + Timeout
    PROVE  n <= e + Timeout
  BY Constants

\* A code is used while it is good, or at most a timeout after.
THEOREM CodesAreFresh == Spec => CodeGrace
<1> DEFINE P(w) ==
        LET c == req[w].code IN
        req[w].pc = "commit" /\ c # NoCode /\ user' # user /\ req'[w] # req[w]
            => Usable(code[c], now) \/ now <= closedAt[c] + Timeout
<1>1. ASSUME Inv, [Next]_vars PROVE \A w \in Workers : P(w)
  <2> SUFFICES ASSUME NEW w \in Workers, req[w].pc = "commit", req[w].code # NoCode,
                      user' # user, req'[w] # req[w], ~Usable(code[req[w].code], now)
               PROVE  now <= closedAt[req[w].code] + Timeout
    OBVIOUS
  <2>1. PICK c \in Codes, d \in Nat :
            c = req[w].code /\ d = req[w].deadline /\ d <= closedAt[c] + Timeout
    BY <1>1 DEF Inv, TypeOK, Request, Recent, WellFormed, CodeFresh
  <2>2. PICK n \in Nat, e \in Int : n = now /\ e = closedAt[c] /\ n <= d
    BY <1>1, <2>1, Landing DEF Inv, TypeOK
  <2>3. n <= e + Timeout
    BY <2>1, <2>2, NotLater
  <2> QED
    BY <2>1, <2>2, <2>3
<1>2. Inv /\ [Next]_vars => [\A w \in Workers : P(w)]_vars
  BY <1>1
<1>3. CodeGrace <=> [][\A w \in Workers : P(w)]_vars
  BY DEF CodeGrace
<1> HIDE DEF P
<1> QED
  BY <1>2, <1>3, Invariance, PTL DEF Spec

\* A password is replaced by somebody who knows it, or knew it a timeout ago.
THEOREM PasswordsAreFresh == Spec => PasswordGrace
<1> DEFINE P(w) ==
        req[w].op \in {"reset", "change"} /\ req[w].pc = "commit" /\ req'[w] # req[w]
          /\ user' # user
            => req[w].seen = user.password \/ now <= replacedAt[req[w].seen] + Timeout
<1>1. ASSUME Inv, [Next]_vars PROVE \A w \in Workers : P(w)
  <2> SUFFICES ASSUME NEW w \in Workers, req[w].op \in {"reset", "change"},
                      req[w].pc = "commit", req'[w] # req[w], user' # user,
                      req[w].seen # user.password
               PROVE  now <= replacedAt[req[w].seen] + Timeout
    OBVIOUS
  <2>1. PICK p \in Passwords, d \in Nat :
            p = req[w].seen /\ d = req[w].deadline /\ d <= replacedAt[p] + Timeout
    BY <1>1 DEF Inv, TypeOK, Request, Recent, WellFormed, SeenFresh
  <2>2. PICK n \in Nat, e \in Int : n = now /\ e = replacedAt[p] /\ n <= d
    BY <1>1, <2>1, Landing DEF Inv, TypeOK
  <2>3. n <= e + Timeout
    BY <2>1, <2>2, NotLater
  <2> QED
    BY <2>1, <2>2, <2>3
<1>2. Inv /\ [Next]_vars
      => [\A w \in Workers :
             req[w].op \in {"reset", "change"} /\ req[w].pc = "commit" /\ req'[w] # req[w]
               /\ user' # user
                 => \/ req[w].seen = user.password
                    \/ now <= replacedAt[req[w].seen] + Timeout]_vars
  BY <1>1
<1> HIDE DEF P
<1> QED
  BY <1>2, Invariance, PTL DEF Spec, PasswordGrace
-----------------------------------------------------------------------------
(***************************************************************************)
(* Counting what a code did: its uses, and the requests that will use it.  *)
(* A request reads a code only while nothing used it, and every use ends a *)
(* request that read it.                                                   *)
(***************************************************************************)
Holders(c) == {w \in Workers : req[w].pc = "commit" /\ req[w].code = c}

Fresh(c) == code[c].status \in {"none", "active"}

UsesOK(c) ==
    /\ uses[c] + Cardinality(Holders(c)) <= Cardinality(Workers)
    /\ Fresh(c) => uses[c] = 0

UsesInv == Inv /\ \A c \in Codes : UsesOK(c)

LEMMA HoldersCount ==
    ASSUME NEW c
    PROVE  /\ IsFiniteSet(Holders(c))
           /\ Cardinality(Holders(c)) \in Nat /\ Cardinality(Holders(c)) <= Cardinality(Workers)
  BY Constants, FS_Subset, FS_CardinalityType DEF Holders

\* Nothing is used, and nobody new will use it.
LEMMA UsesStay ==
    ASSUME UsesInv, NEW c \in Codes, uses'[c] = uses[c], Holders(c)' \subseteq Holders(c),
           Fresh(c)' => Fresh(c)
    PROVE  UsesOK(c)'
<1>1. PICK u, h, k : u = uses[c] /\ h = Cardinality(Holders(c)) /\ k = Cardinality(Holders(c)')
  OBVIOUS
<1>2. u \in Nat /\ h \in Nat /\ k \in Nat /\ k <= h
  BY <1>1, HoldersCount, FS_Subset, FS_CardinalityType DEF UsesInv, Inv, TypeOK
<1>3. u + h <= Cardinality(Workers) /\ (Fresh(c) => u = 0)
  BY <1>1 DEF UsesInv, UsesOK
<1>4. u + k <= Cardinality(Workers)
  BY <1>2, <1>3, CountType
<1> QED
  BY <1>1, <1>3, <1>4 DEF UsesOK

\* A code that was read is unused: whoever holds it may use it.
LEMMA UsesRead ==
    ASSUME UsesInv, NEW c \in Codes, UNCHANGED <<code, uses>>, Fresh(c)
    PROVE  UsesOK(c)'
<1>1. uses'[c] = 0
  BY DEF UsesInv, UsesOK
<1>2. Holders(c)' \subseteq Workers
  BY DEF Holders
<1>3. PICK k : k = Cardinality(Holders(c)')
  OBVIOUS
<1>4. k \in Nat /\ k <= Cardinality(Workers)
  BY <1>2, <1>3, Constants, FS_Subset, FS_CardinalityType
<1> QED
  BY <1>1, <1>3, <1>4 DEF UsesOK

\* A use ends the request that makes it.
LEMMA UsesSpent ==
    ASSUME UsesInv, NEW w \in Workers, NEW c \in Codes, w \in Holders(c),
           req' = [req EXCEPT ![w] = Idle], uses' = [uses EXCEPT ![c] = @ + 1], ~Fresh(c)'
    PROVE  UsesOK(c)'
<1>1. PICK S : S = Holders(c)
  OBVIOUS
<1>2. Holders(c)' = S \ {w}
  BY <1>1, IdleRequest DEF Holders, UsesInv, Inv, TypeOK
<1>3. IsFiniteSet(S) /\ w \in S
  BY <1>1, HoldersCount
<1>4. PICK h \in Nat, k \in Nat : h = Cardinality(S) /\ k = Cardinality(S \ {w}) /\ k = h - 1
  <2>1. IsFiniteSet(S \ {w}) /\ Cardinality(S \ {w}) = Cardinality(S) - 1
    BY <1>3, FS_RemoveElement
  <2>2. Cardinality(S) \in Nat /\ Cardinality(S \ {w}) \in Nat
    BY <1>3, <2>1, FS_CardinalityType
  <2> QED
    BY <2>1, <2>2
<1>5. PICK u \in Nat : u = uses[c] /\ uses'[c] = u + 1
  BY DEF UsesInv, Inv, TypeOK
<1>6. u + h <= Cardinality(Workers)
  BY <1>1, <1>4, <1>5 DEF UsesInv, UsesOK
<1>7. (u + 1) + k <= Cardinality(Workers)
  BY <1>4, <1>6, CountType
<1> QED
  BY <1>2, <1>4, <1>5, <1>7 DEF UsesOK

\* A step in which one request becomes r, which holds no code that it did not hold.
LEMMA HoldersStay ==
    ASSUME Inv, NEW w \in Workers, NEW r, req' = [req EXCEPT ![w] = r],
           NEW c \in Codes, r.pc # "commit" \/ r.code # c
    PROVE  Holders(c)' \subseteq Holders(c)
  BY DEF Holders, Inv, TypeOK

\* What the writes to the codes leave as it was.
LEMMA MarkAsUsedFresh ==
    ASSUME Inv, NEW d \in Codes, MarkAsUsed(d)
    PROVE  /\ uses' = [uses EXCEPT ![d] = @ + 1] /\ ~Fresh(d)'
           /\ \A c \in Codes : c # d => uses'[c] = uses[c] /\ code'[c] = code[c]
  BY DEF MarkAsUsed, Change, Fresh, Inv, TypeOK, CodeRow

LEMMA IssueFresh ==
    ASSUME Inv, NEW purpose, NEW e, Issue(purpose, e), NEW c \in Codes
    PROVE  Fresh(c)' => Fresh(c)
<1>1. PICK d \in Codes :
          /\ code[d].status = "none"
          /\ code' = [x \in Codes |->
               IF x = d
               THEN [status |-> "active", purpose |-> purpose, attempts |-> 0, expires |-> e]
               ELSE IF code[x].status = "active" /\ code[x].purpose = purpose
               THEN [code[x] EXCEPT !.status = "used"]
               ELSE code[x]]
  BY DEF Issue, Change
<1>2. code[c] \in CodeRow
  BY DEF Inv, TypeOK
<1>3. CASE c = d
  BY <1>1, <1>3 DEF Fresh
<1>4. CASE c # d
  BY <1>1, <1>2, <1>4 DEF Fresh, CodeRow
<1> QED
  BY <1>3, <1>4

LEMMA DeleteFresh ==
    ASSUME Inv, DeleteUsedOrExpired, NEW c \in Codes
    PROVE  Fresh(c)' => Fresh(c)
<1>1. code'[c] = code[c] \/ code'[c] = [NoRow EXCEPT !.status = "deleted"]
  BY DEF DeleteUsedOrExpired, Change
<1>2. [NoRow EXCEPT !.status = "deleted"].status = "deleted"
  BY DEF NoRow
<1> QED
  BY <1>1, <1>2 DEF Fresh

LEMMA AttemptFresh ==
    ASSUME Inv, NEW w \in Workers, IncrementAttempts(w), NEW c \in Codes
    PROVE  Fresh(c)' => Fresh(c)
<1>1. code \in [Codes -> CodeRow] /\ code[c] \in CodeRow
  BY DEF Inv, TypeOK
<1> DEFINE d    == req[w].code
           more == IF code[d].status = "deleted" THEN code[d].attempts ELSE code[d].attempts + 1
<1>2. code' = [code EXCEPT ![d].attempts = more]
  BY DEF IncrementAttempts, Change
<1> HIDE DEF more
<1>3. code'[c] = code[c] \/ code'[c] = [code[c] EXCEPT !.attempts = more]
  BY <1>1, <1>2
<1> QED
  BY <1>1, <1>3 DEF Fresh, CodeRow

\* The commit that uses a code, whichever it is.
LEMMA UseKeeps ==
    ASSUME UsesInv, NEW w \in Workers, CommitVerify(w) \/ CommitReset(w), NEW c \in Codes
    PROVE  UsesOK(c)'
<1>1. PICK q \in Request : q = req[w] /\ q.pc = "commit" /\ q.op \in {"verify", "reset"}
                           /\ WellFormed(q)
  BY DEF CommitVerify, CommitReset, At, UsesInv, Inv, TypeOK, Recent
<1>2. PICK d \in Codes : d = q.code
  BY <1>1 DEF WellFormed
<1>3. MarkAsUsed(d) /\ req' = [req EXCEPT ![w] = Idle]
  BY <1>1, <1>2 DEF CommitVerify, CommitReset, Reply
<1>4. CASE c = d
  <2>1. w \in Holders(d)
    BY <1>1, <1>2 DEF Holders
  <2> QED
    BY <1>3, <1>4, <2>1, MarkAsUsedFresh, UsesSpent DEF UsesInv
<1>5. CASE c # d
  <2>1. uses'[c] = uses[c] /\ (Fresh(c)' => Fresh(c))
    BY <1>3, <1>5, MarkAsUsedFresh DEF UsesInv, Fresh
  <2>2. Holders(c)' \subseteq Holders(c)
    BY <1>3, IdleRequest, HoldersStay DEF UsesInv
  <2> QED
    BY <2>1, <2>2, UsesStay
<1> QED
  BY <1>4, <1>5

LEMMA ReadKeepsUses ==
    ASSUME UsesInv, NEW w \in Workers, ReadCode(w), NEW c \in Codes
    PROVE  UsesOK(c)'
<1>1. PICK d \in Codes :
          /\ Usable(code[d], now)
          /\ \/ req' = [req EXCEPT ![w].pc = "commit", ![w].code = d]
             \/ req' = [req EXCEPT ![w] = Rejected(w, d)]
  BY DEF ReadCode
<1>2. UNCHANGED <<code, uses>>
  BY DEF ReadCode, codeVars
<1>3. CASE c = d
  BY <1>1, <1>2, <1>3, UsesRead DEF Usable, Fresh
<1>4. CASE c # d
  <2>1. \E r : req' = [req EXCEPT ![w] = r] /\ (r.pc # "commit" \/ r.code # c)
    <3>1. req[w] \in Request /\ req \in [Workers -> Request]
      BY DEF UsesInv, Inv, TypeOK
    <3>2. CASE req' = [req EXCEPT ![w].pc = "commit", ![w].code = d]
      <4> DEFINE r == [req[w] EXCEPT !.pc = "commit", !.code = d]
      <4>1. req' = [req EXCEPT ![w] = r]
        BY <3>1, <3>2
      <4>2. r.code = d
        BY <3>1 DEF Request
      <4> HIDE DEF r
      <4> QED
        BY <1>4, <4>1, <4>2
    <3>3. CASE req' = [req EXCEPT ![w] = Rejected(w, d)]
      <4>1. Rejected(w, d).pc = "miss"
        BY DEF Rejected, Idle
      <4> QED
        BY <3>3, <4>1
    <3> QED
      BY <1>1, <3>2, <3>3
  <2>2. Holders(c)' \subseteq Holders(c)
    BY <2>1, HoldersStay DEF UsesInv
  <2> QED
    BY <1>2, <2>2, UsesStay DEF Fresh
<1> QED
  BY <1>3, <1>4

\* An arrival holds no code: a change of the password waits at its commit
\* without one.
LEMMA ArrivalHoldsNone ==
    ASSUME Inv, NEW w \in Workers, Arrival(w), NEW c \in Codes
    PROVE  UNCHANGED <<code, uses>> /\ Holders(c)' \subseteq Holders(c)
<1>1. ASSUME NEW op, NEW pc, NEW seen, NEW new, NEW e, Start(w, op, pc, seen, new, e)
      PROVE  UNCHANGED <<code, uses>> /\ Holders(c)' \subseteq Holders(c)
  <2> DEFINE r == [op |-> op, pc |-> pc, code |-> NoCode, seen |-> seen, new |-> new,
                   expires |-> e, deadline |-> now + Timeout]
  <2>1. req' = [req EXCEPT ![w] = r] /\ UNCHANGED <<code, uses>>
    BY <1>1 DEF Start, codeVars
  <2>2. r.code # c
    BY Constants
  <2> HIDE DEF r
  <2> QED
    BY <2>1, <2>2, HoldersStay
<1> QED
  BY <1>1 DEF Arrival, VerifyEmail, ResendEmailOTP, ForgotPassword, Login, Register,
     RegisterResident, ResetPassword, ChangePassword, Refresh

\* The other steps of a request end it, or go on without a code.
LEMMA OthersHoldFewer ==
    ASSUME Inv, NEW w \in Workers, NEW c \in Codes,
           \/ IncrementAttempts(w) \/ CommitChange(w) \/ CommitIssue(w) \/ CommitRegister(w)
           \/ CommitRegisterResident(w) \/ Grant(w) \/ Reissue(w) \/ Fail(w)
    PROVE  uses' = uses /\ Holders(c)' \subseteq Holders(c) /\ (Fresh(c)' => Fresh(c))
<1>1. uses' = uses
  BY DEF IncrementAttempts, CommitChange, CommitIssue, CommitRegister, CommitRegisterResident,
         Grant, Reissue, Fail, codeVars
<1>2. Holders(c)' \subseteq Holders(c)
  <2>1. CASE Reply(w)
    BY <2>1, IdleRequest, HoldersStay DEF Reply
  <2>2. CASE CommitRegisterResident(w)
    <3> DEFINE r == [req[w] EXCEPT !.pc = "grant", !.seen = req[w].new]
    <3>1. req' = [req EXCEPT ![w] = r] /\ r.pc = "grant"
      BY <2>2 DEF CommitRegisterResident, Inv, TypeOK, Request
    <3> HIDE DEF r
    <3> QED
      BY <3>1, HoldersStay
  <2> QED
    BY <2>1, <2>2 DEF IncrementAttempts, CommitChange, CommitIssue, CommitRegister, Grant,
       Reissue, Fail
<1>3. Fresh(c)' => Fresh(c)
  <2>1. CASE UNCHANGED code
    BY <2>1 DEF Fresh
  <2>2. CASE IncrementAttempts(w)
    BY <2>2, AttemptFresh
  <2>3. CASE CommitIssue(w) \/ CommitRegister(w)
    BY <2>3, IssueFresh DEF CommitIssue, CommitRegister
  <2> QED
    BY <2>1, <2>2, <2>3 DEF CommitChange, CommitRegisterResident, Grant, Reissue, Fail, codeVars
<1> QED
  BY <1>1, <1>2, <1>3

LEMMA UsesStep == UsesInv /\ [Next]_vars => UsesInv'
<1> SUFFICES ASSUME UsesInv, [Next]_vars PROVE UsesInv'
  OBVIOUS
<1>1. Inv'
  BY InvStep DEF UsesInv
<1>2. ASSUME NEW c \in Codes PROVE UsesOK(c)'
  <2>1. CASE UNCHANGED vars \/ Tick \/ DeleteUsedOrExpired \/ Block
    <3>1. uses' = uses /\ Holders(c)' = Holders(c)
      BY <2>1 DEF vars, codeVars, Tick, DeleteUsedOrExpired, Block, Holders
    <3>2. Fresh(c)' => Fresh(c)
      BY <2>1, DeleteFresh DEF vars, codeVars, Tick, Change, Block, Fresh, UsesInv
    <3> QED
      BY <3>1, <3>2, UsesStay
  <2>2. ASSUME NEW w \in Workers, Arrival(w) PROVE UsesOK(c)'
    BY <2>2, ArrivalHoldsNone, UsesStay DEF UsesInv, Fresh
  <2>3. ASSUME NEW w \in Workers, Step(w) \/ Fail(w) PROVE UsesOK(c)'
    BY <2>3, UseKeeps, ReadKeepsUses, OthersHoldFewer, UsesStay DEF UsesInv, Step
  <2> QED
    BY <2>1, <2>2, <2>3 DEF Next
<1> QED
  BY <1>1, <1>2 DEF UsesInv

LEMMA UsesInit == Init => UsesInv
<1> SUFFICES ASSUME Init PROVE UsesInv
  OBVIOUS
<1>1. ASSUME NEW c \in Codes PROVE UsesOK(c)
  BY HoldersCount, CountType DEF Init, UsesOK
<1> QED
  BY <1>1, InitInv DEF UsesInv

\* Marking a code as used looks at nothing, and still every code does its work
\* at most as often as there are requests at a time: each of them read it before
\* the first use.
THEOREM CodesAreUsedUp == Spec => []CodeUsesBounded
<1>1. ASSUME UsesInv PROVE CodeUsesBounded
  <2> SUFFICES ASSUME NEW c \in Codes PROVE uses[c] <= Cardinality(Workers)
    BY DEF CodeUsesBounded
  <2>1. PICK u \in Nat, h \in Nat : u = uses[c] /\ h = Cardinality(Holders(c))
    BY <1>1, HoldersCount DEF UsesInv, Inv, TypeOK
  <2>2. u + h <= Cardinality(Workers)
    BY <1>1, <2>1 DEF UsesInv, UsesOK
  <2> QED
    BY <2>1, <2>2, CountType
<1> QED
  BY <1>1, UsesInit, UsesStep, PTL DEF Spec
=============================================================================
