------------------------- MODULE AccountsProperties -------------------------
(***************************************************************************)
(* What one-time codes, passwords and tokens guarantee although every      *)
(* check is made before the write, and tokens are never looked up.         *)
(***************************************************************************)
EXTENDS Accounts

\* However guesses race, a code is guessed wrong at most as often as
\* max_attempts allows and as there are requests that compared in time:
\* attempts are compared by one statement and counted by another.
AttemptsBounded ==
    \A c \in Codes : code[c].attempts <= MaxAttempts - 1 + Cardinality(Workers)

\* A code does its work once, or once more for every other request that read it
\* while it was good: marking it as used again is no error, and a reset that
\* lost the race sets its password all the same.
CodeUsesBounded ==
    \A c \in Codes : uses[c] <= Cardinality(Workers)

\* A code verifies the email, or sets a password, while it is the newest one,
\* unused, unexpired and not guessed to death, or at most one request timeout
\* after that: nothing is checked again when it is marked as used.
CodeGrace ==
    [][\A w \in Workers :
           LET c == req[w].code IN
           req[w].pc = "commit" /\ c # NoCode /\ user' # user /\ req'[w] # req[w]
               => Usable(code[c], now) \/ now <= closedAt[c] + Timeout]_vars

\* Whoever replaces a password knew, or replaced by a code, the current one or
\* one that was current at most one request timeout ago: a change that was
\* checked before a reset cannot undo it much later, and a password replaces
\* itself only in such a race.
PasswordGrace ==
    [][\A w \in Workers :
           req[w].op \in {"reset", "change"} /\ req[w].pc = "commit" /\ req'[w] # req[w]
             /\ user' # user
               => \/ req[w].seen = user.password
                  \/ now <= replacedAt[req[w].seen] + Timeout]_vars

\* Nothing revokes a token, but whoever got in with a password that is not the
\* current one any more is out when the tokens and two requests have run out.
OldPasswordLockedOut ==
    \A p \in Passwords :
        p # user.password =>
            session[p].access <= replacedAt[p] + 2 * Timeout + RefreshExpiry + AccessExpiry

\* A blocked account is out when an access token and one request have run out:
\* the guards of the other routes do not read the account.
BlockedLockedOut ==
    user.blocked =>
        \A p \in Passwords : session[p].access <= blockedAt + Timeout + AccessExpiry
=============================================================================
