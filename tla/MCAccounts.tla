----------------------------- MODULE MCAccounts -----------------------------
(***************************************************************************)
(* A small instance of the accounts for TLC.                               *)
(***************************************************************************)
EXTENDS AccountsProperties, TLC

Symmetry == Permutations(Workers) \cup Permutations(Codes) \cup Permutations(Passwords)

\* A request past its deadline can only fail, whatever it was about.
Pending(r) ==
    IF r.pc # "idle" /\ r.deadline < now THEN [Idle EXCEPT !.pc = "commit"] ELSE r

\* A view for the properties of passwords and tokens: states are the same that
\* differ only in what late requests were about, in the history of codes, and in
\* that of the current password, which its replacement overwrites.
Ahead ==
    <<now, user, code, session, blockedAt,
      [p \in Passwords |-> IF p = user.password THEN Never ELSE replacedAt[p]],
      [w \in Workers |-> Pending(req[w])]>>
=============================================================================
