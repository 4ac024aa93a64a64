---------------------------- MODULE MCMembership ----------------------------
(***************************************************************************)
(* Small instances of the member operations for TLC.  Users and workers    *)
(* are interchangeable: who founds the society is part of the behaviour.   *)
(***************************************************************************)
EXTENDS MembershipProperties, TLC

Symmetry == Permutations(Workers) \cup Permutations(Users)

\* The history matters for one request timeout: no action reads it, and every
\* property asks only whether something happened longer ago than that.
Recent(t) == IF t + Timeout < now THEN Never ELSE t

\* A request past its deadline can only fail, whatever it was about.
Pending(r) ==
    IF r.pc # "idle" /\ r.deadline < now THEN [Idle EXCEPT !.pc = "commit"] ELSE r

\* A view: states are the same that differ only in older history and in what
\* late requests were about.
Ahead ==
    <<now, society, member, [w \in Workers |-> Pending(req[w])], Recent(closedAt),
      [u \in Users |-> Recent(ownedSince[u])],
      [u \in Users |-> [m \in Mandates |-> Recent(lostAt[u][m])]]>>
=============================================================================
