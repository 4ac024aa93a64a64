------------------------ MODULE MembershipProperties ------------------------
(***************************************************************************)
(* What the member operations guarantee although each of them checks first *)
(* and writes later, and one statement of the code that they do not keep.  *)
(***************************************************************************)
EXTENDS Membership

\* Request w writes in this step.
Lands(w) ==
    /\ req[w].pc = "commit" /\ req'[w].pc = "idle"
    /\ <<society, member>>' # <<society, member>>

\* An owner who has been in office for longer than a request timeout can hand
\* the society over, but no suspension, removal or change of role, racing with
\* whatever else, leaves the society without an owner.
SettledOwnerStays ==
    [][\A u \in Owners :
           now > ownedSince[u] + Timeout => OwnersIn(member') # {}]_vars

\* Members change, and the society is deleted, on behalf of somebody who has
\* the mandate EnsureRole asks for, or lost it at most one request timeout ago:
\* a manager who is demoted, suspended or removed cannot act on.
MandateBounded ==
    [][\A w \in Workers :
           Lands(w) =>
               LET u == req[w].actor
                   m == MandateFor(req[w].op)
               IN  May(u, m) \/ now <= lostAt[u][m] + Timeout]_vars

\* A society that is not active, because it waits for approval, was rejected,
\* suspended, deleted or restored, keeps its members: a request lands at most
\* one request timeout after the society closed.
ClosedSocietyKeepsMembers ==
    [][\A w \in Workers :
           Lands(w) => Operational(society) \/ now <= closedAt + Timeout]_vars

\* "ensureNotLastOwner checks that owner changes will not remove the society's
\* last active owner" (society_guards.go): a society that exists has one.
LastOwnerKept == society.status # "none" => Owners # {}
=============================================================================
