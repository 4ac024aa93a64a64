------------------------------ MODULE Tenancy ------------------------------
(***************************************************************************)
(* What a flat promises its residents and those who claim it, without      *)
(* requests, rows, locks or the state of the flat: somebody moves in who   *)
(* is not there, and at most one of them is the head.  The head is never   *)
(* replaced, only succeeded.  A claim lets its user in, in the role that   *)
(* was claimed, in the moment in which it is approved, or is closed.       *)
(***************************************************************************)
CONSTANTS Users, NoUser, Claims

VARIABLES residents, head, claims

tenancy == <<residents, head, claims>>

NoClaimYet == [status |-> "none", user |-> NoUser, primary |-> FALSE]

Init ==
    /\ residents = {} /\ head = {}
    /\ claims = [c \in Claims |-> NoClaimYet]

Enter(u, first) ==
    /\ u \in Users \ residents
    /\ first => head = {}
    /\ residents' = residents \cup {u}
    /\ head' = IF first THEN {u} ELSE head

MoveIn(u, first) == Enter(u, first) /\ UNCHANGED claims

MoveOut(u) ==
    /\ u \in residents
    /\ residents' = residents \ {u}
    /\ head' = head \ {u}
    /\ UNCHANGED claims

Succeed(u) ==
    /\ u \in residents /\ head = {}
    /\ head' = {u}
    /\ UNCHANGED <<residents, claims>>

Pending(u) == {c \in Claims : claims[c].status = "pending" /\ claims[c].user = u}

Claim(c, u, first) ==
    /\ claims[c].status = "none" /\ Pending(u) = {}
    /\ claims' = [claims EXCEPT ![c] = [status |-> "pending", user |-> u, primary |-> first]]
    /\ UNCHANGED <<residents, head>>

Settle(c, to) ==
    /\ claims[c].status = "pending"
    /\ claims' = [claims EXCEPT ![c].status = to]

Approve(c) == Settle(c, "approved") /\ Enter(claims[c].user, claims[c].primary)

Close(c) ==
    /\ Settle(c, "rejected") \/ Settle(c, "cancelled")
    /\ UNCHANGED <<residents, head>>

Next ==
    \/ \E u \in Users, first \in BOOLEAN : MoveIn(u, first)
    \/ \E u \in Users : MoveOut(u) \/ Succeed(u)
    \/ \E c \in Claims, u \in Users, first \in BOOLEAN : Claim(c, u, first)
    \/ \E c \in Claims : Approve(c) \/ Close(c)

Spec == Init /\ [][Next]_tenancy
=============================================================================
