-------------------------- MODULE VisitorLifecycle --------------------------
(***************************************************************************)
(* What the visitor flow promises about one visit, without requests,       *)
(* tables, tokens or time: a visit is registered once, is let through or   *)
(* turned away at most once, enters at most once and only after it was     *)
(* cleared, and never comes back.                                          *)
(***************************************************************************)
CONSTANT Visits

VARIABLE visit

States == {"absent", "pending", "cleared", "refused", "inside", "left"}

Init == visit = [v \in Visits |-> "absent"]

Move(v, from, to) ==
    /\ visit[v] = from
    /\ visit' = [visit EXCEPT ![v] = to]

Register(v) == Move(v, "absent", "pending") \/ Move(v, "absent", "cleared")
Decide(v)   == Move(v, "pending", "cleared") \/ Move(v, "pending", "refused")
Enter(v)    == Move(v, "cleared", "inside")
Leave(v)    == Move(v, "inside", "left")

\* Everybody who overstayed is closed in one statement.
CloseOverstayed(S) ==
    /\ \A v \in S : visit[v] = "inside"
    /\ visit' = [v \in Visits |-> IF v \in S THEN "left" ELSE visit[v]]

Next ==
    \/ \E v \in Visits : Register(v) \/ Decide(v) \/ Enter(v) \/ Leave(v)
    \/ \E S \in SUBSET Visits : CloseOverstayed(S)

Spec == Init /\ [][Next]_visit
=============================================================================
