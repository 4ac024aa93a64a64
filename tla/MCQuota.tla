------------------------------ MODULE MCQuota ------------------------------
(***************************************************************************)
(* Small instances of the quotas for TLC: two kinds of members, a plan     *)
(* with room for one row of each, and one that allows no admins.           *)
(***************************************************************************)
EXTENDS QuotaProperties, TLC

TwoPlans ==
    {[k \in Kinds |-> 1], [k \in Kinds |-> IF k = "admins" THEN 0 ELSE 1]}

Symmetry == Permutations(Workers)
=============================================================================
