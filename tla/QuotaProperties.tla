-------------------------- MODULE QuotaProperties --------------------------
(***************************************************************************)
(* What checkQuota still guarantees when requests race with each other,    *)
(* with changes of the subscription and with rows nobody counts.           *)
(***************************************************************************)
EXTENDS Quota

\* A request that passed checkQuota adds within the limits in force, or a row
\* of its kind was added, or a lower limit took effect, at most one request
\* timeout ago: an answer of checkQuota is never used when it is older.
QuotaGrace ==
    [][\A w \in Workers :
           LET k == req[w].kind IN
           req[w].pc = "commit" /\ req'[w] = Idle /\ used'[k] > used[k]
               => used'[k] <= Cap(sub, now)[k] \/ now <= tightened[k] + Timeout]_vars

\* However requests interleave, the rows of a kind exceed what a subscription,
\* or an operation that asks for no quota, allowed by what the requests in
\* flight can add.
OvershootBounded ==
    \A k \in Kinds : used[k] <= legit[k] + MaxBulk * Cardinality(Workers)
=============================================================================
