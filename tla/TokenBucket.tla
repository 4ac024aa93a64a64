---------------------------- MODULE TokenBucket ----------------------------
(***************************************************************************)
(* What a token bucket promises: whoever is let in pays with time that has *)
(* passed.  level[c] is what client c has saved, in ticks; a request costs *)
(* Price of them, and nobody saves more than Burst requests.               *)
(***************************************************************************)
EXTENDS Integers

CONSTANTS Clients, Price, Burst

VARIABLE level

Start == level = [c \in Clients |-> Burst * Price]

Earn ==
    level' = [c \in Clients |->
        IF level[c] < Burst * Price THEN level[c] + 1 ELSE level[c]]

Spend(c) ==
    /\ level[c] >= Price
    /\ level' = [level EXCEPT ![c] = @ - Price]

Use == Earn \/ \E c \in Clients : Spend(c)

Bucket == Start /\ [][Use]_level
=============================================================================
