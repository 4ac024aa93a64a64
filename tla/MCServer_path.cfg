SPECIFICATION Spec
CONSTANTS
    Ips = {ip1}
    Rps = 1
    Second = 2
    IdleLimit = 2
    Workers = {w1, w2}
    Conns = {k1, k2}
    MaxGuards = 1
    Timeout = 1
    Grace = 1
\* The process ends.
CHECK_DEADLOCK FALSE
INVARIANTS
    TypeOK
    ConnectionsAccounted
    StandstillIsNested
    ClosedOnlyOnTheLate
PROPERTIES
    ImplementsTokenBucket
    AllAnswered
    StopsWhenTold
    RefusedGetsIn
