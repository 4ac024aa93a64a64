SPECIFICATION Spec
CONSTANTS
    NoUser = NoUser
    NoStay = NoStay
    NoClaim = NoClaim
    Workers = {w1, w2}
    Users = {u1, u2}
    Stays = {s1, s2, s3}
    Claims = {c1}
    Operations = {"add", "remove", "move_out", "set_primary", "submit", "approve", "cancel"}
    Timeout = 1
    MaxTime = 0
SYMMETRY Symmetry
INVARIANTS
    TypeOK
    ClaimSettledOnce
PROPERTIES
    StatusDriftsByRace
    ImplementsTenancy
