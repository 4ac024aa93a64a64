SPECIFICATION Spec
CONSTANTS
    NoUser = NoUser
    NoStay = NoStay
    NoClaim = NoClaim
    Workers = {w1, w2}
    Users = {u1, u2}
    Stays = {s1, s2}
    Claims = {c1}
    Operations = {"add", "set_primary"}
    Timeout = 1
    MaxTime = 0
SYMMETRY Symmetry
INVARIANTS
    PrimaryConflictIsRace
