SPECIFICATION Spec
CONSTANTS
    NoUser = NoUser
    NoStay = NoStay
    NoClaim = NoClaim
    Workers = {w1, w2}
    Users = {u1}
    Stays = {s1, s2}
    Claims = {c1}
    Operations = {"add", "submit", "approve", "reject", "block", "unblock", "delete", "update"}
    Timeout = 1
    MaxTime = 2
SYMMETRY Symmetry
PROPERTIES
    ShutFlatGrace
