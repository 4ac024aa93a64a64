SPECIFICATION Spec
CONSTANTS
    NoUser = NoUser
    Workers = {w1, w2}
    Users = {u1, u2}
    Operations = {"suspend", "transfer"}
    Additions = {"resident"}
    Changes = {"owner"}
    Timeout = 1
    MaxTime = 0
SYMMETRY Symmetry
INVARIANTS
    LastOwnerKept
