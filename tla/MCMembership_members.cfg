SPECIFICATION Spec
CONSTANTS
    NoUser = NoUser
    Workers = {w1, w2}
    Users = {u1, u2}
    Operations = {"add", "suspend", "reactivate", "delete_society", "suspend_society", "reactivate_society", "restore_society", "reject_society", "change_role", "remove", "transfer", "upsert_resident"}
    Additions = {"owner", "resident"}
    Changes = {"owner"}
    Timeout = 0
    MaxTime = 1
\* A rejected society is final.
CHECK_DEADLOCK FALSE
SYMMETRY Symmetry
VIEW Ahead
INVARIANTS
    TypeOK
PROPERTIES
    SettledOwnerStays
    MandateBounded
    ClosedSocietyKeepsMembers
