SPECIFICATION Spec
CONSTANTS
    NoPassword = NoPassword
    NoCode = NoCode
    Workers = {w1, w2}
    Passwords = {p1, p2, p3}
    Codes = {c1}
    Operations = {"register_resident", "forgot", "reset", "change", "login", "refresh"}
    MaxAttempts = 1
    OtpExpiry = 1
    AccessExpiry = 1
    RefreshExpiry = 1
    Timeout = 0
    MaxTime = 2
SYMMETRY Symmetry
VIEW Ahead
INVARIANTS
    OldPasswordLockedOut
    BlockedLockedOut
PROPERTIES
    PasswordGrace
