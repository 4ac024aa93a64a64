SPECIFICATION Spec
CONSTANTS
    NoPassword = NoPassword
    NoCode = NoCode
    Workers = {w1, w2}
    Passwords = {p1, p2}
    Codes = {c1, c2}
    Operations = {"register", "verify", "resend", "forgot", "reset"}
    MaxAttempts = 2
    OtpExpiry = 1
    AccessExpiry = 1
    RefreshExpiry = 1
    Timeout = 1
    MaxTime = 3
SYMMETRY Symmetry
INVARIANTS
    TypeOK
    AttemptsBounded
    CodeUsesBounded
PROPERTIES
    CodeGrace
