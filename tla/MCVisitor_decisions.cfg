SPECIFICATION Spec
CONSTANTS
    resident = resident
    guard = guard
    NoUser = NoUser
    NoInvite = NoInvite
    NoEntry = NoEntry
    Workers = {w1, w2}
    Users = {resident}
    Invites = {}
    Entries = {e1, e2}
    Settings <- JustGuard
    Rules <- JustRequired
    Duty0 <- AllDuties
    Reassignments <- NoReassignment
    Dues <- DueSoon
    Timeout = 1
    InviteTtl = 1
    MaxTime = 1
    MaxTokens = 3
SYMMETRY RequestSymmetry
INVARIANTS
    TypeOK
    AuditTrail
    OneDecision
    QRBinding
PROPERTIES
    ImplementsLifecycle
