SPECIFICATION Spec
CONSTANTS
    resident = resident
    guard = guard
    NoUser = NoUser
    NoInvite = NoInvite
    NoEntry = NoEntry
    Workers = {w1, w2}
    Users = {resident}
    Invites = {i1}
    Entries = {e1, e2, e3}
    Settings <- JustInvites
    Rules <- JustRequired
    Duty0 <- AllDuties
    Reassignments <- NoReassignment
    Dues <- NoDue
    Timeout = 1
    InviteTtl = 1
    MaxTime = 3
    MaxTokens = 3
SYMMETRY RequestSymmetry
INVARIANTS
    InviteConsumed
    InviteOveruseBounded
PROPERTIES
    CheckInGrace
    InviteStaleUseBounded
