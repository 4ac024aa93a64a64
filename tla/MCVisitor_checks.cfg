SPECIFICATION Spec
CONSTANTS
    resident = resident
    guard = guard
    NoUser = NoUser
    NoInvite = NoInvite
    NoEntry = NoEntry
    Workers = {w1}
    Users = {resident, guard}
    Invites = {i1}
    Entries = {e1}
    Settings <- ChangingModes
    Rules <- ChangingRules
    Duty0 <- BothDuties
    Reassignments <- Revocations
    Dues <- NoDue
    Timeout = 0
    InviteTtl = 1
    MaxTime = 1
    MaxTokens = 1
PROPERTIES
    RevocationBounded
    StalePolicyBounded
