------------------------------ MODULE MCVisitor ------------------------------
(***************************************************************************)
(* Small instances of the visitor flow for TLC.  Each configuration keeps  *)
(* two or three requests in flight and varies one thing the requests race  *)
(* with: each other, the clock, the rules, or the duties of the users.     *)
(***************************************************************************)
EXTENDS VisitorProperties, TLC

CONSTANTS resident, guard

\* Settings rows, from the most open to a society that closed its gate flow.
SettingsRow(mode, pre, public, byGuard, ttl) ==
    [mode |-> mode, preApproval |-> pre, publicQR |-> public,
     guardEntry |-> byGuard, active |-> TRUE, qrTtl |-> ttl]

AskFlat    == SettingsRow("hybrid", TRUE, TRUE, TRUE, 1)
InviteOnly == SettingsRow("mandatory", TRUE, FALSE, FALSE, 1)
AskNobody  == [AskFlat EXCEPT !.mode = "optional", !.preApproval = FALSE]
GuardOnly  == SettingsRow("mandatory", FALSE, FALSE, TRUE, 1)

Required == [found |-> TRUE, enabled |-> TRUE, required |-> TRUE]
Free     == [found |-> TRUE, enabled |-> TRUE, required |-> FALSE]

JustGuard      == {GuardOnly}
JustInvites    == {InviteOnly}
ChangingModes  == {AskFlat, AskNobody}
JustRequired   == {Required}
ChangingRules  == {Required, Free}

\* The resident approves and the guard guards; nobody else may do either.
BothDuties == (resident :> {"approve"}) @@ (guard :> {"guard"})
AllDuties  == resident :> Duties
NoReassignment == {}
Revocations    == {<<resident, {}>>, <<guard, {}>>}

NoDue   == {NoTime}
DueSoon == {NoTime, 0}

WorkerSymmetry == Permutations(Workers)
RequestSymmetry == Permutations(Workers) \cup Permutations(Entries)
=============================================================================
