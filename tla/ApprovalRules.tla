--------------------------- MODULE ApprovalRules ---------------------------
(***************************************************************************)
(* The rule authority of the visitor flow: what                            *)
(* VisitorSettingSvc.ResolveApprovalRequirement answers for a visitor      *)
(* request, given the society's settings row, the flat's row for the       *)
(* requested purpose and the source of the request.                        *)
(*                                                                         *)
(* A purpose is abstracted away: the flat's row for it is `rule'.  The     *)
(* errors the code distinguishes (inactive, source disabled, purpose       *)
(* disabled, row missing) all end the request and are one "refused".       *)
(***************************************************************************)
EXTENDS Integers

Modes   == {"mandatory", "optional", "hybrid"}
Sources == {"resident_link", "public_qr", "quick_link", "guard_entry"}

\* A society_visitor_settings row, the columns the visitor flow reads.
SettingsType ==
    [mode: Modes, preApproval: BOOLEAN, publicQR: BOOLEAN,
     guardEntry: BOOLEAN, active: BOOLEAN, qrTtl: Nat]

\* The flat_visitor_settings row of a flat and purpose, `found' when it exists.
RuleType == [found: BOOLEAN, enabled: BOOLEAN, required: BOOLEAN]

\* ensureSourceEnabled: public QR and quick link share one switch.
SourceEnabled(s, src) ==
    \/ src = "resident_link" /\ s.preApproval
    \/ src \in {"public_qr", "quick_link"} /\ s.publicQR
    \/ src = "guard_entry" /\ s.guardEntry

Admits(s, src) == s.active /\ SourceEnabled(s, src)

\* Only a hybrid society asks the flat, and never for a resident's own invite.
NeedsFlatRule(s, src) == src # "resident_link" /\ s.mode = "hybrid"

\* The status an admitted request gets when the flat is not asked.
SocietyDecision(s, src) ==
    IF src # "resident_link" /\ s.mode = "mandatory"
    THEN "waiting_approval" ELSE "approved"

FlatAdmits(r)   == r.found /\ r.enabled
FlatDecision(r) == IF r.required THEN "waiting_approval" ELSE "approved"

\* ResolveApprovalRequirement as one function of the two rows.
Resolve(s, r, src) ==
    CASE ~Admits(s, src)                             -> "refused"
      [] Admits(s, src) /\ ~NeedsFlatRule(s, src)    -> SocietyDecision(s, src)
      [] Admits(s, src) /\ NeedsFlatRule(s, src) /\ ~FlatAdmits(r) -> "refused"
      [] OTHER                                       -> FlatDecision(r)
=============================================================================
