---------------------------- MODULE VisitorProofs ----------------------------
(***************************************************************************)
(* Proofs about the visitor flow, for every number of workers, users,      *)
(* invites and entries, every timeout and every set of rules.              *)
(***************************************************************************)
EXTENDS VisitorProperties, TLAPS

\* The status an admitted request gets is one of the two statuses an entry
\* starts with.
LEMMA DecisionType ==
    /\ \A s, src : SocietyDecision(s, src) \in {"waiting_approval", "approved"}
    /\ \A r : FlatDecision(r) \in {"waiting_approval", "approved"}
BY DEF SocietyDecision, FlatDecision

\* Idle requests and requests that were just armed are well formed.
LEMMA RequestType ==
    ASSUME TypeOK
    PROVE  /\ Idle \in Request
           /\ \A op \in Ops, pc \in Phases : Armed(op, pc) \in Request
<1> USE DEF Request, Ops, Phases, FormOps, NoDeadline
<1>1. Idle \in Request
  BY DEF Idle
<1>2. now + Timeout \in Nat
  BY ConstantsOK DEF TypeOK
<1>3. ASSUME NEW op \in Ops, NEW pc \in Phases PROVE Armed(op, pc) \in Request
  BY <1>1, <1>2 DEF Armed
<1> QED
  BY <1>1, <1>3

\* A well-formed request stays so when its user and its target are set.
LEMMA RequestUpdate ==
    ASSUME NEW r \in Request, NEW u \in Users
    PROVE  /\ \A n \in Nat : [r EXCEPT !.user = u, !.exp = n] \in Request
           /\ \A i \in Invites : [r EXCEPT !.user = u, !.invite = i] \in Request
           /\ \A e \in Entries : [r EXCEPT !.user = u, !.entry = e] \in Request
<1>1. r = [op |-> r.op, pc |-> r.pc, user |-> r.user, invite |-> r.invite,
           entry |-> r.entry, status |-> r.status, exp |-> r.exp,
           deadline |-> r.deadline]
  BY DEF Request
<1> QED
  BY <1>1 DEF Request

LEMMA InitType == Init => TypeOK
<1> SUFFICES ASSUME Init PROVE TypeOK
  OBVIOUS
<1>1. invite \in [Invites -> InviteRow]
  BY DEF Init, InviteRow, InviteStatuses
<1>2. entry \in [Entries -> EntryRow]
  BY DEF Init, EntryRow, EntryStatuses, Sources, NoToken, NoTime
<1>3. log \in [Entries -> [EventTypes -> Nat]]
  BY DEF Init
<1>4. req \in [Workers -> Request]
  BY DEF Init, Idle, Request, Ops, Phases, NoDeadline
<1>5. /\ lostAt \in [Users -> [Duties -> Int]]
      /\ settingsUntil \in [Settings -> Int] /\ ruleUntil \in [Rules -> Int]
  BY ConstantsOK DEF Init, Never
<1> QED
  BY <1>1, <1>2, <1>3, <1>4, <1>5, ConstantsOK DEF Init, TypeOK

LEMMA EnvironmentType == TypeOK /\ Environment => TypeOK'
<1> SUFFICES ASSUME TypeOK, Environment PROVE TypeOK'
  OBVIOUS
<1> USE DEF TypeOK, dutyVars, policyVars, tableVars
<1>1. CASE Tick
  BY <1>1 DEF Tick
<1>2. ASSUME NEW a \in Reassignments, Reassign(a[1], a[2]) PROVE TypeOK'
  <2>1. a[1] \in Users /\ a[2] \in SUBSET Duties
    BY ConstantsOK
  <2>2. duties' \in [Users -> SUBSET Duties]
    BY <1>2, <2>1 DEF Reassign
  <2>3. lostAt' \in [Users -> [Duties -> Int]]
    <3>1. [x \in Duties |-> IF x \in duties[a[1]] \ a[2]
                            THEN now ELSE lostAt[a[1]][x]] \in [Duties -> Int]
      BY <2>1
    <3> QED
      BY <1>2, <2>1, <3>1 DEF Reassign
  <2> QED
    BY <1>2, <2>2, <2>3 DEF Reassign
<1>3. ASSUME NEW s \in Settings, UpdateSocietySettings(s) PROVE TypeOK'
  BY <1>3 DEF UpdateSocietySettings
<1>4. ASSUME NEW r \in Rules, UpdateFlatPurposeSetting(r) PROVE TypeOK'
  BY <1>4 DEF UpdateFlatPurposeSetting
<1>5. CASE ExpireOldInvites
  BY <1>5 DEF ExpireOldInvites, InviteRow, InviteStatuses
<1>6. CASE AutoCloseExpiredEntries
  <2>1. \A e \in Entries :
          [entry[e] EXCEPT !.status = "auto_closed"] \in EntryRow
    BY DEF EntryRow, EntryStatuses
  <2> QED
    BY <1>6, <2>1 DEF AutoCloseExpiredEntries
<1> QED
  BY <1>1, <1>2, <1>3, <1>4, <1>5, <1>6 DEF Environment

(***************************************************************************)
(* What an arrival and a read do to the request of their worker.           *)
(***************************************************************************)
\* An arrival starts a well-formed request whose target exists.
LEMMA ArrivalStarts ==
    ASSUME TypeOK, NEW w \in Workers, Arrival(w)
    PROVE  \E r \in Request : Arrive(w, r) /\ Targeted(r)
<1>1. now + Timeout \in Nat /\ InviteTtl \in Nat /\ now \in Nat
  BY ConstantsOK DEF TypeOK
<1>2. \A op \in Ops, pc \in Phases :
        /\ Armed(op, pc) \in Request
        /\ Armed(op, pc).op = op
  BY RequestType DEF Armed, Idle
<1>3. /\ FormOps \subseteq Ops
      /\ {"create_invite", "submit_invite", "cancel_invite", "approve",
          "reject", "generate_qr", "check_in", "check_out"} \subseteq Ops
      /\ {"duty", "settings", "qr"} \subseteq Phases
  BY DEF Ops, FormOps, Phases
<1> USE DEF Request, Targeted
<1>4. ASSUME NEW u \in Users, NEW ttl \in 0..InviteTtl, CreateInvite(w, u, ttl)
      PROVE  \E r \in Request : Arrive(w, r) /\ Targeted(r)
  <2> DEFINE r == [Armed("create_invite", "duty") EXCEPT
                      !.user = u, !.exp = IF ttl = 0 THEN 0 ELSE now + ttl]
  <2>1. (IF ttl = 0 THEN 0 ELSE now + ttl) \in Nat
    BY <1>1
  <2>2. r \in Request
    BY RequestUpdate, <1>2, <1>3, <2>1
  <2>3. Targeted(r)
    BY <1>2, <1>3, <2>1, <2>2
  <2> QED
    BY <1>4, <2>2, <2>3 DEF CreateInvite
<1>5. ASSUME NEW i \in Invites, SubmitInviteForm(w, i)
      PROVE  \E r \in Request : Arrive(w, r) /\ Targeted(r)
  <2> DEFINE r == [Armed("submit_invite", "settings") EXCEPT !.invite = i]
  <2>1. r \in Request
    BY <1>2, <1>3, <1>5 DEF SubmitInviteForm, InviteUsable
  <2>2. Targeted(r)
    BY <1>2, <1>3, <1>5, <2>1 DEF SubmitInviteForm, InviteUsable
  <2> QED
    BY <1>5, <2>1, <2>2 DEF SubmitInviteForm
<1>6. ASSUME NEW u \in Users, NEW i \in Invites, CancelInvite(w, u, i)
      PROVE  \E r \in Request : Arrive(w, r) /\ Targeted(r)
  <2> DEFINE r == [Armed("cancel_invite", "duty") EXCEPT !.user = u, !.invite = i]
  <2>1. r \in Request
    BY RequestUpdate, <1>2, <1>3, <1>6 DEF CancelInvite
  <2>2. Targeted(r)
    BY <1>2, <1>3, <1>6, <2>1 DEF CancelInvite
  <2> QED
    BY <1>6, <2>1, <2>2 DEF CancelInvite
<1>7. ASSUME NEW op \in FormOps, CreatePublicEntry(w, op)
      PROVE  \E r \in Request : Arrive(w, r) /\ Targeted(r)
  <2>1. Armed(op, "settings") \in Request /\ Targeted(Armed(op, "settings"))
    BY <1>2, <1>3 DEF FormOps
  <2> QED
    BY <1>7, <2>1 DEF CreatePublicEntry
<1>8. ASSUME NEW u \in Users, CreateGuardEntry(w, u)
      PROVE  \E r \in Request : Arrive(w, r) /\ Targeted(r)
  <2> DEFINE r == [Idle EXCEPT !.op = "guard_entry", !.pc = "duty", !.user = u]
  <2>1. r \in Request
    BY RequestType, <1>3 DEF FormOps
  <2>2. Targeted(r)
    BY RequestType, <1>3, <2>1 DEF FormOps
  <2> QED
    BY <1>8, <2>1, <2>2 DEF CreateGuardEntry
<1>9. ASSUME NEW op \in Ops, NEW u \in Users, NEW e \in Entries,
             DecideEntry(w, op, u, e)
      PROVE  \E r \in Request : Arrive(w, r) /\ Targeted(r)
  <2> DEFINE r == [Armed(op, "duty") EXCEPT !.user = u, !.entry = e]
  <2>1. r \in Request
    BY RequestUpdate, <1>2, <1>3, <1>9 DEF DecideEntry
  <2>2. Targeted(r)
    BY <1>2, <1>3, <1>9, <2>1 DEF DecideEntry
  <2> QED
    BY <1>9, <2>1, <2>2 DEF DecideEntry
<1>10. ASSUME NEW e \in Entries, GenerateQR(w, e)
       PROVE  \E r \in Request : Arrive(w, r) /\ Targeted(r)
  <2> DEFINE r == [Armed("generate_qr", "qr") EXCEPT !.entry = e]
  <2>1. r \in Request
    BY <1>2, <1>3
  <2>2. Targeted(r)
    BY <1>2, <1>3, <2>1
  <2> QED
    BY <1>10, <2>1, <2>2 DEF GenerateQR
<1>11. ASSUME NEW u \in Users, NEW e \in Entries, CheckIn(w, u, e)
       PROVE  \E r \in Request : Arrive(w, r) /\ Targeted(r)
  <2> DEFINE r == [Armed("check_in", "duty") EXCEPT !.user = u, !.entry = e]
  <2>1. r \in Request
    BY RequestUpdate, <1>2, <1>3
  <2>2. Targeted(r)
    BY <1>2, <1>3, <2>1
  <2> QED
    BY <1>11, <2>1, <2>2 DEF CheckIn
<1>12. ASSUME NEW u \in Users, NEW e \in Entries, CheckOut(w, u, e)
       PROVE  \E r \in Request : Arrive(w, r) /\ Targeted(r)
  <2> DEFINE r == [Armed("check_out", "duty") EXCEPT !.user = u, !.entry = e]
  <2>1. r \in Request
    BY RequestUpdate, <1>2, <1>3
  <2>2. Targeted(r)
    BY <1>2, <1>3, <2>1
  <2> QED
    BY <1>12, <2>1, <2>2 DEF CheckOut
<1> QED
  BY <1>4, <1>5, <1>6, <1>7, <1>8, <1>9, <1>10, <1>11, <1>12 DEF Arrival

\* A read moves the request on, keeps what it is about, and writes nothing.
LEMMA ReadProceeds ==
    ASSUME TypeOK, NEW w \in Workers, Read(w)
    PROVE  /\ UNCHANGED <<now, dutyVars, policyVars, tableVars>>
           /\ \E r \in Request :
                 /\ req' = [req EXCEPT ![w] = r]
                 /\ r.op = req[w].op /\ r.user = req[w].user
                 /\ r.invite = req[w].invite /\ r.entry = req[w].entry
<1> DEFINE Proceeds == \E r \in Request :
                 /\ req' = [req EXCEPT ![w] = r]
                 /\ r.op = req[w].op /\ r.user = req[w].user
                 /\ r.invite = req[w].invite /\ r.entry = req[w].entry
<1>1. /\ req[w] \in Request /\ req \in [Workers -> Request]
      /\ now \in Nat /\ Timeout \in Nat /\ InviteTtl \in Nat
      /\ settings.qrTtl \in Nat
  BY ConstantsOK DEF TypeOK, SettingsType
<1>2. {"settings", "rule", "qr", "commit"} \subseteq Phases
  BY DEF Phases
<1>3. CASE CheckDuty(w)
  <2>1. AfterDuty(req[w].op) \in Phases
    BY <1>2 DEF AfterDuty
  <2>2. [req[w] EXCEPT !.pc = AfterDuty(req[w].op)] \in Request
    BY <1>1, <2>1 DEF Request
  <2>3. req' = [req EXCEPT ![w] = [req[w] EXCEPT !.pc = AfterDuty(req[w].op)]]
    BY <1>1, <1>3 DEF CheckDuty
  <2>4. Proceeds
    BY <1>1, <2>2, <2>3 DEF Request
  <2> QED
    BY <1>3, <2>4 DEF CheckDuty
<1>4. CASE ReadSettings(w)
  <2> DEFINE src == SourceOf(req[w].op)
             decision == SocietyDecision(settings, src)
             r == [req[w] EXCEPT
                   !.status   = decision,
                   !.pc       = IF NeedsFlatRule(settings, src)
                                THEN "rule" ELSE AfterDecision(decision),
                   !.deadline = IF req[w].deadline = NoDeadline
                                THEN now + Timeout ELSE req[w].deadline]
  <2>1. decision \in {"waiting_approval", "approved"}
    BY DecisionType
  <2>2. (IF NeedsFlatRule(settings, src) THEN "rule"
         ELSE AfterDecision(decision)) \in Phases
    BY <1>2 DEF AfterDecision
  <2>3. (IF req[w].deadline = NoDeadline THEN now + Timeout
         ELSE req[w].deadline) \in Nat \cup {NoDeadline}
    BY <1>1 DEF Request
  <2>4. req' = [req EXCEPT ![w] = r]
    BY <1>4 DEF ReadSettings
  <2> HIDE DEF decision
  <2>5. r \in Request
    BY <1>1, <2>1, <2>2, <2>3 DEF Request
  <2>6. /\ r.op = req[w].op /\ r.user = req[w].user
        /\ r.invite = req[w].invite /\ r.entry = req[w].entry
    BY <1>1 DEF Request
  <2>7. Proceeds
    BY <2>4, <2>5, <2>6
  <2> QED
    BY <1>4, <2>7 DEF ReadSettings
<1>5. CASE ReadInviteSettings(w)
  <2> DEFINE n == IF req[w].exp = 0 THEN now + InviteTtl ELSE req[w].exp
             r == [req[w] EXCEPT !.pc = "commit", !.exp = n]
  <2>1. n \in Nat
    BY <1>1 DEF Request
  <2>2. r \in Request
    BY <1>1, <1>2, <2>1 DEF Request
  <2>3. req' = [req EXCEPT ![w] = r]
    BY <1>1, <1>5 DEF ReadInviteSettings, Request
  <2>4. Proceeds
    BY <1>1, <2>2, <2>3 DEF Request
  <2> QED
    BY <1>5, <2>4 DEF ReadInviteSettings
<1>6. CASE ReadRule(w)
  <2> DEFINE d == FlatDecision(rule)
             r == [req[w] EXCEPT !.status = d, !.pc = AfterDecision(d)]
  <2>1. d \in {"waiting_approval", "approved"} /\ AfterDecision(d) \in Phases
    BY DecisionType, <1>2 DEF AfterDecision
  <2>2. r \in Request
    BY <1>1, <2>1 DEF Request
  <2>3. req' = [req EXCEPT ![w] = r]
    BY <1>1, <1>6 DEF ReadRule
  <2>4. Proceeds
    BY <1>1, <2>2, <2>3 DEF Request
  <2> QED
    BY <1>6, <2>4 DEF ReadRule
<1>7. CASE MakeQR(w)
  <2> DEFINE r == [req[w] EXCEPT !.exp = now + settings.qrTtl, !.pc = "commit"]
  <2>1. now + settings.qrTtl \in Nat
    BY <1>1
  <2>2. \A n \in Nat : [req[w] EXCEPT !.exp = n, !.pc = "commit"] \in Request
    BY <1>1, <1>2 DEF Request
  <2>3. r \in Request
    BY <2>1, <2>2
  <2>4. req' = [req EXCEPT ![w] = r]
    BY <1>1, <1>7 DEF MakeQR
  <2>5. Proceeds
    BY <1>1, <2>3, <2>4 DEF Request
  <2> QED
    BY <1>7, <2>5 DEF MakeQR
<1> QED
  BY <1>3, <1>4, <1>5, <1>6, <1>7 DEF Read

(***************************************************************************)
(* Type correctness.                                                       *)
(***************************************************************************)
\* Counting events keeps the log well formed.
LEMMA RecordType ==
    ASSUME log \in [Entries -> [EventTypes -> Nat]], NEW e \in Entries, NEW T,
           Record(e, T)
    PROVE  log' \in [Entries -> [EventTypes -> Nat]]
<1>1. [t \in EventTypes |-> IF t \in T THEN log[e][t] + 1 ELSE log[e][t]]
          \in [EventTypes -> Nat]
  OBVIOUS
<1> QED
  BY <1>1 DEF Record

LEMMA CommitType ==
    ASSUME TypeOK, NEW w \in Workers, Targeted(req[w]), Commit(w)
    PROVE  TypeOK'
<1> DEFINE Tables == /\ invite' \in [Invites -> InviteRow]
                     /\ entry' \in [Entries -> EntryRow]
                     /\ log' \in [Entries -> [EventTypes -> Nat]]
                     /\ lastToken' \in Nat
<1>1. ASSUME NEW op, Committing(w, op), Tables PROVE TypeOK'
  BY RequestType, <1>1 DEF Committing, TypeOK, dutyVars, policyVars
<1>2. /\ req[w] \in Request /\ now \in Nat /\ lastToken \in Nat
      /\ invite \in [Invites -> InviteRow] /\ entry \in [Entries -> EntryRow]
      /\ log \in [Entries -> [EventTypes -> Nat]]
  BY DEF TypeOK
<1>3. IssueToken => lastToken' \in Nat
  BY <1>2 DEF IssueToken
<1>4. CASE CommitCreateInvite(w)
  <2>1. ASSUME NEW i \in Invites,
               invite' = [invite EXCEPT ![i] =
                   [status |-> "active", by |-> req[w].user,
                    expires |-> req[w].exp, updated |-> now]]
        PROVE  invite' \in [Invites -> InviteRow]
    BY <1>2, <2>1 DEF InviteRow, InviteStatuses, Request
  <2>2. Tables
    BY <1>2, <1>4, <2>1 DEF CommitCreateInvite
  <2> QED
    BY <1>1, <1>4, <2>2 DEF CommitCreateInvite
<1>5. CASE CommitSubmitInvite(w)
  <2>1. req[w].invite \in Invites
    BY <1>5 DEF CommitSubmitInvite, Committing, Targeted
  <2>2. invite' \in [Invites -> InviteRow]
    <3>1. \A i \in Invites :
            [invite[i] EXCEPT !.status = "used", !.updated = now] \in InviteRow
      BY <1>2 DEF InviteRow, InviteStatuses
    <3>2. invite' = MarkUsed(req[w].invite)
      BY <1>5 DEF CommitSubmitInvite
    <3>3. [invite EXCEPT ![req[w].invite].status = "used",
                         ![req[w].invite].updated = now]
          = [invite EXCEPT ![req[w].invite] =
                [invite[req[w].invite] EXCEPT !.status = "used", !.updated = now]]
      BY <1>2, <2>1
    <3> QED
      BY <1>2, <2>1, <3>1, <3>2, <3>3 DEF MarkUsed
  <2>3. ASSUME NEW e \in Entries, NEW due \in Dues,
               entry' = [entry EXCEPT ![e] =
                   [status |-> "approved", source |-> "resident_link",
                    invite |-> req[w].invite,
                    approvedBy |-> invite[req[w].invite].by,
                    rejectedBy |-> NoUser, guard |-> NoUser,
                    qr |-> lastToken', exp |-> req[w].exp, due |-> due]]
        PROVE  entry' \in [Entries -> EntryRow]
    BY <1>2, <1>3, <1>5, <2>1, <2>3, ConstantsOK
    DEF CommitSubmitInvite, EntryRow, EntryStatuses, Sources, Request, InviteRow
  <2>4. Tables
    BY <1>2, <1>3, <1>5, <2>2, <2>3, RecordType DEF CommitSubmitInvite
  <2> QED
    BY <1>1, <1>5, <2>4 DEF CommitSubmitInvite
<1>6. CASE CommitCancelInvite(w)
  <2>1. req[w].invite \in Invites
    BY <1>6 DEF CommitCancelInvite, Committing, Targeted
  <2>2. \A i \in Invites :
          [invite[i] EXCEPT !.status = "cancelled", !.updated = now] \in InviteRow
    BY <1>2 DEF InviteRow, InviteStatuses
  <2>3. invite' = [invite EXCEPT ![req[w].invite] =
            [invite[req[w].invite] EXCEPT !.status = "cancelled", !.updated = now]]
    BY <1>2, <1>6, <2>1 DEF CommitCancelInvite
  <2>4. invite' \in [Invites -> InviteRow]
    BY <1>2, <2>1, <2>2, <2>3
  <2> QED
    BY <1>1, <1>2, <1>6, <2>4 DEF CommitCancelInvite
<1>7. ASSUME NEW op \in FormOps, CommitApprovedForm(w, op) PROVE TypeOK'
  <2>1. ASSUME NEW e \in Entries, NEW due \in Dues,
               entry' = [entry EXCEPT ![e] =
                   [status |-> "approved", source |-> op, invite |-> NoInvite,
                    approvedBy |-> req[w].user, rejectedBy |-> NoUser,
                    guard |-> req[w].user, qr |-> lastToken',
                    exp |-> req[w].exp, due |-> due]]
        PROVE  entry' \in [Entries -> EntryRow]
    BY <1>2, <1>3, <1>7, <2>1, ConstantsOK
    DEF CommitApprovedForm, EntryRow, EntryStatuses, Sources, FormOps, Request
  <2>2. Tables
    BY <1>2, <1>3, <1>7, <2>1, RecordType DEF CommitApprovedForm
  <2> QED
    BY <1>1, <1>7, <2>2 DEF CommitApprovedForm
<1>8. ASSUME NEW op \in FormOps, CommitWaitingForm(w, op) PROVE TypeOK'
  <2>1. ASSUME NEW e \in Entries, NEW due \in Dues,
               entry' = [entry EXCEPT ![e] =
                   [status |-> "waiting_approval", source |-> op,
                    invite |-> NoInvite, approvedBy |-> NoUser,
                    rejectedBy |-> NoUser, guard |-> req[w].user,
                    qr |-> NoToken, exp |-> 0, due |-> due]]
        PROVE  entry' \in [Entries -> EntryRow]
    BY <1>2, <2>1, ConstantsOK
    DEF EntryRow, EntryStatuses, Sources, FormOps, Request, NoToken
  <2>2. Tables
    BY <1>2, <1>8, <2>1, RecordType DEF CommitWaitingForm
  <2> QED
    BY <1>1, <1>8, <2>2 DEF CommitWaitingForm
<1>9. ASSUME Committing(w, "approve") \/ Committing(w, "reject")
             \/ Committing(w, "generate_qr") \/ Committing(w, "check_in")
             \/ Committing(w, "check_out")
      PROVE  req[w].entry \in Entries
  BY <1>9 DEF Committing, Targeted
<1>10. ASSUME NEW e \in Entries, NEW s \in EntryStatuses,
              NEW u \in Users \cup {NoUser}, NEW q \in Nat, NEW x \in Nat
       PROVE  /\ [entry[e] EXCEPT !.status = s, !.approvedBy = u, !.qr = q,
                                  !.exp = x] \in EntryRow
              /\ [entry[e] EXCEPT !.status = s, !.rejectedBy = u] \in EntryRow
              /\ [entry[e] EXCEPT !.status = s, !.guard = u] \in EntryRow
              /\ [entry[e] EXCEPT !.qr = q, !.exp = x] \in EntryRow
  BY <1>2 DEF EntryRow
<1>11. {"approved", "rejected", "checked_in", "checked_out"} \subseteq EntryStatuses
  BY DEF EntryStatuses
<1>12. req[w].user \in Users \cup {NoUser} /\ req[w].exp \in Nat
  BY <1>2 DEF Request
<1>13. CASE CommitApprove(w)
  <2>1. Tables
    BY <1>2, <1>3, <1>9, <1>10, <1>11, <1>12, <1>13, RecordType DEF CommitApprove
  <2> QED
    BY <1>1, <1>13, <2>1 DEF CommitApprove
<1>14. CASE CommitReject(w)
  <2>1. Tables
    BY <1>2, <1>9, <1>10, <1>11, <1>12, <1>14, RecordType DEF CommitReject
  <2> QED
    BY <1>1, <1>14, <2>1 DEF CommitReject
<1>15. CASE CommitGenerateQR(w)
  <2>1. Tables
    BY <1>2, <1>3, <1>9, <1>10, <1>11, <1>12, <1>15, RecordType DEF CommitGenerateQR
  <2> QED
    BY <1>1, <1>15, <2>1 DEF CommitGenerateQR
<1>16. CASE CommitCheckIn(w)
  <2>1. Tables
    BY <1>2, <1>9, <1>10, <1>11, <1>12, <1>16, RecordType DEF CommitCheckIn
  <2> QED
    BY <1>1, <1>16, <2>1 DEF CommitCheckIn
<1>17. CASE CommitCheckOut(w)
  <2>1. Tables
    BY <1>2, <1>9, <1>10, <1>11, <1>12, <1>17, RecordType DEF CommitCheckOut
  <2> QED
    BY <1>1, <1>17, <2>1 DEF CommitCheckOut
<1> QED
  BY <1>4, <1>5, <1>6, <1>7, <1>8, <1>13, <1>14, <1>15, <1>16, <1>17 DEF Commit

(***************************************************************************)
(* The steps of the system: one transaction, one maintenance statement, or *)
(* nothing that the tables can tell.                                       *)
(***************************************************************************)
Quiet == UNCHANGED tableVars

LEMMA StepKinds ==
    ASSUME TypeOK, [Next]_vars
    PROVE  \/ Quiet
           \/ ExpireOldInvites
           \/ AutoCloseExpiredEntries
           \/ \E w \in Workers : Commit(w)
<1>1. CASE UNCHANGED vars
  BY <1>1 DEF vars, Quiet
<1>2. CASE Environment
  BY <1>2 DEF Environment, Quiet, Tick, Reassign, UpdateSocietySettings,
              UpdateFlatPurposeSetting
<1>3. ASSUME NEW w \in Workers, Arrival(w) PROVE Quiet
  BY <1>3, ArrivalStarts DEF Arrive, Quiet
<1>4. ASSUME NEW w \in Workers, Read(w) PROVE Quiet
  BY <1>4, ReadProceeds DEF Quiet
<1>5. ASSUME NEW w \in Workers, Fail(w) PROVE Quiet
  BY <1>5 DEF Fail, Quiet
<1> QED
  BY <1>1, <1>2, <1>3, <1>4, <1>5 DEF Next

\* An invite never goes away, and one that is spent, cancelled or expired is
\* never written again.
LEMMA InvitesStay ==
    ASSUME TypeOK, NEW w \in Workers, Targeted(req[w]), Commit(w)
    PROVE  \A i \in Invites :
               /\ invite[i].status # "none" => invite'[i].status # "none"
               /\ invite[i].status \notin {"none", "active"} =>
                      invite'[i] = invite[i]
<1>1. CASE CommitCreateInvite(w)
  BY <1>1 DEF CommitCreateInvite, TypeOK
<1>2. CASE CommitSubmitInvite(w)
  BY <1>2 DEF CommitSubmitInvite, MarkUsed, TypeOK, InviteRow
<1>3. CASE CommitCancelInvite(w)
  BY <1>3 DEF CommitCancelInvite, TypeOK, InviteRow
<1>4. CASE UNCHANGED invite
  BY <1>4
<1> QED
  BY <1>1, <1>2, <1>3, <1>4 DEF Commit, CommitApprovedForm, CommitWaitingForm,
     CommitApprove, CommitReject, CommitGenerateQR, CommitCheckIn, CommitCheckOut

\* The request every worker serves has its target.
Requests == \A w \in Workers : Targeted(req[w])

LEMMA RequestsStep ==
    ASSUME TypeOK, Requests, [Next]_vars
    PROVE  TypeOK' /\ Requests'
<1>1. Targeted(Idle)
  BY DEF Targeted, Idle
<1>2. CASE UNCHANGED vars
  BY <1>2 DEF vars, dutyVars, policyVars, tableVars, TypeOK, Requests, Targeted
<1>3. CASE Environment
  <2>1. UNCHANGED req
    BY <1>3 DEF Environment, Tick, Reassign, UpdateSocietySettings,
       UpdateFlatPurposeSetting, ExpireOldInvites, AutoCloseExpiredEntries
  <2>2. \A i \in Invites : invite[i].status # "none" => invite'[i].status # "none"
    <3>1. CASE ExpireOldInvites
      BY <3>1 DEF ExpireOldInvites, TypeOK, InviteRow
    <3>2. CASE UNCHANGED invite
      BY <3>2
    <3> QED
      BY <1>3, <3>1, <3>2 DEF Environment, Tick, Reassign, UpdateSocietySettings,
         UpdateFlatPurposeSetting, AutoCloseExpiredEntries, tableVars
  <2> QED
    BY <1>3, <2>1, <2>2, EnvironmentType DEF Requests, Targeted
<1>4. ASSUME NEW w \in Workers, NEW r \in Request, Targeted(r),
             req' = [req EXCEPT ![w] = r],
             UNCHANGED <<now, dutyVars, policyVars, tableVars>>
      PROVE  TypeOK' /\ Requests'
  BY <1>4 DEF TypeOK, Requests, Targeted, dutyVars, policyVars, tableVars
<1>5. ASSUME NEW w \in Workers, Arrival(w) PROVE TypeOK' /\ Requests'
  BY <1>4, <1>5, ArrivalStarts DEF Arrive
<1>6. ASSUME NEW w \in Workers, Read(w) PROVE TypeOK' /\ Requests'
  BY <1>4, <1>6, ReadProceeds DEF Requests, Targeted
<1>7. ASSUME NEW w \in Workers, Fail(w) PROVE TypeOK' /\ Requests'
  BY <1>1, <1>4, <1>7, RequestType DEF Fail
<1>8. ASSUME NEW w \in Workers, Commit(w) PROVE TypeOK' /\ Requests'
  <2>1. req' = [req EXCEPT ![w] = Idle]
    BY <1>8 DEF Commit, Committing, CommitCreateInvite, CommitSubmitInvite,
       CommitCancelInvite, CommitApprovedForm, CommitWaitingForm, CommitApprove,
       CommitReject, CommitGenerateQR, CommitCheckIn, CommitCheckOut
  <2>2. \A i \in Invites : invite[i].status # "none" => invite'[i].status # "none"
    BY <1>8, InvitesStay DEF Requests
  <2>3. Requests'
    BY <1>1, <2>1, <2>2 DEF Requests, Targeted, TypeOK
  <2> QED
    BY <1>8, <2>3, CommitType DEF Requests
<1> QED
  BY <1>2, <1>3, <1>5, <1>6, <1>7, <1>8 DEF Next

\* The tables and requests of visitorService are well formed in every
\* reachable state, whatever the number of workers, users, invites and
\* entries, and a request in flight always has the row it acts on.
THEOREM TypeCorrect == Spec => [](TypeOK /\ Requests)
<1>1. Init => TypeOK /\ Requests
  BY InitType DEF Init, Requests, Targeted, Idle
<1>2. TypeOK /\ Requests /\ [Next]_vars => (TypeOK /\ Requests)'
  BY RequestsStep
<1> QED
  BY <1>1, <1>2, PTL DEF Spec

(***************************************************************************)
(* The event log.                                                          *)
(***************************************************************************)
\* Recording the events T is right for a move from one status to another.
AuditedMove(from, to, T) ==
    \A events \in [EventTypes -> Nat] :
        Audited(from, events) =>
            Audited(to, [t \in EventTypes |->
                             IF t \in T THEN events[t] + 1 ELSE events[t]])

\* The events each transaction records are those of its transition.
LEMMA AuditedMoves ==
    /\ AuditedMove("none", "approved", {"created", "approved", "qr_generated"})
    /\ AuditedMove("none", "waiting_approval", {"created"})
    /\ AuditedMove("waiting_approval", "approved", {"approved", "qr_generated"})
    /\ AuditedMove("waiting_approval", "rejected", {"rejected"})
    /\ AuditedMove("approved", "approved", {"qr_generated"})
    /\ AuditedMove("approved", "checked_in", {"qr_used", "checked_in"})
    /\ AuditedMove("checked_in", "checked_out", {"checked_out"})
    /\ \A events \in [EventTypes -> Nat] :
           Audited("checked_in", events) => Audited("auto_closed", events)
BY DEF AuditedMove, Audited, EventTypes, EntryStatuses, Cleared, Admitted

\* A transaction that writes one entry and records the events of its move
\* keeps the audit trail.
LEMMA AuditWrite ==
    ASSUME TypeOK, AuditTrail, NEW e \in Entries, NEW row, NEW T,
           entry' = [entry EXCEPT ![e] = row], Record(e, T),
           AuditedMove(entry[e].status, row.status, T)
    PROVE  AuditTrail'
<1>1. log \in [Entries -> [EventTypes -> Nat]] /\ entry \in [Entries -> EntryRow]
  BY DEF TypeOK
<1>2. /\ entry'[e] = row
      /\ log'[e] = [t \in EventTypes |->
                       IF t \in T THEN log[e][t] + 1 ELSE log[e][t]]
  BY <1>1 DEF Record
<1>3. Audited(entry'[e].status, log'[e])
  BY <1>1, <1>2 DEF AuditTrail, AuditedMove
<1>4. \A f \in Entries : f # e => entry'[f] = entry[f] /\ log'[f] = log[f]
  BY <1>1 DEF Record
<1> QED
  BY <1>3, <1>4 DEF AuditTrail, Audited

LEMMA AuditStep ==
    ASSUME TypeOK, Requests, AuditTrail, [Next]_vars
    PROVE  AuditTrail'
<1>1. entry' \in [Entries -> EntryRow] /\ entry \in [Entries -> EntryRow]
  BY RequestsStep DEF TypeOK
<1>2. CASE Quiet
  BY <1>2 DEF Quiet, tableVars, AuditTrail, Audited
<1>3. CASE ExpireOldInvites
  BY <1>3 DEF ExpireOldInvites, AuditTrail, Audited
<1>4. CASE AutoCloseExpiredEntries
  <2>1. ASSUME NEW e \in Entries PROVE Audited(entry'[e].status, log[e])
    <3>1. log[e] \in [EventTypes -> Nat]
      BY DEF TypeOK
    <3>2. \/ entry'[e].status = entry[e].status
          \/ entry[e].status = "checked_in" /\ entry'[e].status = "auto_closed"
      BY <1>1, <1>4 DEF AutoCloseExpiredEntries, Overdue, EntryRow
    <3> QED
      BY <3>1, <3>2, AuditedMoves DEF AuditTrail
  <2> QED
    BY <1>4, <2>1 DEF AutoCloseExpiredEntries, AuditTrail, Audited
<1>5. ASSUME NEW w \in Workers, Commit(w) PROVE AuditTrail'
  <2>1. CASE UNCHANGED <<entry, log>>
    BY <2>1 DEF AuditTrail, Audited
  <2>2. CASE CommitSubmitInvite(w)
    <3>1. PICK e \in Entries, due \in Dues :
            /\ entry[e].status = "none"
            /\ entry' = [entry EXCEPT ![e] =
                   [status |-> "approved", source |-> "resident_link",
                    invite |-> req[w].invite,
                    approvedBy |-> invite[req[w].invite].by,
                    rejectedBy |-> NoUser, guard |-> NoUser,
                    qr |-> lastToken', exp |-> req[w].exp, due |-> due]]
            /\ Record(e, {"created", "approved", "qr_generated"})
      BY <2>2 DEF CommitSubmitInvite
    <3> QED
      BY <3>1, AuditWrite, AuditedMoves
  <2>3. ASSUME NEW op \in FormOps, CommitApprovedForm(w, op) PROVE AuditTrail'
    <3>1. PICK e \in Entries, due \in Dues :
            /\ entry[e].status = "none"
            /\ entry' = [entry EXCEPT ![e] =
                   [status |-> "approved", source |-> op, invite |-> NoInvite,
                    approvedBy |-> req[w].user, rejectedBy |-> NoUser,
                    guard |-> req[w].user, qr |-> lastToken',
                    exp |-> req[w].exp, due |-> due]]
            /\ Record(e, {"created", "approved", "qr_generated"})
      BY <2>3 DEF CommitApprovedForm
    <3> QED
      BY <3>1, AuditWrite, AuditedMoves
  <2>4. ASSUME NEW op \in FormOps, CommitWaitingForm(w, op) PROVE AuditTrail'
    <3>1. PICK e \in Entries, due \in Dues :
            /\ entry[e].status = "none"
            /\ entry' = [entry EXCEPT ![e] =
                   [status |-> "waiting_approval", source |-> op,
                    invite |-> NoInvite, approvedBy |-> NoUser,
                    rejectedBy |-> NoUser, guard |-> req[w].user,
                    qr |-> NoToken, exp |-> 0, due |-> due]]
            /\ Record(e, {"created"})
      BY <2>4 DEF CommitWaitingForm
    <3> QED
      BY <3>1, AuditWrite, AuditedMoves
  <2> DEFINE e == req[w].entry
  <2>5. CASE CommitApprove(w)
    <3>1. e \in Entries /\ entry[e].status = "waiting_approval"
      BY <2>5 DEF CommitApprove, Committing, InStatus, Requests, Targeted
    <3>2. [entry[e] EXCEPT !.status = "approved", !.approvedBy = req[w].user,
                           !.qr = lastToken', !.exp = req[w].exp].status = "approved"
      BY <1>1, <3>1 DEF EntryRow
    <3> QED
      BY <1>1, <2>5, <3>1, <3>2, AuditWrite, AuditedMoves DEF CommitApprove
  <2>6. CASE CommitReject(w)
    <3>1. e \in Entries /\ entry[e].status = "waiting_approval"
      BY <2>6 DEF CommitReject, Committing, InStatus, Requests, Targeted
    <3>2. [entry[e] EXCEPT !.status = "rejected",
                           !.rejectedBy = req[w].user].status = "rejected"
      BY <1>1, <3>1 DEF EntryRow
    <3> QED
      BY <1>1, <2>6, <3>1, <3>2, AuditWrite, AuditedMoves DEF CommitReject
  <2>7. CASE CommitGenerateQR(w)
    <3>1. e \in Entries /\ entry[e].status = "approved"
      BY <2>7 DEF CommitGenerateQR, Committing, InStatus, Requests, Targeted
    <3>2. [entry[e] EXCEPT !.qr = lastToken',
                           !.exp = req[w].exp].status = "approved"
      BY <1>1, <3>1 DEF EntryRow
    <3> QED
      BY <1>1, <2>7, <3>1, <3>2, AuditWrite, AuditedMoves DEF CommitGenerateQR
  <2>8. CASE CommitCheckIn(w)
    <3>1. e \in Entries /\ entry[e].status = "approved"
      BY <2>8 DEF CommitCheckIn, Committing, InStatus, Requests, Targeted
    <3>2. [entry[e] EXCEPT !.status = "checked_in",
                           !.guard = req[w].user].status = "checked_in"
      BY <1>1, <3>1 DEF EntryRow
    <3> QED
      BY <1>1, <2>8, <3>1, <3>2, AuditWrite, AuditedMoves DEF CommitCheckIn
  <2>9. CASE CommitCheckOut(w)
    <3>1. e \in Entries /\ entry[e].status = "checked_in"
      BY <2>9 DEF CommitCheckOut, Committing, InStatus, Requests, Targeted
    <3>2. [entry[e] EXCEPT !.status = "checked_out",
                           !.guard = req[w].user].status = "checked_out"
      BY <1>1, <3>1 DEF EntryRow
    <3> QED
      BY <1>1, <2>9, <3>1, <3>2, AuditWrite, AuditedMoves DEF CommitCheckOut
  <2> QED
    BY <1>5, <2>1, <2>2, <2>3, <2>4, <2>5, <2>6, <2>7, <2>8, <2>9
    DEF Commit, CommitCreateInvite, CommitCancelInvite
<1> QED
  BY <1>2, <1>3, <1>4, <1>5, StepKinds

\* In every reachable state the visitor_entry_events of an entry are exactly
\* those the requests of its status leave, so no race of decisions, admissions
\* or regenerated codes records one twice or loses one; the sweep leaves none.
THEOREM AuditTrailHolds == Spec => []AuditTrail
<1>1. Init => AuditTrail
  BY DEF Init, AuditTrail, Audited, EventTypes, EntryStatuses, Cleared, Admitted
<1>2. TypeOK /\ Requests /\ AuditTrail /\ [Next]_vars => AuditTrail'
  BY AuditStep
<1> QED
  BY <1>1, <1>2, TypeCorrect, PTL DEF Spec

(***************************************************************************)
(* Decisions and invites.                                                  *)
(***************************************************************************)
\* OneDecision and InviteConsumed for one row of visitor_entries.
Decided(row, inv) ==
    /\ row.rejectedBy # NoUser <=> row.status = "rejected"
    /\ row.approvedBy # NoUser => row.status \in Cleared
    /\ row.invite # NoInvite =>
           /\ row.approvedBy = inv[row.invite].by
           /\ row.source = "resident_link"
           /\ row.status \in Cleared
           /\ inv[row.invite].status \notin {"none", "active"}

Spent(inv) ==
    \A i \in Invites :
        inv[i].status = "used" => \E e \in Entries : entry[e].invite = i

Decisions == (\A e \in Entries : Decided(entry[e], invite)) /\ Spent(invite)

LEMMA DecisionsAre == Decisions <=> OneDecision /\ InviteConsumed
BY DEF Decisions, Decided, Spent, OneDecision, InviteConsumed

\* Writing one entry keeps every other entry decided, since the invites the
\* others came from are never written again.
LEMMA DecisionsWrite ==
    ASSUME TypeOK, Decisions, NEW e \in Entries, NEW row \in EntryRow,
           entry' = [entry EXCEPT ![e] = row], Decided(row, invite'),
           \A i \in Invites :
               invite[i].status \notin {"none", "active"} => invite'[i] = invite[i],
           entry[e].invite \in {NoInvite, row.invite},
           \A i \in Invites :
               invite'[i].status = "used" => invite[i].status = "used" \/ row.invite = i
    PROVE  Decisions'
<1>1. entry \in [Entries -> EntryRow]
  BY DEF TypeOK
<1>2. entry'[e] = row /\ \A f \in Entries : f # e => entry'[f] = entry[f]
  BY <1>1
<1>3. ASSUME NEW f \in Entries, f # e PROVE Decided(entry[f], invite')
  <2>1. entry[f].invite # NoInvite => entry[f].invite \in Invites
    BY <1>1 DEF EntryRow
  <2> QED
    BY <1>3, <2>1 DEF Decisions, Decided
<1>4. \A f \in Entries : Decided(entry'[f], invite')
  BY <1>2, <1>3
<1>5. ASSUME NEW i \in Invites, invite'[i].status = "used"
      PROVE  \E f \in Entries : entry'[f].invite = i
  BY <1>2, <1>5, ConstantsOK DEF Decisions, Spent
<1> QED
  BY <1>4, <1>5 DEF Decisions, Decided, Spent

LEMMA DecisionsStep ==
    ASSUME TypeOK, Requests, Decisions, [Next]_vars
    PROVE  Decisions'
<1>1. /\ entry' \in [Entries -> EntryRow] /\ entry \in [Entries -> EntryRow]
      /\ invite' \in [Invites -> InviteRow] /\ invite \in [Invites -> InviteRow]
  BY RequestsStep DEF TypeOK
<1>2. CASE Quiet
  BY <1>2 DEF Quiet, tableVars, Decisions, Decided, Spent
<1>3. CASE ExpireOldInvites
  <2>1. \A i \in Invites :
          /\ invite'[i].by = invite[i].by
          /\ invite[i].status \notin {"none", "active"} => invite'[i] = invite[i]
          /\ invite'[i].status = "used" => invite[i].status = "used"
    BY <1>1, <1>3 DEF ExpireOldInvites, Overage, InviteRow
  <2>2. ASSUME NEW e \in Entries PROVE Decided(entry[e], invite')
    <3>1. entry[e].invite # NoInvite => entry[e].invite \in Invites
      BY <1>1 DEF EntryRow
    <3> QED
      BY <2>1, <3>1 DEF Decisions, Decided
  <2>3. UNCHANGED entry
    BY <1>3 DEF ExpireOldInvites
  <2>4. Spent(invite)'
    BY <2>1, <2>3 DEF Decisions, Spent
  <2> QED
    BY <2>2, <2>3, <2>4 DEF Decisions, Decided
<1>4. CASE AutoCloseExpiredEntries
  <2>1. \A e \in Entries :
          \/ entry'[e] = entry[e]
          \/ /\ entry[e].status = "checked_in"
             /\ entry'[e] = [entry[e] EXCEPT !.status = "auto_closed"]
    BY <1>1, <1>4 DEF AutoCloseExpiredEntries, Overdue
  <2>2. \A e \in Entries :
          Decided(entry'[e], invite) /\ entry'[e].invite = entry[e].invite
    BY <1>1, <2>1 DEF Decisions, Decided, Cleared, Admitted, EntryRow
  <2>3. UNCHANGED invite
    BY <1>4 DEF AutoCloseExpiredEntries
  <2>4. Spent(invite)'
    BY <2>2, <2>3 DEF Decisions, Spent
  <2> QED
    BY <2>2, <2>3, <2>4 DEF Decisions, Decided
<1>5. ASSUME NEW w \in Workers, Commit(w) PROVE Decisions'
  <2>1. Targeted(req[w]) /\ req[w] \in Request
    BY DEF Requests, TypeOK
  <2>2. \A i \in Invites :
          invite[i].status \notin {"none", "active"} => invite'[i] = invite[i]
    BY <1>5, <2>1, InvitesStay
  <2>3. ASSUME UNCHANGED entry,
               \A i \in Invites : invite'[i].status = "used" => invite[i].status = "used"
        PROVE  Decisions'
    <3>1. ASSUME NEW e \in Entries PROVE Decided(entry[e], invite')
      <4>1. entry[e].invite # NoInvite => entry[e].invite \in Invites
        BY <1>1 DEF EntryRow
      <4> QED
        BY <2>2, <4>1 DEF Decisions, Decided
    <3> QED
      BY <2>3, <3>1 DEF Decisions, Decided, Spent
  <2>4. CASE CommitCreateInvite(w)
    BY <1>1, <2>3, <2>4 DEF CommitCreateInvite
  <2>5. CASE CommitCancelInvite(w)
    BY <1>1, <2>3, <2>5 DEF CommitCancelInvite, InviteRow
  <2>6. CASE CommitSubmitInvite(w)
    <3> DEFINE i == req[w].invite
               row(e, due) ==
                   [status |-> "approved", source |-> "resident_link",
                    invite |-> i, approvedBy |-> invite[i].by,
                    rejectedBy |-> NoUser, guard |-> NoUser,
                    qr |-> lastToken', exp |-> req[w].exp, due |-> due]
    <3>1. PICK e \in Entries, due \in Dues :
            entry[e].status = "none" /\ entry' = [entry EXCEPT ![e] = row(e, due)]
      BY <2>6 DEF CommitSubmitInvite
    <3>2. i \in Invites /\ invite[i].status # "none"
      BY <2>1, <2>6 DEF CommitSubmitInvite, Committing, Targeted
    <3>3. /\ invite'[i].by = invite[i].by
          /\ invite'[i].status \notin {"none", "active"}
          /\ \A j \in Invites : j # i => invite'[j] = invite[j]
      BY <1>1, <2>6, <3>2
      DEF CommitSubmitInvite, MarkUsed, InviteRow, InviteStatuses
    <3>4. Decided(row(e, due), invite') /\ row(e, due).invite = i
      BY <3>3 DEF Decided, Cleared
    <3>5. row(e, due) \in EntryRow
      BY <1>1, <3>1
    <3>6. entry[e].invite = NoInvite
      BY <1>1, <3>1 DEF Decisions, Decided, Cleared, Admitted
    <3> HIDE DEF row
    <3> QED
      BY <2>2, <3>1, <3>3, <3>4, <3>5, <3>6, DecisionsWrite
  <2>7. ASSUME UNCHANGED invite, NEW e \in Entries, NEW row \in EntryRow,
               entry' = [entry EXCEPT ![e] = row], Decided(row, invite),
               entry[e].invite \in {NoInvite, row.invite}
        PROVE  Decisions'
    BY <2>7, DecisionsWrite
  <2>8. ASSUME NEW op \in FormOps, CommitApprovedForm(w, op) PROVE Decisions'
    <3> DEFINE row(due) ==
                   [status |-> "approved", source |-> op, invite |-> NoInvite,
                    approvedBy |-> req[w].user, rejectedBy |-> NoUser,
                    guard |-> req[w].user, qr |-> lastToken',
                    exp |-> req[w].exp, due |-> due]
    <3>1. PICK e \in Entries, due \in Dues :
            entry[e].status = "none" /\ entry' = [entry EXCEPT ![e] = row(due)]
      BY <2>8 DEF CommitApprovedForm
    <3>2. Decided(row(due), invite) /\ row(due) \in EntryRow
      BY <1>1, <3>1 DEF Decided, Cleared
    <3>3. entry[e].invite = NoInvite
      BY <1>1, <3>1 DEF Decisions, Decided, Cleared, Admitted
    <3> HIDE DEF row
    <3> QED
      BY <2>7, <2>8, <3>1, <3>2, <3>3 DEF CommitApprovedForm
  <2>9. ASSUME NEW op \in FormOps, CommitWaitingForm(w, op) PROVE Decisions'
    <3> DEFINE row(due) ==
                   [status |-> "waiting_approval", source |-> op,
                    invite |-> NoInvite, approvedBy |-> NoUser,
                    rejectedBy |-> NoUser, guard |-> req[w].user,
                    qr |-> NoToken, exp |-> 0, due |-> due]
    <3>1. PICK e \in Entries, due \in Dues :
            entry[e].status = "none" /\ entry' = [entry EXCEPT ![e] = row(due)]
      BY <2>9 DEF CommitWaitingForm
    <3>2. Decided(row(due), invite) /\ row(due) \in EntryRow
      BY <1>1, <3>1 DEF Decided
    <3>3. entry[e].invite = NoInvite
      BY <1>1, <3>1 DEF Decisions, Decided, Cleared, Admitted
    <3> HIDE DEF row
    <3> QED
      BY <2>7, <2>9, <3>1, <3>2, <3>3 DEF CommitWaitingForm
  <2> DEFINE e == req[w].entry
  <2>10. ASSUME UNCHANGED invite, e \in Entries,
                entry' = [entry EXCEPT ![e] = entry'[e]],
                Decided(entry'[e], invite), entry'[e].invite = entry[e].invite
         PROVE  Decisions'
    BY <1>1, <2>7, <2>10
  <2>11. CASE CommitApprove(w)
    <3>1. e \in Entries /\ entry[e].status = "waiting_approval"
      BY <2>1, <2>11 DEF CommitApprove, Committing, InStatus, Targeted
    <3>2. entry'[e] = [entry[e] EXCEPT !.status = "approved",
                           !.approvedBy = req[w].user, !.qr = lastToken',
                           !.exp = req[w].exp]
      BY <1>1, <2>11, <3>1 DEF CommitApprove
    <3>3. Decided(entry'[e], invite) /\ entry'[e].invite = entry[e].invite
      BY <1>1, <3>1, <3>2 DEF Decisions, Decided, Cleared, Admitted, EntryRow
    <3> QED
      BY <1>1, <2>10, <2>11, <3>1, <3>3 DEF CommitApprove
  <2>12. CASE CommitReject(w)
    <3>1. /\ e \in Entries /\ entry[e].status = "waiting_approval"
          /\ req[w].user \in Users
      BY <2>1, <2>12 DEF CommitReject, Committing, InStatus, Targeted
    <3>2. entry'[e] = [entry[e] EXCEPT !.status = "rejected",
                                       !.rejectedBy = req[w].user]
      BY <1>1, <2>12, <3>1 DEF CommitReject
    <3>3. /\ entry'[e].status = "rejected" /\ entry'[e].rejectedBy = req[w].user
          /\ entry'[e].approvedBy = entry[e].approvedBy
          /\ entry'[e].invite = entry[e].invite
      BY <1>1, <3>1, <3>2 DEF EntryRow
    <3>4. entry[e].approvedBy = NoUser /\ entry[e].invite = NoInvite
      BY <3>1 DEF Decisions, Decided, Cleared, Admitted
    <3>5. Decided(entry'[e], invite)
      BY <3>1, <3>3, <3>4, ConstantsOK DEF Decided
    <3> QED
      BY <1>1, <2>10, <2>12, <3>1, <3>3, <3>5 DEF CommitReject
  <2>13. CASE CommitGenerateQR(w)
    <3>1. e \in Entries
      BY <2>1, <2>13 DEF CommitGenerateQR, Committing, Targeted
    <3>2. entry'[e] = [entry[e] EXCEPT !.qr = lastToken', !.exp = req[w].exp]
      BY <1>1, <2>13, <3>1 DEF CommitGenerateQR
    <3>3. Decided(entry'[e], invite) /\ entry'[e].invite = entry[e].invite
      BY <1>1, <3>1, <3>2 DEF Decisions, Decided, EntryRow
    <3> QED
      BY <1>1, <2>10, <2>13, <3>1, <3>3 DEF CommitGenerateQR
  <2>14. CASE CommitCheckIn(w)
    <3>1. e \in Entries /\ entry[e].status = "approved"
      BY <2>1, <2>14 DEF CommitCheckIn, Committing, InStatus, Targeted
    <3>2. entry'[e] = [entry[e] EXCEPT !.status = "checked_in", !.guard = req[w].user]
      BY <1>1, <2>14, <3>1 DEF CommitCheckIn
    <3>3. Decided(entry'[e], invite) /\ entry'[e].invite = entry[e].invite
      BY <1>1, <3>1, <3>2 DEF Decisions, Decided, Cleared, Admitted, EntryRow
    <3> QED
      BY <1>1, <2>10, <2>14, <3>1, <3>3 DEF CommitCheckIn
  <2>15. CASE CommitCheckOut(w)
    <3>1. e \in Entries /\ entry[e].status = "checked_in"
      BY <2>1, <2>15 DEF CommitCheckOut, Committing, InStatus, Targeted
    <3>2. entry'[e] = [entry[e] EXCEPT !.status = "checked_out", !.guard = req[w].user]
      BY <1>1, <2>15, <3>1 DEF CommitCheckOut
    <3>3. Decided(entry'[e], invite) /\ entry'[e].invite = entry[e].invite
      BY <1>1, <3>1, <3>2 DEF Decisions, Decided, Cleared, Admitted, EntryRow
    <3> QED
      BY <1>1, <2>10, <2>15, <3>1, <3>3 DEF CommitCheckOut
  <2> QED
    BY <1>5, <2>4, <2>5, <2>6, <2>8, <2>9, <2>11, <2>12, <2>13, <2>14, <2>15 DEF Commit
<1> QED
  BY <1>2, <1>3, <1>4, <1>5, StepKinds

\* Two residents deciding the same entry leave one decision, and an invite
\* that let somebody in is spent, in every reachable state.
THEOREM DecisionsHold == Spec => [](OneDecision /\ InviteConsumed)
<1>1. Init => Decisions
  BY DEF Init, Decisions, Decided, Spent, Cleared, Admitted
<1>2. TypeOK /\ Requests /\ Decisions /\ [Next]_vars => Decisions'
  BY DecisionsStep
<1>3. Decisions => OneDecision /\ InviteConsumed
  BY DecisionsAre
<1> QED
  BY <1>1, <1>2, <1>3, TypeCorrect, PTL DEF Spec

(***************************************************************************)
(* QR codes.                                                               *)
(***************************************************************************)
\* Writing one entry keeps codes apart when its code is its old one or the
\* next one issued.
LEMMA CodeWrite ==
    ASSUME TypeOK, QRBinding, NEW e \in Entries, NEW row \in EntryRow,
           entry' = [entry EXCEPT ![e] = row],
           row.qr # NoToken <=> row.status \in Cleared,
           \/ row.qr = entry[e].qr /\ lastToken' = lastToken
           \/ row.qr = lastToken + 1 /\ lastToken' = lastToken + 1
    PROVE  QRBinding'
<1>1. /\ entry \in [Entries -> EntryRow] /\ lastToken \in Nat
      /\ \A f \in Entries : entry[f].qr \in Nat
  BY DEF TypeOK, EntryRow
<1>2. entry'[e] = row /\ \A f \in Entries : f # e => entry'[f] = entry[f]
  BY <1>1
<1>3. ASSUME NEW f \in Entries, f # e, entry[f].qr # NoToken
      PROVE  entry[f].qr # row.qr
  BY <1>1, <1>3 DEF QRBinding
<1>4. \A f \in Entries : entry'[f].qr <= lastToken'
  BY <1>1, <1>2 DEF QRBinding
<1>5. \A f \in Entries : entry'[f].qr # NoToken <=> entry'[f].status \in Cleared
  BY <1>2 DEF QRBinding
<1>6. ASSUME NEW f \in Entries, NEW g \in Entries,
             entry'[f].qr = entry'[g].qr, entry'[f].qr # NoToken
      PROVE  f = g
  BY <1>2, <1>3, <1>6 DEF QRBinding
<1> QED
  BY <1>4, <1>5, <1>6 DEF QRBinding

LEMMA CodeStep ==
    ASSUME TypeOK, Requests, QRBinding, [Next]_vars
    PROVE  QRBinding'
<1>1. /\ entry' \in [Entries -> EntryRow] /\ entry \in [Entries -> EntryRow]
      /\ lastToken \in Nat
  BY RequestsStep DEF TypeOK
<1>2. CASE Quiet \/ ExpireOldInvites
  <2>1. UNCHANGED <<entry, lastToken>>
    BY <1>2 DEF Quiet, tableVars, ExpireOldInvites
  <2> QED
    BY <2>1 DEF QRBinding
<1>3. CASE AutoCloseExpiredEntries
  <2>1. \A e \in Entries :
          /\ entry'[e].qr = entry[e].qr
          /\ entry'[e].status \in Cleared <=> entry[e].status \in Cleared
    BY <1>1, <1>3
    DEF AutoCloseExpiredEntries, Overdue, EntryRow, Cleared, Admitted
  <2>2. UNCHANGED lastToken
    BY <1>3 DEF AutoCloseExpiredEntries
  <2> QED
    BY <2>1, <2>2 DEF QRBinding
<1>4. ASSUME NEW w \in Workers, Commit(w) PROVE QRBinding'
  <2>1. Targeted(req[w])
    BY DEF Requests
  <2>2. CASE UNCHANGED <<entry, lastToken>>
    BY <2>2 DEF QRBinding
  <2>3. IssueToken => lastToken' = lastToken + 1
    BY DEF IssueToken
  <2>4. CASE CommitSubmitInvite(w)
    <3>1. PICK e \in Entries, due \in Dues :
            entry' = [entry EXCEPT ![e] =
                   [status |-> "approved", source |-> "resident_link",
                    invite |-> req[w].invite,
                    approvedBy |-> invite[req[w].invite].by,
                    rejectedBy |-> NoUser, guard |-> NoUser,
                    qr |-> lastToken', exp |-> req[w].exp, due |-> due]]
      BY <2>4 DEF CommitSubmitInvite
    <3>2. entry'[e].status = "approved" /\ entry'[e].qr = lastToken'
      BY <1>1, <3>1
    <3>3. lastToken' = lastToken + 1
      BY <2>3, <2>4 DEF CommitSubmitInvite
    <3>4. entry' = [entry EXCEPT ![e] = entry'[e]] /\ entry'[e] \in EntryRow
      BY <1>1, <3>1
    <3> QED
      BY <1>1, <3>2, <3>3, <3>4, CodeWrite DEF Cleared, NoToken
  <2>5. ASSUME NEW op \in FormOps, CommitApprovedForm(w, op) PROVE QRBinding'
    <3>1. PICK e \in Entries, due \in Dues :
            entry' = [entry EXCEPT ![e] =
                   [status |-> "approved", source |-> op, invite |-> NoInvite,
                    approvedBy |-> req[w].user, rejectedBy |-> NoUser,
                    guard |-> req[w].user, qr |-> lastToken',
                    exp |-> req[w].exp, due |-> due]]
      BY <2>5 DEF CommitApprovedForm
    <3>2. entry'[e].status = "approved" /\ entry'[e].qr = lastToken'
      BY <1>1, <3>1
    <3>3. lastToken' = lastToken + 1
      BY <2>3, <2>5 DEF CommitApprovedForm
    <3>4. entry' = [entry EXCEPT ![e] = entry'[e]] /\ entry'[e] \in EntryRow
      BY <1>1, <3>1
    <3> QED
      BY <1>1, <3>2, <3>3, <3>4, CodeWrite DEF Cleared, NoToken
  <2>6. ASSUME NEW op \in FormOps, CommitWaitingForm(w, op) PROVE QRBinding'
    <3>1. PICK e \in Entries, due \in Dues :
            /\ entry[e].status = "none"
            /\ entry' = [entry EXCEPT ![e] =
                   [status |-> "waiting_approval", source |-> op,
                    invite |-> NoInvite, approvedBy |-> NoUser,
                    rejectedBy |-> NoUser, guard |-> req[w].user,
                    qr |-> NoToken, exp |-> 0, due |-> due]]
      BY <2>6 DEF CommitWaitingForm
    <3>2. entry'[e].status = "waiting_approval" /\ entry'[e].qr = NoToken
      BY <1>1, <3>1
    <3>3. entry[e].qr = NoToken
      BY <3>1 DEF QRBinding, Cleared, Admitted
    <3>4. entry' = [entry EXCEPT ![e] = entry'[e]] /\ entry'[e] \in EntryRow
      BY <1>1, <3>1
    <3>5. UNCHANGED lastToken
      BY <2>6 DEF CommitWaitingForm
    <3> QED
      BY <3>2, <3>3, <3>4, <3>5, CodeWrite DEF Cleared, Admitted
  <2> DEFINE e == req[w].entry
  <2>7. CASE CommitApprove(w)
    <3>1. e \in Entries
      BY <2>1, <2>7 DEF CommitApprove, Committing, Targeted
    <3>2. entry' = [entry EXCEPT ![e] = entry'[e]] /\ entry'[e] \in EntryRow
      BY <1>1, <2>7, <3>1 DEF CommitApprove
    <3>3. entry'[e].status = "approved" /\ entry'[e].qr = lastToken'
      BY <1>1, <2>7, <3>1 DEF CommitApprove, EntryRow
    <3>4. lastToken' = lastToken + 1
      BY <2>3, <2>7 DEF CommitApprove
    <3> QED
      BY <1>1, <3>1, <3>2, <3>3, <3>4, CodeWrite DEF Cleared, NoToken
  <2>8. CASE CommitGenerateQR(w)
    <3>1. e \in Entries /\ entry[e].status = "approved"
      BY <2>1, <2>8 DEF CommitGenerateQR, Committing, Targeted, InStatus
    <3>2. entry' = [entry EXCEPT ![e] = entry'[e]] /\ entry'[e] \in EntryRow
      BY <1>1, <2>8, <3>1 DEF CommitGenerateQR
    <3>3. entry'[e].status = "approved" /\ entry'[e].qr = lastToken'
      BY <1>1, <2>8, <3>1 DEF CommitGenerateQR, EntryRow
    <3>4. lastToken' = lastToken + 1
      BY <2>3, <2>8 DEF CommitGenerateQR
    <3> QED
      BY <1>1, <3>1, <3>2, <3>3, <3>4, CodeWrite DEF Cleared, NoToken
  <2>9. ASSUME e \in Entries, UNCHANGED lastToken,
               entry' = [entry EXCEPT ![e] = entry'[e]],
               entry'[e].qr = entry[e].qr,
               entry'[e].status \in Cleared <=> entry[e].status \in Cleared
        PROVE  QRBinding'
    BY <1>1, <2>9, CodeWrite DEF QRBinding
  <2>10. CASE CommitReject(w)
    <3>1. e \in Entries /\ entry[e].status = "waiting_approval"
      BY <2>1, <2>10 DEF CommitReject, Committing, Targeted, InStatus
    <3>2. entry' = [entry EXCEPT ![e] = entry'[e]]
      BY <1>1, <2>10, <3>1 DEF CommitReject
    <3>3. entry'[e].status = "rejected" /\ entry'[e].qr = entry[e].qr
      BY <1>1, <2>10, <3>1 DEF CommitReject, EntryRow
    <3> QED
      BY <2>9, <2>10, <3>1, <3>2, <3>3 DEF CommitReject, Cleared, Admitted
  <2>11. CASE CommitCheckIn(w)
    <3>1. e \in Entries /\ entry[e].status = "approved"
      BY <2>1, <2>11 DEF CommitCheckIn, Committing, Targeted, InStatus
    <3>2. entry' = [entry EXCEPT ![e] = entry'[e]]
      BY <1>1, <2>11, <3>1 DEF CommitCheckIn
    <3>3. entry'[e].status = "checked_in" /\ entry'[e].qr = entry[e].qr
      BY <1>1, <2>11, <3>1 DEF CommitCheckIn, EntryRow
    <3> QED
      BY <2>9, <2>11, <3>1, <3>2, <3>3 DEF CommitCheckIn, Cleared, Admitted
  <2>12. CASE CommitCheckOut(w)
    <3>1. e \in Entries /\ entry[e].status = "checked_in"
      BY <2>1, <2>12 DEF CommitCheckOut, Committing, Targeted, InStatus
    <3>2. entry' = [entry EXCEPT ![e] = entry'[e]]
      BY <1>1, <2>12, <3>1 DEF CommitCheckOut
    <3>3. entry'[e].status = "checked_out" /\ entry'[e].qr = entry[e].qr
      BY <1>1, <2>12, <3>1 DEF CommitCheckOut, EntryRow
    <3> QED
      BY <2>9, <2>12, <3>1, <3>2, <3>3 DEF CommitCheckOut, Cleared, Admitted
  <2> QED
    BY <1>4, <2>2, <2>4, <2>5, <2>6, <2>7, <2>8, <2>10, <2>11, <2>12
    DEF Commit, CommitCreateInvite, CommitCancelInvite
<1> QED
  BY <1>2, <1>3, <1>4, StepKinds

\* A QR code is held by cleared entries only, by every one of them, and by no
\* two, in every reachable state.
THEOREM CodesBound == Spec => []QRBinding
<1>1. Init => QRBinding
  BY DEF Init, QRBinding, Cleared, Admitted, NoToken
<1>2. TypeOK /\ Requests /\ QRBinding /\ [Next]_vars => QRBinding'
  BY CodeStep
<1> QED
  BY <1>1, <1>2, TypeCorrect, PTL DEF Spec

(***************************************************************************)
(* Refinement: the visitor flow implements the lifecycle of a visit.       *)
(***************************************************************************)
\* Writing one entry is the abstract move between the two images.
LEMMA WriteMoves ==
    ASSUME TypeOK, NEW e \in Entries, NEW row,
           entry' = [entry EXCEPT ![e] = row]
    PROVE  Lifecycle!Move(e, VisitOf(entry[e].status), VisitOf(row.status))
<1>1. entry'[e] = row /\ \A f \in Entries : f # e => entry'[f] = entry[f]
  BY DEF TypeOK
<1>2. visitBar[e] = VisitOf(entry[e].status)
  BY DEF visitBar
<1>3. \A f \in Entries :
        VisitOf(entry'[f].status) =
            [visitBar EXCEPT ![e] = VisitOf(row.status)][f]
  BY <1>1 DEF visitBar
<1>4. visitBar' = [f \in Entries |-> VisitOf(entry'[f].status)]
  BY DEF visitBar
<1>5. visitBar' = [visitBar EXCEPT ![e] = VisitOf(row.status)]
  BY <1>3, <1>4 DEF visitBar
<1> QED
  BY <1>2, <1>5 DEF Lifecycle!Move

LEMMA VisitValues ==
    /\ VisitOf("none") = "absent"        /\ VisitOf("waiting_approval") = "pending"
    /\ VisitOf("approved") = "cleared"   /\ VisitOf("rejected") = "refused"
    /\ VisitOf("checked_in") = "inside"  /\ VisitOf("checked_out") = "left"
    /\ VisitOf("auto_closed") = "left"
BY DEF VisitOf

\* A write that is one of the lifecycle's moves, or keeps the status.
LEMMA WriteRefines ==
    ASSUME TypeOK, NEW e \in Entries, NEW row,
           entry' = [entry EXCEPT ![e] = row],
           \/ entry[e].status = "none" /\ row.status \in {"waiting_approval", "approved"}
           \/ /\ entry[e].status = "waiting_approval"
              /\ row.status \in {"approved", "rejected"}
           \/ entry[e].status = "approved" /\ row.status \in {"approved", "checked_in"}
           \/ entry[e].status = "checked_in" /\ row.status = "checked_out"
    PROVE  Lifecycle!Next \/ UNCHANGED visitBar
<1>1. Lifecycle!Move(e, VisitOf(entry[e].status), VisitOf(row.status))
  BY WriteMoves
<1>2. CASE entry[e].status = "approved" /\ row.status = "approved"
  <2>1. entry'[e].status = entry[e].status /\ \A f \in Entries : f # e => entry'[f] = entry[f]
    BY <1>2 DEF TypeOK
  <2> QED
    BY <2>1 DEF visitBar
<1>3. CASE ~(entry[e].status = "approved" /\ row.status = "approved")
  <2>1. Lifecycle!Register(e) \/ Lifecycle!Decide(e) \/ Lifecycle!Enter(e) \/ Lifecycle!Leave(e)
    BY <1>1, <1>3, VisitValues
    DEF Lifecycle!Register, Lifecycle!Decide, Lifecycle!Enter, Lifecycle!Leave
  <2> QED
    BY <2>1 DEF Lifecycle!Next
<1> QED
  BY <1>2, <1>3

LEMMA LifecycleStep ==
    ASSUME TypeOK, Requests, [Next]_vars
    PROVE  Lifecycle!Next \/ UNCHANGED visitBar
<1>1. entry \in [Entries -> EntryRow]
  BY DEF TypeOK
<1>2. CASE UNCHANGED entry
  BY <1>2 DEF visitBar
<1>3. CASE AutoCloseExpiredEntries
  <2> DEFINE S == {e \in Entries : Overdue(e)}
  <2>1. \A e \in S : visitBar[e] = "inside"
    BY VisitValues DEF Overdue, visitBar
  <2>2. \A e \in Entries : entry'[e].status =
            IF e \in S THEN "auto_closed" ELSE entry[e].status
    BY <1>1, <1>3 DEF AutoCloseExpiredEntries, EntryRow
  <2>3. visitBar' = [e \in Entries |-> IF e \in S THEN "left" ELSE visitBar[e]]
    BY <2>2, VisitValues DEF visitBar
  <2>4. Lifecycle!CloseOverstayed(S)
    BY <2>1, <2>3 DEF Lifecycle!CloseOverstayed
  <2>5. S \in SUBSET Entries
    OBVIOUS
  <2> HIDE DEF S
  <2> QED
    BY <2>4, <2>5 DEF Lifecycle!Next
<1>4. ASSUME NEW w \in Workers, Commit(w)
      PROVE  Lifecycle!Next \/ UNCHANGED visitBar
  <2>1. Targeted(req[w])
    BY DEF Requests
  <2>2. CASE CommitSubmitInvite(w)
    <3>1. PICK e \in Entries, due \in Dues :
            /\ entry[e].status = "none"
            /\ entry' = [entry EXCEPT ![e] =
                   [status |-> "approved", source |-> "resident_link",
                    invite |-> req[w].invite,
                    approvedBy |-> invite[req[w].invite].by,
                    rejectedBy |-> NoUser, guard |-> NoUser,
                    qr |-> lastToken', exp |-> req[w].exp, due |-> due]]
      BY <2>2 DEF CommitSubmitInvite
    <3> QED
      BY <3>1, WriteRefines
  <2>3. ASSUME NEW op \in FormOps, CommitApprovedForm(w, op)
        PROVE  Lifecycle!Next \/ UNCHANGED visitBar
    <3>1. PICK e \in Entries, due \in Dues :
            /\ entry[e].status = "none"
            /\ entry' = [entry EXCEPT ![e] =
                   [status |-> "approved", source |-> op, invite |-> NoInvite,
                    approvedBy |-> req[w].user, rejectedBy |-> NoUser,
                    guard |-> req[w].user, qr |-> lastToken',
                    exp |-> req[w].exp, due |-> due]]
      BY <2>3 DEF CommitApprovedForm
    <3> QED
      BY <3>1, WriteRefines
  <2>4. ASSUME NEW op \in FormOps, CommitWaitingForm(w, op)
        PROVE  Lifecycle!Next \/ UNCHANGED visitBar
    <3>1. PICK e \in Entries, due \in Dues :
            /\ entry[e].status = "none"
            /\ entry' = [entry EXCEPT ![e] =
                   [status |-> "waiting_approval", source |-> op,
                    invite |-> NoInvite, approvedBy |-> NoUser,
                    rejectedBy |-> NoUser, guard |-> req[w].user,
                    qr |-> NoToken, exp |-> 0, due |-> due]]
      BY <2>4 DEF CommitWaitingForm
    <3> QED
      BY <3>1, WriteRefines
  <2> DEFINE e == req[w].entry
  <2>5. CASE CommitApprove(w)
    <3>1. e \in Entries /\ entry[e].status = "waiting_approval"
      BY <2>1, <2>5 DEF CommitApprove, Committing, InStatus, Targeted
    <3>2. entry' = [entry EXCEPT ![e] = entry'[e]] /\ entry'[e].status = "approved"
      BY <1>1, <2>5, <3>1 DEF CommitApprove, EntryRow
    <3> QED
      BY <3>1, <3>2, WriteRefines
  <2>6. CASE CommitReject(w)
    <3>1. e \in Entries /\ entry[e].status = "waiting_approval"
      BY <2>1, <2>6 DEF CommitReject, Committing, InStatus, Targeted
    <3>2. entry' = [entry EXCEPT ![e] = entry'[e]] /\ entry'[e].status = "rejected"
      BY <1>1, <2>6, <3>1 DEF CommitReject, EntryRow
    <3> QED
      BY <3>1, <3>2, WriteRefines
  <2>7. CASE CommitGenerateQR(w)
    <3>1. e \in Entries /\ entry[e].status = "approved"
      BY <2>1, <2>7 DEF CommitGenerateQR, Committing, InStatus, Targeted
    <3>2. entry' = [entry EXCEPT ![e] = entry'[e]] /\ entry'[e].status = "approved"
      BY <1>1, <2>7, <3>1 DEF CommitGenerateQR, EntryRow
    <3> QED
      BY <3>1, <3>2, WriteRefines
  <2>8. CASE CommitCheckIn(w)
    <3>1. e \in Entries /\ entry[e].status = "approved"
      BY <2>1, <2>8 DEF CommitCheckIn, Committing, InStatus, Targeted
    <3>2. entry' = [entry EXCEPT ![e] = entry'[e]] /\ entry'[e].status = "checked_in"
      BY <1>1, <2>8, <3>1 DEF CommitCheckIn, EntryRow
    <3> QED
      BY <3>1, <3>2, WriteRefines
  <2>9. CASE CommitCheckOut(w)
    <3>1. e \in Entries /\ entry[e].status = "checked_in"
      BY <2>1, <2>9 DEF CommitCheckOut, Committing, InStatus, Targeted
    <3>2. entry' = [entry EXCEPT ![e] = entry'[e]] /\ entry'[e].status = "checked_out"
      BY <1>1, <2>9, <3>1 DEF CommitCheckOut, EntryRow
    <3> QED
      BY <3>1, <3>2, WriteRefines
  <2> QED
    BY <1>2, <1>4, <2>2, <2>3, <2>4, <2>5, <2>6, <2>7, <2>8, <2>9
    DEF Commit, CommitCreateInvite, CommitCancelInvite
<1>5. CASE Quiet \/ ExpireOldInvites
  BY <1>2, <1>5 DEF Quiet, tableVars, ExpireOldInvites
<1> QED
  BY <1>3, <1>4, <1>5, StepKinds

\* Every behaviour of visitorService, seen through the statuses of its
\* entries, is a behaviour of the lifecycle: nobody is let in twice, or
\* without having been cleared, or after having been turned away.
THEOREM LifecycleImplemented == Spec => ImplementsLifecycle
<1>1. Init => Lifecycle!Init
  BY VisitValues DEF Init, Lifecycle!Init, visitBar
<1>2. TypeOK /\ Requests /\ [Next]_vars => [Lifecycle!Next]_visitBar
  BY LifecycleStep
<1> QED
  BY <1>1, <1>2, TypeCorrect, PTL DEF Spec, ImplementsLifecycle, Lifecycle!Spec
=============================================================================
