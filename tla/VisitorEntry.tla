---------------------------- MODULE VisitorEntry ----------------------------
(***************************************************************************)
(* Visitor invites and visitor entries of one society and one flat:        *)
(* visitorService with the repositories and SQL it runs on.                *)
(*                                                                         *)
(* A worker is a goroutine serving one HTTP request.  A service method is  *)
(* a sequence of database reads followed by one transaction, and every     *)
(* read is a step of its own: other requests run between the check and     *)
(* the write.  The transaction is one step, because its guarded UPDATE     *)
(* holds the row lock until commit and nothing it writes is visible        *)
(* earlier (READ COMMITTED).  Every method arms a context deadline; past   *)
(* it the request can only fail.                                           *)
(*                                                                         *)
(* The clock `now' stands for time.Now() and NOW() alike.  lostAt,         *)
(* settingsUntil and ruleUntil are history variables: no action reads them *)
(* but to keep them.                                                       *)
(***************************************************************************)
EXTENDS ApprovalRules, FiniteSets

CONSTANTS
    Workers,        \* goroutines serving requests
    Users, NoUser,  \* users, and the SQL NULL of a user column
    Invites, NoInvite,
    Entries, NoEntry,
    Settings,       \* the society settings an administrator may choose
    Rules,          \* the flat rules a resident may choose
    Duty0,          \* who may approve and who may guard at the start
    Reassignments,  \* <<user, duties>> pairs the membership side may set
    Dues,           \* expected_checkout_at values a form may carry
    Timeout,        \* service.DefaultTimeout
    InviteTtl,      \* defaultInviteDuration
    MaxTime,        \* bound on the clock
    MaxTokens       \* bound on the QR tokens issued

Duties == {"approve", "guard"}
NoTime     == -1
NoDeadline == -1
NoToken    == 0
Never      == -(Timeout + 1)

ASSUME ConstantsOK ==
    /\ IsFiniteSet(Workers)
    /\ NoUser \notin Users /\ NoInvite \notin Invites /\ NoEntry \notin Entries
    /\ Timeout \in Nat /\ InviteTtl \in Nat \ {0} /\ MaxTime \in Nat
    /\ MaxTokens \in Nat
    /\ Settings \subseteq SettingsType /\ Rules \subseteq RuleType
    \* chk_society_qr_expiry keeps the QR lifetime at a minute or more, and
    \* a request lives five seconds.
    /\ \A s \in Settings : s.qrTtl >= Timeout
    /\ Duty0 \in [Users -> SUBSET Duties]
    /\ Reassignments \subseteq Users \X SUBSET Duties
    /\ Dues \subseteq Nat \cup {NoTime}

VARIABLES
    now,              \* the clock
    duties,           \* duties[u]: approval actor of the flat, staff actor
    lostAt,           \* when u last lost a duty
    settings, rule,   \* society_visitor_settings row, flat_visitor_settings row
    settingsUntil,    \* when each settings row was last replaced,
    ruleUntil,        \* and each rule
    invite,           \* visitor_invites
    entry,            \* visitor_entries
    log,              \* visitor_entry_events, counted per entry and type
    lastToken,        \* QR tokens issued so far
    req               \* req[w]: the request worker w is serving

policyVars == <<settings, rule, settingsUntil, ruleUntil>>
dutyVars   == <<duties, lostAt>>
tableVars  == <<invite, entry, log, lastToken>>
vars == <<now, dutyVars, policyVars, tableVars, req>>

-----------------------------------------------------------------------------
InviteStatuses == {"none", "active", "used", "expired", "cancelled"}

EntryStatuses ==
    {"none", "waiting_approval", "approved", "rejected",
     "checked_in", "checked_out", "auto_closed"}

\* Statuses of a visitor who was let in, and of one who was cleared to come.
Admitted == {"checked_in", "checked_out", "auto_closed"}
Cleared  == {"approved"} \cup Admitted

EventTypes ==
    {"created", "approved", "rejected", "qr_generated", "qr_used",
     "checked_in", "checked_out", "auto_closed"}

FormOps == {"public_qr", "quick_link", "guard_entry"}
Ops == FormOps \cup
    {"none", "create_invite", "submit_invite", "cancel_invite",
     "approve", "reject", "generate_qr", "check_in", "check_out"}
Phases == {"idle", "duty", "settings", "rule", "qr", "commit"}

InviteRow ==
    [status: InviteStatuses, by: Users \cup {NoUser}, expires: Nat, updated: Nat]

EntryRow ==
    [status: EntryStatuses, source: Sources, invite: Invites \cup {NoInvite},
     approvedBy: Users \cup {NoUser}, rejectedBy: Users \cup {NoUser},
     guard: Users \cup {NoUser}, qr: Nat, exp: Nat, due: Nat \cup {NoTime}]

Request ==
    [op: Ops, pc: Phases, user: Users \cup {NoUser},
     invite: Invites \cup {NoInvite}, entry: Entries \cup {NoEntry},
     status: {"waiting_approval", "approved"}, exp: Nat,
     deadline: Nat \cup {NoDeadline}]

TypeOK ==
    /\ now \in Nat
    /\ duties \in [Users -> SUBSET Duties]
    /\ lostAt \in [Users -> [Duties -> Int]]
    /\ settings \in Settings /\ settingsUntil \in [Settings -> Int]
    /\ rule \in Rules /\ ruleUntil \in [Rules -> Int]
    /\ invite \in [Invites -> InviteRow]
    /\ entry \in [Entries -> EntryRow]
    /\ log \in [Entries -> [EventTypes -> Nat]]
    /\ lastToken \in Nat
    /\ req \in [Workers -> Request]

Idle ==
    [op |-> "none", pc |-> "idle", user |-> NoUser, invite |-> NoInvite,
     entry |-> NoEntry, status |-> "approved", exp |-> 0,
     deadline |-> NoDeadline]

Init ==
    /\ now = 0
    /\ duties = Duty0
    /\ lostAt = [u \in Users |-> [d \in Duties |-> Never]]
    /\ settings \in Settings /\ settingsUntil = [s \in Settings |-> Never]
    /\ rule \in Rules /\ ruleUntil = [r \in Rules |-> Never]
    /\ invite = [i \in Invites |->
           [status |-> "none", by |-> NoUser, expires |-> 0, updated |-> 0]]
    /\ entry = [e \in Entries |->
           [status |-> "none", source |-> "resident_link", invite |-> NoInvite,
            approvedBy |-> NoUser, rejectedBy |-> NoUser, guard |-> NoUser,
            qr |-> NoToken, exp |-> 0, due |-> NoTime]]
    /\ log = [e \in Entries |-> [t \in EventTypes |-> 0]]
    /\ lastToken = 0
    /\ req = [w \in Workers |-> Idle]

-----------------------------------------------------------------------------
(***************************************************************************)
(* The environment: time, and the parts of the system this module does not *)
(* detail - memberships and residencies, and the settings endpoints.       *)
(***************************************************************************)
Tick ==
    /\ now < MaxTime
    /\ now' = now + 1
    /\ UNCHANGED <<dutyVars, policyVars, tableVars, req>>

\* A membership or residency change gives user u the duties d.
Reassign(u, d) ==
    /\ d # duties[u]
    /\ duties' = [duties EXCEPT ![u] = d]
    /\ lostAt' = [lostAt EXCEPT ![u] =
           [x \in Duties |-> IF x \in duties[u] \ d THEN now ELSE lostAt[u][x]]]
    /\ UNCHANGED <<now, policyVars, tableVars, req>>

UpdateSocietySettings(s) ==
    /\ s # settings
    /\ settings' = s
    /\ settingsUntil' = [settingsUntil EXCEPT ![settings] = now]
    /\ UNCHANGED <<now, dutyVars, rule, ruleUntil, tableVars, req>>

UpdateFlatPurposeSetting(r) ==
    /\ r # rule
    /\ rule' = r
    /\ ruleUntil' = [ruleUntil EXCEPT ![rule] = now]
    /\ UNCHANGED <<now, dutyVars, settings, settingsUntil, tableVars, req>>

-----------------------------------------------------------------------------
(***************************************************************************)
(* Requests arrive.  Where a method starts with a read that decides        *)
(* whether it goes on, arrival and that read are one step.                 *)
(***************************************************************************)
Arrive(w, r) ==
    /\ req[w].pc = "idle"
    /\ req' = [req EXCEPT ![w] = r]
    /\ UNCHANGED <<now, dutyVars, policyVars, tableVars>>

\* A request of operation op that starts at phase pc, with its deadline armed.
Armed(op, pc) ==
    [Idle EXCEPT !.op = op, !.pc = pc, !.deadline = now + Timeout]

\* Ids left in the bounded tables: no request that could only run out of ids
\* is started.
InvitesLeft == \E i \in Invites : invite[i].status = "none"
EntriesLeft == \E e \in Entries : entry[e].status = "none"

\* The caller asks for an expiry in the future, or leaves it open (zero).
CreateInvite(w, u, ttl) ==
    /\ InvitesLeft
    /\ Arrive(w, [Armed("create_invite", "duty") EXCEPT
                      !.user = u, !.exp = IF ttl = 0 THEN 0 ELSE now + ttl])

\* Mutant: the status of the invite is not looked at.
InviteUsable_AnyStatus(i) == invite[i].expires > now

InviteUsable(i) == invite[i].status = "active" /\ invite[i].expires > now

\* GetInviteByToken, outside any transaction.
SubmitInviteForm(w, i) ==
    /\ InviteUsable(i)
    /\ EntriesLeft
    /\ Arrive(w, [Armed("submit_invite", "settings") EXCEPT !.invite = i])

CancelInvite(w, u, i) ==
    /\ invite[i].status # "none"
    /\ Arrive(w, [Armed("cancel_invite", "duty") EXCEPT
                      !.user = u, !.invite = i])

CreatePublicEntry(w, op) ==
    /\ op \in {"public_qr", "quick_link"}
    /\ EntriesLeft
    /\ Arrive(w, Armed(op, "settings"))

\* ensureStaffActor runs before createEntryFromForm arms the deadline.
CreateGuardEntry(w, u) ==
    /\ EntriesLeft
    /\ Arrive(w, [Idle EXCEPT !.op = "guard_entry", !.pc = "duty", !.user = u])

DecideEntry(w, op, u, e) ==
    /\ op \in {"approve", "reject"}
    /\ entry[e].status = "waiting_approval"
    /\ Arrive(w, [Armed(op, "duty") EXCEPT !.user = u, !.entry = e])

GenerateQR(w, e) ==
    /\ entry[e].status # "none"
    /\ Arrive(w, [Armed("generate_qr", "qr") EXCEPT !.entry = e])

\* Mutant: the expiry of the code is not compared with the clock.
CheckIn_NoExpiry(w, u, e) ==
    /\ entry[e].status = "approved"
    /\ Arrive(w, [Armed("check_in", "duty") EXCEPT !.user = u, !.entry = e])

\* ValidateQR: the entry that carries the presented token, approved and the
\* code not expired.
CheckIn(w, u, e) ==
    /\ entry[e].status = "approved"
    /\ now <= entry[e].exp
    /\ Arrive(w, [Armed("check_in", "duty") EXCEPT !.user = u, !.entry = e])

CheckOut(w, u, e) ==
    /\ entry[e].status # "none"
    /\ Arrive(w, [Armed("check_out", "duty") EXCEPT !.user = u, !.entry = e])

-----------------------------------------------------------------------------
(***************************************************************************)
(* Reads between arrival and transaction.                                  *)
(***************************************************************************)
\* Mutant: the context deadline is not armed.
At_NoDeadline(w, pc) == req[w].pc = pc

At(w, pc) ==
    /\ req[w].pc = pc
    /\ req[w].deadline = NoDeadline \/ now <= req[w].deadline

\* Mutant: check-out asks for the approval actor.
DutyOf_CheckOutByResident(op) ==
    IF op \in {"guard_entry", "check_in"} THEN "guard" ELSE "approve"

DutyOf(op) ==
    IF op \in {"guard_entry", "check_in", "check_out"} THEN "guard" ELSE "approve"

AfterDuty(op) ==
    CASE op \in {"create_invite", "guard_entry"} -> "settings"
      [] op = "approve"                          -> "qr"
      [] OTHER                                   -> "commit"

\* ensureApprovalActor, ensureStaffActor.
CheckDuty(w) ==
    /\ At(w, "duty")
    /\ DutyOf(req[w].op) \in duties[req[w].user]
    /\ req' = [req EXCEPT ![w].pc = AfterDuty(req[w].op)]
    /\ UNCHANGED <<now, dutyVars, policyVars, tableVars>>

SourceOf(op) == IF op \in FormOps THEN op ELSE "resident_link"

\* An auto-approved entry needs a QR token before it is written.
AfterDecision(status) == IF status = "approved" THEN "qr" ELSE "commit"

\* The society row of ResolveApprovalRequirement or of SubmitInviteForm; a
\* guard's form is armed here.
ReadSettings(w) ==
    LET r   == req[w]
        src == SourceOf(r.op)
        decision == SocietyDecision(settings, src)
    IN  /\ At(w, "settings")
        /\ r.op # "create_invite"
        /\ Admits(settings, src)
        /\ req' = [req EXCEPT ![w] =
               [r EXCEPT
                   !.status   = decision,
                   !.pc       = IF NeedsFlatRule(settings, src)
                                THEN "rule" ELSE AfterDecision(decision),
                   !.deadline = IF r.deadline = NoDeadline
                                THEN now + Timeout ELSE r.deadline]]
        /\ UNCHANGED <<now, dutyVars, policyVars, tableVars>>

\* An invite needs the society's permission and an expiry, nothing else.
ReadInviteSettings(w) ==
    /\ At(w, "settings")
    /\ req[w].op = "create_invite"
    /\ Admits(settings, "resident_link")
    /\ req' = [req EXCEPT ![w].pc  = "commit",
                          ![w].exp = IF @ = 0 THEN now + InviteTtl ELSE @]
    /\ UNCHANGED <<now, dutyVars, policyVars, tableVars>>

\* The flat row, in a hybrid society.
ReadRule(w) ==
    /\ At(w, "rule")
    /\ FlatAdmits(rule)
    /\ req' = [req EXCEPT ![w].status = FlatDecision(rule),
                          ![w].pc     = AfterDecision(FlatDecision(rule))]
    /\ UNCHANGED <<now, dutyVars, policyVars, tableVars>>

\* makeQR reads the settings on a connection of its own.
MakeQR(w) ==
    /\ At(w, "qr")
    /\ req' = [req EXCEPT ![w].exp = now + settings.qrTtl, ![w].pc = "commit"]
    /\ UNCHANGED <<now, dutyVars, policyVars, tableVars>>

\* Any error return, rollback, deadline or disconnect: nothing is written.
Fail(w) ==
    /\ req[w].pc # "idle"
    /\ req' = [req EXCEPT ![w] = Idle]
    /\ UNCHANGED <<now, dutyVars, policyVars, tableVars>>

-----------------------------------------------------------------------------
(***************************************************************************)
(* Transactions.                                                           *)
(***************************************************************************)
Committing(w, op) ==
    /\ At(w, "commit")
    /\ req[w].op = op
    /\ req' = [req EXCEPT ![w] = Idle]
    /\ UNCHANGED <<now, dutyVars, policyVars>>

\* Mutant: the UPDATE is keyed by the entry alone.
InStatus_Any(e, status) == entry[e].status # "none"

\* The WHERE clause of a transition's UPDATE, evaluated under the row lock.
InStatus(e, status) == entry[e].status = status

\* recordEvents: one more event of each type in T for entry e.
Record(e, T) ==
    log' = [log EXCEPT ![e] = [t \in EventTypes |->
                IF t \in T THEN log[e][t] + 1 ELSE log[e][t]]]

IssueToken == lastToken < MaxTokens /\ lastToken' = lastToken + 1

CommitCreateInvite(w) ==
    /\ Committing(w, "create_invite")
    /\ \E i \in Invites :
        /\ invite[i].status = "none"
        /\ invite' = [invite EXCEPT ![i] =
               [status |-> "active", by |-> req[w].user,
                expires |-> req[w].exp, updated |-> now]]
    /\ UNCHANGED <<entry, log, lastToken>>

\* Mutant: the submission leaves the invite as it is.
MarkUsed_Forgotten(i) == invite

\* MarkUsed changes an active invite; the caller ignores that no row matched.
MarkUsed(i) ==
    IF invite[i].status = "active"
    THEN [invite EXCEPT ![i].status = "used", ![i].updated = now]
    ELSE invite

CommitSubmitInvite(w) ==
    /\ Committing(w, "submit_invite")
    /\ IssueToken
    /\ \E e \in Entries, due \in Dues :
        /\ entry[e].status = "none"
        /\ entry' = [entry EXCEPT ![e] =
               [status |-> "approved", source |-> "resident_link",
                invite |-> req[w].invite,
                approvedBy |-> invite[req[w].invite].by,
                rejectedBy |-> NoUser, guard |-> NoUser,
                qr |-> lastToken', exp |-> req[w].exp, due |-> due]]
        /\ Record(e, {"created", "approved", "qr_generated"})
    /\ invite' = MarkUsed(req[w].invite)

CommitCancelInvite(w) ==
    /\ Committing(w, "cancel_invite")
    /\ invite[req[w].invite].status = "active"
    /\ invite' = [invite EXCEPT ![req[w].invite].status  = "cancelled",
                                ![req[w].invite].updated = now]
    /\ UNCHANGED <<entry, log, lastToken>>

\* A form entry that the rules approved: token, approver and three events.
CommitApprovedForm(w, op) ==
    /\ op \in FormOps
    /\ Committing(w, op)
    /\ req[w].status = "approved"
    /\ IssueToken
    /\ \E e \in Entries, due \in Dues :
        /\ entry[e].status = "none"
        /\ entry' = [entry EXCEPT ![e] =
               [status |-> "approved", source |-> op, invite |-> NoInvite,
                approvedBy |-> req[w].user, rejectedBy |-> NoUser,
                guard |-> req[w].user, qr |-> lastToken',
                exp |-> req[w].exp, due |-> due]]
        /\ Record(e, {"created", "approved", "qr_generated"})
    /\ UNCHANGED invite

\* A form entry that has to wait for the flat: no token, no approver.
CommitWaitingForm(w, op) ==
    /\ op \in FormOps
    /\ Committing(w, op)
    /\ req[w].status = "waiting_approval"
    /\ \E e \in Entries, due \in Dues :
        /\ entry[e].status = "none"
        /\ entry' = [entry EXCEPT ![e] =
               [status |-> "waiting_approval", source |-> op,
                invite |-> NoInvite, approvedBy |-> NoUser,
                rejectedBy |-> NoUser, guard |-> req[w].user,
                qr |-> NoToken, exp |-> 0, due |-> due]]
        /\ Record(e, {"created"})
    /\ UNCHANGED <<invite, lastToken>>

CommitApprove(w) ==
    LET e == req[w].entry IN
    /\ Committing(w, "approve")
    /\ InStatus(e, "waiting_approval")
    /\ IssueToken
    /\ entry' = [entry EXCEPT ![e] =
           [@ EXCEPT !.status = "approved", !.approvedBy = req[w].user,
                     !.qr = lastToken', !.exp = req[w].exp]]
    /\ Record(e, {"approved", "qr_generated"})
    /\ UNCHANGED invite

\* Mutant: the UPDATE of the rejection lost its status condition.
CommitReject_Unconditional(w) ==
    LET e == req[w].entry IN
    /\ Committing(w, "reject")
    /\ entry' = [entry EXCEPT ![e] =
           [@ EXCEPT !.status = "rejected", !.rejectedBy = req[w].user]]
    /\ Record(e, {"rejected"})
    /\ UNCHANGED <<invite, lastToken>>

CommitReject(w) ==
    LET e == req[w].entry IN
    /\ Committing(w, "reject")
    /\ InStatus(e, "waiting_approval")
    /\ entry' = [entry EXCEPT ![e] =
           [@ EXCEPT !.status = "rejected", !.rejectedBy = req[w].user]]
    /\ Record(e, {"rejected"})
    /\ UNCHANGED <<invite, lastToken>>

\* Mutant: a code is generated for an entry in any status.
CommitGenerateQR_AnyStatus(w) ==
    LET e == req[w].entry IN
    /\ Committing(w, "generate_qr")
    /\ IssueToken
    /\ entry' = [entry EXCEPT ![e] =
           [@ EXCEPT !.qr = lastToken', !.exp = req[w].exp]]
    /\ Record(e, {"qr_generated"})
    /\ UNCHANGED invite

CommitGenerateQR(w) ==
    LET e == req[w].entry IN
    /\ Committing(w, "generate_qr")
    /\ InStatus(e, "approved")
    /\ IssueToken
    /\ entry' = [entry EXCEPT ![e] =
           [@ EXCEPT !.qr = lastToken', !.exp = req[w].exp]]
    /\ Record(e, {"qr_generated"})
    /\ UNCHANGED invite

\* Mutant: the check before the transaction is taken to be enough.
CommitCheckIn_Trusting(w) ==
    LET e == req[w].entry IN
    /\ Committing(w, "check_in")
    /\ entry' = [entry EXCEPT ![e] =
           [@ EXCEPT !.status = "checked_in", !.guard = req[w].user]]
    /\ Record(e, {"qr_used", "checked_in"})
    /\ UNCHANGED <<invite, lastToken>>

\* Keyed by the entry: neither the token nor its expiry is looked at again.
CommitCheckIn(w) ==
    LET e == req[w].entry IN
    /\ Committing(w, "check_in")
    /\ InStatus(e, "approved")
    /\ entry' = [entry EXCEPT ![e] =
           [@ EXCEPT !.status = "checked_in", !.guard = req[w].user]]
    /\ Record(e, {"qr_used", "checked_in"})
    /\ UNCHANGED <<invite, lastToken>>

CommitCheckOut(w) ==
    LET e == req[w].entry IN
    /\ Committing(w, "check_out")
    /\ InStatus(e, "checked_in")
    /\ entry' = [entry EXCEPT ![e] =
           [@ EXCEPT !.status = "checked_out", !.guard = req[w].user]]
    /\ Record(e, {"checked_out"})
    /\ UNCHANGED <<invite, lastToken>>

-----------------------------------------------------------------------------
(***************************************************************************)
(* The two maintenance operations of the service, one UPDATE each.         *)
(***************************************************************************)
Overage(i) == invite[i].status = "active" /\ invite[i].expires < now

ExpireOldInvites ==
    /\ \E i \in Invites : Overage(i)
    /\ invite' = [i \in Invites |->
           IF Overage(i)
           THEN [invite[i] EXCEPT !.status = "expired", !.updated = now]
           ELSE invite[i]]
    /\ UNCHANGED <<now, dutyVars, policyVars, entry, log, lastToken, req>>

Overdue(e) ==
    entry[e].status = "checked_in" /\ entry[e].due # NoTime /\ entry[e].due < now

\* Mutant: overdue entries get the status that expired invites get.
AutoCloseExpiredEntries_Expired ==
    /\ \E e \in Entries : Overdue(e)
    /\ entry' = [e \in Entries |->
           IF Overdue(e) THEN [entry[e] EXCEPT !.status = "expired"]
                         ELSE entry[e]]
    /\ UNCHANGED <<now, dutyVars, policyVars, invite, log, lastToken, req>>

\* The UPDATE is all there is: no event is recorded for the entries it closes.
AutoCloseExpiredEntries ==
    /\ \E e \in Entries : Overdue(e)
    /\ entry' = [e \in Entries |->
           IF Overdue(e) THEN [entry[e] EXCEPT !.status = "auto_closed"]
                         ELSE entry[e]]
    /\ UNCHANGED <<now, dutyVars, policyVars, invite, log, lastToken, req>>

-----------------------------------------------------------------------------
Environment ==
    \/ Tick
    \/ \E a \in Reassignments : Reassign(a[1], a[2])
    \/ \E s \in Settings : UpdateSocietySettings(s)
    \/ \E r \in Rules : UpdateFlatPurposeSetting(r)
    \/ ExpireOldInvites
    \/ AutoCloseExpiredEntries

Arrival(w) ==
    \/ \E u \in Users, ttl \in 0..InviteTtl : CreateInvite(w, u, ttl)
    \/ \E i \in Invites : SubmitInviteForm(w, i)
    \/ \E u \in Users, i \in Invites : CancelInvite(w, u, i)
    \/ \E op \in FormOps : CreatePublicEntry(w, op)
    \/ \E u \in Users : CreateGuardEntry(w, u)
    \/ \E op \in Ops, u \in Users, e \in Entries : DecideEntry(w, op, u, e)
    \/ \E e \in Entries : GenerateQR(w, e)
    \/ \E u \in Users, e \in Entries : CheckIn(w, u, e)
    \/ \E u \in Users, e \in Entries : CheckOut(w, u, e)

Read(w) ==
    \/ CheckDuty(w) \/ ReadSettings(w) \/ ReadInviteSettings(w)
    \/ ReadRule(w) \/ MakeQR(w)

Commit(w) ==
    \/ CommitCreateInvite(w) \/ CommitSubmitInvite(w) \/ CommitCancelInvite(w)
    \/ \E op \in FormOps : CommitApprovedForm(w, op) \/ CommitWaitingForm(w, op)
    \/ CommitApprove(w) \/ CommitReject(w) \/ CommitGenerateQR(w)
    \/ CommitCheckIn(w) \/ CommitCheckOut(w)

Next ==
    \/ Environment
    \/ \E w \in Workers : Arrival(w) \/ Read(w) \/ Commit(w) \/ Fail(w)

Spec == Init /\ [][Next]_vars
=============================================================================
