-------------------------- MODULE VisitorStaleness --------------------------
(***************************************************************************)
(* How old a check may be when its write lands: the action properties of   *)
(* the visitor flow, proved for every value of the constants.              *)
(*                                                                         *)
(* The invariant ties what a request remembers to the tables: what it read *)
(* is still so, or it stopped being so less than a timeout before the      *)
(* request's deadline.                                                     *)
(***************************************************************************)
EXTENDS VisitorProofs

\* Only a guard's form that has not reached the rules runs without deadline.
Deadlines(r) ==
    /\ r.deadline <= now + Timeout
    /\ r.op # "none" /\ r.deadline = NoDeadline =>
           r.op = "guard_entry" /\ r.pc \in {"duty", "settings"}

RecentInvite(r) ==
    r.op = "submit_invite" =>
        LET i == invite[r.invite] IN
        /\ r.deadline <= i.expires + Timeout
        /\ i.status = "active" \/ r.deadline <= i.updated + Timeout

Deciding == {"approve", "reject", "check_in", "check_out"}
Entering == FormOps \cup {"submit_invite"}

\* The phases a request of each operation goes through.
OnPath(r) ==
    /\ r.pc = "duty" =>
           r.op \in Deciding \cup {"create_invite", "cancel_invite", "guard_entry"}
    /\ r.pc = "settings" => r.op \in Entering \cup {"create_invite"}
    /\ r.pc = "rule" => r.op \in FormOps
    /\ r.pc = "qr" => r.op \in Entering \cup {"approve", "generate_qr"}

RecentDuty(r) ==
    r.op \in Deciding =>
        /\ r.user \in Users
        /\ r.pc # "duty" =>
               LET d == DutyOf(r.op) IN
               \/ d \in duties[r.user]
               \/ r.deadline <= lostAt[r.user][d] + Timeout

\* A code about to be written outlives every request in flight.
RecentCode(r) ==
    /\ r.op \in {"approve", "generate_qr"} /\ r.pc = "commit" =>
           r.deadline <= r.exp
    /\ r.op = "check_in" =>
           /\ entry[r.entry].status # "none"
           /\ r.deadline <= entry[r.entry].exp + Timeout

\* The rows a request has read: the society's, and then the flat's.
RecentRules(r) ==
    r.op \in Entering =>
        LET src == SourceOf(r.op) IN
        /\ r.pc = "rule" =>
               \E s \in Settings :
                   /\ SettingsSince(s, r.deadline)
                   /\ Admits(s, src) /\ NeedsFlatRule(s, src)
        /\ r.pc \in {"qr", "commit"} =>
               /\ \E s \in Settings, f \in Rules :
                      /\ SettingsSince(s, r.deadline) /\ RuleSince(f, r.deadline)
                      /\ Resolve(s, f, src) = r.status
               /\ r.op = "submit_invite" => r.status = "approved"

Recent(r) ==
    /\ Deadlines(r) /\ OnPath(r) /\ RecentInvite(r) /\ RecentDuty(r)
    /\ RecentCode(r) /\ RecentRules(r)

AllRecent == \A w \in Workers : Recent(req[w])

-----------------------------------------------------------------------------
(***************************************************************************)
(* How the tables change in one step.                                      *)
(***************************************************************************)
LEMMA ClockForward == ASSUME TypeOK, [Next]_vars PROVE now' >= now
<1>1. CASE Tick
  BY <1>1 DEF Tick, TypeOK
<1>2. CASE UNCHANGED now
  BY <1>2 DEF TypeOK
<1>3. ASSUME NEW w \in Workers, Arrival(w) \/ Read(w) \/ Commit(w) \/ Fail(w)
      PROVE  UNCHANGED now
  <2>1. CASE Arrival(w)
    BY <2>1, ArrivalStarts DEF Arrive
  <2>2. CASE Read(w)
    BY <2>2, ReadProceeds
  <2>3. CASE Fail(w)
    BY <2>3 DEF Fail
  <2>4. CASE Commit(w)
    BY <2>4 DEF Commit, Committing, CommitCreateInvite, CommitSubmitInvite,
       CommitCancelInvite, CommitApprovedForm, CommitWaitingForm, CommitApprove,
       CommitReject, CommitGenerateQR, CommitCheckIn, CommitCheckOut
  <2> QED
    BY <1>3, <2>1, <2>2, <2>3, <2>4
<1> QED
  BY <1>1, <1>2, <1>3 DEF Next, vars, Environment, Reassign,
     UpdateSocietySettings, UpdateFlatPurposeSetting, ExpireOldInvites,
     AutoCloseExpiredEntries

\* An invite keeps its expiry, and a change of it is dated.
LEMMA InviteHistory ==
    ASSUME TypeOK, Requests, [Next]_vars, NEW i \in Invites,
           invite[i].status # "none"
    PROVE  /\ invite'[i].expires = invite[i].expires
           /\ invite'[i] = invite[i] \/ invite'[i].updated = now
<1>1. invite \in [Invites -> InviteRow]
  BY DEF TypeOK
<1>2. CASE UNCHANGED invite
  BY <1>2
<1>3. CASE ExpireOldInvites
  BY <1>1, <1>3 DEF ExpireOldInvites, InviteRow
<1>4. ASSUME NEW w \in Workers, CommitCreateInvite(w)
      PROVE  invite'[i] = invite[i]
  BY <1>1, <1>4 DEF CommitCreateInvite
<1>5. ASSUME NEW w \in Workers, CommitCancelInvite(w)
      PROVE  /\ invite'[i].expires = invite[i].expires
             /\ invite'[i] = invite[i] \/ invite'[i].updated = now
  BY <1>1, <1>5 DEF CommitCancelInvite, InviteRow
<1>6. ASSUME NEW w \in Workers, CommitSubmitInvite(w)
      PROVE  /\ invite'[i].expires = invite[i].expires
             /\ invite'[i] = invite[i] \/ invite'[i].updated = now
  BY <1>1, <1>6 DEF CommitSubmitInvite, MarkUsed, InviteRow
<1> QED
  BY <1>2, <1>3, <1>4, <1>5, <1>6, StepKinds
  DEF Quiet, tableVars, AutoCloseExpiredEntries, Commit, CommitApprovedForm,
      CommitWaitingForm, CommitApprove, CommitReject, CommitGenerateQR,
      CommitCheckIn, CommitCheckOut

\* The rest of the system moves in the environment's steps only.
LEMMA OthersStay ==
    ASSUME TypeOK, [Next]_vars
    PROVE  \/ UNCHANGED <<dutyVars, policyVars>>
           \/ Environment /\ UNCHANGED req
<1>1. ASSUME NEW w \in Workers, Arrival(w) PROVE UNCHANGED <<dutyVars, policyVars>>
  BY <1>1, ArrivalStarts DEF Arrive
<1>2. ASSUME NEW w \in Workers, Read(w) PROVE UNCHANGED <<dutyVars, policyVars>>
  BY <1>2, ReadProceeds
<1>3. ASSUME NEW w \in Workers, Fail(w) PROVE UNCHANGED <<dutyVars, policyVars>>
  BY <1>3 DEF Fail
<1>4. ASSUME NEW w \in Workers, Commit(w) PROVE UNCHANGED <<dutyVars, policyVars>>
  BY <1>4 DEF Commit, Committing, CommitCreateInvite, CommitSubmitInvite,
     CommitCancelInvite, CommitApprovedForm, CommitWaitingForm, CommitApprove,
     CommitReject, CommitGenerateQR, CommitCheckIn, CommitCheckOut
<1>5. Environment => UNCHANGED req
  BY DEF Environment, Tick, Reassign, UpdateSocietySettings,
     UpdateFlatPurposeSetting, ExpireOldInvites, AutoCloseExpiredEntries
<1>6. UNCHANGED vars => UNCHANGED <<dutyVars, policyVars>>
  BY DEF vars
<1> QED
  BY <1>1, <1>2, <1>3, <1>4, <1>5, <1>6 DEF Next

\* A user has a duty, or lost it just now, or lost it when the tables say.
LEMMA DutyHistory ==
    ASSUME TypeOK, [Next]_vars, NEW u \in Users, NEW d \in Duties
    PROVE  \/ d \in duties'[u]
           \/ lostAt'[u][d] = IF d \in duties[u] THEN now ELSE lostAt[u][d]
<1>1. CASE UNCHANGED dutyVars
  BY <1>1 DEF dutyVars
<1>2. ASSUME NEW a \in Reassignments, Reassign(a[1], a[2])
      PROVE  \/ d \in duties'[u]
             \/ lostAt'[u][d] = IF d \in duties[u] THEN now ELSE lostAt[u][d]
  <2>1. a[1] \in Users
    BY ConstantsOK
  <2>2. CASE u = a[1]
    BY <1>2, <2>1, <2>2 DEF Reassign, TypeOK
  <2>3. CASE u # a[1]
    BY <1>2, <2>1, <2>3 DEF Reassign, TypeOK
  <2> QED
    BY <2>2, <2>3
<1> QED
  BY <1>1, <1>2, OthersStay DEF Environment, Tick, UpdateSocietySettings,
     UpdateFlatPurposeSetting, ExpireOldInvites, AutoCloseExpiredEntries

\* A row of the rules is in force, or was replaced just now, or when the tables
\* say.
LEMMA PolicyHistory ==
    ASSUME TypeOK, [Next]_vars
    PROVE  /\ \A s \in Settings :
                  \/ s = settings'
                  \/ settingsUntil'[s] = IF s = settings THEN now ELSE settingsUntil[s]
           /\ \A f \in Rules :
                  \/ f = rule'
                  \/ ruleUntil'[f] = IF f = rule THEN now ELSE ruleUntil[f]
<1>1. CASE UNCHANGED policyVars
  BY <1>1 DEF policyVars
<1>2. ASSUME NEW t \in Settings, UpdateSocietySettings(t)
      PROVE  /\ \A s \in Settings :
                    settingsUntil'[s] = IF s = settings THEN now ELSE settingsUntil[s]
             /\ UNCHANGED <<rule, ruleUntil>>
  BY <1>2 DEF UpdateSocietySettings, TypeOK
<1>3. ASSUME NEW t \in Rules, UpdateFlatPurposeSetting(t)
      PROVE  /\ \A f \in Rules :
                    ruleUntil'[f] = IF f = rule THEN now ELSE ruleUntil[f]
             /\ UNCHANGED <<settings, settingsUntil>>
  BY <1>3 DEF UpdateFlatPurposeSetting, TypeOK
<1>4. Tick \/ ExpireOldInvites \/ AutoCloseExpiredEntries => UNCHANGED policyVars
  BY DEF Tick, ExpireOldInvites, AutoCloseExpiredEntries
<1>5. \A a : Reassign(a[1], a[2]) => UNCHANGED policyVars
  BY DEF Reassign
<1> QED
  BY <1>1, <1>2, <1>3, <1>4, <1>5, OthersStay DEF Environment

\* What was in force a timeout before a time within reach still was, a step later.
LEMMA PolicyAges ==
    ASSUME TypeOK, [Next]_vars, NEW t \in Int, t <= now + Timeout
    PROVE  /\ \A s \in Settings : SettingsSince(s, t) => SettingsSince(s, t)'
           /\ \A f \in Rules : RuleSince(f, t) => RuleSince(f, t)'
BY PolicyHistory DEF SettingsSince, RuleSince

\* A request at its commit, other than a guard's unarmed form, is in time.
LEMMA InTime ==
    ASSUME TypeOK, AllRecent, NEW w \in Workers, NEW op, op # "none",
           Committing(w, op)
    PROVE  now <= req[w].deadline /\ req[w].pc = "commit" /\ req[w].op = op
BY DEF Committing, At, AllRecent, Recent, Deadlines

\* An entry keeps its code's expiry, or gets one that is not over yet.
LEMMA EntryHistory ==
    ASSUME TypeOK, Requests, AllRecent, [Next]_vars, NEW e \in Entries,
           entry[e].status # "none"
    PROVE  /\ entry'[e].status # "none"
           /\ entry'[e].exp = entry[e].exp \/ entry'[e].exp >= now
<1>1. entry \in [Entries -> EntryRow] /\ now \in Nat
  BY DEF TypeOK
<1>2. CASE UNCHANGED entry
  BY <1>2
<1>3. CASE AutoCloseExpiredEntries
  BY <1>1, <1>3 DEF AutoCloseExpiredEntries, EntryRow
<1>4. ASSUME NEW w \in Workers, Commit(w)
      PROVE  /\ entry'[e].status # "none"
             /\ entry'[e].exp = entry[e].exp \/ entry'[e].exp >= now
  <2> DEFINE Kept == /\ entry'[e].status # "none"
                     /\ entry'[e].exp = entry[e].exp \/ entry'[e].exp >= now
  <2>1. ASSUME NEW op \in {"approve", "generate_qr"}, Committing(w, op)
        PROVE  req[w].exp >= now
    <3>1. now <= req[w].deadline /\ req[w].pc = "commit" /\ req[w].op = op
      BY <2>1, InTime
    <3>2. req[w].deadline <= req[w].exp
      BY <3>1 DEF AllRecent, Recent, RecentCode
    <3>3. req[w].deadline \in Int /\ req[w].exp \in Int
      BY ConstantsOK DEF TypeOK, Request, NoDeadline
    <3> QED
      BY <1>1, <3>1, <3>2, <3>3
  <2>2. CASE CommitSubmitInvite(w)
    BY <1>1, <2>2 DEF CommitSubmitInvite
  <2>3. ASSUME NEW op \in FormOps, CommitApprovedForm(w, op) PROVE Kept
    BY <1>1, <2>3 DEF CommitApprovedForm
  <2>4. ASSUME NEW op \in FormOps, CommitWaitingForm(w, op) PROVE Kept
    BY <1>1, <2>4 DEF CommitWaitingForm
  <2>5. CASE CommitApprove(w)
    BY <1>1, <2>1, <2>5 DEF CommitApprove, EntryRow
  <2>6. CASE CommitReject(w)
    BY <1>1, <2>6 DEF CommitReject, EntryRow
  <2>7. CASE CommitGenerateQR(w)
    BY <1>1, <2>1, <2>7 DEF CommitGenerateQR, EntryRow
  <2>8. CASE CommitCheckIn(w)
    BY <1>1, <2>8 DEF CommitCheckIn, EntryRow
  <2>9. CASE CommitCheckOut(w)
    BY <1>1, <2>9 DEF CommitCheckOut, EntryRow
  <2> QED
    BY <1>2, <1>4, <2>2, <2>3, <2>4, <2>5, <2>6, <2>7, <2>8, <2>9
    DEF Commit, CommitCreateInvite, CommitCancelInvite
<1> QED
  BY <1>2, <1>3, <1>4, StepKinds DEF Quiet, tableVars, ExpireOldInvites

-----------------------------------------------------------------------------
(***************************************************************************)
(* The invariant.                                                          *)
(***************************************************************************)
\* What a request remembers ages with the tables: no step of anybody makes it
\* older than the invariant allows.
LEMMA RecentAges ==
    ASSUME TypeOK, Requests, AllRecent, [Next]_vars,
           NEW r \in Request, Targeted(r), Recent(r)
    PROVE  Recent(r)'
<1>1. /\ now \in Nat /\ now' >= now /\ now' \in Nat /\ Timeout \in Nat
      /\ r.deadline \in Int
  <2>1. TypeOK'
    BY RequestsStep
  <2> QED
    BY <2>1, ClockForward, ConstantsOK DEF TypeOK, Request, NoDeadline
<1>2. Deadlines(r)' /\ OnPath(r)'
  BY <1>1 DEF Recent, Deadlines, OnPath
<1>3. r.deadline <= now + Timeout
  BY DEF Recent, Deadlines
<1>4. RecentInvite(r)'
  <2>1. SUFFICES ASSUME r.op = "submit_invite" PROVE RecentInvite(r)'
    BY DEF RecentInvite
  <2>2. r.invite \in Invites /\ invite[r.invite].status # "none"
    BY <2>1 DEF Targeted
  <2>3. /\ invite'[r.invite].expires = invite[r.invite].expires
        /\ invite'[r.invite] = invite[r.invite] \/ invite'[r.invite].updated = now
    BY <2>2, InviteHistory
  <2> QED
    BY <1>3, <2>1, <2>3 DEF Recent, RecentInvite
<1>5. RecentDuty(r)'
  <2>1. SUFFICES ASSUME r.op \in Deciding, r.pc # "duty" PROVE RecentDuty(r)'
    BY DEF Recent, RecentDuty
  <2>2. r.user \in Users
    BY <2>1 DEF Recent, RecentDuty
  <2> DEFINE d == DutyOf(r.op)
  <2>3. d \in Duties
    BY DEF DutyOf, Duties
  <2>4. d \in duties[r.user] \/ r.deadline <= lostAt[r.user][d] + Timeout
    BY <2>1 DEF Recent, RecentDuty
  <2>5. \/ d \in duties'[r.user]
        \/ lostAt'[r.user][d] = IF d \in duties[r.user] THEN now
                                                       ELSE lostAt[r.user][d]
    BY <2>2, <2>3, DutyHistory
  <2>6. d \in duties'[r.user] \/ r.deadline <= lostAt'[r.user][d] + Timeout
    BY <1>3, <2>4, <2>5
  <2> QED
    BY <2>2, <2>6 DEF RecentDuty
<1>6. RecentCode(r)'
  <2>1. SUFFICES ASSUME r.op = "check_in" PROVE RecentCode(r)'
    BY DEF Recent, RecentCode
  <2>2. r.entry \in Entries /\ entry[r.entry].status # "none"
    BY <2>1 DEF Recent, RecentCode, Targeted
  <2>3. /\ entry'[r.entry].status # "none"
        /\ entry'[r.entry].exp = entry[r.entry].exp \/ entry'[r.entry].exp >= now
    BY <2>2, EntryHistory
  <2>4. entry'[r.entry].exp \in Nat
    BY <2>2, RequestsStep DEF TypeOK, EntryRow
  <2>5. r.deadline <= entry'[r.entry].exp + Timeout
    BY <1>1, <1>3, <2>1, <2>3, <2>4 DEF Recent, RecentCode
  <2> QED
    BY <2>1, <2>3, <2>5 DEF RecentCode
<1>7. RecentRules(r)'
  <2>1. /\ \A s \in Settings : SettingsSince(s, r.deadline) => SettingsSince(s, r.deadline)'
        /\ \A f \in Rules : RuleSince(f, r.deadline) => RuleSince(f, r.deadline)'
    BY <1>1, <1>3, PolicyAges
  <2>2. RecentRules(r)
    BY DEF Recent
  <2> QED
    BY <2>1, <2>2 DEF RecentRules
<1> QED
  BY <1>2, <1>4, <1>5, <1>6, <1>7 DEF Recent

LEMMA IdleRecent == ASSUME TypeOK PROVE Recent(Idle)
<1>1. NoDeadline <= now + Timeout
  BY ConstantsOK DEF TypeOK, NoDeadline
<1> QED
  BY <1>1 DEF Idle, Recent, Deadlines, OnPath, Entering, RecentInvite, RecentDuty, RecentCode,
              RecentRules, Deciding, FormOps

\* Setting the user and the target of a request touches nothing else.
LEMMA RequestFields ==
    ASSUME NEW r \in Request, NEW u
    PROVE  /\ \A n : LET q == [r EXCEPT !.user = u, !.exp = n] IN
               q.op = r.op /\ q.pc = r.pc /\ q.deadline = r.deadline
           /\ \A i : LET q == [r EXCEPT !.user = u, !.invite = i] IN
               q.op = r.op /\ q.pc = r.pc /\ q.deadline = r.deadline
           /\ \A e : LET q == [r EXCEPT !.user = u, !.entry = e] IN
               /\ q.op = r.op /\ q.pc = r.pc /\ q.deadline = r.deadline
               /\ q.user = u /\ q.entry = e
<1>1. r = [op |-> r.op, pc |-> r.pc, user |-> r.user, invite |-> r.invite,
           entry |-> r.entry, status |-> r.status, exp |-> r.exp,
           deadline |-> r.deadline]
  BY DEF Request
<1> QED
  BY <1>1

\* An arrival remembers only what it has just read.
LEMMA ArrivalRecent ==
    ASSUME TypeOK, NEW w \in Workers, Arrival(w)
    PROVE  Recent(req'[w])
<1> DEFINE new == req'[w]
<1>1. /\ now \in Nat /\ Timeout \in Nat /\ req \in [Workers -> Request]
      /\ NoDeadline <= now + Timeout /\ now + Timeout # NoDeadline
  BY ConstantsOK DEF TypeOK, NoDeadline
<1>2. \A op \in Ops, pc \in Phases :
        /\ Armed(op, pc) \in Request
        /\ Armed(op, pc).op = op /\ Armed(op, pc).pc = pc
        /\ Armed(op, pc).deadline = now + Timeout
  BY RequestType DEF Armed, Idle
<1>3. \A r : Arrive(w, r) => new = r
  BY <1>1 DEF Arrive
<1>13. /\ {"create_invite", "submit_invite", "cancel_invite", "generate_qr",
           "check_in", "check_out"} \subseteq Ops
       /\ FormOps \subseteq Ops /\ {"duty", "settings", "qr"} \subseteq Phases
  BY DEF Ops, Phases
<1> USE DEF Recent, Deadlines, OnPath, Entering, RecentInvite, RecentDuty, RecentCode, RecentRules,
            Deciding, FormOps
<1>4. ASSUME NEW u \in Users, NEW ttl \in 0..InviteTtl, CreateInvite(w, u, ttl)
      PROVE  Recent(new)
  <2> DEFINE old == Armed("create_invite", "duty")
             q == [old EXCEPT !.user = u, !.exp = IF ttl = 0 THEN 0 ELSE now + ttl]
  <2>1. old \in Request /\ old.op = "create_invite" /\ old.pc = "duty"
        /\ old.deadline = now + Timeout
    BY <1>2, <1>13
  <2>2. new = q
    BY <1>3, <1>4 DEF CreateInvite
  <2> HIDE DEF old
  <2>3. q.op = old.op /\ q.pc = old.pc /\ q.deadline = old.deadline
    BY <2>1, RequestFields
  <2> HIDE DEF q
  <2>4. /\ new.op = "create_invite" /\ new.pc = "duty"
        /\ new.deadline = now + Timeout
    BY <2>1, <2>2, <2>3
  <2> QED
    BY <1>1, <2>4
<1>5. ASSUME NEW i \in Invites, SubmitInviteForm(w, i) PROVE Recent(new)
  <2>1. /\ new.op = "submit_invite" /\ new.pc = "settings"
        /\ new.invite = i /\ new.deadline = now + Timeout
    BY <1>2, <1>3, <1>5, <1>13
    DEF SubmitInviteForm, Request
  <2>2. invite[i].status = "active" /\ invite[i].expires > now
    BY <1>5 DEF SubmitInviteForm, InviteUsable
  <2>3. invite[i].expires \in Nat
    BY DEF TypeOK, InviteRow
  <2> QED
    BY <1>1, <2>1, <2>2, <2>3
<1>6. ASSUME NEW u \in Users, NEW i \in Invites, CancelInvite(w, u, i)
      PROVE  Recent(new)
  <2> DEFINE old == Armed("cancel_invite", "duty")
             q == [old EXCEPT !.user = u, !.invite = i]
  <2>1. old \in Request /\ old.op = "cancel_invite" /\ old.pc = "duty"
        /\ old.deadline = now + Timeout
    BY <1>2, <1>13
  <2>2. new = q
    BY <1>3, <1>6 DEF CancelInvite
  <2> HIDE DEF old
  <2>3. q.op = old.op /\ q.pc = old.pc /\ q.deadline = old.deadline
    BY <2>1, RequestFields
  <2> HIDE DEF q
  <2>4. /\ new.op = "cancel_invite" /\ new.pc = "duty"
        /\ new.deadline = now + Timeout
    BY <2>1, <2>2, <2>3
  <2> QED
    BY <1>1, <2>4
<1>7. ASSUME NEW op \in FormOps, CreatePublicEntry(w, op) PROVE Recent(new)
  <2>1. /\ new.op \in FormOps /\ new.pc = "settings"
        /\ new.deadline = now + Timeout
    BY <1>2, <1>3, <1>7, <1>13
    DEF CreatePublicEntry, Request
  <2> QED
    BY <1>1, <2>1
<1>8. ASSUME NEW u \in Users, CreateGuardEntry(w, u) PROVE Recent(new)
  <2>1. /\ new.op = "guard_entry" /\ new.pc = "duty"
        /\ new.deadline = NoDeadline
    BY <1>3, <1>8 DEF CreateGuardEntry, Idle
  <2> QED
    BY <1>1, <2>1
<1>9. ASSUME NEW op \in Ops, NEW u \in Users, NEW e \in Entries,
             DecideEntry(w, op, u, e)
      PROVE  Recent(new)
  <2> DEFINE old == Armed(op, "duty")
             q == [old EXCEPT !.user = u, !.entry = e]
  <2>1. old \in Request /\ old.op = op /\ old.pc = "duty"
        /\ old.deadline = now + Timeout
    BY <1>2, <1>13
  <2>2. new = q
    BY <1>3, <1>9 DEF DecideEntry
  <2> HIDE DEF old
  <2>3. q.op = old.op /\ q.pc = old.pc /\ q.deadline = old.deadline
        /\ q.user = u /\ q.entry = e
    BY <2>1, RequestFields
  <2> HIDE DEF q
  <2>4. /\ new.op \in {"approve", "reject"} /\ new.pc = "duty" /\ new.user = u
        /\ new.deadline = now + Timeout
    BY <1>9, <2>1, <2>2, <2>3 DEF DecideEntry
  <2> QED
    BY <1>1, <2>4
<1>10. ASSUME NEW e \in Entries, GenerateQR(w, e) PROVE Recent(new)
  <2>1. /\ new.op = "generate_qr" /\ new.pc = "qr" /\ new.deadline = now + Timeout
    BY <1>2, <1>3, <1>10, <1>13
    DEF GenerateQR, Request
  <2> QED
    BY <1>1, <2>1
<1>11. ASSUME NEW u \in Users, NEW e \in Entries, CheckIn(w, u, e)
       PROVE  Recent(new)
  <2> DEFINE old == Armed("check_in", "duty")
             q == [old EXCEPT !.user = u, !.entry = e]
  <2>1. old \in Request /\ old.op = "check_in" /\ old.pc = "duty"
        /\ old.deadline = now + Timeout
    BY <1>2, <1>13
  <2>2. new = q
    BY <1>3, <1>11 DEF CheckIn
  <2> HIDE DEF old
  <2>3. q.op = old.op /\ q.pc = old.pc /\ q.deadline = old.deadline
        /\ q.user = u /\ q.entry = e
    BY <2>1, RequestFields
  <2> HIDE DEF q
  <2>4. /\ new.op = "check_in" /\ new.pc = "duty" /\ new.user = u
        /\ new.entry = e /\ new.deadline = now + Timeout
    BY <1>11, <2>1, <2>2, <2>3 DEF CheckIn
  <2>5. entry[e].status = "approved" /\ now <= entry[e].exp
    BY <1>11 DEF CheckIn
  <2>6. entry[e].exp \in Nat
    BY DEF TypeOK, EntryRow
  <2> QED
    BY <1>1, <2>4, <2>5, <2>6
<1>12. ASSUME NEW u \in Users, NEW e \in Entries, CheckOut(w, u, e)
       PROVE  Recent(new)
  <2> DEFINE old == Armed("check_out", "duty")
             q == [old EXCEPT !.user = u, !.entry = e]
  <2>1. old \in Request /\ old.op = "check_out" /\ old.pc = "duty"
        /\ old.deadline = now + Timeout
    BY <1>2, <1>13
  <2>2. new = q
    BY <1>3, <1>12 DEF CheckOut
  <2> HIDE DEF old
  <2>3. q.op = old.op /\ q.pc = old.pc /\ q.deadline = old.deadline
        /\ q.user = u /\ q.entry = e
    BY <2>1, RequestFields
  <2> HIDE DEF q
  <2>4. /\ new.op = "check_out" /\ new.pc = "duty" /\ new.user = u
        /\ new.deadline = now + Timeout
    BY <1>12, <2>1, <2>2, <2>3 DEF CheckOut
  <2> QED
    BY <1>1, <2>4
<1> QED
  BY <1>4, <1>5, <1>6, <1>7, <1>8, <1>9, <1>10, <1>11, <1>12 DEF Arrival

\* A read adds what the tables say now to what the request remembers.
LEMMA ReadRecent ==
    ASSUME TypeOK, NEW w \in Workers, Recent(req[w]), Read(w)
    PROVE  Recent(req'[w])
<1> DEFINE old == req[w]
           new == req'[w]
<1>1. /\ now \in Nat /\ Timeout \in Nat /\ req \in [Workers -> Request]
      /\ old \in Request /\ NoDeadline \notin Nat
  BY ConstantsOK DEF TypeOK, NoDeadline
<1>2. new.op = old.op /\ new.user = old.user /\ new.invite = old.invite
      /\ new.entry = old.entry
  BY <1>1, ReadProceeds
<1> USE DEF Recent, Deadlines, OnPath, Entering, RecentInvite, RecentDuty, RecentCode, RecentRules,
            Deciding, FormOps
<1>3. CASE CheckDuty(w)
  <2>1. /\ new.pc = AfterDuty(old.op) /\ new.deadline = old.deadline
        /\ new.exp = old.exp /\ new.status = old.status
        /\ old.pc = "duty" /\ DutyOf(old.op) \in duties[old.user]
    BY <1>1, <1>3 DEF CheckDuty, At, Request
  <2>2. RecentDuty(new)
    BY <1>2, <2>1
  <2>3. Deadlines(new) /\ RecentInvite(new) /\ RecentCode(new) /\ RecentRules(new)
    BY <1>1, <1>2, <2>1 DEF AfterDuty
  <2>4. OnPath(new)
    BY <1>2, <2>1 DEF AfterDuty
  <2> QED
    BY <2>2, <2>3, <2>4
<1>4. CASE ReadInviteSettings(w)
  <2>1. new.op = "create_invite" /\ new.pc = "commit" /\ new.deadline = old.deadline
    BY <1>1, <1>2, <1>4 DEF ReadInviteSettings, Request
  <2> QED
    BY <1>2, <2>1
<1>5. CASE MakeQR(w)
  <2>1. /\ old.pc = "qr" /\ new.pc = "commit" /\ new.deadline = old.deadline
        /\ new.status = old.status /\ new.exp = now + settings.qrTtl
    BY <1>1, <1>5 DEF MakeQR, At, Request
  <2>2. settings.qrTtl \in Nat /\ settings.qrTtl >= Timeout /\ old.deadline \in Int
    BY <1>1, ConstantsOK DEF TypeOK, SettingsType, Request, NoDeadline
  <2>3. new.deadline <= new.exp
    BY <1>1, <2>1, <2>2
  <2>4. Deadlines(new) /\ RecentInvite(new) /\ RecentDuty(new) /\ RecentRules(new)
    BY <1>2, <2>1
  <2> QED
    BY <1>2, <2>1, <2>3, <2>4
<1>6. CASE ReadRule(w)
  <2>1. /\ old.pc = "rule" /\ FlatAdmits(rule)
        /\ new.deadline = old.deadline /\ new.exp = old.exp
        /\ new.status = FlatDecision(rule) /\ new.pc = AfterDecision(new.status)
        /\ new.pc \in {"qr", "commit"}
    BY <1>1, <1>6 DEF ReadRule, At, Request, AfterDecision
  <2>2. ASSUME new.op \in Entering PROVE RecentRules(new)
    <3>1. old.op # "submit_invite"
      BY <2>1
    <3>2. PICK s \in Settings :
            /\ SettingsSince(s, old.deadline)
            /\ Admits(s, SourceOf(old.op)) /\ NeedsFlatRule(s, SourceOf(old.op))
      BY <1>2, <2>1, <2>2
    <3>3. Resolve(s, rule, SourceOf(old.op)) = FlatDecision(rule)
      BY <2>1, <3>2 DEF Resolve
    <3>4. RuleSince(rule, old.deadline) /\ rule \in Rules
      BY DEF RuleSince, TypeOK
    <3>5. \E t \in Settings, f \in Rules :
             /\ SettingsSince(t, old.deadline) /\ RuleSince(f, old.deadline)
             /\ Resolve(t, f, SourceOf(old.op)) = FlatDecision(rule)
      BY <3>2, <3>3, <3>4
    <3> QED
      BY <1>2, <2>1, <3>1, <3>5
  <2>3. Deadlines(new) /\ OnPath(new) /\ RecentInvite(new) /\ RecentDuty(new)
    BY <1>2, <2>1
  <2>4. RecentCode(new)
    BY <1>2, <2>1
  <2> QED
    BY <1>2, <2>2, <2>3, <2>4
<1>7. CASE ReadSettings(w)
  <2> DEFINE src == SourceOf(old.op)
  <2>1. /\ old.pc = "settings" /\ Admits(settings, src)
        /\ new.status = SocietyDecision(settings, src) /\ new.exp = old.exp
        /\ new.pc = IF NeedsFlatRule(settings, src) THEN "rule"
                    ELSE AfterDecision(SocietyDecision(settings, src))
        /\ new.deadline = IF old.deadline = NoDeadline THEN now + Timeout
                          ELSE old.deadline
    BY <1>1, <1>7 DEF ReadSettings, At, Request
  <2>2. old.op # "create_invite"
    BY <1>7 DEF ReadSettings
  <2>3. old.deadline # NoDeadline => new.deadline = old.deadline
    BY <2>1
  <2>4. Deadlines(new)
    BY <1>1, <1>2, <2>1
  <2>5. RecentRules(new)
    <3>1. SourceOf("submit_invite") = "resident_link"
      BY DEF SourceOf
    <3>2. NeedsFlatRule(settings, src) => old.op # "submit_invite"
      BY <3>1 DEF NeedsFlatRule
    <3>3. /\ ~NeedsFlatRule(settings, src) =>
                 Resolve(settings, rule, src) = new.status
          /\ \A t : SettingsSince(settings, t) /\ RuleSince(rule, t)
          /\ settings \in Settings /\ rule \in Rules
      BY <2>1 DEF Resolve, SettingsSince, RuleSince, TypeOK
    <3>4. old.op = "submit_invite" => new.status = "approved"
      BY <2>1, <3>1 DEF SocietyDecision
    <3>5. /\ NeedsFlatRule(settings, src) => new.pc = "rule"
          /\ ~NeedsFlatRule(settings, src) => new.pc \in {"qr", "commit"}
      BY <2>1 DEF AfterDecision
    <3>6. src = SourceOf(new.op)
      BY <1>2
    <3> HIDE DEF src
    <3> QED
      BY <1>2, <2>1, <3>2, <3>3, <3>4, <3>5, <3>6
  <2>6. OnPath(new)
    BY <1>2, <2>1, <2>2 DEF AfterDecision, NeedsFlatRule, SourceOf
  <2>7. RecentInvite(new)
    BY <1>2, <2>1
  <2>8. RecentDuty(new) /\ RecentCode(new)
    BY <1>2, <2>1
  <2> QED
    BY <2>4, <2>5, <2>6, <2>7, <2>8
<1> QED
  BY <1>3, <1>4, <1>5, <1>6, <1>7 DEF Read

LEMMA RecentStep ==
    ASSUME TypeOK, Requests, AllRecent, [Next]_vars
    PROVE  AllRecent'
<1> SUFFICES ASSUME NEW v \in Workers PROVE Recent(req[v])'
  BY DEF AllRecent
<1>1. req \in [Workers -> Request]
  BY DEF TypeOK
<1>2. ASSUME req'[v] = req[v] PROVE Recent(req[v])'
  <2>1. PICK r \in Request : r = req[v]
    BY <1>1
  <2>2. Targeted(r) /\ Recent(r)
    BY <2>1 DEF Requests, AllRecent
  <2>3. Recent(r)'
    BY <2>2, RecentAges
  <2>4. r = req'[v]
    BY <1>2, <2>1
  <2> QED
    BY <2>3, <2>4
<1>3. ASSUME UNCHANGED <<now, dutyVars, policyVars, tableVars>>, Recent(req'[v])
      PROVE  Recent(req[v])'
  BY <1>3 DEF Recent, Deadlines, OnPath, RecentInvite, RecentDuty, RecentCode,
     RecentRules, SettingsSince, RuleSince, dutyVars, policyVars, tableVars
<1>4. ASSUME req'[v] = Idle PROVE Recent(req[v])'
  <2>1. NoDeadline <= now' + Timeout
    BY RequestsStep, ConstantsOK DEF TypeOK, NoDeadline
  <2>2. Recent(Idle)'
    BY <2>1 DEF Idle, Recent, Deadlines, OnPath, Entering, RecentInvite,
       RecentDuty, RecentCode, RecentRules, Deciding, FormOps
  <2> QED
    BY <1>4, <2>2
<1>5. CASE UNCHANGED req
  BY <1>2, <1>5
<1>6. ASSUME NEW w \in Workers, Arrival(w) PROVE Recent(req[v])'
  <2>1. UNCHANGED <<now, dutyVars, policyVars, tableVars>>
        /\ (v # w => req'[v] = req[v])
    BY <1>1, <1>6, ArrivalStarts DEF Arrive
  <2>2. v = w => Recent(req'[v])
    BY <1>6, ArrivalRecent
  <2> QED
    BY <1>2, <1>3, <2>1, <2>2
<1>7. ASSUME NEW w \in Workers, Read(w) PROVE Recent(req[v])'
  <2>1. UNCHANGED <<now, dutyVars, policyVars, tableVars>>
        /\ (v # w => req'[v] = req[v])
    BY <1>1, <1>7, ReadProceeds
  <2>2. v = w => Recent(req'[v])
    BY <1>7, ReadRecent DEF AllRecent
  <2> QED
    BY <1>2, <1>3, <2>1, <2>2
<1>8. ASSUME NEW w \in Workers, Commit(w) \/ Fail(w) PROVE Recent(req[v])'
  <2>1. req' = [req EXCEPT ![w] = Idle]
    BY <1>8 DEF Fail, Commit, Committing, CommitCreateInvite, CommitSubmitInvite,
       CommitCancelInvite, CommitApprovedForm, CommitWaitingForm, CommitApprove,
       CommitReject, CommitGenerateQR, CommitCheckIn, CommitCheckOut
  <2> QED
    BY <1>1, <1>2, <1>4, <2>1
<1>9. Environment \/ UNCHANGED vars => UNCHANGED req
  BY DEF vars, Environment, Tick, Reassign, UpdateSocietySettings,
     UpdateFlatPurposeSetting, ExpireOldInvites, AutoCloseExpiredEntries
<1> QED
  BY <1>5, <1>6, <1>7, <1>8, <1>9 DEF Next

\* What a request in flight read is still so, or stopped being so less than
\* one timeout before the request's deadline.
THEOREM ChecksAreRecent == Spec => []AllRecent
<1>1. Init => AllRecent
  <2> SUFFICES ASSUME Init PROVE AllRecent
    OBVIOUS
  <2>1. TypeOK /\ \A w \in Workers : req[w] = Idle
    BY InitType DEF Init
  <2> QED
    BY <2>1, IdleRecent DEF AllRecent
<1>2. TypeOK /\ Requests /\ AllRecent /\ [Next]_vars => AllRecent'
  BY RecentStep
<1> QED
  BY <1>1, <1>2, TypeCorrect, PTL DEF Spec

-----------------------------------------------------------------------------
(***************************************************************************)
(* The action properties.                                                  *)
(***************************************************************************)
\* Entries are created by the three creating transactions only, with the
\* source, the invite and the status of the request.
LEMMA Creation ==
    ASSUME TypeOK, Requests, AllRecent, [Next]_vars,
           NEW e \in Entries, Created(e)
    PROVE  \E w \in Workers :
              /\ now <= req[w].deadline /\ req[w].pc = "commit"
              /\ req[w].op \in Entering
              /\ entry'[e].source = SourceOf(req[w].op)
              /\ entry'[e].status = req[w].status
              /\ entry'[e].invite # NoInvite =>
                     /\ req[w].op = "submit_invite"
                     /\ entry'[e].invite = req[w].invite
<1>1. /\ entry \in [Entries -> EntryRow]
      /\ entry[e].status = "none" /\ entry'[e].status # "none"
  BY DEF TypeOK, Created
<1>2. entry'[e] # entry[e]
  BY <1>1
<1> DEFINE By(w) == /\ now <= req[w].deadline /\ req[w].pc = "commit"
                    /\ req[w].op \in Entering
                    /\ entry'[e].source = SourceOf(req[w].op)
                    /\ entry'[e].status = req[w].status
                    /\ entry'[e].invite # NoInvite =>
                           /\ req[w].op = "submit_invite"
                           /\ entry'[e].invite = req[w].invite
<1>3. ASSUME NEW w \in Workers, Commit(w) PROVE By(w)
  <2>1. CASE CommitSubmitInvite(w)
    <3>1. now <= req[w].deadline /\ req[w].pc = "commit" /\ req[w].op = "submit_invite"
      BY <2>1, InTime DEF CommitSubmitInvite
    <3>2. req[w].status = "approved"
      BY <3>1 DEF AllRecent, Recent, RecentRules, Entering
    <3>3. entry'[e].status = "approved" /\ entry'[e].source = "resident_link"
          /\ entry'[e].invite = req[w].invite
      BY <1>1, <1>2, <2>1 DEF CommitSubmitInvite
    <3> QED
      BY <3>1, <3>2, <3>3 DEF Entering, SourceOf, FormOps
  <2>2. ASSUME NEW op \in FormOps, CommitApprovedForm(w, op) PROVE By(w)
    <3>1. now <= req[w].deadline /\ req[w].pc = "commit" /\ req[w].op = op
      BY <2>2, InTime DEF CommitApprovedForm, FormOps
    <3>2. /\ entry'[e].status = "approved" /\ entry'[e].source = op
          /\ entry'[e].invite = NoInvite /\ req[w].status = "approved"
      BY <1>1, <1>2, <2>2 DEF CommitApprovedForm
    <3> QED
      BY <3>1, <3>2 DEF Entering, SourceOf
  <2>3. ASSUME NEW op \in FormOps, CommitWaitingForm(w, op) PROVE By(w)
    <3>1. now <= req[w].deadline /\ req[w].pc = "commit" /\ req[w].op = op
      BY <2>3, InTime DEF CommitWaitingForm, FormOps
    <3>2. /\ entry'[e].status = "waiting_approval" /\ entry'[e].source = op
          /\ entry'[e].invite = NoInvite /\ req[w].status = "waiting_approval"
      BY <1>1, <1>2, <2>3 DEF CommitWaitingForm
    <3> QED
      BY <3>1, <3>2 DEF Entering, SourceOf
  <2>4. CASE CommitApprove(w)
    BY <1>1, <1>2, <2>4 DEF CommitApprove, InStatus
  <2>5. CASE CommitReject(w)
    BY <1>1, <1>2, <2>5 DEF CommitReject, InStatus
  <2>6. CASE CommitGenerateQR(w)
    BY <1>1, <1>2, <2>6 DEF CommitGenerateQR, InStatus
  <2>7. CASE CommitCheckIn(w)
    BY <1>1, <1>2, <2>7 DEF CommitCheckIn, InStatus
  <2>8. CASE CommitCheckOut(w)
    BY <1>1, <1>2, <2>8 DEF CommitCheckOut, InStatus
  <2> QED
    BY <1>2, <1>3, <2>1, <2>2, <2>3, <2>4, <2>5, <2>6, <2>7, <2>8
    DEF Commit, CommitCreateInvite, CommitCancelInvite
<1>4. CASE AutoCloseExpiredEntries
  BY <1>1, <1>2, <1>4 DEF AutoCloseExpiredEntries, Overdue
<1> QED
  BY <1>2, <1>3, <1>4, StepKinds DEF Quiet, tableVars, ExpireOldInvites

\* An entry is decided, let in or let out by the transaction of that name
\* only, in the name of the request's user.
LEMMA Moving ==
    ASSUME TypeOK, Requests, AllRecent, [Next]_vars, NEW e \in Entries
    PROVE  LET By(op) == \E w \in Workers :
                  /\ now <= req[w].deadline /\ req[w].pc = "commit"
                  /\ req[w].op = op /\ req[w].entry = e
                  /\ op = "approve" => entry'[e].approvedBy = req[w].user
                  /\ op = "reject" => entry'[e].rejectedBy = req[w].user
                  /\ op \in {"check_in", "check_out"} =>
                         entry'[e].guard = req[w].user
           IN  /\ Moved(e, "waiting_approval", "approved") => By("approve")
               /\ Moved(e, "waiting_approval", "rejected") => By("reject")
               /\ Moved(e, "approved", "checked_in") => By("check_in")
               /\ Moved(e, "checked_in", "checked_out") => By("check_out")
<1> DEFINE By(op) == \E w \in Workers :
                  /\ now <= req[w].deadline /\ req[w].pc = "commit"
                  /\ req[w].op = op /\ req[w].entry = e
                  /\ op = "approve" => entry'[e].approvedBy = req[w].user
                  /\ op = "reject" => entry'[e].rejectedBy = req[w].user
                  /\ op \in {"check_in", "check_out"} =>
                         entry'[e].guard = req[w].user
           Moves == /\ Moved(e, "waiting_approval", "approved") => By("approve")
                    /\ Moved(e, "waiting_approval", "rejected") => By("reject")
                    /\ Moved(e, "approved", "checked_in") => By("check_in")
                    /\ Moved(e, "checked_in", "checked_out") => By("check_out")
<1> SUFFICES Moves
  OBVIOUS
<1>1. entry \in [Entries -> EntryRow]
  BY DEF TypeOK
<1>2. CASE entry'[e].status = entry[e].status \/ entry[e].status = "none"
  BY <1>2 DEF Moved
<1>3. CASE AutoCloseExpiredEntries
  <2>1. entry'[e].status \in {entry[e].status, "auto_closed"}
    BY <1>1, <1>3 DEF AutoCloseExpiredEntries, EntryRow
  <2> QED
    BY <1>2, <2>1 DEF Moved
<1>4. ASSUME NEW w \in Workers, Commit(w), entry'[e].status # entry[e].status,
             entry[e].status # "none"
      PROVE  Moves
  <2>1. CASE CommitApprove(w)
    <3>1. now <= req[w].deadline /\ req[w].pc = "commit" /\ req[w].op = "approve"
      BY <2>1, InTime DEF CommitApprove
    <3>2. req[w].entry = e /\ entry'[e].approvedBy = req[w].user
          /\ entry'[e].status = "approved" /\ entry[e].status = "waiting_approval"
      BY <1>1, <1>4, <2>1 DEF CommitApprove, EntryRow, InStatus
    <3> QED
      BY <3>1, <3>2 DEF Moved
  <2>2. CASE CommitReject(w)
    <3>1. now <= req[w].deadline /\ req[w].pc = "commit" /\ req[w].op = "reject"
      BY <2>2, InTime DEF CommitReject
    <3>2. req[w].entry = e /\ entry'[e].rejectedBy = req[w].user
          /\ entry'[e].status = "rejected" /\ entry[e].status = "waiting_approval"
      BY <1>1, <1>4, <2>2 DEF CommitReject, EntryRow, InStatus
    <3> QED
      BY <3>1, <3>2 DEF Moved
  <2>3. CASE CommitCheckIn(w)
    <3>1. now <= req[w].deadline /\ req[w].pc = "commit" /\ req[w].op = "check_in"
      BY <2>3, InTime DEF CommitCheckIn
    <3>2. req[w].entry = e /\ entry'[e].guard = req[w].user
          /\ entry'[e].status = "checked_in" /\ entry[e].status = "approved"
      BY <1>1, <1>4, <2>3 DEF CommitCheckIn, EntryRow, InStatus
    <3> QED
      BY <3>1, <3>2 DEF Moved
  <2>4. CASE CommitCheckOut(w)
    <3>1. now <= req[w].deadline /\ req[w].pc = "commit" /\ req[w].op = "check_out"
      BY <2>4, InTime DEF CommitCheckOut
    <3>2. req[w].entry = e /\ entry'[e].guard = req[w].user
          /\ entry'[e].status = "checked_out" /\ entry[e].status = "checked_in"
      BY <1>1, <1>4, <2>4 DEF CommitCheckOut, EntryRow, InStatus
    <3> QED
      BY <3>1, <3>2 DEF Moved
  <2>5. CASE CommitGenerateQR(w)
    BY <1>1, <1>4, <2>5 DEF CommitGenerateQR, EntryRow
  <2>6. CASE CommitSubmitInvite(w)
    BY <1>1, <1>4, <2>6 DEF CommitSubmitInvite
  <2>7. ASSUME NEW op \in FormOps, CommitApprovedForm(w, op) PROVE FALSE
    BY <1>1, <1>4, <2>7 DEF CommitApprovedForm
  <2>8. ASSUME NEW op \in FormOps, CommitWaitingForm(w, op) PROVE FALSE
    BY <1>1, <1>4, <2>8 DEF CommitWaitingForm
  <2> QED
    BY <1>4, <2>1, <2>2, <2>3, <2>4, <2>5, <2>6, <2>7, <2>8
    DEF Commit, CommitCreateInvite, CommitCancelInvite
<1>5. Quiet \/ ExpireOldInvites => entry' = entry
  BY DEF Quiet, tableVars, ExpireOldInvites
<1> HIDE DEF Moves
<1> QED
  BY <1>2, <1>3, <1>4, <1>5, StepKinds

\* No invite creates an entry later than one timeout after it expired, was
\* used or was cancelled.
THEOREM InviteUseBounded == Spec => InviteStaleUseBounded
<1> DEFINE A == \A e \in Entries :
                  Created(e) /\ entry'[e].invite # NoInvite =>
                      LET i == invite[entry'[e].invite] IN
                      /\ now <= i.expires + Timeout
                      /\ i.status = "active" \/ now <= i.updated + Timeout
<1>1. TypeOK /\ Requests /\ AllRecent /\ [Next]_vars => A
  <2> SUFFICES ASSUME TypeOK, Requests, AllRecent, [Next]_vars,
                      NEW e \in Entries, Created(e), entry'[e].invite # NoInvite
               PROVE  LET i == invite[entry'[e].invite] IN
                      /\ now <= i.expires + Timeout
                      /\ i.status = "active" \/ now <= i.updated + Timeout
    OBVIOUS
  <2>1. PICK w \in Workers :
          /\ now <= req[w].deadline /\ req[w].op = "submit_invite"
          /\ entry'[e].invite = req[w].invite
    BY Creation
  <2>2. req[w].invite \in Invites /\ req[w].deadline \in Int /\ now \in Int
    BY <2>1, ConstantsOK DEF Requests, Targeted, TypeOK, Request, NoDeadline
  <2> DEFINE i == invite[req[w].invite]
  <2>3. i.expires \in Nat /\ i.updated \in Nat /\ Timeout \in Nat
    BY <2>2, ConstantsOK DEF TypeOK, InviteRow
  <2>4. /\ req[w].deadline <= i.expires + Timeout
        /\ i.status = "active" \/ req[w].deadline <= i.updated + Timeout
    BY <2>1 DEF AllRecent, Recent, RecentInvite
  <2> QED
    BY <2>1, <2>2, <2>3, <2>4
<1> QED
  BY <1>1, TypeCorrect, ChecksAreRecent, PTL DEF Spec, InviteStaleUseBounded

\* Every entry is created with the status that a society row and a flat row
\* give it of which each is in force or was replaced at most one timeout ago.
THEOREM PolicyUseBounded == Spec => StalePolicyBounded
<1> DEFINE Given(status, src) ==
             \E s \in Settings, r \in Rules :
                 /\ SettingsSince(s, now) /\ RuleSince(r, now)
                 /\ Resolve(s, r, src) = status
           A == \A e \in Entries :
                  Created(e) => Given(entry'[e].status, entry'[e].source)
<1>1. TypeOK /\ Requests /\ AllRecent /\ [Next]_vars => A
  <2> SUFFICES ASSUME TypeOK, Requests, AllRecent, [Next]_vars,
                      NEW e \in Entries, Created(e)
               PROVE  Given(entry'[e].status, entry'[e].source)
    OBVIOUS
  <2>1. PICK w \in Workers :
          /\ now <= req[w].deadline /\ req[w].pc = "commit"
          /\ req[w].op \in Entering
          /\ entry'[e].source = SourceOf(req[w].op)
          /\ entry'[e].status = req[w].status
    BY Creation
  <2>2. PICK s \in Settings, r \in Rules :
          /\ SettingsSince(s, req[w].deadline) /\ RuleSince(r, req[w].deadline)
          /\ Resolve(s, r, SourceOf(req[w].op)) = req[w].status
    BY <2>1 DEF AllRecent, Recent, RecentRules
  <2>3. req[w].deadline \in Int /\ now \in Int /\ Timeout \in Nat
        /\ settingsUntil[s] \in Int /\ ruleUntil[r] \in Int
    BY ConstantsOK DEF TypeOK, Request, NoDeadline
  <2>4. SettingsSince(s, now) /\ RuleSince(r, now)
    BY <2>1, <2>2, <2>3 DEF SettingsSince, RuleSince
  <2> QED
    BY <2>1, <2>2, <2>4
<1> QED
  BY <1>1, TypeCorrect, ChecksAreRecent, PTL DEF Spec, StalePolicyBounded

\* Nobody is let in later than one timeout after the code on the entry
\* expired, whatever codes are generated meanwhile.
THEOREM CheckInGraceHolds == Spec => CheckInGrace
<1> DEFINE A == \A e \in Entries :
                  Moved(e, "approved", "checked_in") => now <= entry[e].exp + Timeout
<1>1. TypeOK /\ Requests /\ AllRecent /\ [Next]_vars => A
  <2> SUFFICES ASSUME TypeOK, Requests, AllRecent, [Next]_vars,
                      NEW e \in Entries, Moved(e, "approved", "checked_in")
               PROVE  now <= entry[e].exp + Timeout
    OBVIOUS
  <2>1. PICK w \in Workers :
          now <= req[w].deadline /\ req[w].op = "check_in" /\ req[w].entry = e
    BY Moving
  <2>2. /\ req[w].deadline \in Int /\ now \in Int /\ entry[e].exp \in Int
        /\ Timeout \in Nat
    BY ConstantsOK DEF TypeOK, Request, EntryRow, NoDeadline
  <2>3. req[w].deadline <= entry[e].exp + Timeout
    BY <2>1 DEF AllRecent, Recent, RecentCode
  <2> QED
    BY <2>1, <2>2, <2>3
<1> QED
  BY <1>1, TypeCorrect, ChecksAreRecent, PTL DEF Spec, CheckInGrace

\* A user who lost a duty decides nothing, and lets nobody in or out, later
\* than one timeout afterwards.
THEOREM RevocationUseBounded == Spec => RevocationBounded
<1> DEFINE A == \A e \in Entries :
           /\ Moved(e, "waiting_approval", "approved") =>
                  HoldsOrJustLost(entry'[e].approvedBy, "approve")
           /\ Moved(e, "waiting_approval", "rejected") =>
                  HoldsOrJustLost(entry'[e].rejectedBy, "approve")
           /\ Moved(e, "approved", "checked_in") \/ Moved(e, "checked_in", "checked_out") =>
                  HoldsOrJustLost(entry'[e].guard, "guard")
<1>1. TypeOK /\ Requests /\ AllRecent /\ [Next]_vars => A
  <2> SUFFICES ASSUME TypeOK, Requests, AllRecent, [Next]_vars, NEW e \in Entries
               PROVE  /\ Moved(e, "waiting_approval", "approved") =>
                             HoldsOrJustLost(entry'[e].approvedBy, "approve")
                      /\ Moved(e, "waiting_approval", "rejected") =>
                             HoldsOrJustLost(entry'[e].rejectedBy, "approve")
                      /\ Moved(e, "approved", "checked_in")
                             \/ Moved(e, "checked_in", "checked_out") =>
                             HoldsOrJustLost(entry'[e].guard, "guard")
    OBVIOUS
  <2>1. ASSUME NEW w \in Workers, req[w].op \in Deciding, req[w].pc = "commit",
               now <= req[w].deadline
        PROVE  HoldsOrJustLost(req[w].user, DutyOf(req[w].op))
    <3>1. req[w].user \in Users /\ DutyOf(req[w].op) \in Duties
      BY <2>1 DEF AllRecent, Recent, RecentDuty, DutyOf, Duties
    <3>2. /\ req[w].deadline \in Int /\ now \in Int /\ Timeout \in Nat
          /\ lostAt[req[w].user][DutyOf(req[w].op)] \in Int
      BY <3>1, ConstantsOK DEF TypeOK, Request, NoDeadline
    <3>3. \/ DutyOf(req[w].op) \in duties[req[w].user]
          \/ req[w].deadline <= lostAt[req[w].user][DutyOf(req[w].op)] + Timeout
      BY <2>1 DEF AllRecent, Recent, RecentDuty
    <3> QED
      BY <2>1, <3>2, <3>3 DEF HoldsOrJustLost
  <2>2. /\ DutyOf("approve") = "approve" /\ DutyOf("reject") = "approve"
        /\ DutyOf("check_in") = "guard" /\ DutyOf("check_out") = "guard"
        /\ {"approve", "reject", "check_in", "check_out"} \subseteq Deciding
    BY DEF DutyOf, Deciding
  <2>3. ASSUME Moved(e, "waiting_approval", "approved")
        PROVE  HoldsOrJustLost(entry'[e].approvedBy, "approve")
    BY <2>1, <2>2, <2>3, Moving
  <2>4. ASSUME Moved(e, "waiting_approval", "rejected")
        PROVE  HoldsOrJustLost(entry'[e].rejectedBy, "approve")
    BY <2>1, <2>2, <2>4, Moving
  <2>5. ASSUME Moved(e, "approved", "checked_in")
        PROVE  HoldsOrJustLost(entry'[e].guard, "guard")
    BY <2>1, <2>2, <2>5, Moving
  <2>6. ASSUME Moved(e, "checked_in", "checked_out")
        PROVE  HoldsOrJustLost(entry'[e].guard, "guard")
    BY <2>1, <2>2, <2>6, Moving
  <2> QED
    BY <2>3, <2>4, <2>5, <2>6
<1> QED
  BY <1>1, TypeCorrect, ChecksAreRecent, PTL DEF Spec, RevocationBounded
=============================================================================
