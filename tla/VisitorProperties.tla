------------------------- MODULE VisitorProperties -------------------------
(***************************************************************************)
(* What the visitor flow guarantees.                                       *)
(***************************************************************************)
EXTENDS VisitorEntry

Issued(e) == entry[e].status # "none"

(***************************************************************************)
(* Invariants                                                              *)
(***************************************************************************)

\* The events an entry of a status has: each transaction leaves its own, and the
\* sweep, which makes checked_in entries auto_closed, leaves none.
Audited(status, events) ==
    LET once(t, S) == events[t] = IF status \in S THEN 1 ELSE 0 IN
    /\ once("created", EntryStatuses \ {"none"})
    /\ once("approved", Cleared)
    /\ once("rejected", {"rejected"})
    /\ once("qr_used", Admitted)
    /\ once("checked_in", Admitted)
    /\ once("checked_out", {"checked_out"})
    /\ once("auto_closed", {})
    /\ events["qr_generated"] > 0 <=> status \in Cleared

\* The event log tells what requests did to an entry: every transaction of a
\* request that moves it records exactly its own events, once, and no
\* interleaving of requests for the same entry records a decision or an
\* admission twice.  It does not tell the status: AutoCloseExpiredEntries moves
\* entries and records nothing, so that an auto_closed entry has the log of one
\* whose visitor is still inside, and nothing ever records the auto_closed that
\* the schema knows and the timeline of todo/whattodo is to show.
AuditTrail == \A e \in Entries : Audited(entry[e].status, log[e])

\* Two residents deciding the same entry at once leave one decision: a
\* rejector exactly on rejected entries, no approver unless the visitor was
\* cleared, and an approver on every entry a resident's invite cleared.
OneDecision ==
    \A e \in Entries :
        /\ entry[e].rejectedBy # NoUser <=> entry[e].status = "rejected"
        /\ entry[e].approvedBy # NoUser => entry[e].status \in Cleared
        /\ entry[e].invite # NoInvite =>
               entry[e].approvedBy = invite[entry[e].invite].by

\* A QR token is held exactly by entries that were cleared, and by one entry
\* only, however often tokens are regenerated.
QRBinding ==
    /\ \A e \in Entries : entry[e].qr <= lastToken
    /\ \A e \in Entries : entry[e].qr # NoToken <=> entry[e].status \in Cleared
    /\ \A e, f \in Entries :
           entry[e].qr = entry[f].qr /\ entry[e].qr # NoToken => e = f

\* Creating an entry and spending its invite are one transaction: an invite
\* that let somebody in is not active any more, and one that is marked used
\* let somebody in.
InviteConsumed ==
    /\ \A e \in Entries :
           entry[e].invite # NoInvite =>
               /\ entry[e].source = "resident_link"
               /\ entry[e].status \in Cleared
               /\ invite[entry[e].invite].status \notin {"none", "active"}
    /\ \A i \in Invites :
           invite[i].status = "used" => \E e \in Entries : entry[e].invite = i

\* Concurrent submissions can use an invite more than once, but never more
\* often than there are requests in flight at a time.
InviteOveruseBounded ==
    \A i \in Invites :
        Cardinality({e \in Entries : entry[e].invite = i}) <= Cardinality(Workers)

\* What a request acts on exists and stays: the entry it decides or moves, the
\* user who decides, the invite it spends or cancels.
Targeted(r) ==
    /\ r.op \in {"approve", "reject", "generate_qr", "check_in", "check_out"} =>
           r.entry \in Entries
    /\ r.op \in {"approve", "reject"} => r.user \in Users
    /\ r.op \in {"submit_invite", "cancel_invite"} =>
           r.invite \in Invites /\ invite[r.invite].status # "none"

(***************************************************************************)
(* Action properties: how stale a check may be when its write lands.       *)
(***************************************************************************)
Created(e) == entry[e].status = "none" /\ entry'[e].status # "none"
Moved(e, from, to) == entry[e].status = from /\ entry'[e].status = to

\* An invite that expired, was used or was cancelled lets nobody in once
\* the request timeout has passed.
InviteStaleUseBounded ==
    [][\A e \in Entries :
           Created(e) /\ entry'[e].invite # NoInvite =>
               LET i == invite[entry'[e].invite] IN
               /\ now <= i.expires + Timeout
               /\ i.status = "active" \/ now <= i.updated + Timeout]_vars

\* A row is in force, or was until at most one request timeout before t.
SettingsSince(s, t) == s = settings \/ t <= settingsUntil[s] + Timeout
RuleSince(r, t)     == r = rule \/ t <= ruleUntil[r] + Timeout

\* An entry is created with the status that two rows give it of which each is in
\* force, or was until at most one request timeout ago.  The two are read by two
\* statements: if both change in between they were never in force together.
StalePolicyBounded ==
    [][\A e \in Entries :
           Created(e) =>
               \E s \in Settings, r \in Rules :
                   /\ SettingsSince(s, now) /\ RuleSince(r, now)
                   /\ Resolve(s, r, entry'[e].source) = entry'[e].status]_vars

HoldsOrJustLost(u, d) == d \in duties[u] \/ now <= lostAt[u][d] + Timeout

\* A user who lost the duty decides nothing, and lets nobody in or out, once
\* the request timeout has passed since.
RevocationBounded ==
    [][\A e \in Entries :
           /\ Moved(e, "waiting_approval", "approved") =>
                  HoldsOrJustLost(entry'[e].approvedBy, "approve")
           /\ Moved(e, "waiting_approval", "rejected") =>
                  HoldsOrJustLost(entry'[e].rejectedBy, "approve")
           /\ Moved(e, "approved", "checked_in") \/ Moved(e, "checked_in", "checked_out") =>
                  HoldsOrJustLost(entry'[e].guard, "guard")]_vars

\* Nobody is let in later than one request timeout after the QR code on the
\* entry expired, even when codes are regenerated meanwhile.
CheckInGrace ==
    [][\A e \in Entries :
           Moved(e, "approved", "checked_in") => now <= entry[e].exp + Timeout]_vars

(***************************************************************************)
(* Refinement: the tables, seen through the statuses, implement the        *)
(* lifecycle of a visit.                                                   *)
(***************************************************************************)
VisitOf(status) ==
    CASE status = "none"             -> "absent"
      [] status = "waiting_approval" -> "pending"
      [] status = "approved"         -> "cleared"
      [] status = "rejected"         -> "refused"
      [] status = "checked_in"       -> "inside"
      [] OTHER                       -> "left"

visitBar == [e \in Entries |-> VisitOf(entry[e].status)]

Lifecycle == INSTANCE VisitorLifecycle WITH Visits <- Entries, visit <- visitBar

\* Every behaviour of the service is a behaviour of VisitorLifecycle.
ImplementsLifecycle == Lifecycle!Spec
=============================================================================
