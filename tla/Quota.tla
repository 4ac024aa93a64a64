------------------------------- MODULE Quota -------------------------------
(***************************************************************************)
(* The subscriptions of one society and the rows their limits count:       *)
(* SubscriptionSvc, and what the flat and member operations add.           *)
(*                                                                         *)
(* checkQuota reads the subscription, then counts, then compares; the rows *)
(* are inserted later, by a statement that does not count again.  Each of  *)
(* the three is a step.  Rows matter by number only: used[k] is what the   *)
(* count of kind k counts, spare[k] the rows of the kind that it does not  *)
(* (inactive flats, suspended and removed members).                        *)
(*                                                                         *)
(* tightened and legit are history: no action reads them.                  *)
(***************************************************************************)
EXTENDS Integers, FiniteSets
LOCAL INSTANCE FiniteSetsExt

CONSTANTS
    Workers,       \* goroutines serving requests
    Subs,          \* ids of society_subscriptions
    Kinds,         \* the kinds of rows that are counted
    Limits,        \* the limits of the plans that can be chosen
    Ends,          \* the ends that are given to subscriptions
    MaxBulk,       \* the most flats a bulk request adds
    MaxRows,       \* bound on the rows of the society
    Timeout,       \* service.DefaultTimeout
    MaxTime        \* bound on the clock

MemberKinds == Kinds \cap {"admins", "staff", "residents"}

\* No ends_at; no deadline; and a time before every time that counts.
NoEnd      == -1
NoDeadline == -1
Never      == -(Timeout + 1)

ASSUME ConstantsOK ==
    /\ IsFiniteSet(Workers)
    /\ Kinds \subseteq {"flats", "admins", "staff", "residents"}
    /\ Limits \subseteq [Kinds -> Nat]
    /\ Ends \subseteq Nat
    /\ MaxBulk \in Nat \ {0} /\ MaxRows \in Nat
    /\ Timeout \in Nat /\ MaxTime \in Nat

VARIABLES
    now,         \* the clock
    sub,         \* society_subscriptions
    used,        \* what CountActive... returns for each kind
    spare,       \* the rows of each kind that it leaves out
    tightened,   \* when there was last more room for the kind
    legit,       \* the most rows that somebody allowed
    req          \* req[w]: the request worker w is serving

tables == <<sub, used, spare>>
vars   == <<now, sub, used, spare, tightened, legit, req>>

-----------------------------------------------------------------------------
NoLimits == [k \in Kinds |-> 0]

\* The status `none' is a row that was never inserted.
SubRow ==
    [status: {"none", "pending", "trial", "active", "expired", "cancelled"},
     limits: [Kinds -> Nat], endsAt: Nat \cup {NoEnd}]

Request ==
    [pc: {"idle", "plan", "count", "commit"}, kind: Kinds \cup {"none"},
     adding: Nat, limit: Nat, deadline: Nat \cup {NoDeadline}]

TypeOK ==
    /\ now \in Nat
    /\ sub \in [Subs -> SubRow]
    /\ used \in [Kinds -> Nat] /\ spare \in [Kinds -> Nat]
    /\ tightened \in [Kinds -> Int] /\ legit \in [Kinds -> Nat]
    /\ req \in [Workers -> Request]

Idle ==
    [pc |-> "idle", kind |-> "none", adding |-> 0, limit |-> 0, deadline |-> NoDeadline]

Init ==
    /\ now = 0
    /\ sub = [s \in Subs |-> [status |-> "none", limits |-> NoLimits, endsAt |-> NoEnd]]
    /\ used = NoLimits /\ spare = NoLimits
    /\ tightened = [k \in Kinds |-> Never] /\ legit = NoLimits
    /\ req = [w \in Workers |-> Idle]

-----------------------------------------------------------------------------
(***************************************************************************)
(* What a subscription allows.                                             *)
(***************************************************************************)
\* IsActiveOnly of GetSubscription: neither starts_at nor trial_ends_at counts.
Live(rows, t) ==
    {s \in Subs : /\ rows[s].status \in {"trial", "active"}
                  /\ rows[s].endsAt = NoEnd \/ rows[s].endsAt > t}

\* The limits in force; nothing is allowed without a subscription.
Cap(rows, t) ==
    IF Live(rows, t) = {} THEN NoLimits
    ELSE rows[CHOOSE s \in Live(rows, t) : TRUE].limits

\* A change of the clock or the tables, with its history: the room for a kind
\* shrinks when a row is added or a lower limit takes effect.
Change(t, rows, use, rest) ==
    /\ now' = t /\ sub' = rows /\ used' = use /\ spare' = rest
    /\ tightened' = [k \in Kinds |->
           IF use[k] > used[k] \/ Cap(rows, t)[k] < Cap(sub, now)[k]
           THEN now ELSE tightened[k]]

Raise(level) ==
    legit' = [k \in Kinds |-> IF level[k] > legit[k] THEN level[k] ELSE legit[k]]

Tick ==
    /\ now < MaxTime
    /\ Change(now + 1, sub, used, spare)
    /\ UNCHANGED <<legit, req>>

-----------------------------------------------------------------------------
(***************************************************************************)
(* Subscriptions: one statement each.  The unique index keeps one of them  *)
(* open: pending, in trial or active.                                      *)
(***************************************************************************)
OpenIn(rows) == {s \in Subs : rows[s].status \in {"pending", "trial", "active"}}

WriteSub(s, from, row) ==
    LET rows == [sub EXCEPT ![s] = row] IN
    /\ sub[s].status \in from
    /\ row.status \in {"pending", "trial", "active"} => OpenIn(rows) \subseteq {s}
    /\ Change(now, rows, used, spare)
    /\ Raise(Cap(rows, now))
    /\ UNCHANGED req

\* The limits are copied from a plan; editing the plan later changes nothing.
CreatePendingSubscription(s, limits) ==
    WriteSub(s, {"none"}, [status |-> "pending", limits |-> limits, endsAt |-> NoEnd])

CreateTrialSubscription(s, limits, ends) ==
    WriteSub(s, {"none"}, [status |-> "trial", limits |-> limits, endsAt |-> ends])

ActivateSubscription(s, ends) ==
    WriteSub(s, {"pending", "trial", "expired"},
             [sub[s] EXCEPT !.status = "active", !.endsAt = ends])

RenewSubscription(s, ends) ==
    WriteSub(s, {"active", "trial", "expired"},
             [sub[s] EXCEPT !.status = "active", !.endsAt = ends])

\* Mutant: a status the schema does not have.
ExpireSubscription_Ended(s) ==
    WriteSub(s, {"trial", "active"}, [sub[s] EXCEPT !.status = "ended"])

CancelSubscription(s) ==
    WriteSub(s, {"pending", "trial", "active", "expired"},
             [sub[s] EXCEPT !.status = "cancelled"])

\* Called by a developer: nothing does it when the subscription ends.
ExpireSubscription(s) ==
    WriteSub(s, {"trial", "active"}, [sub[s] EXCEPT !.status = "expired"])

\* Whatever the status.
ChangeSubscriptionPlan(s, limits) ==
    WriteSub(s, {"pending", "trial", "active", "expired", "cancelled"},
             [sub[s] EXCEPT !.limits = limits])

Subscriptions ==
    \E s \in Subs :
        \/ \E limits \in Limits :
               \/ CreatePendingSubscription(s, limits)
               \/ \E ends \in Ends \cup {NoEnd} : CreateTrialSubscription(s, limits, ends)
               \/ ChangeSubscriptionPlan(s, limits)
        \/ \E ends \in Ends : ActivateSubscription(s, ends) \/ RenewSubscription(s, ends)
        \/ CancelSubscription(s) \/ ExpireSubscription(s)

-----------------------------------------------------------------------------
(***************************************************************************)
(* Rows that come and go without a look at the quota.                      *)
(***************************************************************************)
\* The bound on the rows.
Room(n) == MapThenSumSet(LAMBDA k : used[k] + spare[k], Kinds) + n <= MaxRows

Unchecked(use, rest) ==
    /\ Change(now, sub, use, rest)
    /\ Raise([k \in Kinds |-> IF use[k] > used[k] THEN use[k] ELSE 0])
    /\ UNCHANGED req

\* AddMember for a resident; the owner a society is created with or AddMember
\* gives it, and a transfer of the ownership to somebody who is no member.
AddMemberUnchecked(k) ==
    /\ k \in {"admins", "residents"} /\ Room(1)
    /\ Unchecked([used EXCEPT ![k] = @ + 1], spare)

\* SuspendMember, RemoveMember; DeleteFlat, and UpdateFlat of is_active.
Retire(k) ==
    /\ used[k] > 0
    /\ Unchecked([used EXCEPT ![k] = @ - 1], [spare EXCEPT ![k] = @ + 1])

\* ReactivateMember, and UpdateFlat of is_active.
Reactivate(k) ==
    /\ spare[k] > 0
    /\ Unchecked([used EXCEPT ![k] = @ + 1], [spare EXCEPT ![k] = @ - 1])

\* The role of a member changes, active or not; an active member becomes owner.
ChangeMemberRole(j, k) ==
    /\ j # k
    /\ \/ /\ used[j] > 0
          /\ Unchecked([used EXCEPT ![j] = @ - 1, ![k] = @ + 1], spare)
       \/ /\ spare[j] > 0
          /\ Unchecked(used, [spare EXCEPT ![j] = @ - 1, ![k] = @ + 1])

\* PromoteToOwner makes the new owner active.
TransferOwnership(j) ==
    /\ "admins" \in Kinds \ {j} /\ spare[j] > 0
    /\ Unchecked([used EXCEPT !["admins"] = @ + 1], [spare EXCEPT ![j] = @ - 1])

UncheckedRows ==
    \/ \E k \in Kinds : AddMemberUnchecked(k) \/ Retire(k) \/ Reactivate(k)
    \/ \E j \in MemberKinds :
           TransferOwnership(j) \/ \E k \in MemberKinds : ChangeMemberRole(j, k)

-----------------------------------------------------------------------------
(***************************************************************************)
(* Requests that ask.  The checks in front of checkQuota can only refuse.  *)
(***************************************************************************)
At(w, pc) == req[w].pc = pc /\ now <= req[w].deadline

Proceed(w, r) ==
    /\ req' = [req EXCEPT ![w] = r]
    /\ UNCHANGED <<now, tables, tightened, legit>>

\* CreateFlat and BulkCreateFlats; AddMember for an admin or staff, CreateGuard;
\* AddResidentToFlat and ApproveFlatClaim.
Arrive(w, k, n) ==
    /\ req[w].pc = "idle"
    /\ Proceed(w, [Idle EXCEPT !.pc = "plan", !.kind = k, !.adding = n,
                               !.deadline = now + Timeout])

\* checkQuota, GetActiveSubscriptionBySocietyID.
ReadSubscription(w) ==
    /\ At(w, "plan")
    /\ Live(sub, now) # {}
    /\ Proceed(w, [req[w] EXCEPT !.pc = "count", !.limit = Cap(sub, now)[req[w].kind]])

\* Mutant: what is there is counted, what is to come is forgotten.
CountUsage_NotAdding(w) ==
    /\ At(w, "count")
    /\ used[req[w].kind] <= req[w].limit
    /\ Proceed(w, [req[w] EXCEPT !.pc = "commit", !.limit = 0])

\* Mutant: the comparison is dropped.
CountUsage_Unlimited(w) ==
    /\ At(w, "count")
    /\ Proceed(w, [req[w] EXCEPT !.pc = "commit", !.limit = 0])

\* checkQuota, the count and the comparison.
CountUsage(w) ==
    /\ At(w, "count")
    /\ used[req[w].kind] + req[w].adding <= req[w].limit
    /\ Proceed(w, [req[w] EXCEPT !.pc = "commit", !.limit = 0])

\* Any error return, rollback, deadline or disconnect.
Fail(w) ==
    /\ req[w].pc # "idle"
    /\ Proceed(w, Idle)

CommitAdd(w) ==
    LET k == req[w].kind IN
    /\ At(w, "commit") /\ Room(req[w].adding)
    /\ req' = [req EXCEPT ![w] = Idle]
    /\ Change(now, sub, [used EXCEPT ![k] = @ + req[w].adding], spare)
    /\ UNCHANGED legit

\* UpsertResident finds a member: an active one stays what it is, another one
\* becomes active again in the role it had, which need not be the one counted.
CommitUpsertResident(w) ==
    /\ At(w, "commit") /\ req[w].kind = "residents"
    /\ req' = [req EXCEPT ![w] = Idle]
    /\ \E j \in MemberKinds :
           \/ used[j] > 0 /\ Change(now, sub, used, spare) /\ UNCHANGED legit
           \/ /\ spare[j] > 0
              /\ Change(now, sub, [used EXCEPT ![j] = @ + 1], [spare EXCEPT ![j] = @ - 1])
              /\ Raise([k \in Kinds |->
                     IF k = j /\ j # "residents" THEN used[j] + 1 ELSE 0])

Sizes(k) == IF k = "flats" THEN 1 .. MaxBulk ELSE {1}

-----------------------------------------------------------------------------
Next ==
    \/ Tick \/ Subscriptions \/ UncheckedRows
    \/ \E w \in Workers :
           \/ \E k \in Kinds : \E n \in Sizes(k) : Arrive(w, k, n)
           \/ ReadSubscription(w) \/ CountUsage(w)
           \/ CommitAdd(w) \/ CommitUpsertResident(w) \/ Fail(w)

Spec == Init /\ [][Next]_vars
=============================================================================
