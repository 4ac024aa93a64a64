---------------------------- MODULE QuotaProofs ----------------------------
(***************************************************************************)
(* The properties of the quotas, proved for every value of the constants.  *)
(***************************************************************************)
EXTENDS QuotaProperties, FiniteSetTheorems, TLAPS

USE DEF NoEnd, NoDeadline, Never

\* Every state reached by Change is a state of the tables.
Subscribed(rows) == rows \in [Subs -> SubRow]
Counted(use) == use \in [Kinds -> Nat]

LEMMA CapType ==
    ASSUME NEW rows, Subscribed(rows), NEW t
    PROVE  Cap(rows, t) \in [Kinds -> Nat]
  <1>1. CASE Live(rows, t) = {}
    BY <1>1 DEF Cap, NoLimits
  <1>2. CASE Live(rows, t) # {}
    <2> DEFINE s == CHOOSE s \in Live(rows, t) : TRUE
    <2>1. s \in Live(rows, t)
      BY <1>2
    <2>2. s \in Subs
      BY <2>1 DEF Live
    <2>3. rows[s].limits \in [Kinds -> Nat]
      BY <2>2 DEF Subscribed, SubRow
    <2> QED
      BY <1>2, <2>3 DEF Cap
  <1> QED
    BY <1>1, <1>2

\* A change of the tables keeps the types of all it touches.
LEMMA ChangeType ==
    ASSUME TypeOK, NEW t \in Nat, NEW rows, NEW use, NEW rest,
           Subscribed(rows), Counted(use), Counted(rest), Change(t, rows, use, rest)
    PROVE  /\ now' \in Nat /\ sub' \in [Subs -> SubRow]
           /\ used' \in [Kinds -> Nat] /\ spare' \in [Kinds -> Nat]
           /\ tightened' \in [Kinds -> Int]
  BY DEF TypeOK, Change, Subscribed, Counted

LEMMA RaiseType ==
    ASSUME TypeOK, NEW level \in [Kinds -> Nat], Raise(level)
    PROVE  legit' \in [Kinds -> Nat]
  BY DEF TypeOK, Raise

(***************************************************************************)
(* Types.                                                                  *)
(***************************************************************************)
LEMMA InitType == ASSUME ConstantsOK, Init PROVE TypeOK
  BY DEF ConstantsOK, Init, TypeOK, SubRow, Request, Idle, NoLimits

LEMMA TickType == ASSUME ConstantsOK, TypeOK, Tick PROVE TypeOK'
  <1>1. now + 1 \in Nat /\ Subscribed(sub) /\ Counted(used) /\ Counted(spare)
    BY DEF TypeOK, Subscribed, Counted
  <1>2. Change(now + 1, sub, used, spare) /\ UNCHANGED <<legit, req>>
    BY DEF Tick
  <1> QED
    BY <1>1, <1>2, ChangeType DEF TypeOK

LEMMA WriteSubType ==
    ASSUME TypeOK, NEW s \in Subs, NEW from, NEW row \in SubRow, WriteSub(s, from, row)
    PROVE  TypeOK'
  <1> DEFINE rows == [sub EXCEPT ![s] = row]
  <1>1. Subscribed(rows) /\ Counted(used) /\ Counted(spare) /\ now \in Nat
    BY DEF TypeOK, Subscribed, Counted
  <1>2. Change(now, rows, used, spare) /\ Raise(Cap(rows, now)) /\ UNCHANGED req
    BY DEF WriteSub
  <1> HIDE DEF rows
  <1>3. legit' \in [Kinds -> Nat]
    BY <1>1, <1>2, CapType, RaiseType
  <1> QED
    BY <1>1, <1>2, <1>3, ChangeType DEF TypeOK

LEMMA SubscriptionsType == ASSUME ConstantsOK, TypeOK, Subscriptions PROVE TypeOK'
  <1>1. PICK s \in Subs :
            \/ \E limits \in Limits :
                   \/ CreatePendingSubscription(s, limits)
                   \/ \E ends \in Ends \cup {NoEnd} : CreateTrialSubscription(s, limits, ends)
                   \/ ChangeSubscriptionPlan(s, limits)
            \/ \E ends \in Ends : ActivateSubscription(s, ends) \/ RenewSubscription(s, ends)
            \/ CancelSubscription(s) \/ ExpireSubscription(s)
    BY DEF Subscriptions
  <1>2. sub[s] \in SubRow
    BY DEF TypeOK
  <1>3. ASSUME NEW limits \in Limits, CreatePendingSubscription(s, limits) PROVE TypeOK'
    <2>1. [status |-> "pending", limits |-> limits, endsAt |-> NoEnd] \in SubRow
      BY DEF ConstantsOK, SubRow
    <2> QED
      BY <1>3, <2>1, WriteSubType DEF CreatePendingSubscription
  <1>4. ASSUME NEW limits \in Limits, NEW ends \in Ends \cup {NoEnd},
               CreateTrialSubscription(s, limits, ends)
        PROVE  TypeOK'
    <2>1. [status |-> "trial", limits |-> limits, endsAt |-> ends] \in SubRow
      BY DEF ConstantsOK, SubRow
    <2> QED
      BY <1>4, <2>1, WriteSubType DEF CreateTrialSubscription
  <1>5. ASSUME NEW limits \in Limits, ChangeSubscriptionPlan(s, limits) PROVE TypeOK'
    <2>1. [sub[s] EXCEPT !.limits = limits] \in SubRow
      BY <1>2 DEF ConstantsOK, SubRow
    <2> QED
      BY <1>5, <2>1, WriteSubType DEF ChangeSubscriptionPlan
  <1>6. ASSUME NEW ends \in Ends, ActivateSubscription(s, ends) \/ RenewSubscription(s, ends)
        PROVE  TypeOK'
    <2>1. [sub[s] EXCEPT !.status = "active", !.endsAt = ends] \in SubRow
      BY <1>2 DEF ConstantsOK, SubRow
    <2> QED
      BY <1>6, <2>1, WriteSubType DEF ActivateSubscription, RenewSubscription
  <1>7. CASE CancelSubscription(s)
    <2>1. [sub[s] EXCEPT !.status = "cancelled"] \in SubRow
      BY <1>2 DEF SubRow
    <2> QED
      BY <1>7, <2>1, WriteSubType DEF CancelSubscription
  <1>8. CASE ExpireSubscription(s)
    <2>1. [sub[s] EXCEPT !.status = "expired"] \in SubRow
      BY <1>2 DEF SubRow
    <2> QED
      BY <1>8, <2>1, WriteSubType DEF ExpireSubscription
  <1> QED
    BY <1>1, <1>3, <1>4, <1>5, <1>6, <1>7, <1>8

LEMMA UncheckedType ==
    ASSUME TypeOK, NEW use \in [Kinds -> Nat], NEW rest \in [Kinds -> Nat], Unchecked(use, rest)
    PROVE  TypeOK'
  <1> DEFINE level == [k \in Kinds |-> IF use[k] > used[k] THEN use[k] ELSE 0]
  <1>1. Subscribed(sub) /\ Counted(use) /\ Counted(rest) /\ now \in Nat
    BY DEF TypeOK, Subscribed, Counted
  <1>2. Change(now, sub, use, rest) /\ Raise(level) /\ UNCHANGED req
    BY DEF Unchecked
  <1>3. level \in [Kinds -> Nat]
    OBVIOUS
  <1> HIDE DEF level
  <1>4. legit' \in [Kinds -> Nat]
    BY <1>2, <1>3, RaiseType
  <1> QED
    BY <1>1, <1>2, <1>4, ChangeType DEF TypeOK

LEMMA UncheckedRowsType == ASSUME ConstantsOK, TypeOK, UncheckedRows PROVE TypeOK'
  <1>1. ASSUME NEW k \in Kinds, AddMemberUnchecked(k) PROVE TypeOK'
    <2>1. [used EXCEPT ![k] = @ + 1] \in [Kinds -> Nat] /\ spare \in [Kinds -> Nat]
      BY DEF TypeOK
    <2> QED
      BY <1>1, <2>1, UncheckedType DEF AddMemberUnchecked
  <1>2. ASSUME NEW k \in Kinds, Retire(k) PROVE TypeOK'
    <2>1. used[k] \in Nat \ {0}
      BY <1>2 DEF TypeOK, Retire
    <2>2. /\ [used EXCEPT ![k] = @ - 1] \in [Kinds -> Nat]
          /\ [spare EXCEPT ![k] = @ + 1] \in [Kinds -> Nat]
      BY <2>1 DEF TypeOK
    <2> QED
      BY <1>2, <2>2, UncheckedType DEF Retire
  <1>3. ASSUME NEW k \in Kinds, Reactivate(k) PROVE TypeOK'
    <2>1. spare[k] \in Nat \ {0}
      BY <1>3 DEF TypeOK, Reactivate
    <2>2. /\ [used EXCEPT ![k] = @ + 1] \in [Kinds -> Nat]
          /\ [spare EXCEPT ![k] = @ - 1] \in [Kinds -> Nat]
      BY <2>1 DEF TypeOK
    <2> QED
      BY <1>3, <2>2, UncheckedType DEF Reactivate
  <1>4. ASSUME NEW j \in MemberKinds, NEW k \in MemberKinds, ChangeMemberRole(j, k)
        PROVE  TypeOK'
    <2>1. j \in Kinds /\ k \in Kinds /\ j # k
      BY <1>4 DEF MemberKinds, ChangeMemberRole
    <2>2. CASE used[j] > 0 /\ Unchecked([used EXCEPT ![j] = @ - 1, ![k] = @ + 1], spare)
      <3>1. used[j] - 1 \in Nat /\ used[k] + 1 \in Nat
        BY <2>1, <2>2 DEF TypeOK
      <3>2. [used EXCEPT ![j] = @ - 1, ![k] = @ + 1] \in [Kinds -> Nat]
        BY <2>1, <3>1 DEF TypeOK
      <3> QED
        BY <2>2, <3>2, UncheckedType DEF TypeOK
    <2>3. CASE spare[j] > 0 /\ Unchecked(used, [spare EXCEPT ![j] = @ - 1, ![k] = @ + 1])
      <3>1. spare[j] - 1 \in Nat /\ spare[k] + 1 \in Nat
        BY <2>1, <2>3 DEF TypeOK
      <3>2. [spare EXCEPT ![j] = @ - 1, ![k] = @ + 1] \in [Kinds -> Nat]
        BY <2>1, <3>1 DEF TypeOK
      <3> QED
        BY <2>3, <3>2, UncheckedType DEF TypeOK
    <2> QED
      BY <1>4, <2>2, <2>3 DEF ChangeMemberRole
  <1>5. ASSUME NEW j \in MemberKinds, TransferOwnership(j) PROVE TypeOK'
    <2>1. j \in Kinds /\ "admins" \in Kinds /\ spare[j] > 0
      BY <1>5 DEF MemberKinds, TransferOwnership
    <2>2. /\ [used EXCEPT !["admins"] = @ + 1] \in [Kinds -> Nat]
          /\ [spare EXCEPT ![j] = @ - 1] \in [Kinds -> Nat]
      BY <2>1 DEF TypeOK
    <2> QED
      BY <1>5, <2>2, UncheckedType DEF TransferOwnership
  <1> QED
    BY <1>1, <1>2, <1>3, <1>4, <1>5 DEF UncheckedRows

LEMMA ProceedType ==
    ASSUME TypeOK, NEW w \in Workers, NEW r \in Request, Proceed(w, r)
    PROVE  TypeOK'
  BY DEF TypeOK, Proceed, tables

LEMMA RequestType == ASSUME TypeOK, NEW w \in Workers PROVE req[w] \in Request
  BY DEF TypeOK

\* A request that is being served names a kind that is counted.
Named(r) == r.pc # "idle" => r.kind \in Kinds /\ r.adding \in 1 .. MaxBulk

AllNamed == \A w \in Workers : Named(req[w])

LEMMA ReadType ==
    ASSUME ConstantsOK, TypeOK, AllNamed, NEW w \in Workers,
           \/ \E k \in Kinds : \E n \in Sizes(k) : Arrive(w, k, n)
           \/ ReadSubscription(w) \/ CountUsage(w) \/ Fail(w)
    PROVE  TypeOK'
  <1>1. req[w] \in Request /\ Idle \in Request
    BY RequestType DEF Idle, Request
  <1>2. ASSUME NEW k \in Kinds, NEW n \in Sizes(k), Arrive(w, k, n) PROVE TypeOK'
    <2>1. n \in Nat /\ now + Timeout \in Nat
      BY DEF Sizes, TypeOK, ConstantsOK
    <2> DEFINE r == [Idle EXCEPT !.pc = "plan", !.kind = k, !.adding = n,
                                 !.deadline = now + Timeout]
    <2>2. r \in Request
      BY <2>1 DEF Request, Idle
    <2>3. Proceed(w, r)
      BY <1>2 DEF Arrive
    <2> HIDE DEF r
    <2> QED
      BY <2>2, <2>3, ProceedType
  <1>3. CASE ReadSubscription(w)
    <2>1. req[w].kind \in Kinds
      BY <1>3 DEF AllNamed, Named, ReadSubscription, At
    <2>2. Cap(sub, now)[req[w].kind] \in Nat
      <3>1. Subscribed(sub)
        BY DEF TypeOK, Subscribed
      <3>2. Cap(sub, now) \in [Kinds -> Nat]
        BY <3>1, CapType
      <3> QED
        BY <2>1, <3>2
    <2> DEFINE r == [req[w] EXCEPT !.pc = "count", !.limit = Cap(sub, now)[req[w].kind]]
    <2>3. r \in Request
      BY <1>1, <2>2 DEF Request
    <2>4. Proceed(w, r)
      BY <1>3 DEF ReadSubscription
    <2> HIDE DEF r
    <2> QED
      BY <2>3, <2>4, ProceedType
  <1>4. CASE CountUsage(w)
    <2>1. [req[w] EXCEPT !.pc = "commit", !.limit = 0] \in Request
      BY <1>1 DEF Request
    <2> QED
      BY <1>4, <2>1, ProceedType DEF CountUsage
  <1>5. CASE Fail(w)
    BY <1>1, <1>5, ProceedType DEF Fail
  <1> QED
    BY <1>2, <1>3, <1>4, <1>5

LEMMA CommitType ==
    ASSUME ConstantsOK, TypeOK, AllNamed, NEW w \in Workers,
           CommitAdd(w) \/ CommitUpsertResident(w)
    PROVE  TypeOK'
  <1>1. req' \in [Workers -> Request]
    <2>1. Idle \in Request
      BY DEF Idle, Request
    <2>2. req' = [req EXCEPT ![w] = Idle]
      BY DEF CommitAdd, CommitUpsertResident
    <2> QED
      BY <2>1, <2>2 DEF TypeOK
  <1>2. Subscribed(sub) /\ Counted(used) /\ Counted(spare) /\ now \in Nat
    BY DEF TypeOK, Subscribed, Counted
  <1>3. CASE CommitAdd(w)
    <2>1. PICK k \in Kinds : k = req[w].kind
      BY <1>3 DEF AllNamed, Named, CommitAdd, At
    <2>2. PICK n \in Nat : n = req[w].adding
      BY RequestType DEF Request
    <2> DEFINE use == [used EXCEPT ![k] = @ + n]
    <2>3. Counted(use)
      BY DEF TypeOK, Counted
    <2>4. Change(now, sub, use, spare) /\ UNCHANGED legit
      BY <1>3, <2>1, <2>2 DEF CommitAdd
    <2> HIDE DEF use
    <2> QED
      BY <1>1, <1>2, <2>3, <2>4, ChangeType DEF TypeOK
  <1>4. CASE CommitUpsertResident(w)
    <2>1. PICK j \in MemberKinds :
              \/ used[j] > 0 /\ Change(now, sub, used, spare) /\ UNCHANGED legit
              \/ /\ spare[j] > 0
                 /\ Change(now, sub, [used EXCEPT ![j] = @ + 1], [spare EXCEPT ![j] = @ - 1])
                 /\ Raise([k \in Kinds |->
                        IF k = j /\ j # "residents" THEN used[j] + 1 ELSE 0])
      BY <1>4 DEF CommitUpsertResident
    <2>2. CASE Change(now, sub, used, spare) /\ UNCHANGED legit
      BY <1>1, <1>2, <2>2, ChangeType DEF TypeOK
    <2> DEFINE use   == [used EXCEPT ![j] = @ + 1]
               rest  == [spare EXCEPT ![j] = @ - 1]
               level == [k \in Kinds |-> IF k = j /\ j # "residents" THEN used[j] + 1 ELSE 0]
    <2>3. CASE spare[j] > 0 /\ Change(now, sub, use, rest) /\ Raise(level)
      <3>1. j \in Kinds
        BY DEF MemberKinds
      <3>2. Counted(use) /\ Counted(rest) /\ level \in [Kinds -> Nat]
        BY <2>3, <3>1 DEF TypeOK, Counted
      <3>3. Change(now, sub, use, rest) /\ Raise(level)
        BY <2>3
      <3> HIDE DEF use, rest, level
      <3>4. legit' \in [Kinds -> Nat]
        BY <3>2, <3>3, RaiseType
      <3> QED
        BY <1>1, <1>2, <3>2, <3>3, <3>4, ChangeType DEF TypeOK
    <2> QED
      BY <2>1, <2>2, <2>3
  <1> QED
    BY <1>3, <1>4

\* The clock, the subscriptions and the unchecked rows leave requests alone.
LEMMA SilentRequests ==
    ASSUME Tick \/ Subscriptions \/ UncheckedRows PROVE req' = req
  BY DEF Tick, Subscriptions, WriteSub, CreatePendingSubscription, CreateTrialSubscription,
         ActivateSubscription, RenewSubscription, CancelSubscription, ExpireSubscription,
         ChangeSubscriptionPlan, UncheckedRows, Unchecked, AddMemberUnchecked, Retire,
         Reactivate, ChangeMemberRole, TransferOwnership

\* The steps of a request.
Serve(w) ==
    \/ \E k \in Kinds : \E n \in Sizes(k) : Arrive(w, k, n)
    \/ ReadSubscription(w) \/ CountUsage(w)
    \/ CommitAdd(w) \/ CommitUpsertResident(w) \/ Fail(w)

LEMMA NextCases ==
    ASSUME Next
    PROVE  Tick \/ Subscriptions \/ UncheckedRows \/ \E w \in Workers : Serve(w)
  BY DEF Next, Serve

LEMMA TypeStep == ASSUME ConstantsOK, TypeOK, AllNamed, [Next]_vars PROVE TypeOK'
  <1>1. CASE UNCHANGED vars
    BY <1>1 DEF TypeOK, vars
  <1>2. ASSUME NEW w \in Workers, Serve(w) PROVE TypeOK'
    BY <1>2, ReadType, CommitType DEF Serve
  <1> QED
    BY <1>1, <1>2, NextCases, TickType, SubscriptionsType, UncheckedRowsType

\* A step of a request replaces it, and keeps it named.
LEMMA ServeNamed ==
    ASSUME ConstantsOK, TypeOK, AllNamed, NEW w \in Workers, Serve(w)
    PROVE  \E r : Named(r) /\ req' = [req EXCEPT ![w] = r]
  <1>1. Named(Idle) /\ Named(req[w]) /\ req[w] \in Request
    BY RequestType DEF Named, Idle, AllNamed
  <1>2. ASSUME NEW k \in Kinds, NEW n \in Sizes(k), Arrive(w, k, n)
        PROVE  \E r : Named(r) /\ req' = [req EXCEPT ![w] = r]
    <2>1. n \in 1 .. MaxBulk
      BY DEF Sizes, ConstantsOK
    <2> DEFINE r == [Idle EXCEPT !.pc = "plan", !.kind = k, !.adding = n,
                                 !.deadline = now + Timeout]
    <2>2. Named(r)
      BY <2>1 DEF Named, Idle
    <2>3. req' = [req EXCEPT ![w] = r]
      BY <1>2 DEF Arrive, Proceed
    <2> QED
      BY <2>2, <2>3
  <1>3. CASE ReadSubscription(w)
    <2> DEFINE r == [req[w] EXCEPT !.pc = "count", !.limit = Cap(sub, now)[req[w].kind]]
    <2>1. Named(r)
      BY <1>1, <1>3 DEF Named, ReadSubscription, At, Request
    <2>2. req' = [req EXCEPT ![w] = r]
      BY <1>3 DEF ReadSubscription, Proceed
    <2> QED
      BY <2>1, <2>2
  <1>4. CASE CountUsage(w)
    <2> DEFINE r == [req[w] EXCEPT !.pc = "commit", !.limit = 0]
    <2>1. Named(r)
      BY <1>1, <1>4 DEF Named, CountUsage, At, Request
    <2>2. req' = [req EXCEPT ![w] = r]
      BY <1>4 DEF CountUsage, Proceed
    <2> QED
      BY <2>1, <2>2
  <1>5. CASE CommitAdd(w) \/ CommitUpsertResident(w) \/ Fail(w)
    BY <1>1, <1>5 DEF CommitAdd, CommitUpsertResident, Fail, Proceed
  <1> QED
    BY <1>2, <1>3, <1>4, <1>5 DEF Serve

LEMMA NamedStep == ASSUME ConstantsOK, TypeOK, AllNamed, [Next]_vars PROVE AllNamed'
  <1>1. CASE req' = req
    BY <1>1 DEF AllNamed
  <1>2. ASSUME NEW w \in Workers, Serve(w) PROVE AllNamed'
    <2>1. PICK r : Named(r) /\ req' = [req EXCEPT ![w] = r]
      BY <1>2, ServeNamed
    <2>2. \A v \in Workers : Named(req'[v])
      BY <2>1 DEF AllNamed, TypeOK
    <2> QED
      BY <2>2 DEF AllNamed
  <1> QED
    BY <1>1, <1>2, NextCases, SilentRequests DEF vars

\* The tables are typed and every request names what it adds.
TypeInv == TypeOK /\ AllNamed

\* Every reachable state is typed, for every value of the constants: no limit
\* is undefined and no count is negative, whatever the requests, the plan
\* changes and the unchecked rows do.
THEOREM TypeCorrect == Spec => []TypeOK
  <1>1. Init => TypeInv
    BY ConstantsOK, InitType DEF TypeInv, Init, AllNamed, Named, Idle
  <1>2. TypeInv /\ [Next]_vars => TypeInv'
    BY ConstantsOK, TypeStep, NamedStep DEF TypeInv
  <1>3. TypeInv => TypeOK
    BY DEF TypeInv
  <1> QED
    BY <1>1, <1>2, <1>3, PTL DEF Spec

(***************************************************************************)
(* How a step changes the room for a kind.                                 *)
(***************************************************************************)
\* Less room for a kind is noted, at the time of the step that left it.
Effect ==
    /\ now <= now'
    /\ \A k \in Kinds :
          \/ tightened'[k] = now
          \/ /\ tightened'[k] = tightened[k] /\ used'[k] <= used[k]
             /\ Cap(sub, now)[k] <= Cap(sub', now')[k]

LEMMA CapNat ==
    ASSUME TypeOK, NEW k \in Kinds PROVE Cap(sub, now)[k] \in Nat
  <1>1. Subscribed(sub)
    BY DEF TypeOK, Subscribed
  <1> QED
    BY <1>1, CapType

LEMMA ChangeEffect ==
    ASSUME TypeOK, NEW t \in Nat, now <= t, NEW rows, NEW use, NEW rest,
           Subscribed(rows), Counted(use), Change(t, rows, use, rest)
    PROVE  Effect
  <1>1. now' = t /\ sub' = rows /\ used' = use
    BY DEF Change
  <1>2. tightened' = [k \in Kinds |->
            IF use[k] > used[k] \/ Cap(rows, t)[k] < Cap(sub, now)[k]
            THEN now ELSE tightened[k]]
    BY DEF Change
  <1>3. ASSUME NEW k \in Kinds
        PROVE  \/ tightened'[k] = now
               \/ /\ tightened'[k] = tightened[k] /\ used'[k] <= used[k]
                  /\ Cap(sub, now)[k] <= Cap(sub', now')[k]
    <2>1. PICK new \in Nat : new = Cap(rows, t)[k]
      BY CapType
    <2>2. PICK old \in Nat : old = Cap(sub, now)[k]
      BY CapNat
    <2>3. use[k] \in Nat /\ used[k] \in Nat
      BY DEF TypeOK, Counted
    <2>4. Cap(sub', now')[k] = new
      BY <1>1, <2>1
    <2> QED
      BY <1>1, <1>2, <2>1, <2>2, <2>3, <2>4
  <1> QED
    BY <1>1, <1>3 DEF Effect

\* A step that leaves the tables and the clock alone.
LEMMA QuietEffect ==
    ASSUME TypeOK, UNCHANGED <<now, tables, tightened>> PROVE Effect
  <1>1. now' = now /\ sub' = sub /\ used' = used /\ tightened' = tightened
    BY DEF tables
  <1>2. ASSUME NEW k \in Kinds PROVE Cap(sub, now)[k] <= Cap(sub', now')[k]
    BY <1>1, CapNat
  <1> QED
    BY <1>1, <1>2 DEF Effect, TypeOK

LEMMA StepEffect == ASSUME ConstantsOK, TypeInv, [Next]_vars PROVE Effect
  <1>1. TypeOK /\ TypeOK' /\ now \in Nat
    BY TypeStep DEF TypeInv, TypeOK
  <1>2. Subscribed(sub') /\ Counted(used')
    BY <1>1 DEF TypeOK, Subscribed, Counted
  <1>3. ASSUME NEW t \in Nat, now <= t, NEW rows, NEW use, NEW rest, Change(t, rows, use, rest)
        PROVE  Effect
    <2>1. Subscribed(rows) /\ Counted(use)
      BY <1>2, <1>3 DEF Change
    <2> QED
      BY <1>1, <1>3, <2>1, ChangeEffect
  <1>4. CASE Tick
    BY <1>1, <1>3, <1>4 DEF Tick
  <1>5. ASSUME NEW s, NEW from, NEW row, WriteSub(s, from, row) PROVE Effect
    BY <1>1, <1>3, <1>5 DEF WriteSub
  <1>6. CASE Subscriptions
    BY <1>5, <1>6
       DEF Subscriptions, CreatePendingSubscription, CreateTrialSubscription,
           ActivateSubscription, RenewSubscription, CancelSubscription, ExpireSubscription,
           ChangeSubscriptionPlan
  <1>7. ASSUME NEW use, NEW rest, Unchecked(use, rest) PROVE Effect
    BY <1>1, <1>3, <1>7 DEF Unchecked
  <1>8. CASE UncheckedRows
    BY <1>7, <1>8
       DEF UncheckedRows, AddMemberUnchecked, Retire, Reactivate, ChangeMemberRole,
           TransferOwnership
  <1>9. ASSUME NEW w \in Workers, Serve(w) PROVE Effect
    <2>1. CASE CommitAdd(w) \/ CommitUpsertResident(w)
      <3>1. PICK use, rest : Change(now, sub, use, rest)
        BY <2>1 DEF CommitAdd, CommitUpsertResident
      <3> QED
        BY <1>1, <1>3, <3>1
    <2>2. ASSUME NEW r, Proceed(w, r) PROVE Effect
      BY <1>1, <2>2, QuietEffect DEF Proceed
    <2> QED
      BY <1>9, <2>1, <2>2 DEF Serve, Arrive, ReadSubscription, CountUsage, Fail
  <1>10. CASE UNCHANGED vars
    BY <1>1, <1>10, QuietEffect DEF vars, tables
  <1> QED
    BY <1>4, <1>6, <1>8, <1>9, <1>10, NextCases

(***************************************************************************)
(* The age of an answer of checkQuota.                                     *)
(***************************************************************************)
\* The request was overtaken: there was less room while it was being served.
Overtaken(r, tight) == r.deadline <= tight[r.kind] + Timeout

\* What a request knows, and what it has concluded, holds unless overtaken.
Sound(r, use, cap, tight, t) ==
    r.pc # "idle" =>
        /\ r.deadline <= t + Timeout
        /\ r.pc = "count" => r.limit <= cap[r.kind] \/ Overtaken(r, tight)
        /\ r.pc = "commit" => use[r.kind] + r.adding <= cap[r.kind] \/ Overtaken(r, tight)

Past == \A k \in Kinds : tightened[k] <= now

AllSound == \A w \in Workers : Sound(req[w], used, Cap(sub, now), tightened, now)

GraceInv == Past /\ AllSound

LEMMA SoundIdle == \A use, cap, tight, t : Sound(Idle, use, cap, tight, t)
  BY DEF Sound, Idle

LEMMA PastStep == ASSUME TypeOK, TypeOK', Effect, Past PROVE Past'
  <1>1. ASSUME NEW k \in Kinds PROVE tightened'[k] <= now'
    BY DEF TypeOK, Effect, Past
  <1> QED
    BY <1>1 DEF Past

\* A request that does not move stays sound.
LEMMA SoundKept ==
    ASSUME TypeOK, TypeOK', Effect, Past, NEW r \in Request, Named(r),
           Sound(r, used, Cap(sub, now), tightened, now)
    PROVE  Sound(r, used', Cap(sub', now'), tightened', now')
  <1>1. CASE r.pc = "idle"
    BY <1>1 DEF Sound
  <1>2. CASE r.pc # "idle"
    <2>1. PICK k \in Kinds : k = r.kind
      BY <1>2 DEF Named
    <2>2. r.deadline \in Int /\ r.limit \in Nat /\ r.adding \in Nat
      BY DEF Request
    <2>3. PICK old \in Nat : old = Cap(sub, now)[k]
      BY CapNat
    <2>4. PICK new \in Nat : new = Cap(sub', now')[k]
      <3>1. Subscribed(sub')
        BY DEF TypeOK, Subscribed
      <3>2. Cap(sub', now') \in [Kinds -> Nat]
        BY <3>1, CapType
      <3> QED
        BY <3>2
    <2>5. /\ used[k] \in Nat /\ used'[k] \in Nat /\ now \in Nat /\ now' \in Nat
          /\ tightened[k] \in Int /\ tightened'[k] \in Int /\ Timeout \in Nat
      BY ConstantsOK DEF TypeOK, ConstantsOK
    <2>6. now <= now' /\ tightened[k] <= now
      BY DEF Effect, Past
    <2>7. \/ tightened'[k] = now
          \/ tightened'[k] = tightened[k] /\ used'[k] <= used[k] /\ old <= new
      BY <2>3, <2>4 DEF Effect
    <2>8. /\ r.deadline <= now + Timeout
          /\ r.pc = "count" => r.limit <= old \/ r.deadline <= tightened[k] + Timeout
          /\ r.pc = "commit" => used[k] + r.adding <= old \/ r.deadline <= tightened[k] + Timeout
      BY <1>2, <2>1, <2>3 DEF Sound, Overtaken
    <2>9. /\ r.deadline <= now' + Timeout
          /\ r.pc = "count" => r.limit <= new \/ r.deadline <= tightened'[k] + Timeout
          /\ r.pc = "commit" => used'[k] + r.adding <= new \/ r.deadline <= tightened'[k] + Timeout
      BY <2>2, <2>5, <2>6, <2>7, <2>8
    <2> QED
      BY <2>1, <2>4, <2>9 DEF Sound, Overtaken
  <1> QED
    BY <1>1, <1>2

\* Each step of a request leaves it sound.
LEMMA ServeSound ==
    ASSUME ConstantsOK, TypeInv, GraceInv, NEW w \in Workers, Serve(w)
    PROVE  Sound(req'[w], used', Cap(sub', now'), tightened', now')
  <1>1. req[w] \in Request /\ Named(req[w]) /\ now \in Nat /\ Timeout \in Nat
    BY RequestType DEF TypeInv, AllNamed, TypeOK, ConstantsOK
  <1>2. req \in [Workers -> Request]
    BY DEF TypeInv, TypeOK
  <1>3. Sound(req[w], used, Cap(sub, now), tightened, now)
    BY DEF GraceInv, AllSound
  <1>4. ASSUME NEW k \in Kinds, NEW n \in Sizes(k), Arrive(w, k, n)
        PROVE  Sound(req'[w], used', Cap(sub', now'), tightened', now')
    <2>1. req'[w].pc = "plan" /\ req'[w].deadline = now + Timeout /\ now' = now
      BY <1>2, <1>4 DEF Arrive, Proceed, Idle
    <2> QED
      BY <1>1, <2>1 DEF Sound
  <1>5. CASE ReadSubscription(w)
    <2>1. /\ req'[w] = [req[w] EXCEPT !.pc = "count", !.limit = Cap(sub, now)[req[w].kind]]
          /\ now' = now /\ sub' = sub
      BY <1>2, <1>5 DEF ReadSubscription, Proceed, tables
    <2>2. req[w].kind \in Kinds /\ req[w].deadline <= now + Timeout
      BY <1>1, <1>3, <1>5 DEF Named, ReadSubscription, At, Sound
    <2>3. Cap(sub, now)[req[w].kind] \in Nat
      BY <2>2, CapNat DEF TypeInv
    <2>4. /\ req'[w].pc = "count" /\ req'[w].kind = req[w].kind
          /\ req'[w].deadline = req[w].deadline
          /\ req'[w].limit = Cap(sub, now)[req[w].kind]
      BY <1>1, <2>1 DEF Request
    <2> QED
      BY <2>1, <2>2, <2>3, <2>4 DEF Sound
  <1>6. CASE CountUsage(w)
    <2>1. /\ req'[w] = [req[w] EXCEPT !.pc = "commit", !.limit = 0]
          /\ now' = now /\ sub' = sub /\ used' = used /\ tightened' = tightened
      BY <1>2, <1>6 DEF CountUsage, Proceed, tables
    <2>2. PICK k \in Kinds : k = req[w].kind
      BY <1>1, <1>6 DEF Named, CountUsage, At
    <2>3. PICK cap \in Nat : cap = Cap(sub, now)[k]
      BY CapNat DEF TypeInv
    <2>4. /\ used[k] + req[w].adding <= req[w].limit
          /\ req[w].deadline <= now + Timeout
          /\ req[w].limit <= cap \/ req[w].deadline <= tightened[k] + Timeout
      BY <1>3, <1>6, <2>2, <2>3 DEF CountUsage, At, Sound, Overtaken
    <2>5. used[k] \in Nat /\ req[w].adding \in Nat /\ req[w].limit \in Nat
      BY <1>1 DEF TypeInv, TypeOK, Request
    <2>6. used[k] + req[w].adding <= cap \/ req[w].deadline <= tightened[k] + Timeout
      BY <2>4, <2>5
    <2>7. /\ req'[w].pc = "commit" /\ req'[w].kind = k
          /\ req'[w].deadline = req[w].deadline /\ req'[w].adding = req[w].adding
      BY <1>1, <2>1, <2>2 DEF Request
    <2> QED
      BY <2>1, <2>3, <2>4, <2>6, <2>7 DEF Sound, Overtaken
  <1>7. CASE CommitAdd(w) \/ CommitUpsertResident(w) \/ Fail(w)
    <2>1. req'[w] = Idle
      BY <1>2, <1>7 DEF CommitAdd, CommitUpsertResident, Fail, Proceed
    <2> QED
      BY <2>1, SoundIdle
  <1> QED
    BY <1>4, <1>5, <1>6, <1>7 DEF Serve

\* A step moves at most one request.
LEMMA OneMoves ==
    ASSUME ConstantsOK, TypeInv, [Next]_vars, NEW w \in Workers
    PROVE  req'[w] = req[w] \/ Serve(w)
  <1>1. CASE req' = req
    BY <1>1
  <1>2. ASSUME NEW v \in Workers, Serve(v), v # w PROVE req'[w] = req[w]
    <2>1. PICK r : req' = [req EXCEPT ![v] = r]
      BY <1>2, ServeNamed DEF TypeInv
    <2> QED
      BY <1>2, <2>1 DEF TypeInv, TypeOK
  <1> QED
    BY <1>1, <1>2, NextCases, SilentRequests DEF vars

LEMMA GraceStep ==
    ASSUME ConstantsOK, TypeInv, GraceInv, [Next]_vars PROVE GraceInv'
  <1>1. TypeOK /\ TypeOK' /\ Effect /\ Past
    BY TypeStep, StepEffect DEF TypeInv, GraceInv
  <1>2. Past'
    BY <1>1, PastStep
  <1>3. ASSUME NEW w \in Workers
        PROVE  Sound(req'[w], used', Cap(sub', now'), tightened', now')
    <2>1. CASE req'[w] = req[w]
      <3>1. PICK r \in Request : r = req[w]
        BY <1>1, RequestType
      <3>2. Named(r) /\ Sound(r, used, Cap(sub, now), tightened, now)
        BY <3>1 DEF TypeInv, AllNamed, GraceInv, AllSound
      <3>3. Sound(r, used', Cap(sub', now'), tightened', now')
        BY <1>1, <3>2, SoundKept
      <3> QED
        BY <2>1, <3>1, <3>3
    <2>2. CASE Serve(w)
      BY <2>2, ServeSound
    <2> QED
      BY <2>1, <2>2, OneMoves
  <1> QED
    BY <1>2, <1>3 DEF GraceInv, AllSound

\* One step: a request that adds is sound, so it adds within the limits.
LEMMA AddsWithin ==
    ASSUME ConstantsOK, TypeInv, GraceInv, [Next]_vars, NEW w \in Workers,
           req[w].pc = "commit", req'[w] = Idle, used'[req[w].kind] > used[req[w].kind]
    PROVE  \/ used'[req[w].kind] <= Cap(sub, now)[req[w].kind]
           \/ now <= tightened[req[w].kind] + Timeout
  <1>1. PICK k \in Kinds : k = req[w].kind
    BY DEF TypeInv, AllNamed, Named
  <1>2. PICK n \in 1 .. MaxBulk : n = req[w].adding
    BY DEF TypeInv, AllNamed, Named
  <1>3. used \in [Kinds -> Nat] /\ now \in Nat /\ req[w] \in Request /\ tightened[k] \in Int
    BY RequestType DEF TypeInv, TypeOK
  <1>4. PICK cap \in Nat : cap = Cap(sub, now)[k]
    BY CapNat DEF TypeInv
  <1>5. Serve(w)
    <2>1. req'[w] # req[w]
      BY DEF Idle
    <2> QED
      BY <2>1, OneMoves
  <1>6. used'[k] <= used[k] + n /\ now <= req[w].deadline
    <2>1. CASE CommitAdd(w)
      BY <1>1, <1>2, <1>3, <2>1 DEF CommitAdd, Change, At
    <2>2. CASE CommitUpsertResident(w)
      <3>1. PICK m \in Nat : m = used[k]
        BY <1>3
      <3>2. used'[k] = m \/ used'[k] = m + 1
        BY <1>3, <2>2, <3>1 DEF CommitUpsertResident, Change
      <3> QED
        BY <1>1, <1>2, <2>2, <3>1, <3>2 DEF CommitUpsertResident, At
    <2>3. CASE ~ CommitAdd(w) /\ ~ CommitUpsertResident(w)
      <3>1. used' = used
        BY <1>5, <2>3
           DEF Serve, Arrive, ReadSubscription, CountUsage, Fail, Proceed, tables
      <3> QED
        BY <1>1, <1>3, <3>1
    <2> QED
      BY <2>1, <2>2, <2>3
  <1>7. used[k] + n <= cap \/ req[w].deadline <= tightened[k] + Timeout
    BY <1>1, <1>2, <1>4 DEF GraceInv, AllSound, Sound, Overtaken
  <1>8. used'[k] \in Nat /\ used[k] \in Nat /\ n \in Nat /\ req[w].deadline \in Int /\ Timeout \in Nat
    BY <1>3, TypeStep DEF TypeInv, TypeOK, Request, ConstantsOK
  <1>9. used'[k] <= cap \/ now <= tightened[k] + Timeout
    BY <1>3, <1>6, <1>7, <1>8
  <1> QED
    BY <1>1, <1>4, <1>9

\* checkQuota reads the subscription and the count in two statements and the
\* insert comes later: for every timeout, every number of requests and every
\* schedule, a row is added within the limits in force, or the room shrank
\* while the request was being served.
THEOREM AnswersStayFresh == Spec => QuotaGrace
  <1>1. Init => TypeInv /\ GraceInv
    <2>1. ASSUME Init PROVE TypeInv
      BY <2>1, ConstantsOK, InitType DEF TypeInv, Init, AllNamed, Named, Idle
    <2>2. ASSUME Init PROVE Past
      BY <2>2, ConstantsOK DEF Init, Past, ConstantsOK
    <2>3. ASSUME Init PROVE AllSound
      BY <2>3, SoundIdle DEF Init, AllSound
    <2> QED
      BY <2>1, <2>2, <2>3 DEF GraceInv
  <1>2. TypeInv /\ GraceInv /\ [Next]_vars => (TypeInv /\ GraceInv)'
    <2>1. TypeInv /\ GraceInv /\ [Next]_vars => TypeInv'
      BY ConstantsOK, TypeStep, NamedStep DEF TypeInv
    <2>2. TypeInv /\ GraceInv /\ [Next]_vars => GraceInv'
      BY ConstantsOK, GraceStep
    <2> QED
      BY <2>1, <2>2
  <1>3. TypeInv /\ GraceInv /\ [Next]_vars
        => [\A w \in Workers :
               LET k == req[w].kind IN
               req[w].pc = "commit" /\ req'[w] = Idle /\ used'[k] > used[k]
                   => used'[k] <= Cap(sub, now)[k] \/ now <= tightened[k] + Timeout]_vars
    BY ConstantsOK, AddsWithin
  <1> QED
    BY <1>1, <1>2, <1>3, PTL DEF Spec, QuotaGrace

(***************************************************************************)
(* How far the rows can exceed what was allowed.                           *)
(***************************************************************************)
\* What was allowed is never forgotten.
LEMMA LegitGrows ==
    ASSUME ConstantsOK, TypeInv, [Next]_vars, NEW k \in Kinds PROVE legit[k] <= legit'[k]
  <1>1. legit \in [Kinds -> Nat]
    BY DEF TypeInv, TypeOK
  <1>2. ASSUME NEW level \in [Kinds -> Nat], Raise(level) PROVE legit[k] <= legit'[k]
    BY <1>1, <1>2 DEF Raise
  <1>3. CASE legit' = legit
    BY <1>1, <1>3
  <1>4. CASE Subscriptions
    <2>1. PICK level : Raise(level)
      BY <1>4
         DEF Subscriptions, WriteSub, CreatePendingSubscription, CreateTrialSubscription,
             ActivateSubscription, RenewSubscription, CancelSubscription,
             ExpireSubscription, ChangeSubscriptionPlan
    <2> QED
      BY <1>1, <2>1, TypeStep DEF TypeInv, TypeOK, Raise
  <1>5. CASE UncheckedRows
    <2>1. PICK level : Raise(level)
      BY <1>5
         DEF UncheckedRows, Unchecked, AddMemberUnchecked, Retire, Reactivate,
             ChangeMemberRole, TransferOwnership
    <2> QED
      BY <1>1, <2>1, TypeStep DEF TypeInv, TypeOK, Raise
  <1>6. ASSUME NEW w \in Workers, Serve(w) PROVE legit[k] <= legit'[k]
    <2>1. legit' = legit \/ \E level : Raise(level)
      BY <1>6
         DEF Serve, Arrive, ReadSubscription, CountUsage, Fail, Proceed, CommitAdd,
             CommitUpsertResident
    <2> QED
      BY <1>1, <2>1, TypeStep DEF TypeInv, TypeOK, Raise
  <1> QED
    BY <1>3, <1>4, <1>5, <1>6, NextCases DEF vars, Tick

\* The unique index: one subscription is open.
OneOpen == \A s, t \in OpenIn(sub) : s = t

LEMMA WriteOpen ==
    ASSUME TypeOK, OneOpen, NEW s \in Subs, NEW from, NEW row, WriteSub(s, from, row)
    PROVE  OneOpen'
  <1>1. sub' = [sub EXCEPT ![s] = row] /\ sub \in [Subs -> SubRow]
    BY DEF WriteSub, Change, TypeOK
  <1>2. CASE row.status \in {"pending", "trial", "active"}
    BY <1>1, <1>2 DEF WriteSub, OneOpen, OpenIn
  <1>3. CASE row.status \notin {"pending", "trial", "active"}
    <2>1. ASSUME NEW t \in OpenIn(sub') PROVE t \in OpenIn(sub)
      BY <1>1, <1>3 DEF OpenIn
    <2> QED
      BY <2>1 DEF OneOpen
  <1> QED
    BY <1>2, <1>3

LEMMA OpenStep == ASSUME ConstantsOK, TypeInv, OneOpen, [Next]_vars PROVE OneOpen'
  <1>1. CASE sub' = sub
    BY <1>1 DEF OneOpen, OpenIn
  <1>2. CASE Subscriptions
    BY <1>2, WriteOpen
       DEF TypeInv, Subscriptions, CreatePendingSubscription, CreateTrialSubscription,
           ActivateSubscription, RenewSubscription, CancelSubscription,
           ExpireSubscription, ChangeSubscriptionPlan
  <1>3. Tick \/ UncheckedRows => sub' = sub
    BY DEF Tick, Change, UncheckedRows, Unchecked, AddMemberUnchecked, Retire, Reactivate,
           ChangeMemberRole, TransferOwnership
  <1>4. ASSUME NEW w \in Workers, Serve(w) PROVE sub' = sub
    BY <1>4 DEF Serve, Arrive, ReadSubscription, CountUsage, Fail, Proceed, tables,
                CommitAdd, CommitUpsertResident, Change
  <1> QED
    BY <1>1, <1>2, <1>3, <1>4, NextCases DEF vars

\* What is in force was allowed, and so is what a request has read of it.
CapAllowed == \A k \in Kinds : Cap(sub, now)[k] <= legit[k]

LimitsAllowed ==
    \A w \in Workers : req[w].pc = "count" => req[w].limit <= legit[req[w].kind]

\* With the time the limits in force are lost, not replaced.
LEMMA CapLater ==
    ASSUME OneOpen, NEW t \in Int, NEW u \in Int, t <= u, sub \in [Subs -> SubRow]
    PROVE  Cap(sub, u) = Cap(sub, t) \/ Cap(sub, u) = NoLimits
  <1>1. CASE Live(sub, u) = {}
    BY <1>1 DEF Cap
  <1>2. CASE Live(sub, u) # {}
    <2>1. PICK s \in Live(sub, u) : TRUE
      BY <1>2
    <2>2. ASSUME NEW s2 \in Live(sub, u) PROVE s2 \in Live(sub, t)
      BY DEF Live, SubRow
    <2>3. ASSUME NEW s2 \in Live(sub, t) PROVE s2 = s
      <3>1. s2 \in OpenIn(sub) /\ s \in OpenIn(sub)
        BY <2>1 DEF OpenIn, Live
      <3> QED
        BY <3>1 DEF OneOpen
    <2>4. Live(sub, t) = {s} /\ Live(sub, u) = {s}
      BY <2>1, <2>2, <2>3
    <2> QED
      BY <2>4 DEF Cap
  <1> QED
    BY <1>1, <1>2

LEMMA CapStep ==
    ASSUME ConstantsOK, TypeInv, OneOpen, CapAllowed, [Next]_vars PROVE CapAllowed'
  <1>1. TypeOK /\ legit \in [Kinds -> Nat] /\ legit' \in [Kinds -> Nat]
    BY TypeStep DEF TypeInv, TypeOK
  <1>2. CASE sub' = sub /\ now' = now
    <2>1. ASSUME NEW k \in Kinds PROVE Cap(sub', now')[k] <= legit'[k]
      <3>1. Cap(sub, now)[k] \in Nat /\ Cap(sub, now)[k] <= legit[k] /\ legit[k] <= legit'[k]
        BY <1>1, CapNat, LegitGrows DEF CapAllowed
      <3> QED
        BY <1>1, <1>2, <3>1
    <2> QED
      BY <2>1 DEF CapAllowed
  <1>3. CASE Tick
    <2>1. now' = now + 1 /\ sub' = sub /\ legit' = legit /\ now \in Int
          /\ sub \in [Subs -> SubRow]
      BY <1>1, <1>3 DEF Tick, Change, TypeOK
    <2>2. Cap(sub, now + 1) = Cap(sub, now) \/ Cap(sub, now + 1) = NoLimits
      BY <2>1, CapLater
    <2>3. ASSUME NEW k \in Kinds PROVE Cap(sub', now')[k] <= legit'[k]
      <3>1. Cap(sub, now)[k] <= legit[k] /\ 0 <= legit[k]
        BY <1>1 DEF CapAllowed
      <3> QED
        BY <2>1, <2>2, <3>1 DEF NoLimits
    <2> QED
      BY <2>3 DEF CapAllowed
  <1>4. CASE Subscriptions
    <2>1. Raise(Cap(sub', now'))
      <3>1. ASSUME NEW s, NEW from, NEW row, WriteSub(s, from, row)
            PROVE  Raise(Cap(sub', now'))
        <4>1. now' = now /\ sub' = [sub EXCEPT ![s] = row]
          BY <3>1 DEF WriteSub, Change
        <4>2. Raise(Cap([sub EXCEPT ![s] = row], now))
          BY <3>1 DEF WriteSub
        <4> QED
          BY <4>1, <4>2
      <3> QED
        BY <1>4, <3>1
           DEF Subscriptions, CreatePendingSubscription, CreateTrialSubscription,
               ActivateSubscription, RenewSubscription, CancelSubscription,
               ExpireSubscription, ChangeSubscriptionPlan
    <2>2. Subscribed(sub')
      BY TypeStep DEF TypeInv, TypeOK, Subscribed
    <2>3. Cap(sub', now') \in [Kinds -> Nat]
      BY <2>2, CapType
    <2>4. ASSUME NEW k \in Kinds PROVE Cap(sub', now')[k] <= legit'[k]
      BY <1>1, <2>1, <2>3 DEF Raise
    <2> QED
      BY <2>4 DEF CapAllowed
  <1>5. UncheckedRows => sub' = sub /\ now' = now
    BY DEF Change, UncheckedRows, Unchecked, AddMemberUnchecked, Retire, Reactivate,
           ChangeMemberRole, TransferOwnership
  <1>6. ASSUME NEW w \in Workers, Serve(w) PROVE sub' = sub /\ now' = now
    BY <1>6 DEF Serve, Arrive, ReadSubscription, CountUsage, Fail, Proceed, tables,
                CommitAdd, CommitUpsertResident, Change
  <1> QED
    BY <1>2, <1>3, <1>4, <1>5, <1>6, NextCases DEF vars

LEMMA LimitsStep ==
    ASSUME ConstantsOK, TypeInv, CapAllowed, LimitsAllowed, [Next]_vars
    PROVE  LimitsAllowed'
  <1>1. TypeOK /\ TypeOK' /\ legit \in [Kinds -> Nat] /\ legit' \in [Kinds -> Nat]
    BY TypeStep DEF TypeInv, TypeOK
  <1>2. ASSUME NEW w \in Workers, req'[w].pc = "count"
        PROVE  req'[w].limit <= legit'[req'[w].kind]
    <2>1. PICK r \in Request : r = req[w]
      BY <1>1, RequestType
    <2>2. CASE req'[w] = r
      <3>1. PICK k \in Kinds : k = r.kind
        BY <1>2, <2>1, <2>2 DEF TypeInv, AllNamed, Named
      <3>2. r.limit <= legit[k] /\ legit[k] <= legit'[k] /\ r.limit \in Nat
        BY <1>2, <2>1, <2>2, <3>1, LegitGrows DEF LimitsAllowed, Request
      <3>3. legit[k] \in Nat /\ legit'[k] \in Nat
        BY <1>1
      <3>4. r.limit <= legit'[k]
        BY <3>2, <3>3
      <3> QED
        BY <2>2, <3>1, <3>4
    <2>3. CASE ReadSubscription(w)
      <3>1. PICK k \in Kinds : k = r.kind
        BY <2>1, <2>3 DEF TypeInv, AllNamed, Named, ReadSubscription, At
      <3>2. /\ req'[w] = [r EXCEPT !.pc = "count", !.limit = Cap(sub, now)[r.kind]]
            /\ legit' = legit
        BY <1>1, <2>1, <2>3 DEF ReadSubscription, Proceed, TypeOK
      <3>3. req'[w].limit = Cap(sub, now)[k] /\ req'[w].kind = k
        BY <3>1, <3>2 DEF Request
      <3> QED
        BY <3>2, <3>3 DEF CapAllowed
    <2>4. CASE \/ \E k \in Kinds : \E n \in Sizes(k) : Arrive(w, k, n)
               \/ CountUsage(w) \/ CommitAdd(w) \/ CommitUpsertResident(w) \/ Fail(w)
      <3>1. Idle.pc = "idle" /\ req[w] \in Request
        BY RequestType DEF Idle, TypeInv
      <3>2. req'[w].pc # "count"
        <4>1. CASE \E k \in Kinds : \E n \in Sizes(k) : Arrive(w, k, n)
          BY <1>1, <4>1 DEF Arrive, Proceed, Idle, TypeOK
        <4>2. CASE CountUsage(w)
          <5>1. req'[w] = [req[w] EXCEPT !.pc = "commit", !.limit = 0]
            BY <1>1, <4>2 DEF CountUsage, Proceed, TypeOK
          <5> QED
            BY <3>1, <5>1 DEF Request
        <4>3. CASE CommitAdd(w) \/ CommitUpsertResident(w) \/ Fail(w)
          BY <1>1, <3>1, <4>3 DEF CommitAdd, CommitUpsertResident, Fail, Proceed, TypeOK
        <4> QED
          BY <2>4, <4>1, <4>2, <4>3
      <3> QED
        BY <1>2, <3>2
    <2> QED
      BY <2>1, <2>2, <2>3, <2>4, OneMoves DEF Serve
  <1> QED
    BY <1>2 DEF LimitsAllowed

(***************************************************************************)
(* The requests that passed checkQuota and have not written yet.           *)
(***************************************************************************)
Passed(q, k) == {w \in Workers : q[w].pc = "commit" /\ q[w].kind = k}

Size(q, k) == Cardinality(Passed(q, k))

LEMMA SizeType ==
    ASSUME ConstantsOK, NEW q, NEW k
    PROVE  /\ IsFiniteSet(Passed(q, k)) /\ Size(q, k) \in Nat
           /\ Cardinality(Workers) \in Nat /\ Size(q, k) <= Cardinality(Workers)
  <1>1. Passed(q, k) \subseteq Workers /\ IsFiniteSet(Workers)
    BY DEF Passed, ConstantsOK
  <1> QED
    BY <1>1, FS_Subset, FS_CardinalityType DEF Size

\* Of each kind there is room for what is allowed and for the requests that
\* have not passed checkQuota.
Bounded(k) ==
    used[k] + MaxBulk * Size(req, k) <= legit[k] + MaxBulk * Cardinality(Workers)

\* What a step may do to a kind: nothing is added and no request passes; or the
\* rows are allowed; or a request that had passed adds at most MaxBulk.
Pays(k) ==
    \/ used'[k] <= used[k] /\ Size(req', k) <= Size(req, k)
    \/ used'[k] <= legit'[k]
    \/ used'[k] <= used[k] + MaxBulk /\ Size(req', k) + 1 <= Size(req, k)

LEMMA Products ==
    ASSUME NEW m \in Nat, NEW a \in Nat, NEW b \in Nat, a <= b
    PROVE  m * a <= m * b /\ m * a \in Nat /\ m * b \in Nat /\ m * (a + 1) = m * a + m
  OBVIOUS

LEMMA PaysBounded ==
    ASSUME ConstantsOK, TypeOK, TypeOK', NEW k \in Kinds,
           Bounded(k), Pays(k), legit[k] <= legit'[k]
    PROVE  Bounded(k)'
  <1> DEFINE p  == Size(req, k)
             p2 == Size(req', k)
             n  == Cardinality(Workers)
  <1>1. p \in Nat /\ p2 \in Nat /\ n \in Nat /\ p <= n /\ p2 <= n /\ MaxBulk \in Nat
    BY SizeType DEF ConstantsOK
  <1>2. /\ used[k] \in Nat /\ used'[k] \in Nat
        /\ legit[k] \in Nat /\ legit'[k] \in Nat
    BY DEF TypeOK
  <1>3. used[k] + MaxBulk * p <= legit[k] + MaxBulk * n
    BY DEF Bounded
  <1>4. \/ used'[k] <= used[k] /\ p2 <= p
        \/ used'[k] <= legit'[k]
        \/ used'[k] <= used[k] + MaxBulk /\ p2 + 1 <= p
    BY DEF Pays
  <1> HIDE DEF p, p2, n
  <1>5. /\ MaxBulk * p \in Nat /\ MaxBulk * p2 \in Nat /\ MaxBulk * n \in Nat
        /\ MaxBulk * p2 <= MaxBulk * n
        /\ p2 <= p => MaxBulk * p2 <= MaxBulk * p
        /\ p2 + 1 <= p => MaxBulk * p2 + MaxBulk <= MaxBulk * p
    <2>1. p2 + 1 \in Nat /\ MaxBulk * (p2 + 1) = MaxBulk * p2 + MaxBulk
      BY <1>1, Products
    <2> QED
      BY <1>1, <2>1, Products
  <1>6. used'[k] + MaxBulk * p2 <= legit'[k] + MaxBulk * n
    BY <1>1, <1>2, <1>3, <1>4, <1>5
  <1> QED
    BY <1>6 DEF Bounded, p2, n

\* The clock, the subscriptions and the unchecked rows.
LEMMA SilentPays ==
    ASSUME ConstantsOK, TypeInv, NEW k \in Kinds, Tick \/ Subscriptions \/ UncheckedRows
    PROVE  Pays(k)
  <1>1. TypeOK /\ used[k] \in Nat /\ legit \in [Kinds -> Nat]
    BY DEF TypeInv, TypeOK
  <1>2. Size(req', k) = Size(req, k) /\ Size(req, k) \in Nat
    BY SilentRequests, SizeType
  <1>3. CASE used' = used
    BY <1>1, <1>2, <1>3 DEF Pays
  <1>4. Tick \/ Subscriptions => used' = used
    BY DEF Tick, Change, Subscriptions, WriteSub, CreatePendingSubscription,
           CreateTrialSubscription, ActivateSubscription, RenewSubscription,
           CancelSubscription, ExpireSubscription, ChangeSubscriptionPlan
  <1>5. CASE UncheckedRows
    <2>1. PICK use, rest : Unchecked(use, rest)
      BY <1>5
         DEF UncheckedRows, AddMemberUnchecked, Retire, Reactivate, ChangeMemberRole,
             TransferOwnership
    <2>2. used' = use /\ Raise([j \in Kinds |-> IF use[j] > used[j] THEN use[j] ELSE 0])
      BY <2>1 DEF Unchecked, Change
    <2>3. use[k] \in Nat
      BY <1>5, <2>2, UncheckedRowsType DEF TypeInv, TypeOK
    <2>4. CASE use[k] > used[k]
      <3>1. use[k] <= legit'[k]
        BY <1>1, <2>2, <2>3, <2>4 DEF Raise
      <3> QED
        BY <2>2, <3>1 DEF Pays
    <2>5. CASE ~ use[k] > used[k]
      BY <1>1, <1>2, <2>2, <2>3, <2>5 DEF Pays
    <2> QED
      BY <2>4, <2>5
  <1> QED
    BY <1>3, <1>4, <1>5

\* A request that stops to be ready to write is not counted any more.
LEMMA SizeFalls ==
    ASSUME ConstantsOK, NEW q, NEW q2, NEW k, Passed(q2, k) \subseteq Passed(q, k)
    PROVE  Size(q2, k) <= Size(q, k)
  <1>1. IsFiniteSet(Passed(q, k))
    BY SizeType
  <1> QED
    BY <1>1, FS_Subset DEF Size

LEMMA SizeDrops ==
    ASSUME ConstantsOK, NEW q, NEW k, NEW w \in Passed(q, k), NEW q2,
           Passed(q2, k) = Passed(q, k) \ {w}
    PROVE  Size(q2, k) + 1 <= Size(q, k)
  <1>1. IsFiniteSet(Passed(q, k)) /\ Size(q, k) \in Nat
    BY SizeType
  <1>2. Cardinality(Passed(q, k) \ {w}) = Cardinality(Passed(q, k)) - 1
    BY <1>1, FS_RemoveElement
  <1> QED
    BY <1>1, <1>2 DEF Size

LEMMA CommitPays ==
    ASSUME ConstantsOK, TypeInv, NEW w \in Workers, NEW k \in Kinds,
           CommitAdd(w) \/ CommitUpsertResident(w)
    PROVE  Pays(k)
  <1>1. /\ used \in [Kinds -> Nat] /\ legit \in [Kinds -> Nat]
        /\ req \in [Workers -> Request] /\ MaxBulk \in Nat \ {0}
    BY DEF TypeInv, TypeOK, ConstantsOK
  <1>2. req' = [req EXCEPT ![w] = Idle] /\ req[w].pc = "commit" /\ Idle.pc = "idle"
    BY DEF CommitAdd, CommitUpsertResident, At, Idle
  <1>3. PICK n \in 1 .. MaxBulk : n = req[w].adding
    BY <1>2 DEF TypeInv, AllNamed, Named
  <1>4. PICK m \in Nat : m = used[k]
    BY <1>1
  <1>5. Size(req', k) <= Size(req, k)
    <2>1. Passed(req', k) \subseteq Passed(req, k)
      BY <1>1, <1>2 DEF Passed
    <2> QED
      BY <2>1, SizeFalls
  <1>6. req[w].kind = k => Size(req', k) + 1 <= Size(req, k)
    <2>1. SUFFICES ASSUME req[w].kind = k PROVE Size(req', k) + 1 <= Size(req, k)
      OBVIOUS
    <2>2. w \in Passed(req, k) /\ Passed(req', k) = Passed(req, k) \ {w}
      BY <1>1, <1>2, <2>1 DEF Passed
    <2> QED
      BY <2>2, SizeDrops
  <1>7. CASE CommitAdd(w)
    <2>1. used'[k] = m \/ (req[w].kind = k /\ used'[k] = m + n)
      BY <1>1, <1>3, <1>4, <1>7 DEF CommitAdd, Change
    <2> QED
      BY <1>3, <1>4, <1>5, <1>6, <2>1 DEF Pays
  <1>8. CASE CommitUpsertResident(w)
    <2>1. req[w].kind = "residents"
      BY <1>8 DEF CommitUpsertResident
    <2>2. CASE used' = used
      BY <1>4, <1>5, <2>2 DEF Pays
    <2>3. CASE used' # used
      <3>1. PICK j \in MemberKinds :
                /\ used' = [used EXCEPT ![j] = @ + 1]
                /\ Raise([i \in Kinds |-> IF i = j /\ j # "residents" THEN used[j] + 1 ELSE 0])
        BY <1>8, <2>3 DEF CommitUpsertResident, Change
      <3>2. CASE j # k
        BY <1>1, <1>4, <1>5, <3>1, <3>2 DEF Pays
      <3>3. CASE j = k /\ j # "residents"
        <4>1. used'[k] = m + 1 /\ m + 1 <= legit'[k]
          BY <1>1, <1>4, <3>1, <3>3 DEF Raise
        <4> QED
          BY <4>1 DEF Pays
      <3>4. CASE j = k /\ j = "residents"
        <4>1. used'[k] = m + 1 /\ Size(req', k) + 1 <= Size(req, k)
          BY <1>1, <1>4, <1>6, <2>1, <3>1, <3>4
        <4> QED
          BY <1>1, <1>4, <4>1 DEF Pays
      <3> QED
        BY <3>2, <3>3, <3>4
    <2> QED
      BY <2>2, <2>3
  <1> QED
    BY <1>7, <1>8

\* checkQuota passes only what is allowed; the other steps pass nothing.
LEMMA QuietPays ==
    ASSUME ConstantsOK, TypeInv, LimitsAllowed, NEW w \in Workers, NEW k \in Kinds,
           \/ \E j \in Kinds : \E n \in Sizes(j) : Arrive(w, j, n)
           \/ ReadSubscription(w) \/ CountUsage(w) \/ Fail(w)
    PROVE  Pays(k)
  <1>1. /\ used[k] \in Nat /\ legit \in [Kinds -> Nat]
        /\ req \in [Workers -> Request] /\ req[w] \in Request
    BY RequestType DEF TypeInv, TypeOK
  <1>2. used' = used /\ legit' = legit
    BY DEF Arrive, ReadSubscription, CountUsage, Fail, Proceed, tables
  <1>3. CASE req'[w].pc # "commit"
    <2>1. PICK r : req' = [req EXCEPT ![w] = r]
      BY DEF Arrive, ReadSubscription, CountUsage, Fail, Proceed
    <2>2. Passed(req', k) \subseteq Passed(req, k)
      BY <1>1, <1>3, <2>1 DEF Passed
    <2> QED
      BY <1>1, <1>2, <2>2, SizeFalls DEF Pays
  <1>4. CASE CountUsage(w)
    <2>1. req' = [req EXCEPT ![w] = [req[w] EXCEPT !.pc = "commit", !.limit = 0]]
      BY <1>4 DEF CountUsage, Proceed
    <2>2. CASE req[w].kind = k
      <3>1. used[k] + req[w].adding <= req[w].limit /\ req[w].limit <= legit[k]
        BY <1>4, <2>2 DEF CountUsage, At, LimitsAllowed
      <3>2. req[w].adding \in Nat /\ req[w].limit \in Nat /\ legit[k] \in Nat
        BY <1>1 DEF Request
      <3> QED
        BY <1>1, <1>2, <3>1, <3>2 DEF Pays
    <2>3. CASE req[w].kind # k
      <3>1. req'[w].kind = req[w].kind
        BY <1>1, <2>1 DEF Request
      <3>2. Passed(req', k) \subseteq Passed(req, k)
        BY <1>1, <2>1, <2>3, <3>1 DEF Passed
      <3> QED
        BY <1>1, <1>2, <3>2, SizeFalls DEF Pays
    <2> QED
      BY <2>2, <2>3
  <1>5. CASE \E j \in Kinds : \E n \in Sizes(j) : Arrive(w, j, n)
    BY <1>1, <1>3, <1>5 DEF Arrive, Proceed, Idle
  <1>6. CASE ReadSubscription(w)
    <2>1. req'[w] = [req[w] EXCEPT !.pc = "count", !.limit = Cap(sub, now)[req[w].kind]]
      BY <1>1, <1>6 DEF ReadSubscription, Proceed
    <2>2. req'[w].pc = "count"
      BY <1>1, <2>1 DEF Request
    <2> QED
      BY <1>3, <2>2
  <1>7. CASE Fail(w)
    BY <1>1, <1>3, <1>7 DEF Fail, Proceed, Idle
  <1> QED
    BY <1>4, <1>5, <1>6, <1>7

LEMMA StepPays ==
    ASSUME ConstantsOK, TypeInv, LimitsAllowed, NEW k \in Kinds, [Next]_vars
    PROVE  Pays(k)
  <1>1. CASE UNCHANGED vars
    <2>1. used' = used /\ req' = req
      BY <1>1 DEF vars
    <2> QED
      BY <2>1, SizeType DEF Pays, TypeInv, TypeOK
  <1>2. ASSUME NEW w \in Workers, Serve(w) PROVE Pays(k)
    BY <1>2, QuietPays, CommitPays DEF Serve
  <1> QED
    BY <1>1, <1>2, NextCases, SilentPays

OvershootInv ==
    /\ OneOpen /\ CapAllowed /\ LimitsAllowed
    /\ \A k \in Kinds : Bounded(k)

LEMMA OvershootInit == ASSUME ConstantsOK, Init PROVE OvershootInv
  <1>1. OneOpen /\ LimitsAllowed
    BY DEF Init, OneOpen, OpenIn, LimitsAllowed, Idle
  <1>2. Live(sub, now) = {}
    BY DEF Init, Live
  <1>3. CapAllowed
    <2>1. Cap(sub, now) = NoLimits
      BY <1>2 DEF Cap
    <2>2. legit = NoLimits /\ \A k \in Kinds : NoLimits[k] = 0
      BY DEF Init, NoLimits
    <2> QED
      BY <2>1, <2>2 DEF CapAllowed
  <1>4. ASSUME NEW k \in Kinds PROVE Bounded(k)
    <2>1. Size(req, k) \in Nat /\ Cardinality(Workers) \in Nat
          /\ Size(req, k) <= Cardinality(Workers) /\ MaxBulk \in Nat
      BY SizeType DEF ConstantsOK
    <2>2. MaxBulk * Size(req, k) <= MaxBulk * Cardinality(Workers)
      BY <2>1, Products
    <2>3. used[k] = 0 /\ legit[k] = 0
      BY DEF Init, NoLimits
    <2> QED
      BY <2>1, <2>2, <2>3 DEF Bounded
  <1> QED
    BY <1>1, <1>3, <1>4 DEF OvershootInv

LEMMA OvershootStep ==
    ASSUME ConstantsOK, TypeInv, OvershootInv, [Next]_vars PROVE OvershootInv'
  <1>1. TypeOK /\ TypeOK'
    BY TypeStep DEF TypeInv
  <1>2. OneOpen' /\ CapAllowed' /\ LimitsAllowed'
    BY OpenStep, CapStep, LimitsStep DEF OvershootInv
  <1>3. ASSUME NEW k \in Kinds PROVE Bounded(k)'
    <2>1. Bounded(k) /\ Pays(k) /\ legit[k] <= legit'[k]
      BY StepPays, LegitGrows DEF OvershootInv
    <2> QED
      BY <1>1, <2>1, PaysBounded
  <1> QED
    BY <1>2, <1>3 DEF OvershootInv

\* Nothing serialises the requests, so a limit can be exceeded; for every
\* number of requests and every schedule it is by what the requests in flight
\* add, and no more.
THEOREM OvershootIsBounded == Spec => []OvershootBounded
  <1>1. Init => TypeInv /\ OvershootInv
    BY ConstantsOK, InitType, OvershootInit DEF TypeInv, Init, AllNamed, Named, Idle
  <1>2. TypeInv /\ OvershootInv /\ [Next]_vars => (TypeInv /\ OvershootInv)'
    <2>1. TypeInv /\ OvershootInv /\ [Next]_vars => TypeInv'
      BY ConstantsOK, TypeStep, NamedStep DEF TypeInv
    <2>2. TypeInv /\ OvershootInv /\ [Next]_vars => OvershootInv'
      BY ConstantsOK, OvershootStep
    <2> QED
      BY <2>1, <2>2
  <1>3. TypeInv /\ OvershootInv => OvershootBounded
    <2>1. ASSUME TypeInv, OvershootInv, NEW k \in Kinds
          PROVE  used[k] <= legit[k] + MaxBulk * Cardinality(Workers)
      <3>1. /\ Size(req, k) \in Nat /\ MaxBulk \in Nat /\ Cardinality(Workers) \in Nat
            /\ Size(req, k) <= Cardinality(Workers)
        BY ConstantsOK, SizeType DEF ConstantsOK
      <3>2. MaxBulk * Size(req, k) \in Nat /\ MaxBulk * Cardinality(Workers) \in Nat
        BY <3>1, Products
      <3>3. used[k] + MaxBulk * Size(req, k) <= legit[k] + MaxBulk * Cardinality(Workers)
        BY <2>1 DEF OvershootInv, Bounded
      <3>4. used[k] \in Nat /\ legit[k] \in Nat
        BY <2>1 DEF TypeInv, TypeOK
      <3> QED
        BY <3>2, <3>3, <3>4
    <2> QED
      BY <2>1 DEF OvershootBounded
  <1> QED
    BY <1>1, <1>2, <1>3, PTL DEF Spec
=============================================================================
