-------------------------- MODULE MembershipProofs --------------------------
(***************************************************************************)
(* The properties of the member operations, proved for every value of the  *)
(* constants.                                                              *)
(*                                                                         *)
(* The inductive invariant says of every request in flight that what it    *)
(* read is still so, or stopped being so at most a timeout before the      *)
(* request's deadline, and that the unique index keeps one active owner.   *)
(***************************************************************************)
EXTENDS MembershipProperties, FiniteSetTheorems, TLAPS

OneOwner == \A u, v \in Owners : u = v

\* A request in flight names the users it acts for and on.
WellFormed(r) ==
    r.pc # "idle" =>
        /\ r.op \in MemberOps /\ r.actor \in Users
        /\ r.op # "delete_society" => r.target \in Users
        /\ r.deadline \in Nat /\ r.deadline <= now + Timeout

RecentSociety(r) ==
    r.pc # "idle" => Operational(society) \/ r.deadline <= closedAt + Timeout

RecentMandate(r) ==
    r.pc \in {"target", "owners", "commit"} =>
        LET m == MandateFor(r.op) IN
        May(r.actor, m) \/ r.deadline <= lostAt[r.actor][m] + Timeout

\* Writes that take the owner role, or an owner's status, from their target.
Unseating(r) ==
    r.op \in {"suspend", "remove"} \/ (r.op = "change_role" /\ r.role # "owner")

RecentTarget(r) ==
    r.pc = "commit" /\ Unseating(r) =>
        r.target \notin Owners \/ r.deadline <= ownedSince[r.target] + Timeout

Recent(r) ==
    WellFormed(r) /\ RecentSociety(r) /\ RecentMandate(r) /\ RecentTarget(r)

Inv == TypeOK /\ OneOwner /\ \A w \in Workers : Recent(req[w])

-----------------------------------------------------------------------------
LEMMA InitInv == Init => Inv
<1> SUFFICES ASSUME Init PROVE Inv
  OBVIOUS
<1>1. Timeout \in Nat /\ NoUser \notin Users
  BY ConstantsOK
<1>2. /\ Never \in Int
      /\ Idle \in Request
      /\ [role |-> "resident", status |-> "none"] \in MemberRow
      /\ [status |-> "none", deleted |-> FALSE] \in SocietyRow
  BY <1>1 DEF Never, Idle, Request, MemberRow, SocietyRow, Roles, Phases, MemberOps
<1>3. TypeOK
  BY <1>2 DEF Init, TypeOK
<1>4. OneOwner
  BY DEF Init, OneOwner, Owners, OwnersIn, MayIn
<1>5. \A w \in Workers : Recent(req[w])
  BY DEF Init, Idle, Recent, WellFormed, RecentSociety, RecentMandate, RecentTarget
<1> QED
  BY <1>3, <1>4, <1>5 DEF Inv

(***************************************************************************)
(* How the tables change in one step.                                      *)
(***************************************************************************)
\* The member table is left alone or written through Write.
MembersStep ==
    \/ UNCHANGED memberVars
    \/ \E rows \in [Users -> MemberRow] : Write(rows)

SocietyStep ==
    \/ UNCHANGED societyVars
    \/ \E row \in SocietyRow : WriteSociety(row)

LEMMA CommitTables ==
    ASSUME Inv, NEW w \in Workers, Commit(w)
    PROVE  MembersStep /\ SocietyStep /\ UNCHANGED now
<1>1. req[w] \in Request /\ member \in [Users -> MemberRow] /\ society \in SocietyRow
  BY DEF Inv, TypeOK
<1>2. WellFormed(req[w])
  BY DEF Inv, Recent
<1> DEFINE r == req[w]
<1>3. ASSUME NEW op, op # "delete_society", Committing(w, op) PROVE r.target \in Users
  BY <1>1, <1>2, <1>3 DEF WellFormed, Committing, At, Request
<1>4. ASSUME NEW u \in Users, NEW row \in MemberRow, WriteRow(u, row)
      PROVE  MembersStep
  <2>1. [member EXCEPT ![u] = row] \in [Users -> MemberRow]
    BY <1>1
  <2> QED
    BY <2>1, <1>4 DEF WriteRow, MembersStep
<1>5. r.role \in Roles
  BY <1>1 DEF Request
<1>6. CASE CommitAdd(w)
  BY <1>3, <1>4, <1>5, <1>6 DEF CommitAdd, Committing, MemberRow, SocietyStep
<1>7. CASE CommitChangeRole(w)
  BY <1>1, <1>3, <1>4, <1>5, <1>7 DEF CommitChangeRole, Committing, MemberRow, SocietyStep
<1>8. CASE CommitSuspend(w)
  BY <1>1, <1>3, <1>4, <1>8 DEF CommitSuspend, Committing, MemberRow, SocietyStep
<1>9. CASE CommitReactivate(w)
  BY <1>1, <1>3, <1>4, <1>9 DEF CommitReactivate, Committing, MemberRow, SocietyStep
<1>10. CASE CommitRemove(w)
  BY <1>1, <1>3, <1>4, <1>10 DEF CommitRemove, Committing, MemberRow, SocietyStep
<1>11. CASE CommitTransfer(w)
  <2> DEFINE rows == [u \in Users |->
           IF u = req[w].target THEN [role |-> "owner", status |-> "active"]
           ELSE IF u \in Owners THEN [member[u] EXCEPT !.role = "admin"]
           ELSE member[u]]
  <2>1. rows \in [Users -> MemberRow]
    BY <1>1 DEF MemberRow, Roles
  <2>2. Write(rows)
    BY <1>11 DEF CommitTransfer
  <2> HIDE DEF rows
  <2> QED
    BY <2>1, <2>2, <1>11 DEF CommitTransfer, Committing, MembersStep, SocietyStep
<1>12. CASE CommitUpsertResident(w)
  BY <1>1, <1>3, <1>4, <1>12 DEF CommitUpsertResident, Committing, MemberRow, SocietyStep
<1>13. CASE CommitDelete(w)
  <2>1. [society EXCEPT !.deleted = TRUE] \in SocietyRow
    BY <1>1 DEF SocietyRow
  <2> QED
    BY <2>1, <1>13 DEF CommitDelete, Committing, SocietyStep, MembersStep
<1> QED
  BY <1>6, <1>7, <1>8, <1>9, <1>10, <1>11, <1>12, <1>13 DEF Commit

LEMMA LifecycleTables ==
    ASSUME Inv, Lifecycle
    PROVE  MembersStep /\ SocietyStep /\ UNCHANGED <<now, req>>
<1>1. member \in [Users -> MemberRow] /\ society \in SocietyRow
  BY DEF Inv, TypeOK
<1>2. [status |-> "pending", deleted |-> FALSE] \in SocietyRow
  BY DEF SocietyRow
<1>3. ASSUME NEW u \in Users, CreateSocietyRequest(u)
      PROVE  MembersStep /\ SocietyStep /\ UNCHANGED <<now, req>>
  <2>1. [member EXCEPT ![u] = [role |-> "owner", status |-> "active"]]
            \in [Users -> MemberRow]
    BY <1>1 DEF MemberRow, Roles
  <2> QED
    BY <2>1, <1>2, <1>3 DEF CreateSocietyRequest, WriteRow, MembersStep, SocietyStep
<1>4. ASSUME NEW from, NEW to \in {"active", "rejected", "suspended"},
             Transition(from, to)
      PROVE  MembersStep /\ SocietyStep /\ UNCHANGED <<now, req>>
  <2>1. [society EXCEPT !.status = to] \in SocietyRow
    BY <1>1 DEF SocietyRow
  <2> QED
    BY <2>1, <1>4 DEF Transition, MembersStep, SocietyStep
<1>5. CASE RestoreSociety
  BY <1>2, <1>5 DEF RestoreSociety, MembersStep, SocietyStep
<1> QED
  BY <1>3, <1>4, <1>5
  DEF Lifecycle, ApproveSociety, RejectSociety, SuspendSociety, ReactivateSociety

\* What one step does to the history: a lost mandate, a new owner and a closed
\* society carry the time of the step, everything else keeps its time.
MandateKept(u, m) ==
    \/ lostAt'[u][m] = now
    \/ lostAt'[u][m] = lostAt[u][m] /\ (May(u, m) => May(u, m)')

OwnerKept(u) ==
    \/ ownedSince'[u] = now
    \/ ownedSince'[u] = ownedSince[u] /\ (u \in Owners' => u \in Owners)

SocietyKept ==
    \/ closedAt' = now
    \/ closedAt' = closedAt /\ (Operational(society) => Operational(society)')

LEMMA MemberHistory ==
    ASSUME Inv, MembersStep
    PROVE  /\ member' \in [Users -> MemberRow]
           /\ ownedSince' \in [Users -> Int]
           /\ lostAt' \in [Users -> [Mandates -> Int]]
           /\ OneOwner'
           /\ \A u \in Users : OwnerKept(u)
           /\ \A u \in Users, m \in Mandates : MandateKept(u, m)
<1>1. /\ member \in [Users -> MemberRow] /\ ownedSince \in [Users -> Int]
      /\ lostAt \in [Users -> [Mandates -> Int]] /\ now \in Int /\ OneOwner
  BY DEF Inv, TypeOK
<1>2. CASE UNCHANGED memberVars
  BY <1>1, <1>2
  DEF memberVars, OneOwner, Owners, OwnersIn, OwnerKept, MandateKept, May, MayIn
<1>3. ASSUME NEW rows \in [Users -> MemberRow], Write(rows)
      PROVE  /\ member' \in [Users -> MemberRow]
             /\ ownedSince' \in [Users -> Int]
             /\ lostAt' \in [Users -> [Mandates -> Int]]
             /\ OneOwner'
             /\ \A u \in Users : OwnerKept(u)
             /\ \A u \in Users, m \in Mandates : MandateKept(u, m)
  <2>1. member' = rows /\ Owners' = OwnersIn(rows)
    BY <1>3 DEF Write, Owners, OwnersIn, MayIn
  <2>2. OneOwner'
    BY <2>1, <1>3 DEF Write, OneOwner
  <2>3. /\ ownedSince' \in [Users -> Int]
        /\ \A u \in Users : OwnerKept(u)
    BY <2>1, <1>1, <1>3 DEF Write, OwnerKept
  <2>4. lostAt' \in [Users -> [Mandates -> Int]]
    BY <1>1, <1>3 DEF Write
  <2>5. ASSUME NEW u \in Users, NEW m \in Mandates PROVE MandateKept(u, m)
    <3>1. lostAt'[u][m] = IF May(u, m) /\ ~MayIn(rows, u, m) THEN now ELSE lostAt[u][m]
      BY <1>3 DEF Write
    <3>2. May(u, m)' <=> MayIn(rows, u, m)
      BY <2>1 DEF May, MayIn
    <3> QED
      BY <3>1, <3>2 DEF MandateKept
  <2> QED
    BY <2>1, <2>2, <2>3, <2>4, <2>5
<1> QED
  BY <1>2, <1>3 DEF MembersStep

LEMMA SocietyHistory ==
    ASSUME Inv, SocietyStep
    PROVE  society' \in SocietyRow /\ closedAt' \in Int /\ SocietyKept
<1>1. society \in SocietyRow /\ closedAt \in Int /\ now \in Int
  BY DEF Inv, TypeOK
<1>2. CASE UNCHANGED societyVars
  BY <1>1, <1>2 DEF societyVars, SocietyKept, Operational
<1>3. ASSUME NEW row \in SocietyRow, WriteSociety(row)
      PROVE  society' \in SocietyRow /\ closedAt' \in Int /\ SocietyKept
  BY <1>1, <1>3 DEF WriteSociety, SocietyKept, Operational
<1> QED
  BY <1>2, <1>3 DEF SocietyStep

(***************************************************************************)
(* How requests change in one step.                                        *)
(***************************************************************************)
LEMMA IdleRecent == ASSUME TypeOK PROVE Idle \in Request /\ Recent(Idle) /\ Recent(Idle)'
<1>1. Idle \in Request
  BY DEF Idle, Request, Roles, Phases, MemberOps
<1>2. Recent(Idle)
  BY DEF Idle, Recent, WellFormed, RecentSociety, RecentMandate, RecentTarget
<1>3. Recent(Idle)'
  BY DEF Idle, Recent, WellFormed, RecentSociety, RecentMandate, RecentTarget
<1> QED
  BY <1>1, <1>2, <1>3

\* A request that does not move stays recent, whatever the tables do.
LEMMA RecentStays ==
    ASSUME Inv, MembersStep, SocietyStep, now' \in Nat, now' >= now,
           NEW r \in Request, Recent(r)
    PROVE  Recent(r)'
<1>1. /\ now \in Nat /\ Timeout \in Nat
      /\ closedAt \in Int /\ ownedSince \in [Users -> Int]
      /\ lostAt \in [Users -> [Mandates -> Int]]
  BY ConstantsOK DEF Inv, TypeOK
<1>2. WellFormed(r)'
  BY <1>1 DEF Recent, WellFormed
<1>3. RecentSociety(r)'
  BY <1>1, SocietyHistory DEF Recent, WellFormed, RecentSociety, SocietyKept, Operational
<1>4. RecentMandate(r)'
  <2> DEFINE m == MandateFor(r.op)
  <2> SUFFICES ASSUME r.pc \in {"target", "owners", "commit"}
               PROVE  May(r.actor, m)' \/ r.deadline <= lostAt'[r.actor][m] + Timeout
    BY DEF RecentMandate
  <2>1. /\ m \in Mandates
        /\ r.actor \in Users /\ r.deadline \in Nat /\ r.deadline <= now + Timeout
    BY DEF Recent, WellFormed, MandateFor, Mandates
  <2>2. MandateKept(r.actor, m)
    BY <2>1, MemberHistory
  <2>3. May(r.actor, m) \/ r.deadline <= lostAt[r.actor][m] + Timeout
    BY DEF Recent, RecentMandate
  <2> QED
    BY <2>1, <2>2, <2>3, <1>1 DEF MandateKept
<1>5. RecentTarget(r)'
  <2> SUFFICES ASSUME r.pc = "commit", Unseating(r)
               PROVE  \/ r.target \notin Owners'
                      \/ r.deadline <= ownedSince'[r.target] + Timeout
    BY DEF RecentTarget, Unseating
  <2>1. /\ r.target \in Users
        /\ r.deadline \in Nat /\ r.deadline <= now + Timeout
    BY DEF Recent, WellFormed, Unseating
  <2>2. OwnerKept(r.target)
    BY <2>1, MemberHistory
  <2>3. r.target \notin Owners \/ r.deadline <= ownedSince[r.target] + Timeout
    BY DEF Recent, RecentTarget
  <2> QED
    BY <2>1, <2>2, <2>3, <1>1 DEF OwnerKept
<1> QED
  BY <1>2, <1>3, <1>4, <1>5 DEF Recent

\* The unique index makes the count of owners one or nothing.
LEMMA OwnerCount == ASSUME OneOwner PROVE Cardinality(Owners) \in {0, 1}
<1>1. CASE Owners = {}
  BY <1>1, FS_EmptySet
<1>2. CASE Owners # {}
  <2>1. PICK u \in Owners : TRUE
    BY <1>2
  <2>2. Owners = {u}
    BY <2>1 DEF OneOwner
  <2> QED
    BY <2>2, FS_Singleton
<1> QED
  BY <1>1, <1>2

LEMMA ArrivalRecent ==
    ASSUME Inv, NEW w \in Workers, Arrival(w)
    PROVE  /\ \E r \in Request : Recent(r) /\ req' = [req EXCEPT ![w] = r]
           /\ UNCHANGED <<now, societyVars, memberVars>>
<1>0. PICK op \in Operations \cap MemberOps, actor \in Users :
          \E target \in Targets(op), role \in RolesFor(op) :
              Arrive(w, op, actor, target, role)
  BY DEF Arrival
<1>1. PICK target \in Targets(op), role \in RolesFor(op) :
          Arrive(w, op, actor, target, role)
  BY <1>0
<1> DEFINE r == [op |-> op, pc |-> "actor", actor |-> actor, target |-> target,
                 role |-> role, deadline |-> now + Timeout]
<1>2. now \in Nat /\ Timeout \in Nat /\ Additions \subseteq Roles /\ Changes \subseteq Roles
  BY ConstantsOK DEF Inv, TypeOK
<1>3. target \in Users \cup {NoUser} /\ (op # "delete_society" => target \in Users)
  BY DEF Targets
<1>4. role \in Roles
  BY <1>2 DEF RolesFor, Roles
<1>5. r \in Request
  BY <1>2, <1>3, <1>4 DEF Request, Phases
<1>6. WellFormed(r)
  BY <1>2, <1>3 DEF WellFormed
<1>7. RecentSociety(r)
  BY <1>1 DEF Arrive, RecentSociety
<1>8. RecentMandate(r) /\ RecentTarget(r)
  BY DEF RecentMandate, RecentTarget
<1> QED
  BY <1>1, <1>5, <1>6, <1>7, <1>8 DEF Arrive, Recent

\* A check that succeeds has read what the invariant says of the next phase.
LEMMA CheckRecent ==
    ASSUME Inv, NEW w \in Workers, Check(w)
    PROVE  /\ \E r \in Request : Recent(r) /\ req' = [req EXCEPT ![w] = r]
           /\ UNCHANGED <<now, societyVars, memberVars>>
<1> DEFINE q == req[w]
           moved(pc) == [q EXCEPT !.pc = pc]
<1>1. q \in Request /\ Recent(q) /\ req \in [Workers -> Request]
  BY DEF Inv, TypeOK
<1>2. ASSUME NEW pc \in {"target", "owners", "commit"}, Proceed(w, pc), q.pc # "idle",
             RecentMandate(moved(pc)), RecentTarget(moved(pc))
      PROVE  /\ \E r \in Request : Recent(r) /\ req' = [req EXCEPT ![w] = r]
             /\ UNCHANGED <<now, societyVars, memberVars>>
  <2>1. moved(pc) \in Request
    BY <1>1 DEF Request, Phases
  <2>2. /\ moved(pc).op = q.op /\ moved(pc).actor = q.actor
        /\ moved(pc).target = q.target /\ moved(pc).deadline = q.deadline
    BY <1>1 DEF Request
  <2>3. WellFormed(moved(pc)) /\ RecentSociety(moved(pc))
    BY <1>1, <1>2, <2>2 DEF Recent, WellFormed, RecentSociety
  <2>4. req' = [req EXCEPT ![w] = moved(pc)]
    BY <1>2 DEF Proceed
  <2> QED
    BY <1>2, <2>1, <2>3, <2>4 DEF Proceed, Recent
<1>3. ASSUME NEW pc \in {"target", "owners", "commit"}
      PROVE  /\ moved(pc).op = q.op /\ moved(pc).actor = q.actor
             /\ moved(pc).target = q.target /\ moved(pc).deadline = q.deadline
             /\ moved(pc).role = q.role /\ moved(pc).pc = pc
  BY <1>1 DEF Request
<1> HIDE DEF moved
<1>4. CASE EnsureRole(w)
  <2> DEFINE pc == AfterActor(q.op, q.role)
  <2>1. pc \in {"target", "owners", "commit"}
    BY DEF AfterActor
  <2>2. /\ q.pc = "actor" /\ May(q.actor, MandateFor(q.op)) /\ Proceed(w, pc)
    BY <1>4 DEF EnsureRole, At
  <2>3. RecentMandate(moved(pc))
    BY <2>1, <2>2, <1>3 DEF RecentMandate
  <2>4. RecentTarget(moved(pc))
    BY <2>1, <1>3 DEF RecentTarget, Unseating, AfterActor
  <2> QED
    BY <1>2, <2>1, <2>2, <2>3, <2>4
<1>5. CASE RequireMember(w)
  <2> DEFINE row == member[q.target]
             pc == IF Unseats(q, row) \/ Seats(q, row) THEN "owners" ELSE "commit"
  <2>1. q.pc = "target" /\ Proceed(w, pc)
    BY <1>5 DEF RequireMember, At
  <2>2. pc \in {"target", "owners", "commit"}
    OBVIOUS
  <2>3. RecentMandate(moved(pc))
    BY <1>1, <2>1, <2>2, <1>3 DEF Recent, RecentMandate
  <2>4. RecentTarget(moved(pc))
    <3> SUFFICES ASSUME moved(pc).pc = "commit", Unseating(moved(pc))
                 PROVE  q.target \notin Owners
      BY <1>3, <2>2 DEF RecentTarget
    <3>1. ~Unseats(q, row) /\ Unseating(q)
      BY <1>3, <2>2 DEF Unseating
    <3>2. row.role # "owner"
      BY <3>1 DEF Unseats, Unseating
    <3> QED
      BY <3>2 DEF Owners, OwnersIn, MayIn, RolesOf
  <2> QED
    BY <1>2, <2>1, <2>2, <2>3, <2>4
<1>6. CASE CountActiveOwners(w)
  <2>1. q.pc = "owners" /\ Proceed(w, "commit") /\ OwnersAllow(q)
    BY <1>6 DEF CountActiveOwners, At
  <2>2. RecentMandate(moved("commit"))
    BY <1>1, <2>1, <1>3 DEF Recent, RecentMandate
  <2>3. ~Unseating(q)
    BY <2>1, OwnerCount DEF Inv, OwnersAllow, Unseating
  <2>4. RecentTarget(moved("commit"))
    BY <2>3, <1>3 DEF RecentTarget, Unseating
  <2> QED
    BY <1>2, <2>1, <2>2, <2>4
<1> QED
  BY <1>4, <1>5, <1>6 DEF Check

(***************************************************************************)
(* One step, and the theorems.                                             *)
(***************************************************************************)
LEMMA CommitEnds == ASSUME NEW w \in Workers, Commit(w) PROVE req' = [req EXCEPT ![w] = Idle]
  BY DEF Commit, CommitAdd, CommitChangeRole, CommitSuspend, CommitReactivate,
         CommitRemove, CommitTransfer, CommitUpsertResident, CommitDelete, Committing

LEMMA TablesStep ==
    ASSUME Inv, [Next]_vars
    PROVE  MembersStep /\ SocietyStep /\ now' \in Nat /\ now' >= now
<1>1. now \in Nat
  BY DEF Inv, TypeOK
<1>2. CASE UNCHANGED vars
  BY <1>1, <1>2 DEF vars, MembersStep, SocietyStep
<1>3. CASE Tick
  BY <1>1, <1>3 DEF Tick, MembersStep, SocietyStep
<1>4. CASE Lifecycle
  BY <1>1, <1>4, LifecycleTables
<1>5. ASSUME NEW w \in Workers, Arrival(w) \/ Check(w) \/ Commit(w) \/ Fail(w)
      PROVE  MembersStep /\ SocietyStep /\ UNCHANGED now
  BY <1>5, ArrivalRecent, CheckRecent, CommitTables DEF Fail, MembersStep, SocietyStep
<1> QED
  BY <1>1, <1>2, <1>3, <1>4, <1>5 DEF Next

LEMMA RequestsStep ==
    ASSUME Inv, [Next]_vars
    PROVE  /\ req' \in [Workers -> Request]
           /\ (\A w \in Workers : Recent(req[w]))'
<1>1. /\ req \in [Workers -> Request]
      /\ \A w \in Workers : Recent(req[w])
      /\ Idle \in Request /\ Recent(Idle)
  BY IdleRecent DEF Inv, TypeOK
<1>2. \A r \in Request : Recent(r) => Recent(r)'
  BY TablesStep, RecentStays
<1>3. SUFFICES \/ UNCHANGED req
               \/ \E w \in Workers, r \in Request :
                      Recent(r) /\ req' = [req EXCEPT ![w] = r]
  <2>1. req' \in [Workers -> Request] /\ \A w \in Workers : Recent(req'[w])
    BY <1>1, <1>3
  <2>2. ASSUME NEW w \in Workers PROVE Recent(req[w])'
    <3>1. PICK r \in Request : r = req'[w]
      BY <2>1
    <3>2. Recent(r)'
      BY <2>1, <3>1, <1>2
    <3> QED
      BY <3>1, <3>2
  <2> QED
    BY <2>1, <2>2
<1>4. CASE UNCHANGED vars
  BY <1>4 DEF vars
<1>5. CASE Tick
  BY <1>5 DEF Tick
<1>6. CASE Lifecycle
  BY <1>6, LifecycleTables
<1>7. ASSUME NEW w \in Workers, Arrival(w) \/ Check(w) \/ Commit(w) \/ Fail(w)
      PROVE  \E r \in Request : Recent(r) /\ req' = [req EXCEPT ![w] = r]
  BY <1>1, <1>7, ArrivalRecent, CheckRecent, CommitEnds DEF Fail
<1> QED
  BY <1>4, <1>5, <1>6, <1>7 DEF Next

LEMMA InvStep == Inv /\ [Next]_vars => Inv'
<1> SUFFICES ASSUME Inv, [Next]_vars PROVE Inv'
  OBVIOUS
<1>1. /\ MembersStep /\ SocietyStep /\ now' \in Nat
      /\ req' \in [Workers -> Request] /\ (\A w \in Workers : Recent(req[w]))'
  BY TablesStep, RequestsStep
<1>2. TypeOK' /\ OneOwner'
  BY <1>1, MemberHistory, SocietyHistory DEF TypeOK
<1> QED
  BY <1>1, <1>2 DEF Inv

LEMMA Invariant == Spec => []Inv
  BY InitInv, InvStep, PTL DEF Spec

\* The tables and the requests of the member operations are well formed.
THEOREM TypeCorrect == Spec => []TypeOK
<1>1. Inv => TypeOK
  BY DEF Inv
<1> QED
  BY <1>1, Invariant, PTL

(***************************************************************************)
(* A write of a request lands before its deadline; the invariant says what *)
(* that means for what it had read.                                        *)
(***************************************************************************)
LEMMA Landing ==
    ASSUME Inv, [Next]_vars, NEW w \in Workers, Lands(w)
    PROVE  Commit(w) /\ now <= req[w].deadline
<1>1. req \in [Workers -> Request] /\ Idle \in Request
  BY IdleRecent DEF Inv, TypeOK
<1>2. ~UNCHANGED <<society, member>> /\ req'[w] # req[w]
  BY DEF Lands
<1>3. ~UNCHANGED vars /\ ~Tick
  BY <1>2 DEF vars, societyVars, memberVars, Tick
<1>4. ~Lifecycle
  BY <1>2, LifecycleTables
<1>5. PICK v \in Workers : Arrival(v) \/ Check(v) \/ Commit(v) \/ Fail(v)
  BY <1>3, <1>4 DEF Next
<1>6. ~Arrival(v) /\ ~Check(v)
  BY <1>2, ArrivalRecent, CheckRecent DEF societyVars, memberVars
<1>7. ~Fail(v)
  BY <1>2 DEF Fail, societyVars, memberVars
<1>8. Commit(v)
  BY <1>5, <1>6, <1>7
<1>9. v = w
  BY <1>1, <1>2, <1>8, CommitEnds
<1>10. ASSUME NEW op, Committing(w, op) PROVE now <= req[w].deadline
  BY <1>10 DEF Committing, At
<1> QED
  BY <1>8, <1>9, <1>10
  DEF Commit, CommitAdd, CommitChangeRole, CommitSuspend, CommitReactivate,
      CommitRemove, CommitTransfer, CommitUpsertResident, CommitDelete

\* A request writes at most one timeout after its actor lost the mandate that
\* EnsureRole looked for.
THEOREM MandatesBounded == Spec => MandateBounded
<1>1. Inv /\ [Next]_vars =>
        \A w \in Workers :
           Lands(w) =>
               LET u == req[w].actor
                   m == MandateFor(req[w].op)
               IN  May(u, m) \/ now <= lostAt[u][m] + Timeout
  <2> SUFFICES ASSUME Inv, [Next]_vars, NEW w \in Workers, Lands(w),
                      NEW u, u = req[w].actor, NEW m, m = MandateFor(req[w].op)
               PROVE  May(u, m) \/ now <= lostAt[u][m] + Timeout
    OBVIOUS
  <2>1. /\ req[w] \in Request /\ now \in Nat /\ Timeout \in Nat
        /\ lostAt \in [Users -> [Mandates -> Int]]
    BY ConstantsOK DEF Inv, TypeOK
  <2>2. req[w].pc = "commit" /\ WellFormed(req[w]) /\ RecentMandate(req[w])
    BY DEF Lands, Inv, Recent
  <2>3. now <= req[w].deadline /\ req[w].deadline \in Nat /\ u \in Users
    BY <2>2, Landing DEF WellFormed
  <2>4. m \in Mandates
    BY DEF MandateFor, Mandates
  <2>5. May(u, m) \/ req[w].deadline <= lostAt[u][m] + Timeout
    BY <2>2 DEF RecentMandate
  <2> QED
    BY <2>1, <2>3, <2>4, <2>5
<1> QED
  BY <1>1, Invariant, PTL DEF Spec, MandateBounded

\* A society that is not active keeps its members, up to one timeout after it
\* closed.
THEOREM ClosedSociety == Spec => ClosedSocietyKeepsMembers
<1>1. Inv /\ [Next]_vars =>
        \A w \in Workers :
           Lands(w) => Operational(society) \/ now <= closedAt + Timeout
  <2> SUFFICES ASSUME Inv, [Next]_vars, NEW w \in Workers, Lands(w)
               PROVE  Operational(society) \/ now <= closedAt + Timeout
    OBVIOUS
  <2>1. now \in Nat /\ Timeout \in Nat /\ closedAt \in Int
    BY ConstantsOK DEF Inv, TypeOK
  <2>2. req[w].pc = "commit" /\ WellFormed(req[w]) /\ RecentSociety(req[w])
    BY DEF Lands, Inv, Recent
  <2>3. now <= req[w].deadline /\ req[w].deadline \in Nat
    BY <2>2, Landing DEF WellFormed
  <2> QED
    BY <2>1, <2>2, <2>3 DEF RecentSociety
<1> QED
  BY <1>1, Invariant, PTL DEF Spec, ClosedSocietyKeepsMembers

\* The writes that touch the owner's own row do not take the office away,
\* unless they suspend, remove or demote the row.
LEMMA OwnerSurvives ==
    ASSUME Inv, NEW w \in Workers, Commit(w),
           NEW u \in Owners, Unseating(req[w]) => req[w].target # u
    PROVE  OwnersIn(member') # {}
<1> DEFINE t == req[w].target
<1>1. /\ req[w] \in Request /\ WellFormed(req[w])
      /\ member \in [Users -> MemberRow] /\ u \in Users
      /\ member[u].role = "owner" /\ member[u].status = "active"
  BY DEF Inv, TypeOK, Recent, Owners, OwnersIn, MayIn, RolesOf
<1>2. ASSUME NEW row, WriteRow(t, row), t = u => row.role = "owner" /\ row.status = "active"
      PROVE  OwnersIn(member') # {}
  <2>1. member' = [member EXCEPT ![t] = row]
    BY <1>2 DEF WriteRow, Write
  <2>2. member'[u].role = "owner" /\ member'[u].status = "active"
    BY <1>1, <1>2, <2>1
  <2> QED
    BY <1>1, <2>2 DEF OwnersIn, MayIn, RolesOf
<1>3. CASE CommitAdd(w)
  BY <1>1, <1>2, <1>3 DEF CommitAdd
<1>4. CASE CommitChangeRole(w)
  <2> DEFINE row == [member[t] EXCEPT !.role = req[w].role]
  <2>1. WriteRow(t, row) /\ req[w].op = "change_role"
    BY <1>4 DEF CommitChangeRole, Committing
  <2>2. t = u => req[w].role = "owner"
    BY <2>1 DEF Unseating
  <2>3. t = u => row.role = "owner" /\ row.status = "active"
    BY <1>1, <2>2 DEF MemberRow
  <2> HIDE DEF row
  <2> QED
    BY <1>2, <2>1, <2>3
<1>5. CASE CommitSuspend(w) \/ CommitRemove(w)
  BY <1>2, <1>5 DEF CommitSuspend, CommitRemove, Committing, Unseating
<1>6. CASE CommitReactivate(w) \/ CommitUpsertResident(w)
  <2> DEFINE row == [member[t] EXCEPT !.status = "active"]
  <2>1. WriteRow(t, row)
    BY <1>6 DEF CommitReactivate, CommitUpsertResident
  <2>2. t = u => row.role = "owner" /\ row.status = "active"
    BY <1>1 DEF MemberRow
  <2> HIDE DEF row
  <2> QED
    BY <1>2, <2>1, <2>2
<1>7. CASE CommitTransfer(w)
  <2>1. t \in Users
    BY <1>1, <1>7 DEF CommitTransfer, Committing, At, WellFormed
  <2>2. member'[t] = [role |-> "owner", status |-> "active"]
    BY <1>7, <2>1 DEF CommitTransfer, Write
  <2> QED
    BY <2>1, <2>2 DEF OwnersIn, MayIn, RolesOf
<1>8. CASE CommitDelete(w)
  BY <1>8 DEF CommitDelete, memberVars, Owners
<1> QED
  BY <1>3, <1>4, <1>5, <1>6, <1>7, <1>8 DEF Commit

\* An owner in office for longer than a request timeout is only ever replaced.
THEOREM SettledOwner == Spec => SettledOwnerStays
<1>1. Inv /\ [Next]_vars =>
        \A u \in Owners : now > ownedSince[u] + Timeout => OwnersIn(member') # {}
  <2> SUFFICES ASSUME Inv, [Next]_vars, NEW u \in Owners,
                      now > ownedSince[u] + Timeout
               PROVE  OwnersIn(member') # {}
    OBVIOUS
  <2>1. CASE UNCHANGED member
    BY <2>1 DEF Owners
  <2>2. ASSUME NEW v \in Users, CreateSocietyRequest(v) PROVE OwnersIn(member') # {}
    <3>1. member'[v] = [role |-> "owner", status |-> "active"]
      BY <2>2 DEF Inv, TypeOK, CreateSocietyRequest, WriteRow, Write
    <3> QED
      BY <3>1 DEF OwnersIn, MayIn, RolesOf
  <2>3. ASSUME NEW w \in Workers, Commit(w), ~UNCHANGED member
        PROVE  OwnersIn(member') # {}
    <3>1. /\ now \in Nat /\ Timeout \in Nat /\ ownedSince \in [Users -> Int]
          /\ u \in Users /\ Recent(req[w])
      BY ConstantsOK DEF Inv, TypeOK, Owners, OwnersIn
    <3>2. req[w].pc = "commit" /\ now <= req[w].deadline
      BY <2>3 DEF Commit, CommitAdd, CommitChangeRole, CommitSuspend, CommitReactivate,
         CommitRemove, CommitTransfer, CommitUpsertResident, CommitDelete,
         Committing, At
    <3>3. Unseating(req[w]) => req[w].target # u
      BY <3>1, <3>2 DEF Recent, WellFormed, RecentTarget
    <3> QED
      BY <2>3, <3>3, OwnerSurvives
  <2>4. Tick \/ UNCHANGED vars => UNCHANGED member
    BY DEF Tick, vars, memberVars
  <2>5. Lifecycle => UNCHANGED member \/ \E v \in Users : CreateSocietyRequest(v)
    BY DEF Lifecycle, ApproveSociety, RejectSociety, SuspendSociety,
       ReactivateSociety, RestoreSociety, Transition, memberVars
  <2>6. ASSUME NEW w \in Workers, Arrival(w) \/ Check(w) \/ Fail(w)
        PROVE  UNCHANGED member
    BY <2>6, ArrivalRecent, CheckRecent DEF Fail, memberVars
  <2> QED
    BY <2>1, <2>2, <2>3, <2>4, <2>5, <2>6 DEF Next
<1> QED
  BY <1>1, Invariant, PTL DEF Spec, SettledOwnerStays
=============================================================================
