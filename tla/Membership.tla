----------------------------- MODULE Membership -----------------------------
(***************************************************************************)
(* One society and its members: SocietySvc with the repositories and SQL   *)
(* it runs on, and the upsert through which the flat service makes         *)
(* residents members.                                                      *)
(*                                                                         *)
(* A worker is a goroutine serving one HTTP request.  EnsureRole, the read *)
(* of the target and the count of owners are steps of their own, each      *)
(* reads committed rows outside any transaction, and the final statement   *)
(* (or the transaction of TransferOwnership) is one step: it checks only   *)
(* its own WHERE clause and the unique indexes.                            *)
(*                                                                         *)
(* ownedSince, lostAt and closedAt are history variables: no action reads  *)
(* them.                                                                   *)
(***************************************************************************)
EXTENDS Integers, FiniteSets

CONSTANTS
    Workers,        \* goroutines serving requests
    Users, NoUser,  \* users of the platform; NoUser is no target
    Operations,     \* the operations that are called
    Additions,      \* the roles members are added with
    Changes,        \* the roles they are changed to
    Timeout,        \* service.DefaultTimeout
    MaxTime         \* bound on the clock

Roles == {"owner", "admin", "staff", "resident"}

\* What a member may do, by the roles EnsureRole is called with.
Mandates == {"own", "manage", "run"}
RolesOf(m) ==
    CASE m = "own"    -> {"owner"}
      [] m = "manage" -> {"owner", "admin"}
      [] m = "run"    -> {"owner", "admin", "staff"}

MemberOps ==
    {"add", "change_role", "suspend", "reactivate", "remove", "transfer",
     "upsert_resident", "delete_society"}
SocietyOps ==
    {"reject_society", "suspend_society", "reactivate_society", "restore_society"}

NoDeadline == -1
Never      == -(Timeout + 1)

ASSUME ConstantsOK ==
    /\ NoUser \notin Users
    /\ Operations \subseteq MemberOps \cup SocietyOps
    /\ Additions \subseteq Roles /\ Changes \subseteq Roles
    /\ Timeout \in Nat /\ MaxTime \in Nat

VARIABLES
    now,         \* the clock
    society,     \* the row of societies: status and deleted_at
    closedAt,    \* when the society last stopped being active
    member,      \* society_members, one row per user at most
    ownedSince,  \* when u last became the active owner
    lostAt,      \* when u last lost a mandate
    req          \* req[w]: the request worker w is serving

societyVars == <<society, closedAt>>
memberVars  == <<member, ownedSince, lostAt>>
vars == <<now, societyVars, memberVars, req>>

-----------------------------------------------------------------------------
SocietyRow ==
    [status: {"none", "pending", "active", "suspended", "rejected"},
     deleted: BOOLEAN]

\* The status `none' is a row that was never inserted.
MemberRow ==
    [role: Roles, status: {"none", "active", "suspended", "removed"}]

Phases == {"idle", "actor", "target", "owners", "commit"}

Request ==
    [op: MemberOps \cup {"none"}, pc: Phases, actor: Users \cup {NoUser},
     target: Users \cup {NoUser}, role: Roles,
     deadline: Nat \cup {NoDeadline}]

TypeOK ==
    /\ now \in Nat
    /\ society \in SocietyRow /\ closedAt \in Int
    /\ member \in [Users -> MemberRow]
    /\ ownedSince \in [Users -> Int]
    /\ lostAt \in [Users -> [Mandates -> Int]]
    /\ req \in [Workers -> Request]

Idle ==
    [op |-> "none", pc |-> "idle", actor |-> NoUser, target |-> NoUser,
     role |-> "resident", deadline |-> NoDeadline]

Init ==
    /\ now = 0
    /\ society = [status |-> "none", deleted |-> FALSE] /\ closedAt = Never
    /\ member = [u \in Users |-> [role |-> "resident", status |-> "none"]]
    /\ ownedSince = [u \in Users |-> Never]
    /\ lostAt = [u \in Users |-> [m \in Mandates |-> Never]]
    /\ req = [w \in Workers |-> Idle]

-----------------------------------------------------------------------------
(***************************************************************************)
(* Reading and writing the tables.                                         *)
(***************************************************************************)
\* EnsureActiveSociety: Get leaves deleted societies out.
Operational(row) == row.status = "active" /\ ~row.deleted

MayIn(rows, u, m) == rows[u].status = "active" /\ rows[u].role \in RolesOf(m)
May(u, m) == MayIn(member, u, m)

OwnersIn(rows) == {u \in Users : MayIn(rows, u, "own")}
Owners == OwnersIn(member)

\* A write of society_members, which the unique index on the active owner
\* makes fail if it leaves two of them; the history follows.
Write(rows) ==
    /\ \A u, v \in OwnersIn(rows) : u = v
    /\ member' = rows
    /\ ownedSince' = [u \in Users |->
           IF u \in OwnersIn(rows) \ Owners THEN now ELSE ownedSince[u]]
    /\ lostAt' = [u \in Users |-> [m \in Mandates |->
           IF May(u, m) /\ ~MayIn(rows, u, m) THEN now ELSE lostAt[u][m]]]

WriteRow(u, row) == Write([member EXCEPT ![u] = row])

WriteSociety(row) ==
    /\ society' = row
    /\ closedAt' = IF Operational(society) /\ ~Operational(row) THEN now ELSE closedAt

-----------------------------------------------------------------------------
(***************************************************************************)
(* The platform administrators' side of the lifecycle.  Each method checks *)
(* the status and then repeats it in the WHERE clause of its one UPDATE,   *)
(* so the UPDATE alone decides.                                            *)
(***************************************************************************)
Tick ==
    /\ now < MaxTime
    /\ now' = now + 1
    /\ UNCHANGED <<societyVars, memberVars, req>>

\* The society, its owner and its settings are one transaction.
CreateSocietyRequest(u) ==
    /\ society.status = "none"
    /\ WriteSociety([status |-> "pending", deleted |-> FALSE])
    /\ WriteRow(u, [role |-> "owner", status |-> "active"])
    /\ UNCHANGED <<now, req>>

Transition(from, to) ==
    /\ society.status = from /\ ~society.deleted
    /\ WriteSociety([society EXCEPT !.status = to])
    /\ UNCHANGED <<now, memberVars, req>>

ApproveSociety    == Transition("pending", "active")
RejectSociety     == Transition("pending", "rejected")
SuspendSociety    == Transition("active", "suspended")
ReactivateSociety == Transition("suspended", "active")

\* Whatever the status was when it was deleted, it waits for approval again.
RestoreSociety ==
    /\ society.deleted
    /\ WriteSociety([status |-> "pending", deleted |-> FALSE])
    /\ UNCHANGED <<now, memberVars, req>>
-----------------------------------------------------------------------------
(***************************************************************************)
(* Requests on members.                                                    *)
(***************************************************************************)
\* Every operation names a target, except the deletion of the society.
Targets(op) == IF op = "delete_society" THEN {NoUser} ELSE Users

\* Only these two are given a role.
RolesFor(op) ==
    CASE op = "add"         -> Additions
      [] op = "change_role" -> Changes
      [] OTHER              -> {"resident"}

\* Mutant: EnsureRole skips the society's row.
Arrive_AnySociety(w, op, actor, target, role) ==
    /\ req[w].pc = "idle"
    /\ req' = [req EXCEPT ![w] =
           [op |-> op, pc |-> "actor", actor |-> actor, target |-> target,
            role |-> role, deadline |-> now + Timeout]]
    /\ UNCHANGED <<now, societyVars, memberVars>>

\* The deadline is armed, and EnsureRole starts with the society's row.
Arrive(w, op, actor, target, role) ==
    /\ req[w].pc = "idle"
    /\ Operational(society)
    /\ req' = [req EXCEPT ![w] =
           [op |-> op, pc |-> "actor", actor |-> actor, target |-> target,
            role |-> role, deadline |-> now + Timeout]]
    /\ UNCHANGED <<now, societyVars, memberVars>>

At(w, pc) == req[w].pc = pc /\ now <= req[w].deadline

Proceed(w, pc) ==
    /\ req' = [req EXCEPT ![w].pc = pc]
    /\ UNCHANGED <<now, societyVars, memberVars>>

\* The roles each method hands to EnsureRole or ensureFlatManager.
MandateFor(op) ==
    CASE op = "delete_society"  -> "own"
      [] op = "upsert_resident" -> "run"
      [] OTHER                  -> "manage"

AfterActor(op, role) ==
    CASE op \in {"change_role", "suspend", "remove"} -> "target"
      [] op = "add" /\ role = "owner"                -> "owners"
      [] OTHER                                       -> "commit"

\* Mutant: every active member passes, whatever the role.
EnsureRole_AnyRole(w) ==
    LET r == req[w] IN
    /\ At(w, "actor")
    /\ member[r.actor].status = "active"
    /\ Proceed(w, AfterActor(r.op, r.role))

\* EnsureRole, the member's row.
EnsureRole(w) ==
    LET r == req[w] IN
    /\ At(w, "actor")
    /\ May(r.actor, MandateFor(r.op))
    /\ Proceed(w, AfterActor(r.op, r.role))

\* Mutant: only a change of role looks for the last owner.
Unseats_ByRoleOnly(r, row) ==
    row.role = "owner" /\ r.op = "change_role" /\ r.role # "owner"

\* Whether the change takes the owner role from somebody, or gives it.
Unseats(r, row) ==
    row.role = "owner" /\ (r.op = "change_role" => r.role # "owner")

Seats(r, row) ==
    r.op = "change_role" /\ r.role = "owner" /\ row.role # "owner"

\* requireMember, and the choice of the owner check by the role it returned.
RequireMember(w) ==
    LET r   == req[w]
        row == member[r.target]
    IN  /\ At(w, "target")
        /\ row.status # "none"
        /\ Proceed(w, IF Unseats(r, row) \/ Seats(r, row) THEN "owners" ELSE "commit")

\* ensureNoActiveOwner for a request that makes an owner, ensureNotLastOwner
\* for one that unmakes the owner it read.
OwnersAllow(r) ==
    IF r.op \in {"add", "change_role"} /\ r.role = "owner"
    THEN Cardinality(Owners) = 0
    ELSE Cardinality(Owners) > 1

CountActiveOwners(w) ==
    /\ At(w, "owners")
    /\ OwnersAllow(req[w])
    /\ Proceed(w, "commit")

\* Any error return, quota refusal, rollback, deadline or disconnect.
Fail(w) ==
    /\ req[w].pc # "idle"
    /\ req' = [req EXCEPT ![w] = Idle]
    /\ UNCHANGED <<now, societyVars, memberVars>>

-----------------------------------------------------------------------------
(***************************************************************************)
(* The writes.                                                             *)
(***************************************************************************)
Committing(w, op) ==
    /\ At(w, "commit")
    /\ req[w].op = op
    /\ req' = [req EXCEPT ![w] = Idle]
    /\ UNCHANGED now

\* AddMember, and the transaction of CreateGuard for a new user.
CommitAdd(w) ==
    /\ Committing(w, "add")
    /\ member[req[w].target].status = "none"
    /\ WriteRow(req[w].target, [role |-> req[w].role, status |-> "active"])
    /\ UNCHANGED societyVars

\* Whatever the status of the row.
CommitChangeRole(w) ==
    LET u == req[w].target IN
    /\ Committing(w, "change_role")
    /\ WriteRow(u, [member[u] EXCEPT !.role = req[w].role])
    /\ UNCHANGED societyVars

CommitSuspend(w) ==
    LET u == req[w].target IN
    /\ Committing(w, "suspend")
    /\ member[u].status = "active"
    /\ WriteRow(u, [member[u] EXCEPT !.status = "suspended"])
    /\ UNCHANGED societyVars

CommitReactivate(w) ==
    LET u == req[w].target IN
    /\ Committing(w, "reactivate")
    /\ member[u].status \in {"suspended", "removed"}
    /\ WriteRow(u, [member[u] EXCEPT !.status = "active"])
    /\ UNCHANGED societyVars

\* Mutant: the row is marked with a status the schema does not have.
CommitRemove_Deleted(w) ==
    LET u == req[w].target IN
    /\ Committing(w, "remove")
    /\ member[u].status \in {"active", "suspended"}
    /\ WriteRow(u, [member[u] EXCEPT !.status = "deleted"])
    /\ UNCHANGED societyVars

CommitRemove(w) ==
    LET u == req[w].target IN
    /\ Committing(w, "remove")
    /\ member[u].status \in {"active", "suspended"}
    /\ WriteRow(u, [member[u] EXCEPT !.status = "removed"])
    /\ UNCHANGED societyVars

\* The new owner's row is inserted if there is none, the active owner becomes
\* an admin, the new one is promoted whatever its status was.
CommitTransfer(w) ==
    /\ Committing(w, "transfer")
    /\ Write([u \in Users |->
           IF u = req[w].target THEN [role |-> "owner", status |-> "active"]
           ELSE IF u \in Owners THEN [member[u] EXCEPT !.role = "admin"]
           ELSE member[u]])
    /\ UNCHANGED societyVars

\* Adding a resident to a flat: a new row is a resident (the role of a row
\* never inserted), an old one is active again with the role it had.
CommitUpsertResident(w) ==
    LET u == req[w].target IN
    /\ Committing(w, "upsert_resident")
    /\ WriteRow(u, [member[u] EXCEPT !.status = "active"])
    /\ UNCHANGED societyVars

CommitDelete(w) ==
    /\ Committing(w, "delete_society")
    /\ ~society.deleted
    /\ WriteSociety([society EXCEPT !.deleted = TRUE])
    /\ UNCHANGED memberVars

-----------------------------------------------------------------------------
Lifecycle ==
    \/ \E u \in Users : CreateSocietyRequest(u)
    \/ ApproveSociety
    \/ "reject_society" \in Operations /\ RejectSociety
    \/ "suspend_society" \in Operations /\ SuspendSociety
    \/ "reactivate_society" \in Operations /\ ReactivateSociety
    \/ "restore_society" \in Operations /\ RestoreSociety

Arrival(w) ==
    \E op \in Operations \cap MemberOps, actor \in Users :
        \E target \in Targets(op), role \in RolesFor(op) :
            Arrive(w, op, actor, target, role)

Check(w) == EnsureRole(w) \/ RequireMember(w) \/ CountActiveOwners(w)

Commit(w) ==
    \/ CommitAdd(w) \/ CommitChangeRole(w) \/ CommitSuspend(w)
    \/ CommitReactivate(w) \/ CommitRemove(w) \/ CommitTransfer(w)
    \/ CommitUpsertResident(w) \/ CommitDelete(w)

Next ==
    \/ Tick \/ Lifecycle
    \/ \E w \in Workers : Arrival(w) \/ Check(w) \/ Commit(w) \/ Fail(w)

Spec == Init /\ [][Next]_vars
=============================================================================
