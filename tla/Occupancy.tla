----------------------------- MODULE Occupancy -----------------------------
(***************************************************************************)
(* One flat, the stays of its residents (flat_residents) and the claims to *)
(* it: FlatSvc with the repositories and SQL it runs on.                   *)
(*                                                                         *)
(* Unlike those of the members, these transactions read: whether the flat  *)
(* can be used, how many primary residents it has, how many residents are  *)
(* left.  Every read of a READ COMMITTED transaction is a step of its own  *)
(* that sees what others committed, and its writes are one step with the   *)
(* commit, except that a resident who leaves is written, and locked, in    *)
(* front of the count that decides whether the flat is vacant.             *)
(*                                                                         *)
(* shutAt and the origin of a stay are history: no action reads them.      *)
(***************************************************************************)
EXTENDS Integers, FiniteSets

CONSTANTS
    Workers,           \* goroutines serving requests
    Users, NoUser,     \* users of the platform
    Stays, NoStay,     \* ids of flat_residents
    Claims, NoClaim,   \* ids of flat_claim_requests
    Operations,        \* the operations that are called
    Timeout,           \* service.DefaultTimeout
    MaxTime            \* bound on the clock

StayOps  == {"add", "remove", "move_out", "set_primary"}
ClaimOps == {"submit", "approve", "reject", "cancel"}
FlatOps  == {"block", "unblock", "delete", "update"}

NoDeadline == -1
Never      == -(Timeout + 1)

ASSUME ConstantsOK ==
    /\ NoUser \notin Users /\ NoStay \notin Stays /\ NoClaim \notin Claims
    /\ Operations \subseteq StayOps \cup ClaimOps \cup FlatOps
    /\ Timeout \in Nat /\ MaxTime \in Nat

VARIABLES
    now,      \* the clock
    flat,     \* the row of flats
    shutAt,   \* when the flat was last blocked or deactivated
    stay,     \* flat_residents
    claim,    \* flat_claim_requests
    req       \* req[w]: the request worker w is serving

vars == <<now, flat, shutAt, stay, claim, req>>

-----------------------------------------------------------------------------
FlatStatuses == {"vacant", "occupied", "blocked"}
FlatRow == [status: FlatStatuses, active: BOOLEAN]

\* The status `none' is a row that was never inserted; origin is the claim
\* whose approval made the stay.
StayRow ==
    [status: {"none", "active", "inactive", "moved_out"},
     user: Users \cup {NoUser}, primary: BOOLEAN, origin: Claims \cup {NoClaim}]

ClaimRow ==
    [status: {"none", "pending", "approved", "rejected", "cancelled"},
     user: Users \cup {NoUser}, primary: BOOLEAN]

Phases == {"idle", "claim", "flat", "primaries", "current", "leave", "commit", "conflict"}

\* hit: the row that leaves was active; seen: the rows the last count counted.
Request ==
    [op: StayOps \cup ClaimOps \cup {"none"}, pc: Phases,
     user: Users \cup {NoUser}, primary: BOOLEAN, stay: Stays \cup {NoStay},
     claim: Claims \cup {NoClaim}, hit: BOOLEAN, seen: SUBSET Stays,
     deadline: Nat \cup {NoDeadline}]

TypeOK ==
    /\ now \in Nat
    /\ flat \in FlatRow /\ shutAt \in Int
    /\ stay \in [Stays -> StayRow]
    /\ claim \in [Claims -> ClaimRow]
    /\ req \in [Workers -> Request]

Idle ==
    [op |-> "none", pc |-> "idle", user |-> NoUser, primary |-> FALSE,
     stay |-> NoStay, claim |-> NoClaim, hit |-> FALSE, seen |-> {},
     deadline |-> NoDeadline]

\* A flat is created vacant and active.
Init ==
    /\ now = 0
    /\ flat = [status |-> "vacant", active |-> TRUE] /\ shutAt = Never
    /\ stay = [s \in Stays |->
           [status |-> "none", user |-> NoUser, primary |-> FALSE, origin |-> NoClaim]]
    /\ claim = [c \in Claims |->
           [status |-> "none", user |-> NoUser, primary |-> FALSE]]
    /\ req = [w \in Workers |-> Idle]

-----------------------------------------------------------------------------
(***************************************************************************)
(* Reading and writing the tables.                                         *)
(***************************************************************************)
\* ensureFlatAssignable, and the WHERE of MarkOccupied and MarkVacant.
Open(row) == row.active /\ row.status # "blocked"

ResidentsIn(rows) == {s \in Stays : rows[s].status = "active"}
Residents == ResidentsIn(stay)
Primaries == {s \in Residents : stay[s].primary}

WriteFlat(row) ==
    /\ flat' = row
    /\ shutAt' = IF Open(flat) /\ ~Open(row) THEN now ELSE shutAt

\* MarkOccupied and MarkVacant: no row to update is no error.
Mark(status) ==
    WriteFlat(IF Open(flat) THEN [flat EXCEPT !.status = status] ELSE flat)

\* A worker whose transaction has written, and not yet committed, stay s.
LockedByOther(w, s) ==
    \E v \in Workers \ {w} :
        req[v].pc = "commit" /\ req[v].op \in {"remove", "move_out"} /\ req[v].hit
            /\ req[v].stay = s

\* Mutant of Insert: no unique index on the primary resident.
Insert_AnyPrimary(u, primary, origin) ==
    /\ \A s \in Residents : stay[s].user # u
    /\ \E s \in Stays :
           /\ stay[s].status = "none"
           /\ stay' = [stay EXCEPT ![s] =
                  [status |-> "active", user |-> u, primary |-> primary,
                   origin |-> origin]]

\* The insert of an active stay.  The unique indexes allow a user one of them,
\* and the flat one that is primary; rows that somebody is about to release
\* count, the insert waits for them.
Insert(u, primary, origin) ==
    /\ \A s \in Residents : stay[s].user # u
    /\ primary => Primaries = {}
    /\ \E s \in Stays :
           /\ stay[s].status = "none"
           /\ stay' = [stay EXCEPT ![s] =
                  [status |-> "active", user |-> u, primary |-> primary,
                   origin |-> origin]]

-----------------------------------------------------------------------------
(***************************************************************************)
(* The flat: one statement each.                                           *)
(***************************************************************************)
Tick ==
    /\ now < MaxTime
    /\ now' = now + 1
    /\ UNCHANGED <<flat, shutAt, stay, claim, req>>

EditFlat(row) ==
    /\ WriteFlat(row)
    /\ UNCHANGED <<now, stay, claim, req>>

BlockFlat   == flat.active /\ EditFlat([flat EXCEPT !.status = "blocked"])
UnblockFlat == flat.status = "blocked" /\ EditFlat([flat EXCEPT !.status = "vacant"])
DeleteFlat  == EditFlat([flat EXCEPT !.active = FALSE])

\* A PATCH may set the status and the flag to anything, or leave them.
UpdateFlat == \E row \in FlatRow : EditFlat(row)

-----------------------------------------------------------------------------
(***************************************************************************)
(* Arrivals.  The checks of the actor, the society and the quotas, wherever*)
(* they are made, can only refuse: Fail.                                   *)
(***************************************************************************)
Start(w, op, pc, r) ==
    /\ req[w].pc = "idle"
    /\ req' = [req EXCEPT ![w] =
           [r EXCEPT !.op = op, !.pc = pc, !.deadline = now + Timeout]]
    /\ UNCHANGED <<now, flat, shutAt, stay, claim>>

AddResidentToFlat(w, u, primary) ==
    Start(w, "add", "flat", [Idle EXCEPT !.user = u, !.primary = primary])

\* requireResident finds the row, whatever its status.
LeaveFlat(w, op, s) ==
    /\ stay[s].status # "none"
    /\ Start(w, op, "leave", [Idle EXCEPT !.stay = s])

RemoveResidentFromFlat(w, s) == LeaveFlat(w, "remove", s)
MoveOutResident(w, s)        == LeaveFlat(w, "move_out", s)

ChangePrimaryResident(w, s) ==
    /\ stay[s].status # "none"
    /\ Start(w, "set_primary", "current", [Idle EXCEPT !.stay = s])

SubmitFlatClaim(w, u, primary) ==
    Start(w, "submit", "flat", [Idle EXCEPT !.user = u, !.primary = primary])

ApproveFlatClaim(w, c) == Start(w, "approve", "claim", [Idle EXCEPT !.claim = c])
RejectFlatClaim(w, c)  == Start(w, "reject", "commit", [Idle EXCEPT !.claim = c])

\* The UPDATE asks for the user's own claim.
CancelMyFlatClaim(w, c) == Start(w, "cancel", "commit", [Idle EXCEPT !.claim = c])

-----------------------------------------------------------------------------
(***************************************************************************)
(* The reads.                                                              *)
(***************************************************************************)
At(w, pc) == req[w].pc = pc /\ now <= req[w].deadline

Proceed(w, r) ==
    /\ req' = [req EXCEPT ![w] = r]
    /\ UNCHANGED <<now, flat, shutAt, stay, claim>>

\* The claim is read by id and status; who claims, and what, never changes.
ReadClaim(w) ==
    LET c == req[w].claim IN
    /\ At(w, "claim")
    /\ claim[c].status = "pending"
    /\ Proceed(w, [req[w] EXCEPT !.pc = "flat", !.user = claim[c].user,
                                 !.primary = claim[c].primary])

\* Mutant: the flat is looked up, its state is not.
ReadFlat_AnyFlat(w) ==
    /\ At(w, "flat")
    /\ Proceed(w, [req[w] EXCEPT !.pc =
           IF req[w].op # "submit" /\ req[w].primary THEN "primaries" ELSE "commit"])

ReadFlat(w) ==
    /\ At(w, "flat")
    /\ Open(flat)
    /\ Proceed(w, [req[w] EXCEPT !.pc =
           IF req[w].op # "submit" /\ req[w].primary THEN "primaries" ELSE "commit"])

CountPrimary(w) ==
    /\ At(w, "primaries")
    /\ Primaries = {}
    /\ Proceed(w, [req[w] EXCEPT !.pc = "commit"])

\* ChangePrimaryResident reads the resident it is to promote.
ReadCurrent(w) ==
    /\ At(w, "current")
    /\ stay[req[w].stay].status = "active"
    /\ Proceed(w, [req[w] EXCEPT !.pc = "commit", !.seen = Primaries])

\* The first two statements of a removal: the row is written, or is found not
\* to be active, which only a move refuses; then the others are counted.
Leave(w) ==
    LET r   == req[w]
        hit == stay[r.stay].status = "active"
    IN  /\ At(w, "leave")
        /\ hit => ~LockedByOther(w, r.stay)
        /\ hit \/ r.op = "remove"
        /\ Proceed(w, [r EXCEPT !.pc = "commit", !.hit = hit,
                                !.seen = Residents \ {r.stay}])

\* Any error return, rollback, deadline or disconnect.
Fail(w) ==
    /\ req[w].pc # "idle"
    /\ Proceed(w, Idle)

-----------------------------------------------------------------------------
(***************************************************************************)
(* The writes.                                                             *)
(***************************************************************************)
Committing(w, ops) ==
    /\ At(w, "commit")
    /\ req[w].op \in ops
    /\ req' = [req EXCEPT ![w] = Idle]
    /\ UNCHANGED now

CommitAdd(w) ==
    /\ Committing(w, {"add"})
    /\ Insert(req[w].user, req[w].primary, NoClaim)
    /\ Mark("occupied")
    /\ UNCHANGED claim

\* Mutant: the flat is vacated with every resident who leaves.
CommitLeave_AlwaysVacant(w) ==
    LET r == req[w] IN
    /\ Committing(w, {"remove", "move_out"})
    /\ stay' = IF r.hit
               THEN [stay EXCEPT ![r.stay].status =
                         IF r.op = "remove" THEN "inactive" ELSE "moved_out",
                     ![r.stay].primary = FALSE]
               ELSE stay
    /\ Mark("vacant")
    /\ UNCHANGED claim

\* The flat is marked vacant if the count found nobody, and whether or not the
\* row was active.
CommitLeave(w) ==
    LET r == req[w] IN
    /\ Committing(w, {"remove", "move_out"})
    /\ stay' = IF r.hit
               THEN [stay EXCEPT ![r.stay].status =
                         IF r.op = "remove" THEN "inactive" ELSE "moved_out",
                     ![r.stay].primary = FALSE]
               ELSE stay
    /\ IF r.seen = {} THEN Mark("vacant") ELSE UNCHANGED <<flat, shutAt>>
    /\ UNCHANGED claim

\* SetPrimary does not clear the flag of the resident who has it: the unique
\* index decides.
CommitSetPrimary(w) ==
    LET s == req[w].stay IN
    /\ Committing(w, {"set_primary"})
    /\ s \in Residents /\ ~LockedByOther(w, s)
    /\ Primaries \subseteq {s}
    /\ stay' = [stay EXCEPT ![s].primary = TRUE]
    /\ UNCHANGED <<flat, shutAt, claim>>

SetPrimaryConflict(w) ==
    /\ At(w, "commit") /\ req[w].op = "set_primary"
    /\ req[w].stay \in Residents /\ ~LockedByOther(w, req[w].stay)
    /\ \E s \in Primaries \ {req[w].stay} : ~LockedByOther(w, s)
    /\ Proceed(w, [req[w] EXCEPT !.pc = "conflict"])

CommitSubmit(w) ==
    /\ Committing(w, {"submit"})
    /\ \A c \in Claims : claim[c].status = "pending" => claim[c].user # req[w].user
    /\ \E c \in Claims :
           /\ claim[c].status = "none"
           /\ claim' = [claim EXCEPT ![c] =
                  [status |-> "pending", user |-> req[w].user,
                   primary |-> req[w].primary]]
    /\ UNCHANGED <<flat, shutAt, stay>>

\* Mutant: Approve looks at the id alone.
CommitApprove_AnyStatus(w) ==
    /\ Committing(w, {"approve"})
    /\ Insert(req[w].user, req[w].primary, req[w].claim)
    /\ Mark("occupied")
    /\ claim' = [claim EXCEPT ![req[w].claim].status = "approved"]

CommitApprove(w) ==
    /\ Committing(w, {"approve"})
    /\ Insert(req[w].user, req[w].primary, req[w].claim)
    /\ Mark("occupied")
    /\ claim[req[w].claim].status = "pending"
    /\ claim' = [claim EXCEPT ![req[w].claim].status = "approved"]

\* Mutant: a status the schema spells otherwise.
CommitClose_Misspelt(w) ==
    /\ Committing(w, {"reject", "cancel"})
    /\ claim[req[w].claim].status = "pending"
    /\ claim' = [claim EXCEPT ![req[w].claim].status =
           IF req[w].op = "reject" THEN "rejected" ELSE "canceled"]
    /\ UNCHANGED <<flat, shutAt, stay>>

CommitClose(w) ==
    /\ Committing(w, {"reject", "cancel"})
    /\ claim[req[w].claim].status = "pending"
    /\ claim' = [claim EXCEPT ![req[w].claim].status =
           IF req[w].op = "reject" THEN "rejected" ELSE "cancelled"]
    /\ UNCHANGED <<flat, shutAt, stay>>

-----------------------------------------------------------------------------
Called(op) == op \in Operations

FlatEdit ==
    \/ Called("block") /\ BlockFlat
    \/ Called("unblock") /\ UnblockFlat
    \/ Called("delete") /\ DeleteFlat
    \/ Called("update") /\ UpdateFlat

Arrival(w) ==
    \/ \E u \in Users, primary \in BOOLEAN :
           \/ Called("add") /\ AddResidentToFlat(w, u, primary)
           \/ Called("submit") /\ SubmitFlatClaim(w, u, primary)
    \/ \E s \in Stays :
           \/ Called("remove") /\ RemoveResidentFromFlat(w, s)
           \/ Called("move_out") /\ MoveOutResident(w, s)
           \/ Called("set_primary") /\ ChangePrimaryResident(w, s)
    \/ \E c \in Claims :
           \/ Called("approve") /\ ApproveFlatClaim(w, c)
           \/ Called("reject") /\ RejectFlatClaim(w, c)
           \/ Called("cancel") /\ CancelMyFlatClaim(w, c)

Read(w) ==
    \/ ReadClaim(w) \/ ReadFlat(w) \/ CountPrimary(w) \/ ReadCurrent(w)
    \/ Leave(w) \/ SetPrimaryConflict(w)

Commit(w) ==
    \/ CommitAdd(w) \/ CommitLeave(w) \/ CommitSetPrimary(w)
    \/ CommitSubmit(w) \/ CommitApprove(w) \/ CommitClose(w)

Next ==
    \/ Tick \/ FlatEdit
    \/ \E w \in Workers : Arrival(w) \/ Read(w) \/ Commit(w) \/ Fail(w)

Spec == Init /\ [][Next]_vars
=============================================================================
