-------------------------- MODULE OccupancyProofs --------------------------
(***************************************************************************)
(* The properties of the flat, its residents and its claims, proved for    *)
(* every value of the constants.                                           *)
(***************************************************************************)
EXTENDS OccupancyProperties, TLAPS

Leaves(r)  == r.op \in {"remove", "move_out"}
MovesIn(r) == r.op \in {"add", "submit", "approve"}

\* What a request names exists, and its deadline is no further than a timeout.
Pointed(r) ==
    /\ r.op \in {"remove", "move_out", "set_primary"} =>
           r.stay \in Stays /\ stay[r.stay].status # "none"
    /\ r.op \in {"approve", "reject", "cancel"} => r.claim \in Claims
    /\ r.deadline <= now + Timeout

OnPath(r) ==
    /\ r.pc = "claim" => r.op = "approve"
    /\ r.pc \in {"flat", "primaries"} => MovesIn(r)
    /\ r.pc = "leave" => Leaves(r)
    /\ r.pc = "current" => r.op = "set_primary"

\* An approval remembers the user of its claim.
ReadTheClaim(r) ==
    r.op = "approve" /\ r.pc \in {"flat", "primaries", "commit"} =>
        claim[r.claim].status # "none" /\ claim[r.claim].user = r.user

\* Who is to move in found the flat open, and it still is, or was recently.
RecentFlat(r) ==
    MovesIn(r) /\ r.pc \in {"primaries", "commit"} =>
        Open(flat) \/ r.deadline <= shutAt + Timeout

\* A removal that hit no active row will find none later.
GoneBefore(r) ==
    Leaves(r) /\ r.pc = "commit" /\ ~r.hit => stay[r.stay].status # "active"

Sound(r) ==
    Pointed(r) /\ OnPath(r) /\ ReadTheClaim(r) /\ RecentFlat(r) /\ GoneBefore(r)

FreshStays == \A s \in Stays : stay[s].status = "none" => stay[s].origin = NoClaim

Inv == TypeOK /\ FreshStays /\ ClaimSettledOnce /\ \A w \in Workers : Sound(req[w])

-----------------------------------------------------------------------------
LEMMA IdleSound == ASSUME TypeOK PROVE Idle \in Request /\ Sound(Idle)
<1>1. now \in Nat /\ Timeout \in Nat
  BY ConstantsOK DEF TypeOK
<1>2. Idle \in Request
  BY DEF Idle, Request, Phases
<1>3. Sound(Idle)
  BY <1>1
  DEF Idle, Sound, Pointed, OnPath, ReadTheClaim, RecentFlat, GoneBefore,
      Leaves, MovesIn, NoDeadline
<1> QED
  BY <1>2, <1>3

LEMMA InitInv == Init => Inv
<1> SUFFICES ASSUME Init PROVE Inv
  OBVIOUS
<1>1. Timeout \in Nat
  BY ConstantsOK
<1>2. /\ Never \in Int /\ Idle \in Request
      /\ [status |-> "vacant", active |-> TRUE] \in FlatRow
      /\ [status |-> "none", user |-> NoUser, primary |-> FALSE, origin |-> NoClaim] \in StayRow
      /\ [status |-> "none", user |-> NoUser, primary |-> FALSE] \in ClaimRow
  BY <1>1 DEF Never, Idle, Request, Phases, FlatRow, FlatStatuses, StayRow, ClaimRow
<1>3. TypeOK
  BY <1>2 DEF Init, TypeOK
<1>4. FreshStays /\ ClaimSettledOnce
  BY DEF Init, FreshStays, ClaimSettledOnce
<1>5. \A w \in Workers : Sound(req[w])
  BY <1>3, IdleSound DEF Init
<1> QED
  BY <1>3, <1>4, <1>5 DEF Inv

(***************************************************************************)
(* How the tables change in one step: rows stay, claims keep their user,   *)
(* nobody comes back to a stay, and a flat is dated when it shuts.         *)
(***************************************************************************)
FlatKept ==
    /\ flat' \in FlatRow /\ shutAt' \in Int
    /\ Open(flat') \/ shutAt' = now \/ (shutAt' = shutAt /\ ~Open(flat))

StaysKept ==
    /\ stay' \in [Stays -> StayRow]
    /\ \A s \in Stays :
           stay[s].status # "none" =>
               /\ stay'[s].status # "none"
               /\ stay[s].status # "active" => stay'[s].status # "active"

ClaimsKept ==
    /\ claim' \in [Claims -> ClaimRow]
    /\ \A c \in Claims :
           claim[c].status # "none" =>
               claim'[c].status # "none" /\ claim'[c].user = claim[c].user

LEMMA FlatSame == ASSUME TypeOK, UNCHANGED <<flat, shutAt>> PROVE FlatKept
  BY DEF TypeOK, FlatKept

LEMMA FlatWritten ==
    ASSUME TypeOK, NEW row \in FlatRow, WriteFlat(row)
    PROVE  FlatKept
  BY DEF TypeOK, FlatKept, WriteFlat

LEMMA FlatMarked ==
    ASSUME TypeOK, NEW status \in FlatStatuses, Mark(status)
    PROVE  FlatKept
<1>1. [flat EXCEPT !.status = status] \in FlatRow /\ flat \in FlatRow
  BY DEF TypeOK, FlatRow
<1> QED
  BY <1>1, FlatWritten DEF Mark

\* The row an insert makes, where there was none.
LEMMA Inserted ==
    ASSUME TypeOK, NEW u \in Users \cup {NoUser}, NEW p \in BOOLEAN,
           NEW o \in Claims \cup {NoClaim}, Insert(u, p, o)
    PROVE  \E s \in Stays :
               /\ stay[s].status = "none"
               /\ stay' = [stay EXCEPT ![s] =
                      [status |-> "active", user |-> u, primary |-> p, origin |-> o]]
               /\ stay'[s].status = "active" /\ stay'[s].user = u /\ stay'[s].origin = o
               /\ \A t \in Stays \ {s} : stay'[t] = stay[t]
               /\ StaysKept
<1>1. PICK s \in Stays :
          /\ stay[s].status = "none"
          /\ stay' = [stay EXCEPT ![s] =
                 [status |-> "active", user |-> u, primary |-> p, origin |-> o]]
  BY DEF Insert
<1>2. /\ stay \in [Stays -> StayRow]
      /\ [status |-> "active", user |-> u, primary |-> p, origin |-> o] \in StayRow
  BY DEF TypeOK, StayRow
<1>3. StaysKept
  BY <1>1, <1>2 DEF StaysKept
<1> QED
  BY <1>1, <1>2, <1>3

LEMMA FlatEdits ==
    ASSUME TypeOK, FlatEdit
    PROVE  FlatKept /\ UNCHANGED <<now, stay, claim, req>>
<1>1. /\ flat \in FlatRow
      /\ [flat EXCEPT !.status = "blocked"] \in FlatRow
      /\ [flat EXCEPT !.status = "vacant"] \in FlatRow
      /\ [flat EXCEPT !.active = FALSE] \in FlatRow
  BY DEF TypeOK, FlatRow, FlatStatuses
<1>2. PICK row \in FlatRow : EditFlat(row)
  BY <1>1 DEF FlatEdit, BlockFlat, UnblockFlat, DeleteFlat, UpdateFlat
<1> QED
  BY <1>2, FlatWritten DEF EditFlat

(***************************************************************************)
(* The writes.                                                             *)
(***************************************************************************)
LEMMA LeftRow ==
    ASSUME NEW old \in StayRow, NEW to \in {"inactive", "moved_out"}
    PROVE  LET row == [old EXCEPT !.status = to, !.primary = FALSE]
           IN  /\ row \in StayRow /\ row.status = to
               /\ row.user = old.user /\ row.origin = old.origin
  BY DEF StayRow

\* A removal's write of the row that leaves.
LEMMA LeaveTables ==
    ASSUME Inv, NEW w \in Workers, CommitLeave(w)
    PROVE  /\ req[w].stay \in Stays
           /\ \A s \in Stays :
                  /\ stay'[s].user = stay[s].user /\ stay'[s].origin = stay[s].origin
                  /\ stay'[s].status = "active" <=>
                         stay[s].status = "active" /\ s # req[w].stay
           /\ StaysKept /\ FlatKept /\ UNCHANGED claim
<1> DEFINE r == req[w]
           to == IF r.op = "remove" THEN "inactive" ELSE "moved_out"
<1>1. /\ TypeOK /\ stay \in [Stays -> StayRow]
      /\ Pointed(r) /\ GoneBefore(r)
  BY DEF Inv, TypeOK, Sound
<1>2. Leaves(r) /\ r.pc = "commit" /\ r.stay \in Stays /\ stay[r.stay].status # "none"
  BY <1>1 DEF CommitLeave, Committing, At, Leaves, Pointed
<1>3. to \in {"inactive", "moved_out"}
  OBVIOUS
<1>4. FlatKept
  BY <1>1, FlatMarked, FlatSame DEF CommitLeave, FlatStatuses
<1>5. CASE r.hit
  <2>1. stay' = [stay EXCEPT ![r.stay].status = to, ![r.stay].primary = FALSE]
    BY <1>5 DEF CommitLeave
  <2> DEFINE row == [stay[r.stay] EXCEPT !.status = to, !.primary = FALSE]
  <2> HIDE DEF to
  <2>a. /\ row \in StayRow /\ row.status = to
        /\ row.user = stay[r.stay].user /\ row.origin = stay[r.stay].origin
    BY <1>1, <1>2, <1>3, LeftRow
  <2>b. stay' = [stay EXCEPT ![r.stay] = row]
    BY <2>1, <1>1, <1>2
  <2> HIDE DEF row
  <2>2. /\ \A s \in Stays \ {r.stay} : stay'[s] = stay[s]
        /\ stay'[r.stay].status = to /\ stay'[r.stay].user = stay[r.stay].user
        /\ stay'[r.stay].origin = stay[r.stay].origin
        /\ stay' \in [Stays -> StayRow]
    BY <2>a, <2>b, <1>1, <1>2
  <2> QED
    BY <2>2, <1>2, <1>3, <1>4 DEF StaysKept, CommitLeave
<1>6. CASE ~r.hit
  BY <1>1, <1>2, <1>4, <1>6 DEF CommitLeave, GoneBefore, StaysKept
<1> QED
  BY <1>5, <1>6

LEMMA CommitTables ==
    ASSUME Inv, NEW w \in Workers, Commit(w)
    PROVE  /\ StaysKept /\ ClaimsKept /\ FlatKept /\ UNCHANGED now
           /\ FreshStays' /\ ClaimSettledOnce'
<1> DEFINE r == req[w]
<1>1. /\ TypeOK /\ stay \in [Stays -> StayRow] /\ claim \in [Claims -> ClaimRow]
      /\ r \in Request /\ Sound(r) /\ FreshStays /\ ClaimSettledOnce
      /\ NoClaim \notin Claims
  BY ConstantsOK DEF Inv, TypeOK
<1>2. r.user \in Users \cup {NoUser} /\ r.primary \in BOOLEAN
  BY <1>1 DEF Request
<1>3. UNCHANGED claim => ClaimsKept
  BY <1>1 DEF ClaimsKept
<1>4. UNCHANGED stay => StaysKept
  BY <1>1 DEF StaysKept
<1>5. CASE CommitAdd(w)
  <2>1. Insert(r.user, r.primary, NoClaim) /\ Mark("occupied") /\ UNCHANGED <<now, claim>>
    BY <1>5 DEF CommitAdd, Committing
  <2>2. PICK s \in Stays :
            /\ stay[s].status = "none"
            /\ stay'[s].status = "active" /\ stay'[s].origin = NoClaim
            /\ \A t \in Stays \ {s} : stay'[t] = stay[t]
            /\ StaysKept
    BY <1>1, <1>2, <2>1, Inserted
  <2>3. FlatKept
    BY <1>1, <2>1, FlatMarked DEF FlatStatuses
  <2>4. FreshStays'
    BY <1>1, <2>2 DEF FreshStays
  <2>5. ClaimSettledOnce'
    <3>1. \A t \in Stays : stay'[t].origin # NoClaim => stay'[t] = stay[t]
      BY <2>2
    <3>2. \A t \in Stays : stay[t].origin # NoClaim => stay'[t] = stay[t]
      BY <2>2, <1>1 DEF FreshStays
    <3> QED
      BY <3>1, <3>2, <2>1, <1>1 DEF ClaimSettledOnce
  <2> QED
    BY <2>1, <2>2, <2>3, <2>4, <2>5, <1>3
<1>6. CASE CommitLeave(w)
  <2>1. /\ \A s \in Stays :
               /\ stay'[s].user = stay[s].user /\ stay'[s].origin = stay[s].origin
        /\ StaysKept /\ FlatKept /\ UNCHANGED <<now, claim>>
    BY <1>6, LeaveTables DEF CommitLeave, Committing
  <2>2. FreshStays'
    BY <1>1, <2>1 DEF FreshStays, StaysKept
  <2>3. ClaimSettledOnce'
    BY <1>1, <2>1 DEF ClaimSettledOnce
  <2> QED
    BY <2>1, <2>2, <2>3, <1>3
<1>7. CASE CommitSetPrimary(w)
  <2>1. /\ r.stay \in Stays /\ stay[r.stay].status = "active"
        /\ stay' = [stay EXCEPT ![r.stay].primary = TRUE]
        /\ UNCHANGED <<now, flat, shutAt, claim>>
    BY <1>7 DEF CommitSetPrimary, Committing, Residents, ResidentsIn
  <2>2. /\ \A s \in Stays :
               /\ stay'[s].user = stay[s].user /\ stay'[s].origin = stay[s].origin
               /\ stay'[s].status = stay[s].status
        /\ stay' \in [Stays -> StayRow]
    BY <1>1, <2>1 DEF StayRow
  <2>3. StaysKept /\ FreshStays' /\ ClaimSettledOnce'
    BY <1>1, <2>1, <2>2 DEF StaysKept, FreshStays, ClaimSettledOnce
  <2> QED
    BY <1>1, <1>3, <2>1, <2>3, FlatSame
<1>8. CASE CommitSubmit(w)
  <2>1. UNCHANGED <<now, flat, shutAt, stay>>
    BY <1>8 DEF CommitSubmit, Committing
  <2>2. PICK c \in Claims :
            /\ claim[c].status = "none"
            /\ claim' = [claim EXCEPT ![c] =
                   [status |-> "pending", user |-> r.user, primary |-> r.primary]]
    BY <1>8 DEF CommitSubmit
  <2>3. /\ claim' \in [Claims -> ClaimRow] /\ claim'[c].status = "pending"
        /\ \A d \in Claims \ {c} : claim'[d] = claim[d]
    BY <1>1, <1>2, <2>2 DEF ClaimRow
  <2>4. ClaimsKept
    BY <2>2, <2>3 DEF ClaimsKept
  <2>5. \A s \in Stays : stay[s].origin # NoClaim =>
            stay[s].origin \in Claims /\ stay[s].origin # c
    BY <1>1, <2>2 DEF ClaimSettledOnce, StayRow
  <2>6. ClaimSettledOnce' /\ FreshStays'
    BY <1>1, <2>1, <2>3, <2>5 DEF ClaimSettledOnce, FreshStays
  <2> QED
    BY <1>1, <1>4, <2>1, <2>4, <2>6, FlatSame
<1>9. CASE CommitApprove(w)
  <2> DEFINE c == r.claim
  <2>1. /\ Insert(r.user, r.primary, c) /\ Mark("occupied") /\ UNCHANGED now
        /\ claim[c].status = "pending"
        /\ claim' = [claim EXCEPT ![c].status = "approved"]
        /\ r.op = "approve" /\ r.pc = "commit"
    BY <1>9 DEF CommitApprove, Committing, At
  <2>2. c \in Claims /\ claim[c].user = r.user
    BY <1>1, <2>1 DEF Sound, Pointed, ReadTheClaim
  <2>3. PICK s \in Stays :
            /\ stay[s].status = "none"
            /\ stay'[s].status = "active" /\ stay'[s].user = r.user /\ stay'[s].origin = c
            /\ \A t \in Stays \ {s} : stay'[t] = stay[t]
            /\ StaysKept
    BY <1>1, <1>2, <2>1, <2>2, Inserted
  <2>4. FlatKept
    BY <1>1, <2>1, FlatMarked DEF FlatStatuses
  <2>5. /\ claim' \in [Claims -> ClaimRow]
        /\ claim'[c].status = "approved" /\ claim'[c].user = claim[c].user
        /\ \A d \in Claims \ {c} : claim'[d] = claim[d]
    BY <1>1, <2>1, <2>2 DEF ClaimRow
  <2>6. ClaimsKept
    BY <2>1, <2>5 DEF ClaimsKept
  <2>7. FreshStays'
    BY <1>1, <2>3 DEF FreshStays
  <2>8. ClaimSettledOnce'
    <3>1. \A t \in Stays : stay[t].origin # c
      BY <1>1, <2>1, <2>2 DEF ClaimSettledOnce
    <3>2. stay[s].origin = NoClaim
      BY <1>1, <2>3 DEF FreshStays
    <3>3. \A t \in Stays \ {s} : stay[t].origin # NoClaim =>
              stay[t].origin \in Claims /\ stay[t].origin # c
      BY <1>1, <3>1 DEF StayRow
    <3>4. ASSUME NEW t \in Stays, stay'[t].origin # NoClaim
          PROVE  /\ claim'[stay'[t].origin].status = "approved"
                 /\ claim'[stay'[t].origin].user = stay'[t].user
      BY <3>3, <3>4, <2>2, <2>3, <2>5, <1>1 DEF ClaimSettledOnce
    <3>5. ASSUME NEW t \in Stays, NEW u \in Stays, t # u, stay'[t].origin = stay'[u].origin
          PROVE  stay'[t].origin = NoClaim
      BY <3>1, <3>5, <2>3, <1>1 DEF ClaimSettledOnce
    <3>6. ASSUME NEW d \in Claims, claim'[d].status = "approved"
          PROVE  \E t \in Stays : stay'[t].origin = d
      <4>1. CASE d = c
        BY <4>1, <2>3
      <4>2. CASE d # c
        <5>1. PICK t \in Stays : stay[t].origin = d
          BY <4>2, <3>6, <2>5, <1>1 DEF ClaimSettledOnce
        <5>2. t # s
          BY <5>1, <3>2, <1>1
        <5> QED
          BY <5>1, <5>2, <2>3
      <4> QED
        BY <4>1, <4>2
    <3> QED
      BY <3>4, <3>5, <3>6 DEF ClaimSettledOnce
  <2> QED
    BY <2>1, <2>3, <2>4, <2>6, <2>7, <2>8
<1>10. CASE CommitClose(w)
  <2> DEFINE c  == r.claim
             to == IF r.op = "reject" THEN "rejected" ELSE "cancelled"
  <2>1. /\ claim[c].status = "pending"
        /\ claim' = [claim EXCEPT ![c].status = to]
        /\ UNCHANGED <<now, flat, shutAt, stay>>
        /\ r.op \in {"reject", "cancel"}
    BY <1>10 DEF CommitClose, Committing
  <2>2. c \in Claims /\ to \in {"rejected", "cancelled"}
    BY <1>1, <2>1 DEF Sound, Pointed
  <2> HIDE DEF to
  <2>3. /\ claim' \in [Claims -> ClaimRow]
        /\ claim'[c].status = to /\ claim'[c].user = claim[c].user
        /\ \A d \in Claims \ {c} : claim'[d] = claim[d]
    BY <1>1, <2>1, <2>2 DEF ClaimRow
  <2>4. ClaimsKept
    BY <2>1, <2>2, <2>3 DEF ClaimsKept
  <2>5. \A s \in Stays : stay[s].origin # NoClaim =>
            stay[s].origin \in Claims /\ stay[s].origin # c
    BY <1>1, <2>1 DEF ClaimSettledOnce, StayRow
  <2>6. ClaimSettledOnce' /\ FreshStays'
    BY <1>1, <2>1, <2>2, <2>3, <2>5 DEF ClaimSettledOnce, FreshStays
  <2> QED
    BY <1>1, <1>4, <2>1, <2>4, <2>6, FlatSame
<1> QED
  BY <1>5, <1>6, <1>7, <1>8, <1>9, <1>10 DEF Commit

(***************************************************************************)
(* The requests.                                                           *)
(***************************************************************************)
LEMMA Arrived ==
    ASSUME Inv, NEW w \in Workers, Arrival(w)
    PROVE  /\ \E r \in Request : Sound(r) /\ req' = [req EXCEPT ![w] = r]
           /\ UNCHANGED <<now, flat, shutAt, stay, claim>>
<1>1. now \in Nat /\ Timeout \in Nat
  BY ConstantsOK DEF Inv, TypeOK
<1>2. ASSUME NEW op \in StayOps \cup ClaimOps, NEW pc \in Phases, NEW q \in Request,
             Start(w, op, pc, q),
             \/ op \in {"add", "submit"} /\ pc = "flat"
             \/ op \in {"remove", "move_out"} /\ pc = "leave"
                 /\ q.stay \in Stays /\ stay[q.stay].status # "none"
             \/ op = "set_primary" /\ pc = "current"
                 /\ q.stay \in Stays /\ stay[q.stay].status # "none"
             \/ op = "approve" /\ pc = "claim" /\ q.claim \in Claims
             \/ op \in {"reject", "cancel"} /\ pc = "commit" /\ q.claim \in Claims
      PROVE  /\ \E r \in Request : Sound(r) /\ req' = [req EXCEPT ![w] = r]
             /\ UNCHANGED <<now, flat, shutAt, stay, claim>>
  <2> DEFINE r == [q EXCEPT !.op = op, !.pc = pc, !.deadline = now + Timeout]
  <2>a. now + Timeout \in Nat
    BY <1>1
  <2>b. r \in Request
    BY <2>a DEF Request
  <2>c. /\ r.op = op /\ r.pc = pc /\ r.deadline = now + Timeout
        /\ r.stay = q.stay /\ r.claim = q.claim
    BY DEF Request
  <2>1. /\ r \in Request /\ r.op = op /\ r.pc = pc /\ r.deadline = now + Timeout
        /\ r.stay = q.stay /\ r.claim = q.claim
    BY <2>b, <2>c
  <2>2. req' = [req EXCEPT ![w] = r] /\ UNCHANGED <<now, flat, shutAt, stay, claim>>
    BY <1>2 DEF Start
  <2> HIDE DEF r
  <2>3. Pointed(r) /\ OnPath(r)
    BY <1>1, <1>2, <2>1 DEF Pointed, OnPath, MovesIn, Leaves
  <2>4. ReadTheClaim(r) /\ RecentFlat(r) /\ GoneBefore(r)
    BY <1>2, <2>1 DEF ReadTheClaim, RecentFlat, GoneBefore, MovesIn, Leaves
  <2> QED
    BY <2>1, <2>2, <2>3, <2>4 DEF Sound
<1>3. Idle \in Request
  BY IdleSound DEF Inv
<1>4. ASSUME NEW u \in Users, NEW primary \in BOOLEAN,
             AddResidentToFlat(w, u, primary) \/ SubmitFlatClaim(w, u, primary)
      PROVE  /\ \E r \in Request : Sound(r) /\ req' = [req EXCEPT ![w] = r]
             /\ UNCHANGED <<now, flat, shutAt, stay, claim>>
  <2> DEFINE q == [Idle EXCEPT !.user = u, !.primary = primary]
  <2>1. q \in Request
    BY <1>3 DEF Request
  <2>2. Start(w, "add", "flat", q) \/ Start(w, "submit", "flat", q)
    BY <1>4 DEF AddResidentToFlat, SubmitFlatClaim
  <2> HIDE DEF q
  <2> QED
    BY <2>1, <2>2, <1>2 DEF StayOps, ClaimOps, Phases
<1>5. ASSUME NEW s \in Stays,
             \/ RemoveResidentFromFlat(w, s) \/ MoveOutResident(w, s)
             \/ ChangePrimaryResident(w, s)
      PROVE  /\ \E r \in Request : Sound(r) /\ req' = [req EXCEPT ![w] = r]
             /\ UNCHANGED <<now, flat, shutAt, stay, claim>>
  <2> DEFINE q == [Idle EXCEPT !.stay = s]
  <2>1. q \in Request /\ q.stay = s
    BY <1>3 DEF Request
  <2>2. /\ stay[s].status # "none"
        /\ \/ Start(w, "remove", "leave", q) \/ Start(w, "move_out", "leave", q)
           \/ Start(w, "set_primary", "current", q)
    BY <1>5
    DEF RemoveResidentFromFlat, MoveOutResident, LeaveFlat, ChangePrimaryResident
  <2> HIDE DEF q
  <2> QED
    BY <2>1, <2>2, <1>2 DEF StayOps, ClaimOps, Phases
<1>6. ASSUME NEW c \in Claims,
             \/ ApproveFlatClaim(w, c) \/ RejectFlatClaim(w, c) \/ CancelMyFlatClaim(w, c)
      PROVE  /\ \E r \in Request : Sound(r) /\ req' = [req EXCEPT ![w] = r]
             /\ UNCHANGED <<now, flat, shutAt, stay, claim>>
  <2> DEFINE q == [Idle EXCEPT !.claim = c]
  <2>1. q \in Request /\ q.claim = c
    BY <1>3 DEF Request
  <2>2. \/ Start(w, "approve", "claim", q) \/ Start(w, "reject", "commit", q)
        \/ Start(w, "cancel", "commit", q)
    BY <1>6 DEF ApproveFlatClaim, RejectFlatClaim, CancelMyFlatClaim
  <2> HIDE DEF q
  <2> QED
    BY <2>1, <2>2, <1>2 DEF StayOps, ClaimOps, Phases
<1> QED
  BY <1>4, <1>5, <1>6 DEF Arrival

\* A read that succeeds saw what the invariant says of the next phase.
LEMMA Reads ==
    ASSUME Inv, NEW w \in Workers, Read(w)
    PROVE  /\ \E r \in Request : Sound(r) /\ req' = [req EXCEPT ![w] = r]
           /\ UNCHANGED <<now, flat, shutAt, stay, claim>>
<1> DEFINE q == req[w]
<1>1. /\ q \in Request /\ Sound(q)
      /\ stay \in [Stays -> StayRow] /\ claim \in [Claims -> ClaimRow]
  BY DEF Inv, TypeOK
<1>2. CASE ReadClaim(w)
  <2> DEFINE c == q.claim
             r == [q EXCEPT !.pc = "flat", !.user = claim[c].user,
                            !.primary = claim[c].primary]
  <2>1. q.pc = "claim" /\ claim[c].status = "pending" /\ Proceed(w, r)
    BY <1>2 DEF ReadClaim, At
  <2>2. q.op = "approve" /\ c \in Claims
    BY <2>1, <1>1 DEF Sound, OnPath, Pointed
  <2>3. claim[c].user \in Users \cup {NoUser} /\ claim[c].primary \in BOOLEAN
    BY <2>2, <1>1 DEF ClaimRow
  <2>4. /\ r \in Request /\ r.op = q.op /\ r.stay = q.stay /\ r.claim = c
        /\ r.deadline = q.deadline /\ r.pc = "flat" /\ r.user = claim[c].user
    BY <2>3, <1>1 DEF Request, Phases
  <2>5. Proceed(w, r) /\ claim[c].status # "none"
    BY <2>1
  <2> HIDE DEF r
  <2>6. Sound(r)
    BY <2>2, <2>4, <2>5, <1>1
    DEF Sound, Pointed, OnPath, ReadTheClaim, RecentFlat, GoneBefore, MovesIn, Leaves
  <2> QED
    BY <2>4, <2>5, <2>6 DEF Proceed
<1>3. CASE ReadFlat(w)
  <2> DEFINE pc == IF q.op # "submit" /\ q.primary THEN "primaries" ELSE "commit"
             r  == [q EXCEPT !.pc = pc]
  <2>1. q.pc = "flat" /\ Open(flat) /\ Proceed(w, r)
    BY <1>3 DEF ReadFlat, At
  <2>2. pc \in {"primaries", "commit"}
    OBVIOUS
  <2> HIDE DEF pc
  <2>3. /\ r \in Request /\ r.op = q.op /\ r.stay = q.stay /\ r.claim = q.claim
        /\ r.deadline = q.deadline /\ r.pc = pc /\ r.user = q.user
    BY <2>2, <1>1 DEF Request, Phases
  <2> HIDE DEF r
  <2>4. Sound(r)
    BY <2>1, <2>2, <2>3, <1>1
    DEF Sound, Pointed, OnPath, ReadTheClaim, RecentFlat, GoneBefore, MovesIn, Leaves
  <2> QED
    BY <2>1, <2>3, <2>4 DEF Proceed
<1>4. CASE CountPrimary(w)
  <2> DEFINE r == [q EXCEPT !.pc = "commit"]
  <2>1. q.pc = "primaries" /\ Proceed(w, r)
    BY <1>4 DEF CountPrimary, At
  <2>2. /\ r \in Request /\ r.op = q.op /\ r.stay = q.stay /\ r.claim = q.claim
        /\ r.deadline = q.deadline /\ r.pc = "commit" /\ r.user = q.user
    BY <1>1 DEF Request, Phases
  <2> HIDE DEF r
  <2>3. Sound(r)
    BY <2>1, <2>2, <1>1
    DEF Sound, Pointed, OnPath, ReadTheClaim, RecentFlat, GoneBefore, MovesIn, Leaves
  <2> QED
    BY <2>1, <2>2, <2>3 DEF Proceed
<1>5. CASE ReadCurrent(w)
  <2> DEFINE r == [q EXCEPT !.pc = "commit", !.seen = Primaries]
  <2>1. q.pc = "current" /\ Proceed(w, r)
    BY <1>5 DEF ReadCurrent, At
  <2>2. Primaries \subseteq Stays
    BY DEF Primaries, Residents, ResidentsIn
  <2>3. /\ r \in Request /\ r.op = q.op /\ r.stay = q.stay /\ r.claim = q.claim
        /\ r.deadline = q.deadline /\ r.pc = "commit" /\ r.user = q.user
    BY <2>2, <1>1 DEF Request, Phases
  <2> HIDE DEF r
  <2>4. Sound(r)
    BY <2>1, <2>3, <1>1
    DEF Sound, Pointed, OnPath, ReadTheClaim, RecentFlat, GoneBefore, MovesIn, Leaves
  <2> QED
    BY <2>1, <2>3, <2>4 DEF Proceed
<1>6. CASE Leave(w)
  <2> DEFINE hit == stay[q.stay].status = "active"
             r   == [q EXCEPT !.pc = "commit", !.hit = hit, !.seen = Residents \ {q.stay}]
  <2>1. q.pc = "leave" /\ Proceed(w, r)
    BY <1>6 DEF Leave, At
  <2>2. Residents \ {q.stay} \in SUBSET Stays /\ hit \in BOOLEAN
    BY DEF Residents, ResidentsIn
  <2>3. ~hit => stay[q.stay].status # "active"
    OBVIOUS
  <2> HIDE DEF hit
  <2>4. /\ r \in Request /\ r.op = q.op /\ r.stay = q.stay /\ r.claim = q.claim
        /\ r.deadline = q.deadline /\ r.pc = "commit" /\ r.user = q.user
    BY <2>2, <1>1 DEF Request, Phases
  <2>5. r.hit = hit
    BY <1>1 DEF Request
  <2> HIDE DEF r
  <2>6. Sound(r)
    BY <2>1, <2>3, <2>4, <2>5, <1>1
    DEF Sound, Pointed, OnPath, ReadTheClaim, RecentFlat, GoneBefore, MovesIn, Leaves
  <2> QED
    BY <2>1, <2>4, <2>6 DEF Proceed
<1>7. CASE SetPrimaryConflict(w)
  <2> DEFINE r == [q EXCEPT !.pc = "conflict"]
  <2>1. q.op = "set_primary" /\ Proceed(w, r)
    BY <1>7 DEF SetPrimaryConflict
  <2>2. /\ r \in Request /\ r.op = q.op /\ r.stay = q.stay /\ r.claim = q.claim
        /\ r.deadline = q.deadline /\ r.pc = "conflict" /\ r.user = q.user
    BY <1>1 DEF Request, Phases
  <2> HIDE DEF r
  <2>3. Sound(r)
    BY <2>1, <2>2, <1>1
    DEF Sound, Pointed, OnPath, ReadTheClaim, RecentFlat, GoneBefore, MovesIn, Leaves
  <2> QED
    BY <2>1, <2>2, <2>3 DEF Proceed
<1> QED
  BY <1>2, <1>3, <1>4, <1>5, <1>6, <1>7 DEF Read

\* A request that does not move stays sound, whatever the tables do.
LEMMA SoundStays ==
    ASSUME Inv, StaysKept, ClaimsKept, FlatKept, now' \in Nat, now' >= now,
           NEW r \in Request, Sound(r)
    PROVE  Sound(r)'
<1>1. /\ now \in Nat /\ Timeout \in Nat /\ shutAt \in Int /\ shutAt' \in Int
      /\ r.deadline \in Int
  BY ConstantsOK DEF Inv, TypeOK, FlatKept, Request, NoDeadline
<1>2. Pointed(r)'
  BY <1>1 DEF Sound, Pointed, StaysKept
<1>3. OnPath(r)'
  BY DEF Sound, OnPath, MovesIn, Leaves
<1>4. ReadTheClaim(r)'
  BY DEF Sound, Pointed, ReadTheClaim, ClaimsKept
<1>5. RecentFlat(r)'
  BY <1>1 DEF Sound, Pointed, RecentFlat, FlatKept, MovesIn, Open
<1>6. GoneBefore(r)'
  BY DEF Sound, Pointed, GoneBefore, StaysKept, Leaves
<1> QED
  BY <1>2, <1>3, <1>4, <1>5, <1>6 DEF Sound

(***************************************************************************)
(* One step, and the theorems.                                             *)
(***************************************************************************)
LEMMA CommitEnds ==
    ASSUME NEW w \in Workers, Commit(w)
    PROVE  /\ req' = [req EXCEPT ![w] = Idle]
           /\ req[w].pc = "commit" /\ now <= req[w].deadline
  BY DEF Commit, CommitAdd, CommitLeave, CommitSetPrimary, CommitSubmit,
         CommitApprove, CommitClose, Committing, At

LEMMA TablesStep ==
    ASSUME Inv, [Next]_vars
    PROVE  /\ StaysKept /\ ClaimsKept /\ FlatKept /\ now' \in Nat /\ now' >= now
           /\ FreshStays' /\ ClaimSettledOnce'
<1>1. TypeOK /\ now \in Nat /\ FreshStays /\ ClaimSettledOnce
  BY DEF Inv, TypeOK
<1>2. ASSUME UNCHANGED stay PROVE StaysKept
  BY <1>1, <1>2 DEF TypeOK, StaysKept
<1>3. ASSUME UNCHANGED claim PROVE ClaimsKept
  BY <1>1, <1>3 DEF TypeOK, ClaimsKept
<1>4. ASSUME UNCHANGED <<stay, claim>> PROVE FreshStays' /\ ClaimSettledOnce'
  BY <1>1, <1>4 DEF FreshStays, ClaimSettledOnce
<1>5. CASE UNCHANGED <<flat, shutAt, stay, claim>> /\ now' \in Nat /\ now' >= now
  BY <1>1, <1>2, <1>3, <1>4, <1>5, FlatSame
<1>6. CASE Tick \/ UNCHANGED vars
  BY <1>1, <1>5, <1>6 DEF Tick, vars
<1>7. CASE FlatEdit
  BY <1>1, <1>2, <1>3, <1>4, <1>7, FlatEdits
<1>8. ASSUME NEW w \in Workers, Arrival(w) \/ Read(w) \/ Fail(w)
      PROVE  UNCHANGED <<now, flat, shutAt, stay, claim>>
  BY <1>8, Arrived, Reads DEF Fail, Proceed
<1>9. ASSUME NEW w \in Workers, Commit(w)
      PROVE  /\ StaysKept /\ ClaimsKept /\ FlatKept /\ UNCHANGED now
             /\ FreshStays' /\ ClaimSettledOnce'
  BY <1>9, CommitTables
<1> QED
  BY <1>1, <1>5, <1>6, <1>7, <1>8, <1>9 DEF Next

LEMMA RequestsStep ==
    ASSUME Inv, [Next]_vars
    PROVE  req' \in [Workers -> Request] /\ (\A w \in Workers : Sound(req[w]))'
<1>1. /\ req \in [Workers -> Request]
      /\ \A w \in Workers : Sound(req[w])
      /\ Idle \in Request /\ Sound(Idle)
  BY IdleSound DEF Inv, TypeOK
<1>2. \A r \in Request : Sound(r) => Sound(r)'
  BY TablesStep, SoundStays
<1>3. SUFFICES \/ UNCHANGED req
               \/ \E w \in Workers, r \in Request :
                      Sound(r) /\ req' = [req EXCEPT ![w] = r]
  <2>1. req' \in [Workers -> Request] /\ \A w \in Workers : Sound(req'[w])
    BY <1>1, <1>3
  <2>2. ASSUME NEW w \in Workers PROVE Sound(req[w])'
    <3>1. PICK r \in Request : r = req'[w]
      BY <2>1
    <3>2. Sound(r)'
      BY <2>1, <3>1, <1>2
    <3> QED
      BY <3>1, <3>2
  <2> QED
    BY <2>1, <2>2
<1>4. CASE Tick \/ UNCHANGED vars
  BY <1>4 DEF Tick, vars
<1>5. CASE FlatEdit
  BY <1>5, FlatEdits DEF Inv
<1>6. ASSUME NEW w \in Workers, Arrival(w) \/ Read(w) \/ Commit(w) \/ Fail(w)
      PROVE  \E r \in Request : Sound(r) /\ req' = [req EXCEPT ![w] = r]
  BY <1>1, <1>6, Arrived, Reads, CommitEnds DEF Fail, Proceed
<1> QED
  BY <1>4, <1>5, <1>6 DEF Next

LEMMA InvStep == Inv /\ [Next]_vars => Inv'
<1> SUFFICES ASSUME Inv, [Next]_vars PROVE Inv'
  OBVIOUS
<1>1. TypeOK'
  BY TablesStep, RequestsStep DEF TypeOK, StaysKept, ClaimsKept, FlatKept
<1> QED
  BY <1>1, TablesStep, RequestsStep DEF Inv

LEMMA Invariant == Spec => []Inv
  BY InitInv, InvStep, PTL DEF Spec

\* The tables and the requests of the flat are well formed.
THEOREM TypeCorrect == Spec => []TypeOK
<1>1. Inv => TypeOK
  BY DEF Inv
<1> QED
  BY <1>1, Invariant, PTL

\* A claim is approved if and only if its user got a stay for it, and one only.
THEOREM ClaimsSettled == Spec => []ClaimSettledOnce
<1>1. Inv => ClaimSettledOnce
  BY DEF Inv
<1> QED
  BY <1>1, Invariant, PTL

\* A step that changes stays or claims is a commit.
LEMMA OnlyCommits ==
    ASSUME Inv, [Next]_vars, ~UNCHANGED <<stay, claim>>
    PROVE  \E w \in Workers : Commit(w)
<1>1. ~FlatEdit
  BY FlatEdits DEF Inv
<1>2. \A w \in Workers : ~Arrival(w) /\ ~Read(w)
  BY Arrived, Reads
<1> QED
  BY <1>1, <1>2 DEF Next, Tick, vars, Fail, Proceed

\* Nobody moves into, or claims, a flat later than one timeout after it shut.
THEOREM ShutFlat == Spec => ShutFlatGrace
<1>1. Inv /\ [Next]_vars =>
        (  \/ \E s \in Stays : stay[s].status = "none" /\ stay'[s].status = "active"
           \/ \E c \in Claims : claim[c].status = "none" /\ claim'[c].status = "pending"
         => Open(flat) \/ now <= shutAt + Timeout)
  <2> SUFFICES ASSUME Inv, [Next]_vars,
                      \/ \E s \in Stays : stay[s].status = "none" /\ stay'[s].status = "active"
                      \/ \E c \in Claims : claim[c].status = "none" /\ claim'[c].status = "pending"
               PROVE  Open(flat) \/ now <= shutAt + Timeout
    OBVIOUS
  <2>1. PICK w \in Workers : Commit(w)
    BY OnlyCommits
  <2> DEFINE r == req[w]
  <2>2. /\ now \in Nat /\ Timeout \in Nat /\ shutAt \in Int
        /\ r \in Request /\ Sound(r)
    BY ConstantsOK DEF Inv, TypeOK
  <2>3. r.pc = "commit" /\ now <= r.deadline /\ r.deadline \in Int
    BY <2>1, <2>2, CommitEnds DEF Request, NoDeadline
  <2>4. ~CommitLeave(w)
    BY LeaveTables
  <2>5. ~CommitSetPrimary(w)
    <3> SUFFICES ASSUME CommitSetPrimary(w) PROVE FALSE
      OBVIOUS
    <3>1. /\ stay' = [stay EXCEPT ![r.stay].primary = TRUE] /\ UNCHANGED claim
          /\ stay \in [Stays -> StayRow]
      BY DEF CommitSetPrimary, Inv, TypeOK
    <3>2. \A s \in Stays : stay'[s].status = stay[s].status
      BY <3>1 DEF StayRow
    <3> QED
      BY <3>1, <3>2
  <2>6. ~CommitClose(w)
    <3> SUFFICES ASSUME CommitClose(w) PROVE FALSE
      OBVIOUS
    <3> DEFINE to == IF r.op = "reject" THEN "rejected" ELSE "cancelled"
    <3>1. /\ claim' = [claim EXCEPT ![r.claim].status = to] /\ UNCHANGED stay
          /\ claim \in [Claims -> ClaimRow] /\ to # "pending"
          /\ claim[r.claim].status = "pending"
      BY DEF CommitClose, Inv, TypeOK
    <3> HIDE DEF to
    <3>2. \A c \in Claims : claim'[c].status \in {claim[c].status, to}
      BY <3>1 DEF ClaimRow
    <3> QED
      BY <3>1, <3>2
  <2>7. MovesIn(r)
    BY <2>1, <2>4, <2>5, <2>6
    DEF Commit, CommitAdd, CommitSubmit, CommitApprove, Committing, MovesIn
  <2> QED
    BY <2>2, <2>3, <2>7 DEF Sound, RecentFlat
<1> QED
  BY <1>1, Invariant, PTL DEF Spec, ShutFlatGrace

\* Whoever moves in leaves a flat that can be used occupied.
LEMMA MovedIn ==
    ASSUME Inv, NEW w \in Workers, CommitAdd(w) \/ CommitApprove(w), Open(flat)
    PROVE  AgreesIn(flat', stay')
<1> DEFINE r == req[w]
<1>1. /\ TypeOK /\ r \in Request /\ Sound(r)
      /\ r.user \in Users \cup {NoUser} /\ r.primary \in BOOLEAN
      /\ flat \in FlatRow
  BY DEF Inv, TypeOK, Request
<1>2. CommitApprove(w) => r.claim \in Claims
  BY <1>1 DEF CommitApprove, Committing, Sound, Pointed
<1>3. PICK o \in Claims \cup {NoClaim} : Insert(r.user, r.primary, o)
  BY <1>2 DEF CommitAdd, CommitApprove
<1>4. PICK s \in Stays : stay'[s].status = "active"
  BY <1>1, <1>3, Inserted
<1>5. flat'.status = "occupied"
  BY <1>1 DEF CommitAdd, CommitApprove, Mark, WriteFlat, FlatRow
<1> QED
  BY <1>4, <1>5 DEF AgreesIn, ResidentsIn

\* A removal whose count of the others is still right leaves the flat with the
\* right status.
LEMMA MovedOut ==
    ASSUME Inv, NEW w \in Workers, CommitLeave(w), Open(flat), AgreesIn(flat, stay),
           req[w].seen = Residents \ {req[w].stay}
    PROVE  AgreesIn(flat', stay')
<1>1. ResidentsIn(stay') = req[w].seen
  BY LeaveTables DEF Residents, ResidentsIn
<1>2. flat \in FlatRow
  BY DEF Inv, TypeOK
<1>3. CASE req[w].seen = {}
  <2>1. flat' = [flat EXCEPT !.status = "vacant"]
    BY <1>3 DEF CommitLeave, Mark, WriteFlat
  <2> QED
    BY <1>1, <1>2, <1>3, <2>1 DEF AgreesIn, FlatRow
<1>4. CASE req[w].seen # {}
  <2>1. flat' = flat /\ Residents # {}
    BY <1>4 DEF CommitLeave
  <2> QED
    BY <1>1, <1>4, <2>1 DEF AgreesIn, Residents
<1> QED
  BY <1>3, <1>4

\* Only a removal whose count of the others is out of date takes the status of
\* a flat out of line with its residents.
THEOREM StatusDrift == Spec => StatusDriftsByRace
<1>1. Inv /\ [Next]_vars =>
        (/\ Open(flat) /\ AgreesIn(flat, stay) /\ req' # req
         /\ Open(flat') /\ ~AgreesIn(flat', stay')
         => \E w \in Workers :
                /\ req[w].op \in {"remove", "move_out"} /\ req'[w] = Idle
                /\ req[w].seen # Residents \ {req[w].stay})
  <2> SUFFICES ASSUME Inv, [Next]_vars, Open(flat), AgreesIn(flat, stay), req' # req,
                      ~AgreesIn(flat', stay')
               PROVE  \E w \in Workers :
                          /\ req[w].op \in {"remove", "move_out"} /\ req'[w] = Idle
                          /\ req[w].seen # Residents \ {req[w].stay}
    OBVIOUS
  <2>1. ~(Tick \/ FlatEdit \/ UNCHANGED vars)
    BY FlatEdits DEF Inv, Tick, vars
  <2>2. ~UNCHANGED <<flat, stay>>
    OBVIOUS
  <2>3. PICK w \in Workers : Commit(w)
    BY <2>1, <2>2, Arrived, Reads DEF Next, Fail, Proceed
  <2>4. ~(CommitAdd(w) \/ CommitApprove(w))
    BY MovedIn
  <2>5. ~(CommitSubmit(w) \/ CommitClose(w))
    BY <2>2 DEF CommitSubmit, CommitClose
  <2>6. ~CommitSetPrimary(w)
    <3> SUFFICES ASSUME CommitSetPrimary(w) PROVE FALSE
      OBVIOUS
    <3>1. /\ stay' = [stay EXCEPT ![req[w].stay].primary = TRUE] /\ UNCHANGED flat
          /\ stay \in [Stays -> StayRow]
      BY DEF CommitSetPrimary, Inv, TypeOK
    <3>2. ResidentsIn(stay') = ResidentsIn(stay)
      BY <3>1 DEF StayRow, ResidentsIn
    <3> QED
      BY <3>1, <3>2 DEF AgreesIn
  <2>7. CommitLeave(w)
    BY <2>3, <2>4, <2>5, <2>6 DEF Commit
  <2>8. req[w].seen # Residents \ {req[w].stay}
    BY <2>7, MovedOut
  <2>9. req'[w] = Idle /\ req[w].op \in {"remove", "move_out"}
    BY <2>3, <2>7, CommitEnds DEF Inv, TypeOK, CommitLeave, Committing
  <2> QED
    BY <2>8, <2>9
<1> QED
  BY <1>1, Invariant, PTL DEF Spec, StatusDriftsByRace
-----------------------------------------------------------------------------
(***************************************************************************)
(* The flat implements Tenancy.  What the unique indexes keep in the rows  *)
(* makes the sets of users exact: everybody has one active stay, and one   *)
(* of the active stays at most is primary.                                 *)
(***************************************************************************)
Tenants ==
    /\ \A s \in Residents : stay[s].user \in Users
    /\ \A s, t \in Residents : stay[s].user = stay[t].user => s = t
    /\ \A s, t \in Primaries : s = t

Claimants == \A c \in Claims : claim[c].status # "none" => claim[c].user \in Users

\* Who asks to move in is somebody, and an approval remembers what was claimed.
Asked(r) ==
    /\ r.op \in {"add", "submit"} => r.user \in Users
    /\ r.op = "approve" /\ r.pc \in {"flat", "primaries", "commit"} =>
           r.primary = claim[r.claim].primary

TenancyInv == Inv /\ Tenants /\ Claimants /\ \A w \in Workers : Asked(req[w])

\* What Tenancy sees of a flat.
flatBar == <<UsersOf(Residents), UsersOf(Primaries), claim>>

LEMMA SameRows ==
    ASSUME Tenants, UNCHANGED stay
    PROVE  Tenants' /\ UNCHANGED <<UsersOf(Residents), UsersOf(Primaries)>>
  BY DEF Tenants, Residents, ResidentsIn, Primaries, UsersOf

\* An insert lets its user in.
LEMMA InsertEnters ==
    ASSUME TypeOK, Tenants, NEW u \in Users, NEW p \in BOOLEAN,
           NEW o \in Claims \cup {NoClaim}, Insert(u, p, o)
    PROVE  Tenants' /\ Flat!Enter(u, p)
<1>1. PICK s \in Stays :
          /\ stay[s].status = "none"
          /\ stay' = [stay EXCEPT ![s] =
                 [status |-> "active", user |-> u, primary |-> p, origin |-> o]]
  BY DEF Insert
<1>2. /\ stay'[s].status = "active" /\ stay'[s].user = u /\ stay'[s].primary = p
      /\ \A t \in Stays \ {s} : stay'[t] = stay[t]
  BY <1>1 DEF TypeOK
<1>3. s \notin Residents /\ Residents' = Residents \cup {s}
  BY <1>1, <1>2 DEF Residents, ResidentsIn
<1>4. Primaries' = IF p THEN {s} ELSE Primaries
  <2>1. p => Primaries = {}
    BY DEF Insert
  <2> QED
    BY <1>2, <1>3, <2>1 DEF Primaries, Residents, ResidentsIn
<1>5. \A t \in Residents : t # s /\ stay'[t] = stay[t] /\ stay[t].user # u
  BY <1>2, <1>3 DEF Insert, Residents, ResidentsIn
<1>6. Primaries \subseteq Residents
  BY DEF Primaries
<1>7. Tenants'
  <2>1. \A t \in Residents' : stay'[t].user \in Users
    BY <1>2, <1>3, <1>5 DEF Tenants
  <2>2. \A t, v \in Residents' : stay'[t].user = stay'[v].user => t = v
    BY <1>2, <1>3, <1>5 DEF Tenants
  <2>3. \A t, v \in Primaries' : t = v
    BY <1>4 DEF Tenants
  <2> QED
    BY <2>1, <2>2, <2>3 DEF Tenants
<1>8. u \notin UsersOf(Residents) /\ UsersOf(Residents)' = UsersOf(Residents) \cup {u}
  BY <1>2, <1>3, <1>5 DEF UsersOf
<1>9. UsersOf(Primaries)' = IF p THEN {u} ELSE UsersOf(Primaries)
  <2>1. CASE p
    BY <1>2, <1>4, <2>1 DEF UsersOf
  <2>2. CASE ~p
    BY <1>4, <1>5, <1>6, <2>2 DEF UsersOf
  <2> QED
    BY <2>1, <2>2
<1>10. p => UsersOf(Primaries) = {}
  BY DEF Insert, UsersOf
<1> QED
  BY <1>7, <1>8, <1>9, <1>10 DEF Flat!Enter

\* A removal ends the stay of somebody who lives there, or of nobody.
LEMMA LeaveMovesOut ==
    ASSUME Inv, Tenants, NEW w \in Workers, CommitLeave(w)
    PROVE  Tenants' /\ (Flat!Next \/ UNCHANGED flatBar)
<1> DEFINE s == req[w].stay
<1>1. /\ stay \in [Stays -> StayRow] /\ s \in Stays /\ UNCHANGED claim
      /\ \A t \in Stays : stay'[t].user = stay[t].user
      /\ Residents' = Residents \ {s}
  BY LeaveTables DEF Inv, TypeOK, Residents, ResidentsIn
<1>2. \A t \in Stays : t # s => stay'[t].primary = stay[t].primary
  BY <1>1 DEF CommitLeave
<1>3. Primaries' = Primaries \ {s}
  BY <1>1, <1>2 DEF Primaries, Residents, ResidentsIn
<1>4. Primaries \subseteq Residents /\ Residents \subseteq Stays
  BY DEF Primaries, Residents, ResidentsIn
<1>5. Tenants'
  <2>1. \A t \in Residents' : stay'[t].user \in Users
    BY <1>1, <1>4 DEF Tenants
  <2>2. \A t, v \in Residents' : stay'[t].user = stay'[v].user => t = v
    BY <1>1, <1>4 DEF Tenants
  <2>3. \A t, v \in Primaries' : t = v
    BY <1>3 DEF Tenants
  <2> QED
    BY <2>1, <2>2, <2>3 DEF Tenants
<1>6. CASE s \in Residents
  <2> DEFINE u == stay[s].user
  <2>1. u \in UsersOf(Residents) /\ u \in Users
    BY <1>6 DEF UsersOf, Tenants
  <2>2. UsersOf(Residents)' = UsersOf(Residents) \ {u}
    BY <1>1, <1>4, <1>6 DEF UsersOf, Tenants
  <2>3. UsersOf(Primaries)' = UsersOf(Primaries) \ {u}
    BY <1>1, <1>3, <1>4, <1>6 DEF UsersOf, Tenants
  <2>4. Flat!MoveOut(u)
    BY <1>1, <2>1, <2>2, <2>3 DEF Flat!MoveOut
  <2> QED
    BY <1>5, <2>1, <2>4 DEF Flat!Next
<1>7. CASE s \notin Residents
  <2>1. UNCHANGED <<UsersOf(Residents), UsersOf(Primaries)>>
    BY <1>1, <1>3, <1>4, <1>7 DEF UsersOf
  <2> QED
    BY <1>1, <1>5, <2>1 DEF flatBar
<1> QED
  BY <1>6, <1>7

\* A promotion fills the place of the head, or finds it filled.
LEMMA PromotionSucceeds ==
    ASSUME TypeOK, Tenants, NEW w \in Workers, CommitSetPrimary(w)
    PROVE  Tenants' /\ (Flat!Next \/ UNCHANGED flatBar)
<1> DEFINE s == req[w].stay
           u == stay[s].user
<1>1. /\ stay \in [Stays -> StayRow] /\ s \in Residents /\ s \in Stays
      /\ Primaries \subseteq {s} /\ UNCHANGED claim
      /\ stay' = [stay EXCEPT ![s].primary = TRUE]
  BY DEF CommitSetPrimary, TypeOK, Residents, ResidentsIn
<1>2. /\ \A t \in Stays : stay'[t].user = stay[t].user /\ stay'[t].status = stay[t].status
      /\ stay'[s].primary
      /\ \A t \in Stays \ {s} : stay'[t].primary = stay[t].primary
  BY <1>1 DEF StayRow
<1>3. Residents' = Residents
  BY <1>2 DEF Residents, ResidentsIn
<1>4. Primaries' = {s}
  BY <1>1, <1>2, <1>3 DEF Primaries, Residents, ResidentsIn
<1>5. Residents \subseteq Stays
  BY DEF Residents, ResidentsIn
<1>6. Tenants'
  BY <1>2, <1>3, <1>4, <1>5 DEF Tenants
<1>7. /\ UsersOf(Residents)' = UsersOf(Residents) /\ UsersOf(Primaries)' = {u}
      /\ u \in UsersOf(Residents) /\ u \in Users
  BY <1>1, <1>2, <1>3, <1>4, <1>5 DEF UsersOf, Tenants
<1>8. CASE Primaries = {}
  <2>1. UsersOf(Primaries) = {}
    BY <1>8 DEF UsersOf
  <2>2. Flat!Succeed(u)
    BY <1>1, <1>7, <2>1 DEF Flat!Succeed
  <2> QED
    BY <1>6, <1>7, <2>2 DEF Flat!Next
<1>9. CASE Primaries = {s}
  <2>1. UsersOf(Primaries) = {u}
    BY <1>9 DEF UsersOf
  <2> QED
    BY <1>1, <1>6, <1>7, <2>1 DEF flatBar
<1> QED
  BY <1>1, <1>8, <1>9

\* Submitting and closing claims.
LEMMA SubmissionClaims ==
    ASSUME TenancyInv, NEW w \in Workers, CommitSubmit(w)
    PROVE  Tenants' /\ Claimants' /\ Flat!Next
<1> DEFINE u == req[w].user
           p == req[w].primary
<1>1. /\ req[w] \in Request /\ Asked(req[w]) /\ claim \in [Claims -> ClaimRow]
      /\ Tenants /\ Claimants
  BY DEF TenancyInv, Inv, TypeOK
<1>2. u \in Users /\ p \in BOOLEAN
  BY <1>1 DEF CommitSubmit, Committing, Asked, Request
<1>3. PICK c \in Claims :
          /\ claim[c].status = "none"
          /\ claim' = [claim EXCEPT ![c] = [status |-> "pending", user |-> u, primary |-> p]]
  BY DEF CommitSubmit
<1>4. UNCHANGED stay
  BY DEF CommitSubmit
<1>5. Tenants' /\ UNCHANGED <<UsersOf(Residents), UsersOf(Primaries)>>
  BY <1>1, <1>4, SameRows
<1>6. Claimants'
  BY <1>1, <1>2, <1>3 DEF Claimants
<1>7. Flat!Pending(u) = {}
  BY DEF Flat!Pending, CommitSubmit
<1>8. Flat!Claim(c, u, p)
  BY <1>3, <1>5, <1>7 DEF Flat!Claim
<1> QED
  BY <1>2, <1>5, <1>6, <1>8 DEF Flat!Next

LEMMA SettledClaim ==
    ASSUME claim \in [Claims -> ClaimRow], NEW c \in Claims, NEW to,
           claim' = [claim EXCEPT ![c].status = to]
    PROVE  /\ \A d \in Claims : claim'[d].user = claim[d].user /\ claim'[d].primary = claim[d].primary
           /\ \A d \in Claims : d # c => claim'[d] = claim[d]
  BY DEF ClaimRow

LEMMA ClosingClaims ==
    ASSUME TenancyInv, NEW w \in Workers, CommitClose(w)
    PROVE  Tenants' /\ Claimants' /\ Flat!Next
<1> DEFINE c  == req[w].claim
           to == IF req[w].op = "reject" THEN "rejected" ELSE "cancelled"
<1>1. /\ claim[c].status = "pending" /\ claim' = [claim EXCEPT ![c].status = to]
      /\ UNCHANGED stay
  BY DEF CommitClose
<1>2. c \in Claims /\ claim \in [Claims -> ClaimRow] /\ Tenants /\ Claimants
  BY DEF CommitClose, Committing, TenancyInv, Inv, TypeOK, Sound, Pointed
<1>3. Tenants' /\ UNCHANGED <<UsersOf(Residents), UsersOf(Primaries)>>
  BY <1>1, <1>2, SameRows
<1>4. Claimants'
  BY <1>1, <1>2, SettledClaim DEF Claimants
<1>5. Flat!Settle(c, "rejected") \/ Flat!Settle(c, "cancelled")
  BY <1>1 DEF Flat!Settle
<1>6. Flat!Close(c)
  BY <1>3, <1>5 DEF Flat!Close
<1> QED
  BY <1>2, <1>3, <1>4, <1>6 DEF Flat!Next

\* An approval lets in who claimed, as was claimed.
LEMMA ApprovalEnters ==
    ASSUME TenancyInv, NEW w \in Workers, CommitApprove(w)
    PROVE  Tenants' /\ Claimants' /\ Flat!Next
<1> DEFINE c == req[w].claim
<1>1. /\ req[w].op = "approve" /\ req[w].pc = "commit"
      /\ Insert(req[w].user, req[w].primary, c)
      /\ claim[c].status = "pending" /\ claim' = [claim EXCEPT ![c].status = "approved"]
  BY DEF CommitApprove, Committing, At
<1>2. /\ c \in Claims /\ claim \in [Claims -> ClaimRow] /\ TypeOK /\ Tenants /\ Claimants
      /\ Sound(req[w]) /\ Asked(req[w])
  BY <1>1 DEF TenancyInv, Inv, TypeOK, Sound, Pointed
<1>3. req[w].user = claim[c].user /\ req[w].primary = claim[c].primary
  BY <1>1, <1>2 DEF Sound, ReadTheClaim, Asked
<1>4. claim[c].user \in Users /\ claim[c].primary \in BOOLEAN
  BY <1>1, <1>2 DEF Claimants, ClaimRow
<1>5. Tenants' /\ Flat!Enter(claim[c].user, claim[c].primary)
  BY <1>1, <1>2, <1>3, <1>4, InsertEnters
<1>6. Claimants'
  BY <1>1, <1>2, SettledClaim DEF Claimants
<1>7. Flat!Settle(c, "approved")
  BY <1>1 DEF Flat!Settle
<1>8. Flat!Approve(c)
  BY <1>5, <1>7 DEF Flat!Approve
<1> QED
  BY <1>2, <1>5, <1>6, <1>8 DEF Flat!Next

LEMMA AdditionEnters ==
    ASSUME TenancyInv, NEW w \in Workers, CommitAdd(w)
    PROVE  Tenants' /\ Flat!Next
<1> DEFINE u == req[w].user
           p == req[w].primary
<1>1. /\ req[w] \in Request /\ Asked(req[w]) /\ TypeOK /\ Tenants
  BY DEF TenancyInv, Inv, TypeOK
<1>2. u \in Users /\ p \in BOOLEAN
  BY <1>1 DEF CommitAdd, Committing, Asked, Request
<1>3. Insert(u, p, NoClaim) /\ UNCHANGED claim
  BY DEF CommitAdd
<1>4. Tenants' /\ Flat!Enter(u, p)
  BY <1>1, <1>2, <1>3, InsertEnters
<1>5. Flat!MoveIn(u, p)
  BY <1>3, <1>4 DEF Flat!MoveIn
<1> QED
  BY <1>2, <1>4, <1>5 DEF Flat!Next

LEMMA TenancyStep ==
    ASSUME TenancyInv, [Next]_vars
    PROVE  Tenants' /\ Claimants' /\ (Flat!Next \/ UNCHANGED flatBar)
<1>1. Inv /\ Tenants /\ Claimants /\ TypeOK
  BY DEF TenancyInv, Inv
<1>2. ASSUME UNCHANGED claim PROVE Claimants'
  BY <1>1, <1>2 DEF Claimants
<1>3. CASE UNCHANGED <<stay, claim>>
  BY <1>1, <1>2, <1>3, SameRows DEF flatBar
<1>4. CASE ~UNCHANGED <<stay, claim>>
  <2>1. PICK w \in Workers : Commit(w)
    BY <1>1, <1>4, OnlyCommits
  <2>2. CASE CommitAdd(w)
    BY <1>2, <2>2, AdditionEnters DEF CommitAdd
  <2>3. CASE CommitLeave(w)
    BY <1>1, <1>2, <2>3, LeaveMovesOut DEF CommitLeave
  <2>4. CASE CommitSetPrimary(w)
    BY <1>1, <1>2, <2>4, PromotionSucceeds DEF CommitSetPrimary
  <2>5. CASE CommitSubmit(w) \/ CommitApprove(w) \/ CommitClose(w)
    BY <2>5, SubmissionClaims, ApprovalEnters, ClosingClaims
  <2> QED
    BY <2>1, <2>2, <2>3, <2>4, <2>5 DEF Commit
<1> QED
  BY <1>3, <1>4

\* A claim, once made, says the same for ever.
LEMMA ClaimsSayTheSame ==
    ASSUME Inv, [Next]_vars, NEW c \in Claims, claim[c].status # "none"
    PROVE  claim'[c].primary = claim[c].primary
<1>1. claim \in [Claims -> ClaimRow]
  BY DEF Inv, TypeOK
<1>2. CASE UNCHANGED claim
  BY <1>2
<1>3. CASE ~UNCHANGED claim
  <2>1. PICK w \in Workers : Commit(w)
    BY <1>3, OnlyCommits
  <2>2. CommitSubmit(w) => claim'[c] = claim[c]
    BY <1>1 DEF CommitSubmit
  <2>3. ASSUME CommitApprove(w) \/ CommitClose(w) PROVE claim'[c].primary = claim[c].primary
    <3>1. req[w].claim \in Claims
      BY <2>3 DEF CommitApprove, CommitClose, Committing, Inv, Sound, Pointed
    <3>2. \E to : claim' = [claim EXCEPT ![req[w].claim].status = to]
      BY <2>3 DEF CommitApprove, CommitClose
    <3> QED
      BY <1>1, <3>1, <3>2, SettledClaim
  <2> QED
    BY <1>3, <2>1, <2>2, <2>3 DEF Commit, CommitAdd, CommitLeave, CommitSetPrimary
<1> QED
  BY <1>2, <1>3

\* What moves a request leaves it with what it asked for.
LEMMA AskedMoves ==
    ASSUME Inv, NEW w \in Workers, Asked(req[w]), Arrival(w) \/ Read(w) \/ Commit(w) \/ Fail(w)
    PROVE  /\ \A v \in Workers \ {w} : req'[v] = req[v]
           /\ Asked(req[w])'
<1>1. req \in [Workers -> Request] /\ req[w] \in Request
  BY DEF Inv, TypeOK
<1>2. CASE Commit(w) \/ Fail(w)
  <2>1. req' = [req EXCEPT ![w] = Idle]
    BY <1>2, CommitEnds DEF Fail, Proceed
  <2> QED
    BY <1>1, <2>1 DEF Asked, Idle
<1>3. CASE Arrival(w)
  <2>1. ASSUME NEW op \in {"add", "submit"}, NEW u \in Users, NEW p \in BOOLEAN,
               Start(w, op, "flat", [Idle EXCEPT !.user = u, !.primary = p])
        PROVE  /\ \A v \in Workers \ {w} : req'[v] = req[v]
               /\ Asked(req[w])'
    BY <1>1, <2>1 DEF Start, Asked, Idle
  <2>2. ASSUME NEW u \in Users, NEW p \in BOOLEAN,
               AddResidentToFlat(w, u, p) \/ SubmitFlatClaim(w, u, p)
        PROVE  /\ \A v \in Workers \ {w} : req'[v] = req[v]
               /\ Asked(req[w])'
    BY <2>1, <2>2 DEF AddResidentToFlat, SubmitFlatClaim
  <2>3. ASSUME NEW s \in Stays,
               \/ RemoveResidentFromFlat(w, s) \/ MoveOutResident(w, s)
               \/ ChangePrimaryResident(w, s)
        PROVE  /\ \A v \in Workers \ {w} : req'[v] = req[v]
               /\ Asked(req[w])'
    <3>1. \/ Start(w, "remove", "leave", [Idle EXCEPT !.stay = s])
          \/ Start(w, "move_out", "leave", [Idle EXCEPT !.stay = s])
          \/ Start(w, "set_primary", "current", [Idle EXCEPT !.stay = s])
      BY <2>3 DEF RemoveResidentFromFlat, MoveOutResident, LeaveFlat, ChangePrimaryResident
    <3>2. CASE Start(w, "remove", "leave", [Idle EXCEPT !.stay = s])
      BY <1>1, <3>2 DEF Start, Asked, Idle
    <3>3. CASE Start(w, "move_out", "leave", [Idle EXCEPT !.stay = s])
      BY <1>1, <3>3 DEF Start, Asked, Idle
    <3>4. CASE Start(w, "set_primary", "current", [Idle EXCEPT !.stay = s])
      BY <1>1, <3>4 DEF Start, Asked, Idle
    <3> QED
      BY <3>1, <3>2, <3>3, <3>4
  <2>4. ASSUME NEW c \in Claims,
               \/ ApproveFlatClaim(w, c) \/ RejectFlatClaim(w, c) \/ CancelMyFlatClaim(w, c)
        PROVE  /\ \A v \in Workers \ {w} : req'[v] = req[v]
               /\ Asked(req[w])'
    <3>1. \/ Start(w, "approve", "claim", [Idle EXCEPT !.claim = c])
          \/ Start(w, "reject", "commit", [Idle EXCEPT !.claim = c])
          \/ Start(w, "cancel", "commit", [Idle EXCEPT !.claim = c])
      BY <2>4 DEF ApproveFlatClaim, RejectFlatClaim, CancelMyFlatClaim
    <3>2. CASE Start(w, "approve", "claim", [Idle EXCEPT !.claim = c])
      BY <1>1, <3>2 DEF Start, Asked, Idle
    <3>3. CASE Start(w, "reject", "commit", [Idle EXCEPT !.claim = c])
      BY <1>1, <3>3 DEF Start, Asked, Idle
    <3>4. CASE Start(w, "cancel", "commit", [Idle EXCEPT !.claim = c])
      BY <1>1, <3>4 DEF Start, Asked, Idle
    <3> QED
      BY <3>1, <3>2, <3>3, <3>4
  <2> QED
    BY <1>3, <2>2, <2>3, <2>4 DEF Arrival
<1>4. CASE Read(w)
  <2>1. UNCHANGED claim
    BY <1>4, Reads
  <2>2. \A v \in Workers \ {w} : req'[v] = req[v]
    BY <1>1, <1>4, Reads
  <2>3. Asked(req[w])'
    <3>1. CASE ReadClaim(w)
      <4>1. req[w].op = "approve"
        BY <3>1 DEF ReadClaim, At, Inv, Sound, OnPath
      <4> QED
        BY <1>1, <2>1, <3>1, <4>1 DEF ReadClaim, Proceed, Asked, Request
    <3>2. CASE ReadFlat(w) \/ CountPrimary(w)
      <4>1. /\ req'[w].op = req[w].op /\ req'[w].user = req[w].user
            /\ req'[w].primary = req[w].primary /\ req'[w].claim = req[w].claim
            /\ req[w].pc \in {"flat", "primaries"}
        BY <1>1, <3>2 DEF ReadFlat, CountPrimary, At, Proceed, Request
      <4> QED
        BY <2>1, <4>1 DEF Asked
    <3>3. CASE ReadCurrent(w) \/ Leave(w) \/ SetPrimaryConflict(w)
      <4>1. Sound(req[w])
        BY DEF Inv
      <4>2. req[w].op \in {"set_primary", "remove", "move_out"}
        BY <3>3, <4>1 DEF ReadCurrent, Leave, SetPrimaryConflict, At, Sound, OnPath, Leaves
      <4>3. req'[w].op = req[w].op
        <5>1. CASE ReadCurrent(w)
          BY <1>1, <5>1 DEF ReadCurrent, Proceed, Request
        <5>2. CASE Leave(w)
          BY <1>1, <5>2 DEF Leave, Proceed, Request
        <5>3. CASE SetPrimaryConflict(w)
          BY <1>1, <5>3 DEF SetPrimaryConflict, Proceed, Request
        <5> QED
          BY <3>3, <5>1, <5>2, <5>3
      <4> QED
        BY <4>2, <4>3 DEF Asked
    <3> QED
      BY <1>4, <3>1, <3>2, <3>3 DEF Read
  <2> QED
    BY <2>2, <2>3
<1> QED
  BY <1>2, <1>3, <1>4

LEMMA AskedStays ==
    ASSUME Inv, [Next]_vars, NEW w \in Workers, Asked(req[w]), req'[w] = req[w]
    PROVE  Asked(req[w])'
<1>1. Sound(req[w]) /\ req[w] \in Request
  BY DEF Inv, TypeOK
<1> SUFFICES ASSUME req[w].op = "approve", req[w].pc \in {"flat", "primaries", "commit"}
             PROVE  req[w].primary = claim'[req[w].claim].primary
  BY DEF Asked
<1>2. req[w].claim \in Claims /\ claim[req[w].claim].status # "none"
  BY <1>1 DEF Sound, Pointed, ReadTheClaim
<1> QED
  BY <1>2, ClaimsSayTheSame DEF Asked

LEMMA TenancyInvStep == TenancyInv /\ [Next]_vars => TenancyInv'
<1> SUFFICES ASSUME TenancyInv, [Next]_vars PROVE TenancyInv'
  OBVIOUS
<1>1. Inv /\ \A w \in Workers : Asked(req[w])
  BY DEF TenancyInv
<1>2. ASSUME NEW v \in Workers PROVE Asked(req[v])'
  <2>1. CASE UNCHANGED req
    BY <1>1, <2>1, AskedStays
  <2>2. CASE ~UNCHANGED req
    <3>1. PICK w \in Workers : Arrival(w) \/ Read(w) \/ Commit(w) \/ Fail(w)
      BY <1>1, <2>2, FlatEdits DEF Next, Tick, vars, Inv
    <3>2. CASE v = w
      BY <1>1, <3>1, <3>2, AskedMoves
    <3>3. CASE v # w
      BY <1>1, <3>1, <3>3, AskedMoves, AskedStays
    <3> QED
      BY <3>2, <3>3
  <2> QED
    BY <2>1, <2>2
<1>3. (\A w \in Workers : Asked(req[w]))'
  BY <1>2
<1> QED
  BY <1>1, <1>3, InvStep, TenancyStep DEF TenancyInv

LEMMA TenancyInit == Init => TenancyInv /\ Flat!Init
<1> SUFFICES ASSUME Init PROVE TenancyInv /\ Flat!Init
  OBVIOUS
<1>1. Residents = {} /\ Primaries = {}
  BY DEF Init, Residents, ResidentsIn, Primaries
<1>2. Tenants /\ Claimants /\ \A w \in Workers : Asked(req[w])
  BY <1>1 DEF Tenants, Claimants, Asked, Init, Idle
<1>3. Flat!Init
  BY <1>1 DEF Init, Flat!Init, Flat!NoClaimYet, UsersOf
<1> QED
  BY <1>2, <1>3, InitInv DEF TenancyInv

\* The flat, its residents and its claims behave as Tenancy says, for any number
\* of users, stays, claims and requests at a time.
THEOREM TenancyImplemented == Spec => ImplementsTenancy
<1>1. TenancyInv /\ [Next]_vars => [Flat!Next]_<<UsersOf(Residents), UsersOf(Primaries), claim>>
  BY TenancyStep DEF flatBar
<1> QED
  BY <1>1, TenancyInit, TenancyInvStep, PTL
  DEF Spec, ImplementsTenancy, Flat!Spec, Flat!tenancy
=============================================================================
