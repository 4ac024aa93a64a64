--------------------------- MODULE VisitorOveruse ---------------------------
(***************************************************************************)
(* Proof that an invite lets in at most as many visitors as there are      *)
(* requests at a time.                                                     *)
(*                                                                         *)
(* A submission reads the invite as active and writes an entry later.  The *)
(* argument counts, for one invite, the entries that used it and the       *)
(* submissions that still may: a submission only starts while no entry     *)
(* used the invite, and every entry that does use it ends one submission.  *)
(***************************************************************************)
EXTENDS VisitorProofs, FiniteSetTheorems

\* The entries invite i let in, and the requests that may still add to them.
Uses(i)       == {e \in Entries : entry[e].invite = i}
Submitters(i) ==
    {w \in Workers : req[w].op = "submit_invite" /\ req[w].invite = i}

Shared(i) ==
    /\ IsFiniteSet(Uses(i))
    /\ Cardinality(Uses(i)) + Cardinality(Submitters(i)) <= Cardinality(Workers)

AllShared == \A i \in Invites : Shared(i)

\* Some workers are finitely many, and no more than all of them.
LEMMA FewWorkers ==
    ASSUME NEW S \in SUBSET Workers
    PROVE  /\ IsFiniteSet(S) /\ Cardinality(S) \in Nat
           /\ Cardinality(S) <= Cardinality(Workers)
           /\ Cardinality(Workers) \in Nat
BY ConstantsOK, FS_Subset, FS_CardinalityType

\* With the same entries and no new submission the bound stays.
LEMMA FewerSubmitters ==
    ASSUME AllShared, NEW i \in Invites, Uses(i)' = Uses(i),
           Submitters(i)' \in SUBSET Submitters(i)
    PROVE  Shared(i)'
<1>1. Submitters(i) \in SUBSET Workers
  BY DEF Submitters
<1>2. PICK u, s, n : u = Cardinality(Uses(i)) /\ s = Cardinality(Submitters(i))
                     /\ n = Cardinality(Workers)
  OBVIOUS
<1>3. PICK t : t = Cardinality(Submitters(i)')
  OBVIOUS
<1>4. IsFiniteSet(Uses(i)) /\ u + s <= n
  BY <1>2 DEF AllShared, Shared
<1>5. u \in Nat /\ s \in Nat /\ n \in Nat
  BY <1>1, <1>2, <1>4, FewWorkers, FS_CardinalityType
<1>6. t \in Nat /\ t <= s
  BY <1>1, <1>2, <1>3, FewWorkers, FS_Subset, FS_CardinalityType
<1>7. u + t <= n
  BY <1>4, <1>5, <1>6
<1>8. IsFiniteSet(Uses(i)') /\ Cardinality(Uses(i)') + Cardinality(Submitters(i)') <= Cardinality(Workers)
  BY ONLY <1>2, <1>3, <1>4, <1>7, Uses(i)' = Uses(i)
<1> QED
  BY <1>8 DEF Shared

\* Only a submission changes which invite an entry came from.
LEMMA InviteKept ==
    ASSUME TypeOK, Requests, Decisions, NEW w \in Workers, Commit(w),
           ~CommitSubmitInvite(w), NEW e \in Entries
    PROVE  entry'[e].invite = entry[e].invite
<1>1. entry \in [Entries -> EntryRow]
  BY DEF TypeOK
<1>2. entry[e].status = "none" => entry[e].invite = NoInvite
  BY DEF Decisions, Decided, Cleared, Admitted
<1>3. ASSUME NEW op \in FormOps, CommitApprovedForm(w, op)
      PROVE  entry'[e].invite = entry[e].invite
  BY <1>1, <1>2, <1>3 DEF CommitApprovedForm
<1>4. ASSUME NEW op \in FormOps, CommitWaitingForm(w, op)
      PROVE  entry'[e].invite = entry[e].invite
  BY <1>1, <1>2, <1>4 DEF CommitWaitingForm
<1>5. CASE CommitApprove(w)
  BY <1>1, <1>5 DEF CommitApprove, EntryRow
<1>6. CASE CommitReject(w)
  BY <1>1, <1>6 DEF CommitReject, EntryRow
<1>7. CASE CommitGenerateQR(w)
  BY <1>1, <1>7 DEF CommitGenerateQR, EntryRow
<1>8. CASE CommitCheckIn(w)
  BY <1>1, <1>8 DEF CommitCheckIn, EntryRow
<1>9. CASE CommitCheckOut(w)
  BY <1>1, <1>9 DEF CommitCheckOut, EntryRow
<1>10. CASE UNCHANGED entry
  BY <1>10
<1> QED
  BY <1>3, <1>4, <1>5, <1>6, <1>7, <1>8, <1>9, <1>10
  DEF Commit, CommitCreateInvite, CommitCancelInvite

\* A commit ends its request.
LEMMA CommitEnds ==
    ASSUME NEW w \in Workers, Commit(w)
    PROVE  req' = [req EXCEPT ![w] = Idle]
BY DEF Commit, Committing, CommitCreateInvite, CommitSubmitInvite,
   CommitCancelInvite, CommitApprovedForm, CommitWaitingForm, CommitApprove,
   CommitReject, CommitGenerateQR, CommitCheckIn, CommitCheckOut

\* A request is or becomes a submission of an invite only when it arrives.
LEMMA ArrivalKinds ==
    ASSUME TypeOK, NEW w \in Workers, Arrival(w)
    PROVE  \/ \E i \in Invites : SubmitInviteForm(w, i)
           \/ req'[w].op # "submit_invite"
<1>1. req \in [Workers -> Request]
  BY DEF TypeOK
<1>2. \A r : Arrive(w, r) => req'[w] = r
  BY <1>1 DEF Arrive
<1>3. ASSUME NEW u \in Users, NEW ttl \in 0..InviteTtl, CreateInvite(w, u, ttl)
      PROVE  req'[w].op # "submit_invite"
  BY <1>2, <1>3 DEF CreateInvite, Armed, Idle
<1>4. ASSUME NEW u \in Users, NEW i \in Invites, CancelInvite(w, u, i)
      PROVE  req'[w].op # "submit_invite"
  BY <1>2, <1>4 DEF CancelInvite, Armed, Idle
<1>5. ASSUME NEW op \in FormOps, CreatePublicEntry(w, op)
      PROVE  req'[w].op # "submit_invite"
  BY <1>2, <1>5 DEF CreatePublicEntry, Armed, Idle
<1>6. ASSUME NEW u \in Users, CreateGuardEntry(w, u)
      PROVE  req'[w].op # "submit_invite"
  BY <1>2, <1>6 DEF CreateGuardEntry, Idle
<1>7. ASSUME NEW op \in Ops, NEW u \in Users, NEW e \in Entries, DecideEntry(w, op, u, e)
      PROVE  req'[w].op # "submit_invite"
  BY <1>2, <1>7 DEF DecideEntry, Armed, Idle
<1>8. ASSUME NEW e \in Entries, GenerateQR(w, e)
      PROVE  req'[w].op # "submit_invite"
  BY <1>2, <1>8 DEF GenerateQR, Armed, Idle
<1>9. ASSUME NEW u \in Users, NEW e \in Entries, CheckIn(w, u, e)
      PROVE  req'[w].op # "submit_invite"
  BY <1>2, <1>9 DEF CheckIn, Armed, Idle
<1>10. ASSUME NEW u \in Users, NEW e \in Entries, CheckOut(w, u, e)
       PROVE  req'[w].op # "submit_invite"
  BY <1>2, <1>10 DEF CheckOut, Armed, Idle
<1> QED
  BY <1>3, <1>4, <1>5, <1>6, <1>7, <1>8, <1>9, <1>10 DEF Arrival

\* What a step does to the submissions in flight and to the entries let in.
LEMMA SubmissionKinds ==
    ASSUME TypeOK, Requests, Decisions, [Next]_vars
    PROVE  \/ /\ \A i \in Invites : Submitters(i)' \subseteq Submitters(i)
              /\ \A e \in Entries : entry'[e].invite = entry[e].invite
           \/ \E w \in Workers, i \in Invites : SubmitInviteForm(w, i)
           \/ \E w \in Workers : CommitSubmitInvite(w)
<1> DEFINE Fewer == \A i \in Invites : Submitters(i)' \subseteq Submitters(i)
           Kept  == \A e \in Entries : entry'[e].invite = entry[e].invite
<1>1. req \in [Workers -> Request] /\ entry \in [Entries -> EntryRow]
  BY DEF TypeOK
<1>2. ASSUME NEW w \in Workers, NEW r, req' = [req EXCEPT ![w] = r],
             \/ r.op # "submit_invite"
             \/ r.op = req[w].op /\ r.invite = req[w].invite
      PROVE  Fewer
  BY <1>1, <1>2 DEF Submitters
<1>3. CASE UNCHANGED vars
  BY <1>3 DEF vars, tableVars, Submitters
<1>4. CASE Environment
  <2>1. Fewer
    BY <1>4 DEF Submitters, Environment, Tick, Reassign, UpdateSocietySettings,
       UpdateFlatPurposeSetting, ExpireOldInvites, AutoCloseExpiredEntries
  <2>2. CASE AutoCloseExpiredEntries
    BY <1>1, <2>1, <2>2 DEF AutoCloseExpiredEntries, EntryRow
  <2>3. CASE UNCHANGED entry
    BY <2>1, <2>3
  <2> QED
    BY <1>4, <2>2, <2>3 DEF Environment, Tick, Reassign, UpdateSocietySettings,
       UpdateFlatPurposeSetting, ExpireOldInvites, tableVars
<1>5. ASSUME NEW w \in Workers, Arrival(w)
      PROVE  (Fewer /\ Kept) \/ \E i \in Invites : SubmitInviteForm(w, i)
  <2>1. PICK r \in Request : Arrive(w, r)
    BY <1>5, ArrivalStarts
  <2>2. req' = [req EXCEPT ![w] = r] /\ req'[w] = r /\ UNCHANGED entry
    BY <1>1, <2>1 DEF Arrive, tableVars
  <2> QED
    BY <1>2, <1>5, <2>2, ArrivalKinds
<1>6. ASSUME NEW w \in Workers, Read(w) PROVE Fewer /\ Kept
  BY <1>2, <1>6, ReadProceeds DEF tableVars
<1>7. ASSUME NEW w \in Workers, Fail(w) PROVE Fewer /\ Kept
  BY <1>2, <1>7 DEF Fail, Idle, tableVars
<1>8. ASSUME NEW w \in Workers, Commit(w), ~CommitSubmitInvite(w)
      PROVE  Fewer /\ Kept
  <2>1. Fewer
    BY <1>2, <1>8, CommitEnds DEF Idle
  <2> QED
    BY <1>8, <2>1, InviteKept
<1> QED
  BY <1>3, <1>4, <1>5, <1>6, <1>7, <1>8 DEF Next

\* A submission starts while nobody used the invite.
LEMMA SubmissionStarts ==
    ASSUME TypeOK, Decisions, AllShared, NEW w \in Workers, NEW j \in Invites,
           SubmitInviteForm(w, j), NEW i \in Invites
    PROVE  Shared(i)'
<1>1. req \in [Workers -> Request] /\ UNCHANGED entry
  BY DEF TypeOK, SubmitInviteForm, Arrive, tableVars
<1>2. Uses(i)' = Uses(i)
  BY <1>1 DEF Uses
<1>3. CASE i = j
  <2>1. Uses(i) = {}
    BY <1>3, ConstantsOK
    DEF SubmitInviteForm, InviteUsable, Uses, Decisions, Decided
  <2>2. Cardinality(Uses(i)') = 0 /\ IsFiniteSet(Uses(i)')
    BY <1>2, <2>1, FS_EmptySet
  <2>3. Submitters(i)' \in SUBSET Workers
    BY DEF Submitters
  <2> QED
    BY <2>2, <2>3, FewWorkers DEF Shared
<1>4. CASE i # j
  <2>1. Submitters(i)' \in SUBSET Submitters(i)
    BY <1>1, <1>4 DEF SubmitInviteForm, Arrive, Armed, Idle, Submitters
  <2> QED
    BY <1>2, <2>1, FewerSubmitters
<1> QED
  BY <1>3, <1>4

\* A submission that commits is one entry more and one submission less.
LEMMA SubmissionEnds ==
    ASSUME TypeOK, Requests, Decisions, AllShared, NEW w \in Workers,
           CommitSubmitInvite(w), NEW i \in Invites
    PROVE  Shared(i)'
<1>1. req \in [Workers -> Request] /\ entry \in [Entries -> EntryRow]
  BY DEF TypeOK
<1>2. req' = [req EXCEPT ![w] = Idle] /\ req[w].op = "submit_invite"
  BY DEF CommitSubmitInvite, Committing
<1>3. Idle.op # "submit_invite"
  BY DEF Idle
<1>4. PICK e \in Entries :
        /\ entry[e].status = "none" /\ entry'[e].invite = req[w].invite
        /\ \A f \in Entries : f # e => entry'[f].invite = entry[f].invite
  BY <1>1 DEF CommitSubmitInvite
<1>5. entry[e].invite = NoInvite
  BY <1>1, <1>4 DEF Decisions, Decided, Cleared, Admitted
<1>6. CASE i = req[w].invite
  <2>1. Uses(i)' = Uses(i) \cup {e} /\ e \notin Uses(i)
    BY <1>4, <1>5, <1>6, ConstantsOK DEF Uses
  <2>2. Submitters(i)' = Submitters(i) \ {w} /\ w \in Submitters(i)
    BY <1>1, <1>2, <1>3, <1>6 DEF Submitters
  <2>3. PICK u, s, n : u = Cardinality(Uses(i)) /\ s = Cardinality(Submitters(i))
                       /\ n = Cardinality(Workers)
    OBVIOUS
  <2>4. IsFiniteSet(Uses(i)) /\ u + s <= n
    BY <2>3 DEF AllShared, Shared
  <2>5. Submitters(i) \in SUBSET Workers
    BY DEF Submitters
  <2>6. IsFiniteSet(Submitters(i))
    BY <2>5, FewWorkers
  <2>7. u \in Nat /\ s \in Nat /\ n \in Nat
    BY <2>3, <2>4, <2>5, FewWorkers, FS_CardinalityType
  <2>8. IsFiniteSet(Uses(i)') /\ Cardinality(Uses(i)') = u + 1
    BY <2>1, <2>3, <2>4, FS_AddElement
  <2>9. Cardinality(Submitters(i)') = s - 1
    BY <2>2, <2>3, <2>6, FS_RemoveElement
  <2>10. (u + 1) + (s - 1) <= n
    BY <2>4, <2>7
  <2>11. Cardinality(Uses(i)') + Cardinality(Submitters(i)') <= Cardinality(Workers)
    BY ONLY <2>3, <2>8, <2>9, <2>10
  <2> QED
    BY <2>8, <2>11 DEF Shared
<1>7. CASE i # req[w].invite
  <2>1. Uses(i)' = Uses(i)
    BY <1>4, <1>5, <1>7, ConstantsOK DEF Uses
  <2>2. Submitters(i)' \in SUBSET Submitters(i)
    BY <1>1, <1>2, <1>3 DEF Submitters
  <2> QED
    BY <2>1, <2>2, FewerSubmitters
<1> QED
  BY <1>6, <1>7

LEMMA SharedStep ==
    ASSUME TypeOK, Requests, Decisions, AllShared, [Next]_vars
    PROVE  AllShared'
<1> SUFFICES ASSUME NEW i \in Invites PROVE Shared(i)'
  BY DEF AllShared
<1>1. ASSUME Submitters(i)' \subseteq Submitters(i),
             \A e \in Entries : entry'[e].invite = entry[e].invite
      PROVE  Shared(i)'
  <2>1. Uses(i)' = Uses(i)
    BY <1>1 DEF Uses
  <2> QED
    BY <1>1, <2>1, FewerSubmitters
<1> QED
  BY <1>1, SubmissionKinds, SubmissionStarts, SubmissionEnds

\* Submissions of one invite that race let in at most as many visitors as the
\* server has workers, in every reachable state: InviteOveruseBounded follows
\* from counting the submissions in flight along.
THEOREM OveruseBounded == Spec => []InviteOveruseBounded
<1>1. Init => AllShared
  <2> SUFFICES ASSUME Init, NEW i \in Invites PROVE Shared(i)
    BY DEF AllShared
  <2>1. Uses(i) = {} /\ Submitters(i) = {}
    BY ConstantsOK DEF Init, Uses, Submitters, Idle
  <2>2. IsFiniteSet(Uses(i)) /\ Cardinality(Uses(i)) = 0 /\ Cardinality(Submitters(i)) = 0
    BY <2>1, FS_EmptySet
  <2> QED
    BY <2>2, FewWorkers DEF Shared
<1>2. TypeOK /\ Requests /\ Decisions /\ AllShared /\ [Next]_vars => AllShared'
  BY SharedStep
<1>3. AllShared => InviteOveruseBounded
  <2> SUFFICES ASSUME AllShared, NEW i \in Invites
               PROVE  Cardinality(Uses(i)) <= Cardinality(Workers)
    BY DEF InviteOveruseBounded, Uses
  <2>1. PICK u, s, n : u = Cardinality(Uses(i)) /\ s = Cardinality(Submitters(i))
                       /\ n = Cardinality(Workers)
    OBVIOUS
  <2>2. Submitters(i) \in SUBSET Workers
    BY DEF Submitters
  <2>3. IsFiniteSet(Uses(i)) /\ u + s <= n
    BY <2>1 DEF AllShared, Shared
  <2>4. u \in Nat /\ s \in Nat /\ n \in Nat
    BY <2>1, <2>2, <2>3, FewWorkers, FS_CardinalityType
  <2>5. u <= n
    BY <2>3, <2>4
  <2> QED
    BY ONLY <2>1, <2>5
<1>4. Decisions <=> OneDecision /\ InviteConsumed
  BY DecisionsAre
<1> QED
  BY <1>1, <1>2, <1>3, <1>4, TypeCorrect, DecisionsHold, PTL DEF Spec
=============================================================================
