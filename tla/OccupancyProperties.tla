------------------------ MODULE OccupancyProperties ------------------------
(***************************************************************************)
(* What the flat, its residents and the claims owe each other, and one     *)
(* statement of the API's documentation that the code does not keep.       *)
(***************************************************************************)
EXTENDS Occupancy

\* However many managers approve one claim, and whoever moves out meanwhile, a
\* claim is approved if and only if its user got a stay for it, and only one.
ClaimSettledOnce ==
    /\ \A s \in Stays :
           stay[s].origin # NoClaim =>
               /\ claim[stay[s].origin].status = "approved"
               /\ claim[stay[s].origin].user = stay[s].user
    /\ \A s, t \in Stays : stay[s].origin = stay[t].origin /\ s # t => stay[s].origin = NoClaim
    /\ \A c \in Claims :
           claim[c].status = "approved" => \E s \in Stays : stay[s].origin = c

\* Nobody moves into, or claims, a flat that was blocked or deleted longer than
\* one request timeout ago: the check of the flat is not repeated at the write.
ShutFlatGrace ==
    [][  \/ \E s \in Stays : stay[s].status = "none" /\ stay'[s].status = "active"
         \/ \E c \in Claims : claim[c].status = "none" /\ claim'[c].status = "pending"
       => Open(flat) \/ now <= shutAt + Timeout]_vars

\* The status of a flat that can be used says whether somebody lives there.
AgreesIn(row, rows) == row.status = "occupied" <=> ResidentsIn(rows) # {}

\* Adding residents and approving claims keep the status of the flat in line
\* with its residents; a removal does so too, unless somebody else came or went
\* between its count of the others and its commit.
StatusDriftsByRace ==
    [][/\ Open(flat) /\ AgreesIn(flat, stay) /\ req' # req
       /\ Open(flat') /\ ~AgreesIn(flat', stay')
       => \E w \in Workers :
              /\ req[w].op \in {"remove", "move_out"} /\ req'[w] = Idle
              /\ req[w].seen # Residents \ {req[w].stay}]_vars

\* The refinement: who lives in the flat, and who of them is the head, without
\* the rows that say so.
UsersOf(S) == {stay[s].user : s \in S}

Flat == INSTANCE Tenancy WITH
            residents <- UsersOf(Residents), head <- UsersOf(Primaries), claims <- claim

\* Every behaviour of the flat is a behaviour of Tenancy: two requests that
\* counted no head do not both make one, nobody gets in twice, and a claim is
\* approved for whoever made it, as it was made.
ImplementsTenancy == Flat!Spec

\* "Transactionally changes the active primary resident for a flat", with 409
\* for a conflict (flat_handler.go, ChangePrimaryResident): the unique index
\* refuses a change only if the primary resident changed while it was prepared.
PrimaryConflictIsRace ==
    \A w \in Workers : req[w].pc = "conflict" => Primaries # req[w].seen
=============================================================================
