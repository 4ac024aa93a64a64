# Formal models of the society management service

TLA+ models, TLC runs and TLAPS proofs for the Go backend under `src/api`, a
multi-tenant service that runs housing societies: members and roles, flats and
their residents, subscriptions and quotas, and the visitor flow (invites, gate
entries, approvals, QR codes, check-in and check-out).

The code keeps all of its shared state in PostgreSQL and serves each HTTP
request in a goroutine of its own. Almost every hard question is therefore of
one shape: *a service method reads rows, decides, and writes in a transaction
that checks less than was decided.* The models keep exactly that structure. What is
not in the database is in the process: connections, limiters, goroutines and the
order in which they end. `Server` and its parts model these.

## 1. Inventory

`S/` abbreviates `src/api/internal/services/`, `Q/` abbreviates
`src/api/queries/`.

| Component | State | Operations | Talks to |
|---|---|---|---|
| Visitor invites and entries (`S/visitorEntrySvc`, `Q/visitor_entries.sql`) | `visitor_invites`, `visitor_entries`, `visitor_entry_events` | create, submit, cancel, expire invites; public QR, quick link and guard forms; approve, reject, generate QR, check in, check out, auto-close | approval rules; member and resident tables for duties; transactions |
| Approval rules (`S/visitorSettingSvc` `ResolveApprovalRequirement`) | none of its own | one answer per request: waiting, approved, refused | society and flat settings rows |
| Visitor settings (same service, `Q/visitor_settings.sql`) | `society_visitor_settings`, `flat_visitor_settings` | update society, update a flat purpose, reset a flat to defaults | duties of the actor |
| Members and ownership (`S/societySvc/member_command.go`) | `society_members` | add, change role, suspend, reactivate, remove, transfer ownership | quotas; upsert from flats |
| Society lifecycle (`S/societySvc/society_command.go`, `onboarding.go`) | `societies` | onboard, approve, reject, suspend, reactivate, delete, restore | creates owner, settings, trial |
| Flats and residents (`S/flatSvc/flat_command.go`, `resident_command.go`) | `flats`, `flat_residents` | create, block, unblock; add, remove, move out, primary | members (upsert), quotas, settings defaults |
| Flat claims (`S/flatSvc/claim_command.go`) | `flat_claims` | submit, approve, reject, cancel | residents, flats, members |
| Subscriptions and quotas (`S/subscriptionSvc`) | `society_subscriptions` | start, renew, change plan, cancel, expire; `checkQuota` | called by members and flats |
| Plans (`S/planSvc`) | `plans` | create, update, (de)activate | subscriptions |
| Email verification (`S/authSvc/verification_service.go`, `jobs/cleanup_job.go`) | `user_verifications` | issue, resend, verify, clean up | registration, password reset |
| Registration, sessions and passwords (`S/authSvc`, `middlewares/auth.go`) | `users`; tokens held by the client | register, log in, refresh, log out, change, forget and reset a password | verification |
| Transactions and pool (`transaction_manager.go`, `database.go`) | at most `DB_MAX_OPEN_CONNS` connections | `WithTransaction`, deadlines | every service |
| Rate limiter (`middlewares/rate_limit.go`) | token bucket per address | take, refill, evict | in front of the routes |
| Start-up and shutdown (`main.go`, `server.go`, `dependency.go`, `jobs/cleanup_job.go`) | the process, its listener, the job's context | serve, drain, cancel the job, close the pool | pool, requests in flight |
| Dashboards, handlers, routes, generated queries, web client | none that others see | | |

**What is hard, per component, and what makes it correct**

* *Invites and entries.* Two residents decide one entry; two guards scan one
  code; an invite is cancelled while it is being submitted; a duty, a rule or a
  code changes between the check and the write; sweeps run over rows that are
  being moved. Correct when an entry has one decision, its log tells what requests
  did to it, a code belongs to one cleared entry, an invite is never spent without
  an entry nor left active by one, and no check is older than the request
  timeout when its write lands.
* *Approval rules and settings.* Two rows are read by two statements; a reset
  deletes and re-creates rows that another request is updating. Correct when
  the answer is the documented table of the rows and no rows get lost.
* *Members.* "Not the last owner" is checked before, and "one owner" is
  enforced by a unique index at, the write. Correct when an active society
  always has exactly one active owner.
* *Flats, residents, claims.* `vacant`/`occupied` duplicates the number of
  active residents and is maintained by count-then-update. Correct when the two
  agree, a flat has at most one primary resident and a claim is decided once.
* *Subscriptions and quotas.* Count, compare, insert, in no transaction.
  Correct when one subscription is open per society and limits hold.
* *Accounts.* Attempts are compared and incremented in two statements, codes are
  replaced while they are being verified, the current password is compared long
  before the new one is written, and tokens are never looked up. Correct when
  guesses are bounded, a dead code or a replaced password is of no use after the
  requests in flight, and whoever lost access is out when the tokens end.
* *Pool.* A settings read inside a transaction takes a second connection.
  Correct when no connection is lost, and waiting for each other ends.
* *Rate limiter.* Whole tokens and forgotten fractions of seconds, in a map that
  drops what is silent. Correct when nobody gets in faster than agreed, and
  nobody who asks on is refused for ever.
* *Shutdown.* Two ways to the end, with the pool and the job closed in different
  orders. Correct when the process ends, and a drained server has answered all.

`PROJECT.json` lists every hazard at its line with the properties that cover it,
or with the reason why none does.

## 2. Modules

| Module | Role |
|---|---|
| `ApprovalRules` | the rule authority as operators |
| `VisitorEntry` | the visitor flow: requests, reads, transactions, sweeps |
| `VisitorLifecycle` | abstract specification: the life of one visit |
| `VisitorProperties` | invariants, action properties, the refinement mapping |
| `VisitorProofs` | theorems: types, log, decisions, codes, refinement |
| `VisitorStaleness` | theorems: how old a check may be when its write lands |
| `VisitorOveruse` | theorem: how many visitors a raced invite lets in |
| `MCVisitor` | constants of the TLC instances |
| `Membership` | one society's life and its members: requests, checks, writes |
| `MembershipProperties` | what check-then-write still guarantees there |
| `MembershipProofs` | theorems: types, ownership, mandates, closed societies |
| `MCMembership` | constants and symmetry of the TLC instances |
| `Occupancy` | one flat, the stays of its residents and the claims to it |
| `Tenancy` | abstract specification: who lives in a flat, who heads it, who claims it |
| `OccupancyProperties` | what flat, residents and claims owe each other, the refinement mapping |
| `OccupancyProofs` | theorems: types, claims, shut flats, drift of the status, refinement |
| `MCOccupancy` | symmetry of the TLC instances |
| `Quota` | the subscriptions of a society and the rows their limits count |
| `QuotaProperties` | what a check before the insert still guarantees |
| `QuotaProofs` | theorems: types, age of an answer, bound of the overshoot |
| `MCQuota` | plans and symmetry of the TLC instance |
| `Accounts` | one user's row, codes, passwords and tokens, and the cleanup job |
| `AccountsProperties` | what codes, passwords and tokens guarantee without locks or revocation |
| `AccountsProofs` | theorems: types, guesses and uses of a code, age of codes and passwords, end of access |
| `MCAccounts` | symmetry of the TLC instances |
| `RateLimit` | the limiter's buckets |
| `TokenBucket` | abstract specification: an exact token bucket |
| `ConnPool` | the connections, as reads and transactions hold them |
| `Shutdown` | the end of `run()` and the cleanup job; extends `ConnPool` |
| `Server` | composes `RateLimit`, `ConnPool` and `Shutdown` under one clock, with fairness |
| `ServerProperties` | connections, standstill, order of closing, refinement, liveness |
| `ServerProofs` | theorems: types, connections, standstill and size of the pool, order of closing, refinement |
| `MCServer` | the TLC instance |

### How `VisitorEntry` corresponds to the code

**State.** `invite`, `entry` and `log` are the three visitor tables; `log` counts
the events of each type, since nothing depends on their order. `settings` and
`rule` are the society's row and the flat's row for the purpose of the request.
`duties` abstracts `society_members` and `flat_residents` to the two questions
the visitor flow asks of a user: may they approve for this flat
(`ensureApprovalActor`), may they guard (`ensureStaffActor`). `lastToken` counts
QR tokens; a token is a number, so two entries with the same token would be
seen. One society and one flat are modelled: no statement of the flow relates
rows of two.

**Requests.** `req[w]` is the request of goroutine `w`: its operation, the step
it is at, and what it remembers of the rows it read. Each service method is its
database round trips in order:

| Method (`visitor_entry_service.go`) | Steps |
|---|---|
| `CreateInvite` | `CreateInvite`, `CheckDuty`, `ReadInviteSettings`, `CommitCreateInvite` |
| `SubmitInviteForm` | `SubmitInviteForm` (`GetInviteByToken`), `ReadSettings`, `MakeQR`, `CommitSubmitInvite` |
| `CancelInvite` | `CancelInvite`, `CheckDuty`, `CommitCancelInvite` |
| `CreatePublicQREntry`, `CreateQuickLinkEntry` | `CreatePublicEntry`, `ReadSettings`, `ReadRule` (hybrid), `MakeQR` (auto-approved), `CommitApprovedForm` or `CommitWaitingForm` |
| `CreateGuardEntry` | `CreateGuardEntry`, `CheckDuty`, then as above |
| `ApproveEntry` | `DecideEntry`, `CheckDuty`, `MakeQR`, `CommitApprove` |
| `RejectEntry` | `DecideEntry`, `CheckDuty`, `CommitReject` |
| `GenerateQR` | `GenerateQR`, `MakeQR`, `CommitGenerateQR` |
| `ValidateQR` + `CheckIn` | `CheckIn`, `CheckDuty`, `CommitCheckIn` |
| `CheckOut` | `CheckOut`, `CheckDuty`, `CommitCheckOut` |
| `ExpireOldInvites`, `AutoCloseExpiredEntries` | one `UPDATE` each |

An error at any step, a rollback or a disconnect is `Fail`, which can happen at
every step and writes nothing.

**Decisions of the model**

* A transaction is one step. Its guarded `UPDATE` (`WHERE status = ...`) takes the
  row lock, later transactions re-evaluate the condition after it commits, and
  no other transaction sees its writes before (READ COMMITTED). `MakeQR` is
  called inside `WithTransaction`, but reads through the pool, outside the
  transaction, so it is a separate step before it.
* One clock stands for `time.Now()` and PostgreSQL's `NOW()`. `NOW()` is the start
  of the transaction; a transaction being one step, start and end coincide.
* `context.WithTimeout` cancels every later query, so a step needs
  `now <= deadline`. A `COMMIT` that has been sent when the deadline passes may
  still land on the server; bounds stated with `Timeout` are bounds up to that
  network delay.
* `CreateGuardEntry` runs `ensureStaffActor` before `createEntryFromForm` arms the
  timeout: its request has no deadline until `ReadSettings`. The guard's duty is
  therefore not bounded by the timeout when an entry is created, and
  `RevocationBounded` does not claim it.
* The two reads of `ensureApprovalActor` (member, then resident) are one step.
* The errors of `ResolveApprovalRequirement` are one `refused`: nothing in the
  flow tells them apart.
* A missing flat row (`found = FALSE`) is part of `RuleType`; migration 07 does
  not back-fill flats that existed before it.
* `GenerateQR`, `ExpireOldInvites` and `AutoCloseExpiredEntries` are methods of
  the service that no route and no job calls. They are modelled as the service
  offers them; the safety properties then hold with and without them.
* The entry statuses `cancelled` and `expired` of the schema are written by no
  code and do not occur in `EntryStatuses`.
* The model is of the code as its queries and types say it is meant to be
  compiled: at this commit a struct of `visitor_entry_repository.go` lacks its
  closing brace and two packages disagree on an interface.
* `lostAt`, `settingsUntil` and `ruleUntil` are history variables: when a user lost a
  duty, when a settings row or a rule was last replaced. No action reads them but to
  keep them; they let the properties say *how long ago* a check became stale.
* The events in `log` are those the transactions record. `AutoCloseExpiredEntries` is
  an `UPDATE` and records none, which `AuditTrail` states as the exception it is.
* Arrivals that could only fail because a bounded table is full are not started
  (`InvitesLeft`, `EntriesLeft`); these guards and `MaxTime`, `MaxTokens` are the
  only bounds.

### How `Membership` corresponds to the code

**State.** `society` is the row of `societies` (status, `deleted_at`), `member` the
rows of `society_members`, one per user at most; the status `none` is a row that
was never inserted. The status `pending` of the schema is written by no code.
`ownedSince`, `lostAt` and `closedAt` are history variables.

**Requests.** A request goes through the reads its method makes, and writes once:

| Method | Steps |
|---|---|
| `AddMember`, `CreateGuard` for a new user | `Arrive`, `EnsureRole`, `CountActiveOwners` (role owner), `CommitAdd` |
| `ChangeMemberRole`, `SuspendMember`, `RemoveMember` | `Arrive`, `EnsureRole`, `RequireMember`, `CountActiveOwners` (if the row read says so), `CommitChangeRole`, `CommitSuspend`, `CommitRemove` |
| `ReactivateMember` | `Arrive`, `EnsureRole`, `CommitReactivate` |
| `TransferOwnership` | `Arrive`, `EnsureRole`, `CommitTransfer` |
| `AddResidentToFlat`, `ApproveClaim`, as far as members go | `Arrive`, `EnsureRole`, `CommitUpsertResident` |
| `DeleteSociety` | `Arrive`, `EnsureRole`, `CommitDelete` |
| `CreateSocietyRequest`, approve, reject, suspend, reactivate, restore | one step |

`Arrive` arms the deadline and reads the society, `EnsureRole` reads the actor's
row: `EnsureRole` runs these two statements outside any transaction.

**Decisions of the model**

* A write is one step, `TransferOwnership` with its three statements too. Row locks
  and the unique index `uq_society_members_one_active_owner` make any interleaving
  of them equal to an order of whole transactions, or make one fail. `Write` states
  the index: a write that would leave two active owners is not enabled.
* The platform's transitions repeat the status they checked in the `WHERE` of their
  one `UPDATE`, which alone decides; the check before only chooses the error.
* A refused quota is `Fail`. Which limits hold is a question of the `Quota` module.
* `Operations`, `Additions` and `Changes` say which operations and roles an instance's
  requests use.

Two facts the model makes visible, which no document contradicts: an inactive
member who kept the role `owner` can be neither demoted nor removed, since
`ensureNotLastOwner` counts at most one owner and so always refuses. A transfer
changes the row; `ReactivateMember` and the upsert of a residency make it active
again, as owner, where the unique index lets them. And a society without an owner is repaired by the transfer of an active admin, or by making
somebody owner through `AddMember` or `ChangeMemberRole`, and by nothing if no
active admin is left.

### How `Occupancy` corresponds to the code

**State.** `flat` is one row of `flats` (status, `is_active`), `stay` the rows of
`flat_residents` by id, `claim` those of `flat_claim_requests` by id; the status
`none` is a row that was never inserted. A user may have several rows over time, but
one active one (`uniq_active_flat_resident`), and the flat one active
primary. `shutAt`, when the flat last stopped being usable, and `origin`, the claim
whose approval made a stay, are history variables.

| Method | Steps |
|---|---|
| `AddResidentToFlat` | `AddResidentToFlat`, `ReadFlat` (`ensureFlatAssignable`), `CountPrimary` (if primary), `CommitAdd` |
| `RemoveResidentFromFlat`, `MoveOutResident` | arrival (`requireResident`), `Leave` (the `UPDATE` and `CountActive`), `CommitLeave` (`MarkVacant`, `COMMIT`) |
| `ChangePrimaryResident` | arrival, `ReadCurrent`, `CommitSetPrimary` or `SetPrimaryConflict` |
| `SubmitFlatClaim` | arrival, `ReadFlat`, `CommitSubmit` |
| `ApproveFlatClaim` | arrival, `ReadClaim`, `ReadFlat`, `CountPrimary` (if primary), `CommitApprove` |
| `RejectFlatClaim`, `CancelMyFlatClaim` | arrival, `CommitClose` |
| `BlockFlat`, `UnblockFlat`, `DeleteFlat`, `UpdateFlat` | one step |

**Decisions of the model**

* Here transactions read in the middle, and READ COMMITTED lets every read see what
  committed since the last one. So each read is a step, and only the writes of a
  transaction with its commit are one: row locks and unique indexes make every
  other interleaving of them equal to this one, or make one transaction fail.
* A removal writes first and counts after. `Leave` locks the row (`LockedByOther`)
  and remembers whom the count saw; the row changes for others at `CommitLeave`.
  Two removals of different residents can therefore both see the other one.
* An insert that meets a row somebody is about to release waits for it: `Insert`
  counts that row as active, and becomes possible once the release commits.
* Checks of the actor, the society and the quotas can only refuse, which `Fail`
  covers. They are the business of `Membership` and `Quota`.
* `UpdateFlatResidentRole` writes a column nothing here reads, and is left out.
* `UnblockFlat` makes a flat vacant whoever lives in it. That is documented
  (`flat_handler.go:212`), and `StatusDriftsByRace` is about the requests of
  residents and claims only.

**What it implements.** `Tenancy` has no rows, phases, locks or flat: `residents` are
the users of active stays, `head` the user of the active primary one, `claims` the rows
of the claims. Its `Enter` is the end of an addition, and together with `Settle` that of
an approval; `MoveOut` is the commit of a removal that hit an active row, `Succeed` that
of a change of the primary resident. Everything else - arrivals, reads, the first half of
a removal, what administrators do to the flat - is a stutter. The counts that
decide, of primary residents and of active rows, are made earlier than the write, so
that the refinement rests on what the unique indexes of `Insert` and the guarded
`UPDATE` of the claim let through.

### How `Quota` corresponds to the code

**State.** `sub` is `society_subscriptions` of one society by id, with the limits
copied from a plan when it was made or changed. `used` counts the rows of each kind
that `CountActive...ForQuota` counts (owners count as admins), `spare` the other rows
of the kind: inactive flats, suspended and removed members. `tightened` and `legit`
are history variables: when there was last less room for a kind, and the most rows
that a subscription, or an operation that asks for no quota, ever allowed.

| Method | Steps |
|---|---|
| `CreateFlat`, `BulkCreateFlats`, `AddMember` of an admin or staff, `CreateGuard` | `Arrive`, `ReadSubscription`, `CountUsage` (`checkQuota`), `CommitAdd` |
| `AddResidentToFlat`, `ApproveFlatClaim` | the same, with `CommitUpsertResident` for a user who has a member row |
| the seven operations on subscriptions | one statement, one step each |
| `AddMember` of a resident or owner, `ChangeMemberRole`, `SuspendMember`, `RemoveMember`, `ReactivateMember`, `TransferOwnership`, `UpdateFlat`, `DeleteFlat` | one step each, with no quota |

**Decisions of the model**

* The open slot is a unique index, so `WriteSub` is not enabled when it would leave two
  subscriptions open. A subscription that lapsed keeps its status, and the slot.
* `starts_at` and `trial_ends_at` are not in the state: no decision reads them. An end
  may lie in the past when it is given, since only `ends_at > starts_at` is checked.
* In `ApproveFlatClaim` the quota is read inside the transaction, whose `NOW()` is its
  start; a subscription that ended since then still counts for it. The model reads the
  clock at the statement.
* Who asks, and whether the society is operational, can only refuse. That a flat that is
  added twice or a member who exists already is refused is covered by `Fail`.
* Several members change at once only in a transfer, whose demotion moves an owner to
  admin, which are one kind.

### How `Accounts` corresponds to the code

**State.** `user` is one row of `users` (there or not, verified, blocked, and the
password `password_hash` is the hash of), `code` the rows of `user_verifications` by
id, `session[p]` until when tokens pass that come from a login with password `p`:
the server keeps none, so they are what clients hold. `closedAt`, `replacedAt`,
`blockedAt` and `uses`, how often a code verified or reset, are history variables. One user is enough: no statement relates two.

| Method | Steps |
|---|---|
| `Register` | `Register` (`EmailExists`, `PhoneExists`), `CommitRegister` |
| `RegisterResident` | `RegisterResident`, `CommitRegisterResident`, `Grant` |
| `VerifyEmail` | `VerifyEmail` (read the user), `ReadCode`, then `CommitVerify`, or `IncrementAttempts` after a wrong guess |
| `ResendEmailOTP`, `ForgotPassword` | arrival, `CommitIssue` |
| `ResetPassword` | `ResetPassword` (user, `rejectPasswordReuse`), `ReadCode`, then `CommitReset` or `IncrementAttempts` |
| `ChangePassword` | `ChangePassword` (middleware, current password), `CommitChange` |
| `Login` | `Login`, `Grant` (`UpdateLastLogin` and the tokens) |
| `Refresh` | `Refresh` (middleware), `Reissue` (`GetByID` and the new token) |
| `VerificationCleanupJob.run` | `DeleteUsedOrExpired` |

**Decisions of the model**

* A code matters by its row. Its digits, hashing and comparison are a choice: every
  guess may be right or wrong.
* The four timeouts (`OtpExpiry`, `AccessExpiry`, `RefreshExpiry`, `Timeout`) are
  constants; the model only needs them to be natural numbers.
* The mail is sent after the commit, and an error then is reported while the code
  stays: `CommitIssue` is the same whether the mail goes out or not.
* `is_blocked` and `is_active` are written by no code. `Block` is an operator who
  edits the row. Logging out clears the client's cookies; a token kept elsewhere
  goes on passing, which is why `session` has no action for it.
* The purposes `phone_verification` and `login_otp` of the schema are issued by no code.

Facts the model makes visible, which no document contradicts: a change of password
compares the current one before an `UPDATE` by user id, so a change in flight undoes
a reset that commits meanwhile (`PasswordGrace` bounds it); one code can set a password
twice, since `MarkAsUsed` takes a used row for an answer (`CodeUsesBounded` bounds it);
attempts beyond
`max_attempts` are possible in parallel (`AttemptsBounded` bounds them);
`MaxOTPAttempts` (`constants.go:9`) is read nowhere, each service that issues a code
passes 3 (`verification_service.go:178`, `registration_service.go:112`,
`password_service.go:88`).

### How `Server`, `RateLimit`, `ConnPool` and `Shutdown` correspond to the code

**`RateLimit`.** `bucket[i]` is the entry of address `i` in `visitors`: whole tokens,
and the ages of `lastRefill` and `lastSeen` in ticks (`Second` of them to
`refillRate`), which stop counting where nothing depends on them any more. A request
is one step (`Pass` or `Refuse`) and `CleanupVisitors` another: the two mutexes
protect the map and the bucket, and the moment between them matters only to a cleanup
that would have to find the address silent for ten minutes just after it was seen.
`credit` is a history variable: what an exact token bucket would hold.
`RATE_LIMIT_RPS` is the size of the bucket *and* one token a second is its refill:
with the default 100 a client gets a burst of 100 and then one request a second.
`config.go:197` also accepts 0, with which nobody would ever be let in; the model's
`Rps` is at least 1 (`LimiterConstantsOK`), and says nothing of that setting.

**`ConnPool`.** `req[w]` is what a request waits for and what it holds, whichever
method it runs: any number of reads, each with a connection of its own, then
nothing more or `WithTransaction`, in which it may call `makeQR`. `makeQR` gets the
outer context, so `GetQueries` takes its connection from the pool while the
transaction holds one (`AcquireInner`). A request that returns, by whatever way,
gives back what it holds (`Return`): `WithTransaction` commits or rolls back on every
path, panics included.

The deadline is armed by the service method (`Armed`). What is read before runs on the
request's own context, which has none: the guards of the route
(`guards.go:145`, `:169`, `:211`, `:213`) and `ensureStaffActor` of `CreateGuardEntry`.
`guards` counts these reads, at most `MaxGuards` of them; a request that waits for a
connection there waits until it gets one, until the pool closes or until its client
goes away (`Fail`, which nothing makes happen).

**`Shutdown`.** `main` follows `StartServerWithGracefulShutdown` and the calls that
`run()` deferred: after a signal and a drain, `db.Close` comes before
`deps.Shutdown`; after an error of the listener or a drain that took longer than
`shutdownTimeout` they run in the other order (`main = "abandoning"`), under the
requests that are served. Whoever has a connection may send one more until a drain is
complete, so requests keep arriving in that phase and in the drain (`Ask`). `job` is `VerificationCleanupJob.Start`
with the connection it uses, which no deadline limits. `Close` sets `Pool` to nil: a
tick of the job that comes between this and the cancellation is a panic in a
goroutine nobody recovers, `main = "crashed"`. The ticker ticks once an hour, so this
is rare; the model allows it at any time, no property forbids it, and `StopsWhenTold`
counts it as an end.

**`Server`** joins them: an address asks, the limiter passes or refuses, a free worker
serves it, one clock (`Tick`) fills buckets and runs deadlines down. Computing takes
no time in the model; what is waited for is a connection, an answer or the clock.

## 3. Properties

| Property | Says | Run |
|---|---|---|
| `TypeOK` | rows and requests stay well formed | decisions, members, residents, quotas, codes, path |
| `AuditTrail` | the events of an entry are exactly those the requests of its status record, each once; the sweep records none, so an auto-closed entry has the log of a checked-in one | decisions |
| `OneDecision` | one decision per entry, with its decider | decisions |
| `QRBinding` | a code is held by cleared entries only, and by one | decisions |
| `InviteConsumed` | an invite is spent with its entry, in both directions | invites |
| `InviteOveruseBounded` | a raced invite creates no more entries than requests in flight | invites |
| `InviteStaleUseBounded` | an expired, used or cancelled invite is dead after `Timeout` | invites |
| `StalePolicyBounded` | an entry has the status that a settings row and a rule give, each of them in force at most `Timeout` ago (read by two statements, they need not have been in force together) | checks |
| `RevocationBounded` | a lost duty is unusable after `Timeout` | checks |
| `CheckInGrace` | no check-in later than `Timeout` after the code expired | invites |
| `ImplementsLifecycle` | `VisitorEntry` refines `VisitorLifecycle` | decisions |
| `SettledOwnerStays` | an owner in office for longer than `Timeout` is replaced, never just lost | members |
| `MandateBounded` | a manager who lost the mandate cannot write after `Timeout` | members |
| `ClosedSocietyKeepsMembers` | members of a closed society do not change after `Timeout` | members |
| `ClaimSettledOnce` | a claim is approved iff its user got a stay for it, and only one | residents |
| `ShutFlatGrace` | nobody moves into a flat shut for longer than `Timeout`, nor claims it | shut |
| `StatusDriftsByRace` | adds and approvals keep `occupied` true to the residents; a removal does, unless others came or went between its count and its commit | residents |
| `ImplementsTenancy` | `Occupancy` refines `Tenancy`: nobody lives there twice, one head at most, who is succeeded and never replaced, and a claim lets in whoever made it, as it was made | residents |
| `OvershootBounded` | rows exceed what was allowed by at most what the requests in flight add | quotas |
| `QuotaGrace` | a checked insert stays within the limits in force, unless there was less room at most `Timeout` ago | quotas |
| `AttemptsBounded` | parallel guesses exceed `max_attempts` by no more than the other requests | codes |
| `CodeUsesBounded` | a code is spent once, and once more by each other request that read it in time | codes |
| `CodeGrace` | a code that was used, replaced, guessed to death or expired is dead after `Timeout` | codes |
| `PasswordGrace` | a password is replaced by who knew the current one, or the one of at most `Timeout` ago | sessions |
| `OldPasswordLockedOut` | tokens of a replaced password end, at the latest after two requests and both lifetimes | sessions |
| `BlockedLockedOut` | tokens of a blocked account end, at the latest after one request and an access token | sessions |
| `ImplementsTokenBucket` | the limiter lets nobody in whom an exact token bucket would refuse | path |
| `RefusedGetsIn` | a client that is refused and asks on gets in (liveness) | path |
| `ConnectionsAccounted` | each connection is free or has one holder, who holds what its phase needs | path |
| `StandstillIsNested` | the pool stands still only when transactions that wait for a second connection hold all of it | path |
| `AllAnswered` | every request is answered, also one that waits for a connection without a deadline, or the process ends (liveness) | path |
| `ClosedOnlyOnTheLate` | the pool closes under a request only when the stop was forced | path |
| `StopsWhenTold` | the process ends once told to, whatever is in flight (liveness) | path |

Two runs are expected to violate a statement of the repository that the code
does not implement, one of a comment and one of the API documentation. Their
counterexamples are the shortest demonstrations of it:

* `last_owner` / `LastOwnerKept`: `ensureNotLastOwner` is to keep the last active
  owner, but is called by the role read before. A suspension that read an admin
  lands after ownership was transferred to that admin. `SettledOwnerStays` is
  what does hold: only an owner installed within the last `Timeout` can be lost.
* `primary` / `PrimaryConflictIsRace`: the documentation promises a change of the
  primary resident, and 409 for a conflict (`flat_handler.go:718`). `SetPrimary` does
  not clear the flag of the one in office, and nothing calls `ClearPrimary`, so the
  unique index refuses every change as long as there is a primary resident. The
  conflict is not even the documented 409: nothing translates the database's error,
  and the handler answers it with 500.

Three more statements that the model contradicts, without a run of their own:

* The timeline of an entry is to show `Auto Closed` from `visitor_entry_events`
  (`todo/whattodo:334-356`), and the schema and the models know the event
  (`08_visitor_entries.sql:38`, `visitor_entries.go:63`). Nothing records it:
  `AutoCloseExpiredEntries` is one `UPDATE` of `visitor_entries`. `AuditTrail` says so.
* The documentation of both removals says that the last active resident's leaves the
  flat vacant (`flat_handler.go:687`, `:793`). Two residents who leave at once each
  count the other one, and the flat stays occupied with nobody in it.
  `StatusDriftsByRace` says that it takes such a race.
* An approval is to mark the flat occupied (`flat_handler.go:395`). `MarkOccupied`
  matches no row if the flat was blocked after it was checked, the repository reports
  that as no error, and the transaction commits without it (`ApproveFlatClaim` then
  dereferences the flat it was not given, `claim_command.go:137`).

## 4. Runs and bounds

One tick is one request lifetime (`Timeout = 1`), which is all the code distinguishes
(an expiry or a change lies before, within or after it), or longer than one
(`Timeout = 0`) where the order within a tick is what matters.
Fields of `PROJECT.json` "runs" name the properties; this table says why the
instance is big enough.

| Run | In flight | Rows | Races with | Clock, tokens | States |
|---|---|---|---|---|---|
| `decisions` | 2 workers | 2 entries, 1 user with both duties | each other, both sweeps | `MaxTime` 1, 3 tokens | 555,298 |
| `invites` | 2 workers | 1 invite, 3 entries | cancel, expiry sweep | `MaxTime` 3, 3 tokens | 1,295,360 |
| `checks` | 1 worker | 1 invite, 1 entry, a resident and a guard | 2 settings rows, 2 flat rules and the loss of either duty, at any step | `MaxTime` 1, `Timeout` 0 | 2,999,835 |
| `members` | 2 workers | 2 users | every operation on members and every transition of the society; members are added as owner or resident, and changed to owner | `MaxTime` 1, `Timeout` 0 | about 1.2 million |
| `residents` | 2 workers | 2 users, 3 stays, 1 claim | adds, removals, moves, a claim that is approved or cancelled | `MaxTime` 0 | 1,188,948 |
| `shut` | 2 workers | 1 user, 2 stays, 1 claim | blocking, deletion, updates of the flat, a claim that is approved or rejected | `MaxTime` 2 | 307,728 |
| `quotas` | 2 workers | 1 subscription, 3 rows of 2 kinds | every operation on the subscription, its end, unchecked rows | `MaxTime` 1, `Timeout` 0 | 1,228,423 |
| `codes` | 2 workers | 2 codes, 2 passwords, `MaxAttempts` 2 | resend, expiry and the cleanup job | `MaxTime` 3 | 1,184,522 |
| `sessions` | 2 workers | 1 code, 3 passwords | blocking, logins, refreshes, changes and resets | `MaxTime` 2, `Timeout` 0 | about 700 000 |
| `path` | 2 workers and the job | 2 connections, 1 address, 1 read without deadline | deadlines, a signal, an error of the listener, a drain that is too slow | ages; `Timeout` 1, `Grace` 1, `Second` 2, `Rps` 1 | 94,625 |

Two requests are enough to race for one row, since a transition is decided by the
one transaction that moves it; a third entry in `invites` lets an invite be used
twice and leaves a row free, so that the bound `Cardinality(Workers)` is
reached and could be exceeded. `MaxTime` is at least `Timeout` past the last event a
property counts from: 1 for a code or an invite to expire, 1 to
outlive the request, 1 to see that it is dead. `checks` has one worker: the
other party of its race is the administrator, an environment action. Its two settings
rows are a society that asks the flat (hybrid) and one that asks nobody and takes no
invites; what a mandatory society does is in `decisions` and `invites`. `decisions`
takes three tokens so that an entry can be regenerated while another one
takes a token. Requests and entries are interchangeable and are symmetry sets where
the run has no action that tells them apart.

In `members` an owner is in office at 0 and settled at 1; two users are the one who
gains and the one who loses a role, and a third would only repeat one of them.
A tick is longer than a request, and all orders happen within it; the theorems cover
every timeout.

`members` and `sessions` are explored under a view, `Ahead` of their MC module: states
are the same that differ only in what a late request was about (it can only fail) and
in history that no property tells apart (in `members`, what is older than a timeout;
in `sessions`, the history of codes, and that of the current password, which its
replacement overwrites). No action reads history, so such states have the same future
in every respect that is checked.

In `residents`, three stays let two residents live there and one come back. Only
`shut` is about time, so the clock stands still in the other: with `MaxTime` 0 no
deadline passes and every order of the steps is possible. A rejection closes a claim as
a cancellation does, and is left to `shut`.

`quotas` has two plans, one with room for a row of each kind and one for residents only,
so that a limit is lowered, and raised again, under a request. In it a tick is longer
than a request (`Timeout` 0): a request does not survive the end of the
subscription, and what happens at one time happens in every order. The theorems
cover every timeout, and several subscriptions over time, which share the open slot.

`codes` has as many codes as it takes for one to replace another, and an expiry of one
tick, so that at `MaxTime` 3 a code was issued, died, was outlived by a request and
is seen to be dead. `sessions` has three passwords, the one that is replaced, the one
that replaces it, and one to replace that; with lifetimes of one tick everything a
token can outlive happens before `MaxTime` 2, and a token that could be refreshed
beyond its bound would be seen there. In `path` two nested transactions exhaust two
connections, two ticks to the second make a fraction of it that is forgotten, and one
address is enough, as buckets share nothing; ages are capped in the model, so this run
has no bound on time and its liveness is about infinite behaviours.

Deadlock checking is on in every run but `members`, where a rejected society is
final, and `path`, where the process ends: an idle worker can always take a request
and a stuck one can always fail, unless the bounded tables are full and the
clock is at its bound, and then an environment action remains.

**Fairness** is stated by `Server`, and only there:

* `WF(Tick)`: time passes.
* `SF(Work(w) \/ GiveUp(w))`, for each worker: the database answers, a connection is
  given to who waits, `context.WithTimeout` fires, and a closed pool tells who waits.
  It is strong because of the pool: a connection that is given back may be taken by
  others again and again, so that a weakly fair wait could last for ever, and what
  the guards wait for has no deadline to end it. `pgxpool` stands on `puddle`
  (`go.mod:48`), which hands connections out through a semaphore in the order in which
  they were asked for: whoever is not served at once is served after at most as many
  others as were waiting before. `AllAnswered` needs it, and TLC finds it violated
  with `WF` in its place.
* `WF(JobEnds)`: the one statement of the job ends. Whether the job runs, or notices
  that it was cancelled, is not assumed.
* `WF(Stop)`: the main goroutine goes on to the end of `run()`. Whether a signal ever
  comes is not assumed.
* `SF(Ask(i))`: a client asks again and again. It is for `RefusedGetsIn`, which is
  about a client who does, and is strong because all workers may be busy in between.

The other modules state none. The progress that the service could promise there -
overdue visitors are closed, expired invites are marked, an approved entry whose code
expired gets a new one - depends on operations nothing schedules, and that a request
is answered is the business of `Server`.

## 5. Proofs

TLAPS checks the theorems of `VisitorProofs`, `VisitorStaleness` and `VisitorOveruse` for any sets of
workers, users, invites and entries, any settings and rules, any timeout and
bounds. The only assumption is `ConstantsOK` of `VisitorEntry`: types of the
constants, that there are finitely many workers (only `OveruseBounded` counts them),
that the three NULLs are not ids, and that a QR lifetime is at least
one request timeout, which `chk_society_qr_expiry` (one minute) and
`DefaultTimeout` (five seconds) give.

| Theorem | Gives | Argument |
|---|---|---|
| `TypeCorrect` | `TypeOK`, `Requests` | one lemma per group of actions (`EnvironmentType`, `ArrivalStarts`, `ReadProceeds`, `CommitType`); `Requests` says what a request in flight points at exists |
| `AuditTrailHolds` | `AuditTrail` | a transaction moves one entry and appends exactly the events of the move (`AuditedMoves`); all others leave status and log alone |
| `DecisionsHold` | `OneDecision`, `InviteConsumed` | the two are inductive only together: who approved an entry that came from an invite is read off the invite, which must still be the one that was spent |
| `CodesBound` | `QRBinding` | codes are below `lastToken`, so a new one is held by nobody |
| `LifecycleImplemented` | `ImplementsLifecycle` | initial states map to initial states; a transaction maps to the step of its entry, everything else to a stutter; a sweep moves several entries at once, as the abstract step does |
| `ChecksAreRecent` | `AllRecent` | the inductive invariant of the next four, see below |
| `InviteUseBounded` | `InviteStaleUseBounded` | |
| `PolicyUseBounded` | `StalePolicyBounded` | the rows a request has read are in force or were replaced when the history says (`PolicyHistory`, `PolicyAges`) |
| `RevocationUseBounded` | `RevocationBounded` | |
| `CheckInGraceHolds` | `CheckInGrace` | |
| `OveruseBounded` | `InviteOveruseBounded` | the entries an invite made plus the submissions in flight for it never exceed the workers (`Shared`): a submission starts only while there is no such entry, and turns into one |

The four staleness properties are about the moment a write lands, and the fact they
need was read earlier. `AllRecent` carries it across: for every request in
flight, what it read is still true, or stopped being true so late
that the request's deadline is at most `Timeout` after (`RecentInvite`,
`RecentDuty`, `RecentRules`, `RecentCode`; `RecentRules` keeps the two rows apart,
each with its own age). It needs `Deadlines` (only a guard's
form that has not reached the rules has no deadline) and `OnPath` (a phase belongs to
the operations that go through it), since without them a request could be at its
transaction without having made the check. The commit step then adds
`now <= deadline`.

`MembershipProofs` proves, from `ConstantsOK` of `Membership` only (types of the
constants):

| Theorem | Gives | Argument |
|---|---|---|
| `TypeCorrect` | `TypeOK` | one lemma per group of actions |
| `SettledOwner` | `SettledOwnerStays` | a request that can unseat an owner read a row that was not the owner's, and reads are recent |
| `MandatesBounded` | `MandateBounded` | what `EnsureRole` read is recent |
| `ClosedSociety` | `ClosedSocietyKeepsMembers` | what `Arrive` read is recent |

Its invariant `Inv` has the shape of `AllRecent`: what each request has read so far
holds, or stopped holding at most `Timeout` before its deadline. `OneOwner`, that
no two users are active owners, is the part that makes `SettledOwner` go through: it
turns the count of `ensureNotLastOwner` into a refusal of every request that read
the owner's row (`OwnerCount`).

`OccupancyProofs` proves, from `ConstantsOK` of `Occupancy` (types of the constants):

| Theorem | Gives | Argument |
|---|---|---|
| `TypeCorrect` | `TypeOK` | one lemma per group of actions |
| `ClaimsSettled` | `ClaimSettledOnce` | an approval inserts the stay and moves the claim in one transaction, and the claim must still be pending; a stay that was never inserted has no origin (`FreshStays`); an approving request carries the user of its claim (`ReadTheClaim`) |
| `ShutFlat` | `ShutFlatGrace` | a request past `ReadFlat` saw the flat open, so it was shut at most `Timeout` before the request's deadline (`RecentFlat`) |
| `StatusDrift` | `StatusDriftsByRace` | one case per action; a request that leaves without hitting an active row saw all the others (`GoneBefore`) |
| `TenancyImplemented` | `ImplementsTenancy` | initial states map to initial states; a commit maps to the step of `Tenancy` it is named for above, and all else to a stutter (`TenancyStep`) |

The refinement needs more than `Inv`. `TenancyInv` adds what the mapping forgets: active
stays belong to different users, one of them at most is primary (`Tenants`), claims were
made by users (`Claimants`), and an approving request that got past `ReadClaim` carries the
role that was claimed (`Asked`). The last relates a request to a row it read long
before; it survives because the user and the role of a claim never change once it is
made (`ClaimsSayTheSame`).

`QuotaProofs` proves, from `ConstantsOK` of `Quota` (types of the constants, and that
there are finitely many workers):

| Theorem | Gives | Argument |
|---|---|---|
| `TypeCorrect` | `TypeOK` | one lemma per group of actions; a request in flight names a kind and an amount (`AllNamed`) |
| `AnswersStayFresh` | `QuotaGrace` | the limit a request read, and the room it then found, are still there unless a step left less since (`AllSound`); `Effect` says what every step does to the room |
| `OvershootIsBounded` | `OvershootBounded` | one subscription is open, so time takes limits away and never replaces them (`CapStep`); the rows of a kind and the requests that passed `checkQuota` but have not written share the allowance (`Bounded`), and a step that adds pays for it (`Pays`) |

`AccountsProofs` proves, from `ConstantsOK` of `Accounts` (types of the constants, and
that there are finitely many workers):

| Theorem | Gives | Argument |
|---|---|---|
| `TypeCorrect` | `TypeOK` | part of `Inv` |
| `GuessesBounded` | `AttemptsBounded` | attempts of a code and the misses that were compared and not yet written never exceed the bound together: a miss is admitted while attempts are below `MaxAttempts`, and each worker has one at most |
| `CodesAreUsedUp` | `CodeUsesBounded` | the uses of a code and the requests that hold it, ready to commit, never exceed the workers together (`UsesInv`): only a code that was never used can be picked up, and a use takes one of its holders away |
| `CodesAreFresh` | `CodeGrace` | the code a request is about to spend was usable when read, so it closed at most `Timeout` before the deadline |
| `PasswordsAreFresh` | `PasswordGrace` | the same about the password that was seen |
| `OldPasswordsLockOut` | `OldPasswordLockedOut` | tokens bounded by a login that saw the password, and refreshes bounded by the refresh token |
| `BlockedLockOut` | `BlockedLockedOut` | a grant or refresh in flight saw the account open at most `Timeout` ago |

The properties are not inductive: they speak of rows and tokens, and the step that
makes them wrong would be made by a request that read long before. `Inv` adds what
each request in flight has read and how old that can be, and the tokens' bound for
passwords that are still current.

`ServerProofs` proves, from the assumptions on the constants of `RateLimit`, `ConnPool`
and `Shutdown`:

| Theorem | Gives | Argument |
|---|---|---|
| `TypeCorrect` | `TypeOK` | part of `Inv` |
| `NoConnectionLost` | `ConnectionsAccounted` | `HoldersInv`: one holder per connection, and a request holds what its phase says, without counting; every step of a worker takes free connections and gives back its own (`WorkerMovesInv`) |
| `OnlyNestedReadsStandStill` | `StandstillIsNested` | from `HoldersInv`: who waits without being nested holds nothing |
| `StandstillTakesThePool` | a standstill takes as many requests inside `makeQR` as there are connections | at a standstill each connection has a holder that waits in `makeQR`, and such a request holds one only: an injection |
| `RoomForOneMore` | with more connections than requests at a time there is no standstill | corollary |
| `DrainedBeforeClosed` | `ClosedOnlyOnTheLate` | `StopInv`: the pool closes after a drain that found nobody, or after the cancellation; nobody arrives once the drain is complete, and a stop that did not drain cancels the job before it closes the pool |
| `LimiterImplementsTokenBucket` | `ImplementsTokenBucket` | `LimiterInv`: the tokens of a bucket and the age of its refill are worth at most `credit`, and a bucket in the map is never full, so one that is dropped and made again gains nothing |

The last one needs `Full <= IdleLimit`: a bucket that takes longer to fill than the ten
minutes after which it is dropped would come back fuller than it was. With
`RATE_LIMIT_RPS` above 600 that is so, and the limiter is then laxer than a token bucket.

The two about the size of the pool assume finitely many workers. Nothing in the code bounds
the requests at a time, so no setting of `DB_MAX_OPEN_CONNS` rules a standstill out by
itself; it takes a bound in front of the service, one below the size of the pool. Without
one, deadlines end a standstill (`AllAnswered`).

Only model-checked: the three liveness properties of `path` (liveness under fairness is
out of the prover's reach), and the two violations.

## 6. Not modelled, and why

* **Visitor settings** are rows that administrators and residents edit in one step;
  what an edit that waits for a reset's row lock is answered changes no row, and the
  defaults a new flat gets are constants.
* **The token in a check-in.** A request carries the entry, not the code it
  presented. A code that was replaced between validation and `UPDATE` still opens the
  gate for the same visitor.
* **Two societies.** A form that names another society's flat in a mandatory or
  optional society is accepted by the code; the visitor model has one flat.
* **Retries.** A `COMMIT` whose answer was lost, and the client's second attempt, are
  two requests; nothing in the code makes them one, and nothing promises it.
* **Mail.** Sending follows the commit and changes no row.
* **Start-up.** It is sequential and either succeeds or ends the process. Retries of
  the first connection, migrations, configuration and logging are I/O.
* **Plans** are independent rows with single-statement edits, copied into a
  subscription. `UpdateFlatResidentRole`, `UpdateSociety` and profile data are columns
  nothing decides on.
* **Dashboards, statistics and list queries** change nothing. **Handlers and routes**
  parse, call one service method and format; of the guards in front of them only the
  reads are modelled, as waits for a connection. **Generated query code** is mapped where its
  SQL guards or assigns; the scanning of rows is left out. **The web client** keeps no
  state that others see.
* **Composition of the tables.** `Reassign` of `VisitorEntry` stands for what
  `Membership` and `Occupancy` do to duties, and `Fail` for refusals of another
  component. Their product is beyond TLC, and the properties of each hold whatever the
  others do, since the environment may do anything at any time.

Recursion over data and induction over sequences are out of the prover's reach; the
models need neither.

## 7. Running

    tlasany Server.tla
    tlc -workers 2 -config MCVisitor_decisions.cfg MCVisitor
    tlc -workers 2 -config MCMembership_members.cfg MCMembership
    tlc -workers 2 -config MCOccupancy_residents.cfg MCOccupancy
    tlc -workers 2 -config MCQuota_quotas.cfg MCQuota
    tlc -workers 2 -config MCAccounts_codes.cfg MCAccounts
    tlc -workers 2 -config MCAccounts_sessions.cfg MCAccounts
    tlc -workers 2 -config MCServer_path.cfg MCServer
    tlapm VisitorProofs.tla       # and VisitorStaleness, VisitorOveruse,
                                  # MembershipProofs,
                                  # OccupancyProofs, QuotaProofs, AccountsProofs,
                                  # ServerProofs
