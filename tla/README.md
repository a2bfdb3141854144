# MoneyPact: models, checks and proofs

Paths are relative to `src/`. The repository is a TypeScript monorepo: a budgeting
application (CoBudget / MoneyPact) whose API keeps everything in PostgreSQL through a
statement seam (`packages/data-access`), most of it in SERIALIZABLE transactions.

## 1. Inventory

| Component | State | Operations | Hard parts |
|---|---|---|---|
| Sessions (`packages/sessions`) | `account_subject_authority`, `account_session`, `account_session_fresh_assurance`, `session_delivery_result` | issue, rotate, resolve, slide, log out, bump an epoch, grant and consume assurance | every operation races every other; revocation is not a lock but a compare-and-swap |
| Authorization boundary (`apps/api/src/authorization`, `apps/api/src/sessions`) | none of its own | authorize, re-check, fence, discharge, work, commit; retry | facts are read before and again inside the transaction; rollback and retry |
| Revocation outbox (`packages/sessions/src/outbox-worker.ts`) | `revocation_outbox` | enqueue, claim, query, dispatch, record | concurrent drains, ambiguous answers, deadlines, crashes |
| Provider events (`packages/sessions/src/provider-events.ts`) | `provider_security_event`, watermark and epoch of the authority row | insert, apply, correct, reconcile | duplicates, reordering, clock skew, an effect that follows its row |
| Identity ceremony (`apps/api/src/identity`) | challenges in memory; `identity_callback`, `identity_session_handoff` | begin, callback, exchange, map, issue and finalize, step up, log out | duplicate callbacks, retries of a half-finished sign-in, lost responses |
| Delivery sweep (`packages/sessions/src/sweep-worker.ts`) | `session_delivery_result` | select the expired, revoke, erase | a slow acknowledgement |
| Primary transfer (`packages/budget-application/src/primary-transfer`) | `budget_space_primary_transfer`, and the memberships, consents, space row and invitations its commit rewrites | propose, accept, confirm, decline, withdraw, close | two parties and a deadline, captured versions, one atomic commit of many rows |
| Invitations (`packages/budget-application/src/invitations`) | invitation, code, ceremony and confirmation rows, memberships, consents | create, replace, cancel, list, resolve, prove, attach, accept, decline, confirm, reject | links in several hands, expiry on observation, one person with several invitations |
| Creation proposals and confirmation (`packages/budget-application`) | `budget_creation_proposal`, `budget_creation_operation` and `budget_creation_idempotency`; the rows of a new space | create, regenerate, read, discard, confirm | retried creates and confirms, a chain of proposals that two calls extend or close at once, expiry and changed dependencies, answers lost with a release |
| Manual transactions (`packages/budget-application/src/transactions`) | version rows, idempotency rows | create, edit, remove | retried requests, lost updates |
| Periods and targets (`packages/budget-application/src/targets`, `src/persistence`) | period rows, categories, base and period targets | preview, confirm, detail, set, plan | rows that retain how they were computed, midnights under a read, two rules for the current period |
| Rate limiting (`packages/rate-limit`) | buckets in memory | consume, release, refund, rotate keys | window and refill boundaries, reserved units |
| Budget calendar (`packages/budget-domain/src/schedule`) | none (pure) | periods, paydays, occurrences | month ends, leap days, holidays, horizons that move with the date of the read |
| Policy (`packages/contracts`) | none (pure) | evaluate | a large table |
| Web client, worker runtime, migrations, scripts | - | - | left out: user interface, wiring and tools |

How they interact: a callback of the ceremony issues a session; every request resolves
its session through the gate and is authorized by the boundary; the boundary's
transaction re-resolves the session, fences its subject's epoch and runs the use case;
a revocation moves the epoch and writes outbox rows; the provider's events move the
epoch too; drains tell the provider. A use case's own rows come last: a transfer's
commit changes the roles the policy reads and cancels invitations, a confirmed
invitation adds a membership that a transfer may be proposed to, a changed role makes
stored answers of the ledger's retries unreadable, and the counter stands before all of
them.

## 2. What is modelled

### SessionAuthority (with SessionContract and SessionAuthorityProofs)

The three tables every request depends on, and three kinds of actors.

- A **mutation** is one `AuthorizationBoundary.execute`: `Authorize` (facts read
  outside a transaction), `BeginAttempt` (the snapshot, the second decision),
  `TouchSession` (the in-transaction slide), `FenceEpoch`, `SpendGrant`,
  `CommitMutation`; `RetryAttempt` is SQLSTATE 40001 / 40P01, `AbandonMutation` any
  other failure. What the use case itself writes is not modelled here.
- An **issuance** is one consumption of a hand-off inside the ceremony's transaction:
  `BeginIssuance` (subject and prior row read), `AllocateVersion`, `RetirePrior`,
  `CommitIssuance`; `RejectIssuance`, and `AbandonIssuance`, which makes the hand-off
  consumable again.
- **Autocommitted statements**: `Logout`, `BumpEpoch` (with the lifecycle its cause
  demands), `GateRead` / `GateSlide` (an identity-only resolution and its late,
  non-waiting slide), `StepUpRead` / `StepUpInsert` (a grant and its partial unique
  index).

PostgreSQL is modelled from how the code relies on it: a transaction reads the
snapshot of its first statement, an UPDATE locks its row to the end of the
transaction (`lock`), and an UPDATE of a row that somebody committed since the
snapshot fails (`stale`). Read dependencies, by which a SERIALIZABLE transaction may
also abort, are left out: they only remove behaviours, so no safety property here
rests on them. A subject's authority row exists from the start (the code bootstraps
it with exactly these values). One (action, space) pair is modelled, so the index on
grants is one slot per session. The clock is a bounded counter; an attempt's `at` is
the clock at its first statement.

`SessionContract` says what this is for, without rows, locks or retries: a session
lives from its issue to one atomic end, a request acts on a live session or not at
all, a grant backs one act. `ImplementsContract` is the refinement.

### RevocationOutbox (with ProviderTrafficProofs)

`Revoke` / `Enqueue` insert the rows a cause demands, one statement each, after the
revocation is committed (`RequestStops`: the process dies in between). Each drain
reconciles, then dispatches: `StartDrain`, `Claim` (a compare-and-swap on the state it
selected), `NextSelect`, `Reconcile` (queryStatus), `Dispatch` and `RecordDispatch`
(the adapter's call and the update after it), `ExpireAction`, `FinishPhase`.
`DrainStops` is a crash, or an exception of `queryStatus` or the store, which nothing
catches. The provider is external: `done` says whether it applied the action, which an
answer other than "succeeded" does not tell. The backoff is one value, so
`attempt_count` is not kept.

### ProviderEvents (with ProviderTrafficProofs)

One subject's authority row (epoch and watermark) and the event rows. `Observe` is the
decision before the insert, `ClaimEvent` the insert that claims the event,
`ApplyEffect` the compare-and-swap of epoch and watermark (it decides again on the row
it swaps; all four guarded columns only grow, so decision and write are one step),
`CorrectRow` the correction of a row whose effect was refused, `ReconcileEvent`,
`DeliveryStops`. `effected` is a history variable.

### IdentityCeremony (with IdentityCeremonyProofs)

Signing in, from `begin` to the answer that sets the cookie, and the sweep of deliveries
nobody acknowledged. A challenge also names the account subject its completion would
create, a delivery of a callback also the session it would mint.

- **Challenges** live in one process: `Begin`, `SweepChallenges` (the deadline timer),
  `Restart` (every challenge, call and open transaction is gone, the rows stay).
- **A delivery** (`request`) is one call of `complete`: `ReceiveUnusable`,
  `ReceiveError`, `TakeChallenge` (it owns the completion) or `ReceiveAgain` (it joins
  the completion in flight, or reads the stored result); `LeaveJoin` is the end of the
  bounded wait, early or not.
- **Its completion**: `Exchange`, `MapRead` / `MapCommit` / `MapConflict` / `MapFails`
  (one attempt of the mapping transaction), `Settle` (the exhaustion or integrity
  path), `IssueRead` / `IssueCommit` / `IssueFails` / `Reject`, `Acknowledge`,
  `AnswerFirst`. A commit has an argument `told`: it may succeed without its client
  learning so.
- **The stored result** is two reads, `StoredCallback` and `StoredHandoff`, and perhaps
  `NumberAttempt` and an issue of its own.
- **The sweep**: `SweepSelect`, `SweepRevoke`, `SweepAcknowledge`, a statement each.

A transaction reads in one step and commits in another; `doomed` holds the open
transactions that will write a row somebody committed since, which cannot commit. All
refusals are one answer, since no property tells them apart. Left out: the step-up
ceremony and the prior session of an account switch (their rows are in
SessionAuthority), the profile rows (an integrity violation is a choice of `MapRead`),
the mapping's branches for an existing callback row (only the owner of a challenge
maps it, so none exists), faults of plain reads.

### BudgetSpace, PrimaryTransfer, Invitations and Collaboration (with CollaborationProofs)

The rows one budget space's members share, and the two command sets over them.
`BudgetSpace` has the rows (memberships, the space row, consents, invitations, the
version of the disclosure registry, the clock) and the policy's cells (`Allowed`);
`PrimaryTransfer` and `Invitations` each extend it with their commands; `Collaboration`
is the system of both.

- **A command is one step.** The API runs each in one SERIALIZABLE transaction that is
  re-run on a conflict, with the policy's facts read again inside it
  (`apps/api/src/primary-transfer/http.ts`, `apps/api/src/invitations/http.ts`), and
  every conditional update that finds nothing rolls it back. A command that throws
  writes nothing, and one that only denies writes an audit record: both are stuttering
  steps. A read that writes (an expired invitation, an expired or stale workflow) is an
  action of its own or part of the command that reads.
- **A transfer**: `Propose` captures the versions of the space and of both memberships;
  `Accept` and `Confirm` record a leg, and the leg that completes the pair commits in
  the same step (the code's state `ready` is never left in a row). `Confirm` spends its
  grant and discharges the obligations on the space's *live* workflow before it loads
  the *named* one, so a grant can be spent to no effect. `CloseOnLoad` is `TR-73-46`.
  `Commit` writes memberships, space, consents, invitations and the workflow.
- **An invitation's** row holds its code's disposition, its current ceremony and its one
  confirmation. `Create` includes the suppressed ("synthetic") record of a destination
  that is the creator's own or a member's; `Replace` is the resend, the replace route
  and a create for a destination that has a pending record. `Resolve` replaces the
  current ceremony; a last wrong guess in `VerifyChannel` kills the code; `Attach` and
  `AcceptInvite` cancel the invitation of someone who is a member or whose membership
  ended since; `ConfirmAcceptance` seats the person and cancels their other records.
- **The environment**: time, a deployed disclosure, and departures. Nothing under `src/`
  ends a membership at this commit; the commands read that one ended, so
  `MembershipEnds` stands for whatever will end it.

`OwnershipContract` says what a transfer promises: ownership passes only by an offer of
its holder that both parties agreed to while it stood, one offer at a time.
`ImplementsOwnership` is the refinement; `Standings` is its mapping.

### Ledger

The version rows and idempotency rows of manual transactions. A call of a mutating
route is not one step: `Arrive` reads the membership, `Lookup` the key's row (a row
answers: replayed, mismatch, or denied when the membership's authorization version has
moved), `Deny` is the policy's refusal, `Begin` opens the effect's transaction and
checks the stated basis on its snapshot, `Commit` stamps the old version, appends the
new one and stores the key, `Conflict` is a rollback; this transaction is never re-run.
`StillCurrent` and `KeyUnused` are what the stamp's count, the partial unique index on
current versions and the unique scope refuse. Commands are opaque: amounts, dates,
accounts and allocations are data.

### CreationProposals (with BudgetWritesProofs)

How a space comes to be, for one person (every statement of the code names the subject
first). A proposal row keeps its chain (`predecessor`, `successor`, `revision`), the
dependencies its preview was computed from, its idempotency key and its
`lifecycle_revision`; a confirmation is one row with its proposal and its key, and
stands for the space, membership, consent and audit rows that commit with it.

- **A create** (`proposal-http.ts`, `creation-proposals/application.ts`): `Submit` is the
  authorization, which captures a regeneration target's lifecycle revision;
  `BeginCreate` one attempt's reads and refusals, in the code's order (session, captured
  revision, target, key, chain end); `Issue` its commit, with the supersession of the
  predecessor.
- **A confirm** (`http.ts`, `creation-confirmation/index.ts`): `AskReplay`, `Locate` and
  `Authorize` are three reads outside the transaction; `BeginConfirm` the attempt's
  (replay, locate, verify, disclosure); `Confirm` its commit.
- `Retry` is the loop around a rolled-back attempt: a confirmation first asks whether its
  key was confirmed meanwhile (`transaction-store.ts:105`); the attempts are bounded. The
  confirmation's handler takes the resolved request away when it is entered (`http.ts:65`),
  so an attempt that was rolled back after that is run again from `spent`: it may still
  find that its key, or somebody, decided the proposal, and is denied otherwise. Only one
  that was rolled back at its reads can still confirm.
- **Around them**: `Discard`, `Tick`, `RenewSession` (a new session generation makes the
  old proposals unreadable), `Deploy` (another catalog, calendar or time zone data; the
  calls under way get no answer).

An attempt reads in one step and commits in another. A transaction that overlapped a
commit cannot commit (`Isolated`): each reads all of the person's proposals before it
writes one, which the store's comment names as what its correctness rests on. The two
uniqueness constraints of a confirmation are `Unconfirmed`. `Dependencies` is equality
of what the fingerprint digests: the draft, the session, the local date and the
release. Days have a fixed length, so no clock change shortens one.

### RateLimit

The in-process counter. `Consume` is one call of it with the keys its deriver produced;
`Refreshed` is what each consumption, refused or not, first does to the bucket; units
stand for the entries of the code's arrays. `Release` is the end of the response,
`Refund` the return of a reserved unit whose effect was denied, `Rotate` a new counting
secret (no application rotates it at this commit), `Pass` the clock. All records have
one window and one quota and each is counted for one actor, since buckets of different
keys share nothing.

### BudgetCalendar and BudgetPlan (with CalendarProofs and BudgetPlanProofs)

The schedule of a space and what is planned under it. `BudgetCalendar` is the pure part:
every cadence and paycheck pattern with its validation (`IsValidDefinition`), the
business-day adjustment with the Federal Reserve's holidays (`AdjustToBusinessDay`),
the anchors and boundaries within a horizon (`HorizonAnchors`, `BoundaryDates`), the
period that contains a date and the next one, and the preview's four periods. A date is
a day number, a month a cursor; intervals are walked from their origin, as the code
walks them. `Beginnings` is the reference: the days on which a period should begin,
said of each day by itself.

`BudgetPlan` is one space: `Propose` (a schedule on a date), `OpenSpace` (the
confirmation stores the previewed periods), `DaysPass`, and the routes that write:
`UpsertCategories`, `SetBaseTargets`, `ReadPlan`, which computes the plan of a period
and stores it when its content changed. A route runs in one SERIALIZABLE transaction
that is not retried, so a call is one step; a midnight may still fall between the begin
of the transaction, which the trigger compares with, the handler's clock, which decides
whether the period is completed and stamps the rows, and the commit: these are
`ReadPlan`'s two days (`UnderWay`), and a row keeps the days it was computed and
superseded on. That the database's clock is not ahead of the handler's is assumed. `at`
and `until` are not the rows' timestamps but the places of the commits that wrote and
superseded them: the timestamps are the handlers' clocks, which need not follow the order
of the commits, so `PlanRowsExplain` says what stood in that order and not at the
`computedAt` a row shows.

In every module a definition whose comment begins with "Faulty:" is not part of the
model: it shows, put in the place of its neighbour, that a property can fail.

## 3. Runs

| Run | Bounds | Result |
|---|---|---|
| `mutations` | 1 subject, 2 hand-offs, 1 grant, 2 mutations of 2 attempts, 1 gate, 1 bump, 2 instants | `CommitOnlyLive`, `ImplementsContract` hold |
| `issuance` | 2 subjects, 3 hand-offs, 1 bump each | `TypeOK`, `ClosedSubjectHasNoLiveSession`, `VersionsDistinct`, `PriorEndedByItsHeir` hold |
| `idle_slide` | 1 session, 1 mutation, 1 gate, 3 instants | violation |
| `step_up` | 1 session, 2 grants, 3 instants | violation |
| `provider_traffic` | 1 revocation, 2 drains, 1 early end, 3 instants; 5 events, 2 deliveries at once, 1 early end | all seven properties hold |
| `outbox_deferral` | 1 revocation, 2 drains, 3 instants | violation |
| `provider_skew` | 5 events, 2 deliveries at once | violation |
| `ceremony` | 2 challenges, 1 identity, 2 deliveries, room for 1 challenge, 2 mapping attempts, 1 restart, 3 instants | all five properties hold |
| `ceremony_commit` | 1 challenge, 2 deliveries, 2 instants | violation |
| `space` | 4 membership rows, 3 people, 2 destinations, 2 invitations, 2 transfers (2 workflows in all), 2 grants, 1 departure or 1 deployed disclosure, 3 instants | all eleven properties hold |
| `budget_writes` | 4 calls (2 at once), 1 key, 2 transactions, 3 versions, 1 changed role; 4 units, 1 record at a time, window of 2 instants, ceiling of 3, 1 refund, 1 rotation, 4 instants; 4 creates and confirms (2 at once), 2 proposals, 1 draft, 2 keys, 2 attempts, 3 instants, 2 sessions, 2 releases; 16 schedules, 4 dates of a proposal, 4 later dates, 2 categories, 2 amounts, 4 commits under one schedule | all eleven properties hold |
| `plan_routes` | the schedules, dates and commits of `budget_writes` | violation |

Why the bounds suffice: two mutations and a grant are the least that can contend
for a grant; two retrying attempts include one made on a fresh snapshot; three
hand-offs allow two heirs to contend for one prior of either subject; one bump ends
every session of a subject and a second one adds no new relation between epochs.
`provider_traffic`: the outbox needs two drains for every claim race, and a clock that passes the
deadline and one backoff; its limit of one row per claim makes claiming stop early too. Two
deliveries at once are the least that can race, of one event or of two; each may be followed
by any number of later ones. The outbox and the events share no row, so each is explored
with the other at rest, and the fairness is the outbox's. The
events include three cursors out of order, one event without a cursor, one of another
environment and one that may be ahead of the clock. `CHECK_DEADLOCK FALSE` in the
session runs: each hand-off, mutation and grant is used once, so a behaviour ends. In
the ceremony two deliveries are the least for every race of a completion with a
duplicate, and of two first sign-ins; room for one challenge makes `begin` be refused
and lets a challenge be forgotten while its completion is still at work; the clock
passes the deadline of a challenge and of a hand-off. It too ends when every delivery
is answered.

`space`: two workflows are the least for each race its properties are about (two
transfers in a row, two invitations of one person, an invitation beside a transfer, a
replacement); four membership rows seat both founders and two newcomers, or one person
twice, which three people are enough for. A transfer lives one instant, so a leg can
come in time, late, or after a second proposal; an invitation lives two and its
ceremony and confirmation one, so each can expire with the others still good. A single
attempt at the channel challenge is allowed, which makes the limit reachable. The
remaining bounds of `MCBounds` keep disturbances from multiplying: they meet each
workflow, but not every pair of workflows. Its proofs, below, have none of these bounds.

`budget_writes`: three calls make a retry meet a first attempt and a rival edit, the
fourth a retry after both; four units fill a window, which holds three, and one more;
four instants let a window end while a unit of the previous one is still held. Of the creations, two calls
race, the third meets what they left, and the fourth makes two confirmations race for
what two creates issued; two proposals are a chain, two keys a retry and a rival. A day
and the retention last two instants and a proposal's thirty minutes one, so both kinds
of expiry, a key remembered and a key forgotten occur within the clock's two ticks, and
the session and the release change once each; `MCSubmissions` limits how many of these
changes meet how many calls. The plan has every
cadence and paycheck pattern with anchors at month ends, and proposals made before
Thanksgiving, before a July 4 observed on a weekend, before a leap day and before New
Year; the later dates lie in the first period, in the next ones and past all four, so
periods are computed again from horizons that have moved past the first. Under one
weekly schedule four commits write, the least in which a base target is set, a plan
stored, the base superseded and the plan stored again; no request tells the two
categories apart, so the run takes them as interchangeable (`SYMMETRY`). One visited date
is the first day after a stored period, so a read can begin, and its handler read the
clock, on either side of that midnight. Creations,
ledger, counter and plan share no state, so each is explored with the others at rest; the run
is one only so that they are instantiated together. Each identifier is used once, so
behaviours of this run and of `space` end (`CHECK_DEADLOCK FALSE`).

### The six violations

- `idle_slide`: a gate reads; the clock moves; a mutation slides the session's idle
  expiry and commits; the gate's slide then writes its older instant.
  "Idle expiry slides forward" does not hold, the session just ends earlier.
- `step_up`: a grant expires unspent. The unique index covers it still, and every later
  step-up of that session, action and space is refused while no grant is usable.
- `outbox_deferral`: a drain selects a due row; another drain claims it, fails and
  defers it back to the same state; the first drain's swap sees the state it expects
  and claims the row before `next_attempt_at`.
- `provider_skew`: an event ahead of the clock is inserted as
  `applied_pending_reconciliation`, loses the race to a later cursor, and is not
  corrected, since the correction matches only `applied`.
- `ceremony_commit`: a duplicate callback reads the callback row; the first delivery
  commits and acknowledges; the duplicate reads the hand-off, finds it consumed but (as
  it read) not finalized, tries to issue, is rejected because the delivery is
  acknowledged, and the rejection's second transaction marks the committed callback
  `callback_failure`. The session and its cookie stay good; what the rows say of it, and
  what a later delivery is told, is a failure.
- `plan_routes`: once the first period is over, the detail route shows the row that
  contains the date, while a plan read without a period still answers for
  `current_period_id`, which is written once, at the confirmation.

### Comments the code does not bear out

Three more, met while modelling, too small for a run of their own:

- `loadLive` and `committedAnswer` (`packages/budget-application/src/primary-transfer/application.ts:368`
  and `:574`) say that a retried accept or confirm recovers the committed receipt. After
  the commit neither party holds the role of its cell any more, so the policy denies the
  retry before the handler runs (`apps/api/src/primary-transfer/http.test.ts:245` expects
  the 403). The branch is reached only when a later transfer has given the party its
  former role back; it writes nothing, so in the model it is a stutter.
- `currentConfirmation` (`packages/budget-application/src/invitations/application.ts:1262`)
  says an expired confirmation request is materialized before it is denied. It then
  throws, and every route rolls the update back; the row stays `requested`. The model's
  `Decidable` refuses it by its deadline.
- The counter's comment (`packages/rate-limit/src/counter.ts:18`) says a refund resolves
  false once the window that held the reservation has ended. Reservations are pruned by
  the next consumption, so a refund before it still resolves true. Nothing is gained by
  it: the unit it removes is out of the window.

### Fairness

`provider_traffic` and `ceremony` check liveness. The outbox's fairness (`TrafficSpec`, the
`FairSpec` of RevocationOutbox) assumes that time passes
(`Tick`), that the job is started repeatedly (its header describes a scheduled job; no application
registers it at this commit) and that a drain nothing stops goes on to its end: its
steps are awaited statements and adapter calls. It assumes nothing of the provider: an
answer may stay ambiguous or failed for ever. `MaxStops` bounds crashes; rows claimed by
a drain that was cut short stay `in_flight`, which nothing in the code recovers, and
`EveryActionSettles` exempts them. The ceremony's `FairSpec` assumes only that a call
which is running goes on: its steps are awaited statements, a bounded exchange and a
bounded wait. It says nothing of the clock, of new callbacks or of the sweep, which no
application schedules; so no property says that an expired envelope is erased in the
end. The session module has no liveness property: its
retries are bounded and then denied, so nothing must eventually happen. Neither have the
space, the creations, the plan, the ledger and the counter: a workflow nobody loads stays as it is for ever (its
deadline is observed, never scheduled), every call may be abandoned by its client, and a
bucket changes only when it is asked.

## 4. Proofs

### The session protocol

`SessionAuthorityProofs` proves, for every value of the constants and from the
assumptions stated in `SessionAuthority` only:

- `TypeCorrect`: `Spec => []TypeOK`;
- `Invariance`: the inductive invariant `IInv`;
- `ClosedSubjects`: `Spec => []ClosedSubjectHasNoLiveSession`;
- `NoOvertakenRevocation`: `Spec => CommitOnlyLive`;
- `VersionsAreDistinct` (`VersionsDistinct`) and `ReplacedByItsHeir`
  (`PriorEndedByItsHeir`);
- `SessionsImplementContract`: `Spec => ImplementsContract`, the refinement.

The safety properties are not inductive alone: that a session is live when its mutation
commits depends on what the transaction read earlier. `IInv` says that a transaction
that has passed a row's update holds that row's lock, that a locked row is not stale,
and that what the snapshot showed of a row that is not stale still holds of the row
now. A mutation commits holding its session row and its subject's authority row, so the
session it resolved is still live; an issuance holds the authority row it read as
active, so no bump slips between. The proof has one step per action, and lemmas about
`Take`, `Publish`, `Discard` and `Release` carry the parts an action does not disturb.

On `IInv` rest the later three:

- `VersionsDistinct` needs that every issued version, and the one an open issuance
  allocated while it holds the authority row, is below the subject's counter as that
  transaction would leave it: the row's lock keeps two issuances from allocating alike.
- `PriorEndedByItsHeir` needs that the session an issuance retired stays active and
  locked until that issuance commits, and that a session that has ended never changes
  again: so the heir that its row names is the one that ended it.
- The refinement maps the rows to the contract's sets of issued, ended, acted and spent
  (`EndedSet` is what `Live` refuses). Each step is shown to be one step of the
  contract or a stutter: a commit publishes its whole transaction, so the ends, the
  act and the spent grant come at once; a grant held by an open transaction is locked
  and unspent, so no other act has spent it.

### The outbox

`ProviderTrafficProofs` proves of the outbox, for any numbers of revocations and drains and any
limits, and from `OutboxAssumption` only:

- `OutboxTypeCorrect`: `Spec => []TypeOK`;
- `OneOwnerHolds`: `Spec => []OneOwner`;
- `SucceededIsApplied`: `Spec => []SucceededMeansApplied`;
- `NeverBlindRetry`: `Spec => NoBlindRetry`.

They rest on one invariant, `IInv`, and need each other. `OneOwner` makes a drain the
only one to ask the provider about its row, so the answer it is about to record is the
last one given (`RecordingAnswer`); hence the state of every row agrees with the last
answer (`RowsAgree`: a "succeeded" row was applied, a retryable one was not left
ambiguous); hence a row claimed for dispatch was not ambiguous when it was claimed, and
stays so until its drain dispatches it (`HeldToDispatch`). Two parts tie the invariant
to the code's shape: a drain selects only ambiguous rows while it reconciles
(`PhaseSelects`), and a row that a requester has still to insert does not exist, so an
insert never overwrites a claim (`OwedRowsAbsent`). `LetGo` is the lemma of the three
ways a drain lets go of a row, `Shift` that of the steps that take none.

### The provider's events

`ProviderTrafficProofs` proves of the events, for any events, cursors and number of
deliveries at once from `EventsAssumption` alone: `EventsTypes` (`EventsTypeOK`), `RowsTell`
(`RowsTellTheirEffect`) and `CursorsInOrder` (`EffectsInCursorOrder`). The invariant is
`EventsInv`. The insert that finds no row of an event makes its delivery the only one to
work on it, and its bump is still to come (`WorkInv`): so the epoch counts each event
once. Every effect leaves the watermark at or past its cursor, every effect has an
accepted row, and an applied row that nobody works on without an effect is explained by
a quarantine or an early end (`EffectInv`): so a bump ahead of the watermark is ahead of
every earlier one.

The drains and the deliveries touch different rows, so a step of either leaves the other
at rest: `TrafficIsBoth` shows that a behaviour of their composition (`TrafficSpec`) is
one of the outbox and one of the events, and each theorem of either holds of both at
once. `TrafficTypes` is the composition's type invariant.

### Signing in

`IdentityCeremonyProofs` proves, for any numbers of challenges, identities, deliveries,
mapping attempts and restarts: `CeremonyTypes` (`TypeOK`), `OneSubjectHolds`
(`OneSubjectPerIdentity`), `OneSessionHolds` (`OneSessionPerHandoff`) and `NoOrphanHolds`
(`NoOrphanSession`). None is inductive alone; `CeremonyInv`, which TLC checked on the
instance of `ceremony` first, is, and `CeremonyInvariance` proves it:

- `OneOwner` and `Placed`: a taken challenge stays taken, so one delivery owns it and
  only that one maps it; every other request of it joined it or came after.
- `SnapshotHolds`: the rows of a challenge and the bindings only grow, and a transaction
  that nobody has doomed still finds the rows it will write as its snapshot showed them.
  This is what makes the mapping's two unique keys, and the hand-off's consumption,
  decide between two commits.
- `RowsAgree`: a hand-off's subject is the one bound to its identity, and a delivery
  stands for a consumed hand-off.
- `MintedOnce`, `OwnDelivery`, `Names`: the session that a delivery row names is the
  only one its challenge minted, and a request that goes on to an answer names it.
- `SweepInv`: the envelope the sweep is about to erase is that of a session it has
  revoked, which no step makes active again.

`StoreInv` bounds the challenges a process knows by its capacity, on a finite set:
without it the guard of `Begin` would say nothing.

### The budget space

`CollaborationProofs` proves, for any numbers of members, people, invitations, transfers
and grants, any lifetimes and any mixture of the commands, from the assumptions of
`BudgetSpace`, `PrimaryTransfer` and `Invitations` only:

- `CollaborationTypes`: `Spec => []TypeOK`;
- `OnePrimaryHolds`, `OneSeatHolds`, `NoStalePermission26Holds`, `ConsentsMatchRoles`,
  `CommittedTransfersWereAgreed`, `OwnershipIsAChain`: the invariants of those names;
- `AcceptedOnceHolds`, `LinksAreCurrentHolds` and `StaysAreDisjointHolds`: those of the
  invitations;
- `TransfersImplementOwnership`: `Spec => ImplementsOwnership`, the refinement.

`TypeOK` is not inductive: that a live transfer names two members, or that a candidate
is a person, takes the facts of `TypeInv` about each row's state. Two observations carry
the rest. Only three steps write memberships (`WhoWritesMembers`): a commit, a confirmed
acceptance, a departure; so each invariant about memberships has three cases and not
nineteen. And every step does one of three things to the transfers (`StepKinds`):
nothing, one move of one row, or a commit. On these:

- `OnePrimary` and `OneSeat` are each inductive over the typing: a commit exchanges the
  roles of two distinct active rows, a confirmation seats someone who is not a member,
  and a departure is never the Primary's.
- `ConsentMatchesRole` needs that consents are only of members that exist, so a new
  membership starts with none (`ConsentInv`).
- `NoStalePermission26` needs that the creator of every open co-owner invitation is the
  space's Primary (`AllVouched`): only a Primary creates or replaces one, and a commit
  cancels exactly the outgoing Primary's.
- `AgreedByBoth` needs which legs a live workflow has in each of its states (`LegsInv`),
  that a grant once spent stays with its workflow (`GrantInv`), and that a workflow's
  consents come from its own commit (`SourceInv`).
- `OwnershipChain` needs that a committed version is below the space's, and that the
  last one made the Primary (`ChainInv`).
- The refinement needs `LegsInv` again: an offer has at most one agreement while it is
  open, so the leg that finds the other one is the one that passes the ownership.

The invitations add one invariant, `SeatInv`, of which `AcceptedOnce` and
`StaysAreDisjoint` are parts. Every step but an acceptance lets the rows *follow*: an
accepted row stays as it is, one that is over is not reopened, a candidate enters a row
only while not a member; so a seat, once its row is accepted, keeps the row that
explains it. The acceptance itself puts one member in a place that was empty, cancels
the person's other rows, and refuses someone whose membership ended at or after the
instant the invitation was issued: hence the order of the stays. `LinksAreCurrent`
needs that `Create` and `Replace`, the two steps that open a row, find or close the one
that is open at their destination.

### The ledger and the counter

`RequestProofs` proves of the ledger `LedgerTypes` (`LedgerSpec => []LedgerTypeOK`), `KeyHasOneEffect`
(`OneEffectPerKey`) and `LedgerKeepsLines` (`VersionLine`), for any numbers of calls,
keys, transactions and versions, from `LedgerAssumption` only. A key has one row, a row's
version was written by a call with that scope and digest, and a call that was told of a
version was told by its key's row or is its writer: so two calls of one key were told
the same. The line of versions needs that a version read by an open transaction belongs
to its target, was not a removal, and met the stated basis when it was read: it still
does at the commit, since a version changes only by being superseded, which `StillCurrent`
rules out.

Of the counter it proves `LimitTypes` (`LimitSpec => []LimitTypeOK`), `CeilingHolds`
(`WindowCeiling`) and `StagesKept` (`ReservedUnits`), for any numbers of units, records,
buckets and rotations, any window, threshold, burst and refill that
`RateLimitAssumption` admits. The ceiling over every sliding window takes no induction
over the order of the admissions: of the windows that a new unit falls in, those that
end now or later contain no other unit than the window that ends now, so one charge
below the ceiling now is enough (`SpentGrows`). What must hold is that the bucket counts
that window in full (`Agrees`): each unit that was admitted in the window and not
returned is in its bucket's lists, and its stage's reservation is its own, however the
refunds were placed. And the bucket must be the one the next consumption finds
(`Home`): a unit in the window is counted under the current secret's key or under the
previous one's, and then leaves the window no later than that secret is dropped. This is
where `Overlap >= Window` is needed. TLC checked the invariant `LimitInv` on an
instance of three units first.

### The creation of a space

`BudgetWritesProofs` proves of the creation, for any numbers of calls, proposals, drafts and keys, any
lengths of a day, of a proposal's life and of the retention, and from
`CreationAssumption` only:

- `CreationTypes`: `CreationSpec => []CreationTypeOK`;
- `ChainKept` (`OneBudgetPerChain`), `RetriesKept` (`RetriesAgree`) and `ReadsKept`
  (`ReadsTellConfirmable`).

The invariant is `IInv`: the typing, strengthened by what an open or committed call knows
of its rows (`TypeInv`), the chain itself and the first uses of keys (`FirstUses`). Two
observations carry it. A call that is open has read its target with the lifecycle
revision it still compares, and a row changes only with its revision: so when a
regeneration or a confirmation commits, its target is still the waiting, successorless
end of its chain. A create that nobody has overtaken saw every proposal there is, since
any commit would have overtaken it: so no proposal of its key and session is younger
than the retention, which is the case `IssuedUnder` finds nothing in. Reads and
confirmations then agree because a row with a successor is never `previewed`: that is
why the lifecycle need not look at the successor, and `Superseded` must set both.

The same module composes: `WritesAreAll` shows that a behaviour of creations, ledger,
counter and plan interleaved (`Spec` of MCBudgetWrites) is one of each of them, and
`WritesTypes` is the type invariant of all four.

### The calendar

`CalendarProofs` proves, for every date and every schedule that validation accepts, and
from no assumption, that the walks of `BudgetCalendar` agree with what is said of each
date by itself. No step is an induction: recurrences are remainders, and a month is
found from a line.

- `MonthOfDate`, `MonthUnique`: the months' first days never leave the line of 146097
  days in 4800 months by a week (`MonthLine`), so the month on the line or a neighbour of
  it contains the date, and only one month does.
- `FourDays`: of four days in a row, in covered years, one is a business day. Any two
  holidays are a week apart (`HolidaysApart`, by the eleven dates' places in the year,
  across New Year too), so they close at most one of two working days less than a week
  apart, the Monday after a Sunday included. Hence no adjustment moves a date by more
  than four days (`AdjustmentBounded`): the loop's fourteen steps are never used up, and
  the fourteen days a horizon is widened by are enough.
- `AnchorsArePaydays`: what is walked over a horizon are the paydays on its dates,
  wherever it begins, with clamped month ends and intervals counted from their origin.
- `HorizonsAgree`: from both, whether a date is a boundary does not depend on the
  horizon it is looked up in, which `paycheck-period.ts` claims (line 96).
- `PreviewPeriods`, `PreviewFollows`: a preview that is answered is the period of its
  date and the next three, which adjoin and begin on the reference's days and on no
  other. Of any 39 days in a row a period of paydays begins on one (`BeginsAround`), so
  the margins of 60 and 420 days hold the four of them and the lookups are never empty.
- `PreviewContinues`: what is computed from the start of a stored period, on a later
  date and over that date's horizon, continues the stored one.

The minima over sets of dates exist by the well-foundedness of the naturals
(`WellFoundedInduction`, whose theorem on minimal elements takes no operator).

### The plan of a space

`BudgetPlanProofs` proves, for any schedules, dates, categories, amounts and numbers of
commits: `PlanTypes` (`PlanTypeOK`), `RowsExplainThemselves` (`PlanRowsExplain`) and
`CompletedPeriodsKept` (`ClosedPeriodKept`). A row of either table is stamped with the
commit that wrote it and at most once with a later one (`Stamped`), so which base
targets stood at an earlier commit never changes again; hence a period target, once it
explains itself (`Explained`), does so for ever, also when it is superseded: in the order
of the commits, that is. A plan writes rows of its own period only, which is not over on
the day its handler read (`WrittenInTime`), and the rows say that day; what it takes from
the standing rows stays as a superseded row, which is not one that was there before since
its stamp is new (`SupersededStays`).

Of the periods it proves `PeriodsAreTheSchedules` (`PeriodsFollowSchedule`), for every
accepted schedule, every date of a proposal and every later day. The invariant is
`PeriodsInv`: a proposal keeps a preview of its own date, in the sense of
`CalendarProofs`, and the stored rows are the proposal's; then the rows follow the
schedule by `PreviewFollows`, and the detail route's computation by `PreviewContinues`.

`RoutesPartWhenItEnds` states how far the divergence of `plan_routes` goes: after the
confirmation the detail route's row is the one a plan read without a period answers for
exactly as long as the first period is not over, and again after the last stored one.

### What is model-checked only

- `EveryActionSettles` and `EveryCallbackAnswered`: liveness under fairness, out of the
  prover's reach. Their proofs would also need a measure that falls with each drain and
  each call.
- The six violations, which are runs and no theorems.

Every invariant and every action property of the passing runs, and both refinements,
are theorems. The proofs use the specifications of the components and of their
compositions, with the constants as parameters; none uses the values or bounds that a
configuration gives them. The models of the wall clock and of row conflicts are taken
from the code's reliance on PostgreSQL, and are part of what is proved about, not proved.
The calendar's reference `Beginnings` applies the code's own adjustment to the paydays
it names, and a preview that the code refuses because a year is not covered has no
periods to prove anything about.

## 5. Not modelled

- **Of the creation**: the validation and normalization of an input, the preview's
  periods, and the digests and signatures that bind a proposal (data: a draft is opaque,
  and a confirm states the binding its proposal was issued with or is refused like one
  that is not current).
- **Accounts** and their balances: single statements on versioned rows, without keys or
  workflows. Of a category, its label, position and version, with the requests they
  refuse.
- **Proration, recalculation, income and progress** (`packages/budget-domain/src/targets`,
  `income`, `progress`): pure arithmetic on amounts that no route of the program calls at
  this commit; only the full-period target is used, and modelled. Parsing and labels of
  the calendar are data.
- **The invitation's delivery outbox**: rows are inserted and tombstoned beside the
  code; at this commit only a simulated mailbox reads them.
- **The step-up and log-out ceremonies** of the identity component: their rows are in
  SessionAuthority, their HTTP exchange repeats that of signing in.
- Cookie, digest and envelope formats; field encryption and tenant predicates; the policy
  cells other than those of sessions, transfers and invitations; HTTP, telemetry and
  audit wording; the web client; the worker's registry, which holds no production job;
  migrations and scripts. These are most of the repository's lines.

## 6. Plan

1. *Done*: SessionAuthority with its contract and first proofs, RevocationOutbox,
   ProviderEvents.
2. *Done*: IdentityCeremony with the delivery result and its sweep.
3. *Done*: PrimaryTransfer and Invitations over BudgetSpace, composed in Collaboration;
   the ownership contract; proofs of seven invariants and the refinement.
4. *Done*: Ledger with its proofs, RateLimit, CreationProposals with its proofs.
5. *Done*: BudgetCalendar and BudgetPlan; proofs of every safety property of the runs,
   and both refinements (of SessionContract and of the ownership contract).
6. *Done*: the calendar for every date and accepted schedule; the compositions of the
   provider's traffic and of the budget's writes.
7. *Open*: an abstract contract of signing in (one subject per identity, one session per
   challenge) that IdentityCeremony refines, and of the outbox's effect at the provider.
