# Verification of the ManekHR API

TLA+ models of the parts of this NestJS / MongoDB / Redis back end whose correctness rests on the
order of steps rather than on one line of code, TLC configurations that check them, and TLAPS proofs
of what they promise for every value of their constants.

Paths below are relative to the repository (`src/modules/...` is `src/src/modules/...` in
`PROJECT.json`). A definition of a module carries the name of the function it models where TLA+ allows
it; the full correspondence, with line numbers, is the `map` of `PROJECT.json`.

- [1. The system](#1-the-system)
- [2. How the models are built](#2-how-the-models-are-built)
- [3. The modules](#3-the-modules)
- [4. The runs](#4-the-runs)
- [5. What is proved](#5-what-is-proved)
- [6. Departures of the code from what it promises](#6-departures-of-the-code-from-what-it-promises)
- [7. Not modelled](#7-not-modelled)
- [8. Plan](#8-plan)

## 1. The system

One Node process per worker, any number of workers, one MongoDB, one Redis. A request handler is an
`async` function. Almost no handler opens a transaction, so every `await` of a database call is a point
where other handlers run, where a document read earlier becomes stale, and where the process may die
with part of the work done. Cron jobs run on every worker and are kept apart by a lock in Redis.

| Component | State it keeps | Operations | Hard behaviour | What makes it correct |
| --- | --- | --- | --- | --- |
| Single-flight lock (`common/scheduler`) | a key with a token and a time to live | `runExclusive`, `withLock` | expiry under a running holder, death of the holder, a reply of Redis that is lost | two holders only if one outlived its lock; the key comes free; a waiter is answered |
| Salary advances (`modules/salary`) | `AdvanceSalaryRequest`, `Payment`, `SalaryAdjustment`, `AdvanceRecoveryPlan` | request, approve, reject, disburse, pay, mark paid, generate payroll, reverse, remove the member | five documents, no transaction; retries; a second, independent recovery path in payroll generation | money leaves once, comes back once, only what left comes back |
| Leave ledger (`modules/leave/leave-ledger.service.ts`) | append-only `LeaveLedger`, projected `LeaveBalance` | `appendEntry`, `adjustPending`, `rebuildBucket` | callers race for the next `seq`; rebuilds overlap | numbering without gaps, balance is a fold of the log, no reservation lost |
| Leave requests (`leave-request.service.ts`, `leave-accrual.service.ts`) | `LeaveRequest`, attendance events | apply, approve by levels, reject, cancel, withdraw, yearly credit | verdicts race; an approval has five further writes; the payroll lock | charged once, verdict stands, books agree with status |
| Account deletion (`modules/account-deletion`, `auth/services/account-erasure.service.ts`) | markers on `User`, the admin roster mutex | schedule (account, connect, erp), sweep, erase, recover | a sweep over a list that ages; a scrub and a marker in two writes; the last admin | nothing is erased that is not due; purged means erased; an admin remains |
| Workspaces (`modules/workspaces`) | `Workspace` | create, remove, restore, erase and recover all owned | check-then-write against the plan limit | the limit holds on every way back |
| Compensatory leave (`comp-off.service.ts`, `comp-off-request.service.ts`) | `CompOffRequest`, lots with an expiry in the ledger, the lots a leave drew | claim, approve by levels, mint, draw oldest first, give back, lapse daily | `lotRemaining` is updated in place beside the entries; expiry races with use; the job is run again | a claim mints one lot, a leave is charged once, lots and entries agree |
| Leave year (`leave-accrual.service.ts`, `leave-year-end.service.ts`) | ledger and balance per year, `EncashmentRecord` | nightly accrual, close of the year in the first week of January | runs missed, cut short and repeated; a snapshot of all balances; leave of the old year during the close; two calls for one transfer | a period is credited once, a year is closed once and within the caps, nothing is lost on the way |
| Recovery plans, loans, payroll generation | plans with instalments, `Salary` records | instalment, reschedule, write-off, lock | recalculation against a lock | what is deducted equals what is owed |
| Sessions and tokens (`modules/auth`, `modules/sessions`) | `Session`, refresh tokens, denylist | issue, rotate, revoke, clean up | two rotations of one token | a revoked session never comes back |
| Member cap, team, invites | seats of a subscription, `TeamMember` | add, remove, restore, accept, deactivate by cron | check-then-write; the job against a plan change | seats in use stay within the plan |
| Billing (`modules/subscriptions`) | `Subscription` rows, `SubscriptionPayment`, `RefundRequest`, webhook events, the dunning queue | subscribe, trial, checkout, payment link, plan change, mandate, renewal, dunning, refund, the two daily jobs | webhooks repeated, lost, out of order; rows superseded before the new one exists; two forms of the user id | a payment yields one row, no access without money, over is over, grace is kept and ends, money goes back once |
| Attendance (`modules/attendance*`) | event log, day records | record, void, project, ingest, regularize | projection while events arrive | the day is the fold of its events |
| Migrations | a list of steps | run under a lock | death between two steps | each step once, in order |
| Everything else | | edits of one document, reads, reports, external providers | | |

How they interact. Account deletion calls the workspace service for the owned workspaces and takes the
mutex of the single-flight service; its sweep is started by a cron under `runExclusive`. Leave requests
call the leave ledger, the attendance event log and ask the salary records for the payroll lock. The
payroll jobs call the advance recovery. Removing a team member cascades into advances (cancel what is
pending) and workspaces free their seats. In billing, checkout and payment links call `subscribe`,
mandates write the rows themselves, and the gateway's webhooks drive all of them, and the refunds, into
the same documents; the queue of the dunning service ends a grace period. Notifications and audit are called last and best effort;
nothing waits for them.

`PROJECT.json` lists the components with their status, and the hazards with the lines where they bite.

## 2. How the models are built

- One action per database call. A handler has a program counter and keeps what it has read (`proc`,
  `call`, `handler`); a document that was loaded in one step is saved in a later one, stale or not, as
  Mongoose does. Atomic updates with a condition (`findOneAndUpdate`, unique indexes) are one step
  that looks at the current state.
- A crash, or a database call that throws, may happen between any two steps. The number of crashes is
  bounded by a constant for TLC and unbounded in the proofs.
- Work without a write to modelled state (validation of the input, notifications, audit, logging) is
  part of the step before it.
- Amounts, dates and names are abstracted to what the properties distinguish: a recovery is a document
  with a status, a day is a number, an id is a model value.
- Every module states one type invariant (`TypeOK`; it is proved where section 5 says so, and takes no
  place among the properties of the runs). The other properties come from the hazards. Properties that
  the code promises only for calls that do not overlap, or that run to their end, are stated and
  checked as such, and say so in their comment: `AdvanceCalls`, `CompOffCalls`, `LeaveRequestCalls` and
  `MCAccountDeletion` have a variable `alone`, chosen at the start, which says
  that handlers come one at a time. Where it is false two overlap, over fewer documents. `SerialX` is
  `alone => X`, or for a liveness property X of the behaviours in which `alone` holds; a property without
  `Serial` is checked of both.
- A definition named `X_Something` is a mutant: a plausible bug in `X`. Substituted for `X` it makes
  TLC find a property violated. Mutants are not part of any specification.

Composition: `LeaveRequest` EXTENDS `LeaveLedger` and runs its steps inside its handlers;
`LeaveLedger` refines `LeaveAccount`. `AccountDeletion` contains the mutex as the promise that
`SingleFlight` establishes (a token of its holder, that may expire). `CompOff` and `LeaveYear` use the
ledger as `LeaveAccount` promises it: an entry is posted in one step, and only sums by type are kept. Billing is a chain, each module
EXTENDS the one before and adds actors on the same rows: `Subscriptions`, `Checkout`, `Mandates`,
`Refunds`; `Billing` is the whole, with its properties.

## 3. The modules

### SingleFlight
`lock` is the token under each key, `call` the progress of each call, `late` a history of the calls
whose key expired under them. `Acquire` is `SET NX PX`; `Skip` the other workers of `runExclusive`;
`Poll` and `GiveUp` the loop of `withLock`; `Finish`, `Release` and `ReleaseFails` the `finally` with
its compare-and-delete script; `SetFails` the connection that breaks with the key written or not;
`Crash` and `Expire` the world. `Overrun` says whether a function may take longer than its lock lives.

### AdvancePayout
`request`, `pay` and `recov` are the documents of the advances of one member, `locked` the locked
salary months, `removed` the archived member, `proc` the handlers. The flows:

| Flow | Source | Steps |
| --- | --- | --- |
| `CreateRequest` | `createRequest` | one insert, under the partial unique index of live requests of a month |
| `Approve`, `ApproveLoad`, `ApproveSave` | `approve` | read, read again, save |
| `Reject`, `RejectSave` | `reject` | read, save |
| `Disburse` ... `PriorPayment`, `PaySave`, `ChooseRecovery`, `CreateRecovery`, `ComplianceBlocked`, `LinkRecovery`, `MarkPaidLoad`, `MarkPaidSave` | `approveAndDisburseAdvanceRequest` | looks for a payment of an earlier attempt, else saves one, creates the recovery, links it, marks the request |
| `PayApproved` ... | `payApprovedAdvance` | the same without the look-back |
| `Generate`, `Scan`, `Deduct`, `Stamp`, `DeductDone` | `generatePayroll`, `applyAdvanceAutoDeductions` | finds paid requests of earlier months without a marker, deducts, stamps |
| `Reverse`, `ReverseSave`, `Unrecover` | `reversePayment` | reverse the payment, then its recovery |
| `RemoveMember`, `CancelPending` | `TeamService.remove`, `onMemberRemoved` | archive, then cancel pending requests |

`AdvanceCalls` is the same, all routes included, with a choice at the start whether handlers overlap, and states
what holds when they do not. Its history variable `broken` holds the requests of which a payout ended between
`payment.save` and the mark: it died, or its recovery plan was refused.

### LeaveAccount, LeaveLedger
`LeaveAccount` is what the service promises: a log and a counter, and calls that take effect once
between being asked and being answered, or are refused without effect. `LeaveLedger` is the service:
`ReadSeq`, `Create` or `Collide` (the unique index), the retry loop, `Inc`, and the three steps of
`rebuildBucket`: `Fold`, `ReadPending`, `Write`. `Totals` is `applyEntryToTotals` folded over a set of
documents. The refinement maps the log to the documents in the order of their `seq`, and a call to its
phase; a call that was cut short is `done` or `asked` according to whether it had posted.

A duplicate key is only possible in `create`: the balance row of `rebuildBucket` is written by an
upsert whose filter is the whole unique key, and MongoDB repeats such an upsert itself.

### LeaveRequest
The handlers of one member over the bucket. `Apply` ... `Reserve`, `Approve`, `Decide`, `Conflict`,
`Reject`, `Refuse`, `Released`, `Cancel`, `CancelSave`, `Withdraw` ... `WithdrawSave`, and
`Finalize`, `Posted`, `Settle`, `Project`, `SaveIds`, which is `finalizeApprovedRequest`. A handler that
has called the ledger waits until the call is `done`; `Serve` runs the ledger's own steps. `clashed` is
a history variable: the requests on which two handlers worked that do not compare and set (a
cancellation or a withdrawal with anything else), during which the payroll was locked, or a handler
died. `LeaveRequestCalls` is the same with a choice at the start whether handlers overlap, and states what
holds when they do not.

### CompOff
A claim for a day worked (`ApplyClaim`, `InsertClaim`) goes through the approval code that leave has
too (`Approve`, `Decide`, `Reject`, `Refuse`, `Conflict`, `Cancel`, `CancelSave`: two copies in the
source, one here); approved, it mints a lot (`Mint`, `creditCompOff`). Leave of the comp-off type is
paid from the balance of its year (`ApplyLeave`, `Reserve`) and charged to lots: `Consume` reads the
live lots and allocates (`Fifo` states what `allocateFifo` returns; lots of one expiry come in either
order), `Draw` and `Charge` are the `$inc` and the usage entry of each lot, `Settle` and `Save` the
rest of `finalizeApprovedRequest`. `Withdraw`, `Restore`, `Unuse`, `WithdrawSave` give back; `Expire`,
`Lapse`, `Zero`, `Skip` are the daily job. `lot` is the field `lotRemaining`, `posted` the sums of the
entries: the two representations that must agree. Quantities are half days, and leave may end in one.

`JobMayRun` says that the job comes hours after the change of the day, so that an approval which read
the lots before midnight has ended; two jobs do not overlap (the single-flight lock). `ChainOf` 0 is a
request with no approver, which approves itself.

`CompOffCalls` is the same with a choice at the start whether handlers overlap, and states what holds when
they do not; `MCCompOff` adds the fairness of its run.

### LeaveYear
`posted`, `pending` and `records` are the ledger, the reservations and the encashments of each bucket (a member
and a leave type) and year; `accrual` and `close` the two jobs, each a loop over buckets with one action per
database call: `StartAccrual`, `Survey` (eligibility, and `Due`, the credits not yet posted), `Check` (the
ceiling), `PostCredit`; `StartClose` (all balances are read here), `CloseBucket` (closed before, or
`Distribution`), `Encash`, `Record`, `CarryOut`, `CarryIn`, `Lapse`. `Miss` is a run that does not come,
`DieAccrual` and `DieClose` a death, `SkipAccrual` and `SkipClose` a bucket whose call throws and is left by the
loop. `torn` is a history variable: the buckets whose close broke off between two of its entries. Leave requests
are counted, a half day each, by where their handlers are (`leave`), and every write is a step of its own:
`Apply` reads the balance, `Create` saves the request and `Reserve` its day; `Settle` posts the usage entry
(with the saved decision before it, which no balance depends on), or `Refuse` saves the rejection or
cancellation, and `Release` gives the day back; `Withdraw` posts the reversal; `Drop` is a handler that dies
between any two. A request is decided once here; decisions that race are in `LeaveRequest`. Credits are prorated
and rounded to half days as the code does (`UpfrontCredit`, `PeriodCredit`, `RoundToHalf`), over a calendar of
`Months` months of `MonthDays` days in UTC. `late` and `raced` are history: years that leave was posted to when
they were over, and years of which an application met another or a close, or a handler died between two writes.
A day ends when its runs have come or been missed.

### AccountDeletion
`user`, `mark` and `ws` are the documents, `mutex` the Redis key ADMIN_ROSTER_LOCK, `proc` the handlers, `now`
the day. `Schedule`, `GuardLoad`, `GuardCount`, `Suspend` is `scheduleAccountDeletion`; `ScheduleBox`, `MarkBox`
the two other scopes; `Sweep`, `SweepNext`, `EraseLoad`, `Lock`, `GuardLoad`, `GuardCount`, `SoftDeleteOwned`,
`Scrub`, `Unlock`, `Flip` the daily job and `finalizeOne` with `eraseAccount`; `Erase` the admin's; `Restore`
... `RestoreWrite` the recovery; `Create`, `Insert`, `RemoveWorkspace`, `RestoreOne` the workspace service;
`SetStatus`, `SetDeleted` the admin's switches. `Fail` is a database call that throws where the code catches or
does not catch it, `Crash` a death that leaves the mutex behind, `Expire` its time to live. `NextDay` may come
at any step; `overnight` is a history variable: the users whose deletion was being scheduled or recovered when a
day began.

### Subscriptions, Checkout, Mandates, Refunds, Billing
The billing of one user. `rows` are the `Subscription` documents in the order of their creation,
`handler` what the functions that are under way have read, `traffic` what a behaviour is about.

| Module | Models | State added |
| --- | --- | --- |
| `Subscriptions` | `subscriptions.service.ts`: `subscribe` (`ReadCurrent`, `SupersedeOld`, `SupersedeLive`, `InsertSubscription`), `getMySubscription` with the default plan (`Heal`, `InsertFree`), `startTrial`, `cancel`, `cancelScheduled`, `forceActivate`, the job that promotes scheduled plans and the one that expires (`Expire`, `DowngradeTrial`, `ExpireLapsed`) | `rows`, `handler` |
| `Checkout` | orders, `confirmPayment` and `payment.captured` (`Capture` is the compare-and-set both share), payment links, plan changes (`RaiseUpgrade`, `ClaimUpgrade`, `ApplyUpgrade`, `Downgrade`); `Ingest` and `Dispatched` are the webhook with its unique event row | `payment`, `money` (at the gateway), `sent`, `seen` |
| `Mandates` | `createMandate`, cancel, pause, resume, the handlers of `subscription.*` events (`Activated`, `Charged`, `Halted`, `Marked`), grace and its delayed job (`EnterGrace`, `ScheduleExpiry`, `Dispatch`, `ExpireGrace`) | `mandate` (at the gateway), `booked`, `jobs`, `day` |
| `Refunds` | `requestRefund`, `directRefund`, verdicts, `executeRefund` with one step for each write, `refund.*` events | `request`, `refunded` (at the gateway), `recorded` |

A row has the form in which its `userId` was written: the schema leaves the field untyped, `subscribe`
passes a string and the other operations an `ObjectId`, and neither queries nor the unique indexes
match the two. `due` says that the period, or the start of a scheduled row, is over; a mandate's
period is the number of the cycle it was paid for. The gateway (`Pay`, `Authorise`, `Charge`, `GiveUp`,
`ProcessRefund` ...) is external: it decides what happens to money and repeats, delays and reorders
its events at will (`sent` is a set, `Ingest` takes any of it). An event whose row exists is answered
200 and skipped, so that a handler that dies or throws loses its event; `Crash` does that too.

`past_due` is in the enumeration of the schema and set by no code; it is left out.

## 4. The runs

With two TLC workers a run takes from a few seconds up to about three minutes. CHECK_DEADLOCK is off everywhere:
every model has a bounded supply of calls, days or documents and really ends.

| Run | Shows |
| --- | --- |
| `flight_workers` | four calls on a key, two that skip and two that wait, functions that may outlive the lock, two deaths: exclusion but for those that outlived their lock (`MutualExclusion`); whoever waits is answered, although holders die (`WaiterAnswered`) |
| `advance_calls` | two handlers of any kind on one request, or three requests in two months with a call at a time; one death anywhere and any retry by either route, refusals, locks, reversals, removal. Every recovery stands on a payout and no payment gets two (`RecoveryHasPayout`, `PaymentRecoveredOnce`); one at a time also `SerialSinglePayout` (money leaves a second time only through `payApprovedAdvance` after a payout that broke off), `SerialRecoveredOnce`, `SerialReversedNotRecovered` |
| `advance_live` | `PaidIsRecovered`: a paid advance is recovered although its disbursement died, with every flow under way |
| `advance_pay_twice` (violation) | `payApprovedAdvance` pays again after a refused plan |
| `deletion_calls` | two handlers on accounts with a day that begins under them, or every operation on accounts and workspaces one at a time over three days; a failure or a crash anywhere. Purged is erased, an admin remains, only what is due is erased but for users in hand at midnight, a recovery brings back what the deletion took (`PurgedIsErased`, `AdminRemains`, `SweepErasesDue`, `RecoveryLeavesEarlier`); one at a time, a deletion that comes due is carried out or recovered (`SerialPendingEnds`) |
| `leave_callers` | three calls on a bucket, one cut short: numbering, prefix projection, attempts, refinement of `LeaveAccount` |
| `leave_requests` | two handlers on a request with two approvers, or three requests (two for one day, one that approves itself) with a handler at a time; the yearly credit, the payroll lock, a death. Charged once, the verdict stands, books agree with status (`UsageOnce`, `VerdictStands`, `BooksAgree`); one at a time, credited once, not overdrawn, the balance is the fold (`SerialAccountKept`) |
| `comp_off_calls` | two handlers of any kind and the daily job on two claims and two leaves, or three claims (two for one day) and two leaves one at a time with a death. `GrantedOnce`, `LotCovered`; one at a time, lots and entries agree and an expired lot lapses (`SerialLotExplained`, `SerialExpiredLapses`) |
| `leave_year_jobs` | both jobs over a yearly credit, a monthly one after a wait and a monthly one with a ceiling, calls on leave requests of both years in their separate writes, runs missed or cut short anywhere: `AccruedOnce`, `CreditedInTime`, `CapsHold`, `Conserved`, `NotOverdrawn`, `ClosedInWindow` |
| `leave_year_december` (violation) | the last period of a year is never credited |
| `billing` | every operation on the subscriptions of a user, in sixteen mixes, two handlers at a time, one death: `OneRowPerOrder`, `PaidFor`, `NotLockedOut`, `RefundedOnce`, `RefundOnBooks`, `ClosedStays`, `NoEarlySuspension`, `GraceEnds` |
| `plan_change_unapplied` (violation) | a paid upgrade is captured and never applied |

Bounds, and why they are enough.

- Two handlers at a time. The races of this code are between two writers of a document; a third
  writer repeats the second. Where more could matter the property is proved for any number
  (`PaymentRecoveredOnce`, `AdminRemains`, `SeqDense`, `MutualExclusion`).
- One or two deaths. A death matters by the state it leaves behind; a second one during the retry
  reaches the same states, as the retry begins by reading. The proofs allow any number.
- Two payments and three recoveries: more than a correct run needs for one request, so that a double is reachable.
- Two or three months: one for the advance, one later than it.
- `RetryLimit` is 4 in the code (`SEQ_RETRY_LIMIT`). `leave_callers` takes three attempts for three
  callers, the least for which `NeverExhausted` speaks; `leave_requests` takes two, so that a refusal
  (`Abort`) can be seen within the handlers that call the ledger. `NoneExhausted` is proved for every
  number.
- `advance_calls`: one at a time, three requests, two of one month, of which one at most is live, and one of the
  next; with two payments, two of them are paid, or one twice. The later month may be locked. Where handlers
  overlap, there is one request and no lock.
- `deletion_calls`: three days with a recovery window of one, so before, at and after the deadline; where handlers
  overlap two days, the last day of the window and the due day. Plan limit 1 and two workspaces, at the limit and
  over it. A day begins at any step; only with one handler at a time not between the check of a schedule or a
  recovery and its write, the case that the overlapping half and `SweepKeepsToDue` are about. Where handlers
  overlap, those are erasures, sweeps and recoveries: deletions are scheduled and admins switched by hand while
  all rest, since the code guards neither against a handler under way (section 6). One at a time, no admin
  switches accounts.
- `billing`: all operations at once have too many states, so `Traffics` lists sixteen mixes of
  operations, plans and documents that touch each other (a trial and an order, a mandate and an order,
  halted and charged, two refunds of one payment ...); TLC explores every interleaving of each. Every
  action of the four modules fires in at least one. Two orders, an upgrade, a link, a mandate with two
  cycles and two failures, two refund requests on a payment of two units: the second of each is what
  the first is confused with. Three rows: the old, the new, and one that a race leaves over. One death.
- `comp_off_calls`: claims of one and of two half days and leave of one and of two, so that a draw spans two
  lots and ends within one; a validity of three days, so that lots expire while leave is under way, over
  five days (up to the first expiry where handlers overlap). The year ends on the fourth day.
- `leave_year_jobs`: a year of two months of two days with a window of two days: a first run, a repetition,
  and the days after. Seven days reach the third year. Caps of one and two half days lie below what can
  be earned. Leave is taken of one of the three types: types share nothing but the loop that walks
  over them, in one order. At most two failures, and three failures and calls on leave requests together
  (`MaxEvents`): enough to apply, settle and withdraw, or to apply and settle around a run that dies.
  `ClosedInWindow` speaks of fewer failures than days of the window, the case that the window is there to
  heal. The proofs allow any number. In `leave_year_december` nothing fails and no leave is taken.
- Symmetry is used for handlers, payments and recoveries in runs without liveness only; in the others that
  have two handlers at a time, a call is taken by the first, or by the second if the first is busy.

Fairness.

- `SingleFlight`: the workers take their steps and Redis expires keys (weak fairness). `Finish` is among
  these steps: a function is assumed to return in the end, though not within the time to live.
- `AdvancePayout`: a handler that was called goes on (Node runs what is resolved), weak; the payroll of
  the last month is generated again and again, strong, as the generation job of every month and every
  view of a salary call `ensureSalaryRecord`, and a handler slot is not always free.
- `AccountDeletion`: handlers go on, days pass, the mutex expires (weak); the daily sweep runs again
  and again (strong: it needs a free handler and the cron fires every day whatever else is going on).

- `CompOff`: handlers go on, days pass and the job runs again (weak). In `deletion_calls` and `comp_off_calls`
  fairness is stated of `alone /\ Action`, so that their liveness speaks of one handler at a time.
  `LeaveYear` assumes no fairness: what
  must have happened by a day is stated as an invariant of that day (`CreditedInTime`,
  `ClosedInWindow`), counting the runs that failed.
- `Billing`: days pass while a job waits, and the queue runs a job whose time has come; BullMQ gives a job that
  was under way when its worker died to a worker again, so `Dispatch` leaves the job queued until its handler
  has ended (weak). BullMQ does so a few times and not for ever (a job that throws has three attempts,
  `app.module.ts:243`), so this holds of the one death of the run, and is not claimed of any number. Nothing is
  assumed of requests, webhooks, cron jobs or the gateway.

## 5. What is proved

For every value of the constants, that is for any number of handlers, documents, crashes and retries.
The assumptions on the constants are the ASSUMEs of each module, which TLC evaluates in every run.

| Theorem | Statement | Argument |
| --- | --- | --- |
| `AdvancePayout_proofs!TypeCorrect` | `Spec => []TypeOK` | with `ControlOK`: what a handler holds at each step (a request, a payment once saved) |
| `RecoveryNeedsPayout` | `Spec => [](RecoveryHasPayout /\ PaidNamesPayment)` | `MoneyInv`: a payment keeps its request once saved; a handler between saving the payment and marking the request holds a payment of this request; the safety net holds only requests that were paid |
| `OneRecoveryPerPayment` | `Spec => []PaymentRecoveredOnce` | a payment that a handler may still recover is held by that handler alone, since it was fresh when saved, and has no recovery yet |
| `PaidOnceAlways` | `CallsSpec => []SerialSinglePayout`: handlers one at a time, by either route, dying or refused anywhere and repeated | `CallsInv`: what the one handler under way has read is still so (`Fit`); a handler of `approveAndDisburseAdvanceRequest` that is about to pay has seen no payment of its request, and a payment of a request that is not marked paid is that of the handler under way or of a request in `broken`. The unique index on live requests (`LiveOnce`) holds with any overlap |
| `RecoveredOnceAlways` | `CallsSpec => []SerialRecoveredOnce` | while none died, a recovery that stands is marked in its request, or about to be by the one handler (`Marked`), and the safety net and the disbursement look for the mark, or for the status that comes with it |
| `ReversedStaysAlways` | `CallsSpec => []SerialReversedNotRecovered` | likewise it is linked from a payment that stands, or about to be, or about to be undone (`Linked`); a payment has one recovery (`PaymentRecoveredOnce`) |
| `SingleFlight_proofs!TypeCorrect`, `Exclusion` | `Spec => []MutualExclusion` | a call that runs and is not `late` has its token under the key, and the key has room for one |
| `StrictExclusion` | no overlap at all if no function outlives its lock | the same invariant with the assumption `[]Punctual` |
| `AccountDeletion_proofs!TypeCorrect` | `Spec => []TypeOK` | |
| `PurgedImpliesErased` | `Spec => []PurgedIsErased` | `ErasedFirst`: a handler about to flip the marker has a scrubbed user, and nothing undoes a scrub |
| `LastAdminKept` | `OnlyErasures` (the mutex outlives its holder; no operation is offered that takes an admin away without the mutex: schedule, change of status, soft delete) implies `Spec => []AdminRemains` | the holder of the mutex that has counted knows another active admin, and only holders of the mutex scrub |
| `RecoveryKeepsEarlier` | `Spec => RecoveryLeavesEarlier`, days beginning at any time | `LateOK`: what a recovery still has to restore is live, or was deleted since its deletion was asked for; other handlers restore it or delete it today, which is no earlier |
| `SweepKeepsToDue` | `Spec => SweepErasesDue`, for any handlers, days beginning at any step | `DueOK`: what a handler found of a marker stays true until it acts, unless its user is in `overnight`. A recovery was accepted for an account that is not due, so it is none the sweep holds; when a day begins all users that are being scheduled or recovered enter `overnight`, and what is due stays due; a schedule that overlaps with another writes the date that is there; a marker that leaves pending otherwise is of a scrubbed account |
| `LeaveLedger_proofs!Numbered` | `Spec => []SeqDense` | `Inv`: a call about to create holds a seq that is taken or the next one |
| `Prefixed` | `Spec => []ProjectionIsPrefix` | a call holds the fold of a prefix, and what is appended later has a higher seq and leaves prefixes alone |
| `NoneExhausted` | `Spec => []NeverExhausted` | a call at its k-th attempt has read a seq of at least k, so on a collision k other entries exist, each of another caller |
| `LeaveLedger_proofs!TypeCorrect` | `Spec => []TypeOK` | with `IsFiniteSet(ledger)`: the fields of `Totals` are sums of integers over a finite set |
| `Implements` | `Spec => KeepsAccount` | every step of the ledger maps to a step of `LeaveAccount` or to a stutter, under `Inv`; `Create` appends to the mapped log because the new seq is the next and the older documents are still the chosen ones |
| `Billing_proofs!TypeCorrect` | `Spec => []TypeOK`, over all five modules of billing | with `HandlersOK`: what a handler is about, and the row a downgrade follows, exist where they are used |
| `OneRowForAPayment` | `Spec => []OneRowPerOrder` | `SaleInv`: until a payment is captured nobody has or inserts a row for it; one handler gets past the compare-and-set, and from then on only that one is between capture and insert. All actions that are no part of this (`Flow`) keep it for one reason: they start no buyer, reopen no payment and add no row with a payment |
| `PaidBackOnce` | `Spec => []RefundedOnce` | `RefundInv`: a handler past the compare-and-set from `approved` is alone at its request, which is then in a status that no verdict touches, and nothing was paid back before it asks the gateway |
| `OverIsOver` | `Spec => ClosedStays` | `MandateInv`: whatever a handler or an event holds about a mandate is backed by its row or by the gateway, and writes by id are of rows found scheduled or in trial, which no row of a mandate ever is |
| `GraceIsKept` | `Spec => NoEarlySuspension` | the same; an expiry job acts only if the row's grace is the one it was queued for |
| `MoneyFirst` | `Spec => []PaidFor` | `PaymentInv`: a handler about to capture, and an event that reports it, are of a payment for which money came, and captured is never undone, so `Bound` rows are paid; `MandateInv` bounds the period of a mandate by its cycles |
| `RefundAlwaysOnBooks` | `Spec => [](crashes <= 1 => RefundOnBooks)` | `LossInv`: while the entry is missing, an event about the refund that is gone without it cost a death each (`Gone`), and there are two |
| `NobodyLockedOut` | `Spec => [](Separate => NotLockedOut)`, for mixes that do not let a mandate meet what may replace its row | `AccessInv`, see below |
| `LeaveRequest_proofs!ChargedOnceAlways` | `RequestSpec => []UsageOnce`, for any handlers, requests and approval levels | `ChargedAfterVerdict`: a handler about to charge won the compare-and-set of the last level, or inserted a request that approves itself (`EntersAlone`); it is the only one, nothing is charged yet, and the request is never pending again |
| `VerdictAlwaysStands` | `RequestSpec => VerdictStands` | `ReadsHold`: the handlers of a request that has not clashed are compatible, so what a cancellation or a withdrawal read is still true when it saves |
| `RequestTypeCorrect` | `RequestSpec => []RequestTypeOK` | with `IInv`: what the call of a handler is about at each of its points |
| `BooksAlwaysAgree` | `RequestSpec => []BooksAgree`, for any requests, days, levels, handlers and deaths | `Books`, see below |
| `AccountAlwaysKept` | `CallsSpec => []SerialAccountKept`: handlers one at a time, dying anywhere | `Serial`, see below |
| `CompOff_proofs!TypeCorrect` | `Spec => []TypeOK`, for any claims, leaves, lots, days and handlers | part of `IInv`: a lot that a plan or a job names is one of those minted, and a level that is decided exists |
| `GrantedOnceAlways` | `Spec => []GrantedOnce` | `MintInv`, `ChargeInv`: a handler about to mint or to finalise won the compare-and-set of the last level alone, and its request is never pending again; what is charged of a leave and what its handler still plans to charge add up to its paid days |
| `LotCoveredAlways` | `Spec => []LotCovered` | `BooksInv`: what is in flight between a lot and its entry is never more than what the entries leave of the lot less what the lot shows; a draw was planned from lots that had not expired (`JobMayRun`), so the job is alone at the expired ones |
| `LotExplainedAlways` | `CallsSpec => []SerialLotExplained` | `CallsInv`: while one handler is under way, lots and documents differ from the ledger by what it has in hand and by nothing else (`Serial`): half a pair of writes, a draw not saved yet, a return not through, a job's reading of a lot, which is still true. Every step is `Exact` on every lot, but for a job that zeroes more than it read |
| `LeaveYear_proofs!LeaveYearTyped` | `Spec => []TypeOK`, for any calendar and rules | in particular no sum of a type of entry is negative; needs that what is due is a number (`CreditType`) and that a job stays within the years (`YearType`) |
| `AccruedOnceAlways` | `Spec => []AccruedOnce` | `AccrualInv`: what the job is about to credit is uncredited, as it alone credits, in the order of the periods |
| `CapsAlwaysHold` | `Spec => []CapsHold` | `CloseInv`: a bucket in hand had no closing entry when it was taken, its distribution is within the caps (`DistributionFits`), and its sums are still zero until each is posted |
| `ConservedAlways` | `Spec => []Conserved` | `FlowInv`: what left the old year is in the new one, on the way, or was lost by a failure |
| `NotOverdrawnAlways` | `Spec => []NotOverdrawn`, the writes of the leave handlers apart | `SpareInv`: what will be left when the handlers of leave requests are done (`Left`: the balance, with the days that are about to be released, less those about to be reserved) is still what the close found of a bucket in its queue, and what is still to be taken of the one in hand, unless an application met another or the close; accrual and returned leave only add |
| `CreditedInTimeAlways` | `Spec => []CreditedInTime` | `OwingInv`: as long as a credit is missing, each day since the period ended has cost a failure, but the day of today when its run has yet to come to the member (`CreditComes`); days end only after the job of the day has run |
| `ClosedInWindowAlways` | `Spec => []ClosedInWindow` | two invariants. `OpenInv`: each day of the window has cost a failure as long as a bucket of last year with something to distribute is untouched; it waits in today's queue as it was found, or is in hand (`CloseComes`). `HealInv`: a bucket of last year is untouched, or distributed as the rule says to the last entry, or `torn`, or in hand, and then what is posted is as far as the program counter has come (`Staged`); no year is touched before it ends (`Fresh`) |

None of the target invariants is inductive alone: each speaks of documents, while the steps depend on
what the handlers remember. The strengthenings relate the two.

`BooksAgree` speaks of moments at which no handler is under way, so its strengthening `Books` says what is on
the books while some are. `Fits`: a handler that waits for the ledger has asked it for the days of its own
request. `Reservation`: as long as no request clashed, what is reserved and what handlers have still to add or
release (`Due`) is what the pending requests hold (`Held`), a sum over handlers and one over requests.
`Kept`: the usage entries and the event of a request that has not clashed are what its status says, but for what
the one handler that finalises or withdraws it has yet to do (`Spent`, `Restored`), and what a withdrawal read is still so.
A step of a handler touches the entries, the event and the reservation of its own request only; any other
handler of that request is at a point where this does not matter to it (`Roleless`), or the two clash.

`SerialAccountKept` needs `Serial`. While no handler died, what the ledger and the reservation leave (`Spare`) is not
below zero, but for the paid days that finalisation has charged and not released yet (`Lent`); the balance is
current unless the one handler under way is in a rebuild, which then holds the fold of the ledger and, when
it writes, the reservation as it is (`Sound`); and an application reserves no more than it found. A step
between two calls of the ledger moves none of this (`Calmly`). Whoever is about to credit the year has counted, and
nobody posted since (`CreditsFit`).

`NotLockedOut` speaks of moments at which all handlers have ended, and a row may be away while they have not.
`AccessInv`: if a row is superseded (`Covered`), a row that nobody will take away without writing another
(`Lasting`) exists, or a handler that is past its superseding write and before its own insert (`Promising`),
or the row is of the form that a mandate supersedes and the row of a mandate stands. An insert
that the unique index refuses still answers, since the index names a live row. `Separate` is the hypothesis:
if the mix has activations or charges of a mandate, it has one mandate only, and no trial, promotion or forced
activation. All mixes of the run satisfy it. Without it the promise is false, and TLC shows how: a trial
and an activation that overlap supersede each other, and so do two mandates, one of which is revived from grace
after the other took its place (section 6).

Sums over a finite set (the entries of a lot or of a ledger, the charges of a leave, the reservations of the requests) are
proved about in `LeaveLedger_proofs` and `CompOff_proofs` from a few laws (`SumTake`, `SumChange`, ...): a sum over a set is the element
plus the sum over the rest. They rest on an induction over the subsets of a finite set that is spelled
out with the least bad subset, since a theorem of the library that takes an operator cannot be used.

Only model-checked: liveness under fairness (`PaidIsRecovered`, `WaiterAnswered`, `SerialPendingEnds`,
`GraceEnds`, `SerialExpiredLapses`), which is out of the prover's reach, as is `ENABLED`. No module declares a
RECURSIVE operator.

## 6. Departures of the code from what it promises

These are demonstrated by runs with a counterexample, and listed under `findings`:

- `advance_pay_twice`: `payApprovedAdvance` (`salary.service.ts:7246`) never looks for an earlier
  payment of the request.
- `plan_change_unapplied`: an upgrade order stores the id of the row it is for
  (`plan-change.service.ts:491`), and the application of the captured payment is claimed on the
  condition that no id is stored (`:373`). No paid upgrade is ever applied, though it is captured, and
  answered as done. In `ClaimUpgrade` the first branch is therefore never taken.
- `leave_year_december`: the last period of a year is over when the next year has begun, and the accrual job
  looks at the current year only (`leave-accrual.service.ts:145`).

The models also reach the following. The properties above are stated so as to exclude them, and each
says so.

Advances:
- Approve and reject both read a pending request and save; the last wins, even over a payment
  (`advance-salary-request.service.ts:283`). No property says that a rejected request was not paid.
- Two generations find the same unmarked advance and deduct it twice, and a death between
  `adjustment.save` and the marker has the same effect (`salary.service.ts:3462`). A retry of a
  disbursement that died after its recovery was created marks the request paid without a marker, and
  the next generation deducts again (`:6920`). Hence `SerialRecoveredOnce`, for calls that
  ran to their end.
- After COMPLIANCE_BLOCKED the retry with an override reuses the payment and skips the plan
  (`:6920`, `:2507`); the safety net recovers the advance in one sum (`PaidIsRecovered`).
- `createAdvanceRecoveryDeduction` recalculates a locked month with `skipLockCheck` (`:2080`).
- A reversal between the creation of a recovery and its link to the payment does not find it
  (`:7043`). Hence `SerialReversedNotRecovered`.
- A removal that dies before its cascade is a no-op when repeated (`team.service.ts:2034`).

Scheduler:
- `runExclusive` deletes the key when the function ends, so a later tick of the same occurrence on
  another worker runs it again (`single-flight.service.ts:61`). It keeps runs apart; it does not
  remember that an occurrence has run, and jobs must be idempotent, as the modelled ones are.

Account deletion:
- The last-admin guard of `scheduleAccountDeletion` counts without the mutex
  (`account-erasure.service.ts:256`): two final admins that schedule at the same time both see the
  other, though the comment at `account-deletion.service.ts:163` says admin access is never orphaned.
  Hence `AdminRemains` is checked with schedules that come alone, and proved for
  erasures.
- An erasure that takes longer than the mutex lives lets a second one count before the first scrubs
  (`account-erasure.service.ts:243`). The theorem assumes it does not (`~Overrun`).
- `restoreDeletion` sets the account active and unsets the markers it had read; a deletion scheduled
  in between keeps its marker on an active account (`account-deletion.service.ts:807`). It looks only
  at markers, so an account that an admin erased during its grace window can be made active again. It
  refuses on the earliest deadline of all pending scopes, and no job ends an erp marker, so an account
  may be refused in its own window (`:788`).
- A recovery that checked the window before the deadline and saves after the sweep's query is undone
  by the scrub: the accounts are listed once (`account-deletion-finalize.service.ts:77`) and erased one after
  another without another look (`:83`, `:122`), and the recovery writes on the user id alone
  (`account-deletion.service.ts:805`). The user recovered in time and is erased all the same, though `:118` says
  that "the grace has elapsed and this is the user's OWN scheduled deletion". Hence the users in `overnight`, and
  no others, are left out of `SweepErasesDue`; without the exception TLC finds this case.
- A workspace created between the soft delete of the owned ones and the scrub stays live under the
  erased owner; a soft delete that fails is not repeated for an account erased by an admin
  (`account-erasure.service.ts:316`).
- `create` and `restore` count and write in two steps, so two requests in flight pass the plan limit
  (`workspaces.service.ts:1112`). No property speaks of the limit.

Leave ledger:
- Of two rebuilds that overlap, the one that read the older ledger may write last: the balance then
  lacks an entry or a reservation until the next movement of the bucket (`leave-ledger.service.ts:165`;
  the comment at `:46` calls the projection "always a deterministic fold of the ledger"). Hence
  `SerialAccountKept`, which says so of one handler at a time, and `ProjectionIsPrefix` for any number.

Leave requests:
- `cancel` and `withdraw` save without a condition (`leave-request.service.ts:831`): an approval in
  between is overwritten, a reservation released or a usage reversed twice, and a withdrawal during
  the finalisation leaves the attendance events live, since their ids are saved last (`:1208`). Hence
  the requests that `clashed` are excluded.
- Two submissions for one day at the same time both find no other; there is no unique index
  (`:274`).
- A death after the approval was committed leaves it without its usage, release or events, and no
  retry completes it, since the request is no longer pending (`:1145`).

Compensatory leave:
- `consumeCompOffFifo` allocates from the lots it has read and decrements each without a condition
  (`comp-off.service.ts:136`): two approvals draw the same half day and the lot goes below zero.
  `GrantedOnce` and `LotCovered` bound what is granted and charged, not what is left.
- Leave is paid from a balance that still holds an expired lot until the job lapses it, while the draw
  looks at live lots only; with nobody to approve, the leave stays approved, reserved and uncharged
  (`leave-request.service.ts:1155`). So does leave in January of lots of December: a lot is in the bucket of
  the year it was earned in, leave is paid from that of the year it is taken in (`:358`), and those lots
  pay nothing.
- The job posts the expiry entry before it zeroes the lot, so a death in between posts it again on the next
  run (`comp-off.service.ts:285`), and a death between any lot and its entry leaves them apart for good;
  hence `crashes = 0` in `LotCovered` and `LotExplained`.
- `cancel` saves without a condition (`comp-off-request.service.ts:508`): over an approval that has minted a
  lot it leaves the lot with a cancelled claim, and the day can be claimed again. Hence `GrantedOnce`
  admits a cancelled claim.
- Two withdrawals of one leave both give its half days back (`leave-request.service.ts:899`). `LotCovered`
  holds all the same, since lot and entry rise together; `SerialLotExplained` is for one handler at a
  time.

Leave year:
- An application reads the balance (`leave-request.service.ts:358`), saves the request (`:404`) and reserves its
  days (`:432`) in three calls: two that overlap spend the same balance. The balances of a workspace are read before
  its first bucket is closed (`leave-year-end.service.ts:106`): leave of the old year applied for in between, or on
  its way, overdraws it. A handler that dies between two writes leaves its days reserved, or unreserved. Hence
  `raced` in `NotOverdrawn`.
- Between the usage entry, or the refusal, and the release of the reservation (`leave-request.service.ts:1170`,
  `:1181`) the balance is too low by the day: an application is refused, or the close finds less than there is.
  `NotOverdrawn` counts those days as there.
- A run of the year-end job that dies, or fails, between two entries of a bucket leaves the rest of its balance
  undistributed, or the carried days uncredited, for good: `closeBucket` returns when it finds any closing entry
  (`:149`), though `:36` calls it idempotent over the window and the cron (`leave-maintenance.cron.ts:120`) says that
  a missed run heals itself. Hence the buckets in `torn`, and no others, are left out of `ClosedInWindow`; without
  the exception TLC finds this case.
- Days that were reserved at the close and are released after it stay in the closed year (`:114`); the
  bucket counts as closed. Hence `late` in `ClosedInWindow`.
- A period passed over at the ceiling is credited in full as soon as the balance is below it
  (`leave-accrual.service.ts:224`); hence `CreditedInTime` for types without a ceiling.
- The credit that opens a bucket is a `carry_forward` entry, and such an entry makes `closeBucket` pass the
  bucket over a year later (`leave-year-end.service.ts:143`): of what was carried forward once, nothing is
  encashed, carried on or lapsed at the next close. Hence `carriedIn = 0` in `ClosedInWindow`.
- The debit and the credit of a carry-forward are two calls; a death in between loses the days, since the
  next run takes the bucket for closed (`:189`). Hence `crashes = 0` for what must arrive in `Conserved`.
- A balance is encashed before it is carried, and the statutory preset has no cap on encashment: its cap on
  what is carried forward is never reached.

Billing (paths under `modules/subscriptions`; none of these contradicts a property of the run, which
are stated, or whose mixes are chosen, so that they do not):
- `subscribe` writes `userId` as a string, the rest as an `ObjectId`: a customer who buys keeps the
  default row live beside the bought one, and readers by `ObjectId` do not see what was bought.
- A handler that dies or throws after the row of its event was created loses the event
  (`razorpay-webhook.service.ts:94`). So does a payment captured whose `subscribe` then throws, and the
  activation or charge of a mandate whose row the unique index refuses because another one is live: the
  event is marked failed and nothing handles it again.
- `payment.failed` closes an order that the customer may still pay; the later success is then "not
  capturable". A paid link whose id was not stored yet is ignored.
- `supersedeCurrent` runs before the insert: a death in between leaves the user without a row (hence
  `crashes = 0` in `NotLockedOut`), and a trial and the activation of a mandate that overlap supersede
  each other (`subscriptions.service.ts:1613`, `razorpay-webhook.service.ts:549`; hence no mix with both).
  Two mandates of a user do too. This is the hypothesis `Separate` of `NobodyLockedOut`.
- `charged` after the expiry is ignored, so the customer paid for nothing; charges out of order move the
  period back; a `halted` that comes after the recovery puts a paid row into grace.
- A death between the update of `enterGrace` and its job leaves the row in grace for ever: `GraceEnds`
  speaks of grace whose end was queued.
- Two trials that start at the same time both succeed, one superseding the other.
- `forceActivate`, the promotion and `cancelScheduled` write by id whatever the status has become;
  `downgradeToBasePlan` revives a superseded trial, or throws on the index and ends the job for the day.
- A plan scheduled after a cancellation supersedes the cancelled row at once, with its paid time left.
- `executeRefund` and the webhook can each record the refund from a payment read before (twice the
  amount then); a refund that the gateway reports in two events stays `processing`, since the second
  ends at "already recorded"; a lost answer of the gateway marks the request failed although the money
  went back; a refund before the row is linked does not cancel it; `subscription.cancelled` turns an
  expired or superseded row into a cancelled one (still closed, so `ClosedStays` holds).

## 7. Not modelled

The table of `components` in `PROJECT.json` gives a reason for each. In short: arithmetic on one
document (statutory deductions, bonus, gratuity, TDS, attendance policies) is data and not protocol;
mail, SMS, push, payment gateway and object storage are external and best effort; reference data is
edited a document at a time; the HTTP layer has no state of its own; reports only read. Within the
modelled parts: amounts and instalments of a recovery, half days (but in `CompOff` and `LeaveYear`) and delegated
approval of leave, the payment of encashments by payroll, changes of a rule or of a joining date within
a year, the sweep of connect deletions and the reminders, the purges that the erasure
starts in other services, workspace transfer and retention. In billing: one user, product and scope;
add-ons, coupons, invoices, proration and the amounts, the ten-minute reuse of open orders and mandates,
upgrades within one billing cycle only, manual payments and overrides by an admin, audit and mail;
`autoDowngradeOnFullRefund` is on and every plan active.

## 8. Plan

Order of modules, the most important behaviour first. Done: `SingleFlight`, `AdvancePayout`,
`AccountDeletion`, `LeaveAccount` / `LeaveLedger` / `LeaveRequest`, `CompOff`, `LeaveYear`,
`Subscriptions` ... `Billing`.

| Next | Composes | Properties | Theorems |
| --- | --- | --- | --- |
| `Sessions`: issue, rotation, revocation, clean-up | | a revoked session never comes back; one live token per session | rotation invariant for any number of clients |
| `RecoveryPlan`: instalments, reschedule, write-off, salary lock | the recoveries of `AdvancePayout` | what is deducted plus what is left is what was paid | conservation |
| `AttendanceDay`: event log and projection | the events of `LeaveRequest` | a quiet day is the fold of its events | refinement to a log, as in `LeaveLedger` |
| `MemberCap` with invites and offboarding | | seats within the plan once all rest; a job never removes the owner | |
| `Migrations`: steps under a lock | `SingleFlight` | each step once, in order | from `Exclusion` |

Abstract specifications worth stating: `LeaveAccount` (done); the mutex that `AccountDeletion` uses as
an abstraction of `SingleFlight`; an advance as a single account (paid, recovered); a subscription as a
sequence of paid periods. A new module brings one passing run with several properties and, where it
can, a theorem.
