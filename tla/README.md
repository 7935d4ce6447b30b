# TLA+ models of WorkHQ's approval core

WorkHQ is an HR system: a NestJS backend (`backend/src`), a React client (`web`) and a
Telegram bot over one PostgreSQL database. What employees ask for (leave, days off,
corrections, overtime, bonuses, advances) goes through approval workflows, and the
decision travels back to the module that asked for it through a table of outbox events.
The backend runs in several replicas, its services are sequences of awaited database
round trips, and transactions seldom span more than one of them. This project models
that core: who may decide, how decisions overwrite each other, how a decision reaches
the tables it is about, what it does there (days off, leave balances, payroll items), and
what is left when a request or a process breaks off.

## 1. The system

### Components, their state and their operations

| Component | State | Operations that change it |
|---|---|---|
| **Approval state machine** (`workflow/domain/entities/workflow.entity.ts`) | status and current step of an instance | `start`, `approve`, `reject`, `return`, `escalate`, `override`, `cancel` |
| **Workflow service** (`workflow/application/workflow.service.ts`, `workflow-approver.service.ts`, `workflow.prisma.repository.ts`) | tables `instances`, `actions` (append-only); rows of `outbox_events` | `start`, `act` (read, authorise, save, log, publish) |
| **Outbox dispatcher** (`common/outbox`) | `outbox_events.attempts`, `.processed_at`, row locks, the loop of each replica | `poll`, `claimAndDispatchOne`; also `markStaleMonthlyOffOutboxProcessed` of monthly off |
| **Monthly days off** (`attendance/application/monthly-off.service.ts`) | `monthly_off_requests`, attendance records of off days, waived absences | `submit`, `onWorkflowResolved`, `onModuleInit` (repair, orphans, sweep), `adminDeleteOffDate`, `adminUpdateOffDate`, `swapMonthlyOffDay` |
| **Leave** (`leave/application/leave.service.ts`, `leave.prisma.repository.ts`) | `leave_requests`, `leave_balances`, reschedules, shift swaps | `requestLeave`, `updateLeaveRequest`, `deleteLeaveRequest`, `onWorkflowResolved`, `requestReschedule`, `requestShiftSwap`, `agreeShiftSwap`, `convertHoliday` |
| **Request platform** (`modules/request`) | `request_instances` with values, approval steps and an integration status | `createDraft`, `patchValues`, `submit`, `approve`, `reject`, `cancel`, `processApprovedRequest`, `forceRetryIntegration`, `reconcileIncompleteIntegrations` |
| **Payroll** (`payroll/application/payroll.service.ts`, `payroll-builder.service.ts`) | cycles (open, locked, paid), items, the deposit ledger, payslips, the link of overtime records to items | `openCycle`, `lockCycle`, `markPaid`, `addItem`, `updateItem`, `deleteItem`, `generatePayslip`, `addDeposit`, `buildCycle`, `onBonusWorkflowResolved`; `linkApprovedOtToOpenPayroll` of attendance |
| **Attendance** (`attendance.service.ts`) | records, corrections, overtime | check-in and check-out, `onCorrectionWorkflowResolved`, `onOvertimeWorkflowResolved` |
| **Finance** (`finance.service.ts`) | postings, expense requests | handlers of resolved workflows, posting |
| **Locks and jobs** (`common/monitoring/redis-lock.service.ts`) | a Redis key with a TTL | `SET NX EX`, release |

The other modules of `backend/src/modules` (some forty, listed in `PROJECT.json`) are
record keeping, read models, calculations and user interfaces; each has its reason for
not being modelled there.

### How they interact

```
 source service ──start──▶ WorkflowService ──publishResolved──▶ outbox_events
 (leave, monthly off, …)        ▲ act                               │
        ▲                       │                                   │ claimed by one replica,
        │            web, Telegram bot                              ▼ row lock, 120 s
        └───────────────onWorkflowResolved(status)──────── WorkflowResolvedHandler
```

* **Calls.** A source service inserts its record, calls `WorkflowService.start`, and
  stores the instance id in its record. The three are separate statements.
* **Messages.** `act` inserts one event per resolution. A dispatcher hands it to the
  source service by entity type. The handler uses its own database client: what it has
  written is not undone when the dispatcher's transaction is.
* **Shared tables.** `cancelLinkedApprovals` writes the workflow's table from the source
  services when they delete a record. Monthly off writes the outbox's table when a
  replica starts. `EmployeeDayConflictService` reads the tables of leave and monthly off.
* **Callbacks.** `onModuleInit` of monthly off (and of the request platform) runs at
  every start of every replica, next to the dispatchers of all replicas.
* **A second way in.** The request platform has an approval flow of its own and writes to
  leave, attendance and payroll directly (`RequestIntegrationService`), without workflow
  instance or outbox event.

### What is hard

* requests interleave at every `await`; saves are unconditional and write whole rows from
  a copy read earlier;
* a request, a handler or a process can end between any two statements;
* events are delivered at least once, and a handler can outlive the transaction that
  keeps other replicas away from its event;
* repairs at start-up compete with the handlers they stand in for.

### What makes each component correct

* *Workflow*: no step of a definition is jumped; decisions are made by the approver of the
  step; a decision is final; it is in the log before it is in the outbox; it gets there.
* *Outbox*: an event is delivered at least once and, without faults, at most once; it is
  never settled unseen; it is never stuck.
* *Monthly off*: a day is booked once; a request says what its workflow says; an approved
  request has its off days recorded; a start makes good what was lost.
* *Leave*: the balance holds exactly the days of the approved requests; a request says
  what its workflow says; a request is charged once.
* *Request platform*: an effect needs the approval of every step, is there once, and goes
  with the cancellation; a refused request leaves nothing behind; an approved one is
  integrated or marked failed in the end.
* *Payroll*: a cycle never goes back and does not change once closed; the deposit stays
  below its cap and agrees with its ledger; overtime is paid once; building again neither
  doubles an item nor touches one entered by hand; a payslip adds up its items.

The hazards are listed one by one, each at its line, in `PROJECT.json`.

## 2. Modules

| Module | Models | Checked by | Proved in |
|---|---|---|---|
| `WorkflowEntity` | the entity: one operator per method, `Actionable` for its guard | `WorkflowService` | `WorkflowProofs` |
| `WorkflowService` | `start` and `act`, round trip by round trip, for overlapping requests, with `cancelLinkedApprovals` | `MCWorkflowService`: WorkflowService, WorkflowLive, WorkflowCrash | `WorkflowProofs` |
| `Delivery` | abstract: what the outbox promises the source services | (as a property of `Outbox`) | `OutboxProofs` |
| `Outbox` | the dispatchers of several replicas over the event table | `MCOutbox`: Outbox, OutboxConcurrent | `OutboxProofs` |
| `MonthlyOff` | bookings, their decisions, the start-up repair; deletion, change and swap of a day | `MCMonthlyOff`: MonthlyOff, MonthlyOffReturned | `MonthlyOffProofs` |
| `Leave` | requests and balance of one employee | `MCLeave`: Leave, LeaveDouble | `LeaveProofs`, `SumProofs` |
| `RequestContract` | abstract: what the request platform promises about the effect of a request | (as a property of `RequestPlatform`) | `RequestEffectProofs` |
| `RequestPlatform` | drafts, submissions, the approval steps, cancellation, integration, retry and start-up reconciliation | `MCRequestPlatform`: RequestPlatform, RequestRace | `RequestProofs`, `RequestEffectProofs` |
| `Payroll` | cycles, items, deposit ledger, builder, overtime links, payslips of one employee | `MCPayroll`: Payroll | `PayrollProofs`, `SumProofs` |

`WorkflowService` extends `WorkflowEntity` and ends at the outbox table, `Outbox` begins
there; `MonthlyOff` and `Leave` see the workflow and the outbox from the source's side
(one decision at a time, one delivering replica, redelivery after a crash).
`RequestPlatform` sees leave, advances and overtime through the rows and the balance it
writes itself; `Payroll` has the handlers of two modules, payroll and attendance, on the
overtime records they share.

An operator of a form `X...` directly before the definition `X` with the comment *Mutant*
is a plausible mistake in the code it stands for; it is not used by any specification. It
exists to show that the properties fail when the code is wrong.

### WorkflowService

One request `r` is one call of `act`. `pc[r]` is the round trip it waits for:
`Read` (`findInstanceById`), `Authorise` (`isActorCurrentApprover`, which reads the
instance again, the owner's intervention, the entity's guard), `Save` (`saveInstance`),
`LogAction` (`appendAction`), `Publish` (`publishResolved`). `call[r].read` is the copy
that `act` works on. `Interrupt` is an exception in a round trip or the end of the
process. `signed` and `contended` are history variables.

Abstracted: `Approvers` is a constant relation from steps to users (the code resolves it
from roles, hierarchy and delegations); audit and notifications; `escalate` and the other
actions carry no comment. The bypass is a set of users.

### Outbox and Delivery

Rows are numbered by `occurred_at`. A replica polls, claims the oldest claimable row (the lock is
`lock[r] = d`), handles it, and commits `attempts` and `processed_at`. `Timeout` ends the
transaction under a running handler; `Restart` ends the process and brings back the start-up sweep.
Neither counts an attempt, and either can happen any number of times, as in the code. The history
`delivered` tells none, one and more deliveries apart (`Many`), which keeps the state space finite
without a bound on faults. `Delivery` says the same without replicas, locks and transactions: an
event is settled after a delivery, or given up after `MaxAttempts` failures, and it is delivered
again only if a transaction that carried it was broken off. The two share their variables, so the
refinement mapping is the identity on five of them and hides the other five.

Abstracted: alerts and the retry-storm monitor; the timer's period; other sweeps.

### MonthlyOff

One employee of one company. `Check`/`Insert`/`StartWorkflow`/`Link` are `submit`; the
catch clause is `SubmitFails`, a crash `SubmitCrashes`. `Act`, `Publish` and `LoseEvent`
are the workflow seen from here. `resolver[c]` is a running call of `onWorkflowResolved`,
by the outbox and by a start: `ReadRow`, `WriteRow`, `SyncDay` for each day, `SyncDone`.
`Start`, `Repair`, `FindOrphans`, `CheckOrphan`, `OrphanGone`, `Sweep` are
`onModuleInit`.

`admin[a]` is a running call of one of three operations, each with the copy of the dates it
read first and what it does next:

| | reads | then |
|---|---|---|
| `adminDeleteOffDate` | `DeleteRead` | if approved `AdminRevert`; `DeleteWrite`; after the last day `AdminCancel` |
| `adminUpdateOffDate` | `UpdateRead` | `AdminCheck` (conflicts), `UpdateWrite`; if approved `AdminRevert`, `AdminSync` |
| `swapMonthlyOffDay` | `SwapRead` | `AdminCheck`, `SwapWrite`, `AdminRevert`, `SwapCreate` (a new, approved request), `AdminSync` |

`AdminFails` ends any of them anywhere. A swap takes the id of a request that was never
submitted, and waits when there is none: the number of ids is the bound.

History: `crossed` is set when two calls are between check and booking, two change one request, or a
failing `submit` takes back a request that is being changed; `cut` has the requests whose approval
or change broke off before its days were recorded, or whose day was reverted by a call that had
freed it before; `misjudged` is set when a start took a workflow that is still open, returned or
escalated, for a rejection (finding 3).

Abstracted: the two reads of the repair (pending rows, then their workflows) are one; days
have no check-in; conflicts with leave, entitlement and permissions are preconditions that
hold; `revertOffDaySideEffects` and `syncOneOffDay` are one step per day.

### Leave

One employee, one leave type, one period. A job is the outbox handler or an administrator's
update or deletion, and `job[c].at` is what it does next: save the row, read the balance
(`consuming`, `freeing`), write it (`charging`, `releasing`), soft-delete, cancel the
workflow, commit the event. `submission` is the copy that `requestLeave` saves once more
after it has started the workflow. `Act` is `WorkflowService.act`: a decision is an approval, a
rejection or a cancellation, and each of them is published; a return leaves the workflow open and
publishes nothing. The handler knows approvals and writes everything else as a rejection, so that
a cancelled workflow has a rejected request (`Verdict`, `leave.service.ts:694-713`).

Abstracted: the read of the balance in `requestLeave` and the insert are one step (the read
only decides the borrowed flag); day conflicts, emergency-leave quotas, permissions and the
calendar arithmetic of `days`. Reschedules, shift swaps and holiday conversion are not
modelled.

### RequestPlatform and RequestContract

`inst` is the table of requests, `step[r]` the approval steps of each of its submissions,
`row` what the integration makes of it elsewhere (a leave request, an advance, an overtime
record), `balance` the leave days used. `call[c]` is a handler, or the start-up code of a
replica, and `call[c].at` what it does next; `seen`, `step`, `id` and `read` are the local
copies that the code keeps across an `await`.

| Code | Actions |
|---|---|
| `createDraft`, `createAndSubmitSystemRequest`, `submit` | `CreateDraft`, `CreateAndSubmit`, `BeginSubmit`, `Submit` |
| `stageLeaveOnSubmit` | `CheckConflict`, `StageLeave`, `LinkStaged` |
| `cancelDraft`, draft expiry | `BeginDiscard`, `Discard` |
| `cancel` with `processCancelledRequest` | `BeginCancel`, `UndoStaged` or `UndoApproved`, `ReadBalance`, `Release`, `Erase` or `RefuseErase`, `Unlink`, `Cancel` |
| `approve`, `reject` | `BeginDecide`, `Approve`; `Reject`, `Unstage` |
| `processApprovedRequest` | `Check`, `Claim`, `LookLeave`/`LookOvertime`, `FindOvertime`/`LookAdvance`, `Write`, `ReadBalance`, `Charge`, `Mark`; `Fail` for an exception in its `try`, `Abort` for one before it or in the catch clause |
| `forceRetryIntegration`, `reconcileIncompleteIntegrations` | `BeginRetry`, `Reset`; `Start` |
| the process | `Crash` (which makes a start due), `Deploy` |

`hits[r]` records what irregular happened to a request, at the step where it happens:
`stale` (a decision is written over a status that is not the one read), `overlap` (two calls
are at work for one request outside its own tables), `crash` and `partial` (a process ends, or a
call throws, after a write elsewhere that wants another one: `Unfinished`; a call that stops
before its first write or after its last hits nothing). Each property names the hits under
which it makes no promise, so that it says at the same time that everything else is safe.

An exception inside the `try` of `processApprovedRequest` marks the request failed (`Fail`). One
before it (`request-integration.service.ts:218`, `247`), or one of `markIntegrationResult` in the
catch clause (`266`), ends the call and leaves the integration unset or pending, while the
process lives on and no start is due (`Abort`). The history `lost` has the requests given up so,
until a retry (`Reset`) or the next start takes them up again.

Overtime is looked for twice, as in the code: `assertAttendanceLinkedRequest` (`713`) refuses a
day that has a record (`LookOvertime`), and one that has appeared by the time of `findFirst`
(`721`) is approved and taken for the request's own (`FindOvertime`).

`RequestContract` is the life of a request as the other modules may rely on it: a request
gets its effect only between its approval and its cancellation, and a refused or withdrawn
one has none. The refinement mapping computes the phase of a request from its status and
its rows (`Phase`); a request that was hit is `disturbed`, about which nothing is promised.
A leave whose request is in review with an approved leave row would be `leaked`, a phase the
contract does not have.

Abstracted: the values of a request, the routing of its flow (which has at least one step), who may
decide, `canReject`, request types other than the three with an effect in a shared table; days of
other requests do not conflict, nor do records made outside the platform; reads without a write in
between are merged; an exception of `audit.record` after the domain write is `Fail`. A start lists
every incomplete request, the code the first 500 (`request-integration.service.ts:1370`): with more
than 500 that keep failing the rest starve.

### Payroll

One employee. `cycle` is the status of each cycle, `item` the items, `ledger` the deposit
rows and the running total of the last one, `ot` the overtime records with their link to an
item, `payslip` the payslip of each cycle.

| Code | Actions |
|---|---|
| `openCycle`, `lockCycle`, `markPaid` | `OpenCycle`, `BeginLock`, `BeginPay`, `SaveCycle` |
| `addItem`, `updateItem`, `deleteItem`, `invalidatePayslip` | `BeginAdd`, `AddItem`; `BeginEdit`, `UpdateItem`, `DeleteItem`; `InvalidatePayslip` |
| `generatePayslip` | `BeginPayslip`, `WritePayslip` |
| `addDeposit`, `PrismaDepositRepository.create` | `BeginDeposit`, `CheckCap`, `CreateDeposit`, `ReadRunning`, `EnterDeposit` |
| `buildCycle`, `ManualPayrollItemService.applyForCycle` | `BeginBuild`, `ApplyScheduled`, `Compute`, `ListOvertime`, `Link`, `Find`, `Upsert`, `Seek`, `Refresh`, `CheckCap` … `EnterDeposit` |
| `linkApprovedOtToOpenPayroll` | `BeginLink`, `ChooseCycle`, `Link`; `ApproveOvertime` without a link |
| `onBonusWorkflowResolved` | `ResolveBonus` |

`hits` is as in `RequestPlatform`, one flag for each kind of overlap or break-off that the
code lets in. `Crash` ends a call anywhere. HR may enter an item of any type by hand (`addItem`), a
deposit too, and may schedule deposits that each build enters; neither writes the ledger. The
history field `collected` of an item tells the monthly deposits, which `addDeposit` and the
builder make together with a ledger row, from these.

Abstracted: the pay formulas (an amount is a member of a small set, a deposit is 1, whether one is
due is chosen), the other types the builder manages (they take the path of the allowance), the
definitions of scheduled items (a build enters one at most, of amount 1; that it has been applied is
recognised by the item's note, which `updateItem` overwrites, so the model does not count on it),
the sign of an amount, the source an item entered by hand may name (no code reads it as a link), the
note an approved bonus gets, payroll shared among companies, corrections of the ledger,
`addLeaveBonus`, a rejected overtime record; the lookup of an existing payslip is merged with its
write, the lookup of a bonus with its deletion.

## 3. Runs

| Run | Instance | What it shows | States |
|---|---|---|---|
| WorkflowService | 1 instance, steps 1 and 3 with different approvers, an owner, 3 requests that may all break off; requests are symmetric | six properties of `act` | 625 thousand |
| WorkflowLive | 2 requests, a super administrator, the override flag, no interruption | a saved decision is published | 32 thousand |
| WorkflowCrash *(violation)* | as above, one request may break off | the event is lost | |
| Outbox | 2 replicas, 2 events (one swept), 2 attempts, batches of 2, any number of faults | single delivery, settlement, refinement | 287 thousand |
| OutboxConcurrent *(violation)* | the same | two replicas handle one row | |
| MonthlyOff | 2 bookings that share a day (a swap may take the id of the second), 3 days, 1 administrator, approvers may return, 2 attempts, 2 disruptions | the five properties below | 3.3 million |
| MonthlyOffReturned *(violation)* | an approver may return the workflow | a start rejects an open request | |
| Leave | 2 requests of 1 or 2 days, 2 days entitled, 1 administrator, workflows may be returned and cancelled, 2 disruptions | balance and requests agree | 1.8 million |
| LeaveDouble *(violation)* | 1 crash | a leave is charged twice | |
| RequestPlatform | 1 request of any kind, 2 handlers and the start-up code, 2 steps, 2 submissions, 4 ids, 3 calls, 1 disruption | the seven properties below | 378 thousand |
| RequestRace *(violation)* | 1 submission, 3 calls, no disruption | a request is approved without its last step | |
| Payroll | 1 cycle, 2 callers, 3 items, 1 overtime record, amounts 1 and 2, any type entered by hand, deposits by schedule, a cap of 2, 3 calls, 1 break-off | the nine properties below | 1.9 million |

**Why the bounds are enough.** Two steps are the least with an order to get wrong; step numbers with
a gap (1, 3) tell the successor step from the successor number. A lost update needs two requests,
and a third can act on its result. Two replicas are all that a lock distinguishes; two attempts let
a row fail once and then be given up. A shared day needs two bookings, and one of them has a day to
itself, so that deleting a day and deleting the last day both occur. Two leave requests compete for
two days, with the lengths 1 and 2 that both fit and exceed what remains. Of three days two are
booked and one is free to move a day to, so that a change can meet a conflict and a freed day can be
taken again. The outcomes of monthly off are `approved`, `cancelled` and `returned`: a rejection
takes the same path as a cancellation (`Verdict`), an escalation that of a return.

One request is enough for `RequestPlatform`, since requests share only the balance, whose lost
update needs two callers and not two requests; three calls are an approval of each of two
steps and one call that interferes (cancel, retry, reject, submit again). Four row
ids let a request be staged, integrated twice and retried. Three item ids of payroll hold any three
of an allowance, a deposit, an overtime item and one entered by hand, as many as three calls
bring together in one story; a cap of
two deposits is reached by the second and refused to the third; three calls let one close the
cycle between the two others. With a second cycle the calls would not meet each other; with one,
the choice of the latest open cycle has a single candidate.

**Bounds in the guards.** Outbox has none (`Many` only bounds a history variable).
`MaxDisruptions` (MonthlyOff, Leave) counts crashes, exceptions, starts and administrators'
interventions. `MaxAttempts` and `BatchSize` are constants of the code (5 and 50) with
smaller values. `MaxCalls` (RequestPlatform, Payroll) counts the API calls, `MaxCrashes`
(Payroll) the calls that break off, `MaxDisruptions` (RequestPlatform) crashes, exceptions and
deployments; `Submissions` and the ids of requests, rows and items bound what can be created.
Each request of `WorkflowService`, each booking and each leave request is made at most once.

**Deadlock.** `CHECK_DEADLOCK FALSE` is set where every call is made once, so that the system stops
when all have been made (workflow, monthly off, leave, requests, payroll). Outbox polls for ever and
is checked for deadlock.

**Fairness.** *WorkflowService*: weak fairness of `Step(r)`, since Node resumes a request when its
await settles; there is none for starting a request or for `Interrupt`. *Outbox*: weak fairness of
`Poll(d)`, since `setInterval` keeps firing, and of `Run(d)`, since a handler call ends by returning
or throwing; none for publication, timeouts, restarts or sweeps. That a handler ends is an
assumption: no timeout stops it. `EveryEventSettles` says of each event that it settles *unless*
restarts never stop, or transactions on it or on an earlier event run over their 120 seconds without
end. The proviso is needed: the rollback takes the attempt with it
(`outbox-dispatcher.service.ts:118-127`), so the event of a handler that is always too slow is
claimed first by every poll for ever, and those behind it starve. *RequestPlatform*: weak fairness
of `Progress(c)`, for the same reason as `Step(r)`, and of `Start`, since a replica that ended is
started again and runs `onModuleInit`; none for calls, exceptions (`Fail`, `Abort`), crashes and
deployments. MonthlyOff, Leave and Payroll state no liveness.

**The properties.**

* `NoStepSkipped`: however approvals, returns, escalations and lost updates interleave, every
  step before the current one was approved or escalated, and an approved instance has them all.
* `EventsAreLogged`: no event without an action in the log that leads to its status.
* `UncontendedDecisionIsFinal`, `DecidedByItsApprover`: hold as long as the writers of an
  instance do not overlap. With overlap both fail in the code, as there is no version check.
* `ResolvedUnlessStale`: a resolved instance changes only through a request that read it
  before. That is exactly the lost update and nothing more.
* `DecisionReachesOutbox`: holds without interruptions, fails with one.
* `ExactlyOnceUnlessBroken`, `ProcessedWasDelivered`, `EveryEventSettles`,
  `DeliversAsPromised`: see section 2.
* `NoDoubleBooking`: no day belongs to two requests, whatever is deleted, moved, swapped and
  repaired, unless two calls were both between check and booking or worked on copies of
  one request, or a start misjudged a returned workflow: it rejects the request, its days are free
  and taken, and then a handler that had read the row before approves it after all.
* `ApprovedIsSynced`: every day of an approved request is recorded, or a call is about to
  record it; the calls that leave one behind are those in `cut`.
* `RowFollowsWorkflow` (MonthlyOff): a request is approved only if its workflow was, without any
  condition, and rejected only if its workflow was rejected or cancelled, unless calls crossed or
  a start misjudged it. `RequestFollowsWorkflow` (Leave): a request whose event is processed is
  approved if its workflow was, and rejected if it was rejected or cancelled.
* `RepairedByStart`: a start has applied all decisions it found before it sweeps the events.
* `BalanceMatchesRequests`: the balance is the sum over the approved requests unless two jobs
  crossed or a crash came between the two tables. Which crashes do that is spelled out in
  `Harmless`, so the property also says that all others are safe.
* `SignedOff`: a request has an effect only if each of its steps was approved, in one submission
  or another, unless a decision was written over a status it had not seen. `EffectOnce`: it has
  one, through approval, retry and any number of starts, unless two callers were at work for it
  or one stopped between a write and the one that makes it known.
* `BalanceMatchesLeave`: the days used are the approved leave rows. `ClosedLeavesNothing`: a
  request refused or withdrawn in review leaves no row, not even the staged one. (One that is
  cancelled after its approval, with a failed integration, does leave a pending leave behind:
  the property does not cover it, and the code has it so.)
* `KeepsContract`: `RequestContract` at every moment, not only at rest. `Settles`: an approved
  request is integrated, marked failed, or not approved any more, in the end, through a crash or an
  exception, unless a call gave it up without a word (`lost`).
* `StatusAdvances`: a cycle goes from open to locked to paid and never back, unless two closing
  calls overlap (`save` writes the status of its copy). `ClosedUnchanged`: what changes the
  items of a closed cycle is a call that saw it open, or the handler of a rejected bonus, which
  does not look at the cycle.
* `DepositCap`, `LedgerMatchesItems`: the ledger adds up and stays below the cap; the monthly
  deposits that stand among the items are as many as the ledger's rows, whatever deposits HR enters
  beside them. The amounts are not compared: an edit of a collected item leaves the ledger alone.
* `OvertimePaidOnce`: an overtime record is linked to one item, by the builder or by the handler
  (overtime that HR enters by hand names no record).
  `BuiltOnce`, `ManualSurvives`: building again neither doubles an item nor changes one
  that is entered or edited by hand. `PayslipMatches`: after an edit there is no payslip or one
  that adds up; what does not invalidate it (the bonus handler, the builder, a deposit) is
  named in its flag.

### Findings

1. `WorkflowCrash`: the save of a decision and the insert of its event are two statements, so
   a crash between them loses the event. The repository's header promises an outbox that
   survives crashes. (Monthly off and the request platform repair this at a start, leave does
   not.)
2. `OutboxConcurrent`: a handler that runs longer than 120 seconds loses its row lock; another
   replica handles the row at the same time, against the dispatcher's header.
3. `MonthlyOffReturned`: the start-up repair counts `returned` and `escalated` as rejected, so
   that `RepairsOnlyResolved` fails.
4. `LeaveDouble`: the handler does not run in the dispatcher's transaction, against the
   reliability report; redelivery charges a leave twice.
5. `RequestRace`: `approve` checks the status and picks its step before the transaction, and in
   it decides by the steps that are pending then. A rejection or cancellation in between skips
   the other steps, and the approval, seeing none left, approves the request.

## 4. Proofs

TLAPS checks the following for all values of the constants that satisfy the assumptions of
the modules: any number of instances, requests, users, rows and replicas.

**WorkflowProofs** (assumptions `StepsAssumption`, `ServiceAssumption`: steps are numbers and
each non-empty set of them has a least one, as the code's sorted list has a first element).

* `TypeCorrect`: the invariant is `TypeInv` = `TypeOK` and `Phases`. `Phases` says that a
  request past its authorisation holds a copy that was not resolved, and that one that
  publishes has resolved it. Without it the type of the published events does not follow.
* `StepsInOrder`: `Spec => []NoStepSkipped`. `NoStepSkipped` is not inductive, because `Save`
  writes what was read long before. The invariant `OrderInv` adds `CopiesInOrder`: the copy of
  every request in flight is in order, too. It stays so because signatures are never taken
  back (`SignedGrows`), and `ApplyReached` shows that what `Save` signs is just what the
  entity's transition needs.
* `LoggedFirst`: `Spec => []EventsAreLogged`. The invariant speaks of the request that is about
  to publish (`PublishersLogged`), since the event is made from its copy and not from the table.
* `OnlyStaleWrites`: `Spec => ResolvedUnlessStale`, an action property, from `Phases`.
* `DecidedOnce` and `ApproverDecides`: `UncontendedDecisionIsFinal` and `DecidedByItsApprover`.
  Both follow from `SerialInv`: on an instance without contention the one request at work has a
  fresh copy until it saves, its own result in the table after that, no event yet, and the right
  to the step it decides. The assumption that `Null` is no instance is used here.

**OutboxProofs** (assumption `OutboxAssumption`).

* One invariant, `LockInv`: a locked row is in the hands of exactly the replica that locked it
  and is still open (`Locks`); a replica at work has a published row, locked unless a
  transaction on it broke off (`Workers`); a row without broken transactions was delivered at
  most once, and then it is processed or its holder is about to say so (`Deliveries`).
* From it `TypeCorrect`, `DeliveredOnce`, `SettledWasSeen`, and `ImplementsContract`:
  every step of `Outbox` is a step of `Delivery` or leaves its variables alone.

**RequestProofs, RequestEffectProofs** (assumptions `RequestAssumption`,
`CallAssumption`: the start-up code is no API handler, there is at least one step, `Null` is no
id and no call).

* `TypeCorrect`: `TypeOK` is inductive as it stands; `TablesOK`, `CallOK` and `RestOK` are its
  parts, since most actions disturb one of them.
* `ApprovedBeforeEffect`: `Spec => []SignedOff`. The invariant `OrderInv` says of a request
  without stale decisions that in review the steps of one submission are decided in their order
  (`Round`), and a call that decides holds the lowest one; that an approved request is
  `Signed`; and that whoever is past the check of the integration (`Held`) works for a
  signed one. Here the order matters in which the flow is walked: it is what makes the last
  approval find all others.
* `IntegratedOnce`: `Spec => []EffectOnce`. `OnceInv` says of a request without overlap and
  break-off that at most one call is at work for it (`Alone`); that whoever comes next will see
  the effect, because the request names it, or because there is none, or because the call at
  work is about to name it (`Known`); and that this call has its id in hand (`InHand`).
* `ContractKept`: `Spec => KeepsContract`, the refinement of `RequestContract`, and `NothingLeft`:
  `Spec => []ClosedLeavesNothing`. Both follow from `KeptInv`, which adds to `OrderInv` and
  `OnceInv`:
  * `Owned`: the rows that a request and its calls name were made for it, so that a step on one
    request does not touch another (`Elsewhere`, `KeptLocal`);
  * `WorkSees`: a cancellation holds a status that may be cancelled, and one that reverts an
    effect holds `approved`;
  * for a request that was not hit, `Sound`: only an approved request has an effect, or a call
    that makes it or takes it back, and there is none when the cancellation is written;
  * and `Tidy`: the leave staged for it is the one it names or a call is about to name, and it is
    gone when the request is closed, unless a call is about to reject it, or no step was decided
    against the request. The last exception is what `ClosedLeavesNothing` exempts; without it the
    invariant would be false.

  `KeptStep` proves the invariant together with `OneRequest`: a step concerns one request, and
  it changes the request's status, along `Course`, or its rows, but not both at once. From
  `OneRequest`, and `Sound` before and after the step, `ContractStep` reads off which action of
  the contract it is, or that the phases stay the same.
* `BalanceKept`: `Spec => []BalanceMatchesLeave`. `AccountInv` counts the approved leaves except
  those that a call has approved and not yet charged, or released and not yet returned
  (`Charged`); it says that at most one call holds a reading of the balance, which is still the
  balance (`ReadingGood`), and that whoever charges or releases does so for an approved leave of
  its own request (`PaysForLeave`). With the library's facts about cardinalities a charge adds
  just one leave to `Charged`, and a release takes just one away.

**MonthlyOffProofs** (assumptions `MonthlyOffAssumption`, `NullAssumption`). One invariant for
each theorem, each resting on those before it; every one has a lemma `...Step` with one step for
each action.

* `TypeCorrect`, from `TypeInv`: `TypeOK` and which requests are in the table (`Shape`).
* `RepairedOnStart`: `Spec => []RepairedByStart`. `Repairing`: a resolved request the start found
  pending is still on its list, in its call, or not pending any more; nothing becomes pending
  again (`Settling`).
* `FollowsWorkflow`: `Spec => []RowFollowsWorkflow`, whatever decisions approvers take. `Flow`: an
  event, a repair and a call carry the decision of the workflow, and so does the row; the rejections
  of a start do so until it has misjudged one.
* `BookedOnce`: `Spec => []NoDoubleBooking`, for any decisions, too. Not inductive, since the three
  calls write back copies of the dates. `Copies`: as long as nothing crossed, the copy of a call is
  the request and no two calls hold one of the same; `Books`: no day is booked twice counting those
  that are about to be booked.
* `SyncedWhenApproved`: `Spec => [](~misjudged => ApprovedIsSynced)`; the run checks the property in
  misjudged runs as well. `Synced`: every day is recorded or owed by a
  call, also while the row still says pending and the call that read it has yet to approve it.

**LeaveProofs** (assumptions `LeaveAssumption`, `NullAssumption`: lengths are positive, the
outbox handler is no administrator, `Null` is no row and no job).

* `TypeCorrect`: `Spec => []TypeOK`, from `TypeInv`: what the handler works on was decided and its
  event is still queued (`Handled`), an administrator's job is where its kind may be (`Placed`),
  and nobody works on a request that is not in the table (`Present`).
* `FollowsWorkflow`: `Spec => []RequestFollowsWorkflow`. A request is saved as a whole row from a
  copy, so that the decision lasts only if nobody saves a copy from before it. `Agreement`: as
  long as no two copies of a request were about at once, an administrator's copy has the
  status of the request (`Copied`), the handler has written the decision before it goes on to the
  balance (`Given`), and a request whose event is processed keeps it (`Kept`).

* `BalanceKept`: `Spec => []BalanceMatchesRequests`. While jobs are on their way the balance is
  not the sum over the approved requests, and a job writes what it has read before. The
  invariant `Account` says what it is then: the sum over the approved requests that no job has
  taken out of it or has yet to add (`Counting`, `Balanced`); that a copy is like its request
  (`Copies`) and what a job has read like the balance, which only one job is about to write
  (`Reads`), as long as nothing crossed; and that an approved request whose event is still open
  is in the hands of the handler (`Waiting`), so that a crash before the handler's save leaves
  nothing to add. Of the requests only finitely many are in the table (`Finite`); the set of ids
  itself may be infinite.

**SumProofs.** The sums of `Leave` and `Payroll` are `SumFunction` of the community modules, a
fold over the subsets of its domain. What is needed of it is proved here: the sum of nothing is
0 (`SumOfNone`), any element can be taken out of a sum (`SumSplit`), and a sum of natural numbers
is one (`SumTyped`, `SumNat`). The provers cannot instantiate an induction theorem with an
operator; the induction is done by a smallest counterexample instead. `Smallest`: a non-empty
family of subsets of a finite set has a member that leaves the family whichever of its elements
is taken out, since the cardinalities are well-founded (`WFMin`).

**PayrollProofs** (assumptions `PayrollAssumption`, `NullAssumption`: the cap is a number, amounts
are positive, `Null` is no cycle, no item and no call; items and callers are finitely many, as
the sums and the counts need).

One invariant, `IInv`, for all theorems; `Step` has one step for each action, and in it one for
each part. Every operation looks first and writes in a later round trip, so each part says what
is true between the look and the write, unless the flag of `hits` for that kind of overlap is set:

| Part | Says | Theorems |
|---|---|---|
| `Shape`, `Counted`, `Posted`, `Held` | the types; a call that is going to change items saw its cycle open, and the item it works on is one of that cycle | `TypeCorrect` (`TypeOK`), `ClosedKept` (`ClosedUnchanged`) |
| `Closing` | who is about to lock a cycle finds it open, who is about to pay it finds it locked, and is alone | `NeverBack` (`StatusAdvances`) |
| `Collected` | who collects a deposit is alone, has found room under the cap, and knows the running total | `CapKept` (`DepositCap`) |
| `Booked` | the collected deposits among the items are the ledger's rows and those on the way there | `LedgerComplete` (`LedgerMatchesItems`) |
| `Linked` | a record without a link is not paid, and no two calls have it on their lists | `PaidOnce` (`OvertimePaidOnce`) |
| `Built` | a build that is about to write an item is alone on its cycle and found none, or found one of its own | `NoDuplicates` (`BuiltOnce`), `ManualKept` (`ManualSurvives`) |
| `Slipped` | a payslip adds up unless a call is about to invalidate it, and so does one that is being written | `PayslipAddsUp` (`PayslipMatches`) |

None of the properties is inductive: each speaks of the tables, and a step that writes them is
harmless only because of what its call found before. The lemmas `...Effect` say what each action
does to its call and to the items, the lemmas `...Rest` what it leaves alone and what it may
conclude about other calls unless it sets a flag, and the lemmas `...Stays` which steps a part of
the invariant does not notice.

**Only model-checked.** Liveness (`DecisionReachesOutbox`, `EveryEventSettles`, `Settles`) is out
of the prover's reach, as is everything about ENABLED. Every invariant, action property and
refinement that a passing run checks is proved, `ApprovedIsSynced` for runs that are not
`misjudged`. The five violations are found by TLC, each on
one instance.

## 5. Not modelled

Everything that only reads or calculates (reports, analytics, scores, pay formulas, calendars),
record keeping behind an access check, the clients, token handling, and `_extracted`, a copy of
modules for another product. Approver resolution enters as a constant. PostgreSQL's
read committed isolation is modelled by its effect: each statement is a step, and a
transaction that reads and then writes is two.

Of the components modelled in part: leave reschedules and shift swaps (agreement of two
employees, then a swap of their rows) and the conversion of holidays; the request types without
an effect in a shared table; check-in, breaks and time corrections of attendance; corrections of
the deposit ledger and the builder's formulas. Pending leave requests reserve nothing
(`leave.service.ts:344`), which `Leave` has, and which makes it possible that two of them exceed
the balance together.

The Redis lock guards scheduled jobs (reminders, expiry, digests), none of which is a step of a
modelled component; without Redis every replica gets it. The handlers of finance have the shape
of those of monthly off and leave.

## 6. What could come next

1. `Leave`: `requestShiftSwap` and `agreeShiftSwap`, where two employees' consent and two
   requests must not come apart; reschedules.
2. A composition of `WorkflowService`, `Outbox` and a source service, small enough for TLC, in
   which the decision of an instance reaches its record.
3. `RedisLock`: mutual exclusion up to the TTL, with the draft expiry as its job.
4. The safety part of liveness: that a call that has begun always has a next step, as invariants
   of the places, which can be proved though the conclusion cannot.
