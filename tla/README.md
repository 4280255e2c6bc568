# A verification development for the SVE enterprise platform

TLA+ models of the platform services in `src/platform-services` and of the
SVE-GIP portal in front of them (`src/apps/svegip`), the TLC runs that check
them on small instances, and proofs, for every instance, of their safety
properties and refinements. The models are translated from the TypeScript services, the Postgres
repositories under them, the migrations that define their constraints and the
portal's page and functions; paths below are relative to `src/`.

1. [The system](#1-the-system)
2. [Modules](#2-modules)
3. [Workflow](#3-workflow)
4. [HrmsLifecycle](#4-hrmslifecycle)
5. [IdentitySessions and LoginThrottle](#5-identitysessions-and-loginthrottle)
6. [WorkflowDefinitions](#6-workflowdefinitions)
7. [Organisation](#7-organisation)
8. [Access and DataVault](#8-access-and-datavault)
9. [PortalClient and PortalServer](#9-portalclient-and-portalserver)
10. [Runs and bounds](#10-runs-and-bounds)
11. [What the code does not keep](#11-what-the-code-does-not-keep)
12. [Proofs](#12-proofs)
13. [Faulty variants](#13-faulty-variants)
14. [Limits](#14-limits)
15. [Plan](#15-plan)

## 1. The system

A TypeScript monorepo: five platform services over one Postgres database, a
portal and a briefing page in front of them. A request is served by one
process; services run in several. All state that matters is in tables, apart
from Identity's map of pending MFA challenges and what a browser holds. There
is no message queue: services call each other in-process, pass each other
transactions (`transactionScope.ts`), or leave rows behind for somebody else's
sweep.

| component | state | operations | depends on |
|---|---|---|---|
| Workflow: instances (`platform-services/workflow`) | `workflow_instances`, `_tasks`, `_task_candidates`, `_decisions`, `_system_action_executions`, `_events` | start, cancel, decide, complete, reassign, sweep for escalation | Organisation (managers), Identity (roles, accounts), registered handlers |
| Workflow: definitions | `workflow_definitions`, `_definition_versions`, `_steps` | create, draft, edit steps, publish, retire | handlers registered |
| HRMS: cases (`platform-services/hrms`) | `hr_lifecycle_cases`, `_events`, `_milestones`, `hr_probation_reviews` | create, milestone, review, complete, cancel | Organisation (assignments) |
| HRMS: approval | `workflow_instance_id`, `pending_completion_input` of a case | submit in two phases, read the approval's status, the handlers Workflow runs | Workflow |
| HRMS: deactivation | `hr_identity_deactivation_requests` | sweep, process one, record a failure | Identity |
| Identity (`platform-services/identity`) | `users`, `sessions`, `mfa_*`, `authentication_attempts`, roles and grants, the challenge map | login, verify MFA, recover, create and revoke sessions, disable and enable accounts, throttle, authorize | none |
| Organisation (`platform-services/organisation`) | `employees`, `employment_assignments`, departments, positions, identity links | hire, move, end, link and unlink accounts | Identity |
| Data vault (`platform-services/data-vault`) | `data_vault_records`, `_record_versions` | create, update, archive, read by classification | Identity, Organisation |
| Database provider (`pgDatabaseProvider.ts`) | the connection pool | query, transaction | none |
| Portal page (`apps/svegip/app.js`) | the session, the page and its history, what is selected, panels and caches | navigate, search, select, open tools, decide tasks and probations | the portal's functions and, through them, the services |
| Portal functions (`apps/svegip/netlify`) | `employee_accounts`, `management_decisions`, `controlled_documents` and versions | sign in, bootstrap, manage accounts, decisions and documents, forward to the services | Identity's bridge |
| Briefing (`apps/executive-briefing`) | which screen is open | none that leaves the page | none |
| Packages, infrastructure, CI | none | contracts and scripts | |

How they interact where it is hard:

* **A decision runs the business.** `taskService.decide` applies the decision,
  moves the instance along its steps and, when it reaches a SYSTEM_ACTION, runs
  the handler HRMS registered, which ends or changes an employment assignment
  in Organisation and completes the HRMS case, all in one transaction. A throw
  anywhere undoes the decision.
* **HRMS submits in two phases** (the case, the Workflow instance, the link are
  three transactions), so a crash between them must be resumable.
* **HRMS learns of a rejection only by asking** (`getApprovalStatus`).
* **A leaver's account** is disabled by a later sweep, which must survive its
  own failures, overlap with itself and never forget a request.
* **Checks are made outside the transaction that acts on them** almost
  everywhere in Workflow, in `transitionCase` and in Organisation; the Data
  vault and the portal's functions use no transaction at all. What holds at the
  commit rests on WHERE clauses, unique indexes, CHECKs and a few row locks.
* **The page is asynchronous.** Answers arrive late, out of order or never,
  after the user has gone elsewhere.

What makes each component correct: an instance waits for exactly one task and
skips no step; a decision is taken once, by somebody entitled to it; a system
action takes effect once; what is over stays over (Workflow). What is published
stays as it is, and an instance runs the steps of one validated version
(definitions). A terminal case stays so, its assignment change, completion and
deactivation request stand or fall together, an approval is granted only with
its effect, reviews form a chain, every deactivation request is processed
(HRMS). No session outlives or postdates the disabling of its account, a second
factor is spent by the sign-in it admits (Identity). One open primary
assignment per employee, no reporting line that meets an employee twice
(Organisation). The history of a record only grows, by those entitled to it
(Data vault). What is drawn belongs to what is selected, and no decided task is
offered again (page). Callers are live, and the rows the functions write from
stale reads agree with each other (functions). `PROJECT.json` lists the hazards
at their lines.

## 2. Modules

| module | what it is |
|---|---|
| `ApprovalChain` | abstract specification: a marker per instance that moves along the steps of a version |
| `Workflow` | the engine, detailed; implements `ApprovalChain` |
| `WorkflowProofs` | the inductive invariants of `Workflow`, the theorems they yield and the refinement |
| `HrmsLifecycle` | cases, approvals and deactivation in HRMS; sees Workflow through `ApprovalChain`, which it implements too |
| `HrmsProofs` | its inductive invariant, its action properties and the refinement |
| `AccountAccess` | abstract specification: sessions open and close, an account is disabled and enabled |
| `IdentitySessions` | one account of Identity, detailed; implements `AccountAccess` |
| `IdentityProofs` | its inductive invariant and the refinement, and the theorems about `LoginThrottle` |
| `LoginThrottle` | the rate limiter, with time |
| `WorkflowDefinitions`, `DefinitionsProofs` | definitions, versions and steps against the instances that run them; the theorems about them |
| `Organisation`, `OrganisationProofs` | employees, assignments and reporting lines; the theorems about them |
| `Access` | accounts, roles and grants, and the three reads of `authorize` |
| `VersionedRecord` | abstract specification: a history per record that only grows |
| `DataVault`, `DataVaultProofs` | records and versions under `Access`, implementing `VersionedRecord`; the theorems about them |
| `PortalClient`, `PortalClientProofs` | the portal's page; the theorems about it |
| `PortalServer`, `PortalServerProofs` | the functions behind it, and the bridge to Identity; the theorems about them |
| `MC*` | versions, thresholds, accounts and symmetry for TLC |

`ApprovalChain` is the contract between two services: `Workflow` shows that the
engine keeps it, `HrmsLifecycle` uses an instance row and a status in the
engine's place and shows that what HRMS starts and ends keeps it as well.
`Access` is composed with `DataVault`: the same state, with an administrator's
actions between the reads of a call. `WorkflowDefinitions` is where the
constant `Steps` of `Workflow` comes from: `ValidVersion` there is the
assumption `StepsAssumption` here.

## 3. Workflow

**State.** One function per table: `instances`, `tasks` (with candidates),
`decisions`, `executions` (SUCCEEDED rows) and the ghost `effects`, which
counts the handler runs that committed. `active` is `users.status`. `calls` is
the request each user has in flight, `sweeps` the rows a run of
`processDueEscalations` has listed and not handled.

**Actions.**

| action | code |
|---|---|
| `Start` | `instanceService.startWorkflow`, to the first step with a task |
| `Cancel` | `cancelInstance`, under FOR UPDATE |
| `BeginDecide`, `CommitDecide` | the checks of `taskService.decide`, then its transaction |
| `BeginComplete`, `CommitComplete` | the same for `completeTask` |
| `BeginReassign`, `CommitReassign` | the same for `reassignTask` |
| `Abandon`, `AbandonSweep` | the transaction throws and is rolled back, or the process stops |
| `BeginSweep`, `Escalate` | `listDueForEscalation`, then one `markEscalated` at a time |
| `SetAccount` | Identity's `disableAccount`, `enableAccount` |

`Activate` is the recursion of `activateStep`, `executeSystemActionStep` and
`advancePastStep`: from step *s* the instance slides over system actions to the
first step *k* with a task, or off the end. `Reaches` names that step, so no
recursion is needed.

**Abstractions.** What Organisation and Identity answer (managers, roles,
permissions to start, cancel or reassign) is a free choice, since others edit
it at any time; eligibility, account status and the bar on self-approval are
kept. A repeated start with the same idempotency key returns the old row and
changes nothing. A system action that throws is `Abandon`: the FAILED
execution row is written in the same transaction and is undone with it. Due
dates are a free choice among the tasks whose step escalates. Versions are a
constant: they cannot change once published (section 6).

**Safety.** `OnePendingTask`, `DecisionsMatchTasks`, `DecidersEntitled`,
`SystemActionsOnce`, `CompletionJustified`, `HistoryIsFinal`, `EscalatedOnce`,
`ImplementsChain`. No liveness: tasks wait for people, and nothing in the code
makes them act.

## 4. HrmsLifecycle

**State.** `cases` (status, type, link, whether the terms are recorded),
`reviews`, `requests`, `active`; the ghosts `writes` and `rejections` count
assignment changes and events; `instances` stands for the Workflow instances of
HRMS's definitions. `calls`, `queues` and `failing` hold what requests and
workers have read.

**Actions.**

The routes group them: `CreateCase`, `RecordDecision`, `SubmitForApproval`,
`GetApprovalStatus`.

| action | code |
|---|---|
| `CreateOnboardingCase`, `CreateProbationCase`, `CreateChangeCase`, `CreateOffboardingCase` | `createCase` with what each caller adds to its transaction |
| `CompleteCase`, `CancelCase`, `CommitTransition` | `transitionCase`: its checks, then its transaction |
| `BeginReview`, `CommitReview` | `probationService.recordDecision` |
| `CompleteDirectly` | `completeChange`, `completeOffboarding` over HTTP (`CompleteChange`, `CompleteOffboarding`) |
| `Submit`, `Start`, `Link` | the three transactions of `submitForApproval` |
| `BeginStatus`, `Reconcile` | `getApprovalStatus`: its reads, its transaction |
| `Approve`, `Reject`, `CancelApproval` | the decision in Workflow; `Approve` runs the handler, which completes as `CompleteDirectly` does |
| `Abandon` | the request's process stops, or its next transaction throws |
| `BeginSweep`, `Process`, `Fail`, `RecordFailure`, `StopSweep` | `processAllPending`, `processOne`, its catch |
| `Enable` | Identity's `enableAccount`: an administrator gives the account back |

**Abstractions.** A DRAFT row is never committed (every caller of `createCase`
moves it on in the same transaction). Reads that the transaction repeats under
the row lock are one action with it. The handler's read of the terms and its
lock are one step. Whether a leaver has a linked account is a free choice at
completion. Columns other than the ones named, milestones and permissions are
left out. Each case has its own account, so two offboardings of one employee
are not covered; an administrator enables it here but does not disable it, so
that what disables an account is a request (`IdentitySessions` has both). `MayBecome` is what the CHECKs of migration 004 (lines
106-107) leave of an unguarded UPDATE: `completed_at` and `cancelled_at` are
never cleared, so a terminal status can only be written again.

**Fairness.** `SweepsRecur`: something outside calls `processAllPending` again
and again (`docs/architecture/identity-offboarding-revocation.md:208-209`, "retry
cadence is controlled entirely by how often something external calls it"), a
worker that failed gets to record it, and a request that is tried again and
again does not fail every time (strong fairness of `Process`, as failures and
stopping workers can interrupt it any number of times). Nobody is assumed to
decide, submit or ask for a status.

**Properties.** Safety: `AllOrNothing`, `ApprovalTakesEffect`,
`ReviewsInOrder`, `TerminalStays`, `ProcessedOnce`. Liveness:
`RequestsProcessed`. Refinement: `ImplementsChain`.

## 5. IdentitySessions and LoginThrottle

Accounts share nothing but the throttle, so `IdentitySessions` has one.

**State.** `status` (`users`), `sessions`, `methods`, `codes` (the tables),
`challenges` (the map in the process), `rowLock` (who holds the `users` row FOR
UPDATE), `calls` (the stage each request has reached and what it has read) and
`disabling` (how far each `disableAccount` is, and the sessions its UPDATE has
seen). A session keeps the challenge and the code that opened it as ghosts.

**Actions.** Every await is a boundary between two actions, except that a
request's first reads are one.

| action | code |
|---|---|
| `BeginLogin`, `IssueChallenge`, `PasswordSuffices` | `authService.login`, `handleLogin` |
| `BeginSecondFactor`, `VerifyCode` | `handleMfaVerify` |
| `BeginSecondFactor`, `FindRecoveryCode`, `SpendRecoveryCode` | `handleMfaRecovery`, `consumeRecoveryCode` |
| `LockUser`, `InsertSession` | the transaction of `createSession` |
| `Authenticate`, `RevokeSession`, `RevokeAllSessions` | `validateSession` and the routes behind it |
| `BeginEnrolment`, `CreateMethod`, `CompleteEnrolment`, `ActivateMethod`, `ReplaceRecoveryCodes`, `FindMethod`, `DisableMethod` | `mfaService` and `routes/mfa.ts` |
| `LockForDisable`, `RevokeForDisable`, `CommitDisable`, `EnableAccount` | `accountSecurityService`; HRMS's deactivation calls the same |
| `LapseChallenge`, `SessionExpires`, `ExpireDueSessions` | time, and the sweep over it (which nothing calls yet) |
| `GiveUp`, `GiveUpDisable`, `Restart` | a refusal, a rollback, a process that stops and forgets its challenges |

The race that `createSession`'s comment argues about is modelled with the lock
explicit, not as one atomic step: an UPDATE sees the rows committed when it
runs, so without the lock a session inserted between `RevokeForDisable` and
`CommitDisable` would survive (`ReadUser`).

**Properties.** `LiveOnlyWhileActive`, `ProofsSpent`, `OneLiveMethod`, and
`ImplementsAccess`.

`LoginThrottle` keeps the failures of the last `Window` ticks, by email and
address, and the callers being tested. `Admit` is the check, `Fail` and
`Succeed` the record after the test, `Refuse` a throttled attempt, which is a
failure too. `GuessesBounded` bounds what overlapping requests can test between
check and record; `NoPermanentLockout` is checked under weak fairness of `Tick`:
time passes, and nothing else is assumed.

## 6. WorkflowDefinitions

**State.** `versions[d]`, the versions of a definition in order, each a status
and a step (or none) per sequence number; `instances`, with the steps each has
run; `calls`.

**Actions.** Every write of `definitionService` is a transaction that first
takes a row's lock: `BeginDraft`, `BeginAddStep`, `BeginUpdateStep`,
`BeginDeleteStep`, `BeginPublish`, `BeginRetire` take it and check, `CommitDraft`,
`CommitStep`, `CommitStatus` write. `BeginStart` is `startWorkflow`'s read of the
latest published version, which takes no lock; `CommitStart` inserts the
instance and reads its first step; `Advance` is the engine reading one step
after the other. `Abandon` rolls back.

**Abstractions.** What a step says is a member of `Content`, told apart by what
`validateStepsForPublish` looks at: whether it is complete and whether it permits
RETURN. The engine's own steps are those of `Workflow`; here an instance only
reads what it will run.

**Properties.** `PublishedFrozen`, and `InstancesRunOneVersion`: an instance may
start on a version that was retired meanwhile, but what it runs is one version,
validated and complete.

## 7. Organisation

**State.** `employees` (the status), `rows` (`employment_assignments` in the
order of insertion, with period, primary or not, and the row it reports to),
`calls`.

**Actions.** `CreateEmployee` (one transaction), `CheckAssignment`,
`CommitAssignment` and `SetStatus` (`createAssignment`: its reads, its
transaction's writes, the status set after it), `BeginEnd`, `CloseAssignment` and
`SetStatus` (`endAssignment`, without a transaction), `GiveUp`. The advisory lock
is held from `CheckAssignment` to `CommitAssignment` by calls that set a
reporting line, and by no others.

**Abstractions.** Permissions are free choices. The columns that place a row in
the organisation, and the row's own status, decide nothing that is modelled.
Dates are `1 .. MaxDate`; the walk up the reporting line is bounded by `MaxHops`,
50 in the code.

**Properties.** `OneOpenPrimary` (the unique index, against ends that close by
id alone) and `LinesPassEachEmployeeOnce`: what the walk and the lock give. They
do not give `NobodyAboveThemselves` (section 11).

## 8. Access and DataVault

`Access` has `account`, `assigned` and `grants`, the three things
`rbacService.authorize` reads by three statements (`ReadPasses`), and an
administrator who changes any of them at any moment (`Administer`).

`DataVault` adds `records`, `versions` and `calls`. No write of the service is a
transaction, so a call is a sequence of actions: `Open`, `Receive`, `FindRecord`,
then `CheckPasses` or `CheckFails` once per statement of `authorize`, for the
ordinary and then the privileged key, then `AddVersion` (with its
`UNIQUE(record_id, version)`), `ReadAgain` and `Update`, or `Archive`; `Create`
and `Answer` end the other two. `Abandon` stops a call anywhere.

**Abstractions.** Classification keeps its order and ceilings; the descriptive
fields are one text. `listRecords` applies the check of `getRecord` to every row
and is not an action of its own.

**Properties.** `CallersEntitled`: what a call changed or was shown, it was
entitled to, each part of `authorize` at some moment since its row was read (a
call may fall between a revocation and its effect, so no more can be asked);
where another update came between, its unique version number keeps the call
from acting on a row it was not checked for. `HistoryKept`: the row and its
versions implement `VersionedRecord`.

## 9. PortalClient and PortalServer

**PortalClient** is one browser: `session`, `active` and the `history` of pages,
what is `selected` and searched, the `cache` behind the tabs, the `panel` on the
screen, `loads` under way, and the decisions sent. An action is a handler of
`app.js` up to its next await. A load remembers the DOM node it fills: a render
detaches it (`Detached`), and an answer for a node that is gone is dropped
(`TakeUp`). `Policy` and `PortalAllowed` are the portal's page rules. A `Click` is
tracked in the history, or is on the one `Breadcrumb` a page draws (to SKL's
page, to People or to SVE's), which leaves the history as it was. The ghost
`known` holds the tasks the user was answered about and that were no longer
pending then; Workflow is seen through `pending`.

Properties: `ShownIsSelected`, `DecidedNotOffered`, `PageAllowed`. No liveness: an
answer may never come.

**PortalServer** is the functions behind it: `accounts`, Identity's `users`,
`decisions`, one controlled `document` with the versions `kept`, and `calls`, each
a sequence of statements that may stop anywhere (`End`). A call is let in by
`Gate` (`resolveLiveSecurityContext`: the cookie names somebody, the account is
read per request), and to a platform service only by the bridge's second look at
`users` (`Forward`). `Bootstrap`, `CreateAccount`, `BeginChange`/`CommitChange`,
`BeginRegister`/`CommitRegister`, `BeginUpdate`/`CommitUpdate`,
`RegisterDocument`, `BeginDocument`/`CommitDocument`/`AddVersion` are the
functions; which one a call is for is its `route`. A decision is registered with
the code and the status its caller supplies (the page sends neither, the server
takes both), or with `NextCode` and an open status: codes that `nextCode` formats
are numbers, `OtherCode` are the rest, in which it reads `NumberOf`. The ghosts `could` and `lost` record which gates stood open since a
call began, and the versions a stopped call did not add.

Properties: `CallersLive`, `DecisionsConsistent`, `CurrentVersionKept`.

## 10. Runs and bounds

| run | question | bounds | distinct states |
|---|---|---|---|
| `workflow_chain` | Do concurrent decisions, completions, reassignments, cancellations and account changes keep one instance consistent, with RETURNs to tasks and to system actions? | 2 users, 1 instance, versions of 3 and 2 steps, 4 tasks | 896,789 |
| `workflow_race` | Do racing starts for one subject and overlapping sweeps break the chain or escalate twice? | 2 users, 2 instances, 1 subject, 2 sweeps, 2 tasks | 400,584 |
| `hrms_approval` | Do submitting, deciding, completing, reviewing and deactivating stay consistent under races, failures and stops, and is every account disabled in the end, and once? | 1 case of any type, 2 requests, 2 workers, 2 instances, 2 reviews | 195,934 |
| `identity_sessions` | Do sign-ins, revocations, enrolments, restarts and disabling keep one account's sessions in step with its status? | 2 requests, 1 administrator, 2 sessions, 1 challenge, 2 methods, 2 codes | 1,288,036 |
| `identity_throttle` | Does the throttle bound wrong guesses across overlapping requests, and let everybody in again? | 2 requests, 2 emails at 1 address, 3 thresholds, window of 3 ticks, 5 rows | 20,719 |
| `definitions` | Is what instances run frozen, whoever edits, publishes, retires and starts at once? | 1 definition, 2 requests, 2 steps of 3 contents, 2 versions, 2 instances | 111,078 |
| `organisation` | Do hires, moves and ends on stale reads keep one open primary assignment and straight reporting lines? | 2 employees, 2 requests, 4 rows, 2 dates | 2,510,274 |
| `data_vault` | Do checks and writes without a transaction keep callers entitled and the history whole while rights change? | 1 user, 1 role, 1 record, 2 requests, 2 entities, 2 versions | 1,587,667 |
| `portal_client` | Is what is drawn, kept and decided what is selected, with answers late or lost? | 1 account, 6 pages (1 of them denied), 2 cases, 1 task, 2 loads, history of 2 | 1,413,706 |
| `portal_server` | Do functions made of single statements keep callers live and rows in agreement? | 2 persons, 2 calls, 2 decisions or 1 document with 2 versions and 2 files, codes 2 and `memo` supplied | 1,965,538 |
| `hrms_resubmit`, `organisation_cycle` | the statements of section 11 | as `hrms_approval`; 3 employees, 1 request, 6 rows, 3 dates | to the first violation |

*Why these are enough to be of interest.* Nearly every race in the code is
between two parties over one row: two users suffice for decide against decide,
against reassign and against disable, two sweeps for double escalation, two
instances and one subject for the unique index. A RETURN needs a step behind it,
a RETURN over a system action needs two; four tasks let an instance be returned
and come forward again. In HRMS the unit of locking is a case, and no operation
touches two: one case of every type, two requests that each hold stale reads,
two workers, a rejected instance followed by a second one. In Identity the races
are between two requests, or a request and an administrator, over one row; one
challenge used by both is the interesting case, and two sessions let one be open
while another is inserted. The thresholds keep the proportions of the code: the
first wait is shorter than the window, the last is longer. Two versions of one
definition are a published one and its successor. Two employees with four rows
are enough for two transitions on one read and for a line that would come back;
the cycle through current assignments takes a third employee to be possible, so
it has a run of its own. In the Data vault an update that moves a record and one
that raises its classification meet each other and a change of rights. In the
page two loads under way are an old one and a new one, two cases are what is
left and what is opened; two entries of history allow Back after a denial. SKL's
and SVE's pages with the projects below them are there for their breadcrumbs,
the executive page, which SVE's links to, is the denied one. The breadcrumb to
People is not taken, as that page is not among the visited, and the directory is
opened without a search text: both are in the module and in the proofs. Two
decisions are the last row and the one whose code follows it; a document takes
the room of both (`Room`), so registrations and documents do not multiply, while
two calls still overlap on either. The one change of an account demotes and
deactivates it, which closes every gate.

`MaxTasks`, `MaxInstances`, `MaxReviews`, `MaxMethods`, `MaxCodes`,
`MaxAttempts`, `MaxRows`, `MaxVersions`, `MaxVersion`,
`MaxLoads` and `MaxHistory` stop the creation of rows and entries; `MaxCount`
only saturates ghost counters, above the values the properties distinguish.
`HireDates` bounds the dates of first assignments. Symmetry is used in the runs
without liveness, over ids no definition tells apart.

`CHECK_DEADLOCK FALSE` is set where the system may stop: a case that is over with
its request processed (`hrms_*`), the bounds on rows and versions reached with
no call under way (`organisation*`, `definitions`, `data_vault`).

## 11. What the code does not keep

Two statements of the repository's own documents that TLC finds violated;
`PROJECT.json` (`findings`) quotes both sides.

| run | property | the code or its documents say | what happens |
|---|---|---|---|
| `hrms_resubmit` | `RejectionCountsOnce` | the link is "overwritten on a later resubmission after a rejection" | the resubmission sees the old link and starts nothing; the old rejection sends the case back again |
| `organisation_cycle` | `NobodyAboveThemselves` | the walk "returns true if `employeeId` is ever encountered — i.e. the employee would end up (directly or transitively) reporting to themselves" | it follows the rows as they were inserted, not the current assignments of the employees it meets: A and B end up above each other |

Seen while modelling, allowed by the code and represented in the modules as it
is; no run claims a disagreement:

* *Workflow.* A reassignment or an escalation checked on a PENDING task and
  committed after its decision rewrites the COMPLETED row (`reassign` updates by
  id alone). A decision commits after the decider's account was disabled. A RETURN to a system
  action that is done comes straight back. An instance that finds no approver
  is FAILED and linked, and its case waits until it is closed by hand.
* *HRMS.* Two closings of one case both commit: `completed_at` and the outcome are
  written again. A failed attempt is written into a request that another worker
  COMPLETED meanwhile. `POST /cases/:id/complete` closes cases of any type
  without ending the employment. A slow submitter may link an instance that is
  over; a case completed directly while its approval is pending leaves that
  instance ACTIVE, and approving it fails from then on.
* *Identity.* Requests that overlap may share one MFA challenge or one recovery
  code, and an enrolment that overlaps its own disabling may undo it. The
  `Retry-After` a throttled caller gets does not suffice: refusals count as
  failures and keep the window full.
* *Organisation.* The employee's status and the open assignment's may disagree,
  as the former is set after the transaction; an employee who is live may be left
  without an open assignment.
* *Data vault.* A stop between `addVersion` and `update` leaves a snapshot of the
  current version, after which the unique number refuses every update. An
  update whose input says `Archived` is checked against the update keys only.
* *Portal.* Directory answers arrive out of order and show an older search. A
  tool that opens late replaces whatever the screen has become, and the redraw
  after a decision then throws. Nothing keeps a probation decision from being
  sent twice. PATCHes of accounts and decisions write what they read, so one of
  two is lost. A stop between the two writes of a document leaves its new
  version without history. Two first administrators may be set up at once. A
  decision registered as Closed has no closing date. `nextCode` goes by the last
  row and not by the highest number: once a higher code was supplied and a lower
  one after it, the computed code comes to one that exists, and every further
  registration without a code is refused by the unique column, until somebody
  supplies another.

## 12. Proofs

Forty-four theorems are listed in `PROJECT.json`. Each holds for all constants
that satisfy the assumptions of its module, and between them they state every
property of section 10's passing runs but two, which are about liveness.

`WorkflowProofs`, from `NoneAssumption`, `BoundAssumption` and `StepsAssumption`
(None is no id; the bounds are naturals; every version passed
`validateStepsForPublish`):

| theorem | statement |
|---|---|
| `InvariantHolds`, `OrderHolds` | `Spec => []IInv`, `Spec => []JInv` |
| `TypesHold` | `Spec => []TypeOK` |
| `OnePendingTaskHolds` | `Spec => []OnePendingTask` |
| `DecisionsHold` | `Spec => [](DecisionsMatchTasks /\ DecidersEntitled)` |
| `DecidersEntitledHolds` | `Spec => []DecidersEntitled` |
| `SystemActionsOnceHolds` | `Spec => []SystemActionsOnce` |
| `CompletionJustifiedHolds` | `Spec => []CompletionJustified` |
| `HistoryIsFinalHolds` | `Spec => HistoryIsFinal` |
| `EscalatedOnceHolds` | `Spec => EscalatedOnce` |
| `EngineImplementsChain` | `Spec => ImplementsChain` |

`HrmsProofs`, from `HrmsBoundAssumption` and `HrmsNoneAssumption` (bounds are
naturals, ghosts count to two at least, None is no case and no type):

| theorem | statement |
|---|---|
| `HrmsInvariant` | `Spec => []IInv` |
| `HrmsTypes` | `Spec => [](TypeOK /\ InstancesOfCases /\ QueuedAreRequests)` |
| `AllOrNothingHolds` | `Spec => []AllOrNothing` |
| `ApprovalTakesEffectHolds` | `Spec => []ApprovalTakesEffect` |
| `ReviewsInOrderHolds` | `Spec => []ReviewsInOrder` |
| `TerminalStaysHolds` | `Spec => TerminalStays` |
| `ProcessedOnceHolds` | `Spec => ProcessedOnce` |
| `HrmsImplementsChain` | `Spec => ImplementsChain` |

`IdentityProofs`, from `IdentityBoundAssumption` and `IdentityNoneAssumption` (ids
are distinct from None, no administrator is a request); the last two are about
`LoginThrottle`, which the module extends as well, and rest on
`ThrottleAssumption` (a window of a tick at least, finitely many requests,
thresholds and waits that ascend):

| theorem | statement |
|---|---|
| `IdentityTypes` | `Spec => []TypeOK` |
| `LiveOnlyWhileActiveHolds` | `Spec => []LiveOnlyWhileActive` |
| `ProofsSpentHolds` | `Spec => []ProofsSpent` |
| `OneLiveMethodHolds` | `Spec => []OneLiveMethod` |
| `ImplementsAccessHolds` | `Spec => ImplementsAccess` |
| `ThrottleTypes` | `ThrottleSpec => []ThrottleTypeOK` |
| `GuessesBoundedHolds` | `ThrottleSpec => []GuessesBounded` |

`OrganisationProofs` (bounds are naturals, hire dates are dates, None and ABSENT
name nothing else) and `DefinitionsProofs` (bounds are naturals, the classes of
contents are contents, None is none of them):

| theorem | statement |
|---|---|
| `OrganisationTypes` | `Spec => []TypeOK` |
| `OneOpenPrimaryHolds` | `Spec => []OneOpenPrimary` |
| `LinesPassEachEmployeeOnceHolds` | `Spec => []LinesPassEachEmployeeOnce` |
| `DefinitionTypes` | `Spec => []TypeOK` |
| `PublishedFrozenHolds` | `Spec => PublishedFrozen` |
| `InstancesRunOneVersionHolds` | `Spec => []InstancesRunOneVersion` |

`DataVaultProofs`, `PortalServerProofs` and `PortalClientProofs`, from the one
assumption of each model (bounds are naturals, inputs are inputs of the
declared kinds, None is none of the values it stands beside) and, for the
first, `AccessAssumption`:

| theorem | statement |
|---|---|
| `DataVaultInvariant`, `DataVaultTypes` | `Spec => []IInv`, `Spec => []TypeOK` |
| `CallersEntitledHolds` | `Spec => CallersEntitled` |
| `HistoryKeptHolds` | `Spec => HistoryKept` |
| `PortalServerInvariant` | `Spec => []IInv` |
| `CallersLiveHolds` | `Spec => []CallersLive` |
| `DecisionsConsistentHolds` | `Spec => []DecisionsConsistent` |
| `CurrentVersionKeptHolds` | `Spec => []CurrentVersionKept` |
| `PortalClientInvariant` | `Spec => []IInv` |
| `ShownIsSelectedHolds` | `Spec => []ShownIsSelected` |
| `DecidedNotOfferedHolds` | `Spec => []DecidedNotOffered` |
| `PageAllowedHolds` | `Spec => []PageAllowed` |

*The argument, Workflow.* `TypeOK` and `OnePendingTask` are not inductive. A
commit acts on a call recorded earlier, so the invariant has to say what the
checks of that call established and what of it survives: `CallsAdmitted` says
the task's kind, the permitted decision and the bar on self-approval still hold,
because the columns they rest on (a task's instance, step and candidates, an
instance's version and subject actor) are never written again (`Stable`,
`CallsKept`). That is exactly the difference between what is proved and what
section 11 reports: `assignee` and `active` are written by others. `TablesOK`
ties tasks to instances (references, a step within the version that has a task,
one PENDING task at most, on the current step), `Waits` says an ACTIVE instance
has one, `NoEarlyDecision` that a row not yet created has no decision.

Every action that moves an instance goes through `Activate`, which leaves one
of three marks: a task is created, routing fails, or the instance ends
(`ActivationMarks`). `ActivationKeepsTables` shows that each mark keeps the
tables in order when the triggering task has been closed; `SystemActionsKept`
that the executions and their effects stay matched over any stretch of
actions. Then one lemma per action, `NextInvariant`, and the theorems.

`CompletionJustified` speaks of the last word on each step, since a RETURN may
have one decided again, so it needs the order of an instance's tasks as well:
`JInv` adds `LatestTask`, the PENDING task of an instance is the last it was
given, and rows not yet created are blank. `Trace` is what a stretch of
activation leaves behind: every step between the one that was left and the one
entered is a system action that is executed. `HistoryIsFinal`
and `EscalatedOnce` follow step by step from `IInv` (`HistoryKept`,
`EscalatedStay`). For the refinement a marker is the status, version, subject
and step of an instance (`MarkerAt`); activation is one `Advance` over the system
actions it passes, and what only touches tasks or calls is a stutter.

*The argument, HRMS.* A request carries the id of a case, a review or an
instance from one transaction to the next. `CallsHold` says that the row still
exists and is that case's: none is ever deleted or changes its case
(`RowsSurvive`). `InstancesOfCases` and `OneActive` are what links, submissions
and the unique index keep between cases and instances; `QueuedAreRequests` is
the same for the workers. With these, `AllOrNothing`, `ApprovalTakesEffect` and
`ReviewsInOrder` are inductive together: the change of assignment, the
completion and the request are written by the one transaction that finds the
case open under its lock. `ProcessedOnce` follows step by step: `Process` looks at
the request again under the lock, and what a failure writes is no status. `ReviewsBegun` excludes a probation case that has no
review to decide. In the refinement only `Start` and the three decisions
move a marker; the links, stale or not, are not part of it.

*The argument, Identity.* `LiveOnlyWhileActive` needs what the lock gives
(`LockHeld`): a request about to insert holds the row and still sees the account
active; an administrator about to commit holds it, and every session that lives
by then is among those revoked, as none can be inserted meanwhile. `ProofsSpent`
needs what a sign-in carries (`Carries`): from the moment its code is accepted,
its challenge is gone and its recovery code used or deleted, and both stay so
(`SpentStays`). Most steps only move one request on (`CallMoves`) or only close
sessions (`SessionsClose`); the rest have a lemma each. For the refinement,
`InsertSession` is `Open`, `CommitDisable` is `Disable` because nothing lives
outside what it revoked, revocation and expiry are `Close`, and every other step
is a stutter.

*The argument, throttle.* `GuessesBounded` counts rows that are recorded, while
the check admits requests whose rows are yet to come. `TInv` bounds the sum, for
one email and for one address: rows of wrong passwords plus tests under way. A
request is admitted only below the first threshold (`NoBackoff`: a wait of 0
means no threshold is reached), when there are at most as many tests as
requests; a failure moves one from the second count to the first (`EndedTest`,
`Recorded`). Rows leave from the front of the table, which are the oldest
(`OldestFirst`), so those that remain are among those there were (`TickInv`).

*The argument, Organisation.* A call holds a row it read earlier (`CallHolds`): it
is still a primary row of that employee, though perhaps closed meanwhile. What a
commit inserts next to it is then the only open one: either the row it closes was
the open one, or the index refuses the INSERT. Closing changes nothing but an end
date (`ClosedRows`), an INSERT nothing but the end of the table (`AppendedRows`).

`LinesPassEachEmployeeOnce` is about the walk up the superiors, a recursive
function over hops. What a line is, is shown by induction over them, through the
least number at which two lines could differ (`LeastNumber`, from
`NatLessThanWellFounded`): `ClimbExists`, `LineSteps`, `LinesKept` (rows already
there keep their lines when the table grows) and `LineAbove` (the line of a new
row is that of its superior, one hop on). `StillClear` says what the check of a
call established about the superior it chose, and that nothing committed since
takes it back: a row's superior is never written again. Hence the advisory lock
has no part in this property; what it would have to prevent, and what the walk
does not see, is `NobodyAboveThemselves` (section 11).

*The argument, definitions.* `Exclusive`: a version's lock has one holder.
`Holds`: a call that holds the lock of a DRAFT still finds it a DRAFT, and one
that publishes still finds the steps it validated, since only the holder writes
them (`RowReplaced`); a start holds no lock, but the version it read has left
DRAFT, and what left DRAFT is frozen. `FrozenIsValid` is what makes
`InstancesRunOneVersion` inductive. The same induction gives `FrozenStays` for
every step, hence the action property.

*The argument, Data vault.* No write is a transaction, so what keeps a history
whole is one unique index. `VersionsFit`: every version below the row's is kept,
none above, and the row's own, if kept already, as it is. `ReadFits`: the row a
call has read is the record's, or one that was replaced under a higher number.
A call that got past the index (`Merging`) therefore still has the record's row,
and is alone with it (`OneMerges`). `Checked` and `SeenNow` tie the checks a call
has passed to what its caller held since the row was read. The refinement maps
a record and its snapshots to one history (`HistoryOf`): `Create`, `Update` and
`Archive` add to it, every other step is a stutter, a snapshot by itself
included.

*The argument, portal functions.* `CallsSeen`: every gate that is open to the
caller now is among those that were, so the ghost cannot miss one; with what
each stage has passed this is `CallersLive`. `RowsHold`: what a handler computed
from a stale row is still a row that may be written there, because a row's code
and position never change, an update writes status and date together, and a
registration writes no date. A computed code stays justified while its call
waits, as the row it follows stays in the table; that it is unique is left to
the column.
`WritesKeepHistory`: a call that will put a document back without adding a
version puts back one whose history exists, or is under way, or was cut off.

*The argument, page.* `LoadsFit` says of every request under way whose node is
still on the screen that it is for what is selected there, and that the tasks it
was answered with hold none the user was told is over. `KnownOver` is what the answers to decisions tell. `PageAllowed` needs the whole
history (`HistoryAllowed`, `SklAllowed`): Back returns to entries made earlier,
and to SKL's page when the context was entered; and it needs `SignedOut`, that
nothing of one session is left for the next.

*Model-checked only.* `RequestsProcessed` and `NoPermanentLockout` are liveness
under fairness, which is out of the prover's reach, and the two runs that end in
a violation have nothing to prove. The two liveness properties are checked for
one case with two workers and for two requests with a window of three ticks.

## 13. Faulty variants

A definition that nothing uses, placed before the one it resembles, is that
definition with a plausible mistake in it (`Enter` alone is also what `Go` does
once the page is allowed). Substituted for the original, it makes the named
property fail, which shows the property depends on that line of the code.

| variant | for | mistake | property |
|---|---|---|---|
| `CompleteInstancePastTheEnd` | `CompleteInstance` | the step is incremented instead of cleared | `TypeOK` |
| `CancelInstanceRow` | `Cancel` | the task is not cancelled with its instance | `OnePendingTask` |
| `BeginAnyDecision` | `BeginDecide` | permitted decisions are not checked | `DecisionsMatchTasks` |
| `EligibleAsAssignee` | `Eligible` | an assignee may decide a ROLE task | `DecidersEntitled` |
| `ExecuteSystemActionsAgain` | `ExecuteSystemActions` | SUCCEEDED executions are not skipped | `SystemActionsOnce` |
| `ReachesAnyLaterStep` | `Reaches` | steps with tasks are passed over | `CompletionJustified` |
| `StillThere` (Workflow) | `StillPending` | no `AND status = 'PENDING'` | `HistoryIsFinal` |
| `UnclaimedWhilePending` | `Unclaimed` | tests the status, not `escalated_at` | `EscalatedOnce` |
| `OccupiedOnceCompleted` | `Occupied` | the index covers the wrong status | `ImplementsChain` (Workflow) |
| `CreateDraft` | `Create` | the draft is committed | `TypeOK` (HRMS) |
| `MayBecomeAnything` | `MayBecome` | no CHECK on the terminal timestamps | `TerminalStays` |
| `StillThere` (HRMS) | `StillOpen` | no check under the row lock | `AllOrNothing` |
| `ApproveRegardless` | `Approve` | the handler's error does not undo the approval | `ApprovalTakesEffect` |
| `UndecidedOrDecided` | `Undecided` | no `AND review_status = 'PENDING'` | `ReviewsInOrder` |
| `ProcessAsListed` | `Process` | the listed request is not looked at again under the lock | `ProcessedOnce` |
| `RecordFailureForGood` | `RecordFailure` | a failure moves the request to FAILED, as an earlier revision did | `RequestsProcessed` |
| `ApprovedFor` | `WaitingFor` | the index covers the wrong status | `ImplementsChain` (HRMS) |
| `DeleteMethod` | `DisableMethod` | the row is deleted, not marked | `TypeOK` (Identity) |
| `ReadUser` | `LockUser` | the users row is read without FOR UPDATE | `LiveOnlyWhileActive` |
| `KeepChallenge` | `ConsumeChallenge` | the challenge is not deleted | `ProofsSpent` |
| `NoOtherActive` | `NoOtherLive` | the index leaves out pending methods | `OneLiveMethod` |
| `EnableWithSessions` | `EnableAccount` | enabling restores revoked sessions | `ImplementsAccess` |
| `AgedWithoutEnd` | `Aged` | rows are never left out of the count | `ThrottleTypeOK` |
| `FailuresByEmail` | `Failures` | the address is not counted | `GuessesBounded` |
| `AgedAtMost` | `Aged` | rows stay at the edge of the window | `NoPermanentLockout` |
| `CloseAssignmentAnyTime` | `CloseAssignment` | no CHECK on the period | `TypeOK` (Organisation) |
| `MayInsertAny` | `MayInsert` | no unique index on open primary rows | `OneOpenPrimary` |
| `ReportsDirectly` | `ReportingChainReachesEmployee` | only the immediate superior is looked at | `LinesPassEachEmployeeOnce` |
| `AdvancePastLast` | `Advance` | the engine goes on past the last step | `TypeOK` (definitions) |
| `BeginPublishUnchecked` | `BeginPublish` | steps are not validated | `InstancesRunOneVersion` |
| `LockRowUnlocked` | `LockRow` | the version is read without FOR UPDATE | `PublishedFrozen` |
| `AddVersionNext` | `AddVersion` | the snapshot gets the next number | `TypeOK` (Data vault) |
| `ChecksOnCurrentOnly` | `Checks` | the record as it would become is not checked | `CallersEntitled` |
| `AddVersionTwice` | `AddVersion` | no UNIQUE(record_id, version) | `HistoryKept` |
| `TakeUpAnywhere` | `TakeUp` | data is kept though the node is gone | `ShownIsSelected` |
| `DecidedKeepsPanel` | `Decided` | the list is not drawn again | `DecidedNotOffered` |
| `Enter` | `Go` | the page is entered unasked | `PageAllowed` |
| `GateByRole` | `Gate` | the account's status is not looked at | `CallersLive` |
| `UpdatedKeepingDate` | `Updated` | reopening keeps `closed_at` | `DecisionsConsistent` |
| `AddsVersionOfNewFile` | `AddsVersion` | only a new file adds a version | `CurrentVersionKept` |

## 14. Limits

* READ COMMITTED is taken at the granularity of one transaction per action where
  a service uses one: row locks, WHERE clauses on the updated row and unique
  indexes are modelled, and transactions of one row serialise. Interleavings of
  statements inside two transactions that share no row are not. Services without
  transactions have an action per statement.
* Audit and event tables are left out unless a property counts them.
* The connection pool is not modelled: services that use the pool from inside a
  transaction can wait for each other when it is exhausted
  (`instanceEngine.ts:55`, a hazard without a property).
* Outside `DataVault`, permissions, classification and entity scope are free
  choices. What Workflow and Organisation ask of `authorize` is the same
  procedure.
* Time is ticks in `LoginThrottle`, a free choice elsewhere (due dates, expiry);
  signatures and expiry of the portal's cookie are not modelled.
* Not modelled: HRMS milestones (they gate nothing; a failure between the status
  and its event leaves only the trail behind), the links between employees and
  accounts (`linkIdentity`, `unlinkIdentity`: two unique indexes), the tables of
  units, departments and positions, the installation of HRMS's own workflow
  definitions at start-up when it is interrupted, the generic records of
  `portal-data.mts`, visibility of documents, and all queries that only read.
* `apps/executive-briefing` is a static presentation: fixed content, and which
  screen, stage or accordion is open. It has no backend and no storage. The
  Data vault's page (`apps/svegip/data-vault/index.html`) and style sheets are
  layout. Packages are types; infrastructure and CI are scripts; the README-only
  services (`accounting`, `audit`, `core`, `documents`, `iclaims`,
  `notifications`, `payroll`) have no code.

## 15. Plan

What is left, in order.

1. The connection pool: transactions that ask for a second connection while
   they hold the first (`instanceEngine.ts:55`), and whether they can all wait.
2. The links between employees and accounts beside the assignments
   (`linkIdentity`, `unlinkIdentity`), and the milestones of HRMS.
3. Two cases of one employee in `HrmsLifecycle`: `AllOrNothing` and the requests
   to deactivate when they share an account.
