# WorkNest in TLA+

WorkNest is a multi-tenant task manager: an Express 5 / Mongoose API over
MongoDB (`src/api`), a React client (`src/web`), browser tests (`src/e2e`) and
documentation. This directory holds TLA+ models of the API's own logic and of the way
the client calls it, the TLC runs that check them on small workspaces, and theorems
TLAPS proves about them for workspaces of any size.

## 1. The system

A request passes `authenticate`, `resolveTenant` (404 without a membership),
`enforcePlanState` (expires the plan if it is due, refuses growth while over a
limit) and then a router; the router calls one function of a service. The Razorpay
webhook enters outside the tenant. Several servers may run: they share only the
database. Sweeps run on timers in every server under a lock document per
job (`lib/jobLock.ts`). A service function usually reads some documents, then
opens a MongoDB transaction with `withTransaction`, whose callback is run again
after a write conflict.

| Component | State it keeps | Operations | Interacts with | What makes it correct |
|---|---|---|---|---|
| projects (`projects.service`) | life (live, bin, gone), archive mark | create, archive, unarchive, bin, restore, delete, purge sweep, restore or keep what the plan archived | slot counter of the organization, tasks | the counter equals the projects that take a slot; no slot over the plan; only what is in the bin is deleted |
| tasks (`tasks.service`) | life, archive mark, status | create, edit, complete, reopen, archive, unarchive, bin, restore, delete, purge sweep | project (slot), plan (task limit) | no more open tasks than the plan allows; no task without a project |
| organizations (`orgs.service`) | plan, limits, projectCount, seatsUsed, adminCount, plan dates, scheduled plan | create, change plan, slot bookkeeping | everything | usage fits the plan that was chosen |
| plan life cycle (`planLifecycle`) | the plan dates | expire, activate a scheduled plan, refuse growth | payments, grace period | a plan that ended is Free, one that was paid becomes active |
| grace period (`gracePeriod.service`) | graceEnforcingAt, graceEnforcedAt, graceArchived | claim, archive the excess, record, again | projects, tasks, plan | ends within the Free plan, eventually; what is said to be archived was |
| payments (`billing.service`, `razorpay`, `constants/plans`) | payment: status, applying claim, appliedAt, refund | quote, order, confirm, webhook, apply, refund, cancel a schedule | changePlan, Razorpay | one payment is applied once or refunded, never both; credit is neither lost nor made |
| seats (`invites`, `members`) | invites, memberships, seatsUsed, adminCount | invite, accept, decline, revoke, expire, remove, role, recount | accounts, departure | counters equal what they count; one administrator at least |
| accounts and sessions (`auth.service`) | session families, registrations, reset and e-mail links | register, verify, log in, refresh, log out, revoke, reset, change address, delete | invites, organizations | an ended family stays ended, a link works once and for what it was sent |
| departure (`departure.service`) | none | clean-up of groups and meetings | chat, meetings | nothing is left without an owner |
| chat (`chat.service`) | group members and admins, messages, previews, read marks | create, add, remove, send, edit, delete, react, read, clear, retention | departure, realtime hub | a group has an admin while it has members; the list is true |
| meetings (`meetings.service`) | organizer, attendees, proposals | create, edit, cancel, respond, propose, hand over | departure, notifications | a response is not lost; the organizer attends |
| notifications, plan reminders | notices with an event key | sweep, dismiss | tasks, projects, plans | one notice per person and event; what was sent away stays away |
| discussions (`taskActivity.service`) | threads, answers, reminder claim | post, reply, answer, remind | notifications | whoever is addressed is told; a thread between some stays there |
| job locks (`jobLock`) | lockedUntil | claim | all sweeps | one server per claim; nobody blocked for long |
| web client (`web/src/api/client.ts`) | wake-up attempt, refresh promise, access token | call, wait, retry, renew, cancel | sessions | nothing is carried out twice; every call ends |
| tenancy, roles | none | filter, permission predicates | everything | no access across tenants |
| migrations | none | recounts at startup | counters | a recount agrees with concurrent requests |

Dashboard, audit, preferences, realtime hub, infrastructure and browser
tests keep no state a property would be about. `PROJECT.json` lists every part with
its status, and under `hazards` each place where this code is hard to test.

The hard behaviours are of one family: a document is read, then an `await` lets
anything happen, then something is written that presumes the document has not
changed. Transactions protect what a callback *writes* (two callbacks that
write one document conflict) and not what it *reads*; reads before the
transaction are protected by nothing; and a process may stop between any two
writes that are not in one transaction.

## 2. Modules

Each component has a module of its own, with its state, one action per operation or per
database call, and its properties. `MC` modules give TLC small instances; some of them look at
several components in one run, one after the other, chosen by the initial state (`side`, or the
empty mix of operations for all but one).

| Module | Models | TLC | TLAPS |
|---|---|---|---|
| `PlanUsage` | projects and tasks of one workspace against the limits of its plan, as concurrent transactions | `MCPlanUsage` | types and all its properties but liveness, some under conditions (`PlanUsageProofs`) |
| `Payments` | orders, confirmation, webhook, apply claim, crashes, refunds, scheduled changes, expiry and activation | `MCPayments`, `MCPlans`, `MCSweeps` | types, money, refinement (`PaymentsProofs`) |
| `Purchase` | what a payment promises: held money is used or returned, for good | as a property of `Payments` | with it |
| `Quotes` | prices, credit and calendar (`constants/plans.ts`) | `MCPlans` | types, credit and list prices (`PlansProofs`) |
| `Reminders`, `PlanNotices` | due-date reminders, renewal notices | `MCPlans` | types and all their properties (`PlansProofs`) |
| `Seats` | invites, memberships, seat and administrator counters, recount, founding and deletion of accounts | `MCSeats` | types and all its properties (`SeatsProofs`) |
| `Groups`, `Meetings` | group chats and meetings, and the people who leave them | `MCPeople` | types and all their properties (`PeopleProofs`) |
| `Messages`, `Discussions` | chat messages with preview and marks, threads on tasks and projects | `MCTalk` | types and all their properties (`TalkProofs`) |
| `Sessions`, `Links` | refresh families, links of reset, sign-up and change of address | `MCAccounts` | types and all their properties (`AccountsProofs`) |
| `JobLock` | the lock of a sweep over time | `MCSweeps` | types and both properties (`ServersProofs`) |
| `GracePeriod` | the hold on a workspace whose grace ended, its record, the sweep | `MCSweeps` | types and the record (`ServersProofs`) |
| `ApiClient` | the calls of one browser tab | `MCSweeps` | types and order (`ServersProofs`) |

What is left to prove is in the list at the end of section 5.

## 3. The models

### `PlanUsage`

`db` maps every document to its committed value: a project to its life and
archive mark, a task to life, mark and status, the organization to plan and slot counter.
`aged` is the set of documents that have been in the bin for longer than
`BIN_RETENTION_DAYS`. `req[r]` is what request `r` is doing:

* `Idle`;
* `Checked`: it has read its document outside a transaction, and `counts` is what
  it concluded from it (`counts` in `unarchiveTask` and `restoreTask`);
* `Running`: its callback has read a snapshot, which fixes the documents it writes and
  their values (`writes`) and the open tasks it counted (`open`). `plans` holds the
  plans `getPlan` may see, because that query is outside the session.

One action per operation starts a callback (`CreateProject`, `ArchiveProject`, ...,
`CreateTask`, `UpdateTask`, ...); `Commit` installs the writes and sends every running
request that writes one of the same documents back to the start of its callback: MongoDB's
write conflict and the retry of `withTransaction`. `Abort` is a refusal, a failure or
the end of the process: nothing of a transaction is left. `SlotWrites` is
`syncProjectSlot` with the revision bump of `projectConsumesSlot` (`Lock`), the code's way to
turn a read of many tasks into a write conflict. `ExpirePlan` is one conditional
update. The sweeps are two steps: find in the bin, then destroy.

Which projects and tasks `archiveExcessForFree` keeps and which tasks come back first the code
chooses by recency or by the user's order; here they are any, so the checks
hold for every order. Editing a task's other fields is `editTask`: it takes the
same lock and leaves the status.

Left out: names, assignees, due dates, audit records and notifications (written in the
same transactions, read by no guard here), permissions, the checks of
`enforcePlanState` before a request (they refuse more and are themselves reads before a
transaction), the recount at startup.

### `Payments` and `Purchase`

`org` holds the subscription (`plan`, `planExpiresAt`, and in `credit` which purchase set the
credit fields, which no two purchases set alike), `planExpiredFrom` and the schedule. `pay[p]` is
the payment document: status, the stored order with the subscription its quote was made for,
the apply claim, `appliedAt` and the refund status. `bank[p]` is Razorpay: what it
holds, under which receipts it has refunded, and whether a webhook was answered with 200.
`req[r]` is a request or sweep at one of its steps. `bought` is history: how often a
payment has moved the plan.

A `findOneAndUpdate` or a transaction is one step, because here every transaction matches
in its writes what it decides by; everything between two of them is a place where others run or the
process ends. `ReportPaid` and `ReportMismatch` are the two branches of `applyPaidOrder`;
`ClaimApply`, then `expirePlanIfDue` (`ActivateScheduledPaidPlan`, or `FindEnded` and
`ExpirePlan`), `ReadBilling`, and one of `RejectQuote`, `SchedulePaidPlan`, `ChangePlan` are
`applyPayment`, which ends in `MarkApplied`, in a refund, or in `ReleaseClaim`. The three
handlers that refund share `Refund` and differ in receipt and record. `CancelScheduledChange`,
`ClaimCancelRefund`, `ClearSchedule` are `cancelScheduledChange`.

Time is counted in terms (`now`), so that an order can be quoted in one term, paid in the next and
applied after its plan has ended. The two stale claims (two and five minutes) are not tied to that
clock: a claim nobody holds may become overdue at any time, and with the fault `"stall"` also one
that a slow process still holds. `Faults` names what goes wrong in a run: `"crash"` (a process
ends at any step and restarts), `"stall"`, `"refundFails"` (no answer from Razorpay; the money may
have gone back), `"error"` (any other failure in `applyPayment`, a usage over the plan's limits
among them).

`Purchase` is the abstract specification: money that is held is used or returned, and then that is
final. Left out: plans without an end date, reminders and audit records, the test controls; prices
and the second billing cycle are in `Quotes`.

### `Quotes`

`quotePlan`, `addBillingPeriod` and the application of a quote for one administrator at a time.
`RenewalQuote`, `UpgradeQuote`, `CycleQuote`, `PrepaidQuote` are the four branches of `QuotePlan`;
`ApplyLate`, `SchedulePrepaid`, `ApplyPaid`, `RefundStale` what `applyPayment` may do with the
money; `Activate` and `PlanEnds` the life cycle. `owed` is history: what was captured and not given
back, less the value of the time gone by. Days and rupees stand for milliseconds and paise, with
the same rounding. The calendar is a constant, the first day of each month: `QuotesAssumption` says
what a month and a year can be long, and `AddBillingPeriod` finds the month and ends on its last day
where the later one is shorter.

### `Seats`

`db` holds organizations (seat limit, `seatsUsed`, `adminCount`), memberships, invites and
accounts; `overdue` the invites whose date has passed; `req[r]` a request that has read something
(`Known`) or runs a transaction with the `writes` its snapshot led to. As in `PlanUsage`, `Commit`
installs writes and restarts whoever writes the same documents. `ListPendingInvites`,
`CreateInvite`, `AcceptInvite`, `DeclineInvite`, `RevokeInvite`, `RemoveMember`,
`ChangeMemberRole`, `CreateOrg`, `ChangePlan`, `ReconcileSeats` (the recount),
`VerifyRegistration` through an invite, `ChangeEmail` and `DeleteAccount` are the actions.

### `Groups` and `Meetings`

Nothing here runs in a transaction: every database call that matters is a step. A request of
`Groups` reads the group (`FindToAdd`, `FindToRemove`, `FindGroups`), may read the memberships
(`RequireOrgMembers`) and then updates what it read (`AddConversationMembers`,
`RemoveConversationMember`, `TidyGroup`). `standing` follows a person through `removeMember` and
the clean-up. `Meetings` has the organizer's edit (`FindToUpdate`, `UpdateMeeting`), the answer
(`RespondToMeeting`), a proposal in its two updates (`PullProposal`, `PushProposal`), and the
departure of a person (`Depart`, `Uninvite`, `FindOrganized`, `HandOver` or `CancelOrganized`).
`answered` is history: the time each answer was given for.

### `Messages` and `Discussions`

Messages are numbered by their `createdAt`, which the server sets before it inserts them. `conv`
is `lastMessageAt` and `lastMessage` of the conversation, `mine[u]` the member's `clearedAt` and
`lastReadAt`, `stored` the uploads. Each request is a chain of database calls: `CheckSend`,
`StampMessage`, `InsertMessage`, `AnnounceMessage`; `FindToEdit`, `EditText`, `FindLatestEdited`,
`EditPreview`; and so on. `ListedPreview` and `CountUnread` are what `listConversations` and the
badge show. `CheckSend` guards only by what `sendMessage` looks at: that no message has the file.
Whether it is still in storage is not asked (`fetchUploadedSize` has no size for a file that is gone,
and no size is let pass). A mark or a clear is two steps: the date is fixed (`MarkConversationRead`,
`MarkConversationUnread` with its `Message.findOne`, `ClearConversationForMe`) and then written
(`WriteReadUpTo`, `WriteCleared`). `Discussions` has the threads of a task, a project or of all projects: `Prepare` is
`recordActivity` up to its transaction (`PlanNewMessage`, `Recipients` fix who is told),
`RecordActivity` the transaction; `MarkAnswer`, `ClaimReminder`, `RemindWaiting` the other
handlers, and `LoseMember`, `Reassign`, `FinishWork`, `DestroyPlace` what others do meanwhile. The
reads of one request before its transaction are one step.

### `Sessions` and `Links`

`token` are the `Session` documents in order of creation, `cookie` and `screen` what each browser
has and shows. A refresh is a transaction (`BeginRefresh`, `CommitRefresh`) which starts over if
its token was written; `updateMany` is not, and finds (`FindSessions`) before it revokes
(`RevokeFound`). `Links` follows every link from `Issues` over the email to its use, for a new
password, a change of address and a sign-up, with emails that fail (`TakeBackReset`,
`RestoreChange`, `DropSignup`, `PutBackSignup`). `Saved` is Mongoose's `save`: only the fields
that differ from what was read. An email that fails is taken as not delivered, and a sign-up link that
is put back keeps its age (`auth.service.ts:199` has given it a fresh hour); no property depends on
how old a stored link is.

### `Reminders` and `PlanNotices`

`ensureMyDueNotifications` reads the membership, then the tasks, then dismisses, then writes
(`ReadMembership`, `ReadDue`, `DismissToday`, `DismissOverdue`, `WriteReminders`), beside new due
dates, completion, archival, assignment and changes of role. `note` is keyed by `eventKey`.
`PlanNotices` has the three calls of `sendPlanRenewalReminders` for each administrator
(`FindNotice`, `DeleteNotice`, `CreateNotice`). `term` is the end date of the plan, the stage it is at
and the purchase (`deal`) it was last changed by; a notice keeps all three. The plan moves in four
ways: time passes (`TermAges`); `changePlan` sets a new end date and deletes the notices (`RenewPlan`);
`changePlan` keeps the end date, as for an upgrade within the cycle, and deletes them as well
(`UpgradePlan`); a plan that was paid for ahead begins, and no notice is deleted (`ActivatePlan`).

### `GracePeriod`, `JobLock` and `ApiClient`

`GracePeriod` counts the work in use (which work it is: `PlanUsage`) and has the steps of
`enforceGraceIfDue`: `TakeHold`, `ArchiveExcess` (a transaction), `RecordArchival`, `LookAgain`,
with failures, crashes and holds that go stale. `JobLock` counts time: `left[j]` is `lockedUntil`
from now, and a call decides by a clock it read up to `MaxLate` ago (`BeginJob`, `Collide`,
`FailTick`); a claim that was applied and whose answer was lost shows as `BeginJob` and then
`FinishJob`, so "begun" means claimed. `PassTime` lets no running call get later than that. `ApiClient` follows the calls of
one tab through the wake-up attempt they share (`Joined`, `Settle`, `Told`) and the refresh they
share (`TokenRefused`, `RefreshSucceeds`, ...); JavaScript runs one handler at a time.

## 4. Runs

| Run | Asks | Answer |
|---|---|---|
| `slots` | Is the slot counter exact and within the plan, whatever two requests on two projects do? | yes; `SlotsInv` is the inductive form of `SlotsExact` |
| `grace` | Beside any two requests over three tasks: is a task opened only within the limit, and is the workspace within the Free plan after the archival? | yes: the revision bump is what makes it so |
| `sweeps` | Do bin sweeps and permanent deletions leave a task without a project, in a workspace in use? | no |
| `v_purge` | Is a project that was restored safe from the sweep? | no: the sweep destroys what it found earlier |
| `plans` | Within one term and without failures, is every payment used or returned, never both (and does `Payments` implement `Purchase`)? Do orders lose or make credit? Are reminders and notices about what is so? | used or returned once; credit is kept, at list price; right, with the exceptions below |
| `pay_terms` | Over two terms, with a prepaid plan, expiry and cancellation: is a plan bought or activated only while its money is held, and does no purchase shorten the term? | yes for signed quotes |
| `pay_faults` | With every fault, does a payment move the plan twice, or a wrong amount move it? | no, with signed quotes and the webhook alone; the types of `Payments` under faults are proved (`TypeCorrect`) |
| `seats` | Are the seat and administrator counters exact, and is a seat handed on and never doubled? | yes |
| `people` | Does a group keep an administrator and a meeting its organizer when people leave? Do answers belong to the time of the meeting? | yes, unless two requests overlap as below |
| `talk` | Is the chat list true, does deleted text stay deleted? Is whoever is addressed told, and nobody else of a thread between some? | yes, with the exceptions below |
| `accounts` | Does an ended session stay ended? Does each link work once, and for what it was sent? | yes, with the exceptions below |
| `servers` | One run per claim, nobody blocked for long; the archival in the end; a captured payment settled in the end; every call of a tab ended and none that changes data repeated? | yes |

`v_purge` checks what a comment of the repository says and shows that the
code does otherwise; `PROJECT.json` quotes the line under `findings`. The invariants of `people`,
`talk`, `accounts` and of the reminders have history variables (`crossed`, `passed`, `stirred`,
`mingled`, `raced`, `overlapped`, ...) that name exactly the overlaps under which the code gives
no guarantee; what happens then is in section 6.

### Bounds

* Two requests at a time everywhere: each race of this code is one of two callbacks or handlers.
  Two projects with up to three tasks are enough for a limit to be reached, passed and shared: the
  Free plan of the model has room for one project with one open task, the paid plan for two of
  each. Requests are symmetric, and so are projects with their tasks, invites to one address,
  people, browsers, where nothing tells them apart.
* `PlanUsage` and `Seats` have no bound but their finite sets: an id is used once, counters and plans
  cannot grow. `Ops` selects the operations a run looks at, so that each asks its own question of a
  state space TLC can exhaust. `Seats`: one organization, two accounts, two addresses, two invites;
  `FirstNext` starts from one account, lets an account move or be deleted, not both, and no invite
  gets older after a deletion.
* `Payments`: two payments, two requests, three plans (what a prepaid downgrade needs), up to two
  terms, `bought` counts to 2 ("or more").
* `Quotes`: days pass by 10 or 31 up to day 72, stories begin on day 0 or 30, three orders, the
  prices of the code in rupees, a calendar of four years with a leap year.
* `Reminders`: two runs, one new cycle, one kind of change at a time, a start role per kind.
  `PlanNotices`: two runs, two end dates and one purchase (`MaxTerm` bounds both), so a renewal, or an
  upgrade, or the beginning of a plan paid for ahead and an upgrade. `Reminders` stops when a run has
  crossed another; `PlanNotices` when a purchase went past a run that was to write to everybody, after
  which only "never ahead of the plan" is still said.
* `Groups`: three people, one group. `Meetings`: three people, two times, the mixes of operations in
  `MixesOfMeetings`; a series is looked at one date at a time.
* `Messages`: two members, two messages, one file, mixes of operations (`MixesOfMessages`; marks meet
  clears in one and hidden messages in another). `Discussions`: three
  people, two messages (three where the thread is what matters, the third mentioning nobody), the
  scenes of `MCTalk`; the hour between reminders passes once; `Room` and `Kinds` name the rest.
* `Sessions`: two browsers, three tokens, one change that ends sessions. `Links`: three links, two
  addresses.
* `JobLock`: two servers, one job, three calls at once, a claim of 3 with a period of 4 and calls
  at most 1 late; the theorems hold for every claim, period and lateness. `GracePeriod`: two workers,
  two units of work with room for one in the Free plan, at most two archived in an expiry.
  `ApiClient`: two calls, two health checks to an attempt, a token outlives the call it was renewed for.

Deadlock is not checked where a workspace whose ids are all used stops.

### Fairness

Only `servers` has liveness properties.

* `Diligence` (payments): a process that is not stopped runs its requests to the end (weak fairness
  of each request's steps; the code awaits one call after the other and each has a timeout), a claim
  nobody holds grows old, and crashes stop at some time. `SF_vars(Insist(p))`: a person or client
  confirms again, which `confirmPayment` asks for ("Refresh Plans shortly"); strong, because a
  report may find every process busy or down in between.
* `GraceFairness`: a server goes through with what it has begun, a hold nobody uses gets stale by
  the clock, the sweep comes every half an hour (strong: it may find every worker busy), and
  failures stop at some time.
* `ClientFairness`: health checks, refreshes and requests have timeouts, and handlers run.

The other runs assume nothing: a request may be abandoned at any point.

## 5. Proofs

Every theorem is stated for any values of the constants that satisfy the assumption of its module
(`UsageAssumption`, `SeatsAssumption`, `LockAssumption`, ...: ids of different kinds differ, limits
are numbers, sets that are counted are finite). What else a theorem assumes is a named condition in its
statement, and is there because the code needs it.

### Slots (`PlanUsageProofs`)

`TypeCorrect` proves `Spec => []TypeOK`: documents keep their types through every operation, a
running request has typed writes and restarts from a typed check, and `aged` holds only
documents in the bin. `TypeOK` is inductive by itself. The proof goes once through each
operation (`ProjectRequestTyped`, `TaskRequestTyped`, `CallbackTyped`, `PlanRequestTyped`), each
reduced to "the image of the callback is typed" by `BeginNewTyped` and `ResumeTyped`; the
retry is `AfterCommitTyped`.

`SlotsCorrect` proves `Spec => []SlotsExact` under `NoSweeps`: the two sweeps of the bin
are not among `Ops`. The hypothesis is needed, because the code needs it: a project that was
restored while `purgeExpiredProjects` held its id is destroyed without its slot being given
back, and a task restored while `purgeExpiredTasks` held its id is destroyed without its
project's slot being synced (run `v_purge` shows the first half of this).

`SlotsExact` is not inductive: a commit installs what a callback computed on an older
snapshot. The inductive invariant `SlotsInv` adds that the writes of every running
transaction are `StillRight` for the documents as they are now:

* they bring back nothing that is gone;
* a task they change has its project among the documents written (the revision bump), or keeps
  what `Consumes` asks of it, or its project is gone for good;
* the count they write is the number of slots in use after them, and if they write no count
  they change no slot.

The argument has three steps. (1) Each callback leaves writes that are right for its own
snapshot: `SlotWritesRight` for all that end in `syncProjectSlot`, and one lemma each for the
others (`CreatedRight`, `DestroyedRight`, `RecountedRight`, `RestoredRight`, `ArchOnlyRight`, ...).
(2) `StillRightKept`: two writes that are right and share no document do not
disturb each other: a project only one of them touches gets its slot from that one
(`Touched`), any other from neither (`Untouched`), and if one of them counts, the other
changes no slot. (3) `InstallSlots`: a commit makes the documents what the committed
writes say, leaves every transaction that shares none right, and sends every
other one back to its start.

`SlotsWithinPlan` proves the action property `NoSlotOverPlan` for every mix of requests, the
sweeps included. Its invariant `SlotRoom` says that writes which add to the counter fit the
plan they leave; a transaction that counts writes the organization, so another count or
change of plan makes it start again (`InstallRoom`).

### Tasks, their projects and their limit (`PlanUsageProofs`)

The other properties of `PlanUsage` follow the same pattern: what a callback's writes do to the
documents of its own snapshot (`Outcome`, one lemma per operation) stays so while others commit,
because whoever writes one of the same documents starts again (`LastingKept`, `FillsKept`,
`EnforcesKept`). Each theorem leaves out the operations that the code does not protect:

| Theorem | Condition | What the writes of a running transaction promise | Why the condition is needed |
|---|---|---|---|
| `NoneLeftBehind` (`NoTaskLeftBehind`, from any settled workspace) | no `createTask` | `Lasting`: nothing gone comes back, whoever destroys a project destroys all its tasks, whoever creates a task writes its project | a deleted project has no document to write, so `createTask` meets no conflict |
| `LeftByCreation` | none | as above | it says that this is the only way |
| `StoredTasksWithinPlan` | `RoomIsChecked`: no `unarchiveTask`, `restoreTask`, `restorePlanArchived` | `Fills`: a transaction opens no task, or one in a project it writes and in which it counted at least the open tasks there are | the first two decide whether to check the room before their transaction; the third checks none |
| `TasksWithinPlan` (`NoTaskOverPlan`) | also `NoneDestroyed`: no deletion of projects | as above | as for `createTask`: two tasks created in a project that is gone meet no conflict |
| `ArchivalEnforces` (`EnforcedWithinFree`) | `RoomIsChecked` | `UsesNone`: no project comes into use with open tasks unless the counter is written; `Enforces`: applied now, the archival leaves the workspace within Free | the archival locks none of the projects whose tasks it trims: a task that comes back without a check of the room takes one over the limit |

The invariants are `LeftInv`, `PlacesInv` and `EnforceInv`, each the one before with a further
promise, and `KeptInv` (no project is gone). The operations of the runs `grace` and `sweeps` satisfy
these conditions.

### Money (`PaymentsProofs`)

`TypeCorrect` holds for every fault and every mix of requests. The other theorems need regimes,
which are conditions on the constants:

| Regime | Says | Needed because |
|---|---|---|
| `Calm` | no crash and no stall in the middle of a request | a claim that is taken over after the plan fell back to Free finds the subscription of its quote again, and buys twice |
| `OneTerm` | the plan does not end within the story | as above; and a prepaid plan is dropped when its predecessor ends between schedule and `appliedAt` |
| `Orderly` | `Calm`, refunds reach Razorpay, and amounts are the right ones (any other failure in `applyPayment` is allowed) | an unanswered refund is asked for again by another handler, under another receipt |
| `Quoted` | orders carry a signed quote | two unsigned renewals buy the same term |
| `Ranked` | no two plans have the same rank | a lower plan is scheduled, a higher one bought, the same one renewed |

* `AppliedOnceCorrect` (`Calm`) and `AppliedOnceWhateverFails` (`OneTerm`, `Ranked`, `Quoted`; every
  fault): a payment moves the plan at most once. In the first, the invariant `OnceInv` says that one
  request at a time applies a payment and finds it unused. In the second two may apply it at once, and
  `TermInv` says that the subscription never returns to what a quote that was used had seen.
* `WrongAmountCorrect`: a wrong amount buys nothing, if the webhook and not the browser reports it;
  `AmountInv` follows `bank[p]` through the stored status. `BuysAsPaidCorrect` joins both.
* `TermsKeptCorrect` (`Orderly`, `Quoted`): no purchase shortens the running term, and a plan is bought or
  activated with money that is held (`MoneyInv`, `QuoteInv`).
* `ReturnedOnceCorrect` (`Orderly`), `MoneyAccountedForCorrect` (also `OneTerm`, `Ranked`, `Quoted`): a
  payment is given back once at most, never after it was used; what counts as applied was bought, is
  scheduled or was refunded (`KeptInv`).
* `PromiseKeptCorrect`, in the same regime: `Payments` implements `Purchase`. Each step is a step of
  `Purchase` or leaves what it sees unchanged; that needs the invariants above, because a step of
  `Purchase` may use or return only money that is held and neither used nor returned.

### Seats (`SeatsProofs`)

`CountersCorrect`, `OrgsCorrect`, `SeatsHandedOnCorrect` and `TypeCorrect` hold for any number of
organizations, accounts, invites and requests, without a further condition. The invariant
`SeatsInv` says that the documents are in order (`InOrder`), that what is overdue is pending, and
that every running transaction is `Sound`: applied to the documents *as they are now*, its writes
lead to documents in order again by a permitted step (`Step`: an organization it does not write
keeps its counts, one it does write is counted right, no seat is taken over the plan, whoever joins
uses up one invite). The key is `Commutes`: two sound steps which write no common document stay
sound one after the other. So each callback is proved right on its own snapshot (`InvitedStep`,
`JoinedStep`, `ReleasedStep`, `ReconciledStep`, `RecastStep`, `FoundedStep`, `DeletedStep`, ...) and
write conflicts do the rest. It is what makes the recount safe: it writes the organization, as everyone
who moves a seat does.

### Locks (`ServersProofs`)

`LockTypeCorrect` gives the types. `OneRunCorrect` needs `Held`: a run within its claim has at most as
much of it left as the lock itself; a call that reads a late clock finds the lock unexpired by just
that much. `NeverBlockedCorrect` has the invariant `WaitInv`: while nobody begins the job, the time a
server has waited and the time the lock has left add up to at most a claim, unless a timer is about to
fire or a call is overdue.

### The end of a grace period (`ServersProofs`)

`GraceTypeCorrect` and `GraceKeptInOrder`, for any number of servers, crashes and failures.
`GraceInOrder` says that a workspace that is enforced has archived what the record says; the
invariant `GraceInv` follows the difference between the two through a hold. Whoever holds the
workspace took it as it is now (`HeldAsTaken`), so only that one records; what it has archived and
not recorded is the whole difference (`HolderBalance`), unless an archival was left behind by
somebody whose hold went stale (`Stray`) or a record was lost.

### The calls of a tab (`ServersProofs`)

`ClientTypeCorrect` and `CallsKeptInOrder`: a call that is under way has not been carried out,
the wake-up attempt counts who waits for it, a refresh runs for somebody, and who is signed out was
told by the server. The invariant is the property with the shapes of calls and attempt. The proof
found an error of the model: `Released` did not count a waiter whose call was cancelled while the
attempt slept.

### Groups and meetings (`PeopleProofs`)

`GroupsTypeCorrect`, `GroupsKeptInOrder`: a group keeps an administrator and those who left are out
of it, with the exceptions the table in section 6 names. `GroupsInv` adds that a person is listed
once for each request that did not find the person on the list (`ListedAsFound`, by counting the
requests about to add), and that a clean-up knows every group the person is still in
(`TidiesTheRest`).

`MeetingsTypeCorrect`, `MeetingsKeptInOrder`, `AnswersStay`: until one write passes over another,
organizers attend, an answer is for the time it was given for, and nobody who left is invited.
`MeetingsInv` says how far a departure has come (`CleanedSoFar`), that one request sees to it
(`LeavesOnce`), and that between the two updates of a proposal there is none (`PulledFirst`).

### Sessions and links (`AccountsProofs`)

`SessionsTypeCorrect`, `FamiliesKeptInOrder`, `EndedStays`. `SessionsInv`: a family has one live token
unless two tabs were served within the grace of ten seconds (`OneLive`); a token in a cookie or on
its way can still be exchanged, unless its family was cut (`HeldUsable`); an ending has found every
live token of a family into which nothing committed meanwhile (`FoundAll`). Two commits cannot
replace one token, because both write it.

`LinksTypeCorrect`, `LinksKeptInOrder`, `AddressesConfirmed`: the newest link for a new password works, a link is
used once, a sign-up is confirmed once, and an address becomes that of the account if a link to it was
opened. `LinksAssumption` says that one behaviour looks at links of one kind; the three kinds
share no field. The invariant of each kind says which link is stored while an email is being sent
and what is put back if it fails; for changes of address and sign-ups it holds until requests overlap.

### Notices and reminders (`PlansProofs`)

`NoticesTypeCorrect`, `NoticesKeptInOrder`, for any number of administrators, runs, terms and purchases.
What `NoticesInOrder` says has three parts, each with its own exception. (1) A notice that shows is never
ahead of the plan: no exception. (2) It is of the last purchase, for every administrator no run was
still to write to when the plan was bought (`outdated`). (3) What was sent away since the last purchase does not
come back, for every administrator no two runs wrote to at once (`overlapped`; a purchase clears it
where no run is on its way). That is the case in which the code fails: the row of section 6 for `planReminders.ts:90`.
`NoticesInv` has a part for each: nothing is told ahead (`NothingAhead`); runs on their way carry the last
purchase (`DealKept`); and `Undisturbed`: a run still to look carries the last stage of all, a run at a notice
has something later to say, one run at a time is at it. `RemindersTypeCorrect`, `RemindersKeptInOrder`: what was dismissed stays, and what is shown has the key
and the label it would have today. `RemindersInv`: a run whose reading nothing has changed since knows
the task and the person as they are (`Knows`) and has dismissed what it should (`HasCleared`); a whole
run leaves only what is wanted. The reminders hold until two writers cross. The proof found
overlapping guards in `SuffixOf`, where the order of the tests in `eventKey` decides.

### Prices (`PlansProofs`)

`QuotesTypeCorrect`, `QuotesKeptInOrder`: credit neither appears nor is lost (`CreditKept`), and a term is
worth what the price list says (`AtListPrice`), for any prices of which Premium's are not below Pro's,
any number of orders on any days, and any calendar that goes on (`EndlessCalendar`, of which the four
years of the run are a piece: a proof cannot stop at the last month).

* Periods. The month of a day exists (`MonthFound`, by the principle of the least number), and a
  period has between the days of the shortest and of the longest (`PeriodLength`), which is where a
  31st or a leap day could make time cheaper. What a credit reaches is bounded over any number of
  whole periods and the last in part (`CoverageReach`).
* Terms. `AtList(value, p, c, days, n)`: after n orders the value lies within n roundings of what those
  days cost; `NearList`: the rest of a term, which has been rounded once more (`CreditWorth`). Every
  branch of `quotePlan` turns `NearList` of what is left into `AtList` of what is bought, with one rounding
  more: `RenewedWorth`, `UpgradedWorth`, `CoverageReach`. An upgrade values the error at the higher
  price, hence the condition on the prices.
* The invariant `QuotesInv` adds what an order knows (`OrderKept`): its quote was right for the
  subscription it was made for; that subscription is there or has ended (`QuotedTerm`), so a prepaid
  plan reported late began in the past; and nothing but Free is scheduled while an order is open.

### Messages and discussions (`TalkProofs`)

`MessagesTypeCorrect`, `MessagesKeptInOrder`. `MessagesInv`: a number is given to one request and inserted once
(`Numbered`); files on their way, attached and being destroyed are apart, but for those sent again when
they were gone or in the hands of another request (`again`, `FilesApart`); nobody has read less than they cleared,
but those whose `lastReadAt` was written from before (`reread`, `ReadPastCleared`); every number up to the clock is announced or on its way (`AllAnnounced`); when nothing is
on its way, the preview is that of the last message but for what an edit or a deletion has still to write
(`PreviewKept`), until a write is stirred by another. That a deleted text stays away, and that an emoji has one
entry, has no exception.

`DiscussionsTypeCorrect`, `DiscussionsKeptInOrder`, for threads of any length. `DiscussionsInv` says of each message
written, and of each about to be, where it stands, whom it tells and between whom it stays (`Fits`); what
counts as an answer is a reply to its question; and every reminder sent or about to be sent has claimed
its hour (`RemindersClaimed`). That a message fits is kept while others are appended, because the
audience of a thread only grows by those who write in it (`SpeakKeeps`).

`SweepsTypeCorrect`, `PeopleTypeCorrect`, `AccountsTypeCorrect`, `PlansTypeCorrect` and `TalkTypeCorrect` put the types of the parts
together for the specifications the runs check.

### What is only model-checked

* Liveness (`EventuallyWithinFree`, `CapturedSettles`, `CallsServed`): under fairness, out of this
  prover's reach.
* `NoTaskOverPlan`, `EnforcedWithinFree` and `NoTaskLeftBehind` with the operations their theorems
  leave out.
* That the calendar of the code is one of those `QuotesAssumption` allows: TLC evaluates the assumption
  on four years with a leap year.

## 6. Disagreements the models show

These are behaviours of the code that a reader of its comments and messages would not expect. Each
is reached in the models by dropping the exception that the property named here makes, or by changing
one line of a cfg; only `v_purge` has a run of its own.

| Source | What happens | Property that excepts it or fails |
|---|---|---|
| `tasks.service.ts:1023` | an unarchive that saw the task done takes no room check although the task was reopened meanwhile ("An open task takes an active-task slot again, so it needs room.") | `NoTaskOverPlan` in `grace` with `"unarchiveTask"` |
| `projects.service.ts:844` | a project restored after a downgrade brings back more open tasks than the plan allows (README.md:378 says restoring checks them) | `RestoreFitsPlan` |
| `orgs.service.ts:295` | a task created beside a downgrade leaves the project over the smaller plan | `ChangeFitsUsage` with `"createTask"`, `"changePlan"` |
| `tasks.service.ts:279` | a task created beside the permanent deletion of its project outlives it | `NoTaskLeftBehind` with `"createTask"`, `"deleteProjectPermanently"` |
| `tasks.service.ts:279` | a task is created in a project archived after the check | `TasksCreatedInUse` with `"createTask"`, `"archiveProject"` |
| `tasks.service.ts:699` | a task archived after the check still changes its status | `ArchivedTasksUnchanged` with `"completeTask"`, `"archiveTask"` |
| `migrations.ts:258` | the recount at startup writes numbers aggregated earlier, over increments made meanwhile | none: not modelled |
| `billing.service.ts:377` | a cancellation that crosses the start of the prepaid plan refunds it after its activation, and succeeds | `UsedNotReturned` with two terms |
| `planLifecycle.ts:52` | a plan that ends between the commit of its prepaid successor and `appliedAt` drops the schedule, and the payment then counts as applied | `PrepaidKept` with two terms |
| `billing.service.ts:929` | after a crash between the change of plan and `appliedAt`, the retry finds the subscription changed (by itself) and refunds a payment whose plan stays active | `UsedNotReturned` with `"crash"` |
| `billing.service.ts:407` | a refund of a scheduled change that Razorpay made without an answer is taken as failed and the claim is given back; the plan is then activated with its money returned | `TermsKept` with `"refundFails"` in `pay_terms` |
| `billing.service.ts:863` | two renewals ordered without a quote token buy the same term | `PaidTermGrows` with `Offers <- UnsignedPro` |
| `billing.service.ts:627` | the browser confirms a wrong amount before the webhook can compare it | `WrongAmountBuysNothing` with `"browser"` |
| `billing.service.ts:738` | a webhook that meets a claim is answered 200 and not sent again; if the holder then dies only a person who tries again settles the payment | `CapturedSettles` under `WebhookSpec` |
| `gracePeriod.service.ts:324` | a crash, a failure or a stale hold between the archival and its record loses `graceArchived`, and the notice of it | `lost` in `SummaryAddsUp` |
| `planReminders.ts:32` | "renewing removes it": a run that had read the organization before a renewal writes its notice after it, and the notice stays | `outdated` in `NoticesInOrder` |
| `planReminders.ts:90` | a notice that was dismissed comes back when two runs write to one administrator at once, or one of an older stage writes last | `overlapped` in `NoticesInOrder` |
| `planLifecycle.ts:182` | a plan paid for ahead begins and no notice is deleted: "Your plan ends tomorrow" stays until the next stage or purchase | `NoticesInOrder` with `notice[a].n = term.n` |
| `orgs.service.ts:367` | an upgrade that keeps the end date deletes dismissed notices too, so the same stage for the same date is told again | `NoticesInOrder` with `dropped` kept by `Bought` |
| `notifications.service.ts:206` | a completed task gets a reminder from a sweep that had read it before | `DoneIsQuiet` |
| `notifications.service.ts:206` | after archive and unarchive, or a change of role and back, a reminder whose key was dismissed is never heard | `NobodyMissed` |
| `chat.service.ts:513` | two members leave at once: each writes the administrators it read, and the group is left with none, with one who is no member, or with no members | `NeverWithoutAdmin`, `crossed` |
| `chat.service.ts` (`addConversationMembers`) | `$push` adds a person twice, or more than `MAX_GROUP_MEMBERS`, when two requests add at once | `GroupsTypeOK` counts them |
| `departure.service.ts` | a request that had found the person among the members adds somebody who has just left | `"late"` in `OutOfGroups` |
| `chat.service.ts:852` | an edit, an announcement or the retention preview written from what had changed shows an older or a deleted text | `stirred` in `PreviewRight` |
| `chat.service.ts` (`sendMessage`) | a message dated before a clear or a mark and inserted after it is missed | `NothingMissed` |
| `chat.service.ts:698` | two sends at once attach one file; deleting one message takes it from the other ("A file can only be attached once") | `again` in `FilesKept` |
| `chat.service.ts:710` | a file whose message was deleted can be sent again although it is destroyed: no message lists it, and a missing file has no size to refuse | `again` in `FilesKept` |
| `chat.service.ts:1043` | a mark (read or unread) or a message dated before a clear and written after it takes `lastReadAt` back to before `clearedAt`, and messages that can no longer be read count as unread | `reread` in `UnreadIsVisible` |
| `meetings.service.ts:493` | the organizer's edit writes the list as read over an answer given meanwhile; an answer for the old time is recorded on the new one; a handover does the same; two proposals of one person at once are both kept | `passed` in `MeetingsInOrder` |
| `departure.service.ts:153` | a meeting is handed to somebody who has left in between | `passed` |
| `taskActivity.service.ts` | somebody who replied between the read of `remindWaiting` and its claim is reminded; somebody who replies while another reply is recorded is not told of it; participants who can no longer see the task are told; notifications of somebody removed meanwhile stay; a reply recorded beside a permanent deletion is left over | the properties of `DiscussionsInOrder` speak of those still here |
| `auth.service.ts:870` | a refresh that commits between the find and the write of `updateMany` leaves a live session; so does a crash between saving the change and ending the sessions | `raced`, `halted` in `EndedStaysEnded` |
| `auth.service.ts:1090` | logging out a family that two tabs had refreshed at once leaves the sibling token | `cut`, `graced` |
| `auth.service.ts:998` | an answer with the new token that arrives more than ten seconds late signs the person out; so does a change of password beside a refresh | `cut` in `FamiliesInOrder` |
| `auth.service.ts:744` | overlapping changes of address let a link that was sent to one address confirm another, or put back a link that was used | `mingled` in `AddressConfirmed` |
| `auth.service.ts:848` | a change of address verified after the deletion of the account gives the address back to it | `AddressReleased` of `Seats` |
| `client.ts:274` | a call that joins a wake-up attempt whose last waiter has just given up is cancelled with it | `AttemptAborts` |

## 7. Not modelled, and why

Most of this repository renders pages (`web/src/features`, about half of its lines), tests itself, or
wires things together; a model of it would restate it. Of the API: tenancy and the permission table
are predicates on one request; dashboard, audit and preferences only read or append; the realtime hub
stores nothing; migrations rewrite old documents once (the recount at startup is in the table above).
Inside the modelled components the note in `PROJECT.json` says what is left out of each: fields that
nothing here decides by, listings and paging, wording, mail templates, rate limits, test controls.
