# A verification project for the AI control plane

The control plane lets a person, or a program, hand work to AI providers and
custom agents: messages to a provider's chat, instructions to an agent's
webhook, starts of a standing task. Each piece of work is a *run*. Runs are
executed by job handlers in several processes (API, workers, browser workers)
that share one database and one job queue, may die at any point, and may be
asked to wait for a person's approval. The providers are reached through browser
sessions that a fleet of browser workers opens, seals and shares; people watch
all of it on a page that is told of every change. This directory holds TLA+
models of that code, the TLC runs that check them on small instances, and TLAPS
proofs of the properties that matter most.

Paths below are relative to the repository.

## 1. Inventory

| Part | State it keeps | Operations | Interacts with | Correct when |
|---|---|---|---|---|
| Runs (`src/runs.ts`, run rows in `packages/data`) | status, attempt, lease (`lease_expires_at`, `locked_by`), `cancel_requested`, external id | begin, claim, lease/heartbeat, end, park, reap, record | everything below | a run is executed by one handler, its work is handed over once, its outcome is final, and it does not stay unfinished |
| Task starts (`src/tasks.ts`) | queued runs, their start jobs | start, execute, re-send of stuck starts | queue, gate, provider adapters | a queued run is started once or given up; the cap is kept |
| Policy gate (`src/policy.ts`) | approvals (pending, approved, rejected, expired, interrupted) | guard (ask and park), decide, settle a decision, expire, reconcile, recover at boot | runs, queue | no asked work without consent; every parked run is answered |
| Job queue (`packages/queue`) | jobs, singleton keys, retries left; pg-boss, or an inline engine in one process | send, deliver, retry, watchdog deadline | all handlers | (external) at least once, bounded retries |
| Message delivery (`src/deliver.ts`, `src/jobs.ts`) | the message row beside its run | deliver to a chat or to a task's agent, redelivery guard, stuck-delivery sweep | runs, gate, fleet | a message is done only if somebody received it, and its row agrees with its run |
| Tasks and reports (`packages/data`, `src/agents.ts`, `src/ingest/email.ts`) | the task row, its runs, its agent's profile, events | push a report, fold what a sync found, poll the mailbox, edit, delete | runs through `recordRun`, sync | no report and no edit is lost to another writer |
| Assistant and routing (`src/assistant.ts`, `answers.ts`, `intents.ts`, `router.ts`) | the routing columns of a message | choose a destination, run a command, follow its run | delivery, tasks, gate | a message goes where the last decision sent it; a command's message reads as its run ended |
| Provider adapters (`src/providers/**`) | a page while a call lasts | drive a page, call a webhook, parse | fleet | the answer handed on is the whole answer to this message |
| Sync (`src/sync.ts`, `src/platforms.ts`) | the provider's row, one timer, one flag | tick, sync a provider, check a sign-in | fleet, browser lock | nothing is claimed of a session that was never seen |
| Browser fleet (`src/browser/fleet.ts`, `session-store.ts`) | contexts, slots, claims with a time to live, sealed session blobs | connect, claim, renew, seal, evict, run a job in order | delivery, sync, sign-in | one worker drives a provider's session; no saved session is lost |
| Persistent browser, desktop sign-in (`src/browser/manager.ts`) | one lock, one context, one sign-in window | lock, launch, sign in, finish, cancel | fleet, browser ops | automation and window are never on one profile |
| Live view (`src/browser/live*.ts`, `public/live.js`) | streams, sinks, viewers, wants of other processes | attach, follow, watch, relay, lapse | browser manager, Redis | a viewer gets the frames of the tab it shows, and only while it is there |
| Browser ops (`src/browser-ops.ts`) | request rows (pending, done, failed) | call with a deadline, perform, answer | API and browser workers | nothing is begun for a caller that was answered |
| Pairing (`src/pairing.ts`) | pairing rows, code and token hashes, expiries | create, exchange, import, finish, cancel, expire | sessions of the fleet | a code is traded once, a dead pairing stays dead |
| Live updates (`src/live.ts`, `src/bus.ts`, outbox in `packages/data`, `packages/realtime`) | outbox rows and buffer, connected pages, Redis interest | append, flush, replay, subscribe | every row change | a page misses nothing it is not told to refetch |
| Accounts and limits (`src/auth.ts`, `src/ratelimit.ts`, `packages/security`) | accounts, sessions, links, request windows | sign up, in and out, change, reset, role | API, mail | a changed password signs everybody out; a link works once |
| HTTP API (`src/routes/api.ts`, `src/server.ts`) | none of its own | the handlers behind all of the above | all | - |
| Process start and persistence (`src/services.ts`, `src/bootstrap.ts`, `src/persist.ts`, `apps/*`) | timers or queue cron; a mirror of the state files | sweeps every minute, restore, save | all | the sweeps keep running; what was mirrored is not lost |
| Custom actions (`src/actions.ts`), web page rendering (`public/app.js`, `views.js`), helper (`public/connect.mjs`) | - | - | - | not modelled |

What is hard: there are next to no locks. Each handler works with reads and
`UPDATE` statements, guarded or not, separated by awaits. Between any two,
another delivery of the same job, a sweep, a person, an agent's report or the
reaper may move the row, and the process may die. Outside the database the same
holds of maps and flags in one process: what was read before an await is used
after it. `PROJECT.json` lists these hazards at their lines.

## 2. The modules

| Component | Model | Proofs | Instances for TLC |
|---|---|---|---|
| Runs, task starts, gate, queue | `RunStatus` (the declared transition map), `RunLifecycle`, `RunContract` (abstract), `RunLifecycleInv` | `RunLifecycle_proofs` | `MCRunLifecycle`, `MCTasks` |
| Tasks and their reports | `Registry`, in `Tasks` | `Tasks_proofs` | `MCTasks` |
| A message and its runs | `Delivery`, `DeliveryInv` | `Conversation_proofs` | `MCMessages`, `MCServices` |
| Where a message goes | `Router`, `Routing`, in `Conversation` | `Conversation_proofs` | `MCMessages` |
| A message on a website | `ChatDrive`, in `Conversation` | `Conversation_proofs` | `MCMessages` |
| Commands | `Commands`, in `Conversation` | `Conversation_proofs` | `MCMessages` |
| Browser fleet | `Fleet`, `FleetInv` | `Fleet_proofs` | `MCFleet`, `MCServices` |
| Mirror of the state files | `Mirror`, in `Workspace` | `Workspace_proofs` | `MCFleet` |
| Accounts | `Accounts`, in `Workspace` | `Workspace_proofs` | `MCFleet` |
| Pairing and browser ops | `SignIn` | `SignIn_proofs` | `MCServices` |
| Persistent browser | `Profile` | `Profile_proofs` | `MCScreens` |
| Live view | `Screencast`, `LiveView`, `LiveRelay`, in `Screens` | `Screens_proofs` | `MCScreens` |
| Live updates | `LiveUpdates`, in `Screens` | `Screens_proofs` | `MCScreens` |
| A provider's session | `ProviderSync`, in `Screens` | `Screens_proofs` | `MCScreens` |

`RunContract` is the abstract specification of a run: a *permit* to hand its work
over, issued once, against the policy's answer, used or lost. `RunLifecycle`
implements it. `LiveView` and `LiveRelay` both extend `Screencast`, the source of
frames they share. Every other component is a specification of its own. Four modules
put several of them side by side, for any values of their constants: `Tasks` (the
registry beside the runs), `Conversation` (routing, a send through a website and
commands beside `Delivery`), `Screens` (live view, relay, updates and provider beside
`Profile`) and `Workspace` (mirror and accounts beside `Fleet`). The proofs are about
these, and the MC modules give them small sets; a behaviour of such a run is one of
one component (`part`). They share no state that
their properties speak of: what one is to another is an action of the other's
environment (an import in `Fleet` is the `StoreSession` of `SignIn`, a run that ends
in `RunLifecycle` is `EndRun` in `Commands` and `End` in `Delivery`).

`RunLifecycle`, `Delivery` and `Commands` are three views of the same handlers.
`RunLifecycle` takes a run apart: gate, approval, lease, resume and reaper in
every order, and has no message. `Delivery` takes the message apart: each of its
writes is a read and a write, and a run's gate, park and decision are single
steps. `Commands` has the message that starts a run and has to follow it.

A step is everywhere the code between two awaits on shared state. What a caller
knows between two of them (`seen`, `got`, `old`, `snapshot`) is a variable, so a
read-modify-write is a read and a write with anything in between.

### RunLifecycle

State. `status`, `attempt`, `cancel`, `external` are columns of `runs` (an
`external` run has an `external_id`). `lease[r]` is the pair of
`lease_expires_at` (live or run out) and `locked_by` (a process). `approval[r]`
is the status of the run's approval row; a run passes one gate, before its one
provider call, so the row is indexed by the run. `left[j]` counts the deliveries
the queue may still make of job `j`, which is named by queue, run and singleton
key. `pc`, `job` and `zombie` describe each *worker*, an activation of a job
handler; a zombie is one the watchdog has abandoned and that runs on. `reaping`
is the run the reaper has looked at twice and will fail next. `handed` and
`open` are history: how often the provider was given the work, and which runs
were left running on purpose.

| Code | Actions |
|---|---|
| `startTask` | `StartTask` (row, then job; a crash in between loses the job) |
| `executeTaskRun` | `RefuseForNow`, `TakeStart`, `RefuseToday`, `Claim`, `StopBeforeGate`, `ThrowOut` |
| `deliverToConnection`, `deliverMessage` | `TakeDelivery`, `BeginDelivery`, `StopBeforeGate`, `LeaveOpen` |
| `withRunLease` | `EnterLease`, `Heartbeat`, `LetGo` (in `Leave` and `ThrowOut`), `LeaseExpires` |
| `guard` | `AskPolicy`, `Park`, `Reread` |
| `performTaskStart`, `performChatSend`, `performWebhookDeliver` | `Perform`, `HandOver`, `Settle`, `LeaveOpen`, `ProviderThrew` |
| `decide`, `sweepApprovals` | `Decide`, `ExpireApproval` |
| `settleDecision` | `TakeResume`, `Poll`, `SettleDecision` (`RefuseParked`, `Resume`), `NoResumer`, and the catch in `ThrowOut` |
| `reconcileParkedRuns`, `recoverInterruptedApprovals`, `requeueStuckTaskRuns` | `Reconcile`, `InterruptApproval`, `Requeue` |
| `reapStaleRuns` | `ReapLook` (its two reads), `Reap` |
| `requestCancel`, `POST /runs`, `POST /runs/:id/finish`, `recordRun` | `RequestCancel`, `OpenExternal`, `AgentFinishes`, `RecordRun` |
| pg-boss, the watchdog, the process | `Given`, `Done`, `Thrown`, `Abandon`, `Crash` |

Time is abstract. A lease may run out when no handler heartbeats it, an approval
may expire at any moment, a sweep may run at any moment; so no bound on a delay
is assumed anywhere. For the dispatch of a message through a webhook, `handed`
counts the segment that posts: the three quick tries inside it are one hand-over.

Assumed of the queue, as the source describes it (`packages/queue` says so of
both engines): a send is dropped while a job of the same singleton key is queued
or active, a job is delivered at most `retryLimit + 1` times, and one activation
of a job is waited for at a time. A zombie is not waited for, so two activations
of one job do run side by side in the model.

### Delivery

State. `row[m]` holds the columns of `messages` that steer its delivery: the
status, `run_id`, the attempts of the sweep and whether there is a destination
(both in the routing JSON and `platform`/`task_id`), and whether it is held for
an inbox (`delivery_mode`). `status`, `owner` and `decision` are the runs'
status, their `message_id` and the status of their approval. `act[w]` is what a
worker is doing, a job handler, a request or a sweep alike: where it is, its
message, run and job, the outcome it brings, what it does after `endRun`, and
whether it holds the lease. `seen[w]` is the row it has read and will write back.
`heard` and `vouched` are history: what reached a provider or an agent, and what a
person or an agent reported done. How a message travels, `mode`, is fixed: to a
provider's chat, to an agent's webhook, or into an agent's inbox.

| Code | Actions |
|---|---|
| `updateMessage` | `Read`, `Write`: it reads the row and writes every column |
| `POST /chat`, `/messages/:id/assign`, retry, reroute | `Choose` and `Send`, `Unroute` |
| `GET /inbox`, acks and status reports, `POST /runs/:id/finish` | `Fetch`, `Report`, `FinishRun` |
| `deliveryAlreadyHandled`, the deliver handlers | `TakeDelivery`, `Return` |
| `deliverToConnection`, `deliverMessage`, `beginRun` | `Quota`, `Begin`, `Link` (the second statement of `startRun`), `Gate` |
| `performChatSend`, `performWebhookDeliver` | `Perform`, `Call`, `Answer`, `Post` |
| `endRun`, `finishParked` | `End`, `Finish`; `Refuse`, `Unpark` |
| `settleDecision`, `decide` | `Resume`, `Decide` |
| `reapStaleRuns`, `sweepStuckDeliveries` | `Reap`, `Mourn`; `Stuck`, `Sweep` |
| the watchdog, the process | `Abandon`, `Crash` |

Which write an activity is about to do is its label; `Patched` says what that write
sets and `After` where the activity goes then.

### Routing, ChatDrive, Commands

`Router` is router.ts as operators, translated line by line: `Best` and
`KeywordConnection`, `ClaudeConnection`, `RouteToConnection` for the chat; `Ranked`,
`Doubtful`, `Share`, `Suggestions`, `RouteMessage` for messages to tasks.

`Routing` has one message: the columns the router fills (`method`, `confidence`, the ranked
`options`), `attempts`, `platform`, `task`, its deliver jobs and its last run.

| Code | Actions |
|---|---|
| `POST /chat`, `POST /messages` | `Post`, `DecideChat` or `DecideMessage`, `AssignRouted`; `Dies` in between |
| `POST /messages/:id/assign` and `/retry`, `POST /chat/:id/send` | `Assign`, `Send`: of whatever message, beside a queued job, after a run or a hand-back |
| `POST /messages/:id/reroute` | `Reroute`: decided anew, not sent, the platform kept |
| deliver jobs, `deliveryAlreadyHandled` | `Begin`, `Drop`, `Lose`, `Pass`, `HandBack` (the provider is busy), `End` |
| `sweepStuckDeliveries` | `Look` (what it has read of the row), `Resend`, `GiveUp`, `Repair` |

`headed`, `resent` and `aside` are history: where the last decision sent it, where the sweep
has, and that the row does not tell the first.

`ChatDrive` has one `sendThroughBrowser`: `Start`, `Open` and `OpenStalls` (with
the second tab of `PageController.open` and the retry of the send), `Check`,
`Compose`, `NoComposer`, `Fill`, `Send`, then the reply loop, whose two reads of
the page are two steps (`Poll` reads the text, `Look` the busy indicator), and its
ends `TimeIsUp`, `WaitThrows`, `Interrupted`, and `ReadsOut` (the last report of progress
throws Stop). The site writes (`Write`), shows a
thread's older answers late (`ShowOlder`) and may put up a bot check.

`Commands` has `handleControl` and `executeCommand` of each message beside the
job of the run it starts: `Post` to `Record` are the handler's awaits, `Claim` to
`Tell` the run's, and the reaper's two writes are `Reap` and `ReapRow`.

### Registry

One task and every handler that writes it: `Report` (`POST /ingest`), the fold of a
sync, `Poll` (a mailbox), `Edit`, `Delete`. `upsertTask`, `updateTask`,
`upsertAgentProfile`, `recordRun` and `addEvent` are the statements they are
(`FindTask`, `PutTask`, `Raced`, `ReadBack`; `ReadRow`, `WriteRow`; `FindProfile`,
`PutProfile`; `FindRun`, `PutRun`, `RacedRun`; `Hear`, `Tell`), so that two inserts
are decided by the unique index and two updates by who writes last. A statement that throws
ends a poll with the mails that were left (`Throws`).

### Fleet, SignIn, Profile

`Fleet` has, of each (workspace, provider) key, the saved session `blob`, a `claim`
with its owner and whether it has run out, and of each worker its open `context`s,
the `connections` map (`mapped`), its `chain` of jobs and its renewal timers. A job
is `Enqueue` and then `JobStep`s, one per await of `withLock` and `connection`;
`SealStep` and `ErrandStep` are those of `seal`, `importProviderState`,
`startDesktopSignIn` and `backupSessions`. A session is a number: a later one is a
newer state of the signed-in account. What may go wrong with it are actions: a saved session
that cannot be opened or parsed counts as none (`LoadUnreadable`), a save throws (`SealFails`,
`SaveFails`), a worker shuts down and seals what it has (`Shutdown`). `lost` and `crossed` are
history: a key is crossed once a context of it was opened without the session it has, or it
was saved while somebody else held it too.

`SignIn` has the pairing rows, each helper's request, the browser operation of its
import and its job. `CallOp`, `Poll`, `GiveUpOnOp` are `callBrowserOp`; `TakeOp`,
`StoreSession`, `CheckSignIn`, `OpThrows` are `executeBrowserOpJob`; `Exchange` and
`ReplaceOthers` are second statements after a read or an insert.

`Profile` has the chain (`queue`), the one `context` and the Chromium that may be
`launching`, the sign-in in progress, its `window`, and what `desktopDone` and
`desktopJob` point at. `GetContext`, `Launched`, `LaunchReturns` are launch and its
await; `BeginSignIn`, `CloseContext`, `Closed`, `Spawn` or `SpawnThrows`, `EndSignIn` the
sign-in's job; `Ask` and `Answer` a person's finish or cancel.

### Live view, live updates, ProviderSync

`Screencast` is `acquireStream` and `releaseStream`, with the awaits in between;
`LiveView` adds pages, sockets and followers (`Watch`, `Attached`, `Leave`, `Follow`). A
viewer leaves whatever watch of its is under way, and that watch attaches it all the same;
a sink nobody's leaving will take away is noted in `orphans`. `LiveRelay` adds the wants of
other processes, heard over Redis.

`LiveUpdates` follows one row: `Write` (notify), `Flush`, `Insert`, `Logged`,
`Receive` (Redis), the expansion and `Broadcast`; a page connects, is replayed to
(`ReadLog`, or `ReplayFails` and its resync, `Join`), hears (`HearRow`, `HearResync`) and
refetches (`Read`, `Answer`). `ExpansionFails`, `Prune`, `RedisLoses`, `NotLogged`, `Drop` and
`WorkerDies` are the losses.

`ProviderSync` has the provider's row, written back as a whole by every
`setPlatformState` (`ReadRow`, `WriteRow`), the browser's lock, the timer and the
flag of `syncAll`; `Look` is what a sync, a check or a chat sees of the site, `Fold`,
`EndSync` and `Tell` the end of `syncProvider`.

### Mirror, Accounts

`Mirror` follows the processes of one service: `Boot`, `Connect`, `RestoreFile`,
`Open`; `Tick`, `Snapshot`, `Upload`, `SaveEnds` are a save; `Shutdown`, `FinalSave`,
`Exit` and `Killed` its end. A file is the set of writes it holds.

`Accounts` has one handler per request, with a step per statement: `ReadLink` and
`UseLink` (two, decided by the guarded update), `Look`, `Check`, `Insert`,
`ReadRow`, `WriteRow`, `SignOutAll`, `Open`, `Remove`. A session carries the password
its request proved.

## 3. The runs

Deadlock is not checked anywhere: the system may really stop once every run and
every message is settled.

| Run | Instance | Shows |
|---|---|---|
| `task_race` | 1 task, 2 processes with a handler each, 2 deliveries per job; or a task row under 2 pushes, a fold, an edit, a deletion and 2 pollers of 1 mail | `HandedOverOnce`, `OneDriver`, `OpenRunHasNoLease`; `ReportTakesEffect`, `PauseStands`, `MailBecomesOneRun` |
| `crash_or_cap` | 1 task with a crash or lost send, or with late reports; or 2 tasks and 2 handlers under a cap of 1 | `NothingWithoutConsent`, `TasksStayUnderCap`, `SettledStays` |
| `live_run` | a task, a chat message, a dispatch or an agent's own run, 1 crash, 1 re-send | `MovesAreMapped`, `EveryRunSettles`, `KeepsContract` |
| `delivery_race` | a message to a chat, webhook or inbox, 2 activities, 2 requests, 1 fault; or its routing with 2 losses or changes of mind; or its way through a website; or 2 commands | `DoneMeansHeard`, `RouteIsKept`, `AnswerIsWhole`, `FollowsItsRun` |
| `fleet` | 2 browser workers, 2 providers, 3 jobs, an errand or a fault; or 3 processes with a mirror; or 3 account requests | `JobsTakeTurns`, `DrivenByItsHolder`, `SavedSessionStands`; `MirrorKeeps`; `SignedOutByAChange`, `LinkWorksOnce` |
| `services` | 2 pairings, 2 helpers, 1 death; or 2 jobs of a small fleet with a fault; or 1 message, a second request or a re-send, 1 fault | `DoneMeansSignedIn`, `OverStaysOver`, `NothingAfterTheAnswer`, `EveryPairingEnds`; `EveryJobEnds`; `WaitingEnds` |
| `screens` | a live view of 2 tabs and 2 pages; its relay for 2 processes; the persistent browser with 2 sign-ins; 3 changes of a row; the syncs of one provider | types; `FramesOfOneTab`, `ShowsItsTab`, `UnwatchedStops`; `SinksOfWants`; `WindowAlone`, `FinishIsHeard`, `SignInsEnd`; `LogKeepsOrder`, `EveryChangeIsTold`; `NothingWithoutEvidence`, `StaleStatusHeals` |
| `reaped_alive`, `waiting_room`, `delivery_lost`, `page_behind`, `command_refused` | the smallest that show it | the findings below: each checks one statement of the repository, and TLC finds it violated |

Each property is stated, with the code it is about, in the module of its
component; `PROJECT.json` gives for each a bug that would break it.

### Bounds

Runs touch each other only through the quotas and through the one `reaping` slot,
so one run at a time is enough for everything but the quotas, which have two. Two
handlers are enough for every race of a run with itself: each conflicting pair is
two activations, and the sweeps, people and reports need none. Two deliveries give
a retry beside its zombie; one re-send (`AttemptCap = 1`, 5 in the code) gives both
branches of the stuck sweep; one crash may hit any step. `MaxCrashes` counts process
deaths and lost sends together. Messages touch each other only through the quotas,
and `Delivery` lets a quota refuse at any time, so one message is enough; two
activities are enough for a lost update. Two AIs and two tasks give the router a
choice; two polls more than the reply loop needs to be sure (`Patience`) let an
answer pause and go on. One slot on each worker makes every second job evict; a
fleet fault is a stalled renewal, an unreadable session, a shutdown, an exit or a death (a
save may fail at any time); one of `LiveUpdates` is a failed insert, replay or expansion, a
loss of Redis, a stalled page or a death. Three processes give the
mirror a restart after a restart. Buffers of one overflow at once.

The CONSTRAINTs cut what remains, and what they cut is not explored: a liveness
property is checked of the behaviours within them.

* `TwoJobs`: two jobs in the queue at a time. `CrashOrCap`: a crash and a report
  are not combined, and two tasks come without crash, report or reaper.
* `FewHandlers`: two handlers of a task's row overlap, a third only with a person
  among them and no failed statement; a mail comes alone or with a deletion.
* `OneRun`: one run is born in `live_run`, or a task after an agent's own run that
  has used up the day.
* `CallsAreCalm`: a message to a chat or a webhook has one request and no fault; an
  inbox, where only rows are written, has two requests, or one and a fault. A message is
  lost, or decided anew, twice before it has a run, or once and sent again once, or once
  beside a run that waits; undisturbed it is sent again until it is given up. When a run has
  settled, the sweep does not send the message again, so its route is not at stake.
* `FaultOrErrand`, `TwoAtOnce`, `~apart`: a fleet has two jobs and a fault, or three
  jobs and an errand; two account requests overlap, and a third comes when one is
  over and no mail was lost; what happens after the mirror was lost once does not
  matter.
* `SignInBounds`: two imports; the second helper where there is one pairing and nothing
  dies; a death with one pairing and one import.
* `DeliveryBounds`: two runs of a message; or one run and a second request (to a webhook or
  an inbox, without a fault); or one run and a re-send after a death, which outside the inbox
  comes when the first job is gone for good.
* `ViewBound`, `UpdatesBound`, `OneCall`: the second page looks at the one tab the
  first follows, and there, and where calls overlapped, two changes are enough; a fault comes with one change less, and the last change is made
  when nothing is on the wire; one call besides the scheduler's sync, and two
  overlapping syncs only where both looks tell something.

The theorems below have none of these bounds.

### Fairness

No actor outside is fair: people, agents, reports, faults, crashes and providers
promise nothing. What is assumed is that the code runs.

* `RunLifecycle`: a worker takes its next step (every provider call has a timeout; a
  handler that hangs for ever while its timer heartbeats is *not* reaped by the code,
  and is excluded here); the queue hands out a job it holds again and again (strong
  fairness, because another worker may be busy); the maintenance sweeps reach each
  run: `services.ts:36-48` (one process) and `jobs.ts:204-214` (queue cron) run them
  every minute. `LeaseExpires` and `ExpireApproval` are clocks. The reaper looks at
  one run at a time, so `ReapLook` is strongly fair.
* `Delivery`: the same for its activities, queue, resumes, reaper and sweep (strong,
  because the workers are shared); an undecided request times out.
* `Fleet`, `SignIn`, `Profile`, `LiveView`, `LiveUpdates`, `ProviderSync`: weak
  fairness of `Work`, the union of the steps the process owes: continuations of
  awaits, timers, and the page's own reactions. In `ProviderSync` a person leaves the
  browser's screen some time.

### Findings

1. *A live run can be reaped* (`reaped_alive`). A parked run keeps the lease of its
   first pass. It runs out while a person thinks, and the claim in `settleDecision`
   makes the run running without renewing it. Until the resumer's first heartbeat (for
   a dispatch: at all) the reaper takes it for a crashed executor's leftovers.
2. *Queued runs block each other* (`waiting_room`). The concurrency count includes
   queued rows. Several runs queued over the cap refuse each other after the running
   one has ended, until their attempts are used up and the sweep fails them all.
3. *A lost message update is not repaired* (`delivery_lost`). The sweep says it
   repairs a message whose run settled while its own update was lost, but it looks at
   messages that are not delivered yet, and a chat message is set delivered before it
   is sent. A crash between `endRun` and `updateMessage` leaves it delivered for ever.
4. *A page may stay behind* (`page_behind`). Two changes of a row are expanded for the
   pages at the same time and nothing chains them: the older is written last.
5. *A started command reads failed* (`command_refused`). `executeCommand` takes a run
   that is still queued, or waits for approval, for one that could not be started; the
   message is failed at once and never follows the run.

## 4. The proofs

Every theorem holds for every value of the constants that satisfies the named
assumptions of its module: any number of runs, workers, processes, jobs, messages,
people, deliveries, viewers, faults and crashes. The modules that put components side
by side give each variables of its own and state the assumptions about all of them,
which TLC evaluates for the instances of the runs. In the table `V!`, `M!` and so on
are the instances of those modules: `R` is `Routing` in `Conversation`, `Registry` in
`Tasks` and `LiveRelay` in `Screens`; `A` is `Commands` in `Conversation` and `Accounts`
in `Workspace`; `C` is `ChatDrive`, `M` `Mirror`, `V` `LiveView`, `L` `LiveUpdates`,
`S` `ProviderSync`. The assumptions are those one expects: disjoint kinds of handlers
and calls, limits that are numbers, a name for "none" that names nothing else, calls
and sinks that belong to their viewer.

| Module | Theorem | Statement |
|---|---|---|
| `RunLifecycle_proofs` | `TypeCorrect`, `Invariant` | `Spec => []TypeOK`, `Spec => [](TypeOK /\ IInv)` |
| | `HandsOverOnce` | `Spec => []HandedOverOnce` |
| | `ConsentsFirst` | `Spec => []NothingWithoutConsent` |
| | `DrivesAlone` | `Spec => []OneDriver` |
| | `SettledForGood`, `DecidesOnce` | `Spec => SettledStays`, `Spec => DecidedOnce` |
| | `MovesAlongTheMap` | `Spec => MovesAreMapped` |
| | `StaysUnderCap` | `Spec => []TasksStayUnderCap` |
| | `OpenRunIsUnleased` | `Spec => []OpenRunHasNoLease` |
| | `ImplementsContract` | `Spec => KeepsContract` |
| `Tasks_proofs` | `RegistryInvariant` | `R!Spec => []RegistryInv` |
| | `ReportsTakeEffect`, `PausesStand` | `R!Spec => []ReportTakesEffect`, `R!Spec => []PauseStands` |
| | `MailsBecomeOneRun` | `R!Spec => []MailBecomesOneRun` |
| `Conversation_proofs` | `DeliveryTyped`, `DoneIsTrue` | `Spec => []TypeOK`, `Spec => []DoneMeansHeard` |
| | `CommandsInvariant`, `CommandsFollow` | `A!Spec => []CommandInv`, `A!Spec => []FollowsItsRun` |
| | `ChatInvariant`, `AnswersAreWhole` | `C!Spec => []ChatInv`, `C!Spec => []AnswerIsWhole` |
| | `RoutingTyped`, `RoutesAreKept` | `R!Spec => []R!TypeOK`, `R!Spec => []RouteIsKept` |
| `Fleet_proofs` | `FleetTyped` | `Spec => []TypeOK` |
| | `TurnsAreTaken`, `ClaimsHold` | `Spec => []JobsTakeTurns`, `Spec => []DrivenByItsHolder` |
| | `SessionsStand` | `Spec => SavedSessionStands` |
| `SignIn_proofs` | `Invariant` | `Spec => []SignInInv` |
| | `DoneIsSignedIn`, `OneCode` | `Spec => []DoneMeansSignedIn`, `Spec => []OneCodeWaits` |
| | `OverForGood`, `TakesAwaitedOps` | `Spec => OverStaysOver`, `Spec => NothingAfterTheAnswer` |
| `Profile_proofs` | `Invariant` | `Spec => []ProfileInv` |
| | `WindowIsAlone`, `AskersAreHeard` | `Spec => []WindowAlone`, `Spec => FinishIsHeard` |
| `Workspace_proofs` | `MirrorInvariant`, `MirrorIsKept` | `M!Spec => []MirrorInv`, `M!Spec => []MirrorKeeps` |
| | `AccountsTyped`, `LinksWorkOnce` | `A!Spec => []Typed`, `A!Spec => []A!LinkWorksOnce` |
| | `AChangeSignsOut` | `A!Spec => []SignedOutByAChange` |
| `Screens_proofs` | `ViewInvariant` | `V!Spec => []ViewInv` |
| | `FramesGoWhereTheyBelong`, `AtRestItShowsItsTab` | `V!Spec => []FramesOfOneTab`, `V!Spec => []ShowsItsTab` |
| | `RelayInvariant`, `RelayKeepsItsSinks` | `R!Spec => []RelayInv`, `R!Spec => []SinksOfWants` |
| | `ViewTypes`, `RelayTypes` | `V!Spec => []V!TypeOK`, `R!Spec => []R!TypeOK` |
| | `WritersInvariant`, `OutboxIsInOrder` | `L!Spec => []OrderInv`, `L!Spec => []LogKeepsOrder` |
| | `EvidenceInvariant`, `ClaimsHaveEvidence` | `S!Spec => []EvidenceInv`, `S!Spec => []NothingWithoutEvidence` |

Each inductive invariant was checked by TLC on a small instance before it was proved.

### Runs

`HandedOverOnce` is not inductive: that the work was not handed over before says
nothing of who else is on the way to the provider. `IInv` adds what the code
relies on without saying it. A run that is unborn, queued or parked is *fresh*:
nobody drives it and its work was not handed over (`FreshIsFree`). The only ways
out of a fresh status towards work are the guarded claims, whose winner is then
the only driver (`OneDriver`); no other write, not even an unguarded report,
leads back into a fresh status except the park, which its own driver takes and
which ends its driving. While somebody drives towards the call it was not made
(`CallIsAhead`). For consent, an approval exists only from the gate on, and a
worker past the gate has none or an approved one (`ConsentFollowsGate`). A
delivery's run is begun by one worker (`OneBeginner`), and a worker's job fits its
step (`JobFitsStep`).

Type correctness is proved by one lemma per group of actions. For `IInv` the steps
are sorted by what they do to the invariant: those that only quiet a worker, that
settle a run, that touch neither; a lemma for each class; and the few that matter
(`Claim`, `BeginDelivery`, `AskPolicy`, `Park`, `Resume`, `HandOver`) one by one.
The refinement maps a run's approval to the contract's consent, and to a permit:
*used* once handed over, *held* while a worker is past the gate, *void* once
nobody drives the run and it is not fresh, *unissued* otherwise.

For the cap, the set to bound is not that of the running runs but `Admitted`: these
and the queued runs whose handler has passed the quota. A handler that passes it has
counted every active run, so all of `Admitted` was among what it counted, and its own
run makes at most the cap; every other step only shrinks the set. For the leases,
`LeaseInv` says who can hold one: a handler between `EnterLease` and `LetGo`, or a run
that such a handler still heartbeats; the run that is left open was let go of first.

### Delivery

A message's row is copied: into `seen`, into the outcome an activity brings, into a
run's status and back. `DeliveryInvariant` says that a *done* is true wherever it
is kept: a row that somebody will write back, an activity on its way to `endRun`,
a successful run (the sweep repairs from it) all have it only of a message that
was heard or vouched for; that a row, its copy or an activity name runs of their
own message only (`TrueRow`, `TrueAct`), so that one message's success never
settles another; and that what an activity carries fits where it is (`Fits`). What
was heard stays heard and a run keeps its message, so stale copies stay true: one
lemma says so once, and each action only shows what it changes.

### The registry

A report goes through up to ten statements, and what it carries between them is `Carries`:
the number of the row it found or put in, the row it will write back, whether a run that it
will update was there. A run's row is never taken out of the table, only with its task, so
one that was found, or that the unique index refused, is there when it is updated, or the
task has another number (`Standing`); from that follows what a report is answered
(`Answers`). Numbers are drawn once (`Numbers`), so a deleted task is not taken for its
successor. For a mail: its event is heard once before it is flagged, and until the run is
there the poller that matched it is still at it, or failed (`MailOK`, `AtIt`). For a
pause: while no write overlapped a person's, every row that somebody will write back was
read after it (`WordOK`).

### Commands

`FollowsItsRun` speaks of messages at rest. What holds on the way is that a row that was
told of its run says so still, or says how the run ended; and that while it says that the
run goes on although it has ended, somebody is about to write that: the run's handler
after `endRun`, or the reaper (`RowFollows`). For this one has to know where the job of
a run may be in each status (`JobFits`), and that the handler words one answer, before
which no run was started (`HandlerFits`).

### A send through a website

A chat holds at most one answer to a message, and only to messages that arrived in it
(`OneEach`); a message arrives at most once in each of the two tabs (`Arrivals`), and the
count taken before it was sent covers the thread's older answer (`HasCounted`). So the
last answer of a chat that has more than were counted is one to this message, and it is
not any more changed once the provider is not writing. The reply loop reads the text and
then the busy indicator, so the text it has may be older than the indicator; `Reads` says
that two reads alike with no writing between them are of a whole answer: between them the
provider had stopped, and what stops is whole.

### Routing

`RouteIsKept` compares what the sweep sends, after any number of losses, sweeps and changes of
mind, with the last decision. The sweep decides anew from the columns of the row: from its task,
from the platform and, without one, from the best of its options. So the invariant has to say
that these columns still tell the decision: the platform is not there before a run has begun
(`Unsent`), so what the sweep goes by is the task, which is the decided one, or the options,
the best of which is (`Legible`); what the sweep has read and not yet acted on tells the same
(`Pending`); and a request that is still to assign its message knows to whom (`Owing`). The
second needs the router: that what it is confident of comes first in the list it makes, and
that no other option is given a higher score, although a close second lowers the first's.
The model names the places of a list by their
ranks; that each rank is somebody's is a lemma on finite orders (`EachPlaceIsTaken`), proved
by counting predecessors, so that no induction over the list is needed.

### Fleet

`Base` is the type invariant with `FirstHasTurn` (whoever is under way is the first of
its chain, so two of one chain are one) and `ConnIsThere` (a worker's map names open
contexts of its own). `HoldsLive` says that a job under way that lost nothing holds a
live claim. For the saved session: a backup that is about to be written is not newer
than what was read (`BackupIsBehind`), nothing is newer than `newest`, and where
nobody has crossed, which includes that no context was opened without the session that was
there, whoever may still save a key holds a session at least as new as the saved one
(`HoldersAreAhead`).

### Pairing

`SignInInv` says that a helper past its exchange has its pairing for good
(`HelpersHavePairings`), that nobody says *accepted* of a session that was not stored
before (`AcceptedIsStored`), and that a pairing that is done has no token and whoever
brought its session is at rest (`DoneIsClosed`): nothing is under way that could take
it back. While nothing dies, an op that a worker may still take has its caller waiting
(`OpenOpIsAwaited`), so no worker acts after the answer. `OneCodeWaits` is inductive
beside it: of two waiting codes one was inserted first, and the other's
`replaceWaitingPairings` has not run yet, so its creator is in `creating`. (It is proved
only; no run spends its time on it.)

### Persistent browser

The lock has one holder, and it is the head of the chain (`HolderIsHead`); every
Chromium is known by whoever launches, uses or closes it (`ChromesAreKnown`); the
window is the holder's (`WindowIsHolders`). A context, or a launch under way, beside a
sign-in past the closing of the automation is one of `slipped` (`OutOfTheWay`). For
`FinishIsHeard`: of two sign-ins accepted and not over, each was overtaken; any other
is the one `desktop` and `jobOf` stand for, so an asker waits for it (`AskInv`).

### Mirror

As long as no process comes up without a file of the mirror or beside another, the one
that runs is the newest (`NewestRuns`) and its disk is ahead of the mirror
(`DiskIsAhead`): it was given the mirror's files before it was up (`GivenTheMirror`),
it only adds to its files, and what a save under way has read is ahead of the mirror
as well (`SnapIsAhead`). The newest disk stays ahead when its process ends, so the next
process may start from it.

### Accounts

A request that will open a session knows a password of its account from the moment it
looked the account up (`KnowsTheWord`): if it is not the one that counts any more, then
the request is a late one, or the account is excused, or somebody is about to sign it
out, which makes the request late. A session stands for the password its request knew.
A link, once made, stays spent once it is (`LinksAreMadeOnce`), and the guarded update
redeems an unspent one only.

### Live view and its relay

A viewer's calls and sinks are its own,
so `ViewInv` is said of one viewer at a time (`Served`) and a step of another one does
not touch it. A call that nothing came between is the only one of its viewer
(`CallsAreAlone`), its sink is in no stream before it has come to one
(`CallsAreTheirs`), and the viewer's last call, if nothing came between, is the one it
is attached by (`LastIsLast`), to the tab it is to see (`LastIsRight`). All this is said of a
viewer that has left as well, since its watches go on: a sink that comes then, or that another
is noted over, is one of `orphans`, and those are the only frames that go to nobody. While an
announcement is under way the viewers it has not come to are excused of the last, and
of nothing else. A tab that closes takes its stream and the calls for it along, so no
frame of it is left (`FramesAreTheirs`).

For the relay: a call under way is the only one for its want, which waits for it
(`CallIsWanted`, `OneCall`); its sink is not in the stream while the call is opening
(`OpeningIsOut`), and once it is there the want is attached or will be
(`HeldOrComing`), so a want that is dropped takes its sink along.

Their types are a second pair of invariants beside these: a tab is listed once, the one in
front is listed, and, of the relay, a session is being opened on a listed tab only, since a
tab that closes fails the calls that open one.

### Updates of a page

Of one process's changes, those in the buffer come after those of the batch under way,
and those after the ones in the outbox (`BufferInOrder`, `BatchInOrder`, `LogIsFirst`).
A batch has no ids until its insert runs, and then all of it has (`DrawnAtOnce`): a
failed batch goes back in front of the buffer before anything of it was in the outbox,
and the next flush waits for the one before it.

### A provider's session

`Evidence` says it of every place a claim is kept: the row, each caller's copy of it,
the row a sync read before its look, and each verdict. A claim starts at a look at a
site that shows a session, and from there on is only copied; that somebody was signed
in stays true, so copies may be as stale as they like.

### What stays with TLC

* Liveness and anything else that speaks of `ENABLED`, which is out of the prover's
  reach: `EveryRunSettles`, `EveryPairingEnds`, `EveryJobEnds`, `WaitingEnds`,
  `EveryChangeIsTold`, `UnwatchedStops`, `SignInsEnd`, `StaleStatusHeals`.
* Of the types, those of `LiveUpdates` beyond its writers: what a page is replayed is
  sorted by an operator that is defined by a choice among permutations, and that there is
  one would be proved by induction. `TypesOK` of the run `screens` checks these; every other
  variable's type is proved, in a theorem of its own or in an inductive invariant. Every
  other safety or action property of a passing run is the statement of a theorem.
* What the router computes for a text, beyond what its decisions have in common: its
  operators are functions of finite data that TLC enumerates.

## 5. What the code does that a reader may not expect

The properties name their exceptions, and the code has them.

*Runs.* `recordRun` updates a known row without looking at its status, where
`runs.ts:186` says that a settled run never changes its outcome: a report may rewrite or
reopen a settled run, exceed the cap, and revive an old lease. Hence `SettledStays` and
`MovesAreMapped` except it, `TasksStayUnderCap` does not count runs that a report may
revive, and `OpenRunHasNoLease` is about the others, while no process dies.
`requeueStuckTaskRuns` and the daily quota move a queued run to failed, a move
`RUN_TRANSITIONS` does not have although `packages/core` says that one writer enforces
that map. A webhook run resumed after an approval and left open keeps its first lease
(`deliver.ts:350`, `runs.ts:118-123`) and is failed after five minutes instead of thirty.
`startTask` does not look at `task.enabled`, although `answers.ts:215` tells the person
it will not be started. `TasksStayUnderCap` holds because a queued rival is counted: the
same counting that makes `waiting_room` fail. Deliveries check their quota before their
row exists (`deliver.ts:26`) and two deliver jobs of one message may both pass
`deliveryAlreadyHandled` (`jobs.ts:51`): a message is sent at least once, and nothing
states more.

*Messages.* `DoneMeansHeard` is the safety of the message row: among repairs from a run's
outcome, write-backs of stale rows and late finishes, none may turn a message nobody
received into a done one. `WaitingEnds` is checked with a re-send and with a second request. It excepts a message over
which somebody holds an older row than its own (`Overtaken`): a stale write-back (an ack read
before a new send) may clear the run and the destination of a message that was just sent, and no
sweep looks at it then; another may put back the count of attempts, over and over. `last_platform` is
the newest-created message's, so re-sending an older one to another AI does not move the
thread. A message whose job is lost after `POST /chat/:id/send` is re-sent to the best
option, or to its old task, and not to the AI that was picked (`jobs.ts:115-126`,
`api.ts:949-958`); one posted with `{auto: false}`, or routed anew by `/reroute`, is sent after
ten minutes if the router was confident (`jobs.ts:113-115`); and the sweep, which goes by the
age of the message, may read the row before a new decision and re-send and write back after it.
These are the cases that `RouteIsKept` excepts (`aside`). `GET /inbox` maps its messages to
promises it does not await (`api.ts:634-638`), so the agent is told `{}` for each; the row is
marked all the same, and `Fetch` is about the row.

*Commands.* The started run may end before `handleControl`'s last write, which then puts
"delivered" back for good; a stale snapshot of the steps may overwrite the reaper's
"failed" (`crossed`). "approve" answers "Approved" even when `decide` returned nothing
(`answers.ts:192`). Stop on a command's message stops nothing, since task runs have no
message (`api.ts:968-976`).

*Websites.* A tab lost while the answer is awaited makes the retry send the message a
second time. Older answers that appear late, or a count that failed, can make an old
answer pass for the new one (`misread`); without a busy selector a pause of three polls
reads a partial answer as whole.

*Fleet.* `seal` unmaps a connection before it saves it, so a new job may open the key with
the older session, and the seal's late `releaseClaim` gives away the new connection's claim
(`docs/railway.md:267-268` and `fleet.ts:44-50` say otherwise). A claim and its renewal leak
when `connection()` fails after `acquireClaim`; the slot caps may be overshot, since they are
checked before an await; an import deletes whatever the map holds after one, and does not
touch another worker's open connection; a backup may write a session that a seal has
replaced. A saved session that cannot be opened or parsed counts as none
(`session-store.ts:62-67`, `fleet.ts:370-376`): an empty context opens, and its seal overwrites
what was saved. `SavedSessionStands` excepts these overwritings (`crossed`), and no other step
of the model.

*Sign-ins.* Two creates at once may replace each other. `exchangePairing` finds and then
updates by id, so two exchanges may succeed and a dead pairing may be revived by one;
`cancel`, `finish` and `markImporting` are not guarded either. An import that finds this
process's browser held leaves the pairing importing, with its token (`api.ts:388`). A caller may throw 504
although the worker's done stood. The persistent browser's warm-up, import and export launch
outside the lock, and put automation and window on one profile (`manager.ts:360`,
`slipped`); a stale close event forgets a newer context; two starts before the first window
opens are both queued and overwrite `desktopDone` and `desktopJob` (`manager.ts:223`,
`overtaken`).

*Live view and updates.* A viewer that leaves while a watch of it awaits is attached after it has
left (`live.ts:363-368` beside `167-175`), and of overlapping attaches the one that is noted over
keeps its sink: both stay in the stream, get frames and keep the screencast running until the
tab closes (`orphans`, which `FramesOfOneTab` and `UnwatchedStops` except); a want of the relay
that is dropped while it is being attached leaves its sink too (`tangled`); two opens of one
tab overwrite the streams map; a watcher whose tab closes and opens again stays attached to
nothing. `DeadApiCostsOneTTL` (`live-relay.ts:106`)
is violated by two messages that open one stream; no run is spent on it. A connection closed
before `addClient` stays a client; a resync within five seconds of another is ignored.
A notification that cannot be expanded is dropped (`live.ts:140-143`).

*Syncs and reports.* Syncs write outside the lock and every `setPlatformState` writes the
whole row, so a stale write may restore an older status or forget a sign-in. A bot check
raises the alarm of a lost sign-in; a loss first noticed by a chat raises none. `updateTask`
and `ensureTaskAgent` overwrite concurrent edits; a report of a task deleted under it may be
answered ok; a mail whose poller dies, or a statement of which throws, between event and run
never gets its run, and what throws also ends the poll, with the mails that were left
(`email.ts:109`).

*Mirror.* A failed query or connection while restoring leads to an empty database, later
saved over the mirror (`persist.ts:92-94`, `apart`); the final save joins one that is under
way and may miss what was written since (`persist.ts:104`); overlapping processes overwrite
each other; a failed `connect()` is never retried.

*Accounts.* `updateUser` writes all columns back, so a sign-in's `last_login_at` may undo a
password or role change (`excused`). Two first runs at once make two owners; a sign-up that
loses the race for its address leaves a workspace without an account. After a verification
mail that failed, a repeated sign-up only says "already registered".

## 6. Not modelled, and the plan

Left out of `RunLifecycle`: the step timeline; deleting tasks and messages, which cascades
to runs; approvals an external agent requests for itself; runs of kind action, sync, email
and discovered. Left out of `Delivery`: browser-action and manual deliveries, changing how a
task is reached while a message is on its way. Left out of `Routing`: two runs of one message at
a time and lost updates of its row, which `Delivery` has; deleted tasks; the two writes that end
a run are one step. Left out of `Fleet`:
`sweepIdle` and `close` go through a copy of the connections (`fleet.ts:449`, `660`), so one that
a sign-in has dropped while they were sealing another is sealed all the same: that unmaps its
successor and gives its claim away, and may save the old session if the dropped context has not
closed yet. Left out of `LiveRelay`: the await of `refreshLevel` between
hearing a want and opening its stream (`live-relay.ts:87-93`). Left out of `Profile`: a child that
outlives SIGKILL (`manager.ts:608`). Left out of `ProviderSync`: a
cookie that outlives its session, which `login.ts:38-41` takes for a sign-in; where that happens
`StaleStatusHeals` does not hold. Left out of `LiveUpdates`: several shards, a lost Redis
connection, the page's own fetches failing; a row's `UPDATE`, its re-read and its notification
are one step, though they are awaits (`data`, `index.ts:711-714`), so two changes may be announced
in another order than they were made. Left out of `Accounts`: hashes, the bearer credential and
the caches, workspaces, the rate limiter. Not modelled at all: custom actions
(`src/actions.ts`: the protocol of `RunLifecycle` inside one request, without a lease),
rendering, parsing and extraction, migrations and the starting of services, the SQL of the
two database drivers beyond the statements above. Of the helper program (`connect.mjs`) there
is the loop that waits for the sign-in and hands it over (`AskImport` of `SignIn`).

What was planned is built, checked and proved but for these, in the order in which they
would add most:

1. Custom actions as a module of their own, with `RunContract` as what they implement.
2. The rate limiter's window and the bearer credential's cache against reference definitions.
3. Several shards and a lost subscription in `LiveUpdates`.
