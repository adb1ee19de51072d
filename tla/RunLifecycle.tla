---------------------------- MODULE RunLifecycle ----------------------------
(***************************************************************************)
(* The life of a run: born queued (a task) or running (a message delivery, *)
(* an agent's own run), claimed by a job handler, gated by policy, parked  *)
(* on an approval, resumed by a job on any process, performed once at the  *)
(* provider and settled; with the maintenance sweeps that repair what a    *)
(* crash, a lost job or a race leaves behind.                              *)
(*                                                                         *)
(* A worker is one activation of a job handler.  Each step of a worker is  *)
(* the code between two awaits on shared rows: everything else may happen  *)
(* in between.  Time is abstract: a lease may expire when nobody renews    *)
(* it, an approval may time out, a sweep may run, at any moment.           *)
(*                                                                         *)
(* A run asks policy at most once (its gate is before its only provider    *)
(* call), so its approval row is indexed by the run itself.                *)
(***************************************************************************)
EXTENDS RunStatus, Naturals, FiniteSets

CONSTANTS
  TaskRuns,       \* runs of a provider's standing task, executed by task.start
  ChatRuns,       \* runs of a message sent to a provider's chat
  DispatchRuns,   \* runs of a message handed to a task's agent
  ExternalRuns,   \* runs an agent opens and reports itself
  Workers,        \* handler activations that may be alive at once
  Procs,          \* operating system processes
  ProcOf,         \* the process of each worker
  Resumers,       \* run kinds that can be continued: a resumer, a checkpoint it can read
  MaxDeliveries,  \* retryLimit + 1 of a queue (1 for the inline engine)
  AttemptCap,     \* re-sends of a lost start job before giving up (5 in the code)
  MaxConcurrent,  \* concurrency quota, 0 for unlimited
  MaxDaily,       \* daily quota, 0 for unlimited
  MaxCrashes,     \* bound: crashes and lost sends in one behaviour
  Reports,        \* statuses an external report may carry
  NoJob, NoLease, NoRun

Runs == TaskRuns \cup ChatRuns \cup DispatchRuns \cup ExternalRuns

Kind(r) == IF r \in TaskRuns THEN "task"
           ELSE IF r \in ChatRuns THEN "chat"
           ELSE IF r \in DispatchRuns THEN "dispatch" ELSE "external"

\* A job is named by its queue, its run and its singleton key.
StartJob(r, n) == [type |-> "start", run |-> r, key |-> n]
DeliverJob(r)  == [type |-> "deliver", run |-> r, key |-> 0]
\* The three senders of a resume job: decide and the sweep, guard, the reconciler.
ByDecision == 0
ByGuard    == 1
ByReconcile == 2
ResumeJob(r, k) == [type |-> "resume", run |-> r, key |-> k]

Jobs == [type : {"start"}, run : Runs, key : 0..AttemptCap]
   \cup [type : {"deliver"}, run : Runs, key : {0}]
   \cup [type : {"resume"}, run : Runs, key : {ByDecision, ByGuard, ByReconcile}]

ApprovalStatus == {"pending", "approved", "rejected", "expired", "interrupted"}

ASSUME KindAssumption ==
  /\ TaskRuns \cap (ChatRuns \cup DispatchRuns \cup ExternalRuns) = {}
  /\ ExternalRuns \cap (ChatRuns \cup DispatchRuns) = {}
  /\ ChatRuns \cap DispatchRuns = {}
ASSUME BoundsAssumption ==
  /\ MaxDeliveries \in Nat \ {0}
  /\ AttemptCap \in Nat
  /\ MaxConcurrent \in Nat /\ MaxDaily \in Nat /\ MaxCrashes \in Nat
ASSUME FiniteAssumption == IsFiniteSet(Runs)
ASSUME ProcAssumption == ProcOf \in [Workers -> Procs]
ASSUME ReportAssumption ==
  Reports \subseteq {"success", "failed", "running", "needs_attention", "unknown"}
ASSUME SentinelAssumption ==
  /\ NoJob \notin Jobs
  /\ NoRun \notin Runs
  /\ NoLease \notin [by : Procs, live : BOOLEAN]

VARIABLES
  status,     \* runs.status, "none" before the row exists
  attempt,    \* runs.attempt
  cancel,     \* runs.cancel_requested
  lease,      \* runs.lease_expires_at and runs.locked_by
  external,   \* the runs with an external_id
  approval,   \* approvals.status of the run's approval, "none" when there is none
  left,       \* deliveries the queue may still make of each job
  pc, job,    \* what each worker does next, and the job it was given
  zombie,     \* the worker outlived its deadline: the queue no longer waits for it
  reaping,    \* the run the reaper has re-read as dead and is about to fail
  crashes,    \* crashes so far
  handed,     \* how often each run's work was handed to its provider
  open        \* the runs an executor left running on purpose

vars == <<status, attempt, cancel, lease, external, approval, left, pc, job,
          zombie, reaping, crashes, handed, open>>

rowVars    == <<status, attempt, cancel, lease, external, approval>>
workerVars == <<pc, job, zombie>>
ghostVars  == <<handed, open>>

----------------------------------------------------------------------------
(* Workers and the queue *)

Idle(w) == pc[w] = "idle"
Works(w, r) == ~Idle(w) /\ job[w].run = r

\* The gate is behind this worker and the provider call ahead of it.
MayPerform(w, r) == Works(w, r) /\ pc[w] \in {"perform", "call"}

\* It is between claiming the run and letting go of it.
Drives(w, r) == Works(w, r)
  /\ pc[w] \in {"lease", "gate", "park", "perform", "call", "settle"}

\* The first execution of a run is leased; of the resumers, chat and task are.
UsesLease(j) == j.type = "resume" => Kind(j.run) \in {"task", "chat"}

\* The handler is inside withRunLease: its heartbeat timer is armed.
Heartbeats(w, r) == Works(w, r) /\ UsesLease(job[w])
  /\ pc[w] \in {"gate", "park", "reread", "perform", "call", "settle", "leave"}

\* Another activation the queue is still waiting for holds this job.
IsActive(j) == \E w \in Workers : ~Idle(w) /\ job[w] = j /\ ~zombie[w]

Minus(n) == IF n = 0 THEN 0 ELSE n - 1

\* A send is dropped while a job of the same singleton key is there.
Sent(j) == [left EXCEPT ![j] = IF @ = 0 THEN MaxDeliveries ELSE @]

\* A row was written and its job is sent next; the process may die in between.
Enqueue(j) == \/ left' = Sent(j) /\ UNCHANGED crashes
              \/ /\ crashes < MaxCrashes /\ crashes' = crashes + 1
                 /\ UNCHANGED left

\* The worker is handed job j and goes on at label l.
Given(w, j, l) == /\ pc' = [pc EXCEPT ![w] = l]
                  /\ job' = [job EXCEPT ![w] = j]
                  /\ UNCHANGED zombie

Goto(w, l) == pc' = [pc EXCEPT ![w] = l] /\ UNCHANGED <<job, zombie>>

Release(w) == /\ pc' = [pc EXCEPT ![w] = "idle"]
              /\ job' = [job EXCEPT ![w] = NoJob]
              /\ zombie' = [zombie EXCEPT ![w] = FALSE]

\* The handler returned: the job is complete, unless the queue gave it up before.
Done(w) == Release(w)
  /\ left' = IF zombie[w] THEN left ELSE [left EXCEPT ![job[w]] = 0]

\* The handler threw: the queue delivers the job again while it has retries.
Thrown(w) == Release(w)
  /\ left' = IF zombie[w] THEN left ELSE [left EXCEPT ![job[w]] = Minus(@)]

\* Mutant of Ended: the UPDATE does not look at the status it leaves.
EndedAnyway(r, o) == [status EXCEPT ![r] = o]

\* endRun and finishRun: only a running run is finished.
Ended(r, o) == [status EXCEPT ![r] = IF @ = "running" THEN o ELSE @]

\* Mutant of LetGo: the finally clears nothing.
LetGoKeeps(w) == lease' = lease

\* The finally of withRunLease.
LetGo(w) == LET r == job[w].run IN
  lease' = IF /\ UsesLease(job[w]) /\ status[r] = "running"
              /\ lease[r] # NoLease /\ lease[r].by = ProcOf[w]
           THEN [lease EXCEPT ![r] = NoLease] ELSE lease

----------------------------------------------------------------------------
(* Birth *)

Init ==
  /\ status = [r \in Runs |-> "none"]
  /\ attempt = [r \in Runs |-> 0]
  /\ cancel = [r \in Runs |-> FALSE]
  /\ lease = [r \in Runs |-> NoLease]
  /\ external = {}
  /\ approval = [r \in Runs |-> "none"]
  /\ left = [j \in Jobs |-> 0]
  /\ pc = [w \in Workers |-> "idle"]
  /\ job = [w \in Workers |-> NoJob]
  /\ zombie = [w \in Workers |-> FALSE]
  /\ reaping = NoRun
  /\ crashes = 0
  /\ handed = [r \in Runs |-> 0]
  /\ open = {}

\* Mutant of AtConcurrencyCap: only running rows count.
OnlyRunningCounts(self) ==
  /\ MaxConcurrent > 0
  /\ Cardinality({r \in Runs : status[r] = "running"}) >= MaxConcurrent

\* enforceRunQuotas: every active row counts, minus the run's own when it has one.
AtConcurrencyCap(self) ==
  /\ MaxConcurrent > 0
  /\ Cardinality({r \in Runs : status[r] \in ACTIVE_RUN_STATUSES}) - self
       >= MaxConcurrent
AtDailyCap(self) ==
  /\ MaxDaily > 0
  /\ Cardinality({r \in Runs : status[r] # "none"}) - self >= MaxDaily

\* startTask: the run is born queued, then its start job is sent.
StartTask(r) ==
  /\ r \in TaskRuns /\ status[r] = "none"
  /\ status' = [status EXCEPT ![r] = "queued"]
  /\ Enqueue(StartJob(r, 0))
  /\ UNCHANGED <<attempt, cancel, lease, external, approval, workerVars,
                 reaping, ghostVars>>

\* A delivery handler passes the quota before the run of its message exists.
TakeDelivery(w, r) ==
  /\ Idle(w) /\ r \in ChatRuns \cup DispatchRuns /\ status[r] = "none"
  /\ ~\E v \in Workers : Works(v, r)
  /\ ~AtConcurrencyCap(0) /\ ~AtDailyCap(0)
  /\ Given(w, DeliverJob(r), "begin")
  /\ UNCHANGED <<rowVars, left, reaping, crashes, ghostVars>>

\* beginRun: the run is born running.
BeginDelivery(w) ==
  /\ pc[w] = "begin"
  /\ status' = [status EXCEPT ![job[w].run] = "running"]
  /\ Goto(w, "lease")
  /\ UNCHANGED <<attempt, cancel, lease, external, approval, left, reaping,
                 crashes, ghostVars>>

\* An agent opens a run of its own (running), or recordRun inserts one that was never
\* heard of as reported; either may name its external id.
OpenExternal(r) ==
  /\ r \in ExternalRuns /\ status[r] = "none"
  /\ \E s \in {"running"} \cup Reports : status' = [status EXCEPT ![r] = s]
  /\ external' \in {external, external \cup {r}}
  /\ UNCHANGED <<attempt, cancel, lease, approval, left, workerVars, reaping,
                 crashes, ghostVars>>

----------------------------------------------------------------------------
(* The start job: executeTaskRun up to the gate *)

Deliverable(w, j) == Idle(w) /\ left[j] > 0 /\ ~IsActive(j)

\* Over the concurrency cap the handler throws and the job waits for its retry.
RefuseForNow(w, j) ==
  /\ j.type = "start" /\ Deliverable(w, j) /\ AtConcurrencyCap(1)
  /\ left' = [left EXCEPT ![j] = @ - 1]
  /\ UNCHANGED <<rowVars, workerVars, reaping, crashes, ghostVars>>

\* The quota was read; the claim, or the refusal for today, comes next.
TakeStart(w, j) ==
  /\ j.type = "start" /\ Deliverable(w, j) /\ ~AtConcurrencyCap(1)
  /\ Given(w, j, IF AtDailyCap(1) THEN "refuse" ELSE "claim")
  /\ UNCHANGED <<rowVars, left, reaping, crashes, ghostVars>>

\* finishParked of a run that is over the daily cap and still queued.
RefuseToday(w) == LET r == job[w].run IN
  /\ pc[w] = "refuse"
  /\ status' = [status EXCEPT ![r] = IF @ = "queued" THEN "failed" ELSE @]
  /\ Done(w)
  /\ UNCHANGED <<attempt, cancel, lease, external, approval, reaping, crashes,
                 ghostVars>>

\* Mutant of Claim: the UPDATE does not look at the status it leaves.
ClaimTaken(w) ==
  /\ pc[w] = "claim"
  /\ status' = [status EXCEPT ![job[w].run] = "running"]
  /\ Goto(w, "lease")
  /\ UNCHANGED <<attempt, cancel, lease, external, approval, left, reaping,
                 crashes, ghostVars>>

\* The guarded UPDATE of one delivery wins; the others find the run taken.
Claim(w) == LET r == job[w].run IN
  /\ pc[w] = "claim"
  /\ \/ /\ status[r] = "queued"
        /\ status' = [status EXCEPT ![r] = "running"]
        /\ Goto(w, "lease") /\ UNCHANGED left
     \/ status[r] # "queued" /\ Done(w) /\ UNCHANGED status
  /\ UNCHANGED <<attempt, cancel, lease, external, approval, reaping, crashes,
                 ghostVars>>

\* The lease a heartbeat leaves behind.
Renewed(w) == LET r == job[w].run IN
  IF status[r] = "running"
  THEN [lease EXCEPT ![r] = [by |-> ProcOf[w], live |-> TRUE]] ELSE lease

\* withRunLease begins with one heartbeat.
EnterLease(w) ==
  /\ pc[w] = "lease"
  /\ lease' = Renewed(w)
  /\ Goto(w, IF job[w].type = "resume" THEN "perform" ELSE "gate")
  /\ UNCHANGED <<status, attempt, cancel, external, approval, left, reaping,
                 crashes, ghostVars>>

Heartbeat(w) ==
  /\ ~Idle(w) /\ Heartbeats(w, job[w].run)
  /\ lease' = Renewed(w)
  /\ UNCHANGED <<status, attempt, cancel, external, approval, left, workerVars,
                 reaping, crashes, ghostVars>>

----------------------------------------------------------------------------
(* The gate: guard *)

\* executeTaskRun asks isCancelled before the gate, deliveries do not; a task, a
\* webhook or a provider that is gone fails the run.
StopBeforeGate(w) == LET r == job[w].run IN
  /\ pc[w] = "gate" /\ Kind(r) \in {"task", "dispatch"}
  /\ \E o \in {"failed", "cancelled"} :
       /\ o = "cancelled" => Kind(r) = "task" /\ cancel[r]
       /\ status' = Ended(r, o)
  /\ Goto(w, "leave")
  /\ UNCHANGED <<attempt, cancel, lease, external, approval, left, reaping,
                 crashes, ghostVars>>

\* The policy may say auto, now, or ask: then the approval becomes visible first.
AskPolicy(w) == LET r == job[w].run IN
  /\ pc[w] = "gate" /\ ~(Kind(r) = "task" /\ cancel[r])
  /\ \/ Goto(w, "perform") /\ UNCHANGED approval
     \/ approval' = [approval EXCEPT ![r] = "pending"] /\ Goto(w, "park")
  /\ UNCHANGED <<status, attempt, cancel, lease, external, left, reaping,
                 crashes, ghostVars>>

\* A run that moved under its executor withdraws the request.
Withdrawn(r) == [approval EXCEPT ![r] = IF @ = "pending" THEN "expired" ELSE @]

\* Mutant of Park: the run is parked whatever it has become.
ParkAnyway(w) ==
  /\ pc[w] = "park"
  /\ status' = [status EXCEPT ![job[w].run] = "waiting_approval"]
  /\ Goto(w, "reread")
  /\ UNCHANGED <<attempt, cancel, lease, external, approval, left, reaping, crashes,
                 ghostVars>>

\* The run parks, or was settled meanwhile and the request is withdrawn.
Park(w) == LET r == job[w].run IN
  /\ pc[w] = "park"
  /\ \/ /\ status[r] = "running"
        /\ status' = [status EXCEPT ![r] = "waiting_approval"]
        /\ Goto(w, "reread") /\ UNCHANGED approval
     \/ /\ status[r] # "running"
        /\ approval' = Withdrawn(r)
        /\ Goto(w, "leave") /\ UNCHANGED status
  /\ UNCHANGED <<attempt, cancel, lease, external, left, reaping, crashes,
                 ghostVars>>

\* A decision that landed before the park found nothing parked: send it again.
Reread(w) == LET r == job[w].run IN
  /\ pc[w] = "reread"
  /\ left' = IF approval[r] = "pending" THEN left ELSE Sent(ResumeJob(r, ByGuard))
  /\ Goto(w, "leave")
  /\ UNCHANGED <<rowVars, reaping, crashes, ghostVars>>

----------------------------------------------------------------------------
(* The provider call and the end of a segment: performTaskStart, *)
(* performChatSend, performWebhookDeliver                          *)

\* An error leaves a task's segment: a start job rethrows it and the run stays
\* running, without a lease; settleDecision catches it and fails the run.
ThrowOut(w) == LET r == job[w].run IN
  /\ LetGo(w)
  /\ \/ job[w].type = "start" /\ Thrown(w) /\ UNCHANGED status
     \/ job[w].type = "resume" /\ Done(w) /\ status' = Ended(r, "failed")

\* track.start throws when Stop was pressed: an error in a task's segment, an
\* outcome of a message's, which may also find its provider not connected, its
\* message gone or, resumed, its task's delivery mode changed.
Perform(w) == LET r == job[w].run IN
  /\ pc[w] = "perform"
  /\ \/ ~cancel[r] /\ Goto(w, "call") /\ UNCHANGED <<status, lease, left>>
     \/ cancel[r] /\ Kind(r) = "task" /\ ThrowOut(w)
     \/ /\ Kind(r) \in {"chat", "dispatch"}
        /\ \E o \in {"failed", "cancelled", "needs_attention"} :
             /\ o = "cancelled" => cancel[r] /\ Kind(r) = "chat"
             /\ o = "needs_attention" => job[w].type = "resume" /\ Kind(r) = "dispatch"
             /\ status' = Ended(r, o)
        /\ Goto(w, "leave") /\ UNCHANGED <<lease, left>>
  /\ UNCHANGED <<attempt, cancel, external, approval, reaping, crashes, ghostVars>>

\* The provider or the agent's webhook gets the work.
HandOver(w) ==
  /\ pc[w] = "call"
  /\ handed' = [handed EXCEPT ![job[w].run] = @ + 1]
  /\ Goto(w, "settle")
  /\ UNCHANGED <<rowVars, left, reaping, crashes, open>>

Outcomes(k) == CASE k = "task"     -> {"success", "failed"}
                 [] k = "chat"     -> {"success", "failed", "cancelled"}
                 [] k = "dispatch" -> {"success", "failed"}
                 [] OTHER          -> {}

\* The provider answered: endRun, with the external id it may have given a task.
Settle(w) == LET r == job[w].run IN
  /\ pc[w] = "settle"
  /\ \E o \in Outcomes(Kind(r)) :
       /\ status' = Ended(r, o)
       /\ external' \in IF o = "success" /\ Kind(r) = "task" /\ status[r] = "running"
                        THEN {external, external \cup {r}} ELSE {external}
  /\ Goto(w, "leave")
  /\ UNCHANGED <<attempt, cancel, lease, approval, left, reaping, crashes, ghostVars>>

\* The provider took it, or the agent will fetch it from its inbox, and it reports
\* back: the run stays running on purpose.
LeaveOpen(w) == LET r == job[w].run IN
  /\ \/ pc[w] = "settle" /\ Kind(r) \in {"task", "dispatch"}
     \/ pc[w] = "gate" /\ Kind(r) = "dispatch"
  /\ open' = open \cup {r}
  /\ Goto(w, "leave")
  /\ UNCHANGED <<rowVars, left, reaping, crashes, handed>>

\* The adapter's runTask threw.
ProviderThrew(w) ==
  /\ pc[w] = "settle" /\ Kind(job[w].run) = "task"
  /\ ThrowOut(w)
  /\ UNCHANGED <<attempt, cancel, external, approval, reaping, crashes, ghostVars>>

Leave(w) ==
  /\ pc[w] = "leave"
  /\ LetGo(w) /\ Done(w)
  /\ UNCHANGED <<status, attempt, cancel, external, approval, reaping, crashes,
                 ghostVars>>

----------------------------------------------------------------------------
(* The decision and the resume job: decide, sweepApprovals, settleDecision *)

\* decide: the decision is recorded, then its resume job is sent.
Decide(r, d) ==
  /\ approval[r] = "pending"
  /\ approval' = [approval EXCEPT ![r] = d]
  /\ Enqueue(ResumeJob(r, ByDecision))
  /\ UNCHANGED <<status, attempt, cancel, lease, external, workerVars, reaping,
                 ghostVars>>

\* A running run is about to park: wait for it.  Any other but a parked one is done.
TakeResume(w, j) == LET s == status[j.run] IN
  /\ j.type = "resume" /\ Deliverable(w, j)
  /\ \/ s = "running" /\ Given(w, j, "poll") /\ UNCHANGED left
     \/ s = "waiting_approval" /\ Given(w, j, "decide") /\ UNCHANGED left
     \/ /\ s \notin {"running", "waiting_approval"}
        /\ left' = [left EXCEPT ![j] = 0] /\ UNCHANGED workerVars
  /\ UNCHANGED <<rowVars, reaping, crashes, ghostVars>>

\* The poll sees the run move, or gives up after its last look.
Poll(w) == LET r == job[w].run IN
  /\ pc[w] = "poll"
  /\ \/ status[r] = "waiting_approval" /\ Goto(w, "decide") /\ UNCHANGED left
     \/ status[r] # "waiting_approval" /\ Done(w)
  /\ UNCHANGED <<rowVars, reaping, crashes, ghostVars>>

\* Not approved: finishParked.
RefuseParked(w, r) ==
  /\ status' = [status EXCEPT ![r] =
                  IF approval[r] = "rejected" THEN "cancelled" ELSE "timed_out"]
  /\ Done(w)

\* Approved: claim the run for its resumer.
Resume(w, r) ==
  /\ status' = [status EXCEPT ![r] = "running"]
  /\ Goto(w, IF Kind(r) \notin Resumers THEN "unable"
             ELSE IF UsesLease(job[w]) THEN "lease" ELSE "perform")
  /\ UNCHANGED left

\* Mutant of SettleDecision: only a rejection stops the run.
SettleUnlessRejected(w) == LET r == job[w].run IN
  /\ pc[w] = "decide"
  /\ IF status[r] # "waiting_approval" THEN Done(w) /\ UNCHANGED status
     ELSE IF approval[r] = "rejected" THEN RefuseParked(w, r) ELSE Resume(w, r)
  /\ UNCHANGED <<attempt, cancel, lease, external, approval, reaping, crashes,
                 ghostVars>>

\* settleDecision: a run that is no longer parked was settled by another job.
SettleDecision(w) == LET r == job[w].run IN
  /\ pc[w] = "decide"
  /\ \/ status[r] # "waiting_approval" /\ Done(w) /\ UNCHANGED status
     \/ status[r] = "waiting_approval" /\ approval[r] # "approved" /\ RefuseParked(w, r)
     \/ status[r] = "waiting_approval" /\ approval[r] = "approved" /\ Resume(w, r)
  /\ UNCHANGED <<attempt, cancel, lease, external, approval, reaping, crashes,
                 ghostVars>>

\* Nothing here knows how to continue this kind of run.
NoResumer(w) ==
  /\ pc[w] = "unable"
  /\ status' = Ended(job[w].run, "needs_attention")
  /\ Done(w)
  /\ UNCHANGED <<attempt, cancel, lease, external, approval, reaping, crashes,
                 ghostVars>>

----------------------------------------------------------------------------
(* Maintenance sweeps, each run's turn of them *)

\* sweepApprovals: the request is too old and still undecided.
ExpireApproval(r) ==
  /\ approval[r] = "pending"
  /\ approval' = [approval EXCEPT ![r] = "expired"]
  /\ Enqueue(ResumeJob(r, ByDecision))
  /\ UNCHANGED <<status, attempt, cancel, lease, external, workerVars, reaping,
                 ghostVars>>

\* reconcileParkedRuns: a parked run whose approval is no longer pending.
Reconcile(r) ==
  /\ status[r] = "waiting_approval" /\ approval[r] # "pending"
  /\ IF approval[r] = "none"
     THEN status' = [status EXCEPT ![r] = "failed"] /\ UNCHANGED left
     ELSE left' = Sent(ResumeJob(r, ByReconcile)) /\ UNCHANGED status
  /\ UNCHANGED <<attempt, cancel, lease, external, approval, workerVars, reaping,
                 crashes, ghostVars>>

\* recoverInterruptedApprovals, when a process boots.
InterruptApproval(r) ==
  /\ approval[r] = "pending" /\ status[r] \notin {"waiting_approval", "running"}
  /\ approval' = [approval EXCEPT ![r] = "interrupted"]
  /\ UNCHANGED <<status, attempt, cancel, lease, external, left, workerVars,
                 reaping, crashes, ghostVars>>

\* Mutant of Requeue: the sweep looks for retrying runs only.
RequeueRetrying(r) ==
  /\ r \in TaskRuns /\ status[r] = "retrying" /\ attempt[r] < AttemptCap
  /\ attempt' = [attempt EXCEPT ![r] = @ + 1]
  /\ Enqueue(StartJob(r, attempt[r] + 1))
  /\ UNCHANGED <<status, cancel, lease, external, approval, workerVars, reaping,
                 ghostVars>>

\* requeueStuckTaskRuns: the start job of an old queued run was lost.
Requeue(r) ==
  /\ r \in TaskRuns /\ status[r] = "queued"
  /\ \/ /\ attempt[r] < AttemptCap
        /\ attempt' = [attempt EXCEPT ![r] = @ + 1]
        /\ Enqueue(StartJob(r, attempt[r] + 1))
        /\ UNCHANGED status
     \/ /\ attempt[r] = AttemptCap
        /\ status' = [status EXCEPT ![r] = "failed"]
        /\ UNCHANGED <<attempt, left, crashes>>
  /\ UNCHANGED <<cancel, lease, external, approval, workerVars, reaping, ghostVars>>

\* reapStaleRuns, up to its second look: the lease ran out, or no lease speaks
\* and the timeline has been silent, which nobody at work on the run lets happen.
ReapLook(r) ==
  /\ reaping = NoRun /\ r \notin ExternalRuns /\ status[r] = "running"
  /\ \/ lease[r] # NoLease /\ ~lease[r].live
     \/ lease[r] = NoLease /\ ~\E w \in Workers : Drives(w, r)
  /\ reaping' = r
  /\ UNCHANGED <<rowVars, left, workerVars, crashes, ghostVars>>

Reap ==
  /\ reaping # NoRun
  /\ status' = Ended(reaping, "failed")
  /\ reaping' = NoRun
  /\ UNCHANGED <<attempt, cancel, lease, external, approval, left, workerVars,
                 crashes, ghostVars>>

\* Five minutes without a heartbeat.
LeaseExpires(r) ==
  /\ lease[r] # NoLease /\ lease[r].live
  /\ ~\E w \in Workers : Heartbeats(w, r) /\ status[r] = "running"
  /\ lease' = [lease EXCEPT ![r].live = FALSE]
  /\ UNCHANGED <<status, attempt, cancel, external, approval, left, workerVars,
                 reaping, crashes, ghostVars>>

----------------------------------------------------------------------------
(* People, agents and failures *)

\* Stop, on a run somebody may still be executing.
RequestCancel(r) ==
  /\ status[r] \in ACTIVE_RUN_STATUSES /\ ~cancel[r]
  /\ cancel' = [cancel EXCEPT ![r] = TRUE]
  /\ UNCHANGED <<status, attempt, lease, external, approval, left, workerVars,
                 reaping, crashes, ghostVars>>

\* POST /runs/:id/finish or an inbox acknowledgement: any running run will do.
AgentFinishes(r, o) ==
  /\ status[r] = "running"
  /\ status' = Ended(r, o)
  /\ UNCHANGED <<attempt, cancel, lease, external, approval, left, workerVars,
                 reaping, crashes, ghostVars>>

\* recordRun of a report that names a known external id: a plain UPDATE.
RecordRun(r, s) ==
  /\ r \in external
  /\ status' = [status EXCEPT ![r] = s]
  /\ UNCHANGED <<attempt, cancel, lease, external, approval, left, workerVars,
                 reaping, crashes, ghostVars>>

\* The watchdog's deadline: the attempt is abandoned, its handler runs on.
Abandon(w) ==
  /\ ~Idle(w) /\ ~zombie[w] /\ left[job[w]] > 0
  /\ zombie' = [zombie EXCEPT ![w] = TRUE]
  /\ left' = [left EXCEPT ![job[w]] = @ - 1]
  /\ UNCHANGED <<rowVars, pc, job, reaping, crashes, ghostVars>>

\* A process dies: its handlers stop where they are, their jobs are redelivered.
Crash(p) == LET dead == {w \in Workers : ProcOf[w] = p /\ ~Idle(w)} IN
  /\ crashes < MaxCrashes /\ dead # {}
  /\ crashes' = crashes + 1
  /\ left' = [j \in Jobs |-> IF \E w \in dead : job[w] = j /\ ~zombie[w]
                             THEN Minus(left[j]) ELSE left[j]]
  /\ pc' = [w \in Workers |-> IF w \in dead THEN "idle" ELSE pc[w]]
  /\ job' = [w \in Workers |-> IF w \in dead THEN NoJob ELSE job[w]]
  /\ zombie' = [w \in Workers |-> zombie[w] /\ w \notin dead]
  /\ UNCHANGED <<rowVars, reaping, ghostVars>>

----------------------------------------------------------------------------

Take(w) == \E j \in Jobs : RefuseForNow(w, j) \/ TakeStart(w, j) \/ TakeResume(w, j)

Step(w) ==
  \/ BeginDelivery(w) \/ RefuseToday(w) \/ Claim(w) \/ EnterLease(w)
  \/ StopBeforeGate(w) \/ AskPolicy(w) \/ Park(w) \/ Reread(w)
  \/ Perform(w) \/ HandOver(w) \/ Settle(w) \/ LeaveOpen(w) \/ ProviderThrew(w)
  \/ Leave(w) \/ Poll(w) \/ SettleDecision(w) \/ NoResumer(w)

Sweep(r) == ExpireApproval(r) \/ Reconcile(r) \/ InterruptApproval(r)
              \/ Requeue(r) \/ ReapLook(r)

Next ==
  \/ \E w \in Workers : Take(w) \/ Step(w) \/ Heartbeat(w) \/ Abandon(w)
                          \/ \E r \in Runs : TakeDelivery(w, r)
  \/ \E r \in Runs : \/ StartTask(r) \/ OpenExternal(r) \/ Sweep(r)
                     \/ LeaseExpires(r) \/ RequestCancel(r)
                     \/ \E d \in {"approved", "rejected"} : Decide(r, d)
                     \/ \E o \in {"success", "failed", "needs_attention", "cancelled"} :
                          AgentFinishes(r, o)
                     \/ \E s \in Reports : RecordRun(r, s)
  \/ Reap
  \/ \E p \in Procs : Crash(p)

Spec == Init /\ [][Next]_vars

\* Workers run to their next await, the queue hands out what it holds, and the
\* maintenance clock keeps ticking; people, agents and crashes promise nothing.
FairSpec ==
  /\ Spec
  /\ \A w \in Workers : WF_vars(Step(w))
  /\ SF_vars(\E w \in Workers, j \in Jobs : RefuseForNow(w, j) \/ TakeStart(w, j) \/ TakeResume(w, j))
  /\ \A r \in Runs : /\ WF_vars(ExpireApproval(r)) /\ WF_vars(Reconcile(r))
                     /\ WF_vars(Requeue(r)) /\ WF_vars(LeaseExpires(r))
  /\ SF_vars(\E r \in Runs : ReapLook(r))
  /\ WF_vars(Reap)
----------------------------------------------------------------------------
(* What the life of a run promises *)

PCs == {"idle", "begin", "refuse", "claim", "lease", "gate", "park", "reread", "perform",
        "call", "settle", "leave", "poll", "decide", "unable"}

\* Every variable keeps its type; a busy worker has a job.
TypeOK ==
  /\ status \in [Runs -> Status \cup {"none"}]
  /\ attempt \in [Runs -> 0..AttemptCap]
  /\ cancel \in [Runs -> BOOLEAN]
  /\ lease \in [Runs -> [by : Procs, live : BOOLEAN] \cup {NoLease}]
  /\ external \subseteq Runs
  /\ approval \in [Runs -> ApprovalStatus \cup {"none"}]
  /\ left \in [Jobs -> 0..MaxDeliveries]
  /\ pc \in [Workers -> PCs]
  /\ job \in [Workers -> Jobs \cup {NoJob}]
  /\ \A w \in Workers : Idle(w) <=> job[w] = NoJob
  /\ zombie \in [Workers -> BOOLEAN]
  /\ reaping \in Runs \cup {NoRun}
  /\ crashes \in 0..MaxCrashes
  /\ handed \in [Runs -> Nat]
  /\ open \subseteq Runs

\* Two deliveries of a job, a retry beside a zombie, a late resume and a restart
\* together hand a run's work to its provider at most once.
HandedOverOnce == \A r \in Runs : handed[r] <= 1

\* Work whose policy asked reaches the provider only under an approval, however
\* the decision, its timeout and the park interleave.
NothingWithoutConsent ==
  \A r \in Runs : handed[r] > 0 /\ approval[r] # "none" => approval[r] = "approved"

\* At most one handler is between claiming a run and letting go of it.
OneDriver == \A r \in Runs, v, w \in Workers : Drives(v, r) /\ Drives(w, r) => v = w

\* Once settled, a run keeps its outcome against reapers, zombies and late
\* reports; only recordRun, which does not look, may rewrite it.
SettledStays ==
  [][\A r \in Runs : status[r] \in TERMINAL_RUN_STATUSES =>
       status'[r] = status[r] \/ \E s \in Reports : RecordRun(r, s)]_vars

\* The guarded UPDATE gives an approval one decision: the losers of a race between
\* a person, the timeout and a withdrawal change nothing.
DecidedOnce ==
  [][\A r \in Runs : approval[r] \notin {"none", "pending"} =>
       approval'[r] = approval[r]]_vars

\* Task runs alone stay within the concurrency cap, running and parked together: the
\* quota is read before the claim, but every queued rival counts against it.  A report
\* asks no quota, so a run that one may revive is not counted.
TasksStayUnderCap ==
  MaxConcurrent > 0 =>
    Cardinality({r \in TaskRuns \ external : status[r] \in ACTIVE_RUN_STATUSES \ {"queued"}})
      <= MaxConcurrent

\* Statuses move along the declared map, but for the queued runs that are failed
\* outright (over today's quota, or out of attempts) and for recordRun.
MovesAreMapped ==
  [][\A r \in Runs : status[r] # "none" /\ status'[r] # status[r] =>
       \/ <<status[r], status'[r]>> \in RUN_TRANSITIONS \cup {<<"queued", "failed">>}
       \/ \E s \in Reports : RecordRun(r, s)]_vars

\* The runs whose whole execution was inside a lease: a dispatch that is resumed is not,
\* and keeps its first pass's.
LeasedThroughout(r) == Kind(r) \in {"task", "chat"} \/ approval[r] = "none"

\* A run left running for its agent's report, with no handler inside its lease any more,
\* has no lease: only the silence rule judges it.  A handler that dies lets go of nothing,
\* and a report may revive a run that was settled under its lease.
OpenRunHasNoLease ==
  crashes = 0 =>
    \A r \in Runs \ external :
      /\ r \in open /\ status[r] = "running" /\ LeasedThroughout(r)
      /\ ~\E w \in Workers : Heartbeats(w, r)
      => lease[r] = NoLease

\* Every run the control plane executes is settled in the end, whatever becomes of
\* its jobs, its executors and its decision, and however long its agent is silent.
EveryRunSettles ==
  \A r \in Runs \ ExternalRuns :
    status[r] # "none" ~> status[r] \in TERMINAL_RUN_STATUSES

----------------------------------------------------------------------------
(* The contract the executors, the queue and the sweeps implement together *)

ConsentOf == [r \in Runs |->
  IF approval[r] \in {"rejected", "expired", "interrupted"} THEN "refused"
  ELSE approval[r]]

\* A run nobody may still bring to its provider call has lost its permit.
PermitOf == [r \in Runs |->
  CASE handed[r] > 0 -> "used"
    [] handed[r] = 0 /\ (\E w \in Workers : MayPerform(w, r)) -> "held"
    [] OTHER -> IF \/ status[r] \in {"none", "queued", "waiting_approval"}
                   \/ \E w \in Workers : Drives(w, r)
                THEN "unissued" ELSE "void"]

Contract == INSTANCE RunContract WITH consent <- ConsentOf, permit <- PermitOf

\* Crashes, retries, zombies, lost jobs and late decisions never issue a run's permit
\* twice, hand it out against the policy's answer, or revive one that was lost.
KeepsContract == Contract!Spec

----------------------------------------------------------------------------
(* What the source says and the code does not do *)

\* The reaper fails "a crashed executor's leftovers, never a live run elsewhere".
NeverReapsALiveRun ==
  [][\A r \in Runs : Reap /\ reaping = r /\ status[r] = "running" =>
       ~\E w \in Workers : Drives(w, r)]_vars

\* "Concurrency over the cap queues the work": a start job is sent back to wait
\* only while that many runs are really under way.
RefusedOnlyWhenFull ==
  [][\A w \in Workers, j \in Jobs : RefuseForNow(w, j) =>
       Cardinality({r \in Runs : status[r] \in ACTIVE_RUN_STATUSES \ {"queued"}})
         >= MaxConcurrent]_vars
============================================================================
