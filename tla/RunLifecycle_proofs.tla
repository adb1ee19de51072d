------------------------- MODULE RunLifecycle_proofs -------------------------
(***************************************************************************)
(* Machine-checked facts about RunLifecycle, for any sets of runs, workers *)
(* and processes and any bounds.                                           *)
(***************************************************************************)
EXTENDS RunLifecycleInv, FiniteSetTheorems, TLAPS

----------------------------------------------------------------------------
(* The shape of jobs *)

\* Every job the code builds is one the queue knows.
LEMMA JobsAreJobs ==
  ASSUME NEW r \in Runs
  PROVE  /\ \A n \in 0..AttemptCap : StartJob(r, n) \in Jobs
         /\ DeliverJob(r) \in Jobs
         /\ \A k \in {ByDecision, ByGuard, ByReconcile} : ResumeJob(r, k) \in Jobs
BY DEF StartJob, DeliverJob, ResumeJob, Jobs

\* A job names a run.
LEMMA JobHasRun ==
  ASSUME NEW j \in Jobs
  PROVE  j.run \in Runs /\ j.type \in {"start", "deliver", "resume"}
BY DEF Jobs

\* A busy worker works on a run, by a job that is not the sentinel.
LEMMA BusyHasRun ==
  ASSUME TypeOK, NEW w \in Workers, ~Idle(w)
  PROVE  /\ job[w] \in Jobs /\ job[w] # NoJob
         /\ job[w].run \in Runs
         /\ job[w].type \in {"start", "deliver", "resume"}
BY JobHasRun, SentinelAssumption DEF TypeOK

\* Sending a job keeps the queue's counts typed.
LEMMA SentTyped ==
  ASSUME TypeOK, NEW j \in Jobs
  PROVE  Sent(j) \in [Jobs -> 0..MaxDeliveries]
BY BoundsAssumption DEF TypeOK, Sent

LEMMA EnqueueTyped ==
  ASSUME TypeOK, NEW j \in Jobs, Enqueue(j)
  PROVE  left' \in [Jobs -> 0..MaxDeliveries] /\ crashes' \in 0..MaxCrashes
BY SentTyped, BoundsAssumption DEF TypeOK, Enqueue

\* The part of the type that says what each worker does.
WorkersOK ==
  /\ pc \in [Workers -> PCs]
  /\ job \in [Workers -> Jobs \cup {NoJob}]
  /\ \A w \in Workers : Idle(w) <=> job[w] = NoJob
  /\ zombie \in [Workers -> BOOLEAN]

LEMMA GivenTyped ==
  ASSUME TypeOK, NEW w \in Workers, NEW j \in Jobs, NEW l \in PCs \ {"idle"},
         Given(w, j, l)
  PROVE  WorkersOK'
BY SentinelAssumption DEF TypeOK, WorkersOK, Given, Idle

LEMMA GotoTyped ==
  ASSUME TypeOK, NEW w \in Workers, ~Idle(w), NEW l \in PCs \ {"idle"}, Goto(w, l)
  PROVE  WorkersOK'
BY DEF TypeOK, WorkersOK, Goto, Idle

LEMMA ReleaseTyped ==
  ASSUME TypeOK, NEW w \in Workers, Release(w)
  PROVE  WorkersOK'
BY DEF TypeOK, WorkersOK, Release, Idle, PCs

LEMMA DoneTyped ==
  ASSUME TypeOK, NEW w \in Workers, ~Idle(w), Done(w)
  PROVE  WorkersOK' /\ left' \in [Jobs -> 0..MaxDeliveries]
<1>1. WorkersOK'
  BY ReleaseTyped DEF Done
<1>2. left' \in [Jobs -> 0..MaxDeliveries]
  BY BusyHasRun, BoundsAssumption DEF Done, TypeOK
<1>. QED BY <1>1, <1>2

LEMMA ThrownTyped ==
  ASSUME TypeOK, NEW w \in Workers, ~Idle(w), Thrown(w)
  PROVE  WorkersOK' /\ left' \in [Jobs -> 0..MaxDeliveries]
<1>1. WorkersOK'
  BY ReleaseTyped DEF Thrown
<1>2. left' \in [Jobs -> 0..MaxDeliveries]
  BY BusyHasRun, BoundsAssumption DEF Thrown, TypeOK, Minus
<1>. QED BY <1>1, <1>2

LEMMA EndedTyped ==
  ASSUME TypeOK, NEW r \in Runs, NEW o \in Status
  PROVE  Ended(r, o) \in [Runs -> Status \cup {"none"}]
BY DEF TypeOK, Ended

LEMMA LetGoTyped ==
  ASSUME TypeOK, NEW w \in Workers, LetGo(w)
  PROVE  lease' \in [Runs -> [by : Procs, live : BOOLEAN] \cup {NoLease}]
BY DEF TypeOK, LetGo

LEMMA RenewedTyped ==
  ASSUME TypeOK, NEW w \in Workers
  PROVE  Renewed(w) \in [Runs -> [by : Procs, live : BOOLEAN] \cup {NoLease}]
BY ProcAssumption DEF TypeOK, Renewed

----------------------------------------------------------------------------
(* Type correctness *)

\* The types of the rows and of what the sweeps and the history variables hold.
RowsOK ==
  /\ status \in [Runs -> Status \cup {"none"}]
  /\ attempt \in [Runs -> 0..AttemptCap]
  /\ cancel \in [Runs -> BOOLEAN]
  /\ lease \in [Runs -> [by : Procs, live : BOOLEAN] \cup {NoLease}]
  /\ external \subseteq Runs
  /\ approval \in [Runs -> ApprovalStatus \cup {"none"}]

GhostsOK ==
  /\ reaping \in Runs \cup {NoRun}
  /\ crashes \in 0..MaxCrashes
  /\ handed \in [Runs -> Nat]
  /\ open \subseteq Runs

QueueOK == left \in [Jobs -> 0..MaxDeliveries]

LEMMA TypeParts ==
  /\ TypeOK => RowsOK /\ WorkersOK /\ GhostsOK /\ QueueOK
  /\ RowsOK' /\ WorkersOK' /\ GhostsOK' /\ QueueOK' => TypeOK'
BY DEF TypeOK, RowsOK, WorkersOK, GhostsOK, QueueOK

\* The initial state is well typed.
LEMMA InitTyped == Init => TypeOK
BY BoundsAssumption DEF Init, TypeOK, Idle, PCs

\* A worker's step keeps every type.
LEMMA StepTyped ==
  ASSUME TypeOK, NEW w \in Workers, Step(w)
  PROVE  TypeOK'
<1>. DEFINE r == job[w].run
<1>0. ~Idle(w) => job[w] \in Jobs /\ r \in Runs /\ job[w].type \in {"start", "deliver", "resume"}
  BY BusyHasRun
<1>. USE TypeParts DEF rowVars, workerVars, ghostVars
<1>1. ASSUME BeginDelivery(w) PROVE TypeOK'
  <2>1. WorkersOK' BY <1>1, GotoTyped DEF BeginDelivery, Idle, PCs
  <2>2. RowsOK' /\ QueueOK' /\ GhostsOK'
    BY <1>1, <1>0 DEF BeginDelivery, Idle, RowsOK, QueueOK, GhostsOK, Status, ACTIVE_RUN_STATUSES
  <2>. QED BY <2>1, <2>2
<1>2. ASSUME RefuseToday(w) PROVE TypeOK'
  <2>1. WorkersOK' /\ QueueOK' BY <1>2, DoneTyped DEF RefuseToday, Idle, QueueOK
  <2>2. RowsOK' /\ GhostsOK'
    BY <1>2, <1>0 DEF RefuseToday, Idle, RowsOK, GhostsOK, Status, TERMINAL_RUN_STATUSES
  <2>. QED BY <2>1, <2>2
<1>3. ASSUME Claim(w) PROVE TypeOK'
  <2>1. WorkersOK' /\ QueueOK'
    BY <1>3, DoneTyped, GotoTyped DEF Claim, Idle, QueueOK, PCs
  <2>2. RowsOK' /\ GhostsOK'
    BY <1>3, <1>0 DEF Claim, Idle, RowsOK, GhostsOK, Status, ACTIVE_RUN_STATUSES
  <2>. QED BY <2>1, <2>2
<1>4. ASSUME EnterLease(w) PROVE TypeOK'
  <2>1. WorkersOK' BY <1>4, GotoTyped DEF EnterLease, Idle, PCs
  <2>2. RowsOK' /\ QueueOK' /\ GhostsOK'
    BY <1>4, RenewedTyped DEF EnterLease, RowsOK, QueueOK, GhostsOK
  <2>. QED BY <2>1, <2>2
<1>5. ASSUME StopBeforeGate(w) PROVE TypeOK'
  <2>1. WorkersOK' BY <1>5, GotoTyped DEF StopBeforeGate, Idle, PCs
  <2>2. RowsOK' /\ QueueOK' /\ GhostsOK'
    BY <1>5, <1>0, EndedTyped DEF StopBeforeGate, Idle, RowsOK, QueueOK, GhostsOK, Status,
                              TERMINAL_RUN_STATUSES
  <2>. QED BY <2>1, <2>2
<1>6. ASSUME AskPolicy(w) PROVE TypeOK'
  <2>1. WorkersOK' BY <1>6, GotoTyped DEF AskPolicy, Idle, PCs
  <2>2. RowsOK' /\ QueueOK' /\ GhostsOK'
    BY <1>6, <1>0 DEF AskPolicy, Idle, RowsOK, QueueOK, GhostsOK, ApprovalStatus
  <2>. QED BY <2>1, <2>2
<1>7. ASSUME Park(w) PROVE TypeOK'
  <2>1. WorkersOK' BY <1>7, GotoTyped DEF Park, Idle, PCs
  <2>2. RowsOK' /\ QueueOK' /\ GhostsOK'
    BY <1>7, <1>0 DEF Park, Withdrawn, Idle, RowsOK, QueueOK, GhostsOK, ApprovalStatus, Status,
                      ACTIVE_RUN_STATUSES
  <2>. QED BY <2>1, <2>2
<1>8. ASSUME Reread(w) PROVE TypeOK'
  <2>1. WorkersOK' BY <1>8, GotoTyped DEF Reread, Idle, PCs
  <2>2. QueueOK'
    BY <1>8, <1>0, JobsAreJobs, SentTyped DEF Reread, Idle, QueueOK
  <2>3. RowsOK' /\ GhostsOK' BY <1>8 DEF Reread, RowsOK, GhostsOK
  <2>. QED BY <2>1, <2>2, <2>3
<1>9. ASSUME Perform(w) PROVE TypeOK'
  <2>1. WorkersOK' /\ QueueOK'
    BY <1>9, GotoTyped, DoneTyped, ThrownTyped DEF Perform, ThrowOut, Idle, QueueOK, PCs
  <2>2. status' \in [Runs -> Status \cup {"none"}]
    BY <1>9, <1>0, EndedTyped DEF Perform, ThrowOut, Idle, RowsOK, Status, TERMINAL_RUN_STATUSES
  <2>3. lease' \in [Runs -> [by : Procs, live : BOOLEAN] \cup {NoLease}]
    BY <1>9, LetGoTyped DEF Perform, ThrowOut, RowsOK
  <2>4. RowsOK' /\ GhostsOK' BY <1>9, <2>2, <2>3 DEF Perform, RowsOK, GhostsOK
  <2>. QED BY <2>1, <2>4
<1>10. ASSUME HandOver(w) PROVE TypeOK'
  <2>1. WorkersOK' BY <1>10, GotoTyped DEF HandOver, Idle, PCs
  <2>2. RowsOK' /\ QueueOK' /\ GhostsOK'
    BY <1>10, <1>0 DEF HandOver, Idle, RowsOK, QueueOK, GhostsOK
  <2>. QED BY <2>1, <2>2
<1>11. ASSUME Settle(w) PROVE TypeOK'
  <2>1. WorkersOK' BY <1>11, GotoTyped DEF Settle, Idle, PCs
  <2>2. PICK o \in Outcomes(Kind(r)) : status' = Ended(r, o)
    BY <1>11 DEF Settle
  <2>3. o \in Status BY <2>2 DEF Outcomes, Status, TERMINAL_RUN_STATUSES
  <2>4. external' \subseteq Runs BY <1>11, <1>0 DEF Settle, Idle, RowsOK
  <2>5. RowsOK' /\ QueueOK' /\ GhostsOK'
    BY <1>11, <1>0, <2>2, <2>3, <2>4, EndedTyped DEF Settle, Idle, RowsOK, QueueOK, GhostsOK
  <2>. QED BY <2>1, <2>5
<1>12. ASSUME LeaveOpen(w) PROVE TypeOK'
  <2>1. WorkersOK' BY <1>12, GotoTyped DEF LeaveOpen, Idle, PCs
  <2>2. RowsOK' /\ QueueOK' /\ GhostsOK'
    BY <1>12, <1>0 DEF LeaveOpen, Idle, RowsOK, QueueOK, GhostsOK
  <2>. QED BY <2>1, <2>2
<1>13. ASSUME ProviderThrew(w) PROVE TypeOK'
  <2>1. WorkersOK' /\ QueueOK'
    BY <1>13, DoneTyped, ThrownTyped DEF ProviderThrew, ThrowOut, Idle, QueueOK
  <2>2. status' \in [Runs -> Status \cup {"none"}]
    BY <1>13, <1>0, EndedTyped DEF ProviderThrew, ThrowOut, Idle, RowsOK, Status,
                                   TERMINAL_RUN_STATUSES
  <2>3. RowsOK' /\ GhostsOK'
    BY <1>13, <2>2, LetGoTyped DEF ProviderThrew, ThrowOut, RowsOK, GhostsOK
  <2>. QED BY <2>1, <2>3
<1>14. ASSUME Leave(w) PROVE TypeOK'
  <2>1. WorkersOK' /\ QueueOK' BY <1>14, DoneTyped DEF Leave, Idle, QueueOK
  <2>2. RowsOK' /\ GhostsOK' BY <1>14, LetGoTyped DEF Leave, RowsOK, GhostsOK
  <2>. QED BY <2>1, <2>2
<1>15. ASSUME Poll(w) PROVE TypeOK'
  <2>1. WorkersOK' /\ QueueOK' BY <1>15, GotoTyped, DoneTyped DEF Poll, Idle, QueueOK, PCs
  <2>2. RowsOK' /\ GhostsOK' BY <1>15 DEF Poll, RowsOK, GhostsOK
  <2>. QED BY <2>1, <2>2
<1>16. ASSUME SettleDecision(w) PROVE TypeOK'
  <2>1. WorkersOK' /\ QueueOK'
    BY <1>16, GotoTyped, DoneTyped DEF SettleDecision, RefuseParked, Resume, Idle, QueueOK, PCs
  <2>2. RowsOK' /\ GhostsOK'
    BY <1>16, <1>0 DEF SettleDecision, RefuseParked, Resume, Idle, RowsOK, GhostsOK, Status,
                       ACTIVE_RUN_STATUSES, TERMINAL_RUN_STATUSES
  <2>. QED BY <2>1, <2>2
<1>17. ASSUME NoResumer(w) PROVE TypeOK'
  <2>1. WorkersOK' /\ QueueOK' BY <1>17, DoneTyped DEF NoResumer, Idle, QueueOK
  <2>2. RowsOK' /\ GhostsOK'
    BY <1>17, <1>0, EndedTyped DEF NoResumer, Idle, RowsOK, GhostsOK, Status,
                                   TERMINAL_RUN_STATUSES
  <2>. QED BY <2>1, <2>2
<1>. QED
  BY <1>1, <1>2, <1>3, <1>4, <1>5, <1>6, <1>7, <1>8, <1>9, <1>10, <1>11, <1>12, <1>13,
     <1>14, <1>15, <1>16, <1>17 DEF Step

\* The queue hands a worker a job.
LEMMA TakeTyped ==
  ASSUME TypeOK, NEW w \in Workers,
         Take(w) \/ (\E r \in Runs : TakeDelivery(w, r))
  PROVE  TypeOK'
<1>. USE TypeParts DEF rowVars, workerVars, ghostVars
<1>1. ASSUME NEW j \in Jobs, RefuseForNow(w, j) PROVE TypeOK'
  <2>1. QueueOK' BY <1>1, BoundsAssumption DEF RefuseForNow, Deliverable, QueueOK
  <2>2. RowsOK' /\ GhostsOK' /\ WorkersOK'
    BY <1>1 DEF RefuseForNow, RowsOK, GhostsOK, WorkersOK, Idle
  <2>. QED BY <2>1, <2>2
<1>2. ASSUME NEW j \in Jobs, TakeStart(w, j) PROVE TypeOK'
  <2>1. WorkersOK' BY <1>2, GivenTyped DEF TakeStart, PCs
  <2>2. RowsOK' /\ GhostsOK' /\ QueueOK' BY <1>2 DEF TakeStart, RowsOK, GhostsOK, QueueOK
  <2>. QED BY <2>1, <2>2
<1>3. ASSUME NEW j \in Jobs, TakeResume(w, j) PROVE TypeOK'
  <2>1. WorkersOK'
    <3>1. CASE \E l \in PCs \ {"idle"} : Given(w, j, l) BY <3>1, GivenTyped
    <3>2. CASE UNCHANGED workerVars BY <3>2 DEF WorkersOK, Idle
    <3>. QED BY <1>3, <3>1, <3>2 DEF TakeResume, PCs
  <2>2. QueueOK' BY <1>3, BoundsAssumption DEF TakeResume, QueueOK
  <2>3. RowsOK' /\ GhostsOK' BY <1>3 DEF TakeResume, RowsOK, GhostsOK
  <2>. QED BY <2>1, <2>2, <2>3
<1>4. ASSUME NEW r \in Runs, TakeDelivery(w, r) PROVE TypeOK'
  <2>1. WorkersOK' BY <1>4, GivenTyped, JobsAreJobs DEF TakeDelivery, PCs
  <2>2. RowsOK' /\ GhostsOK' /\ QueueOK' BY <1>4 DEF TakeDelivery, RowsOK, GhostsOK, QueueOK
  <2>. QED BY <2>1, <2>2
<1>. QED BY <1>1, <1>2, <1>3, <1>4 DEF Take

\* People, agents and the sweeps touch rows and the queue, never a worker.
LEMMA SweepTyped ==
  ASSUME TypeOK, NEW r \in Runs,
         \/ StartTask(r) \/ OpenExternal(r) \/ Sweep(r) \/ LeaseExpires(r) \/ RequestCancel(r)
         \/ \E d \in {"approved", "rejected"} : Decide(r, d)
         \/ \E o \in {"success", "failed", "needs_attention", "cancelled"} : AgentFinishes(r, o)
         \/ \E s \in Reports : RecordRun(r, s)
  PROVE  TypeOK'
<1>. USE TypeParts DEF rowVars, workerVars, ghostVars
<1>0. UNCHANGED workerVars => WorkersOK' BY DEF WorkersOK, Idle
<1>1. ASSUME StartTask(r) PROVE TypeOK'
  <2>1. StartJob(r, 0) \in Jobs BY JobsAreJobs, BoundsAssumption
  <2>2. QueueOK' /\ GhostsOK' BY <1>1, <2>1, EnqueueTyped DEF StartTask, QueueOK, GhostsOK
  <2>3. RowsOK' BY <1>1 DEF StartTask, RowsOK, Status, ACTIVE_RUN_STATUSES
  <2>. QED BY <1>0, <1>1, <2>2, <2>3 DEF StartTask
<1>2. ASSUME OpenExternal(r) PROVE TypeOK'
  <2>1. RowsOK' /\ QueueOK' /\ GhostsOK'
    BY <1>2, ReportAssumption
       DEF OpenExternal, RowsOK, QueueOK, GhostsOK, Status, ACTIVE_RUN_STATUSES,
           TERMINAL_RUN_STATUSES
  <2>. QED BY <1>0, <1>2, <2>1 DEF OpenExternal
<1>3. ASSUME ExpireApproval(r) \/ (\E d \in {"approved", "rejected"} : Decide(r, d))
      PROVE TypeOK'
  <2>1. ResumeJob(r, ByDecision) \in Jobs BY JobsAreJobs
  <2>2. QueueOK' /\ GhostsOK'
    BY <1>3, <2>1, EnqueueTyped DEF ExpireApproval, Decide, QueueOK, GhostsOK
  <2>3. RowsOK' BY <1>3 DEF ExpireApproval, Decide, RowsOK, ApprovalStatus
  <2>. QED BY <1>0, <1>3, <2>2, <2>3 DEF ExpireApproval, Decide
<1>4. ASSUME Reconcile(r) PROVE TypeOK'
  <2>1. ResumeJob(r, ByReconcile) \in Jobs BY JobsAreJobs
  <2>2. QueueOK' BY <1>4, <2>1, SentTyped DEF Reconcile, QueueOK
  <2>3. RowsOK' /\ GhostsOK'
    BY <1>4 DEF Reconcile, RowsOK, GhostsOK, Status, TERMINAL_RUN_STATUSES
  <2>. QED BY <1>0, <1>4, <2>2, <2>3 DEF Reconcile
<1>5. ASSUME InterruptApproval(r) PROVE TypeOK'
  <2>1. RowsOK' /\ QueueOK' /\ GhostsOK'
    BY <1>5 DEF InterruptApproval, RowsOK, QueueOK, GhostsOK, ApprovalStatus
  <2>. QED BY <1>0, <1>5, <2>1 DEF InterruptApproval
<1>6. ASSUME Requeue(r) PROVE TypeOK'
  <2>1. attempt[r] \in 0..AttemptCap BY DEF RowsOK
  <2>2. attempt[r] < AttemptCap => attempt[r] + 1 \in 0..AttemptCap
    BY <2>1, BoundsAssumption
  <2>3. attempt[r] < AttemptCap => StartJob(r, attempt[r] + 1) \in Jobs
    BY <2>2, JobsAreJobs
  <2>4. QueueOK' /\ GhostsOK'
    BY <1>6, <2>3, EnqueueTyped DEF Requeue, QueueOK, GhostsOK
  <2>5. RowsOK' BY <1>6, <2>2 DEF Requeue, RowsOK, Status, TERMINAL_RUN_STATUSES
  <2>. QED BY <1>0, <1>6, <2>4, <2>5 DEF Requeue
<1>7. ASSUME ReapLook(r) \/ RequestCancel(r) PROVE TypeOK'
  <2>1. RowsOK' /\ QueueOK' /\ GhostsOK'
    BY <1>7 DEF ReapLook, RequestCancel, RowsOK, QueueOK, GhostsOK
  <2>. QED BY <1>0, <1>7, <2>1 DEF ReapLook, RequestCancel
<1>8. ASSUME LeaseExpires(r) PROVE TypeOK'
  <2>1. RowsOK' /\ QueueOK' /\ GhostsOK'
    BY <1>8 DEF LeaseExpires, RowsOK, QueueOK, GhostsOK
  <2>. QED BY <1>0, <1>8, <2>1 DEF LeaseExpires
<1>9. ASSUME NEW o \in Status, AgentFinishes(r, o) PROVE TypeOK'
  <2>1. RowsOK' /\ QueueOK' /\ GhostsOK'
    BY <1>9, EndedTyped DEF AgentFinishes, RowsOK, QueueOK, GhostsOK
  <2>. QED BY <1>0, <1>9, <2>1 DEF AgentFinishes
<1>10. ASSUME NEW s \in Reports, RecordRun(r, s) PROVE TypeOK'
  <2>1. s \in Status
    BY ReportAssumption DEF Status, ACTIVE_RUN_STATUSES, TERMINAL_RUN_STATUSES
  <2>2. RowsOK' /\ QueueOK' /\ GhostsOK'
    BY <1>10, <2>1 DEF RecordRun, RowsOK, QueueOK, GhostsOK
  <2>. QED BY <1>0, <1>10, <2>2 DEF RecordRun
<1>11. {"success", "failed", "needs_attention", "cancelled"} \subseteq Status
  BY DEF Status, TERMINAL_RUN_STATUSES
<1>. QED
  BY <1>1, <1>2, <1>3, <1>4, <1>5, <1>6, <1>7, <1>8, <1>9, <1>10, <1>11 DEF Sweep

\* The timers of the processes, and their death.
LEMMA ProcessTyped ==
  ASSUME TypeOK,
         \/ Reap \/ (\E w \in Workers : Heartbeat(w) \/ Abandon(w))
         \/ \E p \in Procs : Crash(p)
  PROVE  TypeOK'
<1>. USE TypeParts DEF rowVars, workerVars, ghostVars
<1>1. ASSUME Reap PROVE TypeOK'
  <2>1. reaping \in Runs BY <1>1 DEF Reap, GhostsOK
  <2>2. "failed" \in Status BY DEF Status, TERMINAL_RUN_STATUSES
  <2>3. RowsOK' /\ QueueOK' /\ GhostsOK' /\ WorkersOK'
    BY <1>1, <2>1, <2>2, EndedTyped DEF Reap, RowsOK, QueueOK, GhostsOK, WorkersOK, Idle
  <2>. QED BY <2>3
<1>2. ASSUME NEW w \in Workers, Heartbeat(w) PROVE TypeOK'
  <2>1. RowsOK' /\ QueueOK' /\ GhostsOK' /\ WorkersOK'
    BY <1>2, RenewedTyped DEF Heartbeat, RowsOK, QueueOK, GhostsOK, WorkersOK, Idle
  <2>. QED BY <2>1
<1>3. ASSUME NEW w \in Workers, Abandon(w) PROVE TypeOK'
  <2>1. job[w] \in Jobs BY <1>3, BusyHasRun DEF Abandon
  <2>2. QueueOK' BY <1>3, <2>1, BoundsAssumption DEF Abandon, QueueOK
  <2>3. RowsOK' /\ GhostsOK' /\ WorkersOK'
    BY <1>3 DEF Abandon, RowsOK, GhostsOK, WorkersOK, Idle
  <2>. QED BY <2>2, <2>3
<1>4. ASSUME NEW p \in Procs, Crash(p) PROVE TypeOK'
  <2>1. WorkersOK' BY <1>4 DEF Crash, WorkersOK, Idle, PCs
  <2>2. QueueOK' BY <1>4, BoundsAssumption DEF Crash, QueueOK, Minus
  <2>3. RowsOK' /\ GhostsOK' BY <1>4, BoundsAssumption DEF Crash, RowsOK, GhostsOK
  <2>. QED BY <2>1, <2>2, <2>3
<1>. QED BY <1>1, <1>2, <1>3, <1>4

\* Every step of the system keeps every type.
LEMMA NextTyped ==
  ASSUME TypeOK, [Next]_vars
  PROVE  TypeOK'
<1>1. CASE UNCHANGED vars
  BY <1>1 DEF TypeOK, vars, Idle
<1>2. CASE Next
  BY <1>2, StepTyped, TakeTyped, SweepTyped, ProcessTyped DEF Next
<1>. QED BY <1>1, <1>2

\* Whatever the numbers of runs, workers, processes, retries and crashes, rows, jobs
\* and workers keep their types: a status outside the declared set is never written.
THEOREM TypeCorrect == Spec => []TypeOK
<1>1. Init => TypeOK BY InitTyped
<1>2. TypeOK /\ [Next]_vars => TypeOK' BY NextTyped
<1>. QED BY <1>1, <1>2, PTL DEF Spec

----------------------------------------------------------------------------
(* One driver, one handover, nothing without consent *)

USE DEF FreshStatus

\* The initial state is one in which nothing was begun.
LEMMA InitInv == Init => IInv
BY DEF Init, IInv, JobFitsStep, OneBeginner, FreshIsFree, OneDriver, Drives, Works,
       CallIsAhead, ConsentFollowsGate, HandedOverOnce, Idle

\* Runs only move on, out of the fresh statuses or between the others.
Settling == \A r \in Runs : \/ status'[r] = status[r]
                            \/ status[r] # "none" /\ status'[r] \notin FreshStatus

\* Only a pending approval is answered.
Answering == \A r \in Runs : \/ approval'[r] = approval[r]
                             \/ approval[r] = "pending" /\ approval'[r] # "none"

\* Workers go on only to where they neither drive nor are about to.
Quieting == \A w \in Workers :
  \/ pc'[w] = pc[w] /\ job'[w] = job[w]
  \/ pc'[w] \in {"idle", "refuse", "leave", "reread", "unable"}

\* Reports are taken of born runs only.
Reporting == \A r \in external' : r \in external \/ status[r] # "none"

\* A step that settles, answers or lets go disturbs no driver and makes none.
LEMMA QuietInv ==
  ASSUME TypeOK, TypeOK', IInv, Settling, Answering, Quieting, Reporting,
         UNCHANGED handed
  PROVE  IInv'
<1>. USE DEF IInv, Settling, Answering, Quieting, Reporting, Works, Drives, Idle
<1>0. external' \subseteq Runs /\ external \subseteq Runs BY DEF TypeOK
<1>1. JobFitsStep' BY BusyHasRun DEF JobFitsStep
<1>2. OneBeginner' BY DEF OneBeginner
<1>3. FreshIsFree' BY <1>0 DEF FreshIsFree
<1>4. OneDriver' BY DEF OneDriver
<1>5. CallIsAhead' BY DEF CallIsAhead
<1>6. ConsentFollowsGate' BY DEF ConsentFollowsGate
<1>7. HandedOverOnce' BY DEF HandedOverOnce
<1>. QED BY <1>1, <1>2, <1>3, <1>4, <1>5, <1>6, <1>7

\* A step that at most ends a run or somebody's part in it.
Quiet == Settling /\ Quieting /\ Reporting /\ UNCHANGED <<handed, approval>>

LEMMA QuietKeeps == ASSUME TypeOK, TypeOK', IInv, Quiet PROVE IInv'
<1>1. Answering BY DEF Quiet, Answering
<1>. QED BY <1>1, QuietInv DEF Quiet

\* Finishing a run is settling, whatever the outcome.
LEMMA EndedSettles ==
  ASSUME TypeOK, NEW r \in Runs, NEW o \in Status \ FreshStatus, status' = Ended(r, o)
  PROVE  Settling
BY DEF TypeOK, Ended, Settling

OutcomesUsed == {"success", "failed", "cancelled", "timed_out", "needs_attention"}

LEMMA OutcomesAreFinal ==
  OutcomesUsed \cup Reports \cup {"running"} \subseteq Status \ FreshStatus
BY ReportAssumption DEF OutcomesUsed, Status, ACTIVE_RUN_STATUSES, TERMINAL_RUN_STATUSES

\* Moving on to a quiet label, or being released, is quieting.
LEMMA GotoQuiet ==
  ASSUME TypeOK, NEW w \in Workers, NEW l \in {"refuse", "leave", "reread", "unable"},
         Goto(w, l)
  PROVE  Quieting
BY DEF TypeOK, Goto, Quieting

LEMMA DoneQuiet ==
  ASSUME TypeOK, NEW w \in Workers, Done(w) \/ Thrown(w)
  PROVE  Quieting
BY DEF TypeOK, Done, Thrown, Release, Quieting

LEMMA StillQuiet == UNCHANGED <<pc, job>> => Quieting
BY DEF Quieting

\* The steps that end a worker's part in a run.
LEMMA LettingGoQuiet ==
  ASSUME TypeOK, NEW w \in Workers,
         \/ RefuseToday(w) \/ StopBeforeGate(w) \/ Reread(w) \/ Settle(w)
         \/ LeaveOpen(w) \/ ProviderThrew(w) \/ Leave(w) \/ NoResumer(w)
  PROVE  Quiet
<1>. DEFINE r == job[w].run
<1>. USE DEF rowVars, ghostVars
<1>0. ~Idle(w) /\ r \in Runs
  <2>1. ~Idle(w)
    BY DEF RefuseToday, StopBeforeGate, Reread, Settle, LeaveOpen, ProviderThrew, Leave,
           NoResumer, Idle
  <2>. QED BY <2>1, BusyHasRun
<1>1. CASE RefuseToday(w)
  <2>1. Settling BY <1>1, <1>0 DEF RefuseToday, Settling, TypeOK
  <2>2. Quieting /\ Reporting /\ UNCHANGED <<handed, approval>>
    BY <1>1, DoneQuiet DEF RefuseToday, Reporting
  <2>. QED BY <2>1, <2>2 DEF Quiet
<1>2. CASE StopBeforeGate(w)
  <2>1. Settling BY <1>2, <1>0, EndedSettles, OutcomesAreFinal DEF StopBeforeGate, OutcomesUsed
  <2>2. Quieting /\ Reporting /\ UNCHANGED <<handed, approval>>
    BY <1>2, GotoQuiet DEF StopBeforeGate, Reporting
  <2>. QED BY <2>1, <2>2 DEF Quiet
<1>3. CASE Reread(w)
  <2>1. Settling /\ Quieting /\ Reporting /\ UNCHANGED <<handed, approval>>
    BY <1>3, GotoQuiet DEF Reread, Settling, Reporting
  <2>. QED BY <2>1 DEF Quiet
<1>4. CASE Settle(w)
  <2>1. PICK o \in Outcomes(Kind(r)) :
          /\ status' = Ended(r, o)
          /\ external' \in IF o = "success" /\ Kind(r) = "task" /\ status[r] = "running"
                           THEN {external, external \cup {r}} ELSE {external}
    BY <1>4 DEF Settle
  <2>2. o \in Status \ FreshStatus
    BY <2>1, OutcomesAreFinal DEF Outcomes, OutcomesUsed
  <2>3. Settling BY <1>0, <2>1, <2>2, EndedSettles
  <2>4. Reporting BY <2>1 DEF Reporting
  <2>5. Quieting /\ UNCHANGED <<handed, approval>>
    BY <1>4, GotoQuiet DEF Settle
  <2>. QED BY <2>3, <2>4, <2>5 DEF Quiet
<1>5. CASE LeaveOpen(w)
  <2>1. Settling /\ Quieting /\ Reporting /\ UNCHANGED <<handed, approval>>
    BY <1>5, GotoQuiet DEF LeaveOpen, Settling, Reporting
  <2>. QED BY <2>1 DEF Quiet
<1>6. CASE ProviderThrew(w)
  <2>1. Settling
    BY <1>6, <1>0, EndedSettles, OutcomesAreFinal
       DEF ProviderThrew, ThrowOut, Settling, OutcomesUsed
  <2>2. Quieting /\ Reporting /\ UNCHANGED <<handed, approval>>
    BY <1>6, DoneQuiet DEF ProviderThrew, ThrowOut, Reporting
  <2>. QED BY <2>1, <2>2 DEF Quiet
<1>7. CASE Leave(w)
  <2>1. Settling /\ Quieting /\ Reporting /\ UNCHANGED <<handed, approval>>
    BY <1>7, DoneQuiet DEF Leave, Settling, Reporting
  <2>. QED BY <2>1 DEF Quiet
<1>8. CASE NoResumer(w)
  <2>1. Settling BY <1>8, <1>0, EndedSettles, OutcomesAreFinal DEF NoResumer, OutcomesUsed
  <2>2. Quieting /\ Reporting /\ UNCHANGED <<handed, approval>>
    BY <1>8, DoneQuiet DEF NoResumer, Reporting
  <2>. QED BY <2>1, <2>2 DEF Quiet
<1>. QED BY <1>1, <1>2, <1>3, <1>4, <1>5, <1>6, <1>7, <1>8

\* Everything else that neither answers, nor begins, nor drives a run.
LEMMA OutsideQuiet ==
  ASSUME TypeOK, IInv,
         \/ \E r \in Runs :
              \/ Reconcile(r) \/ Requeue(r) \/ ReapLook(r)
              \/ LeaseExpires(r) \/ RequestCancel(r)
              \/ \E o \in {"success", "failed", "needs_attention", "cancelled"} :
                   AgentFinishes(r, o)
              \/ \E s \in Reports : RecordRun(r, s)
         \/ Reap
         \/ \E w \in Workers : Heartbeat(w) \/ Abandon(w)
         \/ \E p \in Procs : Crash(p)
  PROVE  Quiet
<1>. USE DEF rowVars, workerVars, ghostVars
<1>1. ASSUME NEW r \in Runs, Reconcile(r) \/ Requeue(r) PROVE Quiet
  <2>1. Settling BY <1>1 DEF Reconcile, Requeue, Settling, TypeOK
  <2>2. Quieting /\ Reporting /\ UNCHANGED <<handed, approval>>
    BY <1>1, StillQuiet DEF Reconcile, Requeue, Reporting
  <2>. QED BY <2>1, <2>2 DEF Quiet
<1>2. ASSUME NEW r \in Runs, ReapLook(r) \/ LeaseExpires(r) \/ RequestCancel(r) PROVE Quiet
  <2>1. Settling /\ Quieting /\ Reporting /\ UNCHANGED <<handed, approval>>
    BY <1>2, StillQuiet DEF ReapLook, LeaseExpires, RequestCancel, Settling, Reporting
  <2>. QED BY <2>1 DEF Quiet
<1>3. ASSUME NEW r \in Runs, NEW o \in OutcomesUsed, AgentFinishes(r, o) PROVE Quiet
  <2>1. Settling BY <1>3, EndedSettles, OutcomesAreFinal DEF AgentFinishes
  <2>2. Quieting /\ Reporting /\ UNCHANGED <<handed, approval>>
    BY <1>3, StillQuiet DEF AgentFinishes, Reporting
  <2>. QED BY <2>1, <2>2 DEF Quiet
<1>4. ASSUME NEW r \in Runs, NEW s \in Reports, RecordRun(r, s) PROVE Quiet
  <2>1. status[r] # "none" BY <1>4 DEF RecordRun, IInv, FreshIsFree
  <2>2. Settling BY <1>4, <2>1, OutcomesAreFinal DEF RecordRun, Settling, TypeOK
  <2>3. Quieting /\ Reporting /\ UNCHANGED <<handed, approval>>
    BY <1>4, StillQuiet DEF RecordRun, Reporting
  <2>. QED BY <2>2, <2>3 DEF Quiet
<1>5. ASSUME Reap PROVE Quiet
  <2>1. reaping \in Runs BY <1>5 DEF Reap, TypeOK
  <2>2. Settling BY <1>5, <2>1, EndedSettles, OutcomesAreFinal DEF Reap, OutcomesUsed
  <2>3. Quieting /\ Reporting /\ UNCHANGED <<handed, approval>>
    BY <1>5, StillQuiet DEF Reap, Reporting
  <2>. QED BY <2>2, <2>3 DEF Quiet
<1>6. ASSUME NEW w \in Workers, Heartbeat(w) \/ Abandon(w) PROVE Quiet
  <2>1. Settling /\ Quieting /\ Reporting /\ UNCHANGED <<handed, approval>>
    BY <1>6, StillQuiet DEF Heartbeat, Abandon, Settling, Reporting
  <2>. QED BY <2>1 DEF Quiet
<1>7. ASSUME NEW p \in Procs, Crash(p) PROVE Quiet
  <2>1. Quieting BY <1>7 DEF Crash, Quieting
  <2>2. Settling /\ Reporting /\ UNCHANGED <<handed, approval>>
    BY <1>7 DEF Crash, Settling, Reporting
  <2>. QED BY <2>1, <2>2 DEF Quiet
<1>. QED
  BY <1>1, <1>2, <1>3, <1>4, <1>5, <1>6, <1>7 DEF OutcomesUsed

\* A decision, a timeout or a withdrawal at boot.
LEMMA AnswerInv ==
  ASSUME TypeOK, TypeOK', IInv, NEW r \in Runs,
         \/ ExpireApproval(r) \/ InterruptApproval(r)
         \/ \E d \in {"approved", "rejected"} : Decide(r, d)
  PROVE  IInv'
<1>. USE DEF workerVars, ghostVars
<1>1. Answering
  BY DEF ExpireApproval, Decide, InterruptApproval, Answering, TypeOK
<1>2. Settling /\ Quieting /\ Reporting /\ UNCHANGED handed
  BY StillQuiet DEF ExpireApproval, Decide, InterruptApproval, Settling, Reporting
<1>. QED BY <1>1, <1>2, QuietInv

\* A run is born: queued for its start job, or as the agent that owns it reports it.
LEMMA BirthInv ==
  ASSUME TypeOK, TypeOK', IInv, NEW r \in Runs, StartTask(r) \/ OpenExternal(r)
  PROVE  IInv'
<1>. USE DEF IInv, Works, Drives, Idle, workerVars, ghostVars
<1>0. /\ status[r] = "none" /\ status' = [status EXCEPT ![r] = status'[r]]
      /\ status'[r] = "queued" \/ status'[r] \notin FreshStatus
      /\ r \notin ChatRuns \cup DispatchRuns
      /\ external' \in {external, external \cup {r}}
      /\ UNCHANGED <<approval, handed, pc, job>>
  BY KindAssumption, OutcomesAreFinal DEF StartTask, OpenExternal, TypeOK
<1>1. JobFitsStep' BY <1>0, BusyHasRun DEF JobFitsStep, TypeOK
<1>2. OneBeginner' BY <1>0 DEF OneBeginner
<1>3. FreshIsFree' BY <1>0 DEF FreshIsFree, TypeOK
<1>4. OneDriver' BY <1>0 DEF OneDriver
<1>5. CallIsAhead' BY <1>0 DEF CallIsAhead
<1>6. ConsentFollowsGate' BY <1>0 DEF ConsentFollowsGate, TypeOK
<1>7. HandedOverOnce' BY <1>0 DEF HandedOverOnce
<1>. QED BY <1>1, <1>2, <1>3, <1>4, <1>5, <1>6, <1>7

\* An idle worker is given a job that it does not drive yet.
LEMMA TakeInv ==
  ASSUME TypeOK, TypeOK', IInv, NEW w \in Workers,
         Take(w) \/ (\E r \in Runs : TakeDelivery(w, r))
  PROVE  IInv'
<1>. USE DEF IInv, Works, Drives, Idle, rowVars, workerVars, ghostVars
<1>1. ASSUME NEW j \in Jobs, NEW l \in {"refuse", "claim", "poll", "decide", "begin"},
             Given(w, j, l), Idle(w), UNCHANGED <<status, approval, handed, external>>,
             l \in {"poll", "decide"} => j.type = "resume",
             l = "claim" => j.type = "start",
             l = "begin" => /\ j.type = "deliver" /\ j.run \in ChatRuns \cup DispatchRuns
                            /\ status[j.run] = "none"
                            /\ \A v \in Workers : ~Works(v, j.run)
      PROVE IInv'
  <2>0. /\ pc' = [pc EXCEPT ![w] = l] /\ job' = [job EXCEPT ![w] = j]
        /\ UNCHANGED <<status, approval, handed, external>>
    BY <1>1 DEF Given
  <2>. USE <2>0, <1>1
  <2>1. JobFitsStep' BY DEF JobFitsStep, TypeOK
  <2>2. OneBeginner' BY DEF OneBeginner, TypeOK
  <2>3. FreshIsFree' BY DEF FreshIsFree, TypeOK
  <2>4. OneDriver' BY DEF OneDriver, TypeOK
  <2>5. CallIsAhead' BY DEF CallIsAhead, TypeOK
  <2>6. ConsentFollowsGate' BY DEF ConsentFollowsGate, TypeOK
  <2>7. HandedOverOnce' BY DEF HandedOverOnce
  <2>. QED BY <2>1, <2>2, <2>3, <2>4, <2>5, <2>6, <2>7
<1>2. ASSUME NEW j \in Jobs, UNCHANGED <<status, approval, handed, external, pc, job>>
      PROVE IInv'
  BY <1>2, StillQuiet, QuietInv DEF Settling, Answering, Reporting
<1>3. ASSUME NEW j \in Jobs, TakeResume(w, j) PROVE IInv'
  <2>1. Idle(w) /\ j.type = "resume" /\ UNCHANGED <<status, approval, handed, external>>
    BY <1>3 DEF TakeResume, Deliverable
  <2>2. \/ Given(w, j, "poll") \/ Given(w, j, "decide") \/ UNCHANGED <<pc, job>>
    BY <1>3 DEF TakeResume
  <2>. QED BY <1>1, <1>2, <2>1, <2>2
<1>4. ASSUME NEW j \in Jobs, TakeStart(w, j) PROVE IInv'
  <2>1. Idle(w) /\ j.type = "start" /\ UNCHANGED <<status, approval, handed, external>>
    BY <1>4 DEF TakeStart, Deliverable
  <2>2. Given(w, j, "refuse") \/ Given(w, j, "claim") BY <1>4 DEF TakeStart
  <2>. QED BY <1>1, <2>1, <2>2
<1>5. ASSUME NEW j \in Jobs, RefuseForNow(w, j) PROVE IInv'
  BY <1>5, <1>2 DEF RefuseForNow
<1>6. ASSUME NEW r \in Runs, TakeDelivery(w, r) PROVE IInv'
  <2>1. DeliverJob(r) \in Jobs /\ DeliverJob(r).run = r /\ DeliverJob(r).type = "deliver"
    BY JobsAreJobs DEF DeliverJob
  <2>2. /\ Given(w, DeliverJob(r), "begin") /\ Idle(w) /\ status[r] = "none"
        /\ r \in ChatRuns \cup DispatchRuns /\ \A v \in Workers : ~Works(v, r)
        /\ UNCHANGED <<status, approval, handed, external>>
    BY <1>6 DEF TakeDelivery
  <2>. QED BY <1>1, <2>1, <2>2
<1>. QED BY <1>3, <1>4, <1>5, <1>6 DEF Take

\* The steps after which a worker drives a run nobody drove.
LEMMA BecomesDriverInv ==
  ASSUME TypeOK, TypeOK', IInv, NEW w \in Workers,
         BeginDelivery(w) \/ Claim(w) \/ SettleDecision(w)
  PROVE  IInv'
<1>. DEFINE r == job[w].run
<1>. USE DEF IInv, Works, Drives, Idle, rowVars, workerVars, ghostVars
<1>0. r \in Runs /\ job[w] \in Jobs
  <2>1. ~Idle(w) BY DEF BeginDelivery, Claim, SettleDecision
  <2>. QED BY <2>1, BusyHasRun
<1>1. ASSUME NEW l \in {"lease", "perform", "unable"}, Goto(w, l), pc[w] # "idle",
             status[r] \in FreshStatus, status' = [status EXCEPT ![r] = "running"],
             UNCHANGED <<approval, handed, external>>,
             \A v \in Workers \ {w} : pc[v] = "begin" => job[v].run # r,
             l # "unable" =>
                approval[r] = IF job[w].type = "resume" THEN "approved" ELSE "none",
             l = "perform" => job[w].type = "resume"
      PROVE IInv'
  <2>0. pc' = [pc EXCEPT ![w] = l] /\ job' = job BY <1>1 DEF Goto
  <2>. USE <1>0, <1>1, <2>0
  <2>1. JobFitsStep' BY BusyHasRun DEF JobFitsStep, TypeOK
  <2>2. OneBeginner' BY DEF OneBeginner, TypeOK
  <2>3. FreshIsFree' BY DEF FreshIsFree, TypeOK
  <2>4. OneDriver' BY DEF OneDriver, FreshIsFree, TypeOK
  <2>5. CallIsAhead' BY DEF CallIsAhead, FreshIsFree, TypeOK
  <2>6. ConsentFollowsGate' BY DEF ConsentFollowsGate, TypeOK
  <2>7. HandedOverOnce' BY DEF HandedOverOnce
  <2>. QED BY <2>1, <2>2, <2>3, <2>4, <2>5, <2>6, <2>7
<1>2. CASE BeginDelivery(w)
  <2>1. /\ pc[w] = "begin" /\ job[w].type = "deliver" /\ status[r] = "none"
        /\ \A v \in Workers \ {w} : pc[v] = "begin" => job[v].run # r
    BY <1>2 DEF BeginDelivery, JobFitsStep, OneBeginner
  <2>2. approval[r] = "none" BY <1>0, <2>1 DEF ConsentFollowsGate
  <2>. QED BY <1>0, <1>1, <1>2, <2>1, <2>2 DEF BeginDelivery
<1>3. CASE Claim(w)
  <2>1. CASE status[r] = "queued"
    <3>1. pc[w] = "claim" /\ job[w].type = "start" BY <1>3 DEF Claim, JobFitsStep
    <3>2. \A v \in Workers \ {w} : pc[v] = "begin" => job[v].run # r
      BY <2>1 DEF JobFitsStep
    <3>3. approval[r] = "none" BY <1>0, <2>1 DEF ConsentFollowsGate
    <3>. QED BY <1>0, <1>1, <1>3, <2>1, <3>1, <3>2, <3>3 DEF Claim
  <2>2. CASE status[r] # "queued"
    <3>1. Settling /\ Answering /\ Quieting /\ Reporting /\ UNCHANGED handed
      BY <1>3, <2>2, DoneQuiet DEF Claim, Settling, Answering, Reporting
    <3>. QED BY <3>1, QuietInv
  <2>. QED BY <2>1, <2>2
<1>4. CASE SettleDecision(w)
  <2>0. pc[w] = "decide" /\ job[w].type = "resume" BY <1>4 DEF SettleDecision, JobFitsStep
  <2>1. CASE status[r] = "waiting_approval" /\ approval[r] = "approved"
    <3>1. Resume(w, r) /\ UNCHANGED <<approval, handed, external>>
      BY <1>4, <2>1 DEF SettleDecision
    <3>2. \A v \in Workers \ {w} : pc[v] = "begin" => job[v].run # r
      BY <2>1 DEF JobFitsStep
    <3>3. PICK l \in {"lease", "perform", "unable"} : Goto(w, l)
      BY <3>1 DEF Resume
    <3>. QED BY <1>0, <1>1, <2>0, <2>1, <3>1, <3>2, <3>3 DEF Resume
  <2>2. CASE ~(status[r] = "waiting_approval" /\ approval[r] = "approved")
    <3>1. Quieting BY <1>4, <2>2, DoneQuiet DEF SettleDecision, RefuseParked
    <3>2. Settling /\ Answering /\ Reporting /\ UNCHANGED handed
      BY <1>0, <1>4, <2>2 DEF SettleDecision, RefuseParked, Settling, Answering, Reporting, TypeOK
    <3>. QED BY <3>1, <3>2, QuietInv
  <2>. QED BY <2>1, <2>2
<1>. QED BY <1>2, <1>3, <1>4

\* A driver goes on with its run, which it alone may do.
LEMMA DrivingInv ==
  ASSUME TypeOK, TypeOK', IInv, NEW w \in Workers,
         \/ EnterLease(w) \/ AskPolicy(w) \/ Park(w) \/ Perform(w) \/ HandOver(w)
         \/ Poll(w)
  PROVE  IInv'
<1>. DEFINE r == job[w].run
<1>. USE DEF IInv, Works, Drives, Idle, rowVars, workerVars, ghostVars
<1>0. r \in Runs /\ job[w] \in Jobs
  <2>1. ~Idle(w) BY DEF EnterLease, AskPolicy, Park, Perform, HandOver, Poll
  <2>. QED BY <2>1, BusyHasRun
<1>1. CASE EnterLease(w)
  <2>0. /\ pc[w] = "lease" /\ job' = job /\ UNCHANGED <<status, approval, handed, external>>
        /\ pc' = [pc EXCEPT ![w] = IF job[w].type = "resume" THEN "perform" ELSE "gate"]
    BY <1>1 DEF EnterLease, Goto
  <2>. USE <1>0, <2>0
  <2>1. JobFitsStep' BY DEF JobFitsStep, TypeOK
  <2>2. OneBeginner' BY DEF OneBeginner, TypeOK
  <2>3. FreshIsFree' BY DEF FreshIsFree, TypeOK
  <2>4. OneDriver' BY DEF OneDriver, TypeOK
  <2>5. CallIsAhead' BY DEF CallIsAhead, TypeOK
  <2>6. ConsentFollowsGate' BY DEF ConsentFollowsGate, TypeOK
  <2>7. HandedOverOnce' BY DEF HandedOverOnce
  <2>. QED BY <2>1, <2>2, <2>3, <2>4, <2>5, <2>6, <2>7
<1>2. CASE AskPolicy(w)
  <2>0. /\ pc[w] = "gate" /\ job' = job /\ UNCHANGED <<status, handed, external>>
        /\ \/ pc' = [pc EXCEPT ![w] = "perform"] /\ approval' = approval
           \/ /\ pc' = [pc EXCEPT ![w] = "park"]
              /\ approval' = [approval EXCEPT ![r] = "pending"]
    BY <1>2 DEF AskPolicy, Goto
  <2>. USE <1>0, <2>0
  <2>1. JobFitsStep' BY DEF JobFitsStep, TypeOK
  <2>2. OneBeginner' BY DEF OneBeginner, TypeOK
  <2>3. FreshIsFree' BY DEF FreshIsFree, TypeOK
  <2>4. OneDriver' BY DEF OneDriver, TypeOK
  <2>5. CallIsAhead' BY DEF CallIsAhead, TypeOK
  <2>6. ConsentFollowsGate'
    <3>1. handed[r] = 0 /\ status[r] \notin FreshStatus
          /\ \A v \in Workers \ {w} : ~Drives(v, r)
      BY DEF CallIsAhead, FreshIsFree, OneDriver
    <3>. QED BY <3>1 DEF ConsentFollowsGate, TypeOK
  <2>7. HandedOverOnce' BY DEF HandedOverOnce
  <2>. QED BY <2>1, <2>2, <2>3, <2>4, <2>5, <2>6, <2>7
<1>3. CASE Park(w)
  <2>1. CASE status[r] # "running"
    <3>1. Quieting /\ Settling /\ Reporting /\ UNCHANGED handed
      BY <1>3, <2>1, GotoQuiet DEF Park, Settling, Reporting
    <3>2. Answering BY <1>0, <1>3, <2>1 DEF Park, Withdrawn, Answering, TypeOK
    <3>. QED BY <3>1, <3>2, QuietInv
  <2>2. CASE status[r] = "running"
    <3>0. /\ pc[w] = "park" /\ job' = job /\ UNCHANGED <<approval, handed, external>>
          /\ status' = [status EXCEPT ![r] = "waiting_approval"]
          /\ pc' = [pc EXCEPT ![w] = "reread"]
      BY <1>3, <2>2 DEF Park, Goto
    <3>. USE <1>0, <2>2, <3>0
    <3>1. JobFitsStep' BY BusyHasRun DEF JobFitsStep, TypeOK
    <3>2. OneBeginner' BY DEF OneBeginner, TypeOK
    <3>3. handed[r] = 0 /\ \A v \in Workers \ {w} : ~Drives(v, r)
      BY DEF CallIsAhead, OneDriver
    <3>4. FreshIsFree' BY <3>3 DEF FreshIsFree, TypeOK
    <3>5. OneDriver' BY DEF OneDriver, TypeOK
    <3>6. CallIsAhead' BY DEF CallIsAhead, TypeOK
    <3>7. ConsentFollowsGate' BY DEF ConsentFollowsGate, TypeOK
    <3>8. HandedOverOnce' BY DEF HandedOverOnce
    <3>. QED BY <3>1, <3>2, <3>4, <3>5, <3>6, <3>7, <3>8
  <2>. QED BY <2>1, <2>2
<1>4. CASE Perform(w)
  <2>1. CASE Goto(w, "call") /\ UNCHANGED status
    <3>0. /\ pc[w] = "perform" /\ job' = job /\ pc' = [pc EXCEPT ![w] = "call"]
          /\ UNCHANGED <<status, approval, handed, external>>
      BY <1>4, <2>1 DEF Perform, Goto
    <3>. USE <1>0, <3>0
    <3>1. JobFitsStep' BY DEF JobFitsStep, TypeOK
    <3>2. OneBeginner' BY DEF OneBeginner, TypeOK
    <3>3. FreshIsFree' BY DEF FreshIsFree, TypeOK
    <3>4. OneDriver' BY DEF OneDriver, TypeOK
    <3>5. CallIsAhead' BY DEF CallIsAhead, TypeOK
    <3>6. ConsentFollowsGate' BY DEF ConsentFollowsGate, TypeOK
    <3>7. HandedOverOnce' BY DEF HandedOverOnce
    <3>. QED BY <3>1, <3>2, <3>3, <3>4, <3>5, <3>6, <3>7
  <2>2. CASE ~(Goto(w, "call") /\ UNCHANGED status)
    <3>1. Quieting
      BY <1>4, <2>2, DoneQuiet, GotoQuiet DEF Perform, ThrowOut
    <3>2. Settling
      BY <1>0, <1>4, <2>2, EndedSettles, OutcomesAreFinal
         DEF Perform, ThrowOut, OutcomesUsed, Settling
    <3>3. Answering /\ Reporting /\ UNCHANGED handed
      BY <1>4 DEF Perform, Answering, Reporting
    <3>. QED BY <3>1, <3>2, <3>3, QuietInv
  <2>. QED BY <2>1, <2>2
<1>5. CASE HandOver(w)
  <2>0. /\ pc[w] = "call" /\ job' = job /\ pc' = [pc EXCEPT ![w] = "settle"]
        /\ handed' = [handed EXCEPT ![r] = @ + 1]
        /\ UNCHANGED <<status, approval, external>>
    BY <1>5 DEF HandOver, Goto
  <2>. USE <1>0, <2>0
  <2>1. JobFitsStep' BY DEF JobFitsStep, TypeOK
  <2>2. OneBeginner' BY DEF OneBeginner, TypeOK
  <2>3. /\ handed[r] = 0 /\ status[r] \notin FreshStatus
        /\ \A v \in Workers \ {w} : ~Drives(v, r)
    BY DEF CallIsAhead, FreshIsFree, OneDriver
  <2>4. FreshIsFree' BY <2>3 DEF FreshIsFree, TypeOK
  <2>5. OneDriver' BY DEF OneDriver, TypeOK
  <2>6. CallIsAhead' BY <2>3 DEF CallIsAhead, TypeOK
  <2>7. ConsentFollowsGate' BY DEF ConsentFollowsGate, TypeOK
  <2>8. HandedOverOnce' BY <2>3 DEF HandedOverOnce, TypeOK
  <2>. QED BY <2>1, <2>2, <2>4, <2>5, <2>6, <2>7, <2>8
<1>6. CASE Poll(w)
  <2>1. CASE Done(w)
    <3>1. Settling /\ Answering /\ Quieting /\ Reporting /\ UNCHANGED handed
      BY <1>6, <2>1, DoneQuiet DEF Poll, Settling, Answering, Reporting
    <3>. QED BY <3>1, QuietInv
  <2>2. CASE ~Done(w)
    <3>0. /\ pc[w] = "poll" /\ job' = job /\ pc' = [pc EXCEPT ![w] = "decide"]
          /\ UNCHANGED <<status, approval, handed, external>>
      BY <1>6, <2>2 DEF Poll, Goto
    <3>. USE <1>0, <3>0
    <3>1. JobFitsStep' BY DEF JobFitsStep, TypeOK
    <3>2. OneBeginner' BY DEF OneBeginner, TypeOK
    <3>3. FreshIsFree' BY DEF FreshIsFree, TypeOK
    <3>4. OneDriver' BY DEF OneDriver, TypeOK
    <3>5. CallIsAhead' BY DEF CallIsAhead, TypeOK
    <3>6. ConsentFollowsGate' BY DEF ConsentFollowsGate, TypeOK
    <3>7. HandedOverOnce' BY DEF HandedOverOnce
    <3>. QED BY <3>1, <3>2, <3>3, <3>4, <3>5, <3>6, <3>7
  <2>. QED BY <2>1, <2>2
<1>. QED BY <1>1, <1>2, <1>3, <1>4, <1>5, <1>6

\* Every step of the system keeps the invariant.
LEMMA NextInv ==
  ASSUME TypeOK, TypeOK', IInv, [Next]_vars
  PROVE  IInv'
<1>1. CASE UNCHANGED vars
  <2>1. Quiet BY <1>1, StillQuiet DEF vars, Quiet, Settling, Reporting
  <2>. QED BY <2>1, QuietKeeps
<1>2. CASE Next
  <2>1. ASSUME NEW w \in Workers, Step(w) PROVE IInv'
    BY <2>1, LettingGoQuiet, QuietKeeps, BecomesDriverInv, DrivingInv DEF Step
  <2>2. ASSUME NEW w \in Workers,
               \/ Take(w) \/ Heartbeat(w) \/ Abandon(w)
               \/ \E r \in Runs : TakeDelivery(w, r)
        PROVE IInv'
    BY <2>2, TakeInv, OutsideQuiet, QuietKeeps
  <2>3. ASSUME NEW r \in Runs,
               \/ StartTask(r) \/ OpenExternal(r) \/ Sweep(r) \/ LeaseExpires(r)
               \/ RequestCancel(r)
               \/ \E d \in {"approved", "rejected"} : Decide(r, d)
               \/ \E o \in {"success", "failed", "needs_attention", "cancelled"} :
                    AgentFinishes(r, o)
               \/ \E s \in Reports : RecordRun(r, s)
        PROVE IInv'
    BY <2>3, AnswerInv, BirthInv, OutsideQuiet, QuietKeeps DEF Sweep
  <2>4. ASSUME Reap \/ \E p \in Procs : Crash(p) PROVE IInv'
    BY <2>4, OutsideQuiet, QuietKeeps
  <2>. QED BY <1>2, <2>1, <2>2, <2>3, <2>4 DEF Next
<1>. QED BY <1>1, <1>2

\* The invariant holds in every reachable state of every instance.
THEOREM Invariant == Spec => [](TypeOK /\ IInv)
<1>1. Init => TypeOK /\ IInv BY InitTyped, InitInv
<1>2. TypeOK /\ IInv /\ [Next]_vars => TypeOK' /\ IInv' BY NextTyped, NextInv
<1>. QED BY <1>1, <1>2, PTL DEF Spec

\* However many deliveries, retries, zombies, resumes, crashes and reports there are,
\* a run's work is handed to its provider at most once.
THEOREM HandsOverOnce == Spec => []HandedOverOnce
<1>1. IInv => HandedOverOnce BY DEF IInv
<1>. QED BY <1>1, Invariant, PTL

\* However the decision, its timeout and the park interleave, work whose policy asked
\* reaches the provider only under an approval.
THEOREM ConsentsFirst == Spec => []NothingWithoutConsent
<1>1. IInv => NothingWithoutConsent BY DEF IInv, ConsentFollowsGate, NothingWithoutConsent
<1>. QED BY <1>1, Invariant, PTL

\* The guarded claims leave a run one driver at a time.
THEOREM DrivesAlone == Spec => []OneDriver
<1>1. IInv => OneDriver BY DEF IInv
<1>. QED BY <1>1, Invariant, PTL

----------------------------------------------------------------------------
(* What a step may never do *)

\* Finishing touches running runs only.
LEMMA EndedSpares ==
  ASSUME TypeOK, NEW q \in Runs, NEW o, status' = Ended(q, o),
         NEW r \in Runs, status[r] \in TERMINAL_RUN_STATUSES
  PROVE  status'[r] = status[r]
BY DEF TypeOK, Ended, TERMINAL_RUN_STATUSES

\* A worker's step leaves a settled run as it is.
LEMMA StepSpares ==
  ASSUME TypeOK, IInv, NEW w \in Workers, Step(w),
         NEW r \in Runs, status[r] \in TERMINAL_RUN_STATUSES
  PROVE  status'[r] = status[r]
<1>. USE DEF rowVars
<1>1. ~Idle(w)
  BY DEF Step, BeginDelivery, RefuseToday, Claim, EnterLease, StopBeforeGate, AskPolicy, Park,
     Reread, Perform, HandOver, Settle, LeaveOpen, ProviderThrew, Leave, Poll,
     SettleDecision, NoResumer, Idle
<1>2. job[w].run \in Runs BY <1>1, BusyHasRun
<1>3. CASE BeginDelivery(w)
  BY <1>2, <1>3 DEF BeginDelivery, TypeOK, IInv, JobFitsStep, TERMINAL_RUN_STATUSES
<1>4. CASE RefuseToday(w) \/ Claim(w) \/ Park(w)
  BY <1>2, <1>4 DEF RefuseToday, Claim, Park, TypeOK, TERMINAL_RUN_STATUSES
<1>5. CASE StopBeforeGate(w) \/ Perform(w) \/ Settle(w) \/ ProviderThrew(w) \/ NoResumer(w)
  BY <1>2, <1>5, EndedSpares
     DEF StopBeforeGate, Perform, Settle, ProviderThrew, NoResumer, ThrowOut
<1>6. CASE SettleDecision(w)
  BY <1>2, <1>6
     DEF SettleDecision, RefuseParked, Resume, TypeOK, TERMINAL_RUN_STATUSES
<1>7. CASE \/ EnterLease(w) \/ AskPolicy(w) \/ Reread(w) \/ HandOver(w)
           \/ LeaveOpen(w) \/ Leave(w) \/ Poll(w)
  BY <1>7 DEF EnterLease, AskPolicy, Reread, HandOver, LeaveOpen, Leave, Poll
<1>. QED BY <1>3, <1>4, <1>5, <1>6, <1>7 DEF Step

\* Reapers, zombies, resumes and late reports leave a settled run's outcome alone; only
\* recordRun, which does not look, may rewrite it.
THEOREM SettledForGood == Spec => SettledStays
<1>. DEFINE Spares == \A r \in Runs : status[r] \in TERMINAL_RUN_STATUSES =>
                        status'[r] = status[r] \/ \E s \in Reports : RecordRun(r, s)
<1>1. ASSUME TypeOK, IInv, [Next]_vars PROVE [Spares]_vars
  <2>. SUFFICES ASSUME Next, NEW r \in Runs, status[r] \in TERMINAL_RUN_STATUSES
                PROVE  status'[r] = status[r] \/ \E s \in Reports : RecordRun(r, s)
    BY <1>1
  <2>. USE DEF rowVars, workerVars, ghostVars
  <2>1. ASSUME NEW w \in Workers,
               Take(w) \/ Step(w) \/ Heartbeat(w) \/ Abandon(w)
                 \/ \E q \in Runs : TakeDelivery(w, q)
        PROVE  status'[r] = status[r]
    <3>1. CASE Step(w) BY <1>1, <3>1, StepSpares
    <3>2. CASE Take(w) \/ Heartbeat(w) \/ Abandon(w) \/ \E q \in Runs : TakeDelivery(w, q)
      BY <3>2 DEF Take, RefuseForNow, TakeStart, TakeResume, Heartbeat, Abandon, TakeDelivery
    <3>. QED BY <2>1, <3>1, <3>2
  <2>2. ASSUME NEW q \in Runs,
               \/ Sweep(q) \/ LeaseExpires(q) \/ RequestCancel(q)
               \/ StartTask(q) \/ OpenExternal(q)
               \/ \E d \in {"approved", "rejected"} : Decide(q, d)
        PROVE  status'[r] = status[r]
    BY <1>1, <2>2
       DEF Sweep, ExpireApproval, Reconcile, InterruptApproval, Requeue, ReapLook,
           LeaseExpires, RequestCancel, StartTask, OpenExternal, Decide, TypeOK,
           TERMINAL_RUN_STATUSES
  <2>3. ASSUME NEW q \in Runs, NEW o, AgentFinishes(q, o)
        PROVE  status'[r] = status[r]
    BY <1>1, <2>3, EndedSpares DEF AgentFinishes
  <2>4. ASSUME NEW q \in Runs, NEW s \in Reports, RecordRun(q, s)
        PROVE  status'[r] = status[r] \/ \E t \in Reports : RecordRun(r, t)
    BY <1>1, <2>4 DEF RecordRun, TypeOK
  <2>5. ASSUME Reap PROVE status'[r] = status[r]
    <3>1. reaping \in Runs BY <1>1, <2>5 DEF Reap, TypeOK
    <3>. QED BY <1>1, <2>5, <3>1, EndedSpares DEF Reap
  <2>6. ASSUME NEW p \in Procs, Crash(p) PROVE status'[r] = status[r]
    BY <2>6 DEF Crash
  <2>. QED BY <2>1, <2>2, <2>3, <2>4, <2>5, <2>6 DEF Next
<1>. QED BY <1>1, Invariant, PTL DEF Spec, SettledStays

\* A decision, a timeout, a withdrawal and a boot race for an approval: whoever writes
\* first answers it, the others change nothing.
THEOREM DecidesOnce == Spec => DecidedOnce
<1>. DEFINE Once == \A r \in Runs : approval[r] \notin {"none", "pending"} =>
                      approval'[r] = approval[r]
<1>1. ASSUME TypeOK, IInv, [Next]_vars PROVE [Once]_vars
  <2>. SUFFICES ASSUME Next, NEW r \in Runs, approval[r] \notin {"none", "pending"}
                PROVE  approval'[r] = approval[r]
    BY <1>1
  <2>. USE DEF rowVars, workerVars, ghostVars
  <2>1. ASSUME NEW w \in Workers, Step(w) PROVE approval'[r] = approval[r]
    <3>1. CASE AskPolicy(w)
      <4>1. job[w].run \in Runs BY <3>1, BusyHasRun, <1>1 DEF AskPolicy, Idle
      <4>2. approval[job[w].run] = "none"
        BY <1>1, <3>1, <4>1 DEF AskPolicy, IInv, ConsentFollowsGate, Works, Idle
      <4>. QED BY <1>1, <3>1, <4>1, <4>2 DEF AskPolicy, TypeOK
    <3>2. CASE Park(w) BY <1>1, <3>2 DEF Park, Withdrawn, TypeOK
    <3>3. CASE ~AskPolicy(w) /\ ~Park(w)
      BY <2>1, <3>3
         DEF Step, BeginDelivery, RefuseToday, Claim, EnterLease, StopBeforeGate, Reread,
             Perform, HandOver, Settle, LeaveOpen, ProviderThrew, Leave, Poll,
             SettleDecision, NoResumer
    <3>. QED BY <3>1, <3>2, <3>3
  <2>2. ASSUME NEW w \in Workers,
               Take(w) \/ Heartbeat(w) \/ Abandon(w) \/ \E q \in Runs : TakeDelivery(w, q)
        PROVE  approval'[r] = approval[r]
    BY <2>2 DEF Take, RefuseForNow, TakeStart, TakeResume, Heartbeat, Abandon, TakeDelivery
  <2>3. ASSUME NEW q \in Runs,
               \/ ExpireApproval(q) \/ InterruptApproval(q)
               \/ \E d \in {"approved", "rejected"} : Decide(q, d)
        PROVE  approval'[r] = approval[r]
    BY <1>1, <2>3 DEF ExpireApproval, InterruptApproval, Decide, TypeOK
  <2>4. ASSUME \/ \E q \in Runs :
                    \/ StartTask(q) \/ OpenExternal(q) \/ Reconcile(q) \/ Requeue(q)
                    \/ ReapLook(q) \/ LeaseExpires(q) \/ RequestCancel(q)
                    \/ \E o \in {"success", "failed", "needs_attention", "cancelled"} :
                         AgentFinishes(q, o)
                    \/ \E s \in Reports : RecordRun(q, s)
               \/ Reap
               \/ \E p \in Procs : Crash(p)
        PROVE  approval'[r] = approval[r]
    BY <2>4 DEF StartTask, OpenExternal, Reconcile, Requeue, ReapLook, LeaseExpires,
                RequestCancel, AgentFinishes, RecordRun, Reap, Crash
  <2>. QED BY <2>1, <2>2, <2>3, <2>4 DEF Next, Sweep
<1>. QED BY <1>1, Invariant, PTL DEF Spec, DecidedOnce

----------------------------------------------------------------------------
(* The transition map *)

\* The declared transitions that the executors, people and sweeps make.
LEMMA TransitionsMade ==
  /\ \A o \in OutcomesUsed : <<"running", o>> \in RUN_TRANSITIONS
  /\ <<"queued", "running">> \in RUN_TRANSITIONS
  /\ <<"running", "waiting_approval">> \in RUN_TRANSITIONS
  /\ \A o \in {"running", "cancelled", "timed_out", "failed"} :
       <<"waiting_approval", o>> \in RUN_TRANSITIONS
BY DEF RUN_TRANSITIONS, OutcomesUsed, TERMINAL_RUN_STATUSES

\* A run's status stays, or moves along the map, or from queued straight to failed.
Moves(r) == status[r] # "none" /\ status'[r] # status[r] =>
  <<status[r], status'[r]>> \in RUN_TRANSITIONS \cup {<<"queued", "failed">>}

LEMMA EndedMoves ==
  ASSUME TypeOK, NEW q \in Runs, NEW o \in OutcomesUsed, status' = Ended(q, o), NEW r \in Runs
  PROVE  Moves(r)
<1>1. status'[r] = status[r] \/ (status[r] = "running" /\ status'[r] = o)
  BY DEF TypeOK, Ended
<1>. QED BY <1>1, TransitionsMade DEF Moves

\* One run's status is overwritten by a move of the map.
LEMMA OneMoves ==
  ASSUME TypeOK, NEW q \in Runs, NEW s, status' = [status EXCEPT ![q] = s],
         <<status[q], s>> \in RUN_TRANSITIONS \cup {<<"queued", "failed">>}, NEW r \in Runs
  PROVE  Moves(r)
<1>1. IF r = q THEN status'[r] = s ELSE status'[r] = status[r] BY DEF TypeOK
<1>. QED BY <1>1 DEF Moves

LEMMA StepMoves ==
  ASSUME TypeOK, IInv, NEW w \in Workers, Step(w), NEW r \in Runs
  PROVE  Moves(r)
<1>. DEFINE q == job[w].run
<1>. USE DEF rowVars
<1>1. ~Idle(w)
  BY DEF Step, BeginDelivery, RefuseToday, Claim, EnterLease, StopBeforeGate, AskPolicy, Park,
     Reread, Perform, HandOver, Settle, LeaveOpen, ProviderThrew, Leave, Poll,
     SettleDecision, NoResumer, Idle
<1>2. q \in Runs BY <1>1, BusyHasRun
<1>3. UNCHANGED status => Moves(r) BY DEF Moves
<1>4. CASE BeginDelivery(w)
  <2>1. status[q] = "none" BY <1>4 DEF BeginDelivery, IInv, JobFitsStep
  <2>. QED BY <1>2, <1>4, <2>1 DEF BeginDelivery, Moves, TypeOK
<1>5. CASE RefuseToday(w)
  <2>1. CASE status[q] = "queued"
    <3>1. status' = [status EXCEPT ![q] = "failed"] BY <1>5, <2>1 DEF RefuseToday
    <3>. QED BY <1>2, <2>1, <3>1, OneMoves
  <2>2. CASE status[q] # "queued"
    BY <1>2, <1>5, <2>2 DEF RefuseToday, Moves, TypeOK
  <2>. QED BY <2>1, <2>2
<1>6. CASE Claim(w) BY <1>2, <1>3, <1>6, OneMoves, TransitionsMade DEF Claim
<1>7. CASE Park(w) BY <1>2, <1>3, <1>7, OneMoves, TransitionsMade DEF Park
<1>8. CASE StopBeforeGate(w) \/ Perform(w) \/ ProviderThrew(w) \/ NoResumer(w)
  BY <1>2, <1>3, <1>8, EndedMoves
     DEF StopBeforeGate, Perform, ProviderThrew, NoResumer, ThrowOut, OutcomesUsed
<1>9. CASE Settle(w)
  <2>1. PICK o \in Outcomes(Kind(q)) : status' = Ended(q, o) BY <1>9 DEF Settle
  <2>2. o \in OutcomesUsed BY <2>1 DEF Outcomes, OutcomesUsed
  <2>. QED BY <1>2, <2>1, <2>2, EndedMoves
<1>10. CASE SettleDecision(w)
  <2>1. \/ UNCHANGED status
        \/ /\ status[q] = "waiting_approval"
           /\ \E s \in {"running", "cancelled", "timed_out"} : status' = [status EXCEPT ![q] = s]
    BY <1>10 DEF SettleDecision, RefuseParked, Resume
  <2>. QED BY <1>2, <1>3, <2>1, OneMoves, TransitionsMade
<1>11. CASE \/ EnterLease(w) \/ AskPolicy(w) \/ Reread(w) \/ HandOver(w)
            \/ LeaveOpen(w) \/ Leave(w) \/ Poll(w)
  BY <1>3, <1>11 DEF EnterLease, AskPolicy, Reread, HandOver, LeaveOpen, Leave, Poll
<1>. QED
  BY <1>4, <1>5, <1>6, <1>7, <1>8, <1>9, <1>10, <1>11 DEF Step

\* A status moves along the declared map, whoever writes it and whatever it had read
\* before; two writers go past it, the ones that fail a queued run and recordRun.
THEOREM MovesAlongTheMap == Spec => MovesAreMapped
<1>. DEFINE Mapped == \A r \in Runs : status[r] # "none" /\ status'[r] # status[r] =>
       \/ <<status[r], status'[r]>> \in RUN_TRANSITIONS \cup {<<"queued", "failed">>}
       \/ \E s \in Reports : RecordRun(r, s)
<1>1. ASSUME TypeOK, IInv, [Next]_vars PROVE [Mapped]_vars
  <2>. SUFFICES ASSUME Next, NEW r \in Runs
                PROVE  Moves(r) \/ \E s \in Reports : RecordRun(r, s)
    BY <1>1 DEF Moves
  <2>. USE DEF rowVars, workerVars, ghostVars
  <2>0. UNCHANGED status => Moves(r) BY DEF Moves
  <2>1. ASSUME NEW w \in Workers,
               Take(w) \/ Step(w) \/ Heartbeat(w) \/ Abandon(w)
                 \/ \E q \in Runs : TakeDelivery(w, q)
        PROVE  Moves(r)
    <3>1. CASE Step(w) BY <1>1, <3>1, StepMoves
    <3>2. CASE Take(w) \/ Heartbeat(w) \/ Abandon(w) \/ \E q \in Runs : TakeDelivery(w, q)
      BY <2>0, <3>2
         DEF Take, RefuseForNow, TakeStart, TakeResume, Heartbeat, Abandon, TakeDelivery
    <3>. QED BY <2>1, <3>1, <3>2
  <2>2. ASSUME NEW q \in Runs, StartTask(q) \/ OpenExternal(q) PROVE Moves(r)
    BY <1>1, <2>2 DEF StartTask, OpenExternal, Moves, TypeOK
  <2>3. ASSUME NEW q \in Runs, Reconcile(q) PROVE Moves(r)
    BY <1>1, <2>0, <2>3, OneMoves, TransitionsMade DEF Reconcile
  <2>4. ASSUME NEW q \in Runs, Requeue(q) PROVE Moves(r)
    BY <1>1, <2>0, <2>4, OneMoves DEF Requeue
  <2>5. ASSUME NEW q \in Runs,
               \/ ExpireApproval(q) \/ InterruptApproval(q) \/ ReapLook(q)
               \/ LeaseExpires(q) \/ RequestCancel(q)
               \/ \E d \in {"approved", "rejected"} : Decide(q, d)
        PROVE  Moves(r)
    BY <2>0, <2>5
       DEF ExpireApproval, InterruptApproval, ReapLook, LeaseExpires, RequestCancel, Decide
  <2>6. ASSUME NEW q \in Runs, NEW o \in OutcomesUsed, AgentFinishes(q, o) PROVE Moves(r)
    BY <1>1, <2>6, EndedMoves DEF AgentFinishes
  <2>7. ASSUME NEW q \in Runs, NEW s \in Reports, RecordRun(q, s)
        PROVE  Moves(r) \/ \E t \in Reports : RecordRun(r, t)
    BY <1>1, <2>7 DEF RecordRun, TypeOK, Moves
  <2>8. ASSUME Reap PROVE Moves(r)
    <3>1. reaping \in Runs BY <1>1, <2>8 DEF Reap, TypeOK
    <3>. QED BY <1>1, <2>8, <3>1, EndedMoves DEF Reap, OutcomesUsed
  <2>9. ASSUME NEW p \in Procs, Crash(p) PROVE Moves(r)
    BY <2>0, <2>9 DEF Crash
  <2>. QED
    BY <2>1, <2>2, <2>3, <2>4, <2>5, <2>6, <2>7, <2>8, <2>9 DEF Next, Sweep, OutcomesUsed
<1>. QED BY <1>1, Invariant, PTL DEF Spec, MovesAreMapped

----------------------------------------------------------------------------
(* The concurrency cap *)

\* Start jobs are sent of rows that are there.
Queueing == \A j \in Jobs : j.type = "start" /\ left'[j] > 0 =>
              left[j] > 0 \/ status'[j.run] # "none"

\* No claim comes closer.
Claiming == \A w \in Workers : pc'[w] = "claim" => pc[w] = "claim" /\ job'[w] = job[w]

\* No row disappears, and no task passes the quota that had not passed it.
Sparing ==
  /\ external \subseteq external'
  /\ \A r \in Runs :
       /\ status[r] # "none" => status'[r] # "none"
       /\ \/ r \notin TaskRuns \/ r \in external' \/ r \in Admitted
          \/ status'[r] = status[r] \/ status'[r] \notin ACTIVE_RUN_STATUSES
          \/ status[r] = "none" /\ status'[r] = "queued"

LEMMA AdmittedIsFinite == IsFiniteSet(Admitted)
BY FiniteAssumption, FS_Subset DEF Admitted, Runs

\* A step that admits nobody keeps the cap.
LEMMA CalmCap ==
  ASSUME TypeOK, CapInv, Queueing, Claiming, Sparing
  PROVE  CapInv'
<1>1. \A w \in Workers : pc[w] = "claim" => job[w].run \in Runs /\ status[job[w].run] # "none"
  BY BusyHasRun DEF Idle, CapInv, StartsAreBorn
<1>2. StartsAreBorn'
  <2>1. \A j \in Jobs : j.run \in Runs BY JobHasRun
  <2>. QED BY <1>1, <2>1 DEF StartsAreBorn, CapInv, Sparing, Queueing, Claiming
<1>3. Admitted' \subseteq Admitted
  <2>. SUFFICES ASSUME NEW r \in Admitted', r \notin Admitted PROVE FALSE OBVIOUS
  <2>1. r \in Runs /\ r \in TaskRuns \ external /\ r \notin external'
    BY DEF Admitted, Runs, Sparing
  <2>2. status'[r] \in ACTIVE_RUN_STATUSES
    BY DEF Admitted, ACTIVE_RUN_STATUSES
  <2>3. CASE status'[r] = status[r]
    <3>1. \A w \in Workers : pc[w] = "claim" /\ job[w].run = r => status[r] # "queued"
      BY <2>1 DEF Admitted
    <3>2. status[r] = "queued" BY <2>1, <2>2, <2>3 DEF Admitted
    <3>. QED BY <2>3, <3>1, <3>2 DEF Admitted, Claiming
  <2>4. CASE status[r] = "none" /\ status'[r] = "queued"
    <3>1. PICK w \in Workers : pc'[w] = "claim" /\ job'[w].run = r BY <2>4 DEF Admitted
    <3>. QED BY <1>1, <2>4, <3>1 DEF Claiming
  <2>. QED BY <2>1, <2>2, <2>3, <2>4 DEF Sparing
<1>4. MaxConcurrent > 0 => Cardinality(Admitted') <= MaxConcurrent
  <2>1. Cardinality(Admitted') <= Cardinality(Admitted) BY <1>3, AdmittedIsFinite, FS_Subset
  <2>2. Cardinality(Admitted) \in Nat /\ Cardinality(Admitted') \in Nat
    BY <1>3, AdmittedIsFinite, FS_Subset, FS_CardinalityType
  <2>. QED BY <2>1, <2>2, BoundsAssumption DEF CapInv
<1>. QED BY <1>2, <1>4 DEF CapInv

\* Taking a start job: the quota counts the run itself and its rivals, queued or not.
LEMMA TakeStartKeepsCap ==
  ASSUME TypeOK, CapInv, NEW w \in Workers, NEW j \in Jobs, TakeStart(w, j)
  PROVE  CapInv'
<1>. DEFINE Active == {r \in Runs : status[r] \in ACTIVE_RUN_STATUSES}
<1>. USE DEF rowVars, workerVars, ghostVars
<1>1. StartsAreBorn'
  BY DEF TakeStart, Given, Deliverable, StartsAreBorn, CapInv, TypeOK
<1>2. ASSUME MaxConcurrent > 0 PROVE Cardinality(Admitted') <= MaxConcurrent
  <2>1. Admitted' \subseteq Active
    BY DEF TakeStart, Admitted, Runs, ACTIVE_RUN_STATUSES
  <2>2. IsFiniteSet(Active) BY FiniteAssumption, FS_Subset
  <2>3. /\ Cardinality(Admitted') <= Cardinality(Active)
        /\ Cardinality(Admitted') \in Nat /\ Cardinality(Active) \in Nat
    BY <2>1, <2>2, FS_Subset, FS_CardinalityType
  <2>4. ~(Cardinality(Active) - 1 >= MaxConcurrent)
    BY <1>2 DEF TakeStart, AtConcurrencyCap
  <2>. QED BY <2>3, <2>4, BoundsAssumption
<1>. QED BY <1>1, <1>2 DEF CapInv

\* The initial state admitted nobody.
LEMMA InitCap == Init => CapInv
<1>. SUFFICES ASSUME Init PROVE CapInv OBVIOUS
<1>1. StartsAreBorn BY DEF Init, StartsAreBorn
<1>2. Admitted = {} BY DEF Init, Admitted, ACTIVE_RUN_STATUSES, Runs
<1>3. Cardinality(Admitted) = 0 BY <1>2, FS_EmptySet
<1>. QED BY <1>1, <1>3, BoundsAssumption DEF CapInv

\* A handler that returns, throws or goes on to another label than the claim.
LEMMA DoneCalm ==
  ASSUME TypeOK, NEW w \in Workers, ~Idle(w), Done(w) \/ Thrown(w)
  PROVE  Queueing /\ Claiming
BY BusyHasRun, BoundsAssumption
   DEF TypeOK, Done, Thrown, Release, Minus, Queueing, Claiming

LEMMA GotoCalm ==
  ASSUME TypeOK, NEW w \in Workers, NEW l \in PCs \ {"claim"}, Goto(w, l)
  PROVE  Claiming
BY DEF TypeOK, Goto, Claiming

LEMMA StillCalm ==
  /\ UNCHANGED <<pc, job>> => Claiming
  /\ UNCHANGED left => Queueing
  /\ UNCHANGED <<status, external>> => Sparing
BY DEF Claiming, Queueing, Sparing

\* A resume job is sent.
LEMMA SentCalm ==
  ASSUME TypeOK, NEW r \in Runs, NEW k \in {ByDecision, ByGuard, ByReconcile},
         left' = Sent(ResumeJob(r, k)) \/ Enqueue(ResumeJob(r, k))
  PROVE  Queueing
BY JobsAreJobs DEF TypeOK, Sent, Enqueue, ResumeJob, Queueing

\* A start job is sent of a row that is there.
LEMMA StartCalm ==
  ASSUME TypeOK, NEW r \in Runs, NEW n \in 0..AttemptCap, Enqueue(StartJob(r, n)),
         status'[r] # "none"
  PROVE  Queueing
BY JobsAreJobs DEF TypeOK, Sent, Enqueue, StartJob, Queueing

\* A run is ended, with the external id it may have been given.
LEMMA EndedCalm ==
  ASSUME TypeOK, NEW r \in Runs, NEW o \in OutcomesUsed, status' = Ended(r, o),
         external \subseteq external'
  PROVE  Sparing
BY DEF TypeOK, Ended, OutcomesUsed, Sparing, ACTIVE_RUN_STATUSES

\* One run's status is overwritten.
LEMMA OneCalm ==
  ASSUME TypeOK, NEW r \in Runs, NEW s \in Status, status' = [status EXCEPT ![r] = s],
         s \notin ACTIVE_RUN_STATUSES \/ r \notin TaskRuns \/ r \in external' \/ r \in Admitted,
         external \subseteq external'
  PROVE  Sparing
BY DEF TypeOK, Sparing, Status, ACTIVE_RUN_STATUSES, TERMINAL_RUN_STATUSES

\* A worker's step admits nobody.
LEMMA StepCap ==
  ASSUME TypeOK, IInv, CapInv, NEW w \in Workers, Step(w)
  PROVE  CapInv'
<1>. DEFINE r == job[w].run
<1>. USE DEF rowVars, workerVars, ghostVars
<1>0. ~Idle(w)
  BY DEF Step, BeginDelivery, RefuseToday, Claim, EnterLease, StopBeforeGate, AskPolicy, Park,
     Reread, Perform, HandOver, Settle, LeaveOpen, ProviderThrew, Leave, Poll,
     SettleDecision, NoResumer, Idle
<1>1. r \in Runs BY <1>0, BusyHasRun
<1>2. OutcomesUsed \cup {"running", "waiting_approval"} \subseteq Status
  BY DEF OutcomesUsed, Status, ACTIVE_RUN_STATUSES, TERMINAL_RUN_STATUSES
<1>3. CASE BeginDelivery(w)
  <2>1. r \notin TaskRuns
    BY <1>3, KindAssumption DEF BeginDelivery, IInv, JobFitsStep
  <2>. QED
    BY <1>1, <1>2, <1>3, <2>1, GotoCalm, StillCalm, OneCalm, CalmCap DEF BeginDelivery, PCs
<1>4. CASE RefuseToday(w)
  <2>1. Sparing
    <3>1. CASE status[r] = "queued"
      BY <1>1, <1>2, <1>4, <3>1, OneCalm
         DEF RefuseToday, OutcomesUsed, ACTIVE_RUN_STATUSES
    <3>2. CASE status[r] # "queued"
      BY <1>1, <1>4, <3>2, StillCalm DEF RefuseToday, TypeOK
    <3>. QED BY <3>1, <3>2
  <2>. QED BY <1>0, <1>4, <2>1, DoneCalm, CalmCap DEF RefuseToday
<1>5. CASE Claim(w)
  <2>1. CASE status[r] = "queued"
    <3>1. r \in Admitted \/ r \notin TaskRuns \/ r \in external
      BY <1>5, <2>1 DEF Claim, Admitted
    <3>2. /\ status' = [status EXCEPT ![r] = "running"] /\ Goto(w, "lease")
          /\ UNCHANGED <<external, left>>
      BY <1>5, <2>1 DEF Claim
    <3>. QED
      BY <1>1, <1>2, <3>1, <3>2, GotoCalm, StillCalm, OneCalm, CalmCap DEF PCs
  <2>2. CASE status[r] # "queued"
    BY <1>0, <1>5, <2>2, DoneCalm, StillCalm, CalmCap DEF Claim
  <2>. QED BY <2>1, <2>2
<1>6. CASE Park(w)
  <2>1. Claiming /\ Queueing BY <1>6, GotoCalm, StillCalm DEF Park, PCs
  <2>2. CASE status[r] = "running"
    <3>1. r \in Admitted \/ r \notin TaskRuns \/ r \in external
      BY <2>2 DEF Admitted, ACTIVE_RUN_STATUSES
    <3>. QED BY <1>1, <1>2, <1>6, <2>1, <2>2, <3>1, OneCalm, CalmCap DEF Park
  <2>3. CASE status[r] # "running"
    BY <1>6, <2>1, <2>3, StillCalm, CalmCap DEF Park
  <2>. QED BY <2>2, <2>3
<1>7. CASE StopBeforeGate(w)
  BY <1>1, <1>7, EndedCalm, GotoCalm, StillCalm, CalmCap DEF StopBeforeGate, OutcomesUsed, PCs
<1>8. CASE Perform(w)
  <2>1. Claiming /\ Queueing
    BY <1>0, <1>8, DoneCalm, GotoCalm, StillCalm DEF Perform, ThrowOut, PCs
  <2>2. Sparing
    BY <1>1, <1>8, EndedCalm, StillCalm DEF Perform, ThrowOut, OutcomesUsed
  <2>. QED BY <2>1, <2>2, CalmCap
<1>9. CASE ProviderThrew(w)
  <2>1. Claiming /\ Queueing BY <1>0, <1>9, DoneCalm DEF ProviderThrew, ThrowOut
  <2>2. Sparing BY <1>1, <1>9, EndedCalm, StillCalm DEF ProviderThrew, ThrowOut, OutcomesUsed
  <2>. QED BY <2>1, <2>2, CalmCap
<1>10. CASE NoResumer(w)
  BY <1>0, <1>1, <1>10, EndedCalm, DoneCalm, CalmCap DEF NoResumer, OutcomesUsed
<1>11. CASE Settle(w)
  <2>1. PICK o \in Outcomes(Kind(r)) :
          /\ status' = Ended(r, o)
          /\ external' \in IF o = "success" /\ Kind(r) = "task" /\ status[r] = "running"
                           THEN {external, external \cup {r}} ELSE {external}
    BY <1>11 DEF Settle
  <2>2. o \in OutcomesUsed BY <2>1 DEF Outcomes, OutcomesUsed
  <2>3. external \subseteq external' BY <2>1
  <2>4. Sparing BY <1>1, <2>1, <2>2, <2>3, EndedCalm
  <2>5. Claiming /\ Queueing BY <1>11, GotoCalm, StillCalm DEF Settle, PCs
  <2>. QED BY <2>4, <2>5, CalmCap
<1>12. CASE SettleDecision(w)
  <2>1. CASE status[r] # "waiting_approval"
    BY <1>0, <1>12, <2>1, DoneCalm, StillCalm, CalmCap DEF SettleDecision
  <2>2. CASE status[r] = "waiting_approval"
    <3>1. r \in Admitted \/ r \notin TaskRuns \/ r \in external
      BY <2>2 DEF Admitted, ACTIVE_RUN_STATUSES
    <3>2. PICK s \in {"running", "cancelled", "timed_out"} : status' = [status EXCEPT ![r] = s]
      BY <1>12, <2>2 DEF SettleDecision, RefuseParked, Resume
    <3>3. Sparing
      BY <1>1, <1>2, <1>12, <3>1, <3>2, OneCalm DEF SettleDecision, OutcomesUsed
    <3>4. Claiming /\ Queueing
      BY <1>0, <1>12, <2>2, DoneCalm, GotoCalm, StillCalm
         DEF SettleDecision, RefuseParked, Resume, PCs
    <3>. QED BY <3>3, <3>4, CalmCap
  <2>. QED BY <2>1, <2>2
<1>13. CASE Reread(w)
  <2>1. Queueing BY <1>1, <1>13, SentCalm, StillCalm DEF Reread
  <2>2. Claiming /\ Sparing BY <1>13, GotoCalm, StillCalm DEF Reread, PCs
  <2>. QED BY <2>1, <2>2, CalmCap
<1>14. CASE EnterLease(w) \/ AskPolicy(w) \/ HandOver(w) \/ LeaveOpen(w)
  BY <1>14, GotoCalm, StillCalm, CalmCap DEF EnterLease, AskPolicy, HandOver, LeaveOpen, PCs
<1>15. CASE Leave(w)
  BY <1>0, <1>15, DoneCalm, StillCalm, CalmCap DEF Leave
<1>16. CASE Poll(w)
  BY <1>0, <1>16, DoneCalm, GotoCalm, StillCalm, CalmCap DEF Poll, PCs
<1>. QED
  BY <1>3, <1>4, <1>5, <1>6, <1>7, <1>8, <1>9, <1>10, <1>11, <1>12, <1>13, <1>14, <1>15,
     <1>16 DEF Step

\* The queue hands out a job: only a start job goes on to a claim.
LEMMA TakeCap ==
  ASSUME TypeOK, CapInv, NEW w \in Workers,
         Take(w) \/ (\E r \in Runs : TakeDelivery(w, r))
  PROVE  CapInv'
<1>. USE DEF rowVars, workerVars, ghostVars
<1>1. ASSUME NEW j, NEW l \in {"poll", "decide", "begin"}, Given(w, j, l) PROVE Claiming
  BY <1>1 DEF Given, Claiming, TypeOK
<1>2. ASSUME NEW j \in Jobs, RefuseForNow(w, j) PROVE CapInv'
  <2>1. Queueing BY <1>2, BoundsAssumption DEF RefuseForNow, Deliverable, Queueing, TypeOK
  <2>. QED BY <1>2, <2>1, StillCalm, CalmCap DEF RefuseForNow
<1>3. ASSUME NEW j \in Jobs, TakeResume(w, j) PROVE CapInv'
  <2>1. Queueing BY <1>3 DEF TakeResume, Queueing, TypeOK
  <2>2. Claiming BY <1>1, <1>3, StillCalm DEF TakeResume
  <2>. QED BY <1>3, <2>1, <2>2, StillCalm, CalmCap DEF TakeResume
<1>4. ASSUME NEW r \in Runs, TakeDelivery(w, r) PROVE CapInv'
  BY <1>1, <1>4, StillCalm, CalmCap DEF TakeDelivery
<1>. QED BY <1>2, <1>3, <1>4, TakeStartKeepsCap DEF Take

\* People, agents, sweeps, timers and deaths admit nobody.
LEMMA OutsideCap ==
  ASSUME TypeOK, IInv, CapInv,
         \/ \E r \in Runs :
              \/ StartTask(r) \/ OpenExternal(r) \/ Sweep(r)
              \/ LeaseExpires(r) \/ RequestCancel(r)
              \/ \E d \in {"approved", "rejected"} : Decide(r, d)
              \/ \E o \in OutcomesUsed : AgentFinishes(r, o)
              \/ \E s \in Reports : RecordRun(r, s)
         \/ Reap
         \/ \E w \in Workers : Heartbeat(w) \/ Abandon(w)
         \/ \E p \in Procs : Crash(p)
  PROVE  CapInv'
<1>. USE DEF rowVars, workerVars, ghostVars
<1>0. OutcomesUsed \cup Reports \subseteq Status /\ {"failed", "running"} \subseteq Status
  BY ReportAssumption DEF OutcomesUsed, Status, ACTIVE_RUN_STATUSES, TERMINAL_RUN_STATUSES
<1>1. ASSUME NEW r \in Runs, StartTask(r) PROVE CapInv'
  <2>1. status'[r] = "queued" BY <1>1 DEF StartTask, TypeOK
  <2>2. Queueing BY <1>1, <2>1, StartCalm, BoundsAssumption DEF StartTask
  <2>3. Sparing BY <1>1 DEF StartTask, Sparing, TypeOK
  <2>. QED BY <1>1, <2>2, <2>3, StillCalm, CalmCap DEF StartTask
<1>2. ASSUME NEW r \in Runs, OpenExternal(r) PROVE CapInv'
  <2>1. r \notin TaskRuns BY <1>2, KindAssumption DEF OpenExternal
  <2>2. Sparing BY <1>0, <1>2, <2>1, OneCalm DEF OpenExternal
  <2>. QED BY <1>2, <2>2, StillCalm, CalmCap DEF OpenExternal
<1>3. ASSUME NEW r \in Runs,
             ExpireApproval(r) \/ \E d \in {"approved", "rejected"} : Decide(r, d)
      PROVE  CapInv'
  <2>1. Queueing BY <1>3, SentCalm DEF ExpireApproval, Decide
  <2>. QED BY <1>3, <2>1, StillCalm, CalmCap DEF ExpireApproval, Decide
<1>4. ASSUME NEW r \in Runs, Reconcile(r) PROVE CapInv'
  <2>1. Queueing BY <1>4, SentCalm, StillCalm DEF Reconcile
  <2>2. Sparing BY <1>0, <1>4, OneCalm, StillCalm DEF Reconcile, ACTIVE_RUN_STATUSES
  <2>. QED BY <1>4, <2>1, <2>2, StillCalm, CalmCap DEF Reconcile
<1>5. ASSUME NEW r \in Runs, Requeue(r) PROVE CapInv'
  <2>1. CASE UNCHANGED status
    <3>1. Queueing
      <4>1. CASE UNCHANGED left BY <4>1, StillCalm
      <4>2. CASE attempt[r] < AttemptCap /\ Enqueue(StartJob(r, attempt[r] + 1))
        <5>1. attempt[r] + 1 \in 0..AttemptCap BY <4>2, BoundsAssumption DEF TypeOK
        <5>2. status'[r] # "none" BY <1>5, <2>1 DEF Requeue
        <5>. QED BY <4>2, <5>1, <5>2, StartCalm
      <4>. QED BY <1>5, <4>1, <4>2 DEF Requeue
    <3>. QED BY <1>5, <2>1, <3>1, StillCalm, CalmCap DEF Requeue
  <2>2. CASE status' = [status EXCEPT ![r] = "failed"] /\ UNCHANGED left
    <3>1. Sparing BY <1>0, <1>5, <2>2, OneCalm DEF Requeue, ACTIVE_RUN_STATUSES
    <3>. QED BY <1>5, <2>2, <3>1, StillCalm, CalmCap DEF Requeue
  <2>. QED BY <1>5, <2>1, <2>2 DEF Requeue
<1>6. ASSUME NEW r \in Runs,
             InterruptApproval(r) \/ ReapLook(r) \/ LeaseExpires(r) \/ RequestCancel(r)
      PROVE  CapInv'
  BY <1>6, StillCalm, CalmCap DEF InterruptApproval, ReapLook, LeaseExpires, RequestCancel
<1>7. ASSUME NEW r \in Runs, NEW o \in OutcomesUsed, AgentFinishes(r, o) PROVE CapInv'
  BY <1>7, EndedCalm, StillCalm, CalmCap DEF AgentFinishes
<1>8. ASSUME NEW r \in Runs, NEW s \in Reports, RecordRun(r, s) PROVE CapInv'
  <2>1. Sparing BY <1>0, <1>8, OneCalm DEF RecordRun
  <2>. QED BY <1>8, <2>1, StillCalm, CalmCap DEF RecordRun
<1>9. ASSUME Reap PROVE CapInv'
  <2>1. reaping \in Runs BY <1>9 DEF Reap, TypeOK
  <2>. QED BY <1>9, <2>1, EndedCalm, StillCalm, CalmCap DEF Reap, OutcomesUsed
<1>10. ASSUME NEW w \in Workers, Heartbeat(w) \/ Abandon(w) PROVE CapInv'
  <2>1. CASE Heartbeat(w) BY <2>1, StillCalm, CalmCap DEF Heartbeat
  <2>2. CASE Abandon(w)
    <3>1. job[w] \in Jobs BY <2>2, BusyHasRun DEF Abandon
    <3>2. Queueing BY <2>2, <3>1, BoundsAssumption DEF Abandon, Queueing, TypeOK
    <3>. QED BY <2>2, <3>2, StillCalm, CalmCap DEF Abandon
  <2>. QED BY <1>10, <2>1, <2>2
<1>11. ASSUME NEW p \in Procs, Crash(p) PROVE CapInv'
  <2>1. Queueing BY <1>11, BoundsAssumption DEF Crash, Queueing, Minus, TypeOK
  <2>2. Claiming BY <1>11 DEF Crash, Claiming
  <2>. QED BY <1>11, <2>1, <2>2, StillCalm, CalmCap DEF Crash
<1>. QED
  BY <1>1, <1>2, <1>3, <1>4, <1>5, <1>6, <1>7, <1>8, <1>9, <1>10, <1>11 DEF Sweep

LEMMA NextCap ==
  ASSUME TypeOK, IInv, CapInv, [Next]_vars
  PROVE  CapInv'
<1>1. CASE UNCHANGED vars BY <1>1, StillCalm, CalmCap DEF vars
<1>2. CASE Next BY <1>2, StepCap, TakeCap, OutsideCap DEF Next, OutcomesUsed
<1>. QED BY <1>1, <1>2

\* However starts, retries, resumes and deliveries interleave between reading the quota
\* and claiming the run, the tasks under way stay within the concurrency cap.
THEOREM StaysUnderCap == Spec => []TasksStayUnderCap
<1>1. Init => TypeOK /\ IInv /\ CapInv BY InitTyped, InitInv, InitCap
<1>2. TypeOK /\ IInv /\ CapInv /\ [Next]_vars => (TypeOK /\ IInv /\ CapInv)'
  BY NextTyped, NextInv, NextCap
<1>3. ASSUME CapInv PROVE TasksStayUnderCap
  <2>. SUFFICES ASSUME MaxConcurrent > 0
                PROVE  Cardinality({r \in TaskRuns \ external :
                         status[r] \in ACTIVE_RUN_STATUSES \ {"queued"}}) <= MaxConcurrent
    BY DEF TasksStayUnderCap
  <2>. DEFINE Under == {r \in TaskRuns \ external : status[r] \in ACTIVE_RUN_STATUSES \ {"queued"}}
  <2>1. Under \subseteq Admitted BY DEF Admitted
  <2>2. /\ Cardinality(Under) <= Cardinality(Admitted)
        /\ Cardinality(Under) \in Nat /\ Cardinality(Admitted) \in Nat
    BY <2>1, AdmittedIsFinite, FS_Subset, FS_CardinalityType
  <2>3. Cardinality(Admitted) <= MaxConcurrent BY <1>3 DEF CapInv
  <2>. QED BY <2>2, <2>3, BoundsAssumption
<1>. QED BY <1>1, <1>2, <1>3, PTL DEF Spec

----------------------------------------------------------------------------
(* The lease of a run that was left open *)

DriveLabels == {"lease", "gate", "park", "perform", "call", "settle"}

\* Labels a handler is at with a lease, about to have one, or unable to go on with a run.
Leasing == Inside \cup {"lease", "unable"}

\* Workers go on inside their leases, or outside them.
Working == \A w \in Workers :
  \/ pc'[w] = pc[w] /\ job'[w] = job[w]
  \/ pc[w] \notin Leasing /\ pc'[w] \notin Leasing
  \/ /\ job'[w] = job[w] /\ pc[w] \in Inside /\ pc'[w] \in Inside
     /\ pc'[w] \in DriveLabels => pc[w] \in DriveLabels

\* A run is fresh again by being parked only, and runs again by a resume only.
Running == \A r \in Runs :
  /\ status'[r] \in FreshStatus => \/ status[r] \in FreshStatus
                                   \/ \E w \in Workers : /\ Drives(w, r) /\ job'[w] = job[w]
                                                         /\ pc'[w] = "reread"
  /\ status'[r] \in {"none", "queued"} => status[r] \in {"none", "queued"}
  /\ status'[r] = "running" => status[r] \in {"none", "running"} \/ r \in external'

\* Leases are kept, left to run out, or renewed by who is inside.
Leases == \A r \in Runs :
  \/ lease'[r] = lease[r]
  \/ lease[r] # NoLease /\ lease'[r] # NoLease /\ lease'[r].by = lease[r].by
  \/ \E w \in Workers : /\ status[r] = "running" /\ Heartbeats(w, r)
                        /\ pc'[w] = pc[w] /\ job'[w] = job[w]
                        /\ lease'[r] # NoLease /\ lease'[r].by = ProcOf[w]

\* Only its driver leaves a run open.
Opening == \A r \in open' :
  \/ r \in open
  \/ \E w \in Workers : /\ Drives(w, r) /\ job'[w] = job[w] /\ pc'[w] = "leave"

\* What never goes back: reports, crashes, questions.
Passing ==
  /\ external \subseteq external'
  /\ crashes' = 0 => crashes = 0
  /\ \A r \in Runs : approval'[r] = "none" => approval[r] = "none"

\* A step inside the leases keeps the invariant.
LEMMA InsideLease ==
  ASSUME TypeOK, TypeOK', IInv, LeaseInv, Working, Running, Leases, Opening, Passing
  PROVE  LeaseInv'
<1>. USE DEF LeaseInv, Works, Idle, Inside, Leasing, DriveLabels
<1>1. \A r \in Runs, w \in Workers : Drives(w, r)' => Drives(w, r)
  BY DEF Working, Drives
<1>2. \A r \in Runs, v, w \in Workers : Drives(v, r) /\ Drives(w, r) => v = w
  BY DEF IInv, OneDriver
<1>3. \A r \in Runs, w \in Workers : Heartbeats(w, r) => Heartbeats(w, r)'
  BY DEF Working, Heartbeats, UsesLease, Kind
<1>4. \A r \in Runs, w \in Workers :
        pc[w] \in {"lease", "unable"} /\ Works(w, r) => pc'[w] = pc[w] /\ job'[w] = job[w]
  BY DEF Working
<1>5. \A w \in Workers :
        pc'[w] \in {"lease", "unable"} => pc'[w] = pc[w] /\ job'[w] = job[w]
  BY DEF Working
<1>6. LeaseIsKept'
  <2>. SUFFICES ASSUME crashes' = 0, NEW r \in Runs, r \notin external', status'[r] = "running",
                       LeasedThroughout(r)', lease'[r] # NoLease
                PROVE  \E w \in Workers :
                         \/ Heartbeats(w, r)' /\ ProcOf[w] = lease'[r].by
                         \/ Works(w, r)' /\ pc'[w] \in {"lease", "unable"}
                              /\ job'[w].type = "resume"
    BY DEF LeaseIsKept
  <2>1. crashes = 0 /\ r \notin external /\ LeasedThroughout(r)
    BY DEF Passing, LeasedThroughout, Kind
  <2>2. status[r] \in {"none", "running"} BY DEF Running
  <2>3. CASE \E w \in Workers : /\ status[r] = "running" /\ Heartbeats(w, r)
                                /\ pc'[w] = pc[w] /\ job'[w] = job[w]
                                /\ lease'[r] # NoLease /\ lease'[r].by = ProcOf[w]
    BY <1>3, <2>3
  <2>4. CASE lease[r] # NoLease /\ (lease'[r] = lease[r] \/ lease'[r].by = lease[r].by)
    <3>1. status[r] = "running" BY <2>2, <2>4 DEF LeaseFollowsClaim
    <3>2. PICK w \in Workers :
            \/ Heartbeats(w, r) /\ ProcOf[w] = lease[r].by
            \/ Works(w, r) /\ pc[w] \in {"lease", "unable"} /\ job[w].type = "resume"
      BY <2>1, <2>4, <3>1 DEF LeaseIsKept
    <3>. QED BY <1>3, <1>4, <2>4, <3>2
  <2>. QED BY <2>3, <2>4 DEF Leases
<1>7. OpenIsLetGo'
  <2>. SUFFICES ASSUME NEW r \in Runs,
                       r \in open' \/ \E w \in Workers : Works(w, r)' /\ pc'[w] = "unable"
                PROVE  status'[r] \notin FreshStatus /\ \A w \in Workers : ~Drives(w, r)'
    BY DEF OpenIsLetGo
  <2>1. CASE r \in open \/ \E w \in Workers : Works(w, r) /\ pc[w] = "unable"
    <3>1. status[r] \notin FreshStatus /\ \A w \in Workers : ~Drives(w, r)
      BY <2>1 DEF OpenIsLetGo
    <3>. QED BY <1>1, <3>1 DEF Running
  <2>2. CASE \E w \in Workers : Drives(w, r) /\ job'[w] = job[w] /\ pc'[w] = "leave"
    <3>1. PICK w \in Workers : Drives(w, r) /\ job'[w] = job[w] /\ pc'[w] = "leave" BY <2>2
    <3>2. status[r] \notin FreshStatus BY <3>1 DEF IInv, FreshIsFree
    <3>3. \A v \in Workers : Drives(v, r) => v = w BY <1>2, <3>1
    <3>4. ~Drives(w, r)' BY <3>1 DEF Drives
    <3>. QED BY <1>1, <3>1, <3>2, <3>3, <3>4 DEF Running
  <2>3. (\E w \in Workers : Works(w, r)' /\ pc'[w] = "unable") =>
           \E w \in Workers : Works(w, r) /\ pc[w] = "unable"
    BY <1>5
  <2>. QED BY <2>1, <2>2, <2>3 DEF Opening
<1>8. UnableIsNotOpen'
  <2>. SUFFICES ASSUME NEW w \in Workers, pc'[w] = "unable", job'[w].run \in open'
                PROVE  FALSE
    BY DEF UnableIsNotOpen
  <2>1. pc[w] = "unable" /\ job'[w] = job[w] BY <1>5
  <2>2. job[w].run \in Runs BY <2>1, BusyHasRun
  <2>3. \A v \in Workers : ~Drives(v, job[w].run) BY <2>1, <2>2 DEF OpenIsLetGo
  <2>4. job[w].run \notin open BY <2>1 DEF UnableIsNotOpen
  <2>. QED BY <2>1, <2>3, <2>4 DEF Opening
<1>9. LeaseFollowsClaim'
  <2>1. \A r \in Runs : status'[r] \in {"none", "queued"} => lease'[r] = NoLease
    BY DEF LeaseFollowsClaim, Running, Leases
  <2>2. \A w \in Workers : pc'[w] = "lease" => pc[w] = "lease" /\ job'[w] = job[w]
    BY DEF Working
  <2>. QED BY <2>1, <2>2 DEF LeaseFollowsClaim, UsesLease, Kind
<1>. QED BY <1>6, <1>7, <1>8, <1>9

LEMMA StillInside ==
  /\ UNCHANGED <<pc, job>> => Working
  /\ UNCHANGED status => Running
  /\ UNCHANGED lease => Leases
  /\ UNCHANGED open => Opening
  /\ UNCHANGED <<external, crashes, approval>> => Passing
BY DEF Working, Running, Leases, Opening, Passing

LEMMA GotoInside ==
  ASSUME TypeOK, NEW w \in Workers, pc[w] \in Inside, NEW l \in Inside, Goto(w, l),
         l \in DriveLabels => pc[w] \in DriveLabels
  PROVE  Working
BY DEF TypeOK, Goto, Working

LEMMA OutsideLeases ==
  ASSUME TypeOK, NEW w \in Workers, pc[w] \notin Leasing,
         \/ Done(w) \/ Thrown(w)
         \/ \E l \in PCs \ Leasing : Goto(w, l) \/ \E j \in Jobs : Given(w, j, l)
  PROVE  Working
BY DEF TypeOK, Done, Thrown, Release, Goto, Given, Working, Leasing, Inside

LEMMA EndedRunning ==
  ASSUME TypeOK, NEW r \in Runs, NEW o \in OutcomesUsed, status' = Ended(r, o)
  PROVE  Running
BY DEF TypeOK, Ended, OutcomesUsed, Running

\* A handler leaves its lease, or its segment without one, and is free.
LEMMA LeavingLease ==
  ASSUME TypeOK, TypeOK', IInv, LeaseInv, NEW w \in Workers, pc[w] \in Inside, LetGo(w),
         Release(w), Running, Passing, UNCHANGED open,
         \A r \in Runs : status'[r] = "running" => status[r] = "running"
  PROVE  LeaseInv'
<1>. USE DEF LeaseInv, Works, Idle, Inside
<1>0. job[w].run \in Runs BY BusyHasRun
<1>1. \A v \in Workers : v # w => pc'[v] = pc[v] /\ job'[v] = job[v]
  BY DEF Release, TypeOK
<1>2. pc'[w] = "idle" /\ pc[w] \notin {"lease", "unable"} BY DEF Release, TypeOK
<1>3. LeaseIsKept'
  <2>. SUFFICES ASSUME crashes' = 0, NEW r \in Runs, r \notin external', status'[r] = "running",
                       LeasedThroughout(r)', lease'[r] # NoLease
                PROVE  \E v \in Workers :
                         \/ Heartbeats(v, r)' /\ ProcOf[v] = lease'[r].by
                         \/ Works(v, r)' /\ pc'[v] \in {"lease", "unable"}
                              /\ job'[v].type = "resume"
    BY DEF LeaseIsKept
  <2>1. crashes = 0 /\ r \notin external /\ LeasedThroughout(r) /\ status[r] = "running"
    BY DEF Passing, LeasedThroughout, Kind
  <2>2. lease'[r] = lease[r] BY <1>0 DEF LetGo, TypeOK
  <2>3. PICK v \in Workers :
          \/ Heartbeats(v, r) /\ ProcOf[v] = lease[r].by
          \/ Works(v, r) /\ pc[v] \in {"lease", "unable"} /\ job[v].type = "resume"
    BY <2>1, <2>2 DEF LeaseIsKept
  <2>4. CASE v = w
    <3>1. job[w].run = r /\ UsesLease(job[w]) /\ lease[r].by = ProcOf[w]
      BY <1>2, <2>3, <2>4 DEF Heartbeats
    <3>2. lease'[r] = NoLease BY <2>1, <2>2, <3>1 DEF LetGo, TypeOK
    <3>. QED BY <3>2
  <2>5. CASE v # w
    BY <1>1, <2>2, <2>3, <2>5 DEF Heartbeats, UsesLease, Kind
  <2>. QED BY <2>4, <2>5
<1>4. \A r \in Runs, v \in Workers : Drives(v, r)' => Drives(v, r)
  BY <1>1, <1>2 DEF Drives
<1>5. \A r \in Runs : status'[r] \in FreshStatus => status[r] \in FreshStatus
  BY <1>1, <1>2 DEF Running, Drives
<1>6. OpenIsLetGo'
  BY <1>1, <1>2, <1>4, <1>5 DEF OpenIsLetGo
<1>7. UnableIsNotOpen' BY <1>1, <1>2 DEF UnableIsNotOpen
<1>8. LeaseFollowsClaim'
  <2>1. \A r \in Runs : lease[r] = NoLease => lease'[r] = NoLease BY DEF LetGo, TypeOK
  <2>. QED BY <1>1, <1>2, <2>1 DEF LeaseFollowsClaim, Running, UsesLease, Kind
<1>. QED BY <1>3, <1>6, <1>7, <1>8

\* A run is claimed: born, first executed, or resumed.
LEMMA ClaimedLease ==
  ASSUME TypeOK, TypeOK', IInv, LeaseInv, NEW w \in Workers, pc[w] \notin Leasing, ~Idle(w),
         NEW l \in {"lease", "perform", "unable"}, Goto(w, l),
         status[job[w].run] \in FreshStatus, status' = [status EXCEPT ![job[w].run] = "running"],
         UNCHANGED <<lease, open, external, approval, crashes>>,
         status[job[w].run] = "waiting_approval" => job[w].type = "resume",
         l = "lease" => UsesLease(job[w]),
         l = "perform" => ~UsesLease(job[w]) /\ approval[job[w].run] = "approved"
  PROVE  LeaseInv'
<1>. DEFINE q == job[w].run
<1>. USE DEF LeaseInv, Works, Idle, Inside, Leasing
<1>0. q \in Runs BY BusyHasRun
<1>1. \A v \in Workers : v # w => pc'[v] = pc[v] /\ job'[v] = job[v]
  BY DEF Goto, TypeOK
<1>2. pc'[w] = l /\ job'[w] = job[w] BY DEF Goto, TypeOK
<1>3. \A v \in Workers : ~Drives(v, q) BY <1>0 DEF IInv, FreshIsFree
<1>4. q \notin open /\ \A v \in Workers : pc[v] = "unable" => job[v].run # q
  BY <1>0 DEF OpenIsLetGo
<1>5. LeaseIsKept'
  <2>. SUFFICES ASSUME crashes' = 0, NEW r \in Runs, r \notin external', status'[r] = "running",
                       LeasedThroughout(r)', lease'[r] # NoLease
                PROVE  \E v \in Workers :
                         \/ Heartbeats(v, r)' /\ ProcOf[v] = lease'[r].by
                         \/ Works(v, r)' /\ pc'[v] \in {"lease", "unable"}
                              /\ job'[v].type = "resume"
    BY DEF LeaseIsKept
  <2>1. CASE r = q
    <3>1. status[q] = "waiting_approval" BY <2>1 DEF LeaseFollowsClaim
    <3>2. job[w].type = "resume" BY <3>1
    <3>3. l # "perform" BY <2>1, <3>2 DEF LeasedThroughout, UsesLease, Kind
    <3>. QED BY <1>2, <2>1, <3>2, <3>3
  <2>2. CASE r # q
    <3>1. status[r] = "running" /\ LeasedThroughout(r)
      BY <1>0, <2>2 DEF TypeOK, LeasedThroughout, Kind
    <3>2. PICK v \in Workers :
            \/ Heartbeats(v, r) /\ ProcOf[v] = lease[r].by
            \/ Works(v, r) /\ pc[v] \in {"lease", "unable"} /\ job[v].type = "resume"
      BY <3>1 DEF LeaseIsKept
    <3>3. v # w BY <3>2 DEF Heartbeats
    <3>. QED BY <1>1, <3>2, <3>3 DEF Heartbeats, UsesLease, Kind
  <2>. QED BY <2>1, <2>2
<1>6. OpenIsLetGo'
  <2>. SUFFICES ASSUME NEW r \in Runs,
                       r \in open \/ \E v \in Workers : Works(v, r)' /\ pc'[v] = "unable"
                PROVE  status'[r] \notin FreshStatus /\ \A v \in Workers : ~Drives(v, r)'
    BY DEF OpenIsLetGo
  <2>1. CASE r # q
    <3>1. r \in open \/ \E v \in Workers : Works(v, r) /\ pc[v] = "unable"
      BY <1>1, <1>2, <2>1
    <3>2. status[r] \notin FreshStatus /\ \A v \in Workers : ~Drives(v, r)
      BY <3>1 DEF OpenIsLetGo
    <3>. QED BY <1>0, <1>1, <1>2, <2>1, <3>2 DEF Drives, TypeOK
  <2>2. CASE r = q
    <3>1. l = "unable" BY <1>1, <1>2, <1>4, <2>2
    <3>2. \A v \in Workers : ~Drives(v, r)' BY <1>1, <1>2, <1>3, <2>2, <3>1 DEF Drives
    <3>. QED BY <1>0, <2>2, <3>2 DEF TypeOK
  <2>. QED BY <2>1, <2>2
<1>7. UnableIsNotOpen' BY <1>1, <1>2, <1>4 DEF UnableIsNotOpen
<1>8. LeaseFollowsClaim'
  <2>1. \A r \in Runs : status'[r] \in {"none", "queued"} => status[r] = status'[r]
    BY <1>0 DEF TypeOK
  <2>. QED BY <1>1, <1>2, <2>1 DEF LeaseFollowsClaim, UsesLease, Kind
<1>. QED BY <1>5, <1>6, <1>7, <1>8

\* The initial state leased nothing and left nothing open.
LEMMA InitLease == Init => LeaseInv
BY DEF Init, LeaseInv, LeaseIsKept, OpenIsLetGo, UnableIsNotOpen, LeaseFollowsClaim, Works, Idle

\* A worker's step keeps it.
LEMMA StepLease ==
  ASSUME TypeOK, TypeOK', IInv, LeaseInv, NEW w \in Workers, Step(w)
  PROVE  LeaseInv'
<1>. DEFINE r == job[w].run
<1>. USE DEF rowVars, workerVars, ghostVars
<1>0. ~Idle(w)
  BY DEF Step, BeginDelivery, RefuseToday, Claim, EnterLease, StopBeforeGate, AskPolicy, Park,
     Reread, Perform, HandOver, Settle, LeaveOpen, ProviderThrew, Leave, Poll,
     SettleDecision, NoResumer, Idle
<1>1. r \in Runs /\ job[w] \in Jobs BY <1>0, BusyHasRun
<1>2. CASE BeginDelivery(w)
  <2>1. pc[w] = "begin" /\ job[w].type = "deliver" /\ status[r] = "none"
    BY <1>2 DEF BeginDelivery, IInv, JobFitsStep
  <2>. QED BY <1>0, <1>2, <2>1, ClaimedLease DEF BeginDelivery, Leasing, Inside, UsesLease
<1>3. CASE RefuseToday(w)
  <2>1. Running BY <1>1, <1>3 DEF RefuseToday, Running, TypeOK
  <2>2. Working BY <1>3, OutsideLeases DEF RefuseToday, Leasing, Inside
  <2>. QED BY <1>3, <2>1, <2>2, StillInside, InsideLease DEF RefuseToday
<1>4. CASE Claim(w)
  <2>1. CASE status[r] = "queued"
    <3>1. job[w].type = "start" BY <1>4 DEF Claim, IInv, JobFitsStep
    <3>2. /\ pc[w] = "claim" /\ status' = [status EXCEPT ![r] = "running"] /\ Goto(w, "lease")
          /\ UNCHANGED <<lease, open, external, approval, crashes>>
      BY <1>4, <2>1 DEF Claim
    <3>. QED BY <1>0, <2>1, <3>1, <3>2, ClaimedLease DEF Leasing, Inside, UsesLease
  <2>2. CASE status[r] # "queued"
    <3>1. Working BY <1>4, <2>2, OutsideLeases DEF Claim, Leasing, Inside
    <3>. QED BY <1>4, <2>2, <3>1, StillInside, InsideLease DEF Claim
  <2>. QED BY <2>1, <2>2
<1>5. CASE EnterLease(w)
  <2>. DEFINE l == IF job[w].type = "resume" THEN "perform" ELSE "gate"
  <2>0. /\ pc[w] = "lease" /\ pc' = [pc EXCEPT ![w] = l] /\ job' = job
        /\ lease' = Renewed(w) /\ UNCHANGED <<status, external, approval, crashes, open>>
    BY <1>5 DEF EnterLease, Goto
  <2>1. \A v \in Workers : v # w => pc'[v] = pc[v] BY <2>0 DEF TypeOK
  <2>2. pc'[w] = l BY <2>0 DEF TypeOK
  <2>3. UsesLease(job[w]) BY <2>0 DEF LeaseInv, LeaseFollowsClaim
  <2>4. \A q \in Runs, v \in Workers : Drives(v, q)' <=> Drives(v, q)
    BY <2>0, <2>1, <2>2 DEF Drives, Works, Idle
  <2>5. LeaseIsKept'
    <3>. SUFFICES ASSUME crashes' = 0, NEW q \in Runs, q \notin external', status'[q] = "running",
                         LeasedThroughout(q)', lease'[q] # NoLease
                  PROVE  \E v \in Workers :
                           \/ Heartbeats(v, q)' /\ ProcOf[v] = lease'[q].by
                           \/ Works(v, q)' /\ pc'[v] \in {"lease", "unable"}
                                /\ job'[v].type = "resume"
      BY DEF LeaseIsKept
    <3>1. status[q] = "running" /\ LeasedThroughout(q)
      BY <2>0 DEF LeasedThroughout, Kind
    <3>2. CASE q = r
      <4>1. lease'[q].by = ProcOf[w] BY <1>1, <2>0, <3>1, <3>2 DEF Renewed, TypeOK
      <4>2. Heartbeats(w, q)'
        BY <1>0, <2>0, <2>2, <2>3, <3>2 DEF Heartbeats, Works, Idle, UsesLease, Kind
      <4>. QED BY <4>1, <4>2
    <3>3. CASE q # r
      <4>1. lease'[q] = lease[q] BY <1>1, <2>0, <3>3 DEF Renewed, TypeOK
      <4>2. PICK v \in Workers :
              \/ Heartbeats(v, q) /\ ProcOf[v] = lease[q].by
              \/ Works(v, q) /\ pc[v] \in {"lease", "unable"} /\ job[v].type = "resume"
        BY <2>0, <3>1, <4>1 DEF LeaseInv, LeaseIsKept
      <4>3. v # w BY <3>3, <4>2 DEF Heartbeats, Works
      <4>. QED BY <2>0, <2>1, <4>1, <4>2, <4>3 DEF Heartbeats, Works, Idle, UsesLease, Kind
    <3>. QED BY <3>2, <3>3
  <2>6. OpenIsLetGo' /\ UnableIsNotOpen'
    BY <2>0, <2>1, <2>2, <2>4 DEF LeaseInv, OpenIsLetGo, UnableIsNotOpen, Works, Idle
  <2>7. LeaseFollowsClaim'
    <3>1. status[r] \notin FreshStatus
      BY <1>0, <1>1, <2>0 DEF IInv, FreshIsFree, Drives, Works
    <3>2. \A q \in Runs : q # r => lease'[q] = lease[q] BY <1>1, <2>0 DEF Renewed, TypeOK
    <3>. QED
      BY <2>0, <2>1, <2>2, <3>1, <3>2 DEF LeaseInv, LeaseFollowsClaim, UsesLease, Kind
  <2>. QED BY <2>5, <2>6, <2>7 DEF LeaseInv
<1>6. CASE StopBeforeGate(w)
  <2>1. Running BY <1>1, <1>6, EndedRunning DEF StopBeforeGate, OutcomesUsed
  <2>2. Working BY <1>6, GotoInside DEF StopBeforeGate, Inside, DriveLabels
  <2>. QED BY <1>6, <2>1, <2>2, StillInside, InsideLease DEF StopBeforeGate
<1>7. CASE AskPolicy(w)
  <2>1. Working BY <1>7, GotoInside DEF AskPolicy, Inside, DriveLabels
  <2>2. Passing BY <1>1, <1>7 DEF AskPolicy, Passing, TypeOK
  <2>. QED BY <1>7, <2>1, <2>2, StillInside, InsideLease DEF AskPolicy
<1>8. CASE Park(w)
  <2>1. Working BY <1>8, GotoInside DEF Park, Inside, DriveLabels
  <2>2. Running
    <3>1. CASE status[r] = "running"
      <4>1. Drives(w, r) BY <1>0, <1>8 DEF Park, Drives, Works
      <4>2. /\ job'[w] = job[w] /\ pc'[w] = "reread"
            /\ status' = [status EXCEPT ![r] = "waiting_approval"]
        BY <1>8, <3>1 DEF Park, Goto, TypeOK
      <4>. QED BY <1>1, <4>1, <4>2 DEF Running, TypeOK
    <3>2. CASE status[r] # "running" BY <1>8, <3>2, StillInside DEF Park
    <3>. QED BY <3>1, <3>2
  <2>3. Passing BY <1>1, <1>8 DEF Park, Withdrawn, Passing, TypeOK
  <2>. QED BY <1>8, <2>1, <2>2, <2>3, StillInside, InsideLease DEF Park
<1>9. CASE Reread(w) \/ HandOver(w)
  <2>1. Working BY <1>9, GotoInside DEF Reread, HandOver, Inside, DriveLabels
  <2>. QED BY <1>9, <2>1, StillInside, InsideLease DEF Reread, HandOver
<1>10. ASSUME ThrowOut(w), pc[w] \in {"perform", "settle"},
              UNCHANGED <<external, crashes, approval, open>>
       PROVE  LeaseInv'
  <2>1. Release(w) BY <1>10 DEF ThrowOut, Done, Thrown
  <2>2. Running
    BY <1>1, <1>10, EndedRunning, StillInside DEF ThrowOut, OutcomesUsed
  <2>3. \A q \in Runs : status'[q] = "running" => status[q] = "running"
    BY <1>1, <1>10 DEF ThrowOut, Ended, TypeOK
  <2>. QED BY <1>10, <2>1, <2>2, <2>3, StillInside, LeavingLease DEF ThrowOut, Inside
<1>11. CASE Perform(w)
  <2>1. CASE ThrowOut(w) BY <1>10, <1>11, <2>1 DEF Perform
  <2>2. CASE ~ThrowOut(w)
    <3>1. Working BY <1>11, <2>2, GotoInside DEF Perform, Inside, DriveLabels
    <3>2. Running BY <1>1, <1>11, <2>2, EndedRunning, StillInside DEF Perform, OutcomesUsed
    <3>. QED BY <1>11, <2>2, <3>1, <3>2, StillInside, InsideLease DEF Perform
  <2>. QED BY <2>1, <2>2
<1>12. CASE Settle(w)
  <2>1. PICK o \in Outcomes(Kind(r)) :
          /\ status' = Ended(r, o)
          /\ external' \in IF o = "success" /\ Kind(r) = "task" /\ status[r] = "running"
                           THEN {external, external \cup {r}} ELSE {external}
    BY <1>12 DEF Settle
  <2>2. o \in OutcomesUsed BY <2>1 DEF Outcomes, OutcomesUsed
  <2>3. Running BY <1>1, <2>1, <2>2, EndedRunning
  <2>4. external \subseteq external' BY <2>1
  <2>5. Passing BY <1>12, <2>4 DEF Settle, Passing
  <2>6. Working BY <1>12, GotoInside DEF Settle, Inside, DriveLabels
  <2>. QED BY <1>12, <2>3, <2>5, <2>6, StillInside, InsideLease DEF Settle
<1>13. CASE LeaveOpen(w)
  <2>1. Working BY <1>13, GotoInside DEF LeaveOpen, Inside, DriveLabels
  <2>2. Drives(w, r) BY <1>0, <1>13 DEF LeaveOpen, Drives, Works
  <2>3. job'[w] = job[w] /\ pc'[w] = "leave" BY <1>13 DEF LeaveOpen, Goto, TypeOK
  <2>4. Opening BY <1>13, <2>2, <2>3 DEF LeaveOpen, Opening
  <2>. QED BY <1>13, <2>1, <2>4, StillInside, InsideLease DEF LeaveOpen
<1>14. CASE ProviderThrew(w) BY <1>10, <1>14 DEF ProviderThrew
<1>15. CASE Leave(w)
  BY <1>15, StillInside, LeavingLease DEF Leave, Done, Inside
<1>16. CASE Poll(w)
  <2>1. Working BY <1>16, OutsideLeases DEF Poll, Leasing, Inside, PCs
  <2>. QED BY <1>16, <2>1, StillInside, InsideLease DEF Poll
<1>17. CASE SettleDecision(w)
  <2>0. pc[w] = "decide" /\ job[w].type = "resume"
    BY <1>17 DEF SettleDecision, IInv, JobFitsStep
  <2>1. CASE status[r] # "waiting_approval"
    <3>1. Working BY <1>17, <2>0, <2>1, OutsideLeases DEF SettleDecision, Leasing, Inside
    <3>. QED BY <1>17, <2>1, <3>1, StillInside, InsideLease DEF SettleDecision
  <2>2. CASE status[r] = "waiting_approval" /\ approval[r] # "approved"
    <3>1. RefuseParked(w, r) BY <1>17, <2>2 DEF SettleDecision
    <3>2. Working BY <2>0, <3>1, OutsideLeases DEF RefuseParked, Leasing, Inside
    <3>3. Running BY <1>1, <3>1 DEF RefuseParked, Running, TypeOK
    <3>. QED BY <1>17, <3>2, <3>3, StillInside, InsideLease DEF SettleDecision
  <2>3. CASE status[r] = "waiting_approval" /\ approval[r] = "approved"
    <3>1. Resume(w, r) /\ UNCHANGED <<lease, open, external, approval, crashes>>
      BY <1>17, <2>3 DEF SettleDecision
    <3>. DEFINE l == IF Kind(r) \notin Resumers THEN "unable"
                     ELSE IF UsesLease(job[w]) THEN "lease" ELSE "perform"
    <3>2. l \in {"lease", "perform", "unable"} /\ Goto(w, l)
      BY <3>1 DEF Resume
    <3>3. /\ l = "lease" => UsesLease(job[w])
          /\ l = "perform" => ~UsesLease(job[w])
      OBVIOUS
    <3>. HIDE DEF l
    <3>. QED BY <1>0, <2>0, <2>3, <3>1, <3>2, <3>3, ClaimedLease DEF Resume, Leasing, Inside
  <2>. QED BY <2>1, <2>2, <2>3
<1>18. CASE NoResumer(w)
  <2>. USE DEF Works, Idle, Inside
  <2>0. /\ pc[w] = "unable" /\ Release(w) /\ status' = Ended(r, "needs_attention")
        /\ UNCHANGED <<lease, external, approval, crashes, open>>
    BY <1>18 DEF NoResumer, Done
  <2>1. \A v \in Workers : v # w => pc'[v] = pc[v] /\ job'[v] = job[v]
    BY <2>0 DEF Release, TypeOK
  <2>2. pc'[w] = "idle" BY <2>0 DEF Release, TypeOK
  <2>3. /\ status'[r] # "running"
        /\ \A q \in Runs : \/ status'[q] = status[q]
                           \/ status'[q] \notin FreshStatus \cup {"running"}
    BY <1>1, <2>0 DEF Ended, TypeOK
  <2>4. LeaseIsKept'
    <3>. SUFFICES ASSUME crashes' = 0, NEW q \in Runs, q \notin external', status'[q] = "running",
                         LeasedThroughout(q)', lease'[q] # NoLease
                  PROVE  \E v \in Workers :
                           \/ Heartbeats(v, q)' /\ ProcOf[v] = lease'[q].by
                           \/ Works(v, q)' /\ pc'[v] \in {"lease", "unable"}
                                /\ job'[v].type = "resume"
      BY DEF LeaseIsKept
    <3>1. status[q] = "running" /\ LeasedThroughout(q) /\ q # r
      BY <2>0, <2>3 DEF LeasedThroughout, Kind
    <3>2. PICK v \in Workers :
            \/ Heartbeats(v, q) /\ ProcOf[v] = lease[q].by
            \/ Works(v, q) /\ pc[v] \in {"lease", "unable"} /\ job[v].type = "resume"
      BY <2>0, <3>1 DEF LeaseInv, LeaseIsKept
    <3>3. v # w BY <3>1, <3>2 DEF Heartbeats
    <3>. QED BY <2>0, <2>1, <3>2, <3>3 DEF Heartbeats, UsesLease, Kind
  <2>5. OpenIsLetGo'
    BY <2>0, <2>1, <2>2, <2>3 DEF LeaseInv, OpenIsLetGo, Drives
  <2>6. UnableIsNotOpen' BY <2>0, <2>1, <2>2 DEF LeaseInv, UnableIsNotOpen
  <2>7. LeaseFollowsClaim'
    BY <2>0, <2>1, <2>2, <2>3 DEF LeaseInv, LeaseFollowsClaim, UsesLease, Kind
  <2>. QED BY <2>4, <2>5, <2>6, <2>7 DEF LeaseInv
<1>. QED
  BY <1>2, <1>3, <1>4, <1>5, <1>6, <1>7, <1>8, <1>9, <1>11, <1>12, <1>13, <1>14, <1>15,
     <1>16, <1>17, <1>18 DEF Step

\* Everything else happens inside the leases, but for the death of a process.
LEMMA OutsideLease ==
  ASSUME TypeOK, TypeOK', IInv, LeaseInv,
         \/ \E r \in Runs :
              \/ StartTask(r) \/ OpenExternal(r) \/ Sweep(r)
              \/ LeaseExpires(r) \/ RequestCancel(r)
              \/ \E d \in {"approved", "rejected"} : Decide(r, d)
              \/ \E o \in OutcomesUsed : AgentFinishes(r, o)
              \/ \E s \in Reports : RecordRun(r, s)
         \/ Reap
         \/ \E w \in Workers :
              \/ Take(w) \/ Heartbeat(w) \/ Abandon(w) \/ \E r \in Runs : TakeDelivery(w, r)
  PROVE  LeaseInv'
<1>. USE DEF rowVars, workerVars, ghostVars
<1>0. OutcomesUsed \cap FreshStatus = {} /\ Reports \cap FreshStatus = {}
  BY OutcomesAreFinal
<1>1. ASSUME NEW r \in Runs, StartTask(r) \/ OpenExternal(r) PROVE LeaseInv'
  <2>1. Running BY <1>0, <1>1 DEF StartTask, OpenExternal, Running, TypeOK
  <2>2. Passing BY <1>1, BoundsAssumption DEF StartTask, Enqueue, OpenExternal, Passing, TypeOK
  <2>. QED BY <1>1, <2>1, <2>2, StillInside, InsideLease DEF StartTask, OpenExternal
<1>2. ASSUME NEW r \in Runs,
             \/ ExpireApproval(r) \/ InterruptApproval(r)
             \/ \E d \in {"approved", "rejected"} : Decide(r, d)
      PROVE  LeaseInv'
  <2>1. Passing
    BY <1>2, BoundsAssumption
       DEF ExpireApproval, InterruptApproval, Decide, Enqueue, Passing, TypeOK
  <2>. QED
    BY <1>2, <2>1, StillInside, InsideLease DEF ExpireApproval, InterruptApproval, Decide
<1>3. ASSUME NEW r \in Runs, Reconcile(r) \/ Requeue(r) PROVE LeaseInv'
  <2>1. Running BY <1>3 DEF Reconcile, Requeue, Running, TypeOK
  <2>2. Passing BY <1>3, BoundsAssumption DEF Reconcile, Requeue, Enqueue, Passing, TypeOK
  <2>. QED BY <1>3, <2>1, <2>2, StillInside, InsideLease DEF Reconcile, Requeue
<1>4. ASSUME NEW r \in Runs, ReapLook(r) \/ RequestCancel(r) PROVE LeaseInv'
  BY <1>4, StillInside, InsideLease DEF ReapLook, RequestCancel
<1>5. ASSUME NEW r \in Runs, LeaseExpires(r) PROVE LeaseInv'
  <2>1. lease[r] \in [by : Procs, live : BOOLEAN] BY <1>5 DEF LeaseExpires, TypeOK
  <2>2. [lease[r] EXCEPT !.live = FALSE] # NoLease
    <3>1. [lease[r] EXCEPT !.live = FALSE] \in [by : Procs, live : BOOLEAN] BY <2>1
    <3>. QED BY <3>1, SentinelAssumption
  <2>3. Leases BY <1>5, <2>1, <2>2 DEF LeaseExpires, Leases, TypeOK
  <2>. QED BY <1>5, <2>3, StillInside, InsideLease DEF LeaseExpires
<1>6. ASSUME NEW r \in Runs, NEW o \in OutcomesUsed, AgentFinishes(r, o) PROVE LeaseInv'
  BY <1>6, EndedRunning, StillInside, InsideLease DEF AgentFinishes
<1>7. ASSUME NEW r \in Runs, NEW s \in Reports, RecordRun(r, s) PROVE LeaseInv'
  <2>1. Running BY <1>0, <1>7 DEF RecordRun, Running, TypeOK
  <2>. QED BY <1>7, <2>1, StillInside, InsideLease DEF RecordRun
<1>8. ASSUME Reap PROVE LeaseInv'
  <2>1. reaping \in Runs BY <1>8 DEF Reap, TypeOK
  <2>. QED BY <1>8, <2>1, EndedRunning, StillInside, InsideLease DEF Reap, OutcomesUsed
<1>9. ASSUME NEW w \in Workers, Take(w) \/ \E r \in Runs : TakeDelivery(w, r) PROVE LeaseInv'
  <2>1. \A r \in Runs : DeliverJob(r) \in Jobs BY JobsAreJobs
  <2>2. Working
    BY <1>9, <2>1, OutsideLeases, StillInside
       DEF Take, RefuseForNow, TakeStart, TakeResume, TakeDelivery, Deliverable, Idle, Leasing,
           Inside, PCs
  <2>. QED
    BY <1>9, <2>2, StillInside, InsideLease
       DEF Take, RefuseForNow, TakeStart, TakeResume, TakeDelivery
<1>10. ASSUME NEW w \in Workers, Heartbeat(w) PROVE LeaseInv'
  <2>1. job[w].run \in Runs BY <1>10, BusyHasRun DEF Heartbeat
  <2>2. [by |-> ProcOf[w], live |-> TRUE] # NoLease
    <3>1. [by |-> ProcOf[w], live |-> TRUE] \in [by : Procs, live : BOOLEAN] BY ProcAssumption
    <3>. QED BY <3>1, SentinelAssumption
  <2>3. Leases BY <1>10, <2>1, <2>2 DEF Heartbeat, Renewed, Leases, TypeOK
  <2>. QED BY <1>10, <2>3, StillInside, InsideLease DEF Heartbeat
<1>11. ASSUME NEW w \in Workers, Abandon(w) PROVE LeaseInv'
  BY <1>11, StillInside, InsideLease DEF Abandon
<1>. QED
  BY <1>1, <1>2, <1>3, <1>4, <1>5, <1>6, <1>7, <1>8, <1>9, <1>10, <1>11 DEF Sweep

\* The death of a process takes handlers away, and nothing is promised of its leases.
LEMMA CrashLease ==
  ASSUME TypeOK, LeaseInv, NEW p \in Procs, Crash(p)
  PROVE  LeaseInv'
<1>. USE DEF LeaseInv, Works, Idle, rowVars, ghostVars
<1>1. \A w \in Workers : pc'[w] = "idle" \/ (pc'[w] = pc[w] /\ job'[w] = job[w])
  BY DEF Crash
<1>2. crashes' # 0 BY DEF Crash, TypeOK
<1>3. UNCHANGED <<status, lease, open>> BY DEF Crash
<1>4. LeaseIsKept' BY <1>2 DEF LeaseIsKept
<1>5. OpenIsLetGo' BY <1>1, <1>3 DEF OpenIsLetGo, Drives
<1>6. UnableIsNotOpen' BY <1>1, <1>3 DEF UnableIsNotOpen
<1>7. LeaseFollowsClaim' BY <1>1, <1>3 DEF LeaseFollowsClaim, UsesLease, Kind
<1>. QED BY <1>4, <1>5, <1>6, <1>7

LEMMA NextLease ==
  ASSUME TypeOK, TypeOK', IInv, LeaseInv, [Next]_vars
  PROVE  LeaseInv'
<1>1. CASE UNCHANGED vars BY <1>1, StillInside, InsideLease DEF vars
<1>2. CASE Next BY <1>2, StepLease, OutsideLease, CrashLease DEF Next, OutcomesUsed
<1>. QED BY <1>1, <1>2

\* Whatever passes a run went through before its provider took it, and whichever
\* process held its lease then, a run left open has none once its handlers are gone.
THEOREM OpenRunIsUnleased == Spec => []OpenRunHasNoLease
<1>1. Init => TypeOK /\ IInv /\ LeaseInv BY InitTyped, InitInv, InitLease
<1>2. TypeOK /\ IInv /\ LeaseInv /\ [Next]_vars => (TypeOK /\ IInv /\ LeaseInv)'
  BY NextTyped, NextInv, NextLease
<1>3. ASSUME LeaseInv PROVE OpenRunHasNoLease
  <2>. SUFFICES ASSUME crashes = 0, NEW r \in Runs \ external,
                       r \in open, status[r] = "running", LeasedThroughout(r),
                       \A w \in Workers : ~Heartbeats(w, r), lease[r] # NoLease
                PROVE  FALSE
    BY DEF OpenRunHasNoLease
  <2>1. PICK w \in Workers :
          Works(w, r) /\ pc[w] \in {"lease", "unable"} /\ job[w].type = "resume"
    BY <1>3 DEF LeaseInv, LeaseIsKept
  <2>2. pc[w] # "lease" BY <1>3, <2>1 DEF LeaseInv, OpenIsLetGo, Drives
  <2>. QED BY <1>3, <2>1, <2>2 DEF LeaseInv, UnableIsNotOpen, Works
<1>. QED BY <1>1, <1>2, <1>3, PTL DEF Spec

----------------------------------------------------------------------------
(***************************************************************************)
(* The permit contract: every step of the run lifecycle asks, answers,     *)
(* issues, uses, withdraws or voids permits as RunContract allows, or      *)
(* leaves them all alone.                                                  *)
(***************************************************************************)


\* Whether somebody may perform, or drives, a run.
Held(r) == \E w \in Workers : MayPerform(w, r)
Driven(r) == \E w \in Workers : Drives(w, r)

LEMMA PermitIs ==
  ASSUME NEW r \in Runs, handed[r] \in Nat
  PROVE  /\ PermitOf[r] = IF handed[r] > 0 THEN "used"
                          ELSE IF Held(r) THEN "held"
                          ELSE IF status[r] \in FreshStatus \/ Driven(r) THEN "unissued"
                          ELSE "void"
         /\ ConsentOf[r] = IF approval[r] \in {"rejected", "expired", "interrupted"}
                           THEN "refused" ELSE approval[r]
<1>1. handed[r] > 0 \/ handed[r] = 0 OBVIOUS
<1>2. CASE handed[r] > 0 BY <1>2 DEF PermitOf, ConsentOf
<1>3. CASE handed[r] = 0 BY <1>3 DEF PermitOf, ConsentOf, Held, Driven
<1>. QED BY <1>1, <1>2, <1>3

LEMMA PermitIsNext ==
  ASSUME NEW r \in Runs, handed'[r] \in Nat
  PROVE  /\ PermitOf'[r] = IF handed'[r] > 0 THEN "used"
                           ELSE IF Held(r)' THEN "held"
                           ELSE IF status'[r] \in FreshStatus \/ Driven(r)' THEN "unissued"
                           ELSE "void"
         /\ ConsentOf'[r] = IF approval'[r] \in {"rejected", "expired", "interrupted"}
                            THEN "refused" ELSE approval'[r]
<1>1. handed'[r] > 0 \/ handed'[r] = 0 OBVIOUS
<1>2. CASE handed'[r] > 0 BY <1>2 DEF PermitOf, ConsentOf
<1>3. CASE handed'[r] = 0 BY <1>3 DEF PermitOf, ConsentOf, Held, Driven
<1>. QED BY <1>1, <1>2, <1>3

\* The mapping is a pair of functions on runs.
LEMMA MappingTyped ==
  /\ ConsentOf = [r \in Runs |-> ConsentOf[r]] /\ ConsentOf' = [r \in Runs |-> ConsentOf'[r]]
  /\ PermitOf = [r \in Runs |-> PermitOf[r]] /\ PermitOf' = [r \in Runs |-> PermitOf'[r]]
BY DEF ConsentOf, PermitOf

\* The initial states are initial states of the contract.
LEMMA InitContract == Init => Contract!Init
<1>1. ASSUME Init, NEW r \in Runs PROVE ConsentOf[r] = "none" /\ PermitOf[r] = "unissued"
  BY <1>1, PermitIs DEF Init, Held, MayPerform, Works, Idle
<1>. QED BY <1>1, MappingTyped DEF Contract!Init

\* A quiet step that answers nobody at most voids permits.
LEMMA QuietContract ==
  ASSUME TypeOK, TypeOK', IInv, Settling, Quieting, UNCHANGED <<handed, approval>>
  PROVE  Contract!Next
<1>. USE DEF IInv, Works, Drives, MayPerform, Idle
<1>1. ASSUME NEW r \in Runs
      PROVE  /\ ConsentOf'[r] = ConsentOf[r]
             /\ \/ PermitOf'[r] = PermitOf[r]
                \/ PermitOf[r] \in {"unissued", "held"} /\ PermitOf'[r] = "void"
  <2>0. handed[r] \in Nat /\ handed'[r] = handed[r] BY DEF TypeOK
  <2>1. ConsentOf'[r] = ConsentOf[r] BY <2>0, PermitIs, PermitIsNext
  <2>2. Held(r)' => Held(r) BY DEF Quieting, Held
  <2>3. Driven(r)' => Driven(r) BY DEF Quieting, Driven
  <2>4. Held(r) /\ ~Held(r)' => ~Driven(r)' BY DEF Quieting, Held, Driven, OneDriver
  <2>5. status'[r] \in FreshStatus => status[r] \in FreshStatus /\ ~Held(r)
    BY DEF Settling, FreshIsFree, Held
  <2>. QED BY <2>0, <2>1, <2>2, <2>3, <2>4, <2>5, PermitIs, PermitIsNext
<1>2. DEFINE R == {r \in Runs : PermitOf'[r] # PermitOf[r]}
<1>3. ConsentOf' = ConsentOf BY <1>1, MappingTyped
<1>4. PermitOf' = [r \in Runs |-> IF r \in R THEN "void" ELSE PermitOf[r]]
  BY <1>1, MappingTyped
<1>5. \A r \in R : PermitOf[r] \in {"unissued", "held"} BY <1>1
<1>6. Contract!Void(R) BY <1>3, <1>4, <1>5 DEF Contract!Void
<1>. QED BY <1>6 DEF Contract!Next

\* A step that touches one run, by a worker given it or by nobody.
OnlyRun(r) ==
  /\ \A q \in Runs \ {r} :
       /\ status'[q] = status[q] /\ approval'[q] = approval[q] /\ handed'[q] = handed[q]
  /\ \A w \in Workers : \/ pc'[w] = pc[w] /\ job'[w] = job[w]
                        \/ pc[w] # "idle" /\ job[w].run = r /\ job'[w] = job[w]

LEMMA OnlyRunMoves ==
  ASSUME TypeOK, TypeOK', NEW r \in Runs, OnlyRun(r)
  PROVE  /\ ConsentOf' = [ConsentOf EXCEPT ![r] = ConsentOf'[r]]
         /\ PermitOf' = [PermitOf EXCEPT ![r] = PermitOf'[r]]
<1>1. ASSUME NEW q \in Runs \ {r}
      PROVE  ConsentOf'[q] = ConsentOf[q] /\ PermitOf'[q] = PermitOf[q]
  <2>0. handed[q] \in Nat /\ handed'[q] = handed[q] BY <1>1 DEF TypeOK, OnlyRun
  <2>1. Held(q)' = Held(q) BY <1>1 DEF OnlyRun, Held, MayPerform, Works, Idle
  <2>2. Driven(q)' = Driven(q) BY <1>1 DEF OnlyRun, Driven, Drives, Works, Idle
  <2>. QED BY <1>1, <2>0, <2>1, <2>2, PermitIs, PermitIsNext DEF OnlyRun
<1>. QED BY <1>1, MappingTyped

\* A decision, a timeout or a withdrawal at boot answers.
LEMMA AnswerContract ==
  ASSUME TypeOK, TypeOK', NEW r \in Runs,
         ExpireApproval(r) \/ InterruptApproval(r)
           \/ (\E d \in {"approved", "rejected"} : Decide(r, d))
  PROVE  Contract!Next
<1>. USE DEF workerVars, ghostVars
<1>1. /\ approval[r] = "pending" /\ UNCHANGED <<status, handed, pc, job>>
      /\ approval'[r] \in {"approved", "rejected", "expired", "interrupted"}
      /\ \A q \in Runs \ {r} : approval'[q] = approval[q]
  BY DEF ExpireApproval, InterruptApproval, Decide, TypeOK
<1>2. OnlyRun(r) BY <1>1 DEF OnlyRun
<1>3. handed[r] \in Nat /\ handed'[r] \in Nat BY DEF TypeOK
<1>4. ConsentOf[r] = "pending" /\ ConsentOf'[r] \in {"approved", "refused"}
  BY <1>1, <1>3, PermitIs, PermitIsNext
<1>5. PermitOf'[r] = PermitOf[r]
  BY <1>1, <1>3, PermitIs, PermitIsNext DEF Held, Driven, MayPerform, Drives, Works, Idle
<1>6. Contract!Answer(r)
  BY <1>2, <1>4, <1>5, OnlyRunMoves, MappingTyped DEF Contract!Answer
<1>. QED BY <1>6 DEF Contract!Next

\* The birth of a run leaves its permit to be issued, or none to an agent's own run.
LEMMA BirthContract ==
  ASSUME TypeOK, TypeOK', IInv, NEW r \in Runs, StartTask(r) \/ OpenExternal(r)
  PROVE  Contract!Next \/ UNCHANGED Contract!vars
<1>. USE DEF workerVars, ghostVars
<1>1. /\ status[r] = "none"
      /\ UNCHANGED <<approval, handed, pc, job>>
      /\ \A q \in Runs \ {r} : status'[q] = status[q]
  BY DEF StartTask, OpenExternal, TypeOK
<1>2. OnlyRun(r) BY <1>1 DEF OnlyRun
<1>3. handed[r] = 0 /\ handed'[r] = 0 /\ ~Driven(r) /\ ~Driven(r)' /\ ~Held(r) /\ ~Held(r)'
  BY <1>1 DEF IInv, FreshIsFree, Driven, Held, MayPerform, Drives, Works, Idle
<1>4. PermitOf[r] = "unissued" /\ PermitOf'[r] \in {"unissued", "void"}
      /\ ConsentOf'[r] = ConsentOf[r]
  BY <1>1, <1>3, PermitIs, PermitIsNext
<1>5. CASE PermitOf'[r] = "unissued"
  BY <1>2, <1>4, <1>5, OnlyRunMoves, MappingTyped DEF Contract!vars
<1>6. CASE PermitOf'[r] = "void"
  <2>1. Contract!Void({r})
    BY <1>2, <1>4, <1>6, OnlyRunMoves, MappingTyped DEF Contract!Void
  <2>. QED BY <2>1 DEF Contract!Next
<1>. QED BY <1>4, <1>5, <1>6

\* Taking a job moves no permit.
LEMMA TakeContract ==
  ASSUME TypeOK, TypeOK', NEW w \in Workers,
         Take(w) \/ (\E r \in Runs : TakeDelivery(w, r))
  PROVE  UNCHANGED Contract!vars
<1>. USE DEF rowVars, workerVars, ghostVars, Take
<1>1. /\ UNCHANGED <<status, approval, handed>> /\ Idle(w)
      /\ \A v \in Workers : \/ pc'[v] = pc[v] /\ job'[v] = job[v]
                            \/ Idle(v) /\ pc'[v] \in {"refuse", "claim", "poll", "decide", "begin"}
  BY DEF RefuseForNow, TakeStart, TakeResume, TakeDelivery, Deliverable, Given, TypeOK
<1>2. ASSUME NEW r \in Runs
      PROVE  ConsentOf'[r] = ConsentOf[r] /\ PermitOf'[r] = PermitOf[r]
  <2>0. handed[r] \in Nat /\ handed'[r] = handed[r] BY <1>1 DEF TypeOK
  <2>1. Held(r)' = Held(r) BY <1>1 DEF Held, MayPerform, Works, Idle
  <2>2. Driven(r)' = Driven(r) BY <1>1 DEF Driven, Drives, Works, Idle
  <2>. QED BY <1>1, <2>0, <2>1, <2>2, PermitIs, PermitIsNext
<1>. QED BY <1>2, MappingTyped DEF Contract!vars

\* A worker's step on a run it drives, or begins to drive, as the contract sees it.
LEMMA DriverContract ==
  ASSUME TypeOK, TypeOK', IInv, IInv', NEW w \in Workers, ~Idle(w),
         NEW r \in Runs, job[w].run = r,
         NEW l \in PCs \ {"idle"}, Goto(w, l), OnlyRun(r)
  PROVE  /\ ConsentOf' = [ConsentOf EXCEPT ![r] = ConsentOf'[r]]
         /\ PermitOf' = [PermitOf EXCEPT ![r] = PermitOf'[r]]
         /\ l \in {"lease", "gate", "park"} => PermitOf'[r] = "unissued"
         /\ l \in {"perform", "call"} => PermitOf'[r] = "held"
         /\ pc[w] \in {"lease", "gate", "park"} => PermitOf[r] = "unissued"
         /\ pc[w] \in {"perform", "call"} => PermitOf[r] = "held"
         /\ status[r] \in FreshStatus => PermitOf[r] = "unissued"
         /\ status'[r] \in FreshStatus => PermitOf'[r] = "unissued"
<1>1. handed[r] \in Nat /\ handed'[r] \in Nat BY DEF TypeOK
<1>2. pc'[w] = l /\ job'[w] = job[w] BY DEF Goto, TypeOK
<1>. USE DEF IInv, Works, Drives, MayPerform, Idle
<1>3. /\ ConsentOf' = [ConsentOf EXCEPT ![r] = ConsentOf'[r]]
      /\ PermitOf' = [PermitOf EXCEPT ![r] = PermitOf'[r]]
  BY OnlyRunMoves
<1>4. pc[w] \in {"lease", "gate", "park"} => PermitOf[r] = "unissued"
  <2>1. CASE pc[w] \in {"lease", "gate", "park"}
    <3>1. handed[r] = 0 /\ Driven(r) /\ ~Held(r)
      BY <2>1 DEF CallIsAhead, OneDriver, Driven, Held
    <3>. QED BY <1>1, <3>1, PermitIs
  <2>. QED BY <2>1
<1>5. pc[w] \in {"perform", "call"} => PermitOf[r] = "held"
  <2>1. CASE pc[w] \in {"perform", "call"}
    <3>1. handed[r] = 0 /\ Held(r) BY <2>1 DEF CallIsAhead, Held
    <3>. QED BY <1>1, <3>1, PermitIs
  <2>. QED BY <2>1
<1>6. status[r] \in FreshStatus => PermitOf[r] = "unissued"
  <2>1. CASE status[r] \in FreshStatus
    <3>1. handed[r] = 0 /\ ~Held(r) BY <2>1 DEF FreshIsFree, Held
    <3>. QED BY <1>1, <2>1, <3>1, PermitIs
  <2>. QED BY <2>1
<1>7. l \in {"lease", "gate", "park"} => PermitOf'[r] = "unissued"
  <2>1. CASE l \in {"lease", "gate", "park"}
    <3>1. handed'[r] = 0 /\ Driven(r)' /\ ~Held(r)'
      BY <1>2, <2>1 DEF CallIsAhead, OneDriver, Driven, Held
    <3>. QED BY <1>1, <3>1, PermitIsNext
  <2>. QED BY <2>1
<1>8. l \in {"perform", "call"} => PermitOf'[r] = "held"
  <2>1. CASE l \in {"perform", "call"}
    <3>1. handed'[r] = 0 /\ Held(r)' BY <1>2, <2>1 DEF CallIsAhead, Held
    <3>. QED BY <1>1, <3>1, PermitIsNext
  <2>. QED BY <2>1
<1>9. status'[r] \in FreshStatus => PermitOf'[r] = "unissued"
  <2>1. CASE status'[r] \in FreshStatus
    <3>1. handed'[r] = 0 /\ ~Held(r)' BY <2>1 DEF FreshIsFree, Held
    <3>. QED BY <1>1, <2>1, <3>1, PermitIsNext
  <2>. QED BY <2>1
<1>. QED BY <1>3, <1>4, <1>5, <1>6, <1>7, <1>8, <1>9

\* The driver's steps ask, issue, use and withdraw.
LEMMA StepContract ==
  ASSUME TypeOK, TypeOK', IInv, IInv', NEW w \in Workers, Step(w),
         NEW r \in Runs, job[w].run = r
  PROVE  Contract!Next \/ UNCHANGED Contract!vars
<1>. USE DEF rowVars, ghostVars
<1>0. handed[r] \in Nat /\ handed'[r] \in Nat BY DEF TypeOK
<1>1. CASE BeginDelivery(w)
  <2>1. ~Idle(w) /\ Goto(w, "lease") /\ UNCHANGED <<approval, handed>>
    BY <1>1 DEF BeginDelivery, Idle
  <2>2. OnlyRun(r) BY <1>1, <2>1 DEF BeginDelivery, OnlyRun, Goto, TypeOK, Idle
  <2>3. status[r] = "none" BY <1>1 DEF BeginDelivery, IInv, JobFitsStep
  <2>4. ConsentOf'[r] = ConsentOf[r] BY <1>0, <2>1, PermitIs, PermitIsNext
  <2>. QED BY <2>1, <2>2, <2>3, <2>4, DriverContract, MappingTyped DEF Contract!vars, PCs
<1>2. CASE Claim(w)
  <2>1. CASE status[r] = "queued"
    <3>1. ~Idle(w) /\ Goto(w, "lease") /\ UNCHANGED <<approval, handed>>
      BY <1>2, <2>1 DEF Claim, Idle
    <3>2. OnlyRun(r) BY <1>2, <2>1, <3>1 DEF Claim, OnlyRun, Goto, TypeOK, Idle
    <3>3. ConsentOf'[r] = ConsentOf[r] BY <1>0, <3>1, PermitIs, PermitIsNext
    <3>. QED BY <2>1, <3>1, <3>2, <3>3, DriverContract, MappingTyped DEF Contract!vars, PCs
  <2>2. CASE status[r] # "queued"
    BY <1>2, <2>2, DoneQuiet, QuietContract DEF Claim, Settling
  <2>. QED BY <2>1, <2>2
<1>3. CASE EnterLease(w)
  <2>. DEFINE l == IF job[w].type = "resume" THEN "perform" ELSE "gate"
  <2>1. ~Idle(w) /\ Goto(w, l) /\ UNCHANGED <<status, approval, handed>> /\ pc[w] = "lease"
    BY <1>3 DEF EnterLease, Idle
  <2>2. OnlyRun(r) BY <2>1 DEF OnlyRun, Goto, TypeOK, Idle
  <2>3. ConsentOf'[r] = ConsentOf[r] BY <1>0, <2>1, PermitIs, PermitIsNext
  <2>4. CASE job[w].type = "resume"
    <3>1. approval[r] = "approved" BY <1>0, <2>1, <2>4 DEF IInv, ConsentFollowsGate, Works
    <3>2. ConsentOf[r] = "approved" BY <1>0, <2>1, <3>1, PermitIs
    <3>3. PermitOf[r] = "unissued" /\ PermitOf' = [PermitOf EXCEPT ![r] = "held"]
          /\ ConsentOf' = ConsentOf
      BY <2>1, <2>2, <2>3, <2>4, DriverContract, MappingTyped DEF PCs
    <3>4. Contract!Issue(r) BY <3>2, <3>3 DEF Contract!Issue
    <3>. QED BY <1>0, <2>1, <3>4 DEF Contract!Next
  <2>5. CASE job[w].type # "resume"
    BY <2>1, <2>2, <2>3, <2>5, DriverContract, MappingTyped DEF Contract!vars, PCs
  <2>. QED BY <2>4, <2>5
<1>4. CASE AskPolicy(w)
  <2>1. ~Idle(w) /\ pc[w] = "gate" /\ UNCHANGED <<status, handed>>
    BY <1>4 DEF AskPolicy, Idle
  <2>2. approval[r] = "none" BY <1>0, <2>1 DEF IInv, ConsentFollowsGate, Works
  <2>3. ConsentOf[r] = "none" BY <1>0, <2>1, <2>2, PermitIs
  <2>4. CASE Goto(w, "perform") /\ UNCHANGED approval
    <3>1. OnlyRun(r) BY <2>1, <2>4 DEF OnlyRun, Goto, TypeOK, Idle
    <3>2. ConsentOf'[r] = ConsentOf[r] BY <1>0, <2>1, <2>4, PermitIs, PermitIsNext
    <3>3. PermitOf[r] = "unissued" /\ PermitOf' = [PermitOf EXCEPT ![r] = "held"]
          /\ ConsentOf' = ConsentOf
      BY <2>1, <2>4, <3>1, <3>2, DriverContract, MappingTyped DEF PCs
    <3>4. Contract!Issue(r) BY <2>3, <3>3 DEF Contract!Issue
    <3>. QED BY <1>0, <2>1, <3>4 DEF Contract!Next
  <2>5. CASE Goto(w, "park") /\ approval' = [approval EXCEPT ![r] = "pending"]
    <3>1. OnlyRun(r) BY <1>0, <2>1, <2>5 DEF OnlyRun, Goto, TypeOK, Idle
    <3>2. ConsentOf'[r] = "pending" BY <1>0, <2>1, <2>5, PermitIsNext DEF TypeOK
    <3>3. PermitOf[r] = "unissued" /\ PermitOf' = PermitOf
          /\ ConsentOf' = [ConsentOf EXCEPT ![r] = "pending"]
      BY <2>1, <2>5, <3>1, <3>2, DriverContract, MappingTyped DEF PCs
    <3>4. Contract!Ask(r) BY <2>3, <3>3 DEF Contract!Ask
    <3>. QED BY <1>0, <2>1, <3>4 DEF Contract!Next
  <2>. QED BY <1>4, <2>4, <2>5 DEF AskPolicy
<1>5. CASE Park(w)
  <2>1. ~Idle(w) /\ pc[w] = "park" /\ UNCHANGED handed BY <1>5 DEF Park, Idle
  <2>2. CASE status[r] = "running"
    <3>1. Goto(w, "reread") /\ UNCHANGED approval BY <1>5, <2>2 DEF Park
    <3>2. OnlyRun(r) BY <1>5, <2>1, <2>2, <3>1 DEF Park, OnlyRun, Goto, TypeOK, Idle
    <3>3. status'[r] = "waiting_approval" BY <1>0, <1>5, <2>1, <2>2 DEF Park, TypeOK
    <3>4. ConsentOf'[r] = ConsentOf[r] BY <1>0, <2>1, <3>1, PermitIs, PermitIsNext
    <3>. QED BY <2>1, <3>1, <3>2, <3>3, <3>4, DriverContract, MappingTyped
             DEF Contract!vars, PCs
  <2>3. CASE status[r] # "running" /\ approval[r] = "pending"
    <3>1. /\ Goto(w, "leave") /\ UNCHANGED status
          /\ approval' = [approval EXCEPT ![r] = "expired"]
      BY <1>5, <2>3 DEF Park, Withdrawn
    <3>2. OnlyRun(r) BY <1>0, <2>1, <3>1 DEF OnlyRun, Goto, TypeOK, Idle
    <3>3. ConsentOf[r] = "pending" /\ ConsentOf'[r] = "refused"
      BY <1>0, <2>1, <2>3, <3>1, PermitIs, PermitIsNext DEF TypeOK
    <3>4. PermitOf'[r] = "void"
      <4>1. status[r] \notin FreshStatus /\ handed[r] = 0
            /\ \A v \in Workers \ {w} : ~Drives(v, r)
        BY <1>0, <2>1 DEF IInv, FreshIsFree, CallIsAhead, OneDriver, Drives, Works
      <4>2. ~Driven(r)' /\ ~Held(r)'
        BY <2>1, <3>1, <4>1 DEF Driven, Held, Drives, MayPerform, Works, Idle, Goto, TypeOK
      <4>. QED BY <1>0, <2>1, <3>1, <4>1, <4>2, PermitIsNext
    <3>5. PermitOf[r] = "unissued" /\ PermitOf' = [PermitOf EXCEPT ![r] = "void"]
          /\ ConsentOf' = [ConsentOf EXCEPT ![r] = "refused"]
      BY <2>1, <3>1, <3>2, <3>3, <3>4, DriverContract DEF PCs
    <3>6. Contract!Withdraw(r) BY <3>3, <3>5 DEF Contract!Withdraw
    <3>. QED BY <1>0, <2>1, <3>6 DEF Contract!Next
  <2>4. CASE status[r] # "running" /\ approval[r] # "pending"
    <3>1. Quieting /\ Settling
      BY <1>5, <2>4, GotoQuiet DEF Park, Settling
    <3>2. UNCHANGED approval BY <1>0, <1>5, <2>1, <2>4 DEF Park, Withdrawn, TypeOK
    <3>. QED BY <2>1, <3>1, <3>2, QuietContract
  <2>. QED BY <2>2, <2>3, <2>4
<1>6. CASE Perform(w)
  <2>1. ~Idle(w) /\ pc[w] = "perform" /\ UNCHANGED <<approval, handed>>
    BY <1>6 DEF Perform, Idle
  <2>2. CASE Goto(w, "call") /\ UNCHANGED status
    <3>1. OnlyRun(r) BY <2>1, <2>2 DEF OnlyRun, Goto, TypeOK, Idle
    <3>2. ConsentOf'[r] = ConsentOf[r] BY <1>0, <2>1, <2>2, PermitIs, PermitIsNext
    <3>. QED BY <2>1, <2>2, <3>1, <3>2, DriverContract, MappingTyped DEF Contract!vars, PCs
  <2>3. CASE ~(Goto(w, "call") /\ UNCHANGED status)
    <3>1. Quieting BY <1>6, <2>3, DoneQuiet, GotoQuiet DEF Perform, ThrowOut
    <3>2. Settling
      BY <1>0, <1>6, <2>1, <2>3, EndedSettles, OutcomesAreFinal
         DEF Perform, ThrowOut, OutcomesUsed, Settling
    <3>. QED BY <2>1, <3>1, <3>2, QuietContract
  <2>. QED BY <2>2, <2>3
<1>7. CASE HandOver(w)
  <2>1. ~Idle(w) /\ pc[w] = "call" /\ Goto(w, "settle") /\ UNCHANGED <<status, approval>>
        /\ handed' = [handed EXCEPT ![r] = @ + 1]
    BY <1>7 DEF HandOver, Idle
  <2>2. OnlyRun(r) BY <1>0, <2>1 DEF OnlyRun, Goto, TypeOK, Idle
  <2>3. handed'[r] > 0 BY <1>0, <2>1 DEF TypeOK
  <2>4. PermitOf'[r] = "used" BY <1>0, <2>1, <2>3, PermitIsNext
  <2>5. ConsentOf'[r] = ConsentOf[r] BY <1>0, <2>1, PermitIs, PermitIsNext
  <2>6. PermitOf[r] = "held" /\ PermitOf' = [PermitOf EXCEPT ![r] = "used"]
        /\ ConsentOf' = ConsentOf
    BY <2>1, <2>2, <2>4, <2>5, DriverContract, MappingTyped DEF PCs
  <2>7. Contract!Use(r) BY <2>6 DEF Contract!Use
  <2>. QED BY <1>0, <2>1, <2>7 DEF Contract!Next
<1>8. CASE Poll(w)
  <2>1. ~Idle(w) /\ pc[w] = "poll" /\ UNCHANGED <<status, approval, handed>>
    BY <1>8 DEF Poll, Idle
  <2>2. CASE Goto(w, "decide") /\ status[r] = "waiting_approval"
    <3>1. OnlyRun(r) BY <2>1, <2>2 DEF OnlyRun, Goto, TypeOK, Idle
    <3>2. ConsentOf'[r] = ConsentOf[r] BY <1>0, <2>1, PermitIs, PermitIsNext
    <3>. QED BY <2>1, <2>2, <3>1, <3>2, DriverContract, MappingTyped DEF Contract!vars, PCs
  <2>3. CASE Done(w)
    <3>1. Quieting /\ Settling BY <2>1, <2>3, DoneQuiet DEF Settling
    <3>. QED BY <2>1, <3>1, QuietContract
  <2>. QED BY <1>8, <2>2, <2>3 DEF Poll
<1>9. CASE SettleDecision(w)
  <2>1. ~Idle(w) /\ pc[w] = "decide" /\ UNCHANGED <<approval, handed>>
    BY <1>9 DEF SettleDecision, Idle
  <2>2. CASE status[r] # "waiting_approval" /\ Done(w) /\ UNCHANGED status
    <3>1. Quieting /\ Settling BY <2>2, DoneQuiet DEF Settling
    <3>. QED BY <2>1, <3>1, QuietContract
  <2>3. CASE status[r] = "waiting_approval" /\ RefuseParked(w, r)
    <3>1. Quieting BY <2>3, DoneQuiet DEF RefuseParked
    <3>2. Settling BY <2>3 DEF RefuseParked, Settling, TypeOK
    <3>. QED BY <2>1, <3>1, <3>2, QuietContract
  <2>4. CASE /\ status[r] = "waiting_approval" /\ approval[r] = "approved"
             /\ Resume(w, r)
    <3>1. status' = [status EXCEPT ![r] = "running"] BY <2>4 DEF Resume
    <3>2. CASE Goto(w, "unable")
      <4>1. Quieting /\ Settling
        BY <2>4, <3>1, <3>2, GotoQuiet DEF Settling, TypeOK
      <4>. QED BY <2>1, <4>1, QuietContract
    <3>3. ASSUME NEW l \in {"lease", "perform"}, Goto(w, l)
          PROVE  Contract!Next \/ UNCHANGED Contract!vars
      <4>1. OnlyRun(r) BY <2>1, <3>1, <3>3 DEF OnlyRun, Goto, TypeOK, Idle
      <4>2. ConsentOf[r] = "approved" /\ ConsentOf'[r] = "approved"
        BY <1>0, <2>1, <2>4, PermitIs, PermitIsNext
      <4>3. ConsentOf' = ConsentOf BY <2>1, <3>3, <4>1, <4>2, OnlyRunMoves, MappingTyped
      <4>4. PermitOf[r] = "unissued"
        BY <2>1, <2>4, <3>3, <4>1, DriverContract DEF PCs
      <4>5. CASE l = "lease"
        BY <2>1, <3>3, <4>1, <4>3, <4>4, <4>5, DriverContract, MappingTyped
           DEF Contract!vars, PCs
      <4>6. CASE l = "perform"
        <5>1. PermitOf' = [PermitOf EXCEPT ![r] = "held"]
          BY <2>1, <3>3, <4>1, <4>6, DriverContract DEF PCs
        <5>2. Contract!Issue(r) BY <4>2, <4>3, <4>4, <5>1 DEF Contract!Issue
        <5>. QED BY <5>2 DEF Contract!Next
      <4>. QED BY <3>3, <4>5, <4>6
    <3>. QED BY <2>4, <3>2, <3>3 DEF Resume
  <2>. QED BY <1>9, <2>2, <2>3, <2>4 DEF SettleDecision
<1>10. CASE \/ RefuseToday(w) \/ StopBeforeGate(w) \/ Reread(w) \/ Settle(w)
            \/ LeaveOpen(w) \/ ProviderThrew(w) \/ Leave(w) \/ NoResumer(w)
  BY <1>10, LettingGoQuiet, QuietContract DEF Quiet
<1>. QED
  BY <1>1, <1>2, <1>3, <1>4, <1>5, <1>6, <1>7, <1>8, <1>9, <1>10 DEF Step

\* Every step of the system is a step of the contract or leaves it alone.
LEMMA NextContract ==
  ASSUME TypeOK, TypeOK', IInv, IInv', [Next]_vars
  PROVE  [Contract!Next]_(Contract!vars)
<1>1. CASE UNCHANGED vars
  <2>1. Settling /\ Quieting /\ UNCHANGED <<handed, approval>>
    BY <1>1, StillQuiet DEF vars, Settling
  <2>. QED BY <2>1, QuietContract
<1>2. ASSUME NEW w \in Workers, Step(w)
      PROVE  Contract!Next \/ UNCHANGED Contract!vars
  <2>1. ~Idle(w)
    BY <1>2 DEF Step, BeginDelivery, RefuseToday, Claim, EnterLease, StopBeforeGate,
       AskPolicy, Park, Reread, Perform, HandOver, Settle, LeaveOpen, ProviderThrew,
       Leave, Poll, SettleDecision, NoResumer, Idle
  <2>2. job[w].run \in Runs BY <2>1, BusyHasRun
  <2>. QED BY <1>2, <2>2, StepContract
<1>3. ASSUME NEW w \in Workers,
             \/ Take(w) \/ Heartbeat(w) \/ Abandon(w)
             \/ \E r \in Runs : TakeDelivery(w, r)
      PROVE  Contract!Next \/ UNCHANGED Contract!vars
  BY <1>3, TakeContract, OutsideQuiet, QuietContract DEF Quiet
<1>4. ASSUME NEW r \in Runs,
             \/ StartTask(r) \/ OpenExternal(r) \/ Sweep(r) \/ LeaseExpires(r)
             \/ RequestCancel(r)
             \/ \E d \in {"approved", "rejected"} : Decide(r, d)
             \/ \E o \in {"success", "failed", "needs_attention", "cancelled"} :
                  AgentFinishes(r, o)
             \/ \E s \in Reports : RecordRun(r, s)
      PROVE  Contract!Next \/ UNCHANGED Contract!vars
  BY <1>4, AnswerContract, BirthContract, OutsideQuiet, QuietContract DEF Quiet, Sweep
<1>5. ASSUME Reap \/ \E p \in Procs : Crash(p)
      PROVE  Contract!Next \/ UNCHANGED Contract!vars
  BY <1>5, OutsideQuiet, QuietContract DEF Quiet
<1>. QED BY <1>1, <1>2, <1>3, <1>4, <1>5 DEF Next

\* Whatever crashes, retries, zombies, lost jobs and late decisions do, the executors, the
\* queue and the sweeps together keep the contract of RunContract.
THEOREM ImplementsContract == Spec => KeepsContract
<1>1. Init => Contract!Init BY InitContract
<1>2. /\ TypeOK /\ IInv /\ TypeOK' /\ IInv' /\ [Next]_vars
      => [Contract!Next]_(Contract!vars)
  BY NextContract
<1>. QED BY <1>1, <1>2, Invariant, PTL DEF Spec, KeepsContract, Contract!Spec
=============================================================================
