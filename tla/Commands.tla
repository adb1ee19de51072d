------------------------------ MODULE Commands ------------------------------
(***************************************************************************)
(* What is said to the control plane itself (answers.ts): a question, or a *)
(* command to start a task, to stop what runs, to approve or to reject.    *)
(* The message is answered by the request that brought it; a task run that *)
(* it started may end before that answer is written, or long after it, and *)
(* then the message is to follow the run.  A run is named by the message   *)
(* that started it.  How it is claimed, parked and resumed is modelled in  *)
(* RunLifecycle; here a run has one job at a time.                         *)
(***************************************************************************)
EXTENDS Naturals, FiniteSets

CONSTANTS
  Messages,
  Actions,   \* of "ask", "run", "stop", "approve", "reject"
  Engines,   \* the job queue: "inline" awaits a job's handler, "boss" does not
  Policies,  \* what policyFor answers for run_task: "auto" or "ask"
  NoMessage

VARIABLES
  engine, policy,
  action,    \* [Messages -> what it asks for, "none" until it is posted]
  row,       \* messages.status
  pc,        \* where its handler (handleControl) is
  said,      \* the status of its Answer
  picked,    \* the run whose approval an approve or reject has picked
  toStop,    \* the running runs a stop has listed and not reached yet
  run,       \* runs.status
  cancel,    \* the runs with cancel_requested
  approval,  \* [Messages -> the approval of its run]
  at,        \* where the job of its run is
  resumed,   \* the runs that go on after an approval
  outcome,   \* what the job is about to end its run with
  seen,      \* the row as the snapshot of the steps has read it
  reaper,    \* where the reaper is with its run
  crossed    \* messages whose row was written back over a newer status

handler == <<action, pc, said, picked, toStop>>
job     == <<approval, at, resumed, outcome, seen>>
vars == <<engine, policy, handler, row, run, cancel, job, reaper, crossed>>

Settled == {"success", "failed", "cancelled", "timed_out"}
Final == {"done", "delivered", "failed"}
AtRest == {"none", "parked", "open", "lost", "over"}

TypeOK ==
  /\ engine \in Engines /\ policy \in Policies
  /\ action \in [Messages -> Actions \cup {"none"}]
  /\ row \in [Messages -> {"none", "needs_assignment", "delivered", "done", "failed", "cancelled"}]
  /\ pc \in [Messages -> {"idle", "posted", "taken", "starting", "held", "deciding", "stopping",
                          "speaking", "over"}]
  /\ said \in [Messages -> Final \cup {"none"}]
  /\ picked \in [Messages -> Messages \cup {NoMessage}] /\ toStop \in [Messages -> SUBSET Messages]
  /\ run \in [Messages -> Settled \cup {"none", "queued", "running", "waiting_approval"}]
  /\ cancel \subseteq Messages /\ resumed \subseteq Messages /\ crossed \subseteq Messages
  /\ approval \in [Messages -> {"none", "pending", "approved", "rejected", "expired"}]
  /\ at \in [Messages -> AtRest \cup {"due", "gate", "resume", "refuse", "refusing", "perform", "end",
                                      "snapshot", "finish", "ended", "telling"}]
  /\ outcome \in [Messages -> Settled \cup {"none"}]
  /\ seen \in [Messages -> {"none", "needs_assignment", "delivered", "done", "failed", "cancelled"}]
  /\ reaper \in [Messages -> {"none", "look", "tell"}]

Init ==
  /\ engine \in Engines /\ policy \in Policies
  /\ action = [m \in Messages |-> "none"] /\ row = [m \in Messages |-> "none"]
  /\ pc = [m \in Messages |-> "idle"] /\ said = [m \in Messages |-> "none"]
  /\ picked = [m \in Messages |-> NoMessage] /\ toStop = [m \in Messages |-> {}]
  /\ run = [m \in Messages |-> "none"] /\ cancel = {} /\ approval = [m \in Messages |-> "none"]
  /\ at = [m \in Messages |-> "none"] /\ resumed = {} /\ outcome = [m \in Messages |-> "none"]
  /\ seen = [m \in Messages |-> "none"] /\ reaper = [m \in Messages |-> "none"] /\ crossed = {}

Has(f, m, v) == f' = [f EXCEPT ![m] = v]
Given == UNCHANGED <<engine, policy>>
Runs == UNCHANGED <<run, cancel, job, reaper>>

----------------------------------------------------------------------------
(* The message and its handler                                             *)

\* createMessage, then classifyIntent.
Post(m) ==
  /\ pc[m] = "idle"
  /\ \E a \in Actions : Has(action, m, a)
  /\ Has(row, m, "needs_assignment") /\ Has(pc, m, "posted")
  /\ UNCHANGED <<said, picked, toStop, crossed>> /\ Runs /\ Given

Take(m) ==
  /\ pc[m] = "posted"
  /\ Has(row, m, "delivered") /\ Has(pc, m, "taken")
  /\ UNCHANGED <<action, said, picked, toStop, crossed>> /\ Runs /\ Given

Says(m, s) == Has(pc, m, "speaking") /\ Has(said, m, s)

\* A question, or a target that names no task, no approval and no run, or a task that
\* cannot be started from here (TaskStartError).
Answered(m) ==
  /\ pc[m] = "taken" /\ Says(m, "done")
  /\ UNCHANGED <<action, row, picked, toStop, crossed>> /\ Runs /\ Given

Throws(m) ==
  /\ pc[m] = "taken"
  /\ Has(row, m, "failed") /\ Has(pc, m, "over")
  /\ UNCHANGED <<action, said, picked, toStop, crossed>> /\ Runs /\ Given

\* startTask: the run is born queued and its job is sent.
StartTask(m) ==
  /\ pc[m] = "taken" /\ action[m] = "run"
  /\ Has(run, m, "queued") /\ Has(at, m, "due") /\ Has(pc, m, "held")
  /\ UNCHANGED <<action, row, said, picked, toStop, cancel, approval, resumed, outcome, seen, reaper,
                 crossed>>
  /\ Given

\* An inline send comes back when the handler of its job does.
Sent(r) == engine = "boss" \/ at[r] \in AtRest

Verdict(s) == CASE s = "running" -> "delivered" [] s \in {"success", "cancelled"} -> "done" [] OTHER -> "failed"

Look(m) ==
  /\ pc[m] = "held" /\ action[m] = "run" /\ Sent(m)
  /\ Says(m, Verdict(run[m]))
  /\ UNCHANGED <<action, row, picked, toStop, crossed>> /\ Runs /\ Given

Pick(m) ==
  /\ pc[m] = "taken" /\ action[m] \in {"approve", "reject"}
  /\ \E r \in Messages : approval[r] = "pending" /\ Has(picked, m, r)
  /\ Has(pc, m, "deciding")
  /\ UNCHANGED <<action, row, said, toStop, crossed>> /\ Runs /\ Given

\* decide, of which the command does not ask whether it was in time.
Decides(r, d) ==
  /\ Has(approval, r, d) /\ Has(at, r, "resume")
  /\ UNCHANGED <<run, cancel, resumed, outcome, seen, reaper>>

Decide(m) ==
  /\ pc[m] = "deciding"
  /\ IF approval[picked[m]] = "pending"
       THEN Decides(picked[m], IF action[m] = "approve" THEN "approved" ELSE "rejected")
       ELSE Runs
  /\ Has(pc, m, "held")
  /\ UNCHANGED <<action, row, said, picked, toStop, crossed>> /\ Given

Decided(m) ==
  /\ pc[m] = "held" /\ action[m] \in {"approve", "reject"} /\ Sent(picked[m])
  /\ Says(m, "done") /\ Has(picked, m, NoMessage)
  /\ UNCHANGED <<action, row, toStop, crossed>> /\ Runs /\ Given

\* The runs that run and match the words, and then a flag on each.
List(m) ==
  /\ pc[m] = "taken" /\ action[m] = "stop"
  /\ \E rs \in SUBSET {r \in Messages : run[r] = "running"} \ {{}} : Has(toStop, m, rs)
  /\ Has(pc, m, "stopping")
  /\ UNCHANGED <<action, row, said, picked, crossed>> /\ Runs /\ Given

StopOne(m) ==
  /\ pc[m] = "stopping"
  /\ \E r \in toStop[m] :
       /\ cancel' = cancel \cup {r} /\ Has(toStop, m, toStop[m] \ {r})
       /\ IF toStop[m] = {r} THEN Says(m, "done") ELSE UNCHANGED <<pc, said>>
  /\ UNCHANGED <<action, row, picked, run, job, reaper, crossed>> /\ Given

\* The answer is worded, which may take its time, and the row written.
Record(m) ==
  /\ pc[m] = "speaking"
  /\ Has(row, m, said[m]) /\ Has(pc, m, "over")
  /\ crossed' = IF row[m] # "delivered" THEN crossed \cup {m} ELSE crossed
  /\ UNCHANGED <<action, said, picked, toStop>> /\ Runs /\ Given

----------------------------------------------------------------------------
(* The run                                                                 *)

Handlers == UNCHANGED <<handler, cancel>> /\ Given

Claim(r) ==
  /\ at[r] = "due"
  /\ Has(run, r, "running") /\ Has(at, r, "gate")
  /\ UNCHANGED <<row, approval, resumed, outcome, seen, reaper, crossed>> /\ Handlers

EndsWith(r, o) == Has(at, r, "end") /\ Has(outcome, r, o)

Gate(r) ==
  /\ at[r] = "gate"
  /\ \/ r \in cancel /\ EndsWith(r, "cancelled") /\ UNCHANGED <<run, approval>>
     \/ r \notin cancel /\ policy = "auto" /\ Has(at, r, "perform") /\ UNCHANGED <<run, approval, outcome>>
     \/ /\ r \notin cancel /\ policy = "ask" /\ run[r] = "running"
        /\ Has(run, r, "waiting_approval") /\ Has(approval, r, "pending") /\ Has(at, r, "parked")
        /\ UNCHANGED outcome
  /\ UNCHANGED <<row, resumed, seen, reaper, crossed>> /\ Handlers

\* The buttons of the thread, or the sweep once it has waited too long.
DecidedElsewhere(r) ==
  /\ approval[r] = "pending"
  /\ \E d \in {"approved", "rejected", "expired"} : Decides(r, d)
  /\ UNCHANGED <<handler, row, crossed>> /\ Given

\* settleDecision.
Resume(r) ==
  /\ at[r] = "resume"
  /\ IF approval[r] = "approved"
       THEN /\ Has(run, r, "running") /\ resumed' = resumed \cup {r} /\ Has(at, r, "perform")
            /\ UNCHANGED outcome
       ELSE /\ Has(outcome, r, IF approval[r] = "rejected" THEN "cancelled" ELSE "timed_out")
            /\ Has(at, r, "refuse") /\ UNCHANGED <<run, resumed>>
  /\ UNCHANGED <<row, approval, seen, reaper, crossed>> /\ Handlers

\* finishParked: the message first, then the run.
RefuseRow(r) ==
  /\ at[r] = "refuse"
  /\ Has(row, r, "cancelled") /\ Has(at, r, "refusing")
  /\ UNCHANGED <<run, approval, resumed, outcome, seen, reaper, crossed>> /\ Handlers

Refuse(r) ==
  /\ at[r] = "refusing"
  /\ Has(run, r, outcome[r]) /\ Has(at, r, "ended")
  /\ UNCHANGED <<row, approval, resumed, outcome, seen, reaper, crossed>> /\ Handlers

\* performTaskStart: a Stop before its step is thrown, and only a resumed run is ended for it.
Perform(r) ==
  /\ at[r] = "perform"
  /\ \/ r \in cancel /\ r \notin resumed /\ Has(at, r, "lost") /\ UNCHANGED outcome
     \/ r \in cancel /\ r \in resumed /\ EndsWith(r, "failed")
     \/ r \notin cancel /\ \E o \in {"success", "failed"} : EndsWith(r, o)
     \/ r \notin cancel /\ Has(at, r, "open") /\ UNCHANGED outcome
  /\ UNCHANGED <<row, run, approval, resumed, seen, reaper, crossed>> /\ Handlers

\* The agent reports that a run left open has ended.
Report(r) ==
  /\ at[r] = "open"
  /\ \E o \in {"success", "failed", "cancelled"} : EndsWith(r, o)
  /\ UNCHANGED <<row, run, approval, resumed, seen, reaper, crossed>> /\ Handlers

----------------------------------------------------------------------------
(* endRun: a snapshot of the steps, the guarded outcome, the hook          *)

EndRun(r) ==
  /\ at[r] = "end"
  /\ IF run[r] = "running"
       THEN Has(seen, r, row[r]) /\ Has(at, r, "snapshot")
       ELSE Has(at, r, "over") /\ UNCHANGED seen
  /\ UNCHANGED <<row, run, approval, resumed, outcome, reaper, crossed>> /\ Handlers

Snapshot(r) ==
  /\ at[r] = "snapshot"
  /\ Has(row, r, seen[r]) /\ Has(seen, r, "none") /\ Has(at, r, "finish")
  /\ crossed' = IF seen[r] # row[r] THEN crossed \cup {r} ELSE crossed
  /\ UNCHANGED <<run, approval, resumed, outcome, reaper>> /\ Handlers

\* Mutant of Finish: the run ends and its hooks are not called.
FinishUnheard(r) ==
  /\ at[r] = "finish" /\ Has(at, r, "over")
  /\ IF run[r] = "running" THEN Has(run, r, outcome[r]) ELSE UNCHANGED run
  /\ UNCHANGED <<row, approval, resumed, outcome, seen, reaper, crossed>> /\ Handlers

Finish(r) ==
  /\ at[r] = "finish"
  /\ IF run[r] = "running"
       THEN Has(run, r, outcome[r]) /\ Has(at, r, "ended")
       ELSE Has(at, r, "over") /\ UNCHANGED run
  /\ UNCHANGED <<row, approval, resumed, outcome, seen, reaper, crossed>> /\ Handlers

\* settleCommandMessage: only a message that still waits for its run follows it.
Waits(m) == row[m] = "delivered"

Follow(r) ==
  /\ at[r] = "ended"
  /\ Has(at, r, IF Waits(r) THEN "telling" ELSE "over")
  /\ UNCHANGED <<row, run, approval, resumed, outcome, seen, reaper, crossed>> /\ Handlers

Told(s) == CASE s = "success" -> "done" [] s = "cancelled" -> "cancelled" [] OTHER -> "failed"

Tell(r) ==
  /\ at[r] = "telling"
  /\ Has(row, r, Told(run[r])) /\ Has(at, r, "over")
  /\ UNCHANGED <<run, approval, resumed, outcome, seen, reaper, crossed>> /\ Handlers

\* The reaper fails a run left behind, and the message that waits for it.
Reap(r) ==
  /\ run[r] = "running" /\ at[r] \in {"open", "lost", "end", "snapshot", "finish"}
  /\ Has(run, r, "failed") /\ Has(reaper, r, "look")
  /\ Has(at, r, IF at[r] \in {"open", "lost"} THEN "over" ELSE at[r])
  /\ UNCHANGED <<row, approval, resumed, outcome, seen, crossed>> /\ Handlers

ReapRow(r) ==
  /\ \/ reaper[r] = "look" /\ Has(reaper, r, IF Waits(r) THEN "tell" ELSE "none") /\ UNCHANGED row
     \/ reaper[r] = "tell" /\ Has(reaper, r, "none") /\ Has(row, r, "failed")
  /\ UNCHANGED <<run, job, crossed>> /\ Handlers

Next ==
  \E m \in Messages :
    \/ Post(m) \/ Take(m) \/ Answered(m) \/ Throws(m) \/ StartTask(m) \/ Look(m) \/ Pick(m)
    \/ Decide(m) \/ Decided(m) \/ List(m) \/ StopOne(m) \/ Record(m)
    \/ Claim(m) \/ Gate(m) \/ DecidedElsewhere(m) \/ Resume(m) \/ RefuseRow(m) \/ Refuse(m)
    \/ Perform(m) \/ Report(m) \/ EndRun(m) \/ Snapshot(m) \/ Finish(m) \/ Follow(m) \/ Tell(m)
    \/ Reap(m) \/ ReapRow(m)

Spec == Init /\ [][Next]_vars

----------------------------------------------------------------------------
(* Properties                                                              *)

Still(m) == pc[m] = "over" /\ at[m] = "over" /\ reaper[m] = "none"

Outcomes(s) ==
  CASE s = "success" -> {"done"} [] s = "cancelled" -> {"cancelled"}
    [] s = "timed_out" -> {"cancelled", "failed"} [] OTHER -> {"failed"}

\* A message that was told its task runs reads in the end as its run has ended, whoever ended
\* it and however early: the agent's report, a rejection, Stop or the reaper, while the answer
\* is still being worded or hours later (handleControl, endRun, settleCommandMessage).  The
\* exception is a row written back over a newer status.
FollowsItsRun ==
  \A m \in Messages \ crossed :
    Still(m) /\ said[m] = "delivered" /\ run[m] \in Settled => row[m] \in Outcomes(run[m])

\* "When a task run started by a command finishes later, the message that asked for it
\* follows" (answers.ts): the message of a run that succeeded does not read failed.
CommandFollowsItsRun ==
  \A m \in Messages \ crossed : Still(m) /\ run[m] = "success" => row[m] = "done"
=============================================================================
