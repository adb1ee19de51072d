------------------------------ MODULE Delivery ------------------------------
(***************************************************************************)
(* A message and the runs that carry it: sent to an AI's chat, posted to   *)
(* an agent's webhook, or held for an agent that polls its inbox.          *)
(*                                                                         *)
(* The message row is written by everybody: deliver jobs, resumed runs,    *)
(* people, agents, the reaper and the stuck-delivery sweep.  updateMessage *)
(* reads the row and writes every column back, so each write here is two   *)
(* steps, and what another activity wrote in between is undone.  A run is  *)
(* seen from its message: gate, park and decision are single steps here    *)
(* and are taken apart in RunLifecycle.                                    *)
(***************************************************************************)
EXTENDS RunStatus, Naturals, FiniteSets

CONSTANTS
  Messages,
  Workers,        \* activities at once: job handlers, requests, sweeps
  Modes,          \* how messages travel, a subset of chat, webhook, inbox
  MaxRuns,        \* bound: runs begun
  MaxDeliveries,  \* retryLimit + 1 of a deliver queue (3 in the code)
  MaxAttempts,    \* MAX_DELIVERY_ATTEMPTS of the sweep (3 in the code)
  MaxRequests,    \* bound: requests of people and agents
  MaxFaults,      \* bound: process deaths and abandoned handlers
  NoMsg, NoJob, Unread

Runs  == 1..MaxRuns
NoRun == 0

\* A send of a person has no singleton key; a re-send of the sweep has one.
Jobs == [msg : Messages, how : {"send"}, n : 1..MaxRequests]
   \cup [msg : Messages, how : {"redeliver"}, n : 1..MaxAttempts]

MessageStatus == {"needs_assignment", "assigned", "delivered", "acknowledged",
                  "done", "failed", "cancelled"}
Settled == {"done", "failed", "cancelled"}

\* The columns of a message that steer its delivery: routing is tries and headed (it
\* has a destination), inbox is delivery_mode.
Row == [status : MessageStatus, run : Runs \cup {NoRun}, tries : 0..MaxAttempts,
        headed : BOOLEAN, inbox : BOOLEAN]

ASSUME ModesAssumption == Modes \subseteq {"chat", "webhook", "inbox"}
ASSUME BoundsAssumption ==
  /\ MaxRuns \in Nat /\ MaxDeliveries \in Nat \ {0} /\ MaxAttempts \in Nat
  /\ MaxRequests \in Nat /\ MaxFaults \in Nat
ASSUME SentinelAssumption == NoMsg \notin Messages /\ NoJob \notin Jobs /\ Unread \notin Row

VARIABLES
  mode,      \* how each message travels
  row,       \* messages
  status,    \* runs.status, "none" before the row exists
  owner,     \* runs.message_id
  decision,  \* the approval of each run: none, pending, approved, refused
  left,      \* deliveries the queue may still make of each job
  act,       \* what each activity is doing
  seen,      \* the row each activity has read and will write back
  asked,     \* requests so far
  faults,    \* process deaths so far
  heard,     \* how often each run's message reached its provider or agent
  vouched    \* the messages an agent or a person reported done

vars == <<mode, row, status, owner, decision, left, act, seen, asked, faults,
          heard, vouched>>
runVars == <<status, owner, decision>>

----------------------------------------------------------------------------
(* Activities *)

\* Where it is; the message and run it is about; the job it was given; the outcome it
\* brings; where it goes after endRun; the job it will send; whether it holds the lease.
Nothing == [at |-> "idle", msg |-> NoMsg, run |-> NoRun, job |-> NoJob, out |-> "none",
            then |-> "done", post |-> NoJob, leased |-> FALSE]

Free(w) == act[w] = Nothing
At(w, l) == act[w].at = l
Begins(w, a) == Free(w) /\ act' = [act EXCEPT ![w] = a]
Goto(w, l) == act' = [act EXCEPT ![w].at = l]

\* It goes on to close its run with outcome o, and then to l.
Closes(w, o, l) == act' = [act EXCEPT ![w].at = "end", ![w].out = o, ![w].then = l]

Sent(j) == [left EXCEPT ![j] = IF @ = 0 THEN MaxDeliveries ELSE @]
Minus(n) == IF n = 0 THEN 0 ELSE n - 1

\* How a run ends when its message ends so, and the reverse as the sweep has it.
Outcome(o) == CASE o = "done" -> "success"
                [] o \in {"failed", "busy"} -> "failed"
                [] OTHER -> o

\* Mutant of MessageOf: whatever did not fail is done.
DoneUnlessFailed(s) == IF s = "failed" THEN "failed" ELSE "done"

MessageOf(s) == CASE s = "success" -> "done"
                  [] s \in {"cancelled", "timed_out"} -> "cancelled"
                  [] OTHER -> "failed"

----------------------------------------------------------------------------
(* updateMessage *)

UpdateAt == {"choose", "hand", "unroute", "overquota", "full", "assign", "point", "hold",
             "parked", "deliver", "posted", "snapshot", "settle", "busy", "refuse",
             "mourn", "repair", "redeliver", "giveup", "report", "fetch"}

\* The status an update sets, or leaves.
StatusSet(a, s) ==
  CASE a.at \in {"hand", "assign", "hold", "parked", "busy"} -> "assigned"
    [] a.at \in {"deliver", "posted", "fetch"} -> "delivered"
    [] a.at = "unroute" -> "needs_assignment"
    [] a.at \in {"choose", "full", "point", "snapshot", "redeliver"} -> s
    [] OTHER -> a.out

\* The row that update a makes of the row x.
Patched(a, x) ==
  [status |-> StatusSet(a, x.status),
   run    |-> IF a.at \in {"assign", "point"} THEN a.run ELSE x.run,
   tries  |-> CASE a.at \in {"choose", "unroute"} -> 0
                [] a.at = "redeliver" -> a.post.n
                [] OTHER -> x.tries,
   headed |-> a.at # "unroute" /\ (a.at \in {"choose", "hand"} \/ x.headed),
   inbox  |-> a.at # "unroute" /\ (a.at = "hold" \/ x.inbox)]

\* Where an activity goes after its update.
After(a, x) ==
  CASE a.at \in {"choose", "hand", "redeliver"} -> "send"
    [] a.at = "assign" -> "gate"
    [] a.at = "point" -> IF mode[a.msg] = "inbox" THEN "hold" ELSE "gate"
    [] a.at = "deliver" -> "call"
    [] a.at = "snapshot" -> "finish"
    [] a.at = "refuse" -> "unpark"
    [] a.at \in {"full", "busy"} -> "threw"
    [] a.at = "report" /\ a.out \in {"done", "failed"} /\ x.run # NoRun -> "end"
    [] OTHER -> "done"

Read(w) ==
  /\ act[w].at \in UpdateAt /\ seen[w] = Unread
  /\ seen' = [seen EXCEPT ![w] = row[act[w].msg]]
  /\ UNCHANGED <<mode, row, runVars, left, act, asked, faults, heard, vouched>>

Write(w) == LET a == act[w]
                x == Patched(a, seen[w]) IN
  /\ a.at \in UpdateAt /\ seen[w] # Unread
  /\ row' = [row EXCEPT ![a.msg] = x]
  /\ seen' = [seen EXCEPT ![w] = Unread]
  /\ act' = [act EXCEPT ![w].at = After(a, x),
                        ![w].run = IF a.at = "report" THEN x.run ELSE @]
  /\ UNCHANGED <<mode, runVars, left, asked, faults, heard, vouched>>

----------------------------------------------------------------------------
(* People and agents *)

Init ==
  /\ mode \in [Messages -> Modes]
  /\ row = [m \in Messages |-> [status |-> "needs_assignment", run |-> NoRun, tries |-> 0,
                                headed |-> FALSE, inbox |-> FALSE]]
  /\ status = [r \in Runs |-> "none"]
  /\ owner = [r \in Runs |-> NoMsg]
  /\ decision = [r \in Runs |-> "none"]
  /\ left = [j \in Jobs |-> 0]
  /\ act = [w \in Workers |-> Nothing]
  /\ seen = [w \in Workers |-> Unread]
  /\ asked = 0 /\ faults = 0
  /\ heard = [r \in Runs |-> 0]
  /\ vouched = {}

Request == asked < MaxRequests /\ asked' = asked + 1

\* POST /chat, /chat/:id/send: the routing names an AI.  POST /messages, /messages/:id/assign
\* and retry: assignAndDeliver.  Then the deliver job is sent.
Choose(w, m) ==
  /\ Request
  /\ Begins(w, [Nothing EXCEPT !.at = IF mode[m] = "chat" THEN "choose" ELSE "hand",
                  !.msg = m, !.post = [msg |-> m, how |-> "send", n |-> asked + 1]])
  /\ UNCHANGED <<mode, row, runVars, left, seen, faults, heard, vouched>>

\* POST /messages/:id/reroute, to a routing that is not sure enough to be sent on.
Unroute(w, m) ==
  /\ Request /\ mode[m] # "chat"
  /\ Begins(w, [Nothing EXCEPT !.at = "unroute", !.msg = m])
  /\ UNCHANGED <<mode, row, runVars, left, seen, faults, heard, vouched>>

\* GET /inbox: what is held is marked as delivered.  The answer is made of promises nobody
\* awaits, so the agent does not hear the text.
Fetch(w, m) ==
  /\ Request /\ row[m].inbox /\ row[m].status = "assigned"
  /\ Begins(w, [Nothing EXCEPT !.at = "fetch", !.msg = m])
  /\ UNCHANGED <<mode, row, runVars, left, seen, faults, heard, vouched>>

\* POST /inbox/:id/ack, /messages/:id/status
Report(w, m, o) ==
  /\ Request
  /\ Begins(w, [Nothing EXCEPT !.at = "report", !.msg = m, !.out = o])
  /\ vouched' = IF o = "done" THEN vouched \cup {m} ELSE vouched
  /\ UNCHANGED <<mode, row, runVars, left, seen, faults, heard>>

\* POST /runs/:id/finish: the run, not the message, is reported on.
FinishRun(w, r, o) ==
  /\ Request /\ status[r] = "running"
  /\ Begins(w, [Nothing EXCEPT !.at = "end", !.msg = owner[r], !.run = r, !.out = o])
  /\ vouched' = IF o = "done" THEN vouched \cup {owner[r]} ELSE vouched
  /\ UNCHANGED <<mode, row, runVars, left, seen, faults, heard>>

\* A person decides, a Stop withdraws, or the request times out.
Decide(r, d) ==
  /\ decision[r] = "pending"
  /\ decision' = [decision EXCEPT ![r] = d]
  /\ UNCHANGED <<mode, row, status, owner, left, act, seen, asked, faults, heard, vouched>>

Send(w) ==
  /\ At(w, "send")
  /\ left' = Sent(act[w].post)
  /\ Goto(w, "done")
  /\ UNCHANGED <<mode, row, runVars, seen, asked, faults, heard, vouched>>

----------------------------------------------------------------------------
(* Deliver jobs *)

\* deliveryAlreadyHandled: the run the message row names is alive, or succeeded.
AlreadyHandled(m) ==
  /\ row[m].run # NoRun
  /\ status[row[m].run] \in ACTIVE_RUN_STATUSES \cup {"success"}

Deliverable(j) == left[j] > 0 /\ ~\E v \in Workers : act[v].job = j

TakeDelivery(w, j) ==
  /\ Deliverable(j)
  /\ \/ /\ ~AlreadyHandled(j.msg)
        /\ Begins(w, [Nothing EXCEPT !.at = "begin", !.msg = j.msg, !.job = j])
        /\ UNCHANGED left
     \/ /\ AlreadyHandled(j.msg)
        /\ left' = [left EXCEPT ![j] = 0]
        /\ UNCHANGED act
  /\ UNCHANGED <<mode, row, runVars, seen, asked, faults, heard, vouched>>

\* gateDeliveryQuota: the day is used up, or too many runs are active; a provider or a
\* task that is gone throws.
Quota(w) ==
  /\ At(w, "begin")
  /\ \/ Goto(w, "full") \/ Goto(w, "threw")
     \/ act' = [act EXCEPT ![w].at = "overquota", ![w].out = "failed"]
  /\ UNCHANGED <<mode, row, runVars, left, seen, asked, faults, heard, vouched>>

\* There is room: beginRun inserts the run, to be held under a lease from now on.
Begin(w) == LET m == act[w].msg IN
  /\ At(w, "begin")
  /\ \E r \in Runs :
       /\ status[r] = "none" /\ \A s \in 1..(r - 1) : status[s] # "none"
       /\ status' = [status EXCEPT ![r] = "running"]
       /\ owner' = [owner EXCEPT ![r] = m]
       /\ act' = [act EXCEPT ![w].run = r, ![w].leased = TRUE, ![w].at = "link"]
  /\ UNCHANGED <<mode, row, decision, left, seen, asked, faults, heard, vouched>>

\* startRun points the message at its run, in a statement of its own.
Link(w) == LET m == act[w].msg IN
  /\ At(w, "link")
  /\ row' = [row EXCEPT ![m].run = act[w].run]
  /\ Goto(w, IF mode[m] = "chat" THEN "assign" ELSE "point")
  /\ UNCHANGED <<mode, runVars, left, seen, asked, faults, heard, vouched>>

\* guard: the policy lets it pass, or the run is parked and the handler leaves.  A task
\* whose webhook is gone fails first.
Gate(w) == LET a == act[w] IN
  /\ At(w, "gate")
  /\ \/ /\ Goto(w, IF mode[a.msg] = "chat" THEN "perform" ELSE "post")
        /\ UNCHANGED <<status, decision>>
     \/ /\ status' = [status EXCEPT ![a.run] = IF @ = "running" THEN "waiting_approval" ELSE @]
        /\ decision' = [decision EXCEPT ![a.run] = IF status[a.run] = "running"
                                                   THEN "pending" ELSE "refused"]
        /\ Goto(w, IF mode[a.msg] = "chat" THEN "done" ELSE "parked")
     \/ /\ mode[a.msg] = "webhook"
        /\ Closes(w, "failed", "settle")
        /\ UNCHANGED <<status, decision>>
  /\ UNCHANGED <<mode, row, owner, left, seen, asked, faults, heard, vouched>>

\* performChatSend up to the send: signed in, not so, or the session is elsewhere.
Perform(w) ==
  /\ At(w, "perform")
  /\ Goto(w, "deliver") \/ Closes(w, "failed", "settle") \/ Closes(w, "busy", "busy")
  /\ UNCHANGED <<mode, row, runVars, left, seen, asked, faults, heard, vouched>>

Hears(w) == heard' = [heard EXCEPT ![act[w].run] = @ + 1]

\* sendMessage: the provider hears it, or the call ends before it does.
Call(w) ==
  /\ At(w, "call")
  /\ \/ Hears(w) /\ Goto(w, "answer")
     \/ /\ UNCHANGED heard
        /\ \/ \E o \in {"failed", "cancelled"} : Closes(w, o, "settle")
           \/ Closes(w, "busy", "busy")
  /\ UNCHANGED <<mode, row, runVars, left, seen, asked, faults, vouched>>

Answer(w) ==
  /\ At(w, "answer")
  /\ \E o \in {"done", "failed", "cancelled"} : Closes(w, o, "settle")
  /\ UNCHANGED <<mode, row, runVars, left, seen, asked, faults, heard, vouched>>

\* performWebhookDeliver: accepted, and the run stays open for the agent's report; or
\* refused, perhaps after the agent had it.
Post(w) ==
  /\ At(w, "post")
  /\ \/ Hears(w) /\ Goto(w, "posted")
     \/ (Hears(w) \/ UNCHANGED heard) /\ Closes(w, "failed", "settle")
  /\ UNCHANGED <<mode, row, runVars, left, seen, asked, faults, vouched>>

\* endRun looks first; a run that is not running any more is left alone.
End(w) ==
  /\ At(w, "end")
  /\ Goto(w, IF status[act[w].run] = "running" THEN "snapshot" ELSE act[w].then)
  /\ UNCHANGED <<mode, row, runVars, left, seen, asked, faults, heard, vouched>>

\* finishRun
Finish(w) == LET a == act[w] IN
  /\ At(w, "finish")
  /\ status' = [status EXCEPT ![a.run] = IF @ = "running" THEN Outcome(a.out) ELSE @]
  /\ Goto(w, a.then)
  /\ UNCHANGED <<mode, row, owner, decision, left, seen, asked, faults, heard, vouched>>

\* The handler returns or throws; a job it no longer holds is not its business.
Return(w) == LET j == act[w].job IN
  /\ act[w].at \in {"done", "threw"}
  /\ act' = [act EXCEPT ![w] = Nothing]
  /\ left' = IF j = NoJob THEN left
             ELSE [left EXCEPT ![j] = IF At(w, "done") THEN 0 ELSE Minus(@)]
  /\ UNCHANGED <<mode, row, runVars, seen, asked, faults, heard, vouched>>

----------------------------------------------------------------------------
(* A decision continues a parked run, or settles it *)

\* settleDecision of an approved run: the claim, and its resumer (a dispatch without a lease).
Resume(w, r) ==
  /\ status[r] = "waiting_approval" /\ decision[r] = "approved"
  /\ status' = [status EXCEPT ![r] = "running"]
  /\ Begins(w, [Nothing EXCEPT !.msg = owner[r], !.run = r,
                  !.at = IF mode[owner[r]] = "chat" THEN "perform" ELSE "post",
                  !.leased = mode[owner[r]] = "chat"])
  /\ UNCHANGED <<mode, row, owner, decision, left, seen, asked, faults, heard, vouched>>

\* finishParked: the message first, then the run.
Refuse(w, r) ==
  /\ status[r] = "waiting_approval" /\ decision[r] = "refused"
  /\ Begins(w, [Nothing EXCEPT !.at = "refuse", !.msg = owner[r], !.run = r,
                  !.out = "cancelled"])
  /\ UNCHANGED <<mode, row, runVars, left, seen, asked, faults, heard, vouched>>

Unpark(w) == LET r == act[w].run IN
  /\ At(w, "unpark")
  /\ status' = [status EXCEPT ![r] = IF @ = "waiting_approval" THEN "cancelled" ELSE @]
  /\ Goto(w, "done")
  /\ UNCHANGED <<mode, row, owner, decision, left, seen, asked, faults, heard, vouched>>

----------------------------------------------------------------------------
(* Maintenance, and failures *)

\* reapStaleRuns: no lease holder is left; the message is looked at after the run is failed.
Reap(w, r) ==
  /\ status[r] = "running" /\ ~\E v \in Workers : act[v].run = r /\ act[v].leased
  /\ status' = [status EXCEPT ![r] = "failed"]
  /\ Begins(w, [Nothing EXCEPT !.at = "reaped", !.msg = owner[r], !.out = "failed"])
  /\ UNCHANGED <<mode, row, owner, decision, left, seen, asked, faults, heard, vouched>>

Mourn(w) ==
  /\ At(w, "reaped")
  /\ Goto(w, IF row[act[w].msg].status \in {"assigned", "delivered"} THEN "mourn" ELSE "done")
  /\ UNCHANGED <<mode, row, runVars, left, seen, asked, faults, heard, vouched>>

\* stuckMessages
Stuck(m) == row[m].status \in {"needs_assignment", "assigned"}

\* Mutant of Sweep: it repairs, and never sends again.
SweepRepairs(w, m) == LET r == row[m].run IN
  /\ Stuck(m) /\ r # NoRun /\ status[r] \in TERMINAL_RUN_STATUSES
  /\ Begins(w, [Nothing EXCEPT !.at = "repair", !.msg = m, !.out = MessageOf(status[r])])
  /\ UNCHANGED <<mode, row, runVars, left, seen, asked, faults, heard, vouched>>

\* sweepStuckDeliveries, one message: repaired from its run, sent again, or given up.
Sweep(w, m) == LET r == row[m].run
                   n == row[m].tries IN
  /\ Stuck(m)
  /\ \/ /\ r # NoRun /\ status[r] \in TERMINAL_RUN_STATUSES
        /\ Begins(w, [Nothing EXCEPT !.at = "repair", !.msg = m, !.out = MessageOf(status[r])])
     \/ /\ r = NoRun /\ row[m].headed /\ n < MaxAttempts
        /\ Begins(w, [Nothing EXCEPT !.at = "redeliver", !.msg = m,
                        !.post = [msg |-> m, how |-> "redeliver", n |-> n + 1]])
     \/ /\ r = NoRun /\ row[m].headed /\ n = MaxAttempts
        /\ Begins(w, [Nothing EXCEPT !.at = "giveup", !.msg = m, !.out = "failed"])
  /\ UNCHANGED <<mode, row, runVars, left, seen, asked, faults, heard, vouched>>

\* The watchdog's deadline: the handler runs on, without its job.
Abandon(w) == LET j == act[w].job IN
  /\ j # NoJob /\ faults < MaxFaults /\ faults' = faults + 1
  /\ act' = [act EXCEPT ![w].job = NoJob]
  /\ left' = [left EXCEPT ![j] = Minus(@)]
  /\ UNCHANGED <<mode, row, runVars, seen, asked, heard, vouched>>

\* A process dies with the activities it had; their jobs are delivered again.
Crash(dead) ==
  /\ faults < MaxFaults /\ faults' = faults + 1
  /\ dead # {} /\ \A w \in dead : ~Free(w)
  /\ act' = [w \in Workers |-> IF w \in dead THEN Nothing ELSE act[w]]
  /\ seen' = [w \in Workers |-> IF w \in dead THEN Unread ELSE seen[w]]
  /\ left' = [j \in Jobs |-> IF \E w \in dead : act[w].job = j THEN Minus(left[j])
                             ELSE left[j]]
  /\ UNCHANGED <<mode, row, runVars, asked, heard, vouched>>

----------------------------------------------------------------------------

Step(w) ==
  \/ Read(w) \/ Write(w) \/ Send(w) \/ Quota(w) \/ Begin(w) \/ Link(w) \/ Gate(w)
  \/ Perform(w) \/ Call(w) \/ Answer(w) \/ Post(w) \/ End(w) \/ Finish(w) \/ Return(w) \/ Unpark(w)
  \/ Mourn(w)

Next ==
  \/ \E w \in Workers :
       \/ Step(w) \/ Abandon(w)
       \/ \E m \in Messages : \/ Choose(w, m) \/ Unroute(w, m) \/ Fetch(w, m) \/ Sweep(w, m)
                              \/ \E o \in {"acknowledged", "delivered", "done", "failed"} :
                                   Report(w, m, o)
       \/ \E r \in Runs : \/ Resume(w, r) \/ Refuse(w, r) \/ Reap(w, r)
                          \/ \E o \in {"done", "failed", "cancelled"} : FinishRun(w, r, o)
       \/ \E j \in Jobs : TakeDelivery(w, j)
  \/ \E r \in Runs, d \in {"approved", "refused"} : Decide(r, d)
  \/ \E dead \in SUBSET Workers : Crash(dead)

Spec == Init /\ [][Next]_vars

\* Activities run on, the queue hands out what it holds, decisions are resumed, an
\* undecided request times out, and the maintenance cron reaches every run and message.
Fairness ==
  /\ \A w \in Workers : WF_vars(Step(w))
  /\ SF_vars(\E w \in Workers, j \in Jobs : TakeDelivery(w, j))
  /\ SF_vars(\E w \in Workers, r \in Runs : Resume(w, r) \/ Refuse(w, r))
  /\ SF_vars(\E w \in Workers, r \in Runs : Reap(w, r))
  /\ SF_vars(\E w \in Workers, m \in Messages : Sweep(w, m))
  /\ \A r \in Runs : WF_vars(Decide(r, "refused"))
FairSpec == Spec /\ Fairness

----------------------------------------------------------------------------
(* What a delivery promises *)

Labels == UpdateAt \cup {"idle", "send", "begin", "link", "gate", "perform", "call",
  "answer", "post", "end", "finish", "done", "threw", "unpark", "reaped"}
Outs == {"none", "done", "failed", "cancelled", "acknowledged", "delivered", "busy"}

Activity == [at : Labels, msg : Messages \cup {NoMsg}, run : Runs \cup {NoRun},
             job : Jobs \cup {NoJob}, out : Outs, then : {"done", "settle", "busy"},
             post : Jobs \cup {NoJob}, leased : BOOLEAN]

\* Every variable keeps its type; only a busy activity has read a row.
TypeOK ==
  /\ mode \in [Messages -> {"chat", "webhook", "inbox"}]
  /\ row \in [Messages -> Row]
  /\ status \in [Runs -> {"none", "running", "waiting_approval"} \cup TERMINAL_RUN_STATUSES]
  /\ owner \in [Runs -> Messages \cup {NoMsg}]
  /\ decision \in [Runs -> {"none", "pending", "approved", "refused"}]
  /\ left \in [Jobs -> 0..MaxDeliveries]
  /\ act \in [Workers -> Activity]
  /\ seen \in [Workers -> Row \cup {Unread}]
  /\ \A w \in Workers : seen[w] # Unread => act[w].at \in UpdateAt
  /\ asked \in 0..MaxRequests /\ faults \in 0..MaxFaults
  /\ heard \in [Runs -> Nat]
  /\ vouched \subseteq Messages

\* A message reads "done" only if one of its runs brought it to its provider, or an agent
\* or a person said so: no repair, stale write-back or late finish makes one up.
DoneMeansHeard ==
  \A m \in Messages : row[m].status = "done" =>
    m \in vouched \/ \E r \in Runs : owner[r] = m /\ heard[r] > 0

Waits(m) == row[m].status = "assigned" \/ (row[m].status = "needs_assignment" /\ row[m].headed)

\* Somebody holds a row of m that another has written since, and will write it back.
Overtaken(m) == \E w \in Workers : seen[w] # Unread /\ act[w].msg = m /\ seen[w] # row[m]

\* A message on its way does not wait for ever: its job may be lost before it began a run or
\* after, its provider busy, its process dead, its decision never made, its agent's reports
\* and a second send beside it.  A write that was overtaken may undo what the sweep goes by.
WaitingEnds == \A m \in Messages : []<>~Waits(m) \/ <>Overtaken(m)

\* "The run settled but the message update was lost": the sweep repairs the message then.
SettledRunSettlesMessage ==
  \A m \in Messages, r \in Runs :
    row[m].run = r /\ status[r] \in TERMINAL_RUN_STATUSES
      ~> row[m].run # r \/ row[m].status \in Settled
============================================================================
