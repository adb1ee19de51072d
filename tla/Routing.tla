------------------------------ MODULE Routing ------------------------------
(***************************************************************************)
(* Where a message goes: the requests of api.ts that decide it, what of    *)
(* that decision its row keeps, and the sweep that works out of the row    *)
(* where a message was headed when its deliver job was lost                *)
(* (sweepStuckDeliveries).  The router itself is in Router.  A delivery is *)
(* here what it does to the columns the sweep reads: two runs of one       *)
(* message at a time, the writes that updateMessage loses and the reports  *)
(* of an agent are in Delivery.                                            *)
(***************************************************************************)
EXTENDS Naturals, Sequences

CONSTANTS
  AIs, Nowhere, Threshold, \* of the module Router
  ChatRoutes, MessageRoutes, \* what it makes of a text
  MaxLosses   \* bound: lost jobs, requests that die, changes of mind

VARIABLES
  pc,         \* where the request that made the message is
  owed,       \* the task it is still to assign
  method, confidence, options, \* routing and suggestions of the row
  attempts,   \* routing.delivery_attempts
  platform,   \* messages.platform, set when a delivery to a chat begins
  task,       \* messages.task_id, as the AI the task is of
  status,
  run, provider, \* the last run of the row
  jobs,       \* its deliver jobs
  look,       \* what the sweep has read of the row and not yet acted on
  losses,
  headed,     \* where the last decision sent it
  resent,     \* where the sweep has sent it since
  aside       \* the row does not tell where it was headed

routing == <<method, confidence, options, attempts>>
row == <<routing, platform, task, status>>
history == <<headed, resent, aside>>
vars == <<pc, owed, row, run, provider, jobs, look, losses, history>>

Options == Seq([to : AIs, score : 0..100])
Methods == {"none", "manual", "follow-up", "mention", "only", "llm", "keywords"}
NoLook == [run |-> "unread"]
Looks == {NoLook} \cup [run : {"success", "failed"}]
         \cup [run : {"none"}, kind : {"chat", "task"}, to : AIs \cup {Nowhere},
               method : Methods, confidence : 0..100, attempts : 0..3]
ChatJob(a) == [kind |-> "chat", to |-> a]
TaskJob == [kind |-> "task", to |-> Nowhere]  \* it reads the row for its task

TypeOK ==
  /\ pc \in {"idle", "chat", "message", "assign", "over"} /\ owed \in AIs \cup {Nowhere}
  /\ method \in Methods /\ confidence \in 0..100 /\ options \in Options /\ attempts \in 0..3
  /\ platform \in AIs \cup {Nowhere} /\ task \in AIs \cup {Nowhere}
  /\ status \in {"none", "needs_assignment", "assigned", "delivered", "done", "failed"}
  /\ run \in {"none", "active", "success", "failed"} /\ provider \in AIs \cup {Nowhere}
  /\ jobs \subseteq [kind : {"chat", "task"}, to : AIs \cup {Nowhere}]
  /\ look \in Looks /\ losses \in 0..MaxLosses
  /\ headed \in AIs \cup {Nowhere} /\ resent \in AIs \cup {Nowhere} /\ aside \in BOOLEAN

Init ==
  /\ pc = "idle" /\ owed = Nowhere
  /\ method = "none" /\ confidence = 0 /\ options = <<>> /\ attempts = 0
  /\ platform = Nowhere /\ task = Nowhere /\ status = "none"
  /\ run = "none" /\ provider = Nowhere /\ jobs = {} /\ look = NoLook /\ losses = 0
  /\ headed = Nowhere /\ resent = Nowhere /\ aside = FALSE

----------------------------------------------------------------------------
(* What a row tells the sweep                                              *)

\* Mutant of WasSent: every message that stays is helped on.
Whatever == TRUE

\* Only what was headed somewhere is helped on: the rest is its writer's to decide.
WasSent == method = "manual" \/ confidence >= Threshold

\* topSuggestedPlatform: the best by score, the first of equals.
TopSuggested(os) ==
  IF os = <<>> THEN Nowhere
  ELSE os[CHOOSE i \in DOMAIN os : \A k \in DOMAIN os :
            os[k].score < os[i].score \/ (os[k].score = os[i].score /\ i <= k)].to

Destination == IF platform # Nowhere THEN platform ELSE TopSuggested(options)

----------------------------------------------------------------------------
(* The requests                                                            *)

Fault == losses < MaxLosses /\ losses' = losses + 1

\* A decision is written, for a message whose task is t.  The row does not tell of one that
\* is not for its task or the best of its options, nor the sweep of one that it has not read.
Heads(to, t, lost) ==
  headed' = to /\ resent' = Nowhere /\ aside' = (lost \/ t \notin {Nowhere, to} \/ look # NoLook)

\* Somebody chose: the suggestions stay.
Decided(how, to) ==
  /\ method' = how /\ confidence' = 100 /\ attempts' = 0 /\ UNCHANGED options
  /\ Heads(to, task, TopSuggested(options) \notin {Nowhere, to})

\* The router chose, and it is sent or left to the writer.
Routed(r, t, sent) ==
  /\ method' = r.method /\ confidence' = r.confidence /\ options' = r.options /\ attempts' = 0
  /\ Heads(IF sent THEN r.to ELSE Nowhere, t, ~sent /\ r.confidence >= Threshold)

\* A message is made; what the assistant answers itself is in Commands.
Post ==
  /\ pc = "idle" /\ pc' \in {"chat", "message"} /\ status' = "needs_assignment"
  /\ UNCHANGED <<owed, routing, platform, task, run, provider, jobs, look, losses, history>>

\* POST /chat: what was chosen, or the AI this thread talks to, or the router's choice.
DecideChat ==
  /\ pc = "chat" /\ pc' = "over"
  /\ \/ \E a \in AIs, how \in {"manual", "follow-up"} :
          Decided(how, a) /\ jobs' = jobs \cup {ChatJob(a)}
     \/ \E r \in ChatRoutes :
          LET sent == r.to # Nowhere /\ r.confidence >= Threshold IN
          Routed(r, task, sent) /\ jobs' = jobs \cup (IF sent THEN {ChatJob(r.to)} ELSE {})
  /\ UNCHANGED <<owed, platform, task, status, run, provider, look, losses>>

\* POST /messages: a chosen task, or one the router is sure of, if that is wished.
DecideMessage ==
  /\ pc = "message"
  /\ \/ \E a \in AIs : Decided("manual", a) /\ pc' = "assign" /\ owed' = a
     \/ \E r \in MessageRoutes, auto \in BOOLEAN :
          LET sent == auto /\ r.to # Nowhere /\ r.confidence >= Threshold IN
          /\ Routed(r, task, sent)
          /\ IF sent THEN pc' = "assign" /\ owed' = r.to ELSE pc' = "over" /\ UNCHANGED owed
  /\ UNCHANGED <<platform, task, status, run, provider, jobs, look, losses>>

\* assignAndDeliver.
Assigned(a) ==
  /\ task' = a /\ status' = "assigned" /\ jobs' = jobs \cup {TaskJob} /\ Heads(a, a, FALSE)
  /\ UNCHANGED <<routing, platform, run, provider, look>>

AssignRouted ==
  pc = "assign" /\ Assigned(owed) /\ pc' = "over" /\ owed' = Nowhere /\ UNCHANGED losses

\* POST /messages/:id/assign and /retry, of whatever message.
Assign(a) == pc # "idle" /\ Fault /\ Assigned(a) /\ UNCHANGED <<pc, owed>>

\* POST /chat/:id/send, of whatever message: beside a job, after a run.
Send(a) ==
  /\ pc # "idle" /\ Fault /\ Decided("manual", a) /\ jobs' = jobs \cup {ChatJob(a)}
  /\ UNCHANGED <<pc, owed, platform, task, status, run, provider, look>>

\* POST /messages/:id/reroute, of whatever message: it is not sent, and keeps its platform.
Reroute ==
  /\ pc # "idle" /\ Fault /\ status' = "needs_assignment" /\ task' = Nowhere
  /\ \E r \in MessageRoutes : Routed(r, Nowhere, FALSE)
  /\ UNCHANGED <<pc, owed, platform, run, provider, jobs, look>>

\* The process dies in the middle of the request.
Dies ==
  /\ pc \in {"chat", "message", "assign"} /\ Fault /\ pc' = "over" /\ owed' = Nowhere
  /\ UNCHANGED <<row, run, provider, jobs, look, history>>

----------------------------------------------------------------------------
(* The deliver jobs                                                        *)

\* deliveryAlreadyHandled.
Handled(j) == run = "active" \/ (run = "success" /\ (j.kind = "chat" => provider = j.to))

\* A delivery begins: the row says where.  Its job stays while its claim may run out, or its
\* handler throw.
Begin(j) ==
  /\ ~Handled(j) /\ run' = "active" /\ jobs' \in {jobs, jobs \ {j}}
  /\ \/ /\ j.kind = "chat" /\ provider' = j.to
        /\ platform' = j.to /\ task' = Nowhere /\ status' = "assigned"
     \/ /\ j.kind = "task" /\ task # Nowhere /\ provider' = task
        /\ UNCHANGED <<platform, task, status>>
  /\ UNCHANGED <<pc, owed, routing, look, losses, history>>

\* It is dropped: handled already, without a task, or by a quota that will not come back.
Drop(j) ==
  /\ \/ (Handled(j) \/ (j.kind = "task" /\ task = Nowhere)) /\ UNCHANGED status
     \/ ~Handled(j) /\ (j.kind = "task" => task # Nowhere) /\ status' = "failed"
  /\ jobs' = jobs \ {j}
  /\ UNCHANGED <<pc, owed, routing, platform, task, run, provider, look, losses, history>>

Lose(j) == Fault /\ jobs' = jobs \ {j} /\ UNCHANGED <<pc, owed, row, run, provider, look, history>>

\* It waits for its agent, or was passed on.
Pass ==
  /\ run = "active" /\ status' \in {"assigned", "delivered"}
  /\ UNCHANGED <<pc, owed, routing, platform, task, run, provider, jobs, look, losses, history>>

\* The provider is busy: the run has failed, and the message is handed back.
HandBack ==
  /\ run = "active" /\ run' = "failed" /\ status' = "assigned"
  /\ UNCHANGED <<pc, owed, routing, platform, task, provider, jobs, look, losses, history>>

\* The run ends (a cancelled one as a failed one), and the row is told or is not.
End ==
  /\ run = "active" /\ run' \in {"success", "failed"}
  /\ status' \in {status} \cup IF run' = "success" THEN {"done", "delivered"} ELSE {"failed"}
  /\ UNCHANGED <<pc, owed, routing, platform, task, provider, jobs, look, losses, history>>

----------------------------------------------------------------------------
(* The sweep: it reads the rows, and gets to each in its time              *)

\* stuckMessages: by the age of the message, however fresh the decision about it.
Look ==
  /\ look = NoLook /\ status \in {"needs_assignment", "assigned"} /\ run # "active"
  /\ \/ run # "none" /\ look' = [run |-> run]
     \/ /\ run = "none" /\ (task # Nowhere \/ WasSent)
        /\ look' = [run |-> run, kind |-> IF task # Nowhere THEN "task" ELSE "chat",
                    to |-> IF task # Nowhere THEN task ELSE Destination,
                    method |-> method, confidence |-> confidence, attempts |-> attempts]
  /\ UNCHANGED <<pc, owed, row, run, provider, jobs, losses, history>>

MayTry == look.attempts < 3

\* No run: it is sent again, and its routing written as it was read.
Resend ==
  /\ look.run = "none" /\ look.to # Nowhere /\ MayTry
  /\ method' = look.method /\ confidence' = look.confidence /\ attempts' = look.attempts + 1
  /\ jobs' = jobs \cup {IF look.kind = "task" THEN TaskJob ELSE ChatJob(look.to)}
  /\ resent' = look.to /\ look' = NoLook
  /\ UNCHANGED <<pc, owed, options, platform, task, status, run, provider, losses, headed, aside>>

GiveUp ==
  /\ look.run = "none" /\ ~(look.to # Nowhere /\ MayTry) /\ status' = "failed" /\ look' = NoLook
  /\ UNCHANGED <<pc, owed, routing, platform, task, run, provider, jobs, losses, history>>

\* A run that has ended: its row is told.
Repair ==
  /\ look.run \in {"success", "failed"} /\ look' = NoLook
  /\ status' = IF look.run = "success" THEN "done" ELSE "failed"
  /\ UNCHANGED <<pc, owed, routing, platform, task, run, provider, jobs, losses, history>>

Next ==
  \/ Post \/ DecideChat \/ DecideMessage \/ AssignRouted \/ Reroute \/ Dies
  \/ \E a \in AIs : Assign(a) \/ Send(a)
  \/ \E j \in jobs : Begin(j) \/ Drop(j) \/ Lose(j)
  \/ Pass \/ HandBack \/ End
  \/ Look \/ Resend \/ GiveUp \/ Repair

Spec == Init /\ [][Next]_vars

----------------------------------------------------------------------------
(* Properties                                                              *)

\* The sweep, which has only the row to go by, sends a message again where the last decision
\* about it sent it, and does not send one that was left to its writer (routeToConnection,
\* routeMessage, sweepStuckDeliveries against every request that decides).  Not so where the
\* row does not tell: somebody picked another AI than the best of its options or than its
\* task's, the router was sure and the message not sent, or the decision came between the
\* sweep's read and its write.
RouteIsKept == resent # Nowhere /\ ~aside => resent = headed
=============================================================================
