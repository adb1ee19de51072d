---------------------------- MODULE DeliveryInv ----------------------------
(***************************************************************************)
(* The inductive invariant behind DoneMeansHeard: a "done" is true         *)
(* wherever it is kept, in a row, in the row somebody will write back, in  *)
(* the outcome an activity brings, in the status of a run.                 *)
(***************************************************************************)
EXTENDS Delivery

Told(m) == m \in vouched \/ \E r \in Runs : owner[r] = m /\ heard[r] > 0

\* The labels whose update sets the status the activity brings.
Sealing == {"overquota", "settle", "refuse", "mourn", "repair", "giveup", "report"}
Closing == {"end", "snapshot", "finish"}
Driving == Closing \cup {"link", "assign", "point", "gate", "perform", "deliver", "call", "answer",
                         "post", "refuse", "unpark"}

\* What an activity carries fits where it is.
Fits(a) ==
  /\ a # Nothing => a.msg \in Messages
  /\ a.at \in Sealing \cup {"reaped"} => a.out \in MessageStatus
  /\ a.at \in Closing => /\ a.out \in {"done", "failed", "cancelled", "busy"}
                         /\ a.then = "settle" => a.out # "busy"
  /\ a.at \in Driving => a.run \in Runs
  /\ a.at \in {"choose", "hand", "redeliver", "send"} => a.post \in Jobs
  /\ a.at = "redeliver" => a.post.how = "redeliver"

\* A run that exists has its message, for good.
Owned(r) == IF status[r] = "none" THEN owner[r] = NoMsg ELSE owner[r] \in Messages

\* A row names a run of its own message, and is done only if its message was told.
TrueRow(x, m) == /\ x.run # NoRun => owner[x.run] = m
                 /\ x.status = "done" => Told(m)

TrueAct(w) ==
  /\ act[w].run # NoRun => owner[act[w].run] = act[w].msg
  /\ act[w].out = "done" => Told(act[w].msg)
  /\ act[w].at = "answer" => heard[act[w].run] > 0
  /\ seen[w] # Unread => TrueRow(seen[w], act[w].msg)

DeliveryInvariant ==
  /\ TypeOK
  /\ \A w \in Workers : Fits(act[w]) /\ TrueAct(w)
  /\ \A r \in Runs : Owned(r) /\ (status[r] = "success" => Told(owner[r]))
  /\ \A m \in Messages : TrueRow(row[m], m)
=============================================================================
