--------------------------- MODULE RunLifecycleInv ---------------------------
(***************************************************************************)
(* The inductive invariant under HandedOverOnce, NothingWithoutConsent and *)
(* OneDriver.  A run is fresh while nobody has claimed it, or claimed it   *)
(* back from its park; whoever moves it out of there becomes its only      *)
(* driver, which no later step can make again.                             *)
(***************************************************************************)
EXTENDS RunLifecycle

FreshStatus == {"none", "queued", "waiting_approval"}

\* What a worker was given fits what it is about to do.
JobFitsStep == \A w \in Workers :
  /\ pc[w] = "begin" => /\ job[w].type = "deliver"
                        /\ job[w].run \in ChatRuns \cup DispatchRuns
                        /\ status[job[w].run] = "none"
  /\ pc[w] = "claim" => job[w].type = "start"
  /\ pc[w] \in {"poll", "decide"} => job[w].type = "resume"
  /\ pc[w] \in {"gate", "park"} => job[w].type # "resume"

\* A run is begun by one delivery.
OneBeginner == \A v, w \in Workers :
  pc[v] = "begin" /\ pc[w] = "begin" /\ job[v].run = job[w].run => v = w

\* A fresh run has no driver and was not handed over; only a born one is reported on.
FreshIsFree ==
  /\ \A r \in Runs : status[r] \in FreshStatus =>
       handed[r] = 0 /\ \A w \in Workers : ~Drives(w, r)
  /\ \A r \in external : status[r] # "none"

\* Nobody drives a run towards its call once the call was made.
CallIsAhead == \A r \in Runs, w \in Workers :
  Drives(w, r) /\ pc[w] # "settle" => handed[r] = 0

\* Nobody is asked before the gate, and the call is ahead of an answered "yes" only.
ConsentFollowsGate ==
  /\ \A r \in Runs : status[r] \in {"none", "queued"} => approval[r] = "none"
  /\ \A r \in Runs, w \in Workers : Works(w, r) =>
       /\ pc[w] = "gate" => approval[r] = "none"
       /\ pc[w] = "lease" => approval[r] =
            IF job[w].type = "resume" THEN "approved" ELSE "none"
       /\ pc[w] \in {"perform", "call"} => approval[r] \in {"none", "approved"}
  /\ \A r \in Runs : handed[r] > 0 => approval[r] \in {"none", "approved"}

IInv ==
  /\ JobFitsStep
  /\ OneBeginner
  /\ FreshIsFree
  /\ OneDriver
  /\ CallIsAhead
  /\ ConsentFollowsGate
  /\ HandedOverOnce

----------------------------------------------------------------------------
(* Under OpenRunHasNoLease *)

\* Where a handler holds its lease, when its job has one.
Inside == {"gate", "park", "reread", "perform", "call", "settle", "leave"}

\* The lease of a running run is a handler's that will renew it or let go of it; or the
\* first pass's, which the handler that resumes the run is about to take over.
LeaseIsKept ==
  crashes = 0 =>
    \A r \in Runs \ external :
      status[r] = "running" /\ LeasedThroughout(r) /\ lease[r] # NoLease =>
        \E w \in Workers :
          \/ Heartbeats(w, r) /\ ProcOf[w] = lease[r].by
          \/ Works(w, r) /\ pc[w] \in {"lease", "unable"} /\ job[w].type = "resume"

\* Whoever finds no resumer, or left a run open, was its last driver.
OpenIsLetGo == \A r \in Runs :
  r \in open \/ (\E w \in Workers : Works(w, r) /\ pc[w] = "unable") =>
    status[r] \notin FreshStatus /\ \A w \in Workers : ~Drives(w, r)
UnableIsNotOpen == \A w \in Workers : pc[w] = "unable" => job[w].run \notin open

\* Nobody leases a run before its first claim, or by a job without a lease.
LeaseFollowsClaim ==
  /\ \A r \in Runs : status[r] \in {"none", "queued"} => lease[r] = NoLease
  /\ \A w \in Workers : pc[w] = "lease" => UsesLease(job[w])

LeaseInv == LeaseIsKept /\ OpenIsLetGo /\ UnableIsNotOpen /\ LeaseFollowsClaim

----------------------------------------------------------------------------
(* Under TasksStayUnderCap *)

\* The tasks past the quota: those under way, and those whose claim is next.
Admitted == {r \in TaskRuns \ external :
  \/ status[r] \in ACTIVE_RUN_STATUSES \ {"queued"}
  \/ status[r] = "queued" /\ \E w \in Workers : pc[w] = "claim" /\ job[w].run = r}

\* Start jobs are sent of rows that are there.
StartsAreBorn ==
  /\ \A j \in Jobs : j.type = "start" /\ left[j] > 0 => status[j.run] # "none"
  /\ \A w \in Workers : pc[w] = "claim" => status[job[w].run] # "none"

CapInv ==
  /\ StartsAreBorn
  /\ MaxConcurrent > 0 => Cardinality(Admitted) <= MaxConcurrent
=============================================================================
