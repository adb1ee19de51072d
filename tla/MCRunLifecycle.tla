--------------------------- MODULE MCRunLifecycle ---------------------------
(* Instances of RunLifecycle small enough for TLC. *)
EXTENDS RunLifecycleInv, TLC

CONSTANTS w1, w2, p1, p2

OneProcess == [w \in Workers |-> p1]
TwoProcesses == (w1 :> p1) @@ (w2 :> p2)

\* Workers are interchangeable with the processes they are of; so are task runs.
Alike == Permutations(TaskRuns) \cup {(w1 :> w2) @@ (w2 :> w1) @@ (p1 :> p2) @@ (p2 :> p1)}

\* Bound of the race: the queue holds two jobs at a time.
TwoJobs == Cardinality({j \in Jobs : left[j] > 0}) <= 2

\* Bound of two tasks: besides, no handler outlives its deadline and nobody presses Stop.
TwoPromptJobs ==
  /\ TwoJobs
  /\ \A w \in Workers : ~zombie[w]
  /\ \A r \in Runs : ~cancel[r]

Born(r) == status[r] # "none" \/ \E w \in Workers : Works(w, r)

\* Bound of crash_or_cap: a behaviour has a process that dies or reports of agents, and one
\* task; or two tasks and none of these, nor a reaper.
CrashOrCap ==
  /\ crashes > 0 => external = {}
  /\ Cardinality({r \in TaskRuns : Born(r)}) = 2 =>
       crashes = 0 /\ external = {} /\ reaping = NoRun /\ TwoPromptJobs

\* Bound of the liveness run: one run is born, a chat's in a process that does not crash; or
\* an agent's own run is there first and uses up the day of the task that is started.
OneRun ==
  /\ Cardinality({r \in Runs \ ExternalRuns : Born(r)}) <= 1
  /\ (\E m \in ChatRuns : Born(m)) => crashes = 0
  /\ (\E x \in ExternalRuns : Born(x)) =>
       /\ crashes = 0 /\ reaping = NoRun /\ external = {}
       /\ \A r \in Runs \ ExternalRuns : Born(r) =>
            r \in TaskRuns /\ attempt[r] = 0 /\ status[r] \in {"queued", "failed"} /\ ~cancel[r]
       /\ \A w \in Workers : pc[w] \in {"idle", "refuse"}
=============================================================================
