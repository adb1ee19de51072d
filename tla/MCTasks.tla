------------------------------ MODULE MCTasks ------------------------------
(***************************************************************************)
(* Instances for TLC of the tasks and of who uses them: the runs that are  *)
(* started, the tasks and runs that are reported and edited.  A behaviour  *)
(* is one of one of the two; the other stays in an initial state.          *)
(***************************************************************************)
EXTENDS MCRunLifecycle, Tasks

CONSTANTS r1, r2

VARIABLE part      \* the one of this behaviour

MCInit ==
  /\ part \in {"runs", "reports"}
  /\ Init
  /\ R!Init /\ (part # "reports" => task.id = 0)

Runners   == part = "runs" /\ Next /\ UNCHANGED <<part, registryVars>>
Writers   == part = "reports" /\ R!Next /\ UNCHANGED <<part, vars>>

MCSpec == MCInit /\ [][Runners \/ Writers]_<<part, vars, registryVars>>

\* Bounds of the reports: two handlers, and a third where no statement fails and a person is
\* among them; a mail comes where there is nobody else but who deletes the task.
Active == {c \in R!Handlers : handlerAt[c] # "idle"}
FewHandlers ==
  /\ Cardinality(Active) <= IF reportFaults = 0 /\ Active \cap (Edits \cup Deletes) # {} THEN 3 ELSE 2
  /\ (\E q \in Pollers : handlerAt[q] # "idle") \/ (\E m \in Mails : heard[m] > 0) => Active \subseteq Pollers \cup Deletes

Bounds == TwoJobs /\ FewHandlers

Interchangeable == Permutations({r1, r2})

============================================================================
