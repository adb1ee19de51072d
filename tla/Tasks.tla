------------------------------- MODULE Tasks -------------------------------
(***************************************************************************)
(* The tasks of the registry and the runs of them, side by side: how a run *)
(* is started, gated and ended, and who writes to a task and its runs at   *)
(* once.  Each has variables of its own; this module names them, and       *)
(* states what is assumed of the handlers' names and limits.               *)
(***************************************************************************)
EXTENDS RunLifecycleInv

CONSTANTS Pushes, Folds, Edits, Deletes, Pollers, Mails, MaxTasks, MaxFaults, Reported

VARIABLES
  task, lastId, profiles, runs, told, heard, seenFlag, handlerAt, at, got, found, says, named,
  patch, list, answer, took, word, overlapped, matched, dropped, reportFaults

R == INSTANCE Registry WITH pc <- handlerAt, crossed <- overlapped, faults <- reportFaults

\* A handler is of one kind, a mail is not a reported run, and the bounds are numbers.
Kinds ==
  /\ Pushes \cap Folds = {} /\ R!Reporters \cap (Edits \cup Deletes \cup Pollers) = {}
  /\ Edits \cap (Deletes \cup Pollers) = {} /\ Deletes \cap Pollers = {}
  /\ Reported \notin Mails
RegistryLimits == MaxTasks \in Nat \ {0} /\ MaxFaults \in Nat

ASSUME RegistryAssumption == Kinds /\ RegistryLimits

registryVars == <<task, lastId, profiles, runs, told, heard, seenFlag, handlerAt, at, got, found,
                  says, named, patch, list, answer, took, word, overlapped, matched, dropped,
                  reportFaults>>

----------------------------------------------------------------------------
(* The properties of the registry; each is stated in Registry.              *)

ReportTakesEffect == R!ReportTakesEffect
PauseStands == R!PauseStands
MailBecomesOneRun == R!MailBecomesOneRun
============================================================================
