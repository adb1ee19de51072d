---------------------------- MODULE Conversation ----------------------------
(***************************************************************************)
(* What becomes of what a person writes, side by side: its delivery, the   *)
(* choice of where it goes, its way through a provider's website, and the  *)
(* commands of the assistant's chat.  Each has variables of its own; this  *)
(* module names them, and states what is assumed of their limits.          *)
(***************************************************************************)
EXTENDS DeliveryInv, Router

CONSTANTS
  MaxLosses,                             \* routing
  Patience, Full, MaxFailures,           \* a send through a website
  Orders, Actions, Engines, Policies     \* commands

VARIABLES
  routeAt, owed, method, confidence, options, attempts, platform, task, rowStatus, routeRun,
  provider, routeJobs, look, losses, headed, resent, aside,
  chatAt, thread, attempt, reopened, retried, before, lastText, shown, stable, polls, result,
  conv, loaded, said, sent, stopped, challenge, site, misread, chatFaults,
  engine, policy, action, command, commandAt, answer, picked, toStop, run, cancel, approval, at,
  resumed, outcome, snapshot, reaper, crossed

R == INSTANCE Routing WITH
  pc <- routeAt, status <- rowStatus, run <- routeRun, jobs <- routeJobs
C == INSTANCE ChatDrive WITH
  MaxFaults <- MaxFailures, pc <- chatAt, last <- lastText, text <- shown, faults <- chatFaults
A == INSTANCE Commands WITH
  Messages <- Orders, NoMessage <- NoMsg,
  row <- command, pc <- commandAt, said <- answer, seen <- snapshot

\* The bounds are numbers, and a finished answer has a length.
ChatLimits == Patience \in Nat /\ Full \in Nat \ {0} /\ MaxFailures \in Nat

ASSUME ChatAssumption == ChatLimits
ASSUME RoutingAssumption == RouterLimits /\ MaxLosses \in Nat

routeVars == <<routeAt, owed, method, confidence, options, attempts, platform, task, rowStatus,
               routeRun, provider, routeJobs, look, losses, headed, resent, aside>>
chatVars == <<chatAt, thread, attempt, reopened, retried, before, lastText, shown, stable, polls,
              result, conv, loaded, said, sent, stopped, challenge, site, misread, chatFaults>>
commandVars == <<engine, policy, action, command, commandAt, answer, picked, toStop, run, cancel,
                 approval, at, resumed, outcome, snapshot, reaper, crossed>>

----------------------------------------------------------------------------
(* Their properties; each is stated where its component is modelled.        *)

RouteIsKept == R!RouteIsKept
AnswerIsWhole == C!AnswerIsWhole
FollowsItsRun == A!FollowsItsRun
=============================================================================
