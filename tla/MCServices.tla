----------------------------- MODULE MCServices -----------------------------
(***************************************************************************)
(* Instances for TLC of the services around the runs.  They share no state *)
(* that their properties speak of, so a behaviour is one of one service;   *)
(* the others stay in an initial state in which nothing is due.            *)
(***************************************************************************)
EXTENDS SignIn, Sequences

CONSTANTS
  h1, h2,
  k1, k2, j1, j2, w1, NoConn, NoOne, Gone,
  m1, d1, d2, NoMsg, NoJob, Unread

VARIABLES
  part,      \* the service of this behaviour
  blob, newest, claim, renewing, context, mapped, chain, jobAt, key, conn, seen, again,
  fleetFaults, lost, crossed,
  mode, message, runStatus, owner, decision, left, act, read, asked, runFaults, heard, vouched

Keys == {k1, k2}
OneOrg == [k \in Keys |-> 1]
Jobs == {j1, j2}
OneHost == [j \in Jobs |-> w1]

F == INSTANCE Fleet WITH
  OrgOf <- OneOrg, Workers <- {w1}, Errands <- {}, WorkerOf <- OneHost, Ids <- 1..3,
  MaxContexts <- 1, OrgMaxContexts <- 1, MaxSession <- 1, MaxFaults <- 1,
  pc <- jobAt, faults <- fleetFaults
D == INSTANCE Delivery WITH
  Messages <- {m1}, Workers <- {d1, d2}, Modes <- {"chat", "webhook", "inbox"}, MaxRuns <- 2,
  MaxDeliveries <- 1, MaxAttempts <- 1, MaxRequests <- 2, MaxFaults <- 1,
  row <- message, status <- runStatus, seen <- read, faults <- runFaults

fleetVars  == <<blob, newest, claim, renewing, context, mapped, chain, jobAt, key, conn, seen,
                again, fleetFaults, lost, crossed>>
deliveryVars == <<mode, message, runStatus, owner, decision, left, act, read, asked, runFaults,
                  heard, vouched>>
MCInit ==
  /\ part \in {"signIn", "fleet", "delivery"}
  /\ Init /\ F!Init
  /\ D!Init /\ (part # "delivery" => mode[m1] = "chat")

SignIns   == part = "signIn" /\ Next /\ UNCHANGED <<part, fleetVars, deliveryVars>>
Browsers  == part = "fleet" /\ F!Next /\ UNCHANGED <<part, vars, deliveryVars>>
Messages  == part = "delivery" /\ D!Next /\ UNCHANGED <<part, vars, fleetVars>>

\* The fairness of each, where it is the one of the behaviour.
MCFairSpec ==
  /\ MCInit
  /\ [][SignIns \/ Browsers \/ Messages]_<<part, vars, fleetVars, deliveryVars>>
  /\ WF_vars(part = "signIn" /\ Work)
  /\ WF_fleetVars(part = "fleet" /\ F!Work)
  /\ D!Fairness

\* The job of m's first send and whoever had it are gone.
JobIsLost(m) ==
  /\ left[[msg |-> m, how |-> "send", n |-> 1]] = 0
  /\ Cardinality({d \in {d1, d2} : act[d].at = "idle"}) = 1

\* Bounds of the sign-in: two imports; the second helper comes where there is one pairing and
\* nothing dies; where something dies there is one pairing and one import.
SignInBounds ==
  /\ imports[h1] + imports[h2] <= 2
  /\ pc[h2] # "idle" => status[2] = "none" /\ deaths = 0
  /\ deaths > 0 => imports[h1] + imports[h2] <= 1 /\ status[2] = "none"
  /\ status[2] # "none" => imports[h1] <= 1

\* Bounds of the delivery: two runs; or one run, and either a second request (an agent's report
\* or fetch, a person's second send or change of mind) or a re-send after a death; outside the
\* inbox the re-send comes when the first job is gone for good.
DeliveryBounds ==
  /\ asked = 2 => mode[m1] # "chat" /\ runFaults = 0 /\ message[m1].tries = 0
                  /\ runStatus[2] = "none"
  /\ message[m1].tries > 0 => runFaults = 1 /\ runStatus[2] = "none"
  /\ (\E d \in {d1, d2} : act[d].at = "redeliver") =>
       runFaults = 1 /\ runStatus[1] = "none" /\ (mode[m1] = "inbox" \/ JobIsLost(m1))

Bounds == SignInBounds /\ DeliveryBounds

----------------------------------------------------------------------------
(* The others' properties; each is stated where its service is modelled.    *)

EveryJobEnds == F!EveryJobEnds
WaitingEnds == D!WaitingEnds
=============================================================================
