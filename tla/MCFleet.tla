------------------------------ MODULE MCFleet ------------------------------
(***************************************************************************)
(* Instances for TLC of what a workspace keeps: the browsers of the fleet  *)
(* with their saved sessions, the accounts of its people, and the mirror   *)
(* of the files.  A behaviour is one of one of the three; the others stay  *)
(* in an initial state.                                                    *)
(***************************************************************************)
EXTENDS Workspace, TLC

CONSTANTS j1, j2, j3, e1, w1, w2

VARIABLE part      \* the one of this behaviour

\* The first two jobs share a worker; sign-ins and backups are made there too.
TwoHosts == [c \in Calls |-> IF c = j3 THEN w2 ELSE w1]
Interchangeable == Permutations({j1, j2})
OneOrg == [k \in Keys |-> 1]

MCInit ==
  /\ part \in {"fleet", "mirror", "accounts"}
  /\ Init /\ M!Init
  /\ A!Init /\ (part # "accounts" => sessions = {})

Browsers == part = "fleet" /\ Next /\ UNCHANGED <<part, mirrorVars, accountVars>>
Files    == part = "mirror" /\ M!Next /\ UNCHANGED <<part, vars, accountVars>>
People   == part = "accounts" /\ A!Next /\ UNCHANGED <<part, vars, mirrorVars>>

MCSpec == MCInit /\ [][Browsers \/ Files \/ People]_<<part, vars, mirrorVars, accountVars>>

\* Bound of the fleet: a behaviour has two jobs and a fault, or three jobs and an errand.
FaultOrErrand ==
  faults > 0 => /\ \A c \in Errands : pc[c] = "idle"
                /\ \E c \in Jobs : pc[c] = "idle"

\* Bound of the accounts: two requests overlap, and a third comes when one of them is over and
\* no mail was lost.
TwoAtOnce ==
  \E q \in Jobs : requestAt[q] = "idle" \/ (requestAt[q] = "over" /\ accountFaults = 0)

\* Bound of the mirror: what happens after it was lost once does not matter.
Bounds == FaultOrErrand /\ ~apart /\ TwoAtOnce

============================================================================
