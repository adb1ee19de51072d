----------------------------- MODULE MCScreens -----------------------------
(***************************************************************************)
(* Instances for TLC of what people are shown.  A behaviour is one of one  *)
(* of the five; the others stay in an initial state.                       *)
(***************************************************************************)
EXTENDS Screens

CONSTANTS
  p, q, v1, v2, b1, d1, c1, x1

VARIABLE part      \* the one of this behaviour

\* Two calls of each viewer, and two of the relay for its tab.
TwoForAViewer == {v1, v2} \X {1, 2}
TwoForATab == {p} \X {1, 2}

MCInit ==
  /\ part \in {"view", "relay", "profile", "updates", "sync"}
  /\ Init /\ S!Init
  /\ V!Init /\ (part # "view" => tabs = <<>>)
  /\ R!Init /\ (part # "relay" => relayTabs = <<>>)
  /\ L!Init /\ (part # "updates" => cursor = 0)

Views    == part = "view" /\ V!Next /\ UNCHANGED <<part, vars, relayVars, updateVars, syncVars>>
Relays   == part = "relay" /\ R!Next /\ UNCHANGED <<part, vars, viewVars, updateVars, syncVars>>
Profiles == part = "profile" /\ Next /\ UNCHANGED <<part, viewVars, relayVars, updateVars, syncVars>>
Updates  == part = "updates" /\ L!Next /\ UNCHANGED <<part, vars, viewVars, relayVars, syncVars>>
Syncs    == part = "sync" /\ S!Next /\ UNCHANGED <<part, vars, viewVars, relayVars, updateVars>>

\* The fairness of each, where it is the one of the behaviour.
MCFairSpec ==
  /\ MCInit
  /\ [][Views \/ Relays \/ Profiles \/ Updates \/ Syncs]_<<part, vars, viewVars, relayVars,
                                                          updateVars, syncVars>>
  /\ WF_viewVars(part = "view" /\ V!Work)
  /\ WF_vars(part = "profile" /\ Work)
  /\ WF_updateVars(part = "updates" /\ L!Work)
  /\ WF_syncVars(part = "sync" /\ S!Work)

\* Bounds of the live view: the second page comes where the first is there, looks at the one
\* tab and follows it, and follows too; there, and where calls overlapped, two changes are enough.
SecondIsHere == page[v2].socket # "closed" \/ V!UnderWay(v2) # {}
ViewBound ==
  /\ SecondIsHere => /\ tabs = <<p>> /\ front = None /\ page[v1].wish = Agent
                     /\ (changes = 0 => page[v1].socket # "closed")
  /\ page[v2].wish = Agent
  /\ (SecondIsHere \/ tangled # {}) => changes <= 2

\* Bounds of the updates: a fault comes with one change less, and nothing is on the wire
\* when the last change is made.
UpdatesBound == (faults > 0 => row < MaxWrites) /\ (row = MaxWrites => wire = <<>>)

\* Bounds of the provider: one call besides the scheduler's, and where there is one nothing
\* throws, no sign-in is lost yet and the scheduler's look has succeeded; two syncs overlap at a
\* provider where somebody was signed in, on a screen nobody uses, and both see whether they are.
Idle(c) == callAt[c] = "idle"
Tells(c) == saw[c] \in {"unknown", "error"} => callAt[c] \in {"idle", "due", "waiting", "over"}
OneCall ==
  /\ \A b, c \in {b1, d1, c1, x1} : Idle(b) \/ Idle(c) \/ b = c
  /\ (\E c \in {b1, d1, c1, x1} : ~Idle(c)) => syncFaults = 0 /\ ~alarmed /\ saw[Timer] # "error"
  /\ ~Idle(d1) => /\ everAlive /\ ~inUse /\ platform.status # "error"
                  /\ Tells(d1) /\ Tells(Timer)

Bounds == ViewBound /\ UpdatesBound /\ OneCall

----------------------------------------------------------------------------
\* Every variable of the five has its type.
TypesOK == TypeOK /\ V!TypeOK /\ R!TypeOK /\ L!TypeOK /\ S!TypeOK
=============================================================================
