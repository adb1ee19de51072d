------------------------------ MODULE Screens ------------------------------
(***************************************************************************)
(* What people are shown, side by side: the profile that automation and    *)
(* sign-in window take in turns, the live view where the browser is, its   *)
(* relay to other processes, the updates of a page, and what is known of a *)
(* provider's session.  Each has variables of its own; this module names   *)
(* them, and states what is assumed of the names and limits of all.        *)
(***************************************************************************)
EXTENDS Profile

CONSTANTS
  Platforms, Viewers, Agent, ViewStreams, ViewCalls,       \* the live view
  RelayPlatforms, Apis, RelayStreams, RelaySinks, RelayCalls,
  MaxChanges, MaxOutages,
  MaxWrites, Conns, BufferMax, BatchMax, ReplayMax,        \* the updates of a page
  SyncsAsked, Direct, Checks, Chats, Timer, Nobody, Unread, \* a provider's session
  MaxFaults

\* Nothing else is called None, a follower's choice is no tab, and calls are their viewers'.
ViewNames ==
  /\ None \notin Platforms /\ None \notin ViewCalls /\ None \notin ViewStreams
  /\ Agent \notin Platforms
  /\ \A c \in ViewCalls : c[1] \in Viewers
RelayNames == None \notin RelayPlatforms /\ None \notin RelaySinks /\ None \notin RelayStreams

\* The limits are numbers, the row has changed once, and a buffer has room for an announcement.
UpdateLimits == MaxWrites \in Nat \ {0} /\ BufferMax \in Nat \ {0} /\ BatchMax \in Nat

ASSUME NamesAssumption == ViewNames /\ RelayNames
ASSUME LimitsAssumption ==
  UpdateLimits /\ MaxChanges \in Nat /\ MaxOutages \in Nat /\ MaxFaults \in Nat

VARIABLES
  tabs, front, stream, streams, call, failed, page, client, told, asking, tangled, orphans,
  changes,
  relayTabs, relayFront, relayStream, relayStreams, relayCall, relayFailed, watched, wants,
  serves, relayTangled, relayChanges, outages,
  row, buffer, batch, log, wire, sub, expanding, stage, closing, sent, rows, link, pipe,
  cursor, loads, resynced, shown, heard, missed, faults,
  platform, callAt, before, saw, todo, got, lock, running, timer, inUse, alive, everAlive,
  alarmed, syncFaults

V == INSTANCE LiveView WITH
  Streams <- ViewStreams, Sinks <- ViewCalls, Calls <- ViewCalls, asked <- asking
R == INSTANCE LiveRelay WITH
  Platforms <- RelayPlatforms, Streams <- RelayStreams, Sinks <- RelaySinks, Calls <- RelayCalls,
  tabs <- relayTabs, front <- relayFront, stream <- relayStream, streams <- relayStreams,
  call <- relayCall, failed <- relayFailed, tangled <- relayTangled, changes <- relayChanges
L == INSTANCE LiveUpdates WITH MaxChanges <- MaxWrites, told <- heard, slipped <- missed
S == INSTANCE ProviderSync WITH
  Asked <- SyncsAsked, Tick <- Timer, row <- platform, pc <- callAt, verdict <- saw, faults <- syncFaults

viewVars    == <<tabs, front, stream, streams, call, failed, page, client, told, asking,
                 tangled, orphans, changes>>
relayVars   == <<relayTabs, relayFront, relayStream, relayStreams, relayCall, relayFailed,
                 watched, wants, serves, relayTangled, relayChanges, outages>>
updateVars  == <<row, buffer, batch, log, wire, sub, expanding, stage, closing, sent, rows, link,
                 pipe, cursor, loads, resynced, shown, heard, missed, faults>>
syncVars    == <<platform, callAt, before, saw, todo, got, lock, running, timer, inUse, alive,
                 everAlive, alarmed, syncFaults>>

----------------------------------------------------------------------------
(* Their properties; each is stated where its component is modelled.        *)

FramesOfOneTab == V!FramesOfOneTab
ShowsItsTab == V!ShowsItsTab
UnwatchedStops == V!UnwatchedStops
SinksOfWants == R!SinksOfWants
LogKeepsOrder == L!LogKeepsOrder
EveryChangeIsTold == L!EveryChangeIsTold
NothingWithoutEvidence == S!NothingWithoutEvidence
StaleStatusHeals == S!StaleStatusHeals
=============================================================================
