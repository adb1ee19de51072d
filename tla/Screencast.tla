----------------------------- MODULE Screencast -----------------------------
(***************************************************************************)
(* The screencast source (src/browser/live-stream.ts) in the process that  *)
(* holds the browser: one stream of frames per tab, started for the first  *)
(* sink and stopped three seconds after the last one left.  A sink is      *)
(* somebody who takes the frames.  LiveView has the viewers of this        *)
(* process, LiveRelay stands in for those of others.                       *)
(*                                                                         *)
(* One workspace.  Frames and their quality are left out: a call may have  *)
(* to wait for the screencast to be started at another level, or not.      *)
(***************************************************************************)
EXTENDS Naturals, Sequences, FiniteSets, SequencesExt

CONSTANTS
  Platforms,
  Streams,    \* names for streams, reused once stopped
  Sinks,
  Calls,      \* activations of acquireStream
  None

VARIABLES
  tabs,      \* consolePages: the platforms with an open tab, in the order they were opened
  front,     \* activePlatform
  stream,    \* the running streams: of which tab, for which sinks, about to stop
  streams,   \* the streams map
  call,      \* the calls of acquireStream under way
  failed     \* history: calls that found no tab or no CDP session, calls and sinks whose tab closed

cast == <<tabs, front, stream, streams, call, failed>>

Stopped == [of |-> None, sinks |-> {}, stopTimer |-> FALSE]
NoCall  == [at |-> "none", of |-> None, sink |-> None]

CastTypeOK ==
  /\ tabs \in Seq(Platforms) /\ IsInjective(tabs) /\ front \in ToSet(tabs) \cup {None}
  /\ stream \in [Streams -> [of : Platforms \cup {None}, sinks : SUBSET Sinks, stopTimer : BOOLEAN]]
  /\ streams \in [Platforms -> Streams \cup {None}]
  /\ \A p \in Platforms : streams[p] # None => stream[streams[p]].of = p /\ p \in ToSet(tabs)
  /\ call \in [Calls -> [at : {"none", "opening", "starting"}, of : Platforms \cup {None},
                         sink : Sinks \cup {None}]]
  /\ failed \subseteq Calls \cup Sinks

CastInit ==
  /\ tabs \in {<<>>} \cup {<<p>> : p \in Platforms} /\ front = None
  /\ stream = [i \in Streams |-> Stopped] /\ streams = [p \in Platforms |-> None]
  /\ call = [c \in Calls |-> NoCall] /\ failed = {}

----------------------------------------------------------------------------
(* acquireStream and releaseStream                                          *)

Running(i) == stream[i].of # None
IsMapped(i) == Running(i) /\ streams[stream[i].of] = i
TabOf(p) == p \in ToSet(tabs)

\* Mutant of Joined: a stream that was about to stop still does.
JoinedTooLate(s, i, k) == [s EXCEPT ![i].sinks = @ \cup {k}]

\* The streams when a sink has joined one, which does not stop then.
Joined(s, i, k) == [s EXCEPT ![i].sinks = @ \cup {k}, ![i].stopTimer = FALSE]

\* Mutant of Left: nothing is set up to stop the stream.
LeftRunning(p, k) ==
  IF streams[p] = None THEN stream ELSE [stream EXCEPT ![streams[p]].sinks = @ \ {k}]

\* The streams when a sink has left the one its tab has now.
Left(p, k) ==
  LET i == streams[p] IN
  IF i = None THEN stream
  ELSE [stream EXCEPT ![i].sinks = @ \ {k}, ![i].stopTimer = @ \/ stream[i].sinks \subseteq {k}]

Waiting(c, at, p, k) == [call EXCEPT ![c] = [at |-> at, of |-> p, sink |-> k]]
Over(c) == [call EXCEPT ![c] = NoCall]

\* A call joins the tab's stream and may have to wait for the screencast; without a stream
\* it opens a CDP session; without a tab it is told so.  s are the streams as it finds them.
Acquire(c, p, k, s) ==
  \/ /\ streams[p] # None
     /\ stream' = Joined(s, streams[p], k)
     /\ call' = Waiting(c, "starting", p, k)
     /\ failed' = failed \ {c}
  \/ /\ streams[p] = None /\ TabOf(p)
     /\ stream' = s
     /\ call' = Waiting(c, "opening", p, k)
     /\ failed' = failed \ {c}
  \/ /\ streams[p] = None /\ ~TabOf(p)
     /\ stream' = s
     /\ UNCHANGED call
     /\ failed' = failed \cup {c}

Free == {i \in Streams : ~Running(i)}

\* The session is open: its stream enters the map, whatever is there by now.
Open(c) ==
  /\ call[c].at = "opening" /\ Free # {}
  /\ LET i == CHOOSE f \in Free : TRUE
         tab == call[c].of IN
       /\ stream' = [stream EXCEPT ![i] = [of |-> tab, sinks |-> {call[c].sink}, stopTimer |-> FALSE]]
       /\ streams' = [streams EXCEPT ![tab] = i]
       /\ call' = Waiting(c, "starting", tab, call[c].sink)
  /\ UNCHANGED <<tabs, front, failed>>

OpenFails(c) ==
  /\ call[c].at = "opening"
  /\ call' = Over(c) /\ failed' = failed \cup {c}
  /\ UNCHANGED <<tabs, front, stream, streams>>

----------------------------------------------------------------------------
(* stopStream                                                              *)

\* Three seconds without a sink.
StopTimer(i) ==
  /\ Running(i) /\ stream[i].stopTimer
  /\ stream' = [stream EXCEPT ![i] = Stopped]
  /\ streams' = [p \in Platforms |-> IF streams[p] = i THEN None ELSE streams[p]]
  /\ UNCHANGED <<tabs, front, call, failed>>

----------------------------------------------------------------------------
(* The tabs (BrowserManager); every change is announced                     *)

\* The tab to look at: the one in front, else the first.
Shown == IF front = None /\ tabs # <<>> THEN Head(tabs) ELSE front

OpenTab(p) ==
  /\ ~TabOf(p)
  /\ tabs' = Append(tabs, p)
  /\ UNCHANGED <<front, stream, streams, call, failed>>

SetActive(p) ==
  /\ TabOf(p) /\ front # p
  /\ front' = p
  /\ UNCHANGED <<tabs, stream, streams, call, failed>>

\* A closing tab stops its streams, which drops their sinks.  A call that opens a session
\* on it fails; one that waits for the screencast returns as if all was well.
CloseTab(p) ==
  /\ \E n \in DOMAIN tabs : tabs[n] = p /\ tabs' = RemoveAt(tabs, n)
  /\ front' = IF front = p THEN None ELSE front
  /\ stream' = [i \in Streams |-> IF stream[i].of = p THEN Stopped ELSE stream[i]]
  /\ streams' = [streams EXCEPT ![p] = None]
  /\ call' = [c \in Calls |-> IF call[c].at = "opening" /\ call[c].of = p THEN NoCall ELSE call[c]]
  /\ failed' = failed \cup {c \in Calls : call[c].of = p}
                       \cup UNION {stream[i].sinks : i \in {j \in Streams : stream[j].of = p}}
=============================================================================
