------------------------------ MODULE LiveView ------------------------------
(***************************************************************************)
(* The live view of the process that holds the browser (src/browser/live.ts *)
(* with public/live.js): each page has a socket, follows the agent or       *)
(* watches one tab, and is attached to that tab's stream.  Attaching waits  *)
(* for the stream; what the viewer is attached to is written down when the  *)
(* wait is over, so an announcement, a message or a close that comes        *)
(* meanwhile does not see it.                                               *)
(***************************************************************************)
EXTENDS Screencast

\* Each attach has a sink of its own: Sinks and Calls are one set of pairs <<viewer, number>>.
CONSTANTS
  Viewers,
  Agent,        \* the choice of a viewer that follows
  MaxChanges    \* bound on the changes of the tabs and of the viewers' wishes

VARIABLES
  page,     \* of each page: what it wants to see, and its socket
  client,   \* the server's side of the socket: the choice it knows, tab and sink attached
  told,     \* followers the announcement under way has not come to
  asked,    \* of each client: how many watch messages wait for their command
  tangled,  \* history: calls that were under way when another began or the viewer left
  orphans,  \* history: sinks that another was noted over, or noted when the viewer had left
  changes

viewVars == <<page, client, told, asked, tangled, orphans, changes>>
vars == <<cast, viewVars>>

TypeOK ==
  /\ CastTypeOK
  /\ page \in [Viewers -> [wish : Platforms \cup {Agent}, socket : {"closed", "new", "open"}]]
  /\ client \in [Viewers -> [choice : Platforms \cup {Agent}, attached : Platforms \cup {None},
                             sink : Sinks \cup {None}, last : Calls \cup {None}]]
  /\ told \subseteq Viewers /\ asked \in [Viewers -> Nat] /\ tangled \cup orphans \subseteq Calls
  /\ changes \in 0..MaxChanges

NoClient == [choice |-> Agent, attached |-> None, sink |-> None, last |-> None]

Init ==
  /\ CastInit
  /\ page = [v \in Viewers |-> [wish |-> Agent, socket |-> "closed"]]
  /\ client = [v \in Viewers |-> NoClient]
  /\ told = {} /\ asked = [v \in Viewers |-> 0] /\ tangled = {} /\ orphans = {} /\ changes = 0

----------------------------------------------------------------------------
Here(v) == page[v].socket # "closed"
CallsOf(v) == {c \in Calls : c[1] = v}
UnderWay(v) == {c \in CallsOf(v) : call[c].at # "none"}
Spare(v) ==
  {c \in CallsOf(v) : /\ call[c].at = "none" /\ client[v].sink # c
                      /\ \A i \in Streams : c \notin stream[i].sinks}

\* targetOf
Target(w) == IF w.choice # Agent THEN w.choice ELSE Shown

\* Mutant of Detached: the sink stays in the stream.
DetachedOnly(w) == stream

\* detach: the sink a client is known to have leaves.
Detached(w) == IF w.attached = None THEN stream ELSE Left(w.attached, w.sink)
NotAttached(w) == [w EXCEPT !.attached = None, !.sink = None]

\* attach, for the client w of v.
Attach(v, w) ==
  \/ /\ w.attached = Target(w)
     /\ client' = [client EXCEPT ![v] = w]
     /\ UNCHANGED <<stream, call, failed, tangled, orphans>>
  \/ /\ w.attached # Target(w) /\ Target(w) = None
     /\ client' = [client EXCEPT ![v] = NotAttached(w)]
     /\ stream' = Detached(w)
     /\ UNCHANGED <<call, failed, tangled, orphans>>
  \/ /\ w.attached # Target(w) /\ Target(w) # None /\ Spare(v) # {}
     /\ LET c == CHOOSE d \in Spare(v) : TRUE IN
          /\ client' = [client EXCEPT ![v] = [NotAttached(w) EXCEPT !.last = c]]
          /\ Acquire(c, Target(w), c, Detached(w))
          /\ tangled' = IF UnderWay(v) = {} THEN tangled \ {c} ELSE tangled \cup UnderWay(v) \cup {c}
          /\ orphans' = orphans \ {c}

\* The stream is there, or was: its client is attached, over what it was attached to by then,
\* and when its viewer has left as well.
Attached(c) ==
  /\ told = {} /\ call[c].at = "starting"
  /\ call' = Over(c)
  /\ client' = [client EXCEPT ![c[1]] = [@ EXCEPT !.attached = call[c].of, !.sink = c]]
  /\ orphans' = orphans \cup ({client[c[1]].sink} \ {None}) \cup (IF Here(c[1]) THEN {} ELSE {c})
  /\ UNCHANGED <<tabs, front, stream, streams, failed, page, told, asked, tangled, changes>>

----------------------------------------------------------------------------
(* The page's socket                                                       *)

\* onConnect: a new client follows the agent until its page says otherwise.  A bound: a page
\* comes again when nothing waits for its last client any more; another page need not wait.
Connect(v) ==
  /\ told = {} /\ page[v].socket = "closed" /\ UnderWay(v) = {} /\ asked[v] = 0
  /\ page' = [page EXCEPT ![v].socket = "new"]
  /\ Attach(v, NoClient)
  /\ UNCHANGED <<tabs, front, streams, told, asked, changes>>

\* A message: follow attaches at once, watch when its command has been applied.
Says(v) ==
  IF page'[v].wish = Agent
    THEN Attach(v, [client[v] EXCEPT !.choice = Agent]) /\ UNCHANGED asked
    ELSE /\ client' = [client EXCEPT ![v].choice = page'[v].wish]
         /\ asked' = [asked EXCEPT ![v] = @ + 1]
         /\ UNCHANGED <<stream, call, failed, tangled, orphans>>

\* The page states its wish when its socket opens ...
Greet(v) ==
  /\ told = {} /\ page[v].socket = "new"
  /\ page' = [page EXCEPT ![v].socket = "open"]
  /\ Says(v)
  /\ UNCHANGED <<tabs, front, streams, told, changes>>

\* ... and whenever it changes.
Wish(v, x) ==
  /\ told = {} /\ page[v].socket = "open" /\ page[v].wish # x
  /\ changes < MaxChanges /\ changes' = changes + 1
  /\ page' = [page EXCEPT ![v].wish = x]
  /\ Says(v)
  /\ UNCHANGED <<tabs, front, streams, told>>

\* The command of a watch message has been applied: its client attaches, whoever has left.
Watch(v) ==
  /\ told = {} /\ asked[v] > 0 /\ asked' = [asked EXCEPT ![v] = @ - 1]
  /\ Attach(v, client[v])
  /\ UNCHANGED <<tabs, front, streams, page, told, changes>>

\* The socket closes, or missed a ping; nothing that waits for the client's sake is stopped.
Leave(v) ==
  /\ told = {} /\ Here(v)
  /\ changes < MaxChanges /\ changes' = changes + 1
  /\ page' = [page EXCEPT ![v].socket = "closed"]
  /\ stream' = Detached(client[v])
  /\ client' = [client EXCEPT ![v] = NotAttached(client[v])]
  /\ tangled' = tangled \cup UnderWay(v)
  /\ UNCHANGED <<tabs, front, streams, call, failed, told, asked, orphans>>

----------------------------------------------------------------------------
(* The tabs: an announcement comes to every follower that looks elsewhere.  *)

Announced == told' = {v \in Viewers : Here(v) /\ client[v].choice = Agent}

Follow(v) ==
  /\ v \in told /\ told' = told \ {v}
  /\ Attach(v, client[v])
  /\ UNCHANGED <<tabs, front, streams, page, asked, changes>>

TabsChange ==
  /\ told = {} /\ changes < MaxChanges /\ changes' = changes + 1
  /\ \A v \in Viewers : Here(v) => Spare(v) # {}   \* a bound: every follower has a call left
  /\ \E p \in Platforms : OpenTab(p) \/ SetActive(p) \/ CloseTab(p)
  /\ Announced
  /\ UNCHANGED <<page, client, asked, tangled, orphans>>

Opens(c) == told = {} /\ (Open(c) \/ OpenFails(c)) /\ UNCHANGED viewVars
Stops(i) == told = {} /\ StopTimer(i) /\ UNCHANGED viewVars

Work ==
  \/ \E c \in Calls : Opens(c) \/ Attached(c)
  \/ \E i \in Streams : Stops(i)
  \/ \E v \in Viewers : Greet(v) \/ Watch(v) \/ Follow(v)
Next ==
  \/ Work \/ TabsChange
  \/ \E v \in Viewers : Connect(v) \/ Leave(v) \/ \E x \in Platforms \cup {Agent} : Wish(v, x)

Spec == Init /\ [][Next]_vars

\* What the process does by itself is done; no page has to come, no tab to change.
Fairness == WF_vars(Work)
FairSpec == Spec /\ Fairness

----------------------------------------------------------------------------
(* Properties                                                              *)

\* A sink in a tab's stream is waited for by its attach, or is the one its client is attached
\* by, whose viewer is here and attached to that tab.  Attaches overlap each other, the
\* announcements and the viewer's leaving, and only two steps lose a sink: an attach that
\* returns writes over what another one had noted (live.ts:216-217), and one that returns when
\* the viewer has left notes it where nobody looks any more (live.ts:363-368 resumed after
\* live.ts:167-175).  Those take frames for as long as the tab is open.
FramesOfOneTab ==
  \A i \in Streams : \A k \in stream[i].sinks \ orphans :
    IsMapped(i) =>
      \/ call[k].at # "none"
      \/ Here(k[1]) /\ client[k[1]].sink = k /\ client[k[1]].attached = stream[i].of

\* The client has come to rest, and nothing came in the way of its last attach.
Settled(v) ==
  /\ page[v].socket = "open" /\ v \notin told /\ asked[v] = 0 /\ UnderWay(v) = {}
  /\ client[v].last \notin tangled \cup failed

\* A client at rest is attached to the tab its page wants; a follower takes its frames.
ShowsItsTab ==
  \A v \in Viewers : Settled(v) =>
    /\ client[v].choice = page[v].wish
    /\ client[v].attached = Target(client[v])
    /\ client[v].choice = Agent /\ client[v].attached # None =>
         \E i \in Streams : stream[i].of = client[v].attached /\ client[v].sink \in stream[i].sinks

\* A stream nobody watches stops, also when its viewers left while they were being attached to
\* it, unless one of them was noted there after it had left, or another was noted over it.
UnwatchedStops ==
  []<>(\A i \in Streams : IsMapped(i) => \E k \in stream[i].sinks : Here(k[1]) \/ k \in orphans)
=============================================================================
