----------------------------- MODULE LiveRelay -----------------------------
(***************************************************************************)
(* The relay of the live view (src/browser/live-relay.ts): API processes   *)
(* without a browser say over Redis which tabs their viewers watch, every  *)
(* three seconds and on each change; the relay keeps a want per tab with   *)
(* one sink, which publishes the frames, and drops the wants nobody has    *)
(* repeated for ten seconds.  A message is handled while earlier ones      *)
(* still wait for their streams.                                           *)
(***************************************************************************)
EXTENDS Screencast

\* Sinks and Calls are pairs <<platform, number>>.
CONSTANTS
  Apis,
  MaxChanges,   \* bound on the changes of the tabs and of what is watched
  MaxOutages    \* bound on the times a want lapses though it is wanted or being served

VARIABLES
  watched,   \* wantedNow: the tabs that the viewers of an API process are attached to
  wants,     \* the relay's: its sink, whether it has been heard of lately, whether it is attached
  serves,    \* the want, by its sink, that a call was made for
  tangled,   \* history: sinks with two calls at once, or whose want was dropped during one
  changes, outages

relayVars == <<watched, wants, serves, tangled, changes, outages>>
vars == <<cast, relayVars>>

NoWant == [sink |-> None, fresh |-> FALSE, attached |-> FALSE]

TypeOK ==
  /\ CastTypeOK
  /\ watched \in [Apis -> SUBSET Platforms]
  /\ wants \in [Platforms -> [sink : Sinks \cup {None}, fresh : BOOLEAN, attached : BOOLEAN]]
  /\ serves \in [Calls -> Sinks \cup {None}] /\ tangled \subseteq Sinks
  /\ changes \in 0..MaxChanges /\ outages \in 0..MaxOutages

Init ==
  /\ CastInit
  /\ watched = [a \in Apis |-> {}] /\ wants = [p \in Platforms |-> NoWant]
  /\ serves = [c \in Calls |-> None] /\ tangled = {} /\ changes = 0 /\ outages = 0

----------------------------------------------------------------------------
Wanted(p) == wants[p].sink # None
CallsOn(k) == {c \in Calls : call[c].at # "none" /\ serves[c] = k}
SpareCalls(p) == {c \in Calls : c[1] = p /\ call[c].at = "none"}
SpareSinks(p) ==
  {k \in Sinks : k[1] = p /\ CallsOn(k) = {} /\ \A i \in Streams : k \notin stream[i].sinks}

\* A viewer of an API process comes to a tab; the last one of it leaves; the process dies.
Watch(a, p) ==
  /\ changes < MaxChanges /\ changes' = changes + 1
  /\ p \notin watched[a] /\ watched' = [watched EXCEPT ![a] = @ \cup {p}]
  /\ UNCHANGED <<cast, wants, serves, tangled, outages>>
Unwatch(a, ps) ==
  /\ changes < MaxChanges /\ changes' = changes + 1
  /\ ps # {} /\ ps \subseteq watched[a] /\ watched' = [watched EXCEPT ![a] = @ \ ps]
  /\ UNCHANGED <<cast, wants, serves, tangled, outages>>

\* One want of a "watching" message.
Hear(a, p) ==
  /\ p \in watched[a]
  /\ IF Wanted(p) /\ wants[p].attached
       THEN /\ ~wants[p].fresh /\ wants' = [wants EXCEPT ![p].fresh = TRUE]
            /\ UNCHANGED <<stream, call, failed, serves, tangled>>
       ELSE \E k \in Sinks :
              /\ IF Wanted(p) THEN k = wants[p].sink
                              ELSE SpareSinks(p) # {} /\ k = CHOOSE s \in SpareSinks(p) : TRUE
              /\ SpareCalls(p) # {}
              /\ LET c == CHOOSE d \in SpareCalls(p) : TRUE IN
                   Acquire(c, p, k, stream) /\ serves' = [serves EXCEPT ![c] = k]
              /\ wants' = [wants EXCEPT ![p] = [sink |-> k, fresh |-> TRUE, attached |-> FALSE]]
              /\ tangled' = IF CallsOn(k) # {} THEN tangled \cup {k}
                            ELSE IF Wanted(p) THEN tangled ELSE tangled \ {k}
  /\ UNCHANGED <<tabs, front, streams, watched, changes, outages>>

\* The call returns to its handler, which notes the outcome in the want it came for.
Returned(c, attached) ==
  wants' = [p \in Platforms |->
    IF wants[p].sink = serves[c] THEN [wants[p] EXCEPT !.attached = attached] ELSE wants[p]]

Opens(c) ==
  /\ \/ Open(c) /\ UNCHANGED wants
     \/ OpenFails(c) /\ Returned(c, FALSE)
  /\ UNCHANGED <<watched, serves, tangled, changes, outages>>

Attached(c) ==
  /\ call[c].at = "starting" /\ call' = Over(c)
  /\ Returned(c, TRUE)
  /\ UNCHANGED <<tabs, front, stream, streams, failed, watched, serves, tangled, changes, outages>>

Stops(i) == StopTimer(i) /\ UNCHANGED relayVars

\* Ten seconds without a message about the tab.  An outage that long, of Redis or of a
\* browser that does not answer a call, is a fault.
Lapse(p) ==
  /\ Wanted(p) /\ wants[p].fresh /\ wants' = [wants EXCEPT ![p].fresh = FALSE]
  /\ IF CallsOn(wants[p].sink) # {} \/ \E a \in Apis : p \in watched[a]
       THEN outages < MaxOutages /\ outages' = outages + 1
       ELSE UNCHANGED outages
  /\ UNCHANGED <<cast, watched, serves, tangled, changes>>

\* Mutant of Released: the relay forgets the want and not its sink.
ReleasedNever(p) == stream

\* Only what is noted as attached is released.
Released(p) == IF wants[p].attached THEN Left(p, wants[p].sink) ELSE stream

Reap(p) ==
  /\ Wanted(p) /\ ~wants[p].fresh
  /\ wants' = [wants EXCEPT ![p] = NoWant]
  /\ stream' = Released(p)
  /\ tangled' = IF CallsOn(wants[p].sink) # {} THEN tangled \cup {wants[p].sink} ELSE tangled
  /\ UNCHANGED <<tabs, front, streams, call, failed, watched, serves, changes, outages>>

TabsChange ==
  /\ changes < MaxChanges /\ changes' = changes + 1
  /\ \E p \in Platforms :
       \/ OpenTab(p) /\ UNCHANGED wants
       \/ CloseTab(p) /\ wants' = [wants EXCEPT ![p].attached =
            @ /\ \A c \in CallsOn(wants[p].sink) : call[c].at # "opening"]
  /\ UNCHANGED <<watched, serves, tangled, outages>>

Next ==
  \/ \E a \in Apis, p \in Platforms : Watch(a, p) \/ Hear(a, p)
  \/ \E a \in Apis, ps \in SUBSET Platforms : Unwatch(a, ps)
  \/ \E c \in Calls : Opens(c) \/ Attached(c)
  \/ \E i \in Streams : Stops(i)
  \/ \E p \in Platforms : Lapse(p) \/ Reap(p)
  \/ TabsChange

Spec == Init /\ [][Next]_vars

\* Messages of a living API process arrive, the calls return, the clocks run.
Fairness ==
  /\ \A a \in Apis, p \in Platforms : WF_vars(Hear(a, p))
  /\ \A c \in Calls : WF_vars(Opens(c)) /\ WF_vars(Attached(c))
  /\ \A i \in Streams : WF_vars(Stops(i))
  /\ \A p \in Platforms : WF_vars(Lapse(p)) /\ WF_vars(Reap(p))
FairSpec == Spec /\ Fairness

----------------------------------------------------------------------------
(* Properties                                                              *)

\* A stream's sinks are those of the wants there are, unless two messages asked for one
\* stream at once or the want was dropped while its stream was being opened.
SinksOfWants ==
  \A i \in Streams : \A k \in stream[i].sinks :
    IsMapped(i) /\ k \notin tangled => wants[stream[i].of].sink = k

\* "A platform nobody refreshed drops out; a dead api instance costs one TTL, not a stream
\* forever." (live-relay.ts:106)  Violated: two messages open two streams of one tab, the
\* map knows the second, and the sink stays in the first.
DeadApiCostsOneTTL ==
  []<>((\E a \in Apis : watched[a] # {}) \/ \A i \in Streams : ~Running(i))
=============================================================================
