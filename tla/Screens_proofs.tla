---------------------------- MODULE Screens_proofs ----------------------------
(***************************************************************************)
(* Proofs about what people are shown: the live view where the browser is, *)
(* for any number of viewers, tabs and streams; its relay, for any number  *)
(* of processes; the updates of a page, for any number of changes, of      *)
(* connections and of faults, and any size of buffers and batches; and     *)
(* what is known of a provider's session, for any number of syncs, checks  *)
(* and chats.  Each theorem is about the specification of one of them.     *)
(***************************************************************************)
EXTENDS Screens, SequenceTheorems, TLAPS

\* The records that the variables of the screencast, its viewers and its relay hold.
AStream(P, K) == [of : P \cup {None}, sinks : SUBSET K, stopTimer : BOOLEAN]
ACall(P, K) ==
  [at : {"none", "opening", "starting"}, of : P \cup {None}, sink : K \cup {None}]
AClient ==
  [choice : Platforms \cup {Agent}, attached : Platforms \cup {None},
   sink : ViewCalls \cup {None}, last : ViewCalls \cup {None}]
APage == [wish : Platforms \cup {Agent}, socket : {"closed", "new", "open"}]
AWant == [sink : RelaySinks \cup {None}, fresh : BOOLEAN, attached : BOOLEAN]

USE DEF AStream, ACall, AClient, APage, AWant

----------------------------------------------------------------------------
(* The live view                                                           *)
(*                                                                         *)
(* A viewer has calls and sinks of its own, so what holds is said of one   *)
(* viewer at a time: a step of another one does not touch it.  The calls   *)
(* that nothing came between are alone; the last of them is the one that   *)
(* the page shows when it has returned.                                    *)

ViewCast ==
  /\ tabs \in Seq(Platforms)
  /\ stream \in [ViewStreams -> AStream(Platforms, ViewCalls)]
  /\ streams \in [Platforms -> ViewStreams \cup {None}]
  /\ \A t \in Platforms : streams[t] # None => stream[streams[t]].of = t /\ V!TabOf(t)
  /\ call \in [ViewCalls -> ACall(Platforms, ViewCalls)]
  /\ \A i \in ViewStreams : /\ stream[i].of = None => stream[i].sinks = {}
                            /\ stream[i].stopTimer => stream[i].sinks = {}
  /\ front \in Platforms \cup {None}

ViewTyped ==
  /\ page \in [Viewers -> APage]
  /\ client \in [Viewers -> AClient]
  /\ told \subseteq {v \in Viewers : V!Here(v)}
  /\ tangled \subseteq ViewCalls /\ failed \subseteq ViewCalls /\ orphans \subseteq ViewCalls
  /\ asking \in [Viewers -> Nat]

\* Something that is to attach the client has yet to come to it.
Expects(v) == v \in told \/ asking[v] # 0

\* Its sink and its last call are its own; one that has left holds a sink nobody looks for.
ClientIsTheirs(v, w) ==
  /\ w.sink # None => w.sink \in V!CallsOf(v)
  /\ w.last # None => w.last \in V!CallsOf(v)
  /\ w.attached = None <=> w.sink = None
  /\ ~V!Here(v) /\ w.sink # None => w.sink \in orphans

\* A call has the sink it was made for, which is in no stream before it has come to one.
CallsAreTheirs(v, w) ==
  \A c \in V!UnderWay(v) :
    /\ call[c].of \in Platforms /\ call[c].sink = c
    /\ w.sink # c
    /\ \A i \in ViewStreams : c \in stream[i].sinks =>
         call[c].at = "starting" /\ stream[i].of = call[c].of
    /\ call[c].at = "opening" \/ c \notin failed => V!TabOf(call[c].of)
    /\ call[c].at = "starting" /\ c \notin failed =>
         \E i \in ViewStreams : stream[i].of = call[c].of /\ c \in stream[i].sinks

\* A call that nothing came between is the only one of its client, who waits for it; and a
\* client that is attached by such a call has no other under way.
CallsAreAlone(v, w) ==
  /\ \A c \in V!UnderWay(v) \ tangled : V!UnderWay(v) = {c} /\ w.sink = None
  /\ w.sink # None /\ w.sink \notin tangled => V!UnderWay(v) = {}

\* The last call of a client, if nothing came between, is the one it is attached by, and its
\* sink is there unless the call failed or the tab closed;
LastIsLast(v, w) ==
  w.last \notin tangled =>
    /\ \A c \in V!UnderWay(v) : c = w.last
    /\ w.attached # None => w.sink = w.last
    /\ w.attached # None /\ w.last \notin failed =>
         \E i \in ViewStreams : stream[i].of = w.attached /\ w.sink \in stream[i].sinks

\* and then it goes to the tab that the viewer is to see.
LastIsRight(v) ==
  client[v].last \notin tangled \cup failed =>
    IF V!UnderWay(v) = {} THEN client[v].attached = V!Target(client[v])
                          ELSE call[client[v].last].of = V!Target(client[v])

\* A page and the server agree on what it wants to see.
WishIsKnown(v) ==
  /\ page[v].socket = "open" => client[v].choice = page[v].wish
  /\ page[v].socket = "new" => client[v].choice = Agent

\* FramesOfOneTab, of the frames that go to v.
FramesAreTheirs(v, w) ==
  \A i \in ViewStreams : \A k \in stream[i].sinks \ orphans :
    V!IsMapped(i) /\ k[1] = v =>
      call[k].at # "none" \/ (V!Here(v) /\ w.sink = k /\ w.attached = stream[i].of)

\* What holds of a client of v, here or gone, whatever it has chosen to see.
Held(v, w) ==
  /\ ClientIsTheirs(v, w) /\ CallsAreTheirs(v, w) /\ CallsAreAlone(v, w)
  /\ LastIsLast(v, w) /\ FramesAreTheirs(v, w)

Served(v) ==
  /\ Held(v, client[v])
  /\ V!Here(v) /\ ~Expects(v) => LastIsRight(v)
  /\ WishIsKnown(v)

ViewInv == ViewCast /\ ViewTyped /\ \A v \in Viewers : Served(v)

\* Where there is a tab, there is one to look at.
LEMMA SomethingShown ==
  ASSUME ViewNames, ViewCast, NEW w, V!Target(w) = None, w.choice \in Platforms \cup {Agent}
  PROVE  \A t \in Platforms : ~V!TabOf(t)
<1>1. V!Shown = None BY DEF V!Target, ViewNames
<1>2. CASE tabs = <<>> BY <1>2 DEF V!TabOf, V!ToSet
<1>3. CASE tabs # <<>>
  <2>1. Head(tabs) \in Platforms BY <1>3, HeadTailProperties DEF ViewCast
  <2>. QED BY <1>1, <1>3, <2>1 DEF V!Shown, ViewNames
<1>. QED BY <1>2, <1>3

LEMMA InitView == ASSUME ViewNames, V!Init PROVE ViewInv
<1>. USE DEF V!Init, V!CastInit
<1>1. /\ \A i \in ViewStreams : stream[i] = V!Stopped /\ ~V!Running(i)
      /\ \A c \in ViewCalls : call[c] = V!NoCall /\ call[c].at = "none"
  BY DEF V!NoCall, V!Stopped, V!Running
<1>2. ViewCast
  <2>1. tabs \in Seq(Platforms)
    <3>1. CASE tabs = <<>> BY <3>1
    <3>2. CASE \E t \in Platforms : tabs = <<t>> BY <3>2
    <3>. QED BY <3>1, <3>2
  <2>2. \A i \in ViewStreams : stream[i].sinks = {} /\ ~stream[i].stopTimer BY <1>1 DEF V!Stopped
  <2>3. \A t \in Platforms : streams[t] = None OBVIOUS
  <2>. QED BY <2>1, <2>2, <2>3 DEF ViewCast, V!Stopped, V!NoCall
<1>3. ViewTyped BY DEF ViewTyped, V!NoClient
<1>4. ASSUME NEW v \in Viewers PROVE Served(v)
  <2>1. /\ client[v] = V!NoClient /\ ~V!Here(v) /\ V!UnderWay(v) = {}
        /\ page[v].socket = "closed"
    BY <1>1 DEF V!Here, V!UnderWay, V!CallsOf
  <2>. QED
    BY <1>1, <2>1 DEF Served, Held, ClientIsTheirs, CallsAreTheirs, CallsAreAlone, WishIsKnown,
                      LastIsLast, FramesAreTheirs, V!NoClient, V!Stopped
<1>. QED BY <1>2, <1>3, <1>4 DEF ViewInv

\* A step of one viewer leaves the others alone.
LEMMA OnlyOne ==
  ASSUME ViewNames, ViewInv, ViewCast', ViewTyped', UNCHANGED <<tabs, front, streams>>,
         NEW v \in Viewers, Served(v)',
         \A i \in ViewStreams :
           /\ stream'[i].of = stream[i].of
           /\ \A c \in ViewCalls : c[1] # v => (c \in stream'[i].sinks <=> c \in stream[i].sinks),
         \A c \in ViewCalls : c[1] # v => /\ call'[c] = call[c]
                                          /\ c \in tangled' <=> c \in tangled
                                          /\ c \in orphans' <=> c \in orphans
                                          /\ c \in failed' <=> c \in failed,
         \A u \in Viewers : u # v => /\ client'[u] = client[u] /\ page'[u] = page[u]
                                     /\ Expects(u)' <=> Expects(u)
  PROVE  ViewInv'
<1>. SUFFICES ASSUME NEW u \in Viewers, u # v PROVE Served(u)'
  BY DEF ViewInv
<1>1. Served(u) BY DEF ViewInv
<1>2. /\ V!UnderWay(u)' = V!UnderWay(u) /\ V!CallsOf(u) \subseteq ViewCalls
      /\ \A c \in V!CallsOf(u) : c[1] = u
      /\ V!Here(u)' <=> V!Here(u)
      /\ V!Target(client[u])' = V!Target(client[u])
      /\ \A c \in V!UnderWay(u) : V!TabOf(call[c].of)' = V!TabOf(call[c].of) /\ c \in V!CallsOf(u)
      /\ \A i \in ViewStreams : V!IsMapped(i)' = V!IsMapped(i)
  BY DEF V!UnderWay, V!CallsOf, V!Here, V!Target, V!Shown, V!TabOf, V!IsMapped, V!Running
<1>3. \A i \in ViewStreams : stream'[i].sinks \subseteq ViewCalls BY DEF ViewCast
<1>4. ClientIsTheirs(u, client[u])' BY <1>1, <1>2 DEF Served, Held, ClientIsTheirs, V!CallsOf
<1>5. CallsAreTheirs(u, client[u])' BY <1>1, <1>2 DEF Served, Held, CallsAreTheirs
<1>6. CallsAreAlone(u, client[u])' BY <1>1, <1>2 DEF Served, Held, CallsAreAlone, ClientIsTheirs
<1>7. client[u].last \in V!CallsOf(u) \/ client[u].last = None
  BY <1>1 DEF Served, Held, ClientIsTheirs
<1>8. client[u].last \in tangled' <=> client[u].last \in tangled
  BY <1>2, <1>7 DEF ViewInv, ViewTyped, ViewNames
<1>9. LastIsLast(u, client[u])' BY <1>1, <1>2, <1>7, <1>8 DEF Served, Held, LastIsLast, ClientIsTheirs
<1>10. client[u].last \in failed' <=> client[u].last \in failed
  BY <1>2, <1>7 DEF ViewInv, ViewTyped, ViewNames
<1>11. V!Here(u)' /\ ~Expects(u)' => LastIsRight(u)'
  <2>. SUFFICES ASSUME V!Here(u), ~Expects(u), client[u].last \notin tangled \cup failed
                PROVE  IF V!UnderWay(u) = {} THEN client[u].attached = V!Target(client[u])
                                            ELSE call'[client[u].last].of = V!Target(client[u])
    BY <1>2, <1>8, <1>10 DEF LastIsRight
  <2>1. IF V!UnderWay(u) = {} THEN client[u].attached = V!Target(client[u])
                             ELSE call[client[u].last].of = V!Target(client[u])
    BY <1>1 DEF Served, Held, LastIsRight
  <2>2. V!UnderWay(u) # {} => client[u].last \in V!UnderWay(u)
    BY <1>1 DEF Served, Held, LastIsLast
  <2>. QED BY <1>2, <2>1, <2>2 DEF V!CallsOf
<1>12. WishIsKnown(u)' BY <1>1 DEF Served, WishIsKnown
<1>13. FramesAreTheirs(u, client[u])'
  BY <1>1, <1>2, <1>3 DEF Served, Held, FramesAreTheirs
<1>14. Held(u, client[u])' BY <1>4, <1>5, <1>6, <1>9, <1>13 DEF Held
<1>. QED BY <1>11, <1>12, <1>14 DEF Served

\* The sink of a client leaves; the stream is the one its tab has.
LEMMA SinkLeaves ==
  ASSUME ViewNames, ViewInv, NEW v \in Viewers, NEW w \in AClient, Held(v, w),
         NEW s, s = V!Detached(w)
  PROVE  /\ s \in [ViewStreams -> AStream(Platforms, ViewCalls)]
         /\ \A i \in ViewStreams :
              /\ s[i].of = stream[i].of
              /\ s[i].stopTimer => s[i].sinks = {}
              /\ s[i].sinks \subseteq stream[i].sinks
              /\ \A c \in stream[i].sinks : c # w.sink => c \in s[i].sinks
         /\ \A i \in ViewStreams : \A k \in s[i].sinks \ orphans :
              V!IsMapped(i) /\ k[1] = v => call[k].at # "none"
<1>. USE DEF ViewInv
<1>. DEFINE k == w.sink
            j == streams[w.attached]
<1>2. CASE w.attached = None \/ j = None
  <2>1. s = stream BY <1>2 DEF V!Detached, V!Left
  <2>2. ASSUME NEW i \in ViewStreams, NEW l \in stream[i].sinks \ orphans, V!IsMapped(i), l[1] = v
        PROVE  call[l].at # "none"
    <3>1. call[l].at # "none" \/ (w.sink = l /\ w.attached = stream[i].of)
      BY <2>2 DEF Held, FramesAreTheirs
    <3>2. stream[i].of # None /\ streams[stream[i].of] = i /\ i # None
      BY <2>2 DEF V!IsMapped, V!Running, ViewNames
    <3>. QED BY <1>2, <3>1, <3>2
  <2>. QED BY <2>1, <2>2 DEF ViewCast
<1>3. CASE w.attached # None /\ j # None
  <2>1. w.attached \in Platforms /\ j \in ViewStreams BY <1>3 DEF ViewCast
  <2>2. s = [stream EXCEPT ![j].sinks = @ \ {k}, ![j].stopTimer = @ \/ stream[j].sinks \subseteq {k}]
    BY <1>3 DEF V!Detached, V!Left
  <2>3. PICK b \in BOOLEAN : /\ s = [stream EXCEPT ![j].sinks = @ \ {k}, ![j].stopTimer = b]
                             /\ b => stream[j].stopTimer \/ stream[j].sinks \subseteq {k}
    <3>1. (stream[j].stopTimer \/ stream[j].sinks \subseteq {k}) \in BOOLEAN OBVIOUS
    <3>. QED BY <2>2, <3>1
  <2>8. stream[j] \in AStream(Platforms, ViewCalls)
    BY <2>1 DEF ViewCast
  <2>9. [stream[j] EXCEPT !.sinks = @ \ {k}, !.stopTimer = b]
          \in AStream(Platforms, ViewCalls)
    BY <2>8
  <2>10. /\ s[j] = [stream[j] EXCEPT !.sinks = @ \ {k}, !.stopTimer = b]
         /\ \A i \in ViewStreams : i # j => s[i] = stream[i]
         /\ DOMAIN s = ViewStreams /\ s = [i \in DOMAIN s |-> s[i]]
    BY <2>1, <2>3 DEF ViewCast
  <2>11. s[j].of = stream[j].of /\ s[j].sinks = stream[j].sinks \ {k} /\ s[j].stopTimer = b
    BY <2>8, <2>10
  <2>4. s \in [ViewStreams -> AStream(Platforms, ViewCalls)]
    BY ZenonT(60), <2>9, <2>10 DEF ViewCast
  <2>. HIDE DEF j, k
  <2>5. ASSUME NEW i \in ViewStreams
        PROVE  /\ s[i].of = stream[i].of
               /\ s[i].stopTimer => s[i].sinks = {}
               /\ s[i].sinks \subseteq stream[i].sinks
               /\ \A c \in stream[i].sinks : c # k => c \in s[i].sinks
               /\ i = j => k \notin s[i].sinks
    <3>1. CASE i = j BY <2>3, <2>5, <2>11, <3>1 DEF ViewCast
    <3>2. CASE i # j BY <2>5, <2>10, <3>2 DEF ViewCast
    <3>. QED BY <3>1, <3>2
  <2>6. ASSUME NEW i \in ViewStreams, NEW l \in s[i].sinks, l \notin orphans, V!IsMapped(i), l[1] = v
        PROVE  call[l].at # "none"
    <3>1. call[l].at # "none" \/ (k = l /\ w.attached = stream[i].of)
      BY <2>5, <2>6 DEF Held, FramesAreTheirs, k
    <3>2. streams[stream[i].of] = i BY <2>6 DEF V!IsMapped
    <3>. QED BY <2>5, <2>6, <3>1, <3>2 DEF j
  <2>. QED BY <2>4, <2>5, <2>6 DEF k
<1>. QED BY <1>2, <1>3

\* Whatever attach does, the last call of its viewer is right afterwards.
LEMMA Attaches ==
  ASSUME ViewNames, ViewInv, NEW v \in Viewers,
         NEW w \in AClient, Held(v, w), V!Attach(v, w), UNCHANGED <<tabs, front, streams>>,
         page' \in [Viewers -> APage],
         page'[v].socket = "closed" => page[v].socket = "closed",
         page'[v].socket = "open" => w.choice = page'[v].wish,
         page'[v].socket = "new" => w.choice = Agent,
         told' \subseteq told, asking' \in [Viewers -> Nat],
         \A u \in Viewers : u # v => /\ page'[u] = page[u]
                                     /\ Expects(u)' <=> Expects(u)
  PROVE  ViewInv'
<1>. USE DEF ViewInv
<1>2. V!Here(v) => V!Here(v)' BY DEF V!Here
<1>3. told' \subseteq {u \in Viewers : V!Here(u)'} BY DEF V!Here, ViewTyped
<1>4. /\ \A i \in ViewStreams : stream'[i].of = stream[i].of => (V!IsMapped(i)' <=> V!IsMapped(i))
      /\ \A t : V!TabOf(t)' <=> V!TabOf(t)
      /\ V!Target(client[v])' = V!Target(client'[v])
  BY DEF V!IsMapped, V!Running, V!TabOf, V!Target, V!Shown
<1>5. /\ V!UnderWay(v) \subseteq V!CallsOf(v) /\ V!CallsOf(v) \subseteq ViewCalls
      /\ \A c \in V!CallsOf(v) : c[1] = v
  BY DEF V!UnderWay, V!CallsOf
<1>6. CASE w.attached = V!Target(w) /\ client' = [client EXCEPT ![v] = w]
           /\ UNCHANGED <<stream, call, failed, tangled, orphans>>
  <2>1. client'[v] = w /\ \A u \in Viewers : u # v => client'[u] = client[u] BY <1>6 DEF ViewTyped
  <2>2. V!UnderWay(v)' = V!UnderWay(v) BY <1>6 DEF V!UnderWay, V!CallsOf
  <2>3. ViewCast' BY <1>4, <1>6 DEF ViewCast
  <2>4. ViewTyped' BY <1>3, <1>6 DEF ViewTyped
  <2>5. ClientIsTheirs(v, client[v])' BY <1>2, <1>6, <2>1 DEF Held, ClientIsTheirs, V!CallsOf
  <2>6. CallsAreTheirs(v, client[v])' BY <1>4, <1>6, <2>1, <2>2 DEF Held, CallsAreTheirs
  <2>7. CallsAreAlone(v, client[v])' BY <1>2, <1>6, <2>1, <2>2 DEF Held, CallsAreAlone
  <2>8. LastIsLast(v, client[v])' BY <1>6, <2>1, <2>2 DEF Held, LastIsLast
  <2>9. LastIsRight(v)'
    <3>. SUFFICES ASSUME w.last \notin tangled, w.last \notin failed, V!UnderWay(v) # {}
                  PROVE  FALSE
      BY <1>4, <1>6, <2>1, <2>2 DEF LastIsRight
    <3>1. w.last \in V!UnderWay(v) BY DEF Held, LastIsLast
    <3>2. w.sink # w.last /\ call[w.last].of \in Platforms /\ V!TabOf(call[w.last].of)
      BY <3>1 DEF Held, CallsAreTheirs
    <3>3. w.attached = None BY <3>2 DEF Held, LastIsLast
    <3>. QED BY <1>6, <3>2, <3>3, SomethingShown
  <2>10. WishIsKnown(v)' BY <2>1 DEF WishIsKnown
  <2>11. FramesAreTheirs(v, client[v])' BY <1>2, <1>4, <1>6, <2>1 DEF Held, FramesAreTheirs
  <2>12. Served(v)' BY <2>5, <2>6, <2>7, <2>8, <2>9, <2>10, <2>11 DEF Served, Held
  <2>. QED BY <1>6, <2>1, <2>3, <2>4, <2>12, OnlyOne
<1>. DEFINE s == V!Detached(w)
            x == V!NotAttached(w)
<1>7. /\ x.choice = w.choice /\ x.attached = None /\ x.sink = None /\ x.last = w.last
      /\ x \in AClient
      /\ V!Target(x) = V!Target(w)
  BY DEF V!NotAttached, V!Target
<1>8. /\ s \in [ViewStreams -> AStream(Platforms, ViewCalls)]
      /\ \A i \in ViewStreams :
           /\ s[i].of = stream[i].of
           /\ s[i].stopTimer => s[i].sinks = {}
           /\ s[i].sinks \subseteq stream[i].sinks
           /\ \A c \in stream[i].sinks : c # w.sink => c \in s[i].sinks
      /\ \A i \in ViewStreams : \A k \in s[i].sinks \ orphans :
           V!IsMapped(i) /\ k[1] = v => call[k].at # "none"
  BY SinkLeaves
<1>9. w.sink # None => w.sink[1] = v
  BY <1>5 DEF Held, ClientIsTheirs
<1>10. ASSUME NEW i \in ViewStreams, NEW c \in ViewCalls, c[1] # v
       PROVE  c \in s[i].sinks <=> c \in stream[i].sinks
  BY <1>8, <1>9, <1>10 DEF ViewNames
<1>11. \A c \in V!UnderWay(v) : \A i \in ViewStreams : c \in s[i].sinks <=> c \in stream[i].sinks
  BY <1>8 DEF Held, CallsAreTheirs
<1>. HIDE DEF s, x
<1>12. CASE /\ w.attached # V!Target(w) /\ V!Target(w) = None
            /\ client' = [client EXCEPT ![v] = x] /\ stream' = s
            /\ UNCHANGED <<call, failed, tangled, orphans>>
  <2>1. client'[v] = x /\ \A u \in Viewers : u # v => client'[u] = client[u] BY <1>12 DEF ViewTyped
  <2>2. V!UnderWay(v)' = V!UnderWay(v) BY <1>12 DEF V!UnderWay, V!CallsOf
  <2>3. ViewCast' BY <1>4, <1>8, <1>12 DEF ViewCast
  <2>4. ViewTyped' BY <1>3, <1>7, <1>12 DEF ViewTyped
  <2>5. ClientIsTheirs(v, client[v])' BY <1>2, <1>7, <2>1 DEF Held, ClientIsTheirs, V!CallsOf
  <2>6. CallsAreTheirs(v, client[v])'
    BY <1>4, <1>5, <1>7, <1>8, <1>11, <1>12, <2>1, <2>2 DEF Held, CallsAreTheirs, ViewNames
  <2>7. CallsAreAlone(v, client[v])' BY <1>2, <1>7, <1>12, <2>1, <2>2 DEF Held, CallsAreAlone
  <2>8. LastIsLast(v, client[v])' BY <1>7, <1>12, <2>1, <2>2 DEF Held, LastIsLast
  <2>9. LastIsRight(v)'
    <3>1. w.last \notin tangled => V!UnderWay(v) = {}
      BY <1>12 DEF LastIsLast, Held, CallsAreTheirs
    <3>. QED BY <1>4, <1>7, <1>12, <2>1, <2>2, <3>1 DEF LastIsRight
  <2>10. WishIsKnown(v)' BY <1>7, <2>1 DEF WishIsKnown
  <2>11. FramesAreTheirs(v, client[v])' BY <1>2, <1>4, <1>8, <1>12 DEF FramesAreTheirs
  <2>12. Served(v)' BY <2>5, <2>6, <2>7, <2>8, <2>9, <2>10, <2>11 DEF Served, Held
  <2>. QED BY <1>8, <1>10, <1>12, <2>1, <2>3, <2>4, <2>12, OnlyOne
<1>13. CASE /\ w.attached # V!Target(w) /\ V!Target(w) # None /\ V!Spare(v) # {}
            /\ LET c == CHOOSE d \in V!Spare(v) : TRUE IN
                 /\ client' = [client EXCEPT ![v] = [x EXCEPT !.last = c]]
                 /\ V!Acquire(c, V!Target(w), c, s)
                 /\ tangled' = IF V!UnderWay(v) = {} THEN tangled \ {c}
                                                     ELSE tangled \cup V!UnderWay(v) \cup {c}
                 /\ orphans' = orphans \ {c}
  <2>1. PICK c \in V!Spare(v) :
          /\ client' = [client EXCEPT ![v] = [x EXCEPT !.last = c]]
          /\ V!Acquire(c, V!Target(w), c, s)
          /\ tangled' = IF V!UnderWay(v) = {} THEN tangled \ {c} ELSE tangled \cup V!UnderWay(v) \cup {c}
          /\ orphans' = orphans \ {c}
    BY <1>13
  <2>. DEFINE t == V!Target(w)
  <2>2. t \in Platforms
    <3>1. V!Shown \in Platforms \cup {None}
      BY HeadTailProperties DEF V!Shown, ViewCast
    <3>. QED BY <1>13, <3>1 DEF V!Target
  <2>3. /\ c \in V!CallsOf(v) /\ c \in ViewCalls /\ c[1] = v /\ call[c].at = "none"
        /\ \A i \in ViewStreams : c \notin stream[i].sinks
    BY <1>5 DEF V!Spare
  <2>. HIDE DEF t
  <2>4. /\ \/ streams[t] # None /\ stream' = V!Joined(s, streams[t], c)
           \/ streams[t] = None /\ stream' = s
        /\ \/ /\ streams[t] # None
              /\ call' = [call EXCEPT ![c] = [at |-> "starting", of |-> t, sink |-> c]]
              /\ failed' = failed \ {c}
           \/ /\ streams[t] = None /\ V!TabOf(t)
              /\ call' = [call EXCEPT ![c] = [at |-> "opening", of |-> t, sink |-> c]]
              /\ failed' = failed \ {c}
           \/ streams[t] = None /\ call' = call /\ failed' = failed \cup {c}
    BY <2>1 DEF V!Acquire, V!Waiting, t
  <2>5. /\ stream' \in [ViewStreams -> AStream(Platforms, ViewCalls)]
        /\ \A i \in ViewStreams :
             /\ stream'[i].of = stream[i].of
             /\ stream'[i].stopTimer => stream'[i].sinks = {}
             /\ stream'[i].sinks = s[i].sinks \cup IF i = streams[t] THEN {c} ELSE {}
    <3>1. CASE streams[t] = None BY <1>8, <2>4, <3>1 DEF ViewNames
    <3>2. CASE streams[t] # None
      <4>1. streams[t] \in ViewStreams BY <2>2, <3>2 DEF ViewCast
      <4>. HIDE DEF ViewInv
      <4>2. stream' = [s EXCEPT ![streams[t]].sinks = @ \cup {c}, ![streams[t]].stopTimer = FALSE]
        BY <2>4, <3>2 DEF V!Joined
      <4>3. stream' \in [ViewStreams -> AStream(Platforms, ViewCalls)]
        BY <1>8, <2>3, <4>1, <4>2
      <4>4. \A i \in ViewStreams : i # streams[t] => stream'[i] = s[i] BY <1>8, <4>1, <4>2
      <4>5. /\ stream'[streams[t]].of = s[streams[t]].of
            /\ stream'[streams[t]].sinks = s[streams[t]].sinks \cup {c}
            /\ ~stream'[streams[t]].stopTimer
        BY <1>8, <4>1, <4>2
      <4>. QED BY <1>8, <4>3, <4>4, <4>5
    <3>. QED BY <3>1, <3>2
  <2>6. /\ call' \in [ViewCalls -> ACall(Platforms, ViewCalls)]
        /\ \A d \in ViewCalls : d # c => call'[d] = call[d] /\ (d \in failed' <=> d \in failed)
        /\ call'[c].at # "none" => /\ call'[c].of = t /\ call'[c].sink = c /\ c \notin failed'
                                   /\ call'[c].at = "starting" <=> streams[t] # None
                                   /\ V!TabOf(t)
        /\ call'[c].at = "none" => streams[t] = None /\ c \in failed'
        /\ failed' \subseteq ViewCalls
    <3>1. CASE call' = call /\ failed' = failed \cup {c}
      BY <2>3, <2>4, <3>1 DEF ViewCast, ViewTyped
    <3>2. CASE streams[t] # None /\ failed' = failed \ {c}
               /\ call' = [call EXCEPT ![c] = [at |-> "starting", of |-> t, sink |-> c]]
      <4>1. V!TabOf(t) BY <2>2, <3>2 DEF ViewCast
      <4>2. call' \in [ViewCalls -> ACall(Platforms, ViewCalls)]
        BY <2>2, <2>3, <3>2 DEF ViewCast
      <4>. QED BY <2>3, <3>2, <4>1, <4>2 DEF ViewCast, ViewTyped
    <3>3. CASE streams[t] = None /\ V!TabOf(t) /\ failed' = failed \ {c}
               /\ call' = [call EXCEPT ![c] = [at |-> "opening", of |-> t, sink |-> c]]
      <4>1. call' \in [ViewCalls -> ACall(Platforms, ViewCalls)]
        BY <2>2, <2>3, <3>3 DEF ViewCast
      <4>. QED BY <2>3, <3>3, <4>1 DEF ViewCast, ViewTyped
    <3>. QED BY <2>4, <3>1, <3>2, <3>3
  <2>7. /\ V!UnderWay(v)' \subseteq V!UnderWay(v) \cup {c} /\ V!UnderWay(v) \subseteq V!UnderWay(v)'
        /\ call'[c].at # "none" => c \in V!UnderWay(v)'
        /\ c \notin V!UnderWay(v)
    BY <1>5, <2>3, <2>6 DEF V!UnderWay, V!CallsOf
  <2>8. /\ client'[v] = [x EXCEPT !.last = c] /\ \A u \in Viewers : u # v => client'[u] = client[u]
        /\ client'[v].choice = w.choice /\ client'[v].attached = None /\ client'[v].sink = None
        /\ client'[v].last = c /\ V!Target(client'[v]) = t
    BY <1>7, <2>1 DEF ViewTyped, V!Target, t
  <2>22. \A i \in ViewStreams : stream'[i].of = None => stream'[i].sinks = {}
    <3>1. streams[t] # None => stream[streams[t]].of = t BY <2>2 DEF ViewCast
    <3>. QED BY <1>8, <2>2, <2>5, <3>1 DEF ViewCast, ViewNames
  <2>9. ViewCast'
    <3>1. \A u \in Platforms : streams[u] # None => stream'[streams[u]].of = u /\ V!TabOf(u)'
      BY <1>4, <2>5 DEF ViewCast
    <3>. QED BY <2>5, <2>6, <2>22, <3>1 DEF ViewCast
  <2>10. client' \in [Viewers -> AClient]
    BY <1>7, <2>1, <2>3 DEF ViewTyped
  <2>11. ViewTyped' BY <1>3, <1>5, <2>1, <2>3, <2>6, <2>10 DEF ViewTyped
  <2>12. ClientIsTheirs(v, client[v])' BY <1>2, <2>3, <2>8 DEF ClientIsTheirs, V!CallsOf
  <2>13. CallsAreTheirs(v, client[v])'
    <3>. SUFFICES ASSUME NEW d \in V!UnderWay(v)'
                  PROVE  /\ call'[d].of \in Platforms /\ call'[d].sink = d
                         /\ client'[v].sink # d
                         /\ \A i \in ViewStreams : d \in stream'[i].sinks =>
                              call'[d].at = "starting" /\ stream'[i].of = call'[d].of
                         /\ call'[d].at = "opening" \/ d \notin failed' => V!TabOf(call[d].of)'
                         /\ call'[d].at = "starting" /\ d \notin failed' =>
                              \E i \in ViewStreams : stream'[i].of = call'[d].of /\ d \in stream'[i].sinks
      BY DEF CallsAreTheirs
    <3>1. CASE d = c
      <4>1. call'[c].at # "none" BY <3>1 DEF V!UnderWay
      <4>2. streams[t] # None => streams[t] \in ViewStreams /\ stream[streams[t]].of = t
        BY <2>2 DEF ViewCast
      <4>3. \A i \in ViewStreams : c \in stream'[i].sinks => i = streams[t]
        BY <1>8, <2>3, <2>5
      <4>. QED BY <1>4, <2>2, <2>3, <2>5, <2>6, <2>8, <3>1, <4>1, <4>2, <4>3 DEF ViewNames
    <3>2. CASE d # c
      <4>1. d \in V!UnderWay(v) /\ d \in ViewCalls BY <1>5, <2>7, <3>2
      <4>2. call'[d] = call[d] /\ (d \in failed' <=> d \in failed) BY <2>6, <3>2, <4>1
      <4>3. \A i \in ViewStreams : d \in stream'[i].sinks <=> d \in stream[i].sinks
        BY <1>11, <2>5, <3>2, <4>1
      <4>. QED BY <1>4, <2>5, <2>8, <4>1, <4>2, <4>3 DEF Held, CallsAreTheirs, ViewNames
    <3>. QED BY <3>1, <3>2
  <2>14. CallsAreAlone(v, client[v])'
    BY <1>2, <2>1, <2>7, <2>8 DEF CallsAreAlone
  <2>15. LastIsLast(v, client[v])' BY <2>1, <2>7, <2>8 DEF LastIsLast
  <2>16. LastIsRight(v)'
    <3>. SUFFICES ASSUME c \notin failed', c \notin tangled'
                  PROVE  c \in V!UnderWay(v)' /\ call'[c].of = t
      BY <1>4, <2>8 DEF LastIsRight
    <3>. QED BY <2>6, <2>7
  <2>17. WishIsKnown(v)' BY <2>8 DEF WishIsKnown
  <2>18. FramesAreTheirs(v, client[v])'
    <3>. SUFFICES ASSUME NEW i \in ViewStreams, NEW k \in stream'[i].sinks, k \notin orphans',
                         V!IsMapped(i), k[1] = v
                  PROVE  call'[k].at # "none"
      BY <1>2, <1>4, <2>5 DEF FramesAreTheirs
    <3>1. CASE k = c
      <4>1. i = streams[t] BY <1>8, <2>3, <2>5, <3>1
      <4>. QED BY <2>6, <3>1, <4>1 DEF ViewNames
    <3>2. CASE k # c
      <4>1. k \in s[i].sinks /\ k \notin orphans /\ k \in ViewCalls BY <1>8, <2>1, <2>5, <3>2
      <4>. QED BY <1>8, <2>6, <3>2, <4>1
    <3>. QED BY <3>1, <3>2
  <2>19. Served(v)' BY <2>12, <2>13, <2>14, <2>15, <2>16, <2>17, <2>18 DEF Served, Held
  <2>20. \A i \in ViewStreams : \A d \in ViewCalls : d[1] # v =>
           (d \in stream'[i].sinks <=> d \in stream[i].sinks)
    BY <1>10, <2>3, <2>5
  <2>21. \A d \in ViewCalls : d[1] # v => /\ call'[d] = call[d]
                                          /\ d \in tangled' <=> d \in tangled
                                          /\ d \in orphans' <=> d \in orphans
                                          /\ d \in failed' <=> d \in failed
    BY <1>5, <2>1, <2>3, <2>6
  <2>. QED BY <2>5, <2>8, <2>9, <2>11, <2>19, <2>20, <2>21, OnlyOne
<1>. QED BY <1>6, <1>12, <1>13 DEF V!Attach, s, x

\* A call returns to its client, which notes its sink over the one it had.
LEMMA AttachedView ==
  ASSUME ViewNames, ViewInv, NEW c \in ViewCalls, V!Attached(c)
  PROVE  ViewInv'
<1>. USE DEF ViewInv
<1>. DEFINE v == c[1]
<1>1. v \in Viewers BY DEF ViewNames
<1>2. Served(v) BY <1>1
<1>. HIDE DEF v
<1>3. /\ call[c].at = "starting" /\ call' = [call EXCEPT ![c] = V!NoCall] /\ told = {}
      /\ UNCHANGED <<tabs, front, stream, streams, failed, page, told, asking, tangled>>
      /\ client' = [client EXCEPT ![v] = [@ EXCEPT !.attached = call[c].of, !.sink = c]]
  BY DEF V!Attached, V!Over, v
<1>24. orphans' = orphans \cup ({client[v].sink} \ {None}) \cup (IF V!Here(v) THEN {} ELSE {c})
  BY DEF V!Attached, v
<1>4. c \in V!UnderWay(v) /\ call[c].of \in Platforms
  BY <1>2, <1>3 DEF V!UnderWay, V!CallsOf, Served, Held, CallsAreTheirs, v
<1>5. /\ \A d \in ViewCalls : d # c => call'[d] = call[d]
      /\ call'[c].at = "none" /\ V!UnderWay(v)' = V!UnderWay(v) \ {c}
  BY <1>3 DEF ViewCast, V!NoCall, V!UnderWay, V!CallsOf
<1>6. /\ \A u \in Viewers : u # v => client'[u] = client[u]
      /\ client'[v].choice = client[v].choice /\ client'[v].last = client[v].last
      /\ client'[v].attached = call[c].of /\ client'[v].sink = c
      /\ client'[v].attached # None /\ client'[v].sink # None
  BY <1>1, <1>3, <1>4 DEF ViewTyped, ViewNames
<1>7. /\ V!Here(v)' <=> V!Here(v)
      /\ V!Target(client[v])' = V!Target(client[v])
      /\ \A i \in ViewStreams : V!IsMapped(i)' <=> V!IsMapped(i)
      /\ \A t : V!TabOf(t)' <=> V!TabOf(t)
  BY <1>3, <1>6 DEF V!Here, V!Target, V!Shown, V!IsMapped, V!Running, V!TabOf
<1>8. ViewCast' BY <1>3, <1>7 DEF ViewCast, V!NoCall
<1>9. ViewTyped'
  <2>1. client' \in [Viewers -> AClient]
    <3>1. client[v] \in AClient BY <1>1 DEF ViewTyped
    <3>2. [client[v] EXCEPT !.attached = call[c].of, !.sink = c] \in AClient BY <1>4, <3>1
    <3>. QED BY <1>1, <1>3, <3>2 DEF ViewTyped
  <2>2. client[v].sink \in ViewCalls \cup {None} BY <1>1 DEF ViewTyped
  <2>. QED BY <1>3, <1>24, <2>1, <2>2 DEF ViewTyped, V!Here
<1>10. ClientIsTheirs(v, client[v])'
  BY <1>2, <1>4, <1>6, <1>7, <1>24 DEF Served, Held, ClientIsTheirs, V!CallsOf, V!UnderWay, ViewNames
<1>11. CallsAreTheirs(v, client[v])'
  <2>. SUFFICES ASSUME NEW d \in V!UnderWay(v), d # c
                PROVE  /\ call'[d].of \in Platforms /\ call'[d].sink = d
                       /\ client'[v].sink # d
                       /\ \A i \in ViewStreams : d \in stream'[i].sinks =>
                            call'[d].at = "starting" /\ stream'[i].of = call'[d].of
                       /\ call'[d].at = "opening" \/ d \notin failed' => V!TabOf(call[d].of)'
                       /\ call'[d].at = "starting" /\ d \notin failed' =>
                            \E i \in ViewStreams : stream'[i].of = call'[d].of /\ d \in stream'[i].sinks
    BY <1>5 DEF CallsAreTheirs
  <2>1. call'[d] = call[d] BY <1>5 DEF V!UnderWay, V!CallsOf
  <2>. QED BY <1>2, <1>3, <1>6, <1>7, <2>1 DEF Served, Held, CallsAreTheirs
<1>12. c \notin tangled => V!UnderWay(v) = {c} /\ V!UnderWay(v)' = {}
  BY <1>2, <1>4, <1>5 DEF Served, Held, CallsAreAlone
<1>13. V!UnderWay(v)' \subseteq tangled
  BY <1>2, <1>4, <1>5 DEF Served, Held, CallsAreAlone
<1>14. CallsAreAlone(v, client[v])' BY <1>3, <1>6, <1>12, <1>13 DEF CallsAreAlone
<1>15. ASSUME client[v].last \notin tangled
       PROVE  client[v].last = c /\ V!UnderWay(v)' = {}
  BY <1>2, <1>4, <1>5, <1>15 DEF Served, Held, LastIsLast
<1>16. LastIsLast(v, client[v])'
  <2>. SUFFICES ASSUME client[v].last \notin tangled
                PROVE  /\ \A d \in V!UnderWay(v)' : d = client[v].last
                       /\ client'[v].sink = client[v].last
                       /\ client[v].last \notin failed =>
                            \E i \in ViewStreams : /\ stream[i].of = client'[v].attached
                                                   /\ client'[v].sink \in stream[i].sinks
    BY <1>3, <1>6 DEF LastIsLast
  <2>1. client[v].last = c /\ V!UnderWay(v)' = {} BY <1>15
  <2>2. c \notin failed => \E i \in ViewStreams : stream[i].of = call[c].of /\ c \in stream[i].sinks
    BY <1>2, <1>3, <1>4 DEF Served, Held, CallsAreTheirs
  <2>. QED BY <1>6, <2>1, <2>2
<1>17. V!Here(v)' /\ ~Expects(v)' => LastIsRight(v)'
  <2>. SUFFICES ASSUME V!Here(v), ~Expects(v), client[v].last \notin tangled \cup failed
                PROVE  call[c].of = V!Target(client'[v])
    BY <1>3, <1>6, <1>7, <1>15 DEF LastIsRight, V!Target, V!Shown, Expects
  <2>. QED BY <1>2, <1>4, <1>6, <1>15 DEF Served, LastIsRight, V!Target
<1>18. WishIsKnown(v)' BY <1>2, <1>3, <1>6 DEF Served, WishIsKnown
<1>19. FramesAreTheirs(v, client[v])'
  <2>. SUFFICES ASSUME NEW i \in ViewStreams, NEW k \in stream[i].sinks, k \notin orphans',
                       V!IsMapped(i), k[1] = v
                PROVE  \/ call'[k].at # "none"
                       \/ V!Here(v) /\ client'[v].sink = k /\ client'[v].attached = stream[i].of
    BY <1>3, <1>7 DEF FramesAreTheirs
  <2>1. k \in ViewCalls /\ k \notin orphans /\ client[v].sink # k /\ (k = c => V!Here(v))
    BY <1>24 DEF ViewCast, ViewNames
  <2>2. call[k].at # "none" BY <1>2, <2>1 DEF Served, Held, FramesAreTheirs
  <2>3. CASE k = c BY <1>2, <1>4, <1>6, <2>1, <2>3 DEF Served, Held, CallsAreTheirs
  <2>4. CASE k # c BY <1>5, <2>1, <2>2, <2>4
  <2>. QED BY <2>3, <2>4
<1>20. \A d \in ViewCalls : d[1] # v => (d \in orphans' <=> d \in orphans)
  <2>1. client[v].sink # None => client[v].sink[1] = v
    BY <1>2 DEF Served, Held, ClientIsTheirs, V!CallsOf
  <2>. QED BY <1>24, <2>1 DEF v, ViewNames
<1>21. Held(v, client[v])' BY <1>10, <1>11, <1>14, <1>16, <1>19 DEF Held
<1>22. Served(v)' BY <1>17, <1>18, <1>21 DEF Served
<1>23. \A u \in Viewers : u # v => (Expects(u)' <=> Expects(u)) BY <1>3 DEF Expects
<1>. QED BY <1>1, <1>3, <1>5, <1>6, <1>8, <1>9, <1>20, <1>22, <1>23, OnlyOne DEF v

\* A session that does not open.
LEMMA FailsView ==
  ASSUME ViewNames, ViewInv, NEW c \in ViewCalls, V!OpenFails(c), UNCHANGED V!viewVars
  PROVE  ViewInv'
<1>. USE DEF ViewInv
<1>. DEFINE v == c[1]
<1>1. v \in Viewers BY DEF ViewNames
<1>2. Served(v) BY <1>1
<1>. HIDE DEF v
<1>3. /\ call[c].at = "opening" /\ call' = [call EXCEPT ![c] = V!NoCall] /\ failed' = failed \cup {c}
      /\ UNCHANGED <<tabs, front, stream, streams, page, client, told, asking, tangled, orphans>>
  BY DEF V!OpenFails, V!Over, V!viewVars
<1>4. c \in V!UnderWay(v) /\ \A i \in ViewStreams : c \notin stream[i].sinks
  BY <1>2, <1>3 DEF V!UnderWay, V!CallsOf, Served, Held, CallsAreTheirs, v
<1>5. /\ \A d \in ViewCalls : d # c => call'[d] = call[d]
      /\ call'[c].at = "none" /\ V!UnderWay(v)' = V!UnderWay(v) \ {c}
  BY <1>3 DEF ViewCast, V!NoCall, V!UnderWay, V!CallsOf
<1>7. /\ V!Here(v)' <=> V!Here(v)
      /\ V!Target(client[v])' = V!Target(client[v])
      /\ \A i \in ViewStreams : V!IsMapped(i)' <=> V!IsMapped(i)
      /\ \A t : V!TabOf(t)' <=> V!TabOf(t)
  BY <1>3 DEF V!Here, V!Target, V!Shown, V!IsMapped, V!Running, V!TabOf
<1>8. ViewCast' BY <1>3, <1>7 DEF ViewCast, V!NoCall
<1>9. ViewTyped' BY <1>3 DEF ViewTyped, V!Here
<1>10. ClientIsTheirs(v, client[v])' BY <1>2, <1>3, <1>7 DEF Served, Held, ClientIsTheirs, V!CallsOf
<1>11. CallsAreTheirs(v, client[v])'
  <2>. SUFFICES ASSUME NEW d \in V!UnderWay(v), d # c
                PROVE  /\ call'[d].of \in Platforms /\ call'[d].sink = d
                       /\ client'[v].sink # d
                       /\ \A i \in ViewStreams : d \in stream'[i].sinks =>
                            call'[d].at = "starting" /\ stream'[i].of = call'[d].of
                       /\ call'[d].at = "opening" \/ d \notin failed' => V!TabOf(call[d].of)'
                       /\ call'[d].at = "starting" /\ d \notin failed' =>
                            \E i \in ViewStreams : stream'[i].of = call'[d].of /\ d \in stream'[i].sinks
    BY <1>5 DEF CallsAreTheirs
  <2>1. call'[d] = call[d] BY <1>5 DEF V!UnderWay, V!CallsOf
  <2>. QED BY <1>2, <1>3, <1>7, <2>1 DEF Served, Held, CallsAreTheirs
<1>12. V!UnderWay(v)' \subseteq tangled /\ (V!UnderWay(v) = {c} => V!UnderWay(v)' = {})
  BY <1>2, <1>4, <1>5 DEF Served, Held, CallsAreAlone
<1>13. CallsAreAlone(v, client[v])' BY <1>2, <1>3, <1>5, <1>7, <1>12 DEF Served, Held, CallsAreAlone
<1>14. client[v].last \notin tangled => client[v].last = c
  BY <1>2, <1>4 DEF Served, Held, LastIsLast
<1>15. LastIsLast(v, client[v])' BY <1>2, <1>3, <1>5, <1>14 DEF Served, Held, LastIsLast
<1>16. LastIsRight(v)' BY <1>3, <1>14 DEF LastIsRight
<1>17. WishIsKnown(v)' BY <1>2, <1>3 DEF Served, WishIsKnown
<1>18. FramesAreTheirs(v, client[v])'
  BY <1>2, <1>3, <1>4, <1>5, <1>7 DEF Served, Held, FramesAreTheirs, ViewCast
<1>19. Held(v, client[v])' BY <1>10, <1>11, <1>13, <1>15, <1>18 DEF Held
<1>20. Served(v)' BY <1>16, <1>17, <1>19 DEF Served
<1>21. \A u \in Viewers : Expects(u)' <=> Expects(u) BY <1>3 DEF Expects
<1>. QED BY <1>1, <1>3, <1>5, <1>8, <1>9, <1>20, <1>21, OnlyOne DEF v

\* Who leaves while calls are under way tangles them.
LEMMA LeaveView ==
  ASSUME ViewNames, ViewInv, NEW v \in Viewers, V!Leave(v)
  PROVE  ViewInv'
<1>. USE DEF ViewInv
<1>1. Served(v) OBVIOUS
<1>2. /\ page' = [page EXCEPT ![v].socket = "closed"] /\ stream' = V!Detached(client[v])
      /\ client' = [client EXCEPT ![v] = V!NotAttached(client[v])]
      /\ tangled' = tangled \cup V!UnderWay(v)
      /\ UNCHANGED <<tabs, front, streams, call, failed, told, asking, orphans>> /\ told = {}
  BY DEF V!Leave
<1>16. client[v] \in AClient BY DEF ViewTyped
<1>17. /\ V!NotAttached(client[v]) \in AClient
       /\ V!NotAttached(client[v]).attached = None /\ V!NotAttached(client[v]).sink = None
       /\ V!NotAttached(client[v]).last = client[v].last
  BY <1>16 DEF V!NotAttached
<1>3. /\ client'[v].attached = None /\ client'[v].sink = None /\ client'[v].last = client[v].last
      /\ ~V!Here(v)' /\ page'[v].socket = "closed"
      /\ \A u \in Viewers : u # v => client'[u] = client[u] /\ page'[u] = page[u]
  BY <1>2, <1>17 DEF ViewTyped, V!Here
<1>4. /\ stream' \in [ViewStreams -> AStream(Platforms, ViewCalls)]
      /\ \A i \in ViewStreams :
           /\ stream'[i].of = stream[i].of
           /\ stream'[i].stopTimer => stream'[i].sinks = {}
           /\ stream'[i].sinks \subseteq stream[i].sinks
           /\ \A c \in stream[i].sinks : c # client[v].sink => c \in stream'[i].sinks
      /\ \A i \in ViewStreams : \A k \in stream'[i].sinks \ orphans :
           V!IsMapped(i) /\ k[1] = v => call[k].at # "none"
  BY <1>1, <1>2, <1>16, SinkLeaves DEF Served
<1>5. /\ V!UnderWay(v) \subseteq V!CallsOf(v) /\ V!CallsOf(v) \subseteq ViewCalls
      /\ \A c \in V!CallsOf(v) : c[1] = v
  BY DEF V!UnderWay, V!CallsOf
<1>6. /\ V!UnderWay(v)' = V!UnderWay(v)
      /\ \A i \in ViewStreams : V!IsMapped(i)' <=> V!IsMapped(i)
      /\ \A t : V!TabOf(t)' <=> V!TabOf(t)
  BY <1>2, <1>4 DEF V!UnderWay, V!CallsOf, V!IsMapped, V!Running, V!TabOf
<1>7. ViewCast' BY <1>2, <1>4, <1>6 DEF ViewCast
<1>8. ViewTyped'
  <2>1. /\ page' \in [Viewers -> APage]
        /\ client' \in [Viewers -> AClient]
    BY <1>2, <1>17 DEF ViewTyped
  <2>. QED BY <1>2, <1>5, <2>1 DEF ViewTyped
<1>9. ClientIsTheirs(v, client[v])' BY <1>1, <1>3 DEF Served, Held, ClientIsTheirs, V!CallsOf
<1>10. CallsAreTheirs(v, client[v])'
  <2>1. \A c \in V!UnderWay(v) : \A i \in ViewStreams : c \in stream'[i].sinks <=> c \in stream[i].sinks
    BY <1>1, <1>4 DEF Served, Held, CallsAreTheirs
  <2>. QED BY <1>1, <1>2, <1>3, <1>4, <1>5, <1>6, <2>1
           DEF Served, Held, CallsAreTheirs, ViewNames
<1>11. CallsAreAlone(v, client[v])' BY <1>2, <1>3, <1>6 DEF CallsAreAlone
<1>12. WishIsKnown(v)' BY <1>3 DEF WishIsKnown
<1>13. FramesAreTheirs(v, client[v])' BY <1>2, <1>4, <1>6 DEF FramesAreTheirs
<1>18. LastIsLast(v, client[v])' BY <1>1, <1>2, <1>3, <1>6 DEF Served, Held, LastIsLast
<1>19. Held(v, client[v])' BY <1>9, <1>10, <1>11, <1>13, <1>18 DEF Held
<1>14. Served(v)' BY <1>3, <1>12, <1>19 DEF Served
<1>20. \A u \in Viewers : Expects(u)' <=> Expects(u) BY <1>2 DEF Expects
<1>15. \A i \in ViewStreams : \A c \in ViewCalls : c[1] # v =>
         (c \in stream'[i].sinks <=> c \in stream[i].sinks)
  <2>1. client[v].sink # None => client[v].sink[1] = v
    BY <1>1, <1>5 DEF Served, Held, ClientIsTheirs
  <2>. QED BY <1>4, <2>1 DEF ViewNames
<1>. QED BY <1>2, <1>3, <1>4, <1>5, <1>7, <1>8, <1>14, <1>15, <1>20, OnlyOne

\* A client that is to see something else is as attached as before.
LEMMA Chooses ==
  ASSUME NEW x \in AClient, NEW y \in Platforms \cup {Agent}
  PROVE  /\ [x EXCEPT !.choice = y] \in AClient
         /\ [x EXCEPT !.choice = y].choice = y
         /\ [x EXCEPT !.choice = y].attached = x.attached
         /\ [x EXCEPT !.choice = y].sink = x.sink /\ [x EXCEPT !.choice = y].last = x.last
OBVIOUS

\* The message of a page: it follows, or is to be asked for what it watches.
LEMMA SaysView ==
  ASSUME ViewNames, ViewInv, NEW v \in Viewers, V!Here(v), V!Says(v), told = {},
         UNCHANGED <<tabs, front, streams, told>>,
         page' \in [Viewers -> APage],
         page'[v].socket = "open", \A u \in Viewers : u # v => page'[u] = page[u]
  PROVE  ViewInv'
<1>. USE DEF ViewInv
<1>1. Served(v) OBVIOUS
<1>2. CASE page'[v].wish = Agent
  <2>. DEFINE w == [client[v] EXCEPT !.choice = Agent]
  <2>1. /\ w \in AClient
        /\ w.choice = Agent /\ w.attached = client[v].attached /\ w.sink = client[v].sink
        /\ w.last = client[v].last
    <3>1. client[v] \in AClient /\ Agent \in Platforms \cup {Agent} BY DEF ViewTyped
    <3>. QED BY <3>1, Chooses
  <2>2. V!Attach(v, w) /\ asking' = asking BY <1>2 DEF V!Says
  <2>. HIDE DEF w
  <2>3. Held(v, w)
    BY <1>1, <2>1 DEF Served, Held, ClientIsTheirs, CallsAreTheirs, CallsAreAlone, LastIsLast,
                      FramesAreTheirs
  <2>4. asking' \in [Viewers -> Nat] /\ \A u \in Viewers : Expects(u)' <=> Expects(u)
    BY <2>2 DEF Expects, ViewTyped
  <2>5. /\ page'[v].socket = "closed" => page[v].socket = "closed"
        /\ page'[v].socket = "open" => w.choice = page'[v].wish
        /\ page'[v].socket = "new" => w.choice = Agent
    BY <1>2, <2>1
  <2>. QED BY <2>1, <2>2, <2>3, <2>4, <2>5, Attaches
<1>3. CASE page'[v].wish # Agent
  <2>1. /\ client' = [client EXCEPT ![v].choice = page'[v].wish] /\ asking' = [asking EXCEPT ![v] = @ + 1]
        /\ UNCHANGED <<stream, call, failed, tangled, orphans>>
    BY <1>3 DEF V!Says
  <2>2. page'[v].wish \in Platforms BY <1>3
  <2>3. /\ \A u \in Viewers : u # v => client'[u] = client[u]
        /\ client'[v].choice = page'[v].wish /\ client'[v].attached = client[v].attached
        /\ client'[v].sink = client[v].sink /\ client'[v].last = client[v].last
    BY <2>1 DEF ViewTyped
  <2>4. client' \in [Viewers -> AClient]
    BY ZenonT(60), <2>1, <2>2 DEF ViewTyped
  <2>5. /\ V!Here(v)' /\ V!UnderWay(v)' = V!UnderWay(v)
        /\ \A i \in ViewStreams : V!IsMapped(i)' <=> V!IsMapped(i)
        /\ \A t : V!TabOf(t)' <=> V!TabOf(t)
    BY <2>1 DEF V!Here, V!UnderWay, V!CallsOf, V!IsMapped, V!Running, V!TabOf
  <2>6. ViewCast' BY <2>1, <2>5 DEF ViewCast
  <2>15. asking' \in [Viewers -> Nat] /\ Expects(v)' /\ \A u \in Viewers : u # v => (Expects(u)' <=> Expects(u))
    BY <2>1 DEF Expects, ViewTyped
  <2>7. ViewTyped' BY <2>1, <2>4, <2>15 DEF ViewTyped, V!Here
  <2>8. ClientIsTheirs(v, client[v])' BY <1>1, <2>3, <2>5 DEF Served, Held, ClientIsTheirs, V!CallsOf
  <2>9. CallsAreTheirs(v, client[v])' BY <1>1, <2>1, <2>3, <2>5 DEF Served, Held, CallsAreTheirs
  <2>10. CallsAreAlone(v, client[v])' BY <1>1, <2>1, <2>3, <2>5 DEF Served, Held, CallsAreAlone
  <2>11. LastIsLast(v, client[v])' BY <1>1, <2>1, <2>3, <2>5 DEF Served, Held, LastIsLast
  <2>12. WishIsKnown(v)' BY <2>3 DEF WishIsKnown
  <2>13. FramesAreTheirs(v, client[v])' BY <1>1, <2>1, <2>3, <2>5 DEF Served, Held, FramesAreTheirs
  <2>16. Held(v, client[v])' BY <2>8, <2>9, <2>10, <2>11, <2>13 DEF Held
  <2>14. Served(v)' BY <2>12, <2>15, <2>16 DEF Served
  <2>. QED BY <2>1, <2>3, <2>6, <2>7, <2>14, <2>15, OnlyOne
<1>. QED BY <1>2, <1>3

\* The session of a call is open: a new stream has its sink, and the tab that stream.
LEMMA OpenView ==
  ASSUME ViewNames, ViewInv, NEW c \in ViewCalls, V!Open(c), UNCHANGED V!viewVars
  PROVE  ViewInv'
<1>. USE DEF ViewInv
<1>. DEFINE t == call[c].of
<1>1. PICK j \in ViewStreams :
        /\ ~V!Running(j)
        /\ stream' = [stream EXCEPT ![j] = [of |-> t, sinks |-> {call[c].sink}, stopTimer |-> FALSE]]
        /\ streams' = [streams EXCEPT ![t] = j]
        /\ call' = [call EXCEPT ![c] = [at |-> "starting", of |-> t, sink |-> call[c].sink]]
        /\ call[c].at = "opening" /\ UNCHANGED <<tabs, front, failed>>
  <2>1. (CHOOSE f \in V!Free : TRUE) \in V!Free BY DEF V!Open
  <2>. QED BY <2>1 DEF V!Open, V!Free, V!Waiting
<1>2. /\ c \in V!UnderWay(c[1]) /\ c[1] \in Viewers
      /\ t \in Platforms /\ call[c].sink = c /\ V!TabOf(t)
      /\ \A i \in ViewStreams : c \notin stream[i].sinks
  <2>1. c \in V!UnderWay(c[1]) /\ c[1] \in Viewers BY <1>1 DEF V!UnderWay, V!CallsOf, ViewNames
  <2>. QED BY <1>1, <2>1 DEF Served, Held, CallsAreTheirs
<1>. HIDE DEF t
<1>3. UNCHANGED <<page, client, told, asking, tangled, orphans>> BY DEF V!viewVars
<1>4. /\ stream'[j].of = t /\ stream'[j].sinks = {c} /\ ~stream'[j].stopTimer
      /\ \A i \in ViewStreams : i # j => stream'[i] = stream[i]
      /\ stream[j].of = None /\ stream[j].sinks = {}
      /\ \A d \in ViewCalls : d # c => call'[d] = call[d]
      /\ call'[c].at = "starting" /\ call'[c].of = t /\ call'[c].sink = c
  BY <1>1, <1>2 DEF ViewCast, V!Running
<1>5. /\ \A u : V!TabOf(u)' <=> V!TabOf(u)
      /\ \A v \in Viewers : /\ V!UnderWay(v)' = V!UnderWay(v)
                            /\ V!Here(v)' <=> V!Here(v)
                            /\ V!Target(client[v])' = V!Target(client[v])
  BY <1>1, <1>3, <1>4 DEF V!TabOf, V!UnderWay, V!CallsOf, V!Here, V!Target, V!Shown
<1>6. ViewCast'
  <2>1. \A u \in Platforms : streams'[u] # None => stream'[streams'[u]].of = u /\ V!TabOf(u)'
    BY <1>1, <1>2, <1>4, <1>5 DEF ViewCast, ViewNames
  <2>2. \A i \in ViewStreams : /\ stream'[i].of = None => stream'[i].sinks = {}
                               /\ stream'[i].stopTimer => stream'[i].sinks = {}
    BY <1>2, <1>4 DEF ViewCast, ViewNames
  <2>. QED BY <1>1, <1>2, <2>1, <2>2 DEF ViewCast
<1>7. ViewTyped' BY <1>1, <1>3 DEF ViewTyped, V!Here
<1>8. \A i \in ViewStreams : V!IsMapped(i)' => i = j \/ (i # j /\ V!IsMapped(i))
  BY <1>1, <1>2, <1>4 DEF V!IsMapped, V!Running, ViewCast
<1>9. ASSUME NEW v \in Viewers PROVE Served(v)'
  <2>1. Served(v) OBVIOUS
  <2>2. ClientIsTheirs(v, client[v])' BY <1>3, <1>5, <2>1 DEF Served, Held, ClientIsTheirs, V!CallsOf
  <2>3. CallsAreTheirs(v, client[v])'
    <3>. SUFFICES ASSUME NEW d \in V!UnderWay(v)
                  PROVE  /\ call'[d].of \in Platforms /\ call'[d].sink = d
                         /\ client'[v].sink # d
                         /\ \A i \in ViewStreams : d \in stream'[i].sinks =>
                              call'[d].at = "starting" /\ stream'[i].of = call'[d].of
                         /\ call'[d].at = "opening" \/ d \notin failed' => V!TabOf(call[d].of)'
                         /\ call'[d].at = "starting" /\ d \notin failed' =>
                              \E i \in ViewStreams : stream'[i].of = call'[d].of /\ d \in stream'[i].sinks
      BY <1>5 DEF CallsAreTheirs
    <3>1. CASE d = c BY <1>2, <1>3, <1>4, <1>5, <2>1, <3>1 DEF Served, Held, CallsAreTheirs, t
    <3>2. CASE d # c
      <4>1. call'[d] = call[d] BY <1>4, <3>2 DEF V!UnderWay, V!CallsOf
      <4>2. /\ \A i \in ViewStreams : d \in stream'[i].sinks => d \in stream[i].sinks /\ i # j
            /\ \A i \in ViewStreams : d \in stream[i].sinks => i # j
        BY <1>4, <3>2
      <4>. QED BY <1>1, <1>3, <1>4, <1>5, <2>1, <4>1, <4>2 DEF Served, Held, CallsAreTheirs
    <3>. QED BY <3>1, <3>2
  <2>4. CallsAreAlone(v, client[v])' BY <1>3, <1>5, <2>1 DEF Served, Held, CallsAreAlone
  <2>5. LastIsLast(v, client[v])' BY <1>1, <1>3, <1>4, <1>5, <2>1 DEF Served, Held, LastIsLast
  <2>6. V!Here(v)' /\ ~Expects(v)' => LastIsRight(v)'
    <3>. SUFFICES ASSUME V!Here(v), ~Expects(v), client[v].last \notin tangled \cup failed
                  PROVE  IF V!UnderWay(v) = {} THEN client[v].attached = V!Target(client[v])
                                              ELSE call'[client[v].last].of = V!Target(client[v])
      BY <1>1, <1>3, <1>5 DEF LastIsRight, Expects
    <3>1. IF V!UnderWay(v) = {} THEN client[v].attached = V!Target(client[v])
                               ELSE call[client[v].last].of = V!Target(client[v])
      BY <2>1 DEF Served, LastIsRight
    <3>2. V!UnderWay(v) # {} => client[v].last \in ViewCalls
      BY <2>1 DEF Served, Held, LastIsLast, V!UnderWay, V!CallsOf
    <3>. QED BY <1>4, <3>1, <3>2 DEF t
  <2>7. WishIsKnown(v)' BY <1>3, <2>1 DEF Served, WishIsKnown
  <2>8. FramesAreTheirs(v, client[v])'
    <3>. SUFFICES ASSUME NEW i \in ViewStreams, NEW k \in stream'[i].sinks, k \notin orphans,
                         V!IsMapped(i)', k[1] = v
                  PROVE  \/ call'[k].at # "none"
                         \/ V!Here(v) /\ client[v].sink = k /\ client[v].attached = stream'[i].of
      BY <1>3, <1>5 DEF FramesAreTheirs
    <3>1. CASE i = j
      <4>1. k = c BY <1>4, <3>1
      <4>. QED BY <1>4, <4>1
    <3>2. CASE i # j
      <4>1. stream'[i] = stream[i] /\ V!IsMapped(i) /\ k \in ViewCalls BY <1>4, <1>8, <3>2 DEF ViewCast
      <4>. QED BY <1>4, <2>1, <4>1 DEF Served, Held, FramesAreTheirs
    <3>. QED BY <3>1, <3>2
  <2>9. Held(v, client[v])' BY <2>2, <2>3, <2>4, <2>5, <2>8 DEF Held
  <2>. QED BY <2>6, <2>7, <2>9 DEF Served
<1>. QED BY <1>6, <1>7, <1>9

\* Three seconds without a sink: nobody loses one.
LEMMA StopsView ==
  ASSUME ViewNames, ViewInv, NEW j \in ViewStreams, V!StopTimer(j), UNCHANGED V!viewVars
  PROVE  ViewInv'
<1>. USE DEF ViewInv
<1>1. /\ stream' = [stream EXCEPT ![j] = V!Stopped] /\ stream[j].sinks = {}
      /\ streams' = [t \in Platforms |-> IF streams[t] = j THEN None ELSE streams[t]]
      /\ UNCHANGED <<tabs, front, call, failed, page, client, told, asking, tangled, orphans>>
  BY DEF V!StopTimer, V!viewVars, ViewCast
<1>2. /\ \A i \in ViewStreams : i # j => stream'[i] = stream[i]
      /\ stream'[j].of = None /\ stream'[j].sinks = {} /\ ~stream'[j].stopTimer
      /\ \A i \in ViewStreams : stream'[i].sinks = stream[i].sinks
      /\ \A i \in ViewStreams : stream[i].sinks # {} => stream'[i] = stream[i]
  BY <1>1 DEF ViewCast, V!Stopped
<1>3. /\ \A t : V!TabOf(t)' <=> V!TabOf(t)
      /\ \A v \in Viewers : /\ V!UnderWay(v)' = V!UnderWay(v)
                            /\ V!Here(v)' <=> V!Here(v)
                            /\ V!Target(client[v])' = V!Target(client[v])
  BY <1>1 DEF V!TabOf, V!UnderWay, V!CallsOf, V!Here, V!Target, V!Shown
<1>4. \A i \in ViewStreams : V!IsMapped(i)' => i # j /\ V!IsMapped(i)
  BY <1>1, <1>2 DEF V!IsMapped, V!Running, ViewCast, ViewNames
<1>5. ViewCast'
  <2>1. stream' \in [ViewStreams -> AStream(Platforms, ViewCalls)]
    BY <1>1 DEF ViewCast, V!Stopped
  <2>2. \A t \in Platforms : streams'[t] # None => stream'[streams'[t]].of = t /\ V!TabOf(t)'
    BY <1>1, <1>2, <1>3 DEF ViewCast
  <2>. QED BY <1>1, <1>2, <2>1, <2>2 DEF ViewCast
<1>6. ViewTyped' BY <1>1 DEF ViewTyped, V!Here
<1>7. ASSUME NEW v \in Viewers PROVE Served(v)'
  <2>1. Served(v) OBVIOUS
  <2>2. ClientIsTheirs(v, client[v])' BY <1>1, <1>3, <2>1 DEF Served, Held, ClientIsTheirs, V!CallsOf
  <2>3. CallsAreTheirs(v, client[v])' BY <1>1, <1>2, <1>3, <2>1 DEF Served, Held, CallsAreTheirs
  <2>4. CallsAreAlone(v, client[v])' BY <1>1, <1>3, <2>1 DEF Served, Held, CallsAreAlone
  <2>5. LastIsLast(v, client[v])' BY <1>1, <1>2, <1>3, <2>1 DEF Served, Held, LastIsLast
  <2>6. V!Here(v)' /\ ~Expects(v)' => LastIsRight(v)'
    BY <1>1, <1>3, <2>1 DEF Served, LastIsRight, Expects
  <2>7. WishIsKnown(v)' BY <1>1, <2>1 DEF Served, WishIsKnown
  <2>8. FramesAreTheirs(v, client[v])' BY <1>1, <1>2, <1>3, <1>4, <2>1 DEF Served, Held, FramesAreTheirs
  <2>9. Held(v, client[v])' BY <2>2, <2>3, <2>4, <2>5, <2>8 DEF Held
  <2>. QED BY <2>6, <2>7, <2>9 DEF Served
<1>. QED BY <1>5, <1>6, <1>7

\* A tab opens or comes to the front: every follower is told.
LEMMA TabsView ==
  ASSUME ViewNames, ViewInv, NEW p \in Platforms, V!OpenTab(p) \/ V!SetActive(p), told = {}, V!Announced,
         UNCHANGED <<page, client, asking, tangled, orphans>>
  PROVE  ViewInv'
<1>. USE DEF ViewInv
<1>1. UNCHANGED <<stream, streams, call, failed>> BY DEF V!OpenTab, V!SetActive
<1>2. /\ tabs' \in Seq(Platforms) /\ front' \in Platforms \cup {None}
      /\ \A t : V!TabOf(t) => V!TabOf(t)'
  <2>1. CASE V!OpenTab(p)
    <3>1. tabs' = Append(tabs, p) /\ front' = front BY <2>1 DEF V!OpenTab
    <3>2. tabs' \in Seq(Platforms) /\ Len(tabs') = Len(tabs) + 1 /\ Len(tabs) \in Nat
          /\ \A n \in 1..Len(tabs) : tabs'[n] = tabs[n]
      BY <3>1, AppendProperties DEF ViewCast
    <3>3. ASSUME NEW t, V!TabOf(t) PROVE V!TabOf(t)'
      <4>1. PICK n \in 1..Len(tabs) : tabs[n] = t BY <3>3 DEF V!TabOf, V!ToSet, ViewCast
      <4>2. n \in 1..Len(tabs') /\ tabs'[n] = t BY <3>2, <4>1
      <4>. QED BY <3>2, <4>2 DEF V!TabOf, V!ToSet
    <3>. QED BY <3>1, <3>2, <3>3 DEF ViewCast
  <2>2. CASE V!SetActive(p) BY <2>2 DEF V!SetActive, ViewCast, V!TabOf
  <2>. QED BY <2>1, <2>2
<1>3. told' = {v \in Viewers : V!Here(v) /\ client[v].choice = Agent} BY DEF V!Announced
<1>4. \A v \in Viewers : /\ V!UnderWay(v)' = V!UnderWay(v) /\ (V!Here(v)' <=> V!Here(v))
                         /\ \A i \in ViewStreams : V!IsMapped(i)' <=> V!IsMapped(i)
  BY <1>1 DEF V!UnderWay, V!CallsOf, V!Here, V!IsMapped, V!Running
<1>5. ViewCast' BY <1>1, <1>2 DEF ViewCast
<1>6. ViewTyped' BY <1>1, <1>3, <1>4 DEF ViewTyped
<1>7. ASSUME NEW v \in Viewers PROVE Served(v)'
  <2>1. Served(v) OBVIOUS
  <2>2. ClientIsTheirs(v, client[v])' BY <1>4, <2>1 DEF Served, Held, ClientIsTheirs, V!CallsOf
  <2>3. CallsAreTheirs(v, client[v])' BY <1>1, <1>2, <1>4, <2>1 DEF Served, Held, CallsAreTheirs
  <2>4. CallsAreAlone(v, client[v])' BY <1>4, <2>1 DEF Served, Held, CallsAreAlone
  <2>5. LastIsLast(v, client[v])' BY <1>1, <1>4, <2>1 DEF Served, Held, LastIsLast
  <2>6. V!Here(v)' /\ ~Expects(v)' => LastIsRight(v)'
    <3>. SUFFICES ASSUME V!Here(v), client[v].choice # Agent, asking[v] = 0 PROVE LastIsRight(v)'
      BY <1>3, <1>4 DEF Expects
    <3>1. V!Target(client[v])' = V!Target(client[v]) BY DEF V!Target
    <3>2. ~Expects(v) BY DEF Expects
    <3>. QED BY <1>1, <1>4, <2>1, <3>1, <3>2 DEF Served, LastIsRight
  <2>7. WishIsKnown(v)' BY <2>1 DEF Served, WishIsKnown
  <2>8. FramesAreTheirs(v, client[v])' BY <1>1, <1>4, <2>1 DEF Served, Held, FramesAreTheirs
  <2>9. Held(v, client[v])' BY <2>2, <2>3, <2>4, <2>5, <2>8 DEF Held
  <2>. QED BY <2>6, <2>7, <2>9 DEF Served
<1>. QED BY <1>5, <1>6, <1>7

\* A closing tab takes its streams along, and marks the calls and the sinks it takes with them.
LEMMA CloseView ==
  ASSUME ViewNames, ViewInv, NEW p \in Platforms, V!CloseTab(p), told = {}, V!Announced,
         UNCHANGED <<page, client, asking, tangled, orphans>>
  PROVE  ViewInv'
<1>. USE DEF ViewInv
<1>1. /\ front' = IF front = p THEN None ELSE front
      /\ stream' = [i \in ViewStreams |-> IF stream[i].of = p THEN V!Stopped ELSE stream[i]]
      /\ streams' = [streams EXCEPT ![p] = None]
      /\ call' = [c \in ViewCalls |->
                   IF call[c].at = "opening" /\ call[c].of = p THEN V!NoCall ELSE call[c]]
      /\ failed' = failed \cup {c \in ViewCalls : call[c].of = p}
                          \cup UNION {stream[i].sinks : i \in {j \in ViewStreams : stream[j].of = p}}
  BY DEF V!CloseTab
<1>2. tabs' \in Seq(Platforms) /\ \A t : t # p /\ V!TabOf(t) => V!TabOf(t)'
  <2>1. PICK n \in DOMAIN tabs : tabs[n] = p /\ tabs' = V!RemoveAt(tabs, n) BY DEF V!CloseTab
  <2>2. n \in 1..Len(tabs) /\ Len(tabs) \in Nat BY <2>1 DEF ViewCast
  <2>. DEFINE l == SubSeq(tabs, 1, n - 1)
              r == SubSeq(tabs, n + 1, Len(tabs))
  <2>3. /\ l \in Seq(Platforms) /\ Len(l) = n - 1 /\ \A m \in 1..(n - 1) : l[m] = tabs[m]
        /\ r \in Seq(Platforms) /\ Len(r) = Len(tabs) - n
        /\ \A m \in 1..(Len(tabs) - n) : r[m] = tabs[n + m]
    BY <2>2 DEF ViewCast
  <2>4. tabs' = l \o r BY <2>1 DEF V!RemoveAt
  <2>. HIDE DEF l, r
  <2>5. /\ tabs' \in Seq(Platforms) /\ Len(tabs') = Len(l) + Len(r)
        /\ \A m \in 1..Len(tabs') : tabs'[m] = IF m <= Len(l) THEN l[m] ELSE r[m - Len(l)]
    <3>1. l \in Seq(Platforms) /\ r \in Seq(Platforms) BY <2>3
    <3>2. /\ l \o r \in Seq(Platforms) /\ Len(l \o r) = Len(l) + Len(r)
          /\ \A m \in 1..(Len(l) + Len(r)) : (l \o r)[m] = IF m <= Len(l) THEN l[m] ELSE r[m - Len(l)]
      BY <3>1, ConcatProperties
    <3>. QED BY <2>4, <3>2
  <2>6. ASSUME NEW t, t # p, V!TabOf(t) PROVE V!TabOf(t)'
    <3>1. PICK m \in 1..Len(tabs) : tabs[m] = t BY <2>6 DEF V!TabOf, V!ToSet, ViewCast
    <3>2. m # n BY <2>1, <2>6, <3>1
    <3>3. CASE m < n
      <4>1. m \in 1..(n - 1) /\ m <= Len(l) BY <2>2, <2>3, <3>1, <3>3
      <4>2. l[m] = t BY <2>3, <3>1, <4>1
      <4>3. m \in 1..Len(tabs') BY SMTT(30), <2>2, <2>3, <2>5, <4>1
      <4>4. tabs'[m] = t BY <2>5, <4>1, <4>2, <4>3
      <4>. QED BY <2>5, <4>3, <4>4 DEF V!TabOf, V!ToSet
    <3>4. CASE n < m
      <4>. DEFINE o == m - n
      <4>3. o \in 1..(Len(tabs) - n) /\ n + o = m /\ m - 1 - Len(l) = o /\ ~(m - 1 <= Len(l))
        BY <2>2, <2>3, <3>1, <3>4
      <4>. HIDE DEF o
      <4>4. r[o] = t BY <2>3, <3>1, <4>3
      <4>1. m - 1 \in 1..Len(tabs') BY SMTT(30), <2>2, <2>3, <2>5, <3>1, <3>4
      <4>2. tabs'[m - 1] = t BY <2>5, <4>1, <4>3, <4>4
      <4>. QED BY <2>5, <4>1, <4>2 DEF V!TabOf, V!ToSet
    <3>. QED BY <2>2, <3>2, <3>3, <3>4
  <2>. QED BY <2>5, <2>6
<1>3. told' = {v \in Viewers : V!Here(v) /\ client[v].choice = Agent} BY DEF V!Announced
<1>4. \A c \in ViewCalls : /\ call[c].at = "opening" /\ call[c].of = p => call'[c].at = "none"
                           /\ call'[c].at # "none" => call'[c] = call[c]
                           /\ call[c].at # "none" /\ (call[c].of # p \/ call[c].at = "starting") =>
                                call'[c] = call[c]
                           /\ c \in failed \/ call[c].of = p => c \in failed'
  BY <1>1 DEF V!NoCall
<1>5. \A i \in ViewStreams : /\ stream[i].of # p => stream'[i] = stream[i]
                             /\ stream[i].of = p => /\ stream'[i].of = None /\ stream'[i].sinks = {}
                                                    /\ ~stream'[i].stopTimer
                                                    /\ stream[i].sinks \subseteq failed'
  BY <1>1 DEF V!Stopped
<1>6. \A v \in Viewers : /\ V!UnderWay(v)' \subseteq V!UnderWay(v) /\ V!UnderWay(v) \subseteq ViewCalls
                         /\ \A c \in V!UnderWay(v) :
                              c \in V!UnderWay(v)' \/ (call[c].at = "opening" /\ call[c].of = p)
                         /\ \A c \in V!UnderWay(v)' : /\ call'[c] = call[c]
                                                      /\ call[c].at = "opening" => call[c].of # p
                         /\ (V!Here(v)' <=> V!Here(v))
  BY <1>4 DEF V!UnderWay, V!CallsOf, V!Here, ViewCast
<1>7. \A i \in ViewStreams : V!IsMapped(i)' => V!IsMapped(i) /\ stream[i].of # p
  BY <1>1, <1>5 DEF V!IsMapped, V!Running, ViewCast
<1>8. ViewCast'
  <2>1. stream' \in [ViewStreams -> AStream(Platforms, ViewCalls)]
    BY <1>1 DEF ViewCast, V!Stopped
  <2>2. \A t \in Platforms : streams'[t] # None => stream'[streams'[t]].of = t /\ V!TabOf(t)'
    BY <1>1, <1>2, <1>5 DEF ViewCast
  <2>3. call' \in [ViewCalls -> ACall(Platforms, ViewCalls)]
    BY <1>1 DEF ViewCast, V!NoCall
  <2>. QED BY <1>1, <1>2, <1>5, <2>1, <2>2, <2>3 DEF ViewCast
<1>9. ViewTyped'
  <2>1. failed' \subseteq ViewCalls BY <1>1 DEF ViewCast, ViewTyped
  <2>. QED BY <1>3, <2>1 DEF ViewTyped, V!Here
<1>10. ASSUME NEW v \in Viewers PROVE Served(v)'
  <2>1. Served(v) OBVIOUS
  <2>2. ClientIsTheirs(v, client[v])' BY <1>6, <2>1 DEF Served, Held, ClientIsTheirs, V!CallsOf
  <2>3. CallsAreTheirs(v, client[v])'
    <3>. SUFFICES ASSUME NEW c \in V!UnderWay(v)'
                  PROVE  /\ call'[c].of \in Platforms /\ call'[c].sink = c
                         /\ client[v].sink # c
                         /\ \A i \in ViewStreams : c \in stream'[i].sinks =>
                              call'[c].at = "starting" /\ stream'[i].of = call'[c].of
                         /\ call'[c].at = "opening" \/ c \notin failed' => V!TabOf(call[c].of)'
                         /\ call'[c].at = "starting" /\ c \notin failed' =>
                              \E i \in ViewStreams : stream'[i].of = call'[c].of /\ c \in stream'[i].sinks
      BY DEF CallsAreTheirs
    <3>1. /\ call'[c] = call[c] /\ c \in V!UnderWay(v) /\ c \in ViewCalls
          /\ call[c].at = "opening" \/ c \notin failed' => call[c].of # p
          /\ c \notin failed' => c \notin failed
      BY <1>4, <1>6
    <3>2. \A i \in ViewStreams : c \in stream'[i].sinks => stream'[i] = stream[i]
      BY <1>5
    <3>. QED BY <1>2, <1>5, <2>1, <3>1, <3>2 DEF Served, Held, CallsAreTheirs
  <2>4. CallsAreAlone(v, client[v])' BY <1>6, <2>1 DEF Served, Held, CallsAreAlone
  <2>5. LastIsLast(v, client[v])'
    <3>. SUFFICES ASSUME client[v].last \notin tangled
                  PROVE  /\ \A c \in V!UnderWay(v)' : c = client[v].last
                         /\ client[v].attached # None => client[v].sink = client[v].last
                         /\ client[v].attached # None /\ client[v].last \notin failed' =>
                              \E i \in ViewStreams : /\ stream'[i].of = client[v].attached
                                                     /\ client[v].sink \in stream'[i].sinks
      BY DEF LastIsLast
    <3>1. /\ \A c \in V!UnderWay(v) : c = client[v].last
          /\ client[v].attached # None => client[v].sink = client[v].last
          /\ client[v].attached # None /\ client[v].last \notin failed =>
               \E i \in ViewStreams : /\ stream[i].of = client[v].attached
                                      /\ client[v].sink \in stream[i].sinks
      BY <2>1 DEF Served, Held, LastIsLast
    <3>2. failed \subseteq failed' BY <1>1
    <3>. QED BY <1>5, <1>6, <3>1, <3>2
  <2>6. V!Here(v)' /\ ~Expects(v)' => LastIsRight(v)'
    <3>. SUFFICES ASSUME V!Here(v), client[v].choice # Agent, asking[v] = 0,
                         client[v].last \notin tangled, client[v].last \notin failed'
                  PROVE  IF V!UnderWay(v)' = {} THEN client[v].attached = client[v].choice
                                               ELSE call'[client[v].last].of = client[v].choice
      BY <1>3, <1>6 DEF LastIsRight, V!Target, Expects
    <3>1. client[v].last \notin failed BY <1>1
    <3>2. IF V!UnderWay(v) = {} THEN client[v].attached = client[v].choice
                               ELSE call[client[v].last].of = client[v].choice
      BY <2>1, <3>1 DEF Served, LastIsRight, V!Target, Expects
    <3>3. \A c \in V!UnderWay(v) : c = client[v].last BY <2>1 DEF Served, Held, LastIsLast
    <3>4. V!UnderWay(v)' = V!UnderWay(v) BY ZenonT(60), <1>4, <1>6, <3>3
    <3>. QED BY <1>6, <3>2, <3>3, <3>4
  <2>7. WishIsKnown(v)' BY <2>1 DEF Served, WishIsKnown
  <2>8. FramesAreTheirs(v, client[v])'
    <3>. SUFFICES ASSUME NEW i \in ViewStreams, NEW k \in stream'[i].sinks, k \notin orphans,
                         V!IsMapped(i)', k[1] = v
                  PROVE  \/ call'[k].at # "none"
                         \/ V!Here(v) /\ client[v].sink = k /\ client[v].attached = stream'[i].of
      BY <1>6 DEF FramesAreTheirs
    <3>1. /\ stream'[i] = stream[i] /\ V!IsMapped(i) /\ k \in stream[i].sinks /\ k \in ViewCalls
      BY <1>5, <1>7 DEF ViewCast
    <3>2. \/ call[k].at # "none"
          \/ V!Here(v) /\ client[v].sink = k /\ client[v].attached = stream[i].of
      BY <2>1, <3>1 DEF Served, Held, FramesAreTheirs
    <3>3. ASSUME call[k].at # "none" PROVE call'[k].at # "none"
      <4>1. k \in V!UnderWay(v) BY <3>1, <3>3 DEF V!UnderWay, V!CallsOf
      <4>2. call[k].at = "starting" BY <2>1, <3>1, <4>1 DEF Served, Held, CallsAreTheirs
      <4>. QED BY <1>4, <3>1, <4>2
    <3>. QED BY <3>1, <3>2, <3>3
  <2>9. Held(v, client[v])' BY <2>2, <2>3, <2>4, <2>5, <2>8 DEF Held
  <2>. QED BY <2>6, <2>7, <2>9 DEF Served
<1>. QED BY <1>8, <1>9, <1>10

LEMMA NextView ==
  ASSUME ViewNames, ViewInv, [V!Next]_V!vars
  PROVE  ViewInv'
<1>. USE DEF ViewInv
<1>1. CASE UNCHANGED V!vars
  <2>1. UNCHANGED <<tabs, front, stream, streams, call, failed, page, client, told, asking,
                    tangled, orphans>>
    BY <1>1 DEF V!vars, V!cast, V!viewVars
  <2>2. ViewCast' BY <2>1 DEF ViewCast, V!TabOf
  <2>3. ViewTyped' BY <2>1 DEF ViewTyped, V!Here
  <2>4. ASSUME NEW v \in Viewers PROVE Served(v)'
    <3>1. Served(v) OBVIOUS
    <3>. QED BY SMTT(30), <2>1, <3>1 DEF Served, Held, ClientIsTheirs, CallsAreTheirs, CallsAreAlone, LastIsLast,
             LastIsRight, WishIsKnown, FramesAreTheirs, Expects, V!UnderWay, V!CallsOf, V!Here, V!TabOf, V!Target,
             V!Shown, V!IsMapped, V!Running
  <2>. QED BY <2>2, <2>3, <2>4
<1>2. ASSUME NEW c \in ViewCalls, V!Opens(c) PROVE ViewInv'
  BY <1>2, OpenView, FailsView DEF V!Opens
<1>3. ASSUME NEW c \in ViewCalls, V!Attached(c) PROVE ViewInv' BY <1>3, AttachedView
<1>4. ASSUME NEW i \in ViewStreams, V!Stops(i) PROVE ViewInv' BY <1>4, StopsView DEF V!Stops
<1>5. ASSUME NEW v \in Viewers, V!Greet(v) PROVE ViewInv'
  <2>1. page' = [page EXCEPT ![v].socket = "open"] /\ page[v].socket = "new" BY <1>5 DEF V!Greet
  <2>2. /\ page' \in [Viewers -> APage]
        /\ page'[v].socket = "open" /\ \A u \in Viewers : u # v => page'[u] = page[u]
    BY <2>1 DEF ViewTyped
  <2>. QED BY <1>5, <2>1, <2>2, SaysView DEF V!Greet, V!Here
<1>6. ASSUME NEW v \in Viewers, NEW x \in Platforms \cup {Agent}, V!Wish(v, x) PROVE ViewInv'
  <2>1. page' = [page EXCEPT ![v].wish = x] /\ page[v].socket = "open" BY <1>6 DEF V!Wish
  <2>2. /\ page' \in [Viewers -> APage]
        /\ page'[v].socket = "open" /\ \A u \in Viewers : u # v => page'[u] = page[u]
    BY <2>1 DEF ViewTyped
  <2>. QED BY <1>6, <2>1, <2>2, SaysView DEF V!Wish, V!Here
<1>7. ASSUME NEW v \in Viewers, V!Leave(v) PROVE ViewInv' BY <1>7, LeaveView
<1>8. ASSUME NEW v \in Viewers, V!Connect(v) PROVE ViewInv'
  <2>1. /\ page' = [page EXCEPT ![v].socket = "new"] /\ ~V!Here(v) /\ V!UnderWay(v) = {}
        /\ V!Attach(v, V!NoClient) /\ UNCHANGED <<tabs, front, streams, told, asking>>
    BY <1>8 DEF V!Connect, V!Here
  <2>2. /\ page' \in [Viewers -> APage]
        /\ page'[v].socket = "new" /\ \A u \in Viewers : u # v => page'[u] = page[u]
    BY <2>1 DEF ViewTyped
  <2>3. FramesAreTheirs(v, V!NoClient)
    <3>1. FramesAreTheirs(v, client[v]) BY DEF Served, Held
    <3>. QED BY <2>1, <3>1 DEF FramesAreTheirs
  <2>4. Held(v, V!NoClient)
    BY <2>1, <2>3 DEF Held, ClientIsTheirs, CallsAreTheirs, CallsAreAlone, LastIsLast, V!NoClient
  <2>5. /\ V!NoClient \in AClient
        /\ V!NoClient.choice = Agent
    BY DEF V!NoClient
  <2>6. asking' \in [Viewers -> Nat] /\ told' \subseteq told /\ \A u \in Viewers : Expects(u)' <=> Expects(u)
    BY <2>1 DEF Expects, ViewTyped
  <2>. QED BY <2>1, <2>2, <2>4, <2>5, <2>6, Attaches
<1>9. ASSUME NEW v \in Viewers, V!Attach(v, client[v]),
             UNCHANGED <<tabs, front, streams, page>>, told' \subseteq told,
             asking' \in [Viewers -> Nat],
             \A u \in Viewers : u # v => (Expects(u)' <=> Expects(u))
      PROVE  ViewInv'
  <2>1. client[v] \in AClient /\ page' \in [Viewers -> APage] BY <1>9 DEF ViewTyped
  <2>2. /\ Held(v, client[v])
        /\ page'[v].socket = "closed" => page[v].socket = "closed"
        /\ page'[v].socket = "open" => client[v].choice = page'[v].wish
        /\ page'[v].socket = "new" => client[v].choice = Agent
    BY <1>9 DEF Served, WishIsKnown
  <2>. QED BY <1>9, <2>1, <2>2, Attaches
<1>10. ASSUME NEW v \in Viewers, V!Watch(v) PROVE ViewInv'
  <2>1. /\ told' = told /\ asking' = [asking EXCEPT ![v] = @ - 1] /\ asking[v] > 0
        /\ UNCHANGED <<tabs, front, streams, page>> /\ V!Attach(v, client[v])
    BY <1>10 DEF V!Watch
  <2>2. asking' \in [Viewers -> Nat] /\ \A u \in Viewers : u # v => asking'[u] = asking[u]
    BY <2>1 DEF ViewTyped
  <2>3. \A u \in Viewers : u # v => (Expects(u)' <=> Expects(u)) BY <2>1, <2>2 DEF Expects
  <2>. QED BY <1>9, <2>1, <2>2, <2>3
<1>11. ASSUME NEW v \in Viewers, V!Follow(v) PROVE ViewInv'
  <2>1. /\ told' = told \ {v} /\ asking' = asking /\ UNCHANGED <<tabs, front, streams, page>>
        /\ V!Attach(v, client[v])
    BY <1>11 DEF V!Follow
  <2>2. asking' \in [Viewers -> Nat] /\ told' \subseteq told BY <2>1 DEF ViewTyped
  <2>3. \A u \in Viewers : u # v => (Expects(u)' <=> Expects(u)) BY <2>1 DEF Expects
  <2>. QED BY <1>9, <2>1, <2>2, <2>3
<1>12. CASE V!TabsChange
  <2>1. PICK p \in Platforms : V!OpenTab(p) \/ V!SetActive(p) \/ V!CloseTab(p) BY <1>12 DEF V!TabsChange
  <2>2. told = {} /\ V!Announced /\ UNCHANGED <<page, client, asking, tangled, orphans>>
    BY <1>12 DEF V!TabsChange
  <2>. QED BY <2>1, <2>2, TabsView, CloseView
<1>. QED BY <1>1, <1>2, <1>3, <1>4, <1>5, <1>6, <1>7, <1>8, <1>10, <1>11, <1>12 DEF V!Next, V!Work

\* The inductive invariant holds in every reachable state.
THEOREM ViewInvariant == V!Spec => []ViewInv
<1>. USE NamesAssumption
<1>1. V!Init => ViewInv BY InitView
<1>2. ViewInv /\ [V!Next]_V!vars => ViewInv' BY NextView
<1>. QED BY <1>1, <1>2, PTL DEF V!Spec

\* Whatever overlaps, for any number of viewers, tabs and streams, a sink in a tab's stream is
\* waited for by its attach or noted by its client, whose viewer is here and attached to that
\* tab, unless another was noted over it or it was noted when its viewer had left
\* (live.ts:216-217, 167-175, 363-368).
THEOREM FramesGoWhereTheyBelong == V!Spec => []FramesOfOneTab
<1>1. ViewInv => FramesOfOneTab
  <2>. SUFFICES ASSUME ViewInv PROVE FramesOfOneTab
    OBVIOUS
  <2>1. \A i \in ViewStreams : \A k \in stream[i].sinks : k[1] \in Viewers
    BY NamesAssumption DEF ViewInv, ViewCast, ViewNames
  <2>. QED BY <2>1 DEF ViewInv, Served, Held, FramesAreTheirs, FramesOfOneTab, V!FramesOfOneTab
<1>. QED BY <1>1, ViewInvariant, PTL

\* A client at rest shows what its page wants, whatever came before its last attach.
THEOREM AtRestItShowsItsTab == V!Spec => []ShowsItsTab
<1>1. ViewInv => ShowsItsTab
  <2>. SUFFICES ASSUME ViewInv, NEW v \in Viewers, V!Settled(v)
                PROVE  /\ client[v].choice = page[v].wish
                       /\ client[v].attached = V!Target(client[v])
                       /\ client[v].attached # None =>
                            \E i \in ViewStreams : /\ stream[i].of = client[v].attached
                                                   /\ client[v].sink \in stream[i].sinks
    BY DEF ShowsItsTab, V!ShowsItsTab
  <2>1. /\ page[v].socket = "open" /\ V!Here(v) /\ ~Expects(v) /\ V!UnderWay(v) = {}
        /\ client[v].last \notin tangled /\ client[v].last \notin failed
    BY DEF V!Settled, V!Here, Expects
  <2>2. Served(v) BY DEF ViewInv
  <2>. QED BY <2>1, <2>2 DEF Served, Held, WishIsKnown, LastIsLast, LastIsRight
<1>. QED BY <1>1, ViewInvariant, PTL

----------------------------------------------------------------------------
(* The relay of the live view                                              *)
(*                                                                         *)
(* A sink is known to the relay by the want it was made for.  Unless       *)
(* something came between, one call at the most is under way for it, which *)
(* the want waits for; and a sink that is in the stream of its tab is      *)
(* noted as attached, or its call is about to do so: who drops the want    *)
(* then takes the sink along.                                              *)

CastTyped ==
  /\ relayStream \in [RelayStreams -> AStream(RelayPlatforms, RelaySinks)]
  /\ relayStreams \in [RelayPlatforms -> RelayStreams \cup {None}]
  /\ \A t \in RelayPlatforms : relayStreams[t] # None => relayStream[relayStreams[t]].of = t
  /\ relayCall \in [RelayCalls -> ACall(RelayPlatforms, RelaySinks)]
  /\ \A c \in RelayCalls : relayCall[c].at # "none" =>
       relayCall[c].of \in RelayPlatforms /\ relayCall[c].sink \in RelaySinks
  /\ \A i \in RelayStreams : relayStream[i].of = None => relayStream[i].sinks = {}
WantsTyped ==
  /\ wants \in [RelayPlatforms -> AWant]
  /\ serves \in [RelayCalls -> RelaySinks \cup {None}] /\ relayTangled \subseteq RelaySinks
  /\ \A t \in RelayPlatforms : wants[t].sink # None => wants[t].sink[1] = t
  /\ \A c \in RelayCalls : relayCall[c].at # "none" => serves[c] = relayCall[c].sink

\* A call under way is the only one for its sink, and the want waits for it.
CallIsWanted ==
  \A c \in RelayCalls : relayCall[c].at # "none" /\ serves[c] \notin relayTangled =>
    wants[relayCall[c].of].sink = serves[c]
OneCall ==
  \A c, d \in RelayCalls :
    serves[c] = serves[d] /\ serves[c] \notin relayTangled =>
      relayCall[c].at = "none" \/ relayCall[d].at = "none" \/ c = d

\* A sink is not in the tab's stream before its call has come there; then the want says so,
\* or will when the call returns.
OpeningIsOut ==
  \A c \in RelayCalls, i \in RelayStreams :
    relayCall[c].at = "opening" /\ serves[c] \notin relayTangled /\ R!IsMapped(i) =>
      serves[c] \notin relayStream[i].sinks
HeldOrComing ==
  \A i \in RelayStreams : \A k \in relayStream[i].sinks : R!IsMapped(i) /\ k \notin relayTangled =>
    wants[relayStream[i].of].attached \/ R!CallsOn(k) # {}

RelayTyped == CastTyped /\ WantsTyped
RelayInv ==
  RelayTyped /\ CallIsWanted /\ OneCall /\ OpeningIsOut /\ HeldOrComing /\ R!SinksOfWants

LEMMA InitRelay == ASSUME RelayNames, R!Init PROVE RelayInv
<1>. USE DEF R!Init, R!CastInit
<1>1. /\ \A i \in RelayStreams : relayStream[i] = R!Stopped /\ ~R!Running(i)
      /\ \A c \in RelayCalls : relayCall[c] = R!NoCall /\ relayCall[c].at = "none"
  BY DEF R!NoCall, R!Stopped, R!Running
<1>2. CastTyped BY <1>1 DEF CastTyped, R!Stopped, R!NoCall
<1>3. WantsTyped BY <1>1 DEF WantsTyped, R!NoWant
<1>. QED
  BY <1>1, <1>2, <1>3
     DEF RelayInv, RelayTyped, CallIsWanted, OneCall, OpeningIsOut, HeldOrComing,
         R!SinksOfWants, R!IsMapped

\* A step that adds to no stream and begins no call, and forgets no want and no call that
\* somebody waits for, keeps the invariant.
LEMMA Fewer ==
  ASSUME RelayInv, RelayTyped', serves' = serves, relayTangled \subseteq relayTangled',
         \A c \in RelayCalls : relayCall'[c] = relayCall[c] \/ relayCall'[c].at = "none",
         \A i \in RelayStreams : R!IsMapped(i)' => /\ R!IsMapped(i) /\ relayStream'[i].of = relayStream[i].of
                                                   /\ relayStream'[i].sinks \subseteq relayStream[i].sinks,
         \A t \in RelayPlatforms : \/ wants'[t].sink = wants[t].sink
                                   \/ \A c \in RelayCalls : relayCall[c].at # "none" /\ serves[c] = wants[t].sink =>
                                        serves[c] \in relayTangled' \/ relayCall'[c].at = "none",
         \A i \in RelayStreams : \A k \in relayStream'[i].sinks : R!IsMapped(i)' /\ k \notin relayTangled' =>
           /\ wants'[relayStream[i].of].sink = k
           /\ wants'[relayStream[i].of].attached \/ \E c \in RelayCalls : relayCall'[c].at # "none" /\ serves[c] = k
  PROVE  RelayInv'
<1>. USE DEF RelayInv
<1>1. CallIsWanted' BY DEF CallIsWanted, RelayTyped, CastTyped
<1>2. OneCall' BY DEF OneCall
<1>3. OpeningIsOut' BY DEF OpeningIsOut
<1>4. HeldOrComing'
  BY DEF HeldOrComing, R!CallsOn
<1>5. R!SinksOfWants' BY DEF R!SinksOfWants
<1>. QED BY <1>1, <1>2, <1>3, <1>4, <1>5

LEMMA QuietRelay ==
  ASSUME RelayInv, UNCHANGED <<relayStream, relayStreams, relayCall, serves, relayTangled>>,
         RelayTyped', \A t \in RelayPlatforms : /\ wants'[t].sink = wants[t].sink
                                                /\ wants'[t].attached = wants[t].attached
  PROVE  RelayInv'
<1>1. \A i \in RelayStreams : R!IsMapped(i)' => R!IsMapped(i) BY DEF R!IsMapped, R!Running
<1>2. \A i \in RelayStreams : R!IsMapped(i)' => relayStream[i].of \in RelayPlatforms
  BY DEF RelayInv, RelayTyped, CastTyped, R!IsMapped, R!Running
<1>. QED
  BY <1>1, <1>2, Fewer DEF RelayInv, R!SinksOfWants, HeldOrComing, R!CallsOn

LEMMA StopsRelay ==
  ASSUME RelayNames, RelayInv, NEW i \in RelayStreams, R!Stops(i)
  PROVE  RelayInv'
<1>. USE DEF RelayInv, RelayTyped
<1>1. /\ relayStream' = [relayStream EXCEPT ![i] = R!Stopped]
      /\ relayStreams' = [t \in RelayPlatforms |-> IF relayStreams[t] = i THEN None ELSE relayStreams[t]]
      /\ UNCHANGED <<relayCall, wants, serves, relayTangled>>
  BY DEF R!Stops, R!StopTimer, R!relayVars
<1>2. CastTyped' BY <1>1 DEF CastTyped, R!Stopped, RelayNames
<1>3. WantsTyped' BY <1>1 DEF WantsTyped
<1>4. \A j \in RelayStreams : R!IsMapped(j)' => /\ R!IsMapped(j) /\ relayStream'[j] = relayStream[j]
                                                /\ relayStream[j].of \in RelayPlatforms
  BY <1>1 DEF R!IsMapped, R!Running, R!Stopped, CastTyped, RelayNames
<1>5. \A j \in RelayStreams : \A k \in relayStream'[j].sinks : R!IsMapped(j)' /\ k \notin relayTangled' =>
        /\ wants'[relayStream[j].of].sink = k
        /\ wants'[relayStream[j].of].attached \/ \E c \in RelayCalls : relayCall'[c].at # "none" /\ serves[c] = k
  BY <1>1, <1>4 DEF R!SinksOfWants, HeldOrComing, R!CallsOn
<1>. QED BY <1>1, <1>2, <1>3, <1>4, <1>5, Fewer

\* A call that returns says so in the want it came for.
LEMMA ReturnsRelay ==
  ASSUME RelayNames, RelayInv, NEW c \in RelayCalls,
         R!Attached(c) \/ (R!OpenFails(c) /\ R!Returned(c, FALSE) /\ UNCHANGED <<serves, relayTangled>>)
  PROVE  RelayInv'
<1>. USE DEF RelayInv, RelayTyped
<1>1. /\ relayCall' = [relayCall EXCEPT ![c] = R!NoCall]
      /\ UNCHANGED <<relayStream, relayStreams, serves, relayTangled>>
      /\ \/ relayCall[c].at = "starting" /\ R!Returned(c, TRUE)
         \/ relayCall[c].at = "opening" /\ R!Returned(c, FALSE)
  BY DEF R!Attached, R!OpenFails, R!Over
<1>2. CastTyped' BY <1>1 DEF CastTyped, R!NoCall
<1>4. \A t \in RelayPlatforms :
        /\ wants'[t].sink = wants[t].sink
        /\ wants[t].sink # serves[c] => wants'[t] = wants[t]
        /\ wants[t].sink = serves[c] => (wants'[t].attached <=> relayCall[c].at = "starting")
  BY <1>1 DEF R!Returned, WantsTyped
<1>3. WantsTyped'
  <2>1. wants' \in [RelayPlatforms -> AWant]
    <3>1. PICK b \in BOOLEAN : R!Returned(c, b) BY <1>1
    <3>2. ASSUME NEW t \in RelayPlatforms
          PROVE  [wants[t] EXCEPT !.attached = b] \in AWant
      BY <3>2 DEF WantsTyped
    <3>. QED BY <3>1, <3>2 DEF WantsTyped, R!Returned
  <2>2. \A d \in RelayCalls : relayCall'[d].at # "none" => relayCall'[d] = relayCall[d]
    BY <1>1 DEF CastTyped, R!NoCall
  <2>. QED BY <1>1, <1>4, <2>1, <2>2 DEF WantsTyped
<1>5. \A i \in RelayStreams : R!IsMapped(i)' => R!IsMapped(i) /\ relayStream[i].of \in RelayPlatforms
  BY <1>1 DEF R!IsMapped, R!Running, CastTyped
<1>6. ASSUME NEW i \in RelayStreams, NEW k \in relayStream[i].sinks, R!IsMapped(i), k \notin relayTangled,
             relayStream[i].of \in RelayPlatforms
      PROVE  /\ wants'[relayStream[i].of].sink = k
             /\ \/ wants'[relayStream[i].of].attached
                \/ \E d \in RelayCalls : relayCall'[d].at # "none" /\ serves[d] = k
  <2>1. wants[relayStream[i].of].sink = k BY <1>6 DEF R!SinksOfWants
  <2>2. wants[relayStream[i].of].attached \/ \E d \in RelayCalls : relayCall[d].at # "none" /\ serves[d] = k
    BY <1>6 DEF HeldOrComing, R!CallsOn
  <2>3. CASE k # serves[c]
    BY <1>1, <1>4, <1>6, <2>1, <2>2, <2>3 DEF CastTyped
  <2>4. CASE k = serves[c]
    <3>1. relayCall[c].at # "opening" BY <1>6, <2>4 DEF OpeningIsOut
    <3>. QED BY <1>1, <1>4, <1>6, <2>1, <2>4, <3>1
  <2>. QED BY <2>3, <2>4
<1>7. \A d \in RelayCalls : relayCall'[d] = relayCall[d] \/ relayCall'[d].at = "none"
  BY <1>1 DEF CastTyped, R!NoCall
<1>. QED BY <1>1, <1>2, <1>3, <1>4, <1>5, <1>6, <1>7, Fewer

\* The session is open: its stream has the one sink, and the tab the one stream.
LEMMA OpenRelay ==
  ASSUME RelayNames, RelayInv, NEW c \in RelayCalls, R!Open(c), UNCHANGED <<wants, serves, relayTangled>>
  PROVE  RelayInv'
<1>. USE DEF RelayInv, RelayTyped
<1>. DEFINE tab == relayCall[c].of
            k == relayCall[c].sink
<1>1. PICK i \in RelayStreams :
        /\ ~R!Running(i)
        /\ relayStream' = [relayStream EXCEPT ![i] = [of |-> tab, sinks |-> {k}, stopTimer |-> FALSE]]
        /\ relayStreams' = [relayStreams EXCEPT ![tab] = i]
        /\ relayCall' = [relayCall EXCEPT ![c] = [at |-> "starting", of |-> tab, sink |-> k]]
        /\ relayCall[c].at = "opening"
  <2>1. (CHOOSE f \in R!Free : TRUE) \in R!Free BY DEF R!Open
  <2>. QED BY <2>1 DEF R!Open, R!Free, R!Waiting
<1>2. tab \in RelayPlatforms /\ k \in RelaySinks /\ serves[c] = k BY <1>1 DEF CastTyped, WantsTyped
<1>. HIDE DEF tab, k
<1>3. CastTyped' BY <1>1, <1>2 DEF CastTyped, RelayNames, R!Running
<1>4. WantsTyped' BY <1>1, <1>2 DEF WantsTyped, CastTyped
<1>5. \A j \in RelayStreams : R!IsMapped(j)' =>
        \/ j = i /\ relayStream'[j].of = tab /\ relayStream'[j].sinks = {k}
        \/ j # i /\ R!IsMapped(j) /\ relayStream'[j] = relayStream[j] /\ relayStream[j].of # tab
  BY <1>1, <1>2, <1>3 DEF R!IsMapped, R!Running, CastTyped, RelayNames
<1>6. \A d \in RelayCalls : /\ d # c => relayCall'[d] = relayCall[d]
                            /\ relayCall'[d].at # "none" <=> relayCall[d].at # "none"
                            /\ relayCall'[d].at = "opening" => d # c /\ relayCall[d].at = "opening"
  BY <1>1 DEF CastTyped
<1>7. CallIsWanted'
  BY <1>1, <1>2, <1>6 DEF CallIsWanted, CastTyped, tab
<1>8. OneCall' BY <1>6 DEF OneCall
<1>9. OpeningIsOut'
  <2>. SUFFICES ASSUME NEW d \in RelayCalls, NEW j \in RelayStreams, relayCall'[d].at = "opening",
                       serves[d] \notin relayTangled, R!IsMapped(j)'
                PROVE  serves[d] \notin relayStream'[j].sinks
    BY DEF OpeningIsOut
  <2>1. d # c /\ relayCall[d].at = "opening" BY <1>6
  <2>2. CASE j = i BY <1>1, <1>2, <1>5, <2>1, <2>2 DEF OneCall
  <2>3. CASE j # i BY <1>5, <2>1, <2>3 DEF OpeningIsOut
  <2>. QED BY <2>2, <2>3
<1>10. R!SinksOfWants' /\ HeldOrComing'
  <2>. SUFFICES ASSUME NEW j \in RelayStreams, NEW l \in relayStream'[j].sinks,
                       R!IsMapped(j)', l \notin relayTangled
                PROVE  /\ wants[relayStream'[j].of].sink = l
                       /\ wants[relayStream'[j].of].attached \/ R!CallsOn(l)' # {}
    BY DEF R!SinksOfWants, HeldOrComing
  <2>1. CASE j = i
    <3>1. l = k /\ relayStream'[j].of = tab BY <1>1, <1>5, <2>1
    <3>2. wants[tab].sink = k BY <1>1, <1>2, <3>1 DEF CallIsWanted, tab
    <3>3. c \in R!CallsOn(l)' BY <1>1, <1>2, <1>6, <3>1 DEF R!CallsOn
    <3>. QED BY <3>1, <3>2, <3>3
  <2>2. CASE j # i
    <3>1. R!IsMapped(j) /\ relayStream'[j] = relayStream[j] BY <1>5, <2>2
    <3>2. R!CallsOn(l)' = R!CallsOn(l) BY <1>6 DEF R!CallsOn
    <3>. QED BY <3>1, <3>2 DEF R!SinksOfWants, HeldOrComing
  <2>. QED BY <2>1, <2>2
<1>. QED BY <1>3, <1>4, <1>7, <1>8, <1>9, <1>10

\* A closing tab takes its streams along, and the calls that open one on it.
LEMMA CloseRelay ==
  ASSUME RelayNames, RelayInv, NEW p \in RelayPlatforms, R!CloseTab(p), UNCHANGED <<serves, relayTangled>>,
         wants' = [wants EXCEPT ![p].attached =
                     @ /\ \A c \in R!CallsOn(wants[p].sink) : relayCall[c].at # "opening"]
  PROVE  RelayInv'
<1>. USE DEF RelayInv, RelayTyped
<1>1. /\ relayStream' = [i \in RelayStreams |-> IF relayStream[i].of = p THEN R!Stopped ELSE relayStream[i]]
      /\ relayStreams' = [relayStreams EXCEPT ![p] = None]
      /\ relayCall' = [c \in RelayCalls |->
                        IF relayCall[c].at = "opening" /\ relayCall[c].of = p THEN R!NoCall ELSE relayCall[c]]
  BY DEF R!CloseTab
<1>2. CastTyped' BY <1>1 DEF CastTyped, R!Stopped, R!NoCall, RelayNames
<1>3. \A t \in RelayPlatforms : wants'[t].sink = wants[t].sink /\ (t # p => wants'[t] = wants[t])
  BY DEF WantsTyped
<1>4. WantsTyped'
  <2>1. wants' \in [RelayPlatforms -> AWant]
    <3>1. PICK b \in BOOLEAN :
            b = (wants[p].attached /\ \A c \in R!CallsOn(wants[p].sink) : relayCall[c].at # "opening")
      BY DEF WantsTyped
    <3>2. wants' = [wants EXCEPT ![p].attached = b] BY <3>1
    <3>. QED BY <3>2 DEF WantsTyped
  <2>2. \A d \in RelayCalls : relayCall'[d].at # "none" => relayCall'[d] = relayCall[d] BY <1>1 DEF R!NoCall
  <2>. QED BY <1>3, <2>1, <2>2 DEF WantsTyped
<1>5. \A i \in RelayStreams : R!IsMapped(i)' => /\ R!IsMapped(i) /\ relayStream'[i] = relayStream[i]
                                                /\ relayStream[i].of \in RelayPlatforms \ {p}
  BY <1>1 DEF R!IsMapped, R!Running, R!Stopped, CastTyped, RelayNames
<1>6. ASSUME NEW i \in RelayStreams, NEW k \in relayStream[i].sinks, R!IsMapped(i), k \notin relayTangled,
             relayStream[i].of \in RelayPlatforms \ {p}
      PROVE  /\ wants'[relayStream[i].of].sink = k
             /\ \/ wants'[relayStream[i].of].attached
                \/ \E d \in RelayCalls : relayCall'[d].at # "none" /\ serves[d] = k
  <2>1. wants[relayStream[i].of].sink = k BY <1>6 DEF R!SinksOfWants
  <2>2. CASE wants[relayStream[i].of].attached BY <1>3, <1>6, <2>1, <2>2
  <2>3. CASE R!CallsOn(k) # {}
    <3>1. PICK d \in RelayCalls : relayCall[d].at # "none" /\ serves[d] = k BY <2>3 DEF R!CallsOn
    <3>2. wants[relayCall[d].of].sink = k /\ relayCall[d].of \in RelayPlatforms /\ k \in RelaySinks
      BY <1>6, <3>1 DEF CallIsWanted, CastTyped
    <3>3. relayCall[d].of = relayStream[i].of
      <4>1. /\ wants[relayCall[d].of].sink[1] = relayCall[d].of
            /\ wants[relayStream[i].of].sink[1] = relayStream[i].of
        BY <1>6, <2>1, <3>2 DEF WantsTyped, RelayNames
      <4>. QED BY <2>1, <3>2, <4>1
    <3>4. relayCall'[d] = relayCall[d] BY <1>1, <1>6, <3>3
    <3>. QED BY <1>3, <1>6, <2>1, <3>1, <3>4
  <2>. QED BY <1>6, <2>2, <2>3 DEF HeldOrComing
<1>7. \A d \in RelayCalls : relayCall'[d] = relayCall[d] \/ relayCall'[d].at = "none"
  BY <1>1 DEF R!NoCall
<1>. QED BY <1>2, <1>3, <1>4, <1>5, <1>6, <1>7, Fewer

\* A want that is dropped takes its sink along, or leaves it to be known as tangled.
LEMMA ReapRelay ==
  ASSUME RelayNames, RelayInv, NEW p \in RelayPlatforms, R!Reap(p)
  PROVE  RelayInv'
<1>. USE DEF RelayInv, RelayTyped
<1>. DEFINE k == wants[p].sink
<1>1. /\ k # None /\ wants' = [wants EXCEPT ![p] = R!NoWant]
      /\ relayStream' = R!Released(p)
      /\ relayTangled' = IF R!CallsOn(k) # {} THEN relayTangled \cup {k} ELSE relayTangled
      /\ UNCHANGED <<relayStreams, relayCall, serves>>
  BY DEF R!Reap, R!Wanted
<1>2. k \in RelaySinks /\ k[1] = p BY <1>1 DEF WantsTyped
<1>3. \A i \in RelayStreams : /\ relayStream'[i].of = relayStream[i].of
                              /\ relayStream'[i].sinks \subseteq relayStream[i].sinks
                              /\ wants[p].attached /\ relayStreams[p] = i => k \notin relayStream'[i].sinks
  BY <1>1 DEF R!Released, R!Left, CastTyped, RelayNames
<1>4. relayStream' \in [RelayStreams -> AStream(RelayPlatforms, RelaySinks)]
  BY <1>1 DEF R!Released, R!Left, CastTyped
<1>5. CastTyped' BY <1>1, <1>3, <1>4 DEF CastTyped
<1>6. \A t \in RelayPlatforms \ {p} : wants'[t] = wants[t] BY <1>1 DEF WantsTyped
<1>7. WantsTyped'
  <2>1. wants'[p] = R!NoWant BY <1>1 DEF WantsTyped
  <2>2. wants' \in [RelayPlatforms -> AWant]
    BY <1>1 DEF WantsTyped, R!NoWant
  <2>3. relayTangled' \subseteq RelaySinks BY <1>1, <1>2 DEF WantsTyped
  <2>. QED BY <1>1, <1>6, <2>1, <2>2, <2>3 DEF WantsTyped, R!NoWant
<1>8. \A i \in RelayStreams : R!IsMapped(i)' => R!IsMapped(i) /\ relayStream[i].of \in RelayPlatforms
  BY <1>1, <1>3 DEF R!IsMapped, R!Running, CastTyped
<1>9. ASSUME NEW i \in RelayStreams, NEW l \in relayStream'[i].sinks, R!IsMapped(i), l \notin relayTangled',
             relayStream[i].of \in RelayPlatforms
      PROVE  /\ wants'[relayStream[i].of].sink = l
             /\ \/ wants'[relayStream[i].of].attached
                \/ \E c \in RelayCalls : relayCall'[c].at # "none" /\ serves[c] = l
  <2>1. l \in relayStream[i].sinks /\ l \notin relayTangled BY <1>1, <1>3, <1>9
  <2>2. /\ wants[relayStream[i].of].sink = l
        /\ wants[relayStream[i].of].attached \/ R!CallsOn(l) # {}
    BY <1>9, <2>1 DEF R!SinksOfWants, HeldOrComing
  <2>3. CASE relayStream[i].of # p BY <1>1, <1>6, <1>9, <2>2, <2>3 DEF R!CallsOn
  <2>4. CASE relayStream[i].of = p
    <3>1. l = k /\ relayStreams[p] = i BY <1>9, <2>2, <2>4 DEF R!IsMapped
    <3>2. R!CallsOn(k) = {} BY <1>1, <1>9, <3>1
    <3>3. wants[p].attached BY <2>2, <2>4, <3>1, <3>2
    <3>. QED BY <1>3, <1>9, <3>1, <3>3
  <2>. QED BY <2>3, <2>4
<1>10. \A t \in RelayPlatforms : \/ wants'[t].sink = wants[t].sink
                                 \/ \A c \in RelayCalls : relayCall[c].at # "none" /\ serves[c] = wants[t].sink =>
                                      serves[c] \in relayTangled'
  BY <1>1, <1>6 DEF R!CallsOn
<1>11. relayTangled \subseteq relayTangled' BY <1>1
<1>. QED BY <1>1, <1>3, <1>5, <1>7, <1>8, <1>9, <1>10, <1>11, Fewer

\* A call is made for a want that is new, or not attached.
LEMMA AskRelay ==
  ASSUME RelayNames, RelayInv, NEW p \in RelayPlatforms, NEW k \in RelaySinks, NEW c \in RelayCalls,
         ~(R!Wanted(p) /\ wants[p].attached),
         relayCall[c].at = "none", R!Acquire(c, p, k, relayStream), serves' = [serves EXCEPT ![c] = k],
         wants' = [wants EXCEPT ![p] = [sink |-> k, fresh |-> TRUE, attached |-> FALSE]],
         relayTangled' = (IF R!CallsOn(k) # {} THEN relayTangled \cup {k}
                          ELSE IF R!Wanted(p) THEN relayTangled ELSE relayTangled \ {k}),
         UNCHANGED relayStreams,
         k[1] = p, R!Wanted(p) => k = wants[p].sink,
         ~R!Wanted(p) => R!CallsOn(k) = {} /\ \A i \in RelayStreams : k \notin relayStream[i].sinks
  PROVE  RelayInv'
<1>. USE DEF RelayInv, RelayTyped
<1>1. /\ \/ relayStream' = relayStream
         \/ relayStreams[p] # None /\ relayStream' = R!Joined(relayStream, relayStreams[p], k)
      /\ \/ relayCall' = relayCall /\ relayStream' = relayStream
         \/ /\ relayCall' = [relayCall EXCEPT ![c] = [at |-> "starting", of |-> p, sink |-> k]]
            /\ relayStreams[p] # None /\ relayStream' = R!Joined(relayStream, relayStreams[p], k)
         \/ /\ relayCall' = [relayCall EXCEPT ![c] = [at |-> "opening", of |-> p, sink |-> k]]
            /\ relayStreams[p] = None /\ relayStream' = relayStream
  BY DEF R!Acquire, R!Waiting
<1>2. \A i \in RelayStreams : /\ relayStream'[i].of = relayStream[i].of
                              /\ relayStream'[i].sinks \subseteq relayStream[i].sinks \cup {k}
                              /\ relayStream'[i].sinks # relayStream[i].sinks =>
                                   i = relayStreams[p] /\ relayCall'[c].at = "starting" /\ relayStream[i].of = p
  BY <1>1 DEF R!Joined, CastTyped
<1>3. \A d \in RelayCalls : d # c => relayCall'[d] = relayCall[d] /\ serves'[d] = serves[d]
  BY <1>1 DEF CastTyped, WantsTyped
<1>4. /\ serves'[c] = k
      /\ relayCall'[c].at # "none" => relayCall'[c].of = p /\ relayCall'[c].sink = k
      /\ relayCall'[c].at = "opening" => relayStreams[p] = None
  BY <1>1 DEF CastTyped, WantsTyped
<1>5. /\ wants'[p].sink = k /\ \A t \in RelayPlatforms \ {p} : wants'[t] = wants[t]
  BY DEF WantsTyped
<1>6. CastTyped'
  <2>1. relayStream' \in [RelayStreams -> AStream(RelayPlatforms, RelaySinks)]
    BY <1>1 DEF R!Joined, CastTyped
  <2>2. relayCall' \in [RelayCalls -> ACall(RelayPlatforms, RelaySinks)]
    BY <1>1 DEF CastTyped
  <2>3. \A i \in RelayStreams : relayStream'[i].of = None => relayStream'[i].sinks = {}
    BY <1>2 DEF CastTyped, RelayNames
  <2>. QED BY <1>2, <1>3, <1>4, <2>1, <2>2, <2>3 DEF CastTyped
<1>7. WantsTyped'
  <2>1. wants' \in [RelayPlatforms -> AWant]
    BY DEF WantsTyped
  <2>2. serves' \in [RelayCalls -> RelaySinks \cup {None}] /\ relayTangled' \subseteq RelaySinks
    BY DEF WantsTyped
  <2>. QED BY <1>3, <1>4, <1>5, <2>1, <2>2 DEF WantsTyped
<1>8. k \notin relayTangled' => R!CallsOn(k) = {} /\ (R!Wanted(p) => k \notin relayTangled)
  OBVIOUS
<1>9. \A l : l # k /\ l \notin relayTangled' => l \notin relayTangled
  OBVIOUS
<1>10. k \notin relayTangled' => \A i \in RelayStreams : R!IsMapped(i) => k \notin relayStream[i].sinks
  <2>. SUFFICES ASSUME k \notin relayTangled', R!Wanted(p), NEW i \in RelayStreams, R!IsMapped(i),
                       k \in relayStream[i].sinks
                PROVE  FALSE
    OBVIOUS
  <2>1. wants[relayStream[i].of].sink = k /\ relayStream[i].of \in RelayPlatforms
    BY <1>8 DEF R!SinksOfWants, R!IsMapped, R!Running, CastTyped
  <2>2. relayStream[i].of = p BY <2>1 DEF WantsTyped, RelayNames
  <2>. QED BY <1>8, <2>2 DEF HeldOrComing
<1>11. ASSUME NEW d \in RelayCalls, d # c, relayCall[d].at # "none", serves[d] \notin relayTangled'
       PROVE  serves[d] # k /\ serves[d] \notin relayTangled
  <2>1. serves[d] # k BY <1>8, <1>11 DEF R!CallsOn
  <2>. QED BY <1>9, <1>11, <2>1
<1>12. CallIsWanted'
  <2>. SUFFICES ASSUME NEW d \in RelayCalls, relayCall'[d].at # "none", serves'[d] \notin relayTangled'
                PROVE  wants'[relayCall'[d].of].sink = serves'[d]
    BY DEF CallIsWanted
  <2>1. CASE d = c BY <1>4, <1>5, <2>1
  <2>2. CASE d # c
    <3>1. relayCall'[d] = relayCall[d] /\ serves'[d] = serves[d] BY <1>3, <2>2
    <3>2. serves[d] # k /\ serves[d] \notin relayTangled BY <1>11, <2>2, <3>1
    <3>3. wants[relayCall[d].of].sink = serves[d] /\ relayCall[d].of \in RelayPlatforms /\ serves[d] # None
      BY <3>1, <3>2 DEF CallIsWanted, CastTyped, WantsTyped, RelayNames
    <3>4. relayCall[d].of # p BY <3>2, <3>3 DEF R!Wanted
    <3>. QED BY <1>5, <3>1, <3>3, <3>4
  <2>. QED BY <2>1, <2>2
<1>13. OneCall'
  <2>. SUFFICES ASSUME NEW d \in RelayCalls, NEW e \in RelayCalls,
                       relayCall'[d].at # "none", relayCall'[e].at # "none",
                       serves'[d] = serves'[e], serves'[d] \notin relayTangled'
                PROVE  d = e
    BY DEF OneCall
  <2>1. CASE d # c /\ e # c BY <1>3, <1>11, <2>1 DEF OneCall
  <2>2. CASE d = c /\ e # c BY <1>3, <1>4, <1>11, <2>2
  <2>3. CASE d # c /\ e = c BY <1>3, <1>4, <1>11, <2>3
  <2>. QED BY <2>1, <2>2, <2>3
<1>14. \A i \in RelayStreams : R!IsMapped(i)' => R!IsMapped(i) /\ relayStream[i].of \in RelayPlatforms
  BY <1>2 DEF R!IsMapped, R!Running, CastTyped
<1>15. OpeningIsOut'
  <2>. SUFFICES ASSUME NEW d \in RelayCalls, NEW i \in RelayStreams, relayCall'[d].at = "opening",
                       serves'[d] \notin relayTangled', R!IsMapped(i)'
                PROVE  serves'[d] \notin relayStream'[i].sinks
    BY DEF OpeningIsOut
  <2>1. CASE d = c
    <3>1. relayStream'[i].sinks = relayStream[i].sinks BY <1>2, <2>1
    <3>. QED BY <1>4, <1>10, <1>14, <2>1, <3>1
  <2>2. CASE d # c BY <1>2, <1>3, <1>11, <1>14, <2>2 DEF OpeningIsOut
  <2>. QED BY <2>1, <2>2
<1>16. R!SinksOfWants' /\ HeldOrComing'
  <2>. SUFFICES ASSUME NEW i \in RelayStreams, NEW l \in relayStream'[i].sinks,
                       R!IsMapped(i)', l \notin relayTangled'
                PROVE  /\ wants'[relayStream'[i].of].sink = l
                       /\ wants'[relayStream'[i].of].attached \/ R!CallsOn(l)' # {}
    BY DEF R!SinksOfWants, HeldOrComing
  <2>1. CASE l = k
    <3>1. relayStream'[i].sinks # relayStream[i].sinks BY <1>10, <1>14, <2>1
    <3>2. relayStream'[i].of = p /\ relayCall'[c].at = "starting" BY <1>2, <3>1
    <3>. QED BY <1>4, <1>5, <2>1, <3>2 DEF R!CallsOn
  <2>2. CASE l # k
    <3>1. l \in relayStream[i].sinks /\ R!IsMapped(i) /\ l \notin relayTangled BY <1>2, <1>9, <1>14, <2>2
    <3>2. /\ wants[relayStream[i].of].sink = l /\ l \in RelaySinks
          /\ wants[relayStream[i].of].attached \/ R!CallsOn(l) # {}
      BY <3>1 DEF R!SinksOfWants, HeldOrComing, CastTyped
    <3>3. relayStream[i].of # p BY <2>2, <3>2 DEF R!Wanted, RelayNames
    <3>4. R!CallsOn(l) \subseteq R!CallsOn(l)' BY <1>3 DEF R!CallsOn
    <3>. QED BY <1>2, <1>5, <1>14, <3>2, <3>3, <3>4
  <2>. QED BY <2>1, <2>2
<1>. QED BY <1>6, <1>7, <1>12, <1>13, <1>15, <1>16

\* A message about a tab: whoever is asked for anew, nobody has yet; who is asked for again
\* while a call is under way is tangled from then on.
LEMMA HearRelay ==
  ASSUME RelayNames, RelayInv, NEW a \in Apis, NEW p \in RelayPlatforms, R!Hear(a, p)
  PROVE  RelayInv'
<1>. USE DEF RelayInv, RelayTyped
<1>1. CASE R!Wanted(p) /\ wants[p].attached
  <2>1. /\ UNCHANGED <<relayStream, relayStreams, relayCall, serves, relayTangled>>
        /\ wants' = [wants EXCEPT ![p].fresh = TRUE]
    BY <1>1 DEF R!Hear
  <2>2. \A t \in RelayPlatforms : wants'[t].sink = wants[t].sink /\ wants'[t].attached = wants[t].attached
    BY <2>1 DEF WantsTyped
  <2>3. wants' \in [RelayPlatforms -> AWant]
    BY ZenonT(60), <2>1 DEF WantsTyped
  <2>4. CastTyped' BY <2>1 DEF CastTyped
  <2>5. WantsTyped' BY <2>1, <2>2, <2>3 DEF WantsTyped
  <2>. QED BY <2>1, <2>2, <2>4, <2>5, QuietRelay
<1>2. CASE ~(R!Wanted(p) /\ wants[p].attached)
  <2>1. PICK k \in RelaySinks :
          /\ IF R!Wanted(p) THEN k = wants[p].sink
                            ELSE R!SpareSinks(p) # {} /\ k = CHOOSE s \in R!SpareSinks(p) : TRUE
          /\ R!SpareCalls(p) # {}
          /\ LET c == CHOOSE d \in R!SpareCalls(p) : TRUE IN
               R!Acquire(c, p, k, relayStream) /\ serves' = [serves EXCEPT ![c] = k]
          /\ wants' = [wants EXCEPT ![p] = [sink |-> k, fresh |-> TRUE, attached |-> FALSE]]
          /\ relayTangled' = IF R!CallsOn(k) # {} THEN relayTangled \cup {k}
                             ELSE IF R!Wanted(p) THEN relayTangled ELSE relayTangled \ {k}
    BY <1>2 DEF R!Hear
  <2>2. UNCHANGED relayStreams BY DEF R!Hear
  <2>3. PICK c \in RelayCalls :
          /\ relayCall[c].at = "none" /\ R!Acquire(c, p, k, relayStream)
          /\ serves' = [serves EXCEPT ![c] = k]
    <3>1. (CHOOSE d \in R!SpareCalls(p) : TRUE) \in R!SpareCalls(p) BY <2>1
    <3>. QED BY <2>1, <3>1 DEF R!SpareCalls
  <2>4. /\ k[1] = p
        /\ R!Wanted(p) => k = wants[p].sink
        /\ ~R!Wanted(p) => R!CallsOn(k) = {} /\ \A i \in RelayStreams : k \notin relayStream[i].sinks
    <3>1. CASE R!Wanted(p) BY <2>1, <3>1 DEF WantsTyped, RelayNames
    <3>2. CASE ~R!Wanted(p)
      <4>1. k \in R!SpareSinks(p) BY <2>1, <3>2
      <4>. QED BY <3>2, <4>1 DEF R!SpareSinks
    <3>. QED BY <3>1, <3>2
  <2>. QED BY <1>2, <2>1, <2>2, <2>3, <2>4, AskRelay
<1>. QED BY <1>1, <1>2

LEMMA NextRelay ==
  ASSUME RelayNames, RelayInv, [R!Next]_R!vars
  PROVE  RelayInv'
<1>. USE DEF RelayInv
<1>1. ASSUME UNCHANGED <<relayStream, relayStreams, relayCall, wants, serves, relayTangled>> PROVE RelayInv'
  <2>1. CastTyped' BY <1>1 DEF RelayTyped, CastTyped
  <2>2. WantsTyped' BY <1>1 DEF RelayTyped, WantsTyped
  <2>. QED BY <1>1, <2>1, <2>2, QuietRelay DEF RelayTyped
<1>2. CASE UNCHANGED R!vars BY <1>1, <1>2 DEF R!vars, R!cast, R!relayVars
<1>3. ASSUME NEW a \in Apis, NEW p \in RelayPlatforms, R!Watch(a, p) \/ R!Hear(a, p) PROVE RelayInv'
  BY <1>1, <1>3, HearRelay DEF R!Watch, R!cast
<1>4. ASSUME NEW a \in Apis, NEW ps \in SUBSET RelayPlatforms, R!Unwatch(a, ps) PROVE RelayInv'
  BY <1>1, <1>4 DEF R!Unwatch, R!cast
<1>5. ASSUME NEW c \in RelayCalls, R!Opens(c) \/ R!Attached(c) PROVE RelayInv'
  BY <1>5, OpenRelay, ReturnsRelay DEF R!Opens
<1>6. ASSUME NEW i \in RelayStreams, R!Stops(i) PROVE RelayInv' BY <1>6, StopsRelay
<1>7. ASSUME NEW p \in RelayPlatforms, R!Lapse(p) PROVE RelayInv'
  <2>1. /\ wants' = [wants EXCEPT ![p].fresh = FALSE]
        /\ UNCHANGED <<relayStream, relayStreams, relayCall, serves, relayTangled>>
    BY <1>7 DEF R!Lapse, R!cast
  <2>2. \A t \in RelayPlatforms : wants'[t].sink = wants[t].sink /\ wants'[t].attached = wants[t].attached
    BY <2>1 DEF RelayTyped, WantsTyped
  <2>3. wants' \in [RelayPlatforms -> AWant]
    BY ZenonT(60), <2>1 DEF RelayTyped, WantsTyped
  <2>4. CastTyped' BY <2>1 DEF RelayTyped, CastTyped
  <2>5. WantsTyped' BY <2>1, <2>2, <2>3 DEF RelayTyped, WantsTyped
  <2>. QED BY <2>1, <2>2, <2>4, <2>5, QuietRelay DEF RelayTyped
<1>8. ASSUME NEW p \in RelayPlatforms, R!Reap(p) PROVE RelayInv' BY <1>8, ReapRelay
<1>9. CASE R!TabsChange
  <2>1. PICK p \in RelayPlatforms :
          \/ R!OpenTab(p) /\ UNCHANGED wants
          \/ R!CloseTab(p) /\ wants' = [wants EXCEPT ![p].attached =
               @ /\ \A c \in R!CallsOn(wants[p].sink) : relayCall[c].at # "opening"]
    BY <1>9 DEF R!TabsChange
  <2>2. UNCHANGED <<serves, relayTangled>> BY <1>9 DEF R!TabsChange
  <2>3. CASE R!OpenTab(p) /\ UNCHANGED wants BY <1>1, <2>2, <2>3 DEF R!OpenTab
  <2>. QED BY <2>1, <2>2, <2>3, CloseRelay
<1>. QED BY <1>2, <1>3, <1>4, <1>5, <1>6, <1>7, <1>8, <1>9 DEF R!Next

\* The inductive invariant holds in every reachable state.
THEOREM RelayInvariant == R!Spec => []RelayInv
<1>. USE NamesAssumption
<1>1. R!Init => RelayInv BY InitRelay
<1>2. RelayInv /\ [R!Next]_R!vars => RelayInv' BY NextRelay
<1>. QED BY <1>1, <1>2, PTL DEF R!Spec

\* However messages, calls, lapses and closing tabs interleave, a stream's sinks are those of
\* the wants there are (onWatching, the reaper of live-relay.ts), unless two messages asked
\* for one stream at once or the want was dropped while its stream was being opened.
THEOREM RelayKeepsItsSinks == R!Spec => []SinksOfWants
<1>1. RelayInv => SinksOfWants BY DEF RelayInv, SinksOfWants
<1>. QED BY <1>1, RelayInvariant, PTL

----------------------------------------------------------------------------
(* The types of the screencast                                             *)
(*                                                                         *)
(* The two invariants above speak of what frames go by.  The rest of the   *)
(* types: the list of tabs has each tab once and the one in front, and a   *)
(* stream in the map has a tab; where a session is being opened there is   *)
(* one, or its call would have been failed when the tab closed.            *)

Distinct(s) == \A m, n \in 1..Len(s) : s[m] = s[n] => m = n
Without(s, n) == SubSeq(s, 1, n - 1) \o SubSeq(s, n + 1, Len(s))

\* A sequence without one of its elements has the others, as often as before.
LEMMA Removed ==
  ASSUME NEW T, NEW s \in Seq(T), Distinct(s), NEW n \in 1..Len(s)
  PROVE  /\ Without(s, n) \in Seq(T) /\ Distinct(Without(s, n))
         /\ \A m \in 1..Len(s) : m # n => \E k \in 1..Len(Without(s, n)) : Without(s, n)[k] = s[m]
<1>. DEFINE l == SubSeq(s, 1, n - 1)
            r == SubSeq(s, n + 1, Len(s))
            w == Without(s, n)
<1>1. n \in 1..Len(s) /\ Len(s) \in Nat OBVIOUS
<1>2. /\ l \in Seq(T) /\ Len(l) = n - 1 /\ \A m \in 1..(n - 1) : l[m] = s[m]
      /\ r \in Seq(T) /\ Len(r) = Len(s) - n /\ \A m \in 1..(Len(s) - n) : r[m] = s[n + m]
  BY <1>1
<1>3. w = l \o r BY DEF Without
<1>. HIDE DEF l, r, w
<1>4. /\ w \in Seq(T) /\ Len(w) = Len(s) - 1
      /\ \A m \in 1..Len(w) : w[m] = IF m <= Len(l) THEN l[m] ELSE r[m - Len(l)]
  <2>1. l \in Seq(T) /\ r \in Seq(T) BY <1>2
  <2>2. /\ l \o r \in Seq(T) /\ Len(l \o r) = Len(l) + Len(r)
        /\ \A m \in 1..(Len(l) + Len(r)) : (l \o r)[m] = IF m <= Len(l) THEN l[m] ELSE r[m - Len(l)]
    BY <2>1, ConcatProperties
  <2>. QED BY <1>1, <1>2, <1>3, <2>2
<1>5. \A m \in 1..Len(w) : w[m] = s[IF m < n THEN m ELSE m + 1]
  <2>. SUFFICES ASSUME NEW m \in 1..Len(w) PROVE w[m] = s[IF m < n THEN m ELSE m + 1]
    OBVIOUS
  <2>1. CASE m < n
    <3>1. m <= Len(l) /\ m \in 1..(n - 1) BY <1>1, <1>2, <2>1
    <3>. QED BY <1>2, <1>4, <2>1, <3>1
  <2>2. CASE ~(m < n)
    <3>1. ~(m <= Len(l)) /\ m - Len(l) \in 1..(Len(s) - n) /\ n + (m - Len(l)) = m + 1
      BY <1>1, <1>2, <1>4, <2>2
    <3>2. w[m] = r[m - Len(l)] BY <1>4, <3>1
    <3>3. r[m - Len(l)] = s[n + (m - Len(l))] BY <1>2, <3>1
    <3>. QED BY <2>2, <3>1, <3>2, <3>3
  <2>. QED BY <2>1, <2>2
<1>6. Distinct(w)
  <2>. SUFFICES ASSUME NEW i \in 1..Len(w), NEW j \in 1..Len(w), w[i] = w[j] PROVE i = j
    BY DEF Distinct
  <2>. DEFINE a == IF i < n THEN i ELSE i + 1
              b == IF j < n THEN j ELSE j + 1
  <2>1. a \in 1..Len(s) /\ b \in 1..Len(s) BY <1>1, <1>4
  <2>2. s[a] = s[b] BY <1>5
  <2>3. a = b BY <2>1, <2>2 DEF Distinct
  <2>. QED BY <1>1, <2>3
<1>7. ASSUME NEW m \in 1..Len(s), m # n PROVE \E k \in 1..Len(w) : w[k] = s[m]
  <2>1. CASE m < n
    <3>1. m \in 1..Len(w) BY <1>1, <1>4, <2>1
    <3>2. w[m] = s[m] BY <1>5, <2>1, <3>1
    <3>. QED BY <3>1, <3>2
  <2>2. CASE ~(m < n)
    <3>1. m - 1 \in 1..Len(w) /\ ~(m - 1 < n) /\ (m - 1) + 1 = m BY <1>1, <1>4, <1>7, <2>2
    <3>2. w[m - 1] = s[m] BY <1>5, <3>1
    <3>. QED BY <3>1, <3>2
  <2>. QED BY <2>1, <2>2
<1>. QED BY <1>4, <1>6, <1>7 DEF w

\* A list of tabs, and the one in front.
Listed(s, P, f) == s \in Seq(P) /\ Distinct(s) /\ f \in {s[m] : m \in 1..Len(s)} \cup {None}

\* A tab that opens is in the list from then on; one that closes leaves the others there.
LEMMA ListedOpens ==
  ASSUME NEW P, NEW s, NEW f, Listed(s, P, f), NEW p \in P, \A m \in 1..Len(s) : s[m] # p
  PROVE  /\ Listed(Append(s, p), P, f)
         /\ \A m \in 1..Len(s) : \E k \in 1..Len(Append(s, p)) : Append(s, p)[k] = s[m]
<1>. DEFINE a == Append(s, p)
<1>1. s \in Seq(P) /\ Len(s) \in Nat BY DEF Listed
<1>2. a \in Seq(P) /\ Len(a) = Len(s) + 1 /\ \A m \in 1..Len(s) : a[m] = s[m]
  BY <1>1, AppendProperties
<1>3. a[Len(s) + 1] = p BY <1>1, AppendProperties
<1>. HIDE DEF a
<1>4. Distinct(a)
  <2>. SUFFICES ASSUME NEW i \in 1..Len(a), NEW j \in 1..Len(a), a[i] = a[j] PROVE i = j
    BY DEF Distinct
  <2>1. CASE i \in 1..Len(s) /\ j \in 1..Len(s) BY <1>2, <2>1 DEF Listed, Distinct
  <2>2. CASE i \in 1..Len(s) /\ j \notin 1..Len(s)
    <3>1. j = Len(s) + 1 BY <1>1, <1>2, <2>2
    <3>. QED BY <1>2, <1>3, <2>2, <3>1
  <2>3. CASE i \notin 1..Len(s) /\ j \in 1..Len(s)
    <3>1. i = Len(s) + 1 BY <1>1, <1>2, <2>3
    <3>. QED BY <1>2, <1>3, <2>3, <3>1
  <2>4. CASE i \notin 1..Len(s) /\ j \notin 1..Len(s) BY <1>1, <1>2, <2>4
  <2>. QED BY <2>1, <2>2, <2>3, <2>4
<1>5. \A m \in 1..Len(s) : m \in 1..Len(a) BY <1>1, <1>2
<1>6. \A m \in 1..Len(s) : \E k \in 1..Len(a) : a[k] = s[m] BY <1>2, <1>5
<1>7. f \in {a[m] : m \in 1..Len(a)} \cup {None} BY <1>6 DEF Listed
<1>8. Listed(a, P, f) BY <1>2, <1>4, <1>7 DEF Listed
<1>. QED BY <1>6, <1>8 DEF a

LEMMA ListedCloses ==
  ASSUME NEW P, NEW s, NEW f, Listed(s, P, f), NEW n \in 1..Len(s)
  PROVE  /\ Listed(Without(s, n), P, IF f = s[n] THEN None ELSE f)
         /\ \A t : t # s[n] /\ t \in {s[m] : m \in 1..Len(s)} =>
              t \in {Without(s, n)[k] : k \in 1..Len(Without(s, n))}
<1>1. /\ Without(s, n) \in Seq(P) /\ Distinct(Without(s, n))
      /\ \A m \in 1..Len(s) : m # n => \E k \in 1..Len(Without(s, n)) : Without(s, n)[k] = s[m]
  <2>1. s \in Seq(P) /\ Distinct(s) BY DEF Listed
  <2>. QED BY <2>1, Removed
<1>2. ASSUME NEW t, t # s[n], t \in {s[m] : m \in 1..Len(s)}
      PROVE  t \in {Without(s, n)[k] : k \in 1..Len(Without(s, n))}
  <2>1. PICK m \in 1..Len(s) : s[m] = t BY <1>2
  <2>2. m # n BY <1>2, <2>1
  <2>3. PICK k \in 1..Len(Without(s, n)) : Without(s, n)[k] = s[m] BY <1>1, <2>2
  <2>. QED BY <2>1, <2>3
<1>3. (IF f = s[n] THEN None ELSE f)
        \in {Without(s, n)[k] : k \in 1..Len(Without(s, n))} \cup {None}
  BY <1>2 DEF Listed
<1>. QED BY <1>1, <1>2, <1>3 DEF Listed

ViewTabs ==
  /\ Listed(tabs, Platforms, front)
  /\ changes \in 0..MaxChanges

LEMMA ViewTabsStep ==
  ASSUME MaxChanges \in Nat, ViewTabs, [V!Next]_V!vars
  PROVE  ViewTabs'
<1>. USE DEF ViewTabs
<1>1. ASSUME UNCHANGED <<tabs, front>>, changes' \in 0..MaxChanges
      PROVE  ViewTabs'
  BY <1>1 DEF Listed
<1>2. ASSUME changes < MaxChanges, changes' = changes + 1 PROVE changes' \in 0..MaxChanges
  BY <1>2
<1>3. CASE UNCHANGED V!vars BY <1>1, <1>3 DEF V!vars, V!cast, V!viewVars
<1>4. ASSUME NEW c \in ViewCalls, V!Opens(c) \/ V!Attached(c) PROVE ViewTabs'
  BY <1>1, <1>4 DEF V!Opens, V!Open, V!OpenFails, V!Attached, V!viewVars
<1>5. ASSUME NEW i \in ViewStreams, V!Stops(i) PROVE ViewTabs'
  BY <1>1, <1>5 DEF V!Stops, V!StopTimer, V!viewVars
<1>7. ASSUME NEW v \in Viewers, V!Greet(v) \/ \E x \in Platforms \cup {Agent} : V!Wish(v, x)
      PROVE  ViewTabs'
  <2>1. UNCHANGED <<tabs, front>> /\ (changes' = changes \/ (changes < MaxChanges /\ changes' = changes + 1))
    BY <1>7 DEF V!Greet, V!Wish
  <2>. QED BY <1>1, <1>2, <2>1
<1>8. ASSUME NEW v \in Viewers, V!Watch(v) \/ V!Follow(v) \/ V!Connect(v) PROVE ViewTabs'
  BY <1>1, <1>8 DEF V!Watch, V!Follow, V!Connect
<1>9. ASSUME NEW v \in Viewers, V!Leave(v) PROVE ViewTabs'
  BY <1>1, <1>2, <1>9 DEF V!Leave
<1>10. CASE V!TabsChange
  <2>1. changes' \in 0..MaxChanges BY <1>2, <1>10 DEF V!TabsChange
  <2>2. PICK p \in Platforms : V!OpenTab(p) \/ V!SetActive(p) \/ V!CloseTab(p) BY <1>10 DEF V!TabsChange
  <2>3. tabs \in Seq(Platforms) /\ DOMAIN tabs = 1..Len(tabs) BY DEF Listed
  <2>4. CASE V!OpenTab(p)
    <3>1. tabs' = Append(tabs, p) /\ front' = front /\ \A m \in 1..Len(tabs) : tabs[m] # p
      BY <2>3, <2>4 DEF V!OpenTab, V!TabOf, V!ToSet
    <3>2. Listed(Append(tabs, p), Platforms, front) BY <3>1, ListedOpens
    <3>3. Listed(tabs, Platforms, front)' BY <3>1, <3>2 DEF Listed
    <3>. QED BY <2>1, <3>3
  <2>5. CASE V!SetActive(p)
    <3>1. tabs' = tabs /\ front' = p /\ p \in {tabs[m] : m \in 1..Len(tabs)}
      BY <2>3, <2>5 DEF V!SetActive, V!TabOf, V!ToSet
    <3>. QED BY <2>1, <3>1 DEF Listed
  <2>6. CASE V!CloseTab(p)
    <3>1. PICK n \in 1..Len(tabs) : tabs[n] = p /\ tabs' = Without(tabs, n)
      BY <2>3, <2>6 DEF V!CloseTab, V!RemoveAt, Without
    <3>2. front' = IF front = tabs[n] THEN None ELSE front BY <2>6, <3>1 DEF V!CloseTab
    <3>3. Listed(Without(tabs, n), Platforms, IF front = tabs[n] THEN None ELSE front)
      BY ListedCloses
    <3>4. Listed(tabs, Platforms, front)' BY <3>1, <3>2, <3>3 DEF Listed
    <3>. QED BY <2>1, <3>4
  <2>. QED BY <2>2, <2>4, <2>5, <2>6
<1>. QED BY <1>3, <1>4, <1>5, <1>7, <1>8, <1>9, <1>10 DEF V!Next, V!Work

\* Every variable of the live view has its type: each tab is listed once, the one in front
\* among them, and a stream in the map is its tab's, which is open.
THEOREM ViewTypes == V!Spec => []V!TypeOK
<1>. USE NamesAssumption, LimitsAssumption
<1>1. V!Init => ViewTabs
  <2>. SUFFICES ASSUME V!Init PROVE ViewTabs OBVIOUS
  <2>1. (tabs = <<>> \/ \E p \in Platforms : tabs = <<p>>) /\ front = None BY DEF V!Init, V!CastInit
  <2>2. tabs \in Seq(Platforms) /\ Distinct(tabs)
    <3>1. CASE tabs = <<>> BY <3>1 DEF Distinct
    <3>2. ASSUME NEW p \in Platforms, tabs = <<p>> PROVE tabs \in Seq(Platforms) /\ Distinct(tabs)
      <4>1. tabs \in Seq(Platforms) /\ Len(tabs) = 1 BY <3>2
      <4>. QED BY <4>1 DEF Distinct
    <3>. QED BY <2>1, <3>1, <3>2
  <2>. QED BY <2>1, <2>2 DEF ViewTabs, Listed, V!Init
<1>2. ViewTabs /\ [V!Next]_V!vars => ViewTabs' BY ViewTabsStep
<1>3. V!Spec => []ViewTabs BY <1>1, <1>2, PTL DEF V!Spec
<1>4. ASSUME ViewInv, ViewTabs PROVE V!TypeOK
  <2>1. V!CastTypeOK
    <3>1. DOMAIN tabs = 1..Len(tabs) BY <1>4 DEF ViewTabs, Listed
    <3>2. V!IsInjective(tabs) /\ front \in V!ToSet(tabs) \cup {None}
      BY <1>4, <3>1 DEF ViewTabs, Listed, Distinct, V!IsInjective, V!ToSet
    <3>. QED BY <1>4, <3>2 DEF ViewInv, ViewCast, ViewTyped, V!CastTypeOK, V!TabOf
  <2>. QED BY <1>4, <2>1 DEF V!TypeOK, ViewInv, ViewTyped, ViewTabs
<1>. QED BY <1>3, <1>4, ViewInvariant, PTL

RelayTabs ==
  /\ Listed(relayTabs, RelayPlatforms, relayFront)
  /\ \A t \in RelayPlatforms : relayStreams[t] # None => R!TabOf(t)
  /\ \A c \in RelayCalls : relayCall[c].at = "opening" => R!TabOf(relayCall[c].of)
  /\ relayFailed \subseteq RelayCalls \cup RelaySinks
RelayCounts ==
  /\ watched \in [Apis -> SUBSET RelayPlatforms]
  /\ relayChanges \in 0..MaxChanges /\ outages \in 0..MaxOutages

\* The counters and what people watch.
LEMMA RelayCountsStep ==
  ASSUME MaxChanges \in Nat, MaxOutages \in Nat, RelayCounts, [R!Next]_R!vars
  PROVE  RelayCounts'
<1>. USE DEF RelayCounts
<1>1. CASE UNCHANGED R!vars BY <1>1 DEF R!vars, R!relayVars
<1>2. ASSUME NEW a \in Apis, NEW p \in RelayPlatforms, R!Watch(a, p) PROVE RelayCounts'
  <2>1. watched' = [watched EXCEPT ![a] = @ \cup {p}] /\ outages' = outages BY <1>2 DEF R!Watch
  <2>2. watched' \in [Apis -> SUBSET RelayPlatforms] BY <2>1
  <2>3. relayChanges' \in 0..MaxChanges BY <1>2 DEF R!Watch
  <2>. QED BY <2>1, <2>2, <2>3
<1>3. ASSUME NEW a \in Apis, NEW ps \in SUBSET RelayPlatforms, R!Unwatch(a, ps) PROVE RelayCounts'
  <2>1. watched' = [watched EXCEPT ![a] = @ \ ps] /\ outages' = outages BY <1>3 DEF R!Unwatch
  <2>2. watched' \in [Apis -> SUBSET RelayPlatforms] BY <2>1
  <2>3. relayChanges' \in 0..MaxChanges BY <1>3 DEF R!Unwatch
  <2>. QED BY <2>1, <2>2, <2>3
<1>4. ASSUME NEW a \in Apis, NEW p \in RelayPlatforms, R!Hear(a, p) PROVE RelayCounts'
  BY <1>4 DEF R!Hear
<1>5. ASSUME NEW c \in RelayCalls, R!Opens(c) \/ R!Attached(c) PROVE RelayCounts'
  BY <1>5 DEF R!Opens, R!Attached
<1>6. ASSUME NEW i \in RelayStreams, R!Stops(i) PROVE RelayCounts'
  BY <1>6 DEF R!Stops, R!relayVars
<1>7. ASSUME NEW p \in RelayPlatforms, R!Lapse(p) PROVE RelayCounts'
  <2>1. UNCHANGED <<watched, relayChanges>> BY <1>7 DEF R!Lapse
  <2>2. outages' = outages \/ (outages < MaxOutages /\ outages' = outages + 1) BY <1>7 DEF R!Lapse
  <2>. QED BY <2>1, <2>2
<1>8. ASSUME NEW p \in RelayPlatforms, R!Reap(p) PROVE RelayCounts' BY <1>8 DEF R!Reap
<1>9. CASE R!TabsChange
  <2>1. UNCHANGED <<watched, outages>> /\ relayChanges < MaxChanges /\ relayChanges' = relayChanges + 1
    BY <1>9 DEF R!TabsChange
  <2>. QED BY <2>1
<1>. QED BY <1>1, <1>2, <1>3, <1>4, <1>5, <1>6, <1>7, <1>8, <1>9 DEF R!Next

\* A step that leaves the tabs alone, maps streams of listed tabs only and opens sessions on
\* them only keeps the rest.
LEMMA RelayTabsStay ==
  ASSUME RelayTabs, UNCHANGED <<relayTabs, relayFront>>,
         \A t \in RelayPlatforms : relayStreams'[t] # None => R!TabOf(t),
         \A c \in RelayCalls : relayCall'[c].at = "opening" => R!TabOf(relayCall'[c].of),
         relayFailed' \subseteq RelayCalls \cup RelaySinks
  PROVE  RelayTabs'
<1>1. \A t : R!TabOf(t)' <=> R!TabOf(t) BY DEF R!TabOf, R!ToSet
<1>. QED BY <1>1 DEF RelayTabs, Listed

\* A call that comes to a stream, or is to open one, finds the tab there.
LEMMA RelayTabsAcquire ==
  ASSUME RelayNames, CastTyped, RelayTabs, NEW c \in RelayCalls, NEW p \in RelayPlatforms,
         NEW k, NEW s, R!Acquire(c, p, k, s), UNCHANGED <<relayTabs, relayFront, relayStreams>>
  PROVE  RelayTabs'
<1>1. relayFailed' \subseteq RelayCalls \cup RelaySinks BY DEF R!Acquire, RelayTabs
<1>2. \A t \in RelayPlatforms : relayStreams'[t] # None => R!TabOf(t) BY DEF RelayTabs
<1>3. ASSUME NEW d \in RelayCalls, relayCall'[d].at = "opening" PROVE R!TabOf(relayCall'[d].of)
  <2>1. CASE relayCall' = relayCall BY <1>3, <2>1 DEF RelayTabs
  <2>2. CASE relayCall' = R!Waiting(c, "starting", p, k)
    <3>1. d # c /\ relayCall'[d] = relayCall[d] BY <1>3, <2>2 DEF R!Waiting, CastTyped
    <3>. QED BY <1>3, <3>1 DEF RelayTabs
  <2>3. CASE relayCall' = R!Waiting(c, "opening", p, k) /\ R!TabOf(p)
    <3>1. relayCall'[d] = relayCall[d] \/ relayCall'[d].of = p BY <2>3 DEF R!Waiting, CastTyped
    <3>. QED BY <1>3, <2>3, <3>1 DEF RelayTabs
  <2>. QED BY <2>1, <2>2, <2>3 DEF R!Acquire
<1>. QED BY <1>1, <1>2, <1>3, RelayTabsStay

LEMMA RelayTabsStep ==
  ASSUME RelayNames, RelayInv, RelayTabs, [R!Next]_R!vars
  PROVE  RelayTabs'
<1>0. CastTyped BY DEF RelayInv, RelayTyped
<1>1. ASSUME UNCHANGED <<relayTabs, relayFront, relayStreams, relayCall, relayFailed>> PROVE RelayTabs'
  BY <1>1, RelayTabsStay DEF RelayTabs
<1>2. CASE UNCHANGED R!vars BY <1>1, <1>2 DEF R!vars, R!cast
<1>3. ASSUME NEW a \in Apis, NEW p \in RelayPlatforms, R!Watch(a, p) PROVE RelayTabs'
  BY <1>1, <1>3 DEF R!Watch, R!cast
<1>4. ASSUME NEW a \in Apis, NEW ps \in SUBSET RelayPlatforms, R!Unwatch(a, ps) PROVE RelayTabs'
  BY <1>1, <1>4 DEF R!Unwatch, R!cast
<1>5. ASSUME NEW a \in Apis, NEW p \in RelayPlatforms, R!Hear(a, p) PROVE RelayTabs'
  <2>1. UNCHANGED <<relayTabs, relayFront, relayStreams>> BY <1>5 DEF R!Hear
  <2>2. CASE R!Wanted(p) /\ wants[p].attached BY <1>1, <1>5, <2>1, <2>2 DEF R!Hear
  <2>3. CASE ~(R!Wanted(p) /\ wants[p].attached)
    <3>1. PICK k \in RelaySinks : /\ R!SpareCalls(p) # {}
                                  /\ R!Acquire(CHOOSE d \in R!SpareCalls(p) : TRUE, p, k, relayStream)
      BY <1>5, <2>3 DEF R!Hear
    <3>2. (CHOOSE d \in R!SpareCalls(p) : TRUE) \in RelayCalls BY <3>1 DEF R!SpareCalls
    <3>. QED BY <1>0, <2>1, <3>1, <3>2, RelayTabsAcquire
  <2>. QED BY <2>2, <2>3
<1>6. ASSUME NEW c \in RelayCalls, R!Open(c) PROVE RelayTabs'
  <2>1. relayCall[c].at = "opening" /\ R!TabOf(relayCall[c].of) BY <1>6 DEF R!Open, RelayTabs
  <2>2. /\ UNCHANGED <<relayTabs, relayFront, relayFailed>>
        /\ \E i : relayStreams' = [relayStreams EXCEPT ![relayCall[c].of] = i]
        /\ relayCall' = R!Waiting(c, "starting", relayCall[c].of, relayCall[c].sink)
    BY <1>6 DEF R!Open
  <2>3. \A t \in RelayPlatforms : relayStreams'[t] # None => R!TabOf(t)
    BY <1>0, <2>1, <2>2 DEF CastTyped, RelayTabs
  <2>4. \A d \in RelayCalls : relayCall'[d].at = "opening" => R!TabOf(relayCall'[d].of)
    BY <1>0, <2>2 DEF CastTyped, RelayTabs, R!Waiting
  <2>5. relayFailed' \subseteq RelayCalls \cup RelaySinks BY <2>2 DEF RelayTabs
  <2>. QED BY <2>2, <2>3, <2>4, <2>5, RelayTabsStay
<1>7. ASSUME NEW c \in RelayCalls, R!OpenFails(c) \/ R!Attached(c) PROVE RelayTabs'
  <2>1. /\ UNCHANGED <<relayTabs, relayFront, relayStreams>> /\ relayCall' = R!Over(c)
        /\ relayFailed' \subseteq relayFailed \cup {c}
    BY <1>7 DEF R!OpenFails, R!Attached
  <2>2. \A d \in RelayCalls : relayCall'[d].at = "opening" => R!TabOf(relayCall'[d].of)
    BY <1>0, <2>1 DEF CastTyped, RelayTabs, R!Over, R!NoCall
  <2>3. relayFailed' \subseteq RelayCalls \cup RelaySinks BY <2>1 DEF RelayTabs
  <2>4. \A t \in RelayPlatforms : relayStreams'[t] # None => R!TabOf(t) BY <2>1 DEF RelayTabs
  <2>. QED BY <2>1, <2>2, <2>3, <2>4, RelayTabsStay
<1>8. ASSUME NEW i \in RelayStreams, R!Stops(i) PROVE RelayTabs'
  <2>1. /\ UNCHANGED <<relayTabs, relayFront, relayCall, relayFailed>>
        /\ relayStreams' = [t \in RelayPlatforms |-> IF relayStreams[t] = i THEN None ELSE relayStreams[t]]
    BY <1>8 DEF R!Stops, R!StopTimer
  <2>2. \A t \in RelayPlatforms : relayStreams'[t] # None => R!TabOf(t) BY <2>1 DEF RelayTabs
  <2>. QED BY <2>1, <2>2, RelayTabsStay DEF RelayTabs
<1>9. ASSUME NEW p \in RelayPlatforms, R!Lapse(p) \/ R!Reap(p) PROVE RelayTabs'
  BY <1>1, <1>9 DEF R!Lapse, R!Reap, R!cast
<1>10. CASE R!TabsChange
  <2>1. PICK p \in RelayPlatforms : R!OpenTab(p) \/ R!CloseTab(p) BY <1>10 DEF R!TabsChange
  <2>2. /\ relayTabs \in Seq(RelayPlatforms) /\ DOMAIN relayTabs = 1..Len(relayTabs)
        /\ Listed(relayTabs, RelayPlatforms, relayFront)
    BY DEF Listed, RelayTabs
  <2>3. CASE R!OpenTab(p)
    <3>1. /\ relayTabs' = Append(relayTabs, p) /\ \A m \in 1..Len(relayTabs) : relayTabs[m] # p
          /\ UNCHANGED <<relayFront, relayStream, relayStreams, relayCall, relayFailed>>
      BY <2>2, <2>3 DEF R!OpenTab, R!TabOf, R!ToSet
    <3>2. /\ Listed(relayTabs', RelayPlatforms, relayFront)
          /\ \A m \in 1..Len(relayTabs) : \E k \in 1..Len(relayTabs') : relayTabs'[k] = relayTabs[m]
      BY <2>2, <3>1, ListedOpens
    <3>3. ASSUME NEW t, R!TabOf(t) PROVE R!TabOf(t)'
      <4>1. PICK m \in 1..Len(relayTabs) : relayTabs[m] = t BY <2>2, <3>3 DEF R!TabOf, R!ToSet
      <4>2. DOMAIN relayTabs' = 1..Len(relayTabs') BY <3>2 DEF Listed
      <4>. QED BY <3>2, <4>1, <4>2 DEF R!TabOf, R!ToSet
    <3>. QED BY <3>1, <3>2, <3>3 DEF RelayTabs, Listed
  <2>4. CASE R!CloseTab(p)
    <3>1. PICK n \in 1..Len(relayTabs) : relayTabs[n] = p /\ relayTabs' = Without(relayTabs, n)
      BY <2>2, <2>4 DEF R!CloseTab, R!RemoveAt, Without
    <3>2. /\ relayFront' = IF relayFront = p THEN None ELSE relayFront
          /\ relayStreams' = [relayStreams EXCEPT ![p] = None]
          /\ relayCall' = [c \in RelayCalls |->
               IF relayCall[c].at = "opening" /\ relayCall[c].of = p THEN R!NoCall ELSE relayCall[c]]
          /\ relayFailed' = relayFailed \cup {c \in RelayCalls : relayCall[c].of = p}
               \cup UNION {relayStream[i].sinks : i \in {j \in RelayStreams : relayStream[j].of = p}}
      BY <2>4 DEF R!CloseTab
    <3>3. /\ Listed(relayTabs', RelayPlatforms, relayFront')
          /\ \A t : t # p /\ t \in {relayTabs[m] : m \in 1..Len(relayTabs)} =>
               t \in {relayTabs'[k] : k \in 1..Len(relayTabs')}
      <4>1. relayFront' = IF relayFront = relayTabs[n] THEN None ELSE relayFront BY <3>1, <3>2
      <4>2. /\ Listed(Without(relayTabs, n), RelayPlatforms,
                      IF relayFront = relayTabs[n] THEN None ELSE relayFront)
            /\ \A t : t # relayTabs[n] /\ t \in {relayTabs[m] : m \in 1..Len(relayTabs)} =>
                 t \in {Without(relayTabs, n)[k] : k \in 1..Len(Without(relayTabs, n))}
        BY <2>2, ListedCloses
      <4>3. Listed(relayTabs', RelayPlatforms, relayFront') BY <3>1, <4>1, <4>2
      <4>. QED BY <3>1, <4>2, <4>3
    <3>4. ASSUME NEW t, t # p, R!TabOf(t) PROVE R!TabOf(t)'
      <4>1. DOMAIN relayTabs' = 1..Len(relayTabs') BY <3>3 DEF Listed
      <4>. QED BY <2>2, <3>3, <3>4, <4>1 DEF R!TabOf, R!ToSet
    <3>5. \A t \in RelayPlatforms : relayStreams'[t] # None => R!TabOf(t)'
      BY <1>0, <3>2, <3>4 DEF CastTyped, RelayTabs
    <3>6. ASSUME NEW c \in RelayCalls, relayCall'[c].at = "opening"
          PROVE  R!TabOf(relayCall[c].of)'
      <4>1. relayCall'[c] = relayCall[c] /\ relayCall[c].at = "opening" /\ relayCall[c].of # p
        BY <3>2, <3>6 DEF R!NoCall
      <4>2. R!TabOf(relayCall[c].of) BY <4>1 DEF RelayTabs
      <4>3. R!TabOf(relayCall[c].of)' <=> relayCall'[c].of \in R!ToSet(relayTabs') BY DEF R!TabOf
      <4>4. R!ToSet(relayTabs') = {relayTabs'[k] : k \in 1..Len(relayTabs')}
        BY <3>3 DEF R!ToSet, Listed
      <4>5. relayCall[c].of \in {relayTabs[m] : m \in 1..Len(relayTabs)}
        BY <2>2, <4>2 DEF R!TabOf, R!ToSet
      <4>6. relayCall[c].of \in {relayTabs'[k] : k \in 1..Len(relayTabs')} BY <3>3, <4>1, <4>5
      <4>. QED BY <4>1, <4>3, <4>4, <4>6
    <3>7. relayFailed' \subseteq RelayCalls \cup RelaySinks
      BY <1>0, <3>2 DEF CastTyped, RelayTabs
    <3>. QED BY <3>3, <3>5, <3>6, <3>7 DEF RelayTabs, Listed
  <2>. QED BY <2>1, <2>3, <2>4
<1>. QED BY <1>2, <1>3, <1>4, <1>5, <1>6, <1>7, <1>8, <1>9, <1>10 DEF R!Next, R!Opens

\* Every variable of the relay has its type, among them that a stream in the map is its tab's,
\* which is open: a tab that closes takes the stream along, and fails the calls that would
\* open another.
THEOREM RelayTypes == R!Spec => []R!TypeOK
<1>. USE NamesAssumption, LimitsAssumption
<1>1. R!Init => RelayTabs /\ RelayCounts
  <2>. SUFFICES ASSUME R!Init PROVE RelayTabs /\ RelayCounts OBVIOUS
  <2>1. (relayTabs = <<>> \/ \E p \in RelayPlatforms : relayTabs = <<p>>) /\ relayFront = None
    BY DEF R!Init, R!CastInit
  <2>2. relayTabs \in Seq(RelayPlatforms) /\ Distinct(relayTabs)
    <3>1. CASE relayTabs = <<>> BY <3>1 DEF Distinct
    <3>2. ASSUME NEW p \in RelayPlatforms, relayTabs = <<p>> PROVE relayTabs \in Seq(RelayPlatforms) /\ Distinct(relayTabs)
      <4>1. relayTabs \in Seq(RelayPlatforms) /\ Len(relayTabs) = 1 BY <3>2
      <4>. QED BY <4>1 DEF Distinct
    <3>. QED BY <2>1, <3>1, <3>2
  <2>3. Listed(relayTabs, RelayPlatforms, relayFront) BY <2>1, <2>2 DEF Listed
  <2>4. RelayCounts BY DEF RelayCounts, R!Init
  <2>. QED BY <2>3, <2>4 DEF RelayTabs, R!Init, R!CastInit, R!NoCall
<1>2. RelayInv /\ RelayTabs /\ [R!Next]_R!vars => RelayTabs' BY RelayTabsStep
<1>3. RelayCounts /\ [R!Next]_R!vars => RelayCounts' BY RelayCountsStep
<1>4. R!Spec => [](RelayTabs /\ RelayCounts) BY <1>1, <1>2, <1>3, RelayInvariant, PTL DEF R!Spec
<1>5. ASSUME RelayInv, RelayTabs, RelayCounts PROVE R!TypeOK
  <2>1. R!CastTypeOK
    <3>1. DOMAIN relayTabs = 1..Len(relayTabs) BY <1>5 DEF RelayTabs, Listed
    <3>2. R!IsInjective(relayTabs) /\ relayFront \in R!ToSet(relayTabs) \cup {None}
      BY <1>5, <3>1 DEF RelayTabs, Listed, Distinct, R!IsInjective, R!ToSet
    <3>. QED BY <1>5, <3>2 DEF RelayInv, RelayTyped, CastTyped, RelayTabs, Listed, R!CastTypeOK, R!TabOf
  <2>. QED BY <1>5, <2>1 DEF R!TypeOK, RelayInv, RelayTyped, WantsTyped, RelayCounts
<1>. QED BY <1>4, <1>5, RelayInvariant, PTL

----------------------------------------------------------------------------
(* The updates of a page                                                    *)
(*                                                                         *)
(* What a process has changed lies in three places, the oldest first: in   *)
(* the outbox, in the batch it inserts, in its buffer.  Each of them is in *)
(* order, each is behind the next, and all of them are behind the row.     *)
(* Entries are dropped and never moved back.                               *)

Piecework == [n : L!Changes, id : Nat]
Entries == [n : L!Changes, p : L!Procs, kept : BOOLEAN]

WritersTyped ==
  /\ row \in 0..MaxWrites
  /\ buffer \in [L!Procs -> Seq(L!Changes)]
  /\ batch \in [L!Procs -> Seq(Piecework)]
  /\ log \in Seq(Entries)

\* A batch has no ids until its insert runs; then all of it has.
DrawnAtOnce == \A p \in L!Procs :
  \A j, k \in 1..Len(batch[p]) : batch[p][j].id = 0 => batch[p][k].id = 0

\* The changes of p that are not in the outbox yet are in order ...
BufferInOrder == \A p \in L!Procs :
  \A j, k \in 1..Len(buffer[p]) : j < k => buffer[p][j] < buffer[p][k]
BatchInOrder == \A p \in L!Procs :
  /\ \A j, k \in 1..Len(batch[p]) : j < k => batch[p][j].n < batch[p][k].n
  /\ \A j \in 1..Len(batch[p]), k \in 1..Len(buffer[p]) : batch[p][j].n < buffer[p][k]

\* ... and those that are there come before them.
LogIsFirst == \A i \in 1..Len(log) :
  /\ \A j \in 1..Len(batch[log[i].p]) :
       batch[log[i].p][j].id = 0 => log[i].n < batch[log[i].p][j].n
  /\ \A k \in 1..Len(buffer[log[i].p]) : log[i].n < buffer[log[i].p][k]

\* Nothing is announced before it is written.
BehindTheRow ==
  /\ \A p \in L!Procs :
       /\ \A k \in 1..Len(buffer[p]) : buffer[p][k] <= row
       /\ \A j \in 1..Len(batch[p]) : batch[p][j].n <= row
  /\ \A i \in 1..Len(log) : log[i].n <= row

OrderInv ==
  /\ WritersTyped /\ DrawnAtOnce
  /\ BufferInOrder /\ BatchInOrder /\ LogIsFirst /\ BehindTheRow
  /\ L!LogKeepsOrder

LEMMA Elements ==
  ASSUME UpdateLimits, WritersTyped
  PROVE  /\ row \in Nat
         /\ \A p \in L!Procs : /\ buffer[p] \in Seq(L!Changes) /\ Len(buffer[p]) \in Nat
                               /\ \A k \in 1..Len(buffer[p]) : buffer[p][k] \in Nat
         /\ \A p \in L!Procs : /\ batch[p] \in Seq(Piecework) /\ Len(batch[p]) \in Nat
                               /\ \A j \in 1..Len(batch[p]) : batch[p][j].n \in Nat
         /\ Len(log) \in Nat
         /\ \A i \in 1..Len(log) : log[i].n \in Nat /\ log[i].p \in L!Procs
<1>1. L!Changes \subseteq Nat BY DEF L!Changes, UpdateLimits
<1>2. ASSUME NEW p \in L!Procs
      PROVE  /\ buffer[p] \in Seq(L!Changes) /\ Len(buffer[p]) \in Nat
             /\ \A k \in 1..Len(buffer[p]) : buffer[p][k] \in Nat
  <2>1. buffer[p] \in Seq(L!Changes) /\ Len(buffer[p]) \in Nat BY <1>2 DEF WritersTyped
  <2>2. \A k \in 1..Len(buffer[p]) : buffer[p][k] \in L!Changes BY <2>1, ElementOfSeq
  <2>. QED BY <1>1, <2>1, <2>2
<1>3. ASSUME NEW p \in L!Procs
      PROVE  /\ batch[p] \in Seq(Piecework) /\ Len(batch[p]) \in Nat
             /\ \A j \in 1..Len(batch[p]) : batch[p][j].n \in Nat
  <2>1. batch[p] \in Seq(Piecework) BY <1>3 DEF WritersTyped
  <2>2. \A j \in 1..Len(batch[p]) : batch[p][j] \in Piecework BY <2>1, ElementOfSeq
  <2>3. \A j \in 1..Len(batch[p]) : batch[p][j].n \in L!Changes BY <2>2 DEF Piecework
  <2>4. Len(batch[p]) \in Nat BY <2>1
  <2>. QED BY <1>1, <2>1, <2>3, <2>4
<1>4. Len(log) \in Nat /\ \A i \in 1..Len(log) : log[i].n \in Nat /\ log[i].p \in L!Procs
  <2>1. log \in Seq(Entries) BY DEF WritersTyped
  <2>2. \A i \in 1..Len(log) : log[i] \in Entries BY <2>1, ElementOfSeq
  <2>3. \A i \in 1..Len(log) : log[i].n \in L!Changes /\ log[i].p \in L!Procs BY <2>2 DEF Entries
  <2>4. Len(log) \in Nat BY <2>1
  <2>. QED BY <1>1, <2>3, <2>4
<1>5. row \in Nat BY DEF WritersTyped, UpdateLimits
<1>. QED BY <1>2, <1>3, <1>4, <1>5

LEMMA InitOrder == ASSUME UpdateLimits, L!Init PROVE OrderInv
<1>. USE DEF UpdateLimits, L!Init, L!Procs
<1>1. row = 1 /\ row \in 0..MaxWrites OBVIOUS
<1>2. log \in Seq(Entries) /\ Len(log) \in {0, 1} /\ (Len(log) = 1 => log[1].n = 1)
  <2>1. CASE log = <<>> BY <2>1
  <2>2. CASE log = <<[n |-> 1, p |-> "api", kept |-> TRUE]>>
    <3>1. [n |-> 1, p |-> "api", kept |-> TRUE] \in Entries BY <1>1 DEF Entries, L!Changes
    <3>. QED BY <2>2, <3>1
  <2>. QED BY <2>1, <2>2
<1>3. /\ buffer = [p \in L!Procs |-> <<>>] /\ batch = [p \in L!Procs |-> <<>>]
      /\ \A T : <<>> \in Seq(T)
  OBVIOUS
<1>4. WritersTyped BY <1>1, <1>2, <1>3 DEF WritersTyped
<1>5. /\ \A p \in L!Procs : Len(buffer[p]) = 0 /\ Len(batch[p]) = 0
      /\ \A i \in 1..Len(log) : log[i].p \in L!Procs
  BY <1>2, <1>3 DEF Entries
<1>. QED
  BY <1>1, <1>2, <1>4, <1>5
     DEF OrderInv, DrawnAtOnce, BufferInOrder, BatchInOrder, LogIsFirst, BehindTheRow, L!LogKeepsOrder

----------------------------------------------------------------------------
(* The writers' steps *)

\* What a buffer drops leaves the rest of it as it was.
LEMMA BufferedIs ==
  ASSUME UpdateLimits, WritersTyped, NEW p \in L!Procs, row < MaxWrites
  PROVE  /\ L!Buffered(p) \in Seq(L!Changes) /\ Len(L!Buffered(p)) \in Nat \ {0}
         /\ L!Buffered(p)[Len(L!Buffered(p))] = row + 1
         /\ \E d \in {0, 1} : \A k \in 1..(Len(L!Buffered(p)) - 1) :
              k + d \in 1..Len(buffer[p]) /\ L!Buffered(p)[k] = buffer[p][k + d]
<1>. DEFINE kept == IF Len(buffer[p]) < BufferMax THEN buffer[p] ELSE Tail(buffer[p])
<1>1. buffer[p] \in Seq(L!Changes) /\ row + 1 \in L!Changes BY DEF WritersTyped, UpdateLimits, L!Changes
<1>2. kept \in Seq(L!Changes) /\ \E d \in {0, 1} : \A k \in 1..Len(kept) :
        k + d \in 1..Len(buffer[p]) /\ kept[k] = buffer[p][k + d]
  <2>1. CASE Len(buffer[p]) < BufferMax BY <1>1, <2>1
  <2>2. CASE ~(Len(buffer[p]) < BufferMax)
    <3>1. buffer[p] # <<>> BY <1>1, <2>2 DEF UpdateLimits
    <3>2. /\ Tail(buffer[p]) \in Seq(L!Changes)
          /\ Len(Tail(buffer[p])) = Len(buffer[p]) - 1
          /\ \A k \in 1..Len(Tail(buffer[p])) : Tail(buffer[p])[k] = buffer[p][k + 1]
      BY <1>1, <3>1, HeadTailProperties
    <3>3. kept = Tail(buffer[p]) BY <2>2
    <3>. QED BY <1>1, <3>2, <3>3
  <2>. QED BY <2>1, <2>2
<1>. HIDE DEF kept
<1>3. L!Buffered(p) = Append(kept, row + 1) BY DEF L!Buffered, kept
<1>4. /\ Len(kept) \in Nat /\ L!Buffered(p) \in Seq(L!Changes) /\ Len(L!Buffered(p)) = Len(kept) + 1
      /\ \A k \in 1..Len(kept) : L!Buffered(p)[k] = kept[k]
      /\ L!Buffered(p)[Len(kept) + 1] = row + 1
  BY <1>1, <1>2, <1>3, AppendProperties
<1>. QED BY SMTT(30), <1>2, <1>4

LEMMA WriteOrder ==
  ASSUME UpdateLimits, OrderInv, NEW p \in L!Procs, L!Write(p)
  PROVE  OrderInv'
<1>. USE DEF OrderInv
<1>1. row' = row + 1 /\ row \in Nat /\ row < MaxWrites /\ UNCHANGED <<batch, log>>
  BY Elements DEF L!Write
<1>2. buffer' = [buffer EXCEPT ![p] = L!Buffered(p)] BY DEF L!Write
<1>3. /\ L!Buffered(p) \in Seq(L!Changes) /\ Len(L!Buffered(p)) \in Nat \ {0}
      /\ L!Buffered(p)[Len(L!Buffered(p))] = row + 1
  BY <1>1, BufferedIs
<1>4. PICK d \in {0, 1} : \A k \in 1..(Len(L!Buffered(p)) - 1) :
              k + d \in 1..Len(buffer[p]) /\ L!Buffered(p)[k] = buffer[p][k + d]
  BY <1>1, BufferedIs
<1>5. buffer'[p] = L!Buffered(p) /\ \A q \in L!Procs : q # p => buffer'[q] = buffer[q]
  BY <1>2 DEF WritersTyped
<1>6. WritersTyped' BY <1>1, <1>2, <1>3 DEF UpdateLimits, WritersTyped
<1>7. \A k \in 1..Len(L!Buffered(p)) :
        \/ k = Len(L!Buffered(p)) /\ L!Buffered(p)[k] = row + 1
        \/ k + d \in 1..Len(buffer[p]) /\ L!Buffered(p)[k] = buffer[p][k + d]
  BY <1>3, <1>4
<1>8. ASSUME NEW k \in 1..Len(L!Buffered(p))
      PROVE  L!Buffered(p)[k] \in Nat /\ L!Buffered(p)[k] <= row + 1
  <2>1. CASE L!Buffered(p)[k] = row + 1 BY <1>1, <2>1
  <2>2. CASE k + d \in 1..Len(buffer[p]) /\ L!Buffered(p)[k] = buffer[p][k + d]
    <3>1. buffer[p][k + d] \in Nat /\ buffer[p][k + d] <= row BY <2>2, Elements DEF BehindTheRow
    <3>. QED BY <1>1, <2>2, <3>1
  <2>. QED BY <1>7, <2>1, <2>2
<1>9. ASSUME NEW n \in Nat, n <= row, \A k \in 1..Len(buffer[p]) : n < buffer[p][k],
              NEW k \in 1..Len(L!Buffered(p))
       PROVE  n < L!Buffered(p)[k]
  <2>1. CASE L!Buffered(p)[k] = row + 1 BY <1>1, <1>9, <2>1
  <2>2. CASE k + d \in 1..Len(buffer[p]) /\ L!Buffered(p)[k] = buffer[p][k + d] BY <1>9, <2>2
  <2>. QED BY <1>7, <1>9, <2>1, <2>2
<1>10. BehindTheRow'
  <2>1. ASSUME NEW q \in L!Procs, NEW k \in 1..Len(buffer'[q]) PROVE buffer'[q][k] <= row'
    <3>1. CASE q # p
      <4>1. buffer[q][k] \in Nat /\ buffer[q][k] <= row BY <1>5, <3>1, Elements DEF BehindTheRow
      <4>. QED BY <1>1, <1>5, <3>1, <4>1
    <3>2. CASE q = p BY <1>1, <1>5, <1>8, <2>1, <3>2
    <3>. QED BY <3>1, <3>2
  <2>. QED BY <1>1, <2>1, Elements DEF BehindTheRow
<1>11. BufferInOrder'
  <2>. SUFFICES ASSUME NEW q \in L!Procs,
                       NEW j \in 1..Len(buffer'[q]), NEW k \in 1..Len(buffer'[q]), j < k
                PROVE  buffer'[q][j] < buffer'[q][k]
    BY DEF BufferInOrder
  <2>1. CASE q # p BY <1>5, <2>1 DEF BufferInOrder
  <2>2. CASE q = p
    <3>1. j + d \in 1..Len(buffer[p]) /\ L!Buffered(p)[j] = buffer[p][j + d] BY <1>3, <1>5, <1>7, <2>2
    <3>2. CASE L!Buffered(p)[k] = row + 1
      BY <1>1, <1>5, <2>2, <3>1, <3>2, Elements DEF BehindTheRow
    <3>3. CASE k + d \in 1..Len(buffer[p]) /\ L!Buffered(p)[k] = buffer[p][k + d]
      BY <1>5, <2>2, <3>1, <3>3 DEF BufferInOrder
    <3>. QED BY <1>5, <1>7, <2>2, <3>2, <3>3
  <2>. QED BY <2>1, <2>2
<1>12. BatchInOrder'
  <2>1. ASSUME NEW q \in L!Procs, NEW j \in 1..Len(batch[q]), NEW k \in 1..Len(buffer'[q])
        PROVE  batch[q][j].n < buffer'[q][k]
    <3>1. CASE q # p BY <1>5, <2>1, <3>1 DEF BatchInOrder
    <3>2. CASE q = p
      <4>1. /\ batch[p][j].n \in Nat /\ batch[p][j].n <= row
            /\ \A l \in 1..Len(buffer[p]) : batch[p][j].n < buffer[p][l]
        BY <3>2, Elements DEF BatchInOrder, BehindTheRow
      <4>. QED BY <1>5, <1>9, <3>2, <4>1
    <3>. QED BY <3>1, <3>2
  <2>. QED BY <1>1, <2>1 DEF BatchInOrder
<1>13. LogIsFirst'
  <2>1. ASSUME NEW i \in 1..Len(log), NEW k \in 1..Len(buffer'[log[i].p])
        PROVE  log[i].n < buffer'[log[i].p][k]
    <3>1. CASE log[i].p # p BY <1>5, <2>1, <3>1, Elements DEF LogIsFirst
    <3>2. CASE log[i].p = p
      <4>1. /\ log[i].n \in Nat /\ log[i].n <= row
            /\ \A l \in 1..Len(buffer[p]) : log[i].n < buffer[p][l]
        BY <3>2, Elements DEF LogIsFirst, BehindTheRow
      <4>. QED BY <1>5, <1>9, <3>2, <4>1
    <3>. QED BY <3>1, <3>2
  <2>. QED BY <1>1, <2>1 DEF LogIsFirst
<1>. QED BY <1>1, <1>6, <1>10, <1>11, <1>12, <1>13 DEF DrawnAtOnce, L!LogKeepsOrder

LEMMA DropFirst ==
  ASSUME NEW T, NEW s \in Seq(T), NEW n \in 0..Len(s)
  PROVE  /\ SubSeq(s, n + 1, Len(s)) \in Seq(T) /\ Len(SubSeq(s, n + 1, Len(s))) = Len(s) - n
         /\ \A k \in 1..Len(SubSeq(s, n + 1, Len(s))) :
              k + n \in 1..Len(s) /\ SubSeq(s, n + 1, Len(s))[k] = s[k + n]
<1>. DEFINE t == SubSeq(s, n + 1, Len(s))
<1>1. Len(s) \in Nat /\ n \in Nat /\ n <= Len(s) OBVIOUS
<1>2. \A i \in (n + 1)..Len(s) : s[i] \in T BY <1>1, ElementOfSeq
<1>3. /\ t \in Seq(T) /\ Len(t) = IF n + 1 <= Len(s) THEN Len(s) - (n + 1) + 1 ELSE 0
      /\ \A i \in 1..(Len(s) - (n + 1) + 1) : t[i] = s[(n + 1) + i - 1]
  BY <1>1, <1>2, SubSeqProperties
<1>. HIDE DEF t
<1>4. Len(t) = Len(s) - n BY <1>1, <1>3
<1>5. ASSUME NEW k \in 1..Len(t) PROVE k + n \in 1..Len(s) /\ t[k] = s[k + n]
  <2>1. t[k] = s[(n + 1) + k - 1] BY <1>1, <1>3, <1>4
  <2>2. (n + 1) + k - 1 = k + n BY <1>1, <1>4
  <2>. QED BY <1>1, <1>4, <2>1, <2>2
<1>6. /\ t \in Seq(T) /\ Len(t) = Len(s) - n
      /\ \A k \in 1..Len(t) : k + n \in 1..Len(s) /\ t[k] = s[k + n]
  BY <1>3, <1>4, <1>5
<1>. QED BY <1>6 DEF t

LEMMA FlushOrder ==
  ASSUME UpdateLimits, OrderInv, NEW p \in L!Procs, L!Flush(p)
  PROVE  OrderInv'
<1>. USE DEF OrderInv
<1>. DEFINE rest == SubSeq(buffer[p], L!Piece(p) + 1, Len(buffer[p]))
<1>1. /\ UNCHANGED <<row, log>>
      /\ batch' = [batch EXCEPT ![p] = L!Spliced(p)]
      /\ buffer' = [buffer EXCEPT ![p] = rest]
  BY DEF L!Flush
<1>2. buffer[p] \in Seq(L!Changes) /\ Len(buffer[p]) \in Nat BY Elements
<1>3. L!Piece(p) \in 0..Len(buffer[p]) BY <1>2 DEF L!Piece, UpdateLimits
<1>4. /\ L!Spliced(p) \in Seq(Piecework) /\ Len(L!Spliced(p)) = L!Piece(p)
      /\ \A j \in 1..Len(L!Spliced(p)) : /\ j \in 1..Len(buffer[p])
                                         /\ L!Spliced(p)[j].n = buffer[p][j] /\ L!Spliced(p)[j].id = 0
  <2>1. \A j \in 1..L!Piece(p) : j \in 1..Len(buffer[p]) /\ buffer[p][j] \in L!Changes
    BY <1>2, <1>3, ElementOfSeq
  <2>2. \A j \in 1..L!Piece(p) : [n |-> buffer[p][j], id |-> 0] \in Piecework BY <2>1 DEF Piecework
  <2>3. L!Spliced(p) \in [1..L!Piece(p) -> Piecework] BY <2>2 DEF L!Spliced
  <2>4. L!Spliced(p) \in Seq(Piecework) /\ Len(L!Spliced(p)) = L!Piece(p) BY <1>3, <2>3
  <2>. QED BY <2>1, <2>4 DEF L!Spliced
<1>5. /\ rest \in Seq(L!Changes) /\ Len(rest) = Len(buffer[p]) - L!Piece(p)
      /\ \A k \in 1..Len(rest) : /\ k + L!Piece(p) \in 1..Len(buffer[p])
                                 /\ rest[k] = buffer[p][k + L!Piece(p)]
  BY <1>2, <1>3, DropFirst
<1>. HIDE DEF rest
<1>6. /\ batch'[p] = L!Spliced(p) /\ \A q \in L!Procs : q # p => batch'[q] = batch[q]
      /\ buffer'[p] = rest /\ \A q \in L!Procs : q # p => buffer'[q] = buffer[q]
  BY <1>1 DEF WritersTyped
<1>7. WritersTyped' BY <1>1, <1>4, <1>5 DEF WritersTyped
<1>8. DrawnAtOnce' BY <1>4, <1>6 DEF DrawnAtOnce
<1>9. BufferInOrder'
  <2>1. ASSUME NEW j \in 1..Len(rest), NEW k \in 1..Len(rest), j < k PROVE rest[j] < rest[k]
    <3>1. j + L!Piece(p) < k + L!Piece(p) BY <1>3, <1>5, <2>1
    <3>. QED BY <1>5, <3>1 DEF BufferInOrder
  <2>. QED BY <1>6, <2>1 DEF BufferInOrder
<1>10. BatchInOrder'
  <2>1. ASSUME NEW j \in 1..Len(L!Spliced(p)), NEW k \in 1..Len(L!Spliced(p)), j < k
        PROVE  L!Spliced(p)[j].n < L!Spliced(p)[k].n
    BY <1>4, <2>1 DEF BufferInOrder
  <2>2. ASSUME NEW j \in 1..Len(L!Spliced(p)), NEW k \in 1..Len(rest)
        PROVE  L!Spliced(p)[j].n < rest[k]
    <3>1. j < k + L!Piece(p) BY <1>3, <1>4, <1>5
    <3>. QED BY <1>4, <1>5, <3>1 DEF BufferInOrder
  <2>. QED BY <1>6, <2>1, <2>2 DEF BatchInOrder
<1>11. LogIsFirst'
  <2>1. ASSUME NEW i \in 1..Len(log), log[i].p = p
        PROVE  /\ \A j \in 1..Len(L!Spliced(p)) : log[i].n < L!Spliced(p)[j].n
               /\ \A k \in 1..Len(rest) : log[i].n < rest[k]
    BY <1>4, <1>5, <2>1 DEF LogIsFirst
  <2>2. ASSUME NEW i \in 1..Len(log)
        PROVE  /\ \A j \in 1..Len(batch'[log[i].p]) :
                    batch'[log[i].p][j].id = 0 => log[i].n < batch'[log[i].p][j].n
               /\ \A k \in 1..Len(buffer'[log[i].p]) : log[i].n < buffer'[log[i].p][k]
    <3>1. CASE log[i].p = p BY <1>6, <2>1, <3>1
    <3>2. CASE log[i].p # p
      <4>1. log[i].p \in L!Procs BY Elements
      <4>. QED BY <1>6, <3>2, <4>1 DEF LogIsFirst
    <3>. QED BY <3>1, <3>2
  <2>3. log' = log BY <1>1
  <2>. QED BY <2>2, <2>3 DEF LogIsFirst
<1>12. BehindTheRow'
  <2>1. \A k \in 1..Len(rest) : rest[k] <= row BY <1>5 DEF BehindTheRow
  <2>2. \A j \in 1..Len(L!Spliced(p)) : L!Spliced(p)[j].n <= row BY <1>4 DEF BehindTheRow
  <2>. QED BY <1>1, <1>6, <2>1, <2>2 DEF BehindTheRow
<1>. QED BY <1>1, <1>7, <1>8, <1>9, <1>10, <1>11, <1>12 DEF L!LogKeepsOrder

\* The ids are drawn: what a process inserts comes after all it has inserted.
LEMMA InsertOrder ==
  ASSUME UpdateLimits, OrderInv, NEW p \in L!Procs, L!Insert(p)
  PROVE  OrderInv'
<1>. USE DEF OrderInv
<1>. DEFINE drawn == [j \in DOMAIN batch[p] |-> [n |-> batch[p][j].n, id |-> Len(log) + j]]
            news == [j \in DOMAIN batch[p] |-> [n |-> batch[p][j].n, p |-> p, kept |-> FALSE]]
<1>1. /\ UNCHANGED <<row, buffer>>
      /\ batch' = [batch EXCEPT ![p] = drawn]
      /\ log' = log \o news
      /\ batch[p] # <<>> /\ batch[p][1].id = 0
  BY DEF L!Insert
<1>2. /\ batch[p] \in Seq(Piecework) /\ Len(batch[p]) \in Nat /\ DOMAIN batch[p] = 1..Len(batch[p])
      /\ log \in Seq(Entries) /\ Len(log) \in Nat
  BY Elements DEF WritersTyped
<1>3. \A j \in 1..Len(batch[p]) : batch[p][j].n \in L!Changes /\ batch[p][j].id = 0
  <2>1. \A j \in 1..Len(batch[p]) : batch[p][j] \in Piecework BY <1>2, ElementOfSeq
  <2>2. 1 \in 1..Len(batch[p]) BY <1>1, <1>2
  <2>. QED BY <1>1, <2>1, <2>2 DEF DrawnAtOnce, Piecework
<1>4. /\ drawn \in Seq(Piecework) /\ Len(drawn) = Len(batch[p])
      /\ \A j \in 1..Len(batch[p]) : drawn[j].n = batch[p][j].n /\ drawn[j].id # 0
  <2>1. \A j \in 1..Len(batch[p]) : drawn[j] \in Piecework BY <1>2, <1>3 DEF Piecework
  <2>2. drawn \in [1..Len(batch[p]) -> Piecework] BY <1>2, <2>1
  <2>. QED BY <1>2, <2>2
<1>5. /\ news \in Seq(Entries) /\ Len(news) = Len(batch[p])
      /\ \A j \in 1..Len(batch[p]) : news[j].n = batch[p][j].n /\ news[j].p = p
  <2>1. \A j \in 1..Len(batch[p]) : news[j] \in Entries BY <1>2, <1>3 DEF Entries
  <2>2. news \in [1..Len(batch[p]) -> Entries] BY <1>2, <2>1
  <2>. QED BY <1>2, <2>2
<1>. HIDE DEF drawn, news
<1>6. /\ log' \in Seq(Entries) /\ Len(log') = Len(log) + Len(batch[p])
      /\ \A i \in 1..Len(log) : log'[i] = log[i]
      /\ \A i \in 1..Len(log') : i > Len(log) =>
           i - Len(log) \in 1..Len(batch[p]) /\ log'[i] = news[i - Len(log)]
  <2>1. /\ log \o news \in Seq(Entries) /\ Len(log \o news) = Len(log) + Len(news)
        /\ \A i \in 1..(Len(log) + Len(news)) :
             (log \o news)[i] = IF i <= Len(log) THEN log[i] ELSE news[i - Len(log)]
    <3>1. log \in Seq(Entries) /\ news \in Seq(Entries) BY <1>2, <1>5
    <3>. QED BY <3>1, ConcatProperties
  <2>. QED BY <1>1, <1>2, <1>5, <2>1
<1>7. batch'[p] = drawn /\ \A q \in L!Procs : q # p => batch'[q] = batch[q]
  BY <1>1 DEF WritersTyped
<1>8. \A i \in 1..Len(log') : i > Len(log) =>
        /\ i - Len(log) \in 1..Len(batch[p])
        /\ log'[i].n = batch[p][i - Len(log)].n /\ log'[i].p = p
  BY <1>5, <1>6
<1>9. WritersTyped' BY <1>1, <1>4, <1>6 DEF WritersTyped
<1>10. DrawnAtOnce' BY SMTT(30), <1>4, <1>7 DEF DrawnAtOnce
<1>11. BatchInOrder'
  <2>1. ASSUME NEW q \in L!Procs
        PROVE  /\ Len(batch'[q]) = Len(batch[q])
               /\ \A j \in 1..Len(batch[q]) : batch'[q][j].n = batch[q][j].n
    BY <1>4, <1>7
  <2>2. ASSUME NEW q \in L!Procs
        PROVE  /\ \A j, k \in 1..Len(batch'[q]) : j < k => batch'[q][j].n < batch'[q][k].n
               /\ \A j \in 1..Len(batch'[q]), k \in 1..Len(buffer[q]) : batch'[q][j].n < buffer[q][k]
    <3>1. /\ \A j, k \in 1..Len(batch[q]) : j < k => batch[q][j].n < batch[q][k].n
          /\ \A j \in 1..Len(batch[q]), k \in 1..Len(buffer[q]) : batch[q][j].n < buffer[q][k]
      BY DEF BatchInOrder
    <3>. QED BY <2>1, <3>1
  <2>. QED BY <1>1, <2>2 DEF BatchInOrder
<1>12. LogIsFirst'
  <2>1. ASSUME NEW i \in 1..Len(log), log[i].p = p
        PROVE  /\ \A j \in 1..Len(drawn) : drawn[j].id # 0
               /\ \A k \in 1..Len(buffer[p]) : log[i].n < buffer[p][k]
    BY <1>4, <2>1 DEF LogIsFirst
  <2>2. ASSUME NEW i \in 1..Len(log'), i > Len(log)
        PROVE  /\ log'[i].p = p
               /\ \A j \in 1..Len(drawn) : drawn[j].id # 0
               /\ \A k \in 1..Len(buffer[p]) : log'[i].n < buffer[p][k]
    BY <1>4, <1>8, <2>2 DEF BatchInOrder
  <2>3. ASSUME NEW i \in 1..Len(log')
        PROVE  /\ \A j \in 1..Len(batch'[log'[i].p]) :
                    batch'[log'[i].p][j].id = 0 => log'[i].n < batch'[log'[i].p][j].n
               /\ \A k \in 1..Len(buffer[log'[i].p]) : log'[i].n < buffer[log'[i].p][k]
    <3>1. CASE i > Len(log) BY <1>7, <2>2, <3>1
    <3>2. CASE ~(i > Len(log))
      <4>1. i \in 1..Len(log) /\ log'[i] = log[i] /\ log[i].p \in L!Procs
        BY SMTT(30), <1>2, <1>6, <3>2, Elements
      <4>2. CASE log[i].p = p BY <1>7, <2>1, <4>1, <4>2
      <4>3. CASE log[i].p # p BY <1>7, <4>1, <4>3 DEF LogIsFirst
      <4>. QED BY <4>2, <4>3
    <3>. QED BY <3>1, <3>2
  <2>. QED BY <1>1, <2>3 DEF LogIsFirst
<1>13. BehindTheRow'
  <2>1. ASSUME NEW i \in 1..Len(log') PROVE log'[i].n <= row
    <3>1. CASE i > Len(log) BY <1>8, <3>1 DEF BehindTheRow
    <3>2. CASE ~(i > Len(log)) BY <1>2, <1>6, <3>2 DEF BehindTheRow
    <3>. QED BY <3>1, <3>2
  <2>. QED BY <1>1, <1>4, <1>7, <2>1 DEF BehindTheRow
<1>14. L!LogKeepsOrder'
  <2>1. DOMAIN log' = 1..Len(log') /\ DOMAIN log = 1..Len(log) BY <1>2, <1>6
  <2>. SUFFICES ASSUME NEW i \in 1..Len(log'), NEW j \in 1..Len(log'), i < j, log'[i].p = log'[j].p
                PROVE  log'[i].n < log'[j].n
    BY <2>1 DEF L!LogKeepsOrder
  <2>2. CASE j <= Len(log)
    <3>1. i \in 1..Len(log) /\ j \in 1..Len(log) BY <1>2, <1>6, <2>2
    <3>. QED BY <1>6, <2>1, <3>1 DEF L!LogKeepsOrder
  <2>3. CASE j > Len(log) /\ i > Len(log)
    <3>1. i - Len(log) < j - Len(log) BY <1>2, <1>6
    <3>. QED BY <1>8, <2>3, <3>1 DEF BatchInOrder
  <2>4. CASE j > Len(log) /\ i <= Len(log)
    <3>1. i \in 1..Len(log) /\ log'[i] = log[i] /\ log[i].p = p BY SMTT(30), <1>2, <1>6, <1>8, <2>4
    <3>2. \A k \in 1..Len(batch[p]) : log[i].n < batch[p][k].n BY <1>3, <3>1 DEF LogIsFirst
    <3>. QED BY <1>8, <2>4, <3>1, <3>2
  <2>. QED BY <1>2, <1>6, <2>2, <2>3, <2>4
<1>. QED BY <1>1, <1>9, <1>10, <1>11, <1>12, <1>13, <1>14 DEF BufferInOrder

\* A step that drops whole buffers and batches, and changes of the outbox only what readers
\* see of it, keeps the order.
LEMMA DropsOrder ==
  ASSUME OrderInv, row' = row, WritersTyped',
         \A p \in L!Procs : batch'[p] = batch[p] \/ Len(batch'[p]) = 0,
         \A p \in L!Procs : buffer'[p] = buffer[p] \/ Len(buffer'[p]) = 0,
         Len(log') = Len(log),
         \A i \in 1..Len(log) : /\ log'[i].n = log[i].n /\ log'[i].p = log[i].p
                                /\ log[i].p \in L!Procs
  PROVE  OrderInv'
<1>. USE DEF OrderInv
<1>1. DrawnAtOnce' BY DEF DrawnAtOnce
<1>2. BufferInOrder' BY DEF BufferInOrder
<1>3. BatchInOrder' BY SMTT(30) DEF BatchInOrder
<1>4. LogIsFirst'
  <2>. SUFFICES ASSUME NEW i \in 1..Len(log)
                PROVE  /\ \A j \in 1..Len(batch'[log[i].p]) :
                            batch'[log[i].p][j].id = 0 => log[i].n < batch'[log[i].p][j].n
                       /\ \A k \in 1..Len(buffer'[log[i].p]) : log[i].n < buffer'[log[i].p][k]
    BY DEF LogIsFirst
  <2>. QED BY DEF LogIsFirst
<1>5. BehindTheRow' BY DEF BehindTheRow
<1>6. L!LogKeepsOrder'
  <2>1. DOMAIN log' = 1..Len(log') /\ DOMAIN log = 1..Len(log) BY DEF WritersTyped
  <2>. QED BY <2>1 DEF L!LogKeepsOrder
<1>. QED BY <1>1, <1>2, <1>3, <1>4, <1>5, <1>6

\* The entries of the outbox as they were, but for what readers see of them.
SameEntries ==
  /\ log' \in Seq(Entries) /\ Len(log') = Len(log)
  /\ \A i \in 1..Len(log) : /\ log'[i].n = log[i].n /\ log'[i].p = log[i].p
                            /\ log[i].p \in L!Procs

LEMMA KeptOnly ==
  ASSUME UpdateLimits, WritersTyped, log' = [i \in DOMAIN log |-> log'[i]],
         \A i \in DOMAIN log : \E b \in BOOLEAN : log'[i] = [log[i] EXCEPT !.kept = b]
  PROVE  SameEntries
<1>1. log \in Seq(Entries) /\ Len(log) \in Nat /\ DOMAIN log = 1..Len(log) BY DEF WritersTyped
<1>2. ASSUME NEW i \in 1..Len(log)
      PROVE  /\ log'[i] \in Entries /\ log'[i].n = log[i].n /\ log'[i].p = log[i].p
             /\ log[i].p \in L!Procs
  <2>1. log[i] \in Entries BY <1>1, ElementOfSeq
  <2>2. PICK b \in BOOLEAN : log'[i] = [log[i] EXCEPT !.kept = b] BY <1>1
  <2>. QED BY <2>1, <2>2 DEF Entries
<1>3. log' \in [1..Len(log) -> Entries] BY <1>1, <1>2
<1>4. log' \in Seq(Entries) /\ Len(log') = Len(log) BY <1>1, <1>3
<1>. QED BY <1>2, <1>4 DEF SameEntries

LEMMA LoggedOrder ==
  ASSUME UpdateLimits, OrderInv, NEW p \in L!Procs, L!Logged(p)
  PROVE  OrderInv'
<1>1. /\ UNCHANGED <<row, buffer>> /\ batch' = [batch EXCEPT ![p] = <<>>]
      /\ log' = [i \in DOMAIN log |->
                   [log[i] EXCEPT !.kept = @ \/ \E j \in DOMAIN batch[p] : batch[p][j].id = i]]
  BY DEF L!Logged
<1>2. SameEntries
  BY <1>1, KeptOnly DEF OrderInv
<1>3. \A q \in L!Procs : batch'[q] = batch[q] \/ Len(batch'[q]) = 0
  BY <1>1 DEF OrderInv, WritersTyped
<1>4. WritersTyped' BY <1>1, <1>2 DEF OrderInv, WritersTyped, SameEntries
<1>. QED BY <1>1, <1>2, <1>3, <1>4, DropsOrder DEF SameEntries

LEMMA PruneOrder ==
  ASSUME UpdateLimits, OrderInv, L!Prune
  PROVE  OrderInv'
<1>1. /\ UNCHANGED <<row, buffer, batch>>
      /\ log' = [i \in DOMAIN log |-> [log[i] EXCEPT !.kept = FALSE]]
  BY DEF L!Prune
<1>2. SameEntries
  BY <1>1, KeptOnly DEF OrderInv
<1>3. WritersTyped' BY <1>1, <1>2 DEF OrderInv, WritersTyped, SameEntries
<1>. QED BY <1>1, <1>2, <1>3, DropsOrder DEF SameEntries

LEMMA LossOrder ==
  ASSUME UpdateLimits, OrderInv, L!WorkerDies \/ \E p \in L!Procs : L!NotLogged(p)
  PROVE  OrderInv'
<1>1. /\ UNCHANGED <<row, log>>
      /\ \A q \in L!Procs : batch'[q] = batch[q] \/ batch'[q] = <<>>
      /\ \A q \in L!Procs : buffer'[q] = buffer[q] \/ buffer'[q] = <<>>
      /\ batch' \in [L!Procs -> Seq(Piecework)] /\ buffer' \in [L!Procs -> Seq(L!Changes)]
  <2>1. buffer \in [L!Procs -> Seq(L!Changes)] /\ batch \in [L!Procs -> Seq(Piecework)]
    BY DEF OrderInv, WritersTyped
  <2>2. \A T : <<>> \in Seq(T) OBVIOUS
  <2>3. CASE L!WorkerDies BY <2>1, <2>2, <2>3 DEF L!WorkerDies
  <2>4. ASSUME NEW p \in L!Procs, L!NotLogged(p)
        PROVE  /\ UNCHANGED <<row, log, buffer>> /\ batch' = [batch EXCEPT ![p] = <<>>]
    BY <2>4 DEF L!NotLogged
  <2>. QED BY <2>1, <2>2, <2>3, <2>4
<1>2. SameEntries BY <1>1, Elements DEF SameEntries, OrderInv, WritersTyped
<1>3. WritersTyped' BY <1>1, <1>2 DEF OrderInv, WritersTyped, SameEntries
<1>. QED BY <1>1, <1>2, <1>3, DropsOrder DEF SameEntries

----------------------------------------------------------------------------
(* The order of the outbox *)

LEMMA NextOrder ==
  ASSUME UpdateLimits, OrderInv, [L!Next]_L!vars
  PROVE  OrderInv'
<1>1. ASSUME UNCHANGED L!writers PROVE OrderInv'
  BY <1>1
     DEF L!writers, OrderInv, WritersTyped, DrawnAtOnce, BufferInOrder, BatchInOrder, LogIsFirst,
         BehindTheRow, L!LogKeepsOrder
<1>2. CASE UNCHANGED L!vars BY <1>1, <1>2 DEF L!vars
<1>3. ASSUME NEW p \in L!Procs, L!Flush(p) \/ L!Insert(p) \/ L!Logged(p) \/ L!Write(p) PROVE OrderInv'
  BY <1>3, FlushOrder, InsertOrder, LoggedOrder, WriteOrder
<1>4. CASE L!Prune \/ L!WorkerDies \/ \E p \in L!Procs : L!NotLogged(p)
  BY <1>4, PruneOrder, LossOrder
<1>5. CASE L!Receive \/ L!Subscribed \/ L!RedisLoses \/ L!LingerEnds \/ L!Drop \/ L!IgnoreResync
  BY <1>1, <1>5 DEF L!Receive, L!Subscribed, L!RedisLoses, L!LingerEnds, L!Drop, L!IgnoreResync
<1>6. CASE \E k \in Conns :
             L!ReadLog(k) \/ L!ReplayFails(k) \/ L!Join(k) \/ L!CloseSeen(k) \/ L!Connect(k)
  BY <1>1, <1>6 DEF L!ReadLog, L!ReplayFails, L!Join, L!CloseSeen, L!Connect
<1>7. CASE \/ \E e \in expanding : L!Broadcast(e) \/ L!ExpansionFails(e)
           \/ L!HearRow \/ L!HearHello \/ L!HearResync
           \/ \E i \in DOMAIN loads : L!Read(i) \/ L!Answer(i)
  BY <1>1, <1>7 DEF L!Broadcast, L!ExpansionFails, L!HearRow, L!HearHello, L!HearResync, L!Read, L!Answer
<1>. QED BY <1>2, <1>3, <1>4, <1>5, <1>6, <1>7 DEF L!Next, L!Work

\* The inductive invariant holds in every reachable state.
THEOREM WritersInvariant == L!Spec => []OrderInv
<1>. USE LimitsAssumption
<1>1. L!Init => OrderInv BY InitOrder
<1>2. OrderInv /\ [L!Next]_L!vars => OrderInv' BY NextOrder
<1>. QED BY <1>1, <1>2, PTL DEF L!Spec

\* The outbox lists each process's changes in the order it made them (notify,
\* flushOutboxBuffer), whatever overflows, fails or dies, and however the flushes of the
\* processes and their commits interleave.
THEOREM OutboxIsInOrder == L!Spec => []LogKeepsOrder
<1>1. OrderInv => LogKeepsOrder BY DEF OrderInv, LogKeepsOrder
<1>. QED BY <1>1, WritersInvariant, PTL

----------------------------------------------------------------------------
(* What is known of a provider's session                                   *)
(*                                                                         *)
(* A claim starts at a look that finds the provider's markers, which a     *)
(* session shows only while it lives, and goes from the look to the row,   *)
(* and with the row to whoever reads it and writes it back.                *)

Claims(r) == r.status = "logged_in" \/ r.loginAt

\* Wherever a claim is kept, there was a session.
Evidence ==
  /\ alive => everAlive
  /\ Claims(platform) \/ alarmed => everAlive
  /\ \A c \in S!Calls : /\ saw[c] = "logged_in" => everAlive
                        /\ got[c] # Unread /\ Claims(got[c]) => everAlive
  /\ \A s \in S!Syncs : Claims(before[s]) => everAlive

EvidenceInv == S!TypeOK /\ Evidence

LEMMA InitEvidence == ASSUME MaxFaults \in Nat, S!Init PROVE EvidenceInv
<1>1. <<>> \in Seq({"shot", "meta", "status"}) OBVIOUS
<1>2. S!Unwritten \in S!Rows /\ ~Claims(S!Unwritten) BY DEF S!Unwritten, S!Rows, S!Statuses, Claims
<1>3. S!TypeOK
  <2>1. platform \in S!Rows /\ before \in [S!Syncs -> S!Rows] BY <1>2 DEF S!Init
  <2>2. saw \in [S!Calls -> S!Statuses] BY DEF S!Init, S!Statuses
  <2>3. /\ todo \in [S!Calls -> Seq({"shot", "meta", "status"})]
        /\ got \in [S!Calls -> S!Rows \cup {Unread}] /\ lock \in S!Calls \cup {Nobody}
    BY <1>1 DEF S!Init
  <2>4. \A v \in {running, timer, inUse, alive, everAlive, alarmed} : v \in BOOLEAN BY DEF S!Init
  <2>5. syncFaults \in 0..MaxFaults BY DEF S!Init
  <2>6. callAt \in [S!Calls -> {"idle", "due", "waiting", "looking", "folding", "ending",
                               "telling", "over"}]
    BY DEF S!Init
  <2>. QED BY <2>1, <2>2, <2>3, <2>4, <2>5, <2>6 DEF S!TypeOK
<1>4. \A s \in S!Syncs : ~Claims(before[s]) BY <1>2 DEF S!Init
<1>5. \A c \in S!Calls : saw[c] = "unknown" /\ got[c] = Unread BY DEF S!Init
<1>6. alive = FALSE /\ ~Claims(platform) /\ alarmed = FALSE BY <1>2 DEF S!Init
<1>. QED BY <1>3, <1>4, <1>5, <1>6 DEF EvidenceInv, Evidence

USE DEF S!Others, S!World, S!Fault, S!Calm, S!callVars

\* The scheduler, the people and the provider: nothing is written.
LEMMA WorldEvidence ==
  ASSUME MaxFaults \in Nat, EvidenceInv,
         \/ S!Fire \/ S!ScreenTaken \/ S!ScreenLeft \/ S!SignIn \/ S!Expire
         \/ \E c \in S!Calls : S!Ask(c) \/ S!Call(c)
  PROVE  EvidenceInv'
<1>1. S!TypeOK'
  <2>. USE DEF EvidenceInv, S!TypeOK, S!Goes
  <2>1. CASE S!Fire BY <2>1 DEF S!Fire, S!Syncs, S!Calls
  <2>2. CASE S!ScreenTaken \/ S!ScreenLeft
    <3>1. UNCHANGED <<platform, callAt, before, saw, todo, got, lock, running, timer, alarmed,
                      alive, everAlive>>
      BY <2>2 DEF S!ScreenTaken, S!ScreenLeft
    <3>2. syncFaults' = syncFaults \/ (syncFaults < MaxFaults /\ syncFaults' = syncFaults + 1)
      BY <2>2 DEF S!ScreenTaken, S!ScreenLeft
    <3>3. inUse' \in BOOLEAN BY <2>2 DEF S!ScreenTaken, S!ScreenLeft
    <3>4. syncFaults' \in 0..MaxFaults BY <3>2
    <3>. QED BY <3>1, <3>3, <3>4
  <2>3. CASE S!SignIn \/ S!Expire BY <2>3 DEF S!SignIn, S!Expire
  <2>4. CASE \E c \in S!Calls : S!Ask(c) \/ S!Call(c) BY <2>4 DEF S!Ask, S!Call
  <2>. QED BY <2>1, <2>2, <2>3, <2>4
<1>2. UNCHANGED <<platform, before, saw, got, alarmed>>
  BY DEF S!Fire, S!ScreenTaken, S!ScreenLeft, S!SignIn, S!Expire, S!Ask, S!Call
<1>3. (everAlive => everAlive') /\ (alive' => everAlive')
  BY DEF EvidenceInv, Evidence, S!Fire, S!ScreenTaken, S!ScreenLeft, S!SignIn, S!Expire, S!Ask, S!Call
<1>. QED BY <1>1, <1>2, <1>3 DEF EvidenceInv, Evidence

\* A call that is over keeps nothing.
LEMMA OverTyped ==
  ASSUME S!TypeOK, NEW c \in S!Calls, S!Over(c)
  PROVE  /\ callAt' \in [S!Calls -> {"idle", "due", "waiting", "looking", "folding", "ending",
                                      "telling", "over"}]
         /\ before' \in [S!Syncs -> S!Rows] /\ saw' \in [S!Calls -> S!Statuses]
         /\ todo' \in [S!Calls -> Seq({"shot", "meta", "status"})]
         /\ got' \in [S!Calls -> S!Rows \cup {Unread}]
         /\ running' \in BOOLEAN /\ timer' \in BOOLEAN
BY DEF S!Over, S!Goes, S!TypeOK, S!Unwritten, S!Rows, S!Statuses

LEMMA OverEvidence ==
  ASSUME EvidenceInv, NEW c \in S!Calls, S!Over(c), UNCHANGED <<platform, alive, everAlive>>,
         alarmed' => everAlive
  PROVE  Evidence'
<1>. USE DEF EvidenceInv
<1>1. \A d \in S!Calls : saw'[d] = "logged_in" => everAlive
  BY DEF S!Over, S!TypeOK, Evidence
<1>2. \A d \in S!Calls : got'[d] = Unread \/ got'[d] = got[d]
  BY DEF S!Over, S!TypeOK
<1>3. \A d \in S!Syncs : before'[d] = S!Unwritten \/ before'[d] = before[d]
  BY DEF S!Over, S!TypeOK
<1>4. ~Claims(S!Unwritten) BY DEF Claims, S!Unwritten
<1>. QED BY <1>1, <1>2, <1>3, <1>4 DEF Evidence

\* The look is where evidence comes from.
LEMMA LookEvidence ==
  ASSUME EvidenceInv, NEW c \in S!Calls, S!Look(c)
  PROVE  EvidenceInv'
<1>. USE DEF EvidenceInv
<1>1. PICK v \in S!Verdicts, composer \in BOOLEAN :
        /\ composer => alive /\ v = "unknown" /\ c \in Chats
        /\ todo' = [todo EXCEPT ![c] = S!Writes(c, v, composer)]
        /\ saw' = [saw EXCEPT ![c] = IF composer THEN "logged_in" ELSE v]
  BY DEF S!Look
<1>2. /\ lock' = c /\ callAt' = [callAt EXCEPT ![c] = "looking"]
      /\ UNCHANGED <<platform, before, got, running, timer, alarmed, inUse, alive, everAlive,
                     syncFaults>>
  BY DEF S!Look, S!Goes
<1>3. S!Writes(c, v, composer) \in Seq({"shot", "meta", "status"})
  <2>1. S!Writes(c, v, composer) \in
          {<<>>, <<"shot">>, <<"status">>, <<"shot", "status">>, <<"status", "shot">>}
    BY DEF S!Writes
  <2>2. /\ <<>> \in Seq({"shot", "meta", "status"}) /\ <<"shot">> \in Seq({"shot", "meta", "status"})
        /\ <<"status">> \in Seq({"shot", "meta", "status"})
        /\ <<"shot", "status">> \in Seq({"shot", "meta", "status"})
        /\ <<"status", "shot">> \in Seq({"shot", "meta", "status"})
    OBVIOUS
  <2>. QED BY <2>1, <2>2
<1>4. saw'[c] \in S!Statuses /\ (saw'[c] = "logged_in" => alive)
  BY <1>1 DEF S!Verdicts, S!Statuses, S!TypeOK
<1>5. S!TypeOK' BY <1>1, <1>2, <1>3, <1>4 DEF S!TypeOK
<1>6. \A d \in S!Calls : saw'[d] = "logged_in" => everAlive BY <1>1, <1>4 DEF Evidence, S!TypeOK
<1>. QED BY <1>2, <1>5, <1>6 DEF Evidence

\* Who reads the row has a claim of it, and who writes it back one of its own at the most.
LEMMA RowEvidence ==
  ASSUME EvidenceInv, NEW c \in S!Calls, S!ReadRow(c) \/ S!WriteRow(c)
  PROVE  EvidenceInv'
<1>. USE DEF EvidenceInv
<1>1. CASE S!ReadRow(c)
  <2>1. S!TypeOK' BY <1>1 DEF S!ReadRow, S!TypeOK
  <2>. QED BY <1>1, <2>1 DEF S!ReadRow, Evidence, S!TypeOK
<1>2. CASE S!WriteRow(c)
  <2>. DEFINE patched == S!Patched(got[c], Head(todo[c]), saw[c])
  <2>1. /\ platform' = patched /\ got' = [got EXCEPT ![c] = Unread]
        /\ todo' = [todo EXCEPT ![c] = Tail(todo[c])]
        /\ UNCHANGED <<callAt, before, saw, lock, running, timer, alarmed, inUse, alive,
                       everAlive, syncFaults>>
    BY <1>2 DEF S!WriteRow
  <2>2. got[c] \in S!Rows /\ saw[c] \in S!Statuses /\ todo[c] # <<>>
    BY <1>2 DEF S!WriteRow, S!TypeOK
  <2>3. patched \in S!Rows BY <2>2 DEF S!Patched, S!Rows
  <2>4. Claims(patched) => everAlive
    BY <1>2, <2>2 DEF S!WriteRow, S!Patched, S!Rows, Claims, Evidence
  <2>. HIDE DEF patched
  <2>5. Tail(todo[c]) \in Seq({"shot", "meta", "status"})
    BY <2>2, HeadTailProperties DEF S!TypeOK
  <2>6. S!TypeOK' BY <2>1, <2>3, <2>5 DEF S!TypeOK
  <2>. QED BY <2>1, <2>4, <2>6 DEF Evidence, S!TypeOK
<1>. QED BY <1>1, <1>2

\* What a sync does after its look: nothing of it is new evidence.
LEMMA SyncEvidence ==
  ASSUME MaxFaults \in Nat, EvidenceInv, NEW c \in S!Calls,
         S!Unlock(c) \/ (c \in S!Syncs /\ (S!BeginSync(c) \/ S!Fold(c) \/ S!EndSync(c)))
  PROVE  EvidenceInv'
<1>. USE DEF EvidenceInv
<1>1. CASE S!Unlock(c)
  <2>1. CASE /\ c \in S!Syncs /\ S!Goes(c, "folding")
             /\ UNCHANGED <<before, saw, todo, got, running, timer>>
    BY <1>1, <2>1 DEF S!Unlock, S!Goes, S!TypeOK, Evidence
  <2>2. CASE S!Over(c)
    <3>1. UNCHANGED <<platform, alarmed, inUse, alive, everAlive, syncFaults>> /\ lock' = Nobody
      BY <1>1 DEF S!Unlock
    <3>2. S!TypeOK' BY <2>2, <3>1, OverTyped DEF S!TypeOK
    <3>3. Evidence' BY <2>2, <3>1, OverEvidence DEF Evidence
    <3>. QED BY <3>2, <3>3
  <2>. QED BY <1>1, <2>1, <2>2 DEF S!Unlock
<1>2. CASE c \in S!Syncs /\ S!BeginSync(c)
  BY <1>2 DEF S!BeginSync, S!Goes, S!TypeOK, Evidence
<1>3. CASE c \in S!Syncs /\ S!Fold(c)
  <2>1. <<"meta">> \in Seq({"shot", "meta", "status"}) OBVIOUS
  <2>2. S!TypeOK' BY <1>3, <2>1 DEF S!Fold, S!Goes, S!TypeOK, S!Statuses
  <2>. QED BY <1>3, <2>2 DEF S!Fold, S!TypeOK, Evidence
<1>4. CASE c \in S!Syncs /\ S!EndSync(c)
  <2>1. <<"status">> \in Seq({"shot", "meta", "status"}) OBVIOUS
  <2>2. S!TypeOK' BY <1>4, <2>1 DEF S!EndSync, S!Goes, S!TypeOK
  <2>. QED BY <1>4, <2>2 DEF S!EndSync, Evidence
<1>. QED BY <1>1, <1>2, <1>3, <1>4

\* Only a session that existed is told to be lost.
LEMMA TellEvidence ==
  ASSUME MaxFaults \in Nat, EvidenceInv, NEW s \in S!Syncs, S!Tell(s) \/ S!SyncThrows(s)
  PROVE  EvidenceInv'
<1>. USE DEF EvidenceInv
<1>1. /\ S!Over(s) /\ UNCHANGED <<platform, lock, inUse, alive, everAlive>>
      /\ alarmed' \in BOOLEAN /\ (alarmed' => everAlive)
      /\ syncFaults' \in 0..MaxFaults
  BY DEF S!Tell, S!SyncThrows, S!Lost, S!TypeOK, Evidence, Claims
<1>2. s \in S!Calls BY DEF S!Calls
<1>3. S!TypeOK' BY <1>1, <1>2, OverTyped DEF S!TypeOK
<1>4. Evidence' BY <1>1, <1>2, OverEvidence
<1>. QED BY <1>3, <1>4

LEMMA NextEvidence ==
  ASSUME MaxFaults \in Nat, EvidenceInv, [S!Next]_S!vars
  PROVE  EvidenceInv'
<1>1. CASE UNCHANGED S!vars
  BY <1>1 DEF S!vars, EvidenceInv, Evidence, S!TypeOK
<1>2. CASE \/ S!Fire \/ S!ScreenTaken \/ S!ScreenLeft \/ S!SignIn \/ S!Expire
           \/ \E c \in S!Calls : S!Ask(c) \/ S!Call(c)
  BY <1>2, WorldEvidence
<1>3. ASSUME NEW c \in S!Calls, S!Step(c) PROVE EvidenceInv'
  BY <1>3, LookEvidence, RowEvidence, SyncEvidence, TellEvidence DEF S!Step
<1>4. CASE \E s \in S!Syncs : S!SyncThrows(s) BY <1>4, TellEvidence
<1>. QED BY <1>1, <1>2, <1>3, <1>4 DEF S!Next

\* The inductive invariant holds in every reachable state.
THEOREM EvidenceInvariant == S!Spec => []EvidenceInv
<1>. USE LimitsAssumption
<1>1. S!Init => EvidenceInv BY InitEvidence
<1>2. EvidenceInv /\ [S!Next]_S!vars => EvidenceInv' BY NextEvidence
<1>. QED BY <1>1, <1>2, PTL DEF S!Spec

\* Nothing claims a session that was never seen (detectLoginState, checkSignIn,
\* setPlatformState, the event of syncProvider), however many syncs, checks and chats read
\* the row, overtake each other and write it back.
THEOREM ClaimsHaveEvidence == S!Spec => []NothingWithoutEvidence
<1>1. EvidenceInv => NothingWithoutEvidence
  BY DEF EvidenceInv, Evidence, Claims, NothingWithoutEvidence, S!NothingWithoutEvidence
<1>. QED BY <1>1, EvidenceInvariant, PTL
==============================================================================
