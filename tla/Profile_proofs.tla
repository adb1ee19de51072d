--------------------------- MODULE Profile_proofs --------------------------
(***************************************************************************)
(* Proofs about the persistent browser: the plain window of a sign-in has  *)
(* the profile to itself, and whoever asks for a sign-in's end is answered *)
(* when its window is closed.                                              *)
(*                                                                         *)
(* The argument.  The lock has one holder, the head of the chain.  While a *)
(* sign-in holds it, the context and the launch under way, if any, are     *)
(* among the slipped ones from the moment the automation is forgotten, and *)
(* a Chromium which is up is the context, slipped or being closed.  Two    *)
(* sign-ins are under way together only where one was accepted before the  *)
(* other's window was open; any other is the one that is asked about.      *)
(***************************************************************************)
EXTENDS Profile, TLAPS

USE CallsAssumption, NoneAssumption, ExitsAssumption

----------------------------------------------------------------------------
(* The invariants *)

\* A locked call has a place in the chain, and past "queued" it is its head.
HolderIsHead ==
  \A c \in Locked : pc[c] \notin {"idle", "done"} =>
    /\ \E n \in 1..Len(queue) : queue[n] = c
    /\ pc[c] # "queued" => c = Head(queue)

\* A Chromium that comes up is the one being launched; one that is up is the context or
\* slipped; one being closed is a sign-in's.
ChromesAreKnown ==
  \A i \in Instances :
    /\ chrome[i] = "starting" => launching = i /\ context = None
    /\ chrome[i] = "open" => i = context \/ i \in slipped
    /\ chrome[i] = "closing" => \E s \in SignIns : pc[s] = "closing" /\ ctx[s] = i

\* What a sign-in that holds the lock has put out of the way stays so.
OutOfTheWay ==
  \A s \in SignIns :
    /\ pc[s] \in {"backup", "closing", "spawn", "open", "stop"} => launching \in slipped \cup {None}
    /\ pc[s] = "backup" => context \in slipped \cup {None, ctx[s]}
    /\ pc[s] \in {"closing", "spawn", "open", "stop"} => context \in slipped \cup {None}

\* The sign-in in progress is the one with the window.
WindowIsHolders ==
  /\ \A s \in SignIns : pc[s] \in {"open", "stop"} <=> desktop = s
  /\ \A s \in window : desktop = s

ProfileInv == TypeOK /\ HolderIsHead /\ ChromesAreKnown /\ OutOfTheWay /\ WindowIsHolders

\* Sign-ins accepted and not over.
Active == {s \in SignIns : pc[s] \notin {"idle", "done"}}

\* Of two active sign-ins each is overtaken; another one is the one to ask about.
ActiveIsAsked ==
  /\ \A s \in SignIns : pc[s] \notin {"launch", "work", "wait"}
  /\ \A s \in Active : s \notin overtaken =>
       doneOf = s /\ jobOf = s /\ \A t \in Active : t = s

\* Who asked when a sign-in that is not overtaken was in progress waits for its job.
AskersWait ==
  \A a \in Askers :
    /\ pc[a] \in {"idle", "wait", "done"}
    /\ pc[a] = "idle" => about[a] = None
    /\ about[a] # None =>
         /\ pc[about[a]] \in {"open", "stop", "done"}
         /\ about[a] \notin overtaken =>
              /\ pc[a] = "wait" => asked[a] = about[a]
              /\ pc[a] = "done" => pc[about[a]] = "done"

AskInv == ProfileInv /\ ActiveIsAsked /\ AskersWait

USE DEF automation, signIn, calls, Locked, Calls, Places

----------------------------------------------------------------------------
(* The chain *)

\* Who joins the chain is in it, and moves nobody.
LEMMA JoinsChain ==
  ASSUME TypeOK, HolderIsHead, NEW c \in Locked, pc[c] = "idle",
         Goes(c, "queued"), queue' = Append(queue, c)
  PROVE  HolderIsHead' /\ queue' \in Seq(Locked)
<1>. USE DEF TypeOK, Goes
<1>1. queue' \in Seq(Locked) /\ Len(queue') = Len(queue) + 1 /\ queue'[Len(queue) + 1] = c
  OBVIOUS
<1>2. ASSUME NEW d \in Locked, pc'[d] \notin {"idle", "done"}
      PROVE  /\ \E n \in 1..Len(queue') : queue'[n] = d
             /\ pc'[d] # "queued" => d = Head(queue')
  <2>1. CASE d = c BY <1>1, <2>1
  <2>2. CASE d # c
    <3>1. PICK n \in 1..Len(queue) : queue[n] = d BY <1>2, <2>2 DEF HolderIsHead
    <3>2. queue'[n] = d /\ n \in 1..Len(queue') /\ Head(queue') = Head(queue) BY <3>1
    <3>. QED BY <1>2, <2>2, <3>2 DEF HolderIsHead
  <2>. QED BY <2>1, <2>2
<1>. QED BY <1>1, <1>2 DEF HolderIsHead

\* Who leaves as its head leaves the others in it, none of them past "queued".
LEMMA LeavesChain ==
  ASSUME TypeOK, HolderIsHead, NEW c \in Locked, pc[c] \notin {"idle", "done"},
         c = Head(queue), Leaves(c)
  PROVE  HolderIsHead' /\ queue' \in Seq(Locked)
<1>. USE DEF TypeOK, Leaves, Given, Goes
<1>1. queue # <<>> /\ queue[1] = c BY DEF HolderIsHead
<1>2. queue' \in Seq(Locked) /\ Len(queue') = Len(queue) - 1
  BY <1>1
<1>3. \A n \in 1..Len(queue') : queue'[n] = queue[n + 1] BY <1>1
<1>4. ASSUME NEW d \in Locked, pc'[d] \notin {"idle", "done"}
      PROVE  /\ \E n \in 1..Len(queue') : queue'[n] = d
             /\ pc'[d] # "queued" => d = Head(queue')
  <2>1. d # c /\ pc'[d] = pc[d] BY <1>4
  <2>2. pc[d] = "queued" BY <1>4, <2>1 DEF HolderIsHead
  <2>3. PICK n \in 1..Len(queue) : queue[n] = d BY <2>2 DEF HolderIsHead
  <2>4. n - 1 \in 1..Len(queue') /\ queue'[n - 1] = d BY <1>1, <1>2, <1>3, <2>1, <2>3
  <2>. QED BY <2>1, <2>2, <2>4
<1>. QED BY <1>2, <1>4 DEF HolderIsHead

\* Whose turn it is, and who is past it, holds the lock alone.
LEMMA OneHolder ==
  ASSUME TypeOK, HolderIsHead, NEW c \in Locked, NEW d \in Locked,
         Turn(c) \/ pc[c] \notin {"idle", "queued", "done"},
         pc[d] \notin {"idle", "queued", "done"}
  PROVE  c = d
BY DEF HolderIsHead, Turn

\* The holder goes on.
LEMMA HolderGoesOn ==
  ASSUME TypeOK, HolderIsHead, NEW c \in Locked, NEW place \in Places \ {"idle"},
         Turn(c) \/ pc[c] \notin {"idle", "queued", "done"},
         Goes(c, place), UNCHANGED queue
  PROVE  HolderIsHead'
BY DEF HolderIsHead, Turn, Goes, TypeOK

----------------------------------------------------------------------------
(* The invariant of the window *)

\* Nothing runs yet.
LEMMA InitInv == Init => ProfileInv
BY DEF Init, ProfileInv, TypeOK, HolderIsHead, ChromesAreKnown, OutOfTheWay, WindowIsHolders

\* A call is given the context, or a launch: while a sign-in clears the way, a slipped one.
LEMMA ContextInv ==
  ASSUME ProfileInv, NEW c \in Jobs \cup Errands, GetContext(c),
         c \in Jobs => Turn(c), UNCHANGED <<queue, signIn, asked, about, exits>>
  PROVE  ProfileInv'
<1>. USE DEF ProfileInv, Given, Goes
<1>1. PICK i \in Instances, place \in {"work", "launch"} : Given(c, i, place)
  BY DEF GetContext, TypeOK
<1>2. HolderIsHead'
  <2>1. CASE c \in Jobs BY <1>1, <2>1, HolderGoesOn
  <2>2. CASE c \in Errands BY <1>1, <2>2 DEF HolderIsHead, TypeOK
  <2>. QED BY <2>1, <2>2
<1>3. \A s \in SignIns : pc'[s] = pc[s] /\ ctx'[s] = ctx[s] BY <1>1 DEF TypeOK
<1>4. CASE UNCHANGED automation
  <2>1. TypeOK' BY <1>1, <1>4 DEF TypeOK
  <2>2. ChromesAreKnown' BY <1>3, <1>4 DEF ChromesAreKnown
  <2>3. OutOfTheWay' BY <1>3, <1>4 DEF OutOfTheWay
  <2>4. WindowIsHolders' BY <1>3 DEF WindowIsHolders
  <2>. QED BY <1>2, <2>1, <2>2, <2>3, <2>4
<1>5. ASSUME context = None, desktop = None, launching = None, UNCHANGED context,
             NEW k \in Instances, chrome[k] = "none",
             chrome' = [chrome EXCEPT ![k] = "starting"], launching' = k,
             slipped' = IF Clearing THEN slipped \cup {k} ELSE slipped \ {k}
      PROVE  ProfileInv'
  <2>. USE <1>5
  <2>1. TypeOK' BY <1>1 DEF TypeOK
  <2>2. \A s \in SignIns : pc[s] \in {"backup", "closing", "spawn", "open", "stop"} => Clearing
    BY DEF WindowIsHolders, Clearing
  <2>3. ChromesAreKnown' BY <1>3 DEF ChromesAreKnown, TypeOK
  <2>4. OutOfTheWay' BY <1>3, <2>2 DEF OutOfTheWay, TypeOK
  <2>5. WindowIsHolders' BY <1>3 DEF WindowIsHolders
  <2>. QED BY <1>2, <2>1, <2>3, <2>4, <2>5
<1>. QED BY <1>4, <1>5 DEF GetContext, Available

\* A launch comes up, returns or fails, and Chromium exits.
LEMMA LaunchInv ==
  ASSUME ProfileInv, NEW i \in Instances,
         Launched(i) \/ LaunchReturns(i) \/ LaunchFails(i) \/ Exits(i)
  PROVE  ProfileInv'
<1>. USE DEF ProfileInv
<1>1. ASSUME Launched(i) PROVE ProfileInv'
  <2>. USE <1>1 DEF Launched
  <2>1. TypeOK' BY DEF TypeOK
  <2>2. HolderIsHead' BY DEF HolderIsHead
  <2>3. launching = i /\ context = None BY DEF ChromesAreKnown
  <2>4. ChromesAreKnown' BY <2>3 DEF ChromesAreKnown, TypeOK
  <2>5. OutOfTheWay' BY <2>3 DEF OutOfTheWay
  <2>6. WindowIsHolders' BY DEF WindowIsHolders
  <2>. QED BY <2>1, <2>2, <2>4, <2>5, <2>6
<1>2. ASSUME LaunchReturns(i) \/ LaunchFails(i) PROVE ProfileInv'
  <2>. USE <1>2 DEF LaunchReturns, LaunchFails
  <2>1. TypeOK' BY DEF TypeOK
  <2>2. \A c \in Calls : pc[c] # "launch" => pc'[c] = pc[c] /\ ctx'[c] = ctx[c]
    BY DEF TypeOK
  <2>3. \A c \in Calls : pc[c] = "launch" => pc'[c] = "work" BY DEF TypeOK
  <2>4. HolderIsHead' BY <2>2, <2>3 DEF HolderIsHead
  <2>5. ChromesAreKnown' BY <2>2 DEF ChromesAreKnown, TypeOK
  <2>6. OutOfTheWay' BY <2>2, <2>3 DEF OutOfTheWay
  <2>7. WindowIsHolders' BY <2>2, <2>3 DEF WindowIsHolders
  <2>. QED BY <2>1, <2>4, <2>5, <2>6, <2>7
<1>3. ASSUME Exits(i) PROVE ProfileInv'
  <2>. USE <1>3 DEF Exits
  <2>1. TypeOK' BY DEF TypeOK
  <2>2. HolderIsHead' BY DEF HolderIsHead
  <2>3. ChromesAreKnown' BY DEF ChromesAreKnown, TypeOK
  <2>4. OutOfTheWay' BY DEF OutOfTheWay
  <2>5. WindowIsHolders' BY DEF WindowIsHolders
  <2>. QED BY <2>1, <2>2, <2>3, <2>4, <2>5
<1>. QED BY <1>1, <1>2, <1>3

\* A job that leaves, an errand, an asker, and a sign-in that comes touch neither the
\* automation nor the window.
LEMMA OthersInv ==
  ASSUME ProfileInv, NEW c \in Calls,
         \/ Enqueue(c) \/ FinishJob(c) \/ FinishErrand(c) \/ JoinOrRefuse(c) \/ StartSignIn(c)
         \/ Ask(c) \/ Answer(c)
         \/ c \in Jobs /\ RunJob(c) /\ Leaves(c) /\ UNCHANGED automation
         \/ c \in Errands /\ pc[c] = "idle" /\ Given(c, None, "done")
              /\ UNCHANGED <<automation, signIn, queue, asked, about, exits>>
  PROVE  ProfileInv'
<1>. USE DEF ProfileInv
<1>1. UNCHANGED <<chrome, context, launching, slipped, desktop, window, exits>>
  BY DEF Enqueue, FinishJob, FinishErrand, JoinOrRefuse, StartSignIn, Ask, Answer, RunJob
<1>2. \A d \in Calls \ {c} : pc'[d] = pc[d] /\ ctx'[d] = ctx[d]
  BY DEF TypeOK, Enqueue, FinishJob, FinishErrand, JoinOrRefuse, StartSignIn, Ask, Answer,
         Given, Goes, Leaves
<1>3. c \in SignIns => pc[c] = "idle" /\ pc'[c] \in {"queued", "done"}
  BY DEF TypeOK, Enqueue, FinishJob, FinishErrand, JoinOrRefuse, StartSignIn, Ask, Answer,
         Goes, RunJob
<1>4. HolderIsHead' /\ queue' \in Seq(Locked)
  <2>1. CASE c \in Locked /\ Goes(c, "queued") /\ queue' = Append(queue, c) /\ pc[c] = "idle"
    BY <2>1, JoinsChain
  <2>2. CASE c \in Jobs /\ Leaves(c) /\ (pc[c] = "work" \/ Turn(c))
    <3>1. c = Head(queue) BY <2>2 DEF HolderIsHead, Turn
    <3>. QED BY <2>2, <3>1, LeavesChain DEF Turn
  <2>3. CASE UNCHANGED queue /\ (c \in Locked => pc'[c] = "done")
    BY <1>2, <2>3 DEF HolderIsHead, TypeOK
  <2>. QED
    BY <2>1, <2>2, <2>3 DEF TypeOK, Enqueue, FinishJob, FinishErrand, JoinOrRefuse, StartSignIn,
       Ask, Answer, Given, Goes, RunJob
<1>5. TypeOK'
  <2>1. pc' \in [Calls -> Places] /\ ctx' \in [Calls -> Instances \cup {None}]
    BY DEF TypeOK, Enqueue, FinishJob, FinishErrand, JoinOrRefuse, StartSignIn, Ask, Answer,
           Given, Goes, Leaves
  <2>2. /\ doneOf' \in SignIns \cup {None} /\ jobOf' \in SignIns \cup {None}
        /\ resolved' \subseteq SignIns /\ overtaken' \subseteq SignIns
    BY DEF TypeOK, Enqueue, FinishJob, FinishErrand, JoinOrRefuse, StartSignIn, Ask, Answer,
           RunJob, Accepted
  <2>3. asked' \in [Askers -> SignIns \cup {None}] /\ about' \in [Askers -> SignIns \cup {None}]
    BY DEF TypeOK, Enqueue, FinishJob, FinishErrand, JoinOrRefuse, StartSignIn, Ask, Answer,
           RunJob
  <2>. QED BY <1>1, <1>4, <2>1, <2>2, <2>3 DEF TypeOK
<1>6. ChromesAreKnown' BY <1>1, <1>2, <1>3 DEF ChromesAreKnown
<1>7. OutOfTheWay' BY <1>1, <1>2, <1>3 DEF OutOfTheWay
<1>8. WindowIsHolders' BY <1>1, <1>2, <1>3 DEF WindowIsHolders
<1>. QED BY <1>4, <1>5, <1>6, <1>7, <1>8

\* The sign-in that holds the lock: it clears the way, opens its window and closes it.
LEMMA SignInInv ==
  ASSUME ProfileInv, NEW s \in SignIns,
         \/ BeginSignIn(s) \/ CloseContext(s) \/ Closed(s) \/ Spawn(s) \/ Ends(s) \/ EndSignIn(s)
         \/ WindowClosed(s) \/ SpawnThrows(s)
  PROVE  ProfileInv'
<1>. USE DEF ProfileInv
<1>1. \A t \in SignIns \ {s} : pc[t] \in {"idle", "queued", "launch", "work", "wait", "done"}
  <2>1. Turn(s) \/ pc[s] \notin {"idle", "queued", "done"}
    BY DEF BeginSignIn, CloseContext, Closed, Spawn, Ends, EndSignIn, SpawnThrows, WindowClosed
  <2>. QED BY <2>1, OneHolder DEF TypeOK
<1>2. \A t \in SignIns \ {s} : pc'[t] = pc[t] /\ ctx'[t] = ctx[t]
  BY DEF TypeOK, BeginSignIn, CloseContext, Closed, Spawn, Ends, EndSignIn, SpawnThrows, WindowClosed,
         Given, Goes, Leaves
<1>3. HolderIsHead' /\ queue' \in Seq(Locked)
  <2>1. CASE EndSignIn(s) \/ SpawnThrows(s)
    <3>1. s = Head(queue) BY <2>1 DEF HolderIsHead, EndSignIn, SpawnThrows
    <3>. QED BY <2>1, <3>1, LeavesChain DEF EndSignIn, SpawnThrows
  <2>2. CASE UNCHANGED <<pc, queue>> BY <2>2 DEF HolderIsHead, TypeOK
  <2>3. ASSUME NEW place \in {"backup", "closing", "spawn", "open", "stop"}, Goes(s, place),
               UNCHANGED queue, Turn(s) \/ pc[s] \notin {"idle", "queued", "done"}
        PROVE  HolderIsHead' /\ queue' \in Seq(Locked)
    BY <2>3, HolderGoesOn DEF TypeOK
  <2>. QED
    BY <2>1, <2>2, <2>3 DEF BeginSignIn, CloseContext, Closed, Spawn, Ends, WindowClosed, Given
<1>4. CASE BeginSignIn(s)
  <2>. USE <1>4 DEF BeginSignIn, Given, Goes
  <2>1. TypeOK' BY <1>3 DEF TypeOK
  <2>2. pc'[s] \in {"spawn", "backup"} /\ ctx'[s] = context BY DEF TypeOK
  <2>3. pc'[s] = "spawn" => context = None BY DEF TypeOK
  <2>4. ChromesAreKnown'
    <3>1. slipped \subseteq slipped' /\ UNCHANGED <<chrome, context, launching>> OBVIOUS
    <3>2. \A i \in Instances : chrome[i] = "closing" =>
            \E t \in SignIns \ {s} : pc[t] = "closing" /\ ctx[t] = i
      BY DEF ChromesAreKnown, Turn
    <3>. QED BY <1>2, <3>1, <3>2 DEF ChromesAreKnown
  <2>5. OutOfTheWay' BY <1>1, <1>2, <2>2, <2>3 DEF OutOfTheWay, TypeOK
  <2>6. WindowIsHolders' BY <1>1, <1>2, <2>2 DEF WindowIsHolders, Turn
  <2>. QED BY <1>3, <2>1, <2>4, <2>5, <2>6
<1>5. CASE CloseContext(s)
  <2>. USE <1>5 DEF CloseContext, Goes
  <2>1. TypeOK' BY <1>3 DEF TypeOK
  <2>2. pc'[s] = "closing" /\ ctx'[s] = ctx[s] BY DEF TypeOK
  <2>3. ChromesAreKnown' BY <1>1, <1>2, <2>2 DEF ChromesAreKnown, OutOfTheWay
  <2>4. OutOfTheWay' BY <1>1, <1>2, <2>2 DEF OutOfTheWay
  <2>5. WindowIsHolders' BY <1>1, <1>2, <2>2 DEF WindowIsHolders
  <2>. QED BY <1>3, <2>1, <2>3, <2>4, <2>5
<1>6. CASE Closed(s)
  <2>. USE <1>6 DEF Closed, Given, Goes
  <2>1. TypeOK' BY <1>3 DEF TypeOK
  <2>2. pc'[s] = "spawn" BY DEF TypeOK
  <2>3. context' \in {context, None} /\ (context' = context \/ context \in slipped \cup {None})
    BY DEF OutOfTheWay
  <2>4. ChromesAreKnown' BY <1>1, <1>2, <2>2 DEF ChromesAreKnown, OutOfTheWay, TypeOK
  <2>5. OutOfTheWay' BY <1>1, <1>2, <2>2, <2>3 DEF OutOfTheWay
  <2>6. WindowIsHolders' BY <1>1, <1>2, <2>2 DEF WindowIsHolders
  <2>. QED BY <1>3, <2>1, <2>4, <2>5, <2>6
<1>7. CASE Spawn(s) \/ Ends(s) \/ EndSignIn(s) \/ SpawnThrows(s) \/ WindowClosed(s)
  <2>. USE <1>7 DEF Spawn, Ends, EndSignIn, SpawnThrows, WindowClosed, Leaves, Given, Goes
  <2>1. TypeOK' BY <1>3 DEF TypeOK
  <2>2. pc[s] \in {"spawn", "open", "stop"} /\ pc'[s] \in {"open", "stop", "done"}
    BY DEF TypeOK
  <2>3. ChromesAreKnown' BY <1>1, <1>2, <2>2 DEF ChromesAreKnown
  <2>4. OutOfTheWay' BY <1>1, <1>2, <2>2 DEF OutOfTheWay
  <2>5. WindowIsHolders'
    <3>1. desktop' = s \/ (desktop' = None /\ (EndSignIn(s) \/ SpawnThrows(s))) BY DEF WindowIsHolders
    <3>2. \A t \in SignIns \ {s} : pc'[t] \notin {"open", "stop"} BY <1>1, <1>2
    <3>3. pc'[s] \in {"open", "stop"} <=> ~(EndSignIn(s) \/ SpawnThrows(s)) BY DEF TypeOK
    <3>4. window \subseteq {s} BY <1>1, <2>2 DEF WindowIsHolders, TypeOK
    <3>. QED BY <3>1, <3>2, <3>3, <3>4 DEF WindowIsHolders
  <2>. QED BY <1>3, <2>1, <2>3, <2>4, <2>5
<1>. QED BY <1>4, <1>5, <1>6, <1>7

\* Every step keeps it.
LEMMA InvariantStep == ProfileInv /\ [Next]_vars => ProfileInv'
<1>. SUFFICES ASSUME ProfileInv, [Next]_vars PROVE ProfileInv' OBVIOUS
<1>1. ASSUME NEW i \in Instances, Launching(i) \/ LaunchFails(i) \/ Exits(i)
      PROVE  ProfileInv'
  BY <1>1, LaunchInv DEF Launching
<1>2. ASSUME NEW c \in Calls, RunJob(c) PROVE ProfileInv'
  <2>1. CASE GetContext(c) /\ UNCHANGED queue BY <1>2, <2>1, ContextInv DEF RunJob
  <2>2. CASE Leaves(c) /\ UNCHANGED automation BY <1>2, <2>2, OthersInv DEF RunJob
  <2>. QED BY <1>2, <2>1, <2>2 DEF RunJob
<1>3. ASSUME NEW c \in Calls, Errand(c) PROVE ProfileInv'
  BY <1>3, ContextInv, OthersInv DEF Errand
<1>4. ASSUME NEW c \in Calls, Working(c), ~RunJob(c) PROVE ProfileInv'
  BY <1>4, SignInInv, OthersInv DEF Working, BeginSignIn, CloseContext, Closed, Spawn, Ends,
     EndSignIn
<1>5. ASSUME NEW c \in Calls, Enqueue(c) \/ JoinOrRefuse(c) \/ StartSignIn(c) \/ Ask(c)
      PROVE  ProfileInv'
  BY <1>5, OthersInv
<1>6. ASSUME NEW s \in SignIns, WindowClosed(s) \/ SpawnThrows(s) PROVE ProfileInv'
  BY <1>6, SignInInv
<1>7. CASE UNCHANGED vars
  BY <1>7 DEF vars, ProfileInv, TypeOK, HolderIsHead, ChromesAreKnown, OutOfTheWay,
              WindowIsHolders
<1>. QED BY <1>1, <1>2, <1>3, <1>4, <1>5, <1>6, <1>7 DEF Next, Work

\* The profile keeps its types and the window its way clear, for any jobs, sign-ins, errands,
\* askers and Chromium processes that exit.
THEOREM Invariant == Spec => []ProfileInv
BY InitInv, InvariantStep, PTL DEF Spec

\* While the plain window of a sign-in is open, the automation's Chromium (manager.ts:360) runs
\* beside it only if its launch slipped past the lock.
THEOREM WindowIsAlone == Spec => []WindowAlone
<1>1. ProfileInv => WindowAlone
  <2>. SUFFICES ASSUME ProfileInv, NEW i \in Instances, NEW s \in window, chrome[i] # "none"
                PROVE  i \in slipped
    BY DEF WindowAlone
  <2>. USE DEF ProfileInv
  <2>1. s \in SignIns /\ pc[s] \in {"open", "stop"} BY DEF TypeOK, WindowIsHolders
  <2>2. \A t \in SignIns : pc[t] # "closing"
    BY <2>1, OneHolder DEF TypeOK
  <2>3. context \in slipped \cup {None} /\ launching \in slipped \cup {None}
    BY <2>1 DEF OutOfTheWay
  <2>. QED BY <2>2, <2>3 DEF ChromesAreKnown, TypeOK
<1>. QED BY <1>1, Invariant, PTL

----------------------------------------------------------------------------
(* The invariant of those who ask for a sign-in's end *)

\* Nobody has asked yet.
LEMMA AskInit == Init => AskInv
BY InitInv DEF AskInv, Init, ActiveIsAsked, AskersWait, Active

\* Steps which move no sign-in and no asker keep what is asked.
LEMMA AsideKeepsAsk ==
  ASSUME AskInv, UNCHANGED <<doneOf, jobOf, overtaken, asked, about>>,
         \A c \in SignIns \cup Askers : pc'[c] = pc[c]
  PROVE  ActiveIsAsked' /\ AskersWait'
<1>. USE DEF AskInv, ProfileInv
<1>1. Active' = Active BY DEF Active
<1>2. ActiveIsAsked' BY <1>1 DEF ActiveIsAsked
<1>3. \A a \in Askers : about[a] # None => about[a] \in SignIns BY DEF TypeOK
<1>4. AskersWait' BY <1>3 DEF AskersWait
<1>. QED BY <1>2, <1>4

\* A sign-in that goes on keeps what is asked.
LEMMA GoingOnKeepsAsk ==
  ASSUME AskInv, NEW s \in SignIns, NEW place \in {"backup", "closing", "spawn", "open", "stop"},
         UNCHANGED <<doneOf, jobOf, overtaken, asked, about>>,
         pc[s] \notin {"idle", "done"}, pc[s] \in {"open", "stop"} => place \in {"open", "stop"},
         Goes(s, place)
  PROVE  ActiveIsAsked' /\ AskersWait'
<1>. USE DEF AskInv, ProfileInv, Goes
<1>1. \A c \in Calls \ {s} : pc'[c] = pc[c] BY DEF TypeOK
<1>2. pc'[s] = place BY DEF TypeOK
<1>3. Active' = Active BY <1>1, <1>2 DEF Active
<1>4. ActiveIsAsked' BY <1>3 DEF ActiveIsAsked
<1>5. \A a \in Askers : about[a] # None => about[a] \in SignIns BY DEF TypeOK
<1>6. AskersWait' BY <1>1, <1>2, <1>5 DEF AskersWait
<1>. QED BY <1>4, <1>6

\* A sign-in is accepted while none is in progress: with another it is overtaken.
LEMMA StartKeepsAsk ==
  ASSUME AskInv, NEW s \in SignIns, StartSignIn(s) PROVE ActiveIsAsked' /\ AskersWait'
<1>. USE DEF AskInv, ProfileInv, StartSignIn, Goes
<1>1. \A c \in Calls \ {s} : pc'[c] = pc[c] BY DEF TypeOK
<1>2. pc[s] = "idle" /\ pc'[s] = "queued" BY DEF TypeOK
<1>3. Active' = Active \cup {s} BY <1>1, <1>2 DEF Active
<1>4. \A t \in SignIns : pc[t] \notin {"open", "stop"} BY DEF WindowIsHolders, TypeOK
<1>5. ActiveIsAsked'
  <2>1. Accepted = Active BY <1>4 DEF Accepted, Active, ActiveIsAsked, TypeOK
  <2>2. CASE Active = {} BY <1>1, <1>2, <1>3, <2>2 DEF ActiveIsAsked
  <2>3. CASE Active # {}
    <3>1. Active' \subseteq overtaken' BY <1>3, <2>1, <2>3
    <3>. QED BY <1>1, <1>2, <3>1 DEF ActiveIsAsked
  <2>. QED BY <2>2, <2>3
<1>6. \A a \in Askers : about[a] # None => about[a] \in SignIns \ {s}
  BY <1>2 DEF TypeOK, AskersWait
<1>7. overtaken \subseteq overtaken' OBVIOUS
<1>8. AskersWait' BY <1>1, <1>6, <1>7 DEF AskersWait
<1>. QED BY <1>5, <1>8

\* A sign-in that is refused or joins another, or is over, is nobody's to ask for.
LEMMA OverKeepsAsk ==
  ASSUME AskInv, NEW s \in SignIns, JoinOrRefuse(s) \/ EndSignIn(s) \/ SpawnThrows(s)
  PROVE  ActiveIsAsked' /\ AskersWait'
<1>. USE DEF AskInv, ProfileInv, JoinOrRefuse, EndSignIn, SpawnThrows, Leaves, Given, Goes
<1>1. \A c \in Calls \ {s} : pc'[c] = pc[c] BY DEF TypeOK
<1>2. pc[s] \in {"idle", "spawn", "stop"} /\ pc'[s] = "done" BY DEF TypeOK
<1>3. Active' = Active \ {s} BY <1>1, <1>2 DEF Active
<1>4. EndSignIn(s) \/ SpawnThrows(s) => s \in Active BY DEF Active
<1>5. ActiveIsAsked' BY <1>1, <1>2, <1>3, <1>4 DEF ActiveIsAsked
<1>6. \A a \in Askers : about[a] # None => about[a] \in SignIns BY DEF TypeOK
<1>7. AskersWait' BY <1>1, <1>2, <1>6 DEF AskersWait
<1>. QED BY <1>5, <1>7

\* Who asks about a sign-in in progress that is not overtaken is given its end to wait for.
LEMMA AskKeepsAsk ==
  ASSUME AskInv, NEW a \in Askers, Ask(a) \/ Answer(a)
  PROVE  ActiveIsAsked' /\ AskersWait'
<1>. USE DEF AskInv, ProfileInv, Goes
<1>1. \A c \in Calls \ {a} : pc'[c] = pc[c] BY DEF TypeOK, Ask, Answer
<1>2. Active' = Active BY <1>1 DEF Active
<1>3. ActiveIsAsked' BY <1>1, <1>2 DEF ActiveIsAsked, Ask, Answer
<1>4. \A b \in Askers : about[b] # None => about[b] \in SignIns BY DEF TypeOK
<1>5. CASE Ask(a)
  <2>. USE <1>5 DEF Ask
  <2>1. about'[a] = desktop /\ \A b \in Askers \ {a} : about'[b] = about[b] BY DEF TypeOK
  <2>2. \A b \in Askers \ {a} : asked'[b] = asked[b] BY DEF TypeOK
  <2>3. pc'[a] = IF doneOf = None THEN "done" ELSE "wait" BY DEF TypeOK
  <2>4. pc'[a] = "wait" => asked'[a] = jobOf BY DEF TypeOK
  <2>5. ASSUME desktop # None
        PROVE  /\ desktop \in Active /\ pc[desktop] \in {"open", "stop"}
               /\ desktop \notin overtaken => doneOf = desktop /\ jobOf = desktop
    BY <2>5 DEF TypeOK, WindowIsHolders, ActiveIsAsked, Active
  <2>6. desktop # None => desktop # a BY DEF TypeOK
  <2>7. overtaken' = overtaken OBVIOUS
  <2>. SUFFICES ASSUME NEW b \in Askers
                PROVE  /\ pc'[b] \in {"idle", "wait", "done"}
                       /\ pc'[b] = "idle" => about'[b] = None
                       /\ about'[b] # None =>
                            /\ pc'[about'[b]] \in {"open", "stop", "done"}
                            /\ about'[b] \notin overtaken' =>
                                 /\ pc'[b] = "wait" => asked'[b] = about'[b]
                                 /\ pc'[b] = "done" => pc'[about'[b]] = "done"
    BY <1>3 DEF AskersWait
  <2>8. CASE b = a
    <3>1. desktop # None => pc'[desktop] = pc[desktop] BY <1>1, <2>5, <2>6 DEF TypeOK
    <3>2. desktop # None /\ desktop \notin overtaken => doneOf # None BY <2>5
    <3>. QED BY <2>1, <2>3, <2>4, <2>5, <2>7, <2>8, <3>1, <3>2
  <2>9. CASE b # a
    <3>1. pc'[b] = pc[b] /\ about'[b] = about[b] /\ asked'[b] = asked[b]
      BY <1>1, <2>1, <2>2, <2>9
    <3>2. about[b] # None => pc'[about[b]] = pc[about[b]] BY <1>1, <1>4 DEF TypeOK
    <3>. QED BY <2>7, <3>1, <3>2 DEF AskersWait
  <2>. QED BY <2>8, <2>9
<1>6. CASE Answer(a)
  <2>. USE <1>6 DEF Answer, JobOver
  <2>1. pc[a] = "wait" /\ pc'[a] = "done" /\ pc[asked[a]] = "done" BY DEF TypeOK
  <2>2. \A b \in Askers \ {a} : asked'[b] = asked[b] BY DEF TypeOK
  <2>. QED BY <1>1, <1>3, <1>4, <2>1, <2>2 DEF AskersWait
<1>. QED BY <1>5, <1>6

\* What is asked is so in every reachable state.
LEMMA AskInvariant == Spec => []AskInv
<1>1. AskInv /\ [Next]_vars => AskInv'
  <2>. SUFFICES ASSUME AskInv, ProfileInv', [Next]_vars PROVE ActiveIsAsked' /\ AskersWait'
    BY InvariantStep DEF AskInv
  <2>. USE DEF AskInv, ProfileInv
  <2>1. ASSUME NEW i \in Instances, Launching(i) \/ LaunchFails(i) \/ Exits(i)
        PROVE  ActiveIsAsked' /\ AskersWait'
    <3>1. \A c \in SignIns \cup Askers : pc'[c] = pc[c]
      BY <2>1 DEF Launching, Launched, LaunchReturns, LaunchFails, Exits, TypeOK, ActiveIsAsked,
                  AskersWait
    <3>. QED BY <2>1, <3>1, AsideKeepsAsk DEF Launching, Launched, LaunchReturns, LaunchFails,
                Exits
  <2>2. ASSUME NEW c \in Calls,
               RunJob(c) \/ FinishJob(c) \/ FinishErrand(c) \/ Enqueue(c) \/ Errand(c)
        PROVE  ActiveIsAsked' /\ AskersWait'
    <3>1. \A d \in SignIns \cup Askers : pc'[d] = pc[d]
      BY <2>2 DEF RunJob, FinishJob, FinishErrand, Enqueue, Errand, GetContext, Leaves, Given,
                  Goes, TypeOK
    <3>. QED BY <2>2, <3>1, AsideKeepsAsk DEF RunJob, FinishJob, FinishErrand, Enqueue, Errand
  <2>3. ASSUME NEW c \in Calls,
               BeginSignIn(c) \/ CloseContext(c) \/ Closed(c) \/ Spawn(c) \/ Ends(c)
        PROVE  ActiveIsAsked' /\ AskersWait'
    BY <2>3, GoingOnKeepsAsk DEF BeginSignIn, CloseContext, Closed, Spawn, Ends, Turn, Given
  <2>4. ASSUME NEW c \in Calls,
               \/ EndSignIn(c) \/ JoinOrRefuse(c) \/ StartSignIn(c) \/ Ask(c) \/ Answer(c)
        PROVE  ActiveIsAsked' /\ AskersWait'
    <3>1. CASE EndSignIn(c) \/ JoinOrRefuse(c)
      BY <3>1, OverKeepsAsk DEF EndSignIn, JoinOrRefuse
    <3>2. CASE StartSignIn(c) BY <3>2, StartKeepsAsk DEF StartSignIn
    <3>3. CASE Ask(c) \/ Answer(c) BY <3>3, AskKeepsAsk DEF Ask, Answer
    <3>. QED BY <2>4, <3>1, <3>2, <3>3
  <2>5. ASSUME NEW s \in SignIns, WindowClosed(s) PROVE ActiveIsAsked' /\ AskersWait'
    BY <2>5, AsideKeepsAsk DEF WindowClosed
  <2>6. CASE UNCHANGED vars BY <2>6, AsideKeepsAsk DEF vars
  <2>7. ASSUME NEW s \in SignIns, SpawnThrows(s) PROVE ActiveIsAsked' /\ AskersWait'
    BY <2>7, OverKeepsAsk DEF SpawnThrows
  <2>. QED BY <2>1, <2>2, <2>3, <2>4, <2>5, <2>6, <2>7 DEF Next, Work, Working
<1>. QED BY <1>1, AskInit, PTL DEF Spec

\* Only asking and answering bring an asker to its end, and what was asked about then stays.
LEMMA AskersEnd ==
  ASSUME AskInv, Next, NEW a \in Askers, pc'[a] = "done"
  PROVE  \/ pc[a] = "done" /\ about'[a] = about[a]
         \/ Ask(a) \/ Answer(a)
<1>. USE DEF AskInv, ProfileInv, TypeOK, Goes, Given, Leaves
<1>1. ASSUME NEW i \in Instances, Launching(i) \/ LaunchFails(i) \/ Exits(i)
      PROVE  pc[a] = "done" /\ about'[a] = about[a]
  BY <1>1 DEF Launching, Launched, LaunchReturns, LaunchFails, Exits
<1>2. ASSUME NEW c \in Calls,
             RunJob(c) \/ FinishJob(c) \/ FinishErrand(c) \/ Enqueue(c) \/ Errand(c)
      PROVE  pc[a] = "done" /\ about'[a] = about[a]
  BY <1>2 DEF RunJob, FinishJob, FinishErrand, Enqueue, Errand, GetContext
<1>3. ASSUME NEW c \in Calls,
             \/ BeginSignIn(c) \/ CloseContext(c) \/ Closed(c) \/ Spawn(c) \/ Ends(c)
             \/ EndSignIn(c) \/ JoinOrRefuse(c) \/ StartSignIn(c)
      PROVE  pc[a] = "done" /\ about'[a] = about[a]
  BY <1>3 DEF BeginSignIn, CloseContext, Closed, Spawn, Ends, EndSignIn, JoinOrRefuse, StartSignIn
<1>4. ASSUME NEW c \in Calls, Ask(c) \/ Answer(c), c # a
      PROVE  pc[a] = "done" /\ about'[a] = about[a]
  BY <1>4 DEF Ask, Answer
<1>5. ASSUME NEW s \in SignIns, WindowClosed(s) \/ SpawnThrows(s)
      PROVE  pc[a] = "done" /\ about'[a] = about[a]
  BY <1>5 DEF WindowClosed, SpawnThrows
<1>. QED BY <1>1, <1>2, <1>3, <1>4, <1>5 DEF Next, Work, Working

\* Whoever says that the sign-in in progress is finished or cancelled (manager.ts:275-287) is
\* answered when its window is closed, unless two sign-ins were accepted before a window was
\* open.
THEOREM AskersAreHeard == Spec => FinishIsHeard
<1>1. AskInv /\ AskInv' /\ [Next]_vars =>
        [\A a \in Askers :
           pc'[a] = "done" /\ about'[a] # None /\ about'[a] \notin overtaken =>
             about'[a] \notin window]_vars
  <2>. SUFFICES ASSUME AskInv, AskInv', Next, NEW a \in Askers,
                       pc'[a] = "done", about'[a] # None, about'[a] \notin overtaken
                PROVE  about'[a] \notin window
    BY DEF vars
  <2>. DEFINE s == about'[a]
  <2>. USE DEF AskInv, ProfileInv
  <2>1. s \in SignIns BY DEF TypeOK
  <2>2. pc[s] = "done"
    <3>1. CASE pc[a] = "done" /\ about'[a] = about[a] BY <3>1 DEF AskersWait
    <3>2. CASE Ask(a) \/ Answer(a)
      <4>1. overtaken' = overtaken /\ pc'[s] = pc[s]
        BY <2>1, <3>2 DEF Ask, Answer, Goes, TypeOK
      <4>. QED BY <4>1 DEF AskersWait
    <3>. QED BY <3>1, <3>2, AskersEnd
  <2>. QED BY <2>1, <2>2 DEF WindowIsHolders
<1>. QED BY <1>1, AskInvariant, PTL DEF Spec, FinishIsHeard
=============================================================================
