------------------------------ MODULE Profile ------------------------------
(***************************************************************************)
(* The persistent browser (BrowserManager of src/browser/manager.ts): one  *)
(* profile, opened by the automation's Chromium or, for a sign-in on the   *)
(* cloud desktop, by a plain window.  Work on the browser is serialised by *)
(* a promise chain (withLock); a sign-in is a job of that chain which      *)
(* closes the automation, opens the window and waits.  Some calls ask for  *)
(* the automation's context outside the chain: the warm-up at boot, and    *)
(* the import and export of the whole state.                               *)
(*                                                                         *)
(* A step is the code between two awaits.                                  *)
(***************************************************************************)
EXTENDS Naturals, Sequences, FiniteSets

CONSTANTS
  Jobs,         \* automation work under the lock
  SignIns,      \* calls of startDesktopSignIn
  Errands,      \* calls of getContext outside the lock
  Askers,       \* calls of finishDesktopSignIn or cancelDesktopSignIn
  Instances,    \* names for the automation's Chromium processes, reused
  MaxExits,     \* bound on Chromium exiting by itself
  None

ASSUME CallsAssumption ==
  /\ Jobs \cap SignIns = {} /\ (Jobs \cup SignIns) \cap Errands = {}
  /\ (Jobs \cup SignIns \cup Errands) \cap Askers = {}
ASSUME NoneAssumption == None \notin Instances /\ None \notin SignIns
ASSUME ExitsAssumption == MaxExits \in Nat

VARIABLES
  chrome,     \* the Chromium processes of the automation
  context,    \* the one this.context stands for
  launching,  \* the one being launched
  queue,      \* the chain: what holds the lock, then what waits for it
  pc, ctx,    \* of each call: its place, and the Chromium it was given or closes
  desktop,    \* the sign-in in progress
  window,     \* sign-ins whose plain window is open
  doneOf,     \* desktopDone: the sign-in whose end it is
  jobOf,      \* desktopJob
  resolved,   \* sign-ins whose end has been asked for
  asked,      \* the sign-in an asker waits for
  about,      \* history: the sign-in in progress when an asker came
  overtaken,  \* history: sign-ins that were not in progress yet when another was accepted
  slipped,    \* history: launches under way while a sign-in put the automation out of the way,
              \*   and any instance forgotten because one of them exited
  exits

automation == <<chrome, context, launching, slipped>>
signIn == <<desktop, window, doneOf, jobOf, resolved, overtaken>>
calls == <<queue, pc, ctx, asked, about>>
vars == <<automation, signIn, calls, exits>>

Locked == Jobs \cup SignIns
Calls == Locked \cup Errands \cup Askers
Places == {"idle", "queued", "launch", "work", "backup", "closing", "spawn", "open", "stop", "wait", "done"}

TypeOK ==
  /\ chrome \in [Instances -> {"none", "starting", "open", "closing"}]
  /\ context \in Instances \cup {None} /\ launching \in Instances \cup {None}
  /\ queue \in Seq(Locked)
  /\ pc \in [Calls -> Places] /\ ctx \in [Calls -> Instances \cup {None}]
  /\ desktop \in SignIns \cup {None} /\ window \subseteq SignIns
  /\ doneOf \in SignIns \cup {None} /\ jobOf \in SignIns \cup {None} /\ resolved \subseteq SignIns
  /\ asked \in [Askers -> SignIns \cup {None}] /\ about \in [Askers -> SignIns \cup {None}]
  /\ overtaken \subseteq SignIns
  /\ slipped \subseteq Instances /\ exits \in 0..MaxExits

Init ==
  /\ chrome = [i \in Instances |-> "none"] /\ context = None /\ launching = None
  /\ queue = <<>> /\ pc = [c \in Calls |-> "idle"] /\ ctx = [c \in Calls |-> None]
  /\ desktop = None /\ window = {} /\ doneOf = None /\ jobOf = None /\ resolved = {}
  /\ asked = [a \in Askers |-> None] /\ about = [a \in Askers |-> None]
  /\ overtaken = {} /\ slipped = {} /\ exits = 0

----------------------------------------------------------------------------
(* Helpers                                                                 *)

Goes(c, place) == pc' = [pc EXCEPT ![c] = place]
Given(c, i, place) == Goes(c, place) /\ ctx' = [ctx EXCEPT ![c] = i]

\* The lock is c's.
Turn(c) == pc[c] = "queued" /\ Head(queue) = c

\* What c does as it leaves the lock.
Leaves(c) == Given(c, None, "done") /\ queue' = Tail(queue)

\* A sign-in puts the automation out of the way.
Clearing == \E s \in SignIns : pc[s] \in {"backup", "closing", "spawn"}

----------------------------------------------------------------------------
(* getContext and launch                                                   *)

\* Mutant of Available: the desktop is not looked at.
AvailableAlways == TRUE

\* Without a context, a sign-in in progress refuses.
Available == desktop = None

\* The context there is, the launch under way, or a new launch.
GetContext(c) ==
  \/ context # None /\ Given(c, context, "work") /\ UNCHANGED automation
  \/ /\ context = None /\ Available /\ launching # None
     /\ Given(c, launching, "launch") /\ UNCHANGED automation
  \/ /\ context = None /\ Available /\ launching = None
     /\ \E i \in Instances :
          /\ chrome[i] = "none" /\ \A j \in Instances : chrome[j] = "none" => i = CHOOSE f \in Instances : chrome[f] = "none"
          /\ chrome' = [chrome EXCEPT ![i] = "starting"] /\ launching' = i
          /\ slipped' = IF Clearing THEN slipped \cup {i} ELSE slipped \ {i}
          /\ Given(c, i, "launch")
     /\ UNCHANGED context

Refused(c) == context = None /\ ~Available

\* The process is up: it is the context from here on, while its sessions are restored.
Launched(i) ==
  /\ chrome[i] = "starting"
  /\ chrome' = [chrome EXCEPT ![i] = "open"] /\ context' = i
  /\ UNCHANGED <<launching, slipped, signIn, calls, exits>>

\* launch returns: everybody who waited for it has its context, whatever became of it.
LaunchReturns(i) ==
  /\ launching = i /\ chrome[i] # "starting" /\ launching' = None
  /\ pc' = [c \in Calls |-> IF pc[c] = "launch" THEN "work" ELSE pc[c]]
  /\ UNCHANGED <<chrome, context, slipped, signIn, queue, ctx, asked, about, exits>>

LaunchFails(i) ==
  /\ chrome[i] = "starting" /\ exits < MaxExits /\ exits' = exits + 1
  /\ chrome' = [chrome EXCEPT ![i] = "none"] /\ launching' = None
  /\ pc' = [c \in Calls |-> IF pc[c] = "launch" THEN "work" ELSE pc[c]]
  /\ ctx' = [c \in Calls |-> IF pc[c] = "launch" THEN None ELSE ctx[c]]
  /\ UNCHANGED <<context, slipped, signIn, queue, asked, about>>

\* Chromium exits by itself: nobody can close it any more.  Its close event forgets the
\* context, whichever that is.
Exits(i) ==
  /\ chrome[i] = "open" /\ exits < MaxExits /\ exits' = exits + 1
  /\ chrome' = [chrome EXCEPT ![i] = "none"] /\ context' = None
  /\ ctx' = [c \in Calls |-> IF ctx[c] = i THEN None ELSE ctx[c]]
  /\ slipped' = slipped \cup IF i \in slipped THEN {context} \ {i, None} ELSE {}
  /\ UNCHANGED <<launching, signIn, queue, pc, asked, about>>

----------------------------------------------------------------------------
(* withLock: automation jobs; and getContext outside of it                 *)

Enqueue(j) ==
  /\ j \in Jobs /\ pc[j] = "idle"
  /\ IF desktop # None THEN Goes(j, "done") /\ UNCHANGED queue
                       ELSE Goes(j, "queued") /\ queue' = Append(queue, j)
  /\ UNCHANGED <<automation, signIn, ctx, asked, about, exits>>

RunJob(j) ==
  /\ j \in Jobs /\ Turn(j)
  /\ \/ GetContext(j) /\ UNCHANGED queue
     \/ Refused(j) /\ Leaves(j) /\ UNCHANGED automation
  /\ UNCHANGED <<signIn, asked, about, exits>>

FinishJob(j) ==
  /\ j \in Jobs /\ pc[j] = "work" /\ Leaves(j)
  /\ UNCHANGED <<automation, signIn, asked, about, exits>>

Errand(e) ==
  /\ e \in Errands /\ pc[e] = "idle"
  /\ \/ GetContext(e)
     \/ Refused(e) /\ Given(e, None, "done") /\ UNCHANGED automation
  /\ UNCHANGED <<signIn, queue, asked, about, exits>>

FinishErrand(e) ==
  /\ e \in Errands /\ pc[e] = "work" /\ Given(e, None, "done")
  /\ UNCHANGED <<automation, signIn, queue, asked, about, exits>>

----------------------------------------------------------------------------
(* startDesktopSignIn                                                      *)

\* The caller joins the sign-in in progress to its provider, or is refused for another's.
JoinOrRefuse(s) ==
  /\ s \in SignIns /\ pc[s] = "idle" /\ desktop # None
  /\ Goes(s, "done")
  /\ UNCHANGED <<automation, signIn, queue, ctx, asked, about, exits>>

\* Sign-ins accepted and not in progress yet.
Accepted == {s \in SignIns : pc[s] \in {"queued", "backup", "closing", "spawn"}}

\* Otherwise the sign-in is a job under the lock, and the one to finish or cancel.
StartSignIn(s) ==
  /\ s \in SignIns /\ pc[s] = "idle" /\ desktop = None
  /\ doneOf' = s /\ jobOf' = s
  /\ Goes(s, "queued") /\ queue' = Append(queue, s)
  /\ overtaken' = IF Accepted # {} THEN overtaken \cup Accepted \cup {s} ELSE overtaken
  /\ UNCHANGED <<automation, desktop, window, resolved, ctx, asked, about, exits>>

\* close(): nothing to close, or a backup first.
BeginSignIn(s) ==
  /\ s \in SignIns /\ Turn(s)
  /\ Given(s, context, IF context = None THEN "spawn" ELSE "backup")
  /\ slipped' = slipped \cup ({launching} \cap Instances)
  /\ UNCHANGED <<chrome, context, launching, signIn, queue, asked, about, exits>>

\* The context is forgotten, whichever that is by now, and the one there was is closed.
CloseContext(s) ==
  /\ s \in SignIns /\ pc[s] = "backup"
  /\ context' = None
  /\ chrome' = [i \in Instances |->
                  IF i = ctx[s] /\ chrome[i] = "open" THEN "closing" ELSE chrome[i]]
  /\ Goes(s, "closing")
  /\ UNCHANGED <<launching, slipped, signIn, queue, ctx, asked, about, exits>>

Closed(s) ==
  /\ s \in SignIns /\ pc[s] = "closing"
  /\ IF ctx[s] # None /\ chrome[ctx[s]] = "closing"
       THEN chrome' = [chrome EXCEPT ![ctx[s]] = "none"] /\ context' = None
       ELSE UNCHANGED <<chrome, context>>
  /\ Given(s, None, "spawn")
  /\ UNCHANGED <<launching, slipped, signIn, queue, asked, about, exits>>

\* The plain window opens, or does not start.
Spawn(s) ==
  /\ s \in SignIns /\ pc[s] = "spawn"
  /\ desktop' = s
  /\ \/ Goes(s, "open") /\ window' = window \cup {s} /\ UNCHANGED resolved
     \/ Goes(s, "open") /\ resolved' = resolved \cup {s} /\ UNCHANGED window
  /\ UNCHANGED <<automation, doneOf, jobOf, overtaken, queue, ctx, asked, about, exits>>

\* There is no browser to spawn: the job throws, and its finally runs.
SpawnThrows(s) ==
  /\ s \in SignIns /\ pc[s] = "spawn"
  /\ desktop' = None /\ doneOf' = None
  /\ Leaves(s)
  /\ UNCHANGED <<automation, window, jobOf, resolved, overtaken, asked, about, exits>>

\* Mutant of TimeIsUp: no deadline.
TimeIsUpNever(s) == FALSE

\* Ten minutes have passed.
TimeIsUp(s) == pc[s] = "open"

\* It was asked for, the user closed the window, or the time is up.
Ends(s) ==
  /\ s \in SignIns /\ pc[s] = "open" /\ (s \in resolved \/ TimeIsUp(s))
  /\ Goes(s, "stop")
  /\ UNCHANGED <<automation, signIn, queue, ctx, asked, about, exits>>

WindowClosed(s) ==
  /\ s \in window /\ pc[s] = "open"
  /\ window' = window \ {s} /\ resolved' = resolved \cup {s}
  /\ UNCHANGED <<automation, desktop, doneOf, jobOf, overtaken, calls, exits>>

\* stopChild, and the finally: nobody is asked any more, not even about a sign-in that waits.
EndSignIn(s) ==
  /\ s \in SignIns /\ pc[s] = "stop"
  /\ window' = window \ {s}
  /\ desktop' = None /\ doneOf' = None
  /\ Leaves(s)
  /\ UNCHANGED <<automation, jobOf, resolved, overtaken, asked, about, exits>>

----------------------------------------------------------------------------
(* finishDesktopSignIn, cancelDesktopSignIn                                *)

Ask(a) ==
  /\ a \in Askers /\ pc[a] = "idle" /\ about' = [about EXCEPT ![a] = desktop]
  /\ IF doneOf = None
       THEN Goes(a, "done") /\ UNCHANGED <<resolved, asked>>
       ELSE /\ Goes(a, "wait") /\ asked' = [asked EXCEPT ![a] = jobOf]
            /\ resolved' = resolved \cup {doneOf}
  /\ UNCHANGED <<automation, desktop, window, doneOf, jobOf, overtaken, queue, ctx, exits>>

\* Mutant of JobOver: the answer does not wait for the job.
JobOverAtOnce(a) == TRUE

JobOver(a) == pc[asked[a]] = "done"

Answer(a) ==
  /\ a \in Askers /\ pc[a] = "wait" /\ JobOver(a)
  /\ Goes(a, "done") /\ asked' = [asked EXCEPT ![a] = None]
  /\ UNCHANGED <<automation, signIn, queue, ctx, about, exits>>

----------------------------------------------------------------------------
Launching(i) == Launched(i) \/ LaunchReturns(i)
Working(c) ==
  \/ RunJob(c) \/ FinishJob(c) \/ FinishErrand(c)
  \/ BeginSignIn(c) \/ CloseContext(c) \/ Closed(c) \/ Spawn(c) \/ Ends(c) \/ EndSignIn(c)
  \/ Answer(c)

Work ==
  \/ \E i \in Instances : Launching(i)
  \/ \E c \in Calls : Working(c)
Next ==
  \/ Work
  \/ \E i \in Instances : LaunchFails(i) \/ Exits(i)
  \/ \E c \in Calls : Enqueue(c) \/ Errand(c) \/ JoinOrRefuse(c) \/ StartSignIn(c) \/ Ask(c)
  \/ \E s \in SignIns : WindowClosed(s) \/ SpawnThrows(s)

Spec == Init /\ [][Next]_vars

\* A launch, a job and a closing window come to their end, and the ten minutes pass.
\* Nobody has to come.
Fairness == WF_vars(Work)
FairSpec == Spec /\ Fairness

----------------------------------------------------------------------------
(* Properties                                                              *)

\* The plain window has the profile to itself: no Chromium of the automation runs beside it,
\* but one whose launch was under way, or began, while the sign-in closed the automation
\* (manager.ts:211-212, 233), and one that was forgotten when such a one exited.  Such a
\* launch was asked for outside the lock.
WindowAlone ==
  \A i \in Instances : window # {} /\ chrome[i] # "none" => i \in slipped

\* Whoever says that the sign-in in progress is finished or cancelled is heard, and answered
\* when its window is closed, unless two sign-ins were accepted before a window was open.
FinishIsHeard ==
  [][\A a \in Askers :
       pc'[a] = "done" /\ about'[a] # None /\ about'[a] \notin overtaken => about'[a] \notin window]_vars

\* The browser comes free of every sign-in, and whoever waits for its end is answered.
SignInsEnd == []<>(desktop = None /\ \A a \in Askers : pc[a] # "wait")
=============================================================================
