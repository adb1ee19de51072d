---------------------------- MODULE ProviderSync ----------------------------
(***************************************************************************)
(* What is known of a provider's session, and who writes it down: the      *)
(* scheduler's syncs (sync.ts, providers/browser/tasks.ts), a sync asked   *)
(* for, a check of the sign-in and a chat (providers/browser/chat.ts).     *)
(* They look at the site one at a time, under the browser's lock; a sync   *)
(* writes most of what it saw after it has let go of the lock, and every   *)
(* write is the row read, changed and written back.                        *)
(***************************************************************************)
EXTENDS Naturals, Sequences

CONSTANTS
  Asked,      \* syncs that are asked for: all of them (syncAll)
  Direct,     \* syncs of this provider alone (its action, its job)
  Checks,     \* checks of the sign-in
  Chats,      \* messages sent through the website
  Tick,       \* the scheduler's sync
  MaxFaults,  \* bound: passes skipped for the screen and errors outside syncProvider's try
  Nobody, Unread

Syncs == {Tick} \cup Asked \cup Direct
Calls == Syncs \cup Checks \cup Chats

VARIABLES
  row,        \* platform_state: its session_status, and whether last_login_at is set
  pc,
  before,     \* [Syncs -> row read when the sync began]
  verdict,    \* what the look at the site said
  todo,       \* the writes a call has before it
  got,        \* the row as its present write has read it
  lock,       \* who holds the browser
  running,    \* syncAll's flag
  timer,      \* the scheduler is armed
  inUse,      \* somebody uses the browser's screen, or signs in there
  alive,      \* the provider takes the browser's session for signed in
  everAlive,  \* it has at some time
  alarmed,    \* the event "login required" is there
  faults

callVars == <<pc, before, verdict, todo, got>>
vars == <<row, callVars, lock, running, timer, inUse, alive, everAlive, alarmed,
          faults>>

Statuses == {"unknown", "logged_in", "needs_login", "error"}
Rows == [status : Statuses, loginAt : BOOLEAN]
Unwritten == [status |-> "unknown", loginAt |-> FALSE]

TypeOK ==
  /\ row \in Rows
  /\ pc \in [Calls -> {"idle", "due", "waiting", "looking", "folding", "ending", "telling", "over"}]
  /\ before \in [Syncs -> Rows] /\ verdict \in [Calls -> Statuses]
  /\ todo \in [Calls -> Seq({"shot", "meta", "status"})] /\ got \in [Calls -> Rows \cup {Unread}]
  /\ lock \in Calls \cup {Nobody}
  /\ \A v \in {running, timer, inUse, alive, everAlive, alarmed} : v \in BOOLEAN
  /\ faults \in 0..MaxFaults

Init ==
  /\ row = Unwritten
  /\ pc = [c \in Calls |-> "idle"]
  /\ before = [s \in Syncs |-> Unwritten] /\ verdict = [c \in Calls |-> "unknown"]
  /\ todo = [c \in Calls |-> <<>>] /\ got = [c \in Calls |-> Unread]
  /\ lock = Nobody /\ running = FALSE /\ timer = TRUE /\ inUse = FALSE
  /\ alive = FALSE /\ everAlive = FALSE /\ alarmed = FALSE /\ faults = 0

Goes(c, at) == pc' = [pc EXCEPT ![c] = at]

\* A call that is over leaves nothing; syncAll's finally clears its flag, tick's arms the timer.
Flagged(s) == s \in {Tick} \cup Asked

\* Mutant of Over: a pass does not arm the timer for the next.
OverOnce(c) ==
  /\ Goes(c, IF c = Tick THEN "idle" ELSE "over")
  /\ before' = [s \in Syncs |-> IF s = c THEN Unwritten ELSE before[s]]
  /\ verdict' = [verdict EXCEPT ![c] = "unknown"]
  /\ todo' = [todo EXCEPT ![c] = <<>>] /\ got' = [got EXCEPT ![c] = Unread]
  /\ running' = (running /\ ~Flagged(c)) /\ UNCHANGED timer

Over(c) ==
  /\ Goes(c, IF c = Tick THEN "idle" ELSE "over")
  /\ before' = [s \in Syncs |-> IF s = c THEN Unwritten ELSE before[s]]
  /\ verdict' = [verdict EXCEPT ![c] = "unknown"]
  /\ todo' = [todo EXCEPT ![c] = <<>>] /\ got' = [got EXCEPT ![c] = Unread]
  /\ running' = (running /\ ~Flagged(c))
  /\ timer' = (timer \/ c = Tick)

World == UNCHANGED <<inUse, alive, everAlive>>
Others == World /\ UNCHANGED faults

Fault == faults < MaxFaults /\ faults' = faults + 1

----------------------------------------------------------------------------
(* The scheduler                                                           *)

\* tick: a screen in use or a sign-in there skips the pass, a sync that runs refuses it.
Fire ==
  /\ timer /\ pc[Tick] = "idle"
  /\ IF inUse \/ running
       THEN UNCHANGED <<timer, running, callVars>>
       ELSE /\ timer' = FALSE /\ running' = TRUE
            /\ Goes(Tick, "due")
            /\ UNCHANGED <<before, verdict, todo, got>>
  /\ UNCHANGED <<row, lock, alarmed>> /\ Others

\* syncAll for a person; the route and the flag refuse a second one.
Ask(s) ==
  /\ s \in Asked /\ pc[s] = "idle" /\ ~running
  /\ running' = TRUE /\ Goes(s, "due")
  /\ UNCHANGED <<row, before, verdict, todo, got, lock, timer, alarmed>> /\ Others

Call(c) ==
  /\ c \in Direct \cup Checks \cup Chats /\ pc[c] = "idle"
  /\ Goes(c, IF c \in Direct THEN "due" ELSE "waiting")
  /\ UNCHANGED <<row, before, verdict, todo, got, lock, running, timer, alarmed>> /\ Others

----------------------------------------------------------------------------
(* syncProvider, checkSignIn and sendOnce up to the look                   *)

\* The row as it was is read first.
BeginSync(s) ==
  /\ pc[s] = "due"
  /\ before' = [before EXCEPT ![s] = row]
  /\ Goes(s, "waiting")
  /\ UNCHANGED <<row, verdict, todo, got, lock, running, timer, alarmed>> /\ Others

\* Sync and check write what the look said; a chat writes that it is signed out or that
\* the composer appeared where no marker answered, and takes its screenshot at the end.
Writes(c, v, composer) ==
  IF c \in Syncs THEN IF v = "error" THEN <<>> ELSE <<"shot">>
  ELSE IF c \in Checks THEN IF v = "error" THEN <<"status">> ELSE <<"shot", "status">>
  ELSE IF v = "needs_login" THEN <<"status">>
  ELSE IF composer THEN <<"status", "shot">>
  ELSE IF v = "logged_in" THEN <<"shot">> ELSE <<>>

\* detectLoginState and detectChallenge: a live session shows its markers, nothing or a bot
\* check; a dead one the sign-in, nothing or a bot check; a composer is a marker too.
Verdicts == {"unknown", "needs_login", "error"} \cup (IF alive THEN {"logged_in"} ELSE {})

Look(c) ==
  /\ pc[c] = "waiting" /\ lock = Nobody
  /\ \E v \in Verdicts, composer \in BOOLEAN :
       /\ composer => alive /\ v = "unknown" /\ c \in Chats
       /\ todo' = [todo EXCEPT ![c] = Writes(c, v, composer)]
       /\ verdict' = [verdict EXCEPT ![c] = IF composer THEN "logged_in" ELSE v]
  /\ lock' = c /\ Goes(c, "looking")
  /\ UNCHANGED <<row, before, got, running, timer, alarmed>> /\ Others

----------------------------------------------------------------------------
(* setPlatformState: the row is read, and written back with the patch      *)

ReadRow(c) ==
  /\ todo[c] # <<>> /\ got[c] = Unread
  /\ got' = [got EXCEPT ![c] = row]
  /\ UNCHANGED <<row, pc, before, verdict, todo, lock, running, timer, alarmed>> /\ Others

Patched(r, patch, v) ==
  LET status == IF patch = "status" THEN v ELSE r.status IN
  [status |-> status, loginAt |-> r.loginAt \/ status = "logged_in"]

WriteRow(c) ==
  /\ todo[c] # <<>> /\ got[c] # Unread
  /\ row' = Patched(got[c], Head(todo[c]), verdict[c])
  /\ todo' = [todo EXCEPT ![c] = Tail(@)] /\ got' = [got EXCEPT ![c] = Unread]
  /\ UNCHANGED <<pc, before, verdict, lock, running, timer, alarmed>> /\ Others

----------------------------------------------------------------------------
(* After the look                                                          *)

Unlock(c) ==
  /\ pc[c] = "looking" /\ todo[c] = <<>>
  /\ lock' = Nobody
  /\ \/ /\ c \in Syncs /\ Goes(c, "folding")
        /\ UNCHANGED <<before, verdict, todo, got, running, timer>>
     \/ c \notin Syncs /\ Over(c)
  /\ UNCHANGED <<row, alarmed>> /\ Others

\* What was found becomes tasks, runs and events, and the meta column is written;
\* anything that throws on the way makes the sync an error.
Fold(s) ==
  /\ pc[s] = "folding"
  /\ \/ verdict[s] # "error" /\ todo' = [todo EXCEPT ![s] = <<"meta">>] /\ UNCHANGED verdict
     \/ verdict' = [verdict EXCEPT ![s] = "error"] /\ UNCHANGED todo
  /\ Goes(s, "ending")
  /\ UNCHANGED <<row, before, got, lock, running, timer, alarmed>> /\ Others

\* The run ends and the status is written.
EndSync(s) ==
  /\ pc[s] = "ending" /\ todo[s] = <<>>
  /\ todo' = [todo EXCEPT ![s] = <<"status">>]
  /\ Goes(s, "telling")
  /\ UNCHANGED <<row, before, verdict, got, lock, running, timer, alarmed>> /\ Others

\* Mutant of Lost: whoever is asked to sign in was signed in before.
LostWhenSignedOut(s) == verdict[s] = "needs_login" /\ before[s].status # "needs_login"

\* Only a session that existed can be lost.
Lost(s) == verdict[s] = "needs_login" /\ before[s].status # "needs_login" /\ before[s].loginAt

Tell(s) ==
  /\ pc[s] = "telling" /\ todo[s] = <<>>
  /\ alarmed' = (alarmed \/ Lost(s))
  /\ Over(s)
  /\ UNCHANGED <<row, lock>> /\ Others

\* A database that fails outside the try throws out of syncProvider.
SyncThrows(s) ==
  /\ \/ pc[s] \in {"due", "ending"} /\ todo[s] = <<>>
     \/ pc[s] = "telling" /\ todo[s] # <<>>
  /\ Over(s) /\ Fault
  /\ UNCHANGED <<row, lock, alarmed>> /\ World

----------------------------------------------------------------------------
(* The person and the provider                                             *)

Calm == UNCHANGED <<row, callVars, lock, running, timer, alarmed>>

ScreenTaken == ~inUse /\ inUse' = TRUE /\ Fault /\ UNCHANGED <<alive, everAlive>> /\ Calm
ScreenLeft == inUse /\ inUse' = FALSE /\ UNCHANGED <<alive, everAlive, faults>> /\ Calm

SignIn == ~alive /\ alive' = TRUE /\ everAlive' = TRUE /\ UNCHANGED <<inUse, faults>> /\ Calm
Expire == alive /\ alive' = FALSE /\ UNCHANGED <<inUse, everAlive, faults>> /\ Calm

Step(c) ==
  \/ Look(c) \/ ReadRow(c) \/ WriteRow(c) \/ Unlock(c)
  \/ c \in Syncs /\ (BeginSync(c) \/ Fold(c) \/ EndSync(c) \/ Tell(c))

Next ==
  \/ Fire \/ ScreenTaken \/ ScreenLeft \/ SignIn \/ Expire
  \/ \E c \in Calls : Ask(c) \/ Call(c) \/ Step(c)
  \/ \E s \in Syncs : SyncThrows(s)

\* The process runs its calls and its timer; a person leaves the screen some time.
Work == Fire \/ ScreenLeft \/ \E c \in Calls : Step(c)

Spec == Init /\ [][Next]_vars
FairSpec == Spec /\ WF_vars(Work)

----------------------------------------------------------------------------
(* Properties                                                              *)

\* Nothing claims a session that was never seen: not the card ("connected", or "sign in
\* again"), and not the alarm of a sign-in lost (detectLoginState, checkSignIn,
\* setPlatformState, the event of syncProvider).
NothingWithoutEvidence == row.status = "logged_in" \/ row.loginAt \/ alarmed => everAlive

\* A card does not say "connected" for ever over a session that is gone: the scheduler
\* comes back, whatever threw, whoever used the screen, and whichever write was overtaken.
StaleStatusHeals == []<>(alive \/ row.status # "logged_in")
=============================================================================
