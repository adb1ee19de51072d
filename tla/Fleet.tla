------------------------------- MODULE Fleet -------------------------------
(***************************************************************************)
(* The browser fleet (src/browser/fleet.ts): browser workers that each     *)
(* keep one Chromium and, in it, a context per (workspace, provider).  A   *)
(* context is seeded from the session saved in the database and sealed     *)
(* back to it when it goes idle or makes room.  Jobs on one session take   *)
(* turns inside a worker (the promise chains); between workers a claim     *)
(* with a time to live is to keep two from driving one session.            *)
(*                                                                         *)
(* A step is the code between two awaits.  A session is a number: a later  *)
(* one is a newer state of the signed-in account.                          *)
(***************************************************************************)
EXTENDS Naturals, Sequences, FiniteSets

CONSTANTS
  Keys,          \* (workspace, provider) pairs
  OrgOf,         \* the workspace of a key
  Workers,       \* browser worker processes
  Jobs,          \* job activations: calls of withLock
  Errands,       \* imports of a session, sign-ins on the shared screen, backups
  WorkerOf,      \* the worker of each of these
  Ids,           \* names for contexts, reused once closed
  MaxContexts, OrgMaxContexts,
  MaxSession,    \* bound on the states a session passes through
  MaxFaults,     \* bound on stalled renewals, unreadable sessions, shutdowns, exits and crashes
  NoConn, NoOne, Gone

Calls   == Jobs \cup Errands
Slots   == Workers \X Keys
Session == 0..MaxSession

ASSUME CallsAssumption ==
  /\ Jobs \cap Errands = {}
  /\ WorkerOf \in [Calls -> Workers]
ASSUME LimitsAssumption ==
  /\ MaxContexts \in Nat /\ OrgMaxContexts \in Nat
  /\ MaxSession \in Nat /\ MaxFaults \in Nat
ASSUME NamesAssumption ==
  /\ NoConn \notin Ids /\ Ids \cap Calls = {}
  /\ NoOne \notin Workers /\ Gone \notin Workers /\ NoOne # Gone
  /\ Keys # {} /\ Workers # {}

VARIABLES
  blob,      \* the saved session of each key
  newest,    \* the newest state any session has reached
  claim,     \* provider_claims: who holds a key, and whether it has not run out
  renewing,  \* the workers' renewal timers, claimRenewers
  context,   \* the open contexts
  mapped,    \* the connections map of each worker
  chain,     \* the jobs of a worker that wait for a key, the first one running
  pc, key, conn, seen, again,   \* of each call
  faults,
  lost,      \* history: jobs under way whose claim ran out or was given back
  crossed    \* history: keys whose session was saved while somebody else held it too, or
             \* that were opened without a saved session which could not be read

store == <<blob, newest>>
claims == <<claim, renewing>>
pool == <<context, mapped>>
calls == <<chain, pc, key, conn, seen, again>>
vars == <<store, claims, pool, calls, faults, lost, crossed>>

Closed == [worker |-> NoOne, key |-> NoOne, session |-> 0, state |-> "closed", busy |-> FALSE]
Contexts ==
  {Closed} \cup [worker : Workers, key : Keys, session : Session,
                 state : {"open", "sealing", "saved"}, busy : BOOLEAN]
Places == {"idle", "done", "queued", "resolve", "slot", "evict", "load", "open", "work",
           "drop", "release", "store", "stored", "giveBack", "save"}

\* Every variable keeps its type, and a worker's map names open contexts of its own only.
TypeOK ==
  /\ blob \in [Keys -> Session] /\ newest \in Session
  /\ claim \in [Keys -> [owner : Workers \cup {NoOne, Gone}, live : BOOLEAN]]
  /\ renewing \in SUBSET Slots
  /\ context \in [Ids -> Contexts]
  /\ mapped \in [Slots -> Ids \cup {NoConn}]
  /\ \A s \in Slots : mapped[s] # NoConn =>
       context[mapped[s]].state = "open" /\ <<context[mapped[s]].worker, context[mapped[s]].key>> = s
  /\ chain \in [Slots -> Seq(Jobs)]
  /\ pc \in [Calls -> Places] /\ key \in [Calls -> Keys]
  /\ conn \in [Calls -> Ids \cup {NoConn}] /\ seen \in [Calls -> Session]
  /\ again \in SUBSET Jobs
  /\ faults \in 0..MaxFaults
  /\ lost \in SUBSET Jobs /\ crossed \in SUBSET Keys

----------------------------------------------------------------------------
(* Helpers                                                                 *)

Slot(c) == <<WorkerOf[c], key[c]>>
Running(i) == context[i].state # "closed"
IsMapped(i) == \E s \in Slots : mapped[s] = i
ConnectionsOf(w) == {k \in Keys : mapped[<<w, k>>] # NoConn}
OrgConnections(w, k) == {l \in ConnectionsOf(w) : OrgOf[l] = OrgOf[k]}
OverOrg(w, k) == Cardinality(OrgConnections(w, k)) >= OrgMaxContexts
Crowded(w, k) == Cardinality(ConnectionsOf(w)) >= MaxContexts \/ OverOrg(w, k)

\* Jobs between taking the claim and the end of their turn.
UnderWay(c) == c \in Jobs /\ pc[c] \notin {"idle", "queued", "done"}
JobsOn(w, k) == {c \in Jobs : UnderWay(c) /\ Slot(c) = <<w, k>>}

\* Who may still save a session of k that it has: a context, a call that has loaded one for
\* a context or read one for a backup.
Holds(i, k) == context[i].key = k /\ context[i].state \in {"open", "sealing"}
Carries(c, k) == key[c] = k /\ pc[c] \in {"open", "save"}

\* A save of k's session by context x, or by call x of a session it read from context i.
Crossing(k, x, i) ==
  IF (\E j \in Ids \ {x, i} : Holds(j, k)) \/ (\E c \in Calls \ {x} : Carries(c, k))
    THEN crossed \cup {k} ELSE crossed

\* A connection an eviction or the sweep may seal.
Idle(i) == context[i].state = "open" /\ ~context[i].busy /\ IsMapped(i)

\* Mutant of GivenUp: the row goes whoever holds it.
GivenUpForAll(w, k) == [claim EXCEPT ![k] = [owner |-> NoOne, live |-> FALSE]]

\* releaseProviderClaim: delete the row if it is this worker's.
GivenUp(w, k) ==
  IF claim[k].owner = w THEN [claim EXCEPT ![k] = [owner |-> NoOne, live |-> FALSE]] ELSE claim

\* releaseClaim stops the renewal and deletes the row.
ReleaseClaim(w, k) ==
  /\ renewing' = renewing \ {<<w, k>>}
  /\ claim' = GivenUp(w, k)
  /\ lost' = lost \cup JobsOn(w, k)

AnyKey == CHOOSE k \in Keys : TRUE

Init ==
  /\ blob = [k \in Keys |-> 0] /\ newest = 0
  /\ claim = [k \in Keys |-> [owner |-> NoOne, live |-> FALSE]] /\ renewing = {}
  /\ context = [i \in Ids |-> Closed] /\ mapped = [s \in Slots |-> NoConn]
  /\ chain = [s \in Slots |-> <<>>]
  /\ pc = [c \in Calls |-> "idle"] /\ key = [c \in Calls |-> AnyKey]
  /\ conn = [c \in Calls |-> NoConn] /\ seen = [c \in Calls |-> 0] /\ again = {}
  /\ faults = 0 /\ lost = {} /\ crossed = {}

----------------------------------------------------------------------------
(* withLock: a job waits for its turn, takes the claim, then a connection   *)

Enqueue(c, k) ==
  /\ c \in Jobs /\ pc[c] = "idle"
  /\ pc' = [pc EXCEPT ![c] = "queued"] /\ key' = [key EXCEPT ![c] = k]
  /\ chain' = [chain EXCEPT ![<<WorkerOf[c], k>>] = Append(@, c)]
  /\ UNCHANGED <<store, claims, pool, conn, seen, again, faults, lost, crossed>>

\* Mutant of HasTurn: the turns hang off the open connection.
TurnOfConnection(c) ==
  pc[c] = "queued" /\ chain[Slot(c)] # <<>> /\ (Head(chain[Slot(c)]) = c \/ mapped[Slot(c)] = NoConn)

HasTurn(c) == pc[c] = "queued" /\ chain[Slot(c)] # <<>> /\ Head(chain[Slot(c)]) = c

\* Mutant of Leave: a job leaves without making way for the next.
LeaveStaying(c) ==
  /\ pc' = [pc EXCEPT ![c] = "done"]
  /\ conn' = [conn EXCEPT ![c] = NoConn]
  /\ seen' = [seen EXCEPT ![c] = 0]
  /\ again' = again \ {c}
  /\ lost' = lost \ {c}
  /\ key' = [key EXCEPT ![c] = AnyKey]
  /\ UNCHANGED chain

\* The tail's finally: the next job of the chain runs whether or not this one failed.
Leave(c) ==
  /\ pc' = [pc EXCEPT ![c] = "done"]
  /\ chain' = [chain EXCEPT ![Slot(c)] = Tail(@)]
  /\ conn' = [conn EXCEPT ![c] = NoConn]
  /\ seen' = [seen EXCEPT ![c] = 0]
  /\ again' = again \ {c}
  /\ lost' = lost \ {c}
  /\ key' = [key EXCEPT ![c] = AnyKey]

\* claimProvider: no row, a row that has run out, or this worker's own.
Claimable(w, k) == claim[k].owner \in {w, NoOne} \/ ~claim[k].live

\* acquireClaim
Begin(c) ==
  /\ c \in Jobs /\ HasTurn(c) /\ Claimable(WorkerOf[c], key[c])
  /\ claim' = [claim EXCEPT ![key[c]] = [owner |-> WorkerOf[c], live |-> TRUE]]
  /\ renewing' = renewing \cup {Slot(c)}
  /\ pc' = [pc EXCEPT ![c] = "resolve"]
  /\ UNCHANGED <<store, pool, chain, key, conn, seen, again, faults, lost, crossed>>

\* ProviderBusyError: the queue delivers the job again later.
Refused(c) ==
  /\ c \in Jobs /\ HasTurn(c) /\ ~Claimable(WorkerOf[c], key[c])
  /\ Leave(c)
  /\ UNCHANGED <<store, claims, pool, faults, crossed>>

\* connection: the open one, or make room for a new one.
Resolve(c) ==
  /\ pc[c] = "resolve"
  /\ LET i == mapped[Slot(c)] IN
       IF i # NoConn
         THEN /\ pc' = [pc EXCEPT ![c] = "work"]
              /\ conn' = [conn EXCEPT ![c] = i]
              /\ context' = [context EXCEPT ![i].busy = TRUE]
         ELSE /\ pc' = [pc EXCEPT ![c] = "slot"]
              /\ UNCHANGED <<conn, context>>
  /\ UNCHANGED <<store, claims, mapped, chain, key, seen, again, faults, lost, crossed>>

\* acquireSlot: there is room ...
Room(c) ==
  /\ pc[c] = "slot" /\ ~Crowded(WorkerOf[c], key[c])
  /\ pc' = [pc EXCEPT ![c] = "load"]
  /\ UNCHANGED <<store, claims, pool, chain, key, conn, seen, again, faults, lost, crossed>>

Evictable(c) ==
  {i \in Ids : /\ Idle(i) /\ context[i].worker = WorkerOf[c]
               /\ OverOrg(WorkerOf[c], key[c]) => OrgOf[context[i].key] = OrgOf[key[c]]}

\* seal begins: the connection leaves the map before its session is saved.
Unmap(i) ==
  /\ context' = [context EXCEPT ![i].state = "sealing"]
  /\ mapped' = [s \in Slots |-> IF mapped[s] = i THEN NoConn ELSE mapped[s]]

\* ... or an idle connection is sealed to make some, and the call waits for that ...
Evict(c) ==
  /\ pc[c] = "slot" /\ Crowded(WorkerOf[c], key[c])
  /\ \E i \in Evictable(c) : Unmap(i) /\ conn' = [conn EXCEPT ![c] = i]
  /\ pc' = [pc EXCEPT ![c] = "evict"]
  /\ UNCHANGED <<store, claims, chain, key, seen, again, faults, lost, crossed>>

\* ... or the call is told to try again after a minute of waiting.  Its claim stays.
GiveUp(c) ==
  /\ pc[c] = "slot" /\ Crowded(WorkerOf[c], key[c]) /\ Evictable(c) = {}
  /\ Leave(c)
  /\ UNCHANGED <<store, claims, pool, faults, crossed>>

\* Mutant of Load: the context starts without its saved session.
LoadNothing(c) ==
  /\ pc[c] = "load"
  /\ pc' = [pc EXCEPT ![c] = "open"]
  /\ UNCHANGED <<store, claims, pool, chain, key, conn, seen, again, faults, lost, crossed>>

\* loadConnectionState
Load(c) ==
  /\ pc[c] = "load"
  /\ seen' = [seen EXCEPT ![c] = blob[key[c]]]
  /\ pc' = [pc EXCEPT ![c] = "open"]
  /\ UNCHANGED <<store, claims, pool, chain, key, conn, again, faults, lost, crossed>>

\* A saved session that cannot be unsealed or parsed counts as none: the context opens empty
\* (session-store.ts:62-67), and what it comes to hold is sealed over the saved one.
LoadUnreadable(c) ==
  /\ pc[c] = "load" /\ faults < MaxFaults
  /\ faults' = faults + 1
  /\ seen' = [seen EXCEPT ![c] = 0]
  /\ crossed' = crossed \cup {key[c]}
  /\ pc' = [pc EXCEPT ![c] = "open"]
  /\ UNCHANGED <<store, claims, pool, chain, key, conn, again, lost>>

\* newContext and connections.set; withLock marks the connection busy, a page that is
\* opened anew during a job does not.
Open(c) ==
  /\ pc[c] = "open"
  /\ \E i \in Ids :
       /\ ~Running(i) /\ \A j \in Ids : Running(j) \/ i = CHOOSE f \in Ids : ~Running(f)
       /\ context' = [context EXCEPT ![i] =
            [worker |-> WorkerOf[c], key |-> key[c], session |-> seen[c],
             state |-> "open", busy |-> c \notin again]]
       /\ mapped' = [mapped EXCEPT ![Slot(c)] = i]
       /\ conn' = [conn EXCEPT ![c] = i]
  /\ seen' = [seen EXCEPT ![c] = 0]
  /\ pc' = [pc EXCEPT ![c] = "work"]
  /\ UNCHANGED <<store, claims, chain, key, again, faults, lost, crossed>>

\* Chromium does not start, or the context does not open.  The claim stays.
OpenFails(c) ==
  /\ pc[c] = "open"
  /\ Leave(c)
  /\ UNCHANGED <<store, claims, pool, faults, crossed>>

----------------------------------------------------------------------------
(* A job at work                                                           *)

\* The provider renews the session while its page is driven.
Rotate(c) ==
  /\ pc[c] = "work" /\ conn[c] # NoConn /\ newest < MaxSession
  /\ newest' = newest + 1
  /\ context' = [context EXCEPT ![conn[c]].session = newest + 1]
  /\ UNCHANGED <<blob, claims, mapped, calls, faults, lost, crossed>>

\* consolePage: when its page is gone the job looks the connection up again, on a fresh tab
\* and once (page.ts:52-66).  Only the job whose turn it is opens one.
Reopen(c) ==
  /\ pc[c] = "work" /\ c \notin again /\ mapped[Slot(c)] = NoConn
  /\ again' = again \cup {c}
  /\ conn' = [conn EXCEPT ![c] = NoConn]
  /\ pc' = [pc EXCEPT ![c] = "slot"]
  /\ UNCHANGED <<store, claims, pool, chain, key, seen, faults, lost, crossed>>

\* The job returns or throws; its connection is idle again.
Finish(c) ==
  /\ pc[c] = "work"
  /\ context' = IF conn[c] = NoConn THEN context ELSE [context EXCEPT ![conn[c]].busy = FALSE]
  /\ Leave(c)
  /\ UNCHANGED <<store, claims, mapped, faults, crossed>>

----------------------------------------------------------------------------
(* seal: save the session, close the context, give the claim back           *)

\* sweepIdle and exportState
Sweep(i) ==
  /\ Idle(i)
  /\ Unmap(i)
  /\ UNCHANGED <<store, claims, calls, faults, lost, crossed>>

\* close, on the way to the end of the process, seals busy connections too.
Shutdown(i) ==
  /\ context[i].state = "open" /\ context[i].busy /\ IsMapped(i) /\ faults < MaxFaults
  /\ faults' = faults + 1
  /\ Unmap(i)
  /\ UNCHANGED <<store, claims, calls, lost, crossed>>

SealSave(i) ==
  /\ context[i].state = "sealing"
  /\ blob' = [blob EXCEPT ![context[i].key] = context[i].session]
  /\ context' = [context EXCEPT ![i].state = "saved"]
  /\ crossed' = Crossing(context[i].key, i, i)
  /\ UNCHANGED <<newest, claims, mapped, calls, faults, lost>>

\* The session is not exported or not saved; the one saved last stands.
SealFails(i) ==
  /\ context[i].state = "sealing"
  /\ context' = [context EXCEPT ![i].state = "saved"]
  /\ UNCHANGED <<store, claims, mapped, calls, faults, lost, crossed>>

SealEnd(i) ==
  /\ context[i].state = "saved"
  /\ context' = [context EXCEPT ![i] = Closed]
  /\ ReleaseClaim(context[i].worker, context[i].key)
  /\ pc' = [c \in Calls |-> IF pc[c] = "evict" /\ conn[c] = i THEN "slot" ELSE pc[c]]
  /\ conn' = [c \in Calls |-> IF conn[c] = i THEN NoConn ELSE conn[c]]
  /\ UNCHANGED <<store, mapped, chain, key, seen, again, faults, crossed>>

----------------------------------------------------------------------------
(* A sign-in replaces a session: importProviderState drops the open        *)
(* connection and then saves; a finished sign-in on the shared screen saves *)
(* and then drops.                                                          *)

Became(c, place) == pc' = [pc EXCEPT ![c] = place]
Start(c, k, place) == pc[c] = "idle" /\ key' = [key EXCEPT ![c] = k] /\ Became(c, place)
End(c) == key' = [key EXCEPT ![c] = AnyKey] /\ Became(c, "done")

\* saveConnectionState of a session signed in elsewhere.
SignedIn(c, k) ==
  /\ newest < MaxSession /\ newest' = newest + 1
  /\ blob' = [blob EXCEPT ![k] = newest + 1]
  /\ crossed' = Crossing(k, c, NoConn)

\* What the map holds now is forgotten; what was looked up, i, is closed, busy or not.
Forget(c, i, place) ==
  /\ mapped' = [mapped EXCEPT ![Slot(c)] = NoConn]
  /\ context' = IF i = NoConn THEN context ELSE [context EXCEPT ![i] = Closed]
  /\ conn' = [d \in Calls |-> IF conn[d] = i THEN NoConn ELSE conn[d]]
  /\ pc' = [d \in Calls |-> IF d = c THEN place
                            ELSE IF pc[d] = "evict" /\ conn[d] = i THEN "slot" ELSE pc[d]]

GiveBack(c) ==
  /\ ReleaseClaim(WorkerOf[c], key[c])
  /\ UNCHANGED <<store, pool, chain, conn, seen, again, faults, crossed>>

StartImport(c, k) ==
  LET i == mapped[<<WorkerOf[c], k>>] IN
  /\ newest < MaxSession
  /\ Start(c, k, IF i = NoConn THEN "store" ELSE "drop")
  /\ conn' = [conn EXCEPT ![c] = i]
  /\ UNCHANGED <<store, claims, pool, chain, seen, again, faults, lost, crossed>>

\* The cookies of the old session were counted in between.
DropForImport(c) ==
  /\ pc[c] = "drop"
  /\ Forget(c, conn[c], "release")
  /\ UNCHANGED <<store, claims, chain, key, seen, again, faults, lost, crossed>>

ReleaseForImport(c) ==
  /\ pc[c] = "release"
  /\ Became(c, "store") /\ UNCHANGED key
  /\ GiveBack(c)

StoreImport(c) ==
  /\ pc[c] = "store"
  /\ SignedIn(c, key[c])
  /\ End(c)
  /\ UNCHANGED <<claims, pool, chain, conn, seen, again, faults, lost>>

StoreDesktop(c, k) ==
  /\ Start(c, k, "stored")
  /\ SignedIn(c, k)
  /\ UNCHANGED <<claims, pool, chain, conn, seen, again, faults, lost>>

\* The window's context is closed in between.
DropForDesktop(c) ==
  /\ pc[c] = "stored"
  /\ IF mapped[Slot(c)] = NoConn
       THEN End(c) /\ UNCHANGED <<pool, conn>>
       ELSE Forget(c, mapped[Slot(c)], "giveBack") /\ UNCHANGED key
  /\ UNCHANGED <<store, claims, chain, seen, again, faults, lost, crossed>>

ReleaseForDesktop(c) ==
  /\ pc[c] = "giveBack"
  /\ End(c)
  /\ GiveBack(c)

----------------------------------------------------------------------------
(* backupSessions: read an open context's session, then save it             *)

ReadForBackup(c, i) ==
  /\ context[i].state = "open" /\ context[i].worker = WorkerOf[c]
  /\ Start(c, context[i].key, "save")
  /\ seen' = [seen EXCEPT ![c] = context[i].session]
  /\ conn' = [conn EXCEPT ![c] = i]
  /\ UNCHANGED <<store, claims, pool, chain, again, faults, lost, crossed>>

SaveBackup(c) ==
  /\ pc[c] = "save"
  /\ blob' = [blob EXCEPT ![key[c]] = seen[c]]
  /\ crossed' = Crossing(key[c], c, conn[c])
  /\ seen' = [seen EXCEPT ![c] = 0]
  /\ conn' = [conn EXCEPT ![c] = NoConn]
  /\ End(c)
  /\ UNCHANGED <<newest, claims, pool, chain, again, faults, lost>>

\* The save of a backup or of an import throws: the backup goes on with the next connection,
\* the sign-in reports that it failed; the old session stands.
SaveFails(c) ==
  /\ pc[c] \in {"save", "store"}
  /\ seen' = [seen EXCEPT ![c] = 0]
  /\ conn' = [conn EXCEPT ![c] = NoConn]
  /\ End(c)
  /\ UNCHANGED <<store, claims, pool, chain, again, faults, lost, crossed>>

----------------------------------------------------------------------------
(* The claims' clock                                                       *)

\* renewProviderClaim, once a minute: it does not ask whether the claim has run out, only
\* whose it is; a timer that finds it gone stops.
Renew(w, k) ==
  /\ <<w, k>> \in renewing
  /\ IF claim[k].owner = w
       THEN ~claim[k].live /\ claim' = [claim EXCEPT ![k].live = TRUE] /\ UNCHANGED renewing
       ELSE renewing' = renewing \ {<<w, k>>} /\ UNCHANGED claim
  /\ UNCHANGED <<store, pool, calls, faults, lost, crossed>>

\* Five minutes without a renewal: nobody renews, or the worker stalls.
Lapse(k) ==
  LET w == claim[k].owner IN
  /\ claim[k].live
  /\ claim' = [claim EXCEPT ![k].live = FALSE]
  /\ IF <<w, k>> \in renewing THEN faults < MaxFaults /\ faults' = faults + 1 ELSE UNCHANGED faults
  /\ lost' = lost \cup JobsOn(w, k)
  /\ UNCHANGED <<store, renewing, pool, calls, crossed>>

----------------------------------------------------------------------------
(* Faults                                                                  *)

\* Chromium exits: every context is gone, what was not yet saved is lost, nothing is
\* renewed.  A job that drives a page fails at its next step, or opens it anew.
BrowserExits(w) ==
  /\ faults < MaxFaults /\ faults' = faults + 1
  /\ \E i \in Ids : context[i].worker = w
  /\ context' = [i \in Ids |->
       IF context[i].worker # w THEN context[i]
       ELSE IF context[i].state = "open" THEN Closed ELSE [context[i] EXCEPT !.state = "saved"]]
  /\ mapped' = [s \in Slots |-> IF s[1] = w THEN NoConn ELSE mapped[s]]
  /\ conn' = [c \in Calls |-> IF conn[c] \in Ids /\ context[conn[c]].worker = w
                                /\ context[conn[c]].state = "open" THEN NoConn ELSE conn[c]]
  /\ renewing' = {s \in renewing : s[1] # w}
  /\ UNCHANGED <<store, claim, chain, pc, key, seen, again, lost, crossed>>

\* The process dies.  Its successor is another owner; the claim stays until it runs out.
Crash(w) ==
  /\ faults < MaxFaults /\ faults' = faults + 1
  /\ LET mine(c) == WorkerOf[c] = w IN
       /\ pc' = [c \in Calls |-> IF mine(c) /\ pc[c] # "idle" THEN "done" ELSE pc[c]]
       /\ key' = [c \in Calls |-> IF mine(c) THEN AnyKey ELSE key[c]]
       /\ conn' = [c \in Calls |-> IF mine(c) THEN NoConn ELSE conn[c]]
       /\ seen' = [c \in Calls |-> IF mine(c) THEN 0 ELSE seen[c]]
       /\ again' = {c \in again : ~mine(c)}
       /\ lost' = {c \in lost : ~mine(c)}
  /\ context' = [i \in Ids |-> IF context[i].worker = w THEN Closed ELSE context[i]]
  /\ mapped' = [s \in Slots |-> IF s[1] = w THEN NoConn ELSE mapped[s]]
  /\ chain' = [s \in Slots |-> IF s[1] = w THEN <<>> ELSE chain[s]]
  /\ renewing' = {s \in renewing : s[1] # w}
  /\ claim' = [k \in Keys |-> IF claim[k].owner = w THEN [claim[k] EXCEPT !.owner = Gone] ELSE claim[k]]
  /\ UNCHANGED <<store, crossed>>

----------------------------------------------------------------------------
JobStep(c) ==
  \/ Begin(c) \/ Refused(c) \/ Resolve(c) \/ Room(c) \/ Evict(c) \/ GiveUp(c)
  \/ Load(c) \/ LoadUnreadable(c) \/ Open(c) \/ OpenFails(c) \/ Finish(c)
SealStep(i) == SealSave(i) \/ SealFails(i) \/ SealEnd(i)
ErrandStart(c) ==
  \/ \E k \in Keys : StartImport(c, k) \/ StoreDesktop(c, k)
  \/ \E i \in Ids : ReadForBackup(c, i)
ErrandStep(c) ==
  \/ DropForImport(c) \/ ReleaseForImport(c) \/ StoreImport(c)
  \/ DropForDesktop(c) \/ ReleaseForDesktop(c) \/ SaveBackup(c)
  \/ SaveFails(c)

Next ==
  \/ \E c \in Jobs, k \in Keys : Enqueue(c, k)
  \/ \E c \in Jobs : JobStep(c) \/ Rotate(c) \/ Reopen(c)
  \/ \E i \in Ids : Sweep(i) \/ Shutdown(i) \/ SealStep(i)
  \/ \E c \in Errands : ErrandStart(c) \/ ErrandStep(c)
  \/ \E w \in Workers, k \in Keys : Renew(w, k)
  \/ \E k \in Keys : Lapse(k)
  \/ \E w \in Workers : BrowserExits(w) \/ Crash(w)

Work == (\E c \in Jobs : JobStep(c)) \/ \E i \in Ids : SealStep(i)

Spec == Init /\ [][Next]_vars

\* Every await of a job and of a seal comes back, and a claim nobody renews runs out.
\* Nobody has to send a job, sign in, sweep or fail.
Fairness == WF_vars(Work)
FairSpec == Spec /\ Fairness

----------------------------------------------------------------------------
(* Properties                                                              *)

\* Jobs on one session take turns inside a worker, though connections are sealed, evicted
\* and opened anew beneath them (fleet.ts:455-495: the chain outlives the connection).
JobsTakeTurns ==
  \A c, d \in Jobs : c # d /\ UnderWay(c) /\ UnderWay(d) => Slot(c) # Slot(d)

\* Whoever drives a session holds its claim, unless the claim ran out beneath the job or
\* the worker itself gave it back while the job was under way (a seal or a sign-in that
\* ended late).  These are the only ways for two workers to drive one session.
DrivenByItsHolder ==
  \A c \in Jobs : UnderWay(c) /\ c \notin lost => claim[key[c]].owner = WorkerOf[c]

\* A saved session is never overwritten by an older one, unless a worker had opened a context
\* without it because it could not be read, or it had been saved while somebody else held it
\* too: a context opened while another is sealed, or open when a sign-in replaces the session,
\* or a backup overtaken by a seal.
SavedSessionStands ==
  [][\A k \in Keys : blob'[k] < blob[k] => k \in crossed]_vars

\* Every job that waits for its turn gets it and ends, or is refused.
EveryJobEnds == []<>(\A c \in Jobs : pc[c] \in {"idle", "done"})
============================================================================
