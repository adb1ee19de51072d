---------------------------- MODULE Fleet_proofs ----------------------------
(***************************************************************************)
(* Machine-checked facts about Fleet, for any workers, workspaces, jobs,   *)
(* sign-ins and backups and any bounds.                                    *)
(***************************************************************************)
EXTENDS FleetInv, TLAPS

USE CallsAssumption, LimitsAssumption, NamesAssumption DEF Calls, Slots, Session

----------------------------------------------------------------------------
(* Types *)

LEMMA SlotOfCall ==
  ASSUME TypeOK, NEW c \in Calls
  PROVE  /\ Slot(c) \in Slots /\ key[c] \in Keys /\ WorkerOf[c] \in Workers
         /\ conn[c] \in Ids \cup {NoConn} /\ seen[c] \in Session /\ pc[c] \in Places
         /\ mapped[Slot(c)] \in Ids \cup {NoConn}
BY DEF TypeOK, Slot

LEMMA InitTyped == Init => TypeOK
<1>. SUFFICES ASSUME Init PROVE TypeOK
  OBVIOUS
<1>1. AnyKey \in Keys BY DEF AnyKey
<1>2. NoConn \notin Ids /\ 0 \in Session OBVIOUS
<1>. QED BY <1>1, <1>2 DEF Init, TypeOK, Closed, Contexts, Places

\* What the steps of the map and the contexts must keep.
PoolTyped ==
  /\ context \in [Ids -> Contexts]
  /\ mapped \in [Slots -> Ids \cup {NoConn}]
  /\ \A s \in Slots : mapped[s] # NoConn =>
       context[mapped[s]].state = "open" /\ <<context[mapped[s]].worker, context[mapped[s]].key>> = s

CallsTyped ==
  /\ chain \in [Slots -> Seq(Jobs)]
  /\ pc \in [Calls -> Places] /\ key \in [Calls -> Keys]
  /\ conn \in [Calls -> Ids \cup {NoConn}] /\ seen \in [Calls -> Session]
  /\ again \in SUBSET Jobs

RestTyped ==
  /\ blob \in [Keys -> Session] /\ newest \in Session
  /\ claim \in [Keys -> [owner : Workers \cup {NoOne, Gone}, live : BOOLEAN]]
  /\ renewing \in SUBSET Slots
  /\ faults \in 0..MaxFaults
  /\ lost \in SUBSET Jobs /\ crossed \in SUBSET Keys

LEMMA TypedParts ==
  /\ TypeOK => PoolTyped /\ CallsTyped /\ RestTyped
  /\ PoolTyped' /\ CallsTyped' /\ RestTyped' => TypeOK'
BY DEF TypeOK, PoolTyped, CallsTyped, RestTyped

LEMMA CrossingTyped ==
  ASSUME TypeOK, NEW k \in Keys, NEW x, NEW i
  PROVE  Crossing(k, x, i) \in SUBSET Keys
BY DEF TypeOK, Crossing

\* What is not closed has a worker and a key.
LEMMA OpenContext ==
  ASSUME NEW x \in Contexts, x # Closed
  PROVE  /\ x.worker \in Workers /\ x.key \in Keys /\ x.session \in Session
         /\ x.state \in {"open", "sealing", "saved"} /\ x.busy \in BOOLEAN
         /\ \A b \in BOOLEAN : [x EXCEPT !.busy = b] \in Contexts
         /\ \A n \in Session : [x EXCEPT !.session = n] \in Contexts
         /\ [x EXCEPT !.state = "sealing"] \in Contexts /\ [x EXCEPT !.state = "saved"] \in Contexts
         /\ DOMAIN x = {"worker", "key", "session", "state", "busy"}
BY DEF Contexts

LEMMA NotClosed ==
  ASSUME TypeOK, NEW i \in Ids, context[i].state # "closed"
  PROVE  context[i] \in Contexts /\ context[i] # Closed
BY DEF TypeOK, Closed

LEMMA UnmapTyped ==
  ASSUME TypeOK, NEW i \in Ids, context[i].state = "open", Unmap(i)
  PROVE  PoolTyped'
<1>2. [context[i] EXCEPT !.state = "sealing"] \in Contexts BY NotClosed, OpenContext
<1>3. context' \in [Ids -> Contexts] BY <1>2 DEF Unmap, TypeOK
<1>4. mapped' \in [Slots -> Ids \cup {NoConn}] BY DEF Unmap, TypeOK
<1>5. ASSUME NEW s \in Slots, mapped'[s] # NoConn
      PROVE  /\ context'[mapped'[s]].state = "open"
             /\ <<context'[mapped'[s]].worker, context'[mapped'[s]].key>> = s
  <2>1. mapped[s] # i /\ mapped'[s] = mapped[s] BY <1>5 DEF Unmap, TypeOK
  <2>2. mapped[s] \in Ids BY <1>5, <2>1 DEF TypeOK
  <2>3. context'[mapped[s]] = context[mapped[s]] BY <2>1, <2>2 DEF Unmap, TypeOK
  <2>. QED BY <1>5, <2>1, <2>3 DEF TypeOK
<1>. QED BY <1>3, <1>4, <1>5 DEF PoolTyped

LEMMA UnmapKeepsContexts ==
  ASSUME TypeOK, NEW i \in Ids, context[i].state = "open", Unmap(i)
  PROVE  \A j \in Ids : /\ Running(j) => Running(j)'
                        /\ context'[j].worker = context[j].worker
                        /\ context'[j].key = context[j].key
                        /\ context'[j].session = context[j].session
<1>1. DOMAIN context[i] = {"worker", "key", "session", "state", "busy"} BY NotClosed, OpenContext
<1>. QED BY <1>1 DEF Unmap, TypeOK, Running

\* A context may change its session and be busy or not, if it is not closed.
LEMMA EditTyped ==
  ASSUME TypeOK, NEW i \in Ids, context[i].state # "closed", UNCHANGED mapped,
         NEW x, context' = [context EXCEPT ![i] = x],
         \/ \E b \in BOOLEAN : x = [context[i] EXCEPT !.busy = b]
         \/ \E n \in Session : x = [context[i] EXCEPT !.session = n]
  PROVE  /\ PoolTyped'
         /\ \A j \in Ids : /\ context'[j].state = context[j].state
                           /\ context'[j].worker = context[j].worker
                           /\ context'[j].key = context[j].key
<1>1. x \in Contexts
  <2>1. context[i] \in Contexts /\ context[i] # Closed BY NotClosed
  <2>2. /\ \A b \in BOOLEAN : [context[i] EXCEPT !.busy = b] \in Contexts
        /\ \A n \in Session : [context[i] EXCEPT !.session = n] \in Contexts
    BY <2>1, OpenContext
  <2>. QED BY <2>2
<1>2. context' \in [Ids -> Contexts] BY <1>1 DEF TypeOK
<1>3. DOMAIN context[i] = {"worker", "key", "session", "state", "busy"} BY NotClosed, OpenContext
<1>4. x.state = context[i].state /\ x.worker = context[i].worker /\ x.key = context[i].key
  BY <1>3
<1>5. ASSUME NEW j \in Ids
      PROVE  /\ context'[j].state = context[j].state
             /\ context'[j].worker = context[j].worker /\ context'[j].key = context[j].key
  BY <1>4 DEF TypeOK
<1>. QED BY <1>2, <1>5 DEF PoolTyped, TypeOK

LEMMA LeaveTyped ==
  ASSUME TypeOK, NEW c \in Jobs, Leave(c), chain[Slot(c)] # <<>>
  PROVE  CallsTyped' /\ lost' \in SUBSET Jobs
<1>1. AnyKey \in Keys BY DEF AnyKey
<1>2. Slot(c) \in Slots BY SlotOfCall
<1>3. chain' \in [Slots -> Seq(Jobs)] BY <1>2 DEF TypeOK, Leave
<1>. QED BY <1>1, <1>3 DEF TypeOK, Leave, CallsTyped, Places

\* Calls keep the contexts they hold, as long as these are there.
LEMMA ConnKept ==
  ASSUME TypeOK, ConnIsThere,
         \A i \in Ids : Running(i) => /\ Running(i)' /\ context'[i].worker = context[i].worker
                                      /\ context'[i].key = context[i].key,
         \A c \in Calls : conn'[c] \in {conn[c], NoConn},
         \A c \in Errands : conn'[c] # NoConn => key'[c] = key[c] /\ pc'[c] = pc[c]
  PROVE  ConnIsThere'
<1>. SUFFICES ASSUME NEW c \in Calls, conn'[c] # NoConn
              PROVE  /\ context'[conn'[c]].state # "closed" /\ context'[conn'[c]].worker = WorkerOf[c]
                     /\ c \in Errands => context'[conn'[c]].key = key'[c] /\ pc'[c] \in {"drop", "save"}
  BY DEF ConnIsThere, Running
<1>1. conn'[c] = conn[c] /\ conn[c] \in Ids BY DEF TypeOK
<1>2. /\ Running(conn[c]) /\ context[conn[c]].worker = WorkerOf[c]
      /\ c \in Errands => context[conn[c]].key = key[c] /\ pc[c] \in {"drop", "save"}
  BY <1>1 DEF ConnIsThere
<1>. QED BY <1>1, <1>2 DEF Running

\* A call takes up a context of its own.
LEMMA ConnGiven ==
  ASSUME TypeOK, ConnIsThere, NEW c \in Calls, NEW i \in Ids, conn' = [conn EXCEPT ![c] = i],
         context'[i].state # "closed", context'[i].worker = WorkerOf[c],
         c \in Errands => context'[i].key = key'[c] /\ pc'[c] \in {"drop", "save"},
         \A j \in Ids : Running(j) => /\ Running(j)' /\ context'[j].worker = context[j].worker
                                      /\ context'[j].key = context[j].key,
         \A d \in Errands \ {c} : key'[d] = key[d] /\ pc'[d] = pc[d]
  PROVE  ConnIsThere'
<1>. SUFFICES ASSUME NEW d \in Calls, conn'[d] # NoConn
              PROVE  /\ context'[conn'[d]].state # "closed" /\ context'[conn'[d]].worker = WorkerOf[d]
                     /\ d \in Errands => context'[conn'[d]].key = key'[d] /\ pc'[d] \in {"drop", "save"}
  BY DEF ConnIsThere, Running
<1>1. CASE d = c BY <1>1 DEF TypeOK
<1>2. CASE d # c
  <2>1. conn'[d] = conn[d] /\ conn[d] \in Ids BY <1>2 DEF TypeOK
  <2>2. /\ Running(conn[d]) /\ context[conn[d]].worker = WorkerOf[d]
        /\ d \in Errands => context[conn[d]].key = key[d] /\ pc[d] \in {"drop", "save"}
    BY <2>1 DEF ConnIsThere
  <2>. QED BY <1>2, <2>1, <2>2 DEF Running
<1>. QED BY <1>1, <1>2

----------------------------------------------------------------------------
(* Turns *)

Base == TypeOK /\ FirstHasTurn /\ ConnIsThere

\* A step that moves no job into its turn and no chain keeps the turns.
LEMMA TurnsKept ==
  ASSUME TypeOK, FirstHasTurn, UNCHANGED chain,
         \A c \in Jobs : UnderWay(c)' => UnderWay(c) /\ key'[c] = key[c]
  PROVE  FirstHasTurn'
BY DEF FirstHasTurn, Slot

LEMMA JobKeepsTurns ==
  ASSUME TypeOK, FirstHasTurn, NEW c \in Jobs, pc[c] # "idle", pc[c] # "queued", pc[c] # "done",
         UNCHANGED <<chain, key>>, NEW q \in Places, pc' = [pc EXCEPT ![c] = q]
  PROVE  FirstHasTurn'
<1>. SUFFICES ASSUME NEW d \in Jobs, UnderWay(d)' PROVE UnderWay(d)
  BY TurnsKept
<1>. QED BY DEF UnderWay, TypeOK

LEMMA SameTurns ==
  ASSUME TypeOK, FirstHasTurn, UNCHANGED <<chain, key, pc>>
  PROVE  FirstHasTurn'
<1>. SUFFICES ASSUME NEW d \in Jobs, UnderWay(d)' PROVE UnderWay(d)
  BY TurnsKept
<1>. QED BY DEF UnderWay

LEMMA EnqueueTurns ==
  ASSUME Base, NEW c \in Jobs, NEW k \in Keys, Enqueue(c, k)
  PROVE  Base'
<1>. USE DEF Base
<1>. DEFINE t == <<WorkerOf[c], k>>
<1>1. t \in Slots OBVIOUS
<1>2. chain' = [chain EXCEPT ![t] = Append(@, c)] BY DEF Enqueue
<1>3. chain' \in [Slots -> Seq(Jobs)] BY <1>1, <1>2 DEF TypeOK
<1>4. TypeOK' BY <1>3 DEF Enqueue, TypeOK, store, claims, pool, Places
<1>5. ASSUME NEW d \in Jobs, UnderWay(d)'
      PROVE  (chain[Slot(d)] # <<>> /\ Head(chain[Slot(d)]) = d)'
  <2>1. d # c BY <1>5 DEF Enqueue, UnderWay, TypeOK
  <2>2. UnderWay(d) /\ key'[d] = key[d] BY <1>5, <2>1 DEF Enqueue, UnderWay, TypeOK
  <2>3. chain[Slot(d)] # <<>> /\ Head(chain[Slot(d)]) = d BY <2>2 DEF FirstHasTurn
  <2>4. Slot(d)' = Slot(d) /\ Slot(d) \in Slots BY <2>2, SlotOfCall DEF Slot
  <2>5. chain[Slot(d)] \in Seq(Jobs) BY <2>4 DEF TypeOK
  <2>6. CASE Slot(d) = t
    <3>1. chain'[Slot(d)] = Append(chain[Slot(d)], c) BY <1>2, <1>1, <2>6 DEF TypeOK
    <3>. QED BY <3>1, <2>3, <2>4, <2>5
  <2>7. CASE Slot(d) # t
    <3>1. chain'[Slot(d)] = chain[Slot(d)] BY <1>2, <2>4, <2>7 DEF TypeOK
    <3>. QED BY <3>1, <2>3, <2>4
  <2>. QED BY <2>6, <2>7
<1>6. ConnIsThere' BY ConnKept DEF Enqueue, pool, Running
<1>. QED BY <1>4, <1>5, <1>6 DEF FirstHasTurn

LEMMA LeaveTurns ==
  ASSUME TypeOK, FirstHasTurn, NEW c \in Jobs, Leave(c),
         chain[Slot(c)] # <<>>, Head(chain[Slot(c)]) = c
  PROVE  FirstHasTurn'
<1>1. ASSUME NEW d \in Jobs, UnderWay(d)'
      PROVE  (chain[Slot(d)] # <<>> /\ Head(chain[Slot(d)]) = d)'
  <2>1. d # c BY <1>1 DEF Leave, UnderWay, TypeOK
  <2>2. UnderWay(d) /\ key'[d] = key[d] BY <1>1, <2>1 DEF Leave, UnderWay, TypeOK
  <2>3. chain[Slot(d)] # <<>> /\ Head(chain[Slot(d)]) = d BY <2>2 DEF FirstHasTurn
  <2>4. Slot(d)' = Slot(d) /\ Slot(d) \in Slots BY <2>2, SlotOfCall DEF Slot
  <2>5. Slot(d) # Slot(c) BY <2>1, <2>3
  <2>6. chain'[Slot(d)] = chain[Slot(d)] BY <2>4, <2>5 DEF Leave, TypeOK
  <2>. QED BY <2>3, <2>4, <2>6
<1>. QED BY <1>1 DEF FirstHasTurn

LEMMA FirstOfChain ==
  ASSUME FirstHasTurn, NEW c \in Jobs, pc[c] # "idle", pc[c] # "queued", pc[c] # "done"
  PROVE  chain[Slot(c)] # <<>> /\ Head(chain[Slot(c)]) = c
BY DEF FirstHasTurn, UnderWay

\* A step after which the job is gone.
LEMMA LeaveKeepsBase ==
  ASSUME Base, NEW c \in Jobs, Leave(c), chain[Slot(c)] # <<>>, Head(chain[Slot(c)]) = c,
         PoolTyped', UNCHANGED <<store, claims, faults, crossed>>,
         \A i \in Ids : /\ context'[i].state = context[i].state
                        /\ context'[i].worker = context[i].worker /\ context'[i].key = context[i].key
  PROVE  Base'
<1>1. CallsTyped' /\ lost' \in SUBSET Jobs BY LeaveTyped DEF Base
<1>2. RestTyped' BY <1>1, TypedParts DEF Base, RestTyped, store, claims
<1>3. FirstHasTurn' BY LeaveTurns DEF Base
<1>4. ConnIsThere' BY ConnKept DEF Leave, Running, Base, TypeOK
<1>. QED BY <1>1, <1>2, <1>3, <1>4, TypedParts DEF Base

LEMMA JobTurns ==
  ASSUME Base, NEW c \in Jobs, JobStep(c) \/ Rotate(c) \/ Reopen(c)
  PROVE  Base'
<1>. USE DEF store, claims, pool, Base
<1>0. c \in Calls OBVIOUS
<1>1. CASE Begin(c)
  <2>1. Slot(c) \in Slots /\ key[c] \in Keys BY SlotOfCall
  <2>2. TypeOK' BY <1>1, <2>1 DEF Begin, TypeOK, Places
  <2>3. ASSUME NEW d \in Jobs, UnderWay(d)'
        PROVE  chain[Slot(d)] # <<>> /\ Head(chain[Slot(d)]) = d
    <3>1. CASE d = c BY <1>1, <3>1 DEF Begin, HasTurn
    <3>2. CASE d # c
      <4>1. UnderWay(d) BY <1>1, <2>3, <3>2 DEF Begin, UnderWay, TypeOK
      <4>. QED BY <4>1 DEF FirstHasTurn
    <3>. QED BY <3>1, <3>2
  <2>4. FirstHasTurn' BY <1>1, <2>3 DEF Begin, FirstHasTurn, Slot
  <2>5. ConnIsThere' BY <1>1, ConnKept DEF Begin, Running
  <2>. QED BY <2>2, <2>4, <2>5
<1>2. CASE Refused(c)
  <2>1. chain[Slot(c)] # <<>> /\ Head(chain[Slot(c)]) = c BY <1>2 DEF Refused, HasTurn
  <2>2. PoolTyped' BY <1>2, TypedParts DEF Refused, PoolTyped
  <2>. QED BY <1>2, <2>1, <2>2, LeaveKeepsBase DEF Refused
<1>3. CASE Resolve(c)
  <2>1. mapped[Slot(c)] \in Ids \cup {NoConn} /\ Slot(c) \in Slots BY SlotOfCall
  <2>2. CASE mapped[Slot(c)] = NoConn
    <3>1. TypeOK' BY <1>3, <2>2 DEF Resolve, TypeOK, Places
    <3>2. FirstHasTurn' BY <1>3, <2>2, JobKeepsTurns DEF Resolve, Places
    <3>3. ConnIsThere' BY <1>3, <2>2, ConnKept DEF Resolve, Running, TypeOK
    <3>. QED BY <3>1, <3>2, <3>3
  <2>3. CASE mapped[Slot(c)] # NoConn
    <3>. DEFINE i == mapped[Slot(c)]
    <3>1. /\ pc' = [pc EXCEPT ![c] = "work"]
          /\ conn' = [conn EXCEPT ![c] = i]
          /\ context' = [context EXCEPT ![i] = [context[i] EXCEPT !.busy = TRUE]]
      BY <1>3, <2>3 DEF Resolve
    <3>2. FirstHasTurn' BY <1>3, <3>1, JobKeepsTurns DEF Resolve, Places
    <3>3. i \in Ids /\ context[i].state = "open" /\ context[i].worker = WorkerOf[c]
      BY <2>1, <2>3 DEF TypeOK, Slot
    <3>4. /\ PoolTyped'
          /\ \A j \in Ids : /\ context'[j].state = context[j].state
                            /\ context'[j].worker = context[j].worker
                            /\ context'[j].key = context[j].key
      BY <1>3, <3>1, <3>3, EditTyped DEF Resolve
    <3>5. CallsTyped' BY <1>3, <2>1, <3>1, <3>3 DEF Resolve, CallsTyped, TypeOK, Places
    <3>6. RestTyped' BY <1>3 DEF Resolve, RestTyped, TypeOK
    <3>7. ConnIsThere'
      <4>1. context'[i].state # "closed" /\ context'[i].worker = WorkerOf[c] BY <3>3, <3>4
      <4>2. \A j \in Ids : Running(j) => Running(j)' BY <3>4 DEF Running
      <4>3. \A d \in Errands : pc'[d] = pc[d] /\ key'[d] = key[d] BY <1>3, <3>1 DEF Resolve, TypeOK
      <4>. QED BY <3>1, <3>3, <3>4, <4>1, <4>2, <4>3, ConnGiven
    <3>. QED BY <3>2, <3>4, <3>5, <3>6, <3>7, TypedParts
  <2>. QED BY <2>2, <2>3
<1>4. CASE Room(c)
  <2>1. TypeOK' BY <1>4 DEF Room, TypeOK, Places
  <2>2. FirstHasTurn' BY <1>4, JobKeepsTurns DEF Room, Places
  <2>3. ConnIsThere' BY <1>4, ConnKept DEF Room, Running
  <2>. QED BY <2>1, <2>2, <2>3
<1>5. CASE Evict(c)
  <2>1. PICK i \in Evictable(c) : Unmap(i) /\ conn' = [conn EXCEPT ![c] = i] BY <1>5 DEF Evict
  <2>2. i \in Ids /\ context[i].state = "open" /\ context[i].worker = WorkerOf[c]
    BY DEF Evictable, Idle
  <2>3. PoolTyped' BY <2>1, <2>2, UnmapTyped
  <2>4. CallsTyped' BY <1>5, <2>1, <2>2 DEF Evict, CallsTyped, TypeOK, Places
  <2>5. RestTyped' BY <1>5 DEF Evict, RestTyped, TypeOK
  <2>6. FirstHasTurn' BY <1>5, JobKeepsTurns DEF Evict, Places
  <2>7. ConnIsThere'
    <3>1. \A j \in Ids : Running(j) => /\ Running(j)' /\ context'[j].worker = context[j].worker
                                 /\ context'[j].key = context[j].key
      BY <2>1, <2>2, UnmapKeepsContexts
    <3>2. context'[i].state # "closed" /\ context'[i].worker = WorkerOf[c]
      BY <2>2, <3>1 DEF Running
    <3>3. \A d \in Errands : pc'[d] = pc[d] /\ key'[d] = key[d] BY <1>5 DEF Evict, TypeOK
    <3>. QED BY <2>1, <2>2, <3>1, <3>2, <3>3, ConnGiven
  <2>. QED BY <2>3, <2>4, <2>5, <2>6, <2>7, TypedParts
<1>6. CASE GiveUp(c)
  <2>1. chain[Slot(c)] # <<>> /\ Head(chain[Slot(c)]) = c BY <1>6, FirstOfChain DEF GiveUp
  <2>2. PoolTyped' BY <1>6, TypedParts DEF GiveUp, PoolTyped
  <2>. QED BY <1>6, <2>1, <2>2, LeaveKeepsBase DEF GiveUp
<1>7. CASE Load(c)
  <2>1. key[c] \in Keys BY SlotOfCall
  <2>2. TypeOK' BY <1>7, <2>1 DEF Load, TypeOK, Places
  <2>3. FirstHasTurn' BY <1>7, JobKeepsTurns DEF Load, Places
  <2>4. ConnIsThere' BY <1>7, ConnKept DEF Load, Running
  <2>. QED BY <2>2, <2>3, <2>4
<1>8. CASE Open(c)
  <2>1. PICK i \in Ids :
          /\ ~Running(i)
          /\ context' = [context EXCEPT ![i] =
               [worker |-> WorkerOf[c], key |-> key[c], session |-> seen[c],
                state |-> "open", busy |-> c \notin again]]
          /\ mapped' = [mapped EXCEPT ![Slot(c)] = i]
          /\ conn' = [conn EXCEPT ![c] = i]
    BY <1>8 DEF Open
  <2>. DEFINE new == [worker |-> WorkerOf[c], key |-> key[c], session |-> seen[c],
                      state |-> "open", busy |-> c \notin again]
  <2>2. new \in Contexts BY SlotOfCall DEF Contexts
  <2>3. context' \in [Ids -> Contexts] BY <2>1, <2>2 DEF TypeOK
  <2>4. Slot(c) \in Slots /\ Slot(c) = <<WorkerOf[c], key[c]>> BY SlotOfCall DEF Slot
  <2>5. mapped' \in [Slots -> Ids \cup {NoConn}] BY <2>1, <2>4 DEF TypeOK
  <2>6. ASSUME NEW s \in Slots, mapped'[s] # NoConn
        PROVE  /\ context'[mapped'[s]].state = "open"
               /\ <<context'[mapped'[s]].worker, context'[mapped'[s]].key>> = s
    <3>1. CASE s = Slot(c)
      <4>1. mapped'[s] = i /\ context'[i] = new BY <2>1, <2>4, <3>1 DEF TypeOK
      <4>. QED BY <4>1, <2>4, <3>1
    <3>2. CASE s # Slot(c)
      <4>1. mapped'[s] = mapped[s] BY <2>1, <2>4, <3>2 DEF TypeOK
      <4>2. context[mapped[s]].state = "open" /\ mapped[s] \in Ids BY <4>1, <2>6 DEF TypeOK
      <4>3. mapped[s] # i BY <4>2, <2>1 DEF Running
      <4>4. context'[mapped[s]] = context[mapped[s]] BY <2>1, <4>2, <4>3 DEF TypeOK
      <4>. QED BY <4>1, <4>4, <2>6 DEF TypeOK
    <3>. QED BY <3>1, <3>2
  <2>7. PoolTyped' BY <2>3, <2>5, <2>6 DEF PoolTyped
  <2>8. CallsTyped' BY <1>8, <2>1 DEF Open, CallsTyped, TypeOK, Places
  <2>9. RestTyped' BY <1>8 DEF Open, RestTyped, TypeOK
  <2>10. FirstHasTurn' BY <1>8, JobKeepsTurns DEF Open, Places
  <2>11. ConnIsThere'
    <3>1. context'[i].state = "open" /\ context'[i].worker = WorkerOf[c] BY <2>1 DEF TypeOK
    <3>2. \A j \in Ids : Running(j) => context'[j] = context[j] BY <2>1 DEF TypeOK
    <3>3. \A j \in Ids : Running(j) => Running(j)' BY <3>2 DEF Running
    <3>4. \A d \in Errands : pc'[d] = pc[d] /\ key'[d] = key[d] BY <1>8 DEF Open, TypeOK
    <3>. QED BY <2>1, <3>1, <3>2, <3>3, <3>4, ConnGiven
  <2>. QED BY <2>7, <2>8, <2>9, <2>10, <2>11, TypedParts
<1>9. CASE OpenFails(c)
  <2>1. chain[Slot(c)] # <<>> /\ Head(chain[Slot(c)]) = c BY <1>9, FirstOfChain DEF OpenFails
  <2>2. PoolTyped' BY <1>9, TypedParts DEF OpenFails, PoolTyped
  <2>. QED BY <1>9, <2>1, <2>2, LeaveKeepsBase DEF OpenFails
<1>10. CASE Finish(c)
  <2>1. chain[Slot(c)] # <<>> /\ Head(chain[Slot(c)]) = c BY <1>10, FirstOfChain DEF Finish
  <2>2. CASE conn[c] = NoConn
    <3>1. PoolTyped' BY <1>10, <2>2, TypedParts DEF Finish, PoolTyped
    <3>. QED BY <1>10, <2>1, <2>2, <3>1, LeaveKeepsBase DEF Finish
  <2>3. CASE conn[c] # NoConn
    <3>. DEFINE i == conn[c]
    <3>1. i \in Ids /\ context[i].state # "closed" BY <2>3, SlotOfCall DEF ConnIsThere, Running
    <3>2. context' = [context EXCEPT ![i] = [context[i] EXCEPT !.busy = FALSE]] /\ mapped' = mapped
      BY <1>10, <2>3 DEF Finish
    <3>3. /\ PoolTyped'
          /\ \A j \in Ids : /\ context'[j].state = context[j].state
                            /\ context'[j].worker = context[j].worker
                            /\ context'[j].key = context[j].key
      BY <3>1, <3>2, EditTyped
    <3>. QED BY <1>10, <2>1, <3>3, LeaveKeepsBase DEF Finish
  <2>. QED BY <2>2, <2>3
<1>11. CASE Rotate(c)
  <2>. DEFINE i == conn[c]
  <2>1. i \in Ids /\ newest + 1 \in Session /\ context[i].state # "closed"
    BY <1>11, SlotOfCall DEF Rotate, TypeOK, ConnIsThere, Running
  <2>2. context' = [context EXCEPT ![i] = [context[i] EXCEPT !.session = newest + 1]] /\ mapped' = mapped
    BY <1>11 DEF Rotate
  <2>3. /\ PoolTyped'
        /\ \A j \in Ids : /\ context'[j].state = context[j].state
                          /\ context'[j].worker = context[j].worker
                          /\ context'[j].key = context[j].key
    BY <2>1, <2>2, EditTyped
  <2>4. CallsTyped' BY <1>11, TypedParts DEF Rotate, CallsTyped, calls
  <2>5. RestTyped' BY <1>11, <2>1, TypedParts DEF Rotate, RestTyped
  <2>6. FirstHasTurn' BY <1>11, SameTurns DEF Rotate, calls
  <2>7. ConnIsThere' BY <1>11, <2>3, ConnKept DEF Rotate, calls, Running
  <2>. QED BY <2>3, <2>4, <2>5, <2>6, <2>7, TypedParts
<1>12. CASE Reopen(c)
  <2>1. TypeOK' BY <1>12 DEF Reopen, TypeOK, Places
  <2>2. FirstHasTurn' BY <1>12, JobKeepsTurns DEF Reopen, Places
  <2>3. ConnIsThere' BY <1>12, ConnKept DEF Reopen, Running, TypeOK
  <2>. QED BY <2>1, <2>2, <2>3
<1>13. CASE LoadUnreadable(c)
  <2>1. faults' \in 0..MaxFaults BY <1>13 DEF LoadUnreadable, TypeOK
  <2>2. key[c] \in Keys /\ 0 \in Session BY SlotOfCall
  <2>3. TypeOK' BY <1>13, <2>1, <2>2 DEF LoadUnreadable, TypeOK, Places
  <2>4. FirstHasTurn' BY <1>13, JobKeepsTurns DEF LoadUnreadable, Places
  <2>5. ConnIsThere' BY <1>13, ConnKept DEF LoadUnreadable, Running
  <2>. QED BY <2>3, <2>4, <2>5
<1>. QED BY <1>1, <1>2, <1>3, <1>4, <1>5, <1>6, <1>7, <1>8, <1>9, <1>10, <1>11, <1>12, <1>13
     DEF JobStep

LEMMA ClosedTyped == Closed \in Contexts
BY DEF Contexts

\* Contexts that are in no map may be closed or move on to their end.
LEMMA OffMapTyped ==
  ASSUME TypeOK, UNCHANGED mapped, context' \in [Ids -> Contexts],
         \A j \in Ids : context[j].state = "open" => context'[j] = context[j]
  PROVE  PoolTyped'
<1>1. ASSUME NEW s \in Slots, mapped[s] # NoConn
      PROVE  /\ context'[mapped[s]].state = "open"
             /\ <<context'[mapped[s]].worker, context'[mapped[s]].key>> = s
  <2>1. mapped[s] \in Ids /\ context[mapped[s]].state = "open" BY <1>1 DEF TypeOK
  <2>. QED BY <1>1, <2>1 DEF TypeOK
<1>. QED BY <1>1 DEF PoolTyped, TypeOK

LEMMA ReleaseTyped ==
  ASSUME TypeOK, NEW w \in Workers, NEW k \in Keys, ReleaseClaim(w, k)
  PROVE  /\ claim' \in [Keys -> [owner : Workers \cup {NoOne, Gone}, live : BOOLEAN]]
         /\ renewing' \in SUBSET Slots /\ lost' \in SUBSET Jobs
BY DEF TypeOK, ReleaseClaim, GivenUp, JobsOn

LEMMA SealTurns ==
  ASSUME Base, NEW i \in Ids, Sweep(i) \/ Shutdown(i) \/ SealStep(i)
  PROVE  Base'
<1>. USE DEF Base
<1>1. CASE Sweep(i) \/ Shutdown(i)
  <2>1. context[i].state = "open" /\ Unmap(i) BY <1>1 DEF Sweep, Shutdown, Idle
  <2>2. PoolTyped' BY <2>1, UnmapTyped
  <2>3. CallsTyped' BY <1>1, TypedParts DEF Sweep, Shutdown, CallsTyped, calls
  <2>4. RestTyped'
    <3>1. faults' \in 0..MaxFaults BY <1>1 DEF Sweep, Shutdown, TypeOK
    <3>. QED BY <1>1, <3>1, TypedParts DEF Sweep, Shutdown, RestTyped, store, claims
  <2>5. FirstHasTurn' BY <1>1, SameTurns DEF Sweep, Shutdown, calls
  <2>6. \A j \in Ids : Running(j) => /\ Running(j)' /\ context'[j].worker = context[j].worker
                                 /\ context'[j].key = context[j].key
    BY <2>1, UnmapKeepsContexts
  <2>7. ConnIsThere' BY <1>1, <2>6, ConnKept DEF Sweep, Shutdown, calls
  <2>. QED BY <2>2, <2>3, <2>4, <2>5, <2>7, TypedParts
<1>2. CASE SealSave(i) \/ SealFails(i)
  <2>1. context[i].state = "sealing" /\ context' = [context EXCEPT ![i] = [context[i] EXCEPT !.state = "saved"]]
    BY <1>2 DEF SealSave, SealFails
  <2>2. context[i] \in Contexts /\ context[i] # Closed BY <2>1, NotClosed
  <2>3. /\ [context[i] EXCEPT !.state = "saved"] \in Contexts
        /\ DOMAIN context[i] = {"worker", "key", "session", "state", "busy"}
        /\ context[i].key \in Keys /\ context[i].session \in Session
    BY <2>2, OpenContext
  <2>4. context' \in [Ids -> Contexts] BY <2>1, <2>3 DEF TypeOK
  <2>5. PoolTyped'
    <3>1. \A j \in Ids : context[j].state = "open" => context'[j] = context[j]
      BY <2>1 DEF TypeOK
    <3>. QED BY <1>2, <2>4, <3>1, OffMapTyped DEF SealSave, SealFails
  <2>6. CallsTyped' BY <1>2, TypedParts DEF SealSave, SealFails, CallsTyped, calls
  <2>7. RestTyped'
    <3>1. CASE SealSave(i)
      <4>1. crossed' \in SUBSET Keys BY <2>3, <3>1, CrossingTyped DEF SealSave
      <4>. QED BY <2>3, <3>1, <4>1 DEF SealSave, RestTyped, claims, TypeOK
    <3>2. CASE SealFails(i) BY <3>2 DEF SealFails, RestTyped, store, claims, TypeOK
    <3>. QED BY <1>2, <3>1, <3>2
  <2>8. FirstHasTurn' BY <1>2, SameTurns DEF SealSave, SealFails, calls
  <2>9. \A j \in Ids : Running(j) => /\ Running(j)' /\ context'[j].worker = context[j].worker
                                 /\ context'[j].key = context[j].key
    BY <2>1, <2>3 DEF Running, TypeOK
  <2>10. ConnIsThere' BY <1>2, <2>9, ConnKept DEF SealSave, SealFails, calls
  <2>. QED BY <2>5, <2>6, <2>7, <2>8, <2>10, TypedParts
<1>3. CASE SealEnd(i)
  <2>1. context[i].state = "saved" /\ context' = [context EXCEPT ![i] = Closed] BY <1>3 DEF SealEnd
  <2>2. context[i].worker \in Workers /\ context[i].key \in Keys
    BY <2>1, NotClosed, OpenContext
  <2>3. PoolTyped'
    <3>1. context' \in [Ids -> Contexts] BY <2>1, ClosedTyped DEF TypeOK
    <3>2. \A j \in Ids : context[j].state = "open" => context'[j] = context[j]
      BY <2>1 DEF TypeOK
    <3>. QED BY <1>3, <3>1, <3>2, OffMapTyped DEF SealEnd
  <2>4. CallsTyped' BY <1>3 DEF SealEnd, CallsTyped, TypeOK, Places
  <2>5. RestTyped' BY <1>3, <2>2, ReleaseTyped DEF SealEnd, RestTyped, store, TypeOK
  <2>6. FirstHasTurn'
    <3>. SUFFICES ASSUME NEW d \in Jobs, UnderWay(d)' PROVE UnderWay(d)
      BY <1>3, TurnsKept DEF SealEnd
    <3>. QED BY <1>3 DEF SealEnd, UnderWay, TypeOK
  <2>7. ConnIsThere'
    <3>1. ASSUME NEW d \in Calls, conn'[d] # NoConn
          PROVE  /\ context'[conn'[d]].state # "closed" /\ context'[conn'[d]].worker = WorkerOf[d]
                 /\ d \in Errands => context'[conn'[d]].key = key'[d] /\ pc'[d] \in {"drop", "save"}
      <4>1. conn'[d] = conn[d] /\ conn[d] # i /\ conn[d] \in Ids BY <1>3, <3>1 DEF SealEnd, TypeOK
      <4>2. context'[conn[d]] = context[conn[d]] BY <2>1, <4>1 DEF TypeOK
      <4>. QED BY <1>3, <3>1, <4>1, <4>2 DEF ConnIsThere, Running, SealEnd
    <3>. QED BY <3>1 DEF ConnIsThere, Running
  <2>. QED BY <2>3, <2>4, <2>5, <2>6, <2>7, TypedParts
<1>. QED BY <1>1, <1>2, <1>3 DEF SealStep


\* What an errand does leaves the turns of the jobs alone.
LEMMA ErrandTurns ==
  ASSUME Base, NEW c \in Errands, UNCHANGED chain, \A d \in Jobs : key'[d] = key[d],
         \A d \in Jobs : pc'[d] = pc[d] \/ (pc[d] = "evict" /\ pc'[d] = "slot")
  PROVE  FirstHasTurn'
<1>. SUFFICES ASSUME NEW d \in Jobs, UnderWay(d)' PROVE UnderWay(d)
  BY TurnsKept DEF Base
<1>. QED BY DEF UnderWay

\* The map forgets the slot of c, and i, which no other slot has, is closed.
LEMMA ForgetKeeps ==
  ASSUME Base, NEW c \in Errands, NEW i \in Ids \cup {NoConn}, NEW q \in Places, Forget(c, i, q),
         i # NoConn => <<context[i].worker, context[i].key>> = Slot(c),
         UNCHANGED chain, \A d \in Calls \ {c} : key'[d] = key[d], conn[c] \in {i, NoConn}
  PROVE  /\ PoolTyped' /\ FirstHasTurn' /\ ConnIsThere'
         /\ pc' \in [Calls -> Places] /\ conn' \in [Calls -> Ids \cup {NoConn}]
<1>. USE DEF Base
<1>0. c \in Calls /\ Slot(c) \in Slots BY SlotOfCall
<1>1. /\ mapped' = [mapped EXCEPT ![Slot(c)] = NoConn]
      /\ conn' = [d \in Calls |-> IF conn[d] = i THEN NoConn ELSE conn[d]]
      /\ pc' = [d \in Calls |-> IF d = c THEN q
                                ELSE IF pc[d] = "evict" /\ conn[d] = i THEN "slot" ELSE pc[d]]
  BY DEF Forget
<1>2. context' \in [Ids -> Contexts] BY ClosedTyped DEF Forget, TypeOK
<1>3. \A j \in Ids : j # i => context'[j] = context[j] BY DEF Forget, TypeOK
<1>4. PoolTyped'
  <2>1. ASSUME NEW s \in Slots, mapped'[s] # NoConn
        PROVE  /\ context'[mapped'[s]].state = "open"
               /\ <<context'[mapped'[s]].worker, context'[mapped'[s]].key>> = s
    <3>1. s # Slot(c) /\ mapped'[s] = mapped[s] BY <1>1, <2>1, <1>0 DEF TypeOK
    <3>2. mapped[s] \in Ids /\ <<context[mapped[s]].worker, context[mapped[s]].key>> = s
      BY <2>1, <3>1 DEF TypeOK
    <3>3. mapped[s] # i BY <3>1, <3>2
    <3>. QED BY <1>3, <2>1, <3>1, <3>2, <3>3 DEF TypeOK
  <2>2. mapped' \in [Slots -> Ids \cup {NoConn}] BY <1>1 DEF TypeOK
  <2>. QED BY <1>2, <2>1, <2>2 DEF PoolTyped
<1>5. FirstHasTurn' BY <1>1, ErrandTurns
<1>6. ConnIsThere'
  <2>1. ASSUME NEW d \in Calls, conn'[d] # NoConn
        PROVE  /\ context'[conn'[d]].state # "closed" /\ context'[conn'[d]].worker = WorkerOf[d]
               /\ d \in Errands => context'[conn'[d]].key = key'[d] /\ pc'[d] \in {"drop", "save"}
    <3>1. conn'[d] = conn[d] /\ conn[d] # i /\ conn[d] \in Ids /\ d # c
      BY <1>1, <2>1 DEF TypeOK
    <3>2. context'[conn[d]] = context[conn[d]] BY <1>3, <3>1
    <3>3. d \in Errands => pc'[d] = pc[d] BY <1>1, <3>1
    <3>. QED BY <3>1, <3>2, <3>3 DEF ConnIsThere, Running
  <2>. QED BY <2>1 DEF ConnIsThere, Running
<1>7. pc' \in [Calls -> Places] /\ conn' \in [Calls -> Ids \cup {NoConn}]
  BY <1>1 DEF TypeOK, Places
<1>. QED BY <1>4, <1>5, <1>6, <1>7

LEMMA ErrandStarts ==
  ASSUME Base, NEW c \in Errands, ErrandStart(c)
  PROVE  Base'
<1>. USE DEF Base, store, claims, pool
<1>0. c \in Calls /\ c \notin Jobs OBVIOUS
<1>1. CASE \E k \in Keys : StartImport(c, k)
  <2>1. PICK k \in Keys : StartImport(c, k) BY <1>1
  <2>2. <<WorkerOf[c], k>> \in Slots OBVIOUS
  <2>3. TypeOK' BY <2>1, <2>2 DEF StartImport, Start, Became, TypeOK, Places
  <2>4. FirstHasTurn' BY <2>1, ErrandTurns DEF StartImport, Start, Became, TypeOK
  <2>5. ConnIsThere'
    <3>. DEFINE i == mapped[<<WorkerOf[c], k>>]
    <3>1. conn' = [conn EXCEPT ![c] = i] /\ UNCHANGED context
      BY <2>1 DEF StartImport
    <3>4. \A d \in Errands \ {c} : pc'[d] = pc[d] /\ key'[d] = key[d]
      BY <2>1 DEF StartImport, Start, Became, TypeOK
    <3>2. CASE i = NoConn
      <4>1. conn'[c] = NoConn /\ \A d \in Calls : conn'[d] \in {conn[d], NoConn}
        BY <3>1, <3>2 DEF TypeOK
      <4>. QED BY <3>1, <3>4, <4>1, ConnKept DEF Running
    <3>3. CASE i # NoConn
      <4>1. i \in Ids /\ context[i].state = "open" /\ context[i].worker = WorkerOf[c] /\ context[i].key = k
        BY <2>2, <3>3 DEF TypeOK
      <4>2. key'[c] = k /\ pc'[c] = "drop"
        BY <2>1, <3>3 DEF StartImport, Start, Became, TypeOK
      <4>. QED BY <3>1, <3>4, <4>1, <4>2, ConnGiven DEF Running
    <3>. QED BY <3>2, <3>3
  <2>. QED BY <2>3, <2>4, <2>5
<1>2. CASE \E k \in Keys : StoreDesktop(c, k)
  <2>1. PICK k \in Keys : StoreDesktop(c, k) BY <1>2
  <2>2. newest + 1 \in Session /\ crossed' \in SUBSET Keys
    BY <2>1, CrossingTyped DEF StoreDesktop, SignedIn, TypeOK
  <2>3. TypeOK' BY <2>1, <2>2 DEF StoreDesktop, SignedIn, Start, Became, TypeOK, Places
  <2>4. FirstHasTurn' BY <2>1, ErrandTurns DEF StoreDesktop, Start, Became, TypeOK
  <2>5. conn[c] = NoConn BY <2>1 DEF StoreDesktop, Start, ConnIsThere
  <2>6. ConnIsThere'
    <3>1. \A d \in Errands \ {c} : pc'[d] = pc[d] /\ key'[d] = key[d]
      BY <2>1 DEF StoreDesktop, Start, Became, TypeOK
    <3>. QED BY <2>1, <2>5, <3>1, ConnKept DEF StoreDesktop, Running
  <2>. QED BY <2>3, <2>4, <2>6
<1>3. CASE \E i \in Ids : ReadForBackup(c, i)
  <2>1. PICK i \in Ids : ReadForBackup(c, i) BY <1>3
  <2>2. context[i].state = "open" /\ context[i].worker = WorkerOf[c] BY <2>1 DEF ReadForBackup
  <2>3. context[i].key \in Keys /\ context[i].session \in Session BY <2>2, NotClosed, OpenContext
  <2>4. TypeOK' BY <2>1, <2>3 DEF ReadForBackup, Start, Became, TypeOK, Places
  <2>5. FirstHasTurn' BY <2>1, ErrandTurns DEF ReadForBackup, Start, Became, TypeOK
  <2>6. ConnIsThere'
    <3>1. conn' = [conn EXCEPT ![c] = i] /\ UNCHANGED context BY <2>1 DEF ReadForBackup
    <3>2. key'[c] = context[i].key /\ pc'[c] = "save"
      BY <2>1 DEF ReadForBackup, Start, Became, TypeOK
    <3>3. \A d \in Errands \ {c} : pc'[d] = pc[d] /\ key'[d] = key[d]
      BY <2>1 DEF ReadForBackup, Start, Became, TypeOK
    <3>. QED BY <2>2, <3>1, <3>2, <3>3, ConnGiven DEF Running
  <2>. QED BY <2>4, <2>5, <2>6
<1>. QED BY <1>1, <1>2, <1>3 DEF ErrandStart

LEMMA ErrandMoves ==
  ASSUME Base, NEW c \in Errands, ErrandStep(c)
  PROVE  Base'
<1>. USE DEF Base, store, claims, pool
<1>0. c \in Calls /\ c \notin Jobs /\ AnyKey \in Keys /\ Slot(c) \in Slots /\ key[c] \in Keys
  BY SlotOfCall DEF AnyKey
<1>1. CASE DropForImport(c)
  <2>1. Forget(c, conn[c], "release") /\ UNCHANGED <<store, claims, chain, key, seen, again, faults, lost, crossed>>
    BY <1>1 DEF DropForImport
  <2>2. conn[c] \in Ids \cup {NoConn} /\ "release" \in Places BY <1>0 DEF TypeOK, Places
  <2>3. conn[c] # NoConn => <<context[conn[c]].worker, context[conn[c]].key>> = Slot(c)
    BY DEF ConnIsThere, Slot
  <2>4. /\ PoolTyped' /\ FirstHasTurn' /\ ConnIsThere'
        /\ pc' \in [Calls -> Places] /\ conn' \in [Calls -> Ids \cup {NoConn}]
    BY <2>1, <2>2, <2>3, ForgetKeeps
  <2>5. CallsTyped' BY <2>1, <2>4 DEF CallsTyped, TypeOK
  <2>6. RestTyped' BY <2>1 DEF RestTyped, TypeOK
  <2>. QED BY <2>4, <2>5, <2>6, TypedParts
<1>2. CASE ReleaseForImport(c)
  <2>1. ReleaseClaim(WorkerOf[c], key[c]) BY <1>2 DEF ReleaseForImport, GiveBack
  <2>2. PoolTyped' BY <1>2, TypedParts DEF ReleaseForImport, GiveBack, PoolTyped
  <2>3. CallsTyped' BY <1>2 DEF ReleaseForImport, GiveBack, Became, CallsTyped, TypeOK, Places
  <2>4. RestTyped' BY <1>0, <1>2, <2>1, ReleaseTyped DEF ReleaseForImport, GiveBack, RestTyped, TypeOK
  <2>5. FirstHasTurn' BY <1>2, ErrandTurns DEF ReleaseForImport, GiveBack, Became, TypeOK
  <2>6. ConnIsThere'
    <3>1. conn[c] = NoConn BY <1>2 DEF ReleaseForImport, ConnIsThere
    <3>2. \A d \in Errands \ {c} : pc'[d] = pc[d]
      BY <1>2 DEF ReleaseForImport, Became, TypeOK
    <3>. QED BY <1>2, <3>1, <3>2, ConnKept DEF ReleaseForImport, GiveBack, Running
  <2>. QED BY <2>2, <2>3, <2>4, <2>5, <2>6, TypedParts
<1>3. CASE StoreImport(c)
  <2>1. newest + 1 \in Session /\ crossed' \in SUBSET Keys
    BY <1>0, <1>3, CrossingTyped DEF StoreImport, SignedIn, TypeOK
  <2>2. TypeOK' BY <1>0, <1>3, <2>1 DEF StoreImport, SignedIn, End, Became, TypeOK, Places
  <2>3. FirstHasTurn' BY <1>3, ErrandTurns DEF StoreImport, End, Became, TypeOK
  <2>4. ConnIsThere'
    <3>1. conn[c] = NoConn BY <1>3 DEF StoreImport, ConnIsThere
    <3>2. \A d \in Errands \ {c} : pc'[d] = pc[d] /\ key'[d] = key[d]
      BY <1>3 DEF StoreImport, End, Became, TypeOK
    <3>. QED BY <1>3, <3>1, <3>2, ConnKept DEF StoreImport, Running
  <2>. QED BY <2>2, <2>3, <2>4
<1>4. CASE DropForDesktop(c)
  <2>0. conn[c] = NoConn BY <1>4 DEF DropForDesktop, ConnIsThere
  <2>1. CASE mapped[Slot(c)] = NoConn
    <3>0. End(c) /\ UNCHANGED <<store, claims, pool, chain, conn, seen, again, faults, lost, crossed>>
      BY <1>4, <2>1 DEF DropForDesktop
    <3>1. TypeOK' BY <1>0, <3>0 DEF End, Became, TypeOK, Places
    <3>2. FirstHasTurn' BY <1>4, <2>1, ErrandTurns DEF DropForDesktop, End, Became, TypeOK
    <3>3. \A d \in Errands \ {c} : pc'[d] = pc[d] /\ key'[d] = key[d]
      BY <1>4, <2>1 DEF DropForDesktop, End, Became, TypeOK
    <3>4. ConnIsThere' BY <1>4, <2>0, <2>1, <3>3, ConnKept DEF DropForDesktop, Running
    <3>. QED BY <3>1, <3>2, <3>4
  <2>2. CASE mapped[Slot(c)] # NoConn
    <3>. DEFINE i == mapped[Slot(c)]
    <3>1. Forget(c, i, "giveBack") /\ UNCHANGED <<store, claims, chain, key, seen, again, faults, lost, crossed>>
      BY <1>4, <2>2 DEF DropForDesktop
    <3>2. i \in Ids /\ "giveBack" \in Places BY <1>0, <2>2 DEF TypeOK, Places
    <3>3. <<context[i].worker, context[i].key>> = Slot(c) BY <1>0, <2>2 DEF TypeOK
    <3>4. /\ PoolTyped' /\ FirstHasTurn' /\ ConnIsThere'
          /\ pc' \in [Calls -> Places] /\ conn' \in [Calls -> Ids \cup {NoConn}]
      BY <2>0, <3>1, <3>2, <3>3, ForgetKeeps
    <3>5. CallsTyped' BY <3>1, <3>4 DEF CallsTyped, TypeOK
    <3>6. RestTyped' BY <3>1 DEF RestTyped, TypeOK
    <3>. QED BY <3>4, <3>5, <3>6, TypedParts
  <2>. QED BY <2>1, <2>2
<1>5. CASE ReleaseForDesktop(c)
  <2>1. ReleaseClaim(WorkerOf[c], key[c]) BY <1>5 DEF ReleaseForDesktop, GiveBack
  <2>2. PoolTyped' BY <1>5, TypedParts DEF ReleaseForDesktop, GiveBack, PoolTyped
  <2>3. CallsTyped' BY <1>0, <1>5 DEF ReleaseForDesktop, GiveBack, End, Became, CallsTyped, TypeOK, Places
  <2>4. RestTyped' BY <1>0, <1>5, <2>1, ReleaseTyped DEF ReleaseForDesktop, GiveBack, RestTyped, TypeOK
  <2>5. FirstHasTurn' BY <1>5, ErrandTurns DEF ReleaseForDesktop, GiveBack, End, Became, TypeOK
  <2>6. ConnIsThere'
    <3>1. conn[c] = NoConn BY <1>5 DEF ReleaseForDesktop, ConnIsThere
    <3>2. \A d \in Errands \ {c} : pc'[d] = pc[d] /\ key'[d] = key[d]
      BY <1>5 DEF ReleaseForDesktop, End, Became, TypeOK
    <3>. QED BY <1>5, <3>1, <3>2, ConnKept DEF ReleaseForDesktop, GiveBack, Running
  <2>. QED BY <2>2, <2>3, <2>4, <2>5, <2>6, TypedParts
<1>6. CASE SaveBackup(c) \/ SaveFails(c)
  <2>1. crossed' \in SUBSET Keys /\ seen[c] \in Session
    BY <1>0, <1>6, CrossingTyped DEF SaveBackup, SaveFails, TypeOK
  <2>2. TypeOK'
    <3>1. CASE SaveBackup(c) BY <1>0, <2>1, <3>1 DEF SaveBackup, End, Became, TypeOK, Places
    <3>2. CASE SaveFails(c) BY <1>0, <3>2 DEF SaveFails, End, Became, TypeOK, Places
    <3>. QED BY <1>6, <3>1, <3>2
  <2>3. FirstHasTurn'
    <3>1. /\ UNCHANGED chain
          /\ pc' = [pc EXCEPT ![c] = "done"] /\ key' = [key EXCEPT ![c] = AnyKey]
      BY <1>6 DEF SaveBackup, SaveFails, End, Became
    <3>2. \A d \in Jobs : pc'[d] = pc[d] /\ key'[d] = key[d] BY <3>1 DEF TypeOK
    <3>. QED BY <3>1, <3>2, ErrandTurns
  <2>4. ConnIsThere'
    <3>1. conn' = [conn EXCEPT ![c] = NoConn] /\ UNCHANGED context
      BY <1>6 DEF SaveBackup, SaveFails, pool
    <3>2. \A d \in Errands \ {c} : pc'[d] = pc[d] /\ key'[d] = key[d]
      BY <1>6 DEF SaveBackup, SaveFails, End, Became, TypeOK
    <3>3. conn'[c] = NoConn /\ \A d \in Calls : conn'[d] \in {conn[d], NoConn}
      BY <3>1 DEF TypeOK
    <3>. QED BY <3>1, <3>2, <3>3, ConnKept DEF Running
  <2>. QED BY <2>2, <2>3, <2>4
<1>. QED BY <1>1, <1>2, <1>3, <1>4, <1>5, <1>6 DEF ErrandStep

Owners == Workers \cup {NoOne, Gone}

LEMMA ClaimRow ==
  ASSUME NEW r \in [owner : Owners, live : BOOLEAN]
  PROVE  /\ \A b \in BOOLEAN : [r EXCEPT !.live = b] \in [owner : Owners, live : BOOLEAN]
         /\ \A b \in BOOLEAN : [r EXCEPT !.live = b].owner = r.owner
         /\ \A b \in BOOLEAN : [r EXCEPT !.live = b].live = b
         /\ [r EXCEPT !.owner = Gone] \in [owner : Owners, live : BOOLEAN]
<1>1. DOMAIN r = {"owner", "live"} OBVIOUS
<1>2. ASSUME NEW b \in BOOLEAN
      PROVE  /\ [r EXCEPT !.live = b] \in [owner : Owners, live : BOOLEAN]
             /\ [r EXCEPT !.live = b].owner = r.owner
  BY <1>1
<1>3. ASSUME NEW b \in BOOLEAN PROVE [r EXCEPT !.live = b].live = b BY <1>1
<1>4. [r EXCEPT !.owner = Gone] \in [owner : Owners, live : BOOLEAN] BY <1>1 DEF Owners
<1>. QED BY <1>2, <1>3, <1>4

LEMMA ClaimTyped ==
  ASSUME TypeOK, NEW k \in Keys, NEW b \in BOOLEAN, claim' = [claim EXCEPT ![k].live = b]
  PROVE  claim' \in [Keys -> [owner : Owners, live : BOOLEAN]]
<1>1. claim \in [Keys -> [owner : Owners, live : BOOLEAN]] BY DEF TypeOK, Owners
<1>2. [claim[k] EXCEPT !.live = b] \in [owner : Owners, live : BOOLEAN] BY <1>1, ClaimRow
<1>. QED BY <1>1, <1>2

LEMMA ClockTurns ==
  ASSUME Base, \/ \E w \in Workers, k \in Keys : Renew(w, k)
               \/ \E k \in Keys : Lapse(k)
  PROVE  Base'
<1>. USE DEF Base, store, pool, calls
<1>1. ASSUME NEW w \in Workers, NEW k \in Keys, Renew(w, k) PROVE Base'
  <2>1. TypeOK'
    <3>1. claim' \in [Keys -> [owner : Owners, live : BOOLEAN]]
      <4>1. CASE claim[k].owner = w
        BY <1>1, <4>1, ClaimTyped DEF Renew
      <4>2. CASE claim[k].owner # w
        BY <1>1, <4>2 DEF Renew, TypeOK, Owners
      <4>. QED BY <4>1, <4>2
    <3>2. renewing' \in SUBSET Slots BY <1>1 DEF Renew, TypeOK
    <3>3. RestTyped' BY <1>1, <3>1, <3>2 DEF Renew, RestTyped, TypeOK, Owners
    <3>4. PoolTyped' /\ CallsTyped' BY <1>1 DEF Renew, PoolTyped, CallsTyped, TypeOK
    <3>. QED BY <3>3, <3>4, TypedParts
  <2>2. FirstHasTurn' BY <1>1, SameTurns DEF Renew
  <2>3. ConnIsThere' BY <1>1, ConnKept DEF Renew, Running
  <2>. QED BY <2>1, <2>2, <2>3
<1>2. ASSUME NEW k \in Keys, Lapse(k) PROVE Base'
  <2>1. TypeOK'
    <3>1. claim' \in [Keys -> [owner : Owners, live : BOOLEAN]]
      BY <1>2, ClaimTyped DEF Lapse
    <3>2. lost' \in SUBSET Jobs /\ faults' \in 0..MaxFaults BY <1>2 DEF Lapse, TypeOK, JobsOn
    <3>3. RestTyped' BY <1>2, <3>1, <3>2 DEF Lapse, RestTyped, TypeOK, Owners
    <3>4. PoolTyped' /\ CallsTyped' BY <1>2 DEF Lapse, PoolTyped, CallsTyped, TypeOK
    <3>. QED BY <3>3, <3>4, TypedParts
  <2>2. FirstHasTurn' BY <1>2, SameTurns DEF Lapse
  <2>3. ConnIsThere' BY <1>2, ConnKept DEF Lapse, Running
  <2>. QED BY <2>1, <2>2, <2>3
<1>. QED BY <1>1, <1>2

\* After a worker's contexts are gone its map is empty.
LEMMA GoneTyped ==
  ASSUME TypeOK, NEW w \in Workers, context' \in [Ids -> Contexts],
         mapped' = [s \in Slots |-> IF s[1] = w THEN NoConn ELSE mapped[s]],
         \A j \in Ids : context[j].worker # w => context'[j] = context[j]
  PROVE  PoolTyped'
<1>1. ASSUME NEW s \in Slots, mapped'[s] # NoConn
      PROVE  /\ context'[mapped'[s]].state = "open"
             /\ <<context'[mapped'[s]].worker, context'[mapped'[s]].key>> = s
  <2>1. s[1] # w /\ mapped'[s] = mapped[s] BY <1>1
  <2>2. mapped[s] \in Ids /\ <<context[mapped[s]].worker, context[mapped[s]].key>> = s
    BY <1>1, <2>1 DEF TypeOK
  <2>3. context'[mapped[s]] = context[mapped[s]] BY <2>1, <2>2
  <2>. QED BY <1>1, <2>1, <2>3 DEF TypeOK
<1>2. mapped' \in [Slots -> Ids \cup {NoConn}] BY DEF TypeOK
<1>. QED BY <1>1, <1>2 DEF PoolTyped

LEMMA FaultTurns ==
  ASSUME Base, NEW w \in Workers, BrowserExits(w) \/ Crash(w)
  PROVE  Base'
<1>. USE DEF Base, store
<1>1. CASE BrowserExits(w)
  <2>1. ASSUME NEW i \in Ids
        PROVE  context'[i] = IF context[i].worker # w THEN context[i]
                             ELSE IF context[i].state = "open" THEN Closed
                             ELSE [context[i] EXCEPT !.state = "saved"]
    BY <1>1 DEF BrowserExits
  <2>2. ASSUME NEW i \in Ids PROVE context'[i] \in Contexts
    <3>1. context[i] \in Contexts BY DEF TypeOK
    <3>2. CASE context[i] = Closed
      <4>1. context[i].worker # w BY <3>2 DEF Closed
      <4>. QED BY <2>1, <3>1, <4>1
    <3>3. CASE context[i] # Closed
      <4>1. [context[i] EXCEPT !.state = "saved"] \in Contexts BY <3>1, <3>3, OpenContext
      <4>. QED BY <2>1, <3>1, <4>1, ClosedTyped
    <3>. QED BY <3>2, <3>3
  <2>3. context' \in [Ids -> Contexts] BY <1>1, <2>2 DEF BrowserExits
  <2>4. PoolTyped' BY <1>1, <2>1, <2>3, GoneTyped DEF BrowserExits
  <2>5. CallsTyped' BY <1>1 DEF BrowserExits, CallsTyped, TypeOK
  <2>6. RestTyped' BY <1>1 DEF BrowserExits, RestTyped, TypeOK
  <2>7. FirstHasTurn' BY <1>1, SameTurns DEF BrowserExits
  <2>8. ASSUME NEW c \in Calls, conn'[c] # NoConn
        PROVE  /\ context'[conn'[c]].state # "closed" /\ context'[conn'[c]].worker = WorkerOf[c]
               /\ c \in Errands => context'[conn'[c]].key = key'[c] /\ pc'[c] \in {"drop", "save"}
    <3>. DEFINE i == conn[c]
    <3>1. conn'[c] = i /\ i \in Ids BY <1>1, <2>8 DEF BrowserExits, TypeOK
    <3>2. /\ Running(i) /\ context[i].worker = WorkerOf[c]
          /\ c \in Errands => context[i].key = key[c] /\ pc[c] \in {"drop", "save"}
      BY <3>1, <2>8 DEF ConnIsThere
    <3>3. CASE context[i].worker # w
      <4>1. context'[i] = context[i] BY <2>1, <3>1, <3>3
      <4>. QED BY <1>1, <3>1, <3>2, <4>1 DEF BrowserExits, Running
    <3>4. CASE context[i].worker = w
      <4>1. context[i].state # "open" BY <1>1, <2>8, <3>1, <3>4 DEF BrowserExits
      <4>2. context'[i] = [context[i] EXCEPT !.state = "saved"] BY <2>1, <3>1, <3>4, <4>1
      <4>3. context[i] \in Contexts /\ context[i] # Closed
        BY <3>1, <3>2, NotClosed DEF Running
      <4>4. DOMAIN context[i] = {"worker", "key", "session", "state", "busy"} BY <4>3, OpenContext
      <4>5. /\ context'[i].state = "saved" /\ context'[i].worker = context[i].worker
            /\ context'[i].key = context[i].key
        BY <4>2, <4>4
      <4>. QED BY <1>1, <3>1, <3>2, <4>5 DEF BrowserExits
    <3>. QED BY <3>3, <3>4
  <2>9. ConnIsThere' BY <2>8 DEF ConnIsThere, Running
  <2>. QED BY <2>4, <2>5, <2>6, <2>7, <2>9, TypedParts
<1>2. CASE Crash(w)
  <2>0. AnyKey \in Keys BY DEF AnyKey
  <2>1. context' \in [Ids -> Contexts] BY <1>2, ClosedTyped DEF Crash, TypeOK
  <2>2. \A i \in Ids : context[i].worker # w => context'[i] = context[i] BY <1>2 DEF Crash
  <2>3. PoolTyped' BY <1>2, <2>1, <2>2, GoneTyped DEF Crash
  <2>4. CallsTyped'
    <3>1. chain' \in [Slots -> Seq(Jobs)]
      <4>1. ASSUME NEW s \in Slots PROVE chain'[s] \in Seq(Jobs)
        BY <1>2 DEF Crash, TypeOK
      <4>. QED BY <1>2, <4>1 DEF Crash
    <3>. QED BY <1>2, <2>0, <3>1 DEF Crash, CallsTyped, TypeOK, Places
  <2>5. RestTyped'
    <3>1. ASSUME NEW k \in Keys PROVE claim'[k] \in [owner : Owners, live : BOOLEAN]
      <4>1. claim[k] \in [owner : Owners, live : BOOLEAN] BY DEF TypeOK, Owners
      <4>2. claim'[k] \in {claim[k], [claim[k] EXCEPT !.owner = Gone]} BY <1>2 DEF Crash
      <4>. QED BY <4>1, <4>2, ClaimRow
    <3>2. claim' \in [Keys -> [owner : Owners, live : BOOLEAN]] BY <1>2, <3>1 DEF Crash
    <3>3. /\ renewing' \in SUBSET Slots /\ faults' \in 0..MaxFaults
          /\ lost' \in SUBSET Jobs /\ crossed' \in SUBSET Keys
      BY <1>2 DEF Crash, TypeOK
    <3>. QED BY <1>2, <3>2, <3>3 DEF Crash, RestTyped, TypeOK, Owners
  <2>6. FirstHasTurn'
    <3>1. ASSUME NEW d \in Jobs, UnderWay(d)'
          PROVE  (chain[Slot(d)] # <<>> /\ Head(chain[Slot(d)]) = d)'
      <4>1. WorkerOf[d] # w BY <1>2, <3>1 DEF Crash, UnderWay
      <4>2. UnderWay(d) /\ key'[d] = key[d] BY <1>2, <3>1, <4>1 DEF Crash, UnderWay
      <4>3. Slot(d)' = Slot(d) /\ Slot(d) \in Slots /\ Slot(d)[1] # w
        BY <4>1, <4>2, SlotOfCall DEF Slot
      <4>4. chain'[Slot(d)] = chain[Slot(d)] BY <1>2, <4>3 DEF Crash
      <4>. QED BY <4>2, <4>3, <4>4 DEF FirstHasTurn
    <3>. QED BY <3>1 DEF FirstHasTurn
  <2>7. ASSUME NEW c \in Calls, conn'[c] # NoConn
        PROVE  /\ context'[conn'[c]].state # "closed" /\ context'[conn'[c]].worker = WorkerOf[c]
               /\ c \in Errands => context'[conn'[c]].key = key'[c] /\ pc'[c] \in {"drop", "save"}
    <3>1. WorkerOf[c] # w /\ conn'[c] = conn[c] /\ conn[c] \in Ids BY <1>2, <2>7 DEF Crash, TypeOK
    <3>2. /\ Running(conn[c]) /\ context[conn[c]].worker = WorkerOf[c]
          /\ c \in Errands => context[conn[c]].key = key[c] /\ pc[c] \in {"drop", "save"}
      BY <3>1, <2>7 DEF ConnIsThere
    <3>3. context'[conn[c]] = context[conn[c]] BY <2>2, <3>1, <3>2
    <3>. QED BY <1>2, <3>1, <3>2, <3>3 DEF Crash, Running
  <2>8. ConnIsThere' BY <2>7 DEF ConnIsThere, Running
  <2>. QED BY <2>3, <2>4, <2>5, <2>6, <2>8, TypedParts
<1>. QED BY <1>1, <1>2

LEMMA NextKeepsBase ==
  ASSUME Base, [Next]_vars
  PROVE  Base'
<1>1. CASE Next
  BY <1>1, EnqueueTurns, JobTurns, SealTurns, ErrandStarts, ErrandMoves, ClockTurns, FaultTurns
  DEF Next
<1>2. CASE UNCHANGED vars
  <2>. USE <1>2 DEF vars, store, claims, pool, calls
  <2>1. TypeOK' BY DEF Base, TypeOK
  <2>2. FirstHasTurn' BY SameTurns DEF Base
  <2>3. ConnIsThere' BY ConnKept DEF Base, Running
  <2>. QED BY <2>1, <2>2, <2>3 DEF Base
<1>. QED BY <1>1, <1>2

LEMMA InitBase == Init => Base
<1>. SUFFICES ASSUME Init PROVE FirstHasTurn /\ ConnIsThere
  BY InitTyped DEF Base
<1>. QED BY DEF Init, FirstHasTurn, ConnIsThere, UnderWay

LEMMA StaysBase == Spec => []Base
BY InitBase, NextKeepsBase, PTL DEF Spec

\* Every variable keeps its type, for any sets and bounds.
THEOREM FleetTyped == Spec => []TypeOK
BY StaysBase, PTL DEF Base

\* Jobs on one session take turns inside a worker.
THEOREM TurnsAreTaken == Spec => []JobsTakeTurns
<1>1. Base => JobsTakeTurns BY DEF Base, FirstHasTurn, JobsTakeTurns
<1>. QED BY <1>1, StaysBase, PTL

----------------------------------------------------------------------------
(* Claims *)

\* A step that leaves the rows alone, and sends no job to work, keeps them.
LEMMA ClaimsKept ==
  ASSUME HoldsLive, UNCHANGED claim,
         \A d \in Jobs : UnderWay(d)' /\ d \notin lost' =>
                           UnderWay(d) /\ d \notin lost /\ key'[d] = key[d]
  PROVE  HoldsLive'
BY DEF HoldsLive

\* Giving a claim back marks the jobs that count on it.
LEMMA ReleaseMarks ==
  ASSUME TypeOK, HoldsLive, NEW w \in Workers, NEW k \in Keys, ReleaseClaim(w, k),
         \A d \in Jobs : key'[d] = key[d] /\ (UnderWay(d)' => UnderWay(d))
  PROVE  HoldsLive'
<1>1. ASSUME NEW d \in Jobs, UnderWay(d)', d \notin lost'
      PROVE  claim'[key'[d]].owner = WorkerOf[d] /\ claim'[key'[d]].live
  <2>1. UnderWay(d) /\ d \notin lost /\ key'[d] = key[d] BY <1>1 DEF ReleaseClaim
  <2>2. Slot(d) # <<w, k>> BY <1>1, <2>1 DEF ReleaseClaim, JobsOn
  <2>3. claim[key[d]].owner = WorkerOf[d] /\ claim[key[d]].live /\ key[d] \in Keys
    BY <2>1, SlotOfCall DEF HoldsLive
  <2>4. claim'[key[d]] = claim[key[d]]
    <3>1. CASE key[d] = k
      <4>1. claim[k].owner # w BY <2>2, <2>3, <3>1 DEF Slot
      <4>. QED BY <4>1 DEF ReleaseClaim, GivenUp
    <3>2. CASE key[d] # k
      BY <2>3, <3>2 DEF ReleaseClaim, GivenUp, TypeOK
    <3>. QED BY <3>1, <3>2
  <2>. QED BY <2>1, <2>3, <2>4
<1>. QED BY <1>1 DEF HoldsLive

LEMMA JobClaims ==
  ASSUME TypeOK, HoldsLive, NEW c \in Jobs, JobStep(c) \/ Rotate(c) \/ Reopen(c)
  PROVE  HoldsLive'
<1>. USE DEF claims, calls
<1>1. CASE Begin(c)
  <2>1. Slot(c) \in Slots /\ key[c] \in Keys BY SlotOfCall
  <2>2. claim' = [claim EXCEPT ![key[c]] = [owner |-> WorkerOf[c], live |-> TRUE]]
    BY <1>1 DEF Begin
  <2>3. ASSUME NEW d \in Jobs, UnderWay(d)', d \notin lost'
        PROVE  claim'[key'[d]].owner = WorkerOf[d] /\ claim'[key'[d]].live
    <3>0. key'[d] = key[d] /\ lost' = lost BY <1>1 DEF Begin
    <3>1. CASE d = c BY <2>1, <2>2, <3>0, <3>1 DEF TypeOK
    <3>2. CASE d # c
      <4>1. UnderWay(d) BY <1>1, <2>3, <3>2 DEF Begin, UnderWay, TypeOK
      <4>2. claim[key[d]].owner = WorkerOf[d] /\ claim[key[d]].live /\ WorkerOf[d] \in Workers
            /\ key[d] \in Keys
        BY <2>3, <3>0, <4>1, SlotOfCall DEF HoldsLive
      <4>3. CASE key[d] = key[c]
        <5>1. claim[key[c]].owner \in {WorkerOf[c], NoOne} BY <1>1, <4>2, <4>3 DEF Begin, Claimable
        <5>2. WorkerOf[d] = WorkerOf[c] BY <4>2, <4>3, <5>1
        <5>. QED BY <2>1, <2>2, <3>0, <4>3, <5>2 DEF TypeOK
      <4>4. CASE key[d] # key[c] BY <2>2, <3>0, <4>2, <4>4 DEF TypeOK
      <4>. QED BY <4>3, <4>4
    <3>. QED BY <3>1, <3>2
  <2>. QED BY <2>3 DEF HoldsLive
<1>2. CASE Refused(c) \/ GiveUp(c) \/ OpenFails(c) \/ Finish(c)
  <2>1. Leave(c) /\ UNCHANGED claim BY <1>2 DEF Refused, GiveUp, OpenFails, Finish
  <2>2. ASSUME NEW d \in Jobs, UnderWay(d)', d \notin lost'
        PROVE  UnderWay(d) /\ d \notin lost /\ key'[d] = key[d]
    <3>1. d # c BY <2>1, <2>2 DEF Leave, UnderWay, TypeOK
    <3>. QED BY <2>1, <2>2, <3>1 DEF Leave, UnderWay, TypeOK
  <2>. QED BY <2>1, <2>2, ClaimsKept
<1>3. CASE Resolve(c) \/ Room(c) \/ Evict(c) \/ Load(c) \/ LoadUnreadable(c) \/ Open(c)
            \/ Rotate(c) \/ Reopen(c)
  <2>1. UNCHANGED <<claim, lost, key>>
    BY <1>3 DEF Resolve, Room, Evict, Load, LoadUnreadable, Open, Rotate, Reopen
  <2>2. UnderWay(c) BY <1>3 DEF Resolve, Room, Evict, Load, LoadUnreadable, Open, Rotate, Reopen, UnderWay
  <2>3. \A d \in Jobs : d # c => pc'[d] = pc[d]
    BY <1>3 DEF Resolve, Room, Evict, Load, LoadUnreadable, Open, Rotate, Reopen, TypeOK
  <2>4. \A d \in Jobs : UnderWay(d)' => UnderWay(d) BY <2>2, <2>3 DEF UnderWay
  <2>. QED BY <2>1, <2>4, ClaimsKept
<1>. QED BY <1>1, <1>2, <1>3 DEF JobStep

LEMMA OtherClaims ==
  ASSUME TypeOK, HoldsLive,
         \/ \E c \in Jobs, k \in Keys : Enqueue(c, k)
         \/ \E i \in Ids : Sweep(i) \/ Shutdown(i) \/ SealStep(i)
         \/ \E c \in Errands : ErrandStart(c) \/ ErrandStep(c)
  PROVE  HoldsLive'
<1>. USE DEF claims, calls
<1>1. ASSUME NEW c \in Jobs, NEW k \in Keys, Enqueue(c, k) PROVE HoldsLive'
  <2>1. ASSUME NEW d \in Jobs, UnderWay(d)' PROVE UnderWay(d) /\ key'[d] = key[d]
    <3>1. d # c BY <1>1, <2>1 DEF Enqueue, UnderWay, TypeOK
    <3>. QED BY <1>1, <2>1, <3>1 DEF Enqueue, UnderWay, TypeOK
  <2>. QED BY <1>1, <2>1, ClaimsKept DEF Enqueue
<1>2. ASSUME NEW i \in Ids, Sweep(i) \/ Shutdown(i) \/ SealSave(i) \/ SealFails(i)
      PROVE  HoldsLive'
  <2>1. UNCHANGED <<claim, pc, key, lost>> BY <1>2 DEF Sweep, Shutdown, SealSave, SealFails
  <2>. QED BY <2>1, ClaimsKept DEF UnderWay
<1>3. ASSUME NEW i \in Ids, SealEnd(i) PROVE HoldsLive'
  <2>1. context[i].worker \in Workers /\ context[i].key \in Keys
    BY <1>3, NotClosed, OpenContext DEF SealEnd
  <2>2. \A d \in Jobs : key'[d] = key[d] /\ (UnderWay(d)' => UnderWay(d))
    BY <1>3 DEF SealEnd, UnderWay, TypeOK
  <2>. QED BY <1>3, <2>1, <2>2, ReleaseMarks DEF SealEnd
<1>4. ASSUME NEW c \in Errands, ErrandStart(c) PROVE HoldsLive'
  <2>1. UNCHANGED <<claim, lost>> BY <1>4 DEF ErrandStart, StartImport, StoreDesktop, ReadForBackup
  <2>2. \A d \in Jobs : pc'[d] = pc[d] /\ key'[d] = key[d]
    <3>1. \E k, place : Start(c, k, place)
      BY <1>4 DEF ErrandStart, StartImport, StoreDesktop, ReadForBackup
    <3>2. PICK k, place : pc' = [pc EXCEPT ![c] = place] /\ key' = [key EXCEPT ![c] = k]
      BY <3>1 DEF Start, Became
    <3>. QED BY <3>2 DEF TypeOK
  <2>. QED BY <2>1, <2>2, ClaimsKept DEF UnderWay
<1>5. ASSUME NEW c \in Errands,
             StoreImport(c) \/ SaveBackup(c) \/ SaveFails(c) \/ DropForImport(c) \/ DropForDesktop(c)
      PROVE  HoldsLive'
  <2>1. UNCHANGED <<claim, lost>>
    BY <1>5 DEF StoreImport, SaveBackup, SaveFails, DropForImport, DropForDesktop
  <2>2. \A d \in Jobs : key'[d] = key[d]
    BY <1>5 DEF StoreImport, SaveBackup, SaveFails, DropForImport, DropForDesktop, End, TypeOK
  <2>3. \A d \in Jobs : pc'[d] = pc[d] \/ (pc[d] = "evict" /\ pc'[d] = "slot")
    BY <1>5 DEF StoreImport, SaveBackup, SaveFails, DropForImport, DropForDesktop, End, Became, Forget, TypeOK
  <2>. QED BY <2>1, <2>2, <2>3, ClaimsKept DEF UnderWay
<1>6. ASSUME NEW c \in Errands, ReleaseForImport(c) \/ ReleaseForDesktop(c) PROVE HoldsLive'
  <2>1. ReleaseClaim(WorkerOf[c], key[c]) BY <1>6 DEF ReleaseForImport, ReleaseForDesktop, GiveBack
  <2>2. WorkerOf[c] \in Workers /\ key[c] \in Keys BY SlotOfCall
  <2>3. \A d \in Jobs : key'[d] = key[d] /\ pc'[d] = pc[d]
    BY <1>6 DEF ReleaseForImport, ReleaseForDesktop, End, Became, TypeOK
  <2>. QED BY <2>1, <2>2, <2>3, ReleaseMarks DEF UnderWay
<1>. QED BY <1>1, <1>2, <1>3, <1>4, <1>5, <1>6 DEF SealStep, ErrandStep

LEMMA FaultClaims ==
  ASSUME TypeOK, HoldsLive,
         \/ \E w \in Workers, k \in Keys : Renew(w, k)
         \/ \E k \in Keys : Lapse(k)
         \/ \E w \in Workers : BrowserExits(w) \/ Crash(w)
  PROVE  HoldsLive'
<1>. USE DEF calls
<1>1. ASSUME NEW w \in Workers, NEW k \in Keys, Renew(w, k) PROVE HoldsLive'
  <2>1. ASSUME NEW d \in Jobs, UnderWay(d)', d \notin lost'
        PROVE  claim'[key'[d]].owner = WorkerOf[d] /\ claim'[key'[d]].live
    <3>1. UnderWay(d) /\ d \notin lost /\ key'[d] = key[d] BY <1>1, <2>1 DEF Renew, UnderWay
    <3>2. claim[key[d]].owner = WorkerOf[d] /\ claim[key[d]].live /\ key[d] \in Keys
      BY <3>1, SlotOfCall DEF HoldsLive
    <3>3. claim' = claim \/ (~claim[k].live /\ claim' = [claim EXCEPT ![k].live = TRUE])
      BY <1>1 DEF Renew
    <3>4. claim'[key[d]] = claim[key[d]] BY <3>2, <3>3 DEF TypeOK
    <3>. QED BY <3>1, <3>2, <3>4
  <2>. QED BY <2>1 DEF HoldsLive
<1>2. ASSUME NEW k \in Keys, Lapse(k) PROVE HoldsLive'
  <2>1. ASSUME NEW d \in Jobs, UnderWay(d)', d \notin lost'
        PROVE  claim'[key'[d]].owner = WorkerOf[d] /\ claim'[key'[d]].live
    <3>1. UnderWay(d) /\ d \notin lost /\ key'[d] = key[d] BY <1>2, <2>1 DEF Lapse, UnderWay
    <3>2. claim[key[d]].owner = WorkerOf[d] /\ claim[key[d]].live /\ key[d] \in Keys
      BY <3>1, SlotOfCall DEF HoldsLive
    <3>3. Slot(d) # <<claim[k].owner, k>> BY <1>2, <2>1, <3>1 DEF Lapse, JobsOn
    <3>4. key[d] # k BY <3>2, <3>3 DEF Slot
    <3>5. claim'[key[d]] = claim[key[d]] BY <1>2, <3>2, <3>4 DEF Lapse, TypeOK
    <3>. QED BY <3>1, <3>2, <3>5
  <2>. QED BY <2>1 DEF HoldsLive
<1>3. ASSUME NEW w \in Workers, BrowserExits(w) PROVE HoldsLive'
  <2>1. UNCHANGED <<claim, pc, key, lost>> BY <1>3 DEF BrowserExits
  <2>. QED BY <2>1, ClaimsKept DEF UnderWay
<1>4. ASSUME NEW w \in Workers, Crash(w) PROVE HoldsLive'
  <2>1. ASSUME NEW d \in Jobs, UnderWay(d)', d \notin lost'
        PROVE  claim'[key'[d]].owner = WorkerOf[d] /\ claim'[key'[d]].live
    <3>1. WorkerOf[d] # w BY <1>4, <2>1 DEF Crash, UnderWay
    <3>2. UnderWay(d) /\ d \notin lost /\ key'[d] = key[d]
      BY <1>4, <2>1, <3>1 DEF Crash, UnderWay
    <3>3. claim[key[d]].owner = WorkerOf[d] /\ claim[key[d]].live /\ key[d] \in Keys
      BY <3>2, SlotOfCall DEF HoldsLive
    <3>4. claim'[key[d]] = claim[key[d]] BY <1>4, <3>1, <3>3 DEF Crash
    <3>. QED BY <3>2, <3>3, <3>4
  <2>. QED BY <2>1 DEF HoldsLive
<1>. QED BY <1>1, <1>2, <1>3, <1>4

LEMMA NextKeepsClaims ==
  ASSUME Base, HoldsLive, [Next]_vars
  PROVE  HoldsLive'
<1>1. CASE Next BY <1>1, JobClaims, OtherClaims, FaultClaims DEF Next, Base
<1>2. CASE UNCHANGED vars
  BY <1>2, ClaimsKept DEF vars, claims, calls, UnderWay
<1>. QED BY <1>1, <1>2

LEMMA StaysClaimed == Spec => []HoldsLive
<1>1. Init => HoldsLive BY DEF Init, HoldsLive, UnderWay
<1>. QED BY <1>1, StaysBase, NextKeepsClaims, PTL DEF Spec

\* Two workers drive one session only after a claim ran out beneath a job or was given
\* back while the job was under way.
THEOREM ClaimsHold == Spec => []DrivenByItsHolder
<1>1. HoldsLive => DrivenByItsHolder BY DEF HoldsLive, DrivenByItsHolder
<1>. QED BY <1>1, StaysClaimed, PTL

----------------------------------------------------------------------------
(* Sessions *)

Fresh == BackupIsBehind /\ NewestIsNewest /\ HoldersAreAhead

Numbers ==
  /\ newest \in Nat
  /\ \A k \in Keys : blob[k] \in Nat
  /\ \A i \in Ids : context[i].session \in Nat
  /\ \A c \in Calls : seen[c] \in Nat

LEMMA SessionsAreNumbers == TypeOK => Numbers
<1>. SUFFICES ASSUME TypeOK PROVE Numbers
  OBVIOUS
<1>1. ASSUME NEW i \in Ids PROVE context[i].session \in Nat
  <2>1. CASE context[i] = Closed BY <2>1 DEF Closed
  <2>2. CASE context[i] # Closed
    <3>1. context[i] \in Contexts BY DEF TypeOK
    <3>2. context[i].session \in Session BY <2>2, <3>1, OpenContext
    <3>. QED BY <3>2
  <2>. QED BY <2>1, <2>2
<1>. QED BY <1>1 DEF TypeOK, Numbers

\* What a step must do to keep sessions in order when it saves none: whoever comes to hold
\* one holds one that is not older than the saved one, or than the one it held.
LEMMA FreshKept ==
  ASSUME TypeOK, TypeOK', Fresh, UNCHANGED blob, newest <= newest', crossed \subseteq crossed',
         \A i \in Ids : context'[i].session <= newest',
         \A c \in Calls : seen'[c] <= newest',
         \A i \in Ids, k \in Keys : Holds(i, k)' =>
           \/ Holds(i, k) /\ context[i].session <= context'[i].session
           \/ k \in crossed'
           \/ blob[k] <= context'[i].session,
         \A c \in Calls, k \in Keys : Carries(c, k)' =>
           \/ Carries(c, k) /\ seen'[c] = seen[c]
           \/ k \in crossed'
           \/ blob[k] <= seen'[c],
         \A c \in Calls : pc'[c] = "save" /\ conn'[c] # NoConn =>
           \/ /\ pc[c] = "save" /\ conn'[c] = conn[c] /\ seen'[c] = seen[c] /\ conn[c] \in Ids
              /\ context[conn[c]].session <= context'[conn[c]].session
           \/ seen'[c] <= context'[conn'[c]].session
  PROVE  Fresh'
<1>0. /\ newest \in Nat /\ \A k \in Keys : blob[k] \in Nat
      /\ \A i \in Ids : context[i].session \in Nat
      /\ \A c \in Calls : seen[c] \in Nat
  BY SessionsAreNumbers DEF Numbers
<1>1. /\ newest' \in Nat /\ \A k \in Keys : blob'[k] \in Nat
      /\ \A i \in Ids : context'[i].session \in Nat
      /\ \A c \in Calls : seen'[c] \in Nat
  <2>1. Numbers' BY SessionsAreNumbers, PTL
  <2>. QED BY <2>1 DEF Numbers
<1>2. BackupIsBehind'
  <2>1. ASSUME NEW c \in Calls, pc'[c] = "save", conn'[c] # NoConn
        PROVE  seen'[c] <= context'[conn'[c]].session
    <3>1. CASE /\ pc[c] = "save" /\ conn'[c] = conn[c] /\ seen'[c] = seen[c] /\ conn[c] \in Ids
               /\ context[conn[c]].session <= context'[conn[c]].session
      <4>1. seen[c] <= context[conn[c]].session BY <2>1, <3>1 DEF Fresh, BackupIsBehind
      <4>. QED BY <1>0, <1>1, <3>1, <4>1
    <3>2. CASE seen'[c] <= context'[conn'[c]].session BY <3>2
    <3>. QED BY <2>1, <3>1, <3>2
  <2>. QED BY <2>1 DEF BackupIsBehind
<1>3. NewestIsNewest' BY <1>0, <1>1 DEF Fresh, NewestIsNewest
<1>4. HoldersAreAhead'
  <2>1. ASSUME NEW k \in Keys, k \notin crossed', NEW i \in Ids, Holds(i, k)'
        PROVE  blob'[k] <= context'[i].session
    <3>1. CASE Holds(i, k) /\ context[i].session <= context'[i].session
      <4>1. blob[k] <= context[i].session BY <2>1, <3>1 DEF Fresh, HoldersAreAhead
      <4>. QED BY <1>0, <1>1, <3>1, <4>1
    <3>2. CASE blob[k] <= context'[i].session BY <3>2
    <3>. QED BY <2>1, <3>1, <3>2
  <2>2. ASSUME NEW k \in Keys, k \notin crossed', NEW c \in Calls, Carries(c, k)'
        PROVE  blob'[k] <= seen'[c]
    <3>1. CASE Carries(c, k) /\ seen'[c] = seen[c] BY <2>2, <3>1 DEF Fresh, HoldersAreAhead
    <3>2. CASE blob[k] <= seen'[c] BY <3>2
    <3>. QED BY <2>2, <3>1, <3>2
  <2>. QED BY <2>1, <2>2 DEF HoldersAreAhead
<1>. QED BY <1>2, <1>3, <1>4 DEF Fresh

\* A step that moves no session.
LEMMA QuietKept ==
  ASSUME TypeOK, TypeOK', Fresh, UNCHANGED <<blob, newest, crossed>>,
         \A i \in Ids : context'[i].session \in {0, context[i].session},
         \A i \in Ids : context'[i].state \in {"open", "sealing"} =>
           /\ context[i].state \in {"open", "sealing"} /\ context'[i].key = context[i].key
           /\ context'[i].session = context[i].session,
         \A c \in Calls : seen'[c] \in {0, seen[c]},
         \A c \in Calls : pc'[c] \in {"open", "save"} =>
           pc'[c] = pc[c] /\ key'[c] = key[c] /\ seen'[c] = seen[c],
         \A c \in Calls : pc'[c] = "save" /\ conn'[c] # NoConn =>
           /\ conn'[c] = conn[c] /\ conn[c] \in Ids
           /\ context'[conn[c]].session = context[conn[c]].session
  PROVE  Fresh'
<1>0. /\ newest \in Nat /\ \A i \in Ids : context[i].session \in Nat /\ context[i].session <= newest
      /\ \A c \in Calls : seen[c] \in Nat /\ seen[c] <= newest
  BY SessionsAreNumbers DEF Numbers, Fresh, NewestIsNewest
<1>1. newest <= newest' /\ crossed \subseteq crossed' BY <1>0
<1>2. \A i \in Ids : context'[i].session <= newest' BY <1>0
<1>3. \A c \in Calls : seen'[c] <= newest' BY <1>0
<1>4. \A i \in Ids, k \in Keys : Holds(i, k)' =>
        Holds(i, k) /\ context[i].session <= context'[i].session
  BY <1>0 DEF Holds
<1>5. \A c \in Calls, k \in Keys : Carries(c, k)' => Carries(c, k) /\ seen'[c] = seen[c]
  BY DEF Carries
<1>6. \A c \in Calls : pc'[c] = "save" /\ conn'[c] # NoConn =>
        /\ pc[c] = "save" /\ conn'[c] = conn[c] /\ seen'[c] = seen[c] /\ conn[c] \in Ids
        /\ context[conn[c]].session <= context'[conn[c]].session
  BY <1>0
<1>. QED BY <1>1, <1>2, <1>3, <1>4, <1>5, <1>6, FreshKept

\* ... because it does not touch the contexts, the saves or what was read for one.
LEMMA StillKept ==
  ASSUME TypeOK, TypeOK', Fresh, UNCHANGED <<blob, newest, crossed, context>>,
         \A c \in Calls : seen'[c] \in {0, seen[c]},
         \A c \in Calls : pc'[c] \in {"open", "save"} =>
           pc'[c] = pc[c] /\ key'[c] = key[c] /\ seen'[c] = seen[c] /\ conn'[c] = conn[c]
  PROVE  Fresh'
<1>1. \A c \in Calls : pc'[c] = "save" /\ conn'[c] # NoConn =>
        /\ conn'[c] = conn[c] /\ conn[c] \in Ids
        /\ context'[conn[c]].session = context[conn[c]].session
  BY DEF TypeOK
<1>. QED BY <1>1, QuietKept

\* A context that is busy or no longer, or begins to be sealed, keeps its session.
LEMMA EditKept ==
  ASSUME TypeOK, NEW i \in Ids, context[i].state = "open", NEW x,
         context' = [context EXCEPT ![i] = x],
         \/ \E b \in BOOLEAN : x = [context[i] EXCEPT !.busy = b]
         \/ x = [context[i] EXCEPT !.state = "sealing"]
  PROVE  \A j \in Ids : /\ context'[j].session = context[j].session
                        /\ context'[j].key = context[j].key
                        /\ context'[j].state \in {"open", "sealing"} =>
                             context[j].state \in {"open", "sealing"}
<1>1. DOMAIN context[i] = {"worker", "key", "session", "state", "busy"} BY NotClosed, OpenContext
<1>2. x.session = context[i].session /\ x.key = context[i].key BY <1>1
<1>. QED BY <1>2 DEF TypeOK

LEMMA JobFresh ==
  ASSUME Base, TypeOK', Fresh, NEW c \in Jobs, JobStep(c) \/ Rotate(c) \/ Reopen(c)
  PROVE  Fresh'
<1>. USE DEF Base, store, claims, pool, calls
<1>0. /\ newest \in Nat /\ \A i \in Ids : context[i].session \in Nat /\ context[i].session <= newest
      /\ \A d \in Calls : seen[d] \in Nat /\ seen[d] <= newest
      /\ \A k \in Keys : blob[k] \in Nat /\ blob[k] <= newest
  BY SessionsAreNumbers DEF Numbers, Fresh, NewestIsNewest
<1>1. CASE Begin(c) \/ Room(c) \/ Reopen(c)
  <2>1. UNCHANGED <<blob, newest, crossed, context, seen, key>> BY <1>1 DEF Begin, Room, Reopen
  <2>2. \A d \in Calls : pc'[d] \in {"open", "save"} => pc'[d] = pc[d] /\ conn'[d] = conn[d]
    BY <1>1 DEF Begin, Room, Reopen, TypeOK
  <2>. QED BY <2>1, <2>2, StillKept
<1>2. CASE Refused(c) \/ GiveUp(c) \/ OpenFails(c)
  <2>1. Leave(c) /\ UNCHANGED <<blob, newest, crossed, context>>
    BY <1>2 DEF Refused, GiveUp, OpenFails
  <2>2. \A d \in Calls : seen'[d] \in {0, seen[d]} BY <2>1 DEF Leave, TypeOK
  <2>3. \A d \in Calls : pc'[d] \in {"open", "save"} =>
          pc'[d] = pc[d] /\ key'[d] = key[d] /\ seen'[d] = seen[d] /\ conn'[d] = conn[d]
    BY <2>1 DEF Leave, TypeOK
  <2>. QED BY <2>1, <2>2, <2>3, StillKept
<1>3. CASE Resolve(c)
  <2>1. CASE mapped[Slot(c)] = NoConn
    <3>1. UNCHANGED <<blob, newest, crossed, context, seen, key, conn>>
          /\ pc' = [pc EXCEPT ![c] = "slot"]
      BY <1>3, <2>1 DEF Resolve
    <3>2. \A d \in Calls : pc'[d] \in {"open", "save"} => pc'[d] = pc[d] BY <3>1 DEF TypeOK
    <3>. QED BY <3>1, <3>2, StillKept
  <2>2. CASE mapped[Slot(c)] # NoConn
    <3>. DEFINE i == mapped[Slot(c)]
    <3>1. /\ pc' = [pc EXCEPT ![c] = "work"] /\ conn' = [conn EXCEPT ![c] = i]
          /\ context' = [context EXCEPT ![i] = [context[i] EXCEPT !.busy = TRUE]]
          /\ UNCHANGED <<blob, newest, crossed, seen, key>>
      BY <1>3, <2>2 DEF Resolve
    <3>2. i \in Ids /\ context[i].state = "open" BY <2>2, SlotOfCall DEF TypeOK
    <3>3. \A j \in Ids : /\ context'[j].session = context[j].session
                         /\ context'[j].key = context[j].key
                         /\ context'[j].state \in {"open", "sealing"} =>
                              context[j].state \in {"open", "sealing"}
      <4>1. \E b \in BOOLEAN : [context[i] EXCEPT !.busy = TRUE] = [context[i] EXCEPT !.busy = b]
        OBVIOUS
      <4>. QED BY <3>1, <3>2, <4>1, EditKept
    <3>4. \A d \in Calls : pc'[d] \in {"open", "save"} => pc'[d] = pc[d] /\ conn'[d] = conn[d]
      BY <3>1 DEF TypeOK
    <3>5. \A d \in Calls : pc'[d] = "save" /\ conn'[d] # NoConn =>
            /\ conn'[d] = conn[d] /\ conn[d] \in Ids
            /\ context'[conn[d]].session = context[conn[d]].session
      BY <3>3, <3>4 DEF TypeOK
    <3>. QED BY <3>1, <3>3, <3>4, <3>5, QuietKept
  <2>. QED BY <2>1, <2>2
<1>4. CASE Evict(c)
  <2>1. PICK i \in Ids : /\ context[i].state = "open" /\ Unmap(i) /\ conn' = [conn EXCEPT ![c] = i]
    BY <1>4 DEF Evict, Evictable, Idle
  <2>2. \A j \in Ids : /\ context'[j].session = context[j].session
                       /\ context'[j].key = context[j].key
                       /\ context'[j].state \in {"open", "sealing"} =>
                            context[j].state \in {"open", "sealing"}
    BY <2>1, EditKept DEF Unmap
  <2>3. pc' = [pc EXCEPT ![c] = "evict"] /\ UNCHANGED <<blob, newest, crossed, seen, key>>
    BY <1>4 DEF Evict
  <2>4. \A d \in Calls : pc'[d] \in {"open", "save"} => pc'[d] = pc[d] /\ conn'[d] = conn[d]
    BY <2>1, <2>3 DEF TypeOK
  <2>5. \A d \in Calls : pc'[d] = "save" /\ conn'[d] # NoConn =>
          /\ conn'[d] = conn[d] /\ conn[d] \in Ids
          /\ context'[conn[d]].session = context[conn[d]].session
    BY <2>2, <2>4 DEF TypeOK
  <2>. QED BY <2>2, <2>3, <2>4, <2>5, QuietKept
<1>5. CASE Load(c)
  <2>1. /\ seen' = [seen EXCEPT ![c] = blob[key[c]]] /\ pc' = [pc EXCEPT ![c] = "open"]
        /\ UNCHANGED <<blob, newest, crossed, context, key, conn>>
    BY <1>5 DEF Load
  <2>2. key[c] \in Keys BY SlotOfCall
  <2>3. \A d \in Calls : seen'[d] <= newest' BY <1>0, <2>1, <2>2 DEF TypeOK
  <2>4. \A i \in Ids, k \in Keys : Holds(i, k)' =>
          Holds(i, k) /\ context[i].session <= context'[i].session
    BY <1>0, <2>1 DEF Holds
  <2>5. \A d \in Calls, k \in Keys : Carries(d, k)' =>
          \/ Carries(d, k) /\ seen'[d] = seen[d]
          \/ blob[k] <= seen'[d]
    BY <1>0, <2>1 DEF Carries, TypeOK
  <2>6. \A d \in Calls : pc'[d] = "save" /\ conn'[d] # NoConn =>
          /\ pc[d] = "save" /\ conn'[d] = conn[d] /\ seen'[d] = seen[d] /\ conn[d] \in Ids
          /\ context[conn[d]].session <= context'[conn[d]].session
    BY <1>0, <2>1 DEF TypeOK
  <2>7. newest <= newest' /\ crossed \subseteq crossed' /\ \A i \in Ids : context'[i].session <= newest'
    BY <1>0, <2>1
  <2>. QED BY <2>1, <2>3, <2>4, <2>5, <2>6, <2>7, FreshKept
<1>9. CASE LoadUnreadable(c)
  <2>1. /\ seen' = [seen EXCEPT ![c] = 0] /\ pc' = [pc EXCEPT ![c] = "open"]
        /\ crossed' = crossed \cup {key[c]}
        /\ UNCHANGED <<blob, newest, context, key, conn>>
    BY <1>9 DEF LoadUnreadable
  <2>2. crossed \subseteq crossed' /\ key[c] \in crossed' BY <2>1
  <2>3. \A d \in Calls : seen'[d] <= newest' BY <1>0, <2>1 DEF TypeOK
  <2>4. \A i \in Ids, k \in Keys : Holds(i, k)' =>
          Holds(i, k) /\ context[i].session <= context'[i].session
    BY <1>0, <2>1 DEF Holds
  <2>5. \A d \in Calls, k \in Keys : Carries(d, k)' =>
          (Carries(d, k) /\ seen'[d] = seen[d]) \/ k \in crossed'
    BY <2>1, <2>2 DEF Carries, TypeOK
  <2>6. \A d \in Calls : pc'[d] = "save" /\ conn'[d] # NoConn =>
          /\ pc[d] = "save" /\ conn'[d] = conn[d] /\ seen'[d] = seen[d] /\ conn[d] \in Ids
          /\ context[conn[d]].session <= context'[conn[d]].session
    BY <1>0, <2>1 DEF TypeOK
  <2>7. newest <= newest' /\ \A i \in Ids : context'[i].session <= newest' BY <1>0, <2>1
  <2>. QED BY <2>1, <2>2, <2>3, <2>4, <2>5, <2>6, <2>7, FreshKept
<1>6. CASE Open(c)
  <2>1. PICK i \in Ids, b \in BOOLEAN :
          /\ context[i].state = "closed"
          /\ context' = [context EXCEPT ![i] =
               [worker |-> WorkerOf[c], key |-> key[c], session |-> seen[c], state |-> "open", busy |-> b]]
          /\ conn' = [conn EXCEPT ![c] = i]
    BY <1>6 DEF Open, Running
  <2>2. /\ seen' = [seen EXCEPT ![c] = 0] /\ pc[c] = "open" /\ pc' = [pc EXCEPT ![c] = "work"]
        /\ UNCHANGED <<blob, newest, crossed, key>>
    BY <1>6 DEF Open
  <2>3. newest <= newest' /\ crossed \subseteq crossed' BY <1>0, <2>2
  <2>4. \A j \in Ids : context'[j].session <= newest' BY <1>0, <2>1, <2>2 DEF TypeOK
  <2>5. \A d \in Calls : seen'[d] <= newest' BY <1>0, <2>2 DEF TypeOK
  <2>6. \A d \in Calls, k \in Keys : Carries(d, k)' => Carries(d, k) /\ seen'[d] = seen[d]
    BY <2>2 DEF Carries, TypeOK
  <2>7. \A d \in Calls : pc'[d] = "save" /\ conn'[d] # NoConn =>
          /\ pc[d] = "save" /\ conn'[d] = conn[d] /\ seen'[d] = seen[d] /\ conn[d] \in Ids
          /\ context[conn[d]].session <= context'[conn[d]].session
    <3>1. ASSUME NEW d \in Calls, pc'[d] = "save", conn'[d] # NoConn
          PROVE  /\ pc[d] = "save" /\ conn'[d] = conn[d] /\ seen'[d] = seen[d] /\ conn[d] \in Ids
                 /\ context[conn[d]].session <= context'[conn[d]].session
      <4>1. d # c /\ pc[d] = "save" /\ conn'[d] = conn[d] /\ seen'[d] = seen[d] /\ conn[d] \in Ids
        BY <2>1, <2>2, <3>1 DEF TypeOK
      <4>2. conn[d] # i BY <2>1, <3>1, <4>1 DEF ConnIsThere, Running
      <4>3. context'[conn[d]] = context[conn[d]] BY <2>1, <4>1, <4>2 DEF TypeOK
      <4>. QED BY <1>0, <4>1, <4>3
    <3>. QED BY <3>1
  <2>8. ASSUME NEW j \in Ids, NEW k \in Keys, Holds(j, k)'
        PROVE  \/ Holds(j, k) /\ context[j].session <= context'[j].session
               \/ k \in crossed
               \/ blob[k] <= context'[j].session
    <3>1. CASE j = i
      <4>1. context'[j].key = key[c] /\ context'[j].session = seen[c] BY <2>1, <3>1 DEF TypeOK
      <4>2. Carries(c, k) BY <2>2, <2>8, <4>1 DEF Holds, Carries
      <4>. QED BY <4>1, <4>2 DEF Fresh, HoldersAreAhead
    <3>2. CASE j # i
      <4>1. context'[j] = context[j] BY <2>1, <3>2 DEF TypeOK
      <4>. QED BY <1>0, <2>8, <4>1 DEF Holds
    <3>. QED BY <3>1, <3>2
  <2>. QED BY <2>2, <2>3, <2>4, <2>5, <2>6, <2>7, <2>8, FreshKept
<1>7. CASE Rotate(c)
  <2>. DEFINE i == conn[c]
  <2>1. /\ i \in Ids /\ newest' = newest + 1
        /\ context' = [context EXCEPT ![i] = [context[i] EXCEPT !.session = newest + 1]]
        /\ UNCHANGED <<blob, crossed, pc, key, conn, seen>>
    BY <1>7 DEF Rotate, TypeOK
  <2>2. Running(i) BY <1>7, <2>1 DEF Rotate, ConnIsThere
  <2>3. DOMAIN context[i] = {"worker", "key", "session", "state", "busy"}
    BY <2>1, <2>2, NotClosed, OpenContext DEF Running
  <2>4. \A j \in Ids : /\ context'[j].state = context[j].state /\ context'[j].key = context[j].key
                       /\ context[j].session <= context'[j].session /\ context'[j].session <= newest'
    BY <1>0, <2>1, <2>3 DEF TypeOK
  <2>5. newest <= newest' /\ crossed \subseteq crossed' /\ \A d \in Calls : seen'[d] <= newest'
    BY <1>0, <2>1
  <2>6. \A j \in Ids, k \in Keys : Holds(j, k)' =>
          Holds(j, k) /\ context[j].session <= context'[j].session
    BY <2>4 DEF Holds
  <2>7. \A d \in Calls, k \in Keys : Carries(d, k)' => Carries(d, k) /\ seen'[d] = seen[d]
    BY <2>1 DEF Carries
  <2>8. \A d \in Calls : pc'[d] = "save" /\ conn'[d] # NoConn =>
          /\ pc[d] = "save" /\ conn'[d] = conn[d] /\ seen'[d] = seen[d] /\ conn[d] \in Ids
          /\ context[conn[d]].session <= context'[conn[d]].session
    BY <2>1, <2>4 DEF TypeOK
  <2>. QED BY <2>1, <2>4, <2>5, <2>6, <2>7, <2>8, FreshKept
<1>8. CASE Finish(c)
  <2>1. Leave(c) /\ UNCHANGED <<blob, newest, crossed>> BY <1>8 DEF Finish
  <2>2. \A d \in Calls : seen'[d] \in {0, seen[d]} BY <2>1 DEF Leave, TypeOK
  <2>3. \A d \in Calls : pc'[d] \in {"open", "save"} =>
          pc'[d] = pc[d] /\ key'[d] = key[d] /\ seen'[d] = seen[d] /\ conn'[d] = conn[d]
    BY <2>1 DEF Leave, TypeOK
  <2>4. \A j \in Ids : /\ context'[j].session = context[j].session
                       /\ context'[j].key = context[j].key /\ context'[j].state = context[j].state
    <3>1. CASE conn[c] = NoConn BY <1>8, <3>1 DEF Finish
    <3>2. CASE conn[c] # NoConn
      <4>1. conn[c] \in Ids /\ Running(conn[c]) BY <3>2 DEF TypeOK, ConnIsThere
      <4>2. DOMAIN context[conn[c]] = {"worker", "key", "session", "state", "busy"}
        BY <4>1, NotClosed, OpenContext DEF Running
      <4>3. context' = [context EXCEPT ![conn[c]] = [context[conn[c]] EXCEPT !.busy = FALSE]]
        BY <1>8, <3>2 DEF Finish
      <4>. QED BY <4>1, <4>2, <4>3 DEF TypeOK
    <3>. QED BY <3>1, <3>2
  <2>5. \A d \in Calls : pc'[d] = "save" /\ conn'[d] # NoConn =>
          /\ conn'[d] = conn[d] /\ conn[d] \in Ids
          /\ context'[conn[d]].session = context[conn[d]].session
    BY <2>3, <2>4 DEF TypeOK
  <2>. QED BY <2>1, <2>2, <2>3, <2>4, <2>5, QuietKept
<1>. QED BY <1>1, <1>2, <1>3, <1>4, <1>5, <1>6, <1>7, <1>8, <1>9 DEF JobStep

\* A step that saves s for k: by context x, or by call x that read it from context i.
Saves(k, s, x, i) == blob' = [blob EXCEPT ![k] = s] /\ crossed' = Crossing(k, x, i)

LEMMA SaveKept ==
  ASSUME TypeOK, TypeOK', Fresh, NEW k \in Keys, NEW s \in Nat, NEW x, NEW i,
         Saves(k, s, x, i), s <= newest', newest <= newest',
         \A j \in Ids : context'[j].session = context[j].session,
         \A j \in Ids, l \in Keys : Holds(j, l)' => Holds(j, l) /\ (l = k => j # x),
         \A j \in Ids : j = i => s <= context[j].session,
         \A c \in Calls : seen'[c] \in {0, seen[c]},
         \A c \in Calls : pc'[c] \in {"open", "save"} =>
           /\ pc'[c] = pc[c] /\ key'[c] = key[c] /\ seen'[c] = seen[c] /\ conn'[c] = conn[c]
           /\ key[c] = k => c # x
  PROVE  Fresh'
<1>. USE DEF Saves
<1>0. /\ newest \in Nat /\ newest' \in Nat
      /\ \A l \in Keys : blob[l] \in Nat /\ blob[l] <= newest
      /\ \A j \in Ids : context[j].session \in Nat /\ context[j].session <= newest
      /\ \A c \in Calls : seen[c] \in Nat /\ seen[c] <= newest
  <2>1. Numbers' BY SessionsAreNumbers, PTL
  <2>. QED BY <2>1, SessionsAreNumbers DEF Numbers, Fresh, NewestIsNewest
<1>1. \A l \in Keys : blob'[l] = IF l = k THEN s ELSE blob[l] BY DEF TypeOK
<1>2. BackupIsBehind'
  <2>1. ASSUME NEW c \in Calls, pc'[c] = "save", conn'[c] # NoConn
        PROVE  seen'[c] <= context'[conn'[c]].session
    <3>1. pc[c] = "save" /\ seen'[c] = seen[c] /\ conn'[c] = conn[c] /\ conn[c] \in Ids
      BY <2>1 DEF TypeOK
    <3>. QED BY <2>1, <3>1 DEF Fresh, BackupIsBehind
  <2>. QED BY <2>1 DEF BackupIsBehind
<1>3. NewestIsNewest' BY <1>0, <1>1 DEF NewestIsNewest
<1>4. HoldersAreAhead'
  <2>1. crossed \subseteq crossed' BY DEF Crossing
  <2>2. ASSUME NEW l \in Keys, l \notin crossed', NEW j \in Ids, Holds(j, l)'
        PROVE  blob'[l] <= context'[j].session
    <3>1. CASE l = k
      <4>1. Holds(j, k) /\ j # x BY <2>2, <3>1
      <4>2. j = i BY <2>2, <3>1, <4>1 DEF Crossing
      <4>. QED BY <1>1, <3>1, <4>2
    <3>2. CASE l # k
      BY <1>1, <2>1, <2>2, <3>2 DEF Fresh, HoldersAreAhead
    <3>. QED BY <3>1, <3>2
  <2>3. ASSUME NEW l \in Keys, l \notin crossed', NEW c \in Calls, Carries(c, l)'
        PROVE  blob'[l] <= seen'[c]
    <3>0. Carries(c, l) /\ seen'[c] = seen[c] /\ (l = k => c # x) BY <2>3 DEF Carries
    <3>1. l # k BY <2>3, <3>0 DEF Crossing
    <3>. QED BY <1>1, <2>1, <2>3, <3>0, <3>1 DEF Fresh, HoldersAreAhead
  <2>. QED BY <2>2, <2>3 DEF HoldersAreAhead
<1>. QED BY <1>2, <1>3, <1>4 DEF Fresh

LEMMA SealFresh ==
  ASSUME Base, TypeOK', Fresh, NEW i \in Ids, Sweep(i) \/ Shutdown(i) \/ SealStep(i)
  PROVE  Fresh'
<1>. USE DEF Base, store, claims, calls
<1>0. /\ newest \in Nat /\ \A j \in Ids : context[j].session \in Nat /\ context[j].session <= newest
  BY SessionsAreNumbers DEF Numbers, Fresh, NewestIsNewest
<1>1. CASE Sweep(i) \/ Shutdown(i)
  <2>1. \A j \in Ids : /\ context'[j].session = context[j].session
                       /\ context'[j].key = context[j].key
                       /\ context'[j].state \in {"open", "sealing"} =>
                            context[j].state \in {"open", "sealing"}
    BY <1>1, EditKept DEF Sweep, Shutdown, Idle, Unmap
  <2>2. UNCHANGED <<blob, newest, crossed, pc, key, conn, seen>> BY <1>1 DEF Sweep, Shutdown
  <2>3. \A d \in Calls : pc'[d] = "save" /\ conn'[d] # NoConn =>
          /\ conn'[d] = conn[d] /\ conn[d] \in Ids
          /\ context'[conn[d]].session = context[conn[d]].session
    BY <2>1, <2>2 DEF TypeOK
  <2>. QED BY <2>1, <2>2, <2>3, QuietKept
<1>2. CASE SealSave(i)
  <2>1. /\ context[i].state = "sealing"
        /\ blob' = [blob EXCEPT ![context[i].key] = context[i].session]
        /\ context' = [context EXCEPT ![i] = [context[i] EXCEPT !.state = "saved"]]
        /\ crossed' = Crossing(context[i].key, i, i)
        /\ UNCHANGED <<newest, pc, key, conn, seen>>
    BY <1>2 DEF SealSave
  <2>2. /\ DOMAIN context[i] = {"worker", "key", "session", "state", "busy"}
        /\ context[i].key \in Keys /\ context[i].session \in Nat
    BY <1>0, <2>1, NotClosed, OpenContext
  <2>3. PICK k \in Keys : k = context[i].key BY <2>2
  <2>4. PICK s \in Nat : s = context[i].session BY <2>2
  <2>5. Saves(k, s, i, i) BY <2>1, <2>3, <2>4 DEF Saves
  <2>6. \A j \in Ids : context'[j].session = context[j].session BY <2>1, <2>2 DEF TypeOK
  <2>7. \A j \in Ids, l \in Keys : Holds(j, l)' => Holds(j, l) /\ (l = k => j # i)
    BY <2>1, <2>2 DEF Holds, TypeOK
  <2>8. /\ s <= newest' /\ newest <= newest'
        /\ \A j \in Ids : j = i => s <= context[j].session
    BY <1>0, <2>1, <2>4
  <2>9. /\ \A c \in Calls : seen'[c] \in {0, seen[c]}
        /\ \A c \in Calls : pc'[c] \in {"open", "save"} =>
             /\ pc'[c] = pc[c] /\ key'[c] = key[c] /\ seen'[c] = seen[c] /\ conn'[c] = conn[c]
             /\ key[c] = k => c # i
    BY <2>1
  <2>. QED BY <2>5, <2>6, <2>7, <2>8, <2>9, SaveKept
<1>3. CASE SealEnd(i)
  <2>1. /\ context[i].state = "saved" /\ context' = [context EXCEPT ![i] = Closed]
        /\ pc' = [c \in Calls |-> IF pc[c] = "evict" /\ conn[c] = i THEN "slot" ELSE pc[c]]
        /\ conn' = [c \in Calls |-> IF conn[c] = i THEN NoConn ELSE conn[c]]
        /\ UNCHANGED <<blob, newest, crossed, key, seen>>
    BY <1>3 DEF SealEnd
  <2>2. \A j \in Ids : j # i => context'[j] = context[j] BY <2>1 DEF TypeOK
  <2>3. context'[i].session = 0 /\ context'[i].state = "closed" BY <2>1 DEF TypeOK, Closed
  <2>4. \A d \in Calls : pc'[d] \in {"open", "save"} => pc'[d] = pc[d] BY <2>1
  <2>5. \A d \in Calls : pc'[d] = "save" /\ conn'[d] # NoConn =>
          /\ conn'[d] = conn[d] /\ conn[d] \in Ids
          /\ context'[conn[d]].session = context[conn[d]].session
    BY <2>1, <2>2 DEF TypeOK
  <2>6. \A j \in Ids : context'[j].session \in {0, context[j].session} BY <2>2, <2>3
  <2>7. \A j \in Ids : context'[j].state \in {"open", "sealing"} =>
          /\ context[j].state \in {"open", "sealing"} /\ context'[j].key = context[j].key
          /\ context'[j].session = context[j].session
    BY <2>2, <2>3
  <2>. QED BY <2>1, <2>4, <2>5, <2>6, <2>7, QuietKept
<1>4. CASE SealFails(i)
  <2>1. /\ context[i].state = "sealing"
        /\ context' = [context EXCEPT ![i] = [context[i] EXCEPT !.state = "saved"]]
        /\ UNCHANGED <<blob, newest, crossed, pc, key, conn, seen>>
    BY <1>4 DEF SealFails
  <2>2. DOMAIN context[i] = {"worker", "key", "session", "state", "busy"}
    BY <2>1, NotClosed, OpenContext
  <2>3. \A j \in Ids : context'[j].session = context[j].session BY <2>1, <2>2 DEF TypeOK
  <2>4. \A j \in Ids : context'[j].state \in {"open", "sealing"} => context'[j] = context[j]
    BY <2>1, <2>2 DEF TypeOK
  <2>5. \A d \in Calls : pc'[d] = "save" /\ conn'[d] # NoConn =>
          /\ conn'[d] = conn[d] /\ conn[d] \in Ids
          /\ context'[conn[d]].session = context[conn[d]].session
    BY <2>1, <2>3 DEF TypeOK
  <2>. QED BY <2>1, <2>3, <2>4, <2>5, QuietKept
<1>. QED BY <1>1, <1>2, <1>3, <1>4 DEF SealStep

\* Contexts may be closed, where nothing refers to them any more.
LEMMA CloseKept ==
  ASSUME TypeOK, TypeOK', ConnIsThere, Fresh, UNCHANGED <<blob, newest, crossed>>,
         \A j \in Ids : context'[j] = context[j] \/ context'[j] = Closed,
         \A d \in Calls : seen'[d] \in {0, seen[d]},
         \A d \in Calls : pc'[d] \in {"open", "save"} =>
           /\ pc'[d] = pc[d] /\ key'[d] = key[d] /\ seen'[d] = seen[d]
           /\ conn'[d] = NoConn \/ (conn'[d] = conn[d] /\ context'[conn[d]] = context[conn[d]])
  PROVE  Fresh'
<1>1. \A j \in Ids : context'[j].session \in {0, context[j].session} BY DEF Closed
<1>2. \A j \in Ids : context'[j].state \in {"open", "sealing"} => context'[j] = context[j]
  BY DEF Closed
<1>3. \A d \in Calls : pc'[d] = "save" /\ conn'[d] # NoConn =>
        /\ conn'[d] = conn[d] /\ conn[d] \in Ids
        /\ context'[conn[d]].session = context[conn[d]].session
  BY DEF TypeOK
<1>. QED BY <1>1, <1>2, <1>3, QuietKept

LEMMA ForgetFresh ==
  ASSUME Base, TypeOK', Fresh, NEW c \in Errands, NEW i \in Ids \cup {NoConn}, NEW q,
         q \notin {"open", "save"}, Forget(c, i, q), UNCHANGED <<blob, newest, crossed, key, seen>>
  PROVE  Fresh'
<1>. USE DEF Base
<1>1. \A j \in Ids : context'[j] = context[j] \/ context'[j] = Closed BY DEF Forget, TypeOK
<1>2. \A j \in Ids : j # i => context'[j] = context[j] BY DEF Forget, TypeOK
<1>3. \A d \in Calls : pc'[d] \in {"open", "save"} =>
        /\ pc'[d] = pc[d]
        /\ conn'[d] = NoConn \/ (conn'[d] = conn[d] /\ context'[conn[d]] = context[conn[d]])
  BY <1>2 DEF Forget, TypeOK
<1>. QED BY <1>1, <1>3, CloseKept

LEMMA ErrandStartFresh ==
  ASSUME Base, TypeOK', Fresh, NEW c \in Errands, ErrandStart(c)
  PROVE  Fresh'
<1>. USE DEF Base, claims, pool
<1>0. /\ newest \in Nat /\ \A i \in Ids : context[i].session \in Nat /\ context[i].session <= newest
      /\ \A d \in Calls : seen[d] \in Nat /\ seen[d] <= newest
      /\ \A k \in Keys : blob[k] \in Nat /\ blob[k] <= newest
  BY SessionsAreNumbers DEF Numbers, Fresh, NewestIsNewest
<1>1. ASSUME NEW k \in Keys, StartImport(c, k) PROVE Fresh'
  <2>1. PICK q : /\ q \in {"store", "drop"} /\ pc' = [pc EXCEPT ![c] = q]
                 /\ key' = [key EXCEPT ![c] = k]
    <3>1. \E q : q \in {"store", "drop"} /\ Start(c, k, q) BY <1>1 DEF StartImport
    <3>. QED BY <3>1 DEF Start, Became
  <2>2. PICK i : conn' = [conn EXCEPT ![c] = i] BY <1>1 DEF StartImport
  <2>3. UNCHANGED <<blob, newest, crossed, context, seen>> BY <1>1 DEF StartImport, store
  <2>4. \A d \in Calls : pc'[d] \in {"open", "save"} =>
          pc'[d] = pc[d] /\ key'[d] = key[d] /\ seen'[d] = seen[d] /\ conn'[d] = conn[d]
    BY <2>1, <2>2, <2>3 DEF TypeOK
  <2>. QED BY <2>3, <2>4, StillKept
<1>2. ASSUME NEW k \in Keys, StoreDesktop(c, k) PROVE Fresh'
  <2>1. /\ newest' = newest + 1 /\ Saves(k, newest + 1, c, NoConn)
        /\ pc' = [pc EXCEPT ![c] = "stored"] /\ key' = [key EXCEPT ![c] = k]
        /\ UNCHANGED <<context, conn, seen>>
    BY <1>2 DEF StoreDesktop, SignedIn, Start, Became, Saves
  <2>2. PICK s \in Nat : s = newest + 1 BY <1>0
  <2>3. /\ Saves(k, s, c, NoConn) /\ s <= newest' /\ newest <= newest' BY <1>0, <2>1, <2>2
  <2>4. \A j \in Ids, l \in Keys : Holds(j, l)' => Holds(j, l) /\ (l = k => j # c)
    BY <2>1 DEF Holds
  <2>5. \A d \in Calls : pc'[d] \in {"open", "save"} =>
          /\ pc'[d] = pc[d] /\ key'[d] = key[d] /\ seen'[d] = seen[d] /\ conn'[d] = conn[d]
          /\ key[d] = k => d # c
    BY <2>1 DEF TypeOK
  <2>. QED BY <2>1, <2>3, <2>4, <2>5, SaveKept
<1>3. ASSUME NEW i \in Ids, ReadForBackup(c, i) PROVE Fresh'
  <2>1. /\ context[i].state = "open" /\ pc' = [pc EXCEPT ![c] = "save"]
        /\ key' = [key EXCEPT ![c] = context[i].key]
        /\ seen' = [seen EXCEPT ![c] = context[i].session] /\ conn' = [conn EXCEPT ![c] = i]
        /\ UNCHANGED <<blob, newest, crossed, context>>
    BY <1>3 DEF ReadForBackup, Start, Became, store
  <2>2. newest <= newest' /\ crossed \subseteq crossed' BY <1>0, <2>1
  <2>3. \A j \in Ids : context'[j].session <= newest' BY <1>0, <2>1
  <2>4. \A d \in Calls : seen'[d] <= newest' BY <1>0, <2>1 DEF TypeOK
  <2>5. \A j \in Ids, k \in Keys : Holds(j, k)' =>
          Holds(j, k) /\ context[j].session <= context'[j].session
    BY <1>0, <2>1 DEF Holds
  <2>6. \A d \in Calls, k \in Keys : Carries(d, k)' =>
          \/ Carries(d, k) /\ seen'[d] = seen[d]
          \/ k \in crossed
          \/ blob[k] <= seen'[d]
    <3>1. ASSUME NEW d \in Calls, NEW k \in Keys, Carries(d, k)', k \notin crossed, d = c
          PROVE  blob[k] <= seen'[d]
      <4>1. context[i].key = k /\ seen'[d] = context[i].session BY <2>1, <3>1 DEF Carries, TypeOK
      <4>2. Holds(i, k) BY <2>1, <4>1 DEF Holds
      <4>. QED BY <3>1, <4>1, <4>2 DEF Fresh, HoldersAreAhead
    <3>2. ASSUME NEW d \in Calls, NEW k \in Keys, Carries(d, k)', d # c
          PROVE  Carries(d, k) /\ seen'[d] = seen[d]
      BY <2>1, <3>2 DEF Carries, TypeOK
    <3>. QED BY <3>1, <3>2
  <2>7. \A d \in Calls : pc'[d] = "save" /\ conn'[d] # NoConn =>
          \/ /\ pc[d] = "save" /\ conn'[d] = conn[d] /\ seen'[d] = seen[d] /\ conn[d] \in Ids
             /\ context[conn[d]].session <= context'[conn[d]].session
          \/ seen'[d] <= context'[conn'[d]].session
    <3>1. seen'[c] <= context'[conn'[c]].session BY <1>0, <2>1 DEF TypeOK
    <3>2. ASSUME NEW d \in Calls, d # c, pc'[d] = "save", conn'[d] # NoConn
          PROVE  /\ pc[d] = "save" /\ conn'[d] = conn[d] /\ seen'[d] = seen[d] /\ conn[d] \in Ids
                 /\ context[conn[d]].session <= context'[conn[d]].session
      <4>1. pc[d] = "save" /\ conn'[d] = conn[d] /\ seen'[d] = seen[d] /\ conn[d] \in Ids
        BY <2>1, <3>2 DEF TypeOK
      <4>. QED BY <1>0, <2>1, <4>1
    <3>. QED BY <3>1, <3>2
  <2>. QED BY <2>1, <2>2, <2>3, <2>4, <2>5, <2>6, <2>7, FreshKept
<1>. QED BY <1>1, <1>2, <1>3 DEF ErrandStart

LEMMA ErrandMovesFresh ==
  ASSUME Base, TypeOK', Fresh, NEW c \in Errands, ErrandStep(c)
  PROVE  Fresh'
<1>. USE DEF Base, claims, pool, store
<1>0. /\ newest \in Nat /\ \A i \in Ids : context[i].session \in Nat /\ context[i].session <= newest
      /\ \A d \in Calls : seen[d] \in Nat /\ seen[d] <= newest
      /\ \A k \in Keys : blob[k] \in Nat /\ blob[k] <= newest
      /\ c \in Calls
  BY SessionsAreNumbers DEF Numbers, Fresh, NewestIsNewest
<1>1. CASE DropForImport(c)
  <2>1. PICK i \in Ids \cup {NoConn} : i = conn[c] BY <1>0 DEF TypeOK
  <2>2. Forget(c, i, "release") /\ UNCHANGED <<blob, newest, crossed, key, seen>>
    BY <1>1, <2>1 DEF DropForImport
  <2>. QED BY <2>2, ForgetFresh
<1>2. CASE DropForDesktop(c)
  <2>1. UNCHANGED <<blob, newest, crossed, seen>> BY <1>2 DEF DropForDesktop
  <2>2. CASE mapped[Slot(c)] = NoConn
    <3>1. /\ pc' = [pc EXCEPT ![c] = "done"] /\ key' = [key EXCEPT ![c] = AnyKey]
          /\ UNCHANGED <<context, conn>>
      BY <1>2, <2>2 DEF DropForDesktop, End, Became
    <3>2. \A d \in Calls : pc'[d] \in {"open", "save"} =>
            pc'[d] = pc[d] /\ key'[d] = key[d] /\ seen'[d] = seen[d] /\ conn'[d] = conn[d]
      BY <2>1, <3>1 DEF TypeOK
    <3>. QED BY <2>1, <3>1, <3>2, StillKept
  <2>3. CASE mapped[Slot(c)] # NoConn
    <3>1. PICK i \in Ids \cup {NoConn} : i = mapped[Slot(c)] BY <1>0, SlotOfCall
    <3>2. Forget(c, i, "giveBack") /\ UNCHANGED key BY <1>2, <2>3, <3>1 DEF DropForDesktop
    <3>. QED BY <2>1, <3>2, ForgetFresh
  <2>. QED BY <2>2, <2>3
<1>3. CASE ReleaseForImport(c) \/ ReleaseForDesktop(c)
  <2>1. UNCHANGED <<blob, newest, crossed, context, seen, conn>>
    BY <1>3 DEF ReleaseForImport, ReleaseForDesktop, GiveBack
  <2>2. \A d \in Calls : pc'[d] \in {"open", "save"} => pc'[d] = pc[d] /\ key'[d] = key[d]
    BY <1>3 DEF ReleaseForImport, ReleaseForDesktop, End, Became, TypeOK
  <2>. QED BY <2>1, <2>2, StillKept
<1>4. CASE StoreImport(c)
  <2>1. PICK k \in Keys : k = key[c] BY <1>0, SlotOfCall
  <2>2. /\ newest' = newest + 1 /\ Saves(k, newest + 1, c, NoConn)
        /\ pc' = [pc EXCEPT ![c] = "done"] /\ key' = [key EXCEPT ![c] = AnyKey]
        /\ UNCHANGED <<context, conn, seen>>
    BY <1>4, <2>1 DEF StoreImport, SignedIn, End, Became, Saves
  <2>3. PICK s \in Nat : s = newest + 1 BY <1>0
  <2>4. Saves(k, s, c, NoConn) /\ s <= newest' /\ newest <= newest' BY <1>0, <2>2, <2>3
  <2>5. \A j \in Ids, l \in Keys : Holds(j, l)' => Holds(j, l) /\ (l = k => j # c)
    BY <2>2 DEF Holds
  <2>6. \A d \in Calls : pc'[d] \in {"open", "save"} =>
          /\ pc'[d] = pc[d] /\ key'[d] = key[d] /\ seen'[d] = seen[d] /\ conn'[d] = conn[d]
          /\ key[d] = k => d # c
    BY <2>2 DEF TypeOK
  <2>. QED BY <2>2, <2>4, <2>5, <2>6, SaveKept
<1>5. CASE SaveBackup(c)
  <2>1. PICK k \in Keys : k = key[c] BY <1>0, SlotOfCall
  <2>2. PICK s \in Nat : s = seen[c] BY <1>0
  <2>3. PICK i \in Ids \cup {NoConn} : i = conn[c] BY <1>0 DEF TypeOK
  <2>4. /\ Saves(k, s, c, i) /\ seen' = [seen EXCEPT ![c] = 0] /\ conn' = [conn EXCEPT ![c] = NoConn]
        /\ pc[c] = "save" /\ pc' = [pc EXCEPT ![c] = "done"] /\ key' = [key EXCEPT ![c] = AnyKey]
        /\ UNCHANGED <<newest, context>>
    BY <1>5, <2>1, <2>2, <2>3 DEF SaveBackup, End, Became, Saves
  <2>5. s <= newest' /\ newest <= newest' BY <1>0, <2>2, <2>4
  <2>6. \A j \in Ids, l \in Keys : Holds(j, l)' => Holds(j, l) /\ (l = k => j # c)
    BY <2>4 DEF Holds
  <2>7. \A j \in Ids : j = i => s <= context[j].session
    BY <1>0, <2>2, <2>3, <2>4 DEF Fresh, BackupIsBehind
  <2>8. \A d \in Calls : pc'[d] \in {"open", "save"} =>
          /\ pc'[d] = pc[d] /\ key'[d] = key[d] /\ seen'[d] = seen[d] /\ conn'[d] = conn[d]
          /\ key[d] = k => d # c
    BY <2>4 DEF TypeOK
  <2>9. \A d \in Calls : seen'[d] \in {0, seen[d]} BY <2>4 DEF TypeOK
  <2>. QED BY <2>4, <2>5, <2>6, <2>7, <2>8, <2>9, SaveKept
<1>6. CASE SaveFails(c)
  <2>1. /\ seen' = [seen EXCEPT ![c] = 0] /\ conn' = [conn EXCEPT ![c] = NoConn]
        /\ pc' = [pc EXCEPT ![c] = "done"] /\ key' = [key EXCEPT ![c] = AnyKey]
        /\ UNCHANGED <<blob, newest, crossed, context>>
    BY <1>6 DEF SaveFails, End, Became
  <2>2. \A d \in Calls : seen'[d] \in {0, seen[d]} BY <2>1 DEF TypeOK
  <2>3. \A d \in Calls : pc'[d] \in {"open", "save"} =>
          pc'[d] = pc[d] /\ key'[d] = key[d] /\ seen'[d] = seen[d] /\ conn'[d] = conn[d]
    BY <2>1 DEF TypeOK
  <2>. QED BY <2>1, <2>2, <2>3, StillKept
<1>. QED BY <1>1, <1>2, <1>3, <1>4, <1>5, <1>6 DEF ErrandStep

LEMMA OtherFresh ==
  ASSUME Base, TypeOK', Fresh,
         \/ \E c \in Jobs, k \in Keys : Enqueue(c, k)
         \/ \E w \in Workers, k \in Keys : Renew(w, k)
         \/ \E k \in Keys : Lapse(k)
         \/ \E w \in Workers : BrowserExits(w) \/ Crash(w)
  PROVE  Fresh'
<1>. USE DEF Base, claims, pool, store, calls
<1>1. ASSUME NEW c \in Jobs, NEW k \in Keys, Enqueue(c, k) PROVE Fresh'
  <2>1. UNCHANGED <<blob, newest, crossed, context, seen, conn>> BY <1>1 DEF Enqueue
  <2>2. \A d \in Calls : pc'[d] \in {"open", "save"} => pc'[d] = pc[d] /\ key'[d] = key[d]
    BY <1>1 DEF Enqueue, TypeOK
  <2>. QED BY <2>1, <2>2, StillKept
<1>2. ASSUME \/ \E w \in Workers, k \in Keys : Renew(w, k)
             \/ \E k \in Keys : Lapse(k)
      PROVE  Fresh'
  <2>1. UNCHANGED <<blob, newest, crossed, context, seen, conn, pc, key>>
    BY <1>2 DEF Renew, Lapse
  <2>. QED BY <2>1, StillKept
<1>3. ASSUME NEW w \in Workers, BrowserExits(w) PROVE Fresh'
  <2>1. UNCHANGED <<blob, newest, crossed, seen, pc, key>> BY <1>3 DEF BrowserExits
  <2>2. ASSUME NEW i \in Ids
        PROVE  /\ context'[i].session \in {0, context[i].session}
               /\ context'[i].state \in {"open", "sealing"} => context'[i] = context[i]
               /\ context[i].worker # w \/ context[i].state # "open" =>
                    context'[i].session = context[i].session
    <3>1. context'[i] = IF context[i].worker # w THEN context[i]
                        ELSE IF context[i].state = "open" THEN Closed
                        ELSE [context[i] EXCEPT !.state = "saved"]
      BY <1>3 DEF BrowserExits
    <3>2. CASE context[i] = Closed
      <4>1. context[i].worker # w BY <3>2 DEF Closed
      <4>. QED BY <3>1, <4>1
    <3>3. CASE context[i] # Closed
      <4>1. context[i] \in Contexts BY DEF TypeOK
      <4>2. DOMAIN context[i] = {"worker", "key", "session", "state", "busy"}
        BY <3>3, <4>1, OpenContext
      <4>. QED BY <3>1, <4>2 DEF Closed
    <3>. QED BY <3>2, <3>3
  <2>3. \A d \in Calls : pc'[d] = "save" /\ conn'[d] # NoConn =>
          /\ conn'[d] = conn[d] /\ conn[d] \in Ids
          /\ context'[conn[d]].session = context[conn[d]].session
    <3>1. ASSUME NEW d \in Calls, conn'[d] # NoConn
          PROVE  /\ conn'[d] = conn[d] /\ conn[d] \in Ids
                 /\ context[conn[d]].worker # w \/ context[conn[d]].state # "open"
      BY <1>3, <3>1 DEF BrowserExits, TypeOK
    <3>. QED BY <2>2, <3>1
  <2>. QED BY <2>1, <2>2, <2>3, QuietKept
<1>4. ASSUME NEW w \in Workers, Crash(w) PROVE Fresh'
  <2>1. UNCHANGED <<blob, newest, crossed>> BY <1>4 DEF Crash
  <2>2. \A j \in Ids : context'[j] = IF context[j].worker = w THEN Closed ELSE context[j]
    BY <1>4 DEF Crash
  <2>3. \A d \in Calls : seen'[d] \in {0, seen[d]} BY <1>4 DEF Crash
  <2>4. ASSUME NEW d \in Calls, pc'[d] \in {"open", "save"}
        PROVE  /\ pc'[d] = pc[d] /\ key'[d] = key[d] /\ seen'[d] = seen[d]
               /\ conn'[d] = NoConn \/ (conn'[d] = conn[d] /\ context'[conn[d]] = context[conn[d]])
    <3>0. pc'[d] = IF WorkerOf[d] = w /\ pc[d] # "idle" THEN "done" ELSE pc[d]
      BY <1>4 DEF Crash
    <3>1. WorkerOf[d] # w BY <2>4, <3>0
    <3>2. pc'[d] = pc[d] /\ key'[d] = key[d] /\ seen'[d] = seen[d] /\ conn'[d] = conn[d]
      BY <1>4, <3>1 DEF Crash
    <3>3. CASE conn[d] # NoConn
      <4>1. conn[d] \in Ids /\ context[conn[d]].worker = WorkerOf[d]
        BY <3>3 DEF TypeOK, ConnIsThere
      <4>. QED BY <2>2, <3>1, <3>2, <4>1
    <3>. QED BY <3>2, <3>3
  <2>5. \A j \in Ids : context'[j] = context[j] \/ context'[j] = Closed BY <2>2
  <2>. QED BY <2>1, <2>3, <2>4, <2>5, CloseKept
<1>. QED BY <1>1, <1>2, <1>3, <1>4

LEMMA NextKeepsFresh ==
  ASSUME Base, Fresh, [Next]_vars
  PROVE  Fresh'
<1>0. TypeOK' BY NextKeepsBase DEF Base
<1>1. CASE Next
  BY <1>0, <1>1, JobFresh, SealFresh, ErrandStartFresh, ErrandMovesFresh, OtherFresh DEF Next
<1>2. CASE UNCHANGED vars
  BY <1>0, <1>2, StillKept DEF Base, vars, store, pool, calls
<1>. QED BY <1>1, <1>2

LEMMA StaysFresh == Spec => []Fresh
<1>1. ASSUME Init PROVE Fresh
  <2>1. \A c \in Calls : ~Carries(c, key[c]) /\ pc[c] = "idle" BY <1>1 DEF Init, Carries
  <2>2. \A i \in Ids : context[i].state = "closed" /\ context[i].session = 0
    BY <1>1 DEF Init, Closed
  <2>. QED BY <1>1, <2>1, <2>2
       DEF Init, Fresh, BackupIsBehind, NewestIsNewest, HoldersAreAhead, Holds, Carries
<1>. QED BY <1>1, StaysBase, NextKeepsFresh, PTL DEF Spec

\* Only the saves write a blob.
LEMMA OneSaves ==
  ASSUME Base, Fresh, Next, NEW k \in Keys, blob'[k] < blob[k]
  PROVE  k \in crossed
<1>. USE DEF Base, claims, pool, store, calls
<1>0. /\ newest \in Nat /\ \A l \in Keys : blob[l] \in Nat /\ blob[l] <= newest
      /\ \A i \in Ids : context[i].session \in Nat
      /\ \A c \in Calls : seen[c] \in Nat
  BY SessionsAreNumbers DEF Numbers, Fresh, NewestIsNewest
<1>1. ASSUME NEW i \in Ids, SealSave(i) PROVE k \in crossed
  <2>1. context[i].state = "sealing" /\ blob' = [blob EXCEPT ![context[i].key] = context[i].session]
    BY <1>1 DEF SealSave
  <2>2. k = context[i].key /\ context[i].session < blob[k] BY <1>0, <2>1 DEF TypeOK
  <2>3. Holds(i, k) BY <2>1, <2>2 DEF Holds
  <2>. QED BY <1>0, <2>2, <2>3 DEF Fresh, HoldersAreAhead
<1>2. ASSUME NEW c \in Calls, NEW l, SignedIn(c, l) PROVE k \in crossed
  <2>1. blob' = [blob EXCEPT ![l] = newest + 1] BY <1>2 DEF SignedIn
  <2>. QED BY <1>0, <2>1 DEF TypeOK
<1>3. ASSUME NEW c \in Errands, SaveBackup(c) PROVE k \in crossed
  <2>1. pc[c] = "save" /\ blob' = [blob EXCEPT ![key[c]] = seen[c]] BY <1>3 DEF SaveBackup
  <2>2. k = key[c] /\ seen[c] < blob[k] BY <1>0, <2>1 DEF TypeOK
  <2>3. Carries(c, k) BY <2>1, <2>2 DEF Carries
  <2>. QED BY <1>0, <2>2, <2>3 DEF Fresh, HoldersAreAhead
<1>4. CASE UNCHANGED blob BY <1>0, <1>4
<1>5. ASSUME NEW c \in Jobs, JobStep(c) \/ Rotate(c) \/ Reopen(c) PROVE UNCHANGED blob
  BY <1>5 DEF JobStep, Begin, Refused, Resolve, Room, Evict, GiveUp, Load, LoadUnreadable, Open, OpenFails,
              Finish, Rotate, Reopen
<1>6. ASSUME NEW c \in Errands, ErrandStart(c) \/ ErrandStep(c)
      PROVE  UNCHANGED blob \/ SaveBackup(c) \/ \E l : SignedIn(c, l)
  BY <1>6 DEF ErrandStart, ErrandStep, StartImport, StoreDesktop, ReadForBackup, DropForImport,
              ReleaseForImport, StoreImport, DropForDesktop, ReleaseForDesktop, GiveBack, SaveFails
<1>7. ASSUME NEW i \in Ids, Sweep(i) \/ Shutdown(i) \/ SealFails(i) \/ SealEnd(i)
      PROVE  UNCHANGED blob
  BY <1>7 DEF Sweep, Shutdown, SealFails, SealEnd
<1>8. ASSUME \/ \E c \in Jobs, l \in Keys : Enqueue(c, l)
             \/ \E w \in Workers, l \in Keys : Renew(w, l)
             \/ \E l \in Keys : Lapse(l)
             \/ \E w \in Workers : BrowserExits(w) \/ Crash(w)
      PROVE  UNCHANGED blob
  BY <1>8 DEF Enqueue, Renew, Lapse, BrowserExits, Crash
<1>. QED BY <1>1, <1>2, <1>3, <1>4, <1>5, <1>6, <1>7, <1>8 DEF Next, SealStep

\* A saved session gives way to an older one only where two held it when one was saved, or
\* where a context had been opened without it because it could not be read.
THEOREM SessionsStand == Spec => SavedSessionStands
<1>1. ASSUME Base, Fresh, [Next]_vars
      PROVE  [\A k \in Keys : blob'[k] < blob[k] => k \in crossed]_vars
  BY <1>1, OneSaves
<1>. QED BY <1>1, StaysBase, StaysFresh, PTL DEF Spec, SavedSessionStands
=============================================================================
