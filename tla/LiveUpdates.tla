---------------------------- MODULE LiveUpdates ----------------------------
(***************************************************************************)
(* How a change of a row reaches an open page (packages/data notify and    *)
(* outbox, packages/realtime, src/live.ts, public/app.js).  A process      *)
(* that changes the row buffers an announcement, a flush appends it to the *)
(* outbox and emits it with its id; a worker's announcements cross Redis   *)
(* to the API process, which expands the row and writes it to its pages.   *)
(* A page that lost its stream reconnects with the last id it saw, is      *)
(* replayed to from the outbox, and refetches its state besides.           *)
(*                                                                         *)
(* One message row of one workspace, one page, and two processes that      *)
(* write.  A change is the number it has among the row's changes.          *)
(***************************************************************************)
EXTENDS Naturals, Sequences, FiniteSets, SequencesExt

CONSTANTS
  MaxChanges,   \* bound on the changes of the row
  Conns,        \* 1..n: the page's connections, one after the other
  BufferMax,    \* OUTBOX_BUFFER_MAX
  BatchMax,     \* OUTBOX_FLUSH_COUNT
  ReplayMax,    \* REPLAY_MAX
  MaxFaults     \* bound on failed statements, Redis losses, deaths and stalled pages

Procs == {"api", "worker"}
Changes == 1..MaxChanges
Down == 0

VARIABLES
  row,       \* the last change of the row
  buffer,    \* outboxBuffer of each process
  batch,     \* what each process is inserting
  log,       \* the outbox: a change, its writer, and whether it is there (yet, or still)
  wire,      \* published on Redis, not received yet
  sub,       \* the API's subscription to the workspace's shard
  expanding, \* events whose row the API is expanding for its pages
  stage,     \* of each connection, on the server
  closing,   \* connections the page has left and the server has not seen closed
  sent,      \* the Last-Event-ID each connection came with
  rows,      \* what each connection read from the outbox
  link,      \* the page's connection
  pipe,      \* written to it, not heard yet
  cursor,    \* the last id the page heard
  loads,     \* the page's refetches: not answered, or the change the answer knows
  resynced,  \* the page has refetched for a resync
  shown,     \* the change the page shows
  told,      \* history: changes an event or an answer brought to the page
  slipped,   \* history: changes that passed a connected page by
  faults

writers == <<row, buffer, batch, log>>
streams == <<stage, closing, sent, rows>>
server  == <<wire, sub, expanding, streams>>
seen    == <<cursor, loads, resynced, shown, told>>
page    == <<link, pipe, seen>>
vars    == <<writers, server, page, slipped, faults>>

Event == [kind : {"row", "resync", "hello"}, of : SUBSET Changes, id : Nat]
Hello == [kind |-> "hello", of |-> {}, id |-> 0]
RowEvent(n, id) == [kind |-> "row", of |-> {n}, id |-> id]
Resync(ns) == [kind |-> "resync", of |-> ns, id |-> 0]
Asked == MaxChanges + 1

TypeOK ==
  /\ row \in 0..MaxChanges
  /\ buffer \in [Procs -> Seq(Changes)] /\ \A p \in Procs : Len(buffer[p]) <= BufferMax
  /\ batch \in [Procs -> Seq([n : Changes, id : Nat])]
  /\ log \in Seq([n : Changes, p : Procs, kept : BOOLEAN])
  /\ wire \in Seq(Event) /\ sub \in {"off", "asked", "on"} /\ expanding \in SUBSET Event
  /\ stage \in [Conns -> {"none", "asked", "read", "client", "over"}] /\ closing \in SUBSET Conns
  /\ sent \in [Conns -> Nat] /\ rows \in [Conns -> Seq(Event)]
  /\ link \in Conns \cup {Down} /\ pipe \in Seq(Event) /\ cursor \in 0..Len(log)
  /\ loads \in Seq(0..Asked) /\ resynced \in BOOLEAN /\ shown \in 0..MaxChanges
  /\ told \in SUBSET Changes /\ slipped \in SUBSET Changes /\ faults \in 0..MaxFaults

----------------------------------------------------------------------------
(* Helpers                                                                 *)

\* The connections a broadcast walks, and whether the page's is one.
Clients == {k \in Conns : stage[k] = "client"}
Joined == link # Down /\ stage[link] = "client"

\* Of events that reach no page now, those no replay will bring to this one either.
PassedBy(es) ==
  IF link = Down THEN {}
  ELSE UNION {e.of : e \in {f \in es : f.id = 0 \/ stage[link] # "asked"}}

Written(es) == IF Joined THEN pipe \o es ELSE pipe

\* The API's bus delivers these: a row is expanded while anybody listens, a resync is
\* broadcast at once.
Emitted(es) ==
  LET rs == SelectSeq(es, LAMBDA e : e.kind = "resync")
      news == {e \in ToSet(es) : e.kind = "row"} IN
  /\ pipe' = Written(rs)
  /\ expanding' = IF Clients = {} THEN expanding ELSE expanding \cup news
  /\ slipped' = slipped \cup PassedBy((IF Joined THEN {} ELSE ToSet(rs))
                                      \cup (IF Clients = {} THEN news ELSE {}))

\* The bridge publishes a worker's: nobody keeps them for a subscriber that is not there.
Published(es) ==
  /\ wire' = IF sub = "on" THEN wire \o es ELSE wire
  /\ slipped' = slipped \cup PassedBy(IF sub = "on" \/ (sub = "off" /\ Joined) THEN {} ELSE ToSet(es))

Announced(p, es) ==
  IF p = "api" THEN Emitted(es) /\ UNCHANGED wire
               ELSE Published(es) /\ UNCHANGED <<pipe, expanding>>

\* A page is open: it fetched the first state of the row, or heard of it.
Init ==
  /\ row = 1 /\ shown = 1 /\ told = {1}
  /\ \/ log = <<>> /\ cursor = 0
     \/ log = <<[n |-> 1, p |-> "api", kept |-> TRUE]>> /\ cursor = 1
  /\ buffer = [p \in Procs |-> <<>>] /\ batch = [p \in Procs |-> <<>>]
  /\ wire = <<>> /\ sub = "on" /\ expanding = {}
  /\ stage = [k \in Conns |-> IF k = 1 THEN "client" ELSE "none"] /\ closing = {}
  /\ sent = [k \in Conns |-> 0] /\ rows = [k \in Conns |-> <<>>]
  /\ link = 1 /\ pipe = <<>> /\ loads = <<>> /\ resynced = FALSE
  /\ slipped = {} /\ faults = 0

----------------------------------------------------------------------------
(* notify and the outbox                                                   *)

\* Mutant of Buffered: a process that cannot insert keeps what it has, without a limit.
BufferedAll(p) == Append(buffer[p], row + 1)

Buffered(p) ==
  Append(IF Len(buffer[p]) < BufferMax THEN buffer[p] ELSE Tail(buffer[p]), row + 1)

\* A row is changed and announced: numbered where it is announced, its UPDATE and the read of
\* what to announce came before.  A full buffer loses its oldest entry and says so.
Write(p) ==
  /\ row < MaxChanges
  /\ row' = row + 1
  /\ buffer' = [buffer EXCEPT ![p] = Buffered(p)]
  /\ IF Len(buffer[p]) < BufferMax
       THEN UNCHANGED <<wire, pipe, expanding, slipped>>
       ELSE Announced(p, <<Resync({Head(buffer[p])})>>)
  /\ UNCHANGED <<batch, log, sub, streams, link, seen, faults>>

Piece(p) == IF Len(buffer[p]) < BatchMax THEN Len(buffer[p]) ELSE BatchMax
Spliced(p) == [i \in 1..Piece(p) |-> [n |-> buffer[p][i], id |-> 0]]

\* Mutant of Flush: a flush does not wait for the one before it, and its insert may run first.
FlushAtOnce(p) ==
  /\ buffer[p] # <<>> /\ \A j \in DOMAIN batch[p] : batch[p][j].id = 0
  /\ batch' = [batch EXCEPT ![p] = Spliced(p) \o @]
  /\ buffer' = [buffer EXCEPT ![p] = SubSeq(@, Piece(p) + 1, Len(@))]
  /\ UNCHANGED <<row, log, server, page, slipped, faults>>

\* flushOutboxBuffer: flushes are chained ...
Flush(p) ==
  /\ buffer[p] # <<>> /\ batch[p] = <<>>
  /\ batch' = [batch EXCEPT ![p] = Spliced(p)]
  /\ buffer' = [buffer EXCEPT ![p] = SubSeq(@, Piece(p) + 1, Len(@))]
  /\ UNCHANGED <<row, log, server, page, slipped, faults>>

\* ... a batch's ids are drawn when its insert runs ...
Insert(p) ==
  /\ batch[p] # <<>> /\ batch[p][1].id = 0
  /\ batch' = [batch EXCEPT ![p] = [j \in DOMAIN @ |-> [n |-> @[j].n, id |-> Len(log) + j]]]
  /\ log' = log \o [j \in DOMAIN batch[p] |-> [n |-> batch[p][j].n, p |-> p, kept |-> FALSE]]
  /\ UNCHANGED <<row, buffer, server, page, slipped, faults>>

\* ... and readers see them when it commits; then they are emitted in their order.
Logged(p) ==
  /\ batch[p] # <<>> /\ batch[p][1].id # 0
  /\ log' = [i \in DOMAIN log |->
               [log[i] EXCEPT !.kept = @ \/ \E j \in DOMAIN batch[p] : batch[p][j].id = i]]
  /\ Announced(p, [j \in DOMAIN batch[p] |-> RowEvent(batch[p][j].n, batch[p][j].id)])
  /\ batch' = [batch EXCEPT ![p] = <<>>]
  /\ UNCHANGED <<row, buffer, sub, streams, link, seen, faults>>

\* The insert fails: the same events without ids.
NotLogged(p) ==
  /\ batch[p] # <<>> /\ faults < MaxFaults /\ faults' = faults + 1
  /\ Announced(p, [j \in DOMAIN batch[p] |-> RowEvent(batch[p][j].n, 0)])
  /\ batch' = [batch EXCEPT ![p] = <<>>]
  /\ UNCHANGED <<row, buffer, log, sub, streams, link, seen>>

\* pruneOutbox, an hour after the last of them: no connection is about to read.
Prune ==
  /\ \E i \in DOMAIN log : log[i].kept
  /\ \A p \in Procs : batch[p] = <<>>
  /\ \A k \in Conns : stage[k] # "asked"
  /\ log' = [i \in DOMAIN log |-> [log[i] EXCEPT !.kept = FALSE]]
  /\ UNCHANGED <<row, buffer, batch, server, page, slipped, faults>>

----------------------------------------------------------------------------
(* Redis                                                                   *)

Receive ==
  /\ wire # <<>> /\ wire' = Tail(wire)
  /\ Emitted(<<Head(wire)>>)
  /\ UNCHANGED <<writers, sub, streams, link, seen, faults>>

RedisLoses ==
  /\ wire # <<>> /\ wire' = Tail(wire)
  /\ faults < MaxFaults /\ faults' = faults + 1
  /\ slipped' = slipped \cup PassedBy({Head(wire)})
  /\ UNCHANGED <<writers, sub, expanding, streams, page>>

\* The SUBSCRIBE that watchOrgEvents sent takes effect.
Subscribed ==
  /\ sub = "asked" /\ sub' = "on"
  /\ UNCHANGED <<writers, wire, expanding, streams, page, slipped, faults>>

\* Half a minute after the last client left.
LingerEnds ==
  /\ sub = "on" /\ Clients = {}
  /\ sub' = "off" /\ wire' = <<>>
  /\ slipped' = slipped \cup PassedBy(ToSet(wire))
  /\ UNCHANGED <<writers, expanding, streams, page, faults>>

----------------------------------------------------------------------------
(* streamHandler and broadcast                                             *)

\* Mutant of Missed: the cursor is taken for the next row to send.
MissedFromNext(k) == {i \in DOMAIN log : log[i].kept /\ i > sent[k] + 1}

Missed(k) == {i \in DOMAIN log : log[i].kept /\ i > sent[k]}

\* outboxAfter: what the page has missed, oldest first, or word that it is too much.
ReadLog(k) ==
  /\ stage[k] = "asked"
  /\ stage' = [stage EXCEPT ![k] = "read"]
  /\ rows' = [rows EXCEPT ![k] =
       LET ids == SetToSortSeq(Missed(k), <) IN
       IF Len(ids) > ReplayMax THEN <<Resync({log[i].n : i \in Missed(k)})>>
                               ELSE [j \in DOMAIN ids |-> RowEvent(log[ids[j]].n, ids[j])]]
  /\ UNCHANGED <<writers, wire, sub, expanding, closing, sent, page, slipped, faults>>

\* It fails: the page is told to refetch.
ReplayFails(k) ==
  /\ stage[k] = "asked" /\ faults < MaxFaults /\ faults' = faults + 1
  /\ stage' = [stage EXCEPT ![k] = "read"]
  /\ rows' = [rows EXCEPT ![k] = <<Resync({log[i].n : i \in Missed(k)})>>]
  /\ UNCHANGED <<writers, wire, sub, expanding, closing, sent, page, slipped>>

Watched == IF sub = "off" THEN "asked" ELSE sub

\* The rows are written, each after its expansion, and only then is the page a client.
Join(k) ==
  /\ stage[k] = "read"
  /\ stage' = [stage EXCEPT ![k] = "client"]
  /\ pipe' = IF k = link THEN pipe \o rows[k] ELSE pipe
  /\ rows' = [rows EXCEPT ![k] = <<>>]
  /\ sub' = Watched
  /\ UNCHANGED <<writers, wire, expanding, closing, sent, link, seen, slipped, faults>>

\* broadcast, when a row has been expanded; the expansions end in any order.
Broadcast(e) ==
  /\ e \in expanding /\ expanding' = expanding \ {e}
  /\ pipe' = Written(<<e>>)
  /\ slipped' = slipped \cup PassedBy(IF Joined THEN {} ELSE {e})
  /\ UNCHANGED <<writers, wire, sub, streams, link, seen, faults>>

\* The row cannot be expanded: its pages hear nothing of it.
ExpansionFails(e) ==
  /\ e \in expanding /\ expanding' = expanding \ {e}
  /\ faults < MaxFaults /\ faults' = faults + 1
  /\ slipped' = slipped \cup PassedBy({e})
  /\ UNCHANGED <<writers, wire, sub, streams, page>>

\* req "close" of a connection the page has left.  One that is not a client yet becomes one
\* all the same, for good.
CloseSeen(k) ==
  /\ k \in closing /\ closing' = closing \ {k}
  /\ stage' = [stage EXCEPT ![k] = IF @ = "client" THEN "over" ELSE @]
  /\ UNCHANGED <<writers, wire, sub, expanding, sent, rows, page, slipped, faults>>

----------------------------------------------------------------------------
(* The page                                                                *)

\* The stream breaks, or the server drops a page that does not read.
Drop ==
  /\ link # Down /\ link + 1 \in Conns
  /\ closing' = closing \cup {link}
  /\ link' = Down /\ pipe' = <<>>
  /\ UNCHANGED <<writers, wire, sub, expanding, stage, sent, rows, seen, slipped, faults>>

\* With a Last-Event-ID, the page is replayed to; without, it is a client at once.
Connect(k) ==
  /\ link = Down /\ stage[k] = "none" /\ \A j \in Conns : j < k => stage[j] # "none"
  /\ link' = k /\ pipe' = <<Hello>>
  /\ sent' = [sent EXCEPT ![k] = cursor]
  /\ stage' = [stage EXCEPT ![k] = IF cursor = 0 THEN "client" ELSE "asked"]
  /\ sub' = IF cursor = 0 THEN Watched ELSE sub
  /\ UNCHANGED <<writers, wire, expanding, closing, rows, seen, slipped, faults>>

Heard(kind) == pipe # <<>> /\ Head(pipe).kind = kind /\ pipe' = Tail(pipe)

\* A row replaces what the page shows.
HearRow ==
  /\ Heard("row")
  /\ shown' \in Head(pipe).of /\ told' = told \cup Head(pipe).of
  /\ cursor' = IF Head(pipe).id = 0 THEN cursor ELSE Head(pipe).id
  /\ UNCHANGED <<writers, server, link, loads, resynced, slipped, faults>>

\* On a hello and on a resync the page refetches its state.
HearHello ==
  /\ Heard("hello") /\ loads' = Append(loads, Asked)
  /\ UNCHANGED <<writers, server, link, cursor, resynced, shown, told, slipped, faults>>

HearResync ==
  /\ Heard("resync") /\ loads' = Append(loads, Asked) /\ resynced' = TRUE
  /\ UNCHANGED <<writers, server, link, cursor, shown, told, slipped, faults>>

\* It has just done so for another resync.
IgnoreResync ==
  /\ Heard("resync") /\ resynced
  /\ slipped' = slipped \cup Head(pipe).of
  /\ UNCHANGED <<writers, server, link, seen, faults>>

\* load: GET /api/home reads the row, and its answer replaces what the page shows.
Read(i) ==
  /\ loads[i] = Asked
  /\ loads' = [loads EXCEPT ![i] = row]
  /\ UNCHANGED <<writers, server, link, pipe, cursor, resynced, shown, told, slipped, faults>>

Answer(i) ==
  /\ loads[i] # Asked
  /\ shown' = loads[i] /\ told' = told \cup 1..loads[i]
  /\ loads' = RemoveAt(loads, i)
  /\ UNCHANGED <<writers, server, link, pipe, cursor, resynced, slipped, faults>>

----------------------------------------------------------------------------
(* A worker dies with what it has not announced.                            *)

WorkerDies ==
  /\ faults < MaxFaults /\ faults' = faults + 1
  /\ LET lostNow == ToSet(buffer["worker"]) \cup {b.n : b \in ToSet(batch["worker"])} IN
       /\ lostNow # {}
       /\ slipped' = IF link = Down THEN slipped ELSE slipped \cup lostNow
  /\ buffer' = [buffer EXCEPT !["worker"] = <<>>]
  /\ batch' = [batch EXCEPT !["worker"] = <<>>]
  /\ UNCHANGED <<row, log, server, page>>

----------------------------------------------------------------------------
\* What the processes, Redis, the streams and the page do by themselves.
Work ==
  \/ \E p \in Procs : Flush(p) \/ Insert(p) \/ Logged(p)
  \/ Receive \/ Subscribed
  \/ \E k \in Conns : ReadLog(k) \/ Join(k) \/ CloseSeen(k) \/ Connect(k)
  \/ \E e \in expanding : Broadcast(e)
  \/ HearRow \/ HearHello \/ HearResync
  \/ \E i \in DOMAIN loads : Read(i) \/ Answer(i)

Next ==
  \/ Work
  \/ \E p \in Procs : Write(p) \/ NotLogged(p)
  \/ \E k \in Conns : ReplayFails(k)
  \/ \E e \in expanding : ExpansionFails(e)
  \/ Prune \/ RedisLoses \/ LingerEnds \/ Drop \/ IgnoreResync \/ WorkerDies

Spec == Init /\ [][Next]_vars

\* Inserts, Redis, reads and expansions end, a lost stream is reopened, requests are
\* answered.  Nobody has to write, and no stream has to break.
Fairness == WF_vars(Work)
FairSpec == Spec /\ Fairness

----------------------------------------------------------------------------
(* Properties                                                              *)

\* The outbox lists each process's changes in the order it made them (data index.ts:133-135:
\* an inversion would corrupt every reconnecting client's view).
LogKeepsOrder ==
  \A i, j \in DOMAIN log : i < j /\ log[i].p = log[j].p => log[i].n < log[j].n

\* Every change reaches the page, by an event or by a refetch, across overflows, broken
\* streams and pruning: all but those that passed a page by between its replay and its
\* place among the clients, before its shard was subscribed, under an ignored resync, or
\* that Redis, a failed insert, a failed expansion or a death lost.
EveryChangeIsTold == []<>(1..row \subseteq told \cup slipped)

\* live.ts:11-12: "every open page gets message, connection, browser, conversation and
\* settings updates the moment they happen, so nothing polls".
PageCatchesUp == <>[](link # Down => shown = row)
============================================================================
