----------------------------- MODULE FleetInv -----------------------------
(***************************************************************************)
(* The inductive invariant of Fleet: why turns are kept, what a claim is   *)
(* worth, and why a session only ever gets newer until two hold it.        *)
(***************************************************************************)
EXTENDS Fleet

\* A job under way is the first of its chain.
FirstHasTurn ==
  \A c \in Jobs : UnderWay(c) => chain[Slot(c)] # <<>> /\ Head(chain[Slot(c)]) = c

\* A job that has not lost its claim has it, and it has not run out.
HoldsLive ==
  \A c \in Jobs : UnderWay(c) /\ c \notin lost =>
    claim[key[c]].owner = WorkerOf[c] /\ claim[key[c]].live

\* Whatever connection a call holds is a context of its worker that is not closed yet, and
\* of its key where the call is an errand; an errand holds one to drop or to save it.
ConnIsThere ==
  \A c \in Calls : conn[c] # NoConn =>
    /\ Running(conn[c]) /\ context[conn[c]].worker = WorkerOf[c]
    /\ c \in Errands => context[conn[c]].key = key[c] /\ pc[c] \in {"drop", "save"}

\* A backup has read what its context has, or had before.
BackupIsBehind ==
  \A c \in Calls : pc[c] = "save" /\ conn[c] # NoConn => seen[c] <= context[conn[c]].session

\* No session is newer than the newest.
NewestIsNewest ==
  /\ \A k \in Keys : blob[k] <= newest
  /\ \A i \in Ids : context[i].session <= newest
  /\ \A c \in Calls : seen[c] <= newest

\* Until a session is saved beneath somebody who holds it, nobody holds an older one.
HoldersAreAhead ==
  \A k \in Keys \ crossed :
    /\ \A i \in Ids : Holds(i, k) => blob[k] <= context[i].session
    /\ \A c \in Calls : Carries(c, k) => blob[k] <= seen[c]

IInv ==
  /\ FirstHasTurn /\ HoldsLive /\ ConnIsThere /\ BackupIsBehind
  /\ NewestIsNewest /\ HoldersAreAhead
============================================================================
