------------------------------- MODULE SignIn -------------------------------
(***************************************************************************)
(* Signing in from the user's own computer (src/pairing.ts, the pairing    *)
(* routes of src/routes/api.ts) and the browser operation that hands the   *)
(* session to a browser worker (src/browser-ops.ts).  The app makes a      *)
(* code, a helper trades it for a token, and with the token imports a      *)
(* session; the API process asks a worker to take it, and waits.           *)
(*                                                                         *)
(* One provider of one workspace; an API process without a browser.  A     *)
(* helper is one run of the helper program and makes one request at a time *)
(***************************************************************************)
EXTENDS Naturals, FiniteSets

CONSTANTS
  Pairings,   \* 1..n, the ids of the pairings in the order they are made
  Helpers,
  MaxImports, \* bound on the imports of one helper
  MaxDeaths,  \* bound on requests and jobs that die
  Nobody, NoPairing

ASSUME BoundsAssumption == MaxImports \in Nat /\ MaxDeaths \in Nat
ASSUME NamesAssumption == Nobody \notin Helpers /\ NoPairing \notin Pairings

VARIABLES
  status, token, due,  \* of each pairing: its row, and whether expires_at has passed
  creating,            \* createPairing calls that have not replaced the others yet
  cancelling,          \* cancelPairing calls that have read the pairing
  pc, of, verdict,     \* of each helper: its request, the pairing, what its import came to
  op, result,          \* the browser op of its import: the row and what the worker wrote
  job,                 \* the op's job
  imports, deaths,
  imported             \* pairings whose session a worker has stored

rows  == <<status, token, due, creating, cancelling>>
asks  == <<pc, of, verdict, imports>>
works == <<op, result, job, imported>>
vars  == <<rows, asks, works, deaths>>

Live == {"waiting", "paired", "importing"}
Over == {"done", "failed", "expired", "cancelled", "replaced"}
Results == {"none", "logged_in", "signed_out", "error", "timeout"}

TypeOK ==
  /\ status \in [Pairings -> Live \cup Over \cup {"none"}]
  /\ token \in [Pairings -> Helpers \cup {Nobody}] /\ due \in [Pairings -> BOOLEAN]
  /\ creating \in SUBSET Pairings /\ cancelling \in SUBSET Pairings
  /\ pc \in [Helpers -> {"idle", "found", "armed", "checked", "marked", "waits", "told", "gone"}]
  /\ of \in [Helpers -> Pairings \cup {NoPairing}] /\ verdict \in [Helpers -> Results]
  /\ op \in [Helpers -> {"none", "pending", "done", "failed"}] /\ result \in [Helpers -> Results]
  /\ job \in [Helpers -> {"none", "queued", "taken", "stored"}]
  /\ imports \in [Helpers -> 0..MaxImports] /\ deaths \in 0..MaxDeaths
  /\ imported \in SUBSET Pairings

Init ==
  /\ status = [p \in Pairings |-> "none"] /\ token = [p \in Pairings |-> Nobody]
  /\ due = [p \in Pairings |-> FALSE] /\ creating = {} /\ cancelling = {}
  /\ pc = [h \in Helpers |-> "idle"] /\ of = [h \in Helpers |-> NoPairing]
  /\ verdict = [h \in Helpers |-> "none"] /\ imports = [h \in Helpers |-> 0]
  /\ op = [h \in Helpers |-> "none"] /\ result = [h \in Helpers |-> "none"]
  /\ job = [h \in Helpers |-> "none"] /\ deaths = 0 /\ imported = {}

----------------------------------------------------------------------------
(* The app: make a code, cancel, let codes and tokens die                  *)

\* insertPairing
Create(p) ==
  /\ status[p] = "none" /\ \A q \in Pairings : q < p => status[q] # "none"
  /\ status' = [status EXCEPT ![p] = "waiting"]
  /\ creating' = creating \cup {p}
  /\ UNCHANGED <<token, due, cancelling, asks, works, deaths>>

Replaced(p) == {q \in Pairings \ {p} : status[q] = "waiting"}

\* replaceWaitingPairings: whatever else is waiting by now, newer codes too.
ReplaceOthers(p) ==
  /\ p \in creating /\ creating' = creating \ {p}
  /\ status' = [q \in Pairings |-> IF q \in Replaced(p) THEN "replaced" ELSE status[q]]
  /\ UNCHANGED <<token, due, cancelling, asks, works, deaths>>

\* latestPairing
ReadToCancel(p) ==
  /\ status[p] \in Live /\ \A q \in Pairings : q > p => status[q] = "none"
  /\ p \notin cancelling /\ cancelling' = cancelling \cup {p}
  /\ UNCHANGED <<status, token, due, creating, asks, works, deaths>>

Cancel(p) ==
  /\ p \in cancelling /\ cancelling' = cancelling \ {p}
  /\ status' = [status EXCEPT ![p] = "cancelled"] /\ token' = [token EXCEPT ![p] = Nobody]
  /\ UNCHANGED <<due, creating, asks, works, deaths>>

\* Ten minutes of a code, twenty of a token.
TimeUp(p) ==
  /\ status[p] \in Live /\ ~due[p] /\ due' = [due EXCEPT ![p] = TRUE]
  /\ UNCHANGED <<status, token, creating, cancelling, asks, works, deaths>>

\* Mutant of Expired: an import in progress is spared.
ExpiredIdle == {p \in Pairings : status[p] \in {"waiting", "paired"} /\ due[p]}

Expired == {p \in Pairings : status[p] \in Live /\ due[p]}

\* expirePairings: every call begins with it.
Expire ==
  /\ Expired # {}
  /\ status' = [p \in Pairings |-> IF p \in Expired THEN "expired" ELSE status[p]]
  /\ token' = [p \in Pairings |-> IF p \in Expired THEN Nobody ELSE token[p]]
  /\ UNCHANGED <<due, creating, cancelling, asks, works, deaths>>

----------------------------------------------------------------------------
(* The helper: trade the code                                              *)

\* Mutant of LiveCode: any pairing's code that has not run out.
CodeInTime(p) == status[p] # "none" /\ ~due[p]

\* findPairingByCodeHash
LiveCode(p) == status[p] = "waiting" /\ ~due[p]

FindCode(h, p) ==
  /\ pc[h] = "idle" /\ LiveCode(p)
  /\ pc' = [pc EXCEPT ![h] = "found"] /\ of' = [of EXCEPT ![h] = p]
  /\ UNCHANGED <<rows, verdict, imports, works, deaths>>

\* updatePairing, by id: whatever has become of the row since.
Exchange(h) ==
  /\ pc[h] = "found" /\ pc' = [pc EXCEPT ![h] = "armed"]
  /\ status' = [status EXCEPT ![of[h]] = "paired"]
  /\ token' = [token EXCEPT ![of[h]] = h] /\ due' = [due EXCEPT ![of[h]] = FALSE]
  /\ UNCHANGED <<creating, cancelling, of, verdict, imports, works, deaths>>

----------------------------------------------------------------------------
(* The helper: import the session                                          *)

\* requirePairingFor
TokenOpens(h) ==
  token[of[h]] = h /\ status[of[h]] \in {"paired", "importing"} /\ ~due[of[h]]

AskImport(h) ==
  /\ pc[h] = "armed" /\ imports[h] < MaxImports /\ imports' = [imports EXCEPT ![h] = @ + 1]
  /\ pc' = [pc EXCEPT ![h] = IF TokenOpens(h) THEN "checked" ELSE "gone"]
  /\ UNCHANGED <<rows, of, verdict, works, deaths>>

\* Nothing usable was sent, or this process's browser is held by another sign-in (409): the
\* token stays.
RefuseImport(h) ==
  /\ pc[h] \in {"checked", "marked"} /\ pc' = [pc EXCEPT ![h] = "armed"]
  /\ UNCHANGED <<rows, of, verdict, imports, works, deaths>>

MarkImporting(h) ==
  /\ pc[h] = "checked" /\ pc' = [pc EXCEPT ![h] = "marked"]
  /\ status' = [status EXCEPT ![of[h]] = "importing"]
  /\ UNCHANGED <<token, due, creating, cancelling, of, verdict, imports, works, deaths>>

\* callBrowserOp: the op's row and its job.
CallOp(h) ==
  /\ pc[h] = "marked" /\ pc' = [pc EXCEPT ![h] = "waits"]
  /\ op' = [op EXCEPT ![h] = "pending"] /\ result' = [result EXCEPT ![h] = "none"]
  /\ job' = [job EXCEPT ![h] = "queued"]
  /\ UNCHANGED <<rows, of, verdict, imports, imported, deaths>>

Told(h, v) ==
  /\ pc[h] = "waits" /\ pc' = [pc EXCEPT ![h] = "told"]
  /\ verdict' = [verdict EXCEPT ![h] = v]

Poll(h) ==
  /\ op[h] \in {"done", "failed"} /\ Told(h, result[h])
  /\ UNCHANGED <<rows, of, imports, works, deaths>>

\* Mutant of Closed: the op is left to the worker.
LeftOpen(h) == op

\* finishBrowserOp by the caller whose deadline has passed: a pending op is closed.
Closed(h) == IF op[h] = "pending" THEN [op EXCEPT ![h] = "failed"] ELSE op

GiveUpOnOp(h) ==
  /\ Told(h, "timeout")
  /\ op' = Closed(h)
  /\ UNCHANGED <<rows, of, imports, result, job, imported, deaths>>

\* Mutant of Outcome: an answered import counts as a sign-in.
AnsweredIsDone(h) == IF verdict[h] \in {"logged_in", "signed_out"} THEN "done" ELSE "failed"

Outcome(h) == IF verdict[h] = "logged_in" THEN "done" ELSE "failed"

\* finishPairing: the token is gone, whatever the outcome.
FinishPairing(h) ==
  /\ pc[h] = "told" /\ pc' = [pc EXCEPT ![h] = "armed"]
  /\ status' = [status EXCEPT ![of[h]] = Outcome(h)]
  /\ token' = [token EXCEPT ![of[h]] = Nobody]
  /\ UNCHANGED <<due, creating, cancelling, of, verdict, imports, works, deaths>>

----------------------------------------------------------------------------
(* The worker: executeBrowserOpJob                                         *)

TakeOp(h) ==
  /\ job[h] = "queued"
  /\ job' = [job EXCEPT ![h] = IF op[h] = "pending" THEN "taken" ELSE "none"]
  /\ UNCHANGED <<rows, asks, op, result, imported, deaths>>

\* importProviderState
StoreSession(h) ==
  /\ job[h] = "taken" /\ job' = [job EXCEPT ![h] = "stored"]
  /\ imported' = imported \cup {of[h]}
  /\ UNCHANGED <<rows, asks, op, result, deaths>>

\* finishBrowserOp by the worker, if nobody has closed the op.
Answered(h, s, r) ==
  /\ job' = [job EXCEPT ![h] = "none"]
  /\ IF op[h] = "pending"
       THEN op' = [op EXCEPT ![h] = s] /\ result' = [result EXCEPT ![h] = r]
       ELSE UNCHANGED <<op, result>>
  /\ UNCHANGED <<rows, asks, imported, deaths>>

CheckSignIn(h) == job[h] = "stored" /\ \E r \in {"logged_in", "signed_out"} : Answered(h, "done", r)
OpThrows(h) == job[h] \in {"taken", "stored"} /\ Answered(h, "failed", "error")

----------------------------------------------------------------------------
\* The process dies with the request, or with the job: it is not sent again.
RequestDies(h) ==
  /\ deaths < MaxDeaths /\ deaths' = deaths + 1
  /\ pc[h] \in {"checked", "marked", "waits", "told"} /\ pc' = [pc EXCEPT ![h] = "armed"]
  /\ UNCHANGED <<rows, of, verdict, imports, works>>

JobDies(h) ==
  /\ deaths < MaxDeaths /\ deaths' = deaths + 1
  /\ job[h] \in {"taken", "stored"} /\ job' = [job EXCEPT ![h] = "none"]
  /\ UNCHANGED <<rows, asks, op, result, imported>>

Request(h) ==
  \/ Exchange(h) \/ MarkImporting(h) \/ CallOp(h) \/ Poll(h) \/ GiveUpOnOp(h) \/ FinishPairing(h)
Worker(h) == TakeOp(h) \/ StoreSession(h) \/ CheckSignIn(h) \/ OpThrows(h)

Work ==
  \/ \E p \in Pairings : ReplaceOthers(p) \/ Cancel(p) \/ TimeUp(p)
  \/ Expire
  \/ \E h \in Helpers : Request(h) \/ Worker(h)
Next ==
  \/ Work
  \/ \E p \in Pairings : Create(p) \/ ReadToCancel(p)
  \/ \E h \in Helpers, p \in Pairings : FindCode(h, p)
  \/ \E h \in Helpers : AskImport(h) \/ RefuseImport(h) \/ RequestDies(h) \/ JobDies(h)

Spec == Init /\ [][Next]_vars

\* A request and a job under way go on, time passes, and somebody looks at the pairings.
\* No helper has to come and nobody has to cancel.
Fairness == WF_vars(Work)
FairSpec == Spec /\ Fairness

----------------------------------------------------------------------------
(* Properties                                                              *)

\* A pairing that says it is done has brought a session in that its provider accepted,
\* whichever of its imports ended last (api.ts:404-411).
DoneMeansSignedIn ==
  \A p \in Pairings : status[p] = "done" =>
    p \in imported /\ \E h \in Helpers : of[h] = p /\ verdict[h] = "logged_in"

\* p is over, and nobody is under way who saw it live.
AtRest(p) ==
  /\ status[p] \in Over /\ p \notin cancelling
  /\ \A h \in Helpers : of[h] = p => pc[h] \in {"idle", "armed", "gone"}

\* A pairing at rest stays so with the outcome it has, however late a helper comes with its
\* code or its token and whoever cancels or looks (pairing.ts:13-16, single use).
OverStaysOver == [][\A p \in Pairings : AtRest(p) => AtRest(p)' /\ status'[p] = status[p]]_vars

\* A worker does not begin an import whose caller has been answered, a deadline included
\* (browser-ops.ts:166-168); a caller that died is answered nothing.
NothingAfterTheAnswer ==
  [][\A h \in Helpers : job[h] = "queued" /\ job'[h] = "taken" => pc[h] = "waits" \/ deaths > 0]_vars

\* A provider has one waiting code, but while another is being made.
OneCodeWaits ==
  \A p, q \in Pairings \ creating : status[p] = "waiting" /\ status[q] = "waiting" => p = q

\* Every pairing ends, though its helper never comes back and processes die.
EveryPairingEnds == []<>(\A p \in Pairings : status[p] \notin Live)
============================================================================
