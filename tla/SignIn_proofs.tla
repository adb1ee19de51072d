---------------------------- MODULE SignIn_proofs ----------------------------
(***************************************************************************)
(* Machine-checked facts about SignIn, for any pairings, any number of     *)
(* helpers and any bounds.                                                 *)
(***************************************************************************)
EXTENDS SignIn, TLAPS

USE BoundsAssumption, NamesAssumption

----------------------------------------------------------------------------
(* The invariant *)

\* A helper that traded no code has asked for nothing; any other has its pairing for good.
HelpersHavePairings == \A h \in Helpers :
  IF pc[h] = "idle" THEN verdict[h] = "none" /\ result[h] = "none" /\ job[h] = "none"
                    ELSE of[h] \in Pairings

\* Nobody says that a session was accepted before it was stored.
AcceptedIsStored == \A h \in Helpers :
  job[h] = "stored" \/ result[h] = "logged_in" \/ verdict[h] = "logged_in" =>
    of[h] \in imported

\* A pairing that is done has no token left, and whoever brought its session in is at rest.
DoneIsClosed == \A p \in Pairings : status[p] = "done" =>
  /\ token[p] = Nobody /\ p \in imported
  /\ \E h \in Helpers : of[h] = p /\ verdict[h] = "logged_in" /\ pc[h] \in {"armed", "gone"}

\* While nothing dies, an op that may still be taken has its caller waiting.
OpenOpIsAwaited == \A h \in Helpers :
  deaths = 0 /\ job[h] = "queued" /\ op[h] = "pending" => pc[h] = "waits"

SignInInv ==
  /\ TypeOK
  /\ HelpersHavePairings
  /\ AcceptedIsStored
  /\ DoneIsClosed
  /\ OpenOpIsAwaited

USE DEF rows, asks, works

LEMMA InitInv == Init => SignInInv
BY DEF Init, SignInInv, TypeOK, HelpersHavePairings, AcceptedIsStored, DoneIsClosed,
       OpenOpIsAwaited, Live, Over, Results

\* A person at the app, a clock, or a look at the pairings touches rows only, and makes no
\* pairing done.
LEMMA RowsInv ==
  ASSUME SignInInv,
         \/ \E p \in Pairings : \/ Create(p) \/ ReplaceOthers(p) \/ ReadToCancel(p)
                                \/ Cancel(p) \/ TimeUp(p)
         \/ Expire
  PROVE  SignInInv'
<1>. USE DEF SignInInv, Create, ReplaceOthers, ReadToCancel, Cancel, TimeUp, Expire
<1>1. UNCHANGED <<pc, of, verdict, imports, op, result, job, imported, deaths>> OBVIOUS
<1>2. TypeOK'
  <2>1. status' \in [Pairings -> Live \cup Over \cup {"none"}]
    BY DEF TypeOK, Live, Over, Replaced
  <2>2. token' \in [Pairings -> Helpers \cup {Nobody}] /\ due' \in [Pairings -> BOOLEAN]
    BY DEF TypeOK
  <2>3. creating' \in SUBSET Pairings /\ cancelling' \in SUBSET Pairings BY DEF TypeOK
  <2>. QED BY <1>1, <2>1, <2>2, <2>3 DEF TypeOK
<1>3. \A p \in Pairings : status'[p] = "done" =>
        status[p] = "done" /\ token'[p] = token[p]
  BY DEF TypeOK, Expired, Live
<1>4. HelpersHavePairings' BY <1>1 DEF HelpersHavePairings
<1>5. AcceptedIsStored' BY <1>1 DEF AcceptedIsStored
<1>6. DoneIsClosed' BY <1>1, <1>3 DEF DoneIsClosed
<1>7. OpenOpIsAwaited' BY <1>1 DEF OpenOpIsAwaited
<1>. QED BY <1>2, <1>4, <1>5, <1>6, <1>7

\* The worker touches ops and jobs only, of helpers that asked.
LEMMA WorkerInv ==
  ASSUME SignInInv, NEW h \in Helpers, Worker(h) \/ JobDies(h)
  PROVE  SignInInv'
<1>. USE DEF SignInInv, Worker, TakeOp, StoreSession, CheckSignIn, OpThrows, Answered, JobDies
<1>1. UNCHANGED <<status, token, due, creating, cancelling, pc, of, verdict, imports>> OBVIOUS
<1>2. pc[h] # "idle" /\ of[h] \in Pairings BY DEF HelpersHavePairings
<1>3. TypeOK' BY <1>1, <1>2 DEF TypeOK, Results
<1>4. \A g \in Helpers \ {h} : op'[g] = op[g] /\ result'[g] = result[g] /\ job'[g] = job[g]
  BY DEF TypeOK
<1>5. imported \subseteq imported' OBVIOUS
<1>6. HelpersHavePairings' BY <1>1, <1>2, <1>4 DEF HelpersHavePairings
<1>7. AcceptedIsStored'
  <2>1. job'[h] = "stored" \/ result'[h] = "logged_in" \/ verdict[h] = "logged_in" =>
          of[h] \in imported'
    BY DEF AcceptedIsStored, TypeOK
  <2>. QED BY <1>1, <1>4, <1>5, <2>1 DEF AcceptedIsStored
<1>8. DoneIsClosed' BY <1>1, <1>5 DEF DoneIsClosed
<1>9. OpenOpIsAwaited'
  <2>1. job'[h] # "queued" BY DEF TypeOK
  <2>2. deaths' = 0 => deaths = 0 BY DEF TypeOK
  <2>. QED BY <1>1, <1>4, <2>1, <2>2 DEF OpenOpIsAwaited
<1>. QED BY <1>3, <1>6, <1>7, <1>8, <1>9

\* The helper's own request: what it changes is its own, and the row of its pairing.
LEMMA HelperInv ==
  ASSUME SignInInv, NEW h \in Helpers,
         \/ \E p \in Pairings : FindCode(h, p)
         \/ Exchange(h) \/ AskImport(h) \/ RefuseImport(h) \/ MarkImporting(h) \/ CallOp(h)
         \/ Poll(h) \/ GiveUpOnOp(h) \/ FinishPairing(h) \/ RequestDies(h)
  PROVE  SignInInv'
<1>. USE DEF SignInInv
<1>1. ASSUME NEW p \in Pairings, FindCode(h, p) PROVE SignInInv'
  <2>. USE <1>1 DEF FindCode
  <2>1. TypeOK' BY DEF TypeOK
  <2>2. pc[h] = "idle" /\ \A g \in Helpers \ {h} : pc'[g] = pc[g] /\ of'[g] = of[g]
    BY DEF TypeOK
  <2>3. pc'[h] = "found" /\ of'[h] = p BY DEF TypeOK
  <2>4. HelpersHavePairings' BY <2>2, <2>3 DEF HelpersHavePairings
  <2>5. AcceptedIsStored' BY <2>2, <2>3 DEF AcceptedIsStored, HelpersHavePairings
  <2>6. DoneIsClosed' BY <2>2, <2>3 DEF DoneIsClosed
  <2>7. OpenOpIsAwaited' BY <2>2, <2>3 DEF OpenOpIsAwaited
  <2>. QED BY <2>1, <2>4, <2>5, <2>6, <2>7
<1>2. ASSUME Exchange(h) \/ MarkImporting(h) PROVE SignInInv'
  <2>. USE <1>2 DEF Exchange, MarkImporting
  <2>1. pc[h] \notin {"idle", "armed", "gone", "waits"} /\ of[h] \in Pairings
    BY DEF HelpersHavePairings
  <2>2. TypeOK'
    <3>1. status' \in [Pairings -> Live \cup Over \cup {"none"}]
      BY <2>1 DEF TypeOK, Live, Over
    <3>2. token' \in [Pairings -> Helpers \cup {Nobody}] BY DEF TypeOK
    <3>3. due' \in [Pairings -> BOOLEAN] BY DEF TypeOK
    <3>4. pc' \in [Helpers -> {"idle", "found", "armed", "checked", "marked", "waits", "told",
                               "gone"}]
      BY DEF TypeOK
    <3>. QED BY <3>1, <3>2, <3>3, <3>4 DEF TypeOK
  <2>3. \A g \in Helpers \ {h} : pc'[g] = pc[g] BY DEF TypeOK
  <2>4. pc'[h] # "idle" BY DEF TypeOK
  <2>5. HelpersHavePairings' BY <2>1, <2>3, <2>4 DEF HelpersHavePairings
  <2>6. AcceptedIsStored' BY DEF AcceptedIsStored
  <2>7. DoneIsClosed'
    <3>1. \A p \in Pairings : status'[p] = "done" => status[p] = "done" /\ token'[p] = token[p]
      BY <2>1 DEF TypeOK
    <3>. QED BY <2>1, <2>3, <3>1 DEF DoneIsClosed
  <2>8. OpenOpIsAwaited' BY <2>1, <2>3 DEF OpenOpIsAwaited
  <2>. QED BY <2>2, <2>5, <2>6, <2>7, <2>8
<1>3. ASSUME AskImport(h) \/ RefuseImport(h) \/ RequestDies(h) PROVE SignInInv'
  <2>. USE <1>3 DEF AskImport, RefuseImport, RequestDies
  <2>1. pc[h] \notin {"idle", "gone"} /\ of[h] \in Pairings BY DEF HelpersHavePairings
  <2>2. TypeOK' BY DEF TypeOK
  <2>3. \A g \in Helpers \ {h} : pc'[g] = pc[g] BY DEF TypeOK
  <2>4. pc'[h] # "idle" BY DEF TypeOK
  <2>5. HelpersHavePairings' BY <2>1, <2>3, <2>4 DEF HelpersHavePairings
  <2>6. AcceptedIsStored' BY DEF AcceptedIsStored
  <2>7. DoneIsClosed'
    <3>1. status[of[h]] = "done" => pc'[h] \in {"armed", "gone"}
      BY <2>1 DEF TypeOK, TokenOpens
    <3>. QED BY <2>3, <3>1 DEF DoneIsClosed
  <2>8. OpenOpIsAwaited' BY <2>3 DEF OpenOpIsAwaited, TypeOK
  <2>. QED BY <2>2, <2>5, <2>6, <2>7, <2>8
<1>4. ASSUME CallOp(h) PROVE SignInInv'
  <2>. USE <1>4 DEF CallOp
  <2>1. pc[h] = "marked" /\ of[h] \in Pairings BY DEF HelpersHavePairings
  <2>2. TypeOK' BY DEF TypeOK, Results
  <2>3. \A g \in Helpers \ {h} :
          pc'[g] = pc[g] /\ op'[g] = op[g] /\ result'[g] = result[g] /\ job'[g] = job[g]
    BY DEF TypeOK
  <2>4. pc'[h] = "waits" /\ result'[h] = "none" /\ job'[h] = "queued" BY DEF TypeOK
  <2>5. HelpersHavePairings' BY <2>1, <2>3, <2>4 DEF HelpersHavePairings
  <2>6. AcceptedIsStored' BY <2>3, <2>4 DEF AcceptedIsStored
  <2>7. DoneIsClosed' BY <2>1, <2>3 DEF DoneIsClosed
  <2>8. OpenOpIsAwaited' BY <2>3, <2>4 DEF OpenOpIsAwaited
  <2>. QED BY <2>2, <2>5, <2>6, <2>7, <2>8
<1>5. ASSUME Poll(h) \/ GiveUpOnOp(h) PROVE SignInInv'
  <2>. USE <1>5 DEF Poll, GiveUpOnOp, Told, Closed
  <2>1. pc[h] = "waits" /\ of[h] \in Pairings BY DEF HelpersHavePairings
  <2>2. TypeOK' BY DEF TypeOK, Results
  <2>3. \A g \in Helpers \ {h} :
          pc'[g] = pc[g] /\ op'[g] = op[g] /\ verdict'[g] = verdict[g]
    BY DEF TypeOK
  <2>4. /\ pc'[h] = "told" /\ op'[h] # "pending"
        /\ verdict'[h] = "logged_in" => result[h] = "logged_in"
    BY DEF TypeOK
  <2>5. HelpersHavePairings' BY <2>1, <2>3, <2>4 DEF HelpersHavePairings
  <2>6. AcceptedIsStored' BY <2>3, <2>4 DEF AcceptedIsStored
  <2>7. DoneIsClosed' BY <2>1, <2>3 DEF DoneIsClosed
  <2>8. OpenOpIsAwaited' BY <2>3, <2>4 DEF OpenOpIsAwaited
  <2>. QED BY <2>2, <2>5, <2>6, <2>7, <2>8
<1>6. ASSUME FinishPairing(h) PROVE SignInInv'
  <2>. USE <1>6 DEF FinishPairing
  <2>1. pc[h] = "told" /\ of[h] \in Pairings BY DEF HelpersHavePairings
  <2>2. TypeOK' BY <2>1 DEF TypeOK, Outcome, Live, Over
  <2>3. \A g \in Helpers \ {h} : pc'[g] = pc[g] BY DEF TypeOK
  <2>4. pc'[h] = "armed" BY DEF TypeOK
  <2>5. HelpersHavePairings' BY <2>1, <2>3, <2>4 DEF HelpersHavePairings
  <2>6. AcceptedIsStored' BY DEF AcceptedIsStored
  <2>7. DoneIsClosed'
    <3>. SUFFICES ASSUME NEW p \in Pairings, status'[p] = "done"
                  PROVE  /\ token'[p] = Nobody /\ p \in imported
                         /\ \E g \in Helpers : /\ of[g] = p /\ verdict[g] = "logged_in"
                                               /\ pc'[g] \in {"armed", "gone"}
      BY DEF DoneIsClosed
    <3>1. CASE p = of[h]
      <4>1. verdict[h] = "logged_in" /\ token'[p] = Nobody
        BY <2>1, <3>1 DEF Outcome, TypeOK
      <4>. QED BY <2>4, <3>1, <4>1 DEF AcceptedIsStored
    <3>2. CASE p # of[h]
      <4>1. status[p] = "done" /\ token'[p] = token[p] BY <3>2 DEF TypeOK
      <4>. QED BY <2>1, <2>3, <4>1 DEF DoneIsClosed
    <3>. QED BY <3>1, <3>2
  <2>8. OpenOpIsAwaited' BY <2>1, <2>3 DEF OpenOpIsAwaited
  <2>. QED BY <2>2, <2>5, <2>6, <2>7, <2>8
<1>. QED BY <1>1, <1>2, <1>3, <1>4, <1>5, <1>6

LEMMA NextInv == SignInInv /\ [Next]_vars => SignInInv'
<1>. SUFFICES ASSUME SignInInv, [Next]_vars PROVE SignInInv' OBVIOUS
<1>1. CASE UNCHANGED vars
  BY <1>1 DEF vars, SignInInv, TypeOK, HelpersHavePairings, AcceptedIsStored, DoneIsClosed,
              OpenOpIsAwaited
<1>2. CASE Next
  BY <1>2, RowsInv, WorkerInv, HelperInv DEF Next, Work, Request, Worker
<1>. QED BY <1>1, <1>2

\* The inductive invariant of pairings and their imports, with their types: an accepted session
\* was stored, a finished pairing has no token and nobody under way, and an import that a
\* worker may still take is awaited (exchangePairing, callBrowserOp, executeBrowserOpJob).
THEOREM Invariant == Spec => []SignInInv
<1>. QED BY InitInv, NextInv, PTL DEF Spec

\* However many helpers trade one code, and whichever of their imports ends last, a
\* pairing that says it is done has brought in a session that its provider accepted.
THEOREM DoneIsSignedIn == Spec => []DoneMeansSignedIn
<1>1. SignInInv => DoneMeansSignedIn BY DEF SignInInv, DoneIsClosed, DoneMeansSignedIn
<1>. QED BY <1>1, Invariant, PTL

----------------------------------------------------------------------------
(* What a step may never do *)

\* A pairing that is over, and of which nobody holds a stale view, is never revived:
\* no late code, token, cancellation or look changes its outcome.
THEOREM OverForGood == Spec => OverStaysOver
<1>. DEFINE Stays == \A p \in Pairings : AtRest(p) => AtRest(p)' /\ status'[p] = status[p]
<1>1. ASSUME SignInInv, [Next]_vars PROVE [Stays]_vars
  <2>. SUFFICES ASSUME Next, NEW p \in Pairings, AtRest(p)
                PROVE  AtRest(p)' /\ status'[p] = status[p]
    BY <1>1
  <2>. USE <1>1 DEF SignInInv, AtRest, Live, Over
  <2>1. ASSUME \/ \E q \in Pairings : \/ Create(q) \/ ReplaceOthers(q) \/ ReadToCancel(q)
                                      \/ Cancel(q) \/ TimeUp(q)
               \/ Expire
        PROVE  AtRest(p)' /\ status'[p] = status[p]
    <3>. USE DEF Create, ReplaceOthers, ReadToCancel, Cancel, TimeUp, Expire
    <3>1. UNCHANGED <<pc, of>> BY <2>1
    <3>2. status'[p] = status[p] /\ p \notin cancelling'
      BY <2>1 DEF TypeOK, Replaced, Expired
    <3>. QED BY <3>1, <3>2
  <2>2. ASSUME NEW h \in Helpers, Worker(h) \/ JobDies(h)
        PROVE  AtRest(p)' /\ status'[p] = status[p]
    BY <2>2 DEF Worker, TakeOp, StoreSession, CheckSignIn, OpThrows, Answered, JobDies
  <2>3. ASSUME NEW h \in Helpers, NEW q \in Pairings, FindCode(h, q)
        PROVE  AtRest(p)' /\ status'[p] = status[p]
    <3>1. q # p /\ UNCHANGED <<status, cancelling>> BY <2>3 DEF FindCode, LiveCode
    <3>2. \A g \in Helpers : of'[g] = p => of[g] = p /\ pc'[g] = pc[g]
      BY <2>3, <3>1 DEF FindCode, TypeOK
    <3>. QED BY <3>1, <3>2
  <2>4. ASSUME NEW h \in Helpers,
               \/ Exchange(h) \/ AskImport(h) \/ RefuseImport(h) \/ MarkImporting(h)
               \/ CallOp(h) \/ Poll(h) \/ GiveUpOnOp(h) \/ FinishPairing(h) \/ RequestDies(h)
        PROVE  AtRest(p)' /\ status'[p] = status[p]
    <3>. USE DEF Exchange, AskImport, RefuseImport, MarkImporting, CallOp, Poll, GiveUpOnOp,
                 Told, FinishPairing, RequestDies
    <3>1. UNCHANGED <<of, cancelling>> BY <2>4
    <3>2. \A g \in Helpers \ {h} : pc'[g] = pc[g] BY <2>4 DEF TypeOK
    <3>3. CASE of[h] = p
      <4>1. AskImport(h) /\ ~TokenOpens(h) BY <2>4, <3>3 DEF TokenOpens
      <4>2. pc'[h] = "gone" /\ UNCHANGED status BY <4>1 DEF TypeOK
      <4>. QED BY <3>1, <3>2, <4>2
    <3>4. CASE of[h] # p
      <4>1. status'[p] = status[p] BY <2>4, <3>4 DEF TypeOK
      <4>. QED BY <3>1, <3>2, <3>4, <4>1
    <3>. QED BY <3>3, <3>4
  <2>. QED BY <2>1, <2>2, <2>3, <2>4 DEF Next, Work, Request
<1>. QED BY <1>1, Invariant, PTL DEF Spec, OverStaysOver

\* While nothing dies, whoever was answered, a deadline included, is not answered in
\* vain: a worker that comes for the op later finds it closed.
THEOREM TakesAwaitedOps == Spec => NothingAfterTheAnswer
<1>. DEFINE Awaited == \A h \in Helpers : job[h] = "queued" /\ job'[h] = "taken" =>
                         pc[h] = "waits" \/ deaths > 0
<1>1. ASSUME SignInInv, [Next]_vars PROVE [Awaited]_vars
  <2>. SUFFICES ASSUME Next, NEW h \in Helpers, job[h] = "queued", job'[h] = "taken"
                PROVE  pc[h] = "waits" \/ deaths > 0
    BY <1>1
  <2>. USE <1>1 DEF SignInInv
  <2>1. ASSUME NEW g \in Helpers, Worker(g) \/ JobDies(g)
        PROVE  pc[h] = "waits" \/ deaths > 0
    <3>1. op[h] = "pending"
      BY <2>1 DEF Worker, TakeOp, StoreSession, CheckSignIn, OpThrows, Answered, JobDies, TypeOK
    <3>. QED BY <3>1 DEF OpenOpIsAwaited, TypeOK
  <2>2. ASSUME ~\E g \in Helpers : Worker(g) \/ JobDies(g) PROVE FALSE
    <3>1. \A g \in Helpers : job'[g] = job[g] \/ job'[g] = "queued"
      BY <2>2
         DEF Next, Work, Request, Create, ReplaceOthers, ReadToCancel, Cancel, TimeUp, Expire,
             FindCode, Exchange, AskImport, RefuseImport, MarkImporting, CallOp, Poll,
             GiveUpOnOp, Told, FinishPairing, RequestDies, TypeOK
    <3>. QED BY <3>1
  <2>. QED BY <2>1, <2>2
<1>. QED BY <1>1, Invariant, PTL DEF Spec, NothingAfterTheAnswer

----------------------------------------------------------------------------
(* One code at a time *)

\* However many times a code is asked for at once, when every call has come to its end
\* the provider has one code waiting at the most.
THEOREM OneCode == Spec => []OneCodeWaits
<1>1. Init => OneCodeWaits BY DEF Init, OneCodeWaits
<1>2. SignInInv /\ OneCodeWaits /\ [Next]_vars => OneCodeWaits'
  <2>. SUFFICES ASSUME SignInInv, OneCodeWaits, [Next]_vars PROVE OneCodeWaits' OBVIOUS
  <2>. USE DEF SignInInv, OneCodeWaits
  <2>1. ASSUME NEW p \in Pairings, ReplaceOthers(p) PROVE OneCodeWaits'
    <3>1. \A q \in Pairings : status'[q] = "waiting" => q = p
      BY <2>1 DEF ReplaceOthers, Replaced, TypeOK
    <3>. QED BY <3>1
  <2>2. ASSUME NEW p \in Pairings, Create(p) PROVE OneCodeWaits'
    BY <2>2 DEF Create, TypeOK
  <2>3. ASSUME UNCHANGED creating,
               \A q \in Pairings : status'[q] = "waiting" => status[q] = "waiting"
        PROVE  OneCodeWaits'
    BY <2>3
  <2>4. ASSUME \/ \E p \in Pairings : ReadToCancel(p) \/ Cancel(p) \/ TimeUp(p)
               \/ Expire
        PROVE  OneCodeWaits'
    BY <2>3, <2>4 DEF ReadToCancel, Cancel, TimeUp, Expire, TypeOK
  <2>5. ASSUME NEW h \in Helpers, Worker(h) \/ JobDies(h) PROVE OneCodeWaits'
    BY <2>3, <2>5 DEF Worker, TakeOp, StoreSession, CheckSignIn, OpThrows, Answered, JobDies
  <2>6. ASSUME NEW h \in Helpers,
               \/ \E p \in Pairings : FindCode(h, p)
               \/ AskImport(h) \/ RefuseImport(h) \/ CallOp(h)
               \/ Poll(h) \/ GiveUpOnOp(h) \/ RequestDies(h)
        PROVE  OneCodeWaits'
    BY <2>3, <2>6 DEF FindCode, AskImport, RefuseImport, CallOp, Poll, GiveUpOnOp, Told, RequestDies
  <2>7. ASSUME NEW h \in Helpers, Exchange(h) \/ MarkImporting(h) \/ FinishPairing(h)
        PROVE  OneCodeWaits'
    <3>1. UNCHANGED creating /\ \A q \in Pairings : status'[q] = "waiting" => status[q] = "waiting"
      BY <2>7 DEF Exchange, MarkImporting, FinishPairing, Outcome, TypeOK
    <3>. QED BY <2>3, <3>1
  <2>8. CASE UNCHANGED vars BY <2>3, <2>8 DEF vars
  <2>. QED
    BY <2>1, <2>2, <2>4, <2>5, <2>6, <2>7, <2>8 DEF Next, Work, Request
<1>. QED BY <1>1, <1>2, Invariant, PTL DEF Spec
=============================================================================
