------------------------- MODULE Conversation_proofs -------------------------
(***************************************************************************)
(* Machine-checked facts about what becomes of what a person writes, for   *)
(* any sets of messages, activities and orders and any bounds: Delivery,   *)
(* then Commands, ChatDrive and Routing.                                   *)
(***************************************************************************)
EXTENDS Conversation, SequenceTheorems, FiniteSetTheorems, WellFoundedInduction, TLAPS

RunStatusOf == {"none", "running", "waiting_approval"} \cup TERMINAL_RUN_STATUSES

----------------------------------------------------------------------------
(* Steps of one activity *)

\* A run keeps its message, and what was told stays told.
Grows ==
  /\ status' \in [Runs -> RunStatusOf]
  /\ owner' \in [Runs -> Messages \cup {NoMsg}]
  /\ heard' \in [Runs -> Nat]
  /\ vouched' \in SUBSET Messages
  /\ \A r \in Runs : owner[r] \in Messages => owner'[r] = owner[r]
  /\ \A r \in Runs : heard'[r] >= heard[r]
  /\ vouched \subseteq vouched'

Counted ==
  /\ decision' \in [Runs -> {"none", "pending", "approved", "refused"}]
  /\ left' \in [Jobs -> 0..MaxDeliveries]
  /\ asked' \in 0..MaxRequests /\ faults' \in 0..MaxFaults

LEMMA StaysTold ==
  ASSUME DeliveryInvariant, Grows, NEW m \in Messages, Told(m)
  PROVE  Told(m)'
<1>1. CASE m \in vouched BY <1>1 DEF Grows, Told
<1>2. CASE \E r \in Runs : owner[r] = m /\ heard[r] > 0
  <2>1. PICK r \in Runs : owner[r] = m /\ heard[r] > 0 BY <1>2
  <2>2. owner'[r] = m BY <2>1 DEF Grows
  <2>3. heard'[r] > 0 BY <2>1 DEF Grows, DeliveryInvariant, TypeOK
  <2>. QED BY <2>2, <2>3 DEF Told
<1>. QED BY <1>1, <1>2 DEF Told

\* A row that names no run of another message stays so.
LEMMA RowStaysTrue ==
  ASSUME DeliveryInvariant, Grows, NEW x \in Row, NEW m \in Messages,
         x.run # NoRun => owner[x.run] = m, x.status = "done" => Told(m)
  PROVE  /\ x.run # NoRun => owner'[x.run] = m
         /\ x.status = "done" => Told(m)'
<1>1. x.run \in Runs \cup {NoRun} BY DEF Row
<1>. QED BY <1>1, StaysTold DEF Grows

\* Runs keep their messages and their truth when they change status.
RunsTrue == \A r \in Runs : /\ status'[r] = "none" => owner'[r] = NoMsg
                            /\ status'[r] # "none" => owner'[r] \in Messages
                            /\ status'[r] = "success" => Told(owner'[r])

\* What an activity becomes keeps the invariant if the new activity is true.
LEMMA Moves ==
  ASSUME DeliveryInvariant, Grows, Counted, RunsTrue, UNCHANGED <<mode, row, seen>>,
         NEW w \in Workers, seen[w] = Unread,
         NEW a \in Activity, act' = [act EXCEPT ![w] = a], Fits(a),
         a.run # NoRun => owner'[a.run] = a.msg,
         a.out = "done" => Told(a.msg) \/ a.msg \in vouched',
         a.at = "answer" => heard'[a.run] > 0
  PROVE  DeliveryInvariant'
<1>1. TypeOK'
  BY DEF DeliveryInvariant, Grows, Counted, TypeOK, RunStatusOf
<1>2. ASSUME NEW v \in Workers PROVE Fits(act[v])' /\ TrueAct(v)'
  <2>1. CASE v = w
    <3>1. act'[v] = a BY <2>1 DEF DeliveryInvariant, TypeOK
    <3>2. a.out = "done" => Told(a.msg)'
      <4>. SUFFICES ASSUME a.out = "done" PROVE Told(a.msg)'
        OBVIOUS
      <4>1. CASE a.msg \in vouched' BY <4>1 DEF Told
      <4>2. CASE Told(a.msg)
        <5>1. a.msg \in Messages BY DEF Fits, Nothing
        <5>. QED BY <4>2, <5>1, StaysTold
      <4>. QED BY <4>1, <4>2
    <3>. QED BY <2>1, <3>1, <3>2 DEF Fits, TrueAct
  <2>2. CASE v # w
    <3>1. act'[v] = act[v] /\ seen'[v] = seen[v]
      BY <2>2 DEF DeliveryInvariant, TypeOK
    <3>2. Fits(act[v]) /\ TrueAct(v) BY DEF DeliveryInvariant
    <3>3. act[v] \in Activity /\ seen[v] \in Row \cup {Unread}
      BY DEF DeliveryInvariant, TypeOK
    <3>4. Fits(act[v])' BY <3>1, <3>2 DEF Fits
    <3>5. act[v].run # NoRun => owner'[act[v].run] = act[v].msg
      <4>. SUFFICES ASSUME act[v].run # NoRun PROVE owner'[act[v].run] = act[v].msg
        OBVIOUS
      <4>1. act[v].run \in Runs /\ act[v] # Nothing BY <3>3 DEF Activity, Nothing
      <4>. QED BY <3>2, <4>1 DEF Fits, TrueAct, Grows
    <3>6. act[v].out = "done" => Told(act[v].msg)'
      <4>1. act[v].out = "done" => act[v].msg \in Messages BY <3>2 DEF Fits, Nothing
      <4>. QED BY <3>1, <3>2, <4>1, StaysTold DEF TrueAct
    <3>7. act[v].at = "answer" => heard'[act[v].run] > 0
      <4>1. act[v].at = "answer" => act[v].run \in Runs BY <3>2 DEF Fits, Driving
      <4>. QED BY <3>2, <4>1 DEF TrueAct, Grows, DeliveryInvariant, TypeOK
    <3>8. seen[v] # Unread => TrueRow(seen[v], act[v].msg)'
      <4>. SUFFICES ASSUME seen[v] # Unread PROVE TrueRow(seen[v], act[v].msg)'
        OBVIOUS
      <4>1. act[v].at \in UpdateAt BY DEF DeliveryInvariant, TypeOK
      <4>2. act[v].msg \in Messages BY <3>2, <4>1 DEF Fits, Nothing, UpdateAt
      <4>3. TrueRow(seen[v], act[v].msg) BY <3>2 DEF TrueAct
      <4>4. seen[v] \in Row BY <3>3
      <4>5. /\ seen[v].run # NoRun => owner'[seen[v].run] = act[v].msg
            /\ seen[v].status = "done" => Told(act[v].msg)'
        BY <3>1, <4>2, <4>3, <4>4, RowStaysTrue DEF TrueRow
      <4>. QED BY <4>5, <3>1 DEF TrueRow
    <3>. QED BY <3>1, <3>4, <3>5, <3>6, <3>7, <3>8 DEF TrueAct
  <2>. QED BY <2>1, <2>2
<1>3. ASSUME NEW r \in Runs PROVE Owned(r)' /\ (status[r] = "success" => Told(owner[r]))'
  BY StaysTold DEF Owned, RunsTrue, TypeOK, DeliveryInvariant, Grows
<1>4. ASSUME NEW m \in Messages PROVE TrueRow(row[m], m)'
  BY RowStaysTrue DEF TrueRow, DeliveryInvariant, TypeOK
<1>. QED BY <1>1, <1>2, <1>3, <1>4 DEF DeliveryInvariant

----------------------------------------------------------------------------
(* Who has read a row, and what an activity is about *)

LEMMA NothingRead ==
  ASSUME DeliveryInvariant, NEW w \in Workers, act[w].at \notin UpdateAt
  PROVE  seen[w] = Unread
BY DEF DeliveryInvariant, TypeOK

LEMMA FreeIsFree ==
  ASSUME DeliveryInvariant, NEW w \in Workers, Free(w)
  PROVE  seen[w] = Unread
<1>1. act[w].at = "idle" BY DEF Free, Nothing
<1>. QED BY <1>1, NothingRead DEF UpdateAt

LEMMA Busy ==
  ASSUME DeliveryInvariant, NEW w \in Workers, act[w].at # "idle"
  PROVE  act[w] \in Activity /\ act[w].msg \in Messages /\ Fits(act[w]) /\ TrueAct(w)
BY DEF DeliveryInvariant, TypeOK, Fits, Nothing

\* What a step leaves alone.
LEMMA QuietRuns ==
  ASSUME DeliveryInvariant, UNCHANGED <<status, owner, heard>>,
         vouched' \in SUBSET Messages, vouched \subseteq vouched'
  PROVE  Grows /\ RunsTrue
<1>1. Grows BY DEF DeliveryInvariant, TypeOK, Grows, RunStatusOf
<1>2. ASSUME NEW r \in Runs PROVE status[r] = "success" => Told(owner[r]) /\ owner[r] \in Messages
  BY DEF DeliveryInvariant, Owned
<1>. QED BY <1>1, <1>2, StaysTold DEF RunsTrue, DeliveryInvariant, Owned

LEMMA QuietCounts ==
  ASSUME DeliveryInvariant
  PROVE  /\ UNCHANGED <<decision, left, asked, faults>> => Counted
         /\ UNCHANGED <<decision, left, faults>> /\ Request => Counted
BY BoundsAssumption DEF DeliveryInvariant, TypeOK, Counted, Request

\* An activity goes on to the label l.
LEMMA GotoMoves ==
  ASSUME DeliveryInvariant, Grows, Counted, RunsTrue, UNCHANGED <<mode, row, seen>>,
         NEW w \in Workers, act[w].at \notin UpdateAt \cup {"idle"},
         NEW l \in Labels \ {"choose", "hand", "redeliver", "send", "reaped"}, Goto(w, l),
         l \in Sealing => act[w].out \in MessageStatus,
         l \in Closing => /\ act[w].out \in {"done", "failed", "cancelled", "busy"}
                          /\ act[w].then = "settle" => act[w].out # "busy",
         l \in Driving => act[w].run \in Runs,
         l = "answer" => heard'[act[w].run] > 0
  PROVE  DeliveryInvariant'
<1>. DEFINE a == [act[w] EXCEPT !.at = l]
<1>1. act[w] \in Activity /\ act[w].msg \in Messages /\ Fits(act[w]) /\ TrueAct(w)
  BY Busy
<1>2. a \in Activity /\ a.at = l /\ a.msg = act[w].msg /\ a.run = act[w].run
        /\ a.out = act[w].out /\ a.then = act[w].then /\ a.post = act[w].post
  BY <1>1 DEF Activity
<1>3. act' = [act EXCEPT ![w] = a] BY DEF Goto
<1>4. Fits(a) BY <1>1, <1>2 DEF Fits
<1>5. a.run # NoRun => owner'[a.run] = a.msg
  BY <1>1, <1>2 DEF Grows, TrueAct, Activity
<1>6. a.out = "done" => Told(a.msg) BY <1>1, <1>2 DEF TrueAct
<1>7. seen[w] = Unread BY NothingRead
<1>. HIDE DEF a
<1>. QED BY <1>2, <1>3, <1>4, <1>5, <1>6, <1>7, Moves

\* An activity goes on to close its run.
LEMMA ClosesMoves ==
  ASSUME DeliveryInvariant, Grows, Counted, RunsTrue, UNCHANGED <<mode, row, seen>>,
         NEW w \in Workers, act[w].at \notin UpdateAt \cup {"idle"}, act[w].run \in Runs,
         NEW o \in {"done", "failed", "cancelled", "busy"}, NEW l \in {"settle", "busy"},
         Closes(w, o, l), l = "settle" => o # "busy", o = "done" => Told(act[w].msg)
  PROVE  DeliveryInvariant'
<1>. DEFINE a == [act[w] EXCEPT !.at = "end", !.out = o, !.then = l]
<1>1. act[w] \in Activity /\ act[w].msg \in Messages /\ Fits(act[w]) /\ TrueAct(w)
  BY Busy
<1>2. a \in Activity /\ a.at = "end" /\ a.msg = act[w].msg /\ a.run = act[w].run
        /\ a.out = o /\ a.then = l
  BY <1>1 DEF Activity, Labels, Outs
<1>3. act' = [act EXCEPT ![w] = a] BY DEF Closes
<1>4. Fits(a) BY <1>1, <1>2 DEF Fits, Sealing, Closing
<1>5. a.run # NoRun => owner'[a.run] = a.msg
  BY <1>1, <1>2 DEF Grows, TrueAct, Activity
<1>6. seen[w] = Unread BY NothingRead
<1>. HIDE DEF a
<1>. QED BY <1>2, <1>3, <1>4, <1>5, <1>6, Moves

----------------------------------------------------------------------------
(* Activities that begin *)

LEMMA BeginsMoves ==
  ASSUME DeliveryInvariant, Grows, Counted, RunsTrue, UNCHANGED <<mode, row, seen>>,
         NEW w \in Workers, NEW a \in Activity, Begins(w, a), Fits(a),
         a.run # NoRun => owner'[a.run] = a.msg,
         a.out = "done" => Told(a.msg) \/ a.msg \in vouched',
         a.at # "answer"
  PROVE  DeliveryInvariant'
BY FreeIsFree, Moves DEF Begins

LEMMA ChooseKeeps ==
  ASSUME DeliveryInvariant, NEW w \in Workers, NEW m \in Messages, Choose(w, m)
  PROVE  DeliveryInvariant'
<1>. DEFINE a == [Nothing EXCEPT !.at = IF mode[m] = "chat" THEN "choose" ELSE "hand",
                    !.msg = m, !.post = [msg |-> m, how |-> "send", n |-> asked + 1]]
<1>1. [msg |-> m, how |-> "send", n |-> asked + 1] \in Jobs
  BY BoundsAssumption DEF Choose, Request, DeliveryInvariant, TypeOK, Jobs
<1>2. /\ a \in Activity /\ Fits(a) /\ a.run = NoRun /\ a.out = "none" /\ a.at # "answer"
  BY <1>1 DEF Activity, Labels, UpdateAt, Outs, Nothing, Fits, Sealing, Closing, Driving
<1>3. Begins(w, a) BY DEF Choose
<1>4. Counted BY QuietCounts DEF Choose, runVars
<1>5. Grows /\ RunsTrue BY QuietRuns DEF Choose, runVars, DeliveryInvariant, TypeOK
<1>. HIDE DEF a
<1>. QED BY <1>2, <1>3, <1>4, <1>5, BeginsMoves DEF Choose

LEMMA UnrouteKeeps ==
  ASSUME DeliveryInvariant, NEW w \in Workers, NEW m \in Messages, Unroute(w, m)
  PROVE  DeliveryInvariant'
<1>. DEFINE a == [Nothing EXCEPT !.at = "unroute", !.msg = m]
<1>1. /\ a \in Activity /\ Fits(a) /\ a.run = NoRun /\ a.out = "none" /\ a.at # "answer"
  BY DEF Activity, Labels, UpdateAt, Outs, Nothing, Fits, Sealing, Closing, Driving
<1>2. Begins(w, a) BY DEF Unroute
<1>3. Counted BY QuietCounts DEF Unroute, runVars
<1>4. Grows /\ RunsTrue BY QuietRuns DEF Unroute, runVars, DeliveryInvariant, TypeOK
<1>. HIDE DEF a
<1>. QED BY <1>1, <1>2, <1>3, <1>4, BeginsMoves DEF Unroute

LEMMA FetchKeeps ==
  ASSUME DeliveryInvariant, NEW w \in Workers, NEW m \in Messages, Fetch(w, m)
  PROVE  DeliveryInvariant'
<1>. DEFINE a == [Nothing EXCEPT !.at = "fetch", !.msg = m]
<1>1. /\ a \in Activity /\ Fits(a) /\ a.run = NoRun /\ a.out = "none" /\ a.at # "answer"
  BY DEF Activity, Labels, UpdateAt, Outs, Nothing, Fits, Sealing, Closing, Driving
<1>2. Begins(w, a) BY DEF Fetch
<1>3. Counted BY QuietCounts DEF Fetch, runVars
<1>4. Grows /\ RunsTrue BY QuietRuns DEF Fetch, runVars, DeliveryInvariant, TypeOK
<1>. HIDE DEF a
<1>. QED BY <1>1, <1>2, <1>3, <1>4, BeginsMoves DEF Fetch

LEMMA ReportKeeps ==
  ASSUME DeliveryInvariant, NEW w \in Workers, NEW m \in Messages,
         NEW o \in {"acknowledged", "delivered", "done", "failed"}, Report(w, m, o)
  PROVE  DeliveryInvariant'
<1>. DEFINE a == [Nothing EXCEPT !.at = "report", !.msg = m, !.out = o]
<1>1. /\ a \in Activity /\ Fits(a) /\ a.run = NoRun /\ a.out = o /\ a.at # "answer"
      /\ a.msg = m
  BY DEF Activity, Labels, UpdateAt, Outs, Nothing, Fits, Sealing, Closing, Driving,
         MessageStatus
<1>2. Begins(w, a) BY DEF Report
<1>3. Counted BY QuietCounts DEF Report, runVars
<1>4. Grows /\ RunsTrue BY QuietRuns DEF Report, runVars, DeliveryInvariant, TypeOK
<1>5. o = "done" => m \in vouched' BY DEF Report
<1>. HIDE DEF a
<1>. QED BY <1>1, <1>2, <1>3, <1>4, <1>5, BeginsMoves DEF Report

LEMMA FinishRunKeeps ==
  ASSUME DeliveryInvariant, NEW w \in Workers, NEW r \in Runs,
         NEW o \in {"done", "failed", "cancelled"}, FinishRun(w, r, o)
  PROVE  DeliveryInvariant'
<1>. DEFINE a == [Nothing EXCEPT !.at = "end", !.msg = owner[r], !.run = r, !.out = o]
<1>1. owner[r] \in Messages BY DEF FinishRun, DeliveryInvariant, Owned
<1>2. /\ a \in Activity /\ Fits(a) /\ a.run = r /\ a.out = o /\ a.at # "answer"
      /\ a.msg = owner[r]
  BY <1>1 DEF Activity, Labels, UpdateAt, Outs, Nothing, Fits, Sealing, Closing, Driving
<1>3. Begins(w, a) BY DEF FinishRun
<1>4. Counted BY QuietCounts DEF FinishRun, runVars
<1>5. Grows /\ RunsTrue
  BY <1>1, QuietRuns DEF FinishRun, runVars, DeliveryInvariant, TypeOK
<1>6. o = "done" => owner[r] \in vouched' BY DEF FinishRun
<1>7. owner'[r] = owner[r] BY DEF FinishRun, runVars
<1>. HIDE DEF a
<1>. QED BY <1>2, <1>3, <1>4, <1>5, <1>6, <1>7, BeginsMoves DEF FinishRun

LEMMA SweepKeeps ==
  ASSUME DeliveryInvariant, NEW w \in Workers, NEW m \in Messages, Sweep(w, m)
  PROVE  DeliveryInvariant'
<1>. DEFINE r == row[m].run
            n == row[m].tries
<1>1. Counted BY QuietCounts DEF Sweep, runVars
<1>2. Grows /\ RunsTrue BY QuietRuns DEF Sweep, runVars, DeliveryInvariant, TypeOK
<1>3. row[m] \in Row /\ TrueRow(row[m], m) BY DEF DeliveryInvariant, TypeOK
<1>4. CASE /\ r # NoRun /\ status[r] \in TERMINAL_RUN_STATUSES
           /\ Begins(w, [Nothing EXCEPT !.at = "repair", !.msg = m,
                           !.out = MessageOf(status[r])])
  <2>. DEFINE a == [Nothing EXCEPT !.at = "repair", !.msg = m, !.out = MessageOf(status[r])]
  <2>1. MessageOf(status[r]) \in {"done", "cancelled", "failed"} BY DEF MessageOf
  <2>2. /\ a \in Activity /\ Fits(a) /\ a.run = NoRun /\ a.at # "answer" /\ a.msg = m
        /\ a.out = MessageOf(status[r])
    BY <2>1 DEF Activity, Labels, UpdateAt, Outs, Nothing, Fits, Sealing, Closing, Driving,
                MessageStatus
  <2>3. MessageOf(status[r]) = "done" => Told(m)
    <3>1. MessageOf(status[r]) = "done" => status[r] = "success" BY DEF MessageOf
    <3>2. r \in Runs /\ owner[r] = m BY <1>3, <1>4 DEF Row, TrueRow
    <3>. QED BY <3>1, <3>2 DEF DeliveryInvariant
  <2>4. Begins(w, a) BY <1>4
  <2>. HIDE DEF a
  <2>. QED BY <1>1, <1>2, <2>2, <2>3, <2>4, BeginsMoves DEF Sweep
<1>5. CASE /\ r = NoRun /\ row[m].headed /\ n < MaxAttempts
           /\ Begins(w, [Nothing EXCEPT !.at = "redeliver", !.msg = m,
                           !.post = [msg |-> m, how |-> "redeliver", n |-> n + 1]])
  <2>. DEFINE a == [Nothing EXCEPT !.at = "redeliver", !.msg = m,
                      !.post = [msg |-> m, how |-> "redeliver", n |-> n + 1]]
  <2>1. [msg |-> m, how |-> "redeliver", n |-> n + 1] \in Jobs
    BY <1>3, <1>5, BoundsAssumption DEF Row, Jobs
  <2>2. /\ a \in Activity /\ Fits(a) /\ a.run = NoRun /\ a.at # "answer" /\ a.out = "none"
    BY <2>1 DEF Activity, Labels, UpdateAt, Outs, Nothing, Fits, Sealing, Closing, Driving
  <2>3. Begins(w, a) BY <1>5
  <2>. HIDE DEF a
  <2>. QED BY <1>1, <1>2, <2>2, <2>3, BeginsMoves DEF Sweep
<1>6. CASE Begins(w, [Nothing EXCEPT !.at = "giveup", !.msg = m, !.out = "failed"])
  <2>. DEFINE a == [Nothing EXCEPT !.at = "giveup", !.msg = m, !.out = "failed"]
  <2>1. /\ a \in Activity /\ Fits(a) /\ a.run = NoRun /\ a.at # "answer" /\ a.out = "failed"
    BY DEF Activity, Labels, UpdateAt, Outs, Nothing, Fits, Sealing, Closing, Driving,
           MessageStatus
  <2>2. Begins(w, a) BY <1>6
  <2>. HIDE DEF a
  <2>. QED BY <1>1, <1>2, <2>1, <2>2, BeginsMoves DEF Sweep
<1>. QED BY <1>4, <1>5, <1>6 DEF Sweep

\* A step that moves the status of one run that is born, not to success.
LEMMA StatusMoves ==
  ASSUME DeliveryInvariant, NEW r \in Runs, status[r] # "none",
         NEW s \in RunStatusOf \ {"none"},
         s = "success" => Told(owner[r]),
         status' = [status EXCEPT ![r] = s], UNCHANGED <<owner, heard, vouched>>
  PROVE  Grows /\ RunsTrue
<1>1. Grows BY DEF DeliveryInvariant, TypeOK, Grows, RunStatusOf
<1>2. ASSUME NEW q \in Runs
      PROVE  /\ status'[q] = "none" => owner'[q] = NoMsg
             /\ status'[q] # "none" => owner'[q] \in Messages
             /\ status'[q] = "success" => Told(owner[q]) /\ owner[q] \in Messages
  <2>1. Owned(q) /\ (status[q] = "success" => Told(owner[q])) BY DEF DeliveryInvariant
  <2>. QED BY <2>1 DEF Owned, DeliveryInvariant, TypeOK
<1>. QED BY <1>1, <1>2, StaysTold DEF RunsTrue

LEMMA ResumeKeeps ==
  ASSUME DeliveryInvariant, NEW w \in Workers, NEW r \in Runs, Resume(w, r)
  PROVE  DeliveryInvariant'
<1>. DEFINE a == [Nothing EXCEPT !.msg = owner[r], !.run = r,
                    !.at = IF mode[owner[r]] = "chat" THEN "perform" ELSE "post",
                    !.leased = mode[owner[r]] = "chat"]
<1>1. owner[r] \in Messages BY DEF Resume, DeliveryInvariant, Owned
<1>2. /\ a \in Activity /\ Fits(a) /\ a.run = r /\ a.out = "none" /\ a.at # "answer"
      /\ a.msg = owner[r]
  BY <1>1 DEF Activity, Labels, UpdateAt, Outs, Nothing, Fits, Sealing, Closing, Driving
<1>3. Begins(w, a) BY DEF Resume
<1>4. Counted BY QuietCounts DEF Resume
<1>5. Grows /\ RunsTrue
  BY StatusMoves DEF Resume, RunStatusOf, TERMINAL_RUN_STATUSES
<1>. HIDE DEF a
<1>. QED BY <1>2, <1>3, <1>4, <1>5, BeginsMoves DEF Resume

LEMMA RefuseKeeps ==
  ASSUME DeliveryInvariant, NEW w \in Workers, NEW r \in Runs, Refuse(w, r)
  PROVE  DeliveryInvariant'
<1>. DEFINE a == [Nothing EXCEPT !.at = "refuse", !.msg = owner[r], !.run = r,
                    !.out = "cancelled"]
<1>1. owner[r] \in Messages BY DEF Refuse, DeliveryInvariant, Owned
<1>2. /\ a \in Activity /\ Fits(a) /\ a.run = r /\ a.out = "cancelled" /\ a.at # "answer"
      /\ a.msg = owner[r]
  BY <1>1 DEF Activity, Labels, UpdateAt, Outs, Nothing, Fits, Sealing, Closing, Driving,
              MessageStatus
<1>3. Begins(w, a) BY DEF Refuse
<1>4. Counted BY QuietCounts DEF Refuse, runVars
<1>5. Grows /\ RunsTrue BY QuietRuns DEF Refuse, runVars, DeliveryInvariant, TypeOK
<1>6. owner'[r] = owner[r] BY DEF Refuse, runVars
<1>. HIDE DEF a
<1>. QED BY <1>2, <1>3, <1>4, <1>5, <1>6, BeginsMoves DEF Refuse

LEMMA ReapKeeps ==
  ASSUME DeliveryInvariant, NEW w \in Workers, NEW r \in Runs, Reap(w, r)
  PROVE  DeliveryInvariant'
<1>. DEFINE a == [Nothing EXCEPT !.at = "reaped", !.msg = owner[r], !.out = "failed"]
<1>1. owner[r] \in Messages BY DEF Reap, DeliveryInvariant, Owned
<1>2. /\ a \in Activity /\ Fits(a) /\ a.run = NoRun /\ a.out = "failed" /\ a.at # "answer"
  BY <1>1 DEF Activity, Labels, UpdateAt, Outs, Nothing, Fits, Sealing, Closing, Driving,
         MessageStatus
<1>3. Begins(w, a) BY DEF Reap
<1>4. Counted BY QuietCounts DEF Reap
<1>5. Grows /\ RunsTrue
  BY StatusMoves DEF Reap, RunStatusOf, TERMINAL_RUN_STATUSES
<1>. HIDE DEF a
<1>. QED BY <1>2, <1>3, <1>4, <1>5, BeginsMoves DEF Reap

LEMMA TakeDeliveryKeeps ==
  ASSUME DeliveryInvariant, NEW w \in Workers, NEW j \in Jobs, TakeDelivery(w, j)
  PROVE  DeliveryInvariant'
<1>1. Grows /\ RunsTrue BY QuietRuns DEF TakeDelivery, runVars, DeliveryInvariant, TypeOK
<1>2. j.msg \in Messages BY DEF Jobs
<1>3. CASE Begins(w, [Nothing EXCEPT !.at = "begin", !.msg = j.msg, !.job = j]) /\ UNCHANGED left
  <2>. DEFINE a == [Nothing EXCEPT !.at = "begin", !.msg = j.msg, !.job = j]
  <2>1. /\ a \in Activity /\ Fits(a) /\ a.run = NoRun /\ a.out = "none" /\ a.at # "answer"
    BY <1>2 DEF Activity, Labels, UpdateAt, Outs, Nothing, Fits, Sealing, Closing, Driving
  <2>2. Counted BY <1>3, QuietCounts DEF TakeDelivery, runVars
  <2>3. Begins(w, a) BY <1>3
  <2>. HIDE DEF a
  <2>. QED BY <1>1, <2>1, <2>2, <2>3, BeginsMoves DEF TakeDelivery
<1>4. CASE left' = [left EXCEPT ![j] = 0] /\ UNCHANGED act
  <2>1. Counted
    BY <1>4, BoundsAssumption DEF TakeDelivery, runVars, Counted, DeliveryInvariant, TypeOK
  <2>. QED BY <1>4, <2>1 DEF TakeDelivery, runVars, DeliveryInvariant, TypeOK, Counted,
                             Fits, TrueAct, TrueRow, Told, Owned
<1>. QED BY <1>3, <1>4 DEF TakeDelivery

----------------------------------------------------------------------------
(* Activities that go on *)

LEMMA SendKeeps ==
  ASSUME DeliveryInvariant, NEW w \in Workers, Send(w)
  PROVE  DeliveryInvariant'
<1>1. Fits(act[w]) /\ act[w].at = "send" BY Busy DEF Send, At
<1>2. left' \in [Jobs -> 0..MaxDeliveries]
  BY <1>1, BoundsAssumption DEF Send, Sent, Fits, DeliveryInvariant, TypeOK
<1>3. Counted BY <1>2 DEF Send, runVars, Counted, DeliveryInvariant, TypeOK
<1>4. Grows /\ RunsTrue BY QuietRuns DEF Send, runVars, DeliveryInvariant, TypeOK
<1>5. Goto(w, "done") BY DEF Send
<1>. QED
  BY <1>1, <1>3, <1>4, <1>5, GotoMoves DEF Send, Labels, UpdateAt, Sealing, Closing, Driving

LEMMA QuotaKeeps ==
  ASSUME DeliveryInvariant, NEW w \in Workers, Quota(w)
  PROVE  DeliveryInvariant'
<1>1. act[w].at = "begin" /\ seen[w] = Unread
  BY NothingRead DEF Quota, At, UpdateAt
<1>2. Counted BY QuietCounts DEF Quota, runVars
<1>3. Grows /\ RunsTrue BY QuietRuns DEF Quota, runVars, DeliveryInvariant, TypeOK
<1>4. CASE Goto(w, "full")
  BY <1>1, <1>2, <1>3, <1>4, GotoMoves
     DEF Quota, Labels, UpdateAt, Sealing, Closing, Driving
<1>5. CASE Goto(w, "threw")
  BY <1>1, <1>2, <1>3, <1>5, GotoMoves
     DEF Quota, Labels, UpdateAt, Sealing, Closing, Driving
<1>6. CASE act' = [act EXCEPT ![w].at = "overquota", ![w].out = "failed"]
  <2>. DEFINE a == [act[w] EXCEPT !.at = "overquota", !.out = "failed"]
  <2>1. act[w] \in Activity /\ act[w].msg \in Messages /\ TrueAct(w) BY <1>1, Busy
  <2>2. /\ a \in Activity /\ a.at = "overquota" /\ a.out = "failed"
        /\ a.msg = act[w].msg /\ a.run = act[w].run
    BY <2>1 DEF Activity, Labels, UpdateAt, Outs
  <2>3. Fits(a)
    BY <2>1, <2>2 DEF Fits, Sealing, Closing, Driving, MessageStatus
  <2>4. act' = [act EXCEPT ![w] = a] BY <1>6
  <2>5. a.run # NoRun => owner'[a.run] = a.msg
    BY <2>1, <2>2 DEF Quota, runVars, TrueAct
  <2>. HIDE DEF a
  <2>. QED BY <1>1, <1>2, <1>3, <2>2, <2>3, <2>4, <2>5, Moves DEF Quota
<1>. QED BY <1>4, <1>5, <1>6 DEF Quota

LEMMA BeginKeeps ==
  ASSUME DeliveryInvariant, NEW w \in Workers, Begin(w)
  PROVE  DeliveryInvariant'
<1>. DEFINE m == act[w].msg
<1>1. PICK r \in Runs :
        /\ status[r] = "none"
        /\ status' = [status EXCEPT ![r] = "running"]
        /\ owner' = [owner EXCEPT ![r] = m]
        /\ act' = [act EXCEPT ![w].run = r, ![w].leased = TRUE, ![w].at = "link"]
  BY DEF Begin
<1>. DEFINE a == [act[w] EXCEPT !.run = r, !.leased = TRUE, !.at = "link"]
<1>2. /\ act[w].at = "begin" /\ seen[w] = Unread
      /\ act[w] \in Activity /\ m \in Messages /\ TrueAct(w)
  BY Busy, NothingRead DEF Begin, At, UpdateAt
<1>3. owner[r] = NoMsg BY <1>1 DEF DeliveryInvariant, Owned
<1>4. Grows
  BY <1>1, <1>2, <1>3, SentinelAssumption
     DEF Begin, Grows, DeliveryInvariant, TypeOK, RunStatusOf
<1>5. RunsTrue
  <2>. SUFFICES ASSUME NEW q \in Runs
                PROVE  /\ status'[q] = "none" => owner'[q] = NoMsg
                       /\ status'[q] # "none" => owner'[q] \in Messages
                       /\ status'[q] = "success" => Told(owner'[q])
    BY DEF RunsTrue
  <2>1. Owned(q) /\ (status[q] = "success" => Told(owner[q])) BY DEF DeliveryInvariant
  <2>. QED BY <1>1, <1>2, <2>1 DEF Owned, DeliveryInvariant, TypeOK
<1>6. Counted BY QuietCounts DEF Begin
<1>7. /\ a \in Activity /\ a.at = "link" /\ a.out = act[w].out
      /\ a.msg = m /\ a.run = r
  BY <1>2 DEF Activity, Labels, UpdateAt
<1>8. Fits(a) BY <1>2, <1>7 DEF Fits, Sealing, Closing
<1>9. act' = [act EXCEPT ![w] = a] BY <1>1
<1>10. owner'[r] = m BY <1>1 DEF DeliveryInvariant, TypeOK
<1>11. a.out = "done" => Told(a.msg) BY <1>2, <1>7 DEF TrueAct
<1>. HIDE DEF a, m
<1>. QED
  BY <1>2, <1>4, <1>5, <1>6, <1>7, <1>8, <1>9, <1>10, <1>11, Moves DEF Begin

LEMMA LinkKeeps ==
  ASSUME DeliveryInvariant, NEW w \in Workers, Link(w)
  PROVE  DeliveryInvariant'
<1>. DEFINE m == act[w].msg
            r == act[w].run
            x == [row[m] EXCEPT !.run = r]
<1>1. /\ act[w].at = "link" /\ m \in Messages /\ r \in Runs /\ seen[w] = Unread
      /\ act[w] \in Activity /\ Fits(act[w]) /\ TrueAct(w)
  BY Busy, NothingRead DEF Link, At, Fits, Driving, UpdateAt
<1>2. owner[r] = m BY <1>1 DEF TrueAct, Runs, NoRun
<1>3. row[m] \in Row /\ TrueRow(row[m], m) BY <1>1 DEF DeliveryInvariant, TypeOK
<1>4. x \in Row /\ TrueRow(x, m) BY <1>1, <1>2, <1>3 DEF Row, TrueRow
<1>5. row' = [row EXCEPT ![m] = x] BY DEF Link
<1>6. PICK l \in {"assign", "point"} : Goto(w, l) BY DEF Link
<1>. DEFINE a == [act[w] EXCEPT !.at = l]
<1>7. /\ act' = [act EXCEPT ![w] = a] /\ a \in Activity /\ a.at = l /\ a.msg = m
      /\ a.run = r /\ a.out = act[w].out /\ a.post = act[w].post
  BY <1>1, <1>6 DEF Goto, Activity, Labels, UpdateAt
<1>8. Fits(a) BY <1>1, <1>7 DEF Fits, Sealing, Closing
<1>9. UNCHANGED <<mode, status, owner, decision, left, seen, asked, faults, heard, vouched>>
  BY DEF Link, runVars
<1>. HIDE DEF a, x, m, r
<1>10. TypeOK' BY <1>1, <1>4, <1>5, <1>7, <1>9 DEF DeliveryInvariant, TypeOK
<1>11. ASSUME NEW v \in Workers PROVE Fits(act[v])' /\ TrueAct(v)'
  <2>1. act'[v] = IF v = w THEN a ELSE act[v] BY <1>7 DEF DeliveryInvariant, TypeOK
  <2>2. Fits(act[v]) /\ TrueAct(v) BY DEF DeliveryInvariant
  <2>3. Fits(act[v])' BY <1>8, <2>1, <2>2 DEF Fits
  <2>4. TrueAct(v)'
    <3>1. CASE v = w
      BY <1>1, <1>2, <1>7, <1>9, <2>1, <2>2, <3>1 DEF TrueAct, Told, m
    <3>2. CASE v # w BY <1>9, <2>1, <2>2, <3>2 DEF TrueAct, TrueRow, Told
    <3>. QED BY <3>1, <3>2
  <2>. QED BY <2>3, <2>4
<1>12. \A q \in Runs : Owned(q)' /\ (status[q] = "success" => Told(owner[q]))'
  BY <1>9 DEF DeliveryInvariant, Owned, Told
<1>13. ASSUME NEW n \in Messages PROVE TrueRow(row[n], n)'
  <2>1. row'[n] = IF n = m THEN x ELSE row[n]
    BY <1>1, <1>5 DEF DeliveryInvariant, TypeOK
  <2>2. TrueRow(row[n], n) BY DEF DeliveryInvariant
  <2>. QED BY <1>4, <1>9, <2>1, <2>2 DEF TrueRow, Told
<1>. QED BY <1>10, <1>11, <1>12, <1>13 DEF DeliveryInvariant

LEMMA GateKeeps ==
  ASSUME DeliveryInvariant, NEW w \in Workers, Gate(w)
  PROVE  DeliveryInvariant'
<1>1. act[w].at = "gate" /\ act[w].run \in Runs
  BY Busy DEF Gate, At, Fits, Driving
<1>2. CASE /\ Goto(w, IF mode[act[w].msg] = "chat" THEN "perform" ELSE "post")
           /\ UNCHANGED <<status, decision>>
  <2>1. Counted BY <1>2, QuietCounts DEF Gate
  <2>2. Grows /\ RunsTrue BY <1>2, QuietRuns DEF Gate, DeliveryInvariant, TypeOK
  <2>. QED
    BY <1>1, <1>2, <2>1, <2>2, GotoMoves
       DEF Gate, Labels, UpdateAt, Sealing, Closing, Driving
<1>3. CASE /\ status' = [status EXCEPT ![act[w].run] = IF @ = "running"
                                                     THEN "waiting_approval" ELSE @]
           /\ decision' = [decision EXCEPT ![act[w].run] =
                             IF status[act[w].run] = "running" THEN "pending" ELSE "refused"]
           /\ Goto(w, IF mode[act[w].msg] = "chat" THEN "done" ELSE "parked")
  <2>1. Counted BY <1>3 DEF Gate, Counted, DeliveryInvariant, TypeOK
  <2>2. Grows /\ RunsTrue
    <3>1. CASE status[act[w].run] = "running"
      BY <1>1, <1>3, <3>1, StatusMoves
         DEF Gate, RunStatusOf, TERMINAL_RUN_STATUSES, DeliveryInvariant, TypeOK
    <3>2. CASE status[act[w].run] # "running"
      BY <1>1, <1>3, <3>2, QuietRuns DEF Gate, DeliveryInvariant, TypeOK
    <3>. QED BY <3>1, <3>2
  <2>. QED
    BY <1>1, <1>3, <2>1, <2>2, GotoMoves
       DEF Gate, Labels, UpdateAt, Sealing, Closing, Driving
<1>4. CASE Closes(w, "failed", "settle") /\ UNCHANGED <<status, decision>>
  <2>1. Counted BY <1>4, QuietCounts DEF Gate
  <2>2. Grows /\ RunsTrue BY <1>4, QuietRuns DEF Gate, DeliveryInvariant, TypeOK
  <2>. QED BY <1>1, <1>4, <2>1, <2>2, ClosesMoves DEF Gate, UpdateAt
<1>. QED BY <1>2, <1>3, <1>4 DEF Gate

LEMMA PerformKeeps ==
  ASSUME DeliveryInvariant, NEW w \in Workers, Perform(w)
  PROVE  DeliveryInvariant'
<1>1. act[w].at = "perform" /\ act[w].run \in Runs
  BY Busy DEF Perform, At, Fits, Driving
<1>2. Counted BY QuietCounts DEF Perform, runVars
<1>3. Grows /\ RunsTrue BY QuietRuns DEF Perform, runVars, DeliveryInvariant, TypeOK
<1>4. CASE Goto(w, "deliver")
  BY <1>1, <1>2, <1>3, <1>4, GotoMoves
     DEF Perform, Labels, UpdateAt, Sealing, Closing, Driving
<1>5. CASE Closes(w, "failed", "settle")
  BY <1>1, <1>2, <1>3, <1>5, ClosesMoves DEF Perform, UpdateAt
<1>6. CASE Closes(w, "busy", "busy")
  BY <1>1, <1>2, <1>3, <1>6, ClosesMoves DEF Perform, UpdateAt
<1>. QED BY <1>4, <1>5, <1>6 DEF Perform

\* A message is heard: what was told stays told, and one more is.
LEMMA HearsGrows ==
  ASSUME DeliveryInvariant, NEW w \in Workers, act[w].run \in Runs, Hears(w),
         UNCHANGED <<status, owner, vouched>>
  PROVE  Grows /\ RunsTrue /\ heard'[act[w].run] > 0
<1>1. /\ heard' \in [Runs -> Nat] /\ \A r \in Runs : heard'[r] >= heard[r]
      /\ heard'[act[w].run] > 0
  BY DEF Hears, DeliveryInvariant, TypeOK
<1>2. Grows BY <1>1 DEF DeliveryInvariant, TypeOK, Grows, RunStatusOf
<1>3. RunsTrue BY <1>2, StaysTold DEF RunsTrue, DeliveryInvariant, Owned
<1>. QED BY <1>1, <1>2, <1>3

LEMMA CallKeeps ==
  ASSUME DeliveryInvariant, NEW w \in Workers, Call(w)
  PROVE  DeliveryInvariant'
<1>1. act[w].at = "call" /\ act[w].run \in Runs
  BY Busy DEF Call, At, Fits, Driving
<1>2. Counted BY QuietCounts DEF Call, runVars
<1>3. CASE Hears(w) /\ Goto(w, "answer")
  <2>1. Grows /\ RunsTrue /\ heard'[act[w].run] > 0
    BY <1>1, <1>3, HearsGrows DEF Call, runVars
  <2>. QED
    BY <1>1, <1>2, <1>3, <2>1, GotoMoves
       DEF Call, Labels, UpdateAt, Sealing, Closing, Driving
<1>4. CASE UNCHANGED heard
  <2>1. Grows /\ RunsTrue BY <1>4, QuietRuns DEF Call, runVars, DeliveryInvariant, TypeOK
  <2>2. ASSUME NEW o \in {"failed", "cancelled"}, Closes(w, o, "settle")
        PROVE  DeliveryInvariant'
    BY <1>1, <1>2, <2>1, <2>2, ClosesMoves DEF Call, UpdateAt
  <2>3. CASE Closes(w, "busy", "busy")
    BY <1>1, <1>2, <2>1, <2>3, ClosesMoves DEF Call, UpdateAt
  <2>4. CASE Hears(w) /\ Goto(w, "answer") BY <1>3, <2>4
  <2>. QED BY <2>2, <2>3, <2>4 DEF Call
<1>. QED BY <1>3, <1>4 DEF Call

LEMMA AnswerKeeps ==
  ASSUME DeliveryInvariant, NEW w \in Workers, Answer(w)
  PROVE  DeliveryInvariant'
<1>1. /\ act[w].at = "answer" /\ act[w].run \in Runs
      /\ heard[act[w].run] > 0 /\ owner[act[w].run] = act[w].msg
  BY Busy DEF Answer, At, Fits, Driving, TrueAct, Runs, NoRun
<1>2. Told(act[w].msg) BY <1>1 DEF Told
<1>3. Counted BY QuietCounts DEF Answer, runVars
<1>4. Grows /\ RunsTrue BY QuietRuns DEF Answer, runVars, DeliveryInvariant, TypeOK
<1>5. PICK o \in {"done", "failed", "cancelled"} : Closes(w, o, "settle") BY DEF Answer
<1>. QED BY <1>1, <1>2, <1>3, <1>4, <1>5, ClosesMoves DEF Answer, UpdateAt

LEMMA PostKeeps ==
  ASSUME DeliveryInvariant, NEW w \in Workers, Post(w)
  PROVE  DeliveryInvariant'
<1>1. act[w].at = "post" /\ act[w].run \in Runs
  BY Busy DEF Post, At, Fits, Driving
<1>2. Counted BY QuietCounts DEF Post, runVars
<1>3. Grows /\ RunsTrue
  <2>1. CASE Hears(w) BY <1>1, <2>1, HearsGrows DEF Post, runVars
  <2>2. CASE UNCHANGED heard
    BY <2>2, QuietRuns DEF Post, runVars, DeliveryInvariant, TypeOK
  <2>. QED BY <2>1, <2>2 DEF Post
<1>4. CASE Goto(w, "posted")
  BY <1>1, <1>2, <1>3, <1>4, GotoMoves
     DEF Post, Labels, UpdateAt, Sealing, Closing, Driving
<1>5. CASE Closes(w, "failed", "settle")
  BY <1>1, <1>2, <1>3, <1>5, ClosesMoves DEF Post, UpdateAt
<1>. QED BY <1>4, <1>5 DEF Post

LEMMA EndKeeps ==
  ASSUME DeliveryInvariant, NEW w \in Workers, End(w)
  PROVE  DeliveryInvariant'
<1>1. act[w].at = "end" /\ Fits(act[w]) /\ act[w].run \in Runs /\ act[w] \in Activity
  BY Busy DEF End, At, Fits, Driving, Closing
<1>2. Counted BY QuietCounts DEF End, runVars
<1>3. Grows /\ RunsTrue BY QuietRuns DEF End, runVars, DeliveryInvariant, TypeOK
<1>4. CASE Goto(w, "snapshot")
  BY <1>1, <1>2, <1>3, <1>4, GotoMoves
     DEF End, Labels, UpdateAt, Sealing, Closing, Driving, Fits
<1>5. CASE Goto(w, act[w].then)
  <2>1. act[w].then \in {"done", "settle", "busy"} BY <1>1 DEF Activity
  <2>2. PICK l \in {"done", "settle", "busy"} : l = act[w].then BY <2>1
  <2>3. l \in Sealing => act[w].out \in MessageStatus
    BY <1>1, <2>2 DEF Fits, Sealing, Closing, MessageStatus
  <2>4. Goto(w, l) BY <1>5, <2>2
  <2>. QED
    BY <1>1, <1>2, <1>3, <2>3, <2>4, GotoMoves
       DEF End, Labels, UpdateAt, Closing, Driving
<1>. QED BY <1>4, <1>5 DEF End

LEMMA FinishKeeps ==
  ASSUME DeliveryInvariant, NEW w \in Workers, Finish(w)
  PROVE  DeliveryInvariant'
<1>. DEFINE r == act[w].run
            o == act[w].out
<1>1. /\ act[w].at = "finish" /\ Fits(act[w]) /\ r \in Runs
      /\ act[w] \in Activity /\ TrueAct(w)
  BY Busy DEF Finish, At, Fits, Driving, Closing
<1>2. Counted BY QuietCounts DEF Finish
<1>3. Grows /\ RunsTrue
  <2>1. CASE status[r] = "running"
    <3>1. o \in {"done", "failed", "cancelled", "busy"} BY <1>1 DEF Fits, Closing
    <3>2. Outcome(o) \in {"success", "failed", "cancelled"} BY <3>1 DEF Outcome
    <3>3. Outcome(o) = "success" => o = "done" BY <3>1 DEF Outcome
    <3>4. o = "done" => Told(owner[r]) BY <1>1 DEF TrueAct, Runs, NoRun
    <3>5. status' = [status EXCEPT ![r] = Outcome(o)] BY <2>1 DEF Finish
    <3>. HIDE DEF r, o
    <3>. QED
      BY <1>1, <2>1, <3>2, <3>3, <3>4, <3>5, StatusMoves
         DEF Finish, RunStatusOf, TERMINAL_RUN_STATUSES
  <2>2. CASE status[r] # "running"
    BY <1>1, <2>2, QuietRuns DEF Finish, DeliveryInvariant, TypeOK
  <2>. QED BY <2>1, <2>2
<1>4. act[w].then \in {"done", "settle", "busy"} BY <1>1 DEF Activity
<1>5. PICK l \in {"done", "settle", "busy"} : l = act[w].then BY <1>4
<1>6. l \in Sealing => o \in MessageStatus
  BY <1>1, <1>5 DEF Fits, Sealing, Closing, MessageStatus
<1>7. Goto(w, l) BY <1>5 DEF Finish
<1>. QED
  BY <1>1, <1>2, <1>3, <1>6, <1>7, GotoMoves
     DEF Finish, Labels, UpdateAt, Closing, Driving

LEMMA ReturnKeeps ==
  ASSUME DeliveryInvariant, NEW w \in Workers, Return(w)
  PROVE  DeliveryInvariant'
<1>1. act[w].at \in {"done", "threw"} /\ act[w] \in Activity /\ seen[w] = Unread
  BY Busy, NothingRead DEF Return, UpdateAt
<1>2. left' \in [Jobs -> 0..MaxDeliveries]
  <2>1. CASE act[w].job = NoJob BY <2>1 DEF Return, DeliveryInvariant, TypeOK
  <2>2. CASE act[w].job # NoJob
    <3>1. act[w].job \in Jobs /\ left[act[w].job] \in 0..MaxDeliveries
      BY <1>1, <2>2 DEF Activity, DeliveryInvariant, TypeOK
    <3>2. 0 \in 0..MaxDeliveries /\ Minus(left[act[w].job]) \in 0..MaxDeliveries
      BY <3>1, BoundsAssumption DEF Minus
    <3>3. \/ left' = [left EXCEPT ![act[w].job] = 0]
          \/ left' = [left EXCEPT ![act[w].job] = Minus(@)]
      BY <2>2 DEF Return
    <3>. QED BY <3>1, <3>2, <3>3 DEF DeliveryInvariant, TypeOK
  <2>. QED BY <2>1, <2>2
<1>3. Counted BY <1>2 DEF Return, runVars, Counted, DeliveryInvariant, TypeOK
<1>4. Grows /\ RunsTrue BY QuietRuns DEF Return, runVars, DeliveryInvariant, TypeOK
<1>5. /\ Nothing \in Activity /\ Fits(Nothing) /\ Nothing.run = NoRun
      /\ Nothing.out = "none" /\ Nothing.at # "answer"
  BY DEF Activity, Labels, UpdateAt, Outs, Nothing, Fits, Sealing, Closing, Driving
<1>6. act' = [act EXCEPT ![w] = Nothing] BY DEF Return
<1>. QED BY <1>1, <1>3, <1>4, <1>5, <1>6, Moves DEF Return

LEMMA UnparkKeeps ==
  ASSUME DeliveryInvariant, NEW w \in Workers, Unpark(w)
  PROVE  DeliveryInvariant'
<1>1. act[w].at = "unpark" /\ act[w].run \in Runs
  BY Busy DEF Unpark, At, Fits, Driving
<1>2. Counted BY QuietCounts DEF Unpark
<1>3. Grows /\ RunsTrue
  <2>1. CASE status[act[w].run] = "waiting_approval"
    BY <1>1, <2>1, StatusMoves DEF Unpark, RunStatusOf, TERMINAL_RUN_STATUSES
  <2>2. CASE status[act[w].run] # "waiting_approval"
    BY <1>1, <2>2, QuietRuns DEF Unpark, DeliveryInvariant, TypeOK
  <2>. QED BY <2>1, <2>2
<1>. QED
  BY <1>1, <1>2, <1>3, GotoMoves DEF Unpark, Labels, UpdateAt, Sealing, Closing, Driving

LEMMA MournKeeps ==
  ASSUME DeliveryInvariant, NEW w \in Workers, Mourn(w)
  PROVE  DeliveryInvariant'
<1>1. /\ act[w].at = "reaped" /\ act[w].out \in MessageStatus
  BY Busy DEF Mourn, At, Fits
<1>2. Counted BY QuietCounts DEF Mourn, runVars
<1>3. Grows /\ RunsTrue BY QuietRuns DEF Mourn, runVars, DeliveryInvariant, TypeOK
<1>4. CASE Goto(w, "mourn")
  BY <1>1, <1>2, <1>3, <1>4, GotoMoves
     DEF Mourn, Labels, UpdateAt, Sealing, Closing, Driving
<1>5. CASE Goto(w, "done")
  BY <1>1, <1>2, <1>3, <1>5, GotoMoves
     DEF Mourn, Labels, UpdateAt, Sealing, Closing, Driving
<1>. QED BY <1>4, <1>5 DEF Mourn

----------------------------------------------------------------------------
(* Reading and writing a row *)

LEMMA ReadKeeps ==
  ASSUME DeliveryInvariant, NEW w \in Workers, Read(w)
  PROVE  DeliveryInvariant'
<1>1. act[w].at \in UpdateAt /\ act[w].msg \in Messages
  BY Busy DEF Read, UpdateAt
<1>2. row[act[w].msg] \in Row /\ TrueRow(row[act[w].msg], act[w].msg)
  BY <1>1 DEF DeliveryInvariant, TypeOK
<1>3. TypeOK' BY <1>1, <1>2 DEF Read, runVars, DeliveryInvariant, TypeOK
<1>4. ASSUME NEW v \in Workers PROVE Fits(act[v])' /\ TrueAct(v)'
  <2>1. Fits(act[v]) /\ TrueAct(v) BY DEF DeliveryInvariant
  <2>2. seen'[v] = IF v = w THEN row[act[w].msg] ELSE seen[v]
    BY DEF Read, DeliveryInvariant, TypeOK
  <2>. QED
    BY <1>1, <1>2, <2>1, <2>2 DEF Read, runVars, Fits, TrueAct, TrueRow, Told
<1>5. \A r \in Runs : Owned(r)' /\ (status[r] = "success" => Told(owner[r]))'
  BY DEF DeliveryInvariant, Read, runVars, Owned, Told
<1>6. \A m \in Messages : TrueRow(row[m], m)'
  BY DEF DeliveryInvariant, Read, runVars, TrueRow, Told
<1>. QED BY <1>3, <1>4, <1>5, <1>6 DEF DeliveryInvariant

\* The row an update makes is a row, and true when the update and what it read are.
LEMMA PatchedTrue ==
  ASSUME DeliveryInvariant, NEW w \in Workers, act[w].at \in UpdateAt, seen[w] # Unread
  PROVE  /\ Patched(act[w], seen[w]) \in Row
         /\ TrueRow(Patched(act[w], seen[w]), act[w].msg)
<1>. DEFINE a == act[w]
            s == seen[w]
            x == Patched(a, s)
<1>1. a \in Activity /\ a.msg \in Messages /\ Fits(a) /\ TrueAct(w)
  BY Busy DEF UpdateAt
<1>2. s \in Row /\ TrueRow(s, a.msg)
  BY <1>1 DEF TrueAct, DeliveryInvariant, TypeOK
<1>3. StatusSet(a, s.status) \in MessageStatus
  BY <1>1, <1>2 DEF Fits, Sealing, StatusSet, UpdateAt, MessageStatus, Row
<1>4. StatusSet(a, s.status) = "done" => a.out = "done" \/ s.status = "done"
  BY DEF StatusSet
<1>5. a.at = "redeliver" => a.post.n \in 0..MaxAttempts
  BY <1>1, BoundsAssumption DEF Fits, Jobs
<1>6. /\ x.status = StatusSet(a, s.status) /\ x.run \in {a.run, s.run}
      /\ x \in Row
  BY <1>1, <1>2, <1>3, <1>5, BoundsAssumption DEF Patched, Row, Activity
<1>. QED BY <1>1, <1>2, <1>4, <1>6 DEF TrueAct, TrueRow

LEMMA WriteKeeps ==
  ASSUME DeliveryInvariant, NEW w \in Workers, Write(w)
  PROVE  DeliveryInvariant'
<1>. DEFINE s == act[w]
            x == Patched(s, seen[w])
            a == [s EXCEPT !.at = After(s, x),
                           !.run = IF s.at = "report" THEN x.run ELSE @]
<1>1. /\ s.at \in UpdateAt /\ seen[w] # Unread
      /\ row' = [row EXCEPT ![s.msg] = x]
      /\ seen' = [seen EXCEPT ![w] = Unread]
      /\ act' = [act EXCEPT ![w] = a]
      /\ UNCHANGED <<mode, runVars, left, asked, faults, heard, vouched>>
  BY DEF Write
<1>2. s \in Activity /\ s.msg \in Messages /\ Fits(s) /\ TrueAct(w)
  BY <1>1, Busy DEF UpdateAt
<1>3. x \in Row /\ TrueRow(x, s.msg) BY <1>1, PatchedTrue
<1>4. After(s, x) \in {"send", "gate", "hold", "call", "finish", "unpark", "threw", "end", "done"}
  BY DEF After
<1>. HIDE DEF x
<1>5. /\ a \in Activity /\ a.at = After(s, x) /\ a.msg = s.msg /\ a.out = s.out
      /\ a.then = s.then /\ a.post = s.post
      /\ a.run = IF s.at = "report" THEN x.run ELSE s.run
  <2>1. PICK l \in Labels : l = After(s, x) BY <1>4 DEF Labels, UpdateAt
  <2>2. PICK r \in Runs \cup {NoRun} : r = IF s.at = "report" THEN x.run ELSE s.run
    BY <1>2, <1>3 DEF Activity, Row
  <2>3. a = [s EXCEPT !.at = l, !.run = r] BY <1>2, <2>1, <2>2 DEF Activity
  <2>. HIDE DEF a, s
  <2>. QED BY <1>2, <2>1, <2>2, <2>3 DEF Activity
<1>6. Fits(a)
  <2>1. a.at \in Closing => /\ a.out \in {"done", "failed", "cancelled", "busy"}
                            /\ a.then = "settle" => a.out # "busy"
                            /\ a.run \in Runs
    BY <1>2, <1>3, <1>5 DEF After, Closing, Driving, Fits, Row
  <2>2. a.at \in Driving => a.run \in Runs
    BY <1>2, <1>3, <1>5, <2>1 DEF After, Closing, Driving, Fits, Row
  <2>3. a.at = "send" => a.post \in Jobs
    BY <1>2, <1>5 DEF After, Fits
  <2>. QED BY <1>2, <1>4, <1>5, <2>1, <2>2, <2>3 DEF Fits, Sealing
<1>7. TypeOK'
  BY <1>1, <1>2, <1>3, <1>5 DEF runVars, DeliveryInvariant, TypeOK
<1>8. ASSUME NEW v \in Workers PROVE Fits(act[v])' /\ TrueAct(v)'
  <2>1. CASE v = w
    <3>1. act'[v] = a /\ seen'[v] = Unread
      BY <1>1, <2>1 DEF DeliveryInvariant, TypeOK
    <3>2. a.run # NoRun => owner[a.run] = a.msg
      BY <1>2, <1>3, <1>5 DEF TrueAct, TrueRow
    <3>3. a.out = "done" => Told(a.msg) BY <1>2, <1>5 DEF TrueAct
    <3>4. a.at # "answer" BY <1>4, <1>5
    <3>. HIDE DEF a
    <3>. QED BY <1>1, <1>6, <3>1, <3>2, <3>3, <3>4 DEF Fits, TrueAct, Told, runVars
  <2>2. CASE v # w
    <3>1. act'[v] = act[v] /\ seen'[v] = seen[v]
      BY <1>1, <2>2 DEF DeliveryInvariant, TypeOK
    <3>2. Fits(act[v]) /\ TrueAct(v) BY DEF DeliveryInvariant
    <3>3. UNCHANGED <<owner, heard, vouched>> BY <1>1 DEF runVars
    <3>. HIDE DEF a, s
    <3>4. Fits(act[v])' BY <3>1, <3>2 DEF Fits
    <3>5. TrueAct(v)' BY <3>1, <3>2, <3>3 DEF TrueAct, TrueRow, Told
    <3>. QED BY <3>4, <3>5
  <2>. QED BY <2>1, <2>2
<1>9. \A r \in Runs : Owned(r)' /\ (status[r] = "success" => Told(owner[r]))'
  BY <1>1 DEF DeliveryInvariant, runVars, Owned, Told
<1>10. ASSUME NEW m \in Messages PROVE TrueRow(row[m], m)'
  <2>1. row'[m] = IF m = s.msg THEN x ELSE row[m]
    BY <1>1, <1>2 DEF DeliveryInvariant, TypeOK
  <2>2. TrueRow(row[m], m) BY DEF DeliveryInvariant
  <2>. QED BY <1>1, <1>3, <2>1, <2>2 DEF runVars, TrueRow, Told
<1>. QED BY <1>7, <1>8, <1>9, <1>10 DEF DeliveryInvariant

----------------------------------------------------------------------------
(* Decisions and failures *)

LEMMA DecideKeeps ==
  ASSUME DeliveryInvariant, NEW r \in Runs, NEW d \in {"approved", "refused"}, Decide(r, d)
  PROVE  DeliveryInvariant'
<1>1. TypeOK' BY DEF Decide, DeliveryInvariant, TypeOK
<1>. QED
  BY <1>1 DEF Decide, DeliveryInvariant, Fits, TrueAct, TrueRow, Told, Owned

LEMMA AbandonKeeps ==
  ASSUME DeliveryInvariant, NEW w \in Workers, Abandon(w)
  PROVE  DeliveryInvariant'
<1>. DEFINE a == [act[w] EXCEPT !.job = NoJob]
<1>1. act[w] \in Activity /\ Fits(act[w]) /\ TrueAct(w) /\ act[w].job \in Jobs
  BY DEF Abandon, DeliveryInvariant, TypeOK, Activity
<1>2. act[w] # Nothing BY DEF Abandon, Nothing
<1>3. /\ a \in Activity /\ a.at = act[w].at /\ a.msg = act[w].msg /\ a.run = act[w].run
      /\ a.out = act[w].out /\ a.then = act[w].then /\ a.post = act[w].post
  BY <1>1 DEF Activity
<1>4. Fits(a) BY <1>1, <1>2, <1>3 DEF Fits
<1>5. act' = [act EXCEPT ![w] = a] BY DEF Abandon
<1>6. Minus(left[act[w].job]) \in 0..MaxDeliveries
  BY <1>1, BoundsAssumption DEF Minus, DeliveryInvariant, TypeOK
<1>7. left' \in [Jobs -> 0..MaxDeliveries]
  BY <1>6 DEF Abandon, DeliveryInvariant, TypeOK
<1>. HIDE DEF a
<1>8. TypeOK'
  BY <1>3, <1>5, <1>7, BoundsAssumption DEF Abandon, runVars, DeliveryInvariant, TypeOK
<1>9. ASSUME NEW v \in Workers PROVE Fits(act[v])' /\ TrueAct(v)'
  <2>1. act'[v] = IF v = w THEN a ELSE act[v]
    BY <1>5 DEF DeliveryInvariant, TypeOK
  <2>2. Fits(act[v]) /\ TrueAct(v) BY DEF DeliveryInvariant
  <2>3. Fits(act[v])' BY <1>4, <2>1, <2>2 DEF Fits
  <2>4. TrueAct(v)'
    BY <1>3, <2>1, <2>2 DEF Abandon, runVars, TrueAct, TrueRow, Told
  <2>. QED BY <2>3, <2>4
<1>10. \A r \in Runs : Owned(r)' /\ (status[r] = "success" => Told(owner[r]))'
  BY DEF DeliveryInvariant, Abandon, runVars, Owned, Told
<1>11. \A m \in Messages : TrueRow(row[m], m)'
  BY DEF DeliveryInvariant, Abandon, runVars, TrueRow, Told
<1>. QED BY <1>8, <1>9, <1>10, <1>11 DEF DeliveryInvariant

LEMMA CrashKeeps ==
  ASSUME DeliveryInvariant, NEW dead \in SUBSET Workers, Crash(dead)
  PROVE  DeliveryInvariant'
<1>1. Nothing \in Activity /\ Fits(Nothing)
  BY DEF Activity, Labels, UpdateAt, Outs, Nothing, Fits, Sealing, Closing, Driving
<1>2. ASSUME NEW v \in Workers
      PROVE  /\ act'[v] = IF v \in dead THEN Nothing ELSE act[v]
             /\ seen'[v] = IF v \in dead THEN Unread ELSE seen[v]
  BY DEF Crash
<1>3. left' \in [Jobs -> 0..MaxDeliveries]
  <2>1. \A j \in Jobs : Minus(left[j]) \in 0..MaxDeliveries
    BY BoundsAssumption DEF Minus, DeliveryInvariant, TypeOK
  <2>. QED BY <2>1 DEF Crash, DeliveryInvariant, TypeOK
<1>4. TypeOK'
  <2>1. act' \in [Workers -> Activity] BY <1>1 DEF Crash, DeliveryInvariant, TypeOK
  <2>2. seen' \in [Workers -> Row \cup {Unread}] BY DEF Crash, DeliveryInvariant, TypeOK
  <2>3. \A v \in Workers : seen'[v] # Unread => act'[v].at \in UpdateAt
    BY <1>2 DEF DeliveryInvariant, TypeOK
  <2>. QED
    BY <1>3, <2>1, <2>2, <2>3, BoundsAssumption DEF Crash, runVars, DeliveryInvariant, TypeOK
<1>5. ASSUME NEW v \in Workers PROVE Fits(act[v])' /\ TrueAct(v)'
  <2>1. Fits(act[v]) /\ TrueAct(v) BY DEF DeliveryInvariant
  <2>2. CASE v \in dead
    <3>1. act'[v] = Nothing /\ seen'[v] = Unread BY <1>2, <2>2
    <3>2. Nothing.run = NoRun /\ Nothing.out = "none" /\ Nothing.at = "idle" BY DEF Nothing
    <3>. QED BY <1>1, <3>1, <3>2 DEF Fits, TrueAct
  <2>3. CASE v \notin dead
    <3>1. act'[v] = act[v] /\ seen'[v] = seen[v] BY <1>2, <2>3
    <3>2. Fits(act[v])' BY <2>1, <3>1 DEF Fits
    <3>3. TrueAct(v)' BY <2>1, <3>1 DEF Crash, runVars, TrueAct, TrueRow, Told
    <3>. QED BY <3>2, <3>3
  <2>. QED BY <2>2, <2>3
<1>6. \A r \in Runs : Owned(r)' /\ (status[r] = "success" => Told(owner[r]))'
  BY DEF DeliveryInvariant, Crash, runVars, Owned, Told
<1>7. \A m \in Messages : TrueRow(row[m], m)'
  BY DEF DeliveryInvariant, Crash, runVars, TrueRow, Told
<1>. QED BY <1>4, <1>5, <1>6, <1>7 DEF DeliveryInvariant

----------------------------------------------------------------------------

LEMMA InitTrue == Init => DeliveryInvariant
<1>. SUFFICES ASSUME Init PROVE DeliveryInvariant
  OBVIOUS
<1>1. Nothing \in Activity /\ Fits(Nothing)
      /\ Nothing.run = NoRun /\ Nothing.out = "none" /\ Nothing.at = "idle"
  BY DEF Activity, Labels, UpdateAt, Outs, Nothing, Fits, Sealing, Closing, Driving
<1>2. TypeOK
  <2>1. mode \in [Messages -> {"chat", "webhook", "inbox"}] BY ModesAssumption DEF Init
  <2>2. row \in [Messages -> Row] BY BoundsAssumption DEF Init, Row, MessageStatus
  <2>3. left \in [Jobs -> 0..MaxDeliveries] BY BoundsAssumption DEF Init
  <2>4. asked \in 0..MaxRequests /\ faults \in 0..MaxFaults BY BoundsAssumption DEF Init
  <2>. QED BY <1>1, <2>1, <2>2, <2>3, <2>4 DEF Init, TypeOK
<1>3. \A w \in Workers : Fits(act[w]) /\ TrueAct(w) BY <1>1 DEF Init, TrueAct
<1>4. \A r \in Runs : Owned(r) /\ (status[r] = "success" => Told(owner[r]))
  BY DEF Init, Owned
<1>5. \A m \in Messages : TrueRow(row[m], m) BY DEF Init, TrueRow
<1>. QED BY <1>2, <1>3, <1>4, <1>5 DEF DeliveryInvariant

LEMMA NextTrue == DeliveryInvariant /\ [Next]_vars => DeliveryInvariant'
<1>. SUFFICES ASSUME DeliveryInvariant, [Next]_vars PROVE DeliveryInvariant'
  OBVIOUS
<1>1. ASSUME NEW w \in Workers, Step(w) PROVE DeliveryInvariant'
  BY <1>1, ReadKeeps, WriteKeeps, SendKeeps, QuotaKeeps, BeginKeeps, LinkKeeps, GateKeeps, PerformKeeps,
     CallKeeps, AnswerKeeps, PostKeeps, EndKeeps, FinishKeeps, ReturnKeeps, UnparkKeeps,
     MournKeeps DEF Step
<1>2. ASSUME NEW w \in Workers, NEW m \in Messages,
             \/ Choose(w, m) \/ Unroute(w, m) \/ Fetch(w, m) \/ Sweep(w, m)
             \/ \E o \in {"acknowledged", "delivered", "done", "failed"} : Report(w, m, o)
      PROVE  DeliveryInvariant'
  BY <1>2, ChooseKeeps, UnrouteKeeps, FetchKeeps, SweepKeeps, ReportKeeps
<1>3. ASSUME NEW w \in Workers, NEW r \in Runs,
             \/ Resume(w, r) \/ Refuse(w, r) \/ Reap(w, r)
             \/ \E o \in {"done", "failed", "cancelled"} : FinishRun(w, r, o)
      PROVE  DeliveryInvariant'
  BY <1>3, ResumeKeeps, RefuseKeeps, ReapKeeps, FinishRunKeeps
<1>4. CASE UNCHANGED vars
  BY <1>4 DEF vars, runVars, DeliveryInvariant, TypeOK, Fits, TrueAct, TrueRow, Told, Owned
<1>. QED
  BY <1>1, <1>2, <1>3, <1>4, TakeDeliveryKeeps, DecideKeeps, AbandonKeeps, CrashKeeps DEF Next

LEMMA AlwaysTrue == Spec => []DeliveryInvariant
<1>. QED BY InitTrue, NextTrue, PTL DEF Spec

\* Every variable keeps its type, whatever the interleaving of requests, jobs and sweeps: no
\* write-back of a stale row (updateMessage) brings in a status or a run that is none.
THEOREM DeliveryTyped == Spec => []TypeOK
<1>1. DeliveryInvariant => TypeOK BY DEF DeliveryInvariant
<1>. QED BY <1>1, AlwaysTrue, PTL

\* No stale write-back, repair, late finish or redelivery makes up a "done": the message was
\* brought to its provider, or somebody vouched for it.
THEOREM DoneIsTrue == Spec => []DoneMeansHeard
<1>1. DeliveryInvariant => DoneMeansHeard
  BY DEF DeliveryInvariant, TrueRow, Told, DoneMeansHeard
<1>. QED BY <1>1, AlwaysTrue, PTL

----------------------------------------------------------------------------
(***************************************************************************)
(* Commands: FollowsItsRun.                                                *)
(***************************************************************************)

\* Where the job of a run is, and what its run is then.
JobFits(m) ==
  /\ at[m] = "none" <=> run[m] = "none"
  /\ at[m] = "due" => run[m] = "queued"
  /\ at[m] \in {"gate", "perform", "open", "lost"} => run[m] = "running"
  /\ at[m] \in {"parked", "resume", "refuse", "refusing"} => run[m] = "waiting_approval"
  /\ at[m] \in {"end", "snapshot", "finish"} => run[m] \in {"running", "failed"} /\ outcome[m] # "none"
  /\ at[m] \in {"ended", "telling", "over"} => run[m] \in A!Settled
  /\ at[m] \in {"refuse", "refusing"} => outcome[m] \in {"cancelled", "timed_out"}
  /\ approval[m] = "pending" => at[m] = "parked"
  /\ reaper[m] # "none" => run[m] = "failed"

\* A handler words its answer once, of a message that was taken.
HandlerFits(m) ==
  /\ commandAt[m] \in {"idle", "posted", "taken"} => at[m] = "none"
  /\ commandAt[m] = "taken" => command[m] = "delivered"
  /\ commandAt[m] \notin {"speaking", "over"} => answer[m] = "none"
  /\ commandAt[m] = "speaking" => answer[m] # "none"

\* A row that was told of its run says so still, or says how the run has ended; while it
\* says that the run goes on, somebody is on the way to it.
RowFollows(m) ==
  m \notin crossed /\ run[m] # "none" /\ answer[m] \in {"none", "delivered"} =>
    /\ \/ command[m] = "delivered"
       \/ at[m] = "refusing" /\ command[m] = "cancelled"
       \/ run[m] \in A!Settled /\ command[m] \in A!Outcomes(run[m])
    /\ command[m] = "delivered" /\ run[m] \in A!Settled =>
         at[m] \in {"ended", "telling"} \/ reaper[m] # "none"

CommandInv ==
  /\ A!TypeOK
  /\ \A m \in Orders : JobFits(m) /\ HandlerFits(m) /\ RowFollows(m)

LEMMA CommandStart == A!Init => CommandInv
BY DEF A!Init, CommandInv, A!TypeOK, JobFits, HandlerFits, RowFollows, A!Settled, A!Final, A!AtRest

LEMMA HandlerSteps ==
  ASSUME CommandInv, NEW m \in Orders,
         \/ A!Post(m) \/ A!Take(m) \/ A!Answered(m) \/ A!Throws(m) \/ A!StartTask(m) \/ A!Look(m)
         \/ A!Pick(m) \/ A!Decide(m) \/ A!Decided(m) \/ A!List(m) \/ A!StopOne(m) \/ A!Record(m)
  PROVE  CommandInv'
<1>. USE DEF CommandInv, A!Has, A!Given, A!Runs, A!handler, A!job, A!Says
<1>t. A!TypeOK'
  <2>1. CASE A!Post(m) BY <2>1 DEF A!Post, A!TypeOK
  <2>2. CASE A!Take(m) BY <2>2 DEF A!Take, A!TypeOK
  <2>3. CASE A!Answered(m) BY <2>3 DEF A!Answered, A!TypeOK, A!Final
  <2>4. CASE A!Throws(m) BY <2>4 DEF A!Throws, A!TypeOK
  <2>5. CASE A!StartTask(m) BY <2>5 DEF A!StartTask, A!TypeOK
  <2>6. CASE A!Look(m) BY <2>6 DEF A!Look, A!TypeOK, A!Verdict, A!Final
  <2>7. CASE A!Pick(m) BY <2>7 DEF A!Pick, A!TypeOK
  <2>8. CASE A!Decide(m) BY <2>8 DEF A!Decide, A!Decides, A!TypeOK
  <2>9. CASE A!Decided(m) BY <2>9 DEF A!Decided, A!TypeOK, A!Final
  <2>10. CASE A!List(m) BY <2>10 DEF A!List, A!TypeOK
  <2>11. CASE A!StopOne(m) BY <2>11 DEF A!StopOne, A!TypeOK, A!Final
  <2>12. CASE A!Record(m) BY <2>12 DEF A!Record, A!TypeOK, A!Final, HandlerFits
  <2>. QED BY <2>1, <2>2, <2>3, <2>4, <2>5, <2>6, <2>7, <2>8, <2>9, <2>10, <2>11, <2>12
<1>. SUFFICES ASSUME NEW r \in Orders
              PROVE  JobFits(r)' /\ HandlerFits(r)' /\ RowFollows(r)'
  BY <1>t
<1>. USE DEF JobFits, HandlerFits, RowFollows, A!TypeOK
<1>1. CASE A!Post(m) BY <1>1 DEF A!Post
<1>2. CASE A!Take(m) BY <1>2 DEF A!Take
<1>3. CASE A!Answered(m) BY <1>3 DEF A!Answered
<1>4. CASE A!Throws(m) BY <1>4 DEF A!Throws
<1>5. CASE A!StartTask(m) BY <1>5 DEF A!StartTask, A!Settled
<1>6. CASE A!Look(m) BY <1>6 DEF A!Look, A!Verdict
<1>7. CASE A!Pick(m) BY <1>7 DEF A!Pick
<1>8. CASE A!Decide(m) BY <1>8 DEF A!Decide, A!Decides, A!Settled
<1>9. CASE A!Decided(m) BY <1>9 DEF A!Decided
<1>10. CASE A!List(m) BY <1>10 DEF A!List
<1>11. CASE A!StopOne(m) BY <1>11 DEF A!StopOne
<1>12. CASE A!Record(m) BY <1>12 DEF A!Record
<1>. QED BY <1>1, <1>2, <1>3, <1>4, <1>5, <1>6, <1>7, <1>8, <1>9, <1>10, <1>11, <1>12

LEMMA RunSteps ==
  ASSUME CommandInv, NEW m \in Orders,
         \/ A!Claim(m) \/ A!Gate(m) \/ A!DecidedElsewhere(m) \/ A!Resume(m) \/ A!RefuseRow(m)
         \/ A!Refuse(m) \/ A!Perform(m) \/ A!Report(m)
  PROVE  CommandInv'
<1>. USE DEF CommandInv, A!Has, A!Given, A!Handlers, A!handler, A!job, A!Settled, A!AtRest
<1>t. A!TypeOK'
  <2>. USE DEF A!TypeOK
  <2>1. CASE A!Claim(m) BY <2>1 DEF A!Claim
  <2>2. CASE A!Gate(m) BY <2>2 DEF A!Gate, A!EndsWith
  <2>3. CASE A!DecidedElsewhere(m) BY <2>3 DEF A!DecidedElsewhere, A!Decides
  <2>4. CASE A!Resume(m) BY <2>4 DEF A!Resume
  <2>5. CASE A!RefuseRow(m) BY <2>5 DEF A!RefuseRow
  <2>6. CASE A!Refuse(m) BY <2>6 DEF A!Refuse, JobFits
  <2>7. CASE A!Perform(m) BY <2>7 DEF A!Perform, A!EndsWith
  <2>8. CASE A!Report(m) BY <2>8 DEF A!Report, A!EndsWith
  <2>. QED BY <2>1, <2>2, <2>3, <2>4, <2>5, <2>6, <2>7, <2>8
<1>. SUFFICES ASSUME NEW r \in Orders
              PROVE  JobFits(r)' /\ HandlerFits(r)' /\ RowFollows(r)'
  BY <1>t
<1>. USE DEF JobFits, HandlerFits, RowFollows, A!TypeOK
<1>1. CASE A!Claim(m) BY <1>1 DEF A!Claim
<1>2. CASE A!Gate(m) BY <1>2 DEF A!Gate, A!EndsWith
<1>3. CASE A!DecidedElsewhere(m) BY <1>3 DEF A!DecidedElsewhere, A!Decides
<1>4. CASE A!Resume(m) BY <1>4 DEF A!Resume
<1>5. CASE A!RefuseRow(m) BY <1>5 DEF A!RefuseRow
<1>6. CASE A!Refuse(m) BY <1>6 DEF A!Refuse, A!Outcomes
<1>7. CASE A!Perform(m) BY <1>7 DEF A!Perform, A!EndsWith
<1>8. CASE A!Report(m) BY <1>8 DEF A!Report, A!EndsWith
<1>. QED BY <1>1, <1>2, <1>3, <1>4, <1>5, <1>6, <1>7, <1>8

LEMMA EndSteps ==
  ASSUME CommandInv, NEW m \in Orders,
         \/ A!EndRun(m) \/ A!Snapshot(m) \/ A!Finish(m) \/ A!Follow(m) \/ A!Tell(m)
         \/ A!Reap(m) \/ A!ReapRow(m)
  PROVE  CommandInv'
<1>. USE DEF CommandInv, A!Has, A!Given, A!Handlers, A!handler, A!job, A!Settled, A!AtRest
<1>t. A!TypeOK'
  <2>. USE DEF A!TypeOK
  <2>1. CASE A!EndRun(m) BY <2>1 DEF A!EndRun
  <2>2. CASE A!Snapshot(m) BY <2>2 DEF A!Snapshot
  <2>3. CASE A!Finish(m) BY <2>3 DEF A!Finish, JobFits
  <2>4. CASE A!Follow(m) BY <2>4 DEF A!Follow
  <2>5. CASE A!Tell(m) BY <2>5 DEF A!Tell, A!Told
  <2>6. CASE A!Reap(m) BY <2>6 DEF A!Reap
  <2>7. CASE A!ReapRow(m) BY <2>7 DEF A!ReapRow
  <2>. QED BY <2>1, <2>2, <2>3, <2>4, <2>5, <2>6, <2>7
<1>. SUFFICES ASSUME NEW r \in Orders
              PROVE  JobFits(r)' /\ HandlerFits(r)' /\ RowFollows(r)'
  BY <1>t
<1>. USE DEF JobFits, HandlerFits, RowFollows, A!TypeOK
<1>1. CASE A!EndRun(m) BY <1>1 DEF A!EndRun
<1>2. CASE A!Snapshot(m) BY <1>2 DEF A!Snapshot
<1>3. CASE A!Finish(m) BY <1>3 DEF A!Finish
<1>4. CASE A!Follow(m) BY <1>4 DEF A!Follow, A!Waits
<1>5. CASE A!Tell(m) BY <1>5 DEF A!Tell, A!Told, A!Outcomes
<1>6. CASE A!Reap(m) BY <1>6 DEF A!Reap
<1>7. CASE A!ReapRow(m) BY <1>7 DEF A!ReapRow, A!Waits, A!Outcomes
<1>. QED BY <1>1, <1>2, <1>3, <1>4, <1>5, <1>6, <1>7

LEMMA CommandStep == CommandInv /\ [A!Next]_(A!vars) => CommandInv'
<1>. SUFFICES ASSUME CommandInv, [A!Next]_(A!vars) PROVE CommandInv'
  OBVIOUS
<1>1. CASE A!Next BY <1>1, HandlerSteps, RunSteps, EndSteps DEF A!Next
<1>2. CASE UNCHANGED A!vars
  BY <1>2 DEF A!vars, A!handler, A!job, CommandInv, A!TypeOK, JobFits, HandlerFits, RowFollows
<1>. QED BY <1>1, <1>2

\* The inductive invariant of the commands, with their types: the job of each run, the handler
\* of its message and the message's row fit each other (handleControl, executeTaskRun).
THEOREM CommandsInvariant == A!Spec => []CommandInv
BY CommandStart, CommandStep, PTL DEF A!Spec

\* A message that was told its task runs reads in the end as its run has ended, whoever ended
\* it and however early (handleControl, endRun, settleCommandMessage): for any number of
\* commands and retries, but for rows that were written back over a newer status.
THEOREM CommandsFollow == A!Spec => []FollowsItsRun
<1>1. CommandInv => FollowsItsRun
  BY DEF CommandInv, FollowsItsRun, A!FollowsItsRun, A!Still, RowFollows, A!Settled
<1>. QED BY <1>1, CommandsInvariant, PTL

----------------------------------------------------------------------------
(***************************************************************************)
(* A send through a website: AnswerIsWhole.                                *)
(***************************************************************************)

\* A chat holds at most one answer to a message, and only to messages that arrived in it; the
\* older answer of a thread is its first.
Belongs(c, j) ==
  /\ said[c][j].to = 0 => c = "thread" /\ j = 1
  /\ said[c][j].to # 0 => said[c][j].to \in C!Asked(c)
OneEach(c) ==
  /\ \A j \in 1..Len(said[c]) : Belongs(c, j)
  /\ \A j, k \in 1..Len(said[c]) : said[c][j].to = said[c][k].to => j = k
  /\ c = "thread" => said[c] # <<>>

\* It arrives once in each of the two tabs at most.
Arrivals ==
  Len(sent) <= (IF retried THEN 1 ELSE 0) + (IF chatAt \in {"waiting", "reading", "over"} THEN 1 ELSE 0)

\* What was counted before the message was sent covers the older answer.
Counting == {"sending", "waiting", "reading"}
HasCounted ==
  chatAt \in Counting /\ ~misread => loaded /\ (conv = "thread" => before > 0)

\* Two reads alike, the provider not writing, are of a whole answer.
Sure == site = "busy" /\ ~misread /\ stable > 0
Whole(t) == t.to > 0 /\ t.part = Full
Reads ==
  /\ chatAt = "sending" => stable = 0
  /\ chatAt \in {"waiting", "reading"} => stable < 3
  /\ chatAt \in {"waiting", "reading"} /\ Sure => ~C!Busy
  /\ chatAt = "reading" /\ Sure /\ shown.part > 0 => Whole(shown)
  /\ chatAt \in {"waiting", "reading"} /\ Sure /\ stable > 1 => Whole(lastText)
  /\ chatAt # "over" => result = "none"
  /\ AnswerIsWhole

Opened == chatAt \notin {"idle", "opening", "over"} => conv \in C!Chats

ChatInv ==
  /\ C!TypeOK
  /\ \A c \in C!Chats : OneEach(c)
  /\ Arrivals /\ HasCounted /\ Reads /\ Opened

LEMMA ChatStart == ASSUME ChatLimits PROVE C!Init => ChatInv
<1>. SUFFICES ASSUME C!Init PROVE ChatInv
  OBVIOUS
<1>. USE DEF C!Init, ChatLimits
<1>0. /\ said["thread"] = <<[to |-> 0, part |-> Full]>> /\ said["new"] = <<>>
      /\ [to |-> 0, part |-> Full] \in C!Texts
  BY DEF C!Chats, C!Texts
<1>1. C!TypeOK
  <2>1. said \in [C!Chats -> Seq(C!Texts)]
    <3>1. <<[to |-> 0, part |-> Full]>> \in Seq(C!Texts) /\ <<>> \in Seq(C!Texts)
      BY <1>0
    <3>. QED BY <3>1
  <2>2. sent \in Seq(C!Chats) /\ Len(sent) <= 2 /\ C!NoText \in C!Texts
    BY DEF C!NoText, C!Texts
  <2>3. /\ attempt \in 1..2 /\ before \in 0..3 /\ stable \in 0..3 /\ polls \in 0..Patience
        /\ chatFaults \in 0..MaxFailures
    OBVIOUS
  <2>. QED BY <2>1, <2>2, <2>3, Zenon DEF C!TypeOK, C!Setups, C!Results
<1>2. \A c \in C!Chats : OneEach(c)
  BY <1>0 DEF C!Chats, OneEach, Belongs
<1>. QED BY <1>1, <1>2 DEF ChatInv, Arrivals, HasCounted, Counting, Reads, Opened, AnswerIsWhole, C!AnswerIsWhole

\* Where nothing is said or sent, the chats are as they were.
LEMMA SameChats ==
  ASSUME UNCHANGED <<said, sent>>, NEW c \in C!Chats, OneEach(c)
  PROVE  OneEach(c)'
BY DEF OneEach, Belongs, C!Asked

\* No chat holds more than three answers.
LEMMA FewAnswers ==
  ASSUME ChatInv, NEW c \in C!Chats
  PROVE  Len(said[c]) \in 0..3
<1>1. said[c] \in Seq(C!Texts) BY DEF ChatInv, C!TypeOK
<1>2. Len(said[c]) \in Nat /\ \A j \in 1..Len(said[c]) : said[c][j] \in C!Texts
  BY <1>1
<1>3. \A t \in C!Texts : t.to \in 0..2
  BY DEF C!Texts
<1>4. ASSUME Len(said[c]) > 3 PROVE FALSE
  <2>1. /\ 1 \in 1..Len(said[c]) /\ 2 \in 1..Len(said[c])
        /\ 3 \in 1..Len(said[c]) /\ 4 \in 1..Len(said[c])
    BY <1>2, <1>4
  <2>2. /\ said[c][1].to \in 0..2 /\ said[c][2].to \in 0..2
        /\ said[c][3].to \in 0..2 /\ said[c][4].to \in 0..2
    BY <2>1, <1>2, <1>3
  <2>3. \A j, k \in 1..Len(said[c]) : said[c][j].to = said[c][k].to => j = k
    BY DEF ChatInv, OneEach
  <2>4. /\ said[c][1].to # said[c][2].to /\ said[c][1].to # said[c][3].to
        /\ said[c][1].to # said[c][4].to /\ said[c][2].to # said[c][3].to
        /\ said[c][2].to # said[c][4].to /\ said[c][3].to # said[c][4].to
    BY <2>1, <2>3
  <2>. QED BY <2>2, <2>4
<1>5. Len(said[c]) \in Nat BY <1>2
<1>6. \A n \in Nat : n > 3 \/ n \in 0..3 OBVIOUS
<1>. QED BY <1>4, <1>5, <1>6, Zenon

\* What every step before the message is sent, and every step that gives up, leaves alone.
LEMMA QuietStep ==
  ASSUME ChatInv, C!Quiet,
         chatAt' \in {"opening", "checking", "typing", "filling", "over"},
         attempt' \in 1..2, reopened' \in BOOLEAN, retried' \in BOOLEAN,
         conv' \in C!Chats \cup {"none"}, chatFaults' \in 0..MaxFailures,
         result' \in C!Results \ {"whole"}, chatAt' # "over" => result' = "none",
         Arrivals', Opened'
  PROVE  ChatInv'
<1>. USE DEF C!Quiet, C!lookVars, C!siteVars
<1>1. C!TypeOK'
  BY Zenon DEF ChatInv, C!TypeOK
<1>2. ASSUME NEW c \in C!Chats PROVE OneEach(c)'
  BY SameChats DEF ChatInv
<1>. QED BY <1>1, <1>2 DEF ChatInv, HasCounted, Counting, Reads, AnswerIsWhole, C!AnswerIsWhole

\* A stall either starts the send over in a fresh tab, once, or ends it.
LEMMA StallsOnce ==
  ASSUME ChatInv, C!ThrowStall, UNCHANGED sent, chatAt # "over"
  PROVE  /\ chatAt' \in {"opening", "over"} /\ attempt' \in 1..2 /\ reopened' \in BOOLEAN
         /\ retried' \in BOOLEAN /\ conv' \in C!Chats \cup {"none"}
         /\ result' \in C!Results \ {"whole"} /\ (chatAt' # "over" => result' = "none")
         /\ Arrivals' /\ Opened'
<1>. USE DEF ChatInv, C!ThrowStall, C!Ends
<1>1. /\ chatAt' \in {"opening", "over"} /\ attempt' \in 1..2 /\ reopened' \in BOOLEAN
      /\ retried' \in BOOLEAN /\ conv' \in C!Chats \cup {"none"}
      /\ result' \in C!Results \ {"whole"} /\ (chatAt' # "over" => result' = "none")
  <2>1. result = "none" BY DEF Reads
  <2>2. attempt \in 1..2 /\ reopened \in BOOLEAN /\ retried \in BOOLEAN /\ conv \in C!Chats \cup {"none"}
    BY Zenon DEF C!TypeOK
  <2>3. CASE ~retried
    <3>1. /\ retried' = TRUE /\ chatAt' = "opening" /\ attempt' = 1 /\ reopened' = FALSE
          /\ conv' = "none" /\ result' = "none"
      BY <2>1, <2>3, Zenon
    <3>2. attempt' \in 1..2 BY <3>1
    <3>. QED BY <3>1, <3>2, Zenon DEF C!Results
  <2>4. CASE retried
    <3>1. chatAt' = "over" /\ result' = "error" /\ UNCHANGED <<retried, attempt, reopened, conv>>
      BY <2>4, Zenon
    <3>. QED BY <2>2, <3>1 DEF C!Results
  <2>. QED BY <2>3, <2>4
<1>2. Arrivals'
  BY DEF C!TypeOK, Arrivals
<1>. QED BY <1>1, <1>2 DEF Opened

LEMMA ErrorEnds ==
  ASSUME ChatInv, C!ThrowError, UNCHANGED sent, chatAt # "over"
  PROVE  /\ chatAt' = "over" /\ attempt' \in 1..2 /\ reopened' \in BOOLEAN
         /\ retried' \in BOOLEAN /\ conv' \in C!Chats \cup {"none"}
         /\ result' \in C!Results \ {"whole"} /\ Arrivals' /\ Opened'
<1>. USE DEF ChatInv, C!ThrowError, C!Ends
<1>2. Arrivals'
  BY DEF C!TypeOK, Arrivals
<1>. QED BY <1>2 DEF C!TypeOK, C!Results, Opened

LEMMA StepsBefore ==
  ASSUME ChatLimits, ChatInv,
         \/ C!Start \/ C!OpenStalls \/ C!Check \/ C!Compose \/ C!NoComposer \/ C!Interrupted
         \/ C!TimeIsUp \/ C!WaitThrows
  PROVE  ChatInv'
<1>1. C!Quiet /\ UNCHANGED sent /\ chatFaults' \in 0..MaxFailures /\ chatAt # "over"
  <2>1. C!Quiet /\ chatAt # "over"
    BY DEF C!Start, C!OpenStalls, C!Check, C!Compose, C!NoComposer, C!Interrupted, C!TimeIsUp,
           C!WaitThrows
  <2>2. C!Fault \/ UNCHANGED chatFaults
    BY DEF C!Start, C!OpenStalls, C!Check, C!Compose, C!NoComposer, C!Interrupted, C!TimeIsUp,
           C!WaitThrows
  <2>. QED BY <2>1, <2>2 DEF ChatLimits, ChatInv, C!TypeOK, C!Quiet, C!siteVars, C!Fault
<1>2. CASE C!ThrowStall BY <1>1, <1>2, StallsOnce, QuietStep
<1>3. CASE C!ThrowError BY <1>1, <1>3, ErrorEnds, QuietStep
<1>4. ASSUME ~C!ThrowStall, ~C!ThrowError
      PROVE  /\ chatAt' \in {"opening", "checking", "typing", "filling", "over"}
             /\ attempt' \in 1..2 /\ reopened' \in BOOLEAN
             /\ UNCHANGED <<retried, conv>>
             /\ result' \in C!Results \ {"whole"} /\ (chatAt' # "over" => result' = "none")
             /\ Arrivals' /\ Opened'
  <2>1. /\ chatAt' \in {"opening", "checking", "typing", "filling", "over"}
        /\ attempt' \in 1..2 /\ reopened' \in BOOLEAN /\ UNCHANGED <<retried, conv>>
        /\ result' \in C!Results \ {"whole"} /\ (chatAt' # "over" => result' = "none")
        /\ chatAt \in {"idle", "opening", "over"} => chatAt' \in {"opening", "over"}
        /\ chatAt \in {"waiting", "reading"} => chatAt' = "over"
    <3>. USE <1>4 DEF C!Ends, C!ReadsOut, C!StopsHere, C!Results
    <3>0. /\ attempt \in 1..2 /\ reopened \in BOOLEAN
          /\ chatAt # "over" => result = "none"
      BY Zenon DEF ChatInv, C!TypeOK, Reads
    <3>1. CASE C!Start BY <3>0, <3>1 DEF C!Start
    <3>2. CASE C!OpenStalls BY <3>0, <3>2 DEF C!OpenStalls
    <3>3. CASE C!Check BY <3>0, <3>3 DEF C!Check
    <3>4. CASE C!Compose BY <3>0, <3>4 DEF C!Compose
    <3>5. CASE C!NoComposer
      <4>1. \/ chatAt = "typing" /\ C!Ends("challenge") /\ UNCHANGED <<attempt, reopened, retried, conv>>
            \/ /\ chatAt = "typing" /\ chatAt' = "opening" /\ attempt' = 2
               /\ UNCHANGED <<reopened, retried, result, conv>>
        BY <3>5, Zenon DEF C!NoComposer
      <4>2. attempt' \in 1..2 BY <3>0, <4>1
      <4>. QED BY <3>0, <4>1, <4>2, Zenon
    <3>6. CASE C!Interrupted BY <3>0, <3>6 DEF C!Interrupted
    <3>7. CASE C!TimeIsUp BY <3>0, <3>7 DEF C!TimeIsUp
    <3>8. CASE C!WaitThrows BY <3>0, <3>8 DEF C!WaitThrows
    <3>. QED BY <3>1, <3>2, <3>3, <3>4, <3>5, <3>6, <3>7, <3>8
  <2>2. Arrivals' BY <2>1, <1>1 DEF ChatInv, C!TypeOK, Arrivals
  <2>3. Opened' BY <2>1 DEF ChatInv, Opened
  <2>. QED BY <2>1, <2>2, <2>3
<1>5. CASE ~C!ThrowStall /\ ~C!ThrowError
  <2>1. retried' \in BOOLEAN /\ conv' \in C!Chats \cup {"none"}
    BY <1>4, <1>5 DEF ChatInv, C!TypeOK
  <2>. QED BY <1>1, <1>4, <1>5, <2>1, QuietStep
<1>. QED BY <1>2, <1>3, <1>5

\* A new chat is empty; the thread is as it was.
LEMMA StepOpen == ASSUME ChatInv, C!Open PROVE ChatInv'
<1>. USE DEF C!lookVars
<1>0. /\ C!Target \in C!Chats /\ conv' = C!Target /\ chatAt = "opening"
      /\ said' = IF C!Target = "new" THEN [said EXCEPT !["new"] = <<>>] ELSE said
      /\ chatAt' \in {"checking", "typing"} /\ reopened' = FALSE /\ loaded' = (said'[C!Target] = <<>>)
      /\ UNCHANGED <<thread, attempt, retried, before, lastText, shown, stable, polls, result, sent, stopped, challenge,
                     site, misread, chatFaults>>
  BY Zenon DEF C!Open, C!Target, C!Chats
<1>1. said' \in [C!Chats -> Seq(C!Texts)]
  <2>1. said \in [C!Chats -> Seq(C!Texts)] /\ <<>> \in Seq(C!Texts)
    BY DEF ChatInv, C!TypeOK
  <2>. QED BY <1>0, <2>1
<1>2. C!TypeOK'
  BY <1>0, <1>1, Zenon DEF ChatInv, C!TypeOK
<1>3. ASSUME NEW c \in C!Chats PROVE OneEach(c)'
  <2>1. said \in [C!Chats -> Seq(C!Texts)] BY DEF ChatInv, C!TypeOK
  <2>2. said'[c] = said[c] \/ (c = "new" /\ said'[c] = <<>>)
    <3>1. CASE C!Target = "new"
      <4>1. said' = [said EXCEPT !["new"] = <<>>] BY <1>0, <3>1, Zenon
      <4>. QED BY <2>1, <4>1 DEF C!Chats
    <3>2. CASE C!Target # "new" 
      <4>1. said' = said BY <1>0, <3>2
      <4>. QED BY <4>1
    <3>. QED BY <3>1, <3>2
  <2>. QED BY <1>0, <2>2 DEF ChatInv, OneEach, Belongs, C!Asked
<1>4. Arrivals' BY <1>0 DEF ChatInv, Arrivals
<1>5. (HasCounted /\ Opened)' BY <1>0 DEF HasCounted, Counting, Opened
<1>6. Reads' BY <1>0 DEF ChatInv, Reads, AnswerIsWhole, C!AnswerIsWhole
<1>. QED BY <1>2, <1>3, <1>4, <1>5, <1>6 DEF ChatInv

LEMMA StepFill == ASSUME ChatLimits, ChatInv, C!Fill PROVE ChatInv'
<1>. USE DEF C!lookVars, C!siteVars
<1>0. /\ chatAt = "filling" /\ chatAt' = "sending" /\ before' \in {C!Shown, 0}
      /\ misread' \in BOOLEAN /\ (~misread' => before' = C!Shown /\ loaded)
      /\ lastText' = C!NoText /\ shown' = C!NoText /\ stable' = 0 /\ polls' = 0
      /\ UNCHANGED <<thread, attempt, reopened, retried, result, conv, loaded, said, sent,
                     challenge, stopped, site>>
      /\ C!Fault \/ UNCHANGED chatFaults
  <2>1. loaded \in BOOLEAN BY DEF ChatInv, C!TypeOK
  <2>. QED BY <2>1, Zenon DEF C!Fill
<1>1. conv \in C!Chats BY <1>0 DEF ChatInv, Opened
<1>2. Len(said[conv]) \in 0..3 BY <1>1, FewAnswers
<1>3. before' \in 0..3
  <2>1. C!Shown \in 0..3
    <3>1. CASE loaded BY <1>2, <3>1, Zenon DEF C!Shown
    <3>2. CASE ~loaded
      <4>1. C!Shown = 0 BY <3>2, Zenon DEF C!Shown
      <4>. QED BY <4>1
    <3>. QED BY <3>1, <3>2
  <2>. QED BY <1>0, <2>1
<1>4. C!TypeOK'
  <2>1. chatFaults' \in 0..MaxFailures
    BY <1>0 DEF ChatInv, C!TypeOK, ChatLimits, C!Fault
  <2>2. C!NoText \in C!Texts /\ stable' \in 0..3 /\ polls' \in 0..Patience
    BY <1>0 DEF ChatLimits, C!NoText, C!Texts
  <2>. QED BY <1>0, <1>3, <2>1, <2>2, Zenon DEF ChatInv, C!TypeOK
<1>5. ASSUME NEW c \in C!Chats PROVE OneEach(c)'
  BY <1>0, SameChats DEF ChatInv
<1>6. HasCounted'
  <2>1. ASSUME ~misread', conv = "thread" PROVE before' > 0
    <3>1. before' = Len(said[conv]) BY <1>0, <2>1 DEF C!Shown
    <3>2. said[conv] # <<>> BY <1>1, <2>1 DEF ChatInv, OneEach
    <3>3. said[conv] \in Seq(C!Texts) BY <1>1 DEF ChatInv, C!TypeOK
    <3>. QED BY <3>1, <3>2, <3>3
  <2>. QED BY <1>0, <2>1 DEF HasCounted
<1>7. (Arrivals /\ Opened /\ Reads)'
  BY <1>0, <1>1 DEF ChatInv, Arrivals, Opened, Reads, Sure, AnswerIsWhole, C!AnswerIsWhole
<1>. QED BY <1>4, <1>5, <1>6, <1>7 DEF ChatInv

LEMMA StepSend == ASSUME ChatLimits, ChatInv, C!Send PROVE ChatInv'
<1>. USE DEF C!lookVars
<1>0. /\ chatAt = "sending" /\ sent' = Append(sent, conv)
      /\ chatAt' \in {"waiting", "over"} /\ result' \in {"none", "sent"}
      /\ chatAt' = "waiting" => result' = "none"
      /\ UNCHANGED <<thread, attempt, reopened, retried, before, lastText, shown, stable, polls, conv,
                     loaded, said, stopped, challenge, site, misread, chatFaults>>
  BY DEF C!Send, C!Ends, ChatInv, Reads
<1>1. conv \in C!Chats BY <1>0 DEF ChatInv, Opened
<1>2. sent \in Seq(C!Chats) /\ Len(sent) \in Nat BY DEF ChatInv, C!TypeOK
<1>3. /\ sent' \in Seq(C!Chats) /\ Len(sent') = Len(sent) + 1
      /\ \A i \in 1..Len(sent) : sent'[i] = sent[i]
  BY <1>0, <1>1, <1>2
<1>4. Arrivals' /\ Len(sent') <= 2
  BY <1>0, <1>2, <1>3 DEF ChatInv, Arrivals
<1>5. C!TypeOK'
  <2>1. result' \in C!Results BY <1>0 DEF C!Results
  <2>. QED BY <1>0, <1>3, <1>4, <2>1, Zenon DEF ChatInv, C!TypeOK
<1>6. ASSUME NEW c \in C!Chats PROVE OneEach(c)'
  BY <1>0, <1>2, <1>3 DEF ChatInv, OneEach, Belongs, C!Asked
<1>7. stable = 0 BY <1>0 DEF ChatInv, Reads
<1>8. (HasCounted /\ Opened /\ Reads)'
  BY <1>0, <1>7 DEF ChatInv, HasCounted, Counting, Opened, Reads, Sure, AnswerIsWhole, C!AnswerIsWhole
<1>. QED BY <1>4, <1>5, <1>6, <1>8 DEF ChatInv

\* While it is counted truly, what a poll reads is an answer to this message; if the site was
\* done with writing at the last look, it is whole.
LEMMA ReadsItsAnswer ==
  ASSUME ChatLimits, ChatInv, chatAt \in {"waiting", "reading"}, ~misread, C!Shown > before
  PROVE  /\ said[conv][C!Shown] \in C!Texts
         /\ said[conv][C!Shown].to > 0
         /\ Sure => Whole(said[conv][C!Shown])
<1>1. loaded /\ conv \in C!Chats /\ (conv = "thread" => before > 0)
  BY DEF ChatInv, HasCounted, Counting, Opened
<1>2. C!Shown = Len(said[conv]) BY <1>1 DEF C!Shown
<1>3. before \in Nat /\ Len(said[conv]) \in Nat /\ said[conv] \in Seq(C!Texts)
  BY <1>1 DEF ChatInv, C!TypeOK
<1> DEFINE n == C!Shown
<1>4. n \in 1..Len(said[conv]) /\ (conv = "thread" => n # 1)
  <2>1. n = Len(said[conv]) /\ n > before /\ (conv = "thread" => before > 0)
    BY <1>1, <1>2
  <2>2. \A l, b \in Nat : l > b => l \in 1..l /\ (b > 0 => l # 1)
    OBVIOUS
  <2>. QED BY <1>3, <2>1, <2>2, Zenon
<1>5. said[conv][n] \in C!Texts
  BY <1>3, <1>4
<1>6. Belongs(conv, n)
  BY <1>1, <1>4 DEF ChatInv, OneEach
<1>7. said[conv][n].to # 0
  BY <1>4, <1>6 DEF Belongs
<1>8. ASSUME Sure PROVE said[conv][n].part = Full
  <2>1. ~C!Busy BY <1>8 DEF ChatInv, Reads
  <2>2. said[conv][n].to \in C!Asked(conv) BY <1>6, <1>7 DEF Belongs
  <2>3. PICK j \in C!Answer(said[conv][n].to) : ~(said[conv][j].part < Full)
    BY <2>1, <2>2 DEF C!Busy
  <2>4. sent[said[conv][n].to] = conv BY <2>2 DEF C!Asked
  <2>5. j \in 1..Len(said[conv]) /\ said[conv][j].to = said[conv][n].to
    BY <2>4 DEF C!Answer
  <2>6. j = n BY <1>1, <1>4, <2>5 DEF ChatInv, OneEach
  <2>. QED BY <1>5, <2>3, <2>6 DEF C!Texts, ChatLimits
<1>9. said[conv][n].to > 0 BY <1>5, <1>7 DEF C!Texts
<1>. QED BY <1>5, <1>8, <1>9 DEF Whole

LEMMA StepPoll == ASSUME ChatLimits, ChatInv, C!Poll PROVE ChatInv'
<1>0. /\ chatAt = "waiting" /\ polls < Patience /\ polls' = polls + 1
      /\ UNCHANGED <<thread, attempt, reopened, retried, before, lastText, stable, conv, loaded,
                     said, sent, challenge, stopped, site, misread>>
  BY DEF C!Poll, C!siteVars
<1>1. \/ chatAt' = "over" /\ result' = "stopped" /\ shown' = shown /\ chatFaults' = chatFaults
      \/ UNCHANGED <<chatAt, result, shown>> /\ (chatFaults' = chatFaults \/ C!Fault)
      \/ /\ C!Shown > before /\ chatAt' = "reading" /\ result' = result
         /\ \/ shown' = said[conv][C!Shown] /\ chatFaults' = chatFaults
            \/ shown' = C!NoText /\ C!Fault
  BY Zenon DEF C!Poll, C!Ends
<1>2. result = "none" BY <1>0 DEF ChatInv, Reads
<1>3. conv \in C!Chats BY <1>0 DEF ChatInv, Opened
<1>4. C!NoText \in C!Texts /\ C!NoText.part = 0
  BY DEF C!NoText, C!Texts, ChatLimits
<1>5. shown' \in C!Texts
  <2>1. ASSUME C!Shown > before PROVE said[conv][C!Shown] \in C!Texts
    <3>1. before \in 0..3 /\ said[conv] \in Seq(C!Texts) BY <1>3 DEF ChatInv, C!TypeOK
    <3>2. C!Shown = Len(said[conv]) \/ C!Shown = 0 BY Zenon DEF C!Shown
    <3>3. C!Shown \in 1..Len(said[conv]) BY <2>1, <3>1, <3>2
    <3>. QED BY <3>1, <3>3
  <2>2. shown \in C!Texts BY DEF ChatInv, C!TypeOK
  <2>. QED BY <1>1, <1>4, <2>1, <2>2
<1>6. C!TypeOK'
  <2>1. chatFaults' \in 0..MaxFailures
    <3>1. C!Fault \/ chatFaults' = chatFaults BY <1>1
    <3>. QED BY <3>1 DEF ChatInv, C!TypeOK, ChatLimits, C!Fault
  <2>2. polls' \in 0..Patience BY <1>0 DEF ChatInv, C!TypeOK, ChatLimits
  <2>3. result' \in C!Results /\ chatAt' \in {"waiting", "reading", "over"}
    BY <1>0, <1>1, <1>2 DEF C!Results
  <2>. QED BY <1>0, <1>5, <2>1, <2>2, <2>3, Zenon DEF ChatInv, C!TypeOK
<1>7. ASSUME NEW c \in C!Chats PROVE OneEach(c)'
  BY <1>0, SameChats DEF ChatInv
<1>8. (Arrivals /\ HasCounted /\ Opened)'
  BY <1>0, <1>1 DEF ChatInv, Arrivals, HasCounted, Counting, Opened
<1>9. C!Busy' = C!Busy
  BY <1>0 DEF C!Busy, C!Asked, C!Answer
<1>10. Reads'
  <2>1. CASE chatAt' # "reading"
    BY <1>0, <1>1, <1>2, <1>9, <2>1 DEF ChatInv, Reads, Sure, AnswerIsWhole, C!AnswerIsWhole
  <2>2. CASE chatAt' = "reading"
    <3>1. /\ ~misread /\ shown'.part > 0 => shown'.to > 0
          /\ Sure /\ shown'.part > 0 => Whole(shown')
      BY <1>0, <1>1, <1>4, <2>2, ReadsItsAnswer DEF Sure
    <3>. QED BY <1>0, <1>1, <1>2, <1>9, <2>2, <3>1
         DEF ChatInv, Reads, Sure, Whole, AnswerIsWhole, C!AnswerIsWhole
  <2>. QED BY <2>1, <2>2
<1>. QED BY <1>6, <1>7, <1>8, <1>10 DEF ChatInv

LEMMA StepLook == ASSUME ChatLimits, ChatInv, C!Look PROVE ChatInv'
<1>0. /\ chatAt = "reading"
      /\ UNCHANGED <<thread, attempt, reopened, retried, before, shown, polls, conv, loaded, said,
                     sent, challenge, stopped, site>>
      /\ lastText' = IF shown.part > 0 THEN shown ELSE lastText
  BY DEF C!Look, C!siteVars
<1>1. PICK busy \in BOOLEAN :
        /\ \/ busy = (site = "busy" /\ C!Busy) /\ UNCHANGED <<misread, chatFaults>>
           \/ ~busy /\ C!Busy /\ C!Fault /\ misread' = TRUE
        /\ stable' = IF shown.part > 0 /\ shown = lastText /\ ~busy THEN stable + 1 ELSE 0
  BY DEF C!Look
<1>2. \/ stable' >= 3 /\ chatAt' = "over" /\ result' \in {"whole", "stopped"}
      \/ ~(stable' >= 3) /\ chatAt' = "waiting" /\ result' = result
  BY Zenon DEF C!Look, C!Ends, C!ReadsOut, C!StablePolls
<1>3. result = "none" /\ stable \in 0..3 /\ lastText \in C!Texts /\ shown \in C!Texts
  BY <1>0 DEF ChatInv, Reads, C!TypeOK
<1>4. stable' \in Nat /\ stable' <= stable + 1
  BY <1>1, <1>3
<1>5. misread \in BOOLEAN /\ misread' \in BOOLEAN /\ (~misread' => ~misread)
  <2>1. misread \in BOOLEAN BY DEF ChatInv, C!TypeOK
  <2>2. misread' = misread \/ misread' = TRUE BY <1>1
  <2>. QED BY <2>1, <2>2, Zenon
\* A look that counts saw that the site is done with writing.
<1>6. ASSUME stable' > 0, site = "busy", ~misread'
      PROVE  /\ ~C!Busy /\ shown.part > 0 /\ lastText' = shown /\ shown = lastText
             /\ stable' = stable + 1
  <2>1. /\ ~busy /\ shown.part > 0 /\ shown = lastText /\ stable' = stable + 1
    BY <1>1, <1>6
  <2>. QED BY <1>0, <1>1, <1>6, <2>1
<1>7. ASSUME stable' > 1, site = "busy", ~misread' PROVE Whole(lastText')
  <2>1. stable > 0 /\ ~misread /\ shown.part > 0 /\ lastText' = shown
    <3>1. stable' > 0 BY <1>4, <1>7
    <3>2. stable' = stable + 1 /\ shown.part > 0 /\ lastText' = shown BY <1>6, <1>7, <3>1
    <3>3. stable > 0 BY <1>3, <1>7, <3>2
    <3>. QED BY <1>5, <1>7, <3>2, <3>3, Zenon
  <2>. QED BY <1>0, <1>7, <2>1 DEF ChatInv, Reads, Sure
<1>8. C!Busy' = C!Busy
  BY <1>0 DEF C!Busy, C!Asked, C!Answer
<1>9. C!TypeOK'
  <2>1. chatFaults' \in 0..MaxFailures
    <3>1. C!Fault \/ chatFaults' = chatFaults BY <1>1
    <3>. QED BY <3>1 DEF ChatInv, C!TypeOK, ChatLimits, C!Fault
  <2>2. stable' \in 0..3
    <3>1. stable < 3 \/ stable' = 0
      BY <1>0, <1>1, <1>3 DEF ChatInv, Reads
    <3>. QED BY <1>3, <1>4, <3>1
  <2>3. result' \in C!Results /\ chatAt' \in {"waiting", "over"}
    BY <1>2, <1>3 DEF C!Results
  <2>4. lastText' \in C!Texts BY <1>0, <1>3
  <2>. QED BY <1>0, <1>5, <2>1, <2>2, <2>3, <2>4, Zenon DEF ChatInv, C!TypeOK
<1>10. ASSUME NEW c \in C!Chats PROVE OneEach(c)'
  BY <1>0, SameChats DEF ChatInv
<1>11. (Arrivals /\ HasCounted /\ Opened)'
  BY <1>0, <1>2, <1>5 DEF ChatInv, Arrivals, HasCounted, Counting, Opened
<1>12. Reads'
  <2>1. AnswerIsWhole'
    <3>. SUFFICES ASSUME result' = "whole", site' = "busy", ~misread' PROVE Whole(lastText')
      BY DEF AnswerIsWhole, C!AnswerIsWhole, Whole
    <3>1. stable' > 1 BY <1>2, <1>3, <1>4
    <3>. QED BY <1>0, <1>7, <3>1
  <2>2. chatAt' # "over" => result' = "none" BY <1>2, <1>3
  <2>3. chatAt' \in {"waiting", "over"} BY <1>2
  <2>4. ASSUME Sure' PROVE ~C!Busy'
    BY <1>0, <1>6, <1>8, <2>4 DEF Sure
  <2>5. ASSUME Sure', stable' > 1 PROVE Whole(lastText)'
    BY <1>0, <1>7, <2>5 DEF Sure, Whole
  <2>6. chatAt' \in {"waiting", "reading"} => stable' < 3 BY <1>2, <1>4
  <2>. QED BY <2>1, <2>2, <2>3, <2>4, <2>5, <2>6 DEF Reads
<1>. QED BY <1>9, <1>10, <1>11, <1>12 DEF ChatInv

\* The site writes on: what is whole stays whole, and a site that is done stays done.
LEMMA StepWrite == ASSUME ChatLimits, ChatInv, C!Write PROVE ChatInv'
<1>0. UNCHANGED <<chatAt, thread, attempt, reopened, retried, before, lastText, shown, stable,
                  polls, result, conv, loaded, sent, challenge, stopped, site, misread, chatFaults>>
  BY DEF C!Write, C!ChatVars, C!lookVars
<1>1. PICK i \in 1..Len(sent) :
        \/ /\ C!Answer(i) = {}
           /\ said' = [said EXCEPT ![sent[i]] = Append(@, [to |-> i, part |-> 0])]
        \/ \E j \in C!Answer(i) : /\ said[sent[i]][j].part < Full
                                  /\ said' = [said EXCEPT ![sent[i]][j].part = @ + 1]
  BY DEF C!Write
<1> DEFINE d == sent[i]
<1>2. /\ d \in C!Chats /\ i \in 1..2 /\ said \in [C!Chats -> Seq(C!Texts)]
      /\ \A c \in C!Chats : said[c] \in Seq(C!Texts) /\ Len(said[c]) \in Nat
  BY <1>1 DEF ChatInv, C!TypeOK
<1>3. \A c \in C!Chats \ {d} : said'[c] = said[c]
  BY <1>1, <1>2
<1>4. \/ /\ C!Answer(i) = {} /\ said'[d] = Append(said[d], [to |-> i, part |-> 0])
      \/ \E j \in C!Answer(i) : /\ said[d][j].part < Full
                                /\ said'[d] = [said[d] EXCEPT ![j].part = @ + 1]
  BY <1>1, <1>2
<1>5. \A t \in C!Texts : t.part \in Nat /\ t.to \in 0..2 /\ (t.part < Full => [t EXCEPT !.part = @ + 1] \in C!Texts)
  BY DEF C!Texts, ChatLimits
<1>6. /\ said'[d] \in Seq(C!Texts) /\ Len(said'[d]) \in Nat /\ Len(said[d]) <= Len(said'[d])
      /\ \A k \in 1..Len(said[d]) : /\ said'[d][k].to = said[d][k].to
                                    /\ said[d][k].part = Full => said'[d][k].part = Full
      /\ \A k \in 1..Len(said'[d]) : k > Len(said[d]) =>
           k = Len(said[d]) + 1 /\ said'[d][k].to = i /\ C!Answer(i) = {}
  <2>1. CASE C!Answer(i) = {} /\ said'[d] = Append(said[d], [to |-> i, part |-> 0])
    <3>1. [to |-> i, part |-> 0] \in C!Texts BY <1>2 DEF C!Texts, ChatLimits
    <3>. QED BY <1>2, <2>1, <3>1
  <2>2. ASSUME NEW j \in C!Answer(i), said[d][j].part < Full,
               said'[d] = [said[d] EXCEPT ![j].part = @ + 1]
        PROVE  /\ said'[d] \in Seq(C!Texts) /\ Len(said'[d]) = Len(said[d])
               /\ \A k \in 1..Len(said[d]) : /\ said'[d][k].to = said[d][k].to
                                             /\ said[d][k].part = Full => said'[d][k].part = Full
    <3>1. j \in 1..Len(said[d]) BY DEF C!Answer
    <3>0. said[d][j] \in C!Texts BY <1>2, <3>1
    <3>2. said[d][j] \in C!Texts /\ said[d][j].part \in Nat BY <1>5, <3>0
    <3>3. said'[d] = [said[d] EXCEPT ![j] = [said[d][j] EXCEPT !.part = said[d][j].part + 1]]
      BY <2>2
    <3>4. [said[d][j] EXCEPT !.part = said[d][j].part + 1] \in C!Texts
      BY <1>5, <2>2, <3>2
    <3>5. said'[d] \in Seq(C!Texts) /\ Len(said'[d]) = Len(said[d])
      BY <1>2, <3>1, <3>3, <3>4, ExceptSeq
    <3>6. \A k \in 1..Len(said[d]) \ {j} : said'[d][k] = said[d][k]
      BY <1>2, <3>1, <3>3, <3>4, ExceptSeq
    <3>7. said'[d][j].to = said[d][j].to
      BY <1>2, <3>1, <3>2, <3>3, <3>4, ExceptSeq DEF C!Texts
    <3>8. said[d][j].part # Full BY <2>2, <3>2 DEF ChatLimits
    <3>. QED BY <3>5, <3>6, <3>7, <3>8
  <2>3. CASE \E j \in C!Answer(i) : /\ said[d][j].part < Full
                                    /\ said'[d] = [said[d] EXCEPT ![j].part = @ + 1]
    <3>1. /\ said'[d] \in Seq(C!Texts) /\ Len(said'[d]) = Len(said[d])
          /\ \A k \in 1..Len(said[d]) : /\ said'[d][k].to = said[d][k].to
                                        /\ said[d][k].part = Full => said'[d][k].part = Full
      BY <2>2, <2>3
    <3>2. \A k \in 1..Len(said'[d]) : ~(k > Len(said[d]))
      BY <1>2, <3>1
    <3>. QED BY <1>2, <3>1, <3>2
  <2>. QED BY <1>4, <2>1, <2>3
<1>7. said' \in [C!Chats -> Seq(C!Texts)]
  <2>1. DOMAIN said' = C!Chats /\ said' = [c \in C!Chats |-> said'[c]]
    BY <1>1, <1>2
  <2>2. \A c \in C!Chats : said'[c] \in Seq(C!Texts)
    BY <1>2, <1>3, <1>6
  <2>. QED BY <2>1, <2>2
<1>8. C!TypeOK'
  BY <1>0, <1>7, ZenonT(60) DEF ChatInv, C!TypeOK
<1>9. ASSUME NEW c \in C!Chats PROVE OneEach(c)'
  <2>1. CASE c # d
    <3>1. said'[c] = said[c] BY <1>3, <2>1
    <3>. QED BY <1>0, <3>1 DEF ChatInv, OneEach, Belongs, C!Asked
  <2>2. CASE c = d
    <3>1. OneEach(d) BY <1>2 DEF ChatInv
    <3>2. ASSUME NEW j \in 1..Len(said'[d]), ~(j \in 1..Len(said[d]))
          PROVE  j = Len(said[d]) + 1 /\ said'[d][j].to = i /\ C!Answer(i) = {}
      BY <1>2, <1>6, <3>2
    <3>3. \A k \in 1..Len(said[d]) : C!Answer(i) = {} => said[d][k].to # i
      BY DEF C!Answer
    <3>4. i \in C!Asked(d)' /\ C!Asked(d)' = C!Asked(d) /\ i # 0
      BY <1>0, <1>1, <1>2 DEF C!Asked
    <3>5. ASSUME NEW j \in 1..Len(said'[d]) PROVE Belongs(d, j)'
      <4>1. CASE j \in 1..Len(said[d])
        <5>1. said'[d][j].to = said[d][j].to /\ Belongs(d, j)
          BY <1>6, <3>1, <4>1 DEF OneEach
        <5>. QED BY <1>0, <3>4, <5>1 DEF Belongs
      <4>2. CASE ~(j \in 1..Len(said[d]))
        <5>1. said'[d][j].to = i BY <3>2, <4>2
        <5>. QED BY <1>0, <3>4, <5>1 DEF Belongs
      <4>. QED BY <4>1, <4>2
    <3>6. ASSUME NEW j \in 1..Len(said'[d]), NEW k \in 1..Len(said'[d]),
                 said'[d][j].to = said'[d][k].to
          PROVE  j = k
      <4>1. CASE j \in 1..Len(said[d]) /\ k \in 1..Len(said[d])
        BY <1>6, <3>1, <3>6, <4>1 DEF OneEach
      <4>2. CASE ~(j \in 1..Len(said[d]) /\ k \in 1..Len(said[d]))
        BY <1>6, <3>2, <3>3, <3>6, <4>2
      <4>. QED BY <4>1, <4>2
    <3>7. said'[d] # <<>> \/ said[d] = <<>> BY <1>2, <1>6
    <3>8. d = "thread" => said'[d] # <<>> BY <3>1, <3>7 DEF OneEach
    <3>9. \A j \in 1..Len(said'[d]) : Belongs(d, j)' BY <3>5
    <3>10. \A j, k \in 1..Len(said'[d]) : said'[d][j].to = said'[d][k].to => j = k BY <3>6
    <3>. QED BY <1>0, <2>2, <3>8, <3>9, <3>10, Zenon DEF OneEach
  <2>. QED BY <2>1, <2>2
<1>10. ASSUME ~C!Busy, conv \in C!Chats PROVE ~C!Busy'
  <2>1. SUFFICES ASSUME NEW k \in C!Asked(conv)
                 PROVE  \E j \in C!Answer(k)' : ~(said'[conv][j].part < Full)
    BY <1>0 DEF C!Busy, C!Asked
  <2>2. PICK j \in C!Answer(k) : ~(said[conv][j].part < Full)
    BY <1>10 DEF C!Busy
  <2>3. sent[k] = conv /\ j \in 1..Len(said[conv]) /\ said[conv][j].to = k
    BY DEF C!Asked, C!Answer
  <2>4. CASE conv = d
    <3>1. said[d][j] \in C!Texts BY <1>2, <2>3, <2>4
    <3>2. said[d][j].part = Full BY <2>2, <2>4, <3>1 DEF C!Texts, ChatLimits
    <3>3. said'[d][j].part = Full /\ said'[d][j].to = k /\ j \in 1..Len(said'[d])
      BY <1>2, <1>6, <2>3, <2>4, <3>2
    <3>. QED BY <1>0, <2>3, <2>4, <3>3 DEF C!Answer, ChatLimits
  <2>5. CASE conv # d
    <3>1. said'[conv] = said[conv] BY <1>3, <1>10, <2>5
    <3>. QED BY <1>0, <2>2, <2>3, <3>1 DEF C!Answer
  <2>. QED BY <2>4, <2>5
<1>11. (Arrivals /\ HasCounted /\ Opened)'
  BY <1>0 DEF ChatInv, Arrivals, HasCounted, Counting, Opened
<1>12. Reads'
  <2>1. chatAt \in {"waiting", "reading"} => conv \in C!Chats BY DEF ChatInv, Opened
  <2>. QED BY <1>0, <1>10, <2>1 DEF ChatInv, Reads, Sure, AnswerIsWhole, C!AnswerIsWhole
<1>. QED BY <1>8, <1>9, <1>11, <1>12 DEF ChatInv

LEMMA StepAround ==
  ASSUME ChatLimits, ChatInv, C!ShowOlder \/ C!ChallengeAppears \/ C!Stop
  PROVE  ChatInv'
<1>0. /\ UNCHANGED <<chatAt, thread, attempt, reopened, retried, before, lastText, shown, stable,
                     polls, result, conv, said, sent, site, misread>>
      /\ loaded' = loaded \/ loaded' = TRUE
      /\ challenge' = challenge \/ challenge' = TRUE
      /\ stopped' = stopped \/ stopped' = TRUE
      /\ C!Fault \/ chatFaults' = chatFaults
  BY DEF C!ShowOlder, C!ChallengeAppears, C!Stop, C!ChatVars, C!lookVars, C!siteVars
<1>1. C!TypeOK'
  <2>1. chatFaults' \in 0..MaxFailures BY <1>0 DEF ChatInv, C!TypeOK, ChatLimits, C!Fault
  <2>2. loaded' \in BOOLEAN /\ challenge' \in BOOLEAN /\ stopped' \in BOOLEAN
    <3>1. loaded \in BOOLEAN /\ challenge \in BOOLEAN /\ stopped \in BOOLEAN
      BY Zenon DEF ChatInv, C!TypeOK
    <3>. QED BY <1>0, <3>1, Zenon
  <2>. QED BY <1>0, <2>1, <2>2, Zenon DEF ChatInv, C!TypeOK
<1>2. ASSUME NEW c \in C!Chats PROVE OneEach(c)'
  BY <1>0, SameChats DEF ChatInv
<1>3. (Arrivals /\ HasCounted /\ Opened)'
  BY <1>0 DEF ChatInv, Arrivals, HasCounted, Counting, Opened
<1>4. Reads'
  BY <1>0 DEF ChatInv, Reads, Sure, C!Busy, C!Asked, C!Answer, AnswerIsWhole, C!AnswerIsWhole
<1>. QED BY <1>1, <1>2, <1>3, <1>4 DEF ChatInv

LEMMA ChatStep == ASSUME ChatLimits PROVE ChatInv /\ [C!Next]_(C!vars) => ChatInv'
<1>. SUFFICES ASSUME ChatInv, [C!Next]_(C!vars) PROVE ChatInv'
  OBVIOUS
<1>1. CASE C!Next
  BY <1>1, StepsBefore, StepOpen, StepFill, StepSend, StepPoll, StepLook, StepWrite, StepAround DEF C!Next
<1>2. CASE UNCHANGED C!vars
  <2>. USE <1>2 DEF C!vars, C!lookVars, C!siteVars
  <2>1. C!TypeOK' BY ZenonT(60) DEF ChatInv, C!TypeOK
  <2>2. ASSUME NEW c \in C!Chats PROVE OneEach(c)' BY SameChats DEF ChatInv
  <2>. QED BY <2>1, <2>2 DEF ChatInv, Arrivals, HasCounted, Counting, Opened, Reads, Sure, C!Busy,
                             C!Asked, C!Answer, AnswerIsWhole, C!AnswerIsWhole
<1>. QED BY <1>1, <1>2

\* The inductive invariant of a send, with its types: what was counted and read of the page
\* before covers what is taken for the answer (sendOnce).
THEOREM ChatInvariant == C!Spec => []ChatInv
BY ChatAssumption, ChatStart, ChatStep, PTL DEF C!Spec

\* An answer that is handed on as finished is the whole answer to this very message (the reply
\* loop of sendOnce): for any length of answers, any patience of the loop and any number of
\* failures, but for a count that failed and a setup without a busy selector.
THEOREM AnswersAreWhole == C!Spec => []AnswerIsWhole
<1>1. ChatInv => AnswerIsWhole BY DEF ChatInv, Reads
<1>. QED BY <1>1, ChatInvariant, PTL

----------------------------------------------------------------------------
(* Lists in an order *)

\* A set of numbers has a least one.
LEMMA Least ==
  ASSUME NEW S \in SUBSET Nat, S # {}
  PROVE  \E m \in S : \A k \in S : m <= k
<1>1. \E m \in S : \A k \in S : ~ (<<k, m>> \in OpToRel(<, Nat))
  BY NatLessThanWellFounded, WFMin
<1>2. \A k, m \in S : k < m => <<k, m>> \in OpToRel(<, Nat)
  BY DEF OpToRel
<1>3. \E m \in S : \A k \in S : ~ (k < m)
  BY <1>1, <1>2, Zenon
<1>. QED BY <1>3

\* T is an order of S: whoever is ahead of whom.
InOrder(T, S) ==
  /\ T \in SUBSET (S \X S)
  /\ \A a \in S : <<a, a>> \notin T
  /\ \A a, b \in S : a # b => <<a, b>> \in T \/ <<b, a>> \in T
  /\ \A a, b, c \in S : <<a, b>> \in T /\ <<b, c>> \in T => <<a, c>> \in T
Place(T, S, a) == Cardinality({b \in S : <<b, a>> \in T}) + 1

\* In a finite set with an order, each place is somebody's.
LEMMA EachPlaceIsTaken ==
  ASSUME NEW S, IsFiniteSet(S), NEW T, InOrder(T, S), NEW i \in 1..Cardinality(S)
  PROVE  \E a \in S : Place(T, S, a) = i
<1>. USE DEF InOrder
<1>. DEFINE n == Cardinality(S)
            Less(a) == {b \in S : <<b, a>> \in T}
            r == [a \in S |-> Cardinality(Less(a))]
<1>1. n \in Nat BY FS_CardinalityType
<1>2. \A a \in S : /\ IsFiniteSet(Less(a)) /\ Cardinality(Less(a)) \in Nat
                   /\ Cardinality(Less(a)) <= n - 1
  <2>. SUFFICES ASSUME NEW a \in S
                PROVE  /\ IsFiniteSet(Less(a)) /\ Cardinality(Less(a)) \in Nat
                       /\ Cardinality(Less(a)) <= n - 1
    OBVIOUS
  <2>1. Less(a) \in SUBSET (S \ {a}) OBVIOUS
  <2>2. IsFiniteSet(S \ {a}) /\ Cardinality(S \ {a}) = n - 1 BY FS_RemoveElement
  <2>3. IsFiniteSet(Less(a)) /\ Cardinality(Less(a)) <= Cardinality(S \ {a})
    BY <2>1, <2>2, FS_Subset
  <2>. QED BY <2>2, <2>3, FS_CardinalityType
<1>3. \A a, c \in S : <<a, c>> \in T => Cardinality(Less(a)) < Cardinality(Less(c))
  <2>. SUFFICES ASSUME NEW a \in S, NEW c \in S, <<a, c>> \in T
                PROVE  Cardinality(Less(a)) < Cardinality(Less(c))
    OBVIOUS
  <2>1. Less(a) \in SUBSET (Less(c) \ {a})
    <3>. SUFFICES ASSUME NEW b \in Less(a) PROVE b \in Less(c) /\ b # a
      OBVIOUS
    <3>1. b \in S /\ <<b, a>> \in T OBVIOUS
    <3>. QED BY <3>1
  <2>2. a \in Less(c) OBVIOUS
  <2>3. IsFiniteSet(Less(c) \ {a}) /\ Cardinality(Less(c) \ {a}) = Cardinality(Less(c)) - 1
    BY <1>2, <2>2, FS_RemoveElement
  <2>4. Cardinality(Less(a)) <= Cardinality(Less(c) \ {a}) BY <2>1, <2>3, FS_Subset
  <2>. HIDE DEF Less, n
  <2>. QED BY <1>2, <2>3, <2>4
<1>. HIDE DEF Less, n
<1>4. r \in [S -> 0..(n - 1)]
  <2>1. \A a \in S : Cardinality(Less(a)) \in 0..(n - 1) BY <1>1, <1>2
  <2>. QED BY <2>1, Zenon
<1>5. IsInjective(r)
  <2>. SUFFICES ASSUME NEW a \in S, NEW c \in S, a # c PROVE r[a] # r[c]
    BY DEF IsInjective
  <2>1. <<a, c>> \in T \/ <<c, a>> \in T OBVIOUS
  <2>2. Cardinality(Less(a)) # Cardinality(Less(c)) BY <1>2, <1>3, <2>1
  <2>. QED BY <2>2
<1>6. r \in Injection(S, 0..(n - 1)) BY <1>4, <1>5 DEF Injection
<1>7. IsFiniteSet(0..(n - 1)) /\ Cardinality(0..(n - 1)) = n
  <2>. DEFINE m == n - 1
  <2>1. m \in Int /\ 0 \in Int /\ m >= -1 BY <1>1
  <2>. HIDE DEF m
  <2>2. IsFiniteSet(0..m) /\ Cardinality(0..m) = IF 0 > m THEN 0 ELSE m - 0 + 1
    BY <2>1, FS_Interval
  <2>3. Cardinality(0..m) = m + 1 BY <2>1, <2>2
  <2>. QED BY <1>1, <2>2, <2>3 DEF m
<1>8. r \in Surjection(S, 0..(n - 1)) BY <1>6, <1>7, FS_Injection DEF n
<1>9. i - 1 \in 0..(n - 1) /\ i \in Nat BY <1>1 DEF n
<1>10. \E a \in S : r[a] = i - 1 BY <1>8, <1>9 DEF Surjection
<1>11. PICK a \in S : r[a] = i - 1 BY <1>10
<1>12. Cardinality(Less(a)) = i - 1 BY <1>11
<1>13. Cardinality(Less(a)) + 1 = i BY <1>9, <1>12
<1>. QED BY <1>13 DEF Less, Place

\* A function from 1..n is a sequence.
LEMMA IsList ==
  ASSUME NEW S, NEW n \in Nat, NEW f \in [1..n -> S]
  PROVE  f \in Seq(S) /\ Len(f) = n /\ DOMAIN f = 1..n
OBVIOUS

Option == [to : AIs, score : 0..100]

LEMMA OneAhead ==
  ASSUME NEW x \in Option, NEW q \in R!Options
  PROVE  /\ <<x>> \o q \in R!Options /\ Len(<<x>> \o q) = Len(q) + 1
         /\ (<<x>> \o q)[1] = x
         /\ \A k \in 2..(Len(q) + 1) : (<<x>> \o q)[k] = q[k - 1]
BY DEF Option, R!Options

----------------------------------------------------------------------------
(* What the routers list *)

LEMMA FewAIs ==
  /\ MaxAI \in Nat /\ AIs = 1..MaxAI
  /\ \A ais \in SUBSET AIs : IsFiniteSet(ais) /\ Cardinality(ais) \in Nat
<1>1. MaxAI \in Nat BY RoutingAssumption DEF RouterLimits
<1>2. IsFiniteSet(AIs) BY <1>1, FS_Interval DEF AIs
<1>. QED BY <1>1, <1>2, FS_Subset, FS_CardinalityType DEF AIs

LEMMA NthIsOne ==
  ASSUME NEW ais \in SUBSET AIs, NEW i \in 1..Cardinality(ais)
  PROVE  Nth(ais, i) \in ais
<1>. DEFINE T == {x \in ais \X ais : x[1] < x[2]}
<1>1. ais \subseteq Nat
  <2>1. AIs \subseteq Nat BY FewAIs
  <2>. QED BY <2>1
<1>2. T \in SUBSET (ais \X ais) /\ \A a, b \in ais : <<a, b>> \in T <=> a < b
  OBVIOUS
<1>3. IsFiniteSet(ais) BY FewAIs
<1>4. \A a \in ais : Place(T, ais, a) = Cardinality({b \in ais : b < a}) + 1
  <2>. SUFFICES ASSUME NEW a \in ais
                PROVE  Place(T, ais, a) = Cardinality({b \in ais : b < a}) + 1
    OBVIOUS
  <2>1. {b \in ais : <<b, a>> \in T} = {b \in ais : b < a} BY <1>2
  <2>. QED BY <2>1 DEF Place
<1>. HIDE DEF T
<1>5. InOrder(T, ais) BY <1>1, <1>2 DEF InOrder
<1>6. \E a \in ais : Place(T, ais, a) = i BY <1>3, <1>5, EachPlaceIsTaken
<1>7. \E a \in ais : Cardinality({b \in ais : b < a}) + 1 = i BY <1>4, <1>6
<1>. QED BY <1>7 DEF Nth

LEMMA ListedTyped ==
  ASSUME NEW ais \in SUBSET AIs
  PROVE  /\ Listed(ais) \in R!Options /\ Len(Listed(ais)) = Cardinality(ais)
         /\ \A k \in 1..Cardinality(ais) : Listed(ais)[k] = Choice(Nth(ais, k))
<1>. DEFINE n == Cardinality(ais)
<1>1. n \in Nat BY FewAIs
<1>2. \A k \in 1..n : Choice(Nth(ais, k)) \in Option
  <2>. SUFFICES ASSUME NEW k \in 1..n PROVE Choice(Nth(ais, k)) \in Option
    OBVIOUS
  <2>1. Nth(ais, k) \in AIs BY NthIsOne
  <2>. QED BY <2>1 DEF Choice, Option
<1>. HIDE DEF n
<1>3. [k \in 1..n |-> Choice(Nth(ais, k))] \in [1..n -> Option] BY <1>2
<1>4. Listed(ais) = [k \in 1..n |-> Choice(Nth(ais, k))]
  BY DEF Listed, n
<1>5. Listed(ais) \in Seq(Option) /\ Len(Listed(ais)) = n BY <1>1, <1>3, <1>4, IsList
<1>6. \A k \in 1..n : Listed(ais)[k] = Choice(Nth(ais, k)) BY <1>4
<1>. QED BY <1>5, <1>6 DEF n, R!Options, Option

\* A score over itself and four grows with the score.
LEMMA Quotient ==
  ASSUME NEW x \in Nat, NEW d \in Nat \ {0}
  PROVE  /\ x \div d \in Nat
         /\ (x \div d) * d <= x
         /\ x < ((x \div d) + 1) * d
OBVIOUS

LEMMA QuotientsGrow ==
  ASSUME NEW a \in Nat, NEW b \in Nat, a <= b, NEW q \in Nat, NEW p \in Nat,
         q * (2 * (a + 4)) <= 201 * a + 4, 201 * b + 4 < (p + 1) * (2 * (b + 4))
  PROVE  q <= 100 /\ q <= p
<1>1. q <= 100
  <2>. SUFFICES ASSUME q >= 101 PROVE FALSE OBVIOUS
  <2>1. q * (2 * (a + 4)) >= 101 * (2 * (a + 4)) OBVIOUS
  <2>. QED BY <2>1
<1>2. q * (2 * (b + 4)) = q * (2 * (a + 4)) + 2 * (q * (b - a)) OBVIOUS
<1>3. q * (b - a) <= 100 * (b - a) BY <1>1
<1>4. q * (2 * (b + 4)) <= 201 * b + 4 BY <1>2, <1>3
<1>5. q < p + 1
  <2>. SUFFICES ASSUME q >= p + 1 PROVE FALSE OBVIOUS
  <2>1. q * (2 * (b + 4)) >= (p + 1) * (2 * (b + 4)) OBVIOUS
  <2>. QED BY <2>1, <1>4
<1>. QED BY <1>1, <1>5

LEMMA SharesGrow ==
  ASSUME NEW a \in Nat, NEW b \in Nat, a <= b
  PROVE  /\ Round(100 * a, a + 4) \in 0..100 /\ Round(60 * a, a + 4) \in 0..60
         /\ Round(100 * a, a + 4) <= Round(100 * b, b + 4)
<1>. DEFINE whole(n) == 201 * n + 4
            part(n) == 121 * n + 4
            d(n) == 2 * (n + 4)
            q == whole(a) \div d(a)
            p == whole(b) \div d(b)
            h == part(a) \div d(a)
<1>1. /\ Round(100 * a, a + 4) = q /\ Round(100 * b, b + 4) = p
      /\ Round(60 * a, a + 4) = h
  <2>1. /\ 2 * (100 * a) + (a + 4) = 201 * a + 4 /\ 2 * (100 * b) + (b + 4) = 201 * b + 4
        /\ 2 * (60 * a) + (a + 4) = 121 * a + 4
    OBVIOUS
  <2>. QED BY <2>1 DEF Round
<1>2. /\ whole(a) \in Nat /\ whole(b) \in Nat /\ part(a) \in Nat
      /\ d(a) \in Nat \ {0} /\ d(b) \in Nat \ {0}
  OBVIOUS
<1>3. /\ q \in Nat /\ q * d(a) <= whole(a)
      /\ p \in Nat /\ whole(b) < (p + 1) * d(b)
      /\ h \in Nat /\ h * d(a) <= part(a)
  <2>. HIDE DEF whole, part, d
  <2>. QED BY <1>2, Quotient
<1>. HIDE DEF q, p, h
<1>4. q <= 100 /\ q <= p BY <1>3, QuotientsGrow
<1>5. h <= 60
  <2>. SUFFICES ASSUME h >= 61 PROVE FALSE BY <1>3
  <2>1. h * (2 * (a + 4)) >= 61 * (2 * (a + 4)) BY <1>3
  <2>. QED BY <1>3, <2>1
<1>. QED BY <1>1, <1>3, <1>4, <1>5

----------------------------------------------------------------------------
(* The routers *)

\* The first of a list is where it points, and nothing in it scores more.
FirstIsBest(os, to) ==
  os # <<>> => os[1].to = to /\ \A k \in DOMAIN os : os[k].score <= os[1].score

\* A decision is typed, and a confident one is for the first of its options.
Sound(r) ==
  /\ r.method \in R!Methods /\ r.confidence \in 0..100
  /\ r.options \in R!Options /\ r.to \in AIs \cup {Nowhere}
  /\ r.confidence >= Threshold => r.to # Nowhere /\ FirstIsBest(r.options, r.to)

LEMMA SoundRoute ==
  ASSUME NEW how \in R!Methods, NEW c \in 0..100, NEW os \in R!Options,
         NEW to \in AIs \cup {Nowhere},
         c >= Threshold => to # Nowhere /\ FirstIsBest(os, to)
  PROVE  Sound(Route(how, c, os, to))
BY DEF Sound, Route

\* A choice ahead of a list without a score.
LEMMA Unscored ==
  ASSUME NEW ais \in SUBSET AIs, NEW k \in 1..Cardinality(ais)
  PROVE  Listed(ais)[k].score = 0
<1>1. Listed(ais)[k] = Choice(Nth(ais, k)) BY ListedTyped
<1>2. \A a : Choice(a).score = 0 BY DEF Choice
<1>. QED BY <1>1, <1>2

LEMMA ChoiceFirst ==
  ASSUME NEW a \in AIs, NEW ais \in SUBSET AIs
  PROVE  /\ <<Choice(a)>> \o Listed(ais) \in R!Options
         /\ FirstIsBest(<<Choice(a)>> \o Listed(ais), a)
<1>. DEFINE q == Listed(ais)
            os == <<Choice(a)>> \o q
            n == Cardinality(ais)
<1>1. n \in Nat /\ q \in R!Options /\ Len(q) = n
  BY FewAIs, ListedTyped
<1>2. \A k \in 1..n : q[k].score = 0 BY Unscored
<1>3. Choice(a) \in Option /\ Choice(a).to = a /\ Choice(a).score = 0
  BY DEF Choice, Option
<1>. HIDE DEF q, n
<1>4. /\ os \in R!Options /\ Len(os) = n + 1 /\ os[1] = Choice(a)
      /\ \A k \in 2..(n + 1) : os[k] = q[k - 1]
  BY <1>1, <1>3, OneAhead
<1>. HIDE DEF os
<1>5. DOMAIN os = 1..(n + 1) BY <1>1, <1>4 DEF R!Options
<1>6. \A k \in 1..(n + 1) : os[k].score = 0
  <2>. SUFFICES ASSUME NEW k \in 1..(n + 1) PROVE os[k].score = 0 OBVIOUS
  <2>1. CASE k = 1 BY <1>3, <1>4, <2>1
  <2>2. CASE k # 1
    <3>1. k \in 2..(n + 1) /\ k - 1 \in 1..n BY <1>1, <2>2
    <3>2. os[k] = q[k - 1] BY <1>4, <3>1
    <3>. QED BY <1>2, <3>1, <3>2
  <2>. QED BY <2>1, <2>2
<1>7. os[1].to = a BY <1>3, <1>4
<1>8. 1 \in 1..(n + 1) BY <1>1
<1>9. FirstIsBest(os, a)
  <2>1. \A k \in DOMAIN os : os[k].score <= os[1].score
    <3>1. \A k \in DOMAIN os : os[k].score = 0 BY <1>5, <1>6
    <3>2. os[1].score = 0 BY <1>6, <1>8
    <3>. QED BY <3>1, <3>2
  <2>. QED BY <1>7, <2>1 DEF FirstIsBest
<1>. QED BY <1>4, <1>9 DEF os, q

\* Four ways a router among AIs decides.
LEMMA Certain ==
  ASSUME NEW how \in R!Methods, NEW c \in 0..100, NEW a \in AIs, NEW ais \in SUBSET AIs
  PROVE  Sound(Route(how, c, <<Choice(a)>> \o Listed(ais), a))
<1>1. a # Nowhere BY FewAIs DEF Nowhere
<1>2. /\ <<Choice(a)>> \o Listed(ais) \in R!Options
      /\ FirstIsBest(<<Choice(a)>> \o Listed(ais), a)
  BY ChoiceFirst
<1>. QED BY <1>1, <1>2, SoundRoute

LEMMA Undecided ==
  ASSUME NEW how \in R!Methods, NEW os \in R!Options
  PROVE  Sound(Route(how, 0, os, Nowhere))
<1>1. 0 \in 0..100 /\ ~ (0 >= Threshold) BY DEF Threshold
<1>2. Nowhere \in AIs \cup {Nowhere} OBVIOUS
<1>. QED BY <1>1, <1>2, SoundRoute

LEMMA Alone ==
  ASSUME NEW a \in AIs
  PROVE  Sound(Route("only", 85, Listed({a}), a))
<1>. DEFINE os == Listed({a})
<1>1. {a} \in SUBSET AIs /\ Cardinality({a}) = 1 BY FS_Singleton
<1>2. 1 \in 1..1 /\ 1 \in 1..Cardinality({a}) BY <1>1
<1>3. os \in R!Options /\ Len(os) = 1 /\ os[1] = Choice(Nth({a}, 1))
  BY <1>1, <1>2, ListedTyped
<1>4. Nth({a}, 1) = a
  <2>1. Nth({a}, 1) \in {a} BY <1>1, <1>2, NthIsOne
  <2>. QED BY <2>1
<1>5. os[1].to = a BY <1>3, <1>4 DEF Choice
<1>6. os[1].score = 0 BY <1>1, <1>2, Unscored
<1>. HIDE DEF os
<1>7. DOMAIN os = {1} BY <1>3 DEF R!Options
<1>8. FirstIsBest(os, a) BY <1>5, <1>6, <1>7 DEF FirstIsBest
<1>9. a # Nowhere BY FewAIs DEF Nowhere
<1>10. "only" \in R!Methods /\ 85 \in 0..100 BY DEF R!Methods
<1>. QED BY <1>3, <1>8, <1>9, <1>10, SoundRoute DEF os

LEMMA ConnectionSound ==
  ASSUME NEW x \in ChatTexts, NEW cs \in SUBSET AIs
  PROVE  Sound(RouteToConnection(x, cs))
<1>. DEFINE r == RouteToConnection(x, cs)
<1>0. /\ x.named \in AIs \cup {Nowhere}
      /\ x.hits \in [AIs -> 0..2] /\ x.claude \in Clauded
  BY DEF ChatTexts
<1>m. /\ "mention" \in R!Methods /\ "none" \in R!Methods /\ "keywords" \in R!Methods
      /\ "llm" \in R!Methods /\ 100 \in 0..100
  BY DEF R!Methods
<1>1. CASE x.named # Nowhere
  <2>1. x.named \in AIs /\ cs \ {x.named} \in SUBSET AIs BY <1>0, <1>1
  <2>2. r = Route("mention", 100, <<Choice(x.named)>> \o Listed(cs \ {x.named}),
                    x.named)
    BY <1>1 DEF RouteToConnection
  <2>3. Sound(Route("mention", 100, <<Choice(x.named)>> \o Listed(cs \ {x.named}),
                      x.named))
    BY <1>m, <2>1, Certain
  <2>. QED BY <2>2, <2>3
<1>2. CASE x.named = Nowhere /\ cs = {}
  <2>1. r = Route("none", 0, Listed(AIs), Nowhere)
    BY <1>2 DEF RouteToConnection
  <2>2. Listed(AIs) \in R!Options BY ListedTyped
  <2>3. Sound(Route("none", 0, Listed(AIs), Nowhere)) BY <1>m, <2>2, Undecided
  <2>. QED BY <2>1, <2>3
<1>3. CASE x.named = Nowhere /\ Cardinality(cs) = 1
  <2>1. IsFiniteSet(cs) BY <1>0, FewAIs
  <2>2. PICK a : cs = {a} BY <1>3, <2>1, FS_Singleton
  <2>3. a \in AIs /\ (CHOOSE b \in cs : TRUE) = a BY <1>0, <2>2
  <2>4. r = Route("only", 85, Listed(cs), CHOOSE a1 \in cs : TRUE)
    BY <1>3, <2>2 DEF RouteToConnection
  <2>5. Sound(Route("only", 85, Listed({a}), a)) BY <2>3, Alone
  <2>. QED BY <2>2, <2>3, <2>4, <2>5
<1>4. CASE /\ x.named = Nowhere /\ cs # {} /\ Cardinality(cs) # 1
           /\ x.claude = Silent
  <2>1. r = KeywordConnection(x, cs) BY <1>4 DEF RouteToConnection
  <2>2. CASE \E a \in Best(x, cs) : x.hits[a] > 0
    <3>. DEFINE a == CHOOSE b \in Best(x, cs) : TRUE
                c == Min2(90, 55 + 12 * x.hits[a])
    <3>1. a \in Best(x, cs) BY <2>2
    <3>2. a \in cs BY <3>1 DEF Best
    <3>3. a \in AIs BY <1>0, <3>2
    <3>4. x.hits[a] \in 0..2 BY <1>0, <3>3
    <3>5. r = Route("keywords", c, <<Choice(a)>> \o Listed(cs \ {a}), a)
      BY <2>1, <2>2 DEF KeywordConnection
    <3>. HIDE DEF a
    <3>6. c \in 0..100 BY <3>4 DEF Min2
    <3>. HIDE DEF c
    <3>7. cs \ {a} \in SUBSET AIs BY <1>0
    <3>8. Sound(Route("keywords", c, <<Choice(a)>> \o Listed(cs \ {a}), a))
      BY <1>m, <3>3, <3>6, <3>7, Certain
    <3>. QED BY <3>5, <3>8
  <2>3. CASE ~ \E a \in Best(x, cs) : x.hits[a] > 0
    <3>1. r = Route("none", 0, Listed(cs), Nowhere)
      BY <2>1, <2>3 DEF KeywordConnection
    <3>2. Listed(cs) \in R!Options BY <1>0, ListedTyped
    <3>3. Sound(Route("none", 0, Listed(cs), Nowhere)) BY <1>m, <3>2, Undecided
    <3>. QED BY <3>1, <3>3
  <2>. QED BY <2>2, <2>3
<1>5. CASE /\ x.named = Nowhere /\ cs # {} /\ Cardinality(cs) # 1
           /\ x.claude # Silent
  <2>1. r = ClaudeConnection(x, cs) BY <1>5 DEF RouteToConnection
  <2>. DEFINE a == x.claude[1]
              c == x.claude[2]
  <2>2. c \in 0..100 BY <1>0, <1>5 DEF Clauded, Silent, Threshold
  <2>3. CASE a \in cs
    <3>1. r = Route("llm", c, <<Choice(a)>> \o Listed(cs \ {a}), a)
      BY <2>1, <2>3 DEF ClaudeConnection
    <3>2. a \in AIs BY <1>0, <2>3
    <3>3. cs \ {a} \in SUBSET AIs BY <1>0
    <3>. HIDE DEF a, c
    <3>4. Sound(Route("llm", c, <<Choice(a)>> \o Listed(cs \ {a}), a))
      BY <1>m, <2>2, <3>2, <3>3, Certain
    <3>. QED BY <3>1, <3>4
  <2>4. CASE a \notin cs
    <3>1. r = Route("llm", 0, Listed(cs), Nowhere)
      BY <2>1, <2>4 DEF ClaudeConnection
    <3>2. Listed(cs) \in R!Options BY <1>0, ListedTyped
    <3>3. Sound(Route("llm", 0, Listed(cs), Nowhere)) BY <1>m, <3>2, Undecided
    <3>. QED BY <3>1, <3>3
  <2>. QED BY <2>3, <2>4
<1>. QED BY <1>1, <1>2, <1>3, <1>4, <1>5

----------------------------------------------------------------------------
(* The router among tasks *)

LEMMA TasksTyped ==
  /\ IsFiniteSet(Tasks) /\ Tasks \in SUBSET Nat
  /\ \A t \in Tasks : PlatformOf[t] \in AIs
<1>1. PlatformOf \in Seq(AIs) BY RoutingAssumption DEF RouterLimits
<1>2. Len(PlatformOf) \in Nat /\ DOMAIN PlatformOf = 1..Len(PlatformOf) BY <1>1
<1>3. \A t \in DOMAIN PlatformOf : PlatformOf[t] \in AIs BY <1>1
<1>4. IsFiniteSet(1..Len(PlatformOf)) BY <1>2, FS_Interval
<1>. QED BY <1>2, <1>3, <1>4 DEF Tasks

LEMMA TaskTextTyped ==
  ASSUME NEW x \in TaskTexts
  PROVE  /\ \A t \in Tasks : x.score[t] \in Nat
         /\ x.mention \in Tasks \cup {Nowhere} /\ x.claude \in Clauded
         
<1>1. /\ x.score \in [Tasks -> Scores] /\ x.mention \in Tasks \cup {Nowhere}
      /\ x.claude \in Clauded 
  BY DEF TaskTexts
<1>2. Scores \subseteq Nat BY RoutingAssumption DEF RouterLimits
<1>. QED BY <1>1, <1>2

LEMMA RankedIsOne ==
  ASSUME NEW x \in TaskTexts, NEW ts \in SUBSET Tasks, NEW i \in 1..Cardinality(ts)
  PROVE  /\ Ranked(x, ts, i) \in ts
         /\ i = 1 => \A u \in ts : ~ Beats(x, u, Ranked(x, ts, i))
<1>. DEFINE T == {p \in ts \X ts : Beats(x, p[1], p[2])}
            Ahead(t) == {u \in ts : Beats(x, u, t)}
<1>1. \A t \in ts : t \in Nat /\ x.score[t] \in Nat
  BY TasksTyped, TaskTextTyped
<1>2. T \in SUBSET (ts \X ts) /\ \A a, b \in ts : <<a, b>> \in T <=> Beats(x, a, b)
  OBVIOUS
<1>3. IsFiniteSet(ts) BY TasksTyped, FS_Subset
<1>4. \A t \in ts : Place(T, ts, t) = Cardinality(Ahead(t)) + 1
  <2>. SUFFICES ASSUME NEW t \in ts
                PROVE  Place(T, ts, t) = Cardinality(Ahead(t)) + 1
    OBVIOUS
  <2>1. {u \in ts : <<u, t>> \in T} = Ahead(t) BY <1>2
  <2>. QED BY <2>1 DEF Place
<1>. HIDE DEF T
<1>5. InOrder(T, ts)
  <2>1. \A a \in ts : ~ Beats(x, a, a) BY <1>1 DEF Beats
  <2>2. \A a, b \in ts : a # b => Beats(x, a, b) \/ Beats(x, b, a) BY <1>1 DEF Beats
  <2>3. \A a, b, c \in ts : Beats(x, a, b) /\ Beats(x, b, c) => Beats(x, a, c)
    BY <1>1 DEF Beats
  <2>. QED BY <1>2, <2>1, <2>2, <2>3 DEF InOrder
<1>6. \E t \in ts : Place(T, ts, t) = i BY <1>3, <1>5, EachPlaceIsTaken
<1>7. \E t \in ts : Cardinality(Ahead(t)) + 1 = i BY <1>4, <1>6
<1>8. Ranked(x, ts, i) = CHOOSE t \in ts : Cardinality(Ahead(t)) + 1 = i BY DEF Ranked
<1>. HIDE DEF Ahead
<1>9. Ranked(x, ts, i) \in ts /\ Cardinality(Ahead(Ranked(x, ts, i))) + 1 = i
  BY <1>7, <1>8
<1>10. ASSUME i = 1 PROVE \A u \in ts : ~ Beats(x, u, Ranked(x, ts, i))
  <2>1. Ahead(Ranked(x, ts, i)) \in SUBSET ts BY DEF Ahead
  <2>2. IsFiniteSet(Ahead(Ranked(x, ts, i))) BY <1>3, <2>1, FS_Subset
  <2>3. Cardinality(Ahead(Ranked(x, ts, i))) \in Nat BY <2>2, FS_CardinalityType
  <2>4. Cardinality(Ahead(Ranked(x, ts, i))) = 0
    <3>1. Cardinality(Ahead(Ranked(x, ts, i))) + 1 = 1 BY <1>9, <1>10
    <3>. QED BY <2>3, <3>1
  <2>5. Ahead(Ranked(x, ts, i)) = {} BY <2>2, <2>4, FS_EmptySet
  <2>. QED BY <2>5 DEF Ahead
<1>. QED BY <1>9, <1>10

LEMMA ShareTyped ==
  ASSUME NEW x \in TaskTexts, NEW t \in Tasks
  PROVE  Share(x, t) \in 0..95 /\ (Doubtful(x, t) => Share(x, t) <= 60)
<1>. DEFINE s == x.score[t]
<1>1. s \in Nat BY TaskTextTyped
<1>2. s <= s BY <1>1
<1>3. Round(100 * s, s + 4) \in 0..100 /\ Round(60 * s, s + 4) \in 0..60
  BY <1>1, <1>2, SharesGrow
<1>4. CASE Doubtful(x, t)
  <2>1. Share(x, t) = Round(60 * s, s + 4) BY <1>4 DEF Share
  <2>. HIDE DEF s
  <2>. QED BY <1>3, <2>1
<1>5. CASE ~ Doubtful(x, t)
  <2>1. Share(x, t) = Min2(95, Round(100 * s, s + 4)) BY <1>5 DEF Share
  <2>. HIDE DEF s
  <2>. QED BY <1>3, <1>5, <2>1 DEF Min2
<1>. QED BY <1>4, <1>5

LEMMA SharesInOrder ==
  ASSUME NEW x \in TaskTexts, NEW t \in Tasks, NEW u \in Tasks,
         x.score[u] <= x.score[t], ~ Doubtful(x, t), ~ Doubtful(x, u)
  PROVE  Share(x, u) <= Share(x, t)
<1>. DEFINE a == x.score[u]
            b == x.score[t]
<1>1. a \in Nat /\ b \in Nat /\ a <= b BY TaskTextTyped
<1>2. b <= b BY <1>1
<1>3. Round(100 * a, a + 4) <= Round(100 * b, b + 4) /\ Round(100 * a, a + 4) \in 0..100
  BY <1>1, SharesGrow
<1>4. Round(100 * b, b + 4) \in 0..100 BY <1>1, <1>2, SharesGrow
<1>5. /\ Share(x, u) = Min2(95, Round(100 * a, a + 4))
      /\ Share(x, t) = Min2(95, Round(100 * b, b + 4))
  BY DEF Share
<1>. HIDE DEF a, b
<1>. QED BY <1>3, <1>4, <1>5 DEF Min2

LEMMA SuggestionTyped ==
  ASSUME NEW t \in Tasks, NEW s \in 0..100
  PROVE  /\ Suggestion(t, s) \in Option
         /\ Suggestion(t, s).to = PlatformOf[t] /\ Suggestion(t, s).score = s
BY TasksTyped DEF Suggestion, Option

LEMMA SuggestionsTyped ==
  ASSUME NEW x \in TaskTexts, NEW ts \in SUBSET Tasks, NEW cap \in 0..100
  PROVE  LET os == Suggestions(x, ts, cap)
             n == Cardinality(ts)
         IN  /\ n \in Nat /\ os \in R!Options /\ Len(os) = n /\ DOMAIN os = 1..n
             /\ \A k \in 1..n :
                  /\ Ranked(x, ts, k) \in Tasks
                  /\ os[k].to = PlatformOf[Ranked(x, ts, k)]
                  /\ os[k].score = Min2(cap, Share(x, Ranked(x, ts, k)))
                  /\ os[k].score <= cap
<1>. DEFINE os == Suggestions(x, ts, cap)
            n == Cardinality(ts)
            One(k) == Suggestion(Ranked(x, ts, k), Min2(cap, Share(x, Ranked(x, ts, k))))
<1>1. IsFiniteSet(ts) /\ n \in Nat BY TasksTyped, FS_Subset, FS_CardinalityType
<1>2. os = [k \in 1..n |-> One(k)] BY DEF Suggestions
<1>3. \A k \in 1..n :
        /\ One(k) \in Option /\ Ranked(x, ts, k) \in Tasks
        /\ One(k).to = PlatformOf[Ranked(x, ts, k)]
        /\ One(k).score = Min2(cap, Share(x, Ranked(x, ts, k))) /\ One(k).score <= cap
  <2>. SUFFICES ASSUME NEW k \in 1..n
                PROVE  /\ One(k) \in Option /\ Ranked(x, ts, k) \in Tasks
                       /\ One(k).to = PlatformOf[Ranked(x, ts, k)]
                       /\ One(k).score = Min2(cap, Share(x, Ranked(x, ts, k)))
                       /\ One(k).score <= cap
    OBVIOUS
  <2>. DEFINE t == Ranked(x, ts, k)
              s == Min2(cap, Share(x, t))
  <2>1. t \in Tasks BY RankedIsOne
  <2>. HIDE DEF t
  <2>2. Share(x, t) \in 0..95 BY <2>1, ShareTyped
  <2>3. s \in 0..100 /\ s <= cap BY <2>2 DEF Min2
  <2>. HIDE DEF s
  <2>4. /\ Suggestion(t, s) \in Option
        /\ Suggestion(t, s).to = PlatformOf[t] /\ Suggestion(t, s).score = s
    BY <2>1, <2>3, SuggestionTyped
  <2>. QED BY <2>1, <2>3, <2>4 DEF t, s
<1>. HIDE DEF n, One
<1>4. os \in [1..n -> Option] BY <1>2, <1>3
<1>5. os \in Seq(Option) /\ Len(os) = n /\ DOMAIN os = 1..n BY <1>1, <1>4, IsList
<1>6. \A k \in 1..n : os[k] = One(k) BY <1>2
<1>7. os \in R!Options BY <1>5 DEF R!Options, Option
<1>. HIDE DEF os
<1>8. \A k \in 1..n : /\ Ranked(x, ts, k) \in Tasks
                      /\ os[k].to = PlatformOf[Ranked(x, ts, k)]
                      /\ os[k].score = Min2(cap, Share(x, Ranked(x, ts, k)))
                      /\ os[k].score <= cap
  BY <1>3, <1>6
<1>. QED BY <1>1, <1>5, <1>7, <1>8 DEF os, n

\* A suggestion ahead of a list that scores no more than some number.
LEMMA SuggestionFirst ==
  ASSUME NEW x \in TaskTexts, NEW t \in Tasks, NEW s \in 0..100,
         NEW ts \in SUBSET Tasks, NEW cap \in 0..100
  PROVE  /\ <<Suggestion(t, s)>> \o Suggestions(x, ts, cap) \in R!Options
         /\ cap <= s => FirstIsBest(<<Suggestion(t, s)>> \o Suggestions(x, ts, cap), PlatformOf[t])
<1>. DEFINE q == Suggestions(x, ts, cap)
            n == Cardinality(ts)
            os == <<Suggestion(t, s)>> \o q
<1>1. /\ n \in Nat /\ q \in R!Options /\ Len(q) = n
      /\ \A k \in 1..n : q[k].score <= cap
  BY SuggestionsTyped
<1>2. /\ Suggestion(t, s) \in Option
      /\ Suggestion(t, s).to = PlatformOf[t] /\ Suggestion(t, s).score = s
  BY SuggestionTyped
<1>. HIDE DEF q, n
<1>3. /\ os \in R!Options /\ Len(os) = n + 1 /\ os[1] = Suggestion(t, s)
      /\ \A k \in 2..(n + 1) : os[k] = q[k - 1]
  BY <1>1, <1>2, OneAhead
<1>. HIDE DEF os
<1>4. DOMAIN os = 1..(n + 1) BY <1>1, <1>3 DEF R!Options
<1>5. os[1].to = PlatformOf[t] /\ os[1].score = s BY <1>2, <1>3
<1>6. ASSUME cap <= s PROVE \A k \in 1..(n + 1) : os[k].score <= s
  <2>. SUFFICES ASSUME NEW k \in 1..(n + 1) PROVE os[k].score <= s OBVIOUS
  <2>1. CASE k = 1 BY <1>5, <2>1
  <2>2. CASE k # 1
    <3>1. k \in 2..(n + 1) /\ k - 1 \in 1..n BY <1>1, <2>2
    <3>2. os[k] = q[k - 1] /\ q[k - 1].score <= cap BY <1>1, <1>3, <3>1
    <3>0. os \in Seq(Option) BY <1>3 DEF R!Options, Option
    <3>3. os[k] \in Option BY <1>1, <1>3, <3>0
    <3>4. os[k].score \in 0..100 BY <3>3 DEF Option
    <3>. QED BY <1>6, <3>2, <3>4
  <2>. QED BY <2>1, <2>2
<1>7. cap <= s => FirstIsBest(os, PlatformOf[t])
  <2>. SUFFICES ASSUME cap <= s PROVE FirstIsBest(os, PlatformOf[t]) OBVIOUS
  <2>1. \A k \in DOMAIN os : os[k].score <= os[1].score BY <1>4, <1>5, <1>6
  <2>. QED BY <1>5, <2>1 DEF FirstIsBest
<1>. QED BY <1>3, <1>7 DEF os, q

LEMMA MessageSound ==
  ASSUME NEW x \in TaskTexts
  PROVE  Sound(RouteMessage(x))
<1>. DEFINE r == RouteMessage(x)
<1>0. /\ x.mention \in Tasks \cup {Nowhere} /\ x.claude \in Clauded
      /\ Scored(x) \in SUBSET Tasks
  BY TaskTextTyped DEF Scored
<1>m. /\ "mention" \in R!Methods /\ "none" \in R!Methods /\ "keywords" \in R!Methods
      /\ "llm" \in R!Methods /\ 100 \in 0..100 /\ 95 \in 0..100 /\ 35 \in 0..100 /\ 95 <= 100
  BY DEF R!Methods
<1>t. \A t \in Tasks : /\ PlatformOf[t] \in AIs /\ PlatformOf[t] # Nowhere
                         /\ Scored(x) \ {t} \in SUBSET Tasks
  <2>1. \A a \in AIs : a # Nowhere BY FewAIs DEF Nowhere
  <2>. QED BY <1>0, <2>1, TasksTyped
<1>1. CASE x.mention # Nowhere
  <2>. DEFINE t == x.mention
              c == 100
              cap == 95
              os == <<Suggestion(t, c)>> \o Suggestions(x, Scored(x) \ {t}, cap)
  <2>1. t \in Tasks /\ c \in 0..100 /\ cap \in 0..100 /\ cap <= c BY <1>0, <1>1
  <2>2. r = Route("mention", c, os, PlatformOf[t])
    BY <1>1 DEF RouteMessage, Rest
  <2>. HIDE DEF t, c, cap
  <2>3. os \in R!Options /\ FirstIsBest(os, PlatformOf[t])
    <3>1. Scored(x) \ {t} \in SUBSET Tasks BY <1>t, <2>1
    <3>. QED BY <2>1, <3>1, SuggestionFirst
  <2>. HIDE DEF os
  <2>4. Sound(Route("mention", c, os, PlatformOf[t]))
    BY <1>m, <1>t, <2>1, <2>3, SoundRoute
  <2>. QED BY <2>2, <2>4
<1>2. CASE x.mention = Nowhere /\ x.claude # Silent
  <2>. DEFINE t == x.claude[1]
              c == x.claude[2]
              os == <<Suggestion(t, c)>> \o Suggestions(x, Scored(x) \ {t}, 35)
  <2>1. c \in {20, Threshold} BY <1>0, <1>2 DEF Clauded
  <2>2. CASE t \in Tasks
    <3>1. r = Route("llm", c, os, PlatformOf[t])
      BY <1>2, <2>2 DEF RouteMessage, Rest
    <3>2. c \in 0..100 /\ (c >= Threshold => 35 <= c) BY <2>1 DEF Threshold
    <3>. HIDE DEF t, c
    <3>3. os \in R!Options /\ (35 <= c => FirstIsBest(os, PlatformOf[t]))
      BY <1>m, <1>t, <2>2, <3>2, SuggestionFirst
    <3>. HIDE DEF os
    <3>4. Sound(Route("llm", c, os, PlatformOf[t]))
      BY <1>m, <1>t, <2>2, <3>2, <3>3, SoundRoute
    <3>. QED BY <3>1, <3>4
  <2>3. CASE t \notin Tasks
    <3>. DEFINE q == Suggestions(x, Scored(x) \ {t}, 35)
    <3>1. r = Route("llm", 0, q, Nowhere)
      BY <1>2, <2>3 DEF RouteMessage, Rest
    <3>. HIDE DEF t
    <3>2. Scored(x) \ {t} \in SUBSET Tasks BY <1>0
    <3>3. q \in R!Options BY <1>m, <3>2, SuggestionsTyped
    <3>. HIDE DEF q
    <3>4. Sound(Route("llm", 0, q, Nowhere)) BY <1>m, <3>3, Undecided
    <3>. QED BY <3>1, <3>4
  <2>. QED BY <2>2, <2>3
<1>3. CASE x.mention = Nowhere /\ x.claude = Silent /\ Scored(x) # {}
  <2>. DEFINE ts == Scored(x)
              n == Cardinality(ts)
              t == Ranked(x, ts, 1)
              os == Suggestions(x, ts, 95)
  <2>1. r = Route("keywords", Share(x, t), os, PlatformOf[t])
    BY <1>3 DEF RouteMessage
  <2>2. ts \in SUBSET Tasks /\ ts # {} BY <1>0, <1>3
  <2>3. \A u \in ts : /\ u \in Nat /\ x.score[u] \in Nat
                      /\ (Doubtful(x, u) => \A v \in ts \ {u} : Beats(x, u, v))
    BY <2>2, TasksTyped, TaskTextTyped DEF Doubtful
  <2>. HIDE DEF ts
  <2>4. IsFiniteSet(ts) /\ n \in Nat /\ n # 0
    BY <2>2, TasksTyped, FS_Subset, FS_CardinalityType, FS_EmptySet
  <2>5. 1 \in 1..n BY <2>4
  <2>6. t \in ts /\ \A u \in ts : ~ Beats(x, u, t) BY <2>2, <2>5, RankedIsOne
  <2>7. /\ n \in Nat /\ os \in R!Options /\ Len(os) = n /\ DOMAIN os = 1..n
        /\ \A k \in 1..n :
             /\ Ranked(x, ts, k) \in Tasks
             /\ os[k].to = PlatformOf[Ranked(x, ts, k)]
             /\ os[k].score = Min2(95, Share(x, Ranked(x, ts, k)))
             /\ os[k].score <= 95
    BY <1>m, <2>2, SuggestionsTyped
  <2>8. \A k \in 1..n : Ranked(x, ts, k) \in ts BY <2>2, RankedIsOne
  <2>. HIDE DEF n, os
  <2>9. os[1].to = PlatformOf[t] BY <2>5, <2>7
  <2>10. t \in Tasks /\ Share(x, t) \in 0..95 /\ (Doubtful(x, t) => Share(x, t) <= 60)
    BY <2>2, <2>6, ShareTyped
  <2>11. \A k \in 1..n : os[k].score = Share(x, Ranked(x, ts, k))
    <3>. SUFFICES ASSUME NEW k \in 1..n PROVE os[k].score = Share(x, Ranked(x, ts, k))
      OBVIOUS
    <3>1. Ranked(x, ts, k) \in Tasks /\ os[k].score = Min2(95, Share(x, Ranked(x, ts, k)))
      BY <2>7
    <3>2. Share(x, Ranked(x, ts, k)) \in 0..95 BY <3>1, ShareTyped
    <3>. QED BY <3>1, <3>2 DEF Min2
  <2>12. ASSUME Share(x, t) >= Threshold PROVE FirstIsBest(os, PlatformOf[t])
    <3>1. ~ Doubtful(x, t) BY <2>10, <2>12 DEF Threshold
    <3>2. \A u \in ts : Share(x, u) <= Share(x, t)
      <4>. SUFFICES ASSUME NEW u \in ts, u # t PROVE Share(x, u) <= Share(x, t)
        BY <2>10
      <4>1. x.score[u] <= x.score[t] /\ Beats(x, t, u) /\ ~ Beats(x, u, t)
        <5>. HIDE DEF t
        <5>1. ~ Beats(x, u, t) BY <2>6
        <5>2. x.score[u] \in Nat /\ x.score[t] \in Nat /\ u \in Nat /\ t \in Nat
          BY <2>3, <2>6
        <5>. QED BY <5>1, <5>2 DEF Beats
      <4>2. ~ Doubtful(x, u) BY <2>3, <2>6, <4>1
      <4>3. u \in Tasks BY <2>2
      <4>. HIDE DEF t
      <4>. QED BY <2>10, <3>1, <4>1, <4>2, <4>3, SharesInOrder
    <3>. HIDE DEF t
    <3>3. \A k \in 1..n : os[k].score <= Share(x, t) BY <2>8, <2>11, <3>2
    <3>4. os[1].score = Share(x, t) BY <2>5, <2>11 DEF t
    <3>5. \A k \in DOMAIN os : os[k].score <= os[1].score BY <2>7, <3>3, <3>4
    <3>. QED BY <2>9, <3>5 DEF FirstIsBest
  <2>. HIDE DEF t
  <2>13. Share(x, t) \in 0..100 BY <2>10
  <2>14. Sound(Route("keywords", Share(x, t), os, PlatformOf[t]))
    BY <1>m, <1>t, <2>7, <2>10, <2>12, <2>13, SoundRoute
  <2>. QED BY <2>1, <2>14
<1>4. CASE x.mention = Nowhere /\ x.claude = Silent /\ Scored(x) = {}
  <2>1. r = Route("none", 0, <<>>, Nowhere) BY <1>4 DEF RouteMessage
  <2>2. <<>> \in R!Options BY DEF R!Options
  <2>3. Sound(Route("none", 0, <<>>, Nowhere)) BY <1>m, <2>2, Undecided
  <2>. QED BY <2>1, <2>3
<1>. QED BY <1>1, <1>2, <1>3, <1>4

----------------------------------------------------------------------------
(* What the sweep reads in a row *)

IsTop(os, i) ==
  \A k \in DOMAIN os :
    os[k].score < os[i].score \/ (os[k].score = os[i].score /\ i <= k)

LEMMA Shortfalls ==
  ASSUME NEW x \in 0..100, NEW y \in 0..100
  PROVE  100 - x \in Nat /\ (100 - x <= 100 - y => y < x \/ y = x)
OBVIOUS

LEMMA TopExists ==
  ASSUME NEW os \in R!Options, os # <<>>
  PROVE  \E i \in DOMAIN os : IsTop(os, i)
<1>. DEFINE n == Len(os)
            D == 1..n
            score(k) == os[k].score
            Shorts == {100 - score(k) : k \in D}
<1>1. n \in Nat /\ n # 0 /\ DOMAIN os = D BY DEF R!Options
<1>2. \A k \in D : score(k) \in 0..100
  <2>0. os \in Seq(Option) BY DEF R!Options, Option
  <2>1. \A k \in D : os[k] \in Option BY <2>0
  <2>. QED BY <2>1 DEF Option
<1>. HIDE DEF n, score
<1>3. \A k \in D : 100 - score(k) \in Nat BY <1>2, Shortfalls
<1>4. Shorts \in SUBSET Nat /\ Shorts # {} BY <1>1, <1>3
<1>5. PICK m \in Shorts : \A x \in Shorts : m <= x BY <1>4, Least
<1>6. PICK j \in D : m = 100 - score(j) BY <1>5
<1>7. \A k \in D : m <= 100 - score(k) BY <1>5
<1>. DEFINE I == {k \in D : 100 - score(k) = m}
<1>8. I \in SUBSET Nat /\ I # {} BY <1>1, <1>6
<1>9. PICK i \in I : \A k \in I : i <= k BY <1>8, Least
<1>10. i \in D /\ 100 - score(i) = m /\ \A k \in D : 100 - score(k) = m => i <= k BY <1>9
<1>. HIDE DEF Shorts, I
<1>11. \A k \in D : score(k) < score(i) \/ (score(k) = score(i) /\ i <= k)
  <2>. SUFFICES ASSUME NEW k \in D
                PROVE  score(k) < score(i) \/ (score(k) = score(i) /\ i <= k)
    OBVIOUS
  <2>1. m <= 100 - score(k) /\ (100 - score(k) = m => i <= k) BY <1>7, <1>10
  <2>2. score(k) \in 0..100 /\ score(i) \in 0..100 BY <1>2, <1>10
  <2>3. score(k) < score(i) \/ score(k) = score(i) BY <1>10, <2>1, <2>2, Shortfalls
  <2>4. score(k) = score(i) => i <= k BY <1>10, <2>1
  <2>. QED BY <2>3, <2>4, Zenon
<1>. QED BY <1>1, <1>10, <1>11 DEF IsTop, score

LEMMA TopIsSuggested ==
  ASSUME NEW os \in R!Options
  PROVE  /\ R!TopSuggested(os) \in AIs \cup {Nowhere}
         /\ \A to : FirstIsBest(os, to) /\ R!TopSuggested(os) # Nowhere => R!TopSuggested(os) = to
<1>1. CASE os = <<>>
  BY <1>1 DEF R!TopSuggested
<1>2. CASE os # <<>>
  <2>. DEFINE i == CHOOSE j \in DOMAIN os : IsTop(os, j)
              score(k) == os[k].score
  <2>1. i \in DOMAIN os /\ IsTop(os, i) BY <1>2, TopExists
  <2>2. R!TopSuggested(os) = os[i].to BY <1>2 DEF R!TopSuggested, IsTop
  <2>. HIDE DEF i
  <2>3. /\ Len(os) \in Nat /\ Len(os) # 0 /\ DOMAIN os = 1..Len(os)
    BY <1>2 DEF R!Options
  <2>4. os \in Seq(Option) BY DEF R!Options, Option
  <2>5. \A k \in 1..Len(os) : os[k] \in Option BY <2>4
  <2>6. \A k \in 1..Len(os) : score(k) \in 0..100 BY <2>5 DEF Option
  <2>7. os[i].to \in AIs BY <2>1, <2>3, <2>5 DEF Option
  <2>8. ASSUME NEW to, FirstIsBest(os, to) PROVE os[i].to = to
    <3>1. os[1].to = to /\ \A k \in DOMAIN os : score(k) <= score(1)
      BY <1>2, <2>8 DEF FirstIsBest
    <3>2. 1 \in DOMAIN os BY <2>3
    <3>3. score(1) < score(i) \/ (score(1) = score(i) /\ i <= 1)
      BY <2>1, <3>2 DEF IsTop
    <3>. HIDE DEF score
    <3>4. score(i) <= score(1) BY <2>1, <3>1
    <3>5. score(i) \in 0..100 /\ score(1) \in 0..100 BY <2>1, <2>3, <2>6, <3>2
    <3>6. i <= 1 BY <3>3, <3>4, <3>5
    <3>7. i = 1 BY <2>1, <2>3, <3>6
    <3>. QED BY <3>1, <3>7
  <2>. QED BY <2>2, <2>7, <2>8
<1>. QED BY <1>1, <1>2

----------------------------------------------------------------------------
(* Routes are kept                                                         *)

\* What the router makes of a text is sound, and it was no person's choice.
Routes == {r \in ChatRoutes \cup MessageRoutes : Sound(r) /\ r.method # "manual"}

LEMMA RoutesSound == ChatRoutes \cup MessageRoutes \subseteq Routes
<1>1. ASSUME NEW x \in ChatTexts, NEW cs \in SUBSET AIs PROVE RouteToConnection(x, cs) \in Routes
  <2>1. Sound(RouteToConnection(x, cs)) BY ConnectionSound
  <2>2. RouteToConnection(x, cs).method # "manual"
    BY DEF RouteToConnection, KeywordConnection, ClaudeConnection, Route
  <2>3. RouteToConnection(x, cs) \in ChatRoutes BY DEF ChatRoutes
  <2>. QED BY <2>1, <2>2, <2>3 DEF Routes
<1>2. ASSUME NEW x \in TaskTexts PROVE RouteMessage(x) \in Routes
  <2>1. Sound(RouteMessage(x)) BY MessageSound
  <2>2. RouteMessage(x).method # "manual" BY DEF RouteMessage, Route
  <2>3. RouteMessage(x) \in MessageRoutes BY DEF MessageRoutes
  <2>. QED BY <2>1, <2>2, <2>3 DEF Routes
<1>3. ChatRoutes \subseteq Routes BY <1>1 DEF ChatRoutes
<1>4. MessageRoutes \subseteq Routes BY <1>2 DEF MessageRoutes
<1>. QED BY <1>3, <1>4

\* Before a run has begun the row names no platform.
Unsent == routeRun = "none" => platform = Nowhere
\* The row of a message that has not been delivered tells where it is headed: to its task, or,
\* where it was sent, to the best of its options.
Legible ==
  routeRun = "none" /\ ~aside =>
    /\ task # Nowhere => headed = task
    /\ task = Nowhere /\ R!WasSent => R!TopSuggested(options) \in {Nowhere, headed}
\* So does what the sweep has read of it.
Pending ==
  look.run = "none" /\ ~aside =>
    look.to \in {Nowhere, headed} /\ look.method = method /\ look.confidence = confidence
\* A request that is still to assign has a task for it.
Owing == routeAt = "assign" => owed # Nowhere
RouteInv == R!TypeOK /\ Unsent /\ Legible /\ Pending /\ Owing /\ RouteIsKept

LEMMA RouteInit == R!Init => RouteInv
<1>. SUFFICES ASSUME R!Init PROVE RouteInv OBVIOUS
<1>1. MaxLosses \in Nat BY RoutingAssumption
<1>2. R!TypeOK
  <2>1. <<>> \in R!Options BY DEF R!Options
  <2>2. losses \in 0..MaxLosses /\ attempts \in 0..3 /\ confidence \in 0..100 BY <1>1 DEF R!Init
  <2>3. look \in R!Looks BY DEF R!Init, R!Looks
  <2>. QED BY <2>1, <2>2, <2>3 DEF R!Init, R!TypeOK, R!Methods
<1>3. Legible BY DEF R!Init, Legible, R!WasSent, Threshold
<1>4. Pending BY DEF R!Init, Pending, R!NoLook
<1>. QED BY <1>2, <1>3, <1>4 DEF R!Init, RouteInv, Unsent, Owing, RouteIsKept, R!RouteIsKept

LEMMA FaultTyped ==
  ASSUME R!TypeOK, R!Fault PROVE losses' \in 0..MaxLosses
<1>1. MaxLosses \in Nat BY RoutingAssumption
<1>. QED BY <1>1 DEF R!TypeOK, R!Fault

\* What a decision writes.
Written ==
  /\ method' \in R!Methods /\ confidence' \in 0..100 /\ options' \in R!Options
  /\ attempts' \in 0..3 /\ headed' \in AIs \cup {Nowhere}
  /\ resent' \in AIs \cup {Nowhere} /\ aside' \in BOOLEAN
  /\ Legible' /\ Pending' /\ RouteIsKept'

\* Whoever decides: nothing has been sent again since, and either the row does not tell or
\* the sweep has not read it.
LEMMA HeadsSound ==
  ASSUME NEW to \in AIs \cup {Nowhere}, NEW t \in AIs \cup {Nowhere}, NEW lost \in BOOLEAN,
         R!Heads(to, t, lost), look' = look
  PROVE  /\ headed' = to /\ resent' = Nowhere /\ aside' \in BOOLEAN
         /\ ~aside' => ~lost /\ t \in {Nowhere, to} /\ look = R!NoLook
         /\ Pending' /\ RouteIsKept'
<1>1. headed' = to /\ resent' = Nowhere /\ aside' = (lost \/ t \notin {Nowhere, to} \/ look # R!NoLook)
  BY DEF R!Heads
<1>2. ~aside' => ~lost /\ t \in {Nowhere, to} /\ look = R!NoLook BY <1>1, Zenon
<1>3. aside' \in BOOLEAN BY <1>1, Zenon
<1>4. Pending'
  <2>1. R!NoLook.run # "none" BY DEF R!NoLook
  <2>. QED BY <1>2, <2>1 DEF Pending
<1>5. RouteIsKept' BY <1>1 DEF RouteIsKept, R!RouteIsKept
<1>. QED BY <1>1, <1>2, <1>3, <1>4, <1>5

\* A person's choice is written.
LEMMA DecidedSound ==
  ASSUME RouteInv, NEW a \in AIs, NEW how \in {"manual", "follow-up"}, R!Decided(how, a),
         look' = look, task' = task, routeRun' = routeRun
  PROVE  Written
<1>. DEFINE lost == R!TopSuggested(options) \notin {Nowhere, a}
<1>0. R!TypeOK BY DEF RouteInv
<1>1. /\ method' = how /\ confidence' = 100 /\ attempts' = 0 /\ options' = options
      /\ R!Heads(a, task, lost)
  BY DEF R!Decided
<1>2. lost \in BOOLEAN OBVIOUS
<1>. HIDE DEF lost
<1>3. task \in AIs \cup {Nowhere} /\ a \in AIs \cup {Nowhere} BY <1>0 DEF R!TypeOK
<1>4. /\ headed' = a /\ resent' = Nowhere /\ aside' \in BOOLEAN
      /\ ~aside' => ~lost /\ task \in {Nowhere, a} /\ look = R!NoLook
      /\ Pending' /\ RouteIsKept'
  BY <1>1, <1>2, <1>3, HeadsSound
<1>5. Legible'
  <2>. SUFFICES ASSUME ~aside'
                PROVE  /\ task' # Nowhere => headed' = task'
                       /\ R!TopSuggested(options') \in {Nowhere, headed'}
    BY DEF Legible
  <2>1. ~lost /\ task \in {Nowhere, a} BY <1>4
  <2>. QED BY <1>1, <1>4, <2>1 DEF lost
<1>6. options' \in R!Options BY <1>0, <1>1 DEF R!TypeOK
<1>. QED BY <1>1, <1>3, <1>4, <1>5, <1>6 DEF Written, R!Methods

\* A choice of the router is written.
LEMMA RoutedSound ==
  ASSUME NEW r \in Routes, NEW t \in AIs \cup {Nowhere}, NEW ready \in BOOLEAN,
         R!Routed(r, t, ready), look' = look, task' = t
  PROVE  Written
<1>. DEFINE to == IF ready THEN r.to ELSE Nowhere
            lost == ~ready /\ r.confidence >= Threshold
<1>0. Sound(r) /\ r.method # "manual" BY DEF Routes
<1>1. /\ method' = r.method /\ confidence' = r.confidence /\ options' = r.options
      /\ attempts' = 0 /\ R!Heads(to, t, lost)
  BY DEF R!Routed
<1>2. lost \in BOOLEAN /\ to \in AIs \cup {Nowhere} BY <1>0 DEF Sound
<1>3. /\ headed' = to /\ resent' = Nowhere /\ aside' \in BOOLEAN
      /\ ~aside' => ~lost /\ t \in {Nowhere, to} /\ look = R!NoLook
      /\ Pending' /\ RouteIsKept'
  <2>. HIDE DEF to, lost
  <2>. QED BY <1>1, <1>2, HeadsSound
<1>4. Legible'
  <2>. SUFFICES ASSUME ~aside'
                PROVE  /\ task' # Nowhere => headed' = task'
                       /\ (method' = "manual" \/ confidence' >= Threshold)
                            => R!TopSuggested(options') \in {Nowhere, headed'}
    BY DEF Legible, R!WasSent
  <2>1. ~lost /\ t \in {Nowhere, to} BY <1>3
  <2>2. task' # Nowhere => headed' = task' BY <1>3, <2>1
  <2>3. ASSUME method' = "manual" \/ confidence' >= Threshold
        PROVE  R!TopSuggested(options') \in {Nowhere, headed'}
    <3>1. r.confidence >= Threshold BY <1>0, <1>1, <2>3
    <3>2. ready /\ to = r.to BY <2>1, <3>1
    <3>3. r.options \in R!Options /\ FirstIsBest(r.options, r.to) BY <1>0, <3>1 DEF Sound
    <3>4. R!TopSuggested(r.options) # Nowhere => R!TopSuggested(r.options) = r.to
      BY <3>3, TopIsSuggested
    <3>. QED BY <1>1, <1>3, <3>2, <3>4
  <2>. QED BY <2>2, <2>3
<1>. QED BY <1>0, <1>1, <1>2, <1>3, <1>4 DEF Written, Sound

LEMMA JobTyped ==
  ASSUME NEW a \in AIs \cup {Nowhere}
  PROVE  /\ R!ChatJob(a) \in [kind : {"chat", "task"}, to : AIs \cup {Nowhere}]
         /\ R!TaskJob \in [kind : {"chat", "task"}, to : AIs \cup {Nowhere}]
BY DEF R!ChatJob, R!TaskJob

\* What the sweep has read is typed.
LEMMA LookTyped ==
  ASSUME R!TypeOK, look.run = "none"
  PROVE  /\ look.kind \in {"chat", "task"} /\ look.to \in AIs \cup {Nowhere}
         /\ look.method \in R!Methods /\ look.confidence \in 0..100 /\ look.attempts \in 0..3
BY DEF R!TypeOK, R!Looks, R!NoLook

\* Where the decision and what the sweep has read of it stand, and a run may only begin.
LEMMA Untouched ==
  ASSUME RouteInv, UNCHANGED <<method, confidence, options, headed, resent, aside>>,
         look' \in {look, R!NoLook}, routeRun' # "none" \/ UNCHANGED <<platform, task, routeRun>>
  PROVE  Unsent' /\ Legible' /\ Pending' /\ RouteIsKept'
<1>1. Unsent' BY DEF RouteInv, Unsent
<1>2. Legible' BY DEF RouteInv, Legible, R!WasSent
<1>3. Pending' BY DEF RouteInv, Pending, R!NoLook
<1>4. RouteIsKept' BY DEF RouteInv, RouteIsKept, R!RouteIsKept
<1>. QED BY <1>1, <1>2, <1>3, <1>4

LEMMA PostStep == RouteInv /\ R!Post => RouteInv'
<1>. SUFFICES ASSUME RouteInv, R!Post PROVE RouteInv' OBVIOUS
<1>1. R!TypeOK' BY DEF RouteInv, R!TypeOK, R!Post, R!routing, R!history
<1>2. Unsent' /\ Legible' /\ Pending' /\ RouteIsKept'
  BY Untouched DEF R!Post, R!routing, R!history
<1>3. Owing' BY DEF R!Post, Owing
<1>. QED BY <1>1, <1>2, <1>3 DEF RouteInv

LEMMA DecideChatStep == RouteInv /\ R!DecideChat => RouteInv'
<1>. SUFFICES ASSUME RouteInv, R!DecideChat PROVE RouteInv' OBVIOUS
<1>0. /\ routeAt' = "over"
      /\ UNCHANGED <<owed, platform, task, rowStatus, routeRun, provider, look, losses>>
  BY DEF R!DecideChat
<1>t. R!TypeOK /\ task \in AIs \cup {Nowhere} /\ options \in R!Options
  BY DEF RouteInv, R!TypeOK
<1>. DEFINE Joined == \E q \in SUBSET {R!ChatJob(a) : a \in AIs \cup {Nowhere}} :
                        routeJobs' = routeJobs \cup q
<1>1. Written /\ Joined
  <2>1. ASSUME NEW a \in AIs, NEW how \in {"manual", "follow-up"}, R!Decided(how, a),
               routeJobs' = routeJobs \cup {R!ChatJob(a)}
        PROVE  Written /\ Joined
    <3>1. {R!ChatJob(a)} \in SUBSET {R!ChatJob(b) : b \in AIs \cup {Nowhere}} OBVIOUS
    <3>. QED BY <1>0, <1>t, <2>1, <3>1, DecidedSound
  <2>2. ASSUME NEW r \in ChatRoutes, NEW ready \in BOOLEAN, R!Routed(r, task, ready),
               routeJobs' = routeJobs \cup (IF ready THEN {R!ChatJob(r.to)} ELSE {})
        PROVE  Written /\ Joined
    <3>1. r \in Routes BY RoutesSound
    <3>2. r.to \in AIs \cup {Nowhere} BY <3>1 DEF Routes, Sound
    <3>3. (IF ready THEN {R!ChatJob(r.to)} ELSE {}) \in SUBSET {R!ChatJob(b) : b \in AIs \cup {Nowhere}}
      BY <3>2
    <3>. QED BY <1>0, <1>t, <2>2, <3>1, <3>3, RoutedSound
  <2>3. \/ \E a \in AIs, how \in {"manual", "follow-up"} :
             R!Decided(how, a) /\ routeJobs' = routeJobs \cup {R!ChatJob(a)}
        \/ \E r \in ChatRoutes, ready \in BOOLEAN :
             R!Routed(r, task, ready)
             /\ routeJobs' = routeJobs \cup (IF ready THEN {R!ChatJob(r.to)} ELSE {})
    BY DEF R!DecideChat
  <2>. QED BY <2>1, <2>2, <2>3
<1>2. routeJobs' \subseteq [kind : {"chat", "task"}, to : AIs \cup {Nowhere}]
  <2>1. routeJobs \subseteq [kind : {"chat", "task"}, to : AIs \cup {Nowhere}]
    BY <1>t DEF R!TypeOK
  <2>. QED BY <1>1, <2>1, JobTyped
<1>3. R!TypeOK' BY <1>0, <1>1, <1>2, <1>t DEF Written, R!TypeOK
<1>4. Unsent' /\ Owing' BY <1>0 DEF RouteInv, Unsent, Owing
<1>. QED BY <1>1, <1>3, <1>4 DEF Written, RouteInv

LEMMA DecideMessageStep == RouteInv /\ R!DecideMessage => RouteInv'
<1>. SUFFICES ASSUME RouteInv, R!DecideMessage PROVE RouteInv' OBVIOUS
<1>0. UNCHANGED <<platform, task, rowStatus, routeRun, provider, routeJobs, look, losses>>
  BY DEF R!DecideMessage
<1>t. R!TypeOK /\ task \in AIs \cup {Nowhere} /\ options \in R!Options
  BY DEF RouteInv, R!TypeOK
<1>. DEFINE Goes == \/ routeAt' = "assign" /\ owed' \in AIs \cup {Nowhere} /\ owed' # Nowhere
                    \/ routeAt' = "over" /\ owed' = owed
<1>1. Written /\ Goes
  <2>1. ASSUME NEW a \in AIs, R!Decided("manual", a), routeAt' = "assign", owed' = a
        PROVE  Written /\ Goes
    <3>1. a # Nowhere BY FewAIs DEF Nowhere
    <3>. QED BY <1>0, <1>t, <2>1, <3>1, DecidedSound
  <2>2. ASSUME NEW r \in MessageRoutes, NEW ready \in BOOLEAN, R!Routed(r, task, ready),
               ready => r.to # Nowhere,
               IF ready THEN routeAt' = "assign" /\ owed' = r.to ELSE routeAt' = "over" /\ owed' = owed
        PROVE  Written /\ Goes
    <3>1. r \in Routes BY RoutesSound
    <3>2. r.to \in AIs \cup {Nowhere} BY <3>1 DEF Routes, Sound
    <3>. QED BY <1>0, <1>t, <2>2, <3>1, <3>2, RoutedSound
  <2>3. \/ \E a \in AIs : R!Decided("manual", a) /\ routeAt' = "assign" /\ owed' = a
        \/ \E r \in MessageRoutes, ready \in BOOLEAN :
             /\ R!Routed(r, task, ready) /\ (ready => r.to # Nowhere)
             /\ IF ready THEN routeAt' = "assign" /\ owed' = r.to
                        ELSE routeAt' = "over" /\ owed' = owed
    BY DEF R!DecideMessage
  <2>. QED BY <2>1, <2>2, <2>3
<1>2. R!TypeOK' BY <1>0, <1>1, <1>t DEF Written, R!TypeOK
<1>3. Unsent' /\ Owing' BY <1>0, <1>1 DEF RouteInv, Unsent, Owing
<1>. QED BY <1>1, <1>2, <1>3 DEF Written, RouteInv

\* A task is written down.
LEMMA AssignedSound ==
  ASSUME RouteInv, NEW a \in AIs, R!Assigned(a), losses' \in 0..MaxLosses,
         owed' \in AIs \cup {Nowhere},
         routeAt' = "over" \/ (routeAt' = routeAt /\ owed' = owed)
  PROVE  RouteInv'
<1>0. R!TypeOK BY DEF RouteInv
<1>1. /\ task' = a /\ rowStatus' = "assigned" /\ routeJobs' = routeJobs \cup {R!TaskJob}
      /\ R!Heads(a, a, FALSE)
      /\ UNCHANGED <<method, confidence, options, attempts, platform, routeRun, provider, look>>
  BY DEF R!Assigned, R!routing
<1>2. a \in AIs \cup {Nowhere} /\ a # Nowhere /\ FALSE \in BOOLEAN BY FewAIs DEF Nowhere
<1>3. headed' = a /\ resent' = Nowhere /\ aside' \in BOOLEAN /\ Pending' /\ RouteIsKept'
  BY <1>1, <1>2, HeadsSound
<1>4. routeJobs' \subseteq [kind : {"chat", "task"}, to : AIs \cup {Nowhere}]
  <2>1. routeJobs \subseteq [kind : {"chat", "task"}, to : AIs \cup {Nowhere}]
    BY <1>0 DEF R!TypeOK
  <2>. QED BY <1>1, <1>2, <2>1, JobTyped
<1>5. R!TypeOK' BY <1>0, <1>1, <1>2, <1>3, <1>4 DEF R!TypeOK
<1>6. Legible' BY <1>1, <1>2, <1>3 DEF Legible
<1>7. Unsent' /\ Owing' BY <1>1 DEF RouteInv, Unsent, Owing
<1>. QED BY <1>3, <1>5, <1>6, <1>7 DEF RouteInv

LEMMA AssignRoutedStep == RouteInv /\ R!AssignRouted => RouteInv'
<1>. SUFFICES ASSUME RouteInv, R!AssignRouted PROVE RouteInv' OBVIOUS
<1>1. /\ routeAt = "assign" /\ R!Assigned(owed) /\ routeAt' = "over" /\ owed' = Nowhere
      /\ losses' = losses
  BY DEF R!AssignRouted
<1>2. owed \in AIs /\ losses' \in 0..MaxLosses BY <1>1 DEF RouteInv, R!TypeOK, Owing
<1>. QED BY <1>1, <1>2, AssignedSound

LEMMA AssignStep ==
  ASSUME RouteInv, NEW a \in AIs, R!Assign(a)
  PROVE  RouteInv'
<1>1. R!Assigned(a) /\ routeAt' = routeAt /\ owed' = owed BY DEF R!Assign
<1>2. losses' \in 0..MaxLosses BY FaultTyped DEF RouteInv, R!Assign
<1>3. owed \in AIs \cup {Nowhere} BY DEF RouteInv, R!TypeOK
<1>. QED BY <1>1, <1>2, <1>3, AssignedSound

LEMMA SendStep ==
  ASSUME RouteInv, NEW a \in AIs, R!Send(a)
  PROVE  RouteInv'
<1>0. R!TypeOK /\ options \in R!Options BY DEF RouteInv, R!TypeOK
<1>1. /\ R!Decided("manual", a) /\ routeJobs' = routeJobs \cup {R!ChatJob(a)}
      /\ UNCHANGED <<routeAt, owed, platform, task, rowStatus, routeRun, provider, look>>
  BY DEF R!Send
<1>2. losses' \in 0..MaxLosses BY FaultTyped DEF RouteInv, R!Send
<1>3. Written
  BY <1>1, DecidedSound
<1>4. routeJobs' \subseteq [kind : {"chat", "task"}, to : AIs \cup {Nowhere}]
  <2>1. routeJobs \subseteq [kind : {"chat", "task"}, to : AIs \cup {Nowhere}]
    BY <1>0 DEF R!TypeOK
  <2>. QED BY <1>1, <2>1, JobTyped
<1>5. R!TypeOK' BY <1>0, <1>1, <1>2, <1>3, <1>4 DEF Written, R!TypeOK
<1>6. Unsent' /\ Owing' BY <1>1 DEF RouteInv, Unsent, Owing
<1>. QED BY <1>3, <1>5, <1>6 DEF Written, RouteInv

LEMMA RerouteStep == RouteInv /\ R!Reroute => RouteInv'
<1>. SUFFICES ASSUME RouteInv, R!Reroute PROVE RouteInv' OBVIOUS
<1>0. R!TypeOK BY DEF RouteInv
<1>1. /\ rowStatus' = "needs_assignment" /\ task' = Nowhere
      /\ UNCHANGED <<routeAt, owed, platform, routeRun, provider, routeJobs, look>>
  BY DEF R!Reroute
<1>2. losses' \in 0..MaxLosses BY FaultTyped DEF RouteInv, R!Reroute
<1>3. PICK r \in MessageRoutes : R!Routed(r, Nowhere, FALSE) BY DEF R!Reroute
<1>4. r \in Routes /\ Nowhere \in AIs \cup {Nowhere} /\ FALSE \in BOOLEAN BY RoutesSound
<1>5. Written
  BY <1>1, <1>3, <1>4, RoutedSound
<1>6. R!TypeOK' BY <1>0, <1>1, <1>2, <1>5 DEF Written, R!TypeOK
<1>7. Unsent' /\ Owing' BY <1>1 DEF RouteInv, Unsent, Owing
<1>. QED BY <1>5, <1>6, <1>7 DEF Written, RouteInv

LEMMA DiesStep == RouteInv /\ R!Dies => RouteInv'
<1>. SUFFICES ASSUME RouteInv, R!Dies PROVE RouteInv' OBVIOUS
<1>0. losses' \in 0..MaxLosses BY FaultTyped DEF RouteInv, R!Dies
<1>1. R!TypeOK' BY <1>0 DEF RouteInv, R!TypeOK, R!Dies, R!row, R!routing, R!history
<1>2. Unsent' /\ Legible' /\ Pending' /\ RouteIsKept'
  BY Untouched DEF R!Dies, R!row, R!routing, R!history
<1>3. Owing' BY DEF R!Dies, Owing
<1>. QED BY <1>1, <1>2, <1>3 DEF RouteInv

LEMMA BeginStep ==
  ASSUME RouteInv, NEW j \in routeJobs, R!Begin(j)
  PROVE  RouteInv'
<1>0. R!TypeOK BY DEF RouteInv
<1>1. /\ routeRun' = "active" /\ routeJobs' \in {routeJobs, routeJobs \ {j}}
      /\ \/ /\ provider' = j.to /\ platform' = j.to /\ task' = Nowhere /\ rowStatus' = "assigned"
         \/ provider' = task /\ UNCHANGED <<platform, task, rowStatus>>
      /\ UNCHANGED <<routeAt, owed, method, confidence, options, attempts, look, losses,
                     headed, resent, aside>>
  BY DEF R!Begin, R!routing, R!history
<1>2. j.to \in AIs \cup {Nowhere} BY <1>0 DEF R!TypeOK
<1>3. R!TypeOK'
  <2>1. routeJobs' \subseteq [kind : {"chat", "task"}, to : AIs \cup {Nowhere}]
    BY <1>0, <1>1 DEF R!TypeOK
  <2>2. /\ provider' \in AIs \cup {Nowhere} /\ platform' \in AIs \cup {Nowhere}
        /\ task' \in AIs \cup {Nowhere}
        /\ rowStatus' \in {"none", "needs_assignment", "assigned", "delivered", "done", "failed"}
    BY <1>0, <1>1, <1>2 DEF R!TypeOK
  <2>. QED BY <1>0, <1>1, <2>1, <2>2 DEF R!TypeOK
<1>4. Unsent' /\ Legible' /\ Pending' /\ RouteIsKept' BY <1>1, Untouched
<1>5. Owing' BY <1>1 DEF RouteInv, Owing
<1>. QED BY <1>3, <1>4, <1>5 DEF RouteInv

\* The steps of a job or a run that leave the decision alone.
LEMMA DeliverySteps ==
  ASSUME RouteInv,
         (\E j \in routeJobs : R!Drop(j) \/ R!Lose(j)) \/ R!Pass \/ R!HandBack \/ R!End
  PROVE  RouteInv'
<1>0. R!TypeOK BY DEF RouteInv
<1>. DEFINE Kept ==
      /\ UNCHANGED <<routeAt, owed, method, confidence, options, attempts, platform, task,
                     provider, look, headed, resent, aside>>
      /\ losses' \in 0..MaxLosses /\ routeJobs' \subseteq routeJobs
      /\ rowStatus' \in {rowStatus, "assigned", "delivered", "done", "failed"}
      /\ routeRun' = routeRun \/ routeRun' \in {"success", "failed"}
<1>1. Kept
  <2>l. losses \in 0..MaxLosses BY <1>0 DEF R!TypeOK
  <2>1. ASSUME NEW j \in routeJobs, R!Drop(j) PROVE Kept
    BY <2>1, <2>l DEF R!Drop, R!routing, R!history
  <2>2. ASSUME NEW j \in routeJobs, R!Lose(j) PROVE Kept
    <3>1. losses' \in 0..MaxLosses BY <1>0, <2>2, FaultTyped DEF R!Lose
    <3>. QED BY <2>2, <3>1 DEF R!Lose, R!row, R!routing, R!history
  <2>3. CASE R!Pass BY <2>3, <2>l DEF R!Pass, R!routing, R!history
  <2>4. CASE R!HandBack BY <2>4, <2>l DEF R!HandBack, R!routing, R!history
  <2>5. CASE R!End BY <2>5, <2>l DEF R!End, R!routing, R!history
  <2>. QED BY <2>1, <2>2, <2>3, <2>4, <2>5
<1>2. R!TypeOK' BY <1>0, <1>1 DEF R!TypeOK
<1>3. Unsent' /\ Legible' /\ Pending' /\ RouteIsKept' BY <1>1, Untouched
<1>4. Owing' BY <1>1 DEF RouteInv, Owing
<1>. QED BY <1>2, <1>3, <1>4 DEF RouteInv

LEMMA LookStep == RouteInv /\ R!Look => RouteInv'
<1>. SUFFICES ASSUME RouteInv, R!Look PROVE RouteInv' OBVIOUS
<1>. DEFINE to == IF task # Nowhere THEN task ELSE R!Destination
            kind == IF task # Nowhere THEN "task" ELSE "chat"
<1>0. R!TypeOK BY DEF RouteInv
<1>1. UNCHANGED <<routeAt, owed, method, confidence, options, attempts, platform, task, rowStatus,
                  routeRun, provider, routeJobs, losses, headed, resent, aside>>
  BY DEF R!Look, R!row, R!routing, R!history
<1>2. \/ routeRun \in {"success", "failed"} /\ look' = [run |-> routeRun]
      \/ /\ routeRun = "none" /\ (task # Nowhere \/ R!WasSent)
         /\ look' = [run |-> "none", kind |-> kind, to |-> to,
                     method |-> method, confidence |-> confidence, attempts |-> attempts]
  BY <1>0 DEF R!Look, R!TypeOK
<1>3. to \in AIs \cup {Nowhere}
  <2>1. R!TopSuggested(options) \in AIs \cup {Nowhere} BY <1>0, TopIsSuggested DEF R!TypeOK
  <2>. QED BY <1>0, <2>1 DEF R!Destination, R!TypeOK
<1>4. routeRun = "none" /\ (task # Nowhere \/ R!WasSent) /\ ~aside => to \in {Nowhere, headed}
  BY DEF RouteInv, Unsent, Legible, R!Destination
<1>5. kind \in {"chat", "task"} OBVIOUS
<1>. HIDE DEF to, kind
<1>6. look' \in R!Looks
  <2>1. CASE routeRun \in {"success", "failed"} /\ look' = [run |-> routeRun]
    BY <2>1 DEF R!Looks
  <2>2. CASE look' = [run |-> "none", kind |-> kind, to |-> to,
                      method |-> method, confidence |-> confidence, attempts |-> attempts]
    <3>1. method \in R!Methods /\ confidence \in 0..100 /\ attempts \in 0..3
      BY <1>0 DEF R!TypeOK
    <3>. QED BY <1>3, <1>5, <2>2, <3>1 DEF R!Looks
  <2>. QED BY <1>2, <2>1, <2>2
<1>7. Pending'
  <2>1. CASE routeRun \in {"success", "failed"} /\ look' = [run |-> routeRun]
    BY <2>1 DEF Pending
  <2>2. CASE /\ routeRun = "none" /\ (task # Nowhere \/ R!WasSent)
             /\ look' = [run |-> "none", kind |-> kind, to |-> to,
                         method |-> method, confidence |-> confidence, attempts |-> attempts]
    <3>1. look'.to = to /\ look'.method = method /\ look'.confidence = confidence BY <2>2
    <3>. QED BY <1>1, <1>4, <2>2, <3>1 DEF Pending
  <2>. QED BY <1>2, <2>1, <2>2
<1>8. R!TypeOK' BY <1>0, <1>1, <1>6 DEF R!TypeOK
<1>9. Unsent' /\ Owing' BY <1>1 DEF RouteInv, Unsent, Owing
<1>10. Legible' BY <1>1 DEF RouteInv, Legible, R!WasSent
<1>11. RouteIsKept' BY <1>1 DEF RouteInv, RouteIsKept, R!RouteIsKept
<1>. QED BY <1>7, <1>8, <1>9, <1>10, <1>11 DEF RouteInv

LEMMA ResendStep == RouteInv /\ R!Resend => RouteInv'
<1>. SUFFICES ASSUME RouteInv, R!Resend PROVE RouteInv' OBVIOUS
<1>0. R!TypeOK BY DEF RouteInv
<1>1. /\ look.run = "none" /\ look.to # Nowhere /\ look.attempts < 3
      /\ method' = look.method /\ confidence' = look.confidence /\ attempts' = look.attempts + 1
      /\ routeJobs' = routeJobs \cup {IF look.kind = "task" THEN R!TaskJob ELSE R!ChatJob(look.to)}
      /\ resent' = look.to /\ look' = R!NoLook
      /\ UNCHANGED <<routeAt, owed, options, platform, task, rowStatus, routeRun, provider, losses,
                     headed, aside>>
  BY DEF R!Resend, R!MayTry
<1>2. /\ look.to \in AIs \cup {Nowhere} /\ look.method \in R!Methods
      /\ look.confidence \in 0..100 /\ look.attempts \in 0..3
  BY <1>0, <1>1, LookTyped
<1>3. ~aside => look.to = headed /\ method' = method /\ confidence' = confidence
  BY <1>1 DEF RouteInv, Pending
<1>4. R!TypeOK'
  <2>1. attempts' \in 0..3 BY <1>1, <1>2
  <2>2. routeJobs' \subseteq [kind : {"chat", "task"}, to : AIs \cup {Nowhere}]
    <3>1. routeJobs \subseteq [kind : {"chat", "task"}, to : AIs \cup {Nowhere}]
      BY <1>0 DEF R!TypeOK
    <3>. QED BY <1>1, <1>2, <3>1, JobTyped
  <2>3. look' \in R!Looks BY <1>1 DEF R!Looks
  <2>. QED BY <1>0, <1>1, <1>2, <2>1, <2>2, <2>3 DEF R!TypeOK
<1>5. Unsent' /\ Owing' BY <1>1 DEF RouteInv, Unsent, Owing
<1>6. Legible' BY <1>1, <1>3 DEF RouteInv, Legible, R!WasSent
<1>7. Pending' BY <1>1 DEF Pending, R!NoLook
<1>8. RouteIsKept' BY <1>1, <1>3 DEF RouteIsKept, R!RouteIsKept
<1>. QED BY <1>4, <1>5, <1>6, <1>7, <1>8 DEF RouteInv

LEMMA SettleSteps ==
  ASSUME RouteInv, R!GiveUp \/ R!Repair
  PROVE  RouteInv'
<1>0. R!TypeOK BY DEF RouteInv
<1>1. /\ UNCHANGED <<routeAt, owed, method, confidence, options, attempts, platform, task, routeRun,
                     provider, routeJobs, losses, headed, resent, aside>>
      /\ look' = R!NoLook /\ rowStatus' \in {"done", "failed"}
  BY DEF R!GiveUp, R!Repair, R!routing, R!history
<1>2. look' \in R!Looks BY <1>1 DEF R!Looks
<1>3. R!TypeOK' BY <1>0, <1>1, <1>2 DEF R!TypeOK
<1>4. Unsent' /\ Legible' /\ Pending' /\ RouteIsKept' BY <1>1, Untouched
<1>5. Owing' BY <1>1 DEF RouteInv, Owing
<1>. QED BY <1>3, <1>4, <1>5 DEF RouteInv

LEMMA RouteStep == RouteInv /\ [R!Next]_(R!vars) => RouteInv'
<1>. SUFFICES ASSUME RouteInv, [R!Next]_(R!vars) PROVE RouteInv' OBVIOUS
<1>1. CASE UNCHANGED R!vars
  <2>1. UNCHANGED <<routeAt, owed, method, confidence, options, attempts, platform, task, rowStatus,
                    routeRun, provider, routeJobs, look, losses, headed, resent, aside>>
    BY <1>1 DEF R!vars, R!row, R!routing, R!history
  <2>2. Unsent' /\ Legible' /\ Pending' /\ RouteIsKept' BY <2>1, Untouched
  <2>3. R!TypeOK' /\ Owing' BY <2>1 DEF RouteInv, R!TypeOK, Owing
  <2>. QED BY <2>2, <2>3 DEF RouteInv
<1>2. CASE \E a \in AIs : R!Assign(a) \/ R!Send(a) BY <1>2, AssignStep, SendStep
<1>3. CASE \E j \in routeJobs : R!Begin(j) BY <1>3, BeginStep
<1>4. CASE (\E j \in routeJobs : R!Drop(j) \/ R!Lose(j)) \/ R!Pass \/ R!HandBack \/ R!End
  BY <1>4, DeliverySteps
<1>5. CASE R!GiveUp \/ R!Repair BY <1>5, SettleSteps
<1>. QED BY <1>1, <1>2, <1>3, <1>4, <1>5, PostStep, DecideChatStep, DecideMessageStep,
            AssignRoutedStep, RerouteStep, DiesStep, LookStep, ResendStep DEF R!Next

\* The routing of a message is always typed: confidences and scores keep their ranges and the
\* options name AIs or tasks there are (routeToConnection, routeMessage).
THEOREM RoutingTyped == R!Spec => []R!TypeOK
<1>1. RouteInv => R!TypeOK BY DEF RouteInv
<1>. QED BY RouteInit, RouteStep, <1>1, PTL DEF R!Spec

\* The sweep sends a message again only where the last decision about it sent it, whatever was
\* lost of it and whoever decided meanwhile (routeToConnection, routeMessage, POST /chat/:id/send,
\* /assign and /reroute, sweepStuckDeliveries): for any AIs and tasks, any scores and any number
\* of losses and of decisions, but for those that the row does not tell or the sweep has not read.
THEOREM RoutesAreKept == R!Spec => []RouteIsKept
<1>1. RouteInv => RouteIsKept BY DEF RouteInv
<1>. QED BY RouteInit, RouteStep, <1>1, PTL DEF R!Spec
=============================================================================
