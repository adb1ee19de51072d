----------------------------- MODULE ChatDrive -----------------------------
(***************************************************************************)
(* One message sent through a provider's website, and the answer read back *)
(* (providers/browser/chat.ts on top of browser/page.ts).  The caller      *)
(* holds the browser's lock, so there is one send; what it races is the    *)
(* site: the answer is written while it is read, the tab may be lost, the  *)
(* older answers of a thread may appear after they were counted, and a     *)
(* person may press Stop.  A text is the answer it belongs to and how much *)
(* of it is written.                                                       *)
(***************************************************************************)
EXTENDS Naturals, Sequences

CONSTANTS
  Patience,   \* the polls within REPLY_TIMEOUT_MS
  Full,       \* the length of a finished answer
  MaxFaults   \* bound: lost tabs, stalls, errors and failed reads together

VARIABLES
  pc,         \* where the send is
  thread,     \* whether the conversation has a chat at the provider (threadUrl)
  attempt,    \* which of its targets is open: 1, or 2 for the new chat
  reopened,   \* whether this navigation is on its second tab (PageController.open)
  retried,    \* whether the send as a whole is on its second tab
  before,     \* answers counted before sending
  last,       \* lastText
  text,       \* the text of this poll, read before the busy indicator
  stable, polls,
  result,     \* what the caller is told
  conv,       \* the chat in the tab: "thread", "new" or "none"
  loaded,     \* whether the tab shows the chat's older answers yet
  said,       \* the answers of each chat, oldest first
  sent,       \* how often the message has arrived, and in which chats
  stopped,    \* cancel_requested
  challenge,  \* a bot check is on the page
  site,       \* whether the provider's setup can read answers, and see it write
  misread,    \* a count failed, or older answers were not there yet when counted
  faults

siteVars == <<said, sent, challenge>>
lookVars == <<before, last, text, stable, polls>>
vars == <<pc, thread, attempt, reopened, retried, lookVars, result, conv, loaded, siteVars,
          stopped, site, misread, faults>>

Chats == {"thread", "new"}
NoText == [to |-> 0, part |-> 0]
Texts == [to : 0..2, part : 0..Full]
\* No reply selector; no busy selector; both.
Setups == {"mute", "plain", "busy"}
Results == {"none", "whole", "partial", "sent", "stopped", "signed out", "challenge", "error"}

TypeOK ==
  /\ pc \in {"idle", "opening", "checking", "typing", "filling", "sending", "waiting", "reading",
             "over"}
  /\ thread \in BOOLEAN /\ attempt \in 1..2 /\ reopened \in BOOLEAN /\ retried \in BOOLEAN
  /\ before \in 0..3 /\ last \in Texts /\ text \in Texts /\ stable \in 0..3
  /\ polls \in 0..Patience
  /\ result \in Results /\ conv \in Chats \cup {"none"} /\ loaded \in BOOLEAN
  /\ said \in [Chats -> Seq(Texts)] /\ sent \in Seq(Chats) /\ Len(sent) <= 2
  /\ stopped \in BOOLEAN /\ challenge \in BOOLEAN /\ site \in Setups
  /\ misread \in BOOLEAN /\ faults \in 0..MaxFaults

\* A thread holds one older answer.
Init ==
  /\ pc = "idle" /\ thread \in BOOLEAN /\ attempt = 1 /\ reopened = FALSE /\ retried = FALSE
  /\ before = 0 /\ last = NoText /\ text = NoText /\ stable = 0 /\ polls = 0
  /\ result = "none" /\ conv = "none" /\ loaded = FALSE
  /\ said = [c \in Chats |-> IF c = "thread" THEN <<[to |-> 0, part |-> Full]>> ELSE <<>>]
  /\ sent = <<>> /\ stopped = FALSE /\ challenge = FALSE /\ site \in Setups
  /\ misread = FALSE /\ faults = 0

----------------------------------------------------------------------------
(* How a send ends, and what an error does to it                           *)

Ends(r) == pc' = "over" /\ result' = r

\* sendThroughBrowser's catch: a stall gets one fresh tab and the whole send again.
ThrowStall ==
  \/ /\ ~retried
     /\ retried' = TRUE /\ pc' = "opening" /\ attempt' = 1 /\ reopened' = FALSE
     /\ conv' = "none"
     /\ UNCHANGED result
  \/ /\ retried
     /\ Ends("error")
     /\ UNCHANGED <<retried, attempt, reopened, conv>>

ThrowError == Ends("error") /\ UNCHANGED <<retried, attempt, reopened, conv>>

\* step.start throws when Stop was pressed; the sends that follow it are behind this guard.
StopsHere == stopped /\ Ends("stopped") /\ UNCHANGED <<retried, attempt, reopened, conv>>

Quiet == UNCHANGED <<thread, lookVars, loaded, siteVars, stopped, site, misread>>

Fault == faults < MaxFaults /\ faults' = faults + 1

----------------------------------------------------------------------------
(* sendOnce, up to the message typed                                       *)

Start ==
  /\ pc = "idle"
  /\ pc' = "opening"
  /\ UNCHANGED <<attempt, reopened, retried, result, conv, faults>> /\ Quiet

\* The thread comes first, then a new chat; a navigation that stalls gets one fresh tab.
Target == IF thread /\ attempt = 1 THEN "thread" ELSE "new"

Open ==
  /\ pc = "opening" /\ ~stopped
  /\ conv' = Target /\ reopened' = FALSE
  /\ said' = IF Target = "new" THEN [said EXCEPT !["new"] = <<>>] ELSE said
  /\ loaded' = (said'[Target] = <<>>)
  /\ pc' = IF attempt = 1 THEN "checking" ELSE "typing"
  /\ UNCHANGED <<thread, attempt, retried, lookVars, result, sent, stopped, challenge, site,
                 misread, faults>>

OpenStalls ==
  /\ pc = "opening" /\ ~stopped /\ Fault
  /\ \/ ~reopened /\ reopened' = TRUE /\ UNCHANGED <<pc, attempt, retried, result, conv>>
     \/ reopened /\ ThrowStall
  /\ Quiet

\* The sign-in is checked on the first target: signed out, in, or no marker answered;
\* the last looks for a bot check first.
Check ==
  /\ pc = "checking" /\ ~stopped
  /\ \/ Ends("signed out")
     \/ pc' = "typing" /\ UNCHANGED result
     \/ challenge /\ Ends("challenge")
  /\ UNCHANGED <<attempt, reopened, retried, conv, faults>> /\ Quiet

\* The composer is there.
Compose ==
  /\ pc = "typing" /\ ~stopped /\ ~challenge
  /\ pc' = "filling"
  /\ UNCHANGED <<attempt, reopened, retried, result, conv, faults>> /\ Quiet

\* The composer never appeared: a bot check, a vanished thread, or a stall.
NoComposer ==
  /\ pc = "typing" /\ ~stopped
  /\ \/ challenge /\ Ends("challenge") /\ UNCHANGED <<attempt, reopened, retried, conv, faults>>
     \/ /\ ~challenge /\ Fault /\ Target = "thread"
        /\ pc' = "opening" /\ attempt' = 2
        /\ UNCHANGED <<reopened, retried, result, conv>>
     \/ ~challenge /\ Fault /\ Target = "new" /\ ThrowStall
  /\ Quiet

\* The answers there are counted, where they can be, and the message is typed.
Shown == IF loaded THEN Len(said[conv]) ELSE 0

Fill ==
  /\ pc = "filling"
  /\ \/ before' = Shown /\ misread' = ~loaded /\ UNCHANGED faults
     \/ Fault /\ before' = 0 /\ misread' = TRUE
  /\ pc' = "sending"
  /\ last' = NoText /\ text' = NoText /\ stable' = 0 /\ polls' = 0
  /\ UNCHANGED <<thread, attempt, reopened, retried, result, conv, loaded, siteVars, stopped,
                 site>>

\* A person stopped it before a step, or the step threw.
Interrupted ==
  /\ \/ pc \in {"opening", "checking", "typing", "sending"} /\ StopsHere /\ UNCHANGED faults
     \/ pc \in {"opening", "checking", "typing", "filling", "sending"} /\ Fault /\ ThrowError
     \/ pc \in {"checking", "filling", "sending"} /\ Fault /\ ThrowStall
  /\ Quiet

----------------------------------------------------------------------------
(* sendOnce, from the message sent                                         *)

Send ==
  /\ pc = "sending" /\ ~stopped
  /\ sent' = Append(sent, conv)
  /\ IF site # "mute" THEN pc' = "waiting" /\ UNCHANGED result ELSE Ends("sent")
  /\ UNCHANGED <<thread, attempt, reopened, retried, lookVars, conv, loaded, said, stopped,
                 challenge, site, misread, faults>>

\* A poll: Stop is looked at, then whether there is a new answer, where the count succeeds,
\* then its text.
Poll ==
  /\ pc = "waiting" /\ polls < Patience
  /\ polls' = polls + 1
  /\ \/ stopped /\ Ends("stopped") /\ UNCHANGED <<text, faults>>
     \/ ~stopped /\ Shown <= before /\ UNCHANGED <<pc, result, text, faults>>
     \/ ~stopped /\ Fault /\ UNCHANGED <<pc, result, text>>
     \/ /\ ~stopped /\ Shown > before
        /\ \/ text' = said[conv][Shown] /\ UNCHANGED faults
           \/ text' = NoText /\ Fault
        /\ pc' = "reading" /\ UNCHANGED result
  /\ UNCHANGED <<thread, attempt, reopened, retried, before, last, stable, conv, loaded, siteVars,
                 stopped, site, misread>>

\* The site shows that it writes until the answers of its chat are whole.
Asked(c) == {i \in 1..Len(sent) : sent[i] = c}
Answer(i) == {j \in 1..Len(said[sent[i]]) : said[sent[i]][j].to = i}
Busy == \E i \in Asked(conv) : \A j \in Answer(i) : said[conv][j].part < Full

\* Mutant of StablePolls: two reads alike are enough.
OnePoll == 1

StablePolls == 3

\* The step that reads the answer throws when Stop was pressed.
ReadsOut(r) == Ends(IF stopped THEN "stopped" ELSE r)

Look ==
  /\ pc = "reading"
  /\ \E busy \in BOOLEAN :
       /\ \/ busy = (site = "busy" /\ Busy) /\ UNCHANGED <<misread, faults>>
          \/ ~busy /\ Busy /\ Fault /\ misread' = TRUE
       /\ stable' = IF text.part > 0 /\ text = last /\ ~busy THEN stable + 1 ELSE 0
  /\ last' = IF text.part > 0 THEN text ELSE last
  /\ IF stable' >= StablePolls THEN ReadsOut("whole") ELSE pc' = "waiting" /\ UNCHANGED result
  /\ UNCHANGED <<thread, attempt, reopened, retried, before, text, polls, conv, loaded, siteVars,
                 stopped, site>>

\* The time is up: what there is of an answer, a bot check, or nothing.
TimeIsUp ==
  /\ pc = "waiting" /\ polls = Patience
  /\ IF last.part > 0 THEN ReadsOut("partial") ELSE Ends(IF challenge THEN "challenge" ELSE "error")
  /\ UNCHANGED <<attempt, reopened, retried, conv, faults>> /\ Quiet

\* The tab goes away under a poll (a stall), or a query of it fails otherwise.
WaitThrows ==
  /\ pc \in {"waiting", "reading"} /\ Fault
  /\ ThrowStall \/ ThrowError
  /\ Quiet

----------------------------------------------------------------------------
(* The site and the person                                                 *)

ChatVars == <<pc, thread, attempt, reopened, retried, lookVars, result, conv>>

\* The answer to a message begins, or goes on.
Write ==
  \E i \in 1..Len(sent) :
    LET c == sent[i] IN
    /\ \/ /\ Answer(i) = {}
          /\ said' = [said EXCEPT ![c] = Append(@, [to |-> i, part |-> 0])]
       \/ \E j \in Answer(i) : said[c][j].part < Full /\ said' = [said EXCEPT ![c][j].part = @ + 1]
    /\ UNCHANGED <<ChatVars, loaded, sent, challenge, stopped, site, misread, faults>>

ShowOlder ==
  /\ conv # "none" /\ ~loaded /\ loaded' = TRUE
  /\ UNCHANGED <<ChatVars, siteVars, stopped, site, misread, faults>>

ChallengeAppears ==
  /\ ~challenge /\ Fault /\ challenge' = TRUE
  /\ UNCHANGED <<ChatVars, loaded, said, sent, stopped, site, misread>>

Stop ==
  /\ pc \notin {"idle", "over"} /\ ~stopped /\ stopped' = TRUE
  /\ UNCHANGED <<ChatVars, loaded, siteVars, site, misread, faults>>

Next ==
  \/ Start \/ Open \/ OpenStalls \/ Check \/ Compose \/ NoComposer \/ Fill \/ Interrupted
  \/ Send \/ Poll \/ Look \/ TimeIsUp \/ WaitThrows
  \/ Write \/ ShowOlder \/ ChallengeAppears \/ Stop

Spec == Init /\ [][Next]_vars

----------------------------------------------------------------------------
(* Properties                                                              *)

\* An answer that is handed on as finished is the whole answer to this very message,
\* although its text and the busy indicator are read one after the other while the
\* provider writes (the reply loop of sendOnce).  Not so where the setup has no busy
\* selector, a count failed, or the thread's older answers came after they were counted.
AnswerIsWhole == result = "whole" /\ site = "busy" /\ ~misread => last.to > 0 /\ last.part = Full
=============================================================================
