---------------------------- MODULE Tasks_proofs ----------------------------
(***************************************************************************)
(* Machine-checked facts about Registry, for any number of agents, syncs,  *)
(* people, mailboxes and mails and any bounds.                             *)
(***************************************************************************)
EXTENDS Tasks, TLAPS

Recording == {"findRun", "putRun", "racedRun"}

\* Where a handler of each kind can be.
Places(c) ==
  /\ c \in R!Reporters => handlerAt[c] \in {"idle", "find", "put", "raced", "back", "profile", "putProfile",
                             "attach", "write", "fold", "tell", "over"} \cup Recording
  /\ c \in Edits => handlerAt[c] \in {"idle", "attach", "write", "over"}
  /\ c \in Deletes => handlerAt[c] \in {"idle", "over"}
  /\ c \in Pollers => handlerAt[c] \in {"idle", "mail", "flag", "match"} \cup Recording

\* A row that is there stays known by its number; a run that is there is of no other.
Standing(c) == runs[at[c]][R!Ext(c)] # "none" \/ task.id # at[c]

\* What a handler carries fits where it is.
Carries(c) ==
  /\ handlerAt[c] \in {"back", "profile", "putProfile", "attach", "write", "tell"} \cup Recording => at[c] # 0
  /\ handlerAt[c] = "write" => got[c].id = at[c]
  /\ handlerAt[c] \in {"fold", "tell"} \cup Recording => says[c] # "none"
  /\ c \in Folds /\ handlerAt[c] # "idle" => says[c] # "none" /\ ~named[c]
  /\ handlerAt[c] = "racedRun" => Standing(c)
  /\ handlerAt[c] = "putRun" /\ found[c] => Standing(c)
  /\ c \in Edits /\ handlerAt[c] \in {"attach", "write"} => patch[c] # "none"
  /\ c \in Pollers /\ handlerAt[c] \in {"flag", "match"} \cup Recording =>
       list[c] # {} /\ heard[R!MailOf(c)] = 1

\* What a report is answered is true.
Answers(c) ==
  c \in R!Reporters /\ says[c] # "none" =>
    /\ handlerAt[c] = "tell" => c \in took
    /\ handlerAt[c] = "over" /\ answer[c] = "ok" => at[c] # 0 /\ (c \in took \/ task.id # at[c])

HandlerOK(c) == Places(c) /\ Carries(c) /\ Answers(c)

\* Numbers are given once.
Numbers ==
  /\ task.id <= lastId /\ (\A c \in R!Handlers : at[c] <= lastId) /\ (\A m \in Mails : matched[m] <= lastId)
  /\ task.id = 0 => word = "none"

\* Somebody is still at the mail, or its run is there.
AtIt(p, m) == handlerAt[p] \in Recording /\ list[p] # {} /\ R!MailOf(p) = m /\ at[p] = matched[m]
MailOK(m) ==
  /\ heard[m] <= 1 /\ (m \in seenFlag => heard[m] = 1)
  /\ matched[m] # 0 /\ task.id = matched[m] =>
       runs[task.id][m] # "none" \/ m \in dropped \/ \E p \in Pollers : AtIt(p, m)

\* Nobody is about to write back a row that was read before a person's last word.
WordOK ==
  word # "none" /\ ~overlapped =>
    /\ task.enabled = (word = "resume")
    /\ \A c \in R!Writers(task.id) : got[c].enabled = task.enabled

RegistryInv ==
  /\ R!TypeOK /\ Numbers /\ WordOK
  /\ \A c \in R!Handlers : HandlerOK(c)
  /\ \A m \in Mails : MailOK(m)

LEMMA RegistryStart == ASSUME Kinds, RegistryLimits PROVE R!Init => RegistryInv
<1>. SUFFICES ASSUME R!Init PROVE RegistryInv
  OBVIOUS
<1>. USE DEF R!Init
<1>1. task \in R!Rows /\ lastId \in 0..MaxTasks
  <2>1. 0 \in 0..MaxTasks /\ 1 \in 0..MaxTasks BY DEF RegistryLimits
  <2>2. task = [id |-> 0, enabled |-> TRUE, agent |-> "none"] \/ task = [id |-> 1, enabled |-> TRUE, agent |-> "none"]
    BY Zenon DEF R!NoTask
  <2>3. \A i \in 0..MaxTasks : [id |-> i, enabled |-> TRUE, agent |-> "none"] \in R!Rows
    BY Zenon DEF R!Rows, R!Agents
  <2>. QED BY <2>1, <2>2, <2>3
<1>3. R!TypeOK
  <2>1. R!NoTask \in R!Rows /\ 0 \in 0..MaxTasks /\ 0 \in Nat /\ 0 \in 0..MaxFaults
    BY DEF R!NoTask, R!Rows, R!Agents, RegistryLimits
  <2>2. /\ runs \in [1..MaxTasks -> [R!Exts -> R!Statuses \cup {"none"}]]
        /\ heard \in [Mails -> Nat] /\ matched \in [Mails -> 0..MaxTasks]
        /\ at \in [R!Handlers -> 0..MaxTasks] /\ got \in [R!Handlers -> R!Rows]
        /\ found \in [R!Handlers -> BOOLEAN] /\ named \in [R!Handlers -> BOOLEAN]
    BY <2>1, Zenon
  <2>3. /\ reportFaults \in 0..MaxFaults /\ lastId \in 0..MaxTasks /\ task \in R!Rows
    BY <1>1, <2>1
  <2>4. /\ list \in [Pollers -> SUBSET Mails] /\ says \in [R!Handlers -> R!Statuses \cup {"none"}]
        /\ patch \in [Edits -> {"none", "pause", "resume", "rename"}]
        /\ answer \in [R!Handlers -> {"none", "ok", "skipped", "not found", "error"}]
    OBVIOUS
  <2>5. profiles \subseteq R!Agents \ {"none"} /\ told \subseteq 1..MaxTasks /\ seenFlag \subseteq Mails
        /\ took \subseteq R!Reporters /\ dropped \subseteq Mails
    OBVIOUS
  <2>6. /\ handlerAt \in [R!Handlers -> {"idle", "find", "put", "raced", "back", "profile", "putProfile",
                          "attach", "write", "fold", "findRun", "putRun", "racedRun", "tell",
                          "mail", "flag", "match", "over"}]
        /\ word \in {"none", "pause", "resume"} /\ overlapped \in BOOLEAN
    OBVIOUS
  <2>. QED BY <2>2, <2>3, <2>4, <2>5, <2>6, Zenon DEF R!TypeOK
<1>4. ASSUME NEW c \in R!Handlers PROVE HandlerOK(c)
  BY DEF HandlerOK, Places, Carries, Answers, Recording, R!Handlers, R!Reporters
<1>5. ASSUME NEW m \in Mails PROVE MailOK(m)
  BY DEF MailOK
<1>6. task.id <= lastId BY <1>1 DEF R!Rows
<1>. QED BY <1>1, <1>3, <1>4, <1>5, <1>6, RegistryLimits DEF RegistryInv, Numbers, WordOK, RegistryLimits

----------------------------------------------------------------------------
\* What a step of one handler leaves of what the others rely on: rows keep their numbers,
\* and a run that is there stays there as long as its task does.
Stays ==
  /\ lastId <= lastId'
  /\ \A i \in 1..lastId : task.id # i => task'.id # i
  /\ \A i \in 1..lastId, x \in R!Exts : runs[i][x] # "none" => runs'[i][x] # "none" \/ task'.id # i
  /\ took \subseteq took' /\ (\A m \in Mails : heard[m] = 1 => heard'[m] = 1)

Same(d) ==
  /\ handlerAt'[d] = handlerAt[d] /\ at'[d] = at[d] /\ got'[d] = got[d] /\ found'[d] = found[d]
  /\ says'[d] = says[d] /\ named'[d] = named[d] /\ answer'[d] = answer[d]
  /\ d \in Edits => patch'[d] = patch[d]
  /\ d \in Pollers => list'[d] = list[d]

\* Who ends touches nobody else.
LEMMA OverSame ==
  ASSUME R!TypeOK, NEW c \in R!Handlers, NEW a, R!Over(c, a),
         UNCHANGED <<at, says, named, patch, list>>
  PROVE  \A d \in R!Handlers \ {c} : Same(d)
<1>. SUFFICES ASSUME NEW d \in R!Handlers, d # c PROVE Same(d)
  OBVIOUS
<1>. USE DEF R!Over, R!Has, R!Goes, R!TypeOK
<1>1. handlerAt'[d] = handlerAt[d] OBVIOUS
<1>2. got'[d] = got[d] /\ found'[d] = found[d] OBVIOUS
<1>3. answer'[d] = answer[d] OBVIOUS
<1>. QED BY <1>1, <1>2, <1>3 DEF Same

LEMMA ExtTyped ==
  ASSUME Kinds, RegistryInv, NEW c \in R!Handlers, c \in Pollers => list[c] # {}
  PROVE  R!Ext(c) \in R!Exts /\ (c \in Pollers => R!MailOf(c) \in list[c] /\ R!Ext(c) = R!MailOf(c) /\ R!MailOf(c) \in Mails)
<1>1. CASE c \in Pollers
  <2>1. list[c] \subseteq Mails /\ list[c] # {} BY <1>1 DEF RegistryInv, R!TypeOK
  <2>. QED BY <1>1, <2>1 DEF R!Ext, R!MailOf, R!Exts
<1>2. CASE c \notin Pollers BY <1>2 DEF R!Ext, R!Exts
<1>. QED BY <1>1, <1>2

LEMMA NoTaskTyped == ASSUME R!TypeOK PROVE R!NoTask \in R!Rows
<1>1. 0 \in 0..MaxTasks BY RegistryAssumption DEF RegistryLimits
<1>. QED BY <1>1, Zenon DEF R!NoTask, R!Rows, R!Agents

PlaceNames == {"idle", "find", "put", "raced", "back", "profile", "putProfile", "attach", "write",
               "fold", "findRun", "putRun", "racedRun", "tell", "mail", "flag", "match", "over"}
AnswerNames == {"none", "ok", "skipped", "not found", "error"}

LEMMA OverTyped ==
  ASSUME R!TypeOK, NEW c \in R!Handlers, NEW a \in AnswerNames, R!Over(c, a)
  PROVE  /\ handlerAt' \in [R!Handlers -> PlaceNames] /\ got' \in [R!Handlers -> R!Rows]
         /\ found' \in [R!Handlers -> BOOLEAN] /\ answer' \in [R!Handlers -> AnswerNames]
<1>. USE DEF R!Over, R!Has, R!Goes, R!TypeOK, PlaceNames, AnswerNames
<1>1. handlerAt' \in [R!Handlers -> PlaceNames] OBVIOUS
<1>2. got' \in [R!Handlers -> R!Rows] BY NoTaskTyped
<1>3. found' \in [R!Handlers -> BOOLEAN] OBVIOUS
<1>4. answer' \in [R!Handlers -> AnswerNames]
  <2>1. CASE c \in Pollers BY <2>1
  <2>2. CASE c \notin Pollers BY <2>2
  <2>. QED BY <2>1, <2>2
<1>. QED BY <1>1, <1>2, <1>3, <1>4

LEMMA OthersStay ==
  ASSUME Kinds, RegistryInv, Stays, NEW d \in R!Handlers, Same(d)
  PROVE  HandlerOK(d)'
<1>1. HandlerOK(d) /\ at[d] \in Nat /\ at[d] <= lastId /\ lastId \in Nat
  <2>1. at \in [R!Handlers -> 0..MaxTasks] /\ lastId \in 0..MaxTasks BY DEF RegistryInv, R!TypeOK
  <2>2. HandlerOK(d) /\ at[d] <= lastId BY Zenon DEF RegistryInv, Numbers
  <2>. QED BY <2>1, <2>2
<1>2. d \in Pollers => R!MailOf(d)' = R!MailOf(d)
  BY DEF Same, R!MailOf
<1>3. R!Ext(d)' = R!Ext(d)
  BY <1>2 DEF R!Ext
<1>4. ASSUME at[d] # 0, Standing(d), d \in Pollers => list[d] # {} PROVE Standing(d)'
  <2>1. at[d] \in 1..lastId BY <1>1, <1>4
  <2>2. R!Ext(d) \in R!Exts BY <1>4, ExtTyped
  <2>. QED BY <1>3, <1>4, <2>1, <2>2 DEF Standing, Stays, Same
<1>5. Places(d)' BY <1>1 DEF HandlerOK, Places, Same
<1>6. Carries(d)'
  <2>1. d \in Pollers /\ handlerAt[d] \in {"flag", "match"} \cup Recording =>
          list[d] # {} /\ heard[R!MailOf(d)] = 1 /\ R!MailOf(d) \in Mails
    BY <1>1, ExtTyped DEF HandlerOK, Carries
  <2>2. handlerAt[d] \in Recording => at[d] # 0 /\ (d \in Pollers => list[d] # {})
    BY <1>1, <2>1 DEF HandlerOK, Carries
  <2>3. /\ handlerAt[d] = "racedRun" => Standing(d)'
        /\ handlerAt[d] = "putRun" /\ found[d] => Standing(d)'
    BY <1>1, <1>4, <2>2 DEF HandlerOK, Carries, Recording
  <2>4. d \in Pollers /\ handlerAt[d] \in {"flag", "match"} \cup Recording =>
          list'[d] # {} /\ heard'[R!MailOf(d)'] = 1
    BY <1>2, <2>1 DEF Stays, Same
  <2>. QED BY <1>1, <2>3, <2>4 DEF HandlerOK, Carries, Same
<1>7. Answers(d)'
  <2>1. at[d] # 0 /\ task.id # at[d] => task'.id # at[d]
    BY <1>1 DEF Stays
  <2>. QED BY <1>1, <2>1 DEF HandlerOK, Answers, Same, Stays
<1>. QED BY <1>5, <1>6, <1>7 DEF HandlerOK

Calm == UNCHANGED <<task, lastId, runs, heard, seenFlag, took, word, overlapped, matched, dropped>>

LEMMA CalmStays == ASSUME R!TypeOK, Calm PROVE Stays
<1>1. lastId \in 0..MaxTasks BY DEF R!TypeOK
<1>2. lastId <= lastId BY <1>1
<1>. QED BY <1>2 DEF Stays, Calm

\* A step that changes no row leaves a mail to whoever is at it.
LEMMA CalmStep ==
  ASSUME Kinds, RegistryInv, NEW c \in R!Handlers, Calm, R!TypeOK', at'[c] <= lastId,
         \A d \in R!Handlers \ {c} : Same(d), HandlerOK(c)',
         handlerAt'[c] = "write" => got'[c].enabled = task.enabled,
         \A m \in Mails : c \in Pollers /\ AtIt(c, m) => AtIt(c, m)' \/ task.id # matched[m]
  PROVE  RegistryInv'
<1>1. Stays BY CalmStays DEF RegistryInv
<1>2. \A d \in R!Handlers : HandlerOK(d)' BY <1>1, OthersStay
<1>3. Numbers'
  BY DEF RegistryInv, Numbers, Calm, Same
<1>4. WordOK'
  <2>1. ASSUME word # "none", ~overlapped, NEW d \in R!Writers(task.id)'
        PROVE  got'[d].enabled = task.enabled
    <3>1. d \in R!Handlers /\ handlerAt'[d] = "write" /\ at'[d] = task.id
      BY DEF R!Writers, Calm
    <3>2. CASE d # c
      <4>1. d \in R!Writers(task.id) /\ got'[d] = got[d] BY <3>1, <3>2 DEF Same, R!Writers
      <4>. QED BY <2>1, <4>1 DEF RegistryInv, WordOK
    <3>. QED BY <3>1, <3>2
  <2>. QED BY <2>1 DEF RegistryInv, WordOK, Calm
<1>5. ASSUME NEW m \in Mails PROVE MailOK(m)'
  <2>1. MailOK(m) BY DEF RegistryInv
  <2>2. ASSUME NEW p \in Pollers, AtIt(p, m), task.id = matched[m] PROVE AtIt(p, m)'
    <3>1. p \in R!Handlers BY DEF R!Handlers
    <3>2. CASE p # c BY <2>2, <3>1, <3>2 DEF Same, AtIt, Calm, R!MailOf
    <3>. QED BY <2>2, <3>2
  <2>. QED BY <2>1, <2>2 DEF MailOK, Calm
<1>. QED BY <1>2, <1>3, <1>4, <1>5 DEF RegistryInv

----------------------------------------------------------------------------
\* The steps that change no row.

LEMMA ReportStep == ASSUME Kinds, RegistryInv, NEW c \in R!Handlers, R!Report(c) PROVE RegistryInv'
<1>. USE DEF R!Has, R!Goes, R!rows, R!past
<1>1. PICK s \in R!Statuses \cup {"none"}, n \in BOOLEAN :
        /\ c \in R!Reporters /\ handlerAt[c] = "idle" /\ (c \in Folds => s # "none") /\ (n => c \in Pushes)
        /\ says' = [says EXCEPT ![c] = s] /\ named' = [named EXCEPT ![c] = n]
        /\ handlerAt' = [handlerAt EXCEPT ![c] = "find"]
        /\ UNCHANGED <<task, lastId, profiles, runs, told, heard, seenFlag, at, got, found, patch, list,
                       answer, took, word, overlapped, matched, dropped, reportFaults>>
  BY DEF R!Report
<1>2. R!TypeOK' BY <1>1 DEF RegistryInv, R!TypeOK
<1>3. \A d \in R!Handlers \ {c} : Same(d) BY <1>1 DEF RegistryInv, R!TypeOK, Same
<1>4. HandlerOK(c)'
  <2>1. handlerAt'[c] = "find" /\ says'[c] = s /\ named'[c] = n
    BY <1>1 DEF RegistryInv, R!TypeOK
  <2>2. c \notin Edits /\ c \notin Deletes /\ c \notin Pollers /\ (c \in Folds => ~n)
    BY <1>1 DEF Kinds, R!Reporters
  <2>. QED BY <1>1, <2>1, <2>2 DEF HandlerOK, Places, Carries, Answers, Recording
<1>. QED BY <1>1, <1>2, <1>3, <1>4, CalmStep DEF Calm, RegistryInv, R!TypeOK, Numbers, AtIt, Recording

\* Which kind of handler can be where.
LEMMA WhoIsThere ==
  ASSUME Kinds, RegistryInv, NEW c \in R!Handlers
  PROVE  /\ handlerAt[c] \in {"find", "put", "raced", "back", "profile", "putProfile", "fold", "tell"} =>
              c \in R!Reporters
         /\ handlerAt[c] \in {"attach", "write"} => c \in R!Reporters \cup Edits
         /\ handlerAt[c] \in {"mail", "flag", "match"} => c \in Pollers
         /\ handlerAt[c] \in Recording => c \in R!Reporters \cup Pollers
         /\ c \in R!Reporters => c \notin Edits /\ c \notin Deletes /\ c \notin Pollers
         /\ c \in Edits => c \notin Deletes /\ c \notin Pollers
         /\ c \in Deletes => c \notin Pollers
         /\ c \in Pushes => c \notin Folds
BY DEF Kinds, RegistryInv, HandlerOK, Places, Recording, R!Handlers

\* What ends leaves nothing to fit.
LEMMA OverOK ==
  ASSUME Kinds, RegistryInv, NEW c \in R!Handlers, c \notin Pollers,
         NEW a, R!Over(c, a), UNCHANGED <<says, named>>, handlerAt[c] # "idle",
         a = "ok" /\ c \in R!Reporters /\ says[c] # "none" =>
           at'[c] # 0 /\ (c \in took' \/ task'.id # at'[c])
  PROVE  HandlerOK(c)' /\ handlerAt'[c] = "over"
<1>1. handlerAt'[c] = "over" /\ answer'[c] = a
  BY DEF RegistryInv, R!TypeOK, R!Over, R!Goes, R!Has
<1>2. c \in Folds => says[c] # "none" /\ ~named[c]
  BY DEF RegistryInv, HandlerOK, Carries
<1>. QED BY <1>1, <1>2 DEF HandlerOK, Places, Carries, Answers, Recording

LEMMA FindTaskStep == ASSUME Kinds, RegistryInv, NEW c \in R!Handlers, R!FindTask(c) PROVE RegistryInv'
<1>. USE DEF R!Has, R!Goes, R!rows, R!past
<1>1. /\ handlerAt[c] = "find" /\ at' = [at EXCEPT ![c] = task.id] /\ handlerAt' = [handlerAt EXCEPT ![c] = "put"]
      /\ UNCHANGED <<task, lastId, profiles, runs, told, heard, seenFlag, got, found, says, named,
                     patch, list, answer, took, word, overlapped, matched, dropped, reportFaults>>
      /\ c \in R!Reporters /\ c \notin Edits /\ c \notin Deletes /\ c \notin Pollers
  BY WhoIsThere DEF R!FindTask
<1>2. R!TypeOK' BY <1>1 DEF RegistryInv, R!TypeOK, R!Rows
<1>3. \A d \in R!Handlers \ {c} : Same(d) BY <1>1 DEF RegistryInv, R!TypeOK, Same
<1>4. HandlerOK(c)'
  <2>1. handlerAt'[c] = "put" BY <1>1 DEF RegistryInv, R!TypeOK
  <2>2. c \in Folds => says[c] # "none" /\ ~named[c] BY <1>1 DEF RegistryInv, HandlerOK, Carries
  <2>. QED BY <1>1, <2>1, <2>2 DEF HandlerOK, Places, Carries, Answers, Recording
<1>5. Calm /\ at'[c] <= lastId BY <1>1 DEF Calm, RegistryInv, R!TypeOK, R!Rows, Numbers
<1>. QED BY <1>1, <1>2, <1>3, <1>4, <1>5, CalmStep

LEMMA RacedStep == ASSUME Kinds, RegistryInv, NEW c \in R!Handlers, R!Raced(c) PROVE RegistryInv'
<1>. USE DEF R!Has, R!Goes, R!rows, R!past
<1>1. /\ handlerAt[c] = "raced" /\ c \in R!Reporters /\ c \notin Edits /\ c \notin Deletes /\ c \notin Pollers
      /\ UNCHANGED <<task, lastId, profiles, runs, told, heard, seenFlag, at, says, named, patch, list,
                     took, word, overlapped, matched, dropped, reportFaults>>
      /\ \/ handlerAt' = [handlerAt EXCEPT ![c] = "find"] /\ UNCHANGED <<answer, got, found>>
         \/ R!Over(c, "error")
  BY WhoIsThere DEF R!Raced
<1>2. R!TypeOK'
  <2>. USE DEF RegistryInv, R!TypeOK
  <2>1. CASE R!Over(c, "error")
    <3>1. "error" \in AnswerNames BY DEF AnswerNames
    <3>. QED BY <1>1, <2>1, <3>1, OverTyped, Zenon DEF PlaceNames, AnswerNames
  <2>2. CASE handlerAt' = [handlerAt EXCEPT ![c] = "find"] /\ UNCHANGED <<answer, got, found>>
    BY <1>1, <2>2
  <2>. QED BY <1>1, <2>1, <2>2
<1>3. \A d \in R!Handlers \ {c} : Same(d)
  <2>1. CASE R!Over(c, "error") BY <1>1, <2>1, OverSame DEF RegistryInv
  <2>2. CASE ~ R!Over(c, "error") BY <1>1, <2>2 DEF RegistryInv, R!TypeOK, Same
  <2>. QED BY <2>1, <2>2
<1>4. HandlerOK(c)' /\ handlerAt'[c] # "write"
  <2>1. CASE R!Over(c, "error") BY <1>1, <2>1, OverOK
  <2>2. CASE handlerAt' = [handlerAt EXCEPT ![c] = "find"] /\ UNCHANGED <<answer, got, found>>
    <3>1. handlerAt'[c] = "find" BY <2>2 DEF RegistryInv, R!TypeOK
    <3>2. c \in Folds => says[c] # "none" /\ ~named[c] BY <1>1 DEF RegistryInv, HandlerOK, Carries
    <3>. QED BY <1>1, <3>1, <3>2 DEF HandlerOK, Places, Carries, Answers, Recording
  <2>. QED BY <1>1, <2>1, <2>2
<1>5. Calm /\ at'[c] <= lastId BY <1>1 DEF Calm, RegistryInv, R!TypeOK, R!Rows, Numbers
<1>. QED BY <1>1, <1>2, <1>3, <1>4, <1>5, CalmStep

\* A row that is read again is as it stands; where there is none, the answer is an error.
LEMMA ReadBackStep == ASSUME Kinds, RegistryInv, NEW c \in R!Handlers, R!ReadBack(c) PROVE RegistryInv'
<1>. USE DEF R!Has, R!Goes, R!rows, R!past
<1>1. /\ handlerAt[c] = "back" /\ c \in R!Reporters /\ c \notin Edits /\ c \notin Deletes /\ c \notin Pollers
      /\ UNCHANGED <<task, lastId, profiles, runs, told, heard, seenFlag, at, says, named, patch, list,
                     took, word, overlapped, matched, dropped, reportFaults>>
      /\ \/ /\ got' = [got EXCEPT ![c] = task] /\ handlerAt' = [handlerAt EXCEPT ![c] = "profile"]
            /\ UNCHANGED <<answer, found>>
         \/ R!Over(c, "error")
  BY WhoIsThere DEF R!ReadBack
<1>2. R!TypeOK'
  <2>. USE DEF RegistryInv, R!TypeOK
  <2>1. CASE R!Over(c, "error")
    <3>1. "error" \in AnswerNames BY DEF AnswerNames
    <3>. QED BY <1>1, <2>1, <3>1, OverTyped, Zenon DEF PlaceNames, AnswerNames
  <2>2. CASE /\ got' = [got EXCEPT ![c] = task] /\ handlerAt' = [handlerAt EXCEPT ![c] = "profile"]
             /\ UNCHANGED <<answer, found>>
    BY <1>1, <2>2
  <2>. QED BY <1>1, <2>1, <2>2
<1>3. \A d \in R!Handlers \ {c} : Same(d)
  <2>1. CASE R!Over(c, "error") BY <1>1, <2>1, OverSame DEF RegistryInv
  <2>2. CASE ~ R!Over(c, "error") BY <1>1, <2>2 DEF RegistryInv, R!TypeOK, Same
  <2>. QED BY <2>1, <2>2
<1>4. HandlerOK(c)' /\ handlerAt'[c] # "write"
  <2>1. CASE R!Over(c, "error") BY <1>1, <2>1, OverOK
  <2>2. CASE handlerAt' = [handlerAt EXCEPT ![c] = "profile"]
    <3>1. handlerAt'[c] = "profile" /\ at'[c] = at[c] BY <1>1, <2>2 DEF RegistryInv, R!TypeOK
    <3>2. at[c] # 0 /\ (c \in Folds => says[c] # "none" /\ ~named[c])
      BY <1>1 DEF RegistryInv, HandlerOK, Carries
    <3>. QED BY <1>1, <3>1, <3>2 DEF HandlerOK, Places, Carries, Answers, Recording
  <2>. QED BY <1>1, <2>1, <2>2
<1>5. Calm /\ at'[c] <= lastId BY <1>1 DEF Calm, RegistryInv, R!TypeOK, R!Rows, Numbers
<1>. QED BY <1>1, <1>2, <1>3, <1>4, <1>5, CalmStep

\* Who has its agent is over, or goes on to its run.
LEMMA HasItsAgentOK ==
  ASSUME Kinds, RegistryInv, NEW c \in R!Reporters, handlerAt[c] # "idle", at[c] # 0,
         R!HasItsAgent(c), UNCHANGED <<says, named, at>>
  PROVE  /\ HandlerOK(c)' /\ handlerAt'[c] # "write"
         /\ handlerAt' \in [R!Handlers -> PlaceNames] /\ got' \in [R!Handlers -> R!Rows]
         /\ found' \in [R!Handlers -> BOOLEAN] /\ answer' \in [R!Handlers -> AnswerNames]
         /\ \A d \in R!Handlers \ {c} : /\ handlerAt'[d] = handlerAt[d] /\ got'[d] = got[d]
                                        /\ found'[d] = found[d] /\ answer'[d] = answer[d]
<1>0. c \in R!Handlers /\ c \notin Edits /\ c \notin Deletes /\ c \notin Pollers
      /\ (c \in Folds => says[c] # "none" /\ ~named[c])
  BY WhoIsThere DEF R!Handlers, RegistryInv, HandlerOK, Carries
<1>1. CASE R!AfterTask(c) = "over"
  <2>1. says[c] = "none" /\ c \notin Folds BY <1>1 DEF R!AfterTask
  <2>2. R!Over(c, "ok") BY <1>1 DEF R!HasItsAgent
  <2>3. "ok" \in AnswerNames BY DEF AnswerNames
  <2>4. HandlerOK(c)' /\ handlerAt'[c] # "write" BY <1>0, <2>1, <2>2, OverOK
  <2>5. \A d \in R!Handlers \ {c} : /\ handlerAt'[d] = handlerAt[d] /\ got'[d] = got[d]
                                    /\ found'[d] = found[d] /\ answer'[d] = answer[d]
    BY <2>2 DEF RegistryInv, R!TypeOK, R!Over, R!Has, R!Goes
  <2>. QED BY <1>0, <2>2, <2>3, <2>4, <2>5, OverTyped DEF RegistryInv
<1>2. CASE R!AfterTask(c) # "over"
  <2>1. /\ handlerAt' = [handlerAt EXCEPT ![c] = R!AfterTask(c)] /\ got' = [got EXCEPT ![c] = R!NoTask]
        /\ UNCHANGED <<answer, found>>
    BY <1>2 DEF R!HasItsAgent, R!Goes, R!Has
  <2>2. R!AfterTask(c) \in {"fold", "findRun"} /\ says[c] # "none"
    BY <1>0, <1>2 DEF R!AfterTask
  <2>3. /\ handlerAt' \in [R!Handlers -> PlaceNames] /\ got' \in [R!Handlers -> R!Rows]
        /\ found' \in [R!Handlers -> BOOLEAN] /\ answer' \in [R!Handlers -> AnswerNames]
    BY <2>1, <2>2, NoTaskTyped DEF RegistryInv, R!TypeOK, PlaceNames, AnswerNames
  <2>4. handlerAt'[c] \in {"fold", "findRun"} /\ at'[c] # 0
    BY <1>0, <2>1, <2>2 DEF RegistryInv, R!TypeOK
  <2>5. HandlerOK(c)'
    BY <1>0, <2>2, <2>4 DEF HandlerOK, Places, Carries, Answers, Recording
  <2>6. \A d \in R!Handlers \ {c} : /\ handlerAt'[d] = handlerAt[d] /\ got'[d] = got[d]
                                    /\ found'[d] = found[d] /\ answer'[d] = answer[d]
    BY <2>1 DEF RegistryInv, R!TypeOK
  <2>. QED BY <2>3, <2>4, <2>5, <2>6
<1>. QED BY <1>1, <1>2

LEMMA FindProfileStep == ASSUME Kinds, RegistryInv, NEW c \in R!Handlers, R!FindProfile(c) PROVE RegistryInv'
<1>. USE DEF R!Has, R!Goes, R!rows, R!past
<1>1. /\ handlerAt[c] = "profile" /\ c \in R!Reporters /\ c \notin Edits /\ c \notin Deletes /\ c \notin Pollers
      /\ UNCHANGED <<task, lastId, profiles, runs, told, heard, seenFlag, at, says, named, patch, list,
                     took, word, overlapped, matched, dropped, reportFaults>>
      /\ \/ R!HasItsAgent(c)
         \/ /\ found' = [found EXCEPT ![c] = R!Who(c) \in profiles]
            /\ handlerAt' = [handlerAt EXCEPT ![c] = "putProfile"] /\ UNCHANGED <<answer, got>>
  BY WhoIsThere DEF R!FindProfile
<1>0. at[c] # 0 /\ (c \in Folds => says[c] # "none" /\ ~named[c])
  BY <1>1 DEF RegistryInv, HandlerOK, Carries
<1>2. CASE R!HasItsAgent(c)
  <2>1. R!TypeOK'
    BY <1>0, <1>1, <1>2, HasItsAgentOK, Zenon DEF RegistryInv, R!TypeOK, PlaceNames, AnswerNames
  <2>2. \A d \in R!Handlers \ {c} : Same(d) BY <1>0, <1>1, <1>2, HasItsAgentOK DEF Same
  <2>3. HandlerOK(c)' /\ handlerAt'[c] # "write" BY <1>0, <1>1, <1>2, HasItsAgentOK
  <2>4. Calm /\ at'[c] <= lastId BY <1>1 DEF Calm, RegistryInv, Numbers
  <2>. QED BY <1>1, <2>1, <2>2, <2>3, <2>4, CalmStep
<1>3. CASE /\ found' = [found EXCEPT ![c] = R!Who(c) \in profiles]
           /\ handlerAt' = [handlerAt EXCEPT ![c] = "putProfile"] /\ UNCHANGED <<answer, got>>
  <2>0. found' \in [R!Handlers -> BOOLEAN] /\ handlerAt' \in [R!Handlers -> PlaceNames]
    <3>1. (R!Who(c) \in profiles) \in BOOLEAN OBVIOUS
    <3>2. found' \in [R!Handlers -> BOOLEAN] BY <1>3, <3>1, Zenon DEF RegistryInv, R!TypeOK
    <3>. QED BY <1>3, <3>2 DEF RegistryInv, R!TypeOK, PlaceNames
  <2>1. R!TypeOK' BY <1>1, <1>3, <2>0, Zenon DEF RegistryInv, R!TypeOK, PlaceNames
  <2>2. \A d \in R!Handlers \ {c} : Same(d) BY <1>1, <1>3 DEF RegistryInv, R!TypeOK, Same
  <2>3. handlerAt'[c] = "putProfile" BY <1>3 DEF RegistryInv, R!TypeOK
  <2>4. HandlerOK(c)'
    BY <1>0, <1>1, <2>3 DEF HandlerOK, Places, Carries, Answers, Recording
  <2>5. Calm /\ at'[c] <= lastId BY <1>1 DEF Calm, RegistryInv, Numbers
  <2>. QED BY <1>1, <2>1, <2>2, <2>3, <2>4, <2>5, CalmStep
<1>. QED BY <1>1, <1>2, <1>3

LEMMA PutProfileStep == ASSUME Kinds, RegistryInv, NEW c \in R!Handlers, R!PutProfile(c) PROVE RegistryInv'
<1>. USE DEF R!Has, R!Goes, R!rows, R!past
<1>1. /\ handlerAt[c] = "putProfile" /\ c \in R!Reporters /\ c \notin Edits /\ c \notin Deletes /\ c \notin Pollers
      /\ UNCHANGED <<task, lastId, runs, told, heard, seenFlag, at, says, named, patch, list,
                     took, word, overlapped, matched, dropped, reportFaults>>
      /\ profiles' \in {profiles, profiles \cup {R!Who(c)}}
      /\ \/ R!Over(c, "error")
         \/ R!HasItsAgent(c)
         \/ handlerAt' = [handlerAt EXCEPT ![c] = "attach"] /\ UNCHANGED <<got, found, answer>>
  BY WhoIsThere DEF R!PutProfile
<1>0. at[c] # 0 /\ (c \in Folds => says[c] # "none" /\ ~named[c])
  BY <1>1 DEF RegistryInv, HandlerOK, Carries
<1>p. profiles' \subseteq R!Agents \ {"none"}
  BY <1>1 DEF RegistryInv, R!TypeOK, R!Who, R!Agents
<1>5. Calm /\ at'[c] <= lastId BY <1>1 DEF Calm, RegistryInv, Numbers
<1>2. CASE R!Over(c, "error")
  <2>0. "error" \in AnswerNames BY DEF AnswerNames
  <2>1. R!TypeOK'
    BY <1>1, <1>2, <1>p, <2>0, OverTyped, Zenon DEF RegistryInv, R!TypeOK, PlaceNames, AnswerNames
  <2>2. \A d \in R!Handlers \ {c} : Same(d)
    BY <1>1, <1>2, OverSame DEF RegistryInv
  <2>3. HandlerOK(c)' /\ handlerAt'[c] # "write" BY <1>1, <1>2, OverOK
  <2>. QED BY <1>1, <1>5, <2>1, <2>2, <2>3, CalmStep
<1>3. CASE R!HasItsAgent(c)
  <2>1. R!TypeOK'
    BY <1>0, <1>1, <1>3, <1>p, HasItsAgentOK, Zenon DEF RegistryInv, R!TypeOK, PlaceNames, AnswerNames
  <2>2. \A d \in R!Handlers \ {c} : Same(d) BY <1>0, <1>1, <1>3, HasItsAgentOK DEF Same
  <2>3. HandlerOK(c)' /\ handlerAt'[c] # "write" BY <1>0, <1>1, <1>3, HasItsAgentOK
  <2>. QED BY <1>1, <1>5, <2>1, <2>2, <2>3, CalmStep
<1>4. CASE handlerAt' = [handlerAt EXCEPT ![c] = "attach"] /\ UNCHANGED <<got, found, answer>>
  <2>1. R!TypeOK' BY <1>1, <1>4, <1>p DEF RegistryInv, R!TypeOK
  <2>2. \A d \in R!Handlers \ {c} : Same(d) BY <1>1, <1>4 DEF RegistryInv, R!TypeOK, Same
  <2>3. handlerAt'[c] = "attach" BY <1>4 DEF RegistryInv, R!TypeOK
  <2>4. HandlerOK(c)'
    BY <1>0, <1>1, <2>3 DEF HandlerOK, Places, Carries, Answers, Recording
  <2>. QED BY <1>1, <1>5, <2>1, <2>2, <2>3, <2>4, CalmStep
<1>. QED BY <1>1, <1>2, <1>3, <1>4

\* The whole row is read, by an edit or to attach an agent.
LEMMA ReadRowStep == ASSUME Kinds, RegistryInv, NEW c \in R!Handlers, R!ReadRow(c) PROVE RegistryInv'
<1>. USE DEF R!Has, R!Goes, R!rows, R!past
<1>1. /\ handlerAt[c] = "attach" /\ c \in R!Reporters \cup Edits /\ c \notin Deletes /\ c \notin Pollers
      /\ UNCHANGED <<task, lastId, profiles, runs, told, heard, seenFlag, at, says, named, patch, list,
                     took, word, overlapped, matched, dropped, reportFaults>>
      /\ \/ /\ task.id = at[c] /\ got' = [got EXCEPT ![c] = task]
            /\ handlerAt' = [handlerAt EXCEPT ![c] = "write"] /\ UNCHANGED <<answer, found>>
         \/ c \in Edits /\ R!Over(c, "not found")
         \/ c \notin Edits /\ R!HasItsAgent(c)
  BY WhoIsThere DEF R!ReadRow
<1>0. at[c] # 0 /\ (c \in Folds => says[c] # "none" /\ ~named[c]) /\ (c \in Edits => patch[c] # "none")
      /\ (c \in Edits => c \notin R!Reporters)
  BY <1>1, WhoIsThere DEF RegistryInv, HandlerOK, Carries
<1>5. Calm /\ at'[c] <= lastId BY <1>1 DEF Calm, RegistryInv, Numbers
<1>2. CASE /\ task.id = at[c] /\ got' = [got EXCEPT ![c] = task]
           /\ handlerAt' = [handlerAt EXCEPT ![c] = "write"] /\ UNCHANGED <<answer, found>>
  <2>1. R!TypeOK' BY <1>1, <1>2 DEF RegistryInv, R!TypeOK
  <2>2. \A d \in R!Handlers \ {c} : Same(d) BY <1>1, <1>2 DEF RegistryInv, R!TypeOK, Same
  <2>3. handlerAt'[c] = "write" /\ got'[c] = task BY <1>2 DEF RegistryInv, R!TypeOK
  <2>4. HandlerOK(c)'
    BY <1>0, <1>1, <1>2, <2>3 DEF HandlerOK, Places, Carries, Answers, Recording
  <2>. QED BY <1>1, <1>5, <2>1, <2>2, <2>3, <2>4, CalmStep
<1>3. CASE c \in Edits /\ R!Over(c, "not found")
  <2>0. "not found" \in AnswerNames BY DEF AnswerNames
  <2>1. R!TypeOK'
    BY <1>1, <1>3, <2>0, OverTyped, Zenon DEF RegistryInv, R!TypeOK, PlaceNames, AnswerNames
  <2>2. \A d \in R!Handlers \ {c} : Same(d) BY <1>1, <1>3, OverSame DEF RegistryInv
  <2>3. HandlerOK(c)' /\ handlerAt'[c] # "write" BY <1>1, <1>3, OverOK
  <2>. QED BY <1>1, <1>5, <2>1, <2>2, <2>3, CalmStep
<1>4. CASE c \notin Edits /\ R!HasItsAgent(c)
  <2>0. c \in R!Reporters BY <1>1, <1>4
  <2>1. R!TypeOK'
    BY <1>0, <1>1, <1>4, <2>0, HasItsAgentOK, Zenon DEF RegistryInv, R!TypeOK, PlaceNames, AnswerNames
  <2>2. \A d \in R!Handlers \ {c} : Same(d) BY <1>0, <1>1, <1>4, <2>0, HasItsAgentOK DEF Same
  <2>3. HandlerOK(c)' /\ handlerAt'[c] # "write" BY <1>0, <1>1, <1>4, <2>0, HasItsAgentOK
  <2>. QED BY <1>1, <1>5, <2>1, <2>2, <2>3, CalmStep
<1>. QED BY <1>1, <1>2, <1>3, <1>4

LEMMA FoldTaskStep == ASSUME Kinds, RegistryInv, NEW c \in R!Handlers, R!FoldTask(c) PROVE RegistryInv'
<1>. USE DEF R!Has, R!Goes, R!rows, R!past
<1>1. /\ handlerAt[c] = "fold" /\ c \in R!Reporters /\ c \notin Edits /\ c \notin Deletes /\ c \notin Pollers
      /\ UNCHANGED <<task, lastId, profiles, runs, told, heard, seenFlag, says, named, patch, list,
                     took, word, overlapped, matched, dropped, reportFaults>>
      /\ \/ R!Over(c, "skipped") /\ UNCHANGED at
         \/ /\ task.id # 0 /\ at' = [at EXCEPT ![c] = task.id]
            /\ handlerAt' = [handlerAt EXCEPT ![c] = "findRun"] /\ UNCHANGED <<got, found, answer>>
  BY WhoIsThere DEF R!FoldTask
<1>0. says[c] # "none" /\ (c \in Folds => says[c] # "none" /\ ~named[c])
  BY <1>1 DEF RegistryInv, HandlerOK, Carries
<1>2. CASE R!Over(c, "skipped") /\ UNCHANGED at
  <2>0. "skipped" \in AnswerNames BY DEF AnswerNames
  <2>1. R!TypeOK'
    BY <1>1, <1>2, <2>0, OverTyped, Zenon DEF RegistryInv, R!TypeOK, PlaceNames, AnswerNames
  <2>2. \A d \in R!Handlers \ {c} : Same(d)
    BY <1>1, <1>2, OverSame DEF RegistryInv
  <2>3. HandlerOK(c)' /\ handlerAt'[c] # "write" BY <1>1, <1>2, OverOK
  <2>4. Calm /\ at'[c] <= lastId BY <1>1, <1>2 DEF Calm, RegistryInv, Numbers
  <2>. QED BY <1>1, <2>1, <2>2, <2>3, <2>4, CalmStep
<1>3. CASE /\ task.id # 0 /\ at' = [at EXCEPT ![c] = task.id]
           /\ handlerAt' = [handlerAt EXCEPT ![c] = "findRun"] /\ UNCHANGED <<got, found, answer>>
  <2>1. R!TypeOK' BY <1>1, <1>3 DEF RegistryInv, R!TypeOK, R!Rows
  <2>2. \A d \in R!Handlers \ {c} : Same(d) BY <1>1, <1>3 DEF RegistryInv, R!TypeOK, Same
  <2>3. handlerAt'[c] = "findRun" /\ at'[c] = task.id BY <1>3 DEF RegistryInv, R!TypeOK
  <2>4. HandlerOK(c)'
    BY <1>0, <1>1, <1>3, <2>3 DEF HandlerOK, Places, Carries, Answers, Recording
  <2>5. Calm /\ at'[c] <= lastId BY <1>1, <2>3 DEF Calm, RegistryInv, Numbers
  <2>. QED BY <1>1, <2>1, <2>2, <2>3, <2>4, <2>5, CalmStep
<1>. QED BY <1>1, <1>2, <1>3

\* The look for the run remembers only that it is there.
LEMMA FindRunStep == ASSUME Kinds, RegistryInv, NEW c \in R!Handlers, R!FindRun(c) PROVE RegistryInv'
<1>. USE DEF R!Has, R!Goes, R!rows, R!past
<1> DEFINE there == runs[at[c]][R!Ext(c)] # "none"
<1>1. /\ handlerAt[c] = "findRun" /\ c \in R!Reporters \cup Pollers /\ c \notin Edits /\ c \notin Deletes
      /\ UNCHANGED <<task, lastId, profiles, runs, told, heard, seenFlag, at, got, says, named, patch, list,
                     answer, took, word, overlapped, matched, dropped, reportFaults>>
      /\ found' = [found EXCEPT ![c] = there]
      /\ handlerAt' = [handlerAt EXCEPT ![c] = "putRun"]
  BY WhoIsThere DEF R!FindRun, Recording
<1>0. /\ at[c] # 0 /\ says[c] # "none" /\ (c \in Folds => ~named[c])
      /\ c \in Pollers => list[c] # {} /\ heard[R!MailOf(c)] = 1
      /\ c \in Pollers => c \notin R!Reporters
  BY <1>1, WhoIsThere DEF RegistryInv, HandlerOK, Carries, Recording
<1>2. found' \in [R!Handlers -> BOOLEAN] /\ handlerAt' \in [R!Handlers -> PlaceNames]
  <2>1. there \in BOOLEAN OBVIOUS
  <2>2. found' \in [R!Handlers -> BOOLEAN] BY <1>1, <2>1, Zenon DEF RegistryInv, R!TypeOK
  <2>. QED BY <1>1, <2>2 DEF RegistryInv, R!TypeOK, PlaceNames
<1>3. R!TypeOK' BY <1>1, <1>2, Zenon DEF RegistryInv, R!TypeOK, PlaceNames
<1>4. \A d \in R!Handlers \ {c} : Same(d) BY <1>1 DEF RegistryInv, R!TypeOK, Same
<1>5. handlerAt'[c] = "putRun" /\ found'[c] = there
  BY <1>1 DEF RegistryInv, R!TypeOK
<1>6. R!Ext(c)' = R!Ext(c) /\ R!MailOf(c)' = R!MailOf(c)
  BY <1>1 DEF R!Ext, R!MailOf
<1>7. HandlerOK(c)'
  <2>1. found'[c] => Standing(c)' BY <1>1, <1>5, <1>6 DEF Standing
  <2>2. Places(c)' BY <1>0, <1>1, <1>5 DEF Places, Recording
  <2>3. Answers(c)' BY <1>5 DEF Answers
  <2>. QED BY <1>0, <1>1, <1>5, <1>6, <2>1, <2>2, <2>3 DEF HandlerOK, Carries, Recording
<1>8. Calm /\ at'[c] <= lastId BY <1>1 DEF Calm, RegistryInv, Numbers
<1>9. \A m \in Mails : AtIt(c, m) => AtIt(c, m)'
  BY <1>1, <1>5, <1>6 DEF AtIt, Recording
<1>. QED BY <1>3, <1>4, <1>5, <1>7, <1>8, <1>9, CalmStep

LEMMA TellStep == ASSUME Kinds, RegistryInv, NEW c \in R!Handlers, R!Tell(c) PROVE RegistryInv'
<1>. USE DEF R!Has, R!Goes, R!rows, R!past
<1>1. /\ handlerAt[c] = "tell" /\ c \in R!Reporters /\ c \notin Edits /\ c \notin Deletes /\ c \notin Pollers
      /\ UNCHANGED <<task, lastId, profiles, runs, heard, seenFlag, at, says, named, patch, list,
                     took, word, overlapped, matched, dropped, reportFaults>>
      /\ told' = told \cup {at[c]} /\ R!Over(c, "ok")
  BY WhoIsThere DEF R!Tell
<1>0. at[c] # 0 /\ c \in took
  BY <1>1 DEF RegistryInv, HandlerOK, Carries, Answers
<1>2. R!TypeOK'
  <2>1. "ok" \in AnswerNames BY DEF AnswerNames
  <2>2. told' \subseteq 1..MaxTasks
    <3>1. at[c] \in 0..MaxTasks /\ told \subseteq 1..MaxTasks BY DEF RegistryInv, R!TypeOK
    <3>2. at[c] \in 1..MaxTasks BY <1>0, <3>1, RegistryAssumption DEF RegistryLimits
    <3>. QED BY <1>1, <3>1, <3>2, Zenon
  <2>. QED BY <1>1, <2>1, <2>2, OverTyped, Zenon DEF RegistryInv, R!TypeOK, PlaceNames, AnswerNames
<1>3. \A d \in R!Handlers \ {c} : Same(d)
  BY <1>1, OverSame DEF RegistryInv
<1>4. HandlerOK(c)' /\ handlerAt'[c] # "write" BY <1>0, <1>1, OverOK
<1>5. Calm /\ at'[c] <= lastId BY <1>1 DEF Calm, RegistryInv, Numbers
<1>. QED BY <1>1, <1>2, <1>3, <1>4, <1>5, CalmStep

\* A poller that is through with a mail has nothing to fit.
LEMMA PollerOverOK ==
  ASSUME Kinds, RegistryInv, NEW c \in Pollers, NEW a, R!Over(c, a)
  PROVE  HandlerOK(c)' /\ handlerAt'[c] = "mail"
<1>1. handlerAt'[c] = "mail" /\ c \in R!Handlers
  BY DEF RegistryInv, R!TypeOK, R!Over, R!Goes, R!Has, R!Handlers
<1>2. c \notin R!Reporters /\ c \notin Edits /\ c \notin Deletes BY <1>1, WhoIsThere
<1>. QED BY <1>1, <1>2 DEF HandlerOK, Places, Carries, Answers, Recording, R!Reporters

LEMMA ThroughTyped ==
  ASSUME R!TypeOK, NEW c, R!Through(c)
  PROVE  /\ list' \in [Pollers -> SUBSET Mails]
         /\ \A p \in Pollers : p # c => list'[p] = list[p]
<1>1. CASE c \in Pollers
  <2>1. list' = [list EXCEPT ![c] = @ \ {R!MailOf(c)}] BY <1>1 DEF R!Through
  <2>. QED BY <1>1, <2>1 DEF R!TypeOK
<1>2. CASE c \notin Pollers
  BY <1>2 DEF R!Through, R!TypeOK
<1>. QED BY <1>1, <1>2

\* Who throws has nothing to fit, and touches nobody else.
LEMMA ThrowsOK ==
  ASSUME Kinds, RegistryInv, NEW c \in R!Handlers, R!Throws(c), handlerAt[c] \in Recording,
         UNCHANGED <<at, says, named, patch>>
  PROVE  /\ handlerAt' \in [R!Handlers -> PlaceNames] /\ got' \in [R!Handlers -> R!Rows]
         /\ found' \in [R!Handlers -> BOOLEAN] /\ answer' \in [R!Handlers -> AnswerNames]
         /\ list' \in [Pollers -> SUBSET Mails]
         /\ \A d \in R!Handlers \ {c} : Same(d)
         /\ HandlerOK(c)' /\ handlerAt'[c] # "write"
<1>1. /\ got' = [got EXCEPT ![c] = R!NoTask] /\ found' = [found EXCEPT ![c] = FALSE]
      /\ list' = [p \in Pollers |-> IF p = c THEN {} ELSE list[p]]
      /\ c \in Pollers => handlerAt' = [handlerAt EXCEPT ![c] = "idle"] /\ answer' = [answer EXCEPT ![c] = @]
      /\ c \notin Pollers => /\ handlerAt' = [handlerAt EXCEPT ![c] = "over"]
                             /\ answer' = [answer EXCEPT ![c] = "error"]
  BY DEF R!Throws, R!Goes, R!Has
<1>2. /\ handlerAt' \in [R!Handlers -> PlaceNames] /\ answer' \in [R!Handlers -> AnswerNames]
      /\ c \in Pollers => handlerAt'[c] = "idle"
      /\ c \notin Pollers => handlerAt'[c] = "over" /\ answer'[c] = "error"
      /\ \A d \in R!Handlers \ {c} : handlerAt'[d] = handlerAt[d] /\ answer'[d] = answer[d]
  <2>1. CASE c \in Pollers
    <3>1. handlerAt' = [handlerAt EXCEPT ![c] = "idle"] /\ answer' = [answer EXCEPT ![c] = @] BY <1>1, <2>1
    <3>. QED BY <2>1, <3>1 DEF RegistryInv, R!TypeOK, PlaceNames, AnswerNames
  <2>2. CASE c \notin Pollers
    <3>1. handlerAt' = [handlerAt EXCEPT ![c] = "over"] /\ answer' = [answer EXCEPT ![c] = "error"] BY <1>1, <2>2
    <3>. QED BY <2>2, <3>1 DEF RegistryInv, R!TypeOK, PlaceNames, AnswerNames
  <2>. QED BY <2>1, <2>2
<1>3. got' \in [R!Handlers -> R!Rows] BY <1>1, NoTaskTyped DEF RegistryInv, R!TypeOK
<1>4. found' \in [R!Handlers -> BOOLEAN] BY <1>1 DEF RegistryInv, R!TypeOK
<1>5. list' \in [Pollers -> SUBSET Mails] BY <1>1 DEF RegistryInv, R!TypeOK
<1>6. \A d \in R!Handlers \ {c} : Same(d)
  <2>1. \A d \in R!Handlers \ {c} : got'[d] = got[d] /\ found'[d] = found[d]
    BY <1>1 DEF RegistryInv, R!TypeOK
  <2>2. \A d \in Pollers : d # c => list'[d] = list[d] BY <1>1
  <2>. QED BY <1>2, <2>1, <2>2 DEF Same
<1>7. HandlerOK(c)' /\ handlerAt'[c] # "write"
  <2>1. CASE c \in Pollers
    <3>1. c \notin R!Reporters /\ c \notin Edits /\ c \notin Deletes BY <2>1, WhoIsThere
    <3>. QED BY <1>2, <2>1, <3>1 DEF HandlerOK, Places, Carries, Answers, Recording, R!Reporters
  <2>2. CASE c \notin Pollers
    <3>1. c \in R!Reporters /\ c \notin Edits /\ c \notin Deletes BY <2>2, WhoIsThere
    <3>2. handlerAt[c] # "idle" BY DEF Recording
    <3>3. c \in Folds => says[c] # "none" /\ ~named[c] BY <3>2 DEF RegistryInv, HandlerOK, Carries
    <3>. QED BY <1>2, <2>2, <3>1, <3>3 DEF HandlerOK, Places, Carries, Answers, Recording
  <2>. QED BY <2>1, <2>2
<1>. QED BY <1>2, <1>3, <1>4, <1>5, <1>6, <1>7

\* Who lost an insert looks again; where there is nothing to find, its task has gone.
LEMMA RacedRunStep == ASSUME Kinds, RegistryInv, NEW c \in R!Handlers, R!RacedRun(c) PROVE RegistryInv'
<1>. USE DEF R!Has, R!Goes, R!rows, R!past
<1>1. /\ handlerAt[c] = "racedRun" /\ c \in R!Reporters \cup Pollers /\ c \notin Edits /\ c \notin Deletes
      /\ UNCHANGED <<task, lastId, profiles, runs, told, heard, seenFlag, at, says, named, patch,
                     took, word, overlapped, matched, dropped, reportFaults>>
      /\ \/ /\ handlerAt' = [handlerAt EXCEPT ![c] = "findRun"]
            /\ UNCHANGED <<list, got, found, answer>>
         \/ /\ runs[at[c]][R!Ext(c)] = "none" /\ R!Throws(c)
  BY WhoIsThere DEF R!RacedRun, Recording
<1>0. /\ at[c] # 0 /\ says[c] # "none" /\ (c \in Folds => ~named[c]) /\ Standing(c)
      /\ c \in Pollers => list[c] # {} /\ heard[R!MailOf(c)] = 1
      /\ c \in Pollers => c \notin R!Reporters
  BY <1>1, WhoIsThere DEF RegistryInv, HandlerOK, Carries, Recording
<1>5. Calm /\ at'[c] <= lastId BY <1>1 DEF Calm, RegistryInv, Numbers
<1>2. CASE /\ handlerAt' = [handlerAt EXCEPT ![c] = "findRun"]
           /\ UNCHANGED <<list, got, found, answer>>
  <2>1. R!TypeOK' BY <1>1, <1>2 DEF RegistryInv, R!TypeOK
  <2>2. \A d \in R!Handlers \ {c} : Same(d) BY <1>1, <1>2 DEF RegistryInv, R!TypeOK, Same
  <2>3. handlerAt'[c] = "findRun" BY <1>2 DEF RegistryInv, R!TypeOK
  <2>4. R!MailOf(c)' = R!MailOf(c) BY <1>2 DEF R!MailOf
  <2>5. Places(c)' /\ Answers(c)' BY <1>0, <1>1, <2>3 DEF Places, Answers, Recording
  <2>6. Carries(c)' BY <1>0, <1>1, <1>2, <2>3, <2>4 DEF Carries, Recording
  <2>7. \A m \in Mails : AtIt(c, m) => AtIt(c, m)'
    BY <1>1, <1>2, <2>3, <2>4 DEF AtIt, Recording
  <2>. QED BY <1>5, <2>1, <2>2, <2>3, <2>5, <2>6, <2>7, CalmStep DEF HandlerOK
<1>3. CASE runs[at[c]][R!Ext(c)] = "none" /\ R!Throws(c)
  <2>1. R!TypeOK'
    BY <1>1, <1>3, ThrowsOK, Zenon DEF RegistryInv, R!TypeOK, Recording, PlaceNames, AnswerNames
  <2>2. \A d \in R!Handlers \ {c} : Same(d) BY <1>1, <1>3, ThrowsOK DEF Recording
  <2>3. HandlerOK(c)' /\ handlerAt'[c] # "write" BY <1>1, <1>3, ThrowsOK DEF Recording
  <2>4. task.id # at[c] BY <1>0, <1>3 DEF Standing
  <2>5. \A m \in Mails : AtIt(c, m) => task.id # matched[m] BY <2>4 DEF AtIt
  <2>. QED BY <1>5, <2>1, <2>2, <2>3, <2>5, CalmStep
<1>. QED BY <1>1, <1>2, <1>3

LEMMA EditStep == ASSUME Kinds, RegistryInv, NEW c \in R!Handlers, R!Edit(c) PROVE RegistryInv'
<1>. USE DEF R!Has, R!Goes, R!rows, R!past
<1>1. PICK p \in {"pause", "resume", "rename"} :
        /\ c \in Edits /\ handlerAt[c] = "idle" /\ task.id # 0
        /\ patch' = [patch EXCEPT ![c] = p] /\ at' = [at EXCEPT ![c] = task.id]
        /\ handlerAt' = [handlerAt EXCEPT ![c] = "attach"]
        /\ UNCHANGED <<task, lastId, profiles, runs, told, heard, seenFlag, got, found, says, named, list,
                       answer, took, word, overlapped, matched, dropped, reportFaults>>
  BY DEF R!Edit
<1>2. R!TypeOK' BY <1>1 DEF RegistryInv, R!TypeOK, R!Rows
<1>3. \A d \in R!Handlers \ {c} : Same(d) BY <1>1 DEF RegistryInv, R!TypeOK, Same
<1>4. handlerAt'[c] = "attach" /\ at'[c] = task.id /\ patch'[c] # "none"
  BY <1>1 DEF RegistryInv, R!TypeOK
<1>5. HandlerOK(c)'
  <2>1. c \notin R!Reporters /\ c \notin Deletes /\ c \notin Pollers BY <1>1, WhoIsThere
  <2>. QED BY <1>1, <1>4, <2>1 DEF HandlerOK, Places, Carries, Answers, Recording, R!Reporters
<1>6. Calm /\ at'[c] <= lastId BY <1>1, <1>4 DEF Calm, RegistryInv, Numbers
<1>7. \A m \in Mails : ~AtIt(c, m) BY <1>1 DEF AtIt, Recording
<1>. QED BY <1>2, <1>3, <1>4, <1>5, <1>6, <1>7, CalmStep

LEMMA PollStep == ASSUME Kinds, RegistryInv, NEW c \in R!Handlers, R!Poll(c) PROVE RegistryInv'
<1>. USE DEF R!Has, R!Goes, R!rows, R!past
<1>1. /\ c \in Pollers /\ handlerAt[c] = "idle"
      /\ list' = [list EXCEPT ![c] = Mails \ seenFlag] /\ handlerAt' = [handlerAt EXCEPT ![c] = "mail"]
      /\ UNCHANGED <<task, lastId, profiles, runs, told, heard, seenFlag, at, got, found, says, named, patch,
                     answer, took, word, overlapped, matched, dropped, reportFaults>>
  BY DEF R!Poll
<1>2. R!TypeOK' BY <1>1 DEF RegistryInv, R!TypeOK
<1>3. \A d \in R!Handlers \ {c} : Same(d) BY <1>1 DEF RegistryInv, R!TypeOK, Same
<1>4. handlerAt'[c] = "mail" BY <1>1 DEF RegistryInv, R!TypeOK
<1>5. HandlerOK(c)'
  <2>1. c \notin R!Reporters /\ c \notin Edits /\ c \notin Deletes BY <1>1, WhoIsThere
  <2>. QED BY <1>1, <1>4, <2>1 DEF HandlerOK, Places, Carries, Answers, Recording, R!Reporters
<1>6. Calm /\ at'[c] <= lastId BY <1>1 DEF Calm, RegistryInv, Numbers
<1>7. \A m \in Mails : ~AtIt(c, m) BY <1>1 DEF AtIt, Recording
<1>. QED BY <1>2, <1>3, <1>4, <1>5, <1>6, <1>7, CalmStep

LEMMA PollEndsStep == ASSUME Kinds, RegistryInv, NEW c \in R!Handlers, R!PollEnds(c) PROVE RegistryInv'
<1>. USE DEF R!Has, R!Goes, R!rows, R!past, R!own
<1>1. /\ c \in Pollers /\ handlerAt[c] = "mail" /\ handlerAt' = [handlerAt EXCEPT ![c] = "idle"]
      /\ UNCHANGED <<task, lastId, profiles, runs, told, heard, seenFlag, at, got, found, says, named, patch,
                     list, answer, took, word, overlapped, matched, dropped, reportFaults>>
  BY WhoIsThere DEF R!PollEnds
<1>2. R!TypeOK' BY <1>1 DEF RegistryInv, R!TypeOK
<1>3. \A d \in R!Handlers \ {c} : Same(d) BY <1>1 DEF RegistryInv, R!TypeOK, Same
<1>4. handlerAt'[c] = "idle" BY <1>1 DEF RegistryInv, R!TypeOK
<1>5. HandlerOK(c)'
  <2>1. c \notin R!Reporters /\ c \notin Edits /\ c \notin Deletes BY <1>1, WhoIsThere
  <2>. QED BY <1>1, <1>4, <2>1 DEF HandlerOK, Places, Carries, Answers, Recording, R!Reporters
<1>6. Calm /\ at'[c] <= lastId BY <1>1 DEF Calm, RegistryInv, Numbers
<1>7. \A m \in Mails : ~AtIt(c, m) BY <1>1 DEF AtIt, Recording
<1>. QED BY <1>2, <1>3, <1>4, <1>5, <1>6, <1>7, CalmStep

----------------------------------------------------------------------------
\* The steps that change a row: what each leaves of what the others rely on.

LEMMA RowStep ==
  ASSUME Kinds, RegistryInv, NEW c \in R!Handlers, Stays, R!TypeOK',
         \A d \in R!Handlers \ {c} : Same(d), HandlerOK(c)', Numbers', WordOK',
         \A m \in Mails : MailOK(m)'
  PROVE  RegistryInv'
<1>1. \A d \in R!Handlers : HandlerOK(d)' BY OthersStay
<1>. QED BY <1>1 DEF RegistryInv

LEMMA WordKept ==
  ASSUME RegistryInv, UNCHANGED <<task, word, overlapped>>, NEW c \in R!Handlers,
         \A d \in R!Handlers \ {c} : Same(d), handlerAt'[c] # "write"
  PROVE  WordOK'
<1>1. ASSUME word # "none", ~overlapped, NEW d \in R!Writers(task.id)'
      PROVE  got'[d].enabled = task.enabled
  <2>1. d \in R!Handlers /\ handlerAt'[d] = "write" /\ at'[d] = task.id
    BY DEF R!Writers
  <2>2. d \in R!Writers(task.id) /\ got'[d] = got[d] BY <2>1 DEF Same, R!Writers
  <2>. QED BY <1>1, <2>2 DEF RegistryInv, WordOK
<1>. QED BY <1>1 DEF RegistryInv, WordOK

LEMMA MailKept ==
  ASSUME Kinds, RegistryInv, NEW c \in R!Handlers, Stays, \A d \in R!Handlers \ {c} : Same(d),
         task'.id = task.id, dropped \subseteq dropped', NEW m \in Mails, matched'[m] = matched[m],
         heard'[m] <= 1, m \in seenFlag' => heard'[m] = 1,
         c \in Pollers /\ AtIt(c, m) /\ task.id = matched[m] =>
           runs'[task.id][m] # "none" \/ m \in dropped' \/ AtIt(c, m)'
  PROVE  MailOK(m)'
<1>1. MailOK(m) BY DEF RegistryInv
<1>2. ASSUME matched[m] # 0, task.id = matched[m]
      PROVE  runs'[task.id][m] # "none" \/ m \in dropped' \/ \E p \in Pollers : AtIt(p, m)'
  <2>1. CASE runs[task.id][m] # "none"
    <3>1. task.id \in 1..lastId
      <4>1. task.id \in 0..MaxTasks /\ lastId \in 0..MaxTasks BY DEF RegistryInv, R!TypeOK, R!Rows
      <4>2. task.id <= lastId BY DEF RegistryInv, Numbers
      <4>. QED BY <1>2, <4>1, <4>2
    <3>2. m \in R!Exts BY DEF R!Exts
    <3>. QED BY <2>1, <3>1, <3>2 DEF Stays
  <2>2. CASE m \in dropped BY <2>2
  <2>3. ASSUME NEW p \in Pollers, AtIt(p, m)
        PROVE  runs'[task.id][m] # "none" \/ m \in dropped' \/ AtIt(p, m)'
    <3>1. CASE p # c
      <4>1. Same(p) BY <3>1 DEF R!Handlers
      <4>. QED BY <2>3, <4>1 DEF Same, AtIt, R!MailOf
    <3>. QED BY <1>2, <2>3, <3>1
  <2>. QED BY <1>1, <1>2, <2>1, <2>2, <2>3 DEF MailOK
<1>. QED BY <1>2 DEF MailOK

\* A row that is there is found or updated; of two inserts one makes the row.
LEMMA PutTaskStep == ASSUME Kinds, RegistryInv, NEW c \in R!Handlers, R!PutTask(c) PROVE RegistryInv'
<1>. USE DEF R!Has, R!Goes, R!rows, R!past
<1>1. /\ handlerAt[c] = "put" /\ c \in R!Reporters /\ c \notin Edits /\ c \notin Deletes /\ c \notin Pollers
      /\ UNCHANGED <<profiles, runs, told, heard, seenFlag, got, found, says, named, patch, list, answer,
                     took, word, overlapped, matched, dropped, reportFaults>>
      /\ \/ /\ at[c] # 0 /\ handlerAt' = [handlerAt EXCEPT ![c] = "back"] /\ UNCHANGED <<task, lastId, at>>
         \/ /\ task.id = 0 /\ lastId < MaxTasks /\ lastId' = lastId + 1
            /\ task' = [R!NoTask EXCEPT !.id = lastId + 1] /\ at' = [at EXCEPT ![c] = lastId + 1]
            /\ handlerAt' = [handlerAt EXCEPT ![c] = "back"]
         \/ handlerAt' = [handlerAt EXCEPT ![c] = "raced"] /\ UNCHANGED <<task, lastId, at>>
  BY WhoIsThere DEF R!PutTask, R!Updated
<1>0. c \in Folds => says[c] # "none" /\ ~named[c]
  BY <1>1 DEF RegistryInv, HandlerOK, Carries
<1>2. CASE /\ UNCHANGED <<task, lastId, at>>
           /\ \/ at[c] # 0 /\ handlerAt' = [handlerAt EXCEPT ![c] = "back"]
              \/ handlerAt' = [handlerAt EXCEPT ![c] = "raced"]
  <2>1. R!TypeOK' BY <1>1, <1>2 DEF RegistryInv, R!TypeOK
  <2>2. \A d \in R!Handlers \ {c} : Same(d) BY <1>1, <1>2 DEF RegistryInv, R!TypeOK, Same
  <2>3. handlerAt'[c] = "raced" \/ (handlerAt'[c] = "back" /\ at'[c] # 0)
    BY <1>2 DEF RegistryInv, R!TypeOK
  <2>4. HandlerOK(c)'
    BY <1>0, <1>1, <2>3 DEF HandlerOK, Places, Carries, Answers, Recording
  <2>5. Calm /\ at'[c] <= lastId BY <1>1, <1>2 DEF Calm, RegistryInv, Numbers
  <2>. QED BY <1>1, <2>1, <2>2, <2>3, <2>4, <2>5, CalmStep
<1>3. CASE /\ task.id = 0 /\ lastId < MaxTasks /\ lastId' = lastId + 1
           /\ task' = [R!NoTask EXCEPT !.id = lastId + 1] /\ at' = [at EXCEPT ![c] = lastId + 1]
           /\ handlerAt' = [handlerAt EXCEPT ![c] = "back"]
  <2>0. lastId \in 0..MaxTasks /\ MaxTasks \in Nat /\ lastId + 1 \in 1..MaxTasks /\ lastId \in Nat
    <3>1. lastId \in 0..MaxTasks BY DEF RegistryInv, R!TypeOK
    <3>2. MaxTasks \in Nat BY RegistryAssumption DEF RegistryLimits
    <3>. QED BY <1>3, <3>1, <3>2
  <2>1. task' \in R!Rows /\ task'.id = lastId + 1
    <3>1. lastId + 1 \in 0..MaxTasks BY <2>0
    <3>. QED BY <1>3, <3>1 DEF R!NoTask, R!Rows, R!Agents
  <2>2. R!TypeOK'
    <3>1. lastId' \in 0..MaxTasks /\ at' \in [R!Handlers -> 0..MaxTasks]
      <4>1. lastId + 1 \in 0..MaxTasks BY <2>0
      <4>2. at \in [R!Handlers -> 0..MaxTasks] BY DEF RegistryInv, R!TypeOK
      <4>. QED BY <1>3, <4>1, <4>2, Zenon
    <3>2. handlerAt' \in [R!Handlers -> PlaceNames] BY <1>3 DEF RegistryInv, R!TypeOK, PlaceNames
    <3>. QED BY <1>1, <2>1, <3>1, <3>2, Zenon DEF RegistryInv, R!TypeOK, PlaceNames
  <2>3. \A d \in R!Handlers \ {c} : Same(d) BY <1>1, <1>3 DEF RegistryInv, R!TypeOK, Same
  <2>4. handlerAt'[c] = "back" /\ at'[c] = lastId + 1 BY <1>3 DEF RegistryInv, R!TypeOK
  <2>5. HandlerOK(c)'
    BY <1>0, <1>1, <2>0, <2>4 DEF HandlerOK, Places, Carries, Answers, Recording
  <2>6. Stays
    <3>1. lastId <= lastId' /\ \A i \in 1..lastId : task'.id # i BY <1>3, <2>0, <2>1
    <3>. QED BY <1>1, <3>1 DEF Stays
  <2>7. word = "none" BY <1>3 DEF RegistryInv, Numbers
  <2>8. Numbers'
    <3>1. \A n \in 0..MaxTasks : n <= lastId => n <= lastId' BY <1>3, <2>0
    <3>2. \A d \in R!Handlers : at'[d] <= lastId'
      <4>1. \A d \in R!Handlers : at[d] \in 0..MaxTasks /\ at[d] <= lastId BY DEF RegistryInv, R!TypeOK, Numbers
      <4>2. at'[c] <= lastId' BY <1>3, <2>0, <2>4
      <4>. QED BY <2>3, <3>1, <4>1, <4>2 DEF Same
    <3>3. \A m \in Mails : matched'[m] <= lastId' BY <1>1, <3>1 DEF RegistryInv, R!TypeOK, Numbers
    <3>4. task'.id <= lastId' BY <1>3, <2>0, <2>1
    <3>. QED BY <1>1, <2>7, <3>2, <3>3, <3>4 DEF Numbers
  <2>9. WordOK' BY <1>1, <2>7 DEF WordOK
  <2>10. ASSUME NEW m \in Mails PROVE MailOK(m)'
    <3>1. matched[m] <= lastId /\ matched[m] \in 0..MaxTasks BY DEF RegistryInv, R!TypeOK, Numbers
    <3>2. task'.id # matched[m] BY <2>0, <2>1, <3>1
    <3>3. MailOK(m) BY DEF RegistryInv
    <3>. QED BY <1>1, <3>2, <3>3 DEF MailOK
  <2>. QED BY <2>2, <2>3, <2>5, <2>6, <2>8, <2>9, <2>10, RowStep
<1>. QED BY <1>1, <1>2, <1>3

\* Every column is written back: what a person said last stands, unless it was read before.
LEMMA WriteRowStep == ASSUME Kinds, RegistryInv, NEW c \in R!Handlers, R!WriteRow(c) PROVE RegistryInv'
<1>. USE DEF R!Has, R!Goes, R!rows, R!past
<1>1. /\ handlerAt[c] = "write" /\ c \in R!Reporters \cup Edits /\ c \notin Deletes /\ c \notin Pollers
      /\ UNCHANGED <<lastId, profiles, runs, told, heard, seenFlag, at, says, named, patch, list,
                     took, matched, dropped, reportFaults>>
      /\ \/ UNCHANGED <<task, word, overlapped>>
         \/ /\ task.id = at[c] /\ task' = R!Patched(c)
            /\ c \notin Edits \/ patch[c] = "rename"
            /\ UNCHANGED <<word, overlapped>>
         \/ /\ task.id = at[c] /\ task' = R!Patched(c) /\ c \in Edits /\ patch[c] # "rename"
            /\ word' = patch[c] /\ overlapped' = (R!Writers(task.id) # {c})
      /\ \/ c \in Edits /\ (R!Over(c, "ok") \/ R!Over(c, "not found"))
         \/ c \notin Edits /\ R!HasItsAgent(c)
  BY WhoIsThere DEF R!WriteRow
<1>0. at[c] # 0 /\ got[c].id = at[c] /\ got[c] \in R!Rows /\ (c \in Edits => patch[c] # "none")
      /\ (c \in Edits => c \notin R!Reporters)
  BY <1>1, WhoIsThere DEF RegistryInv, R!TypeOK, HandlerOK, Carries
<1>2. /\ handlerAt' \in [R!Handlers -> PlaceNames] /\ got' \in [R!Handlers -> R!Rows]
      /\ found' \in [R!Handlers -> BOOLEAN] /\ answer' \in [R!Handlers -> AnswerNames]
      /\ \A d \in R!Handlers \ {c} : /\ handlerAt'[d] = handlerAt[d] /\ got'[d] = got[d]
                                     /\ found'[d] = found[d] /\ answer'[d] = answer[d]
      /\ HandlerOK(c)' /\ handlerAt'[c] # "write"
  <2>1. CASE c \in Edits /\ (R!Over(c, "ok") \/ R!Over(c, "not found"))
    <3>0. PICK a \in {"ok", "not found"} : R!Over(c, a) BY <2>1
    <3>1. a \in AnswerNames BY DEF AnswerNames
    <3>2. \A d \in R!Handlers \ {c} : /\ handlerAt'[d] = handlerAt[d] /\ got'[d] = got[d]
                                      /\ found'[d] = found[d] /\ answer'[d] = answer[d]
      BY <3>0 DEF RegistryInv, R!TypeOK, R!Over
    <3>3. HandlerOK(c)' /\ handlerAt'[c] # "write" BY <1>0, <1>1, <2>1, <3>0, OverOK
    <3>. QED BY <3>0, <3>1, <3>2, <3>3, OverTyped DEF RegistryInv
  <2>2. CASE c \notin Edits /\ R!HasItsAgent(c)
    <3>1. c \in R!Reporters BY <1>1, <2>2
    <3>. QED BY <1>0, <1>1, <2>2, <3>1, HasItsAgentOK
  <2>. QED BY <1>1, <2>1, <2>2
<1>3. \A d \in R!Handlers \ {c} : Same(d) BY <1>1, <1>2 DEF Same
<1>4. /\ R!Patched(c) \in R!Rows /\ R!Patched(c).id = at[c]
      /\ c \notin Edits \/ patch[c] = "rename" => R!Patched(c).enabled = got[c].enabled
      /\ c \in Edits /\ patch[c] # "rename" => R!Patched(c).enabled = (patch[c] = "resume")
  <2>1. CASE c \in Edits
    <3>1. PICK i \in 0..MaxTasks, b \in BOOLEAN, g \in R!Agents : got[c] = [id |-> i, enabled |-> b, agent |-> g]
      BY <1>0, Zenon DEF R!Rows
    <3>2. CASE patch[c] = "rename"
      <4>1. R!Patched(c) = [got[c] EXCEPT !.enabled = @] BY <2>1, <3>2 DEF R!Patched
      <4>2. R!Patched(c) = got[c] BY <3>1, <4>1
      <4>. QED BY <1>0, <3>2, <4>2
    <3>3. CASE patch[c] # "rename"
      <4>1. R!Patched(c) = [got[c] EXCEPT !.enabled = (patch[c] = "resume")] BY <2>1, <3>3 DEF R!Patched
      <4>2. (patch[c] = "resume") \in BOOLEAN OBVIOUS
      <4>3. R!Patched(c) = [id |-> i, enabled |-> (patch[c] = "resume"), agent |-> g] BY <3>1, <4>1
      <4>4. R!Patched(c) \in R!Rows
        <5>1. \A x \in BOOLEAN : [id |-> i, enabled |-> x, agent |-> g] \in R!Rows BY Zenon DEF R!Rows
        <5>. QED BY <4>2, <4>3, <5>1, Zenon
      <4>5. R!Patched(c).id = i /\ got[c].id = i /\ R!Patched(c).enabled = (patch[c] = "resume")
        BY <3>1, <4>3
      <4>. QED BY <1>0, <2>1, <3>3, <4>4, <4>5, Zenon
    <3>. QED BY <3>2, <3>3
  <2>2. CASE c \notin Edits
    <3>1. R!Patched(c) = [got[c] EXCEPT !.agent = R!Who(c)] /\ R!Who(c) \in R!Agents
      BY <2>2 DEF R!Patched, R!Who, R!Agents
    <3>. QED BY <1>0, <2>2, <3>1 DEF R!Rows
  <2>. QED BY <2>1, <2>2
<1>5. task' \in R!Rows /\ task'.id = task.id
  BY <1>1, <1>4 DEF RegistryInv, R!TypeOK
<1>6. R!TypeOK'
  <2>1. word' \in {"none", "pause", "resume"}
    <3>1. c \in Edits => patch[c] \in {"none", "pause", "resume", "rename"} BY DEF RegistryInv, R!TypeOK
    <3>. QED BY <1>1, <3>1 DEF RegistryInv, R!TypeOK
  <2>2. overlapped' \in BOOLEAN
    <3>1. (R!Writers(task.id) # {c}) \in BOOLEAN OBVIOUS
    <3>. QED BY <1>1, <3>1, Zenon DEF RegistryInv, R!TypeOK
  <2>. QED BY <1>1, <1>2, <1>5, <2>1, <2>2, Zenon DEF RegistryInv, R!TypeOK, PlaceNames, AnswerNames
<1>7. Stays
  <2>1. lastId \in 0..MaxTasks BY DEF RegistryInv, R!TypeOK
  <2>2. lastId' = lastId BY <1>1
  <2>3. lastId <= lastId' BY <2>1, <2>2
  <2>. QED BY <1>1, <1>5, <2>3 DEF Stays
<1>8. Numbers'
  <2>1. task.id = 0 => word' = "none" BY <1>0, <1>1 DEF RegistryInv, Numbers
  <2>. QED BY <1>1, <1>5, <2>1 DEF RegistryInv, Numbers
<1>9. WordOK'
  <2>1. CASE UNCHANGED <<task, word, overlapped>> BY <1>2, <1>3, <2>1, WordKept
  <2>2. CASE /\ task.id = at[c] /\ task' = R!Patched(c)
             /\ c \notin Edits \/ patch[c] = "rename"
             /\ UNCHANGED <<word, overlapped>>
    <3>1. ASSUME word # "none", ~overlapped PROVE task'.enabled = task.enabled
      <4>1. c \in R!Writers(task.id) BY <1>1, <2>2 DEF R!Writers
      <4>. QED BY <1>4, <2>2, <3>1, <4>1 DEF RegistryInv, WordOK
    <3>2. ASSUME word # "none", ~overlapped, NEW d \in R!Writers(task.id)'
          PROVE  got'[d].enabled = task.enabled
      <4>1. d \in R!Handlers /\ handlerAt'[d] = "write" /\ at'[d] = task.id BY <1>5 DEF R!Writers
      <4>2. d \in R!Writers(task.id) /\ got'[d] = got[d] BY <1>2, <1>3, <4>1 DEF Same, R!Writers
      <4>. QED BY <3>2, <4>2 DEF RegistryInv, WordOK
    <3>. QED BY <1>5, <2>2, <3>1, <3>2 DEF RegistryInv, WordOK
  <2>3. CASE /\ task.id = at[c] /\ task' = R!Patched(c) /\ c \in Edits /\ patch[c] # "rename"
             /\ word' = patch[c] /\ overlapped' = (R!Writers(task.id) # {c})
    <3>1. task'.enabled = (word' = "resume") BY <1>4, <2>3
    <3>2. ASSUME ~overlapped', NEW d \in R!Writers(task.id)' PROVE FALSE
      <4>1. d \in R!Handlers /\ handlerAt'[d] = "write" /\ at'[d] = task.id BY <1>5 DEF R!Writers
      <4>2. d # c /\ d \in R!Writers(task.id) BY <1>2, <1>3, <4>1 DEF Same, R!Writers
      <4>. QED BY <2>3, <3>2, <4>2
    <3>. QED BY <3>1, <3>2 DEF WordOK
  <2>. QED BY <1>1, <2>1, <2>2, <2>3
<1>10. ASSUME NEW m \in Mails PROVE MailOK(m)'
  <2>1. MailOK(m) BY DEF RegistryInv
  <2>. QED BY <1>1, <1>3, <1>5, <1>7, <2>1, MailKept DEF MailOK
<1>. QED BY <1>2, <1>3, <1>6, <1>7, <1>8, <1>9, <1>10, RowStep

\* A row of a run is inserted or updated with a status, and no other row is touched.
LEMMA RecordedOK ==
  ASSUME Kinds, RegistryInv, NEW c \in R!Handlers, handlerAt[c] \in Recording,
         R!Recorded(c), R!Shows(c)
  PROVE  /\ runs' \in [1..MaxTasks -> [R!Exts -> R!Statuses \cup {"none"}]]
         /\ runs'[at[c]][R!Ext(c)] # "none"
         /\ \A i \in 1..MaxTasks, x \in R!Exts : runs[i][x] # "none" => runs'[i][x] # "none"
         /\ took \subseteq took' /\ took' \subseteq R!Reporters /\ (c \in R!Reporters => c \in took')
<1>1. at[c] \in 1..MaxTasks
  <2>1. at[c] \in 0..MaxTasks BY DEF RegistryInv, R!TypeOK
  <2>2. at[c] # 0 BY DEF RegistryInv, HandlerOK, Carries
  <2>. QED BY <2>1, <2>2, RegistryAssumption DEF RegistryLimits
<1>2. says[c] # "none" /\ says[c] \in R!Statuses \cup {"none"} /\ (c \in Pollers => list[c] # {})
  BY DEF RegistryInv, R!TypeOK, HandlerOK, Carries
<1>3. R!Ext(c) \in R!Exts BY <1>2, ExtTyped
<1>4. runs \in [1..MaxTasks -> [R!Exts -> R!Statuses \cup {"none"}]] BY DEF RegistryInv, R!TypeOK
<1>5. /\ runs' \in [1..MaxTasks -> [R!Exts -> R!Statuses \cup {"none"}]]
      /\ runs'[at[c]][R!Ext(c)] = says[c]
      /\ \A i \in 1..MaxTasks, x \in R!Exts : runs'[i][x] \in {runs[i][x], says[c]}
  BY <1>1, <1>2, <1>3, <1>4 DEF R!Recorded
<1>6. R!Taken(at[c], says[c]) \subseteq R!Reporters /\ (c \in R!Reporters => c \in R!Taken(at[c], says[c]))
  BY DEF R!Taken, Recording
<1>7. took \subseteq R!Reporters BY DEF RegistryInv, R!TypeOK
<1>. QED BY <1>2, <1>5, <1>6, <1>7 DEF R!Shows

\* A report is answered with what it has written, or of a task that is gone.
LEMMA PutRunStep == ASSUME Kinds, RegistryInv, NEW c \in R!Handlers, R!PutRun(c) PROVE RegistryInv'
<1>. USE DEF R!Has, R!Goes, R!rows, R!past
<1> DEFINE there == runs[at[c]][R!Ext(c)] # "none"
           Writes == R!Recorded(c) /\ R!Shows(c)
           Ends(a) == R!Over(c, a) /\ R!Through(c)
           Moves(p) == handlerAt' = [handlerAt EXCEPT ![c] = p] /\ UNCHANGED <<list, got, found, answer>>
           Told == Writes /\ Ends("ok")
           Gone == UNCHANGED <<runs, took>> /\ task.id # at[c] /\ (Ends("ok") \/ R!Throws(c))
           Lost == UNCHANGED <<runs, took>> /\ there /\ Moves("racedRun")
           Failed == Writes /\ c \in R!Reporters /\ Moves("tell")
<1>1. /\ handlerAt[c] = "putRun" /\ c \in R!Reporters \cup Pollers /\ c \notin Edits /\ c \notin Deletes
      /\ UNCHANGED <<task, lastId, profiles, told, heard, seenFlag, at, says, named, patch,
                     word, overlapped, matched, dropped, reportFaults>>
  BY WhoIsThere DEF R!PutRun, Recording
<1>0. /\ at[c] # 0 /\ says[c] # "none" /\ (c \in Folds => ~named[c]) /\ (found[c] => Standing(c))
      /\ c \in Pollers => list[c] # {} /\ heard[R!MailOf(c)] = 1
      /\ c \in Pollers => c \notin R!Reporters
  BY <1>1, WhoIsThere DEF RegistryInv, HandlerOK, Carries, Recording
<1>2. Told \/ Gone \/ Lost \/ Failed
  <2>1. CASE found[c] BY <1>0, <2>1 DEF R!PutRun, Standing
  <2>2. CASE ~found[c] BY <2>2 DEF R!PutRun
  <2>. QED BY <2>1, <2>2
<1>3. /\ runs' \in [1..MaxTasks -> [R!Exts -> R!Statuses \cup {"none"}]]
      /\ \A i \in 1..MaxTasks, x \in R!Exts : runs[i][x] # "none" => runs'[i][x] # "none"
      /\ took \subseteq took' /\ took' \subseteq R!Reporters
      /\ Writes => runs'[at[c]][R!Ext(c)] # "none" /\ (c \in R!Reporters => c \in took')
  <2>1. CASE Writes BY <1>1, <2>1, RecordedOK DEF Recording
  <2>2. CASE UNCHANGED <<runs, took>> BY <1>1, <2>2, RecordedOK DEF RegistryInv, R!TypeOK, Recording
  <2>. QED BY <1>2, <2>1, <2>2
<1>4. Stays
  <2>1. lastId \in 0..MaxTasks /\ MaxTasks \in Nat
    BY RegistryAssumption DEF RegistryInv, R!TypeOK, RegistryLimits
  <2>2. lastId <= lastId' /\ 1..lastId \subseteq 1..MaxTasks BY <1>1, <2>1
  <2>. QED BY <1>1, <1>3, <2>2 DEF Stays
<1>5. ASSUME Told \/ Gone, Ends("ok")
      PROVE  /\ R!TypeOK' /\ (\A d \in R!Handlers \ {c} : Same(d))
             /\ HandlerOK(c)' /\ handlerAt'[c] # "write"
  <2>1. R!Over(c, "ok") /\ R!Through(c) BY <1>5
  <2>2. "ok" \in AnswerNames BY DEF AnswerNames
  <2>3. R!TypeOK'
    <3>1. list' \in [Pollers -> SUBSET Mails] BY <2>1, ThroughTyped DEF RegistryInv
    <3>2. /\ handlerAt' \in [R!Handlers -> PlaceNames] /\ got' \in [R!Handlers -> R!Rows]
          /\ found' \in [R!Handlers -> BOOLEAN] /\ answer' \in [R!Handlers -> AnswerNames]
      BY <2>1, <2>2, OverTyped DEF RegistryInv
    <3>. QED BY <1>1, <1>3, <3>1, <3>2, Zenon DEF RegistryInv, R!TypeOK, PlaceNames, AnswerNames
  <2>4. \A d \in R!Handlers \ {c} : Same(d)
    <3>1. \A d \in Pollers : d # c => list'[d] = list[d] BY <2>1, ThroughTyped DEF RegistryInv
    <3>2. \A d \in R!Handlers \ {c} : /\ handlerAt'[d] = handlerAt[d] /\ got'[d] = got[d]
                                      /\ found'[d] = found[d] /\ answer'[d] = answer[d]
      BY <2>1 DEF RegistryInv, R!TypeOK, R!Over
    <3>. QED BY <1>1, <3>1, <3>2 DEF Same
  <2>5. HandlerOK(c)' /\ handlerAt'[c] # "write"
    <3>1. CASE c \in Pollers BY <2>1, <3>1, PollerOverOK
    <3>2. CASE c \notin Pollers
      <4>1. c \in R!Reporters => at'[c] # 0 /\ (c \in took' \/ task'.id # at'[c])
        BY <1>0, <1>1, <1>3, <1>5
      <4>. QED BY <1>1, <2>1, <3>2, <4>1, OverOK
    <3>. QED BY <3>1, <3>2
  <2>. QED BY <2>3, <2>4, <2>5
<1>6. ASSUME Lost \/ Failed
      PROVE  /\ R!TypeOK' /\ (\A d \in R!Handlers \ {c} : Same(d))
             /\ HandlerOK(c)' /\ handlerAt'[c] # "write"
  <2>1. PICK p \in {"racedRun", "tell"} : Moves(p) BY <1>6
  <2>2. handlerAt' \in [R!Handlers -> PlaceNames] /\ handlerAt'[c] = p
    BY <2>1 DEF RegistryInv, R!TypeOK, PlaceNames
  <2>3. R!TypeOK'
    BY <1>1, <1>3, <2>1, <2>2, Zenon DEF RegistryInv, R!TypeOK, PlaceNames
  <2>4. \A d \in R!Handlers \ {c} : Same(d) BY <1>1, <2>1 DEF RegistryInv, R!TypeOK, Same
  <2>5. R!Ext(c)' = R!Ext(c) /\ R!MailOf(c)' = R!MailOf(c) BY <2>1 DEF R!Ext, R!MailOf
  <2>6. (p = "racedRun" => Standing(c)') /\ (p = "tell" => c \in took' /\ c \in R!Reporters)
    <3>1. CASE Lost
      <4>1. handlerAt'[c] = "racedRun" BY <3>1 DEF RegistryInv, R!TypeOK
      <4>. QED BY <1>1, <2>2, <2>5, <3>1, <4>1 DEF Standing
    <3>2. CASE Failed
      <4>1. handlerAt'[c] = "tell" BY <3>2 DEF RegistryInv, R!TypeOK
      <4>. QED BY <1>3, <2>2, <3>2, <4>1
    <3>. QED BY <1>6, <3>1, <3>2
  <2>7. Places(c)' BY <1>0, <1>1, <2>2, <2>6 DEF Places, Recording
  <2>8. Carries(c)' BY <1>0, <1>1, <2>1, <2>2, <2>5, <2>6 DEF Carries, Recording
  <2>9. Answers(c)' BY <2>2, <2>6 DEF Answers
  <2>. QED BY <2>2, <2>3, <2>4, <2>7, <2>8, <2>9 DEF HandlerOK
<1>t. ASSUME Gone, R!Throws(c)
      PROVE  /\ R!TypeOK' /\ (\A d \in R!Handlers \ {c} : Same(d))
             /\ HandlerOK(c)' /\ handlerAt'[c] # "write"
  <2>1. R!TypeOK'
    BY <1>1, <1>3, <1>t, ThrowsOK, Zenon DEF RegistryInv, R!TypeOK, Recording, PlaceNames, AnswerNames
  <2>. QED BY <1>1, <1>t, <2>1, ThrowsOK DEF Recording
<1>7. /\ R!TypeOK' /\ (\A d \in R!Handlers \ {c} : Same(d))
      /\ HandlerOK(c)' /\ handlerAt'[c] # "write"
  BY <1>2, <1>5, <1>6, <1>t
<1>8. Numbers' BY <1>1 DEF RegistryInv, Numbers
<1>9. WordOK' BY <1>1, <1>7, WordKept
<1>10. ASSUME NEW m \in Mails PROVE MailOK(m)'
  <2>1. MailOK(m) BY DEF RegistryInv
  <2>2. ASSUME c \in Pollers, AtIt(c, m), task.id = matched[m]
        PROVE  runs'[task.id][m] # "none"
    <3>1. R!Ext(c) = m /\ at[c] = task.id BY <2>2 DEF AtIt, R!Ext
    <3>2. at[c] \in 1..MaxTasks /\ m \in R!Exts
      <4>1. at[c] \in 0..MaxTasks BY DEF RegistryInv, R!TypeOK
      <4>2. at[c] \in 1..MaxTasks BY <1>0, <4>1, RegistryAssumption DEF RegistryLimits
      <4>. QED BY <4>2 DEF R!Exts
    <3>3. CASE Writes BY <1>3, <3>1, <3>3
    <3>4. CASE Lost BY <1>3, <3>1, <3>2, <3>4
    <3>. QED BY <1>2, <3>1, <3>3, <3>4
  <2>. QED BY <1>1, <1>4, <1>7, <2>1, <2>2, MailKept DEF MailOK
<1>. QED BY <1>4, <1>7, <1>8, <1>9, <1>10, RowStep

\* A task that is deleted takes its runs and what was said of it along.
LEMMA DeleteStep == ASSUME Kinds, RegistryInv, NEW c \in R!Handlers, R!Delete(c) PROVE RegistryInv'
<1>. USE DEF R!Has, R!Goes, R!rows, R!past
<1>1. /\ c \in Deletes /\ task.id # 0 /\ task' = R!NoTask
      /\ runs' = [runs EXCEPT ![task.id] = [x \in R!Exts |-> "none"]]
      /\ word' = "none" /\ overlapped' = FALSE /\ R!Over(c, "ok")
      /\ UNCHANGED <<lastId, profiles, told, heard, seenFlag, at, says, named, patch, list, took, matched,
                     dropped, reportFaults>>
  BY DEF R!Delete
<1>2. task'.id = 0 /\ task' \in R!Rows BY <1>1, NoTaskTyped DEF R!NoTask, RegistryInv
<1>3. runs' \in [1..MaxTasks -> [R!Exts -> R!Statuses \cup {"none"}]]
      /\ \A i \in 1..MaxTasks : i # task.id => runs'[i] = runs[i]
  BY <1>1 DEF RegistryInv, R!TypeOK
<1>4. R!TypeOK'
  <2>1. "ok" \in AnswerNames BY DEF AnswerNames
  <2>2. word' \in {"none", "pause", "resume"} /\ overlapped' \in BOOLEAN BY <1>1
  <2>3. /\ handlerAt' \in [R!Handlers -> PlaceNames] /\ got' \in [R!Handlers -> R!Rows]
        /\ found' \in [R!Handlers -> BOOLEAN] /\ answer' \in [R!Handlers -> AnswerNames]
    BY <1>1, <2>1, OverTyped DEF RegistryInv
  <2>. QED BY <1>1, <1>2, <1>3, <2>2, <2>3, Zenon DEF RegistryInv, R!TypeOK, PlaceNames, AnswerNames
<1>5. \A d \in R!Handlers \ {c} : Same(d) BY <1>1, OverSame DEF RegistryInv
<1>6. HandlerOK(c)'
  <2>1. c \notin R!Reporters /\ c \notin Edits /\ c \notin Pollers BY <1>1, WhoIsThere
  <2>2. handlerAt'[c] = "over" BY <1>1, <2>1 DEF RegistryInv, R!TypeOK, R!Over
  <2>. QED BY <1>1, <2>1, <2>2 DEF HandlerOK, Places, Carries, Answers, Recording, R!Reporters
<1>7. lastId \in 0..MaxTasks /\ MaxTasks \in Nat
  BY RegistryAssumption DEF RegistryInv, R!TypeOK, RegistryLimits
<1>8. Stays
  <2>1. lastId <= lastId' /\ 1..lastId \subseteq 1..MaxTasks /\ 0 \notin 1..lastId BY <1>1, <1>7
  <2>2. \A i \in 1..lastId : task'.id # i BY <1>2, <2>1
  <2>. QED BY <1>1, <2>1, <2>2 DEF Stays
<1>9. Numbers'
  <2>1. task'.id <= lastId' BY <1>1, <1>2, <1>7
  <2>. QED BY <1>1, <2>1 DEF RegistryInv, Numbers
<1>10. WordOK' BY <1>1 DEF WordOK
<1>11. ASSUME NEW m \in Mails PROVE MailOK(m)'
  <2>1. MailOK(m) BY DEF RegistryInv
  <2>. QED BY <1>1, <1>2, <2>1 DEF MailOK
<1>. QED BY <1>4, <1>5, <1>6, <1>8, <1>9, <1>10, <1>11, RowStep

\* The event tells who was the first to hear of the mail.
LEMMA HearStep == ASSUME Kinds, RegistryInv, NEW c \in R!Handlers, R!Hear(c) PROVE RegistryInv'
<1>. USE DEF R!Has, R!Goes, R!rows, R!past
<1> DEFINE news == heard[R!MailOf(c)] = 0
<1>1. /\ c \in Pollers /\ handlerAt[c] = "mail" /\ list[c] # {}
      /\ heard' = [heard EXCEPT ![R!MailOf(c)] = R!Once(@)] /\ found' = [found EXCEPT ![c] = news]
      /\ handlerAt' = [handlerAt EXCEPT ![c] = "flag"]
      /\ UNCHANGED <<task, lastId, profiles, runs, told, seenFlag, at, got, says, named, patch, list, answer,
                     took, word, overlapped, matched, dropped, reportFaults>>
  BY WhoIsThere DEF R!Hear
<1>2. R!MailOf(c) \in Mails BY <1>1, ExtTyped
<1>3. \A m \in Mails : heard[m] \in Nat /\ heard[m] <= 1 BY DEF RegistryInv, R!TypeOK, MailOK
<1>4. heard' \in [Mails -> Nat] /\ heard'[R!MailOf(c)] = 1
      /\ \A m \in Mails : heard'[m] <= 1 /\ (heard[m] = 1 => heard'[m] = 1)
  <2>1. R!Once(heard[R!MailOf(c)]) = 1 BY <1>2, <1>3 DEF R!Once
  <2>2. heard' = [heard EXCEPT ![R!MailOf(c)] = 1] BY <1>1, <2>1
  <2>3. heard \in [Mails -> Nat] BY DEF RegistryInv, R!TypeOK
  <2>. QED BY <1>2, <1>3, <2>2, <2>3
<1>5. R!TypeOK'
  <2>1. news \in BOOLEAN OBVIOUS
  <2>2. found' \in [R!Handlers -> BOOLEAN] BY <1>1, <2>1, Zenon DEF RegistryInv, R!TypeOK
  <2>3. handlerAt' \in [R!Handlers -> PlaceNames] BY <1>1 DEF RegistryInv, R!TypeOK, PlaceNames
  <2>. QED BY <1>1, <1>4, <2>2, <2>3, Zenon DEF RegistryInv, R!TypeOK, PlaceNames
<1>6. \A d \in R!Handlers \ {c} : Same(d) BY <1>1 DEF RegistryInv, R!TypeOK, Same
<1>7. handlerAt'[c] = "flag" BY <1>1 DEF RegistryInv, R!TypeOK
<1>8. HandlerOK(c)'
  <2>1. c \notin R!Reporters /\ c \notin Edits /\ c \notin Deletes BY <1>1, WhoIsThere
  <2>2. R!MailOf(c)' = R!MailOf(c) BY <1>1 DEF R!MailOf
  <2>. QED BY <1>1, <1>4, <1>7, <2>1, <2>2 DEF HandlerOK, Places, Carries, Answers, Recording, R!Reporters
<1>9. Stays
  <2>1. lastId \in 0..MaxTasks BY DEF RegistryInv, R!TypeOK
  <2>2. lastId <= lastId' BY <1>1, <2>1
  <2>. QED BY <1>1, <1>4, <2>2 DEF Stays
<1>10. Numbers' BY <1>1 DEF RegistryInv, Numbers
<1>11. WordOK' BY <1>1, <1>6, <1>7, WordKept
<1>12. ASSUME NEW m \in Mails PROVE MailOK(m)'
  <2>1. MailOK(m) BY DEF RegistryInv
  <2>2. ~AtIt(c, m) BY <1>1 DEF AtIt, Recording
  <2>. QED BY <1>1, <1>4, <1>6, <1>9, <2>1, <2>2, MailKept DEF MailOK
<1>. QED BY <1>5, <1>6, <1>8, <1>9, <1>10, <1>11, <1>12, RowStep

LEMMA FlagStep == ASSUME Kinds, RegistryInv, NEW c \in R!Handlers, R!Flag(c) PROVE RegistryInv'
<1>. USE DEF R!Has, R!Goes, R!rows, R!past
<1>1. /\ c \in Pollers /\ handlerAt[c] = "flag" /\ seenFlag' = seenFlag \cup {R!MailOf(c)}
      /\ \/ handlerAt' = [handlerAt EXCEPT ![c] = "match"] /\ UNCHANGED list
         \/ handlerAt' = [handlerAt EXCEPT ![c] = "mail"] /\ R!Through(c)
      /\ UNCHANGED <<task, lastId, profiles, runs, told, heard, at, got, found, says, named, patch, answer,
                     took, word, overlapped, matched, dropped, reportFaults>>
  BY WhoIsThere DEF R!Flag
<1>0. list[c] # {} /\ heard[R!MailOf(c)] = 1
  BY <1>1 DEF RegistryInv, HandlerOK, Carries
<1>2. R!MailOf(c) \in Mails BY <1>0, <1>1, ExtTyped
<1>3. list' \in [Pollers -> SUBSET Mails] /\ \A p \in Pollers : p # c => list'[p] = list[p]
  <2>1. CASE R!Through(c) BY <2>1, ThroughTyped DEF RegistryInv
  <2>2. CASE UNCHANGED list BY <2>2 DEF RegistryInv, R!TypeOK
  <2>. QED BY <1>1, <2>1, <2>2
<1>4. handlerAt' \in [R!Handlers -> PlaceNames] /\ handlerAt'[c] \in {"match", "mail"}
      /\ \A d \in R!Handlers \ {c} : handlerAt'[d] = handlerAt[d]
  BY <1>1 DEF RegistryInv, R!TypeOK, PlaceNames
<1>5. R!TypeOK' BY <1>1, <1>2, <1>3, <1>4, Zenon DEF RegistryInv, R!TypeOK, PlaceNames
<1>6. \A d \in R!Handlers \ {c} : Same(d) BY <1>1, <1>3, <1>4 DEF Same
<1>7. HandlerOK(c)'
  <2>1. c \notin R!Reporters /\ c \notin Edits /\ c \notin Deletes BY <1>1, WhoIsThere
  <2>2. CASE handlerAt'[c] = "mail"
    BY <1>1, <2>1, <2>2 DEF HandlerOK, Places, Carries, Answers, Recording, R!Reporters
  <2>3. CASE handlerAt'[c] = "match"
    <3>1. UNCHANGED list BY <1>1, <2>3 DEF RegistryInv, R!TypeOK
    <3>2. R!MailOf(c)' = R!MailOf(c) BY <3>1 DEF R!MailOf
    <3>. QED BY <1>0, <1>1, <2>1, <2>3, <3>1, <3>2
         DEF HandlerOK, Places, Carries, Answers, Recording, R!Reporters
  <2>. QED BY <1>4, <2>2, <2>3
<1>8. Stays
  <2>1. lastId \in 0..MaxTasks BY DEF RegistryInv, R!TypeOK
  <2>2. lastId <= lastId' BY <1>1, <2>1
  <2>. QED BY <1>1, <2>2 DEF Stays
<1>9. Numbers' BY <1>1 DEF RegistryInv, Numbers
<1>10. WordOK' BY <1>1, <1>4, <1>6, WordKept
<1>11. ASSUME NEW m \in Mails PROVE MailOK(m)'
  <2>1. MailOK(m) BY DEF RegistryInv
  <2>2. ~AtIt(c, m) BY <1>1 DEF AtIt, Recording
  <2>3. m \in seenFlag' => heard'[m] = 1 BY <1>0, <1>1, <2>1 DEF MailOK
  <2>. QED BY <1>1, <1>6, <1>8, <2>1, <2>2, <2>3, MailKept DEF MailOK
<1>. QED BY <1>5, <1>6, <1>7, <1>8, <1>9, <1>10, <1>11, RowStep

\* Who matches a mail with a task is at it from then on.
LEMMA MatchStep == ASSUME Kinds, RegistryInv, NEW c \in R!Handlers, R!Match(c) PROVE RegistryInv'
<1>. USE DEF R!Has, R!Goes, R!rows, R!past
<1>1. PICK s \in R!Statuses :
        /\ c \in Pollers /\ handlerAt[c] = "match" /\ at' = [at EXCEPT ![c] = task.id]
        /\ matched' = [matched EXCEPT ![R!MailOf(c)] = task.id] /\ says' = [says EXCEPT ![c] = s]
        /\ \/ task.id = 0 /\ handlerAt' = [handlerAt EXCEPT ![c] = "mail"] /\ R!Through(c)
           \/ task.id # 0 /\ handlerAt' = [handlerAt EXCEPT ![c] = "findRun"] /\ UNCHANGED list
        /\ UNCHANGED <<task, lastId, profiles, runs, told, heard, seenFlag, got, found, named, patch, answer,
                       took, word, overlapped, dropped, reportFaults>>
  BY WhoIsThere DEF R!Match
<1>0. list[c] # {} /\ heard[R!MailOf(c)] = 1
  BY <1>1 DEF RegistryInv, HandlerOK, Carries
<1>2. R!MailOf(c) \in Mails BY <1>0, <1>1, ExtTyped
<1>3. list' \in [Pollers -> SUBSET Mails] /\ \A p \in Pollers : p # c => list'[p] = list[p]
  <2>1. CASE R!Through(c) BY <2>1, ThroughTyped DEF RegistryInv
  <2>2. CASE UNCHANGED list BY <2>2 DEF RegistryInv, R!TypeOK
  <2>. QED BY <1>1, <2>1, <2>2
<1>4. /\ handlerAt' \in [R!Handlers -> PlaceNames]
      /\ task.id = 0 => handlerAt'[c] = "mail"
      /\ task.id # 0 => handlerAt'[c] = "findRun" /\ list' = list
      /\ at'[c] = task.id /\ says'[c] = s /\ s # "none"
      /\ matched'[R!MailOf(c)] = task.id /\ \A m \in Mails : m # R!MailOf(c) => matched'[m] = matched[m]
  BY <1>1, <1>2 DEF RegistryInv, R!TypeOK, R!Statuses, PlaceNames
<1>t. task.id \in 0..MaxTasks /\ task.id <= lastId BY DEF RegistryInv, R!TypeOK, R!Rows, Numbers
<1>5. R!TypeOK'
  <2>1. at' \in [R!Handlers -> 0..MaxTasks] /\ matched' \in [Mails -> 0..MaxTasks]
        /\ says' \in [R!Handlers -> R!Statuses \cup {"none"}]
    <3>1. at \in [R!Handlers -> 0..MaxTasks] /\ matched \in [Mails -> 0..MaxTasks]
          /\ says \in [R!Handlers -> R!Statuses \cup {"none"}]
      BY DEF RegistryInv, R!TypeOK
    <3>. QED BY <1>1, <1>t, <3>1, Zenon
  <2>. QED BY <1>1, <1>3, <1>4, <2>1, Zenon DEF RegistryInv, R!TypeOK, PlaceNames
<1>6. \A d \in R!Handlers \ {c} : Same(d)
  <2>1. \A d \in R!Handlers \ {c} : handlerAt'[d] = handlerAt[d] /\ at'[d] = at[d] /\ says'[d] = says[d]
    BY <1>1 DEF RegistryInv, R!TypeOK
  <2>. QED BY <1>1, <1>3, <2>1 DEF Same
<1>7. HandlerOK(c)'
  <2>1. c \notin R!Reporters /\ c \notin Edits /\ c \notin Deletes BY <1>1, WhoIsThere
  <2>2. CASE task.id = 0
    BY <1>1, <1>4, <2>1, <2>2 DEF HandlerOK, Places, Carries, Answers, Recording, R!Reporters
  <2>3. CASE task.id # 0
    <3>1. R!MailOf(c)' = R!MailOf(c) BY <1>4, <2>3 DEF R!MailOf
    <3>. QED BY <1>0, <1>1, <1>4, <2>1, <2>3, <3>1
         DEF HandlerOK, Places, Carries, Answers, Recording, R!Reporters
  <2>. QED BY <2>2, <2>3
<1>8. Stays
  <2>1. lastId \in 0..MaxTasks BY DEF RegistryInv, R!TypeOK
  <2>2. lastId <= lastId' BY <1>1, <2>1
  <2>. QED BY <1>1, <2>2 DEF Stays
<1>9. Numbers'
  <2>1. \A d \in R!Handlers : at'[d] <= lastId BY <1>4, <1>6, <1>t DEF RegistryInv, Numbers, Same
  <2>2. \A m \in Mails : matched'[m] <= lastId BY <1>4, <1>t DEF RegistryInv, Numbers
  <2>. QED BY <1>1, <2>1, <2>2 DEF RegistryInv, Numbers
<1>10. WordOK' BY <1>1, <1>4, <1>6, WordKept
<1>11. ASSUME NEW m \in Mails PROVE MailOK(m)'
  <2>1. MailOK(m) BY DEF RegistryInv
  <2>2. CASE m # R!MailOf(c)
    <3>1. ~AtIt(c, m) BY <1>1 DEF AtIt, Recording
    <3>. QED BY <1>1, <1>4, <1>6, <1>8, <2>1, <2>2, <3>1, MailKept DEF MailOK
  <2>3. CASE m = R!MailOf(c)
    <3>1. task.id # 0 => AtIt(c, m)'
      <4>1. task.id # 0 => R!MailOf(c)' = R!MailOf(c) BY <1>4 DEF R!MailOf
      <4>. QED BY <1>0, <1>4, <2>3, <4>1 DEF AtIt, Recording
    <3>. QED BY <1>1, <1>4, <2>1, <2>3, <3>1 DEF MailOK
  <2>. QED BY <2>2, <2>3
<1>. QED BY <1>5, <1>6, <1>7, <1>8, <1>9, <1>10, <1>11, RowStep

\* A handler that is cut off leaves its rows; the mails it had are dropped.
LEMMA FailsStep == ASSUME Kinds, RegistryInv, NEW c \in R!Handlers, R!Fails(c) PROVE RegistryInv'
<1>. USE DEF R!Has, R!Goes, R!rows, R!past
<1>1. /\ reportFaults < MaxFaults /\ reportFaults' = reportFaults + 1
      /\ handlerAt[c] # "idle" /\ got' = [got EXCEPT ![c] = R!NoTask] /\ found' = [found EXCEPT ![c] = FALSE]
      /\ \/ /\ c \in Pollers /\ handlerAt' = [handlerAt EXCEPT ![c] = "idle"]
            /\ dropped' = dropped \cup list[c] /\ list' = [list EXCEPT ![c] = {}] /\ UNCHANGED answer
         \/ /\ c \notin Pollers /\ handlerAt' = [handlerAt EXCEPT ![c] = "over"]
            /\ UNCHANGED <<dropped, list>> /\ answer' = [answer EXCEPT ![c] = "error"]
      /\ UNCHANGED <<task, lastId, profiles, runs, told, heard, seenFlag, at, says, named, patch,
                     took, word, overlapped, matched>>
  BY DEF R!Fails
<1>2. /\ handlerAt' \in [R!Handlers -> PlaceNames] /\ answer' \in [R!Handlers -> AnswerNames]
      /\ list' \in [Pollers -> SUBSET Mails] /\ dropped' \subseteq Mails /\ dropped \subseteq dropped'
      /\ c \in Pollers => handlerAt'[c] = "idle" /\ list[c] \subseteq dropped'
      /\ c \notin Pollers => handlerAt'[c] = "over" /\ answer'[c] = "error"
      /\ \A d \in R!Handlers \ {c} : handlerAt'[d] = handlerAt[d] /\ answer'[d] = answer[d]
      /\ \A p \in Pollers : p # c => list'[p] = list[p]
  <2>1. CASE c \in Pollers
    <3>1. /\ handlerAt' = [handlerAt EXCEPT ![c] = "idle"] /\ UNCHANGED answer
          /\ dropped' = dropped \cup list[c] /\ list' = [list EXCEPT ![c] = {}]
      BY <1>1, <2>1
    <3>. QED BY <2>1, <3>1 DEF RegistryInv, R!TypeOK, PlaceNames, AnswerNames
  <2>2. CASE c \notin Pollers
    <3>1. /\ handlerAt' = [handlerAt EXCEPT ![c] = "over"]
          /\ answer' = [answer EXCEPT ![c] = "error"] /\ UNCHANGED <<dropped, list>>
      BY <1>1, <2>2
    <3>. QED BY <2>2, <3>1 DEF RegistryInv, R!TypeOK, PlaceNames, AnswerNames
  <2>. QED BY <2>1, <2>2
<1>3. R!TypeOK'
  <2>1. reportFaults' \in 0..MaxFaults
    <3>1. reportFaults \in 0..MaxFaults /\ MaxFaults \in Nat
      BY RegistryAssumption DEF RegistryInv, R!TypeOK, RegistryLimits
    <3>. QED BY <1>1, <3>1
  <2>2. got' \in [R!Handlers -> R!Rows] BY <1>1, NoTaskTyped DEF RegistryInv, R!TypeOK
  <2>3. found' \in [R!Handlers -> BOOLEAN] BY <1>1 DEF RegistryInv, R!TypeOK
  <2>. QED BY <1>1, <1>2, <2>1, <2>2, <2>3, Zenon DEF RegistryInv, R!TypeOK, PlaceNames, AnswerNames
<1>4. \A d \in R!Handlers \ {c} : Same(d)
  <2>1. \A d \in R!Handlers \ {c} : got'[d] = got[d] /\ found'[d] = found[d]
    BY <1>1 DEF RegistryInv, R!TypeOK
  <2>. QED BY <1>1, <1>2, <2>1 DEF Same
<1>5. HandlerOK(c)'
  <2>1. CASE c \in Pollers
    <3>1. c \notin R!Reporters /\ c \notin Edits /\ c \notin Deletes BY <2>1, WhoIsThere
    <3>. QED BY <1>2, <2>1, <3>1 DEF HandlerOK, Places, Carries, Answers, Recording, R!Reporters
  <2>2. CASE c \notin Pollers
    <3>1. c \in Folds => says[c] # "none" /\ ~named[c] BY <1>1 DEF RegistryInv, HandlerOK, Carries
    <3>. QED BY <1>1, <1>2, <2>2, <3>1 DEF HandlerOK, Places, Carries, Answers, Recording
  <2>. QED BY <2>1, <2>2
<1>6. Stays
  <2>1. lastId \in 0..MaxTasks BY DEF RegistryInv, R!TypeOK
  <2>2. lastId <= lastId' BY <1>1, <2>1
  <2>. QED BY <1>1, <2>2 DEF Stays
<1>7. Numbers' BY <1>1 DEF RegistryInv, Numbers
<1>8. WordOK'
  <2>1. handlerAt'[c] # "write" BY <1>2
  <2>. QED BY <1>1, <1>4, <2>1, WordKept
<1>9. ASSUME NEW m \in Mails PROVE MailOK(m)'
  <2>1. MailOK(m) BY DEF RegistryInv
  <2>2. c \in Pollers /\ AtIt(c, m) => m \in dropped'
    <3>1. c \in Pollers /\ list[c] # {} => R!MailOf(c) \in list[c] BY ExtTyped
    <3>. QED BY <1>2, <3>1 DEF AtIt
  <2>. QED BY <1>1, <1>2, <1>4, <1>6, <2>1, <2>2, MailKept DEF MailOK
<1>. QED BY <1>3, <1>4, <1>5, <1>6, <1>7, <1>8, <1>9, RowStep

LEMMA RegistryStep == ASSUME Kinds, RegistryInv, [R!Next]_(R!vars) PROVE RegistryInv'
<1>1. CASE R!Next
  <2>1. PICK c \in R!Handlers : R!Report(c) \/ R!Edit(c) \/ R!Delete(c) \/ R!Poll(c) \/ R!Step(c) \/ R!Fails(c)
    BY <1>1 DEF R!Next
  <2>2. CASE R!Step(c)
    BY <2>2, FindTaskStep, PutTaskStep, RacedStep, ReadBackStep, FindProfileStep, PutProfileStep,
       ReadRowStep, WriteRowStep, FoldTaskStep, FindRunStep, PutRunStep, TellStep, RacedRunStep,
       PollEndsStep, HearStep, FlagStep, MatchStep
    DEF R!Step
  <2>. QED BY <2>1, <2>2, ReportStep, EditStep, DeleteStep, PollStep, FailsStep
<1>2. CASE UNCHANGED R!vars
  <2>1. UNCHANGED registryVars BY <1>2 DEF R!vars, R!rows, R!own, R!past, registryVars
  <2>2. R!TypeOK' BY <2>1 DEF registryVars, RegistryInv, R!TypeOK
  <2>3. Calm /\ \A d \in R!Handlers : Same(d) BY <2>1 DEF registryVars, Calm, Same
  <2>4. \A d \in R!Handlers : HandlerOK(d)' BY <2>3, CalmStays, OthersStay DEF RegistryInv
  <2>5. Numbers' BY <2>1 DEF registryVars, RegistryInv, Numbers
  <2>6. WordOK' BY <2>1 DEF registryVars, RegistryInv, WordOK, R!Writers
  <2>7. \A m \in Mails : MailOK(m)' BY <2>1 DEF registryVars, RegistryInv, MailOK, AtIt, R!MailOf
  <2>. QED BY <2>2, <2>4, <2>5, <2>6, <2>7 DEF RegistryInv
<1>. QED BY <1>1, <1>2

----------------------------------------------------------------------------
\* What the handlers of the registry rely on holds in every state they reach, for every
\* number of agents, syncs, people, mailboxes and mails.
THEOREM RegistryInvariant == R!Spec => []RegistryInv
<1>1. R!Init => RegistryInv BY RegistryStart, RegistryAssumption
<1>2. RegistryInv /\ [R!Next]_(R!vars) => RegistryInv' BY RegistryStep, RegistryAssumption
<1>. QED BY <1>1, <1>2, PTL DEF R!Spec

\* A report that was answered "ok" has been in its run's row, or the task has gone, however
\* many report the same run at once (recordRun and its retry after the unique index).
THEOREM ReportsTakeEffect == R!Spec => []ReportTakesEffect
<1>1. RegistryInv => ReportTakesEffect
  <2>1. SUFFICES ASSUME RegistryInv, NEW c \in R!Reporters, handlerAt[c] = "over", answer[c] = "ok",
                        says[c] # "none"
                 PROVE  c \in took \/ task.id # at[c]
    BY DEF ReportTakesEffect, R!ReportTakesEffect
  <2>2. c \in R!Handlers BY DEF R!Handlers
  <2>3. Answers(c) BY <2>1, <2>2 DEF RegistryInv, HandlerOK
  <2>. QED BY <2>1, <2>3 DEF Answers
<1>. QED BY <1>1, RegistryInvariant, PTL

\* A pause stands against every push and every sync whose write of the whole row (upsertTask,
\* updateTask) did not overlap it.
THEOREM PausesStand == R!Spec => []PauseStands
<1>1. RegistryInv => PauseStands BY DEF RegistryInv, WordOK, PauseStands, R!PauseStands
<1>. QED BY <1>1, RegistryInvariant, PTL

\* A mail that was gone through is one event, and a run of the task it names, however many
\* processes poll the mailbox (pollOnceInner), unless its poller failed between the two.
THEOREM MailsBecomeOneRun == R!Spec => []MailBecomesOneRun
<1>1. RegistryInv => MailBecomesOneRun
  <2>1. SUFFICES ASSUME RegistryInv, NEW m \in Mails
                 PROVE  /\ heard[m] <= 1
                        /\ m \in seenFlag \ dropped /\ (\A p \in Pollers : m \notin list[p]) =>
                             heard[m] = 1 /\ (matched[m] # 0 /\ task.id = matched[m] => runs[task.id][m] # "none")
    BY DEF MailBecomesOneRun, R!MailBecomesOneRun
  <2>2. MailOK(m) BY <2>1 DEF RegistryInv
  <2>3. ASSUME NEW p \in Pollers, AtIt(p, m) PROVE m \in list[p]
    <3>1. list[p] # {} => R!MailOf(p) \in list[p] BY DEF R!MailOf
    <3>. QED BY <2>3, <3>1 DEF AtIt
  <2>. QED BY <2>2, <2>3 DEF MailOK
<1>. QED BY <1>1, RegistryInvariant, PTL
=============================================================================
