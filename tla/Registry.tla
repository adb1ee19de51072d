------------------------------ MODULE Registry ------------------------------
(***************************************************************************)
(* One task of the registry and who writes to it at once: agents that push *)
(* what they did (POST /ingest), the fold of a sync, the pollers of the    *)
(* mailbox, and a person who edits or deletes it.  Every handler is a few  *)
(* statements with an await between each two; rows that two insert at once *)
(* are decided by the unique indexes (data/src/index.ts).                  *)
(***************************************************************************)
EXTENDS Naturals

CONSTANTS
  Pushes,    \* reports that name their agent's profile or not
  Folds,     \* what a sync found: the task, then its run
  Edits,     \* a person's changes (PATCH /tasks/:id)
  Deletes,
  Pollers,   \* the mailbox loop of each process, and the polls asked for
  Mails,
  MaxTasks,  \* bound: task rows ever made
  MaxFaults, \* bound: statements that throw, processes that die
  Reported   \* the external id of the run the reports are about

VARIABLES
  task,      \* the row of (platform, key); its id is 0 while there is none
  lastId,
  profiles,  \* the rows of agent_profiles
  runs,      \* [1..MaxTasks -> [external ids -> status]]
  told,      \* the tasks of whose run there is an event
  heard,     \* [Mails -> how many events a mail has become]
  seenFlag,  \* the mails flagged \Seen
  pc, at,    \* where a handler is, and the task id it works with
  got,       \* the task row it has read and will write back
  found,     \* what its last look for a row said
  says,      \* the status it reports, "none" if it reports no run
  named,     \* whether it names a profile
  patch,     \* what an edit sets
  list,      \* the mails a poller has found and not gone through
  answer,
  took,      \* the reports whose status has been in the run's row since they looked for it
  word,      \* what a person last set: "none", "pause" or "resume"
  crossed,   \* a whole row was written back over that word, or read before it
  matched,   \* [Mails -> the task a mail was matched with]
  dropped,   \* the mails a poller failed at
  faults

rows == <<task, lastId, profiles, runs, told, heard, seenFlag>>
own  == <<at, got, found, says, named, patch, list>>
past == <<took, word, crossed, matched, dropped>>
vars == <<rows, pc, own, answer, past, faults>>

Reporters == Pushes \cup Folds
Handlers == Reporters \cup Edits \cup Deletes \cup Pollers
Exts == {Reported} \cup Mails
Statuses == {"success", "failed"}
Agents == {"none", "own", "named"}
NoTask == [id |-> 0, enabled |-> TRUE, agent |-> "none"]
Rows == [id : 0..MaxTasks, enabled : BOOLEAN, agent : Agents]

TypeOK ==
  /\ task \in Rows /\ lastId \in 0..MaxTasks /\ profiles \subseteq Agents \ {"none"}
  /\ runs \in [1..MaxTasks -> [Exts -> Statuses \cup {"none"}]]
  /\ told \subseteq 1..MaxTasks /\ heard \in [Mails -> Nat] /\ seenFlag \subseteq Mails
  /\ pc \in [Handlers -> {"idle", "find", "put", "raced", "back", "profile", "putProfile",
                          "attach", "write", "fold", "findRun", "putRun", "racedRun", "tell",
                          "mail", "flag", "match", "over"}]
  /\ at \in [Handlers -> 0..MaxTasks] /\ got \in [Handlers -> Rows] /\ found \in [Handlers -> BOOLEAN]
  /\ says \in [Handlers -> Statuses \cup {"none"}] /\ named \in [Handlers -> BOOLEAN]
  /\ patch \in [Edits -> {"none", "pause", "resume", "rename"}]
  /\ list \in [Pollers -> SUBSET Mails]
  /\ answer \in [Handlers -> {"none", "ok", "skipped", "not found", "error"}]
  /\ took \subseteq Reporters /\ word \in {"none", "pause", "resume"} /\ crossed \in BOOLEAN
  /\ matched \in [Mails -> 0..MaxTasks] /\ dropped \subseteq Mails /\ faults \in 0..MaxFaults

Init ==
  /\ task \in {NoTask, [id |-> 1, enabled |-> TRUE, agent |-> "none"]} /\ lastId = task.id
  /\ profiles = {}
  /\ runs = [i \in 1..MaxTasks |-> [x \in Exts |-> "none"]]
  /\ told = {} /\ heard = [m \in Mails |-> 0] /\ seenFlag = {}
  /\ pc = [c \in Handlers |-> "idle"] /\ at = [c \in Handlers |-> 0]
  /\ got = [c \in Handlers |-> NoTask] /\ found = [c \in Handlers |-> FALSE]
  /\ says = [c \in Handlers |-> "none"] /\ named = [c \in Handlers |-> FALSE]
  /\ patch = [e \in Edits |-> "none"] /\ list = [p \in Pollers |-> {}]
  /\ answer = [c \in Handlers |-> "none"]
  /\ took = {} /\ word = "none" /\ crossed = FALSE /\ matched = [m \in Mails |-> 0]
  /\ dropped = {} /\ faults = 0

Goes(c, where) == pc' = [pc EXCEPT ![c] = where]
Has(f, c, v) == f' = [f EXCEPT ![c] = v]

\* A handler that is over keeps its answer only; a poller goes on with its list.
Over(c, a) ==
  /\ Goes(c, IF c \in Pollers THEN "mail" ELSE "over")
  /\ answer' = [answer EXCEPT ![c] = IF c \in Pollers THEN @ ELSE a]
  /\ Has(got, c, NoTask) /\ Has(found, c, FALSE)

----------------------------------------------------------------------------
(* upsertTask                                                              *)

Report(c) ==
  /\ c \in Reporters /\ pc[c] = "idle"
  /\ \E s \in Statuses \cup {"none"} : (c \in Folds => s # "none") /\ Has(says, c, s)
  /\ \E n \in BOOLEAN : (n => c \in Pushes) /\ Has(named, c, n)
  /\ Goes(c, "find")
  /\ UNCHANGED <<rows, at, got, found, patch, list, answer, past, faults>>

FindTask(c) ==
  /\ pc[c] = "find"
  /\ Has(at, c, task.id) /\ Goes(c, "put")
  /\ UNCHANGED <<rows, got, found, says, named, patch, list, answer, past, faults>>

\* Mutant of Updated: a report switches its task on.
SwitchedOn(row) == [row EXCEPT !.enabled = TRUE]

\* What an upsert leaves of a row it finds: the columns it names no value for.
Updated(row) == row

\* The update is of the row that was found, if it is still there; of two inserts one loses.
PutTask(c) ==
  /\ pc[c] = "put"
  /\ IF at[c] # 0
       THEN /\ task' = IF task.id = at[c] THEN Updated(task) ELSE task
            /\ Goes(c, "back") /\ UNCHANGED <<lastId, at>>
     ELSE IF task.id = 0
       THEN /\ lastId < MaxTasks
            /\ lastId' = lastId + 1 /\ task' = [NoTask EXCEPT !.id = lastId + 1]
            /\ Has(at, c, lastId + 1) /\ Goes(c, "back")
     ELSE Goes(c, "raced") /\ UNCHANGED <<task, lastId, at>>
  /\ UNCHANGED <<profiles, runs, told, heard, seenFlag, got, found, says, named, patch, list, answer,
                 past, faults>>

\* The loser looks again: the row it lost to, or it throws after all.
Raced(c) ==
  /\ pc[c] = "raced"
  /\ IF task.id # 0 THEN Goes(c, "find") /\ UNCHANGED <<answer, got, found>> ELSE Over(c, "error")
  /\ UNCHANGED <<rows, at, says, named, patch, list, past, faults>>

\* The row is read back for the answer; a row deleted in between is read as undefined.
ReadBack(c) ==
  /\ pc[c] = "back"
  /\ IF task.id = at[c]
       THEN Has(got, c, task) /\ Goes(c, "profile") /\ UNCHANGED <<answer, found>>
       ELSE Over(c, "error")
  /\ UNCHANGED <<rows, at, says, named, patch, list, past, faults>>

----------------------------------------------------------------------------
(* ensureTaskAgent: upsertAgentProfile, then updateTask                    *)

Who(c) == IF named[c] THEN "named" ELSE "own"

AfterTask(c) == IF c \in Folds THEN "fold" ELSE IF says[c] = "none" THEN "over" ELSE "findRun"
HasItsAgent(c) ==
  IF AfterTask(c) = "over" THEN Over(c, "ok")
  ELSE Goes(c, AfterTask(c)) /\ Has(got, c, NoTask) /\ UNCHANGED <<answer, found>>

\* A task that has an agent keeps it, unless the report names another.
FindProfile(c) ==
  /\ pc[c] = "profile"
  /\ IF ~named[c] /\ got[c].agent # "none"
       THEN HasItsAgent(c)
       ELSE Has(found, c, Who(c) \in profiles) /\ Goes(c, "putProfile") /\ UNCHANGED <<got, answer>>
  /\ UNCHANGED <<rows, at, says, named, patch, list, past, faults>>

\* The insert of a profile somebody made meanwhile throws: nobody looks again.
PutProfile(c) ==
  /\ pc[c] = "putProfile"
  /\ IF ~found[c] /\ Who(c) \in profiles
       THEN Over(c, "error") /\ UNCHANGED profiles
       ELSE /\ profiles' = profiles \cup {Who(c)}
            /\ IF got[c].agent = Who(c)
                 THEN HasItsAgent(c)
                 ELSE Goes(c, "attach") /\ UNCHANGED <<got, found, answer>>
  /\ UNCHANGED <<task, lastId, runs, told, heard, seenFlag, at, says, named, patch, list, past, faults>>

\* updateTask: the row is read, and every column of it written back.
ReadRow(c) ==
  /\ pc[c] = "attach"
  /\ IF task.id = at[c]
       THEN Has(got, c, task) /\ Goes(c, "write") /\ UNCHANGED <<answer, found>>
     ELSE IF c \in Edits THEN Over(c, "not found")
     ELSE HasItsAgent(c)
  /\ UNCHANGED <<rows, at, says, named, patch, list, past, faults>>

Writers(id) == {c \in Handlers : pc[c] = "write" /\ at[c] = id}

Patched(c) ==
  IF c \notin Edits THEN [got[c] EXCEPT !.agent = Who(c)]
  ELSE [got[c] EXCEPT !.enabled = IF patch[c] = "rename" THEN @ ELSE patch[c] = "resume"]

WriteRow(c) ==
  /\ pc[c] = "write"
  /\ IF task.id = at[c]
       THEN /\ task' = Patched(c)
            /\ IF c \in Edits /\ patch[c] # "rename"
                 THEN word' = patch[c] /\ crossed' = (Writers(task.id) # {c})
                 ELSE UNCHANGED <<word, crossed>>
       ELSE UNCHANGED <<task, word, crossed>>
  /\ IF c \in Edits THEN Over(c, IF task.id = at[c] THEN "ok" ELSE "not found") ELSE HasItsAgent(c)
  /\ UNCHANGED <<lastId, profiles, runs, told, heard, seenFlag, at, says, named, patch, list, took,
                 matched, dropped, faults>>

----------------------------------------------------------------------------
(* recordRun                                                               *)

\* The fold looks for the task again, by its key, and passes over one that is gone.
FoldTask(c) ==
  /\ pc[c] = "fold"
  /\ IF task.id = 0
       THEN Over(c, "skipped") /\ UNCHANGED at
       ELSE Has(at, c, task.id) /\ Goes(c, "findRun") /\ UNCHANGED <<got, found, answer>>
  /\ UNCHANGED <<rows, says, named, patch, list, past, faults>>

\* The mail a poller is at.
MailOf(p) == CHOOSE m \in list[p] : TRUE
Ext(c) == IF c \in Pollers THEN MailOf(c) ELSE Reported

FindRun(c) ==
  /\ pc[c] = "findRun"
  /\ Has(found, c, runs[at[c]][Ext(c)] # "none") /\ Goes(c, "putRun")
  /\ UNCHANGED <<rows, at, got, says, named, patch, list, answer, past, faults>>

\* A report is made and not yet answered for, whose status the row now has.
Taken(id, s) ==
  {c \in Reporters : pc[c] \in {"findRun", "putRun", "racedRun"} /\ at[c] = id /\ says[c] = s}

\* A poller is through with its mail.
Through(c) == IF c \in Pollers THEN list' = [list EXCEPT ![c] = @ \ {MailOf(c)}] ELSE UNCHANGED list

\* An error nobody catches ends a handler, a poller's loop with the mails it has not come to.
Throws(c) ==
  /\ Goes(c, IF c \in Pollers THEN "idle" ELSE "over")
  /\ answer' = [answer EXCEPT ![c] = IF c \in Pollers THEN @ ELSE "error"]
  /\ list' = [p \in Pollers |-> IF p = c THEN {} ELSE list[p]]
  /\ Has(got, c, NoTask) /\ Has(found, c, FALSE)

Recorded(c) == runs' = [runs EXCEPT ![at[c]][Ext(c)] = says[c]]
Shows(c) == took' = IF c \in Reporters THEN took \cup Taken(at[c], says[c]) ELSE took

\* A row that was found is updated; otherwise one is inserted, of a task that is there,
\* unless another report has inserted it since.
PutRun(c) ==
  /\ pc[c] = "putRun"
  /\ IF found[c]
       THEN /\ IF runs[at[c]][Ext(c)] # "none" THEN Recorded(c) /\ Shows(c) ELSE UNCHANGED <<runs, took>>
            /\ Over(c, "ok") /\ Through(c)
     ELSE IF task.id # at[c]
       THEN Throws(c) /\ UNCHANGED <<runs, took>>
     ELSE IF runs[at[c]][Ext(c)] # "none"
       THEN Goes(c, "racedRun") /\ UNCHANGED <<runs, took, list, got, found, answer>>
     ELSE /\ Recorded(c) /\ Shows(c)
          /\ IF c \in Reporters /\ says[c] = "failed"
               THEN Goes(c, "tell") /\ UNCHANGED <<list, got, found, answer>>
               ELSE Over(c, "ok") /\ Through(c)
  /\ UNCHANGED <<task, lastId, profiles, told, heard, seenFlag, at, says, named, patch, word, crossed,
                 matched, dropped, faults>>

\* A run that is new and failed becomes an event, one for this run of this task.
Tell(c) ==
  /\ pc[c] = "tell"
  /\ told' = told \cup {at[c]} /\ Over(c, "ok")
  /\ UNCHANGED <<task, lastId, profiles, runs, heard, seenFlag, at, says, named, patch, list, past,
                 faults>>

\* Mutant of RacedRun: whoever loses the insert is content.
LoserIsContent(c) ==
  /\ pc[c] = "racedRun" /\ Over(c, "ok") /\ Through(c)
  /\ UNCHANGED <<rows, at, says, named, patch, past, faults>>

\* Its insert was refused: it looks again.
RacedRun(c) ==
  /\ pc[c] = "racedRun"
  /\ IF runs[at[c]][Ext(c)] # "none"
       THEN Goes(c, "findRun") /\ UNCHANGED <<list, got, found, answer>>
       ELSE Throws(c)
  /\ UNCHANGED <<rows, at, says, named, patch, past, faults>>

----------------------------------------------------------------------------
(* A person's changes                                                      *)

Edit(e) ==
  /\ e \in Edits /\ pc[e] = "idle" /\ task.id # 0
  /\ \E p \in {"pause", "resume", "rename"} : Has(patch, e, p)
  /\ Has(at, e, task.id) /\ Goes(e, "attach")
  /\ UNCHANGED <<rows, got, found, says, named, list, answer, past, faults>>

\* The runs of a task go with it.
Delete(d) ==
  /\ d \in Deletes /\ pc[d] = "idle" /\ task.id # 0
  /\ task' = NoTask /\ runs' = [runs EXCEPT ![task.id] = [x \in Exts |-> "none"]]
  /\ word' = "none" /\ crossed' = FALSE
  /\ Over(d, "ok")
  /\ UNCHANGED <<lastId, profiles, told, heard, seenFlag, at, says, named, patch, list, took, matched,
                 dropped, faults>>

----------------------------------------------------------------------------
(* The mailbox                                                             *)

Poll(p) ==
  /\ p \in Pollers /\ pc[p] = "idle" /\ Mails \ seenFlag # {}
  /\ Has(list, p, Mails \ seenFlag) /\ Goes(p, "mail")
  /\ UNCHANGED <<rows, at, got, found, says, named, patch, answer, past, faults>>

PollEnds(p) ==
  /\ pc[p] = "mail" /\ list[p] = {}
  /\ Goes(p, "idle")
  /\ UNCHANGED <<rows, own, answer, past, faults>>

\* Mutant of Once: events have no unique index.
Again(n) == n + 1

Once(n) == IF n = 0 THEN 1 ELSE n

\* addEvent: the insert itself tells whether the mail was news.
Hear(p) ==
  /\ pc[p] = "mail" /\ list[p] # {}
  /\ LET m == MailOf(p) IN
       heard' = [heard EXCEPT ![m] = Once(@)] /\ Has(found, p, heard[m] = 0)
  /\ Goes(p, "flag")
  /\ UNCHANGED <<task, lastId, profiles, runs, told, seenFlag, at, got, says, named, patch, list, answer,
                 past, faults>>

Flag(p) ==
  /\ pc[p] = "flag"
  /\ seenFlag' = seenFlag \cup {MailOf(p)}
  /\ IF found[p] THEN Goes(p, "match") /\ UNCHANGED list ELSE Goes(p, "mail") /\ Through(p)
  /\ UNCHANGED <<task, lastId, profiles, runs, told, heard, at, got, found, says, named, patch, answer,
                 past, faults>>

\* The mail names the task, and a status.
Match(p) ==
  /\ pc[p] = "match"
  /\ Has(at, p, task.id) /\ Has(matched, MailOf(p), task.id)
  /\ \E s \in Statuses : Has(says, p, s)
  /\ IF task.id = 0 THEN Goes(p, "mail") /\ Through(p) ELSE Goes(p, "findRun") /\ UNCHANGED list
  /\ UNCHANGED <<rows, got, found, named, patch, answer, took, word, crossed, dropped, faults>>

----------------------------------------------------------------------------
\* A statement fails, or the process is gone: a handler ends, a poller starts over later.
Fails(c) ==
  /\ faults < MaxFaults /\ faults' = faults + 1
  /\ pc[c] \notin {"idle", "over"}
  /\ pc' = [pc EXCEPT ![c] = IF c \in Pollers THEN "idle" ELSE "over"]
  /\ IF c \in Pollers
       THEN /\ dropped' = dropped \cup list[c] /\ Has(list, c, {}) /\ UNCHANGED answer
       ELSE /\ UNCHANGED <<dropped, list>> /\ Has(answer, c, "error")
  /\ Has(got, c, NoTask) /\ Has(found, c, FALSE)
  /\ UNCHANGED <<rows, at, says, named, patch, took, word, crossed, matched>>

Step(c) ==
  \/ FindTask(c) \/ PutTask(c) \/ Raced(c) \/ ReadBack(c)
  \/ FindProfile(c) \/ PutProfile(c) \/ ReadRow(c) \/ WriteRow(c)
  \/ FoldTask(c) \/ FindRun(c) \/ PutRun(c) \/ Tell(c) \/ RacedRun(c)
  \/ PollEnds(c) \/ Hear(c) \/ Flag(c) \/ Match(c)

Next == \E c \in Handlers : Report(c) \/ Edit(c) \/ Delete(c) \/ Poll(c) \/ Step(c) \/ Fails(c)

Spec == Init /\ [][Next]_vars

----------------------------------------------------------------------------
(* Properties                                                              *)

\* A report that is answered "ok" was in the run's row, whoever else reported the same run
\* at the same time, unless the task was deleted under it (recordRun's retry after the
\* unique index refused its insert).
ReportTakesEffect ==
  \A c \in Reporters :
    pc[c] = "over" /\ answer[c] = "ok" /\ says[c] # "none" => c \in took \/ task.id # at[c]

\* What a person set for a task stands against every push and every sync.  It may be lost
\* only to one that was writing back the whole row at that moment, to attach the task's
\* agent (upsertTask and updateTask).
PauseStands == word # "none" /\ ~crossed => task.enabled = (word = "resume")

\* A mail is one event and, where it names a task, one run of it, although two processes
\* poll one mailbox; not so for a mail whose poller failed between the two (pollOnceInner).
MailBecomesOneRun ==
  \A m \in Mails :
    /\ heard[m] <= 1
    /\ m \in seenFlag \ dropped /\ (\A p \in Pollers : m \notin list[p]) =>
         heard[m] = 1 /\ (matched[m] # 0 /\ task.id = matched[m] => runs[task.id][m] # "none")
=============================================================================
