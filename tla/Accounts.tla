------------------------------ MODULE Accounts ------------------------------
(***************************************************************************)
(* The people of an installation: the first run, sign-up and its mail,     *)
(* signing in and out, links, passwords and roles (auth.ts, the account    *)
(* routes of api.ts, the rows of data/index.ts).  Every request is a       *)
(* handler with an await between its statements, and updateUser writes     *)
(* back every column of the row it has read.  Workspaces, the passwords'   *)
(* hashes, the bearer credential and its cache are left out.               *)
(***************************************************************************)
EXTENDS Naturals, FiniteSets

CONSTANTS
  Emails,
  Requests,
  MaxUsers,  \* bound: accounts ever made
  MaxWords,  \* bound: passwords ever chosen
  MaxFaults, \* bound: mails that cannot be sent, processes that die
  Nobody     \* no row; the session somebody had before

VARIABLES
  user,      \* [ids -> row]
  words,     \* passwords chosen so far
  sessions,  \* each with its account, the password it stands for and the request that made it
  link,      \* [Requests -> the link of the mail it has sent]
  pc, does,  \* where a request is, and what it is
  email, word, who, \* the e-mail it came with, the password it sets or has proved, its account
  old,       \* the row it has read
  via,       \* the link it redeems
  redeemed,  \* (history) [Requests -> how many have redeemed its link]
  late,      \* (history) requests that had looked an account up before it was signed out
  excused,   \* (history) accounts one write of which undid another, or whose change died
  faults

rows == <<user, words, sessions, link>>
own  == <<pc, does, email, word, who, old, via>>
past == <<redeemed, late, excused>>
vars == <<rows, own, past, faults>>

UserIds == 1..MaxUsers
Rows == [email : Emails, word : 1..MaxWords, role : {"owner", "member"}, verified : BOOLEAN]
Links == [of : UserIds, kind : {"verify", "reset"}, spent : BOOLEAN, due : BOOLEAN]
NoLink == [of |-> 0, kind |-> "none", spent |-> FALSE, due |-> FALSE]
Kinds == {"setup", "signIn", "change", "signUp", "add", "forgot", "verify", "reset", "role", "delete"}
Labels == {"idle", "looking", "hashing", "checking", "linking", "redeeming", "using", "verifying",
           "reading", "writing", "signingOut", "removing", "opening", "over"}

TypeOK ==
  /\ user \in [UserIds -> Rows \cup {Nobody}] /\ words \in 0..MaxWords
  /\ sessions \subseteq [of : UserIds, word : 1..MaxWords, by : Requests \cup {Nobody}]
  /\ link \in [Requests -> Links \cup {NoLink}]
  /\ pc \in [Requests -> Labels] /\ does \in [Requests -> Kinds \cup {"none"}]
  /\ email \in [Requests -> Emails \cup {Nobody}] /\ word \in [Requests -> 0..MaxWords]
  /\ who \in [Requests -> 0..MaxUsers] /\ old \in [Requests -> Rows \cup {Nobody}]
  /\ via \in [Requests -> Requests \cup {Nobody}]
  /\ redeemed \in [Requests -> Nat]
  /\ late \subseteq Requests /\ excused \subseteq UserIds /\ faults \in 0..MaxFaults

\* An empty installation, or one whose owner has signed in.
Init ==
  /\ \/ user = [i \in UserIds |-> Nobody] /\ words = 0 /\ sessions = {}
     \/ \E e \in Emails :
          /\ user = [i \in UserIds |-> IF i = 1
                       THEN [email |-> e, word |-> 1, role |-> "owner", verified |-> TRUE]
                       ELSE Nobody]
          /\ words = 1 /\ sessions = {[of |-> 1, word |-> 1, by |-> Nobody]}
  /\ link = [q \in Requests |-> NoLink]
  /\ pc = [q \in Requests |-> "idle"] /\ does = [q \in Requests |-> "none"]
  /\ email = [q \in Requests |-> Nobody] /\ word = [q \in Requests |-> 0]
  /\ who = [q \in Requests |-> 0] /\ old = [q \in Requests |-> Nobody]
  /\ via = [q \in Requests |-> Nobody]
  /\ redeemed = [q \in Requests |-> 0] /\ late = {} /\ excused = {} /\ faults = 0

----------------------------------------------------------------------------
People == {i \in UserIds : user[i] # Nobody}
ByEmail(e) == {i \in People : user[i].email = e}

To(q, label) == pc' = [pc EXCEPT ![q] = label]
Fault == faults < MaxFaults /\ faults' = faults + 1

\* A new password, for a request that sets one.
Chooses(q) == words < MaxWords /\ words' = words + 1 /\ word' = [word EXCEPT ![q] = words + 1]

Begins(q, kind, label) ==
  /\ pc[q] = "idle" /\ To(q, label) /\ does' = [does EXCEPT ![q] = kind]

\* POST /setup, /signup, /users: nothing is made where there is an account (of that e-mail).
AskForAccount(q) ==
  /\ \E e \in Emails, kind \in {"setup", "signUp", "add"} :
       /\ Begins(q, kind, IF (IF kind = "setup" THEN People ELSE ByEmail(e)) = {}
                            THEN "hashing" ELSE "over")
       /\ email' = [email EXCEPT ![q] = e]
  /\ Chooses(q)
  /\ UNCHANGED <<user, sessions, link, who, old, via, past, faults>>

\* POST /session, /password-reset/request
AskByEmail(q) ==
  /\ \E e \in Emails, kind \in {"signIn", "forgot"} :
       Begins(q, kind, "looking") /\ email' = [email EXCEPT ![q] = e]
  /\ UNCHANGED <<rows, word, who, old, via, past, faults>>

\* POST /settings/password by whoever is signed in; PUT and DELETE /users/:id by an owner.
AskById(q) ==
  /\ \E s \in sessions, i \in UserIds, kind \in {"change", "role", "delete"} :
       /\ Begins(q, kind, "looking") /\ who' = [who EXCEPT ![q] = i]
       /\ kind = "change" => i = s.of
       /\ kind # "change" => user[s.of].role = "owner" /\ (kind = "delete" => i # s.of)
       /\ IF kind = "change" THEN Chooses(q) ELSE UNCHANGED <<words, word>>
  /\ UNCHANGED <<user, sessions, link, email, old, via, past, faults>>

\* GET /verify, POST /password-reset/confirm
FollowLink(q) ==
  /\ \E l \in Requests, kind \in {"verify", "reset"} :
       /\ link[l].kind = kind /\ Begins(q, kind, "redeeming") /\ via' = [via EXCEPT ![q] = l]
       /\ IF kind = "reset" THEN Chooses(q) ELSE UNCHANGED <<words, word>>
  /\ UNCHANGED <<user, sessions, link, email, who, old, past, faults>>

----------------------------------------------------------------------------
(* consumeUserToken *)

ReadLink(q) ==
  /\ pc[q] = "redeeming"
  /\ To(q, IF link[via[q]] # NoLink /\ ~link[via[q]].spent /\ ~link[via[q]].due
             THEN "using" ELSE "over")
  /\ UNCHANGED <<rows, does, email, word, who, old, via, past, faults>>

\* Mutant of Unspent: the UPDATE trusts what was read.
UnspentWhenRead(l) == link[l] # NoLink

Unspent(l) == link[l] # NoLink /\ ~link[l].spent

UseLink(q) ==
  /\ pc[q] = "using"
  /\ IF Unspent(via[q])
       THEN /\ link' = [link EXCEPT ![via[q]].spent = TRUE]
            /\ redeemed' = [redeemed EXCEPT ![via[q]] = @ + 1]
            /\ who' = [who EXCEPT ![q] = link[via[q]].of] /\ To(q, "looking")
       ELSE To(q, "over") /\ UNCHANGED <<link, redeemed, who>>
  /\ UNCHANGED <<user, words, sessions, does, email, word, old, via, late, excused, faults>>

\* A link's time is over: an hour, a day.
Lapse(l) ==
  /\ link[l] # NoLink /\ ~link[l].due /\ link' = [link EXCEPT ![l].due = TRUE]
  /\ UNCHANGED <<user, words, sessions, own, past, faults>>

----------------------------------------------------------------------------
(* The account a request is about *)

Named(q) == IF does[q] \in {"setup", "signIn", "forgot"} THEN ByEmail(email[q]) ELSE {who[q]} \cap People

After(q, i) ==
  CASE does[q] \in {"setup", "signIn", "change"} -> "checking"
    [] does[q] = "forgot" -> IF user[i].verified THEN "linking" ELSE "over"
    [] does[q] = "verify" -> "verifying"
    [] does[q] \in {"reset", "role"} -> "reading"
    [] does[q] = "delete" -> "signingOut"

\* getUserByEmail, getUser
Look(q) ==
  /\ pc[q] = "looking"
  /\ IF Named(q) = {}
       THEN To(q, "over") /\ UNCHANGED <<who, old>>
       ELSE \E i \in Named(q) :
              /\ To(q, After(q, i))
              /\ who' = [who EXCEPT ![q] = i] /\ old' = [old EXCEPT ![q] = user[i]]
  /\ UNCHANGED <<rows, does, email, word, via, past, faults>>

\* verifyPassword: whoever asks knows the password of the row that was read, or does not.
Check(q) ==
  /\ pc[q] = "checking"
  /\ \/ To(q, "over") /\ UNCHANGED word
     \/ /\ does[q] # "change" => old[q].verified
        /\ word' = [word EXCEPT ![q] = IF does[q] = "change" THEN @ ELSE old[q].word]
        /\ To(q, "reading")
  /\ UNCHANGED <<rows, does, email, who, old, via, past, faults>>

\* createUser; the e-mail is unique.
Insert(q) ==
  /\ pc[q] = "hashing"
  /\ IF ByEmail(email[q]) # {}
       THEN To(q, "over") /\ UNCHANGED <<user, who>>
       ELSE \E i \in UserIds :
              /\ \A j \in UserIds : j < i <=> (user[j] # Nobody \/ \E r \in Requests : who[r] = j)
              /\ user' = [user EXCEPT ![i] =
                   [email |-> email[q], word |-> word[q], verified |-> does[q] # "signUp",
                    role |-> IF does[q] = "add" THEN "member" ELSE "owner"]]
              /\ who' = [who EXCEPT ![q] = i]
              /\ To(q, CASE does[q] = "setup" -> "looking" [] does[q] = "signUp" -> "linking"
                         [] OTHER -> "over")
  /\ UNCHANGED <<words, sessions, link, does, email, word, old, via, past, faults>>

\* createUserToken and the mail, which may not be sent: then nobody has the link.
SendLink(q) ==
  /\ pc[q] = "linking" /\ To(q, "over")
  /\ \/ /\ who[q] \in People /\ UNCHANGED faults
        /\ link' = [link EXCEPT ![q] =
             [of |-> who[q], kind |-> IF does[q] = "signUp" THEN "verify" ELSE "reset",
              spent |-> FALSE, due |-> FALSE]]
     \/ who[q] \notin People /\ UNCHANGED <<link, faults>>
     \/ Fault /\ UNCHANGED link
  /\ UNCHANGED <<user, words, sessions, does, email, word, who, old, via, past>>

\* setUserVerified
Verify(q) ==
  /\ pc[q] = "verifying" /\ To(q, "opening")
  /\ user' = IF who[q] \in People THEN [user EXCEPT ![who[q]].verified = TRUE] ELSE user
  /\ word' = [word EXCEPT ![q] = old[q].word]
  /\ UNCHANGED <<words, sessions, link, does, email, who, old, via, past, faults>>

----------------------------------------------------------------------------
(* updateUser *)

\* Mutant of Written: who resets a password keeps his sessions.
OnlyAChangeSignsOut(q) ==
  CASE does[q] \in {"setup", "signIn"} -> "opening" [] does[q] = "change" -> "signingOut"
    [] OTHER -> "over"

Written(q) ==
  CASE does[q] \in {"setup", "signIn"} -> "opening" [] does[q] \in {"change", "reset"} -> "signingOut"
    [] OTHER -> "over"

ReadRow(q) ==
  /\ pc[q] = "reading"
  /\ IF who[q] \in People
       THEN To(q, "writing") /\ old' = [old EXCEPT ![q] = user[who[q]]]
       ELSE To(q, Written(q)) /\ UNCHANGED old
  /\ UNCHANGED <<rows, does, email, word, who, via, past, faults>>

Other(role) == IF role = "owner" THEN "member" ELSE "owner"
Patched(q) ==
  [user[who[q]] EXCEPT
     !.word = IF does[q] \in {"change", "reset"} THEN word[q] ELSE old[q].word,
     !.role = IF does[q] = "role" THEN Other(old[q].role) ELSE old[q].role]

Columns(row) == <<row.word, row.role>>

WriteRow(q) ==
  /\ pc[q] = "writing" /\ To(q, Written(q))
  /\ user' = IF who[q] \in People THEN [user EXCEPT ![who[q]] = Patched(q)] ELSE user
  /\ excused' = IF who[q] \in People /\ Columns(user[who[q]]) # Columns(old[q])
                  THEN excused \cup {who[q]} ELSE excused
  /\ UNCHANGED <<words, sessions, link, does, email, word, who, old, via, redeemed, late, faults>>

----------------------------------------------------------------------------
(* Sessions *)

\* Requests that act on what they have read of this account.
Looked(i) ==
  {q \in Requests : who[q] = i /\ pc[q] \in {"checking", "verifying", "reading", "writing",
                                             "signingOut", "opening"}}

\* deleteSessionsForUser
SignOutAll(q) ==
  /\ pc[q] = "signingOut"
  /\ sessions' = {s \in sessions : s.of # who[q]}
  /\ late' = late \cup (Looked(who[q]) \ {q})
  /\ To(q, CASE does[q] = "change" -> "opening" [] does[q] = "delete" -> "removing"
             [] OTHER -> "over")
  /\ UNCHANGED <<user, words, link, does, email, word, who, old, via, redeemed, excused, faults>>

\* createSession; a session is its account's.
Open(q) ==
  /\ pc[q] = "opening" /\ To(q, "over")
  /\ sessions' = IF who[q] \in People
                   THEN sessions \cup {[of |-> who[q], word |-> word[q], by |-> q]} ELSE sessions
  /\ UNCHANGED <<user, words, link, does, email, word, who, old, via, past, faults>>

\* deleteUser; sessions and links go with it.
Remove(q) ==
  /\ pc[q] = "removing" /\ To(q, "over")
  /\ user' = [user EXCEPT ![who[q]] = Nobody]
  /\ sessions' = {s \in sessions : s.of # who[q]}
  /\ link' = [l \in Requests |-> IF link[l].of = who[q] THEN NoLink ELSE link[l]]
  /\ UNCHANGED <<words, does, email, word, who, old, via, past, faults>>

\* DELETE /session, or thirty days are over.
Leave(s) ==
  /\ s \in sessions /\ sessions' = sessions \ {s}
  /\ UNCHANGED <<user, words, link, own, past, faults>>

Dies(q) ==
  /\ pc[q] \notin {"idle", "over"} /\ To(q, "over") /\ Fault
  /\ excused' = IF pc[q] = "signingOut" THEN excused \cup {who[q]} ELSE excused
  /\ UNCHANGED <<rows, does, email, word, who, old, via, redeemed, late>>

Ask(q) == AskForAccount(q) \/ AskByEmail(q) \/ AskById(q) \/ FollowLink(q)
Step(q) ==
  \/ ReadLink(q) \/ UseLink(q) \/ Look(q) \/ Check(q) \/ Insert(q) \/ SendLink(q) \/ Verify(q)
  \/ ReadRow(q) \/ WriteRow(q) \/ SignOutAll(q) \/ Open(q) \/ Remove(q) \/ Dies(q)
Next ==
  \/ \E q \in Requests : Ask(q) \/ Step(q) \/ Lapse(q)
  \/ \E s \in sessions : Leave(s)

Spec == Init /\ [][Next]_vars

----------------------------------------------------------------------------
(* Properties *)

\* Whoever is signed in stands for the password that counts: a change and a reset sign every
\* browser of the account out, but for requests that had looked it up before (auth.ts:204-208,
\* api.ts:1088); between the update and the deletion, and where one update wrote another's
\* columns back or the process died between the two, nothing is said.
SignedOutByAChange ==
  \A s \in sessions :
    \/ s.by \in late \/ s.of \in excused
    \/ \E q \in Requests : pc[q] = "signingOut" /\ who[q] = s.of
    \/ s.word = user[s.of].word

\* A link of a mail works once, though it is followed twice at once (data/index.ts:1416).
LinkWorksOnce == \A l \in Requests : redeemed[l] <= 1
=============================================================================
