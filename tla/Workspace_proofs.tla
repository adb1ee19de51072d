-------------------------- MODULE Workspace_proofs --------------------------
(***************************************************************************)
(* Proofs about the mirror of a process's files, for any number of         *)
(* processes, writes and faults, and about the accounts of an              *)
(* installation, for any people, requests and bounds.  Each theorem is     *)
(* about the specification of one of them.                                 *)
(***************************************************************************)
EXTENDS Workspace, TLAPS

----------------------------------------------------------------------------
(* The mirror                                                              *)
(*                                                                         *)
(* As long as no process comes up without a file of the mirror or beside   *)
(* another, the process that runs is the last one started, and its disk is *)
(* ahead of the mirror: it was given the mirror's files before it was up,  *)
(* it only adds to its files, and what a save has read of a file is ahead  *)
(* of the mirror too.  The last disk stays ahead when its process ends, so *)
(* that the next process may start from it.                                *)

Held(c) == IF c = Nothing THEN {} ELSE c

\* Processes start in order; one that has not started, or is over, saves nothing.
InOrder == \A p, o \in M!Procs : processAt[p] # "off" /\ o < p => processAt[o] # "off"
Resting ==
  \A p \in M!Procs :
    /\ processAt[p] \in {"off", "gone"} => file[p] = 0 /\ snap[p] = Nothing
    /\ processAt[p] = "off" => disk[p] = M!NoFiles
SavesSomething == \A p \in M!Procs : snap[p] # Nothing => M!Saving(p)

Newest(p) == processAt[p] # "off" /\ \A o \in M!Procs : o > p => processAt[o] = "off"

\* The process that runs is the newest one.
NewestRuns == \A p \in M!Procs : M!Running(p) => Newest(p)

\* What it has been given of the mirror by now.
Given(p, i) ==
  \/ processAt[p] = "restoring" /\ i < file[p]
  \/ processAt[p] \in {"up", "draining", "saving"}
GivenTheMirror == \A p \in M!Procs, i \in 1..Len(M!FILES) : Given(p, i) => ~M!Missed(p, M!FILES[i])

\* Its disk, and what it is saving, are ahead of the mirror.
DiskIsAhead ==
  \A p \in M!Procs : Newest(p) =>
    \A f \in M!Files : disk[p][f] = Nothing \/ Held(mirror[f]) \subseteq disk[p][f]
SnapIsAhead ==
  \A p \in M!Procs : snap[p] # Nothing =>
    LET f == M!FILES[file[p]] IN
      /\ disk[p][f] # Nothing /\ snap[p] \subseteq disk[p][f]
      /\ Held(mirror[f]) \subseteq snap[p]

EverIsHeld == \A f \in M!Files : ever[f] \subseteq Held(mirror[f])

Ahead == NewestRuns /\ GivenTheMirror /\ DiskIsAhead /\ SnapIsAhead /\ EverIsHeld

Tidy == M!TypeOK /\ InOrder /\ Resting /\ SavesSomething
MirrorInv == Tidy /\ (apart \/ Ahead)

----------------------------------------------------------------------------
(* Types *)

LEMMA TwoFiles ==
  /\ Len(M!FILES) = 2 /\ M!Files = {"acp.sqlite", "sessions.json"}
  /\ M!FILES[1] = "acp.sqlite" /\ M!FILES[2] = "sessions.json"
  /\ \A i \in 1..2 : M!FILES[i] \in M!Files
<1>1. Len(M!FILES) = 2 /\ M!FILES[1] = "acp.sqlite" /\ M!FILES[2] = "sessions.json"
  BY DEF M!FILES
<1>2. \A i \in 1..2 : i = 1 \/ i = 2
  OBVIOUS
<1> QED
  BY <1>1, <1>2 DEF M!Files

LEMMA ContentsTyped ==
  ASSUME MirrorLimits
  PROVE  /\ {} \in M!Contents /\ Nothing \in M!Contents
         /\ \A c \in M!Contents : c # Nothing => c \subseteq 1..MaxWrites
         /\ \A c \in SUBSET (1..MaxWrites) : c \in M!Contents /\ c # Nothing
  BY DEF MirrorLimits, M!Contents

LEMMA NestedUpdate ==
  ASSUME NEW g \in [M!Procs -> [M!Files -> M!Contents]], NEW s \in M!Procs, NEW t \in M!Files,
         NEW c \in M!Contents
  PROVE  [g EXCEPT ![s][t] = c] \in [M!Procs -> [M!Files -> M!Contents]]
<1>1. [g[s] EXCEPT ![t] = c] \in [M!Files -> M!Contents]
  OBVIOUS
<1> QED
  BY <1>1

LEMMA TypeOKInit == ASSUME MirrorLimits PROVE M!Init => M!TypeOK
<1> SUFFICES ASSUME M!Init PROVE M!TypeOK
  OBVIOUS
<1> USE TwoFiles, ContentsTyped DEF M!Init
<1>1. M!NoFiles \in [M!Files -> M!Contents]
  BY DEF M!NoFiles
<1>2. /\ mirror \in [M!Files -> M!Contents] /\ disk \in [M!Procs -> [M!Files -> M!Contents]]
      /\ lastHash \in [M!Procs -> [M!Files -> M!Contents]] /\ snap \in [M!Procs -> M!Contents]
      /\ ever \in [M!Files -> SUBSET (1..MaxWrites)]
  BY <1>1
<1>3. /\ processAt \in [M!Procs -> {"off", "restoring", "up", "draining", "saving", "gone"}]
      /\ ready \in [M!Procs -> {"untried", "yes", "no"}] /\ force \in [M!Procs -> BOOLEAN]
      /\ apart \in BOOLEAN
  OBVIOUS
<1>4. /\ file \in [M!Procs -> 0..Len(M!FILES) + 1] /\ made \in 0..MaxWrites /\ mirrorFaults \in 0..MaxLosses
  BY DEF MirrorLimits
<1> QED
  BY <1>2, <1>3, <1>4 DEF M!TypeOK

LEMMA TypeOKStep == ASSUME MirrorLimits PROVE M!TypeOK /\ [M!Next]_M!vars => M!TypeOK'
<1> SUFFICES ASSUME M!TypeOK, [M!Next]_M!vars PROVE M!TypeOK'
  OBVIOUS
<1>0. /\ \A i \in 1..2 : M!FILES[i] \in M!Files
      /\ "acp.sqlite" \in M!Files /\ Len(M!FILES) = 2
      /\ {} \in M!Contents /\ Nothing \in M!Contents
      /\ \A c \in M!Contents : c # Nothing => c \in SUBSET (1..MaxWrites)
      /\ \A c \in SUBSET (1..MaxWrites) : c \in M!Contents
  BY TwoFiles, ContentsTyped
<1>1. ASSUME NEW p \in M!Procs, M!Boot(p) PROVE M!TypeOK'
  <2>1. disk' = disk \/ (p - 1 \in M!Procs /\ disk' = [disk EXCEPT ![p] = disk[p - 1]])
    BY <1>1 DEF M!Boot, M!Has, M!Procs, MirrorLimits
  <2>2. disk' \in [M!Procs -> [M!Files -> M!Contents]]
    BY <2>1 DEF M!TypeOK
  <2>3. apart' \in BOOLEAN /\ processAt' = [processAt EXCEPT ![p] = "restoring"]
    BY <1>1 DEF M!Boot, M!Has
  <2> QED
    BY <1>1, <2>2, <2>3 DEF M!TypeOK, M!Boot
<1>2. ASSUME NEW p \in M!Procs, M!Connect(p) PROVE M!TypeOK'
  <2>1. \E r \in {"yes", "no"}, i \in {1, 3} :
          ready' = [ready EXCEPT ![p] = r] /\ file' = [file EXCEPT ![p] = i]
    BY <1>0, <1>2 DEF M!Connect, M!Has
  <2>2. ready' \in [M!Procs -> {"untried", "yes", "no"}]
    BY <2>1 DEF M!TypeOK
  <2>3. file' \in [M!Procs -> 0..Len(M!FILES) + 1]
    BY <1>0, <2>1 DEF M!TypeOK
  <2>4. apart' = apart \/ apart' = (apart \/ \E f \in M!Files : M!Missed(p, f))
    BY <1>2 DEF M!Connect
  <2>5. apart' \in BOOLEAN
    BY <2>4 DEF M!TypeOK
  <2>6. mirrorFaults' \in 0..MaxLosses
    BY <1>2 DEF M!TypeOK, M!Connect, M!Fault, MirrorLimits
  <2> QED
    BY <1>2, <2>2, <2>3, <2>5, <2>6 DEF M!TypeOK, M!Connect
<1>3. ASSUME NEW p \in M!Procs, M!RestoreFile(p) PROVE M!TypeOK'
  <2> DEFINE f == M!FILES[file[p]]
  <2>1. file[p] \in 1..2 /\ f \in M!Files /\ mirror[f] \in M!Contents /\ disk[p][f] \in M!Contents
    BY <1>0, <1>3 DEF M!TypeOK, M!RestoreFile
  <2>2. /\ disk' = disk \/ disk' = [disk EXCEPT ![p][f] = M!Restored(p, f)]
        /\ \/ lastHash' = lastHash
           \/ lastHash' =
                [lastHash EXCEPT ![p][f] =
                   IF disk[p][f] = Nothing THEN mirror[f] ELSE lastHash[p][f]]
        /\ apart' = apart \/ apart' = (apart \/ M!Missed(p, f))
        /\ mirrorFaults' = mirrorFaults \/ M!Fault
        /\ file' = [file EXCEPT ![p] = file[p] + 1]
    BY <1>3 DEF M!RestoreFile, M!Has
  <2> HIDE DEF f
  <2>3. /\ M!Restored(p, f) \in M!Contents
        /\ (IF disk[p][f] = Nothing THEN mirror[f] ELSE lastHash[p][f]) \in M!Contents
    BY <2>1 DEF M!TypeOK, M!Restored
  <2>6. /\ disk \in [M!Procs -> [M!Files -> M!Contents]]
        /\ lastHash \in [M!Procs -> [M!Files -> M!Contents]]
    BY DEF M!TypeOK
  <2>7. disk' \in [M!Procs -> [M!Files -> M!Contents]]
    <3>1. [disk EXCEPT ![p][f] = M!Restored(p, f)] \in [M!Procs -> [M!Files -> M!Contents]]
      BY <2>1, <2>3, <2>6, NestedUpdate
    <3> QED
      BY <2>2, <2>6, <3>1
  <2>8. lastHash' \in [M!Procs -> [M!Files -> M!Contents]]
    <3>1. [lastHash EXCEPT ![p][f] = IF disk[p][f] = Nothing THEN mirror[f] ELSE lastHash[p][f]]
            \in [M!Procs -> [M!Files -> M!Contents]]
      BY <2>1, <2>3, <2>6, NestedUpdate
    <3> QED
      BY <2>2, <2>6, <3>1
  <2>4. apart' \in BOOLEAN
    BY <2>2 DEF M!TypeOK
  <2>5. mirrorFaults' \in 0..MaxLosses /\ file' \in [M!Procs -> 0..Len(M!FILES) + 1]
    BY <1>0, <2>1, <2>2 DEF M!TypeOK, M!Fault, MirrorLimits
  <2> QED
    BY <1>3, <2>4, <2>5, <2>7, <2>8 DEF M!TypeOK, M!RestoreFile
<1>4. ASSUME NEW p \in M!Procs, M!Open(p) PROVE M!TypeOK'
  BY <1>0, <1>4 DEF M!TypeOK, M!Open, M!Has, MirrorLimits
<1>5. ASSUME NEW p \in M!Procs, M!Tick(p) PROVE M!TypeOK'
  <2>2. /\ file' = file \/ file' = [file EXCEPT ![p] = 1]
        /\ force' = force \/ force' = [force EXCEPT ![p] = FALSE]
    BY <1>5 DEF M!Tick, M!Save, M!Has
  <2>3. 1 \in 0..Len(M!FILES) + 1
    BY <1>0
  <2>4. file' \in [M!Procs -> 0..Len(M!FILES) + 1]
    BY <2>2, <2>3 DEF M!TypeOK
  <2>1. file' \in [M!Procs -> 0..Len(M!FILES) + 1] /\ force' \in [M!Procs -> BOOLEAN]
    BY <2>2, <2>4 DEF M!TypeOK
  <2> QED
    BY <1>5, <2>1 DEF M!TypeOK, M!Tick
<1>6. ASSUME NEW p \in M!Procs, M!Snapshot(p) PROVE M!TypeOK'
  <2>1. file[p] \in 1..2 /\ disk[p][M!FILES[file[p]]] \in M!Contents
    BY <1>0, <1>6 DEF M!TypeOK, M!Snapshot, M!Saving
  <2>2. file' = [file EXCEPT ![p] = file[p] + 1] \/ file' = file
    BY <1>6 DEF M!Snapshot, M!Has
  <2>3. snap' = [snap EXCEPT ![p] = disk[p][M!FILES[file[p]]]] \/ snap' = snap
    BY <1>6 DEF M!Snapshot, M!Has
  <2>4. file' \in [M!Procs -> 0..Len(M!FILES) + 1]
    BY SMTT(30), <1>0, <2>1, <2>2 DEF M!TypeOK
  <2>5. snap' \in [M!Procs -> M!Contents]
    BY <2>1, <2>3 DEF M!TypeOK
  <2> QED
    BY <1>6, <2>4, <2>5 DEF M!TypeOK, M!Snapshot
<1>7. ASSUME NEW p \in M!Procs, M!Upload(p) PROVE M!TypeOK'
  <2> DEFINE f == M!FILES[file[p]]
  <2>1. file[p] \in 1..2 /\ f \in M!Files /\ snap[p] \in M!Contents /\ snap[p] \in SUBSET (1..MaxWrites)
    BY <1>0, <1>7 DEF M!TypeOK, M!Upload, M!Saving
  <2>2. /\ mirror' = mirror \/ mirror' = [mirror EXCEPT ![f] = snap[p]]
        /\ lastHash' = lastHash \/ lastHash' = [lastHash EXCEPT ![p][f] = snap[p]]
        /\ ever' = ever \/ ever' = [ever EXCEPT ![f] = ever[f] \cup snap[p]]
        /\ mirrorFaults' = mirrorFaults \/ M!Fault
        /\ file' = [file EXCEPT ![p] = file[p] + 1] /\ snap' = [snap EXCEPT ![p] = Nothing]
    BY <1>7 DEF M!Upload, M!Has
  <2> HIDE DEF f
  <2>3. mirror' \in [M!Files -> M!Contents]
    BY <2>1, <2>2 DEF M!TypeOK
  <2>7. lastHash' \in [M!Procs -> [M!Files -> M!Contents]]
    <3>1. lastHash \in [M!Procs -> [M!Files -> M!Contents]]
      BY DEF M!TypeOK
    <3>2. [lastHash EXCEPT ![p][f] = snap[p]] \in [M!Procs -> [M!Files -> M!Contents]]
      BY <2>1, <3>1, NestedUpdate
    <3> QED
      BY <2>2, <3>1, <3>2
  <2>8. ever[f] \cup snap[p] \in SUBSET (1..MaxWrites)
    BY <2>1 DEF M!TypeOK
  <2>4. ever' \in [M!Files -> SUBSET (1..MaxWrites)]
    BY <2>1, <2>2, <2>8 DEF M!TypeOK
  <2>5. mirrorFaults' \in 0..MaxLosses /\ file' \in [M!Procs -> 0..Len(M!FILES) + 1]
    BY <1>0, <2>1, <2>2 DEF M!TypeOK, M!Fault, MirrorLimits
  <2>6. snap' \in [M!Procs -> M!Contents]
    BY <1>0, <2>2 DEF M!TypeOK
  <2> QED
    BY <1>7, <2>3, <2>4, <2>5, <2>6, <2>7 DEF M!TypeOK, M!Upload
<1>8. ASSUME NEW p \in M!Procs, M!SaveEnds(p) PROVE M!TypeOK'
  BY <1>0, <1>8 DEF M!TypeOK, M!SaveEnds, M!Has
<1>9. ASSUME NEW p \in M!Procs, M!Write(p) PROVE M!TypeOK'
  <2>1. PICK f \in M!Files :
          disk' = [disk EXCEPT ![p][f] = IF @ = Nothing THEN {made + 1} ELSE @ \cup {made + 1}]
    BY <1>9 DEF M!Write
  <2>2. made' = made + 1 /\ made + 1 \in 1..MaxWrites
    BY <1>9 DEF M!TypeOK, M!Write, MirrorLimits
  <2>3. {made + 1} \in M!Contents /\ disk[p][f] \in M!Contents
    BY <1>0, <2>2 DEF M!TypeOK
  <2>4. disk[p][f] # Nothing => disk[p][f] \cup {made + 1} \in M!Contents
    BY <1>0, <2>2, <2>3
  <2>5. disk' \in [M!Procs -> [M!Files -> M!Contents]]
    BY <2>1, <2>3, <2>4 DEF M!TypeOK
  <2>6. made' \in 0..MaxWrites
    BY <2>2 DEF MirrorLimits
  <2> QED
    BY <1>9, <2>5, <2>6 DEF M!TypeOK, M!Write
<1>10. ASSUME NEW p \in M!Procs, M!Shutdown(p) PROVE M!TypeOK'
  BY <1>10 DEF M!TypeOK, M!Shutdown, M!Has
<1>11. ASSUME NEW p \in M!Procs, M!FinalSave(p) PROVE M!TypeOK'
  <2>2. /\ file' = file \/ file' = [file EXCEPT ![p] = 1]
        /\ force' = force \/ force' = [force EXCEPT ![p] = TRUE]
    BY <1>11 DEF M!FinalSave, M!Save, M!Has
  <2>3. 1 \in 0..Len(M!FILES) + 1
    BY <1>0
  <2>4. file' \in [M!Procs -> 0..Len(M!FILES) + 1]
    BY <2>2, <2>3 DEF M!TypeOK
  <2>1. file' \in [M!Procs -> 0..Len(M!FILES) + 1] /\ force' \in [M!Procs -> BOOLEAN]
    BY <2>2, <2>4 DEF M!TypeOK
  <2> QED
    BY <1>11, <2>1 DEF M!TypeOK, M!FinalSave, M!Has
<1>12. ASSUME NEW p \in M!Procs, M!Exit(p) PROVE M!TypeOK'
  BY <1>0, <1>12 DEF M!TypeOK, M!Exit, M!Ends, M!Has, M!NoFiles
<1>13. ASSUME NEW p \in M!Procs, M!Killed(p) PROVE M!TypeOK'
  BY <1>0, <1>13 DEF M!TypeOK, M!Killed, M!Ends, M!Has, M!NoFiles, M!Fault, MirrorLimits
<1>14. CASE UNCHANGED M!vars
  BY <1>14 DEF M!TypeOK, M!vars, M!procVars
<1> QED
  BY <1>1, <1>2, <1>3, <1>4, <1>5, <1>6, <1>7, <1>8, <1>9, <1>10, <1>11, <1>12, <1>13, <1>14
  DEF M!Next

----------------------------------------------------------------------------
(* The order of the processes, and what saves *)

LEMMA TidyInit == ASSUME MirrorLimits, M!Init PROVE Tidy
<1>1. M!TypeOK
  BY TypeOKInit
<1> QED
  BY <1>1 DEF Tidy, M!Init, InOrder, Resting, SavesSomething

LEMMA TidyStep == ASSUME MirrorLimits, Tidy, [M!Next]_M!vars PROVE Tidy'
<1>0. /\ M!TypeOK /\ M!TypeOK' /\ Len(M!FILES) = 2
      /\ InOrder /\ Resting /\ SavesSomething
  BY TypeOKStep, TwoFiles DEF Tidy
<1>1. ASSUME NEW p \in M!Procs, M!Boot(p) PROVE InOrder' /\ Resting' /\ SavesSomething'
  <2>1. /\ processAt[p] = "off" /\ processAt' = [processAt EXCEPT ![p] = "restoring"]
        /\ file' = file /\ snap' = snap
        /\ \A q \in M!Procs : q # p => disk'[q] = disk[q]
        /\ \A o \in M!Procs : o < p => processAt[o] # "off"
    BY <1>0, <1>1 DEF M!Boot, M!Has, M!TypeOK, M!Procs, MirrorLimits
  <2>2. InOrder'
    BY <1>0, <2>1 DEF InOrder, M!TypeOK
  <2>3. Resting'
    BY <1>0, <2>1 DEF Resting, M!TypeOK
  <2>4. SavesSomething'
    BY <1>0, <2>1 DEF SavesSomething, M!Saving, M!TypeOK
  <2> QED
    BY <2>2, <2>3, <2>4
<1>2. ASSUME NEW p \in M!Procs, M!Connect(p) PROVE InOrder' /\ Resting' /\ SavesSomething'
  BY <1>0, <1>2 DEF M!Connect, M!Has, M!TypeOK, InOrder, Resting, SavesSomething, M!Saving
<1>3. ASSUME NEW p \in M!Procs, M!RestoreFile(p) PROVE InOrder' /\ Resting' /\ SavesSomething'
  BY <1>0, <1>3 DEF M!RestoreFile, M!Has, M!TypeOK, InOrder, Resting, SavesSomething, M!Saving
<1>4. ASSUME NEW p \in M!Procs, M!Open(p) PROVE InOrder' /\ Resting' /\ SavesSomething'
  BY <1>0, <1>4 DEF M!Open, M!Has, M!TypeOK, InOrder, Resting, SavesSomething, M!Saving
<1>5. ASSUME NEW p \in M!Procs, M!Tick(p) PROVE InOrder' /\ Resting' /\ SavesSomething'
  <2>1. /\ processAt' = processAt /\ disk' = disk /\ snap' = snap /\ processAt[p] = "up" /\ file[p] = 0
        /\ file' = file \/ file' = [file EXCEPT ![p] = 1]
    BY <1>5 DEF M!Tick, M!Save, M!Has
  <2>2. InOrder'
    BY <1>0, <2>1 DEF M!TypeOK, InOrder
  <2>3. Resting'
    BY <1>0, <2>1 DEF M!TypeOK, Resting
  <2>4. SavesSomething'
    BY <1>0, <2>1 DEF M!TypeOK, SavesSomething, M!Saving
  <2> QED
    BY <2>2, <2>3, <2>4
<1>6. ASSUME NEW p \in M!Procs, M!Snapshot(p) PROVE InOrder' /\ Resting' /\ SavesSomething'
  <2>1. /\ processAt' = processAt /\ disk' = disk /\ M!Saving(p)
        /\ \/ file' = [file EXCEPT ![p] = file[p] + 1] /\ snap' = snap /\ snap[p] = Nothing
           \/ file' = file /\ \E c \in M!Contents : snap' = [snap EXCEPT ![p] = c]
    <3>1. disk[p][M!FILES[file[p]]] \in M!Contents
      BY <1>0, <1>6, TwoFiles DEF M!Snapshot, M!Saving, M!TypeOK
    <3> QED
      BY <1>6, <3>1 DEF M!Snapshot, M!Has
  <2>2. InOrder'
    BY <1>0, <2>1 DEF M!TypeOK, InOrder
  <2>3. Resting'
    BY <1>0, <2>1 DEF M!TypeOK, Resting, M!Saving
  <2>4. SavesSomething'
    <3>1. CASE snap' = snap
      BY <1>0, <2>1, <3>1 DEF M!TypeOK, SavesSomething, M!Saving
    <3>2. CASE file' = file
      BY <1>0, <2>1, <3>2 DEF M!TypeOK, SavesSomething, M!Saving
    <3> QED
      BY <2>1, <3>1, <3>2
  <2> QED
    BY <2>2, <2>3, <2>4
<1>7. ASSUME NEW p \in M!Procs, M!Upload(p) PROVE InOrder' /\ Resting' /\ SavesSomething'
  BY <1>0, <1>7 DEF M!Upload, M!Has, M!TypeOK, InOrder, Resting, SavesSomething, M!Saving
<1>8. ASSUME NEW p \in M!Procs, M!SaveEnds(p) PROVE InOrder' /\ Resting' /\ SavesSomething'
  BY <1>0, <1>8 DEF M!SaveEnds, M!Has, M!TypeOK, InOrder, Resting, SavesSomething, M!Saving
<1>9. ASSUME NEW p \in M!Procs, M!Write(p) PROVE InOrder' /\ Resting' /\ SavesSomething'
  BY <1>0, <1>9 DEF M!Write, M!Has, M!TypeOK, InOrder, Resting, SavesSomething, M!Saving
<1>10. ASSUME NEW p \in M!Procs, M!Shutdown(p) PROVE InOrder' /\ Resting' /\ SavesSomething'
  BY <1>0, <1>10 DEF M!Shutdown, M!Has, M!TypeOK, InOrder, Resting, SavesSomething, M!Saving
<1>11. ASSUME NEW p \in M!Procs, M!FinalSave(p) PROVE InOrder' /\ Resting' /\ SavesSomething'
  BY <1>0, <1>11 DEF M!FinalSave, M!Has, M!Save, M!TypeOK, InOrder, Resting, SavesSomething, M!Saving
<1>12. ASSUME NEW p \in M!Procs, M!Exit(p) PROVE InOrder' /\ Resting' /\ SavesSomething'
  BY <1>0, <1>12 DEF M!Exit, M!Has, M!Ends, M!TypeOK, InOrder, Resting, SavesSomething, M!Saving
<1>13. ASSUME NEW p \in M!Procs, M!Killed(p) PROVE InOrder' /\ Resting' /\ SavesSomething'
  BY <1>0, <1>13 DEF M!Killed, M!Has, M!Ends, M!Running, M!TypeOK, InOrder, Resting, SavesSomething, M!Saving
<1>14. CASE UNCHANGED M!vars
  <2>1. processAt' = processAt /\ disk' = disk /\ file' = file /\ snap' = snap
    BY <1>14 DEF M!vars, M!procVars
  <2>2. InOrder'
    BY <1>0, <2>1 DEF InOrder
  <2>3. Resting'
    BY <1>0, <2>1 DEF Resting
  <2>4. SavesSomething'
    BY <1>0, <2>1 DEF SavesSomething, M!Saving
  <2> QED
    BY <1>0, <2>2, <2>3, <2>4 DEF Tidy
<1> QED
  BY <1>0, <1>1, <1>2, <1>3, <1>4, <1>5, <1>6, <1>7, <1>8, <1>9, <1>10, <1>11, <1>12, <1>13, <1>14
  DEF M!Next, Tidy

----------------------------------------------------------------------------
(* The disk of the process that runs is ahead of the mirror *)

LEMMA ApartStays == ASSUME [M!Next]_M!vars, apart PROVE apart'
  BY DEF M!Next, M!vars, M!procVars, M!Boot, M!Connect, M!RestoreFile, M!Open, M!Tick, M!Snapshot, M!Upload,
     M!SaveEnds, M!Write, M!Shutdown, M!FinalSave, M!Exit, M!Killed, M!Ends

\* A step that neither starts a process nor touches a file, and gives nobody more of the
\* mirror, leaves everything as far ahead as it was.
LEMMA QuietStep ==
  ASSUME Ahead, UNCHANGED <<mirror, disk, ever>>,
         \A q \in M!Procs : processAt[q] = "off" <=> processAt'[q] = "off",
         \A q \in M!Procs : M!Running(q)' => M!Running(q),
         \A q \in M!Procs : snap'[q] # Nothing => snap'[q] = snap[q] /\ file'[q] = file[q],
         \A q \in M!Procs, i \in 1..2 : Given(q, i)' => Given(q, i)
  PROVE  Ahead'
<1>0. Len(M!FILES) = 2
  BY TwoFiles
<1>1. \A q \in M!Procs : Newest(q)' => Newest(q)
  BY DEF Newest
<1>2. NewestRuns'
  BY DEF Ahead, NewestRuns, Newest
<1>3. GivenTheMirror'
  BY <1>0 DEF Ahead, GivenTheMirror, M!Missed
<1>4. DiskIsAhead'
  BY <1>1 DEF Ahead, DiskIsAhead, Held
<1>5. SnapIsAhead'
  BY DEF Ahead, SnapIsAhead, Held
<1>6. EverIsHeld'
  BY DEF Ahead, EverIsHeld, Held
<1> QED
  BY <1>2, <1>3, <1>4, <1>5, <1>6 DEF Ahead

LEMMA AheadInit == ASSUME MirrorLimits, M!Init PROVE Ahead
<1>1. \A p \in M!Procs : ~M!Running(p) /\ ~Newest(p) /\ snap[p] = Nothing
  BY DEF M!Init, M!Running, Newest
<1>2. NewestRuns /\ DiskIsAhead /\ SnapIsAhead
  BY <1>1 DEF NewestRuns, DiskIsAhead, SnapIsAhead
<1>3. GivenTheMirror
  BY DEF GivenTheMirror, Given, M!Init
<1>4. EverIsHeld
  BY DEF EverIsHeld, M!Init
<1> QED
  BY <1>2, <1>3, <1>4 DEF Ahead

LEMMA AheadStep ==
  ASSUME MirrorLimits, Tidy, Tidy', Ahead, ~apart', [M!Next]_M!vars
  PROVE  Ahead'
<1>0. /\ M!TypeOK /\ M!TypeOK' /\ Len(M!FILES) = 2 /\ \A i \in 1..2 : M!FILES[i] \in M!Files
      /\ InOrder /\ Resting /\ SavesSomething /\ SavesSomething'
      /\ NewestRuns /\ GivenTheMirror /\ DiskIsAhead /\ SnapIsAhead /\ EverIsHeld
  BY TwoFiles DEF Tidy, Ahead
<1>1. ASSUME NEW p \in M!Procs, M!Boot(p) PROVE Ahead'
  <2>1. /\ processAt[p] = "off" /\ processAt' = [processAt EXCEPT ![p] = "restoring"]
        /\ file' = file /\ snap' = snap /\ mirror' = mirror /\ ever' = ever
        /\ \A o \in M!Procs : o < p => processAt[o] # "off"
    BY <1>1 DEF M!Boot, M!Has, M!Procs, MirrorLimits
  <2>10. \A q \in M!Procs : q # p => disk'[q] = disk[q]
    BY <1>0, <1>1 DEF M!Boot, M!Has, M!TypeOK
  <2>11. \A q \in M!Procs : ~M!Running(q)
    BY <1>1 DEF M!Boot
  <2>2. \A q \in M!Procs : q > p => processAt[q] = "off"
    BY <1>0, <2>1 DEF InOrder
  <2>3. \A q \in M!Procs : (M!Running(q)' \/ Newest(q)') => q = p
    <3>1. ASSUME NEW q \in M!Procs, M!Running(q)' PROVE q = p
      BY <1>0, <2>1, <2>11, <3>1 DEF M!Running, M!TypeOK
    <3>2. ASSUME NEW q \in M!Procs, Newest(q)' PROVE q = p
      BY <1>0, <2>1, <2>2, <3>2 DEF Newest, M!TypeOK, M!Procs
    <3> QED
      BY <3>1, <3>2
  <2>4. NewestRuns'
    BY <1>0, <2>1, <2>2, <2>3 DEF NewestRuns, Newest, M!TypeOK, M!Procs
  <2>5. GivenTheMirror'
    <3>1. \A q \in M!Procs, i \in 1..2 : ~Given(q, i)'
      BY <1>0, <2>1, <2>3 DEF Given, M!Running, Resting
    <3> QED
      BY <1>0, <3>1 DEF GivenTheMirror
  <2>6. SnapIsAhead'
    BY <1>0, <2>1, <2>11 DEF SnapIsAhead, SavesSomething, M!Saving, M!Running
  <2>7. ASSUME NEW f \in M!Files PROVE disk'[p][f] = Nothing \/ Held(mirror[f]) \subseteq disk'[p][f]
    <3>1. CASE disk' = disk
      BY <1>0, <2>1, <3>1 DEF Resting, M!NoFiles
    <3>2. CASE p > 1 /\ processAt[p - 1] = "gone" /\ disk' = [disk EXCEPT ![p] = disk[p - 1]]
      <4>1. p - 1 \in M!Procs /\ \A o \in M!Procs : o > p - 1 => o = p \/ o > p
        BY <3>2 DEF M!Procs, MirrorLimits
      <4>2. Newest(p - 1)
        BY <2>1, <2>2, <3>2, <4>1 DEF Newest
      <4>3. disk'[p][f] = disk[p - 1][f]
        BY <1>0, <3>2 DEF M!TypeOK
      <4> QED
        BY <1>0, <4>1, <4>2, <4>3 DEF DiskIsAhead
    <3> QED
      BY <1>1, <3>1, <3>2 DEF M!Boot, M!Has
  <2>8. DiskIsAhead'
    BY <2>1, <2>3, <2>7 DEF DiskIsAhead, Held
  <2>9. EverIsHeld'
    BY <1>0, <2>1 DEF EverIsHeld, Held
  <2> QED
    BY <2>4, <2>5, <2>6, <2>8, <2>9 DEF Ahead
<1>2. ASSUME NEW p \in M!Procs, M!Connect(p) PROVE Ahead'
  <2>1. /\ UNCHANGED <<mirror, disk, ever, processAt, snap>>
        /\ processAt[p] = "restoring" /\ snap[p] = Nothing
        /\ \A q \in M!Procs : q # p => file'[q] = file[q]
    BY <1>0, <1>2 DEF M!Connect, M!Has, M!TypeOK, SavesSomething, M!Saving
  <2>2. CASE file' = [file EXCEPT ![p] = 1]
    <3>1. \A q \in M!Procs, i \in 1..2 : Given(q, i)' => Given(q, i)
      BY <1>0, <2>1, <2>2 DEF Given, M!TypeOK
    <3> QED
      BY <2>1, <3>1, QuietStep DEF M!Running
  <2>3. CASE apart' = (apart \/ \E f \in M!Files : M!Missed(p, f))
    <3>1. \A f \in M!Files : ~M!Missed(p, f)
      BY <2>3
    <3>2. GivenTheMirror'
      BY <1>0, <2>1, <3>1 DEF GivenTheMirror, Given, M!Missed
    <3> QED
      BY <1>0, <2>1, <3>2 DEF Ahead, NewestRuns, Newest, M!Running, DiskIsAhead, SnapIsAhead,
         EverIsHeld, Held
  <2> QED
    BY <1>2, <2>2, <2>3 DEF M!Connect, M!Has
<1>3. ASSUME NEW p \in M!Procs, M!RestoreFile(p) PROVE Ahead'
  <2> DEFINE f == M!FILES[file[p]]
  <2>1. /\ UNCHANGED <<mirror, ever, processAt, snap>> /\ processAt[p] = "restoring" /\ snap[p] = Nothing
        /\ file[p] \in 1..2 /\ f \in M!Files
        /\ file' = [file EXCEPT ![p] = file[p] + 1]
        /\ disk' = disk \/ disk' = [disk EXCEPT ![p][f] = M!Restored(p, f)]
    BY <1>0, <1>3 DEF M!RestoreFile, M!Has, M!TypeOK, SavesSomething, M!Saving
  <2>2. \A q \in M!Procs, g \in M!Files :
          \/ disk'[q][g] = disk[q][g]
          \/ q = p /\ g = f /\ disk[q][g] = Nothing /\ disk'[q][g] = mirror[g]
    BY <1>0, <2>1 DEF M!Restored, M!TypeOK
  <2>3. disk'[p][f] = Nothing => mirror[f] = Nothing
    <3>1. CASE disk' = [disk EXCEPT ![p][f] = M!Restored(p, f)]
      BY <1>0, <2>1, <3>1 DEF M!Missed, M!Restored, M!TypeOK
    <3>2. CASE apart' = (apart \/ M!Missed(p, f)) /\ disk' = disk
      BY <2>1, <3>2 DEF M!Missed
    <3> QED
      BY <1>3, <3>1, <3>2 DEF M!RestoreFile
  <2>4. \A q \in M!Procs, g \in M!Files : M!Missed(q, g)' => M!Missed(q, g)
    BY <2>1, <2>2 DEF M!Missed
  <2>5. ASSUME NEW q \in M!Procs, NEW i \in 1..2, Given(q, i)' PROVE ~M!Missed(q, M!FILES[i])'
    <3>1. CASE Given(q, i)
      BY <1>0, <2>4, <3>1 DEF GivenTheMirror
    <3>2. CASE q = p /\ i = file[p]
      BY <2>1, <2>3, <3>2 DEF M!Missed
    <3> QED
      BY <1>0, <2>1, <2>5, <3>1, <3>2 DEF Given, M!TypeOK
  <2>6. GivenTheMirror'
    BY <1>0, <2>5 DEF GivenTheMirror
  <2>7. NewestRuns' /\ EverIsHeld' /\ \A q \in M!Procs : Newest(q)' => Newest(q)
    BY <1>0, <2>1 DEF NewestRuns, Newest, M!Running, EverIsHeld, Held
  <2>8. DiskIsAhead'
    BY <1>0, <2>1, <2>2, <2>7 DEF DiskIsAhead, Held
  <2>9. ASSUME NEW q \in M!Procs, snap'[q] # Nothing PROVE q # p /\ file[q] \in 1..2
    BY <1>0, <2>1, <2>9 DEF SavesSomething, M!Saving
  <2>10. SnapIsAhead'
    BY <1>0, <2>1, <2>2, <2>9 DEF SnapIsAhead, Held, M!TypeOK
  <2> QED
    BY <2>6, <2>7, <2>8, <2>10 DEF Ahead
<1>4. ASSUME NEW p \in M!Procs, M!Open(p) PROVE Ahead'
  <2> DEFINE f == "acp.sqlite"
  <2>1. /\ UNCHANGED <<mirror, ever, snap>> /\ processAt[p] = "restoring" /\ snap[p] = Nothing
        /\ file[p] = 3 /\ f \in M!Files
        /\ file' = [file EXCEPT ![p] = 0] /\ processAt' = [processAt EXCEPT ![p] = "up"]
        /\ disk' = [disk EXCEPT ![p][f] = IF disk[p][f] = Nothing THEN {} ELSE disk[p][f]]
    BY <1>0, <1>4, TwoFiles DEF M!Open, M!Has, M!TypeOK, SavesSomething, M!Saving
  <2>2. \A q \in M!Procs, g \in M!Files :
          \/ disk'[q][g] = disk[q][g]
          \/ q = p /\ g = f /\ disk[q][g] = Nothing /\ disk'[q][g] = {}
    <3>1. disk \in [M!Procs -> [M!Files -> M!Contents]]
      BY <1>0 DEF M!TypeOK
    <3>2. \A q \in M!Procs : q # p => disk'[q] = disk[q]
      BY <2>1, <3>1
    <3>3. \A g \in M!Files : g # f => disk'[p][g] = disk[p][g]
      BY <2>1, <3>1
    <3>4. disk'[p][f] = IF disk[p][f] = Nothing THEN {} ELSE disk[p][f]
      BY <2>1, <3>1
    <3>5. ASSUME NEW q \in M!Procs, NEW g \in M!Files
          PROVE  \/ disk'[q][g] = disk[q][g]
                 \/ q = p /\ g = f /\ disk[q][g] = Nothing /\ disk'[q][g] = {}
      <4>1. CASE q # p
        BY <3>2, <4>1
      <4>2. CASE q = p /\ g # f
        BY <3>3, <4>2
      <4>3. CASE q = p /\ g = f
        BY <3>4, <4>3
      <4> QED
        BY <4>1, <4>2, <4>3
    <3> QED
      BY <3>5
  <2>3. \A g \in M!Files : ~M!Missed(p, g)
    <3>1. \A i \in 1..2 : ~M!Missed(p, M!FILES[i])
      BY <1>0, <2>1 DEF GivenTheMirror, Given
    <3> QED
      BY <3>1, TwoFiles
  <2>4. \A q \in M!Procs, g \in M!Files : M!Missed(q, g)' => M!Missed(q, g)
    BY <2>1, <2>2 DEF M!Missed
  <2>5. \A q \in M!Procs, i \in 1..2 : Given(q, i)' => q = p \/ Given(q, i)
    BY <1>0, <2>1 DEF Given, M!TypeOK
  <2>6. GivenTheMirror'
    BY <1>0, <2>3, <2>4, <2>5 DEF GivenTheMirror
  <2>7. NewestRuns' /\ EverIsHeld' /\ \A q \in M!Procs : Newest(q)' => Newest(q)
    BY <1>0, <2>1 DEF NewestRuns, Newest, M!Running, EverIsHeld, Held, M!TypeOK
  <2>8. ASSUME NEW q \in M!Procs, Newest(q)', NEW g \in M!Files
        PROVE  disk'[q][g] = Nothing \/ Held(mirror[g]) \subseteq disk'[q][g]
    BY <1>0, <2>2, <2>3, <2>7, <2>8 DEF DiskIsAhead, Held, M!Missed
  <2>9. DiskIsAhead'
    BY <2>1, <2>8 DEF DiskIsAhead, Held
  <2>10. \A q \in M!Procs : snap'[q] # Nothing => q # p /\ file[q] \in 1..2
    BY <1>0, <2>1 DEF SavesSomething, M!Saving
  <2>11. SnapIsAhead'
    BY <1>0, <2>1, <2>2, <2>10 DEF SnapIsAhead, Held, M!TypeOK
  <2> QED
    BY <2>6, <2>7, <2>9, <2>11 DEF Ahead
<1>5. ASSUME NEW p \in M!Procs, M!Tick(p) PROVE Ahead'
  <2>1. /\ UNCHANGED <<mirror, disk, ever, processAt, snap>> /\ processAt[p] = "up" /\ snap[p] = Nothing
        /\ \A q \in M!Procs : q # p => file'[q] = file[q]
    BY <1>0, <1>5 DEF M!Tick, M!Save, M!Has, SavesSomething, M!Saving, M!TypeOK
  <2>2. \A q \in M!Procs, i \in 1..2 : Given(q, i)' => Given(q, i)
    BY <1>0, <2>1 DEF Given, M!TypeOK
  <2> QED
    BY <1>0, <2>1, <2>2, QuietStep DEF M!Running, M!TypeOK
<1>6. ASSUME NEW p \in M!Procs, M!Snapshot(p) PROVE Ahead'
  <2> DEFINE f == M!FILES[file[p]]
  <2>1. /\ UNCHANGED <<mirror, disk, ever, processAt>> /\ processAt[p] \in {"up", "draining", "saving"}
        /\ file[p] \in 1..2 /\ f \in M!Files /\ snap[p] = Nothing
        /\ \A q \in M!Procs : q # p => file'[q] = file[q] /\ snap'[q] = snap[q]
    BY <1>0, <1>6 DEF M!Snapshot, M!Saving, M!Has, M!TypeOK
  <2>2. \A q \in M!Procs, i \in 1..2 : Given(q, i)' => Given(q, i)
    BY <2>1 DEF Given
  <2>3. CASE snap' = snap
    BY <2>1, <2>2, <2>3, QuietStep DEF M!Running
  <2>4. CASE disk[p][f] # Nothing /\ snap' = [snap EXCEPT ![p] = disk[p][f]] /\ file' = file
    <3>1. Held(mirror[f]) \subseteq disk[p][f]
      BY <1>0, <2>1, <2>4 DEF DiskIsAhead, NewestRuns, M!Running
    <3>2. SnapIsAhead'
      BY <1>0, <2>1, <2>4, <3>1 DEF SnapIsAhead, Held, M!TypeOK
    <3> QED
      BY <1>0, <2>1, <2>2, <3>2 DEF Ahead, NewestRuns, Newest, M!Running, GivenTheMirror, M!Missed,
         DiskIsAhead, EverIsHeld, Held
  <2> QED
    BY <1>6, <2>3, <2>4 DEF M!Snapshot, M!Has
<1>7. ASSUME NEW p \in M!Procs, M!Upload(p) PROVE Ahead'
  <2> DEFINE f == M!FILES[file[p]]
  <2>1. /\ UNCHANGED <<disk, processAt>> /\ processAt[p] \in {"up", "draining", "saving"}
        /\ file[p] \in 1..2 /\ f \in M!Files /\ snap[p] # Nothing
        /\ \A q \in M!Procs : q # p => file'[q] = file[q] /\ snap'[q] = snap[q]
        /\ snap'[p] = Nothing
    BY <1>0, <1>7 DEF M!Upload, M!Saving, M!Has, M!TypeOK
  <2>2. \A q \in M!Procs, i \in 1..2 : Given(q, i)' => Given(q, i)
    BY <2>1 DEF Given
  <2>3. CASE mirror' = mirror /\ ever' = ever
    BY <2>1, <2>2, <2>3, QuietStep DEF M!Running
  <2>4. CASE /\ mirror' = [mirror EXCEPT ![f] = snap[p]]
             /\ ever' = [ever EXCEPT ![f] = ever[f] \cup snap[p]]
    <3>1. /\ disk[p][f] # Nothing /\ snap[p] \subseteq disk[p][f]
          /\ Held(mirror[f]) \subseteq snap[p]
      BY <1>0, <2>1 DEF SnapIsAhead
    <3>2. \A g \in M!Files : g # f => mirror'[g] = mirror[g] /\ ever'[g] = ever[g]
      BY <1>0, <2>4 DEF M!TypeOK
    <3>3. mirror'[f] = snap[p] /\ ever'[f] = ever[f] \cup snap[p]
      BY <1>0, <2>1, <2>4 DEF M!TypeOK
    <3> HIDE DEF f
    <3>4. \A q \in M!Procs : (M!Running(q) \/ Newest(q)) => q = p
      BY <1>0, <2>1 DEF NewestRuns, Newest, M!Running, M!Procs
    <3>5. NewestRuns'
      BY <1>0, <2>1 DEF NewestRuns, Newest, M!Running
    <3>6. EverIsHeld'
      BY <1>0, <2>1, <3>1, <3>2, <3>3 DEF EverIsHeld, Held
    <3>7. DiskIsAhead'
      BY <1>0, <2>1, <3>1, <3>2, <3>3, <3>4 DEF DiskIsAhead, Newest, Held
    <3>8. SnapIsAhead'
      BY <1>0, <2>1, <3>4 DEF SnapIsAhead, SavesSomething, M!Saving, M!Running
    <3>9. \A q \in M!Procs, i \in 1..2 : Given(q, i) => q = p
      BY <2>1, <3>4 DEF Given, M!Running
    <3>10. GivenTheMirror'
      BY <1>0, <2>1, <2>2, <3>1, <3>2, <3>9 DEF GivenTheMirror, M!Missed
    <3> QED
      BY <3>5, <3>6, <3>7, <3>8, <3>10 DEF Ahead
  <2> QED
    BY <1>7, <2>3, <2>4 DEF M!Upload
<1>8. ASSUME NEW p \in M!Procs, M!SaveEnds(p) PROVE Ahead'
  <2>1. /\ UNCHANGED <<mirror, disk, ever, processAt, snap>> /\ snap[p] = Nothing
        /\ processAt[p] \in {"up", "draining", "saving"}
        /\ \A q \in M!Procs : q # p => file'[q] = file[q]
    BY <1>0, <1>8 DEF M!SaveEnds, M!Has, SavesSomething, M!Saving, M!TypeOK
  <2>2. \A q \in M!Procs, i \in 1..2 : Given(q, i)' => Given(q, i)
    BY <1>0, <2>1 DEF Given, M!TypeOK
  <2> QED
    BY <1>0, <2>1, <2>2, QuietStep DEF M!Running, M!TypeOK
<1>9. ASSUME NEW p \in M!Procs, M!Write(p) PROVE Ahead'
  <2>1. PICK f \in M!Files :
          disk' = [disk EXCEPT ![p][f] = IF @ = Nothing THEN {made + 1} ELSE @ \cup {made + 1}]
    BY <1>9 DEF M!Write
  <2>2. UNCHANGED <<mirror, ever, processAt, file, snap>> /\ processAt[p] \in {"up", "draining"}
    BY <1>9 DEF M!Write
  <2>3. /\ {made + 1} \in SUBSET (1..MaxWrites)
        /\ \A c \in M!Contents : c # Nothing => c \cup {made + 1} \in SUBSET (1..MaxWrites)
        /\ \A c \in SUBSET (1..MaxWrites) : c # Nothing
    <3>1. made + 1 \in 1..MaxWrites
      BY <1>0, <1>9 DEF M!TypeOK, M!Write, MirrorLimits
    <3> QED
      BY <3>1, ContentsTyped
  <2>4. \A q \in M!Procs, g \in M!Files :
          \/ disk'[q][g] = disk[q][g]
          \/ q = p /\ g = f /\ disk[q][g] = Nothing /\ disk'[q][g] = {made + 1}
          \/ q = p /\ g = f /\ disk[q][g] # Nothing /\ disk'[q][g] = disk[q][g] \cup {made + 1}
    BY <1>0, <2>1 DEF M!TypeOK
  <2>5. \A q \in M!Procs, g \in M!Files :
          /\ disk[q][g] # Nothing => disk'[q][g] # Nothing /\ disk[q][g] \subseteq disk'[q][g]
          /\ disk[q][g] = Nothing /\ disk'[q][g] # Nothing => q = p
    BY <1>0, <2>3, <2>4 DEF M!TypeOK
  <2>6. \A g \in M!Files : ~M!Missed(p, g)
    <3>1. \A i \in 1..2 : ~M!Missed(p, M!FILES[i])
      BY <1>0, <2>2 DEF GivenTheMirror, Given
    <3> QED
      BY <3>1, TwoFiles
  <2>7. NewestRuns' /\ EverIsHeld' /\ \A q \in M!Procs : Newest(q)' => Newest(q)
    BY <1>0, <2>2 DEF NewestRuns, Newest, M!Running, EverIsHeld, Held
  <2>8. GivenTheMirror'
    BY <1>0, <2>2, <2>5 DEF GivenTheMirror, Given, M!Missed
  <2>9. ASSUME NEW q \in M!Procs, Newest(q)', NEW g \in M!Files
        PROVE  disk'[q][g] = Nothing \/ Held(mirror[g]) \subseteq disk'[q][g]
    BY <1>0, <2>5, <2>6, <2>7, <2>9 DEF DiskIsAhead, Held, M!Missed
  <2>10. DiskIsAhead'
    BY <2>2, <2>9 DEF DiskIsAhead, Held
  <2>11. \A q \in M!Procs : snap[q] # Nothing => file[q] \in 1..2
    BY <1>0 DEF SavesSomething, M!Saving
  <2>12. SnapIsAhead'
    BY <1>0, <2>2, <2>5, <2>11 DEF SnapIsAhead, Held
  <2> QED
    BY <2>7, <2>8, <2>10, <2>12 DEF Ahead
<1>10. ASSUME NEW p \in M!Procs, M!Shutdown(p) PROVE Ahead'
  <2>1. /\ UNCHANGED <<mirror, disk, ever, file, snap>>
        /\ processAt[p] = "up" /\ processAt' = [processAt EXCEPT ![p] = "draining"]
    BY <1>0, <1>10 DEF M!Shutdown, M!Has, M!TypeOK
  <2>2. \A q \in M!Procs, i \in 1..2 : Given(q, i)' => Given(q, i)
    BY <1>0, <2>1 DEF Given, M!TypeOK
  <2> QED
    BY <1>0, <2>1, <2>2, QuietStep DEF M!Running, M!TypeOK
<1>11. ASSUME NEW p \in M!Procs, M!FinalSave(p) PROVE Ahead'
  <2>1. /\ UNCHANGED <<mirror, disk, ever, snap>>
        /\ processAt[p] = "draining" /\ processAt' = [processAt EXCEPT ![p] = "saving"]
        /\ \A q \in M!Procs : q # p \/ snap[q] # Nothing => file'[q] = file[q]
    BY <1>0, <1>11 DEF M!FinalSave, M!Save, M!Has, SavesSomething, M!Saving, M!TypeOK
  <2>2. \A q \in M!Procs, i \in 1..2 : Given(q, i)' => Given(q, i)
    BY <1>0, <2>1 DEF Given, M!TypeOK
  <2> QED
    BY <1>0, <2>1, <2>2, QuietStep DEF M!Running, M!TypeOK
<1>12. ASSUME NEW p \in M!Procs, M!Exit(p) PROVE Ahead'
  <2>1. /\ UNCHANGED <<mirror, disk, ever>>
        /\ processAt[p] # "off" /\ processAt' = [processAt EXCEPT ![p] = "gone"]
        /\ snap' = [snap EXCEPT ![p] = Nothing] /\ file' = [file EXCEPT ![p] = 0]
    BY <1>0, <1>12 DEF M!Exit, M!Ends, M!Has, M!TypeOK
  <2>2. \A q \in M!Procs, i \in 1..2 : Given(q, i)' => Given(q, i)
    BY <1>0, <2>1 DEF Given, M!TypeOK
  <2> QED
    BY <1>0, <2>1, <2>2, QuietStep DEF M!Running, M!TypeOK
<1>13. ASSUME NEW p \in M!Procs, M!Killed(p) PROVE Ahead'
  <2>1. /\ UNCHANGED <<mirror, disk, ever>>
        /\ processAt[p] # "off" /\ processAt' = [processAt EXCEPT ![p] = "gone"]
        /\ snap' = [snap EXCEPT ![p] = Nothing] /\ file' = [file EXCEPT ![p] = 0]
    BY <1>0, <1>13 DEF M!Killed, M!Ends, M!Running, M!Has, M!TypeOK
  <2>2. \A q \in M!Procs, i \in 1..2 : Given(q, i)' => Given(q, i)
    BY <1>0, <2>1 DEF Given, M!TypeOK
  <2> QED
    BY <1>0, <2>1, <2>2, QuietStep DEF M!Running, M!TypeOK
<1>14. CASE UNCHANGED M!vars
  <2>1. UNCHANGED <<mirror, disk, ever, processAt, file, snap>>
    BY <1>14 DEF M!vars, M!procVars
  <2> QED
    BY <2>1, QuietStep DEF Given, M!Running
<1> QED
  BY <1>1, <1>2, <1>3, <1>4, <1>5, <1>6, <1>7, <1>8, <1>9, <1>10, <1>11, <1>12, <1>13, <1>14
  DEF M!Next

----------------------------------------------------------------------------
(* The theorems *)

LEMMA InvInit == ASSUME MirrorLimits PROVE M!Init => MirrorInv
  BY TidyInit, AheadInit DEF MirrorInv

LEMMA InvStep == ASSUME MirrorLimits PROVE MirrorInv /\ [M!Next]_M!vars => MirrorInv'
<1> SUFFICES ASSUME MirrorInv, [M!Next]_M!vars PROVE MirrorInv'
  OBVIOUS
<1>1. Tidy'
  BY TidyStep DEF MirrorInv
<1>2. CASE apart
  BY <1>1, <1>2, ApartStays DEF MirrorInv
<1>3. CASE apart'
  BY <1>1, <1>3 DEF MirrorInv
<1>4. CASE ~apart /\ ~apart'
  BY <1>1, <1>4, AheadStep DEF MirrorInv
<1> QED
  BY <1>2, <1>3, <1>4

\* The inductive invariant holds in every reachable state.
THEOREM MirrorInvariant == M!Spec => []MirrorInv
<1> USE MirrorAssumption
<1>1. M!Init => MirrorInv
  BY InvInit
<1>2. MirrorInv /\ [M!Next]_M!vars => MirrorInv'
  BY InvStep
<1> QED
  BY <1>1, <1>2, PTL DEF M!Spec

\* What the mirror has held it holds, over any number of processes that start on new disks
\* and old, save, end and are killed, and of saves that fail (restoreFromDatabase,
\* saveToDatabase), unless one came up without a file of the mirror or beside another.
THEOREM MirrorIsKept == M!Spec => []MirrorKeeps
<1>1. MirrorInv => MirrorKeeps
  BY DEF MirrorInv, Ahead, EverIsHeld, Held, MirrorKeeps, M!MirrorKeeps
<1>2. M!Spec => []MirrorInv
  BY MirrorInvariant
<1> QED
  BY <1>1, <1>2, PTL
----------------------------------------------------------------------------
(* The accounts                                                            *)
(*                                                                         *)
(* A request that will open a session knows a password of its account from *)
(* the moment it looked the account up.  If that is not the one that       *)
(* counts any more, then either somebody is about to sign the account out, *)
(* and that will make this request a late one, or an update wrote over     *)
(* another.  A session stands for the password of the request that opened  *)
(* it.                                                                     *)

\* What a request at a label may be.
Doing ==
  \A q \in Requests :
    /\ requestAt[q] = "idle" => does[q] = "none"
    /\ requestAt[q] = "hashing" => does[q] \in {"setup", "signUp", "add"} /\ email[q] \in Emails
    /\ requestAt[q] \in {"redeeming", "using"} => does[q] \in {"verify", "reset"} /\ via[q] \in Requests
    /\ requestAt[q] = "looking" => does[q] \notin {"none", "signUp", "add"}
    /\ requestAt[q] = "checking" => does[q] \in {"setup", "signIn", "change"}
    /\ requestAt[q] = "verifying" => does[q] = "verify"
    /\ requestAt[q] \in {"reading", "writing"} =>
         does[q] \in {"setup", "signIn", "change", "reset", "role"}
    /\ requestAt[q] = "signingOut" => does[q] \in {"change", "reset", "delete"}
    /\ requestAt[q] = "opening" => does[q] \in {"setup", "signIn", "change", "verify"}

\* What it has read and knows by then.
Knowing ==
  \A q \in Requests :
    /\ requestAt[q] \in {"checking", "verifying", "reading", "writing", "signingOut", "opening"} =>
         who[q] \in A!UserIds
    /\ requestAt[q] \in {"checking", "verifying", "writing"} => old[q] \in A!Rows
    /\ requestAt[q] \notin {"idle", "over"} /\ does[q] \in {"setup", "signUp", "add", "change", "reset"} =>
         password[q] # 0
    /\ requestAt[q] \in {"reading", "writing"} /\ does[q] = "signIn" => password[q] # 0
    /\ requestAt[q] = "opening" => password[q] # 0

Typed == A!TypeOK /\ Doing /\ Knowing

\* A link is made once, by the request's last step, and stays spent.
LinksAreMadeOnce ==
  \A l \in Requests :
    /\ requestAt[l] # "over" => link[l] = A!NoLink /\ redeemed[l] = 0
    /\ redeemed[l] # 0 => redeemed[l] = 1 /\ ~A!Unspent(l)

\* Requests that will open a session, and the password each has proved or set.
Opens(q) ==
  \/ requestAt[q] \in {"checking", "verifying", "opening"}
  \/ requestAt[q] \in {"reading", "writing"} /\ does[q] \in {"setup", "signIn"}
  \/ requestAt[q] = "signingOut" /\ does[q] = "change"
Word(q) == IF requestAt[q] \in {"checking", "verifying"} THEN old[q].word ELSE password[q]

SigningOut(i) == {r \in Requests : requestAt[r] = "signingOut" /\ who[r] = i}

\* What such a request knows is the password that counts, or it is late, or will be.
KnowsTheWord ==
  \A q \in Requests : Opens(q) /\ who[q] \in A!People =>
    \/ q \in late \/ who[q] \in excused
    \/ SigningOut(who[q]) \ {q} # {}
    \/ Word(q) = user[who[q]].word

\* A session is an account's.
SessionsHaveAccounts == \A s \in sessions : s.of \in A!People

SessionInv == Typed /\ KnowsTheWord /\ SessionsHaveAccounts /\ A!SignedOutByAChange

USE DEF A!rows, A!own, A!past, A!UserIds, AccountLimits

----------------------------------------------------------------------------
(* Types *)

\* No request is under way.
LEMMA InitTyped == ASSUME AccountLimits, A!Init PROVE Typed
<1>. USE DEF A!Init
<1>1. /\ user \in [A!UserIds -> A!Rows \cup {Nothing}] /\ words \in 0..MaxWords
      /\ sessions \subseteq [of : A!UserIds, word : 1..MaxWords, by : Requests \cup {Nothing}]
  <2>1. CASE words = 0 BY <2>1
  <2>2. ASSUME NEW e \in Emails,
               user = [i \in A!UserIds |-> IF i = 1
                         THEN [email |-> e, word |-> 1, role |-> "owner", verified |-> TRUE]
                         ELSE Nothing],
               words = 1, sessions = {[of |-> 1, word |-> 1, by |-> Nothing]}
        PROVE  <1>1!:
    BY <2>2 DEF A!Rows
  <2>. QED BY <2>1, <2>2
<1>2. A!TypeOK BY <1>1 DEF A!TypeOK, A!Labels, A!Kinds
<1>3. Doing /\ Knowing BY DEF Doing, Knowing
<1>. QED BY <1>2, <1>3 DEF Typed

\* Requests as they come.
LEMMA AskTyped ==
  ASSUME AccountLimits, Typed, NEW q \in Requests, A!Ask(q) PROVE Typed'
<1>. USE DEF Typed
<1>1. CASE A!AskForAccount(q)
  <2>1. PICK e \in Emails, kind \in {"setup", "signUp", "add"} :
          /\ A!Begins(q, kind, IF (IF kind = "setup" THEN A!People ELSE A!ByEmail(e)) = {}
                                 THEN "hashing" ELSE "over")
          /\ email' = [email EXCEPT ![q] = e]
    BY <1>1 DEF A!AskForAccount
  <2>2. PICK label \in {"hashing", "over"} :
          requestAt' = [requestAt EXCEPT ![q] = label] /\ does' = [does EXCEPT ![q] = kind]
    BY <2>1 DEF A!Begins, A!To
  <2>. USE <1>1, <2>1, <2>2 DEF A!AskForAccount, A!Chooses
  <2>3. A!TypeOK' BY SMTT(30) DEF A!TypeOK, A!Labels, A!Kinds
  <2>4. Doing' BY DEF Doing, A!TypeOK
  <2>5. Knowing' BY DEF Knowing, A!TypeOK
  <2>. QED BY <2>3, <2>4, <2>5
<1>2. CASE A!AskByEmail(q)
  <2>. USE <1>2 DEF A!AskByEmail, A!Begins, A!To
  <2>3. A!TypeOK' BY SMTT(30) DEF A!TypeOK, A!Labels, A!Kinds
  <2>4. Doing' BY DEF Doing, A!TypeOK
  <2>5. Knowing' BY DEF Knowing, A!TypeOK
  <2>. QED BY <2>3, <2>4, <2>5
<1>3. CASE A!AskById(q)
  <2>1. PICK s \in sessions, i \in A!UserIds, kind \in {"change", "role", "delete"} :
          /\ A!Begins(q, kind, "looking") /\ who' = [who EXCEPT ![q] = i]
          /\ IF kind = "change" THEN A!Chooses(q) ELSE UNCHANGED <<words, password>>
    BY <1>3 DEF A!AskById
  <2>. USE <1>3, <2>1 DEF A!AskById, A!Begins, A!To, A!Chooses
  <2>2. requestAt' \in [Requests -> A!Labels] /\ does' \in [Requests -> A!Kinds \cup {"none"}]
    BY DEF A!TypeOK, A!Labels, A!Kinds
  <2>3. A!TypeOK'
    <3>1. words' \in 0..MaxWords /\ password' \in [Requests -> 0..MaxWords]
      <4>1. CASE kind = "change"
        <5>1. words + 1 \in 0..MaxWords /\ words' = words + 1
          BY <4>1 DEF A!TypeOK
        <5>2. password' = [password EXCEPT ![q] = words + 1] BY <4>1
        <5>. QED BY <5>1, <5>2 DEF A!TypeOK
      <4>2. CASE kind # "change" BY <4>2 DEF A!TypeOK
      <4>. QED BY <4>1, <4>2
    <3>2. who' \in [Requests -> 0..MaxUsers] BY DEF A!TypeOK
    <3>. QED BY <2>2, <3>1, <3>2 DEF A!TypeOK
  <2>4. Doing' BY DEF Doing, A!TypeOK
  <2>5. Knowing' BY SMTT(30) DEF Knowing, A!TypeOK
  <2>. QED BY <2>3, <2>4, <2>5
<1>4. CASE A!FollowLink(q)
  <2>1. PICK l \in Requests, kind \in {"verify", "reset"} :
          /\ A!Begins(q, kind, "redeeming") /\ via' = [via EXCEPT ![q] = l]
          /\ IF kind = "reset" THEN A!Chooses(q) ELSE UNCHANGED <<words, password>>
    BY <1>4 DEF A!FollowLink
  <2>. USE <1>4, <2>1 DEF A!FollowLink, A!Begins, A!To, A!Chooses
  <2>2. requestAt' \in [Requests -> A!Labels] /\ does' \in [Requests -> A!Kinds \cup {"none"}]
    BY DEF A!TypeOK, A!Labels, A!Kinds
  <2>3. A!TypeOK'
    <3>1. words' \in 0..MaxWords /\ password' \in [Requests -> 0..MaxWords]
      <4>1. CASE kind = "reset"
        <5>1. words + 1 \in 0..MaxWords /\ words' = words + 1
          BY <4>1 DEF A!TypeOK
        <5>2. password' = [password EXCEPT ![q] = words + 1] BY <4>1
        <5>. QED BY <5>1, <5>2 DEF A!TypeOK
      <4>2. CASE kind # "reset" BY <4>2 DEF A!TypeOK
      <4>. QED BY <4>1, <4>2
    <3>2. via' \in [Requests -> Requests \cup {Nothing}] BY DEF A!TypeOK
    <3>. QED BY <2>2, <3>1, <3>2 DEF A!TypeOK
  <2>4. Doing' BY DEF Doing, A!TypeOK
  <2>5. Knowing' BY DEF Knowing, A!TypeOK
  <2>. QED BY <2>3, <2>4, <2>5
<1>. QED BY <1>1, <1>2, <1>3, <1>4 DEF A!Ask

\* A link stays one with a mark changed.
LEMMA LinkChanged ==
  ASSUME NEW r \in A!Links, NEW b \in BOOLEAN
  PROVE  [r EXCEPT !.spent = b] \in A!Links /\ [r EXCEPT !.due = b] \in A!Links
BY DEF A!Links

\* Steps about links.
LEMMA LinkTyped ==
  ASSUME AccountLimits, Typed, NEW q \in Requests,
         A!ReadLink(q) \/ A!UseLink(q) \/ A!SendLink(q) \/ A!Lapse(q)
  PROVE  Typed'
<1>. USE DEF Typed, A!To
<1>1. CASE A!ReadLink(q)
  <2>. USE <1>1 DEF A!ReadLink
  <2>1. A!TypeOK' BY DEF A!TypeOK, A!Labels
  <2>2. Doing' BY DEF Doing, A!TypeOK
  <2>3. Knowing' BY DEF Knowing, A!TypeOK
  <2>. QED BY <2>1, <2>2, <2>3
<1>2. CASE A!UseLink(q)
  <2>. USE <1>2 DEF A!UseLink
  <2>1. via[q] \in Requests BY DEF Doing
  <2>2. CASE A!Unspent(via[q])
    <3>1. link[via[q]] \in A!Links BY <2>1, <2>2 DEF A!TypeOK, A!Links, A!Unspent
    <3>2. requestAt' = [requestAt EXCEPT ![q] = "looking"] /\ who' = [who EXCEPT ![q] = link[via[q]].of]
      BY <2>2
    <3>3. link' \in [Requests -> A!Links \cup {A!NoLink}]
      <4>1. [link[via[q]] EXCEPT !.spent = TRUE] \in A!Links BY <3>1, LinkChanged
      <4>2. link' = [link EXCEPT ![via[q]] = [link[via[q]] EXCEPT !.spent = TRUE]] BY <2>2
      <4>. QED BY <4>1, <4>2 DEF A!TypeOK, A!Links
    <3>4. redeemed' \in [Requests -> Nat]
      <4>1. redeemed[via[q]] + 1 \in Nat BY <2>1 DEF A!TypeOK
      <4>2. redeemed' = [redeemed EXCEPT ![via[q]] = redeemed[via[q]] + 1] BY <2>2
      <4>. QED BY <4>1, <4>2 DEF A!TypeOK
    <3>5. who' \in [Requests -> 0..MaxUsers] BY <3>1, <3>2 DEF A!TypeOK, A!Links
    <3>6. A!TypeOK' BY <3>2, <3>3, <3>4, <3>5 DEF A!TypeOK, A!Labels, A!Links
    <3>7. Doing' BY <3>2 DEF Doing, A!TypeOK
    <3>8. Knowing' BY <3>2 DEF Knowing, A!TypeOK
    <3>. QED BY <3>6, <3>7, <3>8
  <2>3. CASE ~A!Unspent(via[q])
    <3>1. A!TypeOK' BY <2>3 DEF A!TypeOK, A!Labels
    <3>2. Doing' BY SMTT(30), <2>3 DEF Doing, A!TypeOK
    <3>3. Knowing' BY <2>3 DEF Knowing, A!TypeOK
    <3>. QED BY <3>1, <3>2, <3>3
  <2>. QED BY <2>2, <2>3
<1>3. CASE A!SendLink(q)
  <2>. USE <1>3 DEF A!SendLink, A!Fault
  <2>1. requestAt' = [requestAt EXCEPT ![q] = "over"] OBVIOUS
  <2>2. link' \in [Requests -> A!Links \cup {A!NoLink}]
    <3>1. who[q] \in A!People =>
            [of |-> who[q], kind |-> IF does[q] = "signUp" THEN "verify" ELSE "reset",
             spent |-> FALSE, due |-> FALSE] \in A!Links
      BY DEF A!Links, A!People
    <3>2. CASE UNCHANGED link BY <3>2 DEF A!TypeOK, A!Links
    <3>3. CASE who[q] \in A!People /\ link' = [link EXCEPT ![q] =
             [of |-> who[q], kind |-> IF does[q] = "signUp" THEN "verify" ELSE "reset",
              spent |-> FALSE, due |-> FALSE]]
      BY <3>1, <3>3 DEF A!TypeOK, A!Links
    <3>. QED BY <3>2, <3>3
  <2>3. accountFaults' \in 0..MaxLostMails BY DEF A!TypeOK
  <2>4. A!TypeOK' BY <2>1, <2>2, <2>3 DEF A!TypeOK, A!Labels, A!Links
  <2>5. Doing' BY <2>1 DEF Doing, A!TypeOK
  <2>6. Knowing' BY <2>1 DEF Knowing, A!TypeOK
  <2>. QED BY <2>4, <2>5, <2>6
<1>4. CASE A!Lapse(q)
  <2>. USE <1>4 DEF A!Lapse
  <2>1. link' \in [Requests -> A!Links \cup {A!NoLink}]
    <3>1. link[q] \in A!Links BY DEF A!TypeOK, A!Links
    <3>2. [link[q] EXCEPT !.due = TRUE] \in A!Links BY <3>1, LinkChanged
    <3>3. link' = [link EXCEPT ![q] = [link[q] EXCEPT !.due = TRUE]] OBVIOUS
    <3>. QED BY <3>2, <3>3 DEF A!TypeOK, A!Links
  <2>2. A!TypeOK' BY <2>1 DEF A!TypeOK, A!Links
  <2>3. Doing' BY DEF Doing
  <2>4. Knowing' BY DEF Knowing
  <2>. QED BY <2>2, <2>3, <2>4
<1>. QED BY <1>1, <1>2, <1>3, <1>4

\* updateUser writes a row.
LEMMA PatchedIsRow ==
  ASSUME AccountLimits, Typed, NEW q \in Requests, requestAt[q] = "writing", who[q] \in A!People
  PROVE  /\ A!Patched(q) \in A!Rows
         /\ A!Patched(q).word = IF does[q] \in {"change", "reset"} THEN password[q] ELSE old[q].word
<1>. DEFINE w == IF does[q] \in {"change", "reset"} THEN password[q] ELSE old[q].word
            role == IF does[q] = "role" THEN A!Other(old[q].role) ELSE old[q].role
<1>1. user[who[q]] \in A!Rows BY DEF A!People, Typed, A!TypeOK
<1>2. old[q] \in A!Rows BY DEF Typed, Knowing
<1>3. old[q].word \in 1..MaxWords /\ old[q].role \in {"owner", "member"} BY <1>2 DEF A!Rows
<1>4. w \in 1..MaxWords
  <2>1. does[q] \in {"change", "reset"} => password[q] # 0 BY DEF Typed, Knowing
  <2>2. password[q] \in 0..MaxWords BY DEF Typed, A!TypeOK
  <2>. QED BY <1>3, <2>1, <2>2
<1>5. role \in {"owner", "member"} BY <1>3 DEF A!Other
<1>6. A!Patched(q) = [user[who[q]] EXCEPT !.word = w, !.role = role] BY DEF A!Patched
<1>. HIDE DEF w, role
<1>7. [user[who[q]] EXCEPT !.word = w, !.role = role] \in A!Rows BY <1>1, <1>4, <1>5 DEF A!Rows
<1>8. [user[who[q]] EXCEPT !.word = w, !.role = role].word = w BY <1>1 DEF A!Rows
<1>. QED BY <1>6, <1>7, <1>8 DEF w

\* Steps that read and write accounts.
LEMMA AccountTyped ==
  ASSUME AccountLimits, Typed, NEW q \in Requests,
         A!Look(q) \/ A!Check(q) \/ A!Insert(q) \/ A!Verify(q) \/ A!ReadRow(q) \/ A!WriteRow(q)
  PROVE  Typed'
<1>. USE DEF Typed, A!To
<1>1. CASE A!Look(q)
  <2>. USE <1>1 DEF A!Look
  <2>1. CASE A!Named(q) = {}
    <3>1. A!TypeOK' BY <2>1 DEF A!TypeOK, A!Labels
    <3>2. Doing' BY <2>1 DEF Doing, A!TypeOK
    <3>3. Knowing' BY <2>1 DEF Knowing, A!TypeOK
    <3>. QED BY <3>1, <3>2, <3>3
  <2>2. CASE A!Named(q) # {}
    <3>1. PICK i \in A!Named(q) :
            /\ A!To(q, A!After(q, i))
            /\ who' = [who EXCEPT ![q] = i] /\ old' = [old EXCEPT ![q] = user[i]]
      BY <2>2
    <3>2. i \in A!UserIds /\ user[i] \in A!Rows BY DEF A!Named, A!ByEmail, A!People, A!TypeOK
    <3>3. /\ A!After(q, i) \in {"checking", "linking", "over", "verifying", "reading", "signingOut"}
          /\ A!After(q, i) = "checking" => does[q] \in {"setup", "signIn", "change"}
          /\ A!After(q, i) = "verifying" => does[q] = "verify"
          /\ A!After(q, i) = "reading" => does[q] \in {"reset", "role"}
          /\ A!After(q, i) = "signingOut" => does[q] = "delete"
      BY DEF A!After, Doing, A!TypeOK, A!Kinds
    <3>4. A!TypeOK' BY SMTT(30), <3>1, <3>2, <3>3 DEF A!TypeOK, A!Labels
    <3>5. Doing' BY <3>1, <3>3 DEF Doing, A!TypeOK
    <3>6. Knowing' BY <3>1, <3>2, <3>3 DEF Knowing, A!TypeOK
    <3>. QED BY <3>4, <3>5, <3>6
  <2>. QED BY <2>1, <2>2
<1>2. CASE A!Check(q)
  <2>. USE <1>2 DEF A!Check
  <2>1. old[q] \in A!Rows /\ old[q].word \in 1..MaxWords BY DEF Knowing, A!Rows
  <2>2. A!TypeOK'
    <3>1. requestAt' \in [Requests -> A!Labels] /\ password' \in [Requests -> 0..MaxWords]
      <4>1. CASE requestAt' = [requestAt EXCEPT ![q] = "over"] /\ UNCHANGED password
        BY <4>1 DEF A!TypeOK, A!Labels
      <4>2. ASSUME NEW w \in 0..MaxWords,
                   requestAt' = [requestAt EXCEPT ![q] = "reading"], password' = [password EXCEPT ![q] = w]
            PROVE  <3>1!:
        BY <4>2 DEF A!TypeOK, A!Labels
      <4>3. (IF does[q] = "change" THEN password[q] ELSE old[q].word) \in 0..MaxWords
        BY <2>1 DEF A!TypeOK
      <4>. QED BY <4>1, <4>2, <4>3
    <3>. QED BY <3>1 DEF A!TypeOK
  <2>3. Doing' BY DEF Doing, A!TypeOK
  <2>4. Knowing' BY <2>1 DEF Knowing, A!TypeOK, A!Rows
  <2>. QED BY <2>2, <2>3, <2>4
<1>3. CASE A!Insert(q)
  <2>. USE <1>3 DEF A!Insert
  <2>1. CASE A!ByEmail(email[q]) # {}
    <3>1. A!TypeOK' BY <2>1 DEF A!TypeOK, A!Labels
    <3>2. Doing' BY <2>1 DEF Doing, A!TypeOK
    <3>3. Knowing' BY <2>1 DEF Knowing, A!TypeOK
    <3>. QED BY <3>1, <3>2, <3>3
  <2>2. CASE A!ByEmail(email[q]) = {}
    <3>. DEFINE row == [email |-> email[q], word |-> password[q], verified |-> does[q] # "signUp",
                        role |-> IF does[q] = "add" THEN "member" ELSE "owner"]
    <3>1. PICK i \in A!UserIds : user' = [user EXCEPT ![i] = row] /\ who' = [who EXCEPT ![q] = i]
      BY <2>2
    <3>2. PICK label \in {"looking", "linking", "over"} :
            /\ requestAt' = [requestAt EXCEPT ![q] = label]
            /\ label = "looking" => does[q] = "setup"
      BY <2>2
    <3>3. row \in A!Rows
      <4>1. email[q] \in Emails /\ password[q] \in 1..MaxWords BY SMTT(30) DEF Doing, Knowing, A!TypeOK
      <4>. QED BY <4>1 DEF A!Rows
    <3>. HIDE DEF row
    <3>4. user' \in [A!UserIds -> A!Rows \cup {Nothing}] BY <3>1, <3>3 DEF A!TypeOK
    <3>5. who' \in [Requests -> 0..MaxUsers] BY <3>1 DEF A!TypeOK
    <3>6. requestAt' \in [Requests -> A!Labels] BY <3>2 DEF A!TypeOK, A!Labels
    <3>7. A!TypeOK' BY <3>4, <3>5, <3>6 DEF A!TypeOK
    <3>8. Doing' BY SMTT(30), <3>2 DEF Doing, A!TypeOK
    <3>9. Knowing' BY SMTT(30), <3>2 DEF Knowing, A!TypeOK, Doing
    <3>. QED BY <3>7, <3>8, <3>9
  <2>. QED BY <2>1, <2>2
<1>4. CASE A!Verify(q)
  <2>. USE <1>4 DEF A!Verify
  <2>1. old[q] \in A!Rows /\ old[q].word \in 1..MaxWords BY DEF Knowing, A!Rows
  <2>2. user' \in [A!UserIds -> A!Rows \cup {Nothing}]
    <3>1. CASE who[q] \in A!People
      <4>1. user[who[q]] \in A!Rows /\ who[q] \in A!UserIds BY <3>1 DEF A!People, A!TypeOK
      <4>2. user' = [user EXCEPT ![who[q]] = [user[who[q]] EXCEPT !.verified = TRUE]] BY <3>1
      <4>3. [user[who[q]] EXCEPT !.verified = TRUE] \in A!Rows BY <4>1 DEF A!Rows
      <4>. QED BY <4>2, <4>3 DEF A!TypeOK
    <3>. QED BY <3>1 DEF A!TypeOK
  <2>3. A!TypeOK'
    <3>1. password' \in [Requests -> 0..MaxWords] BY <2>1 DEF A!TypeOK
    <3>. QED BY <2>2, <3>1 DEF A!TypeOK, A!Labels
  <2>4. Doing' BY DEF Doing, A!TypeOK
  <2>5. Knowing' BY SMTT(30), <2>1 DEF Knowing, A!TypeOK
  <2>. QED BY <2>3, <2>4, <2>5
<1>5. CASE A!ReadRow(q)
  <2>. USE <1>5 DEF A!ReadRow
  <2>1. A!Written(q) \in A!Labels BY DEF A!Written, A!Labels
  <2>2. A!TypeOK'
    <3>1. PICK label \in {"writing", A!Written(q)} : requestAt' = [requestAt EXCEPT ![q] = label] OBVIOUS
    <3>2. old' \in [Requests -> A!Rows \cup {Nothing}] BY DEF A!TypeOK, A!People
    <3>. QED BY <2>1, <3>1, <3>2 DEF A!TypeOK, A!Labels
  <2>3. Doing' BY DEF Doing, A!TypeOK, A!Written
  <2>4. Knowing' BY DEF Knowing, A!TypeOK, A!Written, A!People, Doing
  <2>. QED BY <2>2, <2>3, <2>4
<1>6. CASE A!WriteRow(q)
  <2>. USE <1>6 DEF A!WriteRow
  <2>1. A!Written(q) \in A!Labels BY DEF A!Written, A!Labels
  <2>2. who[q] \in A!People => A!Patched(q) \in A!Rows BY PatchedIsRow DEF Typed
  <2>3. A!TypeOK' BY <2>1, <2>2 DEF A!TypeOK, A!People
  <2>4. Doing' BY DEF Doing, A!TypeOK, A!Written
  <2>5. Knowing' BY DEF Knowing, A!TypeOK, A!Written, Doing
  <2>. QED BY <2>3, <2>4, <2>5
<1>. QED BY <1>1, <1>2, <1>3, <1>4, <1>5, <1>6

\* Steps about sessions, and a death.
LEMMA SessionTyped ==
  ASSUME AccountLimits, Typed, NEW q \in Requests,
         A!SignOutAll(q) \/ A!Open(q) \/ A!Remove(q) \/ A!Dies(q)
  PROVE  Typed'
<1>. USE DEF Typed, A!To
<1>1. CASE A!SignOutAll(q)
  <2>. USE <1>1 DEF A!SignOutAll
  <2>1. A!TypeOK'
    <3>1. requestAt' \in [Requests -> A!Labels] BY DEF A!TypeOK, A!Labels
    <3>2. late' \subseteq Requests BY DEF A!TypeOK, A!Looked
    <3>. QED BY <3>1, <3>2 DEF A!TypeOK
  <2>2. Doing' BY DEF Doing, A!TypeOK
  <2>3. Knowing' BY DEF Knowing, A!TypeOK
  <2>. QED BY <2>1, <2>2, <2>3
<1>2. CASE A!Open(q)
  <2>. USE <1>2 DEF A!Open
  <2>1. password[q] \in 1..MaxWords BY DEF Knowing, A!TypeOK
  <2>2. A!TypeOK'
    <3>1. who[q] \in A!People =>
            [of |-> who[q], word |-> password[q], by |-> q]
              \in [of : A!UserIds, word : 1..MaxWords, by : Requests \cup {Nothing}]
      BY <2>1 DEF A!People
    <3>2. sessions' \subseteq [of : A!UserIds, word : 1..MaxWords, by : Requests \cup {Nothing}]
      BY <3>1 DEF A!TypeOK
    <3>3. requestAt' \in [Requests -> A!Labels] BY DEF A!TypeOK, A!Labels
    <3>. QED BY <3>2, <3>3 DEF A!TypeOK
  <2>3. Doing' BY DEF Doing, A!TypeOK
  <2>4. Knowing' BY DEF Knowing, A!TypeOK
  <2>. QED BY <2>2, <2>3, <2>4
<1>3. CASE A!Remove(q)
  <2>. USE <1>3 DEF A!Remove
  <2>1. A!TypeOK' BY DEF A!TypeOK, A!Labels, A!NoLink
  <2>2. Doing' BY DEF Doing, A!TypeOK
  <2>3. Knowing' BY DEF Knowing, A!TypeOK
  <2>. QED BY <2>1, <2>2, <2>3
<1>4. CASE A!Dies(q)
  <2>. USE <1>4 DEF A!Dies, A!Fault
  <2>1. A!TypeOK'
    <3>1. requestAt' \in [Requests -> A!Labels] BY DEF A!TypeOK, A!Labels
    <3>2. excused' \subseteq A!UserIds BY DEF A!TypeOK, Knowing
    <3>. QED BY SMTT(30), <3>1, <3>2 DEF A!TypeOK
  <2>2. Doing' BY DEF Doing, A!TypeOK
  <2>3. Knowing' BY DEF Knowing, A!TypeOK
  <2>. QED BY <2>1, <2>2, <2>3
<1>. QED BY <1>1, <1>2, <1>3, <1>4

\* Every step keeps the types.
LEMMA StepTyped == ASSUME AccountLimits, Typed, [A!Next]_A!vars PROVE Typed'
<1>1. CASE UNCHANGED A!vars BY <1>1 DEF A!vars, Typed, A!TypeOK, Doing, Knowing
<1>2. ASSUME NEW q \in Requests, A!Ask(q) \/ A!Step(q) \/ A!Lapse(q) PROVE Typed'
  BY <1>2, AskTyped, LinkTyped, AccountTyped, SessionTyped DEF A!Step
<1>3. ASSUME NEW s \in sessions, A!Leave(s) PROVE Typed'
  BY <1>3 DEF A!Leave, Typed, A!TypeOK, Doing, Knowing
<1>. QED BY <1>1, <1>2, <1>3 DEF A!Next

\* Every variable keeps its type, and a request has read what it acts on (auth.ts, api.ts).
THEOREM AccountsTyped == A!Spec => []Typed
BY AccountsAssumption, InitTyped, StepTyped, PTL DEF A!Spec

----------------------------------------------------------------------------
(* Links *)

\* A step is of a request that is not over, and of no other.
LEMMA StepIsOwn ==
  ASSUME A!TypeOK, NEW q \in Requests, A!Ask(q) \/ A!Step(q)
  PROVE  requestAt[q] # "over" /\ \A r \in Requests \ {q} : requestAt'[r] = requestAt[r]
<1>. USE DEF A!TypeOK, A!To
<1>1. CASE A!Ask(q)
  BY <1>1 DEF A!Ask, A!AskForAccount, A!AskByEmail, A!AskById, A!FollowLink, A!Begins
<1>2. CASE A!ReadLink(q) \/ A!UseLink(q) \/ A!SendLink(q) BY <1>2 DEF A!ReadLink, A!UseLink, A!SendLink
<1>3. CASE A!Look(q) \/ A!Check(q) \/ A!Insert(q) BY <1>3 DEF A!Look, A!Check, A!Insert
<1>4. CASE A!Verify(q) \/ A!ReadRow(q) \/ A!WriteRow(q) BY <1>4 DEF A!Verify, A!ReadRow, A!WriteRow
<1>5. CASE A!SignOutAll(q) \/ A!Open(q) \/ A!Remove(q) \/ A!Dies(q)
  BY <1>5 DEF A!SignOutAll, A!Open, A!Remove, A!Dies
<1>. QED BY <1>1, <1>2, <1>3, <1>4, <1>5 DEF A!Step

\* A request that is under way has no link of its own yet; one that is over makes none.
LEMMA StepKeepsLinks ==
  ASSUME AccountLimits, Typed, LinksAreMadeOnce, [A!Next]_A!vars PROVE LinksAreMadeOnce'
<1>. USE DEF Typed, LinksAreMadeOnce, A!Unspent, A!To
<1>1. ASSUME NEW q \in Requests, A!Ask(q) \/ A!Step(q),
             UNCHANGED <<link, redeemed>> \/ A!UseLink(q) \/ A!SendLink(q) \/ A!Remove(q)
      PROVE  LinksAreMadeOnce'
  <2>1. requestAt[q] # "over" /\ \A r \in Requests \ {q} : requestAt'[r] = requestAt[r] BY <1>1, StepIsOwn
  <2>2. CASE UNCHANGED <<link, redeemed>> BY <2>1, <2>2
  <2>3. CASE A!UseLink(q) /\ A!Unspent(via[q])
    <3>. DEFINE l == via[q]
    <3>1. l \in Requests /\ link[l] # A!NoLink /\ ~link[l].spent BY <2>3 DEF A!UseLink, Doing
    <3>2. link[l] \in A!Links BY <3>1 DEF A!TypeOK, A!Links
    <3>3. redeemed[l] = 0 /\ requestAt[l] = "over" /\ l # q BY <2>1, <3>1
    <3>4. redeemed' = [redeemed EXCEPT ![l] = 1] BY <2>3, <3>1, <3>3 DEF A!UseLink, A!TypeOK
    <3>5. link' = [link EXCEPT ![l] = [link[l] EXCEPT !.spent = TRUE]] BY <2>3 DEF A!UseLink
    <3>6. [link[l] EXCEPT !.spent = TRUE].spent BY <3>2 DEF A!Links
    <3>7. \A r \in Requests \ {l} : redeemed'[r] = redeemed[r] BY <3>4 DEF A!TypeOK
    <3>8. redeemed'[l] = 1 BY <3>1, <3>4 DEF A!TypeOK
    <3>9. \A r \in Requests \ {l} : link'[r] = link[r] BY <3>5 DEF A!TypeOK
    <3>10. link'[l].spent BY <3>1, <3>5, <3>6 DEF A!TypeOK
    <3>. HIDE DEF l
    <3>. QED BY <2>1, <3>1, <3>3, <3>7, <3>8, <3>9, <3>10
  <2>4. CASE A!SendLink(q)
    <3>1. requestAt' = [requestAt EXCEPT ![q] = "over"] /\ redeemed' = redeemed BY <2>4 DEF A!SendLink
    <3>3. requestAt'[q] = "over" BY <3>1 DEF A!TypeOK
    <3>2. \A r \in Requests \ {q} : link'[r] = link[r] BY <2>4 DEF A!SendLink, A!TypeOK
    <3>. QED BY <2>1, <3>1, <3>2, <3>3
  <2>5. CASE A!Remove(q)
    <3>1. redeemed' = redeemed /\ \A r \in Requests : link'[r] \in {link[r], A!NoLink}
      BY <2>5 DEF A!Remove, A!TypeOK
    <3>. QED BY <2>1, <3>1
  <2>. QED BY <1>1, <2>2, <2>3, <2>4, <2>5 DEF A!UseLink
<1>2. ASSUME NEW q \in Requests, A!Lapse(q) PROVE LinksAreMadeOnce'
  <2>. USE <1>2 DEF A!Lapse
  <2>1. link[q] \in A!Links /\ redeemed' = redeemed /\ requestAt' = requestAt BY DEF A!TypeOK
  <2>2. [link[q] EXCEPT !.due = TRUE].spent = link[q].spent BY <2>1 DEF A!Links
  <2>3. link' = [link EXCEPT ![q] = [link[q] EXCEPT !.due = TRUE]] OBVIOUS
  <2>4. \A r \in Requests \ {q} : link'[r] = link[r] BY <2>3 DEF A!TypeOK
  <2>5. link'[q].spent = link[q].spent BY <2>2, <2>3 DEF A!TypeOK
  <2>. QED BY <2>1, <2>4, <2>5
<1>3. ASSUME NEW q \in Requests, A!Step(q), ~A!UseLink(q), ~A!SendLink(q), ~A!Remove(q)
      PROVE  UNCHANGED <<link, redeemed>>
  BY <1>3
     DEF A!Step, A!ReadLink, A!Look, A!Check, A!Insert, A!Verify, A!ReadRow, A!WriteRow,
         A!SignOutAll, A!Open, A!Dies
<1>4. ASSUME NEW q \in Requests, A!Ask(q) PROVE UNCHANGED <<link, redeemed>>
  BY <1>4 DEF A!Ask, A!AskForAccount, A!AskByEmail, A!AskById, A!FollowLink
<1>5. ASSUME NEW s \in sessions, A!Leave(s) PROVE LinksAreMadeOnce' BY <1>5 DEF A!Leave
<1>6. CASE UNCHANGED A!vars BY <1>6 DEF A!vars
<1>. QED BY <1>1, <1>2, <1>3, <1>4, <1>5, <1>6 DEF A!Next

\* A link of a mail works once, though it is followed twice at once: the UPDATE of
\* consumeUserToken asks for an unspent one (data/src/index.ts:1416).
THEOREM LinksWorkOnce == A!Spec => []LinkWorksOnce
<1>. USE AccountsAssumption
<1>1. A!Init => LinksAreMadeOnce BY DEF A!Init, LinksAreMadeOnce
<1>2. LinksAreMadeOnce => LinkWorksOnce
  <2>. SUFFICES ASSUME LinksAreMadeOnce, NEW l \in Requests PROVE redeemed[l] <= 1
    BY DEF LinkWorksOnce, A!LinkWorksOnce
  <2>. QED BY DEF LinksAreMadeOnce
<1>. QED BY <1>1, <1>2, AccountsTyped, StepKeepsLinks, PTL DEF A!Spec

----------------------------------------------------------------------------
(* Sessions *)

\* Nobody has looked an account up yet; who is signed in knows the first password.
LEMMA InitSessions == ASSUME AccountLimits, A!Init PROVE SessionInv
<1>1. Typed BY InitTyped
<1>2. KnowsTheWord BY DEF A!Init, KnowsTheWord, Opens
<1>3. SessionsHaveAccounts /\ A!SignedOutByAChange
  <2>1. CASE sessions = {} BY <2>1 DEF SessionsHaveAccounts, A!SignedOutByAChange
  <2>2. ASSUME NEW e \in Emails,
               user = [i \in A!UserIds |-> IF i = 1
                         THEN [email |-> e, word |-> 1, role |-> "owner", verified |-> TRUE]
                         ELSE Nothing],
               sessions = {[of |-> 1, word |-> 1, by |-> Nothing]}
        PROVE  SessionsHaveAccounts /\ A!SignedOutByAChange
    <3>1. [email |-> e, word |-> 1, role |-> "owner", verified |-> TRUE] \in A!Rows BY DEF A!Rows
    <3>2. 1 \in A!UserIds OBVIOUS
    <3>3. user[1] = [email |-> e, word |-> 1, role |-> "owner", verified |-> TRUE]
      BY <2>2, <3>2
    <3>4. user[1].word = 1 BY <3>3
    <3>5. user[1] # Nothing BY <3>1, <3>3
    <3>. QED BY <2>2, <3>2, <3>4, <3>5 DEF SessionsHaveAccounts, A!SignedOutByAChange, A!People
  <2>. QED BY <2>1, <2>2 DEF A!Init
<1>. QED BY <1>1, <1>2, <1>3 DEF SessionInv

\* What is asked of a request that will open a session, and of a session.
Right(q) ==
  \/ q \in late \/ who[q] \in excused
  \/ SigningOut(who[q]) \ {q} # {}
  \/ Word(q) = user[who[q]].word
Good(s) ==
  \/ s.by \in late \/ s.of \in excused
  \/ SigningOut(s.of) # {}
  \/ s.word = user[s.of].word

\* A step keeps the account's password, or excuses the account.
KeepsWord(i) == user'[i].word = user[i].word \/ i \in excused'
\* It keeps what a request knows.
Stays(r) == who'[r] = who[r] /\ Word(r)' = Word(r) /\ (Opens(r)' => Opens(r))

USE DEF SigningOut

\* The invariant and the property say so of everyone.
LEMMA InTheseWords ==
  /\ KnowsTheWord <=> \A q \in Requests : Opens(q) /\ who[q] \in A!People => Right(q)
  /\ A!SignedOutByAChange <=> \A s \in sessions : Good(s)
BY DEF KnowsTheWord, A!SignedOutByAChange, Right, Good

\* A step of q that signs nobody out: whoever knew the password still does, or it has just been
\* changed and q will sign the account out.
LEMMA StillRight ==
  ASSUME Typed, KnowsTheWord, SessionsHaveAccounts, A!SignedOutByAChange, NEW q \in Requests,
         \A r \in Requests \ {q} : requestAt'[r] = requestAt[r] /\ who'[r] = who[r],
         late \subseteq late', excused \subseteq excused',
         requestAt[q] = "signingOut" => who[q] \in excused',
         \A i \in A!People \cap A!People' : KeepsWord(i) \/ (requestAt'[q] = "signingOut" /\ who'[q] = i),
         \A i \in A!People' \ A!People : \A r \in Requests \ {q} : who[r] # i
  PROVE  /\ \A r \in Requests :
              /\ Stays(r) /\ Opens(r)' /\ (who[r] \in A!People)'
              /\ r = q => who[q] \in A!People /\ KeepsWord(who[q])
              => Right(r)'
         /\ \A s \in sessions : (s.of \in A!People)' => Good(s)'
<1>1. ASSUME NEW i, NEW r \in SigningOut(i) PROVE i \in excused' \/ r \in SigningOut(i)'
  BY <1>1
<1>2. ASSUME NEW r \in Requests, Stays(r), Opens(r)', (who[r] \in A!People)',
             r = q => who[q] \in A!People /\ KeepsWord(who[q])
      PROVE  Right(r)'
  <2>1. who[r] \in A!People /\ who'[r] = who[r] /\ Right(r)
    BY <1>2, InTheseWords DEF Stays
  <2>2. ASSUME NEW w \in SigningOut(who[r]) \ {r} PROVE Right(r)'
    BY <1>1, <2>1, <2>2 DEF Right
  <2>3. ASSUME Word(r) = user[who[r]].word PROVE Right(r)'
    <3>1. KeepsWord(who[r]) \/ (r # q /\ requestAt'[q] = "signingOut" /\ who'[q] = who[r])
      BY <1>2, <2>1
    <3>2. CASE r # q /\ requestAt'[q] = "signingOut" /\ who'[q] = who[r]
      <4>1. q \in SigningOut(who[r])' \ {r} BY <3>2
      <4>. QED BY <2>1, <4>1 DEF Right
    <3>3. CASE KeepsWord(who[r])
      <4>1. Word(r)' = Word(r) BY <1>2 DEF Stays
      <4>. QED BY <2>1, <2>3, <3>3, <4>1 DEF Right, KeepsWord
    <3>. QED BY <3>1, <3>2, <3>3
  <2>. QED BY <2>1, <2>2, <2>3 DEF Right
<1>3. ASSUME NEW s \in sessions, (s.of \in A!People)' PROVE Good(s)'
  <2>1. s.of \in A!People /\ s.of \in A!People' /\ Good(s)
    BY <1>3, InTheseWords DEF SessionsHaveAccounts
  <2>2. ASSUME NEW w \in SigningOut(s.of) PROVE Good(s)' BY <1>1, <2>2 DEF Good
  <2>3. ASSUME s.word = user[s.of].word PROVE Good(s)'
    <3>1. KeepsWord(s.of) \/ q \in SigningOut(s.of)' BY <2>1
    <3>. QED BY <2>1, <2>3, <3>1 DEF Good, KeepsWord
  <2>. QED BY <2>1, <2>2, <2>3 DEF Good
<1>. QED BY <1>2, <1>3

\* Whoever signs an account out makes late whoever has looked it up.
LEMMA SignOutInv ==
  ASSUME SessionInv, NEW q \in Requests, A!SignOutAll(q)
  PROVE  KnowsTheWord' /\ SessionsHaveAccounts' /\ A!SignedOutByAChange'
<1>. USE DEF SessionInv, A!SignOutAll, A!To
<1>1. /\ \A r \in Requests \ {q} : requestAt'[r] = requestAt[r]
      /\ requestAt'[q] \in {"opening", "removing", "over"}
      /\ (requestAt'[q] = "opening" => does[q] = "change")
  BY DEF Typed, A!TypeOK
<1>2. UNCHANGED <<user, does, password, who, old, excused>> /\ late \subseteq late' OBVIOUS
<1>3. \A r \in Requests : ~Opens(r) \/ r = q \/ who[r] # who[q] \/ r \in late'
  BY DEF Opens, A!Looked
<1>4. \A i \in A!UserIds \ {who[q]} : SigningOut(i) = SigningOut(i)' BY <1>1, <1>2
<1>5. KnowsTheWord'
  <2>. SUFFICES ASSUME NEW r \in Requests, Opens(r)', who[r] \in A!People
                PROVE  Right(r)'
    BY <1>2, InTheseWords DEF A!People, KnowsTheWord, Right
  <2>1. CASE r = q
    <3>1. Opens(q) /\ Word(q)' = Word(q) BY <1>1, <1>2, <2>1 DEF Opens, Word
    <3>2. SigningOut(who[q]) \ {q} = SigningOut(who[q])' \ {q} BY <1>1, <1>2
    <3>. QED BY <1>2, <2>1, <3>1, <3>2, InTheseWords DEF Right
  <2>2. CASE r # q
    <3>1. Opens(r) /\ Word(r)' = Word(r) BY <1>1, <1>2, <2>2 DEF Opens, Word
    <3>2. CASE who[r] = who[q] BY <1>3, <2>2, <3>1, <3>2 DEF Right
    <3>3. CASE who[r] # who[q]
      <4>1. SigningOut(who[r]) = SigningOut(who[r])' BY <1>4, <3>3 DEF A!People
      <4>. QED BY <1>2, <3>1, <4>1, InTheseWords DEF Right
    <3>. QED BY <3>2, <3>3
  <2>. QED BY <2>1, <2>2
<1>6. SessionsHaveAccounts' BY DEF SessionsHaveAccounts, A!People
<1>7. A!SignedOutByAChange'
  <2>. SUFFICES ASSUME NEW s \in sessions, s.of # who[q] PROVE Good(s)'
    BY DEF A!SignedOutByAChange, Good
  <2>1. SigningOut(s.of) = SigningOut(s.of)' BY <1>4 DEF SessionsHaveAccounts, A!People
  <2>. QED BY <1>2, <2>1, InTheseWords DEF Good
<1>. QED BY <1>5, <1>6, <1>7

\* Steps that read, or are about links, keep the rows and the sessions; so does a death.
LEMMA ReadingInv ==
  ASSUME SessionInv, Typed', NEW q \in Requests,
         \/ A!Ask(q) \/ A!ReadLink(q) \/ A!UseLink(q) \/ A!SendLink(q) \/ A!Look(q) \/ A!Check(q)
         \/ A!ReadRow(q) \/ A!Dies(q)
  PROVE  KnowsTheWord' /\ SessionsHaveAccounts' /\ A!SignedOutByAChange'
<1>. USE DEF SessionInv, A!To
<1>1. UNCHANGED <<user, sessions, late>>
  BY DEF A!Ask, A!AskForAccount, A!AskByEmail, A!AskById, A!FollowLink, A!ReadLink, A!UseLink, A!SendLink, A!Look,
         A!Check, A!ReadRow, A!Dies
<1>2. \A r \in Requests \ {q} :
        /\ requestAt'[r] = requestAt[r] /\ does'[r] = does[r] /\ who'[r] = who[r]
        /\ password'[r] = password[r] /\ old'[r] = old[r]
  <2>. USE DEF Typed, A!TypeOK
  <2>1. CASE A!Ask(q)
    <3>1. \A r \in Requests \ {q} : password'[r] = password[r]
      <4>1. CASE A!Chooses(q) BY <4>1 DEF A!Chooses
      <4>2. CASE UNCHANGED password BY <4>2
      <4>. QED BY <2>1, <4>1, <4>2 DEF A!Ask, A!AskForAccount, A!AskByEmail, A!AskById, A!FollowLink
    <3>2. \A r \in Requests \ {q} : requestAt'[r] = requestAt[r] /\ does'[r] = does[r]
      BY SMTT(30), <2>1 DEF A!Ask, A!AskForAccount, A!AskByEmail, A!AskById, A!FollowLink, A!Begins
    <3>3. \A r \in Requests \ {q} : who'[r] = who[r] /\ old'[r] = old[r]
      BY <2>1 DEF A!Ask, A!AskForAccount, A!AskByEmail, A!AskById, A!FollowLink
    <3>. QED BY <3>1, <3>2, <3>3
  <2>2. CASE A!ReadLink(q) \/ A!UseLink(q) \/ A!SendLink(q) BY SMTT(30), <2>2 DEF A!ReadLink, A!UseLink, A!SendLink
  <2>3. CASE A!Look(q) \/ A!Check(q) BY <2>3 DEF A!Look, A!Check
  <2>4. CASE A!ReadRow(q) \/ A!Dies(q) BY <2>4 DEF A!ReadRow, A!Dies
  <2>. QED BY <2>1, <2>2, <2>3, <2>4
<1>3. excused \subseteq excused' /\ (requestAt[q] = "signingOut" => who[q] \in excused')
  BY DEF A!Ask, A!AskForAccount, A!AskByEmail, A!AskById, A!FollowLink, A!Begins, A!ReadLink, A!UseLink, A!SendLink,
         A!Look, A!Check, A!ReadRow, A!Dies
<1>4. Opens(q)' /\ (who[q] \in A!People)' => Stays(q) \/ Right(q)'
  <2>. USE DEF Typed
  <2>1. CASE A!Ask(q) \/ A!ReadLink(q) \/ A!UseLink(q) \/ A!SendLink(q) \/ A!Dies(q)
    <3>1. requestAt'[q] \notin {"checking", "verifying", "opening", "reading", "writing", "signingOut"}
      <4>1. CASE A!Ask(q)
        BY SMTT(30), <4>1 DEF A!TypeOK, A!Ask, A!AskForAccount, A!AskByEmail, A!AskById, A!FollowLink, A!Begins
      <4>2. CASE ~A!Ask(q) BY <2>1, <4>2 DEF A!TypeOK, A!ReadLink, A!UseLink, A!SendLink, A!Dies
      <4>. QED BY <4>1, <4>2
    <3>. QED BY <3>1 DEF Opens
  <2>2. CASE A!Look(q)
    <3>. USE <2>2 DEF A!Look
    <3>1. CASE A!Named(q) = {} BY <3>1 DEF Opens, A!TypeOK
    <3>2. CASE A!Named(q) # {}
      <4>1. PICK i \in A!Named(q) :
              requestAt' = [requestAt EXCEPT ![q] = A!After(q, i)] /\ who' = [who EXCEPT ![q] = i]
                /\ old' = [old EXCEPT ![q] = user[i]]
        BY <3>2
      <4>2. who'[q] = i /\ old'[q] = user[i] /\ requestAt'[q] = A!After(q, i) /\ does'[q] = does[q]
        BY <4>1 DEF A!TypeOK
      <4>3. A!After(q, i) \in {"checking", "verifying"} \/ ~Opens(q)'
        BY <4>2 DEF A!After, Opens, Doing, A!TypeOK, A!Kinds
      <4>. QED BY <1>1, <4>2, <4>3 DEF Right, Word
    <3>. QED BY <3>1, <3>2
  <2>3. CASE A!Check(q)
    <3>. USE <2>3 DEF A!Check
    <3>1. requestAt'[q] \in {"over", "reading"} /\ does'[q] = does[q] /\ who'[q] = who[q]
      BY DEF A!TypeOK
    <3>2. requestAt'[q] = "reading" /\ does[q] # "change" => password'[q] = old[q].word BY DEF A!TypeOK
    <3>. QED BY <3>1, <3>2 DEF Stays, Opens, Word
  <2>4. CASE A!ReadRow(q)
    <3>. USE <2>4 DEF A!ReadRow
    <3>1. does'[q] = does[q] /\ who'[q] = who[q] /\ password'[q] = password[q] /\ requestAt[q] = "reading"
      OBVIOUS
    <3>2. (who[q] \in A!People)' => requestAt'[q] = "writing" BY <1>1, <3>1 DEF A!TypeOK, A!People
    <3>. QED BY <3>1, <3>2 DEF Stays, Opens, Word
  <2>. QED BY <2>1, <2>2, <2>3, <2>4
<1>5. \A r \in Requests \ {q} : Stays(r) BY <1>2 DEF Stays, Word, Opens
<1>6. \A i \in A!People : KeepsWord(i) BY <1>1 DEF KeepsWord
<1>7. A!People' = A!People BY <1>1 DEF A!People
<1>8. /\ \A r \in Requests :
           /\ Stays(r) /\ Opens(r)' /\ (who[r] \in A!People)'
           /\ r = q => who[q] \in A!People /\ KeepsWord(who[q])
           => Right(r)'
      /\ \A s \in sessions : (s.of \in A!People)' => Good(s)'
  BY <1>1, <1>2, <1>3, <1>6, <1>7, StillRight
<1>9. \A r \in Requests : Opens(r)' /\ (who[r] \in A!People)' => Right(r)'
  BY <1>4, <1>5, <1>6, <1>7, <1>8 DEF Stays
<1>10. SessionsHaveAccounts' BY <1>1, <1>7 DEF SessionsHaveAccounts
<1>11. \A s \in sessions' : Good(s)' BY <1>1, <1>8, <1>10 DEF SessionsHaveAccounts
<1>. QED BY <1>9, <1>10, <1>11 DEF KnowsTheWord, Right, A!SignedOutByAChange, Good

\* Steps that write a row: a new account is nobody's yet, and a new password signs out.
LEMMA WritingInv ==
  ASSUME SessionInv, Typed', AccountLimits, NEW q \in Requests,
         A!Insert(q) \/ A!Verify(q) \/ A!WriteRow(q)
  PROVE  KnowsTheWord' /\ SessionsHaveAccounts' /\ A!SignedOutByAChange'
<1>. USE DEF SessionInv, A!To
<1>1. /\ UNCHANGED <<sessions, late, does>> /\ excused \subseteq excused'
      /\ requestAt[q] \in {"hashing", "verifying", "writing"}
  BY DEF A!Insert, A!Verify, A!WriteRow
<1>2. \A r \in Requests \ {q} :
        requestAt'[r] = requestAt[r] /\ who'[r] = who[r] /\ password'[r] = password[r] /\ old'[r] = old[r]
  BY ZenonT(60) DEF A!Insert, A!Verify, A!WriteRow, Typed, A!TypeOK
<1>3. \A r \in Requests \ {q} : Stays(r) BY <1>1, <1>2 DEF Stays, Word, Opens
<1>4. /\ A!People \subseteq A!People'
      /\ \A i \in A!People' \ A!People : \A r \in Requests \ {q} : who[r] # i
  <2>. USE DEF Typed, A!TypeOK, A!People
  <2>1. CASE A!Insert(q)
    <3>. USE <2>1 DEF A!Insert
    <3>1. CASE A!ByEmail(email[q]) # {} BY <3>1
    <3>2. CASE A!ByEmail(email[q]) = {}
      <4>1. PICK i \in A!UserIds :
              /\ \A j \in A!UserIds : j < i <=> (user[j] # Nothing \/ \E r \in Requests : who[r] = j)
              /\ \E row : user' = [user EXCEPT ![i] = row]
        BY <3>2
      <4>2. user[i] = Nothing /\ \A r \in Requests : who[r] # i BY <4>1
      <4>3. \A j \in A!UserIds \ {i} : user'[j] = user[j] BY <4>1
      <4>. QED BY <4>2, <4>3
    <3>. QED BY <3>1, <3>2
  <2>2. CASE A!Verify(q)
    <3>. USE <2>2 DEF A!Verify
    <3>1. CASE who[q] \in A!People
      <4>1. user[who[q]] \in A!Rows BY <3>1
      <4>2. user' = [user EXCEPT ![who[q]] = [user[who[q]] EXCEPT !.verified = TRUE]] BY <3>1
      <4>3. [user[who[q]] EXCEPT !.verified = TRUE] \in A!Rows BY <4>1 DEF A!Rows
      <4>4. user'[who[q]] # Nothing BY <3>1, <4>2, <4>3
      <4>5. \A i \in A!UserIds \ {who[q]} : user'[i] = user[i] BY <4>2
      <4>. QED BY <4>4, <4>5
    <3>. QED BY <3>1
  <2>3. CASE A!WriteRow(q)
    <3>. USE <2>3 DEF A!WriteRow
    <3>1. CASE who[q] \in A!People
      <4>1. user' = [user EXCEPT ![who[q]] = A!Patched(q)] BY <3>1
      <4>2. user'[who[q]] # Nothing BY SMTT(30), <3>1, <4>1, PatchedIsRow DEF Typed
      <4>3. \A i \in A!UserIds \ {who[q]} : user'[i] = user[i] BY <4>1
      <4>. QED BY <4>2, <4>3
    <3>. QED BY <3>1
  <2>. QED BY <2>1, <2>2, <2>3
<1>5. \A i \in A!People :
        KeepsWord(i) \/ (requestAt'[q] = "signingOut" /\ who'[q] = i /\ A!WriteRow(q))
  <2>. USE DEF Typed, A!TypeOK, A!People
  <2>1. CASE A!Insert(q)
    <3>. USE <2>1 DEF A!Insert
    <3>1. CASE A!ByEmail(email[q]) # {} BY <3>1 DEF KeepsWord
    <3>2. CASE A!ByEmail(email[q]) = {}
      <4>1. PICK i \in A!UserIds :
              /\ \A j \in A!UserIds : j < i <=> (user[j] # Nothing \/ \E r \in Requests : who[r] = j)
              /\ \E row : user' = [user EXCEPT ![i] = row]
        BY <3>2
      <4>2. user[i] = Nothing BY <4>1
      <4>3. \A j \in A!UserIds \ {i} : user'[j] = user[j] BY <4>1
      <4>. QED BY <4>2, <4>3 DEF KeepsWord
    <3>. QED BY <3>1, <3>2
  <2>2. CASE A!Verify(q)
    <3>. USE <2>2 DEF A!Verify
    <3>1. CASE who[q] \in A!People
      <4>1. user[who[q]] \in A!Rows BY <3>1
      <4>2. user' = [user EXCEPT ![who[q]] = [user[who[q]] EXCEPT !.verified = TRUE]] BY <3>1
      <4>3. [user[who[q]] EXCEPT !.verified = TRUE].word = user[who[q]].word BY <4>1 DEF A!Rows
      <4>4. user'[who[q]] = [user[who[q]] EXCEPT !.verified = TRUE] BY <3>1, <4>2
      <4>5. \A i \in A!UserIds \ {who[q]} : user'[i] = user[i] BY <4>2
      <4>. QED BY <4>3, <4>4, <4>5 DEF KeepsWord
    <3>. QED BY <3>1 DEF KeepsWord
  <2>3. CASE A!WriteRow(q)
    <3>. USE <2>3 DEF A!WriteRow
    <3>1. CASE who[q] \in A!People
      <4>1. user' = [user EXCEPT ![who[q]] = A!Patched(q)] BY <3>1
      <4>2. user'[who[q]] = A!Patched(q) /\ \A i \in A!UserIds \ {who[q]} : user'[i] = user[i]
        BY <3>1, <4>1
      <4>3. A!Patched(q).word = IF does[q] \in {"change", "reset"} THEN password[q] ELSE old[q].word
        BY <3>1, PatchedIsRow
      <4>4. CASE does[q] \in {"change", "reset"}
        <5>1. requestAt'[q] = "signingOut" /\ who'[q] = who[q] BY <4>4 DEF A!Written
        <5>. QED BY <4>2, <5>1 DEF KeepsWord
      <4>5. CASE does[q] \notin {"change", "reset"}
        <5>1. old[q].word = user[who[q]].word \/ who[q] \in excused' BY <3>1 DEF A!Columns
        <5>. QED BY <4>2, <4>3, <4>5, <5>1 DEF KeepsWord
      <4>. QED BY <4>4, <4>5
    <3>. QED BY <3>1 DEF KeepsWord
  <2>. QED BY <2>1, <2>2, <2>3
<1>6. Opens(q)' /\ (who[q] \in A!People)' =>
        (Stays(q) /\ who[q] \in A!People /\ KeepsWord(who[q])) \/ Right(q)'
  <2>1. CASE A!Insert(q)
    <3>1. requestAt'[q] \in {"over", "looking", "linking"} BY <2>1 DEF A!Insert, Typed, A!TypeOK
    <3>. QED BY <3>1 DEF Opens
  <2>2. CASE A!Verify(q)
    <3>. USE <2>2 DEF A!Verify
    <3>1. /\ requestAt[q] = "verifying" /\ requestAt'[q] = "opening"
          /\ who'[q] = who[q] /\ password'[q] = old[q].word
      BY DEF Typed, A!TypeOK
    <3>2. who[q] \in A!People' => who[q] \in A!People BY <3>1 DEF A!People
    <3>. QED BY <1>5, <3>1, <3>2 DEF Stays, Opens, Word
  <2>3. CASE A!WriteRow(q)
    <3>. USE <2>3 DEF A!WriteRow
    <3>1. /\ requestAt[q] = "writing" /\ requestAt'[q] = A!Written(q) /\ does'[q] = does[q]
          /\ who'[q] = who[q] /\ password'[q] = password[q]
      BY DEF Typed, A!TypeOK
    <3>2. who[q] \in A!People' => who[q] \in A!People BY <3>1 DEF A!People
    <3>3. CASE does[q] \in {"setup", "signIn"}
      BY <1>5, <3>1, <3>2, <3>3 DEF A!Written, Stays, Opens, Word
    <3>4. CASE does[q] = "change"
      <4>1. ASSUME who[q] \in A!People PROVE user'[who[q]].word = password[q]
        <5>1. user' = [user EXCEPT ![who[q]] = A!Patched(q)] BY <4>1
        <5>2. user'[who[q]] = A!Patched(q) BY <4>1, <5>1 DEF Typed, A!TypeOK, A!People
        <5>. QED BY <3>4, <4>1, <5>2, PatchedIsRow
      <4>. QED BY <3>1, <3>2, <3>4, <4>1 DEF A!Written, Right, Word
    <3>5. CASE does[q] \notin {"setup", "signIn", "change"}
      BY <3>1, <3>5 DEF A!Written, Opens
    <3>. QED BY <3>3, <3>4, <3>5
  <2>. QED BY <2>1, <2>2, <2>3
<1>7. /\ \A r \in Requests :
           /\ Stays(r) /\ Opens(r)' /\ (who[r] \in A!People)'
           /\ r = q => who[q] \in A!People /\ KeepsWord(who[q])
           => Right(r)'
      /\ \A s \in sessions : (s.of \in A!People)' => Good(s)'
  BY <1>1, <1>2, <1>4, <1>5, StillRight
<1>8. \A r \in Requests : Opens(r)' /\ (who[r] \in A!People)' => Right(r)'
  BY <1>3, <1>6, <1>7 DEF Stays
<1>9. SessionsHaveAccounts' BY <1>1, <1>4 DEF SessionsHaveAccounts
<1>10. \A s \in sessions' : Good(s)' BY <1>1, <1>7, <1>9 DEF SessionsHaveAccounts
<1>. QED BY <1>8, <1>9, <1>10 DEF KnowsTheWord, Right, A!SignedOutByAChange, Good

\* An account is deleted with its sessions, and a session is opened with what its request knows.
LEMMA SessionsInv ==
  ASSUME SessionInv, Typed', NEW q \in Requests, A!Open(q) \/ A!Remove(q)
  PROVE  KnowsTheWord' /\ SessionsHaveAccounts' /\ A!SignedOutByAChange'
<1>. USE DEF SessionInv, A!To
<1>1. /\ UNCHANGED <<late, does, excused, who, password, old>>
      /\ requestAt[q] \in {"opening", "removing"}
  BY DEF A!Open, A!Remove
<1>2. requestAt'[q] = "over" /\ \A r \in Requests \ {q} : requestAt'[r] = requestAt[r]
  BY DEF A!Open, A!Remove, Typed, A!TypeOK
<1>3. \A r \in Requests \ {q} : Stays(r) BY <1>1, <1>2 DEF Stays, Word, Opens
<1>4. A!People' \subseteq A!People /\ \A i \in A!People' : user'[i] = user[i]
  BY DEF A!Open, A!Remove, A!People, Typed, A!TypeOK
<1>5. \A i \in A!People \cap A!People' : KeepsWord(i) BY <1>4 DEF KeepsWord
<1>6. /\ \A r \in Requests :
           /\ Stays(r) /\ Opens(r)' /\ (who[r] \in A!People)'
           /\ r = q => who[q] \in A!People /\ KeepsWord(who[q])
           => Right(r)'
      /\ \A s \in sessions : (s.of \in A!People)' => Good(s)'
  BY <1>1, <1>2, <1>4, <1>5, StillRight
<1>7. \A r \in Requests : Opens(r)' /\ (who[r] \in A!People)' => Right(r)'
  BY <1>2, <1>3, <1>6 DEF Opens
<1>8. SessionsHaveAccounts'
  BY DEF SessionsHaveAccounts, A!Open, A!Remove, A!People, Typed, A!TypeOK
<1>9. \A s \in sessions' : Good(s)'
  <2>1. CASE A!Remove(q) BY <1>6, <1>8, <2>1 DEF SessionsHaveAccounts, A!Remove
  <2>2. CASE A!Open(q)
    <3>. DEFINE s == [of |-> who[q], word |-> password[q], by |-> q]
    <3>1. ASSUME who[q] \in A!People, NEW x, x = s PROVE Good(x)'
      <4>1. Right(q) /\ Word(q) = password[q] BY <2>2, <3>1, InTheseWords DEF A!Open, Opens, Word
      <4>2. \A r \in SigningOut(who[q]) \ {q} : r \in SigningOut(who[q])' BY <1>1, <1>2
      <4>3. UNCHANGED user BY <2>2 DEF A!Open
      <4>4. x.of = who[q] /\ x.word = password[q] /\ x.by = q BY <3>1
      <4>5. who[q] = who'[q] /\ q \notin SigningOut(who[q])' BY <1>1, <1>2
      <4>. QED BY <1>1, <4>1, <4>2, <4>3, <4>4 DEF Right, Good
    <3>2. sessions' \subseteq sessions \cup {s} /\ (who[q] \notin A!People => sessions' = sessions)
      BY <2>2 DEF A!Open
    <3>3. \A x \in sessions' : x \in sessions \/ (x = s /\ who[q] \in A!People) BY <3>2
    <3>. HIDE DEF s
    <3>. QED BY <1>6, <1>8, <3>1, <3>3 DEF SessionsHaveAccounts
  <2>. QED BY <2>1, <2>2
<1>. QED BY <1>7, <1>8, <1>9 DEF KnowsTheWord, Right, A!SignedOutByAChange, Good

\* Every step keeps what is known.
LEMMA StepSessions == ASSUME AccountLimits, SessionInv, [A!Next]_A!vars PROVE SessionInv'
<1>. USE DEF SessionInv
<1>1. Typed' BY StepTyped
<1>2. ASSUME NEW q \in Requests, A!Ask(q) \/ A!Step(q) PROVE SessionInv'
  BY <1>1, <1>2, SignOutInv, ReadingInv, WritingInv, SessionsInv DEF A!Step
<1>3. ASSUME UNCHANGED <<user, requestAt, does, who, password, old, late, excused>>,
             sessions' \subseteq sessions
      PROVE  SessionInv'
  BY <1>1, <1>3 DEF KnowsTheWord, Opens, Word, SessionsHaveAccounts, A!SignedOutByAChange, A!People
<1>4. ASSUME NEW q \in Requests, A!Lapse(q) PROVE SessionInv' BY <1>3, <1>4 DEF A!Lapse
<1>5. ASSUME NEW s \in sessions, A!Leave(s) PROVE SessionInv' BY <1>3, <1>5 DEF A!Leave
<1>6. CASE UNCHANGED A!vars BY <1>3, <1>6 DEF A!vars
<1>. QED BY <1>2, <1>4, <1>5, <1>6 DEF A!Next

\* Whoever is signed in stands for the password that counts: a change and a reset sign every
\* browser of the account out, but for the requests and accounts that late and excused name.
THEOREM AChangeSignsOut == A!Spec => []SignedOutByAChange
<1>. USE AccountsAssumption
<1>1. SessionInv => SignedOutByAChange BY DEF SessionInv, SignedOutByAChange
<1>. QED BY <1>1, InitSessions, StepSessions, PTL DEF A!Spec
=============================================================================
