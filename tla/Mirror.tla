------------------------------- MODULE Mirror -------------------------------
(***************************************************************************)
(* Persistence without a volume (persist.ts, bootstrap.ts, shutdown in     *)
(* server.ts): the state files of a process are mirrored into a table, and *)
(* a process that finds none of them restores them before it opens them.   *)
(* Processes follow one another, on a disk of their own or on the last     *)
(* one's, and may overlap in a rolling deploy.  Of the three files two are *)
(* modelled, platforms.json being like sessions.json; a file is the set of *)
(* writes it holds.                                                        *)
(***************************************************************************)
EXTENDS Naturals, Sequences

CONSTANTS
  MaxProcs,   \* bound: processes started one after another
  MaxWrites,  \* bound: writes in all
  MaxFaults,  \* bound: connections, queries and saves that fail, processes killed
  Absent

VARIABLES
  mirror,     \* acp_files: [files -> their content]
  disk,       \* [processes -> [files -> content]]
  pc,
  ready,      \* connect()'s one promise: "untried", "yes", "no"
  lastHash,   \* [processes -> [files -> content last known to be in the mirror]]
  at,         \* the file the restore or the save under way is at; 0 when there is none
  snap,       \* what that save has read of it
  force,      \* that save was called with force
  made,       \* writes made so far
  ever,       \* [files -> every write the mirror has held]
  apart,      \* a process has come up without a file of the mirror, or beside another
  faults

procVars == <<disk, pc, ready, lastHash, at, snap, force>>
vars == <<mirror, procVars, made, ever, apart, faults>>

FILES == <<"acp.sqlite", "sessions.json">>
Files == {FILES[i] : i \in 1..Len(FILES)}
Procs == 1..MaxProcs
Contents == (SUBSET (1..MaxWrites)) \cup {Absent}
NoFiles == [f \in Files |-> Absent]

TypeOK ==
  /\ mirror \in [Files -> Contents] /\ disk \in [Procs -> [Files -> Contents]]
  /\ pc \in [Procs -> {"off", "restoring", "up", "draining", "saving", "gone"}]
  /\ ready \in [Procs -> {"untried", "yes", "no"}] /\ lastHash \in [Procs -> [Files -> Contents]]
  /\ at \in [Procs -> 0..Len(FILES) + 1] /\ snap \in [Procs -> Contents] /\ force \in [Procs -> BOOLEAN]
  /\ made \in 0..MaxWrites /\ ever \in [Files -> SUBSET (1..MaxWrites)] /\ apart \in BOOLEAN
  /\ faults \in 0..MaxFaults

Init ==
  /\ mirror = NoFiles
  /\ disk = [p \in Procs |-> NoFiles] /\ pc = [p \in Procs |-> "off"]
  /\ ready = [p \in Procs |-> "untried"] /\ lastHash = [p \in Procs |-> NoFiles]
  /\ at = [p \in Procs |-> 0] /\ snap = [p \in Procs |-> Absent] /\ force = [p \in Procs |-> FALSE]
  /\ made = 0 /\ ever = [f \in Files |-> {}] /\ apart = FALSE /\ faults = 0

Has(f, p, v) == f' = [f EXCEPT ![p] = v]
Fault == faults < MaxFaults /\ faults' = faults + 1
Running(p) == pc[p] \notin {"off", "gone"}

----------------------------------------------------------------------------
(* Boot                                                                    *)

Boot(p) ==
  /\ pc[p] = "off" /\ \A o \in 1..p - 1 : pc[o] # "off"
  /\ \/ UNCHANGED disk
     \/ p > 1 /\ pc[p - 1] = "gone" /\ Has(disk, p, disk[p - 1])
  /\ Has(pc, p, "restoring")
  /\ apart' = (apart \/ \E o \in Procs : Running(o))
  /\ UNCHANGED <<mirror, ready, lastHash, at, snap, force, made, ever, faults>>

\* The mirror holds a file that this disk does not.
Missed(p, f) == disk[p][f] = Absent /\ mirror[f] # Absent

\* A connection that cannot be made is not tried again: nothing is restored, and nothing saved.
Connect(p) ==
  /\ pc[p] = "restoring" /\ ready[p] = "untried"
  /\ \/ Has(ready, p, "yes") /\ Has(at, p, 1) /\ UNCHANGED <<apart, faults>>
     \/ /\ Has(ready, p, "no") /\ Has(at, p, Len(FILES) + 1) /\ Fault
        /\ apart' = (apart \/ \E f \in Files : Missed(p, f))
  /\ UNCHANGED <<mirror, disk, pc, lastHash, snap, force, made, ever>>

\* Mutant of Restored: a new disk starts with an empty file.
StartedAnew(p, f) == IF disk[p][f] = Absent THEN {} ELSE disk[p][f]

\* What is on the disk stays; what the table has is written to it, unless the query fails.
Restored(p, f) == IF disk[p][f] = Absent THEN mirror[f] ELSE disk[p][f]

RestoreFile(p) ==
  /\ pc[p] = "restoring" /\ at[p] \in 1..Len(FILES)
  /\ LET f == FILES[at[p]] IN
       \/ /\ disk' = [disk EXCEPT ![p][f] = Restored(p, f)]
          /\ lastHash' = [lastHash EXCEPT ![p][f] = IF disk[p][f] = Absent THEN mirror[f] ELSE @]
          /\ UNCHANGED <<apart, faults>>
       \/ /\ disk[p][f] = Absent /\ Fault
          /\ apart' = (apart \/ Missed(p, f))
          /\ UNCHANGED <<disk, lastHash>>
  /\ Has(at, p, at[p] + 1)
  /\ UNCHANGED <<mirror, pc, ready, snap, force, made, ever>>

\* The database is opened, and made where there is none.
Open(p) ==
  /\ pc[p] = "restoring" /\ at[p] = Len(FILES) + 1
  /\ disk' = [disk EXCEPT ![p]["acp.sqlite"] = IF @ = Absent THEN {} ELSE @]
  /\ Has(pc, p, "up") /\ Has(at, p, 0)
  /\ UNCHANGED <<mirror, ready, lastHash, snap, force, made, ever, apart, faults>>

----------------------------------------------------------------------------
(* saveToDatabase                                                          *)

Save(p, forced) ==
  IF ready[p] = "yes" THEN Has(at, p, 1) /\ Has(force, p, forced) ELSE UNCHANGED <<at, force>>

Tick(p) ==
  /\ pc[p] = "up" /\ ready[p] = "yes" /\ at[p] = 0
  /\ Save(p, FALSE)
  /\ UNCHANGED <<mirror, disk, pc, ready, lastHash, snap, made, ever, apart, faults>>

Saving(p) == pc[p] \in {"up", "draining", "saving"} /\ at[p] \in 1..Len(FILES)

\* A file that is not there, or has not changed since it was last saved, is passed over.
Snapshot(p) ==
  /\ Saving(p) /\ snap[p] = Absent
  /\ LET f == FILES[at[p]] IN
       IF disk[p][f] = Absent \/ (~force[p] /\ lastHash[p][f] = disk[p][f])
         THEN Has(at, p, at[p] + 1) /\ UNCHANGED snap
         ELSE Has(snap, p, disk[p][f]) /\ UNCHANGED at
  /\ UNCHANGED <<mirror, disk, pc, ready, lastHash, force, made, ever, apart, faults>>

Upload(p) ==
  /\ Saving(p) /\ snap[p] # Absent
  /\ LET f == FILES[at[p]] IN
       \/ /\ mirror' = [mirror EXCEPT ![f] = snap[p]]
          /\ lastHash' = [lastHash EXCEPT ![p][f] = snap[p]]
          /\ ever' = [ever EXCEPT ![f] = @ \cup snap[p]]
          /\ UNCHANGED faults
       \/ Fault /\ UNCHANGED <<mirror, lastHash, ever>>
  /\ Has(at, p, at[p] + 1) /\ Has(snap, p, Absent)
  /\ UNCHANGED <<disk, pc, ready, force, made, apart>>

SaveEnds(p) ==
  /\ pc[p] \in {"up", "draining", "saving"} /\ at[p] = Len(FILES) + 1
  /\ Has(at, p, 0)
  /\ UNCHANGED <<mirror, disk, pc, ready, lastHash, snap, force, made, ever, apart, faults>>

----------------------------------------------------------------------------
(* The process's work and its end                                          *)

Write(p) ==
  /\ pc[p] \in {"up", "draining"} /\ made < MaxWrites
  /\ made' = made + 1
  /\ \E f \in Files :
       disk' = [disk EXCEPT ![p][f] = IF @ = Absent THEN {made + 1} ELSE @ \cup {made + 1}]
  /\ UNCHANGED <<mirror, pc, ready, lastHash, at, snap, force, ever, apart, faults>>

\* SIGTERM: the timer is stopped; what runs is given a few seconds, the browser is closed,
\* its sessions with it (Write).
Shutdown(p) ==
  /\ pc[p] = "up" /\ Has(pc, p, "draining")
  /\ UNCHANGED <<mirror, disk, ready, lastHash, at, snap, force, made, ever, apart, faults>>

\* The last save: one that is under way is the one waited for.
FinalSave(p) ==
  /\ pc[p] = "draining" /\ Has(pc, p, "saving")
  /\ IF at[p] = 0 THEN Save(p, TRUE) ELSE UNCHANGED <<at, force>>
  /\ UNCHANGED <<mirror, disk, ready, lastHash, snap, made, ever, apart, faults>>

\* What a process knows goes with it; its disk may stay.
Ends(p) ==
  /\ Has(pc, p, "gone") /\ Has(at, p, 0) /\ Has(snap, p, Absent) /\ Has(force, p, FALSE)
  /\ Has(ready, p, "untried") /\ Has(lastHash, p, NoFiles)
  /\ UNCHANGED <<mirror, disk, made, ever, apart>>

Exit(p) == pc[p] = "saving" /\ at[p] = 0 /\ Ends(p) /\ UNCHANGED faults

\* A crash, or the five seconds of the last save are over.
Killed(p) == Running(p) /\ Ends(p) /\ Fault

Next ==
  \E p \in Procs :
    \/ Boot(p) \/ Connect(p) \/ RestoreFile(p) \/ Open(p)
    \/ Tick(p) \/ Snapshot(p) \/ Upload(p) \/ SaveEnds(p)
    \/ Write(p) \/ Shutdown(p) \/ FinalSave(p) \/ Exit(p) \/ Killed(p)

Spec == Init /\ [][Next]_vars

----------------------------------------------------------------------------
(* Properties                                                              *)

\* What the mirror has held it holds, over any number of restarts, kills and failed saves,
\* on new disks and old (restoreFromDatabase, saveToDatabase); not so once a process has come
\* up without a file of the mirror, because connecting or asking failed, or beside another.
MirrorKeeps == apart \/ \A f \in Files : ever[f] \subseteq (IF mirror[f] = Absent THEN {} ELSE mirror[f])
=============================================================================
