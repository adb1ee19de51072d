----------------------------- MODULE Workspace -----------------------------
(***************************************************************************)
(* What an installation keeps, side by side: the sessions that the browser *)
(* fleet saves, the mirror of a process's files, and the accounts of its   *)
(* people.  Each has variables of its own; this module names them, and     *)
(* states what is assumed of their limits.                                 *)
(***************************************************************************)
EXTENDS FleetInv

CONSTANTS
  MaxProcs, MaxWrites, MaxLosses,                          \* the mirror
  Emails, Requests, MaxUsers, MaxWords, MaxLostMails,      \* the accounts
  Nothing                                                  \* no file, no row

VARIABLES
  mirror, disk, processAt, ready, lastHash, file, snap, force, made, ever, apart, mirrorFaults,
  user, words, sessions, link, requestAt, does, email, password, who, old, via, redeemed, late,
  excused, accountFaults

M == INSTANCE Mirror WITH
  MaxFaults <- MaxLosses, Absent <- Nothing,
  pc <- processAt, at <- file, faults <- mirrorFaults
A == INSTANCE Accounts WITH
  MaxFaults <- MaxLostMails, Nobody <- Nothing,
  pc <- requestAt, word <- password, faults <- accountFaults

\* The bounds are numbers, and "no file" is no file.
MirrorLimits ==
  /\ MaxProcs \in Nat /\ MaxWrites \in Nat /\ MaxLosses \in Nat
  /\ \A ws \in SUBSET (1..MaxWrites) : ws # Nothing

\* There may be an account with a password, and "no row" is no row.
AccountLimits ==
  /\ MaxUsers \in Nat \ {0} /\ MaxWords \in Nat \ {0} /\ MaxLostMails \in Nat
  /\ Nothing \notin A!Rows

ASSUME MirrorAssumption == MirrorLimits
ASSUME AccountsAssumption == AccountLimits

mirrorVars == <<mirror, disk, processAt, ready, lastHash, file, snap, force, made, ever, apart,
                mirrorFaults>>
accountVars == <<user, words, sessions, link, requestAt, does, email, password, who, old, via,
                 redeemed, late, excused, accountFaults>>

----------------------------------------------------------------------------
(* Their properties; each is stated where its component is modelled.        *)

MirrorKeeps == M!MirrorKeeps
SignedOutByAChange == A!SignedOutByAChange
LinkWorksOnce == A!LinkWorksOnce
============================================================================
