------------------------------ MODULE RunStatus ------------------------------
(***************************************************************************)
(* The vocabulary of a run's status, from packages/core: the statuses a    *)
(* run can still leave, the ones it cannot, and the map of transitions the *)
(* source declares legal.  "scheduled", "waiting", "retrying" and          *)
(* "unknown" are declared by the source and written by none of its code;   *)
(* they are kept here because guards and counts name them.                 *)
(***************************************************************************)

ACTIVE_RUN_STATUSES ==
  {"running", "queued", "scheduled", "waiting", "waiting_approval", "retrying"}

TERMINAL_RUN_STATUSES ==
  {"success", "failed", "cancelled", "timed_out", "needs_attention"}

Status == ACTIVE_RUN_STATUSES \cup TERMINAL_RUN_STATUSES \cup {"unknown"}

\* The declared state machine, as a set of <<from, to>> pairs.
RUN_TRANSITIONS ==
       {"queued"} \X {"running", "cancelled", "timed_out"}
  \cup {"scheduled"} \X {"queued", "running", "cancelled"}
  \cup {"running"} \X (TERMINAL_RUN_STATUSES
                        \cup {"waiting", "waiting_approval", "retrying"})
  \cup {"waiting"} \X (TERMINAL_RUN_STATUSES \cup {"running"})
  \cup {"waiting_approval"} \X
         {"queued", "running", "cancelled", "timed_out", "failed"}
  \cup {"retrying"} \X {"queued", "running", "cancelled", "failed", "timed_out"}
  \cup {"unknown"} \X {"queued", "running", "success", "failed", "cancelled",
                       "needs_attention"}
==============================================================================
