----------------------------- MODULE RunContract -----------------------------
(***************************************************************************)
(* What the control plane promises about a run's work, whoever executes    *)
(* it: handing the work to its provider needs a permit; a run's permit is  *)
(* issued once, never while somebody's consent is asked and not given; it  *)
(* is used once, or lost with whoever held it and never issued again.      *)
(***************************************************************************)
CONSTANT Runs

VARIABLES
  consent,  \* "none" while nobody was asked, "pending", "approved" or "refused"
  permit    \* "unissued", "held", "used" or "void"

vars == <<consent, permit>>

Init == /\ consent = [r \in Runs |-> "none"]
        /\ permit = [r \in Runs |-> "unissued"]

Ask(r) == /\ permit[r] = "unissued" /\ consent[r] = "none"
          /\ consent' = [consent EXCEPT ![r] = "pending"]
          /\ UNCHANGED permit

Answer(r) == /\ consent[r] = "pending"
             /\ \E a \in {"approved", "refused"} : consent' = [consent EXCEPT ![r] = a]
             /\ UNCHANGED permit

Issue(r) == /\ permit[r] = "unissued" /\ consent[r] \in {"none", "approved"}
            /\ permit' = [permit EXCEPT ![r] = "held"]
            /\ UNCHANGED consent

Use(r) == /\ permit[r] = "held"
          /\ permit' = [permit EXCEPT ![r] = "used"]
          /\ UNCHANGED consent

\* Several permits die together with the process that held them.
Void(R) == /\ \A r \in R : permit[r] \in {"unissued", "held"}
           /\ permit' = [r \in Runs |-> IF r \in R THEN "void" ELSE permit[r]]
           /\ UNCHANGED consent

\* The request of a run whose executor finds it gone is withdrawn as it is voided.
Withdraw(r) == /\ permit[r] = "unissued" /\ consent[r] = "pending"
               /\ consent' = [consent EXCEPT ![r] = "refused"]
               /\ permit' = [permit EXCEPT ![r] = "void"]

Next == \/ \E r \in Runs : Ask(r) \/ Answer(r) \/ Issue(r) \/ Use(r) \/ Withdraw(r)
        \/ \E R \in SUBSET Runs : Void(R)

Spec == Init /\ [][Next]_vars
=============================================================================
