----------------------------- MODULE MCMessages -----------------------------
(***************************************************************************)
(* Instances for TLC of what becomes of a person's message: its delivery,  *)
(* its routing, its way through a provider's website, and the commands of  *)
(* the assistant's chat.  A behaviour is one of one of the four; the       *)
(* others stay in an initial state.                                        *)
(***************************************************************************)
EXTENDS Conversation, TLC

CONSTANTS c1, c2

VARIABLE part      \* the one of this behaviour

OneEach == <<1, 2>>

MCInit ==
  /\ part \in {"delivery", "routing", "chat", "command"}
  /\ Init /\ (part # "delivery" => mode = [m \in Messages |-> "chat"])
  /\ R!Init
  /\ C!Init /\ (part # "chat" => site = "mute" /\ ~thread)
  /\ A!Init /\ (part # "command" => engine = "boss" /\ policy = "auto")

Deliveries == part = "delivery" /\ Next /\ UNCHANGED <<part, routeVars, chatVars, commandVars>>
Routes == part = "routing" /\ R!Next /\ UNCHANGED <<part, vars, chatVars, commandVars>>
Chat == part = "chat" /\ C!Next /\ UNCHANGED <<part, vars, routeVars, commandVars>>
Command == part = "command" /\ A!Next /\ UNCHANGED <<part, vars, routeVars, chatVars>>

MCSpec == MCInit /\ [][Deliveries \/ Routes \/ Chat \/ Command]_<<part, vars, routeVars, chatVars,
                                                                commandVars>>

Interchangeable == Permutations(Workers) \cup Permutations({c1, c2})

\* A bound: where a call is made for the message, one request and no fault are enough;
\* where it waits to be fetched, two requests, or one and a fault.
CallsAreCalm ==
  /\ asked + faults <= 2
  /\ \A m \in Messages : mode[m] # "inbox" => asked <= 1 /\ faults = 0
\* What is lost or decided anew is so before a run has begun, or once beside one that waits.
  /\ routeRun # "none" => losses = 0 \/ (losses = 1 /\ routeRun = "active" /\ rowStatus = "assigned")
\* What is lost or decided anew, and what is sent again besides, are two things.
  /\ losses > 0 => losses + attempts <= 2

=============================================================================
