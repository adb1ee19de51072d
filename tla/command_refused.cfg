SPECIFICATION Spec
CONSTANTS
  Messages = {m1, m2}
  Actions = {"ask", "run", "stop", "approve", "reject"}
  Engines = {"inline", "boss"}
  Policies = {"auto", "ask"}
  NoMessage = NoMessage
CHECK_DEADLOCK FALSE
INVARIANT CommandFollowsItsRun
