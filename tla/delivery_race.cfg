SPECIFICATION MCSpec
CONSTANTS
  Messages = {m1}
  Workers = {w1, w2}
  Modes = {"chat", "webhook", "inbox"}
  MaxRuns = 1
  MaxDeliveries = 1
  MaxAttempts = 1
  MaxRequests = 2
  MaxFaults = 1
  NoMsg = NoMsg
  NoJob = NoJob
  Unread = Unread
  c1 = c1
  c2 = c2
  MaxAI = 2
  PlatformOf <- OneEach
  Scores = {0, 8, 12}
  MaxLosses = 2
  Patience = 5
  Full = 2
  MaxFailures = 2
  Orders = {c1, c2}
  Actions = {"ask", "run", "stop", "approve", "reject"}
  Engines = {"inline", "boss"}
  Policies = {"auto", "ask"}
CHECK_DEADLOCK FALSE
SYMMETRY Interchangeable
CONSTRAINT CallsAreCalm
INVARIANTS DoneMeansHeard RouteIsKept AnswerIsWhole FollowsItsRun
