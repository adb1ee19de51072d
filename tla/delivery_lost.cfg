SPECIFICATION FairSpec
CONSTANTS
  Messages = {m1}
  Workers = {w1}
  Modes = {"chat"}
  MaxRuns = 2
  MaxDeliveries = 2
  MaxAttempts = 0
  MaxRequests = 1
  MaxFaults = 1
  NoMsg = NoMsg
  NoJob = NoJob
  Unread = Unread
CHECK_DEADLOCK FALSE
PROPERTY SettledRunSettlesMessage
