SPECIFICATION MCSpec
CONSTANTS
  w1 = w1
  w2 = w2
  j1 = j1
  j2 = j2
  j3 = j3
  e1 = e1
  Keys = {k1, k2}
  OrgOf <- OneOrg
  Workers = {w1, w2}
  Jobs = {j1, j2, j3}
  Errands = {e1}
  WorkerOf <- TwoHosts
  Ids = {1, 2, 3}
  MaxContexts = 1
  OrgMaxContexts = 1
  MaxSession = 1
  MaxFaults = 1
  NoConn = NoConn
  NoOne = NoOne
  Gone = Gone
  MaxProcs = 3
  MaxWrites = 2
  MaxLosses = 2
  Emails = {k1, k2}
  Requests = {j1, j2, j3}
  MaxUsers = 2
  MaxWords = 3
  MaxLostMails = 1
  Nothing = Nothing
CHECK_DEADLOCK FALSE
SYMMETRY Interchangeable
CONSTRAINT Bounds
INVARIANTS JobsTakeTurns DrivenByItsHolder MirrorKeeps SignedOutByAChange LinkWorksOnce
PROPERTY SavedSessionStands
