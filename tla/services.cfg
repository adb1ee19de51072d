SPECIFICATION MCFairSpec
CONSTANTS
  Pairings = {1, 2}
  Helpers = {h1, h2}
  h1 = h1
  h2 = h2
  MaxImports = 2
  MaxDeaths = 1
  Nobody = Nobody
  NoPairing = NoPairing
  k1 = k1
  k2 = k2
  j1 = j1
  j2 = j2
  w1 = w1
  NoConn = NoConn
  NoOne = NoOne
  Gone = Gone
  m1 = m1
  d1 = d1
  d2 = d2
  NoMsg = NoMsg
  NoJob = NoJob
  Unread = Unread
CONSTRAINT Bounds
CHECK_DEADLOCK FALSE
INVARIANT DoneMeansSignedIn
PROPERTIES OverStaysOver NothingAfterTheAnswer EveryPairingEnds EveryJobEnds WaitingEnds
