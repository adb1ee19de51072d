SPECIFICATION MCFairSpec
CONSTANTS
  p = p
  q = q
  v1 = v1
  v2 = v2
  Agent = Agent
  None = None
  Platforms = {p, q}
  Viewers = {v1, v2}
  ViewStreams = {1, 2}
  ViewCalls <- TwoForAViewer
  RelayPlatforms = {p}
  Apis = {1, 2}
  RelayStreams = {1, 2, 3}
  RelaySinks <- TwoForATab
  RelayCalls <- TwoForATab
  MaxChanges = 4
  MaxOutages = 1
  Jobs = {j1}
  SignIns = {s1, s2}
  Errands = {e1}
  Askers = {a1}
  Instances = {1, 2}
  MaxExits = 1
  MaxWrites = 3
  Conns = {1, 2}
  BufferMax = 1
  BatchMax = 1
  ReplayMax = 1
  MaxFaults = 1
  b1 = b1
  d1 = d1
  c1 = c1
  x1 = x1
  SyncsAsked = {b1}
  Direct = {d1}
  Checks = {c1}
  Chats = {x1}
  Timer = Timer
  Nobody = Nobody
  Unread = Unread
CONSTRAINT Bounds
CHECK_DEADLOCK FALSE
INVARIANTS TypesOK LogKeepsOrder FramesOfOneTab ShowsItsTab SinksOfWants WindowAlone NothingWithoutEvidence
PROPERTIES EveryChangeIsTold UnwatchedStops FinishIsHeard SignInsEnd StaleStatusHeals
