SPECIFICATION FairSpec
CONSTANTS
  TaskRuns = {t1}
  ChatRuns = {m1}
  DispatchRuns = {d1}
  ExternalRuns = {x1}
  w1 = w1
  w2 = w2
  p1 = p1
  p2 = p2
  Workers = {w1}
  Procs = {p1, p2}
  ProcOf <- OneProcess
  Resumers = {"task", "dispatch"}
  MaxDeliveries = 1
  AttemptCap = 1
  MaxConcurrent = 0
  MaxDaily = 1
  MaxCrashes = 1
  Reports = {}
  NoJob = NoJob
  NoLease = NoLease
  NoRun = NoRun
CHECK_DEADLOCK FALSE
CONSTRAINT OneRun
PROPERTIES MovesAreMapped EveryRunSettles KeepsContract
