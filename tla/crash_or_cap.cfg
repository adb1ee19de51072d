SPECIFICATION Spec
CONSTANTS
  TaskRuns = {t1, t2}
  ChatRuns = {}
  DispatchRuns = {}
  ExternalRuns = {}
  w1 = w1
  w2 = w2
  p1 = p1
  p2 = p2
  Workers = {w1, w2}
  Procs = {p1, p2}
  ProcOf <- TwoProcesses
  Resumers = {"task", "chat", "dispatch"}
  MaxDeliveries = 1
  AttemptCap = 0
  MaxConcurrent = 1
  MaxDaily = 0
  MaxCrashes = 1
  Reports = {"running", "failed"}
  NoJob = NoJob
  NoLease = NoLease
  NoRun = NoRun
CHECK_DEADLOCK FALSE
SYMMETRY Alike
CONSTRAINT CrashOrCap
INVARIANTS NothingWithoutConsent TasksStayUnderCap
PROPERTY SettledStays
