SPECIFICATION MCSpec
CONSTANTS
  TaskRuns = {t1}
  ChatRuns = {}
  DispatchRuns = {}
  ExternalRuns = {}
  w1 = w1
  w2 = w2
  p1 = p1
  p2 = p2
  Workers = {w1, w2}
  Procs = {p1, p2}
  ProcOf <- TwoProcesses
  Resumers = {"task", "chat", "dispatch"}
  MaxDeliveries = 2
  AttemptCap = 0
  MaxConcurrent = 0
  MaxDaily = 0
  MaxCrashes = 0
  Reports = {}
  NoJob = NoJob
  NoLease = NoLease
  NoRun = NoRun
  r1 = r1
  r2 = r2
  Pushes = {r1, r2}
  Folds = {s1}
  Edits = {e1}
  Deletes = {d1}
  Pollers = {p1, p2}
  Mails = {m1}
  MaxTasks = 2
  MaxFaults = 1
  Reported = Reported
CHECK_DEADLOCK FALSE
SYMMETRY Interchangeable
CONSTRAINT Bounds
INVARIANTS HandedOverOnce OneDriver OpenRunHasNoLease ReportTakesEffect PauseStands MailBecomesOneRun
