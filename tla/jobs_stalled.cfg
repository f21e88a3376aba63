\* Runs and scans outlive every time limit.
SPECIFICATION Spec

CONSTANTS
  MaxJobs = 2
  MaxAttempts = 2
  Runs = {r1, r2}
  Scanners = {s1}
  Requests = {q1}
  NoLease = NoLease
  Stalls = TRUE
  CrashAt = {"index", "clean"}
  r1 = r1
  r2 = r2
  s1 = s1
  q1 = q1

SYMMETRY ActorSymmetry

INVARIANTS
  OnlyRunningAttemptCanPublish
  DeletedIsUnindexed
  OneAttemptIsFound
