\* A cleanup that was fenced, or a scan that was listed, before a retry deletes
\* the index of the retried attempt.
SPECIFICATION Spec

CONSTANTS
  MaxJobs = 1
  MaxAttempts = 2
  Runs = {r1}
  Scanners = {s1}
  Requests = {q1}
  NoLease = NoLease
  Stalls = FALSE
  CrashAt = {}
  r1 = r1
  s1 = s1
  q1 = q1

SYMMETRY ActorSymmetry

INVARIANTS
  ReadyIsFound
