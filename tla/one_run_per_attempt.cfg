\* A manual retry resets the attempt number under a run that is still alive.
SPECIFICATION Spec

CONSTANTS
  MaxJobs = 1
  MaxAttempts = 2
  Runs = {r1, r2}
  Scanners = {s1}
  Requests = {q1}
  NoLease = NoLease
  Stalls = TRUE
  CrashAt = {}
  r1 = r1
  r2 = r2
  s1 = s1
  q1 = q1

SYMMETRY ActorSymmetry

INVARIANTS
  OneRunPerAttempt
