\* A worker commits chunk rows behind the tombstone.
SPECIFICATION Spec

CONSTANTS
  MaxJobs = 1
  MaxAttempts = 1
  Runs = {r1}
  Scanners = {s1}
  Requests = {q1}
  NoLease = NoLease
  Stalls = FALSE
  CrashAt = {}
  r1 = r1
  s1 = s1
  q1 = q1

SYMMETRY ActorSymmetry

INVARIANTS
  TombstoneIsClean
