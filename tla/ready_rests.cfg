\* The run of a cancelled job fails after a later job has made the material READY.
SPECIFICATION Spec

CONSTANTS
  MaxJobs = 2
  MaxAttempts = 2
  Runs = {r1, r2}
  Scanners = {s1}
  Requests = {q1, q2}
  NoLease = NoLease
  Stalls = FALSE
  CrashAt = {}
  r1 = r1
  r2 = r2
  s1 = s1
  q1 = q1
  q2 = q2

SYMMETRY ActorSymmetry

PROPERTIES
  ReadyRests
