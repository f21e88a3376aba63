\* The time limits are kept; two requests race with two attempts of two jobs,
\* every process may crash anywhere.
SPECIFICATION Spec

CONSTANTS
  MaxJobs = 2
  MaxAttempts = 2
  Runs = {r1, r2}
  Scanners = {s1}
  Requests = {q1, q2}
  NoLease = NoLease
  Stalls = FALSE
  CrashAt <- AllPoints
  r1 = r1
  r2 = r2
  s1 = s1
  q1 = q1
  q2 = q2

SYMMETRY ActorSymmetry

INVARIANTS
  TypeOK
  QueuedHasBudget
  PendingHasJob

PROPERTIES
  SucceededStays
