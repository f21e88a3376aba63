\* One job, one worker and one scan, and two requests in its way.
SPECIFICATION FairSpec

CONSTANTS
  MaxJobs = 1
  MaxAttempts = 2
  Runs = {r1}
  Scanners = {s1}
  Requests = {q1, q2}
  NoLease = NoLease
  Stalls = FALSE
  CrashAt <- AllPoints
  r1 = r1
  s1 = s1
  q1 = q1
  q2 = q2

PROPERTIES
  JobsSettle
  CleanupsEnd
  LeftoversGo
  DeletionEnds
