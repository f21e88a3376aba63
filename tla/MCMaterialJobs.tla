--------------------------- MODULE MCMaterialJobs ---------------------------
EXTENDS MaterialJobs, TLC

ActorSymmetry == Permutations(Runs) \cup Permutations(Requests)
AllPoints == RunPoints \cup ScanPoints
=============================================================================
