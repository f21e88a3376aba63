------------------------ MODULE MaterialJobs_proofs ------------------------
(***************************************************************************)
(* Proofs about MaterialJobs, for any number of jobs, attempts, workers,   *)
(* recovery scans and requests, whether processes stall or not.            *)
(***************************************************************************)
EXTENDS MaterialJobs, TLAPS

-----------------------------------------------------------------------------
(* What the helpers that move an actor leave of the types.                 *)

(* Job 1, which an idle run names, exists.                                 *)
LEMMA JobOne == 1 \in Jobs
BY BoundsAssumption DEF Jobs

(* A run starts, and goes on after a rollback, well typed.                 *)
LEMMA NewRunType == NewRun \in RunState /\ RolledBack \in RunState
BY DEF NewRun, RolledBack, RunState

(* A run moves to another of its points and changes only its local state.  *)
LEMMA MoveRun ==
  ASSUME ActorTypeOK, NEW r \in Runs, NEW l \in RunPoints, NEW ls \in RunState,
         \/ Goto(r, l)
         \/ GotoWith(r, l, ls)
  PROVE  ActorTypeOK'
<1>1. pc' = [pc EXCEPT ![r] = l] /\ job' = job /\ att' = att
  BY DEF Goto, GotoWith, runVars
<1>2. local' \in [Runs -> RunState]
  BY DEF ActorTypeOK, Goto, GotoWith, runVars
<1>3. pc' \in [Actors -> RunPoints \cup ScanPoints \cup RequestPoints]
  BY <1>1 DEF ActorTypeOK
<1>4. \A a \in Actors : pc'[a] = IF a = r THEN l ELSE pc[a]
  BY <1>1 DEF ActorTypeOK
<1> QED
  BY <1>1, <1>2, <1>3, <1>4, ActorsAssumption DEF ActorTypeOK, Actors, Procs

(* The end of an execution resets everything a run keeps.                  *)
LEMMA StopRunType ==
  ASSUME ActorTypeOK, NEW r \in Runs, StopRun(r)
  PROVE  ActorTypeOK'
<1>1. pc' = [pc EXCEPT ![r] = "idle"] /\ "idle" \in RunPoints
  BY DEF StopRun, RunPoints
<1>2. job' \in [Procs -> Jobs]
  BY JobOne DEF ActorTypeOK, StopRun
<1>5. att' \in [Runs -> 0 .. MaxAttempts]
  <2>1. 0 \in 0 .. MaxAttempts
    BY BoundsAssumption
  <2> QED
    BY <2>1 DEF ActorTypeOK, StopRun
<1>3. local' \in [Runs -> RunState]
  BY NewRunType DEF ActorTypeOK, StopRun
<1>4. \A a \in Actors : pc'[a] = IF a = r THEN "idle" ELSE pc[a]
  BY <1>1 DEF ActorTypeOK
<1> QED
  BY <1>1, <1>2, <1>3, <1>4, <1>5, ActorsAssumption DEF ActorTypeOK, Actors, Procs

(* A scan moves to another of its points, with some job.                   *)
LEMMA MoveScan ==
  ASSUME ActorTypeOK, NEW s \in Scanners, NEW l \in ScanPoints, NEW j \in Jobs,
         pc' = [pc EXCEPT ![s] = l],
         job' = job \/ job' = [job EXCEPT ![s] = j],
         UNCHANGED <<att, local>>
  PROVE  ActorTypeOK'
<1>1. \A a \in Actors : pc'[a] = IF a = s THEN l ELSE pc[a]
  BY DEF ActorTypeOK
<1>2. pc' \in [Actors -> RunPoints \cup ScanPoints \cup RequestPoints]
  BY DEF ActorTypeOK
<1>3. job' \in [Procs -> Jobs]
  BY DEF ActorTypeOK
<1> QED
  BY <1>1, <1>2, <1>3, ActorsAssumption DEF ActorTypeOK, Actors, Procs

(* A request moves to another of its points.                               *)
LEMMA MoveRequest ==
  ASSUME ActorTypeOK, NEW q \in Requests, NEW l \in RequestPoints, Goto(q, l)
  PROVE  ActorTypeOK'
<1>1. \A a \in Actors : pc'[a] = IF a = q THEN l ELSE pc[a]
  BY DEF ActorTypeOK, Goto
<1>2. pc' \in [Actors -> RunPoints \cup ScanPoints \cup RequestPoints]
  BY DEF ActorTypeOK, Goto
<1> QED
  BY <1>1, <1>2, ActorsAssumption DEF ActorTypeOK, Actors, Procs, Goto, runVars

(* _fail_indexing_intent returns to one of the run's own points.           *)
LEMMA ReturnType ==
  ASSUME ActorTypeOK, NEW r \in Runs, NEW ls \in RunState, Return(r, ls)
  PROVE  ActorTypeOK'
<1>1. CASE local[r].after = "idle"
  BY <1>1, StopRunType DEF Return
<1>2. CASE local[r].after # "idle"
  <2>1. local[r].after \in RunPoints
    BY DEF ActorTypeOK, RunState, RunPoints
  <2> QED
    BY <1>2, <2>1, MoveRun DEF Return
<1> QED
  BY <1>1, <1>2

(* The end of a cleanup, by whichever process did it.                      *)
LEMMA EndCleanupType ==
  ASSUME ActorTypeOK, NEW p \in Procs, EndCleanup(p)
  PROVE  ActorTypeOK'
<1>1. CASE p \in Runs
  BY <1>1, StopRunType DEF EndCleanup
<1>2. CASE p \notin Runs
  BY <1>2, MoveScan, JobOne DEF EndCleanup, Procs, ScanPoints
<1> QED
  BY <1>1, <1>2

-----------------------------------------------------------------------------
(* What an action does not mention keeps its type.                         *)

(* The material, the jobs, the actors and their reads, left alone.         *)
LEMMA MaterialFrame ==
  ASSUME MaterialTypeOK, UNCHANGED <<ownerVars, materialVars>>
  PROVE  MaterialTypeOK'
BY DEF MaterialTypeOK, ownerVars, materialVars, leaseVars, indexVars

LEMMA JobFrame == ASSUME JobTypeOK, UNCHANGED jobVars PROVE JobTypeOK'
BY DEF JobTypeOK, jobVars

LEMMA ActorFrame ==
  ASSUME ActorTypeOK, UNCHANGED <<pc, job, att, local>> PROVE ActorTypeOK'
BY DEF ActorTypeOK

LEMMA ReadFrame == ASSUME ReadTypeOK, UNCHANGED readVars PROVE ReadTypeOK'
BY DEF ReadTypeOK, readVars

(* The lease columns of a settled material, its owner and index untouched. *)
LEMMA SettleType ==
  ASSUME MaterialTypeOK, NEW s \in ProcessingStatus, UNCHANGED ownerVars,
         Settle(s) \/ UNCHANGED leaseVars,
         UNCHANGED indexVars \/ DeleteChunks \/ \E r \in Runs : DeleteOwn(r)
  PROVE  MaterialTypeOK'
BY DEF MaterialTypeOK, Settle, ownerVars, leaseVars, indexVars, DeleteChunks, DeleteOwn

(* A pending compensation removes the rows of one run, or none.            *)
LEMMA CommitCompKeeps ==
  ASSUME NEW r \in Runs, CommitComp(r)
  PROVE  UNCHANGED indexVars \/ \E x \in Runs : DeleteOwn(x)
BY DEF CommitComp

(* A job is closed under some status; its attempt number stays.            *)
LEMMA SetStatusType ==
  ASSUME JobTypeOK, NEW j \in Jobs, NEW s \in JobStatus, SetStatus(j, s)
  PROVE  JobTypeOK'
BY DEF JobTypeOK, SetStatus

(* A job is queued again with a legal attempt number.                      *)
LEMMA RequeueType ==
  ASSUME JobTypeOK, NEW j \in Jobs, NEW now \in BOOLEAN, Requeue(j, now),
         attempt' = attempt \/ attempt' = [attempt EXCEPT ![j] = 0]
  PROVE  JobTypeOK'
<1>1. "queued" \in JobStatus
  BY DEF JobStatus
<1>2. 0 \in 0 .. MaxAttempts
  BY BoundsAssumption
<1>3. attempt' \in [Jobs -> 0 .. MaxAttempts]
  BY <1>2 DEF JobTypeOK
<1> QED
  BY <1>1, <1>3 DEF JobTypeOK, Requeue

(* A new job joins whatever statuses the cancellation has left.            *)
LEMMA CreateJobType ==
  ASSUME JobTypeOK, NEW st \in [Jobs -> JobStatus], CreateJob(st)
  PROVE  JobTypeOK'
<1>1. "queued" \in JobStatus
  BY DEF JobStatus
<1> QED
  BY <1>1 DEF JobTypeOK, CreateJob

(* Cancelling the live jobs leaves statuses only.                          *)
LEMMA CancelledJobsType ==
  ASSUME JobTypeOK PROVE CancelledJobs \in [Jobs -> JobStatus]
BY DEF JobTypeOK, CancelledJobs, JobStatus

-----------------------------------------------------------------------------
(* Every action keeps the types.                                           *)

(* The initial states are well typed: a material whose upload is done.     *)
THEOREM InitType == Init => TypeOK
<1> SUFFICES ASSUME Init PROVE TypeOK
  OBVIOUS
<1>1. MaterialTypeOK
  BY DEF Init, MaterialTypeOK, StorageStatus, ProcessingStatus
<1>2. JobTypeOK
  <2>1. 0 \in 0 .. MaxAttempts
    BY BoundsAssumption
  <2> QED
    BY <2>1, JobOne DEF Init, JobTypeOK, JobStatus
<1>3. ActorTypeOK
  <2>1. 0 \in 0 .. MaxAttempts
    BY BoundsAssumption
  <2> QED
    BY <2>1, JobOne, NewRunType
       DEF Init, ActorTypeOK, Actors, Procs, RunPoints, ScanPoints, RequestPoints
<1>4. ReadTypeOK
  BY DEF Init, ReadTypeOK, Findings
<1> QED
  BY <1>1, <1>2, <1>3, <1>4 DEF TypeOK

(* claim_job: the attempt number grows only while the budget allows it.    *)
LEMMA ClaimType ==
  ASSUME TypeOK, NEW r \in Runs, NEW j \in Jobs, Claim(r, j)
  PROVE  TypeOK'
<1> USE DEF Claim, TypeOK, runVars
<1>1. CASE HasBudget(attempt[j])
  <2>1. attempt[j] + 1 \in 0 .. MaxAttempts
    BY <1>1, BoundsAssumption DEF JobTypeOK, HasBudget
  <2>2. MaterialTypeOK' /\ ReadTypeOK'
    BY <1>1, MaterialFrame, ReadFrame DEF materialVars
  <2>3. JobTypeOK'
    BY <1>1, <2>1 DEF JobTypeOK, JobStatus
  <2>4. \A a \in Actors : pc'[a] = IF a = r THEN "claimed" ELSE pc[a]
    BY <1>1 DEF ActorTypeOK
  <2>5. pc' \in [Actors -> RunPoints \cup ScanPoints \cup RequestPoints]
    BY <1>1 DEF ActorTypeOK, RunPoints
  <2>6. job' \in [Procs -> Jobs] /\ local' \in [Runs -> RunState]
    BY <1>1, NewRunType DEF ActorTypeOK
  <2>7. att' \in [Runs -> 0 .. MaxAttempts]
    BY <1>1, <2>1 DEF ActorTypeOK
  <2>8. ActorTypeOK'
    BY <2>4, <2>5, <2>6, <2>7, ActorsAssumption
       DEF ActorTypeOK, Actors, Procs, RunPoints
  <2> QED
    BY <2>2, <2>3, <2>8
<1>2. CASE ~HasBudget(attempt[j])
  <2>1. MaterialTypeOK' /\ ReadTypeOK'
    BY <1>2, SettleType, ReadFrame DEF ProcessingStatus
  <2>2. JobTypeOK'
    BY <1>2 DEF JobTypeOK, JobStatus
  <2>3. ActorTypeOK'
    BY <1>2 DEF ActorTypeOK
  <2> QED
    BY <2>1, <2>2, <2>3
<1> QED
  BY <1>1, <1>2

(* The steps of a claimed run.                                             *)
LEMMA WorkType ==
  ASSUME TypeOK, NEW r \in Runs, Work(r)
  PROVE  TypeOK'
<1> USE NewRunType DEF TypeOK, materialVars
<1>0. /\ \A b \in BOOLEAN : [NewRun EXCEPT !.saw = b] \in RunState
      /\ \A a \in {"fail", "idle", "resolve", "cancel"} :
           [NewRun EXCEPT !.after = a] \in RunState
      /\ \A b \in BOOLEAN : [RolledBack EXCEPT !.comp = b] \in RunState
  BY DEF RunState, RolledBack, NewRun
<1>1. CASE ReadMaterial(r)
  <2>1. MaterialTypeOK' /\ JobTypeOK' /\ ReadTypeOK'
    BY <1>1, MaterialFrame, JobFrame, ReadFrame DEF ReadMaterial
  <2>2. ActorTypeOK'
    BY <1>1, <1>0, MoveRun DEF ReadMaterial, RunPoints
  <2> QED
    BY <2>1, <2>2
<1>2. CASE Begin(r)
  <2>1. MaterialTypeOK' /\ JobTypeOK' /\ ReadTypeOK'
    BY <1>2, MaterialFrame, JobFrame, ReadFrame DEF Begin
  <2>2. ActorTypeOK'
    BY <1>2, <1>0, MoveRun DEF Begin, GiveUp, RunPoints
  <2> QED
    BY <2>1, <2>2
<1>3. CASE Downloaded(r)
  <2>1. JobTypeOK' /\ ReadTypeOK'
    BY <1>3, JobFrame, ReadFrame DEF Downloaded
  <2>2. MaterialTypeOK'
    BY <1>3 DEF Downloaded, MaterialTypeOK, ProcessingStatus, ownerVars, indexVars, leaseVars
  <2>3. ActorTypeOK'
    BY <1>3, <1>0, MoveRun DEF Downloaded, GiveUp, RunPoints
  <2> QED
    BY <2>1, <2>2, <2>3
<1>4. CASE Parsed(r)
  <2>1. MaterialTypeOK' /\ JobTypeOK' /\ ReadTypeOK'
    BY <1>4, MaterialFrame, JobFrame, ReadFrame DEF Parsed
  <2>2. ActorTypeOK'
    BY <1>4, <1>0, MoveRun DEF Parsed, GiveUp, RunPoints
  <2> QED
    BY <2>1, <2>2
<1>5. CASE FailBeforeIntent(r)
  <2>1. JobTypeOK' /\ ReadTypeOK'
    BY <1>5, JobFrame, ReadFrame DEF FailBeforeIntent
  <2>2. MaterialTypeOK'
    BY <1>5, SettleType DEF FailBeforeIntent, ProcessingStatus
  <2>3. ActorTypeOK'
    BY <1>5, <1>0, MoveRun DEF FailBeforeIntent, RunPoints
  <2> QED
    BY <2>1, <2>2, <2>3
<1>6. CASE SqlError(r)
  <2>1. MaterialTypeOK' /\ JobTypeOK' /\ ReadTypeOK'
    BY <1>6, MaterialFrame, JobFrame, ReadFrame DEF SqlError
  <2>2. ActorTypeOK'
    BY <1>6, <1>0, MoveRun DEF SqlError, RunPoints
  <2> QED
    BY <2>1, <2>2
<1>7. CASE CommitIntent(r)
  <2>1. JobTypeOK' /\ ReadTypeOK'
    BY <1>7, JobFrame, ReadFrame DEF CommitIntent
  <2>2. MaterialTypeOK'
    BY <1>7 DEF CommitIntent, MaterialTypeOK, ownerVars, leaseVars
  <2>3. ActorTypeOK'
    BY <1>7, <1>0, MoveRun DEF CommitIntent, RunPoints
  <2> QED
    BY <2>1, <2>2, <2>3
<1>8. CASE Index(r)
  <2>1. JobTypeOK' /\ ReadTypeOK'
    BY <1>8, JobFrame, ReadFrame DEF Index
  <2>2. MaterialTypeOK'
    BY <1>8 DEF Index, Owned, MaterialTypeOK, ownerVars, leaseVars
  <2>3. ActorTypeOK'
    BY <1>8, <1>0, MoveRun DEF Index, RunPoints
  <2> QED
    BY <2>1, <2>2, <2>3
<1>9. CASE IndexRefused(r)
  <2>1. MaterialTypeOK' /\ JobTypeOK' /\ ReadTypeOK'
    BY <1>9, MaterialFrame, JobFrame, ReadFrame DEF IndexRefused
  <2>2. ActorTypeOK'
    BY <1>9, <1>0, MoveRun DEF IndexRefused, RunPoints
  <2> QED
    BY <2>1, <2>2
<1>10. CASE IndexFails(r)
  <2>1. MaterialTypeOK' /\ JobTypeOK' /\ ReadTypeOK'
    BY <1>10, MaterialFrame, JobFrame, ReadFrame DEF IndexFails
  <2>2. ActorTypeOK'
    BY <1>10, <1>0, MoveRun DEF IndexFails, RunPoints
  <2> QED
    BY <2>1, <2>2
<1>11. CASE Publish(r)
  <2>1. JobTypeOK' /\ ReadTypeOK'
    BY <1>11, JobFrame, ReadFrame DEF Publish
  <2>2. MaterialTypeOK'
    BY <1>11, SettleType DEF Publish, ProcessingStatus
  <2>3. ActorTypeOK'
    BY <1>11, <1>0, MoveRun DEF Publish, RunPoints, MaterialTypeOK
  <2> QED
    BY <2>1, <2>2, <2>3
<1>12. CASE PublishFails(r)
  <2>1. MaterialTypeOK' /\ JobTypeOK' /\ ReadTypeOK'
    BY <1>12, MaterialFrame, JobFrame, ReadFrame DEF PublishFails
  <2>2. ActorTypeOK'
    BY <1>12, <1>0, MoveRun DEF PublishFails, RunPoints
  <2> QED
    BY <2>1, <2>2
<1>13. CASE Unindex(r)
  <2>1. JobTypeOK' /\ ReadTypeOK'
    BY <1>13, JobFrame, ReadFrame DEF Unindex
  <2>2. MaterialTypeOK'
    BY <1>13, SettleType DEF Unindex, ProcessingStatus
  <2>3. ActorTypeOK'
    BY <1>13, <1>0, MoveRun, ReturnType DEF Unindex, RunPoints
  <2> QED
    BY <2>1, <2>2, <2>3
<1>14. CASE Erase(r)
  <2>1. JobTypeOK' /\ ReadTypeOK'
    BY <1>14, JobFrame, ReadFrame DEF Erase
  <2>2. MaterialTypeOK'
    BY <1>14 DEF Erase, DeleteOwn, MaterialTypeOK, ProcessingStatus, ownerVars
  <2>3. ActorTypeOK'
    BY <1>14, <1>0, ReturnType DEF Erase
  <2> QED
    BY <2>1, <2>2, <2>3
<1>15. CASE UnindexFails(r)
  <2>1. MaterialTypeOK' /\ JobTypeOK' /\ ReadTypeOK'
    BY <1>15, MaterialFrame, JobFrame, ReadFrame DEF UnindexFails
  <2>2. ActorTypeOK'
    BY <1>15, <1>0, ReturnType DEF UnindexFails
  <2> QED
    BY <2>1, <2>2
<1>16. CASE Resolve(r)
  <2>1. MaterialTypeOK' /\ JobTypeOK' /\ ReadTypeOK'
    BY <1>16, MaterialFrame, JobFrame, ReadFrame DEF Resolve
  <2>2. ActorTypeOK'
    BY <1>16, <1>0, MoveRun DEF Resolve, RunPoints
  <2> QED
    BY <2>1, <2>2
<1>17. CASE MarkSucceeded(r)
  <2>1. ReadTypeOK'
    BY <1>17, ReadFrame DEF MarkSucceeded
  <2>2. MaterialTypeOK'
    BY <1>17, CommitCompKeeps, SettleType DEF MarkSucceeded, ProcessingStatus
  <2>3. JobTypeOK'
    BY <1>17, SetStatusType, JobFrame DEF MarkSucceeded, JobStatus, ActorTypeOK, Procs
  <2>4. ActorTypeOK'
    BY <1>17, StopRunType DEF MarkSucceeded
  <2> QED
    BY <2>1, <2>2, <2>3, <2>4
<1>18. CASE MarkCancelled(r)
  <2>1. ReadTypeOK'
    BY <1>18, ReadFrame DEF MarkCancelled
  <2>2. MaterialTypeOK'
    BY <1>18, CommitCompKeeps, SettleType DEF MarkCancelled, FailIfInFlight, ProcessingStatus
  <2>3. JobTypeOK'
    BY <1>18, SetStatusType, JobFrame DEF MarkCancelled, JobStatus, ActorTypeOK, Procs
  <2>4. ActorTypeOK'
    BY <1>18, StopRunType DEF MarkCancelled
  <2> QED
    BY <2>1, <2>2, <2>3, <2>4
<1>19. CASE MarkFailed(r)
  <2>1. ReadTypeOK'
    BY <1>19, ReadFrame DEF MarkFailed
  <2>2. MaterialTypeOK'
    BY <1>19, CommitCompKeeps, SettleType DEF MarkFailed, RefuseFailure, FailAfterReady, FailWithRows, FailWithoutRows, ProcessingStatus
  <2>3. JobTypeOK'
    BY <1>19, SetStatusType, RequeueType, JobFrame DEF MarkFailed, RefuseFailure, FailAfterReady, FailWithRows, FailWithoutRows,
       JobStatus, ActorTypeOK, Procs
  <2>4. ActorTypeOK'
    BY <1>19, StopRunType, MoveRun DEF MarkFailed, RefuseFailure, FailAfterReady, FailWithRows, FailWithoutRows, RunPoints
  <2> QED
    BY <2>1, <2>2, <2>3, <2>4
<1> QED
  BY <1>1, <1>2, <1>3, <1>4, <1>5, <1>6, <1>7, <1>8, <1>9, <1>10,
     <1>11, <1>12, <1>13, <1>14, <1>15, <1>16, <1>17, <1>18, <1>19 DEF Work

(* The cleanup of a failed index, by a run or by a scan.                   *)
LEMMA CleanupType ==
  ASSUME TypeOK, NEW p \in Procs, Cleanup(p)
  PROVE  TypeOK'
<1> USE DEF TypeOK, materialVars
<1>0. ASSUME NEW l \in {"finish", "idle"}, Goto(p, l) PROVE ActorTypeOK'
  <2>1. CASE p \in Runs
    BY <1>0, <2>1, MoveRun, NewRunType DEF RunPoints
  <2>2. CASE p \notin Runs
    <3>1. p \in Scanners /\ l \in ScanPoints
      BY <2>2 DEF Procs, ScanPoints
    <3>2. pc' = [pc EXCEPT ![p] = l] /\ job' = job /\ UNCHANGED <<att, local>>
      BY <1>0 DEF Goto, runVars
    <3> QED
      BY <3>1, <3>2, MoveScan, JobOne
  <2> QED
    BY <2>1, <2>2
<1>1. CASE CleanupIndex(p)
  <2>1. JobTypeOK' /\ ReadTypeOK'
    BY <1>1, JobFrame, ReadFrame DEF CleanupIndex
  <2>2. MaterialTypeOK'
    BY <1>1, SettleType DEF CleanupIndex, ProcessingStatus
  <2>3. ActorTypeOK'
    BY <1>1, <1>0 DEF CleanupIndex
  <2> QED
    BY <2>1, <2>2, <2>3
<1>2. CASE CleanupFails(p)
  <2>1. MaterialTypeOK' /\ JobTypeOK' /\ ReadTypeOK'
    BY <1>2, MaterialFrame, JobFrame, ReadFrame DEF CleanupFails
  <2>2. ActorTypeOK'
    BY <1>2, EndCleanupType DEF CleanupFails
  <2> QED
    BY <2>1, <2>2
<1>3. CASE FinishCleanup(p)
  <2>1. ReadTypeOK'
    BY <1>3, ReadFrame DEF FinishCleanup
  <2>2. MaterialTypeOK'
    BY <1>3, SettleType DEF FinishCleanup, ProcessingStatus
  <2>3. JobTypeOK'
    <3>1. job[p] \in Jobs /\ (p \in Scanners) \in BOOLEAN
      BY DEF ActorTypeOK
    <3>2. "succeeded" \in JobStatus /\ "failed" \in JobStatus
      BY DEF JobStatus
    <3> QED
      BY <1>3, <3>1, <3>2, SetStatusType, RequeueType, JobFrame
         DEF FinishCleanup
  <2>4. ActorTypeOK'
    BY <1>3, EndCleanupType DEF FinishCleanup
  <2> QED
    BY <2>1, <2>2, <2>3, <2>4
<1>4. CASE AbortFinish(p)
  <2>1. MaterialTypeOK' /\ JobTypeOK' /\ ReadTypeOK'
    BY <1>4, MaterialFrame, JobFrame, ReadFrame DEF AbortFinish
  <2>2. ActorTypeOK'
    BY <1>4, StopRunType, MoveScan, JobOne DEF AbortFinish, Procs, ScanPoints
  <2> QED
    BY <2>1, <2>2
<1> QED
  BY <1>1, <1>2, <1>3, <1>4 DEF Cleanup

(* The recovery cron.                                                      *)
LEMMA ScanType ==
  ASSUME TypeOK, NEW s \in Scanners, Scan(s)
  PROVE  TypeOK'
<1> USE DEF TypeOK, materialVars
<1>0. ASSUME NEW l \in ScanPoints, Goto(s, l) PROVE ActorTypeOK'
  BY <1>0, MoveScan, JobOne DEF Goto, runVars
<1>1. CASE ScanStart(s)
  <2>1. MaterialTypeOK' /\ JobTypeOK' /\ ReadTypeOK'
    BY <1>1, MaterialFrame, JobFrame, ReadFrame DEF ScanStart
  <2>2. ActorTypeOK'
    BY <1>1, <1>0 DEF ScanStart, ScanPoints
  <2> QED
    BY <2>1, <2>2
<1>2. ASSUME NEW j \in Jobs, Recover(s, j) PROVE TypeOK'
  <2>1. ReadTypeOK'
    BY <1>2, ReadFrame DEF Recover
  <2>2. MaterialTypeOK'
    BY <1>2, SettleType
       DEF Recover, RecoverClosed, RecoverAgain, RecoverFence, ProcessingStatus
  <2>3. JobTypeOK'
    BY <1>2, SetStatusType, RequeueType
       DEF Recover, RecoverClosed, RecoverAgain, RecoverFence, JobStatus
  <2>4. ActorTypeOK'
    BY <1>2, ActorFrame, MoveScan DEF Recover, ScanPoints
  <2> QED
    BY <2>1, <2>2, <2>3, <2>4
<1>3. CASE ListMaterial(s)
  <2>1. MaterialTypeOK' /\ JobTypeOK'
    BY <1>3, MaterialFrame, JobFrame DEF ListMaterial
  <2>2. ReadTypeOK'
    BY <1>3 DEF ListMaterial, Finding, Abandoned, ReadTypeOK, Findings
  <2>3. ActorTypeOK'
    BY <1>3, <1>0 DEF ListMaterial, ScanPoints
  <2> QED
    BY <2>1, <2>2, <2>3
<1>4. CASE ReapIndex(s)
  <2>1. JobTypeOK'
    BY <1>4, JobFrame DEF ReapIndex
  <2>2. MaterialTypeOK'
    BY <1>4 DEF ReapIndex, DeleteChunks, Settle, MaterialTypeOK, ProcessingStatus,
       ownerVars
  <2>3. ReadTypeOK'
    BY <1>4 DEF ReapIndex, EndScan, ReadTypeOK, Findings
  <2>4. ActorTypeOK'
    BY <1>4, <1>0 DEF ReapIndex, EndScan, ScanPoints
  <2> QED
    BY <2>1, <2>2, <2>3, <2>4
<1>5. CASE ReapDeleting(s)
  <2>1. JobTypeOK'
    BY <1>5, JobFrame DEF ReapDeleting
  <2>2. MaterialTypeOK'
    BY <1>5 DEF ReapDeleting, DeleteChunks, MaterialTypeOK, StorageStatus, leaseVars
  <2>3. ReadTypeOK'
    BY <1>5 DEF ReapDeleting, EndScan, ReadTypeOK, Findings
  <2>4. ActorTypeOK'
    BY <1>5, <1>0 DEF ReapDeleting, EndScan, ScanPoints
  <2> QED
    BY <2>1, <2>2, <2>3, <2>4
<1>6. CASE ReapNothing(s)
  <2>1. MaterialTypeOK' /\ JobTypeOK'
    BY <1>6, MaterialFrame, JobFrame DEF ReapNothing
  <2>2. ReadTypeOK'
    BY <1>6 DEF ReapNothing, EndScan, ReadTypeOK, Findings
  <2>3. ActorTypeOK'
    BY <1>6, <1>0 DEF ReapNothing, EndScan, ScanPoints
  <2> QED
    BY <2>1, <2>2, <2>3
<1>7. CASE CrashScan(s)
  <2>1. MaterialTypeOK' /\ JobTypeOK' /\ ReadTypeOK'
    BY <1>7, MaterialFrame, JobFrame, ReadFrame DEF CrashScan
  <2>2. ActorTypeOK'
    BY <1>7, MoveScan, JobOne DEF CrashScan, ScanPoints
  <2> QED
    BY <2>1, <2>2
<1> QED
  BY <1>1, <1>2, <1>3, <1>4, <1>5, <1>6, <1>7 DEF Scan

(* The requests.                                                           *)
LEMMA RequestType ==
  ASSUME TypeOK, NEW q \in Requests, Request(q)
  PROVE  TypeOK'
<1> USE DEF TypeOK, materialVars
<1>0. ASSUME NEW l \in RequestPoints, Goto(q, l) PROVE ActorTypeOK'
  BY <1>0, MoveRequest
<1>1. CASE Cancel(q)
  <2>1. ReadTypeOK'
    BY <1>1, ReadFrame DEF Cancel
  <2>2. MaterialTypeOK'
    BY <1>1, SettleType DEF Cancel, FailIfInFlight, ProcessingStatus
  <2>3. JobTypeOK'
    BY <1>1, SetStatusType DEF Cancel, JobStatus
  <2>4. ActorTypeOK'
    BY <1>1, <1>0 DEF Cancel, Answer, RequestPoints
  <2> QED
    BY <2>1, <2>2, <2>3, <2>4
<1>2. ASSUME NEW j \in Jobs, Retry(q, j) PROVE TypeOK'
  <2>1. ReadTypeOK'
    BY <1>2, ReadFrame DEF Retry
  <2>2. MaterialTypeOK'
    BY <1>2, SettleType DEF Retry, ProcessingStatus
  <2>3. JobTypeOK'
    BY <1>2, RequeueType DEF Retry
  <2>4. ActorTypeOK'
    BY <1>2, <1>0 DEF Retry, Answer, RequestPoints
  <2> QED
    BY <2>1, <2>2, <2>3, <2>4
<1>3. CASE ReprocessStart(q)
  <2>1. MaterialTypeOK'
    BY <1>3 DEF ReprocessStart, Settle, MaterialTypeOK, ProcessingStatus,
       ownerVars, indexVars
  <2>2. JobTypeOK'
    BY <1>3, CreateJobType, CancelledJobsType DEF ReprocessStart, JobTypeOK
  <2>3. ReadTypeOK'
    BY <1>3 DEF ReprocessStart, ReadTypeOK, MaterialTypeOK
  <2>4. ActorTypeOK'
    BY <1>3, <1>0 DEF ReprocessStart, Answer, RequestPoints
  <2> QED
    BY <2>1, <2>2, <2>3, <2>4
<1>4. CASE ReprocessFinish(q)
  <2>1. MaterialTypeOK'
    BY <1>4, SettleType DEF ReprocessFinish, ProcessingStatus
  <2>2. JobTypeOK'
    BY <1>4, CreateJobType DEF ReprocessFinish, JobTypeOK
  <2>3. ReadTypeOK'
    BY <1>4 DEF ReprocessFinish, ReadTypeOK
  <2>4. ActorTypeOK'
    BY <1>4, <1>0 DEF ReprocessFinish, Answer, RequestPoints
  <2> QED
    BY <2>1, <2>2, <2>3, <2>4
<1>5. CASE DeleteStart(q)
  <2>1. ReadTypeOK'
    BY <1>5, ReadFrame DEF DeleteStart
  <2>2. MaterialTypeOK'
    BY <1>5 DEF DeleteStart, MaterialTypeOK, StorageStatus, ProcessingStatus,
       indexVars
  <2>3. JobTypeOK'
    BY <1>5, CancelledJobsType DEF DeleteStart, JobTypeOK
  <2>4. ActorTypeOK'
    BY <1>5, <1>0 DEF DeleteStart, Answer, RequestPoints
  <2> QED
    BY <2>1, <2>2, <2>3, <2>4
<1>6. CASE DeleteFinish(q)
  <2>1. JobTypeOK' /\ ReadTypeOK'
    BY <1>6, JobFrame, ReadFrame DEF DeleteFinish
  <2>2. MaterialTypeOK'
    BY <1>6 DEF DeleteFinish, DeleteChunks, MaterialTypeOK, StorageStatus,
       leaseVars
  <2>3. ActorTypeOK'
    BY <1>6, <1>0 DEF DeleteFinish, Answer, RequestPoints
  <2> QED
    BY <2>1, <2>2, <2>3
<1>7. CASE RequestFails(q)
  <2>1. MaterialTypeOK' /\ JobTypeOK'
    BY <1>7, MaterialFrame, JobFrame DEF RequestFails
  <2>2. ReadTypeOK'
    BY <1>7 DEF RequestFails, ReadTypeOK
  <2>3. ActorTypeOK'
    BY <1>7, <1>0 DEF RequestFails, Answer, RequestPoints
  <2> QED
    BY <2>1, <2>2, <2>3
<1>8. CASE Freeze(q)
  <2>1. JobTypeOK' /\ ReadTypeOK'
    BY <1>8, JobFrame, ReadFrame DEF Freeze
  <2>2. MaterialTypeOK'
    BY <1>8 DEF Freeze, MaterialTypeOK, leaseVars, indexVars
  <2>3. ActorTypeOK'
    BY <1>8, <1>0 DEF Freeze, Answer, RequestPoints
  <2> QED
    BY <2>1, <2>2, <2>3
<1>9. CASE Thaw(q)
  <2>1. JobTypeOK' /\ ReadTypeOK'
    BY <1>9, JobFrame, ReadFrame DEF Thaw
  <2>2. MaterialTypeOK'
    BY <1>9 DEF Thaw, MaterialTypeOK, leaseVars, indexVars
  <2>3. ActorTypeOK'
    BY <1>9, <1>0 DEF Thaw, Answer, RequestPoints
  <2> QED
    BY <2>1, <2>2, <2>3
<1> QED
  BY <1>1, <1>2, <1>3, <1>4, <1>5, <1>6, <1>7, <1>8, <1>9 DEF Request

(* Time, Redis and crashes.                                                *)
LEMMA EnvironmentType ==
  ASSUME TypeOK, Environment
  PROVE  TypeOK'
<1> USE DEF TypeOK, materialVars
<1>1. CASE LeaseExpires
  <2>1. JobTypeOK' /\ ReadTypeOK'
    BY <1>1, JobFrame, ReadFrame DEF LeaseExpires
  <2>2. MaterialTypeOK'
    BY <1>1 DEF LeaseExpires, MaterialTypeOK, ownerVars, indexVars
  <2>3. ActorTypeOK'
    BY <1>1 DEF LeaseExpires, ActorTypeOK, runVars
  <2> QED
    BY <2>1, <2>2, <2>3
<1>2. ASSUME NEW j \in Jobs, BackoffElapses(j) PROVE TypeOK'
  <2>1. MaterialTypeOK' /\ ReadTypeOK'
    BY <1>2, MaterialFrame, ReadFrame DEF BackoffElapses
  <2>2. JobTypeOK'
    BY <1>2 DEF BackoffElapses, JobTypeOK
  <2>3. ActorTypeOK'
    BY <1>2 DEF BackoffElapses, ActorTypeOK, runVars
  <2> QED
    BY <2>1, <2>2, <2>3
<1>3. ASSUME NEW j \in Jobs, LoseWakeup(j) PROVE TypeOK'
  <2>1. MaterialTypeOK' /\ ReadTypeOK'
    BY <1>3, MaterialFrame, ReadFrame DEF LoseWakeup
  <2>2. JobTypeOK'
    BY <1>3 DEF LoseWakeup, JobTypeOK
  <2>3. ActorTypeOK'
    BY <1>3 DEF LoseWakeup, ActorTypeOK, runVars
  <2> QED
    BY <2>1, <2>2, <2>3
<1>4. ASSUME NEW r \in Runs, CrashRun(r) PROVE TypeOK'
  <2>1. MaterialTypeOK' /\ ReadTypeOK'
    BY <1>4, MaterialFrame, ReadFrame DEF CrashRun
  <2>2. JobTypeOK'
    BY <1>4 DEF CrashRun, JobTypeOK, ActorTypeOK, Procs
  <2>3. ActorTypeOK'
    BY <1>4, StopRunType DEF CrashRun
  <2> QED
    BY <2>1, <2>2, <2>3
<1> QED
  BY <1>1, <1>2, <1>3, <1>4 DEF Environment

(* Every variable keeps its type, for every value of the constants.        *)
THEOREM TypeCorrect == Spec => []TypeOK
<1>1. TypeOK /\ [Next]_vars => TypeOK'
  <2> SUFFICES ASSUME TypeOK, [Next]_vars PROVE TypeOK'
    OBVIOUS
  <2>1. CASE UNCHANGED vars
    BY <2>1 DEF vars, TypeOK, MaterialTypeOK, JobTypeOK, ActorTypeOK, ReadTypeOK
  <2> QED
    BY <2>1, ClaimType, WorkType, CleanupType, ScanType, RequestType,
       EnvironmentType DEF Next
<1> QED
  BY InitType, <1>1, PTL DEF Spec

-----------------------------------------------------------------------------
(* The index of the material.  Only the fenced indexing step adds an       *)
(* embedding, and only while the material is available; what turns a       *)
(* material into a tombstone deletes the rows in the same transaction.     *)

(* Among the steps of a run only Index writes embeddings.                  *)
LEMMA WorkEmbeds ==
  ASSUME NEW r \in Runs, Work(r)
  PROVE  (embedded' \subseteq embedded /\ storage' = storage) \/ Index(r)
<1> USE DEF ownerVars, materialVars, indexVars, DeleteOwn, CommitComp
<1>1. CASE \/ ReadMaterial(r) \/ Begin(r) \/ Downloaded(r) \/ Parsed(r) \/ FailBeforeIntent(r) \/ SqlError(r) \/ CommitIntent(r)
  BY <1>1 DEF ReadMaterial, Begin, Downloaded, Parsed, FailBeforeIntent, SqlError, CommitIntent
<1>2. CASE \/ IndexRefused(r) \/ IndexFails(r) \/ Publish(r) \/ PublishFails(r) \/ Unindex(r) \/ Erase(r) \/ UnindexFails(r) \/ Resolve(r)
  BY <1>2 DEF IndexRefused, IndexFails, Publish, PublishFails, Unindex, Erase, UnindexFails, Resolve
<1>3. CASE MarkSucceeded(r) \/ MarkCancelled(r)
  BY <1>3 DEF MarkSucceeded, MarkCancelled
<1>4. CASE MarkFailed(r)
  BY <1>4 DEF MarkFailed, RefuseFailure, FailAfterReady, FailWithRows,
              FailWithoutRows
<1> QED
  BY <1>1, <1>2, <1>3, <1>4 DEF Work

(* No request writes an embedding; a tombstone comes with an empty index.  *)
LEMMA RequestEmbeds ==
  ASSUME NEW q \in Requests, Request(q)
  PROVE  \/ embedded' = embedded /\ (storage' = storage \/ storage' = "deleting")
         \/ embedded' = {}
<1> USE DEF ownerVars, materialVars, indexVars, DeleteChunks
<1>1. CASE Cancel(q) \/ ReprocessStart(q) \/ DeleteStart(q) \/ RequestFails(q)
  BY <1>1 DEF Cancel, ReprocessStart, DeleteStart, RequestFails
<1>2. CASE ReprocessFinish(q) \/ DeleteFinish(q)
  BY <1>2 DEF ReprocessFinish, DeleteFinish
<1>3. ASSUME NEW j \in Jobs, Retry(q, j) PROVE embedded' = {}
  BY <1>3 DEF Retry
<1>4. CASE Freeze(q) \/ Thaw(q)
  BY <1>4 DEF Freeze, Thaw
<1> QED
  BY <1>1, <1>2, <1>3, <1>4 DEF Request

(* DeletedIsUnindexed is inductive.                                        *)
THEOREM DeletedStaysUnindexed == Spec => []DeletedIsUnindexed
<1>1. Init => DeletedIsUnindexed
  BY DEF Init, DeletedIsUnindexed
<1>2. DeletedIsUnindexed /\ [Next]_vars => DeletedIsUnindexed'
  <2> SUFFICES ASSUME DeletedIsUnindexed, [Next]_vars PROVE DeletedIsUnindexed'
    OBVIOUS
  <2> USE DEF DeletedIsUnindexed, ownerVars, materialVars, indexVars
  <2>1. ASSUME NEW r \in Runs, NEW j \in Jobs, Claim(r, j) PROVE DeletedIsUnindexed'
    BY <2>1 DEF Claim
  <2>2. ASSUME NEW r \in Runs, Work(r) PROVE DeletedIsUnindexed'
    <3>1. CASE Index(r)
      BY <3>1 DEF Index, Owned, Mine
    <3> QED
      BY <2>2, <3>1, WorkEmbeds
  <2>3. ASSUME NEW p \in Procs, Cleanup(p) PROVE DeletedIsUnindexed'
    BY <2>3 DEF Cleanup, CleanupIndex, CleanupFails, FinishCleanup, AbortFinish,
                DeleteChunks
  <2>4. ASSUME NEW s \in Scanners, Scan(s) PROVE DeletedIsUnindexed'
    BY <2>4 DEF Scan, ScanStart, Recover, ListMaterial, ReapIndex, ReapDeleting,
                ReapNothing, CrashScan, DeleteChunks
  <2>5. ASSUME NEW q \in Requests, Request(q) PROVE DeletedIsUnindexed'
    BY <2>5, RequestEmbeds
  <2>6. CASE Environment
    BY <2>6 DEF Environment, LeaseExpires, BackoffElapses, LoseWakeup, CrashRun
  <2>7. CASE UNCHANGED vars
    BY <2>7 DEF vars
  <2> QED
    BY <2>1, <2>2, <2>3, <2>4, <2>5, <2>6, <2>7 DEF Next
<1> QED
  BY <1>1, <1>2, PTL DEF Spec

(* OneAttemptIsFound is inductive given the types: whoever indexes has     *)
(* just compared the chunk rows with its own, and embeddings exist only on *)
(* chunk rows.                                                             *)
THEOREM OneAttemptIsIndexed == Spec => []OneAttemptIsFound
<1>1. Init => OneAttemptIsFound
  BY DEF Init, OneAttemptIsFound
<1>2. TypeOK /\ OneAttemptIsFound /\ [Next]_vars => OneAttemptIsFound'
  <2> SUFFICES ASSUME TypeOK, OneAttemptIsFound, [Next]_vars PROVE OneAttemptIsFound'
    OBVIOUS
  <2> USE DEF OneAttemptIsFound, materialVars, indexVars
  <2>1. ASSUME NEW r \in Runs, NEW j \in Jobs, Claim(r, j) PROVE OneAttemptIsFound'
    BY <2>1 DEF Claim
  <2>2. ASSUME NEW r \in Runs, Work(r) PROVE OneAttemptIsFound'
    <3>1. CASE Index(r)
      <4>1. embedded \subseteq {r} /\ embedded' = embedded \cup {r}
        BY <3>1 DEF Index, Owned, TypeOK, MaterialTypeOK
      <4> QED
        BY <4>1
    <3> QED
      BY <2>2, <3>1, WorkEmbeds
  <2>3. ASSUME NEW p \in Procs, Cleanup(p) PROVE OneAttemptIsFound'
    BY <2>3 DEF Cleanup, CleanupIndex, CleanupFails, FinishCleanup, AbortFinish,
                DeleteChunks
  <2>4. ASSUME NEW s \in Scanners, Scan(s) PROVE OneAttemptIsFound'
    BY <2>4 DEF Scan, ScanStart, Recover, ListMaterial, ReapIndex, ReapDeleting,
                ReapNothing, CrashScan, DeleteChunks
  <2>5. ASSUME NEW q \in Requests, Request(q) PROVE OneAttemptIsFound'
    BY <2>5, RequestEmbeds
  <2>6. CASE Environment
    BY <2>6 DEF Environment, LeaseExpires, BackoffElapses, LoseWakeup, CrashRun
  <2>7. CASE UNCHANGED vars
    BY <2>7 DEF vars
  <2> QED
    BY <2>1, <2>2, <2>3, <2>4, <2>5, <2>6, <2>7 DEF Next
<1> QED
  BY <1>1, <1>2, TypeCorrect, PTL DEF Spec

-----------------------------------------------------------------------------
(* The two fences.  OnlyRunningAttemptCanPublish is inductive given the    *)
(* types: a step either leaves nobody with the lease, or leaves the job    *)
(* and the attempt of whoever keeps it.                                    *)

NobodyMine == \A x \in Runs : ~Mine(x)

RunsKept ==
  \A x \in Runs : pc'[x] # "idle" => /\ pc[x] # "idle"
                                     /\ job'[x] = job[x] /\ att'[x] = att[x]

JobsKept ==
  \A j \in Jobs : \/ status'[j] = status[j] /\ attempt'[j] = attempt[j]
                  \/ status[j] \notin {"running", "succeeded"}
                  \/ status'[j] = "succeeded"

(* Where no lease can be used to publish, the fences agree.                *)
LEMMA NobodyPublishes ==
  ASSUME NobodyMine' PROVE OnlyRunningAttemptCanPublish'
BY DEF NobodyMine, OnlyRunningAttemptCanPublish

(* The fences agree after a step that takes nothing from a run.            *)
LEMMA FencesKept ==
  ASSUME TypeOK, OnlyRunningAttemptCanPublish, RunsKept, JobsKept,
         \A x \in Runs : Mine(x)' => Mine(x)
  PROVE  OnlyRunningAttemptCanPublish'
<1> SUFFICES ASSUME NEW x \in Runs, pc'[x] # "idle", Mine(x)'
             PROVE  (Holds(x) \/ status[job[x]] = "succeeded")'
  BY DEF OnlyRunningAttemptCanPublish
<1>1. Holds(x) \/ status[job[x]] = "succeeded"
  BY DEF OnlyRunningAttemptCanPublish, RunsKept
<1>2. job[x] \in Jobs
  BY DEF TypeOK, ActorTypeOK, Procs
<1> QED
  BY <1>1, <1>2 DEF RunsKept, JobsKept, Holds

LEMMA SettledIsNobodys ==
  ASSUME NEW s, Settle(s) PROVE NobodyMine'
BY ActorsAssumption DEF Settle, NobodyMine, Mine

LEMMA NotProcessingIsNobodys ==
  ASSUME proc' # "processing" \/ storage' # "available" PROVE NobodyMine'
BY DEF NobodyMine, Mine

(* The moves of the actors keep the runs.                                  *)
LEMMA MoveKeeps ==
  ASSUME TypeOK, NEW r \in Runs, pc[r] # "idle",
         NEW l \in RunPoints, NEW ls,
         \/ Goto(r, l)
         \/ GotoWith(r, l, ls)
         \/ StopRun(r)
         \/ Return(r, ls)
  PROVE  RunsKept
<1>1. \A x \in Runs \ {r} : /\ pc'[x] = pc[x] /\ job'[x] = job[x]
                            /\ att'[x] = att[x]
  BY DEF TypeOK, ActorTypeOK, Actors, Procs, Goto, GotoWith, StopRun, Return, runVars
<1>2. pc'[r] = "idle" \/ (job'[r] = job[r] /\ att'[r] = att[r])
  <2>1. CASE StopRun(r)
    BY <2>1 DEF TypeOK, ActorTypeOK, Actors, Procs, StopRun
  <2>2. CASE Goto(r, l) \/ GotoWith(r, l, ls)
    BY <2>2 DEF Goto, GotoWith, runVars
  <2>3. CASE Return(r, ls) /\ ~StopRun(r)
    BY <2>3 DEF Return, GotoWith
  <2> QED
    BY <2>1, <2>2, <2>3
<1> QED
  BY <1>1, <1>2 DEF RunsKept

LEMMA OtherMoveKeeps ==
  ASSUME TypeOK, NEW a \in Scanners \cup Requests, NEW l, NEW j,
         pc' = pc \/ pc' = [pc EXCEPT ![a] = l],
         job' = job \/ (a \in Scanners /\ job' = [job EXCEPT ![a] = j]),
         att' = att
  PROVE  RunsKept
<1>1. \A x \in Runs : pc'[x] = pc[x] /\ job'[x] = job[x]
  BY ActorsAssumption DEF TypeOK, ActorTypeOK, Actors, Procs
<1> QED
  BY <1>1 DEF RunsKept

LEMMA SetStatusKeeps ==
  ASSUME TypeOK, NEW j \in Jobs, NEW s, SetStatus(j, s),
         status[j] \notin {"running", "succeeded"} \/ s = "succeeded"
  PROVE  JobsKept
BY DEF TypeOK, JobTypeOK, SetStatus, JobsKept

LEMMA JobsUnchanged == ASSUME UNCHANGED jobVars PROVE JobsKept
BY DEF JobsKept, jobVars

LEMMA MineUnchanged ==
  ASSUME storage' = storage, UNCHANGED leaseVars
  PROVE  \A x \in Runs : Mine(x)' => Mine(x)
BY DEF leaseVars, Mine

LEMMA ClaimFences ==
  ASSUME TypeOK, OnlyRunningAttemptCanPublish,
         NEW r \in Runs, NEW j \in Jobs, Claim(r, j)
  PROVE  OnlyRunningAttemptCanPublish'
<1>1. CASE HasBudget(attempt[j])
  <2> SUFFICES ASSUME NEW x \in Runs, pc'[x] # "idle", Mine(x)'
               PROVE  (Holds(x) \/ status[job[x]] = "succeeded")'
    BY DEF OnlyRunningAttemptCanPublish
  <2>1. Mine(x) /\ x # r
    BY <1>1 DEF Claim, Mine, ownerVars, leaseVars
  <2>2. pc'[x] = pc[x] /\ job'[x] = job[x] /\ att'[x] = att[x]
    BY <1>1, <2>1 DEF Claim, TypeOK, ActorTypeOK, Actors, Procs
  <2>3. Holds(x) \/ status[job[x]] = "succeeded"
    BY <2>1, <2>2 DEF OnlyRunningAttemptCanPublish
  <2>4. job[x] \in Jobs /\ job[x] # j
    BY <2>3 DEF Claim, Holds, TypeOK, ActorTypeOK, Procs
  <2> QED
    BY <1>1, <2>2, <2>3, <2>4 DEF Claim, Holds, TypeOK, JobTypeOK
<1>2. CASE ~HasBudget(attempt[j])
  BY <1>2, SettledIsNobodys, NobodyPublishes DEF Claim
<1> QED
  BY <1>1, <1>2

LEMMA WorkFences ==
  ASSUME TypeOK, OnlyRunningAttemptCanPublish, NEW r \in Runs, Work(r)
  PROVE  OnlyRunningAttemptCanPublish'
<1> DEFINE Fenced == OnlyRunningAttemptCanPublish'
<1> USE DEF ownerVars, materialVars
<1>0. job[r] \in Jobs
  BY DEF TypeOK, ActorTypeOK, Procs
(* Steps that leave jobs and leases alone.                                 *)
<1>a. ASSUME RunsKept, UNCHANGED jobVars, UNCHANGED <<storage, leaseVars>>
      PROVE  Fenced
  BY <1>a, FencesKept, JobsUnchanged, MineUnchanged
(* Steps after which nobody has the lease.                                 *)
<1>b. ASSUME NEW s, Settle(s) PROVE Fenced
  BY <1>b, SettledIsNobodys, NobodyPublishes
<1>c. ASSUME proc' # "processing" PROVE Fenced
  BY <1>c, NotProcessingIsNobodys, NobodyPublishes
<1>1. CASE ReadMaterial(r)
  <2>1. RunsKept
    BY <1>1, MoveKeeps DEF ReadMaterial, RunPoints
  <2> QED
    BY <1>1, <2>1, <1>a DEF ReadMaterial
<1>2. CASE Begin(r)
  <2>1. RunsKept
    BY <1>2, MoveKeeps DEF Begin, GiveUp, RunPoints
  <2> QED
    BY <1>2, <2>1, <1>a DEF Begin
<1>3. CASE Downloaded(r)
  <2>1. CASE Holds(r)
    <3> SUFFICES ASSUME NEW x \in Runs, Mine(x)' PROVE Holds(x)'
      BY DEF OnlyRunningAttemptCanPublish
    <3>1. x = r
      BY <1>3, <2>1 DEF Downloaded, Mine
    <3> QED
      BY <1>3, <2>1, <3>1 DEF Downloaded, GotoWith, Holds, jobVars
  <2>2. CASE ~Holds(r)
    <3>1. RunsKept
      BY <1>3, <2>2, MoveKeeps DEF Downloaded, GiveUp, RunPoints
    <3> QED
      BY <1>3, <2>2, <3>1, <1>a DEF Downloaded
  <2> QED
    BY <2>1, <2>2
<1>4. CASE Parsed(r)
  <2>1. RunsKept
    BY <1>4, MoveKeeps DEF Parsed, GiveUp, RunPoints
  <2> QED
    BY <1>4, <2>1, <1>a DEF Parsed
<1>5. CASE FailBeforeIntent(r)
  BY <1>5, <1>b DEF FailBeforeIntent
<1>6. CASE SqlError(r)
  <2>1. RunsKept
    BY <1>6, MoveKeeps DEF SqlError, RunPoints
  <2> QED
    BY <1>6, <2>1, <1>a DEF SqlError
<1>7. CASE CommitIntent(r)
  <2>1. RunsKept
    BY <1>7, MoveKeeps DEF CommitIntent, RunPoints
  <2> QED
    BY <1>7, <2>1, <1>a DEF CommitIntent
<1>8. CASE Index(r)
  <2>1. RunsKept
    BY <1>8, MoveKeeps DEF Index, RunPoints
  <2> QED
    BY <1>8, <2>1, <1>a DEF Index
<1>9. CASE IndexRefused(r)
  <2>1. RunsKept
    BY <1>9, MoveKeeps DEF IndexRefused, RunPoints
  <2> QED
    BY <1>9, <2>1, <1>a DEF IndexRefused
<1>10. CASE IndexFails(r)
  <2>1. RunsKept
    BY <1>10, MoveKeeps DEF IndexFails, RunPoints
  <2> QED
    BY <1>10, <2>1, <1>a DEF IndexFails
<1>11. CASE Publish(r)
  <2>1. CASE Mine(r)
    BY <1>11, <2>1, <1>b DEF Publish
  <2>2. CASE ~Mine(r)
    <3>1. RunsKept
      BY <1>11, <2>2, MoveKeeps DEF Publish, RunPoints
    <3> QED
      BY <1>11, <2>2, <3>1, <1>a DEF Publish
  <2> QED
    BY <2>1, <2>2
<1>12. CASE PublishFails(r)
  <2>1. RunsKept
    BY <1>12, MoveKeeps DEF PublishFails, RunPoints
  <2> QED
    BY <1>12, <2>1, <1>a DEF PublishFails
<1>13. CASE Unindex(r)
  <2>1. CASE proc # "ready" /\ Mine(r)
    BY <1>13, <2>1, <1>b DEF Unindex
  <2>2. CASE ~(proc # "ready" /\ Mine(r))
    <3>1. RunsKept
      BY <1>13, <2>2, MoveKeeps DEF Unindex, RunPoints
    <3> QED
      BY <1>13, <2>2, <3>1, <1>a DEF Unindex
  <2> QED
    BY <2>1, <2>2
<1>14. CASE Erase(r)
  <2>1. RunsKept
    BY <1>14, MoveKeeps DEF Erase, RunPoints
  <2>2. \A x \in Runs : Mine(x)' => Mine(x)
    BY <1>14 DEF Erase, Mine
  <2> QED
    BY <1>14, <2>1, <2>2, FencesKept, JobsUnchanged DEF Erase
<1>15. CASE UnindexFails(r)
  <2>1. RunsKept
    BY <1>15, MoveKeeps DEF UnindexFails, RunPoints
  <2> QED
    BY <1>15, <2>1, <1>a DEF UnindexFails
<1>16. CASE Resolve(r)
  <2>1. RunsKept
    BY <1>16, MoveKeeps DEF Resolve, RunPoints
  <2> QED
    BY <1>16, <2>1, <1>a DEF Resolve
<1>17. CASE MarkSucceeded(r)
  <2>1. RunsKept
    BY <1>17, MoveKeeps DEF MarkSucceeded, RunPoints
  <2>2. JobsKept
    BY <1>17, <1>0, SetStatusKeeps, JobsUnchanged DEF MarkSucceeded
  <2>3. \A x \in Runs : Mine(x)' => Mine(x)
    BY <1>17, MineUnchanged DEF MarkSucceeded
  <2> QED
    BY <2>1, <2>2, <2>3, FencesKept
<1>18. CASE MarkCancelled(r)
  <2>1. CASE Holds(r)
    BY <1>18, <2>1, <1>b, <1>c DEF MarkCancelled, FailIfInFlight, leaseVars
  <2>2. CASE ~Holds(r)
    <3>1. RunsKept
      BY <1>18, MoveKeeps DEF MarkCancelled, RunPoints
    <3> QED
      BY <1>18, <2>2, <3>1, <1>a DEF MarkCancelled
  <2> QED
    BY <2>1, <2>2
<1>19. CASE MarkFailed(r)
  <2>1. CASE RefuseFailure(r)
    <3>1. RunsKept
      BY <1>19, <2>1, MoveKeeps DEF MarkFailed, RefuseFailure, RunPoints
    <3> QED
      BY <1>19, <2>1, <3>1, <1>a DEF MarkFailed, RefuseFailure
  <2>2. CASE FailAfterReady(r)
    BY <2>2, <1>c DEF FailAfterReady, leaseVars
  <2>3. CASE FailWithRows(r) \/ FailWithoutRows(r)
    BY <2>3, <1>b DEF FailWithRows, FailWithoutRows
  <2> QED
    BY <1>19, <2>1, <2>2, <2>3 DEF MarkFailed
<1> QED
  BY <1>1, <1>2, <1>3, <1>4, <1>5, <1>6, <1>7, <1>8, <1>9, <1>10,
     <1>11, <1>12, <1>13, <1>14, <1>15, <1>16, <1>17, <1>18, <1>19 DEF Work

LEMMA CleanupFences ==
  ASSUME TypeOK, OnlyRunningAttemptCanPublish, NEW p \in Procs, Cleanup(p)
  PROVE  OnlyRunningAttemptCanPublish'
<1> USE DEF ownerVars, materialVars
<1>0. pc[p] # "idle" /\ (p \in Runs \/ p \in Scanners)
  BY DEF Cleanup, CleanupIndex, CleanupFails, FinishCleanup, AbortFinish, Procs
<1>a. ASSUME RunsKept, UNCHANGED jobVars, UNCHANGED <<storage, leaseVars>>
      PROVE  OnlyRunningAttemptCanPublish'
  BY <1>a, FencesKept, JobsUnchanged, MineUnchanged
<1>b. ASSUME EndCleanup(p) PROVE RunsKept
  <2>1. CASE p \in Runs
    BY <1>0, <1>b, <2>1, MoveKeeps DEF EndCleanup, RunPoints
  <2>2. CASE p \notin Runs
    BY <1>0, <1>b, <2>2, OtherMoveKeeps DEF EndCleanup
  <2> QED
    BY <2>1, <2>2
<1>1. CASE CleanupIndex(p)
  <2>1. CASE p \in Runs
    BY <1>0, <1>1, <2>1, <1>a, MoveKeeps DEF CleanupIndex, RunPoints
  <2>2. CASE p \in Scanners
    <3>1. RunsKept
      BY <1>1, <2>2, OtherMoveKeeps DEF CleanupIndex, Goto, runVars
    <3> QED
      BY <1>1, <3>1, <1>a DEF CleanupIndex
  <2> QED
    BY <1>0, <2>1, <2>2
<1>2. CASE CleanupFails(p)
  BY <1>2, <1>a, <1>b DEF CleanupFails
<1>3. CASE FinishCleanup(p)
  <2>1. CASE Finishable(p)
    BY <1>3, <2>1, SettledIsNobodys, NobodyPublishes DEF FinishCleanup
  <2>2. CASE ~Finishable(p)
    BY <1>3, <2>2, <1>a, <1>b DEF FinishCleanup
  <2> QED
    BY <2>1, <2>2
<1>4. CASE AbortFinish(p)
  <2>1. CASE p \in Runs
    BY <1>0, <1>4, <2>1, <1>a, MoveKeeps DEF AbortFinish, RunPoints
  <2>2. CASE p \notin Runs
    <3>1. RunsKept
      BY <1>0, <1>4, <2>2, OtherMoveKeeps DEF AbortFinish
    <3> QED
      BY <1>4, <3>1, <1>a DEF AbortFinish
  <2> QED
    BY <2>1, <2>2
<1> QED
  BY <1>1, <1>2, <1>3, <1>4 DEF Cleanup

LEMMA ScanFences ==
  ASSUME TypeOK, OnlyRunningAttemptCanPublish, NEW s \in Scanners, Scan(s)
  PROVE  OnlyRunningAttemptCanPublish'
<1> USE DEF ownerVars, materialVars
<1>0. RunsKept
  BY OtherMoveKeeps
     DEF Scan, ScanStart, Recover, ListMaterial, ReapIndex, ReapDeleting,
         ReapNothing, CrashScan, EndScan, Goto, runVars
<1>a. ASSUME UNCHANGED jobVars, \A x \in Runs : Mine(x)' => Mine(x)
      PROVE  OnlyRunningAttemptCanPublish'
  BY <1>0, <1>a, FencesKept, JobsUnchanged
<1>b. ASSUME NEW t, Settle(t) PROVE OnlyRunningAttemptCanPublish'
  BY <1>b, SettledIsNobodys, NobodyPublishes
<1>1. CASE ScanStart(s) \/ ListMaterial(s) \/ ReapNothing(s) \/ CrashScan(s)
  BY <1>1, <1>a, MineUnchanged DEF ScanStart, ListMaterial, ReapNothing, CrashScan
<1>2. ASSUME NEW j \in Jobs, Recover(s, j) PROVE OnlyRunningAttemptCanPublish'
  <2>1. CASE storage # "available"
    BY <1>2, <2>1, NotProcessingIsNobodys, NobodyPublishes DEF Recover
  <2>2. CASE storage = "available"
    BY <1>2, <2>2, <1>b DEF Recover, RecoverClosed, RecoverAgain, RecoverFence
  <2> QED
    BY <2>1, <2>2
<1>3. CASE ReapIndex(s)
  <2>1. CASE Settle("failed")
    BY <2>1, <1>b
  <2>2. CASE ~Settle("failed")
    <3>1. UNCHANGED <<storage, lease>> /\ (proc' = proc \/ proc' # "processing")
      BY <1>3, <2>2 DEF ReapIndex
    <3> QED
      BY <1>3, <3>1, <1>a DEF ReapIndex, Mine
  <2> QED
    BY <2>1, <2>2
<1>4. CASE ReapDeleting(s)
  BY <1>4, NotProcessingIsNobodys, NobodyPublishes DEF ReapDeleting
<1> QED
  BY <1>1, <1>2, <1>3, <1>4 DEF Scan

LEMMA RequestFences ==
  ASSUME TypeOK, OnlyRunningAttemptCanPublish, NEW q \in Requests, Request(q)
  PROVE  OnlyRunningAttemptCanPublish'
<1> USE DEF ownerVars, materialVars
<1>a. ASSUME NEW l, Goto(q, l), UNCHANGED jobVars,
             storage' = storage, UNCHANGED leaseVars
      PROVE  OnlyRunningAttemptCanPublish'
  <2>1. RunsKept
    BY <1>a, OtherMoveKeeps DEF Goto, runVars
  <2> QED
    BY <1>a, <2>1, FencesKept, JobsUnchanged, MineUnchanged
<1>b. ASSUME NEW t, Settle(t) PROVE OnlyRunningAttemptCanPublish'
  BY <1>b, SettledIsNobodys, NobodyPublishes
<1>c. ASSUME proc' # "processing" \/ storage' # "available"
      PROVE  OnlyRunningAttemptCanPublish'
  BY <1>c, NotProcessingIsNobodys, NobodyPublishes
<1>1. CASE Cancel(q)
  BY <1>1, <1>b, <1>c DEF Cancel, FailIfInFlight, leaseVars
<1>2. ASSUME NEW j \in Jobs, Retry(q, j) PROVE OnlyRunningAttemptCanPublish'
  BY <1>2, <1>b DEF Retry
<1>3. CASE ReprocessStart(q)
  <2>1. CASE chunks = {}
    BY <1>3, <2>1, <1>b DEF ReprocessStart
  <2>2. CASE chunks # {}
    <3>1. lease' = q
      BY <1>3, <2>2 DEF ReprocessStart
    <3>2. NobodyMine'
      BY <3>1, ActorsAssumption DEF NobodyMine, Mine
    <3> QED
      BY <3>2, NobodyPublishes
  <2> QED
    BY <2>1, <2>2
<1>4. CASE ReprocessFinish(q)
  BY <1>4, <1>b DEF ReprocessFinish
<1>5. CASE DeleteStart(q) \/ DeleteFinish(q)
  BY <1>5, <1>c DEF DeleteStart, DeleteFinish
<1>6. CASE RequestFails(q) \/ Freeze(q) \/ Thaw(q)
  BY <1>6, <1>a DEF RequestFails, Freeze, Thaw, Answer
<1> QED
  BY <1>1, <1>2, <1>3, <1>4, <1>5, <1>6 DEF Request

LEMMA EnvironmentFences ==
  ASSUME TypeOK, OnlyRunningAttemptCanPublish, Environment
  PROVE  OnlyRunningAttemptCanPublish'
<1>1. RunsKept
  <2>1. ASSUME NEW r \in Runs, CrashRun(r) PROVE RunsKept
    BY <2>1, MoveKeeps DEF CrashRun, RunPoints
  <2> QED
    BY <2>1 DEF Environment, LeaseExpires, BackoffElapses, LoseWakeup, RunsKept,
                runVars
<1>2. JobsKept
  BY DEF Environment, LeaseExpires, BackoffElapses, LoseWakeup, CrashRun, JobsKept,
         jobVars
<1>3. \A x \in Runs : Mine(x)' => Mine(x)
  BY DEF Environment, LeaseExpires, BackoffElapses, LoseWakeup, CrashRun, Mine,
         ownerVars, materialVars, leaseVars
<1> QED
  BY <1>1, <1>2, <1>3, FencesKept

(* OnlyRunningAttemptCanPublish holds for every number of jobs, workers,   *)
(* scans and requests, even if processes stall.                            *)
THEOREM FencesAgree == Spec => []OnlyRunningAttemptCanPublish
<1>1. Init => OnlyRunningAttemptCanPublish
  BY DEF Init, OnlyRunningAttemptCanPublish, Mine
<1>2. TypeOK /\ OnlyRunningAttemptCanPublish /\ [Next]_vars
        => OnlyRunningAttemptCanPublish'
  <2> SUFFICES ASSUME TypeOK, OnlyRunningAttemptCanPublish, [Next]_vars
               PROVE  OnlyRunningAttemptCanPublish'
    OBVIOUS
  <2>1. CASE UNCHANGED vars
    BY <2>1 DEF vars, OnlyRunningAttemptCanPublish, Mine, Holds
  <2> QED
    BY <2>1, ClaimFences, WorkFences, CleanupFences, ScanFences, RequestFences,
       EnvironmentFences DEF Next
<1> QED
  BY <1>1, <1>2, TypeCorrect, PTL DEF Spec

=============================================================================
