--------------------- MODULE MaterialJobsInTime_proofs ---------------------
(***************************************************************************)
(* Proofs about MaterialJobs when no process outlives the time limits      *)
(* (~Stalls), for any number of jobs, attempts, runs, scans and requests,  *)
(* and whichever processes crash where.  Any number of runs, cleanups and  *)
(* scans are at work on the material at the same time.                     *)
(***************************************************************************)
EXTENDS MaterialJobs_proofs

-----------------------------------------------------------------------------
(* The inductive invariant.                                                *)

Working(r) == pc[r] \notin {"idle", "clean", "finish"}

(* The job a run works on is still its own, at the attempt it has claimed, *)
(* or has been cancelled; nobody closes, queues or claims it meanwhile.    *)
JobIsHeld ==
  \A r \in Runs : Working(r) => /\ att[r] = attempt[job[r]]
                                /\ status[job[r]] \in {"running", "cancelled"}

(* However many runs are at work, no two of them are on the same job.      *)
OneHolder ==
  \A r1, r2 \in Runs : Working(r1) /\ Working(r2) /\ job[r1] = job[r2] => r1 = r2

FreshIsUntried == \A j \in Jobs : status[j] = "none" => attempt[j] = 0

(* A request that rebuilds the index has cancelled every job, and whoever  *)
(* queues one takes the lease away.                                        *)
RebuildHasNoJob == lease \in Requests => LiveJobs = {}

(* A job that is about to succeed is not what a PENDING material waits for.*)
Awaited(j) == Live(j) /\ \A r \in Runs : pc[r] = "succeed" => job[r] # j

PendingIsAwaited ==
  storage = "available" /\ proc = "pending" => \E j \in Jobs : Awaited(j)

HoldInv == JobIsHeld /\ OneHolder
JobsInv == FreshIsUntried /\ QueuedHasBudget
PendingInv == RebuildHasNoJob /\ PendingIsAwaited
InTimeInv == HoldInv /\ JobsInv /\ PendingInv

-----------------------------------------------------------------------------
(* Who moves.                                                              *)

(* A run that moves leaves the others where they are, and keeps its job    *)
(* unless it stops.                                                        *)
Moves(r) ==
  /\ \A x \in Runs \ {r} : pc'[x] = pc[x] /\ job'[x] = job[x] /\ att'[x] = att[x]
  /\ pc'[r] = "idle" \/ (job'[r] = job[r] /\ att'[r] = att[r])

LEMMA OnlyRunMoves ==
  ASSUME ActorTypeOK, NEW r \in Runs,
         \/ StopRun(r)
         \/ \E l : Goto(r, l)
         \/ \E l, ls : GotoWith(r, l, ls)
  PROVE  Moves(r)
BY DEF ActorTypeOK, StopRun, Goto, GotoWith, runVars, Actors, Procs, Moves

(* Time and Redis, without the crash of a run.                             *)
Elapse ==
  \/ LeaseExpires
  \/ \E j \in Jobs : BackoffElapses(j) \/ LoseWakeup(j)

LEMMA NextType == ASSUME TypeOK, Next PROVE TypeOK'
BY ClaimType, WorkType, CleanupType, ScanType, RequestType, EnvironmentType DEF Next

(* The steps by who takes them.                                            *)
LEMMA NextActors ==
  ASSUME Next
  PROVE  \/ \E r \in Runs, j \in Jobs : Claim(r, j)
         \/ \E r \in Runs : Work(r) \/ Cleanup(r) \/ CrashRun(r)
         \/ \E s \in Scanners : Scan(s) \/ Cleanup(s)
         \/ \E q \in Requests : Request(q)
         \/ Elapse
<1>1. Environment => Elapse \/ \E r \in Runs : CrashRun(r)
  BY DEF Environment, Elapse
<1> QED
  BY <1>1 DEF Next, Procs

(* A run at work after a step other than a claim was so before, on the     *)
(* same job; only a READY material lets it go on to mark success.          *)
RunsStay ==
  \A x \in Runs :
    /\ Working(x)' => Working(x) /\ job'[x] = job[x] /\ att'[x] = att[x]
    /\ pc'[x] = "succeed" => pc[x] = "succeed" \/ proc' = "ready"

(* It goes on only if its step has left the jobs alone.                    *)
LEMMA RunStays ==
  ASSUME TypeOK, NEW r \in Runs, Work(r) \/ Cleanup(r) \/ CrashRun(r)
  PROVE  /\ RunsStay
         /\ Working(r)' => UNCHANGED <<status, attempt>>
         /\ pc[r] # "idle"
<1> USE DEF TypeOK, ActorTypeOK
<1>0. pc \in [Actors -> RunPoints \cup ScanPoints \cup RequestPoints] /\ r \in Actors
  BY DEF Actors, Procs
<1>1. /\ Moves(r) /\ pc[r] # "idle"
      /\ pc'[r] \in {"idle", "clean", "finish"} \/ (Working(r) /\ UNCHANGED <<status, attempt>>)
      /\ pc'[r] = "succeed" => proc' = "ready"
  <2> USE <1>0, OnlyRunMoves DEF Working
  <2>1. CASE ReadMaterial(r) \/ Begin(r) \/ Downloaded(r) \/ Parsed(r) \/ FailBeforeIntent(r)
    BY <2>1 DEF ReadMaterial, Begin, Downloaded, Parsed, FailBeforeIntent, GiveUp, Goto, GotoWith,
                jobVars
  <2>2. CASE SqlError(r) \/ CommitIntent(r) \/ Index(r) \/ IndexRefused(r) \/ IndexFails(r)
    BY <2>2 DEF SqlError, CommitIntent, Index, IndexRefused, IndexFails, Goto, GotoWith, jobVars
  <2>3. CASE Publish(r) \/ PublishFails(r)
    BY <2>3 DEF Publish, PublishFails, Goto, GotoWith, jobVars
  <2>4. CASE Resolve(r)
    BY <2>4 DEF Resolve, Goto, jobVars, materialVars, leaseVars
  <2>5. CASE Unindex(r) \/ Erase(r) \/ UnindexFails(r)
    <3>1. Working(r) /\ UNCHANGED <<status, attempt>> /\ local[r].after # "succeed"
      BY <2>5 DEF Unindex, Erase, UnindexFails, RunState, jobVars
    <3>2. StopRun(r) \/ Goto(r, "erase") \/ \E ls : GotoWith(r, local[r].after, ls)
      BY <2>5 DEF Unindex, Erase, UnindexFails, Return
    <3> QED
      BY <3>1, <3>2 DEF StopRun, Goto, GotoWith
  <2>6. CASE MarkSucceeded(r) \/ MarkCancelled(r) \/ CrashRun(r)
    BY <2>6 DEF MarkSucceeded, MarkCancelled, CrashRun, StopRun
  <2>7. CASE MarkFailed(r)
    <3>1. StopRun(r) \/ GotoWith(r, "clean", NewRun)
      BY <2>7 DEF MarkFailed, RefuseFailure, FailAfterReady, FailWithRows, FailWithoutRows
    <3> QED
      BY <2>7, <3>1 DEF StopRun, GotoWith, MarkFailed
  <2>8. CASE Cleanup(r)
    BY <2>8 DEF Cleanup, CleanupIndex, CleanupFails, FinishCleanup, AbortFinish,
                EndCleanup, Goto, StopRun
  <2> QED
    BY <2>1, <2>2, <2>3, <2>4, <2>5, <2>6, <2>7, <2>8 DEF Work
<1> QED
  BY <1>1 DEF RunsStay, Moves, Working

(* Scans, requests, time and Redis move no run.                            *)
LEMMA OthersStay ==
  ASSUME TypeOK, \A x \in Runs : pc'[x] = pc[x] /\ job'[x] = job[x] /\ att'[x] = att[x]
  PROVE  RunsStay
BY DEF RunsStay, Working

LEMMA ScanStays ==
  ASSUME TypeOK, NEW s \in Scanners, Scan(s) \/ Cleanup(s)
  PROVE  RunsStay
<1> USE ActorsAssumption, OthersStay
    DEF TypeOK, ActorTypeOK, Goto, runVars, Procs, Actors
<1>1. CASE CleanupIndex(s) \/ CleanupFails(s) \/ FinishCleanup(s) \/ AbortFinish(s) \/ CrashScan(s)
  BY <1>1 DEF CleanupIndex, CleanupFails, FinishCleanup, AbortFinish, CrashScan, EndCleanup
<1>2. CASE ReapIndex(s) \/ ReapDeleting(s) \/ ReapNothing(s) \/ ScanStart(s) \/ ListMaterial(s)
  BY <1>2 DEF ReapIndex, ReapDeleting, ReapNothing, EndScan, ScanStart, ListMaterial
<1>3. ASSUME NEW j \in Jobs, Recover(s, j) PROVE RunsStay
  BY <1>3 DEF Recover
<1> QED
  BY <1>1, <1>2, <1>3 DEF Scan, Cleanup

LEMMA RequestStays ==
  ASSUME TypeOK, NEW q \in Requests, Request(q)
  PROVE  RunsStay
<1> USE ActorsAssumption, OthersStay
    DEF TypeOK, ActorTypeOK, Answer, Goto, runVars, Procs, Actors
<1>1. CASE Cancel(q) \/ \E j \in Jobs : Retry(q, j)
  BY <1>1 DEF Cancel, Retry
<1>2. CASE ReprocessStart(q) \/ ReprocessFinish(q)
  BY <1>2 DEF ReprocessStart, ReprocessFinish
<1>3. CASE DeleteStart(q) \/ DeleteFinish(q) \/ RequestFails(q)
  BY <1>3 DEF DeleteStart, DeleteFinish, RequestFails
<1>4. CASE Freeze(q) \/ Thaw(q)
  BY <1>4 DEF Freeze, Thaw
<1> QED
  BY <1>1, <1>2, <1>3, <1>4 DEF Request

LEMMA ElapseLeaves ==
  ASSUME TypeOK, Elapse
  PROVE  RunsStay /\ UNCHANGED <<storage, proc, lease, status, attempt>>
BY OthersStay DEF Elapse, LeaseExpires, BackoffElapses, LoseWakeup, runVars, ownerVars, materialVars,
       leaseVars, jobVars

-----------------------------------------------------------------------------
(* The jobs.  Each way of rewriting a row leaves every queued job its      *)
(* budget and every job that does not exist yet untried.                   *)

LEMMA SameJobs == ASSUME JobsInv, UNCHANGED <<status, attempt>> PROVE JobsInv'
BY DEF JobsInv, FreshIsUntried, QueuedHasBudget

LEMMA CloseJob ==
  ASSUME JobTypeOK, JobsInv, NEW j \in Jobs, NEW s \in {"succeeded", "failed", "cleanup", "cancelled"},
         SetStatus(j, s)
  PROVE  JobsInv'
BY DEF JobTypeOK, JobsInv, FreshIsUntried, QueuedHasBudget, SetStatus

LEMMA QueueJob ==
  ASSUME JobTypeOK, JobsInv, NEW j \in Jobs, NEW now, Requeue(j, now),
         \/ attempt' = attempt /\ attempt[j] < MaxAttempts
         \/ attempt' = [attempt EXCEPT ![j] = 0]
  PROVE  JobsInv'
BY BoundsAssumption DEF JobTypeOK, JobsInv, FreshIsUntried, QueuedHasBudget, Requeue

LEMMA CancelJobs ==
  ASSUME JobTypeOK, JobsInv, status' = CancelledJobs, attempt' = attempt
  PROVE  JobsInv'
BY DEF JobTypeOK, JobsInv, FreshIsUntried, QueuedHasBudget, CancelledJobs, Live

LEMMA NextJob ==
  ASSUME JobTypeOK, JobsInv, NEW st \in {status, CancelledJobs}, CreateJob(st)
  PROVE  JobsInv'
<1>1. /\ st \in [Jobs -> JobStatus]
      /\ \A j \in Jobs : st[j] = status[j] \/ (Live(j) /\ st[j] = "cancelled")
  BY CancelledJobsType DEF JobTypeOK, CancelledJobs
<1>2. attempt' = attempt
  BY DEF CreateJob
<1>3. CASE status' = st
  BY <1>1, <1>2, <1>3 DEF JobsInv, FreshIsUntried, QueuedHasBudget, Live
<1>4. ASSUME NEW j \in Jobs, Fresh(j), status' = [st EXCEPT ![j] = "queued"]
      PROVE  JobsInv'
  <2>1. status[j] = "none" /\ attempt[j] = 0
    BY <1>4 DEF Fresh, JobsInv, FreshIsUntried
  <2> QED
    BY <1>1, <1>2, <1>4, <2>1, BoundsAssumption
       DEF JobsInv, FreshIsUntried, QueuedHasBudget, Live
<1> QED
  BY <1>3, <1>4 DEF CreateJob

LEMMA ClaimJobs ==
  ASSUME TypeOK, JobsInv, NEW r \in Runs, NEW j \in Jobs, Claim(r, j)
  PROVE  JobsInv'
<1> USE DEF TypeOK, JobTypeOK, JobsInv, FreshIsUntried, QueuedHasBudget
<1>1. HasBudget(attempt[j])
  BY DEF Claim, HasBudget
<1>2. /\ status' = [status EXCEPT ![j] = "running"]
      /\ attempt' = [attempt EXCEPT ![j] = @ + 1]
  BY <1>1 DEF Claim
<1> QED
  BY <1>1, <1>2, BoundsAssumption DEF HasBudget

LEMMA WorkJobs ==
  ASSUME TypeOK, JobsInv, JobIsHeld, NEW r \in Runs, Work(r)
  PROVE  JobsInv'
<1> USE DEF TypeOK
<1>0. job[r] \in Jobs
  BY DEF ActorTypeOK, Procs
<1>1. CASE UNCHANGED jobVars
  BY <1>1, SameJobs DEF jobVars
<1>2. CASE MarkSucceeded(r) \/ MarkCancelled(r)
  BY <1>0, <1>1, <1>2, CloseJob DEF MarkSucceeded, MarkCancelled
<1>3. CASE MarkFailed(r)
  <2>1. CASE RefuseFailure(r)
    BY <2>1, <1>1 DEF RefuseFailure
  <2>2. CASE FailAfterReady(r) \/ FailWithRows(r)
    BY <2>2, <1>0, CloseJob DEF FailAfterReady, FailWithRows
  <2>3. CASE FailWithoutRows(r)
    <3>1. CASE HasBudget(att[r])
      <4>1. attempt[job[r]] < MaxAttempts
        BY <1>3, <3>1 DEF MarkFailed, HasBudget, JobIsHeld, Working
      <4> QED
        BY <2>3, <3>1, <4>1, <1>0, QueueJob DEF FailWithoutRows
    <3>2. CASE ~HasBudget(att[r])
      BY <2>3, <3>2, <1>0, CloseJob DEF FailWithoutRows
    <3> QED
      BY <3>1, <3>2
  <2> QED
    BY <1>3, <2>1, <2>2, <2>3 DEF MarkFailed
<1>4. CASE ReadMaterial(r) \/ Begin(r) \/ Downloaded(r) \/ Parsed(r) \/ FailBeforeIntent(r)
             \/ SqlError(r) \/ CommitIntent(r) \/ Index(r) \/ IndexRefused(r) \/ IndexFails(r)
             \/ Publish(r) \/ PublishFails(r) \/ Unindex(r) \/ Erase(r) \/ UnindexFails(r)
             \/ Resolve(r)
  BY <1>1, <1>4 DEF ReadMaterial, Begin, Downloaded, Parsed, FailBeforeIntent, SqlError,
     CommitIntent, Index, IndexRefused, IndexFails, Publish, PublishFails, Unindex, Erase,
     UnindexFails, Resolve
<1> QED
  BY <1>2, <1>3, <1>4 DEF Work

LEMMA CleanupJobs ==
  ASSUME TypeOK, JobsInv, NEW p \in Procs, Cleanup(p)
  PROVE  JobsInv'
<1> USE DEF TypeOK
<1>0. job[p] \in Jobs
  BY DEF ActorTypeOK
<1>1. CASE UNCHANGED jobVars
  BY <1>1, SameJobs DEF jobVars
<1>2. CASE CleanupIndex(p) \/ CleanupFails(p) \/ AbortFinish(p)
  BY <1>1, <1>2 DEF CleanupIndex, CleanupFails, AbortFinish
<1>3. CASE FinishCleanup(p)
  <2>1. CASE ~Finishable(p)
    BY <1>1, <1>3, <2>1 DEF FinishCleanup
  <2>2. CASE Finishable(p) /\ proc = "ready"
    <3>1. SetStatus(job[p], "succeeded")
      BY <1>3, <2>2 DEF FinishCleanup
    <3> QED
      BY <3>1, <1>0, CloseJob
  <2>3. CASE Finishable(p) /\ proc # "ready" /\ HasBudget(attempt[job[p]])
    <3>1. Requeue(job[p], p \in Scanners) /\ UNCHANGED attempt
      BY <1>3, <2>3 DEF FinishCleanup
    <3>2. attempt[job[p]] < MaxAttempts
      BY <2>3 DEF HasBudget
    <3> QED
      BY <3>1, <3>2, <1>0, QueueJob
  <2>4. CASE Finishable(p) /\ proc # "ready" /\ ~HasBudget(attempt[job[p]])
    <3>1. SetStatus(job[p], "failed")
      BY <1>3, <2>4 DEF FinishCleanup
    <3> QED
      BY <3>1, <1>0, CloseJob
  <2> QED
    BY <2>1, <2>2, <2>3, <2>4
<1> QED
  BY <1>2, <1>3 DEF Cleanup

LEMMA ScanJobs ==
  ASSUME TypeOK, JobsInv, NEW s \in Scanners, Scan(s)
  PROVE  JobsInv'
<1> USE DEF TypeOK
<1>1. CASE UNCHANGED jobVars
  BY <1>1, SameJobs DEF jobVars
<1>2. CASE ScanStart(s) \/ ListMaterial(s) \/ ReapIndex(s) \/ ReapDeleting(s) \/ ReapNothing(s)
             \/ CrashScan(s)
  BY <1>1, <1>2 DEF ScanStart, ListMaterial, ReapIndex, ReapDeleting, ReapNothing, CrashScan
<1>3. ASSUME NEW j \in Jobs, Recover(s, j) PROVE JobsInv'
  <2>1. CASE RecoverClosed(s, j) \/ RecoverFence(s, j)
    BY <2>1, CloseJob DEF RecoverClosed, RecoverFence
  <2>2. CASE RecoverAgain(s, j)
    BY <2>2, QueueJob DEF RecoverAgain, HasBudget
  <2> QED
    BY <1>3, <2>1, <2>2 DEF Recover
<1> QED
  BY <1>2, <1>3 DEF Scan

LEMMA RequestJobs ==
  ASSUME TypeOK, JobsInv, NEW q \in Requests, Request(q)
  PROVE  JobsInv'
<1> USE DEF TypeOK
<1>1. CASE UNCHANGED jobVars
  BY <1>1, SameJobs DEF jobVars
<1>2. CASE DeleteFinish(q) \/ RequestFails(q) \/ Freeze(q) \/ Thaw(q)
  BY <1>1, <1>2 DEF DeleteFinish, RequestFails, Freeze, Thaw
<1>3. CASE Cancel(q)
  BY <1>3, CloseJob DEF Cancel
<1>4. CASE \E j \in Jobs : Retry(q, j)
  BY <1>4, QueueJob DEF Retry
<1>5. CASE ReprocessStart(q)
  BY <1>5, CancelJobs, NextJob DEF ReprocessStart
<1>6. CASE ReprocessFinish(q)
  BY <1>6, NextJob DEF ReprocessFinish
<1>7. CASE DeleteStart(q)
  BY <1>7, CancelJobs DEF DeleteStart
<1> QED
  BY <1>2, <1>3, <1>4, <1>5, <1>6, <1>7 DEF Request

-----------------------------------------------------------------------------
(* The job of a run that is at work.                                       *)

(* A step leaves it as it is, or cancels it.                               *)
HeldStays ==
  \A x \in Runs : Working(x)' => /\ attempt'[job[x]] = attempt[job[x]]
                                 /\ status'[job[x]] \in {status[job[x]], "cancelled"}

LEMMA HoldKept == ASSUME HoldInv, RunsStay, HeldStays PROVE HoldInv'
<1>1. JobIsHeld'
  BY DEF HoldInv, JobIsHeld, RunsStay, HeldStays
<1>2. OneHolder'
  BY DEF HoldInv, OneHolder, RunsStay
<1> QED
  BY <1>1, <1>2 DEF HoldInv

(* Nobody works on a job that is not running or cancelled.                 *)
LEMMA NobodyWorks ==
  ASSUME JobIsHeld, NEW j \in Jobs, status[j] \notin {"running", "cancelled"}
  PROVE  \A x \in Runs : Working(x) => job[x] # j
BY DEF JobIsHeld

(* Rewriting a job nobody works on leaves those of the runs.               *)
LEMMA OtherJob ==
  ASSUME TypeOK, RunsStay, NEW j \in Jobs, NEW v,
         \A x \in Runs : Working(x)' => job[x] # j,
         status' = [status EXCEPT ![j] = v],
         attempt' = attempt \/ \E n : attempt' = [attempt EXCEPT ![j] = n]
  PROVE  HeldStays
BY DEF TypeOK, JobTypeOK, ActorTypeOK, Procs, HeldStays

LEMMA SameHeld == ASSUME UNCHANGED <<status, attempt>> PROVE HeldStays
BY DEF HeldStays

(* A queued job is nobody's, so that whoever claims it is its only holder. *)
LEMMA ClaimHolds ==
  ASSUME TypeOK, HoldInv, JobsInv, NEW r \in Runs, NEW j \in Jobs, Claim(r, j)
  PROVE  HoldInv'
<1> USE DEF HoldInv
<1>1. HasBudget(attempt[j]) /\ status[j] = "queued"
  BY DEF Claim, HasBudget, JobsInv, QueuedHasBudget
<1>2. /\ pc' = [pc EXCEPT ![r] = "claimed"]
      /\ job' = [job EXCEPT ![r] = j] /\ att' = [att EXCEPT ![r] = attempt[j] + 1]
      /\ status' = [status EXCEPT ![j] = "running"]
      /\ attempt' = [attempt EXCEPT ![j] = @ + 1]
  BY <1>1 DEF Claim
<1>3. /\ att'[r] = attempt'[j] /\ job'[r] = j /\ status'[j] = "running"
      /\ \A x \in Runs \ {r} : pc'[x] = pc[x] /\ job'[x] = job[x] /\ att'[x] = att[x]
      /\ \A k \in Jobs \ {j} : status'[k] = status[k] /\ attempt'[k] = attempt[k]
  BY <1>2 DEF TypeOK, ActorTypeOK, JobTypeOK, Procs, Actors
<1>4. \A x \in Runs : job[x] \in Jobs
  BY DEF TypeOK, ActorTypeOK, Procs
<1>5. \A x \in Runs \ {r} : Working(x)' => Working(x) /\ job[x] # j
  BY <1>1, <1>3, NobodyWorks DEF Working
<1>6. JobIsHeld'
  BY <1>3, <1>4, <1>5 DEF JobIsHeld
<1>7. OneHolder'
  BY <1>3, <1>5 DEF OneHolder
<1> QED
  BY <1>6, <1>7

(* A cleanup takes up a job that has been closed for it.                   *)
LEMMA CleanupHolds ==
  ASSUME TypeOK, HoldInv, RunsStay, NEW p \in Procs, Cleanup(p)
  PROVE  HoldInv'
<1> USE DEF HoldInv
<1>0. job[p] \in Jobs
  BY DEF TypeOK, ActorTypeOK
<1>1. CASE UNCHANGED <<status, attempt>>
  BY <1>1, SameHeld, HoldKept
<1>2. CASE CleanupIndex(p) \/ CleanupFails(p) \/ AbortFinish(p)
  BY <1>1, <1>2 DEF CleanupIndex, CleanupFails, AbortFinish, jobVars
<1>3. CASE FinishCleanup(p)
  <2>1. CASE ~Finishable(p)
    BY <1>1, <1>3, <2>1 DEF FinishCleanup, jobVars
  <2>2. CASE Finishable(p)
    <3>1. status[job[p]] = "cleanup"
      BY <2>2 DEF Finishable
    <3>2. (\E s \in {"succeeded", "failed"} : SetStatus(job[p], s))
          \/ (Requeue(job[p], p \in Scanners) /\ UNCHANGED attempt)
      BY <1>3, <2>2 DEF FinishCleanup
    <3>3. attempt' = attempt /\ \E v : status' = [status EXCEPT ![job[p]] = v]
      BY <3>2 DEF SetStatus, Requeue
    <3>4. \A x \in Runs : Working(x)' => job[x] # job[p]
      BY <1>0, <3>1, NobodyWorks DEF RunsStay
    <3> QED
      BY <1>0, <3>3, <3>4, OtherJob, HoldKept
  <2> QED
    BY <2>1, <2>2
<1> QED
  BY <1>2, <1>3 DEF Cleanup

(* A run rewrites its own job only, and then it is no longer at work.      *)
LEMMA WorkHolds ==
  ASSUME TypeOK, HoldInv, NEW r \in Runs, Work(r) \/ Cleanup(r) \/ CrashRun(r)
  PROVE  HoldInv'
<1> USE DEF HoldInv
<1>0. RunsStay /\ job[r] \in Jobs
  BY RunStays DEF TypeOK, ActorTypeOK, Procs
<1>1. CASE UNCHANGED <<status, attempt>>
  BY <1>0, <1>1, SameHeld, HoldKept
<1>2. CASE Work(r) /\ ~UNCHANGED <<status, attempt>>
  <2>1. ~Working(r)'
    BY <1>2, RunStays
  <2>2. attempt' = attempt /\ \E v : status' = [status EXCEPT ![job[r]] = v]
    BY <1>2 DEF Work, ReadMaterial, Begin, Downloaded, Parsed, FailBeforeIntent,
       SqlError, CommitIntent, Index, IndexRefused, IndexFails, Publish, PublishFails, Unindex,
       Erase, UnindexFails, Resolve, MarkSucceeded, MarkCancelled, MarkFailed, RefuseFailure,
       FailAfterReady, FailWithRows, FailWithoutRows, SetStatus, Requeue, jobVars
  <2>3. Working(r)
    BY <1>2 DEF Work, ReadMaterial, Begin, Downloaded, Parsed, FailBeforeIntent,
       SqlError, CommitIntent, Index, IndexRefused, IndexFails, Publish, PublishFails, Unindex,
       Erase, UnindexFails, Resolve, MarkSucceeded, MarkCancelled, MarkFailed, Working
  <2>4. \A x \in Runs : Working(x)' => job[x] # job[r]
    BY <1>0, <2>1, <2>3 DEF OneHolder, RunsStay
  <2> QED
    BY <1>0, <2>2, <2>4, OtherJob, HoldKept
<1>3. CASE Cleanup(r)
  BY <1>0, <1>3, CleanupHolds DEF Procs
<1>4. CASE CrashRun(r)
  BY <1>1, <1>4 DEF CrashRun
<1> QED
  BY <1>1, <1>2, <1>3, <1>4

(* The job scan takes up no job of a run at work: while the time limits    *)
(* are kept it is not stale.                                               *)
LEMMA NotRecovered ==
  ASSUME ~Stalls, JobIsHeld, NEW j \in Jobs, Recoverable(j)
  PROVE  \A x \in Runs : Working(x) => job[x] # j
BY DEF Recoverable, Stale, JobIsHeld, Working

LEMMA RecoverWrites ==
  ASSUME NEW s \in Scanners, NEW j \in Jobs, Recover(s, j)
  PROVE  attempt' = attempt /\ \E v : status' = [status EXCEPT ![j] = v]
BY DEF Recover, RecoverClosed, RecoverAgain, RecoverFence, SetStatus, Requeue

LEMMA ScanHolds ==
  ASSUME ~Stalls, TypeOK, HoldInv, NEW s \in Scanners, Scan(s)
  PROVE  HoldInv'
<1> USE DEF HoldInv
<1>0. RunsStay
  BY ScanStays
<1>1. CASE ScanStart(s) \/ ListMaterial(s) \/ ReapIndex(s) \/ ReapDeleting(s) \/ ReapNothing(s)
             \/ CrashScan(s)
  BY <1>0, <1>1, SameHeld, HoldKept
     DEF ScanStart, ListMaterial, ReapIndex, ReapDeleting, ReapNothing, CrashScan, jobVars
<1>2. ASSUME NEW j \in Jobs, Recover(s, j) PROVE HoldInv'
  <2>1. \A x \in Runs : Working(x)' => job[x] # j
    BY <1>0, <1>2, NotRecovered DEF Recover, RunsStay
  <2> QED
    BY <1>0, <1>2, <2>1, RecoverWrites, OtherJob, HoldKept
<1> QED
  BY <1>1, <1>2 DEF Scan

(* A request cancels it at most.                                           *)
LEMMA RequestHolds ==
  ASSUME TypeOK, HoldInv, NEW q \in Requests, Request(q)
  PROVE  HoldInv'
<1> USE DEF HoldInv
<1>0. RunsStay
  BY RequestStays
<1>1. SUFFICES HeldStays
  BY <1>0, HoldKept
<1>2. CASE UNCHANGED <<status, attempt>>
  BY <1>2, SameHeld
<1>3. CASE DeleteFinish(q) \/ RequestFails(q) \/ Freeze(q) \/ Thaw(q)
  BY <1>2, <1>3 DEF DeleteFinish, RequestFails, Freeze, Thaw, jobVars
<1>4. CASE Cancel(q)
  BY <1>4 DEF Cancel, SetStatus, HeldStays, TypeOK, JobTypeOK
<1>5. ASSUME NEW j \in Jobs, Retry(q, j) PROVE HeldStays
  <2>1. \A x \in Runs : Working(x)' => job[x] # j
    BY <1>0, <1>5, NobodyWorks DEF Retry, RunsStay
  <2> QED
    BY <1>0, <1>5, <2>1, OtherJob DEF Retry, Requeue
<1>6. ASSUME NEW st \in {status, CancelledJobs}, CreateJob(st) PROVE HeldStays
  <2>1. attempt' = attempt /\ st \in [Jobs -> JobStatus]
    BY <1>6, CancelledJobsType DEF CreateJob, TypeOK, JobTypeOK
  <2>2. \A k \in Jobs : st[k] \in {status[k], "cancelled"}
    BY <1>6 DEF CancelledJobs
  <2>3. \A x \in Runs : job[x] \in Jobs
    BY DEF TypeOK, ActorTypeOK, Procs
  <2>4. CASE status' = st
    BY <2>1, <2>2, <2>3, <2>4 DEF HeldStays
  <2>5. ASSUME NEW j \in Jobs, Fresh(j), status' = [st EXCEPT ![j] = "queued"]
        PROVE  HeldStays
    <3>1. \A x \in Runs : Working(x)' => job[x] # j
      BY <1>0, <2>5, NobodyWorks DEF Fresh, RunsStay
    <3> QED
      BY <2>1, <2>2, <2>3, <2>5, <3>1 DEF HeldStays
  <2> QED
    BY <1>6, <2>4, <2>5 DEF CreateJob
<1>7. CASE status' = CancelledJobs /\ attempt' = attempt
  BY <1>7 DEF HeldStays, CancelledJobs, TypeOK, ActorTypeOK, Procs
<1>8. CASE ReprocessStart(q)
  BY <1>6, <1>7, <1>8 DEF ReprocessStart
<1>9. CASE ReprocessFinish(q)
  BY <1>6, <1>9 DEF ReprocessFinish
<1>10. CASE DeleteStart(q)
  BY <1>7, <1>10 DEF DeleteStart
<1> QED
  BY <1>3, <1>4, <1>5, <1>8, <1>9, <1>10 DEF Request

-----------------------------------------------------------------------------
(* The jobs a PENDING material waits for.                                  *)

(* Neither the material nor a job changes, or the material is settled      *)
(* otherwise.                                                              *)
LEMMA SameAwaited ==
  ASSUME PendingInv, RunsStay, UNCHANGED status,
         \/ UNCHANGED <<storage, proc>>
         \/ proc' # "pending"
         \/ storage' # "available",
         lease' \in Requests => lease' = lease
  PROVE  PendingInv'
<1>1. RebuildHasNoJob'
  BY DEF PendingInv, RebuildHasNoJob, LiveJobs, Live
<1>2. ASSUME storage' = "available", proc' = "pending"
      PROVE  \E j \in Jobs : Awaited(j)'
  <2>1. PICK j \in Jobs : Awaited(j)
    BY <1>2 DEF PendingInv, PendingIsAwaited
  <2>2. Awaited(j)'
    BY <1>2, <2>1 DEF Awaited, Live, RunsStay, Working
  <2> QED
    BY <2>2
<1> QED
  BY <1>1, <1>2 DEF PendingInv, PendingIsAwaited

(* A job is closed, and the material is not left PENDING.                  *)
LEMMA CloseAwaited ==
  ASSUME JobTypeOK, PendingInv, NEW j \in Jobs,
         NEW s \in {"succeeded", "failed", "cleanup", "cancelled"}, SetStatus(j, s),
         proc' # "pending" \/ storage' # "available",
         lease' \in Requests => lease' = lease
  PROVE  PendingInv'
BY DEF JobTypeOK, PendingInv, PendingIsAwaited, RebuildHasNoJob, LiveJobs, Live, SetStatus

(* A job nobody works on is queued and the lease is cleared.               *)
LEMMA QueueAwaited ==
  ASSUME JobTypeOK, RunsStay, NEW j \in Jobs, NEW now, Requeue(j, now), NEW s, Settle(s),
         \A x \in Runs : Working(x)' => job[x] # j
  PROVE  PendingInv'
<1>1. Live(j)'
  BY DEF JobTypeOK, Live, Requeue
<1>2. Awaited(j)'
  BY <1>1 DEF Awaited, RunsStay, Working
<1> QED
  BY <1>2, ActorsAssumption DEF PendingInv, PendingIsAwaited, RebuildHasNoJob, Settle

LEMMA ClaimPending ==
  ASSUME TypeOK, PendingInv, JobsInv, NEW r \in Runs, NEW j \in Jobs, Claim(r, j)
  PROVE  PendingInv'
<1>1. HasBudget(attempt[j])
  BY DEF Claim, HasBudget, JobsInv, QueuedHasBudget
<1>2. /\ UNCHANGED <<storage, proc, lease>>
      /\ pc' = [pc EXCEPT ![r] = "claimed"] /\ job' = [job EXCEPT ![r] = j]
      /\ status[j] = "queued" /\ status' = [status EXCEPT ![j] = "running"]
  BY <1>1 DEF Claim, ownerVars, leaseVars
<1>3. \A k \in Jobs : Live(k)' <=> Live(k)
  BY <1>2 DEF Live, TypeOK, JobTypeOK
<1>4. /\ pc'[r] = "claimed"
      /\ \A x \in Runs \ {r} : pc'[x] = pc[x] /\ job'[x] = job[x]
  BY <1>2 DEF TypeOK, ActorTypeOK, Actors, Procs
<1>5. \A k \in Jobs : Awaited(k) => Awaited(k)'
  BY <1>3, <1>4 DEF Awaited
<1> QED
  BY <1>2, <1>3, <1>5 DEF PendingInv, PendingIsAwaited, RebuildHasNoJob, LiveJobs

(* MarkSucceeded: the material, if it is PENDING, waits for another job.   *)
LEMMA SucceedPending ==
  ASSUME TypeOK, PendingInv, RunsStay, NEW r \in Runs, MarkSucceeded(r), Holds(r)
  PROVE  PendingInv'
<1>1. /\ status' = [status EXCEPT ![job[r]] = "succeeded"]
      /\ UNCHANGED <<storage, proc, lease>> /\ pc[r] = "succeed"
  BY DEF MarkSucceeded, SetStatus, ownerVars, leaseVars
<1>2. \A j \in Jobs : /\ Live(j)' => Live(j)
                      /\ Awaited(j) => Live(j)'
  BY <1>1 DEF TypeOK, JobTypeOK, Live, Awaited
<1>3. storage = "available" /\ proc = "pending" => \E j \in Jobs : Awaited(j)'
  BY <1>1, <1>2 DEF PendingInv, PendingIsAwaited, Awaited, RunsStay, Working
<1> QED
  BY <1>1, <1>2, <1>3 DEF PendingInv, PendingIsAwaited, RebuildHasNoJob, LiveJobs

LEMMA WorkPending ==
  ASSUME TypeOK, HoldInv, PendingInv, NEW r \in Runs, Work(r) \/ CrashRun(r)
  PROVE  PendingInv'
<1>0. /\ job[r] \in Jobs /\ JobTypeOK /\ RunsStay
      /\ r \notin Requests /\ NoLease \notin Requests
  BY ActorsAssumption, RunStays DEF TypeOK, ActorTypeOK, Procs
<1>1. CASE /\ UNCHANGED <<ownerVars, status>>
           /\ \/ UNCHANGED leaseVars
              \/ proc' # "pending" /\ lease' \in {lease, r, NoLease}
              \/ proc' = proc /\ lease' \in {lease, r}
  BY <1>0, <1>1, SameAwaited DEF ownerVars, leaseVars
<1>2. CASE ReadMaterial(r) \/ Begin(r) \/ Parsed(r) \/ SqlError(r) \/ CommitIntent(r)
  BY <1>1, <1>2 DEF ReadMaterial, Begin, Parsed, SqlError, CommitIntent, materialVars, jobVars
<1>3. CASE Index(r) \/ IndexRefused(r) \/ IndexFails(r) \/ PublishFails(r) \/ CrashRun(r)
  BY <1>1, <1>3 DEF Index, IndexRefused, IndexFails, PublishFails, CrashRun, materialVars, jobVars
<1>4. CASE UnindexFails(r) \/ Resolve(r)
  BY <1>1, <1>4 DEF UnindexFails, Resolve, materialVars, jobVars
<1>5. CASE Downloaded(r)
  BY <1>1, <1>5 DEF Downloaded, jobVars
<1>6. CASE FailBeforeIntent(r) \/ Publish(r) \/ Unindex(r)
  BY <1>1, <1>6 DEF FailBeforeIntent, Publish, Unindex, Settle, jobVars
<1>7. CASE Erase(r)
  BY <1>1, <1>7 DEF Erase, jobVars
<1>8. CASE MarkSucceeded(r)
  BY <1>1, <1>8, <1>0, SucceedPending DEF MarkSucceeded, jobVars
<1>9. CASE MarkCancelled(r)
  <2>1. CASE ~Holds(r)
    BY <1>1, <1>9, <2>1 DEF MarkCancelled, jobVars
  <2>2. CASE Holds(r)
    <3>1. /\ SetStatus(job[r], "cancelled") /\ proc' # "pending"
          /\ lease' \in Requests => lease' = lease
      BY <1>0, <1>9, <2>2 DEF MarkCancelled, FailIfInFlight, Settle, leaseVars
    <3> QED
      BY <1>0, <3>1, CloseAwaited
  <2> QED
    BY <2>1, <2>2
<1>10. CASE MarkFailed(r)
  <2>1. UNCHANGED ownerVars /\ Working(r)
    BY <1>10 DEF MarkFailed, Working
  <2>2. CASE RefuseFailure(r)
    BY <1>1, <2>1, <2>2 DEF RefuseFailure, jobVars
  <2>3. CASE FailAfterReady(r) \/ FailWithRows(r)
    <3>1. \E s \in {"succeeded", "cleanup"} : SetStatus(job[r], s)
      BY <2>3 DEF FailAfterReady, FailWithRows
    <3>2. proc' # "pending" /\ (lease' \in Requests => lease' = lease)
      BY <1>0, <2>3 DEF FailAfterReady, FailWithRows, Settle, leaseVars
    <3> QED
      BY <1>0, <3>1, <3>2, CloseAwaited
  <2>4. CASE FailWithoutRows(r) /\ HasBudget(att[r])
    <3>1. pc'[r] = "idle"
      BY <2>4 DEF FailWithoutRows, StopRun, TypeOK, ActorTypeOK, Actors, Procs
    <3>2. \A x \in Runs : Working(x)' => job[x] # job[r]
      BY <1>0, <2>1, <3>1 DEF HoldInv, OneHolder, RunsStay, Working
    <3>3. Requeue(job[r], FALSE) /\ Settle("pending")
      BY <2>4 DEF FailWithoutRows
    <3> QED
      BY <1>0, <3>2, <3>3, QueueAwaited
  <2>5. CASE FailWithoutRows(r) /\ ~HasBudget(att[r])
    <3>1. SetStatus(job[r], "failed") /\ proc' # "pending" /\ lease' \notin Requests
      BY <1>0, <2>5 DEF FailWithoutRows, Settle
    <3> QED
      BY <1>0, <3>1, CloseAwaited
  <2> QED
    BY <1>10, <2>2, <2>3, <2>4, <2>5 DEF MarkFailed
<1> QED
  BY <1>2, <1>3, <1>4, <1>5, <1>6, <1>7, <1>8, <1>9, <1>10 DEF Work

LEMMA CleanupPending ==
  ASSUME TypeOK, HoldInv, PendingInv, RunsStay, NEW p \in Procs, Cleanup(p)
  PROVE  PendingInv'
<1>0. job[p] \in Jobs /\ JobTypeOK /\ NoLease \notin Requests
  BY ActorsAssumption DEF TypeOK, ActorTypeOK
<1>1. CASE UNCHANGED <<ownerVars, leaseVars, jobVars>>
  BY <1>1, SameAwaited DEF ownerVars, leaseVars, jobVars
<1>2. CASE CleanupIndex(p) \/ CleanupFails(p) \/ AbortFinish(p)
  BY <1>1, <1>2 DEF CleanupIndex, CleanupFails, AbortFinish, materialVars
<1>3. CASE FinishCleanup(p)
  <2>1. CASE ~Finishable(p)
    BY <1>1, <1>3, <2>1 DEF FinishCleanup
  <2>2. CASE Finishable(p) /\ proc = "ready"
    <3>1. SetStatus(job[p], "succeeded") /\ Settle("ready")
      BY <1>3, <2>2 DEF FinishCleanup
    <3> QED
      BY <1>0, <3>1, CloseAwaited DEF Settle
  <2>3. CASE Finishable(p) /\ proc # "ready" /\ HasBudget(attempt[job[p]])
    <3>1. Requeue(job[p], p \in Scanners) /\ Settle("pending")
      BY <1>3, <2>3 DEF FinishCleanup
    <3>2. \A x \in Runs : Working(x)' => job[x] # job[p]
      BY <1>0, <2>3, NobodyWorks DEF Finishable, HoldInv, RunsStay
    <3> QED
      BY <1>0, <3>1, <3>2, QueueAwaited
  <2>4. CASE Finishable(p) /\ proc # "ready" /\ ~HasBudget(attempt[job[p]])
    <3>1. SetStatus(job[p], "failed") /\ Settle("failed")
      BY <1>3, <2>4 DEF FinishCleanup
    <3> QED
      BY <1>0, <3>1, CloseAwaited DEF Settle
  <2> QED
    BY <2>1, <2>2, <2>3, <2>4
<1> QED
  BY <1>2, <1>3 DEF Cleanup

LEMMA ScanPending ==
  ASSUME ~Stalls, TypeOK, HoldInv, PendingInv, NEW s \in Scanners, Scan(s)
  PROVE  PendingInv'
<1>0. JobTypeOK /\ NoLease \notin Requests /\ RunsStay
  BY ActorsAssumption, ScanStays DEF TypeOK
<1>1. CASE /\ UNCHANGED status
           /\ \/ UNCHANGED <<storage, proc>>
              \/ proc' # "pending"
              \/ storage' # "available"
           /\ lease' \in Requests => lease' = lease
  BY <1>0, <1>1, SameAwaited
<1>2. CASE ScanStart(s) \/ ListMaterial(s) \/ ReapNothing(s) \/ CrashScan(s)
  BY <1>1, <1>2 DEF ScanStart, ListMaterial, ReapNothing, CrashScan, ownerVars, materialVars,
                    leaseVars, jobVars
<1>3. CASE ReapDeleting(s)
  BY <1>1, <1>3 DEF ReapDeleting, leaseVars, jobVars
<1>4. CASE ReapIndex(s)
  <2>1. proc' = proc \/ proc' # "pending"
    BY <1>4 DEF ReapIndex, Settle
  <2>2. UNCHANGED <<storage, status>> /\ (lease' \in Requests => lease' = lease)
    BY <1>0, <1>4 DEF ReapIndex, Settle, ownerVars, jobVars
  <2> QED
    BY <1>1, <2>1, <2>2
<1>5. ASSUME NEW j \in Jobs, Recover(s, j) PROVE PendingInv'
  <2>1. storage' = storage
    BY <1>5 DEF Recover, ownerVars
  <2>2. CASE RecoverClosed(s, j) \/ RecoverFence(s, j)
    <3>1. \E x \in {"failed", "succeeded", "cleanup"} : SetStatus(j, x)
      BY <2>2 DEF RecoverClosed, RecoverFence
    <3>2. /\ proc' # "pending" \/ storage' # "available"
          /\ lease' \in Requests => lease' = lease
      BY <1>0, <2>1, <2>2 DEF RecoverClosed, RecoverFence, Settle, leaseVars
    <3> QED
      BY <1>0, <3>1, <3>2, CloseAwaited
  <2>3. CASE RecoverAgain(s, j)
    <3>1. \A x \in Runs : Working(x)' => job[x] # j
      BY <1>0, <1>5, NotRecovered DEF Recover, HoldInv, RunsStay
    <3> QED
      BY <1>0, <2>3, <3>1, QueueAwaited DEF RecoverAgain
  <2> QED
    BY <1>5, <2>2, <2>3 DEF Recover
<1> QED
  BY <1>2, <1>3, <1>4, <1>5 DEF Scan

LEMMA CancelledIsDead ==
  ASSUME JobTypeOK PROVE \A j \in Jobs : CancelledJobs[j] \notin {"queued", "running"}
BY DEF CancelledJobs, Live

(* The next job is a new one, which nobody works on.                       *)
LEMMA NextIsAwaited ==
  ASSUME JobTypeOK, JobIsHeld, RunsStay, NEW st \in {status, CancelledJobs}, CreateJob(st),
         \A j \in Jobs : st[j] \notin {"queued", "running"},
         NEW s, Settle(s)
  PROVE  PendingInv'
<1>1. PICK j \in Jobs : Fresh(j) /\ status' = [st EXCEPT ![j] = "queued"]
  BY DEF CreateJob
<1>2. st \in [Jobs -> JobStatus]
  BY CancelledJobsType DEF JobTypeOK
<1>3. Live(j)'
  BY <1>1, <1>2 DEF Live
<1>4. \A x \in Runs : Working(x)' => job[x] # j
  BY <1>1, NobodyWorks DEF Fresh, RunsStay
<1>5. Awaited(j)'
  BY <1>3, <1>4 DEF Awaited, RunsStay, Working
<1> QED
  BY <1>5, ActorsAssumption DEF PendingInv, PendingIsAwaited, RebuildHasNoJob, Settle

LEMMA RequestPending ==
  ASSUME TypeOK, HoldInv, PendingInv, NEW q \in Requests, Request(q)
  PROVE  PendingInv'
<1>0. JobTypeOK /\ JobIsHeld /\ NoLease \notin Requests /\ RunsStay
  BY ActorsAssumption, RequestStays DEF TypeOK, HoldInv
<1>1. CASE Cancel(q)
  <2>1. PICK j \in Jobs : SetStatus(j, "cancelled")
    BY <1>1 DEF Cancel
  <2>2. proc' # "pending" /\ (lease' \in Requests => lease' = lease)
    BY <1>0, <1>1 DEF Cancel, FailIfInFlight, Settle, leaseVars
  <2> QED
    BY <1>0, <2>1, <2>2, CloseAwaited
<1>2. ASSUME NEW j \in Jobs, Retry(q, j) PROVE PendingInv'
  <2>1. \A x \in Runs : Working(x)' => job[x] # j
    BY <1>0, <1>2, NobodyWorks DEF Retry, RunsStay
  <2> QED
    BY <1>0, <1>2, <2>1, QueueAwaited DEF Retry
<1>3. CASE status' = CancelledJobs /\ (proc' # "pending" \/ storage' # "available")
  BY <1>0, <1>3, CancelledIsDead DEF PendingInv, PendingIsAwaited, RebuildHasNoJob, LiveJobs, Live
<1>4. CASE ReprocessStart(q)
  <2>1. CASE chunks # {}
    BY <1>3, <1>4, <2>1 DEF ReprocessStart
  <2>2. CASE chunks = {}
    BY <1>0, <1>4, <2>2, CancelledIsDead, NextIsAwaited DEF ReprocessStart
  <2> QED
    BY <2>1, <2>2
<1>5. CASE ReprocessFinish(q)
  <2>1. Settle("pending") /\ CreateJob(status) /\ lease = q
    BY <1>5 DEF ReprocessFinish, Owned, Mine
  <2>2. \A j \in Jobs : status[j] \notin {"queued", "running"}
    BY <2>1 DEF PendingInv, RebuildHasNoJob, LiveJobs, Live
  <2> QED
    BY <1>0, <2>1, <2>2, NextIsAwaited
<1>6. CASE DeleteStart(q)
  BY <1>3, <1>6 DEF DeleteStart
<1>7. CASE DeleteFinish(q) \/ RequestFails(q) \/ Freeze(q) \/ Thaw(q)
  <2>1. /\ UNCHANGED <<status, proc, lease>>
        /\ storage' = storage \/ storage' # "available"
    BY <1>7 DEF DeleteFinish, RequestFails, Freeze, Thaw, ownerVars, materialVars, leaseVars, jobVars
  <2> QED
    BY <1>0, <2>1, SameAwaited
<1> QED
  BY <1>1, <1>2, <1>4, <1>5, <1>6, <1>7 DEF Request

-----------------------------------------------------------------------------
(* The invariants of jobs_in_time.                                         *)

LEMMA InitInTime == Init => InTimeInv
<1> SUFFICES ASSUME Init PROVE InTimeInv
  OBVIOUS
<1> USE ActorsAssumption DEF Init, Procs, Actors
<1>1. HoldInv /\ JobsInv
  BY BoundsAssumption DEF HoldInv, JobIsHeld, OneHolder, Working, JobsInv, FreshIsUntried,
                          QueuedHasBudget
<1>2. PendingInv
  BY JobOne DEF PendingInv, RebuildHasNoJob, PendingIsAwaited, Awaited, Live
<1> QED
  BY <1>1, <1>2 DEF InTimeInv

LEMMA InTimeStep ==
  ASSUME ~Stalls, TypeOK, InTimeInv, [Next]_vars
  PROVE  InTimeInv'
<1> USE DEF InTimeInv
<1>1. ASSUME NEW r \in Runs, NEW j \in Jobs, Claim(r, j) PROVE InTimeInv'
  BY <1>1, ClaimHolds, ClaimJobs, ClaimPending
<1>2. ASSUME NEW r \in Runs, Work(r) PROVE InTimeInv'
  BY <1>2, WorkHolds, WorkJobs, WorkPending DEF HoldInv
<1>3. ASSUME NEW r \in Runs, Cleanup(r) PROVE InTimeInv'
  BY <1>3, RunStays, CleanupHolds, CleanupJobs, CleanupPending DEF Procs
<1>4. ASSUME NEW r \in Runs, CrashRun(r) PROVE InTimeInv'
  BY <1>4, WorkHolds, SameJobs, WorkPending DEF CrashRun
<1>5. ASSUME NEW s \in Scanners, Scan(s) PROVE InTimeInv'
  BY <1>5, ScanHolds, ScanJobs, ScanPending
<1>6. ASSUME NEW s \in Scanners, Cleanup(s) PROVE InTimeInv'
  BY <1>6, ScanStays, CleanupHolds, CleanupJobs, CleanupPending DEF Procs
<1>7. ASSUME NEW q \in Requests, Request(q) PROVE InTimeInv'
  BY <1>7, RequestHolds, RequestJobs, RequestPending
<1>8. ASSUME Elapse PROVE InTimeInv'
  BY <1>8, ElapseLeaves, SameHeld, HoldKept, SameJobs, SameAwaited
<1>9. CASE UNCHANGED vars
  BY <1>9 DEF vars, HoldInv, JobIsHeld, OneHolder, Working, JobsInv, FreshIsUntried,
     QueuedHasBudget, PendingInv, RebuildHasNoJob, LiveJobs, PendingIsAwaited, Awaited, Live
<1> QED
  BY <1>1, <1>2, <1>3, <1>4, <1>5, <1>6, <1>7, <1>8, <1>9, NextActors

(* InTimeInv holds, whatever crashes, whichever requests come and however  *)
(* many runs and scans are at work together.                               *)
THEOREM InTimeHolds ==
  ASSUME ~Stalls
  PROVE  Spec => [](TypeOK /\ InTimeInv)
<1>1. TypeOK /\ InTimeInv /\ [Next]_vars => InTimeInv'
  BY InTimeStep
<1> QED
  BY <1>1, InitInTime, TypeCorrect, PTL DEF Spec

(* QueuedHasBudget holds: whatever requeues a job leaves it an attempt, so *)
(* that claim_job never closes it with MAX_ATTEMPTS_EXCEEDED.              *)
THEOREM QueuedCanBeClaimed ==
  ASSUME ~Stalls
  PROVE  Spec => []QueuedHasBudget
<1>1. InTimeInv => QueuedHasBudget
  BY DEF InTimeInv, JobsInv
<1> QED
  BY <1>1, InTimeHolds, PTL

(* PendingHasJob holds: no path that closes a job leaves its material      *)
(* PENDING without another one.                                            *)
THEOREM PendingIsProcessed ==
  ASSUME ~Stalls
  PROVE  Spec => []PendingHasJob
<1>1. InTimeInv => PendingHasJob
  BY DEF InTimeInv, PendingInv, PendingIsAwaited, Awaited, PendingHasJob, LiveJobs
<1> QED
  BY <1>1, InTimeHolds, PTL

-----------------------------------------------------------------------------
(* SUCCEEDED is final.                                                     *)

SucceededKept == \A j \in Jobs : status[j] = "succeeded" => status'[j] = "succeeded"

LEMMA CloseOther ==
  ASSUME JobTypeOK, NEW j \in Jobs, NEW s, SetStatus(j, s), status[j] # "succeeded"
  PROVE  SucceededKept
BY DEF JobTypeOK, SucceededKept, SetStatus

LEMMA QueueOther ==
  ASSUME JobTypeOK, NEW j \in Jobs, NEW now, Requeue(j, now), status[j] # "succeeded"
  PROVE  SucceededKept
BY DEF JobTypeOK, SucceededKept, Requeue

LEMMA NextOther ==
  ASSUME JobTypeOK, NEW st \in {status, CancelledJobs}, CreateJob(st)
  PROVE  SucceededKept
<1>1. /\ st \in [Jobs -> JobStatus]
      /\ \A j \in Jobs : status[j] = "succeeded" => st[j] = "succeeded"
  BY CancelledJobsType DEF JobTypeOK, CancelledJobs, Live
<1> QED
  BY <1>1 DEF CreateJob, Fresh, SucceededKept

(* A run closes its own job, which is running or cancelled; it does not    *)
(* even look whether it is running when it has failed.                     *)
LEMMA WorkSucceeds ==
  ASSUME TypeOK, JobIsHeld, NEW r \in Runs, Work(r)
  PROVE  SucceededKept
<1>0. JobTypeOK /\ job[r] \in Jobs
  BY DEF TypeOK, ActorTypeOK, Procs
<1>1. CASE UNCHANGED jobVars
  BY <1>1 DEF SucceededKept, jobVars
<1>2. CASE MarkSucceeded(r) \/ MarkCancelled(r)
  BY <1>0, <1>1, <1>2, CloseOther DEF MarkSucceeded, MarkCancelled, Holds
<1>3. CASE MarkFailed(r)
  <2>1. status[job[r]] # "succeeded"
    BY <1>3 DEF MarkFailed, JobIsHeld, Working
  <2> QED
    BY <1>0, <1>1, <1>3, <2>1, CloseOther, QueueOther
       DEF MarkFailed, RefuseFailure, FailAfterReady, FailWithRows, FailWithoutRows
<1>4. CASE ReadMaterial(r) \/ Begin(r) \/ Downloaded(r) \/ Parsed(r) \/ FailBeforeIntent(r)
             \/ SqlError(r) \/ CommitIntent(r) \/ Index(r) \/ IndexRefused(r) \/ IndexFails(r)
             \/ Publish(r) \/ PublishFails(r) \/ Unindex(r) \/ Erase(r) \/ UnindexFails(r)
             \/ Resolve(r)
  BY <1>1, <1>4 DEF ReadMaterial, Begin, Downloaded, Parsed, FailBeforeIntent, SqlError,
     CommitIntent, Index, IndexRefused, IndexFails, Publish, PublishFails, Unindex, Erase,
     UnindexFails, Resolve
<1> QED
  BY <1>2, <1>3, <1>4 DEF Work

LEMMA CleanupSucceeds ==
  ASSUME TypeOK, NEW p \in Procs, Cleanup(p)
  PROVE  SucceededKept
<1>0. JobTypeOK /\ job[p] \in Jobs
  BY DEF TypeOK, ActorTypeOK
<1>1. CASE UNCHANGED jobVars
  BY <1>1 DEF SucceededKept, jobVars
<1>2. CASE CleanupIndex(p) \/ CleanupFails(p) \/ AbortFinish(p)
  BY <1>1, <1>2 DEF CleanupIndex, CleanupFails, AbortFinish
<1>3. CASE FinishCleanup(p)
  <2>1. CASE ~Finishable(p)
    BY <1>1, <1>3, <2>1 DEF FinishCleanup
  <2>2. CASE Finishable(p)
    <3>1. status[job[p]] = "cleanup"
      BY <2>2 DEF Finishable
    <3>2. (\E s \in {"succeeded", "failed"} : SetStatus(job[p], s)) \/ Requeue(job[p], p \in Scanners)
      BY <1>3, <2>2 DEF FinishCleanup
    <3> QED
      BY <1>0, <3>1, <3>2, CloseOther, QueueOther
  <2> QED
    BY <2>1, <2>2
<1> QED
  BY <1>2, <1>3 DEF Cleanup

LEMMA ScanSucceeds ==
  ASSUME TypeOK, NEW s \in Scanners, Scan(s)
  PROVE  SucceededKept
<1>0. JobTypeOK
  BY DEF TypeOK
<1>1. ASSUME NEW j \in Jobs, Recover(s, j) PROVE SucceededKept
  <2>1. status[j] # "succeeded"
    BY <1>1 DEF Recover, Recoverable
  <2> QED
    BY <1>0, <1>1, <2>1, CloseOther, QueueOther
       DEF Recover, RecoverClosed, RecoverAgain, RecoverFence
<1>2. CASE ScanStart(s) \/ ListMaterial(s) \/ ReapIndex(s) \/ ReapDeleting(s) \/ ReapNothing(s)
             \/ CrashScan(s)
  BY <1>2 DEF ScanStart, ListMaterial, ReapIndex, ReapDeleting, ReapNothing, CrashScan, jobVars,
              SucceededKept
<1> QED
  BY <1>1, <1>2 DEF Scan

(* Also a reprocess request leaves the old job as it is.                   *)
LEMMA RequestSucceeds ==
  ASSUME TypeOK, NEW q \in Requests, Request(q)
  PROVE  SucceededKept
<1>0. JobTypeOK
  BY DEF TypeOK
<1>1. CASE Cancel(q)
  BY <1>0, <1>1, CloseOther DEF Cancel, Live
<1>2. CASE \E j \in Jobs : Retry(q, j)
  BY <1>0, <1>2, QueueOther DEF Retry
<1>3. CASE status' = CancelledJobs
  BY <1>3 DEF CancelledJobs, Live, SucceededKept
<1>4. CASE ReprocessStart(q)
  BY <1>0, <1>3, <1>4, NextOther DEF ReprocessStart
<1>5. CASE ReprocessFinish(q)
  BY <1>0, <1>5, NextOther DEF ReprocessFinish
<1>6. CASE DeleteStart(q)
  BY <1>3, <1>6 DEF DeleteStart
<1>7. CASE DeleteFinish(q) \/ RequestFails(q) \/ Freeze(q) \/ Thaw(q)
  BY <1>7 DEF DeleteFinish, RequestFails, Freeze, Thaw, jobVars, SucceededKept
<1> QED
  BY <1>1, <1>2, <1>4, <1>5, <1>6, <1>7 DEF Request

LEMMA SucceededStep ==
  ASSUME TypeOK, InTimeInv, [Next]_vars
  PROVE  SucceededKept
<1>0. JobIsHeld
  BY DEF InTimeInv, HoldInv
<1>1. ASSUME NEW r \in Runs, NEW j \in Jobs, Claim(r, j) PROVE SucceededKept
  BY <1>1 DEF Claim, SucceededKept, TypeOK, JobTypeOK
<1>2. ASSUME NEW r \in Runs, CrashRun(r) PROVE SucceededKept
  BY <1>2 DEF CrashRun, SucceededKept
<1>3. ASSUME Elapse PROVE SucceededKept
  BY <1>3, ElapseLeaves DEF SucceededKept
<1>4. CASE UNCHANGED vars
  BY <1>4 DEF vars, SucceededKept
<1>5. ASSUME NEW r \in Runs, Work(r) \/ Cleanup(r) PROVE SucceededKept
  BY <1>0, <1>5, WorkSucceeds, CleanupSucceeds DEF Procs
<1>6. ASSUME NEW s \in Scanners, Scan(s) \/ Cleanup(s) PROVE SucceededKept
  BY <1>6, ScanSucceeds, CleanupSucceeds DEF Procs
<1> QED
  BY <1>1, <1>2, <1>3, <1>4, <1>5, <1>6, RequestSucceeds, NextActors

(* SucceededStays: no late transaction of a run, a scan or a request       *)
(* reopens or relabels a job that has succeeded.                           *)
THEOREM SucceededIsFinal ==
  ASSUME ~Stalls
  PROVE  Spec => SucceededStays
<1>1. TypeOK /\ InTimeInv /\ [Next]_vars => [SucceededKept]_vars
  BY SucceededStep
<1>2. Spec => [][SucceededKept]_vars
  BY <1>1, InTimeHolds, PTL DEF Spec
<1> QED
  BY <1>2 DEF SucceededStays, SucceededKept
=============================================================================
