---------------------------- MODULE MaterialJobs ----------------------------
(***************************************************************************)
(* Processing of one uploaded material: the MaterialJob state machine      *)
(* (services/job_service.py), the worker that executes a job               *)
(* (tasks/parse_material.py and _process_material in api/materials.py),    *)
(* the recovery cron with its job scan and its storage scan                *)
(* (services/material_storage_cleanup.py) and the user's and operator's    *)
(* requests (cancel, retry, reprocess, delete, disable).                   *)
(*                                                                         *)
(* One action is one database transaction, or one stretch of code that     *)
(* keeps a row locked from its first read to its commit.  Most             *)
(* transactions start by locking the owner's users row FOR UPDATE and are  *)
(* therefore serial; the ones that do not (the flush of a new lease, the   *)
(* chunk intent, READY, a failed parse) are marked "no user lock".         *)
(*                                                                         *)
(* Sessions are opened with expire_on_commit=False, so an object loaded    *)
(* before a commit keeps its old attributes in a later SELECT, unless the  *)
(* query says populate_existing or a rollback has expired it.  Where the   *)
(* code decides on such attributes the model keeps what was loaded.        *)
(*                                                                         *)
(* A definition named after the one that follows it with a suffix          *)
(* (HasBudgetOffByOne before HasBudget) is a plausible slip of it, kept to *)
(* see a property fail under it; no action refers to it.                   *)
(***************************************************************************)
EXTENDS Naturals

CONSTANTS
  MaxJobs,      (* bound: MaterialJob rows ever created for the material   *)
  MaxAttempts,  (* MaterialJob.max_attempts (3 in the code)                *)
  Runs,         (* executions of process_material_job; idle ones are free  *)
  Scanners,     (* executions of the recovery cron                         *)
  Requests,     (* API requests that change state, one operation each      *)
  NoLease,      (* processing_lease_id IS NULL                             *)
  Stalls,       (* whether a process may be held up beyond the time limits *)
                (* of ARQ, so that its job or its lease times out under it *)
  CrashAt       (* the program points at which a process may stop for good *)

ASSUME BoundsAssumption == MaxJobs \in Nat \ {0} /\ MaxAttempts \in Nat \ {0}

ASSUME ActorsAssumption ==
  /\ Runs \cap Scanners = {}
  /\ Runs \cap Requests = {}
  /\ Scanners \cap Requests = {}
  /\ NoLease \notin Runs \cup Requests
  /\ Stalls \in BOOLEAN

Jobs   == 1 .. MaxJobs
Procs  == Runs \cup Scanners
Actors == Procs \cup Requests

VARIABLES
  disabled,     (* users.is_disabled of the owner                          *)
  storage,      (* materials.storage_status                                *)
  proc,         (* materials.processing_status; "cleanup" is FAILED with   *)
                (* error_message "Material index cleanup is pending"       *)
  lease,        (* materials.processing_lease_id: the run or request       *)
  leaseActive,  (* processing_lease_expires_at lies in the future          *)
  chunks,       (* runs whose MaterialChunk rows exist                     *)
  embedded,     (* those of them whose rows carry an embedding             *)
  blank,        (* the document parses to no chunk at all                  *)
  status,       (* material_jobs.status per job; "cleanup" is FAILED with  *)
                (* error_code INDEX_CLEANUP_PENDING                        *)
  attempt,      (* material_jobs.attempt_count                             *)
  due,          (* material_jobs.available_at is not in the future         *)
  queue,        (* jobs with a wakeup in Redis                             *)
  pc,           (* the point each run, scanner and request has reached     *)
  job,          (* the job a run or scanner works on                       *)
  att,          (* the attempt number a run claimed                        *)
  local,        (* a run's local state                                     *)
  seen,         (* what a scanner's storage scan loaded                    *)
  snap          (* the chunk ids a reprocess request read                  *)

ownerVars    == <<disabled, storage, blank>>
leaseVars    == <<proc, lease, leaseActive>>
indexVars    == <<chunks, embedded>>
jobVars      == <<status, attempt, due, queue>>
runVars      == <<job, att, local>>
readVars     == <<seen, snap>>
materialVars == <<leaseVars, indexVars>>
vars == <<disabled, storage, proc, lease, leaseActive, chunks, embedded, blank,
          status, attempt, due, queue, pc, job, att, local, seen, snap>>

-----------------------------------------------------------------------------
(* Values.                                                                 *)

StorageStatus == {"available", "deleting", "deleted"}
ProcessingStatus == {"pending", "processing", "ready", "failed", "cleanup"}
JobStatus == {"none", "queued", "running", "succeeded", "failed", "cleanup",
              "cancelled"}

RunPoints == {"idle", "claimed", "begin", "download", "parse", "intent", "index",
              "publish", "unindex", "erase", "resolve", "succeed", "cancel",
              "fail", "clean", "finish"}
ScanPoints == {"idle", "scan", "clean", "finish", "reap"}
RequestPoints == {"idle", "rebuild", "purge", "done"}

(* Local state of a run: saw, whether it read the material as PROCESSING;  *)
(* comp, whether its transaction holds an uncommitted deletion of its own  *)
(* chunk rows; expired, whether a rollback makes the next SELECT refresh   *)
(* its MaterialJob object; after, where _fail_indexing_intent returns to.  *)
RunState == [saw : BOOLEAN, comp : BOOLEAN, expired : BOOLEAN,
             after : {"idle", "resolve", "cancel", "fail"}]
NewRun == [saw |-> FALSE, comp |-> FALSE, expired |-> FALSE, after |-> "idle"]

(* What the storage scan can load: nothing to do, an interrupted deletion, *)
(* or an available material by its processing_status.                      *)
Findings == {"nothing", "deleting", "processing", "failed", "cleanup"}

MaterialTypeOK ==
  /\ disabled \in BOOLEAN
  /\ storage \in StorageStatus
  /\ proc \in ProcessingStatus
  /\ lease \in Runs \cup Requests \cup {NoLease}
  /\ leaseActive \in BOOLEAN
  /\ chunks \in SUBSET Runs
  /\ embedded \in SUBSET chunks
  /\ blank \in BOOLEAN

JobTypeOK ==
  /\ status \in [Jobs -> JobStatus]
  /\ attempt \in [Jobs -> 0 .. MaxAttempts]
  /\ due \in [Jobs -> BOOLEAN]
  /\ queue \in SUBSET Jobs

ActorTypeOK ==
  /\ pc \in [Actors -> RunPoints \cup ScanPoints \cup RequestPoints]
  /\ \A r \in Runs : pc[r] \in RunPoints
  /\ \A s \in Scanners : pc[s] \in ScanPoints
  /\ \A q \in Requests : pc[q] \in RequestPoints
  /\ job \in [Procs -> Jobs]
  /\ att \in [Runs -> 0 .. MaxAttempts]
  /\ local \in [Runs -> RunState]

ReadTypeOK ==
  /\ seen \in [Scanners -> Findings]
  /\ snap \in [Requests -> SUBSET Runs]

(* Every variable has its type; in particular an embedding only exists on  *)
(* a chunk row, however rows are deleted beside a run that still writes.   *)
TypeOK == MaterialTypeOK /\ JobTypeOK /\ ActorTypeOK /\ ReadTypeOK

-----------------------------------------------------------------------------
(* Conditions the transactions evaluate.                                   *)

Live(j) == status[j] \in {"queued", "running"}
LiveJobs == {j \in Jobs : Live(j)}

(* The material's latest job, and the next one to be created.              *)
Latest(j) == status[j] # "none" /\ \A k \in Jobs : k > j => status[k] = "none"
Fresh(j)  == status[j] = "none" /\ \A k \in Jobs : k < j => status[k] # "none"

HasBudgetOffByOne(n) == n <= MaxAttempts
HasBudget(n) == n < MaxAttempts

(* The guard of update_progress, is_cancelled, mark_succeeded and          *)
(* mark_cancelled: the job is RUNNING, at the attempt this run claimed.    *)
Holds(r) == status[job[r]] = "running" /\ attempt[job[r]] = att[r]

(* The guard of mark_failed.  Its SELECT lacks populate_existing: only     *)
(* after a rollback does it see the row, otherwise what claim_job loaded.  *)
SeemsHeld(r) == local[r].expired => Holds(r)

(* The guard of _mark_processing_attempt_ready.                            *)
Mine(p) == storage = "available" /\ proc = "processing" /\ lease = p

(* The guard of _reload_owned_processing_attempt: also an active lease and *)
(* exactly the chunk ids the caller wrote or read.                         *)
OwnedWithoutIds(p, ids) == Mine(p) /\ leaseActive
Owned(p, ids) == Mine(p) /\ leaseActive /\ chunks = ids

(* A run between its flush of a new lease and its next commit holds the    *)
(* materials row lock: no other transaction can lock or update the row.    *)
RowFree(p) == \A r \in Runs \ {p} : pc[r] # "download"

(* updated_at is older than material_job_stale_seconds (900 s; ARQ stops a *)
(* run after 300 s).                                                       *)
Stale(j) == Stalls \/ \A r \in Runs :
              job[r] = j /\ att[r] = attempt[j] => pc[r] = "idle"

LeaseOwnerStopped ==
  \/ lease \in Runs /\ pc[lease] = "idle"
  \/ lease \in Requests /\ pc[lease] # "rebuild"

-----------------------------------------------------------------------------
(* Effects shared by the transactions.                                     *)

(* processing_status is set and the lease columns are cleared.             *)
Settle(s) == proc' = s /\ lease' = NoLease /\ leaseActive' = FALSE

(* The UPDATE of a cancellation touches only pending or processing rows.   *)
FailIfPending == IF proc = "pending" THEN Settle("failed") ELSE UNCHANGED leaseVars
FailIfProcessing == IF proc = "processing" THEN Settle("failed") ELSE UNCHANGED leaseVars
FailIfInFlight == IF proc \in {"pending", "processing"} THEN Settle("failed")
                                                        ELSE UNCHANGED leaseVars

(* delete_material_chunks: every row of the material, whatever wrote it.   *)
DeleteChunks == chunks' = {} /\ embedded' = {}

(* Removal of one run's rows: nothing, or r's own.                         *)
DeleteOwn(r) == chunks' = chunks \ {r} /\ embedded' = embedded \ {r}
CommitComp(r) == IF local[r].comp THEN DeleteOwn(r) ELSE UNCHANGED indexVars

(* The end of an execution; its local variables are gone.                  *)
StopRun(r) ==
  /\ pc' = [pc EXCEPT ![r] = "idle"]
  /\ job' = [job EXCEPT ![r] = 1]
  /\ att' = [att EXCEPT ![r] = 0]
  /\ local' = [local EXCEPT ![r] = NewRun]

(* Where a cleanup continues that gives up: the run returns, the scan goes *)
(* on with its next candidate.                                             *)
EndCleanup(p) ==
  IF p \in Runs THEN StopRun(p)
  ELSE /\ pc' = [pc EXCEPT ![p] = "scan"]
       /\ job' = [job EXCEPT ![p] = 1]
       /\ UNCHANGED <<att, local>>

Goto(p, l) == pc' = [pc EXCEPT ![p] = l] /\ UNCHANGED runVars

GotoWith(r, l, ls) ==
  /\ pc' = [pc EXCEPT ![r] = l]
  /\ local' = [local EXCEPT ![r] = ls]
  /\ UNCHANGED <<job, att>>

(* A job row as the code rewrites it: queued and due or waiting, or closed.*)
Requeue(j, now) ==
  /\ status' = [status EXCEPT ![j] = "queued"]
  /\ due' = [due EXCEPT ![j] = now]
  /\ queue' = queue \cup {j}

SetStatus(j, s) ==
  /\ status' = [status EXCEPT ![j] = s]
  /\ due' = [due EXCEPT ![j] = FALSE]
  /\ UNCHANGED <<attempt, queue>>

-----------------------------------------------------------------------------
Init ==
  /\ disabled = FALSE /\ storage = "available" /\ proc = "pending"
  /\ lease = NoLease /\ leaseActive = FALSE
  /\ chunks = {} /\ embedded = {} /\ blank \in BOOLEAN
  /\ status = [j \in Jobs |-> IF j = 1 THEN "queued" ELSE "none"]
  /\ attempt = [j \in Jobs |-> 0]
  /\ due = [j \in Jobs |-> j = 1]
  /\ queue \in {{}, {1}}
  /\ pc = [a \in Actors |-> "idle"]
  /\ job = [p \in Procs |-> 1]
  /\ att = [r \in Runs |-> 0]
  /\ local = [r \in Runs |-> NewRun]
  /\ seen = [s \in Scanners |-> "nothing"]
  /\ snap = [q \in Requests |-> {}]

-----------------------------------------------------------------------------
(* The worker: claim, read, process.                                       *)

RolledBack == [NewRun EXCEPT !.expired = TRUE]

(* MaterialProcessingCancelled after a check, or the error that the first  *)
(* attribute access raises once a report has found the job lost and rolled *)
(* back.                                                                   *)
GiveUp(r) == \E l \in {"cancel", "fail"} : GotoWith(r, l, RolledBack)

(* claim_job.  A run's name may be used again once nothing mentions it.    *)
Claim(r, j) ==
  /\ pc[r] = "idle" /\ r \notin chunks /\ lease # r
  /\ \A q \in Requests : r \notin snap[q]
  /\ j \in queue /\ status[j] = "queued" /\ due[j] /\ ~disabled
  /\ queue' = queue \ {j}
  /\ due' = [due EXCEPT ![j] = FALSE]
  /\ IF HasBudget(attempt[j])
     THEN /\ status' = [status EXCEPT ![j] = "running"]
          /\ attempt' = [attempt EXCEPT ![j] = @ + 1]
          /\ pc' = [pc EXCEPT ![r] = "claimed"]
          /\ job' = [job EXCEPT ![r] = j]
          /\ att' = [att EXCEPT ![r] = attempt[j] + 1]
          /\ local' = [local EXCEPT ![r] = NewRun]
          /\ UNCHANGED leaseVars
     ELSE /\ RowFree(r)
          /\ status' = [status EXCEPT ![j] = "failed"]
          /\ Settle("failed")
          /\ UNCHANGED <<attempt, pc, runVars>>
  /\ UNCHANGED <<ownerVars, indexVars, readVars>>

(* process_material_job loads the material without a lock.                 *)
ReadMaterial(r) ==
  /\ pc[r] = "claimed"
  /\ IF storage = "available"
     THEN GotoWith(r, "begin", [NewRun EXCEPT !.saw = (proc = "processing")])
     ELSE Goto(r, "fail")
  /\ UNCHANGED <<ownerVars, materialVars, jobVars, readVars>>

(* report(5), then the flush of PROCESSING and a new lease: the row is     *)
(* locked, nothing is committed yet (no user lock).                        *)
Begin(r) ==
  /\ pc[r] = "begin"
  /\ IF Holds(r) THEN RowFree(r) /\ Goto(r, "download") ELSE GiveUp(r)
  /\ UNCHANGED <<ownerVars, materialVars, jobVars, readVars>>

(* report(25) commits the lease.  The ORM writes only changed attributes:  *)
(* a material loaded as PROCESSING keeps its current status.               *)
Downloaded(r) ==
  /\ pc[r] = "download"
  /\ IF Holds(r)
     THEN /\ proc' = IF local[r].saw THEN proc ELSE "processing"
          /\ lease' = r /\ leaseActive' = TRUE
          /\ GotoWith(r, "parse", NewRun)
     ELSE GiveUp(r) /\ UNCHANGED leaseVars
  /\ UNCHANGED <<ownerVars, indexVars, jobVars, readVars>>

(* report(45) and report(55); a document may yield no chunk at all.        *)
Parsed(r) ==
  /\ pc[r] = "parse"
  /\ IF Holds(r)
     THEN Goto(r, IF blank THEN "publish" ELSE "intent")
     ELSE GiveUp(r)
  /\ UNCHANGED <<ownerVars, materialVars, jobVars, readVars>>

(* A download, parse or chunking error: FAILED is committed without a look *)
(* at the lease (no user lock).                                            *)
FailBeforeIntent(r) ==
  /\ pc[r] \in {"download", "parse", "intent"}
  /\ RowFree(r)
  /\ Settle("failed")
  /\ GotoWith(r, "resolve", NewRun)
  /\ UNCHANGED <<ownerVars, indexVars, jobVars, readVars>>

(* A database error where nothing is to be compensated, also a deadlock.   *)
SqlError(r) ==
  /\ pc[r] \in {"begin", "download", "parse", "intent", "resolve", "succeed"}
  /\ GotoWith(r, "fail", RolledBack)
  /\ UNCHANGED <<ownerVars, materialVars, jobVars, readVars>>

(* The chunk ids are committed before the index write (no user lock).      *)
CommitIntent(r) ==
  /\ pc[r] = "intent"
  /\ chunks' = chunks \cup {r}
  /\ Goto(r, "index")
  /\ UNCHANGED <<ownerVars, leaseVars, embedded, jobVars, readVars>>

(* report(70), the user lock, the fence, the embeddings and report(95),    *)
(* whose commit ends the locked stretch.                                   *)
IndexUnfenced(r) ==
  /\ pc[r] = "index" /\ RowFree(r) /\ ~disabled
  /\ embedded' = embedded \cup ({r} \cap chunks)
  /\ Goto(r, "publish")
  /\ UNCHANGED <<ownerVars, leaseVars, chunks, jobVars, readVars>>
Index(r) ==
  /\ pc[r] = "index" /\ RowFree(r) /\ ~disabled
  /\ Holds(r) /\ Owned(r, {r})
  /\ embedded' = embedded \cup {r}
  /\ Goto(r, "publish")
  /\ UNCHANGED <<ownerVars, leaseVars, chunks, jobVars, readVars>>

(* The fence fails: rollback and a plain return, the chunk rows stay.      *)
IndexRefused(r) ==
  /\ pc[r] = "index" /\ RowFree(r) /\ ~disabled
  /\ ~Owned(r, {r})
  /\ GotoWith(r, "resolve", RolledBack)
  /\ UNCHANGED <<ownerVars, materialVars, jobVars, readVars>>

(* Everything else that can end the indexing: a lost job, a disabled       *)
(* owner, an embedding or database error, the worker's timeout.            *)
IndexFails(r) ==
  /\ pc[r] = "index"
  /\ \E a \in {"fail", "idle", "resolve"} \cup (IF Holds(r) THEN {} ELSE {"cancel"}) :
       GotoWith(r, "unindex", [NewRun EXCEPT !.after = a])
  /\ UNCHANGED <<ownerVars, materialVars, jobVars, readVars>>

(* _mark_processing_attempt_ready and the final commit (no user lock).     *)
(* The acknowledgement of a commit may be lost.                            *)
Publish(r) ==
  /\ pc[r] = "publish" /\ RowFree(r)
  /\ IF Mine(r)
     THEN /\ Settle("ready")
          /\ \/ GotoWith(r, "resolve", NewRun)
             \/ IF blank THEN GotoWith(r, "fail", RolledBack)
                ELSE GotoWith(r, "unindex", [NewRun EXCEPT !.after = "fail"])
     ELSE /\ GotoWith(r, "resolve", [RolledBack EXCEPT !.comp = ~blank])
          /\ UNCHANGED leaseVars
  /\ UNCHANGED <<ownerVars, indexVars, jobVars, readVars>>

PublishFails(r) ==
  /\ pc[r] = "publish"
  /\ IF blank THEN GotoWith(r, "fail", RolledBack)
     ELSE \E a \in {"fail", "idle"} :
            GotoWith(r, "unindex", [NewRun EXCEPT !.after = a])
  /\ UNCHANGED <<ownerVars, materialVars, jobVars, readVars>>

-----------------------------------------------------------------------------
(* The worker: compensation (_fail_indexing_intent) and settlement.        *)

Return(r, ls) == IF local[r].after = "idle" THEN StopRun(r)
                 ELSE GotoWith(r, local[r].after, ls)

(* The first transaction (no user lock).  READY is taken for its own; a    *)
(* lost lease deletes the run's rows without a commit, which only the      *)
(* caller that goes on in the same session may still commit.               *)
Unindex(r) ==
  /\ pc[r] = "unindex" /\ RowFree(r)
  /\ IF proc # "ready" /\ Mine(r)
     THEN Settle("cleanup") /\ Goto(r, "erase")
     ELSE /\ Return(r, [RolledBack EXCEPT
                        !.comp = (proc # "ready" /\ local[r].after = "resolve")])
          /\ UNCHANGED leaseVars
  /\ UNCHANGED <<ownerVars, indexVars, jobVars, readVars>>

(* The second transaction: rows and cleanup mark go together.              *)
Erase(r) ==
  /\ pc[r] = "erase" /\ RowFree(r)
  /\ DeleteOwn(r)
  /\ proc' = IF proc = "cleanup" THEN "failed" ELSE proc
  /\ Return(r, RolledBack)
  /\ UNCHANGED <<ownerVars, lease, leaseActive, jobVars, readVars>>

UnindexFails(r) ==
  /\ pc[r] \in {"unindex", "erase"}
  /\ Return(r, RolledBack)
  /\ UNCHANGED <<ownerVars, materialVars, jobVars, readVars>>

(* process_material_job looks at the job and the material once more.       *)
Resolve(r) ==
  /\ pc[r] = "resolve"
  /\ Goto(r, IF ~Holds(r) THEN "cancel"
             ELSE IF proc = "ready" THEN "succeed" ELSE "fail")
  /\ UNCHANGED <<ownerVars, materialVars, jobVars, readVars>>

MarkSucceeded(r) ==
  /\ pc[r] = "succeed"
  /\ IF Holds(r) THEN SetStatus(job[r], "succeeded") /\ CommitComp(r)
     ELSE UNCHANGED <<jobVars, indexVars>>
  /\ StopRun(r)
  /\ UNCHANGED <<ownerVars, leaseVars, readVars>>

MarkCancelled(r) ==
  /\ pc[r] = "cancel" /\ RowFree(r)
  /\ IF Holds(r) THEN SetStatus(job[r], "cancelled") /\ FailIfInFlight /\ CommitComp(r)
     ELSE UNCHANGED <<jobVars, leaseVars, indexVars>>
  /\ StopRun(r)
  /\ UNCHANGED <<ownerVars, readVars>>

(* mark_failed up to its first commit: the rows its session still shows.   *)
RowsLeft(r) == IF local[r].comp THEN chunks \ {r} ELSE chunks

RefuseFailure(r) ==
  /\ ~SeemsHeld(r)
  /\ StopRun(r)
  /\ UNCHANGED <<leaseVars, indexVars, jobVars>>

FailAfterReady(r) ==
  /\ SeemsHeld(r) /\ proc = "ready"
  /\ SetStatus(job[r], "succeeded") /\ CommitComp(r) /\ StopRun(r)
  /\ UNCHANGED leaseVars

(* Rows left behind fence the job; the run cleans them up itself unless it *)
(* has tried to.                                                           *)
FailWithRows(r) ==
  /\ SeemsHeld(r) /\ proc # "ready" /\ RowsLeft(r) # {}
  /\ SetStatus(job[r], "cleanup") /\ Settle("cleanup") /\ CommitComp(r)
  /\ IF proc = "cleanup" THEN StopRun(r) ELSE GotoWith(r, "clean", NewRun)

FailWithoutRows(r) ==
  /\ SeemsHeld(r) /\ proc # "ready" /\ RowsLeft(r) = {}
  /\ IF HasBudget(att[r])
     THEN Requeue(job[r], FALSE) /\ UNCHANGED attempt /\ Settle("pending")
     ELSE SetStatus(job[r], "failed") /\ Settle("failed")
  /\ CommitComp(r) /\ StopRun(r)

MarkFailed(r) ==
  /\ pc[r] = "fail" /\ RowFree(r)
  /\ \/ RefuseFailure(r)
     \/ FailAfterReady(r)
     \/ FailWithRows(r)
     \/ FailWithoutRows(r)
  /\ UNCHANGED <<ownerVars, readVars>>

-----------------------------------------------------------------------------
(* Index cleanup after a failure, by the run or by the recovery scan.      *)

(* _cleanup_material_index looks neither at the job nor at the status.     *)
CleanupIndex(p) ==
  /\ pc[p] = "clean" /\ RowFree(p)
  /\ DeleteChunks
  /\ Goto(p, "finish")
  /\ UNCHANGED <<ownerVars, leaseVars, jobVars, readVars>>

CleanupFails(p) ==
  /\ pc[p] = "clean"
  /\ EndCleanup(p)
  /\ UNCHANGED <<ownerVars, materialVars, jobVars, readVars>>

(* _finish_cleanup_recovery: only a job still waiting for its cleanup, on  *)
(* an available material, without rows unless READY, goes on.              *)
Finishable(p) == /\ status[job[p]] = "cleanup" /\ storage = "available"
                 /\ proc = "ready" \/ chunks = {}

FinishCleanup(p) ==
  /\ pc[p] = "finish" /\ RowFree(p)
  /\ disabled => p \in Scanners   (* the scan holds the user it read first *)
  /\ EndCleanup(p)
  /\ CASE ~Finishable(p) -> UNCHANGED <<leaseVars, jobVars>>
       [] Finishable(p) /\ proc = "ready" ->
            SetStatus(job[p], "succeeded") /\ Settle("ready")
       [] Finishable(p) /\ proc # "ready" /\ HasBudget(attempt[job[p]]) ->
            Requeue(job[p], p \in Scanners) /\ UNCHANGED attempt /\ Settle("pending")
       [] OTHER -> SetStatus(job[p], "failed") /\ Settle("failed")
  /\ UNCHANGED <<ownerVars, indexVars, readVars>>

(* ACCOUNT_DELETION_IN_PROGRESS ends the run, or the whole scan: only      *)
(* LookupError is caught per owner.                                        *)
AbortFinish(p) ==
  /\ pc[p] = "finish" /\ disabled
  /\ IF p \in Runs THEN StopRun(p)
     ELSE /\ pc' = [pc EXCEPT ![p] = "idle"] /\ job' = [job EXCEPT ![p] = 1]
          /\ UNCHANGED <<att, local>>
  /\ UNCHANGED <<ownerVars, materialVars, jobVars, readVars>>

-----------------------------------------------------------------------------
(* The recovery cron: the job scan.                                        *)

ScanStart(s) ==
  /\ pc[s] = "idle" /\ ~disabled
  /\ Goto(s, "scan")
  /\ UNCHANGED <<ownerVars, materialVars, jobVars, readVars>>

RecoverableWithoutCleanup(j) ==
  \/ status[j] = "queued" /\ due[j]
  \/ status[j] = "running" /\ Stale(j)
RecoverableWithoutStale(j) ==
  \/ status[j] = "queued" /\ due[j]
  \/ status[j] = "cleanup"
Recoverable(j) ==
  \/ status[j] = "queued" /\ due[j]
  \/ status[j] = "running" /\ Stale(j)
  \/ status[j] = "cleanup"

RecoverClosed(s, j) ==
  \/ /\ storage # "available"
     /\ SetStatus(j, "failed") /\ UNCHANGED leaseVars
  \/ /\ storage = "available" /\ proc = "ready"
     /\ SetStatus(j, "succeeded") /\ Settle("ready")
  \/ /\ storage = "available" /\ proc # "ready" /\ chunks = {}
     /\ ~HasBudget(attempt[j])
     /\ SetStatus(j, "failed") /\ Settle("failed")

RecoverAgain(s, j) ==
  /\ storage = "available" /\ proc # "ready" /\ chunks = {}
  /\ HasBudget(attempt[j])
  /\ Requeue(j, TRUE) /\ UNCHANGED attempt /\ Settle("pending")

(* The fence is committed before the index is touched.                     *)
RecoverFence(s, j) ==
  /\ storage = "available" /\ proc # "ready" /\ chunks # {}
  /\ SetStatus(j, "cleanup") /\ Settle("cleanup")

(* _recover_one_job, on the rows as they are now.                          *)
Recover(s, j) ==
  /\ pc[s] = "scan" /\ RowFree(s)
  /\ Recoverable(j)
  /\ \/ RecoverClosed(s, j) /\ UNCHANGED <<pc, job>>
     \/ RecoverAgain(s, j) /\ UNCHANGED <<pc, job>>
     \/ /\ RecoverFence(s, j)
        /\ pc' = [pc EXCEPT ![s] = "clean"] /\ job' = [job EXCEPT ![s] = j]
  /\ UNCHANGED <<ownerVars, indexVars, att, local, readVars>>

-----------------------------------------------------------------------------
(* The recovery cron: the storage scan, whoever the owner is.              *)

LeaseHeld == proc = "processing" /\ leaseActive

AbandonedInFlight == proc = "processing"
Abandoned == \/ proc = "processing"
             \/ proc \in {"failed", "cleanup"} /\ chunks # {}

FindingWithoutDeletion ==
  IF ~LeaseHeld /\ storage = "available" /\ Abandoned THEN proc ELSE "nothing"
Finding ==
  CASE ~LeaseHeld /\ storage = "deleting" -> "deleting"
    [] ~LeaseHeld /\ storage = "available" /\ Abandoned -> proc
    [] OTHER -> "nothing"

(* recover_stale_material_reservations loads its candidates first.         *)
ListMaterial(s) ==
  /\ pc[s] = "scan" \/ (pc[s] = "idle" /\ disabled)
  /\ Goto(s, IF Finding = "nothing" THEN "idle" ELSE "reap")
  /\ seen' = [seen EXCEPT ![s] = Finding]
  /\ UNCHANGED <<ownerVars, materialVars, jobVars, snap>>

EndScan(s) == /\ Goto(s, "idle")
              /\ seen' = [seen EXCEPT ![s] = "nothing"]

(* _reload_recoverable_material locks the row but, without                 *)
(* populate_existing, decides on the loaded object: only the chunk query   *)
(* is fresh.  (A rollback would expire the object, but then the loop's     *)
(* next attribute access raises and ends the scan: ReapNothing.)           *)
Reloaded(s) == IF seen[s] \in {"failed", "cleanup"} /\ chunks = {} THEN "nothing"
                                                                 ELSE seen[s]

(* A column is written only where it differs from what was loaded.         *)
ReapIndex(s) ==
  /\ pc[s] = "reap" /\ RowFree(s)
  /\ Reloaded(s) \in {"processing", "failed", "cleanup"}
  /\ DeleteChunks
  /\ IF seen[s] = "processing" THEN Settle("failed")
     ELSE /\ proc' \in IF proc # "cleanup" THEN {proc}
                       ELSE {"failed"} \cup ({"cleanup"} \ {seen[s]})
          /\ UNCHANGED <<lease, leaseActive>>
  /\ EndScan(s)
  /\ UNCHANGED <<ownerVars, jobVars, snap>>

(* The object is gone; the derived rows and the tombstone.                 *)
ReapDeleting(s) ==
  /\ pc[s] = "reap" /\ RowFree(s)
  /\ Reloaded(s) = "deleting"
  /\ DeleteChunks /\ storage' = "deleted"
  /\ EndScan(s)
  /\ UNCHANGED <<disabled, blank, leaseVars, jobVars, snap>>

(* Nothing to do any more, the owner's row is locked, or an error.         *)
ReapNothing(s) ==
  /\ pc[s] = "reap"
  /\ EndScan(s)
  /\ UNCHANGED <<ownerVars, materialVars, jobVars, snap>>

-----------------------------------------------------------------------------
(* Requests of the user and the operator.  A refused request changes       *)
(* nothing and is no step.                                                 *)

Answer(q) == Goto(q, "done")

(* cancel_material_job: the latest job only.                               *)
Cancel(q) ==
  /\ pc[q] = "idle" /\ RowFree(q) /\ ~disabled
  /\ \E j \in Jobs : /\ Latest(j) /\ Live(j)
                     /\ SetStatus(j, "cancelled")
  /\ FailIfInFlight
  /\ Answer(q)
  /\ UNCHANGED <<ownerVars, indexVars, readVars>>

(* retry_job: the user's latest job, or any failed one for the operator.   *)
Retry(q, j) ==
  /\ pc[q] = "idle" /\ RowFree(q) /\ ~disabled
  /\ status[j] \in {"failed", "cleanup"} /\ storage = "available"
  /\ DeleteChunks
  /\ Requeue(j, FALSE) /\ attempt' = [attempt EXCEPT ![j] = 0]
  /\ Settle("pending")
  /\ Answer(q)
  /\ UNCHANGED <<ownerVars, readVars>>

(* create_material_job: a live job is reused, else the next row inserted.  *)
CreateJob(st) ==
  IF \E j \in Jobs : st[j] \in {"queued", "running"}
  THEN /\ status' = st /\ UNCHANGED <<due, attempt>>
       /\ \E j \in Jobs : st[j] \in {"queued", "running"} /\ queue' = queue \cup {j}
  ELSE \E j \in Jobs :
         /\ Fresh(j)
         /\ status' = [st EXCEPT ![j] = "queued"]
         /\ due' = [k \in Jobs |-> k = j \/ (due[k] /\ st[k] = "queued")]
         /\ queue' = queue \cup {j}
         /\ UNCHANGED attempt

(* cancel_jobs_for_material, inside the caller's transaction.              *)
CancelEveryJob ==
  [j \in Jobs |-> IF status[j] # "none" THEN "cancelled" ELSE status[j]]
CancelledJobs == [j \in Jobs |-> IF Live(j) THEN "cancelled" ELSE status[j]]

(* reprocess_material before it touches the index: chunks of a material    *)
(* that is not READY are an unfinished cleanup and a conflict.             *)
ReprocessStart(q) ==
  /\ pc[q] = "idle" /\ RowFree(q) /\ ~disabled
  /\ storage = "available" /\ ~LeaseHeld
  /\ proc = "ready" \/ chunks = {}
  /\ IF chunks # {}
     THEN /\ proc' = "processing" /\ lease' = q /\ leaseActive' = TRUE
          /\ snap' = [snap EXCEPT ![q] = chunks]
          /\ status' = CancelledJobs
          /\ due' = [j \in Jobs |-> FALSE]
          /\ UNCHANGED <<attempt, queue>>
          /\ Goto(q, "rebuild")
     ELSE /\ Settle("pending") /\ CreateJob(CancelledJobs)
          /\ Answer(q) /\ UNCHANGED snap
  /\ UNCHANGED <<ownerVars, indexVars, seen>>

(* The fence, the deletion and the next job are one transaction.           *)
ReprocessFinish(q) ==
  /\ pc[q] = "rebuild" /\ RowFree(q) /\ ~disabled
  /\ Owned(q, snap[q])
  /\ DeleteChunks /\ Settle("pending") /\ CreateJob(status)
  /\ Answer(q) /\ snap' = [snap EXCEPT ![q] = {}]
  /\ UNCHANGED <<ownerVars, seen>>

(* delete_material: cancellation first, then the test for a live lease.    *)
DeleteStart(q) ==
  /\ pc[q] = "idle" /\ RowFree(q) /\ ~disabled
  /\ storage \in {"available", "deleting"}
  /\ LiveJobs # {} \/ ~LeaseHeld
  /\ status' = CancelledJobs
  /\ due' = [j \in Jobs |-> FALSE]
  /\ proc' = IF LiveJobs # {} \/ proc = "cleanup" THEN "failed" ELSE proc
  /\ lease' = NoLease /\ leaseActive' = FALSE
  /\ storage' = "deleting"
  /\ Goto(q, "purge")
  /\ UNCHANGED <<disabled, blank, indexVars, attempt, queue, readVars>>

(* The test for DELETING sees the object loaded above: always true.        *)
DeleteFinish(q) ==
  /\ pc[q] = "purge" /\ RowFree(q) /\ ~disabled
  /\ DeleteChunks /\ storage' = "deleted"
  /\ Answer(q)
  /\ UNCHANGED <<disabled, blank, leaseVars, jobVars, readVars>>

(* A stale attempt, a disabled owner, an object store or index error, or a *)
(* crash.                                                                  *)
RequestFails(q) ==
  /\ pc[q] \in {"rebuild", "purge"}
  /\ Answer(q) /\ snap' = [snap EXCEPT ![q] = {}]
  /\ UNCHANGED <<ownerVars, materialVars, jobVars, seen>>

Freeze(q) ==
  /\ pc[q] = "idle" /\ ~disabled
  /\ disabled' = TRUE
  /\ Answer(q)
  /\ UNCHANGED <<storage, blank, materialVars, jobVars, readVars>>

Thaw(q) ==
  /\ pc[q] = "idle" /\ disabled
  /\ disabled' = FALSE
  /\ Answer(q)
  /\ UNCHANGED <<storage, blank, materialVars, jobVars, readVars>>

-----------------------------------------------------------------------------
(* Time, Redis and failures.                                               *)

LeaseExpires ==
  /\ leaseActive /\ (Stalls \/ LeaseOwnerStopped) /\ RowFree(NoLease)
  /\ leaseActive' = FALSE
  /\ UNCHANGED <<ownerVars, proc, lease, indexVars, jobVars, pc, runVars, readVars>>

BackoffElapses(j) ==
  /\ status[j] = "queued" /\ ~due[j]
  /\ due' = [due EXCEPT ![j] = TRUE]
  /\ UNCHANGED <<ownerVars, materialVars, status, attempt, queue, pc, runVars, readVars>>

(* Redis loses it, or claim_job refuses it and returns None.               *)
LoseWakeup(j) ==
  /\ j \in queue
  /\ queue' = queue \ {j}
  /\ UNCHANGED <<ownerVars, materialVars, status, attempt, due, pc, runVars, readVars>>

(* The worker's wakeup may be delivered again.                             *)
CrashRun(r) ==
  /\ pc[r] \in CrashAt \cap (RunPoints \ {"idle"})
  /\ StopRun(r)
  /\ queue' \in {queue, queue \cup {job[r]}}
  /\ UNCHANGED <<ownerVars, materialVars, status, attempt, due, readVars>>

CrashScan(s) ==
  /\ pc[s] \in CrashAt \cap {"clean", "finish"}
  /\ pc' = [pc EXCEPT ![s] = "idle"] /\ job' = [job EXCEPT ![s] = 1]
  /\ UNCHANGED <<ownerVars, materialVars, jobVars, att, local, readVars>>

-----------------------------------------------------------------------------
(* Everything a claimed run does next.                                     *)
Work(r) ==
  \/ ReadMaterial(r) \/ Begin(r) \/ Downloaded(r) \/ Parsed(r)
  \/ FailBeforeIntent(r) \/ SqlError(r) \/ CommitIntent(r)
  \/ Index(r) \/ IndexRefused(r) \/ IndexFails(r)
  \/ Publish(r) \/ PublishFails(r)
  \/ Unindex(r) \/ Erase(r) \/ UnindexFails(r)
  \/ Resolve(r) \/ MarkSucceeded(r) \/ MarkCancelled(r) \/ MarkFailed(r)

Cleanup(p) ==
  \/ CleanupIndex(p) \/ CleanupFails(p) \/ FinishCleanup(p) \/ AbortFinish(p)

Scan(s) ==
  \/ ScanStart(s) \/ (\E j \in Jobs : Recover(s, j))
  \/ ListMaterial(s) \/ ReapIndex(s) \/ ReapDeleting(s) \/ ReapNothing(s)
  \/ CrashScan(s)

Request(q) ==
  \/ Cancel(q) \/ (\E j \in Jobs : Retry(q, j))
  \/ ReprocessStart(q) \/ ReprocessFinish(q)
  \/ DeleteStart(q) \/ DeleteFinish(q) \/ RequestFails(q)
  \/ Freeze(q) \/ Thaw(q)

Environment ==
  \/ LeaseExpires
  \/ \E j \in Jobs : BackoffElapses(j) \/ LoseWakeup(j)
  \/ \E r \in Runs : CrashRun(r)

Next ==
  \/ \E r \in Runs, j \in Jobs : Claim(r, j)
  \/ \E r \in Runs : Work(r)
  \/ \E p \in Procs : Cleanup(p)
  \/ \E s \in Scanners : Scan(s)
  \/ \E q \in Requests : Request(q)
  \/ Environment

Spec == Init /\ [][Next]_vars

-----------------------------------------------------------------------------
(* Fairness.  A live worker goes on with what it runs; the cron keeps      *)
(* coming; a due job whose wakeups are sent again and again is delivered   *)
(* at last; an index deletion that is tried again and again succeeds.      *)
(* Nothing is assumed of new requests, nor of an owner who is disabled.    *)

Fairness ==
  /\ \A r \in Runs : WF_vars(Work(r))
  /\ \A p \in Procs : /\ WF_vars(Cleanup(p))
                      /\ SF_vars(CleanupIndex(p)) /\ SF_vars(FinishCleanup(p))
  /\ \A j \in Jobs : /\ SF_vars(\E r \in Runs : Claim(r, j))
                     /\ WF_vars(BackoffElapses(j))
  /\ \A s \in Scanners :
       /\ WF_vars(ScanStart(s)) /\ WF_vars(ListMaterial(s)) /\ WF_vars(ReapNothing(s))
       /\ \A j \in Jobs : SF_vars(Recover(s, j))
       /\ SF_vars(ReapIndex(s)) /\ SF_vars(ReapDeleting(s))
  /\ \A q \in Requests :
       WF_vars(ReprocessFinish(q) \/ DeleteFinish(q) \/ RequestFails(q))
  /\ WF_vars(LeaseExpires)

FairSpec == Spec /\ Fairness

-----------------------------------------------------------------------------
(* Safety, also when processes stall.                                      *)

(* The two fences agree: a run that still passes the lease check of        *)
(* _mark_processing_attempt_ready, in the middle of whatever it does, also *)
(* passes the attempt check of the job, unless that very attempt has been  *)
(* marked SUCCEEDED.  Every transaction that takes the job away from a run *)
(* must therefore take the lease away with it.                             *)
OnlyRunningAttemptCanPublish ==
  \A r \in Runs : pc[r] # "idle" /\ Mine(r) =>
                    Holds(r) \/ status[job[r]] = "succeeded"

(* No embedding of a deleted material exists, however late a worker wakes  *)
(* up: delete_material and the storage recovery delete what is there, and  *)
(* _reload_owned_processing_attempt lets no run write more.                *)
DeletedIsUnindexed == storage = "deleted" => embedded = {}

(* The search, which reads only rows with an embedding, never finds one    *)
(* material in the chunks of two attempts, however many runs index it side *)
(* by side (_reload_owned_processing_attempt compares the chunk ids).      *)
OneAttemptIsFound == \A r1, r2 \in embedded : r1 = r2

(* Safety while the time limits are kept.  Runs, cleanups, scans and       *)
(* requests still interleave in every way.                                 *)

(* A queued job may still be claimed: claim_job never has to close it with *)
(* MAX_ATTEMPTS_EXCEEDED.                                                  *)
QueuedHasBudget ==
  \A j \in Jobs : /\ status[j] = "queued" => attempt[j] < MaxAttempts
                  /\ status[j] = "running" => attempt[j] \in 1 .. MaxAttempts

(* No material is left PENDING with nothing to process it, by whatever     *)
(* path its jobs were cancelled, failed or closed (cancel_material_job,    *)
(* mark_failed, _finish_cleanup_recovery, reprocess_material).             *)
PendingHasJob == storage = "available" /\ proc = "pending" => LiveJobs # {}

(* SUCCEEDED is final: no late transaction of a run, a scan or a request   *)
(* reopens or relabels the job.                                            *)
SucceededStays ==
  [][\A j \in Jobs : status[j] = "succeeded" => status'[j] = "succeeded"]_vars

(* Liveness, for an owner who is not disabled.                             *)

(* Every job is closed in the end, through crashes, lost wakeups and       *)
(* retries (recover_jobs).                                                 *)
JobsSettle == \A j \in Jobs : Live(j) ~> ~Live(j) \/ disabled

(* A job fenced for cleanup does not wait for ever.                        *)
CleanupsEnd ==
  \A j \in Jobs : status[j] = "cleanup" ~> status[j] # "cleanup" \/ disabled

(* Chunk rows that no READY material needs disappear, whichever of the two *)
(* scans finds them, even when the owner is disabled.                      *)
LeftoversGo ==
  storage = "available" /\ proc \in {"failed", "cleanup"} /\ chunks # {}
    ~> chunks = {} \/ proc \notin {"failed", "cleanup"} \/ storage # "available"

(* A deletion that was interrupted is completed by the storage recovery.   *)
DeletionEnds == storage = "deleting" ~> storage = "deleted"

-----------------------------------------------------------------------------
(* What the documentation says and the code does not do.                   *)

(* A READY material that has text can be found: no cleanup or scan that    *)
(* was decided for an earlier attempt has deleted its index.               *)
ReadyIsFound ==
  storage = "available" /\ proc = "ready" /\ ~blank => embedded # {}

(* Once no job of a READY material is queued or running, only a request    *)
(* takes READY away: not a recovery, a cleanup or a run that comes late.   *)
ReadyRests ==
  [][proc = "ready" /\ proc' # "ready" =>
       LiveJobs # {} \/ \E q \in Requests : pc'[q] # pc[q]]_vars

(* The tombstone is written after the chunks are deleted, for good.        *)
TombstoneIsClean == storage = "deleted" => chunks = {}

(* An attempt number fences every run but one.                             *)
OneRunPerAttempt ==
  \A r1, r2 \in Runs :
    r1 # r2 /\ pc[r1] # "idle" /\ pc[r2] # "idle" /\ Holds(r1) /\ Holds(r2)
      => job[r1] # job[r2]
=============================================================================
