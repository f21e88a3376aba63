# Verification of the exam review agent

The repository is a FastAPI backend with an ARQ worker, a PostgreSQL database, Redis, an
S3 object store and a Next.js frontend. A user uploads course material; a worker parses
it and indexes its chunks; chat, quizzes and review work on the index. The hard part of
the program is that an API process, several workers and a recovery cron change the same
rows in many short transactions, each of which can be the last one before a crash. That
part has two modules: `MaterialJobs` follows one uploaded material through its jobs and its
index, `MaterialStorage` follows all files of one user through upload, quota, object store,
deletion, the storage scan and the deletion of the account. The other half is the browser.
`Sessions` has the tabs of one browser, their shared cookies and the refresh tokens of the
backend, and implements the abstract `SessionLife`. `Workspace` is the page a user works on:
its panels await the backend and then write to shared stores, whatever happened meanwhile.
Each of the four has its theorems in modules `_proofs` and the constants of its runs in a
module `MC`.

## Inventory

| Component (under `src/backend/app` unless said otherwise) | State it keeps | Operations that change it | What makes it hard | What makes it correct |
|---|---|---|---|---|
| Material jobs, `services/job_service.py` | `material_jobs`: status, attempt_count, available_at, error_code | create, claim, progress, succeed, cancel, fail, retry, recover, set priority | worker, cron and API on the same job; attempt numbers as fences; lost wakeups | every job ends; success is final; attempts stay in budget; no material waits without a job |
| Worker, `tasks/parse_material.py`, `tasks/worker.py` | the run's local objects, kept over commits | `process_material_job`, `recover_material_jobs` | stalls, redelivery, crash between any two commits | what a run decides on is still true |
| Material processing, `api/materials.py` | `materials`: storage_status, processing_status, lease; `material_chunks` | process, reprocess, delete, upload | the index write is between two transactions; four fences (job status, attempt, lease, exact chunk ids) | READY means one attempt's complete index; a tombstone has none |
| Storage recovery, `services/material_storage_cleanup.py` | the same rows | resume deletions, drop leftover chunks, release reservations | candidate list grows stale | leftovers go, nothing live goes |
| Upload, quota, object store, `api/materials.py`, `services/quota_service.py`, `services/object_storage.py` | RESERVED rows, object versions | reserve, stage, PUT, verify, finalise | a PUT that times out and succeeds later; two-step quota | never over the limits; no object without a row |
| Account deletion, `services/account_deletion_service.py` | `account_deletion_jobs`, `users.is_disabled` | request, execute, fail, retry | external artefacts first, rows last; a crash while running | once finished nothing of the user is left |
| Authentication, `services/auth_service.py`, `core/auth.py` | `refresh_tokens`, `invite_codes`, `users` | register, login, rotate, logout, disable | rotation against revocation, in other tabs and by an administrator; reuse detection; invite limits | one unrevoked token per session; what is ended stays ended |
| API client and gate, `src/frontend/src/lib/api.ts`, `components/auth/AuthGate.tsx` | the shared refresh promise, the cookies of the browser | call, refresh once and retry, log in and out | calls that fail together; two tabs with the same cookies; lost answers | one tab is never taken for a thief; no call waits for ever |
| Courses, `services/course_service.py` | `courses.is_default` | create, update, delete | replacement of the default, materials in flight | exactly one default |
| Conversations and memory, `services/memory_service.py`, `api/chat.py` | conversation counters, learning profile | save message, merge profile, auto title | overlapping requests, read-modify-write | counter equals messages |
| Review, `api/review.py`, `repositories/mistakes.py` | mistake status, review history | record, update, schedule | history written back from a stale read | no event lost |
| LLM service, `services/llm_service.py` | failure counter, last failure time | invoke, retry, fall back | concurrent calls around the recovery window | opens at the threshold, closes after success |
| Retrieval, chunking, `services/retrieval_service.py`, `services/chunking_service.py` | embeddings of chunk rows | index, search, delete | windows and fusion at boundaries | every character in a chunk; stable ranks |
| Request limits, `core/middleware.py` | times of recent requests | admit or refuse | window boundary | at most the limit per window |
| Orchestrator, agents, specialists | none between requests | prompts around LLM calls | – | adaptive difficulty stays in range |
| Workspace stores and page, `src/frontend/src/stores`, `app/page.tsx`, `lib/materialScope.ts` | chatStore, quizStore, the list of materials, the scope of the next question | every panel writes | handlers that write what they knew before an await | the scope names ready materials only |
| Chat client, `hooks/useChatStream.ts`, `components/ChatInput.tsx`, `AppSidebar.tsx`, `Header.tsx` | the questions on their way, the abort controller, the conversation shown | ask, stop, open, create, delete | a stream while the view is replaced; answers out of order | what is shown belongs together; the input comes back |
| Materials panel, `hooks/useMaterials.ts`, `components/AppSidebar.tsx` | the list, its flags, the poll interval | list, poll, upload, delete, select | an old list after a newer one | no material is pending for ever |
| Quiz card, `components/QuizCard.tsx` | answers, grades, index | pick, submit, page | a grade after another pick, or after another quiz | mark and grade agree |
| Review workbench, `components/review/*.tsx` | the list, the selection, the note, the daily session, flags | filter, select, save, master, daily review, quizzes | the selection moves while a note is typed; the workbench goes while calls run | a note is stored for its mistake; flags come back |
| Schema and tenant isolation, `db/models.py`, `db/database.py` | all tables | – | row-level security runs in PostgreSQL | – |

Interactions. The API creates a job in the transaction that makes the upload available,
then enqueues a wakeup in Redis. A worker that receives it claims the job (RUNNING, attempt
+ 1) and calls `_process_material`, which reports progress through the job service between
its own commits. Every 15 minutes the cron first recovers jobs (`recover_jobs`: due, stale
or cleanup-pending ones), then storage (`recover_stale_material_reservations`). Course,
account and material deletion take the same `users` row lock, so most transactions of one
owner are serial; what is not serial is what they remember from one to the next.

In the browser every panel calls the backend through `lib/api.ts` (the chat stream through
`fetchEventSource`) with the cookies all tabs share. One page is one thread: a handler runs
to its next `await`. The panels meet in two zustand stores, in the list of materials the page
holds, and in the mode, which decides what is mounted.

## MaterialJobs

`MaterialJobs.tla` is the life of one uploaded material: its jobs, the runs that process
it, the recovery cron's scans and the requests of its owner and the operator.

**Steps.** One action is one transaction, or a stretch of code that keeps a row locked from
its first read to its commit. Consecutive code that touches neither the database nor a
decision is folded into the next transaction.

**State.** `storage`, `proc`, `lease`, `leaseActive` are the columns of `materials`;
`chunks` and `embedded` say which runs' chunk rows exist and carry embeddings (a run's
random chunk ids are represented by the run); `status`, `attempt`, `due` are columns of
`material_jobs`; `queue` is what Redis still holds. FAILED with error code
`INDEX_CLEANUP_PENDING` is decided on in several places and is a status of its own,
`"cleanup"`, for jobs and materials alike. `pc`, `job`, `att`, `local`, `seen` and `snap`
are the positions and local variables of the processes. `blank` fixes once whether the
document has any text at all (a document without chunks takes its own path to READY).

**Remembered rows.** Sessions are opened with `expire_on_commit=False`, so a second SELECT
of a loaded object returns its old attributes unless it says `populate_existing` or a
rollback came between. The model keeps the difference where a decision depends on it:
`SeemsHeld` (the guard of `mark_failed`), `Reloaded` (the second look of the storage scan),
the status test of `delete_material` before the tombstone (always true), and `saw` (the ORM
writes `processing_status` only where it differs from what was loaded).

| Actions | Code |
|---|---|
| `Claim` | `claim_job` |
| `ReadMaterial`, `Begin`, `Downloaded`, `Parsed`, `CommitIntent`, `Index`, `Publish` and their failures | `process_material_job`, `_process_material`, `_mark_processing_attempt_ready` |
| `Unindex`, `Erase`, `UnindexFails` | `_fail_indexing_intent`, `_compensate_indexed_chunks` |
| `Resolve`, `MarkSucceeded`, `MarkCancelled`, `MarkFailed` | end of `process_material_job`, `mark_*` |
| `CleanupIndex`, `FinishCleanup` and their failures | `_cleanup_material_index`, `_finish_cleanup_recovery` |
| `ScanStart`, `Recover` | `recover_jobs`, `_recover_one_job` |
| `ListMaterial`, `ReapIndex`, `ReapDeleting`, `ReapNothing` | `recover_stale_material_reservations` |
| `Cancel`, `Retry`, `ReprocessStart/Finish`, `DeleteStart/Finish`, `Freeze`, `Thaw` | the endpoints and their services |
| `LeaseExpires`, `BackoffElapses`, `LoseWakeup`, `CrashRun`, `CrashScan` | time, Redis and process failures |

**Stalls.** Nothing in the code keeps two runs of one material apart, or a run from a cleanup
or a scan: `claim_job` looks at the owner and at its own job only, the recovery fences a job
whatever else is at work, and a scan keeps its list while it works through it. The model has
no such guard either: runs, cleanups, scans and requests overlap freely, always. What timing
does decide is whether a job may be taken for dead while its run still works. ARQ stops a
job after 300 s (its default; the code sets none), while a RUNNING job is stale only after
900 s (`core/config.py:39`) and a lease lasts one hour (`api/materials.py:56`). As long as
these are kept (`Stalls = FALSE`), no job is recovered and no lease runs out under a run at
work (`Stale`, `LeaseExpires`). A process that is suspended for longer (a paused container, a
blocked event loop that delays ARQ's cancellation) breaks this: `Stalls = TRUE`. What must
hold always is checked and proved with it. What relies on the limits is checked and proved
without it and is false with it: a late transaction then reopens a SUCCEEDED job, a queue
entry outlives its budget.

## MaterialStorage

`MaterialStorage.tla` is the storage of one user: the quota counts the rows of the user, and
every handler here first locks the row of the user.

**Steps.** One action is one transaction, one call of the object store, or a SELECT that is
acted on in a later statement. `LockFree` is the lock of the users row: an upload keeps it
from the start of its PUT to its commit (`"put"`, `"stored"`), the execution of an account
deletion until it ends (`cleaning`). What an upload does to take back a reservation
(`_discard_reservation`) locks nothing, so its SELECT and its UPDATE by primary key are
two steps.

**State.** `store`, `hash` (which also determines the size) and `uncertain` are
`materials.storage_status`, `hash` and `object_write_uncertain`; `object` is what the bucket
has under the material's key, `late` that a PUT the client has given up may still take
effect. `disabled` and `deletion` are `users.is_disabled` and
`account_deletion_jobs.status`; the status RUNNING is only ever visible inside the one
transaction of an execution, which is `cleaning`, `artifacts` and `blocked`. `pc`, `target`
and `seen` are local to the handlers.

**A scan decides on what it has loaded.** The storage scan loads all candidates, then takes
them one by one, under a lock, with a second SELECT that does not refresh the loaded object.
`seen` is therefore what the scan saw when it made its list, and its UPDATEs write only what
differs from that: a material loaded as DELETING is not written at all before its object
goes, the flag of an uncertain PUT is cleared only if it was loaded as set.

| Actions | Code |
|---|---|
| `Reserve`, `Stage`, `StartPut`, `Refuse`, `PutObject`, `PutFails`, `Finalize` | `upload_material` |
| `Compensate`, `PurgeUpload`, `EraseUpload` | `_discard_available_material_after_job_failure` |
| `LookUnsure`, `MarkUncertain`, `LookUndo`, `RemoveObject`, `RemoveFails`, `LookDiscard`, `DropReservation` | `_discard_reservation` and its callers |
| `DeleteStart`, `PurgeMaterial`, `DeleteFinish`, `DeleteFails` | `delete_material` |
| `ListCandidates`, `TakeCandidate`, `SkipCandidate`, `PurgeCandidate`, `FinishCandidate`, `PostponeCandidate`, `EndScan` | `recover_stale_material_reservations` |
| `RequestDeletion`, `StartCleaning`, `CleanArtifact`, `CleaningFails`, `DeleteUser`, `CrashCleaning` | `AccountDeletionService`, `AccountArtifactCleaner` |
| `Enable` | `AuthService.update_user` |
| `Land`, `CrashUpload` | the object store, process failures |

**Hasty.** A scan lists only rows older than `material_job_stale_seconds` (15 minutes). An
upload gives up its PUT after seconds (`services/object_storage.py` sets the timeouts and a
single attempt), so by then it is over and its PUT has landed or never will: `Hasty = FALSE`.
The command `cli/recover_material_storage.py` accepts `--older-than-minutes 1`, and an upload
may wait long for the lock: `Hasty = TRUE` lets a scan list any row. What does not depend on
it is proved for both. `NoUnknownObject`, `QuotaHeld`, `TombstoneIsCertain`,
`TombstoneStays` and `AvailableRests` rely on the window and are false without it; their
theorems assume `~Hasty`.

**One scan at a time.** The cron's `job_id` keeps it single, the command is not kept from
running beside it. With two scans `TombstoneStays` fails (see Observations) and `QuotaHeld`
with it, so `storage_orderly` has one. The other properties were seen to hold with two scans and
two uploads as well.

## Sessions

`Sessions.tla` has the tabs of one browser and the token rows of one account.

**Steps.** A client action is a handler, or what follows one `await` up to the next. A
transaction of the backend is split where a statement may wait for a row lock: `RotateReads`
holds the token row (`SELECT ... FOR UPDATE`) until `RotateCommits`; inserting the
replacement needs a key-share lock on the user, which `update_user` holds exclusively
(`UserRowFree`). The two orders meet in a deadlock that PostgreSQL ends by aborting one side
(`AbortRotation`, `AbortDisable`). An UPDATE of many rows works on the rows it saw when it
began (`snap`), so a replacement inserted meanwhile is not revoked by it.

**State.** `status`, `sid` and `disabled` are the columns of `refresh_tokens` and `users`, a
session being named after its first token; `jar` is what all tabs would send as cookies,
`stale` the tokens whose access token has expired; `page`, `call` and `req` are a tab's page,
its calls and its requests to `/api/auth`. When a tab is reloaded a request that was on its
way becomes an `"orphan"`: the backend still processes it, but nobody hears the answer.
`carried` and `lost` are history, kept for `OneTabIsNoThief` only.

| Actions | Code |
|---|---|
| `UserCall`, `Serve`, `Deny`, `ReceiveDenied`, `GiveUp`, `ReceiveRedenied`, `GateRefresh` | `fetch`, `rawFetch`, `refreshSession`, `unwrap` in `lib/api.ts`; `useChatStream.ts` does the same by itself |
| `refreshPromise`, `RefreshSucceeds`, `RefreshFails` | the promise that calls failing together share |
| `EnterGate`, `OpenTab`, `SubmitLogin`, `SubmitLogout`, `LoginAnswered`, `LogoutAnswered`, `Reload` | `AuthGate`, `LoginPage`, `Header`, the browser |
| `LoginReads`, `LoginCommits`, `RotateReads`, `RotateCommits`, `RefuseUnknown`, `LogoutReads`, `RevokeCommits`, `InsertFails` | `AuthService` and `api/auth.py` |
| `DisableReads`, `DisableCommits`, `Enable` | `update_user` |
| `AccessExpires`, `TokenExpires`, `LoseCall`, `LoseRequest`, `LoseAnswer`, `AbortRotation`, `AbortDisable` | time, the network, PostgreSQL |

**The abstract specification.** `SessionLife` is what the rest of the system relies on: a
session is opened once, may be ended, alone or with others, and never comes back. It has no
tokens. `SessionsEnd` is its specification under the mapping `LifeOf`, which reads the life
of a session off its token rows; a rotation is a stutter of it.

## Workspace

`Workspace.tla` composes four modules over `WorkspaceStores.tla`: `ChatClient`,
`MaterialPanel`, `QuizPanel` and `ReviewPanel`, each with its private state.

**Steps.** A handler or a continuation runs to its next `await`, and React runs the effects
of a change before the next event; each is one step with the effects it causes. `Commit`
writes the chat store and the list together with the sidebar's effect on the scope
(`getNextReadyMaterialScope`), so no module can forget it. What the backend does with a call
is a step of its own, so answers overtake each other, and a value read before an `await` is
kept in the record of the handler (`scope`, `closure`, `filter`).

**State.** `chat` and `quiz` are the stores. The list of messages is kept as the
conversation whose history is shown (`base`) and the questions whose bubbles follow it
(`bubbles`); a quiz as its length, the family of its question ids, and the answers and
grades. `panel` is `useMaterials`. `send`, `nav`, `job`, `submit` and `task` are the handlers
on their way, `server`, `files` and `book` what the backend has. `crossed` is true while the
view that is shown replaced another one under a stream, `restarted` once a daily review was
started again while open; both are history.

| Module | Actions | Code |
|---|---|---|
| `WorkspaceStores` | the updates, `Commit` | `chatStore.ts`, `quizStore.ts`, `materialScope.ts`, the effect in `AppSidebar.tsx` |
| `ChatClient` | `SubmitQuestion`, `QuickQuestion`, `AbortClick`, `ConversationEvent`, `TokenEvent`, `DoneEvent`, `CloseStream`, `StreamFails`, `DenyQuestion`, `Reconnect` | `useChatStream.ts`, `ChatInput.tsx`, `QuickActions` |
| | `SwitchConversation`, `DeleteConversation`, `NewConversation`, `ShowConversation`, `StartConversation`, `SwitchMode` | `AppSidebar.tsx`, `useCreateConversation.ts`, `page.tsx`, `Header.tsx` |
| | `AcceptQuestion`, `save_message`, `ServeActive`, `ServeHistory`, `ServeDelete`, `ServeList`, `ServeCreate` | `api/chat.py`, `api/conversations.py`, `memory_service.py` |
| `MaterialPanel` | `Poll`, `UploadFiles`, `DeleteMaterial`, `toggleScope`, `FetchAfter`, `ReceiveMaterials`, `JobFails` | `page.tsx`, `useMaterials.ts`, `AppSidebar.tsx` |
| | `ServeUpload`, `ServeDeletion`, `ServeMaterials`, `StartProcessing`, `EndProcessing` | the backend, as far as the list shows it (its detail is in MaterialJobs) |
| `QuizPanel` | `PickOption`, `SubmitAnswer`, `ReceiveScore`, `SubmitFails`, `nextQuestion`, `prevQuestion` | `QuizCard.tsx`, `quizStore.ts` |
| `ReviewPanel` | `Mount`, `Unmount`, `SetFilter`, `Refresh`, `SelectMistake`, `TypeNote`, `SaveCorrection`, `ToggleMastered`, `StartExplain`, `StartPlan`, `StartExport`, `retestConcept`, `createSimilarQuiz` | `ReviewWorkbench.tsx` and its children |
| | `StartDailyReview`, `TypeDailyNote`, `DailyNext`, `LeaveDaily` | `DailyReviewFlow.tsx` |
| | `Serve...`, `Receive...`, `TaskFails` | `api/review.py` and the continuations |

**What is abstracted.** Contents of messages, explanations, plans and exports; labels and
layout. The four filters of the list are one. The sidebar's own list of conversations is not
kept: any conversation ever created may be clicked, as it may still be shown when it is
gone. Whether an aborted stream writes its bubble once more depends on `fetchEventSource`,
so both happen. Of an expired session only the stream's own refresh is here; the rest is in
Sessions.

**The replaced view.** The code lets a user open another conversation while an answer
streams. The tokens then go to the wrong view, and the `conversation` event sets back its id.
`OneStreamAtATime` and `ViewIsOneConversation` are stated for the other views, where they
hold in every order of events; see Observations for the rest.

## Runs

All bounds of MaterialJobs are constants of the cfg: jobs created (`MaxJobs`), attempts per job
(`MaxAttempts`, 3 in the code), runs, scanners, requests (one state-changing operation
each) and `CrashAt`, the points at which a process may stop for good. `Runs` and `Requests` are
interchangeable and symmetric (not in the liveness run).

| Run | Bounds | Shows |
|---|---|---|
| `jobs_in_time` | 2 jobs, 2 attempts, 2 runs, 1 scanner, 2 requests, no stalls, crashes everywhere; 3.3M states | types; a queued job may be claimed (`QueuedHasBudget`); a pending material has a live job (`PendingHasJob`); SUCCEEDED is final (`SucceededStays`). Deadlock is checked. |
| `jobs_stalled` | 2 jobs, 2 attempts, 2 runs, 1 scanner, 1 request, stalls, crashes around the index write and the cleanup; 4.8M states | lease fence and attempt fence agree (`OnlyRunningAttemptCanPublish`); a tombstone has no embedding (`DeletedIsUnindexed`); only one attempt's chunks are ever found (`OneAttemptIsFound`) |
| `jobs_liveness` | 1 job, 2 attempts, 1 run, 1 scanner, 2 requests, no stalls, crashes everywhere; 28k states | jobs end (`JobsSettle`), cleanups end (`CleanupsEnd`), leftover chunks go (`LeftoversGo`), deletions end (`DeletionEnds`) |
| `ready_is_found`, `ready_rests`, `tombstone_is_clean`, `one_run_per_attempt` | smallest instance with the trace | see Findings |
| `storage_orderly` | 3 uploads, 2 contents of sizes 1 and 2, limits of 2 files and 2 bytes, 1 scanner, 1 deletion, not hasty; 1.9M states | types; every object has a row that leads to it (`NoUnknownObject`); the limits hold with two-step reservation (`QuotaHeld`); no file twice (`NoDuplicates`); an available material can be downloaded (`AvailableHasObject`); tombstones stay and do not keep the account (`TombstoneStays`, `TombstoneIsCertain`); only requests take a material away (`AvailableRests`) |
| `storage_liveness` | 2 uploads, 1 content, limits of 1 file and 2 bytes, 1 scanner, 1 deletion, not hasty; 56k states | reservations, deletions and the account deletion end (`ReservationsEnd`, `DeletingEnds`, `AccountDeletionEnds`) |
| `available_is_stored` | 2 uploads, 1 scanner | see Findings |
| `sessions` | 2 tabs, 2 calls each beside the gate's, 3 tokens, 3 clicks, 1 fault; 695k states | types; a session has one unrevoked token (`OneUnrevokedToken`); a logout that succeeded is final (`LogoutEndsSession`), so is disabling (`DisablingEndsSessions`); a lone tab is not taken for a thief (`OneTabIsNoThief`); the rows implement SessionLife (`SessionsEnd`); every call and gate comes to rest (`TabsComeToRest`) |
| `workspace` | 2 materials, 3 conversations, 2 questions asked, 2 questions of 2 options in a quiz, 2 mistakes, 2 handlers of each kind; clicks and faults per scenario; 1.12M states | types; the input comes back (`InputComesBack`); one stream (`OneStreamAtATime`); one conversation in view (`ViewIsOneConversation`); the scope is ready (`ScopeIsReady`); the quiz card (`IndexInRange`, `AnswerMatchesScore`); the workbench (`CorrectionsAreTheirOwn`, `FlagsAreReleased`); polling ends (`PendingResolves`) |

Why these bounds are enough: with two attempts there is a first, a last and (through retry)
a repeated attempt number; with two jobs an old and a new one, which is the most one
material can have live business with at a time; with two runs an old and a new worker; one
scanner because the cron's `job_id` keeps it single. Two requests allow a cancellation and a
reprocess, a retry or a deletion against the same run, as `ready_rests` shows. The liveness
run has one worker, which may be in any of its steps when a scan comes; with a second one the
check of the temporal formulas takes too long. The theorems below have no such bounds.

In MaterialStorage each upload and each deletion happens once, scans and executions of the
account deletion any number of times. Three uploads against a limit of two files are one that
holds a slot, one that gives its slot back and one that gets it; the larger content fills the
bytes by itself, the smaller twice. In the liveness run a second upload can only get a slot
the first one has returned. The storage runs do not check deadlock: once every request is
done and nothing is left to recover, the system really stops.

In Sessions two tabs are the one that rotates and the one that presents the old token; two
calls of a tab share a refresh, and a third token is the replacement of a replacement or a
second login. Three clicks are two calls and a logout, or a login, a disabling and an
enabling; the fault is one lost request, lost answer or expired token. In Workspace two
handlers of a kind overtake each other. Its scenarios (`MCScenarios`) say how many clicks
each part gets, whether a call may fail, and what the backend has at the start: each part
alone with the most clicks, and the parts that meet in a store together (chat with quiz, chat
with quiz and review, chat with review, whose mode switch mounts the workbench). The theorems
below do not depend on them. Both runs skip the deadlock check: once the clicks are spent and
every answer is in, the system rests until the user comes back.

**Fairness of MaterialJobs** (`Fairness`). A worker that is alive goes on (weak fairness on `Work`, on
`Cleanup` and on time). The cron keeps coming and finds what it may recover (strong, because
its guards come and go with locks). A due job whose wakeup is sent again by each scan is
delivered in the end, an index deletion repeated by each scan succeeds in the end (strong:
Redis and PostgreSQL are not down for ever). Nothing is assumed of users; jobs of a disabled
owner are excused because `recover_jobs` skips them. Crashes remain unfair: without these
assumptions a process may simply stop at every attempt.

**Fairness of MaterialStorage** (`StorageFairness`). Handlers go on while their process lives
and late PUTs are decided. Whenever there are candidates again and again, a scan starts again
and again at a time when the users row is free; it finds the row free and the store working
now and then (strong). The owner retries a failed account deletion (strong), which nothing in
the code does by itself, and from some time on executions end without success only because
they read a material that must stay. Without the last assumption an execution may crash every
time.

**Fairness of Sessions** (`SessionsFairness`). A tab handles what has arrived and its calls are
answered; the backend goes on with a request it has; an open `update_user` commits or is
aborted. All weak: nothing competes with these steps for good. A request the network loses
ends with an error in the tab. Users, expiry and losses are free.

**Fairness of Workspace** (`WorkspaceFairness`). The page's interval fires, its handlers go
on, and the worker ends with each material (for which `jobs_liveness` is the reason). Weak
again. Nothing is assumed of the user, of chat, quiz and review, or of failures.

**Mutants.** The definitions with a suffix (`HasBudgetOffByOne`, `FailIfPending`, ...) are
plausible slips of the definition after them. Each checked property fails under one of them.

## Findings

Five statements of documentation and comments are not true of the code. The first two are
errors of the code that lose a user's index or result within all time limits.

1. *A READY material is not left without its vectors* (`materials.py:1225`). The recovery
   commits a fence for a job with leftover chunks, then deletes the chunks in a transaction
   of its own, which looks neither at the job nor at the material's status
   (`job_service.py:69`). In between the owner may retry the job, and the new run may reach
   READY: the cleanup then deletes the new run's chunks (`ready_is_found`, 22 states). The
   material is READY, its job SUCCEEDED, and no search finds it; nothing repairs it but a
   reprocess. A storage scan that loaded the material as FAILED before the retry does the
   same, since its second look does not refresh it (`material_storage_cleanup.py:140`).
2. *The lease and the user lock serialize indexing* (ADR 0003, line 49). A parse error
   writes FAILED without the fence that the index write and READY have (`materials.py:711`).
   When the owner cancels a job and reprocesses the material while the first run still
   parses, the second run may finish before the first one's error, which then takes READY
   away with no job live and no request in progress (`ready_rests`, 15 states). The next
   storage scan deletes the index as a leftover.
3. *Chunks are deleted before the tombstone* (ADR 0003, line 48). The chunk intent
   (`materials.py:593`) is committed without a check in its own transaction, so a worker can
   insert rows after the deletion finished (`tombstone_is_clean`). The fence before the
   index write keeps them without embeddings (`DeletedIsUnindexed`, proved), but no scan
   removes them: they stay in `material_chunks`.
4. *Attempt fencing makes duplicate delivery idempotent* (`api-contracts.md:117`,
   `job_service.py:1018`). `retry_job` resets `attempt_count` (`job_service.py:389`), so
   attempt 1 exists twice and a stalled run passes the check again (`one_run_per_attempt`).
   Publishing is still fenced by the lease (`OnlyRunningAttemptCanPublish`, proved);
   progress, success and failure of the job are not.
5. *The deletion of an account reuses that of a material* (ADR 0003, line 22), which marks
   the material before its object goes. The account deletion marks nothing
   (`account_deletion_service.py:346`). If it stops after the first object, that material
   stays AVAILABLE without its object (`available_is_stored`); an administrator may enable
   the user again. Outside an account deletion this cannot happen (`AvailableHasObject`,
   proved).

## Observations

What the code also does, seen while it was modelled; no run shows it. The properties are
stated so that they hold beside it.

*Jobs.* `mark_failed` (`job_service.py:732`) sees the job as `claim_job` loaded it. A run whose
material has just become DELETING fails with MATERIAL_UNAVAILABLE and requeues the job that
the deletion cancelled, although ADR 0003, line 20, says a deletion cancels it. The job is
closed later, when it is claimed again or recovered.

*Storage.* Of two overlapping storage scans (the cron's and the command's), the later one may
take a row for RESERVED that the other has already settled, because its second look does not
refresh the row (`material_storage_cleanup.py:140`), and commit DELETING over its tombstone.
The file counts against the quota again until a scan gets to it once more. `TombstoneStays`
and `QuotaHeld` are therefore checked and proved for a single scanner; with two in
`Scanners`, TLC shows the trace.

*Sessions.* A rotation that commits while another tab's reuse is being punished leaves its
replacement unrevoked: the UPDATE did not see the row. The session then goes on, which is
why `OneTabIsNoThief` and the refinement speak of what has ended, not of what was stolen. Two
tabs that refresh with the same token at the same time log each other out. A logout that
fails leaves the user in the workspace without a message. Rotation and disabling lock token
and user in opposite orders; PostgreSQL aborts one, and both callers only see an error.

*Chat.* A view that is replaced under a stream gets its tokens, its `done` and its
conversation id. A conversation that is created after a question was asked resets
`isStreaming` under it, so that a second stream may start (both are `crossed`). Of two
switches the last answer wins, not the last click. The stop button has no effect on a quick
question, after the ask mode was left, or while the stream refreshes the session.
`fetchEventSource` is used without `openWhenHidden`, so a page that is hidden and shown again
posts its question again.

*Materials.* A deletion writes the scope of the render it was clicked in and loses what was
selected since. The only ready material is never selected by itself, because the effect
first runs on the empty list. An empty scope means every material. An old list may bring back
a deleted material until the next one. An upload of several files ends at the first refusal.

*Quiz.* Every generated quiz numbers its questions `q-1`, `q-2` (`backend/app/schemas/quiz.py:64`),
so a late grade marks a question of the quiz that came after. An answer submitted twice is
recorded as two mistakes.

*Review.* The list of an older filter may replace that of a newer one. `mastered_count` is
only counted up between loads. A daily review that is started again while open keeps its
index and the text typed for another mistake; this is the one way a correction reaches the
wrong mistake (`restarted`).

## Proofs

`MaterialJobs_proofs.tla`, checked by TLAPS for all values of the constants, stalls
included, any number of processes, requests and crash points, under `BoundsAssumption`
(at least one job and one attempt) and `ActorsAssumption` (the kinds of actor and the NULL
lease are distinct).

- `TypeCorrect`: `Spec => []TypeOK`. `TypeOK` is inductive and a conjunction of four parts;
  lemmas say what the helpers that move actors, settle leases and rewrite job rows do to the
  types, and one lemma per group of actions says that each action keeps all four. Two facts
  in it are not mere typing: `attempt_count` never exceeds `max_attempts` although it is
  counted in one place and tested in four, and embeddings exist only on existing rows.
- `DeletedStaysUnindexed`: `Spec => []DeletedIsUnindexed`. Inductive: only `Index` adds
  embeddings, and its fence requires an available material; every transaction that writes a
  tombstone deletes the rows with it.
- `FencesAgree`: `Spec => []OnlyRunningAttemptCanPublish`. Inductive relative to `TypeOK`.
  A step either leaves nobody with a usable lease (every way of taking a job away clears the
  lease or leaves PROCESSING in the same transaction) or leaves the job and attempt of
  whoever keeps it.

- `OneAttemptIsIndexed`: `Spec => []OneAttemptIsFound`. Inductive: the fence before the index
  write compares the rows of the material with the run's own chunk ids, and embeddings exist
  only on rows.

`MaterialJobsInTime_proofs.tla`, for all values of the constants too, but under `~Stalls`:
the properties of `jobs_in_time`. Any number of runs, cleanups, scans and requests are at
work side by side, and processes crash at any time.

- `InTimeHolds`: `Spec => [](TypeOK /\ InTimeInv)`, the inductive invariant, and from it
- `QueuedCanBeClaimed`: `Spec => []QueuedHasBudget`,
- `PendingIsProcessed`: `Spec => []PendingHasJob`,
- `SucceededIsFinal`: `Spec => SucceededStays`.

None of these properties is inductive, since each is about what a transaction leaves that an
earlier one has prepared; `InTimeInv` says what lies between. *Holding:* the job of a run at
work is RUNNING at the attempt the run has claimed, or has been cancelled (`JobIsHeld`): while
the limits are kept, the recovery takes no such job, and a cancelled job is never retried. No
two runs work on the same job (`OneHolder`), since a claim needs a QUEUED one; that they work
on the same material does not matter for the job rows. So the attempt by which a run decides
to return its job to the queue is the job's own count when it does: `QueuedHasBudget`.
*Jobs:* a job that was never created has not been tried (`FreshIsUntried`), so a new one
starts with its whole budget. *Waiting:* a job about to succeed is not what a PENDING material
waits for (`PendingIsAwaited`), and while a request holds the lease to rebuild the index no job
is live (`RebuildHasNoJob`); these are the two places where a job could be closed under a
material that has just been set to PENDING. `SucceededStays` follows from the invariant: the
job a run relabels is RUNNING or CANCELLED, scans and requests look at the row they have
locked. TLC checked the invariant on the instance of `jobs_in_time`, with crashes at three
points, before it was proved. That READY keeps its index and is not taken away is no theorem:
it is false (Findings 1 and 2).

`MaterialStorage_proofs.tla`, for any number of uploads, scans and deletions, any contents
and limits, under `StorageActors` (the actors are distinct, the uploads finitely many) and
`StorageConstants`. Hasty scans included:

- `StorageTypeCorrect`: `StorageSpec => []StorageTypeOK`.
- `AvailableKeepsObject`: `StorageSpec => []AvailableHasObject`.
- `NeverTwice`: `StorageSpec => []NoDuplicates`.

Under `~Hasty`:

- `EveryObjectIsKnown`: `StorageSpec => []NoUnknownObject`.
- `TombstonesAreCertain`: `StorageSpec => []TombstoneIsCertain`.
- `AvailableMaterialsRest`: `StorageSpec => AvailableRests`.

Under `~Hasty` and `OneScanner`:

- `TombstonesStay`: `StorageSpec => TombstoneStays`.
- `QuotaIsHeld`: `StorageSpec => []QuotaHeld`, the limits of files and of bytes.

The first three follow from one inductive invariant, `StorageInv`, because the parts need each
other. `FreshIsUnknown`: an upload that has not started has no row, and no scan or deletion
knows of it. `PutIsExclusive`: from the start of its PUT to its commit an upload has its
reservation, no account deletion runs, and the verified PUT has left an object; this is why
the row that becomes available has one. `AvailableIsSettled`: the upload of an available
material is over or about to take it back. `TargetIsWithdrawn`: what a deletion or a scan
works on is neither reserved nor available, so its object may go. `SeenIsWithdrawn`: the same
of what a scan has loaded as DELETING, which is why it may skip the UPDATE.
`CleaningIsRequested`: an execution runs only after a request. `NoDuplicates` holds because
the test for duplicates counts reservations and commits the hash in the same transaction,
and because no row returns to RESERVED or AVAILABLE once it has left them. Each group of
actions has a lemma, each action a step in it.

The theorems under `~Hasty` add `SettledInv`, inductive relative to `StorageInv`: while scans
keep to rows whose upload is over, an upload has its reservation to itself
(`OpenIsReserved`), a PUT that may still land has a row that must stay (`LateMustStay`), an
upload that removes its row has left no object (`NothingStored`), a deletion or scan that
writes a tombstone has emptied its target (`TargetIsEmptied`), what a scan has loaded is over
and known to be uncertain if it is (`SeenIsOver`), and an account deletion that may still
succeed has seen every object (`CleaningKnowsAll`). `AvailableRests` needs of it only that
what a scan has loaded cannot become available any more. With one scan, what it has loaded
as RESERVED is still RESERVED until it takes it (`LoadedIsReserved`), so it overwrites no
tombstone and no step adds to the counted rows but a reservation that has found room.

`Usage` is a fold over the counted rows, and the induction theorems of the library take an
operator as a parameter, which the provers cannot instantiate. So the module has a small
theory of sums of its own. `Sums` is satisfied by a function on the subsets of a set that takes one chosen
element away at a time; there is exactly one such function (`SumExists`, `SumIsUnique`), the
choice of the element does not matter (`SumRemoves`), any function that satisfies the
recursion equation of the fold is it (`RecursionIsSum`), and it shrinks with the set and
with the weights (`SumShrinks`).
Where an induction over the size of a set is needed, the proof takes a smallest
counterexample instead (`SmallestSubset`), for which no operator has to be a parameter.
`UsageIsSum` connects `Usage` to it. Then the step is short: every action but `Stage` adds
neither a counted row nor a size (`StepHoldsBytes`, `OnlyStageWeighs`), and `Stage` adds no
more than `BytesAllowed` has found room for.

`Sessions_proofs.tla`, for any number of tabs, calls and tokens, under `SessionsAssumption`.

- `SessionsTypeCorrect`, `OneTokenPerSession`, `LogoutIsFinal`: the type invariant,
  `OneUnrevokedToken` and `LogoutEndsSession`.
- `DisablingIsFinal`: the action property `DisablingEndsSessions`.
- `RowsImplementLife`: `SessionsSpec => SessionsEnd`, the refinement of `SessionLife`.
- `OneTabIsTrusted`: `SessionsSpec => []OneTabIsNoThief`.

The argument rests on the row locks. `LocksExclusive`: two transactions never hold the same
token row. So what a rotation (`RotatingIsUnrevoked`) or a logout (`LogoutHoldsToken`) read
about its token is still true when it commits: the session is open, the token is its only
unrevoked one, and the rotation replaces it. `LogoutDone` remembers what a successful logout
has left. The parts need each other and are inductive together (`RowInv`). Steps that touch
no row are handled by one lemma (`QuietKeeps`). Disabling is final because no insert commits
while `update_user` holds the user and its snapshot is taken under that lock
(`UpdateKnowsAllKept`). The refinement maps every step to an opening, an ending or a stutter
(`RowStep`); that a rotation is a stutter is exactly `OneUnrevokedToken` before and after it.

`OneTabIsNoThief` relates what the backend concludes to what the browser has done, so its
invariant, `ThiefInv`, follows a token through both. A tab has one refresh at a time, in a
slot of its own (`SlotKinds`), and a refresh carries a token that its tab is known to have
carried (`RefreshIsCarried`). A revoked token whose session goes on was rotated, hence
presented by some tab. If one tab alone ever carried it, then either that tab's refresh has
been answered and its cookie is about to reach the jar, or the jar has another token already
and the tab does not present the old one any more (`ReplacedIsHeard`). The jar cannot return
to it, because a token in an answer is fresh: it is in no jar and no other answer, and nobody
has carried it (`NewIsFresh`). What breaks the chain is an answer that is lost with its
connection or its page; those tokens are in `lost`, which the property excepts. TLC checked
`ThiefInv` on the instance of `sessions` before it was proved.

`WorkspaceStores_proofs.tla`, `ChatClient_proofs.tla`, `ReviewPanel_proofs.tla` and
`Workspace_proofs.tla`, for any number of materials, conversations, questions, mistakes,
clicks, faults and handlers, under `StoresAssumption`, `LettersAssumption`,
`ScenariosAssumption` and `ReviewAssumption`. All nine invariants of the run `workspace` are
theorems of `FairWorkspace`: `WorkspaceTypeCorrect`, `ScopeStaysReady`, `InputIsGivenBack`,
`StreamsNeverOverlap`, `ViewsAreNotMixed`, `CardStaysInQuiz`, `GradesFitAnswers`,
`CorrectionsFitMistakes`, `FlagsComeBack`.

- *Stores.* `StoresHold` is the types of the stores and `ScopeIsReady`; `CommitHolds` says
  that a commit establishes the latter from whatever scope a handler wrote.
- *Chat.* `ChatInv` strengthens the three properties by what an answer on its way may still
  do: the stop button's question is running (`InputRefRuns`); unless `crossed`, at most one
  question runs and the input waits for it (`StreamsAreOne`), it belongs to the conversation
  shown (`StreamsAreHere`), and a history that has arrived is that of its handler
  (`HistoriesMatch`). The type invariant alone does not say why a bubble that is added late
  is in the right view; `StreamsAreHere` does.
- *Review.* `NotesInv`: the text in the detail panel is the selected mistake's, the text of
  the daily review its current mistake's, and a call that saves took note and mistake in one
  step (`OwnTexts`, `OwnCall`). The effect that resets the text runs with every change of the
  selection (`NoteEffectOwn`), which is why no click or list can get between them.
  `FlagsAreReleased` is inductive: a flag is set with its call, and the answer of one of
  several calls leaves the others' evidence or clears the flag (`OneCallKeeps`).
- *Quiz.* `QuizInv` is inductive: an answer under a graded question cannot be picked, and a
  grade writes its answer again.
- *Composition.* `WorkspaceStep`: each part keeps the types of the stores; no part but the
  chat client touches the identity of the view (`ViewUnchanged`), so the invariants of the
  parts hold together. Chat and review change the quiz only through `setQuestions`.

With these, every invariant and every action property that a passing run checks is stated by
a theorem. Only model-checked: liveness (`JobsSettle`, `CleanupsEnd`, `LeftoversGo`,
`DeletionEnds`, `ReservationsEnd`, `DeletingEnds`, `AccountDeletionEnds`, `TabsComeToRest`,
`PendingResolves`), which needs ENABLED and is out of the prover's reach.

## Not modelled

Within MaterialJobs: several materials of one owner in one scan, priorities and listings,
the RESERVED status and the object store, which are in MaterialStorage (here its failure is
`RequestFails` or `ReapNothing`), the contents of chunks, the wait in a lock conflict (its
abort is `SqlError`), an error of a progress report that is not SQLAlchemy's, which the worker
logs and ignores (`parse_material.py:78`; the code has one, the missing row of a user who was
removed together with the materials). Within MaterialStorage: the index and the jobs of an available
material, which are in MaterialJobs; several courses (duplicates are looked for in one);
versions of an object; changes of the limits; an administrator who disables a user outside
an account deletion; files of the time before the object store; what an account deletion
removes besides (collections, tokens, invites). Within Sessions: registration and invites,
CSRF tokens, passwords and their rate limits, accounts other than one, the stores that
outlive a logout. Within Workspace: what is listed above under abstractions, questions
without options, citations, downloads. Other components: see the table in PROJECT.json;
prompts, rendering, parsing and migrations will stay out.

## Plan

| Order | Module | Models | Properties and theorems |
|---|---|---|---|
| done | `MaterialJobs` | jobs, runs, recovery, requests of one material | above |
| done | `MaterialStorage` | uploads, quota, object store, deletions and scans of one user | above |
| done | `SessionLife`, `Sessions` | browser tabs, refresh, login, logout, token rows, disabling | above |
| done | `WorkspaceStores`, `ChatClient`, `MaterialPanel`, `QuizPanel`, `ReviewPanel`, `Workspace` | the page of the frontend | above |
| done | `MaterialStorage_proofs` | `NoUnknownObject`, `TombstoneIsCertain`, `AvailableRests`, `TombstoneStays`, `QuotaHeld` | `SettledInv`, the theory of sums |
| done | `MaterialJobsInTime_proofs` | `QueuedHasBudget`, `PendingHasJob`, `SucceededStays` under `~Stalls` | `InTimeInv` |
| done | `Sessions_proofs` | `OneTabIsNoThief` | `ThiefInv` |
| 1 | `Invites` | registration under invite limits | no invite is used more often than allowed |
| 2 | `Courses` | default course, deletion with materials in flight | one default |
| 3 | `Conversations`, `Review` | message counter, titles, profile merge, review history of the backend | no lost update, or the run that shows it |
| 4 | `CircuitBreaker`, `RateLimiter` | in-memory state machines | threshold, window |
| 5 | `Algorithms` | rank fusion, chunk windows, list merge, difficulty | agreement with reference definitions over bounded inputs |
| 6 | `JobPromise` | what a job promises its owner, refined by `MaterialJobs` within the time limits | refinement |
| proofs | `MaterialJobsInTime_proofs` | `MaterialJobs` implements `JobPromise`, once it is written | from `InTimeInv` |
