--------------------------- MODULE MaterialStorage ---------------------------
(***************************************************************************)
(* The files of one user: upload with its two-step quota reservation       *)
(* (upload_material in api/materials.py, services/quota_service.py), the   *)
(* object store (services/object_storage.py), deletion of a material, the  *)
(* storage scan (services/material_storage_cleanup.py) and the deletion of *)
(* the account (services/account_deletion_service.py).  What happens to an *)
(* available material's jobs and index is the subject of MaterialJobs.     *)
(*                                                                         *)
(* One action is one transaction, one call of the object store, or a       *)
(* SELECT whose result is acted upon in a later statement.  Transactions   *)
(* that start by locking the users row need LockFree; an upload keeps that *)
(* lock from the start of its PUT to its commit, the execution of an       *)
(* account deletion until it ends.  The compensations of an upload take no *)
(* lock.                                                                   *)
(*                                                                         *)
(* A definition named after the one that follows it with a suffix is a     *)
(* plausible slip of it; no action refers to it.                           *)
(***************************************************************************)
EXTENDS Naturals, FiniteSets, FiniteSetsExt

CONSTANTS
  Materials,    (* uploads, each of which creates one row of materials     *)
  Scanners,     (* executions of the storage scan: the cron, the command   *)
  Deleters,     (* requests to delete one material                         *)
  Contents,     (* what a file may contain: its SHA-256                    *)
  Size,         (* and its length                                          *)
  FileLimit,    (* users.file_limit                                        *)
  ByteLimit,    (* users.storage_limit_bytes                               *)
  None,         (* NULL                                                    *)
  Hasty         (* whether a scan may list a row whose upload still runs,  *)
                (* or whose PUT may still take effect                      *)

ASSUME StorageActors ==
  /\ IsFiniteSet(Materials)
  /\ Materials \cap Scanners = {}
  /\ Materials \cap Deleters = {}
  /\ Scanners \cap Deleters = {}
ASSUME StorageConstants ==
  /\ None \notin Materials \cup Contents
  /\ Size \in [Contents -> Nat] /\ FileLimit \in Nat /\ ByteLimit \in Nat
  /\ Hasty \in BOOLEAN

VARIABLES
  store,        (* materials.storage_status, "none" when there is no row   *)
  hash,         (* materials.hash, which also determines file_size         *)
  uncertain,    (* materials.object_write_uncertain                        *)
  object,       (* the bucket has an object under the material's key       *)
  late,         (* a PUT that was given up may still take effect           *)
  pc,           (* the point each upload, scanner and deleter has reached  *)
  target,       (* the material a scanner or deleter works on              *)
  seen,         (* what a scan has loaded of its remaining candidates      *)
  disabled,     (* users.is_disabled                                       *)
  deletion,     (* account_deletion_jobs.status as committed; "succeeded"  *)
                (* also means that the users row is gone                   *)
  cleaning,     (* an execution of the account deletion holds the user     *)
  artifacts,    (* the materials whose objects it has still to delete      *)
  blocked       (* it has read a material that must not be deleted yet     *)

rowVars     == <<store, hash, uncertain>>
bucketVars  == <<object, late>>
actorVars   == <<pc, target, seen>>
accountVars == <<disabled, deletion, cleaning, artifacts, blocked>>
vars == <<store, hash, uncertain, object, late, pc, target, seen,
          disabled, deletion, cleaning, artifacts, blocked>>

-----------------------------------------------------------------------------
StorageStatus == {"none", "reserved", "available", "deleting", "deleted"}
DeletionStatus == {"none", "pending", "failed", "succeeded"}

UploadPoints == {"idle", "reserved", "sized", "put", "stored", "unsure", "mark",
                 "undo", "remove", "discard", "drop", "compensate", "purge",
                 "erase", "done"}
ScanPoints == {"idle", "scan", "purge", "finish"}
DeletePoints == {"idle", "purge", "finish", "done"}

(* What a scan loads: no candidate, a reservation, an unfinished deletion, *)
(* or one whose PUT is uncertain.                                          *)
Loaded == {"no", "reserved", "deleting", "unsure"}
NoneSeen == [m \in Materials |-> "no"]

RowTypeOK ==
  /\ store \in [Materials -> StorageStatus]
  /\ hash \in [Materials -> Contents \cup {None}]
  /\ uncertain \in [Materials -> BOOLEAN]
  /\ object \in [Materials -> BOOLEAN]
  /\ late \in [Materials -> BOOLEAN]
  /\ \A m \in Materials : uncertain[m] => store[m] \in {"deleting", "deleted"}

StorageActorTypeOK ==
  /\ pc \in [Materials \cup Scanners \cup Deleters ->
               UploadPoints \cup ScanPoints \cup DeletePoints]
  /\ \A m \in Materials : pc[m] \in UploadPoints
  /\ \A s \in Scanners : pc[s] \in ScanPoints
  /\ \A d \in Deleters : pc[d] \in DeletePoints
  /\ target \in [Scanners \cup Deleters -> Materials \cup {None}]
  /\ \A a \in Scanners \cup Deleters : target[a] # None <=> pc[a] \in {"purge", "finish"}
  /\ seen \in [Scanners -> [Materials -> Loaded]]

AccountTypeOK ==
  /\ disabled \in BOOLEAN
  /\ deletion \in DeletionStatus
  /\ cleaning \in BOOLEAN
  /\ artifacts \in SUBSET Materials
  /\ blocked \in BOOLEAN

(* Every variable has its type; only a row that is on its way out is       *)
(* marked uncertain, and who has a target is at work on it.                *)
StorageTypeOK == RowTypeOK /\ StorageActorTypeOK /\ AccountTypeOK

-----------------------------------------------------------------------------
(* Conditions.                                                             *)

Rows == {m \in Materials : store[m] # "none"}

(* _usage_for: every row but a tombstone counts, with the size it states.  *)
Counted == {m \in Materials : store[m] \in {"reserved", "available", "deleting"}}
Bytes(m) == IF hash[m] = None THEN 0 ELSE Size[hash[m]]
Usage == MapThenSumSet(Bytes, Counted)

(* ensure_file_slot_available and ensure_reserved_storage_allowed.         *)
SlotAvailable == Cardinality(Counted) + 1 <= FileLimit
BytesAllowedEach(c) == Size[c] <= ByteLimit
BytesAllowed(c) == Usage + Size[c] <= ByteLimit

(* _find_duplicate_material; one course.                                   *)
DuplicateAvailable(m, c) ==
  \E n \in Materials \ {m} : store[n] = "available" /\ hash[n] = c
Duplicate(m, c) ==
  \E n \in Materials \ {m} : store[n] \in {"reserved", "available"} /\ hash[n] = c

(* Nobody keeps the users row locked over several steps; the user exists   *)
(* and is not disabled (QuotaService.lock_upload).                         *)
LockFree == ~cleaning /\ \A m \in Materials : pc[m] \notin {"put", "stored"}
Active == deletion # "succeeded" /\ ~disabled

(* What the scan asks for instead (_try_lock_material_owner).              *)
Lockable == LockFree /\ deletion # "succeeded"

(* AccountArtifactCleaner.clean refuses to go on: the row may be the only  *)
(* record of an object.                                                    *)
MustStay(m) == store[m] = "reserved" \/ uncertain[m]

(* created_at < older_than.                                                *)
OldEnoughAlways(m) == TRUE
OldEnough(m) == Hasty \/ (pc[m] = "done" /\ ~late[m])

Goto(p, l) == pc' = [pc EXCEPT ![p] = l]
SetStore(m, s) == store' = [store EXCEPT ![m] = s]

(* DELETE FROM materials.                                                  *)
RemoveRow(m) ==
  /\ SetStore(m, "none")
  /\ hash' = [hash EXCEPT ![m] = None]
  /\ uncertain' = [uncertain EXCEPT ![m] = FALSE]

(* The material is taken away, committed before its object is touched.     *)
WithdrawLater(m) == UNCHANGED store
Withdraw(m) == SetStore(m, "deleting")

(* An UPDATE by primary key, which fails if the row is gone.               *)
Overwrite(m, s) == IF store[m] = "none" THEN UNCHANGED store ELSE SetStore(m, s)

(* S3ObjectStorage.delete_object: every version, verified by a listing.    *)
DeleteObject(m) == object' = [object EXCEPT ![m] = FALSE] /\ UNCHANGED late

StorageInit ==
  /\ store = [m \in Materials |-> "none"]
  /\ hash = [m \in Materials |-> None]
  /\ uncertain = [m \in Materials |-> FALSE]
  /\ object = [m \in Materials |-> FALSE]
  /\ late = [m \in Materials |-> FALSE]
  /\ pc = [a \in Materials \cup Scanners \cup Deleters |-> "idle"]
  /\ target = [a \in Scanners \cup Deleters |-> None]
  /\ seen = [s \in Scanners |-> NoneSeen]
  /\ disabled = FALSE /\ deletion = "none"
  /\ cleaning = FALSE /\ artifacts = {} /\ blocked = FALSE

-----------------------------------------------------------------------------
(* Upload.  The handler's parts: slot, bytes, PUT, job.                    *)

Reserve(m) ==
  /\ pc[m] = "idle" /\ LockFree /\ Active
  /\ SlotAvailable
  /\ SetStore(m, "reserved") /\ Goto(m, "reserved")
  /\ UNCHANGED <<hash, uncertain, bucketVars, target, seen, accountVars>>

(* The lock is kept while the file is staged and validated; its size and   *)
(* hash are committed before any object is written.                        *)
Stage(m) ==
  /\ pc[m] = "reserved" /\ LockFree /\ Active
  /\ store[m] \in {"reserved", "available"}
  /\ \E c \in Contents : /\ BytesAllowed(c) /\ ~Duplicate(m, c)
                         /\ hash' = [hash EXCEPT ![m] = c]
  /\ Goto(m, "sized")
  /\ UNCHANGED <<store, uncertain, bucketVars, target, seen, accountVars>>

StartPut(m) ==
  /\ pc[m] = "sized" /\ LockFree /\ Active
  /\ store[m] \in {"reserved", "available"}
  /\ Goto(m, "put")
  /\ UNCHANGED <<rowVars, bucketVars, target, seen, accountVars>>

(* A file too large, invalid or known already, a full quota, a disabled    *)
(* user, a row that is gone, a cancelled request.                          *)
Refuse(m) ==
  /\ pc[m] \in {"reserved", "sized"}
  /\ Goto(m, "discard")
  /\ UNCHANGED <<rowVars, bucketVars, target, seen, accountVars>>

(* The PUT is written and verified; or the request is cancelled meanwhile, *)
(* and the handler waits for the PUT before it compensates.                *)
PutObject(m) ==
  /\ pc[m] = "put"
  /\ object' = [object EXCEPT ![m] = TRUE] /\ UNCHANGED late
  /\ Goto(m, "stored") \/ Goto(m, "undo")
  /\ UNCHANGED <<rowVars, target, seen, accountVars>>

(* What an unsuccessful PUT leaves: an object, none, or none yet.          *)
PutOutcome(m) == \E o, l \in BOOLEAN : /\ ~(o /\ l)
                                       /\ object' = [object EXCEPT ![m] = o]
                                       /\ late' = [late EXCEPT ![m] = l]

PutFails(m) ==
  /\ pc[m] = "put"
  /\ PutOutcome(m) /\ Goto(m, "unsure")
  /\ UNCHANGED <<rowVars, target, seen, accountVars>>

(* The available material and its job are one commit, which may reach the  *)
(* database although the handler sees an error.                            *)
Finalize(m) ==
  /\ pc[m] = "stored"
  /\ \/ SetStore(m, "available") /\ (Goto(m, "done") \/ Goto(m, "compensate"))
     \/ UNCHANGED store /\ Goto(m, "compensate")
  /\ UNCHANGED <<hash, uncertain, bucketVars, target, seen, accountVars>>

-----------------------------------------------------------------------------
(* What an upload does that cannot go on.                                  *)

(* _discard_available_material_after_job_failure; its first transaction.   *)
Compensate(m) ==
  /\ pc[m] = "compensate"
  /\ \/ /\ LockFree /\ Active /\ store[m] \in {"reserved", "available"}
        /\ Withdraw(m) /\ Goto(m, "purge")
     \/ Goto(m, "done") /\ UNCHANGED store
  /\ UNCHANGED <<hash, uncertain, bucketVars, target, seen, accountVars>>

PurgeUpload(m) ==
  /\ pc[m] = "purge"
  /\ \/ DeleteObject(m) /\ Goto(m, "erase")
     \/ Goto(m, "done") /\ UNCHANGED bucketVars
  /\ UNCHANGED <<rowVars, target, seen, accountVars>>

EraseUpload(m) ==
  /\ pc[m] = "erase"
  /\ RemoveRow(m) \/ UNCHANGED rowVars
  /\ Goto(m, "done")
  /\ UNCHANGED <<bucketVars, target, seen, accountVars>>

(* _discard_reservation selects the row if it is RESERVED, then writes it  *)
(* by its primary key; no lock in between.                                 *)
LookUnsure(m) ==
  /\ pc[m] = "unsure"
  /\ Goto(m, IF store[m] = "reserved" THEN "mark" ELSE "done")
  /\ UNCHANGED <<rowVars, bucketVars, target, seen, accountVars>>

MarkUncertainReserved(m) ==
  /\ pc[m] = "mark"
  /\ uncertain' = [uncertain EXCEPT ![m] = store[m] # "none"]
  /\ Goto(m, "done")
  /\ UNCHANGED <<store, hash, bucketVars, target, seen, accountVars>>
MarkUncertain(m) ==
  /\ pc[m] = "mark"
  /\ Overwrite(m, "deleting")
  /\ uncertain' = [uncertain EXCEPT ![m] = store[m] # "none"]
  /\ Goto(m, "done")
  /\ UNCHANGED <<hash, bucketVars, target, seen, accountVars>>

LookUndo(m) ==
  /\ pc[m] = "undo"
  /\ Goto(m, IF store[m] = "reserved" THEN "remove" ELSE "done")
  /\ UNCHANGED <<rowVars, bucketVars, target, seen, accountVars>>

RemoveObject(m) ==
  /\ pc[m] = "remove"
  /\ DeleteObject(m) /\ Goto(m, "discard")
  /\ UNCHANGED <<rowVars, target, seen, accountVars>>

RemoveFails(m) ==
  /\ pc[m] = "remove"
  /\ Overwrite(m, "deleting") /\ Goto(m, "done")
  /\ DeleteObject(m) \/ UNCHANGED bucketVars
  /\ UNCHANGED <<hash, uncertain, target, seen, accountVars>>

LookDiscard(m) ==
  /\ pc[m] = "discard"
  /\ Goto(m, IF store[m] = "reserved" THEN "drop" ELSE "done")
  /\ UNCHANGED <<rowVars, bucketVars, target, seen, accountVars>>

DropReservation(m) ==
  /\ pc[m] = "drop"
  /\ RemoveRow(m) /\ Goto(m, "done")
  /\ UNCHANGED <<bucketVars, target, seen, accountVars>>

(* The API process stops.                                                  *)
CrashUpload(m) ==
  /\ pc[m] \notin {"idle", "done"}
  /\ IF pc[m] = "put" THEN PutOutcome(m) ELSE UNCHANGED bucketVars
  /\ Goto(m, "done")
  /\ UNCHANGED <<rowVars, target, seen, accountVars>>

(* A PUT nobody waits for any more takes effect after all, or never.       *)
Land(m) ==
  /\ late[m]
  /\ late' = [late EXCEPT ![m] = FALSE]
  /\ object' \in {object, [object EXCEPT ![m] = TRUE]}
  /\ UNCHANGED <<rowVars, actorVars, accountVars>>

-----------------------------------------------------------------------------
(* delete_material.                                                        *)

DeletableUnlessReserved(m) == store[m] \in {"available", "deleting"}
DeletableUnlessUncertain(m) == store[m] \notin {"none", "deleted"} /\ ~uncertain[m]
Deletable(m) == store[m] \in {"available", "deleting"} /\ ~uncertain[m]

DeleteStart(d, m) ==
  /\ pc[d] = "idle" /\ LockFree /\ Active
  /\ Deletable(m)
  /\ Withdraw(m)
  /\ target' = [target EXCEPT ![d] = m] /\ Goto(d, "purge")
  /\ UNCHANGED <<hash, uncertain, bucketVars, seen, accountVars>>

PurgeMaterial(d) ==
  /\ pc[d] = "purge"
  /\ DeleteObject(target[d]) /\ Goto(d, "finish")
  /\ UNCHANGED <<rowVars, target, seen, accountVars>>

(* The test for DELETING sees the object loaded before.                    *)
DeleteFinish(d) ==
  /\ pc[d] = "finish" /\ LockFree /\ Active
  /\ Overwrite(target[d], "deleted")
  /\ target' = [target EXCEPT ![d] = None] /\ Goto(d, "done")
  /\ UNCHANGED <<hash, uncertain, bucketVars, seen, accountVars>>

(* The store or the index fails, the user is disabled, the process stops.  *)
DeleteFails(d) ==
  /\ pc[d] \in {"purge", "finish"}
  /\ target' = [target EXCEPT ![d] = None] /\ Goto(d, "done")
  /\ UNCHANGED <<rowVars, bucketVars, seen, accountVars>>

-----------------------------------------------------------------------------
(* recover_stale_material_reservations.  It loads its candidates first; a  *)
(* second SELECT locks the row but leaves the loaded object as it is, and  *)
(* an UPDATE writes only what differs from that object.                    *)

CandidatesReserved == {m \in Materials : store[m] = "reserved" /\ OldEnough(m)}
CandidatesDeleting == {m \in Materials : store[m] = "deleting" /\ OldEnough(m)}
Candidates == {m \in Materials : store[m] \in {"reserved", "deleting"} /\ OldEnough(m)}

ListCandidates(s) ==
  /\ pc[s] = "idle" /\ Candidates # {}
  /\ seen' = [seen EXCEPT ![s] =
       [m \in Materials |-> IF m \notin Candidates THEN "no"
                            ELSE IF store[m] = "reserved" THEN "reserved"
                            ELSE IF uncertain[m] THEN "unsure" ELSE "deleting"]]
  /\ Goto(s, "scan")
  /\ UNCHANGED <<rowVars, bucketVars, target, accountVars>>

(* On to the next candidate, or an exception: after a rollback the next    *)
(* attribute access of the loop raises.                                    *)
NextCandidate(s, m) ==
  /\ Goto(s, "scan")
  /\ target' = [target EXCEPT ![s] = None]
  /\ seen' = [seen EXCEPT ![s][m] = "no"]

AbortScan(s) ==
  /\ Goto(s, "idle")
  /\ target' = [target EXCEPT ![s] = None]
  /\ seen' = [seen EXCEPT ![s] = NoneSeen]

TakeCandidate(s, m) ==
  /\ pc[s] = "scan" /\ seen[s][m] # "no" /\ Lockable /\ m \in Rows
  /\ IF seen[s][m] = "reserved" THEN SetStore(m, "deleting") ELSE UNCHANGED store
  /\ target' = [target EXCEPT ![s] = m] /\ Goto(s, "purge")
  /\ UNCHANGED <<hash, uncertain, bucketVars, seen, accountVars>>

SkipCandidate(s, m) ==
  /\ pc[s] = "scan" /\ seen[s][m] # "no" /\ ~(Lockable /\ m \in Rows)
  /\ IF Lockable THEN AbortScan(s) ELSE NextCandidate(s, m)
  /\ UNCHANGED <<rowVars, bucketVars, accountVars>>

PurgeCandidate(s) ==
  /\ pc[s] = "purge"
  /\ DeleteObject(target[s]) /\ Goto(s, "finish")
  /\ UNCHANGED <<rowVars, target, seen, accountVars>>

WriteTombstoneUncertain(s, m) == Overwrite(m, "deleted") /\ UNCHANGED uncertain
WriteTombstone(s, m) ==
  /\ Overwrite(m, "deleted")
  /\ IF seen[s][m] = "unsure" THEN uncertain' = [uncertain EXCEPT ![m] = FALSE]
                              ELSE UNCHANGED uncertain

FinishCandidate(s) ==
  /\ pc[s] = "finish" /\ Lockable /\ target[s] \in Rows
  /\ WriteTombstone(s, target[s])
  /\ NextCandidate(s, target[s])
  /\ UNCHANGED <<hash, bucketVars, accountVars>>

(* The object store fails, or somebody has the users row locked.           *)
PostponeCandidate(s) ==
  /\ pc[s] = "purge" \/ (pc[s] = "finish" /\ ~Lockable)
  /\ NextCandidate(s, target[s])
  /\ UNCHANGED <<rowVars, bucketVars, accountVars>>

(* The last candidate is done; or the row is gone, the index deletion      *)
(* fails, or the process stops.                                            *)
EndScan(s) ==
  /\ pc[s] # "idle"
  /\ AbortScan(s)
  /\ UNCHANGED <<rowVars, bucketVars, accountVars>>

-----------------------------------------------------------------------------
(* AccountDeletionService.                                                 *)

RequestDeletion ==
  /\ LockFree /\ Active /\ deletion = "none"
  /\ disabled' = TRUE /\ deletion' = "pending"
  /\ UNCHANGED <<rowVars, bucketVars, actorVars, cleaning, artifacts, blocked>>

(* In the background after the request, or by a retry.  Nothing of it is   *)
(* visible to others before its only commit.                               *)
StartCleaning ==
  /\ LockFree /\ deletion \in {"pending", "failed"}
  /\ cleaning' = TRUE
  /\ artifacts' = {m \in Rows : ~MustStay(m)}
  /\ blocked' = (\E m \in Rows : MustStay(m))
  /\ UNCHANGED <<rowVars, bucketVars, actorVars, disabled, deletion>>

CleanArtifact(m) ==
  /\ cleaning /\ m \in artifacts
  /\ DeleteObject(m) /\ artifacts' = artifacts \ {m}
  /\ UNCHANGED <<rowVars, actorVars, disabled, deletion, cleaning, blocked>>

StopCleaning == cleaning' = FALSE /\ artifacts' = {} /\ blocked' = FALSE

(* An artifact is blocked or cannot be removed, or the commit fails.       *)
CleaningFails ==
  /\ cleaning
  /\ deletion' = "failed" /\ StopCleaning
  /\ UNCHANGED <<rowVars, bucketVars, actorVars, disabled>>

(* DELETE FROM users cascades to every row.                                *)
DeleteUser ==
  /\ cleaning /\ artifacts = {} /\ ~blocked
  /\ store' = [m \in Materials |-> "none"]
  /\ hash' = [m \in Materials |-> None]
  /\ uncertain' = [m \in Materials |-> FALSE]
  /\ deletion' = "succeeded" /\ StopCleaning
  /\ UNCHANGED <<bucketVars, actorVars, disabled>>

CrashCleaning ==
  /\ cleaning
  /\ StopCleaning
  /\ UNCHANGED <<rowVars, bucketVars, actorVars, disabled, deletion>>

(* An administrator may enable any user (AuthService.update_user).         *)
Enable ==
  /\ LockFree /\ disabled /\ deletion # "succeeded"
  /\ disabled' = FALSE
  /\ UNCHANGED <<rowVars, bucketVars, actorVars, deletion, cleaning, artifacts, blocked>>

-----------------------------------------------------------------------------
Upload(m) ==
  \/ Stage(m) \/ StartPut(m) \/ Refuse(m) \/ PutObject(m) \/ PutFails(m) \/ Finalize(m)
  \/ Compensate(m) \/ PurgeUpload(m) \/ EraseUpload(m)
  \/ LookUnsure(m) \/ MarkUncertain(m)
  \/ LookUndo(m) \/ RemoveObject(m) \/ RemoveFails(m)
  \/ LookDiscard(m) \/ DropReservation(m)

Deletion(d) ==
  \/ \E m \in Materials : DeleteStart(d, m)
  \/ PurgeMaterial(d) \/ DeleteFinish(d) \/ DeleteFails(d)

Scan(s) ==
  \/ ListCandidates(s)
  \/ \E m \in Materials : TakeCandidate(s, m) \/ SkipCandidate(s, m)
  \/ PurgeCandidate(s) \/ FinishCandidate(s) \/ PostponeCandidate(s) \/ EndScan(s)

Account ==
  \/ RequestDeletion \/ StartCleaning \/ (\E m \in Materials : CleanArtifact(m))
  \/ CleaningFails \/ DeleteUser \/ CrashCleaning \/ Enable

StorageNext ==
  \/ \E m \in Materials : Reserve(m) \/ Upload(m) \/ CrashUpload(m) \/ Land(m)
  \/ \E d \in Deleters : Deletion(d)
  \/ \E s \in Scanners : Scan(s)
  \/ Account

StorageSpec == StorageInit /\ [][StorageNext]_vars

-----------------------------------------------------------------------------
(* Safety.                                                                 *)

(* No object of the bucket is unknown to the database, and none that a     *)
(* late PUT may still create: a row that is not a tombstone leads to it.   *)
NoUnknownObject ==
  \A m \in Materials : object[m] \/ late[m] =>
                         store[m] \in {"reserved", "available", "deleting"}

(* The limits hold for all uploads together, reservations included.        *)
QuotaHeld == Cardinality(Counted) <= FileLimit /\ Usage <= ByteLimit

(* The same file is kept once.                                             *)
NoDuplicates ==
  \A m, n \in Materials :
    /\ store[m] \in {"reserved", "available"} /\ store[n] \in {"reserved", "available"}
    /\ hash[m] = hash[n] /\ hash[m] # None
    => m = n

(* An available material can be downloaded, unless a deletion of the whole *)
(* account has been attempted: no compensation, scan or deletion removes   *)
(* an object before it has taken the material away.                        *)
AvailableHasObject ==
  \A m \in Materials : store[m] = "available" => object[m] \/ deletion # "none"

(* A tombstone is final: no compensation of an upload brings it back.      *)
TombstoneStays ==
  [][\A m \in Materials : store[m] = "deleted" => store'[m] \in {"deleted", "none"}]_vars

(* Only its owner's requests take an available material away.              *)
AvailableRests ==
  [][\A m \in Materials : store[m] = "available" /\ store'[m] # "available" =>
       pc[m] = "compensate" \/ (\E d \in Deleters : target'[d] = m) \/ cleaning]_vars

(* ADR 0003 has the deletion of an account reuse that of a material, which *)
(* takes the material away before its object.                              *)
AvailableIsStored ==
  \A m \in Materials : store[m] = "available" /\ ~cleaning => object[m]

(* A tombstone does not keep the account from being deleted.               *)
TombstoneIsCertain == \A m \in Materials : store[m] = "deleted" => ~uncertain[m]

-----------------------------------------------------------------------------
(* Liveness.  Handlers go on while their process lives.  The scan comes    *)
(* again and again, finds the users row unlocked now and then, and the     *)
(* object store does not refuse it for ever.  The owner of a failed        *)
(* account deletion retries it, and from some time on an execution ends    *)
(* without success only if it has read a material that must stay.          *)

Cleaning == (\E m \in Materials : CleanArtifact(m)) \/ CleaningFails \/ DeleteUser

StorageFairness ==
  /\ \A m \in Materials : WF_vars(Upload(m)) /\ WF_vars(Land(m))
  /\ \A d \in Deleters : WF_vars(PurgeMaterial(d) \/ DeleteFinish(d) \/ DeleteFails(d))
  /\ \A s \in Scanners :
       /\ []<>(Candidates # {}) => []<><<ListCandidates(s) /\ LockFree>>_vars
       /\ WF_vars(EndScan(s))
       /\ \A m \in Materials : SF_vars(TakeCandidate(s, m))
       /\ SF_vars(PurgeCandidate(s) /\ LockFree) /\ SF_vars(FinishCandidate(s))
  /\ SF_vars(StartCleaning) /\ WF_vars(Cleaning)
  /\ <>[][cleaning /\ ~cleaning' => blocked \/ deletion' = "succeeded"]_vars

FairStorageSpec == StorageSpec /\ StorageFairness

(* A reservation becomes a material or goes away, whatever fails.          *)
ReservationsEnd ==
  \A m \in Materials : store[m] = "reserved" ~> store[m] # "reserved"

(* An unfinished deletion is finished.                                     *)
DeletingEnds == \A m \in Materials : store[m] = "deleting" ~> store[m] # "deleting"

(* The deletion of the account succeeds in the end, if it is retried.      *)
AccountDeletionEnds == deletion \in {"pending", "failed"} ~> deletion = "succeeded"
=============================================================================
