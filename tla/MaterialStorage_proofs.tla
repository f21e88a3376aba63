----------------------- MODULE MaterialStorage_proofs -----------------------
(***************************************************************************)
(* Proofs about MaterialStorage, for any number of uploads, scans and      *)
(* requests and any limits: first of what holds even if scans are hasty,   *)
(* then of what needs scans that look only at rows whose upload is over.   *)
(***************************************************************************)
EXTENDS MaterialStorage, FiniteSetTheorems, TLAPS

-----------------------------------------------------------------------------
(* The inductive invariant.                                                *)

Present == {"reserved", "available"}

(* Nobody knows of a material before its reservation is committed.         *)
FreshIsUnknown ==
  \A m \in Materials : pc[m] = "idle" =>
    /\ store[m] = "none" /\ hash[m] = None
    /\ \A s \in Scanners : seen[s][m] = "no"
    /\ \A a \in Scanners \cup Deleters : target[a] # m

(* From the start of its PUT to its commit an upload has its reservation   *)
(* and the user to itself, and the PUT has left an object.                 *)
PutIsExclusive ==
  \A m \in Materials : pc[m] \in {"put", "stored"} =>
    /\ store[m] = "reserved" /\ ~cleaning
    /\ pc[m] = "stored" => object[m]

(* No upload is compensated whose material is available, unless it has     *)
(* taken the material away first.                                          *)
AvailableIsSettled ==
  \A m \in Materials : store[m] = "available" => pc[m] \in {"compensate", "done"}

(* Scans and deletions touch an object only once its material is gone; and *)
(* what a scan has loaded as a deletion never comes back.                  *)
TargetIsWithdrawn ==
  \A a \in Scanners \cup Deleters :
    pc[a] \in {"purge", "finish"} => store[target[a]] \notin Present

SeenIsWithdrawn ==
  \A s \in Scanners, m \in Materials :
    seen[s][m] \in {"deleting", "unsure"} => store[m] \notin Present

(* An account deletion runs only once it has been requested.               *)
CleaningIsRequested == cleaning => deletion \in {"pending", "failed"}

StorageInv ==
  /\ FreshIsUnknown /\ PutIsExclusive /\ AvailableIsSettled
  /\ TargetIsWithdrawn /\ SeenIsWithdrawn /\ CleaningIsRequested
  /\ AvailableHasObject /\ NoDuplicates

-----------------------------------------------------------------------------
(* Initially no material is known.                                         *)
LEMMA InitInv == StorageInit => StorageTypeOK /\ StorageInv
<1> SUFFICES ASSUME StorageInit PROVE StorageTypeOK /\ StorageInv
  OBVIOUS
<1> USE StorageActors, StorageConstants DEF StorageInit, NoneSeen
<1>1. StorageTypeOK
  BY DEF StorageTypeOK, RowTypeOK, StorageActorTypeOK, AccountTypeOK, StorageStatus,
         DeletionStatus, UploadPoints, ScanPoints, DeletePoints, Loaded
<1>2. StorageInv
  BY DEF StorageInv, FreshIsUnknown, PutIsExclusive, AvailableIsSettled,
         TargetIsWithdrawn, SeenIsWithdrawn, CleaningIsRequested,
         AvailableHasObject, NoDuplicates, Present
<1> QED
  BY <1>1, <1>2

(* The way of an upload from its reservation to its commit.                *)
LEMMA UploadGoesOn ==
  ASSUME StorageTypeOK, StorageInv, NEW m \in Materials,
         \/ Reserve(m) \/ Stage(m) \/ StartPut(m) \/ Refuse(m) \/ PutObject(m)
         \/ PutFails(m) \/ Finalize(m)
  PROVE  StorageTypeOK' /\ StorageInv'
<1> USE StorageActors, StorageConstants
    DEF StorageTypeOK, RowTypeOK, StorageActorTypeOK, AccountTypeOK, StorageStatus,
        DeletionStatus, UploadPoints, ScanPoints, DeletePoints, Loaded,
        StorageInv, FreshIsUnknown, PutIsExclusive, AvailableIsSettled,
        TargetIsWithdrawn, SeenIsWithdrawn, CleaningIsRequested,
        AvailableHasObject, NoDuplicates, Present,
        Goto, SetStore, rowVars, bucketVars, actorVars, accountVars
<1>1. CASE Reserve(m)
  BY <1>1 DEF Reserve
<1>2. CASE Stage(m)
  BY <1>2 DEF Stage, Duplicate
<1>3. CASE StartPut(m)
  BY <1>3 DEF StartPut, LockFree
<1>4. CASE Refuse(m)
  BY <1>4 DEF Refuse
<1>5. CASE PutObject(m)
  <2>1. CASE Goto(m, "stored")
    BY <1>5, <2>1 DEF PutObject
  <2>2. CASE Goto(m, "undo")
    BY <1>5, <2>2 DEF PutObject
  <2> QED
    BY <1>5, <2>1, <2>2 DEF PutObject
<1>6. CASE PutFails(m)
  BY <1>6 DEF PutFails, PutOutcome
<1>7. CASE Finalize(m)
  <2>1. CASE SetStore(m, "available") /\ Goto(m, "done")
    BY <1>7, <2>1 DEF Finalize
  <2>2. CASE SetStore(m, "available") /\ Goto(m, "compensate")
    BY <1>7, <2>2 DEF Finalize
  <2>3. CASE UNCHANGED store /\ Goto(m, "compensate")
    BY <1>7, <2>3 DEF Finalize
  <2> QED
    BY <1>7, <2>1, <2>2, <2>3 DEF Finalize
<1> QED
  BY <1>1, <1>2, <1>3, <1>4, <1>5, <1>6, <1>7

(* What an upload does that cannot go on, and what remains of its PUT.     *)
LEMMA UploadGivesUp ==
  ASSUME StorageTypeOK, StorageInv, NEW m \in Materials,
         \/ Compensate(m) \/ PurgeUpload(m) \/ EraseUpload(m)
         \/ LookUnsure(m) \/ MarkUncertain(m)
         \/ LookUndo(m) \/ RemoveObject(m) \/ RemoveFails(m)
         \/ LookDiscard(m) \/ DropReservation(m)
         \/ CrashUpload(m) \/ Land(m)
  PROVE  StorageTypeOK' /\ StorageInv'
<1> USE StorageActors, StorageConstants
    DEF StorageTypeOK, RowTypeOK, StorageActorTypeOK, AccountTypeOK, StorageStatus,
        DeletionStatus, UploadPoints, ScanPoints, DeletePoints, Loaded,
        StorageInv, FreshIsUnknown, PutIsExclusive, AvailableIsSettled,
        TargetIsWithdrawn, SeenIsWithdrawn, CleaningIsRequested,
        AvailableHasObject, NoDuplicates, Present,
        Goto, SetStore, rowVars, bucketVars, actorVars, accountVars
<1>1. CASE Compensate(m)
  <2>1. CASE Withdraw(m) /\ Goto(m, "purge")
    BY <1>1, <2>1 DEF Compensate, Withdraw
  <2>2. CASE Goto(m, "done") /\ UNCHANGED store
    BY <1>1, <2>2 DEF Compensate, Withdraw
  <2> QED
    BY <1>1, <2>1, <2>2 DEF Compensate
<1>2. CASE PurgeUpload(m)
  <2>1. CASE DeleteObject(m) /\ Goto(m, "erase")
    BY <1>2, <2>1 DEF PurgeUpload, DeleteObject
  <2>2. CASE Goto(m, "done") /\ UNCHANGED bucketVars
    BY <1>2, <2>2 DEF PurgeUpload, DeleteObject
  <2> QED
    BY <1>2, <2>1, <2>2 DEF PurgeUpload
<1>3. CASE EraseUpload(m)
  <2>1. CASE RemoveRow(m)
    BY <1>3, <2>1 DEF EraseUpload, RemoveRow
  <2>2. CASE UNCHANGED rowVars
    BY <1>3, <2>2 DEF EraseUpload, RemoveRow
  <2> QED
    BY <1>3, <2>1, <2>2 DEF EraseUpload
<1>4. CASE LookUnsure(m)
  BY <1>4 DEF LookUnsure
<1>5. CASE MarkUncertain(m)
  BY <1>5 DEF MarkUncertain, Overwrite
<1>6. CASE LookUndo(m)
  BY <1>6 DEF LookUndo
<1>7. CASE RemoveObject(m)
  BY <1>7 DEF RemoveObject, DeleteObject
<1>8. CASE RemoveFails(m)
  <2>1. CASE DeleteObject(m) /\ store[m] = "none"
    BY <1>8, <2>1, SMTT(30) DEF RemoveFails, Overwrite, DeleteObject
  <2>2. CASE DeleteObject(m) /\ store[m] # "none"
    BY <1>8, <2>2, SMTT(30) DEF RemoveFails, Overwrite, DeleteObject
  <2>3. CASE UNCHANGED bucketVars /\ store[m] = "none"
    BY <1>8, <2>3, SMTT(30) DEF RemoveFails, Overwrite
  <2>4. CASE UNCHANGED bucketVars /\ store[m] # "none"
    BY <1>8, <2>4, SMTT(30) DEF RemoveFails, Overwrite
  <2> QED
    BY <1>8, <2>1, <2>2, <2>3, <2>4 DEF RemoveFails
<1>9. CASE LookDiscard(m)
  BY <1>9 DEF LookDiscard
<1>10. CASE DropReservation(m)
  BY <1>10 DEF DropReservation, RemoveRow
<1>11. CASE CrashUpload(m)
  BY <1>11 DEF CrashUpload, PutOutcome
<1>12. CASE Land(m)
  <2>1. CASE object' = object
    BY <1>12, <2>1 DEF Land
  <2>2. CASE object' = [object EXCEPT ![m] = TRUE]
    BY <1>12, <2>2 DEF Land
  <2> QED
    BY <1>12, <2>1, <2>2 DEF Land
<1> QED
  BY <1>1, <1>2, <1>3, <1>4, <1>5, <1>6, <1>7, <1>8, <1>9, <1>10, <1>11, <1>12

(* delete_material.                                                        *)
LEMMA DeletionKeeps ==
  ASSUME StorageTypeOK, StorageInv, NEW d \in Deleters, Deletion(d)
  PROVE  StorageTypeOK' /\ StorageInv'
<1> USE StorageActors, StorageConstants
    DEF StorageTypeOK, RowTypeOK, StorageActorTypeOK, AccountTypeOK, StorageStatus,
        DeletionStatus, UploadPoints, ScanPoints, DeletePoints, Loaded,
        StorageInv, FreshIsUnknown, PutIsExclusive, AvailableIsSettled,
        TargetIsWithdrawn, SeenIsWithdrawn, CleaningIsRequested,
        AvailableHasObject, NoDuplicates, Present,
        Goto, SetStore, rowVars, bucketVars, actorVars, accountVars
<1>1. ASSUME NEW m \in Materials, DeleteStart(d, m) PROVE StorageTypeOK' /\ StorageInv'
  BY <1>1 DEF DeleteStart, Deletable, Withdraw
<1>2. CASE PurgeMaterial(d)
  BY <1>2 DEF PurgeMaterial, DeleteObject
<1>3. CASE DeleteFinish(d)
  BY <1>3 DEF DeleteFinish, LockFree, Overwrite
<1>4. CASE DeleteFails(d)
  BY <1>4 DEF DeleteFails
<1> QED
  BY <1>1, <1>2, <1>3, <1>4 DEF Deletion

(* A scan that leaves a candidate, or all of them, keeps the types; it has *)
(* no target any more, and has forgotten what it leaves.                   *)
LEMMA ScanMovesOn ==
  ASSUME StorageActorTypeOK, NEW s \in Scanners, NEW m \in Materials,
         NextCandidate(s, m) \/ AbortScan(s)
  PROVE  /\ StorageActorTypeOK'
         /\ \A n \in Materials : pc'[n] = pc[n]
         /\ \A a \in Scanners \cup Deleters :
              IF a = s THEN pc'[a] \notin {"purge", "finish"} /\ target'[a] = None
                       ELSE pc'[a] = pc[a] /\ target'[a] = target[a]
         /\ \A x \in Scanners, n \in Materials : seen'[x][n] \in {seen[x][n], "no"}
<1> USE StorageActors DEF StorageActorTypeOK, Goto, ScanPoints
<1>1. PICK l \in {"scan", "idle"} : pc' = [pc EXCEPT ![s] = l]
  BY DEF NextCandidate, AbortScan
<1>2. target' = [target EXCEPT ![s] = None]
  BY DEF NextCandidate, AbortScan
<1>3. PICK f \in [Materials -> Loaded] :
        /\ seen' = [seen EXCEPT ![s] = f]
        /\ \A n \in Materials : f[n] \in {seen[s][n], "no"}
  <2>1. CASE NextCandidate(s, m)
    <3>1. [seen[s] EXCEPT ![m] = "no"] \in [Materials -> Loaded]
      BY DEF Loaded
    <3> QED
      BY <2>1, <3>1 DEF NextCandidate
  <2>2. CASE AbortScan(s)
    <3>1. NoneSeen \in [Materials -> Loaded]
      BY DEF NoneSeen, Loaded
    <3> QED
      BY <2>2, <3>1 DEF AbortScan, NoneSeen
  <2> QED
    BY <2>1, <2>2
<1> QED
  BY <1>1, <1>2, <1>3

(* So it keeps the invariant if the row it leaves is as it was, or deleted. *)
LEMMA ScanLeaves ==
  ASSUME StorageTypeOK, StorageInv, NEW s \in Scanners, NEW m \in Materials,
         NextCandidate(s, m) \/ AbortScan(s),
         \/ UNCHANGED <<store, uncertain>>
         \/ m \in Rows /\ store[m] \notin Present /\ WriteTombstone(s, m),
         UNCHANGED <<hash, bucketVars, accountVars>>
  PROVE  StorageTypeOK' /\ StorageInv'
<1>1. /\ store' \in [Materials -> StorageStatus]
      /\ uncertain' \in [Materials -> BOOLEAN]
      /\ \A n \in Materials : (store'[n] = store[n]) \/
           (store[n] \notin Present \cup {"none"} /\ store'[n] = "deleted")
      /\ \A n \in Materials : uncertain'[n] => uncertain[n]
  <2> USE DEF StorageTypeOK, RowTypeOK
  <2>1. CASE UNCHANGED <<store, uncertain>>
    <3>1. store' = store /\ uncertain' = uncertain
      BY <2>1
    <3> QED
      BY <3>1
  <2>2. CASE m \in Rows /\ store[m] \notin Present /\ WriteTombstone(s, m)
    <3>1. /\ store' = [store EXCEPT ![m] = "deleted"]
          /\ store[m] \notin Present \cup {"none"}
      BY <2>2 DEF WriteTombstone, Overwrite, SetStore, Rows
    <3>2. uncertain' = uncertain \/ uncertain' = [uncertain EXCEPT ![m] = FALSE]
      BY <2>2 DEF WriteTombstone
    <3> QED
      BY <3>1, <3>2 DEF StorageStatus
  <2> QED
    BY <2>1, <2>2
<1>2. StorageTypeOK'
  BY <1>1, ScanMovesOn DEF StorageTypeOK, RowTypeOK, AccountTypeOK, bucketVars, accountVars
<1> USE <1>1, ScanMovesOn, StorageActors
    DEF StorageTypeOK, StorageInv, bucketVars, accountVars
<1>3. FreshIsUnknown'
  <2>1. \A a \in Scanners \cup Deleters, n \in Materials : target'[a] = n => target[a] = n
    BY StorageConstants
  <2> QED
    BY <2>1 DEF FreshIsUnknown
<1>6. PutIsExclusive' /\ AvailableIsSettled'
  BY DEF PutIsExclusive, AvailableIsSettled, Present
<1>4. TargetIsWithdrawn'
  <2> SUFFICES ASSUME NEW a \in Scanners \cup Deleters, pc'[a] \in {"purge", "finish"}
               PROVE  store'[target'[a]] \notin Present
    BY DEF TargetIsWithdrawn, Present
  <2>1. a # s /\ pc'[a] = pc[a] /\ target'[a] = target[a]
    OBVIOUS
  <2>2. target[a] \in Materials /\ store[target[a]] \notin Present
    BY <2>1 DEF TargetIsWithdrawn, StorageActorTypeOK
  <2> QED
    BY <2>1, <2>2 DEF Present
<1>7. SeenIsWithdrawn'
  BY DEF SeenIsWithdrawn, StorageActorTypeOK, Present
<1>5. CleaningIsRequested' /\ AvailableHasObject' /\ NoDuplicates'
  BY DEF CleaningIsRequested, AvailableHasObject, NoDuplicates, RowTypeOK
<1> QED
  BY <1>2, <1>3, <1>4, <1>5, <1>6, <1>7 DEF StorageInv

(* The storage scan, however early it lists its candidates.                *)
LEMMA ScanKeeps ==
  ASSUME StorageTypeOK, StorageInv, NEW s \in Scanners, Scan(s)
  PROVE  StorageTypeOK' /\ StorageInv'
<1> USE StorageActors, StorageConstants
    DEF StorageTypeOK, RowTypeOK, StorageActorTypeOK, AccountTypeOK, StorageStatus,
        DeletionStatus, UploadPoints, ScanPoints, DeletePoints, Loaded,
        StorageInv, FreshIsUnknown, PutIsExclusive, AvailableIsSettled,
        TargetIsWithdrawn, SeenIsWithdrawn, CleaningIsRequested,
        AvailableHasObject, NoDuplicates, Present,
        Goto, SetStore, rowVars, bucketVars, actorVars, accountVars
<1>1. CASE ListCandidates(s)
  BY <1>1 DEF ListCandidates, Candidates
<1>2. ASSUME NEW m \in Materials, TakeCandidate(s, m) PROVE StorageTypeOK' /\ StorageInv'
  <2>1. CASE seen[s][m] = "reserved"
    <3>1. RowTypeOK'
      <4>1. store' = [store EXCEPT ![m] = "deleting"]
        BY <1>2, <2>1 DEF TakeCandidate
      <4>2. UNCHANGED <<hash, uncertain, object, late>>
        BY <1>2 DEF TakeCandidate
      <4> QED
        BY <4>1, <4>2
    <3>4. AccountTypeOK'
      BY <1>2 DEF TakeCandidate
    <3>3. StorageActorTypeOK'
      BY <1>2, <2>1 DEF TakeCandidate
    <3>2. StorageInv'
      BY <1>2, <2>1 DEF TakeCandidate, Lockable, LockFree, Rows
    <3> QED
      BY <3>1, <3>2, <3>3, <3>4
  <2>2. CASE seen[s][m] # "reserved"
    BY <1>2, <2>2 DEF TakeCandidate, Lockable, LockFree, Rows
  <2> QED
    BY <1>2, <2>1, <2>2 DEF TakeCandidate
<1>3. ASSUME NEW m \in Materials, SkipCandidate(s, m) PROVE StorageTypeOK' /\ StorageInv'
  BY <1>3, ScanLeaves DEF SkipCandidate
<1>4. CASE PurgeCandidate(s)
  BY <1>4 DEF PurgeCandidate, DeleteObject
<1>5. CASE FinishCandidate(s)
  <2>1. store[target[s]] \notin Present /\ target[s] \in Materials
    BY <1>5 DEF FinishCandidate, Rows
  <2> QED
    BY <1>5, <2>1, ScanLeaves DEF FinishCandidate
<1>6. CASE PostponeCandidate(s)
  BY <1>6, ScanLeaves DEF PostponeCandidate
<1>7. CASE EndScan(s)
  <2>1. CASE Materials = {}
    BY <1>7, <2>1 DEF EndScan, AbortScan, NoneSeen
  <2>2. CASE Materials # {}
    BY <1>7, <2>2, ScanLeaves DEF EndScan
  <2> QED
    BY <2>1, <2>2
<1> QED
  BY <1>1, <1>2, <1>3, <1>4, <1>5, <1>6, <1>7 DEF Scan

(* The deletion of the account.                                            *)
LEMMA AccountKeeps ==
  ASSUME StorageTypeOK, StorageInv, Account
  PROVE  StorageTypeOK' /\ StorageInv'
<1> USE StorageActors, StorageConstants
    DEF StorageTypeOK, RowTypeOK, StorageActorTypeOK, AccountTypeOK, StorageStatus,
        DeletionStatus, UploadPoints, ScanPoints, DeletePoints, Loaded,
        StorageInv, FreshIsUnknown, PutIsExclusive, AvailableIsSettled,
        TargetIsWithdrawn, SeenIsWithdrawn, CleaningIsRequested,
        AvailableHasObject, NoDuplicates, Present,
        Goto, SetStore, rowVars, bucketVars, actorVars, accountVars
<1>1. CASE RequestDeletion
  BY <1>1 DEF RequestDeletion, LockFree, Active
<1>2. CASE StartCleaning
  BY <1>2 DEF StartCleaning, LockFree, Rows
<1>3. ASSUME NEW m \in Materials, CleanArtifact(m) PROVE StorageTypeOK' /\ StorageInv'
  BY <1>3 DEF CleanArtifact, DeleteObject
<1>4. CASE CleaningFails
  <2>1. StorageTypeOK'
    BY <1>4 DEF CleaningFails, StopCleaning
  <2>2. StorageInv'
    BY <1>4 DEF CleaningFails, StopCleaning
  <2> QED
    BY <2>1, <2>2
<1>5. CASE DeleteUser
  <2>1. StorageTypeOK'
    BY <1>5 DEF DeleteUser, StopCleaning
  <2>2. StorageInv'
    BY <1>5 DEF DeleteUser, StopCleaning
  <2> QED
    BY <2>1, <2>2
<1>6. CASE CrashCleaning
  <2>1. StorageTypeOK'
    BY <1>6 DEF CrashCleaning, StopCleaning
  <2>2. StorageInv'
    BY <1>6 DEF CrashCleaning, StopCleaning
  <2> QED
    BY <2>1, <2>2
<1>7. CASE Enable
  <2>1. StorageTypeOK'
    BY <1>7 DEF Enable
  <2>2. StorageInv'
    BY <1>7 DEF Enable
  <2> QED
    BY <2>1, <2>2
<1> QED
  BY <1>1, <1>2, <1>3, <1>4, <1>5, <1>6, <1>7 DEF Account

(* The invariant, and with it the types, holds in every state.             *)
LEMMA InvHolds == StorageSpec => [](StorageTypeOK /\ StorageInv)
<1>1. StorageTypeOK /\ StorageInv /\ [StorageNext]_vars => (StorageTypeOK /\ StorageInv)'
  <2> SUFFICES ASSUME StorageTypeOK, StorageInv, [StorageNext]_vars
               PROVE  StorageTypeOK' /\ StorageInv'
    OBVIOUS
  <2>1. CASE UNCHANGED vars
    BY <2>1 DEF vars, StorageTypeOK, RowTypeOK, StorageActorTypeOK, AccountTypeOK,
                StorageInv, FreshIsUnknown, PutIsExclusive, AvailableIsSettled,
                TargetIsWithdrawn, SeenIsWithdrawn, CleaningIsRequested,
                AvailableHasObject, NoDuplicates
  <2>2. ASSUME NEW m \in Materials, Reserve(m) \/ Upload(m) \/ CrashUpload(m) \/ Land(m)
        PROVE  StorageTypeOK' /\ StorageInv'
    BY <2>2, UploadGoesOn, UploadGivesUp DEF Upload
  <2> QED
    BY <2>1, <2>2, DeletionKeeps, ScanKeeps, AccountKeeps DEF StorageNext
<1> QED
  BY <1>1, InitInv, PTL DEF StorageSpec

(* StorageTypeOK holds for any number of uploads, scans and requests.      *)
THEOREM StorageTypeCorrect == StorageSpec => []StorageTypeOK
BY InvHolds, PTL

(* AvailableHasObject holds: no compensation, scan or deletion takes the   *)
(* object of an available material, however early a scan lists it.         *)
THEOREM AvailableKeepsObject == StorageSpec => []AvailableHasObject
<1>1. StorageInv => AvailableHasObject
  BY DEF StorageInv
<1> QED
  BY <1>1, InvHolds, PTL

(* NoDuplicates holds, though an upload gives up the users row between its *)
(* test for duplicates and its commit.                                     *)
THEOREM NeverTwice == StorageSpec => []NoDuplicates
<1>1. StorageInv => NoDuplicates
  BY DEF StorageInv
<1> QED
  BY <1>1, InvHolds, PTL
-----------------------------------------------------------------------------
(* Scans that look only at rows whose upload is over.  The upload has then *)
(* the row to itself until it is done, and what it leaves behind is known. *)

Reserving == {"reserved", "sized", "put", "stored", "unsure", "mark", "undo", "remove",
              "discard", "drop"}

(* Nobody takes a reservation away from its upload.                        *)
OpenIsReserved == \A m \in Materials : pc[m] \in Reserving => store[m] = "reserved"

(* A PUT that may still take effect has a row that must stay.              *)
LateMustStay ==
  \A m \in Materials : late[m] => /\ pc[m] \in {"unsure", "mark", "done"}
                                  /\ \/ store[m] = "reserved"
                                     \/ store[m] = "deleting" /\ uncertain[m]

(* An upload that removes its row has left no object.                      *)
NothingStored ==
  \A m \in Materials :
    pc[m] \in {"idle", "reserved", "sized", "discard", "drop", "erase"} => ~object[m]

(* Whoever writes a tombstone has removed the object for good, and a       *)
(* deletion only works on rows that are certain.                           *)
TargetIsEmptied ==
  /\ \A a \in Scanners \cup Deleters : pc[a] \in {"purge", "finish"} =>
       /\ ~late[target[a]]
       /\ pc[a] = "finish" => ~object[target[a]]
  /\ \A d \in Deleters : pc[d] \in {"purge", "finish"} => ~uncertain[target[d]]

(* What a scan has loaded is over, and it knows which of it is uncertain.  *)
SeenIsOver ==
  /\ \A s \in Scanners, m \in Materials : seen[s][m] # "no" =>
       /\ pc[m] = "done" /\ ~late[m] /\ store[m] # "available"
       /\ seen[s][m] # "unsure" => ~uncertain[m]
  /\ \A s \in Scanners : pc[s] \in {"purge", "finish"} => seen[s][target[s]] # "no"

(* An account deletion that may still succeed knows every object.          *)
CleaningKnowsAll ==
  cleaning /\ ~blocked => \A m \in Materials :
    /\ store[m] # "reserved" /\ ~uncertain[m] /\ ~late[m]
    /\ object[m] => m \in artifacts

SettledInv ==
  /\ OpenIsReserved /\ LateMustStay /\ NothingStored /\ TargetIsEmptied
  /\ SeenIsOver /\ CleaningKnowsAll /\ NoUnknownObject /\ TombstoneIsCertain

LEMMA InitSettled == StorageInit => SettledInv
BY StorageActors, StorageConstants
   DEF StorageInit, NoneSeen, SettledInv, OpenIsReserved, LateMustStay, NothingStored,
       TargetIsEmptied, SeenIsOver, CleaningKnowsAll, NoUnknownObject, TombstoneIsCertain,
       Reserving

(* The way of an upload.                                                   *)
LEMMA UploadSettled ==
  ASSUME StorageTypeOK, StorageInv, SettledInv, NEW m \in Materials,
         Reserve(m) \/ Upload(m) \/ CrashUpload(m) \/ Land(m)
  PROVE  SettledInv'
<1> USE StorageActors, StorageConstants
    DEF StorageTypeOK, RowTypeOK, StorageActorTypeOK, AccountTypeOK, StorageStatus,
        DeletionStatus, UploadPoints, ScanPoints, DeletePoints, Loaded, Reserving,
        StorageInv, FreshIsUnknown, PutIsExclusive, AvailableIsSettled,
        TargetIsWithdrawn, SeenIsWithdrawn, Present,
        SettledInv, OpenIsReserved, LateMustStay, NothingStored,
        TargetIsEmptied, SeenIsOver, CleaningKnowsAll, NoUnknownObject, TombstoneIsCertain,
        Goto, SetStore, rowVars, bucketVars, actorVars, accountVars
<1>1. CASE Reserve(m)
  BY <1>1 DEF Reserve, LockFree
<1>2. CASE Stage(m)
  BY <1>2 DEF Stage
<1>3. CASE StartPut(m)
  BY <1>3 DEF StartPut
<1>4. CASE Refuse(m)
  BY <1>4 DEF Refuse
<1>5. CASE PutObject(m)
  BY <1>5 DEF PutObject
<1>6. CASE PutFails(m)
  BY <1>6 DEF PutFails, PutOutcome
<1>7. CASE Finalize(m)
  <2>1. CASE SetStore(m, "available") /\ Goto(m, "done")
    BY <1>7, <2>1 DEF Finalize
  <2>2. CASE SetStore(m, "available") /\ Goto(m, "compensate")
    BY <1>7, <2>2 DEF Finalize
  <2>3. CASE UNCHANGED store /\ Goto(m, "compensate")
    BY <1>7, <2>3 DEF Finalize
  <2> QED
    BY <1>7, <2>1, <2>2, <2>3 DEF Finalize
<1>8. CASE Compensate(m)
  <2>1. CASE LockFree /\ Withdraw(m) /\ Goto(m, "purge")
    BY <1>8, <2>1 DEF Compensate, Withdraw, LockFree
  <2>2. CASE Goto(m, "done") /\ UNCHANGED store
    BY <1>8, <2>2 DEF Compensate
  <2> QED
    BY <1>8, <2>1, <2>2 DEF Compensate
<1>9. CASE PurgeUpload(m)
  <2>1. CASE DeleteObject(m) /\ Goto(m, "erase")
    BY <1>9, <2>1 DEF PurgeUpload, DeleteObject
  <2>2. CASE Goto(m, "done") /\ UNCHANGED bucketVars
    BY <1>9, <2>2 DEF PurgeUpload
  <2> QED
    BY <1>9, <2>1, <2>2 DEF PurgeUpload
<1>10. CASE EraseUpload(m)
  <2>1. CASE RemoveRow(m)
    BY <1>10, <2>1 DEF EraseUpload, RemoveRow
  <2>2. CASE UNCHANGED rowVars
    BY <1>10, <2>2 DEF EraseUpload
  <2> QED
    BY <1>10, <2>1, <2>2 DEF EraseUpload
<1>11. CASE LookUnsure(m)
  BY <1>11 DEF LookUnsure
<1>12. CASE MarkUncertain(m)
  BY <1>12 DEF MarkUncertain, Overwrite
<1>13. CASE LookUndo(m)
  BY <1>13 DEF LookUndo
<1>14. CASE RemoveObject(m)
  BY <1>14 DEF RemoveObject, DeleteObject
<1>15. CASE RemoveFails(m)
  <2>1. CASE DeleteObject(m)
    BY <1>15, <2>1 DEF RemoveFails, Overwrite, DeleteObject
  <2>2. CASE UNCHANGED bucketVars
    BY <1>15, <2>2 DEF RemoveFails, Overwrite
  <2> QED
    BY <1>15, <2>1, <2>2 DEF RemoveFails
<1>16. CASE LookDiscard(m)
  BY <1>16 DEF LookDiscard
<1>17. CASE DropReservation(m)
  BY <1>17 DEF DropReservation, RemoveRow
<1>18. CASE CrashUpload(m)
  <2>1. CASE pc[m] = "put"
    BY <1>18, <2>1 DEF CrashUpload, PutOutcome
  <2>2. CASE pc[m] # "put"
    BY <1>18, <2>2 DEF CrashUpload
  <2> QED
    BY <2>1, <2>2
<1>19. CASE Land(m)
  <2>1. CASE object' = object
    BY <1>19, <2>1 DEF Land
  <2>2. CASE object' = [object EXCEPT ![m] = TRUE]
    BY <1>19, <2>2 DEF Land
  <2> QED
    BY <1>19, <2>1, <2>2 DEF Land
<1> QED
  BY <1>1, <1>2, <1>3, <1>4, <1>5, <1>6, <1>7, <1>8, <1>9, <1>10, <1>11, <1>12, <1>13,
     <1>14, <1>15, <1>16, <1>17, <1>18, <1>19 DEF Upload

(* delete_material.                                                        *)
LEMMA DeletionSettled ==
  ASSUME StorageTypeOK, StorageInv, SettledInv, NEW d \in Deleters, Deletion(d)
  PROVE  SettledInv'
<1> USE StorageActors, StorageConstants
    DEF StorageTypeOK, RowTypeOK, StorageActorTypeOK, AccountTypeOK, StorageStatus,
        DeletionStatus, UploadPoints, ScanPoints, DeletePoints, Loaded, Reserving,
        StorageInv, TargetIsWithdrawn, SeenIsWithdrawn, Present,
        SettledInv, OpenIsReserved, LateMustStay, NothingStored,
        TargetIsEmptied, SeenIsOver, CleaningKnowsAll, NoUnknownObject, TombstoneIsCertain,
        Goto, SetStore, rowVars, bucketVars, actorVars, accountVars
<1>1. ASSUME NEW m \in Materials, DeleteStart(d, m) PROVE SettledInv'
  BY <1>1 DEF DeleteStart, Deletable, Withdraw, LockFree
<1>2. CASE PurgeMaterial(d)
  BY <1>2 DEF PurgeMaterial, DeleteObject
<1>3. CASE DeleteFinish(d)
  BY <1>3 DEF DeleteFinish, LockFree, Overwrite
<1>4. CASE DeleteFails(d)
  BY <1>4 DEF DeleteFails
<1> QED
  BY <1>1, <1>2, <1>3, <1>4 DEF Deletion

(* A scan that moves on still knows of nothing but what it has loaded, and *)
(* has no target.                                                          *)
LEMMA LeavesSeen ==
  ASSUME StorageActorTypeOK, SeenIsOver, NEW s \in Scanners, NEW m \in Materials,
         NextCandidate(s, m) \/ AbortScan(s)
  PROVE  /\ \A x \in Scanners \ {s} : seen'[x] = seen[x]
         /\ \A x \in Scanners : pc'[x] \in {"purge", "finish"} => seen'[x][target'[x]] # "no"
<1>1. \A x \in Scanners \ {s} : seen'[x] = seen[x]
  BY DEF StorageActorTypeOK, NextCandidate, AbortScan
<1>2. ASSUME NEW x \in Scanners, pc'[x] \in {"purge", "finish"}
      PROVE  seen'[x][target'[x]] # "no"
  BY <1>1, <1>2, ScanMovesOn DEF SeenIsOver
<1> QED
  BY <1>1, <1>2

(* A scan that takes a reservation takes one whose upload is over.         *)
LEMMA TakeSettled ==
  ASSUME StorageTypeOK, StorageInv, SettledInv, NEW s \in Scanners, NEW m \in Materials,
         TakeCandidate(s, m)
  PROVE  SettledInv'
<1> USE StorageActors, StorageConstants
    DEF StorageTypeOK, RowTypeOK, StorageActorTypeOK, ScanPoints, SettledInv, SeenIsOver,
        TakeCandidate, Goto, SetStore, Lockable, LockFree, Rows, bucketVars, accountVars
<1>1. /\ pc[m] = "done" /\ ~late[m] /\ store[m] # "available" /\ ~cleaning
      /\ seen[s][m] # "no"
  OBVIOUS
<1>2. UNCHANGED <<uncertain, object, late, seen, cleaning>>
  OBVIOUS
<1>3. /\ \A n \in Materials : pc'[n] = pc[n]
      /\ pc'[s] = "purge" /\ target'[s] = m
      /\ \A a \in Scanners \cup Deleters : a # s => pc'[a] = pc[a] /\ target'[a] = target[a]
  OBVIOUS
<1>4. \A n \in Materials : store'[n] = store[n] \/ (n = m /\ store'[n] = "deleting")
  <2>1. store' = store \/ store' = [store EXCEPT ![m] = "deleting"]
    OBVIOUS
  <2> QED
    BY <2>1
<1> HIDE DEF TakeCandidate
<1>5. OpenIsReserved' /\ LateMustStay' /\ NothingStored'
  BY <1>1, <1>2, <1>3, <1>4 DEF OpenIsReserved, LateMustStay, NothingStored, Reserving
<1>6. TargetIsEmptied'
  BY <1>1, <1>2, <1>3 DEF TargetIsEmptied
<1>7. SeenIsOver'
  BY <1>1, <1>2, <1>3, <1>4
<1>8. CleaningKnowsAll' /\ NoUnknownObject' /\ TombstoneIsCertain'
  BY <1>1, <1>2, <1>4 DEF CleaningKnowsAll, NoUnknownObject, TombstoneIsCertain
<1> QED
  BY <1>5, <1>6, <1>7, <1>8

(* A scan leaves its candidate as it was, or with a tombstone that is      *)
(* certain and behind which no object is left.                             *)
LEMMA LeavingSettled ==
  ASSUME StorageTypeOK, StorageInv, SettledInv, NEW s \in Scanners, NEW m \in Materials,
         NextCandidate(s, m) \/ AbortScan(s),
         \/ UNCHANGED <<store, uncertain>>
         \/ /\ m = target[s] /\ pc[s] = "finish" /\ ~cleaning
            /\ m \in Rows /\ WriteTombstone(s, m),
         UNCHANGED <<hash, bucketVars, accountVars>>
  PROVE  SettledInv'
<1> USE ScanMovesOn, StorageActors
    DEF StorageTypeOK, StorageInv, SettledInv, bucketVars, accountVars
<1>1. CASE UNCHANGED <<store, uncertain>>
  <2>0. store' = store /\ uncertain' = uncertain
    BY <1>1
  <2>1. OpenIsReserved' /\ LateMustStay' /\ NothingStored'
    BY <2>0 DEF OpenIsReserved, LateMustStay, NothingStored
  <2>2. TargetIsEmptied'
    BY <2>0 DEF TargetIsEmptied
  <2>3. SeenIsOver'
    BY <2>0, LeavesSeen DEF SeenIsOver
  <2>4. CleaningKnowsAll' /\ NoUnknownObject' /\ TombstoneIsCertain'
    BY <2>0 DEF CleaningKnowsAll, NoUnknownObject, TombstoneIsCertain
  <2> QED
    BY <2>1, <2>2, <2>3, <2>4
<1>2. CASE /\ m = target[s] /\ pc[s] = "finish" /\ ~cleaning
           /\ m \in Rows /\ WriteTombstone(s, m)
  <2>1. /\ pc[m] = "done" /\ ~late[m] /\ ~object[m]
        /\ seen[s][m] # "unsure" => ~uncertain[m]
    BY <1>2 DEF SeenIsOver, TargetIsEmptied
  <2>2. /\ \A n \in Materials : n # m => store'[n] = store[n] /\ uncertain'[n] = uncertain[n]
        /\ store'[m] = "deleted" /\ ~uncertain'[m]
    BY <1>2, <2>1 DEF WriteTombstone, Overwrite, SetStore, Rows, RowTypeOK
  <2>3. OpenIsReserved' /\ LateMustStay' /\ NothingStored'
    BY <2>1, <2>2 DEF OpenIsReserved, LateMustStay, NothingStored, Reserving
  <2>4. TargetIsEmptied'
    <3>1. \A a \in Scanners \cup Deleters : pc'[a] \in {"purge", "finish"} =>
            pc'[a] = pc[a] /\ target'[a] = target[a] /\ target[a] \in Materials
      BY ScanMovesOn DEF StorageActorTypeOK
    <3>2. \A n \in Materials : uncertain'[n] => uncertain[n]
      BY <2>2
    <3>3. object' = object /\ late' = late
      OBVIOUS
    <3> QED
      BY <3>1, <3>2, <3>3, StorageActors DEF TargetIsEmptied
  <2>5. SeenIsOver'
    BY <2>2, LeavesSeen DEF SeenIsOver
  <2>6. CleaningKnowsAll' /\ NoUnknownObject' /\ TombstoneIsCertain'
    BY <1>2, <2>1, <2>2 DEF CleaningKnowsAll, NoUnknownObject, TombstoneIsCertain
  <2> QED
    BY <2>3, <2>4, <2>5, <2>6
<1> QED
  BY <1>1, <1>2

(* The storage scan.                                                       *)
LEMMA ScanSettled ==
  ASSUME ~Hasty, StorageTypeOK, StorageInv, SettledInv, NEW s \in Scanners, Scan(s)
  PROVE  SettledInv'
<1> USE StorageActors, StorageConstants
    DEF StorageTypeOK, RowTypeOK, StorageActorTypeOK, AccountTypeOK, StorageStatus,
        DeletionStatus, UploadPoints, ScanPoints, DeletePoints, Loaded, Reserving,
        StorageInv, TargetIsWithdrawn, SeenIsWithdrawn, Present,
        SettledInv, OpenIsReserved, LateMustStay, NothingStored,
        TargetIsEmptied, SeenIsOver, CleaningKnowsAll, NoUnknownObject, TombstoneIsCertain,
        Goto, SetStore, rowVars, bucketVars, actorVars, accountVars
<1>1. CASE ListCandidates(s)
  BY <1>1 DEF ListCandidates, Candidates, OldEnough
<1>2. ASSUME NEW m \in Materials, TakeCandidate(s, m) PROVE SettledInv'
  BY <1>2, TakeSettled
<1>3. ASSUME NEW m \in Materials, SkipCandidate(s, m) PROVE SettledInv'
  BY <1>3, LeavingSettled DEF SkipCandidate
<1>4. CASE PurgeCandidate(s)
  BY <1>4 DEF PurgeCandidate, DeleteObject
<1>5. CASE FinishCandidate(s)
  BY <1>5, LeavingSettled DEF FinishCandidate, Lockable, LockFree, Rows
<1>6. CASE PostponeCandidate(s)
  BY <1>6, LeavingSettled DEF PostponeCandidate
<1>7. CASE EndScan(s)
  <2>1. CASE Materials = {}
    BY <1>7, <2>1 DEF EndScan, AbortScan
  <2>2. CASE Materials # {}
    BY <1>7, <2>2, LeavingSettled DEF EndScan
  <2> QED
    BY <2>1, <2>2
<1> QED
  BY <1>1, <1>2, <1>3, <1>4, <1>5, <1>6, <1>7 DEF Scan

(* The deletion of the account.                                            *)
LEMMA AccountSettled ==
  ASSUME StorageTypeOK, StorageInv, SettledInv, Account
  PROVE  SettledInv'
<1> USE StorageActors, StorageConstants
    DEF StorageTypeOK, RowTypeOK, StorageActorTypeOK, AccountTypeOK, StorageStatus,
        UploadPoints, ScanPoints, DeletePoints, Loaded, Reserving,
        StorageInv, PutIsExclusive,
        SettledInv, OpenIsReserved, LateMustStay, NothingStored,
        TargetIsEmptied, SeenIsOver, CleaningKnowsAll, NoUnknownObject, TombstoneIsCertain,
        rowVars, bucketVars, actorVars, accountVars
<1>1. CASE RequestDeletion
  BY <1>1 DEF RequestDeletion
<1>2. CASE StartCleaning
  BY <1>2 DEF StartCleaning, LockFree, Rows, MustStay
<1>3. ASSUME NEW m \in Materials, CleanArtifact(m) PROVE SettledInv'
  BY <1>3 DEF CleanArtifact, DeleteObject
<1>4. CASE CleaningFails
  BY <1>4 DEF CleaningFails, StopCleaning
<1>5. CASE DeleteUser
  BY <1>5 DEF DeleteUser, StopCleaning
<1>6. CASE CrashCleaning
  BY <1>6 DEF CrashCleaning, StopCleaning
<1>7. CASE Enable
  BY <1>7 DEF Enable
<1> QED
  BY <1>1, <1>2, <1>3, <1>4, <1>5, <1>6, <1>7 DEF Account

(* The parts together.                                                     *)
LEMMA SettledStep ==
  ASSUME ~Hasty, StorageTypeOK, StorageInv, SettledInv, [StorageNext]_vars
  PROVE  SettledInv'
<1>1. CASE UNCHANGED vars
  BY <1>1 DEF vars, SettledInv, OpenIsReserved, LateMustStay, NothingStored, TargetIsEmptied,
              SeenIsOver, CleaningKnowsAll, NoUnknownObject, TombstoneIsCertain
<1> QED
  BY <1>1, UploadSettled, DeletionSettled, ScanSettled, AccountSettled DEF StorageNext

LEMMA SettledHolds ==
  ASSUME ~Hasty
  PROVE  StorageSpec => [](StorageTypeOK /\ StorageInv /\ SettledInv)
<1>1. StorageTypeOK /\ StorageInv /\ SettledInv /\ [StorageNext]_vars => SettledInv'
  BY SettledStep
<1> QED
  BY <1>1, InitSettled, InvHolds, PTL DEF StorageSpec

(* NoUnknownObject holds for any number of overlapping scans, deletions    *)
(* and uploads, if scans keep to rows whose upload is over.                *)
THEOREM EveryObjectIsKnown ==
  ASSUME ~Hasty
  PROVE  StorageSpec => []NoUnknownObject
<1>1. SettledInv => NoUnknownObject
  BY DEF SettledInv
<1> QED
  BY <1>1, SettledHolds, PTL

(* TombstoneIsCertain holds under the same assumption: a tombstone never   *)
(* keeps an account from being deleted.                                    *)
THEOREM TombstonesAreCertain ==
  ASSUME ~Hasty
  PROVE  StorageSpec => []TombstoneIsCertain
<1>1. SettledInv => TombstoneIsCertain
  BY DEF SettledInv
<1> QED
  BY <1>1, SettledHolds, PTL

-----------------------------------------------------------------------------
(* What a step may do to an available material.                            *)
TakesAway(m) == store[m] = "available" /\ store'[m] # "available"

ByRequest(m) == pc[m] = "compensate" \/ (\E d \in Deleters : target'[d] = m) \/ cleaning

LEMMA UploadTakesAway ==
  ASSUME StorageTypeOK, StorageInv, SettledInv, NEW m \in Materials, NEW n \in Materials,
         Reserve(m) \/ Upload(m) \/ CrashUpload(m) \/ Land(m), TakesAway(n)
  PROVE  ByRequest(n)
<1> USE DEF StorageTypeOK, RowTypeOK, StorageInv, AvailableIsSettled, FreshIsUnknown,
            SettledInv, TakesAway, ByRequest, SetStore, rowVars
<1>1. CASE Reserve(m) \/ Finalize(m) \/ Compensate(m) \/ EraseUpload(m) \/ DropReservation(m)
  BY <1>1 DEF Reserve, Finalize, Compensate, Withdraw, EraseUpload, DropReservation, RemoveRow
<1>2. CASE MarkUncertain(m) \/ RemoveFails(m)
  BY <1>2 DEF MarkUncertain, RemoveFails, Overwrite
<1>3. CASE \/ Stage(m) \/ StartPut(m) \/ Refuse(m) \/ PutObject(m) \/ PutFails(m)
           \/ PurgeUpload(m) \/ LookUnsure(m) \/ LookUndo(m) \/ RemoveObject(m)
           \/ LookDiscard(m) \/ CrashUpload(m) \/ Land(m)
  BY <1>3 DEF Stage, StartPut, Refuse, PutObject, PutFails, PurgeUpload, LookUnsure, LookUndo,
              RemoveObject, LookDiscard, CrashUpload, Land
<1> QED
  BY <1>1, <1>2, <1>3 DEF Upload

LEMMA OthersTakeAway ==
  ASSUME StorageTypeOK, StorageInv, SettledInv, NEW n \in Materials, TakesAway(n),
         \/ \E d \in Deleters : Deletion(d)
         \/ \E s \in Scanners : Scan(s)
         \/ Account
  PROVE  ByRequest(n)
<1> USE DEF StorageTypeOK, RowTypeOK, StorageActorTypeOK, StorageInv, TargetIsWithdrawn, Present,
            SettledInv, SeenIsOver, TakesAway, ByRequest, SetStore, rowVars
<1>1. ASSUME NEW d \in Deleters, Deletion(d) PROVE ByRequest(n)
  BY <1>1 DEF Deletion, DeleteStart, Withdraw, PurgeMaterial, DeleteFinish, Overwrite, DeleteFails
<1>2. ASSUME NEW s \in Scanners, Scan(s) PROVE ByRequest(n)
  <2>1. ASSUME NEW m \in Materials, TakeCandidate(s, m) PROVE ByRequest(n)
    BY <2>1 DEF TakeCandidate
  <2>2. CASE FinishCandidate(s)
    BY <2>2 DEF FinishCandidate, WriteTombstone, Overwrite
  <2> QED
    BY <1>2, <2>1, <2>2
       DEF Scan, ListCandidates, SkipCandidate, PurgeCandidate, PostponeCandidate, EndScan
<1>3. CASE Account
  BY <1>3 DEF Account, RequestDeletion, StartCleaning, CleanArtifact, CleaningFails, DeleteUser,
              CrashCleaning, Enable
<1> QED
  BY <1>1, <1>2, <1>3

(* AvailableRests holds for any number of scans: what a scan has loaded    *)
(* cannot have become available since.                                     *)
THEOREM AvailableMaterialsRest ==
  ASSUME ~Hasty
  PROVE  StorageSpec => AvailableRests
<1>1. StorageTypeOK /\ StorageInv /\ SettledInv /\ [StorageNext]_vars
        => [\A m \in Materials : TakesAway(m) => ByRequest(m)]_vars
  BY UploadTakesAway, OthersTakeAway DEF StorageNext
<1>2. [][\A m \in Materials : TakesAway(m) => ByRequest(m)]_vars => AvailableRests
  BY DEF AvailableRests, TakesAway, ByRequest
<1> QED
  BY <1>1, <1>2, SettledHolds, PTL DEF StorageSpec

-----------------------------------------------------------------------------
(* With a single scan, what it has loaded as a reservation is still one    *)
(* until the scan itself takes it.                                         *)
Busy(s, m) == pc[s] \in {"purge", "finish"} /\ target[s] = m

LoadedIsReserved ==
  \A s \in Scanners, m \in Materials :
    seen[s][m] = "reserved" => store[m] \in {"reserved", "none"} \/ Busy(s, m)

OneScanner == \A s, x \in Scanners : s = x

LEMMA UploadLeavesLoaded ==
  ASSUME StorageTypeOK, StorageInv, SettledInv, LoadedIsReserved, NEW m \in Materials,
         Reserve(m) \/ Upload(m) \/ CrashUpload(m) \/ Land(m)
  PROVE  LoadedIsReserved'
<1> USE StorageActors
    DEF StorageTypeOK, RowTypeOK, StorageActorTypeOK, UploadPoints, SetStore, Goto, rowVars,
        actorVars
<1>1. UNCHANGED <<seen, target>> /\ \A s \in Scanners : pc'[s] = pc[s]
  BY DEF Upload, Reserve, Stage, StartPut, Refuse, PutObject, PutFails, Finalize, Compensate,
         PurgeUpload, EraseUpload, LookUnsure, MarkUncertain, LookUndo, RemoveObject,
         RemoveFails, LookDiscard, DropReservation, CrashUpload, Land
<1>2. \A n \in Materials : store'[n] = store[n] \/ (n = m /\ pc[m] # "done")
  BY DEF Upload, Reserve, Stage, StartPut, Refuse, PutObject, PutFails, Finalize, Compensate,
         Withdraw, PurgeUpload, EraseUpload, RemoveRow, LookUnsure, MarkUncertain, Overwrite,
         LookUndo, RemoveObject, RemoveFails, LookDiscard, DropReservation, CrashUpload, Land
<1> QED
  BY <1>1, <1>2 DEF LoadedIsReserved, Busy, SettledInv, SeenIsOver

LEMMA ScanLeavesLoaded ==
  ASSUME OneScanner, StorageTypeOK, StorageInv, SettledInv, LoadedIsReserved,
         NEW s \in Scanners, Scan(s)
  PROVE  LoadedIsReserved'
<1> USE StorageActors
    DEF StorageTypeOK, RowTypeOK, StorageActorTypeOK, SetStore, Goto, rowVars, OneScanner
<1>1. CASE ListCandidates(s)
  <2>1. store' = store
    BY <1>1 DEF ListCandidates
  <2>2. \A m \in Materials : seen'[s][m] = "reserved" => store[m] = "reserved"
    BY <1>1 DEF ListCandidates
  <2> QED
    BY <2>1, <2>2 DEF LoadedIsReserved
<1>2. ASSUME NEW m \in Materials, TakeCandidate(s, m) PROVE LoadedIsReserved'
  <2>1. UNCHANGED seen /\ pc[s] = "scan" /\ Busy(s, m)'
    BY <1>2 DEF TakeCandidate, Busy
  <2>2. \A n \in Materials : store'[n] = store[n] \/ n = m
    BY <1>2 DEF TakeCandidate
  <2> QED
    BY <2>1, <2>2 DEF LoadedIsReserved, Busy
<1>3. ASSUME NEW m \in Materials, NextCandidate(s, m), Busy(s, m) \/ pc[s] = "scan",
             \A n \in Materials : store'[n] = store[n] \/ (Busy(s, m) /\ n = m)
      PROVE  LoadedIsReserved'
  <2>1. \A n \in Materials : seen'[s][n] \in {seen[s][n], "no"}
    BY <1>3, ScanMovesOn
  <2>2. seen'[s][m] = "no"
    BY <1>3 DEF NextCandidate
  <2>3. ASSUME NEW n \in Materials, seen'[s][n] = "reserved"
        PROVE  store'[n] \in {"reserved", "none"}
    <3>1. n # m /\ seen[s][n] = "reserved" /\ store'[n] = store[n]
      BY <1>3, <2>1, <2>2, <2>3
    <3>2. ~Busy(s, n)
      BY <1>3, <3>1 DEF Busy
    <3> QED
      BY <3>1, <3>2 DEF LoadedIsReserved
  <2> QED
    BY <2>3 DEF LoadedIsReserved
<1>4. CASE AbortScan(s)
  <2>1. \A n \in Materials : seen'[s][n] = "no"
    BY <1>4 DEF AbortScan, NoneSeen
  <2> QED
    BY <2>1 DEF LoadedIsReserved
<1>5. ASSUME NEW m \in Materials, SkipCandidate(s, m) PROVE LoadedIsReserved'
  BY <1>3, <1>4, <1>5 DEF SkipCandidate
<1>6. CASE PurgeCandidate(s)
  BY <1>6 DEF PurgeCandidate, LoadedIsReserved, Busy
<1>7. CASE FinishCandidate(s)
  <2>1. target[s] \in Materials /\ Busy(s, target[s])
    BY <1>7 DEF FinishCandidate, Rows, Busy
  <2>2. \A n \in Materials : store'[n] = store[n] \/ n = target[s]
    BY <1>7 DEF FinishCandidate, WriteTombstone, Overwrite
  <2> QED
    BY <1>3, <1>7, <2>1, <2>2 DEF FinishCandidate
<1>8. CASE PostponeCandidate(s)
  <2>1. target[s] \in Materials /\ Busy(s, target[s])
    BY <1>8, StorageConstants DEF PostponeCandidate, Busy
  <2> QED
    BY <1>3, <1>8, <2>1 DEF PostponeCandidate
<1>9. CASE EndScan(s)
  BY <1>4, <1>9 DEF EndScan
<1> QED
  BY <1>1, <1>2, <1>5, <1>6, <1>7, <1>8, <1>9 DEF Scan

LEMMA OthersLeaveLoaded ==
  ASSUME StorageTypeOK, StorageInv, SettledInv, LoadedIsReserved,
         (\E d \in Deleters : Deletion(d)) \/ Account
  PROVE  LoadedIsReserved'
<1> USE StorageActors
    DEF StorageTypeOK, RowTypeOK, StorageActorTypeOK, SetStore, Goto, rowVars, actorVars
<1>1. ASSUME NEW d \in Deleters, Deletion(d) PROVE LoadedIsReserved'
  <2>1. UNCHANGED seen /\ \A s \in Scanners : pc'[s] = pc[s] /\ target'[s] = target[s]
    BY <1>1 DEF Deletion, DeleteStart, PurgeMaterial, DeleteFinish, DeleteFails
  <2>2. \A n \in Materials : store'[n] = store[n] \/ store[n] \notin {"reserved", "none"}
    BY <1>1 DEF Deletion, DeleteStart, Deletable, Withdraw, PurgeMaterial, DeleteFinish, Overwrite,
                DeleteFails, StorageInv, TargetIsWithdrawn, Present
  <2> QED
    BY <2>1, <2>2 DEF LoadedIsReserved, Busy
<1>2. CASE Account
  <2>1. UNCHANGED <<seen, pc, target>>
    BY <1>2 DEF Account, RequestDeletion, StartCleaning, CleanArtifact, CleaningFails, DeleteUser,
                CrashCleaning, Enable
  <2>2. \A n \in Materials : store'[n] = store[n] \/ store'[n] = "none"
    BY <1>2 DEF Account, RequestDeletion, StartCleaning, CleanArtifact, CleaningFails, DeleteUser,
                CrashCleaning, Enable
  <2> QED
    BY <2>1, <2>2 DEF LoadedIsReserved, Busy
<1> QED
  BY <1>1, <1>2

LEMMA LoadedHolds ==
  ASSUME ~Hasty, OneScanner
  PROVE  StorageSpec => []LoadedIsReserved
<1>1. StorageInit => LoadedIsReserved
  BY DEF StorageInit, LoadedIsReserved, NoneSeen
<1>2. StorageTypeOK /\ StorageInv /\ SettledInv /\ LoadedIsReserved /\ [StorageNext]_vars
        => LoadedIsReserved'
  <2>1. UNCHANGED vars /\ LoadedIsReserved => LoadedIsReserved'
    BY DEF vars, LoadedIsReserved, Busy
  <2> QED
    BY <2>1, UploadLeavesLoaded, ScanLeavesLoaded, OthersLeaveLoaded DEF StorageNext
<1> QED
  BY <1>1, <1>2, SettledHolds, PTL DEF StorageSpec

(* A tombstone is left alone by every step but the removal of its row.     *)
TombstoneKept == \A m \in Materials : store[m] = "deleted" => store'[m] \in {"deleted", "none"}

LEMMA StepKeepsTombstone ==
  ASSUME StorageTypeOK, StorageInv, SettledInv, LoadedIsReserved, StorageNext
  PROVE  TombstoneKept
<1> USE DEF StorageTypeOK, RowTypeOK, SetStore, rowVars, TombstoneKept
<1>1. ASSUME NEW m \in Materials, Reserve(m) \/ Upload(m) \/ CrashUpload(m) \/ Land(m)
      PROVE  TombstoneKept
  <2>1. CASE MarkUncertain(m) \/ RemoveFails(m)
    BY <2>1 DEF MarkUncertain, RemoveFails, Overwrite, SettledInv, OpenIsReserved, Reserving
  <2>2. CASE Reserve(m) \/ Finalize(m)
    BY <2>2 DEF Reserve, Finalize, SettledInv, OpenIsReserved, Reserving, StorageInv, FreshIsUnknown
  <2>3. CASE Compensate(m) \/ EraseUpload(m) \/ DropReservation(m)
    BY <2>3 DEF Compensate, Withdraw, EraseUpload, DropReservation, RemoveRow
  <2>4. CASE \/ Stage(m) \/ StartPut(m) \/ Refuse(m) \/ PutObject(m) \/ PutFails(m)
             \/ PurgeUpload(m) \/ LookUnsure(m) \/ LookUndo(m) \/ RemoveObject(m)
             \/ LookDiscard(m) \/ CrashUpload(m) \/ Land(m)
    BY <2>4 DEF Stage, StartPut, Refuse, PutObject, PutFails, PurgeUpload, LookUnsure, LookUndo,
                RemoveObject, LookDiscard, CrashUpload, Land
  <2> QED
    BY <1>1, <2>1, <2>2, <2>3, <2>4 DEF Upload
<1>2. ASSUME NEW d \in Deleters, Deletion(d) PROVE TombstoneKept
  BY <1>2 DEF Deletion, DeleteStart, Deletable, Withdraw, PurgeMaterial, DeleteFinish, Overwrite,
              DeleteFails
<1>3. ASSUME NEW s \in Scanners, Scan(s) PROVE TombstoneKept
  <2>1. ASSUME NEW m \in Materials, TakeCandidate(s, m) PROVE TombstoneKept
    BY <2>1 DEF TakeCandidate, LoadedIsReserved, Busy
  <2>2. CASE FinishCandidate(s)
    BY <2>2 DEF FinishCandidate, WriteTombstone, Overwrite
  <2> QED
    BY <1>3, <2>1, <2>2
       DEF Scan, ListCandidates, SkipCandidate, PurgeCandidate, PostponeCandidate, EndScan
<1>4. CASE Account
  BY <1>4 DEF Account, RequestDeletion, StartCleaning, CleanArtifact, CleaningFails, DeleteUser,
              CrashCleaning, Enable
<1> QED
  BY <1>1, <1>2, <1>3, <1>4 DEF StorageNext

(* TombstoneStays holds with a single scan.  With two it does not: the one *)
(* may take a row for RESERVED that the other has settled since.           *)
THEOREM TombstonesStay ==
  ASSUME ~Hasty, OneScanner
  PROVE  StorageSpec => TombstoneStays
<1>1. StorageTypeOK /\ StorageInv /\ SettledInv /\ LoadedIsReserved /\ [StorageNext]_vars
        => [TombstoneKept]_vars
  BY StepKeepsTombstone
<1>2. [][TombstoneKept]_vars => TombstoneStays
  BY DEF TombstoneStays, TombstoneKept
<1> QED
  BY <1>1, <1>2, SettledHolds, LoadedHolds, PTL DEF StorageSpec

-----------------------------------------------------------------------------
(* Only a reservation adds a row.                                          *)
LEMMA OnlyReserveAdds ==
  ASSUME StorageTypeOK, StorageInv, SettledInv, StorageNext,
         \A m \in Materials : ~Reserve(m),
         NEW n \in Materials, store[n] = "none"
  PROVE  store'[n] = "none"
<1> USE DEF StorageTypeOK, RowTypeOK, SetStore, rowVars
<1>1. ASSUME NEW m \in Materials, Upload(m) \/ CrashUpload(m) \/ Land(m)
      PROVE  store'[n] = "none"
  <2>1. CASE MarkUncertain(m) \/ RemoveFails(m)
    BY <2>1 DEF MarkUncertain, RemoveFails, Overwrite
  <2>2. CASE Finalize(m)
    BY <2>2 DEF Finalize, StorageInv, PutIsExclusive
  <2>3. CASE Compensate(m) \/ EraseUpload(m) \/ DropReservation(m)
    BY <2>3 DEF Compensate, Withdraw, EraseUpload, DropReservation, RemoveRow
  <2>4. CASE \/ Stage(m) \/ StartPut(m) \/ Refuse(m) \/ PutObject(m) \/ PutFails(m)
             \/ PurgeUpload(m) \/ LookUnsure(m) \/ LookUndo(m) \/ RemoveObject(m)
             \/ LookDiscard(m) \/ CrashUpload(m) \/ Land(m)
    BY <2>4 DEF Stage, StartPut, Refuse, PutObject, PutFails, PurgeUpload, LookUnsure, LookUndo,
                RemoveObject, LookDiscard, CrashUpload, Land
  <2> QED
    BY <1>1, <2>1, <2>2, <2>3, <2>4 DEF Upload
<1>2. ASSUME NEW d \in Deleters, Deletion(d) PROVE store'[n] = "none"
  BY <1>2 DEF Deletion, DeleteStart, Deletable, Withdraw, PurgeMaterial, DeleteFinish, Overwrite,
              DeleteFails
<1>3. ASSUME NEW s \in Scanners, Scan(s) PROVE store'[n] = "none"
  BY <1>3 DEF Scan, ListCandidates, TakeCandidate, Rows, SkipCandidate, PurgeCandidate,
              FinishCandidate, WriteTombstone, Overwrite, PostponeCandidate, EndScan
<1>4. CASE Account
  BY <1>4 DEF Account, RequestDeletion, StartCleaning, CleanArtifact, CleaningFails, DeleteUser,
              CrashCleaning, Enable
<1> QED
  BY <1>1, <1>2, <1>3, <1>4 DEF StorageNext

(* Only a reservation adds a row to the counted ones.                      *)
LEMMA CountedShrinks ==
  ASSUME StorageTypeOK, StorageInv, SettledInv, LoadedIsReserved, StorageNext,
         \A m \in Materials : ~Reserve(m)
  PROVE  Counted' \subseteq Counted
<1> SUFFICES ASSUME NEW n \in Materials, n \in Counted' PROVE n \in Counted
  BY DEF Counted
<1>1. store'[n] \in {"reserved", "available", "deleting"}
  BY DEF Counted
<1>2. store[n] # "none"
  BY <1>1, OnlyReserveAdds
<1>3. store[n] # "deleted"
  BY <1>1, StepKeepsTombstone DEF TombstoneKept
<1> QED
  BY <1>2, <1>3 DEF Counted, StorageTypeOK, RowTypeOK, StorageStatus

FilesHeld == Cardinality(Counted) <= FileLimit

(* A step counts no more rows than before, but for one that a reservation  *)
(* has found room for.                                                     *)
LEMMA StepHoldsFiles ==
  ASSUME StorageTypeOK, StorageInv, SettledInv, LoadedIsReserved, StorageNext, FilesHeld
  PROVE  FilesHeld'
<1> USE StorageActors, StorageConstants DEF StorageTypeOK, RowTypeOK, StorageStatus
<1>0. IsFiniteSet(Counted) /\ Cardinality(Counted) \in Nat
  BY FS_Subset, FS_CardinalityType DEF Counted
<1>1. ASSUME NEW m \in Materials, Reserve(m) PROVE FilesHeld'
  <2>1. Counted' = Counted \cup {m} /\ Cardinality(Counted) + 1 <= FileLimit
    BY <1>1 DEF Reserve, SetStore, Counted, SlotAvailable
  <2>2. Cardinality(Counted') <= Cardinality(Counted) + 1
    <3>1. Cardinality(Counted \cup {m})
            = IF m \in Counted THEN Cardinality(Counted) ELSE Cardinality(Counted) + 1
      BY <1>0, FS_AddElement
    <3>2. Cardinality(Counted') = Cardinality(Counted \cup {m})
      BY <2>1
    <3> QED
      BY <1>0, <3>1, <3>2
  <2>3. IsFiniteSet(Counted') /\ Cardinality(Counted') \in Nat
    BY <1>0, <2>1, FS_AddElement, FS_CardinalityType
  <2> QED
    BY <1>0, <2>1, <2>2, <2>3 DEF FilesHeld
<1>2. CASE \A m \in Materials : ~Reserve(m)
  <2>1. Counted' \subseteq Counted
    BY <1>2, CountedShrinks
  <2>2. Cardinality(Counted') <= Cardinality(Counted)
    BY <1>0, <2>1, FS_Subset
  <2>3. Cardinality(Counted') \in Nat
    BY <1>0, <2>1, FS_Subset, FS_CardinalityType
  <2> QED
    BY <1>0, <2>2, <2>3 DEF FilesHeld
<1> QED
  BY <1>1, <1>2

(* The files of the user never exceed their limit.                         *)
LEMMA FileLimitIsHeld ==
  ASSUME ~Hasty, OneScanner
  PROVE  StorageSpec => []FilesHeld
<1>1. StorageInit => FilesHeld
  <2> SUFFICES ASSUME StorageInit PROVE FilesHeld
    OBVIOUS
  <2>1. Counted = {}
    BY DEF StorageInit, Counted
  <2> QED
    BY <2>1, FS_EmptySet, StorageConstants DEF FilesHeld
<1>2. /\ StorageTypeOK /\ StorageInv /\ SettledInv /\ LoadedIsReserved
      /\ FilesHeld /\ [StorageNext]_vars
      => FilesHeld'
  <2>1. UNCHANGED vars /\ FilesHeld => FilesHeld'
    BY DEF vars, FilesHeld, Counted
  <2> QED
    BY <2>1, StepHoldsFiles
<1> QED
  BY <1>1, <1>2, SettledHolds, LoadedHolds, PTL DEF StorageSpec
-----------------------------------------------------------------------------
(* Sums over the subsets of a finite set: f[T] is the sum of w over T, as  *)
(* the fold of the community modules computes it, which takes away the     *)
(* elements in an order nobody knows.  What is shown of them rests on a    *)
(* smallest subset among those for which it would fail.                    *)

Pick(T) == CHOOSE x \in T : TRUE

Sums(f, w, S) ==
  /\ f \in [SUBSET S -> Nat]
  /\ \A T \in SUBSET S : f[T] = IF T = {} THEN 0 ELSE w[Pick(T)] + f[T \ {Pick(T)}]

LEMMA PickIn == ASSUME NEW T, T # {} PROVE Pick(T) \in T
BY DEF Pick

LEMMA SmallestSubset ==
  ASSUME NEW S, IsFiniteSet(S), NEW B \in SUBSET SUBSET S, B # {}
  PROVE  \E T \in B : \A U \in SUBSET T : U # T => U \notin B
<1>1. IsWellFoundedOn(StrictSubsetOrdering(S), SUBSET S)
  BY FS_StrictSubsetOrderingWellFounded, FS_FiniteSubsetsOfFinite
<1>2. PICK T \in B : \A U \in B : <<U, T>> \notin StrictSubsetOrdering(S)
  BY <1>1, WFMin
<1> QED
  BY <1>2 DEF StrictSubsetOrdering

LEMMA SumIsUnique ==
  ASSUME NEW S, IsFiniteSet(S), NEW w, NEW f, NEW g, Sums(f, w, S), Sums(g, w, S)
  PROVE  f = g
<1> DEFINE B == {T \in SUBSET S : f[T] # g[T]}
<1>1. SUFFICES ASSUME B # {} PROVE FALSE
  BY DEF Sums
<1>0. B \in SUBSET SUBSET S
  OBVIOUS
<1>2. PICK T \in B : \A U \in SUBSET T : U # T => U \notin B
  <2> HIDE DEF B
  <2> QED
    BY <1>0, <1>1, SmallestSubset
<1>3. T # {}
  BY <1>2 DEF Sums
<1>4. Pick(T) \in T
  BY <1>3, PickIn
<1>5. f[T \ {Pick(T)}] = g[T \ {Pick(T)}]
  BY <1>2, <1>4
<1> QED
  BY <1>2, <1>3, <1>5 DEF Sums

LEMMA SumRestricts ==
  ASSUME NEW S, NEW w, NEW f, Sums(f, w, S), NEW T \in SUBSET S
  PROVE  Sums([U \in SUBSET T |-> f[U]], w, T)
<1> DEFINE g == [U \in SUBSET T |-> f[U]]
<1>1. g \in [SUBSET T -> Nat]
  BY DEF Sums
<1>2. ASSUME NEW U \in SUBSET T
      PROVE  g[U] = IF U = {} THEN 0 ELSE w[Pick(U)] + g[U \ {Pick(U)}]
  <2>1. U \in SUBSET S /\ U \ {Pick(U)} \in SUBSET T
    OBVIOUS
  <2> QED
    BY <2>1 DEF Sums
<1> QED
  BY <1>1, <1>2 DEF Sums

LEMMA SumExists ==
  ASSUME NEW S, IsFiniteSet(S), NEW w \in [S -> Nat]
  PROVE  \E f : Sums(f, w, S)
<1> DEFINE B == {T \in SUBSET S : ~\E f : Sums(f, w, T)}
<1>1. SUFFICES ASSUME B # {} PROVE FALSE
  OBVIOUS
<1>0. B \in SUBSET SUBSET S
  OBVIOUS
<1>2. PICK T \in B : \A U \in SUBSET T : U # T => U \notin B
  <2> HIDE DEF B
  <2> QED
    BY <1>0, <1>1, SmallestSubset
<1> DEFINE F(U) == CHOOSE f : Sums(f, w, U)
           f == [U \in SUBSET T |-> IF U = {} THEN 0
                                    ELSE w[Pick(U)] + F(U \ {Pick(U)})[U \ {Pick(U)}]]
<1>3. \A U \in SUBSET T : U # T => Sums(F(U), w, U)
  BY <1>2
<1>4. ASSUME NEW U \in SUBSET T, U # T, NEW V \in SUBSET U
      PROVE  F(U)[V] = F(V)[V]
  <2>1. Sums(F(U), w, U) /\ Sums(F(V), w, V)
    BY <1>3, <1>4
  <2>2. Sums([W \in SUBSET V |-> F(U)[W]], w, V)
    BY <2>1, SumRestricts
  <2>3. IsFiniteSet(V)
    BY <1>2, FS_Subset
  <2>4. [W \in SUBSET V |-> F(U)[W]] = F(V)
    BY <2>1, <2>2, <2>3, SumIsUnique
  <2> HIDE DEF F
  <2>5. [W \in SUBSET V |-> F(U)[W]][V] = F(U)[V]
    OBVIOUS
  <2> QED
    BY <2>4, <2>5
<1> HIDE DEF F
<1>5. ASSUME NEW U \in SUBSET T, U # T PROVE F(U)[U] \in Nat
  BY <1>3, <1>5 DEF Sums
<1>6. ASSUME NEW U \in SUBSET T, U # {}
      PROVE  /\ Pick(U) \in U /\ w[Pick(U)] \in Nat
             /\ U \ {Pick(U)} \in SUBSET T /\ U \ {Pick(U)} # T
  BY <1>2, <1>6, PickIn
<1>7. f \in [SUBSET T -> Nat]
  <2>1. ASSUME NEW U \in SUBSET T PROVE f[U] \in Nat
    BY <1>5, <1>6
  <2> QED
    BY <2>1
<1>8. ASSUME NEW U \in SUBSET T, U # T PROVE f[U] = F(U)[U]
  <2>1. Sums(F(U), w, U)
    BY <1>3, <1>8
  <2>2. CASE U = {}
    BY <2>1, <2>2 DEF Sums
  <2>3. CASE U # {}
    <3>1. F(U)[U] = w[Pick(U)] + F(U)[U \ {Pick(U)}]
      BY <2>1, <2>3 DEF Sums
    <3>2. F(U)[U \ {Pick(U)}] = F(U \ {Pick(U)})[U \ {Pick(U)}]
      BY <1>4, <1>8
    <3> QED
      BY <2>3, <3>1, <3>2
  <2> QED
    BY <2>2, <2>3
<1>9. ASSUME NEW U \in SUBSET T
      PROVE  f[U] = IF U = {} THEN 0 ELSE w[Pick(U)] + f[U \ {Pick(U)}]
  <2>1. CASE U = {}
    BY <2>1
  <2>2. CASE U # {}
    <3>1. f[U \ {Pick(U)}] = F(U \ {Pick(U)})[U \ {Pick(U)}]
      BY <2>2, <1>6, <1>8
    <3> QED
      BY <2>2, <3>1
  <2> QED
    BY <2>1, <2>2
<1>10. Sums(f, w, T)
  <2> HIDE DEF f
  <2> QED
    BY <1>7, <1>9 DEF Sums
<1> QED
  BY <1>2, <1>10

(* The sum is the same whichever element is taken away first.              *)
LEMMA SumRemoves ==
  ASSUME NEW S, IsFiniteSet(S), NEW w \in [S -> Nat], NEW f, Sums(f, w, S)
  PROVE  \A T \in SUBSET S : \A x \in T : f[T] = w[x] + f[T \ {x}]
<1> DEFINE B == {T \in SUBSET S : \E x \in T : f[T] # w[x] + f[T \ {x}]}
<1>1. SUFFICES ASSUME B # {} PROVE FALSE
  OBVIOUS
<1>0. B \in SUBSET SUBSET S
  OBVIOUS
<1>2. PICK T \in B : \A U \in SUBSET T : U # T => U \notin B
  <2> HIDE DEF B
  <2> QED
    BY <1>0, <1>1, SmallestSubset
<1>3. PICK x \in T : f[T] # w[x] + f[T \ {x}]
  BY <1>2
<1> DEFINE c == Pick(T)
<1>4. c \in T /\ f[T] = w[c] + f[T \ {c}]
  BY <1>2, <1>3, PickIn DEF Sums
<1> HIDE DEF c
<1>5. c # x
  BY <1>3, <1>4
<1> DEFINE r == f[(T \ {c}) \ {x}]
<1>6. f[T \ {c}] = w[x] + r
  BY <1>2, <1>3, <1>4, <1>5
<1>7. f[T \ {x}] = w[c] + r
  <2>1. f[T \ {x}] = w[c] + f[(T \ {x}) \ {c}]
    BY <1>2, <1>3, <1>4, <1>5
  <2>2. (T \ {x}) \ {c} = (T \ {c}) \ {x}
    OBVIOUS
  <2> QED
    BY <2>1, <2>2
<1>8. w[x] \in Nat /\ w[c] \in Nat /\ r \in Nat
  BY <1>2, <1>4 DEF Sums
<1> HIDE DEF B, r
<1>9. f[T] = w[c] + (w[x] + r) /\ f[T] # w[x] + (w[c] + r)
  BY <1>3, <1>4, <1>6, <1>7
<1> QED
  BY <1>8, <1>9

(* A sum over fewer elements is no larger if none of them is.              *)
LEMMA SumShrinks ==
  ASSUME NEW S, IsFiniteSet(S), NEW v \in [S -> Nat], NEW w \in [S -> Nat],
         NEW f, NEW g, Sums(f, v, S), Sums(g, w, S),
         NEW T \in SUBSET S, NEW U \in SUBSET T, \A x \in U : w[x] <= v[x]
  PROVE  g[U] <= f[T]
<1> DEFINE h == [X \in SUBSET T |-> g[X \cap U]]
           B == {X \in SUBSET T : ~(h[X] <= f[X])}
<1>1. B = {}
  <2>1. SUFFICES ASSUME B # {} PROVE FALSE
    OBVIOUS
  <2>2. B \in SUBSET SUBSET S
    OBVIOUS
  <2>3. PICK X \in B : \A Y \in SUBSET X : Y # X => Y \notin B
    <3> HIDE DEF B
    <3> QED
      BY <2>1, <2>2, SmallestSubset
  <2>4. \A Y \in SUBSET T : f[Y] \in Nat /\ h[Y] \in Nat
    BY DEF Sums
  <2>5. f[{}] = 0 /\ h[{}] = 0
    <3>1. {} \cap U = {}
      OBVIOUS
    <3> QED
      BY <3>1 DEF Sums
  <2>6. \A x \in X : h[X] = IF x \in U THEN w[x] + h[X \ {x}] ELSE h[X \ {x}]
    <3> SUFFICES ASSUME NEW x \in X
                 PROVE  h[X] = IF x \in U THEN w[x] + h[X \ {x}] ELSE h[X \ {x}]
      OBVIOUS
    <3>1. X \cap U \in SUBSET S /\ X \in SUBSET T /\ X \ {x} \in SUBSET T
      OBVIOUS
    <3>2. CASE x \in U
      <4>1. (X \cap U) \ {x} = (X \ {x}) \cap U
        OBVIOUS
      <4>2. g[X \cap U] = w[x] + g[(X \cap U) \ {x}]
        BY <3>1, <3>2, SumRemoves
      <4> QED
        BY <3>1, <3>2, <4>1, <4>2
    <3>3. CASE x \notin U
      <4>1. (X \ {x}) \cap U = X \cap U
        BY <3>3
      <4> QED
        BY <3>1, <3>3, <4>1
    <3> QED
      BY <3>2, <3>3
  <2>7. X \in SUBSET T /\ ~(h[X] <= f[X])
    BY <2>3
  <2>8. PICK x \in X : TRUE
    <3> HIDE DEF h, B
    <3>1. X # {}
      BY <2>5, <2>7
    <3> QED
      BY <3>1
  <2>9. X \ {x} \in SUBSET T /\ h[X \ {x}] <= f[X \ {x}]
    BY <2>3, <2>7
  <2> HIDE DEF h, B
  <2>10. /\ f[X] = v[x] + f[X \ {x}]
         /\ v[x] \in Nat /\ w[x] \in Nat
    <3>1. X \in SUBSET S /\ x \in X
      BY <2>7
    <3> QED
      BY <3>1, SumRemoves
  <2>11. x \in U => w[x] <= v[x]
    OBVIOUS
  <2> DEFINE a == f[X]  b == h[X]  c == f[X \ {x}]  d == h[X \ {x}]
  <2>12. /\ ~(b <= a) /\ d <= c /\ a = v[x] + c
         /\ b = IF x \in U THEN w[x] + d ELSE d
         /\ a \in Nat /\ b \in Nat /\ c \in Nat /\ d \in Nat
    BY <2>4, <2>6, <2>7, <2>9, <2>10
  <2> HIDE DEF a, b, c, d
  <2> QED
    BY <2>10, <2>11, <2>12
<1>2. h[T] <= f[T]
  BY <1>1
<1>3. T \cap U = U
  OBVIOUS
<1> QED
  BY <1>2, <1>3

(* One more element weighs in, or one has become larger.                   *)
LEMMA SumGainsOne ==
  ASSUME NEW S, IsFiniteSet(S), NEW v \in [S -> Nat], NEW w \in [S -> Nat],
         NEW f, NEW g, Sums(f, v, S), Sums(g, w, S),
         NEW T \in SUBSET S, NEW x \in T, \A y \in T \ {x} : w[y] <= v[y]
  PROVE  g[T] <= w[x] + f[T]
<1>1. g[T] = w[x] + g[T \ {x}]
  BY SumRemoves
<1>2. T \ {x} \in SUBSET T
  OBVIOUS
<1>3. g[T \ {x}] <= f[T]
  BY <1>2, SumShrinks
<1>4. w[x] \in Nat /\ g[T \ {x}] \in Nat /\ f[T] \in Nat
  BY <1>2 DEF Sums
<1> QED
  BY <1>1, <1>3, <1>4

(* The fold of the community modules, over the subsets of T.               *)
Recursion(g, w, T) ==
  g = [U \in SUBSET T |-> IF U = {} THEN 0 ELSE w[Pick(U)] + g[U \ {Pick(U)}]]

(* Whatever satisfies its recursion equation is that sum.                  *)
LEMMA RecursionIsSum ==
  ASSUME NEW S, IsFiniteSet(S), NEW w, NEW f, Sums(f, w, S), NEW T \in SUBSET S,
         NEW g, Recursion(g, w, T)
  PROVE  g[T] = f[T]
<1> DEFINE B == {U \in SUBSET T : g[U] # f[U]}
<1>1. SUFFICES ASSUME B # {} PROVE FALSE
  OBVIOUS
<1>0. B \in SUBSET SUBSET S
  OBVIOUS
<1>2. PICK U \in B : \A V \in SUBSET U : V # U => V \notin B
  <2> HIDE DEF B
  <2> QED
    BY <1>0, <1>1, SmallestSubset
<1>3. U \in SUBSET T /\ U \in SUBSET S /\ U \ {Pick(U)} \in SUBSET T
  OBVIOUS
<1>4. g[U] = IF U = {} THEN 0 ELSE w[Pick(U)] + g[U \ {Pick(U)}]
  BY <1>3 DEF Recursion
<1>5. f[U] = IF U = {} THEN 0 ELSE w[Pick(U)] + f[U \ {Pick(U)}]
  BY <1>3 DEF Sums
<1>6. U # {}
  BY <1>2, <1>4, <1>5
<1>7. g[U \ {Pick(U)}] = f[U \ {Pick(U)}]
  BY <1>2, <1>3, <1>6, PickIn
<1> QED
  BY <1>2, <1>4, <1>5, <1>6, <1>7

LEMMA RecursionExists ==
  ASSUME NEW S, IsFiniteSet(S), NEW w \in [S -> Nat], NEW T \in SUBSET S
  PROVE  \E g : Recursion(g, w, T)
<1>1. PICK f : Sums(f, w, S)
  BY SumExists
<1> DEFINE g == [U \in SUBSET T |-> f[U]]
<1>2. Sums(g, w, T)
  BY <1>1, SumRestricts
<1> HIDE DEF g
<1> QED
  BY <1>2 DEF Sums, Recursion

-----------------------------------------------------------------------------
(* The bytes of the user's files, as a sum.                                *)

Weight == [m \in Materials |-> Bytes(m)]

LEMMA WeightType == ASSUME StorageTypeOK PROVE Weight \in [Materials -> Nat]
BY StorageConstants DEF StorageTypeOK, RowTypeOK, Weight, Bytes

(* Usage, which folds over the counted rows in some order, is their sum.   *)
LEMMA UsageIsSum ==
  ASSUME StorageTypeOK, NEW f, Sums(f, Weight, Materials)
  PROVE  Usage = f[Counted]
<1>0. IsFiniteSet(Materials) /\ Counted \in SUBSET Materials
  BY StorageActors DEF Counted
<1> DEFINE g == CHOOSE g : g = [T \in SUBSET Counted |->
                  IF T = {} THEN 0 ELSE Bytes(Pick(T)) + g[T \ {Pick(T)}]]
<1>1. Usage = g[Counted]
  BY DEF Usage, MapThenSumSet, MapThenFoldSet, Pick
<1>2. PICK h : Recursion(h, Weight, Counted)
  BY <1>0, WeightType, RecursionExists
<1>3. ASSUME NEW T \in SUBSET Counted, T # {} PROVE Weight[Pick(T)] = Bytes(Pick(T))
  BY <1>0, <1>3, PickIn DEF Weight
<1>4. h = [T \in SUBSET Counted |-> IF T = {} THEN 0 ELSE Bytes(Pick(T)) + h[T \ {Pick(T)}]]
  BY <1>2, <1>3 DEF Recursion
<1>5. g = [T \in SUBSET Counted |-> IF T = {} THEN 0 ELSE Bytes(Pick(T)) + g[T \ {Pick(T)}]]
  BY <1>4
<1> HIDE DEF g
<1>6. Recursion(g, Weight, Counted)
  BY <1>3, <1>5 DEF Recursion
<1>7. g[Counted] = f[Counted]
  BY <1>0, <1>6, WeightType, RecursionIsSum
<1> QED
  BY <1>1, <1>7

(* Only staging gives a row a size.                                        *)
LEMMA OnlyStageWeighs ==
  ASSUME StorageTypeOK, StorageNext, \A m \in Materials : ~Stage(m), NEW n \in Materials
  PROVE  hash'[n] \in {hash[n], None}
<1> USE DEF StorageTypeOK, RowTypeOK, rowVars
<1>1. ASSUME NEW m \in Materials, Reserve(m) \/ Upload(m) \/ CrashUpload(m) \/ Land(m)
      PROVE  hash'[n] \in {hash[n], None}
  BY <1>1 DEF Upload, Reserve, StartPut, Refuse, PutObject, PutFails, Finalize, Compensate,
     PurgeUpload, EraseUpload, RemoveRow, LookUnsure, MarkUncertain, LookUndo, RemoveObject,
     RemoveFails, LookDiscard, DropReservation, CrashUpload, Land
<1>2. ASSUME NEW d \in Deleters, Deletion(d) PROVE hash'[n] \in {hash[n], None}
  BY <1>2 DEF Deletion, DeleteStart, PurgeMaterial, DeleteFinish, DeleteFails
<1>3. ASSUME NEW s \in Scanners, Scan(s) PROVE hash'[n] \in {hash[n], None}
  BY <1>3 DEF Scan, ListCandidates, TakeCandidate, SkipCandidate, PurgeCandidate,
     FinishCandidate, PostponeCandidate, EndScan
<1>4. CASE Account
  BY <1>4 DEF Account, RequestDeletion, StartCleaning, CleanArtifact, CleaningFails, DeleteUser,
     CrashCleaning, Enable
<1> QED
  BY <1>1, <1>2, <1>3, <1>4 DEF StorageNext

BytesHeld == \E f : Sums(f, Weight, Materials) /\ f[Counted] <= ByteLimit

(* A step counts no more bytes than before, but for those that staging has *)
(* found room for.                                                         *)
LEMMA StepHoldsBytes ==
  ASSUME StorageTypeOK, StorageTypeOK', StorageInv, SettledInv, LoadedIsReserved, StorageNext,
         BytesHeld
  PROVE  BytesHeld'
<1> USE StorageActors, StorageConstants
<1>1. PICK f : Sums(f, Weight, Materials) /\ f[Counted] <= ByteLimit
  BY DEF BytesHeld
<1>2. Weight \in [Materials -> Nat] /\ Weight' \in [Materials -> Nat]
  <2>1. Weight' \in [Materials -> Nat]
    BY DEF StorageTypeOK, RowTypeOK, Weight, Bytes
  <2> QED
    BY <2>1, WeightType
<1>3. PICK g : Sums(g, Weight', Materials)
  BY <1>2, SumExists
<1>4. SUFFICES g[Counted'] <= ByteLimit
  BY <1>3 DEF BytesHeld
<1>5. /\ Counted \in SUBSET Materials /\ Counted' \in SUBSET Materials
      /\ \A T \in SUBSET Materials : f[T] \in Nat /\ g[T] \in Nat
  BY <1>1, <1>3 DEF Counted, Sums
<1>6. ASSUME NEW m \in Materials, Stage(m) PROVE g[Counted'] <= ByteLimit
  <2>1. PICK c \in Contents : Usage + Size[c] <= ByteLimit /\ hash' = [hash EXCEPT ![m] = c]
    BY <1>6 DEF Stage, BytesAllowed
  <2>2. m \in Counted /\ Counted' = Counted
    BY <1>6 DEF Stage, Counted
  <2>3. Weight'[m] = Size[c] /\ \A n \in Materials \ {m} : Weight'[n] = Weight[n]
    BY <2>1 DEF StorageTypeOK, RowTypeOK, Weight, Bytes
  <2>4. \A n \in Counted \ {m} : Weight'[n] <= Weight[n]
    BY <1>2, <1>5, <2>3
  <2>5. g[Counted] <= Weight'[m] + f[Counted]
    BY <1>1, <1>2, <1>3, <1>5, <2>2, <2>4, SumGainsOne
  <2>6. Usage = f[Counted]
    BY <1>1, UsageIsSum
  <2>7. f[Counted] \in Nat /\ g[Counted] \in Nat /\ Size[c] \in Nat
    BY <1>5
  <2> QED
    BY <2>1, <2>2, <2>3, <2>5, <2>6, <2>7
<1>7. CASE \A m \in Materials : ~Stage(m)
  <2>1. \A n \in Materials : Weight'[n] <= Weight[n]
    <3> SUFFICES ASSUME NEW n \in Materials PROVE Weight'[n] <= Weight[n]
      OBVIOUS
    <3>1. hash'[n] = hash[n] \/ hash'[n] = None
      BY <1>7, OnlyStageWeighs
    <3>2. Weight'[n] = Weight[n] \/ Weight'[n] = 0
      BY <3>1 DEF Weight, Bytes
    <3> QED
      BY <1>2, <3>2
  <2>2. ASSUME NEW m \in Materials, Reserve(m) PROVE g[Counted'] <= f[Counted]
    <3>1. Counted' = Counted \cup {m} /\ m \notin Counted /\ Weight[m] = 0
      BY <2>2 DEF Reserve, SetStore, Counted, Weight, Bytes, StorageInv, FreshIsUnknown,
                  StorageTypeOK, RowTypeOK
    <3>2. f[Counted'] = 0 + f[Counted]
      <4>1. Counted' \ {m} = Counted /\ m \in Counted'
        BY <3>1
      <4> QED
        BY <1>1, <1>2, <1>5, <3>1, <4>1, SumRemoves
    <3>3. g[Counted'] <= f[Counted']
      BY <1>1, <1>2, <1>3, <1>5, <2>1, SumShrinks
    <3> QED
      BY <1>5, <3>2, <3>3
  <2>3. CASE \A m \in Materials : ~Reserve(m)
    <3>1. Counted' \in SUBSET Counted
      BY <2>3, CountedShrinks
    <3> QED
      BY <1>1, <1>2, <1>3, <1>5, <2>1, <3>1, SumShrinks
  <2>4. CASE \E m \in Materials : Reserve(m)
    BY <1>1, <1>5, <2>2, <2>4
  <2> QED
    BY <2>3, <2>4
<1> QED
  BY <1>6, <1>7

(* QuotaHeld: neither the files nor the bytes of the user exceed their     *)
(* limit, though a reservation takes its slot in one transaction, its      *)
(* bytes in another, and becomes a material in a third.                    *)
THEOREM QuotaIsHeld ==
  ASSUME ~Hasty, OneScanner
  PROVE  StorageSpec => []QuotaHeld
<1>1. StorageInit => BytesHeld
  <2> SUFFICES ASSUME StorageInit PROVE BytesHeld
    OBVIOUS
  <2>1. Counted = {}
    BY DEF StorageInit, Counted
  <2>2. Weight \in [Materials -> Nat]
    BY InitInv, WeightType
  <2>3. PICK f : Sums(f, Weight, Materials)
    BY <2>2, StorageActors, SumExists
  <2>4. f[{}] = 0
    BY <2>3 DEF Sums
  <2> QED
    BY <2>1, <2>3, <2>4, StorageConstants DEF BytesHeld
<1>2. /\ StorageTypeOK /\ StorageTypeOK' /\ StorageInv /\ SettledInv /\ LoadedIsReserved
      /\ BytesHeld /\ [StorageNext]_vars
      => BytesHeld'
  <2>1. UNCHANGED vars /\ BytesHeld => BytesHeld'
    BY DEF vars, BytesHeld, Counted, Weight, Bytes
  <2> QED
    BY <2>1, StepHoldsBytes
<1>3. StorageSpec => []BytesHeld
  BY <1>1, <1>2, SettledHolds, LoadedHolds, PTL DEF StorageSpec
<1>4. StorageTypeOK /\ FilesHeld /\ BytesHeld => QuotaHeld
  BY UsageIsSum DEF FilesHeld, BytesHeld, QuotaHeld
<1> QED
  BY <1>3, <1>4, StorageTypeCorrect, FileLimitIsHeld, PTL
=============================================================================
