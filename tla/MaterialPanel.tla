--------------------------- MODULE MaterialPanel ---------------------------
(***************************************************************************)
(* The materials of the workspace: useMaterials lists, uploads and deletes *)
(* them, the page polls while one is being processed, and the sidebar      *)
(* selects the scope of the next question.  Lists travel on their own: one *)
(* may arrive after a later one, or after what it shows was changed.       *)
(***************************************************************************)
EXTENDS WorkspaceStores

CONSTANT MaxJobs    \* bound on the handlers and polls in flight

Jobs == 1 .. MaxJobs

VARIABLES
    files,      \* [Names -> FileStatuses]: the materials the backend has
    job         \* [Jobs -> Job]: handlers of the page under way

fileVars == <<files, job>>

JobSteps == {"free", "posting", "posted", "listing", "listed"}
JobKinds == {"poll", "upload", "delete"}

\* An upload keeps the files still to be sent, a deletion its name and the
\* scope of the render it was clicked in.
Job == [pc : JobSteps, kind : JobKinds, left : SUBSET Names, scope : SUBSET Names,
        data : [Names -> FileStatuses]]

NoFiles == [n \in Names |-> "absent"]
NoJob == [pc |-> "free", kind |-> "poll", left |-> {}, scope |-> {}, data |-> NoFiles]

FilesTypeOK ==
    /\ files \in [Names -> FileStatuses]
    /\ job \in [Jobs -> Job]

-----------------------------------------------------------------------------
(* The handlers. *)

\* Mutant of hasPending: a material that is being processed is not polled for.
hasQueued(p) == \E n \in Names : p.materials[n] = "pending"

hasPending(p) == \E n \in Names : p.materials[n] \in {"pending", "processing"}

\* The rows of the sidebar.
MaterialRows(p) == {n \in Names : p.materials[n] # "absent"}

\* fetchMaterials, called by job j.
StartList(j, r) == job' = [job EXCEPT ![j] = [r EXCEPT !.pc = "listing"]]

\* The interval fires.
Poll ==
    /\ hasPending(panel)
    /\ HasFree(job)
    /\ StartList(FreeSlot(job), NoJob)
    /\ Commit(chat, [panel EXCEPT !.loading = TRUE])
    /\ Settle
    /\ UNCHANGED <<quiz, files>>

\* Files are chosen; the inputs are disabled during an upload.
UploadFiles(F) ==
    /\ Click("files")
    /\ ~ panel.uploading
    /\ HasFree(job)
    /\ F # {} /\ \A n \in F : files[n] = "absent"
    /\ job' = [job EXCEPT ![FreeSlot(job)] =
                 [NoJob EXCEPT !.pc = "posting", !.kind = "upload", !.left = F]]
    /\ panel' = [panel EXCEPT !.uploading = TRUE]
    /\ UNCHANGED <<chat, quiz, files>>

\* The delete button takes the name out of the scope and calls the page's
\* handler, which still has the scope of the last render.
DeleteMaterial(n) ==
    /\ Click("files")
    /\ HasFree(job)
    /\ n \in MaterialRows(panel)
    /\ job' = [job EXCEPT ![FreeSlot(job)] =
                 [NoJob EXCEPT !.pc = "posting", !.kind = "delete", !.left = {n},
                               !.scope = chat.materialScope]]
    /\ Commit(setMaterialScope(chat, chat.materialScope \ {n}), panel)
    /\ UNCHANGED <<quiz, files>>

toggleScope(n) ==
    /\ Click("files")
    /\ n \in MaterialRows(panel)
    /\ Commit(setMaterialScope(chat, IF n \in chat.materialScope THEN chat.materialScope \ {n}
                                     ELSE chat.materialScope \cup {n}), panel)
    /\ UNCHANGED <<quiz, fileVars>>

\* The backend creates the next file of an upload, or refuses it, which ends
\* the loop.
ServeUpload(j) ==
    /\ job[j].pc = "posting"
    /\ job[j].kind = "upload"
    /\ \E n \in job[j].left :
         /\ files[n] = "absent"
         /\ files' = [files EXCEPT ![n] = "pending"]
         /\ job' = [job EXCEPT ![j].pc = "posted", ![j].left = @ \ {n}]
    /\ Settle
    /\ UNCHANGED <<chat, quiz, panel>>

\* The backend deletes a material; one that is gone is not found.
ServeDeletion(j) ==
    /\ job[j].pc = "posting"
    /\ job[j].kind = "delete"
    /\ IF \E n \in job[j].left : files[n] # "absent"
         THEN /\ files' = [n \in Names |-> IF n \in job[j].left THEN "absent" ELSE files[n]]
              /\ job' = [job EXCEPT ![j].pc = "posted"]
         ELSE /\ job' = [job EXCEPT ![j] = NoJob]
              /\ UNCHANGED files
    /\ Settle
    /\ UNCHANGED <<chat, quiz, panel>>

\* The upload or deletion is answered: the list is fetched.
FetchAfter(j) ==
    /\ job[j].pc = "posted"
    /\ StartList(j, job[j])
    /\ Commit(chat, [panel EXCEPT !.loading = TRUE])
    /\ Settle
    /\ UNCHANGED <<quiz, files>>

ServeMaterials(j) ==
    /\ job[j].pc = "listing"
    /\ job' = [job EXCEPT ![j].pc = "listed", ![j].data = files]
    /\ Settle
    /\ UNCHANGED <<chat, quiz, panel, files>>

\* A list arrives and replaces the one shown.  An upload goes on with its next
\* file; a deletion sets the scope once more, from the one it was clicked in.
ReceiveMaterials(j) ==
    LET r == job[j]
        again == r.kind = "upload" /\ r.left # {}
        p == [panel EXCEPT !.materials = r.data, !.loading = FALSE,
                           !.uploading = IF r.kind = "upload" THEN again ELSE @]
    IN
    /\ r.pc = "listed"
    /\ job' = [job EXCEPT ![j] = IF again THEN [r EXCEPT !.pc = "posting", !.data = NoFiles] ELSE NoJob]
    /\ Commit(IF r.kind = "delete" THEN setMaterialScope(chat, r.scope \ r.left) ELSE chat, p)
    /\ Settle
    /\ UNCHANGED <<quiz, files>>

\* A call fails, or an upload is refused: the handler ends and its flags with it.
JobFails(j) ==
    /\ Fault
    /\ job[j].pc \in {"posting", "listing"}
    /\ job' = [job EXCEPT ![j] = NoJob]
    /\ Commit(chat, [panel EXCEPT !.loading = IF job[j].pc = "listing" THEN FALSE ELSE @,
                                  !.uploading = IF job[j].kind = "upload" THEN FALSE ELSE @])
    /\ UNCHANGED <<quiz, files>>

\* The worker takes a material and ends with it.
StartProcessing(n) ==
    /\ files[n] = "pending"
    /\ files' = [files EXCEPT ![n] = "processing"]
    /\ Settle
    /\ UNCHANGED <<chat, quiz, panel, job>>

EndProcessing(n) ==
    /\ files[n] = "processing"
    /\ \E st \in {"ready", "failed"} : files' = [files EXCEPT ![n] = st]
    /\ Settle
    /\ UNCHANGED <<chat, quiz, panel, job>>

-----------------------------------------------------------------------------
\* The list of the mounted page is on its way.
FilesInit ==
    /\ \E sc \in Scenarios : clicks = sc.clicks /\ faults = sc.faults /\ files = sc.files
    /\ job = [j \in Jobs |-> IF j = 1 THEN [NoJob EXCEPT !.pc = "listing"] ELSE NoJob]

FilesUserStep ==
    \/ \E F \in SUBSET Names : UploadFiles(F)
    \/ \E n \in Names : DeleteMaterial(n) \/ toggleScope(n)

JobStep(j) ==
    \/ ServeUpload(j)
    \/ ServeDeletion(j)
    \/ FetchAfter(j)
    \/ ServeMaterials(j)
    \/ ReceiveMaterials(j)

WorkerStep(n) ==
    \/ StartProcessing(n)
    \/ EndProcessing(n)

FilesStep ==
    \/ FilesUserStep
    \/ Poll
    \/ \E j \in Jobs : JobStep(j) \/ JobFails(j)
    \/ \E n \in Names : WorkerStep(n)
-----------------------------------------------------------------------------
(* What the material side promises. *)

\* Once the user is idle no material is shown as being processed for ever,
\* also when an old list arrives after a newer one.
PendingResolves == <>[](~ \E n \in Names : panel.materials[n] \in {"pending", "processing"})
=============================================================================
