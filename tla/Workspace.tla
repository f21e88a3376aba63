----------------------------- MODULE Workspace -----------------------------
(***************************************************************************)
(* The workspace page: its conversation side, its materials, its quiz card *)
(* and its review workbench, running in one event loop over shared stores. *)
(* A step of one part leaves the private state of the others alone, but    *)
(* for the workbench, which is mounted and unmounted with the review mode. *)
(***************************************************************************)
EXTENDS ChatClient, MaterialPanel, QuizPanel, ReviewPanel

workspaceVars == <<storeVars, chatVars, fileVars, submit, reviewVars>>

WorkspaceTypeOK ==
    /\ StoresTypeOK
    /\ ChatTypeOK
    /\ FilesTypeOK
    /\ QuizTypeOK
    /\ ReviewTypeOK

WorkspaceInit ==
    /\ StoresInit
    /\ ChatInit
    /\ FilesInit
    /\ QuizInit
    /\ ReviewInit

\* The workbench is rendered in review mode only.
DashboardCard ==
    /\ IF review.mounted = (chat'.mode = "review") THEN UNCHANGED <<review, task>>
       ELSE IF review.mounted THEN Unmount
       ELSE Mount
    /\ UNCHANGED <<book, restarted>>

ChatSteps ==
    /\ ChatStep \/ \E m \in Modes : SwitchMode(m)
    /\ DashboardCard
    /\ UNCHANGED <<fileVars, submit>>

FilesSteps == FilesStep /\ UNCHANGED <<chatVars, submit, reviewVars>>

QuizSteps == QuizStep /\ UNCHANGED <<chatVars, fileVars, reviewVars>>

ReviewSteps == ReviewStep /\ UNCHANGED <<chatVars, fileVars, submit>>

WorkspaceNext ==
    \/ ChatSteps
    \/ FilesSteps
    \/ QuizSteps
    \/ ReviewSteps

WorkspaceSpec == WorkspaceInit /\ [][WorkspaceNext]_workspaceVars

\* The interval of the page fires, its calls are answered, and the worker ends
\* with every material.  Nothing is assumed of the user and the other parts.
WorkspaceFairness ==
    LET Frame == UNCHANGED <<chatVars, submit, reviewVars>> IN
    /\ WF_workspaceVars(Poll /\ Frame)
    /\ \A j \in Jobs : WF_workspaceVars(JobStep(j) /\ Frame)
    /\ \A n \in Names : WF_workspaceVars(WorkerStep(n) /\ Frame)

FairWorkspace == WorkspaceSpec /\ WorkspaceFairness
=============================================================================
