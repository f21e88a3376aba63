-------------------------- MODULE Workspace_proofs --------------------------
(***************************************************************************)
(* Proofs about the workspace page, for every number of materials,         *)
(* conversations, questions, mistakes and handlers in flight.              *)
(*                                                                         *)
(* The parts meet in the stores.  Each part keeps the types of the stores  *)
(* and commits through the effect that keeps the scope; none but the       *)
(* conversation side touches the identity of the view, and none but a new  *)
(* quiz or the quiz card the answers.  So the invariants of the parts,     *)
(* proved in their own modules, hold together.                             *)
(***************************************************************************)
EXTENDS Workspace, ChatClient_proofs, ReviewPanel_proofs

\* What another part may do to the chat store: its scope and its mode.
ViewUnchanged ==
    /\ chat'.conversationId = chat.conversationId /\ chat'.base = chat.base
    /\ chat'.bubbles = chat.bubbles /\ chat'.isStreaming = chat.isStreaming

QuizInv == IndexInRange /\ AnswerMatchesScore

WorkspaceInv ==
    /\ ChatHolds /\ FilesTypeOK /\ QuizTypeOK /\ ReviewHolds
    /\ ChatInv /\ QuizInv /\ ReviewInv

-----------------------------------------------------------------------------
(* The materials. *)

LEMMA FilesRecordsTyped == NoFiles \in [Names -> FileStatuses] /\ NoJob \in Job
  BY DEF NoFiles, NoJob, Job, JobSteps, JobKinds, FileStatuses

LEMMA JobUpdate ==
    ASSUME job \in [Jobs -> Job], NEW j \in Jobs, NEW r \in Job
    PROVE  [job EXCEPT ![j] = r] \in [Jobs -> Job]
  OBVIOUS

\* A step that commits a scope and a list.
LEMMA CommitScope ==
    ASSUME StoresHold, NEW n \in SUBSET Names, NEW p \in Panel,
           \/ Commit(setMaterialScope(chat, n), p)
           \/ Commit(chat, p),
           quiz' = quiz,
           Click("files") \/ Fault \/ Settle
    PROVE  StoresHold' /\ ViewUnchanged
  <1>1. chat \in ChatStore /\ setMaterialScope(chat, n) \in ChatStore
    BY ChatUpdates DEF StoresHold, StoresTypeOK
  <1>2. chat' \in ChatStore /\ panel' \in Panel /\ ScopeIsReady' /\ ViewUnchanged
    BY <1>1, CommitHolds DEF ViewUnchanged, setMaterialScope, ChatStore
  <1>3. QED
    BY <1>2, ClicksTyped DEF StoresHold, StoresTypeOK, Areas

LEMMA PanelUpdates ==
    ASSUME StoresHold
    PROVE  /\ \A l, u \in BOOLEAN : [panel EXCEPT !.loading = l, !.uploading = u] \in Panel
           /\ [panel EXCEPT !.loading = TRUE] \in Panel
           /\ [panel EXCEPT !.uploading = TRUE] \in Panel
           /\ \A d \in [Names -> FileStatuses], u \in BOOLEAN :
                [panel EXCEPT !.materials = d, !.loading = FALSE, !.uploading = u] \in Panel
           /\ panel.loading \in BOOLEAN /\ panel.uploading \in BOOLEAN
  BY DEF StoresHold, StoresTypeOK, Panel

LEMMA FilesUserKeeps ==
    ASSUME StoresHold, FilesTypeOK, FilesUserStep
    PROVE  StoresHold' /\ FilesTypeOK' /\ ViewUnchanged /\ quiz' = quiz
  <1>1. chat.materialScope \in SUBSET Names /\ panel \in Panel
    BY DEF StoresHold, StoresTypeOK, ChatStore
  <1>2. HasFree(job) => FreeSlot(job) \in Jobs
    BY FreeSlotIsFree DEF FilesTypeOK
  <1>3. ASSUME NEW F \in SUBSET Names, UploadFiles(F)
        PROVE  StoresHold' /\ FilesTypeOK' /\ ViewUnchanged /\ quiz' = quiz
    <2>1. [NoJob EXCEPT !.pc = "posting", !.kind = "upload", !.left = F] \in Job
      BY FilesRecordsTyped DEF Job, JobSteps, JobKinds
    <2>2. FilesTypeOK'
      BY <1>2, <1>3, <2>1, JobUpdate DEF UploadFiles, FilesTypeOK
    <2>3. panel' \in Panel /\ panel'.materials = panel.materials /\ panel'.loading = panel.loading
      BY <1>1, <1>3 DEF UploadFiles, Panel
    <2>4. ScopeIsReady'
      BY <1>3, <2>3 DEF UploadFiles, StoresHold, ScopeIsReady, ScopeEffectRuns, ReadyNames
    <2>5. QED
      BY <1>3, <2>2, <2>3, <2>4, ClicksTyped
      DEF UploadFiles, StoresHold, StoresTypeOK, ViewUnchanged, Areas
  <1>4. ASSUME NEW n \in Names, DeleteMaterial(n)
        PROVE  StoresHold' /\ FilesTypeOK' /\ ViewUnchanged /\ quiz' = quiz
    <2>1. [NoJob EXCEPT !.pc = "posting", !.kind = "delete", !.left = {n},
                        !.scope = chat.materialScope] \in Job
      BY <1>1, FilesRecordsTyped DEF Job, JobSteps, JobKinds
    <2>2. FilesTypeOK'
      BY <1>2, <1>4, <2>1, JobUpdate DEF DeleteMaterial, FilesTypeOK
    <2>3. chat.materialScope \ {n} \in SUBSET Names
      BY <1>1
    <2>4. QED
      BY <1>1, <1>4, <2>2, <2>3, CommitScope DEF DeleteMaterial
  <1>5. ASSUME NEW n \in Names, toggleScope(n)
        PROVE  StoresHold' /\ FilesTypeOK' /\ ViewUnchanged /\ quiz' = quiz
    <2> DEFINE scope == IF n \in chat.materialScope THEN chat.materialScope \ {n}
                        ELSE chat.materialScope \cup {n}
    <2>1. scope \in SUBSET Names
      BY <1>1
    <2>2. Commit(setMaterialScope(chat, scope), panel) /\ Click("files") /\ quiz' = quiz
          /\ UNCHANGED fileVars
      BY <1>5 DEF toggleScope
    <2> HIDE DEF scope
    <2>3. QED
      BY <1>1, <2>1, <2>2, CommitScope DEF FilesTypeOK, fileVars
  <1>6. QED
    BY <1>3, <1>4, <1>5 DEF FilesUserStep

\* A step that leaves the stores but for the faults.
LEMMA QuietFiles ==
    ASSUME StoresHold, UNCHANGED <<chat, quiz, panel>>, Settle
    PROVE  StoresHold' /\ ViewUnchanged
  BY DEF StoresHold, StoresTypeOK, ScopeIsReady, ScopeEffectRuns, ReadyNames, ViewUnchanged, Settle

LEMMA JobKeeps ==
    ASSUME StoresHold, FilesTypeOK, NEW j \in Jobs, JobStep(j) \/ JobFails(j)
    PROVE  StoresHold' /\ FilesTypeOK' /\ ViewUnchanged /\ quiz' = quiz
  <1>1. /\ job \in [Jobs -> Job] /\ job[j] \in Job /\ files \in [Names -> FileStatuses]
        /\ chat \in ChatStore /\ panel \in Panel
    BY DEF FilesTypeOK, StoresHold, StoresTypeOK
  <1>2. [job EXCEPT ![j] = NoJob] \in [Jobs -> Job]
    BY <1>1, FilesRecordsTyped
  <1>3. CASE ServeUpload(j)
    <2>1. PICK n \in job[j].left :
            /\ files' = [files EXCEPT ![n] = "pending"]
            /\ job' = [job EXCEPT ![j] = [job[j] EXCEPT !.pc = "posted", !.left = @ \ {n}]]
      BY <1>1, <1>3 DEF ServeUpload
    <2>2. [job[j] EXCEPT !.pc = "posted", !.left = @ \ {n}] \in Job
      BY <1>1 DEF Job, JobSteps
    <2>3. FilesTypeOK'
      BY <1>1, <2>1, <2>2, JobUpdate DEF FilesTypeOK, FileStatuses
    <2>4. QED
      BY <1>3, <2>3, QuietFiles DEF ServeUpload
  <1>4. CASE ServeDeletion(j)
    <2>1. [job[j] EXCEPT !.pc = "posted"] \in Job
      BY <1>1 DEF Job, JobSteps
    <2>2. job' \in [Jobs -> Job]
      BY <1>1, <1>2, <1>4, <2>1 DEF ServeDeletion
    <2>3. files' \in [Names -> FileStatuses]
      BY <1>1, <1>4 DEF ServeDeletion, FileStatuses
    <2>4. QED
      BY <1>4, <2>2, <2>3, QuietFiles DEF ServeDeletion, FilesTypeOK
  <1>5. CASE FetchAfter(j)
    <2>1. [job[j] EXCEPT !.pc = "listing"] \in Job
      BY <1>1 DEF Job, JobSteps
    <2>2. FilesTypeOK'
      BY <1>1, <1>5, <2>1, JobUpdate DEF FetchAfter, StartList, FilesTypeOK
    <2>3. QED
      BY <1>1, <1>5, <2>2, CommitScope, PanelUpdates DEF FetchAfter
  <1>6. CASE ServeMaterials(j)
    <2>1. [job[j] EXCEPT !.pc = "listed", !.data = files] \in Job
      BY <1>1 DEF Job, JobSteps
    <2>2. job' = [job EXCEPT ![j] = [job[j] EXCEPT !.pc = "listed", !.data = files]]
      BY <1>1, <1>6 DEF ServeMaterials
    <2>3. FilesTypeOK'
      BY <1>1, <1>6, <2>1, <2>2, JobUpdate DEF ServeMaterials, FilesTypeOK
    <2>4. QED
      BY <1>6, <2>3, QuietFiles DEF ServeMaterials
  <1>7. CASE ReceiveMaterials(j)
    <2> DEFINE r == job[j]
               again == r.kind = "upload" /\ r.left # {}
               up == IF r.kind = "upload" THEN again ELSE panel.uploading
               p == [panel EXCEPT !.materials = r.data, !.loading = FALSE, !.uploading = up]
    <2>1. again \in BOOLEAN /\ up \in BOOLEAN /\ r.data \in [Names -> FileStatuses]
          /\ r.scope \ r.left \in SUBSET Names
      BY <1>1, PanelUpdates DEF Job
    <2>2. [r EXCEPT !.pc = "posting", !.data = NoFiles] \in Job
      BY <1>1, FilesRecordsTyped DEF Job, JobSteps
    <2>3. /\ job' = [job EXCEPT ![j] = IF again THEN [r EXCEPT !.pc = "posting", !.data = NoFiles] ELSE NoJob]
          /\ Commit(IF r.kind = "delete" THEN setMaterialScope(chat, r.scope \ r.left) ELSE chat, p)
          /\ files' = files /\ quiz' = quiz /\ Settle
      BY <1>7 DEF ReceiveMaterials
    <2> HIDE DEF again, up
    <2>4. FilesTypeOK'
      BY <1>1, <2>2, <2>3, FilesRecordsTyped DEF FilesTypeOK
    <2>5. p \in Panel
      BY <2>1, PanelUpdates
    <2> HIDE DEF p
    <2>6. \/ Commit(setMaterialScope(chat, r.scope \ r.left), p)
          \/ Commit(chat, p)
      BY <2>3
    <2>7. QED
      BY <2>1, <2>3, <2>4, <2>5, <2>6, CommitScope
  <1>8. CASE JobFails(j)
    <2> DEFINE l == IF job[j].pc = "listing" THEN FALSE ELSE panel.loading
               u == IF job[j].kind = "upload" THEN FALSE ELSE panel.uploading
    <2>1. l \in BOOLEAN /\ u \in BOOLEAN
      BY PanelUpdates
    <2>2. Commit(chat, [panel EXCEPT !.loading = l, !.uploading = u])
      BY <1>8 DEF JobFails
    <2> HIDE DEF l, u
    <2>3. [panel EXCEPT !.loading = l, !.uploading = u] \in Panel
      BY <2>1, PanelUpdates
    <2>4. FilesTypeOK'
      BY <1>1, <1>2, <1>8 DEF JobFails, FilesTypeOK
    <2>5. QED
      BY <1>1, <1>8, <2>2, <2>3, <2>4, CommitScope DEF JobFails
  <1>9. QED
    BY <1>3, <1>4, <1>5, <1>6, <1>7, <1>8 DEF JobStep

LEMMA FilesKeeps ==
    ASSUME StoresHold, FilesTypeOK, FilesStep
    PROVE  StoresHold' /\ FilesTypeOK' /\ ViewUnchanged /\ quiz' = quiz
  <1>1. files \in [Names -> FileStatuses] /\ job \in [Jobs -> Job]
    BY DEF FilesTypeOK
  <1>2. CASE Poll
    <2>1. FreeSlot(job) \in Jobs
      BY <1>2, FreeSlotIsFree DEF Poll, FilesTypeOK
    <2>2. [NoJob EXCEPT !.pc = "listing"] \in Job
      BY FilesRecordsTyped DEF Job, JobSteps
    <2>3. FilesTypeOK'
      BY <1>1, <1>2, <2>1, <2>2, JobUpdate DEF Poll, StartList, FilesTypeOK
    <2>4. QED
      BY <1>2, <2>3, CommitScope, PanelUpdates DEF Poll
  <1>3. ASSUME NEW n \in Names, WorkerStep(n)
        PROVE  StoresHold' /\ FilesTypeOK' /\ ViewUnchanged /\ quiz' = quiz
    <2>1. FilesTypeOK'
      BY <1>1, <1>3 DEF WorkerStep, StartProcessing, EndProcessing, FilesTypeOK, FileStatuses
    <2>2. QED
      BY <1>3, <2>1, QuietFiles DEF WorkerStep, StartProcessing, EndProcessing
  <1>4. QED
    BY <1>2, <1>3, FilesUserKeeps, JobKeeps DEF FilesStep

-----------------------------------------------------------------------------
(* The quiz card. *)

\* A new quiz begins at its first question, without answers.
LEMMA NewQuiz ==
    ASSUME quiz \in QuizStore, NEW n \in 0 .. MaxQuestions, NEW f \in Families, NEW v \in BOOLEAN,
           \/ quiz' = setQuestions(quiz, n, f)
           \/ quiz' = setGenerating(setQuestions(quiz, n, f), v)
    PROVE  QuizInv'
  <1>1. n \in Nat
    BY StoresAssumption, SMT
  <1>2. /\ quiz'.count = n /\ quiz'.currentIndex = 0 /\ quiz'.scores = NoLetters
    BY DEF setQuestions, setGenerating, QuizStore
  <1>3. IndexInRange'
    BY <1>1, <1>2, SMT DEF IndexInRange
  <1>4. AnswerMatchesScore'
    BY <1>2 DEF AnswerMatchesScore, MarkedAsChosen, isSubmitted, NoLetters
  <1>5. QED
    BY <1>3, <1>4 DEF QuizInv

LEMMA SameQuiz ==
    ASSUME QuizInv, quiz \in QuizStore, NEW v \in BOOLEAN,
           quiz' = quiz \/ quiz' = setGenerating(quiz, v)
    PROVE  QuizInv'
  <1>1. /\ quiz'.count = quiz.count /\ quiz'.currentIndex = quiz.currentIndex
        /\ quiz'.scores = quiz.scores /\ quiz'.answers = quiz.answers
    BY DEF setGenerating, QuizStore
  <1>2. QED
    BY <1>1 DEF QuizInv, IndexInRange, AnswerMatchesScore, MarkedAsChosen, isSubmitted

\* The card stands on a question of the quiz.
LEMMA CurrentInQuiz ==
    ASSUME quiz \in QuizStore, IndexInRange, CardShown
    PROVE  Current \in Questions /\ quiz.currentIndex \in Nat /\ quiz.count \in Nat
           /\ quiz.count <= MaxQuestions
  BY StoresAssumption, SMT DEF QuizStore, IndexInRange, CardShown, Current, Questions

LEMMA SubmitUpdate ==
    ASSUME submit \in [Submits -> Submit], NEW u \in Submits, NEW r \in Submit
    PROVE  [submit EXCEPT ![u] = r] \in [Submits -> Submit]
  OBVIOUS

LEMMA NoSubmitTyped == NoSubmit \in Submit
  BY StoresAssumption, SMT DEF NoSubmit, Submit, Families

\* A grade written with the answer it is about.
LEMMA GradeKeeps ==
    ASSUME quiz \in QuizStore, AnswerMatchesScore, NEW r \in Submit,
           quiz' = recordScore(answerQuestion(quiz, r.question, r.letter), r.question, r.letter)
    PROVE  /\ quiz' \in QuizStore /\ AnswerMatchesScore'
           /\ quiz'.count = quiz.count /\ quiz'.currentIndex = quiz.currentIndex
           /\ quiz'.isGenerating = quiz.isGenerating
  <1> DEFINE a == [quiz.answers EXCEPT ![r.question] = r.letter]
             s == [quiz.scores EXCEPT ![r.question] = r.letter]
  <1>1. quiz' = [quiz EXCEPT !.answers = a, !.scores = s]
    BY DEF recordScore, answerQuestion, QuizStore
  <1>2. /\ a \in [Questions -> Letters \cup {NoLetter}]
        /\ s \in [Questions -> Letters \cup {NoLetter}]
    BY DEF QuizStore, Submit
  <1>3. \A q \in Questions : /\ a[q] = IF q = r.question THEN r.letter ELSE quiz.answers[q]
                             /\ s[q] = IF q = r.question THEN r.letter ELSE quiz.scores[q]
    BY DEF QuizStore
  <1> HIDE DEF a, s
  <1>4. /\ quiz' \in QuizStore /\ quiz'.answers = a /\ quiz'.scores = s
        /\ quiz'.count = quiz.count /\ quiz'.currentIndex = quiz.currentIndex
        /\ quiz'.isGenerating = quiz.isGenerating
    BY <1>1, <1>2 DEF QuizStore
  <1>5. AnswerMatchesScore'
    BY <1>3, <1>4 DEF AnswerMatchesScore, MarkedAsChosen, isSubmitted
  <1>6. QED
    BY <1>4, <1>5

\* An index the card moves to.
LEMMA PageKeeps ==
    ASSUME quiz \in QuizStore, AnswerMatchesScore, NEW i \in Nat, i < quiz.count,
           quiz' = [quiz EXCEPT !.currentIndex = i]
    PROVE  quiz' \in QuizStore /\ QuizInv' /\ quiz'.isGenerating = quiz.isGenerating
  <1>1. /\ quiz' \in QuizStore /\ quiz'.isGenerating = quiz.isGenerating
        /\ quiz'.answers = quiz.answers /\ quiz'.scores = quiz.scores
        /\ quiz'.count = quiz.count /\ quiz'.currentIndex = i
    BY DEF QuizStore
  <1>2. QED
    BY <1>1 DEF QuizInv, IndexInRange, AnswerMatchesScore, MarkedAsChosen, isSubmitted

LEMMA QuizKeeps ==
    ASSUME StoresHold, QuizTypeOK, QuizInv, QuizStep
    PROVE  /\ StoresHold' /\ QuizTypeOK' /\ QuizInv' /\ UNCHANGED <<chat, panel>>
           /\ quiz'.isGenerating = quiz.isGenerating
  <1>1. quiz \in QuizStore /\ submit \in [Submits -> Submit] /\ IndexInRange /\ AnswerMatchesScore
    BY DEF StoresHold, StoresTypeOK, QuizTypeOK, QuizInv
  <1>2. /\ UNCHANGED <<chat, panel>>
        /\ Click("quiz") \/ Fault \/ Settle
    BY DEF QuizStep, PickOption, SubmitAnswer, nextQuestion, prevQuestion, ReceiveScore, SubmitFails
  <1>3. clicks' \in [Areas -> Nat] /\ faults' \in Nat
    BY <1>2, ClicksTyped DEF StoresHold, StoresTypeOK, Areas
  <1>4. ScopeIsReady'
    BY <1>2 DEF StoresHold, ScopeIsReady, ScopeEffectRuns, ReadyNames
  <1>5. SUFFICES /\ quiz' \in QuizStore /\ QuizTypeOK' /\ QuizInv'
                 /\ quiz'.isGenerating = quiz.isGenerating
    BY <1>2, <1>3, <1>4 DEF StoresHold, StoresTypeOK
  <1>6. QuizInv /\ quiz' = quiz => QuizInv'
    BY DEF QuizInv, IndexInRange, AnswerMatchesScore, MarkedAsChosen, isSubmitted
  <1>7. ASSUME NEW letter \in Letters, PickOption(letter)
        PROVE  /\ quiz' \in QuizStore /\ QuizTypeOK' /\ QuizInv'
               /\ quiz'.isGenerating = quiz.isGenerating
    <2> DEFINE a == [quiz.answers EXCEPT ![Current] = letter]
    <2>1. Current \in Questions /\ quiz.scores[Current] = NoLetter
      BY <1>1, <1>7, CurrentInQuiz DEF PickOption, isSubmitted
    <2>2. quiz' = [quiz EXCEPT !.answers = a]
      BY <1>1, <1>7 DEF PickOption, answerQuestion, QuizStore
    <2>3. /\ a \in [Questions -> Letters \cup {NoLetter}]
          /\ \A q \in Questions : q # Current => a[q] = quiz.answers[q]
      BY <1>1 DEF QuizStore
    <2> HIDE DEF a
    <2>4. /\ quiz' \in QuizStore /\ quiz'.answers = a /\ quiz'.scores = quiz.scores
          /\ quiz'.count = quiz.count /\ quiz'.currentIndex = quiz.currentIndex
          /\ quiz'.isGenerating = quiz.isGenerating
      BY <1>1, <2>2, <2>3 DEF QuizStore
    <2>5. QuizInv'
      BY <1>1, <2>1, <2>3, <2>4
      DEF QuizInv, IndexInRange, AnswerMatchesScore, MarkedAsChosen, isSubmitted
    <2>6. QED
      BY <1>7, <2>4, <2>5 DEF PickOption, QuizTypeOK, QuizInv
  <1>8. CASE SubmitAnswer
    <2>1. FreeSlot(submit) \in Submits /\ Current \in Questions
      BY <1>1, <1>8, FreeSlotIsFree, CurrentInQuiz DEF SubmitAnswer
    <2>2. Current \in 0 .. MaxQuestions
      BY <2>1, StoresAssumption, SMT DEF Questions
    <2>3. [pc |-> "posted", family |-> quiz.family, question |-> Current,
           letter |-> quiz.answers[Current]] \in Submit
      BY <1>1, <2>1, <2>2 DEF Submit, QuizStore
    <2>4. QuizTypeOK'
      BY <1>1, <1>8, <2>1, <2>3, SubmitUpdate DEF SubmitAnswer, QuizTypeOK
    <2>5. QED
      BY <1>1, <1>6, <1>8, <2>4 DEF SubmitAnswer, QuizInv
  <1>9. CASE nextQuestion
    <2> DEFINE i == IF quiz.currentIndex + 1 < quiz.count THEN quiz.currentIndex + 1
                    ELSE quiz.count - 1
    <2>1. quiz.currentIndex \in Nat /\ quiz.count \in Nat /\ quiz.count > 0
      BY <1>1, <1>9, CurrentInQuiz DEF nextQuestion, CardShown
    <2>2. i \in Nat /\ i < quiz.count
      BY <2>1, SMT
    <2>3. quiz' = [quiz EXCEPT !.currentIndex = i]
      BY <1>9 DEF nextQuestion
    <2> HIDE DEF i
    <2>4. QED
      BY <1>1, <1>9, <2>2, <2>3, PageKeeps DEF nextQuestion, QuizTypeOK
  <1>10. CASE prevQuestion
    <2> DEFINE i == quiz.currentIndex - 1
    <2>1. quiz.currentIndex \in Nat /\ quiz.count \in Nat /\ quiz.count > 0 /\ quiz.currentIndex # 0
      BY <1>1, <1>10, CurrentInQuiz DEF prevQuestion, CardShown
    <2>2. i \in Nat /\ i < quiz.count
      BY <1>1, <2>1, SMT DEF IndexInRange
    <2>3. quiz' = [quiz EXCEPT !.currentIndex = i]
      BY <1>10 DEF prevQuestion
    <2> HIDE DEF i
    <2>4. QED
      BY <1>1, <1>10, <2>2, <2>3, PageKeeps DEF prevQuestion, QuizTypeOK
  <1>11. ASSUME NEW u \in Submits, ReceiveScore(u) \/ SubmitFails(u)
         PROVE  /\ quiz' \in QuizStore /\ QuizTypeOK' /\ QuizInv'
                /\ quiz'.isGenerating = quiz.isGenerating
    <2>1. submit' = [submit EXCEPT ![u] = NoSubmit] /\ submit[u] \in Submit
      BY <1>1, <1>11 DEF ReceiveScore, SubmitFails
    <2>2. QuizTypeOK'
      BY <1>1, <2>1, NoSubmitTyped, SubmitUpdate DEF QuizTypeOK
    <2>3. \/ quiz' = quiz
          \/ quiz' = recordScore(answerQuestion(quiz, submit[u].question, submit[u].letter),
                                 submit[u].question, submit[u].letter)
      BY <1>11 DEF ReceiveScore, SubmitFails
    <2>4. QED
      BY <1>1, <1>6, <2>1, <2>2, <2>3, GradeKeeps DEF QuizInv, IndexInRange
  <1>12. QED
    BY <1>7, <1>8, <1>9, <1>10, <1>11 DEF QuizStep

-----------------------------------------------------------------------------
(* The parts together. *)

\* The conversation side changes the quiz only by opening a new one.
LEMMA ChatOnQuiz ==
    ASSUME StoresHold, QuizInv, ChatStep \/ \E m \in Modes : SwitchMode(m)
    PROVE  QuizInv' /\ quiz'.isGenerating = quiz.isGenerating
  <1>1. quiz \in QuizStore
    BY DEF StoresHold, StoresTypeOK
  <1>2. quiz' = quiz \/ \E n \in Questions : quiz' = setQuestions(quiz, n, "q")
    <2>1. ASSUME NEW s \in Sends, StreamStep(s) \/ DenyQuestion(s)
          PROVE  quiz' = quiz \/ \E n \in Questions : quiz' = setQuestions(quiz, n, "q")
      BY <2>1 DEF StreamStep, AcceptQuestion, save_message, Reconnect, ConversationEvent,
         TokenEvent, DoneEvent, CloseStream, StreamFails, DenyQuestion, Finally
    <2>2. ASSUME NEW n \in Navs, NavStep(n) \/ NavFails(n) PROVE quiz' = quiz
      BY <2>2 DEF NavStep, ServeActive, ServeHistory, ShowConversation, ServeDelete, ServeList,
         ServeCreate, StartConversation, NavFails, navFrame
    <2>3. ChatUserStep => quiz' = quiz
      BY DEF ChatUserStep, SubmitQuestion, QuickQuestion, AbortClick, NewConversation,
         SwitchConversation, DeleteConversation, sendMessage, Finally
    <2>4. (\E m \in Modes : SwitchMode(m)) => quiz' = quiz
      BY DEF SwitchMode
    <2>5. QED
      BY <2>1, <2>2, <2>3, <2>4 DEF ChatStep, ChatFaultStep
  <1>3. CASE quiz' = quiz
    BY <1>1, <1>3, SameQuiz
  <1>4. ASSUME NEW n \in Questions, quiz' = setQuestions(quiz, n, "q")
        PROVE  QuizInv' /\ quiz'.isGenerating = quiz.isGenerating
    <2>1. n \in 0 .. MaxQuestions /\ "q" \in Families
      BY StoresAssumption, SMT DEF Questions, Families
    <2>2. QuizInv'
      BY <1>1, <1>4, <2>1, NewQuiz
    <2>3. QED
      BY <1>1, <1>4, <2>2 DEF setQuestions, QuizStore
  <1>5. QED
    BY <1>2, <1>3, <1>4

\* The workbench opens the quiz card, and replaces its quiz.
LEMMA ReviewOnStores ==
    ASSUME StoresHold, QuizInv, ReviewStep
    PROVE  StoresHold' /\ ViewUnchanged /\ QuizInv'
  <1>1. chat \in ChatStore /\ quiz \in QuizStore /\ panel \in Panel
    BY DEF StoresHold, StoresTypeOK
  <1>2. Click("review") \/ Fault \/ Settle
    BY DEF ReviewStep, ReviewUserStep, TaskStep, SetFilter, Refresh, SelectMistake, TypeNote,
       SaveCorrection, ToggleMastered, StartExplain, StartPlan, StartExport, AskFor, retestConcept,
       createSimilarQuiz, StartQuiz, StartDailyReview, TypeDailyNote, DailyNext, LeaveDaily,
       InReview, ServeUpdate, ServeLoad, ServeDaily, ReceiveUpdate, ReceiveLoad, ReceiveDaily,
       ReceiveDocument, ReceiveQuiz, TaskFails
  <1>3. clicks' \in [Areas -> Nat] /\ faults' \in Nat
    BY <1>2, ClicksTyped DEF StoresHold, StoresTypeOK, Areas
  <1>4. \/ UNCHANGED stores
        \/ \E kind \in Quizzes : StartQuiz(kind)
        \/ \E k \in Tasks : ReceiveQuiz(k) \/ TaskFails(k)
    BY DEF ReviewStep, ReviewUserStep, TaskStep, SetFilter, Refresh, SelectMistake, TypeNote,
       SaveCorrection, ToggleMastered, StartExplain, StartPlan, StartExport, AskFor, retestConcept,
       createSimilarQuiz, StartDailyReview, TypeDailyNote, DailyNext, LeaveDaily,
       ServeUpdate, ServeLoad, ServeDaily, ReceiveUpdate, ReceiveLoad, ReceiveDaily,
       ReceiveDocument, Quizzes
  <1>5. ASSUME UNCHANGED <<chat, panel>> PROVE ScopeIsReady' /\ ViewUnchanged
    BY <1>5 DEF StoresHold, ScopeIsReady, ScopeEffectRuns, ReadyNames, ViewUnchanged
  <1>6. CASE UNCHANGED stores
    BY <1>1, <1>3, <1>5, <1>6, SameQuiz DEF stores, StoresHold, StoresTypeOK
  <1>7. ASSUME NEW kind \in Quizzes, StartQuiz(kind) PROVE StoresHold' /\ ViewUnchanged /\ QuizInv'
    <2>1. setMode(chat, "quiz") \in ChatStore
      BY <1>1, ChatUpdates DEF Modes
    <2>2. chat' \in ChatStore /\ panel' \in Panel /\ ScopeIsReady' /\ ViewUnchanged
      BY <1>1, <1>7, <2>1, CommitHolds DEF StartQuiz, ViewUnchanged, setMode, ChatStore
    <2>3. quiz' = setGenerating(quiz, TRUE)
      BY <1>7 DEF StartQuiz
    <2>4. quiz' \in QuizStore /\ QuizInv'
      BY <1>1, <2>3, QuizUpdates, SameQuiz
    <2>5. QED
      BY <1>3, <2>2, <2>4 DEF StoresHold, StoresTypeOK
  <1>8. ASSUME NEW k \in Tasks, ReceiveQuiz(k) \/ TaskFails(k)
        PROVE  StoresHold' /\ ViewUnchanged /\ QuizInv'
    <2>1. UNCHANGED <<chat, panel>>
      BY <1>8 DEF ReceiveQuiz, TaskFails
    <2>2. quiz' \in QuizStore /\ QuizInv'
      <3>1. CASE TaskFails(k)
        BY <1>1, <3>1, QuizUpdates, SameQuiz DEF TaskFails
      <3>2. CASE ReceiveQuiz(k)
        <4>1. PICK n \in IF task[k].kind = "similar" THEN {1} ELSE 0 .. MaxQuestions :
                quiz' = setGenerating(
                          setQuestions(quiz, n, IF task[k].kind = "similar" THEN "similar" ELSE "q"),
                          FALSE)
          BY <3>2 DEF ReceiveQuiz
        <4> DEFINE f == IF task[k].kind = "similar" THEN "similar" ELSE "q"
        <4>2. n \in 0 .. MaxQuestions
          BY StoresAssumption, SMT
        <4>3. f \in Families
          BY DEF Families
        <4>4. quiz' = setGenerating(setQuestions(quiz, n, f), FALSE)
          BY <4>1
        <4> HIDE DEF f
        <4>5. QED
          BY <1>1, <4>2, <4>3, <4>4, QuizUpdates, NewQuiz
      <3>3. QED
        BY <1>8, <3>1, <3>2
    <2>3. QED
      BY <1>1, <1>3, <1>5, <2>1, <2>2 DEF StoresHold, StoresTypeOK
  <1>9. QED
    BY <1>4, <1>6, <1>7, <1>8

\* What an unchanged part keeps.
LEMMA Frames ==
    /\ FilesTypeOK /\ UNCHANGED fileVars => FilesTypeOK'
    /\ QuizTypeOK /\ UNCHANGED submit => QuizTypeOK'
    /\ ChatTypeOK /\ UNCHANGED chatVars => ChatTypeOK'
    /\ ReviewHolds /\ UNCHANGED reviewVars => ReviewHolds'
    /\ NotesInv /\ UNCHANGED reviewVars => NotesInv'
  <1>1. FilesTypeOK /\ UNCHANGED fileVars => FilesTypeOK'
    BY DEF fileVars, FilesTypeOK
  <1>2. QuizTypeOK /\ UNCHANGED submit => QuizTypeOK'
    BY DEF QuizTypeOK
  <1>3. ChatTypeOK /\ UNCHANGED chatVars => ChatTypeOK'
    BY DEF chatVars, ChatTypeOK
  <1>4. ReviewHolds /\ UNCHANGED reviewVars => ReviewHolds'
    BY DEF reviewVars, ReviewHolds, ReviewTypeOK, SelectionListed, UpdatesAnswered
  <1>5. NotesInv /\ UNCHANGED reviewVars => NotesInv'
    BY DEF reviewVars, NotesInv, OwnTexts, OwnCall, OwnNotes
  <1>6. QED
    BY <1>1, <1>2, <1>3, <1>4, <1>5

\* A step of another part than the workbench leaves the flags.
LEMMA FlagsFrame ==
    ASSUME FlagsAreReleased, UNCHANGED reviewVars, quiz'.isGenerating = quiz.isGenerating
    PROVE  FlagsAreReleased'
  BY QuietFlags DEF reviewVars

\* The workbench is mounted and unmounted with the review mode.
LEMMA CardKeeps ==
    ASSUME ReviewHolds, ReviewInv, DashboardCard, quiz'.isGenerating = quiz.isGenerating
    PROVE  ReviewHolds' /\ ReviewInv'
  <1>1. CASE UNCHANGED <<review, task>>
    <2>1. UNCHANGED reviewVars
      BY <1>1 DEF DashboardCard, reviewVars
    <2>2. QED
      BY <2>1, Frames, FlagsFrame DEF ReviewInv
  <1>2. CASE Mount \/ Unmount
    <2>1. UNCHANGED <<book, restarted>>
      BY DEF DashboardCard
    <2>2. QED
      BY <1>2, <2>1, MountTyped, UnmountTyped, MountOwn, MountFlags DEF ReviewInv
  <1>3. QED
    BY <1>1, <1>2 DEF DashboardCard

LEMMA WorkspaceStart == WorkspaceInit => WorkspaceInv
  <1>1. SUFFICES ASSUME WorkspaceInit PROVE WorkspaceInv
    OBVIOUS
  <1>2. ChatHolds /\ ChatInv
    BY <1>1, ChatStart DEF WorkspaceInit
  <1>3. FilesTypeOK
    <2>1. files \in [Names -> FileStatuses]
      BY <1>1, ScenariosAssumption DEF WorkspaceInit, FilesInit
    <2>2. [NoJob EXCEPT !.pc = "listing"] \in Job
      BY FilesRecordsTyped DEF Job, JobSteps
    <2>3. QED
      BY <1>1, <2>1, <2>2, FilesRecordsTyped DEF WorkspaceInit, FilesInit, FilesTypeOK
  <1>4. QuizTypeOK
    BY <1>1, NoSubmitTyped DEF WorkspaceInit, QuizInit, QuizTypeOK
  <1>5. QuizInv
    BY <1>1 DEF WorkspaceInit, StoresInit, QuizInv, IndexInRange, AnswerMatchesScore,
       MarkedAsChosen, isSubmitted, NoLetters
  <1>6. ReviewHolds /\ ReviewInv
    BY <1>1, ReviewStart, ReviewInvStart DEF WorkspaceInit
  <1>7. QED
    BY <1>2, <1>3, <1>4, <1>5, <1>6 DEF WorkspaceInv

LEMMA WorkspaceStep == WorkspaceInv /\ [WorkspaceNext]_workspaceVars => WorkspaceInv'
  <1>1. SUFFICES ASSUME WorkspaceInv, [WorkspaceNext]_workspaceVars PROVE WorkspaceInv'
    OBVIOUS
  <1>2. /\ ChatHolds /\ StoresHold /\ ChatTypeOK /\ FilesTypeOK /\ QuizTypeOK /\ ReviewHolds
        /\ ChatInv /\ QuizInv /\ ReviewInv /\ quiz \in QuizStore
    BY <1>1 DEF WorkspaceInv, ChatHolds, StoresHold, StoresTypeOK
  <1>3. CASE ChatSteps
    <2>1. ChatHolds' /\ ChatInv'
      BY <1>2, <1>3, ChatKeeps DEF ChatSteps
    <2>2. QuizInv' /\ quiz'.isGenerating = quiz.isGenerating
      BY <1>2, <1>3, ChatOnQuiz DEF ChatSteps
    <2>3. ReviewHolds' /\ ReviewInv'
      BY <1>2, <1>3, <2>2, CardKeeps DEF ChatSteps
    <2>4. QED
      BY <1>2, <1>3, <2>1, <2>2, <2>3, Frames DEF ChatSteps, WorkspaceInv
  <1>4. CASE FilesSteps
    <2>1. /\ StoresHold' /\ FilesTypeOK' /\ ViewUnchanged /\ quiz' = quiz
          /\ UNCHANGED <<chatVars, submit, reviewVars>>
      BY <1>2, <1>4, FilesKeeps DEF FilesSteps
    <2>2. ChatInv'
      BY <1>2, <2>1, ChatUndisturbed DEF ViewUnchanged
    <2>3. QuizInv' /\ ReviewInv'
      BY <1>2, <2>1, SameQuiz, Frames, FlagsFrame DEF ReviewInv
    <2>4. QED
      BY <1>2, <2>1, <2>2, <2>3, Frames DEF WorkspaceInv, ChatHolds
  <1>5. CASE QuizSteps
    <2>1. /\ StoresHold' /\ QuizTypeOK' /\ QuizInv' /\ UNCHANGED <<chat, panel>>
          /\ quiz'.isGenerating = quiz.isGenerating
          /\ UNCHANGED <<chatVars, fileVars, reviewVars>>
      BY <1>2, <1>5, QuizKeeps DEF QuizSteps
    <2>2. ChatInv'
      BY <1>2, <2>1, ChatUndisturbed
    <2>3. ReviewInv'
      BY <1>2, <2>1, Frames, FlagsFrame DEF ReviewInv
    <2>4. QED
      BY <1>2, <2>1, <2>2, <2>3, Frames DEF WorkspaceInv, ChatHolds
  <1>6. CASE ReviewSteps
    <2>1. ReviewStep /\ UNCHANGED <<chatVars, fileVars, submit>>
      BY <1>6 DEF ReviewSteps
    <2>2. StoresHold' /\ ViewUnchanged /\ QuizInv'
      BY <1>2, <2>1, ReviewOnStores
    <2>3. ReviewHolds' /\ ReviewInv'
      BY <1>2, <2>1, ReviewTyped, ReviewOwn, ReviewFlags DEF ReviewInv
    <2>4. ChatInv'
      BY <1>2, <2>1, <2>2, ChatUndisturbed DEF ViewUnchanged
    <2>5. QED
      BY <1>2, <2>1, <2>2, <2>3, <2>4, Frames DEF WorkspaceInv, ChatHolds
  <1>7. CASE UNCHANGED workspaceVars
    <2>1. /\ UNCHANGED <<chat, quiz, panel, clicks, faults>>
          /\ UNCHANGED <<chatVars, fileVars, submit, reviewVars>>
      BY <1>7 DEF workspaceVars, storeVars
    <2>2. StoresHold'
      BY <1>2, <2>1 DEF StoresHold, StoresTypeOK, ScopeIsReady, ScopeEffectRuns, ReadyNames
    <2>3. ChatInv' /\ QuizInv' /\ ReviewInv'
      BY <1>2, <2>1, ChatUndisturbed, SameQuiz, Frames, FlagsFrame DEF ReviewInv
    <2>4. QED
      BY <1>2, <2>1, <2>2, <2>3, Frames DEF WorkspaceInv, ChatHolds
  <1>8. QED
    BY <1>1, <1>3, <1>4, <1>5, <1>6, <1>7 DEF WorkspaceNext

\* The inductive invariant of the page.
THEOREM WorkspaceInvariant == FairWorkspace => []WorkspaceInv
  <1>1. QED
    BY WorkspaceStart, WorkspaceStep, PTL DEF FairWorkspace, WorkspaceSpec

-----------------------------------------------------------------------------
(* What the page promises. *)

\* Every store, request and local state has its type, in particular no effect
\* leaves a text, a scope or an index that belongs to nothing.
THEOREM WorkspaceTypeCorrect == FairWorkspace => []WorkspaceTypeOK
  <1>1. WorkspaceInv => WorkspaceTypeOK
    BY DEF WorkspaceInv, ChatHolds, StoresHold, ReviewHolds, WorkspaceTypeOK
  <1>2. QED
    BY <1>1, WorkspaceInvariant, PTL

\* The names a question is limited to are ready materials, whoever wrote the
\* scope last, and from how old a render.
THEOREM ScopeStaysReady == FairWorkspace => []ScopeIsReady
  <1>1. WorkspaceInv => ScopeIsReady
    BY DEF WorkspaceInv, ChatHolds, StoresHold
  <1>2. QED
    BY <1>1, WorkspaceInvariant, PTL

\* The input is never locked with no question on its way, whatever was aborted,
\* failed, overtaken or replaced.
THEOREM InputIsGivenBack == FairWorkspace => []InputComesBack
  <1>1. WorkspaceInv => InputComesBack
    BY DEF WorkspaceInv, ChatInv
  <1>2. QED
    BY <1>1, WorkspaceInvariant, PTL

\* Unless a view is replaced under a stream, one question streams at a time.
THEOREM StreamsNeverOverlap == FairWorkspace => []OneStreamAtATime
  <1>1. WorkspaceInv => OneStreamAtATime
    BY OneIsAtMostOne DEF WorkspaceInv, ChatInv
  <1>2. QED
    BY <1>1, WorkspaceInvariant, PTL

\* Unless a view is replaced under a stream, what is shown belongs to the
\* conversation the next question is sent to.
THEOREM ViewsAreNotMixed == FairWorkspace => []ViewIsOneConversation
  <1>1. WorkspaceInv => ViewIsOneConversation
    BY DEF WorkspaceInv, ChatInv
  <1>2. QED
    BY <1>1, WorkspaceInvariant, PTL

\* The card never stands on a question the quiz does not have.
THEOREM CardStaysInQuiz == FairWorkspace => []IndexInRange
  <1>1. WorkspaceInv => IndexInRange
    BY DEF WorkspaceInv, QuizInv
  <1>2. QED
    BY <1>1, WorkspaceInvariant, PTL

\* The answer marked on a graded question is the one that was graded.
THEOREM GradesFitAnswers == FairWorkspace => []AnswerMatchesScore
  <1>1. WorkspaceInv => AnswerMatchesScore
    BY DEF WorkspaceInv, QuizInv
  <1>2. QED
    BY <1>1, WorkspaceInvariant, PTL

\* A correction is stored for the mistake it was written for, unless a daily
\* review was started again while it was open.
THEOREM CorrectionsFitMistakes == FairWorkspace => []CorrectionsAreTheirOwn
  <1>1. WorkspaceInv => CorrectionsAreTheirOwn
    BY DEF WorkspaceInv, ReviewInv, NotesInv, CorrectionsAreTheirOwn
  <1>2. QED
    BY <1>1, WorkspaceInvariant, PTL

\* No flag of the workbench outlives the calls it is about.
THEOREM FlagsComeBack == FairWorkspace => []FlagsAreReleased
  <1>1. WorkspaceInv => FlagsAreReleased
    BY DEF WorkspaceInv, ReviewInv
  <1>2. QED
    BY <1>1, WorkspaceInvariant, PTL
=============================================================================
