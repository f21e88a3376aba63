------------------------- MODULE ReviewPanel_proofs -------------------------
(***************************************************************************)
(* Proofs about the review workbench, for every set of mistakes and every  *)
(* number of calls in flight.                                              *)
(*                                                                         *)
(* The argument: the text of the detail panel belongs to the mistake that  *)
(* is selected, and the text of the daily review to its current mistake,   *)
(* whatever moves the selection; a call that saves takes both at once.  A  *)
(* flag is set with the call it is about, and cleared no later than it.    *)
(***************************************************************************)
EXTENDS ReviewPanel, WorkspaceStores_proofs, FiniteSetTheorems

\* A note belongs to the mistake it is stored for.
OwnNotes(page) == \A m \in Mistakes : page[m] = Hidden \/ page[m].note \in {Blank, m}

\* The texts of the workbench belong to the mistakes they would be saved for.
OwnTexts(w) ==
    /\ OwnNotes(w.page)
    /\ w.note \in {Blank, w.selected}
    /\ w.dailyNote # Blank =>
         w.index + 1 \in DOMAIN w.daily /\ w.dailyNote = w.daily[w.index + 1]

\* So do those a call carries.
OwnCall(r) ==
    /\ OwnNotes(r.page)
    /\ r.kind = "save" => r.note \in {Blank, r.mistake}

NotesInv ==
    ~ restarted => /\ \A m \in Mistakes : book[m].note \in {Blank, m}
                   /\ OwnTexts(review)
                   /\ \A k \in Tasks : OwnCall(task[k])

\* What is selected is listed.
SelectionListed == review.selected # Nobody => review.page[review.selected] # Hidden

\* An update is about a mistake, and answered with its row.
UpdatesAnswered ==
    \A k \in Tasks : task[k].kind \in Updates =>
        /\ task[k].mistake \in Mistakes
        /\ task[k].pc = "answered" => task[k].page[task[k].mistake] # Hidden

ReviewHolds == ReviewTypeOK /\ SelectionListed /\ UpdatesAnswered

ReviewInv == NotesInv /\ FlagsAreReleased

-----------------------------------------------------------------------------
(* Type correctness. *)

LEMMA ReviewRecordsTyped ==
    /\ Hidden \notin Row
    /\ NoPage \in Page
    /\ <<>> \in Sessions
    /\ Unmounted \in Workbench
    /\ NoTask \in Task
  <1>1. Hidden \notin Row
    BY ReviewAssumption DEF Hidden, Row, Notes
  <1>2. NoPage \in Page
    BY DEF NoPage, Page
  <1>3. <<>> \in Sessions
    <2>1. <<>> \in [1 .. 0 -> Mistakes]
      BY SMT
    <2>2. Cardinality(Mistakes) \in Nat
      BY ReviewAssumption, FS_CardinalityType
    <2>3. 0 \in 0 .. Cardinality(Mistakes)
      BY <2>2, SMT
    <2>4. QED
      BY <2>1, <2>3, Zenon DEF Sessions
  <1>4. Blank \in Notes /\ Nobody \in Mistakes \cup {Nobody} /\ "all" \in Filters
    BY DEF Notes, Filters
  <1>5. Unmounted \in Workbench
    BY <1>2, <1>3, <1>4 DEF Unmounted, Workbench
  <1>6. NoTask \in Task
    BY <1>2, <1>3, <1>4 DEF NoTask, Task, Kinds
  <1>7. QED
    BY <1>1, <1>2, <1>3, <1>5, <1>6

LEMMA SessionTyped ==
    ASSUME NEW d \in Sessions
    PROVE  /\ \A i \in DOMAIN d : d[i] \in Mistakes
           /\ Len(d) \in Nat /\ DOMAIN d = 1 .. Len(d)
  <1>1. PICK n \in 0 .. Cardinality(Mistakes) : d \in [1 .. n -> Mistakes]
    BY DEF Sessions
  <1>2. n \in Nat
    BY <1>1, SMT
  <1>3. d \in Seq(Mistakes)
    BY <1>1, <1>2, SMT
  <1>4. QED
    BY <1>3, SMT

LEMMA TaskUpdate ==
    ASSUME task \in [Tasks -> Task], NEW k \in Tasks, NEW r \in Task
    PROVE  [task EXCEPT ![k] = r] \in [Tasks -> Task]
  OBVIOUS

\* A call that is started takes a free slot.
LEMMA StartTyped ==
    ASSUME ReviewTypeOK, HasFree(task), NEW kind \in Kinds, NEW m \in Mistakes \cup {Nobody},
           NEW text \in Notes, review'.filter \in Filters, Start(kind, m, text)
    PROVE  /\ FreeSlot(task) \in Tasks /\ task[FreeSlot(task)].pc = "free"
           /\ task' \in [Tasks -> Task]
           /\ \A k \in Tasks : k # FreeSlot(task) => task'[k] = task[k]
           /\ LET r == task'[FreeSlot(task)] IN
                /\ r.pc = "posted" /\ r.kind = kind /\ r.mistake = m /\ r.note = text
                /\ r.page = NoPage
  <1>1. FreeSlot(task) \in Tasks /\ task[FreeSlot(task)].pc = "free"
    BY FreeSlotIsFree DEF ReviewTypeOK
  <1> DEFINE r == [NoTask EXCEPT !.pc = "posted", !.kind = kind, !.mistake = m, !.note = text,
                                 !.filter = review'.filter]
  <1>2. r \in Task
    BY ReviewRecordsTyped DEF Task
  <1>3. r.pc = "posted" /\ r.kind = kind /\ r.mistake = m /\ r.note = text /\ r.page = NoPage
    BY DEF NoTask
  <1>4. task' = [task EXCEPT ![FreeSlot(task)] = r]
    BY DEF Start
  <1> HIDE DEF r
  <1>5. QED
    BY <1>1, <1>2, <1>3, <1>4 DEF ReviewTypeOK

LEMMA OrphanedTyped ==
    ASSUME ReviewTypeOK, NEW k \in Tasks
    PROVE  Orphaned(k) \in Task
  <1>1. task[k] \in Task
    BY DEF ReviewTypeOK
  <1>2. [task[k] EXCEPT !.pc = "orphan"] \in Task
    BY <1>1 DEF Task
  <1>3. QED
    BY <1>1, <1>2, ReviewRecordsTyped DEF Orphaned

LEMMA NoteEffectTyped ==
    ASSUME NEW w \in Workbench, w.selected # Nobody => w.page[w.selected] # Hidden
    PROVE  NoteEffect(w) \in Workbench
  <1>1. correctionNote(w) \in Notes
    BY DEF correctionNote, Workbench, Page, Row, Notes
  <1>2. QED
    BY <1>1 DEF NoteEffect, Workbench

\* A call that is started keeps what is known of the calls.
LEMMA StartKeepsUpdates ==
    ASSUME ReviewHolds, HasFree(task), NEW kind \in Kinds, NEW m \in Mistakes \cup {Nobody},
           NEW text \in Notes, review'.filter \in Filters, Start(kind, m, text),
           kind \in Updates => m \in Mistakes
    PROVE  task' \in [Tasks -> Task] /\ UpdatesAnswered'
  <1>1. ReviewTypeOK
    BY DEF ReviewHolds
  <1>2. task' \in [Tasks -> Task]
    BY <1>1, StartTyped
  <1>3. \A k \in Tasks : \/ task'[k] = task[k]
                         \/ task'[k].pc = "posted" /\ task'[k].kind = kind /\ task'[k].mistake = m
    BY <1>1, StartTyped
  <1>4. UpdatesAnswered'
    BY <1>3 DEF ReviewHolds, UpdatesAnswered
  <1>5. QED
    BY <1>2, <1>4

\* The workbench after a step that keeps the list and the selection.
LEMMA SelectionKeeps ==
    ASSUME ReviewHolds, review'.page = review.page, review'.selected = review.selected
    PROVE  SelectionListed'
  BY DEF ReviewHolds, SelectionListed

\* The workbench is closed: no call, or what goes on without it.
LEMMA CloseTyped ==
    ASSUME ReviewHolds, review' = Unmounted,
           \A k \in Tasks : \/ task'[k] = Orphaned(k)
                            \/ /\ task'[k] \in Task
                               /\ task'[k].kind \in Quizzes,
           task' = [k \in Tasks |-> task'[k]],
           UNCHANGED <<book, restarted>>
    PROVE  ReviewHolds'
  <1>1. task' \in [Tasks -> Task]
    BY OrphanedTyped DEF ReviewHolds
  <1>2. UpdatesAnswered'
    <2>1. \A k \in Tasks : \/ Orphaned(k) = task[k]
                           \/ Orphaned(k) = [task[k] EXCEPT !.pc = "orphan"]
                           \/ Orphaned(k) = NoTask
      BY DEF Orphaned
    <2>2. \A k \in Tasks : Orphaned(k).kind \in Updates =>
            /\ Orphaned(k).mistake = task[k].mistake /\ Orphaned(k).kind = task[k].kind
            /\ Orphaned(k).pc \in {task[k].pc, "orphan"} /\ Orphaned(k).page = task[k].page
      BY <2>1 DEF ReviewHolds, ReviewTypeOK, Task, NoTask, Updates
    <2>3. QED
      BY <2>2 DEF ReviewHolds, UpdatesAnswered, Updates, Quizzes
  <1>3. SelectionListed' /\ review' \in Workbench
    BY ReviewRecordsTyped DEF SelectionListed, Unmounted
  <1>4. QED
    BY <1>1, <1>2, <1>3 DEF ReviewHolds, ReviewTypeOK

LEMMA MountTyped ==
    ASSUME ReviewHolds, Mount, UNCHANGED <<book, restarted>>
    PROVE  ReviewHolds'
  <1>1. review' \in Workbench /\ review'.selected = Nobody /\ review'.filter = "all"
    BY ReviewRecordsTyped DEF Mount, Unmounted, Workbench
  <1>2. task' \in [Tasks -> Task] /\ UpdatesAnswered'
    BY <1>1, StartKeepsUpdates DEF Mount, Kinds, Updates, Notes, Filters
  <1>3. QED
    BY <1>1, <1>2 DEF ReviewHolds, ReviewTypeOK, SelectionListed

LEMMA UnmountTyped ==
    ASSUME ReviewHolds, Unmount, UNCHANGED <<book, restarted>>
    PROVE  ReviewHolds'
  BY CloseTyped DEF Unmount

LEMMA StartQuizTyped ==
    ASSUME ReviewHolds, NEW kind \in Quizzes, StartQuiz(kind)
    PROVE  ReviewHolds'
  <1>1. [NoTask EXCEPT !.pc = "posted", !.kind = kind, !.mistake = review.selected] \in Task
    BY ReviewRecordsTyped DEF Task, Kinds, Quizzes, ReviewHolds, ReviewTypeOK, Workbench
  <1>2. [NoTask EXCEPT !.pc = "posted", !.kind = kind, !.mistake = review.selected].kind = kind
    BY DEF NoTask
  <1>3. QED
    BY <1>1, <1>2, CloseTyped DEF StartQuiz

\* A click that starts a call, and changes the workbench without its list.
LEMMA ClickTyped ==
    ASSUME ReviewHolds, HasFree(task), review' \in Workbench,
           review'.page = review.page, review'.selected = review.selected,
           NEW kind \in Kinds, NEW m \in Mistakes \cup {Nobody}, NEW text \in Notes,
           Start(kind, m, text), kind \in Updates => m \in Mistakes,
           UNCHANGED <<book, restarted>>
    PROVE  ReviewHolds'
  <1>1. task' \in [Tasks -> Task] /\ UpdatesAnswered'
    BY StartKeepsUpdates DEF Workbench
  <1>2. QED
    BY <1>1, SelectionKeeps DEF ReviewHolds, ReviewTypeOK

\* The daily review goes on, or is closed.
LEMMA CloseDailyTyped ==
    ASSUME NEW w \in Workbench
    PROVE  /\ CloseDaily(w) \in Workbench
           /\ CloseDaily(w).page = w.page /\ CloseDaily(w).selected = w.selected
  BY ReviewRecordsTyped DEF CloseDaily, Workbench, Notes

LEMMA GoNextTyped ==
    ASSUME NEW w \in Workbench
    PROVE  /\ goNext(w) \in Workbench
           /\ goNext(w).page = w.page /\ goNext(w).selected = w.selected
  <1> DEFINE i == w.index + 1
             v == [w EXCEPT !.index = i, !.dailyNote = Blank]
  <1>1. goNext(w) \in {CloseDaily(w), v}
    BY DEF goNext
  <1>2. v \in Workbench /\ v.page = w.page /\ v.selected = w.selected
    <2>1. i \in Nat
      BY DEF Workbench
    <2> HIDE DEF i
    <2>2. QED
      BY <2>1 DEF Workbench, Notes
  <1>3. QED
    BY <1>1, <1>2, CloseDailyTyped

\* What the user does.
LEMMA ReviewUserTyped ==
    ASSUME ReviewHolds, ReviewUserStep
    PROVE  ReviewHolds'
  <1>1. review \in Workbench /\ ReviewTypeOK
    BY DEF ReviewHolds, ReviewTypeOK
  <1>2. Blank \in Notes /\ Nobody \in Mistakes \cup {Nobody} /\ review.note \in Notes
    BY <1>1 DEF Notes, Workbench
  <1>3. CASE Refresh \/ \E f \in Filters : SetFilter(f)
    <2>1. /\ review' \in Workbench
          /\ review'.page = review.page /\ review'.selected = review.selected
      BY <1>1, <1>3 DEF Refresh, SetFilter, Workbench
    <2>2. HasFree(task) /\ Start("load", Nobody, Blank) /\ UNCHANGED <<book, restarted>>
      BY <1>3 DEF Refresh, SetFilter, InReview
    <2>3. QED
      BY <1>2, <2>1, <2>2, ClickTyped DEF Kinds, Updates
  <1>4. ASSUME NEW m \in Mistakes, SelectMistake(m) PROVE ReviewHolds'
    <2> DEFINE w == [review EXCEPT !.selected = m]
    <2>1. w \in Workbench /\ w.page[w.selected] # Hidden /\ w.selected = m /\ w.page = review.page
      BY <1>1, <1>4 DEF Workbench, SelectMistake, Listed
    <2>2. review' = NoteEffect(w)
      BY <1>4 DEF SelectMistake
    <2> HIDE DEF w
    <2>3. review' \in Workbench /\ review'.page = w.page /\ review'.selected = m
      BY <2>1, <2>2, NoteEffectTyped DEF NoteEffect, Workbench
    <2>4. QED
      BY <1>4, <2>1, <2>3 DEF SelectMistake, ReviewHolds, ReviewTypeOK, SelectionListed, UpdatesAnswered
  <1>5. CASE TypeNote \/ TypeDailyNote \/ LeaveDaily
    <2>1. InFlow => CurrentDaily \in Notes
      BY <1>1, SessionTyped DEF InFlow, CurrentDaily, Workbench, Notes
    <2>2. /\ review' \in Workbench
          /\ review'.page = review.page /\ review'.selected = review.selected
      <3>1. CASE TypeNote
        BY <1>1, <3>1 DEF TypeNote, Workbench, Notes
      <3>2. CASE TypeDailyNote
        BY <1>1, <2>1, <3>2 DEF TypeDailyNote, Workbench
      <3>3. CASE LeaveDaily
        BY <1>1, <3>3, CloseDailyTyped DEF LeaveDaily
      <3>4. QED
        BY <1>5, <3>1, <3>2, <3>3
    <2>3. UNCHANGED <<book, task, restarted>>
      BY <1>5 DEF TypeNote, TypeDailyNote, LeaveDaily
    <2>4. QED
      BY <2>2, <2>3, SelectionKeeps DEF ReviewHolds, ReviewTypeOK, UpdatesAnswered
  <1>6. CASE SaveCorrection
    <2>1. /\ review' \in Workbench
          /\ review'.page = review.page /\ review'.selected = review.selected
      BY <1>1, <1>6 DEF SaveCorrection, Workbench
    <2>2. review.selected \in Mistakes
      BY <1>1, <1>6 DEF SaveCorrection, Workbench
    <2>3. QED
      BY <1>2, <1>6, <2>1, <2>2, ClickTyped DEF SaveCorrection, InReview, Kinds, Updates
  <1>7. CASE ToggleMastered
    <2>1. /\ review' \in Workbench
          /\ review'.page = review.page /\ review'.selected = review.selected
      BY <1>1, <1>7 DEF ToggleMastered, Workbench
    <2>2. review.selected \in Mistakes
      BY <1>1, <1>7 DEF ToggleMastered, Workbench
    <2>3. QED
      BY <1>2, <1>7, <2>1, <2>2, ClickTyped DEF ToggleMastered, InReview, Kinds, Updates
  <1>8. CASE StartExplain \/ StartDailyReview
    <2>1. review.selected \in Mistakes \cup {Nobody}
      BY <1>1 DEF Workbench
    <2>2. QED
      BY <1>1, <1>2, <1>8, <2>1, ClickTyped
      DEF StartExplain, StartDailyReview, InReview, Kinds, Updates
  <1>9. CASE StartPlan \/ StartExport
    <2>1. PICK kind \in {"plan", "export"} : AskFor(kind)
      BY <1>9 DEF StartPlan, StartExport
    <2>2. /\ review' \in Workbench
          /\ review'.page = review.page /\ review'.selected = review.selected
      BY <1>1, <2>1 DEF AskFor, Workbench
    <2>3. QED
      BY <1>2, <2>1, <2>2, ClickTyped DEF AskFor, InReview, Kinds, Updates
  <1>10. CASE retestConcept \/ createSimilarQuiz
    BY <1>10, StartQuizTyped DEF retestConcept, createSimilarQuiz, Quizzes
  <1>11. ASSUME NEW kind \in {"save", "master"}, DailyNext(kind) PROVE ReviewHolds'
    <2>1. CurrentDaily \in Mistakes /\ review.dailyNote \in Notes
      BY <1>1, <1>11, SessionTyped DEF DailyNext, InFlow, CurrentDaily, Workbench
    <2> DEFINE w == [review EXCEPT !.busy = @ \cup {"saving"}]
    <2>2. w \in Workbench /\ w.page = review.page /\ w.selected = review.selected
      BY <1>1 DEF Workbench
    <2>3. review' = goNext(w)
      BY <1>11 DEF DailyNext
    <2> HIDE DEF w
    <2>4. /\ review' \in Workbench
          /\ review'.page = review.page /\ review'.selected = review.selected
      BY <2>2, <2>3, GoNextTyped
    <2>5. QED
      BY <1>2, <1>11, <2>1, <2>4, ClickTyped DEF DailyNext, InReview, Kinds, Updates
  <1>12. QED
    BY <1>3, <1>4, <1>5, <1>6, <1>7, <1>8, <1>9, <1>10, <1>11 DEF ReviewUserStep

\* A call that ends without a change of the list and the selection.
LEMMA DoneTyped ==
    ASSUME ReviewHolds, NEW k \in Tasks, Done(k)
    PROVE  task' \in [Tasks -> Task] /\ UpdatesAnswered'
  <1>1. task' \in [Tasks -> Task]
    BY ReviewRecordsTyped, TaskUpdate DEF Done, ReviewHolds, ReviewTypeOK
  <1>2. \A j \in Tasks : task'[j] = task[j] \/ task'[j].kind = "load"
    BY DEF Done, ReviewHolds, ReviewTypeOK, NoTask
  <1>3. QED
    BY <1>1, <1>2 DEF ReviewHolds, UpdatesAnswered, Updates

LEMMA MasteredRowsTyped == MasteredRows \in Nat
  <1>1. IsFiniteSet({m \in Mistakes : book[m].status = "mastered"})
    BY ReviewAssumption, FS_Subset
  <1>2. QED
    BY <1>1, FS_CardinalityType DEF MasteredRows

LEMMA UpdatedTyped ==
    ASSUME NEW r \in Task, r.kind \in Updates, NEW row \in Row
    PROVE  Updated(r, row) \in Row
  BY DEF Updated, Updates, Task, Row, ReviewStatuses

\* The backend answers a call.
LEMMA ServeTyped ==
    ASSUME ReviewHolds, NEW k \in Tasks, ServeUpdate(k) \/ ServeLoad(k) \/ ServeDaily(k)
    PROVE  ReviewHolds'
  <1>1. /\ task[k] \in Task /\ task \in [Tasks -> Task] /\ book \in [Mistakes -> Row]
        /\ review \in Workbench
    BY DEF ReviewHolds, ReviewTypeOK
  <1>2. CASE ServeUpdate(k)
    <2>1. task[k].mistake \in Mistakes /\ task[k].kind \in Updates
      BY <1>2 DEF ServeUpdate, ReviewHolds, UpdatesAnswered
    <2> DEFINE m == task[k].mistake
               row == Updated(task[k], book[m])
    <2>2. row \in Row
      BY <1>1, <2>1, UpdatedTyped
    <2> HIDE DEF row
    <2>3. book' = [book EXCEPT ![m] = row]
      BY <1>1, <1>2, <2>1 DEF ServeUpdate, row
    <2>4. book' \in [Mistakes -> Row] /\ book'[m] = row
      BY <1>1, <2>1, <2>2, <2>3
    <2> DEFINE r == [task[k] EXCEPT !.pc = "answered", !.page[m] = row]
    <2>5. r \in Task /\ r.kind = task[k].kind /\ r.mistake = m /\ r.page[m] # Hidden
      BY <1>1, <2>1, <2>2, ReviewRecordsTyped DEF Task, Page
    <2>6. task' = [task EXCEPT ![k] = NoTask] \/ task' = [task EXCEPT ![k] = r]
      BY <1>1, <1>2, <2>4 DEF ServeUpdate
    <2> HIDE DEF r
    <2>7. task' \in [Tasks -> Task]
      BY <1>1, <2>5, <2>6, ReviewRecordsTyped
    <2>8. UpdatesAnswered'
      <3>1. NoTask.kind \notin Updates
        BY DEF NoTask, Updates
      <3>2. QED
        BY <1>1, <2>1, <2>5, <2>6, <3>1 DEF ReviewHolds, UpdatesAnswered
    <2>9. QED
      BY <1>2, <2>4, <2>7, <2>8 DEF ServeUpdate, ReviewHolds, ReviewTypeOK, SelectionListed
  <1>3. CASE ServeLoad(k)
    <2> DEFINE page == [m \in Mistakes |->
                          IF Matches(book[m], task[k].filter) THEN book[m] ELSE Hidden]
               n == MasteredRows
               r == [task[k] EXCEPT !.pc = "answered", !.mastered = n, !.page = page]
    <2>1. page \in Page /\ n \in Nat
      BY <1>1, MasteredRowsTyped DEF Page
    <2>2. task' = [task EXCEPT ![k] = r]
      BY <1>1, <1>3 DEF ServeLoad
    <2> HIDE DEF page, n
    <2>3. r \in Task /\ r.kind = "load"
      BY <1>1, <1>3, <2>1 DEF Task, ServeLoad
    <2> HIDE DEF r
    <2>4. task' \in [Tasks -> Task] /\ UpdatesAnswered'
      BY <1>1, <2>2, <2>3 DEF ReviewHolds, UpdatesAnswered, Updates
    <2>5. QED
      BY <1>3, <2>4 DEF ServeLoad, ReviewHolds, ReviewTypeOK, SelectionListed
  <1>4. CASE ServeDaily(k)
    <2>1. PICK d \in Sessions :
            task' = [task EXCEPT ![k] = [task[k] EXCEPT !.pc = "answered", !.daily = d]]
      BY <1>1, <1>4 DEF ServeDaily
    <2> DEFINE r == [task[k] EXCEPT !.pc = "answered", !.daily = d]
    <2>2. r \in Task /\ r.kind = "daily"
      BY <1>1, <1>4 DEF Task, ServeDaily
    <2> HIDE DEF r
    <2>3. task' = [task EXCEPT ![k] = r]
      BY <2>1 DEF r
    <2>4. task' \in [Tasks -> Task] /\ UpdatesAnswered'
      BY <1>1, <2>2, <2>3 DEF ReviewHolds, UpdatesAnswered, Updates
    <2>5. QED
      BY <1>4, <2>4 DEF ServeDaily, ReviewHolds, ReviewTypeOK, SelectionListed
  <1>5. QED
    BY <1>2, <1>3, <1>4

\* The workbench after an update came back, before the effect.
AfterUpdate(r) ==
    [review EXCEPT !.page[r.mistake] = IF @ = Hidden THEN @ ELSE r.page[r.mistake],
                   !.mastered = IF r.page[r.mistake].status = "mastered" THEN @ + 1 ELSE @,
                   !.busy = @ \ {"saving"}]

LEMMA AfterUpdateTyped ==
    ASSUME ReviewHolds, NEW k \in Tasks, task[k].pc = "answered", task[k].kind \in Updates
    PROVE  LET r == task[k]
               w == AfterUpdate(r)
           IN  /\ w \in Workbench
               /\ w.selected = review.selected /\ w.note = review.note
               /\ w.loading = review.loading /\ w.busy = review.busy \ {"saving"}
               /\ w.daily = review.daily /\ w.index = review.index
               /\ w.dailyNote = review.dailyNote
               /\ \A m \in Mistakes : /\ w.page[m] = Hidden <=> review.page[m] = Hidden
                                      /\ w.page[m] \in {review.page[m], r.page[m]}
  <1> DEFINE r == task[k]
             n == r.mistake
             row == IF review.page[n] = Hidden THEN review.page[n] ELSE r.page[n]
             count == IF r.page[n].status = "mastered" THEN review.mastered + 1 ELSE review.mastered
             flags == review.busy \ {"saving"}
             w == [review EXCEPT !.page[n] = row, !.mastered = count, !.busy = flags]
  <1>1. r \in Task /\ review \in Workbench /\ n \in Mistakes /\ r.page[n] # Hidden
    BY DEF ReviewHolds, ReviewTypeOK, UpdatesAnswered
  <1>2. /\ row \in Row \cup {Hidden} /\ count \in Nat
        /\ row = Hidden <=> review.page[n] = Hidden
        /\ row \in {review.page[n], r.page[n]}
    BY <1>1 DEF Task, Page, Workbench
  <1>3. AfterUpdate(r) = w
    BY <1>1 DEF AfterUpdate, Workbench, Page
  <1>4. flags \subseteq review.busy /\ review.page \in Page
    BY <1>1 DEF Workbench
  <1> HIDE DEF row, count, r, n, flags
  <1>5. /\ w \in Workbench
        /\ w.page = [review.page EXCEPT ![n] = row]
        /\ w.selected = review.selected /\ w.note = review.note
        /\ w.loading = review.loading /\ w.busy = flags
        /\ w.daily = review.daily /\ w.index = review.index
        /\ w.dailyNote = review.dailyNote
    BY <1>1, <1>2, <1>4 DEF Workbench, Page
  <1>6. \A m \in Mistakes : w.page[m] = IF m = n THEN row ELSE review.page[m]
    BY <1>4, <1>5 DEF Page
  <1>7. QED
    BY <1>2, <1>3, <1>5, <1>6 DEF r, flags

\* The effect leaves everything but the text.
LEMMA NoteEffectLeaves ==
    ASSUME NEW w \in Workbench
    PROVE  /\ NoteEffect(w).page = w.page /\ NoteEffect(w).selected = w.selected
           /\ NoteEffect(w).daily = w.daily /\ NoteEffect(w).index = w.index
           /\ NoteEffect(w).dailyNote = w.dailyNote
           /\ NoteEffect(w).loading = w.loading /\ NoteEffect(w).busy = w.busy
           /\ NoteEffect(w).mounted = w.mounted
  BY DEF NoteEffect, Workbench

\* The workbench with a list that came back.
WithList(r, m) ==
    [review EXCEPT !.page = r.page, !.mastered = r.mastered, !.selected = m, !.loading = FALSE]

LEMMA WithListTyped ==
    ASSUME ReviewHolds, NEW k \in Tasks,
           NEW m \in SelectionAfter({n \in Mistakes : task[k].page[n] # Hidden})
    PROVE  LET w == WithList(task[k], m) IN
             /\ w \in Workbench /\ w.page = task[k].page /\ w.selected = m
             /\ m # Nobody => task[k].page[m] # Hidden
             /\ ~ w.loading /\ w.busy = review.busy /\ w.note = review.note
             /\ w.daily = review.daily /\ w.index = review.index
             /\ w.dailyNote = review.dailyNote
  <1>1. task[k] \in Task /\ review \in Workbench
    BY DEF ReviewHolds, ReviewTypeOK
  <1>2. m \in Mistakes \cup {Nobody} /\ (m # Nobody => task[k].page[m] # Hidden)
    BY DEF SelectionAfter
  <1>3. QED
    BY <1>1, <1>2 DEF WithList, Workbench, Task

\* What comes back to the workbench.
LEMMA ReceiveTyped ==
    ASSUME ReviewHolds, NEW k \in Tasks,
           \/ ReceiveUpdate(k) \/ ReceiveLoad(k) \/ ReceiveDaily(k)
           \/ ReceiveDocument(k) \/ ReceiveQuiz(k)
    PROVE  ReviewHolds'
  <1>1. task[k] \in Task /\ review \in Workbench
    BY DEF ReviewHolds, ReviewTypeOK
  <1>2. Done(k) /\ book' = book
    BY DEF ReceiveUpdate, ReceiveLoad, ReceiveDaily, ReceiveDocument, ReceiveQuiz
  <1>3. task' \in [Tasks -> Task] /\ UpdatesAnswered'
    BY <1>2, DoneTyped
  <1>4. CASE ReceiveUpdate(k)
    <2> DEFINE w == AfterUpdate(task[k])
    <2>1. /\ w \in Workbench /\ w.selected = review.selected
          /\ \A m \in Mistakes : w.page[m] = Hidden <=> review.page[m] = Hidden
      BY <1>4, AfterUpdateTyped DEF ReceiveUpdate
    <2>2. review' = NoteEffect(w) /\ UNCHANGED <<book, restarted>>
      BY <1>4 DEF ReceiveUpdate, AfterUpdate
    <2> HIDE DEF w
    <2>3. w.selected # Nobody => w.page[w.selected] # Hidden
      BY <1>1, <2>1 DEF ReviewHolds, SelectionListed, Workbench
    <2>4. review' \in Workbench /\ review'.page = w.page /\ review'.selected = w.selected
      BY <2>1, <2>2, <2>3, NoteEffectTyped, NoteEffectLeaves
    <2>5. QED
      BY <1>3, <2>2, <2>3, <2>4 DEF ReviewHolds, ReviewTypeOK, SelectionListed
  <1>5. CASE ReceiveLoad(k)
    <2>1. PICK m \in SelectionAfter({n \in Mistakes : task[k].page[n] # Hidden}) :
            review' = NoteEffect(WithList(task[k], m))
      BY <1>5 DEF ReceiveLoad, WithList
    <2> DEFINE w == WithList(task[k], m)
    <2>2. w \in Workbench /\ (w.selected # Nobody => w.page[w.selected] # Hidden)
      BY WithListTyped
    <2>3. review' = NoteEffect(w)
      BY <2>1
    <2> HIDE DEF w
    <2>4. review' \in Workbench /\ review'.page = w.page /\ review'.selected = w.selected
      BY <2>2, <2>3, NoteEffectTyped, NoteEffectLeaves
    <2>5. QED
      BY <1>3, <1>5, <2>2, <2>4 DEF ReceiveLoad, ReviewHolds, ReviewTypeOK, SelectionListed
  <1>6. CASE ReceiveDaily(k)
    <2>1. /\ [review EXCEPT !.daily = task[k].daily] \in Workbench
          /\ [review EXCEPT !.daily = task[k].daily].page = review.page
          /\ [review EXCEPT !.daily = task[k].daily].selected = review.selected
      BY <1>1 DEF Workbench, Task
    <2>2. /\ review' \in Workbench
          /\ review'.page = review.page /\ review'.selected = review.selected
      BY <1>1, <1>6, <2>1, CloseDailyTyped DEF ReceiveDaily
    <2>3. restarted' \in BOOLEAN
      BY <1>6 DEF ReceiveDaily
    <2>4. QED
      BY <1>2, <1>3, <2>2, <2>3, SelectionKeeps DEF ReviewHolds, ReviewTypeOK
  <1>7. CASE ReceiveDocument(k) \/ ReceiveQuiz(k)
    <2>1. /\ review' \in Workbench
          /\ review'.page = review.page /\ review'.selected = review.selected
      BY <1>1, <1>7 DEF ReceiveDocument, ReceiveQuiz, Workbench
    <2>2. restarted' = restarted
      BY <1>7 DEF ReceiveDocument, ReceiveQuiz
    <2>3. QED
      BY <1>2, <1>3, <2>1, <2>2, SelectionKeeps DEF ReviewHolds, ReviewTypeOK
  <1>8. QED
    BY <1>4, <1>5, <1>6, <1>7

LEMMA TaskFailsTyped ==
    ASSUME ReviewHolds, NEW k \in Tasks, TaskFails(k)
    PROVE  ReviewHolds'
  <1>1. task[k] \in Task /\ review \in Workbench
    BY DEF ReviewHolds, ReviewTypeOK
  <1>2. task' \in [Tasks -> Task] /\ UpdatesAnswered'
    BY DoneTyped DEF TaskFails
  <1>3. /\ Cleared(task[k].kind) \in Workbench
        /\ Cleared(task[k].kind).page = review.page
        /\ Cleared(task[k].kind).selected = review.selected
    BY <1>1 DEF Cleared, Workbench
  <1>4. QED
    BY <1>1, <1>2, <1>3, SelectionKeeps DEF TaskFails, ReviewHolds, ReviewTypeOK

LEMMA ReviewTyped == ReviewHolds /\ ReviewStep => ReviewHolds'
  BY ReviewUserTyped, ServeTyped, ReceiveTyped, TaskFailsTyped DEF ReviewStep, TaskStep

LEMMA ReviewStart == ReviewInit => ReviewHolds
  <1>1. SUFFICES ASSUME ReviewInit PROVE ReviewHolds
    OBVIOUS
  <1>2. [status |-> "unreviewed", note |-> Blank] \in Row
    BY DEF Row, ReviewStatuses, Notes
  <1>3. ReviewTypeOK
    BY <1>1, <1>2, ReviewRecordsTyped DEF ReviewInit, ReviewTypeOK
  <1>4. SelectionListed
    BY <1>1 DEF ReviewInit, SelectionListed, Unmounted
  <1>5. UpdatesAnswered
    BY <1>1 DEF ReviewInit, UpdatesAnswered, NoTask, Updates
  <1>6. QED
    BY <1>3, <1>4, <1>5 DEF ReviewHolds

-----------------------------------------------------------------------------
(* A correction is stored for the mistake it was written for. *)

LEMMA NoPageOwn ==
    /\ OwnNotes(NoPage)
    /\ OwnTexts(Unmounted)
    /\ OwnCall(NoTask)
  <1>1. OwnNotes(NoPage)
    BY DEF OwnNotes, NoPage
  <1>2. QED
    BY <1>1 DEF OwnTexts, Unmounted, OwnCall, NoTask

\* The effect makes the text that of the mistake that is selected.
LEMMA NoteEffectOwn ==
    ASSUME NEW w \in Workbench, OwnNotes(w.page),
           w.selected # Nobody => w.page[w.selected] # Hidden,
           w.note = review.note, review.note \in {Blank, review.selected}
    PROVE  NoteEffect(w).note \in {Blank, w.selected}
  <1>1. correctionNote(w) \in {Blank, w.selected}
    BY DEF correctionNote, OwnNotes, Workbench
  <1>2. CASE w.selected = review.selected /\ correctionNote(w) = correctionNote(review)
    BY <1>2 DEF NoteEffect
  <1>3. CASE ~ (w.selected = review.selected /\ correctionNote(w) = correctionNote(review))
    BY <1>1, <1>3 DEF NoteEffect, Workbench
  <1>4. QED
    BY <1>2, <1>3

\* A call that is started carries what the workbench shows.
LEMMA StartOwn ==
    ASSUME ReviewHolds, HasFree(task), NEW kind \in Kinds, NEW m \in Mistakes \cup {Nobody},
           NEW text \in Notes, review'.filter \in Filters, Start(kind, m, text),
           kind = "save" => text \in {Blank, m},
           \A k \in Tasks : OwnCall(task[k])
    PROVE  \A k \in Tasks : OwnCall(task'[k])
  <1>1. \A k \in Tasks :
          \/ task'[k] = task[k]
          \/ /\ task'[k].kind = kind /\ task'[k].mistake = m /\ task'[k].note = text
             /\ task'[k].page = NoPage
    BY StartTyped DEF ReviewHolds
  <1>2. \A k \in Tasks : task'[k] # task[k] => OwnCall(task'[k])
    BY <1>1, NoPageOwn DEF OwnCall
  <1>3. QED
    BY <1>2

\* A click that starts a call, and leaves the texts of the workbench.
LEMMA ClickOwn ==
    ASSUME ReviewHolds, NotesInv, HasFree(task), review'.filter \in Filters,
           NEW kind \in Kinds, NEW m \in Mistakes \cup {Nobody}, NEW text \in Notes,
           Start(kind, m, text), ~ restarted /\ kind = "save" => text \in {Blank, m},
           UNCHANGED <<book, restarted>>,
           ~ restarted => OwnTexts(review')
    PROVE  NotesInv'
  <1>1. SUFFICES ASSUME ~ restarted
                 PROVE  /\ \A j \in Mistakes : book'[j].note \in {Blank, j}
                        /\ OwnTexts(review')
                        /\ \A k \in Tasks : OwnCall(task'[k])
    BY DEF NotesInv, OwnCall, OwnTexts, OwnNotes
  <1>2. \A k \in Tasks : OwnCall(task[k])
    BY <1>1 DEF NotesInv
  <1>3. \A k \in Tasks : OwnCall(task'[k])
    BY <1>1, <1>2, StartOwn
  <1>4. QED
    BY <1>1, <1>3 DEF NotesInv

LEMMA CloseOwn ==
    ASSUME ReviewHolds, NotesInv, review' = Unmounted,
           \A k \in Tasks : \/ task'[k] = Orphaned(k)
                            \/ /\ task'[k].page = NoPage
                               /\ task'[k].kind \in Quizzes,
           UNCHANGED <<book, restarted>>
    PROVE  NotesInv'
  <1>1. ASSUME NEW k \in Tasks, OwnCall(task[k]) PROVE OwnCall(task'[k])
    <2>1. CASE task'[k].page = NoPage /\ task'[k].kind \in Quizzes
      BY <2>1, NoPageOwn DEF OwnCall, Quizzes
    <2>2. CASE task'[k] = Orphaned(k)
      <3>1. task[k] \in Task
        BY DEF ReviewHolds, ReviewTypeOK
      <3>2. \/ Orphaned(k) = task[k] \/ Orphaned(k) = NoTask
            \/ Orphaned(k) = [task[k] EXCEPT !.pc = "orphan"]
        BY DEF Orphaned
      <3>3. QED
        BY <1>1, <2>2, <3>1, <3>2, NoPageOwn DEF OwnCall, Task
    <2>3. QED
      BY <2>1, <2>2
  <1>2. OwnTexts(review')
    BY NoPageOwn
  <1>3. QED
    BY <1>1, <1>2 DEF NotesInv, OwnCall, OwnTexts, OwnNotes

LEMMA DailyOwn ==
    ASSUME NEW w \in Workbench, OwnTexts(w)
    PROVE  OwnTexts(CloseDaily(w)) /\ OwnTexts(goNext(w))
  <1>1. OwnTexts(CloseDaily(w))
    BY DEF OwnTexts, CloseDaily, Workbench
  <1>2. OwnTexts([w EXCEPT !.index = @ + 1, !.dailyNote = Blank])
    BY DEF OwnTexts, Workbench
  <1>3. QED
    BY <1>1, <1>2 DEF goNext

\* A step that starts no call.
LEMMA TextsOwn ==
    ASSUME NotesInv, UNCHANGED <<book, task, restarted>>, ~ restarted => OwnTexts(review')
    PROVE  NotesInv'
  BY DEF NotesInv, OwnCall, OwnTexts, OwnNotes

LEMMA ReviewUserOwn ==
    ASSUME ReviewHolds, NotesInv, ReviewUserStep
    PROVE  NotesInv'
  <1>1. review \in Workbench
    BY DEF ReviewHolds, ReviewTypeOK
  <1>2. Blank \in Notes /\ Nobody \in Mistakes \cup {Nobody} /\ review.note \in Notes
        /\ review.selected \in Mistakes \cup {Nobody}
    BY <1>1 DEF Notes, Workbench
  <1>3. ~ restarted => OwnTexts(review)
    BY DEF NotesInv
  <1>4. CASE Refresh \/ \E f \in Filters : SetFilter(f)
    <2>1. review'.filter \in Filters /\ (~ restarted => OwnTexts(review'))
      BY <1>1, <1>3, <1>4 DEF Refresh, SetFilter, Workbench, OwnTexts
    <2>2. HasFree(task) /\ Start("load", Nobody, Blank) /\ UNCHANGED <<book, restarted>>
      BY <1>4 DEF Refresh, SetFilter, InReview
    <2>3. QED
      BY <1>2, <2>1, <2>2, ClickOwn DEF Kinds
  <1>5. ASSUME NEW m \in Mistakes, SelectMistake(m) PROVE NotesInv'
    <2> DEFINE w == [review EXCEPT !.selected = m]
    <2>1. /\ w \in Workbench /\ w.page[w.selected] # Hidden /\ w.selected = m
          /\ w.page = review.page /\ w.note = review.note /\ w.daily = review.daily
          /\ w.index = review.index /\ w.dailyNote = review.dailyNote
      BY <1>1, <1>5 DEF Workbench, SelectMistake, Listed
    <2>2. review' = NoteEffect(w) /\ UNCHANGED <<book, task, restarted>>
      BY <1>5 DEF SelectMistake
    <2> HIDE DEF w
    <2>3. ~ restarted => NoteEffect(w).note \in {Blank, w.selected}
      BY <1>3, <2>1, NoteEffectOwn DEF OwnTexts
    <2>4. ~ restarted => OwnTexts(review')
      BY <1>3, <2>1, <2>2, <2>3, NoteEffectLeaves DEF OwnTexts
    <2>5. QED
      BY <2>2, <2>4, TextsOwn
  <1>6. CASE TypeNote
    BY <1>1, <1>3, <1>6, TextsOwn DEF TypeNote, OwnTexts, Workbench
  <1>7. CASE TypeDailyNote
    <2>1. ~ restarted => OwnTexts(review')
      BY <1>1, <1>3, <1>7 DEF TypeDailyNote, InFlow, CurrentDaily, OwnTexts, Workbench
    <2>2. QED
      BY <1>7, <2>1, TextsOwn DEF TypeDailyNote
  <1>8. CASE LeaveDaily
    BY <1>1, <1>3, <1>8, DailyOwn, TextsOwn DEF LeaveDaily
  <1>9. CASE SaveCorrection
    <2>1. review'.filter \in Filters /\ (~ restarted => OwnTexts(review'))
      BY <1>1, <1>3, <1>9 DEF SaveCorrection, Workbench, OwnTexts
    <2>2. ~ restarted => review.note \in {Blank, review.selected}
      BY <1>3 DEF OwnTexts
    <2>3. QED
      BY <1>2, <1>9, <2>1, <2>2, ClickOwn DEF SaveCorrection, InReview, Kinds, Updates
  <1>10. CASE ToggleMastered
    <2>1. review'.filter \in Filters /\ (~ restarted => OwnTexts(review'))
      BY <1>1, <1>3, <1>10 DEF ToggleMastered, Workbench, OwnTexts
    <2>2. QED
      BY <1>2, <1>10, <2>1, ClickOwn DEF ToggleMastered, InReview, Kinds, Updates
  <1>11. CASE StartExplain \/ StartDailyReview
    <2>1. review'.filter \in Filters /\ (~ restarted => OwnTexts(review'))
      BY <1>1, <1>3, <1>11 DEF StartExplain, StartDailyReview, Workbench
    <2>2. QED
      BY <1>2, <1>11, <2>1, ClickOwn DEF StartExplain, StartDailyReview, InReview, Kinds
  <1>12. CASE StartPlan \/ StartExport
    <2>1. PICK kind \in {"plan", "export"} : AskFor(kind)
      BY <1>12 DEF StartPlan, StartExport
    <2>2. review'.filter \in Filters /\ (~ restarted => OwnTexts(review'))
      BY <1>1, <1>3, <2>1 DEF AskFor, Workbench, OwnTexts
    <2>3. QED
      BY <1>2, <2>1, <2>2, ClickOwn DEF AskFor, InReview, Kinds
  <1>13. CASE retestConcept \/ createSimilarQuiz
    <2>1. PICK kind \in Quizzes : StartQuiz(kind)
      BY <1>13 DEF retestConcept, createSimilarQuiz, Quizzes
    <2>2. /\ [NoTask EXCEPT !.pc = "posted", !.kind = kind, !.mistake = review.selected].page = NoPage
          /\ [NoTask EXCEPT !.pc = "posted", !.kind = kind, !.mistake = review.selected].kind = kind
      BY DEF NoTask
    <2>3. QED
      BY <2>1, <2>2, CloseOwn DEF StartQuiz
  <1>14. ASSUME NEW kind \in {"save", "master"}, DailyNext(kind) PROVE NotesInv'
    <2>1. CurrentDaily \in Mistakes /\ review.dailyNote \in Notes
      BY <1>1, <1>14, SessionTyped DEF DailyNext, InFlow, CurrentDaily, Workbench
    <2> DEFINE w == [review EXCEPT !.busy = @ \cup {"saving"}]
    <2>2. w \in Workbench /\ (~ restarted => OwnTexts(w))
      BY <1>1, <1>3 DEF Workbench, OwnTexts
    <2>3. review' = goNext(w)
      BY <1>14 DEF DailyNext
    <2> HIDE DEF w
    <2>4. review'.filter \in Filters /\ (~ restarted => OwnTexts(review'))
      BY <2>2, <2>3, GoNextTyped, DailyOwn DEF Workbench
    <2>5. ~ restarted => review.dailyNote \in {Blank, CurrentDaily}
      BY <1>3 DEF OwnTexts, CurrentDaily
    <2> DEFINE text == IF kind = "save" THEN review.dailyNote ELSE Blank
    <2>6. text \in Notes /\ (~ restarted /\ kind = "save" => text \in {Blank, CurrentDaily})
      BY <1>2, <2>1, <2>5
    <2>7. HasFree(task) /\ Start(kind, CurrentDaily, text) /\ UNCHANGED <<book, restarted>>
      BY <1>14 DEF DailyNext, InReview
    <2> HIDE DEF text
    <2>8. kind \in Kinds
      BY DEF Kinds, Updates
    <2>9. QED
      BY <2>1, <2>4, <2>6, <2>7, <2>8, ClickOwn
  <1>15. QED
    BY <1>4, <1>5, <1>6, <1>7, <1>8, <1>9, <1>10, <1>11, <1>12, <1>13, <1>14 DEF ReviewUserStep

\* The backend answers a call with what it has.
LEMMA ServeOwn ==
    ASSUME ReviewHolds, NotesInv, NEW k \in Tasks,
           ServeUpdate(k) \/ ServeLoad(k) \/ ServeDaily(k)
    PROVE  NotesInv'
  <1>1. /\ task[k] \in Task /\ task \in [Tasks -> Task] /\ book \in [Mistakes -> Row]
        /\ review' = review /\ restarted' = restarted
    BY DEF ReviewHolds, ReviewTypeOK, ServeUpdate, ServeLoad, ServeDaily
  <1>2. \A j \in Tasks : j # k => task'[j] = task[j]
    BY <1>1 DEF ServeUpdate, ServeLoad, ServeDaily
  <1>3. SUFFICES ASSUME ~ restarted
                 PROVE  /\ \A m \in Mistakes : book'[m].note \in {Blank, m}
                        /\ OwnCall(task'[k])
    BY <1>1, <1>2 DEF NotesInv, OwnCall, OwnTexts, OwnNotes
  <1>4. (\A m \in Mistakes : book[m].note \in {Blank, m}) /\ OwnCall(task[k])
    BY <1>3 DEF NotesInv
  <1>5. CASE ServeUpdate(k)
    <2> DEFINE n == task[k].mistake
               row == Updated(task[k], book[n])
    <2>1. n \in Mistakes /\ task[k].kind \in Updates
      BY <1>5 DEF ServeUpdate, ReviewHolds, UpdatesAnswered
    <2>2. row.note \in {Blank, n}
      BY <1>1, <1>4, <2>1 DEF Updated, Updates, OwnCall, Row
    <2> HIDE DEF row
    <2>3. book' = [book EXCEPT ![n] = row]
      BY <1>1, <1>5, <2>1 DEF ServeUpdate, row
    <2>4. \A m \in Mistakes : book'[m] = IF m = n THEN row ELSE book[m]
      BY <1>1, <2>3
    <2> DEFINE r == [task[k] EXCEPT !.pc = "answered", !.page[n] = row]
    <2>5. /\ r.kind = task[k].kind /\ r.note = task[k].note /\ r.mistake = n
          /\ r.page = [task[k].page EXCEPT ![n] = row]
      BY <1>1 DEF Task
    <2>6. OwnCall(r)
      BY <1>1, <1>4, <2>1, <2>2, <2>5 DEF OwnCall, OwnNotes, Task, Page
    <2>7. task'[k] = NoTask \/ task'[k] = r
      BY <1>1, <1>5, <2>1, <2>4 DEF ServeUpdate
    <2> HIDE DEF r
    <2>8. QED
      BY <1>4, <2>2, <2>4, <2>6, <2>7, NoPageOwn
  <1>6. CASE ServeLoad(k)
    <2> DEFINE page == [m \in Mistakes |->
                          IF Matches(book[m], task[k].filter) THEN book[m] ELSE Hidden]
    <2>1. OwnNotes(page)
      BY <1>4 DEF OwnNotes
    <2>2. task'[k] = [task[k] EXCEPT !.pc = "answered", !.mastered = MasteredRows, !.page = page]
      BY <1>1, <1>6 DEF ServeLoad
    <2> HIDE DEF page
    <2>3. task'[k].page = page /\ task'[k].kind = "load"
      BY <1>1, <1>6, <2>2 DEF Task, ServeLoad
    <2>4. QED
      BY <1>4, <1>6, <2>1, <2>3 DEF ServeLoad, OwnCall
  <1>7. CASE ServeDaily(k)
    <2>1. PICK d \in Sessions :
            task' = [task EXCEPT ![k] = [task[k] EXCEPT !.pc = "answered", !.daily = d]]
      BY <1>1, <1>7 DEF ServeDaily
    <2>2. task'[k].page = task[k].page /\ task'[k].kind = "daily"
      BY <1>1, <1>7, <2>1 DEF ServeDaily, Task
    <2>3. QED
      BY <1>4, <1>7, <2>2 DEF ServeDaily, OwnCall, Updates
  <1>8. QED
    BY <1>5, <1>6, <1>7

LEMMA DoneOwn ==
    ASSUME ReviewHolds, NotesInv, NEW k \in Tasks, Done(k), book' = book,
           ~ restarted' => ~ restarted /\ OwnTexts(review')
    PROVE  NotesInv'
  <1>1. \A j \in Tasks : task'[j] \in {task[j], NoTask}
    BY DEF Done, ReviewHolds, ReviewTypeOK
  <1>2. QED
    BY <1>1, NoPageOwn DEF NotesInv, OwnCall, OwnTexts, OwnNotes

LEMMA ReceiveOwn ==
    ASSUME ReviewHolds, NotesInv, NEW k \in Tasks,
           \/ ReceiveUpdate(k) \/ ReceiveLoad(k) \/ ReceiveDaily(k)
           \/ ReceiveDocument(k) \/ ReceiveQuiz(k) \/ TaskFails(k)
    PROVE  NotesInv'
  <1>1. task[k] \in Task /\ review \in Workbench
    BY DEF ReviewHolds, ReviewTypeOK
  <1>2. Done(k) /\ book' = book
    BY DEF ReceiveUpdate, ReceiveLoad, ReceiveDaily, ReceiveDocument, ReceiveQuiz, TaskFails
  <1>3. ~ restarted' => ~ restarted
    BY DEF ReceiveUpdate, ReceiveLoad, ReceiveDaily, ReceiveDocument, ReceiveQuiz, TaskFails
  <1>4. SUFFICES ASSUME ~ restarted' PROVE OwnTexts(review')
    BY <1>2, <1>3, DoneOwn
  <1>5. OwnTexts(review) /\ OwnCall(task[k])
    BY <1>3, <1>4 DEF NotesInv
  <1>6. CASE ReceiveUpdate(k)
    <2> DEFINE w == AfterUpdate(task[k])
    <2>1. /\ w \in Workbench
          /\ w.selected = review.selected /\ w.note = review.note
          /\ w.daily = review.daily /\ w.index = review.index
          /\ w.dailyNote = review.dailyNote
          /\ \A m \in Mistakes : /\ w.page[m] = Hidden <=> review.page[m] = Hidden
                                 /\ w.page[m] \in {review.page[m], task[k].page[m]}
      BY <1>6, AfterUpdateTyped DEF ReceiveUpdate
    <2>2. review' = NoteEffect(w)
      BY <1>6 DEF ReceiveUpdate, AfterUpdate
    <2> HIDE DEF w
    <2>3. OwnNotes(w.page)
      BY <1>5, <2>1 DEF OwnNotes, OwnTexts, OwnCall
    <2>4. w.selected # Nobody => w.page[w.selected] # Hidden
      BY <1>1, <2>1 DEF ReviewHolds, SelectionListed, Workbench
    <2>5. NoteEffect(w).note \in {Blank, w.selected}
      BY <1>5, <2>1, <2>3, <2>4, NoteEffectOwn DEF OwnTexts
    <2>6. QED
      BY <1>5, <2>1, <2>2, <2>3, <2>5, NoteEffectLeaves DEF OwnTexts
  <1>7. CASE ReceiveLoad(k)
    <2>1. PICK m \in SelectionAfter({n \in Mistakes : task[k].page[n] # Hidden}) :
            review' = NoteEffect(WithList(task[k], m))
      BY <1>7 DEF ReceiveLoad, WithList
    <2> DEFINE w == WithList(task[k], m)
    <2>2. /\ w \in Workbench /\ w.page = task[k].page /\ w.note = review.note
          /\ w.selected # Nobody => w.page[w.selected] # Hidden
          /\ w.daily = review.daily /\ w.index = review.index
          /\ w.dailyNote = review.dailyNote
      BY WithListTyped
    <2>3. review' = NoteEffect(w)
      BY <2>1
    <2> HIDE DEF w
    <2>4. OwnNotes(w.page)
      BY <1>5, <2>2 DEF OwnCall
    <2>5. NoteEffect(w).note \in {Blank, w.selected}
      BY <1>5, <2>2, <2>4, NoteEffectOwn DEF OwnTexts
    <2>6. QED
      BY <1>5, <2>2, <2>3, <2>4, <2>5, NoteEffectLeaves DEF OwnTexts
  <1>8. CASE ReceiveDaily(k)
    <2>1. CASE task[k].daily = <<>>
      BY <1>1, <1>5, <1>8, <2>1, DailyOwn DEF ReceiveDaily
    <2>2. CASE task[k].daily # <<>>
      <3>1. review.daily = <<>>
        BY <1>4, <1>8, <2>2 DEF ReceiveDaily
      <3>2. review.dailyNote = Blank
        <4>1. ~ (review.index + 1 \in DOMAIN <<>>)
          OBVIOUS
        <4>2. QED
          BY <1>5, <3>1, <4>1 DEF OwnTexts
      <3>3. review' = [review EXCEPT !.daily = task[k].daily]
        BY <1>8, <2>2 DEF ReceiveDaily
      <3>4. QED
        BY <1>1, <1>5, <3>2, <3>3 DEF OwnTexts, Workbench
    <2>3. QED
      BY <2>1, <2>2
  <1>9. CASE ReceiveDocument(k) \/ ReceiveQuiz(k)
    BY <1>1, <1>5, <1>9 DEF ReceiveDocument, ReceiveQuiz, OwnTexts, Workbench
  <1>10. CASE TaskFails(k)
    <2>1. OwnTexts(Cleared(task[k].kind))
      BY <1>1, <1>5 DEF Cleared, OwnTexts, Workbench
    <2>2. QED
      BY <1>5, <1>10, <2>1 DEF TaskFails
  <1>11. QED
    BY <1>6, <1>7, <1>8, <1>9, <1>10

LEMMA MountOwn ==
    ASSUME ReviewHolds, NotesInv, Mount \/ Unmount, UNCHANGED <<book, restarted>>
    PROVE  NotesInv'
  <1>1. CASE Mount
    <2>1. OwnTexts(review') /\ review'.filter = "all"
      BY <1>1, NoPageOwn DEF Mount, OwnTexts, Unmounted
    <2>2. Blank \in Notes /\ Nobody \in Mistakes \cup {Nobody} /\ "load" \in Kinds /\ "all" \in Filters
      BY DEF Notes, Kinds, Filters
    <2>3. HasFree(task) /\ Start("load", Nobody, Blank)
      BY <1>1 DEF Mount
    <2>4. QED
      BY <2>1, <2>2, <2>3, ClickOwn
  <1>2. CASE Unmount
    BY <1>2, CloseOwn DEF Unmount
  <1>3. QED
    BY <1>1, <1>2

LEMMA ReviewOwn == ReviewHolds /\ NotesInv /\ ReviewStep => NotesInv'
  BY ReviewUserOwn, ServeOwn, ReceiveOwn DEF ReviewStep, TaskStep

-----------------------------------------------------------------------------
(* A flag is not set without a call it is about. *)

InFlight(r) == r.pc \in {"posted", "answered"}
LoadCall(r) == InFlight(r) /\ r.kind = "load"
SaveCall(r) == InFlight(r) /\ r.kind \in Updates
DocumentCall(r, kind) == r.pc = "posted" /\ r.kind = kind
QuizCall(r) == r.pc = "posted" /\ r.kind \in Quizzes

LEMMA FlagsMeanCalls ==
    FlagsAreReleased <=>
      /\ review.loading => \E k \in Tasks : LoadCall(task[k])
      /\ "saving" \in review.busy => \E k \in Tasks : SaveCall(task[k])
      /\ \A kind \in {"plan", "export"} : kind \in review.busy => \E k \in Tasks : DocumentCall(task[k], kind)
      /\ quiz.isGenerating => \E k \in Tasks : QuizCall(task[k])
  BY DEF FlagsAreReleased, LoadCall, SaveCall, DocumentCall, QuizCall, InFlight

\* A step of one call: every flag that is set afterwards was set before, unless
\* the call now carries it; and the call carries what it carried, unless its
\* flag is cleared.
LEMMA OneCallKeeps ==
    ASSUME FlagsAreReleased, NEW k \in Tasks,
           \A j \in Tasks : j # k => task'[j] = task[j],
           \/ ~ review'.loading
           \/ LoadCall(task'[k])
           \/ review.loading /\ ~ LoadCall(task[k]),
           \/ "saving" \notin review'.busy
           \/ SaveCall(task'[k])
           \/ "saving" \in review.busy /\ ~ SaveCall(task[k]),
           \A kind \in {"plan", "export"} :
             \/ kind \notin review'.busy
             \/ DocumentCall(task'[k], kind)
             \/ kind \in review.busy /\ ~ DocumentCall(task[k], kind),
           \/ ~ quiz'.isGenerating
           \/ QuizCall(task'[k])
           \/ quiz.isGenerating /\ ~ QuizCall(task[k])
    PROVE  FlagsAreReleased'
  <1>1. /\ review.loading => \E j \in Tasks : LoadCall(task[j])
        /\ "saving" \in review.busy => \E j \in Tasks : SaveCall(task[j])
        /\ \A kind \in {"plan", "export"} : kind \in review.busy => \E j \in Tasks : DocumentCall(task[j], kind)
        /\ quiz.isGenerating => \E j \in Tasks : QuizCall(task[j])
    BY FlagsMeanCalls
  <1>2. review'.loading => \E j \in Tasks : LoadCall(task'[j])
    BY <1>1
  <1>3. "saving" \in review'.busy => \E j \in Tasks : SaveCall(task'[j])
    BY <1>1
  <1>4. \A kind \in {"plan", "export"} : kind \in review'.busy => \E j \in Tasks : DocumentCall(task'[j], kind)
    BY <1>1
  <1>5. quiz'.isGenerating => \E j \in Tasks : QuizCall(task'[j])
    BY <1>1
  <1>6. QED
    BY <1>2, <1>3, <1>4, <1>5
    DEF FlagsAreReleased, LoadCall, SaveCall, DocumentCall, QuizCall, InFlight

\* A click that starts a call, which may set the flag of that call.
LEMMA ClickFlags ==
    ASSUME ReviewHolds, FlagsAreReleased, HasFree(task), review'.filter \in Filters,
           NEW kind \in Kinds, NEW m \in Mistakes \cup {Nobody}, NEW text \in Notes,
           Start(kind, m, text),
           review'.loading => review.loading \/ kind = "load",
           "saving" \in review'.busy => "saving" \in review.busy \/ kind \in Updates,
           \A f \in {"plan", "export"} : f \in review'.busy => f \in review.busy \/ kind = f,
           quiz' = quiz
    PROVE  FlagsAreReleased'
  <1> DEFINE k == FreeSlot(task)
  <1>1. /\ k \in Tasks /\ task[k].pc = "free"
        /\ \A j \in Tasks : j # k => task'[j] = task[j]
        /\ task'[k].pc = "posted" /\ task'[k].kind = kind
    BY StartTyped DEF ReviewHolds
  <1>2. ~ LoadCall(task[k]) /\ ~ SaveCall(task[k]) /\ ~ QuizCall(task[k])
        /\ \A f \in {"plan", "export"} : ~ DocumentCall(task[k], f)
    BY <1>1 DEF LoadCall, SaveCall, QuizCall, DocumentCall, InFlight
  <1>3. /\ kind = "load" => LoadCall(task'[k])
        /\ kind \in Updates => SaveCall(task'[k])
        /\ \A f \in {"plan", "export"} : kind = f => DocumentCall(task'[k], f)
    BY <1>1 DEF LoadCall, SaveCall, DocumentCall, InFlight
  <1> HIDE DEF k
  <1>4. /\ \/ ~ review'.loading
           \/ LoadCall(task'[k])
           \/ review.loading /\ ~ LoadCall(task[k])
        /\ \/ "saving" \notin review'.busy
           \/ SaveCall(task'[k])
           \/ "saving" \in review.busy /\ ~ SaveCall(task[k])
        /\ \/ ~ quiz'.isGenerating
           \/ QuizCall(task'[k])
           \/ quiz.isGenerating /\ ~ QuizCall(task[k])
    BY <1>2, <1>3
  <1>5. \A f \in {"plan", "export"} :
             \/ f \notin review'.busy
             \/ DocumentCall(task'[k], f)
             \/ f \in review.busy /\ ~ DocumentCall(task[k], f)
    BY <1>2, <1>3
  <1>6. QED
    BY <1>1, <1>4, <1>5, OneCallKeeps

\* A step that leaves the calls and the flags.
LEMMA QuietFlags ==
    ASSUME FlagsAreReleased, task' = task, quiz'.isGenerating = quiz.isGenerating,
           review'.loading = review.loading, review'.busy = review.busy
    PROVE  FlagsAreReleased'
  BY DEF FlagsAreReleased

\* The workbench is closed: only the flag of the quizzes is left, and their
\* calls go on.
LEMMA CloseFlags ==
    ASSUME ReviewHolds, review' = Unmounted, \/ quiz' = quiz /\ FlagsAreReleased
                                             \/ \E k \in Tasks : QuizCall(task'[k]),
           \A k \in Tasks : \/ task'[k] = Orphaned(k)
                            \/ QuizCall(task'[k])
    PROVE  FlagsAreReleased'
  <1>1. ~ review'.loading /\ review'.busy = {}
    BY DEF Unmounted
  <1>2. \A k \in Tasks : QuizCall(task[k]) => QuizCall(task'[k])
    BY DEF QuizCall, Orphaned, Updates, Quizzes
  <1>3. quiz'.isGenerating => \E k \in Tasks : QuizCall(task'[k])
    BY <1>2, FlagsMeanCalls
  <1>4. QED
    BY <1>1, <1>3 DEF FlagsAreReleased, QuizCall

LEMMA DailyFlags ==
    ASSUME NEW w \in Workbench
    PROVE  /\ CloseDaily(w).loading = w.loading /\ CloseDaily(w).busy = w.busy
           /\ goNext(w).loading = w.loading /\ goNext(w).busy = w.busy
  <1>1. CloseDaily(w).loading = w.loading /\ CloseDaily(w).busy = w.busy
    BY DEF CloseDaily, Workbench
  <1> DEFINE i == w.index + 1
             v == [w EXCEPT !.index = i, !.dailyNote = Blank]
  <1>2. goNext(w) \in {CloseDaily(w), v}
    BY DEF goNext
  <1> HIDE DEF i
  <1>3. v.loading = w.loading /\ v.busy = w.busy
    BY DEF Workbench
  <1>4. QED
    BY <1>1, <1>2, <1>3

LEMMA ReviewUserFlags ==
    ASSUME ReviewHolds, FlagsAreReleased, ReviewUserStep
    PROVE  FlagsAreReleased'
  <1>1. review \in Workbench
    BY DEF ReviewHolds, ReviewTypeOK
  <1>2. Blank \in Notes /\ Nobody \in Mistakes \cup {Nobody} /\ review.note \in Notes
        /\ review.selected \in Mistakes \cup {Nobody}
    BY <1>1 DEF Notes, Workbench
  <1>3. CASE Refresh \/ \E f \in Filters : SetFilter(f)
    <2>1. review'.filter \in Filters /\ review'.busy = review.busy
      BY <1>1, <1>3 DEF Refresh, SetFilter, Workbench
    <2>2. HasFree(task) /\ Start("load", Nobody, Blank) /\ quiz' = quiz
      BY <1>3 DEF Refresh, SetFilter, InReview, stores
    <2>3. "load" \in Kinds
      BY DEF Kinds
    <2>4. QED
      BY <1>2, <2>1, <2>2, <2>3, ClickFlags
  <1>4. ASSUME NEW m \in Mistakes, SelectMistake(m) PROVE FlagsAreReleased'
    <2> DEFINE w == [review EXCEPT !.selected = m]
    <2>1. w \in Workbench /\ w.loading = review.loading /\ w.busy = review.busy
      BY <1>1 DEF Workbench
    <2>2. review' = NoteEffect(w) /\ task' = task /\ quiz' = quiz
      BY <1>4 DEF SelectMistake, stores
    <2> HIDE DEF w
    <2>3. QED
      BY <2>1, <2>2, NoteEffectLeaves, QuietFlags
  <1>5. CASE TypeNote \/ TypeDailyNote \/ LeaveDaily
    <2>1. review'.loading = review.loading /\ review'.busy = review.busy
      BY <1>1, <1>5, DailyFlags DEF TypeNote, TypeDailyNote, LeaveDaily, Workbench
    <2>2. task' = task /\ quiz' = quiz
      BY <1>5 DEF TypeNote, TypeDailyNote, LeaveDaily, stores
    <2>3. QED
      BY <2>1, <2>2, QuietFlags
  <1>6. CASE SaveCorrection \/ ToggleMastered
    <2> DEFINE flags == review.busy \cup {"saving"}
    <2>1. review' = [review EXCEPT !.busy = flags]
      BY <1>6 DEF SaveCorrection, ToggleMastered
    <2> HIDE DEF flags
    <2>2. review'.filter \in Filters /\ review'.loading = review.loading /\ review'.busy = flags
      BY <1>1, <2>1 DEF Workbench
    <2>3. PICK kind \in Updates, text \in {review.note, Blank} : Start(kind, review.selected, text)
      BY <1>6 DEF SaveCorrection, ToggleMastered, Updates
    <2>4. kind \in Kinds /\ HasFree(task) /\ quiz' = quiz
      BY <1>6, <2>3 DEF SaveCorrection, ToggleMastered, InReview, stores, Kinds
    <2>5. text \in Notes
      BY <1>2, <2>3
    <2>6. \A f \in {"plan", "export"} : f \in review'.busy => f \in review.busy
      BY <2>2 DEF flags
    <2>7. QED
      BY <1>2, <2>2, <2>3, <2>4, <2>5, <2>6, ClickFlags
  <1>7. CASE StartExplain \/ StartDailyReview
    <2>1. review' = review /\ quiz' = quiz /\ HasFree(task) /\ review.filter \in Filters
      BY <1>1, <1>7 DEF StartExplain, StartDailyReview, InReview, stores, Workbench
    <2>2. PICK kind \in {"explain", "daily"}, m \in {review.selected, Nobody} : Start(kind, m, Blank)
      BY <1>7 DEF StartExplain, StartDailyReview
    <2>3. kind \in Kinds /\ m \in Mistakes \cup {Nobody}
      BY <1>2, <2>2 DEF Kinds
    <2>4. QED
      BY <1>2, <2>1, <2>2, <2>3, ClickFlags
  <1>8. CASE StartPlan \/ StartExport
    <2>1. PICK kind \in {"plan", "export"} : AskFor(kind)
      BY <1>8 DEF StartPlan, StartExport
    <2> DEFINE flags == review.busy \cup {kind}
    <2>2. review' = [review EXCEPT !.busy = flags]
      BY <2>1 DEF AskFor
    <2> HIDE DEF flags
    <2>3. review'.filter \in Filters /\ review'.loading = review.loading /\ review'.busy = flags
      BY <1>1, <2>2 DEF Workbench
    <2>4. HasFree(task) /\ Start(kind, Nobody, Blank) /\ quiz' = quiz /\ kind \in Kinds
      BY <2>1 DEF AskFor, InReview, stores, Kinds
    <2>5. /\ \A f \in {"plan", "export"} : f \in review'.busy => f \in review.busy \/ kind = f
          /\ "saving" \in review'.busy => "saving" \in review.busy
      BY <2>3 DEF flags
    <2>6. QED
      BY <1>2, <2>3, <2>4, <2>5, ClickFlags
  <1>9. CASE retestConcept \/ createSimilarQuiz
    <2>1. PICK kind \in Quizzes : StartQuiz(kind)
      BY <1>9 DEF retestConcept, createSimilarQuiz, Quizzes
    <2>2. FreeSlot(task) \in Tasks
      BY <2>1, FreeSlotIsFree DEF StartQuiz, InReview, ReviewHolds, ReviewTypeOK
    <2>3. \A k \in Tasks :
            task'[k] = IF k = FreeSlot(task)
                         THEN [NoTask EXCEPT !.pc = "posted", !.kind = kind,
                                             !.mistake = review.selected]
                         ELSE Orphaned(k)
      BY <2>1 DEF StartQuiz
    <2>4. QuizCall(task'[FreeSlot(task)])
      BY <2>2, <2>3 DEF QuizCall, NoTask
    <2>5. review' = Unmounted
      BY <2>1 DEF StartQuiz
    <2>6. \A k \in Tasks : task'[k] = Orphaned(k) \/ QuizCall(task'[k])
      BY <2>3, <2>4
    <2>7. QED
      BY <2>2, <2>4, <2>5, <2>6, CloseFlags
  <1>10. ASSUME NEW kind \in {"save", "master"}, DailyNext(kind) PROVE FlagsAreReleased'
    <2>1. CurrentDaily \in Mistakes /\ review.dailyNote \in Notes
      BY <1>1, <1>10, SessionTyped DEF DailyNext, InFlow, CurrentDaily, Workbench
    <2> DEFINE flags == review.busy \cup {"saving"}
               w == [review EXCEPT !.busy = flags]
               text == IF kind = "save" THEN review.dailyNote ELSE Blank
    <2>2. flags \in SUBSET {"saving", "plan", "export"}
      BY <1>1 DEF Workbench
    <2>3. \A f \in {"plan", "export"} : f \in flags => f \in review.busy
      OBVIOUS
    <2>4. review' = goNext(w) /\ HasFree(task) /\ Start(kind, CurrentDaily, text) /\ quiz' = quiz
      BY <1>10 DEF DailyNext, InReview, stores
    <2>5. text \in Notes
      BY <1>2, <2>1
    <2> HIDE DEF flags, text
    <2>6. w \in Workbench /\ w.loading = review.loading /\ w.busy = flags
      BY <1>1, <2>2 DEF Workbench
    <2> HIDE DEF w
    <2>7. review'.loading = review.loading /\ review'.busy = flags
      BY <2>4, <2>6, DailyFlags
    <2>8. review'.filter \in Filters
      BY <2>4, <2>6, GoNextTyped DEF Workbench
    <2>9. kind \in Kinds /\ kind \in Updates
      BY DEF Kinds, Updates
    <2>10. QED
      BY <2>1, <2>3, <2>4, <2>5, <2>7, <2>8, <2>9, ClickFlags
  <1>11. QED
    BY <1>3, <1>4, <1>5, <1>6, <1>7, <1>8, <1>9, <1>10 DEF ReviewUserStep

\* The backend answers: the calls that carry a flag stay in flight.
LEMMA ServeFlags ==
    ASSUME ReviewHolds, FlagsAreReleased, NEW k \in Tasks,
           ServeUpdate(k) \/ ServeLoad(k) \/ ServeDaily(k)
    PROVE  FlagsAreReleased'
  <1>1. task[k] \in Task /\ task \in [Tasks -> Task]
    BY DEF ReviewHolds, ReviewTypeOK
  <1>2. /\ \A j \in Tasks : j # k => task'[j] = task[j]
        /\ review' = review /\ quiz' = quiz
    BY <1>1 DEF ServeUpdate, ServeLoad, ServeDaily, stores
  <1>3. task[k].kind \in Updates \cup {"load", "daily"}
    BY DEF ServeUpdate, ServeLoad, ServeDaily
  <1>4. ~ QuizCall(task[k]) /\ \A f \in {"plan", "export"} : ~ DocumentCall(task[k], f)
    BY <1>3 DEF QuizCall, DocumentCall, Updates, Quizzes
  <1>5. LoadCall(task[k]) => LoadCall(task'[k])
    <2>1. LoadCall(task[k]) => ServeLoad(k)
      BY DEF LoadCall, ServeUpdate, ServeDaily, Updates
    <2>2. ServeLoad(k) => task'[k].pc = "answered" /\ task'[k].kind = "load"
      BY <1>1 DEF ServeLoad, Task
    <2>3. QED
      BY <2>1, <2>2 DEF LoadCall, InFlight
  <1>6. SaveCall(task[k]) => SaveCall(task'[k])
    <2>1. SaveCall(task[k]) => ServeUpdate(k) /\ task[k].pc # "orphan"
      BY DEF SaveCall, InFlight, ServeLoad, ServeDaily, Updates
    <2>2. ServeUpdate(k) /\ task[k].pc # "orphan" =>
            task'[k].pc = "answered" /\ task'[k].kind = task[k].kind
      BY <1>1 DEF ServeUpdate, Task
    <2>3. QED
      BY <2>1, <2>2 DEF SaveCall, InFlight
  <1>7. QED
    BY <1>2, <1>4, <1>5, <1>6, OneCallKeeps

\* A call comes back, or fails: what it carried is cleared with it.
LEMMA ReceiveFlags ==
    ASSUME ReviewHolds, FlagsAreReleased, quiz \in QuizStore, NEW k \in Tasks,
           \/ ReceiveUpdate(k) \/ ReceiveLoad(k) \/ ReceiveDaily(k)
           \/ ReceiveDocument(k) \/ ReceiveQuiz(k) \/ TaskFails(k)
    PROVE  FlagsAreReleased'
  <1>1. task[k] \in Task /\ task \in [Tasks -> Task] /\ review \in Workbench
    BY DEF ReviewHolds, ReviewTypeOK
  <1>2. \A j \in Tasks : j # k => task'[j] = task[j]
    BY <1>1 DEF Done, ReceiveUpdate, ReceiveLoad, ReceiveDaily, ReceiveDocument, ReceiveQuiz, TaskFails
  <1>3. SUFFICES
          /\ review'.loading => review.loading /\ ~ LoadCall(task[k])
          /\ "saving" \in review'.busy => "saving" \in review.busy /\ ~ SaveCall(task[k])
          /\ \A f \in {"plan", "export"} :
               f \in review'.busy => f \in review.busy /\ ~ DocumentCall(task[k], f)
          /\ quiz'.isGenerating => quiz.isGenerating /\ ~ QuizCall(task[k])
    BY <1>2, OneCallKeeps
  <1>4. CASE ReceiveUpdate(k)
    <2> DEFINE w == AfterUpdate(task[k])
    <2>1. /\ w \in Workbench
          /\ w.loading = review.loading /\ w.busy = review.busy \ {"saving"}
      BY <1>4, AfterUpdateTyped DEF ReceiveUpdate
    <2>2. review' = NoteEffect(w) /\ quiz' = quiz
      BY <1>4 DEF ReceiveUpdate, AfterUpdate, stores
    <2> HIDE DEF w
    <2>3. review'.loading = review.loading /\ review'.busy = review.busy \ {"saving"}
      BY <2>1, <2>2, NoteEffectLeaves
    <2>4. task[k].kind \in Updates
      BY <1>4 DEF ReceiveUpdate
    <2>5. QED
      BY <2>2, <2>3, <2>4 DEF LoadCall, DocumentCall, QuizCall, Updates, Quizzes
  <1>5. CASE ReceiveLoad(k)
    <2>1. PICK m \in SelectionAfter({n \in Mistakes : task[k].page[n] # Hidden}) :
            review' = NoteEffect(WithList(task[k], m))
      BY <1>5 DEF ReceiveLoad, WithList
    <2> DEFINE w == WithList(task[k], m)
    <2>2. w \in Workbench /\ ~ w.loading /\ w.busy = review.busy
      BY WithListTyped
    <2>3. review' = NoteEffect(w) /\ quiz' = quiz /\ task[k].kind = "load"
      BY <1>5, <2>1 DEF ReceiveLoad, stores
    <2> HIDE DEF w
    <2>4. ~ review'.loading /\ review'.busy = review.busy
      BY <2>2, <2>3, NoteEffectLeaves
    <2>5. QED
      BY <2>3, <2>4 DEF SaveCall, DocumentCall, QuizCall, Updates, Quizzes
  <1>6. CASE ReceiveDaily(k)
    <2>1. review'.loading = review.loading /\ review'.busy = review.busy
      BY <1>1, <1>6, DailyFlags DEF ReceiveDaily, Workbench
    <2>2. quiz' = quiz /\ task[k].kind = "daily"
      BY <1>6 DEF ReceiveDaily, stores
    <2>3. QED
      BY <2>1, <2>2 DEF LoadCall, SaveCall, DocumentCall, QuizCall, Updates, Quizzes
  <1>7. CASE ReceiveDocument(k)
    <2>1. review'.loading = review.loading /\ review'.busy = review.busy \ {task[k].kind}
      BY <1>1, <1>7 DEF ReceiveDocument, Workbench
    <2>2. quiz' = quiz /\ task[k].kind \in {"plan", "export", "explain"}
      BY <1>7 DEF ReceiveDocument, stores
    <2>3. QED
      BY <2>1, <2>2 DEF LoadCall, SaveCall, DocumentCall, QuizCall, Updates, Quizzes
  <1>8. CASE ReceiveQuiz(k)
    <2>1. review' = review /\ task[k].kind \in Quizzes
      BY <1>8 DEF ReceiveQuiz
    <2>2. ~ quiz'.isGenerating
      <3>1. \A n \in 0 .. MaxQuestions, f \in Families :
              ~ setGenerating(setQuestions(quiz, n, f), FALSE).isGenerating
        BY QuizUpdates DEF setGenerating, QuizStore
      <3>2. 1 \in 0 .. MaxQuestions
        BY StoresAssumption, SMT
      <3>3. QED
        BY <1>8, <3>1, <3>2 DEF ReceiveQuiz, Families
    <2>3. QED
      BY <2>1, <2>2 DEF LoadCall, SaveCall, DocumentCall, Updates, Quizzes
  <1>9. CASE TaskFails(k)
    <2>1. CASE task[k].pc = "orphan"
      <3>1. review' = review /\ (quiz' = quiz \/ quiz'.isGenerating = FALSE)
        BY <1>9, <2>1 DEF TaskFails, setGenerating, QuizStore
      <3>2. QED
        BY <2>1, <3>1 DEF LoadCall, SaveCall, DocumentCall, QuizCall, InFlight
    <2>2. CASE task[k].pc = "posted" /\ task[k].kind \in Quizzes
      <3>1. review' = review /\ quiz'.isGenerating = FALSE
        BY <1>9, <2>2 DEF TaskFails, setGenerating, QuizStore
      <3>2. QED
        BY <2>2, <3>1 DEF LoadCall, SaveCall, DocumentCall, Updates, Quizzes
    <2>3. CASE task[k].pc = "posted" /\ task[k].kind \notin Quizzes
      <3> DEFINE kind == task[k].kind
                 gone == IF kind \in Updates THEN {"saving"} ELSE {kind}
      <3>1. quiz' = quiz /\ review' = Cleared(kind)
        BY <1>9, <2>3 DEF TaskFails
      <3>2. /\ Cleared(kind).busy = review.busy \ gone
            /\ Cleared(kind).loading = IF kind = "load" THEN FALSE ELSE review.loading
        BY <1>1 DEF Cleared, Workbench
      <3>3. QED
        BY <2>3, <3>1, <3>2 DEF LoadCall, SaveCall, DocumentCall, QuizCall, Updates
    <2>4. QED
      BY <1>9, <2>1, <2>2, <2>3 DEF TaskFails
  <1>10. QED
    BY <1>4, <1>5, <1>6, <1>7, <1>8, <1>9

LEMMA MountFlags ==
    ASSUME ReviewHolds, FlagsAreReleased, Mount \/ Unmount,
           quiz'.isGenerating = quiz.isGenerating
    PROVE  FlagsAreReleased'
  <1>1. CASE Mount
    <2>1. review'.loading /\ review'.busy = {} /\ review'.filter = "all"
      BY <1>1 DEF Mount, Unmounted
    <2> DEFINE k == FreeSlot(task)
    <2>2. /\ k \in Tasks /\ task[k].pc = "free"
          /\ \A j \in Tasks : j # k => task'[j] = task[j]
          /\ task'[k].pc = "posted" /\ task'[k].kind = "load"
      BY <1>1, <2>1, StartTyped DEF Mount, ReviewHolds, Kinds, Notes, Filters
    <2> HIDE DEF k
    <2>3. LoadCall(task'[k]) /\ ~ QuizCall(task[k])
      BY <2>2 DEF LoadCall, QuizCall, InFlight
    <2>4. QED
      BY <2>1, <2>2, <2>3, OneCallKeeps
  <1>2. CASE Unmount
    <2>1. /\ ~ review'.loading /\ review'.busy = {}
          /\ \A k \in Tasks : task'[k] = Orphaned(k)
      BY <1>2 DEF Unmount, Unmounted
    <2>2. \A k \in Tasks : QuizCall(task[k]) => QuizCall(task'[k])
      BY <2>1 DEF QuizCall, Orphaned, Updates, Quizzes
    <2>3. QED
      BY <2>1, <2>2, FlagsMeanCalls DEF FlagsAreReleased, QuizCall
  <1>3. QED
    BY <1>1, <1>2

LEMMA ReviewFlags == ReviewHolds /\ quiz \in QuizStore /\ FlagsAreReleased /\ ReviewStep => FlagsAreReleased'
  BY ReviewUserFlags, ServeFlags, ReceiveFlags DEF ReviewStep, TaskStep

LEMMA ReviewInvStart == ReviewInit /\ StoresInit => ReviewInv
  <1>1. SUFFICES ASSUME ReviewInit, StoresInit PROVE ReviewInv
    OBVIOUS
  <1>2. NotesInv
    BY <1>1, NoPageOwn DEF ReviewInit, NotesInv
  <1>3. FlagsAreReleased
    BY <1>1 DEF ReviewInit, StoresInit, FlagsAreReleased, Unmounted
  <1>4. QED
    BY <1>2, <1>3 DEF ReviewInv
=============================================================================
