---------------------------- MODULE ReviewPanel ----------------------------
(***************************************************************************)
(* The review workbench: the filtered list of mistakes, the detail panel   *)
(* with its correction note, the daily review, and the quizzes made from   *)
(* mistakes.  The workbench exists in review mode only: what comes back    *)
(* after the mode was left is dropped, except what goes to a store.        *)
(***************************************************************************)
EXTENDS WorkspaceStores, Sequences

CONSTANTS
    Mistakes,
    Blank,          \* an empty correction note
    Nobody,         \* no mistake
    MaxTasks        \* bound on the calls of the workbench in flight

ASSUME ReviewAssumption ==
    /\ IsFiniteSet(Mistakes)
    /\ Blank \notin Mistakes /\ Nobody \notin Mistakes
    /\ Blank # Nobody

Tasks == 1 .. MaxTasks

VARIABLES
    book,       \* [Mistakes -> Row]: the mistakes the backend has
    review,     \* the state of ReviewWorkbench and its children
    task,       \* [Tasks -> Task]: its calls under way
    restarted   \* history: a daily review was replaced while it was open

reviewVars == <<book, review, task, restarted>>

ReviewStatuses == {"unreviewed", "corrected", "mastered"}
Filters == {"all", "unreviewed"}

\* A correction note is known by the mistake it was written for.
Notes == Mistakes \cup {Blank}
Row == [status : ReviewStatuses, note : Notes]
Hidden == [status |-> "unreviewed", note |-> Nobody]
Page == [Mistakes -> Row \cup {Hidden}]
NoPage == [m \in Mistakes |-> Hidden]
Sessions == UNION {[1 .. n -> Mistakes] : n \in 0 .. Cardinality(Mistakes)}

Workbench ==
    [mounted : BOOLEAN, page : Page, mastered : Nat, selected : Mistakes \cup {Nobody},
     filter : Filters, loading : BOOLEAN, busy : SUBSET {"saving", "plan", "export"},
     note : Notes, daily : Sessions, index : Nat, dailyNote : Notes]

Unmounted ==
    [mounted |-> FALSE, page |-> NoPage, mastered |-> 0, selected |-> Nobody, filter |-> "all",
     loading |-> FALSE, busy |-> {}, note |-> Blank, daily |-> <<>>, index |-> 0,
     dailyNote |-> Blank]

Updates == {"save", "master", "unmaster"}
Quizzes == {"similar", "retest"}
Kinds == {"load", "daily", "explain", "plan", "export"} \cup Updates \cup Quizzes

\* An update outlives the workbench as "orphan".
Task == [pc : {"free", "posted", "orphan", "answered"}, kind : Kinds,
         mistake : Mistakes \cup {Nobody}, note : Notes, filter : Filters, page : Page,
         mastered : Nat, daily : Sessions]
NoTask == [pc |-> "free", kind |-> "load", mistake |-> Nobody, note |-> Blank, filter |-> "all",
           page |-> NoPage, mastered |-> 0, daily |-> <<>>]

ReviewTypeOK ==
    /\ book \in [Mistakes -> Row]
    /\ review \in Workbench
    /\ task \in [Tasks -> Task]
    /\ restarted \in BOOLEAN

-----------------------------------------------------------------------------
(* What is shown. *)

Listed(w) == {m \in Mistakes : w.page[m] # Hidden}

correctionNote(w) == IF w.selected = Nobody THEN Blank ELSE w.page[w.selected].note

\* Mutant of NoteEffect: the effect depends on the stored note alone.
NoteEffectOnText(w) ==
    IF correctionNote(w) = correctionNote(review) THEN w
    ELSE [w EXCEPT !.note = correctionNote(w)]

\* The effect of MistakeDetailPanel: the text becomes the stored note when
\* another mistake is shown, or another note was stored for it.
NoteEffect(w) ==
    IF w.selected = review.selected /\ correctionNote(w) = correctionNote(review) THEN w
    ELSE [w EXCEPT !.note = correctionNote(w)]

Start(kind, m, text) ==
    task' = [task EXCEPT ![FreeSlot(task)] =
               [NoTask EXCEPT !.pc = "posted", !.kind = kind, !.mistake = m, !.note = text,
                              !.filter = review'.filter]]

stores == <<chat, quiz, panel>>

InReview == review.mounted /\ Click("review") /\ HasFree(task)

-----------------------------------------------------------------------------
(* The workbench. *)

\* Mounting it loads the list.
Mount ==
    /\ HasFree(task)
    /\ review' = [Unmounted EXCEPT !.mounted = TRUE, !.loading = TRUE]
    /\ Start("load", Nobody, Blank)

\* What is left of the calls when it is unmounted: updates and quizzes go on.
Orphaned(k) ==
    IF task[k].kind \in Updates /\ task[k].pc = "posted" THEN [task[k] EXCEPT !.pc = "orphan"]
    ELSE IF task[k].kind \in Quizzes \/ task[k].pc = "orphan" THEN task[k]
    ELSE NoTask

Unmount ==
    /\ review' = Unmounted
    /\ task' = [k \in Tasks |-> Orphaned(k)]

\* A filter is chosen: the list is loaded again, beside a load under way.
SetFilter(f) ==
    /\ InReview
    /\ review.filter # f
    /\ review' = [review EXCEPT !.filter = f, !.loading = TRUE]
    /\ Start("load", Nobody, Blank)
    /\ UNCHANGED <<stores, book, restarted>>

Refresh ==
    /\ InReview
    /\ ~ review.loading
    /\ review' = [review EXCEPT !.loading = TRUE]
    /\ Start("load", Nobody, Blank)
    /\ UNCHANGED <<stores, book, restarted>>

\* The list is a skeleton while it is loaded.
SelectMistake(m) ==
    /\ Click("review")
    /\ review.mounted /\ ~ review.loading
    /\ m \in Listed(review) \ {review.selected}
    /\ review' = NoteEffect([review EXCEPT !.selected = m])
    /\ UNCHANGED <<stores, book, task, restarted>>

TypeNote ==
    /\ Click("review")
    /\ review.mounted
    /\ review.selected # Nobody
    /\ review' = [review EXCEPT !.note = review.selected]
    /\ UNCHANGED <<stores, book, task, restarted>>

\* saveCorrection, from the detail panel.
SaveCorrection ==
    /\ InReview
    /\ review.selected # Nobody
    /\ "saving" \notin review.busy
    /\ review' = [review EXCEPT !.busy = @ \cup {"saving"}]
    /\ Start("save", review.selected, review.note)
    /\ UNCHANGED <<stores, book, restarted>>

\* markMastered and cancelMastered: only the save button minds a call under way.
ToggleMastered ==
    /\ InReview
    /\ review.selected # Nobody
    /\ review' = [review EXCEPT !.busy = @ \cup {"saving"}]
    /\ Start(IF review.page[review.selected].status = "mastered" THEN "unmaster" ELSE "master",
             review.selected, Blank)
    /\ UNCHANGED <<stores, book, restarted>>

\* explainMistake.
StartExplain ==
    /\ InReview
    /\ review.selected # Nobody
    /\ review' = review
    /\ Start("explain", review.selected, Blank)
    /\ UNCHANGED <<stores, book, restarted>>

\* A document is asked for; its button is disabled until it is there.
AskFor(kind) ==
    /\ InReview
    /\ kind \notin review.busy
    /\ review' = [review EXCEPT !.busy = @ \cup {kind}]
    /\ Start(kind, Nobody, Blank)
    /\ UNCHANGED <<stores, book, restarted>>

\* The study plan dialog.
StartPlan == AskFor("plan")

\* The export panel.
StartExport == AskFor("export")

\* The quiz card is opened before the call, which unmounts the workbench.
StartQuiz(kind) ==
    /\ InReview
    /\ Commit(setMode(chat, "quiz"), panel)
    /\ quiz' = setGenerating(quiz, TRUE)
    /\ review' = Unmounted
    /\ task' = [k \in Tasks |->
                  IF k = FreeSlot(task)
                    THEN [NoTask EXCEPT !.pc = "posted", !.kind = kind, !.mistake = review.selected]
                  ELSE Orphaned(k)]
    /\ UNCHANGED <<book, restarted>>

\* A new quiz on a concept: any of those listed.
retestConcept == StartQuiz("retest")

\* A quiz of one question, made from the mistake that is shown.
createSimilarQuiz == review.selected # Nobody /\ StartQuiz("similar")

-----------------------------------------------------------------------------
(* The daily review. *)

StartDailyReview ==
    /\ InReview
    /\ review' = review
    /\ Start("daily", Nobody, Blank)
    /\ UNCHANGED <<stores, book, restarted>>

InFlow == review.index + 1 \in DOMAIN review.daily

CurrentDaily == review.daily[review.index + 1]

CloseDaily(w) == [w EXCEPT !.daily = <<>>, !.index = 0, !.dailyNote = Blank]

\* goNext: the last mistake closes the review.
goNext(w) ==
    IF w.index + 1 >= Len(w.daily) THEN CloseDaily(w)
    ELSE [w EXCEPT !.index = @ + 1, !.dailyNote = Blank]

TypeDailyNote ==
    /\ Click("review")
    /\ InFlow
    /\ review' = [review EXCEPT !.dailyNote = CurrentDaily]
    /\ UNCHANGED <<stores, book, task, restarted>>

\* The correction is saved, or the mistake is mastered, and the next is shown.
DailyNext(kind) ==
    /\ InReview
    /\ InFlow
    /\ kind \in {"save", "master"}
    /\ review' = goNext([review EXCEPT !.busy = @ \cup {"saving"}])
    /\ Start(kind, CurrentDaily, IF kind = "save" THEN review.dailyNote ELSE Blank)
    /\ UNCHANGED <<stores, book, restarted>>

LeaveDaily ==
    /\ Click("review")
    /\ InFlow
    /\ review' = CloseDaily(review)
    /\ UNCHANGED <<stores, book, task, restarted>>

-----------------------------------------------------------------------------
(* The backend, and what comes back. *)

Matches(row, f) == f = "all" \/ row.status = f

MasteredRows == Cardinality({m \in Mistakes : book[m].status = "mastered"})

\* The row after an update: a corrected mistake keeps its note unless one is sent.
Updated(r, row) ==
    CASE r.kind = "save" -> [status |-> "corrected", note |-> r.note]
      [] r.kind = "master" -> [row EXCEPT !.status = "mastered"]
      [] r.kind = "unmaster" -> [row EXCEPT !.status = "corrected"]

ServeUpdate(k) ==
    LET r == task[k] IN
    /\ r.pc \in {"posted", "orphan"}
    /\ r.kind \in Updates
    /\ book' = [book EXCEPT ![r.mistake] = Updated(r, @)]
    /\ task' = [task EXCEPT ![k] =
                  IF r.pc = "orphan" THEN NoTask
                  ELSE [@ EXCEPT !.pc = "answered", !.page[r.mistake] = book'[r.mistake]]]
    /\ Settle
    /\ UNCHANGED <<stores, review, restarted>>

ServeLoad(k) ==
    /\ task[k].pc = "posted"
    /\ task[k].kind = "load"
    /\ task' = [task EXCEPT ![k].pc = "answered", ![k].mastered = MasteredRows,
                  ![k].page = [m \in Mistakes |->
                     IF Matches(book[m], task[k].filter) THEN book[m] ELSE Hidden]]
    /\ Settle
    /\ UNCHANGED <<stores, book, review, restarted>>

\* A session holds the mistakes that are not mastered, in an order of its own.
ServeDaily(k) ==
    /\ task[k].pc = "posted"
    /\ task[k].kind = "daily"
    /\ \E d \in Sessions :
         /\ {d[i] : i \in DOMAIN d} = {m \in Mistakes : book[m].status # "mastered"}
         /\ \A i, j \in DOMAIN d : d[i] = d[j] => i = j
         /\ task' = [task EXCEPT ![k].pc = "answered", ![k].daily = d]
    /\ Settle
    /\ UNCHANGED <<stores, book, review, restarted>>

Done(k) == task' = [task EXCEPT ![k] = NoTask]

\* Another update under way does not keep the flag.
ReceiveUpdate(k) ==
    LET r == task[k] IN
    /\ r.pc = "answered"
    /\ r.kind \in Updates
    /\ review' = NoteEffect(
         [review EXCEPT !.page[r.mistake] = IF @ = Hidden THEN @ ELSE r.page[r.mistake],
                        !.mastered = IF r.page[r.mistake].status = "mastered" THEN @ + 1 ELSE @,
                        !.busy = @ \ {"saving"}])
    /\ Done(k)
    /\ Settle
    /\ UNCHANGED <<stores, book, restarted>>

\* Mutant of SelectionAfter: a selection is never given up.
SelectionKept(listed) ==
    IF review.selected # Nobody THEN {review.selected}
    ELSE IF listed = {} THEN {Nobody} ELSE listed

\* The selection stays if it is listed, and is else the first of the list.
SelectionAfter(listed) ==
    IF review.selected \in listed THEN {review.selected}
    ELSE IF listed = {} THEN {Nobody} ELSE listed

\* The list is replaced, also by an answer to an older question.
ReceiveLoad(k) ==
    LET r == task[k] IN
    /\ r.pc = "answered"
    /\ r.kind = "load"
    /\ \E m \in SelectionAfter({n \in Mistakes : r.page[n] # Hidden}) :
         review' = NoteEffect([review EXCEPT !.page = r.page, !.mastered = r.mastered,
                                             !.selected = m, !.loading = FALSE])
    /\ Done(k)
    /\ Settle
    /\ UNCHANGED <<stores, book, restarted>>

\* A session replaces the one that is open without starting over.
ReceiveDaily(k) ==
    LET r == task[k] IN
    /\ r.pc = "answered"
    /\ r.kind = "daily"
    /\ review' = IF r.daily = <<>> THEN CloseDaily(review) ELSE [review EXCEPT !.daily = r.daily]
    /\ restarted' = (restarted \/ (review.daily # <<>> /\ r.daily # <<>>))
    /\ Done(k)
    /\ Settle
    /\ UNCHANGED <<stores, book>>

ReceiveDocument(k) ==
    /\ task[k].pc = "posted"
    /\ task[k].kind \in {"plan", "export", "explain"}
    /\ review' = [review EXCEPT !.busy = @ \ {task[k].kind}]
    /\ Done(k)
    /\ Settle
    /\ UNCHANGED <<stores, book, restarted>>

\* The quiz goes to the store, wherever the user is by now.
ReceiveQuiz(k) ==
    /\ task[k].pc = "posted"
    /\ task[k].kind \in Quizzes
    /\ \E n \in IF task[k].kind = "similar" THEN {1} ELSE 0 .. MaxQuestions :
         quiz' = setGenerating(
                   setQuestions(quiz, n, IF task[k].kind = "similar" THEN "similar" ELSE "q"),
                   FALSE)
    /\ Done(k)
    /\ Settle
    /\ UNCHANGED <<chat, panel, book, review, restarted>>

\* What a failed call leaves: its flag is cleared in every case.
Cleared(kind) ==
    [review EXCEPT !.loading = IF kind = "load" THEN FALSE ELSE @,
                   !.busy = @ \ (IF kind \in Updates THEN {"saving"} ELSE {kind})]

\* Mutant of TaskFails: setLoading(false) follows the awaits, outside finally.
TaskFailsHung(k) ==
    LET r == task[k] IN
    /\ Fault
    /\ r.pc \in {"posted", "orphan"}
    /\ review' = IF r.pc = "orphan" \/ r.kind \in Quizzes \/ r.kind = "load" THEN review
                 ELSE Cleared(r.kind)
    /\ quiz' = IF r.kind \in Quizzes THEN setGenerating(quiz, FALSE) ELSE quiz
    /\ Done(k)
    /\ UNCHANGED <<chat, panel, book, restarted>>

TaskFails(k) ==
    LET r == task[k] IN
    /\ Fault
    /\ r.pc \in {"posted", "orphan"}
    /\ review' = IF r.pc = "orphan" \/ r.kind \in Quizzes THEN review ELSE Cleared(r.kind)
    /\ quiz' = IF r.kind \in Quizzes THEN setGenerating(quiz, FALSE) ELSE quiz
    /\ Done(k)
    /\ UNCHANGED <<chat, panel, book, restarted>>

-----------------------------------------------------------------------------
ReviewInit ==
    /\ book = [m \in Mistakes |-> [status |-> "unreviewed", note |-> Blank]]
    /\ review = Unmounted
    /\ task = [k \in Tasks |-> NoTask]
    /\ restarted = FALSE

ReviewUserStep ==
    \/ \E f \in Filters : SetFilter(f)
    \/ Refresh
    \/ \E m \in Mistakes : SelectMistake(m)
    \/ TypeNote
    \/ SaveCorrection
    \/ ToggleMastered
    \/ StartExplain
    \/ StartPlan
    \/ StartExport
    \/ retestConcept
    \/ createSimilarQuiz
    \/ StartDailyReview
    \/ TypeDailyNote
    \/ \E kind \in {"save", "master"} : DailyNext(kind)
    \/ LeaveDaily

TaskStep(k) ==
    \/ ServeUpdate(k)
    \/ ServeLoad(k)
    \/ ServeDaily(k)
    \/ ReceiveUpdate(k)
    \/ ReceiveLoad(k)
    \/ ReceiveDaily(k)
    \/ ReceiveDocument(k)
    \/ ReceiveQuiz(k)

ReviewStep ==
    \/ ReviewUserStep
    \/ \E k \in Tasks : TaskStep(k) \/ TaskFails(k)
-----------------------------------------------------------------------------
(* What the workbench promises. *)

\* A correction stored for a mistake was written for that mistake, however the
\* selection moves while it is typed: by a click, by a list that comes back
\* without it, by an answer to an older call.  (A daily review that is started
\* again while it is open breaks this in the code.)
CorrectionsAreTheirOwn ==
    ~ restarted => \A m \in Mistakes : book[m].note \in {Blank, m}

\* No flag that disables a button or hides the list outlives the calls it is
\* about, whichever of several overlapping calls fails or is overtaken.
FlagsAreReleased ==
    /\ review.loading => \E k \in Tasks : task[k].pc \in {"posted", "answered"} /\ task[k].kind = "load"
    /\ "saving" \in review.busy =>
         \E k \in Tasks : task[k].pc \in {"posted", "answered"} /\ task[k].kind \in Updates
    /\ \A kind \in {"plan", "export"} \cap review.busy : \E k \in Tasks : task[k].kind = kind /\ task[k].pc = "posted"
    /\ quiz.isGenerating => \E k \in Tasks : task[k].pc = "posted" /\ task[k].kind \in Quizzes
=============================================================================
