----------------------------- MODULE QuizPanel -----------------------------
(***************************************************************************)
(* The quiz card: the user picks an option, submits it, and reads the      *)
(* grade, while the questions may be replaced by a chat answer or a        *)
(* retest.  A grade comes back to the store under the id of its question,  *)
(* and every generated quiz numbers its questions in the same way.         *)
(***************************************************************************)
EXTENDS WorkspaceStores

CONSTANT MaxSubmits     \* bound on the answers being graded

Submits == 1 .. MaxSubmits

VARIABLE
    submit      \* [Submits -> Submit]: answers being graded

Submit == [pc : {"free", "posted"}, family : Families, question : 0 .. MaxQuestions,
           letter : Letters \cup {NoLetter}]
NoSubmit == [pc |-> "free", family |-> "q", question |-> 0, letter |-> NoLetter]

QuizTypeOK == submit \in [Submits -> Submit]

\* The question on the card; the index counts from 0.
Current == quiz.currentIndex + 1

CardShown == chat.mode = "quiz" /\ quiz.count > 0

isSubmitted(q) == quiz.scores[q] # NoLetter

\* Whether an option of a graded question is marked as the wrong answer given.
MarkedAsChosen(q, letter) == isSubmitted(q) /\ quiz.answers[q] = letter

-----------------------------------------------------------------------------
answerQuestion(z, q, letter) == [z EXCEPT !.answers[q] = letter]

recordScore(z, q, letter) == [z EXCEPT !.scores[q] = letter]

\* The options stay enabled until the grade is there.
PickOption(letter) ==
    /\ Click("quiz")
    /\ CardShown
    /\ ~ isSubmitted(Current)
    /\ quiz' = answerQuestion(quiz, Current, letter)
    /\ UNCHANGED <<chat, panel, submit>>

\* handleSubmit, up to its await.  Nothing stops a second one.
SubmitAnswer ==
    /\ Click("quiz")
    /\ CardShown
    /\ HasFree(submit)
    /\ ~ isSubmitted(Current)
    /\ quiz.answers[Current] # NoLetter
    /\ submit' = [submit EXCEPT ![FreeSlot(submit)] =
                    [pc |-> "posted", family |-> quiz.family, question |-> Current,
                     letter |-> quiz.answers[Current]]]
    /\ UNCHANGED <<chat, quiz, panel>>

\* Mutant of ReceiveScore: the answer is not written again with its grade.
ReceiveScoreOnly(u) ==
    LET r == submit[u] IN
    /\ r.pc = "posted"
    /\ quiz' = IF r.family = quiz.family THEN recordScore(quiz, r.question, r.letter) ELSE quiz
    /\ submit' = [submit EXCEPT ![u] = NoSubmit]
    /\ Settle
    /\ UNCHANGED <<chat, panel>>

\* handleSubmit, after its await: the answer that was graded is written under
\* its id with the grade, whatever quiz is in the store now.  An id the quiz
\* does not use is never shown.
ReceiveScore(u) ==
    LET r == submit[u] IN
    /\ r.pc = "posted"
    /\ quiz' = IF r.family = quiz.family
                 THEN recordScore(answerQuestion(quiz, r.question, r.letter), r.question, r.letter)
                 ELSE quiz
    /\ submit' = [submit EXCEPT ![u] = NoSubmit]
    /\ Settle
    /\ UNCHANGED <<chat, panel>>

\* Grading fails: the answer can be submitted again.
SubmitFails(u) ==
    /\ Fault
    /\ submit[u].pc = "posted"
    /\ submit' = [submit EXCEPT ![u] = NoSubmit]
    /\ UNCHANGED <<chat, quiz, panel>>

nextQuestion ==
    /\ Click("quiz")
    /\ CardShown
    /\ Current # quiz.count
    /\ quiz' = [quiz EXCEPT !.currentIndex = IF @ + 1 < quiz.count THEN @ + 1 ELSE quiz.count - 1]
    /\ UNCHANGED <<chat, panel, submit>>

prevQuestion ==
    /\ Click("quiz")
    /\ CardShown
    /\ quiz.currentIndex # 0
    /\ quiz' = [quiz EXCEPT !.currentIndex = @ - 1]
    /\ UNCHANGED <<chat, panel, submit>>

-----------------------------------------------------------------------------
QuizInit == submit = [u \in Submits |-> NoSubmit]

QuizStep ==
    \/ \E letter \in Letters : PickOption(letter)
    \/ SubmitAnswer
    \/ nextQuestion
    \/ prevQuestion
    \/ \E u \in Submits : ReceiveScore(u) \/ SubmitFails(u)
-----------------------------------------------------------------------------
(* What the quiz card promises. *)

\* The card never stands on a question the quiz does not have, also when a
\* shorter quiz replaces the one the user was in the middle of.
IndexInRange == quiz.count > 0 => quiz.currentIndex < quiz.count

\* The answer marked on a graded question is the one that was graded, also
\* when the user picked another one, or submitted twice, before the grade came.
AnswerMatchesScore ==
    \A q \in Questions, letter \in Letters :
        MarkedAsChosen(q, letter) => quiz.scores[q] = letter
=============================================================================
