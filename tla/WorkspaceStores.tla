-------------------------- MODULE WorkspaceStores --------------------------
(***************************************************************************)
(* What the parts of the workspace page share: the two zustand stores      *)
(* (chatStore and quizStore), the list of materials the page holds         *)
(* (useMaterials), and the effect by which the sidebar keeps the scope of  *)
(* materials in step with that list.                                       *)
(*                                                                         *)
(* JavaScript runs a handler, or a continuation, to its next await without *)
(* interruption, and React runs the effects of a change before the next    *)
(* event is handled.  So each is one step, together with the effects it    *)
(* causes.  A store update is an operator on the record of the store.      *)
(***************************************************************************)
EXTENDS Naturals, FiniteSets

CONSTANTS
    Names,          \* materials, by original_filename
    MaxConvs,       \* bound on the conversations ever created
    MaxSends,       \* bound on the questions whose bubbles are shown
    MaxQuestions,   \* bound on the questions of a quiz
    Letters,        \* options of a question
    Scenarios       \* bounds on the clicks and the faults, with what the backend has

ASSUME StoresAssumption ==
    /\ MaxConvs \in Nat \ {0}
    /\ MaxSends \in Nat \ {0}
    /\ MaxQuestions \in Nat \ {0}
    /\ IsFiniteSet(Names)

Convs == 1 .. MaxConvs
NoConv == 0
Sends == 1 .. MaxSends
NoSend == 0
Questions == 1 .. MaxQuestions

CONSTANT NoLetter
ASSUME LettersAssumption == NoLetter \notin Letters

Areas == {"chat", "files", "quiz", "review"}
Modes == {"ask", "quiz", "review"}
FileStatuses == {"absent", "pending", "processing", "ready", "failed"}
Families == {"q", "similar"}

\* What the user may do, the faults there may be, and what the backend has.
ASSUME ScenariosAssumption ==
    Scenarios \subseteq [clicks : [Areas -> Nat], faults : Nat, alive : SUBSET Convs,
                         files : [Names -> FileStatuses]]

VARIABLES
    chat,       \* chatStore
    quiz,       \* quizStore
    panel,      \* the materials of the page
    clicks,     \* [Areas -> Nat]: what the user may still do
    faults      \* requests that may still fail

storeVars == <<chat, quiz, panel, clicks, faults>>

\* messages is kept as the conversation whose history is shown, NoConv for an
\* empty one, and the questions whose bubbles follow it.
ChatStore ==
    [conversationId : Convs \cup {NoConv}, base : Convs \cup {NoConv},
     bubbles : SUBSET Sends, mode : Modes, isStreaming : BOOLEAN,
     materialScope : SUBSET Names]

\* Questions are known by their ids: "q-1", "q-2" ... in every generated quiz,
\* and an id of another family in a quiz made from a mistake.
QuizStore ==
    [count : 0 .. MaxQuestions, family : Families, currentIndex : Nat,
     answers : [Questions -> Letters \cup {NoLetter}],
     scores : [Questions -> Letters \cup {NoLetter}], isGenerating : BOOLEAN]

Panel ==
    [materials : [Names -> FileStatuses], loading : BOOLEAN, uploading : BOOLEAN,
     previousReadyNames : SUBSET Names]

StoresTypeOK ==
    /\ chat \in ChatStore
    /\ quiz \in QuizStore
    /\ panel \in Panel
    /\ clicks \in [Areas -> Nat]
    /\ faults \in Nat

-----------------------------------------------------------------------------
(* The updates of chatStore and quizStore. *)

setMode(c, m) == [c EXCEPT !.mode = m]

setConversationId(c, id) == [c EXCEPT !.conversationId = id]

setStreaming(c, v) == [c EXCEPT !.isStreaming = v]

\* The history of a conversation replaces everything shown; one without
\* messages leaves the list empty.
setMessages(c, history) == [c EXCEPT !.base = history, !.bubbles = {}]

\* A bubble is added, or replaced if it is shown already.
addMessage(c, s) == [c EXCEPT !.bubbles = @ \cup {s}]

setMaterialScope(c, scope) == [c EXCEPT !.materialScope = scope]

startNewConversation(c, id) ==
    [c EXCEPT !.conversationId = id, !.base = NoConv, !.bubbles = {},
              !.mode = "ask", !.isStreaming = FALSE, !.materialScope = {}]

NoLetters == [q \in Questions |-> NoLetter]

\* Mutant of setQuestions: the new quiz opens where the old one was left.
setQuestionsInPlace(z, n, family) ==
    [z EXCEPT !.count = n, !.family = family,
              !.answers = NoLetters, !.scores = NoLetters]

setQuestions(z, n, family) ==
    [z EXCEPT !.count = n, !.family = family, !.currentIndex = 0,
              !.answers = NoLetters, !.scores = NoLetters]

setGenerating(z, v) == [z EXCEPT !.isGenerating = v]

-----------------------------------------------------------------------------
(* The scope of materials. *)

ReadyNames(p) == {n \in Names : p.materials[n] = "ready"}

\* Mutant of getNextReadyMaterialScope: names that are not ready are kept.
keepAnyScope(p, scope) ==
    scope \cup (ReadyNames(p) \ p.previousReadyNames)

\* Names that are not ready are dropped, newly ready ones are added.  The
\* effect first runs on the empty list the page is mounted with, so the names
\* known before are never null once there is a list.
getNextReadyMaterialScope(p, scope) ==
    (scope \cap ReadyNames(p)) \cup (ReadyNames(p) \ p.previousReadyNames)

\* The sidebar waits for the first list.
ScopeEffectRuns(p) == ~ (p.loading /\ \A n \in Names : p.materials[n] = "absent")

\* The stores after the effects of a change to the chat store or the list.
Commit(c, p) ==
    IF ScopeEffectRuns(p)
      THEN /\ chat' = setMaterialScope(c, getNextReadyMaterialScope(p, c.materialScope))
           /\ panel' = [p EXCEPT !.previousReadyNames = ReadyNames(p)]
      ELSE /\ chat' = c
           /\ panel' = p

-----------------------------------------------------------------------------
(* Slots for what is in flight, and the bounds. *)

\* A free slot of a table of requests.
HasFree(f) == \E i \in DOMAIN f : f[i].pc = "free"
FreeSlot(f) == CHOOSE i \in DOMAIN f : f[i].pc = "free"

\* The user does something.
Click(area) ==
    /\ clicks[area] > 0
    /\ clicks' = [clicks EXCEPT ![area] = @ - 1]
    /\ UNCHANGED faults

\* A request fails.
Fault ==
    /\ faults > 0
    /\ faults' = faults - 1
    /\ UNCHANGED clicks

\* Neither: something in flight goes on.
Settle == UNCHANGED <<clicks, faults>>

\* The page is mounted with empty stores; its list of materials is asked for.
StoresInit ==
    /\ chat = [conversationId |-> NoConv, base |-> NoConv, bubbles |-> {}, mode |-> "ask",
               isStreaming |-> FALSE, materialScope |-> {}]
    /\ quiz = [count |-> 0, family |-> "q", currentIndex |-> 0, answers |-> NoLetters,
               scores |-> NoLetters, isGenerating |-> FALSE]
    /\ panel = [materials |-> [n \in Names |-> "absent"], loading |-> TRUE,
                uploading |-> FALSE, previousReadyNames |-> {}]
    /\ \E sc \in Scenarios : clicks = sc.clicks /\ faults = sc.faults
-----------------------------------------------------------------------------
\* Once a list is shown, every name a question is limited to is one of its
\* ready materials, whichever of the conversation handlers, the deletions and
\* the lists wrote the scope last, and from how old a render.
ScopeIsReady ==
    ScopeEffectRuns(panel) => chat.materialScope \subseteq ReadyNames(panel)
=============================================================================
