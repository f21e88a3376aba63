----------------------- MODULE WorkspaceStores_proofs -----------------------
(***************************************************************************)
(* What the stores of the workspace guarantee to whoever updates them: the *)
(* updates keep their types, a slot that is looked for is free, and every  *)
(* change that is committed leaves a scope of ready materials.             *)
(***************************************************************************)
EXTENDS WorkspaceStores, TLAPS

\* What a step of a part owes the stores.
StoresHold == StoresTypeOK /\ ScopeIsReady

LEMMA FreeSlotIsFree ==
    ASSUME NEW f, HasFree(f)
    PROVE  FreeSlot(f) \in DOMAIN f /\ f[FreeSlot(f)].pc = "free"
  BY DEF HasFree, FreeSlot

LEMMA BoundsTyped == Convs \subseteq Nat \ {0} /\ 1 \in Convs
  BY StoresAssumption, SMT DEF Convs

-----------------------------------------------------------------------------
(* The updates of the stores. *)

LEMMA ChatUpdates ==
    ASSUME NEW c \in ChatStore
    PROVE  /\ \A m \in Modes : setMode(c, m) \in ChatStore
           /\ \A i \in Convs \cup {NoConv} : setConversationId(c, i) \in ChatStore
           /\ \A v \in BOOLEAN : setStreaming(c, v) \in ChatStore
           /\ \A h \in Convs \cup {NoConv} : setMessages(c, h) \in ChatStore
           /\ \A s \in Sends : addMessage(c, s) \in ChatStore
           /\ \A n \in SUBSET Names : setMaterialScope(c, n) \in ChatStore
           /\ \A i \in Convs \cup {NoConv} : startNewConversation(c, i) \in ChatStore
  BY DEF ChatStore, setMode, setConversationId, setStreaming, setMessages, addMessage,
         setMaterialScope, startNewConversation, Modes

LEMMA NoLettersTyped == NoLetters \in [Questions -> Letters \cup {NoLetter}]
  BY DEF NoLetters

LEMMA QuizUpdates ==
    ASSUME NEW z \in QuizStore
    PROVE  /\ \A n \in 0 .. MaxQuestions, f \in Families : setQuestions(z, n, f) \in QuizStore
           /\ \A v \in BOOLEAN : setGenerating(z, v) \in QuizStore
  BY NoLettersTyped DEF QuizStore, setQuestions, setGenerating

-----------------------------------------------------------------------------
(* The effect that keeps the scope. *)

\* Whoever commits a chat store and a list, the effect leaves everything but
\* the scope, and a scope of ready materials.
LEMMA CommitHolds ==
    ASSUME NEW c \in ChatStore, NEW p \in Panel, Commit(c, p)
    PROVE  /\ chat' \in ChatStore /\ panel' \in Panel
           /\ ScopeIsReady'
           /\ chat'.conversationId = c.conversationId /\ chat'.base = c.base
           /\ chat'.bubbles = c.bubbles /\ chat'.mode = c.mode
           /\ chat'.isStreaming = c.isStreaming
  <1>1. CASE ScopeEffectRuns(p)
    <2>1. /\ chat' = [c EXCEPT !.materialScope = getNextReadyMaterialScope(p, c.materialScope)]
          /\ panel' = [p EXCEPT !.previousReadyNames = ReadyNames(p)]
      BY <1>1 DEF Commit, setMaterialScope
    <2>2. panel'.materials = p.materials
      BY <2>1 DEF Panel
    <2>3. ReadyNames(panel') = ReadyNames(p) /\ ReadyNames(p) \subseteq Names
      BY <2>2 DEF ReadyNames
    <2>4. getNextReadyMaterialScope(p, c.materialScope) \subseteq ReadyNames(p)
      BY DEF getNextReadyMaterialScope
    <2>5. chat' \in ChatStore /\ panel' \in Panel
      BY <2>1, <2>3, <2>4 DEF ChatStore, Panel
    <2>6. chat'.materialScope = getNextReadyMaterialScope(p, c.materialScope)
      BY <2>1 DEF ChatStore
    <2>7. QED
      BY <2>1, <2>3, <2>4, <2>5, <2>6 DEF ScopeIsReady, ChatStore
  <1>2. CASE ~ ScopeEffectRuns(p)
    BY <1>2 DEF Commit, ScopeIsReady
  <1>3. QED
    BY <1>1, <1>2

\* The bounds on clicks and faults keep their type.
LEMMA ClicksTyped ==
    ASSUME clicks \in [Areas -> Nat], faults \in Nat,
           \/ \E area \in Areas : Click(area)
           \/ Fault
           \/ Settle
    PROVE  clicks' \in [Areas -> Nat] /\ faults' \in Nat
  <1>1. ASSUME NEW area \in Areas, Click(area) PROVE clicks' \in [Areas -> Nat] /\ faults' \in Nat
    BY <1>1, SMT DEF Click
  <1>2. QED
    BY <1>1, SMT DEF Fault, Settle

LEMMA StoresStart == StoresInit => StoresTypeOK /\ ScopeIsReady
  <1>1. SUFFICES ASSUME StoresInit PROVE StoresTypeOK /\ ScopeIsReady
    OBVIOUS
  <1>2. chat \in ChatStore
    BY <1>1 DEF StoresInit, ChatStore, Modes
  <1>3. quiz \in QuizStore
    BY <1>1, NoLettersTyped, StoresAssumption, SMT DEF StoresInit, QuizStore, Families
  <1>4. panel \in Panel
    BY <1>1 DEF StoresInit, Panel, FileStatuses
  <1>5. clicks \in [Areas -> Nat] /\ faults \in Nat
    BY <1>1, ScenariosAssumption DEF StoresInit
  <1>6. ScopeIsReady
    BY <1>1 DEF StoresInit, ScopeIsReady
  <1>7. QED
    BY <1>2, <1>3, <1>4, <1>5, <1>6 DEF StoresTypeOK
=============================================================================
