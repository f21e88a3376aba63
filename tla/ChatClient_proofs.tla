------------------------- MODULE ChatClient_proofs -------------------------
(***************************************************************************)
(* Proofs about the conversation side of the workspace, for every number   *)
(* of questions, conversations and handlers.                               *)
(*                                                                         *)
(* The argument: as long as no view was replaced under a stream, the only  *)
(* question that streams belongs to the conversation that is shown, and    *)
(* the input waits for it; a view is replaced as a whole, with a history   *)
(* that belongs to its conversation.                                       *)
(***************************************************************************)
EXTENDS ChatClient, WorkspaceStores_proofs, FiniteSetTheorems

\* What the stop button aborts is on its way.
InputRefRuns == inputRef # NoSend => inputRef \in Streams

\* One question streams at a time, and the input waits for it.
StreamsAreOne ==
    ~ crossed => /\ \A s, t \in Streams : s = t
                 /\ Streams # {} => chat.isStreaming

\* A question that streams belongs to the conversation that is shown; only the
\* first question of an empty view may have one the client has not heard of.
StreamsAreHere ==
    ~ crossed => \A s \in Streams :
        \/ send[s].conv = chat.conversationId
        \/ send[s].pc = "accepted" /\ chat.conversationId = NoConv

\* A history is that of the conversation it was asked for.
HistoriesMatch ==
    \A n \in Navs : nav[n].pc = "arrived" => nav[n].history \in {NoConv, nav[n].conv}

ChatInv ==
    /\ InputRefRuns
    /\ StreamsAreOne
    /\ StreamsAreHere
    /\ HistoriesMatch
    /\ InputComesBack
    /\ ViewIsOneConversation

ChatHolds == StoresHold /\ ChatTypeOK

-----------------------------------------------------------------------------
(* Type correctness. *)

LEMMA ChatRecordsTyped ==
    /\ NoQuestion \in Send
    /\ NoNav \in Nav
    /\ NoSend \notin Sends
    /\ NoConv \notin Convs
  BY StoresAssumption, SMT DEF NoQuestion, Send, SendSteps, NoNav, Nav, NavSteps, NoSend, Sends,
     NoConv, Convs

\* The conversations the backend may choose exist.
LEMMA ServerChoices ==
    ASSUME ChatTypeOK
    PROVE  /\ NextConv \subseteq Convs /\ ActiveConv \subseteq Convs
           /\ \A s \in Sends : AcceptedFor(s) \subseteq Convs
           /\ \A alive \in SUBSET Convs : ActiveOf(alive) \subseteq Convs \cup {NoConv}
           /\ \A c \in Convs : restoredMessages(c) \in {NoConv, c}
  BY DEF ChatTypeOK, Server, NextConv, ActiveConv, AcceptedFor, ActiveOf, restoredMessages

LEMMA SendUpdate ==
    ASSUME send \in [Sends -> Send], NEW s \in Sends, NEW r \in Send
    PROVE  [send EXCEPT ![s] = r] \in [Sends -> Send]
  OBVIOUS

LEMMA NavUpdate ==
    ASSUME nav \in [Navs -> Nav], NEW n \in Navs, NEW r \in Nav
    PROVE  [nav EXCEPT ![n] = r] \in [Navs -> Nav]
  OBVIOUS

LEMMA ForgetTyped ==
    ASSUME NEW f \in [Sends -> Send], NEW c
    PROVE  Forget(f, c) \in [Sends -> Send]
  BY ChatRecordsTyped DEF Forget

LEMMA HeardTyped ==
    ASSUME ChatTypeOK, NEW s \in Sends
    PROVE  /\ Heard(s) \in Convs \cup {NoConv}
           /\ Over(s) \in [Sends -> Send]
  <1>1. send[s] \in Send
    BY DEF ChatTypeOK
  <1>2. Heard(s) \in Convs \cup {NoConv}
    BY <1>1 DEF Heard, Send
  <1>3. [NoQuestion EXCEPT !.pc = "ended", !.conv = Heard(s)] \in Send
    BY <1>2, ChatRecordsTyped DEF Send, SendSteps
  <1>4. QED
    BY <1>2, <1>3, SendUpdate DEF Over, ChatTypeOK

\* What a step that commits a chat store keeps of the stores.
LEMMA CommitKeepsStores ==
    ASSUME StoresHold, NEW c \in ChatStore, Commit(c, panel), quiz' \in QuizStore,
           Click("chat") \/ Fault \/ Settle
    PROVE  StoresHold'
  BY CommitHolds, ClicksTyped DEF StoresHold, StoresTypeOK, Areas

LEMMA QuietKeepsStores ==
    ASSUME StoresHold, UNCHANGED <<chat, quiz, panel>>,
           Click("chat") \/ Fault \/ Settle
    PROVE  StoresHold'
  BY ClicksTyped DEF StoresHold, StoresTypeOK, Areas, ScopeIsReady, ScopeEffectRuns, ReadyNames

LEMMA SendMessageTyped ==
    ASSUME ChatHolds, HasFree(send), sendMessage(FreeSlot(send)), Click("chat"),
           inputRef' \in Sends \cup {NoSend}
    PROVE  ChatHolds'
  <1> DEFINE s == FreeSlot(send)
  <1>1. s \in Sends /\ send[s].pc = "free"
    BY FreeSlotIsFree DEF ChatHolds, ChatTypeOK
  <1>2. chat \in ChatStore
    BY DEF ChatHolds, StoresHold, StoresTypeOK
  <1>3. setStreaming(addMessage(chat, s), TRUE) \in ChatStore
    BY <1>1, <1>2, ChatUpdates
  <1>4. [NoQuestion EXCEPT !.pc = "posted", !.conv = chat.conversationId,
                           !.scope = chat.materialScope] \in Send
    BY <1>2, ChatRecordsTyped DEF ChatStore, Send, SendSteps
  <1>5. send' \in [Sends -> Send]
    BY <1>1, <1>4, SendUpdate DEF sendMessage, ChatHolds, ChatTypeOK
  <1>6. StoresHold'
    BY <1>3, CommitKeepsStores DEF sendMessage, ChatHolds, StoresHold, StoresTypeOK
  <1>7. QED
    BY <1>5, <1>6 DEF sendMessage, ChatHolds, ChatTypeOK

LEMMA FinallyTyped ==
    ASSUME ChatHolds, NEW s \in Sends, NEW c \in ChatStore, Finally(s, c),
           Click("chat") \/ Fault \/ Settle
    PROVE  ChatHolds'
  <1>1. setStreaming(c, FALSE) \in ChatStore
    BY ChatUpdates
  <1>2. StoresHold'
    BY <1>1, CommitKeepsStores DEF Finally, ChatHolds, StoresHold, StoresTypeOK
  <1>3. send' \in [Sends -> Send]
    BY HeardTyped, ForgetTyped DEF Finally, ChatHolds
  <1>4. QED
    BY <1>2, <1>3 DEF Finally, ChatHolds, ChatTypeOK

\* The steps of a question on its way.
LEMMA StreamTyped ==
    ASSUME ChatHolds, NEW s \in Sends, StreamStep(s) \/ DenyQuestion(s)
    PROVE  ChatHolds'
  <1>1. send[s] \in Send /\ send \in [Sends -> Send] /\ server \in Server
    BY DEF ChatHolds, ChatTypeOK
  <1>2. chat \in ChatStore /\ quiz \in QuizStore
    BY DEF ChatHolds, StoresHold, StoresTypeOK
  <1>3. addMessage(chat, s) \in ChatStore
    BY <1>2, ChatUpdates
  <1>4. CASE AcceptQuestion(s)
    <2>1. PICK c \in AcceptedFor(s) :
            /\ send' = [send EXCEPT ![s] = [send[s] EXCEPT !.pc = "accepted", !.conv = c,
                                                           !.retried = FALSE]]
            /\ server' = [server EXCEPT !.alive = @ \cup {c}, !.created = @ \cup {c},
                                        !.active = IF @ = NoConv THEN c ELSE @]
      BY <1>1, <1>4 DEF AcceptQuestion
    <2>2. c \in Convs
      BY ServerChoices DEF ChatHolds
    <2>3. [send[s] EXCEPT !.pc = "accepted", !.conv = c, !.retried = FALSE] \in Send
      BY <1>1, <2>2 DEF Send, SendSteps
    <2>4. server' \in Server
      BY <1>1, <2>1, <2>2 DEF Server
    <2>5. QED
      BY <1>4, <2>1, <2>3, <2>4, QuietKeepsStores DEF AcceptQuestion, ChatHolds, ChatTypeOK
  <1>5. CASE save_message(s)
    <2>1. send[s].saves \in {0, 1} /\ send[s].conv \in server.alive
      BY <1>5 DEF save_message
    <2>2. [send[s] EXCEPT !.saves = @ + 1] \in Send
      BY <1>1, <2>1 DEF Send
    <2>3. send' = [send EXCEPT ![s] = [send[s] EXCEPT !.saves = @ + 1]]
      BY <1>1, <1>5 DEF save_message
    <2>4. send[s].conv \in Convs /\ send[s].scope \in SUBSET Names
      BY <1>1, <2>1 DEF Send, Server
    <2>5. server' \in Server
      BY <1>1, <1>5, <2>4 DEF save_message, Server
    <2>6. QED
      BY <1>5, <2>2, <2>3, <2>5, QuietKeepsStores DEF save_message, ChatHolds, ChatTypeOK
  <1>6. CASE Reconnect(s)
    <2>1. [send[s] EXCEPT !.pc = "posted"] \in Send
      BY <1>1 DEF Send, SendSteps
    <2>2. QED
      BY <1>1, <1>6, <2>1, QuietKeepsStores DEF Reconnect, ChatHolds, ChatTypeOK
  <1>7. CASE ConversationEvent(s)
    <2>1. [send[s] EXCEPT !.pc = "streaming"] \in Send
      BY <1>1 DEF Send, SendSteps
    <2>2. setConversationId(chat, send[s].conv) \in ChatStore
      BY <1>1, <1>2, ChatUpdates DEF Send
    <2>3. StoresHold'
      BY <1>2, <1>7, <2>2, CommitKeepsStores DEF ConversationEvent, ChatHolds
    <2>4. QED
      BY <1>1, <1>7, <2>1, <2>3 DEF ConversationEvent, ChatHolds, ChatTypeOK
  <1>8. CASE TokenEvent(s)
    <2>1. StoresHold'
      BY <1>2, <1>3, <1>8, CommitKeepsStores DEF TokenEvent, ChatHolds
    <2>2. QED
      BY <1>8, <2>1 DEF TokenEvent, ChatHolds, ChatTypeOK
  <1>9. CASE DoneEvent(s)
    <2>1. [send[s] EXCEPT !.pc = "answered"] \in Send
      BY <1>1 DEF Send, SendSteps
    <2>2. \A n \in Questions : setQuestions(quiz, n, "q") \in QuizStore
      BY <1>2, QuizUpdates, StoresAssumption, SMT DEF Questions, Families
    <2>3. setMode(addMessage(chat, s), "quiz") \in ChatStore
      BY <1>3, ChatUpdates DEF Modes
    <2>4. StoresHold'
      BY <1>2, <1>3, <1>9, <2>2, <2>3, CommitKeepsStores DEF DoneEvent, ChatHolds
    <2>5. QED
      BY <1>1, <1>9, <2>1, <2>4 DEF DoneEvent, ChatHolds, ChatTypeOK
  <1>10. CASE CloseStream(s)
    BY <1>2, <1>10, FinallyTyped DEF CloseStream
  <1>11. CASE StreamFails(s)
    BY <1>3, <1>11, FinallyTyped DEF StreamFails
  <1>12. CASE DenyQuestion(s)
    <2>1. [send[s] EXCEPT !.pc = "denied", !.retried = TRUE] \in Send
      BY <1>1 DEF Send, SendSteps
    <2>2. send' = [send EXCEPT ![s] = [send[s] EXCEPT !.pc = "denied", !.retried = TRUE]]
      BY <1>1, <1>12 DEF DenyQuestion
    <2>3. QED
      BY <1>1, <1>12, <2>1, <2>2, QuietKeepsStores DEF DenyQuestion, ChatHolds, ChatTypeOK
  <1>13. QED
    BY <1>4, <1>5, <1>6, <1>7, <1>8, <1>9, <1>10, <1>11, <1>12 DEF StreamStep

LEMMA BeginTyped ==
    ASSUME ChatHolds, HasFree(nav), NEW c \in Convs \cup {NoConv},
           NEW step \in {"history", "deleting", "creating"}, Begin(FreeSlot(nav), step, c)
    PROVE  nav' \in [Navs -> Nav]
  <1>1. FreeSlot(nav) \in Navs
    BY FreeSlotIsFree DEF ChatHolds, ChatTypeOK
  <1>2. chat.conversationId \in Convs \cup {NoConv}
    BY DEF ChatHolds, StoresHold, StoresTypeOK, ChatStore
  <1>3. [NoNav EXCEPT !.pc = step, !.conv = c, !.closure = chat.conversationId] \in Nav
    BY <1>2, ChatRecordsTyped DEF Nav, NavSteps
  <1>4. QED
    BY <1>1, <1>3, NavUpdate DEF Begin, ChatHolds, ChatTypeOK

\* A replaced view.
LEMMA ReplaceTyped ==
    ASSUME ChatHolds, NEW c \in ChatStore, Replace(c), quiz' = quiz, Settle
    PROVE  StoresHold' /\ send' \in [Sends -> Send] /\ crossed' \in BOOLEAN
  <1>1. StoresHold'
    BY CommitKeepsStores DEF Replace, ChatHolds, StoresHold, StoresTypeOK
  <1>2. QED
    BY <1>1, ForgetTyped DEF Replace, ChatHolds, ChatTypeOK

\* The steps of a conversation handler.
LEMMA NavTyped ==
    ASSUME ChatHolds, NEW n \in Navs, NavStep(n) \/ NavFails(n)
    PROVE  ChatHolds'
  <1>1. nav[n] \in Nav /\ nav \in [Navs -> Nav] /\ server \in Server
    BY DEF ChatHolds, ChatTypeOK
  <1>2. chat \in ChatStore
    BY DEF ChatHolds, StoresHold, StoresTypeOK
  <1>3. [nav EXCEPT ![n] = NoNav] \in [Navs -> Nav]
    BY <1>1, ChatRecordsTyped
  <1>4. CASE ServeActive(n)
    <2>1. PICK c \in ActiveConv :
            /\ nav' = [nav EXCEPT ![n] = [nav[n] EXCEPT !.pc = "history", !.conv = c]]
            /\ server' = [server EXCEPT !.alive = @ \cup {c}, !.created = @ \cup {c}, !.active = c]
      BY <1>1, <1>4 DEF ServeActive
    <2>2. c \in Convs
      BY ServerChoices DEF ChatHolds
    <2>3. [nav[n] EXCEPT !.pc = "history", !.conv = c] \in Nav
      BY <1>1, <2>2 DEF Nav, NavSteps
    <2>4. server' \in Server
      BY <1>1, <2>1, <2>2 DEF Server
    <2>5. QED
      BY <1>1, <1>4, <2>1, <2>3, <2>4, QuietKeepsStores
      DEF ServeActive, navFrame, ChatHolds, ChatTypeOK
  <1>5. CASE ServeHistory(n)
    <2>1. nav[n].conv \in server.alive =>
            nav[n].conv \in Convs /\ server.scope[nav[n].conv] \in SUBSET Names
      BY <1>1 DEF Server
    <2>2. nav[n].conv \in server.alive => restoredMessages(nav[n].conv) \in Convs \cup {NoConv}
      BY <2>1, ServerChoices DEF ChatHolds
    <2>3. nav[n].conv \in server.alive =>
            [nav[n] EXCEPT !.pc = "arrived", !.scope = server.scope[nav[n].conv],
                           !.history = restoredMessages(nav[n].conv)] \in Nav
      BY <1>1, <2>1, <2>2 DEF Nav, NavSteps
    <2>4. nav' \in [Navs -> Nav]
      BY <1>1, <1>5, <2>3, ChatRecordsTyped DEF ServeHistory
    <2>5. QED
      BY <1>5, <2>4, QuietKeepsStores DEF ServeHistory, navFrame, ChatHolds, ChatTypeOK
  <1>6. CASE ShowConversation(n)
    <2> DEFINE r == nav[n]
               shown == setMaterialScope(setMessages(setConversationId(chat, r.conv), r.history),
                                         r.scope)
    <2>1. shown \in ChatStore
      BY <1>1, <1>2, ChatUpdates DEF Nav
    <2>2. setMode(shown, "ask") \in ChatStore
      BY <2>1, ChatUpdates DEF Modes
    <2> HIDE DEF shown
    <2>3. (IF r.kind = "load" THEN shown ELSE setMode(shown, "ask")) \in ChatStore
      BY <2>1, <2>2
    <2>4. Replace(IF r.kind = "load" THEN shown ELSE setMode(shown, "ask"))
      BY <1>6 DEF ShowConversation, shown
    <2>5. QED
      BY <1>3, <1>6, <2>3, <2>4, ReplaceTyped DEF ShowConversation, ChatHolds, ChatTypeOK
  <1>7. CASE ServeDelete(n)
    <2>1. ASSUME nav[n].conv \in server.alive PROVE server' \in Server
      <3>1. server.alive \ {nav[n].conv} \in SUBSET Convs
        BY <1>1 DEF Server
      <3>2. QED
        BY <1>1, <1>7, <2>1, <3>1, ServerChoices DEF ServeDelete, Server, ChatHolds
    <2>2. [nav[n] EXCEPT !.pc = "listing"] \in Nav
      BY <1>1 DEF Nav, NavSteps
    <2>3. server' \in Server /\ nav' \in [Navs -> Nav]
      BY <1>1, <1>3, <1>7, <2>1, <2>2 DEF ServeDelete
    <2>4. QED
      BY <1>7, <2>3, QuietKeepsStores DEF ServeDelete, navFrame, ChatHolds, ChatTypeOK
  <1>8. CASE ServeList(n)
    <2>1. /\ [nav[n] EXCEPT !.pc = "history", !.conv = server.active] \in Nav
          /\ [nav[n] EXCEPT !.pc = "creating"] \in Nav
      BY <1>1 DEF Nav, NavSteps, Server
    <2>2. nav' \in [Navs -> Nav]
      BY <1>1, <1>8, <2>1, ChatRecordsTyped DEF ServeList
    <2>3. QED
      BY <1>8, <2>2, QuietKeepsStores DEF ServeList, navFrame, ChatHolds, ChatTypeOK
  <1>9. CASE ServeCreate(n)
    <2>1. ASSUME NEW c \in NextConv
          PROVE  /\ [NoNav EXCEPT !.pc = "created", !.conv = c] \in Nav
                 /\ [server EXCEPT !.alive = @ \cup {c}, !.created = @ \cup {c}, !.active = c]
                      \in Server
      <3>1. c \in Convs
        BY <2>1, ServerChoices DEF ChatHolds
      <3>2. QED
        BY <1>1, <3>1, ChatRecordsTyped DEF Nav, NavSteps, Server
    <2>2. server' \in Server /\ nav' \in [Navs -> Nav]
      BY <1>1, <1>3, <1>9, <2>1 DEF ServeCreate
    <2>3. QED
      BY <1>9, <2>2, QuietKeepsStores DEF ServeCreate, navFrame, ChatHolds, ChatTypeOK
  <1>10. CASE StartConversation(n)
    <2>1. startNewConversation(chat, nav[n].conv) \in ChatStore
      BY <1>1, <1>2, ChatUpdates DEF Nav
    <2>2. QED
      BY <1>3, <1>10, <2>1, ReplaceTyped DEF StartConversation, ChatHolds, ChatTypeOK
  <1>11. CASE NavFails(n)
    BY <1>3, <1>11, QuietKeepsStores DEF NavFails, navFrame, ChatHolds, ChatTypeOK
  <1>12. QED
    BY <1>4, <1>5, <1>6, <1>7, <1>8, <1>9, <1>10, <1>11 DEF NavStep

\* What the user does.
LEMMA ChatUserTyped ==
    ASSUME ChatHolds, ChatUserStep, inputRef # NoSend => inputRef \in Streams
    PROVE  ChatHolds'
  <1>1. /\ send \in [Sends -> Send] /\ server \in Server /\ crossed \in BOOLEAN
        /\ inputRef \in Sends \cup {NoSend}
    BY DEF ChatHolds, ChatTypeOK
  <1>2. chat \in ChatStore /\ quiz \in QuizStore
    BY DEF ChatHolds, StoresHold, StoresTypeOK
  <1>3. HasFree(send) => FreeSlot(send) \in Sends
    BY <1>1, FreeSlotIsFree
  <1>4. CASE SubmitQuestion
    BY <1>3, <1>4, SendMessageTyped DEF SubmitQuestion
  <1>5. CASE QuickQuestion
    BY <1>1, <1>5, SendMessageTyped DEF QuickQuestion
  <1>6. CASE AbortClick
    <2>1. CASE send[inputRef].pc = "denied"
      BY <1>6, <2>1, QuietKeepsStores DEF AbortClick, ChatHolds, ChatTypeOK
    <2>2. CASE send[inputRef].pc # "denied"
      <3>1. inputRef \in Sends /\ Click("chat")
        BY <1>1, <1>6 DEF AbortClick
      <3>2. addMessage(chat, inputRef) \in ChatStore
        BY <1>2, <3>1, ChatUpdates
      <3>3. \E c \in ChatStore : Finally(inputRef, c)
        BY <1>2, <1>6, <2>2, <3>2 DEF AbortClick
      <3>4. QED
        BY <3>1, <3>3, FinallyTyped
    <2>3. QED
      BY <2>1, <2>2
  <1>7. CASE NewConversation
    <2>1. nav' \in [Navs -> Nav]
      BY <1>7, BeginTyped DEF NewConversation
    <2>2. QED
      BY <1>7, <2>1, QuietKeepsStores DEF NewConversation, ChatHolds, ChatTypeOK
  <1>8. ASSUME NEW c \in Convs, SwitchConversation(c) \/ DeleteConversation(c)
        PROVE  ChatHolds'
    <2>1. nav' \in [Navs -> Nav]
      BY <1>8, BeginTyped DEF SwitchConversation, DeleteConversation
    <2>2. QED
      BY <1>8, <2>1, QuietKeepsStores
      DEF SwitchConversation, DeleteConversation, ChatHolds, ChatTypeOK
  <1>9. QED
    BY <1>4, <1>5, <1>6, <1>7, <1>8 DEF ChatUserStep

LEMMA SwitchModeTyped ==
    ASSUME ChatHolds, NEW m \in Modes, SwitchMode(m)
    PROVE  ChatHolds'
  <1>1. setMode(chat, m) \in ChatStore /\ quiz \in QuizStore
    BY ChatUpdates DEF ChatHolds, StoresHold, StoresTypeOK
  <1>2. StoresHold'
    BY <1>1, CommitKeepsStores DEF SwitchMode, ChatHolds
  <1>3. QED
    BY <1>2 DEF SwitchMode, ChatHolds, ChatTypeOK

LEMMA ChatTyped ==
    ASSUME ChatHolds, inputRef # NoSend => inputRef \in Streams,
           ChatStep \/ \E m \in Modes : SwitchMode(m)
    PROVE  ChatHolds'
  BY ChatUserTyped, StreamTyped, NavTyped, SwitchModeTyped DEF ChatStep, ChatFaultStep

-----------------------------------------------------------------------------
(* One question streams, in the conversation that is shown. *)

\* A question is sent when none is on its way, but for a view that was
\* replaced under a stream.
LEMMA SendMessageKeeps ==
    ASSUME ChatHolds, ChatInv, HasFree(send), ~ chat.isStreaming, sendMessage(FreeSlot(send)),
           \/ inputRef' = FreeSlot(send)
           \/ inputRef' = inputRef
    PROVE  ChatInv'
  <1> DEFINE s == FreeSlot(send)
  <1>1. s \in Sends /\ send[s].pc = "free"
    BY FreeSlotIsFree DEF ChatHolds, ChatTypeOK
  <1>2. chat \in ChatStore
    BY DEF ChatHolds, StoresHold, StoresTypeOK
  <1>3. setStreaming(addMessage(chat, s), TRUE) \in ChatStore
    BY <1>1, <1>2, ChatUpdates
  <1>4. panel \in Panel
    BY DEF ChatHolds, StoresHold, StoresTypeOK
  <1>5. /\ chat'.conversationId = chat.conversationId /\ chat'.base = chat.base
        /\ chat'.bubbles = chat.bubbles \cup {s} /\ chat'.isStreaming
    BY <1>2, <1>3, <1>4, CommitHolds DEF sendMessage, setStreaming, addMessage, ChatStore
  <1>6. /\ send'[s].pc = "posted" /\ send'[s].conv = chat.conversationId
        /\ \A t \in Sends : t # s => send'[t] = send[t]
    BY <1>1 DEF sendMessage, NoQuestion, ChatHolds, ChatTypeOK
  <1>7. Streams' = Streams \cup {s}
    BY <1>1, <1>6 DEF Streams, Running
  <1>8. ~ crossed => Streams = {}
    BY DEF ChatInv, StreamsAreOne
  <1>9. crossed' = crossed /\ nav' = nav
    BY DEF sendMessage
  <1>10. InputRefRuns' /\ InputComesBack'
    BY <1>7 DEF ChatInv, InputRefRuns, InputComesBack
  <1>11. StreamsAreOne'
    BY <1>5, <1>7, <1>8, <1>9 DEF StreamsAreOne
  <1>12. StreamsAreHere'
    BY <1>5, <1>6, <1>7, <1>8, <1>9 DEF StreamsAreHere
  <1>13. HistoriesMatch'
    BY <1>9 DEF ChatInv, HistoriesMatch
  <1>14. ViewIsOneConversation'
    <2>1. \A t \in Sends : Heard(t)' = IF t = s THEN NoConv ELSE Heard(t)
      BY <1>6 DEF Heard
    <2>2. chat.bubbles \in SUBSET Sends
      BY <1>2 DEF ChatStore
    <2>3. QED
      BY <1>1, <1>5, <1>9, <2>1, <2>2 DEF ChatInv, ViewIsOneConversation
  <1>15. QED
    BY <1>10, <1>11, <1>12, <1>13, <1>14 DEF ChatInv

\* However a question ends, the input is free and what was heard stays.
LEMMA FinallyKeeps ==
    ASSUME ChatHolds, ChatInv, NEW s \in Streams, NEW c \in {chat, addMessage(chat, s)},
           Finally(s, c)
    PROVE  ChatInv'
  <1>1. s \in Sends /\ send \in [Sends -> Send] /\ send[s].pc \in Running
    BY DEF Streams, ChatHolds, ChatTypeOK
  <1>2. chat \in ChatStore /\ panel \in Panel
    BY DEF ChatHolds, StoresHold, StoresTypeOK
  <1>3. c \in ChatStore
    BY <1>1, <1>2, ChatUpdates
  <1>4. setStreaming(c, FALSE) \in ChatStore
    BY <1>3, ChatUpdates
  <1>5. /\ c.conversationId = chat.conversationId /\ c.base = chat.base
        /\ c.bubbles \subseteq chat.bubbles \cup {s}
    BY <1>2 DEF addMessage, ChatStore
  <1>6. /\ chat'.conversationId = chat.conversationId /\ chat'.base = chat.base
        /\ chat'.bubbles \subseteq chat.bubbles \cup {s} /\ ~ chat'.isStreaming
    BY <1>2, <1>3, <1>4, <1>5, CommitHolds DEF Finally, setStreaming, ChatStore
  <1>7. /\ Over(s)[s].pc = "ended" /\ Over(s)[s].conv = Heard(s)
        /\ \A t \in Sends : t # s => Over(s)[t] = send[t]
    BY <1>1 DEF Over, NoQuestion
  <1>8. \A t \in Sends : send'[t] \in {Over(s)[t], NoQuestion}
    BY DEF Finally, Forget
  <1>9. \A t \in Streams : t # s => send'[t] = send[t]
    BY <1>7 DEF Finally, Forget, Streams, Running
  <1>10. Streams' = Streams \ {s}
    <2>1. \A t \in Sends : send'[t].pc \in Running => t # s /\ send[t].pc \in Running
      BY <1>7, <1>8 DEF Running, NoQuestion
    <2>2. QED
      BY <1>9, <2>1 DEF Streams
  <1>11. crossed' = crossed /\ nav' = nav
    BY DEF Finally
  <1>12. InputRefRuns' /\ InputComesBack'
    BY <1>6, <1>10 DEF ChatInv, InputRefRuns, InputComesBack, Finally, NoSend
  <1>13. StreamsAreOne' /\ StreamsAreHere'
    BY <1>6, <1>9, <1>10, <1>11 DEF ChatInv, StreamsAreOne, StreamsAreHere
  <1>14. HistoriesMatch'
    BY <1>11 DEF ChatInv, HistoriesMatch
  <1>15. ViewIsOneConversation'
    <2>1. \A t \in Sends : Heard(t)' \in {Heard(t), NoConv}
      <3>1. Heard(s)' \in {Heard(s), NoConv}
        BY <1>1, <1>7, <1>8 DEF Heard, NoQuestion
      <3>2. QED
        BY <1>7, <1>8, <3>1 DEF Heard, NoQuestion
    <2>2. ~ crossed => Heard(s) \in {NoConv, chat.conversationId}
      BY DEF Heard, ChatInv, StreamsAreHere
    <2>3. chat.bubbles \in SUBSET Sends
      BY <1>2 DEF ChatStore
    <2>4. QED
      BY <1>1, <1>6, <1>11, <2>1, <2>2, <2>3 DEF ChatInv, ViewIsOneConversation
  <1>16. QED
    BY <1>12, <1>13, <1>14, <1>15 DEF ChatInv

\* The view is replaced as a whole: with no question on its way it is that of
\* one conversation, and with one the properties are given up.
LEMMA ReplaceKeeps ==
    ASSUME ChatHolds, ChatInv, NEW c \in ChatStore, Replace(c), inputRef' = inputRef,
           c.bubbles = {}, c.base \in {NoConv, c.conversationId},
           ~ c.isStreaming \/ c.isStreaming = chat.isStreaming,
           HistoriesMatch'
    PROVE  ChatInv'
  <1>1. panel \in Panel /\ chat \in ChatStore
    BY DEF ChatHolds, StoresHold, StoresTypeOK
  <1>2. /\ chat'.conversationId = c.conversationId /\ chat'.base = c.base
        /\ chat'.bubbles = {} /\ chat'.isStreaming = c.isStreaming
    BY <1>1, CommitHolds DEF Replace
  <1>3. \A t \in Sends : send[t].pc \in Running => send'[t] = send[t]
    BY DEF Replace, Forget, Running
  <1>4. \A t \in Sends : send'[t] \in {send[t], NoQuestion}
    BY DEF Replace, Forget, ChatHolds, ChatTypeOK
  <1>5. Streams' = Streams
    BY <1>3, <1>4 DEF Streams, Running, NoQuestion
  <1>6. crossed' = (Streams # {})
    BY DEF Replace
  <1>7. InputRefRuns' /\ InputComesBack'
    BY <1>2, <1>5 DEF ChatInv, InputRefRuns, InputComesBack
  <1>8. StreamsAreOne' /\ StreamsAreHere'
    BY <1>5, <1>6 DEF StreamsAreOne, StreamsAreHere
  <1>9. ViewIsOneConversation'
    BY <1>2 DEF ViewIsOneConversation
  <1>10. QED
    BY <1>7, <1>8, <1>9 DEF ChatInv

\* A step that leaves the questions and what is shown.
LEMMA QuietKeeps ==
    ASSUME ChatInv, UNCHANGED <<send, crossed>>,
           \/ inputRef' = inputRef
           \/ inputRef' = NoSend,
           chat'.conversationId = chat.conversationId, chat'.base = chat.base,
           chat'.bubbles = chat.bubbles, chat'.isStreaming = chat.isStreaming,
           HistoriesMatch'
    PROVE  ChatInv'
  <1>1. Streams' = Streams
    BY DEF Streams
  <1>2. \A s \in Sends : Heard(s)' = Heard(s)
    BY DEF Heard
  <1>3. InputRefRuns' /\ InputComesBack' /\ StreamsAreOne' /\ StreamsAreHere'
    BY <1>1 DEF ChatInv, InputRefRuns, InputComesBack, StreamsAreOne, StreamsAreHere
  <1>4. ViewIsOneConversation'
    BY DEF ChatInv, ViewIsOneConversation, Heard
  <1>5. QED
    BY <1>3, <1>4 DEF ChatInv

\* A step of a question that stays on its way.
LEMMA StreamKeeps ==
    ASSUME ChatHolds, ChatInv, NEW s \in Streams, NEW r \in Send,
           send' = [send EXCEPT ![s] = r], r.pc \in Running,
           \/ inputRef' = inputRef
           \/ inputRef' = NoSend,
           UNCHANGED <<crossed, nav>>,
           chat'.isStreaming = chat.isStreaming, chat'.base = chat.base,
           chat'.bubbles \subseteq chat.bubbles \cup {s},
           \/ chat'.conversationId = chat.conversationId
           \/ chat.conversationId = NoConv,
           ~ crossed => \/ r.conv = chat'.conversationId
                        \/ r.pc = "accepted" /\ chat'.conversationId = NoConv
    PROVE  ChatInv'
  <1>1. s \in Sends /\ send \in [Sends -> Send] /\ send[s].pc \in Running
    BY DEF Streams, ChatHolds, ChatTypeOK
  <1>2. chat \in ChatStore
    BY DEF ChatHolds, StoresHold, StoresTypeOK
  <1>3. send'[s] = r /\ \A t \in Sends : t # s => send'[t] = send[t]
    BY <1>1
  <1>4. Streams' = Streams
    BY <1>1, <1>3 DEF Streams
  <1>5. ~ crossed => \A t \in Streams : t = s
    BY DEF ChatInv, StreamsAreOne
  <1>6. InputRefRuns' /\ InputComesBack' /\ StreamsAreOne'
    BY <1>4 DEF ChatInv, InputRefRuns, InputComesBack, StreamsAreOne
  <1>7. StreamsAreHere'
    BY <1>3, <1>4, <1>5 DEF StreamsAreHere
  <1>8. HistoriesMatch'
    BY DEF ChatInv, HistoriesMatch
  <1>9. ViewIsOneConversation'
    <2>1. \A t \in Sends : t # s => Heard(t)' = Heard(t)
      BY <1>3 DEF Heard
    <2>2. ~ crossed => Heard(s)' \in {NoConv, chat'.conversationId}
      BY <1>1, <1>3 DEF Heard
    <2>3. chat.bubbles \in SUBSET Sends
      BY <1>2 DEF ChatStore
    <2>4. ~ crossed => chat.base \in {NoConv, chat'.conversationId}
      BY DEF ChatInv, ViewIsOneConversation
    <2>5. QED
      BY <2>1, <2>2, <2>3, <2>4 DEF ChatInv, ViewIsOneConversation
  <1>10. QED
    BY <1>6, <1>7, <1>8, <1>9 DEF ChatInv

LEMMA StreamStepKeeps ==
    ASSUME ChatHolds, ChatInv, NEW s \in Sends, StreamStep(s) \/ DenyQuestion(s)
    PROVE  ChatInv'
  <1>1. send[s] \in Send /\ send \in [Sends -> Send] /\ server \in Server
    BY DEF ChatHolds, ChatTypeOK
  <1>2. chat \in ChatStore /\ panel \in Panel
    BY DEF ChatHolds, StoresHold, StoresTypeOK
  <1>3. addMessage(chat, s) \in ChatStore
    BY <1>2, ChatUpdates
  <1>4. s \in Streams
    BY DEF StreamStep, AcceptQuestion, save_message, Reconnect, ConversationEvent, TokenEvent,
           DoneEvent, CloseStream, StreamFails, DenyQuestion, Streams, Running
  <1>5. ~ crossed => \/ send[s].conv = chat.conversationId
                     \/ send[s].pc = "accepted" /\ chat.conversationId = NoConv
    BY <1>4 DEF ChatInv, StreamsAreHere
  <1>6. CASE AcceptQuestion(s)
    <2>1. PICK c \in AcceptedFor(s) :
            send' = [send EXCEPT ![s] = [send[s] EXCEPT !.pc = "accepted", !.conv = c,
                                                        !.retried = FALSE]]
      BY <1>1, <1>6 DEF AcceptQuestion
    <2>2. c \in Convs /\ (send[s].conv = NoConv \/ c = send[s].conv)
      BY ServerChoices DEF ChatHolds, AcceptedFor
    <2> DEFINE r == [send[s] EXCEPT !.pc = "accepted", !.conv = c, !.retried = FALSE]
    <2>3. r \in Send /\ r.pc = "accepted" /\ r.conv = c
      BY <1>1, <2>2 DEF Send, SendSteps
    <2>4. send[s].pc = "posted"
      BY <1>6 DEF AcceptQuestion
    <2> HIDE DEF r
    <2>5. send' = [send EXCEPT ![s] = r]
      BY <2>1 DEF r
    <2>6. UNCHANGED <<chat, inputRef, crossed, nav>>
      BY <1>6 DEF AcceptQuestion
    <2>7. ~ crossed => r.conv = chat.conversationId \/ chat.conversationId = NoConv
      BY <1>5, <2>2, <2>3, <2>4
    <2>8. r.pc \in Running
      BY <2>3 DEF Running
    <2>9. QED
      BY <1>4, <2>3, <2>5, <2>6, <2>7, <2>8, StreamKeeps
  <1>7. CASE save_message(s)
    <2> DEFINE r == [send[s] EXCEPT !.saves = @ + 1]
    <2>1. r \in Send /\ r.pc = send[s].pc /\ r.conv = send[s].conv
      BY <1>1, <1>7 DEF save_message, Send
    <2>2. send' = [send EXCEPT ![s] = r]
      BY <1>1, <1>7 DEF save_message
    <2> HIDE DEF r
    <2>3. QED
      BY <1>4, <1>5, <1>7, <2>1, <2>2, StreamKeeps DEF save_message, Streams
  <1>8. CASE Reconnect(s)
    <2> DEFINE r == [send[s] EXCEPT !.pc = "posted"]
    <2>1. r \in Send /\ r.pc = "posted" /\ r.conv = send[s].conv
      BY <1>1 DEF Send, SendSteps
    <2>2. send' = [send EXCEPT ![s] = r] /\ send[s].pc = "denied"
      BY <1>1, <1>8 DEF Reconnect
    <2> HIDE DEF r
    <2>3. QED
      BY <1>4, <1>5, <1>8, <2>1, <2>2, StreamKeeps DEF Reconnect, Running
  <1>9. CASE DenyQuestion(s)
    <2> DEFINE r == [send[s] EXCEPT !.pc = "denied", !.retried = TRUE]
    <2>1. r \in Send /\ r.pc = "denied" /\ r.conv = send[s].conv
      BY <1>1 DEF Send, SendSteps
    <2>2. send' = [send EXCEPT ![s] = r] /\ send[s].pc = "posted"
      BY <1>1, <1>9 DEF DenyQuestion
    <2> HIDE DEF r
    <2>3. QED
      BY <1>4, <1>5, <1>9, <2>1, <2>2, StreamKeeps DEF DenyQuestion, Running
  <1>10. CASE ConversationEvent(s)
    <2> DEFINE r == [send[s] EXCEPT !.pc = "streaming"]
    <2>1. r \in Send /\ r.pc = "streaming" /\ r.conv = send[s].conv
      BY <1>1 DEF Send, SendSteps
    <2>2. send' = [send EXCEPT ![s] = r]
      BY <1>1, <1>10 DEF ConversationEvent
    <2>3. setConversationId(chat, send[s].conv) \in ChatStore
      BY <1>1, <1>2, ChatUpdates DEF Send
    <2>4. /\ chat'.conversationId = send[s].conv /\ chat'.base = chat.base
          /\ chat'.bubbles = chat.bubbles /\ chat'.isStreaming = chat.isStreaming
      BY <1>1, <1>2, <1>10, <2>3, CommitHolds
      DEF ConversationEvent, setConversationId, ChatStore
    <2>5. UNCHANGED <<inputRef, crossed, nav>>
      BY <1>10 DEF ConversationEvent
    <2> HIDE DEF r
    <2>6. CASE ~ crossed
      BY <1>4, <1>5, <2>1, <2>2, <2>4, <2>5, <2>6, StreamKeeps DEF Running
    <2>7. CASE crossed
      <3>1. Streams' = Streams
        BY <1>1, <1>4, <2>1, <2>2 DEF Streams, Running
      <3>2. QED
        BY <2>4, <2>5, <2>7, <3>1
        DEF ChatInv, InputRefRuns, InputComesBack, StreamsAreOne, StreamsAreHere, HistoriesMatch,
            ViewIsOneConversation
    <2>8. QED
      BY <2>6, <2>7
  <1>11. CASE TokenEvent(s)
    <2>1. /\ chat'.conversationId = chat.conversationId /\ chat'.base = chat.base
          /\ chat'.bubbles \subseteq chat.bubbles \cup {s} /\ chat'.isStreaming = chat.isStreaming
      BY <1>2, <1>3, <1>11, CommitHolds DEF TokenEvent, addMessage, ChatStore
    <2>2. send' = [send EXCEPT ![s] = send[s]] /\ send[s].pc \in Running
      BY <1>1, <1>4, <1>11 DEF TokenEvent, Streams
    <2>3. UNCHANGED <<inputRef, crossed, nav>>
      BY <1>11 DEF TokenEvent
    <2>4. QED
      BY <1>1, <1>4, <1>5, <2>1, <2>2, <2>3, StreamKeeps
  <1>12. CASE DoneEvent(s)
    <2> DEFINE r == [send[s] EXCEPT !.pc = "answered"]
    <2>1. r \in Send /\ r.pc = "answered" /\ r.conv = send[s].conv /\ send[s].pc = "streaming"
      BY <1>1, <1>12 DEF DoneEvent, Send, SendSteps
    <2>2. send' = [send EXCEPT ![s] = r]
      BY <1>1, <1>12 DEF DoneEvent
    <2>3. setMode(addMessage(chat, s), "quiz") \in ChatStore
      BY <1>3, ChatUpdates DEF Modes
    <2>4. /\ \/ Commit(addMessage(chat, s), panel)
             \/ Commit(setMode(addMessage(chat, s), "quiz"), panel)
          /\ inputRef' = inputRef \/ inputRef' = NoSend
          /\ UNCHANGED <<crossed, nav>>
      BY <1>12 DEF DoneEvent
    <2>5. /\ chat'.conversationId = chat.conversationId /\ chat'.base = chat.base
          /\ chat'.bubbles \subseteq chat.bubbles \cup {s} /\ chat'.isStreaming = chat.isStreaming
      BY <1>2, <1>3, <2>3, <2>4, CommitHolds DEF addMessage, setMode, ChatStore
    <2> HIDE DEF r
    <2>6. QED
      BY <1>4, <1>5, <2>1, <2>2, <2>4, <2>5, StreamKeeps DEF Running
  <1>13. CASE CloseStream(s)
    BY <1>4, <1>13, FinallyKeeps DEF CloseStream
  <1>14. CASE StreamFails(s)
    BY <1>4, <1>14, FinallyKeeps DEF StreamFails
  <1>15. QED
    BY <1>6, <1>7, <1>8, <1>9, <1>10, <1>11, <1>12, <1>13, <1>14 DEF StreamStep

\* A handler that does not get a history does not disturb those of others.
LEMMA HistoriesKept ==
    ASSUME ChatHolds, ChatInv, NEW n \in Navs, NEW r \in Nav, nav' = [nav EXCEPT ![n] = r],
           r.pc = "arrived" => r.history \in {NoConv, r.conv}
    PROVE  HistoriesMatch'
  BY DEF ChatHolds, ChatTypeOK, ChatInv, HistoriesMatch

LEMMA NavStepKeeps ==
    ASSUME ChatHolds, ChatInv, NEW n \in Navs, NavStep(n) \/ NavFails(n)
    PROVE  ChatInv'
  <1>1. nav[n] \in Nav /\ nav \in [Navs -> Nav] /\ server \in Server
    BY DEF ChatHolds, ChatTypeOK
  <1>2. chat \in ChatStore
    BY DEF ChatHolds, StoresHold, StoresTypeOK
  <1>3. NoNav \in Nav /\ NoNav.pc # "arrived"
    BY ChatRecordsTyped DEF NoNav
  <1>4. CASE /\ ServeActive(n) \/ ServeDelete(n) \/ ServeList(n) \/ ServeCreate(n) \/ NavFails(n)
    <2>1. \A m \in Navs : m # n => nav'[m] = nav[m]
      BY <1>1, <1>4 DEF ServeActive, ServeDelete, ServeList, ServeCreate, NavFails
    <2>2. nav'[n].pc # "arrived"
      <3>1. ServeActive(n) => nav'[n].pc = "history"
        BY <1>1 DEF ServeActive, Nav
      <3>2. ServeDelete(n) => nav'[n].pc = "listing" \/ nav'[n] = NoNav
        BY <1>1 DEF ServeDelete, Nav
      <3>3. ServeList(n) => nav'[n].pc \in {"history", "creating"} \/ nav'[n] = NoNav
        BY <1>1 DEF ServeList, Nav
      <3>4. ServeCreate(n) => nav'[n].pc = "created" \/ nav'[n] = NoNav
        BY <1>1 DEF ServeCreate, NoNav
      <3>5. NavFails(n) => nav'[n] = NoNav
        BY <1>1 DEF NavFails
      <3>6. QED
        BY <1>3, <1>4, <3>1, <3>2, <3>3, <3>4, <3>5
    <2>3. HistoriesMatch'
      BY <2>1, <2>2 DEF ChatInv, HistoriesMatch
    <2>4. UNCHANGED navFrame
      BY <1>4 DEF ServeActive, ServeDelete, ServeList, ServeCreate, NavFails
    <2>5. QED
      BY <2>3, <2>4, QuietKeeps DEF navFrame
  <1>5. CASE ServeHistory(n)
    <2>1. nav[n].conv \in server.alive => restoredMessages(nav[n].conv) \in {NoConv, nav[n].conv}
      BY <1>1, ServerChoices DEF ChatHolds, Server
    <2>2. \A m \in Navs : m # n => nav'[m] = nav[m]
      BY <1>1, <1>5 DEF ServeHistory
    <2>3. nav'[n].pc = "arrived" => nav'[n].history \in {NoConv, nav'[n].conv}
      BY <1>1, <1>5, <2>1 DEF ServeHistory, NoNav, Nav
    <2>4. HistoriesMatch'
      BY <2>2, <2>3 DEF ChatInv, HistoriesMatch
    <2>5. QED
      BY <1>5, <2>4, QuietKeeps DEF ServeHistory, navFrame
  <1>6. CASE ShowConversation(n)
    <2> DEFINE r == nav[n]
               shown == setMaterialScope(setMessages(setConversationId(chat, r.conv), r.history),
                                         r.scope)
               c == IF r.kind = "load" THEN shown ELSE setMode(shown, "ask")
    <2>1. r.history \in {NoConv, r.conv}
      BY <1>6 DEF ShowConversation, ChatInv, HistoriesMatch
    <2>2. shown \in ChatStore
      BY <1>1, <1>2, ChatUpdates DEF Nav
    <2>3. /\ shown.bubbles = {} /\ shown.base = r.history /\ shown.conversationId = r.conv
          /\ shown.isStreaming = chat.isStreaming
      BY <1>1, <1>2 DEF setMaterialScope, setMessages, setConversationId, ChatStore
    <2>4. Replace(c) /\ inputRef' = inputRef /\ nav' = [nav EXCEPT ![n] = NoNav]
      BY <1>6 DEF ShowConversation
    <2> HIDE DEF shown
    <2>5. c \in ChatStore
      BY <2>2, ChatUpdates DEF Modes
    <2>6. c.bubbles = {} /\ c.base = r.history /\ c.conversationId = r.conv
          /\ c.isStreaming = chat.isStreaming
      BY <2>2, <2>3 DEF setMode, ChatStore
    <2> HIDE DEF c
    <2>7. HistoriesMatch'
      BY <1>3, <2>4, HistoriesKept
    <2>8. QED
      BY <2>1, <2>4, <2>5, <2>6, <2>7, ReplaceKeeps
  <1>7. CASE StartConversation(n)
    <2> DEFINE c == startNewConversation(chat, nav[n].conv)
    <2>1. c \in ChatStore
      BY <1>1, <1>2, ChatUpdates DEF Nav
    <2>2. c.bubbles = {} /\ c.base = NoConv /\ ~ c.isStreaming
      BY <1>2 DEF startNewConversation, ChatStore
    <2>3. Replace(c) /\ inputRef' = inputRef /\ nav' = [nav EXCEPT ![n] = NoNav]
      BY <1>7 DEF StartConversation
    <2> HIDE DEF c
    <2>4. HistoriesMatch'
      BY <1>3, <2>3, HistoriesKept
    <2>5. QED
      BY <2>1, <2>2, <2>3, <2>4, ReplaceKeeps
  <1>8. QED
    BY <1>4, <1>5, <1>6, <1>7 DEF NavStep

LEMMA ChatUserKeeps ==
    ASSUME ChatHolds, ChatInv, ChatUserStep
    PROVE  ChatInv'
  <1>1. CASE SubmitQuestion
    BY <1>1, SendMessageKeeps DEF SubmitQuestion
  <1>2. CASE QuickQuestion
    BY <1>2, SendMessageKeeps DEF QuickQuestion
  <1>3. CASE AbortClick
    <2>1. inputRef \in Streams
      BY <1>3 DEF AbortClick, ChatInv, InputRefRuns
    <2>2. CASE send[inputRef].pc = "denied"
      <3>1. UNCHANGED <<chat, send, nav, crossed>> /\ inputRef' = NoSend
        BY <1>3, <2>2 DEF AbortClick
      <3>2. HistoriesMatch'
        BY <3>1 DEF ChatInv, HistoriesMatch
      <3>3. QED
        BY <3>1, <3>2, QuietKeeps
    <2>3. CASE send[inputRef].pc # "denied"
      BY <1>3, <2>1, <2>3, FinallyKeeps DEF AbortClick
    <2>4. QED
      BY <2>2, <2>3
  <1>4. CASE NewConversation \/ \E c \in Convs : SwitchConversation(c) \/ DeleteConversation(c)
    <2>1. /\ HasFree(nav)
          /\ UNCHANGED <<chat, send, inputRef, crossed>>
          /\ \E step \in {"history", "deleting", "creating"}, c \in Convs \cup {NoConv} :
               Begin(FreeSlot(nav), step, c)
      BY <1>4 DEF NewConversation, SwitchConversation, DeleteConversation
    <2>2. FreeSlot(nav) \in Navs /\ nav \in [Navs -> Nav]
      BY <2>1, FreeSlotIsFree DEF ChatHolds, ChatTypeOK
    <2>3. nav'[FreeSlot(nav)].pc # "arrived" /\ \A m \in Navs : m # FreeSlot(nav) => nav'[m] = nav[m]
      BY <2>1, <2>2 DEF Begin, NoNav
    <2>4. HistoriesMatch'
      BY <2>3 DEF ChatInv, HistoriesMatch
    <2>5. QED
      BY <2>1, <2>4, QuietKeeps
  <1>5. QED
    BY <1>1, <1>2, <1>3, <1>4 DEF ChatUserStep

\* A change of the store outside the conversation side: the scope, the mode.
LEMMA ChatUndisturbed ==
    ASSUME ChatInv, UNCHANGED chatVars,
           chat'.conversationId = chat.conversationId, chat'.base = chat.base,
           chat'.bubbles = chat.bubbles, chat'.isStreaming = chat.isStreaming
    PROVE  ChatInv'
  <1>1. HistoriesMatch'
    BY DEF chatVars, ChatInv, HistoriesMatch
  <1>2. QED
    BY <1>1, QuietKeeps DEF chatVars

LEMMA SwitchModeKeeps ==
    ASSUME ChatHolds, ChatInv, NEW m \in Modes, SwitchMode(m)
    PROVE  ChatInv'
  <1>1. chat \in ChatStore /\ panel \in Panel
    BY DEF ChatHolds, StoresHold, StoresTypeOK
  <1>2. setMode(chat, m) \in ChatStore
    BY <1>1, ChatUpdates
  <1>3. /\ chat'.conversationId = chat.conversationId /\ chat'.base = chat.base
        /\ chat'.bubbles = chat.bubbles /\ chat'.isStreaming = chat.isStreaming
    BY <1>1, <1>2, CommitHolds DEF SwitchMode, setMode, ChatStore
  <1>4. HistoriesMatch'
    BY DEF SwitchMode, ChatInv, HistoriesMatch
  <1>5. QED
    BY <1>3, <1>4, QuietKeeps DEF SwitchMode

\* A step of the conversation side.
LEMMA ChatKeeps ==
    ASSUME ChatHolds, ChatInv, ChatStep \/ \E m \in Modes : SwitchMode(m)
    PROVE  ChatHolds' /\ ChatInv'
  <1>1. ChatHolds'
    BY ChatTyped DEF ChatInv, InputRefRuns
  <1>2. ChatInv'
    BY ChatUserKeeps, StreamStepKeeps, NavStepKeeps, SwitchModeKeeps DEF ChatStep, ChatFaultStep
  <1>3. QED
    BY <1>1, <1>2

LEMMA ChatStart == StoresInit /\ ChatInit => ChatHolds /\ ChatInv
  <1>1. SUFFICES ASSUME StoresInit, ChatInit PROVE ChatHolds /\ ChatInv
    OBVIOUS
  <1>2. StoresHold
    BY <1>1, StoresStart DEF StoresHold
  <1>3. \A n \in Navs : nav[n] \in Nav /\ nav[n].pc # "arrived"
    BY <1>1, ChatRecordsTyped DEF ChatInit, NoNav, Nav, NavSteps
  <1>4. nav \in [Navs -> Nav]
    BY <1>1, <1>3 DEF ChatInit
  <1>5. PICK sc \in Scenarios :
          server = [alive |-> sc.alive, created |-> sc.alive, asked |-> {1}, active |-> 1,
                    scope |-> [c \in Convs |-> IF c = 1 THEN Names ELSE {}]]
    BY <1>1 DEF ChatInit
  <1>6. server \in Server
    BY <1>5, BoundsTyped, ScenariosAssumption DEF Server
  <1>7. send \in [Sends -> Send] /\ inputRef = NoSend /\ crossed = FALSE
    BY <1>1, ChatRecordsTyped DEF ChatInit
  <1>8. Streams = {}
    BY <1>1 DEF ChatInit, Streams, NoQuestion, Running
  <1>9. ChatHolds
    BY <1>2, <1>4, <1>6, <1>7 DEF ChatHolds, ChatTypeOK
  <1>10. InputRefRuns /\ StreamsAreOne /\ StreamsAreHere
    BY <1>7, <1>8 DEF InputRefRuns, StreamsAreOne, StreamsAreHere
  <1>11. HistoriesMatch
    BY <1>3 DEF HistoriesMatch
  <1>12. InputComesBack /\ ViewIsOneConversation
    BY <1>1 DEF StoresInit, InputComesBack, ViewIsOneConversation
  <1>13. QED
    BY <1>9, <1>10, <1>11, <1>12 DEF ChatInv

\* In the words of the property: at most one question streams.
LEMMA OneIsAtMostOne ==
    ASSUME StreamsAreOne
    PROVE  OneStreamAtATime
  <1>1. CASE ~ crossed /\ Streams # {}
    <2>1. PICK s : Streams = {s}
      BY <1>1 DEF StreamsAreOne
    <2>2. QED
      BY <1>1, <2>1, FS_Singleton DEF StreamsAreOne, OneStreamAtATime
  <1>2. CASE Streams = {}
    BY <1>2, FS_EmptySet DEF OneStreamAtATime
  <1>3. CASE crossed
    BY <1>3 DEF OneStreamAtATime
  <1>4. QED
    BY <1>1, <1>2, <1>3
=============================================================================
