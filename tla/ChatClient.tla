----------------------------- MODULE ChatClient -----------------------------
(***************************************************************************)
(* The conversation side of the workspace: questions streamed by           *)
(* useChatStream (the input and the quick questions each have an instance  *)
(* of it), and the loading, switching, creating and deleting of            *)
(* conversations by the page, the sidebar and the header.  Each of these   *)
(* handlers awaits calls of the backend and then updates the store,        *)
(* whatever happened to the store meanwhile.                               *)
(***************************************************************************)
EXTENDS WorkspaceStores

CONSTANT MaxNavs    \* bound on the conversation handlers in flight

Navs == 1 .. MaxNavs

VARIABLES
    send,       \* [Sends -> Send]: the questions asked
    inputRef,   \* the question the stop button of ChatInput aborts
    nav,        \* [Navs -> Nav]: conversation handlers under way
    server,     \* the conversations the backend has
    crossed     \* history: the view was replaced while a question was streaming

chatVars == <<send, inputRef, nav, server, crossed>>

SendSteps == {"free", "posted", "denied", "accepted", "streaming", "answered", "ended"}
Running == {"posted", "denied", "accepted", "streaming", "answered"}

Send == [pc : SendSteps, conv : Convs \cup {NoConv}, scope : SUBSET Names, retried : BOOLEAN,
         saves : 0 .. 2]
NoQuestion == [pc |-> "free", conv |-> NoConv, scope |-> {}, retried |-> FALSE, saves |-> 0]

NavSteps == {"free", "active", "history", "arrived", "deleting", "listing", "creating", "created"}
Nav == [pc : NavSteps, kind : {"load", "user"}, conv : Convs \cup {NoConv},
        closure : Convs \cup {NoConv}, history : Convs \cup {NoConv}, scope : SUBSET Names]
NoNav == [pc |-> "free", kind |-> "user", conv |-> NoConv, closure |-> NoConv,
          history |-> NoConv, scope |-> {}]

\* The backend: conversations that exist, those ever created, those with
\* messages, the one touched last, and the scope of their last scoped message.
Server == [alive : SUBSET Convs, created : SUBSET Convs, asked : SUBSET Convs,
           active : Convs \cup {NoConv}, scope : [Convs -> SUBSET Names]]

ChatTypeOK ==
    /\ send \in [Sends -> Send]
    /\ inputRef \in Sends \cup {NoSend}
    /\ nav \in [Navs -> Nav]
    /\ server \in Server
    /\ crossed \in BOOLEAN

Streams == {s \in Sends : send[s].pc \in Running}

NextConv == {c \in Convs \ server.created : \A d \in Convs \ server.created : c <= d}

\* get_or_create_active_conversation.
ActiveConv == IF server.active # NoConv THEN {server.active} ELSE NextConv

\* The conversation a question is accepted for: the one it names, or the active.
AcceptedFor(s) ==
    IF send[s].conv = NoConv THEN ActiveConv ELSE {send[s].conv} \cap server.alive

\* A question that is over and no longer shown is forgotten.
Forget(f, c) ==
    [s \in Sends |-> IF f[s].pc = "ended" /\ s \notin c.bubbles THEN NoQuestion ELSE f[s]]

-----------------------------------------------------------------------------
(* Asking. *)

\* sendMessage: two bubbles, then the request with the conversation and the
\* scope of the last render.
sendMessage(s) ==
    /\ send' = [send EXCEPT ![s] = [NoQuestion EXCEPT
                   !.pc = "posted", !.conv = chat.conversationId, !.scope = chat.materialScope]]
    /\ Commit(setStreaming(addMessage(chat, s), TRUE), panel)
    /\ UNCHANGED <<quiz, nav, server, crossed>>

\* Mutant of SubmitQuestion: the input does not wait for the answer.
SubmitAnyTime ==
    /\ Click("chat")
    /\ chat.mode = "ask"
    /\ HasFree(send)
    /\ sendMessage(FreeSlot(send))
    /\ inputRef' = FreeSlot(send)

\* ChatInput.handleSubmit.
SubmitQuestion ==
    /\ Click("chat")
    /\ chat.mode = "ask"
    /\ ~ chat.isStreaming
    /\ HasFree(send)
    /\ sendMessage(FreeSlot(send))
    /\ inputRef' = FreeSlot(send)

\* A recommended question, offered while no message is shown.
QuickQuestion ==
    /\ Click("chat")
    /\ chat.mode = "ask"
    /\ chat.base = NoConv /\ chat.bubbles = {}
    /\ ~ chat.isStreaming
    /\ HasFree(send)
    /\ sendMessage(FreeSlot(send))
    /\ UNCHANGED inputRef

\* The request is accepted; the conversation event is on its way.
AcceptQuestion(s) ==
    /\ send[s].pc = "posted"
    /\ \E c \in AcceptedFor(s) :
         /\ send' = [send EXCEPT ![s].pc = "accepted", ![s].conv = c, ![s].retried = FALSE]
         /\ server' = [server EXCEPT !.alive = @ \cup {c}, !.created = @ \cup {c},
                                     !.active = IF @ = NoConv THEN c ELSE @]
    /\ Settle
    /\ UNCHANGED <<chat, quiz, panel, inputRef, nav, crossed>>

\* save_message, of the question before the answer is made and of the answer
\* after it was sent; it raises if the conversation is gone.
save_message(s) ==
    LET c == send[s].conv IN
    /\ \/ send[s].pc \in {"accepted", "streaming"} /\ send[s].saves = 0
       \/ send[s].pc = "answered" /\ send[s].saves = 1
    /\ c \in server.alive
    /\ send' = [send EXCEPT ![s].saves = @ + 1]
    /\ server' = [server EXCEPT
          !.active = c, !.asked = @ \cup {c},
          !.scope[c] = IF send[s].scope = {} THEN @ ELSE send[s].scope]
    /\ Settle
    /\ UNCHANGED <<chat, quiz, panel, inputRef, nav, crossed>>

\* The session has expired; the first 401 makes the stream refresh it.
DenyQuestion(s) ==
    /\ Fault
    /\ send[s].pc = "posted"
    /\ ~ send[s].retried
    /\ send' = [send EXCEPT ![s].pc = "denied", ![s].retried = TRUE]
    /\ UNCHANGED <<chat, quiz, panel, inputRef, nav, server, crossed>>

\* The refresh succeeded: connect() is called again.
Reconnect(s) ==
    /\ send[s].pc = "denied"
    /\ send' = [send EXCEPT ![s].pc = "posted"]
    /\ Settle
    /\ UNCHANGED <<chat, quiz, panel, inputRef, nav, server, crossed>>

\* onmessage "conversation".
ConversationEvent(s) ==
    /\ send[s].pc = "accepted"
    /\ send' = [send EXCEPT ![s].pc = "streaming"]
    /\ Commit(setConversationId(chat, send[s].conv), panel)
    /\ Settle
    /\ UNCHANGED <<quiz, inputRef, nav, server, crossed>>

\* onmessage "token": the bubble is shown, also in a view that replaced the
\* one it was asked in.
TokenEvent(s) ==
    /\ send[s].pc = "streaming" /\ send[s].saves = 1
    /\ s \notin chat.bubbles
    /\ Commit(addMessage(chat, s), panel)
    /\ Settle
    /\ UNCHANGED <<quiz, send, inputRef, nav, server, crossed>>

\* onmessage "done": the whole answer, and maybe a quiz, which is opened.
DoneEvent(s) ==
    /\ send[s].pc = "streaming" /\ send[s].saves = 1
    /\ send' = [send EXCEPT ![s].pc = "answered"]
    /\ \/ /\ Commit(addMessage(chat, s), panel)
          /\ UNCHANGED <<quiz, inputRef>>
       \/ \E n \in Questions :
            /\ quiz' = setQuestions(quiz, n, "q")
            /\ Commit(setMode(addMessage(chat, s), "quiz"), panel)
            /\ inputRef' = NoSend
    /\ Settle
    /\ UNCHANGED <<nav, server, crossed>>

\* The conversation of a question the client has heard of.
Heard(s) == IF send[s].pc \in {"streaming", "answered", "ended"} THEN send[s].conv ELSE NoConv

Over(s) == [send EXCEPT ![s] = [NoQuestion EXCEPT !.pc = "ended", !.conv = Heard(s)]]

\* The promise of sendMessage is settled and its finally block runs.
Finally(s, c) ==
    /\ send' = Forget(Over(s), c)
    /\ Commit(setStreaming(c, FALSE), panel)
    /\ inputRef' = IF inputRef = s THEN NoSend ELSE inputRef
    /\ UNCHANGED <<quiz, nav, server, crossed>>

\* The stream ends: after an answer, or after an error event, which is ignored.
CloseStream(s) ==
    /\ send[s].pc \in {"streaming", "answered"}
    /\ Finally(s, chat)
    /\ Settle

\* Mutant of StreamFails: the input is given back in the try block only.
StreamFailsSilently(s) ==
    /\ \/ send[s].pc \in Running /\ Fault
       \/ send[s].pc = "posted" /\ AcceptedFor(s) = {} /\ Settle
    /\ send' = Over(s)
    /\ Commit(addMessage(chat, s), panel)
    /\ UNCHANGED <<quiz, inputRef, nav, server, crossed>>

\* The stream fails: the network, the refresh, or a conversation that is gone.
\* The bubble says so.
StreamFails(s) ==
    /\ \/ send[s].pc \in Running /\ Fault
       \/ send[s].pc = "posted" /\ AcceptedFor(s) = {} /\ Settle
    /\ Finally(s, addMessage(chat, s))

\* The stop button of ChatInput: it aborts the question of this instance, and
\* the aborted bubble may or may not be written again.  While the stream
\* refreshes the session there is nothing to abort, and connect() does not look.
AbortClick ==
    /\ Click("chat")
    /\ chat.mode = "ask"
    /\ chat.isStreaming
    /\ inputRef # NoSend
    /\ IF send[inputRef].pc = "denied"
         THEN /\ inputRef' = NoSend
              /\ UNCHANGED <<chat, quiz, panel, send, nav, server, crossed>>
         ELSE \E c \in {chat, addMessage(chat, inputRef)} : Finally(inputRef, c)

-----------------------------------------------------------------------------
(* Conversations. *)

Begin(n, step, c) ==
    nav' = [nav EXCEPT ![n] = [NoNav EXCEPT !.pc = step, !.conv = c,
                                            !.closure = chat.conversationId]]

\* The rows of the sidebar.  Its list is loaded on its own: it may still hold a
\* conversation that is gone.
conversationRows == server.created

\* Mutant of SwitchConversation: the id is set before the history is there.
SwitchEagerly(c) ==
    /\ Click("chat")
    /\ HasFree(nav)
    /\ c \in conversationRows
    /\ Begin(FreeSlot(nav), "history", c)
    /\ Commit(setConversationId(chat, c), panel)
    /\ UNCHANGED <<quiz, send, inputRef, server, crossed>>

\* A conversation of the list, which may be out of date, is opened.
SwitchConversation(c) ==
    /\ Click("chat")
    /\ HasFree(nav)
    /\ c \in conversationRows
    /\ Begin(FreeSlot(nav), "history", c)
    /\ UNCHANGED <<chat, quiz, panel, send, inputRef, server, crossed>>

DeleteConversation(c) ==
    /\ Click("chat")
    /\ HasFree(nav)
    /\ c \in conversationRows
    /\ Begin(FreeSlot(nav), "deleting", c)
    /\ UNCHANGED <<chat, quiz, panel, send, inputRef, server, crossed>>

\* useCreateConversation, behind a button that is disabled while streaming.
NewConversation ==
    /\ Click("chat")
    /\ HasFree(nav)
    /\ ~ chat.isStreaming
    /\ Begin(FreeSlot(nav), "creating", NoConv)
    /\ UNCHANGED <<chat, quiz, panel, send, inputRef, server, crossed>>

navFrame == <<chat, quiz, panel, send, inputRef, crossed>>

\* GET /active, and the request for the history that follows it.
ServeActive(n) ==
    /\ nav[n].pc = "active"
    /\ \E c \in ActiveConv :
         /\ nav' = [nav EXCEPT ![n].pc = "history", ![n].conv = c]
         /\ server' = [server EXCEPT !.alive = @ \cup {c}, !.created = @ \cup {c}, !.active = c]
    /\ Settle
    /\ UNCHANGED navFrame

\* The messages made from the history of a conversation.
restoredMessages(c) == IF c \in server.asked THEN c ELSE NoConv

\* GET /{id}/messages; a conversation that is gone ends the handler.
ServeHistory(n) ==
    LET c == nav[n].conv IN
    /\ nav[n].pc = "history"
    /\ nav' = [nav EXCEPT ![n] =
                 IF c \in server.alive
                   THEN [@ EXCEPT !.pc = "arrived", !.scope = server.scope[c],
                                  !.history = restoredMessages(c)]
                   ELSE NoNav]
    /\ Settle
    /\ UNCHANGED <<server, navFrame>>

\* The view is replaced while a question may be streaming.
Replace(c) ==
    /\ Commit(c, panel)
    /\ send' = Forget(send, c)
    /\ crossed' = (Streams # {})

\* The history is shown.  Only a conversation the user opened changes the mode.
ShowConversation(n) ==
    LET r == nav[n]
        shown == setMaterialScope(setMessages(setConversationId(chat, r.conv), r.history), r.scope)
    IN
    /\ r.pc = "arrived"
    /\ Replace(IF r.kind = "load" THEN shown ELSE setMode(shown, "ask"))
    /\ nav' = [nav EXCEPT ![n] = NoNav]
    /\ Settle
    /\ UNCHANGED <<quiz, inputRef, server>>

\* The conversation that was touched last is the first of the list.
ActiveOf(alive) ==
    IF server.active \in alive THEN {server.active}
    ELSE IF alive = {} THEN {NoConv} ELSE alive

\* DELETE; one that is gone already ends the handler.
ServeDelete(n) ==
    LET c == nav[n].conv
        alive == server.alive \ {c} IN
    /\ nav[n].pc = "deleting"
    /\ IF c \in server.alive
         THEN /\ \E a \in ActiveOf(alive) :
                   server' = [server EXCEPT !.alive = alive, !.active = a]
              /\ nav' = [nav EXCEPT ![n].pc = "listing"]
         ELSE /\ nav' = [nav EXCEPT ![n] = NoNav]
              /\ UNCHANGED server
    /\ Settle
    /\ UNCHANGED navFrame

\* The list after a deletion.  If the conversation was the one shown when it
\* was deleted, the first of the list is opened, or a new one created.
ServeList(n) ==
    LET r == nav[n] IN
    /\ r.pc = "listing"
    /\ nav' = [nav EXCEPT ![n] =
                 IF r.conv # r.closure THEN NoNav
                 ELSE IF server.active # NoConv
                   THEN [@ EXCEPT !.pc = "history", !.conv = server.active]
                   ELSE [@ EXCEPT !.pc = "creating"]]
    /\ Settle
    /\ UNCHANGED <<server, navFrame>>

\* POST.  It fails once MaxConvs are created, which keeps the model finite.
ServeCreate(n) ==
    /\ nav[n].pc = "creating"
    /\ IF NextConv = {}
         THEN /\ nav' = [nav EXCEPT ![n] = NoNav]
              /\ UNCHANGED server
         ELSE \E c \in NextConv :
                /\ server' = [server EXCEPT !.alive = @ \cup {c}, !.created = @ \cup {c},
                                            !.active = c]
                /\ nav' = [nav EXCEPT ![n] = [NoNav EXCEPT !.pc = "created", !.conv = c]]
    /\ Settle
    /\ UNCHANGED navFrame

\* startNewConversation, however long ago the button was clicked.
StartConversation(n) ==
    /\ nav[n].pc = "created"
    /\ Replace(startNewConversation(chat, nav[n].conv))
    /\ nav' = [nav EXCEPT ![n] = NoNav]
    /\ Settle
    /\ UNCHANGED <<quiz, inputRef, server>>

\* A call of a handler fails, and the handler ends.
NavFails(n) ==
    /\ Fault
    /\ nav[n].pc \in {"active", "history", "deleting", "listing", "creating"}
    /\ nav' = [nav EXCEPT ![n] = NoNav]
    /\ UNCHANGED <<server, navFrame>>

\* The tabs of the header, and the review button of the quick actions.
SwitchMode(m) ==
    /\ Click("chat")
    /\ chat.mode # m
    /\ Commit(setMode(chat, m), panel)
    /\ inputRef' = IF m = "ask" THEN inputRef ELSE NoSend
    /\ UNCHANGED <<quiz, send, nav, server, crossed>>

-----------------------------------------------------------------------------
\* Conversation 1 has messages, others have none; loadConversation has begun.
ChatInit ==
    /\ send = [s \in Sends |-> NoQuestion]
    /\ inputRef = NoSend
    /\ nav = [n \in Navs |-> IF n = 1 THEN [NoNav EXCEPT !.pc = "active", !.kind = "load"] ELSE NoNav]
    /\ \E sc \in Scenarios :
         /\ clicks = sc.clicks /\ faults = sc.faults
         /\ server = [alive |-> sc.alive, created |-> sc.alive, asked |-> {1}, active |-> 1,
                   scope |-> [c \in Convs |-> IF c = 1 THEN Names ELSE {}]]
    /\ crossed = FALSE

ChatUserStep ==
    \/ SubmitQuestion
    \/ QuickQuestion
    \/ AbortClick
    \/ NewConversation
    \/ \E c \in Convs : SwitchConversation(c) \/ DeleteConversation(c)

StreamStep(s) ==
    \/ AcceptQuestion(s)
    \/ save_message(s)
    \/ Reconnect(s)
    \/ ConversationEvent(s)
    \/ TokenEvent(s)
    \/ DoneEvent(s)
    \/ CloseStream(s)
    \/ StreamFails(s)

NavStep(n) ==
    \/ ServeActive(n)
    \/ ServeHistory(n)
    \/ ShowConversation(n)
    \/ ServeDelete(n)
    \/ ServeList(n)
    \/ ServeCreate(n)
    \/ StartConversation(n)

ChatFaultStep ==
    \/ \E s \in Sends : DenyQuestion(s)
    \/ \E n \in Navs : NavFails(n)

ChatStep ==
    \/ ChatUserStep
    \/ \E s \in Sends : StreamStep(s)
    \/ \E n \in Navs : NavStep(n)
    \/ ChatFaultStep
-----------------------------------------------------------------------------
(* What the conversation side promises. *)

\* The input is never locked with no question on its way: every end of
\* sendMessage gives it back, also one that was overtaken by a new question.
InputComesBack == chat.isStreaming => Streams # {}

\* Unless a view was replaced under a stream, one question streams at a time,
\* and the buttons that could start another are disabled meanwhile.
OneStreamAtATime ==
    ~ crossed => /\ Cardinality(Streams) <= 1
                 /\ Streams # {} => chat.isStreaming

\* Unless a view was replaced under a stream, what is shown belongs to the
\* conversation the next question is sent to, in whatever order histories,
\* events and new conversations arrive.
ViewIsOneConversation ==
    ~ crossed => /\ chat.base \in {NoConv, chat.conversationId}
                 /\ \A s \in chat.bubbles : Heard(s) \in {NoConv, chat.conversationId}
=============================================================================
