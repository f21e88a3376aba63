-------------------------- MODULE Sessions_proofs --------------------------
(***************************************************************************)
(* Proofs about Sessions, for every number of tabs, calls and tokens.      *)
(*                                                                         *)
(* The argument rests on the row locks: two transactions never hold the    *)
(* same token, so what a rotation or a logout read about its token is      *)
(* still true when it commits.  The session of the token is then open, a   *)
(* rotation replaces its only unrevoked token, and a logout leaves none.   *)
(*                                                                         *)
(* That a single tab is never taken for a thief rests on the browser too:  *)
(* a tab has one refresh at a time, and the jar does not return to a token *)
(* that was presented once its replacement has arrived.                    *)
(***************************************************************************)
EXTENDS Sessions, TLAPS

\* A request that the invariant speaks about: it holds a row, or it is a
\* logout that has succeeded.
LoggedOut(r) == r.pc = "answered" /\ r.kind = "logout" /\ r.ok
Holding(r) == r.pc \in {"rotating", "revoking"}
Matters(r) == Holding(r) \/ LoggedOut(r)

\* No two transactions hold the same token row.
LocksExclusive ==
    \A t, o \in Tabs, k, j \in Slots :
        /\ Holding(req[t][k])
        /\ Holding(req[o][j])
        /\ req[t][k].tok = req[o][j].tok
        => t = o /\ k = j

\* What a rotation read about its token stays true while it holds the row.
RotatingIsUnrevoked ==
    \A t \in Tabs, k \in Slots :
        req[t][k].pc = "rotating"
          => req[t][k].tok \in Tokens /\ Unrevoked(req[t][k].tok)

\* The same of a logout, and its UPDATE knows of the row.
LogoutHoldsToken ==
    \A t \in Tabs, k \in Slots :
        req[t][k].pc = "revoking" /\ req[t][k].kind = "logout"
          => /\ req[t][k].tok \in req[t][k].snap
             /\ req[t][k].tok \in Tokens
             /\ Unrevoked(req[t][k].tok)

\* A session is named after a token that was issued.
SessionIssued == \A u \in Tokens : Issued(u) => Issued(sid[u])

\* A logout that succeeded was about an issued token of a session without an
\* unrevoked one.
LogoutDone ==
    \A t \in Tabs, k \in Slots :
        LoggedOut(req[t][k])
          => /\ req[t][k].tok \in Tokens
             /\ Issued(req[t][k].tok)
             /\ UnrevokedOf(sid[req[t][k].tok]) = {}

RowInv ==
    /\ LocksExclusive
    /\ RotatingIsUnrevoked
    /\ LogoutHoldsToken
    /\ SessionIssued
    /\ LogoutDone
    /\ OneUnrevokedToken

-----------------------------------------------------------------------------
(* Type correctness. *)

LEMMA TokensAreNat == Tokens \subseteq Nat /\ NoToken \notin Tokens /\ 1 \in Tokens
  BY SessionsAssumption, SMT DEF Tokens, NoToken

LEMMA RecordsTyped ==
    /\ Idle \in CallRecord
    /\ Free \in Request
    /\ NoUpdate \in [open : BOOLEAN, snap : SUBSET Tokens]
  BY TokensAreNat DEF Idle, CallRecord, CallSteps, Free, Request, RequestSteps,
     Kinds, NoToken, NoUpdate

\* Writing one slot, or one call, keeps the type.
LEMMA SlotUpdate ==
    ASSUME req \in [Tabs -> [Slots -> Request]],
           NEW t \in Tabs, NEW k \in Slots, NEW r \in Request
    PROVE  [req EXCEPT ![t][k] = r] \in [Tabs -> [Slots -> Request]]
  OBVIOUS

LEMMA CallUpdate ==
    ASSUME call \in [Tabs -> [AllCalls -> CallRecord]],
           NEW t \in Tabs, NEW c \in AllCalls, NEW r \in CallRecord
    PROVE  [call EXCEPT ![t][c] = r] \in [Tabs -> [AllCalls -> CallRecord]]
  OBVIOUS

LEMMA AuthRequestTyped ==
    ASSUME SessionsTypeOK, NEW kind \in Kinds
    PROVE  AuthRequest(kind) \in Request
  BY RecordsTyped DEF AuthRequest, Request, RequestSteps, SessionsTypeOK, Free, Kinds

LEMMA SentTyped ==
    ASSUME SessionsTypeOK PROVE Sent \in CallRecord
  BY DEF Sent, CallRecord, CallSteps, SessionsTypeOK

LEMMA FailTyped ==
    ASSUME SessionsTypeOK, NEW t \in Tabs, NEW k \in Slots, Fail(t, k)
    PROVE  req' \in [Tabs -> [Slots -> Request]]
  <1>1. req[t][k] \in Request
    BY DEF SessionsTypeOK
  <1>2. [Free EXCEPT !.pc = "answered", !.kind = req[t][k].kind] \in Request
    BY <1>1, RecordsTyped DEF Request, RequestSteps, Free
  <1>3. QED
    BY <1>2, RecordsTyped, SlotUpdate DEF Fail, SessionsTypeOK

LEMMA SucceedTyped ==
    ASSUME SessionsTypeOK, NEW t \in Tabs, NEW k \in Slots,
           NEW v \in Tokens \cup {NoToken}, Succeed(t, k, v)
    PROVE  req' \in [Tabs -> [Slots -> Request]]
  <1>1. req[t][k] \in Request
    BY DEF SessionsTypeOK
  <1>2. [req[t][k] EXCEPT !.pc = "answered", !.snap = {}, !.ok = TRUE, !.new = v]
          \in Request
    BY <1>1 DEF Request, RequestSteps
  <1>3. QED
    BY <1>2, RecordsTyped, SlotUpdate DEF Succeed, SessionsTypeOK

LEMMA RefreshTyped ==
    ASSUME SessionsTypeOK, NEW t \in Tabs, refreshSession(t)
    PROVE  /\ req' \in [Tabs -> [Slots -> Request]]
           /\ carried' \in [Tokens -> SUBSET Tabs]
  <1>1. AuthRequest("refresh") \in Request
    BY AuthRequestTyped DEF Kinds
  <1>2. "refresh" \in Slots
    BY DEF Slots
  <1>3. [req EXCEPT ![t]["refresh"] = AuthRequest("refresh")] \in [Tabs -> [Slots -> Request]]
    BY <1>1, <1>2, SlotUpdate DEF SessionsTypeOK
  <1>4. CASE refreshPromise(t)
    BY <1>4 DEF refreshSession, SessionsTypeOK
  <1>5. CASE ~ refreshPromise(t) /\ jar = NoToken
    BY <1>3, <1>5 DEF refreshSession, SessionsTypeOK
  <1>6. CASE ~ refreshPromise(t) /\ jar # NoToken
    <2>1. jar \in Tokens
      BY <1>6 DEF SessionsTypeOK
    <2>2. carried' = [carried EXCEPT ![jar] = @ \cup {t}]
      BY <1>6 DEF refreshSession
    <2>3. carried' \in [Tokens -> SUBSET Tabs]
      BY <2>1, <2>2 DEF SessionsTypeOK
    <2>4. QED
      BY <1>3, <1>6, <2>3 DEF refreshSession
  <1>7. QED
    BY <1>4, <1>5, <1>6

LEMMA BoundsTyped ==
    ASSUME SessionsTypeOK
    PROVE  /\ Click => clicks' \in 0 .. MaxClicks
           /\ faults < MaxFaults => faults + 1 \in 0 .. MaxFaults
  BY SessionsAssumption, SMT DEF SessionsTypeOK, Click

LEMMA InitTyped == SessionsInit => SessionsTypeOK
  <1> SUFFICES ASSUME SessionsInit PROVE SessionsTypeOK
    OBVIOUS
  <1>1. /\ status \in [Tokens -> Statuses]
        /\ jar \in Tokens \cup {NoToken}
        /\ page \in [Tabs -> Pages]
    BY TokensAreNat DEF SessionsInit, Statuses, Pages
  <1>2. /\ call \in [Tabs -> [AllCalls -> CallRecord]]
        /\ req \in [Tabs -> [Slots -> Request]]
        /\ admin \in [open : BOOLEAN, snap : SUBSET Tokens]
    BY RecordsTyped DEF SessionsInit
  <1>3. clicks \in 0 .. MaxClicks /\ faults \in 0 .. MaxFaults
    BY SessionsAssumption, SMT DEF SessionsInit
  <1>4. QED
    BY <1>1, <1>2, <1>3 DEF SessionsInit, SessionsTypeOK

\* The steps of a call keep the type.
LEMMA CallStepTyped ==
    ASSUME SessionsTypeOK, NEW t \in Tabs, NEW c \in AllCalls, CallStep(t, c)
    PROVE  SessionsTypeOK'
  <1> USE DEF dbVars, historyVars, boundVars
  <1>0. /\ call[t][c] \in CallRecord
        /\ Me \in AllCalls
        /\ "login" \in Pages /\ "app" \in Pages
    BY DEF SessionsTypeOK, AllCalls, Pages
  <1>1. ASSUME Serve(t, c) PROVE SessionsTypeOK'
    <2>1. call' \in [Tabs -> [AllCalls -> CallRecord]]
      BY <1>1, RecordsTyped, CallUpdate DEF Serve, SessionsTypeOK
    <2>2. page' \in [Tabs -> Pages]
      BY <1>0, <1>1 DEF Serve, SessionsTypeOK
    <2>3. QED
      BY <1>1, <2>1, <2>2 DEF Serve, SessionsTypeOK
  <1>2. ASSUME Deny(t, c) PROVE SessionsTypeOK'
    <2>1. [Idle EXCEPT !.pc = IF call[t][c].pc = "sent" THEN "denied" ELSE "redenied"]
            \in CallRecord
      BY RecordsTyped DEF CallRecord, CallSteps
    <2>2. call' \in [Tabs -> [AllCalls -> CallRecord]]
      BY <1>2, <2>1, CallUpdate DEF Deny, SessionsTypeOK
    <2>3. QED
      BY <1>2, <2>2 DEF Deny, SessionsTypeOK
  <1>3. ASSUME ReceiveDenied(t, c) PROVE SessionsTypeOK'
    <2>1. [call[t][c] EXCEPT !.pc = "waiting"] \in CallRecord
      BY <1>0 DEF CallRecord, CallSteps
    <2>2. call' \in [Tabs -> [AllCalls -> CallRecord]]
      BY <1>3, <2>1, CallUpdate DEF ReceiveDenied, SessionsTypeOK
    <2>3. QED
      BY <1>3, <2>2, RefreshTyped DEF ReceiveDenied, SessionsTypeOK
  <1>4. ASSUME ReceiveRedenied(t, c) PROVE SessionsTypeOK'
    <2>1. GiveUp(c) \in CallRecord
      BY RecordsTyped DEF GiveUp, CallRecord, CallSteps
    <2>2. call' \in [Tabs -> [AllCalls -> CallRecord]]
      BY <1>4, <2>1, CallUpdate DEF ReceiveRedenied, SessionsTypeOK
    <2>3. page' \in [Tabs -> Pages]
      BY <1>0, <1>4 DEF ReceiveRedenied, signalAuthRequired, SessionsTypeOK
    <2>4. QED
      BY <1>4, <2>2, <2>3 DEF ReceiveRedenied, SessionsTypeOK
  <1>5. QED
    BY <1>1, <1>2, <1>3, <1>4 DEF CallStep

\* The continuations of a tab keep the type.
LEMMA AnswerStepTyped ==
    ASSUME SessionsTypeOK, NEW t \in Tabs, AnswerStep(t)
    PROVE  SessionsTypeOK'
  <1> USE DEF dbVars, historyVars, boundVars
  <1>0. /\ "login" \in Pages /\ "app" \in Pages /\ "gate" \in Pages
        /\ "refresh" \in Slots /\ "user" \in Slots
        /\ Me \in AllCalls
        /\ Free \in Request
    BY RecordsTyped DEF Pages, Slots, AllCalls
  <1>a. ASSUME NEW k \in Slots
        PROVE  [req EXCEPT ![t][k] = Free] \in [Tabs -> [Slots -> Request]]
    BY <1>0, SlotUpdate DEF SessionsTypeOK
  <1>b. ASSUME NEW k \in Slots
        PROVE  req[t][k].new \in Tokens \cup {NoToken}
    BY DEF SessionsTypeOK, Request
  <1>1. ASSUME GateRefresh(t) PROVE SessionsTypeOK'
    <2>0. call[t][Me] \in CallRecord
      BY <1>0 DEF SessionsTypeOK
    <2>1. [call[t][Me] EXCEPT !.pc = "regate"] \in CallRecord
      BY <2>0 DEF CallRecord, CallSteps
    <2>2. call' \in [Tabs -> [AllCalls -> CallRecord]]
      BY <1>0, <1>1, <2>1, CallUpdate DEF GateRefresh, SessionsTypeOK
    <2>3. QED
      BY <1>1, <2>2, RefreshTyped DEF GateRefresh, SessionsTypeOK
  <1>2. ASSUME RefreshSucceeds(t) PROVE SessionsTypeOK'
    <2> DEFINE r == req[t]["refresh"]
               G == [c \in AllCalls |->
                      CASE call[t][c].pc = "waiting" -> [pc |-> "resent", tok |-> r.new]
                        [] call[t][c].pc = "regate" -> Idle
                        [] OTHER -> call[t][c]]
    <2>1. r.new \in Tokens \cup {NoToken}
      BY <1>0, <1>b
    <2>2. [pc |-> "resent", tok |-> r.new] \in CallRecord
      BY <2>1 DEF CallRecord, CallSteps
    <2>3. G \in [AllCalls -> CallRecord]
      <3>1. ASSUME NEW c \in AllCalls PROVE call[t][c] \in CallRecord
        BY DEF SessionsTypeOK
      <3>2. QED
        BY <2>2, <3>1, RecordsTyped
    <2>4. call' = [call EXCEPT ![t] = G]
      BY <1>2 DEF RefreshSucceeds
    <2>5. call' \in [Tabs -> [AllCalls -> CallRecord]]
      BY <2>3, <2>4 DEF SessionsTypeOK
    <2>6. page' \in [Tabs -> Pages]
      BY <1>0, <1>2 DEF RefreshSucceeds, SessionsTypeOK
    <2>7. req' \in [Tabs -> [Slots -> Request]]
      BY <1>0, <1>2, <1>a DEF RefreshSucceeds
    <2>8. jar' \in Tokens \cup {NoToken}
      BY <1>2, <2>1 DEF RefreshSucceeds
    <2>9. QED
      BY <1>2, <2>5, <2>6, <2>7, <2>8 DEF RefreshSucceeds, SessionsTypeOK
  <1>3. ASSUME RefreshFails(t) PROVE SessionsTypeOK'
    <2> DEFINE G == [c \in AllCalls |->
                      CASE call[t][c].pc = "waiting" -> GiveUp(c)
                        [] call[t][c].pc = "regate" -> Idle
                        [] OTHER -> call[t][c]]
    <2>1. ASSUME NEW c \in AllCalls
          PROVE  GiveUp(c) \in CallRecord /\ call[t][c] \in CallRecord
      <3>1. [Idle EXCEPT !.pc = "failed"] \in CallRecord
        BY RecordsTyped DEF CallRecord, CallSteps
      <3>2. QED
        BY <3>1, RecordsTyped DEF GiveUp, SessionsTypeOK
    <2>2. G \in [AllCalls -> CallRecord]
      BY <2>1, RecordsTyped
    <2>3. call' = [call EXCEPT ![t] = G]
      BY <1>3 DEF RefreshFails
    <2>4. call' \in [Tabs -> [AllCalls -> CallRecord]]
      BY <2>2, <2>3 DEF SessionsTypeOK
    <2>5. page' \in [Tabs -> Pages]
      <3>1. CASE \E c \in AllCalls : call[t][c].pc = "waiting"
        BY <1>0, <1>3, <3>1 DEF RefreshFails, signalAuthRequired, SessionsTypeOK
      <3>2. CASE ~ \E c \in AllCalls : call[t][c].pc = "waiting"
        BY <1>0, <1>3, <3>2 DEF RefreshFails, SessionsTypeOK
      <3>3. QED
        BY <3>1, <3>2
    <2>6. req' \in [Tabs -> [Slots -> Request]]
      BY <1>0, <1>3, <1>a DEF RefreshFails
    <2>7. QED
      BY <1>3, <2>4, <2>5, <2>6 DEF RefreshFails, SessionsTypeOK
  <1>4. ASSUME LoginAnswered(t) PROVE SessionsTypeOK'
    <2>1. [pc |-> "sent", tok |-> req[t]["user"].new] \in CallRecord
      BY <1>0, <1>b DEF CallRecord, CallSteps
    <2>2. call' \in [Tabs -> [AllCalls -> CallRecord]]
      <3>1. [call EXCEPT ![t][Me] = [pc |-> "sent", tok |-> req[t]["user"].new]]
              \in [Tabs -> [AllCalls -> CallRecord]]
        BY <1>0, <2>1, CallUpdate DEF SessionsTypeOK
      <3>2. QED
        BY <1>4, <3>1 DEF LoginAnswered, SessionsTypeOK
    <2>3. page' \in [Tabs -> Pages] /\ jar' \in Tokens \cup {NoToken}
      BY <1>0, <1>4, <1>b DEF LoginAnswered, SessionsTypeOK
    <2>4. req' \in [Tabs -> [Slots -> Request]]
      BY <1>0, <1>4, <1>a DEF LoginAnswered
    <2>5. QED
      BY <1>4, <2>2, <2>3, <2>4 DEF LoginAnswered, SessionsTypeOK
  <1>5. ASSUME LogoutAnswered(t) PROVE SessionsTypeOK'
    <2>1. page' \in [Tabs -> Pages] /\ jar' \in Tokens \cup {NoToken}
      BY <1>0, <1>5 DEF LogoutAnswered, SessionsTypeOK
    <2>2. req' \in [Tabs -> [Slots -> Request]]
      BY <1>0, <1>5, <1>a DEF LogoutAnswered
    <2>3. QED
      BY <1>5, <2>1, <2>2 DEF LogoutAnswered, SessionsTypeOK
  <1>6. QED
    BY <1>1, <1>2, <1>3, <1>4, <1>5 DEF AnswerStep

\* What users do keeps the type.
LEMMA UserStepTyped ==
    ASSUME SessionsTypeOK, NEW t \in Tabs, UserStep(t)
    PROVE  SessionsTypeOK'
  <1> USE DEF dbVars, historyVars, boundVars
  <1>0. /\ "login" \in Pages /\ "gate" \in Pages
        /\ "user" \in Slots
        /\ Me \in AllCalls
        /\ Calls \subseteq AllCalls
        /\ "login" \in Kinds /\ "logout" \in Kinds
    BY DEF Pages, Slots, AllCalls, Kinds
  <1>1. ASSUME OpenTab(t) PROVE SessionsTypeOK'
    <2>1. [call[t] EXCEPT ![Me] = Sent] \in [AllCalls -> CallRecord]
      BY <1>0, SentTyped DEF SessionsTypeOK
    <2>2. call' \in [Tabs -> [AllCalls -> CallRecord]]
      BY <1>1, <2>1 DEF OpenTab, EnterGate, SessionsTypeOK
    <2>3. page' \in [Tabs -> Pages]
      BY <1>0, <1>1 DEF OpenTab, EnterGate, SessionsTypeOK
    <2>4. QED
      BY <1>1, <2>2, <2>3, BoundsTyped DEF OpenTab, SessionsTypeOK
  <1>2. ASSUME SubmitLogin(t) PROVE SessionsTypeOK'
    <2>1. req' \in [Tabs -> [Slots -> Request]]
      BY <1>0, <1>2, AuthRequestTyped, SlotUpdate DEF SubmitLogin, SessionsTypeOK
    <2>2. QED
      BY <1>2, <2>1, BoundsTyped DEF SubmitLogin, SessionsTypeOK
  <1>3. ASSUME SubmitLogout(t) PROVE SessionsTypeOK'
    <2>1. req' \in [Tabs -> [Slots -> Request]]
      BY <1>0, <1>3, AuthRequestTyped, SlotUpdate DEF SubmitLogout, SessionsTypeOK
    <2>2. QED
      BY <1>3, <2>1, BoundsTyped DEF SubmitLogout, SessionsTypeOK
  <1>4. ASSUME Reload(t) PROVE SessionsTypeOK'
    <2> DEFINE inFlight == {k \in Slots : req[t][k].pc \notin {"free", "answered"}}
               R == [k \in Slots |-> IF k = "orphan" /\ inFlight # {}
                                       THEN req[t][CHOOSE b \in inFlight : TRUE] ELSE Free]
               C == [c \in AllCalls |-> IF c = Me /\ page[t] # "login" THEN Sent ELSE Idle]
    <2>1. inFlight # {} => req[t][CHOOSE b \in inFlight : TRUE] \in Request
      <3>1. inFlight # {} => (CHOOSE b \in inFlight : TRUE) \in Slots
        OBVIOUS
      <3>2. \A k \in Slots : req[t][k] \in Request
        BY DEF SessionsTypeOK
      <3>3. QED
        BY <3>1, <3>2
    <2>2. R \in [Slots -> Request]
      BY <2>1, RecordsTyped
    <2>3. req' = [req EXCEPT ![t] = R]
      BY <1>4 DEF Reload
    <2>4. req' \in [Tabs -> [Slots -> Request]]
      BY <2>2, <2>3 DEF SessionsTypeOK
    <2>5. C \in [AllCalls -> CallRecord]
      BY SentTyped, RecordsTyped
    <2>6. call' = [call EXCEPT ![t] = C]
      BY <1>4 DEF Reload
    <2>7. call' \in [Tabs -> [AllCalls -> CallRecord]]
      BY <2>5, <2>6 DEF SessionsTypeOK
    <2>8. page' \in [Tabs -> Pages]
      BY <1>0, <1>4 DEF Reload, SessionsTypeOK
    <2>9. lost' \subseteq Tokens
      BY <1>4 DEF Reload, SessionsTypeOK
    <2>10. QED
      BY <1>4, <2>4, <2>7, <2>8, <2>9, BoundsTyped DEF Reload, SessionsTypeOK
  <1>5. ASSUME NEW c \in Calls, UserCall(t, c) PROVE SessionsTypeOK'
    <2>1. call' \in [Tabs -> [AllCalls -> CallRecord]]
      BY <1>0, <1>5, SentTyped, CallUpdate DEF UserCall, SessionsTypeOK
    <2>2. QED
      BY <1>5, <2>1, BoundsTyped DEF UserCall, SessionsTypeOK
  <1>6. QED
    BY <1>1, <1>2, <1>3, <1>4, <1>5 DEF UserStep

\* Revoking rows keeps their type.
LEMMA RevokeTyped ==
    ASSUME SessionsTypeOK, NEW S, RevokeRows(S)
    PROVE  status' \in [Tokens -> Statuses]
  BY DEF RevokeRows, SessionsTypeOK, Statuses

\* The steps of the backend keep the type.
LEMMA BackendStepTyped ==
    ASSUME SessionsTypeOK, RotatingIsUnrevoked,
           NEW t \in Tabs, NEW k \in Slots, BackendStep(t, k)
    PROVE  SessionsTypeOK'
  <1> USE DEF dbVars, browserVars, historyVars, boundVars
  <1>0. /\ req[t][k] \in Request
        /\ "live" \in Statuses /\ "revoked" \in Statuses
        /\ NoToken \in Tokens \cup {NoToken}
        /\ NextToken \subseteq Tokens
    BY DEF SessionsTypeOK, Statuses, NextToken
  <1>a. ASSUME NEW p \in RequestSteps
        PROVE  [req EXCEPT ![t][k].pc = p] \in [Tabs -> [Slots -> Request]]
    <2>1. [req[t][k] EXCEPT !.pc = p] \in Request
      BY <1>0 DEF Request
    <2>2. QED
      BY <2>1, SlotUpdate DEF SessionsTypeOK
  <1>b. ASSUME NEW s \in Tokens
        PROVE  [req EXCEPT ![t][k].pc = "revoking", ![t][k].snap = UnrevokedOf(s)]
                 \in [Tabs -> [Slots -> Request]]
    <2>1. [req[t][k] EXCEPT !.pc = "revoking", !.snap = UnrevokedOf(s)] \in Request
      BY <1>0 DEF Request, RequestSteps, UnrevokedOf
    <2>2. [req EXCEPT ![t][k] = [req[t][k] EXCEPT !.pc = "revoking", !.snap = UnrevokedOf(s)]]
            \in [Tabs -> [Slots -> Request]]
      BY <2>1, SlotUpdate DEF SessionsTypeOK
    <2>3. QED
      BY <2>2 DEF SessionsTypeOK
  <1>c. "issuing" \in RequestSteps /\ "rotating" \in RequestSteps
    BY DEF RequestSteps
  <1>1. ASSUME RefuseUnknown(t, k) \/ InsertFails(t, k) \/ AbortRotation(t, k)
        PROVE  SessionsTypeOK'
    BY <1>1, FailTyped DEF RefuseUnknown, InsertFails, AbortRotation, SessionsTypeOK
  <1>2. ASSUME LoginReads(t, k) PROVE SessionsTypeOK'
    <2>1. req' \in [Tabs -> [Slots -> Request]]
      BY <1>2, <1>a, <1>c, FailTyped DEF LoginReads
    <2>2. QED
      BY <1>2, <2>1 DEF LoginReads, SessionsTypeOK
  <1>3. ASSUME LoginCommits(t, k) PROVE SessionsTypeOK'
    <2>1. PICK u \in NextToken :
             /\ status' = [status EXCEPT ![u] = "live"]
             /\ sid' = [sid EXCEPT ![u] = u]
             /\ Succeed(t, k, u)
      BY <1>3 DEF LoginCommits
    <2>2. u \in Tokens
      BY <1>0
    <2>3. req' \in [Tabs -> [Slots -> Request]]
      BY <2>1, <2>2, SucceedTyped
    <2>4. /\ status' \in [Tokens -> Statuses]
          /\ sid' \in [Tokens -> Tokens]
      BY <1>0, <2>1, <2>2 DEF SessionsTypeOK
    <2>5. QED
      BY <1>3, <2>3, <2>4 DEF LoginCommits, SessionsTypeOK
  <1>4. ASSUME RotateReads(t, k) PROVE SessionsTypeOK'
    <2>1. req[t][k].tok \in Tokens
      BY <1>0, <1>4 DEF RotateReads, Request
    <2>2. sid[req[t][k].tok] \in Tokens
      BY <2>1 DEF SessionsTypeOK
    <2>3. req' \in [Tabs -> [Slots -> Request]]
      BY <1>4, <1>a, <1>b, <1>c, <2>2 DEF RotateReads
    <2>4. QED
      BY <1>4, <2>3 DEF RotateReads, SessionsTypeOK
  <1>5. ASSUME RotateCommits(t, k) PROVE SessionsTypeOK'
    <2> DEFINE u == req[t][k].tok
    <2>1. PICK v \in NextToken :
             /\ status' = [status EXCEPT ![u] = "revoked", ![v] = "live"]
             /\ sid' = [sid EXCEPT ![v] = sid[u]]
             /\ Succeed(t, k, v)
      BY <1>5 DEF RotateCommits
    <2>2. v \in Tokens
      BY <1>0
    <2>3. req' \in [Tabs -> [Slots -> Request]]
      BY <2>1, <2>2, SucceedTyped
    <2>4. status' \in [Tokens -> Statuses]
      BY <1>0, <2>1, <2>2 DEF SessionsTypeOK
    <2>a. u \in Tokens
      BY <1>5 DEF RotateCommits, RotatingIsUnrevoked
    <2>5. sid' \in [Tokens -> Tokens]
      BY <2>1, <2>2, <2>a DEF SessionsTypeOK
    <2>6. QED
      BY <1>5, <2>3, <2>4, <2>5 DEF RotateCommits, SessionsTypeOK
  <1>6. ASSUME LogoutReads(t, k) PROVE SessionsTypeOK'
    <2>1. req[t][k].tok \in Tokens
      BY <1>0, <1>6 DEF LogoutReads, Request
    <2>2. sid[req[t][k].tok] \in Tokens
      BY <2>1 DEF SessionsTypeOK
    <2>3. req' \in [Tabs -> [Slots -> Request]]
      BY <1>6, <1>b, <2>2, FailTyped DEF LogoutReads
    <2>4. QED
      BY <1>6, <2>3 DEF LogoutReads, SessionsTypeOK
  <1>7. ASSUME RevokeCommits(t, k) PROVE SessionsTypeOK'
    <2>1. req' \in [Tabs -> [Slots -> Request]]
      BY <1>0, <1>7, FailTyped, SucceedTyped DEF RevokeCommits
    <2>2. QED
      BY <1>7, <2>1, RevokeTyped DEF RevokeCommits, SessionsTypeOK
  <1>8. QED
    BY <1>1, <1>2, <1>3, <1>4, <1>5, <1>6, <1>7 DEF BackendStep

\* The administrator, time and the network keep the type.
LEMMA AdminStepTyped ==
    ASSUME SessionsTypeOK, AdminStep
    PROVE  SessionsTypeOK'
  <1> USE DEF browserVars, historyVars, boundVars
  <1>1. ASSUME DisableReads PROVE SessionsTypeOK'
    <2>1. admin' \in [open : BOOLEAN, snap : SUBSET Tokens]
      BY <1>1 DEF DisableReads
    <2>2. QED
      BY <1>1, <2>1, BoundsTyped DEF DisableReads, SessionsTypeOK
  <1>2. ASSUME DisableCommits PROVE SessionsTypeOK'
    BY <1>2, RevokeTyped, RecordsTyped DEF DisableCommits, SessionsTypeOK
  <1>3. ASSUME AbortDisable PROVE SessionsTypeOK'
    BY <1>3, RecordsTyped DEF AbortDisable, SessionsTypeOK
  <1>4. ASSUME Enable PROVE SessionsTypeOK'
    BY <1>4, BoundsTyped DEF Enable, SessionsTypeOK
  <1>5. QED
    BY <1>1, <1>2, <1>3, <1>4 DEF AdminStep

LEMMA FaultStepTyped ==
    ASSUME SessionsTypeOK, FaultStep
    PROVE  SessionsTypeOK'
  <1> USE DEF dbVars, browserVars, historyVars, boundVars
  <1>1. ASSUME NEW u \in Tokens, AccessExpires(u) PROVE SessionsTypeOK'
    BY <1>1 DEF AccessExpires, SessionsTypeOK
  <1>2. ASSUME NEW u \in Tokens, TokenExpires(u) PROVE SessionsTypeOK'
    <2>1. status' \in [Tokens -> Statuses]
      BY <1>2 DEF TokenExpires, SessionsTypeOK, Statuses
    <2>2. QED
      BY <1>2, <2>1, BoundsTyped DEF TokenExpires, SessionsTypeOK
  <1>3. ASSUME NEW t \in Tabs, NEW c \in AllCalls, LoseCall(t, c) PROVE SessionsTypeOK'
    <2>1. GiveUp(c) \in CallRecord
      BY RecordsTyped DEF GiveUp, CallRecord, CallSteps
    <2>2. call' \in [Tabs -> [AllCalls -> CallRecord]]
      BY <1>3, <2>1, CallUpdate DEF LoseCall, SessionsTypeOK
    <2>3. QED
      BY <1>3, <2>2, BoundsTyped DEF LoseCall, SessionsTypeOK
  <1>4. ASSUME NEW t \in Tabs, NEW k \in Slots, LoseRequest(t, k) PROVE SessionsTypeOK'
    BY <1>4, FailTyped, BoundsTyped DEF LoseRequest, SessionsTypeOK
  <1>5. ASSUME NEW t \in Tabs, LoseAnswer(t) PROVE SessionsTypeOK'
    <2>1. "refresh" \in Slots
      BY DEF Slots
    <2>2. req' \in [Tabs -> [Slots -> Request]]
      BY <1>5, <2>1, FailTyped DEF LoseAnswer
    <2>3. lost' \subseteq Tokens
      BY <1>5 DEF LoseAnswer, SessionsTypeOK
    <2>4. QED
      BY <1>5, <2>2, <2>3, BoundsTyped DEF LoseAnswer, SessionsTypeOK
  <1>6. QED
    BY <1>1, <1>2, <1>3, <1>4, <1>5 DEF FaultStep

LEMMA NextTyped ==
    ASSUME SessionsTypeOK, RotatingIsUnrevoked, [SessionsNext]_sessionVars
    PROVE  SessionsTypeOK'
  <1>1. CASE UNCHANGED sessionVars
    BY <1>1 DEF sessionVars, SessionsTypeOK
  <1>2. CASE SessionsNext
    BY <1>2, CallStepTyped, AnswerStepTyped, UserStepTyped, BackendStepTyped,
       AdminStepTyped, FaultStepTyped DEF SessionsNext
  <1>3. QED
    BY <1>1, <1>2

-----------------------------------------------------------------------------
(* The invariant. *)

LEMMA InitRows == SessionsInit => RowInv
  <1> SUFFICES ASSUME SessionsInit PROVE RowInv
    OBVIOUS
  <1>1. \A t \in Tabs, k \in Slots : ~ Matters(req[t][k]) /\ req[t][k].pc = "free"
    BY DEF SessionsInit, Matters, Holding, LoggedOut, Free
  <1>2. LocksExclusive /\ RotatingIsUnrevoked /\ LogoutHoldsToken /\ LogoutDone
    BY <1>1 DEF LocksExclusive, RotatingIsUnrevoked, LogoutHoldsToken, LogoutDone, Matters
  <1>3. SessionIssued /\ OneUnrevokedToken
    BY DEF SessionsInit, SessionIssued, OneUnrevokedToken, Issued, Unrevoked
  <1>4. QED
    BY <1>2, <1>3 DEF RowInv

\* A step that leaves the token rows alone and starts or finishes nothing the
\* invariant speaks about.
Quiet ==
    /\ status' = status
    /\ sid' = sid
    /\ \A t \in Tabs, k \in Slots :
          req'[t][k] = req[t][k] \/ ~ Matters(req'[t][k])

LEMMA QuietKeeps ==
    ASSUME RowInv, Quiet
    PROVE  RowInv'
  <1> USE DEF Quiet, Matters, Holding, LoggedOut
  <1>1. LocksExclusive'
    BY DEF RowInv, LocksExclusive
  <1>2. RotatingIsUnrevoked'
    BY DEF RowInv, RotatingIsUnrevoked, Unrevoked
  <1>3. LogoutHoldsToken'
    BY DEF RowInv, LogoutHoldsToken, Unrevoked
  <1>4. LogoutDone'
    BY DEF RowInv, LogoutDone, Unrevoked, UnrevokedOf, Issued
  <1>5. SessionIssued' /\ OneUnrevokedToken'
    BY DEF RowInv, SessionIssued, OneUnrevokedToken, Issued, Unrevoked
  <1>6. QED
    BY <1>1, <1>2, <1>3, <1>4, <1>5 DEF RowInv

\* A request that fails, or one that changes to a record that does not matter,
\* disturbs no other.
LEMMA FailIsQuiet ==
    ASSUME SessionsTypeOK, NEW t \in Tabs, NEW k \in Slots, Fail(t, k),
           status' = status, sid' = sid
    PROVE  Quiet
  <1>1. \A o \in Tabs, j \in Slots : <<o, j>> # <<t, k>> => req'[o][j] = req[o][j]
    BY DEF Fail, SessionsTypeOK
  <1>2. req'[t][k] = IF k = "orphan" THEN Free
                     ELSE [Free EXCEPT !.pc = "answered", !.kind = req[t][k].kind]
    BY DEF Fail, SessionsTypeOK
  <1>3. ~ Matters(req'[t][k])
    BY <1>2 DEF Matters, Holding, LoggedOut, Free
  <1>4. QED
    BY <1>1, <1>3 DEF Quiet

LEMMA SlotIsQuiet ==
    ASSUME SessionsTypeOK, NEW t \in Tabs, NEW k \in Slots, NEW r,
           req' = [req EXCEPT ![t][k] = r], ~ Matters(r),
           status' = status, sid' = sid
    PROVE  Quiet
  <1>1. \A o \in Tabs, j \in Slots : <<o, j>> # <<t, k>> => req'[o][j] = req[o][j]
    BY DEF SessionsTypeOK
  <1>2. req'[t][k] = r
    BY DEF SessionsTypeOK
  <1>3. QED
    BY <1>1, <1>2 DEF Quiet

LEMMA RefreshIsQuiet ==
    ASSUME SessionsTypeOK, NEW t \in Tabs, refreshSession(t),
           status' = status, sid' = sid
    PROVE  Quiet
  <1>1. CASE refreshPromise(t)
    BY <1>1 DEF refreshSession, Quiet
  <1>2. CASE ~ refreshPromise(t)
    <2>1. ~ Matters(AuthRequest("refresh"))
      BY DEF Matters, Holding, LoggedOut, AuthRequest, Free
    <2>2. "refresh" \in Slots
      BY DEF Slots
    <2>3. QED
      BY <1>2, <2>1, <2>2, SlotIsQuiet DEF refreshSession
  <1>3. QED
    BY <1>1, <1>2

\* The continuations, the calls and the clicks of a tab change no row, and they
\* send requests or forget them.
LEMMA ClientIsQuiet ==
    ASSUME SessionsTypeOK, NEW t \in Tabs,
           \/ AnswerStep(t)
           \/ UserStep(t) /\ ~ Reload(t)
           \/ \E c \in AllCalls : CallStep(t, c)
    PROVE  Quiet
  <1> USE DEF dbVars, browserVars, historyVars, boundVars
  <1>0. /\ "refresh" \in Slots /\ "user" \in Slots
        /\ ~ Matters(Free)
        /\ \A kind \in Kinds : ~ Matters(AuthRequest(kind))
    BY DEF Slots, Matters, Holding, LoggedOut, AuthRequest, Free
  <1>1. ASSUME NEW c \in AllCalls, CallStep(t, c) PROVE Quiet
    <2>1. CASE req' = req
      BY <1>1, <2>1 DEF CallStep, Serve, Deny, ReceiveDenied, ReceiveRedenied, Quiet
    <2>2. CASE ReceiveDenied(t, c)
      BY <2>2, RefreshIsQuiet DEF ReceiveDenied
    <2>3. QED
      BY <1>1, <2>1, <2>2 DEF CallStep, Serve, Deny, ReceiveRedenied
  <1>2. ASSUME AnswerStep(t) PROVE Quiet
    <2>1. CASE GateRefresh(t)
      BY <2>1, RefreshIsQuiet DEF GateRefresh
    <2>2. CASE RefreshSucceeds(t) \/ RefreshFails(t)
      BY <1>0, <2>2, SlotIsQuiet DEF RefreshSucceeds, RefreshFails
    <2>3. CASE LoginAnswered(t) \/ LogoutAnswered(t)
      BY <1>0, <2>3, SlotIsQuiet DEF LoginAnswered, LogoutAnswered
    <2>4. QED
      BY <1>2, <2>1, <2>2, <2>3 DEF AnswerStep
  <1>3. ASSUME UserStep(t), ~ Reload(t) PROVE Quiet
    <2>1. CASE OpenTab(t) \/ \E c \in Calls : UserCall(t, c)
      BY <2>1 DEF OpenTab, UserCall, Quiet
    <2>2. CASE SubmitLogin(t) \/ SubmitLogout(t)
      BY <1>0, <2>2, SlotIsQuiet DEF SubmitLogin, SubmitLogout, Kinds
    <2>3. QED
      BY <1>3, <2>1, <2>2 DEF UserStep
  <1>4. QED
    BY <1>1, <1>2, <1>3

\* A reload moves the one request still being processed to another slot.
LEMMA ReloadKeeps ==
    ASSUME SessionsTypeOK, RowInv, NEW t \in Tabs, Reload(t)
    PROVE  RowInv'
  <1> DEFINE inFlight == {k \in Slots : req[t][k].pc \notin {"free", "answered"}}
             b == CHOOSE x \in inFlight : TRUE
  <1> USE DEF dbVars, Matters, Holding, LoggedOut
  <1>1. status' = status /\ sid' = sid
    BY DEF Reload
  <1>2. \A o \in Tabs, j \in Slots : o # t => req'[o][j] = req[o][j]
    BY DEF Reload, SessionsTypeOK
  <1>3. \A j \in Slots : req'[t][j] = IF j = "orphan" /\ inFlight # {} THEN req[t][b] ELSE Free
    BY DEF Reload, SessionsTypeOK
  <1>4. inFlight # {} => b \in Slots
    OBVIOUS
  <1>5. \A j \in Slots : Matters(req'[t][j]) => j = "orphan" /\ inFlight # {}
    BY <1>3 DEF Free
  <1>6. LocksExclusive'
    <2> SUFFICES ASSUME NEW o \in Tabs, NEW p \in Tabs, NEW j \in Slots, NEW k \in Slots,
                        Holding(req'[o][j]), Holding(req'[p][k]),
                        req'[o][j].tok = req'[p][k].tok
                 PROVE  o = p /\ j = k
      BY DEF LocksExclusive
    <2>1. CASE o = t /\ p = t
      BY <1>5, <2>1
    <2>2. CASE o = t /\ p # t
      <3>1. req'[o][j] = req[t][b] /\ b \in Slots
        BY <1>3, <1>4, <1>5, <2>2
      <3>2. req'[p][k] = req[p][k]
        BY <1>2, <2>2
      <3>3. QED
        BY <2>2, <3>1, <3>2 DEF RowInv, LocksExclusive
    <2>3. CASE o # t /\ p = t
      <3>1. req'[p][k] = req[t][b] /\ b \in Slots
        BY <1>3, <1>4, <1>5, <2>3
      <3>2. req'[o][j] = req[o][j]
        BY <1>2, <2>3
      <3>3. QED
        BY <2>3, <3>1, <3>2 DEF RowInv, LocksExclusive
    <2>4. CASE o # t /\ p # t
      BY <1>2, <2>4 DEF RowInv, LocksExclusive
    <2>5. QED
      BY <2>1, <2>2, <2>3, <2>4
  <1>7. ASSUME NEW o \in Tabs, NEW j \in Slots, Matters(req'[o][j])
        PROVE  \E k \in Slots : req'[o][j] = req[o][k]
    BY <1>2, <1>3, <1>4, <1>5, <1>7
  <1>8. RotatingIsUnrevoked'
    BY <1>1, <1>7 DEF RowInv, RotatingIsUnrevoked, Unrevoked
  <1>9. LogoutHoldsToken'
    BY <1>1, <1>7 DEF RowInv, LogoutHoldsToken, Unrevoked
  <1>10. LogoutDone'
    BY <1>1, <1>7 DEF RowInv, LogoutDone, Unrevoked, UnrevokedOf, Issued
  <1>11. SessionIssued' /\ OneUnrevokedToken'
    BY <1>1 DEF RowInv, SessionIssued, OneUnrevokedToken, Issued, Unrevoked
  <1>12. QED
    BY <1>6, <1>8, <1>9, <1>10, <1>11 DEF RowInv

\* A transaction locks a token nobody else holds; a logout that goes on has
\* found it unrevoked.
LEMMA ReadsKeep ==
    ASSUME SessionsTypeOK, RowInv, NEW t \in Tabs, NEW k \in Slots,
           RotateReads(t, k) \/ LogoutReads(t, k)
    PROVE  RowInv'
  <1> DEFINE u == req[t][k].tok
  <1> USE DEF dbVars
  <1>1. /\ status' = status /\ sid' = sid
        /\ u \in Tokens
        /\ ~ LockedByOther(t, k, u)
    BY DEF RotateReads, LogoutReads, SessionsTypeOK, Request
  <1>2. CASE Fail(t, k)
    BY <1>1, <1>2, FailIsQuiet, QuietKeeps
  <1>3. CASE ~ Fail(t, k)
    <2>1. \A o \in Tabs, j \in Slots : <<o, j>> # <<t, k>> => req'[o][j] = req[o][j]
      BY <1>3 DEF RotateReads, LogoutReads, SessionsTypeOK
    <2>2. /\ req'[t][k].tok = u
          /\ req'[t][k].kind = req[t][k].kind
          /\ \/ /\ req'[t][k].pc = "rotating"
                /\ status[u] = "live"
             \/ /\ req'[t][k].pc = "revoking"
                /\ req'[t][k].snap = UnrevokedOf(sid[u])
                /\ req[t][k].kind = "logout" => Unrevoked(u)
      <3>1. CASE RotateReads(t, k)
        BY <3>1 DEF RotateReads, SessionsTypeOK, Request
      <3>2. CASE LogoutReads(t, k)
        BY <1>3, <3>2 DEF LogoutReads, SessionsTypeOK, Request
      <3>3. QED
        BY <3>1, <3>2
    <2>3. LocksExclusive'
      <3>1. \A o \in Tabs, j \in Slots :
              <<o, j>> # <<t, k>> => ~ (Holding(req[o][j]) /\ req[o][j].tok = u)
        BY <1>1 DEF LockedByOther, Holds, Holding
      <3>2. QED
        BY <2>1, <2>2, <3>1 DEF RowInv, LocksExclusive
    <2>4. RotatingIsUnrevoked'
      BY <1>1, <2>1, <2>2 DEF RowInv, RotatingIsUnrevoked, Unrevoked
    <2>5. LogoutHoldsToken'
      <3> SUFFICES ASSUME NEW o \in Tabs, NEW j \in Slots,
                          req'[o][j].pc = "revoking", req'[o][j].kind = "logout"
                   PROVE  /\ req'[o][j].tok \in req'[o][j].snap
                          /\ req'[o][j].tok \in Tokens
                          /\ status'[req'[o][j].tok] \in {"live", "expired"}
        BY DEF LogoutHoldsToken, Unrevoked
      <3>1. CASE <<o, j>> = <<t, k>>
        BY <1>1, <2>2, <3>1 DEF UnrevokedOf, Unrevoked
      <3>2. CASE <<o, j>> # <<t, k>>
        BY <1>1, <2>1, <3>2 DEF RowInv, LogoutHoldsToken, Unrevoked
      <3>3. QED
        BY <3>1, <3>2
    <2>6. LogoutDone'
      BY <1>1, <2>1, <2>2 DEF RowInv, LogoutDone, LoggedOut, Unrevoked, UnrevokedOf, Issued
    <2>7. SessionIssued' /\ OneUnrevokedToken'
      BY <1>1 DEF RowInv, SessionIssued, OneUnrevokedToken, Issued, Unrevoked
    <2>8. QED
      BY <2>3, <2>4, <2>5, <2>6, <2>7 DEF RowInv
  <1>4. QED
    BY <1>2, <1>3

\* A rotation replaces the only unrevoked token of its session.
LEMMA RotateKeeps ==
    ASSUME SessionsTypeOK, RowInv, NEW t \in Tabs, NEW k \in Slots, RotateCommits(t, k)
    PROVE  RowInv'
  <1> DEFINE u == req[t][k].tok
  <1> USE DEF Matters, Holding, LoggedOut
  <1>1. PICK v \in NextToken :
           /\ status' = [status EXCEPT ![u] = "revoked", ![v] = "live"]
           /\ sid' = [sid EXCEPT ![v] = sid[u]]
           /\ Succeed(t, k, v)
    BY DEF RotateCommits
  <1>2. u \in Tokens /\ Unrevoked(u)
    BY DEF RotateCommits, RowInv, RotatingIsUnrevoked
  <1>3. v \in Tokens /\ status[v] = "unborn"
    BY DEF NextToken, Issued
  <1>4. u # v
    BY <1>2, <1>3 DEF Unrevoked
  <1>5. \A w \in Tokens : /\ status'[w] = IF w = v THEN "live" ELSE IF w = u THEN "revoked" ELSE status[w]
                          /\ sid'[w] = IF w = v THEN sid[u] ELSE sid[w]
    BY <1>1, <1>2, <1>3, <1>4 DEF SessionsTypeOK
  <1>6. \A o \in Tabs, j \in Slots : <<o, j>> # <<t, k>> => req'[o][j] = req[o][j]
    BY <1>1 DEF Succeed, SessionsTypeOK
  <1>7. ~ Matters(req'[t][k])
    <2>1. req[t][k].kind # "logout"
      BY DEF RotateCommits
    <2>2. QED
      BY <1>1, <2>1 DEF Succeed, SessionsTypeOK, Free, Request
  <1>8. \A o \in Tabs, j \in Slots :
          Holding(req[o][j]) /\ <<o, j>> # <<t, k>> => req[o][j].tok # u
    BY DEF RotateCommits, RowInv, LocksExclusive
  <1>9. \A w \in Tokens : Unrevoked(w) /\ sid[w] = sid[u] => w = u
    BY <1>2 DEF RowInv, OneUnrevokedToken
  <1>10. LocksExclusive'
    BY <1>6, <1>7 DEF RowInv, LocksExclusive
  <1>11. RotatingIsUnrevoked'
    BY <1>3, <1>5, <1>6, <1>7, <1>8 DEF RowInv, RotatingIsUnrevoked, Unrevoked
  <1>12. LogoutHoldsToken'
    BY <1>3, <1>5, <1>6, <1>7, <1>8 DEF RowInv, LogoutHoldsToken, Unrevoked
  <1>13. SessionIssued'
    <2>1. Issued(sid[u])
      BY <1>2 DEF RowInv, SessionIssued, Issued, Unrevoked
    <2>2. QED
      BY <1>2, <1>3, <1>5, <2>1 DEF RowInv, SessionIssued, Issued, SessionsTypeOK
  <1>14. LogoutDone'
    <2> SUFFICES ASSUME NEW o \in Tabs, NEW j \in Slots, LoggedOut(req'[o][j])
                 PROVE  /\ req'[o][j].tok \in Tokens
                        /\ status'[req'[o][j].tok] # "unborn"
                        /\ \A w \in Tokens : status'[w] \in {"live", "expired"}
                                             => sid'[w] # sid'[req'[o][j].tok]
      BY DEF LogoutDone, Issued, UnrevokedOf, Unrevoked
    <2>1. req'[o][j] = req[o][j]
      BY <1>6, <1>7
    <2> DEFINE l == req[o][j].tok
    <2>2. /\ l \in Tokens
          /\ Issued(l)
          /\ \A w \in Tokens : Unrevoked(w) => sid[w] # sid[l]
      BY <2>1 DEF RowInv, LogoutDone, UnrevokedOf
    <2>3. l # v /\ sid[l] # sid[u]
      BY <1>2, <1>3, <2>2 DEF Issued
    <2>4. QED
      BY <1>5, <2>1, <2>2, <2>3 DEF Issued, Unrevoked
  <1>15. OneUnrevokedToken'
    BY <1>3, <1>4, <1>5, <1>9 DEF RowInv, OneUnrevokedToken, Unrevoked
  <1>16. QED
    BY <1>10, <1>11, <1>12, <1>13, <1>14, <1>15 DEF RowInv

\* A login opens a session that no token has.
LEMMA LoginKeeps ==
    ASSUME SessionsTypeOK, RowInv, NEW t \in Tabs, NEW k \in Slots, LoginCommits(t, k)
    PROVE  RowInv'
  <1> USE DEF Matters, Holding, LoggedOut
  <1>1. PICK v \in NextToken :
           /\ status' = [status EXCEPT ![v] = "live"]
           /\ sid' = [sid EXCEPT ![v] = v]
           /\ Succeed(t, k, v)
    BY DEF LoginCommits
  <1>2. v \in Tokens /\ status[v] = "unborn"
    BY DEF NextToken, Issued
  <1>3. \A w \in Tokens : /\ status'[w] = IF w = v THEN "live" ELSE status[w]
                          /\ sid'[w] = IF w = v THEN v ELSE sid[w]
    BY <1>1, <1>2 DEF SessionsTypeOK
  <1>4. \A o \in Tabs, j \in Slots : <<o, j>> # <<t, k>> => req'[o][j] = req[o][j]
    BY <1>1 DEF Succeed, SessionsTypeOK
  <1>5. ~ Matters(req'[t][k])
    <2>1. req[t][k].kind # "logout"
      BY DEF LoginCommits
    <2>2. QED
      BY <1>1, <2>1 DEF Succeed, SessionsTypeOK, Free, Request
  <1>6. \A w \in Tokens : Issued(w) => sid[w] # v
    BY <1>2 DEF RowInv, SessionIssued, Issued
  <1>7. LocksExclusive'
    BY <1>4, <1>5 DEF RowInv, LocksExclusive
  <1>8. RotatingIsUnrevoked'
    BY <1>2, <1>3, <1>4, <1>5 DEF RowInv, RotatingIsUnrevoked, Unrevoked
  <1>9. LogoutHoldsToken'
    BY <1>2, <1>3, <1>4, <1>5 DEF RowInv, LogoutHoldsToken, Unrevoked
  <1>10. SessionIssued'
    BY <1>2, <1>3 DEF RowInv, SessionIssued, Issued, SessionsTypeOK
  <1>11. LogoutDone'
    <2> SUFFICES ASSUME NEW o \in Tabs, NEW j \in Slots, LoggedOut(req'[o][j])
                 PROVE  /\ req'[o][j].tok \in Tokens
                        /\ status'[req'[o][j].tok] # "unborn"
                        /\ \A w \in Tokens : status'[w] \in {"live", "expired"}
                                             => sid'[w] # sid'[req'[o][j].tok]
      BY DEF LogoutDone, Issued, UnrevokedOf, Unrevoked
    <2>1. req'[o][j] = req[o][j]
      BY <1>4, <1>5
    <2> DEFINE l == req[o][j].tok
    <2>2. /\ l \in Tokens
          /\ Issued(l)
          /\ \A w \in Tokens : Unrevoked(w) => sid[w] # sid[l]
      BY <2>1 DEF RowInv, LogoutDone, UnrevokedOf
    <2>3. l # v /\ sid[l] # v
      BY <1>2, <1>6, <2>2 DEF Issued
    <2>4. QED
      BY <1>3, <2>1, <2>2, <2>3 DEF Issued, Unrevoked
  <1>12. OneUnrevokedToken'
    BY <1>2, <1>3, <1>6 DEF RowInv, OneUnrevokedToken, Unrevoked, Issued
  <1>13. QED
    BY <1>7, <1>8, <1>9, <1>10, <1>11, <1>12 DEF RowInv

\* An UPDATE that revokes rows nobody else holds.
LEMMA RevokeKeeps ==
    ASSUME SessionsTypeOK, RowInv, NEW t \in Tabs, NEW k \in Slots, RevokeCommits(t, k)
    PROVE  RowInv'
  <1> DEFINE S == req[t][k].snap
             u == req[t][k].tok
  <1>1. \A w \in Tokens : status'[w] = IF w \in S /\ Unrevoked(w) THEN "revoked" ELSE status[w]
    BY DEF RevokeCommits, RevokeRows
  <1>2. sid' = sid
    BY DEF RevokeCommits
  <1>3. \A o \in Tabs, j \in Slots : <<o, j>> # <<t, k>> => req'[o][j] = req[o][j]
    BY DEF RevokeCommits, Fail, Succeed, SessionsTypeOK
  <1>4. \A o \in Tabs, j \in Slots :
          <<o, j>> # <<t, k>> /\ Holding(req[o][j]) => req[o][j].tok \notin S
    BY DEF RevokeCommits, LockedByOther, Holds, Holding
  <1>5. /\ ~ Holding(req'[t][k])
        /\ LoggedOut(req'[t][k]) => req[t][k].kind = "logout" /\ req'[t][k].tok = u
    <2>1. CASE Fail(t, k)
      BY <2>1 DEF Fail, SessionsTypeOK, Holding, LoggedOut, Free
    <2>2. CASE req[t][k].kind = "logout" /\ Succeed(t, k, NoToken)
      BY <2>2 DEF Succeed, SessionsTypeOK, Holding, LoggedOut, Free, Request
    <2>3. QED
      BY <2>1, <2>2 DEF RevokeCommits
  <1>6. LocksExclusive'
    BY <1>3, <1>5 DEF RowInv, LocksExclusive
  <1>7. RotatingIsUnrevoked'
    BY <1>1, <1>3, <1>4, <1>5 DEF RowInv, RotatingIsUnrevoked, Unrevoked, Holding
  <1>8. LogoutHoldsToken'
    BY <1>1, <1>3, <1>4, <1>5 DEF RowInv, LogoutHoldsToken, Unrevoked, Holding
  <1>9. SessionIssued'
    BY <1>1, <1>2 DEF RowInv, SessionIssued, Issued, Unrevoked, SessionsTypeOK
  <1>10. LogoutDone'
    <2> SUFFICES ASSUME NEW o \in Tabs, NEW j \in Slots, LoggedOut(req'[o][j])
                 PROVE  /\ req'[o][j].tok \in Tokens
                        /\ status'[req'[o][j].tok] # "unborn"
                        /\ \A w \in Tokens : status'[w] \in {"live", "expired"}
                                             => sid'[w] # sid'[req'[o][j].tok]
      BY DEF LogoutDone, Issued, UnrevokedOf, Unrevoked
    <2>1. CASE <<o, j>> = <<t, k>>
      <3>1. u \in S /\ u \in Tokens /\ Unrevoked(u)
        BY <1>5, <2>1 DEF RevokeCommits, RowInv, LogoutHoldsToken
      <3>2. \A w \in Tokens : Unrevoked(w) /\ sid[w] = sid[u] => w = u
        BY <3>1 DEF RowInv, OneUnrevokedToken
      <3>3. req'[o][j].tok = u
        BY <1>5, <2>1
      <3>4. QED
        BY <1>1, <1>2, <3>1, <3>2, <3>3 DEF Unrevoked
    <2>2. CASE <<o, j>> # <<t, k>>
      <3>1. req'[o][j] = req[o][j]
        BY <1>3, <2>2
      <3>2. /\ req[o][j].tok \in Tokens
            /\ Issued(req[o][j].tok)
            /\ \A w \in Tokens : Unrevoked(w) => sid[w] # sid[req[o][j].tok]
        BY <3>1 DEF RowInv, LogoutDone, UnrevokedOf
      <3>3. QED
        BY <1>1, <1>2, <3>1, <3>2 DEF Issued, Unrevoked
    <2>3. QED
      BY <2>1, <2>2
  <1>11. OneUnrevokedToken'
    BY <1>1, <1>2 DEF RowInv, OneUnrevokedToken, Unrevoked
  <1>12. QED
    BY <1>6, <1>7, <1>8, <1>9, <1>10, <1>11 DEF RowInv

LEMMA DisableKeeps ==
    ASSUME SessionsTypeOK, RowInv, DisableCommits
    PROVE  RowInv'
  <1> DEFINE S == admin.snap
  <1>1. \A w \in Tokens : status'[w] = IF w \in S /\ Unrevoked(w) THEN "revoked" ELSE status[w]
    BY DEF DisableCommits, RevokeRows
  <1>2. sid' = sid /\ req' = req
    BY DEF DisableCommits
  <1>3. \A o \in Tabs, j \in Slots : Holding(req[o][j]) => req[o][j].tok \notin S
    BY DEF DisableCommits, Holds, Holding
  <1>4. LocksExclusive'
    BY <1>2 DEF RowInv, LocksExclusive
  <1>5. RotatingIsUnrevoked'
    BY <1>1, <1>2, <1>3 DEF RowInv, RotatingIsUnrevoked, Unrevoked, Holding
  <1>6. LogoutHoldsToken'
    BY <1>1, <1>2, <1>3 DEF RowInv, LogoutHoldsToken, Unrevoked, Holding
  <1>7. SessionIssued'
    BY <1>1, <1>2 DEF RowInv, SessionIssued, Issued, Unrevoked, SessionsTypeOK
  <1>8. LogoutDone'
    BY <1>1, <1>2 DEF RowInv, LogoutDone, Issued, Unrevoked, UnrevokedOf
  <1>9. OneUnrevokedToken'
    BY <1>1, <1>2 DEF RowInv, OneUnrevokedToken, Unrevoked
  <1>10. QED
    BY <1>4, <1>5, <1>6, <1>7, <1>8, <1>9 DEF RowInv

\* An expired token is still unrevoked.
LEMMA ExpiryKeeps ==
    ASSUME SessionsTypeOK, RowInv, NEW u \in Tokens, TokenExpires(u)
    PROVE  RowInv'
  <1>1. /\ sid' = sid /\ req' = req
        /\ \A w \in Tokens : /\ status'[w] \in {"live", "expired"} <=> Unrevoked(w)
                             /\ status'[w] # "unborn" <=> Issued(w)
    BY DEF TokenExpires, browserVars, Unrevoked, Issued, SessionsTypeOK
  <1>2. LocksExclusive' /\ RotatingIsUnrevoked' /\ LogoutHoldsToken'
    BY <1>1 DEF RowInv, LocksExclusive, RotatingIsUnrevoked, LogoutHoldsToken, Unrevoked
  <1>3. SessionIssued'
    BY <1>1 DEF RowInv, SessionIssued, Issued, SessionsTypeOK
  <1>4. LogoutDone'
    <2>1. \A s : UnrevokedOf(s)' = UnrevokedOf(s)
      BY <1>1 DEF UnrevokedOf, Unrevoked
    <2>2. QED
      BY <1>1, <2>1 DEF RowInv, LogoutDone, Issued
  <1>5. OneUnrevokedToken'
    BY <1>1 DEF RowInv, OneUnrevokedToken, Unrevoked
  <1>6. QED
    BY <1>2, <1>3, <1>4, <1>5 DEF RowInv

\* The other steps of the backend, the administrator, time and the network.
LEMMA OthersAreQuiet ==
    ASSUME SessionsTypeOK,
           \/ \E t \in Tabs, k \in Slots : \/ RefuseUnknown(t, k)
                                          \/ LoginReads(t, k)
                                          \/ InsertFails(t, k)
                                          \/ AbortRotation(t, k)
                                          \/ LoseRequest(t, k)
           \/ \E t \in Tabs : LoseAnswer(t)
           \/ DisableReads \/ AbortDisable \/ Enable
           \/ \E u \in Tokens : AccessExpires(u)
           \/ \E t \in Tabs, c \in AllCalls : LoseCall(t, c)
    PROVE  Quiet
  <1> USE DEF dbVars, browserVars, historyVars, boundVars
  <1>1. ASSUME NEW t \in Tabs, NEW k \in Slots,
               RefuseUnknown(t, k) \/ InsertFails(t, k) \/ AbortRotation(t, k) \/ LoseRequest(t, k)
        PROVE  Quiet
    BY <1>1, FailIsQuiet DEF RefuseUnknown, InsertFails, AbortRotation, LoseRequest
  <1>2. ASSUME NEW t \in Tabs, NEW k \in Slots, LoginReads(t, k) PROVE Quiet
    <2>1. CASE Fail(t, k)
      BY <1>2, <2>1, FailIsQuiet DEF LoginReads
    <2>2. CASE ~ Fail(t, k)
      <3>1. req' = [req EXCEPT ![t][k] = [req[t][k] EXCEPT !.pc = "issuing"]]
        BY <1>2, <2>2 DEF LoginReads
      <3>2. ~ Matters([req[t][k] EXCEPT !.pc = "issuing"])
        BY DEF Matters, Holding, LoggedOut, SessionsTypeOK, Request
      <3>3. QED
        BY <1>2, <3>1, <3>2, SlotIsQuiet DEF LoginReads
    <2>3. QED
      BY <2>1, <2>2
  <1>3. ASSUME NEW t \in Tabs, LoseAnswer(t) PROVE Quiet
    BY <1>3, FailIsQuiet DEF LoseAnswer, Slots
  <1>4. ASSUME \/ DisableReads \/ AbortDisable \/ Enable
               \/ \E u \in Tokens : AccessExpires(u)
               \/ \E t \in Tabs, c \in AllCalls : LoseCall(t, c)
        PROVE  Quiet
    BY <1>4 DEF DisableReads, AbortDisable, Enable, AccessExpires, LoseCall, Quiet
  <1>5. QED
    BY <1>1, <1>2, <1>3, <1>4

LEMMA NextKeepsRows ==
    ASSUME SessionsTypeOK, RowInv, [SessionsNext]_sessionVars
    PROVE  RowInv'
  <1>1. CASE UNCHANGED sessionVars
    BY <1>1, QuietKeeps DEF sessionVars, Quiet
  <1>2. ASSUME NEW t \in Tabs, UserStep(t) \/ AnswerStep(t) PROVE RowInv'
    BY <1>2, ClientIsQuiet, QuietKeeps, ReloadKeeps
  <1>3. ASSUME NEW t \in Tabs, NEW c \in AllCalls, CallStep(t, c) PROVE RowInv'
    BY <1>3, ClientIsQuiet, QuietKeeps
  <1>4. ASSUME NEW t \in Tabs, NEW k \in Slots, BackendStep(t, k) PROVE RowInv'
    BY <1>4, OthersAreQuiet, QuietKeeps, ReadsKeep, RotateKeeps, LoginKeeps, RevokeKeeps
       DEF BackendStep
  <1>5. ASSUME AdminStep PROVE RowInv'
    BY <1>5, OthersAreQuiet, QuietKeeps, DisableKeeps DEF AdminStep
  <1>6. ASSUME FaultStep PROVE RowInv'
    BY <1>6, OthersAreQuiet, QuietKeeps, ExpiryKeeps DEF FaultStep
  <1>7. QED
    BY <1>1, <1>2, <1>3, <1>4, <1>5, <1>6 DEF SessionsNext

LEMMA SessionsInvariant == SessionsSpec => [](SessionsTypeOK /\ RowInv)
  <1>1. SessionsInit => SessionsTypeOK /\ RowInv
    BY InitTyped, InitRows
  <1>2. SessionsTypeOK /\ RowInv /\ [SessionsNext]_sessionVars => (SessionsTypeOK /\ RowInv)'
    BY NextTyped, NextKeepsRows DEF RowInv
  <1>3. QED
    BY <1>1, <1>2, PTL DEF SessionsSpec

\* Variables keep their types.
THEOREM SessionsTypeCorrect == SessionsSpec => []SessionsTypeOK
  BY SessionsInvariant, PTL

\* However many tabs rotate and revoke at once, a session has at most one
\* token that is not revoked, so validate_access_token never finds two.
THEOREM OneTokenPerSession == SessionsSpec => []OneUnrevokedToken
  <1>1. RowInv => OneUnrevokedToken
    BY DEF RowInv
  <1>2. QED
    BY <1>1, SessionsInvariant, PTL

\* A logout answered with success has ended its session: the rotations that
\* other tabs had in flight come before it or find the token revoked.
THEOREM LogoutIsFinal == SessionsSpec => []LogoutEndsSession
  <1>1. RowInv => LogoutEndsSession
    BY DEF RowInv, LogoutDone, LoggedOut, LogoutEndsSession
  <1>2. QED
    BY <1>1, SessionsInvariant, PTL

-----------------------------------------------------------------------------
(* What a step may do to the token rows. *)

\* Rows may be revoked or expire, in any number, but none appears.
OnlyRevokes ==
    /\ sid' = sid
    /\ \A w \in Tokens : /\ Issued(w)' <=> Issued(w)
                         /\ Unrevoked(w)' => Unrevoked(w)

LEMMA RowStep ==
    ASSUME SessionsTypeOK, RowInv, [SessionsNext]_sessionVars
    PROVE  \/ OnlyRevokes
           \/ \E t \in Tabs, k \in Slots : RotateCommits(t, k) \/ LoginCommits(t, k)
  <1> USE DEF OnlyRevokes, Issued, Unrevoked
  <1>a. Quiet => OnlyRevokes
    BY DEF Quiet
  <1>b. ASSUME NEW S, RevokeRows(S), sid' = sid PROVE OnlyRevokes
    BY <1>b DEF RevokeRows
  <1>1. CASE UNCHANGED sessionVars
    BY <1>1 DEF sessionVars
  <1>2. ASSUME NEW t \in Tabs, UserStep(t) \/ AnswerStep(t) PROVE OnlyRevokes
    <2>1. CASE Reload(t)
      BY <2>1 DEF Reload, dbVars
    <2>2. CASE ~ Reload(t)
      BY <1>2, <1>a, <2>2, ClientIsQuiet
    <2>3. QED
      BY <2>1, <2>2
  <1>3. ASSUME NEW t \in Tabs, NEW c \in AllCalls, CallStep(t, c) PROVE OnlyRevokes
    BY <1>3, <1>a, ClientIsQuiet
  <1>4. ASSUME NEW t \in Tabs, NEW k \in Slots, BackendStep(t, k)
        PROVE  OnlyRevokes \/ RotateCommits(t, k) \/ LoginCommits(t, k)
    <2>1. CASE RotateReads(t, k) \/ LogoutReads(t, k)
      BY <2>1 DEF RotateReads, LogoutReads, dbVars
    <2>2. CASE RevokeCommits(t, k)
      BY <1>b, <2>2 DEF RevokeCommits
    <2>3. CASE RefuseUnknown(t, k) \/ LoginReads(t, k) \/ InsertFails(t, k) \/ AbortRotation(t, k)
      BY <1>a, <2>3, OthersAreQuiet
    <2>4. QED
      BY <1>4, <2>1, <2>2, <2>3 DEF BackendStep
  <1>5. ASSUME AdminStep PROVE OnlyRevokes
    <2>1. CASE DisableCommits
      BY <1>b, <2>1 DEF DisableCommits
    <2>2. CASE ~ DisableCommits
      BY <1>5, <1>a, <2>2, OthersAreQuiet DEF AdminStep
    <2>3. QED
      BY <2>1, <2>2
  <1>6. ASSUME FaultStep PROVE OnlyRevokes
    <2>1. ASSUME NEW u \in Tokens, TokenExpires(u) PROVE OnlyRevokes
      BY <2>1 DEF TokenExpires, SessionsTypeOK
    <2>2. CASE ~ \E u \in Tokens : TokenExpires(u)
      BY <1>6, <1>a, <2>2, OthersAreQuiet DEF FaultStep
    <2>3. QED
      BY <2>1, <2>2
  <1>7. QED
    BY <1>1, <1>2, <1>3, <1>4, <1>5, <1>6 DEF SessionsNext

-----------------------------------------------------------------------------
(* Disabling an account. *)

\* Only the administrator's steps touch the account.
LEMMA OnlyAdminStep ==
    ASSUME [SessionsNext]_sessionVars, ~ AdminStep
    PROVE  admin' = admin /\ disabled' = disabled
  <1>1. CASE UNCHANGED sessionVars
    BY <1>1 DEF sessionVars
  <1>2. ASSUME NEW t \in Tabs, UserStep(t) PROVE admin' = admin /\ disabled' = disabled
    BY <1>2 DEF UserStep, OpenTab, SubmitLogin, SubmitLogout, Reload, UserCall, dbVars
  <1>3. ASSUME NEW t \in Tabs, AnswerStep(t) PROVE admin' = admin /\ disabled' = disabled
    BY <1>3 DEF AnswerStep, GateRefresh, RefreshSucceeds, RefreshFails, LoginAnswered,
       LogoutAnswered, dbVars
  <1>4. ASSUME NEW t \in Tabs, NEW c \in AllCalls, CallStep(t, c)
        PROVE  admin' = admin /\ disabled' = disabled
    BY <1>4 DEF CallStep, Serve, Deny, ReceiveDenied, ReceiveRedenied, dbVars
  <1>5. ASSUME NEW t \in Tabs, NEW k \in Slots, BackendStep(t, k)
        PROVE  admin' = admin /\ disabled' = disabled
    BY <1>5 DEF BackendStep, RefuseUnknown, LoginReads, LoginCommits, RotateReads,
       RotateCommits, InsertFails, LogoutReads, RevokeCommits, AbortRotation, dbVars
  <1>6. CASE FaultStep
    BY <1>6 DEF FaultStep, AccessExpires, TokenExpires, LoseCall, LoseRequest, LoseAnswer, dbVars
  <1>7. QED
    BY <1>1, <1>2, <1>3, <1>4, <1>5, <1>6 DEF SessionsNext

\* While update_user holds the user row its UPDATE knows every unrevoked row:
\* none is inserted meanwhile.
UpdateKnowsAll ==
    admin.open => \A u \in Tokens : Unrevoked(u) => u \in admin.snap

LEMMA UpdateKnowsAllKept ==
    ASSUME SessionsTypeOK, RowInv, UpdateKnowsAll, [SessionsNext]_sessionVars
    PROVE  UpdateKnowsAll'
  <1>1. CASE AdminStep
    <2>1. CASE DisableReads
      BY <2>1 DEF DisableReads, UpdateKnowsAll, Unrevoked
    <2>2. CASE DisableCommits \/ AbortDisable
      BY <2>2 DEF DisableCommits, AbortDisable, UpdateKnowsAll, NoUpdate
    <2>3. CASE Enable
      BY <2>3 DEF Enable, UpdateKnowsAll, Unrevoked
    <2>4. QED
      BY <1>1, <2>1, <2>2, <2>3 DEF AdminStep
  <1>2. CASE ~ AdminStep
    <2>1. admin' = admin
      BY <1>2, OnlyAdminStep
    <2>2. CASE OnlyRevokes
      BY <2>1, <2>2 DEF OnlyRevokes, UpdateKnowsAll, Unrevoked
    <2>3. ASSUME NEW t \in Tabs, NEW k \in Slots, RotateCommits(t, k) \/ LoginCommits(t, k)
          PROVE  UpdateKnowsAll'
      BY <2>1, <2>3 DEF RotateCommits, LoginCommits, UserRowFree, UpdateKnowsAll
    <2>4. QED
      BY <2>2, <2>3, RowStep
  <1>3. QED
    BY <1>1, <1>2

\* Only the commit of update_user disables the account.
LEMMA DisablingRevokes ==
    ASSUME SessionsTypeOK, UpdateKnowsAll, [SessionsNext]_sessionVars,
           ~ disabled, disabled'
    PROVE  \A u \in Tokens : status'[u] \in {"unborn", "revoked"}
  <1>1. DisableCommits
    <2>1. AdminStep
      BY OnlyAdminStep
    <2>2. QED
      BY <2>1 DEF AdminStep, DisableReads, AbortDisable, Enable
  <1>2. \A u \in Tokens : status'[u] = IF u \in admin.snap /\ Unrevoked(u)
                                       THEN "revoked" ELSE status[u]
    BY <1>1 DEF DisableCommits, RevokeRows
  <1>3. \A u \in Tokens : Unrevoked(u) => u \in admin.snap
    BY <1>1 DEF DisableCommits, UpdateKnowsAll
  <1>4. QED
    BY <1>2, <1>3 DEF Unrevoked, SessionsTypeOK, Statuses

\* When the account is disabled every token it had is revoked, for good: the
\* foreign key of the token rows keeps a rotation from slipping in another.
THEOREM DisablingIsFinal == SessionsSpec => DisablingEndsSessions
  <1>1. SessionsInit => UpdateKnowsAll
    BY DEF SessionsInit, UpdateKnowsAll, NoUpdate
  <1>2. SessionsTypeOK /\ RowInv /\ UpdateKnowsAll /\ [SessionsNext]_sessionVars
          => UpdateKnowsAll'
    BY UpdateKnowsAllKept
  <1>3. SessionsTypeOK /\ UpdateKnowsAll /\ [SessionsNext]_sessionVars
          => [~ disabled /\ disabled' =>
                \A u \in Tokens : status'[u] \in {"unborn", "revoked"}]_sessionVars
    BY DisablingRevokes
  <1>4. QED
    BY <1>1, <1>2, <1>3, SessionsInvariant, PTL DEF SessionsSpec, DisablingEndsSessions

-----------------------------------------------------------------------------
(* The token rows implement SessionLife. *)

LifeMap == [s \in Tokens |-> LifeOf(s)]

LEMMA LifeStages == LifeMap \in [Tokens -> {"unused", "open", "ended"}]
  BY DEF LifeMap, LifeOf

LEMMA InitLife == SessionsInit => Life!LifeInit
  <1> SUFFICES ASSUME SessionsInit PROVE Life!LifeInit
    OBVIOUS
  <1>1. ASSUME NEW s \in Tokens PROVE LifeOf(s) \in {"unused", "open"}
    <2>1. ASSUME NEW u \in Tokens, Issued(u), sid[u] = s PROVE u \in UnrevokedOf(s)
      BY <2>1 DEF SessionsInit, Issued, UnrevokedOf, Unrevoked
    <2>2. QED
      BY <2>1 DEF LifeOf
  <1>2. QED
    BY <1>1 DEF Life!LifeInit

\* Revocations end sessions or leave them as they are.
LEMMA RevokingEnds ==
    ASSUME SessionsTypeOK, OnlyRevokes
    PROVE  [Life!LifeNext]_LifeMap
  <1> DEFINE E == {s \in Tokens : LifeOf(s) = "open" /\ LifeOf(s)' # "open"}
  <1>1. ASSUME NEW s \in Tokens
        PROVE  /\ LifeOf(s) = "unused" <=> LifeOf(s)' = "unused"
               /\ LifeOf(s)' = "open" => LifeOf(s) = "open"
    BY DEF OnlyRevokes, LifeOf, UnrevokedOf
  <1>2. ASSUME NEW s \in Tokens
        PROVE  LifeOf(s)' = IF s \in E THEN "ended" ELSE LifeOf(s)
    BY <1>1 DEF LifeOf
  <1>3. LifeMap' = [s \in Tokens |-> IF s \in E THEN "ended" ELSE LifeMap[s]]
    BY <1>2 DEF LifeMap
  <1>4. CASE E = {}
    BY <1>3, <1>4 DEF LifeMap
  <1>5. CASE E # {}
    <2>1. \A s \in E : LifeMap[s] = "open"
      BY DEF LifeMap
    <2>2. Life!End(E)
      BY <1>3, <1>5, <2>1 DEF Life!End, LifeMap
    <2>3. E \in SUBSET Tokens
      OBVIOUS
    <2>4. QED
      BY <2>2, <2>3 DEF Life!LifeNext
  <1>6. QED
    BY <1>4, <1>5

\* A rotation is invisible.
LEMMA RotationIsInvisible ==
    ASSUME SessionsTypeOK, RowInv, NEW t \in Tabs, NEW k \in Slots, RotateCommits(t, k)
    PROVE  LifeMap' = LifeMap
  <1> DEFINE u == req[t][k].tok
  <1>1. PICK v \in NextToken :
           /\ status' = [status EXCEPT ![u] = "revoked", ![v] = "live"]
           /\ sid' = [sid EXCEPT ![v] = sid[u]]
    BY DEF RotateCommits
  <1>2. u \in Tokens /\ Unrevoked(u)
    BY DEF RotateCommits, RowInv, RotatingIsUnrevoked
  <1>3. v \in Tokens /\ status[v] = "unborn" /\ u # v
    BY <1>2 DEF NextToken, Issued, Unrevoked
  <1>4. \A w \in Tokens : /\ status'[w] = IF w = v THEN "live" ELSE IF w = u THEN "revoked" ELSE status[w]
                          /\ sid'[w] = IF w = v THEN sid[u] ELSE sid[w]
    BY <1>1, <1>2, <1>3 DEF SessionsTypeOK
  <1>5. ASSUME NEW s \in Tokens PROVE LifeOf(s)' = LifeOf(s)
    <2>1. CASE s = sid[u]
      <3>1. u \in UnrevokedOf(s) /\ Issued(u)
        BY <1>2, <2>1 DEF UnrevokedOf, Unrevoked, Issued
      <3>2. v \in UnrevokedOf(s)' /\ Issued(v)' /\ sid'[v] = s
        BY <1>3, <1>4, <2>1 DEF UnrevokedOf, Unrevoked, Issued
      <3>3. QED
        BY <1>2, <1>3, <2>1, <3>1, <3>2 DEF LifeOf
    <2>2. CASE s # sid[u]
      <3>1. UnrevokedOf(s)' = UnrevokedOf(s)
        BY <1>2, <1>3, <1>4, <2>2 DEF UnrevokedOf, Unrevoked
      <3>2. (\E w \in Tokens : Issued(w) /\ sid[w] = s)' <=> \E w \in Tokens : Issued(w) /\ sid[w] = s
        BY <1>2, <1>3, <1>4, <2>2 DEF Issued, Unrevoked
      <3>3. QED
        BY <3>1, <3>2 DEF LifeOf
    <2>3. QED
      BY <2>1, <2>2
  <1>6. QED
    BY <1>5 DEF LifeMap

\* A login opens a session that was unused.
LEMMA LoginOpens ==
    ASSUME SessionsTypeOK, RowInv, NEW t \in Tabs, NEW k \in Slots, LoginCommits(t, k)
    PROVE  Life!LifeNext
  <1>1. PICK v \in NextToken :
           /\ status' = [status EXCEPT ![v] = "live"]
           /\ sid' = [sid EXCEPT ![v] = v]
    BY DEF LoginCommits
  <1>2. v \in Tokens /\ status[v] = "unborn"
    BY DEF NextToken, Issued
  <1>3. \A w \in Tokens : /\ status'[w] = IF w = v THEN "live" ELSE status[w]
                          /\ sid'[w] = IF w = v THEN v ELSE sid[w]
    BY <1>1, <1>2 DEF SessionsTypeOK
  <1>4. \A w \in Tokens : Issued(w) => sid[w] # v
    BY <1>2 DEF RowInv, SessionIssued, Issued
  <1>5. LifeOf(v) = "unused"
    BY <1>4 DEF LifeOf
  <1>6. LifeOf(v)' = "open"
    <2>1. v \in UnrevokedOf(v)' /\ Issued(v)' /\ sid'[v] = v
      BY <1>2, <1>3 DEF UnrevokedOf, Unrevoked, Issued
    <2>2. QED
      BY <1>2, <2>1 DEF LifeOf
  <1>7. ASSUME NEW s \in Tokens, s # v PROVE LifeOf(s)' = LifeOf(s)
    <2>1. UnrevokedOf(s)' = UnrevokedOf(s)
      BY <1>2, <1>3, <1>7 DEF UnrevokedOf, Unrevoked
    <2>2. (\E w \in Tokens : Issued(w) /\ sid[w] = s)' <=> \E w \in Tokens : Issued(w) /\ sid[w] = s
      BY <1>2, <1>3, <1>7 DEF Issued
    <2>3. QED
      BY <2>1, <2>2 DEF LifeOf
  <1>8. LifeMap[v] = "unused" /\ LifeMap' = [LifeMap EXCEPT ![v] = "open"]
    BY <1>2, <1>5, <1>6, <1>7 DEF LifeMap
  <1>9. Life!Open(v)
    BY <1>8 DEF Life!Open, LifeMap
  <1>10. QED
    BY <1>2, <1>9 DEF Life!LifeNext

\* The token rows, their locks and every race of tabs, logouts and
\* administrator implement SessionLife: a session that is over stays over.
THEOREM RowsImplementLife == SessionsSpec => SessionsEnd
  <1>1. SessionsInit => Life!LifeInit
    BY InitLife
  <1>2. SessionsTypeOK /\ RowInv /\ [SessionsNext]_sessionVars => [Life!LifeNext]_LifeMap
    BY RowStep, RevokingEnds, RotationIsInvisible, LoginOpens
  <1>3. QED
    BY <1>1, <1>2, SessionsInvariant, PTL DEF SessionsSpec, SessionsEnd, Life!LifeSpec, LifeMap

-----------------------------------------------------------------------------
(* One tab alone is no thief. *)

\* A request of slot "refresh" is a refresh, one of slot "user" never is.
SlotKinds ==
    \A t \in Tabs :
        /\ req[t]["refresh"].kind = "refresh"
        /\ req[t]["user"].pc # "free" => req[t]["user"].kind # "refresh"

\* Only tokens that were issued are in the jar or were ever carried.
KnownIsIssued ==
    /\ jar # NoToken => Issued(jar)
    /\ \A u \in Tokens : carried[u] # {} => Issued(u)

\* A refresh under way is of a token that its tab carried, and which is lost
\* if the page is gone that asked for it.
RefreshIsCarried ==
    \A t \in Tabs, k \in Slots :
        LET r == req[t][k] IN
        /\ r.pc # "free" /\ r.kind = "refresh" /\ r.tok # NoToken
             => t \in carried[r.tok] /\ (k # "refresh" => r.tok \in lost)
        /\ Holding(r) => r.tok # NoToken

\* A token that an answer brings is in no jar yet, and in no other answer.
NewIsFresh ==
    \A t \in Tabs, k \in Slots :
        LET v == req[t][k].new IN
        v # NoToken =>
          /\ Issued(v) /\ jar # v /\ carried[v] = {}
          /\ \A o \in Tabs, j \in Slots : req[o][j].new = v => o = t /\ j = k

\* A revoked token of a session that goes on was replaced.
Replaced(u) == status[u] = "revoked" /\ UnrevokedOf(sid[u]) # {}

\* If one tab alone carried it, that tab is about to hear of the replacement,
\* or the jar no longer has the token and the tab does not present it.
Asks(r, u) == r.pc # "free" /\ r.tok = u
Hears(r, u) == r.pc = "answered" /\ r.ok /\ r.tok = u

ReplacedIsHeard ==
    \A u \in Tokens : Replaced(u) /\ u \notin lost =>
      /\ carried[u] # {}
      /\ \A t \in Tabs : carried[u] = {t} =>
           \/ Hears(req[t]["refresh"], u)
           \/ jar # u /\ ~ Asks(req[t]["refresh"], u)

ThiefInv ==
    /\ SlotKinds
    /\ KnownIsIssued
    /\ RefreshIsCarried
    /\ NewIsFresh
    /\ ReplacedIsHeard
    /\ OneTabIsNoThief

\* What may become of a request while no refresh is sent and no page reloaded:
\* it ends and nobody hears of a replacement, it goes on, or a login or a
\* logout is sent.
Settles(t, k) ==
    LET r == req[t][k]
        s == req'[t][k]
    IN
    /\ s.tok = NoToken /\ s.new = NoToken
    /\ \/ s.pc = "free" /\ s.kind = "refresh"
       \/ s.pc = "answered" /\ s.kind = r.kind /\ r.pc # "free"
    /\ k = "refresh" /\ r.pc = "answered" /\ r.ok /\ r.tok # NoToken
         => r.tok \in lost' \/ jar' # r.tok

Issues(t, k) == req'[t][k].new # NoToken /\ ~ Issued(req'[t][k].new)

Progresses(t, k) ==
    LET r == req[t][k]
        s == req'[t][k]
    IN
    /\ r.pc \notin {"free", "answered"}
    /\ s.pc # "free" /\ s.tok = r.tok /\ s.kind = r.kind
    /\ s.new \in {r.new, NoToken} \/ Issues(t, k)
    /\ Issues(t, k) => status'[s.new] # "unborn"
    /\ Holding(s) => s.tok # NoToken
    /\ s.pc = "revoking" => s.snap = UnrevokedOf(sid[s.tok]) /\ status' = status

Opens(t, k) ==
    LET s == req'[t][k] IN
    k = "user" /\ s.pc = "sent" /\ s.kind # "refresh" /\ s.new = NoToken

Moves(t, k) == req'[t][k] = req[t][k] \/ Settles(t, k) \/ Progresses(t, k) \/ Opens(t, k)

RequestsMove ==
    /\ \A t \in Tabs, k \in Slots : Moves(t, k)
    /\ \A t, o \in Tabs, k, j \in Slots : Issues(t, k) /\ Issues(o, j) => t = o /\ k = j

\* The cookies stay, are cleared, or are those of an answer just heard.
JarMoves ==
    \/ jar' \in {jar, NoToken}
    \/ \E t \in Tabs, k \in Slots : jar' = req[t][k].new /\ req'[t][k].new = NoToken

\* Who holds a row is not surprised by a revocation; a token newly replaced is
\* lost, or the tab that carried it is about to hear of it.
RowsMove ==
    /\ \A u \in Tokens : Issued(u) => status'[u] # "unborn"
    /\ \A u \in Tokens : Replaced(u)' =>
         \/ Replaced(u)
         \/ u \in lost'
         \/ \E t \in Tabs : t \in carried[u] /\ Hears(req'[t]["refresh"], u)
    /\ \A t \in Tabs :
         LET r == req[t]["refresh"] IN
         Holding(r) /\ req'[t]["refresh"] = r /\ status'[r.tok] = "revoked"
           => status[r.tok] = "revoked"

LEMMA CalmKeepsThief ==
    ASSUME SessionsTypeOK, SessionsTypeOK', ThiefInv,
           RequestsMove, JarMoves, RowsMove, carried' = carried, lost \subseteq lost'
    PROVE  ThiefInv'
  <1> USE DEF ThiefInv
  <1>0. /\ "refresh" \in Slots /\ "user" \in Slots /\ NoToken \notin Tokens
        /\ \A t \in Tabs, k \in Slots : /\ req[t][k].new \in Tokens \cup {NoToken}
                                        /\ req[t][k].tok \in Tokens \cup {NoToken}
                                        /\ req'[t][k].new \in Tokens \cup {NoToken}
                                        /\ req'[t][k].tok \in Tokens \cup {NoToken}
        /\ jar \in Tokens \cup {NoToken} /\ jar' \in Tokens \cup {NoToken}
    BY TokensAreNat DEF Slots, SessionsTypeOK, Request
  <1>1. SlotKinds'
    <2> SUFFICES ASSUME NEW t \in Tabs
                 PROVE  /\ req'[t]["refresh"].kind = "refresh"
                        /\ req'[t]["user"].pc # "free" => req'[t]["user"].kind # "refresh"
      BY DEF SlotKinds
    <2>1. req'[t]["refresh"].kind = "refresh"
      <3>1. Moves(t, "refresh") /\ req[t]["refresh"].kind = "refresh"
        BY <1>0 DEF RequestsMove, SlotKinds
      <3>2. QED
        BY <3>1 DEF Moves, Settles, Progresses, Opens
    <2>2. req'[t]["user"].pc # "free" => req'[t]["user"].kind # "refresh"
      <3>1. Moves(t, "user")
        BY <1>0 DEF RequestsMove
      <3>2. req[t]["user"].pc # "free" => req[t]["user"].kind # "refresh"
        BY DEF SlotKinds
      <3>3. QED
        BY <3>1, <3>2 DEF Moves, Settles, Progresses, Opens
    <2>3. QED
      BY <2>1, <2>2
  <1>2. KnownIsIssued'
    <2>1. jar' # NoToken => Issued(jar)' \/ jar' = NoToken
      <3>1. CASE jar' \in {jar, NoToken}
        BY <1>0, <3>1 DEF KnownIsIssued, RowsMove, Issued
      <3>2. ASSUME NEW t \in Tabs, NEW k \in Slots, jar' = req[t][k].new, jar' # NoToken
            PROVE  Issued(jar)'
        <4>1. Issued(req[t][k].new) /\ req[t][k].new \in Tokens
          BY <1>0, <3>2 DEF NewIsFresh
        <4>2. QED
          BY <3>2, <4>1 DEF RowsMove, Issued
      <3>3. QED
        BY <3>1, <3>2 DEF JarMoves
    <2>2. QED
      BY <2>1 DEF KnownIsIssued, RowsMove, Issued
  <1>3. RefreshIsCarried'
    <2> SUFFICES ASSUME NEW t \in Tabs, NEW k \in Slots
                 PROVE  LET s == req'[t][k] IN
                        /\ s.pc # "free" /\ s.kind = "refresh" /\ s.tok # NoToken
                             => t \in carried[s.tok] /\ (k # "refresh" => s.tok \in lost')
                        /\ Holding(s) => s.tok # NoToken
      BY DEF RefreshIsCarried, Holding
    <2>1. Moves(t, k)
      BY DEF RequestsMove
    <2>2. CASE req'[t][k] = req[t][k]
      BY <2>2 DEF RefreshIsCarried
    <2>3. CASE Settles(t, k)
      BY <2>3 DEF Settles, Holding
    <2>4. CASE Progresses(t, k)
      BY <2>4 DEF RefreshIsCarried, Progresses
    <2>5. CASE Opens(t, k)
      BY <2>5 DEF Opens, Holding
    <2>6. QED
      BY <2>1, <2>2, <2>3, <2>4, <2>5 DEF Moves
  <1>4. NewIsFresh'
    <2>1. ASSUME NEW t \in Tabs, NEW k \in Slots, req'[t][k].new # NoToken
          PROVE  \/ req'[t][k].new = req[t][k].new
                 \/ Issues(t, k) /\ status'[req'[t][k].new] # "unborn"
      BY <2>1 DEF RequestsMove, Moves, Settles, Progresses, Opens
    <2> SUFFICES ASSUME NEW t \in Tabs, NEW k \in Slots, req'[t][k].new # NoToken
                 PROVE  LET v == req'[t][k].new IN
                        /\ status'[v] # "unborn" /\ jar' # v /\ carried[v] = {}
                        /\ \A o \in Tabs, j \in Slots : req'[o][j].new = v => o = t /\ j = k
      BY DEF NewIsFresh, Issued
    <2> DEFINE v == req'[t][k].new
    <2>2. v \in Tokens
      BY <1>0
    <2>3. \A o \in Tabs, j \in Slots : req[o][j].new = v => Issued(v)
      BY <2>2, <1>0 DEF NewIsFresh
    <2>4. CASE v = req[t][k].new
      <3>1. Issued(v) /\ jar # v /\ carried[v] = {}
        BY <2>4 DEF NewIsFresh
      <3>2. \A o \in Tabs, j \in Slots : req[o][j].new = v => o = t /\ j = k
        BY <2>4 DEF NewIsFresh
      <3>3. jar' # v
        BY <3>1, <3>2 DEF JarMoves
      <3>4. \A o \in Tabs, j \in Slots : req'[o][j].new = v => o = t /\ j = k
        BY <2>1, <3>1, <3>2 DEF Issues
      <3>5. QED
        BY <2>2, <3>1, <3>3, <3>4 DEF RowsMove
    <2>5. CASE v # req[t][k].new
      <3>1. Issues(t, k) /\ ~ Issued(v) /\ status'[v] # "unborn"
        BY <2>1, <2>5 DEF Issues
      <3>2. jar' # v
        BY <2>3, <3>1 DEF JarMoves, KnownIsIssued
      <3>3. carried[v] = {}
        BY <2>2, <3>1 DEF KnownIsIssued
      <3>4. \A o \in Tabs, j \in Slots : req'[o][j].new = v => o = t /\ j = k
        BY <3>1 DEF RequestsMove, Issues
      <3>5. QED
        BY <3>1, <3>2, <3>3, <3>4
    <2>6. QED
      BY <2>4, <2>5
  <1>5. ReplacedIsHeard'
    <2> SUFFICES ASSUME NEW u \in Tokens, Replaced(u)', u \notin lost'
                 PROVE  /\ carried[u] # {}
                        /\ \A t \in Tabs : carried[u] = {t} =>
                             \/ Hears(req'[t]["refresh"], u)
                             \/ jar' # u /\ ~ Asks(req'[t]["refresh"], u)
      BY DEF ReplacedIsHeard, Hears, Asks
    <2>1. CASE ~ Replaced(u)
      BY <2>1 DEF RowsMove
    <2>2. CASE Replaced(u)
      <3>1. carried[u] # {}
        BY <2>2 DEF ReplacedIsHeard
      <3> SUFFICES ASSUME NEW t \in Tabs, carried[u] = {t}
                   PROVE  \/ Hears(req'[t]["refresh"], u)
                          \/ jar' # u /\ ~ Asks(req'[t]["refresh"], u)
        BY <3>1
      <3>2. Moves(t, "refresh") /\ u # NoToken
        BY <1>0 DEF RequestsMove
      <3>3. CASE Hears(req[t]["refresh"], u)
        BY <3>2, <3>3 DEF Moves, Settles, Progresses, Opens, Hears, Asks
      <3>4. CASE jar # u /\ ~ Asks(req[t]["refresh"], u)
        <4>1. jar' # u
          BY <3>1, <3>2, <3>4 DEF JarMoves, NewIsFresh
        <4>2. ~ Asks(req'[t]["refresh"], u)
          BY <3>2, <3>4 DEF Moves, Settles, Progresses, Opens, Asks
        <4>3. QED
          BY <4>1, <4>2
      <3>5. QED
        BY <2>2, <3>3, <3>4 DEF ReplacedIsHeard
    <2>3. QED
      BY <2>1, <2>2
  <1>6. OneTabIsNoThief'
    <2> SUFFICES ASSUME NEW t \in Tabs,
                        req'[t]["refresh"].pc = "revoking",
                        req'[t]["refresh"].snap # {},
                        status'[req'[t]["refresh"].tok] = "revoked",
                        req'[t]["refresh"].tok \notin lost',
                        carried[req'[t]["refresh"].tok] = {t}
                 PROVE  FALSE
      BY DEF OneTabIsNoThief
    <2> DEFINE r == req[t]["refresh"]
    <2>1. Moves(t, "refresh")
      BY <1>0 DEF RequestsMove
    <2>2. CASE req'[t]["refresh"] = r
      <3>1. status[r.tok] = "revoked"
        BY <2>2 DEF RowsMove, Holding
      <3>2. QED
        BY <2>2, <3>1 DEF OneTabIsNoThief
    <2>3. CASE Progresses(t, "refresh")
      <3>1. /\ r.tok \in Tokens /\ r.tok \notin lost /\ carried[r.tok] = {t}
            /\ Replaced(r.tok)
            /\ Asks(r, r.tok) /\ ~ Hears(r, r.tok)
        BY <1>0, <2>3 DEF Progresses, Holding, Replaced, Asks, Hears
      <3>2. QED
        BY <3>1 DEF ReplacedIsHeard
    <2>4. QED
      BY <2>1, <2>2, <2>3 DEF Moves, Settles, Opens
  <1>7. QED
    BY <1>1, <1>2, <1>3, <1>4, <1>5, <1>6

\* The requests, when one of them or none changes.
LEMMA OneRequestMoves ==
    ASSUME ThiefInv, NEW t \in Tabs, NEW k \in Slots, Moves(t, k),
           \A o \in Tabs, j \in Slots : <<o, j>> # <<t, k>> => req'[o][j] = req[o][j]
    PROVE  RequestsMove
  <1>1. ASSUME NEW o \in Tabs, NEW j \in Slots PROVE Moves(o, j)
    <2>1. CASE o = t /\ j = k
      BY <2>1
    <2>2. CASE ~ (o = t /\ j = k)
      BY <2>2 DEF Moves
    <2>3. QED
      BY <2>1, <2>2
  <1>2. \A o \in Tabs, j \in Slots : <<o, j>> # <<t, k>> => ~ Issues(o, j)
    BY DEF Issues, ThiefInv, NewIsFresh
  <1>3. QED
    BY <1>1, <1>2 DEF RequestsMove

LEMMA RequestsRest == ASSUME ThiefInv, req' = req PROVE RequestsMove
  BY DEF RequestsMove, Moves, Issues, ThiefInv, NewIsFresh

LEMMA SlotMoves ==
    ASSUME SessionsTypeOK, ThiefInv, NEW t \in Tabs, NEW k \in Slots, NEW r,
           req' = [req EXCEPT ![t][k] = r], Moves(t, k)
    PROVE  RequestsMove
  <1>1. \A o \in Tabs, j \in Slots : <<o, j>> # <<t, k>> => req'[o][j] = req[o][j]
    BY DEF SessionsTypeOK
  <1>2. QED
    BY <1>1, OneRequestMoves

LEMMA FailMoves ==
    ASSUME SessionsTypeOK, ThiefInv, NEW t \in Tabs, NEW k \in Slots,
           Fail(t, k), req[t][k].pc # "free",
           req[t][k].pc = "answered" => req[t][k].tok \in lost' \cup {NoToken}
    PROVE  RequestsMove
  <1>1. req'[t][k] = IF k = "orphan" THEN Free
                     ELSE [Free EXCEPT !.pc = "answered", !.kind = req[t][k].kind]
    BY DEF Fail, SessionsTypeOK
  <1>2. Settles(t, k)
    BY <1>1 DEF Settles, Free
  <1>3. QED
    BY <1>2, SlotMoves DEF Fail, Moves

LEMMA SucceedMoves ==
    ASSUME SessionsTypeOK, ThiefInv, NEW t \in Tabs, NEW k \in Slots, NEW v,
           Succeed(t, k, v), req[t][k].pc \notin {"free", "answered"},
           v # NoToken => ~ Issued(v) /\ status'[v] # "unborn"
    PROVE  RequestsMove
  <1>1. req'[t][k] = IF k = "orphan" THEN Free
                     ELSE [req[t][k] EXCEPT !.pc = "answered", !.snap = {}, !.ok = TRUE, !.new = v]
    BY DEF Succeed, SessionsTypeOK
  <1>2. CASE k = "orphan"
    <2>1. Settles(t, k)
      BY <1>1, <1>2 DEF Settles, Free
    <2>2. QED
      BY <2>1, SlotMoves DEF Succeed, Moves
  <1>3. CASE k # "orphan"
    <2>1. /\ req'[t][k].pc = "answered" /\ req'[t][k].new = v
          /\ req'[t][k].tok = req[t][k].tok /\ req'[t][k].kind = req[t][k].kind
      BY <1>1, <1>3 DEF SessionsTypeOK, Request
    <2>2. Progresses(t, k)
      BY <2>1 DEF Progresses, Issues, Holding
    <2>3. QED
      BY <2>2, SlotMoves DEF Succeed, Moves
  <1>4. QED
    BY <1>2, <1>3

\* The rows.
LEMMA RowsRest == ASSUME status' = status, sid' = sid PROVE RowsMove
  BY DEF RowsMove, Replaced, UnrevokedOf, Unrevoked, Issued

LEMMA RevokedRowsMove ==
    ASSUME SessionsTypeOK, RowInv, ThiefInv, NEW S, RevokeRows(S), sid' = sid,
           \A t \in Tabs : Holding(req[t]["refresh"]) /\ req'[t]["refresh"] = req[t]["refresh"]
                             => req[t]["refresh"].tok \notin S
    PROVE  RowsMove
  <1>1. \A w \in Tokens : status'[w] = IF w \in S /\ Unrevoked(w) THEN "revoked" ELSE status[w]
    BY DEF RevokeRows
  <1>2. \A u \in Tokens : Issued(u) => status'[u] # "unborn"
    BY <1>1 DEF Issued
  <1>3. ASSUME NEW u \in Tokens, Replaced(u)' PROVE Replaced(u)
    <2>1. PICK w \in Tokens : status'[w] \in {"live", "expired"} /\ sid[w] = sid[u]
      BY <1>3 DEF Replaced, UnrevokedOf, Unrevoked
    <2>2. Unrevoked(w)
      BY <1>1, <2>1 DEF Unrevoked
    <2>3. status'[u] = "revoked"
      BY <1>3 DEF Replaced
    <2>4. ~ Unrevoked(u)
      BY <2>1, <2>2, <2>3 DEF RowInv, OneUnrevokedToken
    <2>5. QED
      BY <1>1, <2>1, <2>2, <2>3, <2>4 DEF Replaced, UnrevokedOf
  <1>4. ASSUME NEW t \in Tabs, Holding(req[t]["refresh"]),
               req'[t]["refresh"] = req[t]["refresh"],
               status'[req[t]["refresh"].tok] = "revoked"
        PROVE  status[req[t]["refresh"].tok] = "revoked"
    <2>1. req[t]["refresh"].tok \in Tokens
      BY <1>4 DEF ThiefInv, RefreshIsCarried, SessionsTypeOK, Request, Slots
    <2>2. QED
      BY <1>1, <1>4, <2>1
  <1>5. QED
    BY <1>2, <1>3, <1>4 DEF RowsMove

LEMMA ExpiredRowsMove ==
    ASSUME SessionsTypeOK, ThiefInv, NEW u \in Tokens, TokenExpires(u)
    PROVE  RowsMove
  <1>1. /\ sid' = sid /\ status[u] = "live"
        /\ \A w \in Tokens : status'[w] = IF w = u THEN "expired" ELSE status[w]
    BY DEF TokenExpires, SessionsTypeOK
  <1>2. \A w \in Tokens : Issued(w) => status'[w] # "unborn"
    BY <1>1 DEF Issued
  <1>3. \A w \in Tokens : Replaced(w)' => Replaced(w)
    BY <1>1 DEF Replaced, UnrevokedOf, Unrevoked
  <1>4. ASSUME NEW t \in Tabs, Holding(req[t]["refresh"]),
               status'[req[t]["refresh"].tok] = "revoked"
        PROVE  status[req[t]["refresh"].tok] = "revoked"
    <2>1. req[t]["refresh"].tok \in Tokens
      BY <1>4 DEF ThiefInv, RefreshIsCarried, SessionsTypeOK, Request, Slots
    <2>2. QED
      BY <1>1, <1>4, <2>1
  <1>5. QED
    BY <1>2, <1>3, <1>4 DEF RowsMove

LEMMA LoginRowsMove ==
    ASSUME SessionsTypeOK, RowInv, ThiefInv, NEW v \in NextToken,
           status' = [status EXCEPT ![v] = "live"],
           sid' = [sid EXCEPT ![v] = v]
    PROVE  RowsMove
  <1>1. v \in Tokens /\ status[v] = "unborn"
    BY DEF NextToken, Issued
  <1>2. \A w \in Tokens : /\ status'[w] = IF w = v THEN "live" ELSE status[w]
                          /\ sid'[w] = IF w = v THEN v ELSE sid[w]
    BY <1>1 DEF SessionsTypeOK
  <1>3. \A w \in Tokens : Issued(w) => status'[w] # "unborn"
    BY <1>2 DEF Issued
  <1>4. ASSUME NEW u \in Tokens, Replaced(u)' PROVE Replaced(u)
    <2>1. PICK w \in Tokens : status'[w] \in {"live", "expired"} /\ sid'[w] = sid'[u]
      BY <1>4 DEF Replaced, UnrevokedOf, Unrevoked
    <2>2. u # v /\ status[u] = "revoked"
      BY <1>2, <1>4 DEF Replaced
    <2>3. sid[u] # v
      BY <1>1, <2>2 DEF RowInv, SessionIssued, Issued
    <2>4. QED
      BY <1>2, <2>1, <2>2, <2>3 DEF Replaced, UnrevokedOf, Unrevoked
  <1>5. ASSUME NEW t \in Tabs, Holding(req[t]["refresh"]),
               status'[req[t]["refresh"].tok] = "revoked"
        PROVE  status[req[t]["refresh"].tok] = "revoked"
    <2>1. req[t]["refresh"].tok \in Tokens
      BY <1>5 DEF ThiefInv, RefreshIsCarried, SessionsTypeOK, Request, Slots
    <2>2. QED
      BY <1>2, <1>5, <2>1
  <1>6. QED
    BY <1>3, <1>4, <1>5 DEF RowsMove

\* A rotation replaces its token, and its tab is about to hear of it.
LEMMA RotatedRowsMove ==
    ASSUME SessionsTypeOK, RowInv, ThiefInv, NEW t \in Tabs, NEW k \in Slots,
           RotateCommits(t, k), lost' = lost
    PROVE  RowsMove
  <1> DEFINE u == req[t][k].tok
  <1>1. PICK v \in NextToken :
           /\ status' = [status EXCEPT ![u] = "revoked", ![v] = "live"]
           /\ sid' = [sid EXCEPT ![v] = sid[u]]
           /\ Succeed(t, k, v)
    BY DEF RotateCommits
  <1>2. u \in Tokens /\ Unrevoked(u) /\ u # NoToken
    BY TokensAreNat DEF RotateCommits, RowInv, RotatingIsUnrevoked
  <1>3. v \in Tokens /\ status[v] = "unborn" /\ u # v
    BY <1>2 DEF NextToken, Issued, Unrevoked
  <1>4. \A w \in Tokens : /\ status'[w] = IF w = v THEN "live" ELSE IF w = u THEN "revoked" ELSE status[w]
                          /\ sid'[w] = IF w = v THEN sid[u] ELSE sid[w]
    BY <1>1, <1>2, <1>3 DEF SessionsTypeOK
  <1>5. \A w \in Tokens : Issued(w) => status'[w] # "unborn"
    BY <1>4 DEF Issued
  <1>6. ASSUME NEW w \in Tokens, w # u, Replaced(w)' PROVE Replaced(w)
    <2>1. PICK x \in Tokens : status'[x] \in {"live", "expired"} /\ sid'[x] = sid'[w]
      BY <1>6 DEF Replaced, UnrevokedOf, Unrevoked
    <2>2. w # v /\ status[w] = "revoked"
      BY <1>4, <1>6 DEF Replaced
    <2>3. QED
      BY <1>2, <1>4, <2>1, <2>2 DEF Replaced, UnrevokedOf, Unrevoked
  <1>7. u \in lost \/ \E o \in Tabs : o \in carried[u] /\ Hears(req'[o]["refresh"], u)
    <2>1. /\ req[t][k].kind = "refresh" /\ req[t][k].pc = "rotating" /\ req[t][k].tok # NoToken
      BY <1>2 DEF RotateCommits
    <2>2. t \in carried[u] /\ (k # "refresh" => u \in lost)
      BY <2>1 DEF ThiefInv, RefreshIsCarried
    <2>3. CASE k = "refresh"
      <3>1. Hears(req'[t]["refresh"], u)
        BY <1>1, <2>3 DEF Succeed, Hears, SessionsTypeOK, Request
      <3>2. QED
        BY <2>2, <3>1
    <2>4. QED
      BY <2>2, <2>3
  <1>8. ASSUME NEW o \in Tabs, Holding(req[o]["refresh"]),
               req'[o]["refresh"] = req[o]["refresh"],
               status'[req[o]["refresh"].tok] = "revoked"
        PROVE  status[req[o]["refresh"].tok] = "revoked"
    <2>1. req[o]["refresh"].tok \in Tokens
      BY <1>8 DEF ThiefInv, RefreshIsCarried, SessionsTypeOK, Request, Slots
    <2>2. req[o]["refresh"].tok # u
      <3>1. CASE <<o, "refresh">> = <<t, k>>
        <4>1. req'[t][k].pc # "rotating"
          BY <1>1 DEF Succeed, SessionsTypeOK, Request, Free
        <4>2. QED
          BY <1>8, <3>1, <4>1 DEF RotateCommits
      <3>2. CASE <<o, "refresh">> # <<t, k>>
        BY <1>8, <3>2 DEF RotateCommits, RowInv, LocksExclusive, Holding, Slots
      <3>3. QED
        BY <3>1, <3>2
    <2>3. QED
      BY <1>4, <1>8, <2>1, <2>2
  <1>9. QED
    BY <1>5, <1>6, <1>7, <1>8 DEF RowsMove

\* A tab sends the refresh its calls share.
LEMMA RefreshKeepsThief ==
    ASSUME SessionsTypeOK, SessionsTypeOK', ThiefInv, NEW t \in Tabs, refreshSession(t),
           status' = status, sid' = sid, jar' = jar, lost' = lost
    PROVE  ThiefInv'
  <1> USE DEF ThiefInv
  <1>1. CASE refreshPromise(t)
    BY <1>1, RequestsRest, RowsRest, CalmKeepsThief DEF refreshSession, JarMoves
  <1>2. CASE ~ refreshPromise(t)
    <2>1. /\ "refresh" \in Slots /\ jar \in Tokens \cup {NoToken} /\ NoToken \notin Tokens
          /\ req[t]["refresh"].pc = "free"
      BY <1>2, TokensAreNat DEF Slots, SessionsTypeOK, refreshPromise
    <2>2. /\ \A o \in Tabs, j \in Slots : <<o, j>> # <<t, "refresh">> => req'[o][j] = req[o][j]
          /\ req'[t]["refresh"] = AuthRequest("refresh")
      BY <1>2, <2>1 DEF refreshSession, SessionsTypeOK
    <2>3. \A u \in Tokens : carried'[u] = IF u = jar THEN carried[u] \cup {t} ELSE carried[u]
      BY <1>2, <2>1 DEF refreshSession, SessionsTypeOK
    <2>4. LET s == req'[t]["refresh"] IN
          /\ s.pc = "sent" /\ s.kind = "refresh" /\ s.tok = jar /\ s.new = NoToken
      BY <2>2 DEF AuthRequest, Free
    <2>5. SlotKinds'
      BY <2>1, <2>2, <2>4 DEF SlotKinds, Slots
    <2>6. KnownIsIssued'
      BY <2>1, <2>3 DEF KnownIsIssued, Issued
    <2>7. RefreshIsCarried'
      <3> SUFFICES ASSUME NEW o \in Tabs, NEW j \in Slots
                   PROVE  LET s == req'[o][j] IN
                          /\ s.pc # "free" /\ s.kind = "refresh" /\ s.tok # NoToken
                               => o \in carried'[s.tok] /\ (j # "refresh" => s.tok \in lost')
                          /\ Holding(s) => s.tok # NoToken
        BY DEF RefreshIsCarried, Holding
      <3>1. CASE <<o, j>> = <<t, "refresh">>
        BY <2>1, <2>3, <2>4, <3>1 DEF Holding
      <3>2. CASE <<o, j>> # <<t, "refresh">>
        <4>1. req'[o][j] = req[o][j] /\ req[o][j].tok \in Tokens \cup {NoToken}
          BY <2>2, <3>2 DEF SessionsTypeOK, Request
        <4>2. QED
          BY <2>3, <4>1 DEF RefreshIsCarried
      <3>3. QED
        BY <3>1, <3>2
    <2>8. NewIsFresh'
      <3> SUFFICES ASSUME NEW o \in Tabs, NEW j \in Slots, req'[o][j].new # NoToken
                   PROVE  LET v == req'[o][j].new IN
                          /\ Issued(v) /\ jar # v /\ carried'[v] = {}
                          /\ \A p \in Tabs, k \in Slots : req'[p][k].new = v => p = o /\ k = j
        BY DEF NewIsFresh, Issued
      <3>1. req'[o][j] = req[o][j] /\ req[o][j].new \in Tokens
        BY <2>2, <2>4 DEF SessionsTypeOK, Request
      <3>2. \A p \in Tabs, k \in Slots : req'[p][k].new # NoToken => req'[p][k] = req[p][k]
        BY <2>2, <2>4
      <3> DEFINE v == req[o][j].new
      <3>3. /\ Issued(v) /\ jar # v /\ carried[v] = {}
            /\ \A p \in Tabs, k \in Slots : req[p][k].new = v => p = o /\ k = j
        BY <3>1 DEF NewIsFresh
      <3>4. carried'[v] = {}
        BY <2>3, <3>1, <3>3
      <3>5. QED
        BY <3>1, <3>2, <3>3, <3>4
    <2>9. ReplacedIsHeard'
      <3> SUFFICES ASSUME NEW u \in Tokens, Replaced(u), u \notin lost
                   PROVE  /\ carried'[u] # {}
                          /\ \A o \in Tabs : carried'[u] = {o} =>
                               \/ Hears(req'[o]["refresh"], u)
                               \/ jar # u /\ ~ Asks(req'[o]["refresh"], u)
        BY DEF ReplacedIsHeard, Hears, Asks, Replaced, UnrevokedOf, Unrevoked
      <3>1. carried[u] # {}
        BY DEF ReplacedIsHeard
      <3> SUFFICES ASSUME NEW o \in Tabs, carried'[u] = {o}
                   PROVE  \/ Hears(req'[o]["refresh"], u)
                          \/ jar # u /\ ~ Asks(req'[o]["refresh"], u)
        BY <2>3, <3>1
      <3>2. carried[u] = {o} /\ (u = jar => o = t)
        BY <2>3, <3>1
      <3>3. Hears(req[o]["refresh"], u) \/ (jar # u /\ ~ Asks(req[o]["refresh"], u))
        BY <3>2 DEF ReplacedIsHeard
      <3>4. CASE o = t
        BY <2>1, <2>4, <3>3, <3>4 DEF Hears, Asks
      <3>5. CASE o # t
        BY <2>1, <2>2, <3>2, <3>3, <3>5
      <3>6. QED
        BY <3>4, <3>5
    <2>10. OneTabIsNoThief'
      <3> SUFFICES ASSUME NEW o \in Tabs,
                          req'[o]["refresh"].pc = "revoking",
                          req'[o]["refresh"].snap # {},
                          status[req'[o]["refresh"].tok] = "revoked",
                          req'[o]["refresh"].tok \notin lost,
                          carried'[req'[o]["refresh"].tok] = {o}
                   PROVE  FALSE
        BY DEF OneTabIsNoThief
      <3>1. o # t /\ req'[o]["refresh"] = req[o]["refresh"]
        BY <2>1, <2>2, <2>4
      <3> DEFINE u == req[o]["refresh"].tok
      <3>2. u \in Tokens /\ o \in carried[u]
        BY <2>1, <3>1 DEF RefreshIsCarried, SlotKinds, Holding, SessionsTypeOK, Request
      <3>3. carried[u] = {o}
        BY <2>3, <3>1, <3>2
      <3>4. QED
        BY <3>1, <3>3 DEF OneTabIsNoThief
    <2>11. QED
      BY <2>5, <2>6, <2>7, <2>8, <2>9, <2>10
  <1>3. QED
    BY <1>1, <1>2

\* A reload forgets the tab's answers, and with them the replacement of the
\* token its refresh presented.
LEMMA ReloadKeepsThief ==
    ASSUME SessionsTypeOK, SessionsTypeOK', ThiefInv, NEW t \in Tabs, Reload(t)
    PROVE  ThiefInv'
  <1> DEFINE inFlight == {k \in Slots : req[t][k].pc \notin {"free", "answered"}}
             b == CHOOSE x \in inFlight : TRUE
  <1> USE DEF ThiefInv
  <1>1. status' = status /\ sid' = sid /\ jar' = jar /\ carried' = carried
    BY DEF Reload, dbVars
  <1>2. \A o \in Tabs, j \in Slots : o # t => req'[o][j] = req[o][j]
    BY DEF Reload, SessionsTypeOK
  <1>3. \A j \in Slots : req'[t][j] = IF j = "orphan" /\ inFlight # {} THEN req[t][b] ELSE Free
    BY DEF Reload, SessionsTypeOK
  <1>4. inFlight # {} => b \in Slots /\ req[t][b].pc \notin {"free", "answered"}
    OBVIOUS
  <1>5. /\ lost \subseteq lost'
        /\ \A k \in Slots : /\ req[t][k].pc # "free" /\ req[t][k].kind = "refresh"
                            /\ req[t][k].tok # NoToken
                            => req[t][k].tok \in lost'
    BY DEF Reload, SessionsTypeOK, Request
  <1>6. /\ "refresh" \in Slots /\ "user" \in Slots
        /\ req'[t]["refresh"] = Free /\ req'[t]["user"] = Free
    BY <1>3 DEF Slots
  <1> HIDE DEF b, inFlight
  <1>7. SlotKinds'
    BY <1>2, <1>6 DEF SlotKinds, Free
  <1>8. KnownIsIssued'
    BY <1>1 DEF KnownIsIssued, Issued
  <1>9. RefreshIsCarried'
    <2> SUFFICES ASSUME NEW o \in Tabs, NEW j \in Slots
                 PROVE  LET s == req'[o][j] IN
                        /\ s.pc # "free" /\ s.kind = "refresh" /\ s.tok # NoToken
                             => o \in carried[s.tok] /\ (j # "refresh" => s.tok \in lost')
                        /\ Holding(s) => s.tok # NoToken
      BY <1>1 DEF RefreshIsCarried, Holding
    <2>1. CASE o # t
      BY <1>2, <1>5, <2>1 DEF RefreshIsCarried
    <2>2. CASE o = t /\ req'[o][j] = Free
      BY <2>2 DEF Free, Holding
    <2>3. CASE o = t /\ inFlight # {} /\ req'[o][j] = req[t][b]
      BY <1>4, <1>5, <2>3 DEF RefreshIsCarried
    <2>4. QED
      BY <1>3, <2>1, <2>2, <2>3
  <1>10. NewIsFresh'
    <2> SUFFICES ASSUME NEW o \in Tabs, NEW j \in Slots, req'[o][j].new # NoToken
                 PROVE  LET v == req'[o][j].new IN
                        /\ Issued(v) /\ jar # v /\ carried[v] = {}
                        /\ \A p \in Tabs, k \in Slots : req'[p][k].new = v => p = o /\ k = j
      BY <1>1 DEF NewIsFresh, Issued
    <2>1. ASSUME NEW p \in Tabs, NEW k \in Slots, req'[p][k].new # NoToken
          PROVE  \/ p # t /\ req'[p][k] = req[p][k]
                 \/ p = t /\ k = "orphan" /\ b \in Slots /\ req'[p][k] = req[p][b]
      BY <1>2, <1>3, <1>4, <2>1 DEF Free
    <2>2. QED
      BY <2>1 DEF NewIsFresh
  <1>11. ReplacedIsHeard'
    <2> SUFFICES ASSUME NEW u \in Tokens, Replaced(u), u \notin lost'
                 PROVE  /\ carried[u] # {}
                        /\ \A o \in Tabs : carried[u] = {o} =>
                             \/ Hears(req'[o]["refresh"], u)
                             \/ jar # u /\ ~ Asks(req'[o]["refresh"], u)
      BY <1>1 DEF ReplacedIsHeard, Hears, Asks, Replaced, UnrevokedOf, Unrevoked
    <2>1. /\ carried[u] # {}
          /\ \A o \in Tabs : carried[u] = {o} =>
               \/ Hears(req[o]["refresh"], u)
               \/ jar # u /\ ~ Asks(req[o]["refresh"], u)
      BY <1>5 DEF ReplacedIsHeard
    <2>2. ~ Hears(req[t]["refresh"], u)
      BY <1>5, <1>6, TokensAreNat DEF Hears, SlotKinds
    <2>3. ~ Asks(req'[t]["refresh"], u)
      BY <1>6 DEF Asks, Free
    <2>4. QED
      BY <1>2, <1>6, <2>1, <2>2, <2>3
  <1>12. OneTabIsNoThief'
    <2> SUFFICES ASSUME NEW o \in Tabs,
                        req'[o]["refresh"].pc = "revoking",
                        req'[o]["refresh"].snap # {},
                        status[req'[o]["refresh"].tok] = "revoked",
                        req'[o]["refresh"].tok \notin lost',
                        carried[req'[o]["refresh"].tok] = {o}
                 PROVE  FALSE
      BY <1>1 DEF OneTabIsNoThief
    <2>1. req'[o]["refresh"] = req[o]["refresh"]
      BY <1>2, <1>6 DEF Free
    <2>2. QED
      BY <1>5, <2>1 DEF OneTabIsNoThief
  <1>13. QED
    BY <1>7, <1>8, <1>9, <1>10, <1>11, <1>12

\* The calls of a tab, and what it does with the answers it hears.
LEMMA ClientKeepsThief ==
    ASSUME SessionsTypeOK, SessionsTypeOK', ThiefInv, NEW t \in Tabs,
           \/ AnswerStep(t)
           \/ UserStep(t)
           \/ \E c \in AllCalls : CallStep(t, c)
    PROVE  ThiefInv'
  <1> USE DEF dbVars, historyVars, boundVars
  <1>0. "refresh" \in Slots /\ "user" \in Slots
    BY DEF Slots
  <1>1. ASSUME NEW c \in AllCalls, CallStep(t, c) PROVE ThiefInv'
    <2>1. CASE ReceiveDenied(t, c)
      BY <2>1, RefreshKeepsThief DEF ReceiveDenied
    <2>2. CASE Serve(t, c) \/ Deny(t, c) \/ ReceiveRedenied(t, c)
      BY <2>2, RequestsRest, RowsRest, CalmKeepsThief
         DEF Serve, Deny, ReceiveRedenied, JarMoves
    <2>3. QED
      BY <1>1, <2>1, <2>2 DEF CallStep
  <1>2. CASE GateRefresh(t)
    BY <1>2, RefreshKeepsThief DEF GateRefresh
  <1>3. CASE RefreshSucceeds(t)
    <2> DEFINE r == req[t]["refresh"]
    <2>1. /\ r.pc = "answered" /\ jar' = r.new
          /\ req' = [req EXCEPT ![t]["refresh"] = Free]
          /\ status' = status /\ sid' = sid /\ carried' = carried /\ lost' = lost
      BY <1>3 DEF RefreshSucceeds
    <2>2. req'[t]["refresh"] = Free
      BY <1>0, <2>1 DEF SessionsTypeOK
    <2>3. r.tok # NoToken => jar' # r.tok
      <3>1. r.tok # NoToken => t \in carried[r.tok]
        BY <1>0, <2>1 DEF ThiefInv, RefreshIsCarried, SlotKinds
      <3>2. r.new # NoToken => carried[r.new] = {}
        BY <1>0 DEF ThiefInv, NewIsFresh
      <3>3. QED
        BY <2>1, <3>1, <3>2
    <2>4. Settles(t, "refresh")
      BY <2>2, <2>3 DEF Settles, Free
    <2>5. RequestsMove
      BY <1>0, <2>1, <2>4, SlotMoves DEF Moves
    <2>6. JarMoves
      BY <1>0, <2>1, <2>2 DEF JarMoves, Free
    <2>7. QED
      BY <2>1, <2>5, <2>6, RowsRest, CalmKeepsThief
  <1>4. CASE RefreshFails(t)
    <2>1. /\ ~ req[t]["refresh"].ok
          /\ req' = [req EXCEPT ![t]["refresh"] = Free]
      BY <1>4 DEF RefreshFails
    <2>2. req'[t]["refresh"] = Free
      BY <1>0, <2>1 DEF SessionsTypeOK
    <2>3. Settles(t, "refresh")
      BY <2>1, <2>2 DEF Settles, Free
    <2>4. RequestsMove
      BY <1>0, <2>1, <2>3, SlotMoves DEF Moves
    <2>5. QED
      BY <1>4, <2>4, RowsRest, CalmKeepsThief DEF RefreshFails, JarMoves
  <1>5. CASE LoginAnswered(t) \/ LogoutAnswered(t)
    <2>1. req' = [req EXCEPT ![t]["user"] = Free]
      BY <1>5 DEF LoginAnswered, LogoutAnswered
    <2>2. req'[t]["user"] = Free
      BY <1>0, <2>1 DEF SessionsTypeOK
    <2>3. Settles(t, "user")
      BY <2>2 DEF Settles, Free
    <2>4. RequestsMove
      BY <1>0, <2>1, <2>3, SlotMoves DEF Moves
    <2>5. JarMoves
      BY <1>0, <1>5, <2>2 DEF JarMoves, LoginAnswered, LogoutAnswered, Free
    <2>6. QED
      BY <1>5, <2>4, <2>5, RowsRest, CalmKeepsThief DEF LoginAnswered, LogoutAnswered
  <1>6. CASE Reload(t)
    BY <1>6, ReloadKeepsThief
  <1>7. CASE SubmitLogin(t) \/ SubmitLogout(t)
    <2>1. PICK kind \in {"login", "logout"} : req' = [req EXCEPT ![t]["user"] = AuthRequest(kind)]
      BY <1>7 DEF SubmitLogin, SubmitLogout
    <2>2. req'[t]["user"] = AuthRequest(kind)
      BY <1>0, <2>1 DEF SessionsTypeOK
    <2>3. Opens(t, "user")
      BY <2>2 DEF Opens, AuthRequest, Free
    <2>4. RequestsMove
      BY <1>0, <2>1, <2>3, SlotMoves DEF Moves
    <2>5. QED
      BY <1>7, <2>4, RowsRest, CalmKeepsThief DEF SubmitLogin, SubmitLogout, JarMoves
  <1>8. CASE OpenTab(t) \/ \E c \in Calls : UserCall(t, c)
    BY <1>8, RequestsRest, RowsRest, CalmKeepsThief DEF OpenTab, UserCall, JarMoves
  <1>9. QED
    BY <1>1, <1>2, <1>3, <1>4, <1>5, <1>6, <1>7, <1>8 DEF AnswerStep, UserStep

\* The requests the backend answers or lets go on.
LEMMA BackendKeepsThief ==
    ASSUME SessionsTypeOK, SessionsTypeOK', RowInv, ThiefInv,
           NEW t \in Tabs, NEW k \in Slots, BackendStep(t, k)
    PROVE  ThiefInv'
  <1> USE DEF dbVars, browserVars, historyVars, boundVars
  <1>0. req[t][k] \in Request
    BY DEF SessionsTypeOK
  <1>a. carried' = carried /\ lost' = lost /\ jar' = jar /\ JarMoves
    BY DEF BackendStep, RefuseUnknown, LoginReads, LoginCommits, RotateReads, RotateCommits,
       InsertFails, LogoutReads, RevokeCommits, AbortRotation, JarMoves
  <1>b. ASSUME RequestsMove, RowsMove PROVE ThiefInv'
    BY <1>a, <1>b, CalmKeepsThief
  <1>c. ASSUME Fail(t, k), req[t][k].pc \notin {"free", "answered"} PROVE RequestsMove
    BY <1>c, FailMoves
  <1>d. ASSUME NEW r, req' = [req EXCEPT ![t][k] = r], Progresses(t, k) PROVE RequestsMove
    BY <1>d, SlotMoves DEF Moves
  <1>1. CASE RefuseUnknown(t, k) \/ InsertFails(t, k) \/ AbortRotation(t, k)
    <2>1. Fail(t, k) /\ req[t][k].pc \notin {"free", "answered"}
      BY <1>1 DEF RefuseUnknown, InsertFails, AbortRotation, Deadlocked
    <2>2. status' = status /\ sid' = sid
      BY <1>1 DEF RefuseUnknown, InsertFails, AbortRotation
    <2>3. QED
      BY <1>b, <1>c, <2>1, <2>2, RowsRest
  <1>2. CASE LoginReads(t, k)
    <2>1. RowsMove
      BY <1>2, RowsRest DEF LoginReads
    <2>2. CASE Fail(t, k)
      BY <1>2, <1>b, <1>c, <2>1, <2>2 DEF LoginReads
    <2>3. CASE ~ Fail(t, k)
      <3> DEFINE r == [req[t][k] EXCEPT !.pc = "issuing"]
      <3>1. req' = [req EXCEPT ![t][k] = r] /\ req[t][k].pc = "sent"
        BY <1>2, <2>3 DEF LoginReads
      <3>2. req'[t][k] = r
        BY <3>1 DEF SessionsTypeOK
      <3>3. Progresses(t, k)
        BY <1>0, <3>1, <3>2 DEF Progresses, Request, Holding, ThiefInv, NewIsFresh, Issues
      <3>4. QED
        BY <1>b, <1>d, <2>1, <3>1, <3>3
    <2>4. QED
      BY <2>2, <2>3
  <1>3. CASE RotateReads(t, k) \/ LogoutReads(t, k)
    <2>1. RowsMove
      BY <1>3, RowsRest DEF RotateReads, LogoutReads
    <2>2. CASE Fail(t, k)
      BY <1>3, <1>b, <1>c, <2>1, <2>2 DEF RotateReads, LogoutReads
    <2>3. CASE ~ Fail(t, k)
      <3>1. \A o \in Tabs, j \in Slots : <<o, j>> # <<t, k>> => req'[o][j] = req[o][j]
        BY <1>3, <2>3 DEF RotateReads, LogoutReads, SessionsTypeOK
      <3>2. /\ req[t][k].pc = "sent" /\ req[t][k].tok # NoToken /\ status' = status
            /\ req'[t][k].tok = req[t][k].tok /\ req'[t][k].kind = req[t][k].kind
            /\ req'[t][k].new = req[t][k].new
            /\ \/ req'[t][k].pc = "rotating"
               \/ /\ req'[t][k].pc = "revoking"
                  /\ req'[t][k].snap = UnrevokedOf(sid[req[t][k].tok])
        <4>1. CASE RotateReads(t, k)
          BY <1>0, <4>1 DEF RotateReads, SessionsTypeOK, Request
        <4>2. CASE LogoutReads(t, k)
          BY <1>0, <2>3, <4>2 DEF LogoutReads, SessionsTypeOK, Request
        <4>3. QED
          BY <1>3, <4>1, <4>2
      <3>3. Progresses(t, k)
        BY <3>2 DEF Progresses, Holding, ThiefInv, NewIsFresh, Issues
      <3>4. QED
        BY <1>b, <2>1, <3>1, <3>3, OneRequestMoves DEF Moves
    <2>4. QED
      BY <2>2, <2>3
  <1>4. CASE LoginCommits(t, k)
    <2>1. PICK v \in NextToken : /\ status' = [status EXCEPT ![v] = "live"]
                                 /\ sid' = [sid EXCEPT ![v] = v]
                                 /\ Succeed(t, k, v)
      BY <1>4 DEF LoginCommits
    <2>2. ~ Issued(v) /\ status'[v] # "unborn"
      BY <2>1 DEF NextToken, SessionsTypeOK
    <2>3. RequestsMove
      BY <1>4, <2>1, <2>2, SucceedMoves DEF LoginCommits
    <2>4. QED
      BY <1>b, <2>1, <2>3, LoginRowsMove
  <1>5. CASE RotateCommits(t, k)
    <2>1. PICK v \in NextToken : /\ status' = [status EXCEPT ![req[t][k].tok] = "revoked", ![v] = "live"]
                                 /\ Succeed(t, k, v)
      BY <1>5 DEF RotateCommits
    <2>2. ~ Issued(v) /\ status'[v] # "unborn"
      BY <2>1 DEF NextToken, SessionsTypeOK
    <2>3. RequestsMove
      BY <1>5, <2>1, <2>2, SucceedMoves DEF RotateCommits
    <2>4. QED
      BY <1>5, <1>a, <1>b, <2>3, RotatedRowsMove
  <1>6. CASE RevokeCommits(t, k)
    <2>1. /\ RevokeRows(req[t][k].snap) /\ sid' = sid /\ req[t][k].pc = "revoking"
          /\ Fail(t, k) \/ Succeed(t, k, NoToken)
      BY <1>6 DEF RevokeCommits
    <2>2. RequestsMove
      BY <2>1, FailMoves, SucceedMoves
    <2>3. ASSUME NEW o \in Tabs, Holding(req[o]["refresh"]),
                 req'[o]["refresh"] = req[o]["refresh"]
          PROVE  req[o]["refresh"].tok \notin req[t][k].snap
      <3>1. CASE <<o, "refresh">> = <<t, k>>
        <4>1. req'[t][k].pc \in {"free", "answered"}
          <5>1. CASE Fail(t, k)
            BY <5>1 DEF Fail, SessionsTypeOK, Free
          <5>2. CASE Succeed(t, k, NoToken)
            BY <1>0, <5>2 DEF Succeed, SessionsTypeOK, Request, Free
          <5>3. QED
            BY <2>1, <5>1, <5>2
        <4>2. QED
          BY <2>3, <3>1, <4>1 DEF Holding
      <3>2. CASE <<o, "refresh">> # <<t, k>>
        BY <1>6, <2>3, <3>2 DEF RevokeCommits, LockedByOther, Holds, Holding, Slots
      <3>3. QED
        BY <3>1, <3>2
    <2>4. RowsMove
      BY <2>1, <2>3, RevokedRowsMove
    <2>5. QED
      BY <1>b, <2>2, <2>4
  <1>7. QED
    BY <1>1, <1>2, <1>3, <1>4, <1>5, <1>6 DEF BackendStep

LEMMA NextKeepsThief ==
    ASSUME SessionsTypeOK, SessionsTypeOK', RowInv, ThiefInv, [SessionsNext]_sessionVars
    PROVE  ThiefInv'
  <1> USE DEF dbVars, browserVars, historyVars, boundVars
  <1>1. CASE UNCHANGED sessionVars
    BY <1>1, RequestsRest, RowsRest, CalmKeepsThief DEF sessionVars, JarMoves
  <1>2. ASSUME AdminStep PROVE ThiefInv'
    <2>1. CASE DisableCommits
      <3>1. \A t \in Tabs : Holding(req[t]["refresh"]) => req[t]["refresh"].tok \notin admin.snap
        BY <2>1 DEF DisableCommits, Holds, Holding, Slots
      <3>2. RowsMove
        BY <2>1, <3>1, RevokedRowsMove DEF DisableCommits
      <3>3. QED
        BY <2>1, <3>2, RequestsRest, CalmKeepsThief DEF DisableCommits, JarMoves
    <2>2. CASE DisableReads \/ AbortDisable \/ Enable
      BY <2>2, RequestsRest, RowsRest, CalmKeepsThief
         DEF DisableReads, AbortDisable, Enable, JarMoves
    <2>3. QED
      BY <1>2, <2>1, <2>2 DEF AdminStep
  <1>3. ASSUME FaultStep PROVE ThiefInv'
    <2>1. ASSUME NEW u \in Tokens, TokenExpires(u) PROVE ThiefInv'
      BY <2>1, RequestsRest, ExpiredRowsMove, CalmKeepsThief DEF TokenExpires, JarMoves
    <2>2. ASSUME \/ \E u \in Tokens : AccessExpires(u)
                 \/ \E t \in Tabs, c \in AllCalls : LoseCall(t, c)
          PROVE  ThiefInv'
      BY <2>2, RequestsRest, RowsRest, CalmKeepsThief DEF AccessExpires, LoseCall, JarMoves
    <2>3. ASSUME NEW t \in Tabs, NEW k \in Slots, LoseRequest(t, k) PROVE ThiefInv'
      <3>1. RequestsMove
        BY <2>3, FailMoves DEF LoseRequest
      <3>2. QED
        BY <2>3, <3>1, RowsRest, CalmKeepsThief DEF LoseRequest, JarMoves
    <2>4. ASSUME NEW t \in Tabs, LoseAnswer(t) PROVE ThiefInv'
      <3> DEFINE r == req[t]["refresh"]
      <3>1. /\ "refresh" \in Slots /\ r.tok \in Tokens \cup {NoToken}
            /\ r.pc = "answered" /\ lost' = lost \cup {u \in Tokens : u = r.tok}
            /\ Fail(t, "refresh")
        BY <2>4 DEF LoseAnswer, Slots, SessionsTypeOK, Request
      <3>2. RequestsMove
        BY <3>1, FailMoves
      <3>3. QED
        BY <2>4, <3>1, <3>2, RowsRest, CalmKeepsThief DEF LoseAnswer, JarMoves
    <2>5. QED
      BY <1>3, <2>1, <2>2, <2>3, <2>4 DEF FaultStep
  <1>4. QED
    BY <1>1, <1>2, <1>3, ClientKeepsThief, BackendKeepsThief DEF SessionsNext

\* OneTabIsNoThief: the backend never takes the calls of a single tab for a
\* theft, whatever fails, expires or is answered late, unless the tab never
\* heard of a rotation.
THEOREM OneTabIsTrusted == SessionsSpec => []OneTabIsNoThief
  <1>1. SessionsInit => ThiefInv
    <2> SUFFICES ASSUME SessionsInit PROVE ThiefInv
      OBVIOUS
    <2>1. \A t \in Tabs, k \in Slots : req[t][k] = Free
      BY DEF SessionsInit
    <2>2. \A u \in Tokens : carried[u] = {} /\ ~ Replaced(u)
      BY DEF SessionsInit, Replaced
    <2>3. jar # NoToken => jar \in Tokens /\ Issued(jar)
      BY TokensAreNat DEF SessionsInit, Issued
    <2>4. "refresh" \in Slots /\ "user" \in Slots
      BY DEF Slots
    <2>5. QED
      BY <2>1, <2>2, <2>3, <2>4 DEF ThiefInv, SlotKinds, KnownIsIssued, RefreshIsCarried,
         NewIsFresh, ReplacedIsHeard, OneTabIsNoThief, Free, Holding
  <1>2. /\ SessionsTypeOK /\ SessionsTypeOK' /\ RowInv /\ ThiefInv /\ [SessionsNext]_sessionVars
        => ThiefInv'
    BY NextKeepsThief
  <1>3. ThiefInv => OneTabIsNoThief
    BY DEF ThiefInv
  <1>4. QED
    BY <1>1, <1>2, <1>3, SessionsInvariant, PTL DEF SessionsSpec
=============================================================================
