------------------------------ MODULE Sessions ------------------------------
(***************************************************************************)
(* Browser tabs that share one cookie jar, and the refresh-token rows of   *)
(* the backend.  A tab runs the fetch wrapper of lib/api.ts (a 401 leads   *)
(* to one shared refresh and one retry), the stream of useChatStream       *)
(* (which does the same), AuthGate, the login page and the logout button.  *)
(* The backend rotates a refresh token under a row lock, treats a second   *)
(* use of it as theft and revokes the session; an administrator may        *)
(* disable the account meanwhile.                                          *)
(*                                                                         *)
(* A JavaScript task runs to its next await without interruption, so every *)
(* client action is one handler or one continuation.  A database statement *)
(* of the backend that can wait for a row lock is a step of its own.       *)
(* All tabs belong to one account.                                         *)
(***************************************************************************)
EXTENDS Naturals, FiniteSets

CONSTANTS
    Tabs,
    Calls,          \* ordinary calls a tab can have in flight at a time
    Me,             \* the call of /api/auth/me that AuthGate makes
    MaxTokens,      \* bound on the refresh tokens ever issued
    MaxClicks,      \* bound on what the users and the administrator do
    MaxFaults       \* bound on what the network loses and the sessions that expire

ASSUME SessionsAssumption ==
    /\ MaxTokens \in Nat \ {0}
    /\ MaxClicks \in Nat
    /\ MaxFaults \in Nat
    /\ Me \notin Calls

Tokens == 1 .. MaxTokens
NoToken == 0
AllCalls == Calls \cup {Me}

(***************************************************************************)
(* The database: a token row has a status and the session it belongs to,   *)
(* named after the token the session started with.                         *)
(***************************************************************************)
VARIABLES
    status,     \* [Tokens -> Statuses]
    sid,        \* [Tokens -> Tokens]: the session of an issued token
    disabled,   \* users.is_disabled
    admin       \* the transaction of update_user, if one is open

(***************************************************************************)
(* The browser: one jar, and per tab its page, its calls and its requests  *)
(* to /api/auth.  A request of a reloaded page lives on as "orphan".       *)
(***************************************************************************)
VARIABLES
    jar,        \* the generation of cookies the browser would send
    stale,      \* tokens whose access token has expired
    page,       \* [Tabs -> Pages]
    call,       \* [Tabs -> [AllCalls -> CallRecord]]
    req,        \* [Tabs -> [Slots -> Request]]
    carried,    \* history: [Tokens -> SUBSET Tabs] tabs that tried to rotate a token
    lost,       \* history: tokens whose rotation was never heard of
    clicks, faults  \* what is spent of the bounds

dbVars == <<status, sid, disabled, admin>>
historyVars == <<carried, lost>>
boundVars == <<clicks, faults>>
sessionVars == <<status, sid, disabled, admin, jar, stale, page, call, req,
                 carried, lost, clicks, faults>>

Statuses == {"unborn", "live", "expired", "revoked"}
Pages == {"closed", "gate", "app", "login"}
Slots == {"refresh", "user", "orphan"}
CallSteps == {"idle", "sent", "denied", "waiting", "resent", "redenied", "failed", "regate"}
RequestSteps == {"free", "sent", "issuing", "rotating", "revoking", "answered"}
Kinds == {"refresh", "login", "logout"}

CallRecord == [pc : CallSteps, tok : Tokens \cup {NoToken}]
Request == [pc : RequestSteps, kind : Kinds, tok : Tokens \cup {NoToken},
            snap : SUBSET Tokens, ok : BOOLEAN, new : Tokens \cup {NoToken}]

Idle == [pc |-> "idle", tok |-> NoToken]
Free == [pc |-> "free", kind |-> "refresh", tok |-> NoToken, snap |-> {},
         ok |-> FALSE, new |-> NoToken]
NoUpdate == [open |-> FALSE, snap |-> {}]

SessionsTypeOK ==
    /\ status \in [Tokens -> Statuses]
    /\ sid \in [Tokens -> Tokens]
    /\ disabled \in BOOLEAN
    /\ admin \in [open : BOOLEAN, snap : SUBSET Tokens]
    /\ jar \in Tokens \cup {NoToken}
    /\ stale \subseteq Tokens
    /\ page \in [Tabs -> Pages]
    /\ call \in [Tabs -> [AllCalls -> CallRecord]]
    /\ req \in [Tabs -> [Slots -> Request]]
    /\ carried \in [Tokens -> SUBSET Tabs]
    /\ lost \subseteq Tokens
    /\ clicks \in 0 .. MaxClicks
    /\ faults \in 0 .. MaxFaults

-----------------------------------------------------------------------------
(* The rows and their locks. *)

Issued(t) == status[t] # "unborn"

Unrevoked(t) == status[t] \in {"live", "expired"}

UnrevokedOf(s) == {t \in Tokens : Unrevoked(t) /\ sid[t] = s}

\* SELECT ... FOR UPDATE of a token row holds it to the end of the transaction.
Holds(t, k, u) == req[t][k].pc \in {"rotating", "revoking"} /\ req[t][k].tok = u

\* Mutant of LockedByOther: the rows are read without FOR UPDATE.
LockedByNobody(t, k, u) == FALSE

LockedByOther(t, k, u) ==
    \E o \in Tabs, j \in Slots : <<o, j>> # <<t, k>> /\ Holds(o, j, u)

\* Mutant of UserRowFree: token rows have no foreign key to their user.
UserRowNeverHeld == TRUE

\* Inserting a token takes a key-share lock on its user, which the open
\* transaction of update_user holds exclusively.
UserRowFree == ~ admin.open

\* The session a request with cookies of generation u is accepted for.
validate_access_token(u) ==
    /\ u # NoToken
    /\ u \notin stale
    /\ ~ disabled
    /\ \E v \in Tokens : status[v] = "live" /\ sid[v] = sid[u]

NextToken == {u \in Tokens : ~ Issued(u) /\ \A v \in Tokens : v < u => Issued(v)}

-----------------------------------------------------------------------------
(* lib/api.ts: the fetch wrapper. *)

\* rawFetch: the request carries the cookies the jar holds now.
Sent == [pc |-> "sent", tok |-> jar]

\* A request of one tab to /api/auth.
AuthRequest(kind) == [Free EXCEPT !.pc = "sent", !.kind = kind, !.tok = jar]

\* Mutant of refreshPromise: every call starts a refresh of its own.
refreshUnshared(t) == FALSE

\* The refresh a tab shares between all its calls.
refreshPromise(t) == req[t]["refresh"].pc # "free"

\* What a tab's requests become when one of its continuations needs a refresh.
refreshSession(t) ==
    IF refreshPromise(t)
      THEN /\ req' = req
           /\ carried' = carried
      ELSE /\ req' = [req EXCEPT ![t]["refresh"] = AuthRequest("refresh")]
           /\ carried' = IF jar = NoToken THEN carried
                         ELSE [carried EXCEPT ![jar] = @ \cup {t}]

\* Mutant of signalAuthRequired: the event leads to a page that is not there.
signalLost(t) == page' = [page EXCEPT ![t] = "expired"]

\* The AUTH_REQUIRED event reaches a tab whose AuthGate is mounted.
signalAuthRequired(t) == page' = [page EXCEPT ![t] = "login"]

\* Somebody does something with a page.
Click == clicks < MaxClicks /\ clicks' = clicks + 1

\* The workspace makes a call or opens a chat stream.
UserCall(t, c) ==
    /\ Click
    /\ page[t] = "app"
    /\ call[t][c].pc = "idle"
    /\ call' = [call EXCEPT ![t][c] = Sent]
    /\ UNCHANGED <<dbVars, jar, stale, page, req, historyVars, faults>>

\* The backend accepts the call and the answer arrives.  AuthGate then shows
\* the workspace.
Serve(t, c) ==
    /\ call[t][c].pc \in {"sent", "resent"}
    /\ validate_access_token(call[t][c].tok)
    /\ call' = [call EXCEPT ![t][c] = Idle]
    /\ page' = [page EXCEPT ![t] = IF c = Me /\ @ = "gate" THEN "app" ELSE @]
    /\ UNCHANGED <<dbVars, jar, stale, req, historyVars, boundVars>>

\* The backend answers 401; the answer is under way.
Deny(t, c) ==
    /\ call[t][c].pc \in {"sent", "resent"}
    /\ ~ validate_access_token(call[t][c].tok)
    /\ call' = [call EXCEPT ![t][c] =
                  [Idle EXCEPT !.pc = IF call[t][c].pc = "sent" THEN "denied" ELSE "redenied"]]
    /\ UNCHANGED <<dbVars, jar, stale, page, req, historyVars, boundVars>>

\* The first 401 of a call: wait for the shared refresh.
ReceiveDenied(t, c) ==
    /\ call[t][c].pc = "denied"
    /\ call' = [call EXCEPT ![t][c].pc = "waiting"]
    /\ refreshSession(t)
    /\ UNCHANGED <<dbVars, jar, stale, page, lost, boundVars>>

\* How a call of a tab ends when it gets no answer that helps: restoreSession
\* goes on to refresh by itself, the others show an error.
GiveUp(c) == IF c = Me THEN [Idle EXCEPT !.pc = "failed"] ELSE Idle

\* The second 401 of a call: it is not retried again.
ReceiveRedenied(t, c) ==
    /\ call[t][c].pc = "redenied"
    /\ call' = [call EXCEPT ![t][c] = GiveUp(c)]
    /\ signalAuthRequired(t)
    /\ UNCHANGED <<dbVars, jar, stale, req, historyVars, boundVars>>

\* The network fails under a call.
LoseCall(t, c) ==
    /\ faults < MaxFaults
    /\ call[t][c].pc \in {"sent", "resent"}
    /\ call' = [call EXCEPT ![t][c] = GiveUp(c)]
    /\ faults' = faults + 1
    /\ UNCHANGED <<dbVars, jar, stale, page, req, historyVars, clicks>>

\* restoreSession: after a failed /me, one refresh of its own.
GateRefresh(t) ==
    /\ call[t][Me].pc = "failed"
    /\ call' = [call EXCEPT ![t][Me].pc = "regate"]
    /\ refreshSession(t)
    /\ UNCHANGED <<dbVars, jar, stale, page, lost, boundVars>>

\* The refresh answers with new cookies: refreshPromise is cleared, every call
\* that waited is sent again with them, and a waiting gate opens.
RefreshSucceeds(t) ==
    LET r == req[t]["refresh"] IN
    /\ r.pc = "answered"
    /\ r.ok
    /\ jar' = r.new
    /\ call' = [call EXCEPT ![t] = [c \in AllCalls |->
                  CASE @[c].pc = "waiting" -> [pc |-> "resent", tok |-> r.new]
                    [] @[c].pc = "regate" -> Idle
                    [] OTHER -> @[c]]]
    /\ page' = [page EXCEPT ![t] =
                  IF @ = "gate" /\ call[t][Me].pc = "regate" THEN "app" ELSE @]
    /\ req' = [req EXCEPT ![t]["refresh"] = Free]
    /\ UNCHANGED <<dbVars, stale, historyVars, boundVars>>

\* Mutant of RefreshFails: the calls that waited are not told.
RefreshFailsAlone(t) ==
    LET r == req[t]["refresh"] IN
    /\ r.pc = "answered"
    /\ ~ r.ok
    /\ signalAuthRequired(t)
    /\ req' = [req EXCEPT ![t]["refresh"] = Free]
    /\ UNCHANGED <<dbVars, jar, stale, call, historyVars, boundVars>>

\* The refresh fails: every call that waited fails with it, and the tab goes
\* to the login page.
RefreshFails(t) ==
    LET r == req[t]["refresh"] IN
    /\ r.pc = "answered"
    /\ ~ r.ok
    /\ call' = [call EXCEPT ![t] = [c \in AllCalls |->
                  CASE @[c].pc = "waiting" -> GiveUp(c)
                    [] @[c].pc = "regate" -> Idle
                    [] OTHER -> @[c]]]
    /\ IF \E c \in AllCalls : call[t][c].pc = "waiting"
         THEN signalAuthRequired(t)
         ELSE page' = [page EXCEPT ![t] = IF @ = "gate" THEN "login" ELSE @]
    /\ req' = [req EXCEPT ![t]["refresh"] = Free]
    /\ UNCHANGED <<dbVars, jar, stale, historyVars, boundVars>>

-----------------------------------------------------------------------------
(* Pages. *)

\* AuthGate is mounted: it asks who is logged in.
EnterGate(t) ==
    /\ page' = [page EXCEPT ![t] = "gate"]
    /\ call' = [call EXCEPT ![t] = [@ EXCEPT ![Me] = Sent]]

OpenTab(t) ==
    /\ Click
    /\ page[t] = "closed"
    /\ EnterGate(t)
    /\ UNCHANGED <<dbVars, jar, stale, req, historyVars, faults>>

\* The login form.  An answer to an earlier restoreSession is over by then.
SubmitLogin(t) ==
    /\ Click
    /\ page[t] = "login"
    /\ req[t]["user"].pc = "free"
    /\ call[t][Me].pc = "idle"
    /\ req' = [req EXCEPT ![t]["user"] = AuthRequest("login")]
    /\ UNCHANGED <<dbVars, jar, stale, page, call, historyVars, faults>>

\* The logout button.
SubmitLogout(t) ==
    /\ Click
    /\ page[t] = "app"
    /\ req[t]["user"].pc = "free"
    /\ req' = [req EXCEPT ![t]["user"] = AuthRequest("logout")]
    /\ UNCHANGED <<dbVars, jar, stale, page, call, historyVars, faults>>

\* A login sets the cookies and opens the workspace; a refused one shows an
\* error and leaves the form usable.
LoginAnswered(t) ==
    LET r == req[t]["user"] IN
    /\ r.pc = "answered"
    /\ r.kind = "login"
    /\ req' = [req EXCEPT ![t]["user"] = Free]
    /\ IF r.ok
         THEN /\ jar' = r.new
              /\ page' = [page EXCEPT ![t] = "gate"]
              /\ call' = [call EXCEPT ![t][Me] = [pc |-> "sent", tok |-> r.new]]
         ELSE UNCHANGED <<jar, page, call>>
    /\ UNCHANGED <<dbVars, stale, historyVars, boundVars>>

\* A logout clears the cookies and shows the login page; handleLogout does
\* nothing about a refused one.
LogoutAnswered(t) ==
    LET r == req[t]["user"] IN
    /\ r.pc = "answered"
    /\ r.kind = "logout"
    /\ req' = [req EXCEPT ![t]["user"] = Free]
    /\ IF r.ok
         THEN /\ jar' = NoToken
              /\ page' = [page EXCEPT ![t] = "login"]
         ELSE UNCHANGED <<jar, page>>
    /\ UNCHANGED <<dbVars, stale, call, historyVars, boundVars>>

\* The page is loaded again: its calls are forgotten, what it asked of
\* /api/auth is still processed, but nobody hears the answer.
Reload(t) ==
    LET inFlight == {k \in Slots : req[t][k].pc \notin {"free", "answered"}}
        unheard == {k \in Slots : req[t][k].pc # "free" /\ req[t][k].kind = "refresh"}
    IN
    /\ Click
    /\ page[t] \in {"gate", "app", "login"}
    /\ Cardinality(inFlight) <= 1
    /\ req' = [req EXCEPT ![t] = [k \in Slots |->
                  IF k = "orphan" /\ inFlight # {}
                    THEN req[t][CHOOSE b \in inFlight : TRUE] ELSE Free]]
    /\ lost' = lost \cup {u \in Tokens : \E k \in unheard : req[t][k].tok = u}
    /\ call' = [call EXCEPT ![t] = [c \in AllCalls |->
                  IF c = Me /\ page[t] # "login" THEN Sent ELSE Idle]]
    /\ page' = [page EXCEPT ![t] = IF @ = "login" THEN @ ELSE "gate"]
    /\ UNCHANGED <<dbVars, jar, stale, carried, faults>>

-----------------------------------------------------------------------------
(* The backend. *)

\* A request fails, or succeeds with the token it issued, if any.  Nobody
\* hears the answer to a page that is gone.
Fail(t, k) ==
    req' = [req EXCEPT ![t][k] =
              IF k = "orphan" THEN Free
              ELSE [Free EXCEPT !.pc = "answered", !.kind = req[t][k].kind]]

Succeed(t, k, new) ==
    req' = [req EXCEPT ![t][k] =
              IF k = "orphan" THEN Free
              ELSE [req[t][k] EXCEPT !.pc = "answered", !.snap = {}, !.ok = TRUE, !.new = new]]

browserVars == <<jar, stale, page, call>>

\* A session cookie is missing, or names no row: nothing is touched.
RefuseUnknown(t, k) ==
    /\ req[t][k].pc = "sent"
    /\ req[t][k].kind # "login"
    /\ req[t][k].tok = NoToken
    /\ Fail(t, k)
    /\ UNCHANGED <<dbVars, browserVars, historyVars, boundVars>>

\* login: the account is read and the password verified.
LoginReads(t, k) ==
    /\ req[t][k].pc = "sent"
    /\ req[t][k].kind = "login"
    /\ IF disabled
         THEN Fail(t, k)
         ELSE req' = [req EXCEPT ![t][k].pc = "issuing"]
    /\ UNCHANGED <<dbVars, browserVars, historyVars, boundVars>>

\* login: a token of a new session is inserted and committed.
LoginCommits(t, k) ==
    /\ req[t][k].pc = "issuing"
    /\ req[t][k].kind = "login"
    /\ UserRowFree
    /\ \E u \in NextToken :
         /\ status' = [status EXCEPT ![u] = "live"]
         /\ sid' = [sid EXCEPT ![u] = u]
         /\ Succeed(t, k, u)
    /\ UNCHANGED <<disabled, admin, browserVars, historyVars, boundVars>>

\* rotate_refresh_token: the presented row is locked and read, and so is the
\* account.  A token that may not be rotated starts the revocation of its
\* session: an UPDATE that acts on the rows unrevoked now.
RotateReads(t, k) ==
    LET u == req[t][k].tok IN
    /\ req[t][k].pc = "sent"
    /\ req[t][k].kind = "refresh"
    /\ u # NoToken
    /\ ~ LockedByOther(t, k, u)
    /\ req' = IF status[u] = "live" /\ ~ disabled
                THEN [req EXCEPT ![t][k].pc = "rotating"]
                ELSE [req EXCEPT ![t][k].pc = "revoking",
                                 ![t][k].snap = UnrevokedOf(sid[u])]
    /\ UNCHANGED <<dbVars, browserVars, historyVars, boundVars>>

\* rotate_refresh_token: the old row is revoked and its replacement inserted
\* in one commit.
RotateCommits(t, k) ==
    LET u == req[t][k].tok IN
    /\ req[t][k].pc = "rotating"
    /\ req[t][k].kind = "refresh"
    /\ UserRowFree
    /\ \E v \in NextToken :
         /\ status' = [status EXCEPT ![u] = "revoked", ![v] = "live"]
         /\ sid' = [sid EXCEPT ![v] = sid[u]]
         /\ Succeed(t, k, v)
    /\ UNCHANGED <<disabled, admin, browserVars, historyVars, boundVars>>

\* The transaction that would insert a token fails and is rolled back.  It
\* always fails once MaxTokens are issued, which keeps the model finite.
InsertFails(t, k) ==
    /\ req[t][k].pc \in {"issuing", "rotating"}
    /\ NextToken = {}
    /\ Fail(t, k)
    /\ UNCHANGED <<dbVars, browserVars, historyVars, boundVars>>

\* Mutant of LogoutReads: the row is read without FOR UPDATE.
LogoutReadsUnlocked(t, k) ==
    LET u == req[t][k].tok IN
    /\ req[t][k].pc = "sent"
    /\ req[t][k].kind = "logout"
    /\ u # NoToken
    /\ IF Unrevoked(u)
         THEN req' = [req EXCEPT ![t][k].pc = "revoking",
                                 ![t][k].snap = UnrevokedOf(sid[u])]
         ELSE Fail(t, k)
    /\ UNCHANGED <<dbVars, browserVars, historyVars, boundVars>>

\* logout: the presented row is locked; a revoked one is refused.
LogoutReads(t, k) ==
    LET u == req[t][k].tok IN
    /\ req[t][k].pc = "sent"
    /\ req[t][k].kind = "logout"
    /\ u # NoToken
    /\ ~ LockedByOther(t, k, u)
    /\ IF Unrevoked(u)
         THEN req' = [req EXCEPT ![t][k].pc = "revoking",
                                 ![t][k].snap = UnrevokedOf(sid[u])]
         ELSE Fail(t, k)
    /\ UNCHANGED <<dbVars, browserVars, historyVars, boundVars>>

\* The rows an UPDATE of unrevoked rows writes: those of its snapshot that are
\* still unrevoked once their locks are free.
RevokeRows(S) ==
    status' = [u \in Tokens |-> IF u \in S /\ Unrevoked(u) THEN "revoked" ELSE status[u]]

\* _revoke_session: the UPDATE gets its rows and the transaction commits.
\* Logout succeeds by it, a refresh fails by it.
RevokeCommits(t, k) ==
    /\ req[t][k].pc = "revoking"
    /\ \A u \in req[t][k].snap : ~ LockedByOther(t, k, u)
    /\ RevokeRows(req[t][k].snap)
    /\ IF req[t][k].kind = "logout" THEN Succeed(t, k, NoToken) ELSE Fail(t, k)
    /\ UNCHANGED <<sid, disabled, admin, browserVars, historyVars, boundVars>>

\* update_user: the user row is locked, and the UPDATE of its tokens sees the
\* rows unrevoked now.
DisableReads ==
    /\ Click
    /\ ~ admin.open
    /\ ~ disabled
    /\ admin' = [open |-> TRUE, snap |-> {u \in Tokens : Unrevoked(u)}]
    /\ UNCHANGED <<status, sid, disabled, browserVars, req, historyVars, faults>>

\* update_user: every token of the account is revoked with the commit.
DisableCommits ==
    /\ admin.open
    /\ \A u \in admin.snap : \A t \in Tabs, k \in Slots : ~ Holds(t, k, u)
    /\ RevokeRows(admin.snap)
    /\ disabled' = TRUE
    /\ admin' = NoUpdate
    /\ UNCHANGED <<sid, browserVars, req, historyVars, boundVars>>

\* A rotation holds a token the update waits for and waits for the user row
\* the update holds: the database ends one of the two.
Deadlocked(t, k) ==
    /\ admin.open
    /\ req[t][k].pc = "rotating"
    /\ req[t][k].tok \in admin.snap

AbortRotation(t, k) ==
    /\ Deadlocked(t, k)
    /\ Fail(t, k)
    /\ UNCHANGED <<dbVars, browserVars, historyVars, boundVars>>

AbortDisable ==
    /\ \E t \in Tabs, k \in Slots : Deadlocked(t, k)
    /\ admin' = NoUpdate
    /\ UNCHANGED <<status, sid, disabled, browserVars, req, historyVars, boundVars>>

Enable ==
    /\ Click
    /\ disabled
    /\ disabled' = FALSE
    /\ UNCHANGED <<status, sid, admin, browserVars, req, historyVars, faults>>

-----------------------------------------------------------------------------
(* Time and the network. *)

\* 15 minutes after its issue an access token is no longer accepted.
AccessExpires(u) ==
    /\ Unrevoked(u)
    /\ u \notin stale
    /\ stale' = stale \cup {u}
    /\ UNCHANGED <<dbVars, jar, page, call, req, historyVars, boundVars>>

\* 30 days after its issue a refresh token is no longer accepted.
TokenExpires(u) ==
    /\ faults < MaxFaults
    /\ status[u] = "live"
    /\ u \in stale
    /\ status' = [status EXCEPT ![u] = "expired"]
    /\ faults' = faults + 1
    /\ UNCHANGED <<sid, disabled, admin, browserVars, req, historyVars, clicks>>

\* A request to /api/auth is lost before the backend sees it.
LoseRequest(t, k) ==
    /\ faults < MaxFaults
    /\ req[t][k].pc = "sent"
    /\ Fail(t, k)
    /\ faults' = faults + 1
    /\ UNCHANGED <<dbVars, browserVars, historyVars, clicks>>

\* The answer to a rotation is lost: the tab sees a network error.
LoseAnswer(t) ==
    LET r == req[t]["refresh"] IN
    /\ faults < MaxFaults
    /\ r.pc = "answered"
    /\ r.ok
    /\ Fail(t, "refresh")
    /\ lost' = lost \cup {u \in Tokens : u = r.tok}
    /\ faults' = faults + 1
    /\ UNCHANGED <<dbVars, browserVars, carried, clicks>>

-----------------------------------------------------------------------------
\* A browser with no session, or with one of an earlier visit, which some of
\* its tabs may still show.
SessionsInit ==
    /\ jar \in {NoToken, 1}
    /\ page \in [Tabs -> {"closed", "app"}]
    /\ jar = NoToken => page = [t \in Tabs |-> "closed"]
    /\ status = [u \in Tokens |-> IF u = jar THEN "live" ELSE "unborn"]
    /\ sid = [u \in Tokens |-> u]
    /\ disabled = FALSE
    /\ admin = NoUpdate
    /\ stale = {}
    /\ call = [t \in Tabs |-> [c \in AllCalls |-> Idle]]
    /\ req = [t \in Tabs |-> [k \in Slots |-> Free]]
    /\ carried = [u \in Tokens |-> {}]
    /\ lost = {}
    /\ clicks = 0
    /\ faults = 0

CallStep(t, c) ==
    \/ Serve(t, c)
    \/ Deny(t, c)
    \/ ReceiveDenied(t, c)
    \/ ReceiveRedenied(t, c)

AnswerStep(t) ==
    \/ GateRefresh(t)
    \/ RefreshSucceeds(t)
    \/ RefreshFails(t)
    \/ LoginAnswered(t)
    \/ LogoutAnswered(t)

BackendStep(t, k) ==
    \/ RefuseUnknown(t, k)
    \/ LoginReads(t, k)
    \/ LoginCommits(t, k)
    \/ RotateReads(t, k)
    \/ RotateCommits(t, k)
    \/ InsertFails(t, k)
    \/ LogoutReads(t, k)
    \/ RevokeCommits(t, k)
    \/ AbortRotation(t, k)

UserStep(t) ==
    \/ OpenTab(t)
    \/ SubmitLogin(t)
    \/ SubmitLogout(t)
    \/ Reload(t)
    \/ \E c \in Calls : UserCall(t, c)

AdminStep ==
    \/ DisableReads
    \/ DisableCommits
    \/ AbortDisable
    \/ Enable

FaultStep ==
    \/ \E u \in Tokens : AccessExpires(u) \/ TokenExpires(u)
    \/ \E t \in Tabs, c \in AllCalls : LoseCall(t, c)
    \/ \E t \in Tabs, k \in Slots : LoseRequest(t, k)
    \/ \E t \in Tabs : LoseAnswer(t)

SessionsNext ==
    \/ \E t \in Tabs : UserStep(t) \/ AnswerStep(t)
    \/ \E t \in Tabs, c \in AllCalls : CallStep(t, c)
    \/ \E t \in Tabs, k \in Slots : BackendStep(t, k)
    \/ AdminStep
    \/ FaultStep

SessionsSpec == SessionsInit /\ [][SessionsNext]_sessionVars

\* The event loop of a tab runs its pending tasks, the backend processes what
\* it was sent, and the network delivers both ways.
SessionsFairness ==
    /\ \A t \in Tabs : WF_sessionVars(AnswerStep(t) \/ \E c \in AllCalls : CallStep(t, c))
    /\ \A t \in Tabs : WF_sessionVars(\E k \in Slots : BackendStep(t, k))
    /\ WF_sessionVars(DisableCommits \/ AbortDisable)

FairSessions == SessionsSpec /\ SessionsFairness
-----------------------------------------------------------------------------
(* What the sessions promise. *)

\* A session never has two tokens that are not revoked, however many tabs
\* rotate it at once: with two of them validate_access_token would raise, and
\* a stolen token could be rotated beside the stolen-from one unnoticed.
OneUnrevokedToken ==
    \A u, v \in Tokens : Unrevoked(u) /\ Unrevoked(v) /\ sid[u] = sid[v] => u = v

\* A logout that is answered with success has ended its session, whatever
\* rotations other tabs had in flight.
LogoutEndsSession ==
    \A t \in Tabs, k \in Slots :
        LET r == req[t][k] IN
        r.pc = "answered" /\ r.kind = "logout" /\ r.ok => UnrevokedOf(sid[r.tok]) = {}

\* The backend takes a refresh for a theft only if the token was presented by
\* two tabs, if the tab never heard of its rotation, or if the session is
\* over: within a tab the calls that fail together share one refresh.
OneTabIsNoThief ==
    \A t \in Tabs :
        LET r == req[t]["refresh"] IN
        r.pc = "revoking" /\ r.snap # {} /\ status[r.tok] = "revoked"
          => r.tok \in lost \/ carried[r.tok] # {t}

\* Once the account is disabled no token issued before is good for anything,
\* not even after it is enabled again: no rotation slips its replacement past
\* the update of update_user.
DisablingEndsSessions ==
    [][~ disabled /\ disabled' =>
         \A u \in Tokens : status'[u] \in {"unborn", "revoked"}]_sessionVars

\* Once the users leave it alone every tab comes to rest: no call waits
\* forever for a refresh that another call started, that failed, or whose
\* answer was lost, and no gate stays on its loading screen.
TabsComeToRest ==
    <>[](\A t \in Tabs : /\ page[t] # "gate"
                        /\ \A c \in AllCalls : call[t][c].pc = "idle")

\* The life of each session, read off its token rows.
LifeOf(s) ==
    IF ~ \E u \in Tokens : Issued(u) /\ sid[u] = s THEN "unused"
    ELSE IF UnrevokedOf(s) # {} THEN "open"
    ELSE "ended"

Life == INSTANCE SessionLife
          WITH Ids <- Tokens, life <- [s \in Tokens |-> LifeOf(s)]

\* The token rows implement SessionLife: rotations are invisible, and a
\* session that is over stays over.
SessionsEnd == Life!LifeSpec
=============================================================================
