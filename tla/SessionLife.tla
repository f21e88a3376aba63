---------------------------- MODULE SessionLife ----------------------------
(***************************************************************************)
(* What the rest of the system may assume about a login session: it is     *)
(* opened once, it may be ended, alone or with others, and it never comes  *)
(* back.  Every refresh of its tokens is invisible here.  Sessions shows   *)
(* that the token rows of the backend implement this.                      *)
(***************************************************************************)
CONSTANT Ids

VARIABLE life

Stages == {"unused", "open", "ended"}

LifeTypeOK == life \in [Ids -> Stages]

\* Some sessions may have been opened before.
LifeInit == life \in [Ids -> {"unused", "open"}]

\* A login or a registration opens a session nobody used before.
Open(s) ==
    /\ life[s] = "unused"
    /\ life' = [life EXCEPT ![s] = "open"]

\* Logout, reuse, expiry or the disabling of the account end sessions.
End(S) ==
    /\ S # {}
    /\ \A s \in S : life[s] = "open"
    /\ life' = [s \in Ids |-> IF s \in S THEN "ended" ELSE life[s]]

LifeNext ==
    \/ \E s \in Ids : Open(s)
    \/ \E S \in SUBSET Ids : End(S)

LifeSpec == LifeInit /\ [][LifeNext]_life
=============================================================================
