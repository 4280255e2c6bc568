---------------------------- MODULE AccountAccess ----------------------------
(***************************************************************************)
(* What Identity promises about one account, with no request, lock or      *)
(* proof in sight: a session is opened once, only while the account is     *)
(* active; disabling the account closes every session in the same step,    *)
(* and enabling it opens none.                                             *)
(***************************************************************************)
CONSTANT Session

VARIABLES
    account,   \* "active" or "disabled"
    open,      \* the sessions that admit a request
    closed     \* the sessions that did once

avars == <<account, open, closed>>

AInit == account = "active" /\ open = {} /\ closed = {}

Open(s) ==
    /\ account = "active"
    /\ s \notin open \cup closed
    /\ open' = open \cup {s}
    /\ UNCHANGED <<account, closed>>

\* Sign-out, revocation or the end of the eight hours.
Close(S) ==
    /\ open' = open \ S
    /\ closed' = closed \cup S
    /\ UNCHANGED account

Disable ==
    /\ account = "active"
    /\ account' = "disabled"
    /\ open' = {}
    /\ closed' = closed \cup open

Enable ==
    /\ account = "disabled"
    /\ account' = "active"
    /\ UNCHANGED <<open, closed>>

ANext ==
    \/ \E s \in Session : Open(s)
    \/ \E S \in SUBSET open : Close(S)
    \/ Disable
    \/ Enable

ASpec == AInit /\ [][ANext]_avars
=============================================================================
