---------------------------- MODULE LoginThrottle ----------------------------
(***************************************************************************)
(* The brute-force protection of platform-services/identity: rateLimiter   *)
(* and authentication_attempts, with the sign-in routes that consult it    *)
(* before they test a password or a code, and record the outcome after.    *)
(*                                                                         *)
(* Time is a tick of a fixed length; a row is counted for Window ticks.    *)
(* Rows of successes are never counted and left out.                       *)
(*                                                                         *)
(* A definition that no other uses, placed before the one it resembles, is *)
(* a faulty variant of it: README.md says which property rules it out.     *)
(***************************************************************************)
EXTENDS Integers, Sequences, FiniteSets

CONSTANTS
    SignIn,        \* sign-in requests under way at one time
    Email, Ip,
    Window,        \* WINDOW_SECONDS, in ticks
    Thresholds,    \* THROTTLE_THRESHOLDS, backoff in ticks
    MaxAttempts,   \* bound: failures counted at one time
    NoCaller       \* of a request that tests nothing

\* Waits and thresholds ascend, as in the code.
ASSUME ThrottleAssumption ==
    /\ Window \in Nat \ {0} /\ MaxAttempts \in Nat /\ IsFiniteSet(SignIn)
    /\ Thresholds \in Seq([failures : Nat \ {0}, backoff : Nat \ {0}])
    /\ Thresholds # <<>>
    /\ \A i \in 2 .. Len(Thresholds) :
          /\ Thresholds[i - 1].failures < Thresholds[i].failures
          /\ Thresholds[i - 1].backoff < Thresholds[i].backoff

VARIABLES
    attempts,   \* the rows with succeeded = FALSE of the last Window ticks, oldest first
    testing     \* the caller each request is testing a password or code for

throttleVars == <<attempts, testing>>

Caller == [email : Email, ip : Ip]

\* tested: the row of a wrong password or code, not of a throttled attempt.
Attempt == [caller : Caller, tested : BOOLEAN, age : 0 .. Window - 1]

ThrottleInit ==
    /\ attempts = <<>>
    /\ testing = [r \in SignIn |-> NoCaller]

\* countRecentFailures by email and by IP; the larger counts.
CountByEmail(e) == Cardinality({n \in DOMAIN attempts : attempts[n].caller.email = e})

CountByIp(i) == Cardinality({n \in DOMAIN attempts : attempts[n].caller.ip = i})

FailuresByEmail(c) == CountByEmail(c.email)

Failures(c) ==
    IF CountByEmail(c.email) > CountByIp(c.ip)
    THEN CountByEmail(c.email) ELSE CountByIp(c.ip)

\* checkThrottle: the backoff of the last threshold reached.
Backoff(c) ==
    IF \A i \in DOMAIN Thresholds : Failures(c) < Thresholds[i].failures THEN 0
    ELSE LET last == CHOOSE i \in DOMAIN Thresholds :
                        /\ Failures(c) >= Thresholds[i].failures
                        /\ \A j \in i + 1 .. Len(Thresholds) :
                              Failures(c) < Thresholds[j].failures
         IN Thresholds[last].backoff

\* recordFailure.
RecordFailure(c, tested) ==
    /\ Len(attempts) < MaxAttempts
    /\ attempts' = Append(attempts, [caller |-> c, tested |-> tested, age |-> 0])

\* A throttled attempt is told how long to wait, and is itself a failure.
Refuse(c) ==
    /\ Backoff(c) > 0
    /\ RecordFailure(c, FALSE)
    /\ UNCHANGED testing

\* login, handleMfaVerify or handleMfaRecovery goes on to test what was sent.
Admit(r, c) ==
    /\ testing[r] = NoCaller
    /\ Backoff(c) = 0
    /\ testing' = [testing EXCEPT ![r] = c]
    /\ UNCHANGED attempts

\* It was wrong.
Fail(r) ==
    /\ testing[r] # NoCaller
    /\ RecordFailure(testing[r], TRUE)
    /\ testing' = [testing EXCEPT ![r] = NoCaller]

\* It was right, or the request was lost; no row that counts is written.
Succeed(r) ==
    /\ testing[r] # NoCaller
    /\ testing' = [testing EXCEPT ![r] = NoCaller]
    /\ UNCHANGED attempts

\* Rows leave the window one tick after their last one in it, the first ones
\* first.
AgedWithoutEnd == [n \in DOMAIN attempts |-> [attempts[n] EXCEPT !.age = @ + 1]]

AgedAtMost ==
    [n \in DOMAIN attempts |->
        [attempts[n] EXCEPT !.age = IF @ = Window - 1 THEN @ ELSE @ + 1]]

Leaving == Cardinality({n \in DOMAIN attempts : attempts[n].age = Window - 1})

Aged ==
    [n \in 1 .. Len(attempts) - Leaving |->
        [attempts[n + Leaving] EXCEPT !.age = @ + 1]]

Tick ==
    /\ attempts' = Aged
    /\ UNCHANGED testing

ThrottleNext ==
    \/ \E c \in Caller : Refuse(c) \/ \E r \in SignIn : Admit(r, c)
    \/ \E r \in SignIn : Fail(r) \/ Succeed(r)
    \/ Tick

ThrottleSpec == ThrottleInit /\ [][ThrottleNext]_throttleVars

\* Time passes.
FairThrottleSpec == ThrottleSpec /\ WF_throttleVars(Tick)

-----------------------------------------------------------------------------
\* Properties

ThrottleTypeOK ==
    /\ attempts \in Seq(Attempt)
    /\ Len(attempts) <= MaxAttempts
    /\ testing \in [SignIn -> Caller \cup {NoCaller}]

\* However requests overlap between the check and the record, no more wrong
\* passwords or codes are tested in a window, for one email or from one
\* address, than the first threshold allows and the requests under way add.
GuessesBounded ==
    LET limit == Thresholds[1].failures - 1 + Cardinality(SignIn)
        tested == {n \in DOMAIN attempts : attempts[n].tested}
    IN /\ \A e \in Email :
             Cardinality({n \in tested : attempts[n].caller.email = e}) <= limit
       /\ \A i \in Ip :
             Cardinality({n \in tested : attempts[n].caller.ip = i}) <= limit

\* identity-foundation.md: "there is no permanent lockout".  Once failures
\* cease, everybody is admitted again.
NoPermanentLockout ==
    <>[][Len(attempts') <= Len(attempts)]_throttleVars => <>[](\A c \in Caller : Backoff(c) = 0)
=============================================================================
