-------------------------- MODULE IdentitySessions --------------------------
(***************************************************************************)
(* One account of platform-services/identity: its sign-ins with and        *)
(* without a second factor, its sessions, its MFA method and recovery      *)
(* codes, and administrators (or HRMS's deactivation sweep) who disable    *)
(* and enable it.                                                          *)
(*                                                                         *)
(* A request is a sequence of reads and writes with an await between any   *)
(* two; its stage is the next one it will make.  createSession and         *)
(* disableAccount are transactions on the users row: rowLock is its FOR    *)
(* UPDATE lock, and what a transaction writes is seen when it commits.     *)
(* Passwords, codes and the throttle decide by a free choice whether a     *)
(* request goes on or gives up.                                            *)
(*                                                                         *)
(* A definition that no other uses, placed before the one it resembles, is *)
(* a faulty variant of it: README.md says which property rules it out.     *)
(***************************************************************************)
EXTENDS Integers

CONSTANTS
    Request,      \* HTTP requests under way at one time
    Admin,        \* callers of disableAccount and enableAccount
    Session,      \* ids available to sessions rows
    Challenge,    \* ids available to pending MFA challenges
    MaxMethods,   \* bound: enrolments begun in a behaviour
    MaxCodes,     \* bound: recovery codes generated in a behaviour
    None

Method == 1 .. MaxMethods
Code == 1 .. MaxCodes

ASSUME IdentityBoundAssumption == MaxMethods \in Nat /\ MaxCodes \in Nat
ASSUME IdentityNoneAssumption ==
    /\ None \notin Request \cup Admin \cup Session \cup Challenge
    /\ Request \cap Admin = {}

VARIABLES
    status,       \* users.status
    rowLock,      \* whose transaction holds the users row
    sessions,     \* sessions
    challenges,   \* pendingChallenges, the map in the process
    methods,      \* mfa_methods, in the order they were created
    codes,        \* mfa_recovery_codes
    calls,        \* what each request is about to do, and has read
    disabling     \* each administrator's disableAccount, and the rows it has revoked

vars == <<status, rowLock, sessions, challenges, methods, codes, calls, disabling>>

\* EXPIRED: expires_at has passed, revoked_at is still NULL.  challenge and
\* code are what the sign-in used, None and 0 where mfa_verified is FALSE.
SessionRow ==
    [state     : {"ABSENT", "LIVE", "EXPIRED", "REVOKED"},
     challenge : Challenge \cup {None},
     code      : {0} \cup Code]

Disabling == [stage : {"idle", "revoke", "commit"}, revoked : SUBSET Session]

Stage ==
    {"idle", "findMethod", "verify", "findCode", "spendCode", "lockUser", "insert",
     "signedIn", "createMethod", "activate", "replaceCodes", "disableMethod"}

Call ==
    [stage     : Stage,
     challenge : Challenge \cup {None},
     session   : Session \cup {None},
     item      : {0} \cup Method \cup Code]

Idle == [stage |-> "idle", challenge |-> None, session |-> None, item |-> 0]

NotDisabling == [stage |-> "idle", revoked |-> {}]

Init ==
    /\ status = "active"
    /\ rowLock = None
    /\ sessions = [s \in Session |-> [state |-> "ABSENT", challenge |-> None, code |-> 0]]
    /\ challenges = [c \in Challenge |-> "ABSENT"]
    /\ methods = [m \in Method |-> "ABSENT"]
    /\ codes = [k \in Code |-> "ABSENT"]
    /\ calls = [r \in Request |-> Idle]
    /\ disabling = [a \in Admin |-> NotDisabling]

\* r goes on to a stage, with the rest of its call unchanged.
Proceed(r, stage) == calls' = [calls EXCEPT ![r].stage = stage]

Finish(r) == calls' = [calls EXCEPT ![r] = Idle]

LiveMethod(m) == methods[m] \in {"pending", "active"}

ReleasedBy(p) == IF rowLock = p THEN None ELSE rowLock

-----------------------------------------------------------------------------
\* Sign-in: authService.login and the routes of auth.ts

\* login: the password is right and the account, as it was read, active.
BeginLogin(r) ==
    /\ calls[r] = Idle
    /\ status = "active"
    /\ Proceed(r, "findMethod")
    /\ UNCHANGED <<status, rowLock, sessions, challenges, methods, codes, disabling>>

\* With an active method, the answer is a challenge.
IssueChallenge(r, c) ==
    /\ calls[r].stage = "findMethod"
    /\ \E m \in Method : methods[m] = "active"
    /\ challenges[c] = "ABSENT"
    /\ challenges' = [challenges EXCEPT ![c] = "PENDING"]
    /\ Finish(r)
    /\ UNCHANGED <<status, rowLock, sessions, methods, codes, disabling>>

\* Without one, a session.
PasswordSuffices(r) ==
    /\ calls[r].stage = "findMethod"
    /\ \A m \in Method : methods[m] # "active"
    /\ Proceed(r, "lockUser")
    /\ UNCHANGED <<status, rowLock, sessions, challenges, methods, codes, disabling>>

\* handleMfaVerify and handleMfaRecovery: peekChallenge, and the status of the
\* account as it is read then.
BeginSecondFactor(r, c, stage) ==
    /\ calls[r] = Idle
    /\ challenges[c] = "PENDING"
    /\ status = "active"
    /\ calls' = [calls EXCEPT ![r] = [Idle EXCEPT !.stage = stage, !.challenge = c]]
    /\ UNCHANGED <<status, rowLock, sessions, challenges, methods, codes, disabling>>

\* consumeChallenge; another request may have consumed it meanwhile.
KeepChallenge(c) == challenges' = challenges

ConsumeChallenge(c) == challenges' = [challenges EXCEPT ![c] = "GONE"]

\* verifyChallenge finds the method active and the code right.
VerifyCode(r) ==
    /\ calls[r].stage = "verify"
    /\ \E m \in Method : methods[m] = "active"
    /\ ConsumeChallenge(calls[r].challenge)
    /\ Proceed(r, "lockUser")
    /\ UNCHANGED <<status, rowLock, sessions, methods, codes, disabling>>

\* consumeRecoveryCode: one query finds the code unused ...
FindRecoveryCode(r, k) ==
    /\ calls[r].stage = "findCode"
    /\ codes[k] = "UNUSED"
    /\ calls' = [calls EXCEPT ![r].stage = "spendCode", ![r].item = k]
    /\ UNCHANGED <<status, rowLock, sessions, challenges, methods, codes, disabling>>

\* ... and another marks it used, if the row is still there.
SpendRecoveryCode(r) ==
    /\ calls[r].stage = "spendCode"
    /\ codes' = [codes EXCEPT ![calls[r].item] = IF @ = "DELETED" THEN @ ELSE "USED"]
    /\ ConsumeChallenge(calls[r].challenge)
    /\ Proceed(r, "lockUser")
    /\ UNCHANGED <<status, rowLock, sessions, methods, disabling>>

\* The five minutes of a challenge are over.
LapseChallenge(c) ==
    /\ challenges[c] = "PENDING"
    /\ ConsumeChallenge(c)
    /\ UNCHANGED <<status, rowLock, sessions, methods, codes, calls, disabling>>

-----------------------------------------------------------------------------
\* sessionService

\* createSession's findByIdForUpdate waits for the row and reads it anew.
ReadUser(r) ==
    /\ calls[r].stage = "lockUser"
    /\ status = "active"
    /\ Proceed(r, "insert")
    /\ UNCHANGED <<status, rowLock, sessions, challenges, methods, codes, disabling>>

LockUser(r) ==
    /\ calls[r].stage = "lockUser"
    /\ rowLock = None
    /\ status = "active"
    /\ rowLock' = r
    /\ Proceed(r, "insert")
    /\ UNCHANGED <<status, sessions, challenges, methods, codes, disabling>>

\* The INSERT and the commit.
InsertSession(r, s) ==
    /\ calls[r].stage = "insert"
    /\ sessions[s].state = "ABSENT"
    /\ sessions' = [sessions EXCEPT ![s] = [state     |-> "LIVE",
                                           challenge |-> calls[r].challenge,
                                           code      |-> calls[r].item]]
    /\ rowLock' = ReleasedBy(r)
    /\ Finish(r)
    /\ UNCHANGED <<status, challenges, methods, codes, disabling>>

\* validateSession admits the bearer of s.
Authenticate(r, s) ==
    /\ calls[r] = Idle
    /\ sessions[s].state = "LIVE"
    /\ status = "active"
    /\ calls' = [calls EXCEPT ![r] = [Idle EXCEPT !.stage = "signedIn", !.session = s]]
    /\ UNCHANGED <<status, rowLock, sessions, challenges, methods, codes, disabling>>

\* revoke and revokeAllForUser, both AND revoked_at IS NULL.
Unrevoked == {s \in Session : sessions[s].state \in {"LIVE", "EXPIRED"}}

Revoke(S) ==
    sessions' = [s \in Session |-> IF s \in S \cap Unrevoked
                                  THEN [sessions[s] EXCEPT !.state = "REVOKED"]
                                  ELSE sessions[s]]

\* handleLogout, and handleRevokeOneSession of a session listed as active.
RevokeSession(r, s) ==
    /\ calls[r].stage = "signedIn"
    /\ s = calls[r].session \/ sessions[s].state = "LIVE"
    /\ Revoke({s})
    /\ Finish(r)
    /\ UNCHANGED <<status, rowLock, challenges, methods, codes, disabling>>

RevokeAllSessions(r) ==
    /\ calls[r].stage = "signedIn"
    /\ Revoke(Session)
    /\ Finish(r)
    /\ UNCHANGED <<status, rowLock, challenges, methods, codes, disabling>>

\* Eight hours have passed.
SessionExpires(s) ==
    /\ sessions[s].state = "LIVE"
    /\ sessions' = [sessions EXCEPT ![s].state = "EXPIRED"]
    /\ UNCHANGED <<status, rowLock, challenges, methods, codes, calls, disabling>>

ExpireDueSessions ==
    /\ Revoke({s \in Session : sessions[s].state = "EXPIRED"})
    /\ UNCHANGED <<status, rowLock, challenges, methods, codes, calls, disabling>>

-----------------------------------------------------------------------------
\* mfaService, for a request that is signed in

\* The unique index mfa_methods_one_live_totp.
NoOtherActive(m) == \A n \in Method \ {m} : methods[n] # "active"

NoOtherLive(m) == \A n \in Method \ {m} : ~ LiveMethod(n)

\* beginEnrolment looks for a live method, then inserts one.
BeginEnrolment(r) ==
    /\ calls[r].stage = "signedIn"
    /\ \A m \in Method : ~ LiveMethod(m)
    /\ Proceed(r, "createMethod")
    /\ UNCHANGED <<status, rowLock, sessions, challenges, methods, codes, disabling>>

CreateMethod(r, m) ==
    /\ calls[r].stage = "createMethod"
    /\ methods[m] = "ABSENT"
    /\ \A n \in 1 .. m - 1 : methods[n] # "ABSENT"
    /\ NoOtherLive(m)
    /\ methods' = [methods EXCEPT ![m] = "pending"]
    /\ Finish(r)
    /\ UNCHANGED <<status, rowLock, sessions, challenges, codes, disabling>>

\* completeEnrolment: the code is right for the method found, pending or active.
CompleteEnrolment(r, m) ==
    /\ calls[r].stage = "signedIn"
    /\ LiveMethod(m)
    /\ calls' = [calls EXCEPT ![r].stage = "activate", ![r].item = m]
    /\ UNCHANGED <<status, rowLock, sessions, challenges, methods, codes, disabling>>

\* activateMethod is by id alone, within what the index allows.
ActivateMethod(r) ==
    LET m == calls[r].item
    IN /\ calls[r].stage = "activate"
       /\ NoOtherLive(m)
       /\ methods' = [methods EXCEPT ![m] = "active"]
       /\ Proceed(r, "replaceCodes")
       /\ UNCHANGED <<status, rowLock, sessions, challenges, codes, disabling>>

\* generateRecoveryCodes, after an enrolment or when asked for: the old batch
\* is deleted, K is the new one.
ReplaceRecoveryCodes(r, K) ==
    /\ calls[r].stage \in {"signedIn", "replaceCodes"}
    /\ K # {}
    /\ \A k \in K : codes[k] = "ABSENT"
    /\ codes' = [k \in Code |-> IF k \in K THEN "UNUSED"
                                ELSE IF codes[k] = "ABSENT" THEN "ABSENT" ELSE "DELETED"]
    /\ Finish(r)
    /\ UNCHANGED <<status, rowLock, sessions, challenges, methods, disabling>>

\* handleDisableMfa finds the method, then disables it by id.
FindMethod(r, m) ==
    /\ calls[r].stage = "signedIn"
    /\ LiveMethod(m)
    /\ calls' = [calls EXCEPT ![r].stage = "disableMethod", ![r].item = m]
    /\ UNCHANGED <<status, rowLock, sessions, challenges, methods, codes, disabling>>

DeleteMethod(r) ==
    /\ calls[r].stage = "disableMethod"
    /\ methods' = [methods EXCEPT ![calls[r].item] = "DELETED"]
    /\ Finish(r)
    /\ UNCHANGED <<status, rowLock, sessions, challenges, codes, disabling>>

DisableMethod(r) ==
    /\ calls[r].stage = "disableMethod"
    /\ methods' = [methods EXCEPT ![calls[r].item] = "disabled"]
    /\ Finish(r)
    /\ UNCHANGED <<status, rowLock, sessions, challenges, codes, disabling>>

-----------------------------------------------------------------------------
\* accountSecurityService

\* disableAccount locks the row; an account already disabled is left alone.
LockForDisable(a) ==
    /\ disabling[a] = NotDisabling
    /\ rowLock = None
    /\ status = "active"
    /\ rowLock' = a
    /\ disabling' = [disabling EXCEPT ![a].stage = "revoke"]
    /\ UNCHANGED <<status, sessions, challenges, methods, codes, calls>>

\* setStatus and revokeAllForUser, which touches the rows it can see.
RevokeForDisable(a) ==
    /\ disabling[a].stage = "revoke"
    /\ disabling' = [disabling EXCEPT ![a] = [stage |-> "commit", revoked |-> Unrevoked]]
    /\ UNCHANGED <<status, rowLock, sessions, challenges, methods, codes, calls>>

CommitDisable(a) ==
    /\ disabling[a].stage = "commit"
    /\ status' = "disabled"
    /\ Revoke(disabling[a].revoked)
    /\ rowLock' = ReleasedBy(a)
    /\ disabling' = [disabling EXCEPT ![a] = NotDisabling]
    /\ UNCHANGED <<challenges, methods, codes, calls>>

\* enableAccount touches no session.
EnableWithSessions(a) ==
    /\ disabling[a] = NotDisabling
    /\ rowLock = None
    /\ status = "disabled"
    /\ status' = "active"
    /\ sessions' = [s \in Session |-> IF sessions[s].state = "REVOKED"
                                      THEN [sessions[s] EXCEPT !.state = "LIVE"]
                                      ELSE sessions[s]]
    /\ UNCHANGED <<rowLock, challenges, methods, codes, calls, disabling>>

EnableAccount(a) ==
    /\ disabling[a] = NotDisabling
    /\ rowLock = None
    /\ status = "disabled"
    /\ status' = "active"
    /\ UNCHANGED <<rowLock, sessions, challenges, methods, codes, calls, disabling>>

\* A request is refused, or fails, or its client is gone; a transaction it has
\* open is rolled back.
GiveUp(r) ==
    /\ calls[r] # Idle
    /\ rowLock' = ReleasedBy(r)
    /\ Finish(r)
    /\ UNCHANGED <<status, sessions, challenges, methods, codes, disabling>>

GiveUpDisable(a) ==
    /\ disabling[a] # NotDisabling
    /\ rowLock' = ReleasedBy(a)
    /\ disabling' = [disabling EXCEPT ![a] = NotDisabling]
    /\ UNCHANGED <<status, sessions, challenges, methods, codes, calls>>

\* The process stops with all its requests and forgets its challenges.
Restart ==
    /\ calls' = [r \in Request |-> Idle]
    /\ challenges' = [c \in Challenge |->
                         IF challenges[c] = "ABSENT" THEN "ABSENT" ELSE "GONE"]
    /\ rowLock' = IF rowLock \in Request THEN None ELSE rowLock
    /\ UNCHANGED <<status, sessions, methods, codes, disabling>>

SignInStep(r) ==
    \/ BeginLogin(r) \/ PasswordSuffices(r) \/ VerifyCode(r) \/ SpendRecoveryCode(r)
    \/ \E c \in Challenge :
          \/ IssueChallenge(r, c)
          \/ \E stage \in {"verify", "findCode"} : BeginSecondFactor(r, c, stage)
    \/ \E k \in Code : FindRecoveryCode(r, k)
    \/ LockUser(r)
    \/ \E s \in Session : InsertSession(r, s)

SignedInStep(r) ==
    \/ \E s \in Session : Authenticate(r, s) \/ RevokeSession(r, s)
    \/ RevokeAllSessions(r)
    \/ BeginEnrolment(r) \/ ActivateMethod(r) \/ DisableMethod(r)
    \/ \E m \in Method : CreateMethod(r, m) \/ CompleteEnrolment(r, m) \/ FindMethod(r, m)
    \/ \E K \in SUBSET Code : ReplaceRecoveryCodes(r, K)

AdminStep(a) ==
    \/ LockForDisable(a) \/ RevokeForDisable(a) \/ CommitDisable(a)
    \/ EnableAccount(a) \/ GiveUpDisable(a)

Next ==
    \/ \E r \in Request : SignInStep(r) \/ SignedInStep(r) \/ GiveUp(r)
    \/ \E a \in Admin : AdminStep(a)
    \/ \E c \in Challenge : LapseChallenge(c)
    \/ \E s \in Session : SessionExpires(s)
    \/ ExpireDueSessions
    \/ Restart

Spec == Init /\ [][Next]_vars

-----------------------------------------------------------------------------
\* Properties

\* The columns hold what the migration's CHECKs and the code allow.
TypeOK ==
    /\ status \in {"active", "disabled"}
    /\ rowLock \in Request \cup Admin \cup {None}
    /\ sessions \in [Session -> SessionRow]
    /\ challenges \in [Challenge -> {"ABSENT", "PENDING", "GONE"}]
    /\ methods \in [Method -> {"ABSENT", "pending", "active", "disabled"}]
    /\ codes \in [Code -> {"ABSENT", "UNUSED", "USED", "DELETED"}]
    /\ calls \in [Request -> Call]
    /\ disabling \in [Admin -> Disabling]

\* createSession's comment: no session issued while, or right after, the
\* account is disabled survives usable, whichever of the two transactions wins.
LiveOnlyWhileActive ==
    status = "disabled" => \A s \in Session : sessions[s].state # "LIVE"

\* A session that a second factor opened leaves neither its challenge nor its
\* recovery code to a request that begins later.
ProofsSpent ==
    \A s \in Session :
       /\ sessions[s].challenge # None => challenges[sessions[s].challenge] = "GONE"
       /\ sessions[s].code # 0 => codes[sessions[s].code] \in {"USED", "DELETED"}

\* An account has one live method, though every enrolment and activation
\* acts on what it read before.
OneLiveMethod ==
    \A m, n \in Method : LiveMethod(m) /\ LiveMethod(n) => m = n

InState(states) == {s \in Session : sessions[s].state \in states}

Access == INSTANCE AccountAccess WITH
    account <- status,
    open    <- InState({"LIVE"}),
    closed  <- InState({"EXPIRED", "REVOKED"})

\* Sessions open once, while the account is active, and are closed for good by
\* the step that disables it; enabling revives none.
ImplementsAccess == Access!ASpec
=============================================================================
