--------------------------- MODULE IdentityProofs ---------------------------
(***************************************************************************)
(* Theorems of IdentitySessions, for any requests, administrators and      *)
(* bounds: no session lives on in a disabled account, a second factor is   *)
(* spent by the sign-in it admits, and sessions and disabling together     *)
(* implement AccountAccess.  At the end, of LoginThrottle: the number of   *)
(* guesses in a window is bounded.                                         *)
(***************************************************************************)
EXTENDS IdentitySessions, LoginThrottle, SequenceTheorems, FiniteSetTheorems, WellFoundedInduction, TLAPS

\* The row lock is what createSession and disableAccount rely on: a request
\* about to insert has it and sees the account active; so does an
\* administrator, who, about to commit, has revoked all there is.
LockHeld ==
    /\ \A r \in Request :
          calls[r].stage = "insert" => rowLock = r /\ status = "active"
    /\ \A a \in Admin :
          disabling[a].stage # "idle" => rowLock = a /\ status = "active"
    /\ \A a \in Admin :
          disabling[a].stage = "commit" => InState({"LIVE"}) \subseteq disabling[a].revoked

Spent(c, k) ==
    /\ c # None => challenges[c] = "GONE"
    /\ k # 0 => k \in Code /\ codes[k] \in {"USED", "DELETED"}

\* What a sign-in carries to the session it is about to open is spent, and
\* until then it carries what its stage implies and no more.
Carries(r) ==
    /\ calls[r].stage \in {"lockUser", "insert"} => Spent(calls[r].challenge, calls[r].item)
    /\ calls[r].stage = "findMethod" => calls[r].challenge = None /\ calls[r].item = 0
    /\ calls[r].stage \in {"verify", "findCode"} => calls[r].item = 0
    /\ calls[r].stage = "spendCode" =>
          calls[r].item \in Code /\ codes[calls[r].item] # "ABSENT"

IInv ==
    /\ TypeOK
    /\ LockHeld
    /\ \A r \in Request : Carries(r)
    /\ LiveOnlyWhileActive
    /\ ProofsSpent
    /\ OneLiveMethod

USE DEF Code, Method

-----------------------------------------------------------------------------
\* What is spent stays spent.
LEMMA SpentStays ==
    ASSUME NEW c, NEW k, Spent(c, k), c = None \/ c \in Challenge,
           \A d \in Challenge : challenges[d] = "GONE" => challenges'[d] = "GONE",
           \A j \in Code : codes[j] \in {"USED", "DELETED"} =>
                              codes'[j] \in {"USED", "DELETED"}
    PROVE  Spent(c, k)'
BY DEF Spent

\* A step that moves one request on, and writes nothing.
LEMMA CallMoves ==
    ASSUME IInv, NEW r \in Request, NEW call \in Call, call.stage # "insert",
           calls' = [calls EXCEPT ![r] = call], Carries(r)',
           UNCHANGED <<status, rowLock, sessions, challenges, methods, codes, disabling>>
    PROVE  IInv'
<1>1. TypeOK'
  BY DEF IInv, TypeOK
<1>2. LockHeld'
  BY DEF IInv, TypeOK, LockHeld, InState
<1>3. ASSUME NEW q \in Request, q # r
      PROVE  Carries(q)'
  BY <1>3 DEF IInv, TypeOK, Carries, Spent
<1>. QED
  BY <1>1, <1>2, <1>3
  DEF IInv, LiveOnlyWhileActive, ProofsSpent, OneLiveMethod, LiveMethod

\* The requests other than r carry what they did, when nothing spent is unspent
\* and no code disappears.
LEMMA OthersCarry ==
    ASSUME IInv, NEW r \in Request,
           \A q \in Request \ {r} : calls'[q] = calls[q],
           \A d \in Challenge : challenges[d] = "GONE" => challenges'[d] = "GONE",
           \A j \in Code : /\ codes[j] \in {"USED", "DELETED"} =>
                                   codes'[j] \in {"USED", "DELETED"}
                           /\ codes[j] # "ABSENT" => codes'[j] # "ABSENT",
           Carries(r)'
    PROVE  \A q \in Request : Carries(q)'
<1>. SUFFICES ASSUME NEW q \in Request, q # r PROVE Carries(q)'
  OBVIOUS
<1>1. calls[q] \in Call /\ calls'[q] = calls[q]
  BY DEF IInv, TypeOK
<1>2. calls[q].challenge = None \/ calls[q].challenge \in Challenge
  BY <1>1 DEF Call
<1>3. Carries(q)
  BY DEF IInv
<1>. QED
  BY <1>1, <1>2, <1>3, SpentStays DEF Carries

LEMMA BeginLoginInv ==
    ASSUME IInv, NEW r \in Request, BeginLogin(r)
    PROVE  IInv'
<1>. DEFINE call == [calls[r] EXCEPT !.stage = "findMethod"]
<1>1. call \in Call /\ call.stage # "insert"
  BY IdentityBoundAssumption DEF BeginLogin, IInv, TypeOK, Call, Stage, Idle
<1>2. calls' = [calls EXCEPT ![r] = call]
  BY DEF BeginLogin, Proceed, IInv, TypeOK
<1>3. Carries(r)'
  BY <1>1, <1>2 DEF BeginLogin, Carries, Spent, Idle, IInv, TypeOK, Call
<1>. QED
  BY <1>1, <1>2, <1>3, CallMoves DEF BeginLogin

LEMMA PasswordSufficesInv ==
    ASSUME IInv, NEW r \in Request, PasswordSuffices(r)
    PROVE  IInv'
<1>. DEFINE call == [calls[r] EXCEPT !.stage = "lockUser"]
<1>1. call \in Call /\ call.stage # "insert"
  BY IdentityBoundAssumption DEF PasswordSuffices, IInv, TypeOK, Call, Stage, Idle
<1>2. calls' = [calls EXCEPT ![r] = call]
  BY DEF PasswordSuffices, Proceed, IInv, TypeOK
<1>3. Carries(r)'
  BY <1>1, <1>2 DEF PasswordSuffices, Carries, Spent, Idle, IInv, TypeOK, Call
<1>. QED
  BY <1>1, <1>2, <1>3, CallMoves DEF PasswordSuffices

LEMMA BeginSecondFactorInv ==
    ASSUME IInv, NEW r \in Request, NEW c \in Challenge, NEW stage \in {"verify", "findCode"},
           BeginSecondFactor(r, c, stage)
    PROVE  IInv'
<1>. DEFINE call == [Idle EXCEPT !.stage = stage, !.challenge = c]
<1>1. call \in Call /\ call.stage # "insert"
  BY IdentityBoundAssumption DEF BeginSecondFactor, IInv, TypeOK, Call, Stage, Idle
<1>2. calls' = [calls EXCEPT ![r] = call]
  BY DEF BeginSecondFactor, Proceed, IInv, TypeOK
<1>3. Carries(r)'
  BY <1>1, <1>2 DEF BeginSecondFactor, Carries, Spent, Idle, IInv, TypeOK, Call
<1>. QED
  BY <1>1, <1>2, <1>3, CallMoves DEF BeginSecondFactor

LEMMA FindRecoveryCodeInv ==
    ASSUME IInv, NEW r \in Request, NEW k \in Code, FindRecoveryCode(r, k)
    PROVE  IInv'
<1>. DEFINE call == [calls[r] EXCEPT !.stage = "spendCode", !.item = k]
<1>1. call \in Call /\ call.stage # "insert"
  BY IdentityBoundAssumption DEF FindRecoveryCode, IInv, TypeOK, Call, Stage, Idle
<1>2. calls' = [calls EXCEPT ![r] = call]
  BY DEF FindRecoveryCode, Proceed, IInv, TypeOK
<1>3. Carries(r)'
  BY <1>1, <1>2 DEF FindRecoveryCode, Carries, Spent, Idle, IInv, TypeOK, Call
<1>. QED
  BY <1>1, <1>2, <1>3, CallMoves DEF FindRecoveryCode

LEMMA AuthenticateInv ==
    ASSUME IInv, NEW r \in Request, NEW s \in Session, Authenticate(r, s)
    PROVE  IInv'
<1>. DEFINE call == [Idle EXCEPT !.stage = "signedIn", !.session = s]
<1>1. call \in Call /\ call.stage # "insert"
  BY IdentityBoundAssumption DEF Authenticate, IInv, TypeOK, Call, Stage, Idle
<1>2. calls' = [calls EXCEPT ![r] = call]
  BY DEF Authenticate, Proceed, IInv, TypeOK
<1>3. Carries(r)'
  BY <1>1, <1>2 DEF Authenticate, Carries, Spent, Idle, IInv, TypeOK, Call
<1>. QED
  BY <1>1, <1>2, <1>3, CallMoves DEF Authenticate

LEMMA BeginEnrolmentInv ==
    ASSUME IInv, NEW r \in Request, BeginEnrolment(r)
    PROVE  IInv'
<1>. DEFINE call == [calls[r] EXCEPT !.stage = "createMethod"]
<1>1. call \in Call /\ call.stage # "insert"
  BY IdentityBoundAssumption DEF BeginEnrolment, IInv, TypeOK, Call, Stage, Idle
<1>2. calls' = [calls EXCEPT ![r] = call]
  BY DEF BeginEnrolment, Proceed, IInv, TypeOK
<1>3. Carries(r)'
  BY <1>1, <1>2 DEF BeginEnrolment, Carries, Spent, Idle, IInv, TypeOK, Call
<1>. QED
  BY <1>1, <1>2, <1>3, CallMoves DEF BeginEnrolment

LEMMA CompleteEnrolmentInv ==
    ASSUME IInv, NEW r \in Request, NEW m \in Method, CompleteEnrolment(r, m)
    PROVE  IInv'
<1>. DEFINE call == [calls[r] EXCEPT !.stage = "activate", !.item = m]
<1>1. call \in Call /\ call.stage # "insert"
  BY IdentityBoundAssumption DEF CompleteEnrolment, IInv, TypeOK, Call, Stage, Idle
<1>2. calls' = [calls EXCEPT ![r] = call]
  BY DEF CompleteEnrolment, Proceed, IInv, TypeOK
<1>3. Carries(r)'
  BY <1>1, <1>2 DEF CompleteEnrolment, Carries, Spent, Idle, IInv, TypeOK, Call
<1>. QED
  BY <1>1, <1>2, <1>3, CallMoves DEF CompleteEnrolment

LEMMA FindMethodInv ==
    ASSUME IInv, NEW r \in Request, NEW m \in Method, FindMethod(r, m)
    PROVE  IInv'
<1>. DEFINE call == [calls[r] EXCEPT !.stage = "disableMethod", !.item = m]
<1>1. call \in Call /\ call.stage # "insert"
  BY IdentityBoundAssumption DEF FindMethod, IInv, TypeOK, Call, Stage, Idle
<1>2. calls' = [calls EXCEPT ![r] = call]
  BY DEF FindMethod, Proceed, IInv, TypeOK
<1>3. Carries(r)'
  BY <1>1, <1>2 DEF FindMethod, Carries, Spent, Idle, IInv, TypeOK, Call
<1>. QED
  BY <1>1, <1>2, <1>3, CallMoves DEF FindMethod

-----------------------------------------------------------------------------
\* Sessions only close
Closes ==
    /\ sessions' \in [Session -> SessionRow]
    /\ \A s \in Session :
          /\ sessions'[s].state = "LIVE" => sessions[s].state = "LIVE"
          /\ sessions'[s].challenge = sessions[s].challenge
          /\ sessions'[s].code = sessions[s].code

LEMMA RevokeCloses ==
    ASSUME TypeOK, NEW S, Revoke(S)
    PROVE  Closes /\ \A s \in S \cap Session : sessions'[s].state # "LIVE"
BY DEF TypeOK, SessionRow, Revoke, Unrevoked, Closes

LEMMA SessionsClose ==
    ASSUME IInv, Closes, UNCHANGED <<status, rowLock, challenges, methods, codes, disabling>>,
           calls' = calls \/ \E r \in Request : Finish(r)
    PROVE  IInv'
<1>1. TypeOK'
  BY DEF IInv, TypeOK, Closes, Finish, Idle, Call, Stage
<1>2. LockHeld'
  BY DEF IInv, TypeOK, LockHeld, Closes, InState, Finish, Idle
<1>3. ASSUME NEW q \in Request
      PROVE  Carries(q)'
  <2>1. calls'[q] = calls[q] \/ calls'[q] = Idle
    BY DEF IInv, TypeOK, Finish
  <2>. QED
    BY <2>1, <1>3 DEF IInv, Carries, Spent, Idle
<1>4. ProofsSpent'
  BY DEF IInv, ProofsSpent, Closes
<1>. QED
  BY <1>1, <1>2, <1>3, <1>4
  DEF IInv, LiveOnlyWhileActive, Closes, OneLiveMethod, LiveMethod

LEMMA RevokeSessionInv ==
    ASSUME IInv, NEW r \in Request, NEW s \in Session, RevokeSession(r, s)
    PROVE  IInv'
BY RevokeCloses, SessionsClose DEF RevokeSession, IInv

LEMMA RevokeAllSessionsInv ==
    ASSUME IInv, NEW r \in Request, RevokeAllSessions(r)
    PROVE  IInv'
BY RevokeCloses, SessionsClose DEF RevokeAllSessions, IInv

LEMMA ExpireDueSessionsInv ==
    ASSUME IInv, ExpireDueSessions
    PROVE  IInv'
BY RevokeCloses, SessionsClose DEF ExpireDueSessions, IInv

LEMMA SessionExpiresInv ==
    ASSUME IInv, NEW s \in Session, SessionExpires(s)
    PROVE  IInv'
<1>1. Closes
  BY DEF SessionExpires, Closes, IInv, TypeOK, SessionRow
<1>. QED
  BY <1>1, SessionsClose DEF SessionExpires

-----------------------------------------------------------------------------
\* The other steps of a sign-in

LEMMA IssueChallengeInv ==
    ASSUME IInv, NEW r \in Request, NEW c \in Challenge, IssueChallenge(r, c)
    PROVE  IInv'
<1>1. TypeOK'
  BY DEF IssueChallenge, IInv, TypeOK, Call, Stage, Finish, Idle
<1>2. LockHeld'
  BY DEF IssueChallenge, IInv, TypeOK, LockHeld, InState, Finish, Idle
<1>3. \A q \in Request : Carries(q)'
  <2>1. Carries(r)'
    BY DEF IssueChallenge, IInv, TypeOK, Carries, Spent, Finish, Idle
  <2>. QED
    BY <2>1, OthersCarry DEF IssueChallenge, IInv, TypeOK, Finish, Idle
<1>4. ProofsSpent'
  BY DEF IssueChallenge, IInv, TypeOK, SessionRow, ProofsSpent
<1>. QED
  BY <1>1, <1>2, <1>3, <1>4
  DEF IssueChallenge, IInv, LiveOnlyWhileActive, OneLiveMethod, LiveMethod

LEMMA VerifyCodeInv ==
    ASSUME IInv, NEW r \in Request, VerifyCode(r)
    PROVE  IInv'
<1>1. TypeOK'
  BY ZenonT(60) DEF VerifyCode, IInv, TypeOK, Call, Stage, Proceed, ConsumeChallenge
<1>2. LockHeld'
  BY DEF VerifyCode, IInv, TypeOK, LockHeld, InState, Proceed
<1>3. \A q \in Request : Carries(q)'
  <2>1. Carries(r)'
    BY DEF VerifyCode, IInv, TypeOK, Carries, Spent, Proceed, ConsumeChallenge, Call
  <2>. QED
    BY <2>1, OthersCarry
    DEF VerifyCode, IInv, TypeOK, Proceed, ConsumeChallenge, Call
<1>4. ProofsSpent'
  BY DEF VerifyCode, IInv, TypeOK, SessionRow, ProofsSpent, ConsumeChallenge
<1>. QED
  BY <1>1, <1>2, <1>3, <1>4
  DEF VerifyCode, IInv, LiveOnlyWhileActive, OneLiveMethod, LiveMethod

LEMMA SpendRecoveryCodeInv ==
    ASSUME IInv, NEW r \in Request, SpendRecoveryCode(r)
    PROVE  IInv'
<1>1. TypeOK'
  BY ZenonT(60) DEF SpendRecoveryCode, IInv, TypeOK, Call, Stage, Proceed, ConsumeChallenge
<1>2. LockHeld'
  BY DEF SpendRecoveryCode, IInv, TypeOK, LockHeld, InState, Proceed
<1>3. \A q \in Request : Carries(q)'
  <2>1. Carries(r)'
    BY DEF SpendRecoveryCode, IInv, TypeOK, Carries, Spent, Proceed,
           ConsumeChallenge, Call
  <2>. QED
    BY <2>1, OthersCarry
    DEF SpendRecoveryCode, IInv, TypeOK, Proceed, ConsumeChallenge, Call
<1>4. ProofsSpent'
  BY DEF SpendRecoveryCode, IInv, TypeOK, SessionRow, ProofsSpent, ConsumeChallenge
<1>. QED
  BY <1>1, <1>2, <1>3, <1>4
  DEF SpendRecoveryCode, IInv, LiveOnlyWhileActive, OneLiveMethod, LiveMethod

LEMMA LockUserInv ==
    ASSUME IInv, NEW r \in Request, LockUser(r)
    PROVE  IInv'
<1>1. TypeOK'
  BY DEF LockUser, IInv, TypeOK, Call, Stage, Proceed
<1>2. LockHeld'
  BY IdentityNoneAssumption DEF LockUser, IInv, TypeOK, LockHeld, InState, Proceed
<1>3. \A q \in Request : Carries(q)'
  <2>1. Carries(r)'
    BY DEF LockUser, IInv, TypeOK, Carries, Spent, Proceed
  <2>. QED
    BY <2>1, OthersCarry DEF LockUser, IInv, TypeOK, Proceed
<1>. QED
  BY <1>1, <1>2, <1>3
  DEF LockUser, IInv, LiveOnlyWhileActive, ProofsSpent, OneLiveMethod, LiveMethod

LEMMA InsertSessionInv ==
    ASSUME IInv, NEW r \in Request, NEW s \in Session, InsertSession(r, s)
    PROVE  IInv'
<1>1. TypeOK'
  BY DEF InsertSession, IInv, TypeOK, Call, Stage, Finish, Idle, SessionRow,
         ReleasedBy, Carries, Spent
<1>2. LockHeld'
  BY IdentityNoneAssumption
  DEF InsertSession, IInv, TypeOK, LockHeld, InState, Finish, Idle, ReleasedBy
<1>3. \A q \in Request : Carries(q)'
  <2>1. Carries(r)'
    BY DEF InsertSession, IInv, TypeOK, Carries, Spent, Finish, Idle
  <2>. QED
    BY <2>1, OthersCarry DEF InsertSession, IInv, TypeOK, Finish, Idle
<1>4. LiveOnlyWhileActive'
  BY DEF InsertSession, IInv, TypeOK, LockHeld, LiveOnlyWhileActive
<1>5. ProofsSpent'
  BY DEF InsertSession, IInv, TypeOK, SessionRow, ProofsSpent, Carries, Spent
<1>. QED
  BY <1>1, <1>2, <1>3, <1>4, <1>5 DEF InsertSession, IInv, OneLiveMethod, LiveMethod

LEMMA LapseChallengeInv ==
    ASSUME IInv, NEW c \in Challenge, LapseChallenge(c)
    PROVE  IInv'
<1>1. TypeOK'
  BY DEF LapseChallenge, IInv, TypeOK, ConsumeChallenge
<1>2. \A q \in Request : Carries(q)'
  BY DEF LapseChallenge, ConsumeChallenge, IInv, TypeOK, Carries, Spent, Call
<1>3. ProofsSpent'
  BY DEF LapseChallenge, IInv, TypeOK, SessionRow, ProofsSpent, ConsumeChallenge
<1>. QED
  BY <1>1, <1>2, <1>3
  DEF LapseChallenge, IInv, LockHeld, InState, LiveOnlyWhileActive, OneLiveMethod,
      LiveMethod

LEMMA GiveUpInv ==
    ASSUME IInv, NEW r \in Request, GiveUp(r)
    PROVE  IInv'
<1>1. TypeOK'
  BY DEF GiveUp, IInv, TypeOK, Call, Stage, Finish, Idle, ReleasedBy
<1>2. LockHeld'
  BY IdentityNoneAssumption
  DEF GiveUp, IInv, TypeOK, LockHeld, InState, Finish, Idle, ReleasedBy
<1>3. \A q \in Request : Carries(q)'
  <2>1. Carries(r)'
    BY DEF GiveUp, IInv, TypeOK, Carries, Spent, Finish, Idle
  <2>. QED
    BY <2>1, OthersCarry DEF GiveUp, IInv, TypeOK, Finish, Idle
<1>. QED
  BY <1>1, <1>2, <1>3
  DEF GiveUp, IInv, LiveOnlyWhileActive, ProofsSpent, OneLiveMethod, LiveMethod

LEMMA RestartInv ==
    ASSUME IInv, Restart
    PROVE  IInv'
<1>1. TypeOK'
  BY DEF Restart, IInv, TypeOK, Call, Stage, Idle
<1>2. LockHeld'
  BY IdentityNoneAssumption DEF Restart, IInv, TypeOK, LockHeld, InState, Idle
<1>3. \A q \in Request : Carries(q)'
  BY DEF Restart, Idle, Carries, Spent
<1>4. ProofsSpent'
  BY DEF Restart, IInv, TypeOK, SessionRow, ProofsSpent
<1>. QED
  BY <1>1, <1>2, <1>3, <1>4
  DEF Restart, IInv, LiveOnlyWhileActive, OneLiveMethod, LiveMethod

-----------------------------------------------------------------------------
\* Methods and codes

LEMMA CreateMethodInv ==
    ASSUME IInv, NEW r \in Request, NEW m \in Method, CreateMethod(r, m)
    PROVE  IInv'
<1>1. TypeOK'
  BY DEF CreateMethod, IInv, TypeOK, Call, Stage, Finish, Idle
<1>2. LockHeld'
  BY DEF CreateMethod, IInv, TypeOK, LockHeld, InState, Finish, Idle
<1>3. \A q \in Request : Carries(q)'
  <2>1. Carries(r)'
    BY DEF CreateMethod, IInv, TypeOK, Carries, Spent, Finish, Idle
  <2>. QED
    BY <2>1, OthersCarry DEF CreateMethod, IInv, TypeOK, Finish, Idle
<1>4. OneLiveMethod'
  BY DEF CreateMethod, IInv, TypeOK, OneLiveMethod, LiveMethod, NoOtherLive
<1>. QED
  BY <1>1, <1>2, <1>3, <1>4 DEF CreateMethod, IInv, LiveOnlyWhileActive, ProofsSpent

LEMMA ActivateMethodInv ==
    ASSUME IInv, NEW r \in Request, ActivateMethod(r)
    PROVE  IInv'
<1>1. TypeOK'
  BY ZenonT(60) DEF ActivateMethod, IInv, TypeOK, Call, Stage, Proceed
<1>2. LockHeld'
  BY DEF ActivateMethod, IInv, TypeOK, LockHeld, InState, Proceed
<1>3. \A q \in Request : Carries(q)'
  <2>1. Carries(r)'
    BY DEF ActivateMethod, IInv, TypeOK, Carries, Spent, Proceed
  <2>. QED
    BY <2>1, OthersCarry DEF ActivateMethod, IInv, TypeOK, Proceed
<1>4. OneLiveMethod'
  BY DEF ActivateMethod, IInv, TypeOK, OneLiveMethod, LiveMethod, NoOtherLive
<1>. QED
  BY <1>1, <1>2, <1>3, <1>4
  DEF ActivateMethod, IInv, LiveOnlyWhileActive, ProofsSpent

LEMMA DisableMethodInv ==
    ASSUME IInv, NEW r \in Request, DisableMethod(r)
    PROVE  IInv'
<1>1. TypeOK'
  BY DEF DisableMethod, IInv, TypeOK, Call, Stage, Finish, Idle
<1>2. LockHeld'
  BY DEF DisableMethod, IInv, TypeOK, LockHeld, InState, Finish, Idle
<1>3. \A q \in Request : Carries(q)'
  <2>1. Carries(r)'
    BY DEF DisableMethod, IInv, TypeOK, Carries, Spent, Finish, Idle
  <2>. QED
    BY <2>1, OthersCarry DEF DisableMethod, IInv, TypeOK, Finish, Idle
<1>4. OneLiveMethod'
  BY DEF DisableMethod, IInv, TypeOK, OneLiveMethod, LiveMethod
<1>. QED
  BY <1>1, <1>2, <1>3, <1>4
  DEF DisableMethod, IInv, LiveOnlyWhileActive, ProofsSpent

LEMMA ReplaceRecoveryCodesInv ==
    ASSUME IInv, NEW r \in Request, NEW K \in SUBSET Code, ReplaceRecoveryCodes(r, K)
    PROVE  IInv'
<1>1. TypeOK'
  BY DEF ReplaceRecoveryCodes, IInv, TypeOK, Call, Stage, Finish, Idle
<1>2. LockHeld'
  BY DEF ReplaceRecoveryCodes, IInv, TypeOK, LockHeld, InState, Finish, Idle
<1>3. \A q \in Request : Carries(q)'
  <2>1. Carries(r)'
    BY DEF ReplaceRecoveryCodes, IInv, TypeOK, Carries, Spent, Finish, Idle
  <2>. QED
    BY <2>1, OthersCarry DEF ReplaceRecoveryCodes, IInv, TypeOK, Finish, Idle
<1>4. ProofsSpent'
  BY DEF ReplaceRecoveryCodes, IInv, TypeOK, SessionRow, ProofsSpent
<1>. QED
  BY <1>1, <1>2, <1>3, <1>4
  DEF ReplaceRecoveryCodes, IInv, LiveOnlyWhileActive, OneLiveMethod, LiveMethod

-----------------------------------------------------------------------------
\* Disabling and enabling

LEMMA LockForDisableInv ==
    ASSUME IInv, NEW a \in Admin, LockForDisable(a)
    PROVE  IInv'
<1>1. TypeOK'
  BY DEF LockForDisable, IInv, TypeOK, Disabling, NotDisabling
<1>2. LockHeld'
  BY IdentityNoneAssumption
  DEF LockForDisable, IInv, TypeOK, LockHeld, InState, NotDisabling
<1>. QED
  BY <1>1, <1>2
  DEF LockForDisable, IInv, Carries, Spent, LiveOnlyWhileActive, ProofsSpent,
      OneLiveMethod, LiveMethod

LEMMA RevokeForDisableInv ==
    ASSUME IInv, NEW a \in Admin, RevokeForDisable(a)
    PROVE  IInv'
<1>1. TypeOK'
  BY DEF RevokeForDisable, IInv, TypeOK, Disabling, Unrevoked
<1>2. LockHeld'
  BY DEF RevokeForDisable, IInv, TypeOK, LockHeld, InState, Unrevoked
<1>. QED
  BY <1>1, <1>2
  DEF RevokeForDisable, IInv, Carries, Spent, LiveOnlyWhileActive, ProofsSpent,
      OneLiveMethod, LiveMethod

LEMMA EnableAccountInv ==
    ASSUME IInv, NEW a \in Admin, EnableAccount(a)
    PROVE  IInv'
<1>1. TypeOK'
  BY DEF EnableAccount, IInv, TypeOK
<1>2. LockHeld'
  BY DEF EnableAccount, IInv, TypeOK, LockHeld, InState, NotDisabling
<1>3. LiveOnlyWhileActive'
  BY DEF EnableAccount, IInv, TypeOK, LockHeld, LiveOnlyWhileActive
<1>. QED
  BY <1>1, <1>2, <1>3
  DEF EnableAccount, IInv, Carries, Spent, ProofsSpent, OneLiveMethod, LiveMethod

LEMMA GiveUpDisableInv ==
    ASSUME IInv, NEW a \in Admin, GiveUpDisable(a)
    PROVE  IInv'
<1>1. TypeOK'
  BY DEF GiveUpDisable, IInv, TypeOK, Disabling, NotDisabling, ReleasedBy
<1>2. LockHeld'
  BY IdentityNoneAssumption
  DEF GiveUpDisable, IInv, TypeOK, LockHeld, InState, NotDisabling, ReleasedBy
<1>. QED
  BY <1>1, <1>2
  DEF GiveUpDisable, IInv, Carries, Spent, LiveOnlyWhileActive, ProofsSpent,
      OneLiveMethod, LiveMethod

LEMMA CommitDisableInv ==
    ASSUME IInv, NEW a \in Admin, CommitDisable(a)
    PROVE  IInv'
<1>1. Closes /\ \A s \in Session : sessions'[s].state # "LIVE"
  BY RevokeCloses DEF CommitDisable, IInv, LockHeld, InState, Closes
<1>2. TypeOK'
  BY <1>1
  DEF CommitDisable, IInv, TypeOK, Closes, Disabling, NotDisabling, ReleasedBy
<1>3. LockHeld'
  BY <1>1, IdentityNoneAssumption
  DEF CommitDisable, IInv, TypeOK, LockHeld, InState, NotDisabling, ReleasedBy
<1>4. ProofsSpent'
  BY <1>1 DEF CommitDisable, IInv, ProofsSpent, Closes
<1>. QED
  BY <1>1, <1>2, <1>3, <1>4
  DEF CommitDisable, IInv, Carries, Spent, LiveOnlyWhileActive, OneLiveMethod, LiveMethod

-----------------------------------------------------------------------------
LEMMA InitInvariant == Init => IInv
BY IdentityNoneAssumption
DEF Init, IInv, TypeOK, SessionRow, Call, Stage, Disabling, Idle, NotDisabling, LockHeld,
    InState, Carries, LiveOnlyWhileActive, ProofsSpent, OneLiveMethod, LiveMethod

LEMMA NextInvariant == IInv /\ [Next]_vars => IInv'
<1>. SUFFICES ASSUME IInv, [Next]_vars PROVE IInv'
  OBVIOUS
<1>1. ASSUME NEW r \in Request, SignInStep(r)
      PROVE  IInv'
  BY <1>1, BeginLoginInv, PasswordSufficesInv, VerifyCodeInv, SpendRecoveryCodeInv,
     IssueChallengeInv, BeginSecondFactorInv, FindRecoveryCodeInv, LockUserInv,
     InsertSessionInv
  DEF SignInStep
<1>2. ASSUME NEW r \in Request, SignedInStep(r)
      PROVE  IInv'
  BY <1>2, AuthenticateInv, RevokeSessionInv, RevokeAllSessionsInv, BeginEnrolmentInv,
     ActivateMethodInv, DisableMethodInv, CreateMethodInv, CompleteEnrolmentInv,
     FindMethodInv, ReplaceRecoveryCodesInv
  DEF SignedInStep
<1>3. ASSUME NEW a \in Admin, AdminStep(a)
      PROVE  IInv'
  BY <1>3, LockForDisableInv, RevokeForDisableInv, CommitDisableInv, EnableAccountInv,
     GiveUpDisableInv
  DEF AdminStep
<1>4. CASE UNCHANGED vars
  BY <1>4
  DEF vars, IInv, TypeOK, LockHeld, InState, Carries, Spent, LiveOnlyWhileActive,
      ProofsSpent, OneLiveMethod, LiveMethod
<1>. QED
  BY <1>1, <1>2, <1>3, <1>4, GiveUpInv, LapseChallengeInv, SessionExpiresInv,
     ExpireDueSessionsInv, RestartInv
  DEF Next

\* The invariant that carries all the theorems below.
THEOREM IdentityInvariant == Spec => []IInv
<1>. QED  BY InitInvariant, NextInvariant, PTL DEF Spec

\* Every column keeps to what the migration's CHECKs and the code allow.
THEOREM IdentityTypes == Spec => []TypeOK
<1>. QED  BY IdentityInvariant, PTL DEF IInv

\* createSession against disableAccount: no session lives in a disabled account,
\* whichever of the two gets the row lock first.
THEOREM LiveOnlyWhileActiveHolds == Spec => []LiveOnlyWhileActive
<1>. QED  BY IdentityInvariant, PTL DEF IInv

\* A challenge or recovery code that opened a session is gone for later requests.
THEOREM ProofsSpentHolds == Spec => []ProofsSpent
<1>. QED  BY IdentityInvariant, PTL DEF IInv

\* The unique index keeps an account to one live method.
THEOREM OneLiveMethodHolds == Spec => []OneLiveMethod
<1>. QED  BY IdentityInvariant, PTL DEF IInv

-----------------------------------------------------------------------------
\* Sessions and disabling implement AccountAccess

\* Closing sessions, in any number, is the abstract Close.
LEMMA ClosesAccess ==
    ASSUME TypeOK, Closes, UNCHANGED status,
           \A s \in Session : sessions[s].state # "LIVE" =>
              (sessions'[s].state = "ABSENT" <=> sessions[s].state = "ABSENT"),
           \A s \in Session : sessions[s].state = "LIVE" => sessions'[s].state # "ABSENT"
    PROVE  \E S \in SUBSET InState({"LIVE"}) : Access!Close(S)
<1>. DEFINE S == InState({"LIVE"}) \ InState({"LIVE"})'
<1>1. InState({"LIVE"})' = InState({"LIVE"}) \ S
  BY DEF InState, Closes
<1>2. InState({"EXPIRED", "REVOKED"})' = InState({"EXPIRED", "REVOKED"}) \cup S
  BY DEF InState, Closes, TypeOK, SessionRow
<1>. QED
  BY <1>1, <1>2 DEF Access!Close

\* What revoke does to a row it finds unrevoked or not.
LEMMA RevokeAccess ==
    ASSUME TypeOK, NEW S, Revoke(S), UNCHANGED status
    PROVE  \E T \in SUBSET InState({"LIVE"}) : Access!Close(T)
BY RevokeCloses, ClosesAccess DEF Revoke, Unrevoked, TypeOK, SessionRow

LEMMA StepAccess ==
    ASSUME IInv, [Next]_vars
    PROVE  [Access!ANext]_Access!avars
<1>. DEFINE Stutter == UNCHANGED <<status, sessions>>
<1>1. Stutter => UNCHANGED Access!avars
  BY DEF Access!avars, InState
<1>2. ASSUME NEW r \in Request, SignInStep(r)
      PROVE  Stutter \/ Access!ANext
  <2>1. ASSUME NEW s \in Session, InsertSession(r, s)
        PROVE  Access!Open(s)
    BY <2>1
    DEF InsertSession, IInv, LockHeld, TypeOK, SessionRow, InState, Access!Open
  <2>. QED
    BY <1>2, <2>1
    DEF SignInStep, Access!ANext, BeginLogin, PasswordSuffices, VerifyCode,
        SpendRecoveryCode, IssueChallenge, BeginSecondFactor, FindRecoveryCode, LockUser
<1>3. ASSUME NEW r \in Request, SignedInStep(r)
      PROVE  Stutter \/ Access!ANext
  <2>1. ASSUME NEW s \in Session, RevokeSession(r, s)
        PROVE  Access!ANext
    BY <2>1, RevokeAccess DEF RevokeSession, IInv, Access!ANext
  <2>2. ASSUME RevokeAllSessions(r)
        PROVE  Access!ANext
    BY <2>2, RevokeAccess DEF RevokeAllSessions, IInv, Access!ANext
  <2>. QED
    BY <1>3, <2>1, <2>2
    DEF SignedInStep, Authenticate, BeginEnrolment, ActivateMethod, DisableMethod,
        CreateMethod, CompleteEnrolment, FindMethod, ReplaceRecoveryCodes
<1>4. ASSUME NEW a \in Admin, AdminStep(a)
      PROVE  Stutter \/ Access!ANext
  <2>1. ASSUME CommitDisable(a)
        PROVE  Access!Disable
    <3>1. status = "active" /\ status' = "disabled" /\ Revoke(disabling[a].revoked)
      BY <2>1 DEF CommitDisable, IInv, LockHeld
    <3>2. InState({"LIVE"}) \subseteq disabling[a].revoked
      BY <2>1 DEF CommitDisable, IInv, LockHeld
    <3>3. InState({"LIVE"})' = {}
      BY <3>1, <3>2, RevokeCloses DEF IInv, InState, Closes
    <3>4. InState({"EXPIRED", "REVOKED"})'
             = InState({"EXPIRED", "REVOKED"}) \cup InState({"LIVE"})
      BY <3>1, <3>2 DEF IInv, TypeOK, SessionRow, InState, Revoke, Unrevoked
    <3>. QED
      BY <3>1, <3>3, <3>4 DEF Access!Disable
  <2>2. ASSUME EnableAccount(a)
        PROVE  Access!Enable
    BY <2>2 DEF EnableAccount, InState, Access!Enable
  <2>. QED
    BY <1>4, <2>1, <2>2
    DEF AdminStep, LockForDisable, RevokeForDisable, GiveUpDisable, Access!ANext
<1>5. ASSUME NEW s \in Session, SessionExpires(s)
      PROVE  Access!ANext
  <2>1. Closes
    BY <1>5 DEF SessionExpires, Closes, IInv, TypeOK, SessionRow
  <2>. QED
    BY <1>5, <2>1, ClosesAccess DEF SessionExpires, IInv, TypeOK, Access!ANext
<1>6. ASSUME ExpireDueSessions
      PROVE  Access!ANext
  BY <1>6, RevokeAccess DEF ExpireDueSessions, IInv, Access!ANext
<1>. QED
  BY <1>1, <1>2, <1>3, <1>4, <1>5, <1>6
  DEF Next, vars, GiveUp, LapseChallenge, Restart

\* Every behaviour of the service is one of AccountAccess: sessions open once,
\* while the account is active, and disabling closes them all in one step.
THEOREM ImplementsAccessHolds == Spec => ImplementsAccess
<1>1. Init => Access!AInit
  BY DEF Init, InState, Access!AInit
<1>. QED
  BY <1>1, IdentityInvariant, StepAccess, PTL
  DEF Spec, ImplementsAccess, Access!ASpec

-----------------------------------------------------------------------------
\* The throttle in front of sign-in.

\* The rows of wrong passwords of callers in K, and the tests of theirs under
\* way.
Tested(K, s) == {n \in DOMAIN s : s[n].tested /\ s[n].caller \in K}
Testing(K, cs) == {r \in SignIn : cs[r] # NoCaller /\ cs[r] \in K}

\* The callers a limit is counted over: one email's, or one address's.
SameEmail(e) == {c \in Caller : c.email = e}
SameIp(i) == {c \in Caller : c.ip = i}
Watched == {SameEmail(e) : e \in Email} \cup {SameIp(i) : i \in Ip}

Limit == Thresholds[1].failures - 1 + Cardinality(SignIn)

\* The rows are in the order they were written.
OldestFirst == \A m, n \in DOMAIN attempts : m < n => attempts[m].age >= attempts[n].age

\* The inductive invariant: what one email or one address has tested and is
\* testing is within the limit together.  The check counts what is recorded
\* only, so without the tests under way it does not follow from itself; and
\* rows leave the window from the front only if the first ones are the oldest.
TInv ==
    /\ ThrottleTypeOK
    /\ OldestFirst
    /\ \A K \in Watched :
          Cardinality(Tested(K, attempts)) + Cardinality(Testing(K, testing)) <= Limit

\* What the constants and the rows are made of.
LEMMA ThresholdsShape ==
    /\ Len(Thresholds) \in Nat \ {0} /\ DOMAIN Thresholds = 1 .. Len(Thresholds)
    /\ \A i \in DOMAIN Thresholds :
          Thresholds[i].failures \in Nat \ {0} /\ Thresholds[i].backoff \in Nat \ {0}
<1> DEFINE T == [failures : Nat \ {0}, backoff : Nat \ {0}]
<1>0. Thresholds \in Seq(T)
  BY ThrottleAssumption DEF T
<1> HIDE DEF T
<1>3. /\ Len(Thresholds) \in Nat /\ DOMAIN Thresholds = 1 .. Len(Thresholds)
      /\ \A i \in DOMAIN Thresholds : Thresholds[i] \in T
  BY <1>0, LenProperties, ElementOfSeq
<1>1. /\ Len(Thresholds) \in Nat /\ DOMAIN Thresholds = 1 .. Len(Thresholds)
      /\ \A i \in DOMAIN Thresholds : Thresholds[i].failures \in Nat \ {0} /\ Thresholds[i].backoff \in Nat \ {0}
  BY <1>3 DEF T
<1>2. Len(Thresholds) # 0
  BY EmptySeq, ThrottleAssumption
<1> QED
  BY <1>1, <1>2

LEMMA AttemptsShape ==
    ASSUME NEW s \in Seq(Attempt)
    PROVE  /\ Len(s) \in Nat /\ DOMAIN s = 1 .. Len(s) /\ IsFiniteSet(DOMAIN s)
           /\ \A n \in DOMAIN s : s[n] \in Attempt
<1>1. Len(s) \in Nat /\ DOMAIN s = 1 .. Len(s)
  BY LenProperties
<1> QED
  BY <1>1, ElementOfSeq, FS_Interval

LEMMA ConstantsShape ==
    Window \in Nat \ {0} /\ MaxAttempts \in Nat /\ IsFiniteSet(SignIn)
BY ThrottleAssumption

\* The sets counted are finite.
LEMMA CountsFinite ==
    ASSUME NEW s \in Seq(Attempt), NEW cs, NEW K
    PROVE  /\ IsFiniteSet(Tested(K, s)) /\ Cardinality(Tested(K, s)) \in Nat
           /\ IsFiniteSet(Testing(K, cs)) /\ Cardinality(Testing(K, cs)) \in Nat
           /\ Cardinality(Testing(K, cs)) <= Cardinality(SignIn)
           /\ Cardinality(SignIn) \in Nat
<1>1. Tested(K, s) \in SUBSET DOMAIN s /\ Testing(K, cs) \in SUBSET SignIn
  BY DEF Tested, Testing
<1> QED
  BY <1>1, AttemptsShape, ConstantsShape, FS_Subset, FS_CardinalityType

\* Of the thresholds reached there is a last one, so a wait of 0 means none is.
LEMMA NoBackoff ==
    ASSUME NEW c, Failures(c) \in Int, Backoff(c) = 0
    PROVE  Failures(c) < Thresholds[1].failures
<1> DEFINE f == Failures(c)
           Reached(i) == f >= Thresholds[i].failures
           Last(i) == /\ Reached(i)
                      /\ \A j \in i + 1 .. Len(Thresholds) : f < Thresholds[j].failures
           top == Len(Thresholds)
           Left == {n \in Nat : n < top /\ Reached(top - n)}
           R == OpToRel(<, Nat)
<1>0. /\ f \in Int /\ top \in Nat \ {0} /\ DOMAIN Thresholds = 1 .. top
      /\ \A i \in 1 .. top : Thresholds[i].failures \in Nat \ {0} /\ Thresholds[i].backoff # 0
  BY ThresholdsShape
<1>1. IsWellFoundedOn(R, Nat)
  BY NatLessThanWellFounded
<1>2. \A m, n \in Nat : m < n => <<m, n>> \in R
  BY DEF OpToRel
<1> HIDE DEF R
<1>3. SUFFICES ASSUME Reached(1) PROVE FALSE
  <2> HIDE DEF f, top
  <2> QED
    BY <1>0 DEF f
<1>4. top - 1 \in Left
  <2> HIDE DEF f
  <2>1. top - 1 \in Nat /\ top - 1 < top /\ top - (top - 1) = 1
    BY <1>0
  <2> QED
    BY <1>3, <2>1
<1>5. PICK k \in Left : \A m \in Left : <<m, k>> \notin R
  <2>1. Left \subseteq Nat /\ Left # {}
    BY <1>4
  <2> HIDE DEF Left
  <2> QED
    BY <1>1, <2>1, WFMin, Zenon
<1> DEFINE i == top - k
<1>6. k \in Nat /\ i \in 1 .. top /\ Reached(i)
  <2> HIDE DEF f
  <2> QED
    BY <1>0, <1>5
<1>7. ASSUME NEW j \in i + 1 .. top
      PROVE  f < Thresholds[j].failures
  <2> HIDE DEF f, top
  <2>1. /\ j \in 1 .. top /\ top - j \in Nat /\ top - j < k /\ top - j < top
        /\ top - (top - j) = j
    BY <1>0, <1>6
  <2>2. top - j \notin Left
    BY <1>2, <1>5, <1>6, <2>1
  <2>3. ~ Reached(j)
    BY <2>1, <2>2
  <2> QED
    BY <1>0, <2>1, <2>3
<1>8. Last(i)
  BY <1>6, <1>7
<1> DEFINE last == CHOOSE n \in DOMAIN Thresholds : Last(n)
<1>9. last \in DOMAIN Thresholds
  <2>1. i \in DOMAIN Thresholds
    BY <1>0, <1>6
  <2> HIDE DEF Last, i
  <2> QED
    BY <1>8, <2>1, Zenon
<1>10. Backoff(c) = Thresholds[last].backoff
  <2>1. ~ (f < Thresholds[i].failures) /\ i \in DOMAIN Thresholds
    <3> HIDE DEF f, i
    <3> QED
      BY <1>0, <1>6
  <2> QED
    BY <2>1, Zenon DEF Backoff
<1> HIDE DEF last
<1> QED
  BY <1>0, <1>9, <1>10

\* The throttle looks at every caller's email and address.
LEMMA FailuresCount ==
    ASSUME ThrottleTypeOK, NEW K \in Watched, NEW c \in K
    PROVE  /\ Failures(c) \in Int
           /\ Cardinality(Tested(K, attempts)) <= Failures(c)
<1> DEFINE E == {n \in DOMAIN attempts : attempts[n].caller.email = c.email}
           I == {n \in DOMAIN attempts : attempts[n].caller.ip = c.ip}
<1>1. /\ Cardinality(E) \in Nat /\ Cardinality(I) \in Nat
      /\ IsFiniteSet(E) /\ IsFiniteSet(I)
  <2>1. IsFiniteSet(DOMAIN attempts)
    BY AttemptsShape DEF ThrottleTypeOK
  <2>2. E \in SUBSET DOMAIN attempts /\ I \in SUBSET DOMAIN attempts
    OBVIOUS
  <2> HIDE DEF E, I
  <2> QED
    BY <2>1, <2>2, FS_Subset, FS_CardinalityType
<1>2. /\ Failures(c) \in Int
      /\ Cardinality(E) <= Failures(c) /\ Cardinality(I) <= Failures(c)
  <2>1. CountByEmail(c.email) = Cardinality(E) /\ CountByIp(c.ip) = Cardinality(I)
    BY Zenon DEF CountByEmail, CountByIp
  <2> HIDE DEF E, I
  <2> QED
    BY <1>1, <2>1 DEF Failures
<1>3. Tested(K, attempts) \in SUBSET E \/ Tested(K, attempts) \in SUBSET I
  BY DEF Watched, SameEmail, SameIp, Tested
<1> HIDE DEF E, I
<1>4. Cardinality(Tested(K, attempts)) <= Cardinality(E) \/ Cardinality(Tested(K, attempts)) <= Cardinality(I)
  BY <1>1, <1>3, FS_Subset
<1>5. Cardinality(Tested(K, attempts)) \in Nat
  BY CountsFinite DEF ThrottleTypeOK
<1> QED
  BY <1>1, <1>2, <1>4, <1>5

\* What a new row changes.
LEMMA Recorded ==
    ASSUME ThrottleTypeOK, NEW c \in Caller, NEW tested \in BOOLEAN, RecordFailure(c, tested)
    PROVE  /\ attempts' \in Seq(Attempt) /\ Len(attempts') <= MaxAttempts
           /\ Len(attempts) + 1 \notin DOMAIN attempts
           /\ \A K : Tested(K, attempts') = IF tested /\ c \in K
                                           THEN Tested(K, attempts) \cup {Len(attempts) + 1}
                                           ELSE Tested(K, attempts)
           /\ OldestFirst => OldestFirst'
<1> DEFINE row == [caller |-> c, tested |-> tested, age |-> 0]
           k == Len(attempts) + 1
<1>1. /\ Len(attempts) \in Nat /\ DOMAIN attempts = 1 .. Len(attempts)
      /\ \A n \in DOMAIN attempts : attempts[n] \in Attempt
  BY AttemptsShape DEF ThrottleTypeOK
<1>2. row \in Attempt /\ row.caller = c /\ row.tested = tested /\ row.age = 0
  BY ConstantsShape DEF Attempt
<1> HIDE DEF row
<1>3. attempts' = Append(attempts, row) /\ Len(attempts) < MaxAttempts
  BY DEF RecordFailure, row
<1>4. /\ attempts' \in Seq(Attempt) /\ Len(attempts') = k /\ DOMAIN attempts' = 1 .. k
      /\ \A n \in 1 .. Len(attempts) : attempts'[n] = attempts[n]
      /\ attempts'[k] = row
  BY <1>1, <1>2, <1>3, AppendProperties, LenProperties DEF ThrottleTypeOK
<1>5. k \notin DOMAIN attempts /\ DOMAIN attempts' = DOMAIN attempts \cup {k}
  BY <1>1, <1>4
<1>6. \A K : Tested(K, attempts') = IF tested /\ c \in K THEN Tested(K, attempts) \cup {k}
                                                         ELSE Tested(K, attempts)
  BY <1>1, <1>2, <1>4, <1>5 DEF Tested
<1>7. ASSUME OldestFirst, NEW m \in DOMAIN attempts', NEW n \in DOMAIN attempts', m < n
      PROVE  attempts'[m].age >= attempts'[n].age
  <2>1. m \in DOMAIN attempts /\ attempts'[m] = attempts[m] /\ attempts[m].age \in Nat
    <3>1. m \in DOMAIN attempts
      BY <1>1, <1>4, <1>7
    <3> QED
      BY <1>1, <1>4, <3>1 DEF Attempt
  <2>2. CASE n = k
    BY <1>2, <1>4, <2>1, <2>2
  <2>3. CASE n # k
    BY <1>1, <1>5, <1>4, <1>7, <2>1, <2>3 DEF OldestFirst
  <2> QED
    BY <2>2, <2>3
<1> QED
  <2>1. k <= MaxAttempts
    BY <1>1, <1>3, ConstantsShape
  <2> QED
    BY <1>4, <1>5, <1>6, <1>7, <2>1 DEF OldestFirst

LEMMA RefuseInv ==
    ASSUME TInv, NEW c \in Caller, Refuse(c)
    PROVE  TInv'
<1>1. /\ attempts' \in Seq(Attempt) /\ Len(attempts') <= MaxAttempts /\ OldestFirst'
      /\ \A K : Tested(K, attempts') = Tested(K, attempts)
      /\ UNCHANGED testing
  BY Recorded DEF TInv, Refuse
<1> QED
  BY <1>1 DEF TInv, ThrottleTypeOK

\* Whoever is admitted leaves the sum within what the threshold and the
\* requests allow; the others' sums do not change.
LEMMA AdmitInv ==
    ASSUME TInv, NEW r \in SignIn, NEW c \in Caller, Admit(r, c)
    PROVE  TInv'
<1>1. /\ testing[r] = NoCaller /\ Backoff(c) = 0 /\ UNCHANGED attempts
      /\ testing' \in [SignIn -> Caller \cup {NoCaller}]
      /\ \A q \in SignIn : testing'[q] = IF q = r THEN c ELSE testing[q]
  BY DEF Admit, TInv, ThrottleTypeOK
<1>2. ASSUME NEW K \in Watched
      PROVE  Cardinality(Tested(K, attempts)) + Cardinality(Testing(K, testing')) <= Limit
  <2>1. CASE c \in K
    <3>1. /\ Failures(c) \in Int /\ Cardinality(Tested(K, attempts)) <= Failures(c)
          /\ Failures(c) < Thresholds[1].failures
      BY <1>1, <2>1, FailuresCount, NoBackoff DEF TInv
    <3>2. /\ Cardinality(Tested(K, attempts)) \in Nat /\ Cardinality(Testing(K, testing')) \in Nat
          /\ Cardinality(Testing(K, testing')) <= Cardinality(SignIn) /\ Cardinality(SignIn) \in Nat
      BY CountsFinite DEF TInv, ThrottleTypeOK
    <3>3. Thresholds[1].failures \in Nat
      BY ThresholdsShape DEF TInv
    <3> QED
      BY <3>1, <3>2, <3>3 DEF Limit
  <2>2. CASE c \notin K
    <3>1. Testing(K, testing') = Testing(K, testing)
      BY <1>1, <2>2 DEF Testing
    <3> QED
      BY <3>1 DEF TInv
  <2> QED
    BY <2>1, <2>2
<1> QED
  BY <1>1, <1>2 DEF TInv, ThrottleTypeOK, OldestFirst

\* A test that ends moves from the one count to the other, or to neither.
LEMMA EndedTest ==
    ASSUME ThrottleTypeOK, NEW r \in SignIn, testing[r] # NoCaller, testing' = [testing EXCEPT ![r] = NoCaller], NEW K
    PROVE  /\ testing' \in [SignIn -> Caller \cup {NoCaller}]
           /\ Testing(K, testing') = Testing(K, testing) \ {r}
           /\ r \in Testing(K, testing) <=> testing[r] \in K
BY DEF ThrottleTypeOK, Testing

LEMMA FailInv ==
    ASSUME TInv, NEW r \in SignIn, Fail(r)
    PROVE  TInv'
<1> DEFINE c == testing[r]
           k == Len(attempts) + 1
<1>1. /\ c # NoCaller /\ c \in Caller /\ RecordFailure(c, TRUE)
      /\ testing' = [testing EXCEPT ![r] = NoCaller]
  BY DEF Fail, TInv, ThrottleTypeOK
<1>2. /\ attempts' \in Seq(Attempt) /\ Len(attempts') <= MaxAttempts /\ OldestFirst'
      /\ k \notin DOMAIN attempts
      /\ \A K : Tested(K, attempts') = IF c \in K THEN Tested(K, attempts) \cup {k}
                                                 ELSE Tested(K, attempts)
  BY <1>1, Recorded DEF TInv
<1>3. ASSUME NEW K \in Watched
      PROVE  Cardinality(Tested(K, attempts')) + Cardinality(Testing(K, testing')) <= Limit
  <2>1. Testing(K, testing') = Testing(K, testing) \ {r} /\ (r \in Testing(K, testing) <=> c \in K)
    BY <1>1, EndedTest DEF TInv
  <2>2. /\ IsFiniteSet(Tested(K, attempts)) /\ Cardinality(Tested(K, attempts)) \in Nat
        /\ IsFiniteSet(Testing(K, testing)) /\ Cardinality(Testing(K, testing)) \in Nat
        /\ Cardinality(Tested(K, attempts)) + Cardinality(Testing(K, testing)) <= Limit
    BY CountsFinite DEF TInv, ThrottleTypeOK
  <2>3. CASE c \in K
    <3>1. Cardinality(Tested(K, attempts')) = Cardinality(Tested(K, attempts)) + 1
      <4>1. k \notin Tested(K, attempts)
        BY <1>2 DEF Tested
      <4> QED
        BY <1>2, <2>2, <2>3, <4>1, FS_AddElement
    <3>2. Cardinality(Testing(K, testing')) = Cardinality(Testing(K, testing)) - 1
      BY <2>1, <2>2, <2>3, FS_RemoveElement
    <3> QED
      BY <2>2, <3>1, <3>2
  <2>4. CASE c \notin K
    <3>1. Tested(K, attempts') = Tested(K, attempts) /\ Testing(K, testing') = Testing(K, testing)
      BY <1>2, <2>1, <2>4
    <3> QED
      BY <2>2, <3>1
  <2> QED
    BY <2>3, <2>4
<1>4. testing' \in [SignIn -> Caller \cup {NoCaller}]
  BY <1>1 DEF TInv, ThrottleTypeOK
<1> QED
  BY <1>2, <1>3, <1>4 DEF TInv, ThrottleTypeOK

LEMMA SucceedInv ==
    ASSUME TInv, NEW r \in SignIn, Succeed(r)
    PROVE  TInv'
<1>1. testing[r] # NoCaller /\ testing' = [testing EXCEPT ![r] = NoCaller] /\ UNCHANGED attempts
  BY DEF Succeed
<1>2. ASSUME NEW K \in Watched
      PROVE  Cardinality(Tested(K, attempts)) + Cardinality(Testing(K, testing')) <= Limit
  <2>1. Testing(K, testing') \in SUBSET Testing(K, testing)
    <3>1. Testing(K, testing') = Testing(K, testing) \ {r}
      BY <1>1, EndedTest DEF TInv
    <3> QED
      BY <3>1
  <2>2. /\ IsFiniteSet(Testing(K, testing)) /\ Cardinality(Testing(K, testing)) \in Nat
        /\ Cardinality(Testing(K, testing')) \in Nat /\ Cardinality(Tested(K, attempts)) \in Nat
        /\ Cardinality(SignIn) \in Nat
    BY CountsFinite DEF TInv, ThrottleTypeOK
  <2>3. Cardinality(Testing(K, testing')) <= Cardinality(Testing(K, testing))
    BY <2>1, <2>2, FS_Subset
  <2>4. Limit \in Int /\ Cardinality(Tested(K, attempts)) + Cardinality(Testing(K, testing)) <= Limit
    BY <2>2, ThresholdsShape DEF TInv, Limit
  <2> QED
    BY <2>2, <2>3, <2>4
<1>3. testing' \in [SignIn -> Caller \cup {NoCaller}]
  BY <1>1 DEF TInv, ThrottleTypeOK
<1> QED
  BY <1>1, <1>2, <1>3 DEF TInv, ThrottleTypeOK, OldestFirst

\* The rows that reach the end of the window are the first Leaving ones, so
\* those that stay are one row for one, and one tick older.
LEMMA TickInv ==
    ASSUME TInv, Tick
    PROVE  TInv'
<1> DEFINE gone == {n \in DOMAIN attempts : attempts[n].age = Window - 1}
           l == Leaving
           k == Len(attempts) - l
<1>1. /\ Len(attempts) \in Nat /\ DOMAIN attempts = 1 .. Len(attempts)
      /\ IsFiniteSet(DOMAIN attempts)
      /\ \A n \in DOMAIN attempts : attempts[n] \in Attempt
  BY AttemptsShape DEF TInv, ThrottleTypeOK
<1>2. IsFiniteSet(gone) /\ l \in 0 .. Len(attempts)
  <2>1. gone \in SUBSET DOMAIN attempts /\ l = Cardinality(gone)
    BY Zenon DEF Leaving
  <2>2. Cardinality(DOMAIN attempts) = Len(attempts)
    BY <1>1, FS_Interval
  <2> HIDE DEF gone, l
  <2> QED
    BY <1>1, <2>1, <2>2, FS_Subset, FS_CardinalityType
<1>3. \A n \in gone : n <= l
  <2> SUFFICES ASSUME NEW n \in gone, l < n PROVE FALSE
    BY <1>1, <1>2
  <2>1. n \in Nat /\ 1 .. n \in SUBSET gone
    <3>1. ASSUME NEW m \in 1 .. n PROVE m \in gone
      <4>1. m \in DOMAIN attempts /\ n \in DOMAIN attempts /\ attempts[n].age = Window - 1
        BY <1>1
      <4>2. attempts[m].age \in 0 .. Window - 1 /\ attempts[m].age >= attempts[n].age
        BY <1>1, <4>1 DEF TInv, OldestFirst, Attempt
      <4> QED
        BY <4>1, <4>2, ConstantsShape DEF TInv
    <3> QED
      BY <1>1, <3>1
  <2>2. l = Cardinality(gone)
    BY Zenon DEF Leaving
  <2> HIDE DEF gone, l
  <2>3. Cardinality(1 .. n) = n
    <3>1. 1 \in Int /\ n \in Int /\ n > 0
      BY <1>2, <2>1
    <3> QED
      BY <3>1, FS_Interval
  <2>4. Cardinality(1 .. n) <= Cardinality(gone)
    BY <1>2, <2>1, FS_Subset
  <2> QED
    BY <1>2, <2>1, <2>2, <2>3, <2>4
<1> HIDE DEF l
<1>4. /\ attempts' = [n \in 1 .. k |-> [attempts[n + l] EXCEPT !.age = @ + 1]]
      /\ k \in Nat /\ k <= Len(attempts) /\ UNCHANGED testing
  BY <1>1, <1>2 DEF Tick, Aged, l
<1>5. ASSUME NEW n \in 1 .. k
      PROVE  /\ n + l \in DOMAIN attempts
             /\ attempts'[n] \in Attempt
             /\ attempts'[n].caller = attempts[n + l].caller
             /\ attempts'[n].tested = attempts[n + l].tested
             /\ attempts'[n].age = attempts[n + l].age + 1
  <2>1. n + l \in DOMAIN attempts /\ ~ (n + l <= l)
    BY <1>1, <1>2, <1>4
  <2>2. n + l \notin gone
    BY <1>3, <2>1
  <2>3. attempts[n + l] \in Attempt /\ attempts[n + l].age # Window - 1
    BY <1>1, <2>1, <2>2
  <2>4. attempts'[n] = [attempts[n + l] EXCEPT !.age = @ + 1]
    BY <1>4
  <2> QED
    BY <2>1, <2>3, <2>4, ConstantsShape DEF Attempt, TInv
<1>6. attempts' \in Seq(Attempt) /\ DOMAIN attempts' = 1 .. k /\ Len(attempts') = k
  <2>1. DOMAIN attempts' = 1 .. k
    BY <1>4
  <2>2. attempts' \in [1 .. k -> Attempt]
    BY <1>4, <1>5
  <2> QED
    BY <1>4, <2>1, <2>2, LenProperties, IsASeq
<1>7. OldestFirst'
  <2> SUFFICES ASSUME NEW m \in DOMAIN attempts', NEW n \in DOMAIN attempts', m < n
               PROVE  attempts'[m].age >= attempts'[n].age
    BY DEF OldestFirst
  <2>1. m \in 1 .. k /\ n \in 1 .. k /\ m + l < n + l
    BY <1>2, <1>4, <1>6
  <2>2. attempts[m + l].age >= attempts[n + l].age /\ attempts[m + l].age \in Nat /\ attempts[n + l].age \in Nat
    BY <1>1, <1>5, <2>1 DEF TInv, OldestFirst, Attempt
  <2> QED
    BY <1>5, <2>1, <2>2
<1>8. ASSUME NEW K \in Watched
      PROVE  Cardinality(Tested(K, attempts')) + Cardinality(Testing(K, testing')) <= Limit
  <2> DEFINE S == Tested(K, attempts')
             T == Tested(K, attempts)
             f == [n \in S |-> n + l]
  <2>1. f \in Injection(S, T)
    <3>1. ASSUME NEW n \in S PROVE n \in 1 .. k /\ n + l \in T
      BY <1>5, <1>6 DEF Tested
    <3>2. \A m, n \in S : m + l = n + l => m = n
      BY <1>2, <1>4, <3>1
    <3> HIDE DEF S, T
    <3> QED
      BY <3>1, <3>2 DEF Injection, IsInjective
  <2>2. IsFiniteSet(T) /\ Cardinality(T) \in Nat /\ Cardinality(Testing(K, testing)) \in Nat
    BY CountsFinite DEF TInv, ThrottleTypeOK
  <2>3. Cardinality(SignIn) \in Nat /\ Cardinality(S) \in Nat
    BY <1>6, CountsFinite DEF TInv
  <2> HIDE DEF S, T, f
  <2>4. Cardinality(S) <= Cardinality(T)
    BY <2>1, <2>2, FS_Injection
  <2>5. Limit \in Int /\ Cardinality(T) + Cardinality(Testing(K, testing)) <= Limit
    BY <2>3, ThresholdsShape DEF TInv, Limit, T
  <2> QED
    BY <1>4, <2>2, <2>3, <2>4, <2>5 DEF S
<1> QED
  <2>1. k <= MaxAttempts
    BY <1>1, <1>4, ConstantsShape DEF TInv, ThrottleTypeOK
  <2> QED
    BY <1>4, <1>6, <1>7, <1>8, <2>1 DEF TInv, ThrottleTypeOK

LEMMA ThrottleBegins == ThrottleInit => TInv
<1> SUFFICES ASSUME ThrottleInit PROVE TInv
  OBVIOUS
<1>1. attempts \in Seq(Attempt) /\ Len(attempts) = 0 /\ DOMAIN attempts = {}
  BY EmptySeq DEF ThrottleInit
<1>2. \A K : Tested(K, attempts) = {} /\ Testing(K, testing) = {}
  BY <1>1 DEF ThrottleInit, Tested, Testing
<1>3. Cardinality({}) = 0 /\ Cardinality(SignIn) \in Nat /\ Thresholds[1].failures \in Nat \ {0}
  BY FS_EmptySet, FS_CardinalityType, ThresholdsShape, ConstantsShape
<1>4. ThrottleTypeOK /\ OldestFirst
  BY <1>1, ConstantsShape DEF ThrottleInit, ThrottleTypeOK, OldestFirst
<1>5. 0 + 0 <= Limit
  BY <1>3 DEF Limit
<1> QED
  BY <1>2, <1>3, <1>4, <1>5 DEF TInv

LEMMA ThrottleSteps == TInv /\ [ThrottleNext]_throttleVars => TInv'
<1> SUFFICES ASSUME TInv, [ThrottleNext]_throttleVars PROVE TInv'
  OBVIOUS
<1>1. CASE UNCHANGED throttleVars
  BY <1>1 DEF throttleVars, TInv, ThrottleTypeOK, OldestFirst
<1> QED
  BY <1>1, RefuseInv, AdmitInv, FailInv, SucceedInv, TickInv DEF ThrottleNext

\* Every row is of a caller and within the window, in any number of requests
\* and for any thresholds that ascend.
THEOREM ThrottleTypes == ThrottleSpec => []ThrottleTypeOK
<1>1. TInv => ThrottleTypeOK
  BY DEF TInv
<1> QED
  BY <1>1, ThrottleBegins, ThrottleSteps, PTL DEF ThrottleSpec

\* Whatever requests overlap between checkThrottle and recordFailure, a window
\* holds no more wrong passwords or codes of one email or address than the
\* first threshold allows and the requests under way add.
THEOREM GuessesBoundedHolds == ThrottleSpec => []GuessesBounded
<1>1. TInv => GuessesBounded
  <2> SUFFICES ASSUME TInv PROVE GuessesBounded
    OBVIOUS
  <2> DEFINE tested == {n \in DOMAIN attempts : attempts[n].tested}
  <2>1. ASSUME NEW K \in Watched
        PROVE  Cardinality(Tested(K, attempts)) <= Limit
    <3>1. /\ Cardinality(Tested(K, attempts)) \in Nat /\ Cardinality(Testing(K, testing)) \in Nat
          /\ Cardinality(SignIn) \in Nat
      BY CountsFinite DEF TInv, ThrottleTypeOK
    <3>2. Limit \in Int /\ Cardinality(Tested(K, attempts)) + Cardinality(Testing(K, testing)) <= Limit
      BY <3>1, ThresholdsShape DEF TInv, Limit
    <3> QED
      BY <3>1, <3>2
  <2>2. \A n \in DOMAIN attempts : attempts[n].caller \in Caller
    BY AttemptsShape DEF TInv, ThrottleTypeOK, Attempt
  <2>3. ASSUME NEW e \in Email
        PROVE  Cardinality({n \in tested : attempts[n].caller.email = e}) <= Limit
    <3>1. {n \in tested : attempts[n].caller.email = e} = Tested(SameEmail(e), attempts)
      BY <2>2 DEF Tested, SameEmail
    <3>2. SameEmail(e) \in Watched
      BY DEF Watched
    <3> QED
      BY <2>1, <3>1, <3>2
  <2>4. ASSUME NEW i \in Ip
        PROVE  Cardinality({n \in tested : attempts[n].caller.ip = i}) <= Limit
    <3>1. {n \in tested : attempts[n].caller.ip = i} = Tested(SameIp(i), attempts)
      BY <2>2 DEF Tested, SameIp
    <3>2. SameIp(i) \in Watched
      BY DEF Watched
    <3> QED
      BY <2>1, <3>1, <3>2
  <2> QED
    BY <2>3, <2>4 DEF GuessesBounded, Limit
<1> QED
  BY <1>1, ThrottleBegins, ThrottleSteps, PTL DEF ThrottleSpec
=============================================================================
