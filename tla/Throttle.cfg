CONSTANTS
    NoCaller = NoCaller
    SignIn = {r1, r2}
    Email = {e1, e2}
    Ip = {i1}
    Window = 3
    MaxAttempts = 5
    Thresholds <- MCThresholds
SPECIFICATION FairThrottleSpec
INVARIANTS
    ThrottleTypeOK
    GuessesBounded
PROPERTIES
    NoPermanentLockout
