CONSTANTS
    None = None
    Request = {r1, r2}
    Admin = {a1}
    Session = {s1, s2}
    Challenge = {c1}
    MaxMethods = 2
    MaxCodes = 2
SPECIFICATION Spec
INVARIANTS
    TypeOK
    LiveOnlyWhileActive
    ProofsSpent
    OneLiveMethod
PROPERTIES
    ImplementsAccess
SYMMETRY Symmetry
