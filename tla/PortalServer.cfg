CONSTANTS
    None = None
    Person = {p1, p2}
    Request = {r1, r2}
    NewAccounts <- Created
    Changes <- Asked
    Version = {v1, v2}
    Reference = {"a", "b"}
    OtherCode = {memo}
    NumberOf <- Unnumbered
    Codes = {2, memo}
    MaxRows = 2
SPECIFICATION Spec
SYMMETRY Symmetry
INVARIANTS
    CallersLive
    DecisionsConsistent
    CurrentVersionKept
