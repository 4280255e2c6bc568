CONSTANTS
    None = None
    Case = {c1}
    Request = {r1, r2}
    Worker = {w1, w2}
    MaxInstances = 2
    MaxReviews = 2
    MaxCount = 2
SPECIFICATION Spec
SYMMETRY Symmetry
INVARIANTS
    RejectionCountsOnce
CHECK_DEADLOCK FALSE
