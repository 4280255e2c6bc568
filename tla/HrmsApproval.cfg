CONSTANTS
    None = None
    Case = {c1}
    Request = {r1, r2}
    Worker = {w1, w2}
    MaxInstances = 2
    MaxReviews = 2
    MaxCount = 2
SPECIFICATION FairSpec
INVARIANTS
    TypeOK
    AllOrNothing
    ApprovalTakesEffect
    ReviewsInOrder
PROPERTIES
    TerminalStays
    ProcessedOnce
    RequestsProcessed
    ImplementsChain
CHECK_DEADLOCK FALSE
