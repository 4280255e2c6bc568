CONSTANTS
    None = None
    c1 = c1
    c2 = c2
    Session <- Accounts
    Visited = {"skl", "sve", "projects", "executive", "hrmsApprovals", "hrmsDirectory"}
    Subjects <- Opened
    Search = {""}
    Tool = {"documents"}
    Task = {t1}
    MaxLoads = 2
    MaxHistory = 2
SPECIFICATION Spec
SYMMETRY Symmetry
INVARIANTS
    ShownIsSelected
    DecidedNotOffered
    PageAllowed
