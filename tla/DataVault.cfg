CONSTANTS
    None = None
    hq = hq
    branch = branch
    User = {u1}
    Role = {"counsel"}
    Key <- Keys
    RoleKeys <- Given
    Ceiling <- Limit
    Scope <- Paths
    Record = {d1}
    Request = {r1, r2}
    Entity = {hq, branch}
    Text = {"old", "new"}
    Updates <- Edits
    Inserts <- NewRecords
    MaxVersion = 2
SPECIFICATION Spec
SYMMETRY Symmetry
INVARIANTS
    TypeOK
PROPERTIES
    CallersEntitled
    HistoryKept
CHECK_DEADLOCK FALSE
