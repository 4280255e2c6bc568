CONSTANTS
    None = None
    Employee = {e1, e2}
    Request = {r1, r2}
    LiveStatus = {"ACTIVE"}
    EndStatus = {"TERMINATED"}
    MaxRows = 4
    MaxDate = 2
    HireDates = {1}
    MaxHops = 2
SPECIFICATION Spec
SYMMETRY Symmetry
INVARIANTS
    TypeOK
    OneOpenPrimary
    LinesPassEachEmployeeOnce
CHECK_DEADLOCK FALSE
