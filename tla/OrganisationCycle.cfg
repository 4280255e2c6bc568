CONSTANTS
    None = None
    Employee = {e1, e2, e3}
    Request = {r1}
    LiveStatus = {"ACTIVE"}
    EndStatus = {"TERMINATED"}
    MaxRows = 6
    MaxDate = 3
    HireDates = {1}
    MaxHops = 5
SPECIFICATION Spec
SYMMETRY Symmetry
INVARIANT
    NobodyAboveThemselves
CHECK_DEADLOCK FALSE
