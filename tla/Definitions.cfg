CONSTANTS
    None = None
    Definition = {d1}
    Request = {r1, r2}
    Content = {"APPROVE", "RETURN", "EMPTY"}
    Incomplete = {"EMPTY"}
    Returning = {"RETURN"}
    MaxSteps = 2
    MaxVersions = 2
    MaxInstances = 2
SPECIFICATION Spec
SYMMETRY Symmetry
INVARIANTS
    TypeOK
    InstancesRunOneVersion
PROPERTIES
    PublishedFrozen
CHECK_DEADLOCK FALSE
