CONSTANTS
    None = None
    returning = returning
    sliding = sliding
    escalating = escalating
    User = {u1, u2}
    Instance = {i1, i2}
    Subject = {x1}
    Version = {escalating}
    Steps <- AllSteps
    Sweeper = {w1, w2}
    MaxSteps = 2
    MaxTasks = 2
SPECIFICATION Spec
SYMMETRY Symmetry
PROPERTIES
    EscalatedOnce
    ImplementsChain
