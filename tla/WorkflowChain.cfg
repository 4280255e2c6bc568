CONSTANTS
    None = None
    returning = returning
    sliding = sliding
    escalating = escalating
    User = {u1, u2}
    Instance = {i1}
    Subject = {x1}
    Version = {returning, sliding}
    Steps <- AllSteps
    Sweeper = {}
    MaxSteps = 3
    MaxTasks = 4
SPECIFICATION Spec
SYMMETRY Symmetry
INVARIANTS
    TypeOK
    OnePendingTask
    DecisionsMatchTasks
    DecidersEntitled
    SystemActionsOnce
    CompletionJustified
PROPERTIES
    HistoryIsFinal
