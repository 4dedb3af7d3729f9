SPECIFICATION RoundSpec
CONSTANTS
    j1 = j1
    j2 = j2
    j3 = j3
    repository = repository
    Jobs = {j1, j2, j3}
    Contexts = {repository}
    NoContext = NoContext
    ContextOf <- MCContextOf
    MaxConcurrentProcesses = 1
    RoundJobs = {j1, j2}
    Capturing = {j1}
    Scope = Scope
INVARIANTS
    SlotsAreUsed
    ThenRunsLast
PROPERTIES
    NoOvertaking
    KeepsContract
    RoundEnds
CHECK_DEADLOCK FALSE
