CONSTANTS
    Files = {p, q}
    Submodules = {s}
    Contents = {x, y}
    None = none
    Unmerged = unmerged
    Outside = {"edit", "stage", "merge"}
    MaxOutside = 1
    MaxFailures = 1
    MaxWrites = 2
    MaxPaths = 2
    MaxEvents = 3
    FirstPolicies = {"allButUntracked"}
SPECIFICATION Spec
INVARIANTS
    RowsTellTheTruth
    CommitIsTheCheckedRows
    StagingSurvives
    FailedCommitTracksNothing
    UnchosenIsLeftAlone
SYMMETRY Interchangeable
CHECK_DEADLOCK FALSE
