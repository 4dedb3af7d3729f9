CONSTANTS
    Files = {p, q}
    Submodules = {s}
    Contents = {x, y}
    None = none
    DirstateV2 = FALSE
    Outside = {"edit", "track", "move", "copy", "merge"}
    MaxOutside = 1
    MaxFailures = 1
    MaxWrites = 2
    MaxPaths = 3
    MaxEvents = 3
    FirstPolicies = {"allButUntracked"}
SPECIFICATION Spec
INVARIANTS
    RowsTellTheTruth
    CommitAddsOnlyCopies
    FailedCommitTracksNothing
SYMMETRY Interchangeable
CHECK_DEADLOCK FALSE
