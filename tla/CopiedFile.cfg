CONSTANTS
    Files = {p, q}
    Submodules = {}
    Contents = {x, y}
    None = none
    DirstateV2 = FALSE
    Outside = {"edit", "track", "copy"}
    MaxOutside = 2
    MaxFailures = 1
    MaxWrites = 2
    MaxPaths = 2
    MaxEvents = 3
    FirstPolicies = {"allButUntracked"}
SPECIFICATION Spec
INVARIANTS
    CommitIsTheCheckedRows
SYMMETRY Interchangeable
CHECK_DEADLOCK FALSE
