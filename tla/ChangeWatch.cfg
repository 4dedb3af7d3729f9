CONSTANTS
    Windows = {c, h}
    CommitWindows = {c}
    Tree = tree
    StateRoots = {git}
    Covered = {git}
    NoWindow = none
    MaxFailures = 1
    MaxOpenings = 2
    MayBePartial = TRUE
SPECIFICATION Spec
INVARIANT NoMiss
INVARIANT TrustCovers
PROPERTY WindowsCatchUp
