CONSTANTS
    outer = outer
    sub = sub
    nested = nested
    Root = outer
    Submodules = {sub, nested}
    Parent <- Chain
    Modes = {"Branch", "OneByOne", "UpTo"}
    MaxCommits = 3
    MaxUnpublished = 3
    MaxPushes = 1
    MaxOutside = 1
    MaxFailures = 1
SPECIFICATION Spec
INVARIANTS
    TipsAreFetchable
    PushExcludesWrites
    EndsAsAsked
CHECK_DEADLOCK FALSE
