CONSTANTS
    Flows <- LockedFlows
    Menu = menu
    Nobody = nobody
    Superproject = superproject
    MaxStarts = 2
    MaxExternal = 2
SPECIFICATION Spec
INVARIANT WriteHoldsLock
INVARIANT UndoIsDecidedRight
PROPERTY ConfirmedStateStands
PROPERTY LocksComeFree
