SPECIFICATION Spec
CONSTANTS
    j1 = j1
    j2 = j2
    j3 = j3
    w1 = w1
    r1 = r1
    r2 = r2
    good = good
    bad = bad
    Jobs = {j1, j3}
    Contexts = {w1}
    NoContext = NoContext
    ContextOf <- MCContextOf
    Roots = {r1, r2}
    RootOf <- MCRootOf
    Inside <- MCInside
    Executables = {good, bad}
    BadExecutables = {bad}
    GoneRoots = {}
    FirstSetting = bad
    FirstOpen = {r1}
    NoJob = NoJob
    MaxServers = 2
    MaxDialogs = 0
    MaxChanges = 1
INVARIANTS
    JobsFindServers
    FailuresAreDeserved
PROPERTIES
    KeepsContract
    ServersLetGo
CHECK_DEADLOCK FALSE
