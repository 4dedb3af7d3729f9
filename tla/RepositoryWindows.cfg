SPECIFICATION AppSpec
CONSTANTS
  proj = proj
  s = s
  t = t
  q = q
  u = u
  m = m
  j = j
  Roots = {proj, s, t, q, u}
  Paths = {m, j}
  Directory <- MCDirectory
  PassesThrough <- MCPassesThrough
  SubmoduleRoot <- MCSubmoduleRoot
  Canonical <- MCCanonical
  MaxRecent = 3
  Instances = {"one"}
  Filters = {"s"}
  Matches <- MCMatches
  CurrentRoot = s
  InitialLists <- MCInitialLists
  Founds <- MCFounds
  Removable = {"P"}
  MaxActs = 5
INVARIANTS OneRepositoryWhileReached ExpansionSurvives
PROPERTY ListKeepsItsEntries
CHECK_DEADLOCK FALSE
