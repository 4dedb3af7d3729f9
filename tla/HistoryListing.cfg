SPECIFICATION ListingSpec
CONSTANTS
  Scopes = {"CheckedOut", "EveryRef", "branch"}
  Shas = {"a", "b", "c", "o", "x"}
  RevealTargets = {"x", "c"}
  Walk <- MCWalk
  NoWalk <- MCNoWalk
  Matched <- MCMatched
  MaxVersion = 1
  InitialCommitBatch = 1
  HistoryMaxCommits = 2
  MaxEvents = 2
  MaxFailures = 1
INVARIANTS RevealIsDecidedOnce ListingCatchesUp
PROPERTIES ShownRowsStand ComesToRest
CHECK_DEADLOCK FALSE
