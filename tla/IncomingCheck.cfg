SPECIFICATION CheckSpec
CONSTANTS
  SubmoduleCount = 2
  MaxRemoteCommits = 1
  MaxEvents = 3
INVARIANT FetchedCountStands
PROPERTY EveryoneAnswers
CHECK_DEADLOCK FALSE
