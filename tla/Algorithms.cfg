SPECIFICATION InputsSpec
CONSTANTS
  ShaOf <- MCShaOf
  Unlisted = {"u"}
  MaxParents = 3
  MaxEdges = 5
  Width <- MCWidth
  Spaces = {" "}
  Words = {"foo", "bar", "baz"}
  Scale = 5040
  SimilarityThreshold = 1512
  MaxAlignedTokens = 64
  MaxLinePairings = 100
  MinMovedBlockContentLines = 2
  MinMovedBlockAlnumChars = 8
  MaxMovedBlockGap = 1
  MinEditedEndSimilarity = 2520
  MaxBlockStartCandidates = 2
  BaseInlineChanges = 1
  CharsPerExtraInlineChange = 80
  MaxInlineChanges = 8
  Vocabularies <- MCVocabularies
INVARIANTS GraphTellsTheTruth ChangesAreMatched ShowsTheDiff PushesAddNoHead
CHECK_DEADLOCK FALSE
