CONSTANTS
  Ids <- MCIds
  Keys <- MCKeys
  Positions <- MCPositions
  Values <- MCValues
  ContentLengths <- MCContentLengths
  EmbeddingCounts <- MCEmbeddingCounts
  Wildcards <- MCWildcards
  Stripped <- MCStripped
  ContentOffsetLimit = 1024
  EmbeddingsOffsetLimit = 1024
  MaxGlobals = 2
  MaxTerms = 3
  MaxQueries = 1
  GlobalFirst = TRUE
  NoDocument = NoDocument
  NoImage = NoImage
  NoHeader = NoHeader
SPECIFICATION IndexSpec
CHECK_DEADLOCK FALSE
INVARIANT IndexTypeOK
INVARIANT QueryIsExact
INVARIANT HitIsAsAdded
INVARIANT HitHasHeader
PROPERTY QueryEnds
