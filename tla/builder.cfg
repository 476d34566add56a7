CONSTANTS
  Ids <- MCIds
  Keys <- MCKeys
  Positions <- MCPositions
  Values <- MCValues
  ContentLengths <- MCContentLengths
  EmbeddingCounts <- MCEmbeddingCounts
  Wildcards <- MCWildcards
  ContentOffsetLimit = 16
  EmbeddingsOffsetLimit = 4
  MaxGlobals = 3
  MaxTerms = 3
  GlobalFirst = TRUE
  NoDocument = NoDocument
SPECIFICATION Spec
CHECK_DEADLOCK FALSE
INVARIANT TypeOK
INVARIANT IdsFitTable
INVARIANT PostingsHaveDocument
INVARIANT SlicesOwned
INVARIANT StatsMatchFiles
INVARIANT LengthsCoverPositions
INVARIANT IndexPointsAtTerms
