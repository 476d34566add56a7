CONSTANTS
  EmbeddingBytes = 64
  Letters <- MCLetters
  Positions <- MCPositions
  Values <- MCValues
  ContentLengths <- MCContentLengths
  EmbeddingCounts <- MCEmbeddingCounts
  Queries <- MCQueries
  DocumentAt = 5
  MaxTerms = 2
  MaxDocuments = 2
  MaxSets = 2
  MaxFrequency = 2
  MaxPrepares = 2
SPECIFICATION Spec
CHECK_DEADLOCK FALSE
CONSTRAINT SmallDocuments
INVARIANT TypeOK
INVARIANT MatchFitsBuffer
PROPERTY SetsImplement
