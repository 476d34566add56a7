CONSTANTS
  EmbeddingBytes = 64
  Letters <- MCLetters
  Positions <- MCPositions
  Values <- MCValues
  ContentLengths <- MCContentLengths
  EmbeddingCounts <- MCEmbeddingCounts
  Asked <- MCAsked
  Stripped <- MCStripped
  BaseAddresses <- MCBaseAddresses
  DocumentAt = 1
  MaxTerms = 1
  MaxDocuments = 1
SPECIFICATION Spec
CHECK_DEADLOCK FALSE
INVARIANT ImageIsDocument
