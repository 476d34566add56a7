CONSTANTS
  EmbeddingBytes = 64
  Letters <- MCLetters
  Positions <- MCPositions
  Values <- MCValues
  ContentLengths <- MCContentLengths
  EmbeddingCounts <- MCEmbeddingCounts
  Asked <- MCAsked
  Stripped <- MCStripped
  BaseAddresses <- MCBaseAddresses
  DocumentAt = 5
  MaxTerms = 4
  MaxDocuments = 2
SPECIFICATION Spec
CHECK_DEADLOCK FALSE
CONSTRAINT SmallSecond
INVARIANT ImageIsDocument
INVARIANT LengthIsOwn
INVARIANT LookupIsExact
INVARIANT TermsFitArray
