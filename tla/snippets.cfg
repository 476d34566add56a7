CONSTANTS
  Places <- MCPlaces
  TermIndexes <- MCTermIndexes
  QueryMasks <- MCQueryMasks
  MaxSnippets <- MCMaxSnippets
  SummarySnippet = 2
  NoProximity = 65535
  MaxOccurrences = 4
SPECIFICATION Spec
CHECK_DEADLOCK FALSE
INVARIANT TypeOK
INVARIANT SnippetsInOrder
INVARIANT OccurrencesCovered
INVARIANT MaskIsOfRange
INVARIANT ClustersMarked
INVARIANT TopCoversOnce
INVARIANT ProximityIsExact
PROPERTY SnippetsEnd
