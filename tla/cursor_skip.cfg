CONSTANTS
  Indexes <- SkipIndexes
  Tails <- ZeroTail
  Targets <- SkipTargets
  SkipAnywhere = TRUE
SPECIFICATION Spec
INVARIANT SkipLandsOnPosting
