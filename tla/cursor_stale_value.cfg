CONSTANTS
  Indexes <- StaleIndexes
  Tails <- ZeroTail
  Targets <- NoTargets
  SkipAnywhere = FALSE
SPECIFICATION Spec
INVARIANT ValueOfPosting
