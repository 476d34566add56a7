CONSTANTS
  Indexes <- EndIndexes
  Tails <- ZeroTail
  Targets <- NoTargets
  SkipAnywhere = FALSE
SPECIFICATION Spec
INVARIANT EndIsReported
