CONSTANTS
  Indexes <- WideIndexes
  Tails <- ZeroTail
  Targets <- NoTargets
  SkipAnywhere = FALSE
SPECIFICATION Spec
INVARIANT DecodedAsStored
