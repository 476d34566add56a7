CONSTANTS
  Indexes <- MCIndexes
  Tails <- ZeroTail
  Targets <- MCTargets
  SkipAnywhere = FALSE
SPECIFICATION Spec
INVARIANT TypeOK
INVARIANT WindowsNested
INVARIANT PositionsFitBuffer
PROPERTY Implements
