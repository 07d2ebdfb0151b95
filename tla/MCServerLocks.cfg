CONSTANTS
  Routine <- MCRoutine
  Kind <- MCKind
  Mixes <- MCMixes
SPECIFICATION FairSpec
INVARIANTS ReleasedUnlessMet ConnectionStaysOpen NoPanic NobodyWaitsInCircle
PROPERTIES RequestsEnd
CHECK_DEADLOCK FALSE
