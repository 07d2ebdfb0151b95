CONSTANTS
  Routine <- MCRoutine
  Kind <- MCKind
  Mixes <- MCAddNodeMixes
SPECIFICATION FairSpec
INVARIANTS LocksAreReleased
CHECK_DEADLOCK FALSE
