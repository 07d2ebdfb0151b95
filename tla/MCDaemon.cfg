CONSTANTS
  Server = {1, 2}
  Tx = {"t1", "t2", "t3"}
  Mixes <- MCMixes
  Void = "void"
  Exit = "exit"
  Capacity = 1
SPECIFICATION FairSpec
INVARIANTS ServerIsFound
PROPERTIES StopEnds EveryTxIsTried
CHECK_DEADLOCK FALSE
