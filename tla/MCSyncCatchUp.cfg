CONSTANTS
  Hash <- MCHash
  Genesis = "g"
  NoHash = "none"
  Prev <- MCPrev
  Height <- MCHeight
  Node = {"A", "B"}
  Stores <- MCStores
  Maker <- MCMaker
  MaxCount = 10
  MaxStarts = 1
  MaxLost = 1
SPECIFICATION FairSpec
PROPERTY CatchesUp
CHECK_DEADLOCK FALSE
