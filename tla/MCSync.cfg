CONSTANTS
  Hash <- MCHash
  Genesis = "g"
  NoHash = "none"
  Prev <- MCPrev
  Height <- MCHeight
  Node = {"A", "B"}
  Stores <- MCStores
  Maker <- MCMaker
  MaxCount = 3
  MaxStarts = 1
  MaxLost = 1
SPECIFICATION FairSpec
INVARIANTS RequestsAreAnswerable KnownBlocksInv
PROPERTIES ExchangeEnds 
CHECK_DEADLOCK FALSE
