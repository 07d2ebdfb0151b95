CONSTANTS
  Hash <- MCHash
  Genesis = "g"
  NoHash = "none"
  Prev <- MCPrev
  Height <- MCHeight
  MaxCount = 3
SPECIFICATION SpecCrash
INVARIANTS IndexFollowsTop
CHECK_DEADLOCK FALSE
