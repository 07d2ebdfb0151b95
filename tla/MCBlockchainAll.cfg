CONSTANTS
  Hash <- MCHash
  Genesis = "g"
  NoHash = "none"
  Prev <- MCPrev
  Height <- MCHeight
  MaxCount = 3
SPECIFICATION SpecAll
INVARIANTS IndexIsSomeBranch
PROPERTIES MainBlocksStayIndexed
CHECK_DEADLOCK FALSE
