CONSTANTS
  Hash <- MCHash
  Genesis = "g"
  NoHash = "none"
  Prev <- MCPrev
  Height <- MCHeight
  MaxCount = 3
SPECIFICATION FairSpec
INVARIANTS IndexIsMainChain TopIsHighest ReorgCompletes TopBranchIsStored IInv
  ChosenIsUnderTip RangeIsExactOnBranch SideBranchIsDifference ReorgHasReplacement NextBlocksAreMainChain
PROPERTIES OperationEnds AddBlockIsAtomic
