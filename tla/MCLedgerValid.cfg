CONSTANTS
  Hash <- MCHash
  Genesis = "g"
  NoHash = "none"
  Prev <- MCPrev
  Height <- MCHeight
  MaxCount = 3
  Tx <- MCTx
  Ins <- MCIns
  Outs <- MCOuts
  Time <- MCTime
  Txs <- MCTxs
  MaxMinTx = 1
  MaxTx = 3
  Key = {"A", "B"}
  Owner <- MCOwner
  Value <- MCValue
  MaxAmount = 9
SPECIFICATION NodeSpec
INVARIANTS ValidBlockIsAccepted
