----------------------------- MODULE Blockchain -----------------------------
(***************************************************************************)
(* The block store of a node: node/blockchain/manager.go on top of         *)
(* node/database/blockchain.go, with the creation of a blockchain          *)
(* (node/nodemanager/blockchain_create.go).                                *)
(*                                                                         *)
(* Only one operation runs at a time: it holds the database lock.  Each    *)
(* step of an operation that is a bolt transaction of its own is an action *)
(* of its own, because the process may die between two of them and each of *)
(* them is durable.                                                        *)
(***************************************************************************)
EXTENDS ChainIndex, SequencesExt

VARIABLES
  \* the database file
  inited,     \* the buckets exist
  blocks,     \* hashes of the records of the "blocks" bucket
  topHash,    \* the record "l" of the "blocks" bucket
  firstHash,  \* the record "f" of the "blocks" bucket
  chain,      \* the "blockchain" bucket
  \* the process
  running,    \* the node daemon is running
  pc,         \* where the operation in progress is
  block,      \* the block it is about
  lastHash,   \* AddBlock: the top hash before the block was added
  cur,        \* UpdateChainOnNewBranch: currentHash of the iterator
  newBlocks,  \* UpdateChainOnNewBranch: blocks of the new branch
  mergePoint, \* UpdateChainOnNewBranch: mergePointHash
  remHash,    \* UpdateChainOnNewBranch: next hash to remove
  addState    \* the BCBAddState that the last AddBlock returned

database == <<inited, blocks, topHash, firstHash, chain>>
reorg    == <<cur, newBlocks, mergePoint, remHash>>
vars     == <<database, running, pc, block, lastHash, reorg, addState>>

\* BCBAddState_*
Error            == 0
AddedToTop       == 1
AddedToParallelTop == 2
AddedToParallel  == 3
NotAddedNoPrev   == 4
NotAddedExists   == 5

PCs == {"idle", "genesisPut", "genesisTop", "genesisFirst", "genesisChain",
        "put", "toChain", "walk", "remove", "add",
        "dropBlock", "dropChain", "panic"}

Init ==
  /\ inited = FALSE
  /\ blocks = {}
  /\ topHash = NoHash
  /\ firstHash = NoHash
  /\ chain = EmptyBucket
  /\ running = FALSE
  /\ pc = "idle"
  /\ block = NoHash
  /\ lastHash = NoHash
  /\ cur = NoHash
  /\ newBlocks = <<>>
  /\ mergePoint = NoHash
  /\ remHash = NoHash
  /\ addState = Error

\* The locals of an operation die when it returns.
Return ==
  /\ pc' = "idle"
  /\ block' = NoHash
  /\ lastHash' = NoHash
  /\ cur' = NoHash
  /\ newBlocks' = <<>>
  /\ mergePoint' = NoHash
  /\ remHash' = NoHash

-----------------------------------------------------------------------------
(***************************************************************************)
(* CreateBlockchain and InitBlockchainFromOther: addFirstBlock.            *)
(***************************************************************************)

\* InitDatabase: CreateBucket fails when a bucket exists.
InitDatabase ==
  /\ pc = "idle"
  /\ ~ inited
  /\ inited' = TRUE
  /\ pc' = "genesisPut"
  /\ UNCHANGED <<blocks, topHash, firstHash, chain, running, block, lastHash, reorg, addState>>

PutGenesis_topFirst ==
  /\ pc = "genesisPut"
  /\ topHash' = Genesis
  /\ pc' = "genesisTop"
  /\ UNCHANGED <<inited, blocks, firstHash, chain, running, block, lastHash, reorg, addState>>

PutGenesis ==
  /\ pc = "genesisPut"
  /\ blocks' = blocks \cup {Genesis}
  /\ pc' = "genesisTop"
  /\ UNCHANGED <<inited, topHash, firstHash, chain, running, block, lastHash, reorg, addState>>

SaveGenesisTop ==
  /\ pc = "genesisTop"
  /\ topHash' = Genesis
  /\ pc' = "genesisFirst"
  /\ UNCHANGED <<inited, blocks, firstHash, chain, running, block, lastHash, reorg, addState>>

SaveFirstHash ==
  /\ pc = "genesisFirst"
  /\ firstHash' = Genesis
  /\ pc' = "genesisChain"
  /\ UNCHANGED <<inited, blocks, topHash, chain, running, block, lastHash, reorg, addState>>

AddGenesisToChain ==
  /\ pc = "genesisChain"
  /\ chain' = AddToChain(chain, Genesis, NoHash)
  /\ Return
  /\ UNCHANGED <<inited, blocks, topHash, firstHash, running, addState>>

\* The daemon starts only when CheckDBExists finds a top hash.
StartNode ==
  /\ pc = "idle"
  /\ ~ running
  /\ topHash # NoHash
  /\ running' = TRUE
  /\ UNCHANGED <<database, pc, block, lastHash, reorg, addState>>

-----------------------------------------------------------------------------
(***************************************************************************)
(* AddBlock.  The block was made by this node or received from another     *)
(* one: blocks come in any order, and may come again.                      *)
(***************************************************************************)

AddBlockExists(b) ==
  /\ pc = "idle"
  /\ running
  /\ b \in blocks
  /\ addState' = NotAddedExists
  /\ UNCHANGED <<database, running, pc, block, lastHash, reorg>>

AddBlockNoPrev(b) ==
  /\ pc = "idle"
  /\ running
  /\ b \notin blocks
  /\ Prev[b] \notin blocks
  /\ addState' = NotAddedNoPrev
  /\ UNCHANGED <<database, running, pc, block, lastHash, reorg>>

AddBlockPut_noPrevCheck(b) ==
  /\ pc = "idle"
  /\ running
  /\ b \notin blocks
  /\ blocks' = blocks \cup {b}
  /\ block' = b
  /\ pc' = "put"
  /\ UNCHANGED <<inited, topHash, firstHash, chain, running, lastHash, reorg, addState>>

AddBlockPut(b) ==
  /\ pc = "idle"
  /\ running
  /\ b \notin blocks
  /\ Prev[b] \in blocks
  /\ blocks' = blocks \cup {b}
  /\ block' = b
  /\ pc' = "put"
  /\ UNCHANGED <<inited, topHash, firstHash, chain, running, lastHash, reorg, addState>>

\* GetTopHash finds nothing, or the top block is missing.
AddBlockNoTop ==
  /\ pc = "put"
  /\ topHash \notin blocks
  /\ addState' = Error
  /\ Return
  /\ UNCHANGED <<database, running>>

AddBlockParallel_anyHeight ==
  /\ pc = "put"
  /\ topHash \in blocks
  /\ addState' = AddedToParallel
  /\ Return
  /\ UNCHANGED <<database, running>>

AddBlockParallel ==
  /\ pc = "put"
  /\ topHash \in blocks
  /\ Height[block] <= Height[topHash]
  /\ addState' = AddedToParallel
  /\ Return
  /\ UNCHANGED <<database, running>>

AddBlockSaveTop_sameHeight ==
  /\ pc = "put"
  /\ topHash \in blocks
  /\ Height[block] >= Height[topHash]
  /\ lastHash' = topHash
  /\ topHash' = block
  /\ IF topHash # Prev[block]
     THEN pc' = "walk" /\ cur' = block
     ELSE pc' = "toChain" /\ cur' = cur
  /\ UNCHANGED <<inited, blocks, firstHash, chain, running, block,
                 newBlocks, mergePoint, remHash, addState>>

AddBlockSaveTop_noBranchCheck ==
  /\ pc = "put"
  /\ topHash \in blocks
  /\ Height[block] > Height[topHash]
  /\ lastHash' = topHash
  /\ topHash' = block
  /\ pc' = "toChain"
  /\ UNCHANGED <<inited, blocks, firstHash, chain, running, block, reorg, addState>>

AddBlockSaveTop ==
  /\ pc = "put"
  /\ topHash \in blocks
  /\ Height[block] > Height[topHash]
  /\ lastHash' = topHash
  /\ topHash' = block
  /\ IF topHash # Prev[block]
     THEN pc' = "walk" /\ cur' = block   \* NewBlockchainIterator
     ELSE pc' = "toChain" /\ cur' = cur
  /\ UNCHANGED <<inited, blocks, firstHash, chain, running, block,
                 newBlocks, mergePoint, remHash, addState>>

\* An error of AddToChain is only logged.
AddBlockToChain ==
  /\ pc = "toChain"
  /\ chain' = AddToChain(chain, block, Prev[block])
  /\ addState' = AddedToTop
  /\ Return
  /\ UNCHANGED <<inited, blocks, topHash, firstHash, running>>

-----------------------------------------------------------------------------
(***************************************************************************)
(* UpdateChainOnNewBranch(lastHash).  Whatever it returns, AddBlock then   *)
(* returns BCBAddState_addedToParallelTop: an error is only logged.        *)
(***************************************************************************)

\* Next returns nil for a missing block, and block.Hash is read of it.
WalkMissing ==
  /\ pc = "walk"
  /\ cur \notin blocks
  /\ pc' = "panic"
  /\ running' = FALSE
  /\ UNCHANGED <<database, block, lastHash, reorg, addState>>

WalkNewBlock_noAdvance ==
  /\ pc = "walk"
  /\ cur \in blocks
  /\ ~ BlockInChain(chain, cur)
  /\ UNCHANGED vars

WalkNewBlock ==
  /\ pc = "walk"
  /\ cur \in blocks
  /\ ~ BlockInChain(chain, cur)
  /\ newBlocks' = Append(newBlocks, cur)
  /\ cur' = Prev[cur]
  /\ IF Prev[cur] = NoHash
     THEN pc' = "remove" /\ remHash' = lastHash
     ELSE UNCHANGED <<pc, remHash>>
  /\ UNCHANGED <<database, running, block, lastHash, mergePoint, addState>>

WalkFound ==
  /\ pc = "walk"
  /\ cur \in blocks
  /\ BlockInChain(chain, cur)
  /\ mergePoint' = cur
  /\ remHash' = lastHash
  /\ pc' = "remove"
  /\ UNCHANGED <<database, running, block, lastHash, cur, newBlocks, addState>>

RemoveOld_sameHash ==
  /\ pc = "remove"
  /\ remHash # mergePoint
  /\ CanRemoveFromChain(chain, remHash)
  /\ chain' = RemoveFromChain(chain, remHash)
  /\ UNCHANGED <<inited, blocks, topHash, firstHash, running, pc, block, lastHash,
                 reorg, addState>>

RemoveOld_pastMergePoint ==
  /\ pc = "remove"
  /\ CanRemoveFromChain(chain, remHash)
  /\ remHash' = GetLocationInChain(chain, remHash).prev
  /\ chain' = RemoveFromChain(chain, remHash)
  /\ UNCHANGED <<inited, blocks, topHash, firstHash, running, pc, block, lastHash,
                 cur, newBlocks, mergePoint, addState>>

RemoveOld ==
  /\ pc = "remove"
  /\ remHash # mergePoint
  /\ CanRemoveFromChain(chain, remHash)
  /\ remHash' = GetLocationInChain(chain, remHash).prev
  /\ chain' = RemoveFromChain(chain, remHash)
  /\ UNCHANGED <<inited, blocks, topHash, firstHash, running, pc, block, lastHash,
                 cur, newBlocks, mergePoint, addState>>

RemoveError ==
  /\ pc = "remove"
  /\ remHash # mergePoint
  /\ ~ CanRemoveFromChain(chain, remHash)
  /\ addState' = AddedToParallelTop
  /\ Return
  /\ UNCHANGED <<database, running>>

RemoveDone ==
  /\ pc = "remove"
  /\ remHash = mergePoint
  /\ newBlocks' = Reverse(newBlocks)
  /\ pc' = "add"
  /\ UNCHANGED <<database, running, block, lastHash, cur, mergePoint, remHash, addState>>

AddNew ==
  /\ pc = "add"
  /\ newBlocks # <<>>
  /\ CanAddToChain(chain, Head(newBlocks), mergePoint)
  /\ chain' = AddToChain(chain, Head(newBlocks), mergePoint)
  /\ mergePoint' = Head(newBlocks)
  /\ newBlocks' = Tail(newBlocks)
  /\ UNCHANGED <<inited, blocks, topHash, firstHash, running, pc, block, lastHash,
                 cur, remHash, addState>>

AddDone ==
  /\ pc = "add"
  /\ newBlocks # <<>> => ~ CanAddToChain(chain, Head(newBlocks), mergePoint)
  /\ addState' = AddedToParallelTop
  /\ Return
  /\ UNCHANGED <<database, running>>

-----------------------------------------------------------------------------
(***************************************************************************)
(* DeleteBlock, run by the dropblock command: possibly beside the daemon,  *)
(* in a process that checks first that there is a top hash.                *)
(***************************************************************************)
DropSaveTop ==
  /\ pc = "idle"
  /\ topHash \in blocks
  /\ block' = topHash
  /\ topHash' = Prev[topHash]
  /\ pc' = "dropBlock"
  /\ UNCHANGED <<inited, blocks, firstHash, chain, running, lastHash, reorg, addState>>

DropDeleteBlock ==
  /\ pc = "dropBlock"
  /\ blocks' = blocks \ {block}
  /\ pc' = "dropChain"
  /\ UNCHANGED <<inited, topHash, firstHash, chain, running, block, lastHash, reorg, addState>>

\* The error of RemoveFromChain is ignored.
DropRemoveFromChain ==
  /\ pc = "dropChain"
  /\ chain' = RemoveFromChain(chain, block)
  /\ Return
  /\ UNCHANGED <<inited, blocks, topHash, firstHash, running, addState>>

-----------------------------------------------------------------------------
\* The machine, or the process, dies.  What was written stays.
Crash ==
  /\ pc # "idle"
  /\ Return
  /\ running' = FALSE
  /\ addState' = Error
  /\ UNCHANGED database

-----------------------------------------------------------------------------
Create ==
  \/ InitDatabase \/ PutGenesis \/ SaveGenesisTop \/ SaveFirstHash
  \/ AddGenesisToChain \/ StartNode

UpdateChainOnNewBranch ==
  \/ WalkMissing \/ WalkNewBlock \/ WalkFound
  \/ RemoveOld \/ RemoveError \/ RemoveDone
  \/ AddNew \/ AddDone

AddBlock ==
  \/ \E b \in Hash : AddBlockExists(b) \/ AddBlockNoPrev(b) \/ AddBlockPut(b)
  \/ AddBlockNoTop \/ AddBlockParallel \/ AddBlockSaveTop \/ AddBlockToChain
  \/ UpdateChainOnNewBranch

DeleteBlock == DropSaveTop \/ DropDeleteBlock \/ DropRemoveFromChain

\* A node that never fails and whose operator drops no block.
Next == Create \/ AddBlock
Spec == Init /\ [][Next]_vars

\* The process may also die at any point, and is started again.
NextCrash == Next \/ Crash
SpecCrash == Init /\ [][NextCrash]_vars

\* The operator may also drop blocks.
NextAll == Next \/ DeleteBlock \/ Crash
SpecAll == Init /\ [][NextAll]_vars

(***************************************************************************)
(* An operation runs to its end: the code between two steps is sequential  *)
(* and the operation holds the database lock.  Nobody has to start one.    *)
(***************************************************************************)
Step ==
  \/ PutGenesis \/ SaveGenesisTop \/ SaveFirstHash \/ AddGenesisToChain
  \/ AddBlockNoTop \/ AddBlockParallel \/ AddBlockSaveTop \/ AddBlockToChain
  \/ UpdateChainOnNewBranch
FairSpec == Spec /\ WF_vars(Step)

-----------------------------------------------------------------------------
(***************************************************************************)
(* Properties.                                                             *)
(***************************************************************************)

\* Every variable has the type its field or local has in the code.
TypeOK ==
  /\ inited \in BOOLEAN
  /\ blocks \subseteq Hash
  /\ topHash \in Hash \cup {NoHash}
  /\ firstHash \in {Genesis, NoHash}
  /\ DOMAIN chain \subseteq Hash
  /\ chain \in [DOMAIN chain -> Location]
  /\ running \in BOOLEAN
  /\ pc \in PCs
  /\ block \in Hash \cup {NoHash}
  /\ lastHash \in Hash \cup {NoHash}
  /\ cur \in Hash \cup {NoHash}
  /\ newBlocks \in Seq(Hash)
  /\ mergePoint \in Hash \cup {NoHash}
  /\ remHash \in Hash \cup {NoHash}
  /\ addState \in Error .. NotAddedExists

(***************************************************************************)
(* Between operations the chain index holds the branch of the top hash and *)
(* nothing else, linked in both directions: "it keeps only main chain"     *)
(* (manager.go, AddBlock).  ChooseHashUnderTip, GetNextBlocks and all      *)
(* verification of transactions read it as that.                           *)
(***************************************************************************)
IndexIsMainChain ==
  pc = "idle" => IF topHash = NoHash THEN DOMAIN chain = {}
                                     ELSE IndexOf(chain, topHash)

(***************************************************************************)
(* Between operations no stored block is higher than the top block:        *)
(* AddBlock may not keep a higher branch aside.                            *)
(***************************************************************************)
TopIsHighest ==
  pc = "idle" /\ topHash # NoHash => \A b \in blocks : Height[b] <= Height[topHash]

(***************************************************************************)
(* UpdateChainOnNewBranch never meets a missing block (it would read       *)
(* block.Hash of a nil block), and neither of its loops is left with an    *)
(* error: after it, the top block is the end of the index.                 *)
(***************************************************************************)
ReorgCompletes ==
  /\ pc # "panic"
  /\ pc = "remove" /\ remHash # mergePoint => CanRemoveFromChain(chain, remHash)
  /\ pc = "add" => IF newBlocks = <<>> THEN mergePoint = topHash
                                       ELSE CanAddToChain(chain, Head(newBlocks), mergePoint)

(***************************************************************************)
(* At whatever point the process dies, the index is empty or is one whole  *)
(* branch, from the genesis block to some block.                           *)
(***************************************************************************)
IndexIsSomeBranch ==
  \/ DOMAIN chain = {}
  \/ \E t \in Hash : IndexOf(chain, t)

(***************************************************************************)
(* A block of the branch of the top hash that is in the index stays there: *)
(* the removal loop of UpdateChainOnNewBranch stops at the merge point, and*)
(* DeleteBlock takes away the top block only.                              *)
(***************************************************************************)
MainBlocksStayIndexed ==
  [][\A h \in DOMAIN chain :
       topHash' # NoHash /\ h \in Branch[topHash'] => h \in DOMAIN chain']_vars

(***************************************************************************)
(* The top hash never names a block that is not stored, and all blocks     *)
(* below it are stored too: a block is written before the top hash is.     *)
(***************************************************************************)
TopBranchIsStored ==
  topHash # NoHash => Branch[topHash] \subseteq blocks

(***************************************************************************)
(* Once the genesis block is in the index, the index is the branch of the  *)
(* top hash, also after a crash: AddBlock updates "chain records. it keeps *)
(* only main chain" (manager.go) after it has written the top hash.        *)
(***************************************************************************)
IndexFollowsTop ==
  pc = "idle" /\ Genesis \in DOMAIN chain /\ topHash # NoHash => IndexOf(chain, topHash)

(***************************************************************************)
(* Every AddBlock and every creation of a blockchain comes to its end.     *)
(***************************************************************************)
OperationEnds == pc # "idle" ~> pc = "idle"

(***************************************************************************)
(* AddBlock, as long as nothing fails, acts as one atomic step of the fork *)
(* choice rule.  A block counts as received once the top hash has been     *)
(* compared with it; the main chain is the index between operations.       *)
(***************************************************************************)
Creating == pc \in {"genesisPut", "genesisTop", "genesisFirst", "genesisChain"}

storedBar == IF Creating THEN {} ELSE IF pc = "put" THEN blocks \ {block} ELSE blocks
tipBar    == IF Creating THEN NoHash ELSE topHash
mainBar   == IF Creating THEN {}
             ELSE IF pc \in {"idle", "put"} THEN DOMAIN chain ELSE Branch[topHash]

Abstract == INSTANCE ForkChoice WITH stored <- storedBar, tip <- tipBar, main <- mainBar

AddBlockIsAtomic == Abstract!Spec
=============================================================================
