------------------------------- MODULE Ledger -------------------------------
(***************************************************************************)
(* What a node knows about transactions, beside its block store:           *)
(* the transactions index (node/transactions/index.go), the unspent        *)
(* outputs (unspent.go) and the pool of unapproved transactions            *)
(* (pending.go), kept up to date by Node.AddBlock                          *)
(* (node/nodemanager/node.go) through node/transactions/manager.go.        *)
(*                                                                         *)
(* Node.AddBlock verifies a block, hands it to AddBlock of the block store *)
(* (module Blockchain, step by step), and then brings the three buckets up *)
(* to date, one block at a time when another branch has become the main    *)
(* one.  It holds the database lock all the time.                          *)
(***************************************************************************)
EXTENDS BlockQueries

CONSTANTS
  Tx,       \* IDs of all transactions
  Ins,      \* Ins[t]: the inputs of t, pairs <<transaction, output index>>
  Outs,     \* Outs[t]: the indexes of the outputs of t
  Time,     \* Time[t]: when t was made
  Txs,      \* Txs[h]: the transactions of block h, in order
  MaxMinTx, \* MaxMinNumberTransactionInBlock (1000)
  MaxTx     \* MaxNumberTransactionInBlock (10000)

\* The one input of a coinbase names no transaction: it is left out of Ins.
IsCoinbase(t) == Ins[t] = <<>>

\* The transactions of a block; the outputs that a transaction, a set of them, spends.
TxsOf(h)  == Range(Txs[h])
InsOf(t)  == Range(Ins[t])
Spends(T) == UNION {InsOf(t) : t \in T}

(***************************************************************************)
(* A loop over the items of a list: what step makes of the accumulator and *)
(* each item in turn.  (FoldLeft as a recursive function, for the proofs.) *)
(***************************************************************************)
Loop(step(_, _), start, list) ==
  LET acc[i \in 0 .. Len(list)] == IF i = 0 THEN start ELSE step(acc[i - 1], list[i])
  IN  acc[Len(list)]

(***************************************************************************)
(* Signatures and amounts are right (Transaction.Verify looks at nothing   *)
(* else), and an input names an output of an older transaction.  Blocks    *)
(* come from other nodes: two transactions of a block may have an input in *)
(* common, and a transaction may be in a block twice.  The block maker     *)
(* makes no such block (DetectConflicts), VerifyBlock does not look for    *)
(* them.                                                                   *)
(***************************************************************************)
ASSUME LedgerAssumption ==
  /\ Txs \in [Hash -> Seq(Tx)]
  /\ Ins \in [Tx -> Seq(Tx \X Nat)]
  /\ Time \in [Tx -> Nat]
  /\ \A t \in Tx : \A i \in InsOf(t) :
       i[1] \in Tx /\ i[2] \in Outs[i[1]] /\ Time[i[1]] < Time[t]
  /\ \A t \in Tx : \A j, k \in DOMAIN Ins[t] : Ins[t][j] = Ins[t][k] => j = k
  /\ MaxMinTx \in Nat /\ MaxTx \in Nat

(***************************************************************************)
(* The genesis block has a coinbase only (prepareGenesisBlock), and no     *)
(* coinbase is in two blocks of a branch: MakeCoinbaseTX puts 20 random    *)
(* bytes in it, VerifyBlock does not look whether it is new.               *)
(***************************************************************************)
ASSUME CoinbaseAssumption ==
  /\ \A t \in TxsOf(Genesis) : IsCoinbase(t)
  /\ \A k \in Hash : \A h \in Branch[k] : \A t \in TxsOf(h) \cap TxsOf(k) :
       IsCoinbase(t) => h = k

VARIABLES
  txBlocks,  \* index: txBlocks[t], the blocks with transaction t, oldest first
  txSpent,   \* index: txSpent[t], the spent outputs of t: TransactionsIndexSpentOutputs
  utxo,      \* utxo[t]: the unspent outputs of t: TXOutputIndependent
  pool,      \* the unapproved transactions
  npc,       \* where Node.AddBlock is
  newBlock,  \* its block
  oldTop,    \* curLastHash
  oldChain,  \* blocks to take out of the primary chain, from the top down
  newChain,  \* blocks to put into the primary chain, from the base up
  past       \* history, for the properties: a set of the marks below

index      == <<txBlocks, txSpent>>
ledger     == <<index, utxo, pool>>
nodeLocals == <<npc, newBlock, oldTop, oldChain, newChain>>
nodeVars   == <<vars, ledger, nodeLocals, past>>

(***************************************************************************)
(* What the code does not cope with, and the properties except:            *)
(*   "beside"   dropblock or reindexcache was run while a block was stored *)
(*              that is not on the main chain;                             *)
(*   "twice"    a block came in that has a transaction twice;              *)
(*   "dropped"  dropblock was run, and reindexcache was not run since.     *)
(***************************************************************************)
Marks == {"beside", "twice", "dropped"}

MainOnly == "beside" \notin past
Tidy     == MainOnly /\ "twice" \notin past
Fresh    == Tidy /\ "dropped" \notin past

\* The mark of a command that is run now.
Beside == IF blocks = Branch[topHash] THEN {} ELSE {"beside"}

\* No transaction is in block b twice.
AllOnce(b) == \A j, k \in DOMAIN Txs[b] : Txs[b][j] = Txs[b][k] => j = k

-----------------------------------------------------------------------------
(***************************************************************************)
(* transactionsIndex                                                       *)
(***************************************************************************)

\* The records that block b adds for the outputs of transaction x.
SpendingsIn(b, x) ==
  UNION {{[out |-> i[2], by |-> t, block |-> b] : i \in {j \in InsOf(t) : j[1] = x}} :
           t \in TxsOf(b)}

\* A block that has t twice is in the list once here: nobody counts.
IndexBlockAdded(b) ==
  /\ txBlocks' = [t \in Tx |-> IF t \in TxsOf(b) THEN Append(txBlocks[t], b) ELSE txBlocks[t]]
  /\ txSpent' = [x \in Tx |-> txSpent[x] \cup SpendingsIn(b, x)]

\* The hashes of the list that are not b.
Without(list, b) == Loop(LAMBDA kept, h : IF h = b THEN kept ELSE Append(kept, h), <<>>, list)

\* BlockRemoved takes away every record of an output that the block spends,
\* those of blocks on other branches too.
IndexBlockRemoved(b) ==
  /\ txBlocks' = [t \in Tx |-> Without(txBlocks[t], b)]
  /\ txSpent' = [x \in Tx |-> {r \in txSpent[x] : <<x, r.out>> \notin Spends(TxsOf(b))}]

\* Reindex: the blocks of the main chain only, from the top down.
IndexReindex ==
  /\ txBlocks' = [t \in Tx |-> Descending({h \in Branch[topHash] : t \in TxsOf(h)})]
  /\ txSpent' = [x \in Tx |-> UNION {SpendingsIn(h, x) : h \in Branch[topHash]}]

\* GetTranactionOutputsSpent: outputs of x, a transaction of block `bottom`,
\* that are spent up to the tip.
GetTranactionOutputsSpent(x, bottom, tip) ==
  {r.out : r \in {s \in txSpent[x] : CheckBlockIsInRange(s.block, bottom, tip)}}

\* One record whose block cannot be placed is enough for an error.
OutputsSpentFails(x, bottom, tip) ==
  \E s \in txSpent[x] : CheckBlockFails(s.block, bottom, tip)

\* The block of x under the tip; NoHash when there is none.
BlockOf(x, tip) == ChooseHashUnderTip(txBlocks[x], tip)

\* GetTransactionAllInfo, getInputTransactionsState: whether x is found under
\* the tip, with what is spent of it.  (The block that was chosen is stored
\* and has x.)
LookUp(x, tip) ==
  IF ChooseHashFails(txBlocks[x], tip) THEN "error"
  ELSE IF BlockOf(x, tip) = NoHash THEN "none"
  ELSE IF OutputsSpentFails(x, BlockOf(x, tip), tip) THEN "error"
  ELSE "found"

-----------------------------------------------------------------------------
(***************************************************************************)
(* unspentTransactions                                                     *)
(***************************************************************************)
Unspents(t, b, outs, base) == {[out |-> o, block |-> b, base |-> base] : o \in outs}

\* One round of the loop of UpdateOnBlockAdd.
UtxoAddTx_keepInputs(u, t, b) ==
  [u EXCEPT ![t] = Unspents(t, b, Outs[t], IsCoinbase(t))]

UtxoAddTx(u, t, b) ==
  [x \in Tx |-> IF x = t THEN Unspents(t, b, Outs[t], IsCoinbase(t))
                ELSE {r \in u[x] : <<x, r.out>> \notin InsOf(t)}]

UpdateOnBlockAdd(u, b) == Loop(LAMBDA acc, t : UtxoAddTx(acc, t, b), u, Txs[b])

(***************************************************************************)
(* One round of the loop of UpdateOnBlockCancel.  The inputs are looked up *)
(* under the block before b; the first one whose transaction is not found  *)
(* there ends the loop over the inputs.                                    *)
(***************************************************************************)
FoundUpTo(t, b, j) == \A k \in 1 .. j : LookUp(Ins[t][k][1], Prev[b]) = "found"

RestoredInputs(t, b) == {Ins[t][i][1] : i \in {j \in DOMAIN Ins[t] : FoundUpTo(t, b, j)}}

UtxoCancelTx(u, t, b) ==
  [x \in Tx |->
     IF x \in RestoredInputs(t, b)
     THEN LET h == BlockOf(x, Prev[b])
          IN  Unspents(x, h, Outs[x] \ GetTranactionOutputsSpent(x, h, Prev[b]), FALSE)
     ELSE IF x = t THEN {} ELSE u[x]]

(***************************************************************************)
(* An input that is looked up with an error ends all of it: transactions   *)
(* after that one stay as they are.  Nobody looks at the error.            *)
(* dropblock always meets it when it has such an input: the index still    *)
(* says that the deleted block spends it.                                  *)
(***************************************************************************)
CancelFails(t, b) ==
  \E j \in DOMAIN Ins[t] : FoundUpTo(t, b, j - 1) /\ LookUp(Ins[t][j][1], Prev[b]) = "error"

CancelledTxs(b) ==
  {i \in DOMAIN Txs[b] : \A j \in 1 .. i - 1 : ~ CancelFails(Txs[b][j], b)}

UpdateOnBlockCancel(u, b) ==
  Loop(LAMBDA acc, t : UtxoCancelTx(acc, t, b), u, SubSeq(Txs[b], 1, Cardinality(CancelledTxs(b))))

\* The transactions of the main chain that come after the j-th one of block h.
After(h, j) ==
  UNION {{Txs[k][n] : n \in {m \in DOMAIN Txs[k] : Height[k] > Height[h] \/ m > j}} :
           k \in {l \in Branch[topHash] : Height[l] >= Height[h]}}

(***************************************************************************)
(* Reindex stores what FindunspentTransactions finds: it goes down the     *)
(* main chain, in each block from the last transaction to the first, and   *)
(* keeps the outputs whose spending it has not met so far.                 *)
(***************************************************************************)
FindunspentTransactions(t) ==
  UNION {UNION {Unspents(t, h, {o \in Outs[t] : <<t, o>> \notin Spends(After(h, j))}, IsCoinbase(t)) :
                  j \in {i \in DOMAIN Txs[h] : Txs[h][i] = t}} :
           h \in Branch[topHash]}

UtxoReindex == utxo' = [t \in Tx |-> FindunspentTransactions(t)]

-----------------------------------------------------------------------------
(***************************************************************************)
(* unApprovedTransactions                                                  *)
(***************************************************************************)

\* DetectConflictsForNew finds a transaction of the pool with a common input.
Conflicts(p, t) == \E u \in p : InsOf(u) \cap InsOf(t) # {}

Add_unchecked(p, t) == p \cup {t}

Add(p, t) == IF Conflicts(p, t) THEN p ELSE p \cup {t}

DeleteFromBlock_none(p, b) == p

DeleteFromBlock(p, b) == p \ {t \in TxsOf(b) : ~ IsCoinbase(t)}

AddFromCanceled_coinbaseToo(p, b) == Loop(LAMBDA acc, t : Add(acc, t), p, Txs[b])

AddFromCanceled(p, b) ==
  Loop(LAMBDA acc, t : IF IsCoinbase(t) THEN acc ELSE Add(acc, t), p, Txs[b])

(***************************************************************************)
(* DetectConflicts: a transaction is bad when one before it in the list    *)
(* has used one of its inputs; the inputs before that one count as used.   *)
(***************************************************************************)
DetectConflicts(list) ==
  LET check(acc, t) ==
        LET free == {i \in DOMAIN Ins[t] : \A j \in 1 .. i : Ins[t][j] \notin acc.used}
            used == acc.used \cup {Ins[t][i] : i \in free}
        IN  IF free = DOMAIN Ins[t]
            THEN [good |-> Append(acc.good, t), bad |-> acc.bad, used |-> used]
            ELSE [good |-> acc.good, bad |-> acc.bad \cup {t}, used |-> used]
  IN  Loop(check, [good |-> <<>>, bad |-> {}, used |-> {}], list)

-----------------------------------------------------------------------------
(***************************************************************************)
(* txManager: verification                                                 *)
(***************************************************************************)

\* getInputTransactionsState, for one input.
InputState(i, tip) ==
  IF LookUp(i[1], tip) # "found" THEN LookUp(i[1], tip)
  ELSE IF i[2] \in GetTranactionOutputsSpent(i[1], BlockOf(i[1], tip), tip) THEN "spent"
  ELSE "unspent"

\* CheckInputsWereBefore, CheckInputsArePrepared: the transaction of the input is
\* one of those before it in the block, or in the pool.
WereBefore(i, before) == i[1] \in before
ArePrepared(i)        == i[1] \in pool

(***************************************************************************)
(* VerifyTransaction(tx, prevtxs, tip).  An input is found in the chain    *)
(* under the tip, and then must not be spent there, or is one of prevtxs.  *)
(* An error is as bad.                                                     *)
(***************************************************************************)
VerifyTransaction_anySpent(t, before, tip) ==
  \A i \in InsOf(t) : BlockOf(i[1], tip) # NoHash \/ i[1] \in before

VerifyTransaction(t, before, tip) ==
  \A i \in InsOf(t) :
    InputState(i, tip) = "unspent" \/ (InputState(i, tip) = "none" /\ WereBefore(i, before))

\* VerifyTransactionsOutputsAreNotSpent: an input is one of the unspent outputs,
\* whose transaction is then read from the block that the record names, or is
\* prepared.
InputsAreFound(I) ==
  \A i \in I :
    LET found == {r \in utxo[i[1]] : r.out = i[2]}
    IN  IF found # {} THEN \A r \in found : r.block \in blocks /\ i[1] \in TxsOf(r.block)
                      ELSE ArePrepared(i)

VerifyTransactionQuick(t) == InputsAreFound(InsOf(t))

\* getTransactionNumbersLimits: the lower limit for a block of this height.
MinTxOf(height) == IF height > MaxMinTx THEN MaxMinTx ELSE IF height < 1 THEN 1 ELSE height

(***************************************************************************)
(* VerifyBlock (consensus/manager.go), but for the proof of work.          *)
(***************************************************************************)
VerifyBlock(b) ==
  /\ Len(Txs[b]) - 1 >= MinTxOf(Height[b])
  /\ Len(Txs[b]) - 1 <= MaxTx
  /\ \E t \in TxsOf(b) : IsCoinbase(t)
  /\ \A i, j \in DOMAIN Txs[b] : IsCoinbase(Txs[b][i]) /\ IsCoinbase(Txs[b][j]) => i = j
  /\ \A i \in DOMAIN Txs[b] :
       VerifyTransaction(Txs[b][i], {Txs[b][j] : j \in 1 .. i - 1}, Prev[b])

\* Transactions read from the pool come as a list, the oldest first.
OldestFirst(T) ==
  CHOOSE s \in [1 .. Cardinality(T) -> T] :
    Range(s) = T /\ \A i, j \in DOMAIN s : i < j => Time[s[i]] <= Time[s[j]]

ValidOf_unverified(T) == OldestFirst(T)

(***************************************************************************)
(* GetUnapprovedTransactionsForNewBlock: of the transactions T read from   *)
(* the pool, oldest first, those that verify against the main chain and    *)
(* the ones before them.                                                   *)
(***************************************************************************)
ValidOf(T) ==
  Loop(LAMBDA acc, t : IF VerifyTransaction(t, Range(acc), NoHash) THEN Append(acc, t) ELSE acc,
       <<>>, OldestFirst(T))

TransactionsForNewBlock(T) == DetectConflicts(ValidOf(T)).good

-----------------------------------------------------------------------------
(***************************************************************************)
(* The node.  The blockchain was created (addFirstBlock: the genesis block *)
(* is on top and in the three buckets) and the daemon started.             *)
(***************************************************************************)
NodeInit ==
  /\ inited = TRUE
  /\ blocks = {Genesis}
  /\ topHash = Genesis
  /\ firstHash = Genesis
  /\ chain = AddToChain(EmptyBucket, Genesis, NoHash)
  /\ running = TRUE
  /\ pc = "idle"
  /\ block = NoHash /\ lastHash = NoHash
  /\ cur = NoHash /\ newBlocks = <<>> /\ mergePoint = NoHash /\ remHash = NoHash
  /\ addState = Error
  /\ txBlocks = [t \in Tx |-> IF t \in TxsOf(Genesis) THEN <<Genesis>> ELSE <<>>]
  /\ txSpent = [t \in Tx |-> {}]
  /\ utxo = UpdateOnBlockAdd([t \in Tx |-> {}], Genesis)
  /\ pool = {}
  /\ npc = "idle"
  /\ newBlock = NoHash /\ oldTop = NoHash /\ oldChain = <<>> /\ newChain = <<>>
  /\ past = {}

NodeReturn ==
  /\ npc' = "idle"
  /\ newBlock' = NoHash /\ oldTop' = NoHash /\ oldChain' = <<>> /\ newChain' = <<>>

\* A block comes in: CheckBlockState, VerifyBlock, AddBlock.
NodeAddBlock(b) ==
  /\ npc = "idle"
  /\ AddBlockPut(b)
  /\ VerifyBlock(b)
  /\ npc' = "adding"
  /\ newBlock' = b
  /\ oldTop' = topHash
  /\ past' = IF AllOnce(b) THEN past ELSE past \cup {"twice"}
  /\ UNCHANGED <<ledger, oldChain, newChain>>

\* A block that is known, has no predecessor or is not valid changes nothing.
NodeRejectBlock(b) ==
  /\ npc = "idle"
  /\ b \notin blocks /\ Prev[b] \in blocks => ~ VerifyBlock(b)
  /\ UNCHANGED nodeVars

\* AddBlock of the block store goes on.
StoreStep ==
  /\ npc = "adding"
  /\ \/ AddBlockNoTop \/ AddBlockParallel \/ AddBlockSaveTop \/ AddBlockToChain
     \/ UpdateChainOnNewBranch
  /\ UNCHANGED <<ledger, nodeLocals, past>>

\* AddBlock returned: BlockAdded(block, addstate == addedToTop).
NodeBlockAdded ==
  /\ npc = "adding"
  /\ pc = "idle"
  /\ addState # Error
  /\ IndexBlockAdded(newBlock)
  /\ IF addState = AddedToTop
     THEN /\ pool' = DeleteFromBlock(pool, newBlock)
          /\ utxo' = UpdateOnBlockAdd(utxo, newBlock)
     ELSE UNCHANGED <<pool, utxo>>
  /\ IF addState # AddedToParallelTop THEN NodeReturn
     ELSE /\ UNCHANGED <<newBlock, oldTop>>
          /\ IF ReplacementPanics(oldTop, topHash)
             THEN npc' = "died" /\ UNCHANGED <<oldChain, newChain>>
             ELSE LET r == GetBranchesReplacement(oldTop, topHash)
                  IN  npc' = "replace" /\ newChain' = r.main /\ oldChain' = r.side
  /\ UNCHANGED <<vars, past>>

(***************************************************************************)
(* The process has died: a stored branch lacks a block, or the old top was *)
(* the genesis block, for which there is no replacement.  Either takes a   *)
(* dropped block and another branch.  The model ends here.                 *)
(***************************************************************************)
NodeHasDied ==
  /\ npc = "died" \/ pc = "panic"
  /\ UNCHANGED nodeVars

\* BlockRemovedFromPrimaryChain
CancelOld ==
  /\ npc = "replace"
  /\ oldChain # <<>>
  /\ pool' = AddFromCanceled(pool, Head(oldChain))
  /\ utxo' = UpdateOnBlockCancel(utxo, Head(oldChain))
  /\ oldChain' = Tail(oldChain)
  /\ UNCHANGED <<vars, index, npc, newBlock, oldTop, newChain, past>>

\* BlockAddedToPrimaryChain
AttachNew ==
  /\ npc = "replace"
  /\ oldChain = <<>>
  /\ newChain # <<>>
  /\ pool' = DeleteFromBlock(pool, Head(newChain))
  /\ utxo' = UpdateOnBlockAdd(utxo, Head(newChain))
  /\ newChain' = Tail(newChain)
  /\ UNCHANGED <<vars, index, npc, newBlock, oldTop, oldChain, past>>

ReplaceDone ==
  /\ npc = "replace"
  /\ oldChain = <<>> /\ newChain = <<>>
  /\ NodeReturn
  /\ UNCHANGED <<vars, ledger, past>>

\* A new transaction of a client (handleTxFull, handleTxData) is verified and
\* goes to the pool.  A coinbase has no input that could be found.
ReceivedNewTransaction(t) ==
  /\ npc = "idle"
  /\ ~ IsCoinbase(t)
  /\ VerifyTransactionQuick(t)
  /\ ~ Conflicts(pool, t)
  /\ pool' = Add(pool, t)
  /\ UNCHANGED <<vars, index, utxo, nodeLocals, past>>

GetIfExists(t) == t \in pool \/ BlockOf(t, NoHash) # NoHash

\* One that another node sent is looked up first.
HandleTx(t) ==
  /\ npc = "idle"
  /\ IF GetIfExists(t) THEN UNCHANGED nodeVars ELSE ReceivedNewTransaction(t)

\* GetTransactions(MaxTx): what the cursor returns until the limit is reached.
GetTransactions ==
  {T \in SUBSET pool :
     Cardinality(T) = IF Cardinality(pool) > MaxTx THEN MaxTx ELSE Cardinality(pool)}

\* PrepareNewBlock of the block maker reads at most MaxTx transactions and
\* cancels those it cannot use.  The block comes in later, as any other does.
PrepareNewBlock ==
  /\ npc = "idle"
  /\ Cardinality(pool) >= MinTxOf(Height[topHash] + 1)
  /\ \E T \in GetTransactions : pool' = (pool \ T) \cup Range(TransactionsForNewBlock(T))
  /\ UNCHANGED <<vars, index, utxo, nodeLocals, past>>

(***************************************************************************)
(* Commands of the operator: dropblock, reindexcache, canceltransaction,   *)
(* and unapprovedtransactions with the flag to clean the pool.             *)
(* Node.DropBlock has the block store delete its top block, and then       *)
(* brings the three buckets up to date (BlockRemoved).  Without its        *)
(* genesis block there is no blockchain: what a node then does is not      *)
(* modelled.                                                               *)
(***************************************************************************)
NodeDropBlock ==
  /\ npc = "idle"
  /\ topHash # Genesis
  /\ DropSaveTop
  /\ npc' = "dropping"
  /\ newBlock' = topHash
  /\ past' = past \cup {"dropped"} \cup Beside
  /\ UNCHANGED <<ledger, oldTop, oldChain, newChain>>

StoreDrops ==
  /\ npc = "dropping"
  /\ DropDeleteBlock \/ DropRemoveFromChain
  /\ UNCHANGED <<ledger, nodeLocals, past>>

NodeBlockRemoved ==
  /\ npc = "dropping"
  /\ pc = "idle"
  /\ pool' = AddFromCanceled(pool, newBlock)
  /\ utxo' = UpdateOnBlockCancel(utxo, newBlock)
  /\ IndexBlockRemoved(newBlock)
  /\ NodeReturn
  /\ UNCHANGED <<vars, past>>

ReindexData ==
  /\ npc = "idle"
  /\ IndexReindex
  /\ UtxoReindex
  /\ past' = (past \ {"dropped"}) \cup Beside
  /\ UNCHANGED <<vars, pool, nodeLocals>>

CancelTransaction(t) ==
  /\ npc = "idle"
  /\ t \in pool
  /\ pool' = pool \ {t}
  /\ UNCHANGED <<vars, index, utxo, nodeLocals, past>>

CleanUnapprovedCache ==
  /\ npc = "idle"
  /\ pool' = {}
  /\ UNCHANGED <<vars, index, utxo, nodeLocals, past>>

NodeNext ==
  \/ NodeDropBlock \/ StoreDrops \/ NodeBlockRemoved
  \/ ReindexData
  \/ CleanUnapprovedCache \/ \E t \in Tx : CancelTransaction(t)
  \/ \E b \in Hash : NodeAddBlock(b) \/ NodeRejectBlock(b)
  \/ StoreStep \/ NodeBlockAdded \/ CancelOld \/ AttachNew \/ ReplaceDone
  \/ NodeHasDied
  \/ \E t \in Tx : ReceivedNewTransaction(t) \/ HandleTx(t)
  \/ PrepareNewBlock

NodeSpec == NodeInit /\ [][NodeNext]_nodeVars

-----------------------------------------------------------------------------
(***************************************************************************)
(* Properties.                                                             *)
(***************************************************************************)
UtxoRecord == [out : UNION {Outs[t] : t \in Tx}, block : Hash, base : BOOLEAN]

\* Every bucket and local has its type.
NodeTypeOK ==
  /\ TypeOK
  /\ txBlocks \in [Tx -> Seq(Hash)]
  /\ \A t \in Tx : txSpent[t] \subseteq [out : Outs[t], by : Tx, block : Hash]
  /\ utxo \in [Tx -> SUBSET UtxoRecord]
  /\ pool \subseteq {t \in Tx : ~ IsCoinbase(t)}
  /\ npc \in {"idle", "adding", "replace", "dropping", "died"}
  /\ newBlock \in Hash \cup {NoHash} /\ oldTop \in Hash \cup {NoHash}
  /\ oldChain \in Seq(Hash) /\ newChain \in Seq(Hash)
  /\ past \subseteq Marks

NodeIdle == npc = "idle" /\ running

\* The transactions of the branch of block h.
TxsOnBranch(h) == UNION {TxsOf(k) : k \in Branch[h]}

\* On the branch of h no output is spent in two blocks, and none that the
\* branch does not have.
BranchIsSound(h) ==
  /\ \A k, l \in Branch[h] : k # l => Spends(TxsOf(k)) \cap Spends(TxsOf(l)) = {}
  /\ \A t \in TxsOnBranch(h) : \A i \in InsOf(t) : i[1] \in TxsOnBranch(h)

(***************************************************************************)
(* On no branch, the main one or another, is an output spent in two blocks *)
(* or an output spent that the branch does not have: VerifyBlock lets no   *)
(* such block in, whichever branch is the main one.  It does not look for  *)
(* two spendings within the block.  And the index must know all that is    *)
(* stored: dropblock and reindexcache make it forget the spendings of      *)
(* other branches than the main one, and then it does not hold.            *)
(***************************************************************************)
NoDoubleSpend == MainOnly => \A h \in blocks : BranchIsSound(h)

(***************************************************************************)
(* Between operations an output that the node counts as unspent is one     *)
(* that nothing on the main chain spends; after dropblock too, which takes *)
(* back less than it should.  Unless a block was dropped, its record names *)
(* a block of the main chain that has the transaction: after dropblock     *)
(* there are records of the dropped block, until reindexcache is run.      *)
(* Excepted are the commands beside another branch, as above, and blocks   *)
(* with a transaction twice: the second one brings back what was spent     *)
(* after the first.                                                        *)
(***************************************************************************)
UtxoIsUnspentOnMain ==
  NodeIdle /\ Tidy =>
    \A t \in Tx : \A r \in utxo[t] :
      /\ <<t, r.out>> \notin Spends(TxsOnBranch(topHash))
      /\ Fresh => r.block \in Branch[topHash] /\ t \in TxsOf(r.block)

(***************************************************************************)
(* No two transactions of the pool have an input in common, also after     *)
(* transactions of a branch that was left came back to it.                 *)
(***************************************************************************)
PoolHasNoConflicts ==
  \A t, u \in pool : t # u => InsOf(t) \cap InsOf(u) = {}

(***************************************************************************)
(* Between operations no transaction of the pool is on the main chain:     *)
(* neither one that was cancelled and is in the new branch as well, nor    *)
(* one that came in before its block.  Excepted are the commands beside    *)
(* another branch (GetBranchesReplacement then finds nothing to replace    *)
(* when the old top is below the new one) and blocks with a transaction    *)
(* twice.                                                                  *)
(***************************************************************************)
PoolIsUnconfirmed == NodeIdle /\ Tidy => pool \cap TxsOnBranch(topHash) = {}

(***************************************************************************)
(* The transactions that the block maker takes pass the verification of a  *)
(* block on top of the main chain, and no two of them have an input in     *)
(* common, which no verification looks for: the node accepts the block it  *)
(* makes, and that block spends nothing twice.                             *)
(***************************************************************************)
OwnBlockVerifies ==
  NodeIdle /\ Tidy =>
    LET list == TransactionsForNewBlock(pool)
    IN  \A i \in DOMAIN list :
          /\ VerifyTransaction(list[i], {list[j] : j \in 1 .. i - 1}, topHash)
          /\ \A j \in 1 .. i - 1 : InsOf(list[i]) \cap InsOf(list[j]) = {}

(***************************************************************************)
(* A block that spends only what is unspent on its branch is accepted:     *)
(* "Verification is done agains blockchain branch starting from prevblock, *)
(* not current top branch" (consensus/manager.go, VerifyBlock, rule 0).    *)
(***************************************************************************)
ValidOnBranch(b) ==
  \A i \in DOMAIN Txs[b] :
    LET below == TxsOnBranch(Prev[b])
        prior == below \cup {Txs[b][j] : j \in 1 .. i - 1}
    IN  /\ \A in \in InsOf(Txs[b][i]) : in[1] \in prior
        /\ InsOf(Txs[b][i]) \cap Spends(below) = {}

ValidBlockIsAccepted ==
  NodeIdle /\ Tidy =>
    \A b \in Hash \ {Genesis} :
      b \notin blocks /\ Prev[b] \in blocks /\ ValidOnBranch(b) => VerifyBlock(b)
=============================================================================
