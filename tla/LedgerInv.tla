----------------------------- MODULE LedgerInv -----------------------------
(***************************************************************************)
(* The inductive invariant of a node (Ledger!NodeSpec) that its            *)
(* verification of blocks rests on: what the transactions index holds at   *)
(* each point of Node.AddBlock and Node.DropBlock.                         *)
(***************************************************************************)
EXTENDS Ledger, BlockchainInv

(***************************************************************************)
(* The blocks that the transactions index knows: while a block is added    *)
(* the index is behind the block store, and so it is while one is dropped. *)
(***************************************************************************)
Indexed ==
  IF npc = "adding" THEN blocks \ {newBlock}
  ELSE IF npc = "dropping" THEN blocks \cup {newBlock}
  ELSE blocks

\* The block store is a created one, in an operation only when the node is.
StoreInv ==
  /\ npc \in {"idle", "adding", "replace", "dropping", "died"}
  /\ inited /\ ~ Creating
  /\ IInv \/ (npc = "dropping" /\ pc # "idle")
  /\ npc \in {"idle", "replace", "died"} => pc = "idle"
  /\ npc = "adding" => newBlock \in blocks

(***************************************************************************)
(* While the top block is dropped there is one branch only (MainOnly): the *)
(* index of the chain is taken down last.                                  *)
(***************************************************************************)
DropInv ==
  npc = "dropping" =>
    /\ TypeOK
    /\ newBlock \in Hash \ {Genesis}
    /\ topHash = Prev[newBlock]
    /\ pc \in {"dropBlock", "dropChain", "idle"}
    /\ pc # "idle" => block = newBlock /\ IndexOf(chain, newBlock)
    /\ blocks = Branch[IF pc = "dropBlock" THEN newBlock ELSE topHash]
    /\ BranchIsSound(newBlock)

(***************************************************************************)
(* The index finds the blocks of every transaction, on every branch, and   *)
(* every spending of an output; it names no block that it does not know.   *)
(***************************************************************************)
IndexInv ==
  /\ txBlocks \in [Tx -> Seq(Hash)]
  /\ \A t \in Tx : Range(txBlocks[t]) = {h \in Indexed : t \in TxsOf(h)}
  /\ \A h \in Indexed, x \in Tx : SpendingsIn(h, x) \subseteq txSpent[x]
  /\ \A x \in Tx : \A r \in txSpent[x] : r.block \in Indexed /\ r \in SpendingsIn(r.block, x)

IntactInv ==
  /\ StoreInv
  /\ DropInv
  /\ IndexInv
  /\ \A h \in blocks : BranchIsSound(h)

\* It holds as long as the index was not made to forget other branches.
NodeInv == MainOnly => IntactInv

-----------------------------------------------------------------------------
(***************************************************************************)
(* The unspent outputs and the pool follow the main chain with a delay:    *)
(* UtxoTip is the block whose branch they stand for.  While a branch is    *)
(* replaced it goes down to the base of the two branches and up again.     *)
(***************************************************************************)
Base == IF newChain # <<>> THEN Prev[Head(newChain)] ELSE topHash

UtxoTip ==
  IF npc = "adding" THEN oldTop
  ELSE IF npc = "dropping" THEN newBlock
  ELSE IF npc = "replace" THEN IF oldChain # <<>> THEN Head(oldChain) ELSE Base
  ELSE topHash

\* What AddBlock of the block store has made of the block so far.
AddingInv ==
  npc = "adding" =>
    /\ newBlock \in blocks \ {Genesis}
    /\ oldTop \in blocks \ {newBlock}
    /\ pc \in {"put", "toChain", "walk", "remove", "add"} => block = newBlock
    /\ pc = "put" => topHash = oldTop
    /\ pc = "toChain" => topHash = newBlock /\ Prev[newBlock] = oldTop
    /\ pc \in {"walk", "remove", "add"} => topHash = newBlock /\ oldTop \notin Branch[newBlock]
    /\ pc = "idle" =>
         \/ addState = AddedToTop /\ topHash = newBlock /\ Prev[newBlock] = oldTop
         \/ addState = AddedToParallelTop /\ topHash = newBlock /\ oldTop \notin Branch[newBlock]
         \/ addState = AddedToParallel /\ topHash = oldTop

\* What is left to undo leads down to the base, what is left to do up from it.
ReplaceInv ==
  IF npc = "replace"
  THEN /\ oldChain \in Seq(blocks) /\ newChain \in Seq(blocks)
       /\ Base \in blocks
       /\ PathDown(oldChain, UtxoTip, Base)
       /\ PathUp(newChain, Base, topHash)
  ELSE oldChain = <<>> /\ newChain = <<>>

LocalsInv ==
  /\ npc # "died"
  /\ npc = "dropping" => "dropped" \in past
  /\ newBlock \in Hash \cup {NoHash} /\ oldTop \in Hash \cup {NoHash}
  /\ AddingInv
  /\ ReplaceInv

(***************************************************************************)
(* A transaction of a block that spends an output of the same block comes  *)
(* after the transaction of that output.                                   *)
(***************************************************************************)
BlockIsOrdered(b) ==
  \A m, n \in DOMAIN Txs[b] : \A i \in InsOf(Txs[b][n]) : Txs[b][m] = i[1] => m < n

\* The transactions of a set of blocks.
TxsIn(B) == UNION {TxsOf(k) : k \in B}

\* The records of outputs of t that the blocks B do not spend, and those that
\* name a block of B with t.
Unspent(B, t) ==
  {r \in UtxoRecord : r.out \in Outs[t] /\ <<t, r.out>> \notin Spends(TxsIn(B))}

Placed(B, t) == {r \in UtxoRecord : r.block \in B /\ t \in TxsOf(r.block)}

\* Dropped blocks leave records behind, of outputs that nothing spends.
UtxoInv ==
  /\ utxo \in [Tx -> SUBSET UtxoRecord]
  /\ \A t \in Tx : utxo[t] \subseteq Unspent(Branch[UtxoTip], t)
  /\ Fresh => \A t \in Tx : utxo[t] \subseteq Placed(Branch[UtxoTip], t)

(***************************************************************************)
(* A pool that a block can be made from: no coinbase, and no two           *)
(* transactions that exclude each other.                                   *)
(***************************************************************************)
GoodPools ==
  {p \in SUBSET {t \in Tx : ~ IsCoinbase(t)} :
     /\ IsFiniteSet(p)
     /\ \A t, u \in p : t # u => InsOf(t) \cap InsOf(u) = {}}

PoolInv == pool \in GoodPools /\ pool \cap TxsOnBranch(UtxoTip) = {}

OrderInv == \A b \in blocks : BlockIsOrdered(b)

TidyInv == IntactInv /\ LocalsInv /\ OrderInv /\ UtxoInv /\ PoolInv

LedgerInvariant == NodeInv /\ (Tidy => TidyInv)
=============================================================================
