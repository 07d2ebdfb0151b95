--------------------------- MODULE BlockchainInv ---------------------------
(***************************************************************************)
(* The inductive invariant of the block store (of Blockchain!Spec: no      *)
(* crash, no dropped block).  It says, for every point of an operation,    *)
(* which branch the chain index then holds and what is left to do.         *)
(***************************************************************************)
EXTENDS Blockchain

\* The blocks that the fork choice has been made among.
Compared == IF pc = "put" THEN blocks \ {block} ELSE blocks

\* s runs down the tree, from block `from` to a child of `to`.
PathDown(s, from, to) ==
  IF s = <<>>
  THEN from = to
  ELSE /\ s[1] = from
       /\ \A i \in 1 .. Len(s) - 1 : Prev[s[i]] = s[i + 1]
       /\ Prev[s[Len(s)]] = to

\* s runs up the tree, from a child of block `from` to `to`.
PathUp(s, from, to) ==
  IF s = <<>>
  THEN from = to
  ELSE /\ Prev[s[1]] = from
       /\ \A i \in 1 .. Len(s) - 1 : Prev[s[i + 1]] = s[i]
       /\ s[Len(s)] = to

(***************************************************************************)
(* Before and during creation: the database is filled step by step.        *)
(***************************************************************************)
CreateInv ==
  /\ running => inited
  /\ ~ inited => pc = "idle"
  /\ ~ inited \/ pc = "genesisPut" => blocks = {} /\ topHash = NoHash
  /\ pc = "genesisTop" => blocks = {Genesis} /\ topHash = NoHash
  /\ pc \in {"genesisFirst", "genesisChain"} => blocks = {Genesis} /\ topHash = Genesis
  /\ ~ inited \/ Creating => DOMAIN chain = {}

(***************************************************************************)
(* A created blockchain: the stored blocks form a tree that hangs on the   *)
(* genesis block, and the top block is the highest of them.                *)
(***************************************************************************)
TreeInv ==
  inited /\ ~ Creating =>
    /\ Closed(blocks)
    /\ \A b \in blocks : Genesis \in Branch[b]
    /\ topHash \in Compared
    /\ \A b \in Compared : Height[b] <= Height[topHash]

(***************************************************************************)
(* Between operations, and until the top hash is written, the index holds  *)
(* the main branch.                                                        *)
(***************************************************************************)
IdleInv ==
  inited /\ pc \in {"idle", "put"} => IndexOf(chain, topHash)

PutInv ==
  /\ pc = "put" => block \in blocks /\ block # Genesis
  /\ pc \in {"idle", "put"} \/ Creating => newBlocks = <<>>

\* The top block changed, the index still holds the old main branch.
ToChainInv ==
  pc = "toChain" =>
    /\ topHash = block
    /\ block # Genesis
    /\ IndexOf(chain, Prev[block])

(***************************************************************************)
(* UpdateChainOnNewBranch: newBlocks and cur are the way down from the top *)
(* block; the index holds the branch of lastHash, of remHash while it is   *)
(* taken down to the merge point, of the merge point while it is built up. *)
(***************************************************************************)
WalkInv ==
  pc = "walk" =>
    /\ topHash = block
    /\ lastHash \in blocks
    /\ Height[lastHash] < Height[block]
    /\ lastHash \notin Branch[block]
    /\ IndexOf(chain, lastHash)
    /\ cur \in blocks
    /\ PathDown(newBlocks, block, cur)

RemoveInv ==
  pc = "remove" =>
    /\ topHash = block
    /\ remHash \in Hash
    /\ IndexOf(chain, remHash)
    /\ mergePoint \in Branch[remHash]
    /\ PathDown(newBlocks, block, mergePoint)

AddInv ==
  pc = "add" =>
    /\ topHash = block
    /\ mergePoint \in Hash
    /\ IndexOf(chain, mergePoint)
    /\ PathUp(newBlocks, mergePoint, block)

NoDropNoPanic == pc \notin {"dropBlock", "dropChain", "panic"}

(***************************************************************************)
(* The state of AddBlock agrees with the chain index at each of its steps. *)
(***************************************************************************)
IInv ==
  /\ TypeOK
  /\ CreateInv
  /\ TreeInv
  /\ IdleInv
  /\ PutInv
  /\ ToChainInv
  /\ WalkInv
  /\ RemoveInv
  /\ AddInv
  /\ NoDropNoPanic

\* Once the genesis block is created the record of the first hash is there.
FirstInv ==
  inited /\ pc \notin {"genesisPut", "genesisTop", "genesisFirst"} => firstHash = Genesis

(***************************************************************************)
(* What a crash leaves intact: no stored block lacks its predecessor, and  *)
(* what the top hash is, or is about to be, is stored.  This is inductive  *)
(* also when the process may die at any step.                              *)
(***************************************************************************)
StoredInv ==
  /\ blocks \subseteq Hash
  /\ Closed(blocks)
  /\ topHash # NoHash => topHash \in blocks
  /\ pc = "put" => block \in blocks
  /\ pc = "genesisTop" => Genesis \in blocks

(***************************************************************************)
(* The index through crashes and dropped blocks (SpecAll).  The top hash   *)
(* may then be ahead of the index or behind it, and blocks below it may be *)
(* missing; what is left is one invariant per loop.  During the walk, all  *)
(* blocks of the new branch that are in the index are below cur; after it  *)
(* they are below the merge point, which is in the index, or the index is  *)
(* empty and nothing can be removed from it.                               *)
(***************************************************************************)
Shared(t) == Branch[t] \cap DOMAIN chain

CreateAllInv ==
  /\ ~ inited => pc = "idle" /\ ~ running /\ topHash = NoHash
  /\ ~ inited \/ Creating => DOMAIN chain = {}

BlockAllInv ==
  /\ pc \in {"put", "toChain", "walk", "remove", "add"} => block \in Hash \ {Genesis}
  /\ pc \in {"walk", "remove", "add"} => topHash = block
  /\ pc \in {"dropBlock", "dropChain"} => block \in Hash /\ topHash = Prev[block]
  /\ pc \in {"idle", "put"} \/ Creating => newBlocks = <<>>
  /\ pc \in {"idle", "put", "walk"} \/ Creating => mergePoint = NoHash

WalkAllInv ==
  pc = "walk" =>
    /\ lastHash \in Hash /\ cur \in Hash
    /\ PathDown(newBlocks, block, cur)
    /\ Shared(block) \subseteq Branch[cur]

RemoveAllInv ==
  pc = "remove" =>
    \/ /\ mergePoint \in DOMAIN chain
       /\ PathDown(newBlocks, block, mergePoint)
       /\ Shared(block) \subseteq Branch[mergePoint]
    \/ mergePoint = NoHash /\ DOMAIN chain = {} /\ remHash \in Hash

AddAllInv ==
  pc = "add" => mergePoint \in Hash /\ PathUp(newBlocks, mergePoint, block)

AllInv ==
  /\ TypeOK
  /\ CreateAllInv
  /\ BlockAllInv
  /\ WalkAllInv
  /\ RemoveAllInv
  /\ AddAllInv
  /\ IndexIsSomeBranch
=============================================================================
