----------------------------- MODULE BlockTree -----------------------------
(***************************************************************************)
(* The universe of blocks a node may ever receive.  A block is identified  *)
(* by its hash; of its contents only the two header fields that the block  *)
(* store looks at are kept: PrevBlockHash and Height                       *)
(* (node/structures/block.go).                                             *)
(***************************************************************************)
EXTENDS Naturals

CONSTANTS
  Hash,     \* hashes of all blocks that may be offered to the node
  Genesis,  \* hash of the genesis block
  NoHash,   \* the empty hash: []byte{}
  Prev,     \* Prev[h]: PrevBlockHash of block h
  Height    \* Height[h]: the Height field of block h

(***************************************************************************)
(* Every block but the genesis block names another block of the universe.  *)
(* Height is not covered by the proof of work and is not verified by       *)
(* VerifyBlock: that a block is one higher than its predecessor is what    *)
(* the block maker (consensus/manager.go) and prepareGenesisBlock do, and  *)
(* an assumption on the blocks received from others.                       *)
(***************************************************************************)
ASSUME TreeAssumption ==
  /\ Genesis \in Hash
  /\ NoHash \notin Hash
  /\ Prev \in [Hash -> Hash \cup {NoHash}]
  /\ Prev[Genesis] = NoHash
  /\ \A h \in Hash \ {Genesis} : Prev[h] \in Hash

ASSUME HeightAssumption ==
  /\ Height \in [Hash -> Nat]
  /\ Height[Genesis] = 0
  /\ \A h \in Hash \ {Genesis} : Height[h] = Height[Prev[h]] + 1

(***************************************************************************)
(* A set of blocks is closed when it holds the predecessor of each of its  *)
(* members.                                                                *)
(***************************************************************************)
Closed(S) == \A h \in S \ {Genesis} : Prev[h] \in S

ClosedSets == {S \in SUBSET Hash : Closed(S)}

(***************************************************************************)
(* The branch that ends in t: t and all blocks below it, as the least      *)
(* closed set that contains t.                                             *)
(***************************************************************************)
Branch == [t \in Hash |-> {h \in Hash : \A S \in ClosedSets : t \in S => h \in S}]
=============================================================================
