------------------------------- MODULE SyncInv -------------------------------
(***************************************************************************)
(* The inductive invariant of Sync: whatever is on its way from a node, or *)
(* was told by it, is about blocks that this node has.  Blocks are never   *)
(* taken away, so that a late command says nothing wrong.                  *)
(***************************************************************************)
EXTENDS Sync

\* What a command may name.
CommandOK(m) ==
  /\ m.from \in Node /\ m.to \in Node
  /\ m.type = "getblocksup" => m.data \in Hash
  /\ m.type \in {"getblocks", "getdata"} => m.data \in stored[m.to]
  /\ m.type = "inv" => m.data \in Seq(stored[m.from])
  /\ m.type = "block" => m.data \in stored[m.from]

HandlerOK(r) ==
  /\ r \in [node : Node, from : Node, hash : Hash \cup {NoHash}, locked : BOOLEAN]
  /\ r.hash # NoHash => r.hash \in stored[r.from]

StoreInv == \A n \in Node : Genesis \in stored[n] /\ tip[n] \in stored[n]

TransitInv == \A n, f \in Node : transit[n][f] \in Seq(stored[f])

(***************************************************************************)
(* Hashes in lists, handlers and commands are of blocks that the node they *)
(* came from has, and requests go to a node that has the block.            *)
(***************************************************************************)
KnownBlocksInv ==
  /\ SyncTypeOK
  /\ StoreInv
  /\ TransitInv
  /\ \A r \in BagToSet(running) : HandlerOK(r)
  /\ \A m \in BagToSet(net) : CommandOK(m)
=============================================================================
