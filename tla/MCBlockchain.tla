--------------------------- MODULE MCBlockchain ---------------------------
(***************************************************************************)
(* A tree of ten blocks for TLC: three branches, two of which part above   *)
(* the first block, and the third of which parts at the genesis block and  *)
(* may overtake both.  Blocks arrive in every order; the queries are       *)
(* evaluated in every state.                                               *)
(***************************************************************************)
EXTENDS BlockchainInv, BlockQueries

MCHash == {"g", "a1", "a2", "a3", "b2", "b3", "c1", "c2", "c3", "c4"}

MCPrev ==
  "g"  :> "none" @@ "a1" :> "g"  @@ "a2" :> "a1" @@ "a3" :> "a2" @@
  "b2" :> "a1"   @@ "b3" :> "b2" @@
  "c1" :> "g"    @@ "c2" :> "c1" @@ "c3" :> "c2" @@ "c4" :> "c3"

MCHeight ==
  "g"  :> 0 @@ "a1" :> 1 @@ "a2" :> 2 @@ "a3" :> 3 @@
  "b2" :> 2 @@ "b3" :> 3 @@
  "c1" :> 1 @@ "c2" :> 2 @@ "c3" :> 3 @@ "c4" :> 4
=============================================================================
