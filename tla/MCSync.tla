------------------------------- MODULE MCSync -------------------------------
(***************************************************************************)
(* A chain of three blocks above the genesis block and a fork of two.      *)
(***************************************************************************)
EXTENDS SyncInv, TLC

MCHash == {"g", "a1", "a2", "a3", "b1", "b2"}

MCPrev ==
  "g" :> "none" @@ "a1" :> "g" @@ "a2" :> "a1" @@ "a3" :> "a2" @@ "b1" :> "g" @@ "b2" :> "b1"

MCHeight ==
  "g" :> 0 @@ "a1" :> 1 @@ "a2" :> 2 @@ "a3" :> 3 @@ "b1" :> 1 @@ "b2" :> 2

MCMaker == "a2" :> "A"

Chain == {"g", "a1", "a2", "a3"}

\* Node A has three blocks and node B a part of them, or a fork; or A has one and
\* finds the second while B has that one, or another.
MCStores ==
  {"A" :> Chain @@ "B" :> s : s \in {{"g"}, {"g", "a1"}, {"g", "b1", "b2"}}} \cup
  {"A" :> {"g", "a1"} @@ "B" :> s : s \in {{"g", "a1"}, {"g", "b1"}}}
=============================================================================
