----------------------------- MODULE ForkChoice -----------------------------
(***************************************************************************)
(* What the block store of a node promises: every block whose predecessor  *)
(* is stored is stored, the tip is the first block that was received at    *)
(* the greatest height, and the main chain is the branch of the tip.       *)
(* Receiving a block is one atomic step.                                   *)
(***************************************************************************)
EXTENDS BlockTree

VARIABLES stored, tip, main

choice == <<stored, tip, main>>

Init ==
  /\ stored = {}
  /\ tip = NoHash
  /\ main = {}

Start ==
  /\ stored = {}
  /\ stored' = {Genesis}
  /\ tip' = Genesis
  /\ main' = {Genesis}

\* The block is no higher than the tip: it is kept on a side branch.
Keep(b) ==
  /\ b \notin stored
  /\ Prev[b] \in stored
  /\ Height[b] <= Height[tip]
  /\ stored' = stored \cup {b}
  /\ UNCHANGED <<tip, main>>

\* The block is higher than the tip: its branch becomes the main chain.
Adopt(b) ==
  /\ b \notin stored
  /\ Prev[b] \in stored
  /\ Height[b] > Height[tip]
  /\ stored' = stored \cup {b}
  /\ tip' = b
  /\ main' = Branch[b]

Next == Start \/ \E b \in Hash : Keep(b) \/ Adopt(b)

Spec == Init /\ [][Next]_choice
=============================================================================
