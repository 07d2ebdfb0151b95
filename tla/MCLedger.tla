------------------------------ MODULE MCLedger ------------------------------
(***************************************************************************)
(* Blocks with transactions for TLC.  Transaction k is the coinbase of the *)
(* genesis block; t1 and u1 both spend it, on the branches a and c.  Block *)
(* b2 competes with a3 for an output of t1; in f3 a transaction has two    *)
(* inputs, one of them from the same block.  Block d2 spends again what a1 *)
(* has spent, and e2 what its branch does not have.  Block c1 spends the   *)
(* same output in two transactions, and y2 has a transaction twice.        *)
(***************************************************************************)
EXTENDS Spending, LedgerInv

MCPrev ==
  "g"  :> "none" @@ "a1" :> "g"  @@ "a2" :> "a1" @@ "a3" :> "a2" @@
  "b2" :> "a1"   @@ "d2" :> "a1" @@ "e2" :> "c1" @@
  "c1" :> "g"    @@ "c2" :> "c1" @@ "y2" :> "a1" @@
  "f3" :> "a2"
MCHash == DOMAIN MCPrev

MCHeight ==
  [h \in MCHash |-> CASE h = "g" -> 0
                      [] h \in {"a1", "c1"} -> 1
                      [] h \in {"a2", "b2", "c2", "d2", "e2", "y2"} -> 2
                      [] h \in {"a3", "f3"} -> 3]

MCTxs ==
  "g"  :> <<"k">> @@
  "a1" :> <<"t1", "ka1">> @@ "a2" :> <<"t2", "ka2">> @@
  "a3" :> <<"t3", "ka3">> @@
  "b2" :> <<"t3", "kb2">> @@ "d2" :> <<"u1", "kd2">> @@ "e2" :> <<"v1", "ke2">> @@
  "c1" :> <<"u1", "t1", "kc1">> @@ "c2" :> <<"u2", "kc2">> @@
  "y2" :> <<"t2", "v1", "t2", "kc2">> @@
  "f3" :> <<"v1", "v2", "kf3">>

MCIns ==
  "t1" :> <<<<"k", 0>>>> @@ "t2" :> <<<<"t1", 0>>>> @@
  "t3" :> <<<<"t1", 1>>>> @@
  "u1" :> <<<<"k", 0>>>> @@ "u2" :> <<<<"u1", 0>>>> @@
  "v1" :> <<<<"t2", 1>>>> @@ "v2" :> <<<<"v1", 0>>, <<"ka1", 0>>>> @@
  [c \in {"k", "ka1", "ka2", "ka3", "kb2", "kc1", "kc2", "kd2", "ke2", "kf3"}
     |-> <<>>]
MCTx == DOMAIN MCIns

MCOuts == [t \in MCTx |-> IF t \in {"t1", "t2"} THEN {0, 1} ELSE {0}]

MCTime ==
  [t \in MCTx |-> CASE t \in {"t1", "u1"} -> 1
                    [] t = "t2" -> 2 [] t = "u2" -> 3 [] t = "t3" -> 4 [] t = "v1" -> 5
                    [] t = "v2" -> 6 [] OTHER -> 0]

\* A coinbase is worth 4; the wallets of two keys pay each other.
MCOutput == UNION {{t} \X MCOuts[t] : t \in MCTx}
MCOwner ==
  [o \in MCOutput |-> IF o \in {<<"t1", 1>>, <<"t2", 0>>, <<"t3", 0>>, <<"u2", 0>>} THEN "B" ELSE "A"]
MCValue ==
  [o \in MCOutput |-> CASE o[1] \in {"t1", "t3"} -> 2
                        [] o[1] \in {"t2", "v1"} -> 1
                        [] o[1] = "v2" -> 5
                        [] OTHER -> 4]

(***************************************************************************)
(* Bounds.  A block can be dropped and come again without end, in any      *)
(* order: after a drop the node is followed with a short pool and few      *)
(* blocks, until reindexcache; and so it is where the properties except    *)
(* everything.                                                             *)
(***************************************************************************)
MCBound ==
  /\ ~ Fresh => Cardinality(pool) <= 1 /\ Cardinality(blocks) <= 4
  /\ ~ Tidy => Cardinality(blocks) <= 3
=============================================================================
