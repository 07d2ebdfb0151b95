---------------------------- MODULE LedgerProofs ----------------------------
(***************************************************************************)
(* Proofs about a node and its transactions, for every universe of blocks  *)
(* and transactions.                                                       *)
(***************************************************************************)
EXTENDS Spending, LedgerInv, BlockchainProofs

\* The transactions and the inputs of transactions have their types.
LEMMA TxTypes ==
  /\ \A h \in Hash : TxsOf(h) \subseteq Tx
  /\ \A t \in Tx : \A i \in InsOf(t) : i[1] \in Tx
  /\ \A t \in Tx : ~ IsCoinbase(t) => InsOf(t) # {}
<1>1. ASSUME NEW h \in Hash
      PROVE  TxsOf(h) \subseteq Tx
  BY LedgerAssumption DEF TxsOf, Range
<1>2. ASSUME NEW t \in Tx, ~ IsCoinbase(t)
      PROVE  InsOf(t) # {}
  <2>1. Ins[t] \in Seq(Tx \X Nat) /\ Ins[t] # <<>>
    BY <1>2, LedgerAssumption DEF IsCoinbase
  <2>2. 1 \in DOMAIN Ins[t]
    BY <2>1
  <2> QED
    BY <2>2 DEF InsOf, Range
<1> QED
  BY <1>1, <1>2, LedgerAssumption

\* A branch without a double spending has a transaction in one block only.
LEMMA OnceOnBranch ==
  ASSUME NEW tip \in Hash, BranchIsSound(tip),
         NEW h \in Branch[tip], NEW k \in Branch[tip], NEW t \in TxsOf(h) \cap TxsOf(k)
  PROVE  h = k
<1>1. h \in Hash /\ k \in Hash /\ t \in Tx
  BY BranchType, TxTypes
<1>2. CASE ~ IsCoinbase(t)
  <2>1. PICK i \in InsOf(t) : TRUE
    BY <1>1, <1>2, TxTypes
  <2>2. i \in Spends(TxsOf(h)) /\ i \in Spends(TxsOf(k))
    BY <2>1 DEF Spends
  <2> QED
    BY <2>2 DEF BranchIsSound
<1>3. CASE IsCoinbase(t)
  <2>1. h \in Branch[k] \/ k \in Branch[h]
    BY <1>1, BranchIsLine, HeightAssumption
  <2> QED
    BY <1>1, <1>3, <2>1, CoinbaseAssumption
<1> QED
  BY <1>2, <1>3

-----------------------------------------------------------------------------
(***************************************************************************)
(* Verification, between operations of the node.                           *)
(***************************************************************************)

\* Between operations: the block store.
LEMMA IdleStore ==
  ASSUME IntactInv, npc \in {"idle", "replace"}
  PROVE  /\ IInv /\ pc = "idle" /\ inited
         /\ topHash \in blocks /\ blocks \subseteq Hash /\ Closed(blocks)
         /\ IndexOf(chain, topHash)
         /\ Indexed = blocks
         /\ \A tip \in blocks : Branch[tip] \subseteq blocks /\ BranchIsSound(tip)
<1>1. IInv /\ pc = "idle" /\ inited /\ ~ Creating /\ Indexed = blocks
  BY DEF IntactInv, StoreInv, Indexed
<1>2. topHash \in blocks /\ blocks \subseteq Hash /\ Closed(blocks) /\ IndexOf(chain, topHash)
  BY <1>1 DEF IInv, TypeOK, TreeInv, IdleInv, Compared
<1> QED
  BY <1>1, <1>2, BranchLeast DEF IntactInv

(***************************************************************************)
(* The transactions index covers the branch of the tip, which is stored    *)
(* and sound.                                                              *)
(***************************************************************************)
Covered(tip) ==
  /\ IndexInv
  /\ topHash \in Hash /\ IndexOf(chain, topHash)
  /\ tip \in Hash /\ Branch[tip] \subseteq Indexed /\ Branch[tip] \subseteq blocks
  /\ \A h \in Branch[tip] : BranchIsSound(h)

\* So it is for every stored block between operations.
LEMMA IdleCovered ==
  ASSUME IntactInv, npc \in {"idle", "replace"}, NEW tip \in blocks
  PROVE  Covered(tip)
<1>1. /\ topHash \in Hash /\ tip \in Hash /\ IndexOf(chain, topHash)
      /\ Branch[tip] \subseteq blocks /\ Indexed = blocks
      /\ \A h \in Branch[tip] : BranchIsSound(h)
  BY IdleStore
<1> QED
  BY <1>1 DEF Covered, IntactInv

\* BlockOf finds the block of a transaction on the branch of the tip.
LEMMA BlockOfFinds ==
  ASSUME NEW tip, Covered(tip), NEW x \in Tx
  PROVE  LET under == {h \in Branch[tip] : x \in TxsOf(h)}
         IN  IF under = {} THEN BlockOf(x, tip) = NoHash ELSE BlockOf(x, tip) \in under
<1>1. /\ topHash \in Hash /\ tip \in Hash /\ tip # NoHash
      /\ IndexOf(chain, topHash) /\ Branch[tip] \subseteq Indexed /\ Branch[tip] \subseteq blocks
  BY TreeAssumption DEF Covered
<1>2. txBlocks[x] \in Seq(Hash) /\ Range(txBlocks[x]) = {h \in Indexed : x \in TxsOf(h)}
  BY DEF Covered, IndexInv
<1>3. {h \in Branch[tip] : x \in TxsOf(h)} = Range(txBlocks[x]) \cap Branch[tip]
  BY <1>1, <1>2
<1> QED
  BY <1>1, <1>2, <1>3, ChooseUnderTip DEF BlockOf

(***************************************************************************)
(* Nothing is looked up with an error between operations: every block that *)
(* the index names is stored.                                              *)
(***************************************************************************)
LEMMA LookUpSucceeds ==
  ASSUME NEW tip, Covered(tip), Indexed = blocks, topHash \in blocks, NEW x \in Tx
  PROVE  LookUp(x, tip) = IF BlockOf(x, tip) = NoHash THEN "none" ELSE "found"
<1>1. tip \in Hash /\ Branch[tip] \subseteq blocks
  BY DEF Covered
<1>2. ~ ChooseHashFails(txBlocks[x], tip)
  BY <1>1, ChooseDoesNotFail
<1>3. CASE BlockOf(x, tip) = NoHash
  BY <1>2, <1>3 DEF LookUp
<1>4. CASE BlockOf(x, tip) # NoHash
  <2>1. BlockOf(x, tip) \in blocks
    BY <1>1, <1>4, BlockOfFinds
  <2>2. \A r \in txSpent[x] : r.block \in blocks
    BY DEF Covered, IndexInv
  <2>3. ~ OutputsSpentFails(x, BlockOf(x, tip), tip)
    BY <1>1, <2>1, <2>2, PlaceIsKnown DEF OutputsSpentFails
  <2> QED
    BY <1>2, <1>4, <2>3 DEF LookUp
<1> QED
  BY <1>3, <1>4

\* An output that a block of the branch of the tip spends is seen as spent.
LEMMA SpentIsSeen ==
  ASSUME NEW tip, Covered(tip),
         NEW l \in Branch[tip], NEW u \in TxsOf(l), NEW i \in InsOf(u)
  PROVE  /\ BlockOf(i[1], tip) # NoHash
         /\ i[2] \in GetTranactionOutputsSpent(i[1], BlockOf(i[1], tip), tip)
         /\ InputState(i, tip) \notin {"unspent", "none"}
<1>0. tip \in Hash /\ Branch[tip] \subseteq blocks
  BY DEF Covered
<1>1. /\ l \in Hash /\ l \in Indexed /\ u \in Tx /\ i[1] \in Tx
      /\ BranchIsSound(tip) /\ BranchIsSound(l)
      /\ Branch[l] \subseteq Branch[tip]
  BY <1>0, TxTypes, BranchType, BranchInside DEF Covered
<1>2. PICK h \in Branch[l] : i[1] \in TxsOf(h)
  <2>1. u \in TxsOnBranch(l)
    BY <1>1, BranchType DEF TxsOnBranch
  <2> QED
    BY <1>1, <2>1 DEF BranchIsSound, TxsOnBranch
<1>3. BlockOf(i[1], tip) = h
  <2>1. BlockOf(i[1], tip) \in Branch[tip] /\ i[1] \in TxsOf(BlockOf(i[1], tip))
    BY <1>1, <1>2, BlockOfFinds
  <2> QED
    BY <1>0, <1>1, <1>2, <2>1, OnceOnBranch
<1>4. CheckBlockIsInRange(l, h, tip)
  BY <1>0, <1>1, <1>2, RangeOnBranch
<1> DEFINE r == [out |-> i[2], by |-> u, block |-> l]
<1>5. r \in txSpent[i[1]]
  <2>1. <<u, i>> \in TxsOf(l) \X Spends(TxsOf(l))
    BY DEF Spends
  <2>2. r \in SpendingsIn(l, i[1])
    BY <2>1 DEF SpendingsIn
  <2> QED
    BY <1>1, <2>2 DEF Covered, IndexInv
<1>6. i[2] \in GetTranactionOutputsSpent(i[1], h, tip)
  BY <1>4, <1>5 DEF GetTranactionOutputsSpent
<1>7. h # NoHash
  BY <1>1, <1>2, BranchType, TreeAssumption
<1>8. LookUp(i[1], tip) \in {"error", "found"}
  BY <1>3, <1>7 DEF LookUp
<1> QED
  BY <1>3, <1>6, <1>7, <1>8 DEF InputState

(***************************************************************************)
(* A block that passes VerifyBlock spends nothing that its branch has      *)
(* spent, and nothing that its branch does not have; in the right order,   *)
(* when no transaction is in it twice.                                     *)
(***************************************************************************)
LEMMA VerifiedIsSound ==
  ASSUME IntactInv, npc = "idle", NEW b \in Hash, b \notin blocks, Prev[b] \in blocks,
         VerifyBlock(b)
  PROVE  BranchIsSound(b) /\ (AllOnce(b) => BlockIsOrdered(b))
<1>1. /\ Covered(Prev[b]) /\ BranchIsSound(Prev[b]) /\ Prev[b] \in Hash /\ b # Genesis
      /\ Branch[b] = {b} \cup Branch[Prev[b]]
  BY IdleStore, IdleCovered, BranchStep, TreeAssumption
<1>2. TxsOnBranch(b) = TxsOf(b) \cup TxsOnBranch(Prev[b])
  BY <1>1 DEF TxsOnBranch
<1>3. ASSUME NEW n \in DOMAIN Txs[b], NEW i \in InsOf(Txs[b][n])
      PROVE  /\ \/ i[1] \in TxsOnBranch(Prev[b])
                \/ \E m \in 1 .. n - 1 : Txs[b][m] = i[1]
             /\ InputState(i, Prev[b]) \in {"unspent", "none"}
  <2>1. Txs[b][n] \in Tx /\ i[1] \in Tx
    BY TxTypes, LedgerAssumption
  <2>2. \/ InputState(i, Prev[b]) = "unspent"
        \/ InputState(i, Prev[b]) = "none" /\ i[1] \in {Txs[b][j] : j \in 1 .. n - 1}
    BY DEF VerifyBlock, VerifyTransaction, WereBefore
  <2>3. CASE InputState(i, Prev[b]) = "unspent"
    <3>1. BlockOf(i[1], Prev[b]) # NoHash
      BY <2>3 DEF InputState, LookUp
    <3>2. \E h \in Branch[Prev[b]] : i[1] \in TxsOf(h)
      BY <1>1, <2>1, <3>1, BlockOfFinds
    <3> QED
      BY <2>3, <3>2 DEF TxsOnBranch
  <2>4. CASE InputState(i, Prev[b]) = "none" /\ i[1] \in {Txs[b][j] : j \in 1 .. n - 1}
    BY <2>4
  <2> QED
    BY <2>2, <2>3, <2>4
<1>5. ASSUME NEW t \in TxsOf(b), NEW i \in InsOf(t)
      PROVE  i[1] \in TxsOnBranch(b) /\ InputState(i, Prev[b]) \in {"unspent", "none"}
  <2>1. PICK n \in DOMAIN Txs[b] : Txs[b][n] = t
    BY DEF TxsOf, Range
  <2>2. Txs[b] \in Seq(Tx)
    BY LedgerAssumption
  <2>3. \A m \in 1 .. n - 1 : Txs[b][m] \in TxsOf(b)
    BY <2>2 DEF TxsOf, Range
  <2> QED
    BY <1>2, <1>3, <2>1, <2>3
<1>6. ASSUME NEW l \in Branch[Prev[b]]
      PROVE  Spends(TxsOf(b)) \cap Spends(TxsOf(l)) = {}
  <2>1. ASSUME NEW i \in Spends(TxsOf(b)), i \in Spends(TxsOf(l))
        PROVE  FALSE
    <3>1. PICK t \in TxsOf(b), u \in TxsOf(l) : i \in InsOf(t) /\ i \in InsOf(u)
      BY <2>1 DEF Spends
    <3> QED
      BY <1>1, <1>5, <3>1, SpentIsSeen
  <2> QED
    BY <2>1
<1>8. \A k, l \in Branch[b] : k # l => Spends(TxsOf(k)) \cap Spends(TxsOf(l)) = {}
  BY <1>1, <1>6 DEF BranchIsSound
<1>9. \A t \in TxsOnBranch(b) : \A i \in InsOf(t) : i[1] \in TxsOnBranch(b)
  BY <1>1, <1>2, <1>5 DEF BranchIsSound
<1>10. BranchIsSound(b)
  BY <1>8, <1>9 DEF BranchIsSound
<1>11. ASSUME AllOnce(b),
              NEW m \in DOMAIN Txs[b], NEW n \in DOMAIN Txs[b], NEW i \in InsOf(Txs[b][n]),
              Txs[b][m] = i[1]
       PROVE  m < n
  <2>1. i[1] \in TxsOf(b) /\ b \in Branch[b] /\ b \notin Branch[Prev[b]]
    BY <1>1, <1>11, BranchType, NotBelowItself DEF TxsOf, Range
  <2>2. i[1] \notin TxsOnBranch(Prev[b])
    BY <1>1, <1>10, <2>1, OnceOnBranch DEF TxsOnBranch
  <2>3. PICK k \in 1 .. n - 1 : Txs[b][k] = i[1]
    BY <1>3, <2>2
  <2>4. Txs[b] \in Seq(Tx) /\ m \in Nat /\ n \in Nat /\ k \in DOMAIN Txs[b] /\ k < n
    <3>1. Txs[b] \in Seq(Tx) /\ DOMAIN Txs[b] = 1 .. Len(Txs[b]) /\ Len(Txs[b]) \in Nat
      BY LedgerAssumption
    <3> QED
      BY <3>1
  <2>5. k = m
    BY <1>11, <2>3, <2>4 DEF AllOnce
  <2> QED
    BY <2>4, <2>5
<1> QED
  BY <1>10, <1>11 DEF BlockIsOrdered

-----------------------------------------------------------------------------
(***************************************************************************)
(* Loops over lists                                                        *)
(***************************************************************************)

\* A longer list has one item more.
LEMMA AppendRange ==
  ASSUME NEW T, NEW s \in Seq(T), NEW x \in T
  PROVE  Append(s, x) \in Seq(T) /\ Range(Append(s, x)) = Range(s) \cup {x}
<1> DEFINE r == Append(s, x)
<1>1. /\ r \in Seq(T) /\ Len(s) \in Nat /\ Len(r) = Len(s) + 1
      /\ \A i \in 1 .. Len(s) : r[i] = s[i]
      /\ r[Len(s) + 1] = x
  BY AppendProperties
<1>2. Range(r) = {r[i] : i \in 1 .. Len(r)} /\ Range(s) = {s[i] : i \in 1 .. Len(s)}
  BY <1>1 DEF Range
<1> HIDE DEF r
<1>3. Range(r) \subseteq Range(s) \cup {x}
  BY <1>1, <1>2
<1>4. Range(s) \cup {x} \subseteq Range(r)
  BY <1>1, <1>2
<1> QED
  BY <1>1, <1>3, <1>4 DEF r

\* Without takes one block out of a list and leaves the others.
LEMMA WithoutRange ==
  ASSUME NEW list \in Seq(Hash), NEW b
  PROVE  /\ Without(list, b) \in Seq(Hash)
         /\ Range(Without(list, b)) = Range(list) \ {b}
<1> DEFINE n == Len(list)
           D == Seq(Hash)
           step(i, s) == IF list[i] = b THEN s ELSE Append(s, list[i])
           Eq(f) == f = [i \in 0 .. n |-> IF i = 0 THEN <<>> ELSE step(i, f[i - 1])]
           kept == CHOOSE f : Eq(f)
           G == [i \in 1 .. n |-> [s \in D |-> step(i, s)]]
<1>1. Without(list, b) = kept[n]
  BY DEF Without, Loop
<1>2. n \in Nat /\ list \in [1 .. n -> Hash] /\ Range(list) = {list[j] : j \in 1 .. n}
  BY DEF Range
<1>3. <<>> \in D /\ Range(<<>>) = {}
  BY DEF Range
<1>4. ASSUME NEW i \in 1 .. n, NEW s \in D
      PROVE  step(i, s) \in D /\ Range(step(i, s)) = Range(s) \cup ({list[i]} \ {b})
  <2>1. list[i] \in Hash
    BY <1>2
  <2>2. CASE list[i] = b
    BY <2>2
  <2>3. CASE list[i] # b
    BY <2>1, <2>3, AppendRange
  <2> QED
    BY <2>2, <2>3
<1> HIDE DEF n, D, step, kept
<1>5. PICK f : Accumulates(f, n, D, <<>>, G)
  <2>1. G \in [1 .. n -> [D -> D]]
    BY <1>4
  <2> HIDE DEF G
  <2> QED
    BY <1>2, <1>3, <2>1, LoopExists
<1>6. Eq(f)
  <2>0. f \in [0 .. n -> D] /\ f[0] = <<>> /\ \A i \in 1 .. n : f[i] = G[i][f[i - 1]]
    BY <1>5 DEF Accumulates
  <2>1. ASSUME NEW i \in 1 .. n
        PROVE  f[i] = step(i, f[i - 1])
    <3>1. i - 1 \in 0 .. n
      BY <1>2
    <3>2. f[i - 1] \in D
      BY <2>0, <3>1
    <3> QED
      BY <2>0, <3>2
  <2>2. \A i \in 0 .. n : f[i] = IF i = 0 THEN <<>> ELSE step(i, f[i - 1])
    BY <1>2, <2>0, <2>1
  <2> QED
    BY <2>0, <2>2
<1>7. Eq(kept)
  <2> HIDE DEF Eq
  <2> QED
    BY <1>6 DEF kept
<1>8. \A i \in 0 .. n : kept[i] = IF i = 0 THEN <<>> ELSE step(i, kept[i - 1])
  BY <1>7
<1> DEFINE Upto(i) == {list[j] : j \in 1 .. i} \ {b}
           S == {i \in 0 .. n : kept[i] \in D /\ Range(kept[i]) = Upto(i)}
<1>9. 0 \in S
  BY <1>2, <1>3, <1>8
<1>10. ASSUME NEW i \in 1 .. n, i - 1 \in S
       PROVE  i \in S
  <2>1. kept[i - 1] \in D /\ Range(kept[i - 1]) = Upto(i - 1) /\ i \in 0 .. n /\ i # 0
    BY <1>2, <1>10
  <2>2. {list[j] : j \in 1 .. i} = {list[j] : j \in 1 .. i - 1} \cup {list[i]}
    BY <1>2
  <2>3. kept[i] = step(i, kept[i - 1])
    BY <1>8, <2>1
  <2> QED
    BY <1>4, <2>1, <2>2, <2>3
<1>11. n \in S
  <2> HIDE DEF S
  <2>1. \A i \in 0 .. n : i \in S
    BY <1>2, <1>9, <1>10, NumberInduction
  <2> QED
    BY <1>2, <2>1
<1> QED
  BY <1>1, <1>2, <1>11 DEF D

-----------------------------------------------------------------------------
(***************************************************************************)
(* NodeInv is inductive                                                    *)
(***************************************************************************)

\* The genesis block spends nothing.
LEMMA GenesisIsSound ==
  /\ BranchIsSound(Genesis)
  /\ \A x : SpendingsIn(Genesis, x) = {}
<1>1. \A t \in TxsOf(Genesis) : InsOf(t) = {}
  BY CoinbaseAssumption DEF IsCoinbase, InsOf, Range
<1>2. TxsOnBranch(Genesis) = TxsOf(Genesis)
  BY BranchGenesis DEF TxsOnBranch
<1>3. BranchIsSound(Genesis)
  BY <1>1, <1>2, BranchGenesis DEF BranchIsSound
<1>4. Spends(TxsOf(Genesis)) = {}
  BY <1>1 DEF Spends
<1> QED
  BY <1>1, <1>3, <1>4 DEF SpendingsIn

\* A created blockchain with the genesis block only.
LEMMA InitNode == NodeInit => IntactInv
<1> SUFFICES ASSUME NodeInit
             PROVE  IntactInv
  OBVIOUS
<1>0. NoHash \notin Hash /\ Genesis \in Hash
  BY TreeAssumption
<1>1. chain = [h \in {Genesis} |-> [prev |-> NoHash, next |-> NoHash]]
  BY <1>0 DEF NodeInit, EmptyBucket, AddToChain, CanAddToChain, Put
<1>2. IndexOf(chain, Genesis)
  BY <1>0, <1>1, BranchGenesis, TreeAssumption DEF IndexOf
<1>3. IInv
  <2>1. DOMAIN chain \subseteq Hash /\ chain \in [DOMAIN chain -> Location]
    BY <1>0, <1>1 DEF Location
  <2>2. newBlocks \in Seq(Hash)
    BY DEF NodeInit
  <2>3. inited \in BOOLEAN /\ running \in BOOLEAN
    BY Zenon DEF NodeInit
  <2>4. addState \in Error .. NotAddedExists
    BY DEF NodeInit, Error, NotAddedExists
  <2>5. TypeOK
    BY <1>0, <2>1, <2>2, <2>3, <2>4 DEF NodeInit, TypeOK, PCs
  <2>6. TreeInv
    BY <1>0, BranchGenesis, HeightAssumption DEF NodeInit, TreeInv, Compared, Closed
  <2> QED
    BY <1>2, <2>5, <2>6
       DEF NodeInit, IInv, CreateInv, IdleInv, PutInv, ToChainInv, WalkInv, RemoveInv, AddInv,
           NoDropNoPanic, Creating
<1>4. StoreInv /\ DropInv
  BY <1>3 DEF NodeInit, StoreInv, DropInv, Creating
<1>5. IndexInv
  <2>1. <<>> \in Seq(Hash) /\ <<Genesis>> \in Seq(Hash)
    BY <1>0
  <2>2. txBlocks \in [Tx -> Seq(Hash)]
    BY <2>1 DEF NodeInit
  <2>3. Range(<<>>) = {} /\ Range(<<Genesis>>) = {Genesis}
    BY DEF Range
  <2>4. Indexed = {Genesis}
    BY DEF NodeInit, Indexed
  <2> QED
    BY <2>2, <2>3, <2>4, GenesisIsSound DEF NodeInit, IndexInv
<1> QED
  BY <1>4, <1>5, GenesisIsSound DEF NodeInit, IntactInv

\* The invariant of the block store, while the block store is at rest.
LEMMA UnchangedIInv ==
  ASSUME IInv, UNCHANGED vars
  PROVE  IInv'
  BY DEF vars, database, reorg, IInv, TypeOK, CreateInv, TreeInv, IdleInv, PutInv,
     ToChainInv, WalkInv, RemoveInv, AddInv, NoDropNoPanic, Creating, Compared

\* The invariant looks at the block store and the index, and at where the node is.
LEMMA KeepNodeInv ==
  ASSUME IntactInv, UNCHANGED <<vars, index>>,
         UNCHANGED <<npc, newBlock>> \/ (npc = "replace" /\ npc' = "idle")
  PROVE  IntactInv'
<1>1. IInv => IInv'
  BY UnchangedIInv
<1>2. StoreInv'
  BY <1>1 DEF IntactInv, StoreInv, vars, database, Creating
<1>3. DropInv'
  <2>1. TypeOK => TypeOK'
    BY DEF vars, database, reorg, TypeOK
  <2> QED
    BY <2>1 DEF IntactInv, DropInv, vars, database
<1>4. IndexInv'
  <2>1. Indexed' = Indexed
    BY DEF Indexed, vars, database
  <2> QED
    BY <2>1 DEF IntactInv, IndexInv, index
<1> QED
  BY <1>2, <1>3, <1>4 DEF IntactInv, vars, database

\* A verified block goes to the block store.
LEMMA AddBlockNode ==
  ASSUME IntactInv, NEW b \in Hash, NodeAddBlock(b)
  PROVE  IntactInv'
<1>1. /\ npc = "idle" /\ npc' = "adding" /\ newBlock' = b /\ pc' = "put"
      /\ b \notin blocks /\ Prev[b] \in blocks /\ blocks' = blocks \cup {b}
      /\ VerifyBlock(b)
      /\ inited' = inited
      /\ txBlocks' = txBlocks /\ txSpent' = txSpent
  BY DEF NodeAddBlock, AddBlockPut, ledger, index
<1>2. IInv' /\ inited /\ Indexed = blocks
  BY <1>1, IdleStore, AddBlockIInv DEF NodeAddBlock
<1>3. StoreInv' /\ DropInv'
  BY <1>1, <1>2 DEF StoreInv, DropInv, Creating
<1>4. Indexed' = Indexed
  BY <1>1, <1>2 DEF Indexed
<1>5. IndexInv'
  BY <1>1, <1>4 DEF IntactInv, IndexInv
<1>6. \A h \in blocks' : BranchIsSound(h)
  BY <1>1, VerifiedIsSound DEF IntactInv
<1> QED
  BY <1>3, <1>5, <1>6 DEF IntactInv

\* AddBlock of the block store goes on.
LEMMA StoreStepNode ==
  ASSUME IntactInv, StoreStep
  PROVE  IntactInv'
<1>1. /\ npc = "adding" /\ npc' = "adding" /\ newBlock' = newBlock
      /\ txBlocks' = txBlocks /\ txSpent' = txSpent
  BY DEF StoreStep, nodeLocals, ledger, index
<1>2. IInv
  BY <1>1 DEF IntactInv, StoreInv
<1>3. IInv'
  BY <1>2, AddBlockIInv, ReorgIInv DEF StoreStep
<1>4. blocks' = blocks /\ inited' = inited /\ pc' \in {"idle", "put", "toChain", "walk", "remove", "add", "panic"}
  BY DEF StoreStep, AddBlockNoTop, AddBlockParallel, AddBlockSaveTop, AddBlockToChain,
     UpdateChainOnNewBranch, WalkMissing, WalkNewBlock, WalkFound, RemoveOld, RemoveError,
     RemoveDone, AddNew, AddDone, Return, database
<1>5. StoreInv' /\ DropInv'
  BY <1>1, <1>3, <1>4 DEF IntactInv, StoreInv, DropInv, Creating
<1>6. IndexInv'
  <2>1. Indexed' = Indexed
    BY <1>1, <1>4 DEF Indexed
  <2> QED
    BY <1>1, <2>1 DEF IntactInv, IndexInv
<1> QED
  BY <1>4, <1>5, <1>6 DEF IntactInv

\* The transactions index learns of the block.
LEMMA BlockAddedNode ==
  ASSUME IntactInv, NodeBlockAdded
  PROVE  IntactInv'
<1>1. /\ npc = "adding" /\ npc' \in {"idle", "replace", "died"} /\ pc = "idle"
      /\ UNCHANGED vars
      /\ IndexBlockAdded(newBlock)
  BY DEF NodeBlockAdded, NodeReturn
<1>2. /\ IInv /\ inited /\ newBlock \in blocks /\ blocks \subseteq Hash
      /\ Indexed = blocks \ {newBlock}
      /\ blocks' = blocks /\ inited' = inited /\ pc' = pc
  BY <1>1 DEF IntactInv, StoreInv, Indexed, IInv, TypeOK, vars, database
<1>3. IInv'
  BY <1>1, <1>2, UnchangedIInv
<1>4. StoreInv' /\ DropInv'
  BY <1>1, <1>2, <1>3 DEF StoreInv, DropInv, Creating
<1>5. Indexed' = Indexed \cup {newBlock}
  BY <1>1, <1>2 DEF Indexed
<1>6. IndexInv'
  <2>1. ASSUME NEW t \in Tx
        PROVE  /\ txBlocks'[t] \in Seq(Hash)
               /\ Range(txBlocks'[t]) = {h \in Indexed' : t \in TxsOf(h)}
    <3>1. /\ txBlocks[t] \in Seq(Hash) /\ newBlock \in Hash
          /\ Range(txBlocks[t]) = {h \in Indexed : t \in TxsOf(h)}
      BY <1>2 DEF IntactInv, IndexInv
    <3>2. txBlocks'[t] = IF t \in TxsOf(newBlock) THEN Append(txBlocks[t], newBlock) ELSE txBlocks[t]
      BY <1>1 DEF IndexBlockAdded
    <3> QED
      BY <1>5, <3>1, <3>2, AppendRange
  <2>2. txBlocks' \in [Tx -> Seq(Hash)]
    BY <1>1, <2>1 DEF IndexBlockAdded
  <2>3. \A h \in Indexed', x \in Tx : SpendingsIn(h, x) \subseteq txSpent'[x]
    BY <1>1, <1>5 DEF IndexBlockAdded, IntactInv, IndexInv
  <2>4. \A x \in Tx : \A r \in txSpent'[x] : r.block \in Indexed' /\ r \in SpendingsIn(r.block, x)
    <3> SUFFICES ASSUME NEW x \in Tx, NEW r \in txSpent'[x]
                 PROVE  r.block \in Indexed' /\ r \in SpendingsIn(r.block, x)
      OBVIOUS
    <3>1. r \in txSpent[x] \/ r \in SpendingsIn(newBlock, x)
      BY <1>1 DEF IndexBlockAdded
    <3>2. r \in SpendingsIn(newBlock, x) => r.block = newBlock
      BY DEF SpendingsIn
    <3> QED
      BY <1>5, <3>1, <3>2 DEF IntactInv, IndexInv
  <2> QED
    BY <2>1, <2>2, <2>3, <2>4 DEF IndexInv
<1> QED
  BY <1>2, <1>4, <1>6 DEF IntactInv

\* The block store has set its top hash back; the block is still there.
LEMMA DropBlockNode ==
  ASSUME IntactInv, NodeDropBlock, Beside = {}
  PROVE  IntactInv'
<1>1. /\ npc = "idle" /\ npc' = "dropping" /\ newBlock' = topHash /\ pc' = "dropBlock"
      /\ block' = topHash /\ topHash' = Prev[topHash] /\ blocks' = blocks
      /\ inited' = inited /\ chain' = chain
      /\ txBlocks' = txBlocks /\ txSpent' = txSpent
  BY DEF NodeDropBlock, DropSaveTop, ledger, index
<1>2. /\ IInv /\ inited /\ Indexed = blocks /\ topHash \in blocks /\ topHash \in Hash
      /\ IndexOf(chain, topHash) /\ blocks = Branch[topHash] /\ BranchIsSound(topHash)
      /\ topHash # Genesis
  BY <1>1, IdleStore DEF Beside, NodeDropBlock
<1>3. TypeOK'
  <2>1. Prev[topHash] \in Hash
    BY <1>2, TreeAssumption
  <2> QED
    BY <1>2, <2>1 DEF NodeDropBlock, DropSaveTop, reorg, IInv, TypeOK, PCs
<1>4. StoreInv' /\ DropInv'
  BY <1>1, <1>2, <1>3 DEF StoreInv, DropInv, Creating
<1>5. Indexed' = Indexed
  BY <1>1, <1>2 DEF Indexed
<1> QED
  BY <1>1, <1>4, <1>5 DEF IntactInv, IndexInv

\* The block store deletes the block and takes it out of the chain index.
LEMMA StoreDropsNode ==
  ASSUME IntactInv, StoreDrops
  PROVE  IntactInv'
<1>1. /\ npc = "dropping" /\ npc' = "dropping" /\ newBlock' = newBlock
      /\ txBlocks' = txBlocks /\ txSpent' = txSpent
  BY DEF StoreDrops, nodeLocals, ledger, index
<1>2. /\ TypeOK /\ inited /\ newBlock \in Hash /\ newBlock # Genesis
      /\ topHash = Prev[newBlock] /\ topHash \in Hash
      /\ Branch[newBlock] = {newBlock} \cup Branch[topHash] /\ newBlock \notin Branch[topHash]
      /\ BranchIsSound(newBlock)
  BY <1>1, BranchStep, NotBelowItself, TreeAssumption DEF IntactInv, DropInv, StoreInv
<1>3. CASE DropDeleteBlock
  <2>1. /\ pc = "dropBlock" /\ pc' = "dropChain" /\ blocks' = blocks \ {newBlock}
        /\ topHash' = topHash /\ block' = block /\ chain' = chain /\ inited' = inited
    BY <1>1, <1>3 DEF DropDeleteBlock, IntactInv, DropInv
  <2>2. blocks = Branch[newBlock] /\ block = newBlock /\ IndexOf(chain, newBlock)
    BY <1>1, <2>1 DEF IntactInv, DropInv
  <2>3. TypeOK'
    BY <1>2, <1>3 DEF DropDeleteBlock, reorg, TypeOK, PCs
  <2>4. StoreInv' /\ DropInv'
    BY <1>1, <1>2, <2>1, <2>2, <2>3 DEF StoreInv, DropInv, Creating
  <2>5. Indexed' = Indexed
    BY <1>1, <1>2, <2>1, <2>2 DEF Indexed
  <2> QED
    BY <1>1, <2>1, <2>4, <2>5 DEF IntactInv, IndexInv
<1>4. CASE DropRemoveFromChain
  <2>1. /\ pc = "dropChain" /\ pc' = "idle" /\ blocks' = blocks
        /\ topHash' = topHash /\ inited' = inited /\ newBlocks' = <<>> /\ running' = running
    BY <1>4 DEF DropRemoveFromChain, Return
  <2>2. blocks = Branch[topHash] /\ block = newBlock /\ IndexOf(chain, newBlock)
    BY <1>1, <2>1 DEF IntactInv, DropInv
  <2>3. chain' = RemoveFromChain(chain, newBlock) /\ IndexOf(chain', topHash)
    BY <1>2, <1>4, <2>2, RemoveFromChainShortens DEF DropRemoveFromChain
  <2>4. TypeOK'
    <3>1. DOMAIN chain' \subseteq Hash /\ chain' \in [DOMAIN chain' -> Location]
      BY <1>2, <2>3, RemoveFromChainType DEF TypeOK
    <3>2. newBlocks' \in Seq(Hash)
      BY <2>1
    <3> QED
      BY <1>2, <1>4, <3>1, <3>2 DEF DropRemoveFromChain, Return, TypeOK, PCs
  <2>5. TreeInv'
    <3>1. Closed(blocks')
      BY <1>2, <2>1, <2>2, BranchClosed
    <3>2. blocks' \subseteq Hash /\ topHash \in blocks' /\ Compared' = blocks'
      BY <1>2, <2>1, <2>2, BranchType DEF Compared
    <3>3. \A b \in blocks' : Genesis \in Branch[b]
      BY <3>2, GenesisOnBranch
    <3>4. \A b \in blocks' : Height[b] <= Height[topHash]
      BY <1>2, <2>1, <2>2, <3>2, BranchLower, HeightAssumption
    <3> QED
      BY <2>1, <3>1, <3>2, <3>3, <3>4 DEF TreeInv
  <2>6. IInv'
    BY <1>2, <2>1, <2>3, <2>4, <2>5
       DEF IInv, CreateInv, IdleInv, PutInv, ToChainInv, WalkInv, RemoveInv, AddInv,
           NoDropNoPanic, Creating
  <2>7. StoreInv' /\ DropInv'
    BY <1>1, <1>2, <2>1, <2>2, <2>4, <2>6 DEF StoreInv, DropInv, Creating
  <2>8. Indexed' = Indexed
    BY <1>1, <2>1 DEF Indexed
  <2> QED
    BY <1>1, <2>1, <2>7, <2>8 DEF IntactInv, IndexInv
<1> QED
  BY <1>3, <1>4 DEF StoreDrops

\* The transactions index forgets the block, and nothing of the blocks below it.
LEMMA BlockRemovedNode ==
  ASSUME IntactInv, NodeBlockRemoved
  PROVE  IntactInv'
<1>1. /\ npc = "dropping" /\ npc' = "idle" /\ pc = "idle"
      /\ UNCHANGED vars
      /\ IndexBlockRemoved(newBlock)
  BY DEF NodeBlockRemoved, NodeReturn
<1>2. /\ IInv /\ inited /\ newBlock \in Hash /\ newBlock # Genesis
      /\ topHash = Prev[newBlock] /\ topHash \in Hash /\ blocks = Branch[topHash]
      /\ Branch[newBlock] = {newBlock} \cup blocks /\ newBlock \notin blocks
      /\ BranchIsSound(newBlock)
      /\ blocks' = blocks /\ inited' = inited /\ pc' = pc
  BY <1>1, BranchStep, NotBelowItself, TreeAssumption
     DEF IntactInv, DropInv, StoreInv, vars, database
<1>3. StoreInv' /\ DropInv'
  BY <1>1, <1>2, UnchangedIInv DEF StoreInv, DropInv, Creating
<1>4. Indexed' = blocks /\ Indexed = blocks \cup {newBlock}
  BY <1>1, <1>2 DEF Indexed
<1>5. ASSUME NEW t \in Tx
      PROVE  /\ txBlocks'[t] \in Seq(Hash)
             /\ Range(txBlocks'[t]) = {h \in Indexed' : t \in TxsOf(h)}
  <2>1. /\ txBlocks[t] \in Seq(Hash)
        /\ Range(txBlocks[t]) = {h \in Indexed : t \in TxsOf(h)}
    BY DEF IntactInv, IndexInv
  <2>2. txBlocks'[t] = Without(txBlocks[t], newBlock)
    BY <1>1 DEF IndexBlockRemoved
  <2> QED
    BY <1>2, <1>4, <2>1, <2>2, WithoutRange
<1>6. ASSUME NEW h \in Indexed', NEW x \in Tx, NEW r \in SpendingsIn(h, x)
      PROVE  r \in txSpent'[x]
  <2>0. PICK t \in TxsOf(h) : \E i \in InsOf(t) : i[1] = x /\ r.out = i[2]
    BY DEF SpendingsIn
  <2>1. PICK i \in InsOf(t) : i[1] = x /\ r.out = i[2]
    BY <2>0
  <2>2. h \in blocks /\ h \in Hash /\ t \in Tx
    BY <1>2, <1>4, BranchType, TxTypes
  <2>3. i = <<x, r.out>>
    <3>1. i \in Tx \X Nat
      BY <2>2, LedgerAssumption DEF InsOf, Range
    <3> QED
      BY <2>1, <3>1
  <2>4. i \notin Spends(TxsOf(newBlock))
    BY <1>2, <2>2 DEF BranchIsSound, Spends
  <2>5. r \in txSpent[x]
    BY <1>4, <1>6, <2>2 DEF IntactInv, IndexInv
  <2> QED
    BY <1>1, <2>3, <2>4, <2>5 DEF IndexBlockRemoved
<1>7. txBlocks' \in [Tx -> Seq(Hash)]
  BY <1>1, <1>5 DEF IndexBlockRemoved
<1>8. ASSUME NEW x \in Tx, NEW r \in txSpent'[x]
      PROVE  r.block \in Indexed' /\ r \in SpendingsIn(r.block, x)
  <2>1. r \in txSpent[x] /\ <<x, r.out>> \notin Spends(TxsOf(newBlock))
    BY <1>1 DEF IndexBlockRemoved
  <2>2. r.block \in Indexed /\ r \in SpendingsIn(r.block, x)
    BY <2>1 DEF IntactInv, IndexInv
  <2>3. PICK t \in TxsOf(r.block) : \E i \in InsOf(t) : i[1] = x /\ r.out = i[2]
    BY <2>2 DEF SpendingsIn
  <2>4. PICK i \in InsOf(t) : i[1] = x /\ r.out = i[2]
    BY <2>3
  <2>5. t \in Tx
    BY <1>2, <1>4, <2>2, BranchType, TxTypes
  <2>6. i = <<x, r.out>>
    <3>1. i \in Tx \X Nat
      BY <2>5, LedgerAssumption DEF InsOf, Range
    <3> QED
      BY <2>4, <3>1
  <2>7. <<x, r.out>> \in Spends(TxsOf(r.block))
    BY <2>6 DEF Spends
  <2> QED
    BY <1>4, <2>1, <2>2, <2>7
<1>9. IndexInv'
  BY <1>5, <1>6, <1>7, <1>8 DEF IndexInv
<1> QED
  BY <1>2, <1>3, <1>9 DEF IntactInv

\* The index is made again from the main chain, which is all there is.
LEMMA ReindexNode ==
  ASSUME IntactInv, ReindexData, Beside = {}
  PROVE  IntactInv'
<1>1. /\ npc = "idle" /\ npc' = npc /\ newBlock' = newBlock
      /\ UNCHANGED vars
      /\ IndexReindex
  BY DEF ReindexData, nodeLocals
<1>2. /\ IInv /\ pc = "idle" /\ inited /\ Indexed = blocks /\ topHash \in Hash
      /\ blocks = Branch[topHash] /\ blocks \subseteq Hash
      /\ blocks' = blocks /\ inited' = inited /\ pc' = pc
  BY <1>1, IdleStore DEF Beside, vars, database
<1>3. StoreInv' /\ DropInv'
  BY <1>1, <1>2, UnchangedIInv DEF StoreInv, DropInv, Creating
<1>4. Indexed' = blocks
  BY <1>1, <1>2 DEF Indexed
<1>5. ASSUME NEW t \in Tx
      PROVE  /\ txBlocks'[t] \in Seq(Hash)
             /\ Range(txBlocks'[t]) = {h \in Indexed' : t \in TxsOf(h)}
  <2> DEFINE S == {h \in Branch[topHash] : t \in TxsOf(h)}
  <2>1. txBlocks'[t] = Descending(S) /\ S \in SUBSET Branch[topHash] /\ S \subseteq Hash
    BY <1>1, <1>2 DEF IndexReindex
  <2>2. S = {h \in Indexed' : t \in TxsOf(h)}
    BY <1>2, <1>4
  <2> HIDE DEF S
  <2>3. Range(Descending(S)) = S /\ Descending(S) \in Seq(S)
    BY <1>2, <2>1, DescendingLists DEF ListsDown
  <2> QED
    BY <2>1, <2>2, <2>3
<1>6. txBlocks' \in [Tx -> Seq(Hash)]
  BY <1>1, <1>5 DEF IndexReindex
<1>7. \A h \in Indexed', x \in Tx : SpendingsIn(h, x) \subseteq txSpent'[x]
  BY <1>1, <1>2, <1>4 DEF IndexReindex
<1>8. ASSUME NEW x \in Tx, NEW r \in txSpent'[x]
      PROVE  r.block \in Indexed' /\ r \in SpendingsIn(r.block, x)
  <2>1. PICK h \in Branch[topHash] : r \in SpendingsIn(h, x)
    BY <1>1 DEF IndexReindex
  <2>2. r.block = h
    BY <2>1 DEF SpendingsIn
  <2> QED
    BY <1>2, <1>4, <2>1, <2>2
<1>9. IndexInv'
  BY <1>5, <1>6, <1>7, <1>8 DEF IndexInv
<1> QED
  BY <1>2, <1>3, <1>9 DEF IntactInv

\* Every step of the node keeps the invariant, but for a command beside another
\* branch.
LEMMA StepIntact ==
  ASSUME IntactInv, [NodeNext]_nodeVars, MainOnly'
  PROVE  IntactInv'
<1>1. CASE UNCHANGED nodeVars
  BY <1>1, KeepNodeInv DEF nodeVars, ledger, nodeLocals
<1>2. ASSUME NEW t \in Tx, CancelTransaction(t) \/ ReceivedNewTransaction(t) \/ HandleTx(t)
      PROVE  IntactInv'
  BY <1>1, <1>2, KeepNodeInv DEF CancelTransaction, ReceivedNewTransaction, HandleTx, nodeLocals
<1>3. CASE CleanUnapprovedCache \/ PrepareNewBlock \/ CancelOld \/ AttachNew
  BY <1>3, KeepNodeInv DEF CleanUnapprovedCache, PrepareNewBlock, CancelOld, AttachNew, nodeLocals
<1>4. CASE ReplaceDone
  BY <1>4, KeepNodeInv DEF ReplaceDone, NodeReturn, ledger
<1>5. ASSUME NEW b \in Hash, NodeAddBlock(b) \/ NodeRejectBlock(b)
      PROVE  IntactInv'
  BY <1>1, <1>5, AddBlockNode DEF NodeRejectBlock
<1>6. CASE NodeDropBlock \/ ReindexData
  <2>1. Beside = {}
    BY <1>6 DEF NodeDropBlock, ReindexData, MainOnly, Beside
  <2> QED
    BY <1>6, <2>1, DropBlockNode, ReindexNode
<1>7. CASE NodeHasDied
  BY <1>1, <1>7 DEF NodeHasDied
<1>8. CASE StoreDrops \/ NodeBlockRemoved \/ StoreStep \/ NodeBlockAdded
  BY <1>8, StoreDropsNode, BlockRemovedNode, StoreStepNode, BlockAddedNode
<1> QED
  BY <1>1, <1>2, <1>3, <1>4, <1>5, <1>6, <1>7, <1>8 DEF NodeNext

\* The marks "beside" and "twice" stay.
LEMMA MarksStay ==
  ASSUME [NodeNext]_nodeVars
  PROVE  (MainOnly' => MainOnly) /\ (Tidy' => Tidy)
<1>1. past' \in {past, past \cup {"twice"}, past \cup {"dropped"} \cup Beside,
                 (past \ {"dropped"}) \cup Beside}
  BY DEF NodeNext, NodeDropBlock, StoreDrops, NodeBlockRemoved, ReindexData, CleanUnapprovedCache,
     CancelTransaction, NodeAddBlock, NodeRejectBlock, StoreStep, NodeBlockAdded, CancelOld,
     AttachNew, ReplaceDone, NodeHasDied, ReceivedNewTransaction, HandleTx, PrepareNewBlock,
     nodeVars
<1> QED
  BY <1>1 DEF MainOnly, Tidy

(***************************************************************************)
(* The transactions index agrees with the block store whenever a block is  *)
(* verified, on every branch, as long as dropblock and reindexcache were   *)
(* run only when nothing but the main chain was stored.                    *)
(***************************************************************************)
THEOREM NodeInvariance == NodeSpec => []NodeInv
<1>1. NodeInit => NodeInv
  BY InitNode DEF NodeInv
<1>2. NodeInv /\ [NodeNext]_nodeVars => NodeInv'
  BY StepIntact, MarksStay DEF NodeInv
<1> QED
  BY <1>1, <1>2, PTL DEF NodeSpec

(***************************************************************************)
(* As long as that is so, no branch that a node stores, the main one or    *)
(* another, spends an output in two blocks or an output that it does not   *)
(* have.                                                                   *)
(***************************************************************************)
THEOREM NoDoubleSpends == NodeSpec => []NoDoubleSpend
<1>1. NodeInv => NoDoubleSpend
  BY DEF NodeInv, IntactInv, NoDoubleSpend
<1> QED
  BY NodeInvariance, <1>1, PTL

-----------------------------------------------------------------------------
(***************************************************************************)
(* The pool                                                                *)
(***************************************************************************)

\* A pool with fewer transactions is as good.
LEMMA SmallerPool ==
  ASSUME NEW p \in GoodPools, NEW q \in SUBSET p
  PROVE  q \in GoodPools
<1>1. IsFiniteSet(q)
  BY FS_Subset DEF GoodPools
<1> QED
  BY <1>1 DEF GoodPools

\* Add lets a transaction in that has no input in common with another one.
LEMMA AddGood ==
  ASSUME NEW p \in GoodPools, NEW t \in Tx, ~ IsCoinbase(t)
  PROVE  Add(p, t) \in GoodPools
<1>1. CASE Conflicts(p, t)
  BY <1>1 DEF Add
<1>2. CASE ~ Conflicts(p, t)
  <2>1. Add(p, t) = p \cup {t} /\ \A u \in p : InsOf(u) \cap InsOf(t) = {}
    BY <1>2 DEF Add, Conflicts
  <2>2. IsFiniteSet(p \cup {t})
    BY FS_AddElement DEF GoodPools
  <2> QED
    BY <2>1, <2>2 DEF GoodPools
<1> QED
  BY <1>1, <1>2

\* The transactions of a cancelled block come back to the pool, no others do.
LEMMA CanceledGood ==
  ASSUME NEW p \in GoodPools, NEW b \in Hash
  PROVE  /\ AddFromCanceled(p, b) \in GoodPools
         /\ AddFromCanceled(p, b) \subseteq p \cup TxsOf(b)
<1> DEFINE list == Txs[b]
           n == Len(list)
           D == {q \in GoodPools : q \subseteq p \cup TxsOf(b)}
           step(i, q) == IF IsCoinbase(list[i]) THEN q ELSE Add(q, list[i])
           Eq(f) == f = [i \in 0 .. n |-> IF i = 0 THEN p ELSE step(i, f[i - 1])]
           acc == CHOOSE f : Eq(f)
           G == [i \in 1 .. n |-> [q \in D |-> step(i, q)]]
<1>1. AddFromCanceled(p, b) = acc[n]
  BY DEF AddFromCanceled, Loop
<1>2. list \in Seq(Tx) /\ n \in Nat /\ list \in [1 .. n -> Tx] /\ p \in D
  BY LedgerAssumption
<1>3. ASSUME NEW i \in 1 .. n, NEW q \in D
      PROVE  step(i, q) \in D
  <2>1. list[i] \in Tx /\ list[i] \in TxsOf(b)
    BY <1>2 DEF TxsOf, Range
  <2>2. Add(q, list[i]) \subseteq q \cup {list[i]}
    BY DEF Add
  <2> QED
    BY <2>1, <2>2, AddGood
<1> HIDE DEF n, D, step, acc
<1>4. G \in [1 .. n -> [D -> D]]
  BY <1>3
<1>5. \A i \in 1 .. n : \A q \in D : G[i][q] = step(i, q)
  OBVIOUS
<1> HIDE DEF G
<1>6. PICK f : Accumulates(f, n, D, p, G)
  BY <1>2, <1>4, LoopExists
<1>7. Eq(f)
  <2>1. f \in [0 .. n -> D] /\ f[0] = p /\ \A i \in 1 .. n : f[i] = G[i][f[i - 1]]
    BY <1>6 DEF Accumulates
  <2>2. ASSUME NEW i \in 1 .. n
        PROVE  f[i] = step(i, f[i - 1])
    <3>1. f[i - 1] \in D
      BY <1>2, <2>1
    <3> QED
      BY <1>5, <2>1, <3>1
  <2> QED
    BY <1>2, <2>1, <2>2
<1>8. Eq(acc)
  <2> HIDE DEF Eq
  <2> QED
    BY <1>7 DEF acc
<1>9. Accumulates(acc, n, D, p, G)
  <2>1. acc[0] = p /\ \A i \in 1 .. n : acc[i] = step(i, acc[i - 1])
    BY <1>2, <1>8
  <2>2. acc = [i \in 0 .. n |-> acc[i]]
    BY <1>8
  <2>3. \A i \in 1 .. n : acc[i - 1] \in D => acc[i] = G[i][acc[i - 1]]
    BY <1>5, <2>1
  <2> QED
    BY <1>2, <1>4, <2>1, <2>2, <2>3, LoopRuns
<1>10. acc[n] \in D
  BY <1>2, <1>9 DEF Accumulates
<1> QED
  BY <1>1, <1>10 DEF D

\* Transactions can be listed by their time.
LEMMA OldestFirstLists ==
  ASSUME NEW T \in SUBSET Tx, IsFiniteSet(T)
  PROVE  /\ OldestFirst(T) \in Seq(T)
         /\ \A i, j \in DOMAIN OldestFirst(T) : OldestFirst(T)[i] = OldestFirst(T)[j] => i = j
<1> DEFINE R == {p \in Tx \X Tx : Time[p[1]] <= Time[p[2]]}
           m == Cardinality(T)
           N == {n \in 0 .. m : \A S \in SUBSET T :
                   IsFiniteSet(S) /\ Cardinality(S) = n => \E s : ListsBy(s, S, R)}
<1>0. m \in Nat
  BY FS_CardinalityType
<1>1. 0 \in N
  <2>1. ASSUME NEW S \in SUBSET T, IsFiniteSet(S), Cardinality(S) = 0
        PROVE  ListsBy(<<>>, S, R)
    <3>1. S = {}
      BY <2>1, FS_EmptySet
    <3> QED
      BY <2>1, <3>1 DEF ListsBy, Range
  <2> HIDE DEF R
  <2> QED
    BY <1>0, <2>1
<1>2. ASSUME NEW n \in 1 .. m, n - 1 \in N
      PROVE  n \in N
  <2> SUFFICES ASSUME NEW S \in SUBSET T, IsFiniteSet(S), Cardinality(S) = n
               PROVE  \E s : ListsBy(s, S, R)
    BY <1>0
  <2>1. PICK t \in S : \A u \in S : Time[t] <= Time[u]
    <3> DEFINE Times == {Time[u] : u \in S}
    <3>1. S # {}
      BY FS_EmptySet
    <3>2. Times \in SUBSET Nat /\ Times # {}
      BY <3>1, LedgerAssumption
    <3>3. \E k \in Times : \A l \in Times : k <= l
      <4> HIDE DEF Times
      <4> QED
        BY <3>2, LeastNumber
    <3> QED
      BY <3>3
  <2> DEFINE U == S \ {t}
  <2>2. IsFiniteSet(U) /\ Cardinality(U) = n - 1 /\ U \in SUBSET T
    BY FS_RemoveElement
  <2>3. t \notin U /\ S = U \cup {t} /\ \A u \in U : <<t, u>> \in R
    BY <2>1
  <2> HIDE DEF U, R
  <2>4. PICK s : ListsBy(s, U, R)
    BY <1>2, <2>2
  <2> QED
    BY <2>2, <2>3, <2>4, ListsByCons
<1>3. m \in N
  <2> HIDE DEF N, m
  <2>1. \A n \in 0 .. m : n \in N
    BY <1>0, <1>1, <1>2, NumberInduction
  <2> QED
    BY <1>0, <2>1
<1>4. PICK s : ListsBy(s, T, R)
  BY <1>3
<1>5. /\ s \in [1 .. m -> T] /\ Range(s) = T
      /\ \A i, j \in DOMAIN s : i < j => Time[s[i]] <= Time[s[j]]
  BY <1>4 DEF ListsBy
<1> DEFINE list == OldestFirst(T)
<1>6. list \in [1 .. m -> T] /\ Range(list) = T
  BY <1>5 DEF OldestFirst
<1> HIDE DEF list, m
<1>7. list \in Seq(T)
  BY <1>0, <1>6
<1>8. list \in Injection(1 .. m, T)
  <2>1. list \in Surjection(1 .. m, T)
    BY <1>6 DEF Surjection, Range
  <2>2. IsFiniteSet(1 .. m) /\ Cardinality(1 .. m) = m
    BY <1>0, FS_Interval
  <2> QED
    BY <2>1, <2>2, FS_SurjSameCardinalityImpliesInj DEF m
<1> QED
  BY <1>7, <1>8 DEF list, Injection, IsInjective

\* Each transaction of the list verifies on the main chain after those before it.
Verified(s) ==
  \A i \in 1 .. Len(s) : VerifyTransaction(s[i], {s[j] : j \in 1 .. i - 1}, NoHash)

\* No transaction is in the list twice.
NoTwice(s) == \A i, j \in 1 .. Len(s) : s[i] = s[j] => i = j

\* A transaction that verifies after all those of the list may be added to it.
LEMMA AppendVerified ==
  ASSUME NEW T, NEW s \in Seq(T), NEW t \in T
  PROVE  LET r == Append(s, t)
         IN  /\ Verified(s) /\ VerifyTransaction(t, Range(s), NoHash) => Verified(r)
             /\ NoTwice(s) /\ t \notin Range(s) => NoTwice(r)
<1> DEFINE r == Append(s, t)
<1>1. /\ r \in Seq(T) /\ Len(s) \in Nat /\ Len(r) = Len(s) + 1
      /\ \A i \in 1 .. Len(s) : r[i] = s[i]
      /\ r[Len(s) + 1] = t
      /\ Range(s) = {s[j] : j \in 1 .. Len(s)}
  BY AppendProperties DEF Range
<1> HIDE DEF r
<1>2. ASSUME Verified(s), VerifyTransaction(t, Range(s), NoHash), NEW i \in 1 .. Len(r)
      PROVE  VerifyTransaction(r[i], {r[j] : j \in 1 .. i - 1}, NoHash)
  <2>1. {r[j] : j \in 1 .. i - 1} = {s[j] : j \in 1 .. i - 1}
    BY <1>1
  <2>2. CASE i = Len(s) + 1
    <3>1. r[i] = t /\ {s[j] : j \in 1 .. i - 1} = Range(s)
      BY <1>1, <2>2
    <3> QED
      BY <1>2, <2>1, <3>1
  <2>3. CASE i # Len(s) + 1
    <3>1. i \in 1 .. Len(s) /\ r[i] = s[i]
      BY <1>1, <2>3
    <3> QED
      BY <1>2, <2>1, <3>1 DEF Verified
  <2> QED
    BY <2>2, <2>3
<1>3. ASSUME NoTwice(s), t \notin Range(s)
      PROVE  NoTwice(r)
  BY <1>1, <1>3 DEF NoTwice
<1> QED
  BY <1>2, <1>3 DEF r, Verified

\* The transactions that are found valid for a new block.
LEMMA ValidOfLists ==
  ASSUME NEW T \in SUBSET Tx, IsFiniteSet(T)
  PROVE  ValidOf(T) \in Seq(T) /\ Verified(ValidOf(T)) /\ NoTwice(ValidOf(T))
<1> DEFINE list == OldestFirst(T)
           n == Len(list)
           D == {s \in Seq(T) : Verified(s)}
           step(i, s) == IF VerifyTransaction(list[i], Range(s), NoHash) THEN Append(s, list[i]) ELSE s
           Eq(f) == f = [i \in 0 .. n |-> IF i = 0 THEN <<>> ELSE step(i, f[i - 1])]
           acc == CHOOSE f : Eq(f)
           G == [i \in 1 .. n |-> [s \in D |-> step(i, s)]]
<1>1. ValidOf(T) = acc[n]
  BY DEF ValidOf, Loop
<1>2. /\ n \in Nat /\ list \in [1 .. n -> T]
      /\ \A i, j \in 1 .. n : list[i] = list[j] => i = j
  BY OldestFirstLists
<1>3. <<>> \in D /\ Range(<<>>) = {} /\ NoTwice(<<>>)
  BY DEF Verified, NoTwice, Range
<1>4. ASSUME NEW i \in 1 .. n, NEW s \in D
      PROVE  step(i, s) \in D
  <2>1. list[i] \in T
    BY <1>2
  <2> HIDE DEF list
  <2> QED
    BY <2>1, AppendRange, AppendVerified
<1>5. ASSUME NEW i \in 1 .. n, NEW s \in D
      PROVE  /\ Range(step(i, s)) \subseteq Range(s) \cup {list[i]}
             /\ NoTwice(s) /\ list[i] \notin Range(s) => NoTwice(step(i, s))
  <2>1. list[i] \in T
    BY <1>2
  <2> HIDE DEF list
  <2> QED
    BY <2>1, AppendRange, AppendVerified
<1> HIDE DEF list, n, D, step, acc
<1>6. G \in [1 .. n -> [D -> D]] /\ \A i \in 1 .. n : \A s \in D : G[i][s] = step(i, s)
  BY <1>4
<1> HIDE DEF G
<1>7. PICK f : Accumulates(f, n, D, <<>>, G)
  BY <1>2, <1>3, <1>6, LoopExists
<1>8. Eq(f)
  <2>1. f \in [0 .. n -> D] /\ f[0] = <<>> /\ \A i \in 1 .. n : f[i] = G[i][f[i - 1]]
    BY <1>7 DEF Accumulates
  <2>2. ASSUME NEW i \in 1 .. n
        PROVE  f[i] = step(i, f[i - 1])
    <3>1. f[i - 1] \in D
      BY <1>2, <2>1
    <3> QED
      BY <1>6, <2>1, <3>1
  <2>3. \A i \in 0 .. n : f[i] = IF i = 0 THEN <<>> ELSE step(i, f[i - 1])
    BY <1>2, <2>1, <2>2
  <2> QED
    BY <2>1, <2>3
<1>9. Eq(acc)
  <2> HIDE DEF Eq
  <2> QED
    BY <1>8 DEF acc
<1>10. acc[0] = <<>> /\ \A i \in 1 .. n : acc[i] = step(i, acc[i - 1])
  BY <1>2, <1>9
<1>11. Accumulates(acc, n, D, <<>>, G)
  <2>1. acc = [i \in 0 .. n |-> acc[i]]
    BY <1>9
  <2>2. \A i \in 1 .. n : acc[i - 1] \in D => acc[i] = G[i][acc[i - 1]]
    BY <1>6, <1>10
  <2> QED
    BY <1>2, <1>3, <1>6, <1>10, <2>1, <2>2, LoopRuns
<1>12. \A i \in 0 .. n : acc[i] \in D
  BY <1>11 DEF Accumulates
<1> DEFINE S == {i \in 0 .. n : NoTwice(acc[i]) /\ Range(acc[i]) \subseteq {list[j] : j \in 1 .. i}}
<1>13. 0 \in S
  BY <1>2, <1>3, <1>10
<1>14. ASSUME NEW i \in 1 .. n, i - 1 \in S
       PROVE  i \in S
  <2>1. /\ acc[i - 1] \in D /\ NoTwice(acc[i - 1]) /\ i \in 0 .. n
        /\ Range(acc[i - 1]) \subseteq {list[j] : j \in 1 .. i - 1}
    BY <1>2, <1>12, <1>14
  <2>2. list[i] \notin {list[j] : j \in 1 .. i - 1}
    BY <1>2
  <2>3. {list[j] : j \in 1 .. i} = {list[j] : j \in 1 .. i - 1} \cup {list[i]}
    BY <1>2
  <2> QED
    BY <1>5, <1>10, <2>1, <2>2, <2>3
<1>15. n \in S
  <2> HIDE DEF S
  <2>1. \A i \in 0 .. n : i \in S
    BY <1>2, <1>13, <1>14, NumberInduction
  <2> QED
    BY <1>2, <2>1
<1> QED
  BY <1>1, <1>2, <1>12, <1>15 DEF D

\* DetectConflicts takes nothing away from transactions of a good pool.
LEMMA NothingDetected ==
  ASSUME NEW T \in GoodPools, NEW list \in Seq(T), NoTwice(list)
  PROVE  DetectConflicts(list).good = list
<1> DEFINE n == Len(list)
           free(a, t) == {k \in DOMAIN Ins[t] : \A j \in 1 .. k : Ins[t][j] \notin a.used}
           used(a, t) == a.used \cup {Ins[t][k] : k \in free(a, t)}
           step(i, a) ==
             IF free(a, list[i]) = DOMAIN Ins[list[i]]
             THEN [good |-> Append(a.good, list[i]), bad |-> a.bad, used |-> used(a, list[i])]
             ELSE [good |-> a.good, bad |-> a.bad \cup {list[i]}, used |-> used(a, list[i])]
           start == [good |-> <<>>, bad |-> {}, used |-> {}]
           Eq(f) == f = [i \in 0 .. n |-> IF i = 0 THEN start ELSE step(i, f[i - 1])]
           acc == CHOOSE f : Eq(f)
           first(i) == [j \in 1 .. i |-> list[j]]
           use(i) == UNION {InsOf(list[j]) : j \in 1 .. i}
           w == [i \in 0 .. n |-> [good |-> first(i), bad |-> {}, used |-> use(i)]]
<1>1. DetectConflicts(list) = acc[n]
  BY DEF DetectConflicts, Loop
<1>2. n \in Nat /\ list \in [1 .. n -> T] /\ T \subseteq Tx
  BY DEF GoodPools
<1>w. w = [i \in 0 .. n |-> w[i]] /\ \A i \in 0 .. n : w[i] = [good |-> first(i), bad |-> {}, used |-> use(i)]
  OBVIOUS
<1> HIDE DEF w
<1>3. w[0] = start
  <2>1. first(0) = <<>> /\ use(0) = {}
    OBVIOUS
  <2> HIDE DEF first, use
  <2> QED
    BY <1>2, <1>w, <2>1
<1>4. ASSUME NEW i \in 1 .. n
      PROVE  w[i] = step(i, w[i - 1])
  <2> DEFINE t == list[i]
             a == w[i - 1]
  <2>1. i - 1 \in 0 .. n /\ i \in 0 .. n /\ t \in T /\ t \in Tx
    BY <1>2
  <2>2. a.good = first(i - 1) /\ a.bad = {} /\ a.used = use(i - 1)
    <3> HIDE DEF first, use
    <3> QED
      BY <1>w, <2>1
  <2>3. ASSUME NEW j \in 1 .. i - 1
        PROVE  InsOf(list[j]) \cap InsOf(t) = {}
    BY <1>2, <2>1 DEF GoodPools, NoTwice
  <2>4. InsOf(t) \cap use(i - 1) = {}
    BY <2>3
  <2>5. Ins[t] \in Seq(Tx \X Nat) /\ DOMAIN Ins[t] = 1 .. Len(Ins[t]) /\ Len(Ins[t]) \in Nat
    BY <2>1, LedgerAssumption
  <2>6. use(i) = use(i - 1) \cup InsOf(t) /\ Append(first(i - 1), t) = first(i)
    <3>1. 1 .. i = (1 .. i - 1) \cup {i}
      BY <1>2
    <3>2. use(i) = use(i - 1) \cup InsOf(t)
      BY <3>1
    <3>3. Append(first(i - 1), t) = first(i)
      BY <1>2, <2>1
    <3> QED
      BY <3>2, <3>3
  <2> HIDE DEF t, a, first, use
  <2>7. \A k \in DOMAIN Ins[t] : Ins[t][k] \notin a.used
    BY <2>2, <2>4 DEF InsOf, Range
  <2>8. free(a, t) = DOMAIN Ins[t]
    <3>1. \A k \in DOMAIN Ins[t] : \A j \in 1 .. k : j \in DOMAIN Ins[t]
      BY <2>5
    <3> QED
      BY <2>7, <3>1
  <2>9. used(a, t) = use(i)
    BY <2>2, <2>6, <2>8 DEF InsOf, Range
  <2> HIDE DEF free, used
  <2>10. step(i, a) = [good |-> first(i), bad |-> {}, used |-> use(i)]
    BY <2>2, <2>6, <2>8, <2>9 DEF t
  <2> QED
    BY <1>w, <2>1, <2>10 DEF a
<1>5. Eq(w)
  <2> HIDE DEF step, start
  <2>2. \A i \in 0 .. n : w[i] = IF i = 0 THEN start ELSE step(i, w[i - 1])
    BY <1>2, <1>3, <1>4
  <2> QED
    BY <1>w, <2>2
<1> HIDE DEF step, start, acc, n
<1>6. Eq(acc)
  <2> HIDE DEF Eq
  <2> QED
    BY <1>5 DEF acc
<1>7. /\ acc[0] = w[0] /\ \A i \in 1 .. n : acc[i] = step(i, acc[i - 1])
  BY <1>2, <1>3, <1>6
<1> DEFINE S == {i \in 0 .. n : acc[i] = w[i]}
<1>8. 0 \in S
  BY <1>2, <1>7
<1>9. ASSUME NEW i \in 1 .. n, i - 1 \in S
      PROVE  i \in S
  BY <1>2, <1>4, <1>7, <1>9
<1>10. n \in S
  <2> HIDE DEF S
  <2>1. \A i \in 0 .. n : i \in S
    BY <1>2, <1>8, <1>9, NumberInduction
  <2> QED
    BY <1>2, <2>1
<1>11. acc[n].good = first(n)
  <2> HIDE DEF first, use
  <2> QED
    BY <1>2, <1>w, <1>10
<1>12. first(n) = list
  BY <1>2
<1> QED
  BY <1>1, <1>11, <1>12

\* The block maker takes the valid ones of the transactions it reads.
LEMMA NewBlockLists ==
  ASSUME NEW T \in GoodPools
  PROVE  /\ TransactionsForNewBlock(T) \in Seq(T)
         /\ Verified(TransactionsForNewBlock(T))
         /\ NoTwice(TransactionsForNewBlock(T))
<1>1. T \in SUBSET Tx /\ IsFiniteSet(T)
  BY DEF GoodPools
<1>2. ValidOf(T) \in Seq(T) /\ Verified(ValidOf(T)) /\ NoTwice(ValidOf(T))
  BY <1>1, ValidOfLists
<1> QED
  BY <1>2, NothingDetected DEF TransactionsForNewBlock

-----------------------------------------------------------------------------
(***************************************************************************)
(* The unspent outputs                                                     *)
(***************************************************************************)

\* Records of unspent outputs have their type.
LEMMA UnspentsType ==
  ASSUME NEW t \in Tx, NEW b \in Hash, NEW outs \in SUBSET Outs[t], NEW base \in BOOLEAN
  PROVE  Unspents(t, b, outs, base) \subseteq UtxoRecord
<1>1. \A o \in outs : o \in UNION {Outs[x] : x \in Tx}
  OBVIOUS
<1> QED
  BY <1>1 DEF Unspents, UtxoRecord

\* The bucket of unspent outputs.
UtxoBuckets == [Tx -> SUBSET UtxoRecord]

\* The bucket after each transaction of a block that is added.
LEMMA AddLoop ==
  ASSUME NEW b \in Hash, NEW u \in UtxoBuckets
  PROVE  \E f \in [0 .. Len(Txs[b]) -> UtxoBuckets] :
           /\ f[0] = u
           /\ \A i \in 1 .. Len(Txs[b]) : f[i] = UtxoAddTx(f[i - 1], Txs[b][i], b)
           /\ UpdateOnBlockAdd(u, b) = f[Len(Txs[b])]
<1> DEFINE list == Txs[b]
           n == Len(list)
           D == UtxoBuckets
           step(i, a) == UtxoAddTx(a, list[i], b)
           Eq(f) == f = [i \in 0 .. n |-> IF i = 0 THEN u ELSE step(i, f[i - 1])]
           acc == CHOOSE f : Eq(f)
           G == [i \in 1 .. n |-> [a \in D |-> step(i, a)]]
<1>1. UpdateOnBlockAdd(u, b) = acc[n]
  BY DEF UpdateOnBlockAdd, Loop
<1>2. list \in Seq(Tx) /\ n \in Nat /\ list \in [1 .. n -> Tx] /\ u \in D
  BY LedgerAssumption
<1>3. ASSUME NEW i \in 1 .. n, NEW a \in D
      PROVE  step(i, a) \in D
  <2>1. list[i] \in Tx /\ IsCoinbase(list[i]) \in BOOLEAN
    BY <1>2 DEF IsCoinbase
  <2>2. Unspents(list[i], b, Outs[list[i]], IsCoinbase(list[i])) \subseteq UtxoRecord
    BY <2>1, UnspentsType
  <2> QED
    BY <2>1, <2>2 DEF UtxoAddTx, UtxoBuckets
<1> HIDE DEF n, D, step, acc
<1>4. G \in [1 .. n -> [D -> D]] /\ \A i \in 1 .. n : \A a \in D : G[i][a] = step(i, a)
  BY <1>3
<1> HIDE DEF G
<1>5. PICK f : Accumulates(f, n, D, u, G)
  BY <1>2, <1>4, LoopExists
<1>6. Eq(f)
  <2>1. f \in [0 .. n -> D] /\ f[0] = u /\ \A i \in 1 .. n : f[i] = G[i][f[i - 1]]
    BY <1>5 DEF Accumulates
  <2>2. ASSUME NEW i \in 1 .. n
        PROVE  f[i] = step(i, f[i - 1])
    <3>1. f[i - 1] \in D
      BY <1>2, <2>1
    <3> QED
      BY <1>4, <2>1, <3>1
  <2>3. \A i \in 0 .. n : f[i] = IF i = 0 THEN u ELSE step(i, f[i - 1])
    BY <1>2, <2>1, <2>2
  <2> QED
    BY <2>1, <2>3
<1>7. Eq(acc)
  <2> HIDE DEF Eq
  <2> QED
    BY <1>6 DEF acc
<1>8. acc[0] = u /\ \A i \in 1 .. n : acc[i] = step(i, acc[i - 1])
  BY <1>2, <1>7
<1>9. Accumulates(acc, n, D, u, G)
  <2>1. acc = [i \in 0 .. n |-> acc[i]]
    BY <1>7
  <2>2. \A i \in 1 .. n : acc[i - 1] \in D => acc[i] = G[i][acc[i - 1]]
    BY <1>4, <1>8
  <2> QED
    BY <1>2, <1>4, <1>8, <2>1, <2>2, LoopRuns
<1>10. acc \in [0 .. n -> D]
  BY <1>9 DEF Accumulates
<1> QED
  BY <1>1, <1>8, <1>10 DEF D, n, step

(***************************************************************************)
(* A block goes on top of the blocks B: its inputs go, its outputs come,   *)
(* also those that the block itself spends, which then go again.           *)
(***************************************************************************)
LEMMA UtxoAdded ==
  ASSUME NEW b \in Hash, NEW B \in SUBSET Hash, BlockIsOrdered(b),
         TxsOf(b) \cap TxsIn(B) = {},
         \A t \in TxsIn(B) : \A i \in InsOf(t) : i[1] \in TxsIn(B),
         NEW u \in UtxoBuckets,
         \A t \in Tx : u[t] \subseteq Unspent(B, t)
  PROVE  \A t \in Tx : UpdateOnBlockAdd(u, b)[t] \subseteq Unspent(B \cup {b}, t)
<1> DEFINE list == Txs[b]
           n == Len(list)
<1>1. PICK acc \in [0 .. n -> UtxoBuckets] :
        /\ acc[0] = u
        /\ \A i \in 1 .. n : acc[i] = UtxoAddTx(acc[i - 1], list[i], b)
        /\ UpdateOnBlockAdd(u, b) = acc[n]
  BY AddLoop
<1>2. list \in Seq(Tx) /\ n \in Nat /\ list \in [1 .. n -> Tx]
  BY LedgerAssumption
<1> HIDE DEF n
\* The records after i transactions of the block.
<1> DEFINE First(i) == {list[j] : j \in 1 .. i}
           Right(i, x) == {r \in UtxoRecord :
                             /\ r.out \in Outs[x]
                             /\ <<x, r.out>> \notin Spends(TxsIn(B))
                             /\ <<x, r.out>> \notin Spends(First(i))}
           S == {i \in 0 .. n : \A x \in Tx : acc[i][x] \subseteq Right(i, x)}
<1>11. 0 \in S
  <2>1. First(0) = {} /\ Spends({}) = {}
    BY DEF Spends
  <2>2. \A x \in Tx : Unspent(B, x) \subseteq Right(0, x)
    <3> HIDE DEF First
    <3> QED
      BY <2>1 DEF Unspent
  <2> HIDE DEF Right
  <2> QED
    BY <1>1, <1>2, <2>2
<1>12. ASSUME NEW i \in 1 .. n, i - 1 \in S, NEW x \in Tx
       PROVE  acc[i][x] \subseteq Right(i, x)
  <2> DEFINE t == list[i]
  <2>1. /\ acc[i - 1] \in UtxoBuckets /\ acc[i - 1][x] \subseteq Right(i - 1, x)
        /\ t \in Tx /\ t \in TxsOf(b) /\ i \in DOMAIN Txs[b]
    BY <1>1, <1>2, <1>12 DEF TxsOf, Range
  <2>2. First(i) = First(i - 1) \cup {t}
    BY <1>2
  <2>3. Spends(First(i)) = Spends(First(i - 1)) \cup InsOf(t)
    <3> HIDE DEF First, t
    <3> QED
      BY <2>2 DEF Spends
  <2>4. acc[i][x] = IF x = t THEN Unspents(t, b, Outs[t], IsCoinbase(t))
                    ELSE {r \in acc[i - 1][x] : <<x, r.out>> \notin InsOf(t)}
    <3>1. acc[i] = UtxoAddTx(acc[i - 1], t, b)
      BY <1>1
    <3> HIDE DEF t
    <3> QED
      BY <3>1 DEF UtxoAddTx
  <2>5. CASE x # t
    <3> HIDE DEF First, t
    <3> QED
      BY <2>1, <2>3, <2>4, <2>5
  <2>6. CASE x = t
    <3>1. Unspents(t, b, Outs[t], IsCoinbase(t)) \subseteq UtxoRecord
      BY <2>1, UnspentsType DEF IsCoinbase
    <3>2. \A o : <<t, o>> \notin Spends(TxsIn(B))
      BY <2>1 DEF Spends
    <3>3. \A o : <<t, o>> \notin Spends(First(i))
      <4> SUFFICES ASSUME NEW o, NEW k \in 1 .. i, <<t, o>> \in InsOf(list[k])
                   PROVE  FALSE
        BY DEF Spends
      <4>1. k \in DOMAIN Txs[b] /\ k \in Nat /\ i \in Nat /\ k <= i
        BY <1>2
      <4>2. i < k
        BY <2>1, <4>1 DEF BlockIsOrdered
      <4> QED
        BY <4>1, <4>2
    <3> HIDE DEF First, t
    <3>4. ASSUME NEW r \in Unspents(t, b, Outs[t], IsCoinbase(t))
          PROVE  r \in UtxoRecord /\ r.out \in Outs[t]
      BY <3>1 DEF Unspents
    <3> QED
      BY <2>1, <2>4, <2>6, <3>2, <3>3, <3>4
  <2> QED
    BY <2>5, <2>6
<1>13. n \in S
  <2>1. ASSUME NEW i \in 1 .. n, i - 1 \in S
        PROVE  i \in S
    <3>1. i \in 0 .. n
      BY <1>2
    <3> HIDE DEF Right
    <3> QED
      BY <1>12, <2>1, <3>1
  <2> HIDE DEF S
  <2>2. \A i \in 0 .. n : i \in S
    BY <1>2, <1>11, <2>1, NumberInduction
  <2> QED
    BY <1>2, <2>2
<1>14. \A x \in Tx : Right(n, x) \subseteq Unspent(B \cup {b}, x)
  <2>1. First(n) = TxsOf(b)
    BY <1>2 DEF TxsOf, Range
  <2>2. TxsIn(B \cup {b}) = TxsIn(B) \cup TxsOf(b)
    BY DEF TxsIn
  <2>3. Spends(TxsIn(B \cup {b})) = Spends(TxsIn(B)) \cup Spends(TxsOf(b))
    BY <2>2 DEF Spends
  <2> HIDE DEF First
  <2> QED
    BY <2>1, <2>3 DEF Unspent
<1>15. \A x \in Tx : acc[n][x] \subseteq Unspent(B \cup {b}, x)
  <2> HIDE DEF Right
  <2> QED
    BY <1>13, <1>14
<1> QED
  BY <1>1, <1>15

\* The records that come name the block.
LEMMA PlacedAdded ==
  ASSUME NEW b \in Hash, NEW B, NEW u \in UtxoBuckets,
         \A t \in Tx : u[t] \subseteq Placed(B, t)
  PROVE  \A t \in Tx : UpdateOnBlockAdd(u, b)[t] \subseteq Placed(B \cup {b}, t)
<1> DEFINE n == Len(Txs[b])
<1>1. PICK acc \in [0 .. n -> UtxoBuckets] :
        /\ acc[0] = u
        /\ \A i \in 1 .. n : acc[i] = UtxoAddTx(acc[i - 1], Txs[b][i], b)
        /\ UpdateOnBlockAdd(u, b) = acc[n]
  BY AddLoop
<1>2. n \in Nat /\ Txs[b] \in [1 .. n -> Tx]
  BY LedgerAssumption
<1> HIDE DEF n
<1> DEFINE S == {i \in 0 .. n : \A x \in Tx : acc[i][x] \subseteq Placed(B \cup {b}, x)}
<1>3. 0 \in S
  <2>1. \A x \in Tx : Placed(B, x) \subseteq Placed(B \cup {b}, x)
    BY DEF Placed
  <2>2. \A x \in Tx : acc[0][x] \subseteq Placed(B \cup {b}, x)
    BY <1>1, <2>1
  <2>3. 0 \in 0 .. n
    BY <1>2
  <2> QED
    BY <2>2, <2>3
<1>4. ASSUME NEW i \in 1 .. n, i - 1 \in S
      PROVE  i \in S
  <2> DEFINE t == Txs[b][i]
  <2>1. /\ i \in 0 .. n /\ t \in Tx /\ t \in TxsOf(b)
        /\ acc[i] = UtxoAddTx(acc[i - 1], t, b)
    BY <1>1, <1>2 DEF TxsOf, Range
  <2>2. Unspents(t, b, Outs[t], IsCoinbase(t)) \subseteq UtxoRecord
    BY <2>1, UnspentsType DEF IsCoinbase
  <2> HIDE DEF t
  <2>3. ASSUME NEW r \in Unspents(t, b, Outs[t], IsCoinbase(t))
        PROVE  r \in Placed(B \cup {b}, t)
    <3>1. r.block = b
      BY DEF Unspents
    <3> QED
      BY <2>1, <2>2, <3>1 DEF Placed
  <2>4. ASSUME NEW x \in Tx
        PROVE  acc[i][x] \subseteq Placed(B \cup {b}, x)
    <3>1. acc[i][x] = IF x = t THEN Unspents(t, b, Outs[t], IsCoinbase(t))
                      ELSE {r \in acc[i - 1][x] : <<x, r.out>> \notin InsOf(t)}
      BY <2>1 DEF UtxoAddTx
    <3> QED
      BY <1>4, <2>3, <3>1
  <2> QED
    BY <2>1, <2>4
<1>5. n \in S
  <2> HIDE DEF S
  <2>1. \A i \in 0 .. n : i \in S
    BY <1>2, <1>3, <1>4, NumberInduction
  <2> QED
    BY <1>2, <2>1
<1> QED
  BY <1>1, <1>5

-----------------------------------------------------------------------------
\* ChooseHashUnderTip returns a hash of the list, or none.
LEMMA ChosenType ==
  ASSUME NEW hashes \in Seq(Hash), NEW tip
  PROVE  ChooseHashUnderTip(hashes, tip) \in Range(hashes) \cup {NoHash}
<1>1. \A hits \in SUBSET DOMAIN hashes : hits # {} => hashes[Min(hits)] \in Range(hashes)
  BY FirstHit DEF Range
<1>2. FirstOf(hashes, InMain) \in Range(hashes) \cup {NoHash}
  <2> DEFINE hits == {i \in DOMAIN hashes : InMain(hashes[i])}
  <2>1. FirstOf(hashes, InMain) = IF hits = {} THEN NoHash ELSE hashes[Min(hits)]
    BY DEF FirstOf
  <2> QED
    BY <1>1, <2>1
<1>3. ASSUME NEW top
      PROVE  LowerInMain(hashes, top) \in Range(hashes) \cup {NoHash}
  <2> DEFINE hits == {i \in DOMAIN hashes : InMain(hashes[i]) /\ Height[hashes[i]] < Height[top]}
  <2>1. LowerInMain(hashes, top) = IF hits = {} THEN NoHash ELSE hashes[Min(hits)]
    BY DEF LowerInMain, FirstOf
  <2> QED
    BY <1>1, <2>1
<1> QED
  BY <1>2, <1>3 DEF ChooseHashUnderTip

\* What the cancelled block b gives back of the outputs of x.
GivenBack(x, b) ==
  Unspents(x, BlockOf(x, Prev[b]),
           Outs[x] \ GetTranactionOutputsSpent(x, BlockOf(x, Prev[b]), Prev[b]), FALSE)

\* It is of transactions that were found below b.
LEMMA RestoredType ==
  ASSUME txBlocks \in [Tx -> Seq(Hash)], NEW b, NEW t \in Tx, NEW x \in RestoredInputs(t, b)
  PROVE  /\ x \in Tx /\ BlockOf(x, Prev[b]) \in Hash /\ BlockOf(x, Prev[b]) # NoHash
         /\ GivenBack(x, b) \subseteq UtxoRecord
<1>1. PICK j \in DOMAIN Ins[t] : x = Ins[t][j][1] /\ FoundUpTo(t, b, j)
  BY DEF RestoredInputs
<1>2. Ins[t] \in Seq(Tx \X Nat) /\ j \in 1 .. j
  BY LedgerAssumption
<1>3. Ins[t][j] \in Tx \X Nat
  BY <1>2
<1>4. x \in Tx /\ LookUp(x, Prev[b]) = "found"
  BY <1>1, <1>2, <1>3 DEF FoundUpTo
<1>5. BlockOf(x, Prev[b]) # NoHash
  BY <1>4 DEF LookUp
<1>6. BlockOf(x, Prev[b]) \in Hash
  <2>1. txBlocks[x] \in Seq(Hash)
    BY <1>4
  <2>2. Range(txBlocks[x]) \subseteq Hash
    BY <2>1 DEF Range
  <2>3. BlockOf(x, Prev[b]) \in Range(txBlocks[x]) \cup {NoHash}
    BY <2>1, ChosenType DEF BlockOf
  <2> QED
    BY <1>5, <2>2, <2>3
<1>7. GivenBack(x, b) \subseteq UtxoRecord
  BY <1>4, <1>6, UnspentsType DEF GivenBack
<1> QED
  BY <1>4, <1>5, <1>6, <1>7

\* One transaction of a cancelled block.
LEMMA CancelStep ==
  ASSUME NEW b, NEW t, NEW a, NEW x \in Tx
  PROVE  UtxoCancelTx(a, t, b)[x]
           = IF x \in RestoredInputs(t, b) THEN GivenBack(x, b)
             ELSE IF x = t THEN {} ELSE a[x]
  BY DEF UtxoCancelTx, GivenBack

\* The bucket after each transaction of a block that is cancelled, up to the
\* m-th one, where the loop ends.
CancelRuns(f, m, u, b) ==
  /\ m \in 0 .. Len(Txs[b])
  /\ f \in [0 .. m -> UtxoBuckets]
  /\ f[0] = u
  /\ \A i \in 1 .. m : f[i] = UtxoCancelTx(f[i - 1], Txs[b][i], b)
  /\ UpdateOnBlockCancel(u, b) = f[m]
  /\ CancelledTxs(b) = DOMAIN Txs[b] => m = Len(Txs[b])

LEMMA CancelLoop ==
  ASSUME txBlocks \in [Tx -> Seq(Hash)], NEW b \in Hash, NEW u \in UtxoBuckets
  PROVE  \E f, m : CancelRuns(f, m, u, b)
<1> DEFINE N == Len(Txs[b])
           m == Cardinality(CancelledTxs(b))
           list == SubSeq(Txs[b], 1, m)
           n == Len(list)
           D == UtxoBuckets
           step(i, a) == UtxoCancelTx(a, list[i], b)
           Eq(f) == f = [i \in 0 .. n |-> IF i = 0 THEN u ELSE step(i, f[i - 1])]
           acc == CHOOSE f : Eq(f)
           G == [i \in 1 .. n |-> [a \in D |-> step(i, a)]]
<1>0. Txs[b] \in Seq(Tx) /\ N \in Nat /\ DOMAIN Txs[b] = 1 .. N /\ Txs[b] \in [1 .. N -> Tx]
  BY LedgerAssumption
<1>1. UpdateOnBlockCancel(u, b) = acc[n]
  BY DEF UpdateOnBlockCancel, Loop
<1>2. m \in 0 .. N /\ (CancelledTxs(b) = DOMAIN Txs[b] => m = N)
  <2>1. IsFiniteSet(1 .. N) /\ Cardinality(1 .. N) = N
    BY <1>0, FS_Interval
  <2>2. CancelledTxs(b) \subseteq 1 .. N
    BY <1>0 DEF CancelledTxs
  <2>3. IsFiniteSet(CancelledTxs(b)) /\ m <= N
    BY <2>1, <2>2, FS_Subset
  <2>4. m \in Nat
    BY <2>3, FS_CardinalityType
  <2> QED
    BY <1>0, <2>1, <2>3, <2>4
<1>3. n = m /\ \A i \in 1 .. m : list[i] = Txs[b][i] /\ Txs[b][i] \in Tx
  <2> HIDE DEF m, N
  <2>1. \A i \in 1 .. m : i \in 1 .. N
    BY <1>0, <1>2
  <2>2. n = m
    BY <1>0, <1>2
  <2>3. ASSUME NEW i \in 1 .. m
        PROVE  list[i] = Txs[b][i]
    BY <1>0, <1>2, <2>2
  <2> QED
    BY <1>0, <2>1, <2>2, <2>3
<1>4. ASSUME NEW i \in 1 .. n, NEW a \in D
      PROVE  step(i, a) \in D
  <2>1. list[i] \in Tx
    BY <1>3
  <2>2. step(i, a) = [x \in Tx |-> step(i, a)[x]]
    BY DEF UtxoCancelTx
  <2>3. ASSUME NEW x \in Tx
        PROVE  step(i, a)[x] \subseteq UtxoRecord
    <3>1. a[x] \subseteq UtxoRecord
      BY DEF UtxoBuckets
    <3> HIDE DEF list
    <3>2. step(i, a)[x] = IF x \in RestoredInputs(list[i], b) THEN GivenBack(x, b)
                          ELSE IF x = list[i] THEN {} ELSE a[x]
      BY CancelStep
    <3> HIDE DEF step
    <3> QED
      BY <2>1, <3>1, <3>2, RestoredType
  <2> HIDE DEF step
  <2> QED
    BY <2>2, <2>3 DEF UtxoBuckets
<1>5. n \in Nat /\ u \in D
  BY <1>2, <1>3
<1> HIDE DEF n, D, step, acc, list, m, N
<1>6. G \in [1 .. n -> [D -> D]] /\ \A i \in 1 .. n : \A a \in D : G[i][a] = step(i, a)
  BY <1>4
<1> HIDE DEF G
<1>7. PICK f : Accumulates(f, n, D, u, G)
  BY <1>5, <1>6, LoopExists
<1>8. Eq(f)
  <2>1. f \in [0 .. n -> D] /\ f[0] = u /\ \A i \in 1 .. n : f[i] = G[i][f[i - 1]]
    BY <1>7 DEF Accumulates
  <2>2. ASSUME NEW i \in 1 .. n
        PROVE  f[i] = step(i, f[i - 1])
    <3>1. f[i - 1] \in D
      BY <1>5, <2>1
    <3> QED
      BY <1>6, <2>1, <3>1
  <2>3. \A i \in 0 .. n : f[i] = IF i = 0 THEN u ELSE step(i, f[i - 1])
    BY <1>5, <2>1, <2>2
  <2> QED
    BY <2>1, <2>3
<1>9. Eq(acc)
  <2> HIDE DEF Eq
  <2> QED
    BY <1>8 DEF acc
<1>10. acc[0] = u /\ \A i \in 1 .. n : acc[i] = step(i, acc[i - 1])
  BY <1>5, <1>9
<1>11. Accumulates(acc, n, D, u, G)
  <2>1. acc = [i \in 0 .. n |-> acc[i]]
    BY <1>9
  <2>2. \A i \in 1 .. n : acc[i - 1] \in D => acc[i] = G[i][acc[i - 1]]
    BY <1>6, <1>10
  <2> QED
    BY <1>5, <1>6, <1>10, <2>1, <2>2, LoopRuns
<1>12. acc \in [0 .. m -> UtxoBuckets]
  BY <1>3, <1>11 DEF Accumulates, D
<1>13. \A i \in 1 .. m : acc[i] = UtxoCancelTx(acc[i - 1], Txs[b][i], b)
  BY <1>3, <1>10 DEF step
<1>14. CancelRuns(acc, m, u, b)
  BY <1>1, <1>2, <1>3, <1>10, <1>12, <1>13 DEF CancelRuns, N
<1> QED
  BY <1>14

(***************************************************************************)
(* The top block b is taken away: the transactions of its inputs get back  *)
(* what nothing below b spends, how far ever that gets.                    *)
(***************************************************************************)
LEMMA GivenBackIsRight ==
  ASSUME NEW b \in Hash \ {Genesis}, Covered(Prev[b]),
         NEW t \in Tx, NEW x \in RestoredInputs(t, b)
  PROVE  /\ GivenBack(x, b) \subseteq Unspent(Branch[Prev[b]], x)
         /\ GivenBack(x, b) \subseteq Placed(Branch[Prev[b]], x)
<1> DEFINE p == Prev[b]
<1>1. /\ x \in Tx /\ BlockOf(x, p) \in Hash /\ BlockOf(x, p) # NoHash
      /\ GivenBack(x, b) \subseteq UtxoRecord
  BY RestoredType DEF Covered, IndexInv
<1>2. BlockOf(x, p) \in Branch[p] /\ x \in TxsOf(BlockOf(x, p))
  BY <1>1, BlockOfFinds
<1>3. ASSUME NEW o, <<x, o>> \in Spends(TxsIn(Branch[p]))
      PROVE  o \in GetTranactionOutputsSpent(x, BlockOf(x, p), p)
  <2>0. PICK l \in Branch[p] : \E w \in TxsOf(l) : <<x, o>> \in InsOf(w)
    BY <1>3 DEF Spends, TxsIn
  <2>1. PICK w \in TxsOf(l) : <<x, o>> \in InsOf(w)
    BY <2>0
  <2> DEFINE i == <<x, o>>
  <2>2. i \in InsOf(w) /\ i[1] = x /\ i[2] = o
    BY <2>1
  <2> HIDE DEF i
  <2> QED
    BY <2>2, SpentIsSeen
<1>4. ASSUME NEW r \in GivenBack(x, b)
      PROVE  /\ r \in UtxoRecord /\ r.block = BlockOf(x, p) /\ r.out \in Outs[x]
             /\ r.out \notin GetTranactionOutputsSpent(x, BlockOf(x, p), p)
  <2> HIDE DEF p
  <2> QED
    BY <1>1 DEF GivenBack, Unspents, p
<1> HIDE DEF p
<1>5. GivenBack(x, b) \subseteq Unspent(Branch[p], x)
  BY <1>3, <1>4 DEF Unspent
<1>6. GivenBack(x, b) \subseteq Placed(Branch[p], x)
  BY <1>2, <1>4 DEF Placed
<1> QED
  BY <1>5, <1>6 DEF p

LEMMA UtxoCancelled ==
  ASSUME NEW b \in Hash \ {Genesis}, Covered(Prev[b]),
         NEW u \in UtxoBuckets, \A t \in Tx : u[t] \subseteq Unspent(Branch[b], t)
  PROVE  \A t \in Tx : UpdateOnBlockCancel(u, b)[t] \subseteq Unspent(Branch[Prev[b]], t)
<1>1. PICK f, m : CancelRuns(f, m, u, b)
  BY CancelLoop DEF Covered, IndexInv
<1>2. Txs[b] \in Seq(Tx) /\ Len(Txs[b]) \in Nat /\ Branch[b] = {b} \cup Branch[Prev[b]]
  BY LedgerAssumption, BranchStep
<1>3. m \in Nat /\ \A i \in 1 .. m : Txs[b][i] \in Tx
  BY <1>1, <1>2 DEF CancelRuns
<1> DEFINE S == {i \in 0 .. m : \A x \in Tx : f[i][x] \subseteq Unspent(Branch[Prev[b]], x)}
<1>4. 0 \in S
  <2>1. Spends(TxsIn(Branch[Prev[b]])) \subseteq Spends(TxsIn(Branch[b]))
    BY <1>2 DEF Spends, TxsIn
  <2>2. \A x \in Tx : Unspent(Branch[b], x) \subseteq Unspent(Branch[Prev[b]], x)
    BY <2>1 DEF Unspent
  <2> QED
    BY <1>1, <1>3, <2>2 DEF CancelRuns
<1>5. ASSUME NEW i \in 1 .. m, i - 1 \in S
      PROVE  i \in S
  <2>1. i \in 0 .. m /\ Txs[b][i] \in Tx /\ f[i] = UtxoCancelTx(f[i - 1], Txs[b][i], b)
    BY <1>1, <1>3 DEF CancelRuns
  <2>2. ASSUME NEW x \in Tx
        PROVE  f[i][x] \subseteq Unspent(Branch[Prev[b]], x)
    BY <1>5, <2>1, CancelStep, GivenBackIsRight
  <2> QED
    BY <2>1, <2>2
<1>6. m \in S
  <2> HIDE DEF S
  <2>1. \A i \in 0 .. m : i \in S
    BY <1>3, <1>4, <1>5, NumberInduction
  <2> QED
    BY <1>3, <2>1
<1> QED
  BY <1>1, <1>6 DEF CancelRuns

\* Between operations no input is looked up with an error: the loop goes to its end.
LEMMA NothingFails ==
  ASSUME NEW b \in Hash, Covered(Prev[b]), Indexed = blocks, topHash \in blocks
  PROVE  CancelledTxs(b) = DOMAIN Txs[b]
<1>1. ASSUME NEW t \in Tx
      PROVE  ~ CancelFails(t, b)
  <2>1. ASSUME NEW j \in DOMAIN Ins[t]
        PROVE  LookUp(Ins[t][j][1], Prev[b]) # "error"
    <3>1. Ins[t][j] \in Tx \X Nat
      BY LedgerAssumption
    <3> QED
      BY <3>1, LookUpSucceeds
  <2> QED
    BY <2>1 DEF CancelFails
<1>2. Txs[b] \in Seq(Tx)
  BY LedgerAssumption
<1>3. \A i \in DOMAIN Txs[b] : \A j \in 1 .. i - 1 : Txs[b][j] \in Tx
  BY <1>2
<1> QED
  BY <1>1, <1>3 DEF CancelledTxs

\* And then no record of the block is left.
LEMMA PlacedCancelled ==
  ASSUME NEW b \in Hash \ {Genesis}, Covered(Prev[b]), Indexed = blocks, topHash \in blocks,
         NEW u \in UtxoBuckets, \A t \in Tx : u[t] \subseteq Placed(Branch[b], t)
  PROVE  \A t \in Tx : UpdateOnBlockCancel(u, b)[t] \subseteq Placed(Branch[Prev[b]], t)
<1>1. PICK f, m : CancelRuns(f, m, u, b)
  BY CancelLoop DEF Covered, IndexInv
<1>2. /\ Txs[b] \in Seq(Tx) /\ Len(Txs[b]) \in Nat /\ Branch[b] = {b} \cup Branch[Prev[b]]
      /\ TxsOf(b) = {Txs[b][j] : j \in 1 .. Len(Txs[b])}
  BY LedgerAssumption, BranchStep DEF TxsOf, Range
<1>3. m = Len(Txs[b]) /\ m \in Nat /\ \A i \in 1 .. m : Txs[b][i] \in Tx
  BY <1>1, <1>2, NothingFails DEF CancelRuns
\* A transaction that is not in the block, or has had its turn, is right.
<1> DEFINE First(i) == {Txs[b][j] : j \in 1 .. i}
           S == {i \in 0 .. m : \A x \in Tx : x \notin TxsOf(b) \/ x \in First(i) =>
                                  f[i][x] \subseteq Placed(Branch[Prev[b]], x)}
<1>4. 0 \in S
  <2>1. First(0) = {}
    OBVIOUS
  <2>2. ASSUME NEW x \in Tx, x \notin TxsOf(b)
        PROVE  Placed(Branch[b], x) \subseteq Placed(Branch[Prev[b]], x)
    BY <1>2, <2>2 DEF Placed
  <2>3. \A x \in Tx : x \notin TxsOf(b) => f[0][x] \subseteq Placed(Branch[Prev[b]], x)
    BY <1>1, <2>2 DEF CancelRuns
  <2> HIDE DEF First
  <2> QED
    BY <1>3, <2>1, <2>3
<1>5. ASSUME NEW i \in 1 .. m, i - 1 \in S
      PROVE  i \in S
  <2>1. i \in 0 .. m /\ Txs[b][i] \in Tx /\ f[i] = UtxoCancelTx(f[i - 1], Txs[b][i], b)
    BY <1>1, <1>3 DEF CancelRuns
  <2>2. First(i) = First(i - 1) \cup {Txs[b][i]}
    BY <1>3
  <2> HIDE DEF First
  <2>3. ASSUME NEW x \in Tx, x \notin TxsOf(b) \/ x \in First(i)
        PROVE  f[i][x] \subseteq Placed(Branch[Prev[b]], x)
    <3>1. f[i][x] = IF x \in RestoredInputs(Txs[b][i], b) THEN GivenBack(x, b)
                    ELSE IF x = Txs[b][i] THEN {} ELSE f[i - 1][x]
      BY <2>1, CancelStep
    <3> QED
      BY <1>5, <2>1, <2>2, <2>3, <3>1, GivenBackIsRight
  <2> QED
    BY <2>1, <2>3
<1>6. m \in S
  <2> HIDE DEF S
  <2>1. \A i \in 0 .. m : i \in S
    BY <1>3, <1>4, <1>5, NumberInduction
  <2> QED
    BY <1>3, <2>1
<1>7. First(m) = TxsOf(b)
  BY <1>2, <1>3
<1>8. \A x \in Tx : f[m][x] \subseteq Placed(Branch[Prev[b]], x)
  <2> HIDE DEF First
  <2> QED
    BY <1>6, <1>7
<1> QED
  BY <1>1, <1>8 DEF CancelRuns

\* Reindex writes records of outputs of the main chain.
LEMMA ReindexedType ==
  ASSUME topHash \in Hash, UtxoReindex
  PROVE  /\ utxo' \in UtxoBuckets
         /\ \A t \in Tx : utxo'[t] \subseteq Placed(Branch[topHash], t)
         /\ \A t \in Tx : \A r \in utxo'[t] :
              /\ r.out \in Outs[t]
              /\ \E j \in DOMAIN Txs[r.block] :
                   Txs[r.block][j] = t /\ <<t, r.out>> \notin Spends(After(r.block, j))
<1>1. ASSUME NEW t \in Tx, NEW r \in utxo'[t]
      PROVE  /\ r \in Placed(Branch[topHash], t) /\ r.out \in Outs[t]
             /\ \E j \in DOMAIN Txs[r.block] :
                  Txs[r.block][j] = t /\ <<t, r.out>> \notin Spends(After(r.block, j))
  <2> DEFINE outs(h, j) == {o \in Outs[t] : <<t, o>> \notin Spends(After(h, j))}
  <2>0. r \in FindunspentTransactions(t)
    BY <1>1 DEF UtxoReindex
  <2>1. PICK h \in Branch[topHash] : \E j \in DOMAIN Txs[h] :
          Txs[h][j] = t /\ r \in Unspents(t, h, outs(h, j), IsCoinbase(t))
    BY <2>0 DEF FindunspentTransactions
  <2>2. PICK j \in DOMAIN Txs[h] :
          Txs[h][j] = t /\ r \in Unspents(t, h, outs(h, j), IsCoinbase(t))
    BY <2>1
  <2>3. h \in Hash /\ IsCoinbase(t) \in BOOLEAN /\ outs(h, j) \in SUBSET Outs[t]
    BY BranchType DEF IsCoinbase
  <2>4. \A o \in outs(h, j) : <<t, o>> \notin Spends(After(h, j))
    OBVIOUS
  <2> HIDE DEF outs
  <2>5. r \in UtxoRecord
    BY <2>2, <2>3, UnspentsType
  <2>6. r.block = h /\ r.out \in outs(h, j)
    BY <2>2 DEF Unspents
  <2>7. t \in TxsOf(h)
    BY <2>2 DEF TxsOf, Range
  <2> QED
    BY <2>1, <2>2, <2>3, <2>4, <2>5, <2>6, <2>7 DEF Placed
<1>2. utxo' = [t \in Tx |-> utxo'[t]]
  BY DEF UtxoReindex
<1>3. \A t \in Tx : utxo'[t] \subseteq UtxoRecord
  BY <1>1 DEF Placed
<1> QED
  BY <1>1, <1>2, <1>3 DEF UtxoBuckets

(***************************************************************************)
(* On a sound branch a transaction is spent after its block, or later in   *)
(* it: what Reindex has met on its way down is all there is.               *)
(***************************************************************************)
LEMMA UtxoReindexed ==
  ASSUME topHash \in Hash, UtxoReindex,
         \A h \in Branch[topHash] : BranchIsSound(h) /\ BlockIsOrdered(h)
  PROVE  \A t \in Tx : utxo'[t] \subseteq Unspent(Branch[topHash], t)
<1> SUFFICES ASSUME NEW t \in Tx, NEW r \in utxo'[t]
             PROVE  r \in Unspent(Branch[topHash], t)
  OBVIOUS
<1> DEFINE h == r.block
<1>1. /\ r \in UtxoRecord /\ r.out \in Outs[t]
      /\ h \in Branch[topHash] /\ t \in TxsOf(h)
  BY ReindexedType DEF Placed
<1>2. PICK j \in DOMAIN Txs[h] : Txs[h][j] = t /\ <<t, r.out>> \notin Spends(After(h, j))
  BY ReindexedType
<1> HIDE DEF h
<1>3. ASSUME NEW l \in Branch[topHash], NEW w \in TxsOf(l), <<t, r.out>> \in InsOf(w)
      PROVE  FALSE
  <2>1. l \in Hash /\ h \in Hash /\ topHash \in Branch[topHash]
    BY <1>1, BranchType
  <2>2. t \in TxsOnBranch(l)
    <3>1. w \in TxsOnBranch(l)
      BY <2>1, BranchType DEF TxsOnBranch
    <3> QED
      BY <1>3, <3>1 DEF BranchIsSound
  <2>3. PICK k \in Branch[l] : t \in TxsOf(k)
    BY <2>2 DEF TxsOnBranch
  <2>4. k = h
    <3>1. k \in Branch[topHash]
      BY <2>1, <2>3, BranchInside
    <3> QED
      BY <1>1, <2>1, <2>3, <3>1, OnceOnBranch
  <2>5. PICK n \in DOMAIN Txs[l] : Txs[l][n] = w
    BY DEF TxsOf, Range
  <2>6. w \in After(h, j)
    <3>1. CASE l = h
      <4>1. j < n
        BY <1>2, <1>3, <2>5, <3>1 DEF BlockIsOrdered
      <4>2. j \in Nat /\ n \in Nat
        <5>1. Txs[h] \in Seq(Tx)
          BY <2>1, LedgerAssumption
        <5> QED
          BY <2>5, <3>1, <5>1
      <4>3. n > j /\ Height[l] >= Height[h]
        BY <2>1, <3>1, <4>1, <4>2, HeightAssumption
      <4> QED
        BY <2>5, <4>3 DEF After
    <3>2. CASE l # h
      <4>1. Height[h] < Height[l]
        BY <2>1, <2>3, <2>4, <3>2, BranchLower
      <4>2. Height[l] > Height[h] /\ Height[l] >= Height[h]
        BY <2>1, <4>1, HeightAssumption
      <4> QED
        BY <2>5, <4>2 DEF After
    <3> QED
      BY <3>1, <3>2
  <2> QED
    BY <1>2, <1>3, <2>6 DEF Spends
<1>4. <<t, r.out>> \notin Spends(TxsIn(Branch[topHash]))
  BY <1>3 DEF Spends, TxsIn
<1> QED
  BY <1>1, <1>4 DEF Unspent

-----------------------------------------------------------------------------
(***************************************************************************)
(* The way from one branch to another                                      *)
(***************************************************************************)

\* A way down, with one block more on top.
LEMMA PathDownCons ==
  ASSUME NEW s \in Seq(Hash), NEW h \in Hash, NEW to \in Hash, PathDown(s, Prev[h], to)
  PROVE  <<h>> \o s \in Seq(Hash) /\ PathDown(<<h>> \o s, h, to)
<1> DEFINE r == <<h>> \o s
<1>1. /\ Len(s) \in Nat /\ r \in Seq(Hash) /\ Len(r) = Len(s) + 1 /\ r # <<>>
      /\ r[1] = h /\ \A i \in 1 .. Len(s) : r[i + 1] = s[i]
  OBVIOUS
<1> HIDE DEF r
<1>2. CASE s = <<>>
  <2>1. Len(s) = 0 /\ Prev[h] = to
    BY <1>2 DEF PathDown
  <2> QED
    BY <1>1, <2>1 DEF PathDown, r
<1>3. CASE s # <<>>
  <2>1. Len(s) \in Nat \ {0}
    BY <1>1, <1>3
  <2>2. s[1] = Prev[h] /\ (\A i \in 1 .. Len(s) - 1 : Prev[s[i]] = s[i + 1]) /\ Prev[s[Len(s)]] = to
    BY <1>3 DEF PathDown
  <2>3. r[Len(r)] = s[Len(s)] /\ r[2] = s[1]
    BY <1>1, <2>1
  <2>4. ASSUME NEW i \in 1 .. Len(r) - 1
        PROVE  Prev[r[i]] = r[i + 1]
    <3>1. CASE i = 1
      BY <1>1, <2>2, <2>3, <3>1
    <3>2. CASE i # 1
      <4>1. i - 1 \in 1 .. Len(s) - 1 /\ i - 1 \in 1 .. Len(s) /\ i \in 1 .. Len(s)
        BY <1>1, <2>1, <3>2
      <4>2. r[(i - 1) + 1] = s[i - 1] /\ r[i + 1] = s[i] /\ (i - 1) + 1 = i
        BY <1>1, <4>1
      <4> QED
        BY <2>2, <4>1, <4>2
    <3> QED
      BY <3>1, <3>2
  <2> QED
    BY <1>1, <2>2, <2>3, <2>4 DEF PathDown, r
<1> QED
  BY <1>2, <1>3

\* A way down, after its first block.
LEMMA PathDownTail ==
  ASSUME NEW B, NEW s \in Seq(B), s # <<>>, NEW from, NEW to, PathDown(s, from, to)
  PROVE  /\ Head(s) = from /\ Head(s) \in B /\ Tail(s) \in Seq(B)
         /\ PathDown(Tail(s), Prev[from], to)
<1> DEFINE r == Tail(s)
<1>1. /\ Len(s) \in Nat \ {0} /\ r \in Seq(B) /\ Len(r) = Len(s) - 1
      /\ \A i \in 1 .. Len(r) : r[i] = s[i + 1]
      /\ Head(s) = s[1] /\ s[1] \in B
  OBVIOUS
<1>2. s[1] = from /\ (\A i \in 1 .. Len(s) - 1 : Prev[s[i]] = s[i + 1]) /\ Prev[s[Len(s)]] = to
  BY DEF PathDown
<1> HIDE DEF r
<1>3. CASE r = <<>>
  <2>1. Len(s) = 1
    BY <1>1, <1>3
  <2> QED
    BY <1>1, <1>2, <1>3, <2>1 DEF PathDown, r
<1>4. CASE r # <<>>
  <2>1. Len(r) \in Nat \ {0}
    BY <1>1, <1>4
  <2>2. r[1] = Prev[from] /\ r[Len(r)] = s[Len(s)]
    BY <1>1, <1>2, <2>1
  <2>3. ASSUME NEW i \in 1 .. Len(r) - 1
        PROVE  Prev[r[i]] = r[i + 1]
    <3>1. /\ i \in 1 .. Len(r) /\ i + 1 \in 1 .. Len(r) /\ i + 1 \in 1 .. Len(s) - 1
      BY <1>1, <2>1
    <3>2. r[i] = s[i + 1] /\ r[i + 1] = s[(i + 1) + 1]
      BY <1>1, <3>1
    <3> QED
      BY <1>2, <3>1, <3>2
  <2> QED
    BY <1>1, <1>2, <1>4, <2>2, <2>3 DEF PathDown, r
<1> QED
  BY <1>3, <1>4

\* The blocks of a branch above one of its blocks are the way down to that block.
LEMMA BranchPath ==
  ASSUME NEW t \in Hash, NEW base \in Branch[t]
  PROVE  PathDown(Descending(Branch[t] \ Branch[base]), t, base)
<1> DEFINE S == {h \in Hash : \A k \in Branch[h] : PathDown(Descending(Branch[h] \ Branch[k]), h, k)}
<1>1. Genesis \in S
  <2>1. Branch[Genesis] = {Genesis} /\ Genesis \in Hash
    BY BranchGenesis, TreeAssumption
  <2>2. Branch[Genesis] \ Branch[Genesis] = {}
    OBVIOUS
  <2> QED
    BY <2>1, <2>2, DescendingNone DEF PathDown
<1>2. ASSUME NEW h \in Hash \ {Genesis}, Prev[h] \in S
      PROVE  h \in S
  <2> SUFFICES ASSUME NEW k \in Branch[h]
               PROVE  PathDown(Descending(Branch[h] \ Branch[k]), h, k)
    OBVIOUS
  <2>1. /\ Branch[h] = {h} \cup Branch[Prev[h]] /\ h \notin Branch[Prev[h]] /\ Prev[h] \in Hash
        /\ Branch[Prev[h]] \subseteq Branch[h]
    BY BranchStep, NotBelowItself, TreeAssumption
  <2>2. CASE k = h
    <3>1. Branch[h] \ Branch[k] = {}
      BY <2>2
    <3> QED
      BY <2>2, <3>1, DescendingNone DEF PathDown
  <2>3. CASE k # h
    <3> DEFINE U == Branch[Prev[h]] \ Branch[k]
               s == Descending(U)
    <3>1. k \in Branch[Prev[h]] /\ k \in Hash /\ Branch[k] \subseteq Branch[Prev[h]]
      BY <2>1, <2>3, BranchInside
    <3>2. U \in SUBSET Branch[Prev[h]] /\ U \in SUBSET Branch[h] /\ h \notin U
          /\ Branch[h] \ Branch[k] = U \cup {h} /\ U \subseteq Hash
      BY <2>1, <3>1, BranchType
    <3>3. PathDown(s, Prev[h], k)
      BY <1>2, <3>1
    <3> HIDE DEF U
    <3>4. Descending(U \cup {h}) = <<h>> \o s
      BY <3>2, DescendingCons
    <3>5. s \in Seq(Hash)
      <4>1. s \in Seq(U)
        BY <2>1, <3>2, DescendingLists
      <4> QED
        BY <3>2, <4>1
    <3> HIDE DEF s
    <3> QED
      BY <3>1, <3>2, <3>3, <3>4, <3>5, PathDownCons
  <2> QED
    BY <2>2, <2>3
<1>3. Hash \subseteq S
  <2> HIDE DEF S
  <2> QED
    BY <1>1, <1>2, TreeInduction
<1> QED
  BY <1>3

\* Reverse has the same items.
LEMMA ReverseType ==
  ASSUME NEW B, NEW s \in Seq(B)
  PROVE  Reverse(s) \in Seq(B)
<1>1. /\ s \in [1 .. Len(s) -> B] /\ Len(s) \in Nat
      /\ Reverse(s) = [i \in 1 .. Len(s) |-> s[(Len(s) - i) + 1]]
  BY DEF Reverse
<1>2. \A i \in 1 .. Len(s) : (Len(s) - i) + 1 \in 1 .. Len(s)
  BY <1>1
<1>3. Reverse(s) \in [1 .. Len(s) -> B]
  BY <1>1, <1>2
<1> QED
  BY <1>1, <1>3

(***************************************************************************)
(* GetBranchesReplacement leads from the old top down to the base of the   *)
(* two branches and from there up to the new top.                          *)
(***************************************************************************)
LEMMA ReplacementPaths ==
  ASSUME NEW old \in Hash \ {Genesis}, NEW top \in Hash \ {Genesis}, old \notin Branch[top],
         NEW B \in SUBSET Hash, Branch[old] \subseteq B, Branch[top] \subseteq B
  PROVE  LET r == GetBranchesReplacement(old, top)
         IN  /\ ~ ReplacementPanics(old, top)
             /\ r.side \in Seq(B) /\ r.main \in Seq(B) /\ r.side # <<>>
             /\ \E base \in B : PathDown(r.side, old, base) /\ PathUp(r.main, base, top)
<1> DEFINE g == GetSideBranch(old, top)
           r == GetBranchesReplacement(old, top)
           base == g.base
           down == Descending(Branch[old] \ Branch[base])
           up == Descending(Branch[top] \ Branch[base])
<1>1. /\ g.side = Descending(Branch[old] \ Branch[top])
      /\ g.main = Ascending(Branch[top] \ Branch[old])
      /\ base \in Branch[old] /\ base \in Branch[top]
      /\ Branch[base] = Branch[old] \cap Branch[top]
      /\ ~ ReplacementPanics(old, top)
  BY SideBranch DEF ReplacementPanics
<1> HIDE DEF g
<1>2. Branch[old] \ Branch[top] = Branch[old] \ Branch[base] /\ Branch[top] \ Branch[old] = Branch[top] \ Branch[base]
  BY <1>1
<1>3. base # old
  BY <1>1
<1>4. r.side = down /\ r.main = Reverse(up)
  BY <1>1, <1>2, <1>3 DEF GetBranchesReplacement, Ascending, g
<1>5. PathDown(down, old, base) /\ PathDown(up, top, base)
  BY <1>1, BranchPath
<1>6. down \in Seq(B) /\ up \in Seq(B) /\ up \in Seq(Hash) /\ base \in Hash
  <2>1. down \in Seq(Branch[old] \ Branch[base]) /\ up \in Seq(Branch[top] \ Branch[base])
    BY DescendingLists
  <2> HIDE DEF down, up, base
  <2> QED
    BY <1>1, <2>1
<1> HIDE DEF down, up, base, r
<1>7. Reverse(up) \in Seq(B) /\ PathUp(Reverse(up), base, top)
  BY <1>5, <1>6, ReverseType, PathReverse
<1>8. down # <<>>
  BY <1>3, <1>5 DEF PathDown
<1>9. base \in B
  BY <1>1
<1> QED
  BY <1>1, <1>4, <1>5, <1>6, <1>7, <1>8, <1>9 DEF r

\* What adding and cancelling a block make of the unspent outputs has its type.
LEMMA UtxoAddedType ==
  ASSUME NEW b \in Hash, NEW u \in UtxoBuckets
  PROVE  UpdateOnBlockAdd(u, b) \in UtxoBuckets
<1>1. PICK f \in [0 .. Len(Txs[b]) -> UtxoBuckets] : UpdateOnBlockAdd(u, b) = f[Len(Txs[b])]
  BY AddLoop
<1>2. Len(Txs[b]) \in Nat
  BY LedgerAssumption
<1> QED
  BY <1>1, <1>2

LEMMA UtxoCancelledType ==
  ASSUME txBlocks \in [Tx -> Seq(Hash)], NEW b \in Hash, NEW u \in UtxoBuckets
  PROVE  UpdateOnBlockCancel(u, b) \in UtxoBuckets
<1>1. PICK f, m : CancelRuns(f, m, u, b)
  BY CancelLoop
<1>2. Len(Txs[b]) \in Nat
  BY LedgerAssumption
<1> QED
  BY <1>1, <1>2 DEF CancelRuns

-----------------------------------------------------------------------------
(***************************************************************************)
(* LedgerInvariant is inductive                                            *)
(***************************************************************************)

\* A created blockchain: the outputs of the genesis block are unspent.
LEMMA InitLedger == NodeInit => TidyInv
<1> SUFFICES ASSUME NodeInit
             PROVE  TidyInv
  OBVIOUS
<1>0. Genesis \in Hash /\ Branch[Genesis] = {Genesis}
  BY TreeAssumption, BranchGenesis
<1>1. IntactInv
  BY InitNode
<1>2. npc = "idle" /\ topHash = Genesis /\ blocks = {Genesis} /\ pool = {} /\ UtxoTip = Genesis
  BY DEF NodeInit, UtxoTip
<1>3. LocalsInv
  BY <1>2 DEF NodeInit, LocalsInv, AddingInv, ReplaceInv
<1>4. BlockIsOrdered(Genesis)
  <2>1. \A n \in DOMAIN Txs[Genesis] : Txs[Genesis][n] \in TxsOf(Genesis)
    BY DEF TxsOf, Range
  <2>2. \A t \in TxsOf(Genesis) : InsOf(t) = {}
    BY CoinbaseAssumption DEF IsCoinbase, InsOf, Range
  <2> QED
    BY <2>1, <2>2 DEF BlockIsOrdered
<1>5. OrderInv
  BY <1>2, <1>4 DEF OrderInv
<1>6. UtxoInv
  <2> DEFINE none == [t \in Tx |-> {}]
  <2>1. none \in UtxoBuckets /\ \A t \in Tx : none[t] \subseteq Unspent({}, t) /\ none[t] \subseteq Placed({}, t)
    BY DEF UtxoBuckets
  <2>2. TxsIn({}) = {}
    BY DEF TxsIn
  <2>3. utxo = UpdateOnBlockAdd(none, Genesis)
    BY DEF NodeInit
  <2> HIDE DEF none
  <2>4. /\ \A t \in Tx : utxo[t] \subseteq Unspent({} \cup {Genesis}, t)
        /\ \A t \in Tx : utxo[t] \subseteq Placed({} \cup {Genesis}, t)
    BY <1>0, <1>4, <2>1, <2>2, <2>3, UtxoAdded, PlacedAdded
  <2>6. utxo \in UtxoBuckets
    BY <1>0, <2>1, <2>3, UtxoAddedType
  <2>5. {} \cup {Genesis} = Branch[UtxoTip]
    BY <1>0, <1>2
  <2> QED
    BY <2>4, <2>5, <2>6 DEF UtxoInv, UtxoBuckets
<1>7. PoolInv
  BY <1>2, FS_EmptySet DEF PoolInv, GoodPools
<1> QED
  BY <1>1, <1>3, <1>5, <1>6, <1>7 DEF TidyInv

\* While only the pool changes, and stays a good pool without transactions of the chain.
LEMMA PoolLedger ==
  ASSUME TidyInv, UNCHANGED <<vars, index, utxo, nodeLocals, past>>,
         pool' \in GoodPools, pool' \cap TxsOnBranch(UtxoTip) = {}
  PROVE  TidyInv'
<1>1. IntactInv'
  BY KeepNodeInv DEF TidyInv, nodeLocals
<1>2. /\ blocks' = blocks /\ topHash' = topHash /\ pc' = pc /\ block' = block
      /\ addState' = addState /\ txSpent' = txSpent /\ utxo' = utxo
      /\ npc' = npc /\ newBlock' = newBlock /\ oldTop' = oldTop
      /\ oldChain' = oldChain /\ newChain' = newChain /\ past' = past
  BY DEF vars, database, index, nodeLocals
<1>3. UtxoTip' = UtxoTip /\ Base' = Base
  BY <1>2 DEF UtxoTip, Base
<1>4. LocalsInv'
  BY <1>2, <1>3 DEF TidyInv, LocalsInv, AddingInv, ReplaceInv
<1>5. OrderInv' /\ UtxoInv' /\ PoolInv'
  BY <1>2, <1>3 DEF TidyInv, OrderInv, UtxoInv, PoolInv, Fresh, Tidy, MainOnly
<1> QED
  BY <1>1, <1>4, <1>5 DEF TidyInv

\* Transactions come to the pool, are cancelled, or are taken for a block.
LEMMA PoolStepLedger ==
  ASSUME TidyInv,
         \/ UNCHANGED nodeVars
         \/ CleanUnapprovedCache \/ PrepareNewBlock
         \/ \E t \in Tx : CancelTransaction(t) \/ ReceivedNewTransaction(t) \/ HandleTx(t)
  PROVE  TidyInv'
<1>0. pool \in GoodPools /\ pool \cap TxsOnBranch(UtxoTip) = {}
  BY DEF TidyInv, PoolInv
<1>1. CASE UNCHANGED nodeVars
  BY <1>0, <1>1, PoolLedger DEF nodeVars, ledger
<1>2. ASSUME NEW q \in SUBSET pool, pool' = q, UNCHANGED <<vars, index, utxo, nodeLocals, past>>
      PROVE  TidyInv'
  <2>1. pool' \in GoodPools /\ pool' \cap TxsOnBranch(UtxoTip) = {}
    BY <1>0, <1>2, SmallerPool
  <2> QED
    BY <1>2, <2>1, PoolLedger
<1>3. CASE CleanUnapprovedCache
  BY <1>2, <1>3 DEF CleanUnapprovedCache
<1>4. ASSUME NEW t \in Tx, CancelTransaction(t)
      PROVE  TidyInv'
  BY <1>2, <1>4 DEF CancelTransaction
<1>5. CASE PrepareNewBlock
  <2>1. PICK T \in GetTransactions : pool' = (pool \ T) \cup Range(TransactionsForNewBlock(T))
    BY <1>5 DEF PrepareNewBlock
  <2>2. T \in SUBSET pool /\ T \in GoodPools
    BY <1>0, <2>1, SmallerPool DEF GetTransactions
  <2>3. Range(TransactionsForNewBlock(T)) \subseteq T
    BY <2>2, NewBlockLists DEF Range
  <2>4. pool' \in SUBSET pool
    BY <2>1, <2>2, <2>3
  <2> QED
    BY <1>2, <1>5, <2>4 DEF PrepareNewBlock
<1>6. ASSUME NEW t \in Tx, ReceivedNewTransaction(t)
      PROVE  TidyInv'
  <2>1. /\ npc = "idle" /\ ~ IsCoinbase(t) /\ VerifyTransactionQuick(t) /\ pool' = Add(pool, t)
        /\ UNCHANGED <<vars, index, utxo, nodeLocals, past>>
    BY <1>6 DEF ReceivedNewTransaction
  <2>2. UtxoTip = topHash /\ topHash \in Hash /\ BranchIsSound(topHash)
    BY <2>1, IdleStore DEF TidyInv, UtxoTip
  <2>3. t \notin TxsOnBranch(topHash)
    <3> SUFFICES ASSUME t \in TxsOnBranch(topHash)
                 PROVE  FALSE
      OBVIOUS
    <3>1. PICK i \in InsOf(t) : TRUE
      BY <2>1, TxTypes
    <3>2. i[1] \in Tx /\ i = <<i[1], i[2]>>
      BY LedgerAssumption DEF InsOf, Range
    <3>3. i[1] \in TxsOnBranch(topHash) /\ i \in Spends(TxsIn(Branch[topHash]))
      BY <2>2 DEF BranchIsSound, Spends, TxsIn, TxsOnBranch
    <3>4. i[1] \notin pool
      BY <1>0, <2>2, <3>3
    <3>5. \A r \in utxo[i[1]] : r.out # i[2]
      BY <2>2, <3>2, <3>3 DEF TidyInv, UtxoInv, Unspent
    <3> QED
      BY <2>1, <3>1, <3>4, <3>5 DEF VerifyTransactionQuick, InputsAreFound, ArePrepared
  <2>4. Add(pool, t) \in GoodPools /\ Add(pool, t) \subseteq pool \cup {t}
    BY <1>0, <2>1, AddGood DEF Add
  <2> QED
    BY <1>0, <2>1, <2>2, <2>3, <2>4, PoolLedger
<1>7. ASSUME NEW t \in Tx, HandleTx(t)
      PROVE  TidyInv'
  BY <1>1, <1>6, <1>7 DEF HandleTx
<1> QED
  BY <1>1, <1>3, <1>4, <1>5, <1>6, <1>7

\* A verified block goes to the block store: nothing else changes yet.
LEMMA AddBlockLedger ==
  ASSUME TidyInv, NEW b \in Hash, NodeAddBlock(b), Tidy'
  PROVE  TidyInv'
<1>0. IntactInv
  BY DEF TidyInv
<1>1. /\ npc = "idle" /\ npc' = "adding" /\ newBlock' = b /\ oldTop' = topHash
      /\ b \notin blocks /\ Prev[b] \in blocks /\ blocks' = blocks \cup {b}
      /\ VerifyBlock(b)
      /\ pc' = "put" /\ block' = b /\ topHash' = topHash
      /\ UNCHANGED <<utxo, pool, oldChain, newChain>>
      /\ past' = IF AllOnce(b) THEN past ELSE past \cup {"twice"}
  BY DEF NodeAddBlock, AddBlockPut, ledger, index
<1>2. topHash \in blocks /\ blocks \subseteq Hash /\ b # Genesis
  BY <1>0, <1>1, IdleStore, TreeAssumption
<1>3. UtxoTip' = UtxoTip
  BY <1>1 DEF UtxoTip
<1>4. LocalsInv'
  BY <1>1, <1>2 DEF TidyInv, LocalsInv, AddingInv, ReplaceInv
<1>5. AllOnce(b) /\ past' = past
  BY <1>1 DEF Tidy
<1>7. OrderInv'
  BY <1>0, <1>1, <1>5, VerifiedIsSound DEF TidyInv, OrderInv
<1>6. UtxoInv' /\ PoolInv'
  BY <1>1, <1>3, <1>5 DEF TidyInv, UtxoInv, PoolInv, Fresh, Tidy, MainOnly
<1> QED
  BY <1>0, <1>4, <1>6, <1>7, AddBlockNode DEF TidyInv

\* The block store works on: what it does to its top is what it returns.
LEMMA StoreStepLedger ==
  ASSUME TidyInv, StoreStep
  PROVE  TidyInv'
<1>0. IntactInv
  BY DEF TidyInv
<1>1. /\ npc = "adding" /\ npc' = npc /\ newBlock' = newBlock /\ oldTop' = oldTop
      /\ UNCHANGED <<utxo, pool, oldChain, newChain, past>>
  BY DEF StoreStep, ledger, index, nodeLocals
<1>2. IInv /\ IInv' /\ inited /\ ~ Creating /\ IntactInv'
  <2>1. IInv /\ inited /\ ~ Creating
    BY <1>0, <1>1 DEF IntactInv, StoreInv
  <2>2. IInv'
    BY <2>1, AddBlockIInv, ReorgIInv DEF StoreStep
  <2> QED
    BY <1>0, <2>1, <2>2, StoreStepNode
<1>3. blocks' = blocks
  BY DEF StoreStep, AddBlockNoTop, AddBlockParallel, AddBlockSaveTop, AddBlockToChain,
     UpdateChainOnNewBranch, WalkMissing, WalkNewBlock, WalkFound, RemoveOld, RemoveError,
     RemoveDone, AddNew, AddDone, Return, database
<1>4. AddingInv
  BY DEF TidyInv, LocalsInv
<1>5. AddingInv'
  <2>1. CASE AddBlockNoTop
    <3>1. topHash \in blocks
      BY <1>2, <2>1 DEF AddBlockNoTop, IInv, TreeInv, Compared
    <3> QED
      BY <2>1, <3>1 DEF AddBlockNoTop
  <2>2. CASE AddBlockParallel
    BY <1>1, <1>3, <1>4, <2>2 DEF AddBlockParallel, AddingInv, Return, database
  <2>3. CASE AddBlockSaveTop
    <3>1. pc = "put" /\ lastHash' = topHash /\ topHash' = block /\ block' = block
          /\ \/ pc' = "walk"
             \/ pc' = "toChain" /\ topHash = Prev[block]
      BY <2>3 DEF AddBlockSaveTop
    <3>2. pc' = "walk" => lastHash' \notin Branch[block']
      BY <1>2 DEF IInv, WalkInv
    <3> QED
      BY <1>1, <1>3, <1>4, <3>1, <3>2 DEF AddingInv
  <2>4. CASE AddBlockToChain
    BY <1>1, <1>3, <1>4, <2>4 DEF AddBlockToChain, AddingInv, Return
  <2>5. CASE UpdateChainOnNewBranch
    <3>1. pc \in {"walk", "remove", "add"} /\ topHash' = topHash
          /\ \/ pc' \in {"walk", "remove", "add"} /\ block' = block
             \/ pc' = "idle" /\ addState' = AddedToParallelTop
             \/ pc' = "panic"
      BY <2>5 DEF UpdateChainOnNewBranch, WalkMissing, WalkNewBlock, WalkFound, RemoveOld,
         RemoveError, RemoveDone, AddNew, AddDone, Return, database
    <3> QED
      BY <1>1, <1>3, <1>4, <3>1 DEF AddingInv
  <2> QED
    BY <2>1, <2>2, <2>3, <2>4, <2>5 DEF StoreStep
<1>6. LocalsInv'
  BY <1>1, <1>5 DEF TidyInv, LocalsInv, ReplaceInv
<1>7. UtxoTip' = UtxoTip
  BY <1>1 DEF UtxoTip
<1>8. OrderInv' /\ UtxoInv' /\ PoolInv'
  BY <1>1, <1>3, <1>7 DEF TidyInv, OrderInv, UtxoInv, PoolInv, Fresh, Tidy, MainOnly
<1> QED
  BY <1>2, <1>6, <1>8 DEF TidyInv

\* Records of spendings have their type.
LEMMA SpendingsType ==
  ASSUME NEW b \in Hash, NEW x \in Tx
  PROVE  SpendingsIn(b, x) \subseteq [out : Outs[x], by : Tx, block : Hash]
<1> SUFFICES ASSUME NEW r \in SpendingsIn(b, x)
             PROVE  r \in [out : Outs[x], by : Tx, block : Hash]
  OBVIOUS
<1>0. PICK t \in TxsOf(b) : \E i \in InsOf(t) : i[1] = x /\ r = [out |-> i[2], by |-> t, block |-> b]
  BY DEF SpendingsIn
<1>1. PICK i \in InsOf(t) : i[1] = x /\ r = [out |-> i[2], by |-> t, block |-> b]
  BY <1>0
<1>2. t \in Tx /\ i[2] \in Outs[x]
  BY <1>1, TxTypes, LedgerAssumption
<1> QED
  BY <1>1, <1>2

\* One more block on a sound branch: what the unspent outputs and the pool become.
LEMMA ExtendLedger ==
  ASSUME NEW b \in Hash \ {Genesis}, BranchIsSound(b), BranchIsSound(Prev[b]), BlockIsOrdered(b),
         UtxoTip = Prev[b], UtxoInv, PoolInv
  PROVE  /\ UpdateOnBlockAdd(utxo, b) \in UtxoBuckets
         /\ \A t \in Tx : UpdateOnBlockAdd(utxo, b)[t] \subseteq Unspent(Branch[b], t)
         /\ Fresh => \A t \in Tx : UpdateOnBlockAdd(utxo, b)[t] \subseteq Placed(Branch[b], t)
         /\ DeleteFromBlock(pool, b) \in GoodPools
         /\ DeleteFromBlock(pool, b) \cap TxsOnBranch(b) = {}
<1> DEFINE B == Branch[Prev[b]]
<1>1. /\ Prev[b] \in Hash /\ Branch[b] = B \cup {b} /\ b \notin B /\ B \in SUBSET Hash /\ b \in Branch[b]
  BY TreeAssumption, BranchStep, NotBelowItself, BranchType
<1>2. TxsIn(B) = TxsOnBranch(Prev[b]) /\ TxsOnBranch(b) = TxsOnBranch(Prev[b]) \cup TxsOf(b)
  BY <1>1 DEF TxsIn, TxsOnBranch
<1>3. TxsOf(b) \cap TxsIn(B) = {}
  <2> SUFFICES ASSUME NEW t \in TxsOf(b), NEW h \in B, t \in TxsOf(h)
               PROVE  FALSE
    BY DEF TxsIn
  <2> QED
    BY <1>1, OnceOnBranch
<1>4. \A t \in TxsIn(B) : \A i \in InsOf(t) : i[1] \in TxsIn(B)
  BY <1>2 DEF BranchIsSound
<1> HIDE DEF B
<1>5. /\ utxo \in UtxoBuckets /\ \A t \in Tx : utxo[t] \subseteq Unspent(B, t)
      /\ Fresh => \A t \in Tx : utxo[t] \subseteq Placed(B, t)
  BY DEF UtxoInv, B, UtxoBuckets
<1>6. /\ UpdateOnBlockAdd(utxo, b) \in UtxoBuckets
      /\ \A t \in Tx : UpdateOnBlockAdd(utxo, b)[t] \subseteq Unspent(B \cup {b}, t)
      /\ Fresh => \A t \in Tx : UpdateOnBlockAdd(utxo, b)[t] \subseteq Placed(B \cup {b}, t)
  BY <1>1, <1>3, <1>4, <1>5, UtxoAdded, UtxoAddedType, PlacedAdded
<1>7. pool \in GoodPools /\ pool \cap TxsOnBranch(Prev[b]) = {} /\ \A t \in pool : ~ IsCoinbase(t)
  BY DEF PoolInv, GoodPools
<1>8. DeleteFromBlock(pool, b) \subseteq pool /\ DeleteFromBlock(pool, b) \cap TxsOf(b) = {}
  BY <1>7 DEF DeleteFromBlock
<1>9. DeleteFromBlock(pool, b) \in GoodPools
  BY <1>7, <1>8, SmallerPool
<1> QED
  BY <1>1, <1>2, <1>6, <1>7, <1>8, <1>9

\* The top block of a sound branch less.
LEMMA ShortenLedger ==
  ASSUME NEW b \in Hash \ {Genesis}, BranchIsSound(b), Covered(Prev[b]),
         Fresh => Indexed = blocks /\ topHash \in blocks,
         UtxoTip = b, UtxoInv, PoolInv
  PROVE  /\ UpdateOnBlockCancel(utxo, b) \in UtxoBuckets
         /\ \A t \in Tx : UpdateOnBlockCancel(utxo, b)[t] \subseteq Unspent(Branch[Prev[b]], t)
         /\ Fresh => \A t \in Tx : UpdateOnBlockCancel(utxo, b)[t] \subseteq Placed(Branch[Prev[b]], t)
         /\ AddFromCanceled(pool, b) \in GoodPools
         /\ AddFromCanceled(pool, b) \cap TxsOnBranch(Prev[b]) = {}
<1>1. /\ Prev[b] \in Hash /\ Branch[b] = {b} \cup Branch[Prev[b]] /\ b \notin Branch[Prev[b]]
  BY TreeAssumption, BranchStep, NotBelowItself
<1>2. /\ utxo \in UtxoBuckets /\ \A t \in Tx : utxo[t] \subseteq Unspent(Branch[b], t)
      /\ Fresh => \A t \in Tx : utxo[t] \subseteq Placed(Branch[b], t)
  BY DEF UtxoInv, UtxoBuckets
<1>3. /\ UpdateOnBlockCancel(utxo, b) \in UtxoBuckets
      /\ \A t \in Tx : UpdateOnBlockCancel(utxo, b)[t] \subseteq Unspent(Branch[Prev[b]], t)
      /\ Fresh => \A t \in Tx : UpdateOnBlockCancel(utxo, b)[t] \subseteq Placed(Branch[Prev[b]], t)
  <2>1. txBlocks \in [Tx -> Seq(Hash)]
    BY DEF Covered, IndexInv
  <2> QED
    BY <1>2, <2>1, UtxoCancelled, UtxoCancelledType, PlacedCancelled
<1>4. TxsOf(b) \cap TxsOnBranch(Prev[b]) = {}
  <2> SUFFICES ASSUME NEW t \in TxsOf(b), NEW h \in Branch[Prev[b]], t \in TxsOf(h)
               PROVE  FALSE
    BY DEF TxsOnBranch
  <2> QED
    BY <1>1, OnceOnBranch
<1>5. pool \in GoodPools /\ pool \cap TxsOnBranch(Prev[b]) = {}
  BY <1>1 DEF PoolInv, TxsOnBranch
<1>6. AddFromCanceled(pool, b) \in GoodPools /\ AddFromCanceled(pool, b) \subseteq pool \cup TxsOf(b)
  BY <1>5, CanceledGood
<1> QED
  BY <1>3, <1>4, <1>5, <1>6

(***************************************************************************)
(* AddBlock of the block store returned.  A block on the top is taken in   *)
(* at once, one on a parallel branch not at all; when another branch has   *)
(* become the main one it is left to do, one block at a time.              *)
(***************************************************************************)
LEMMA BlockAddedLedger ==
  ASSUME TidyInv, NodeBlockAdded
  PROVE  TidyInv'
<1>0. IntactInv /\ IntactInv'
  BY BlockAddedNode DEF TidyInv
<1>1. /\ npc = "adding" /\ pc = "idle" /\ IndexBlockAdded(newBlock)
      /\ blocks' = blocks /\ topHash' = topHash /\ pc' = pc /\ past' = past
  BY DEF NodeBlockAdded, vars, database
<1>2. /\ IInv /\ inited /\ ~ Creating /\ blocks \subseteq Hash /\ Closed(blocks) /\ topHash \in blocks
  BY <1>0, <1>1 DEF IntactInv, StoreInv, IInv, TypeOK, TreeInv, Compared
<1>3. /\ newBlock \in blocks \ {Genesis} /\ oldTop \in blocks \ {newBlock}
      /\ \/ addState = AddedToTop /\ topHash = newBlock /\ Prev[newBlock] = oldTop
         \/ addState = AddedToParallelTop /\ topHash = newBlock /\ oldTop \notin Branch[newBlock]
         \/ addState = AddedToParallel /\ topHash = oldTop
      /\ UtxoTip = oldTop /\ oldChain = <<>> /\ newChain = <<>>
  BY <1>1 DEF TidyInv, LocalsInv, AddingInv, ReplaceInv, UtxoTip
<1>4. OrderInv' /\ (Fresh' <=> Fresh)
  BY <1>1 DEF TidyInv, OrderInv, Fresh, Tidy, MainOnly
<1>5. CASE addState = AddedToTop
  <2>1. /\ pool' = DeleteFromBlock(pool, newBlock) /\ utxo' = UpdateOnBlockAdd(utxo, newBlock)
        /\ NodeReturn
    BY <1>5 DEF NodeBlockAdded, AddedToTop, AddedToParallelTop
  <2>2. topHash = newBlock /\ Prev[newBlock] = oldTop
    BY <1>3, <1>5 DEF AddedToTop, AddedToParallelTop, AddedToParallel
  <2>3. UtxoTip' = newBlock /\ LocalsInv'
    BY <1>1, <2>1, <2>2 DEF NodeReturn, UtxoTip, LocalsInv, AddingInv, ReplaceInv
  <2>4. /\ newBlock \in Hash \ {Genesis} /\ BranchIsSound(newBlock) /\ BranchIsSound(Prev[newBlock])
        /\ BlockIsOrdered(newBlock) /\ UtxoTip = Prev[newBlock] /\ UtxoInv /\ PoolInv
    BY <1>0, <1>2, <1>3, <2>2 DEF IntactInv, TidyInv, OrderInv
  <2>5. UtxoInv' /\ PoolInv'
    BY <1>4, <2>1, <2>3, <2>4, ExtendLedger DEF UtxoInv, PoolInv, UtxoBuckets
  <2> QED
    BY <1>0, <1>4, <2>3, <2>5 DEF TidyInv
<1>6. CASE addState = AddedToParallel
  <2>1. UNCHANGED <<pool, utxo>> /\ NodeReturn
    BY <1>6 DEF NodeBlockAdded, AddedToTop, AddedToParallelTop, AddedToParallel
  <2>2. topHash = oldTop
    BY <1>3, <1>6 DEF AddedToTop, AddedToParallelTop, AddedToParallel
  <2>3. UtxoTip' = UtxoTip /\ LocalsInv'
    BY <1>1, <1>3, <2>1, <2>2 DEF NodeReturn, UtxoTip, LocalsInv, AddingInv, ReplaceInv
  <2>4. UtxoInv' /\ PoolInv'
    BY <1>4, <2>1, <2>3 DEF TidyInv, UtxoInv, PoolInv
  <2> QED
    BY <1>0, <1>4, <2>3, <2>4 DEF TidyInv
<1>7. CASE addState = AddedToParallelTop
  <2> DEFINE r == GetBranchesReplacement(oldTop, topHash)
  <2>1. /\ UNCHANGED <<pool, utxo, newBlock, oldTop>>
        /\ ~ ReplacementPanics(oldTop, topHash) =>
             npc' = "replace" /\ newChain' = r.main /\ oldChain' = r.side
    BY <1>7 DEF NodeBlockAdded, AddedToTop, AddedToParallelTop
  <2>2. topHash = newBlock /\ oldTop \notin Branch[topHash]
    BY <1>3, <1>7 DEF AddedToTop, AddedToParallelTop, AddedToParallel
  <2>3. /\ oldTop \in Hash \ {Genesis} /\ topHash \in Hash \ {Genesis}
        /\ Branch[oldTop] \subseteq blocks /\ Branch[topHash] \subseteq blocks
    BY <1>2, <1>3, <2>2, BranchLeast, GenesisOnBranch
  <2>4. /\ npc' = "replace" /\ newChain' = r.main /\ oldChain' = r.side
        /\ r.side \in Seq(blocks) /\ r.main \in Seq(blocks) /\ r.side # <<>>
        /\ \E base \in blocks : PathDown(r.side, oldTop, base) /\ PathUp(r.main, base, topHash)
    BY <1>2, <2>1, <2>2, <2>3, ReplacementPaths
  <2> HIDE DEF r
  <2>5. PICK base \in blocks : PathDown(r.side, oldTop, base) /\ PathUp(r.main, base, topHash)
    BY <2>4
  <2>6. base = Base'
    <3>1. CASE r.main = <<>>
      BY <1>1, <2>4, <2>5, <3>1 DEF Base, PathUp
    <3>2. CASE r.main # <<>>
      <4>1. Head(r.main) = r.main[1]
        BY <2>4, <3>2
      <4> QED
        BY <2>4, <2>5, <3>2, <4>1 DEF Base, PathUp
    <3> QED
      BY <3>1, <3>2
  <2>7. UtxoTip' = oldTop
    <3>1. Head(r.side) = oldTop
      BY <2>4, <2>5 DEF PathDown
    <3> QED
      BY <2>4, <3>1 DEF UtxoTip
  <2>8. LocalsInv'
    <3>1. ReplaceInv'
      BY <1>1, <2>1, <2>4, <2>5, <2>6, <2>7 DEF ReplaceInv
    <3> QED
      BY <1>2, <1>3, <2>1, <2>4, <3>1 DEF LocalsInv, AddingInv
  <2>9. UtxoInv' /\ PoolInv'
    BY <1>3, <1>4, <2>1, <2>7 DEF TidyInv, UtxoInv, PoolInv
  <2> QED
    BY <1>0, <1>4, <2>8, <2>9 DEF TidyInv
<1> QED
  BY <1>3, <1>5, <1>6, <1>7

\* One block of the old branch is undone: one step down.
LEMMA CancelOldLedger ==
  ASSUME TidyInv, CancelOld
  PROVE  TidyInv'
<1> DEFINE b == Head(oldChain)
<1>0. IntactInv
  BY DEF TidyInv
<1>1. /\ npc = "replace" /\ oldChain # <<>>
      /\ pool' = AddFromCanceled(pool, b) /\ utxo' = UpdateOnBlockCancel(utxo, b)
      /\ oldChain' = Tail(oldChain)
      /\ UNCHANGED <<vars, index>> /\ UNCHANGED <<npc, newBlock, oldTop, newChain, past>>
      /\ blocks' = blocks /\ topHash' = topHash
  BY DEF CancelOld, vars, database, index
<1>2. IntactInv'
  BY <1>0, <1>1, KeepNodeInv
<1>3. /\ oldChain \in Seq(blocks) /\ newChain \in Seq(blocks) /\ Base \in blocks
      /\ PathDown(oldChain, UtxoTip, Base) /\ PathUp(newChain, Base, topHash)
      /\ Base' = Base
  BY <1>1 DEF TidyInv, LocalsInv, ReplaceInv, Base
<1>4. /\ b = UtxoTip /\ b \in blocks /\ Tail(oldChain) \in Seq(blocks)
      /\ PathDown(Tail(oldChain), Prev[b], Base)
  BY <1>1, <1>3, PathDownTail
<1>5. b # Genesis /\ b \in Hash /\ Prev[b] \in blocks /\ BranchIsSound(b) /\ Covered(Prev[b])
  <2>1. blocks \subseteq Hash /\ Closed(blocks) /\ BranchIsSound(b) /\ NoHash \notin Hash
    BY <1>0, <1>1, <1>4, IdleStore, TreeAssumption
  <2>2. Prev[b] \in blocks
    <3>1. CASE Tail(oldChain) = <<>>
      BY <1>3, <1>4, <3>1 DEF PathDown
    <3>2. CASE Tail(oldChain) # <<>>
      <4>1. Head(Tail(oldChain)) = Prev[b] /\ Head(Tail(oldChain)) \in blocks
        BY <1>4, <3>2, PathDownTail
      <4> QED
        BY <4>1
    <3> QED
      BY <3>1, <3>2
  <2>3. b # Genesis
    BY <2>1, <2>2, TreeAssumption
  <2> QED
    BY <1>0, <1>1, <1>4, <2>1, <2>2, <2>3, IdleCovered
<1>6. UtxoTip' = Prev[b]
  <2>1. CASE Tail(oldChain) = <<>>
    BY <1>1, <1>3, <1>4, <2>1 DEF UtxoTip, PathDown
  <2>2. CASE Tail(oldChain) # <<>>
    <3>1. Head(Tail(oldChain)) = Prev[b]
      BY <1>4, <2>2, PathDownTail
    <3> QED
      BY <1>1, <2>2, <3>1 DEF UtxoTip
  <2> QED
    BY <2>1, <2>2
<1> HIDE DEF b
<1>7. LocalsInv'
  <2>1. ReplaceInv'
    BY <1>1, <1>3, <1>4, <1>6 DEF ReplaceInv
  <2> QED
    BY <1>1, <2>1 DEF TidyInv, LocalsInv, AddingInv
<1>8. UtxoInv' /\ PoolInv'
  <2>1. Indexed = blocks /\ topHash \in blocks /\ (Fresh' <=> Fresh)
    BY <1>0, <1>1, IdleStore DEF Fresh, Tidy, MainOnly
  <2> QED
    BY <1>1, <1>4, <1>5, <1>6, <2>1, ShortenLedger DEF TidyInv, UtxoInv, PoolInv, UtxoBuckets
<1>9. OrderInv'
  BY <1>1 DEF TidyInv, OrderInv
<1> QED
  BY <1>2, <1>7, <1>8, <1>9 DEF TidyInv

\* One block of the new branch is done: one step up.
LEMMA AttachNewLedger ==
  ASSUME TidyInv, AttachNew
  PROVE  TidyInv'
<1> DEFINE b == Head(newChain)
<1>0. IntactInv
  BY DEF TidyInv
<1>1. /\ npc = "replace" /\ oldChain = <<>> /\ newChain # <<>>
      /\ pool' = DeleteFromBlock(pool, b) /\ utxo' = UpdateOnBlockAdd(utxo, b)
      /\ newChain' = Tail(newChain)
      /\ UNCHANGED <<vars, index>> /\ UNCHANGED <<npc, newBlock, oldTop, oldChain, past>>
      /\ blocks' = blocks /\ topHash' = topHash
  BY DEF AttachNew, vars, database, index
<1>2. IntactInv'
  BY <1>0, <1>1, KeepNodeInv
<1>3. /\ topHash \in blocks /\ blocks \subseteq Hash /\ \A h \in blocks : BranchIsSound(h)
  BY <1>0, <1>1, IdleStore
<1>4. /\ newChain \in Seq(blocks) /\ Base \in blocks /\ PathUp(newChain, Base, topHash)
      /\ UtxoTip = Base /\ Base = Prev[b]
  BY <1>1 DEF TidyInv, LocalsInv, ReplaceInv, Base, UtxoTip
<1>5. /\ b \in Hash \ {Genesis} /\ b \in blocks /\ Tail(newChain) \in Seq(blocks)
      /\ PathUp(Tail(newChain), b, topHash)
  <2>1. newChain \in Seq(Hash) /\ b \in blocks /\ Tail(newChain) \in Seq(blocks)
    BY <1>1, <1>3, <1>4
  <2>2. b \in Hash /\ b # Genesis /\ PathUp(Tail(newChain), b, topHash)
    BY <1>1, <1>3, <1>4, <2>1, PathUpTail
  <2> QED
    BY <2>1, <2>2
<1>6. Base' = b
  <2>1. CASE Tail(newChain) = <<>>
    BY <1>1, <1>5, <2>1 DEF Base, PathUp
  <2>2. CASE Tail(newChain) # <<>>
    <3>1. Head(Tail(newChain)) = Tail(newChain)[1]
      BY <1>5, <2>2
    <3> QED
      BY <1>1, <1>5, <2>2, <3>1 DEF Base, PathUp
  <2> QED
    BY <2>1, <2>2
<1>7. UtxoTip' = b
  BY <1>1, <1>6 DEF UtxoTip
<1> HIDE DEF b
<1>8. LocalsInv'
  <2>1. ReplaceInv'
    BY <1>1, <1>5, <1>6, <1>7 DEF ReplaceInv, PathDown
  <2> QED
    BY <1>1, <2>1 DEF TidyInv, LocalsInv, AddingInv
<1>9. OrderInv'
  BY <1>1 DEF TidyInv, OrderInv
<1>10. UtxoInv' /\ PoolInv'
  <2>1. BranchIsSound(b) /\ BranchIsSound(Prev[b]) /\ BlockIsOrdered(b)
    BY <1>3, <1>4, <1>5 DEF TidyInv, OrderInv
  <2>2. Fresh' <=> Fresh
    BY <1>1 DEF Fresh, Tidy, MainOnly
  <2> QED
    BY <1>1, <1>4, <1>5, <1>7, <2>1, <2>2, ExtendLedger DEF TidyInv, UtxoInv, PoolInv, UtxoBuckets
<1> QED
  BY <1>2, <1>8, <1>9, <1>10 DEF TidyInv

\* The new branch is done up to the top.
LEMMA ReplaceDoneLedger ==
  ASSUME TidyInv, ReplaceDone
  PROVE  TidyInv'
<1>1. /\ npc = "replace" /\ oldChain = <<>> /\ newChain = <<>> /\ NodeReturn
      /\ UNCHANGED <<vars, index>> /\ UNCHANGED <<utxo, pool, past>>
      /\ blocks' = blocks /\ topHash' = topHash
  BY DEF ReplaceDone, ledger, vars, database, index
<1>2. IntactInv'
  BY <1>1, KeepNodeInv DEF TidyInv, NodeReturn
<1>3. UtxoTip' = UtxoTip
  BY <1>1 DEF UtxoTip, Base, NodeReturn
<1>4. LocalsInv'
  BY <1>1 DEF NodeReturn, LocalsInv, AddingInv, ReplaceInv
<1>5. OrderInv' /\ UtxoInv' /\ PoolInv'
  BY <1>1, <1>3 DEF TidyInv, OrderInv, UtxoInv, PoolInv, Fresh, Tidy, MainOnly
<1> QED
  BY <1>2, <1>4, <1>5 DEF TidyInv

\* The top block is dropped: the unspent outputs and the pool follow at the end.
LEMMA DropLedger ==
  ASSUME TidyInv, (NodeDropBlock /\ Beside = {}) \/ StoreDrops
  PROVE  TidyInv'
<1>0. IntactInv
  BY DEF TidyInv
<1>1. IntactInv'
  BY <1>0, DropBlockNode, StoreDropsNode
<1>2. /\ npc' = "dropping" /\ npc \in {"idle", "dropping"}
      /\ UNCHANGED <<utxo, pool, oldTop, oldChain, newChain>>
      /\ past \subseteq past' /\ "dropped" \in past'
  BY DEF NodeDropBlock, StoreDrops, ledger, index, nodeLocals, TidyInv, LocalsInv
<1>3. blocks' \subseteq blocks
  BY DEF NodeDropBlock, StoreDrops, DropSaveTop, DropDeleteBlock, DropRemoveFromChain
<1>4. UtxoTip' = UtxoTip
  BY DEF NodeDropBlock, StoreDrops, nodeLocals, UtxoTip
<1>5. newBlock' \in Hash
  BY <1>1, <1>2 DEF IntactInv, DropInv
<1>6. LocalsInv'
  BY <1>2, <1>5 DEF TidyInv, LocalsInv, AddingInv, ReplaceInv
<1>7. OrderInv' /\ UtxoInv' /\ PoolInv'
  BY <1>2, <1>3, <1>4 DEF TidyInv, OrderInv, UtxoInv, PoolInv, Fresh
<1> QED
  BY <1>1, <1>6, <1>7 DEF TidyInv

LEMMA BlockRemovedLedger ==
  ASSUME TidyInv, NodeBlockRemoved
  PROVE  TidyInv'
<1>0. IntactInv /\ IntactInv'
  BY BlockRemovedNode DEF TidyInv
<1>1. /\ npc = "dropping" /\ pc = "idle" /\ NodeReturn /\ IndexBlockRemoved(newBlock)
      /\ pool' = AddFromCanceled(pool, newBlock) /\ utxo' = UpdateOnBlockCancel(utxo, newBlock)
      /\ blocks' = blocks /\ topHash' = topHash
      /\ "dropped" \in past /\ past' = past
  BY DEF NodeBlockRemoved, vars, database, TidyInv, LocalsInv
<1>2. /\ IInv /\ inited /\ newBlock \in Hash \ {Genesis} /\ topHash = Prev[newBlock] /\ topHash \in Hash
      /\ blocks = Branch[topHash] /\ (\A h \in blocks : BranchIsSound(h)) /\ BranchIsSound(newBlock)
  BY <1>0, <1>1, TreeAssumption DEF IntactInv, StoreInv, DropInv
<1>3. Covered(Prev[newBlock])
  <2>1. IndexOf(chain, topHash)
    BY <1>1, <1>2 DEF IInv, IdleInv
  <2>2. Branch[topHash] \subseteq Indexed
    BY <1>1, <1>2 DEF Indexed
  <2>3. \A h \in Branch[topHash] : BranchIsSound(h)
    BY <1>0, <1>2 DEF IntactInv
  <2> QED
    BY <1>0, <1>2, <2>1, <2>2, <2>3 DEF Covered, IntactInv
<1>4. UtxoTip = newBlock /\ UtxoTip' = Prev[newBlock]
  BY <1>1, <1>2 DEF UtxoTip, NodeReturn
<1>5. LocalsInv'
  BY <1>1 DEF NodeReturn, LocalsInv, AddingInv, ReplaceInv
<1>6. UtxoInv' /\ PoolInv'
  BY <1>1, <1>2, <1>3, <1>4, ShortenLedger DEF TidyInv, UtxoInv, PoolInv, UtxoBuckets, Fresh
<1>7. OrderInv'
  BY <1>1 DEF TidyInv, OrderInv
<1> QED
  BY <1>0, <1>5, <1>6, <1>7 DEF TidyInv

\* The index and the unspent outputs are made again.
LEMMA ReindexLedger ==
  ASSUME TidyInv, ReindexData, Beside = {}
  PROVE  TidyInv'
<1>0. IntactInv /\ IntactInv'
  BY ReindexNode DEF TidyInv
<1>1. /\ npc = "idle" /\ IndexReindex /\ UtxoReindex /\ pool' = pool
      /\ npc' = npc /\ newBlock' = newBlock /\ oldTop' = oldTop
      /\ oldChain' = oldChain /\ newChain' = newChain
      /\ blocks' = blocks /\ topHash' = topHash
  BY DEF ReindexData, vars, database, nodeLocals
<1>2. topHash \in Hash
  BY <1>0, <1>1, IdleStore
<1>3. UtxoTip = topHash /\ UtxoTip' = topHash
  BY <1>1 DEF UtxoTip
<1>4. LocalsInv'
  BY <1>1 DEF TidyInv, LocalsInv, AddingInv, ReplaceInv
<1>5. OrderInv'
  BY <1>1 DEF TidyInv, OrderInv
<1>6. UtxoInv' /\ PoolInv'
  <2>1. \A h \in Branch[topHash] : BranchIsSound(h) /\ BlockIsOrdered(h)
    BY <1>0, <1>1, IdleStore DEF TidyInv, OrderInv
  <2>2. /\ utxo' \in UtxoBuckets /\ \A t \in Tx : utxo'[t] \subseteq Placed(Branch[topHash], t)
        /\ \A t \in Tx : utxo'[t] \subseteq Unspent(Branch[topHash], t)
    BY <1>1, <1>2, <2>1, ReindexedType, UtxoReindexed
  <2> QED
    BY <1>1, <1>3, <2>2 DEF TidyInv, UtxoInv, PoolInv, UtxoBuckets
<1> QED
  BY <1>0, <1>4, <1>5, <1>6 DEF TidyInv

\* While nothing was done that the code does not cope with, every step of the
\* node keeps the invariant.
LEMMA StepTidy ==
  ASSUME TidyInv, [NodeNext]_nodeVars, Tidy'
  PROVE  TidyInv'
<1>1. CASE UNCHANGED nodeVars
  BY <1>1, PoolStepLedger
<1>2. CASE \/ CleanUnapprovedCache \/ PrepareNewBlock
           \/ \E t \in Tx : CancelTransaction(t) \/ ReceivedNewTransaction(t) \/ HandleTx(t)
  BY <1>2, PoolStepLedger
<1>3. CASE \E b \in Hash : NodeAddBlock(b) \/ NodeRejectBlock(b)
  BY <1>1, <1>3, AddBlockLedger DEF NodeRejectBlock
<1>4. CASE StoreStep \/ NodeBlockAdded \/ CancelOld \/ AttachNew \/ ReplaceDone
  BY <1>4, StoreStepLedger, BlockAddedLedger, CancelOldLedger, AttachNewLedger, ReplaceDoneLedger
<1>5. ASSUME NodeDropBlock \/ ReindexData
      PROVE  Beside = {}
  BY <1>5 DEF NodeDropBlock, ReindexData, Tidy, MainOnly, Beside
<1>6. CASE NodeDropBlock \/ StoreDrops \/ NodeBlockRemoved \/ ReindexData
  BY <1>5, <1>6, DropLedger, BlockRemovedLedger, ReindexLedger
<1>7. CASE NodeHasDied
  BY <1>1, <1>7 DEF NodeHasDied
<1> QED
  BY <1>1, <1>2, <1>3, <1>4, <1>6, <1>7 DEF NodeNext

LEMMA StepLedger == LedgerInvariant /\ [NodeNext]_nodeVars => LedgerInvariant'
<1> SUFFICES ASSUME LedgerInvariant, [NodeNext]_nodeVars
             PROVE  LedgerInvariant'
  OBVIOUS
<1>1. (MainOnly' => MainOnly) /\ (Tidy' => Tidy)
  BY MarksStay
<1>2. NodeInv'
  BY <1>1, StepIntact DEF LedgerInvariant, NodeInv
<1>3. Tidy' => TidyInv'
  BY <1>1, StepTidy DEF LedgerInvariant
<1> QED
  BY <1>2, <1>3 DEF LedgerInvariant

(***************************************************************************)
(* The three buckets agree with the block store at every step of adding,   *)
(* replacing and dropping blocks, as long as dropblock and reindexcache    *)
(* are not run beside another branch and no block has a transaction twice; *)
(* after dropblock with more records than there should be.                 *)
(***************************************************************************)
THEOREM LedgerInvariance == NodeSpec => []LedgerInvariant
<1>1. NodeInit => LedgerInvariant
  BY InitLedger DEF LedgerInvariant, NodeInv, TidyInv
<1> QED
  BY <1>1, StepLedger, PTL DEF NodeSpec

-----------------------------------------------------------------------------
(***************************************************************************)
(* Types, and the pool: whatever blocks come in and whatever the operator  *)
(* does.                                                                   *)
(***************************************************************************)
BucketTypes ==
  /\ txBlocks \in [Tx -> Seq(Hash)]
  /\ \A t \in Tx : txSpent[t] \subseteq [out : Outs[t], by : Tx, block : Hash]
  /\ utxo \in UtxoBuckets
  /\ pool \in GoodPools

LocalTypes ==
  /\ npc \in {"idle", "adding", "replace", "dropping", "died"}
  /\ newBlock \in Hash \cup {NoHash} /\ oldTop \in Hash \cup {NoHash}
  /\ npc \in {"adding", "dropping"} => newBlock \in Hash
  /\ npc = "adding" => oldTop \in Hash
  /\ oldChain \in Seq(Hash) /\ newChain \in Seq(Hash)
  /\ past \subseteq Marks

TypesInv == AllInv /\ topHash \in Hash /\ BucketTypes /\ LocalTypes

\* A created blockchain has its types.
LEMMA InitTypes == NodeInit => TypesInv
<1> SUFFICES ASSUME NodeInit
             PROVE  TypesInv
  OBVIOUS
<1>0. NoHash \notin Hash /\ Genesis \in Hash
  BY TreeAssumption
<1>1. /\ IntactInv /\ TidyInv
  BY InitNode, InitLedger
<1>2. TypeOK /\ IndexOf(chain, topHash) /\ pc = "idle" /\ inited /\ topHash = Genesis
  BY <1>1, IdleStore DEF NodeInit, IInv, IntactInv
<1>3. AllInv
  BY <1>0, <1>2 DEF NodeInit, AllInv, CreateAllInv, BlockAllInv, WalkAllInv, RemoveAllInv,
     AddAllInv, IndexIsSomeBranch, Creating
<1>4. BucketTypes
  BY <1>1 DEF NodeInit, TidyInv, IntactInv, IndexInv, UtxoInv, PoolInv, BucketTypes, UtxoBuckets
<1>5. LocalTypes
  BY DEF NodeInit, LocalTypes
<1> QED
  BY <1>0, <1>2, <1>3, <1>4, <1>5 DEF TypesInv

\* The invariant of the block store, while it is at rest.
LEMMA UnchangedAll ==
  ASSUME AllInv, UNCHANGED vars
  PROVE  AllInv'
  BY DEF vars, database, reorg, AllInv, TypeOK, CreateAllInv, BlockAllInv, WalkAllInv,
     RemoveAllInv, AddAllInv, Shared, IndexIsSomeBranch, Creating

\* The block store works: nothing else changes.
LEMMA StoreTypes ==
  ASSUME TypesInv,
         (\E b \in Hash : NodeAddBlock(b)) \/ StoreStep \/ NodeDropBlock \/ StoreDrops
  PROVE  TypesInv'
<1>0. AllInv /\ topHash \in Hash /\ BucketTypes /\ LocalTypes
  BY DEF TypesInv
<1>1. AllInv'
  BY <1>0, AddBlockAll, ReorgAll, DropAll
     DEF NodeAddBlock, StoreStep, NodeDropBlock, StoreDrops, DeleteBlock
<1>2. topHash' \in Hash
  <2>1. ASSUME NEW b \in Hash, NodeAddBlock(b)
        PROVE  topHash' \in Hash
    BY <1>0, <2>1 DEF NodeAddBlock, AddBlockPut
  <2>2. CASE NodeDropBlock
    BY <1>0, <2>2, TreeAssumption DEF NodeDropBlock, DropSaveTop
  <2>3. CASE StoreDrops
    BY <1>0, <2>3 DEF StoreDrops, DropDeleteBlock, DropRemoveFromChain
  <2>4. CASE StoreStep
    <3>1. topHash' = topHash \/ (pc = "put" /\ topHash' = block)
      BY <2>4 DEF StoreStep, AddBlockNoTop, AddBlockParallel, AddBlockSaveTop, AddBlockToChain,
         UpdateChainOnNewBranch, WalkMissing, WalkNewBlock, WalkFound, RemoveOld, RemoveError,
         RemoveDone, AddNew, AddDone, database
    <3> QED
      BY <1>0, <3>1 DEF AllInv, BlockAllInv
  <2> QED
    BY <2>1, <2>2, <2>3, <2>4
<1>3. UNCHANGED ledger /\ BucketTypes'
  BY <1>0 DEF NodeAddBlock, StoreStep, NodeDropBlock, StoreDrops, ledger, index, BucketTypes
<1>4. LocalTypes'
  <2>1. ASSUME NEW b \in Hash, NodeAddBlock(b)
        PROVE  LocalTypes'
    BY <1>0, <2>1 DEF NodeAddBlock, LocalTypes, Marks
  <2>2. CASE NodeDropBlock
    BY <1>0, <2>2 DEF NodeDropBlock, LocalTypes, Marks, Beside
  <2>3. CASE StoreStep \/ StoreDrops
    BY <1>0, <2>3 DEF StoreStep, StoreDrops, nodeLocals, LocalTypes
  <2> QED
    BY <2>1, <2>2, <2>3
<1> QED
  BY <1>1, <1>2, <1>3, <1>4 DEF TypesInv

\* The lists of a replacement are blocks.
LEMMA ReplacementTypes ==
  ASSUME NEW old \in Hash, NEW top \in Hash, ~ ReplacementPanics(old, top)
  PROVE  LET r == GetBranchesReplacement(old, top)
         IN  r.side \in Seq(Hash) /\ r.main \in Seq(Hash)
<1> DEFINE g == GetSideBranch(old, top)
<1>1. old # Genesis /\ top # Genesis
  <2>1. old = Genesis \/ top = Genesis => g = NoBranches
    BY HeightAssumption DEF GetSideBranch
  <2> QED
    BY <2>1 DEF ReplacementPanics, NoBranches
<1>2. /\ g.side = Descending(Branch[old] \ Branch[top])
      /\ g.main = Reverse(Descending(Branch[top] \ Branch[old]))
  BY <1>1, SideBranch DEF Ascending
<1>3. Descending(Branch[old] \ Branch[top]) \in Seq(Hash) /\ Descending(Branch[top] \ Branch[old]) \in Seq(Hash)
  <2>1. /\ Descending(Branch[old] \ Branch[top]) \in Seq(Branch[old] \ Branch[top])
        /\ Descending(Branch[top] \ Branch[old]) \in Seq(Branch[top] \ Branch[old])
    BY DescendingLists
  <2>2. Branch[old] \ Branch[top] \subseteq Hash /\ Branch[top] \ Branch[old] \subseteq Hash
    BY BranchType
  <2> DEFINE d == Descending(Branch[old] \ Branch[top])
             u == Descending(Branch[top] \ Branch[old])
  <2> HIDE DEF d, u
  <2> QED
    BY <2>1, <2>2 DEF d, u
<1>4. g.side \in Seq(Hash) /\ g.main \in Seq(Hash)
  BY <1>2, <1>3, ReverseType
<1> HIDE DEF g
<1> QED
  BY <1>4 DEF GetBranchesReplacement, g

\* The three buckets follow the block store.
LEMMA BucketSteps ==
  ASSUME TypesInv,
         NodeBlockAdded \/ CancelOld \/ AttachNew \/ ReplaceDone \/ NodeBlockRemoved \/ ReindexData
  PROVE  TypesInv'
<1>0. AllInv /\ topHash \in Hash /\ BucketTypes /\ LocalTypes
  BY DEF TypesInv
<1>1. AllInv' /\ topHash' \in Hash
  <2>1. UNCHANGED vars
    BY DEF NodeBlockAdded, CancelOld, AttachNew, ReplaceDone, NodeBlockRemoved, ReindexData
  <2> QED
    BY <1>0, <2>1, UnchangedAll DEF vars, database
<1>2. ASSUME NEW b \in Hash
      PROVE  /\ DeleteFromBlock(pool, b) \in GoodPools /\ AddFromCanceled(pool, b) \in GoodPools
             /\ UpdateOnBlockAdd(utxo, b) \in UtxoBuckets /\ UpdateOnBlockCancel(utxo, b) \in UtxoBuckets
  <2>1. DeleteFromBlock(pool, b) \subseteq pool
    BY DEF DeleteFromBlock
  <2> QED
    BY <1>0, <2>1, SmallerPool, CanceledGood, UtxoAddedType, UtxoCancelledType DEF BucketTypes
<1>3. CASE NodeBlockAdded
  <2>1. newBlock \in Hash /\ oldTop \in Hash /\ past' = past
    BY <1>0, <1>3 DEF NodeBlockAdded, LocalTypes
  <2>2. txBlocks' \in [Tx -> Seq(Hash)]
    <3>1. ASSUME NEW t \in Tx
          PROVE  (IF t \in TxsOf(newBlock) THEN Append(txBlocks[t], newBlock) ELSE txBlocks[t]) \in Seq(Hash)
      BY <1>0, <2>1, AppendRange DEF BucketTypes
    <3> QED
      BY <1>3, <3>1 DEF NodeBlockAdded, IndexBlockAdded
  <2>3. \A t \in Tx : txSpent'[t] \subseteq [out : Outs[t], by : Tx, block : Hash]
    <3>1. \A t \in Tx : txSpent'[t] = txSpent[t] \cup SpendingsIn(newBlock, t)
      BY <1>3 DEF NodeBlockAdded, IndexBlockAdded
    <3> QED
      BY <1>0, <2>1, <3>1, SpendingsType DEF BucketTypes
  <2>4. pool' \in GoodPools /\ utxo' \in UtxoBuckets
    BY <1>0, <1>2, <1>3, <2>1 DEF NodeBlockAdded, BucketTypes
  <2>5. LocalTypes'
    <3>1. CASE addState # AddedToParallelTop
      BY <1>0, <1>3, <2>1, <3>1 DEF NodeBlockAdded, NodeReturn, LocalTypes
    <3>2. CASE addState = AddedToParallelTop /\ ReplacementPanics(oldTop, topHash)
      BY <1>0, <1>3, <2>1, <3>2 DEF NodeBlockAdded, LocalTypes
    <3>3. CASE addState = AddedToParallelTop /\ ~ ReplacementPanics(oldTop, topHash)
      <4> DEFINE r == GetBranchesReplacement(oldTop, topHash)
      <4>1. r.side \in Seq(Hash) /\ r.main \in Seq(Hash)
        BY <1>0, <2>1, <3>3, ReplacementTypes
      <4> HIDE DEF r
      <4>2. /\ npc' = "replace" /\ newChain' = r.main /\ oldChain' = r.side
            /\ UNCHANGED <<newBlock, oldTop>>
        BY <1>3, <3>3 DEF NodeBlockAdded, r
      <4> QED
        BY <1>0, <2>1, <4>1, <4>2 DEF LocalTypes
    <3> QED
      BY <3>1, <3>2, <3>3
  <2> QED
    BY <1>1, <2>2, <2>3, <2>4, <2>5 DEF TypesInv, BucketTypes
<1>4. CASE CancelOld \/ AttachNew
  <2>1. \A s \in Seq(Hash) : s # <<>> => Head(s) \in Hash /\ Tail(s) \in Seq(Hash)
    OBVIOUS
  <2>2. oldChain \in Seq(Hash) /\ newChain \in Seq(Hash)
    BY <1>0 DEF LocalTypes
  <2>3. pool' \in GoodPools /\ utxo' \in UtxoBuckets
    BY <1>2, <1>4, <2>1, <2>2 DEF CancelOld, AttachNew
  <2>4. oldChain' \in Seq(Hash) /\ newChain' \in Seq(Hash)
    BY <1>4, <2>1, <2>2 DEF CancelOld, AttachNew
  <2> QED
    BY <1>0, <1>1, <1>4, <2>3, <2>4
       DEF CancelOld, AttachNew, index, TypesInv, BucketTypes, LocalTypes
<1>5. CASE ReplaceDone
  <2>1. BucketTypes'
    BY <1>0, <1>5 DEF ReplaceDone, ledger, index, BucketTypes
  <2>2. LocalTypes'
    BY <1>0, <1>5 DEF ReplaceDone, NodeReturn, LocalTypes
  <2> QED
    BY <1>1, <2>1, <2>2 DEF TypesInv
<1>6. CASE NodeBlockRemoved
  <2>1. newBlock \in Hash
    BY <1>0, <1>6 DEF NodeBlockRemoved, LocalTypes
  <2>2. pool' \in GoodPools /\ utxo' \in UtxoBuckets
    BY <1>2, <1>6, <2>1 DEF NodeBlockRemoved
  <2>3. txBlocks' \in [Tx -> Seq(Hash)]
    <3>1. \A t \in Tx : Without(txBlocks[t], newBlock) \in Seq(Hash)
      BY <1>0, WithoutRange DEF BucketTypes
    <3> QED
      BY <1>6, <3>1 DEF NodeBlockRemoved, IndexBlockRemoved
  <2>4. \A t \in Tx : txSpent'[t] \subseteq txSpent[t]
    BY <1>6 DEF NodeBlockRemoved, IndexBlockRemoved
  <2>5. BucketTypes'
    BY <1>0, <2>2, <2>3, <2>4 DEF BucketTypes
  <2>6. LocalTypes'
    BY <1>0, <1>6 DEF NodeBlockRemoved, NodeReturn, LocalTypes
  <2> QED
    BY <1>1, <2>5, <2>6 DEF TypesInv
<1>7. CASE ReindexData
  <2>1. IndexReindex /\ UtxoReindex /\ pool' = pool
    BY <1>7 DEF ReindexData
  <2>2. utxo' \in UtxoBuckets
    BY <1>0, <2>1, ReindexedType
  <2>3. txBlocks' \in [Tx -> Seq(Hash)]
    <3>1. ASSUME NEW t \in Tx
          PROVE  Descending({h \in Branch[topHash] : t \in TxsOf(h)}) \in Seq(Hash)
      <4> DEFINE S == {h \in Branch[topHash] : t \in TxsOf(h)}
                 d == Descending(S)
      <4>1. S \in SUBSET Branch[topHash] /\ S \subseteq Hash
        BY <1>0, BranchType
      <4>2. d \in Seq(S)
        BY <1>0, <4>1, DescendingLists
      <4> HIDE DEF d, S
      <4>3. d \in Seq(Hash)
        BY <4>1, <4>2
      <4> QED
        BY <4>3 DEF d, S
    <3> QED
      BY <2>1, <3>1 DEF IndexReindex
  <2>4. \A t \in Tx : txSpent'[t] \subseteq [out : Outs[t], by : Tx, block : Hash]
    <3>1. \A h \in Branch[topHash] : h \in Hash
      BY <1>0, BranchType
    <3>2. \A t \in Tx : txSpent'[t] = UNION {SpendingsIn(h, t) : h \in Branch[topHash]}
      BY <2>1 DEF IndexReindex
    <3>3. ASSUME NEW t \in Tx, NEW r \in txSpent'[t]
          PROVE  r \in [out : Outs[t], by : Tx, block : Hash]
      <4>1. PICK h \in Branch[topHash] : r \in SpendingsIn(h, t)
        BY <3>2, <3>3
      <4> QED
        BY <3>1, <4>1, SpendingsType
    <3> QED
      BY <3>3
  <2>5. LocalTypes'
    BY <1>0, <1>7 DEF ReindexData, nodeLocals, LocalTypes, Beside, Marks
  <2> QED
    BY <1>0, <1>1, <2>1, <2>2, <2>3, <2>4, <2>5 DEF TypesInv, BucketTypes
<1> QED
  BY <1>3, <1>4, <1>5, <1>6, <1>7

\* Every step of the node keeps the types.
LEMMA StepTypes == TypesInv /\ [NodeNext]_nodeVars => TypesInv'
<1> SUFFICES ASSUME TypesInv, [NodeNext]_nodeVars
             PROVE  TypesInv'
  OBVIOUS
<1>1. ASSUME UNCHANGED <<vars, index, utxo, nodeLocals, past>>, pool' \in GoodPools
      PROVE  TypesInv'
  <2>1. AllInv' /\ topHash' \in Hash
    BY <1>1, UnchangedAll DEF TypesInv, vars, database
  <2> QED
    BY <1>1, <2>1 DEF TypesInv, BucketTypes, LocalTypes, index, nodeLocals
<1>2. CASE UNCHANGED nodeVars
  BY <1>1, <1>2 DEF nodeVars, ledger, TypesInv, BucketTypes
<1>3. ASSUME NEW q \in SUBSET pool, pool' = q, UNCHANGED <<vars, index, utxo, nodeLocals, past>>
      PROVE  TypesInv'
  BY <1>1, <1>3, SmallerPool DEF TypesInv, BucketTypes
<1>4. CASE CleanUnapprovedCache \/ \E t \in Tx : CancelTransaction(t)
  BY <1>3, <1>4 DEF CleanUnapprovedCache, CancelTransaction
<1>5. CASE PrepareNewBlock
  <2>1. PICK T \in GetTransactions : pool' = (pool \ T) \cup Range(TransactionsForNewBlock(T))
    BY <1>5 DEF PrepareNewBlock
  <2>2. T \in SUBSET pool /\ T \in GoodPools
    BY <2>1, SmallerPool DEF GetTransactions, TypesInv, BucketTypes
  <2>3. Range(TransactionsForNewBlock(T)) \subseteq T
    BY <2>2, NewBlockLists DEF Range
  <2>4. pool' \in SUBSET pool
    BY <2>1, <2>2, <2>3
  <2> QED
    BY <1>3, <1>5, <2>4 DEF PrepareNewBlock
<1>6. ASSUME NEW t \in Tx, ReceivedNewTransaction(t)
      PROVE  TypesInv'
  <2>1. Add(pool, t) \in GoodPools
    BY <1>6, AddGood DEF ReceivedNewTransaction, TypesInv, BucketTypes
  <2> QED
    BY <1>1, <1>6, <2>1 DEF ReceivedNewTransaction
<1>7. ASSUME NEW t \in Tx, HandleTx(t)
      PROVE  TypesInv'
  BY <1>2, <1>6, <1>7 DEF HandleTx
<1>8. CASE \/ (\E b \in Hash : NodeAddBlock(b)) \/ StoreStep \/ NodeDropBlock \/ StoreDrops
           \/ NodeBlockAdded \/ CancelOld \/ AttachNew \/ ReplaceDone \/ NodeBlockRemoved \/ ReindexData
  BY <1>8, StoreTypes, BucketSteps
<1>9. CASE NodeHasDied \/ \E b \in Hash : NodeRejectBlock(b)
  BY <1>2, <1>9 DEF NodeHasDied, NodeRejectBlock
<1> QED
  BY <1>2, <1>4, <1>5, <1>6, <1>7, <1>8, <1>9 DEF NodeNext

(***************************************************************************)
(* Every bucket and local of the node has its type, through dropped blocks *)
(* and replaced branches, whatever is stored beside the main chain.        *)
(***************************************************************************)
THEOREM NodeTypes == NodeSpec => []NodeTypeOK
<1>1. TypesInv => NodeTypeOK
  BY DEF TypesInv, AllInv, BucketTypes, LocalTypes, GoodPools, UtxoBuckets, NodeTypeOK
<1> QED
  BY InitTypes, StepTypes, <1>1, PTL DEF NodeSpec

(***************************************************************************)
(* No two transactions of the pool have an input in common, also when      *)
(* transactions of a branch that was left come back to it; whatever the    *)
(* operator does.                                                          *)
(***************************************************************************)
THEOREM PoolConsistent == NodeSpec => []PoolHasNoConflicts
<1>1. TypesInv => PoolHasNoConflicts
  BY DEF TypesInv, BucketTypes, GoodPools, PoolHasNoConflicts
<1> QED
  BY InitTypes, StepTypes, <1>1, PTL DEF NodeSpec

-----------------------------------------------------------------------------
(***************************************************************************)
(* Between operations an output that the node counts as unspent is one     *)
(* that nothing on the main chain spends, through every reorganisation,    *)
(* dropped block and reindexing; unless a block was dropped, its record    *)
(* names a block of the main chain that has the transaction.               *)
(***************************************************************************)
THEOREM UtxoUnspent == NodeSpec => []UtxoIsUnspentOnMain
<1>1. ASSUME LedgerInvariant, npc = "idle", Tidy, NEW t \in Tx, NEW r \in utxo[t]
      PROVE  /\ <<t, r.out>> \notin Spends(TxsOnBranch(topHash))
             /\ Fresh => r.block \in Branch[topHash] /\ t \in TxsOf(r.block)
  <2>1. UtxoInv /\ UtxoTip = topHash
    BY <1>1 DEF LedgerInvariant, TidyInv, UtxoTip
  <2>2. r \in Unspent(Branch[topHash], t)
    BY <2>1 DEF UtxoInv
  <2>3. Fresh => r \in Placed(Branch[topHash], t)
    BY <2>1 DEF UtxoInv
  <2>4. TxsOnBranch(topHash) = TxsIn(Branch[topHash])
    BY DEF TxsOnBranch, TxsIn
  <2> QED
    BY <2>2, <2>3, <2>4 DEF Unspent, Placed
<1>2. LedgerInvariant => UtxoIsUnspentOnMain
  BY <1>1, Zenon DEF UtxoIsUnspentOnMain, NodeIdle
<1> QED
  BY LedgerInvariance, <1>2, PTL

(***************************************************************************)
(* Between operations no transaction of the pool is on the main chain,     *)
(* also after dropped blocks.                                              *)
(***************************************************************************)
THEOREM PoolUnconfirmed == NodeSpec => []PoolIsUnconfirmed
<1>1. LedgerInvariant => PoolIsUnconfirmed
  BY DEF LedgerInvariant, TidyInv, PoolInv, UtxoTip, PoolIsUnconfirmed, NodeIdle
<1> QED
  BY LedgerInvariance, <1>1, PTL

\* The empty tip stands for the top of the main chain.
LEMMA NoTipIsTop ==
  ASSUME Covered(topHash), NEW i, i[1] \in Tx
  PROVE  InputState(i, NoHash) = InputState(i, topHash)
<1> DEFINE x == i[1]
           under == {h \in Branch[topHash] : x \in TxsOf(h)}
<1>1. /\ topHash \in Hash /\ topHash # NoHash /\ IndexOf(chain, topHash) /\ BranchIsSound(topHash)
      /\ topHash \in Branch[topHash] /\ Branch[topHash] \subseteq Indexed /\ Branch[topHash] \subseteq blocks
  BY TreeAssumption, BranchType DEF Covered
<1>2. txBlocks[x] \in Seq(Hash) /\ Range(txBlocks[x]) = {h \in Indexed : x \in TxsOf(h)}
  BY DEF Covered, IndexInv
<1>3. under = Range(txBlocks[x]) \cap Branch[topHash]
  BY <1>1, <1>2
<1>4. /\ IF under = {} THEN BlockOf(x, NoHash) = NoHash ELSE BlockOf(x, NoHash) \in under
      /\ IF under = {} THEN BlockOf(x, topHash) = NoHash ELSE BlockOf(x, topHash) \in under
  BY <1>1, <1>2, <1>3, ChooseUnderTip DEF BlockOf
<1>5. BlockOf(x, NoHash) = BlockOf(x, topHash)
  BY <1>1, <1>4, OnceOnBranch
<1>6. \A b, bottom : PlaceOfBlock(b, bottom, NoHash) = PlaceOfBlock(b, bottom, topHash)
  <2>1. InMain(topHash)
    BY <1>1 DEF InMain, BlockInChain, IndexOf
  <2> QED
    BY <1>1, <2>1 DEF PlaceOfBlock
<1>7. \A h : /\ GetTranactionOutputsSpent(x, h, NoHash) = GetTranactionOutputsSpent(x, h, topHash)
             /\ OutputsSpentFails(x, h, NoHash) <=> OutputsSpentFails(x, h, topHash)
  BY <1>6 DEF GetTranactionOutputsSpent, CheckBlockIsInRange, OutputsSpentFails, CheckBlockFails
<1>8. ~ ChooseHashFails(txBlocks[x], NoHash) /\ ~ ChooseHashFails(txBlocks[x], topHash)
  BY <1>1, ChooseDoesNotFail
<1>9. LookUp(x, NoHash) = LookUp(x, topHash)
  BY <1>5, <1>7, <1>8 DEF LookUp
<1> QED
  BY <1>5, <1>7, <1>9 DEF InputState

(***************************************************************************)
(* The transactions that the block maker takes from the pool pass the      *)
(* verification of a block on the top, and no two of them have an input in *)
(* common: the node accepts its own block, and it spends nothing twice.    *)
(***************************************************************************)
THEOREM OwnBlock == NodeSpec => []OwnBlockVerifies
<1>1. ASSUME LedgerInvariant
      PROVE  OwnBlockVerifies
  <2> DEFINE list == TransactionsForNewBlock(pool)
  <2> SUFFICES ASSUME npc = "idle", Tidy, NEW n \in DOMAIN list
               PROVE  /\ VerifyTransaction(list[n], {list[j] : j \in 1 .. n - 1}, topHash)
                      /\ \A j \in 1 .. n - 1 : InsOf(list[n]) \cap InsOf(list[j]) = {}
    BY DEF OwnBlockVerifies, NodeIdle
  <2>0. TidyInv
    BY <1>1 DEF LedgerInvariant
  <2>1. /\ list \in Seq(pool) /\ Verified(list) /\ NoTwice(list) /\ pool \subseteq Tx
        /\ \A t, u \in pool : t # u => InsOf(t) \cap InsOf(u) = {}
    BY <2>0, NewBlockLists DEF TidyInv, PoolInv, GoodPools
  <2> HIDE DEF list
  <2>2. n \in 1 .. Len(list) /\ list[n] \in Tx /\ Len(list) \in Nat
    BY <2>1
  <2>3. VerifyTransaction(list[n], {list[j] : j \in 1 .. n - 1}, NoHash)
    BY <2>1, <2>2 DEF Verified
  <2>4. Covered(topHash)
    BY <2>0, IdleStore, IdleCovered DEF TidyInv
  <2>5. \A i \in InsOf(list[n]) : InputState(i, NoHash) = InputState(i, topHash)
    BY <2>2, <2>4, TxTypes, NoTipIsTop
  <2>6. VerifyTransaction(list[n], {list[j] : j \in 1 .. n - 1}, topHash)
    BY <2>3, <2>5 DEF VerifyTransaction
  <2>7. ASSUME NEW j \in 1 .. n - 1
        PROVE  InsOf(list[n]) \cap InsOf(list[j]) = {}
    <3>1. j \in 1 .. Len(list) /\ j # n
      BY <2>2
    <3>2. list[n] \in pool /\ list[j] \in pool /\ list[n] # list[j]
      BY <2>1, <2>2, <3>1 DEF NoTwice
    <3> QED
      BY <2>1, <3>2
  <2> QED
    BY <2>6, <2>7
<1> QED
  BY LedgerInvariance, <1>1, PTL

-----------------------------------------------------------------------------
(***************************************************************************)
(* Totals of outputs: the sum over a finite set does not depend on the     *)
(* order in which MapThenSumSet takes the elements.                        *)
(***************************************************************************)

\* The element of a set that is added next.
One(S) == CHOOSE x \in S : TRUE

(***************************************************************************)
(* g gives the totals of the subsets of U.                                 *)
(***************************************************************************)
Totals(g, U) ==
  /\ g \in [SUBSET U -> Nat]
  /\ g[{}] = 0
  /\ \A S \in SUBSET U : \A x \in U \ S : g[S \cup {x}] = g[S] + Value[x]

\* The subsets of a finite set of outputs have totals.
LEMMA TotalsExist ==
  ASSUME NEW U, IsFiniteSet(U), \A x \in U : Value[x] \in Nat
  PROVE  \E g : Totals(g, U)
<1> DEFINE P == {n \in Nat : \A S \in SUBSET U : Cardinality(S) = n => \E g : Totals(g, S)}
           N == Cardinality(U)
<1>1. N \in Nat
  BY FS_CardinalityType
<1>2. 0 \in P
  <2> SUFFICES ASSUME NEW S \in SUBSET U, Cardinality(S) = 0
               PROVE  \E g : Totals(g, S)
    OBVIOUS
  <2>1. S = {}
    BY FS_Subset, FS_EmptySet
  <2> DEFINE g == [T \in SUBSET S |-> 0]
  <2>2. Totals(g, S)
    BY <2>1 DEF Totals
  <2> QED
    BY <2>2
<1>3. ASSUME NEW n \in 1 .. N, n - 1 \in P
      PROVE  n \in P
  <2> SUFFICES ASSUME NEW S \in SUBSET U, Cardinality(S) = n
               PROVE  \E g : Totals(g, S)
    OBVIOUS
  <2>1. IsFiniteSet(S) /\ S # {}
    BY FS_Subset, FS_EmptySet
  <2>2. PICK z : z \in S
    BY <2>1
  <2> DEFINE R == S \ {z}
  <2>3. R \in SUBSET U /\ Cardinality(R) = n - 1
    BY <2>1, <2>2, FS_RemoveElement
  <2>4. PICK g : Totals(g, R)
    BY <1>3, <2>3
  <2> DEFINE v(T) == IF z \in T THEN Value[z] ELSE 0
             f == [T \in SUBSET S |-> g[T \ {z}] + v(T)]
  <2>5. \A T \in SUBSET S : T \ {z} \in SUBSET R /\ g[T \ {z}] \in Nat /\ v(T) \in Nat
    BY <2>2, <2>4 DEF Totals
  <2>6. f \in [SUBSET S -> Nat]
    <3>1. ASSUME NEW T \in SUBSET S
          PROVE  g[T \ {z}] + v(T) \in Nat
      <4> DEFINE a == g[T \ {z}]
                 b == v(T)
      <4>1. a \in Nat /\ b \in Nat
        BY <2>5
      <4> HIDE DEF a, b
      <4>2. a + b \in Nat
        BY <4>1
      <4> QED
        BY <4>2 DEF a, b
    <3> QED
      BY <3>1
  <2>7. f[{}] = 0
    <3>1. f[{}] = g[{} \ {z}] + 0
      OBVIOUS
    <3>2. {} \ {z} = {} /\ g[{}] = 0
      BY <2>4 DEF Totals
    <3> QED
      BY <3>1, <3>2
  <2>8. ASSUME NEW T \in SUBSET S, NEW x \in S \ T
        PROVE  f[T \cup {x}] = f[T] + Value[x]
    <3> DEFINE X == T \cup {x}
    <3>1. X \in SUBSET S
      OBVIOUS
    <3>2. f[X] = g[X \ {z}] + v(X) /\ f[T] = g[T \ {z}] + v(T)
      BY <3>1
    <3>3. g[T \ {z}] \in Nat /\ Value[x] \in Nat
      BY <2>5
    <3>4. CASE x = z
      <4>1. X \ {z} = T \ {z} /\ v(X) = Value[x] /\ v(T) = 0
        BY <3>4
      <4> HIDE DEF f, v, X
      <4>2. f[X] = f[T] + Value[x]
        BY <3>2, <3>3, <4>1
      <4> QED
        BY <4>2 DEF X
    <3>5. CASE x # z
      <4> DEFINE Y == T \ {z}
      <4>1. X \ {z} = Y \cup {x} /\ v(X) = v(T) /\ Y \in SUBSET R /\ x \in R \ Y
        BY <3>5
      <4>2. g[Y \cup {x}] = g[Y] + Value[x]
        BY <2>4, <4>1 DEF Totals
      <4>3. v(T) \in Nat
        BY <2>5
      <4> HIDE DEF f, v, X, Y
      <4>4. f[X] = g[Y] + Value[x] + v(T) /\ f[T] = g[Y] + v(T) /\ g[Y] \in Nat
        BY <3>2, <3>3, <4>1, <4>2 DEF Y
      <4>5. f[X] = f[T] + Value[x]
        BY <3>3, <4>3, <4>4
      <4> QED
        BY <4>5 DEF X
    <3> QED
      BY <3>4, <3>5
  <2> HIDE DEF f
  <2>9. Totals(f, S)
    BY <2>6, <2>7, <2>8 DEF Totals
  <2> QED
    BY <2>9
<1>4. N \in P
  <2> HIDE DEF P, N
  <2>1. \A i \in 0 .. N : i \in P
    BY <1>1, <1>2, <1>3, NumberInduction
  <2> QED
    BY <1>1, <2>1
<1> QED
  BY <1>4

\* The rounds of the sum, whatever element is taken next, give these totals.
LEMMA TotalsUnique ==
  ASSUME NEW U, IsFiniteSet(U), NEW g, Totals(g, U),
         NEW f, f = [S \in SUBSET U |-> f[S]], f[{}] = 0,
         \A S \in SUBSET U : S # {} => f[S] = Value[One(S)] + f[S \ {One(S)}],
         \A x \in U : Value[x] \in Nat
  PROVE  f = g
<1> DEFINE P == {n \in Nat : \A S \in SUBSET U : Cardinality(S) = n => f[S] = g[S]}
           N == Cardinality(U)
<1>1. N \in Nat
  BY FS_CardinalityType
<1>2. 0 \in P
  <2> SUFFICES ASSUME NEW S \in SUBSET U, Cardinality(S) = 0
               PROVE  f[S] = g[S]
    OBVIOUS
  <2>1. S = {}
    BY FS_Subset, FS_EmptySet
  <2> QED
    BY <2>1 DEF Totals
<1>3. ASSUME NEW n \in 1 .. N, n - 1 \in P
      PROVE  n \in P
  <2>0. n \in Nat
    BY <1>1
  <2> SUFFICES ASSUME NEW S \in SUBSET U, Cardinality(S) = n
               PROVE  f[S] = g[S]
    BY <2>0, Zenon
  <2>1. IsFiniteSet(S) /\ S # {}
    BY FS_Subset, FS_EmptySet
  <2> DEFINE x == One(S)
             R == S \ {x}
  <2>2. x \in S
    BY <2>1 DEF One
  <2>3. f[S] = Value[x] + f[R]
    BY <2>1
  <2> HIDE DEF x
  <2>4. R \in SUBSET U /\ Cardinality(R) = n - 1
    BY <2>1, <2>2, FS_RemoveElement
  <2>5. f[R] = g[R]
    BY <1>3, <2>4
  <2>6. R \cup {x} = S /\ x \in U \ R
    BY <2>2
  <2>7. g[S] = g[R] + Value[x]
    BY <2>4, <2>6 DEF Totals
  <2>8. g[R] \in Nat /\ Value[x] \in Nat
    BY <2>4, <2>6 DEF Totals
  <2> HIDE DEF R
  <2> QED
    BY <2>3, <2>5, <2>7, <2>8
<1>4. \A i \in 0 .. N : i \in P
  <2> HIDE DEF P, N
  <2> QED
    BY <1>1, <1>2, <1>3, NumberInduction
<1>5. ASSUME NEW S \in SUBSET U
      PROVE  f[S] = g[S]
  <2>1. Cardinality(S) \in 0 .. N
    BY FS_Subset, FS_CardinalityType
  <2> QED
    BY <1>4, <2>1
<1>6. g = [S \in SUBSET U |-> g[S]]
  BY DEF Totals
<1> QED
  BY <1>5, <1>6

\* What MapThenSumSet computes.
LEMMA TotalIsSum ==
  ASSUME NEW U, IsFiniteSet(U), NEW g, Totals(g, U), \A x \in U : Value[x] \in Nat
  PROVE  TotalOf(U) = g[U]
<1> DEFINE Sums(f) == f = [S \in SUBSET U |-> IF S = {} THEN 0 ELSE Value[One(S)] + f[S \ {One(S)}]]
           f == CHOOSE h : Sums(h)
<1>1. Sums(g)
  <2>1. \A S \in SUBSET U : g[S] = IF S = {} THEN 0 ELSE Value[One(S)] + g[S \ {One(S)}]
    <3> SUFFICES ASSUME NEW S \in SUBSET U, S # {}
                 PROVE  g[S] = Value[One(S)] + g[S \ {One(S)}]
      BY DEF Totals
    <3> DEFINE x == One(S)
               R == S \ {x}
    <3>1. x \in S
      BY DEF One
    <3> HIDE DEF x
    <3>2. R \in SUBSET U /\ x \in U \ R /\ R \cup {x} = S
      BY <3>1
    <3>3. g[S] = g[R] + Value[x] /\ g[R] \in Nat /\ Value[x] \in Nat
      BY <3>2 DEF Totals
    <3> HIDE DEF R
    <3>4. g[S] = Value[x] + g[R]
      BY <3>3
    <3> QED
      BY <3>4 DEF R, x
  <2>2. g = [S \in SUBSET U |-> g[S]]
    BY DEF Totals
  <2> QED
    BY <2>1, <2>2
<1>2. Sums(f)
  BY <1>1
<1>3. TotalOf(U) = f[U]
  BY DEF TotalOf, MapThenSumSet, MapThenFoldSet, One
<1> HIDE DEF f
<1>4. /\ f = [S \in SUBSET U |-> f[S]]
      /\ f[{}] = 0
      /\ \A S \in SUBSET U : S # {} => f[S] = Value[One(S)] + f[S \ {One(S)}]
  BY <1>2
<1> HIDE DEF Sums
<1>5. f = g
  BY <1>4, TotalsUnique
<1> QED
  BY <1>3, <1>5

\* The totals of the subsets of a finite set are what MapThenSumSet computes.
LEMMA SubsetTotals ==
  ASSUME NEW U, IsFiniteSet(U), \A x \in U : Value[x] \in Nat
  PROVE  \E g : Totals(g, U) /\ \A S \in SUBSET U : TotalOf(S) = g[S]
<1>1. PICK g : Totals(g, U)
  BY TotalsExist
<1>2. ASSUME NEW S \in SUBSET U
      PROVE  TotalOf(S) = g[S]
  <2> DEFINE h == [T \in SUBSET S |-> g[T]]
  <2>1. Totals(h, S)
    BY <1>1 DEF Totals
  <2>2. IsFiniteSet(S)
    BY FS_Subset
  <2>3. h[S] = g[S]
    OBVIOUS
  <2> HIDE DEF h
  <2> QED
    BY <2>1, <2>2, <2>3, TotalIsSum
<1> QED
  BY <1>1, <1>2

\* The total of two sets without a common element, and of a part of a set.
LEMMA TotalOfUnion ==
  ASSUME NEW A, NEW B, IsFiniteSet(A), IsFiniteSet(B), A \cap B = {},
         \A x \in A \cup B : Value[x] \in Nat
  PROVE  /\ TotalOf(A) \in Nat /\ TotalOf(B) \in Nat
         /\ TotalOf(A \cup B) = TotalOf(A) + TotalOf(B)
<1> DEFINE U == A \cup B
<1>1. IsFiniteSet(U)
  BY FS_Union
<1>2. PICK g : Totals(g, U) /\ \A S \in SUBSET U : TotalOf(S) = g[S]
  BY <1>1, SubsetTotals
<1> DEFINE P == {n \in Nat : \A S \in SUBSET B : Cardinality(S) = n => g[A \cup S] = g[A] + g[S]}
           N == Cardinality(B)
<1>3. N \in Nat /\ \A S \in SUBSET U : g[S] \in Nat
  BY <1>2, FS_CardinalityType DEF Totals
<1>4. 0 \in P
  <2> SUFFICES ASSUME NEW S \in SUBSET B, Cardinality(S) = 0
               PROVE  g[A \cup S] = g[A] + g[S]
    OBVIOUS
  <2>1. S = {} /\ A \cup S = A
    BY FS_Subset, FS_EmptySet
  <2>2. g[{}] = 0 /\ g[A] \in Nat
    BY <1>2 DEF Totals
  <2> QED
    BY <2>1, <2>2
<1>5. ASSUME NEW n \in 1 .. N, n - 1 \in P
      PROVE  n \in P
  <2> SUFFICES ASSUME NEW S \in SUBSET B, Cardinality(S) = n
               PROVE  g[A \cup S] = g[A] + g[S]
    BY <1>3
  <2>1. IsFiniteSet(S) /\ S # {}
    BY FS_Subset, FS_EmptySet
  <2>2. PICK z : z \in S
    BY <2>1
  <2> DEFINE R == S \ {z}
  <2>3. R \in SUBSET B /\ Cardinality(R) = n - 1
    BY <2>1, <2>2, FS_RemoveElement
  <2>4. g[A \cup R] = g[A] + g[R]
    BY <1>5, <2>3
  <2>5. R \cup {z} = S /\ z \in U \ R /\ R \in SUBSET U
    BY <2>2
  <2>6. (A \cup R) \cup {z} = A \cup S /\ z \in U \ (A \cup R) /\ A \cup R \in SUBSET U
    BY <2>2
  <2>7. g[S] = g[R] + Value[z]
    BY <1>2, <2>5 DEF Totals
  <2>8. g[A \cup S] = g[A \cup R] + Value[z]
    BY <1>2, <2>6 DEF Totals
  <2>9. g[A] \in Nat /\ g[R] \in Nat /\ Value[z] \in Nat
    BY <1>3, <2>5
  <2> HIDE DEF R
  <2> QED
    BY <2>4, <2>7, <2>8, <2>9
<1>6. N \in P
  <2> HIDE DEF P, N
  <2>1. \A i \in 0 .. N : i \in P
    BY <1>3, <1>4, <1>5, NumberInduction
  <2> QED
    BY <1>3, <2>1
<1>7. g[U] = g[A] + g[B]
  BY <1>6
<1>8. TotalOf(A) = g[A] /\ TotalOf(B) = g[B] /\ TotalOf(U) = g[U]
  BY <1>2
<1>9. g[A] \in Nat /\ g[B] \in Nat
  BY <1>3
<1> QED
  BY <1>7, <1>8, <1>9

LEMMA TotalOfPart ==
  ASSUME NEW A, IsFiniteSet(A), NEW B \in SUBSET A, \A x \in A : Value[x] \in Nat
  PROVE  /\ TotalOf(A) \in Nat /\ TotalOf(B) \in Nat /\ TotalOf(A \ B) \in Nat
         /\ TotalOf(A) = TotalOf(B) + TotalOf(A \ B)
<1> DEFINE C == A \ B
<1>1. IsFiniteSet(B) /\ IsFiniteSet(C) /\ B \cap C = {} /\ B \cup C = A
  BY FS_Subset
<1> HIDE DEF C
<1>2. \A x \in B \cup C : Value[x] \in Nat
  BY <1>1
<1>3. /\ TotalOf(B) \in Nat /\ TotalOf(C) \in Nat
      /\ TotalOf(B \cup C) = TotalOf(B) + TotalOf(C)
  BY <1>1, <1>2, TotalOfUnion
<1>4. TotalOf(A) = TotalOf(B) + TotalOf(C)
  BY <1>1, <1>3
<1> QED
  BY <1>3, <1>4 DEF C

\* The total of one output, and of none.
LEMMA TotalOfOne ==
  /\ TotalOf({}) = 0
  /\ \A x : Value[x] \in Nat => TotalOf({x}) = Value[x]
<1>1. TotalOf({}) = 0
  <2>1. IsFiniteSet({})
    BY FS_EmptySet
  <2>2. PICK g : Totals(g, {}) /\ \A S \in SUBSET {} : TotalOf(S) = g[S]
    BY <2>1, SubsetTotals
  <2> QED
    BY <2>2 DEF Totals
<1>2. ASSUME NEW x, Value[x] \in Nat
      PROVE  TotalOf({x}) = Value[x]
  <2> DEFINE U == {x}
  <2>1. IsFiniteSet(U)
    BY FS_Singleton
  <2>2. \A y \in U : Value[y] \in Nat
    BY <1>2
  <2>3. {} \in SUBSET U /\ x \in U \ {} /\ {} \cup {x} = U
    OBVIOUS
  <2> HIDE DEF U
  <2>4. PICK g : Totals(g, U) /\ \A S \in SUBSET U : TotalOf(S) = g[S]
    BY <2>1, <2>2, SubsetTotals
  <2>5. g[{} \cup {x}] = g[{}] + Value[x] /\ g[{}] = 0
    BY <2>3, <2>4 DEF Totals
  <2>6. g[U] = Value[x]
    BY <1>2, <2>3, <2>5
  <2>7. TotalOf(U) = Value[x]
    BY <2>4, <2>6
  <2> QED
    BY <2>7 DEF U
<1> QED
  BY <1>1, <1>2

\* A family of subsets of a finite set has a smallest member.
LEMMA SmallestSet ==
  ASSUME NEW U, IsFiniteSet(U), NEW F \in SUBSET (SUBSET U), F # {}
  PROVE  \E S \in F : \A x \in S : S \ {x} \notin F
<1> DEFINE T == {Cardinality(S) : S \in F}
<1>1. \A S \in F : IsFiniteSet(S) /\ Cardinality(S) \in Nat
  BY FS_Subset, FS_CardinalityType
<1>2. T \in SUBSET Nat /\ T # {}
  BY <1>1
<1>3. PICK n \in T : \A m \in T : n <= m
  BY <1>2, LeastNumber
<1>4. PICK S \in F : Cardinality(S) = n
  BY <1>3
<1>5. ASSUME NEW x \in S, S \ {x} \in F
      PROVE  FALSE
  <2>1. Cardinality(S \ {x}) = n - 1
    BY <1>1, <1>4, FS_RemoveElement
  <2>2. n \in Nat /\ n <= n - 1
    BY <1>2, <1>3, <1>5, <2>1
  <2> QED
    BY <2>2
<1> QED
  BY <1>5

\* One of the outputs of a finite set has the largest value.
LEMMA LargestValue ==
  ASSUME NEW S, IsFiniteSet(S), S # {}, \A x \in S : Value[x] \in Nat
  PROVE  \E o \in S : \A p \in S : Value[p] <= Value[o]
<1> DEFINE total == TotalOf(S)
           T == {total - Value[p] : p \in S}
<1>1. ASSUME NEW p \in S
      PROVE  total \in Nat /\ total - Value[p] \in Nat
  <2> DEFINE one == {p}
  <2>1. one \in SUBSET S
    OBVIOUS
  <2>2. TotalOf(one) = Value[p] /\ Value[p] \in Nat
    BY TotalOfOne
  <2> HIDE DEF one
  <2>3. /\ total \in Nat /\ TotalOf(S \ one) \in Nat
        /\ total = TotalOf(one) + TotalOf(S \ one)
    BY <2>1, TotalOfPart
  <2> HIDE DEF total
  <2> QED
    BY <2>2, <2>3
<1> HIDE DEF total
<1>2. T \in SUBSET Nat /\ T # {}
  BY <1>1
<1>3. PICK n \in T : \A m \in T : n <= m
  BY <1>2, LeastNumber
<1>4. PICK o \in S : n = total - Value[o]
  BY <1>3
<1>5. ASSUME NEW p \in S
      PROVE  Value[p] <= Value[o]
  <2>1. n <= total - Value[p]
    BY <1>3
  <2>2. total \in Nat /\ Value[p] \in Nat /\ Value[o] \in Nat
    BY <1>1
  <2> QED
    BY <1>4, <2>1, <2>2
<1> QED
  BY <1>5

-----------------------------------------------------------------------------
(***************************************************************************)
(* The outputs that a new transaction spends.                              *)
(***************************************************************************)

\* ChooseSpendableOutputs reaches an amount that all of the outputs reach.
LEMMA SmallestReach ==
  ASSUME NEW all, IsFiniteSet(all), \A x \in all : Value[x] \in Nat,
         NEW amount \in Nat \ {0}, TotalOf(all) >= amount
  PROVE  \E S \in SUBSET all :
           /\ \A o \in S, p \in all \ S : Value[o] <= Value[p]
           /\ JustReaches(S, {o \in S : \A p \in S : Value[p] <= Value[o]}, amount)
<1> DEFINE Low(S) == \A o \in S, p \in all \ S : Value[o] <= Value[p]
           F == {S \in SUBSET all : Low(S) /\ TotalOf(S) >= amount}
<1>1. F \in SUBSET (SUBSET all) /\ all \in F
  OBVIOUS
<1>2. PICK S \in F : \A x \in S : S \ {x} \notin F
  <2> HIDE DEF F
  <2> QED
    BY <1>1, SmallestSet
<1>3. S \in SUBSET all /\ Low(S) /\ TotalOf(S) >= amount
  BY <1>2
<1>4. IsFiniteSet(S) /\ S # {} /\ \A x \in S : Value[x] \in Nat
  <2>1. IsFiniteSet(S)
    BY <1>3, FS_Subset
  <2>2. TotalOf({}) = 0 /\ ~ (0 >= amount)
    BY TotalOfOne
  <2>3. S # {}
    BY <1>3, <2>2
  <2> QED
    BY <1>3, <2>1, <2>3
<1>5. PICK o \in S : \A p \in S : Value[p] <= Value[o]
  BY <1>4, LargestValue
<1> DEFINE R == S \ {o}
<1>6. R \in SUBSET all /\ Low(R)
  <2>1. ASSUME NEW q \in R, NEW p \in all \ R
        PROVE  Value[q] <= Value[p]
    <3>1. p = o \/ p \in all \ S
      OBVIOUS
    <3> QED
      BY <1>3, <1>5, <3>1
  <2> QED
    BY <1>3, <2>1
<1>7. ~ (TotalOf(R) >= amount)
  BY <1>2, <1>6
<1>8. TotalOf(R) \in Nat
  <2>1. R \in SUBSET S
    OBVIOUS
  <2> HIDE DEF R
  <2> QED
    BY <1>4, <2>1, TotalOfPart
<1>9. TotalOf(S \ {o}) < amount
  BY <1>7, <1>8
<1> QED
  BY <1>3, <1>5, <1>9 DEF JustReaches

\* ExtendNewTransactionInputs reaches an amount that the outputs of the pool make up for.
LEMMA PendingReach ==
  ASSUME NEW all, NEW pending, IsFiniteSet(all), IsFiniteSet(pending), all \cap pending = {},
         \A x \in all \cup pending : Value[x] \in Nat,
         NEW amount \in Nat \ {0}, TotalOf(all) < amount, TotalOf(all \cup pending) >= amount
  PROVE  \E Q \in SUBSET pending : JustReaches(all \cup Q, Q, amount)
<1> DEFINE F == {Q \in SUBSET pending : TotalOf(all \cup Q) >= amount}
<1>1. F \in SUBSET (SUBSET pending) /\ pending \in F
  OBVIOUS
<1>2. PICK Q \in F : \A x \in Q : Q \ {x} \notin F
  <2> HIDE DEF F
  <2> QED
    BY <1>1, SmallestSet
<1>3. Q \in SUBSET pending /\ TotalOf(all \cup Q) >= amount
  BY <1>2
<1>4. ASSUME NEW P \in SUBSET pending
      PROVE  TotalOf(all \cup P) \in Nat
  <2>1. IsFiniteSet(P) /\ all \cap P = {} /\ \A x \in all \cup P : Value[x] \in Nat
    BY FS_Subset
  <2> QED
    BY <2>1, TotalOfUnion
<1>5. Q # {}
  <2>1. ASSUME Q = {}
        PROVE  FALSE
    <3>1. all \cup Q = all
      BY <2>1
    <3>2. TotalOf(all) \in Nat /\ TotalOf(all) >= amount
      BY <1>3, <1>4, <3>1
    <3> QED
      BY <3>2
  <2> QED
    BY <2>1
<1>6. PICK o : o \in Q
  BY <1>5
<1> DEFINE P == Q \ {o}
<1>7. P \in SUBSET pending /\ (all \cup Q) \ {o} = all \cup P
  BY <1>3, <1>6
<1>8. ~ (TotalOf(all \cup P) >= amount)
  BY <1>2, <1>6, <1>7
<1>9. TotalOf(all \cup P) < amount
  <2> DEFINE total == TotalOf(all \cup P)
  <2>1. total \in Nat /\ ~ (total >= amount)
    BY <1>4, <1>7, <1>8
  <2> HIDE DEF total
  <2>2. total < amount
    BY <2>1
  <2> QED
    BY <2>2 DEF total
<1>10. TotalOf((all \cup Q) \ {o}) < amount
  BY <1>7, <1>9
<1> QED
  BY <1>3, <1>6, <1>10 DEF JustReaches

(***************************************************************************)
(* PrepareNewTransaction finds inputs for an amount exactly when all that  *)
(* the key may spend reaches it.                                           *)
(***************************************************************************)
LEMMA PreparedInputs ==
  ASSUME NEW k, NEW amount \in Nat \ {0},
         IsFiniteSet(Spendable(k)), IsFiniteSet(PendingOutputs(k)),
         Spendable(k) \cap PendingOutputs(k) = {},
         \A x \in Spendable(k) \cup PendingOutputs(k) : Value[x] \in Nat
  PROVE  /\ \A I \in PrepareNewTransaction(k, amount) : I \subseteq Spendable(k) \cup PendingOutputs(k)
         /\ PrepareNewTransaction(k, amount) # {}
              <=> amount <= TotalOf(Spendable(k) \cup PendingOutputs(k))
<1> DEFINE all == Spendable(k)
           pending == PendingOutputs(k)
           chosen == ChooseSpendableOutputs(k, amount)
           Extended(S) == ExtendNewTransactionInputs(k, amount, S)
           prepared == PrepareNewTransaction(k, amount)
<1> HIDE DEF all, pending
<1>0. /\ IsFiniteSet(all) /\ IsFiniteSet(pending) /\ all \cap pending = {}
      /\ \A x \in all \cup pending : Value[x] \in Nat
  BY DEF all, pending
<1>1. /\ TotalOf(all) \in Nat /\ TotalOf(pending) \in Nat
      /\ TotalOf(all \cup pending) = TotalOf(all) + TotalOf(pending)
  BY <1>0, TotalOfUnion
<1>2. CASE TotalOf(all) < amount
  <2>1. chosen = {all}
    BY <1>2 DEF ChooseSpendableOutputs, all
  <2>2. prepared = Extended(all)
    BY <1>2, <2>1 DEF PrepareNewTransaction
  <2>3. Extended(all) = {all \cup P : P \in {Q \in SUBSET pending : JustReaches(all \cup Q, Q, amount)}}
    BY DEF ExtendNewTransactionInputs, pending
  <2> HIDE DEF prepared, Extended
  <2>4. ASSUME NEW I \in prepared
        PROVE  I \subseteq all \cup pending
    <3>1. I \in Extended(all)
      BY <2>2
    <3>2. PICK P \in SUBSET pending : I = all \cup P
      BY <2>3, <3>1
    <3> QED
      BY <3>2
  <2>5. ASSUME prepared # {}
        PROVE  amount <= TotalOf(all \cup pending)
    <3>1. PICK P \in SUBSET pending : JustReaches(all \cup P, P, amount)
      BY <2>2, <2>3, <2>5
    <3> DEFINE A == all \cup pending
               B == all \cup P
    <3>2. IsFiniteSet(A) /\ B \in SUBSET A
      BY <1>0, FS_Union
    <3> HIDE DEF A, B
    <3>3. \A x \in A : Value[x] \in Nat
      BY <1>0 DEF A
    <3>4. /\ TotalOf(A) \in Nat /\ TotalOf(B) \in Nat /\ TotalOf(A \ B) \in Nat
          /\ TotalOf(A) = TotalOf(B) + TotalOf(A \ B)
      BY <3>2, <3>3, TotalOfPart
    <3>5. TotalOf(B) >= amount
      BY <3>1 DEF JustReaches, B
    <3>6. amount <= TotalOf(A)
      BY <3>4, <3>5
    <3> QED
      BY <3>6 DEF A
  <2>6. ASSUME amount <= TotalOf(all \cup pending)
        PROVE  prepared # {}
    <3>1. TotalOf(all \cup pending) >= amount
      BY <1>1, <2>6
    <3>2. PICK Q \in SUBSET pending : JustReaches(all \cup Q, Q, amount)
      BY <1>0, <1>2, <3>1, PendingReach
    <3>3. all \cup Q \in Extended(all)
      BY <2>3, <3>2
    <3> QED
      BY <2>2, <3>3
  <2>7. prepared # {} <=> amount <= TotalOf(all \cup pending)
    BY <2>5, <2>6
  <2> QED
    BY <2>4, <2>7 DEF prepared, all, pending
<1>3. CASE ~ (TotalOf(all) < amount)
  <2> DEFINE Right(S) == /\ \A o \in S, p \in all \ S : Value[o] <= Value[p]
                         /\ JustReaches(S, {o \in S : \A p \in S : Value[p] <= Value[o]}, amount)
  <2>1. chosen = {S \in SUBSET all : Right(S)}
    BY <1>3 DEF ChooseSpendableOutputs, all
  <2>2. ASSUME NEW S \in chosen
        PROVE  S \in SUBSET all /\ ~ (TotalOf(S) < amount)
    <3>1. S \in SUBSET all /\ TotalOf(S) >= amount
      BY <2>1 DEF JustReaches
    <3>2. TotalOf(S) \in Nat
      BY <1>0, <3>1, TotalOfPart
    <3> QED
      BY <3>1, <3>2
  <2> HIDE DEF Extended
  <2>3. prepared = UNION {IF TotalOf(S) < amount THEN Extended(S) ELSE {S} : S \in chosen}
    BY DEF PrepareNewTransaction, Extended
  <2> HIDE DEF chosen, prepared
  <2>4. prepared = chosen
    BY <2>2, <2>3
  <2>5. TotalOf(all) >= amount
    BY <1>1, <1>3
  <2>6. PICK S \in SUBSET all : Right(S)
    BY <1>0, <2>5, SmallestReach
  <2>7. prepared # {}
    BY <2>1, <2>4, <2>6
  <2>8. amount <= TotalOf(all \cup pending)
    BY <1>1, <2>5
  <2>9. \A I \in prepared : I \subseteq all \cup pending
    BY <2>2, <2>4
  <2> QED
    BY <2>7, <2>8, <2>9 DEF prepared, all, pending
<1> QED
  BY <1>2, <1>3

\* The values of a function with a finite domain are finitely many.
LEMMA FiniteValues ==
  ASSUME NEW f, IsFiniteSet(DOMAIN f)
  PROVE  IsFiniteSet({f[x] : x \in DOMAIN f})
<1> DEFINE D == DOMAIN f
           V == {f[x] : x \in D}
           g == [x \in D |-> f[x]]
<1>1. g \in Surjection(D, V)
  BY DEF Surjection
<1> HIDE DEF g, V
<1>2. IsFiniteSet(V)
  BY <1>1, FS_Surjection
<1> QED
  BY <1>2 DEF V

\* A branch has finitely many transactions, with finitely many outputs.
LEMMA FiniteOutputs ==
  ASSUME NEW tip \in Hash
  PROVE  /\ IsFiniteSet(TxsIn(Branch[tip]))
         /\ \A T \in SUBSET Tx : IsFiniteSet(T) => IsFiniteSet(UNION {{t} \X Outs[t] : t \in T})
<1>1. ASSUME NEW h \in Hash
      PROVE  IsFiniteSet(TxsOf(h))
  <2>1. Txs[h] \in Seq(Tx) /\ Len(Txs[h]) \in Nat /\ DOMAIN Txs[h] = 1 .. Len(Txs[h])
    BY LedgerAssumption
  <2>2. IsFiniteSet(DOMAIN Txs[h])
    BY <2>1, FS_Interval
  <2> QED
    BY <2>2, FiniteValues DEF TxsOf, Range
<1>2. IsFiniteSet(TxsIn(Branch[tip]))
  <2> DEFINE B == Branch[tip]
             f == [h \in B |-> TxsOf(h)]
             V == {f[h] : h \in DOMAIN f}
  <2>1. IsFiniteSet(B) /\ B \subseteq Hash
    BY ListExists, BranchType
  <2>2. DOMAIN f = B /\ V = {TxsOf(h) : h \in B}
    OBVIOUS
  <2> HIDE DEF f
  <2>3. IsFiniteSet(V)
    BY <2>1, <2>2, FiniteValues
  <2>4. \A T \in V : IsFiniteSet(T)
    BY <1>1, <2>1, <2>2
  <2>5. TxsIn(B) = UNION V
    BY <2>2 DEF TxsIn
  <2> HIDE DEF V
  <2> QED
    BY <2>3, <2>4, <2>5, FS_UNION
<1>3. ASSUME NEW T \in SUBSET Tx, IsFiniteSet(T)
      PROVE  IsFiniteSet(UNION {{t} \X Outs[t] : t \in T})
  <2> DEFINE f == [t \in T |-> {t} \X Outs[t]]
             V == {f[t] : t \in DOMAIN f}
  <2>1. DOMAIN f = T /\ V = {{t} \X Outs[t] : t \in T}
    OBVIOUS
  <2>2. ASSUME NEW t \in T
        PROVE  IsFiniteSet({t} \X Outs[t])
    BY FS_Singleton, FS_Product, SpendingAssumption
  <2> HIDE DEF f
  <2>3. IsFiniteSet(V)
    BY <1>3, <2>1, FiniteValues
  <2>4. \A X \in V : IsFiniteSet(X)
    BY <2>1, <2>2
  <2>5. IsFiniteSet(UNION V)
    <3> HIDE DEF V
    <3> QED
      BY <2>3, <2>4, FS_UNION
  <2> QED
    BY <2>1, <2>5
<1> QED
  BY <1>2, <1>3

\* Between operations: the outputs of a key that are unspent on the main
\* chain, and those that transactions of the pool make, are different ones.
LEMMA OutputsOfKey ==
  ASSUME TidyInv, Fresh, npc = "idle", NEW k
  PROVE  /\ IsFiniteSet(UnspentOutputs(k)) /\ IsFiniteSet(OutputsOfPool(k))
         /\ UnspentOutputs(k) \cap OutputsOfPool(k) = {}
         /\ UnspentOutputs(k) \subseteq Output /\ OutputsOfPool(k) \subseteq Output
         /\ \A o \in Output : o[1] \in Tx /\ Value[o] \in Nat
<1> DEFINE main == TxsIn(Branch[topHash])
           Made(T) == UNION {{t} \X Outs[t] : t \in T}
<1>1. topHash \in Hash
  BY IdleStore DEF TidyInv
<1>2. main \subseteq Tx
  BY <1>1, BranchType, TxTypes DEF TxsIn
<1>3. pool \subseteq Tx /\ IsFiniteSet(pool) /\ pool \cap main = {}
  BY DEF TidyInv, PoolInv, GoodPools, UtxoTip, TxsOnBranch, TxsIn
<1>4. ASSUME NEW o \in Output
      PROVE  o[1] \in Tx /\ o[2] \in Outs[o[1]] /\ o = <<o[1], o[2]>> /\ Value[o] \in Nat
  BY SpendingAssumption DEF Output
<1>5. ASSUME NEW o \in UnspentOutputs(k)
      PROVE  o \in Output /\ o[1] \in main
  <2>1. o \in Output /\ \E r \in utxo[o[1]] : r.out = o[2]
    BY DEF UnspentOutputs
  <2>2. PICK r \in utxo[o[1]] : r.out = o[2]
    BY <2>1
  <2>3. r \in Placed(Branch[topHash], o[1])
    BY <1>4, <2>1 DEF TidyInv, UtxoInv, UtxoTip
  <2> QED
    BY <2>1, <2>3 DEF Placed, TxsIn
<1>6. ASSUME NEW o \in OutputsOfPool(k)
      PROVE  o \in Output /\ o[1] \in pool
  BY DEF OutputsOfPool
<1>7. ASSUME NEW T \in SUBSET Tx, NEW o \in Output, o[1] \in T
      PROVE  o \in Made(T)
  BY <1>4, <1>7
<1>8. IsFiniteSet(Made(main)) /\ IsFiniteSet(Made(pool))
  BY <1>1, <1>2, <1>3, FiniteOutputs
<1> HIDE DEF Made, main
<1>9. UnspentOutputs(k) \subseteq Made(main) /\ OutputsOfPool(k) \subseteq Made(pool)
  BY <1>2, <1>3, <1>5, <1>6, <1>7
<1>10. IsFiniteSet(UnspentOutputs(k)) /\ IsFiniteSet(OutputsOfPool(k))
  BY <1>8, <1>9, FS_Subset
<1>11. UnspentOutputs(k) \cap OutputsOfPool(k) = {}
  BY <1>3, <1>5, <1>6
<1> QED
  BY <1>4, <1>5, <1>6, <1>10, <1>11

(***************************************************************************)
(* The balance that a wallet is told: what can be spent of the main chain  *)
(* and of the pool.                                                        *)
(***************************************************************************)
LEMMA BalanceIsSpendable ==
  ASSUME TidyInv, Fresh, npc = "idle", NEW k, PendingBalanceIsKnown(k)
  PROVE  GetAddressBalance(k) + getAddressPendingBalance(k)
           = TotalOf(Spendable(k) \cup PendingOutputs(k))
<1> DEFINE U == UnspentOutputs(k)
           A == ApprovedInputs(k)
           S == Spendable(k)
           P == PendingOutputs(k)
<1>1. /\ IsFiniteSet(U) /\ IsFiniteSet(OutputsOfPool(k)) /\ U \cap OutputsOfPool(k) = {}
      /\ U \subseteq Output /\ OutputsOfPool(k) \subseteq Output
      /\ \A o \in Output : Value[o] \in Nat
  BY OutputsOfKey
<1>2. A \subseteq U /\ U \ A = S
  BY <1>1 DEF PendingBalanceIsKnown, ApprovedInputs, Spendable
<1>3. P \subseteq OutputsOfPool(k) /\ S \subseteq U
  BY DEF PendingOutputs, Spendable
<1>4. IsFiniteSet(S) /\ IsFiniteSet(P)
  BY <1>1, <1>3, FS_Subset
<1>5. S \cap P = {} /\ \A x \in S \cup P : Value[x] \in Nat
  BY <1>1, <1>3
<1>6. \A x \in U : Value[x] \in Nat
  BY <1>1
<1>7. GetAddressBalance(k) = TotalOf(U) /\ getAddressPendingBalance(k) = TotalOf(P) - TotalOf(A)
  BY DEF GetAddressBalance, getAddressPendingBalance
<1> HIDE DEF U, A, S, P
<1>8. /\ TotalOf(U) \in Nat /\ TotalOf(A) \in Nat /\ TotalOf(S) \in Nat
      /\ TotalOf(U) = TotalOf(A) + TotalOf(S)
  BY <1>1, <1>2, <1>6, TotalOfPart
<1>9. TotalOf(P) \in Nat /\ TotalOf(S \cup P) = TotalOf(S) + TotalOf(P)
  BY <1>4, <1>5, TotalOfUnion
<1>10. TotalOf(U) + (TotalOf(P) - TotalOf(A)) = TotalOf(S \cup P)
  BY <1>8, <1>9
<1> QED
  BY <1>7, <1>10 DEF S, P

\* The node finds the inputs that it prepared.
LEMMA PreparedAreFound ==
  ASSUME TidyInv, Fresh, npc = "idle", NEW k,
         NEW I \in SUBSET (Spendable(k) \cup PendingOutputs(k))
  PROVE  InputsAreFound(I) /\ I \cap Spends(pool) = {}
<1>1. ASSUME NEW i \in I
      PROVE  \/ i \in UnspentOutputs(k) \ PendingInputs(k)
             \/ i \in OutputsOfPool(k) \ PendingInputs(k)
  BY DEF Spendable, PendingOutputs
<1>2. ASSUME NEW i \in I
      PROVE  i \notin Spends(pool)
  <2>1. Owner[i] = k /\ i \notin PendingInputs(k)
    BY <1>1 DEF UnspentOutputs, OutputsOfPool
  <2> QED
    BY <2>1 DEF PendingInputs
<1>3. ASSUME NEW i \in I
      PROVE  LET found == {r \in utxo[i[1]] : r.out = i[2]}
             IN  IF found # {} THEN \A r \in found : r.block \in blocks /\ i[1] \in TxsOf(r.block)
                               ELSE ArePrepared(i)
  <2> DEFINE found == {r \in utxo[i[1]] : r.out = i[2]}
  <2>1. i[1] \in Tx
    BY <1>1, OutputsOfKey
  <2>2. found # {} \/ ArePrepared(i)
    BY <1>1 DEF UnspentOutputs, OutputsOfPool, ArePrepared
  <2>3. topHash \in blocks /\ Branch[topHash] \subseteq blocks
    BY IdleStore DEF TidyInv
  <2>4. ASSUME NEW r \in utxo[i[1]]
        PROVE  r.block \in blocks /\ i[1] \in TxsOf(r.block)
    <3>1. r \in Placed(Branch[topHash], i[1])
      BY <2>1 DEF TidyInv, UtxoInv, UtxoTip
    <3> QED
      BY <2>3, <3>1 DEF Placed
  <2> QED
    BY <2>2, <2>4
<1>4. InputsAreFound(I)
  BY <1>3 DEF InputsAreFound
<1> QED
  BY <1>2, <1>4

(***************************************************************************)
(* What the node prepares for a wallet it also accepts, and the amounts    *)
(* that it can prepare are those up to the balance that it tells: for      *)
(* every key and amount, every set of transactions with outputs of any     *)
(* values, between operations, after reorganisations and cancelled         *)
(* transactions too, unless a block was dropped and reindexcache not run   *)
(* since.                                                                  *)
(***************************************************************************)
THEOREM FundsSpendable == NodeSpec => []FundsAreSpendable
<1> DEFINE Accepted(k, amount) ==
             \A I \in PrepareNewTransaction(k, amount) : InputsAreFound(I) /\ I \cap Spends(pool) = {}
           Exact(k, amount) ==
             PendingBalanceIsKnown(k) =>
               (PrepareNewTransaction(k, amount) # {}
                  <=> amount <= GetAddressBalance(k) + getAddressPendingBalance(k))
<1>1. ASSUME TidyInv, Fresh, npc = "idle", NEW k \in Key, NEW amount \in Nat \ {0}
      PROVE  Accepted(k, amount) /\ Exact(k, amount)
  <2> DEFINE S == Spendable(k)
             P == PendingOutputs(k)
  <2>1. S \subseteq UnspentOutputs(k) /\ P \subseteq OutputsOfPool(k)
    BY DEF Spendable, PendingOutputs
  <2>2. /\ IsFiniteSet(UnspentOutputs(k)) /\ IsFiniteSet(OutputsOfPool(k))
        /\ UnspentOutputs(k) \cap OutputsOfPool(k) = {}
        /\ UnspentOutputs(k) \subseteq Output /\ OutputsOfPool(k) \subseteq Output
        /\ \A o \in Output : Value[o] \in Nat
    BY <1>1, OutputsOfKey
  <2>3. IsFiniteSet(S) /\ IsFiniteSet(P)
    BY <2>1, <2>2, FS_Subset
  <2>4. S \cap P = {} /\ \A x \in S \cup P : Value[x] \in Nat
    BY <2>1, <2>2
  <2>5. /\ \A I \in PrepareNewTransaction(k, amount) : I \subseteq S \cup P
        /\ PrepareNewTransaction(k, amount) # {} <=> amount <= TotalOf(S \cup P)
    BY <2>3, <2>4, PreparedInputs
  <2>6. Accepted(k, amount)
    BY <1>1, <2>5, PreparedAreFound
  <2>7. Exact(k, amount)
    BY <1>1, <2>5, BalanceIsSpendable
  <2> QED
    BY <2>6, <2>7
<1>2. FundsAreSpendable <=>
        (NodeIdle /\ Fresh => \A k \in Key, amount \in 1 .. MaxAmount : Accepted(k, amount) /\ Exact(k, amount))
  BY Zenon DEF FundsAreSpendable
<1> HIDE DEF Accepted, Exact
<1>3. \A amount \in 1 .. MaxAmount : amount \in Nat \ {0}
  BY SpendingAssumption
<1>4. LedgerInvariant => FundsAreSpendable
  BY <1>1, <1>2, <1>3, Zenon DEF NodeIdle, LedgerInvariant, Fresh
<1> QED
  BY LedgerInvariance, <1>4, PTL
=============================================================================
