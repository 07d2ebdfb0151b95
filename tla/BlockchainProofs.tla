-------------------------- MODULE BlockchainProofs --------------------------
(***************************************************************************)
(* Proofs about the block store and its queries, for every tree of blocks: *)
(* the inductive invariant IInv, and what follows from it.                 *)
(***************************************************************************)
EXTENDS BlockQueries, BlockchainInv, ChainIndexProofs, SequenceTheorems, FiniteSetTheorems

USE DEF Error, AddedToTop, AddedToParallelTop, AddedToParallel, NotAddedNoPrev, NotAddedExists

\* Walking one block further down extends the path.
LEMMA PathDownAppend ==
  ASSUME NEW s \in Seq(Hash), NEW from \in Hash, NEW to \in Hash,
         PathDown(s, from, to)
  PROVE  PathDown(Append(s, to), from, Prev[to])
<1> DEFINE r == Append(s, to)
<1>1. /\ r \in Seq(Hash)
      /\ Len(r) = Len(s) + 1
      /\ Len(s) \in Nat
      /\ \A i \in 1 .. Len(s) : r[i] = s[i]
      /\ r[Len(s) + 1] = to
      /\ r # <<>>
  BY AppendProperties
<1>2. CASE s = <<>>
  BY <1>1, <1>2 DEF PathDown
<1>3. CASE s # <<>>
  <2>1. Len(s) > 0
    BY <1>3, EmptySeq
  <2>2. \A i \in 1 .. Len(s) : Prev[r[i]] = r[i + 1]
    BY <1>1, <1>3, <2>1 DEF PathDown
  <2>3. r[1] = from
    BY <1>1, <1>3, <2>1 DEF PathDown
  <2> QED
    BY <1>1, <2>2, <2>3 DEF PathDown
<1> QED
  BY <1>2, <1>3

\* The way down, reversed, is the way up.
LEMMA PathReverse ==
  ASSUME NEW s \in Seq(Hash), NEW from \in Hash, NEW to \in Hash,
         PathDown(s, from, to)
  PROVE  Reverse(s) \in Seq(Hash) /\ PathUp(Reverse(s), to, from)
<1> DEFINE n == Len(s)
           r == Reverse(s)
<1>1. n \in Nat /\ s \in [1 .. n -> Hash]
  OBVIOUS
<1>2. r = [i \in 1 .. n |-> s[(n - i) + 1]]
  BY DEF Reverse
<1>3. r \in [1 .. n -> Hash]
  BY <1>1, <1>2
<1>4. r \in Seq(Hash) /\ Len(r) = n
  BY <1>1, <1>3
<1>5. CASE s = <<>>
  <2>1. r = <<>>
    BY <1>4, <1>5, EmptySeq
  <2> QED
    BY <1>4, <1>5, <2>1 DEF PathDown, PathUp
<1>6. CASE s # <<>>
  <2>1. n > 0 /\ r # <<>>
    BY <1>1, <1>4, <1>6, EmptySeq
  <2>2. r[1] = s[n] /\ r[n] = s[1]
    BY <1>1, <1>2, <2>1
  <2>3. ASSUME NEW i \in 1 .. n - 1
        PROVE  Prev[r[i + 1]] = r[i]
    <3>1. r[i + 1] = s[n - i] /\ r[i] = s[(n - i) + 1]
      BY <1>1, <1>2
    <3> QED
      BY <1>1, <1>6, <3>1 DEF PathDown
  <2> QED
    BY <1>4, <1>6, <2>1, <2>2, <2>3 DEF PathDown, PathUp
<1> QED
  BY <1>5, <1>6

\* The first block of a way up is a child of where the way starts.
LEMMA PathUpTail ==
  ASSUME NEW s \in Seq(Hash), s # <<>>, NEW from \in Hash, NEW to \in Hash,
         PathUp(s, from, to)
  PROVE  /\ Head(s) \in Hash
         /\ Head(s) # Genesis
         /\ Prev[Head(s)] = from
         /\ Tail(s) \in Seq(Hash)
         /\ PathUp(Tail(s), Head(s), to)
<1> DEFINE r == Tail(s)
<1>1. /\ Head(s) = s[1]
      /\ Head(s) \in Hash
      /\ r \in Seq(Hash)
      /\ Len(s) \in Nat
      /\ Len(s) > 0
      /\ Len(r) = Len(s) - 1
      /\ \A i \in 1 .. Len(r) : r[i] = s[i + 1]
  BY HeadTailProperties, EmptySeq
<1> HIDE DEF r
<1>2. Prev[Head(s)] = from /\ Head(s) # Genesis
  BY <1>1, TreeAssumption DEF PathUp
<1>3. CASE r = <<>>
  <2>1. Len(r) = 0
    BY <1>3
  <2>2. Len(s) = 1
    BY <1>1, <2>1
  <2> QED
    BY <1>1, <1>2, <1>3, <2>2 DEF PathUp, r
<1>4. CASE r # <<>>
  <2>1. Len(r) > 0
    BY <1>1, <1>4, EmptySeq
  <2>2. r[1] = s[2] /\ r[Len(r)] = s[Len(s)]
    BY <1>1, <2>1
  <2>3. Prev[r[1]] = Head(s) /\ r[Len(r)] = to
    BY <1>1, <2>1, <2>2 DEF PathUp
  <2>4. ASSUME NEW i \in 1 .. Len(r) - 1
        PROVE  Prev[r[i + 1]] = r[i]
    <3>1. i \in 1 .. Len(r) /\ i + 1 \in 1 .. Len(r) /\ i + 1 \in 1 .. Len(s) - 1
      BY <1>1
    <3>2. r[i] = s[i + 1] /\ r[i + 1] = s[(i + 1) + 1]
      BY <1>1, <3>1
    <3>3. \A j \in 1 .. Len(s) - 1 : Prev[s[j + 1]] = s[j]
      BY <1>1 DEF PathUp
    <3> QED
      BY <3>1, <3>2, <3>3
  <2> QED
    BY <1>1, <1>2, <1>4, <2>3, <2>4 DEF PathUp, r
<1> QED
  BY <1>3, <1>4

-----------------------------------------------------------------------------
\* Before anything is created the invariant holds.
LEMMA InitIInv == Init => IInv
<1> SUFFICES ASSUME Init
             PROVE  IInv
  OBVIOUS
<1>1. DOMAIN chain = {} /\ chain \in [DOMAIN chain -> Location]
  BY DEF Init, EmptyBucket
<1>2. newBlocks \in Seq(Hash)
  BY DEF Init
<1>3. inited \in BOOLEAN /\ running \in BOOLEAN
  BY Zenon DEF Init
<1>4. addState \in Error .. NotAddedExists
  BY DEF Init
<1>5. TypeOK
  BY <1>1, <1>2, <1>3, <1>4 DEF Init, TypeOK, PCs
<1> QED
  BY <1>1, <1>5
     DEF Init, IInv, CreateInv, TreeInv, IdleInv, PutInv, ToChainInv, WalkInv,
         RemoveInv, AddInv, NoDropNoPanic, Creating

\* The steps of addFirstBlock preserve the invariant.
LEMMA CreateIInv == IInv /\ Create => IInv'
<1> SUFFICES ASSUME IInv, Create
             PROVE  IInv'
  OBVIOUS
<1> USE DEF IInv
<1>0. NoHash \notin Hash /\ Genesis \in Hash
  BY TreeAssumption
<1>1. CASE InitDatabase
  BY <1>1, <1>0 DEF InitDatabase, reorg, TypeOK, CreateInv, TreeInv, IdleInv, PutInv,
     ToChainInv, WalkInv, RemoveInv, AddInv, NoDropNoPanic, Creating, PCs
<1>2. CASE PutGenesis
  BY <1>2, <1>0 DEF PutGenesis, reorg, TypeOK, CreateInv, TreeInv, IdleInv, PutInv,
     ToChainInv, WalkInv, RemoveInv, AddInv, NoDropNoPanic, Creating, PCs
<1>3. CASE SaveGenesisTop
  BY <1>3, <1>0 DEF SaveGenesisTop, reorg, TypeOK, CreateInv, TreeInv, IdleInv, PutInv,
     ToChainInv, WalkInv, RemoveInv, AddInv, NoDropNoPanic, Creating, PCs
<1>4. CASE SaveFirstHash
  BY <1>4, <1>0 DEF SaveFirstHash, reorg, TypeOK, CreateInv, TreeInv, IdleInv, PutInv,
     ToChainInv, WalkInv, RemoveInv, AddInv, NoDropNoPanic, Creating, PCs
<1>5. CASE AddGenesisToChain
  <2>1. DOMAIN chain = {} /\ blocks = {Genesis} /\ topHash = Genesis
    BY <1>5 DEF AddGenesisToChain, CreateInv, Creating
  <2>2. chain' = [h \in {Genesis} |-> [prev |-> NoHash, next |-> NoHash]]
    BY <1>0, <1>5, <2>1 DEF AddGenesisToChain, AddToChain, CanAddToChain, Put
  <2>3. IndexOf(chain', Genesis)
    BY <1>0, <2>2, BranchGenesis, TreeAssumption DEF IndexOf
  <2>4. DOMAIN chain' \subseteq Hash /\ chain' \in [DOMAIN chain' -> Location]
    BY <1>0, <2>2 DEF Location
  <2>5. newBlocks' \in Seq(Hash)
    BY <1>5 DEF AddGenesisToChain, Return
  <2>6. TypeOK'
    BY <1>0, <1>5, <2>4, <2>5 DEF AddGenesisToChain, Return, TypeOK, PCs
  <2>7. TreeInv'
    BY <1>0, <1>5, <2>1, BranchGenesis, HeightAssumption
       DEF AddGenesisToChain, Return, TreeInv, Compared, Closed
  <2> QED
    BY <1>5, <2>1, <2>3, <2>6, <2>7
       DEF AddGenesisToChain, Return, CreateInv, IdleInv, PutInv, ToChainInv, WalkInv,
           RemoveInv, AddInv, NoDropNoPanic, Creating
<1>6. CASE StartNode
  BY <1>6, <1>0 DEF StartNode, database, reorg, TypeOK, CreateInv, TreeInv, IdleInv, PutInv,
     ToChainInv, WalkInv, RemoveInv, AddInv, NoDropNoPanic, Creating, PCs, Compared
<1> QED
  BY <1>1, <1>2, <1>3, <1>4, <1>5, <1>6 DEF Create

\* The steps of AddBlock up to the change of the top hash preserve the invariant.
LEMMA AddBlockIInv ==
  ASSUME IInv,
         \/ \E b \in Hash : AddBlockExists(b) \/ AddBlockNoPrev(b) \/ AddBlockPut(b)
         \/ AddBlockNoTop \/ AddBlockParallel \/ AddBlockSaveTop \/ AddBlockToChain
  PROVE  IInv'
<1> USE DEF IInv
<1>0. NoHash \notin Hash /\ Genesis \in Hash
  BY TreeAssumption
<1>1. ASSUME NEW b \in Hash, AddBlockExists(b) \/ AddBlockNoPrev(b)
      PROVE  IInv'
  BY <1>0, <1>1 DEF AddBlockExists, AddBlockNoPrev, database, reorg, TypeOK, CreateInv,
     TreeInv, IdleInv, PutInv, ToChainInv, WalkInv, RemoveInv, AddInv, NoDropNoPanic,
     Creating, PCs, Compared
<1>2. ASSUME NEW b \in Hash, AddBlockPut(b)
      PROVE  IInv'
  <2>1. /\ inited /\ pc = "idle" /\ ~ Creating
        /\ b # Genesis
        /\ b \notin blocks /\ Prev[b] \in blocks
    BY <1>0, <1>2, TreeAssumption DEF AddBlockPut, CreateInv, TypeOK, Creating
  <2>2. TypeOK'
    BY <1>2 DEF AddBlockPut, reorg, TypeOK, PCs
  <2>3. Closed(blocks')
    BY <1>2, <2>1 DEF AddBlockPut, TreeInv, Closed
  <2>4. \A x \in blocks' : Genesis \in Branch[x]
    BY <1>2, <2>1, BranchStep DEF AddBlockPut, TreeInv
  <2>5. Compared' = blocks
    BY <1>2, <2>1 DEF AddBlockPut, Compared
  <2>6. TreeInv'
    BY <1>2, <2>1, <2>3, <2>4, <2>5 DEF AddBlockPut, TreeInv, Compared
  <2> QED
    BY <1>2, <2>1, <2>2, <2>6
       DEF AddBlockPut, reorg, CreateInv, IdleInv, PutInv, ToChainInv, WalkInv, RemoveInv,
           AddInv, NoDropNoPanic, Creating
<1>3. CASE AddBlockNoTop
  <2>1. inited /\ ~ Creating /\ pc = "put"
    BY <1>3 DEF AddBlockNoTop, CreateInv, Creating
  <2>2. topHash \in blocks
    BY <2>1 DEF TreeInv, Compared
  <2> QED
    BY <1>3, <2>2 DEF AddBlockNoTop
<1>4. CASE AddBlockParallel
  <2>1. inited /\ ~ Creating /\ pc = "put" /\ pc' = "idle" /\ block \in blocks
    BY <1>4 DEF AddBlockParallel, Return, CreateInv, Creating, PutInv
  <2>2. newBlocks' \in Seq(Hash)
    BY <1>4 DEF AddBlockParallel, Return
  <2>3. TypeOK'
    BY <1>4, <2>2 DEF AddBlockParallel, Return, database, TypeOK, PCs
  <2>4. TreeInv'
    BY <1>4, <2>1 DEF AddBlockParallel, database, TreeInv, Compared, Creating
  <2> QED
    BY <1>4, <2>1, <2>3, <2>4
       DEF AddBlockParallel, Return, database, CreateInv, IdleInv, PutInv, ToChainInv, WalkInv,
           RemoveInv, AddInv, NoDropNoPanic, Creating
<1>5. CASE AddBlockSaveTop
  <2>1. inited /\ ~ Creating /\ pc = "put" /\ block \in blocks /\ block # Genesis /\ block \in Hash
    BY <1>5 DEF AddBlockSaveTop, CreateInv, Creating, PutInv, TypeOK
  <2>2. topHash \in blocks /\ topHash \in Hash /\ lastHash' = topHash /\ topHash' = block
    BY <1>5 DEF AddBlockSaveTop, TypeOK
  <2>3. TypeOK'
    BY <1>5, <2>1, <2>2 DEF AddBlockSaveTop, TypeOK, PCs
  <2>4. TreeInv'
    <3>1. \A b \in blocks : Height[b] <= Height[block]
      <4>1. \A b \in blocks : Height[b] \in Nat
        BY HeightAssumption DEF TypeOK
      <4> QED
        BY <1>5, <2>1, <2>2, <4>1 DEF AddBlockSaveTop, TreeInv, Compared
    <3> QED
      BY <1>5, <2>1, <2>2, <3>1 DEF AddBlockSaveTop, TreeInv, Compared, Creating
  <2>5. IndexOf(chain, topHash) /\ chain' = chain
    BY <1>5, <2>1 DEF AddBlockSaveTop, IdleInv
  <2>6. CASE topHash = Prev[block]
    BY <1>5, <2>1, <2>2, <2>3, <2>4, <2>5, <2>6
       DEF AddBlockSaveTop, CreateInv, IdleInv, PutInv, ToChainInv, WalkInv,
           RemoveInv, AddInv, NoDropNoPanic, Creating
  <2>7. CASE topHash # Prev[block]
    <3>1. pc' = "walk" /\ cur' = block
      BY <1>5, <2>7 DEF AddBlockSaveTop
    <3>2. newBlocks = <<>>
      BY <2>1 DEF PutInv
    <3>3. topHash \notin Branch[block]
      <4>1. Branch[block] = {block} \cup Branch[Prev[block]] /\ Prev[block] \in Hash
        BY <2>1, BranchStep, TreeAssumption
      <4>2. Height[Prev[block]] <= Height[topHash] /\ topHash # block
        <5>1. Prev[block] \in blocks /\ Prev[block] # block
          BY <2>1, NotBelowItself DEF TreeInv, Closed
        <5> QED
          BY <2>1, <5>1 DEF TreeInv, Compared
      <4>3. Height[Prev[block]] \in Nat /\ Height[topHash] \in Nat
        BY <2>2, <4>1, HeightAssumption
      <4> QED
        BY <2>7, <4>1, <4>2, <4>3, BranchLower
    <3>4. WalkInv'
      BY <1>5, <2>1, <2>2, <2>5, <3>1, <3>2, <3>3 DEF AddBlockSaveTop, WalkInv, PathDown
    <3> QED
      BY <1>5, <2>1, <2>2, <2>3, <2>4, <3>1, <3>4
         DEF AddBlockSaveTop, CreateInv, IdleInv, PutInv, ToChainInv,
             RemoveInv, AddInv, NoDropNoPanic, Creating
  <2> QED
    BY <2>6, <2>7
<1>6. CASE AddBlockToChain
  <2>1. /\ inited /\ ~ Creating /\ pc = "toChain" /\ pc' = "idle"
        /\ block \in Hash /\ block # Genesis /\ topHash = block /\ topHash' = topHash
    BY <1>0, <1>6 DEF AddBlockToChain, Return, CreateInv, Creating, ToChainInv, TypeOK, TreeInv, Compared
  <2>2. Prev[block] \in Hash
    BY <2>1, TreeAssumption
  <2>3. IndexOf(chain', block)
    BY <1>6, <2>1, <2>2, AddToChainExtends DEF AddBlockToChain, ToChainInv
  <2>4. DOMAIN chain' \subseteq Hash /\ chain' \in [DOMAIN chain' -> Location]
    BY <1>6, <2>1, <2>2, AddToChainType DEF AddBlockToChain, TypeOK
  <2>5. newBlocks' \in Seq(Hash)
    BY <1>6 DEF AddBlockToChain, Return
  <2>6. TypeOK'
    BY <1>6, <2>4, <2>5 DEF AddBlockToChain, Return, TypeOK, PCs
  <2>7. TreeInv'
    BY <1>6, <2>1 DEF AddBlockToChain, TreeInv, Compared, Creating
  <2> QED
    BY <1>6, <2>1, <2>3, <2>6, <2>7
       DEF AddBlockToChain, Return, CreateInv, IdleInv, PutInv, ToChainInv, WalkInv,
           RemoveInv, AddInv, NoDropNoPanic, Creating
<1> QED
  BY <1>1, <1>2, <1>3, <1>4, <1>5, <1>6

\* The steps of UpdateChainOnNewBranch preserve the invariant.
LEMMA ReorgIInv == IInv /\ UpdateChainOnNewBranch => IInv'
<1> SUFFICES ASSUME IInv, UpdateChainOnNewBranch
             PROVE  IInv'
  OBVIOUS
<1> USE DEF IInv
<1>0. /\ NoHash \notin Hash /\ Genesis \in Hash
      /\ blocks \subseteq Hash
      /\ newBlocks \in Seq(Hash)
  BY TreeAssumption DEF TypeOK
<1>1. /\ inited /\ ~ Creating
      /\ pc \in {"walk", "remove", "add"}
      /\ topHash = block /\ block \in blocks /\ block \in Hash
      /\ Closed(blocks)
  BY <1>0 DEF UpdateChainOnNewBranch, WalkMissing, WalkNewBlock, WalkFound, RemoveOld,
     RemoveError, RemoveDone, AddNew, AddDone, CreateInv, Creating, WalkInv, RemoveInv, AddInv,
     TreeInv, Compared
<1>2. CASE WalkMissing
  BY <1>2 DEF WalkMissing, WalkInv
<1>3. CASE WalkNewBlock
  <2>1. /\ pc = "walk" /\ cur \in blocks /\ cur \in Hash /\ cur \notin DOMAIN chain
        /\ lastHash \in blocks /\ IndexOf(chain, lastHash)
    BY <1>0, <1>3 DEF WalkNewBlock, BlockInChain, WalkInv
  <2>2. cur # Genesis
    BY <1>1, <2>1 DEF TreeInv, IndexOf
  <2>3. Prev[cur] \in blocks /\ Prev[cur] # NoHash
    BY <1>0, <1>1, <2>1, <2>2 DEF Closed
  <2>4. /\ PathDown(newBlocks', block, cur')
        /\ newBlocks' \in Seq(Hash)
    BY <1>0, <1>1, <1>3, <2>1, PathDownAppend DEF WalkNewBlock, WalkInv
  <2>5. pc' = "walk" /\ remHash' = remHash /\ cur' \in blocks /\ cur' \in Hash
    BY <1>0, <1>3, <2>1, <2>3 DEF WalkNewBlock
  <2>6. TypeOK'
    BY <1>3, <2>4, <2>5 DEF WalkNewBlock, database, TypeOK, PCs
  <2>7. WalkInv'
    BY <1>3, <2>1, <2>4, <2>5 DEF WalkNewBlock, database, WalkInv
  <2> QED
    BY <1>1, <1>3, <2>1, <2>5, <2>6, <2>7
       DEF WalkNewBlock, database, CreateInv, TreeInv, IdleInv, PutInv, ToChainInv,
           RemoveInv, AddInv, NoDropNoPanic, Creating, Compared
<1>4. CASE WalkFound
  <2>1. /\ pc = "walk" /\ pc' = "remove" /\ cur \in DOMAIN chain /\ cur \in Hash
        /\ lastHash \in Hash /\ IndexOf(chain, lastHash)
    BY <1>0, <1>4 DEF WalkFound, BlockInChain, WalkInv
  <2>2. cur \in Branch[lastHash]
    BY <2>1 DEF IndexOf
  <2>3. TypeOK'
    BY <1>4, <2>1 DEF WalkFound, database, TypeOK, PCs
  <2>4. RemoveInv'
    BY <1>4, <2>1, <2>2 DEF WalkFound, database, WalkInv, RemoveInv
  <2> QED
    BY <1>1, <1>4, <2>1, <2>3, <2>4
       DEF WalkFound, database, CreateInv, TreeInv, IdleInv, PutInv, ToChainInv,
           WalkInv, AddInv, NoDropNoPanic, Creating, Compared
<1>5. ASSUME pc = "remove", remHash # mergePoint
      PROVE  /\ remHash \in Hash /\ remHash # Genesis /\ Prev[remHash] \in Hash
             /\ CanRemoveFromChain(chain, remHash)
             /\ GetLocationInChain(chain, remHash).prev = Prev[remHash]
             /\ IndexOf(RemoveFromChain(chain, remHash), Prev[remHash])
             /\ mergePoint \in Branch[Prev[remHash]]
  <2>1. remHash \in Hash /\ IndexOf(chain, remHash) /\ mergePoint \in Branch[remHash]
    BY <1>5 DEF RemoveInv
  <2>2. remHash # Genesis
    BY <1>5, <2>1, BranchGenesis
  <2>3. Prev[remHash] \in Hash /\ mergePoint \in Branch[Prev[remHash]]
    BY <1>5, <2>1, <2>2, BranchStep, TreeAssumption
  <2>4. remHash \in DOMAIN chain
    BY <2>1, BranchType DEF IndexOf
  <2> QED
    BY <2>1, <2>2, <2>3, <2>4, RemoveFromChainShortens DEF GetLocationInChain
<1>6. CASE RemoveOld
  <2>1. /\ pc = "remove" /\ pc' = "remove"
        /\ remHash' = Prev[remHash] /\ remHash' \in Hash
        /\ IndexOf(chain', remHash')
        /\ mergePoint \in Branch[remHash']
    BY <1>5, <1>6 DEF RemoveOld
  <2>2. DOMAIN chain' \subseteq Hash /\ chain' \in [DOMAIN chain' -> Location]
    BY <1>6, RemoveFromChainType DEF RemoveOld, TypeOK
  <2>3. TypeOK'
    BY <1>6, <2>1, <2>2 DEF RemoveOld, TypeOK, PCs
  <2>4. RemoveInv'
    BY <1>6, <2>1 DEF RemoveOld, RemoveInv
  <2> QED
    BY <1>1, <1>6, <2>1, <2>3, <2>4
       DEF RemoveOld, CreateInv, TreeInv, IdleInv, PutInv, ToChainInv,
           WalkInv, AddInv, NoDropNoPanic, Creating, Compared
<1>7. CASE RemoveError
  BY <1>5, <1>7 DEF RemoveError
<1>8. CASE RemoveDone
  <2>1. /\ pc = "remove" /\ pc' = "add" /\ remHash = mergePoint
        /\ mergePoint \in Hash /\ IndexOf(chain, mergePoint)
    BY <1>8 DEF RemoveDone, RemoveInv
  <2>2. newBlocks' \in Seq(Hash) /\ PathUp(newBlocks', mergePoint, block)
    BY <1>0, <1>1, <1>8, <2>1, PathReverse DEF RemoveDone, RemoveInv
  <2>3. TypeOK'
    BY <1>8, <2>1, <2>2 DEF RemoveDone, database, TypeOK, PCs
  <2>4. AddInv'
    BY <1>1, <1>8, <2>1, <2>2 DEF RemoveDone, database, AddInv
  <2> QED
    BY <1>1, <1>8, <2>1, <2>3, <2>4
       DEF RemoveDone, database, CreateInv, TreeInv, IdleInv, PutInv, ToChainInv,
           WalkInv, RemoveInv, NoDropNoPanic, Creating, Compared
<1>9. ASSUME pc = "add", newBlocks # <<>>
      PROVE  /\ mergePoint \in Hash /\ Head(newBlocks) \in Hash
             /\ CanAddToChain(chain, Head(newBlocks), mergePoint)
             /\ IndexOf(AddToChain(chain, Head(newBlocks), mergePoint), Head(newBlocks))
             /\ Tail(newBlocks) \in Seq(Hash)
             /\ PathUp(Tail(newBlocks), Head(newBlocks), block)
  <2>1. mergePoint \in Hash /\ IndexOf(chain, mergePoint) /\ PathUp(newBlocks, mergePoint, block)
    BY <1>9 DEF AddInv
  <2>2. /\ Head(newBlocks) \in Hash /\ Head(newBlocks) # Genesis
        /\ Prev[Head(newBlocks)] = mergePoint
        /\ Tail(newBlocks) \in Seq(Hash)
        /\ PathUp(Tail(newBlocks), Head(newBlocks), block)
    BY <1>0, <1>1, <1>9, <2>1, PathUpTail
  <2> QED
    BY <2>1, <2>2, AddToChainExtends
<1>10. CASE AddNew
  <2>1. /\ pc = "add" /\ pc' = "add" /\ newBlocks # <<>>
        /\ mergePoint \in Hash /\ Head(newBlocks) \in Hash
        /\ mergePoint' = Head(newBlocks)
        /\ newBlocks' = Tail(newBlocks)
        /\ chain' = AddToChain(chain, Head(newBlocks), mergePoint)
    BY <1>9, <1>10 DEF AddNew
  <2>2. newBlocks' \in Seq(Hash) /\ PathUp(newBlocks', mergePoint', block) /\ IndexOf(chain', mergePoint')
    BY <1>9, <2>1
  <2>3. DOMAIN chain' \subseteq Hash /\ chain' \in [DOMAIN chain' -> Location]
    BY <2>1, AddToChainType DEF TypeOK
  <2>4. TypeOK'
    BY <1>10, <2>1, <2>2, <2>3 DEF AddNew, TypeOK, PCs
  <2>5. AddInv'
    BY <1>1, <1>10, <2>1, <2>2 DEF AddNew, AddInv
  <2> QED
    BY <1>1, <1>10, <2>1, <2>4, <2>5
       DEF AddNew, CreateInv, TreeInv, IdleInv, PutInv, ToChainInv,
           WalkInv, RemoveInv, NoDropNoPanic, Creating, Compared
<1>11. CASE AddDone
  <2>1. pc = "add" /\ pc' = "idle" /\ newBlocks = <<>>
    BY <1>9, <1>11 DEF AddDone, Return
  <2>2. IndexOf(chain, topHash)
    BY <1>1, <2>1 DEF AddInv, PathUp
  <2>3. newBlocks' \in Seq(Hash)
    BY <1>11 DEF AddDone, Return
  <2>4. TypeOK'
    BY <1>11, <2>1, <2>3 DEF AddDone, Return, database, TypeOK, PCs
  <2> QED
    BY <1>1, <1>11, <2>1, <2>2, <2>4
       DEF AddDone, Return, database, CreateInv, TreeInv, IdleInv, PutInv, ToChainInv,
           WalkInv, RemoveInv, AddInv, NoDropNoPanic, Creating, Compared
<1> QED
  BY <1>2, <1>3, <1>4, <1>6, <1>7, <1>8, <1>10, <1>11 DEF UpdateChainOnNewBranch

(***************************************************************************)
(* The invariant holds throughout every behaviour.                         *)
(***************************************************************************)
THEOREM Invariance == Spec => []IInv
<1>1. IInv /\ UNCHANGED vars => IInv'
  BY DEF vars, database, reorg, IInv, TypeOK, CreateInv, TreeInv, IdleInv, PutInv,
     ToChainInv, WalkInv, RemoveInv, AddInv, NoDropNoPanic, Creating, Compared
<1>2. IInv /\ [Next]_vars => IInv'
  BY <1>1, CreateIInv, AddBlockIInv, ReorgIInv DEF Next, AddBlock
<1> QED
  BY InitIInv, <1>2, PTL DEF Spec

(***************************************************************************)
(* The variables of the block store keep their types.                      *)
(***************************************************************************)
THEOREM TypeCorrect == Spec => []TypeOK
<1>1. IInv => TypeOK
  BY DEF IInv
<1> QED
  BY Invariance, <1>1, PTL

(***************************************************************************)
(* Whatever blocks come in whatever order, after each AddBlock the chain   *)
(* index holds the branch of the top block and nothing else.               *)
(***************************************************************************)
THEOREM IndexCorrect == Spec => []IndexIsMainChain
<1>1. IInv => IndexIsMainChain
  <2> SUFFICES ASSUME IInv, pc = "idle"
               PROVE  IF topHash = NoHash THEN DOMAIN chain = {} ELSE IndexOf(chain, topHash)
    BY DEF IndexIsMainChain
  <2>1. CASE inited
    <3>1. topHash \in blocks /\ topHash # NoHash
      BY <2>1, TreeAssumption DEF IInv, TreeInv, Compared, Creating, TypeOK
    <3> QED
      BY <2>1, <3>1 DEF IInv, IdleInv
  <2>2. CASE ~ inited
    BY <2>2 DEF IInv, CreateInv
  <2> QED
    BY <2>1, <2>2
<1> QED
  BY Invariance, <1>1, PTL

(***************************************************************************)
(* After each AddBlock no stored block is higher than the top block.       *)
(***************************************************************************)
THEOREM TopHighest == Spec => []TopIsHighest
<1>1. IInv => TopIsHighest
  BY DEF IInv, TopIsHighest, TreeInv, CreateInv, Compared, Creating
<1> QED
  BY Invariance, <1>1, PTL

(***************************************************************************)
(* A reorganisation of the index always runs to its end without an error.  *)
(***************************************************************************)
THEOREM ReorgSafe == Spec => []ReorgCompletes
<1>1. IInv => ReorgCompletes
  <2> SUFFICES ASSUME IInv
               PROVE  ReorgCompletes
    OBVIOUS
  <2>1. pc # "panic"
    BY DEF IInv, NoDropNoPanic
  <2>2. ASSUME pc = "remove", remHash # mergePoint
        PROVE  CanRemoveFromChain(chain, remHash)
    <3>1. remHash \in Hash /\ IndexOf(chain, remHash) /\ mergePoint \in Branch[remHash]
      BY <2>2 DEF IInv, RemoveInv
    <3>2. remHash # Genesis
      BY <2>2, <3>1, BranchGenesis
    <3> QED
      BY <3>1, <3>2, RemoveFromChainShortens
  <2>3. ASSUME pc = "add", newBlocks = <<>>
        PROVE  mergePoint = topHash
    BY <2>3 DEF IInv, AddInv, PathUp
  <2>4. ASSUME pc = "add", newBlocks # <<>>
        PROVE  CanAddToChain(chain, Head(newBlocks), mergePoint)
    <3>1. /\ newBlocks \in Seq(Hash) /\ block \in Hash
          /\ mergePoint \in Hash /\ IndexOf(chain, mergePoint)
          /\ PathUp(newBlocks, mergePoint, block)
      BY <2>4 DEF IInv, TypeOK, CreateInv, TreeInv, AddInv, Compared, Creating
    <3>2. /\ Head(newBlocks) \in Hash /\ Head(newBlocks) # Genesis
          /\ Prev[Head(newBlocks)] = mergePoint
      BY <2>4, <3>1, PathUpTail
    <3> QED
      BY <3>1, <3>2, AddToChainExtends
  <2> QED
    BY <2>1, <2>2, <2>3, <2>4 DEF ReorgCompletes
<1> QED
  BY Invariance, <1>1, PTL

-----------------------------------------------------------------------------
(***************************************************************************)
(* The block store implements the fork choice rule.                        *)
(***************************************************************************)

\* The empty database maps to the initial state of the rule.
LEMMA InitRefines == Init => Abstract!Init
BY DEF Init, Abstract!Init, storedBar, tipBar, mainBar, Creating, EmptyBucket

\* Of the steps of creation the last one is the step Start of the rule.
LEMMA CreateRefines == IInv /\ Create => Abstract!Start \/ UNCHANGED <<storedBar, tipBar, mainBar>>
<1> SUFFICES ASSUME IInv, Create
             PROVE  Abstract!Start \/ UNCHANGED <<storedBar, tipBar, mainBar>>
  OBVIOUS
<1>1. CASE InitDatabase
  BY <1>1 DEF InitDatabase, IInv, CreateInv, storedBar, tipBar, mainBar, Creating
<1>2. CASE PutGenesis \/ SaveGenesisTop \/ SaveFirstHash
  BY <1>2 DEF PutGenesis, SaveGenesisTop, SaveFirstHash, storedBar, tipBar, mainBar, Creating
<1>3. CASE AddGenesisToChain
  <2>1. Creating /\ pc' = "idle" /\ blocks' = {Genesis} /\ topHash' = Genesis
    BY <1>3 DEF AddGenesisToChain, Return, IInv, CreateInv, Creating
  <2>2. DOMAIN chain' = {Genesis}
    BY <1>3, <2>1, TreeAssumption
       DEF IInv, CreateInv, AddGenesisToChain, AddToChain, CanAddToChain, Put
  <2> QED
    BY <2>1, <2>2 DEF Abstract!Start, storedBar, tipBar, mainBar, Creating
<1>4. CASE StartNode
  BY <1>4 DEF StartNode, database, reorg, storedBar, tipBar, mainBar, Creating
<1> QED
  BY <1>1, <1>2, <1>3, <1>4 DEF Create

\* Of the steps of AddBlock the one that compares heights is a step of the rule.
LEMMA AddBlockRefines ==
  IInv /\ IInv' /\ AddBlock =>
    (\E b \in Hash : Abstract!Keep(b) \/ Abstract!Adopt(b)) \/ UNCHANGED <<storedBar, tipBar, mainBar>>
<1> SUFFICES ASSUME IInv, IInv', AddBlock
             PROVE  \/ \E b \in Hash : Abstract!Keep(b) \/ Abstract!Adopt(b)
                    \/ UNCHANGED <<storedBar, tipBar, mainBar>>
  OBVIOUS
<1>0. TypeOK /\ TypeOK'
  BY DEF IInv
<1>1. ASSUME NEW b \in Hash, AddBlockExists(b) \/ AddBlockNoPrev(b)
      PROVE  UNCHANGED <<storedBar, tipBar, mainBar>>
  BY <1>1 DEF AddBlockExists, AddBlockNoPrev, database, reorg, storedBar, tipBar, mainBar, Creating
<1>2. ASSUME NEW b \in Hash, AddBlockPut(b)
      PROVE  UNCHANGED <<storedBar, tipBar, mainBar>>
  BY <1>2 DEF AddBlockPut, reorg, storedBar, tipBar, mainBar, Creating
<1>3. ASSUME pc = "put"
      PROVE  /\ inited /\ ~ Creating
             /\ block \in blocks /\ block \in Hash
             /\ Prev[block] \in blocks \ {block}
             /\ storedBar = blocks \ {block} /\ tipBar = topHash /\ mainBar = DOMAIN chain
             /\ topHash \in blocks
  <2>1. inited /\ ~ Creating /\ block \in blocks /\ block \in Hash /\ block # Genesis
    BY <1>0, <1>3 DEF IInv, CreateInv, Creating, PutInv, TypeOK
  <2>2. Closed(blocks) /\ topHash \in blocks
    BY <1>3, <2>1 DEF IInv, TreeInv, Compared
  <2>3. Prev[block] \in blocks /\ Prev[block] # block
    BY <2>1, <2>2, NotBelowItself DEF Closed
  <2> QED
    BY <1>3, <2>1, <2>2, <2>3 DEF storedBar, tipBar, mainBar
<1>4. CASE AddBlockNoTop
  BY <1>3, <1>4 DEF AddBlockNoTop
<1>5. CASE AddBlockParallel
  <2>1. storedBar' = blocks /\ tipBar' = topHash /\ mainBar' = DOMAIN chain
    BY <1>5 DEF AddBlockParallel, Return, database, storedBar, tipBar, mainBar, Creating
  <2>2. Abstract!Keep(block)
    BY <1>3, <1>5, <2>1 DEF AddBlockParallel, Abstract!Keep
  <2> QED
    BY <1>3, <1>5, <2>2 DEF AddBlockParallel
<1>6. CASE AddBlockSaveTop
  <2>1. pc' \in {"walk", "toChain"} /\ blocks' = blocks /\ topHash' = block
    BY <1>6 DEF AddBlockSaveTop
  <2>2. storedBar' = blocks /\ tipBar' = block /\ mainBar' = Branch[block]
    BY <2>1 DEF storedBar, tipBar, mainBar, Creating
  <2>3. pc = "put" /\ Height[block] > Height[topHash]
    BY <1>6 DEF AddBlockSaveTop
  <2>4. storedBar' = storedBar \cup {block} /\ tipBar = topHash
    BY <1>3, <2>2, <2>3
  <2>5. block \notin storedBar /\ Prev[block] \in storedBar /\ block \in Hash
    BY <1>3, <2>3
  <2>6. Abstract!Branch = Branch
    BY DEF Abstract!Branch, Branch, Abstract!ClosedSets, ClosedSets, Abstract!Closed, Closed
  <2>7. Abstract!Adopt(block)
    BY <2>2, <2>3, <2>4, <2>5, <2>6 DEF Abstract!Adopt
  <2> QED
    BY <2>5, <2>7
<1>7. ASSUME pc \in {"toChain", "walk", "remove", "add"}, pc' \in {"toChain", "walk", "remove", "add", "idle"},
             UNCHANGED <<inited, blocks, topHash>>
      PROVE  UNCHANGED <<storedBar, tipBar, mainBar>>
  <2>1. inited /\ topHash \in Hash
    BY <1>7 DEF IInv, CreateInv, TreeInv, Creating, Compared, TypeOK
  <2>2. pc' = "idle" => DOMAIN chain' = Branch[topHash]
    BY <1>7, <2>1 DEF IInv, IdleInv, IndexOf
  <2> QED
    BY <1>7, <2>2 DEF storedBar, tipBar, mainBar, Creating
<1>8. CASE AddBlockToChain
  BY <1>7, <1>8 DEF AddBlockToChain, Return
<1>9. CASE UpdateChainOnNewBranch
  <2>1. pc' # "panic"
    BY DEF IInv, NoDropNoPanic
  <2>2. /\ pc \in {"walk", "remove", "add"}
        /\ pc' \in {"walk", "remove", "add", "idle"}
        /\ UNCHANGED <<inited, blocks, topHash>>
    BY <1>9, <2>1 DEF UpdateChainOnNewBranch, WalkMissing, WalkNewBlock, WalkFound, RemoveOld,
       RemoveError, RemoveDone, AddNew, AddDone, Return, database
  <2> QED
    BY <1>7, <2>2
<1> QED
  BY <1>1, <1>2, <1>4, <1>5, <1>6, <1>8, <1>9 DEF AddBlock

(***************************************************************************)
(* AddBlock with all its database transactions, the reorganisation of the  *)
(* index included, implements one atomic step of the fork choice rule: the *)
(* highest branch wins, the first one among equals, and the index is the   *)
(* main chain.                                                             *)
(***************************************************************************)
THEOREM Refinement == Spec => AddBlockIsAtomic
<1>1. UNCHANGED vars => UNCHANGED <<storedBar, tipBar, mainBar>>
  BY DEF vars, database, reorg, storedBar, tipBar, mainBar, Creating
<1>2. IInv /\ IInv' /\ [Next]_vars => [Abstract!Next]_<<storedBar, tipBar, mainBar>>
  BY <1>1, CreateRefines, AddBlockRefines DEF Next, Abstract!Next
<1> QED
  BY Invariance, InitRefines, <1>2, PTL DEF Spec, AddBlockIsAtomic, Abstract!Spec, Abstract!choice

-----------------------------------------------------------------------------
(***************************************************************************)
(* Crashes.                                                                *)
(***************************************************************************)

\* Each step of a node that may die preserves StoredInv.
LEMMA StoredStep == StoredInv /\ [NextCrash]_vars => StoredInv'
<1> SUFFICES ASSUME StoredInv, [NextCrash]_vars
             PROVE  StoredInv'
  OBVIOUS
<1> USE TreeAssumption DEF StoredInv, Closed
<1>1. CASE Create
  <2>1. CASE InitDatabase
    BY <2>1 DEF InitDatabase
  <2>2. CASE PutGenesis
    BY <2>2 DEF PutGenesis
  <2>3. CASE SaveGenesisTop
    BY <2>3 DEF SaveGenesisTop
  <2>4. CASE SaveFirstHash
    BY <2>4 DEF SaveFirstHash
  <2>5. CASE AddGenesisToChain
    BY <2>5 DEF AddGenesisToChain, Return
  <2>6. CASE StartNode
    BY <2>6 DEF StartNode, database
  <2> QED
    BY <1>1, <2>1, <2>2, <2>3, <2>4, <2>5, <2>6 DEF Create
<1>2. CASE AddBlock
  <2>1. ASSUME NEW b \in Hash, AddBlockExists(b) \/ AddBlockNoPrev(b)
        PROVE  StoredInv'
    BY <2>1 DEF AddBlockExists, AddBlockNoPrev, database
  <2>2. ASSUME NEW b \in Hash, AddBlockPut(b)
        PROVE  StoredInv'
    BY <2>2 DEF AddBlockPut
  <2>3. CASE AddBlockNoTop \/ AddBlockParallel
    BY <2>3 DEF AddBlockNoTop, AddBlockParallel, Return, database
  <2>4. CASE AddBlockSaveTop
    BY <2>4 DEF AddBlockSaveTop
  <2>5. CASE AddBlockToChain
    BY <2>5 DEF AddBlockToChain, Return
  <2>6. CASE UpdateChainOnNewBranch
    <3>1. UNCHANGED <<blocks, topHash>> /\ pc' \notin {"put", "genesisTop"}
      BY <2>6 DEF UpdateChainOnNewBranch, WalkMissing, WalkNewBlock, WalkFound, RemoveOld,
         RemoveError, RemoveDone, AddNew, AddDone, Return, database
    <3> QED
      BY <3>1
  <2> QED
    BY <1>2, <2>1, <2>2, <2>3, <2>4, <2>5, <2>6 DEF AddBlock
<1>3. CASE Crash
  BY <1>3 DEF Crash, Return, database
<1>4. CASE UNCHANGED vars
  BY <1>4 DEF vars, database
<1> QED
  BY <1>1, <1>2, <1>3, <1>4 DEF NextCrash, Next

(***************************************************************************)
(* The process may die between any two database transactions, and the top  *)
(* hash still never names a block that is not stored together with all the *)
(* blocks below it: AddBlock and addFirstBlock write the block first.      *)
(***************************************************************************)
THEOREM TopStored == SpecCrash => []TopBranchIsStored
<1>1. Init => StoredInv
  BY DEF Init, StoredInv, Closed
<1>2. StoredInv => TopBranchIsStored
  BY BranchLeast DEF StoredInv, TopBranchIsStored
<1> QED
  BY <1>1, <1>2, StoredStep, PTL DEF SpecCrash

-----------------------------------------------------------------------------
(***************************************************************************)
(* Crashes and dropped blocks: the invariant AllInv of SpecAll.            *)
(***************************************************************************)

\* Before anything is created AllInv holds.
LEMMA InitAll == Init => AllInv
<1> SUFFICES ASSUME Init
             PROVE  AllInv
  OBVIOUS
<1>1. TypeOK
  BY InitIInv DEF IInv
<1>2. DOMAIN chain = {}
  BY DEF Init, EmptyBucket
<1> QED
  BY <1>1, <1>2 DEF Init, AllInv, CreateAllInv, BlockAllInv, WalkAllInv, RemoveAllInv,
     AddAllInv, IndexIsSomeBranch, Creating

(***************************************************************************)
(* A step that leaves the index alone, or leaves one whole branch in it,   *)
(* and ends the operation, preserves AllInv.                               *)
(***************************************************************************)
LEMMA ReturnAll ==
  ASSUME AllInv, inited, Return,
         UNCHANGED inited, blocks' \subseteq Hash,
         UNCHANGED <<topHash, firstHash>>,
         running' \in BOOLEAN, addState' \in Error .. NotAddedExists,
         DOMAIN chain' \subseteq Hash, chain' \in [DOMAIN chain' -> Location],
         HoldsBranch(chain')
  PROVE  AllInv'
<1>1. pc' = "idle" /\ newBlocks' = <<>> /\ mergePoint' = NoHash
  BY DEF Return
<1>2. newBlocks' \in Seq(Hash)
  BY <1>1
<1>3. TypeOK'
  BY <1>1, <1>2 DEF AllInv, TypeOK, Return, PCs
<1>4. inited'
  OBVIOUS
<1> QED
  BY <1>1, <1>3, <1>4 DEF AllInv, CreateAllInv, BlockAllInv, WalkAllInv, RemoveAllInv,
     AddAllInv, IndexIsSomeBranch, HoldsBranch, Creating

\* The steps of addFirstBlock preserve AllInv.
LEMMA CreateAll == AllInv /\ Create => AllInv'
<1> SUFFICES ASSUME AllInv, Create
             PROVE  AllInv'
  OBVIOUS
<1> USE DEF AllInv
<1>0. NoHash \notin Hash /\ Genesis \in Hash
  BY TreeAssumption
<1>1. CASE InitDatabase
  BY <1>1, <1>0 DEF InitDatabase, reorg, TypeOK, CreateAllInv, BlockAllInv, WalkAllInv,
     RemoveAllInv, AddAllInv, IndexIsSomeBranch, Creating, PCs
<1>2. CASE PutGenesis
  BY <1>2, <1>0 DEF PutGenesis, reorg, TypeOK, CreateAllInv, BlockAllInv, WalkAllInv,
     RemoveAllInv, AddAllInv, IndexIsSomeBranch, Creating, PCs
<1>3. CASE SaveGenesisTop
  BY <1>3, <1>0 DEF SaveGenesisTop, reorg, TypeOK, CreateAllInv, BlockAllInv, WalkAllInv,
     RemoveAllInv, AddAllInv, IndexIsSomeBranch, Creating, PCs
<1>4. CASE SaveFirstHash
  BY <1>4, <1>0 DEF SaveFirstHash, reorg, TypeOK, CreateAllInv, BlockAllInv, WalkAllInv,
     RemoveAllInv, AddAllInv, IndexIsSomeBranch, Creating, PCs
<1>5. CASE AddGenesisToChain
  <2>1. DOMAIN chain = {} /\ inited
    BY <1>5 DEF AddGenesisToChain, CreateAllInv, Creating
  <2>2. chain' = [h \in {Genesis} |-> [prev |-> NoHash, next |-> NoHash]]
    BY <1>0, <1>5, <2>1 DEF AddGenesisToChain, AddToChain, CanAddToChain, Put
  <2>3. IndexOf(chain', Genesis)
    BY <1>0, <2>2, BranchGenesis, TreeAssumption DEF IndexOf
  <2>4. DOMAIN chain' \subseteq Hash /\ chain' \in [DOMAIN chain' -> Location]
    BY <1>0, <2>2 DEF Location
  <2> QED
    BY <1>0, <1>5, <2>1, <2>3, <2>4, ReturnAll DEF AddGenesisToChain, HoldsBranch, TypeOK
<1>6. CASE StartNode
  BY <1>6, <1>0 DEF StartNode, database, reorg, TypeOK, CreateAllInv, BlockAllInv, WalkAllInv,
     RemoveAllInv, AddAllInv, IndexIsSomeBranch, Creating, PCs
<1> QED
  BY <1>1, <1>2, <1>3, <1>4, <1>5, <1>6 DEF Create

\* The steps of AddBlock up to the change of the top hash preserve AllInv.
LEMMA AddBlockAll ==
  ASSUME AllInv,
         \/ \E b \in Hash : AddBlockExists(b) \/ AddBlockNoPrev(b) \/ AddBlockPut(b)
         \/ AddBlockNoTop \/ AddBlockParallel \/ AddBlockSaveTop \/ AddBlockToChain
  PROVE  AllInv'
<1> USE DEF AllInv
<1>0. /\ NoHash \notin Hash /\ Genesis \in Hash
      /\ TypeOK
      /\ HoldsBranch(chain)
  BY TreeAssumption DEF IndexIsSomeBranch, HoldsBranch
<1>1. ASSUME NEW b \in Hash, AddBlockExists(b) \/ AddBlockNoPrev(b)
      PROVE  AllInv'
  BY <1>0, <1>1 DEF AddBlockExists, AddBlockNoPrev, database, reorg, TypeOK, CreateAllInv,
     BlockAllInv, WalkAllInv, RemoveAllInv, AddAllInv, IndexIsSomeBranch, Creating, PCs
<1>2. ASSUME NEW b \in Hash, AddBlockPut(b)
      PROVE  AllInv'
  <2>1. b # Genesis
    BY <1>0, <1>2, TreeAssumption DEF AddBlockPut, TypeOK
  <2> QED
    BY <1>0, <1>2, <2>1 DEF AddBlockPut, reorg, TypeOK, CreateAllInv, BlockAllInv, WalkAllInv,
       RemoveAllInv, AddAllInv, IndexIsSomeBranch, Creating, PCs
<1>3. CASE AddBlockNoTop \/ AddBlockParallel
  <2>1. inited /\ addState' \in Error .. NotAddedExists
    BY <1>3 DEF AddBlockNoTop, AddBlockParallel, CreateAllInv
  <2> QED
    BY <1>0, <1>3, <2>1, ReturnAll DEF AddBlockNoTop, AddBlockParallel, database, TypeOK
<1>4. CASE AddBlockSaveTop
  <2>1. inited /\ pc = "put" /\ block \in Hash \ {Genesis} /\ topHash \in Hash
        /\ newBlocks = <<>> /\ mergePoint = NoHash
    BY <1>0, <1>4 DEF AddBlockSaveTop, CreateAllInv, BlockAllInv, TypeOK
  <2>2. TypeOK'
    BY <1>0, <1>4, <2>1 DEF AddBlockSaveTop, TypeOK, PCs
  <2>3. pc' = "walk" => cur' = block
    BY <1>4 DEF AddBlockSaveTop
  <2>4. PathDown(newBlocks, block, block)
    BY <2>1 DEF PathDown
  <2>5. WalkAllInv'
    BY <1>4, <2>1, <2>3, <2>4 DEF AddBlockSaveTop, WalkAllInv, Shared
  <2> QED
    BY <1>4, <2>1, <2>2, <2>5 DEF AddBlockSaveTop, CreateAllInv, BlockAllInv,
       RemoveAllInv, AddAllInv, IndexIsSomeBranch, Creating
<1>5. CASE AddBlockToChain
  <2>1. inited /\ block \in Hash /\ block # Genesis /\ addState' \in Error .. NotAddedExists
    BY <1>5 DEF AddBlockToChain, CreateAllInv, BlockAllInv
  <2>2. Prev[block] \in Hash
    BY <2>1, TreeAssumption
  <2>3. HoldsBranch(chain')
    BY <1>0, <1>5, <2>1, AddToChainAnywhere DEF AddBlockToChain, HoldsBranch
  <2>4. DOMAIN chain' \subseteq Hash /\ chain' \in [DOMAIN chain' -> Location]
    BY <1>0, <1>5, <2>1, <2>2, AddToChainType DEF AddBlockToChain, TypeOK
  <2> QED
    BY <1>0, <1>5, <2>1, <2>3, <2>4, ReturnAll DEF AddBlockToChain, TypeOK
<1> QED
  BY <1>1, <1>2, <1>3, <1>4, <1>5

\* The steps of UpdateChainOnNewBranch preserve AllInv.
LEMMA ReorgAll == AllInv /\ UpdateChainOnNewBranch => AllInv'
<1> SUFFICES ASSUME AllInv, UpdateChainOnNewBranch
             PROVE  AllInv'
  OBVIOUS
<1> USE DEF AllInv
<1>0. /\ NoHash \notin Hash /\ Genesis \in Hash
      /\ TypeOK /\ blocks \subseteq Hash /\ newBlocks \in Seq(Hash)
      /\ HoldsBranch(chain)
  BY TreeAssumption DEF TypeOK, IndexIsSomeBranch, HoldsBranch
<1>1. /\ inited /\ ~ Creating
      /\ pc \in {"walk", "remove", "add"}
      /\ topHash = block /\ block \in Hash /\ block # Genesis
  BY DEF UpdateChainOnNewBranch, WalkMissing, WalkNewBlock, WalkFound, RemoveOld,
     RemoveError, RemoveDone, AddNew, AddDone, CreateAllInv, BlockAllInv, Creating
<1>2. CASE WalkMissing
  <2>1. TypeOK'
    BY <1>0, <1>2 DEF WalkMissing, database, reorg, TypeOK, PCs
  <2> QED
    BY <1>1, <1>2, <2>1 DEF WalkMissing, database, reorg, CreateAllInv, BlockAllInv,
       WalkAllInv, RemoveAllInv, AddAllInv, IndexIsSomeBranch, Creating
<1>3. CASE WalkNewBlock
  <2>1. /\ pc = "walk" /\ cur \in Hash /\ cur \notin DOMAIN chain /\ lastHash \in Hash
        /\ PathDown(newBlocks, block, cur)
        /\ Shared(block) \subseteq Branch[cur]
        /\ mergePoint = NoHash
    BY <1>3 DEF WalkNewBlock, BlockInChain, WalkAllInv, BlockAllInv
  <2>2. PathDown(newBlocks', block, cur') /\ newBlocks' \in Seq(Hash)
    BY <1>0, <1>1, <1>3, <2>1, PathDownAppend DEF WalkNewBlock
  <2>3. CASE cur = Genesis
    <3>1. pc' = "remove" /\ remHash' = lastHash /\ cur' = NoHash
      BY <1>3, <2>3, TreeAssumption DEF WalkNewBlock
    <3>2. DOMAIN chain = {}
      BY <1>0, <2>1, <2>3, GenesisOnBranch DEF HoldsBranch, IndexOf
    <3>3. TypeOK'
      BY <1>0, <1>3, <2>1, <2>2, <3>1 DEF WalkNewBlock, database, TypeOK, PCs
    <3>4. RemoveAllInv'
      BY <1>3, <2>1, <3>1, <3>2 DEF WalkNewBlock, database, RemoveAllInv
    <3> QED
      BY <1>1, <1>3, <2>1, <3>1, <3>3, <3>4 DEF WalkNewBlock, database, CreateAllInv,
         BlockAllInv, WalkAllInv, AddAllInv, IndexIsSomeBranch, Creating
  <2>4. CASE cur # Genesis
    <3>1. Prev[cur] \in Hash /\ Branch[cur] = {cur} \cup Branch[Prev[cur]]
      BY <2>1, <2>4, BranchStep, TreeAssumption
    <3>2. pc' = "walk" /\ remHash' = remHash /\ cur' = Prev[cur]
      BY <1>0, <1>3, <2>1, <3>1 DEF WalkNewBlock
    <3>3. Shared(block) \subseteq Branch[Prev[cur]]
      BY <2>1, <3>1 DEF Shared
    <3>4. TypeOK'
      BY <1>0, <1>3, <2>2, <3>1, <3>2 DEF WalkNewBlock, database, TypeOK, PCs
    <3>5. WalkAllInv'
      BY <1>3, <2>1, <2>2, <3>1, <3>2, <3>3 DEF WalkNewBlock, database, WalkAllInv, Shared
    <3> QED
      BY <1>1, <1>3, <2>1, <3>2, <3>4, <3>5 DEF WalkNewBlock, database, CreateAllInv,
         BlockAllInv, RemoveAllInv, AddAllInv, IndexIsSomeBranch, Creating
  <2> QED
    BY <2>3, <2>4
<1>4. CASE WalkFound
  <2>1. /\ pc = "walk" /\ pc' = "remove" /\ cur \in DOMAIN chain /\ cur \in Hash
        /\ lastHash \in Hash
        /\ PathDown(newBlocks, block, cur)
        /\ Shared(block) \subseteq Branch[cur]
    BY <1>4 DEF WalkFound, BlockInChain, WalkAllInv
  <2>2. TypeOK'
    BY <1>0, <1>4, <2>1 DEF WalkFound, database, TypeOK, PCs
  <2>3. RemoveAllInv'
    BY <1>4, <2>1 DEF WalkFound, database, RemoveAllInv, Shared
  <2> QED
    BY <1>1, <1>4, <2>1, <2>2, <2>3 DEF WalkFound, database, CreateAllInv, BlockAllInv,
       WalkAllInv, AddAllInv, IndexIsSomeBranch, Creating
<1>5. CASE RemoveOld
  <2>1. /\ pc = "remove" /\ pc' = "remove" /\ remHash # mergePoint
        /\ remHash \in Hash /\ remHash \in DOMAIN chain
        /\ chain' = RemoveFromChain(chain, remHash)
        /\ remHash' = chain[remHash].prev
    BY <1>0, <1>5 DEF RemoveOld, CanRemoveFromChain, GetLocationInChain, TypeOK
  <2>2. /\ mergePoint \in DOMAIN chain
        /\ PathDown(newBlocks, block, mergePoint)
        /\ Shared(block) \subseteq Branch[mergePoint]
    BY <2>1 DEF RemoveAllInv
  <2>3. /\ HoldsBranch(chain')
        /\ mergePoint \in DOMAIN chain'
        /\ DOMAIN chain' \subseteq DOMAIN chain
    BY <1>0, <2>1, <2>2, RemoveFromChainAnywhere
  <2>4. DOMAIN chain' \subseteq Hash /\ chain' \in [DOMAIN chain' -> Location]
    BY <1>0, <2>1, RemoveFromChainType DEF TypeOK
  <2>5. remHash' \in Hash \cup {NoHash}
    BY <1>0, <2>1 DEF TypeOK, Location
  <2>6. TypeOK'
    BY <1>0, <1>5, <2>1, <2>4, <2>5 DEF RemoveOld, TypeOK, PCs
  <2>7. RemoveAllInv'
    BY <1>5, <2>2, <2>3 DEF RemoveOld, RemoveAllInv, Shared
  <2> QED
    BY <1>1, <1>5, <2>1, <2>3, <2>6, <2>7 DEF RemoveOld, CreateAllInv, BlockAllInv,
       WalkAllInv, AddAllInv, IndexIsSomeBranch, HoldsBranch, Creating
<1>6. CASE RemoveError \/ AddDone
  <2>1. addState' \in Error .. NotAddedExists /\ Return /\ UNCHANGED database /\ UNCHANGED running
    BY <1>6 DEF RemoveError, AddDone
  <2> QED
    BY <1>0, <1>1, <2>1, ReturnAll DEF database, TypeOK
<1>7. CASE RemoveDone
  <2>1. pc = "remove" /\ pc' = "add" /\ remHash = mergePoint /\ newBlocks' = Reverse(newBlocks)
    BY <1>7 DEF RemoveDone
  <2>2. mergePoint \in Hash /\ PathDown(newBlocks, block, mergePoint)
    BY <1>0, <2>1 DEF RemoveAllInv, TypeOK
  <2>3. newBlocks' \in Seq(Hash) /\ PathUp(newBlocks', mergePoint, block)
    BY <1>0, <1>1, <2>1, <2>2, PathReverse
  <2>4. TypeOK'
    BY <1>0, <1>7, <2>1, <2>3 DEF RemoveDone, database, TypeOK, PCs
  <2>5. AddAllInv'
    BY <1>7, <2>2, <2>3 DEF RemoveDone, AddAllInv
  <2> QED
    BY <1>1, <1>7, <2>1, <2>4, <2>5 DEF RemoveDone, database, CreateAllInv, BlockAllInv,
       WalkAllInv, RemoveAllInv, IndexIsSomeBranch, Creating
<1>8. CASE AddNew
  <2>1. /\ pc = "add" /\ pc' = "add" /\ newBlocks # <<>>
        /\ mergePoint \in Hash /\ PathUp(newBlocks, mergePoint, block)
        /\ mergePoint' = Head(newBlocks)
        /\ newBlocks' = Tail(newBlocks)
        /\ chain' = AddToChain(chain, Head(newBlocks), mergePoint)
    BY <1>8 DEF AddNew, AddAllInv
  <2>2. /\ Head(newBlocks) \in Hash /\ Head(newBlocks) # Genesis
        /\ Prev[Head(newBlocks)] = mergePoint
        /\ newBlocks' \in Seq(Hash)
        /\ PathUp(newBlocks', mergePoint', block)
    BY <1>0, <1>1, <2>1, PathUpTail
  <2>3. HoldsBranch(chain')
    BY <1>0, <2>1, <2>2, AddToChainAnywhere DEF HoldsBranch
  <2>4. DOMAIN chain' \subseteq Hash /\ chain' \in [DOMAIN chain' -> Location]
    BY <1>0, <2>1, <2>2, AddToChainType DEF TypeOK
  <2>5. TypeOK'
    BY <1>0, <1>8, <2>1, <2>2, <2>4 DEF AddNew, TypeOK, PCs
  <2>6. AddAllInv'
    BY <1>8, <2>1, <2>2 DEF AddNew, AddAllInv
  <2> QED
    BY <1>1, <1>8, <2>1, <2>3, <2>5, <2>6 DEF AddNew, CreateAllInv, BlockAllInv,
       WalkAllInv, RemoveAllInv, IndexIsSomeBranch, HoldsBranch, Creating
<1> QED
  BY <1>2, <1>3, <1>4, <1>5, <1>6, <1>7, <1>8 DEF UpdateChainOnNewBranch

\* The steps of DeleteBlock, and a crash, preserve AllInv.
LEMMA DropAll == AllInv /\ (DeleteBlock \/ Crash) => AllInv'
<1> SUFFICES ASSUME AllInv, DeleteBlock \/ Crash
             PROVE  AllInv'
  OBVIOUS
<1> USE DEF AllInv
<1>0. /\ NoHash \notin Hash /\ TypeOK /\ HoldsBranch(chain)
  BY TreeAssumption DEF IndexIsSomeBranch, HoldsBranch
<1>1. CASE DropSaveTop
  <2>1. topHash \in Hash /\ Prev[topHash] \in Hash \cup {NoHash} /\ inited
    BY <1>0, <1>1, TreeAssumption DEF DropSaveTop, TypeOK, CreateAllInv
  <2>2. TypeOK'
    BY <1>0, <1>1, <2>1 DEF DropSaveTop, reorg, TypeOK, PCs
  <2> QED
    BY <1>1, <2>1, <2>2 DEF DropSaveTop, reorg, CreateAllInv, BlockAllInv, WalkAllInv,
       RemoveAllInv, AddAllInv, IndexIsSomeBranch, Creating
<1>2. CASE DropDeleteBlock
  <2>1. TypeOK'
    BY <1>0, <1>2 DEF DropDeleteBlock, reorg, TypeOK, PCs
  <2> QED
    BY <1>2, <2>1 DEF DropDeleteBlock, reorg, CreateAllInv, BlockAllInv, WalkAllInv,
       RemoveAllInv, AddAllInv, IndexIsSomeBranch, Creating
<1>3. CASE DropRemoveFromChain
  <2>1. inited /\ block \in Hash
    BY <1>3 DEF DropRemoveFromChain, CreateAllInv, BlockAllInv
  <2>2. HoldsBranch(chain')
    BY <1>0, <1>3, RemoveFromChainAnywhere DEF DropRemoveFromChain
  <2>3. DOMAIN chain' \subseteq Hash /\ chain' \in [DOMAIN chain' -> Location]
    BY <1>0, <1>3, <2>1, RemoveFromChainType DEF DropRemoveFromChain, TypeOK
  <2> QED
    BY <1>0, <1>3, <2>1, <2>2, <2>3, ReturnAll DEF DropRemoveFromChain, TypeOK
<1>4. CASE Crash
  <2>1. inited /\ addState' \in Error .. NotAddedExists
    BY <1>4 DEF Crash, CreateAllInv
  <2>2. running' \in BOOLEAN
    BY <1>4, Zenon DEF Crash
  <2> QED
    BY <1>0, <1>4, <2>1, <2>2, ReturnAll DEF Crash, database, TypeOK
<1> QED
  BY <1>1, <1>2, <1>3, <1>4 DEF DeleteBlock

(***************************************************************************)
(* AllInv holds whatever the node, its operator and the machine do.        *)
(***************************************************************************)
THEOREM InvarianceAll == SpecAll => []AllInv
<1>1. AllInv /\ UNCHANGED vars => AllInv'
  BY DEF vars, database, reorg, AllInv, TypeOK, CreateAllInv, BlockAllInv, WalkAllInv,
     RemoveAllInv, AddAllInv, IndexIsSomeBranch, Creating, Shared
<1>2. AllInv /\ [NextAll]_vars => AllInv'
  BY <1>1, CreateAll, AddBlockAll, ReorgAll, DropAll DEF NextAll, Next, AddBlock
<1> QED
  BY InitAll, <1>2, PTL DEF SpecAll

(***************************************************************************)
(* The process may die between any two database transactions, also of the  *)
(* removal and the adding loop of UpdateChainOnNewBranch, and the operator *)
(* may drop blocks: the chain index is always empty or one whole branch.   *)
(***************************************************************************)
THEOREM IndexWhole == SpecAll => []IndexIsSomeBranch
<1>1. AllInv => IndexIsSomeBranch
  BY DEF AllInv
<1> QED
  BY InvarianceAll, <1>1, PTL

\* A step that changes the index otherwise than by a removal keeps its blocks.
LEMMA IndexGrows ==
  ASSUME AllInv, [NextAll]_vars, ~ RemoveOld, ~ DropRemoveFromChain
  PROVE  DOMAIN chain \subseteq DOMAIN chain'
<1>0. NoHash \notin Hash /\ HoldsBranch(chain)
  BY TreeAssumption DEF AllInv, IndexIsSomeBranch, HoldsBranch
<1>1. CASE UNCHANGED chain
  BY <1>1
<1>2. CASE AddGenesisToChain
  BY <1>2 DEF AllInv, CreateAllInv, Creating, AddGenesisToChain
<1>3. CASE AddBlockToChain
  <2>1. block \in Hash /\ block # Genesis
    BY <1>3 DEF AllInv, BlockAllInv, AddBlockToChain
  <2> QED
    BY <1>0, <1>3, <2>1, AddToChainAnywhere DEF AddBlockToChain
<1>4. CASE AddNew
  <2>1. /\ newBlocks # <<>> /\ newBlocks \in Seq(Hash) /\ block \in Hash
        /\ mergePoint \in Hash /\ PathUp(newBlocks, mergePoint, block)
    BY <1>4 DEF AllInv, TypeOK, BlockAllInv, AddAllInv, AddNew
  <2>2. Head(newBlocks) \in Hash /\ Head(newBlocks) # Genesis /\ Prev[Head(newBlocks)] = mergePoint
    BY <2>1, PathUpTail
  <2> QED
    BY <1>0, <1>4, <2>2, AddToChainAnywhere DEF AddNew
<1> QED
  BY <1>1, <1>2, <1>3, <1>4
     DEF vars, database, NextAll, Next, Create, InitDatabase, PutGenesis, SaveGenesisTop,
         SaveFirstHash, StartNode, AddBlock, AddBlockExists, AddBlockNoPrev, AddBlockPut,
         AddBlockNoTop, AddBlockParallel, AddBlockSaveTop, UpdateChainOnNewBranch, WalkMissing,
         WalkNewBlock, WalkFound, RemoveError, RemoveDone, AddDone, DeleteBlock, DropSaveTop,
         DropDeleteBlock, Crash

(***************************************************************************)
(* No step takes a block of the branch of the top hash out of the index:   *)
(* the removal loop of UpdateChainOnNewBranch stops at the merge point, and*)
(* DeleteBlock takes away only the block it has just put the top hash      *)
(* below; also when a crash has left the index behind the top hash.        *)
(***************************************************************************)
THEOREM MainBlocksStay == SpecAll => MainBlocksStayIndexed
<1>1. ASSUME AllInv, [NextAll]_vars
      PROVE  \A h \in DOMAIN chain :
               topHash' # NoHash /\ h \in Branch[topHash'] => h \in DOMAIN chain'
  <2> SUFFICES ASSUME NEW h \in DOMAIN chain, topHash' # NoHash, h \in Branch[topHash'],
                      h \notin DOMAIN chain'
               PROVE  FALSE
    OBVIOUS
  <2>0. HoldsBranch(chain)
    BY <1>1 DEF AllInv, IndexIsSomeBranch, HoldsBranch
  <2>1. CASE RemoveOld
    <3>1. /\ chain' = RemoveFromChain(chain, remHash) /\ chain' # chain
          /\ topHash' = block /\ block \in Hash /\ remHash # mergePoint
      BY <1>1, <2>1 DEF RemoveOld, AllInv, BlockAllInv
    <3>2. remHash \in Hash /\ IndexOf(chain, remHash) /\ h = remHash
      BY <2>0, <3>1, RemoveFromChainAnywhere
    <3>3. mergePoint \in Branch[remHash] /\ Shared(block) \subseteq Branch[mergePoint]
      BY <1>1, <2>1, <3>2 DEF RemoveOld, AllInv, RemoveAllInv, IndexOf
    <3>4. mergePoint \in Hash /\ remHash \in Branch[mergePoint]
      BY <3>1, <3>2, <3>3, BranchType DEF Shared
    <3>5. Height[mergePoint] < Height[remHash] /\ Height[remHash] < Height[mergePoint]
      BY <3>1, <3>2, <3>3, <3>4, BranchLower
    <3> QED
      BY <3>2, <3>4, <3>5, HeightAssumption
  <2>2. CASE DropRemoveFromChain
    <3>1. /\ chain' = RemoveFromChain(chain, block) /\ chain' # chain
          /\ block \in Hash /\ topHash' = Prev[block]
      BY <1>1, <2>2 DEF DropRemoveFromChain, AllInv, BlockAllInv
    <3>2. h = block
      BY <2>0, <3>1, RemoveFromChainAnywhere
    <3>3. block # Genesis
      BY <3>1, TreeAssumption
    <3> QED
      BY <3>1, <3>2, <3>3, NotBelowItself
  <2> QED
    BY <1>1, <2>1, <2>2, IndexGrows
<1> QED
  BY InvarianceAll, <1>1, PTL DEF SpecAll, MainBlocksStayIndexed

-----------------------------------------------------------------------------
(***************************************************************************)
(* The queries of the block store.                                         *)
(***************************************************************************)

(***************************************************************************)
(* Loops                                                                   *)
(***************************************************************************)

(***************************************************************************)
(* The accumulators f[0], ..., f[n] of a loop over n items, all in D: G[i] *)
(* is what the step does for item i.                                       *)
(***************************************************************************)
Accumulates(f, n, D, start, G) ==
  /\ f \in [0 .. n -> D]
  /\ f[0] = start
  /\ \A i \in 1 .. n : f[i] = G[i][f[i - 1]]

\* A loop whose steps keep the accumulator in D runs.
LEMMA LoopExists ==
  ASSUME NEW n \in Nat, NEW D, NEW start \in D, NEW G \in [1 .. n -> [D -> D]]
  PROVE  \E f : Accumulates(f, n, D, start, G)
<1> DEFINE S == {m \in 0 .. n : \E f : Accumulates(f, m, D, start, G)}
<1>1. 0 \in S
  <2> DEFINE f == [i \in 0 .. 0 |-> start]
  <2>1. Accumulates(f, 0, D, start, G)
    BY DEF Accumulates
  <2> HIDE DEF f
  <2> QED
    BY <2>1
<1>2. ASSUME NEW m \in 1 .. n, m - 1 \in S
      PROVE  m \in S
  <2>1. PICK f : Accumulates(f, m - 1, D, start, G)
    BY <1>2
  <2> DEFINE g == [i \in 0 .. m |-> IF i = m THEN G[m][f[m - 1]] ELSE f[i]]
  <2>2. /\ m - 1 \in 0 .. m - 1 /\ m \in Nat /\ G[m] \in [D -> D]
        /\ f \in [0 .. m - 1 -> D] /\ f[0] = start
        /\ \A i \in 1 .. m - 1 : f[i] = G[i][f[i - 1]]
    BY <2>1 DEF Accumulates
  <2>3. g \in [0 .. m -> D]
    BY <2>2
  <2>4. g[0] = start
    BY <2>2
  <2>5. ASSUME NEW i \in 1 .. m
        PROVE  g[i] = G[i][g[i - 1]]
    BY <2>2
  <2>6. Accumulates(g, m, D, start, G)
    BY <2>3, <2>4, <2>5 DEF Accumulates
  <2> HIDE DEF g
  <2> QED
    BY <2>2, <2>6
<1>3. n \in S
  <2> HIDE DEF S
  <2>1. \A m \in 0 .. n : m \in S
    BY <1>1, <1>2, NumberInduction
  <2> QED
    BY <2>1
<1> QED
  BY <1>3

(***************************************************************************)
(* The accumulators of a loop, when its step is G[i] as long as the        *)
(* accumulator is in D.                                                    *)
(***************************************************************************)
LEMMA LoopRuns ==
  ASSUME NEW n \in Nat, NEW D, NEW start \in D, NEW G \in [1 .. n -> [D -> D]],
         NEW f, f = [i \in 0 .. n |-> f[i]],
         f[0] = start, \A i \in 1 .. n : f[i - 1] \in D => f[i] = G[i][f[i - 1]]
  PROVE  Accumulates(f, n, D, start, G)
<1> DEFINE S == {i \in 0 .. n : f[i] \in D}
<1>1. 0 \in S
  OBVIOUS
<1>2. ASSUME NEW i \in 1 .. n, i - 1 \in S
      PROVE  i \in S
  <2>1. f[i - 1] \in D
    BY <1>2
  <2>2. G[i] \in [D -> D] /\ i \in 0 .. n
    OBVIOUS
  <2>3. f[i] = G[i][f[i - 1]]
    BY <2>1
  <2> QED
    BY <2>1, <2>2, <2>3
<1>3. \A i \in 0 .. n : i \in S
  <2> HIDE DEF S
  <2> QED
    BY <1>1, <1>2, NumberInduction
<1>4. \A i \in 0 .. n : f[i] \in D
  BY <1>3
<1>5. f \in [0 .. n -> D]
  BY <1>4
<1>6. ASSUME NEW i \in 1 .. n
      PROVE  f[i] = G[i][f[i - 1]]
  <2>1. i - 1 \in 0 .. n
    OBVIOUS
  <2> QED
    BY <1>4, <2>1
<1> QED
  BY <1>5, <1>6 DEF Accumulates

(***************************************************************************)
(* A loop over BlockchainIterator.Next that stops at blocks of a set, with *)
(* the genesis block among them, ends: each block has a first block of the *)
(* set below it.  V[h] is what the loop yields when it stops at h.         *)
(***************************************************************************)
LEMMA WalkExists ==
  ASSUME NEW Stop, Genesis \in Stop, NEW V
  PROVE  \E f : f = [h \in Hash |-> IF h \in Stop THEN V[h] ELSE f[Prev[h]]]
<1> DEFINE Stops(h, x) == /\ x \in Branch[h] \cap Stop
                          /\ \A y \in Branch[h] \cap Stop : y \in Branch[x]
           g == [h \in Hash |-> CHOOSE x : Stops(h, x)]
           f == [h \in Hash |-> V[g[h]]]
<1>1. ASSUME NEW h \in Hash, h \in Stop
      PROVE  g[h] = h
  <2>1. Stops(h, h)
    BY <1>1, BranchType
  <2>2. ASSUME NEW x, Stops(h, x)
        PROVE  x = h
    <3>1. x \in Branch[h] /\ h \in Branch[x] /\ x \in Hash
      BY <1>1, <2>2, BranchType
    <3>2. x # h => Height[x] < Height[h] /\ Height[h] < Height[x]
      BY <3>1, BranchLower
    <3> QED
      BY <3>1, <3>2, HeightAssumption
  <2> HIDE DEF Stops
  <2> QED
    BY <2>1, <2>2
<1>2. ASSUME NEW h \in Hash, h \notin Stop
      PROVE  Prev[h] \in Hash /\ g[h] = g[Prev[h]]
  <2>1. Prev[h] \in Hash /\ Branch[h] = {h} \cup Branch[Prev[h]]
    BY <1>2, BranchStep, TreeAssumption
  <2>2. \A x : Stops(h, x) <=> Stops(Prev[h], x)
    BY <1>2, <2>1
  <2> HIDE DEF Stops
  <2> QED
    BY <2>1, <2>2
<1>3. f = [h \in Hash |-> IF h \in Stop THEN V[h] ELSE f[Prev[h]]]
  <2> HIDE DEF g
  <2>1. \A h \in Hash : f[h] = IF h \in Stop THEN V[h] ELSE f[Prev[h]]
    BY <1>1, <1>2
  <2> QED
    BY <2>1
<1> HIDE DEF f
<1> QED
  BY <1>3

-----------------------------------------------------------------------------
(***************************************************************************)
(* Blocks of a branch as a list                                            *)
(***************************************************************************)

\* s lists the blocks of S from the top down.
ListsDown(s, S) ==
  /\ s \in [1 .. Cardinality(S) -> S]
  /\ Range(s) = S
  /\ \A i, j \in DOMAIN s : i < j => Height[s[i]] > Height[s[j]]

(***************************************************************************)
(* s lists the members of S, any two of them in the order R.               *)
(***************************************************************************)
ListsBy(s, S, R) ==
  /\ s \in [1 .. Cardinality(S) -> S]
  /\ Range(s) = S
  /\ \A i, j \in DOMAIN s : i < j => <<s[i], s[j]>> \in R

\* What comes before all members of a set goes in front of their list.
LEMMA ListsByCons ==
  ASSUME NEW S, IsFiniteSet(S), NEW R, NEW s, ListsBy(s, S, R),
         NEW h, h \notin S, \A x \in S : <<h, x>> \in R
  PROVE  /\ IsFiniteSet(S \cup {h})
         /\ Cardinality(S \cup {h}) = Cardinality(S) + 1
         /\ ListsBy([i \in 1 .. Cardinality(S) + 1 |-> IF i = 1 THEN h ELSE s[i - 1]], S \cup {h}, R)
<1> DEFINE n == Cardinality(S)
           r == [i \in 1 .. n + 1 |-> IF i = 1 THEN h ELSE s[i - 1]]
<1>1. n \in Nat
  BY FS_CardinalityType
<1>2. IsFiniteSet(S \cup {h}) /\ Cardinality(S \cup {h}) = n + 1
  BY FS_AddElement
<1>3. s \in [1 .. n -> S] /\ S = {s[i] : i \in 1 .. n}
  BY DEF ListsBy, Range
<1>4. r \in [1 .. n + 1 -> S \cup {h}]
  BY <1>1, <1>3
<1>5. Range(r) = S \cup {h}
  <2>1. Range(r) = {r[i] : i \in 1 .. n + 1}
    BY DEF Range
  <2>2. ASSUME NEW i \in 1 .. n
        PROVE  r[i + 1] = s[i] /\ i + 1 \in 1 .. n + 1
    BY <1>1
  <2>3. r[1] = h /\ 1 \in 1 .. n + 1
    BY <1>1
  <2>4. S \cup {h} \subseteq Range(r)
    BY <1>3, <2>1, <2>2, <2>3
  <2> QED
    BY <1>4, <2>1, <2>4
<1>6. ASSUME NEW i \in 1 .. n + 1, NEW j \in 1 .. n + 1, i < j
      PROVE  <<r[i], r[j]>> \in R
  <2>1. r[j] = s[j - 1] /\ j - 1 \in 1 .. n
    BY <1>1, <1>6
  <2>2. CASE i = 1
    BY <1>3, <2>1, <2>2
  <2>3. CASE i # 1
    <3>1. r[i] = s[i - 1] /\ i - 1 \in 1 .. n /\ i - 1 < j - 1
      BY <1>1, <1>6, <2>3
    <3> QED
      BY <1>3, <2>1, <3>1 DEF ListsBy
  <2> QED
    BY <2>2, <2>3
<1>7. ListsBy(r, S \cup {h}, R)
  BY <1>2, <1>4, <1>5, <1>6 DEF ListsBy
<1> QED
  BY <1>2, <1>7

\* A block that is higher than all those of a set goes in front of their list.
LEMMA ListsDownCons ==
  ASSUME NEW S \in SUBSET Hash, IsFiniteSet(S), NEW s, ListsDown(s, S),
         NEW h \in Hash, \A x \in S : Height[x] < Height[h]
  PROVE  /\ IsFiniteSet(S \cup {h})
         /\ Cardinality(S \cup {h}) = Cardinality(S) + 1
         /\ ListsDown([i \in 1 .. Cardinality(S) + 1 |-> IF i = 1 THEN h ELSE s[i - 1]], S \cup {h})
<1> DEFINE R == {p \in Hash \X Hash : Height[p[1]] > Height[p[2]]}
<1>1. ASSUME NEW T \in SUBSET Hash, NEW r, r \in [1 .. Cardinality(T) -> T]
      PROVE  ListsDown(r, T) <=> ListsBy(r, T, R)
  BY <1>1 DEF ListsDown, ListsBy
<1>2. ListsBy(s, S, R)
  BY <1>1 DEF ListsDown
<1>3. h \notin S /\ S \cup {h} \subseteq Hash /\ \A x \in S : <<h, x>> \in R
  BY HeightAssumption
<1> HIDE DEF R
<1>4. /\ IsFiniteSet(S \cup {h})
      /\ Cardinality(S \cup {h}) = Cardinality(S) + 1
      /\ ListsBy([i \in 1 .. Cardinality(S) + 1 |-> IF i = 1 THEN h ELSE s[i - 1]], S \cup {h}, R)
  BY <1>2, <1>3, ListsByCons
<1> QED
  BY <1>1, <1>3, <1>4 DEF ListsBy

\* A part of a branch is finite and can be listed.
LEMMA ListExists ==
  ASSUME NEW t \in Hash, NEW S \in SUBSET Branch[t]
  PROVE  IsFiniteSet(S) /\ \E s : ListsDown(s, S)
<1> DEFINE P == {h \in Hash : \A T \in SUBSET Branch[h] : IsFiniteSet(T) /\ \E s : ListsDown(s, T)}
<1>1. IsFiniteSet({}) /\ ListsDown(<<>>, {})
  <2>1. IsFiniteSet({}) /\ Cardinality({}) = 0
    BY FS_EmptySet
  <2> QED
    BY <2>1 DEF ListsDown, Range
<1>2. ASSUME NEW h \in Hash, NEW X \in SUBSET Hash, Branch[h] = {h} \cup X,
             \A x \in X : Height[x] < Height[h],
             \A T \in SUBSET X : IsFiniteSet(T) /\ \E s : ListsDown(s, T)
      PROVE  h \in P
  <2> SUFFICES ASSUME NEW T \in SUBSET Branch[h]
               PROVE  IsFiniteSet(T) /\ \E s : ListsDown(s, T)
    OBVIOUS
  <2>1. CASE h \notin T
    BY <1>2, <2>1
  <2>2. CASE h \in T
    <3> DEFINE U == T \ {h}
    <3>1. U \in SUBSET X /\ U \in SUBSET Hash /\ T = U \cup {h}
      BY <1>2, <2>2
    <3>2. PICK s : IsFiniteSet(U) /\ ListsDown(s, U)
      BY <1>2, <3>1
    <3>3. \A x \in U : Height[x] < Height[h]
      BY <1>2, <3>1
    <3> HIDE DEF U
    <3> QED
      BY <3>1, <3>2, <3>3, ListsDownCons
  <2> QED
    BY <2>1, <2>2
<1>3. Genesis \in P
  <2> DEFINE X == {}
  <2>1. Branch[Genesis] = {Genesis} \cup X /\ Genesis \in Hash /\ X \in SUBSET Hash
    BY BranchGenesis, TreeAssumption
  <2>2. \A T \in SUBSET X : IsFiniteSet(T) /\ \E s : ListsDown(s, T)
    BY <1>1
  <2>3. \A x \in X : Height[x] < Height[Genesis]
    OBVIOUS
  <2> HIDE DEF P, X
  <2> QED
    BY <1>2, <2>1, <2>2, <2>3
<1>4. ASSUME NEW h \in Hash \ {Genesis}, Prev[h] \in P
      PROVE  h \in P
  <2>1. Branch[h] = {h} \cup Branch[Prev[h]] /\ Branch[Prev[h]] \subseteq Hash /\ h \notin Branch[Prev[h]]
    BY <1>4, BranchStep, BranchType, NotBelowItself
  <2>2. \A x \in Branch[Prev[h]] : Height[x] < Height[h]
    BY <2>1, BranchLower
  <2>3. \A T \in SUBSET Branch[Prev[h]] : IsFiniteSet(T) /\ \E s : ListsDown(s, T)
    BY <1>4
  <2> HIDE DEF P
  <2> QED
    BY <1>2, <2>1, <2>2, <2>3
<1>5. Hash \subseteq P
  <2> HIDE DEF P
  <2> QED
    BY <1>3, <1>4, TreeInduction
<1> QED
  BY <1>5

\* Descending lists any part of a branch.
LEMMA DescendingLists ==
  ASSUME NEW t \in Hash, NEW S \in SUBSET Branch[t]
  PROVE  ListsDown(Descending(S), S) /\ Descending(S) \in Seq(S)
<1>1. IsFiniteSet(S) /\ \E s : ListsDown(s, S)
  BY ListExists
<1>2. \E s \in [1 .. Cardinality(S) -> S] :
        Range(s) = S /\ \A i, j \in DOMAIN s : i < j => Height[s[i]] > Height[s[j]]
  BY <1>1 DEF ListsDown
<1>3. ListsDown(Descending(S), S)
  BY <1>2 DEF Descending, ListsDown
<1>4. Cardinality(S) \in Nat
  BY <1>1, FS_CardinalityType
<1> QED
  BY <1>3, <1>4 DEF ListsDown

(***************************************************************************)
(* There is one list only.                                                 *)
(***************************************************************************)
LEMMA ListsDownUnique ==
  ASSUME NEW S \in SUBSET Hash, IsFiniteSet(S),
         NEW s, ListsDown(s, S), NEW r, ListsDown(r, S)
  PROVE  s = r
<1> DEFINE n == Cardinality(S)
           T == {i \in 1 .. n : s[i] # r[i]}
<1>1. /\ n \in Nat
      /\ s \in [1 .. n -> S] /\ S = {s[i] : i \in 1 .. n}
      /\ r \in [1 .. n -> S] /\ S = {r[i] : i \in 1 .. n}
      /\ \A i, j \in 1 .. n : i < j => Height[s[i]] > Height[s[j]] /\ Height[r[i]] > Height[r[j]]
  BY FS_CardinalityType DEF ListsDown, Range
<1> HIDE DEF n
<1>0. \A i \in 1 .. n : s[i] \in S /\ r[i] \in S /\ Height[s[i]] \in Nat /\ Height[r[i]] \in Nat
  BY <1>1, HeightAssumption
<1>2. SUFFICES ASSUME T # {}
               PROVE  FALSE
  <2>1. ASSUME T = {}
        PROVE  s = r
    <3>1. \A i \in 1 .. n : s[i] = r[i]
      BY <2>1
    <3>2. s = [i \in 1 .. n |-> s[i]] /\ r = [i \in 1 .. n |-> r[i]]
      BY <1>1
    <3> QED
      BY <3>1, <3>2
  <2> QED
    BY <2>1
<1>3. PICK i \in T : \A j \in T : i <= j
  <2>1. T \in SUBSET Nat
    BY <1>1
  <2> HIDE DEF T
  <2> QED
    BY <1>2, <2>1, LeastNumber
<1>4. i \in 1 .. n /\ s[i] # r[i] /\ \A j \in 1 .. n : j < i => s[j] = r[j]
  BY <1>1, <1>3
<1>5. PICK k \in 1 .. n : s[i] = r[k]
  BY <1>1, <1>4
<1>6. PICK l \in 1 .. n : r[i] = s[l]
  BY <1>1, <1>4
<1>7. k > i
  <2>1. ~ (k < i)
    <3> SUFFICES ASSUME k < i
                 PROVE  FALSE
      OBVIOUS
    <3>1. s[k] = s[i] /\ Height[s[k]] > Height[s[i]]
      BY <1>1, <1>4, <1>5
    <3> QED
      BY <1>0, <1>4, <3>1
  <2> QED
    BY <1>1, <1>4, <1>5, <2>1
<1>8. l > i
  <2>1. ~ (l < i)
    <3> SUFFICES ASSUME l < i
                 PROVE  FALSE
      OBVIOUS
    <3>1. r[l] = r[i] /\ Height[r[l]] > Height[r[i]]
      BY <1>1, <1>4, <1>6
    <3> QED
      BY <1>0, <1>4, <3>1
  <2> QED
    BY <1>1, <1>4, <1>6, <2>1
<1>9. Height[r[i]] > Height[s[i]] /\ Height[s[i]] > Height[r[i]]
  BY <1>1, <1>4, <1>5, <1>6, <1>7, <1>8
<1> QED
  BY <1>0, <1>4, <1>9

\* The list of a part of a branch with a block that is higher.
LEMMA DescendingCons ==
  ASSUME NEW h \in Hash, NEW S \in SUBSET Branch[h], h \notin S
  PROVE  Descending(S \cup {h}) = <<h>> \o Descending(S)
<1> DEFINE n == Cardinality(S)
           s == Descending(S)
           r == [i \in 1 .. n + 1 |-> IF i = 1 THEN h ELSE s[i - 1]]
<1>1. /\ S \in SUBSET Hash /\ S \cup {h} \in SUBSET Hash /\ S \cup {h} \in SUBSET Branch[h]
      /\ \A x \in S : Height[x] < Height[h]
  BY BranchType, BranchLower
<1>2. IsFiniteSet(S) /\ ListsDown(s, S) /\ n \in Nat /\ s \in [1 .. n -> S]
  BY ListExists, DescendingLists, FS_CardinalityType DEF ListsDown
<1> HIDE DEF n, s
<1>3. IsFiniteSet(S \cup {h}) /\ ListsDown(r, S \cup {h})
  BY <1>1, <1>2, ListsDownCons DEF n
<1>4. Descending(S \cup {h}) = r
  <2>1. ListsDown(Descending(S \cup {h}), S \cup {h})
    BY <1>1, DescendingLists
  <2> HIDE DEF r
  <2> QED
    BY <1>1, <1>3, <2>1, ListsDownUnique
<1>5. r = <<h>> \o s
  <2>1. s \in Seq(S) /\ Len(s) = n
    BY <1>2
  <2> QED
    BY <1>2, <2>1
<1> QED
  BY <1>4, <1>5 DEF s

\* The empty part of a branch.
LEMMA DescendingNone == Descending({}) = <<>>
<1>1. {} \in SUBSET Branch[Genesis] /\ Genesis \in Hash
  BY TreeAssumption
<1>2. ListsDown(Descending({}), {})
  BY <1>1, DescendingLists
<1>3. Cardinality({}) = 0
  BY FS_EmptySet
<1> QED
  BY <1>2, <1>3 DEF ListsDown

-----------------------------------------------------------------------------
(***************************************************************************)
(* ChooseHashUnderTip                                                      *)
(***************************************************************************)

(***************************************************************************)
(* The walk of ChooseHashUnderTip ends at the highest block of the branch  *)
(* that is requested or in the main chain, or else at the genesis block,   *)
(* when all blocks of the branch are stored.                               *)
(***************************************************************************)
LEMMA WalkToMainStops ==
  ASSUME NEW hashes, NEW tip \in Hash, Branch[tip] \subseteq blocks
  PROVE  LET top == WalkToMain(hashes, tip)
         IN  /\ top \in Branch[tip]
             /\ top \in Range(hashes) \/ InMain(top) \/ top = Genesis
             /\ \A x \in Branch[tip] : x \in Range(hashes) \/ InMain(x) => x \in Branch[top]
<1> DEFINE Stop == {h \in Hash : h \notin blocks \/ h \in Range(hashes) \/ InMain(h)
                                   \/ Prev[h] = NoHash}
           V == [h \in Hash |-> IF h \notin blocks THEN NoHash ELSE h]
           Eq(f) == f = [h \in Hash |->
                           IF h \notin blocks THEN NoHash
                           ELSE IF h \in Range(hashes) \/ InMain(h) \/ Prev[h] = NoHash
                           THEN h ELSE f[Prev[h]]]
           walk == CHOOSE f : Eq(f)
           Good(h) == /\ walk[h] \in Branch[h]
                      /\ walk[h] \in Range(hashes) \/ InMain(walk[h]) \/ walk[h] = Genesis
                      /\ \A x \in Branch[h] :
                           x \in Range(hashes) \/ InMain(x) => x \in Branch[walk[h]]
<1>1. WalkToMain(hashes, tip) = walk[tip]
  BY DEF WalkToMain
<1>2. Genesis \in Stop /\ \A h \in Hash \ {Genesis} : Prev[h] # NoHash
  BY TreeAssumption
<1>3. \E f : f = [h \in Hash |-> IF h \in Stop THEN V[h] ELSE f[Prev[h]]]
  <2> HIDE DEF Stop, V
  <2> QED
    BY <1>2, WalkExists
<1>4. Eq(walk)
  <2>1. \E f : Eq(f)
    BY <1>3
  <2> HIDE DEF Eq
  <2> QED
    BY <2>1
<1> HIDE DEF walk
<1>5. \A h \in blocks \cap Hash :
        walk[h] = IF h \in Range(hashes) \/ InMain(h) \/ Prev[h] = NoHash
                  THEN h ELSE walk[Prev[h]]
  BY <1>4
<1> DEFINE S == {h \in Hash : Branch[h] \subseteq blocks => Good(h)}
<1>6. Genesis \in S
  BY <1>5, BranchGenesis, TreeAssumption
<1>7. ASSUME NEW h \in Hash \ {Genesis}, Prev[h] \in S
      PROVE  h \in S
  <2> SUFFICES ASSUME Branch[h] \subseteq blocks
               PROVE  Good(h)
    OBVIOUS
  <2>1. Branch[h] = {h} \cup Branch[Prev[h]]
    BY BranchStep
  <2>2. CASE h \in Range(hashes) \/ InMain(h)
    BY <1>5, <2>1, <2>2, BranchType
  <2>3. CASE ~ (h \in Range(hashes) \/ InMain(h))
    <3>1. walk[h] = walk[Prev[h]]
      BY <1>2, <1>5, <2>1, <2>3
    <3> QED
      BY <1>7, <2>1, <2>3, <3>1
  <2> QED
    BY <2>2, <2>3
<1>8. Hash \subseteq S
  <2> HIDE DEF S
  <2> QED
    BY <1>6, <1>7, TreeInduction
<1> QED
  BY <1>1, <1>8

\* The first hit of a list is a member of it.
LEMMA FirstHit ==
  ASSUME NEW list \in Seq(Hash), NEW hits \in SUBSET DOMAIN list, hits # {}
  PROVE  Min(hits) \in hits
<1>1. hits \in SUBSET Nat
  OBVIOUS
<1> QED
  BY <1>1, LeastNumber DEF Min

(***************************************************************************)
(* While the index holds the branch of the top block, ChooseHashUnderTip   *)
(* finds a block of the list on the branch of the tip when there is one,   *)
(* all of whose blocks are stored.                                         *)
(***************************************************************************)
LEMMA ChooseUnderTip ==
  ASSUME topHash \in Hash, IndexOf(chain, topHash),
         NEW hashes \in Seq(Hash), NEW tip \in Hash \cup {NoHash},
         tip # NoHash => Branch[tip] \subseteq blocks
  PROVE  LET under  == Range(hashes) \cap Branch[IF tip = NoHash THEN topHash ELSE tip]
             result == ChooseHashUnderTip(hashes, tip)
         IN  IF under = {} THEN result = NoHash ELSE result \in under
<1> DEFINE under  == Range(hashes) \cap Branch[IF tip = NoHash THEN topHash ELSE tip]
           result == ChooseHashUnderTip(hashes, tip)
<1>1. \A h : InMain(h) <=> h \in Branch[topHash]
  BY DEF InMain, BlockInChain, IndexOf
<1>2. Range(hashes) \subseteq Hash /\ Range(hashes) = {hashes[i] : i \in DOMAIN hashes}
  BY DEF Range
<1>3. CASE hashes = <<>>
  <2>1. Range(hashes) = {}
    BY <1>2, <1>3
  <2> QED
    BY <1>3, <2>1 DEF ChooseHashUnderTip
<1>4. CASE hashes # <<>> /\ tip = NoHash
  <2> DEFINE hits == {i \in DOMAIN hashes : InMain(hashes[i])}
  <2>1. result = IF hits = {} THEN NoHash ELSE hashes[Min(hits)]
    BY <1>4 DEF ChooseHashUnderTip, FirstOf
  <2>2. hits # {} => Min(hits) \in hits
    BY FirstHit
  <2> QED
    BY <1>1, <1>2, <1>4, <2>1, <2>2
<1>5. CASE hashes # <<>> /\ tip # NoHash /\ tip \in Range(hashes)
  BY <1>5, BranchType DEF ChooseHashUnderTip
<1>6. CASE hashes # <<>> /\ tip # NoHash /\ tip \notin Range(hashes)
  <2> DEFINE top == WalkToMain(hashes, tip)
             hits == {i \in DOMAIN hashes : InMain(hashes[i]) /\ Height[hashes[i]] < Height[top]}
  <2>0. tip \in Hash /\ under = Range(hashes) \cap Branch[tip]
    BY <1>6
  <2>1. /\ top \in Branch[tip]
        /\ top \in Range(hashes) \/ InMain(top) \/ top = Genesis
        /\ \A x \in Branch[tip] : x \in Range(hashes) \/ InMain(x) => x \in Branch[top]
    BY <1>6, <2>0, WalkToMainStops
  <2>2. result = IF top \in Range(hashes) THEN top
                 ELSE IF InMain(top) THEN LowerInMain(hashes, top) ELSE NoHash
    BY <1>6 DEF ChooseHashUnderTip
  <2> HIDE DEF top
  <2>3. CASE top \in Range(hashes)
    BY <2>0, <2>1, <2>2, <2>3
  <2>4. CASE top \notin Range(hashes)
    <3>1. top \in Hash /\ Branch[top] \subseteq Branch[tip]
      BY <2>0, <2>1, BranchInside
    <3>2. InMain(top) /\ top \in Branch[topHash] /\ Branch[top] \subseteq Branch[topHash]
      BY <1>1, <2>1, <2>4, GenesisOnBranch, BranchInside
    <3>3. result = IF hits = {} THEN NoHash ELSE hashes[Min(hits)]
      BY <2>2, <2>4, <3>2 DEF LowerInMain, FirstOf
    <3>4. hits # {} => Min(hits) \in hits
      BY FirstHit
    <3>5. ASSUME NEW x \in under
          PROVE  InMain(x) /\ Height[x] < Height[top]
      <4>1. x \in Branch[top] /\ x # top
        BY <2>0, <2>1, <2>4
      <4> QED
        BY <1>1, <3>1, <3>2, <4>1, BranchLower
    <3>6. ASSUME NEW i \in hits
          PROVE  hashes[i] \in under
      <4>1. hashes[i] \in Branch[topHash] /\ Height[hashes[i]] < Height[top]
        BY <1>1
      <4>2. Height[hashes[i]] \in Nat /\ Height[top] \in Nat
        BY <3>1, HeightAssumption
      <4>3. hashes[i] \in Branch[top]
        BY <3>2, <4>1, <4>2, BranchIsLine
      <4> QED
        BY <1>2, <2>0, <3>1, <4>3
    <3>7. under # {} => hits # {}
      BY <1>2, <3>5
    <3> QED
      BY <3>3, <3>4, <3>6, <3>7
  <2> QED
    BY <2>3, <2>4
<1> QED
  BY <1>3, <1>4, <1>5, <1>6

-----------------------------------------------------------------------------
(***************************************************************************)
(* CheckBlockIsInRange                                                     *)
(***************************************************************************)

\* For blocks of one branch, heights tell which one is below the other.
LEMMA HeightTellsBelow ==
  ASSUME NEW t \in Hash, NEW a \in Branch[t], NEW b \in Branch[t]
  PROVE  Height[a] <= Height[b] <=> a \in Branch[b]
<1>1. a \in Hash /\ b \in Hash /\ Height[a] \in Nat /\ Height[b] \in Nat
  BY BranchType, HeightAssumption
<1>2. a \in Branch[b] => Height[a] <= Height[b]
  BY <1>1, BranchLower
<1> QED
  BY <1>2, BranchIsLine

\* HeightInRange is right for blocks of a branch.
LEMMA HeightsInRange ==
  ASSUME NEW h \in Hash, NEW b \in Branch[h], NEW bottom \in Branch[h]
  PROVE  HeightInRange(b, bottom, h) <=> bottom \in Branch[b]
<1>1. Height[b] <= Height[h]
  BY BranchType, HeightTellsBelow
<1>2. Height[bottom] \in Nat /\ Height[b] \in Nat
  BY BranchType, HeightAssumption
<1> QED
  BY <1>1, <1>2, HeightTellsBelow DEF HeightInRange

\* Nor does it then end with an error.
LEMMA ChooseDoesNotFail ==
  ASSUME NEW hashes, NEW tip \in Hash \cup {NoHash},
         tip # NoHash => Branch[tip] \subseteq blocks
  PROVE  ~ ChooseHashFails(hashes, tip)
<1>1. CASE tip = NoHash
  BY <1>1 DEF ChooseHashFails
<1>2. CASE tip # NoHash
  <2>1. WalkToMain(hashes, tip) \in Branch[tip]
    BY <1>2, WalkToMainStops
  <2>2. WalkToMain(hashes, tip) # NoHash
    BY <1>2, <2>1, BranchType, TreeAssumption
  <2> QED
    BY <2>2 DEF ChooseHashFails
<1> QED
  BY <1>1, <1>2

\* The walk of CheckBlockIsInRange down a side branch.
LEMMA PlaceWalk ==
  ASSUME NEW b, NEW bottom, NEW tip \in Hash
  PROVE  \E w :
           /\ PlaceOfBlock(b, bottom, tip)
                = IF InMain(tip) THEN CompareHeights(b, bottom, tip) ELSE w[tip]
           /\ \A h \in Hash :
                w[h] = IF h \notin blocks THEN "error"
                       ELSE IF b = h THEN "inside"
                       ELSE IF bottom = h THEN "outside"
                       ELSE IF InMain(h) THEN CompareHeights(b, bottom, h)
                       ELSE IF Prev[h] = NoHash THEN "outside"
                       ELSE w[Prev[h]]
<1> DEFINE Stop == {h \in Hash : h \notin blocks \/ b = h \/ bottom = h \/ InMain(h)
                                   \/ Prev[h] = NoHash}
           V == [h \in Hash |-> IF h \notin blocks THEN "error"
                                ELSE IF b = h THEN "inside"
                                ELSE IF bottom = h THEN "outside"
                                ELSE IF InMain(h) THEN CompareHeights(b, bottom, h)
                                ELSE "outside"]
           Eq(f) == f = [h \in Hash |-> IF h \notin blocks THEN "error"
                                        ELSE IF b = h THEN "inside"
                                        ELSE IF bottom = h THEN "outside"
                                        ELSE IF InMain(h) THEN CompareHeights(b, bottom, h)
                                        ELSE IF Prev[h] = NoHash THEN "outside"
                                        ELSE f[Prev[h]]]
           walk == CHOOSE f : Eq(f)
<1>0. tip # NoHash
  BY TreeAssumption
<1>1. PlaceOfBlock(b, bottom, tip)
        = IF InMain(tip) THEN CompareHeights(b, bottom, tip) ELSE walk[tip]
  BY <1>0 DEF PlaceOfBlock
<1>2. Genesis \in Stop
  BY TreeAssumption
<1>3. \E f : f = [h \in Hash |-> IF h \in Stop THEN V[h] ELSE f[Prev[h]]]
  <2> HIDE DEF Stop, V
  <2> QED
    BY <1>2, WalkExists
<1>4. Eq(walk)
  <2>1. \E f : Eq(f)
    BY <1>3
  <2> HIDE DEF Eq
  <2> QED
    BY <2>1
<1> HIDE DEF walk
<1> QED
  BY <1>1, <1>4

(***************************************************************************)
(* CheckBlockIsInRange, for two blocks of the branch of the tip, all of    *)
(* them stored, tells whether the first one is above the second.           *)
(***************************************************************************)
LEMMA RangeOnBranch ==
  ASSUME NEW tip \in Hash, Branch[tip] \subseteq blocks,
         NEW b \in Branch[tip], NEW bottom \in Branch[tip]
  PROVE  CheckBlockIsInRange(b, bottom, tip) <=> bottom \in Branch[b]
<1>0. b \in Hash \cap blocks /\ bottom \in Hash \cap blocks
  BY BranchType
<1>1. PICK w : /\ PlaceOfBlock(b, bottom, tip)
                    = IF InMain(tip) THEN CompareHeights(b, bottom, tip) ELSE w[tip]
               /\ \A h \in Hash :
                    w[h] = IF h \notin blocks THEN "error"
                           ELSE IF b = h THEN "inside"
                           ELSE IF bottom = h THEN "outside"
                           ELSE IF InMain(h) THEN CompareHeights(b, bottom, h)
                           ELSE IF Prev[h] = NoHash THEN "outside"
                           ELSE w[Prev[h]]
  BY PlaceWalk
<1>2. ASSUME NEW h \in Hash \cap blocks, b \in Branch[h], bottom \in Branch[h]
      PROVE  CompareHeights(b, bottom, h) = "inside" <=> bottom \in Branch[b]
  BY <1>0, <1>2, HeightsInRange DEF CompareHeights
<1> DEFINE S == {h \in Hash : /\ Branch[h] \subseteq blocks
                               /\ b \in Branch[h] /\ bottom \in Branch[h]
                                => (w[h] = "inside" <=> bottom \in Branch[b])}
<1>7. ASSUME NEW h \in Hash, h = Genesis \/ Prev[h] \in S
      PROVE  h \in S
  <2> SUFFICES ASSUME Branch[h] \subseteq blocks, b \in Branch[h], bottom \in Branch[h]
               PROVE  w[h] = "inside" <=> bottom \in Branch[b]
    OBVIOUS
  <2>0. h \in blocks
    BY BranchType
  <2>1. CASE b = h
    BY <1>1, <2>0, <2>1
  <2>2. CASE b # h /\ bottom = h
    <3>1. Height[b] < Height[h] /\ Height[b] \in Nat /\ Height[h] \in Nat
      BY <1>0, <2>2, BranchLower, HeightAssumption
    <3>2. bottom \notin Branch[b]
      BY <2>2, <3>1, HeightTellsBelow
    <3> QED
      BY <1>1, <2>0, <2>2, <3>2
  <2>3. CASE b # h /\ bottom # h /\ InMain(h)
    BY <1>1, <1>2, <2>0, <2>3
  <2>4. CASE b # h /\ bottom # h /\ ~ InMain(h)
    <3>1. h # Genesis
      BY <2>4, BranchGenesis
    <3>2. Prev[h] # NoHash /\ Branch[h] = {h} \cup Branch[Prev[h]]
      BY <3>1, BranchStep, TreeAssumption
    <3>3. w[h] = w[Prev[h]]
      BY <1>1, <2>0, <2>4, <3>2
    <3> QED
      BY <1>7, <2>4, <3>1, <3>2, <3>3
  <2> QED
    BY <2>1, <2>2, <2>3, <2>4
<1>8. Hash \subseteq S
  <2> HIDE DEF S
  <2> QED
    BY <1>7, TreeInduction, TreeAssumption
<1>9. CASE InMain(tip)
  BY <1>1, <1>2, <1>9, BranchType DEF CheckBlockIsInRange
<1>10. CASE ~ InMain(tip)
  BY <1>1, <1>8, <1>10 DEF CheckBlockIsInRange
<1> QED
  BY <1>9, <1>10

(***************************************************************************)
(* It ends without an error when the two blocks and all blocks of the      *)
(* branch of the tip are stored.                                           *)
(***************************************************************************)
LEMMA PlaceIsKnown ==
  ASSUME topHash \in blocks, NEW tip \in Hash \cup {NoHash},
         tip # NoHash => Branch[tip] \subseteq blocks,
         NEW b \in blocks, NEW bottom \in blocks
  PROVE  ~ CheckBlockFails(b, bottom, tip)
<1>0. \A h \in blocks : CompareHeights(b, bottom, h) # "error"
  BY DEF CompareHeights
<1>1. CASE tip = NoHash
  BY <1>0, <1>1 DEF CheckBlockFails, PlaceOfBlock
<1>2. CASE tip # NoHash
  <2>0. tip \in Hash /\ Branch[tip] \subseteq blocks
    BY <1>2
  <2>1. PICK w : /\ PlaceOfBlock(b, bottom, tip)
                      = IF InMain(tip) THEN CompareHeights(b, bottom, tip) ELSE w[tip]
                 /\ \A h \in Hash :
                      w[h] = IF h \notin blocks THEN "error"
                             ELSE IF b = h THEN "inside"
                             ELSE IF bottom = h THEN "outside"
                             ELSE IF InMain(h) THEN CompareHeights(b, bottom, h)
                             ELSE IF Prev[h] = NoHash THEN "outside"
                             ELSE w[Prev[h]]
    BY <2>0, PlaceWalk
  <2> DEFINE S == {h \in Hash : Branch[h] \subseteq blocks => w[h] # "error"}
  <2>2. ASSUME NEW h \in Hash, h = Genesis \/ Prev[h] \in S
        PROVE  h \in S
    <3> SUFFICES ASSUME Branch[h] \subseteq blocks
                 PROVE  w[h] # "error"
      OBVIOUS
    <3>1. h \in blocks
      BY BranchType
    <3>2. h # Genesis => Branch[h] = {h} \cup Branch[Prev[h]]
      BY BranchStep
    <3>3. h = Genesis => Prev[h] = NoHash
      BY TreeAssumption
    <3> QED
      BY <1>0, <2>1, <2>2, <3>1, <3>2, <3>3
  <2>3. Hash \subseteq S
    <3> HIDE DEF S
    <3> QED
      BY <2>2, TreeInduction, TreeAssumption
  <2> QED
    BY <1>0, <2>0, <2>1, <2>3, BranchType DEF CheckBlockFails
<1> QED
  BY <1>1, <1>2

-----------------------------------------------------------------------------
(***************************************************************************)
(* GetSideBranch                                                           *)
(***************************************************************************)

\* The iterator yields the blocks of the branch that are above the height.
LEMMA DownToLists ==
  ASSUME NEW h \in Hash, NEW d \in Nat
  PROVE  DownTo(h, d) = Descending({k \in Branch[h] : Height[k] > d})
<1> DEFINE Above(x) == {k \in Branch[x] : Height[k] > d}
           Eq(f) == f = [x \in Hash |-> IF Height[x] <= d THEN <<>> ELSE <<x>> \o f[Prev[x]]]
           walk == CHOOSE f : Eq(f)
           w == [x \in Hash |-> Descending(Above(x))]
<1>1. DownTo(h, d) = walk[h]
  BY DEF DownTo
<1>2. ASSUME NEW x \in Hash
      PROVE  w[x] = IF Height[x] <= d THEN <<>> ELSE <<x>> \o w[Prev[x]]
  <2>1. CASE Height[x] <= d
    <3>1. \A k \in Branch[x] : Height[k] <= d
      <4>1. \A k \in Branch[x] : Height[k] \in Nat
        BY BranchType, HeightAssumption
      <4>2. Height[x] \in Nat
        BY HeightAssumption
      <4> QED
        BY <2>1, <4>1, <4>2, BranchLower
    <3>2. \A k \in Branch[x] : Height[k] \in Nat
      BY BranchType, HeightAssumption
    <3>3. Above(x) = {}
      BY <3>1, <3>2
    <3> HIDE DEF Above
    <3> QED
      BY <2>1, <3>3, DescendingNone
  <2>2. CASE ~ (Height[x] <= d)
    <3>1. x # Genesis /\ Height[x] > d /\ Prev[x] \in Hash
      BY <2>2, HeightAssumption, TreeAssumption
    <3>2. Branch[x] = {x} \cup Branch[Prev[x]] /\ x \notin Branch[Prev[x]]
      BY <3>1, BranchStep, NotBelowItself
    <3>3. Above(x) = Above(Prev[x]) \cup {x} /\ Above(Prev[x]) \in SUBSET Branch[x] /\ x \notin Above(Prev[x])
      BY <3>1, <3>2
    <3> HIDE DEF Above
    <3> QED
      BY <2>2, <3>1, <3>3, DescendingCons
  <2> QED
    BY <2>1, <2>2
<1> HIDE DEF Above
<1>3. Eq(w)
  <2>1. w = [x \in Hash |-> w[x]]
    OBVIOUS
  <2> HIDE DEF w
  <2> QED
    BY <1>2, <2>1
<1>4. Eq(walk)
  <2> HIDE DEF Eq, w
  <2> QED
    BY <1>3
<1> HIDE DEF walk
<1>5. \A x \in Hash : walk[x] = IF Height[x] <= d THEN <<>> ELSE <<x>> \o walk[Prev[x]]
  BY <1>4
<1> DEFINE S == {x \in Hash : walk[x] = w[x]}
<1>6. \A x \in Hash : x \in S <=> walk[x] = w[x]
  OBVIOUS
<1>7. w[h] = Descending(Above(h))
  OBVIOUS
<1> HIDE DEF w, S
<1>8. Genesis \in S
  <2>1. Genesis \in Hash /\ Height[Genesis] <= d
    BY HeightAssumption, TreeAssumption
  <2>2. walk[Genesis] = <<>> /\ w[Genesis] = <<>>
    BY <1>2, <1>5, <2>1
  <2> QED
    BY <1>6, <2>1, <2>2
<1>9. ASSUME NEW x \in Hash \ {Genesis}, Prev[x] \in S
      PROVE  x \in S
  <2>1. x \in Hash /\ Prev[x] \in Hash
    BY TreeAssumption
  <2>2. walk[Prev[x]] = w[Prev[x]]
    BY <1>6, <1>9, <2>1
  <2>3. w[x] = IF Height[x] <= d THEN <<>> ELSE <<x>> \o w[Prev[x]]
    BY <1>2, <2>1
  <2>4. walk[x] = IF Height[x] <= d THEN <<>> ELSE <<x>> \o walk[Prev[x]]
    BY <1>5, <2>1
  <2> QED
    BY <1>6, <2>1, <2>2, <2>3, <2>4
<1>10. Hash \subseteq S
  BY <1>8, <1>9, TreeInduction
<1> QED
  BY <1>1, <1>6, <1>7, <1>10 DEF Above

\* The iterator stops at the block of the branch that has the height.
LEMMA AtHeightFinds ==
  ASSUME NEW h \in Hash, NEW d \in Nat, d <= Height[h]
  PROVE  AtHeight(h, d) \in Branch[h] /\ Height[AtHeight(h, d)] = d
<1> DEFINE Stop == {x \in Hash : Height[x] <= d}
           V == [x \in Hash |-> x]
           Eq(f) == f = [x \in Hash |-> IF Height[x] <= d THEN x ELSE f[Prev[x]]]
           walk == CHOOSE f : Eq(f)
           S == {x \in Hash : d <= Height[x] => walk[x] \in Branch[x] /\ Height[walk[x]] = d}
<1>1. AtHeight(h, d) = walk[h]
  BY DEF AtHeight
<1>2. Genesis \in Stop
  BY HeightAssumption, TreeAssumption
<1>3. \E f : f = [x \in Hash |-> IF x \in Stop THEN V[x] ELSE f[Prev[x]]]
  <2> HIDE DEF Stop, V
  <2> QED
    BY <1>2, WalkExists
<1>4. Eq(walk)
  <2>1. \E f : Eq(f)
    BY <1>3
  <2> HIDE DEF Eq
  <2> QED
    BY <2>1
<1> HIDE DEF walk
<1>5. \A x \in Hash : walk[x] = IF Height[x] <= d THEN x ELSE walk[Prev[x]]
  BY <1>4
<1>6. Genesis \in S
  BY <1>5, BranchType, HeightAssumption, TreeAssumption
<1>7. ASSUME NEW x \in Hash \ {Genesis}, Prev[x] \in S
      PROVE  x \in S
  <2>1. Branch[x] = {x} \cup Branch[Prev[x]] /\ Prev[x] \in Hash
    BY BranchStep, TreeAssumption
  <2>2. Height[x] = Height[Prev[x]] + 1 /\ Height[Prev[x]] \in Nat
    BY <2>1, HeightAssumption
  <2> QED
    BY <1>5, <1>7, <2>1, <2>2
<1>8. Hash \subseteq S
  <2> HIDE DEF S
  <2> QED
    BY <1>6, <1>7, TreeInduction
<1> QED
  BY <1>1, <1>8

(***************************************************************************)
(* The two iterators meet at the highest block that both branches share.   *)
(***************************************************************************)
LEMMA SideBranch ==
  ASSUME NEW hash \in Hash \ {Genesis}, NEW tip \in Hash \ {Genesis}
  PROVE  LET r == GetSideBranch(hash, tip)
         IN  /\ r.ok
             /\ r.side = Descending(Branch[hash] \ Branch[tip])
             /\ r.main = Ascending(Branch[tip] \ Branch[hash])
             /\ r.base \in Branch[hash] \cap Branch[tip]
             /\ Branch[r.base] = Branch[hash] \cap Branch[tip]
<1> DEFINE level == IF Height[hash] < Height[tip] THEN Height[hash] ELSE Height[tip]
           same(d) == AtHeight(hash, d) = AtHeight(tip, d)
           Met(d) == [ok |-> TRUE, side |-> DownTo(hash, d), main |-> Reverse(DownTo(tip, d)),
                      base |-> AtHeight(hash, d)]
           Eq(f) == f = [d \in 0 .. level |->
                           IF same(d) THEN Met(d) ELSE IF d = 0 THEN NoBranches ELSE f[d - 1]]
           down == CHOOSE f : Eq(f)
           D == {Met(d) : d \in 0 .. level}
           G == [d \in 1 .. level |-> [x \in D |-> IF same(d) THEN Met(d) ELSE x]]
<1>1. /\ Height[hash] \in Nat /\ Height[tip] \in Nat /\ Height[hash] >= 1 /\ Height[tip] >= 1
      /\ level \in Nat /\ level <= Height[hash] /\ level <= Height[tip]
  <2>1. /\ Height[hash] = Height[Prev[hash]] + 1 /\ Height[Prev[hash]] \in Nat
        /\ Height[tip] = Height[Prev[tip]] + 1 /\ Height[Prev[tip]] \in Nat
    BY HeightAssumption, TreeAssumption
  <2> QED
    BY <2>1
<1>2. GetSideBranch(hash, tip) = down[level]
  BY <1>1 DEF GetSideBranch
<1> HIDE DEF level
<1>3. ASSUME NEW d \in 0 .. level
      PROVE  /\ AtHeight(hash, d) \in Branch[hash] /\ Height[AtHeight(hash, d)] = d
             /\ AtHeight(tip, d) \in Branch[tip] /\ Height[AtHeight(tip, d)] = d
  BY <1>1, AtHeightFinds
<1>4. ASSUME NEW x \in Branch[hash] \cap Branch[tip]
      PROVE  Height[x] \in 0 .. level /\ AtHeight(hash, Height[x]) = x /\ same(Height[x])
  <2>1. x \in Hash /\ Height[x] \in Nat /\ Height[x] <= Height[hash] /\ Height[x] <= Height[tip]
    BY <1>1, BranchType, BranchLower, HeightAssumption
  <2>2. Height[x] \in 0 .. level
    BY <1>1, <2>1 DEF level
  <2> QED
    BY <1>3, <2>2, BranchHeightsDiffer
<1>5. same(0) /\ 0 \in 0 .. level
  <2>1. Genesis \in Branch[hash] \cap Branch[tip] /\ Height[Genesis] = 0
    BY GenesisOnBranch, HeightAssumption
  <2> QED
    BY <1>4, <2>1
<1>6. Eq(down)
  <2> HIDE DEF same, Met
  <2>1. G \in [1 .. level -> [D -> D]] /\ \A d \in 1 .. level : \A x \in D : G[d][x] = IF same(d) THEN Met(d) ELSE x
    BY <1>1
  <2>2. Met(0) \in D
    BY <1>5
  <2> HIDE DEF D, G
  <2>3. PICK f : Accumulates(f, level, D, Met(0), G)
    BY <1>1, <2>1, <2>2, LoopExists
  <2>4. f \in [0 .. level -> D] /\ f[0] = Met(0) /\ \A d \in 1 .. level : f[d] = G[d][f[d - 1]]
    BY <2>3 DEF Accumulates
  <2>5. ASSUME NEW d \in 1 .. level
        PROVE  f[d] = IF same(d) THEN Met(d) ELSE f[d - 1]
    <3>1. f[d - 1] \in D
      BY <1>1, <2>4
    <3> QED
      BY <2>1, <2>4, <3>1
  <2>6. \A d \in 0 .. level : f[d] = IF same(d) THEN Met(d) ELSE IF d = 0 THEN NoBranches ELSE f[d - 1]
    BY <1>1, <1>5, <2>4, <2>5
  <2>7. Eq(f)
    BY <2>4, <2>6
  <2> HIDE DEF Eq
  <2> QED
    BY <2>7
<1> HIDE DEF down
<1>7. \A d \in 0 .. level : down[d] = IF same(d) THEN Met(d) ELSE IF d = 0 THEN NoBranches ELSE down[d - 1]
  BY <1>6
<1> HIDE DEF same, Met
<1> DEFINE MeetsAt(d, e) == /\ e \in 0 .. d /\ same(e) /\ down[d] = Met(e)
                            /\ \A c \in 0 .. d : same(c) => c <= e
           S == {d \in 0 .. level : \E e \in 0 .. d : MeetsAt(d, e)}
<1>8. 0 \in S
  BY <1>1, <1>5, <1>7
<1>9. ASSUME NEW d \in 1 .. level, d - 1 \in S
      PROVE  d \in S
  <2>1. CASE same(d)
    <3>1. MeetsAt(d, d)
      BY <1>1, <1>7, <2>1
    <3> QED
      BY <1>1, <3>1
  <2>2. CASE ~ same(d)
    <3>1. PICK e \in 0 .. d - 1 : MeetsAt(d - 1, e)
      BY <1>9
    <3>2. MeetsAt(d, e)
      BY <1>1, <1>7, <2>2, <3>1
    <3> QED
      BY <1>1, <3>1, <3>2
  <2> QED
    BY <2>1, <2>2
<1>10. level \in S
  <2> HIDE DEF S
  <2>1. \A d \in 0 .. level : d \in S
    BY <1>1, <1>8, <1>9, NumberInduction
  <2> QED
    BY <1>1, <2>1
<1>11. PICK e \in 0 .. level : same(e) /\ down[level] = Met(e) /\ \A c \in 0 .. level : same(c) => c <= e
  BY <1>10
<1> DEFINE base == AtHeight(hash, e)
<1>12. base \in Branch[hash] \cap Branch[tip] /\ Height[base] = e /\ base \in Hash
  BY <1>3, <1>11, BranchType DEF same
<1>13. Branch[base] = Branch[hash] \cap Branch[tip]
  <2>1. Branch[base] \subseteq Branch[hash] \cap Branch[tip]
    BY <1>12, BranchInside
  <2>2. ASSUME NEW x \in Branch[hash] \cap Branch[tip]
        PROVE  x \in Branch[base]
    BY <1>4, <1>11, <1>12, BranchIsLine
  <2> QED
    BY <2>1, <2>2
<1>14. ASSUME NEW a \in {hash, tip}
       PROVE  {k \in Branch[a] : Height[k] > e} = Branch[a] \ Branch[base]
  <2>1. base \in Branch[a] /\ \A k \in Branch[a] : Height[k] \in Nat /\ k \in Hash
    BY <1>12, BranchType, HeightAssumption
  <2>2. ASSUME NEW k \in Branch[a]
        PROVE  Height[k] > e <=> k \notin Branch[base]
    <3>1. k \in Branch[base] => Height[k] <= e
      BY <1>12, <2>1, BranchLower
    <3>2. Height[k] <= e => k \in Branch[base]
      BY <1>12, <2>1, BranchIsLine
    <3> QED
      BY <1>12, <2>1, <3>1, <3>2
  <2> QED
    BY <2>2
<1>15. /\ DownTo(hash, e) = Descending(Branch[hash] \ Branch[tip])
       /\ DownTo(tip, e) = Descending(Branch[tip] \ Branch[hash])
  <2>1. Branch[hash] \ Branch[base] = Branch[hash] \ Branch[tip] /\ Branch[tip] \ Branch[base] = Branch[tip] \ Branch[hash]
    BY <1>13
  <2> QED
    BY <1>14, <2>1, DownToLists
<1> QED
  BY <1>2, <1>11, <1>12, <1>13, <1>15 DEF Met, Ascending

-----------------------------------------------------------------------------
\* In a state where a query can run the index holds the branch of the top block.
LEMMA ReadableState ==
  ASSUME IInv, Readable
  PROVE  /\ topHash \in blocks /\ blocks \subseteq Hash /\ Closed(blocks)
         /\ IndexOf(chain, topHash)
<1>1. inited /\ ~ Creating
  BY DEF IInv, Readable, CreateInv, TypeOK, Creating
<1> QED
  BY <1>1 DEF IInv, Readable, TypeOK, TreeInv, IdleInv, Compared

(***************************************************************************)
(* Of the copies of a transaction, ChooseHashUnderTip finds the one on the *)
(* branch of the tip, on whatever branch the tip is.                       *)
(***************************************************************************)
THEOREM ChosenUnderTip == Spec => []ChosenIsUnderTip
<1>1. IInv => ChosenIsUnderTip
  <2> SUFFICES ASSUME IInv, Readable, NEW hashes \in Lists, NEW tip \in blocks \cup {NoHash}
               PROVE  LET under  == Range(hashes) \cap Branch[IF tip = NoHash THEN topHash ELSE tip]
                          result == ChooseHashUnderTip(hashes, tip)
                      IN  IF under = {} THEN result = NoHash ELSE result \in under
    BY DEF ChosenIsUnderTip
  <2>1. topHash \in Hash /\ blocks \subseteq Hash /\ IndexOf(chain, topHash)
    BY ReadableState
  <2>2. hashes \in Seq(Hash)
    <3>1. CASE hashes = <<>>
      BY <3>1
    <3>2. CASE \E h \in blocks : hashes = <<h>>
      BY <2>1, <3>2
    <3>3. CASE \E h, k \in blocks : hashes = <<h, k>>
      BY <2>1, <3>3
    <3> QED
      BY <3>1, <3>2, <3>3 DEF Lists
  <2>3. tip # NoHash => Branch[tip] \subseteq blocks
    BY ReadableState, BranchLeast
  <2> QED
    BY <2>1, <2>2, <2>3, ChooseUnderTip
<1> QED
  BY Invariance, <1>1, PTL

(***************************************************************************)
(* Between the blocks of one branch, the main one or another,              *)
(* CheckBlockIsInRange is exact.                                           *)
(***************************************************************************)
THEOREM RangeExact == Spec => []RangeIsExactOnBranch
<1>1. IInv => RangeIsExactOnBranch
  <2>1. ASSUME IInv, Readable, NEW tip \in blocks
        PROVE  tip \in Hash /\ Branch[tip] \subseteq blocks
    BY <2>1, ReadableState, BranchLeast
  <2> QED
    BY <2>1, RangeOnBranch DEF RangeIsExactOnBranch
<1> QED
  BY Invariance, <1>1, PTL

(***************************************************************************)
(* What GetSideBranch tells a node to undo and to do again is exactly the  *)
(* difference of the two branches, and the base is their last common block.*)
(***************************************************************************)
THEOREM SideBranchExact == Spec => []SideBranchIsDifference
<1>1. IInv => SideBranchIsDifference
  BY ReadableState, SideBranch DEF SideBranchIsDifference
<1> QED
  BY Invariance, <1>1, PTL

(***************************************************************************)
(* When AddBlock moves to another branch, Node.AddBlock can ask for the    *)
(* replacement without a panic, and gets the whole new branch.             *)
(***************************************************************************)
THEOREM ReplacementFound == Spec => []ReorgHasReplacement
<1>1. IInv => ReorgHasReplacement
  <2> SUFFICES ASSUME IInv, pc = "walk"
               PROVE  /\ ~ ReplacementPanics(lastHash, block)
                      /\ GetBranchesReplacement(lastHash, block).main
                           = Ascending(Branch[block] \ Branch[lastHash])
    BY DEF ReorgHasReplacement
  <2>1. /\ lastHash \in Hash /\ block \in Hash /\ Height[lastHash] < Height[block]
        /\ lastHash \notin Branch[block]
    BY TreeAssumption DEF IInv, TypeOK, WalkInv, TreeInv, Compared, CreateInv, Creating
  <2>2. lastHash # Genesis /\ block # Genesis
    BY <2>1, GenesisOnBranch, HeightAssumption
  <2> DEFINE r == GetSideBranch(lastHash, block)
  <2>3. /\ r.ok /\ r.main = Ascending(Branch[block] \ Branch[lastHash])
        /\ r.base \in Branch[block]
    BY <2>1, <2>2, SideBranch
  <2> HIDE DEF r
  <2>4. r.base # lastHash
    BY <2>1, <2>3
  <2> QED
    BY <2>3, <2>4 DEF ReplacementPanics, GetBranchesReplacement, r
<1> QED
  BY Invariance, <1>1, PTL

-----------------------------------------------------------------------------
(***************************************************************************)
(* GetNextBlocks, GetFirstBlocks, GetBlocksShortInfo                       *)
(***************************************************************************)

\* N leads from each member of the list s to the next one, and nowhere from the last.
Follows(s, N) ==
  /\ s \in Seq(Hash) /\ s # <<>>
  /\ \A i \in 1 .. Len(s) - 1 : N[s[i]] = s[i + 1]
  /\ N[s[Len(s)]] = NoHash

\* A step of a loop that follows N and keeps what it has met.
LEMMA FirstNStep ==
  ASSUME NEW N, NEW s, Follows(s, N), NEW n \in Nat \ {0}
  PROVE  /\ FirstN(s, 1) = <<s[1]>>
         /\ Last(FirstN(s, n)) \in Hash
         /\ FirstN(s, n + 1) = IF N[Last(FirstN(s, n))] = NoHash THEN FirstN(s, n)
                               ELSE Append(FirstN(s, n), N[Last(FirstN(s, n))])
<1>1. s \in Seq(Hash) /\ Len(s) \in Nat /\ Len(s) >= 1
  BY DEF Follows
<1>2. FirstN(s, 1) = <<s[1]>>
  <2>1. FirstN(s, 1) = SubSeq(s, 1, 1)
    BY <1>1 DEF FirstN
  <2>2. SubSeq(s, 1, 1) \in Seq(Hash) /\ Len(SubSeq(s, 1, 1)) = 1 /\ SubSeq(s, 1, 1)[1] = s[1]
    BY <1>1
  <2> QED
    BY <2>1, <2>2
<1>3. CASE n < Len(s)
  <2>1. FirstN(s, n) = SubSeq(s, 1, n) /\ FirstN(s, n + 1) = SubSeq(s, 1, n + 1)
    BY <1>1, <1>3 DEF FirstN
  <2>2. /\ SubSeq(s, 1, n) \in Seq(Hash) /\ Len(SubSeq(s, 1, n)) = n
        /\ \A i \in 1 .. n : SubSeq(s, 1, n)[i] = s[i]
    BY <1>1, <1>3
  <2>3. /\ SubSeq(s, 1, n + 1) \in Seq(Hash) /\ Len(SubSeq(s, 1, n + 1)) = n + 1
        /\ \A i \in 1 .. n + 1 : SubSeq(s, 1, n + 1)[i] = s[i]
    BY <1>1, <1>3
  <2>4. Last(SubSeq(s, 1, n)) = s[n] /\ s[n] \in Hash /\ s[n + 1] \in Hash
    BY <1>1, <1>3, <2>2 DEF Last
  <2>5. N[s[n]] = s[n + 1] /\ s[n + 1] # NoHash
    BY <1>1, <1>3, <2>4, TreeAssumption DEF Follows
  <2>6. SubSeq(s, 1, n + 1) = Append(SubSeq(s, 1, n), s[n + 1])
    BY <2>2, <2>3, <2>4
  <2> QED
    BY <1>2, <2>1, <2>4, <2>5, <2>6
<1>4. CASE ~ (n < Len(s))
  <2>1. FirstN(s, n) = s /\ FirstN(s, n + 1) = s
    <3>1. SubSeq(s, 1, Len(s)) = s
      BY <1>1
    <3>2. FirstN(s, n) = SubSeq(s, 1, Len(s)) /\ FirstN(s, n + 1) = SubSeq(s, 1, Len(s))
      BY <1>1, <1>4 DEF FirstN
    <3> QED
      BY <3>1, <3>2
  <2>2. Last(s) \in Hash /\ N[Last(s)] = NoHash
    BY <1>1 DEF Last, Follows
  <2> QED
    BY <1>2, <2>1, <2>2
<1> QED
  BY <1>3, <1>4

\* A loop along the next hashes of the index keeps the first max blocks of the list.
LEMMA FollowIndexLists ==
  ASSUME NEW s, Follows(s, [h \in Hash |-> GetLocationInChain(chain, h).next]),
         NEW max \in Nat \ {0}
  PROVE  FollowIndex(s[1], max) = FirstN(s, max)
<1> DEFINE N == [h \in Hash |-> GetLocationInChain(chain, h).next]
           next(list) == GetLocationInChain(chain, Last(list)).next
           After(list) == IF next(list) = NoHash THEN list ELSE Append(list, next(list))
           Eq(f) == f = [n \in 1 .. max |-> IF n = 1 THEN <<s[1]>> ELSE After(f[n - 1])]
           walk == CHOOSE f : Eq(f)
           w == [n \in 1 .. max |-> FirstN(s, n)]
<1>1. FollowIndex(s[1], max) = walk[max]
  BY DEF FollowIndex
<1>2. \A list : Last(list) \in Hash => N[Last(list)] = next(list)
  OBVIOUS
<1>3. Follows(s, N)
  OBVIOUS
<1> HIDE DEF N, next
<1>4. ASSUME NEW n \in 1 .. max
      PROVE  w[n] = IF n = 1 THEN <<s[1]>> ELSE After(w[n - 1])
  <2>1. CASE n = 1
    <3>1. FirstN(s, 1) = <<s[1]>>
      BY <1>3, FirstNStep
    <3> QED
      BY <2>1, <3>1
  <2>2. CASE n # 1
    <3>1. n - 1 \in Nat \ {0} /\ n - 1 \in 1 .. max /\ (n - 1) + 1 = n
      BY <2>2
    <3>2. /\ Last(FirstN(s, n - 1)) \in Hash
          /\ FirstN(s, (n - 1) + 1) = IF N[Last(FirstN(s, n - 1))] = NoHash THEN FirstN(s, n - 1)
                                      ELSE Append(FirstN(s, n - 1), N[Last(FirstN(s, n - 1))])
      BY <1>3, <3>1, FirstNStep
    <3>3. FirstN(s, n) = After(FirstN(s, n - 1))
      BY <1>2, <3>1, <3>2
    <3> HIDE DEF After
    <3> QED
      BY <2>2, <3>1, <3>3
  <2> QED
    BY <2>1, <2>2
<1>5. w[max] = FirstN(s, max)
  OBVIOUS
<1> HIDE DEF After
<1>6. Eq(w)
  <2>1. w = [n \in 1 .. max |-> w[n]]
    OBVIOUS
  <2> HIDE DEF w
  <2> QED
    BY <1>4, <2>1
<1>7. Eq(walk)
  <2> HIDE DEF Eq, w
  <2> QED
    BY <1>6
<1> HIDE DEF walk, w
<1>8. \A n \in 1 .. max : walk[n] = IF n = 1 THEN <<s[1]>> ELSE After(walk[n - 1])
  BY <1>7
<1> DEFINE S == {0} \cup {n \in 1 .. max : walk[n] = w[n]}
<1>9. ASSUME NEW n \in 1 .. max, n - 1 \in S
      PROVE  n \in S
  BY <1>4, <1>8, <1>9
<1>10. \A n \in 0 .. max : n \in S
  <2>1. 0 \in S
    OBVIOUS
  <2> HIDE DEF S
  <2> QED
    BY <1>9, <2>1, NumberInduction
<1>11. walk[max] = w[max]
  BY <1>10
<1> QED
  BY <1>1, <1>5, <1>11

\* A loop along the previous hashes keeps the first max + 1 blocks of the list.
LEMMA ShortInfoLists ==
  ASSUME NEW s, Follows(s, Prev), NEW max \in Nat
  PROVE  GetBlocksShortInfo(s[1], max) = FirstN(s, max + 1)
<1> DEFINE After(list) == IF Prev[Last(list)] = NoHash THEN list ELSE Append(list, Prev[Last(list)])
           Eq(f) == f = [n \in 1 .. max + 1 |->
                           IF n = 1 THEN <<IF s[1] = NoHash THEN topHash ELSE s[1]>> ELSE After(f[n - 1])]
           walk == CHOOSE f : Eq(f)
           w == [n \in 1 .. max + 1 |-> FirstN(s, n)]
<1>1. GetBlocksShortInfo(s[1], max) = walk[max + 1]
  BY DEF GetBlocksShortInfo
<1>2. s[1] # NoHash
  BY TreeAssumption DEF Follows
<1>4. ASSUME NEW n \in 1 .. max + 1
      PROVE  w[n] = IF n = 1 THEN <<s[1]>> ELSE After(w[n - 1])
  <2>1. CASE n = 1
    <3>1. FirstN(s, 1) = <<s[1]>>
      BY FirstNStep
    <3> QED
      BY <2>1, <3>1
  <2>2. CASE n # 1
    <3>1. n - 1 \in Nat \ {0} /\ n - 1 \in 1 .. max + 1 /\ (n - 1) + 1 = n
      BY <2>2
    <3>2. FirstN(s, (n - 1) + 1) = After(FirstN(s, n - 1))
      BY <3>1, FirstNStep
    <3>3. FirstN(s, n) = After(FirstN(s, n - 1))
      BY <3>1, <3>2
    <3> HIDE DEF After
    <3> QED
      BY <2>2, <3>1, <3>3
  <2> QED
    BY <2>1, <2>2
<1>5. w[max + 1] = FirstN(s, max + 1)
  OBVIOUS
<1> HIDE DEF After
<1>6. Eq(w)
  <2>1. w = [n \in 1 .. max + 1 |-> w[n]]
    OBVIOUS
  <2> HIDE DEF w
  <2> QED
    BY <1>2, <1>4, <2>1
<1>7. Eq(walk)
  <2> HIDE DEF Eq, w
  <2> QED
    BY <1>6
<1> HIDE DEF walk, w
<1>8. \A n \in 1 .. max + 1 : walk[n] = IF n = 1 THEN <<s[1]>> ELSE After(walk[n - 1])
  BY <1>2, <1>7
<1> DEFINE S == {0} \cup {n \in 1 .. max + 1 : walk[n] = w[n]}
<1>9. ASSUME NEW n \in 1 .. max + 1, n - 1 \in S
      PROVE  n \in S
  BY <1>4, <1>8, <1>9
<1>10. \A n \in 0 .. max + 1 : n \in S
  <2>1. 0 \in S /\ max + 1 \in Nat
    OBVIOUS
  <2> HIDE DEF S
  <2> QED
    BY <1>9, <2>1, NumberInduction
<1>11. walk[max + 1] = w[max + 1]
  BY <1>10
<1> QED
  BY <1>1, <1>5, <1>11

\* d lists, from the top down, a block of the branch of t for each height from that of t to m.
ByHeight(d, t, m) ==
  /\ d \in Seq(Branch[t])
  /\ Len(d) = (Height[t] - m) + 1
  /\ \A i \in 1 .. Len(d) : Height[d[i]] = (Height[t] - i) + 1

\* The blocks of a branch from a height on are one for each height.
LEMMA DescendingByHeight ==
  ASSUME NEW t \in Hash, NEW m \in Nat, m <= Height[t]
  PROVE  ByHeight(Descending({k \in Branch[t] : Height[k] >= m}), t, m)
<1> DEFINE Above(h) == {k \in Branch[h] : Height[k] >= m}
           S == {h \in Hash : m <= Height[h] => ByHeight(Descending(Above(h)), h, m)}
<1>1. ASSUME NEW h \in Hash, Above(h) = {h}, Height[h] = m
      PROVE  ByHeight(Descending(Above(h)), h, m)
  <2>1. h \in Branch[h] /\ {} \in SUBSET Branch[h] /\ {} \cup {h} = {h}
    BY BranchType
  <2>2. Descending({} \cup {h}) = <<h>> \o Descending({})
    BY <2>1, DescendingCons
  <2>3. <<h>> \o <<>> = <<h>>
    OBVIOUS
  <2> HIDE DEF Above
  <2>4. Descending(Above(h)) = <<h>>
    BY <1>1, <2>1, <2>2, <2>3, DescendingNone
  <2>8. <<h>> \in Seq(Branch[h])
    <3>1. ASSUME NEW B, h \in B
          PROVE  <<h>> \in Seq(B)
      BY <3>1
    <3> QED
      BY <2>1, <3>1
  <2>5. <<h>> \in Seq(Branch[h]) /\ Len(<<h>>) = 1 /\ <<h>>[1] = h
    BY <2>8
  <2>7. Height[h] = m /\ (m - m) + 1 = 1 /\ (m - 1) + 1 = m
    BY <1>1
  <2>6. ByHeight(<<h>>, h, m)
    BY <2>5, <2>7 DEF ByHeight
  <2> QED
    BY <2>4, <2>6
<1>2. Genesis \in S
  <2>1. Genesis \in Hash /\ Height[Genesis] = 0
    BY HeightAssumption, TreeAssumption
  <2>2. ASSUME m <= Height[Genesis]
        PROVE  ByHeight(Descending(Above(Genesis)), Genesis, m)
    <3>1. m = 0 /\ Above(Genesis) = {Genesis}
      BY <2>1, <2>2, BranchGenesis
    <3> HIDE DEF Above
    <3> QED
      BY <1>1, <2>1, <3>1
  <2> HIDE DEF Above
  <2> QED
    BY <2>1, <2>2
<1>3. ASSUME NEW h \in Hash \ {Genesis}, Prev[h] \in S
      PROVE  h \in S
  <2>1. /\ h \in Hash /\ Prev[h] \in Hash
        /\ Branch[h] = {h} \cup Branch[Prev[h]] /\ h \notin Branch[Prev[h]]
        /\ Height[h] = Height[Prev[h]] + 1 /\ Height[Prev[h]] \in Nat
    BY BranchStep, NotBelowItself, TreeAssumption, HeightAssumption
  <2>2. ASSUME Height[h] = m
        PROVE  ByHeight(Descending(Above(h)), h, m)
    <3>1. \A k \in Branch[Prev[h]] : Height[k] \in Nat /\ Height[k] <= Height[Prev[h]]
      <4>1. \A k \in Branch[Prev[h]] : Height[k] \in Nat /\ (k # Prev[h] => Height[k] < Height[Prev[h]])
        BY <2>1, BranchType, BranchLower, HeightAssumption
      <4> QED
        BY <2>1, <4>1
    <3>2. Above(h) = {h}
      BY <2>1, <2>2, <3>1
    <3> HIDE DEF Above
    <3> QED
      BY <1>1, <2>2, <3>2
  <2>3. ASSUME m < Height[h]
        PROVE  ByHeight(Descending(Above(h)), h, m)
    <3> DEFINE d == Descending(Above(Prev[h]))
    <3>1. ByHeight(d, Prev[h], m)
      <4> HIDE DEF Above
      <4>1. m <= Height[Prev[h]]
        BY <2>1, <2>3
      <4> QED
        BY <1>3, <4>1
    <3>2. Above(h) = Above(Prev[h]) \cup {h} /\ Above(Prev[h]) \in SUBSET Branch[h] /\ h \notin Above(Prev[h])
      BY <2>1, <2>3
    <3> HIDE DEF Above
    <3>3. Descending(Above(h)) = <<h>> \o d
      BY <2>1, <3>2, DescendingCons
    <3> HIDE DEF d
    <3>4. d \in Seq(Branch[h]) /\ Len(d) = (Height[Prev[h]] - m) + 1 /\ <<h>> \in Seq(Branch[h])
      BY <2>1, <3>1 DEF ByHeight
    <3>5. <<h>> \o d \in Seq(Branch[h]) /\ Len(<<h>> \o d) = (Height[h] - m) + 1
      BY <2>1, <3>4
    <3>6. ASSUME NEW i \in 1 .. Len(<<h>> \o d)
          PROVE  Height[(<<h>> \o d)[i]] = (Height[h] - i) + 1
      <4>1. CASE i = 1
        BY <2>1, <3>4, <4>1
      <4>2. CASE i # 1
        <5>1. i - 1 \in 1 .. Len(d) /\ (<<h>> \o d)[i] = d[i - 1]
          BY <3>4, <4>2
        <5>2. Height[d[i - 1]] = (Height[Prev[h]] - (i - 1)) + 1
          BY <3>1, <5>1 DEF ByHeight
        <5> QED
          BY <2>1, <5>1, <5>2
      <4> QED
        BY <4>1, <4>2
    <3> QED
      BY <3>3, <3>5, <3>6 DEF ByHeight
  <2> HIDE DEF Above
  <2> QED
    BY <2>1, <2>2, <2>3
<1>4. Hash \subseteq S
  <2> HIDE DEF S
  <2> QED
    BY <1>2, <1>3, TreeInduction
<1>5. ByHeight(Descending(Above(t)), t, m)
  <2> HIDE DEF Above
  <2> QED
    BY <1>4
<1> QED
  BY <1>5

\* GetBlockAtHeight finds the block of the main branch that has the height.
LEMMA BlockAtHeightFinds ==
  ASSUME topHash \in Hash, NEW d \in Nat, d <= Height[topHash]
  PROVE  GetBlockAtHeight(d) \in Branch[topHash] /\ Height[GetBlockAtHeight(d)] = d
<1> DEFINE Stop == {x \in Hash : Height[x] <= d \/ x = Genesis}
           V == [x \in Hash |-> IF Height[x] = d THEN x ELSE NoHash]
           Yield(x, below) == IF Height[x] = d THEN x
                              ELSE IF Height[x] < d \/ Prev[x] = NoHash THEN NoHash
                              ELSE below
           Eq(f) == f = [x \in Hash |-> Yield(x, f[Prev[x]])]
           walk == CHOOSE f : Eq(f)
           S == {x \in Hash : d <= Height[x] => walk[x] \in Branch[x] /\ Height[walk[x]] = d}
<1>1. GetBlockAtHeight(d) = walk[topHash]
  BY DEF GetBlockAtHeight
<1>2. Genesis \in Stop
  BY TreeAssumption
<1>3. \E f : f = [x \in Hash |-> IF x \in Stop THEN V[x] ELSE f[Prev[x]]]
  <2> HIDE DEF Stop, V
  <2> QED
    BY <1>2, WalkExists
<1>4. Eq(walk)
  <2>1. PICK f : f = [x \in Hash |-> IF x \in Stop THEN V[x] ELSE f[Prev[x]]]
    BY <1>3
  <2>2. ASSUME NEW x \in Hash
        PROVE  f[x] = Yield(x, f[Prev[x]])
    <3>1. f[x] = IF x \in Stop THEN V[x] ELSE f[Prev[x]]
      BY <2>1
    <3>2. Prev[x] = NoHash <=> x = Genesis
      BY TreeAssumption
    <3>3. Height[x] \in Nat
      BY HeightAssumption
    <3> QED
      BY <3>1, <3>2, <3>3
  <2>3. f = [x \in Hash |-> f[x]]
    <3> HIDE DEF Stop, V
    <3> QED
      BY <2>1
  <2>4. Eq(f)
    <3> HIDE DEF Stop, V, Yield
    <3> QED
      BY <2>2, <2>3
  <2> HIDE DEF Eq
  <2> QED
    BY <2>4
<1> HIDE DEF walk
<1>5. \A x \in Hash : walk[x] = Yield(x, walk[Prev[x]])
  <2> HIDE DEF Yield
  <2> QED
    BY <1>4
<1>6. Genesis \in S
  <2>1. d <= Height[Genesis] => walk[Genesis] = Genesis /\ Height[Genesis] = d
    BY <1>5, HeightAssumption, TreeAssumption
  <2> QED
    BY <2>1, BranchType, TreeAssumption
<1>7. ASSUME NEW x \in Hash \ {Genesis}, Prev[x] \in S
      PROVE  x \in S
  <2>1. Branch[x] = {x} \cup Branch[Prev[x]] /\ Prev[x] \in Hash /\ Prev[x] # NoHash
    BY BranchStep, TreeAssumption
  <2>2. Height[x] = Height[Prev[x]] + 1 /\ Height[Prev[x]] \in Nat
    BY <2>1, HeightAssumption
  <2> QED
    BY <1>5, <1>7, <2>1, <2>2
<1>8. Hash \subseteq S
  <2> HIDE DEF S
  <2> QED
    BY <1>6, <1>7, TreeInduction
<1> QED
  BY <1>1, <1>8

\* The index leads through the main branch, upwards from any of its blocks.
LEMMA IndexFollows ==
  ASSUME NEW t \in Hash, IndexOf(chain, t), NEW h \in Branch[t]
  PROVE  LET after == Ascending({k \in Branch[t] : Height[k] >= Height[h]})
         IN  /\ after[1] = h
             /\ Follows(after, [x \in Hash |-> GetLocationInChain(chain, x).next])
             /\ after \in Seq(Branch[t])
             /\ Len(after) = (Height[t] - Height[h]) + 1
             /\ \A i \in 1 .. Len(after) : Height[after[i]] = (Height[h] + i) - 1
<1> DEFINE m == Height[h]
           d == Descending({k \in Branch[t] : Height[k] >= m})
           n == Len(d)
           after == Reverse(d)
           N == [x \in Hash |-> GetLocationInChain(chain, x).next]
<1>1. /\ h \in Hash /\ m \in Nat /\ Height[t] \in Nat /\ m <= Height[t]
      /\ Branch[t] \subseteq Hash /\ t \in Branch[t]
  <2>1. h \in Hash /\ Branch[t] \subseteq Hash /\ t \in Branch[t] /\ (h # t => Height[h] < Height[t])
    BY BranchType, BranchLower
  <2>2. m \in Nat /\ Height[t] \in Nat
    BY <2>1, HeightAssumption
  <2> QED
    BY <2>1, <2>2
<1>2. ByHeight(d, t, m)
  BY <1>1, DescendingByHeight
<1>3. Ascending({k \in Branch[t] : Height[k] >= Height[h]}) = after
  BY DEF Ascending
<1> HIDE DEF m, d
<1>4. d \in Seq(Branch[t]) /\ n = (Height[t] - m) + 1 /\ n \in Nat /\ n >= 1
  BY <1>1, <1>2 DEF ByHeight
<1>5. /\ after \in Seq(Branch[t]) /\ Len(after) = n
      /\ \A i \in 1 .. n : after[i] = d[(n - i) + 1] /\ after[i] \in Branch[t] /\ after[i] \in Hash
  <2>1. after = [i \in 1 .. n |-> d[(n - i) + 1]] /\ d \in [1 .. n -> Branch[t]]
    BY <1>4 DEF Reverse
  <2> HIDE DEF n, after
  <2>2. \A i \in 1 .. n : (n - i) + 1 \in 1 .. n
    BY <1>4
  <2>3. after \in [1 .. n -> Branch[t]]
    BY <2>1, <2>2
  <2>4. after \in Seq(Branch[t]) /\ Len(after) = n
    BY <1>4, <2>3
  <2>5. \A i \in 1 .. n : after[i] = d[(n - i) + 1]
    BY <2>1, <2>2
  <2> QED
    BY <1>1, <2>3, <2>4, <2>5
<1>6. ASSUME NEW i \in 1 .. n
      PROVE  Height[after[i]] = (m + i) - 1
  <2>1. (n - i) + 1 \in 1 .. n
    BY <1>4
  <2>2. Height[d[(n - i) + 1]] = (Height[t] - ((n - i) + 1)) + 1
    BY <1>2, <2>1 DEF ByHeight
  <2> HIDE DEF n, after
  <2>3. after[i] = d[(n - i) + 1]
    BY <1>5
  <2>4. (Height[t] - ((n - i) + 1)) + 1 = (m + i) - 1
    <3> DEFINE top == Height[t]
    <3>1. top \in Nat /\ m \in Nat /\ n \in Nat /\ i \in Nat /\ n = (top - m) + 1
      BY <1>1, <1>4
    <3> HIDE DEF top
    <3>2. (top - ((n - i) + 1)) + 1 = (m + i) - 1
      BY <3>1
    <3> QED
      BY <3>2 DEF top
  <2> QED
    BY <2>2, <2>3, <2>4
<1> HIDE DEF n, after
<1>7. after[1] = h
  <2>1. after[1] \in Branch[t] /\ Height[after[1]] = Height[h]
    BY <1>1, <1>4, <1>5, <1>6 DEF m
  <2> QED
    BY <2>1, BranchHeightsDiffer
<1>8. ASSUME NEW x \in Branch[t]
      PROVE  N[x] = chain[x].next
  BY <1>1 DEF GetLocationInChain, IndexOf
<1> HIDE DEF N
<1>9. ASSUME NEW i \in 1 .. n - 1
      PROVE  N[after[i]] = after[i + 1]
  <2> DEFINE c == after[i + 1]
  <2>1. i \in 1 .. n /\ i + 1 \in 1 .. n
    BY <1>4
  <2>2. c \in Branch[t] /\ c \in Hash /\ Height[c] = (m + (i + 1)) - 1
    BY <1>5, <1>6, <2>1
  <2>3. c # Genesis
    BY <1>1, <2>2, HeightAssumption
  <2>4. Prev[c] \in Branch[t] /\ Height[c] = Height[Prev[c]] + 1 /\ Height[Prev[c]] \in Nat
    <3>1. Prev[c] \in Branch[t]
      BY <2>2, <2>3, BranchClosed DEF Closed
    <3> QED
      BY <1>1, <2>2, <2>3, <3>1, HeightAssumption
  <2>5. after[i] \in Branch[t] /\ Height[after[i]] = (m + i) - 1
    BY <1>5, <1>6, <2>1
  <2> HIDE DEF c
  <2>8. Height[after[i]] = Height[Prev[c]]
    BY <1>1, <2>1, <2>2, <2>4, <2>5
  <2>6. after[i] = Prev[c]
    BY <2>4, <2>5, <2>8, BranchHeightsDiffer
  <2>7. chain[Prev[c]].next = c
    BY <2>2, <2>3 DEF IndexOf
  <2> QED
    BY <1>8, <2>4, <2>6, <2>7 DEF c
<1>10. N[after[n]] = NoHash
  <2>3. n \in 1 .. n /\ (m + n) - 1 = Height[t]
    BY <1>1, <1>4
  <2>1. after[n] \in Branch[t] /\ Height[after[n]] = Height[t]
    BY <1>5, <1>6, <2>3
  <2>2. after[n] = t
    BY <1>1, <2>1, BranchHeightsDiffer
  <2> QED
    BY <1>1, <1>8, <2>2 DEF IndexOf
<1>11. Follows(after, N)
  <2>2. after \in [1 .. n -> Branch[t]]
    BY <1>5
  <2>3. after \in [1 .. n -> Hash]
    BY <1>1, <2>2
  <2>4. after # <<>>
    BY <1>4, <1>5
  <2>1. after \in Seq(Hash) /\ after # <<>>
    BY <1>4, <2>3, <2>4
  <2> QED
    BY <1>5, <1>9, <1>10, <2>1 DEF Follows
<1> QED
  BY <1>3, <1>4, <1>5, <1>6, <1>7, <1>11 DEF N, m

\* The previous hashes lead through a branch, downwards from its last block.
LEMMA PrevFollows ==
  ASSUME NEW t \in Hash
  PROVE  Descending(Branch[t])[1] = t /\ Follows(Descending(Branch[t]), Prev)
<1> DEFINE d == Descending(Branch[t])
<1>1. Branch[t] \subseteq Hash /\ t \in Branch[t] /\ Height[t] \in Nat
  BY BranchType, HeightAssumption
<1>2. {k \in Branch[t] : Height[k] >= 0} = Branch[t]
  BY <1>1, HeightAssumption
<1>3. ByHeight(d, t, 0)
  BY <1>1, <1>2, DescendingByHeight
<1> HIDE DEF d
<1>4. /\ d \in Seq(Branch[t]) /\ Len(d) = Height[t] + 1
      /\ \A i \in 1 .. Len(d) : d[i] \in Branch[t] /\ d[i] \in Hash /\ Height[d[i]] = (Height[t] - i) + 1
  BY <1>1, <1>3 DEF ByHeight
<1>5. d[1] = t
  <2>1. d[1] \in Branch[t] /\ Height[d[1]] = Height[t]
    BY <1>1, <1>4
  <2> QED
    BY <1>1, <2>1, BranchHeightsDiffer
<1>6. ASSUME NEW i \in 1 .. Len(d) - 1
      PROVE  Prev[d[i]] = d[i + 1]
  <2>1. i \in 1 .. Len(d) /\ i + 1 \in 1 .. Len(d)
    BY <1>1, <1>4
  <2>2. /\ d[i] \in Branch[t] /\ d[i] \in Hash /\ Height[d[i]] = (Height[t] - i) + 1
        /\ d[i + 1] \in Branch[t] /\ Height[d[i + 1]] = (Height[t] - (i + 1)) + 1
    BY <1>4, <2>1
  <2>3. d[i] # Genesis
    BY <1>1, <1>4, <2>2, HeightAssumption
  <2>4. Prev[d[i]] \in Branch[t]
    BY <2>2, <2>3, BranchClosed DEF Closed
  <2>5. Height[d[i]] = Height[Prev[d[i]]] + 1 /\ Height[Prev[d[i]]] \in Nat
    BY <1>1, <2>2, <2>3, <2>4, HeightAssumption
  <2>6. Height[Prev[d[i]]] = Height[d[i + 1]]
    <3>1. ASSUME NEW a \in Nat, NEW b \in Nat, NEW j \in Nat, b + 1 = (a - j) + 1
          PROVE  b = (a - (j + 1)) + 1
      BY <3>1
    <3>2. i \in Nat
      BY <1>1, <1>4, <2>1
    <3> DEFINE below == Height[Prev[d[i]]]
               top == Height[t]
    <3>3. below \in Nat /\ top \in Nat /\ below + 1 = (top - i) + 1
      BY <1>1, <2>2, <2>5
    <3>4. Height[d[i + 1]] = (top - (i + 1)) + 1
      BY <2>2
    <3> HIDE DEF below, top
    <3>5. below = (top - (i + 1)) + 1
      BY <3>1, <3>2, <3>3
    <3> QED
      BY <3>4, <3>5 DEF below
  <2> QED
    BY <2>2, <2>4, <2>6, BranchHeightsDiffer
<1>7. Prev[d[Len(d)]] = NoHash
  <2>1. d[Len(d)] \in Hash /\ Height[d[Len(d)]] = 0
    BY <1>1, <1>4
  <2>2. d[Len(d)] = Genesis
    <3> SUFFICES ASSUME d[Len(d)] # Genesis
                 PROVE  FALSE
      OBVIOUS
    <3>1. Prev[d[Len(d)]] \in Hash /\ Height[d[Len(d)]] = Height[Prev[d[Len(d)]]] + 1
      BY <2>1, TreeAssumption, HeightAssumption
    <3>2. Height[Prev[d[Len(d)]]] \in Nat
      BY <3>1, HeightAssumption
    <3> QED
      BY <2>1, <3>1, <3>2
  <2> QED
    BY <2>2, TreeAssumption
<1>8. d \in Seq(Hash) /\ d # <<>>
  BY <1>1, <1>4
<1>9. Follows(d, Prev)
  BY <1>6, <1>7, <1>8 DEF Follows
<1> QED
  BY <1>5, <1>9 DEF d

\* The record of the first hash is written once, during creation.
LEMMA FirstHashStays == Spec => []FirstInv
<1>1. Init => FirstInv
  BY DEF Init, FirstInv
<1>2. FirstInv /\ [Next]_vars => FirstInv'
  <2> SUFFICES ASSUME FirstInv, [Next]_vars
               PROVE  FirstInv'
    OBVIOUS
  <2>1. CASE Create
    BY <2>1 DEF FirstInv, Create, InitDatabase, PutGenesis, SaveGenesisTop, SaveFirstHash,
                AddGenesisToChain, StartNode, Return, database
  <2>2. CASE AddBlock
    <3>1. inited' = inited /\ firstHash' = firstHash
      BY <2>2 DEF AddBlock, AddBlockExists, AddBlockNoPrev, AddBlockPut, AddBlockNoTop,
                  AddBlockParallel, AddBlockSaveTop, AddBlockToChain, UpdateChainOnNewBranch,
                  WalkMissing, WalkNewBlock, WalkFound, RemoveOld, RemoveError, RemoveDone,
                  AddNew, AddDone, database
    <3>2. pc \notin {"genesisPut", "genesisTop", "genesisFirst"}
      BY <2>2 DEF AddBlock, AddBlockExists, AddBlockNoPrev, AddBlockPut, AddBlockNoTop,
                  AddBlockParallel, AddBlockSaveTop, AddBlockToChain, UpdateChainOnNewBranch,
                  WalkMissing, WalkNewBlock, WalkFound, RemoveOld, RemoveError, RemoveDone,
                  AddNew, AddDone
    <3> QED
      BY <3>1, <3>2 DEF FirstInv
  <2>3. CASE UNCHANGED vars
    BY <2>3 DEF FirstInv, vars, database
  <2> QED
    BY <2>1, <2>2, <2>3 DEF Next
<1> QED
  BY <1>1, <1>2, PTL DEF Spec

(***************************************************************************)
(* GetNextBlocks and GetFirstBlocks return the main chain from the block   *)
(* asked for, no gap and no block of another branch, and                   *)
(* GetBlocksShortInfo the branch of any stored block, down from it.        *)
(***************************************************************************)
THEOREM NextBlocksExact == Spec => []NextBlocksAreMainChain
<1>1. IInv /\ FirstInv => NextBlocksAreMainChain
  <2> SUFFICES ASSUME IInv, FirstInv, Readable
               PROVE  NextBlocksAreMainChain
    BY DEF NextBlocksAreMainChain
  <2>1. /\ topHash \in Hash /\ blocks \subseteq Hash /\ IndexOf(chain, topHash)
        /\ Branch[topHash] \subseteq blocks
    <3>1. /\ topHash \in blocks /\ blocks \subseteq Hash /\ Closed(blocks)
          /\ IndexOf(chain, topHash)
      BY ReadableState
    <3> QED
      BY <3>1, BranchLeast
  <2>2. firstHash = Genesis /\ Genesis \in Branch[topHash]
    BY <2>1, GenesisOnBranch DEF FirstInv, Readable, IInv, CreateInv
  <2>3. DOMAIN chain = Branch[topHash]
    BY <2>1 DEF IndexOf
  <2> DEFINE After(h) == Ascending({k \in Branch[topHash] : Height[k] >= Height[h]})
  <2>4. ASSUME NEW h \in Branch[topHash], NEW n \in Nat \ {0}
        PROVE  FollowIndex(h, n) = FirstN(After(h), n)
    <3>1. After(h)[1] = h /\ Follows(After(h), [x \in Hash |-> GetLocationInChain(chain, x).next])
      BY <2>1, IndexFollows
    <3> HIDE DEF After
    <3>2. FollowIndex(After(h)[1], n) = FirstN(After(h), n)
      BY <3>1, FollowIndexLists
    <3> QED
      BY <3>1, <3>2
  <2>5. ASSUME NEW h \in DOMAIN chain
        PROVE  GetBlocksAfter(h) = FirstN(After(h), MaxCount)
    <3>1. h \in blocks /\ h \in Branch[topHash]
      BY <2>1, <2>3
    <3> HIDE DEF After
    <3> QED
      BY <2>4, <3>1, MaxCountAssumption DEF GetBlocksAfter, GetNextBlocks
  <2>6. ASSUME NEW n \in 1 .. MaxCount, NEW i \in DOMAIN GetFirstBlocks(n)
        PROVE  GetFirstBlocks(n)[i] = GetBlockAtHeight(i - 1)
    <3> DEFINE after == After(Genesis)
               list == FirstN(after, n)
    <3>1. n \in Nat \ {0}
      BY MaxCountAssumption
    <3>2. GetFirstBlocks(n) = list
      <4> HIDE DEF After
      <4> QED
        BY <2>2, <2>4, <3>1 DEF GetFirstBlocks
    <3>3. /\ after \in Seq(Branch[topHash])
          /\ Len(after) = (Height[topHash] - Height[Genesis]) + 1
          /\ \A j \in 1 .. Len(after) : Height[after[j]] = (Height[Genesis] + j) - 1
      BY <2>1, <2>2, IndexFollows
    <3>4. Height[Genesis] = 0 /\ Height[topHash] \in Nat
      BY <2>1, HeightAssumption
    <3> HIDE DEF after, After
    <3>5. i \in 1 .. Len(after) /\ list[i] = after[i]
      <4>1. Len(after) \in Nat
        BY <3>3
      <4> DEFINE k == IF Len(after) < n THEN Len(after) ELSE n
      <4>2. k \in 0 .. Len(after) /\ list = SubSeq(after, 1, k)
        BY <3>1, <4>1 DEF FirstN
      <4> HIDE DEF k, list
      <4>3. Len(list) = k /\ DOMAIN list = 1 .. k /\ \A j \in 1 .. k : list[j] = after[j]
        BY <3>3, <4>2
      <4>4. i \in 1 .. k
        BY <3>2, <4>3
      <4> QED
        BY <4>1, <4>2, <4>3, <4>4
    <3>6. after[i] \in Branch[topHash]
      BY <3>3, <3>5
    <3>7. Height[after[i]] = i - 1 /\ i - 1 \in Nat /\ i - 1 <= Height[topHash]
      <4>1. Height[after[i]] = (0 + i) - 1
        BY <3>3, <3>4, <3>5
      <4>2. Len(after) = Height[topHash] + 1
        BY <3>3, <3>4
      <4> QED
        BY <3>4, <3>5, <4>1, <4>2
    <3>8. GetBlockAtHeight(i - 1) \in Branch[topHash] /\ Height[GetBlockAtHeight(i - 1)] = i - 1
      BY <2>1, <3>7, BlockAtHeightFinds
    <3>9. after[i] = GetBlockAtHeight(i - 1)
      BY <2>1, <3>6, <3>7, <3>8, BranchHeightsDiffer
    <3> HIDE DEF list
    <3> QED
      BY <3>2, <3>5, <3>9
  <2>7. ASSUME NEW n \in 1 .. MaxCount, NEW h \in blocks
        PROVE  GetBlocksShortInfo(h, n) = FirstN(Descending(Branch[h]), n + 1)
    <3>1. h \in Hash /\ n \in Nat
      BY <2>1, MaxCountAssumption
    <3>2. Descending(Branch[h])[1] = h /\ Follows(Descending(Branch[h]), Prev)
      BY <3>1, PrevFollows
    <3>3. GetBlocksShortInfo(Descending(Branch[h])[1], n) = FirstN(Descending(Branch[h]), n + 1)
      BY <3>1, <3>2, ShortInfoLists
    <3> QED
      BY <3>2, <3>3
  <2> QED
    BY <2>5, <2>6, <2>7 DEF NextBlocksAreMainChain
<1> QED
  BY Invariance, FirstHashStays, <1>1, PTL
=============================================================================
