---------------------------- MODULE BlockQueries ----------------------------
(***************************************************************************)
(* The read operations of the block store (node/blockchain/manager.go,     *)
(* second half), as operators on the state of Blockchain.  None of them    *)
(* changes the database; the caller holds the lock, so each is evaluated   *)
(* in one state.  A loop over BlockchainIterator.Next is a function that   *)
(* is recursive along Prev.                                                *)
(***************************************************************************)
EXTENDS Blockchain

CONSTANT MaxCount   \* maxcount of GetNextBlocks (1000) and GetFirstBlocks

ASSUME MaxCountAssumption == MaxCount \in Nat \ {0}

\* A hash of the list for which the test is true: the first one.
FirstOf(list, Test(_)) ==
  LET hits == {i \in DOMAIN list : Test(list[i])}
  IN  IF hits = {} THEN NoHash ELSE list[Min(hits)]

InMain(h) == BlockInChain(chain, h)

\* Blocks of a branch as a list, from the top down and from the base up.
Descending(S) ==
  CHOOSE s \in [1 .. Cardinality(S) -> S] :
    Range(s) = S /\ \A i, j \in DOMAIN s : i < j => Height[s[i]] > Height[s[j]]

Ascending(S) == Reverse(Descending(S))

-----------------------------------------------------------------------------
(***************************************************************************)
(* ChooseHashUnderTip(blockHashes, topHash): NoHash stands for nil.        *)
(***************************************************************************)

\* topBlock: the tip, or the first block below it that is in the main chain.
\* The walk ends earlier at a requested block, and with an error (NoHash) at
\* a block that is not stored.
WalkToMain(hashes, tip) ==
  LET walk[h \in Hash] ==
        IF h \notin blocks THEN NoHash
        ELSE IF h \in Range(hashes) \/ InMain(h) \/ Prev[h] = NoHash THEN h
        ELSE walk[Prev[h]]
  IN  walk[tip]

LowerInMain_unbounded(hashes, top) == FirstOf(hashes, InMain)

LowerInMain(hashes, top) ==
  FirstOf(hashes, LAMBDA h : InMain(h) /\ Height[h] < Height[top])

\* It returns an error instead when a block on the way down is missing.
ChooseHashFails(hashes, tip) ==
  /\ hashes # <<>>
  /\ tip # NoHash /\ tip \notin Range(hashes)
  /\ WalkToMain(hashes, tip) = NoHash

ChooseHashUnderTip(hashes, tip) ==
  IF hashes = <<>> THEN NoHash
  ELSE IF tip = NoHash THEN FirstOf(hashes, InMain)
  ELSE IF tip \in Range(hashes) THEN tip
  ELSE LET top == WalkToMain(hashes, tip)
       IN  IF top \in Range(hashes) THEN top
           ELSE IF InMain(top) THEN LowerInMain(hashes, top)
           ELSE NoHash

HeightInRange_noBottom(b, bottom, top) == Height[b] <= Height[top]

(***************************************************************************)
(* CheckBlockIsInRange(blockHash, bottomHash, topHash).  An empty topHash  *)
(* stands for the top of the main chain.  On a side branch the walk ends   *)
(* at the block, at the bottom, or in the main chain, where the heights    *)
(* are compared.  A block that is walked over, or whose height is asked    *)
(* for, and that is not stored, is an error.                               *)
(***************************************************************************)
HeightInRange(b, bottom, top) == Height[b] >= Height[bottom] /\ Height[b] <= Height[top]

CompareHeights(b, bottom, top) ==
  IF ~ {top, bottom, b} \subseteq blocks THEN "error"
  ELSE IF HeightInRange(b, bottom, top) THEN "inside" ELSE "outside"

PlaceOfBlock(b, bottom, tip) ==
  LET walk[h \in Hash] ==
        IF h \notin blocks THEN "error"
        ELSE IF b = h THEN "inside"
        ELSE IF bottom = h THEN "outside"
        ELSE IF InMain(h) THEN CompareHeights(b, bottom, h)
        ELSE IF Prev[h] = NoHash THEN "outside"
        ELSE walk[Prev[h]]
  IN  IF tip = NoHash THEN CompareHeights(b, bottom, topHash)
      ELSE IF InMain(tip) THEN CompareHeights(b, bottom, tip)
      ELSE walk[tip]

CheckBlockIsInRange(b, bottom, tip) == PlaceOfBlock(b, bottom, tip) = "inside"

CheckBlockFails(b, bottom, tip) == PlaceOfBlock(b, bottom, tip) = "error"

-----------------------------------------------------------------------------
(***************************************************************************)
(* GetSideBranch(hash, currentTip): the blocks of the side branch from the *)
(* top down, those of the other branch from the base up, and the base.     *)
(***************************************************************************)

\* The iterator from h, as long as the height is not the given one.
DownTo_withBase(h, height) ==
  LET walk[x \in Hash] == IF Height[x] <= height THEN <<x>> ELSE <<x>> \o walk[Prev[x]]
  IN  walk[h]

DownTo(h, height) ==
  LET walk[x \in Hash] == IF Height[x] <= height THEN <<>> ELSE <<x>> \o walk[Prev[x]]
  IN  walk[h]

\* The block where that iterator stops.
AtHeight(h, height) ==
  LET walk[x \in Hash] == IF Height[x] <= height THEN x ELSE walk[Prev[x]]
  IN  walk[h]

NoBranches == [ok |-> FALSE, side |-> <<>>, main |-> <<>>, base |-> NoHash]

GetSideBranch(hash, tip) ==
  LET level == IF Height[hash] < Height[tip] THEN Height[hash] ELSE Height[tip]
      \* the two iterators side by side, at height d of both branches
      down[d \in 0 .. level] ==
        LET s == AtHeight(hash, d)
            t == AtHeight(tip, d)
        IN  IF s = t
            THEN [ok   |-> TRUE,
                  side |-> DownTo(hash, d),
                  main |-> Reverse(DownTo(tip, d)),
                  base |-> s]
            ELSE IF d = 0 THEN NoBranches ELSE down[d - 1]
  IN  IF Height[hash] < 1 \/ Height[tip] < 1
      THEN NoBranches    \* "Can not do this for genesis block"
      ELSE down[level]

(***************************************************************************)
(* GetBranchesReplacement(sideBranchHash, tip).  It logs BCBlock.Hash      *)
(* before it looks at the error: with an error the process panics.         *)
(***************************************************************************)
ReplacementPanics(hash, tip) == ~ GetSideBranch(hash, tip).ok

GetBranchesReplacement(hash, tip) ==
  LET r == GetSideBranch(hash, tip)
  IN  IF r.base = hash THEN [main |-> <<>>, side |-> <<>>]
                       ELSE [main |-> r.main, side |-> r.side]

-----------------------------------------------------------------------------
\* The loop of GetNextBlocks and GetFirstBlocks: at most max blocks.
FollowIndex(start, max) ==
  LET walk[n \in 1 .. max] ==
        IF n = 1 THEN <<start>>
        ELSE LET list == walk[n - 1]
                 next == GetLocationInChain(chain, Last(list)).next
             IN  IF next = NoHash THEN list ELSE Append(list, next)
  IN  walk[max]

\* GetBlock fails for a hash that is not stored: there is no list then.
GetNextBlocks_strictlyAfter(start) ==
  IF start \in blocks THEN Tail(FollowIndex(start, MaxCount)) ELSE <<>>

GetNextBlocks(start) == IF start \in blocks THEN FollowIndex(start, MaxCount) ELSE <<>>

GetFirstBlocks(max) == FollowIndex(firstHash, max)

\* GetBlocksAfter(hash) of the node manager passes the list on, without a look at it.
GetBlocksAfter(hash) == GetNextBlocks(hash)

\* GetBlocksShortInfo(startfrom, maxcount): the test on the count comes after
\* the append, and is for more than maxcount.
GetBlocksShortInfo(start, max) ==
  LET walk[n \in 1 .. max + 1] ==
        IF n = 1 THEN <<IF start = NoHash THEN topHash ELSE start>>
        ELSE LET list == walk[n - 1]
             IN  IF Prev[Last(list)] = NoHash THEN list ELSE Append(list, Prev[Last(list)])
  IN  walk[max + 1]

\* GetBlockAtHeight(height): NoHash stands for the error.
GetBlockAtHeight(height) ==
  LET walk[h \in Hash] ==
        IF Height[h] = height THEN h
        ELSE IF Height[h] < height \/ Prev[h] = NoHash THEN NoHash
        ELSE walk[Prev[h]]
  IN  walk[topHash]

-----------------------------------------------------------------------------
(***************************************************************************)
(* Properties.  They are read in the states in which a query can run: the  *)
(* blockchain exists and no AddBlock is under way.                         *)
(***************************************************************************)
Readable == pc = "idle" /\ running

\* The lists of blocks that the transactions index hands to ChooseHashUnderTip.
Lists == {<<>>} \cup {<<h>> : h \in blocks} \cup {<<h, k>> : h, k \in blocks}

(***************************************************************************)
(* ChooseHashUnderTip finds the block of the list that is on the branch of *)
(* the tip, on whatever branch the tip is, and says none when there is     *)
(* none: this decides which of several copies of a transaction counts.     *)
(***************************************************************************)
ChosenIsUnderTip ==
  Readable =>
    \A hashes \in Lists, tip \in blocks \cup {NoHash} :
      LET under  == Range(hashes) \cap Branch[IF tip = NoHash THEN topHash ELSE tip]
          result == ChooseHashUnderTip(hashes, tip)
      IN  IF under = {} THEN result = NoHash ELSE result \in under

(***************************************************************************)
(* For a block on the branch of the tip, and a bottom on that branch,      *)
(* CheckBlockIsInRange tells whether the block is between the two.         *)
(***************************************************************************)
RangeIsExactOnBranch ==
  Readable =>
    \A tip \in blocks : \A b, bottom \in Branch[tip] :
      CheckBlockIsInRange(b, bottom, tip) <=> bottom \in Branch[b]

(***************************************************************************)
(* GetSideBranch returns exactly what a node has to undo, from the top     *)
(* down, and to do again, from the base up, to go from one branch to the   *)
(* other; the base is the highest block that both share.                   *)
(***************************************************************************)
SideBranchIsDifference ==
  Readable =>
    \A h, tip \in blocks \ {Genesis} :
      LET r == GetSideBranch(h, tip)
      IN  /\ r.ok
          /\ r.side = Descending(Branch[h] \ Branch[tip])
          /\ r.main = Ascending(Branch[tip] \ Branch[h])
          /\ Branch[r.base] = Branch[h] \cap Branch[tip]

(***************************************************************************)
(* Node.AddBlock asks for the replacement of the old top whenever AddBlock *)
(* has moved to another branch: that never meets the genesis block, and    *)
(* all blocks of the new branch come in the order they are added in.       *)
(***************************************************************************)
ReorgHasReplacement ==
  pc = "walk" =>
    /\ ~ ReplacementPanics(lastHash, block)
    /\ GetBranchesReplacement(lastHash, block).main
         = Ascending(Branch[block] \ Branch[lastHash])

(***************************************************************************)
(* A node that asks for the blocks after one of the main chain gets the    *)
(* next blocks of that chain, no gap, at most MaxCount; a new node that    *)
(* asks for the first blocks gets them from the genesis block on; one that *)
(* asks for the blocks down from any block gets its branch, one more than  *)
(* the count it passes.                                                    *)
(***************************************************************************)
FirstN(s, n) == SubSeq(s, 1, IF Len(s) < n THEN Len(s) ELSE n)

NextBlocksAreMainChain ==
  Readable =>
    /\ \A h \in DOMAIN chain :
         LET after == Ascending({k \in Branch[topHash] : Height[k] >= Height[h]})
         IN  GetBlocksAfter(h) = FirstN(after, MaxCount)
    /\ \A n \in 1 .. MaxCount : \A i \in DOMAIN GetFirstBlocks(n) :
         GetFirstBlocks(n)[i] = GetBlockAtHeight(i - 1)
    /\ \A n \in 1 .. MaxCount, h \in blocks :
         GetBlocksShortInfo(h, n) = FirstN(Descending(Branch[h]), n + 1)
=============================================================================
