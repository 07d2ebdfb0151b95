-------------------------- MODULE ChainIndexProofs --------------------------
(***************************************************************************)
(* Lemmas about branches of the block tree, and about the two operations   *)
(* of the chain index, for every tree of blocks.  Induction over the tree  *)
(* is by a block of least height that lacks the property (LeastNumber).    *)
(***************************************************************************)
EXTENDS ChainIndex, TLAPS, WellFoundedInduction

\* A set of natural numbers that is not empty has a least element.
LEMMA LeastNumber ==
  ASSUME NEW T \in SUBSET Nat, T # {}
  PROVE  \E n \in T : \A m \in T : n <= m
<1> DEFINE Less == {pair \in Nat \X Nat : pair[1] < pair[2]}
<1>1. IsWellFoundedOn(Less, Nat)
  BY NatLessThanWellFounded DEF OpToRel
<1> HIDE DEF Less
<1>2. PICK n \in T : \A m \in T : <<m, n>> \notin Less
  BY <1>1, WFMin
<1>3. \A m \in T : ~ (m < n)
  BY <1>2 DEF Less
<1> QED
  BY <1>3

\* Induction up to a number.
LEMMA NumberInduction ==
  ASSUME NEW n \in Nat, NEW S, 0 \in S, \A i \in 1 .. n : i - 1 \in S => i \in S
  PROVE  \A i \in 0 .. n : i \in S
<1> SUFFICES ASSUME NEW bad \in 0 .. n, bad \notin S
             PROVE  FALSE
  OBVIOUS
<1> DEFINE T == {i \in 0 .. n : i \notin S}
<1>1. T \in SUBSET Nat /\ T # {}
  OBVIOUS
<1>2. PICK m \in T : \A k \in T : m <= k
  BY <1>1, LeastNumber
<1>3. m \in 1 .. n /\ m - 1 \in 0 .. n /\ m - 1 \notin S
  OBVIOUS
<1> QED
  BY <1>2, <1>3

\* A set with the genesis block, and with every block whose predecessor it
\* has, holds all blocks.
LEMMA TreeInduction ==
  ASSUME NEW S, Genesis \in S,
         \A h \in Hash \ {Genesis} : Prev[h] \in S => h \in S
  PROVE  Hash \subseteq S
<1> SUFFICES ASSUME NEW bad \in Hash, bad \notin S
             PROVE  FALSE
  OBVIOUS
<1> DEFINE T == {Height[h] : h \in Hash \ S}
<1>1. T \in SUBSET Nat /\ T # {}
  BY HeightAssumption
<1>2. PICK n \in T : \A m \in T : n <= m
  BY <1>1, LeastNumber
<1>3. PICK h \in Hash \ S : Height[h] = n
  BY <1>2
<1>4. Prev[h] \in Hash \ S /\ Height[h] = Height[Prev[h]] + 1
  BY <1>3, TreeAssumption, HeightAssumption
<1>5. Height[Prev[h]] \in Nat /\ n <= Height[Prev[h]]
  BY <1>2, <1>4, HeightAssumption
<1> QED
  BY <1>3, <1>4, <1>5

\* The branch of a block holds the block.
LEMMA BranchType ==
  ASSUME NEW t \in Hash
  PROVE  Branch[t] \subseteq Hash /\ t \in Branch[t]
BY DEF Branch, ClosedSets

\* The branch of a block is contained in every closed set with that block.
LEMMA BranchLeast ==
  ASSUME NEW S \in SUBSET Hash, Closed(S), NEW t \in S
  PROVE  Branch[t] \subseteq S
BY DEF Branch, ClosedSets

\* A branch holds the predecessor of each of its blocks.
LEMMA BranchClosed ==
  ASSUME NEW t \in Hash
  PROVE  Closed(Branch[t])
<1> SUFFICES ASSUME NEW h \in Branch[t], h # Genesis
             PROVE  Prev[h] \in Branch[t]
  BY DEF Closed
<1>1. h \in Hash /\ Prev[h] \in Hash
  BY BranchType, TreeAssumption
<1>2. ASSUME NEW S \in ClosedSets, t \in S
      PROVE  Prev[h] \in S
  <2>1. h \in S
    BY <1>2 DEF Branch
  <2> QED
    BY <2>1 DEF ClosedSets, Closed
<1> QED
  BY <1>1, <1>2 DEF Branch

\* The branch of a block is the block and the branch of its predecessor.
LEMMA BranchStep ==
  ASSUME NEW t \in Hash, t # Genesis
  PROVE  Branch[t] = {t} \cup Branch[Prev[t]]
<1>1. Prev[t] \in Hash
  BY TreeAssumption
<1>2. Branch[t] \subseteq {t} \cup Branch[Prev[t]]
  <2> DEFINE S == {t} \cup Branch[Prev[t]]
  <2>1. S \in SUBSET Hash
    BY <1>1, BranchType
  <2>2. Closed(S)
    BY <1>1, BranchClosed, BranchType DEF Closed
  <2> QED
    BY <2>1, <2>2, BranchLeast
<1>3. Branch[Prev[t]] \subseteq Branch[t]
  <2>1. Prev[t] \in Branch[t]
    BY BranchType, BranchClosed DEF Closed
  <2> QED
    BY <2>1, BranchType, BranchClosed, BranchLeast
<1> QED
  BY <1>2, <1>3, BranchType

\* The branch of the genesis block is that block alone.
LEMMA BranchGenesis == Branch[Genesis] = {Genesis}
<1>1. Genesis \in Hash
  BY TreeAssumption
<1>2. Closed({Genesis})
  BY DEF Closed
<1>3. Branch[Genesis] \subseteq {Genesis}
  BY <1>1, <1>2, BranchLeast
<1> QED
  BY <1>1, <1>3, BranchType

\* The other blocks of the branch of a block are lower than that block.
LEMMA BranchLower ==
  ASSUME NEW t \in Hash, NEW h \in Branch[t], h # t
  PROVE  Height[h] < Height[t]
<1> DEFINE S == {x \in Hash : x = t \/ Height[x] < Height[t]}
<1>1. Closed(S)
  <2> SUFFICES ASSUME NEW x \in S, x # Genesis
               PROVE  Prev[x] \in S
    BY DEF Closed
  <2>1. Prev[x] \in Hash /\ Height[x] = Height[Prev[x]] + 1
    BY TreeAssumption, HeightAssumption
  <2>2. Height[Prev[x]] \in Nat /\ Height[t] \in Nat
    BY <2>1, HeightAssumption
  <2> QED
    BY <2>1, <2>2
<1>2. Branch[t] \subseteq S
  BY <1>1, BranchLeast
<1> QED
  BY <1>2

\* A block is not on the branch of its predecessor.
LEMMA NotBelowItself ==
  ASSUME NEW t \in Hash, t # Genesis
  PROVE  t \notin Branch[Prev[t]] /\ Prev[t] # t
<1>1. Prev[t] \in Hash /\ Height[t] = Height[Prev[t]] + 1
  BY TreeAssumption, HeightAssumption
<1>2. Height[Prev[t]] \in Nat
  BY <1>1, HeightAssumption
<1> QED
  BY <1>1, <1>2, BranchLower

\* The branch of a block of a branch is a part of that branch.
LEMMA BranchInside ==
  ASSUME NEW t \in Hash, NEW h \in Branch[t]
  PROVE  h \in Hash /\ Branch[h] \subseteq Branch[t]
BY BranchType, BranchClosed, BranchLeast

\* Every branch begins with the genesis block.
LEMMA GenesisOnBranch ==
  ASSUME NEW t \in Hash
  PROVE  Genesis \in Branch[t]
<1> DEFINE S == {h \in Hash : Genesis \in Branch[h]}
<1>1. Genesis \in S
  BY BranchGenesis, TreeAssumption
<1>2. ASSUME NEW h \in Hash \ {Genesis}, Prev[h] \in S
      PROVE  h \in S
  BY <1>2, BranchStep
<1>3. Hash \subseteq S
  BY <1>1, <1>2, TreeInduction
<1> QED
  BY <1>3

\* A branch does not fork: of two blocks of it the lower one is below the other.
LEMMA BranchIsLine ==
  ASSUME NEW t \in Hash, NEW a \in Branch[t], NEW b \in Branch[t], Height[a] <= Height[b]
  PROVE  a \in Branch[b]
<1> DEFINE S == {h \in Hash : \A x, y \in Branch[h] : Height[x] <= Height[y] => x \in Branch[y]}
<1>1. Genesis \in S
  BY BranchGenesis, TreeAssumption
<1>2. ASSUME NEW h \in Hash \ {Genesis}, Prev[h] \in S
      PROVE  h \in S
  <2> SUFFICES ASSUME NEW x \in Branch[h], NEW y \in Branch[h], Height[x] <= Height[y]
               PROVE  x \in Branch[y]
    OBVIOUS
  <2>1. Branch[h] = {h} \cup Branch[Prev[h]]
    BY BranchStep
  <2>2. CASE y = h
    BY <2>2
  <2>3. CASE y # h /\ x = h
    <3>1. Height[y] < Height[h]
      BY <2>3, BranchLower
    <3>2. Height[y] \in Nat /\ Height[h] \in Nat
      BY BranchType, HeightAssumption
    <3> QED
      BY <2>3, <3>1, <3>2
  <2>4. CASE y # h /\ x # h
    BY <1>2, <2>1, <2>4
  <2> QED
    BY <2>2, <2>3, <2>4
<1>3. Hash \subseteq S
  BY <1>1, <1>2, TreeInduction
<1> QED
  BY <1>3

\* Two blocks of a branch at the same height are one block.
LEMMA BranchHeightsDiffer ==
  ASSUME NEW t \in Hash, NEW a \in Branch[t], NEW b \in Branch[t], Height[a] = Height[b]
  PROVE  a = b
<1>1. a \in Hash /\ b \in Hash
  BY BranchType
<1>2. Height[a] \in Nat /\ Height[b] \in Nat
  BY <1>1, HeightAssumption
<1>3. a \in Branch[b]
  BY <1>2, BranchIsLine
<1> QED
  BY <1>1, <1>2, <1>3, BranchLower

\* A branch has a block at every height up to that of its last block.
LEMMA BranchAtHeight ==
  ASSUME NEW t \in Hash, NEW n \in Nat, n <= Height[t]
  PROVE  \E h \in Branch[t] : Height[h] = n
<1> DEFINE S == {h \in Hash : \A k \in Nat : k <= Height[h] => \E x \in Branch[h] : Height[x] = k}
<1>1. Genesis \in S
  BY BranchGenesis, TreeAssumption, HeightAssumption
<1>2. ASSUME NEW h \in Hash \ {Genesis}, Prev[h] \in S
      PROVE  h \in S
  <2>1. Branch[h] = {h} \cup Branch[Prev[h]]
    BY BranchStep
  <2>2. Height[h] = Height[Prev[h]] + 1 /\ Height[Prev[h]] \in Nat
    BY <1>2, HeightAssumption
  <2> QED
    BY <1>2, <2>1, <2>2
<1>3. Hash \subseteq S
  BY <1>1, <1>2, TreeInduction
<1> QED
  BY <1>3

-----------------------------------------------------------------------------
\* AddToChain keeps the records well formed.
LEMMA AddToChainType ==
  ASSUME NEW c, DOMAIN c \subseteq Hash, c \in [DOMAIN c -> Location],
         NEW b \in Hash, NEW p \in Hash \cup {NoHash}
  PROVE  LET d == AddToChain(c, b, p)
         IN  DOMAIN d \subseteq Hash /\ d \in [DOMAIN d -> Location]
BY DEF AddToChain, CanAddToChain, Put, Location

\* RemoveFromChain keeps the records well formed.
LEMMA RemoveFromChainType ==
  ASSUME NEW c, DOMAIN c \subseteq Hash, c \in [DOMAIN c -> Location],
         NEW b \in Hash \cup {NoHash}
  PROVE  LET d == RemoveFromChain(c, b)
         IN  DOMAIN d \subseteq Hash /\ d \in [DOMAIN d -> Location]
BY DEF RemoveFromChain, CanRemoveFromChain, Put, Delete, Location

(***************************************************************************)
(* AddToChain extends the index of a branch by a child of its last block,  *)
(* and cannot fail.                                                        *)
(***************************************************************************)
THEOREM AddToChainExtends ==
  ASSUME NEW c, NEW t \in Hash, IndexOf(c, t),
         NEW b \in Hash, b # Genesis, Prev[b] = t
  PROVE  CanAddToChain(c, b, t) /\ IndexOf(AddToChain(c, b, t), b)
<1> DEFINE d == AddToChain(c, b, t)
<1>1. NoHash \notin Hash
  BY TreeAssumption
<1>2. Branch[b] = {b} \cup Branch[t] /\ b \notin Branch[t] /\ b # t
  BY BranchStep, NotBelowItself
<1>3. Branch[t] \subseteq Hash /\ t \in Branch[t]
  BY BranchType
<1>4. CanAddToChain(c, b, t)
  BY <1>1, <1>3 DEF CanAddToChain, IndexOf
<1>5. d = [x \in Branch[b] |->
             IF x = b THEN [prev |-> t, next |-> NoHash]
             ELSE IF x = t THEN [prev |-> c[t].prev, next |-> b] ELSE c[x]]
  BY <1>1, <1>2, <1>3, <1>4 DEF AddToChain, Put, IndexOf
<1>6. \A h \in Branch[b] : d[h].prev = Prev[h]
  BY <1>2, <1>3, <1>5 DEF IndexOf
<1>7. \A h \in Branch[b] \ {Genesis} : d[Prev[h]].next = h
  <2> SUFFICES ASSUME NEW h \in Branch[b], h # Genesis
               PROVE  d[Prev[h]].next = h
    OBVIOUS
  <2>1. CASE h = b
    BY <2>1, <1>2, <1>3, <1>5
  <2>2. CASE h # b
    <3>1. h \in Branch[t] /\ Prev[h] \in Branch[t]
      BY <2>2, <1>2, BranchClosed DEF Closed
    <3>2. c[Prev[h]].next = h /\ c[t].next = NoHash
      BY <3>1 DEF IndexOf
    <3>3. Prev[h] # t /\ Prev[h] # b
      BY <3>1, <3>2, <1>1, <1>2, <1>3
    <3> QED
      BY <3>1, <3>2, <3>3, <1>2, <1>5
  <2> QED
    BY <2>1, <2>2
<1>8. d[b].next = NoHash /\ DOMAIN d = Branch[b]
  BY <1>2, <1>5
<1> QED
  BY <1>4, <1>6, <1>7, <1>8 DEF IndexOf

(***************************************************************************)
(* RemoveFromChain takes the last block off the index of a branch, and     *)
(* cannot fail.                                                            *)
(***************************************************************************)
THEOREM RemoveFromChainShortens ==
  ASSUME NEW c, NEW t \in Hash, t # Genesis, IndexOf(c, t)
  PROVE  /\ CanRemoveFromChain(c, t)
         /\ c[t].prev = Prev[t]
         /\ IndexOf(RemoveFromChain(c, t), Prev[t])
<1> DEFINE p == Prev[t]
           d == RemoveFromChain(c, t)
<1>1. NoHash \notin Hash /\ p \in Hash
  BY TreeAssumption
<1>2. Branch[t] = {t} \cup Branch[p] /\ t \notin Branch[p] /\ p # t
  BY BranchStep, NotBelowItself
<1>3. Branch[t] \subseteq Hash /\ p \in Branch[p]
  BY <1>1, BranchType
<1>4. CanRemoveFromChain(c, t) /\ c[t].prev = p
  BY <1>1, <1>2, <1>3 DEF CanRemoveFromChain, IndexOf
<1>5. d = [x \in Branch[p] |->
             IF x = p THEN [prev |-> c[p].prev, next |-> NoHash] ELSE c[x]]
  BY <1>1, <1>2, <1>3, <1>4 DEF RemoveFromChain, Put, Delete, IndexOf
<1>6. \A h \in Branch[p] : d[h].prev = Prev[h]
  BY <1>2, <1>3, <1>5 DEF IndexOf
<1>7. \A h \in Branch[p] \ {Genesis} : d[Prev[h]].next = h
  <2> SUFFICES ASSUME NEW h \in Branch[p], h # Genesis
               PROVE  d[Prev[h]].next = h
    OBVIOUS
  <2>1. Prev[h] \in Branch[p]
    BY <1>1, BranchClosed DEF Closed
  <2>2. c[Prev[h]].next = h /\ c[p].next = t
    BY <1>2 DEF IndexOf
  <2>3. Prev[h] # p
    BY <2>2, <1>2
  <2> QED
    BY <2>1, <2>2, <2>3, <1>5
<1>8. d[p].next = NoHash /\ DOMAIN d = Branch[p]
  BY <1>3, <1>5
<1> QED
  BY <1>4, <1>6, <1>7, <1>8 DEF IndexOf

-----------------------------------------------------------------------------
\* In the index of a branch only the last block has no next one.
LEMMA IndexEnd ==
  ASSUME NEW c, NEW t \in Hash, IndexOf(c, t), NEW p \in Branch[t], c[p].next = NoHash
  PROVE  p = t
<1> SUFFICES ASSUME p # t
             PROVE  FALSE
  OBVIOUS
<1>1. p \in Hash /\ Height[p] < Height[t] /\ Height[p] \in Nat /\ Height[t] \in Nat
  BY BranchType, BranchLower, HeightAssumption
<1>2. PICK h \in Branch[t] : Height[h] = Height[p] + 1
  BY <1>1, BranchAtHeight
<1>3. h \in Hash /\ h # Genesis
  BY <1>1, <1>2, BranchType, HeightAssumption
<1>4. Prev[h] \in Branch[t]
  BY <1>3, BranchClosed DEF Closed
<1>5. Height[h] = Height[Prev[h]] + 1 /\ Height[Prev[h]] \in Nat
  BY <1>3, <1>4, BranchType, HeightAssumption
<1>6. Prev[h] = p
  BY <1>1, <1>2, <1>4, <1>5, BranchHeightsDiffer
<1>7. c[p].next = h
  BY <1>3, <1>6 DEF IndexOf
<1> QED
  BY <1>3, <1>7, TreeAssumption

\* An index that is empty or holds one whole branch.
HoldsBranch(c) == DOMAIN c = {} \/ \E t \in Hash : IndexOf(c, t)

(***************************************************************************)
(* AddToChain of a block after its predecessor, whatever branch the index  *)
(* holds: it changes nothing, or the index is that of the new block and    *)
(* has lost none of its blocks.                                            *)
(***************************************************************************)
LEMMA AddToChainAnywhere ==
  ASSUME NEW c, HoldsBranch(c), NEW b \in Hash, b # Genesis
  PROVE  LET d == AddToChain(c, b, Prev[b])
         IN  d = c \/ (IndexOf(d, b) /\ DOMAIN c \subseteq DOMAIN d)
<1> DEFINE d == AddToChain(c, b, Prev[b])
<1>1. Prev[b] \in Hash /\ Prev[b] # NoHash
  BY TreeAssumption
<1>2. CASE ~ CanAddToChain(c, b, Prev[b])
  BY <1>2 DEF AddToChain
<1>3. CASE CanAddToChain(c, b, Prev[b])
  <2>1. Prev[b] \in DOMAIN c /\ c[Prev[b]].next = NoHash
    BY <1>1, <1>3 DEF CanAddToChain
  <2>2. PICK t \in Hash : IndexOf(c, t)
    BY <2>1 DEF HoldsBranch
  <2>3. Prev[b] = t
    BY <2>1, <2>2, IndexEnd DEF IndexOf
  <2>4. IndexOf(d, b)
    BY <2>2, <2>3, AddToChainExtends
  <2>5. DOMAIN c = Branch[t] /\ DOMAIN d = Branch[b] /\ Branch[b] = {b} \cup Branch[t]
    BY <2>2, <2>3, <2>4, BranchStep DEF IndexOf
  <2> QED
    BY <2>4, <2>5
<1> QED
  BY <1>2, <1>3

(***************************************************************************)
(* RemoveFromChain, whatever branch the index holds: it changes nothing,   *)
(* or takes away the given block, which was the last one.                  *)
(***************************************************************************)
LEMMA RemoveFromChainAnywhere ==
  ASSUME NEW c, HoldsBranch(c), NEW h
  PROVE  LET d == RemoveFromChain(c, h)
         IN  \/ d = c
             \/ h \in Hash /\ IndexOf(c, h) /\ HoldsBranch(d) /\ DOMAIN d = DOMAIN c \ {h}
<1> DEFINE d == RemoveFromChain(c, h)
<1>1. CASE ~ CanRemoveFromChain(c, h)
  BY <1>1 DEF RemoveFromChain
<1>2. CASE CanRemoveFromChain(c, h)
  <2>1. h \in DOMAIN c /\ c[h].next = NoHash
    BY <1>2 DEF CanRemoveFromChain
  <2>2. PICK t \in Hash : IndexOf(c, t)
    BY <2>1 DEF HoldsBranch
  <2>3. h = t
    BY <2>1, <2>2, IndexEnd DEF IndexOf
  <2>4. DOMAIN c = Branch[h]
    BY <2>2, <2>3 DEF IndexOf
  <2>5. CASE h = Genesis
    <3>1. c[h].prev = NoHash /\ DOMAIN c = {h}
      BY <2>2, <2>3, <2>4, <2>5, BranchGenesis, TreeAssumption DEF IndexOf
    <3>2. DOMAIN d = {}
      BY <1>2, <3>1 DEF RemoveFromChain, Delete
    <3> QED
      BY <2>2, <2>3, <3>1, <3>2 DEF HoldsBranch
  <2>6. CASE h # Genesis
    <3>1. IndexOf(d, Prev[h]) /\ Prev[h] \in Hash
      BY <2>2, <2>3, <2>6, RemoveFromChainShortens, TreeAssumption
    <3>2. DOMAIN d = Branch[Prev[h]] /\ Branch[h] = {h} \cup Branch[Prev[h]]
      BY <2>2, <2>3, <2>6, <3>1, BranchStep DEF IndexOf
    <3>3. h \notin Branch[Prev[h]]
      BY <2>2, <2>3, <2>6, NotBelowItself
    <3> QED
      BY <2>2, <2>3, <2>4, <3>1, <3>2, <3>3 DEF HoldsBranch
  <2> QED
    BY <2>5, <2>6
<1> QED
  BY <1>1, <1>2
=============================================================================
