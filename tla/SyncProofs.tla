----------------------------- MODULE SyncProofs -----------------------------
(***************************************************************************)
(* Proofs about the exchange of blocks, for any number of nodes and every  *)
(* tree of blocks, with commands that are lost or late, and restarts.      *)
(***************************************************************************)
EXTENDS SyncInv, ChainIndexProofs

(***************************************************************************)
(* Lists and bags                                                          *)
(***************************************************************************)

\* A list turned round has the same members.
LEMMA ReverseMembers ==
  ASSUME NEW B, NEW s \in Seq(B)
  PROVE  Reverse(s) \in Seq(B)
<1>1. /\ s \in [1 .. Len(s) -> B] /\ Len(s) \in Nat
      /\ Reverse(s) = [i \in 1 .. Len(s) |-> s[(Len(s) - i) + 1]]
  BY DEF Reverse
<1>2. \A i \in 1 .. Len(s) : (Len(s) - i) + 1 \in 1 .. Len(s)
  BY <1>1
<1>3. Reverse(s) \in [1 .. Len(s) -> B]
  BY <1>1, <1>2
<1> QED
  BY <1>1, <1>3

\* The smaller of two numbers.
LEMMA MinOfTwo ==
  ASSUME NEW a \in Nat, NEW b \in Nat
  PROVE  Min({a, b}) \in Nat /\ Min({a, b}) <= a /\ Min({a, b}) <= b
<1>1. \E x \in {a, b} : \A y \in {a, b} : x <= y
  OBVIOUS
<1> QED
  BY <1>1 DEF Min

\* What is in a bag after a change.
LEMMA BagMembers ==
  ASSUME NEW b, NEW gone, NEW new
  PROVE  /\ BagToSet(b (+) SetToBag(new)) = BagToSet(b) \cup new
         /\ BagToSet((b (-) SetToBag(gone)) (+) SetToBag(new)) \subseteq BagToSet(b) \cup new
BY DEF BagToSet, SetToBag, (+), (-)

\* A sequence over a set is one over a larger set.
LEMMA SeqGrows ==
  ASSUME NEW A, NEW B, A \subseteq B, NEW s \in Seq(A)
  PROVE  s \in Seq(B)
<1>1. s \in [1 .. Len(s) -> A] /\ Len(s) \in Nat
  OBVIOUS
<1>2. s \in [1 .. Len(s) -> B]
  BY <1>1
<1> QED
  BY <1>1, <1>2

\* A list of one member.
LEMMA ListOfOne ==
  ASSUME NEW B, NEW e \in B
  PROVE  <<e>> \in Seq(B)
OBVIOUS

\* Lists of members put together.
LEMMA Concatenated ==
  ASSUME NEW B, NEW s \in Seq(B), NEW t \in Seq(B)
  PROVE  s \o t \in Seq(B) /\ \A e \in B : <<e>> \o t \in Seq(B)
OBVIOUS

(***************************************************************************)
(* Lists of blocks that a node sends                                       *)
(***************************************************************************)

\* GetBlocksShortInfo lists blocks of the branch it is asked for.
LEMMA ShortInfoOnBranch ==
  ASSUME NEW h \in Hash
  PROVE  GetBlocksShortInfo(h) \in Seq(Branch[h])
<1> DEFINE len == Min({Height[h], MaxCount}) + 1
           at(i) == CHOOSE b \in Branch[h] : Height[b] = Height[h] + 1 - i
<1>1. Height[h] \in Nat /\ MaxCount \in Nat
  BY HeightAssumption, SyncAssumption
<1>2. len \in Nat /\ len <= Height[h] + 1
  <2>1. Min({Height[h], MaxCount}) \in Nat /\ Min({Height[h], MaxCount}) <= Height[h]
    BY <1>1, MinOfTwo
  <2> HIDE DEF Min
  <2> QED
    BY <1>1, <2>1
<1> HIDE DEF len
<1>3. ASSUME NEW i \in 1 .. len
      PROVE  at(i) \in Branch[h]
  <2>1. Height[h] + 1 - i \in Nat /\ Height[h] + 1 - i <= Height[h]
    BY <1>1, <1>2
  <2>2. \E b \in Branch[h] : Height[b] = Height[h] + 1 - i
    BY <2>1, BranchAtHeight
  <2> QED
    BY <2>2
<1>4. GetBlocksShortInfo(h) = [i \in 1 .. len |-> at(i)]
  BY DEF GetBlocksShortInfo, len
<1> HIDE DEF at
<1>5. [i \in 1 .. len |-> at(i)] \in [1 .. len -> Branch[h]]
  BY <1>3
<1> QED
  BY <1>2, <1>4, <1>5

\* GetNextBlocks lists blocks of the main chain, or the block it is asked for.
LEMMA NextBlocksStored ==
  ASSUME NEW n \in Node, NEW S \in ClosedSets, tip[n] \in S, NEW h \in S
  PROVE  GetNextBlocks(n, h) \in Seq(S)
<1>1. S \subseteq Hash /\ h \in Hash /\ tip[n] \in Hash /\ Branch[tip[n]] \subseteq S
  BY BranchLeast DEF ClosedSets
<1>2. CASE h \notin Branch[tip[n]]
  BY <1>2 DEF GetNextBlocks
<1>3. CASE h \in Branch[tip[n]]
  <2> DEFINE span == Height[tip[n]] + 1 - Height[h]
             len == Min({span, MaxCount})
             at(i) == CHOOSE b \in Branch[tip[n]] : Height[b] = Height[h] + i - 1
  <2>1. Height[h] \in Nat /\ Height[tip[n]] \in Nat /\ MaxCount \in Nat /\ Height[h] <= Height[tip[n]]
    BY <1>1, <1>3, BranchLower, HeightAssumption, SyncAssumption
  <2>2. span \in Nat
    BY <2>1
  <2> HIDE DEF span
  <2>3. len \in Nat /\ len <= span
    BY <2>1, <2>2, MinOfTwo
  <2> HIDE DEF len
  <2>4. ASSUME NEW i \in 1 .. len
        PROVE  at(i) \in S
    <3>1. Height[h] + i - 1 \in Nat /\ Height[h] + i - 1 <= Height[tip[n]]
      BY <2>1, <2>2, <2>3 DEF span
    <3>2. \E b \in Branch[tip[n]] : Height[b] = Height[h] + i - 1
      BY <1>1, <3>1, BranchAtHeight
    <3> QED
      BY <1>1, <3>2
  <2>5. GetNextBlocks(n, h) = [i \in 1 .. len |-> at(i)]
    BY <1>3 DEF GetNextBlocks, len, span
  <2> HIDE DEF at
  <2>6. [i \in 1 .. len |-> at(i)] \in [1 .. len -> S]
    BY <2>4
  <2> QED
    BY <2>3, <2>5, <2>6
<1> QED
  BY <1>2, <1>3

(***************************************************************************)
(* What every step has in common: no block is taken away, so that what was *)
(* said of the handlers and commands that are left still holds.            *)
(***************************************************************************)
LEMMA StepKeeps ==
  ASSUME KnownBlocksInv,
         stored' \in [Node -> ClosedSets], tip' \in [Node -> Hash], StoreInv',
         \A n \in Node : stored[n] \subseteq stored'[n],
         transit' \in [Node -> [Node -> Seq(Hash)]], TransitInv',
         starts' \in [Node -> 0 .. MaxStarts], lost' \in 0 .. MaxLost,
         NEW R, BagToSet(running') \subseteq BagToSet(running) \cup R, \A r \in R : HandlerOK(r)',
         NEW S, BagToSet(net') \subseteq BagToSet(net) \cup S, \A m \in S : CommandOK(m)'
  PROVE  KnownBlocksInv'
<1>1. ASSUME NEW r \in BagToSet(running')
      PROVE  HandlerOK(r)'
  <2>1. CASE r \in R
    BY <2>1
  <2>2. CASE r \in BagToSet(running)
    <3>1. HandlerOK(r)
      BY <2>2 DEF KnownBlocksInv
    <3> QED
      BY <3>1 DEF HandlerOK
  <2> QED
    BY <1>1, <2>1, <2>2
<1>2. ASSUME NEW m \in BagToSet(net')
      PROVE  CommandOK(m)'
  <2>1. CASE m \in S
    BY <2>1
  <2>2. CASE m \in BagToSet(net)
    <3>1. CommandOK(m)
      BY <2>2 DEF KnownBlocksInv
    <3>2. m.type = "inv" => m.data \in Seq(stored'[m.from])
      <4>1. m.from \in Node /\ (m.type = "inv" => m.data \in Seq(stored[m.from]))
        BY <3>1 DEF CommandOK
      <4>2. stored[m.from] \subseteq stored'[m.from]
        BY <4>1
      <4> QED
        BY <4>1, <4>2, SeqGrows
    <3>3. /\ m.from \in Node /\ m.to \in Node
          /\ m.type = "getblocksup" => m.data \in Hash
          /\ m.type \in {"getblocks", "getdata"} => m.data \in stored'[m.to]
          /\ m.type = "block" => m.data \in stored'[m.from]
      BY <3>1 DEF CommandOK
    <3> QED
      BY <3>2, <3>3 DEF CommandOK
  <2> QED
    BY <1>2, <2>1, <2>2
<1>3. BagToSet(running)' = BagToSet(running') /\ BagToSet(net)' = BagToSet(net')
  BY DEF BagToSet
<1>4. SyncTypeOK'
  <2>1. \A r \in BagToSet(running)' : r \in [node : Node, from : Node, hash : Hash \cup {NoHash}, locked : BOOLEAN]
    BY <1>1, <1>3 DEF HandlerOK
  <2>2. \A m \in BagToSet(net)' : {m.from, m.to} \subseteq Node
    BY <1>2, <1>3 DEF CommandOK
  <2> QED
    BY <2>1, <2>2 DEF SyncTypeOK
<1> QED
  BY <1>1, <1>2, <1>3, <1>4 DEF KnownBlocksInv

\* A list of blocks in transit is replaced by one of blocks of the same node.
LEMMA TransitSet ==
  ASSUME KnownBlocksInv, NEW n \in Node, NEW f \in Node,
         stored' \in [Node -> ClosedSets], \A o \in Node : stored[o] \subseteq stored'[o],
         NEW list \in Seq(stored'[f]), SetTransit(n, f, list)
  PROVE  transit' \in [Node -> [Node -> Seq(Hash)]] /\ TransitInv'
<1>1. transit \in [Node -> [Node -> Seq(Hash)]] /\ \A a, b \in Node : transit[a][b] \in Seq(stored[b])
  BY DEF KnownBlocksInv, SyncTypeOK, TransitInv
<1>2. ASSUME NEW a \in Node, NEW b \in Node
      PROVE  transit'[a][b] = IF a = n /\ b = f THEN list ELSE transit[a][b]
  BY <1>1 DEF SetTransit
<1>3. ASSUME NEW a \in Node, NEW b \in Node
      PROVE  transit'[a][b] \in Seq(stored'[b])
  <2>1. CASE a = n /\ b = f
    BY <1>2, <2>1
  <2>2. CASE ~ (a = n /\ b = f)
    BY <1>1, <1>2, <2>2, SeqGrows
  <2> QED
    BY <2>1, <2>2
<1>4. list \in Seq(Hash)
  BY SeqGrows DEF ClosedSets
<1>5. transit' \in [Node -> [Node -> Seq(Hash)]]
  BY <1>1, <1>4 DEF SetTransit
<1> QED
  BY <1>3, <1>5 DEF TransitInv

\* A step that only takes and sends commands.
LEMMA OnlyCommands ==
  ASSUME KnownBlocksInv, UNCHANGED <<stored, tip, transit, running, starts>>, lost' \in 0 .. MaxLost,
         NEW m, NEW S, Handled(m, S), \A c \in S : CommandOK(c)
  PROVE  KnownBlocksInv'
<1>1. SyncTypeOK /\ StoreInv /\ TransitInv
  BY DEF KnownBlocksInv
<1>2. BagToSet(net') \subseteq BagToSet(net) \cup S
  BY BagMembers DEF Handled
<1>3. \A c \in S : CommandOK(c)'
  BY DEF CommandOK
<1>4. StoreInv' /\ TransitInv'
  BY <1>1 DEF StoreInv, TransitInv
<1>5. /\ stored' \in [Node -> ClosedSets] /\ tip' \in [Node -> Hash]
      /\ transit' \in [Node -> [Node -> Seq(Hash)]] /\ starts' \in [Node -> 0 .. MaxStarts]
  BY <1>1 DEF SyncTypeOK
<1> DEFINE R == {}
<1>6. /\ BagToSet(running') \subseteq BagToSet(running) \cup R
      /\ \A r \in R : HandlerOK(r)'
      /\ \A n \in Node : stored[n] \subseteq stored'[n]
  OBVIOUS
<1> HIDE DEF R
<1> QED
  BY <1>2, <1>3, <1>4, <1>5, <1>6, StepKeeps

(***************************************************************************)
(* One lemma per action                                                    *)
(***************************************************************************)

\* What is known of a command, and of the store of the node it was sent to.
LEMMA CommandKnown ==
  ASSUME KnownBlocksInv, NEW m \in BagToSet(net)
  PROVE  /\ CommandOK(m) /\ m.from \in Node /\ m.to \in Node
         /\ \A n \in Node : /\ stored[n] \in ClosedSets /\ stored[n] \subseteq Hash
                            /\ tip[n] \in stored[n] /\ tip[n] \in Hash /\ Genesis \in stored[n]
         /\ lost \in 0 .. MaxLost
BY DEF KnownBlocksInv, SyncTypeOK, StoreInv, CommandOK, ClosedSets

LEMMA HandleVersionStep ==
  ASSUME KnownBlocksInv, NEW m \in BagToSet(net), HandleVersion(m)
  PROVE  KnownBlocksInv'
<1> DEFINE S == IF Height[tip[m.to]] < m.data THEN {SendGetBlocksUpper(m.to, m.from, tip[m.to])}
                ELSE IF Height[tip[m.to]] > m.data THEN {SendVersion(m.to, m.from, Height[tip[m.to]])}
                ELSE {}
<1>1. m.from \in Node /\ m.to \in Node /\ tip[m.to] \in Hash /\ lost \in 0 .. MaxLost
  BY CommandKnown
<1>2. \A c \in S : CommandOK(c)
  BY <1>1 DEF CommandOK, SendGetBlocksUpper, SendVersion
<1>3. Handled(m, S) /\ UNCHANGED <<stored, tip, transit, running, starts>> /\ lost' = lost
  BY DEF HandleVersion
<1> HIDE DEF S
<1> QED
  BY <1>1, <1>2, <1>3, OnlyCommands

LEMMA HandleGetBlocksStep ==
  ASSUME KnownBlocksInv, NEW m \in BagToSet(net), HandleGetBlocks(m)
  PROVE  KnownBlocksInv'
<1> DEFINE list == Reverse(GetBlocksShortInfo(m.data))
           S == {SendInv(m.to, m.from, list)}
<1>1. m.from \in Node /\ m.to \in Node /\ m.data \in stored[m.to] /\ lost \in 0 .. MaxLost
  BY CommandKnown DEF HandleGetBlocks, CommandOK
<1>2. list \in Seq(stored[m.to])
  <2>1. stored[m.to] \in SUBSET Hash /\ Closed(stored[m.to]) /\ m.data \in Hash
    BY <1>1, CommandKnown DEF ClosedSets
  <2>2. Branch[m.data] \subseteq stored[m.to]
    BY <1>1, <2>1, BranchLeast
  <2>3. GetBlocksShortInfo(m.data) \in Seq(stored[m.to])
    BY <2>1, <2>2, ShortInfoOnBranch, SeqGrows
  <2> QED
    BY <2>3, ReverseMembers
<1> HIDE DEF list
<1>3. \A c \in S : CommandOK(c)
  BY <1>1, <1>2 DEF CommandOK, SendInv
<1>4. Handled(m, S) /\ UNCHANGED <<stored, tip, transit, running, starts>> /\ lost' = lost
  BY DEF HandleGetBlocks, list
<1> HIDE DEF S
<1> QED
  BY <1>1, <1>3, <1>4, OnlyCommands

LEMMA HandleGetBlocksUpperStep ==
  ASSUME KnownBlocksInv, NEW m \in BagToSet(net), HandleGetBlocksUpper(m)
  PROVE  KnownBlocksInv'
<1> DEFINE n == m.to
           blocks == IF m.data \in stored[n] THEN GetNextBlocks(n, m.data) ELSE GetBlocksShortInfo(tip[n])
           S == {SendInv(n, m.from, Reverse(blocks))}
<1>1. m.from \in Node /\ n \in Node /\ lost \in 0 .. MaxLost
  BY CommandKnown
<1>2. stored[n] \in ClosedSets /\ tip[n] \in stored[n] /\ tip[n] \in Hash
  BY <1>1, CommandKnown
<1>3. Handled(m, S) /\ UNCHANGED <<stored, tip, transit, running, starts>> /\ lost' = lost
  BY DEF HandleGetBlocksUpper
<1> HIDE DEF n
<1>4. blocks \in Seq(stored[n])
  <2>1. CASE m.data \in stored[n]
    BY <1>1, <1>2, <2>1, NextBlocksStored
  <2>2. CASE m.data \notin stored[n]
    <3>1. Branch[tip[n]] \subseteq stored[n]
      BY <1>2, BranchLeast DEF ClosedSets
    <3> QED
      BY <1>2, <2>2, <3>1, ShortInfoOnBranch, SeqGrows
  <2> QED
    BY <2>1, <2>2
<1> HIDE DEF blocks
<1>5. Reverse(blocks) \in Seq(stored[n])
  BY <1>4, ReverseMembers
<1>6. \A c \in S : CommandOK(c)
  BY <1>1, <1>5 DEF CommandOK, SendInv
<1> HIDE DEF S
<1> QED
  BY <1>1, <1>3, <1>6, OnlyCommands

LEMMA HandleGetDataStep ==
  ASSUME KnownBlocksInv, NEW m \in BagToSet(net), HandleGetData(m)
  PROVE  KnownBlocksInv'
<1> DEFINE S == IF m.data \in stored[m.to] THEN {SendBlock(m.to, m.from, m.data)} ELSE {}
<1>1. m.from \in Node /\ m.to \in Node /\ lost \in 0 .. MaxLost
  BY CommandKnown
<1>2. \A c \in S : CommandOK(c)
  BY <1>1 DEF CommandOK, SendBlock
<1>3. Handled(m, S) /\ UNCHANGED <<stored, tip, transit, running, starts>> /\ lost' = lost
  BY DEF HandleGetData
<1> HIDE DEF S
<1> QED
  BY <1>1, <1>2, <1>3, OnlyCommands

LEMMA LoseStep ==
  ASSUME KnownBlocksInv, NEW m \in BagToSet(net), Lose(m)
  PROVE  KnownBlocksInv'
<1> DEFINE S == {}
<1>1. lost' \in 0 .. MaxLost
  BY CommandKnown, SyncAssumption DEF Lose
<1>2. Handled(m, S) /\ UNCHANGED <<stored, tip, transit, running, starts>>
  BY DEF Lose
<1>3. \A c \in S : CommandOK(c)
  OBVIOUS
<1> HIDE DEF S
<1> QED
  BY <1>1, <1>2, <1>3, OnlyCommands

\* The parts of the invariant that a step which adds no block leaves alone.
LEMMA SameStores ==
  ASSUME KnownBlocksInv, UNCHANGED <<stored, tip, starts, lost>>
  PROVE  /\ stored' \in [Node -> ClosedSets] /\ tip' \in [Node -> Hash] /\ StoreInv'
         /\ \A n \in Node : stored[n] \subseteq stored'[n]
         /\ starts' \in [Node -> 0 .. MaxStarts] /\ lost' \in 0 .. MaxLost
BY DEF KnownBlocksInv, SyncTypeOK, StoreInv

\* A handler that has taken nothing from the list.
LEMMA HandlerNew ==
  ASSUME NEW n \in Node, NEW f \in Node, NEW l \in BOOLEAN
  PROVE  HandlerOK(Handler(n, f, l))'
<1>1. /\ Handler(n, f, l) \in [node : Node, from : Node, hash : Hash \cup {NoHash}, locked : BOOLEAN]
      /\ Handler(n, f, l).hash = NoHash
  BY DEF Handler
<1> QED
  BY <1>1 DEF HandlerOK

LEMMA HandleInvStep ==
  ASSUME KnownBlocksInv, NEW m \in BagToSet(net), HandleInv(m)
  PROVE  KnownBlocksInv'
<1> DEFINE n == m.to
           f == m.from
           list == transit[n][f] \o m.data
           R == {Handler(n, f, FALSE)}
           S == {}
<1>1. n \in Node /\ f \in Node /\ m.data \in Seq(stored[f])
  BY CommandKnown DEF HandleInv, CommandOK
<1>2. transit[n][f] \in Seq(stored[f])
  BY <1>1 DEF KnownBlocksInv, TransitInv
<1>3. /\ SetTransit(n, f, list) /\ running' = running (+) SetToBag(R) /\ Handled(m, S)
      /\ UNCHANGED <<stored, tip, starts, lost>>
  BY DEF HandleInv
<1> HIDE DEF n, f
<1>4. list \in Seq(stored'[f])
  <2>1. stored' = stored
    BY <1>3
  <2>2. transit[n][f] \o m.data \in Seq(stored[f])
    BY <1>1, <1>2, Concatenated
  <2> QED
    BY <2>1, <2>2
<1> HIDE DEF list
<1>5. /\ stored' \in [Node -> ClosedSets] /\ tip' \in [Node -> Hash] /\ StoreInv'
      /\ \A o \in Node : stored[o] \subseteq stored'[o]
      /\ starts' \in [Node -> 0 .. MaxStarts] /\ lost' \in 0 .. MaxLost
  BY <1>3, SameStores
<1>6. transit' \in [Node -> [Node -> Seq(Hash)]] /\ TransitInv'
  BY <1>1, <1>3, <1>4, <1>5, TransitSet
<1>7. \A r \in R : HandlerOK(r)'
  BY <1>1, HandlerNew
<1>8. \A c \in S : CommandOK(c)'
  OBVIOUS
<1> HIDE DEF R, S
<1>9. BagToSet(running') \subseteq BagToSet(running) \cup R /\ BagToSet(net') \subseteq BagToSet(net) \cup S
  BY <1>3, BagMembers DEF Handled
<1> QED
  BY <1>5, <1>6, <1>7, <1>8, <1>9, StepKeeps

\* What is known of a handler of an inventory, and of its list.
LEMMA HandlerKnown ==
  ASSUME KnownBlocksInv, NEW r \in BagToSet(running)
  PROVE  /\ r \in [node : Node, from : Node, hash : Hash \cup {NoHash}, locked : BOOLEAN]
         /\ r.node \in Node /\ r.from \in Node
         /\ r.hash # NoHash => r.hash \in stored[r.from]
         /\ transit[r.node][r.from] \in Seq(stored[r.from])
         /\ stored[r.from] \in ClosedSets /\ stored[r.from] \subseteq Hash
         /\ Genesis \in stored[r.node]
<1>1. HandlerOK(r)
  BY DEF KnownBlocksInv
<1>2. r \in [node : Node, from : Node, hash : Hash \cup {NoHash}, locked : BOOLEAN] /\ r.node \in Node /\ r.from \in Node
  BY <1>1 DEF HandlerOK
<1> QED
  BY <1>1, <1>2 DEF HandlerOK, KnownBlocksInv, TransitInv, StoreInv, SyncTypeOK, ClosedSets

LEMMA ShiftNextBlockStep ==
  ASSUME KnownBlocksInv, NEW r \in BagToSet(running), ShiftNextBlock(r)
  PROVE  KnownBlocksInv'
<1> DEFINE list == transit[r.node][r.from]
           S == {}
<1>1. /\ r \in [node : Node, from : Node, hash : Hash \cup {NoHash}, locked : BOOLEAN]
      /\ r.node \in Node /\ r.from \in Node /\ list \in Seq(stored[r.from])
      /\ stored[r.from] \subseteq Hash
  BY HandlerKnown
<1>2. UNCHANGED <<stored, tip, starts, lost>> /\ net' = net
  BY DEF ShiftNextBlock
<1>3. /\ stored' \in [Node -> ClosedSets] /\ tip' \in [Node -> Hash] /\ StoreInv'
      /\ \A o \in Node : stored[o] \subseteq stored'[o]
      /\ starts' \in [Node -> 0 .. MaxStarts] /\ lost' \in 0 .. MaxLost
  BY <1>2, SameStores
<1>4. (\A c \in S : CommandOK(c)') /\ BagToSet(net') \subseteq BagToSet(net) \cup S
  BY <1>2
<1> HIDE DEF S
<1>5. CASE list = <<>>
  <2> DEFINE R == {}
  <2>1. Replace(r, R) /\ transit' = transit
    BY <1>5 DEF ShiftNextBlock
  <2>2. transit' \in [Node -> [Node -> Seq(Hash)]] /\ TransitInv'
    BY <1>2, <2>1 DEF KnownBlocksInv, SyncTypeOK, TransitInv
  <2>3. \A h \in R : HandlerOK(h)'
    OBVIOUS
  <2> HIDE DEF R
  <2>4. BagToSet(running') \subseteq BagToSet(running) \cup R
    BY <2>1, BagMembers DEF Replace
  <2> QED
    BY <1>3, <1>4, <2>2, <2>3, <2>4, StepKeeps
<1>6. CASE list # <<>>
  <2> DEFINE R == {[r EXCEPT !.hash = Head(list)]}
  <2>1. Replace(r, R) /\ SetTransit(r.node, r.from, Tail(list))
    BY <1>6 DEF ShiftNextBlock
  <2> HIDE DEF list
  <2>2. Head(list) \in stored[r.from] /\ Tail(list) \in Seq(stored[r.from])
    BY <1>1, <1>6
  <2>3. Tail(list) \in Seq(stored'[r.from])
    BY <1>2, <2>2
  <2>4. transit' \in [Node -> [Node -> Seq(Hash)]] /\ TransitInv'
    BY <1>1, <1>3, <2>1, <2>3, TransitSet
  <2>5. \A h \in R : HandlerOK(h)'
    BY <1>1, <1>2, <2>2 DEF HandlerOK
  <2> HIDE DEF R
  <2>6. BagToSet(running') \subseteq BagToSet(running) \cup R
    BY <2>1, BagMembers DEF Replace
  <2> QED
    BY <1>3, <1>4, <2>4, <2>5, <2>6, StepKeeps
<1> QED
  BY <1>5, <1>6

LEMMA ReceivedBlockInfoStep ==
  ASSUME KnownBlocksInv, NEW r \in BagToSet(running), ReceivedBlockInfo(r)
  PROVE  KnownBlocksInv'
<1>1. /\ r.node \in Node /\ r.from \in Node /\ r.hash \in stored[r.from]
      /\ stored[r.from] \in ClosedSets /\ Genesis \in stored[r.node]
  BY HandlerKnown DEF ReceivedBlockInfo
<1>2. UNCHANGED <<stored, tip, starts, lost>>
  BY DEF ReceivedBlockInfo
<1>3. /\ stored' \in [Node -> ClosedSets] /\ tip' \in [Node -> Hash] /\ StoreInv'
      /\ \A o \in Node : stored[o] \subseteq stored'[o]
      /\ starts' \in [Node -> 0 .. MaxStarts] /\ lost' \in 0 .. MaxLost
  BY <1>2, SameStores
\* The handler that is left, the command that is sent, and the list.
<1>4. ASSUME NEW R \in SUBSET {Handler(r.node, r.from, TRUE)}, Replace(r, R),
             NEW S, net' = net (+) SetToBag(S) \/ (net' = net /\ S = {}),
             \A m \in S : CommandOK(m)',
             transit' = transit \/ SetTransit(r.node, r.from, <<>>)
      PROVE  KnownBlocksInv'
  <2>1. transit' \in [Node -> [Node -> Seq(Hash)]] /\ TransitInv'
    <3>1. CASE transit' = transit
      BY <1>2, <3>1 DEF KnownBlocksInv, SyncTypeOK, TransitInv
    <3>2. CASE SetTransit(r.node, r.from, <<>>)
      <4>1. <<>> \in Seq(stored'[r.from])
        OBVIOUS
      <4> QED
        BY <1>1, <1>3, <3>2, <4>1, TransitSet
    <3> QED
      BY <1>4, <3>1, <3>2
  <2>2. \A h \in R : HandlerOK(h)'
    BY <1>1, <1>4, HandlerNew
  <2>3. /\ BagToSet(running') \subseteq BagToSet(running) \cup R
        /\ BagToSet(net') \subseteq BagToSet(net) \cup S
    BY <1>4, BagMembers DEF Replace
  <2> QED
    BY <1>3, <1>4, <2>1, <2>2, <2>3, StepKeeps
<1>5. CASE Replace(r, {Handler(r.node, r.from, TRUE)}) /\ UNCHANGED <<transit, net>>
  <2> DEFINE R == {Handler(r.node, r.from, TRUE)}
             S == {}
  <2>1. R \in SUBSET {Handler(r.node, r.from, TRUE)} /\ \A m \in S : CommandOK(m)'
    OBVIOUS
  <2>2. Replace(r, R) /\ net' = net /\ S = {} /\ transit' = transit
    BY <1>5
  <2> HIDE DEF R, S
  <2> QED
    BY <1>4, <2>1, <2>2
<1>6. CASE Replace(r, {}) /\ net' = net (+) SetToBag({SendGetData(r.node, r.from, r.hash)}) /\ UNCHANGED transit
  <2> DEFINE R == {}
             S == {SendGetData(r.node, r.from, r.hash)}
  <2>1. R \in SUBSET {Handler(r.node, r.from, TRUE)} /\ \A m \in S : CommandOK(m)'
    BY <1>1, <1>2 DEF CommandOK, SendGetData
  <2>2. Replace(r, R) /\ net' = net (+) SetToBag(S) /\ transit' = transit
    BY <1>6
  <2> HIDE DEF R, S
  <2> QED
    BY <1>4, <2>1, <2>2
<1>7. CASE /\ r.hash \notin stored[r.node]
           /\ Replace(r, {Handler(r.node, r.from, TRUE)})
           /\ net' = net (+) SetToBag({SendGetBlocks(r.node, r.from, Prev[r.hash])})
           /\ SetTransit(r.node, r.from, <<>>)
  <2> DEFINE R == {Handler(r.node, r.from, TRUE)}
             S == {SendGetBlocks(r.node, r.from, Prev[r.hash])}
  <2>1. Prev[r.hash] \in stored[r.from]
    BY <1>1, <1>7 DEF ClosedSets, Closed
  <2>2. \A m \in S : CommandOK(m)'
    BY <1>1, <1>2, <2>1 DEF CommandOK, SendGetBlocks
  <2>3. R \in SUBSET {Handler(r.node, r.from, TRUE)}
    OBVIOUS
  <2>4. Replace(r, R) /\ net' = net (+) SetToBag(S) /\ SetTransit(r.node, r.from, <<>>)
    BY <1>7
  <2> HIDE DEF R, S
  <2> QED
    BY <1>4, <2>2, <2>3, <2>4
<1> QED
  BY <1>5, <1>6, <1>7 DEF ReceivedBlockInfo

\* A block whose predecessor is stored is added.
LEMMA AdoptKeeps ==
  ASSUME KnownBlocksInv, NEW n \in Node, NEW h \in Hash, Prev[h] \in stored[n], Adopt(n, h)
  PROVE  /\ stored' \in [Node -> ClosedSets] /\ tip' \in [Node -> Hash] /\ StoreInv'
         /\ \A o \in Node : stored[o] \subseteq stored'[o]
         /\ h \in stored'[n]
<1>1. stored \in [Node -> ClosedSets] /\ tip \in [Node -> Hash] /\ StoreInv
  BY DEF KnownBlocksInv, SyncTypeOK
<1>2. stored[n] \cup {h} \in ClosedSets
  BY <1>1 DEF ClosedSets, Closed
<1>3. stored' = [stored EXCEPT ![n] = stored[n] \cup {h}]
  BY DEF Adopt
<1>4. /\ stored' \in [Node -> ClosedSets] /\ h \in stored'[n]
      /\ \A o \in Node : stored[o] \subseteq stored'[o]
  BY <1>1, <1>2, <1>3
<1>5. PICK t \in {h, tip[n]} : tip' = [tip EXCEPT ![n] = t]
  BY DEF Adopt
<1>6. tip' \in [Node -> Hash]
  BY <1>1, <1>5
<1>7. ASSUME NEW o \in Node
      PROVE  Genesis \in stored'[o] /\ tip'[o] \in stored'[o]
  <2>1. Genesis \in stored[o] /\ tip[o] \in stored[o]
    BY <1>1 DEF StoreInv
  <2>2. CASE o = n
    BY <1>1, <1>4, <1>5, <2>1, <2>2
  <2>3. CASE o # n
    BY <1>1, <1>4, <1>5, <2>1, <2>3
  <2> QED
    BY <2>2, <2>3
<1> QED
  BY <1>4, <1>6, <1>7 DEF StoreInv

\* The announcement of a block that the node has.
LEMMA AnnouncementOK ==
  ASSUME NEW n \in Node, NEW h, h \in stored'[n], NEW m \in SendBlockToAll(n, h)
  PROVE  CommandOK(m)'
<1>1. PICK to \in Node \ {n} : m = SendInv(n, to, <<h>>)
  BY DEF SendBlockToAll
<1>2. <<h>> \in Seq(stored'[n])
  BY ListOfOne
<1> QED
  BY <1>1, <1>2 DEF CommandOK, SendInv

LEMMA HandleBlockStep ==
  ASSUME KnownBlocksInv, NEW m \in BagToSet(net), HandleBlock(m)
  PROVE  KnownBlocksInv'
<1> DEFINE n == m.to
           f == m.from
           add == CanAdd(stored[n], m.data)
           S == IF add THEN SendBlockToAll(n, m.data) ELSE {}
           R == {Handler(n, f, TRUE)}
<1>1. n \in Node /\ f \in Node /\ m.data \in stored[f] /\ stored[f] \subseteq Hash /\ m.data \in Hash
  BY CommandKnown DEF HandleBlock, CommandOK
<1>2. transit \in [Node -> [Node -> Seq(Hash)]] /\ \A a, b \in Node : transit[a][b] \in Seq(stored[b])
  BY DEF KnownBlocksInv, SyncTypeOK, TransitInv
<1>3. /\ running' = running (+) SetToBag(R) /\ Handled(m, S)
      /\ UNCHANGED <<transit, starts, lost>>
  BY DEF HandleBlock
<1>4. add => Adopt(n, m.data)
  BY DEF HandleBlock
<1>5. ~ add => UNCHANGED <<stored, tip>>
  BY DEF HandleBlock
<1> HIDE DEF n, f
<1>6. /\ stored' \in [Node -> ClosedSets] /\ tip' \in [Node -> Hash] /\ StoreInv'
      /\ \A o \in Node : stored[o] \subseteq stored'[o]
  <2>1. CASE add
    <3>1. Prev[m.data] \in stored[n]
      BY <2>1 DEF CanAdd
    <3> QED
      BY <1>1, <1>4, <2>1, <3>1, AdoptKeeps
  <2>2. CASE ~ add
    BY <1>3, <1>5, <2>2, SameStores
  <2> QED
    BY <2>1, <2>2
<1>7. \A c \in S : CommandOK(c)'
  <2>1. CASE add
    <3>1. Prev[m.data] \in stored[n]
      BY <2>1 DEF CanAdd
    <3>2. m.data \in stored'[n]
      BY <1>1, <1>4, <2>1, <3>1, AdoptKeeps
    <3> HIDE DEF add
    <3> QED
      BY <1>1, <2>1, <3>2, AnnouncementOK
  <2>2. CASE ~ add
    BY <2>2
  <2> QED
    BY <2>1, <2>2
<1> HIDE DEF add
<1>8. transit' \in [Node -> [Node -> Seq(Hash)]] /\ TransitInv'
  BY <1>2, <1>3, <1>6, SeqGrows DEF TransitInv
<1>9. \A r \in R : HandlerOK(r)'
  BY <1>1, HandlerNew
<1> HIDE DEF R, S
<1>10. BagToSet(running') \subseteq BagToSet(running) \cup R /\ BagToSet(net') \subseteq BagToSet(net) \cup S
  BY <1>3, BagMembers DEF Handled
<1>11. starts' \in [Node -> 0 .. MaxStarts] /\ lost' \in 0 .. MaxLost
  BY <1>3 DEF KnownBlocksInv, SyncTypeOK
<1> QED
  BY <1>6, <1>7, <1>8, <1>9, <1>10, <1>11, StepKeeps

LEMMA MakeBlockStep ==
  ASSUME KnownBlocksInv, NEW n \in Node, NEW h \in Hash, MakeBlock(n, h)
  PROVE  KnownBlocksInv'
<1> DEFINE S == SendBlockToAll(n, h)
           R == {}
<1>1. Prev[h] = tip[n] /\ Adopt(n, h) /\ net' = net (+) SetToBag(S) /\ UNCHANGED <<transit, running, starts, lost>>
  BY DEF MakeBlock
<1>2. Prev[h] \in stored[n]
  BY <1>1 DEF KnownBlocksInv, StoreInv
<1>3. /\ stored' \in [Node -> ClosedSets] /\ tip' \in [Node -> Hash] /\ StoreInv'
      /\ \A o \in Node : stored[o] \subseteq stored'[o]
      /\ h \in stored'[n]
  BY <1>1, <1>2, AdoptKeeps
<1>4. transit' \in [Node -> [Node -> Seq(Hash)]]
  BY <1>1 DEF KnownBlocksInv, SyncTypeOK
<1>5. TransitInv'
  <2>1. \A a, b \in Node : transit'[a][b] \in Seq(stored[b])
    BY <1>1 DEF KnownBlocksInv, TransitInv
  <2> QED
    BY <1>3, <2>1, SeqGrows DEF TransitInv
<1>6. \A c \in S : CommandOK(c)'
  BY <1>3, AnnouncementOK
<1>7. \A r \in R : HandlerOK(r)'
  OBVIOUS
<1> HIDE DEF R, S
<1>8. BagToSet(running') \subseteq BagToSet(running) \cup R /\ BagToSet(net') \subseteq BagToSet(net) \cup S
  BY <1>1, BagMembers
<1>9. starts' \in [Node -> 0 .. MaxStarts] /\ lost' \in 0 .. MaxLost
  BY <1>1 DEF KnownBlocksInv, SyncTypeOK
<1> QED
  BY <1>3, <1>4, <1>5, <1>6, <1>7, <1>8, <1>9, StepKeeps

LEMMA StartServerStep ==
  ASSUME KnownBlocksInv, NEW n \in Node, StartServer(n)
  PROVE  KnownBlocksInv'
<1> DEFINE S == SendVersionToNodes(n)
           R == {}
<1>1. /\ transit' = [transit EXCEPT ![n] = [f \in Node |-> <<>>]]
      /\ starts[n] < MaxStarts /\ starts' = [starts EXCEPT ![n] = @ + 1]
      /\ net' = net (+) SetToBag(S)
      /\ UNCHANGED <<stored, tip, lost>>
  BY DEF StartServer
<1>2. stored \in [Node -> ClosedSets] /\ tip \in [Node -> Hash] /\ transit \in [Node -> [Node -> Seq(Hash)]]
      /\ starts \in [Node -> 0 .. MaxStarts] /\ lost \in 0 .. MaxLost /\ StoreInv /\ TransitInv
  BY DEF KnownBlocksInv, SyncTypeOK
<1>3. /\ stored' \in [Node -> ClosedSets] /\ tip' \in [Node -> Hash] /\ StoreInv'
      /\ (\A o \in Node : stored[o] \subseteq stored'[o]) /\ lost' \in 0 .. MaxLost
  BY <1>1, <1>2 DEF StoreInv
<1>4. starts' \in [Node -> 0 .. MaxStarts]
  BY <1>1, <1>2, SyncAssumption
<1>5. transit' \in [Node -> [Node -> Seq(Hash)]] /\ TransitInv'
  BY <1>1, <1>2 DEF TransitInv
<1>6. \A c \in S : CommandOK(c)'
  BY DEF CommandOK, SendVersionToNodes, SendVersion
<1>7. \A r \in R : HandlerOK(r)'
  OBVIOUS
<1>8. BagToSet(running') \subseteq BagToSet(running) \cup R
  BY DEF StartServer, BagToSet
<1> HIDE DEF R, S
<1>9. BagToSet(net') \subseteq BagToSet(net) \cup S
  BY <1>1, BagMembers
<1> QED
  BY <1>3, <1>4, <1>5, <1>6, <1>7, <1>8, <1>9, StepKeeps

(***************************************************************************)
(* The theorems                                                            *)
(***************************************************************************)

\* The blocks a node begins with.
LEMMA InitKnown == Init => KnownBlocksInv
<1> SUFFICES ASSUME Init PROVE KnownBlocksInv
  OBVIOUS
<1>1. BagToSet(running) = {} /\ BagToSet(net) = {}
  BY DEF Init, EmptyBag, BagToSet, SetToBag
<1>2. stored \in [Node -> ClosedSets] /\ \A n \in Node : Genesis \in stored[n]
  BY SyncAssumption DEF Init
<1>3. tip \in [Node -> Hash] /\ \A n \in Node : tip[n] \in stored[n]
  BY DEF Init, Highest
<1>4. transit \in [Node -> [Node -> Seq(Hash)]] /\ \A n, f \in Node : transit[n][f] = <<>>
  BY DEF Init
<1>5. TransitInv
  <2>1. ASSUME NEW B PROVE <<>> \in Seq(B)
    OBVIOUS
  <2> QED
    BY <1>4, <2>1 DEF TransitInv
<1>6. starts \in [Node -> 0 .. MaxStarts] /\ lost \in 0 .. MaxLost
  BY SyncAssumption DEF Init
<1> QED
  BY <1>1, <1>2, <1>3, <1>4, <1>5, <1>6 DEF KnownBlocksInv, SyncTypeOK, StoreInv

\* Every step keeps the invariant.
LEMMA NextKnown == KnownBlocksInv /\ [Next]_vars => KnownBlocksInv'
<1> SUFFICES ASSUME KnownBlocksInv, [Next]_vars PROVE KnownBlocksInv'
  OBVIOUS
<1>1. CASE Deliver
  <2>1. PICK m \in BagToSet(net) : Handle(m)
    BY <1>1 DEF Deliver
  <2> QED
    BY <2>1, HandleVersionStep, HandleGetBlocksStep, HandleGetBlocksUpperStep, HandleGetDataStep,
       HandleInvStep, HandleBlockStep DEF Handle
<1>2. CASE Proceed
  BY <1>2, ShiftNextBlockStep, ReceivedBlockInfoStep DEF Proceed
<1>3. CASE \E m \in BagToSet(net) : Lose(m)
  BY <1>3, LoseStep
<1>4. CASE \E n \in Node : StartServer(n) \/ \E h \in Hash : MakeBlock(n, h)
  BY <1>4, StartServerStep, MakeBlockStep
<1>5. CASE UNCHANGED vars
  BY <1>5 DEF vars, KnownBlocksInv, SyncTypeOK, StoreInv, TransitInv, HandlerOK, CommandOK
<1> QED
  BY <1>1, <1>2, <1>3, <1>4, <1>5 DEF Next

(***************************************************************************)
(* Whatever was told by a node or is on its way from it names blocks that  *)
(* the node has, for every number of nodes, any tree of blocks, lists of   *)
(* any length, and any number of restarts and lost commands.               *)
(***************************************************************************)
THEOREM SyncInvariance == Spec => []KnownBlocksInv
<1>1. Init => KnownBlocksInv
  BY InitKnown
<1>2. KnownBlocksInv /\ [Next]_vars => KnownBlocksInv'
  BY NextKnown
<1> QED
  BY <1>1, <1>2, PTL DEF Spec

\* The state of the exchange is well formed.
THEOREM SyncTypes == Spec => []SyncTypeOK
<1>1. KnownBlocksInv => SyncTypeOK
  BY DEF KnownBlocksInv
<1> QED
  BY <1>1, SyncInvariance, PTL

(***************************************************************************)
(* No node is ever asked for a block that it does not have: the loops of   *)
(* handleGetBlocks and handleGetData never meet a missing block.           *)
(***************************************************************************)
THEOREM RequestsAnswered == Spec => []RequestsAreAnswerable
<1>1. KnownBlocksInv => RequestsAreAnswerable
  BY DEF KnownBlocksInv, CommandOK, RequestsAreAnswerable
<1> QED
  BY <1>1, SyncInvariance, PTL
=============================================================================
