-------------------------------- MODULE Sync --------------------------------
(***************************************************************************)
(* How nodes copy blocks from each other (node/server/handle.go,           *)
(* transit.go and the one-way commands of lib/nodeclient).  Each command   *)
(* is sent on a connection of its own: commands arrive in any order, or    *)
(* not at all.  Every block store is the atomic one of ForkChoice, which   *)
(* module Blockchain implements.                                           *)
(*                                                                         *)
(* A handler holds mutex lockBC from its first use of the block store to   *)
(* its end.  The map of blocks in transit has no lock: each call of its    *)
(* methods is a step, and those of other handlers come in between.  What   *)
(* follows such a call, up to the next one, is part of its step: only the  *)
(* holder of lockBC reads the store, and commands travel by themselves.    *)
(***************************************************************************)
EXTENDS BlockTree, Integers, Sequences, SequencesExt, FiniteSets, FiniteSetsExt, Bags

CONSTANTS
  Node,       \* nodes; every node knows the address of every other one
  Stores,     \* the block stores the nodes may begin with: functions on Node
  Maker,      \* Maker[h]: the node that may find block h while the system runs; a partial function
  MaxCount,   \* most blocks in an inventory (1000)
  MaxStarts,  \* bound on the starts of each node
  MaxLost     \* bound on the commands that are lost

ASSUME SyncAssumption ==
  /\ Stores \subseteq [Node -> ClosedSets]
  /\ \A s \in Stores, n \in Node : Genesis \in s[n]
  /\ \A h \in DOMAIN Maker : h \in Hash /\ Maker[h] \in Node
  /\ {MaxCount, MaxStarts, MaxLost} \subseteq Nat

VARIABLES
  stored, tip,  \* the block store of each node
  transit,      \* transit[n][f]: hashes n still has to ask node f for
  running,      \* handlers at work on a list of blocks in transit, a bag
  net,          \* commands on their way, a bag
  starts,       \* how often each node was started
  lost          \* how many commands were lost

vars == <<stored, tip, transit, running, net, starts, lost>>

Highest(S) == {h \in S : \A i \in S : Height[i] <= Height[h]}

Init ==
  /\ stored \in Stores
  /\ tip \in {t \in [Node -> Hash] : \A n \in Node : t[n] \in Highest(stored[n])}
  /\ transit = [n \in Node |-> [f \in Node |-> <<>>]]
  /\ running = EmptyBag
  /\ net = EmptyBag
  /\ starts = [n \in Node |-> 0]
  /\ lost = 0

-----------------------------------------------------------------------------
(***************************************************************************)
(* Commands.                                                               *)
(***************************************************************************)
SendVersion(n, to, height)     == [type |-> "version", from |-> n, to |-> to, data |-> height]
SendGetBlocksUpper(n, to, h)   == [type |-> "getblocksup", from |-> n, to |-> to, data |-> h]
SendGetBlocks(n, to, h)        == [type |-> "getblocks", from |-> n, to |-> to, data |-> h]
SendInv(n, to, list)           == [type |-> "inv", from |-> n, to |-> to, data |-> list]
SendGetData(n, to, h)          == [type |-> "getdata", from |-> n, to |-> to, data |-> h]
SendBlock(n, to, h)            == [type |-> "block", from |-> n, to |-> to, data |-> h]

\* No handler of node n holds lockBC between two of its steps.
Free(n) == \A r \in BagToSet(running) : ~ (r.node = n /\ r.locked)

\* Command m was handled and the commands in set S were sent.
Handled(m, S) == net' = (net (-) SetToBag({m})) (+) SetToBag(S)

\* SendBlockToAll: the node the block came from is not left out.
SendBlockToAll(n, h) == {SendInv(n, to, <<h>>) : to \in Node \ {n}}

SendVersionToNodes(n) == {SendVersion(n, to, Height[tip[n]]) : to \in Node \ {n}}

-----------------------------------------------------------------------------
(***************************************************************************)
(* Lists of blocks.  Hashes of a branch from a block downwards, and of the *)
(* main chain from a block upwards.                                        *)
(***************************************************************************)
GetBlocksShortInfo(h) ==
  [i \in 1 .. Min({Height[h], MaxCount}) + 1 |->
     CHOOSE b \in Branch[h] : Height[b] = Height[h] + 1 - i]

GetNextBlocks(n, h) ==
  IF h \in Branch[tip[n]]
  THEN [i \in 1 .. Min({Height[tip[n]] + 1 - Height[h], MaxCount}) |->
          CHOOSE b \in Branch[tip[n]] : Height[b] = Height[h] + i - 1]
  ELSE <<h>>

-----------------------------------------------------------------------------
(***************************************************************************)
(* handleVersion, handleGetBlocks, handleGetBlocksUpper, handleGetData.    *)
(***************************************************************************)
HandleVersion_sameToo(m) ==
  /\ m.type = "version" /\ Free(m.to)
  /\ Handled(m, IF Height[tip[m.to]] < m.data THEN {SendGetBlocksUpper(m.to, m.from, tip[m.to])}
                ELSE {SendVersion(m.to, m.from, Height[tip[m.to]])})
  /\ UNCHANGED <<stored, tip, transit, running, starts, lost>>

HandleVersion(m) ==
  /\ m.type = "version" /\ Free(m.to)
  /\ Handled(m, IF Height[tip[m.to]] < m.data THEN {SendGetBlocksUpper(m.to, m.from, tip[m.to])}
                ELSE IF Height[tip[m.to]] > m.data THEN {SendVersion(m.to, m.from, Height[tip[m.to]])}
                ELSE {})
  /\ UNCHANGED <<stored, tip, transit, running, starts, lost>>

\* Lowest block first.
HandleGetBlocks(m) ==
  /\ m.type = "getblocks" /\ Free(m.to)
  /\ Handled(m, {SendInv(m.to, m.from, Reverse(GetBlocksShortInfo(m.data)))})
  /\ UNCHANGED <<stored, tip, transit, running, starts, lost>>

\* The list of GetBlocksAfter is turned round as well, although it begins
\* with the lowest block.
HandleGetBlocksUpper(m) ==
  LET n == m.to
      blocks == IF m.data \in stored[n] THEN GetNextBlocks(n, m.data) ELSE GetBlocksShortInfo(tip[n])
  IN  /\ m.type = "getblocksup" /\ Free(n)
      /\ Handled(m, {SendInv(n, m.from, Reverse(blocks))})
      /\ UNCHANGED <<stored, tip, transit, running, starts, lost>>

HandleGetData(m) ==
  /\ m.type = "getdata" /\ Free(m.to)
  /\ Handled(m, IF m.data \in stored[m.to] THEN {SendBlock(m.to, m.from, m.data)} ELSE {})
  /\ UNCHANGED <<stored, tip, transit, running, starts, lost>>

-----------------------------------------------------------------------------
(***************************************************************************)
(* Blocks in transit.                                                      *)
(***************************************************************************)
CanAdd_anyPrev(S, h) == h \notin S
CanAdd(S, h) == h \notin S /\ Prev[h] \in S      \* CheckBlockState = 0

(***************************************************************************)
(* A handler at work on the list of blocks that node has from node from:   *)
(* hash is the one it took from the list, NoHash between two of them;      *)
(* locked, it holds lockBC.                                                *)
(***************************************************************************)
Handler(n, f, locked) == [node |-> n, from |-> f, hash |-> NoHash, locked |-> locked]

SetTransit(n, f, list) == transit' = [transit EXCEPT ![n][f] = list]

\* handleInv: AddBlocks
HandleInv(m) ==
  /\ m.type = "inv"
  /\ SetTransit(m.to, m.from, transit[m.to][m.from] \o m.data)
  /\ running' = running (+) SetToBag({Handler(m.to, m.from, FALSE)})
  /\ Handled(m, {})
  /\ UNCHANGED <<stored, tip, starts, lost>>

\* The handler leaves the bag, or goes on as handler next.
Replace(r, next) == running' = (running (-) SetToBag({r})) (+) SetToBag(next)

(***************************************************************************)
(* GetBlocksCount and ShiftNextBlock: the hash may be from the list that   *)
(* another handler added.  The loop is over when there is none.            *)
(***************************************************************************)
ShiftNextBlock(r) ==
  LET list == transit[r.node][r.from]
  IN  /\ r.hash = NoHash
      /\ IF list = <<>>
         THEN Replace(r, {}) /\ UNCHANGED transit
         ELSE /\ Replace(r, {[r EXCEPT !.hash = Head(list)]})
              /\ SetTransit(r.node, r.from, Tail(list))
      /\ UNCHANGED <<stored, tip, net, starts, lost>>

(***************************************************************************)
(* ReceivedBlockFromOtherNode.  A block that exists is skipped.  One that  *)
(* can be added is asked for, and the loop is over.  If its predecessor is *)
(* missing too, the whole list is given up (CleanBlocks), a list of the    *)
(* blocks down from the predecessor is asked for, and the loop goes on     *)
(* with what another handler may have put into the list by then.           *)
(***************************************************************************)
ReceivedBlockInfo(r) ==
  LET S == stored[r.node]
  IN  /\ r.hash # NoHash
      /\ r.locked \/ Free(r.node)
      /\ \/ /\ r.hash \in S
            /\ Replace(r, {Handler(r.node, r.from, TRUE)})
            /\ UNCHANGED <<transit, net>>
         \/ /\ CanAdd(S, r.hash)
            /\ Replace(r, {})
            /\ net' = net (+) SetToBag({SendGetData(r.node, r.from, r.hash)})
            /\ UNCHANGED transit
         \/ /\ r.hash \notin S /\ ~ CanAdd(S, r.hash)
            /\ Replace(r, {Handler(r.node, r.from, TRUE)})
            /\ net' = net (+) SetToBag({SendGetBlocks(r.node, r.from, Prev[r.hash])})
            /\ SetTransit(r.node, r.from, <<>>)
      /\ UNCHANGED <<stored, tip, starts, lost>>

(***************************************************************************)
(* handleBlock: a block that can be added is added and announced to all    *)
(* nodes; the handler goes on with the sender's list in any case.          *)
(***************************************************************************)
Adopt(n, h) ==
  /\ stored' = [stored EXCEPT ![n] = @ \cup {h}]
  /\ tip' = [tip EXCEPT ![n] = IF Height[h] > Height[@] THEN h ELSE @]


HandleBlock(m) ==
  LET n   == m.to
      add == CanAdd(stored[n], m.data)
  IN  /\ m.type = "block" /\ Free(n)
      /\ IF add THEN Adopt(n, m.data) ELSE UNCHANGED <<stored, tip>>
      /\ Handled(m, IF add THEN SendBlockToAll(n, m.data) ELSE {})
      /\ running' = running (+) SetToBag({Handler(n, m.from, TRUE)})
      /\ UNCHANGED <<transit, starts, lost>>

-----------------------------------------------------------------------------
\* The block maker found a block on top of the main chain.
MakeBlock_notAdded(n, h) ==
  /\ h \in DOMAIN Maker /\ Maker[h] = n
  /\ \A o \in Node : h \notin stored[o]
  /\ Prev[h] = tip[n] /\ Free(n)
  /\ net' = net (+) SetToBag(SendBlockToAll(n, h))
  /\ UNCHANGED <<stored, tip, transit, running, starts, lost>>

MakeBlock(n, h) ==
  /\ h \in DOMAIN Maker /\ Maker[h] = n
  /\ \A o \in Node : h \notin stored[o]
  /\ Prev[h] = tip[n] /\ Free(n)
  /\ Adopt(n, h)
  /\ net' = net (+) SetToBag(SendBlockToAll(n, h))
  /\ UNCHANGED <<transit, running, starts, lost>>

(***************************************************************************)
(* A node is started, again perhaps: what it kept in memory is gone, and   *)
(* it tells its version to all nodes.                                      *)
(***************************************************************************)
StartServer(n) ==
  /\ starts[n] < MaxStarts
  /\ starts' = [starts EXCEPT ![n] = @ + 1]
  /\ transit' = [transit EXCEPT ![n] = [f \in Node |-> <<>>]]
  /\ LET mine == {r \in BagToSet(running) : r.node = n}
     IN  running' = [r \in DOMAIN running \ mine |-> running[r]]
  /\ net' = net (+) SetToBag(SendVersionToNodes(n))
  /\ UNCHANGED <<stored, tip, lost>>

\* SendData: the connection could not be made, or was closed.
Lose(m) ==
  /\ lost < MaxLost
  /\ lost' = lost + 1
  /\ Handled(m, {})
  /\ UNCHANGED <<stored, tip, transit, running, starts>>

Handle(m) ==
  \/ HandleVersion(m) \/ HandleGetBlocks(m) \/ HandleGetBlocksUpper(m) \/ HandleGetData(m)
  \/ HandleInv(m) \/ HandleBlock(m)

Deliver == \E m \in BagToSet(net) : Handle(m)
Proceed == \E r \in BagToSet(running) : ShiftNextBlock(r) \/ ReceivedBlockInfo(r)

Next ==
  \/ Deliver \/ Proceed
  \/ \E m \in BagToSet(net) : Lose(m)
  \/ \E n \in Node : StartServer(n) \/ \E h \in Hash : MakeBlock(n, h)

Spec == Init /\ [][Next]_vars

(***************************************************************************)
(* Each connection that was accepted has a goroutine that handles it.      *)
(* Commands are finitely many, so that it is enough that some command is   *)
(* handled whenever there is one.  Nobody is obliged to start a node or to *)
(* find a block.                                                           *)
(***************************************************************************)
FairSpec == Spec /\ WF_vars(Deliver) /\ WF_vars(Proceed)

-----------------------------------------------------------------------------
(***************************************************************************)
(* Properties.                                                             *)
(***************************************************************************)
\* Stores, lists, handlers and commands have their types.
SyncTypeOK ==
  /\ stored \in [Node -> ClosedSets]
  /\ tip \in [Node -> Hash]
  /\ transit \in [Node -> [Node -> Seq(Hash)]]
  /\ \A r \in BagToSet(running) :
       r \in [node : Node, from : Node, hash : Hash \cup {NoHash}, locked : BOOLEAN]
  /\ \A m \in BagToSet(net) : {m.from, m.to} \subseteq Node
  /\ starts \in [Node -> 0 .. MaxStarts]
  /\ lost \in 0 .. MaxLost

(***************************************************************************)
(* A node is asked for blocks it has.  handleGetBlocks walks down from the *)
(* block it is asked for without looking for errors: for a block that it   *)
(* does not have, the handler dereferences a nil block and the process     *)
(* ends.  The request was made from a list of hashes that arrived earlier. *)
(***************************************************************************)
RequestsAreAnswerable ==
  \A m \in BagToSet(net) : m.type \in {"getblocks", "getdata"} => m.data \in stored[m.to]

(***************************************************************************)
(* Nodes do not answer each other forever: when no new block is found the  *)
(* exchange of versions, lists and blocks comes to an end, also with lost  *)
(* commands, restarts, and lists that two handlers work on.                *)
(***************************************************************************)
Quiet == net = EmptyBag /\ running = EmptyBag
ExchangeEnds == <>[]Quiet

Best == Max({Height[tip[n]] : n \in Node})
Behind(n) == Best - Height[tip[n]]
Heights == {Height[h] : h \in Hash}
Started == MapThenSumSet(LAMBDA n : starts[n], Node)

\* One start, and no command is lost and no block is found that is higher.
OneStart(b) == [](lost = 0 /\ Best = b /\ Started <= 1) /\ <>(Started = 1)

(***************************************************************************)
(* How high a node with tip x gets in the exchange that a start sets off,  *)
(* when the other one has tip y.  When the other one has block x, it names *)
(* MaxCount blocks from x on, of which the highest is left out, unless it  *)
(* is the next one.  Otherwise it names MaxCount + 1 blocks down from y,   *)
(* and they are all copied when the lowest of them follows a common block; *)
(* nothing is said of longer forks.                                        *)
(***************************************************************************)
Listed(x, y) == Min({Height[y], Height[x] + MaxCount - 1})
Fork(x, y)   == Max({Height[h] : h \in Branch[x] \cap Branch[y]})

Reach(x, y) ==
  IF x \in Branch[y]
  THEN IF Listed(x, y) = Height[x] + 1 THEN Listed(x, y) ELSE Listed(x, y) - 1
  ELSE IF Fork(x, y) + 1 >= Height[y] - MaxCount THEN Height[y] ELSE 0

FirstTips == {t \in [Node -> Hash] : \E s \in Stores : \A n \in Node : t[n] \in Highest(s[n])}


(***************************************************************************)
(* handleVersion "checks if index is bogger then request for a rest of     *)
(* blocks" (server/handle.go): the node that is behind gets the rest, and  *)
(* is not behind any more.                                                 *)
(***************************************************************************)
CatchesUp ==
  \A b \in Heights : OneStart(b) => <>[](\A n \in Node : Behind(n) = 0)
=============================================================================
