--------------------------- MODULE ServerLocksInv ---------------------------
(***************************************************************************)
(* The inductive invariant of ServerLocks: who may be at work on the       *)
(* shared connection, and what that connection then looks like, up to the  *)
(* first time that goroutines meet there outside NodeNet.lock.             *)
(***************************************************************************)
EXTENDS ServerLocks

\* The handlers that use the shared node.
SharedKinds == {"addr", "addnode", "removenode", "version"}

\* The way through the shared connection: before and after the object exists.
BeforeObject == {"check", "need", "open"}
WithObject   == {"local", "opened", "read", "get", "lock", "use", "closing",
                 "unlock", "closeObject", "clean"}
Shared       == BeforeObject \cup WithObject \cup {"leave"}

Labels == Shared \cup {"new", "cloneNodes", "cloneClose", "main", "bc", "again", "nodes",
                       "close", "net", "done"}

InShared(p) == pc[p] \in Shared

Object == [opened : BOOLEAN, bc : BOOLEAN, nodes : BOOLEAN]

LocksType ==
  /\ bcLocked \in BOOLEAN /\ nodesLocked \in BOOLEAN
  /\ netLocked \in BOOLEAN /\ locallock \in BOOLEAN
  /\ objs \in Seq(Object)
  /\ db \in 0 .. Len(objs)
  /\ pc \in [Routine -> Labels]
  /\ ownBC \in [Routine -> BOOLEAN] /\ ownNodes \in [Routine -> BOOLEAN]
  /\ mustClose \in [Routine -> BOOLEAN]
  /\ h \in [Routine -> Nat]
  /\ ret \in [Routine -> {"none", "nodes", "version", "height"}]

\* Only some handlers come to the shared connection, and one at a time.
OneInShared ==
  /\ \A p \in Routine : pc[p] \in {"net"} \cup Shared => Kind[p] \in SharedKinds
  /\ \A p \in Routine : InShared(p) /\ (pc[p] = "check" \/ ret[p] = "nodes") => netLocked
  /\ \A p \in Routine : InShared(p) /\ pc[p] # "check" /\ ret[p] # "nodes" => Kind[p] = "addnode"
  /\ \A p, q \in Routine : InShared(p) /\ InShared(q) => p = q

(***************************************************************************)
(* The goroutine at work found no connection, so that it is going to close *)
(* what it opens; it opened the object that db names, under locallock.     *)
(***************************************************************************)
SharedAt(p) ==
  /\ pc[p] # "check" => mustClose[p] /\ ret[p] # "none"
  /\ pc[p] \in {"check", "open", "leave"} => db = 0
  /\ pc[p] = "need" => (db = 0 <=> ret[p] \in {"nodes", "version"})
  /\ pc[p] \in WithObject => db # 0
  /\ pc[p] \in {"local", "closeObject", "clean"} \/ db = 0 => ~ locallock
  /\ pc[p] \in WithObject \ {"local", "closeObject", "clean"} => locallock
  /\ pc[p] = "need" /\ db # 0 => locallock /\ objs[db].opened
  /\ pc[p] \in {"read", "get", "lock", "use", "closing", "unlock"} => ret[p] # "version" /\ objs[db].opened
  /\ pc[p] = "closeObject" => objs[db].opened
  /\ pc[p] = "clean" => objs[db] = Closed
  /\ pc[p] \in {"get", "lock", "use"} => h[p] = db
  /\ pc[p] = "use" => IF ret[p] = "nodes" THEN objs[db].nodes ELSE objs[db].bc

\* Without a goroutine at work there is no connection.
SharedInv ==
  /\ (\A p \in Routine : ~ InShared(p)) => db = 0 /\ ~ locallock
  /\ \A p \in Routine : InShared(p) => SharedAt(p)

\* A locked mutex belongs to a connection.
HolderInv ==
  /\ \A p \in Routine : pc[p] = "done" /\ (ownBC[p] \/ ownNodes[p]) => Kind[p] = "mintErr"
  /\ bcLocked => (\E p \in Routine : ownBC[p]) \/ (db # 0 /\ objs[db].bc)
  /\ nodesLocked => (\E p \in Routine : ownNodes[p]) \/ (db # 0 /\ objs[db].nodes)

(***************************************************************************)
(* NodeNet.lock, together with the order of the steps, gives each          *)
(* goroutine the shared connection for itself.  handleAddNode keeps it     *)
(* after it gave that mutex back: the next one that comes meets it.        *)
(***************************************************************************)
LocksInv == LocksType /\ OneInShared /\ SharedInv /\ HolderInv /\ ~ crashed

LocksUnlessMet == ~ met => LocksInv

-----------------------------------------------------------------------------
(***************************************************************************)
(* What a goroutine holds at each point: lockNodes only where it waits for *)
(* nothing, lockBC where it may wait for the nodes, and handleVersion on   *)
(* its way through the shared node.                                        *)
(***************************************************************************)
OwnOrder(p) ==
  /\ ownNodes[p] => pc[p] \in {"cloneClose", "close"}
  /\ ownBC[p] => \/ pc[p] \in {"bc", "nodes", "close", "done"}
                 \/ Kind[p] = "version" /\ pc[p] \in {"net"} \cup Shared

\* NodeNet.lock has a holder.
NetOrder == netLocked => \E p \in Routine : InShared(p) /\ (pc[p] = "check" \/ ret[p] = "nodes")

\* An object of the shared connection is used for one file, and locks once.
ObjectOrder(p) ==
  InShared(p) /\ db # 0 =>
    /\ objs[db].nodes => ret[p] = "nodes"
    /\ objs[db].bc => ret[p] = "height"
    /\ pc[p] \in {"local", "lock"} => ~ objs[db].nodes /\ ~ objs[db].bc

OrderInv == NetOrder /\ \A p \in Routine : OwnOrder(p) /\ ObjectOrder(p)
=============================================================================
