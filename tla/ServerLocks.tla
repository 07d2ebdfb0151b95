----------------------------- MODULE ServerLocks -----------------------------
(***************************************************************************)
(* How the goroutines of a node daemon share the databases: the request    *)
(* handlers and the block maker (node/server), the connection objects      *)
(* (node/nodemanager/database.go, nodeslist.go) and the mutexes of         *)
(* node/database/manager.go.                                               *)
(*                                                                         *)
(* Each goroutine works on a clone of the node, whose connection no other  *)
(* goroutine sees; the mutexes lockBC and lockNodes are common to all      *)
(* clones.  A mutex is locked when a connection is first used for that     *)
(* file and is unlocked when the connection is closed.  Some handlers also *)
(* use the node that is not cloned, s.S.Node, and its one connection.      *)
(*                                                                         *)
(* Field db of that connection is read and written without a lock.  All    *)
(* its values have one dynamic type, so each read and each write of it is  *)
(* atomic; every interleaving of them is allowed.                          *)
(***************************************************************************)
EXTENDS Naturals, Sequences

CONSTANTS
  Routine,  \* goroutines: one per request, one per signal to the block maker
  Kind,     \* Kind[p]: what goroutine p does
  Mixes     \* the sets of goroutines that may run beside each other

(***************************************************************************)
(* "block" stands for all handlers that use the cloned node only.  An addr *)
(* request carries one address.  The block maker finds too few             *)
(* transactions ("mintNone"), makes a block ("mint"), or fails because the *)
(* transactions of the pool are not valid ("mintErr").                     *)
(***************************************************************************)
Kinds == {"block", "version", "addr", "addnode", "removenode", "mint", "mintNone", "mintErr"}

ASSUME KindAssumption ==
  /\ Kind \in [Routine -> Kinds]
  /\ Mixes \subseteq SUBSET Routine

VARIABLES
  bcLocked,    \* mutex lockBC
  nodesLocked, \* mutex lockNodes
  netLocked,   \* mutex NodeNet.lock of the shared node
  locallock,   \* mutex locallock of the shared connection
  db,          \* field db of the shared connection: an index of objs, 0 for nil
  objs,        \* the BoltDBManager objects made for the shared connection
  crashed,     \* a goroutine panicked: the process is gone
  met,         \* history: a goroutine came to the shared connection while another
               \* one used it outside NodeNet.lock
  pc,          \* where each goroutine is
  ownBC,       \* connBC of its own connection is open
  ownNodes,    \* connNodes of its own connection is open
  h,           \* the object it calls a method of
  mustClose,   \* it closes the shared connection at the end
  ret          \* what it opened the shared connection for

mutexes == <<bcLocked, nodesLocked, netLocked, locallock>>
shared  == <<db, objs>>
own     == <<ownBC, ownNodes>>
local   == <<h, mustClose, ret>>
vars    == <<mutexes, shared, crashed, met, pc, own, local>>

Closed == [opened |-> FALSE, bc |-> FALSE, nodes |-> FALSE]

Init ==
  /\ bcLocked = FALSE /\ nodesLocked = FALSE /\ netLocked = FALSE /\ locallock = FALSE
  /\ db = 0
  /\ objs = <<>>
  /\ crashed = FALSE
  /\ met = FALSE
  /\ \E M \in Mixes : pc = [p \in Routine |-> IF p \in M THEN "new" ELSE "done"]
  /\ ownBC = [p \in Routine |-> FALSE]
  /\ ownNodes = [p \in Routine |-> FALSE]
  /\ h = [p \in Routine |-> 0]
  /\ mustClose = [p \in Routine |-> FALSE]
  /\ ret = [p \in Routine |-> "none"]

At(p, l)   == pc[p] = l /\ ~ crashed
Goto(p, l) == pc' = [pc EXCEPT ![p] = l]

\* A method is called on a nil interface, or a free mutex is unlocked.
Panic == crashed' = TRUE /\ UNCHANGED <<mutexes, shared, met, pc, own, local>>

-----------------------------------------------------------------------------
(***************************************************************************)
(* The own connection.                                                     *)
(***************************************************************************)

\* CloneNode: InitNodes opens the connection and SetNodes stores the known
\* nodes again, if there are any.
Clone(p) ==
  /\ At(p, "new")
  /\ Goto(p, "cloneNodes") \/ Goto(p, "main")
  /\ UNCHANGED <<mutexes, shared, crashed, met, own, local>>

CloneNodes_staysOpen(p) ==
  /\ At(p, "cloneNodes")
  /\ ~ nodesLocked
  /\ nodesLocked' = TRUE
  /\ ownNodes' = [ownNodes EXCEPT ![p] = TRUE]
  /\ Goto(p, "main")
  /\ UNCHANGED <<bcLocked, netLocked, locallock, shared, crashed, met, ownBC, local>>

CloneNodes(p) ==
  /\ At(p, "cloneNodes")
  /\ ~ nodesLocked
  /\ nodesLocked' = TRUE
  /\ ownNodes' = [ownNodes EXCEPT ![p] = TRUE]
  /\ Goto(p, "cloneClose")
  /\ UNCHANGED <<bcLocked, netLocked, locallock, shared, crashed, met, ownBC, local>>

CloseOwn_keepsNodes(p) ==
  /\ bcLocked' = (bcLocked /\ ~ ownBC[p])
  /\ ownBC' = [ownBC EXCEPT ![p] = FALSE]
  /\ ownNodes' = [ownNodes EXCEPT ![p] = FALSE]
  /\ UNCHANGED <<nodesLocked, netLocked, locallock, shared, crashed, met, local>>

\* BoltDBManager.CloseConnection
CloseOwn(p) ==
  /\ bcLocked' = (bcLocked /\ ~ ownBC[p])
  /\ nodesLocked' = (nodesLocked /\ ~ ownNodes[p])
  /\ ownBC' = [ownBC EXCEPT ![p] = FALSE]
  /\ ownNodes' = [ownNodes EXCEPT ![p] = FALSE]
  /\ UNCHANGED <<netLocked, locallock, shared, crashed, met, local>>

CloneClose(p) ==
  /\ At(p, "cloneClose")
  /\ CloseOwn(p)
  /\ Goto(p, "main")

\* The handlers that begin with the shared node.
SharedFirst(p) ==
  /\ At(p, "main")
  /\ \/ Kind[p] = "addr" /\ Goto(p, "net")
     \/ Kind[p] = "addnode" /\ (Goto(p, "net") \/ Goto(p, "close"))   \* CheckIsKnown
     \/ Kind[p] = "removenode" /\ Goto(p, "net")
  /\ UNCHANGED <<mutexes, shared, crashed, met, own, local>>

\* The first use of the own connection for the blockchain file.
OwnBC(p) ==
  /\ \/ At(p, "main") /\ Kind[p] \in {"block", "version", "mint", "mintNone", "mintErr"}
     \/ At(p, "again")
  /\ ~ bcLocked
  /\ bcLocked' = TRUE
  /\ ownBC' = [ownBC EXCEPT ![p] = TRUE]
  /\ Goto(p, IF pc[p] = "main" THEN "bc" ELSE "close")
  /\ UNCHANGED <<nodesLocked, netLocked, locallock, shared, crashed, met, ownNodes, local>>

\* The handler is done with the blockchain: CheckAddressKnown is next, of the
\* cloned node or of the shared one.
HandlerDone(p) ==
  /\ At(p, "bc")
  /\ \/ Kind[p] = "block" /\ (Goto(p, "nodes") \/ Goto(p, "close"))
     \/ Kind[p] = "version" /\ (Goto(p, "net") \/ Goto(p, "close"))
  /\ UNCHANGED <<mutexes, shared, crashed, met, own, local>>

OwnNodes(p) ==
  /\ At(p, "nodes")
  /\ ~ nodesLocked
  /\ nodesLocked' = TRUE
  /\ ownNodes' = [ownNodes EXCEPT ![p] = TRUE]
  /\ Goto(p, "close")
  /\ UNCHANGED <<bcLocked, netLocked, locallock, shared, crashed, met, ownBC, local>>

\* TryToMakeBlock: PrepareNewBlock returned an error, and so does it.
PrepareFailed(p) ==
  /\ At(p, "bc")
  /\ Kind[p] = "mintErr"
  /\ Goto(p, "done")
  /\ UNCHANGED <<mutexes, shared, crashed, met, own, local>>

\* The connection is closed during the proof of work, and is used again to add
\* the block, or to read the transaction that is sent to the other nodes.
PrepareDone(p) ==
  /\ At(p, "bc")
  /\ \/ Kind[p] = "mint" /\ Goto(p, "again")
     \/ Kind[p] = "mintNone" /\ (Goto(p, "again") \/ Goto(p, "close"))
  /\ CloseOwn(p)

Close(p) ==
  /\ At(p, "close")
  /\ CloseOwn(p)
  /\ Goto(p, "done")

-----------------------------------------------------------------------------
(***************************************************************************)
(* The shared connection: NodeNetwork.AddNodeToKnown / RemoveNodeFromKnown *)
(* under NodeNet.lock, with NodesListStorage below it.                     *)
(***************************************************************************)
\* In SendVersionToNodes of handleAddNode, which uses the shared connection
\* and is not under NodeNet.lock.
SendsVersion(p) == ret[p] \in {"version", "height"} /\ pc[p] \notin {"close", "done"}

NetLock_noMutex(p) ==
  /\ At(p, "net")
  /\ Goto(p, "check")
  /\ met' = (met \/ \E q \in Routine : SendsVersion(q))
  /\ UNCHANGED <<mutexes, shared, crashed, own, local>>

NetLock(p) ==
  /\ At(p, "net")
  /\ ~ netLocked
  /\ netLocked' = TRUE
  /\ Goto(p, "check")
  /\ met' = (met \/ \E q \in Routine : SendsVersion(q))
  /\ UNCHANGED <<bcLocked, nodesLocked, locallock, shared, crashed, own, local>>

\* CheckConnectionIsOpen
CheckOpen(p) ==
  /\ At(p, "check")
  /\ mustClose' = [mustClose EXCEPT ![p] = (db = 0)]
  /\ ret' = [ret EXCEPT ![p] = "nodes"]
  /\ Goto(p, "need")
  /\ UNCHANGED <<mutexes, shared, crashed, met, own, h>>

(***************************************************************************)
(* OpenConnectionIfNeeded returned; SendVersionToNodes keeps the result,   *)
(* the others read field db next.                                          *)
(***************************************************************************)
OpenReturns(p, result) ==
  IF ret[p] = "version"
  THEN /\ mustClose' = [mustClose EXCEPT ![p] = result]
       /\ ret' = [ret EXCEPT ![p] = "height"]
       /\ Goto(p, "need")
  ELSE /\ Goto(p, "read")
       /\ UNCHANGED <<mustClose, ret>>

OpenNeeded(p) ==
  /\ At(p, "need")
  /\ IF db # 0
     THEN OpenReturns(p, FALSE)
     ELSE Goto(p, "open") /\ UNCHANGED <<mustClose, ret>>
  /\ UNCHANGED <<mutexes, shared, crashed, met, own, h>>

\* OpenConnection looks at db again; PrepareConnection makes a new object.
PrepareConnection(p) ==
  /\ At(p, "open")
  /\ IF db # 0
     THEN OpenReturns(p, TRUE) /\ UNCHANGED shared
     ELSE /\ objs' = Append(objs, Closed)
          /\ db' = Len(objs) + 1
          /\ Goto(p, "local")
          /\ UNCHANGED <<mustClose, ret>>
  /\ UNCHANGED <<mutexes, crashed, met, own, h>>

LockLocal(p) ==
  /\ At(p, "local")
  /\ ~ locallock
  /\ locallock' = TRUE
  /\ Goto(p, "opened")
  /\ UNCHANGED <<bcLocked, nodesLocked, netLocked, shared, crashed, met, own, local>>

\* db.db.OpenConnection
OpenObject(p) ==
  /\ At(p, "opened")
  /\ IF db = 0
     THEN Panic
     ELSE /\ objs' = [objs EXCEPT ![db].opened = TRUE]
          /\ OpenReturns(p, TRUE)
          /\ UNCHANGED <<mutexes, db, crashed, met, own, h>>

\* DB() returns field db.
ReadDB(p) ==
  /\ At(p, "read")
  /\ h' = [h EXCEPT ![p] = db]
  /\ Goto(p, "get")
  /\ UNCHANGED <<mutexes, shared, crashed, met, own, mustClose, ret>>

\* getConnectionForObjectWithCheck: a closed object is an error, an open
\* connection is used as it is, otherwise the mutex has to be locked.
GetObject(p) ==
  /\ At(p, "get")
  /\ IF h[p] = 0
     THEN Panic
     ELSE LET o    == objs[h[p]]
              conn == IF ret[p] = "nodes" THEN o.nodes ELSE o.bc
          IN  /\ Goto(p, IF ~ o.opened THEN "closing" ELSE IF conn THEN "use" ELSE "lock")
              /\ UNCHANGED <<mutexes, shared, crashed, met, own, local>>

LockNodes(p) ==
  /\ At(p, "lock")
  /\ ret[p] = "nodes"
  /\ ~ nodesLocked
  /\ nodesLocked' = TRUE
  /\ objs' = [objs EXCEPT ![h[p]].nodes = TRUE]
  /\ Goto(p, "use")
  /\ UNCHANGED <<bcLocked, netLocked, locallock, db, crashed, met, own, local>>

LockBC(p) ==
  /\ At(p, "lock")
  /\ ret[p] = "height"
  /\ ~ bcLocked
  /\ bcLocked' = TRUE
  /\ objs' = [objs EXCEPT ![h[p]].bc = TRUE]
  /\ Goto(p, "use")
  /\ UNCHANGED <<nodesLocked, netLocked, locallock, db, crashed, met, own, local>>

\* PutNode, DeleteNode, GetTopBlock.
UseObject(p) ==
  /\ At(p, "use")
  /\ Goto(p, "closing")
  /\ UNCHANGED <<mutexes, shared, crashed, met, own, local>>

\* Database.CloseConnection, by the routine that found the connection closed.
Closing(p) ==
  /\ At(p, "closing")
  /\ Goto(p, IF mustClose[p] /\ db # 0 THEN "unlock" ELSE "leave")
  /\ UNCHANGED <<mutexes, shared, crashed, met, own, local>>

UnlockLocal(p) ==
  /\ At(p, "unlock")
  /\ IF ~ locallock
     THEN Panic
     ELSE /\ locallock' = FALSE
          /\ Goto(p, "closeObject")
          /\ UNCHANGED <<bcLocked, nodesLocked, netLocked, shared, crashed, met, own, local>>

CloseObject(p) ==
  /\ At(p, "closeObject")
  /\ IF db = 0
     THEN Panic
     ELSE /\ IF objs[db].opened
             THEN /\ bcLocked' = (bcLocked /\ ~ objs[db].bc)
                  /\ nodesLocked' = (nodesLocked /\ ~ objs[db].nodes)
                  /\ objs' = [objs EXCEPT ![db] = Closed]
             ELSE UNCHANGED <<bcLocked, nodesLocked, objs>>
          /\ Goto(p, "clean")
          /\ UNCHANGED <<netLocked, locallock, db, crashed, met, own, local>>

CleanConnection(p) ==
  /\ At(p, "clean")
  /\ db' = 0
  /\ Goto(p, "leave")
  /\ UNCHANGED <<mutexes, objs, crashed, met, own, local>>

LeaveNodes_noUnlock(p) ==
  /\ At(p, "leave")
  /\ ret[p] = "nodes"
  /\ \/ Kind[p] = "addnode" /\ Goto(p, "need") /\ ret' = [ret EXCEPT ![p] = "version"]
     \/ Kind[p] = "addr" /\ (Goto(p, "again") \/ Goto(p, "close")) /\ ret' = ret
     \/ Kind[p] \in {"version", "removenode"} /\ Goto(p, "close") /\ ret' = ret
  /\ UNCHANGED <<mutexes, shared, crashed, met, own, h, mustClose>>

\* The shared node is left.  handleAddr sends the version from the clone when
\* the node was new, handleAddNode from the shared node: SendVersionToNodes.
LeaveNodes(p) ==
  /\ At(p, "leave")
  /\ ret[p] = "nodes"
  /\ netLocked' = FALSE
  /\ \/ Kind[p] = "addnode" /\ Goto(p, "need") /\ ret' = [ret EXCEPT ![p] = "version"]
     \/ Kind[p] = "addr" /\ (Goto(p, "again") \/ Goto(p, "close")) /\ ret' = ret
     \/ Kind[p] \in {"version", "removenode"} /\ Goto(p, "close") /\ ret' = ret
  /\ UNCHANGED <<bcLocked, nodesLocked, locallock, shared, crashed, met, own, h, mustClose>>

LeaveVersion(p) ==
  /\ At(p, "leave")
  /\ ret[p] = "height"
  /\ Goto(p, "close")
  /\ UNCHANGED <<mutexes, shared, crashed, met, own, local>>

-----------------------------------------------------------------------------
\* What goroutine p does once it was started.
Run(p) ==
  \/ CloneNodes(p) \/ CloneClose(p) \/ SharedFirst(p) \/ OwnBC(p) \/ HandlerDone(p)
  \/ OwnNodes(p) \/ PrepareFailed(p) \/ PrepareDone(p) \/ Close(p)
  \/ NetLock(p) \/ CheckOpen(p) \/ OpenNeeded(p) \/ PrepareConnection(p)
  \/ LockLocal(p) \/ OpenObject(p) \/ ReadDB(p) \/ GetObject(p)
  \/ LockNodes(p) \/ LockBC(p) \/ UseObject(p) \/ Closing(p) \/ UnlockLocal(p)
  \/ CloseObject(p) \/ CleanConnection(p) \/ LeaveNodes(p) \/ LeaveVersion(p)

Next == \E p \in Routine : Clone(p) \/ Run(p)

Spec == Init /\ [][Next]_vars

(***************************************************************************)
(* The Go scheduler runs every goroutine that can run.  Each goroutine     *)
(* locks a mutex a bounded number of times, so weak fairness is enough.    *)
(***************************************************************************)
FairSpec == Spec /\ \A p \in Routine : WF_vars(Run(p))

-----------------------------------------------------------------------------
(***************************************************************************)
(* Properties.  handleAddNode uses the shared connection outside           *)
(* NodeNet.lock (SendVersionToNodes); when another goroutine meets it      *)
(* there, nothing is certain any more, as LocksAreReleased shows.  The     *)
(* other properties are about the executions in which that has not         *)
(* happened yet, whatever requests run.                                    *)
(***************************************************************************)
(***************************************************************************)
(* A database mutex that is locked will be unlocked: it belongs to the own *)
(* connection of a goroutine that has not ended (TryToMakeBlock keeps it   *)
(* for good when PrepareNewBlock fails), or to the object that the shared  *)
(* connection has now and that a goroutine is going to close.              *)
(* Nobody ever unlocks a mutex of an object that was left behind.          *)
(***************************************************************************)
Releases(p)    == pc[p] # "done" \/ Kind[p] = "mintErr"
SharedIsClosed == db # 0 /\ \E p \in Routine : pc[p] # "done" /\ mustClose[p]

LocksAreReleased ==
  /\ bcLocked => \/ \E p \in Routine : Releases(p) /\ ownBC[p]
                 \/ SharedIsClosed /\ objs[db].bc
  /\ nodesLocked => \/ \E p \in Routine : Releases(p) /\ ownNodes[p]
                    \/ SharedIsClosed /\ objs[db].nodes

\* The same up to the first time that a goroutine meets SendVersionToNodes of
\* the shared node.
ReleasedUnlessMet == ~ met => LocksAreReleased

(***************************************************************************)
(* While a goroutine reads or writes through the shared connection, no     *)
(* other one closes the database under it, unless goroutines met there     *)
(* outside NodeNet.lock.                                                   *)
(***************************************************************************)
ConnectionStaysOpen ==
  \A p \in Routine :
    At(p, "use") /\ ~ met => IF ret[p] = "nodes" THEN objs[h[p]].nodes ELSE objs[h[p]].bc

(***************************************************************************)
(* The server panics only after goroutines met outside NodeNet.lock: up to *)
(* then the shared connection is not nil when a method of it is called,    *)
(* and locallock is locked when it is unlocked.                            *)
(***************************************************************************)
NoPanic == crashed => met

(***************************************************************************)
(* Nobody waits in a circle: as long as a goroutine that has begun has not *)
(* ended, one of them does not wait for a mutex, although they lock the    *)
(* four mutexes in different orders.  Goroutines that met outside          *)
(* NodeNet.lock may, and a block maker that failed keeps lockBC for good:  *)
(* then those that need it wait for it (see RequestsEnd).                  *)
(***************************************************************************)
Begun(p) == pc[p] \notin {"new", "done"}

Waits(p) ==
  \/ pc[p] \in {"cloneNodes", "nodes"} /\ nodesLocked
  \/ pc[p] = "main" /\ Kind[p] \in {"block", "version", "mint", "mintNone", "mintErr"} /\ bcLocked
  \/ pc[p] = "again" /\ bcLocked
  \/ pc[p] = "net" /\ netLocked
  \/ pc[p] = "local" /\ locallock
  \/ pc[p] = "lock" /\ (IF ret[p] = "nodes" THEN nodesLocked ELSE bcLocked)

LockIsKept == \E p \in Routine : pc[p] = "done" /\ ownBC[p]

NobodyWaitsInCircle ==
  (\E p \in Routine : Begun(p)) /\ ~ LockIsKept /\ ~ met => \E p \in Routine : Begun(p) /\ ~ Waits(p)

(***************************************************************************)
(* Every request and every attempt to make a block comes to its end, with  *)
(* two exceptions, in both of which the code leaves a request waiting for  *)
(* good: goroutines met outside NodeNet.lock, or a block maker failed and  *)
(* keeps lockBC (node.go:309-313).  The second holds up the requests that  *)
(* use the blockchain only: a removenode request still ends.               *)
(***************************************************************************)
NeedsBC(p) == Kind[p] # "removenode"

RequestsEnd ==
  \A p \in Routine : pc[p] # "new" ~> pc[p] = "done" \/ met \/ (LockIsKept /\ NeedsBC(p))
=============================================================================
