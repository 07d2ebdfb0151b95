------------------------- MODULE ServerLocksProofs -------------------------
(***************************************************************************)
(* Proofs about the locks of the daemon, for any number of goroutines of   *)
(* any kind, up to the first time that they meet outside NodeNet.lock: the *)
(* shared connection has one user at a time, so that it is never nil when  *)
(* a method of it is called and never closed under its user, and every     *)
(* locked database mutex has somebody who is going to unlock it.           *)
(***************************************************************************)
EXTENDS ServerLocksInv, TLAPS

\* A change of one object of the shared connection.
LEMMA ObjectChange ==
  ASSUME NEW o \in Seq(Object), NEW i \in 1 .. Len(o), NEW r \in Object,
         NEW n, n = [o EXCEPT ![i] = r]
  PROVE  n \in Seq(Object) /\ Len(n) = Len(o) /\ n[i] = r
<1>1. o \in [1 .. Len(o) -> Object] /\ Len(o) \in Nat
  OBVIOUS
<1>2. n \in [1 .. Len(o) -> Object] /\ n[i] = r
  BY <1>1
<1> QED
  BY <1>1, <1>2

\* The states the program begins in.
LEMMA InitLocks == Init => LocksInv
<1> SUFFICES ASSUME Init
             PROVE  LocksInv
  OBVIOUS
<1>1. PICK M \in Mixes : pc = [p \in Routine |-> IF p \in M THEN "new" ELSE "done"]
  BY DEF Init
<1>2. M \subseteq Routine
  BY KindAssumption
<1>3. pc \in [Routine -> {"new", "done"}]
  BY <1>1
<1>4. LocksType
  <2>1. pc \in [Routine -> Labels]
    BY <1>3 DEF Labels
  <2>2. objs \in Seq(Object) /\ db \in 0 .. Len(objs)
    BY DEF Init
  <2> QED
    BY <2>1, <2>2 DEF Init, LocksType
<1>6. \A p \in Routine : pc[p] \notin {"net"} \cup Shared
  BY <1>3 DEF Shared, BeforeObject, WithObject
<1>7. OneInShared
  BY <1>6 DEF OneInShared, InShared
<1>8. SharedInv
  BY <1>6 DEF SharedInv, InShared, Init
<1>9. HolderInv
  BY DEF HolderInv, Init
<1> QED
  BY <1>4, <1>7, <1>8, <1>9 DEF LocksInv, Init

-----------------------------------------------------------------------------
\* A step of a goroutine on its own connection, or on its way to the shared one.
LEMMA OwnStep ==
  ASSUME LocksInv, NEW p \in Routine, pc[p] \notin Shared, pc[p] # "done",
         NEW l \in Labels \ Shared, l = "net" => Kind[p] \in SharedKinds,
         pc' = [pc EXCEPT ![p] = l],
         UNCHANGED <<netLocked, locallock, db, objs, crashed, h, mustClose, ret>>
  PROVE  OneInShared' /\ SharedInv' /\ ~ crashed' /\ pc' \in [Routine -> Labels]
<1>1. pc \in [Routine -> Labels] /\ "done" \notin Shared /\ "check" \in Shared
  BY DEF LocksInv, LocksType, Shared, BeforeObject, WithObject
<1>2. pc' \in [Routine -> Labels] /\ pc'[p] = l /\ \A q \in Routine : q # p => pc'[q] = pc[q]
  BY <1>1
<1>3. \A q \in Routine : InShared(q)' <=> InShared(q)
  BY <1>2 DEF InShared
<1>4. \A q \in Routine : InShared(q) => q # p /\ pc'[q] = pc[q]
  BY <1>2 DEF InShared
<1>6. OneInShared'
  <2>1. ASSUME NEW q \in Routine, pc'[q] \in {"net"} \cup Shared
        PROVE  Kind[q] \in SharedKinds
    BY <1>2, <2>1 DEF LocksInv, OneInShared
  <2> QED
    BY <1>3, <1>4, <2>1 DEF LocksInv, OneInShared
<1>7. SharedInv'
  <2>1. ASSUME NEW q \in Routine, InShared(q)'
        PROVE  SharedAt(q)'
    <3>1. SharedAt(q) /\ pc'[q] = pc[q]
      BY <1>3, <1>4, <2>1 DEF LocksInv, SharedInv
    <3> QED
      BY <3>1 DEF SharedAt
  <2> QED
    BY <1>3, <2>1 DEF LocksInv, SharedInv
<1> QED
  BY <1>2, <1>6, <1>7 DEF LocksInv

\* A step of the goroutine that is at work on the shared connection.
LEMMA SharedStep ==
  ASSUME LocksInv, NEW p \in Routine, InShared(p),
         NEW l \in Shared \ {"check"}, pc' = [pc EXCEPT ![p] = l],
         ret' \in [Routine -> {"none", "nodes", "version", "height"}],
         ret'[p] = "nodes" => ret[p] = "nodes" \/ pc[p] = "check",
         ret'[p] # "nodes" => pc[p] # "check" /\ ret[p] # "nodes",
         \A q \in Routine : q # p => ret'[q] = ret[q],
         netLocked' = netLocked, SharedAt(p)'
  PROVE  OneInShared' /\ SharedInv' /\ pc' \in [Routine -> Labels]
<1>1. pc \in [Routine -> Labels] /\ l \in Labels /\ l # "net" /\ l # "done" /\ pc[p] # "done"
  BY DEF LocksInv, LocksType, Shared, BeforeObject, WithObject, Labels, InShared
<1>2. pc' \in [Routine -> Labels] /\ pc'[p] = l /\ \A q \in Routine : q # p => pc'[q] = pc[q]
  BY <1>1
<1>3. \A q \in Routine : InShared(q)' <=> InShared(q)
  BY <1>2 DEF InShared
<1>4. \A q \in Routine : InShared(q) => q = p
  BY DEF LocksInv, OneInShared
<1>6. OneInShared'
  <2>1. ASSUME NEW q \in Routine, pc'[q] \in {"net"} \cup Shared
        PROVE  Kind[q] \in SharedKinds
    BY <1>2, <2>1 DEF LocksInv, OneInShared, InShared
  <2>2. (pc'[p] = "check" \/ ret'[p] = "nodes") => netLocked'
    BY <1>2 DEF LocksInv, OneInShared
  <2>3. (pc'[p] # "check" /\ ret'[p] # "nodes") => Kind[p] = "addnode"
    BY DEF LocksInv, OneInShared
  <2> QED
    BY <1>3, <1>4, <2>1, <2>2, <2>3 DEF OneInShared
<1>7. SharedInv'
  BY <1>3, <1>4 DEF SharedInv
<1> QED
  BY <1>2, <1>6, <1>7

-----------------------------------------------------------------------------
\* The steps on the own connection.
LEMMA OwnLocks ==
  ASSUME LocksInv, NEW p \in Routine,
         \/ Clone(p) \/ CloneNodes(p) \/ CloneClose(p) \/ SharedFirst(p) \/ OwnBC(p)
         \/ HandlerDone(p) \/ OwnNodes(p) \/ PrepareFailed(p) \/ PrepareDone(p) \/ Close(p)
  PROVE  LocksInv'
<1> USE DEF At, Goto, mutexes, shared, own, local
<1>1. /\ pc \in [Routine -> Labels] /\ ownBC \in [Routine -> BOOLEAN]
      /\ ownNodes \in [Routine -> BOOLEAN] /\ bcLocked \in BOOLEAN /\ nodesLocked \in BOOLEAN
  BY DEF LocksInv, LocksType
\* A step that is neither of the shared connection nor touches a mutex.
<1>2. ASSUME NEW l \in Labels \ Shared, l = "net" => Kind[p] \in SharedKinds,
             l = "done" => Kind[p] = "mintErr", pc[p] \notin Shared, pc[p] # "done",
             pc' = [pc EXCEPT ![p] = l], UNCHANGED <<mutexes, shared, crashed, own, local>>
      PROVE  LocksInv'
  <2>1. OneInShared' /\ SharedInv' /\ ~ crashed' /\ pc' \in [Routine -> Labels]
    BY <1>2, OwnStep
  <2>2. HolderInv'
    BY <1>1, <1>2 DEF HolderInv, LocksInv
  <2>3. LocksType'
    BY <1>2, <2>1 DEF LocksInv, LocksType
  <2> QED
    BY <2>1, <2>2, <2>3 DEF LocksInv
\* The connection is closed.
<1>3. ASSUME NEW l \in Labels \ Shared, l # "net", pc[p] \notin Shared, pc[p] # "done",
             pc' = [pc EXCEPT ![p] = l], CloseOwn(p)
      PROVE  LocksInv'
  <2>1. OneInShared' /\ SharedInv' /\ ~ crashed' /\ pc' \in [Routine -> Labels]
    BY <1>3, OwnStep DEF CloseOwn
  <2>2. /\ ownBC' \in [Routine -> BOOLEAN] /\ ~ ownBC'[p] /\ \A q \in Routine : q # p => ownBC'[q] = ownBC[q]
        /\ ownNodes' \in [Routine -> BOOLEAN] /\ ~ ownNodes'[p]
        /\ \A q \in Routine : q # p => ownNodes'[q] = ownNodes[q]
        /\ \A q \in Routine : q # p => pc'[q] = pc[q]
    BY <1>1, <1>3 DEF CloseOwn
  <2>3. bcLocked' => (\E q \in Routine : ownBC'[q]) \/ (db' # 0 /\ objs'[db'].bc)
    BY <1>3, <2>2 DEF HolderInv, LocksInv, CloseOwn
  <2>4. nodesLocked' => (\E q \in Routine : ownNodes'[q]) \/ (db' # 0 /\ objs'[db'].nodes)
    BY <1>3, <2>2 DEF HolderInv, LocksInv, CloseOwn
  <2>5. HolderInv'
    BY <2>2, <2>3, <2>4 DEF HolderInv, LocksInv
  <2>6. LocksType'
    <3>1. bcLocked' \in BOOLEAN /\ nodesLocked' \in BOOLEAN
      BY <1>1, <1>3, Zenon DEF CloseOwn
    <3> QED
      BY <1>3, <2>1, <2>2, <3>1 DEF LocksInv, LocksType, CloseOwn
  <2> QED
    BY <2>1, <2>5, <2>6 DEF LocksInv
<1> DEFINE Outside == {"new", "cloneNodes", "cloneClose", "main", "bc", "again", "nodes", "close", "net"}
<1>4. \A l \in Outside : l \in Labels \ Shared /\ l # "done"
  BY DEF Labels, Shared, BeforeObject, WithObject
<1>5. "done" \in Labels \ Shared
  BY DEF Labels, Shared, BeforeObject, WithObject
<1>6. CASE Clone(p)
  BY <1>2, <1>4, <1>6 DEF Clone
<1>7. CASE SharedFirst(p)
  BY <1>2, <1>4, <1>7 DEF SharedFirst, SharedKinds
<1>8. CASE HandlerDone(p)
  BY <1>2, <1>4, <1>8 DEF HandlerDone, SharedKinds
<1>9. CASE PrepareFailed(p)
  BY <1>2, <1>4, <1>5, <1>9 DEF PrepareFailed
<1>10. CASE CloneClose(p)
  BY <1>3, <1>4, <1>10 DEF CloneClose
<1>11. CASE PrepareDone(p)
  BY <1>3, <1>4, <1>11 DEF PrepareDone
<1>12. CASE Close(p)
  BY <1>3, <1>4, <1>5, <1>12 DEF Close
<1>13. CASE CloneNodes(p) \/ OwnNodes(p)
  <2>1. PICK l \in Outside \ {"net"} : pc' = [pc EXCEPT ![p] = l]
    BY <1>13 DEF CloneNodes, OwnNodes
  <2>2. OneInShared' /\ SharedInv' /\ ~ crashed' /\ pc' \in [Routine -> Labels]
    <3>1. /\ pc[p] \notin Shared /\ pc[p] # "done" /\ l \in Labels \ Shared /\ l # "net"
          /\ UNCHANGED <<netLocked, locallock, db, objs, crashed, h, mustClose, ret>>
      BY <1>4, <1>13 DEF CloneNodes, OwnNodes
    <3> QED
      BY <2>1, <3>1, OwnStep
  <2>3. ownNodes' \in [Routine -> BOOLEAN] /\ ownNodes'[p] /\ ownBC' = ownBC /\ bcLocked' = bcLocked
        /\ nodesLocked' = TRUE /\ db' = db /\ objs' = objs
    BY <1>1, <1>13 DEF CloneNodes, OwnNodes
  <2>4. pc'[p] # "done" /\ \A q \in Routine : q # p => pc'[q] = pc[q] /\ ownNodes'[q] = ownNodes[q]
    BY <1>1, <1>4, <1>13, <2>1 DEF CloneNodes, OwnNodes
  <2>5. HolderInv'
    BY <2>3, <2>4 DEF HolderInv, LocksInv
  <2>6. LocksType'
    BY <1>13, <2>2, <2>3 DEF LocksInv, LocksType, CloneNodes, OwnNodes
  <2> QED
    BY <2>2, <2>5, <2>6 DEF LocksInv
<1>14. CASE OwnBC(p)
  <2>1. PICK l \in Outside \ {"net"} : pc' = [pc EXCEPT ![p] = l]
    BY <1>14 DEF OwnBC
  <2>2. OneInShared' /\ SharedInv' /\ ~ crashed' /\ pc' \in [Routine -> Labels]
    <3>1. /\ pc[p] \notin Shared /\ pc[p] # "done" /\ l \in Labels \ Shared /\ l # "net"
          /\ UNCHANGED <<netLocked, locallock, db, objs, crashed, h, mustClose, ret>>
      BY <1>4, <1>14 DEF OwnBC
    <3> QED
      BY <2>1, <3>1, OwnStep
  <2>3. ownBC' \in [Routine -> BOOLEAN] /\ ownBC'[p] /\ ownNodes' = ownNodes /\ nodesLocked' = nodesLocked
        /\ bcLocked' = TRUE /\ db' = db /\ objs' = objs
    BY <1>1, <1>14 DEF OwnBC
  <2>4. pc'[p] # "done" /\ \A q \in Routine : q # p => pc'[q] = pc[q] /\ ownBC'[q] = ownBC[q]
    BY <1>1, <1>4, <1>14, <2>1 DEF OwnBC
  <2>5. HolderInv'
    BY <2>3, <2>4 DEF HolderInv, LocksInv
  <2>6. LocksType'
    BY <1>14, <2>2, <2>3 DEF LocksInv, LocksType, OwnBC
  <2> QED
    BY <2>2, <2>5, <2>6 DEF LocksInv
<1> QED
  BY <1>6, <1>7, <1>8, <1>9, <1>10, <1>11, <1>12, <1>13, <1>14

-----------------------------------------------------------------------------
\* A step of the shared connection that locks and opens nothing.
LEMMA QuietStep ==
  ASSUME LocksInv, NEW p \in Routine, InShared(p),
         NEW l \in Shared \ {"check"}, pc' = [pc EXCEPT ![p] = l],
         h' \in [Routine -> Nat], mustClose' \in [Routine -> BOOLEAN],
         ret' \in [Routine -> {"none", "nodes", "version", "height"}],
         ret'[p] = "nodes" => ret[p] = "nodes" \/ pc[p] = "check",
         ret'[p] # "nodes" => pc[p] # "check" /\ ret[p] # "nodes",
         \A q \in Routine : q # p => ret'[q] = ret[q],
         UNCHANGED <<mutexes, shared, crashed, own>>, SharedAt(p)'
  PROVE  LocksInv'
<1>1. OneInShared' /\ SharedInv' /\ pc' \in [Routine -> Labels]
  BY SharedStep DEF mutexes
<1>2. LocksType'
  BY <1>1 DEF LocksInv, LocksType, mutexes, shared, own
<1>3. \A q \in Routine : pc'[q] = "done" => pc[q] = "done"
  BY <1>1 DEF LocksInv, LocksType, Shared, BeforeObject, WithObject
<1>4. HolderInv'
  BY <1>3 DEF LocksInv, HolderInv, mutexes, shared, own
<1> QED
  BY <1>1, <1>2, <1>4 DEF LocksInv

\* A step that locks locallock, or changes an object, or makes one.
LEMMA ObjectStep ==
  ASSUME LocksInv, NEW p \in Routine, InShared(p),
         NEW l \in Shared \ {"check"}, pc' = [pc EXCEPT ![p] = l],
         mustClose' \in [Routine -> BOOLEAN],
         ret' \in [Routine -> {"none", "nodes", "version", "height"}],
         ret'[p] = "nodes" => ret[p] = "nodes", ret'[p] # "nodes" => ret[p] # "nodes",
         pc[p] # "check", \A q \in Routine : q # p => ret'[q] = ret[q],
         bcLocked' \in BOOLEAN, nodesLocked' \in BOOLEAN, locallock' \in BOOLEAN,
         objs' \in Seq(Object), db' \in 0 .. Len(objs'),
         bcLocked' /\ ~ (db' # 0 /\ objs'[db'].bc) => bcLocked /\ ~ (db # 0 /\ objs[db].bc),
         nodesLocked' /\ ~ (db' # 0 /\ objs'[db'].nodes) => nodesLocked /\ ~ (db # 0 /\ objs[db].nodes),
         UNCHANGED <<netLocked, crashed, own, h>>, SharedAt(p)'
  PROVE  LocksInv'
<1>1. OneInShared' /\ SharedInv' /\ pc' \in [Routine -> Labels]
  BY SharedStep
<1>2. LocksType'
  BY <1>1 DEF LocksInv, LocksType, own
<1>3. \A q \in Routine : pc'[q] = "done" => pc[q] = "done"
  BY <1>1 DEF LocksInv, LocksType, Shared, BeforeObject, WithObject
<1>4. HolderInv'
  <2>1. \A q \in Routine : pc'[q] = "done" /\ (ownBC'[q] \/ ownNodes'[q]) => Kind[q] = "mintErr"
    BY <1>3 DEF LocksInv, HolderInv, own
  <2>2. bcLocked' => (\E q \in Routine : ownBC'[q]) \/ (db' # 0 /\ objs'[db'].bc)
    BY DEF LocksInv, HolderInv, own
  <2>3. nodesLocked' => (\E q \in Routine : ownNodes'[q]) \/ (db' # 0 /\ objs'[db'].nodes)
    BY DEF LocksInv, HolderInv, own
  <2> QED
    BY <2>1, <2>2, <2>3 DEF HolderInv
<1> QED
  BY <1>1, <1>2, <1>4 DEF LocksInv

\* The steps on the shared connection.
LEMMA SharedLocks ==
  ASSUME LocksInv, NEW p \in Routine,
         \/ CheckOpen(p) \/ OpenNeeded(p) \/ PrepareConnection(p) \/ LockLocal(p) \/ OpenObject(p)
         \/ ReadDB(p) \/ GetObject(p) \/ LockNodes(p) \/ LockBC(p) \/ UseObject(p) \/ Closing(p)
         \/ UnlockLocal(p) \/ CloseObject(p) \/ CleanConnection(p)
  PROVE  LocksInv'
<1> USE DEF At, Goto, mutexes, shared, own, local
<1>1. /\ pc \in [Routine -> Labels] /\ h \in [Routine -> Nat] /\ mustClose \in [Routine -> BOOLEAN]
      /\ ret \in [Routine -> {"none", "nodes", "version", "height"}]
      /\ objs \in Seq(Object) /\ Len(objs) \in Nat /\ db \in 0 .. Len(objs)
      /\ bcLocked \in BOOLEAN /\ nodesLocked \in BOOLEAN /\ locallock \in BOOLEAN
  BY DEF LocksInv, LocksType
<1>2. InShared(p)
  BY DEF InShared, Shared, BeforeObject, WithObject, CheckOpen, OpenNeeded, PrepareConnection,
         LockLocal, OpenObject, ReadDB, GetObject, LockNodes, LockBC, UseObject, Closing,
         UnlockLocal, CloseObject, CleanConnection
<1>3. SharedAt(p)
  BY <1>2 DEF LocksInv, SharedInv
<1> DEFINE Later == {"need", "open", "local", "opened", "read", "get", "lock", "use", "closing",
                     "unlock", "closeObject", "clean", "leave"}
<1>4. \A l \in Later : l \in Shared \ {"check"}
  BY DEF Shared, BeforeObject, WithObject
<1>5. db # 0 => db \in 1 .. Len(objs) /\ objs[db] \in Object
  BY <1>1
<1>6. CASE CheckOpen(p)
  <2>1. /\ pc[p] = "check" /\ db = 0 /\ ~ locallock
        /\ pc' = [pc EXCEPT ![p] = "need"]
        /\ mustClose' = [mustClose EXCEPT ![p] = TRUE]
        /\ ret' = [ret EXCEPT ![p] = "nodes"]
        /\ UNCHANGED <<mutexes, shared, crashed, own, h>>
    BY <1>3, <1>6 DEF CheckOpen, SharedAt
  <2>2. /\ pc'[p] = "need" /\ ret'[p] = "nodes" /\ mustClose'[p]
        /\ mustClose' \in [Routine -> BOOLEAN]
        /\ ret' \in [Routine -> {"none", "nodes", "version", "height"}]
        /\ \A q \in Routine : q # p => ret'[q] = ret[q]
    BY <1>1, <2>1
  <2>3. SharedAt(p)'
    BY <2>1, <2>2 DEF SharedAt, WithObject
  <2> QED
    BY <1>1, <1>2, <1>4, <2>1, <2>2, <2>3, QuietStep
<1>7. CASE OpenNeeded(p)
  <2>1. CASE db = 0
    <3>1. /\ pc[p] = "need" /\ pc' = [pc EXCEPT ![p] = "open"]
          /\ UNCHANGED <<mutexes, shared, crashed, own, h, mustClose, ret>>
      BY <1>7, <2>1 DEF OpenNeeded
    <3>2. pc'[p] = "open"
      BY <1>1, <3>1
    <3>3. SharedAt(p)'
      BY <1>3, <2>1, <3>1, <3>2 DEF SharedAt, WithObject
    <3> QED
      BY <1>1, <1>2, <1>4, <3>1, <3>2, <3>3, QuietStep
  <2>2. CASE db # 0
    <3>1. /\ pc[p] = "need" /\ ret[p] = "height" /\ pc' = [pc EXCEPT ![p] = "read"]
          /\ UNCHANGED <<mutexes, shared, crashed, own, h, mustClose, ret>>
      BY <1>1, <1>3, <1>7, <2>2 DEF OpenNeeded, OpenReturns, SharedAt
    <3>2. pc'[p] = "read"
      BY <1>1, <3>1
    <3>3. SharedAt(p)'
      BY <1>3, <2>2, <3>1, <3>2 DEF SharedAt, WithObject
    <3> QED
      BY <1>1, <1>2, <1>4, <3>1, <3>2, <3>3, QuietStep
  <2> QED
    BY <2>1, <2>2
<1>8. CASE PrepareConnection(p)
  <2>1. /\ pc[p] = "open" /\ db = 0 /\ ~ locallock
        /\ pc' = [pc EXCEPT ![p] = "local"]
        /\ objs' = Append(objs, Closed) /\ db' = Len(objs) + 1
        /\ UNCHANGED <<mutexes, crashed, own, h, mustClose, ret>>
    BY <1>3, <1>8 DEF PrepareConnection, SharedAt
  <2>2. Closed \in Object
    BY DEF Closed, Object
  <2>3. objs' \in Seq(Object) /\ db' \in 1 .. Len(objs') /\ objs'[db'] = Closed
    BY <1>1, <2>1, <2>2
  <2>4. pc'[p] = "local"
    BY <1>1, <2>1
  <2>5. SharedAt(p)'
    BY <1>3, <2>1, <2>3, <2>4 DEF SharedAt, WithObject
  <2> QED
    <3>1. db' \in 0 .. Len(objs') /\ "local" \in Shared \ {"check"}
      BY <1>4, <2>3
    <3>2. /\ bcLocked' = bcLocked /\ nodesLocked' = nodesLocked /\ locallock' = locallock
          /\ netLocked' = netLocked /\ UNCHANGED <<crashed, own, h>> /\ ret' = ret /\ mustClose' = mustClose
      BY <2>1
    <3>3. /\ bcLocked' /\ ~ (db' # 0 /\ objs'[db'].bc) => bcLocked /\ ~ (db # 0 /\ objs[db].bc)
          /\ nodesLocked' /\ ~ (db' # 0 /\ objs'[db'].nodes) => nodesLocked /\ ~ (db # 0 /\ objs[db].nodes)
      BY <2>1, <3>2
    <3>4. pc[p] # "check" /\ pc' = [pc EXCEPT ![p] = "local"] /\ objs' \in Seq(Object)
      BY <2>1, <2>3
    <3>5. bcLocked' \in BOOLEAN /\ nodesLocked' \in BOOLEAN /\ locallock' \in BOOLEAN
      BY <1>1, <3>2
    <3>6. /\ mustClose' \in [Routine -> BOOLEAN] /\ ret' = ret
          /\ ret' \in [Routine -> {"none", "nodes", "version", "height"}]
      BY <1>1, <3>2
    <3> QED
      BY <1>2, <2>5, <3>1, <3>2, <3>3, <3>4, <3>5, <3>6, ObjectStep
<1>9. CASE LockLocal(p)
  <2>1. /\ pc[p] = "local" /\ pc' = [pc EXCEPT ![p] = "opened"] /\ locallock' = TRUE
        /\ UNCHANGED <<bcLocked, nodesLocked, netLocked, db, objs, crashed, own, h, mustClose, ret>>
    BY <1>9 DEF LockLocal
  <2>2. pc'[p] = "opened" /\ db # 0
    BY <1>1, <1>3, <2>1 DEF SharedAt, WithObject
  <2>3. SharedAt(p)'
    BY <1>3, <2>1, <2>2 DEF SharedAt, WithObject
  <2> QED
    BY <1>1, <1>2, <1>4, <2>1, <2>3, ObjectStep
<1>10. CASE OpenObject(p)
  <2> DEFINE r == [objs[db] EXCEPT !.opened = TRUE]
  <2>1. /\ pc[p] = "opened" /\ db # 0 /\ locallock /\ ret[p] # "none" /\ mustClose[p]
        /\ objs' = [objs EXCEPT ![db] = r] /\ OpenReturns(p, TRUE)
        /\ UNCHANGED <<mutexes, db, crashed, own, h>>
    BY <1>3, <1>10 DEF OpenObject, SharedAt, WithObject
  <2>2. r \in Object /\ r.opened /\ r.bc = objs[db].bc /\ r.nodes = objs[db].nodes
    BY <1>5, <2>1 DEF Object
  <2> HIDE DEF r
  <2>3. objs' \in Seq(Object) /\ Len(objs') = Len(objs) /\ objs'[db] = r
    BY <1>1, <1>5, <2>1, <2>2, ObjectChange
  <2>4. CASE ret[p] = "version"
    <3>1. /\ pc' = [pc EXCEPT ![p] = "need"] /\ mustClose' = [mustClose EXCEPT ![p] = TRUE]
          /\ ret' = [ret EXCEPT ![p] = "height"]
      BY <2>1, <2>4 DEF OpenReturns
    <3>2. /\ pc'[p] = "need" /\ mustClose'[p] /\ ret'[p] = "height"
          /\ mustClose' \in [Routine -> BOOLEAN]
          /\ ret' \in [Routine -> {"none", "nodes", "version", "height"}]
          /\ \A q \in Routine : q # p => ret'[q] = ret[q]
      BY <1>1, <3>1
    <3>3. SharedAt(p)'
      BY <2>1, <2>2, <2>3, <3>2 DEF SharedAt, WithObject
    <3>4. /\ bcLocked' = bcLocked /\ nodesLocked' = nodesLocked /\ locallock' = locallock
          /\ netLocked' = netLocked /\ UNCHANGED <<crashed, own, h>> /\ db' = db
          /\ objs'[db'].bc = objs[db].bc /\ objs'[db'].nodes = objs[db].nodes
          /\ db' \in 0 .. Len(objs') /\ "need" \in Shared \ {"check"}
      BY <1>1, <1>4, <2>1, <2>2, <2>3
    <3>5. /\ bcLocked' /\ ~ (db' # 0 /\ objs'[db'].bc) => bcLocked /\ ~ (db # 0 /\ objs[db].bc)
          /\ nodesLocked' /\ ~ (db' # 0 /\ objs'[db'].nodes) => nodesLocked /\ ~ (db # 0 /\ objs[db].nodes)
      BY <3>4
    <3>6. bcLocked' \in BOOLEAN /\ nodesLocked' \in BOOLEAN /\ locallock' \in BOOLEAN
      BY <1>1, <3>4
    <3>7. /\ pc[p] # "check" /\ ret'[p] # "nodes" /\ ret[p] # "nodes" /\ objs' \in Seq(Object)
          /\ pc' = [pc EXCEPT ![p] = "need"]
      BY <2>1, <2>3, <2>4, <3>1, <3>2
    <3> QED
      BY <1>2, <3>2, <3>3, <3>4, <3>5, <3>6, <3>7, ObjectStep
  <2>5. CASE ret[p] # "version"
    <3>1. /\ pc' = [pc EXCEPT ![p] = "read"] /\ mustClose' = mustClose /\ ret' = ret
      BY <2>1, <2>5 DEF OpenReturns
    <3>2. pc'[p] = "read"
      BY <1>1, <3>1
    <3>3. SharedAt(p)'
      BY <2>1, <2>2, <2>3, <2>5, <3>1, <3>2 DEF SharedAt, WithObject
    <3> QED
      BY <1>1, <1>2, <1>4, <2>1, <2>2, <2>3, <3>1, <3>3, ObjectStep
  <2> QED
    BY <2>4, <2>5
<1>11. CASE ReadDB(p)
  <2>1. /\ pc[p] = "read" /\ pc' = [pc EXCEPT ![p] = "get"] /\ h' = [h EXCEPT ![p] = db]
        /\ UNCHANGED <<mutexes, shared, crashed, own, mustClose, ret>>
    BY <1>11 DEF ReadDB
  <2>2. pc'[p] = "get" /\ h'[p] = db /\ h' \in [Routine -> Nat]
    BY <1>1, <2>1
  <2>3. SharedAt(p)'
    BY <1>3, <2>1, <2>2 DEF SharedAt, WithObject
  <2> QED
    BY <1>1, <1>2, <1>4, <2>1, <2>2, <2>3, QuietStep
<1>12. CASE GetObject(p)
  <2> DEFINE o == objs[db]
             l == IF IF ret[p] = "nodes" THEN o.nodes ELSE o.bc THEN "use" ELSE "lock"
  <2>1. /\ pc[p] = "get" /\ h[p] = db /\ db # 0 /\ o.opened
        /\ UNCHANGED <<mutexes, shared, crashed, own, local>>
        /\ pc' = [pc EXCEPT ![p] = l]
    BY <1>3, <1>12 DEF GetObject, SharedAt, WithObject
  <2>2. pc'[p] = l /\ l \in Later
    BY <1>1, <2>1
  <2>3. l = "use" => IF ret[p] = "nodes" THEN o.nodes ELSE o.bc
    OBVIOUS
  <2>4. l \in {"use", "lock"}
    OBVIOUS
  <2> HIDE DEF l
  <2>5. SharedAt(p)'
    BY <1>3, <2>1, <2>2, <2>3, <2>4 DEF SharedAt, WithObject
  <2> QED
    BY <1>1, <1>2, <1>4, <2>1, <2>2, <2>5, QuietStep
<1>13. CASE LockNodes(p)
  <2> DEFINE r == [objs[db] EXCEPT !.nodes = TRUE]
  <2>1. /\ pc[p] = "lock" /\ h[p] = db /\ db # 0 /\ ret[p] = "nodes"
        /\ nodesLocked' = TRUE /\ objs' = [objs EXCEPT ![db] = r]
        /\ pc' = [pc EXCEPT ![p] = "use"]
        /\ UNCHANGED <<bcLocked, netLocked, locallock, db, crashed, own, local>>
    BY <1>3, <1>13 DEF LockNodes, SharedAt, WithObject
  <2>2. r \in Object /\ r.opened = objs[db].opened /\ r.bc = objs[db].bc /\ r.nodes = TRUE
    BY <1>5, <2>1 DEF Object
  <2> HIDE DEF r
  <2>3. objs' \in Seq(Object) /\ Len(objs') = Len(objs) /\ objs'[db] = r
    BY <1>1, <1>5, <2>1, <2>2, ObjectChange
  <2>4. pc'[p] = "use"
    BY <1>1, <2>1
  <2>5. SharedAt(p)'
    BY <1>3, <2>1, <2>2, <2>3, <2>4 DEF SharedAt, WithObject
  <2> QED
    BY <1>1, <1>2, <1>4, <2>1, <2>2, <2>3, <2>5, ObjectStep
<1>14. CASE LockBC(p)
  <2> DEFINE r == [objs[db] EXCEPT !.bc = TRUE]
  <2>1. /\ pc[p] = "lock" /\ h[p] = db /\ db # 0 /\ ret[p] = "height"
        /\ bcLocked' = TRUE /\ objs' = [objs EXCEPT ![db] = r]
        /\ pc' = [pc EXCEPT ![p] = "use"]
        /\ UNCHANGED <<nodesLocked, netLocked, locallock, db, crashed, own, local>>
    BY <1>3, <1>14 DEF LockBC, SharedAt, WithObject
  <2>2. r \in Object /\ r.opened = objs[db].opened /\ r.bc = TRUE /\ r.nodes = objs[db].nodes
    BY <1>5, <2>1 DEF Object
  <2> HIDE DEF r
  <2>3. objs' \in Seq(Object) /\ Len(objs') = Len(objs) /\ objs'[db] = r
    BY <1>1, <1>5, <2>1, <2>2, ObjectChange
  <2>4. pc'[p] = "use"
    BY <1>1, <2>1
  <2>5. SharedAt(p)'
    BY <1>3, <2>1, <2>2, <2>3, <2>4 DEF SharedAt, WithObject
  <2> QED
    BY <1>1, <1>2, <1>4, <2>1, <2>2, <2>3, <2>5, ObjectStep
<1>15. CASE UseObject(p) \/ Closing(p)
  <2>1. PICK l \in {"closing", "unlock"} : pc' = [pc EXCEPT ![p] = l]
    BY <1>3, <1>15 DEF UseObject, Closing, SharedAt, WithObject
  <2>2. pc[p] \in {"use", "closing"} /\ UNCHANGED <<mutexes, shared, crashed, own, local>>
    BY <1>15 DEF UseObject, Closing
  <2>3. pc'[p] = l
    BY <1>1, <2>1
  <2>4. SharedAt(p)'
    BY <1>3, <2>2, <2>3 DEF SharedAt, WithObject
  <2> QED
    BY <1>1, <1>2, <1>4, <2>1, <2>2, <2>4, QuietStep
<1>16. CASE UnlockLocal(p)
  <2>1. /\ pc[p] = "unlock" /\ pc' = [pc EXCEPT ![p] = "closeObject"] /\ locallock' = FALSE
        /\ UNCHANGED <<bcLocked, nodesLocked, netLocked, shared, crashed, own, local>>
    BY <1>3, <1>16 DEF UnlockLocal, SharedAt, WithObject
  <2>2. pc'[p] = "closeObject"
    BY <1>1, <2>1
  <2>3. SharedAt(p)'
    BY <1>3, <2>1, <2>2 DEF SharedAt, WithObject
  <2> QED
    BY <1>1, <1>2, <1>4, <2>1, <2>3, ObjectStep
<1>17. CASE CloseObject(p)
  <2>1. /\ pc[p] = "closeObject" /\ db # 0
        /\ bcLocked' = (bcLocked /\ ~ objs[db].bc)
        /\ nodesLocked' = (nodesLocked /\ ~ objs[db].nodes)
        /\ objs' = [objs EXCEPT ![db] = Closed]
        /\ pc' = [pc EXCEPT ![p] = "clean"]
        /\ UNCHANGED <<netLocked, locallock, db, crashed, own, local>>
    BY <1>3, <1>17 DEF CloseObject, SharedAt, WithObject
  <2>2. objs' \in Seq(Object) /\ Len(objs') = Len(objs) /\ objs'[db] = Closed
    <3>1. Closed \in Object
      BY DEF Closed, Object
    <3> QED
      BY <1>1, <1>5, <2>1, <3>1, ObjectChange
  <2>3. bcLocked' \in BOOLEAN /\ nodesLocked' \in BOOLEAN
    BY <2>1, Zenon
  <2>4. pc'[p] = "clean"
    BY <1>1, <2>1
  <2>5. SharedAt(p)'
    BY <1>3, <2>1, <2>2, <2>4 DEF SharedAt, WithObject
  <2>6. /\ bcLocked' => bcLocked /\ ~ objs[db].bc
        /\ nodesLocked' => nodesLocked /\ ~ objs[db].nodes
    BY <2>1
  <2> QED
    BY <1>1, <1>2, <1>4, <2>1, <2>2, <2>3, <2>5, <2>6, ObjectStep
<1>18. CASE CleanConnection(p)
  <2>1. /\ pc[p] = "clean" /\ objs[db] = Closed /\ pc' = [pc EXCEPT ![p] = "leave"] /\ db' = 0
        /\ UNCHANGED <<mutexes, objs, crashed, own, local>>
    BY <1>3, <1>18 DEF CleanConnection, SharedAt, WithObject
  <2>2. pc'[p] = "leave"
    BY <1>1, <2>1
  <2>3. SharedAt(p)'
    BY <1>3, <2>1, <2>2 DEF SharedAt, WithObject
  <2>4. ~ objs[db].bc /\ ~ objs[db].nodes /\ db' \in 0 .. Len(objs')
    BY <1>1, <2>1 DEF Closed
  <2> QED
    BY <1>1, <1>2, <1>4, <2>1, <2>3, <2>4, ObjectStep
<1> QED
  BY <1>6, <1>7, <1>8, <1>9, <1>10, <1>11, <1>12, <1>13, <1>14, <1>15, <1>16, <1>17, <1>18

\* NodeNet.lock is taken: nobody else is at work on the shared connection.
LEMMA NetLockLocks ==
  ASSUME LocksInv, NEW p \in Routine, NetLock(p), ~ met'
  PROVE  LocksInv'
<1>1. /\ pc[p] = "net" /\ ~ netLocked /\ netLocked' = TRUE /\ pc' = [pc EXCEPT ![p] = "check"]
      /\ UNCHANGED <<bcLocked, nodesLocked, locallock, db, objs, crashed, ownBC, ownNodes, h, mustClose, ret>>
  BY DEF NetLock, At, Goto, shared, own, local
<1>2. pc \in [Routine -> Labels] /\ "check" \in Labels /\ Kind[p] \in SharedKinds
  BY <1>1 DEF LocksInv, LocksType, OneInShared, Labels, Shared, BeforeObject
<1>3. pc' \in [Routine -> Labels] /\ pc'[p] = "check" /\ \A q \in Routine : q # p => pc'[q] = pc[q]
  BY <1>1, <1>2
<1>4. \A q \in Routine : ~ InShared(q)
  <2> SUFFICES ASSUME NEW q \in Routine, InShared(q)
               PROVE  FALSE
    OBVIOUS
  <2>1. pc[q] # "check" /\ ret[q] # "nodes" /\ ret[q] # "none"
    BY <1>1 DEF LocksInv, OneInShared, SharedInv, SharedAt
  <2>2. pc[q] \notin {"close", "done"} /\ ret[q] \in {"none", "nodes", "version", "height"}
    BY DEF InShared, Shared, BeforeObject, WithObject, LocksInv, LocksType
  <2> QED
    BY <2>1, <2>2 DEF NetLock, SendsVersion
<1>5. db = 0 /\ ~ locallock
  BY <1>4 DEF LocksInv, SharedInv
<1>6. \A q \in Routine : InShared(q)' <=> q = p
  BY <1>3, <1>4 DEF InShared, Shared, BeforeObject
<1>8. OneInShared'
  <2>1. \A q \in Routine : pc'[q] \in {"net"} \cup Shared => Kind[q] \in SharedKinds
    BY <1>2, <1>3 DEF LocksInv, OneInShared
  <2> QED
    BY <1>1, <1>3, <1>6, <2>1 DEF OneInShared
<1>9. SharedInv'
  <2>1. SharedAt(p)'
    BY <1>1, <1>3, <1>5 DEF SharedAt, WithObject
  <2> QED
    BY <1>6, <2>1 DEF SharedInv
<1>10. HolderInv'
  BY <1>1, <1>3 DEF LocksInv, HolderInv
<1>11. LocksType'
  BY <1>1, <1>3 DEF LocksInv, LocksType
<1> QED
  BY <1>1, <1>8, <1>9, <1>10, <1>11 DEF LocksInv

\* The shared connection is closed when its user leaves it.
LEMMA LeaveLocks ==
  ASSUME LocksInv, NEW p \in Routine, LeaveNodes(p) \/ LeaveVersion(p)
  PROVE  LocksInv'
<1>1. /\ pc[p] = "leave" /\ UNCHANGED <<bcLocked, nodesLocked, locallock, db, objs, crashed, ownBC, ownNodes, h, mustClose>>
      /\ netLocked' \in BOOLEAN
  BY DEF LeaveNodes, LeaveVersion, At, mutexes, shared, own, local, LocksInv, LocksType
<1>2. /\ pc \in [Routine -> Labels] /\ ret \in [Routine -> {"none", "nodes", "version", "height"}]
      /\ InShared(p) /\ Kind[p] \in SharedKinds
  BY <1>1 DEF LocksInv, LocksType, InShared, Shared, OneInShared
<1>3. db = 0 /\ ~ locallock /\ mustClose[p]
  BY <1>1, <1>2 DEF LocksInv, SharedInv, SharedAt
<1>4. \A q \in Routine : InShared(q) => q = p
  BY <1>2 DEF LocksInv, OneInShared
<1>5. CASE \E l \in {"again", "close"} : pc' = [pc EXCEPT ![p] = l] /\ ret' = ret
  <2>1. PICK l \in {"again", "close"} : pc' = [pc EXCEPT ![p] = l] /\ ret' = ret
    BY <1>5
  <2>2. l \in Labels /\ l \notin {"net"} \cup Shared /\ l # "done"
    BY DEF Labels, Shared, BeforeObject, WithObject
  <2>3. pc' \in [Routine -> Labels] /\ pc'[p] = l /\ \A q \in Routine : q # p => pc'[q] = pc[q]
    BY <1>2, <2>1, <2>2
  <2>4. \A q \in Routine : ~ InShared(q)'
    BY <1>4, <2>2, <2>3 DEF InShared
  <2>6. OneInShared'
    <3>1. \A q \in Routine : pc'[q] \in {"net"} \cup Shared => Kind[q] \in SharedKinds
      BY <1>2, <2>3 DEF LocksInv, OneInShared
    <3> QED
      BY <2>4, <3>1 DEF OneInShared
  <2>7. SharedInv'
    BY <1>1, <1>3, <2>4 DEF SharedInv
  <2>8. HolderInv'
    BY <1>1, <2>2, <2>3 DEF LocksInv, HolderInv
  <2>9. LocksType'
    BY <1>1, <2>1, <2>3 DEF LocksInv, LocksType
  <2> QED
    BY <1>1, <2>6, <2>7, <2>8, <2>9 DEF LocksInv
<1>6. CASE Kind[p] = "addnode" /\ pc' = [pc EXCEPT ![p] = "need"] /\ ret' = [ret EXCEPT ![p] = "version"]
  <2>2. "need" \in Labels /\ "need" \in Shared /\ "need" \notin {"net", "done", "check"}
    BY DEF Labels, Shared, BeforeObject
  <2>3. /\ pc' \in [Routine -> Labels] /\ pc'[p] = "need" /\ \A q \in Routine : q # p => pc'[q] = pc[q]
        /\ ret' \in [Routine -> {"none", "nodes", "version", "height"}] /\ ret'[p] = "version"
    BY <1>2, <1>6, <2>2
  <2>4. \A q \in Routine : InShared(q)' <=> q = p
    BY <1>4, <2>2, <2>3 DEF InShared
  <2>6. OneInShared'
    <3>1. \A q \in Routine : pc'[q] \in {"net"} \cup Shared => Kind[q] \in SharedKinds
      BY <1>2, <2>3 DEF LocksInv, OneInShared
    <3> QED
      BY <1>6, <2>2, <2>3, <2>4, <3>1 DEF OneInShared
  <2>7. SharedInv'
    <3>1. SharedAt(p)'
      BY <1>1, <1>3, <2>3 DEF SharedAt, WithObject
    <3> QED
      BY <2>4, <3>1 DEF SharedInv
  <2>8. HolderInv'
    BY <1>1, <2>2, <2>3 DEF LocksInv, HolderInv
  <2>9. LocksType'
    BY <1>1, <2>3 DEF LocksInv, LocksType
  <2> QED
    BY <1>1, <2>6, <2>7, <2>8, <2>9 DEF LocksInv
<1> QED
  BY <1>5, <1>6 DEF LeaveNodes, LeaveVersion, Goto, local

-----------------------------------------------------------------------------
\* The properties follow from the invariant.
LEMMA LocksProperties ==
  ASSUME LocksUnlessMet
  PROVE  ReleasedUnlessMet /\ ConnectionStaysOpen /\ NoPanic
<1> SUFFICES ASSUME ~ met
             PROVE  LocksAreReleased /\ ConnectionStaysOpen /\ ~ crashed
  BY DEF ReleasedUnlessMet, ConnectionStaysOpen, NoPanic
<1>0. LocksInv
  BY DEF LocksUnlessMet
<1>1. \A p \in Routine : ownBC[p] \/ ownNodes[p] => Releases(p)
  BY <1>0 DEF LocksInv, HolderInv, Releases
<1>2. db # 0 => SharedIsClosed
  <2> SUFFICES ASSUME db # 0
               PROVE  SharedIsClosed
    OBVIOUS
  <2>1. PICK p \in Routine : InShared(p)
    BY <1>0 DEF LocksInv, SharedInv
  <2>2. SharedAt(p) /\ pc[p] # "done"
    BY <1>0, <2>1 DEF LocksInv, SharedInv, InShared, Shared, BeforeObject, WithObject
  <2>3. mustClose[p]
    BY <2>2 DEF SharedAt
  <2> QED
    BY <2>2, <2>3 DEF SharedIsClosed
<1>3. LocksAreReleased
  BY <1>0, <1>1, <1>2 DEF LocksInv, HolderInv, LocksAreReleased
<1>4. ConnectionStaysOpen
  <2> SUFFICES ASSUME NEW p \in Routine, pc[p] = "use"
               PROVE  IF ret[p] = "nodes" THEN objs[h[p]].nodes ELSE objs[h[p]].bc
    BY DEF ConnectionStaysOpen, At
  <2>1. SharedAt(p)
    BY <1>0 DEF LocksInv, SharedInv, InShared, Shared, WithObject
  <2> QED
    BY <2>1 DEF SharedAt
<1> QED
  BY <1>0, <1>3, <1>4 DEF LocksInv

\* What was met stays met.
LEMMA MetStays ==
  ASSUME NEW p \in Routine, Clone(p) \/ Run(p), ~ met'
  PROVE  ~ met
BY DEF Clone, Run, CloneNodes, CloneClose, CloseOwn, SharedFirst, OwnBC, HandlerDone, OwnNodes, PrepareFailed,
       PrepareDone, Close, NetLock, CheckOpen, OpenNeeded, PrepareConnection, LockLocal, OpenObject,
       ReadDB, GetObject, LockNodes, LockBC, UseObject, Closing, UnlockLocal, CloseObject,
       CleanConnection, LeaveNodes, LeaveVersion, Panic

(***************************************************************************)
(* For any number of requests and block makers of any kind: up to the      *)
(* first time that a goroutine comes to the shared connection while        *)
(* SendVersionToNodes uses it outside NodeNet.lock, that mutex gives each  *)
(* goroutine the connection for itself.                                    *)
(***************************************************************************)
THEOREM LocksInvariance == Spec => []LocksUnlessMet
<1>1. Init => LocksUnlessMet
  BY InitLocks DEF LocksUnlessMet
<1>2. LocksUnlessMet /\ [Next]_vars => LocksUnlessMet'
  <2> SUFFICES ASSUME LocksUnlessMet, [Next]_vars, ~ met'
               PROVE  LocksInv'
    BY DEF LocksUnlessMet
  <2>1. CASE UNCHANGED vars
    <3>0. LocksInv
      BY <2>1 DEF vars, LocksUnlessMet
    <3>1. UNCHANGED <<bcLocked, nodesLocked, netLocked, locallock, db, objs, crashed, pc, ownBC, ownNodes,
                      h, mustClose, ret>>
      BY <2>1 DEF vars, mutexes, shared, own, local
    <3>2. \A p \in Routine : (InShared(p)' <=> InShared(p)) /\ (SharedAt(p)' <=> SharedAt(p))
      BY <3>1 DEF InShared, SharedAt
    <3>3. LocksType'
      BY <3>0, <3>1 DEF LocksInv, LocksType
    <3>4. OneInShared'
      BY <3>0, <3>1, <3>2 DEF LocksInv, OneInShared
    <3>5. SharedInv'
      BY <3>0, <3>1, <3>2 DEF LocksInv, SharedInv
    <3>6. HolderInv' /\ ~ crashed'
      BY <3>0, <3>1 DEF LocksInv, HolderInv
    <3> QED
      BY <3>3, <3>4, <3>5, <3>6 DEF LocksInv
  <2>2. ASSUME NEW p \in Routine, Clone(p) \/ Run(p)
        PROVE  LocksInv'
    <3>1. LocksInv
      BY <2>2, MetStays DEF LocksUnlessMet
    <3> QED
      BY <2>2, <3>1, OwnLocks, SharedLocks, NetLockLocks, LeaveLocks DEF Run
  <2> QED
    BY <2>1, <2>2 DEF Next
<1> QED
  BY <1>1, <1>2, PTL DEF Spec

(***************************************************************************)
(* Unless goroutines met outside NodeNet.lock, a database mutex that is    *)
(* locked is going to be unlocked, except the one that TryToMakeBlock      *)
(* keeps when PrepareNewBlock fails.                                       *)
(***************************************************************************)
THEOREM LocksReleased == Spec => []ReleasedUnlessMet
BY LocksInvariance, LocksProperties, PTL

\* Unless goroutines met outside NodeNet.lock, none of them closes the database
\* under one that reads or writes it.
THEOREM ConnectionOpen == Spec => []ConnectionStaysOpen
BY LocksInvariance, LocksProperties, PTL

\* The server panics over the shared connection only after goroutines met there
\* outside NodeNet.lock.
THEOREM ServerDoesNotPanic == Spec => []NoPanic
BY LocksInvariance, LocksProperties, PTL

-----------------------------------------------------------------------------
(***************************************************************************)
(* The order in which the mutexes are locked.                              *)
(***************************************************************************)

LEMMA InitOrder == Init => OrderInv
<1> SUFFICES ASSUME Init
             PROVE  OrderInv
  OBVIOUS
<1>1. ~ netLocked /\ db = 0 /\ \A p \in Routine : ~ ownBC[p] /\ ~ ownNodes[p]
  BY DEF Init
<1> QED
  BY <1>1 DEF OrderInv, NetOrder, OwnOrder, ObjectOrder

\* The goroutine that moves, and those that do not.
LEMMA OrderOfOthers ==
  ASSUME OrderInv, NEW p \in Routine, OwnOrder(p)',
         \A q \in Routine : q # p => pc'[q] = pc[q] /\ ownBC'[q] = ownBC[q] /\ ownNodes'[q] = ownNodes[q]
  PROVE  \A q \in Routine : OwnOrder(q)'
<1>1. ASSUME NEW q \in Routine, q # p
      PROVE  OwnOrder(q)'
  BY <1>1 DEF OrderInv, OwnOrder
<1> QED
  BY <1>1

\* The steps on the own connection.
LEMMA OwnStepsOrder ==
  ASSUME LocksInv, OrderInv, NEW p \in Routine,
         \/ Clone(p) \/ CloneNodes(p) \/ CloneClose(p) \/ SharedFirst(p) \/ OwnBC(p)
         \/ HandlerDone(p) \/ OwnNodes(p) \/ PrepareFailed(p) \/ PrepareDone(p) \/ Close(p)
  PROVE  OrderInv'
<1> USE DEF At, Goto, mutexes, shared, own, local
<1>1. /\ pc \in [Routine -> Labels] /\ ownBC \in [Routine -> BOOLEAN] /\ ownNodes \in [Routine -> BOOLEAN]
  BY DEF LocksInv, LocksType
<1>2. OwnOrder(p) /\ pc[p] \notin Shared
  BY DEF OrderInv, Clone, CloneNodes, CloneClose, SharedFirst, OwnBC, HandlerDone, OwnNodes, PrepareFailed,
         PrepareDone, Close, Shared, BeforeObject, WithObject
<1>3. UNCHANGED <<netLocked, db, objs, ret>>
  BY DEF Clone, CloneNodes, CloneClose, SharedFirst, OwnBC, HandlerDone, OwnNodes, PrepareFailed, PrepareDone,
         Close, CloseOwn
\* The connection is left as it is.
<1>4. ASSUME NEW l \in {"cloneNodes", "main", "net", "close", "nodes", "done"}, pc' = [pc EXCEPT ![p] = l],
             UNCHANGED <<ownBC, ownNodes>>,
             \/ ~ ownBC[p] /\ ~ ownNodes[p]
             \/ pc[p] = "bc" /\ (l = "net" => Kind[p] = "version") /\ l \notin {"cloneNodes", "main"}
      PROVE  OwnOrder(p)' /\ \A q \in Routine : q # p =>
               pc'[q] = pc[q] /\ ownBC'[q] = ownBC[q] /\ ownNodes'[q] = ownNodes[q]
  <2>1. pc'[p] = l /\ \A q \in Routine : q # p => pc'[q] = pc[q]
    BY <1>1, <1>4
  <2>2. OwnOrder(p)'
    BY <1>2, <1>4, <2>1 DEF OwnOrder
  <2> QED
    BY <1>4, <2>1, <2>2
\* The connection is closed.
<1>5. ASSUME NEW l, pc' = [pc EXCEPT ![p] = l], CloseOwn(p)
      PROVE  OwnOrder(p)' /\ \A q \in Routine : q # p =>
               pc'[q] = pc[q] /\ ownBC'[q] = ownBC[q] /\ ownNodes'[q] = ownNodes[q]
  <2>1. ~ ownBC'[p] /\ ~ ownNodes'[p] /\ \A q \in Routine : q # p =>
          pc'[q] = pc[q] /\ ownBC'[q] = ownBC[q] /\ ownNodes'[q] = ownNodes[q]
    BY <1>1, <1>5 DEF CloseOwn
  <2> QED
    BY <2>1 DEF OwnOrder
<1>6. pc[p] \in {"new", "main", "again", "cloneNodes"} => ~ ownBC[p] /\ ~ ownNodes[p]
  BY <1>2 DEF OwnOrder, Shared, BeforeObject, WithObject
<1>7. OwnOrder(p)' /\ \A q \in Routine : q # p =>
        pc'[q] = pc[q] /\ ownBC'[q] = ownBC[q] /\ ownNodes'[q] = ownNodes[q]
  <2>1. CASE Clone(p)
    BY <1>4, <1>6, <2>1 DEF Clone
  <2>2. CASE SharedFirst(p)
    BY <1>4, <1>6, <2>2 DEF SharedFirst
  <2>3. CASE HandlerDone(p)
    BY <1>4, <2>3 DEF HandlerDone
  <2>4. CASE PrepareFailed(p)
    BY <1>4, <2>4 DEF PrepareFailed
  <2>5. CASE CloneClose(p) \/ PrepareDone(p) \/ Close(p)
    BY <1>5, <2>5 DEF CloneClose, PrepareDone, Close
  <2>6. CASE CloneNodes(p)
    <3>1. pc'[p] = "cloneClose" /\ ~ ownBC'[p] /\ \A q \in Routine : q # p =>
            pc'[q] = pc[q] /\ ownBC'[q] = ownBC[q] /\ ownNodes'[q] = ownNodes[q]
      BY <1>1, <1>6, <2>6 DEF CloneNodes
    <3> QED
      BY <3>1 DEF OwnOrder
  <2>7. CASE OwnNodes(p)
    <3>1. pc'[p] = "close" /\ \A q \in Routine : q # p =>
            pc'[q] = pc[q] /\ ownBC'[q] = ownBC[q] /\ ownNodes'[q] = ownNodes[q]
      BY <1>1, <2>7 DEF OwnNodes
    <3> QED
      BY <3>1 DEF OwnOrder
  <2>8. CASE OwnBC(p)
    <3>1. pc'[p] \in {"bc", "close"} /\ ~ ownNodes'[p] /\ \A q \in Routine : q # p =>
            pc'[q] = pc[q] /\ ownBC'[q] = ownBC[q] /\ ownNodes'[q] = ownNodes[q]
      BY <1>1, <1>6, <2>8 DEF OwnBC
    <3> QED
      BY <3>1 DEF OwnOrder
  <2> QED
    BY <2>1, <2>2, <2>3, <2>4, <2>5, <2>6, <2>7, <2>8
<1>8. \A q \in Routine : OwnOrder(q)'
  BY <1>7, OrderOfOthers
<1>9. pc'[p] \notin Shared
  BY <1>1 DEF Clone, CloneNodes, CloneClose, SharedFirst, OwnBC, HandlerDone, OwnNodes, PrepareFailed,
         PrepareDone, Close, Shared, BeforeObject, WithObject
<1>10. \A q \in Routine : InShared(q) => q # p /\ pc'[q] = pc[q] /\ InShared(q)'
  BY <1>2, <1>7 DEF InShared
<1>11. NetOrder'
  BY <1>3, <1>10 DEF OrderInv, NetOrder
<1>12. ASSUME NEW q \in Routine
       PROVE  ObjectOrder(q)'
  <2>1. InShared(q)' => InShared(q) /\ pc'[q] = pc[q]
    BY <1>7, <1>9 DEF InShared
  <2> QED
    BY <1>3, <2>1 DEF OrderInv, ObjectOrder
<1> QED
  BY <1>8, <1>11, <1>12 DEF OrderInv

\* A step of the goroutine that is at work on the shared connection.
LEMMA SharedStepOrder ==
  ASSUME LocksInv, OrderInv, NEW p \in Routine, InShared(p), NEW l \in Shared, pc' = [pc EXCEPT ![p] = l],
         pc[p] = "check" \/ ret[p] = "nodes" => l = "check" \/ ret'[p] = "nodes",
         UNCHANGED <<netLocked, ownBC, ownNodes>>, ObjectOrder(p)'
  PROVE  OrderInv'
<1>1. pc'[p] = l /\ \A q \in Routine : q # p => pc'[q] = pc[q]
  BY DEF LocksInv, LocksType
<1>2. \A q \in Routine : InShared(q)' <=> q = p
  BY <1>1 DEF InShared, LocksInv, OneInShared
<1>3. NetOrder'
  <2> SUFFICES ASSUME netLocked
               PROVE  InShared(p)' /\ (pc'[p] = "check" \/ ret'[p] = "nodes")
    BY DEF NetOrder
  <2>1. PICK q \in Routine : InShared(q) /\ (pc[q] = "check" \/ ret[q] = "nodes")
    BY DEF OrderInv, NetOrder
  <2>2. q = p
    BY <2>1 DEF LocksInv, OneInShared
  <2> QED
    BY <1>1, <1>2, <2>1, <2>2
<1>4. OwnOrder(p)'
  <2>1. pc[p] \notin {"cloneClose", "bc", "nodes", "close", "done", "net"}
    BY DEF InShared, Shared, BeforeObject, WithObject
  <2> QED
    BY <1>1, <2>1 DEF OrderInv, OwnOrder
<1>5. \A q \in Routine : OwnOrder(q)'
  BY <1>1, <1>4, OrderOfOthers
<1>6. \A q \in Routine : ObjectOrder(q)'
  BY <1>2 DEF ObjectOrder
<1> QED
  BY <1>3, <1>5, <1>6 DEF OrderInv

\* The steps on the shared connection.
LEMMA SharedStepsOrder ==
  ASSUME LocksInv, OrderInv, NEW p \in Routine,
         \/ CheckOpen(p) \/ OpenNeeded(p) \/ PrepareConnection(p) \/ LockLocal(p) \/ OpenObject(p)
         \/ ReadDB(p) \/ GetObject(p) \/ LockNodes(p) \/ LockBC(p) \/ UseObject(p) \/ Closing(p)
         \/ UnlockLocal(p) \/ CloseObject(p) \/ CleanConnection(p)
  PROVE  OrderInv'
<1> USE DEF At, Goto, mutexes, shared, own, local
<1>1. /\ pc \in [Routine -> Labels] /\ ret \in [Routine -> {"none", "nodes", "version", "height"}]
      /\ objs \in Seq(Object) /\ Len(objs) \in Nat /\ db \in 0 .. Len(objs)
  BY DEF LocksInv, LocksType
<1>2. InShared(p)
  BY DEF InShared, Shared, BeforeObject, WithObject, CheckOpen, OpenNeeded, PrepareConnection,
         LockLocal, OpenObject, ReadDB, GetObject, LockNodes, LockBC, UseObject, Closing,
         UnlockLocal, CloseObject, CleanConnection
<1>3. SharedAt(p) /\ ObjectOrder(p)
  BY <1>2 DEF LocksInv, SharedInv, OrderInv
<1>4. db # 0 => db \in 1 .. Len(objs) /\ objs[db] \in Object
  BY <1>1
<1>5. {"need", "open", "local", "opened", "read", "get", "lock", "use", "closing", "unlock", "closeObject",
       "clean", "leave"} \subseteq Shared
  BY DEF Shared, BeforeObject, WithObject
<1>6. ~ Closed.nodes /\ ~ Closed.bc /\ Closed \in Object
  BY DEF Closed, Object
\* A step that leaves the objects as they are.
<1>7. ASSUME NEW l \in Shared \ {"check", "local", "lock"}, pc' = [pc EXCEPT ![p] = l], pc[p] # "check",
             UNCHANGED <<netLocked, ownBC, ownNodes, db, objs, ret>>
      PROVE  OrderInv'
  <2>1. pc'[p] = l
    BY <1>1, <1>7
  <2>2. ObjectOrder(p)'
    BY <1>2, <1>3, <1>7, <2>1 DEF ObjectOrder
  <2> QED
    BY <1>2, <1>7, <2>2, SharedStepOrder
\* A step that leaves no object, or one that has locked nothing.
<1>8. ASSUME NEW l \in Shared \ {"check"}, pc' = [pc EXCEPT ![p] = l], ret'[p] = ret[p] \/ ret[p] = "version" \/ ret'[p] = "nodes",
             UNCHANGED <<netLocked, ownBC, ownNodes>>, pc[p] = "check" => ret'[p] = "nodes",
             db' = 0 \/ (~ objs'[db'].nodes /\ ~ objs'[db'].bc)
      PROVE  OrderInv'
  <2>1. ObjectOrder(p)'
    BY <1>8 DEF ObjectOrder
  <2>2. pc[p] = "check" \/ ret[p] = "nodes" => ret'[p] = "nodes"
    BY <1>8
  <2> QED
    BY <1>2, <1>8, <2>1, <2>2, SharedStepOrder
<1>9. CASE CheckOpen(p)
  <2>1. /\ db' = 0 /\ ret' = [ret EXCEPT ![p] = "nodes"] /\ pc' = [pc EXCEPT ![p] = "need"]
        /\ UNCHANGED <<netLocked, ownBC, ownNodes>>
    BY <1>3, <1>9 DEF CheckOpen, SharedAt
  <2>2. ret'[p] = "nodes" /\ "need" \in Shared \ {"check"}
    BY <1>1, <1>5, <2>1
  <2> QED
    BY <1>8, <2>1, <2>2
<1>10. CASE OpenNeeded(p)
  <2>1. /\ UNCHANGED <<netLocked, ownBC, ownNodes, db, objs, ret>> /\ pc[p] = "need"
        /\ \/ pc' = [pc EXCEPT ![p] = "open"]
           \/ pc' = [pc EXCEPT ![p] = "read"]
    <3>1. db # 0 => ret[p] # "version"
      BY <1>3, <1>10 DEF OpenNeeded, SharedAt
    <3> QED
      BY <1>10, <3>1 DEF OpenNeeded, OpenReturns
  <2>2. "open" \in Shared \ {"check", "local", "lock"} /\ "read" \in Shared \ {"check", "local", "lock"}
    BY <1>5
  <2> QED
    BY <1>7, <2>1, <2>2
<1>11. CASE PrepareConnection(p)
  <2>1. /\ pc' = [pc EXCEPT ![p] = "local"] /\ objs' = Append(objs, Closed) /\ db' = Len(objs) + 1
        /\ UNCHANGED <<netLocked, ownBC, ownNodes, ret>> /\ pc[p] = "open"
    BY <1>3, <1>11 DEF PrepareConnection, SharedAt
  <2>2. objs'[db'] = Closed
    BY <1>1, <1>6, <2>1
  <2>3. "local" \in Shared \ {"check"}
    BY <1>5
  <2> QED
    BY <1>6, <1>8, <2>1, <2>2, <2>3
<1>12. CASE LockLocal(p)
  <2>1. "opened" \in Shared \ {"check", "local", "lock"}
    BY <1>5
  <2> QED
    BY <1>7, <1>12, <2>1 DEF LockLocal
<1>13. CASE OpenObject(p)
  <2> DEFINE r == [objs[db] EXCEPT !.opened = TRUE]
  <2>1. /\ pc[p] = "opened" /\ db # 0 /\ objs' = [objs EXCEPT ![db] = r] /\ OpenReturns(p, TRUE)
        /\ UNCHANGED <<netLocked, ownBC, ownNodes, db>>
    BY <1>3, <1>13 DEF OpenObject, SharedAt, WithObject
  <2>2. r \in Object /\ r.bc = objs[db].bc /\ r.nodes = objs[db].nodes
    BY <1>4, <2>1 DEF Object
  <2> HIDE DEF r
  <2>3. objs'[db'] = r
    BY <1>1, <1>4, <2>1, <2>2, ObjectChange
  <2>4. CASE ret[p] = "version"
    <3>1. ~ objs[db].nodes /\ ~ objs[db].bc
      BY <1>2, <1>3, <2>1, <2>4 DEF ObjectOrder
    <3>2. pc' = [pc EXCEPT ![p] = "need"] /\ "need" \in Shared \ {"check"}
      BY <1>5, <2>1, <2>4 DEF OpenReturns
    <3> QED
      BY <1>8, <2>1, <2>2, <2>3, <2>4, <3>1, <3>2
  <2>5. CASE ret[p] # "version"
    <3>1. pc' = [pc EXCEPT ![p] = "read"] /\ ret' = ret
      BY <2>1, <2>5 DEF OpenReturns
    <3>2. pc'[p] = "read" /\ "read" \in Shared
      BY <1>1, <1>5, <3>1
    <3>3. ObjectOrder(p)'
      BY <1>2, <1>3, <2>1, <2>2, <2>3, <3>1, <3>2 DEF ObjectOrder
    <3> QED
      BY <1>2, <2>1, <3>1, <3>2, <3>3, SharedStepOrder
  <2> QED
    BY <2>4, <2>5
<1>14. CASE ReadDB(p)
  <2>1. "get" \in Shared \ {"check", "local", "lock"}
    BY <1>5
  <2> QED
    BY <1>7, <1>14, <2>1 DEF ReadDB
<1>15. CASE GetObject(p)
  <2>1. /\ pc[p] = "get" /\ db # 0 /\ h[p] = db /\ ret[p] \in {"nodes", "height"}
    BY <1>1, <1>3, <1>15 DEF GetObject, SharedAt, WithObject
  <2>2. /\ UNCHANGED <<netLocked, ownBC, ownNodes, db, objs, ret>>
        /\ \/ pc' = [pc EXCEPT ![p] = "closing"]
           \/ pc' = [pc EXCEPT ![p] = "use"]
           \/ pc' = [pc EXCEPT ![p] = "lock"] /\ ~ (IF ret[p] = "nodes" THEN objs[db].nodes ELSE objs[db].bc)
    BY <1>15, <2>1 DEF GetObject
  <2>3. CASE pc' = [pc EXCEPT ![p] = "closing"] \/ pc' = [pc EXCEPT ![p] = "use"]
    <3>1. "closing" \in Shared \ {"check", "local", "lock"} /\ "use" \in Shared \ {"check", "local", "lock"}
      BY <1>5
    <3> QED
      BY <1>7, <2>1, <2>2, <2>3, <3>1
  <2>4. CASE pc' = [pc EXCEPT ![p] = "lock"] /\ ~ (IF ret[p] = "nodes" THEN objs[db].nodes ELSE objs[db].bc)
    <3>1. ~ objs[db].nodes /\ ~ objs[db].bc
      BY <1>2, <1>3, <2>1, <2>4 DEF ObjectOrder
    <3>2. "lock" \in Shared \ {"check"}
      BY <1>5
    <3> QED
      BY <1>8, <2>1, <2>2, <2>4, <3>1, <3>2
  <2> QED
    BY <2>2, <2>3, <2>4
<1>16. CASE LockNodes(p)
  <2> DEFINE r == [objs[db] EXCEPT !.nodes = TRUE]
  <2>1. /\ pc[p] = "lock" /\ db # 0 /\ objs' = [objs EXCEPT ![db] = r] /\ ret[p] = "nodes"
        /\ pc' = [pc EXCEPT ![p] = "use"] /\ UNCHANGED <<netLocked, ownBC, ownNodes, db, ret>>
    BY <1>3, <1>16 DEF LockNodes, SharedAt, WithObject
  <2>2. r \in Object /\ r.bc = objs[db].bc /\ ~ objs[db].bc
    BY <1>2, <1>3, <1>4, <2>1 DEF Object, ObjectOrder
  <2> HIDE DEF r
  <2>3. objs'[db'] = r
    BY <1>1, <1>4, <2>1, <2>2, ObjectChange
  <2>4. pc'[p] = "use" /\ "use" \in Shared
    BY <1>1, <1>5, <2>1
  <2>5. ObjectOrder(p)'
    BY <2>1, <2>2, <2>3, <2>4 DEF ObjectOrder
  <2> QED
    BY <1>2, <2>1, <2>4, <2>5, SharedStepOrder
<1>17. CASE LockBC(p)
  <2> DEFINE r == [objs[db] EXCEPT !.bc = TRUE]
  <2>1. /\ pc[p] = "lock" /\ db # 0 /\ objs' = [objs EXCEPT ![db] = r] /\ ret[p] = "height"
        /\ pc' = [pc EXCEPT ![p] = "use"] /\ UNCHANGED <<netLocked, ownBC, ownNodes, db, ret>>
    BY <1>3, <1>17 DEF LockBC, SharedAt, WithObject
  <2>2. r \in Object /\ r.nodes = objs[db].nodes /\ ~ objs[db].nodes
    BY <1>2, <1>3, <1>4, <2>1 DEF Object, ObjectOrder
  <2> HIDE DEF r
  <2>3. objs'[db'] = r
    BY <1>1, <1>4, <2>1, <2>2, ObjectChange
  <2>4. pc'[p] = "use" /\ "use" \in Shared
    BY <1>1, <1>5, <2>1
  <2>5. ObjectOrder(p)'
    BY <2>1, <2>2, <2>3, <2>4 DEF ObjectOrder
  <2> QED
    BY <1>2, <2>1, <2>4, <2>5, SharedStepOrder
<1>18. CASE UseObject(p) \/ Closing(p)
  <2>1. {"closing", "unlock", "leave"} \subseteq Shared \ {"check", "local", "lock"}
    BY <1>5
  <2> QED
    BY <1>7, <1>18, <2>1 DEF UseObject, Closing
<1>19. CASE UnlockLocal(p)
  <2>1. "closeObject" \in Shared \ {"check", "local", "lock"} /\ locallock
    BY <1>3, <1>5, <1>19 DEF UnlockLocal, SharedAt, WithObject
  <2> QED
    BY <1>7, <1>19, <2>1 DEF UnlockLocal
<1>20. CASE CloseObject(p)
  <2>1. /\ pc[p] = "closeObject" /\ db # 0 /\ objs' = [objs EXCEPT ![db] = Closed]
        /\ pc' = [pc EXCEPT ![p] = "clean"] /\ UNCHANGED <<netLocked, ownBC, ownNodes, db, ret>>
    BY <1>3, <1>20 DEF CloseObject, SharedAt, WithObject
  <2>2. objs'[db'] = Closed
    BY <1>1, <1>4, <1>6, <2>1, ObjectChange
  <2>3. "clean" \in Shared \ {"check"}
    BY <1>5
  <2> QED
    BY <1>6, <1>8, <2>1, <2>2, <2>3
<1>21. CASE CleanConnection(p)
  <2>1. "leave" \in Shared \ {"check"}
    BY <1>5
  <2> QED
    BY <1>8, <1>21, <2>1 DEF CleanConnection
<1> QED
  BY <1>9, <1>10, <1>11, <1>12, <1>13, <1>14, <1>15, <1>16, <1>17, <1>18, <1>19, <1>20, <1>21

\* The shared connection is entered and left.
LEMMA BoundaryOrder ==
  ASSUME LocksInv, LocksInv', OrderInv, NEW p \in Routine, NetLock(p) \/ LeaveNodes(p) \/ LeaveVersion(p)
  PROVE  OrderInv'
<1> USE DEF At, Goto, mutexes, shared, own, local
<1>1. pc \in [Routine -> Labels] /\ ret \in [Routine -> {"none", "nodes", "version", "height"}]
  BY DEF LocksInv, LocksType
<1>2. UNCHANGED <<ownBC, ownNodes, db>>
  BY DEF NetLock, LeaveNodes, LeaveVersion
<1>3. CASE NetLock(p)
  <2>1. pc[p] = "net" /\ pc'[p] = "check" /\ (\A q \in Routine : q # p => pc'[q] = pc[q])
    BY <1>1, <1>3 DEF NetLock
  <2>2. InShared(p)'
    BY <2>1 DEF InShared, Shared, BeforeObject
  <2>3. NetOrder'
    BY <2>1, <2>2 DEF NetOrder
  <2>4. SharedAt(p)'
    BY <2>2 DEF LocksInv, SharedInv
  <2>5. db' = 0
    BY <2>1, <2>4 DEF SharedAt
  <2>6. OwnOrder(p)'
    BY <1>2, <2>1, <2>2 DEF OrderInv, OwnOrder, InShared, Shared, BeforeObject, WithObject
  <2>7. \A q \in Routine : OwnOrder(q)'
    BY <1>2, <2>1, <2>6, OrderOfOthers
  <2>8. \A q \in Routine : ObjectOrder(q)'
    BY <2>5 DEF ObjectOrder
  <2> QED
    BY <2>3, <2>7, <2>8 DEF OrderInv
<1>4. CASE LeaveNodes(p) \/ LeaveVersion(p)
  <2>1. pc[p] = "leave" /\ InShared(p)
    BY <1>4 DEF LeaveNodes, LeaveVersion, InShared, Shared
  <2>2. db = 0
    BY <2>1 DEF LocksInv, SharedInv, SharedAt
  <2>3. ~ netLocked'
    <3>1. CASE LeaveNodes(p)
      BY <3>1 DEF LeaveNodes
    <3>2. CASE LeaveVersion(p)
      <4>1. netLocked' = netLocked /\ ret[p] = "height"
        BY <3>2 DEF LeaveVersion
      <4>2. ~ netLocked
        BY <2>1, <4>1 DEF OrderInv, NetOrder, LocksInv, OneInShared
      <4> QED
        BY <4>1, <4>2
    <3> QED
      BY <1>4, <3>1, <3>2
  <2>4. /\ \A q \in Routine : q # p => pc'[q] = pc[q]
        /\ pc'[p] \in {"need", "close"} \/ (Kind[p] = "addr" /\ pc'[p] = "again")
    BY <1>1, <1>4 DEF LeaveNodes, LeaveVersion
  <2>5. OwnOrder(p)'
    <3>1. ~ ownNodes[p] /\ (ownBC[p] => Kind[p] = "version")
      BY <2>1 DEF OrderInv, OwnOrder
    <3>2. "need" \in Shared
      BY DEF Shared, BeforeObject
    <3> QED
      BY <1>2, <2>4, <3>1, <3>2 DEF OwnOrder
  <2>6. \A q \in Routine : OwnOrder(q)'
    BY <1>2, <2>4, <2>5, OrderOfOthers
  <2>7. \A q \in Routine : ObjectOrder(q)'
    BY <1>2, <2>2 DEF ObjectOrder
  <2> QED
    BY <2>3, <2>6, <2>7 DEF OrderInv, NetOrder
<1> QED
  BY <1>3, <1>4

\* Who has lockNodes on its own connection waits for nothing.
LEMMA NodesHolderRuns ==
  ASSUME LocksInv, OrderInv, nodesLocked, db = 0 \/ ~ objs[db].nodes
  PROVE  \E q \in Routine : Begun(q) /\ ~ Waits(q)
<1>1. PICK q \in Routine : ownNodes[q]
  BY DEF LocksInv, HolderInv
<1>2. pc[q] \in {"cloneClose", "close"}
  BY <1>1 DEF OrderInv, OwnOrder
<1> QED
  BY <1>2 DEF Begun, Waits

(***************************************************************************)
(* Who has lockBC on its own connection goes on, or waits for lockNodes,   *)
(* whose holder goes on, or is handleVersion at the shared node.           *)
(***************************************************************************)
LEMMA BCHolderRuns ==
  ASSUME LocksInv, OrderInv, ~ LockIsKept, bcLocked, db = 0 \/ ~ (objs[db].nodes \/ objs[db].bc),
         \A q \in Routine : Kind[q] = "version" /\ pc[q] \in {"net"} \cup Shared => Begun(q) /\ ~ Waits(q)
  PROVE  \E q \in Routine : Begun(q) /\ ~ Waits(q)
<1>1. PICK q \in Routine : ownBC[q]
  BY DEF LocksInv, HolderInv
<1>2. pc[q] \in {"bc", "nodes", "close"} \/ (Kind[q] = "version" /\ pc[q] \in {"net"} \cup Shared)
  BY <1>1 DEF OrderInv, OwnOrder, LockIsKept
<1>3. CASE pc[q] \in {"bc", "close"}
  BY <1>3 DEF Begun, Waits
<1>4. CASE pc[q] = "nodes"
  <2>1. CASE nodesLocked
    BY <2>1, NodesHolderRuns
  <2>2. CASE ~ nodesLocked
    BY <1>4, <2>2 DEF Begun, Waits
  <2> QED
    BY <2>1, <2>2
<1> QED
  BY <1>2, <1>3, <1>4

LEMMA SomebodyGoesOn ==
  ASSUME LocksInv, OrderInv
  PROVE  NobodyWaitsInCircle
<1> SUFFICES ASSUME NEW p \in Routine, Begun(p), ~ LockIsKept, Waits(p)
             PROVE  \E q \in Routine : Begun(q) /\ ~ Waits(q)
  BY DEF NobodyWaitsInCircle
\* The goroutine at the shared connection waits for lockNodes or for lockBC.
<1>1. ASSUME NEW q \in Routine, InShared(q)
      PROVE  \E r \in Routine : Begun(r) /\ ~ Waits(r)
  <2>1. SharedAt(q) /\ ObjectOrder(q) /\ Begun(q)
    BY <1>1 DEF LocksInv, SharedInv, OrderInv, InShared, Begun, Shared, BeforeObject, WithObject
  <2>2. CASE ~ Waits(q)
    BY <2>1, <2>2
  <2>3. CASE Waits(q)
    <3>1. pc[q] \in {"local", "lock"}
      BY <1>1, <2>3 DEF Waits, InShared, Shared, BeforeObject, WithObject
    <3>2. pc[q] = "lock"
      BY <2>1, <2>3, <3>1 DEF Waits, SharedAt
    <3>3. db = 0 \/ (~ objs[db].nodes /\ ~ objs[db].bc)
      BY <1>1, <2>1, <3>2 DEF ObjectOrder
    <3>4. CASE ret[q] = "nodes"
      <4>1. nodesLocked
        BY <2>3, <3>2, <3>4 DEF Waits
      <4> QED
        BY <3>3, <4>1, NodesHolderRuns
    <3>5. CASE ret[q] # "nodes"
      <4>1. bcLocked
        BY <2>3, <3>2, <3>5 DEF Waits
      <4>2. Kind[q] = "addnode"
        BY <1>1, <3>2, <3>5 DEF LocksInv, OneInShared
      \* handleVersion may come to the shared node: NodeNet.lock is free.
      <4>3. ASSUME NEW r \in Routine, Kind[r] = "version", pc[r] \in {"net"} \cup Shared
            PROVE  Begun(r) /\ ~ Waits(r)
        <5>1. r # q /\ pc[r] = "net"
          BY <1>1, <4>2, <4>3 DEF InShared, LocksInv, OneInShared
        <5>2. ~ netLocked
          BY <1>1, <3>2, <3>5 DEF OrderInv, NetOrder, LocksInv, OneInShared
        <5> QED
          BY <5>1, <5>2 DEF Begun, Waits
      <4> QED
        BY <3>3, <4>1, <4>3, BCHolderRuns
    <3> QED
      BY <3>4, <3>5
  <2> QED
    BY <2>2, <2>3
\* Nobody is there: NodeNet.lock and locallock are free.
<1>2. CASE \A q \in Routine : ~ InShared(q)
  <2>1. db = 0 /\ ~ locallock /\ ~ netLocked
    BY <1>2 DEF LocksInv, SharedInv, OrderInv, NetOrder
  <2>2. ASSUME NEW q \in Routine, pc[q] \in {"net"} \cup Shared
        PROVE  Begun(q) /\ ~ Waits(q)
    <3>1. pc[q] = "net"
      BY <1>2, <2>2 DEF InShared
    <3> QED
      BY <2>1, <3>1 DEF Begun, Waits
  <2>3. CASE nodesLocked
    BY <2>1, <2>3, NodesHolderRuns
  <2>4. CASE bcLocked
    BY <2>1, <2>2, <2>4, BCHolderRuns
  <2>5. CASE ~ nodesLocked /\ ~ bcLocked
    BY <2>1, <2>5 DEF Waits
  <2> QED
    BY <2>3, <2>4, <2>5
<1> QED
  BY <1>1, <1>2

OrderUnlessMet == ~ met => OrderInv

(***************************************************************************)
(* No deadlock of requests and block makers over lockBC, lockNodes,        *)
(* NodeNet.lock and locallock, for any number of them, until a block maker *)
(* fails with lockBC or goroutines meet outside NodeNet.lock: the safety   *)
(* part of RequestsEnd, which needs the scheduler's fairness in addition.  *)
(***************************************************************************)
THEOREM NoCircle == Spec => []NobodyWaitsInCircle
<1>1. Init => OrderUnlessMet
  BY InitOrder DEF OrderUnlessMet
<1>2. LocksUnlessMet /\ LocksUnlessMet' /\ OrderUnlessMet /\ [Next]_vars => OrderUnlessMet'
  <2> SUFFICES ASSUME LocksUnlessMet, LocksUnlessMet', OrderUnlessMet, [Next]_vars, ~ met'
               PROVE  OrderInv'
    BY DEF OrderUnlessMet
  <2>1. CASE UNCHANGED vars
    <3>0. OrderInv
      BY <2>1 DEF vars, OrderUnlessMet
    <3>1. UNCHANGED <<netLocked, db, objs, pc, ownBC, ownNodes, ret>>
      BY <2>1 DEF vars, mutexes, shared, own, local
    <3>2. \A p \in Routine : InShared(p)' <=> InShared(p)
      BY <3>1 DEF InShared
    <3>3. ASSUME NEW p \in Routine
          PROVE  OwnOrder(p)' /\ ObjectOrder(p)'
      BY <3>0, <3>1, <3>2 DEF OrderInv, OwnOrder, ObjectOrder
    <3>4. NetOrder'
      BY <3>0, <3>1, <3>2 DEF OrderInv, NetOrder
    <3> QED
      BY <3>3, <3>4 DEF OrderInv
  <2>2. ASSUME NEW p \in Routine, Clone(p) \/ Run(p)
        PROVE  OrderInv'
    <3>1. LocksInv /\ LocksInv' /\ OrderInv
      BY <2>2, MetStays DEF LocksUnlessMet, OrderUnlessMet
    <3> QED
      BY <2>2, <3>1, OwnStepsOrder, SharedStepsOrder, BoundaryOrder DEF Run
  <2> QED
    BY <2>1, <2>2 DEF Next
<1>3. LocksUnlessMet /\ OrderUnlessMet => NobodyWaitsInCircle
  BY SomebodyGoesOn DEF LocksUnlessMet, OrderUnlessMet, NobodyWaitsInCircle
<1> QED
  BY <1>1, <1>2, <1>3, LocksInvariance, PTL DEF Spec
=============================================================================
