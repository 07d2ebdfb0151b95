---------------------------- MODULE DBLockProofs ----------------------------
(***************************************************************************)
(* Exclusion by the lock file of module DBLock, for any number of          *)
(* processes, goroutines, rounds and crashes.                              *)
(***************************************************************************)
EXTENDS DBLock, TLAPS

\* Goroutines that found no lock file, or own it.
Inside == {r \in Routine : pc[r] = "create"} \cup Owners

\* As long as nobody raced and no live owner's file was removed, at most one
\* goroutine is inside, and the file exists while it has an owner.
Exclusive ==
  ~ raced /\ ~ expired =>
    /\ \A r, s \in Inside : r = s
    /\ Owners # {} => file # "none"

LockInv == DBLockTypeOK /\ Exclusive

-----------------------------------------------------------------------------
(***************************************************************************)
(* Types, of lockDB and unLockDB: every step leaves the state in its type. *)
(***************************************************************************)
LEMMA TypeStep == DBLockTypeOK /\ [Next]_vars => DBLockTypeOK'
<1> USE DBLockAssumption DEF DBLockTypeOK
<1> SUFFICES ASSUME DBLockTypeOK, [Next]_vars PROVE DBLockTypeOK'
  OBVIOUS
<1>1. ASSUME NEW r \in Routine, LockMutex(r) PROVE DBLockTypeOK'
  BY <1>1 DEF LockMutex, Goto
<1>2. ASSUME NEW r \in Routine, LockDB(r) PROVE DBLockTypeOK'
  <2>1. CASE Stat(r)
    BY <2>1 DEF Stat, Goto
  <2>2. CASE RemoveOld(r)
    BY <2>2 DEF RemoveOld, Goto
  <2>3. CASE NoLockFile(r)
    BY <2>3 DEF NoLockFile, Goto
  <2>4. CASE WaitRound(r)
    BY <2>4 DEF WaitRound
  <2>5. CASE GiveUp(r)
    BY <2>5 DEF GiveUp, Return, Goto, Unlock
  <2>6. CASE Create(r)
    BY <2>6 DEF Create, Goto
  <2>7. CASE CreateFails(r)
    BY <2>7 DEF CreateFails, Return, Goto, Unlock
  <2>8. CASE WriteFails(r)
    BY <2>8 DEF WriteFails, Return, Goto, Unlock
  <2>9. CASE Open(r)
    BY <2>9 DEF Open, Goto
  <2>10. CASE OpenTimeout(r)
    BY <2>10 DEF OpenTimeout, Goto
  <2> QED
    BY <1>2, <2>1, <2>2, <2>3, <2>4, <2>5, <2>6, <2>7, <2>8, <2>9, <2>10 DEF LockDB
<1>3. ASSUME NEW r \in Routine, UnLockDB(r) PROVE DBLockTypeOK'
  BY <1>3 DEF UnLockDB, Close, RemoveFile, UnlockMutex, Return, Goto, Unlock
<1>4. ASSUME NEW p \in Process, Crash(p) PROVE DBLockTypeOK'
  BY <1>4 DEF Crash
<1>5. CASE Age
  BY <1>5 DEF Age
<1>6. CASE UNCHANGED vars
  BY <1>6 DEF vars
<1> QED
  BY <1>1, <1>2, <1>3, <1>4, <1>5, <1>6 DEF Next

-----------------------------------------------------------------------------
(***************************************************************************)
(* A step that lets nobody in keeps the exclusion: the goroutines inside   *)
(* were inside before, the owners were owners or came from the creation,   *)
(* and the file is not removed under an owner.                             *)
(***************************************************************************)
LEMMA NobodyEnters ==
  ASSUME Exclusive,
         raced' = raced, expired' = expired,
         Inside' \subseteq Inside,
         Owners' \subseteq Owners,
         file # "none" => file' # "none"
  PROVE  Exclusive'
BY DEF Exclusive

\* The exclusion is kept by every step of lockDB, unLockDB and of a crash.
LEMMA ExclusiveStep == DBLockTypeOK /\ Exclusive /\ [Next]_vars => Exclusive'
<1> SUFFICES ASSUME DBLockTypeOK, Exclusive, [Next]_vars PROVE Exclusive'
  OBVIOUS
<1> USE DBLockAssumption DEF DBLockTypeOK
<1>1. ASSUME NEW r \in Routine, LockMutex(r) PROVE Exclusive'
  BY <1>1, NobodyEnters DEF LockMutex, Goto, Inside, Owners
<1>2. ASSUME NEW r \in Routine, LockDB(r) PROVE Exclusive'
  <2>1. CASE Stat(r)
    BY <2>1, NobodyEnters DEF Stat, Goto, Inside, Owners
  <2>2. CASE RemoveOld(r)
    <3>1. Inside' = Inside /\ Owners' = Owners
      BY <2>2 DEF RemoveOld, Goto, Inside, Owners
    <3> QED
      BY <2>2, <3>1 DEF RemoveOld, Exclusive
  <2>3. CASE NoLockFile(r)
    <3>1. /\ Owners' = Owners
          /\ Inside' \subseteq Inside \cup {r}
      BY <2>3 DEF NoLockFile, Goto, Inside, Owners
    <3>2. ~ raced' /\ ~ expired' => Inside = {}
      BY <2>3 DEF NoLockFile, Exclusive, Inside
    <3> QED
      BY <2>3, <3>1, <3>2 DEF NoLockFile, Exclusive, Inside
  <2>4. CASE WaitRound(r)
    BY <2>4, NobodyEnters DEF WaitRound, Inside, Owners
  <2>5. CASE GiveUp(r)
    BY <2>5, NobodyEnters DEF GiveUp, Return, Goto, Inside, Owners
  <2>6. CASE Create(r)
    <3>1. Inside' = Inside
      BY <2>6 DEF Create, Goto, Inside, Owners
    <3> QED
      BY <2>6, <3>1 DEF Create, Exclusive
  <2>7. CASE CreateFails(r)
    BY <2>7, NobodyEnters DEF CreateFails, Return, Goto, Inside, Owners
  <2>8. CASE WriteFails(r)
    BY <2>8, NobodyEnters DEF WriteFails, Return, Goto, Inside, Owners
  <2>9. CASE Open(r)
    BY <2>9, NobodyEnters DEF Open, Goto, Inside, Owners
  <2>10. CASE OpenTimeout(r)
    BY <2>10, NobodyEnters DEF OpenTimeout, Goto, Inside, Owners
  <2> QED
    BY <1>2, <2>1, <2>2, <2>3, <2>4, <2>5, <2>6, <2>7, <2>8, <2>9, <2>10 DEF LockDB
<1>3. ASSUME NEW r \in Routine, UnLockDB(r) PROVE Exclusive'
  <2>1. CASE Close(r)
    BY <2>1, NobodyEnters DEF Close, Goto, Inside, Owners
  <2>2. CASE RemoveFile(r)
    \* r was the only one inside, and is not any more.
    <3>1. /\ Inside' = Inside \ {r} /\ r \in Inside
          /\ Owners' \subseteq Inside'
      BY <2>2 DEF RemoveFile, Goto, Inside, Owners
    <3> QED
      BY <2>2, <3>1 DEF RemoveFile, Exclusive
  <2>3. CASE UnlockMutex(r)
    BY <2>3, NobodyEnters DEF UnlockMutex, Return, Goto, Inside, Owners
  <2> QED
    BY <1>3, <2>1, <2>2, <2>3 DEF UnLockDB
<1>4. ASSUME NEW p \in Process, Crash(p) PROVE Exclusive'
  BY <1>4, NobodyEnters DEF Crash, Inside, Owners
<1>5. CASE Age
  BY <1>5, NobodyEnters DEF Age, Inside, Owners
<1>6. CASE UNCHANGED vars
  BY <1>6, NobodyEnters DEF vars, Inside, Owners
<1> QED
  BY <1>1, <1>2, <1>3, <1>4, <1>5, <1>6 DEF Next

-----------------------------------------------------------------------------
\* LockInv is an inductive invariant of lockDB and unLockDB.
THEOREM LockInvariance == Spec => []LockInv
<1>1. Init => LockInv
  <2> SUFFICES ASSUME Init PROVE LockInv
    OBVIOUS
  <2>1. DBLockTypeOK
    <3>1. 0 \in 0 .. MaxRounds /\ 0 \in 0 .. MaxCrashes
      BY DBLockAssumption
    <3>2. raced \in BOOLEAN /\ expired \in BOOLEAN
      BY DEF Init
    <3>3. mutex \in [Process -> BOOLEAN]
      BY DEF Init
    <3>4. rounds \in [Routine -> 0 .. MaxRounds]
      BY <3>1 DEF Init
    <3> QED
      BY <3>1, <3>2, <3>3, <3>4 DEF Init, DBLockTypeOK
  <2>2. Inside = {} /\ Owners = {}
    BY DEF Init, Inside, Owners
  <2> QED
    BY <2>1, <2>2 DEF LockInv, Exclusive
<1>2. LockInv /\ [Next]_vars => LockInv'
  BY TypeStep, ExclusiveStep DEF LockInv
<1> QED
  BY <1>1, <1>2, PTL DEF Spec

\* The lock of a database keeps its type, and no wait for the lock file
\* exceeds its bound.
THEOREM DBLockTypes == Spec => []DBLockTypeOK
<1>1. LockInv => DBLockTypeOK
  BY DEF LockInv
<1> QED
  BY <1>1, LockInvariance, PTL

\* Two goroutines, of any processes, own the lock file of lockDB together
\* only after a race between test and creation, or after the removal of a
\* live owner's file.
THEOREM Exclusion == Spec => []TwoOwnersOnlyByRace
<1>1. LockInv => TwoOwnersOnlyByRace
  BY DEF LockInv, Exclusive, Inside, TwoOwnersOnlyByRace
<1> QED
  BY <1>1, LockInvariance, PTL
=============================================================================
