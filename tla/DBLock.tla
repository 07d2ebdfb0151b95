------------------------------- MODULE DBLock -------------------------------
(***************************************************************************)
(* The lock of a database (node/database/manager.go: lockDB, unLockDB and  *)
(* the connection between them).  Goroutines of one process exclude each   *)
(* other with a mutex; processes (the daemon and every command of the      *)
(* command line) exclude each other with a lock file, which is tested and  *)
(* created in two steps.  The database library has a file lock of its own, *)
(* waits ten seconds for it and then fails.                                *)
(***************************************************************************)
EXTENDS Naturals, FiniteSets

CONSTANTS
  Process,
  Routine,     \* goroutines
  ProcessOf,   \* the process each goroutine is in
  NoRoutine,   \* nobody has the library's lock
  MaxRounds,   \* rounds of the loop that waits for the lock file (10000)
  MaxCrashes   \* bound on the crashes of processes

ASSUME DBLockAssumption ==
  /\ ProcessOf \in [Routine -> Process]
  /\ NoRoutine \notin Routine
  /\ MaxRounds \in Nat /\ MaxCrashes \in Nat

VARIABLES
  pc,       \* where each goroutine is
  rounds,   \* rounds it has waited
  mutex,    \* mutex[p]: the mutex of process p is locked
  file,     \* the lock file: "none", "fresh", or "old" (more than 60 minutes)
  flock,    \* the goroutine that has the library's lock
  crashes,
  raced,    \* history: somebody found no lock file while another one was about to create it
  expired   \* history: the lock file of a live owner was removed as too old

vars == <<pc, rounds, mutex, file, flock, crashes, raced, expired>>

Init ==
  /\ pc = [r \in Routine |-> "idle"]
  /\ rounds = [r \in Routine |-> 0]
  /\ mutex = [p \in Process |-> FALSE]
  /\ file = "none"
  /\ flock = NoRoutine
  /\ crashes = 0
  /\ raced = FALSE /\ expired = FALSE

\* Goroutines that have made the lock file and not yet removed it.
Owners == {r \in Routine : pc[r] \in {"open", "use", "unlock"}}

Goto(r, l) == pc' = [pc EXCEPT ![r] = l]
Unlock(r) == mutex' = [mutex EXCEPT ![ProcessOf[r]] = FALSE]

\* lockDB returns an error, or unLockDB is done.
Return(r) == Goto(r, "idle") /\ Unlock(r)

-----------------------------------------------------------------------------
(***************************************************************************)
(* lockDB.                                                                 *)
(***************************************************************************)
LockMutex(r) ==
  /\ pc[r] = "idle"
  /\ ~ mutex[ProcessOf[r]]
  /\ mutex' = [mutex EXCEPT ![ProcessOf[r]] = TRUE]
  /\ rounds' = [rounds EXCEPT ![r] = 0]
  /\ Goto(r, "stat")
  /\ UNCHANGED <<file, flock, crashes, raced, expired>>

\* The age is looked at once, before the loop.
Stat_ignoresAge(r) ==
  /\ pc[r] = "stat"
  /\ Goto(r, "test")
  /\ UNCHANGED <<rounds, mutex, file, flock, crashes, raced, expired>>

Stat(r) ==
  /\ pc[r] = "stat"
  /\ Goto(r, IF file = "old" THEN "expire" ELSE "test")
  /\ UNCHANGED <<rounds, mutex, file, flock, crashes, raced, expired>>

RemoveOld(r) ==
  /\ pc[r] = "expire"
  /\ file' = "none"
  /\ expired' = (expired \/ Owners # {})
  /\ Goto(r, "test")
  /\ UNCHANGED <<rounds, mutex, flock, crashes, raced>>

NoLockFile(r) ==
  /\ pc[r] = "test"
  /\ file = "none"
  /\ raced' = (raced \/ \E s \in Routine : pc[s] = "create")
  /\ Goto(r, "create")
  /\ UNCHANGED <<rounds, mutex, file, flock, crashes, expired>>

WaitRound(r) ==
  /\ pc[r] = "test"
  /\ file # "none"
  /\ rounds[r] < MaxRounds
  /\ rounds' = [rounds EXCEPT ![r] = @ + 1]
  /\ UNCHANGED <<pc, mutex, file, flock, crashes, raced, expired>>

\* "Can not open DB. Lock failed after many attempts"
GiveUp_goesOn(r) ==
  /\ pc[r] = "test"
  /\ file # "none"
  /\ rounds[r] = MaxRounds
  /\ Goto(r, "create")
  /\ UNCHANGED <<rounds, mutex, file, flock, crashes, raced, expired>>

GiveUp(r) ==
  /\ pc[r] = "test"
  /\ file # "none"
  /\ rounds[r] = MaxRounds
  /\ Return(r)
  /\ UNCHANGED <<rounds, file, flock, crashes, raced, expired>>

Create(r) ==
  /\ pc[r] = "create"
  /\ file' = "fresh"
  /\ Goto(r, "open")
  /\ UNCHANGED <<rounds, mutex, flock, crashes, raced, expired>>

CreateFails(r) ==
  /\ pc[r] = "create"
  /\ Return(r)
  /\ UNCHANGED <<rounds, file, flock, crashes, raced, expired>>

\* The lock file is not removed when it could not be written.
WriteFails(r) ==
  /\ pc[r] = "create"
  /\ file' = "fresh"
  /\ Return(r)
  /\ UNCHANGED <<rounds, flock, crashes, raced, expired>>

-----------------------------------------------------------------------------
(***************************************************************************)
(* bolt.Open and Close, and unLockDB.                                      *)
(***************************************************************************)
Open(r) ==
  /\ pc[r] = "open"
  /\ flock = NoRoutine
  /\ flock' = r
  /\ Goto(r, "use")
  /\ UNCHANGED <<rounds, mutex, file, crashes, raced, expired>>

\* Neither the mutex is unlocked nor the lock file removed.
OpenTimeout(r) ==
  /\ pc[r] = "open"
  /\ flock # NoRoutine
  /\ Goto(r, "idle")
  /\ UNCHANGED <<rounds, mutex, file, flock, crashes, raced, expired>>

Close(r) ==
  /\ pc[r] = "use"
  /\ flock' = NoRoutine
  /\ Goto(r, "unlock")
  /\ UNCHANGED <<rounds, mutex, file, crashes, raced, expired>>

\* Whoever made the file.
RemoveFile(r) ==
  /\ pc[r] = "unlock"
  /\ file' = "none"
  /\ Goto(r, "release")
  /\ UNCHANGED <<rounds, mutex, flock, crashes, raced, expired>>

UnlockMutex(r) ==
  /\ pc[r] = "release"
  /\ Return(r)
  /\ UNCHANGED <<rounds, file, flock, crashes, raced, expired>>

-----------------------------------------------------------------------------
\* A process ends at any place, and may be started again.
Crash(p) ==
  /\ crashes < MaxCrashes
  /\ crashes' = crashes + 1
  /\ pc' = [r \in Routine |-> IF ProcessOf[r] = p THEN "idle" ELSE pc[r]]
  /\ mutex' = [mutex EXCEPT ![p] = FALSE]
  /\ flock' = IF flock \in Routine /\ ProcessOf[flock] = p THEN NoRoutine ELSE flock
  /\ UNCHANGED <<rounds, file, raced, expired>>

\* An hour has passed since the lock file was written.
Age ==
  /\ file = "fresh"
  /\ file' = "old"
  /\ UNCHANGED <<pc, rounds, mutex, flock, crashes, raced, expired>>

LockDB(r) ==
  \/ Stat(r) \/ RemoveOld(r) \/ NoLockFile(r) \/ WaitRound(r) \/ GiveUp(r)
  \/ Create(r) \/ CreateFails(r) \/ WriteFails(r)
  \/ Open(r) \/ OpenTimeout(r)

UnLockDB(r) == Close(r) \/ RemoveFile(r) \/ UnlockMutex(r)

Next ==
  \/ \E r \in Routine : LockMutex(r) \/ LockDB(r) \/ UnLockDB(r)
  \/ \E p \in Process : Crash(p)
  \/ Age

Spec == Init /\ [][Next]_vars

(***************************************************************************)
(* A goroutine that has the mutex goes on, uses the database for a finite  *)
(* time, and files get old.  Nobody is obliged to ask for the database.    *)
(***************************************************************************)
FairSpec ==
  /\ Spec
  /\ \A r \in Routine : WF_vars(LockDB(r)) /\ WF_vars(UnLockDB(r))
  /\ WF_vars(Age)

-----------------------------------------------------------------------------
(***************************************************************************)
(* Properties.                                                             *)
(***************************************************************************)

\* The lock's state has its type, and no goroutine waits longer than the bound.
DBLockTypeOK ==
  /\ pc \in [Routine -> {"idle", "stat", "expire", "test", "create", "open", "use", "unlock", "release"}]
  /\ rounds \in [Routine -> 0 .. MaxRounds]
  /\ mutex \in [Process -> BOOLEAN]
  /\ file \in {"none", "fresh", "old"}
  /\ flock \in Routine \cup {NoRoutine}
  /\ crashes \in 0 .. MaxCrashes
  /\ raced \in BOOLEAN /\ expired \in BOOLEAN

(***************************************************************************)
(* What the lock file of lockDB guarantees: two goroutines, of whichever   *)
(* processes, own it at the same time only when two of them were between   *)
(* the test and the creation together, or when the file of a live owner    *)
(* was removed as too old.  Crashes, failed writes and failed opens alone, *)
(* and the removal of the file of a dead owner, never break the exclusion. *)
(***************************************************************************)
TwoOwnersOnlyByRace == (\E r, s \in Owners : r # s) => raced \/ expired

(***************************************************************************)
(* "This is for case when something goes very wrong, process fails and     *)
(* lock is not removed" (database/manager.go): a lock file without an      *)
(* owner does not stay, as long as somebody goes on asking for the         *)
(* database.                                                               *)
(***************************************************************************)
Orphan == file # "none" /\ Owners = {}
SomebodyAsks == []<>(\E r \in Routine : pc[r] = "stat")
StaleLockIsRemoved == SomebodyAsks => (Orphan ~> ~ Orphan)
=============================================================================
