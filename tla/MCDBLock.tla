------------------------------ MODULE MCDBLock ------------------------------
(***************************************************************************)
(* The daemon with two goroutines, and two commands of the command line.   *)
(***************************************************************************)
EXTENDS DBLock

MCProcessOf == [r \in Routine |-> IF r = "cli" THEN "command" ELSE IF r = "cli2" THEN "command2" ELSE "daemon"]
=============================================================================
