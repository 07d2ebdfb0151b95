---------------------------- MODULE MCServerLocks ----------------------------
(***************************************************************************)
(* Mixes of goroutines for TLC.                                            *)
(***************************************************************************)
EXTENDS ServerLocksInv, TLC

MCKind ==
  "v1" :> "version" @@ "v2" :> "version" @@ "a" :> "addr" @@
  "r1" :> "removenode" @@ "r2" :> "removenode" @@ "d" :> "addnode" @@
  "b" :> "block" @@ "m" :> "mint" @@ "n" :> "mintNone" @@ "e" :> "mintErr"
MCRoutine == DOMAIN MCKind

(***************************************************************************)
(* Requests that use the shared connection under NodeNet.lock; a request   *)
(* that also uses it outside that mutex, beside a handler and block makers *)
(* that do not use it; a block maker that finds invalid transactions,      *)
(* beside requests that need the blockchain and one that does not; two     *)
(* requests that may meet at the shared connection outside NodeNet.lock.   *)
(***************************************************************************)
MCMixes == {{"v1", "v2", "a", "r1"}, {"b", "m", "n", "d"}, {"e", "r1", "v1", "b"}, {"v1", "d"}, {"e", "r1", "d"}}

\* The operator adds a node while another one sends its version.
MCAddNodeMixes == {{"v1", "d"}}
=============================================================================
