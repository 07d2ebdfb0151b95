------------------------------ MODULE MCDaemon ------------------------------
(***************************************************************************)
(* Two servers are started, stopped and looked for, one after the other or *)
(* while the other one ends; or one server, started as a daemon or not,    *)
(* takes three transactions, with a channel for one signal.                *)
(***************************************************************************)
EXTENDS DaemonInv

MCMixes ==
  {[servers |-> {1, 2}, interactive |-> FALSE, txs |-> {}, commands |-> TRUE]} \cup
  {[servers |-> {1}, interactive |-> i, txs |-> Tx, commands |-> FALSE] : i \in BOOLEAN}
=============================================================================
