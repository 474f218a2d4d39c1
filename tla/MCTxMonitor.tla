---------------------------- MODULE MCTxMonitor -----------------------------
(***************************************************************************)
(* Instances of TxMonitor for TLC: any client may hand over transactions   *)
(* with any nonce and watch any of them.                                   *)
(***************************************************************************)
EXTENDS TxMonitor, TLC

Symmetry == Permutations(Txs) \cup Permutations(Waiters)
=============================================================================
