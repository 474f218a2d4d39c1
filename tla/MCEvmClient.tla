---------------------------- MODULE MCEvmClient -----------------------------
(***************************************************************************)
(* Instances of EvmClient for TLC.                                         *)
(***************************************************************************)
EXTENDS EvmClient, TLC

Symmetry == Permutations(Txs)
=============================================================================
