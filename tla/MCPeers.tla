------------------------------ MODULE MCPeers -------------------------------
(***************************************************************************)
(* Instances of Peers for TLC.                                             *)
(***************************************************************************)
EXTENDS Peers, TLC

Symmetry == Permutations(Conns) \cup Permutations(Tasks) \cup Permutations(Streams)
=============================================================================
