--------------------------- MODULE MCProviderBids ---------------------------
(***************************************************************************)
(* Instances of ProviderBids for TLC.  Handlers, decisions and streams are *)
(* interchangeable, so each set may be permuted.                           *)
(***************************************************************************)
EXTENDS ProviderBids, TLC

Symmetry == Permutations(Handlers) \cup Permutations(Decisions)
            \cup Permutations(Responders)
=============================================================================
