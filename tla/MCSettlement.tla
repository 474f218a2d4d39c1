---------------------------- MODULE MCSettlement ----------------------------
(***************************************************************************)
(* Bids for model checking Settlement with integers of three bits: a valid *)
(* one, one whose amount does not fit, one with a negative timestamp.      *)
(***************************************************************************)
EXTENDS Settlement

Terms(amount, end) ==
  [txHash |-> "tx", amount |-> amount, block |-> 1, decayStart |-> 1, decayEnd |-> end]

MCFields == {Terms(7, 1), Terms(9, 1), Terms(7, -1)}
=============================================================================
