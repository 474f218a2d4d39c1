----------------------------- MODULE BidStream ------------------------------
(***************************************************************************)
(* What a provider's node promises on a bid stream, as the bidder's node   *)
(* may rely on it: at most one answer, and a preconfirmation only after    *)
(* the commitment went to the chain.  An error, or a stream that ends, may *)
(* still leave a commitment behind.  ProviderBids implements this.         *)
(***************************************************************************)
CONSTANT Streams     \* bid streams; a bidder opens one to each provider

VARIABLES
  committed,   \* streams whose commitment went to the chain
  answer       \* what was written on each stream

streamVars == <<committed, answer>>

StreamInit ==
  /\ committed = {}
  /\ answer = [s \in Streams |-> "none"]

Commit(s) ==
  /\ answer[s] = "none"
  /\ committed' = committed \cup {s}
  /\ UNCHANGED answer

Answer(s) ==
  /\ answer[s] = "none"
  /\ s \in committed
  /\ answer' = [answer EXCEPT ![s] = "preconf"]
  /\ UNCHANGED committed

Fail(s) ==
  /\ answer[s] = "none"
  /\ committed' \in {committed, committed \cup {s}}
  /\ answer' = [answer EXCEPT ![s] = "error"]

StreamStep(s) == Commit(s) \/ Answer(s) \/ Fail(s)

StreamNext == \E s \in Streams : StreamStep(s)

StreamSpec == StreamInit /\ [][StreamNext]_streamVars
=============================================================================
