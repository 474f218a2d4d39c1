----------------------------- MODULE Settlement -----------------------------
(***************************************************************************)
(* What a bid becomes, composed with the deposits of Registry: the bidder  *)
(* signs it, the provider's node verifies it, looks up the signer's        *)
(* allowance, has it accepted, signs a preconfirmation, packs both into a  *)
(* storeCommitment transaction and answers, and the bidder verifies the    *)
(* answer.  ProviderBids and BidderSend have the concurrency of these      *)
(* steps; here are the values they pass on.                                *)
(*                                                                         *)
(* One bid stream, used again and again.  Bids also come from other        *)
(* implementations, which may sign what this node's API would refuse, and  *)
(* leave v as crypto.Sign returns it.                                      *)
(***************************************************************************)
EXTENDS Registry

CONSTANTS
  Self,       \* the provider's account
  Fields,     \* what bids say, as peers may send it
  Parities,   \* of the nonce points of signatures
  MaxBids     \* bound: commitments stored

\* What can be hashed and signed.
BidHashes ==
  {"PreConfBid", "PreConfCommitment"} \X {"tx"} \X Int \X Int \X Int \X Int

Signatures(hashes) == [key : Accounts, over : hashes, parity : {0, 1}, v : {0, 1, 27, 28}]

PreConfirmationHashes == BidHashes \X BidHashes \X Signatures(BidHashes)

\* What a bidder says in a bid; the amount is a string of any length.
BidderBid ==
  [txHash : {"tx"}, amount : Int, block : Int64, decayStart : {1}, decayEnd : Int64]

\* Nil is none of that, and what is recovered from a signature over something
\* else is nobody's address.
ASSUME SettlementAssumption ==
  /\ Self \in Providers
  /\ Accounts \cap {Nil, Stranger} = {}
  /\ Fields \subseteq BidderBid
  /\ {1, 2} \subseteq Int64
  /\ Parities \subseteq {0, 1}
  /\ Nil \notin PreConfirmationHashes \cup Signatures(PreConfirmationHashes) \cup {0, 1, 27, 28}

VARIABLES
  bidPc,       \* the stream: where handleBid is
  bid,         \* the bid that was sent
  bidder,      \* the address VerifyBid returned
  seen,        \* history: the bidder's "taken" when its allowance was looked up
  preconf,     \* the preconfirmation handleBid constructed
  stored       \* the calls of storeCommitment that went to the chain

bidVars == <<bidPc, bid, bidder, seen, preconf, stored>>
vars == <<registryVars, bidVars>>

\* What ProcessBid puts before the provider's software.
ProviderBid(b) ==
  [txHash |-> b.txHash, amount |-> b.amount, block |-> b.block, digest |-> b.digest,
   decayStart |-> b.decayStart, decayEnd |-> b.decayEnd]

\* What the bidder's API makes of an answer: the provider is the signer.
Commitment(c) ==
  [txHash |-> c.bid.txHash, amount |-> c.bid.amount, block |-> c.bid.block,
   decayStart |-> c.bid.decayStart, decayEnd |-> c.bid.decayEnd,
   receivedBidDigest |-> c.bid.digest, receivedBidSignature |-> c.bid.signature,
   digest |-> c.digest, signature |-> c.signature,
   provider |-> VerifyPreConfirmation(c)]

\* The types of the state; a provider's answer passes for its own and nobody else's.
TypeOK ==
  /\ RegistryTypeOK
  /\ bidPc \in {"idle", "allowance", "process", "reply"}
  /\ bidPc # "idle" => bidder \in Bidders \cup {Stranger}
  /\ bidPc = "reply" => Commitment(preconf).provider = Self
  /\ \A c \in stored : c.amount \in 0..(2^Width - 1)

Init ==
  /\ RegistryInit
  /\ bidPc = "idle"
  /\ bid = Nil
  /\ bidder = Nil
  /\ seen = 0
  /\ preconf = Nil
  /\ stored = {}

-----------------------------------------------------------------------------
(***************************************************************************)
(* Seeded faults: variants of the definitions they are named after.        *)
(***************************************************************************)
\* The amount only has to be a number.
ValidBid_AnyNumber(b) ==
  /\ b.amount # NotANumber /\ b.amount > 0
  /\ \A n \in {b.block, b.decayStart, b.decayEnd} : n > 0

-----------------------------------------------------------------------------
EndBid ==
  /\ bidPc' = "idle"
  /\ bid' = Nil
  /\ bidder' = Nil
  /\ seen' = 0
  /\ preconf' = Nil

\* The rules of bidderapi.v1.Bid and providerapi.v1.Bid: the amount as for a
\* deposit; of the other numbers uint(this) > 0, which fails on a negative one.
ValidBid(b) ==
  /\ ValidAmount(b.amount)
  /\ \A n \in {b.block, b.decayStart, b.decayEnd} : n > 0

\* What the bidder's node sends once its API has taken the bid.
SendBid(b) ==
  {ConstructSignedBid(b, f, parity) : f \in {g \in Fields : ValidBid(g)}, parity \in Parities}

\* Another implementation signs what that API would refuse, leaves v as 0 or 1,
\* leaves a part out or a signature too short to have a v, or changes a field
\* after it has signed, with its digest or without.
Later(c) == [c EXCEPT !.decayStart = @ + 1]

OtherBids(b) ==
  UNION {{c, [c EXCEPT !.signature.v = c.signature.parity], [c EXCEPT !.signature.v = Nil],
          [c EXCEPT !.digest = Nil], [c EXCEPT !.signature = Nil],
          [c EXCEPT !.amount = NotANumber], Later(c),
          [Later(c) EXCEPT !.digest = GetBidHash(Later(c))]}
          : c \in {ConstructSignedBid(b, f, parity) : f \in Fields, parity \in Parities} \ {Nil}}

-----------------------------------------------------------------------------
(***************************************************************************)
(* The provider's node: handleBid.                                         *)
(***************************************************************************)
ReadBid(b) ==
  /\ bidPc = "idle" /\ Cardinality(stored) < MaxBids
  /\ bid' \in (SendBid(b) \cup OtherBids(b)) \ {Nil}
  /\ bidder' = VerifyBid(bid')
  /\ bidder' # Nil
  /\ bidPc' = "allowance"
  /\ UNCHANGED <<seen, preconf, stored, registryVars>>

\* eipVerify indexes a signature that is too short, once the digest has been found
\* right: the node's process ends, and with it the call of its client.
ReadBidPanics(b) ==
  /\ bidPc = "idle"
  /\ \E c \in OtherBids(b) : Panics(c)
  /\ \/ ClientFails(Self)
     \/ clientPc[Self] = "request" /\ Fault /\ Return(Self, 0) /\ UNCHANGED chainVars
     \/ clientPc[Self] = "idle" /\ Fault /\ UNCHANGED <<clientVars, chainVars>>
  /\ UNCHANGED bidVars

\* What the contract says of an address: only bidders have prepaid.
GetBidderAllowance(a) == IF a \in Bidders THEN deposit[a] ELSE 0

\* CheckBidderAllowance reads the minimum, which nothing changes, and then the
\* allowance; a bidder is refused when one of the calls fails.
CheckAllowance ==
  /\ bidPc = "allowance"
  /\ \/ /\ GetBidderAllowance(bidder) >= Minimum
        /\ bidPc' = "process"
        /\ seen' = taken[bidder]
        /\ UNCHANGED <<bid, bidder, preconf>>
     \/ GetBidderAllowance(bidder) < Minimum /\ EndBid
  /\ UNCHANGED <<stored, registryVars>>

CheckFailed ==
  /\ bidPc = "allowance"
  /\ Fault
  /\ EndBid
  /\ UNCHANGED <<stored, clientVars, chainVars>>

\* ProcessBid refuses the bid, or the provider's software does.
Refuse ==
  /\ bidPc = "process"
  /\ EndBid
  /\ UNCHANGED <<stored, registryVars>>

\* The call data of storeCommitment, with 64-bit integers.
StoreCommitment(c) ==
  [txHash |-> c.bid.txHash,
   amount |-> Uint64(c.bid.amount), block |-> Uint64(c.bid.block),
   decayStart |-> Uint64(c.bid.decayStart), decayEnd |-> Uint64(c.bid.decayEnd),
   bidSignature |-> c.bid.signature, commitmentSignature |-> c.signature,
   bidder |-> bidder, seen |-> seen]   \* not sent: whose allowance was looked up, and when

Accept ==
  /\ bidPc = "process" /\ ValidBid(ProviderBid(bid))
  /\ \E parity \in Parities : preconf' = ConstructPreConfirmation(Self, bid, parity)
  /\ preconf' # Nil
  /\ stored' = stored \cup {StoreCommitment(preconf')}
  /\ bidPc' = "reply"
  /\ UNCHANGED <<bid, bidder, seen, registryVars>>

\* The transaction is not sent, or it is and the call fails all the same.
AcceptFails ==
  /\ bidPc = "process" /\ ValidBid(ProviderBid(bid))
  /\ Fault
  /\ \E parity \in Parities :
       LET c == ConstructPreConfirmation(Self, bid, parity)
       IN c # Nil /\ stored' \in {stored, stored \cup {StoreCommitment(c)}}
  /\ EndBid
  /\ UNCHANGED <<clientVars, chainVars>>

\* The bidder's node verifies the answer, whichever way that goes.
Reply ==
  /\ bidPc = "reply"
  /\ EndBid
  /\ UNCHANGED <<stored, registryVars>>

-----------------------------------------------------------------------------
Deposits == RegistryNext /\ UNCHANGED bidVars

HandleBid ==
  CheckAllowance \/ CheckFailed \/ Refuse \/ Accept \/ AcceptFails \/ Reply

Next ==
  \/ Deposits
  \/ \E b \in Bidders : ReadBid(b) \/ ReadBidPanics(b)
  \/ HandleBid

Spec == Init /\ [][Next]_vars

(***************************************************************************)
(* The bidder's program looks every hour, a call under way goes on, and    *)
(* the chain goes on mining.  Nobody has to post an amount, and nobody has *)
(* to bid.                                                                 *)
(***************************************************************************)
FairSpec ==
  /\ Spec
  /\ \A a \in Bidders :
       /\ SF_vars(Start(a) /\ UNCHANGED bidVars)
       /\ WF_vars(Client(a) /\ UNCHANGED bidVars)
  /\ WF_vars((\E i \in Txs : Mine(i)) /\ UNCHANGED bidVars)

-----------------------------------------------------------------------------
(***************************************************************************)
(* Properties.                                                             *)
(***************************************************************************)
\* RegisterStake and PrepayAllowance answer with an amount only once their
\* transaction has been mined, and the amount includes it if it took effect and
\* nothing has been taken since.
AnswerIsReal ==
  \A a \in Accounts :
    answered[a] > 0 =>
      LET tx == txs[TxOf(a)]
      IN  /\ tx.status \in {"ok", "reverted"}
          /\ tx.status = "ok" /\ tx.taken = taken[a] => answered[a] >= tx.amount

\* Two deposits that the client program asked for (nobody posts their amount),
\* both effective or still to be, mean that the program was told that one of them
\* had failed, or that something had been taken from the account after the first
\* took effect and before the second was sent.
PaidTwiceOnlyAfterError ==
  \A i, j \in Txs :
    /\ i < j /\ txs[i].from = txs[j].from
    /\ \A k \in {i, j} :
         /\ txs[k].amount \notin Requests
         /\ txs[k].status \in {"pending", "ok"}
    => \/ "err" \in {txs[i].told, txs[j].told}
       \/ txs[i].taken < txs[j].taken

\* What the contract makes of a call: it has only the 64-bit numbers to hash.
ContractBidHash(c) == Encode("PreConfBid", c)

ContractCommitmentHash(c) ==
  <<Encode("PreConfCommitment", c), ContractBidHash(c), c.bidSignature>>

ecrecover(hash, sig) == SigToPub(hash, [sig EXCEPT !.v = @ - 27])

\* From a stored commitment the contract recovers the provider and, if the bid was
\* signed with a v of 27 or 28, the very bidder whose allowance handleBid looked up:
\* no number that is signed as 256 bits wide is stored with fewer.  From a v of 0
\* or 1, which eipVerify takes and which is stored as it came, it recovers nobody.
\* That bidder's allowance is enough unless something was taken since the lookup.
StoredAsSigned ==
  \A c \in stored :
    /\ ecrecover(ContractBidHash(c), c.bidSignature) =
         IF c.bidSignature.v \in {27, 28} THEN c.bidder ELSE Nil
    /\ c.bidder \in Bidders
    /\ taken[c.bidder] = c.seen => deposit[c.bidder] >= Minimum
    /\ ecrecover(ContractCommitmentHash(c), c.commitmentSignature) = Self

\* Whatever fails, the bidder's program gets it an allowance to bid with.
BidderBecomesAllowed == \A b \in Bidders : <>(deposit[b] >= Minimum)

\* An OK answer of RegisterStake or PrepayAllowance means that the deposit was made.
OkMeansDeposited == \A i \in Txs : txs[i].told = "ok" => txs[i].status = "ok"
=============================================================================
