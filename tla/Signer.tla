------------------------------- MODULE Signer -------------------------------
(***************************************************************************)
(* How bids and preconfirmations are signed and verified                   *)
(* (pkg/signer/preconfsigner over a key signer of pkg/keysigner).          *)
(*                                                                         *)
(* Keccak256 is taken to be injective: a digest is the tuple that was      *)
(* hashed.  A signature knows its key, the digest it is over and the       *)
(* parity of its nonce point; v is the byte at index 64, from which the    *)
(* key can be recovered only when it is that parity, or Nil when the       *)
(* signature is too short to have one.                                     *)
(***************************************************************************)
EXTENDS Integers

CONSTANTS
  Width,        \* bits of the integers that are 64 bits wide in the code
  NotANumber,   \* an amount that big.Int.SetString does not parse
  Stranger,     \* the address recovered from a signature over something else
  Nil           \* no bytes, no address, no message

\* All but the first conjunct is arithmetic.
ASSUME WidthAssumption ==
  /\ Width \in Nat \ {0}
  /\ 0 < 2^(Width - 1) /\ 2^(Width - 1) <= 2^Width /\ 2^Width <= 2^(4 * Width)

\* The signed integers of the same width.
Int64 == -(2^(Width - 1)) .. (2^(Width - 1) - 1)

\* uint64(x), also uint64(b.Int64()) of a big integer: the low bits.
Uint64(n) == n % 2^Width

\* math.U256Bytes: a word of the EVM, four times as wide.
U256Bytes(n) == n % 2^(4 * Width)

\* The messages of the preconfirmation protocol.
Bid(f, digest, signature) ==
  [txHash |-> f.txHash, amount |-> f.amount, block |-> f.block,
   decayStart |-> f.decayStart, decayEnd |-> f.decayEnd,
   digest |-> digest, signature |-> signature]

PreConfirmation(bid, digest, signature) ==
  [bid |-> bid, digest |-> digest, signature |-> signature]

\* The fields both messages hash, under the domain of the message.
Encode(domain, f) ==
  <<domain, f.txHash, U256Bytes(f.amount), U256Bytes(f.block),
    U256Bytes(f.decayStart), U256Bytes(f.decayEnd)>>

GetBidHash(f) ==
  IF f.amount = NotANumber THEN Nil ELSE Encode("PreConfBid", f)

GetPreConfirmationHash(bid) ==
  IF bid.amount = NotANumber THEN Nil
  ELSE <<Encode("PreConfCommitment", bid), bid.digest, bid.signature>>

\* crypto.Sign with the node's key, then V from 0/1 to 27/28.
SignHash(key, hash, parity) ==
  [key |-> key, over |-> hash, parity |-> parity, v |-> parity]

ForSolidity(sig) == [sig EXCEPT !.v = IF @ \in {0, 1} THEN @ + 27 ELSE @]

\* crypto.SigToPub: an error for a v that is no parity.
SigToPub(hash, sig) ==
  IF sig.v \notin {0, 1} THEN Nil
  ELSE IF sig.over = hash /\ sig.v = sig.parity THEN sig.key ELSE Stranger

\* The address, or Nil for an error.
eipVerify(payloadHash, expected, sig) ==
  IF payloadHash # expected THEN Nil
  ELSE SigToPub(payloadHash,
                [sig EXCEPT !.v = IF @ \in {27, 28} THEN @ - 27 ELSE @])

\* eipVerify reads the byte at index 64, which is not there.
Panics(bid) ==
  /\ Nil \notin {bid.digest, bid.signature, GetBidHash(bid)}
  /\ GetBidHash(bid) = bid.digest
  /\ bid.signature.v = Nil

VerifyBid(bid) ==
  IF Nil \in {bid.digest, bid.signature, GetBidHash(bid)} THEN Nil
  ELSE eipVerify(GetBidHash(bid), bid.digest, bid.signature)

ConstructSignedBid(key, f, parity) ==
  IF f.block = 0 \/ GetBidHash(f) = Nil THEN Nil
  ELSE Bid(f, GetBidHash(f), ForSolidity(SignHash(key, GetBidHash(f), parity)))

ConstructPreConfirmation(key, bid, parity) ==
  IF VerifyBid(bid) = Nil THEN Nil
  ELSE PreConfirmation(bid, GetPreConfirmationHash(bid),
                       ForSolidity(SignHash(key, GetPreConfirmationHash(bid), parity)))

VerifyPreConfirmation(c) ==
  IF Nil \in {c.digest, c.signature, VerifyBid(c.bid)} THEN Nil
  ELSE eipVerify(GetPreConfirmationHash(c.bid), c.digest, c.signature)
=============================================================================
