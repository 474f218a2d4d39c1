-------------------------- MODULE SettlementProofs ---------------------------
(***************************************************************************)
(* Proofs about Settlement: its types, that an answer to a deposit is one  *)
(* the chain bears out, that a program pays twice only after an error,     *)
(* that the contract recovers from what is stored the bidder and the       *)
(* provider, and that these have signed it.                                *)
(*                                                                         *)
(* RegistryInv ties each call of a client to the last transaction of its   *)
(* account and each effective transaction to the deposit; BidInv says what *)
(* handleBid knows of the bid at each of its steps.                        *)
(***************************************************************************)
EXTENDS Settlement, TLAPS

-----------------------------------------------------------------------------
(***************************************************************************)
(* The deposits.                                                           *)
(***************************************************************************)
TxRecords ==
  [from : Accounts, amount : 1..(2^Width - 1),
   status : {"pending", "ok", "reverted", "replaced"}, told : {"none", "ok", "err"},
   taken : 0..MaxTaken]

RegistryTypes ==
  /\ clientPc \in [Accounts -> {"idle", "check", "min", "request", "send", "wait", "read"}]
  /\ arg \in [Accounts -> Nat]
  /\ answered \in [Accounts -> Nat]
  /\ deposit \in [Accounts -> Nat]
  /\ taken \in [Accounts -> 0..MaxTaken]
  /\ txs \in Seq(TxRecords)
  /\ Len(txs) <= MaxTx
  /\ faults \in 0..MaxFaults

\* What a client program asks for.
Asked(a) == IF a \in Providers THEN Stake ELSE TopUp * Minimum

Mined == {"ok", "reverted"}

IsLast(a, i) == txs[i].from = a /\ \A j \in Txs : txs[j].from = a => j <= i

\* A deposit of the program is there, untouched, and the program was told so.
Paid(a) ==
  \E i \in Txs : /\ txs[i].from = a /\ txs[i].amount \notin Requests
                 /\ txs[i].status = "ok" /\ txs[i].told = "ok"
                 /\ txs[i].taken = taken[a]

\* What a client's call, or the answer to the last one, rests on.
CallOK(a) ==
  /\ clientPc[a] = "min" => a \in Bidders
  /\ clientPc[a] \in {"request", "send"} => arg[a] \in Requests \cup {Asked(a)}
  /\ clientPc[a] = "send" => arg[a] \in 1..(2^Width - 1)
  /\ clientPc[a] \in {"wait", "read"} =>
       \E i \in Txs : IsLast(a, i) /\ txs[i].told = "none"
                      /\ (clientPc[a] = "read" => txs[i].status \in Mined)
  /\ answered[a] > 0 =>
       /\ clientPc[a] = "idle"
       /\ \E i \in Txs : IsLast(a, i) /\ txs[i].status \in Mined
                         /\ (txs[i].status = "ok" /\ txs[i].taken = taken[a]
                               => answered[a] >= txs[i].amount)
  /\ Paid(a) => /\ clientPc[a] = "min" => arg[a] > Minimum
                /\ clientPc[a] \in {"request", "send"} => arg[a] \in Requests

\* What is known of a transaction.
TxOK(i) ==
  /\ txs[i].told = "none" => clientPc[txs[i].from] \in {"wait", "read"} /\ IsLast(txs[i].from, i)
  /\ txs[i].told = "ok" => txs[i].status \in Mined
  /\ txs[i].taken <= taken[txs[i].from]
  /\ txs[i].status = "ok" /\ txs[i].taken = taken[txs[i].from]
       => deposit[txs[i].from] >= txs[i].amount
  /\ txs[i].amount \in Requests \cup {Asked(txs[i].from)}

RegistryInv ==
  /\ RegistryTypes
  /\ \A a \in Accounts : CallOK(a)
  /\ \A i \in Txs : TxOK(i)
  /\ PaidTwiceOnlyAfterError

-----------------------------------------------------------------------------
(***************************************************************************)
(* The bids.                                                               *)
(***************************************************************************)
\* A bid that was sent, whatever is wrong with it, carries a signature that a
\* bidder made, with a v that fits it or none, or no signature.
BidSignatures == [key : Bidders, over : BidHashes, parity : {0, 1}, v : {0, 1, 27, 28, Nil}]

Fitting(sig) == sig.v \in {sig.parity, sig.parity + 27}

Sent(b) ==
  /\ b.txHash = "tx"
  /\ b.amount \in Int \cup {NotANumber}
  /\ {b.block, b.decayStart, b.decayEnd} \subseteq Int64
  /\ b.signature # Nil =>
       b.signature \in BidSignatures /\ (b.signature.v # Nil => Fitting(b.signature))

\* The allowance of a was enough when its "taken" was n.
Covered(a, n) ==
  /\ a \in Bidders
  /\ n \in Nat /\ n <= taken[a]
  /\ taken[a] = n => deposit[a] >= Minimum

BidInv ==
  /\ bidPc \in {"idle", "allowance", "process", "reply"}
  /\ bidPc # "idle" => Sent(bid) /\ bidder = VerifyBid(bid) /\ bidder # Nil
  /\ bidPc \in {"process", "reply"} => Covered(bidder, seen)
  /\ bidPc = "reply" => VerifyPreConfirmation(preconf) = Self

\* What is stored has the types that storeCommitment's parameters have, and says
\* who has signed it.
CallData(c) ==
  /\ c.amount \in 0..(2^Width - 1)
  /\ c.bidSignature \in Signatures(BidHashes)
  /\ c.commitmentSignature \in Signatures(PreConfirmationHashes)
  /\ eipVerify(ContractBidHash(c), ContractBidHash(c), c.bidSignature) = c.bidder
  /\ ecrecover(ContractBidHash(c), c.bidSignature) =
       IF c.bidSignature.v \in {27, 28} THEN c.bidder ELSE Nil
  /\ ecrecover(ContractCommitmentHash(c), c.commitmentSignature) = Self

StoredInv == \A c \in stored : CallData(c) /\ Covered(c.bidder, c.seen)

IInv == RegistryInv /\ BidInv /\ StoredInv

-----------------------------------------------------------------------------
(***************************************************************************)
(* Facts about the operators.                                              *)
(***************************************************************************)
\* The numbers and accounts, as they are assumed.
LEMMA Numbers ==
  /\ Stake \in Nat /\ Minimum \in Nat /\ TopUp \in Nat
  /\ MaxTx \in Nat /\ MaxPosts \in Nat /\ MaxFaults \in Nat /\ MaxTaken \in Nat
  /\ Requests \subseteq Nat /\ Leftovers \subseteq Nat
  /\ Minimum > 0 /\ TopUp > 1
  /\ 2^Width \in Nat /\ 2^Width > 0
<1>1. 2^Width \in Int /\ 2^(Width - 1) \in Int
  BY WidthAssumption
<1> QED
  BY <1>1, RegistryAssumption, WidthAssumption

\* What checkOrPrepay asks for is more than the minimum.
LEMMA TopUpIsEnough == TopUp * Minimum \in Nat /\ TopUp * Minimum > Minimum
<1>1. ASSUME NEW x \in Nat, NEW y \in Nat, x > 1, y > 0
      PROVE  x * y \in Nat /\ x * y > y
  BY <1>1
<1> QED
  BY <1>1, Numbers

LEMMA AskedIsNat ==
  ASSUME NEW a \in Accounts
  PROVE  Asked(a) \in Nat
  BY Numbers, TopUpIsEnough DEF Asked

LEMMA TxType ==
  ASSUME RegistryTypes, NEW i \in Txs
  PROVE  /\ txs[i] \in TxRecords
         /\ txs[i].from \in Accounts /\ txs[i].amount \in 1..(2^Width - 1)
         /\ txs[i].amount \in Nat /\ txs[i].amount > 0
         /\ txs[i].status \in {"pending", "ok", "reverted", "replaced"}
         /\ txs[i].told \in {"none", "ok", "err"}
         /\ txs[i].taken \in 0..MaxTaken /\ txs[i].taken \in Nat
<1>1. txs[i] \in TxRecords
  BY DEF RegistryTypes, Txs
<1> QED
  BY <1>1, Numbers DEF TxRecords

\* One transaction changes.
LEMMA TxChange ==
  ASSUME txs \in Seq(TxRecords), NEW i \in Txs, NEW t \in TxRecords,
         txs' = [txs EXCEPT ![i] = t]
  PROVE  /\ txs' \in Seq(TxRecords) /\ Len(txs') = Len(txs) /\ Txs' = Txs
         /\ txs'[i] = t
         /\ \A j \in Txs : j # i => txs'[j] = txs[j]
  BY DEF Txs

\* TxOf picks the last one, if there is one.
LEMMA TxOfLast ==
  ASSUME txs \in Seq(TxRecords), NEW a, NEW i \in Txs, IsLast(a, i)
  PROVE  TxOf(a) = i
<1>1. \A j \in Txs : txs[j].from = a /\ (\A k \in Txs : txs[k].from = a => k <= j) => j = i
  BY DEF IsLast, Txs
<1> QED
  BY <1>1 DEF TxOf, IsLast

-----------------------------------------------------------------------------
(***************************************************************************)
(* What keeps the parts of RegistryInv.                                    *)
(***************************************************************************)
\* The chain as another account, or nobody, leaves it: b's own transactions are
\* at most mined, and its deposit at most taken from.
KeptFor(b) ==
  /\ txs' \in Seq(TxRecords) /\ Txs \subseteq Txs'
  /\ \A i \in Txs : txs'[i].from = txs[i].from
  /\ \A i \in Txs' : txs'[i].from = b =>
       /\ i \in Txs
       /\ txs'[i].amount = txs[i].amount /\ txs'[i].told = txs[i].told
       /\ \/ txs'[i].status = txs[i].status /\ txs'[i].taken = txs[i].taken
          \/ txs[i].status = "pending"
  /\ taken'[b] \in Nat /\ taken'[b] >= taken[b]

\* A client that does not move keeps what its call rests on.
LEMMA CallKept ==
  ASSUME RegistryInv, NEW b \in Accounts, KeptFor(b),
         clientPc'[b] = clientPc[b], arg'[b] = arg[b], answered'[b] = answered[b]
  PROVE  CallOK(b)'
<1>1. /\ CallOK(b) /\ \A i \in Txs : TxOK(i) /\ txs[i].taken \in Nat
      /\ taken[b] \in Nat /\ taken'[b] \in Nat /\ taken'[b] >= taken[b]
  BY TxType, Numbers DEF RegistryInv, RegistryTypes, KeptFor
<1>2. ASSUME NEW i \in Txs, IsLast(b, i)
      PROVE  /\ i \in Txs' /\ IsLast(b, i)'
             /\ txs'[i].amount = txs[i].amount /\ txs'[i].told = txs[i].told
             /\ txs[i].status \in Mined =>
                  txs'[i].status = txs[i].status /\ txs'[i].taken = txs[i].taken
             /\ txs[i].taken <= taken[b]
  <2>1. i \in Txs' /\ txs'[i].from = b
    BY <1>2 DEF KeptFor, IsLast
  <2>2. \A j \in Txs' : txs'[j].from = b => j <= i
    BY <1>2 DEF KeptFor, IsLast
  <2>3. txs[i].from = b /\ txs[i].taken <= taken[b]
    BY <1>1, <1>2 DEF IsLast, TxOK
  <2> QED
    BY <2>1, <2>2, <2>3 DEF KeptFor, IsLast, Mined
<1>3. Paid(b)' => Paid(b)
  <2> SUFFICES ASSUME NEW i \in Txs', txs'[i].from = b, txs'[i].amount \notin Requests,
                      txs'[i].status = "ok", txs'[i].told = "ok", txs'[i].taken = taken'[b]
               PROVE  Paid(b)
    BY DEF Paid
  <2>1. i \in Txs /\ txs[i].from = b /\ txs[i].told = "ok" /\ txs[i].amount \notin Requests
    BY DEF KeptFor
  <2>2. txs[i].status = "ok" /\ txs'[i].taken = txs[i].taken
    BY <1>1, <2>1 DEF KeptFor, TxOK, Mined
  <2>3. txs[i].taken <= taken[b]
    BY <1>1, <2>1 DEF TxOK
  <2>4. txs[i].taken = taken[b]
    BY <1>1, <2>1, <2>2, <2>3
  <2> QED
    BY <2>1, <2>2, <2>4 DEF Paid
<1>4. /\ clientPc'[b] = "min" => b \in Bidders
      /\ clientPc'[b] \in {"request", "send"} => arg'[b] \in Requests \cup {Asked(b)}
      /\ clientPc'[b] = "send" => arg'[b] \in 1..(2^Width - 1)
  BY <1>1 DEF CallOK
<1>5. clientPc'[b] \in {"wait", "read"} =>
       \E i \in Txs' : IsLast(b, i)' /\ txs'[i].told = "none"
                      /\ (clientPc'[b] = "read" => txs'[i].status \in Mined)
  <2> SUFFICES ASSUME clientPc[b] \in {"wait", "read"}
               PROVE  \E i \in Txs' : IsLast(b, i)' /\ txs'[i].told = "none"
                        /\ (clientPc[b] = "read" => txs'[i].status \in Mined)
    OBVIOUS
  <2>1. PICK i \in Txs : IsLast(b, i) /\ txs[i].told = "none"
                         /\ (clientPc[b] = "read" => txs[i].status \in Mined)
    BY <1>1 DEF CallOK
  <2> QED
    BY <1>2, <2>1
<1>6. answered'[b] > 0 =>
       /\ clientPc'[b] = "idle"
       /\ \E i \in Txs' : IsLast(b, i)' /\ txs'[i].status \in Mined
                         /\ (txs'[i].status = "ok" /\ txs'[i].taken = taken'[b]
                               => answered'[b] >= txs'[i].amount)
  <2> SUFFICES ASSUME answered[b] > 0
               PROVE  /\ clientPc[b] = "idle"
                      /\ \E i \in Txs' : IsLast(b, i)' /\ txs'[i].status \in Mined
                           /\ (txs'[i].status = "ok" /\ txs'[i].taken = taken'[b]
                                 => answered[b] >= txs'[i].amount)
    OBVIOUS
  <2>1. PICK i \in Txs : IsLast(b, i) /\ txs[i].status \in Mined
                         /\ (txs[i].status = "ok" /\ txs[i].taken = taken[b]
                               => answered[b] >= txs[i].amount)
    BY <1>1 DEF CallOK
  <2>2. txs'[i].taken = taken'[b] => txs[i].taken = taken[b]
    BY <1>1, <1>2, <2>1
  <2> QED
    BY <1>1, <1>2, <2>1, <2>2 DEF CallOK
<1>7. Paid(b)' => /\ clientPc'[b] = "min" => arg'[b] > Minimum
                  /\ clientPc'[b] \in {"request", "send"} => arg'[b] \in Requests
  BY <1>1, <1>3 DEF CallOK
<1> HIDE DEF Paid, IsLast
<1> QED
  BY <1>4, <1>5, <1>6, <1>7 DEF CallOK, Asked

\* A client that moves while the chain stays.
LEMMA QuietStep ==
  ASSUME RegistryInv, RegistryTypes', NEW a \in Accounts, UNCHANGED chainVars,
         \A b \in Accounts : b # a =>
           clientPc'[b] = clientPc[b] /\ arg'[b] = arg[b] /\ answered'[b] = answered[b],
         clientPc[a] \in {"wait", "read"} => clientPc'[a] \in {"wait", "read"},
         CallOK(a)'
  PROVE  RegistryInv'
<1>1. txs' = txs /\ deposit' = deposit /\ taken' = taken /\ Txs' = Txs
  BY DEF chainVars, Txs
<1>2. ASSUME NEW b \in Accounts
      PROVE  CallOK(b)'
  <2>1. CASE b # a
    <3>1. KeptFor(b)
      BY <1>1, Numbers DEF KeptFor, RegistryInv, RegistryTypes
    <3> QED
      BY <2>1, <3>1, CallKept
  <2> QED
    BY <2>1
<1>3. ASSUME NEW i \in Txs
      PROVE  TxOK(i)'
  <2>1. TxOK(i) /\ txs[i].from \in Accounts
    BY TxType DEF RegistryInv
  <2>2. IsLast(txs[i].from, i)' <=> IsLast(txs[i].from, i)
    BY <1>1 DEF IsLast
  <2>3. clientPc[txs[i].from] \in {"wait", "read"} => clientPc'[txs[i].from] \in {"wait", "read"}
    BY <2>1
  <2> QED
    BY <1>1, <2>1, <2>2, <2>3 DEF TxOK, Asked
<1>4. PaidTwiceOnlyAfterError'
  BY <1>1 DEF RegistryInv, PaidTwiceOnlyAfterError
<1> QED
  BY <1>1, <1>2, <1>3, <1>4 DEF RegistryInv

-----------------------------------------------------------------------------
(***************************************************************************)
(* The steps of a client.                                                  *)
(***************************************************************************)
\* Only client a moves.
MovesOnly(a) ==
  \A b \in Accounts : b # a =>
    clientPc'[b] = clientPc[b] /\ arg'[b] = arg[b] /\ answered'[b] = answered[b]

\* How a client moves: on to l, or back to its program.
LEMMA GotoFacts ==
  ASSUME RegistryTypes, NEW a \in Accounts, NEW l, NEW x \in Nat, NEW y \in Nat,
         l \in {"idle", "check", "min", "request", "send", "wait", "read"},
         Goto(a, l),
         arg' \in {arg, [arg EXCEPT ![a] = x]},
         answered' \in {answered, [answered EXCEPT ![a] = y]}
  PROVE  /\ MovesOnly(a)
         /\ clientPc'[a] = l
         /\ arg' = [arg EXCEPT ![a] = x] => arg'[a] = x
         /\ answered' = [answered EXCEPT ![a] = y] => answered'[a] = y
         /\ clientPc' \in [Accounts -> {"idle", "check", "min", "request", "send", "wait", "read"}]
         /\ arg' \in [Accounts -> Nat]
         /\ answered' \in [Accounts -> Nat]
  BY DEF RegistryTypes, Goto, MovesOnly

LEMMA ReturnFacts ==
  ASSUME RegistryTypes, NEW a \in Accounts, NEW y \in Nat, Return(a, y)
  PROVE  /\ MovesOnly(a)
         /\ clientPc'[a] = "idle" /\ answered'[a] = y
         /\ clientPc' \in [Accounts -> {"idle", "check", "min", "request", "send", "wait", "read"}]
         /\ arg' \in [Accounts -> Nat]
         /\ answered' \in [Accounts -> Nat]
<1>1. Goto(a, "idle") /\ arg' = [arg EXCEPT ![a] = 0] /\ answered' = [answered EXCEPT ![a] = y]
  BY DEF Return
<1> QED
  BY <1>1, GotoFacts

LEMMA FaultFacts ==
  ASSUME RegistryTypes, Fault
  PROVE  faults' \in 0..MaxFaults
  BY Numbers DEF RegistryTypes, Fault

\* A call that has ended without an answer rests on nothing.
LEMMA NoCall ==
  ASSUME NEW a \in Accounts, clientPc'[a] \in {"idle", "check"}, answered'[a] = 0
  PROVE  CallOK(a)'
  BY DEF CallOK

\* Only an ended call has an answer.
LEMMA NoAnswer ==
  ASSUME RegistryInv, NEW a \in Accounts, clientPc[a] # "idle"
  PROVE  answered[a] = 0
<1>1. answered[a] \in Nat
  BY DEF RegistryInv, RegistryTypes
<1> QED
  BY <1>1 DEF RegistryInv, CallOK

\* Who has paid has the deposit.
LEMMA PaidHasDeposit ==
  ASSUME RegistryInv, NEW a \in Accounts, Paid(a)
  PROVE  deposit[a] >= Asked(a) /\ deposit[a] > 0
<1>1. PICK i \in Txs : /\ txs[i].from = a /\ txs[i].amount \notin Requests
                       /\ txs[i].status = "ok" /\ txs[i].told = "ok"
                       /\ txs[i].taken = taken[a]
  BY DEF Paid
<1>2. deposit[a] >= txs[i].amount /\ txs[i].amount = Asked(a)
  BY <1>1 DEF RegistryInv, TxOK
<1>3. txs[i].amount \in Nat /\ txs[i].amount > 0 /\ deposit[a] \in Nat
  BY TxType DEF RegistryInv, RegistryTypes
<1> QED
  BY <1>2, <1>3

\* The call of a client between its check and its transaction.
LEMMA AskingCall ==
  ASSUME NEW a \in Accounts, UNCHANGED <<txs, taken>>, answered'[a] = 0,
         clientPc'[a] \in {"min", "request", "send"},
         clientPc'[a] = "min" => a \in Bidders,
         clientPc'[a] \in {"request", "send"} => arg'[a] \in Requests \cup {Asked(a)},
         clientPc'[a] = "send" => arg'[a] \in 1..(2^Width - 1),
         Paid(a) => /\ clientPc'[a] = "min" => arg'[a] > Minimum
                    /\ clientPc'[a] \in {"request", "send"} => arg'[a] \in Requests
  PROVE  CallOK(a)'
<1>1. Paid(a)' <=> Paid(a)
  BY DEF Paid, Txs
<1>2. ~(clientPc'[a] \in {"wait", "read"}) /\ ~(answered'[a] > 0)
  OBVIOUS
<1> HIDE DEF Paid
<1> QED
  BY <1>1, <1>2 DEF CallOK, Asked

LEMMA StartStep ==
  ASSUME RegistryInv, NEW a \in Accounts, Start(a)
  PROVE  RegistryInv'
<1>1. /\ clientPc[a] = "idle" /\ Goto(a, "check")
      /\ answered' = [answered EXCEPT ![a] = 0] /\ arg' = arg
      /\ UNCHANGED chainVars /\ faults' = faults
  BY DEF Start
<1>2. /\ MovesOnly(a) /\ clientPc'[a] = "check" /\ answered'[a] = 0 /\ RegistryTypes'
  BY <1>1, GotoFacts DEF RegistryInv, RegistryTypes, chainVars
<1> QED
  BY <1>1, <1>2, NoCall, QuietStep DEF MovesOnly

LEMMA PostStep ==
  ASSUME RegistryInv, NEW a \in Accounts, Post(a)
  PROVE  RegistryInv'
<1>1. PICK n \in Requests : arg' = [arg EXCEPT ![a] = n]
  BY DEF Post
<1>2. /\ clientPc[a] = "idle" /\ Goto(a, "request")
      /\ answered' = [answered EXCEPT ![a] = 0]
      /\ UNCHANGED chainVars /\ faults' = faults
  BY DEF Post
<1>3. n \in Nat
  BY Numbers
<1>4. /\ MovesOnly(a) /\ clientPc'[a] = "request" /\ answered'[a] = 0 /\ arg'[a] = n
      /\ RegistryTypes'
  BY <1>1, <1>2, <1>3, GotoFacts DEF RegistryInv, RegistryTypes, chainVars
<1>5. CallOK(a)'
  BY <1>2, <1>4, AskingCall DEF chainVars
<1> QED
  BY <1>2, <1>4, <1>5, QuietStep DEF MovesOnly

\* A call that ends without an answer and without a transaction.
LEMMA GivesUpStep ==
  ASSUME RegistryInv, NEW a \in Accounts, Return(a, 0), UNCHANGED chainVars,
         clientPc[a] \notin {"wait", "read"}, faults' \in 0..MaxFaults
  PROVE  RegistryInv'
<1>1. MovesOnly(a) /\ clientPc'[a] = "idle" /\ answered'[a] = 0 /\ RegistryTypes'
  BY ReturnFacts DEF RegistryInv, RegistryTypes, chainVars
<1> QED
  BY <1>1, NoCall, QuietStep DEF MovesOnly

LEMMA CheckAndStakeStep ==
  ASSUME RegistryInv, NEW a \in Accounts, CheckAndStake(a)
  PROVE  RegistryInv'
<1>1. /\ clientPc[a] = "check" /\ a \in Providers
      /\ UNCHANGED chainVars /\ faults' = faults /\ faults' \in 0..MaxFaults
  BY DEF CheckAndStake, RegistryInv, RegistryTypes
<1>2. CASE Return(a, 0)
  BY <1>1, <1>2, GivesUpStep
<1>3. CASE /\ deposit[a] = 0 /\ Goto(a, "request")
           /\ arg' = [arg EXCEPT ![a] = Stake] /\ UNCHANGED answered
  <2>1. /\ MovesOnly(a) /\ clientPc'[a] = "request" /\ arg'[a] = Stake
        /\ RegistryTypes'
    BY <1>1, <1>3, GotoFacts, Numbers DEF RegistryInv, RegistryTypes, chainVars
  <2>2. answered'[a] = 0
    BY <1>1, <1>3, NoAnswer
  <2>3. ~Paid(a)
    BY <1>3, PaidHasDeposit
  <2>4. Stake = Asked(a)
    BY <1>1 DEF Asked
  <2>5. CallOK(a)'
    BY <1>1, <2>1, <2>2, <2>3, <2>4, AskingCall DEF chainVars
  <2> QED
    BY <1>1, <2>1, <2>5, QuietStep DEF MovesOnly
<1> QED
  BY <1>2, <1>3 DEF CheckAndStake, GetStake

LEMMA GetAllowanceStep ==
  ASSUME RegistryInv, NEW a \in Accounts, GetAllowance(a)
  PROVE  RegistryInv'
<1>1. /\ clientPc[a] = "check" /\ a \in Bidders /\ a \notin Providers
      /\ Goto(a, "min") /\ arg' = [arg EXCEPT ![a] = deposit[a]]
      /\ UNCHANGED <<answered, chainVars, faults>>
  BY RegistryAssumption DEF GetAllowance
<1>2. deposit[a] \in Nat
  BY DEF RegistryInv, RegistryTypes
<1>3. /\ MovesOnly(a) /\ clientPc'[a] = "min" /\ arg'[a] = deposit[a]
      /\ RegistryTypes'
  BY <1>1, <1>2, GotoFacts DEF RegistryInv, RegistryTypes, chainVars
<1>4. answered'[a] = 0
  BY <1>1, NoAnswer
<1>5. Paid(a) => deposit[a] > Minimum
  BY <1>1, <1>2, PaidHasDeposit, TopUpIsEnough, Numbers DEF Asked
<1>6. CallOK(a)'
  BY <1>1, <1>3, <1>4, <1>5, AskingCall DEF chainVars
<1> QED
  BY <1>1, <1>3, <1>6, QuietStep DEF MovesOnly

LEMMA GetMinAllowanceStep ==
  ASSUME RegistryInv, NEW a \in Accounts, GetMinAllowance(a)
  PROVE  RegistryInv'
<1>1. /\ clientPc[a] = "min" /\ UNCHANGED chainVars /\ faults' = faults
      /\ faults' \in 0..MaxFaults /\ CallOK(a) /\ arg[a] \in Nat
  BY DEF GetMinAllowance, RegistryInv, RegistryTypes
<1>2. CASE Return(a, 0)
  BY <1>1, <1>2, GivesUpStep
<1>3. CASE /\ arg[a] <= Minimum /\ Goto(a, "request")
           /\ arg' = [arg EXCEPT ![a] = TopUp * Minimum] /\ UNCHANGED answered
  <2>1. /\ MovesOnly(a) /\ clientPc'[a] = "request" /\ arg'[a] = TopUp * Minimum
        /\ RegistryTypes'
    BY <1>1, <1>3, GotoFacts, TopUpIsEnough DEF RegistryInv, RegistryTypes, chainVars
  <2>2. answered'[a] = 0
    BY <1>1, <1>3, NoAnswer
  <2>3. ~Paid(a)
    BY <1>1, <1>3, Numbers DEF CallOK
  <2>4. TopUp * Minimum = Asked(a)
    BY <1>1, RegistryAssumption DEF Asked, CallOK
  <2>5. CallOK(a)'
    BY <1>1, <2>1, <2>2, <2>3, <2>4, AskingCall DEF chainVars
  <2> QED
    BY <1>1, <2>1, <2>5, QuietStep DEF MovesOnly
<1> QED
  BY <1>2, <1>3 DEF GetMinAllowance

\* RegisterStake and PrepayAllowance do the same to the call.
LEMMA RequestStep ==
  ASSUME RegistryInv, NEW a \in Accounts, RegisterStake(a) \/ PrepayAllowance(a)
  PROVE  RegistryInv'
<1>1. /\ clientPc[a] = "request" /\ UNCHANGED chainVars /\ faults' = faults
      /\ faults' \in 0..MaxFaults /\ CallOK(a) /\ arg[a] \in Nat
  BY DEF RegisterStake, PrepayAllowance, RegistryInv, RegistryTypes
<1>2. CASE Return(a, 0)
  BY <1>1, <1>2, GivesUpStep
<1>3. CASE ValidAmount(arg[a]) /\ Goto(a, "send") /\ UNCHANGED <<arg, answered>>
  <2>1. MovesOnly(a) /\ clientPc'[a] = "send" /\ RegistryTypes'
    BY <1>1, <1>3, GotoFacts DEF RegistryInv, RegistryTypes, chainVars
  <2>2. answered'[a] = 0
    BY <1>1, <1>3, NoAnswer
  <2>3. arg'[a] = arg[a] /\ arg[a] \in 1..(2^Width - 1)
    BY <1>1, <1>3, Numbers DEF ValidAmount
  <2>4. /\ arg[a] \in Requests \cup {Asked(a)}
        /\ Paid(a) => arg[a] \in Requests
    BY <1>1 DEF CallOK
  <2>5. CallOK(a)'
    BY <1>1, <2>1, <2>2, <2>3, <2>4, AskingCall DEF chainVars
  <2> QED
    BY <1>1, <2>1, <2>5, QuietStep DEF MovesOnly
<1> QED
  BY <1>2, <1>3 DEF RegisterStake, PrepayAllowance

LEMMA CheckFailsStep ==
  ASSUME RegistryInv, NEW a \in Accounts, CheckFails(a)
  PROVE  RegistryInv'
<1>1. faults' \in 0..MaxFaults
  BY FaultFacts DEF CheckFails, RegistryInv
<1> QED
  BY <1>1, GivesUpStep DEF CheckFails

LEMMA WaitForReceiptStep ==
  ASSUME RegistryInv, NEW a \in Accounts, WaitForReceipt(a)
  PROVE  RegistryInv'
<1>1. /\ clientPc[a] = "wait" /\ txs[TxOf(a)].status \in Mined /\ Goto(a, "read")
      /\ UNCHANGED <<arg, answered, chainVars, faults>>
  BY DEF WaitForReceipt, Mined
<1>2. MovesOnly(a) /\ clientPc'[a] = "read" /\ RegistryTypes'
  BY <1>1, GotoFacts DEF RegistryInv, RegistryTypes, chainVars
<1>3. answered'[a] = 0
  BY <1>1, NoAnswer
<1>4. PICK i \in Txs : IsLast(a, i) /\ txs[i].told = "none"
  BY <1>1 DEF RegistryInv, CallOK
<1>5. txs[i].status \in Mined
  BY <1>1, <1>4, TxOfLast DEF RegistryInv, RegistryTypes
<1>6. txs' = txs /\ Txs' = Txs /\ IsLast(a, i)'
  BY <1>1, <1>4 DEF chainVars, Txs, IsLast
<1>7. CallOK(a)'
  BY <1>2, <1>3, <1>4, <1>5, <1>6 DEF CallOK
<1> QED
  BY <1>1, <1>2, <1>7, QuietStep DEF MovesOnly

-----------------------------------------------------------------------------
(***************************************************************************)
(* The steps that change transactions.                                     *)
(***************************************************************************)
\* A transaction of a is submitted.  The ones before it were answered for, so
\* when one of the program's is there and was not called failed, the program has
\* paid and does not ask for this one.
LEMMA SubmitStep ==
  ASSUME RegistryInv, NEW a \in Accounts, NEW told \in {"none", "err"},
         clientPc[a] = "send", Len(txs) < MaxTx, Submitted(a, told), UNCHANGED <<deposit, taken>>,
         MovesOnly(a), answered'[a] = 0,
         clientPc'[a] = IF told = "none" THEN "wait" ELSE "idle",
         clientPc' \in [Accounts -> {"idle", "check", "min", "request", "send", "wait", "read"}],
         arg' \in [Accounts -> Nat], answered' \in [Accounts -> Nat],
         faults' \in 0..MaxFaults
  PROVE  RegistryInv'
<1> DEFINE t == [from |-> a, amount |-> arg[a], status |-> "pending",
                 told |-> told, taken |-> taken[a]]
<1>1. /\ CallOK(a) /\ txs \in Seq(TxRecords) /\ Len(txs) \in Nat
      /\ deposit' = deposit /\ taken' = taken
      /\ taken[a] \in 0..MaxTaken /\ taken[a] \in Nat
      /\ \A i \in Txs : TxOK(i)
  BY Numbers DEF RegistryInv, RegistryTypes
<1>0. PICK n \in Nat : n = Len(txs) + 1
  BY <1>1
<1>2. /\ arg[a] \in 1..(2^Width - 1)
      /\ arg[a] \in Requests \cup {Asked(a)}
      /\ Paid(a) => arg[a] \in Requests
  BY <1>1 DEF CallOK
<1>3. t \in TxRecords
  BY <1>1, <1>2 DEF TxRecords
<1>4. txs' = Append(txs, t)
  BY DEF Submitted
<1>5. /\ t.from = a /\ t.amount = arg[a] /\ t.status = "pending" /\ t.told = told
      /\ t.taken = taken[a]
  OBVIOUS
<1> HIDE DEF t
<1>6. /\ txs' \in Seq(TxRecords) /\ Len(txs') = n /\ txs'[n] = t
      /\ \A i \in Txs : txs'[i] = txs[i]
  BY <1>0, <1>1, <1>3, <1>4 DEF Txs
<1>7. /\ Txs' = Txs \cup {n} /\ n \notin Txs /\ n \in Nat
      /\ \A i \in Txs : i \in Nat /\ i < n
  BY <1>0, <1>1, <1>6 DEF Txs
<1>8. RegistryTypes'
  <2>1. Len(txs') <= MaxTx
    BY <1>0, <1>1, <1>6, Numbers
  <2>2. deposit' \in [Accounts -> Nat] /\ taken' \in [Accounts -> 0..MaxTaken]
    BY <1>1 DEF RegistryInv, RegistryTypes
  <2> QED
    BY <1>6, <2>1, <2>2 DEF RegistryTypes
<1>9. IsLast(a, n)'
  BY <1>5, <1>6, <1>7 DEF IsLast
<1>10. ASSUME NEW b \in Accounts
       PROVE  CallOK(b)'
  <2>1. CASE b # a
    <3>0. taken'[b] \in Nat /\ taken'[b] >= taken[b]
      BY <1>1, Numbers DEF RegistryInv, RegistryTypes
    <3>1. KeptFor(b)
      BY <1>5, <1>6, <1>7, <2>1, <3>0 DEF KeptFor
    <3> QED
      BY <2>1, <3>1, CallKept DEF MovesOnly
  <2>2. CASE b = a /\ told = "err"
    BY <2>2, NoCall
  <2>3. CASE b = a /\ told = "none"
    <3>1. clientPc'[a] = "wait" /\ n \in Txs' /\ txs'[n].told = "none"
      BY <1>5, <1>6, <1>7, <2>3
    <3> QED
      BY <1>9, <2>3, <3>1 DEF CallOK
  <2> QED
    BY <2>1, <2>2, <2>3
<1>11. ASSUME NEW i \in Txs'
       PROVE  TxOK(i)'
  <2>1. CASE i = n
    <3>1. txs'[n].told = "none" => clientPc'[a] \in {"wait", "read"}
      BY <1>5, <1>6
    <3> QED
      BY <1>1, <1>2, <1>5, <1>6, <1>9, <2>1, <3>1 DEF TxOK, Asked
  <2>2. CASE i \in Txs
    <3>1. TxOK(i) /\ txs[i].from \in Accounts
      BY <1>1, <2>2, TxType DEF RegistryInv
    <3>2. txs[i].told = "none" => /\ txs[i].from # a
                                  /\ clientPc'[txs[i].from] \in {"wait", "read"}
      BY <3>1 DEF TxOK, MovesOnly
    <3>3. txs[i].told = "none" => IsLast(txs[i].from, i)'
      <4> SUFFICES ASSUME txs[i].told = "none"
                   PROVE  IsLast(txs[i].from, i)'
        OBVIOUS
      <4>1. txs[i].from # a /\ IsLast(txs[i].from, i)
        BY <3>1, <3>2 DEF TxOK
      <4>2. \A j \in Txs' : txs'[j].from = txs[i].from => j <= i
        BY <1>5, <1>6, <1>7, <4>1 DEF IsLast
      <4> QED
        BY <1>6, <2>2, <4>2 DEF IsLast
    <3>4. txs'[i] = txs[i]
      BY <1>6, <2>2
    <3> QED
      BY <1>1, <3>1, <3>2, <3>3, <3>4 DEF TxOK, Asked
  <2> QED
    BY <1>7, <2>1, <2>2
<1>12. PaidTwiceOnlyAfterError'
  <2> SUFFICES ASSUME NEW i \in Txs', NEW j \in Txs', i < j, txs'[i].from = txs'[j].from,
                      \A k \in {i, j} : /\ txs'[k].amount \notin Requests
                                        /\ txs'[k].status \in {"pending", "ok"}
               PROVE  "err" \in {txs'[i].told, txs'[j].told} \/ txs'[i].taken < txs'[j].taken
    BY DEF PaidTwiceOnlyAfterError
  <2>1. i \in Txs /\ txs'[i] = txs[i]
    BY <1>6, <1>7
  <2>2. CASE j \in Txs
    BY <1>6, <2>1, <2>2 DEF RegistryInv, PaidTwiceOnlyAfterError
  <2>3. CASE j = n
    <3>1. txs[i].from = a /\ arg[a] \notin Requests
      BY <1>5, <1>6, <2>1, <2>3
    <3>2. ~Paid(a)
      BY <1>2, <3>1
    <3>3. txs[i].told # "none"
      BY <1>1, <2>1, <3>1 DEF TxOK
    <3>4. txs[i].told = "ok" => txs[i].taken # taken[a]
      BY <1>1, <2>1, <3>1, <3>2 DEF TxOK, Mined, Paid
    <3>5. txs[i].told \in {"none", "ok", "err"} /\ txs[i].taken \in Nat
      BY <2>1, TxType DEF RegistryInv
    <3>6. txs[i].taken <= taken[a]
      BY <1>1, <2>1, <3>1 DEF TxOK
    <3>7. txs[i].told = "ok" => txs[i].taken < taken[a]
      BY <1>1, <3>4, <3>5, <3>6
    <3> QED
      BY <1>5, <1>6, <2>1, <2>3, <3>3, <3>5, <3>7
  <2> QED
    BY <1>7, <2>2, <2>3
<1> QED
  BY <1>8, <1>10, <1>11, <1>12 DEF RegistryInv

LEMMA SendStep ==
  ASSUME RegistryInv, NEW a \in Accounts, Send(a)
  PROVE  RegistryInv'
<1>1. /\ clientPc[a] = "send" /\ Len(txs) < MaxTx /\ Goto(a, "wait") /\ Submitted(a, "none")
      /\ UNCHANGED <<arg, answered, deposit, taken, faults>>
  BY DEF Send
<1>2. /\ MovesOnly(a) /\ clientPc'[a] = "wait"
      /\ clientPc' \in [Accounts -> {"idle", "check", "min", "request", "send", "wait", "read"}]
      /\ arg' \in [Accounts -> Nat] /\ answered' \in [Accounts -> Nat]
  BY <1>1, GotoFacts DEF RegistryInv
<1>3. answered'[a] = 0 /\ faults' \in 0..MaxFaults
  BY <1>1, NoAnswer DEF RegistryInv, RegistryTypes
<1> QED
  BY <1>1, <1>2, <1>3, SubmitStep

LEMMA SendFailsStep ==
  ASSUME RegistryInv, NEW a \in Accounts, SendFails(a)
  PROVE  RegistryInv'
<1>1. /\ clientPc[a] = "send" /\ Return(a, 0) /\ UNCHANGED <<deposit, taken>>
      /\ UNCHANGED txs \/ (Len(txs) < MaxTx /\ Submitted(a, "err"))
  BY DEF SendFails
<1>2. faults' \in 0..MaxFaults
  BY FaultFacts DEF SendFails, RegistryInv
<1>3. /\ MovesOnly(a) /\ clientPc'[a] = "idle" /\ answered'[a] = 0
      /\ clientPc' \in [Accounts -> {"idle", "check", "min", "request", "send", "wait", "read"}]
      /\ arg' \in [Accounts -> Nat] /\ answered' \in [Accounts -> Nat]
  BY <1>1, ReturnFacts DEF RegistryInv
<1>4. CASE UNCHANGED txs
  BY <1>1, <1>2, <1>4, GivesUpStep DEF chainVars
<1>5. CASE Len(txs) < MaxTx /\ Submitted(a, "err")
  BY <1>1, <1>2, <1>3, <1>5, SubmitStep
<1> QED
  BY <1>1, <1>4, <1>5

\* The program of a is told how its call went: about its last transaction, which it
\* has not been told about, and with an amount only once that one has been mined.
LEMMA ToldStep ==
  ASSUME RegistryInv, NEW a \in Accounts, NEW how \in {"ok", "err"}, NEW y \in Nat,
         clientPc[a] \in {"wait", "read"}, Told(a, how), Return(a, y), UNCHANGED <<deposit, taken>>,
         how = "ok" => clientPc[a] = "read",
         y > 0 => clientPc[a] = "read" /\ y = deposit[a],
         faults' \in 0..MaxFaults
  PROVE  RegistryInv'
<1>1. /\ CallOK(a) /\ txs \in Seq(TxRecords) /\ deposit' = deposit /\ taken' = taken
      /\ \A i \in Txs : TxOK(i)
  BY DEF RegistryInv, RegistryTypes
<1>2. PICK i \in Txs : IsLast(a, i) /\ txs[i].told = "none"
                       /\ (clientPc[a] = "read" => txs[i].status \in Mined)
  BY <1>1 DEF CallOK
<1>3. /\ MovesOnly(a) /\ clientPc'[a] = "idle" /\ answered'[a] = y
      /\ clientPc' \in [Accounts -> {"idle", "check", "min", "request", "send", "wait", "read"}]
      /\ arg' \in [Accounts -> Nat] /\ answered' \in [Accounts -> Nat]
  BY ReturnFacts DEF RegistryInv
<1>4. txs' = [txs EXCEPT ![i] = [txs[i] EXCEPT !.told = how]]
  BY <1>1, <1>2, TxOfLast DEF Told
<1> DEFINE t == [txs[i] EXCEPT !.told = how]
<1>5. /\ t \in TxRecords /\ t.told = how /\ t.from = a
      /\ t.amount = txs[i].amount /\ t.status = txs[i].status /\ t.taken = txs[i].taken
  BY <1>2, TxType DEF TxRecords, RegistryInv, IsLast
<1> HIDE DEF t
<1>6. /\ txs' \in Seq(TxRecords) /\ Len(txs') = Len(txs) /\ txs'[i] = t
      /\ \A j \in Txs : j # i => txs'[j] = txs[j]
  BY <1>1, <1>2, <1>4, <1>5, TxChange DEF t
<1>7. Txs' = Txs
  BY <1>6 DEF Txs
<1>8. txs[i].from = a /\ \A j \in Txs : /\ txs'[j].from = txs[j].from
                                        /\ txs'[j].amount = txs[j].amount
                                        /\ txs'[j].status = txs[j].status
                                        /\ txs'[j].taken = txs[j].taken
  BY <1>2, <1>5, <1>6 DEF IsLast
<1>9. \A b \in Accounts, j \in Txs : IsLast(b, j)' <=> IsLast(b, j)
  BY <1>7, <1>8 DEF IsLast
<1>10. RegistryTypes'
  BY <1>1, <1>3, <1>6 DEF RegistryTypes, RegistryInv
<1>11. ASSUME NEW b \in Accounts
       PROVE  CallOK(b)'
  <2>1. CASE b # a
    <3>0. taken'[b] \in Nat /\ taken'[b] >= taken[b]
      BY <1>1, Numbers DEF RegistryInv, RegistryTypes
    <3>1. KeptFor(b)
      BY <1>6, <1>7, <1>8, <2>1, <3>0 DEF KeptFor
    <3> QED
      BY <1>3, <2>1, <3>1, CallKept DEF MovesOnly
  <2>2. CASE b = a /\ y = 0
    BY <1>3, <2>2, NoCall
  <2>3. CASE b = a /\ y > 0
    <3>1. txs[i].status \in Mined
          /\ (txs[i].status = "ok" /\ txs[i].taken = taken[a] => y >= txs[i].amount)
      BY <1>1, <1>2, <1>8, <2>3 DEF TxOK
    <3>2. /\ i \in Txs' /\ IsLast(a, i)' /\ txs'[i].status \in Mined
          /\ txs'[i].status = "ok" /\ txs'[i].taken = taken'[a]
               => answered'[a] >= txs'[i].amount
      BY <1>1, <1>2, <1>3, <1>7, <1>8, <1>9, <3>1
    <3> QED
      BY <1>3, <2>3, <3>2 DEF CallOK
  <2> QED
    BY <2>1, <2>2, <2>3
<1>12. ASSUME NEW j \in Txs
       PROVE  TxOK(j)'
  <2>1. TxOK(j) /\ txs[j].from \in Accounts
    BY <1>1, TxType DEF RegistryInv
  <2>2. txs'[j].told = "none" =>
          clientPc'[txs[j].from] \in {"wait", "read"} /\ IsLast(txs[j].from, j)'
    <3> SUFFICES ASSUME txs'[j].told = "none"
                 PROVE  clientPc'[txs[j].from] \in {"wait", "read"} /\ IsLast(txs[j].from, j)'
      OBVIOUS
    <3>1. j # i /\ txs[j].told = "none"
      BY <1>5, <1>6
    <3>2. clientPc[txs[j].from] \in {"wait", "read"} /\ IsLast(txs[j].from, j)
      BY <2>1, <3>1 DEF TxOK
    <3>3. txs[j].from # a
      BY <1>2, <3>1, <3>2 DEF IsLast, Txs
    <3> QED
      BY <1>3, <1>8, <1>9, <2>1, <3>2, <3>3 DEF MovesOnly
  <2>3. txs'[j].told = "ok" => txs'[j].status \in Mined
    BY <1>2, <1>5, <1>6, <2>1 DEF TxOK
  <2> QED
    BY <1>1, <1>8, <2>1, <2>2, <2>3 DEF TxOK, Asked
<1>13. PaidTwiceOnlyAfterError'
  <2> SUFFICES ASSUME NEW k \in Txs, NEW l \in Txs, k < l, txs[k].from = txs[l].from,
                      \A m \in {k, l} : /\ txs[m].amount \notin Requests
                                        /\ txs[m].status \in {"pending", "ok"}
               PROVE  "err" \in {txs'[k].told, txs'[l].told} \/ txs'[k].taken < txs'[l].taken
    BY <1>7, <1>8 DEF PaidTwiceOnlyAfterError
  <2>1. "err" \in {txs[k].told, txs[l].told} \/ txs[k].taken < txs[l].taken
    BY DEF RegistryInv, PaidTwiceOnlyAfterError
  <2> QED
    BY <1>2, <1>6, <1>8, <2>1
<1> QED
  BY <1>7, <1>10, <1>11, <1>12, <1>13 DEF RegistryInv

LEMMA AnswerStep ==
  ASSUME RegistryInv, NEW a \in Accounts,
         WaitIsCancelled(a) \/ WaitForReceiptFails(a) \/ GetDeposit(a) \/ GetDepositFails(a)
  PROVE  RegistryInv'
<1>1. deposit[a] \in Nat /\ faults \in 0..MaxFaults
  BY DEF RegistryInv, RegistryTypes
<1>2. CASE WaitIsCancelled(a)
  BY <1>1, <1>2, ToldStep DEF WaitIsCancelled
<1>3. CASE WaitForReceiptFails(a)
  <2>1. faults' \in 0..MaxFaults
    BY <1>3, FaultFacts DEF WaitForReceiptFails, RegistryInv
  <2> QED
    BY <1>3, <2>1, ToldStep DEF WaitForReceiptFails
<1>4. CASE GetDeposit(a)
  BY <1>1, <1>4, ToldStep DEF GetDeposit
<1>5. CASE GetDepositFails(a)
  <2>1. faults' \in 0..MaxFaults
    BY <1>5, FaultFacts DEF GetDepositFails, RegistryInv
  <2> QED
    BY <1>5, <2>1, ToldStep DEF GetDepositFails
<1> QED
  BY <1>2, <1>3, <1>4, <1>5

\* The chain gets to a transaction, in one way or another.
LEMMA MinedStep ==
  ASSUME RegistryInv, NEW i \in Txs, txs[i].status = "pending",
         NEW s \in {"ok", "reverted", "replaced"}, NEW n,
         n = IF s = "ok" THEN taken[txs[i].from] ELSE txs[i].taken,
         txs' = [txs EXCEPT ![i] = [txs[i] EXCEPT !.status = s, !.taken = n]],
         UNCHANGED <<clientVars, taken>>,
         deposit' \in [Accounts -> Nat],
         \A b \in Accounts : deposit'[b] >= deposit[b],
         s = "ok" => deposit'[txs[i].from] >= txs[i].amount,
         faults' \in 0..MaxFaults
  PROVE  RegistryInv'
<1>1. /\ RegistryTypes /\ txs \in Seq(TxRecords) /\ deposit \in [Accounts -> Nat]
      /\ \A j \in Txs : TxOK(j)
      /\ clientPc' = clientPc /\ arg' = arg /\ answered' = answered /\ taken' = taken
      /\ taken \in [Accounts -> 0..MaxTaken] /\ \A b \in Accounts : taken[b] \in Nat
  BY Numbers DEF RegistryInv, RegistryTypes, clientVars
<1>0. /\ txs[i].from \in Accounts /\ n \in 0..MaxTaken /\ n \in Nat
      /\ n >= txs[i].taken /\ n <= taken[txs[i].from]
  <2>1. /\ txs[i].from \in Accounts /\ txs[i].taken \in 0..MaxTaken /\ txs[i].taken \in Nat
        /\ txs[i].taken <= taken[txs[i].from]
    BY <1>1, TxType DEF TxOK
  <2>2. taken[txs[i].from] \in 0..MaxTaken /\ taken[txs[i].from] \in Nat
    BY <1>1, <2>1
  <2>3. n = txs[i].taken \/ n = taken[txs[i].from]
    OBVIOUS
  <2> QED
    BY <2>1, <2>2, <2>3
<1> DEFINE t == [txs[i] EXCEPT !.status = s, !.taken = n]
<1>2. /\ t \in TxRecords /\ t.status = s /\ t.from = txs[i].from
      /\ t.amount = txs[i].amount /\ t.told = txs[i].told /\ t.taken = n
  BY <1>0, <1>1, TxType DEF TxRecords
<1>3. txs' = [txs EXCEPT ![i] = t]
  BY <1>1
<1> HIDE DEF t
<1>4. /\ txs' \in Seq(TxRecords) /\ Len(txs') = Len(txs) /\ txs'[i] = t
      /\ \A j \in Txs : j # i => txs'[j] = txs[j]
  BY <1>1, <1>2, <1>3, TxChange
<1>5. Txs' = Txs
  BY <1>4 DEF Txs
<1>6. \A j \in Txs : /\ txs'[j].from = txs[j].from
                     /\ txs'[j].amount = txs[j].amount
                     /\ txs'[j].told = txs[j].told
                     /\ \/ txs'[j].status = txs[j].status /\ txs'[j].taken = txs[j].taken
                        \/ txs[j].status = "pending"
                     /\ txs'[j].taken >= txs[j].taken /\ txs'[j].taken \in Nat
                     /\ txs'[j].taken <= taken[txs[j].from]
  <2> SUFFICES ASSUME NEW j \in Txs
               PROVE  /\ txs'[j].from = txs[j].from
                      /\ txs'[j].amount = txs[j].amount
                      /\ txs'[j].told = txs[j].told
                      /\ \/ txs'[j].status = txs[j].status /\ txs'[j].taken = txs[j].taken
                         \/ txs[j].status = "pending"
                      /\ txs'[j].taken >= txs[j].taken /\ txs'[j].taken \in Nat
                      /\ txs'[j].taken <= taken[txs[j].from]
    OBVIOUS
  <2>1. TxOK(j) /\ txs[j].taken \in Nat
    BY <1>1, TxType
  <2>2. CASE j = i
    BY <1>0, <1>2, <1>4, <2>2
  <2>3. CASE j # i
    BY <1>4, <2>1, <2>3 DEF TxOK
  <2> QED
    BY <2>2, <2>3
<1>7. \A b \in Accounts, j \in Txs : IsLast(b, j)' <=> IsLast(b, j)
  BY <1>5, <1>6 DEF IsLast
<1>8. RegistryTypes'
  BY <1>1, <1>4 DEF RegistryTypes
<1>9. ASSUME NEW b \in Accounts
      PROVE  CallOK(b)'
  <2>1. KeptFor(b)
    BY <1>1, <1>4, <1>5, <1>6 DEF KeptFor
  <2> QED
    BY <1>1, <2>1, CallKept
<1>10. ASSUME NEW j \in Txs
       PROVE  TxOK(j)'
  <2>1. TxOK(j) /\ txs[j].from \in Accounts
    BY <1>1, TxType
  <2>2. txs'[j].told = "ok" => txs'[j].status \in Mined
    BY <1>6, <2>1 DEF TxOK, Mined
  <2>3. txs'[j].status = "ok" /\ txs'[j].taken = taken'[txs[j].from]
          => deposit'[txs[j].from] >= txs[j].amount
    <3>1. CASE j = i
      BY <1>2, <1>4, <3>1
    <3>2. CASE j # i
      <4>1. deposit'[txs[j].from] \in Nat /\ deposit[txs[j].from] \in Nat /\ txs[j].amount \in Nat
        BY <1>1, <2>1, TxType
      <4> QED
        BY <1>1, <1>4, <2>1, <3>2, <4>1 DEF TxOK
    <3> QED
      BY <3>1, <3>2
  <2>4. IsLast(txs[j].from, j)' <=> IsLast(txs[j].from, j)
    BY <1>7, <2>1
  <2> HIDE DEF IsLast
  <2> QED
    BY <1>1, <1>6, <2>1, <2>2, <2>3, <2>4 DEF TxOK, Asked
<1>11. PaidTwiceOnlyAfterError'
  <2> SUFFICES ASSUME NEW k \in Txs, NEW l \in Txs, k < l, txs'[k].from = txs'[l].from,
                      \A m \in {k, l} : /\ txs'[m].amount \notin Requests
                                        /\ txs'[m].status \in {"pending", "ok"}
               PROVE  "err" \in {txs'[k].told, txs'[l].told} \/ txs'[k].taken < txs'[l].taken
    BY <1>5 DEF PaidTwiceOnlyAfterError
  <2>1. \A m \in {k, l} : /\ txs[m].amount \notin Requests
                          /\ txs[m].status \in {"pending", "ok"}
    BY <1>6
  <2>2. "err" \in {txs[k].told, txs[l].told} \/ txs[k].taken < txs[l].taken
    BY <1>6, <2>1 DEF RegistryInv, PaidTwiceOnlyAfterError
  <2>3. CASE k = i
    <3>1. TxOK(i) /\ txs[i].told \in {"none", "ok", "err"} /\ txs[l].from = txs[i].from
      BY <1>1, <1>6, <2>3, TxType
    <3>2. txs[i].told # "ok"
      BY <3>1 DEF TxOK, Mined
    <3>3. txs[i].told # "none"
      BY <2>3, <3>1 DEF TxOK, IsLast, Txs
    <3> QED
      BY <1>6, <2>3, <3>1, <3>2, <3>3
  <2>4. CASE k # i
    <3>1. txs'[k].taken = txs[k].taken /\ txs[k].taken \in Nat /\ txs[l].taken \in Nat
      BY <1>1, <1>4, <2>4, TxType
    <3> QED
      BY <1>6, <2>2, <3>1
  <2> QED
    BY <2>3, <2>4
<1> QED
  BY <1>5, <1>8, <1>9, <1>10, <1>11 DEF RegistryInv

\* What Mine does to the deposits.
LEMMA MineDeposits ==
  ASSUME RegistryTypes, NEW i \in Txs, Mine(i)
  PROVE  /\ deposit' \in [Accounts -> Nat]
         /\ \A b \in Accounts : deposit'[b] >= deposit[b]
         /\ deposit'[txs[i].from] >= txs[i].amount
<1>1. /\ deposit' = [deposit EXCEPT ![txs[i].from] = @ + txs[i].amount]
      /\ txs[i].from \in Accounts /\ txs[i].amount \in Nat /\ deposit \in [Accounts -> Nat]
  BY TxType DEF Mine, RegistryTypes
<1> QED
  BY <1>1

\* What TakeDeposit does to the deposits.
LEMMA TakenFrom ==
  ASSUME RegistryTypes, NEW a \in Accounts, TakeDeposit(a)
  PROVE  /\ deposit' \in [Accounts -> Nat] /\ taken' \in [Accounts -> 0..MaxTaken]
         /\ \A b \in Accounts : b # a => deposit'[b] = deposit[b] /\ taken'[b] = taken[b]
         /\ taken'[a] > taken[a]
         /\ \A b \in Accounts : taken[b] \in Nat /\ taken'[b] \in Nat /\ taken'[b] >= taken[b]
<1>1. PICK left \in Leftovers : deposit' = [deposit EXCEPT ![a] = left]
  BY DEF TakeDeposit
<1>2. /\ taken[a] < MaxTaken /\ taken' = [taken EXCEPT ![a] = taken[a] + 1] /\ left \in Nat
      /\ deposit \in [Accounts -> Nat] /\ taken \in [Accounts -> 0..MaxTaken]
  BY Numbers DEF TakeDeposit, RegistryTypes
<1>3. \A b \in Accounts : taken[b] \in Nat
  BY <1>2, Numbers
<1>4. taken[a] + 1 \in 0..MaxTaken
  BY <1>2, <1>3, Numbers
<1> QED
  BY <1>1, <1>2, <1>3, <1>4

\* Nobody has paid any more, and no answer holds, for an account that was taken from.
LEMMA TakeStep ==
  ASSUME RegistryInv, NEW a \in Accounts, TakeDeposit(a)
  PROVE  RegistryInv'
<1>1. /\ RegistryTypes /\ txs' = txs /\ Txs' = Txs /\ faults' = faults
      /\ clientPc' = clientPc /\ arg' = arg /\ answered' = answered
  BY DEF TakeDeposit, RegistryInv, clientVars, Txs
<1>2. /\ deposit' \in [Accounts -> Nat] /\ taken' \in [Accounts -> 0..MaxTaken]
      /\ \A b \in Accounts : b # a => deposit'[b] = deposit[b] /\ taken'[b] = taken[b]
      /\ taken'[a] > taken[a]
      /\ \A b \in Accounts : taken[b] \in Nat /\ taken'[b] \in Nat /\ taken'[b] >= taken[b]
  BY <1>1, TakenFrom
<1>3. RegistryTypes'
  BY <1>1, <1>2 DEF RegistryTypes
<1>4. ASSUME NEW b \in Accounts
      PROVE  CallOK(b)'
  <2>1. KeptFor(b)
    BY <1>1, <1>2 DEF KeptFor, RegistryTypes
  <2> QED
    BY <1>1, <2>1, CallKept
<1>5. ASSUME NEW i \in Txs
      PROVE  TxOK(i)'
  <2>1. TxOK(i) /\ txs[i].from \in Accounts /\ txs[i].taken \in Nat
    BY <1>1, TxType DEF RegistryInv
  <2>2. IsLast(txs[i].from, i)' <=> IsLast(txs[i].from, i)
    BY <1>1 DEF IsLast
  <2>3. txs[i].taken <= taken[txs[i].from]
    BY <2>1 DEF TxOK
  <2>4. txs[i].taken <= taken'[txs[i].from]
    BY <1>2, <2>1, <2>3
  <2>5. txs[i].status = "ok" /\ txs[i].taken = taken'[txs[i].from]
          => deposit'[txs[i].from] >= txs[i].amount
    <3>1. CASE txs[i].from = a
      BY <1>2, <2>1, <2>3, <3>1
    <3>2. CASE txs[i].from # a
      BY <1>2, <2>1, <3>2 DEF TxOK
    <3> QED
      BY <3>1, <3>2
  <2> QED
    BY <1>1, <2>1, <2>2, <2>4, <2>5 DEF TxOK, Asked
<1>6. PaidTwiceOnlyAfterError'
  BY <1>1 DEF RegistryInv, PaidTwiceOnlyAfterError
<1> QED
  BY <1>1, <1>3, <1>4, <1>5, <1>6 DEF RegistryInv

LEMMA RegistryInvStep ==
  ASSUME RegistryInv, RegistryNext
  PROVE  RegistryInv'
<1>1. ASSUME NEW a \in Accounts,
             \/ Start(a) \/ PostRegisterStake(a) \/ PostPrepayAllowance(a)
             \/ Client(a) \/ ClientFails(a)
      PROVE  RegistryInv'
  BY <1>1, StartStep, PostStep, CheckAndStakeStep, GetAllowanceStep, GetMinAllowanceStep,
     RequestStep, CheckFailsStep, WaitForReceiptStep, SendStep, SendFailsStep, AnswerStep
     DEF PostRegisterStake, PostPrepayAllowance, Client, ClientFails
<1>2. ASSUME NEW i \in Txs, Mine(i)
      PROVE  RegistryInv'
  <2>1. /\ txs[i].status = "pending" /\ UNCHANGED <<clientVars, taken>>
        /\ txs' = [txs EXCEPT ![i].status = "ok", ![i].taken = taken[txs[i].from]]
        /\ txs \in Seq(TxRecords) /\ faults' \in 0..MaxFaults
    BY <1>2 DEF Mine, RegistryInv, RegistryTypes
  <2>2. PICK n : n = taken[txs[i].from]
    OBVIOUS
  <2>3. txs' = [txs EXCEPT ![i] = [txs[i] EXCEPT !.status = "ok", !.taken = n]]
    BY <2>1, <2>2
  <2> QED
    BY <1>2, <2>1, <2>2, <2>3, MineDeposits, MinedStep DEF RegistryInv
<1>3. ASSUME NEW i \in Txs, MineFails(i)
      PROVE  RegistryInv'
  <2>1. PICK s \in {"reverted", "replaced"} : txs' = [txs EXCEPT ![i].status = s]
    BY <1>3 DEF MineFails
  <2>2. /\ txs[i].status = "pending" /\ UNCHANGED <<clientVars, deposit, taken>>
        /\ faults' \in 0..MaxFaults
    BY <1>3, FaultFacts DEF MineFails, RegistryInv
  <2>3. deposit' \in [Accounts -> Nat] /\ \A b \in Accounts : deposit'[b] >= deposit[b]
    BY <2>2 DEF RegistryInv, RegistryTypes
  <2>4. PICK n : n = txs[i].taken
    OBVIOUS
  <2>5. txs[i] \in TxRecords /\ txs \in Seq(TxRecords)
    BY TxType DEF RegistryInv, RegistryTypes
  <2>6. [txs[i] EXCEPT !.status = s] = [txs[i] EXCEPT !.status = s, !.taken = n]
    BY <2>4, <2>5 DEF TxRecords
  <2>7. txs' = [txs EXCEPT ![i] = [txs[i] EXCEPT !.status = s]]
    BY <2>1, <2>5
  <2>8. txs' = [txs EXCEPT ![i] = [txs[i] EXCEPT !.status = s, !.taken = n]]
    BY <2>6, <2>7
  <2>9. s \in {"ok", "reverted", "replaced"} /\ s # "ok"
    OBVIOUS
  <2>10. n = IF s = "ok" THEN taken[txs[i].from] ELSE txs[i].taken
    BY <2>4, <2>9
  <2> HIDE DEF TxRecords
  <2> QED
    BY <2>2, <2>3, <2>8, <2>9, <2>10, MinedStep
<1>4. ASSUME NEW a \in Accounts, TakeDeposit(a)
      PROVE  RegistryInv'
  BY <1>4, TakeStep
<1> QED
  BY <1>1, <1>2, <1>3, <1>4 DEF RegistryNext

\* A deposit falls only when it is counted as taken from.
DepositsKept ==
  \A b \in Accounts : /\ taken[b] \in Nat /\ taken'[b] \in Nat /\ taken'[b] >= taken[b]
                      /\ taken'[b] = taken[b] => deposit'[b] >= deposit[b]

LEMMA DepositsAreKept ==
  ASSUME RegistryInv, RegistryNext
  PROVE  DepositsKept
<1>1. /\ RegistryTypes /\ deposit \in [Accounts -> Nat]
      /\ \A b \in Accounts : taken[b] \in Nat /\ deposit[b] \in Nat
  BY Numbers DEF RegistryInv, RegistryTypes
<1>2. ASSUME NEW a \in Accounts,
             \/ Start(a) \/ PostRegisterStake(a) \/ PostPrepayAllowance(a)
             \/ Client(a) \/ ClientFails(a)
      PROVE  deposit' = deposit /\ taken' = taken
  <2> USE DEF chainVars
  <2>1. CASE Start(a) \/ PostRegisterStake(a) \/ PostPrepayAllowance(a)
    BY <2>1 DEF Start, PostRegisterStake, PostPrepayAllowance, Post
  <2>2. CASE Client(a)
    BY <2>2 DEF Client, CheckAndStake, GetAllowance, GetMinAllowance, RegisterStake,
       PrepayAllowance, Send, WaitForReceipt, WaitIsCancelled, GetDeposit
  <2>3. CASE ClientFails(a)
    BY <2>3 DEF ClientFails, CheckFails, SendFails, WaitForReceiptFails, GetDepositFails
  <2> QED
    BY <1>2, <2>1, <2>2, <2>3
<1>3. ASSUME NEW i \in Txs, Mine(i)
      PROVE  DepositsKept
  <2>1. taken' = taken /\ \A b \in Accounts : deposit'[b] >= deposit[b]
    BY <1>1, <1>3, MineDeposits DEF Mine
  <2> QED
    BY <1>1, <2>1 DEF DepositsKept
<1>4. ASSUME NEW i \in Txs, MineFails(i)
      PROVE  deposit' = deposit /\ taken' = taken
  BY <1>4 DEF MineFails
<1>5. deposit' = deposit /\ taken' = taken => DepositsKept
  BY <1>1 DEF DepositsKept
<1>6. ASSUME NEW a \in Accounts, TakeDeposit(a)
      PROVE  DepositsKept
  <2>1. /\ \A b \in Accounts : b # a => deposit'[b] = deposit[b] /\ taken'[b] = taken[b]
        /\ taken'[a] > taken[a]
        /\ \A b \in Accounts : taken[b] \in Nat /\ taken'[b] \in Nat /\ taken'[b] >= taken[b]
    BY <1>1, <1>6, TakenFrom
  <2> QED
    BY <1>1, <2>1 DEF DepositsKept
<1> QED
  BY <1>2, <1>3, <1>4, <1>5, <1>6 DEF RegistryNext

-----------------------------------------------------------------------------
(***************************************************************************)
(* Signatures and words.                                                   *)
(***************************************************************************)
\* A positive number that fits into 64 bits is the same as a 64-bit integer and
\* as a word of the EVM.
LEMMA Words ==
  ASSUME NEW n \in Int, 0 < n, n < 2^Width
  PROVE  Uint64(n) = n /\ U256Bytes(n) = n
<1>1. 2^Width \in Int /\ 2^(4 * Width) \in Int
  BY WidthAssumption
<1>2. n < 2^(4 * Width)
  BY <1>1, WidthAssumption
<1>3. ASSUME NEW w \in Int, n < w
      PROVE  n % w = n
  BY <1>3
<1> QED
  BY <1>1, <1>2, <1>3 DEF Uint64, U256Bytes

LEMMA WordIsInt ==
  ASSUME NEW n \in Int
  PROVE  U256Bytes(n) \in Int
<1>1. 2^(4 * Width) \in Int /\ 2^Width \in Int /\ 2^(Width - 1) \in Int
  BY WidthAssumption
<1>2. 2^(4 * Width) > 0
  BY <1>1, WidthAssumption
<1>3. ASSUME NEW w \in Int, w > 0
      PROVE  n % w \in Int
  BY <1>3
<1> QED
  BY <1>1, <1>2, <1>3 DEF U256Bytes

\* A positive int64 fits.
LEMMA Int64Fits ==
  ASSUME NEW n \in Int64, n > 0
  PROVE  n \in Int /\ n < 2^Width
<1>1. 2^Width \in Int /\ 2^(Width - 1) \in Int
  BY WidthAssumption
<1> QED
  BY <1>1, WidthAssumption DEF Int64

\* What a node signs, with V moved to 27 or 28.
LEMMA SolidityForm ==
  ASSUME NEW k, NEW hash, NEW parity \in {0, 1}
  PROVE  ForSolidity(SignHash(k, hash, parity)) =
           [key |-> k, over |-> hash, parity |-> parity, v |-> parity + 27]
<1> DEFINE s == [key |-> k, over |-> hash, parity |-> parity, v |-> parity]
<1>1. s.v \in {0, 1}
  OBVIOUS
<1>2. [s EXCEPT !.v = s.v + 27] =
        [key |-> k, over |-> hash, parity |-> parity, v |-> parity + 27]
  OBVIOUS
<1> QED
  BY <1>1, <1>2 DEF ForSolidity, SignHash

\* eipVerify recovers the signer from both forms of v; the contract does so from
\* the one for Solidity, and from the other nobody.
LEMMA RecoverSame ==
  ASSUME NEW hash, NEW hashes, NEW s \in Signatures(hashes), Fitting(s)
  PROVE  /\ eipVerify(hash, hash, s) = IF s.over = hash THEN s.key ELSE Stranger
         /\ ecrecover(hash, s) = IF s.v \in {27, 28} THEN eipVerify(hash, hash, s) ELSE Nil
<1>1. s.parity \in {0, 1} /\ s.v \in {0, 1, 27, 28} /\ s.v \in {s.parity, s.parity + 27}
  BY DEF Signatures, Fitting
<1> DEFINE r == [s EXCEPT !.v = IF s.v \in {27, 28} THEN s.v - 27 ELSE s.v]
           q == [s EXCEPT !.v = s.v - 27]
<1>2. r.v = s.parity /\ r.parity = s.parity /\ r.over = s.over /\ r.key = s.key
  BY <1>1 DEF Signatures
<1>3. eipVerify(hash, hash, s) = SigToPub(hash, r)
  BY DEF eipVerify
<1>4. ecrecover(hash, s) = SigToPub(hash, q)
  BY DEF ecrecover
<1>5. s.v \in {27, 28} => q = r
  OBVIOUS
<1>6. s.v \notin {27, 28} => q.v \notin {0, 1}
  <2>1. q.v = s.v - 27
    BY DEF Signatures
  <2> QED
    BY <1>1, <2>1
<1> HIDE DEF r, q
<1>7. SigToPub(hash, r) = IF s.over = hash THEN s.key ELSE Stranger
  BY <1>1, <1>2 DEF SigToPub
<1>8. s.v \notin {27, 28} => SigToPub(hash, q) = Nil
  BY <1>6 DEF SigToPub
<1> QED
  BY <1>3, <1>4, <1>5, <1>7, <1>8

\* What is hashed is a hash.
LEMMA EncodeType ==
  ASSUME NEW d \in {"PreConfBid", "PreConfCommitment"}, NEW b, b.txHash = "tx", b.amount \in Int, b.block \in Int,
         b.decayStart \in Int, b.decayEnd \in Int
  PROVE  Encode(d, b) \in BidHashes
  BY WordIsInt DEF Encode, BidHashes

\* A bid that passes VerifyBid.
LEMMA VerifiedBid ==
  ASSUME NEW b, Sent(b), VerifyBid(b) # Nil
  PROVE  /\ b.amount # NotANumber /\ b.amount \in Int
         /\ b.block \in Int /\ b.decayStart \in Int /\ b.decayEnd \in Int
         /\ b.digest = Encode("PreConfBid", b)
         /\ b.signature \in Signatures(BidHashes) /\ Fitting(b.signature)
         /\ VerifyBid(b) =
              eipVerify(Encode("PreConfBid", b), Encode("PreConfBid", b), b.signature)
         /\ VerifyBid(b) \in Bidders \cup {Stranger}
<1>1. Nil \notin {b.digest, b.signature, GetBidHash(b)}
  BY DEF VerifyBid
<1>2. b.amount # NotANumber /\ GetBidHash(b) = Encode("PreConfBid", b)
  BY <1>1 DEF GetBidHash
<1>3. VerifyBid(b) = eipVerify(Encode("PreConfBid", b), b.digest, b.signature)
  BY <1>1, <1>2 DEF VerifyBid
<1>4. b.digest = Encode("PreConfBid", b)
  BY <1>3 DEF eipVerify
<1>5. b.signature \in BidSignatures /\ b.signature.v # Nil
  <2>0. b.signature \in BidSignatures
    BY <1>1 DEF Sent
  <2> DEFINE r == [b.signature EXCEPT !.v = IF b.signature.v \in {27, 28}
                                            THEN b.signature.v - 27 ELSE b.signature.v]
  <2>1. VerifyBid(b) = SigToPub(Encode("PreConfBid", b), r)
    BY <1>3, <1>4 DEF eipVerify
  <2> SUFFICES ASSUME b.signature.v = Nil PROVE FALSE
    BY <2>0
  <2>2. r = [b.signature EXCEPT !.v = Nil]
    BY SettlementAssumption
  <2>3. r.v \notin {0, 1}
    BY <2>0, <2>2, SettlementAssumption DEF BidSignatures
  <2> HIDE DEF r
  <2> QED
    BY <2>1, <2>3 DEF SigToPub
<1>6. /\ b.signature \in Signatures(BidHashes) /\ Fitting(b.signature)
      /\ b.signature.key \in Bidders
  BY <1>1, <1>5 DEF Sent, BidSignatures, Signatures, Accounts
<1>7. VerifyBid(b) = eipVerify(Encode("PreConfBid", b), Encode("PreConfBid", b), b.signature)
  BY <1>3, <1>4
<1>8. VerifyBid(b) \in Bidders \cup {Stranger}
  BY <1>6, <1>7, RecoverSame
<1>9. b.amount \in Int
  BY <1>2 DEF Sent
<1>10. b.block \in Int /\ b.decayStart \in Int /\ b.decayEnd \in Int
  <2>1. 2^(Width - 1) \in Int
    BY WidthAssumption
  <2>2. \A n \in Int64 : n \in Int
    BY <2>1 DEF Int64
  <2>3. b.block \in Int64 /\ b.decayStart \in Int64 /\ b.decayEnd \in Int64
    BY DEF Sent
  <2> QED
    BY <2>2, <2>3
<1> QED
  BY <1>2, <1>4, <1>6, <1>7, <1>8, <1>9, <1>10

\* The preconfirmation of such a bid verifies, and its signature is the provider's.
LEMMA Preconfirmed ==
  ASSUME NEW b, Sent(b), VerifyBid(b) # Nil, NEW parity \in {0, 1},
         NEW c, c = ConstructPreConfirmation(Self, b, parity)
  PROVE  /\ c.bid = b
         /\ VerifyPreConfirmation(c) = Self
         /\ ecrecover(<<Encode("PreConfCommitment", b), Encode("PreConfBid", b), b.signature>>,
                      c.signature) = Self
         /\ c.signature \in Signatures(PreConfirmationHashes)
<1> DEFINE hash == <<Encode("PreConfCommitment", b), Encode("PreConfBid", b), b.signature>>
<1>1. /\ b.amount # NotANumber /\ b.amount \in Int
      /\ b.block \in Int /\ b.decayStart \in Int /\ b.decayEnd \in Int
      /\ b.digest = Encode("PreConfBid", b)
      /\ b.signature \in Signatures(BidHashes)
  BY VerifiedBid
<1>2. GetPreConfirmationHash(b) = hash
  BY <1>1 DEF GetPreConfirmationHash
<1>3. hash \in PreConfirmationHashes
  <2>1. b.txHash = "tx"
    BY DEF Sent
  <2>2. Encode("PreConfCommitment", b) \in BidHashes /\ Encode("PreConfBid", b) \in BidHashes
    BY <1>1, <2>1, EncodeType
  <2> QED
    BY <1>1, <2>2 DEF PreConfirmationHashes
<1> HIDE DEF hash
<1> DEFINE s == [key |-> Self, over |-> hash, parity |-> parity, v |-> parity + 27]
<1>4. c = [bid |-> b, digest |-> hash, signature |-> s]
  BY <1>2, SolidityForm DEF ConstructPreConfirmation, PreConfirmation
<1>5. s \in Signatures(PreConfirmationHashes) /\ Fitting(s) /\ s.v \in {27, 28}
      /\ s.over = hash /\ s.key = Self
  BY <1>3, SettlementAssumption DEF Signatures, Accounts, Fitting
<1>6. hash # Nil /\ s # Nil
  BY <1>3, <1>5, SettlementAssumption
<1> HIDE DEF s
<1>7. c.bid = b /\ c.digest = hash /\ c.signature = s
  BY <1>4
<1>8. ecrecover(hash, s) = Self /\ eipVerify(hash, hash, s) = Self
  BY <1>5, RecoverSame
<1>9. VerifyPreConfirmation(c) = Self
  BY <1>2, <1>6, <1>7, <1>8 DEF VerifyPreConfirmation
<1> QED
  BY <1>5, <1>7, <1>8, <1>9 DEF hash

\* The contract hashes the numbers that were signed.
LEMMA StoredNumbers ==
  ASSUME NEW b, Sent(b), VerifyBid(b) # Nil, ValidBid(ProviderBid(b)),
         NEW c, c.bid = b, NEW d
  PROVE  /\ Encode(d, StoreCommitment(c)) = Encode(d, b)
         /\ StoreCommitment(c).amount \in 0..(2^Width - 1)
<1>1. /\ b.amount \in Int /\ 0 < b.amount /\ b.amount < 2^Width
      /\ b.block > 0 /\ b.decayStart > 0 /\ b.decayEnd > 0
  BY VerifiedBid DEF ValidBid, ProviderBid, ValidAmount
<1>2. b.block \in Int64 /\ b.decayStart \in Int64 /\ b.decayEnd \in Int64
  BY DEF Sent
<1>3. \A n \in {b.amount, b.block, b.decayStart, b.decayEnd} : Uint64(n) = n
  BY <1>1, <1>2, Words, Int64Fits
<1>4. /\ StoreCommitment(c).txHash = b.txHash
      /\ StoreCommitment(c).amount = b.amount
      /\ StoreCommitment(c).block = b.block
      /\ StoreCommitment(c).decayStart = b.decayStart
      /\ StoreCommitment(c).decayEnd = b.decayEnd
  BY <1>3 DEF StoreCommitment
<1>5. 2^Width \in Int
  BY Numbers
<1> QED
  BY <1>1, <1>4, <1>5 DEF Encode

-----------------------------------------------------------------------------
(***************************************************************************)
(* The steps of handleBid.                                                 *)
(***************************************************************************)
\* Whatever a bidder's node sends, or another implementation makes of it.
LEMMA ReadIsSent ==
  ASSUME NEW k \in Bidders, NEW x \in (SendBid(k) \cup OtherBids(k)) \ {Nil}
  PROVE  Sent(x)
<1>1. ASSUME NEW f \in Fields, NEW parity \in Parities, NEW c,
             c = ConstructSignedBid(k, f, parity), c # Nil
      PROVE  \E dg, sg :
               /\ c = [txHash |-> "tx", amount |-> f.amount, block |-> f.block,
                       decayStart |-> 1, decayEnd |-> f.decayEnd,
                       digest |-> dg, signature |-> sg]
               /\ f.amount \in Int /\ f.block \in Int64 /\ f.decayEnd \in Int64
               /\ sg \in BidSignatures /\ Fitting(sg)
  <2>1. /\ f.txHash = "tx" /\ f.amount \in Int /\ f.block \in Int64 /\ f.decayStart = 1
        /\ f.decayEnd \in Int64 /\ parity \in {0, 1}
    BY SettlementAssumption DEF BidderBid
  <2>2. GetBidHash(f) # Nil /\ c = Bid(f, GetBidHash(f), ForSolidity(SignHash(k, GetBidHash(f), parity)))
    BY <1>1 DEF ConstructSignedBid
  <2>3. GetBidHash(f) = Encode("PreConfBid", f)
    BY <2>2 DEF GetBidHash
  <2>4. f.block \in Int /\ f.decayEnd \in Int
    <3>1. 2^(Width - 1) \in Int
      BY WidthAssumption
    <3>2. \A n \in Int64 : n \in Int
      BY <3>1 DEF Int64
    <3> QED
      BY <2>1, <3>2
  <2>5. Encode("PreConfBid", f) \in BidHashes
    BY <2>1, <2>4, EncodeType
  <2> DEFINE s == [key |-> k, over |-> GetBidHash(f), parity |-> parity, v |-> parity + 27]
  <2>6. s \in BidSignatures /\ Fitting(s)
    BY <2>1, <2>3, <2>5 DEF BidSignatures, Fitting
  <2>7. c = [txHash |-> "tx", amount |-> f.amount, block |-> f.block, decayStart |-> 1,
             decayEnd |-> f.decayEnd, digest |-> GetBidHash(f), signature |-> s]
    BY <2>1, <2>2, SolidityForm DEF Bid
  <2> HIDE DEF s
  <2> QED
    BY <2>1, <2>6, <2>7
<1>2. 1 \in Int64 /\ 2 \in Int64
  BY SettlementAssumption
<1>3. CASE x \in SendBid(k)
  <2>1. PICK f \in Fields, parity \in Parities : x = ConstructSignedBid(k, f, parity)
    BY <1>3 DEF SendBid
  <2>2. PICK dg, sg :
          /\ x = [txHash |-> "tx", amount |-> f.amount, block |-> f.block,
                  decayStart |-> 1, decayEnd |-> f.decayEnd, digest |-> dg, signature |-> sg]
          /\ f.amount \in Int /\ f.block \in Int64 /\ f.decayEnd \in Int64
          /\ sg \in BidSignatures /\ Fitting(sg)
    BY <1>1, <2>1
  <2> QED
    BY <1>2, <2>2 DEF Sent
<1>4. CASE x \in OtherBids(k)
  <2>1. PICK c \in {ConstructSignedBid(k, f, parity) : f \in Fields, parity \in Parities} \ {Nil} :
          \/ x = c
          \/ x = [c EXCEPT !.signature.v = c.signature.parity]
          \/ x = [c EXCEPT !.signature.v = Nil]
          \/ x = [c EXCEPT !.digest = Nil]
          \/ x = [c EXCEPT !.signature = Nil]
          \/ x = [c EXCEPT !.amount = NotANumber]
          \/ x = Later(c)
          \/ x = [Later(c) EXCEPT !.digest = GetBidHash(Later(c))]
    BY <1>4 DEF OtherBids
  <2>2. PICK f \in Fields, parity \in Parities : c = ConstructSignedBid(k, f, parity)
    OBVIOUS
  <2>3. PICK dg, sg :
          /\ c = [txHash |-> "tx", amount |-> f.amount, block |-> f.block,
                  decayStart |-> 1, decayEnd |-> f.decayEnd, digest |-> dg, signature |-> sg]
          /\ f.amount \in Int /\ f.block \in Int64 /\ f.decayEnd \in Int64
          /\ sg \in BidSignatures /\ Fitting(sg)
    BY <1>1, <2>2
  <2>4. Later(c) = [txHash |-> "tx", amount |-> f.amount, block |-> f.block,
                    decayStart |-> 2, decayEnd |-> f.decayEnd, digest |-> dg, signature |-> sg]
    BY <2>3 DEF Later
  <2> DEFINE raw == [sg EXCEPT !.v = sg.parity]
             cut == [sg EXCEPT !.v = Nil]
  <2>5. /\ raw \in BidSignatures /\ Fitting(raw)
        /\ cut \in BidSignatures /\ cut.v = Nil
    BY <2>3 DEF BidSignatures, Fitting
  <2> HIDE DEF raw, cut
  <2>6. /\ x.txHash = "tx" /\ x.amount \in Int \cup {NotANumber}
        /\ x.block = f.block /\ x.decayStart \in {1, 2} /\ x.decayEnd = f.decayEnd
        /\ x.signature \in {sg, raw, cut, Nil}
    <3>1. CASE x = c \/ x = [c EXCEPT !.digest = Nil]
      BY <2>3, <3>1
    <3>2. CASE x = [c EXCEPT !.signature = Nil] \/ x = [c EXCEPT !.amount = NotANumber]
      BY <2>3, <3>2
    <3>3. CASE x = Later(c) \/ x = [Later(c) EXCEPT !.digest = GetBidHash(Later(c))]
      BY <2>3, <2>4, <3>3
    <3>4. CASE x = [c EXCEPT !.signature.v = c.signature.parity]
      <4>1. c.signature = sg
        BY <2>3
      <4>2. x = [c EXCEPT !.signature = raw]
        BY <2>3, <3>4, <4>1 DEF raw
      <4> QED
        BY <2>3, <4>2
    <3>5. CASE x = [c EXCEPT !.signature.v = Nil]
      <4>1. c.signature = sg
        BY <2>3
      <4>2. x = [c EXCEPT !.signature = cut]
        BY <2>3, <3>5, <4>1 DEF cut
      <4> QED
        BY <2>3, <4>2
    <3> QED
      BY <2>1, <3>1, <3>2, <3>3, <3>4, <3>5
  <2> QED
    BY <1>2, <2>3, <2>5, <2>6 DEF Sent
<1> QED
  BY <1>3, <1>4

\* The deposits do not move, or only a fault is counted.
LEMMA RegistryKept ==
  ASSUME RegistryInv, UNCHANGED <<clientVars, chainVars>>, faults' \in 0..MaxFaults
  PROVE  RegistryInv'
<1>1. /\ clientPc' = clientPc /\ arg' = arg /\ answered' = answered
      /\ txs' = txs /\ deposit' = deposit /\ taken' = taken
  BY DEF clientVars, chainVars
<1>2. RegistryTypes'
  BY <1>1 DEF RegistryInv, RegistryTypes
<1>3. Self \in Accounts
  BY SettlementAssumption DEF Accounts
<1>4. KeptFor(Self)
  BY <1>1, <1>3, Numbers DEF KeptFor, RegistryInv, RegistryTypes, Txs
<1> QED
  BY <1>1, <1>2, <1>3, <1>4, CallKept, QuietStep DEF chainVars

\* An allowance that was enough stays so until something is taken from it.
LEMMA CoveredKept ==
  ASSUME RegistryTypes, RegistryTypes', DepositsKept, NEW x, NEW n, Covered(x, n)
  PROVE  /\ x \in Bidders
         /\ n \in Nat /\ n <= taken'[x]
         /\ taken'[x] = n => deposit'[x] >= Minimum
<1>1. x \in Accounts /\ deposit[x] \in Nat /\ deposit'[x] \in Nat
  BY DEF Covered, RegistryTypes, Accounts
<1>2. /\ taken[x] \in Nat /\ taken'[x] \in Nat /\ taken'[x] >= taken[x]
      /\ taken'[x] = taken[x] => deposit'[x] >= deposit[x]
  BY <1>1 DEF DepositsKept
<1> QED
  BY <1>1, <1>2, Numbers DEF Covered

\* What is stored stays as signed.
LEMMA StoredKept ==
  ASSUME StoredInv, RegistryTypes, RegistryTypes', DepositsKept,
         \A r \in stored' \ stored : CallData(r) /\ Covered(r.bidder, r.seen)
  PROVE  StoredInv'
<1>1. ASSUME NEW r \in stored'
      PROVE  /\ CallData(r)
             /\ r.bidder \in Bidders
             /\ r.seen \in Nat /\ r.seen <= taken'[r.bidder]
             /\ taken'[r.bidder] = r.seen => deposit'[r.bidder] >= Minimum
  <2>1. CallData(r) /\ Covered(r.bidder, r.seen)
    BY DEF StoredInv
  <2> QED
    BY <2>1, CoveredKept
<1> QED
  BY <1>1 DEF StoredInv, Covered

\* The commitment of a bid that was verified and validated.
LEMMA NewCommitment ==
  ASSUME BidInv, bidPc = "process", ValidBid(ProviderBid(bid)), NEW parity \in {0, 1},
         NEW c, c = ConstructPreConfirmation(Self, bid, parity),
         NEW r, r = StoreCommitment(c)
  PROVE  /\ VerifyPreConfirmation(c) = Self
         /\ CallData(r) /\ Covered(r.bidder, r.seen)
<1>1. /\ Sent(bid) /\ bidder = VerifyBid(bid) /\ VerifyBid(bid) # Nil
      /\ Covered(bidder, seen)
  BY DEF BidInv
<1>2. /\ c.bid = bid
      /\ VerifyPreConfirmation(c) = Self
      /\ ecrecover(<<Encode("PreConfCommitment", bid), Encode("PreConfBid", bid), bid.signature>>,
                   c.signature) = Self
      /\ c.signature \in Signatures(PreConfirmationHashes)
  BY <1>1, Preconfirmed
<1>3. /\ Encode("PreConfBid", r) = Encode("PreConfBid", bid)
      /\ Encode("PreConfCommitment", r) = Encode("PreConfCommitment", bid)
      /\ r.amount \in 0..(2^Width - 1)
  BY <1>1, <1>2, StoredNumbers
<1>4. /\ r.bidSignature = bid.signature /\ r.commitmentSignature = c.signature
      /\ r.bidder = bidder /\ r.seen = seen
  BY <1>2 DEF StoreCommitment
<1>5. PICK hash : hash = Encode("PreConfBid", bid)
  OBVIOUS
<1>6. /\ bidder = eipVerify(hash, hash, bid.signature)
      /\ bid.signature \in Signatures(BidHashes) /\ Fitting(bid.signature)
  BY <1>1, <1>5, VerifiedBid
<1>7. ecrecover(hash, bid.signature) =
        IF bid.signature.v \in {27, 28} THEN bidder ELSE Nil
  BY <1>6, RecoverSame
<1>8. ContractBidHash(r) = hash
  BY <1>3, <1>5 DEF ContractBidHash
<1>9. ecrecover(ContractCommitmentHash(r), r.commitmentSignature) = Self
  BY <1>2, <1>3, <1>4, <1>5, <1>8 DEF ContractCommitmentHash
<1>10. CallData(r)
  BY <1>2, <1>3, <1>4, <1>6, <1>7, <1>8, <1>9 DEF CallData
<1> QED
  BY <1>1, <1>2, <1>4, <1>10

LEMMA InitIInv == Init => IInv
<1> SUFFICES ASSUME Init PROVE IInv
  OBVIOUS
<1>1. /\ clientPc = [a \in Accounts |-> "idle"] /\ arg = [a \in Accounts |-> 0]
      /\ answered = [a \in Accounts |-> 0] /\ txs = <<>>
      /\ deposit = [a \in Accounts |-> 0] /\ taken = [a \in Accounts |-> 0] /\ faults = 0
      /\ bidPc = "idle" /\ stored = {}
  BY DEF Init, RegistryInit
<1>2. txs \in Seq(TxRecords) /\ Len(txs) = 0 /\ Txs = {}
  BY <1>1 DEF Txs
<1>3. RegistryTypes
  BY <1>1, <1>2, Numbers DEF RegistryTypes
<1>4. ASSUME NEW a \in Accounts
      PROVE  CallOK(a)
  BY <1>1, <1>2 DEF CallOK, Paid
<1>5. RegistryInv
  BY <1>2, <1>3, <1>4 DEF RegistryInv, PaidTwiceOnlyAfterError
<1>6. BidInv /\ StoredInv
  BY <1>1 DEF BidInv, StoredInv
<1> QED
  BY <1>5, <1>6 DEF IInv

\* The deposits move while handleBid does not.
LEMMA BidsKept ==
  ASSUME IInv, RegistryInv', DepositsKept, UNCHANGED bidVars
  PROVE  IInv'
<1>1. /\ RegistryTypes /\ RegistryTypes'
      /\ UNCHANGED <<bidPc, bid, bidder, seen, preconf, stored>>
  BY DEF IInv, RegistryInv, bidVars
<1>2. bidPc \in {"process", "reply"} => Covered(bidder, seen)'
  <2>1. bidPc \in {"process", "reply"} => Covered(bidder, seen)
    BY DEF IInv, BidInv
  <2>2. PICK x, n : x = bidder /\ n = seen
    OBVIOUS
  <2>3. bidPc \in {"process", "reply"} =>
          /\ x \in Bidders
          /\ n \in Nat /\ n <= taken'[x]
          /\ taken'[x] = n => deposit'[x] >= Minimum
    BY <1>1, <2>1, <2>2, CoveredKept
  <2> QED
    BY <1>1, <2>2, <2>3 DEF Covered
<1>3. BidInv'
  BY <1>1, <1>2 DEF IInv, BidInv
<1>4. StoredInv'
  BY <1>1, StoredKept DEF IInv
<1> QED
  BY <1>3, <1>4 DEF IInv

LEMMA DepositsStep ==
  ASSUME IInv, Deposits
  PROVE  IInv'
<1>1. RegistryInv /\ RegistryNext /\ UNCHANGED bidVars
  BY DEF Deposits, IInv
<1> QED
  BY <1>1, RegistryInvStep, DepositsAreKept, BidsKept

\* A step of handleBid leaves the deposits alone.
LEMMA BidStepKept ==
  ASSUME IInv, UNCHANGED <<clientVars, chainVars>>, faults' \in 0..MaxFaults
  PROVE  /\ RegistryInv' /\ RegistryTypes /\ RegistryTypes' /\ DepositsKept
         /\ deposit' = deposit /\ taken' = taken
         /\ stored' = stored => StoredInv'
<1>1. RegistryInv' /\ RegistryTypes /\ RegistryTypes'
  BY RegistryKept DEF IInv, RegistryInv
<1>2. deposit' = deposit /\ taken' = taken
  BY DEF chainVars
<1>3. DepositsKept
  BY <1>1, <1>2, Numbers DEF RegistryTypes, DepositsKept
<1>4. stored' = stored => StoredInv'
  BY <1>1, <1>3, StoredKept DEF IInv
<1> QED
  BY <1>1, <1>2, <1>3, <1>4

\* The process of the provider's node ends: for the deposits, its client's call fails.
LEMMA ReadBidPanicsStep ==
  ASSUME IInv, NEW b \in Bidders, ReadBidPanics(b)
  PROVE  IInv'
<1>1. RegistryInv /\ Self \in Accounts /\ UNCHANGED bidVars
  BY SettlementAssumption DEF IInv, ReadBidPanics, Accounts
<1>2. CASE ClientFails(Self)
  BY <1>1, <1>2, DepositsStep DEF Deposits, RegistryNext
<1>3. CASE clientPc[Self] = "request" /\ Fault /\ Return(Self, 0) /\ UNCHANGED chainVars
  <2>1. faults' \in 0..MaxFaults
    BY <1>1, <1>3, FaultFacts DEF RegistryInv
  <2>2. RegistryInv'
    BY <1>1, <1>3, <2>1, GivesUpStep
  <2>3. DepositsKept
    BY <1>1, <1>3, Numbers DEF DepositsKept, RegistryInv, RegistryTypes, chainVars
  <2> QED
    BY <1>1, <2>2, <2>3, BidsKept
<1>4. CASE Fault /\ UNCHANGED <<clientVars, chainVars>>
  <2>1. faults' \in 0..MaxFaults
    BY <1>1, <1>4, FaultFacts DEF RegistryInv
  <2> QED
    BY <1>1, <1>4, <2>1, BidStepKept, BidsKept
<1> QED
  BY <1>2, <1>3, <1>4 DEF ReadBidPanics

LEMMA ReadBidStep ==
  ASSUME IInv, NEW b \in Bidders, ReadBid(b)
  PROVE  IInv'
<1>1. /\ bid' \in (SendBid(b) \cup OtherBids(b)) \ {Nil}
      /\ bidder' = VerifyBid(bid') /\ bidder' # Nil /\ bidPc' = "allowance"
      /\ UNCHANGED <<clientVars, chainVars>> /\ stored' = stored /\ faults' \in 0..MaxFaults
  BY DEF ReadBid, registryVars, IInv, RegistryInv, RegistryTypes
<1>2. Sent(bid')
  BY <1>1, ReadIsSent
<1>3. BidInv'
  BY <1>1, <1>2 DEF BidInv, Sent
<1> QED
  BY <1>1, <1>3, BidStepKept DEF IInv

\* handleBid returns.
LEMMA EndBidStep ==
  ASSUME IInv, EndBid, UNCHANGED <<clientVars, chainVars>>, faults' \in 0..MaxFaults,
         stored' = stored
  PROVE  IInv'
<1>1. BidInv'
  BY DEF EndBid, BidInv
<1> QED
  BY <1>1, BidStepKept DEF IInv

LEMMA AllowedStep ==
  ASSUME IInv, bidPc = "allowance", GetBidderAllowance(bidder) >= Minimum,
         bidPc' = "process", seen' = taken[bidder],
         UNCHANGED <<bid, bidder, preconf, stored, registryVars>>
  PROVE  IInv'
<1>1. /\ UNCHANGED <<clientVars, chainVars>> /\ faults' \in 0..MaxFaults
  BY DEF registryVars, IInv, RegistryInv, RegistryTypes
<1>2. bidder \in Bidders /\ bidder \in Accounts
  BY Numbers DEF GetBidderAllowance, Accounts
<1>3. taken[bidder] \in Nat
  BY <1>2, Numbers DEF IInv, RegistryInv, RegistryTypes
<1>4. Covered(bidder, seen)'
  BY <1>1, <1>2, <1>3 DEF Covered, GetBidderAllowance, chainVars
<1>5. BidInv'
  BY <1>4 DEF IInv, BidInv
<1> QED
  BY <1>1, <1>5, BidStepKept DEF IInv

LEMMA AcceptStep ==
  ASSUME IInv, Accept
  PROVE  IInv'
<1>1. PICK parity \in {0, 1} : preconf' = ConstructPreConfirmation(Self, bid, parity)
  BY SettlementAssumption DEF Accept
<1>2. /\ bidPc = "process" /\ ValidBid(ProviderBid(bid)) /\ bidPc' = "reply"
      /\ stored' = stored \cup {StoreCommitment(preconf')}
      /\ UNCHANGED <<bid, bidder, seen, clientVars, chainVars>> /\ faults' \in 0..MaxFaults
  BY DEF Accept, registryVars, IInv, RegistryInv, RegistryTypes
<1>3. PICK r : r = StoreCommitment(preconf')
  OBVIOUS
<1>4. VerifyPreConfirmation(preconf') = Self /\ CallData(r) /\ Covered(r.bidder, r.seen)
  BY <1>1, <1>2, <1>3, NewCommitment DEF IInv
<1>5. /\ RegistryInv' /\ RegistryTypes /\ RegistryTypes' /\ DepositsKept
      /\ deposit' = deposit /\ taken' = taken
  BY <1>2, BidStepKept
<1>6. StoredInv'
  BY <1>2, <1>3, <1>4, <1>5, StoredKept DEF IInv
<1>7. Covered(bidder, seen)'
  BY <1>2, <1>5 DEF Covered, IInv, BidInv
<1>8. BidInv'
  BY <1>2, <1>4, <1>7 DEF IInv, BidInv
<1> QED
  BY <1>5, <1>6, <1>8 DEF IInv

LEMMA AcceptFailsStep ==
  ASSUME IInv, AcceptFails
  PROVE  IInv'
<1>1. /\ bidPc = "process" /\ ValidBid(ProviderBid(bid)) /\ EndBid
      /\ UNCHANGED <<clientVars, chainVars>>
  BY DEF AcceptFails
<1>2. faults' \in 0..MaxFaults
  BY FaultFacts DEF AcceptFails, IInv, RegistryInv
<1>3. PICK parity \in {0, 1} :
        stored' \in {stored, stored \cup {StoreCommitment(ConstructPreConfirmation(Self, bid, parity))}}
  BY SettlementAssumption DEF AcceptFails
<1>4. PICK r : r = StoreCommitment(ConstructPreConfirmation(Self, bid, parity))
  OBVIOUS
<1>5. CallData(r) /\ Covered(r.bidder, r.seen)
  BY <1>1, <1>4, NewCommitment DEF IInv
<1>6. RegistryInv' /\ RegistryTypes /\ RegistryTypes' /\ DepositsKept
  BY <1>1, <1>2, BidStepKept
<1>7. stored' \ stored \subseteq {r}
  BY <1>3, <1>4
<1>8. StoredInv'
  BY <1>5, <1>6, <1>7, StoredKept DEF IInv
<1>9. BidInv'
  BY <1>1 DEF EndBid, BidInv
<1> QED
  BY <1>6, <1>8, <1>9 DEF IInv

-----------------------------------------------------------------------------
(***************************************************************************)
(* The theorems.                                                           *)
(***************************************************************************)
LEMMA NextIInv == IInv /\ [Next]_vars => IInv'
<1> SUFFICES ASSUME IInv, [Next]_vars PROVE IInv'
  OBVIOUS
<1>1. faults \in 0..MaxFaults
  BY DEF IInv, RegistryInv, RegistryTypes
<1>2. CASE UNCHANGED vars
  BY <1>1, <1>2, BidStepKept, BidsKept DEF vars, registryVars
<1>3. CASE Deposits
  BY <1>3, DepositsStep
<1>4. ASSUME NEW b \in Bidders, ReadBid(b) \/ ReadBidPanics(b)
      PROVE  IInv'
  BY <1>4, ReadBidStep, ReadBidPanicsStep
<1>5. CASE CheckAllowance
  <2>1. CASE /\ GetBidderAllowance(bidder) >= Minimum
             /\ bidPc' = "process" /\ seen' = taken[bidder]
             /\ UNCHANGED <<bid, bidder, preconf>>
    BY <1>5, <2>1, AllowedStep DEF CheckAllowance
  <2>2. CASE EndBid
    BY <1>1, <1>5, <2>2, EndBidStep DEF CheckAllowance, registryVars
  <2> QED
    BY <1>5, <2>1, <2>2 DEF CheckAllowance
<1>6. CASE CheckFailed
  <2>1. faults' \in 0..MaxFaults
    BY <1>6, FaultFacts DEF CheckFailed, IInv, RegistryInv
  <2> QED
    BY <1>6, <2>1, EndBidStep DEF CheckFailed
<1>7. CASE Refuse \/ Reply
  BY <1>1, <1>7, EndBidStep DEF Refuse, Reply, registryVars
<1>8. CASE Accept \/ AcceptFails
  BY <1>8, AcceptStep, AcceptFailsStep
<1> QED
  BY <1>2, <1>3, <1>4, <1>5, <1>6, <1>7, <1>8 DEF Next, HandleBid

\* Whatever calls fail, whatever transactions are reverted or replaced, and whatever
\* is taken from the deposits, a call under way is about the last transaction of its
\* account, an effective one is in the deposit until something is taken from it, and
\* handleBid has of its bid what it has checked, whichever v it is signed with.
THEOREM Invariance == Spec => []IInv
  BY InitIInv, NextIInv, PTL DEF Spec

\* The state keeps its types: amounts fit into 64 bits, and the answer that
\* handleBid gives verifies as the provider's own.
THEOREM TypeCorrect == Spec => []TypeOK
<1>1. IInv => TypeOK
  <2> SUFFICES ASSUME IInv PROVE TypeOK
    OBVIOUS
  <2>1. RegistryTypes
    BY DEF IInv, RegistryInv
  <2>2. RegistryTypeOK
    BY <2>1, TxType DEF RegistryTypes, RegistryTypeOK, TxRecords
  <2>3. bidPc # "idle" => bidder \in Bidders \cup {Stranger}
    BY VerifiedBid DEF IInv, BidInv
  <2>4. bidPc = "reply" => Commitment(preconf).provider = Self
    BY DEF IInv, BidInv, Commitment
  <2> QED
    BY <2>2, <2>3, <2>4 DEF TypeOK, IInv, BidInv, StoredInv, CallData
<1> QED
  BY <1>1, Invariance, PTL

\* RegisterStake and PrepayAllowance answer with an amount only once their own
\* transaction has been mined, and with at least what it deposited if nothing has
\* been taken since.
THEOREM Answers == Spec => []AnswerIsReal
<1>1. IInv => AnswerIsReal
  <2> SUFFICES ASSUME IInv, NEW a \in Accounts, answered[a] > 0
               PROVE  /\ txs[TxOf(a)].status \in {"ok", "reverted"}
                      /\ txs[TxOf(a)].status = "ok" /\ txs[TxOf(a)].taken = taken[a]
                           => answered[a] >= txs[TxOf(a)].amount
    BY DEF AnswerIsReal
  <2>1. PICK i \in Txs : IsLast(a, i) /\ txs[i].status \in Mined
                         /\ (txs[i].status = "ok" /\ txs[i].taken = taken[a]
                               => answered[a] >= txs[i].amount)
    BY DEF IInv, RegistryInv, CallOK
  <2>2. TxOf(a) = i
    BY <2>1, TxOfLast DEF IInv, RegistryInv, RegistryTypes
  <2> QED
    BY <2>1, <2>2 DEF Mined
<1> QED
  BY <1>1, Invariance, PTL

\* A program whose deposit has taken effect, or may still do so, deposits again only
\* when it was told that one of the two had failed, or when something was taken from
\* the account in between.
THEOREM PaidOnce == Spec => []PaidTwiceOnlyAfterError
  BY Invariance, PTL DEF IInv, RegistryInv

\* How far an OK for a deposit that was not made reaches: its transaction was mined,
\* and reverted.  A transaction that is pending or was replaced is never reported as
\* successful.
THEOREM OkIsMined == Spec => [](\A i \in Txs : txs[i].told = "ok" => txs[i].status \in Mined)
<1>1. IInv => \A i \in Txs : txs[i].told = "ok" => txs[i].status \in Mined
  BY DEF IInv, RegistryInv, TxOK
<1> QED
  BY <1>1, Invariance, PTL

\* The contract recovers from every stored commitment the provider, and the bidder
\* that handleBid looked up if the bid has a v for Solidity: what it hashes are the
\* numbers that both have signed, although it gets 64 bits of each.  The bidder's
\* allowance is still enough unless something was taken from it since.
THEOREM Signed == Spec => []StoredAsSigned
<1>1. IInv => StoredAsSigned
  BY DEF IInv, StoredInv, StoredAsSigned, CallData, Covered
<1> QED
  BY <1>1, Invariance, PTL

\* Nothing in a stored commitment is forged or paired with something else: its bid
\* was signed by the account whose allowance was looked up, which is a bidder's,
\* over the numbers that were stored, and its commitment by the provider's own key
\* over these, that bid and that signature.
NothingForged ==
  \A c \in stored :
    /\ c.bidder \in Bidders
    /\ c.bidSignature.key = c.bidder
    /\ c.bidSignature.over = ContractBidHash(c)
    /\ c.commitmentSignature.key = Self
    /\ c.commitmentSignature.over = ContractCommitmentHash(c)

\* Who can be recovered has signed.
LEMMA RecoveredSigned ==
  ASSUME NEW hashes, NEW sig \in Signatures(hashes), NEW hash, NEW a \in Accounts,
         eipVerify(hash, hash, sig) = a \/ ecrecover(hash, sig) = a
  PROVE  sig.key = a /\ sig.over = hash
<1>1. a # Nil /\ a # Stranger
  BY SettlementAssumption
<1>2. PICK v : SigToPub(hash, [sig EXCEPT !.v = v]) = a
  BY DEF ecrecover, eipVerify
<1> DEFINE w == [sig EXCEPT !.v = v]
<1>3. w.key = sig.key /\ w.over = sig.over /\ SigToPub(hash, w) = a
  BY <1>2 DEF Signatures
<1> HIDE DEF w
<1> QED
  BY <1>1, <1>3 DEF SigToPub

\* storeCommitment is only called with a bid that its bidder signed and that this
\* provider committed to, although VerifyBid and the allowance check know the bidder
\* only as the address that was recovered.
THEOREM Unforged == Spec => []NothingForged
<1>1. IInv => NothingForged
  <2> SUFFICES ASSUME IInv, NEW c \in stored
               PROVE  /\ c.bidder \in Bidders
                      /\ c.bidSignature.key = c.bidder
                      /\ c.bidSignature.over = ContractBidHash(c)
                      /\ c.commitmentSignature.key = Self
                      /\ c.commitmentSignature.over = ContractCommitmentHash(c)
    BY DEF NothingForged
  <2>1. CallData(c)
    BY DEF IInv, StoredInv
  <2>2. c.bidder \in Bidders
    BY DEF IInv, StoredInv, Covered
  <2>3. c.bidder \in Accounts /\ Self \in Accounts
    BY <2>2, SettlementAssumption DEF Accounts
  <2> QED
    BY <2>1, <2>2, <2>3, RecoveredSigned DEF CallData
<1> QED
  BY <1>1, Invariance, PTL
=============================================================================
