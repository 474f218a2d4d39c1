------------------------------ MODULE Registry ------------------------------
(***************************************************************************)
(* The deposits that let a node take part: a provider's stake and a        *)
(* bidder's prepaid allowance.  A client program (integrationtest/provider *)
(* and integrationtest/bidder) asks its node what the account has and      *)
(* deposits what is missing; the node's RPC service (pkg/rpc) validates    *)
(* the request and calls the wrapper of the contract (pkg/contracts),      *)
(* which sends a transaction, waits for its receipt and reads the deposit. *)
(*                                                                         *)
(* A client has an account of its own, and the program makes one call at a *)
(* time.  The chain keeps a transaction until it is mined or replaced by   *)
(* one with the same nonce.  The contracts, which are not part of the      *)
(* repository, may take from a deposit at any time: a bidder's allowance   *)
(* is spent, a provider's stake slashed.                                   *)
(***************************************************************************)
EXTENDS Signer, FiniteSets, Sequences

CONSTANTS
  Providers,    \* accounts of provider nodes
  Bidders,      \* accounts of bidder nodes
  Stake,        \* what CheckAndStake stakes
  TopUp,        \* checkOrPrepay prepays TopUp times the minimum
  Requests,     \* amounts that are posted to the node's HTTP gateway
  Leftovers,    \* what may be left of a deposit when something is taken from it
  Minimum,      \* minStake and minPrepay of the contracts
  MaxTx,        \* bound: transactions sent
  MaxPosts,     \* bound: transactions up to which amounts are posted
  MaxTaken,     \* bound: times something is taken from one deposit, and then from none
  MaxFaults     \* bound: failed calls of the RPC node, reverted or replaced transactions

Accounts == Providers \cup Bidders

ASSUME RegistryAssumption ==
  /\ Providers \cap Bidders = {}
  /\ {Stake, Minimum, TopUp, MaxTx, MaxPosts, MaxTaken, MaxFaults} \subseteq Nat
  /\ Requests \subseteq Nat /\ Leftovers \subseteq Nat
  /\ Minimum > 0 /\ TopUp > 1

VARIABLES
  clientPc,    \* where the call of each client is
  arg,         \* the amount it is about: read of the chain, then asked for
  answered,    \* the amount of an OK answer, 0 when there is none
  txs,         \* the transactions that were submitted, in order
  deposit,     \* the contracts: what each account has deposited
  taken,       \* how often something was taken from it; a transaction has the
               \* number of when it was sent, and once it is mined of when it was
  faults

clientVars == <<clientPc, arg, answered>>
chainVars == <<txs, deposit, taken>>
registryVars == <<clientVars, chainVars, faults>>

Txs == 1..Len(txs)

\* The transaction that the client's call is about: its last one.
TxOf(a) == CHOOSE i \in Txs : txs[i].from = a /\ \A j \in Txs : txs[j].from = a => j <= i

RegistryTypeOK ==
  /\ clientPc \in [Accounts -> {"idle", "check", "min", "request", "send", "wait", "read"}]
  /\ {arg, answered, deposit} \subseteq [Accounts -> Nat]
  /\ \A i \in Txs :
       txs[i] \in [from : Accounts, amount : 1..(2^Width - 1),
                   status : {"pending", "ok", "reverted", "replaced"},
                   told : {"none", "ok", "err"}, taken : 0..MaxTaken]
  /\ taken \in [Accounts -> 0..MaxTaken]
  /\ Len(txs) <= MaxTx
  /\ faults \in 0..MaxFaults

RegistryInit ==
  /\ clientPc = [a \in Accounts |-> "idle"]
  /\ arg = [a \in Accounts |-> 0]
  /\ answered = [a \in Accounts |-> 0]
  /\ txs = <<>>
  /\ deposit = [a \in Accounts |-> 0]
  /\ taken = [a \in Accounts |-> 0]
  /\ faults = 0

Fault == faults < MaxFaults /\ faults' = faults + 1

Goto(a, l) == clientPc' = [clientPc EXCEPT ![a] = l]

\* The call ends for the program, which has been told so about its transaction.
Return(a, amount) ==
  /\ Goto(a, "idle")
  /\ answered' = [answered EXCEPT ![a] = amount]
  /\ arg' = [arg EXCEPT ![a] = 0]

Told(a, how) == txs' = [txs EXCEPT ![TxOf(a)].told = how]

-----------------------------------------------------------------------------
(***************************************************************************)
(* Seeded faults: variants of the definitions they are named after.        *)
(***************************************************************************)
\* The amount has only to be positive.
ValidAmount_Wide(n) == n # NotANumber /\ n > 0

\* The stake is not looked up first.
CheckAndStake_NoCheck(a) ==
  /\ clientPc[a] = "check" /\ a \in Providers
  /\ Goto(a, "request")
  /\ arg' = [arg EXCEPT ![a] = Stake]
  /\ UNCHANGED <<answered, chainVars, faults>>

\* The receipt is not waited for.
WaitForReceipt_Skipped(a) ==
  /\ clientPc[a] = "wait"
  /\ Goto(a, "read")
  /\ UNCHANGED <<arg, answered, chainVars, faults>>

\* The comparison is the wrong way round.
GetMinAllowance_Swapped(a) ==
  /\ clientPc[a] = "min"
  /\ \/ arg[a] < Minimum /\ Return(a, 0)
     \/ /\ arg[a] >= Minimum
        /\ Goto(a, "request")
        /\ arg' = [arg EXCEPT ![a] = TopUp * Minimum]
        /\ UNCHANGED answered
  /\ UNCHANGED <<chainVars, faults>>

-----------------------------------------------------------------------------
(***************************************************************************)
(* The client programs.  The provider's runs once and is started again     *)
(* when it failed; the bidder's looks every hour.                          *)
(***************************************************************************)
Start(a) ==
  /\ clientPc[a] = "idle"
  /\ Goto(a, "check")
  /\ answered' = [answered EXCEPT ![a] = 0]
  /\ UNCHANGED <<arg, chainVars, faults>>

\* Somebody posts an amount to the gateway while the program is not at it; the
\* amount is a part of the path and goes on unchanged.
Post(a) ==
  /\ clientPc[a] = "idle" /\ Len(txs) < MaxPosts
  /\ \E n \in Requests : arg' = [arg EXCEPT ![a] = n]
  /\ Goto(a, "request")
  /\ answered' = [answered EXCEPT ![a] = 0]
  /\ UNCHANGED <<chainVars, faults>>

PostRegisterStake(a) == a \in Providers /\ Post(a)
PostPrepayAllowance(a) == a \in Bidders /\ Post(a)

\* What the contract says of a provider.
GetStake(a) == deposit[a]

CheckAndStake(a) ==
  /\ clientPc[a] = "check" /\ a \in Providers
  /\ \/ GetStake(a) > 0 /\ Return(a, 0)
     \/ /\ GetStake(a) = 0
        /\ Goto(a, "request")
        /\ arg' = [arg EXCEPT ![a] = Stake]
        /\ UNCHANGED answered
  /\ UNCHANGED <<chainVars, faults>>

GetAllowance(a) ==
  /\ clientPc[a] = "check" /\ a \in Bidders
  /\ Goto(a, "min")
  /\ arg' = [arg EXCEPT ![a] = deposit[a]]
  /\ UNCHANGED <<answered, chainVars, faults>>

GetMinAllowance(a) ==
  /\ clientPc[a] = "min"
  /\ \/ arg[a] > Minimum /\ Return(a, 0)
     \/ /\ arg[a] <= Minimum
        /\ Goto(a, "request")
        /\ arg' = [arg EXCEPT ![a] = TopUp * Minimum]
        /\ UNCHANGED answered
  /\ UNCHANGED <<chainVars, faults>>

\* One of these reads fails.
CheckFails(a) ==
  /\ clientPc[a] \in {"check", "min"}
  /\ Fault
  /\ Return(a, 0)
  /\ UNCHANGED chainVars

-----------------------------------------------------------------------------
(***************************************************************************)
(* The node's RPC service: RegisterStake and PrepayAllowance.              *)
(***************************************************************************)
\* this.matches('^[0-9]+$') && uint(this) > 0, where uint() fails on what
\* does not fit into 64 bits.
ValidAmount(n) == n # NotANumber /\ n > 0 /\ n < 2^Width

RegisterStake(a) ==
  /\ clientPc[a] = "request" /\ a \in Providers
  /\ \/ ValidAmount(arg[a]) /\ Goto(a, "send") /\ UNCHANGED <<arg, answered>>
     \/ ~ValidAmount(arg[a]) /\ Return(a, 0)
  /\ UNCHANGED <<chainVars, faults>>

PrepayAllowance(a) ==
  /\ clientPc[a] = "request" /\ a \in Bidders
  /\ \/ ValidAmount(arg[a]) /\ Goto(a, "send") /\ UNCHANGED <<arg, answered>>
     \/ ~ValidAmount(arg[a]) /\ Return(a, 0)
  /\ UNCHANGED <<chainVars, faults>>

\* registerAndStake and prepay: the transaction that carries the amount.
Submitted(a, told) ==
  txs' = Append(txs, [from |-> a, amount |-> arg[a], status |-> "pending",
                      told |-> told, taken |-> taken[a]])

Send(a) ==
  /\ clientPc[a] = "send" /\ Len(txs) < MaxTx
  /\ Goto(a, "wait")
  /\ Submitted(a, "none")
  /\ UNCHANGED <<arg, answered, deposit, taken, faults>>

\* Send fails before the RPC node had the transaction, or after it.
SendFails(a) ==
  /\ clientPc[a] = "send"
  /\ Fault
  /\ Return(a, 0)
  /\ \/ UNCHANGED txs
     \/ Len(txs) < MaxTx /\ Submitted(a, "err")
  /\ UNCHANGED <<deposit, taken>>

\* A receipt, whatever its status says: the error that is returned for a
\* failed transaction is the nil one of the call before.
WaitForReceipt(a) ==
  /\ clientPc[a] = "wait"
  /\ txs[TxOf(a)].status \in {"ok", "reverted"}
  /\ Goto(a, "read")
  /\ UNCHANGED <<arg, answered, chainVars, faults>>

\* errTxCancelled: another transaction took the nonce.
WaitIsCancelled(a) ==
  /\ clientPc[a] = "wait"
  /\ txs[TxOf(a)].status = "replaced"
  /\ Return(a, 0)
  /\ Told(a, "err")
  /\ UNCHANGED <<deposit, taken, faults>>

\* The transaction is not found, the receipt cannot be read, or the caller
\* has gone.
WaitForReceiptFails(a) ==
  /\ clientPc[a] = "wait"
  /\ Fault
  /\ Return(a, 0)
  /\ Told(a, "err")
  /\ UNCHANGED <<deposit, taken>>

\* The deposit is read again, for the answer.
GetDeposit(a) ==
  /\ clientPc[a] = "read"
  /\ Return(a, deposit[a])
  /\ Told(a, "ok")
  /\ UNCHANGED <<deposit, taken, faults>>

GetDepositFails(a) ==
  /\ clientPc[a] = "read"
  /\ Fault
  /\ Return(a, 0)
  /\ Told(a, "err")
  /\ UNCHANGED <<deposit, taken>>

-----------------------------------------------------------------------------
(***************************************************************************)
(* The chain.                                                              *)
(***************************************************************************)
Mine(i) ==
  /\ txs[i].status = "pending"
  /\ txs' = [txs EXCEPT ![i].status = "ok", ![i].taken = taken[txs[i].from]]
  /\ deposit' = [deposit EXCEPT ![txs[i].from] = @ + txs[i].amount]
  /\ UNCHANGED <<clientVars, taken, faults>>

MineFails(i) ==
  /\ txs[i].status = "pending"
  /\ Fault
  /\ \E s \in {"reverted", "replaced"} : txs' = [txs EXCEPT ![i].status = s]
  /\ UNCHANGED <<clientVars, deposit, taken>>

\* A part of the deposit, or all of it, is spent or slashed.
TakeDeposit(a) ==
  /\ \A b \in Accounts : taken[b] < MaxTaken
  /\ \E left \in Leftovers : left < deposit[a] /\ deposit' = [deposit EXCEPT ![a] = left]
  /\ taken' = [taken EXCEPT ![a] = @ + 1]
  /\ UNCHANGED <<clientVars, txs, faults>>

Client(a) ==
  \/ CheckAndStake(a) \/ GetAllowance(a) \/ GetMinAllowance(a)
  \/ RegisterStake(a) \/ PrepayAllowance(a) \/ Send(a)
  \/ WaitForReceipt(a) \/ WaitIsCancelled(a) \/ GetDeposit(a)

ClientFails(a) ==
  CheckFails(a) \/ SendFails(a) \/ WaitForReceiptFails(a) \/ GetDepositFails(a)

RegistryNext ==
  \/ \E a \in Accounts : \/ Start(a) \/ PostRegisterStake(a) \/ PostPrepayAllowance(a)
                       \/ Client(a) \/ ClientFails(a) \/ TakeDeposit(a)
  \/ \E i \in Txs : Mine(i) \/ MineFails(i)
=============================================================================
