------------------------------- MODULE Chain --------------------------------
(***************************************************************************)
(* The settlement chain as pkg/evmclient sees it through one JSON-RPC      *)
(* node: the transactions of the owner's account, the node's pool and the  *)
(* nonce slots filled so far.  Everything here is external to the          *)
(* repository; it is what the client's calls (SendTransaction, NonceAt,    *)
(* PendingNonceAt, eth_getTransactionReceipt) read and change.             *)
(*                                                                         *)
(* The node answers from one consistent state and mined slots are final.   *)
(***************************************************************************)
EXTENDS Integers

CONSTANTS
  Txs,        \* transaction hashes of the owner's account
  MaxNonce,   \* bound: nonces below MaxNonce are used
  None,       \* no value
  External    \* a transaction sent from the account by somebody else

ASSUME MaxNonceAssumption == MaxNonce \in Nat
ASSUME ChainNoneAssumption ==
  /\ None \notin Txs \cup {External}
  /\ External \notin Txs
  /\ \A n \in 0..MaxNonce : n # None

VARIABLES
  txNonce,     \* the nonce of each transaction handed to the node
  pool,        \* transactions waiting in the node's pool
  dropped,     \* transactions the pool evicted
  mined,       \* what fills each nonce slot
  chainNonce   \* the account's nonce at the latest block

chainVars == <<txNonce, pool, dropped, mined, chainNonce>>

Nonces == 0 .. MaxNonce - 1

ChainTypeOK ==
  /\ txNonce \in [Txs -> Nonces \cup {None}]
  /\ pool \in SUBSET Txs
  /\ dropped \in SUBSET Txs
  /\ mined \in [Nonces -> Txs \cup {None, External}]
  /\ chainNonce \in 0..MaxNonce

\* The account may have sent transactions before this process started.
ChainInit ==
  /\ txNonce = [t \in Txs |-> None]
  /\ pool = {}
  /\ dropped = {}
  /\ chainNonce \in 0..MaxNonce
  /\ mined = [n \in Nonces |-> IF n < chainNonce THEN External ELSE None]

Known(t) == txNonce[t] # None
Mined(t) == Known(t) /\ mined[txNonce[t]] = t
Settled(t) == Known(t) /\ txNonce[t] < chainNonce

\* n is what PendingNonceAt answers: the first nonce that is neither mined nor
\* in the pool.
PendingNonceAt(n) ==
  /\ n \in chainNonce..MaxNonce
  /\ \A m \in chainNonce..(n - 1) : \E t \in pool : txNonce[t] = m
  /\ \A t \in pool : txNonce[t] # n

\* SendTransaction takes t into the pool, in place of one of the same nonce.
Submit(t, n) ==
  /\ txNonce[t] = None
  /\ n \in chainNonce..(MaxNonce - 1)
  /\ txNonce' = [txNonce EXCEPT ![t] = n]
  /\ pool' = {u \in pool : txNonce[u] # n} \cup {t}
  /\ UNCHANGED <<dropped, mined, chainNonce>>

MineTx(t) ==
  /\ t \in pool
  /\ txNonce[t] = chainNonce
  /\ mined' = [mined EXCEPT ![chainNonce] = t]
  /\ chainNonce' = chainNonce + 1
  /\ pool' = pool \ {t}
  /\ UNCHANGED <<txNonce, dropped>>

\* A transaction somebody else sent from the account is mined; one of ours with
\* the same nonce leaves the pool.
MineExternal ==
  /\ chainNonce < MaxNonce
  /\ mined' = [mined EXCEPT ![chainNonce] = External]
  /\ chainNonce' = chainNonce + 1
  /\ pool' = {u \in pool : txNonce[u] # chainNonce}
  /\ UNCHANGED <<txNonce, dropped>>

\* The pool evicts a transaction.
DropTx(t) ==
  /\ t \in pool
  /\ pool' = pool \ {t}
  /\ dropped' = dropped \cup {t}
  /\ UNCHANGED <<txNonce, mined, chainNonce>>

\* A block with a transaction of the account.
Block == MineExternal \/ \E t \in Txs : MineTx(t)
=============================================================================
