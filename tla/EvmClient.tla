----------------------------- MODULE EvmClient ------------------------------
(***************************************************************************)
(* pkg/evmclient/evmclient.go over what the monitor promises (TxWatch,     *)
(* which TxMonitor implements): nonces for the account's                   *)
(* transactions, cancellation by a transaction of the same nonce, the list *)
(* of pending transactions, and the goroutines and callers that wait.      *)
(*                                                                         *)
(* c.mtx is held across the RPC calls of Send and CancelTx, so each is two *)
(* steps with the lock taken between them, and the chain moves on in       *)
(* between.  The channel that waitForTxn's goroutine for t gets from       *)
(* watchTx is the waiter t; a WaitForReceipt caller is a waiter too.       *)
(***************************************************************************)
EXTENDS TxWatch, FiniteSets

CONSTANTS
  Callers,      \* calls of WaitForReceipt
  maxSentTxs,   \* how far nonces may run ahead of the last confirmed one
  MaxForeign    \* bound: nonces of other senders that CancelTx takes

ASSUME WaiterAssumption == Waiters = Txs \cup Callers /\ Txs \cap Callers = {}
ASSUME MaxSentAssumption == maxSentTxs \in Nat

VARIABLES
  nonce,      \* c.nonce
  sentTxs,    \* keys of c.sentTxs
  mtx,        \* who holds c.mtx across an RPC: the transaction to be sent
  goPc,       \* where waitForTxn's goroutine for a transaction is
  callPc,     \* where each WaitForReceipt call is
  callTx,     \* the hash it asks for
  fromSend,   \* transactions that Send (not CancelTx) handed to the node
  foreign     \* unsent nonces that CancelTx took from transactions of other senders

history == <<fromSend, foreign>>
clientVars == <<nonce, sentTxs, mtx, goPc, callPc, callTx, history>>
vars == <<watchSpecVars, clientVars>>

Submission == [op : {"send", "cancel", "foreign"}, tx : Txs, nonce : Nonces]

\* The types of the whole client.
TypeOK ==
  /\ WatchTypeOK
  /\ nonce \in Nat
  /\ sentTxs \in SUBSET Txs
  /\ mtx \in Submission \cup {None}
  /\ goPc \in [Txs -> {"none", "watch", "wait", "forget", "done"}]
  /\ callPc \in [Callers -> {"idle", "watch", "wait", "notfound", "done"}]
  /\ callTx \in [Callers -> Txs \cup {None}]
  /\ fromSend \in SUBSET Txs
  /\ foreign \in SUBSET Nonces

Init ==
  /\ WatchInit
  /\ nonce = 0
  /\ sentTxs = {}
  /\ mtx = None
  /\ goPc = [t \in Txs |-> "none"]
  /\ callPc = [c \in Callers |-> "idle"]
  /\ callTx = [c \in Callers |-> None]
  /\ fromSend = {}
  /\ foreign = {}

-----------------------------------------------------------------------------
(***************************************************************************)
(* Seeded faults: variants of the definitions they are named after.        *)
(***************************************************************************)
allowNonce_OffByOne(n) == n <= lastConfirmedNonce + maxSentTxs + 1

\* Only the local counter is used.
localNonce_NoAccount(account) == nonce

\* c.nonce++ comes before SendTransaction.
SubmitFails_NonceTaken ==
  /\ mtx # None
  /\ mtx' = None
  /\ nonce' = nonce + 1
  /\ UNCHANGED <<watchSpecVars, sentTxs, goPc, callPc, callTx, history>>

\* The goroutine returns without deleting the hash.
GoResult_NoDelete(t) ==
  /\ goPc[t] = "wait" /\ res[t] # "none"
  /\ goPc' = [goPc EXCEPT ![t] = "done"]
  /\ UNCHANGED <<watchSpecVars, nonce, sentTxs, mtx, callPc, callTx, history>>

\* A hash that is no longer pending is not registered with the monitor.
CallWatch_OnlyPending(c) ==
  /\ callPc[c] = "watch"
  /\ IF callTx[c] \in sentTxs
       THEN Register(c, callTx[c])
       ELSE UNCHANGED watchSpecVars
  /\ callPc' = [callPc EXCEPT ![c] = "wait"]
  /\ UNCHANGED <<nonce, sentTxs, mtx, goPc, callTx, history>>

-----------------------------------------------------------------------------
(***************************************************************************)
(* getNonce: what it returns, and c.nonce after it, when PendingNonceAt    *)
(* answers account.  c.nonce only grows, and the first nonce is answered   *)
(* without looking at it.                                                  *)
(***************************************************************************)
localNonce(account) == IF account > nonce THEN account ELSE nonce

getNonce(account) == IF account = 0 THEN 0 ELSE localNonce(account)

\* The monitor's allowNonce.
allowNonce(n) == n <= lastConfirmedNonce + maxSentTxs

\* Send: lock, getNonce, allowNonce, and the transaction is built and signed.
SendPrepare(t) ==
  /\ mtx = None
  /\ txNonce[t] = None
  /\ \E account \in 0..MaxNonce :
       /\ PendingNonceAt(account)
       /\ allowNonce(getNonce(account))
       /\ getNonce(account) \in Nonces
       /\ mtx' = [op |-> "send", tx |-> t, nonce |-> getNonce(account)]
       /\ nonce' = localNonce(account)
  /\ UNCHANGED <<watchSpecVars, sentTxs, goPc, callPc, callTx, history>>

\* Send returns "too many pending transactions", or an error of newTx or SignTx.
\* What getNonce did to c.nonce stays.
SendRefused ==
  /\ mtx = None
  /\ \E account \in 0..MaxNonce :
       /\ PendingNonceAt(account)
       /\ nonce' = localNonce(account)
  /\ UNCHANGED <<watchSpecVars, sentTxs, mtx, goPc, callPc, callTx, history>>

\* CancelTx: lock, TransactionByHash finds a pending transaction, and u is built
\* with its nonce and a higher fee.  The transaction is one of the client's ...
CancelPrepare(t, u) ==
  /\ mtx = None
  /\ t \in pool
  /\ txNonce[u] = None
  /\ mtx' = [op |-> "cancel", tx |-> u, nonce |-> txNonce[t]]
  /\ UNCHANGED <<watchSpecVars, nonce, sentTxs, goPc, callPc, callTx, history>>

\* The account has neither used up n nor a transaction with it in the pool.
Unsent(n) == n >= chainNonce /\ \A t \in pool : txNonce[t] # n

\* ... or anybody's: CancelTx does not look at its sender, whose nonces are others.
\* If the account has a transaction with the nonce in the pool, that one is
\* replaced, as above; if it has used the nonce up, SendTransaction fails.
CancelForeign(u) ==
  /\ mtx = None
  /\ Cardinality(foreign) < MaxForeign
  /\ txNonce[u] = None
  /\ \E n \in Nonces :
       /\ Unsent(n)
       /\ mtx' = [op |-> "foreign", tx |-> u, nonce |-> n]
  /\ UNCHANGED <<watchSpecVars, nonce, sentTxs, goPc, callPc, callTx, history>>

\* The node has the transaction.
Taken ==
  /\ Submit(mtx.tx, mtx.nonce)
  /\ fromSend' = IF mtx.op = "send" THEN fromSend \cup {mtx.tx} ELSE fromSend
  /\ foreign' = IF mtx.op = "foreign" THEN foreign \cup {mtx.nonce} ELSE foreign

\* SendTransaction succeeds: the transaction is recorded, waitForTxn starts its
\* goroutine, and the lock is released.
SubmitOK ==
  /\ mtx # None
  /\ Taken
  /\ nonce' = IF mtx.op = "send" THEN nonce + 1 ELSE nonce
  /\ sentTxs' = sentTxs \cup {mtx.tx}
  /\ goPc' = [goPc EXCEPT ![mtx.tx] = "watch"]
  /\ mtx' = None
  /\ UNCHANGED <<tellVars, callPc, callTx>>

\* SendTransaction reports an error although the node took the transaction.
SubmitLost ==
  /\ mtx # None
  /\ Taken
  /\ mtx' = None
  /\ UNCHANGED <<tellVars, nonce, sentTxs, goPc, callPc, callTx>>

\* SendTransaction fails (a nonce used up in the meantime, for one).
SubmitFails ==
  /\ mtx # None
  /\ mtx' = None
  /\ UNCHANGED <<watchSpecVars, nonce, sentTxs, goPc, callPc, callTx, history>>

-----------------------------------------------------------------------------
(***************************************************************************)
(* waitForTxn's goroutine.  On a Result with an error it tests err, which  *)
(* is nil there, and not receipt.Err: it returns on every error.           *)
(***************************************************************************)
GoWatch(t) ==
  /\ goPc[t] = "watch"
  /\ Register(t, t)
  /\ goPc' = [goPc EXCEPT ![t] = "wait"]
  /\ UNCHANGED <<nonce, sentTxs, mtx, callPc, callTx, history>>

GoResult(t) ==
  /\ goPc[t] = "wait"
  /\ res[t] # "none"
  /\ goPc' = [goPc EXCEPT ![t] = IF res[t] = "receipt" THEN "forget" ELSE "done"]
  /\ UNCHANGED <<watchSpecVars, nonce, sentTxs, mtx, callPc, callTx, history>>

\* delete(c.sentTxs, txnHash), under c.mtx.
GoForget(t) ==
  /\ goPc[t] = "forget"
  /\ mtx = None
  /\ sentTxs' = sentTxs \ {t}
  /\ goPc' = [goPc EXCEPT ![t] = "done"]
  /\ UNCHANGED <<watchSpecVars, nonce, mtx, callPc, callTx, history>>

(***************************************************************************)
(* WaitForReceipt(t), for a hash that Send or CancelTx returned: the       *)
(* lookup under c.mtx, watchTx after the unlock, then the select.          *)
(***************************************************************************)
Returned(t) == goPc[t] # "none"

CallLookUp(c, t) ==
  /\ callPc[c] = "idle"
  /\ mtx = None
  /\ Returned(t)
  /\ callTx' = [callTx EXCEPT ![c] = t]
  /\ callPc' = [callPc EXCEPT ![c] = IF t \in sentTxs THEN "watch" ELSE "notfound"]
  /\ UNCHANGED <<watchSpecVars, nonce, sentTxs, mtx, goPc, history>>

CallWatch(c) ==
  /\ callPc[c] = "watch"
  /\ Register(c, callTx[c])
  /\ callPc' = [callPc EXCEPT ![c] = "wait"]
  /\ UNCHANGED <<nonce, sentTxs, mtx, goPc, callTx, history>>

\* case receipt := <-res
CallResult(c) ==
  /\ callPc[c] = "wait"
  /\ res[c] # "none"
  /\ callPc' = [callPc EXCEPT ![c] = "done"]
  /\ UNCHANGED <<watchSpecVars, nonce, sentTxs, mtx, goPc, callTx, history>>

\* case <-ctx.Done(): the channel stays in the monitor's map.
CallCtxDone(c) ==
  /\ callPc[c] = "wait"
  /\ callPc' = [callPc EXCEPT ![c] = "done"]
  /\ UNCHANGED <<watchSpecVars, nonce, sentTxs, mtx, goPc, callTx, history>>

-----------------------------------------------------------------------------
\* The monitor and the chain run beside the client.
MonitorRuns == WatchStep /\ UNCHANGED clientVars
ChainRuns == ChainMoves /\ UNCHANGED clientVars

ClientStep ==
  \/ \E t \in Txs : SendPrepare(t)
  \/ SendRefused
  \/ \E t, u \in Txs : CancelPrepare(t, u)
  \/ \E u \in Txs : CancelForeign(u)
  \/ SubmitOK
  \/ SubmitLost
  \/ SubmitFails
  \/ \E t \in Txs : GoWatch(t) \/ GoResult(t) \/ GoForget(t)
  \/ \E c \in Callers, t \in Txs : CallLookUp(c, t)
  \/ \E c \in Callers : CallWatch(c) \/ CallResult(c) \/ CallCtxDone(c)

Next == ClientStep \/ MonitorRuns \/ ChainRuns

Spec == Init /\ [][Next]_vars

(***************************************************************************)
(* Fairness: goroutines and calls run; an RPC under c.mtx returns; the     *)
(* mutex is handed to everybody who waits for it (sync.Mutex does not      *)
(* starve); and the monitor tells the waiters of a settled transaction,    *)
(* which is TxMonitor's SettledIsTold.                                     *)
(***************************************************************************)
TellWaiter(w) ==
  /\ \E t \in Txs, W \in SUBSET Waiters : w \in W /\ Tell(t, W)
  /\ ~closed
  /\ UNCHANGED clientVars

FairSpec ==
  /\ Spec
  /\ WF_vars(SubmitOK \/ SubmitLost \/ SubmitFails)
  /\ \A w \in Waiters : WF_vars(TellWaiter(w))
  /\ \A t \in Txs : /\ WF_vars(GoWatch(t)) /\ WF_vars(GoResult(t))
                    /\ SF_vars(GoForget(t))
  /\ \A c \in Callers : WF_vars(CallWatch(c)) /\ WF_vars(CallResult(c))

-----------------------------------------------------------------------------
\* The nonces in flight stay within maxSentTxs of the account's nonce, although
\* allowNonce compares with a lastConfirmedNonce that is read by another
\* goroutine at another time, and CancelTx does not ask at all: only a nonce that
\* it took from another sender is out of the window.
PoolWindow ==
  \A t \in pool : txNonce[t] <= chainNonce + maxSentTxs \/ txNonce[t] \in foreign

\* A transaction of Send is displaced only by CancelTx: unless the pool drops
\* transactions, no later Send takes its nonce, whatever others send from the
\* account, whatever SendTransaction reports and whatever CancelTx is asked for.
OnlyCancelReplaces ==
  dropped = {} =>
    \A t \in fromSend :
      \/ t \in pool
      \/ Settled(t)
      \/ \E u \in Txs \ fromSend : Known(u) /\ txNonce[u] = txNonce[t]

\* As long as the pool drops nothing, no transaction waits behind a nonce that
\* nobody has sent, but for one with a nonce that CancelTx took from another sender.
NoNonceGap ==
  dropped = {} =>
    \A t \in pool : txNonce[t] \notin foreign =>
      \A n \in chainNonce..txNonce[t] : \E u \in pool : txNonce[u] = n

\* A transaction of ours that is mined leaves the list of pending ones, unless
\* the client is closed first.
MinedLeavesPending ==
  \A t \in Txs : (t \in sentTxs /\ Mined(t)) ~> (t \notin sentTxs \/ closed)

\* WaitForReceipt does not hang on a settled transaction: a call that found the
\* hash ends even when the transaction was settled, its other waiters told and
\* its hash deleted between the lookup and watchTx.
CallsEnd ==
  \A c \in Callers :
    (callPc[c] = "watch" /\ Settled(callTx[c])) ~> (callPc[c] = "done" \/ closed)
=============================================================================
